---------------------------- MODULE TcpAcceptor ----------------------------
(***************************************************************************)
(* The TCP listener, src/src/tcp_acceptor.c: listen and listen again, the  *)
(* accept loop, close and destroy from other threads and from on_accept,   *)
(* the deferred release, and a process that runs out of descriptors.       *)
(*                                                                         *)
(* Every listening socket has a number and a queue of the kernel.  A step  *)
(* that needs the lock is enabled when no other thread holds it; only the  *)
(* accept loop holds it over several steps.                                *)
(***************************************************************************)
EXTENDS Naturals, Sequences, FiniteSets

CONSTANTS
  Loop, Worker,  \* the loop thread, other threads
  Fd,            \* descriptors the process may have
  None,
  Backlog,       \* of listen(2)
  MaxListen,     \* bound: listening sockets
  MaxConn        \* bound: connections that arrive

ASSUME AcceptorAssumption ==
  /\ Loop \notin Worker /\ None \notin Fd /\ IsFiniteSet(Fd)
  /\ {Backlog, MaxListen, MaxConn} \subseteq Nat

Thread == {Loop} \cup Worker
Free == <<"free", 0>>

VARIABLES
  acc,    \* struct tcp_acceptor; handle: the descriptor it is registered for
  held,   \* the accept loop has the lock
  open,   \* Fd -> Free, <<"listen", number of the socket>> or <<"conn", connection>>
  queue,  \* listening socket -> connections the kernel holds
  loop,   \* loop thread: "rest", "called", "accept", "callback"
  dpos,   \* Thread -> where it is in destroy
  acc_life,   \* "live", "posted", "freed"
  conns,  \* history: connections so far
  handed  \* history: [conn, from, to]: its listening socket, the listen whose on_accept got it

acceptor_vars == <<acc, held, open, queue, loop, dpos, acc_life, conns, handed>>
listens == Len(queue)

\* struct tcp_acceptor, what a descriptor is used for, and an entry of handed.
Acceptor == [fd : Fd \cup {None}, handle : Fd \cup {None}, on_accept : 0 .. MaxListen, destroyed : BOOLEAN]
Use == {Free} \cup ({"listen"} \X (1 .. MaxListen)) \cup ({"conn"} \X (1 .. MaxConn))
Handover == [conn : 1 .. MaxConn, from : 1 .. MaxListen, to : 0 .. MaxListen]

AcceptorTypeOK ==
  /\ acc \in Acceptor
  /\ held \in BOOLEAN
  /\ open \in [Fd -> Use]
  /\ queue \in Seq(Seq(1 .. MaxConn)) /\ Len(queue) <= MaxListen
  /\ loop \in {"rest", "called", "accept", "callback"}
  /\ dpos \in [Thread -> {"out", "close", "post"}]
  /\ acc_life \in {"live", "posted", "freed"}
  /\ conns \in 0 .. MaxConn
  /\ handed \in Seq(Handover)

AcceptorInit ==
  /\ acc = [fd |-> None, handle |-> None, on_accept |-> 0, destroyed |-> FALSE]
  /\ held = FALSE /\ open = [f \in Fd |-> Free] /\ queue = <<>>
  /\ loop = "rest" /\ dpos = [th \in Thread |-> "out"]
  /\ acc_life = "live" /\ conns = 0 /\ handed = <<>>

Listening(n) == \E f \in Fd : open[f] = <<"listen", n>>
FreeFd == {f \in Fd : open[f] = Free}

\* A thread in user code: a worker, or the loop thread at rest or in on_accept.
\* The object is not used after destroy.
MayCall(th) ==
  /\ dpos[th] = "out" /\ ~acc.destroyed /\ acc_life = "live"
  /\ th = Loop => loop \in {"rest", "callback"}
\* The sockets among {a->fd} that have a connection to accept.
Waiting == {n \in DOMAIN queue : acc.fd # None /\ open[acc.fd] = <<"listen", n>> /\ queue[n] # <<>>}
HasLock(th) == ~held \/ th = Loop

-----------------------------------------------------------------------------
(* Listening. *)

\* Mutant: the callback of an earlier listen is kept.
listen_keeps_callback ==
  /\ MayCall(Loop) /\ acc.fd = None /\ listens < MaxListen
  /\ \E f \in FreeFd :
       /\ acc' = [acc EXCEPT !.fd = f, !.handle = f,
                             !.on_accept = IF @ = 0 THEN listens + 1 ELSE @]
       /\ open' = [open EXCEPT ![f] = <<"listen", listens + 1>>]
  /\ queue' = Append(queue, <<>>)
  /\ UNCHANGED <<held, loop, dpos, acc_life, conns, handed>>

\* [loop thread] Succeeds.  A call with fd >= 0 is refused.
listen ==
  /\ MayCall(Loop) /\ acc.fd = None /\ listens < MaxListen
  /\ \E f \in FreeFd :
       /\ acc' = [acc EXCEPT !.fd = f, !.handle = f, !.on_accept = listens + 1]
       /\ open' = [open EXCEPT ![f] = <<"listen", listens + 1>>]
  /\ queue' = Append(queue, <<>>)
  /\ UNCHANGED <<held, loop, dpos, acc_life, conns, handed>>

\* Fails after socket(): before the object is written (bind, listen, ...) or
\* because the handle cannot be registered, which leaves the new callback.
listen_fails ==
  /\ MayCall(Loop) /\ acc.fd = None /\ listens < MaxListen /\ FreeFd # {}
  /\ acc' \in {acc, [acc EXCEPT !.on_accept = listens + 1]}
  /\ queue' = Append(queue, <<>>)
  /\ UNCHANGED <<held, open, loop, dpos, acc_life, conns, handed>>

\* The kernel completes a connection, unless the backlog is full.
connect(n) ==
  /\ Listening(n) /\ Len(queue[n]) < Backlog /\ conns < MaxConn
  /\ conns' = conns + 1
  /\ queue' = [queue EXCEPT ![n] = Append(@, conns + 1)]
  /\ UNCHANGED <<acc, held, open, loop, dpos, acc_life, handed>>

\* What the kernel does with a closed socket: its queue is dropped.
CloseFd(f) ==
  /\ open' = [open EXCEPT ![f] = Free]
  /\ queue' = [n \in DOMAIN queue |-> IF open[f] = <<"listen", n>> THEN <<>> ELSE queue[n]]

-----------------------------------------------------------------------------
(* The accept loop. *)

\* select finds the descriptor of the handle ready.  Another thread may
\* unregister between the test of the mark and the call (see SeventIo).
select_ready ==
  /\ loop = "rest" /\ dpos[Loop] = "out" /\ acc.handle # None
  /\ \E n \in DOMAIN queue : open[acc.handle] = <<"listen", n>> /\ queue[n] # <<>>
  /\ loop' = "called"
  /\ UNCHANGED <<acc, held, open, queue, dpos, acc_life, conns, handed>>

on_accept_ready ==
  /\ loop = "called" /\ ~held
  /\ IF acc.destroyed THEN loop' = "rest" /\ UNCHANGED held ELSE loop' = "accept" /\ held' = TRUE
  /\ UNCHANGED <<acc, open, queue, dpos, acc_life, conns, handed>>

\* accept(a->fd) succeeds and the callback of the object is called.
accept ==
  /\ loop = "accept"
  /\ \E n \in Waiting, f \in FreeFd :
       /\ open' = [open EXCEPT ![f] = <<"conn", Head(queue[n])>>]
       /\ queue' = [queue EXCEPT ![n] = Tail(@)]
       /\ handed' = Append(handed, [conn |-> Head(queue[n]), from |-> n, to |-> acc.on_accept])
  /\ loop' = "callback"
  /\ UNCHANGED <<acc, held, dpos, acc_life, conns>>

Leave == loop' = "rest" /\ held' = FALSE /\ UNCHANGED <<acc, open, dpos, acc_life, conns, handed>>

\* Mutant: an error is taken as the end of the listener.
accept_fails_unregisters ==
  /\ loop = "accept"
  /\ loop' = "rest" /\ held' = FALSE /\ acc' = [acc EXCEPT !.handle = None]
  /\ UNCHANGED <<open, queue, dpos, acc_life, conns, handed>>

\* accept fails: not listening (EBADF), nothing there (EAGAIN), no descriptor
\* (EMFILE: the connection stays), or the peer has gone (ECONNABORTED: it does not).
accept_fails ==
  /\ loop = "accept"
  /\ \/ (Waiting = {} \/ FreeFd = {}) /\ UNCHANGED queue
     \/ \E n \in Waiting : queue' = [queue EXCEPT ![n] = Tail(@)]
  /\ Leave

on_accept_return ==
  /\ loop = "callback" /\ dpos[Loop] = "out"
  /\ IF acc.destroyed THEN loop' = "rest" /\ held' = FALSE ELSE loop' = "accept" /\ UNCHANGED held
  /\ UNCHANGED <<acc, open, queue, dpos, acc_life, conns, handed>>

\* The user closes an accepted descriptor, or the tcp_conn made of it does.
close_conn(f) ==
  /\ open[f][1] = "conn"
  /\ CloseFd(f)
  /\ UNCHANGED <<acc, held, loop, dpos, acc_life, conns, handed>>

-----------------------------------------------------------------------------
(* close and destroy. *)

\* Mutant: the descriptor number is not cleared.
acc_close_io_keeps_fd ==
  /\ acc' = [acc EXCEPT !.handle = None]
  /\ IF acc.fd = None THEN UNCHANGED <<open, queue>> ELSE CloseFd(acc.fd)

acc_close_io ==
  /\ acc' = [acc EXCEPT !.fd = None, !.handle = None]
  /\ IF acc.fd = None THEN UNCHANGED <<open, queue>> ELSE CloseFd(acc.fd)

sevent_tcp_acceptor_close(th) ==
  /\ MayCall(th) /\ HasLock(th)
  /\ acc_close_io
  /\ UNCHANGED <<held, loop, dpos, acc_life, conns, handed>>

\* destroy marks the object without the lock, closes it under the lock and
\* posts its release.
sevent_tcp_acceptor_destroy(th) ==
  /\ MayCall(th)
  /\ acc' = [acc EXCEPT !.destroyed = TRUE]
  /\ dpos' = [dpos EXCEPT ![th] = "close"]
  /\ UNCHANGED <<held, open, queue, loop, acc_life, conns, handed>>

destroy_close(th) ==
  /\ dpos[th] = "close" /\ HasLock(th)
  /\ acc_close_io
  /\ dpos' = [dpos EXCEPT ![th] = "post"]
  /\ UNCHANGED <<held, loop, acc_life, conns, handed>>

destroy_post(th) ==
  /\ dpos[th] = "post"
  /\ dpos' = [dpos EXCEPT ![th] = "out"] /\ acc_life' = "posted"
  /\ UNCHANGED <<acc, held, open, queue, loop, conns, handed>>

\* A post is run by the loop after the callbacks of the round.
acc_cleanup ==
  /\ acc_life = "posted" /\ loop = "rest"
  /\ acc_life' = "freed"
  /\ UNCHANGED <<acc, held, open, queue, loop, dpos, conns, handed>>

-----------------------------------------------------------------------------
LoopStep == select_ready \/ on_accept_ready \/ accept \/ accept_fails \/ on_accept_return \/ acc_cleanup
Destroying(th) == destroy_close(th) \/ destroy_post(th)

AcceptorNext ==
  \/ LoopStep
  \/ listen \/ listen_fails
  \/ \E n \in DOMAIN queue : connect(n)
  \/ \E f \in Fd : close_conn(f)
  \/ \E th \in Thread : \/ sevent_tcp_acceptor_close(th) \/ sevent_tcp_acceptor_destroy(th)
                        \/ Destroying(th)

AcceptorSpec == AcceptorInit /\ [][AcceptorNext]_acceptor_vars

\* The loop runs on, threads finish destroy, the user returns from on_accept,
\* and closes the descriptors it has been given in the end.
Fairness ==
  /\ WF_acceptor_vars(LoopStep)
  /\ \A th \in Thread : WF_acceptor_vars(Destroying(th))
  /\ \A f \in Fd : WF_acceptor_vars(close_conn(f))

AcceptorFairSpec == AcceptorSpec /\ Fairness

-----------------------------------------------------------------------------
(* Properties *)

\* What the object owns is given back once and after its last use. The listening
\* sockets of the process are the one the object holds: none is left open by a
\* failed listen, by close or by destroy, and the object never holds the number of
\* somebody else's descriptor, which accept, unregister or a second close would
\* then use. Its memory is released when neither the loop in on_accept_ready nor a
\* thread in destroy is going to use it, although on_accept may call destroy.
OwnedOnce ==
  /\ \A f \in Fd : open[f][1] = "listen" <=> f = acc.fd
  /\ acc.handle \in {acc.fd, None}
  /\ acc_life # "live" => acc.fd = None
  /\ acc_life = "freed" => loop = "rest" /\ \A th \in Thread : dpos[th] = "out"

\* A connection is handed to the user at most once, in the order of arrival, and
\* to the on_accept of the listen it came in on, although a callback may close
\* the listener and listen again in the middle of the loop.
HandedRight ==
  /\ \A i, j \in DOMAIN handed :
       i < j => handed[i].conn # handed[j].conn
                /\ (handed[i].from = handed[j].from => handed[i].conn < handed[j].conn)
  /\ \A i \in DOMAIN handed : handed[i].to = handed[i].from

\* A connection that waits in the backlog is taken from it in the end (handed
\* over, or lost with the peer or the listener), although accept may fail for
\* want of a descriptor: the listener stays registered and tries again.
BacklogServed ==
  \A n \in 1 .. MaxListen, c \in 1 .. MaxConn :
    (n \in DOMAIN queue /\ \E i \in DOMAIN queue[n] : queue[n][i] = c)
      ~> ~(n \in DOMAIN queue /\ \E i \in DOMAIN queue[n] : queue[n][i] = c)
=============================================================================
