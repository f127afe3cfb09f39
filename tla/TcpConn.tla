-------------------------------- MODULE TcpConn -------------------------------
(***************************************************************************)
(* The TCP transport of src/src/tcp_conn.c: one connection object, its     *)
(* open, accept, write, shutdown, close and destroy, the callbacks the     *)
(* loop makes on it, and the user callbacks these make.                    *)
(*                                                                         *)
(* With SEVENT_THREAD_SAFE every handler and every call runs under the     *)
(* connection's recursive lock, user callbacks included, so the part of a  *)
(* handler up to its user callback is one step; after the callback returns *)
(* the code only unlocks.  Without it Worker is empty.  The loop decides   *)
(* on a callback without that lock (SeventIo!visit), so a call may reach   *)
(* an object that another thread has closed in between.                    *)
(*                                                                         *)
(* Bytes are numbered within the connection.  The write queue is flat: its *)
(* nodes only matter for being written in order.                           *)
(***************************************************************************)
EXTENDS Naturals, Sequences, SequencesExt

CONSTANTS
  Loop,       \* the loop thread
  Worker,     \* other threads
  Fd,         \* descriptors
  None,
  DestroyAt,  \* where destroy is called: "rest", "loop_cb", "worker_cb"
  AllocFails, \* registrations may fail for want of memory
  PostFails,  \* sevent_post may fail for want of memory
  MaxByte,    \* bound: bytes accepted in one connection
  MaxDepth    \* bound: nested user callbacks

Thread == {Loop} \cup Worker

\* Bytes, by their number in the connection.
Byte == Nat

ASSUME ConnAssumption ==
  /\ Loop \notin Worker /\ None \notin Thread /\ None \notin Fd
  /\ DestroyAt \subseteq {"rest", "loop_cb", "worker_cb"}
  /\ AllocFails \in BOOLEAN /\ PostFails \in BOOLEAN
  /\ MaxByte \in Nat /\ MaxDepth \in Nat

VARIABLES
  state,    \* t->state
  fd,       \* t->fd
  io,       \* the callbacks of t->io_handle, {} when there is none
  timer,    \* t->connect_timer is set
  queue,    \* t->write_head: the bytes not yet written
  pending,  \* t->shutdown_wr_pending
  life,     \* how far destroy has come
  killer,   \* the thread that called destroy
  kernel,   \* open descriptors
  caller,   \* open descriptors that the application owns
  call,     \* the callback the loop is about to make
  owner,    \* the thread inside user callbacks, which holds t->lock
  frames,   \* the user callbacks in progress
  wire,     \* the bytes the kernel took in this connection
  fin,      \* the write side of the connection was shut down
  accepted, \* history: bytes accepted by write in this connection
  asked,    \* history: shutdown(WR) was called in this connection
  told      \* history: the last notification of this connection

link    == <<state, fd, io, timer, queue>>
history == <<accepted, asked, told>>
vars    == <<link, pending, life, killer, kernel, caller, call, owner, frames, wire, fin, history>>

Callback == {"connect", "first", "read", "write", "timeout"}

Notification == {"on_open", "on_data", "on_close", "on_error"}

FlagsOK ==
  timer \in BOOLEAN /\ pending \in BOOLEAN /\ fin \in BOOLEAN /\ asked \in BOOLEAN

TypeOK ==
  /\ FlagsOK
  /\ state \in {"IDLE", "OPENING", "OPEN"} /\ fd \in Fd \cup {None}
  /\ io \in SUBSET (Callback \ {"timeout"})
  /\ queue \in Seq(Byte) /\ wire \in Seq(Byte) /\ accepted \in Nat
  /\ life \in {"alive", "marked", "closed", "posted", "freed", "dropped"}
  /\ killer \in Thread \cup {None}
  /\ kernel \in SUBSET Fd /\ caller \in SUBSET kernel
  /\ call \in Callback \cup {"none"} /\ owner \in Thread \cup {None}
  /\ frames \in Seq(Notification)
  /\ (owner = None <=> frames = <<>>)
  /\ told \in {"fresh", "opened", "ended"}

\* sevent_tcp_conn_create.
Init ==
  /\ state = "IDLE" /\ fd = None /\ io = {} /\ timer = FALSE
  /\ queue = <<>> /\ pending = FALSE /\ life = "alive" /\ killer = None
  /\ kernel = {} /\ caller = {} /\ call = "none" /\ owner = None /\ frames = <<>>
  /\ wire = <<>> /\ fin = FALSE /\ accepted = 0 /\ asked = FALSE /\ told = "ended"

destroyed == life # "alive"

\* A thread inside sevent_tcp_conn_destroy.
Destroying(x) == killer = x /\ life \in {"marked", "closed"}

\* x may call the API: not after destroy, and t->lock is free or held by x.
CanCall(x) == ~destroyed /\ owner \in {None, x} /\ (x = Loop => call = "none")

\* open and accept belong to the loop thread and take no lock.
CanOpen == ~destroyed /\ call = "none" /\ state = "IDLE"

\* The loop runs library code of its own.
LoopFree == call = "none" /\ owner # Loop /\ ~Destroying(Loop)

\* User callback k is called by x, and t->lock held meanwhile.
Notify(x, k) ==
  /\ Len(frames) < MaxDepth
  /\ owner' = x /\ frames' = Append(frames, k)

Quiet == UNCHANGED <<owner, frames>>

-------------------------------------------------------------------------------
(* Helpers of the handlers. *)

tcp_close_io ==
  /\ io' = {}
  /\ kernel' = kernel \ {fd} /\ fd' = None

tcp_queue_clear == queue' = <<>>

\* Mutant: no test for an object that was closed before.
tcp_teardown_again(x, k) ==
  /\ timer' = FALSE
  /\ tcp_close_io /\ tcp_queue_clear
  /\ state' = "IDLE" /\ told' = "ended"
  /\ Notify(x, k)

\* Teardown after an error or end of file; k is on_close or on_error.
tcp_teardown(x, k) ==
  IF destroyed \/ state = "IDLE"
  THEN UNCHANGED <<link, kernel, told>> /\ Quiet
  ELSE /\ timer' = FALSE
       /\ tcp_close_io /\ tcp_queue_clear
       /\ state' = "IDLE" /\ told' = "ended"
       /\ Notify(x, k)

\* Mutant: the write callback is left out.
Interest_read(q) == {"read"}

\* The callbacks tcp_update_io registers for the queue q.
Interest(q) == IF q = <<>> THEN {"read"} ELSE {"read", "write"}

\* Called when the queue is empty: a noted SHUT_WR is carried out.
tcp_maybe_shutdown_wr ==
  /\ fin' = (fin \/ pending)
  /\ pending' = FALSE

\* tcp_flush of queue q: the kernel takes the first k bytes.  After SHUT_WR it
\* takes none and every send fails.
Taken(q, k) == wire' = wire \o SubSeq(q, 1, k)

\* ... all of them;
flush_done(q) == (fin => q = <<>>) /\ Taken(q, Len(q))

\* ... a part of them, then it would block;
flush_blocked(q, k) == k < Len(q) /\ ~fin /\ Taken(q, k)

\* ... a part of them, then a send fails.
flush_failed(x, q, k) ==
  /\ k < Len(q) /\ (fin => k = 0) /\ Taken(q, k)
  /\ tcp_teardown(x, "on_error")
  /\ UNCHANGED <<pending, fin>>

-------------------------------------------------------------------------------
(* The API.  Calls refused by their first tests change nothing. *)

\* The state of a new connection on descriptor f, with callbacks cbs.
Established(f, cbs) ==
  /\ state' = "OPENING" /\ fd' = f /\ io' = cbs
  /\ wire' = <<>> /\ fin' = FALSE
  /\ accepted' = 0 /\ asked' = FALSE /\ told' = "fresh"

\* The descriptor is non-blocking and connecting; the timer is left out for a
\* negative connect_timeout_ms.
sevent_tcp_conn_open(f) ==
  /\ CanOpen
  /\ f \in Fd \ kernel
  /\ kernel' = kernel \cup {f}
  /\ Established(f, {"connect"})
  /\ timer' \in BOOLEAN
  /\ UNCHANGED <<queue, pending, life, killer, caller, call, owner, frames>>

\* Mutant: the descriptor is not closed.
open_fails_leak(f) ==
  /\ AllocFails
  /\ CanOpen
  /\ f \in Fd \ kernel
  /\ kernel' = kernel \cup {f}
  /\ UNCHANGED <<link, pending, life, killer, caller, call, owner, frames, wire, fin, history>>

\* A registration fails: handle and descriptor are given back, the state is
\* IDLE again.
open_fails(f) ==
  /\ AllocFails
  /\ CanOpen
  /\ f \in Fd \ kernel
  /\ UNCHANGED vars

\* A descriptor the application has accepted.
app_accept(f) ==
  /\ f \in Fd \ kernel
  /\ kernel' = kernel \cup {f} /\ caller' = caller \cup {f}
  /\ UNCHANGED <<link, pending, life, killer, call, owner, frames, wire, fin, history>>

app_close(f) ==
  /\ f \in caller
  /\ kernel' = kernel \ {f} /\ caller' = caller \ {f}
  /\ UNCHANGED <<link, pending, life, killer, call, owner, frames, wire, fin, history>>

\* (If it fails the descriptor stays with the application.)
sevent_tcp_conn_accept(f) ==
  /\ CanOpen
  /\ f \in caller
  /\ caller' = caller \ {f}
  /\ Established(f, {"first"})
  /\ UNCHANGED <<timer, queue, pending, life, killer, kernel, call, owner, frames>>

\* The next n bytes of the connection.
NewBytes(n) == [i \in 1..n |-> accepted + i]

\* Mutant: new data is put before the old.
tcp_enqueue_front(n) == NewBytes(n) \o queue

tcp_enqueue(n) == queue \o NewBytes(n)

\* Everything is written, or the rest waits for the write callback, or the
\* registration of that callback or the send fails.
sevent_tcp_conn_write(x, n) ==
  LET q == tcp_enqueue(n)
  IN /\ CanCall(x) /\ state = "OPEN"
     /\ accepted + n <= MaxByte
     /\ accepted' = accepted + n
     /\ \/ /\ flush_done(q)
           /\ queue' = <<>>
           /\ tcp_maybe_shutdown_wr
           /\ Quiet /\ UNCHANGED <<state, fd, io, timer, kernel, told>>
        \/ \E k \in 0..Len(q) :
             /\ flush_blocked(q, k)
             /\ queue' = SubSeq(q, k + 1, Len(q))
             /\ io' = Interest(queue')
             /\ Quiet /\ UNCHANGED <<state, fd, timer, kernel, told, pending, fin>>
        \/ \E k \in 0..Len(q) :
             /\ AllocFails /\ flush_blocked(q, k)
             /\ tcp_teardown(x, "on_close")
             /\ UNCHANGED <<pending, fin>>
        \/ \E k \in 0..Len(q) : flush_failed(x, q, k)
     /\ UNCHANGED <<life, killer, caller, call, asked>>

\* Mutant: SHUT_WR does not wait for the queue.
sevent_tcp_conn_shutdown_now(x) ==
  /\ CanCall(x) /\ state = "OPEN"
  /\ asked' = TRUE /\ fin' = TRUE
  /\ UNCHANGED <<link, pending, life, killer, kernel, caller, call, owner, frames, wire, accepted, told>>

\* SHUT_WR: at once, or noted until the queue is empty.  SHUT_RD makes later
\* reads see the end of file.
sevent_tcp_conn_shutdown(x) ==
  /\ CanCall(x) /\ state = "OPEN"
  /\ asked' = TRUE
  /\ IF queue # <<>> THEN pending' = TRUE /\ UNCHANGED fin
     ELSE fin' = TRUE /\ UNCHANGED pending
  /\ UNCHANGED <<link, life, killer, kernel, caller, call, owner, frames, wire, accepted, told>>

\* The body of sevent_tcp_conn_close.
Closed ==
  /\ timer' = FALSE
  /\ tcp_close_io /\ tcp_queue_clear
  /\ state' = "IDLE" /\ told' = "ended"
  /\ UNCHANGED <<pending, caller, call, owner, frames, wire, fin, accepted, asked>>

sevent_tcp_conn_close(x) ==
  /\ CanCall(x)
  /\ Closed
  /\ UNCHANGED <<life, killer>>

Where(x) == IF owner # x THEN "rest" ELSE IF x = Loop THEN "loop_cb" ELSE "worker_cb"

\* destroy marks the object, without the lock ...
sevent_tcp_conn_destroy(x) ==
  /\ ~destroyed /\ (x = Loop => call = "none")
  /\ Where(x) \in DestroyAt
  /\ life' = "marked" /\ killer' = x
  /\ UNCHANGED <<link, pending, kernel, caller, call, owner, frames, wire, fin, history>>

\* ... closes the connection ...
destroy_close(x) ==
  /\ killer = x /\ life = "marked" /\ owner \in {None, x}
  /\ Closed
  /\ life' = "closed"
  /\ UNCHANGED killer

\* ... and posts tcp_cleanup,
destroy_post(x) ==
  /\ killer = x /\ life = "closed"
  /\ life' = "posted"
  /\ UNCHANGED <<link, pending, killer, kernel, caller, call, owner, frames, wire, fin, history>>

\* or, if that fails, calls it at once, whatever other threads are doing.
destroy_post_fails(x) ==
  /\ PostFails
  /\ killer = x /\ life = "closed"
  /\ life' = "dropped"
  /\ UNCHANGED <<link, pending, killer, kernel, caller, call, owner, frames, wire, fin, history>>

\* Mutant: the memory is released whatever the loop is doing.
tcp_cleanup_now ==
  /\ life = "posted"
  /\ life' = "freed"
  /\ UNCHANGED <<link, pending, killer, kernel, caller, call, owner, frames, wire, fin, history>>

\* The posted task, in the loop's post phase: it takes no lock.
tcp_cleanup ==
  /\ life = "posted" /\ LoopFree
  /\ life' = "freed"
  /\ UNCHANGED <<link, pending, killer, kernel, caller, call, owner, frames, wire, fin, history>>

\* A user callback returns, and with the last one t->lock is released.
callback_return(x) ==
  /\ owner = x /\ ~Destroying(x)
  /\ frames' = Front(frames)
  /\ owner' = IF Len(frames) = 1 THEN None ELSE x
  /\ UNCHANGED <<link, pending, life, killer, kernel, caller, call, wire, fin, history>>

-------------------------------------------------------------------------------
(* The callbacks of the loop. *)

\* The loop finds a handle ready, or the timer due, and is about to call.
select_call(c) ==
  /\ LoopFree
  /\ c \in io \/ (c = "timeout" /\ timer)
  /\ call' = c
  /\ UNCHANGED <<link, pending, life, killer, kernel, caller, owner, frames, wire, fin, history>>

\* Callback c is entered: it has taken t->lock.
Enter(c) ==
  /\ call = c /\ owner = None
  /\ call' = "none"
  /\ UNCHANGED <<life, killer, caller, accepted, asked>>

\* Nothing happens to the connection.
Ignore == UNCHANGED <<link, kernel, told, owner, frames, wire, pending, fin>>

\* The connection is established and the handle's callbacks replaced; on_open
\* is called unless that fails.
Opened ==
  \/ /\ state' = "OPEN" /\ timer' = FALSE /\ io' = Interest(queue)
     /\ told' = "opened" /\ Notify(Loop, "on_open")
     /\ UNCHANGED <<fd, queue, kernel>>
  \/ AllocFails /\ tcp_teardown(Loop, "on_close")

on_connect_ready ==
  /\ Enter("connect")
  /\ IF destroyed \/ state # "OPENING" THEN Ignore
     ELSE /\ Opened \/ tcp_teardown(Loop, "on_error")
          /\ UNCHANGED <<wire, pending, fin>>

\* Mutant: the state is not tested.
on_connect_timeout_untested ==
  /\ Enter("timeout")
  /\ IF destroyed THEN Ignore
     ELSE tcp_teardown_again(Loop, "on_error") /\ UNCHANGED <<wire, pending, fin>>

\* Mutant: only an open connection is ended.
on_connect_timeout_ignored ==
  /\ Enter("timeout")
  /\ IF destroyed \/ state # "OPEN" THEN Ignore
     ELSE tcp_teardown(Loop, "on_error") /\ UNCHANGED <<wire, pending, fin>>

on_connect_timeout ==
  /\ Enter("timeout")
  /\ IF destroyed \/ state # "OPENING" THEN Ignore
     ELSE tcp_teardown(Loop, "on_error") /\ UNCHANGED <<wire, pending, fin>>

on_first_ready ==
  /\ Enter("first")
  /\ IF destroyed \/ state # "OPENING" THEN Ignore
     ELSE Opened /\ UNCHANGED <<wire, pending, fin>>

\* Data, end of file, an error, or nothing to read.  The state is not tested:
\* the read fails once the descriptor is gone.
on_readable ==
  /\ Enter("read")
  /\ \/ destroyed /\ Ignore
     \/ /\ ~destroyed /\ fd # None
        /\ Notify(Loop, "on_data")
        /\ UNCHANGED <<link, kernel, told, wire, pending, fin>>
     \/ ~destroyed /\ fd # None /\ Ignore
     \/ /\ ~destroyed /\ \E k \in {"on_close", "on_error"} : tcp_teardown(Loop, k)
        /\ UNCHANGED <<wire, pending, fin>>

on_write_ready ==
  /\ Enter("write")
  /\ IF destroyed \/ state # "OPEN" THEN Ignore
     ELSE \/ /\ flush_done(queue)
             /\ tcp_maybe_shutdown_wr
             /\ \/ /\ queue' = <<>> /\ io' = Interest(<<>>)
                   /\ Quiet /\ UNCHANGED <<state, fd, timer, kernel, told>>
                \/ AllocFails /\ tcp_teardown(Loop, "on_close")
          \/ \E k \in 0..Len(queue) :
               /\ flush_blocked(queue, k)
               /\ queue' = SubSeq(queue, k + 1, Len(queue))
               /\ Quiet /\ UNCHANGED <<state, fd, io, timer, kernel, told, pending, fin>>
          \/ \E k \in 0..Len(queue) : flush_failed(Loop, queue, k)

-------------------------------------------------------------------------------
Api(x) ==
  \/ \E n \in 1..MaxByte : sevent_tcp_conn_write(x, n)
  \/ sevent_tcp_conn_shutdown(x) \/ sevent_tcp_conn_close(x) \/ sevent_tcp_conn_destroy(x)

DestroyStep(x) == destroy_close(x) \/ destroy_post(x) \/ destroy_post_fails(x)

App == \E f \in Fd :
  \/ sevent_tcp_conn_open(f) \/ open_fails(f) \/ app_accept(f) \/ app_close(f)
  \/ sevent_tcp_conn_accept(f)

Handler ==
  \/ on_connect_ready \/ on_connect_timeout \/ on_first_ready \/ on_readable \/ on_write_ready

Next ==
  \/ App
  \/ \E x \in Thread : Api(x) \/ DestroyStep(x) \/ callback_return(x)
  \/ \E c \in Callback : select_call(c)
  \/ Handler \/ tcp_cleanup

Spec == Init /\ [][Next]_vars

\* Calls and callbacks run to their end, the loop proceeds; a descriptor
\* that stays writable takes data again and again, a due timer is called.
FairSpec ==
  /\ Spec
  /\ WF_vars(Handler) /\ WF_vars(tcp_cleanup)
  /\ \A x \in Thread : WF_vars(DestroyStep(x)) /\ WF_vars(callback_return(x))
  /\ \A c \in {"first", "write", "timeout"} : SF_vars(select_call(c))
  /\ SF_vars(on_write_ready /\ wire' # wire)

-------------------------------------------------------------------------------
(* Properties. *)

\* The bytes accepted by write reach the kernel once each and in order,
\* whatever partial sends, nested writes and other threads do; while the
\* connection is open the rest of them is in the queue.
InOrder ==
  LET s == wire \o queue
  IN /\ \A i \in 1..Len(s) : s[i] = i
     /\ Len(s) <= accepted
     /\ state = "OPEN" => Len(s) = accepted

\* Data that waits has its write callback registered: it cannot be forgotten.
WriteInterest == state = "OPEN" /\ queue # <<>> => "write" \in io

\* SHUT_WR overtakes no data (sevent_stream_conn.h: the queue is flushed first).
FinLast == state = "OPEN" /\ fin => queue = <<>>

\* A handle is registered exactly while the connection has its descriptor,
\* the connect timer only while it is being established: select never gets a
\* closed descriptor, no timeout ends an established connection.
Registered ==
  /\ (io # {} <=> state # "IDLE") /\ (fd # None <=> state # "IDLE")
  /\ timer => state = "OPENING"

\* Every open descriptor has exactly one owner: none leaks, none is closed twice.
FdOwned ==
  /\ fd \notin caller
  /\ kernel = caller \cup ({fd} \ {None})

\* sevent_tcp_conn.h: destroy may be called in callbacks, the posted task
\* releases the memory when no call is in progress on the object.
NoUseAfterFree == life = "freed" => call = "none" /\ frames = <<>>

Starts(k) == Len(frames') > Len(frames) /\ Last(frames') = k

\* The user sees at most one on_open, then data, then at most one on_close or
\* on_error for a connection, and nothing after closing it, though callbacks
\* decided on before are still made.
CallbackOrder ==
  [][/\ Starts("on_open") => told = "fresh"
     /\ Starts("on_data") => told = "opened"
     /\ Starts("on_close") \/ Starts("on_error") => told \in {"fresh", "opened"}]_vars

\* Every accepted byte is sent, or the connection ends.
AcceptedSent ==
  \A b \in 1..MaxByte :
    (state = "OPEN" /\ accepted >= b) ~> (Len(wire) >= b \/ state # "OPEN")

\* A connection with a timer does not stay half established.
OpeningEnds == timer ~> ~timer

\* sevent_tcp_conn.h: a connection is half closed on request, each open and
\* accept beginning afresh.  It does not hold: close and open leave shutdown_wr_pending.
FinAsked == fin => asked
===============================================================================
