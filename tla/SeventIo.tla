------------------------------- MODULE SeventIo -------------------------------
(***************************************************************************)
(* IO handles of src/src/sevent.c: registration and unregistration from    *)
(* any thread (the build with mutexes), the snapshot a round takes before  *)
(* select, the callbacks it makes from that snapshot after select, and the *)
(* deferred release of unregistered nodes at the start of the next round.  *)
(*                                                                         *)
(* Nodes are addresses: a released address can be allocated again, for a   *)
(* different registration.  A registration has a number of its own (id),   *)
(* which the program does not have; a handle is the address the caller was *)
(* given together with the number of the registration it was given for.    *)
(*                                                                         *)
(* Lists are sets: no property depends on the order of ctx->io_list, and   *)
(* the callbacks of a round are made in any order.                         *)
(***************************************************************************)
EXTENDS Naturals, FiniteSets

CONSTANTS Loop,          \* the loop thread
          Worker,        \* the other threads
          Node,          \* addresses of struct sevent_io
          Fd,            \* file descriptors below FD_SETSIZE
          None,          \* neither a node nor a descriptor
          MaxReg,        \* bound: registrations in a behaviour
          Repeat         \* callers may unregister a handle again

ASSUME IoAssumption ==
  /\ Loop \notin Worker
  /\ None \notin Node \cup Fd
  /\ MaxReg \in Nat
  /\ Repeat \in BOOLEAN

Thread == Worker \cup {Loop}
Id     == 1..MaxReg
Handle == [node : Node, id : Id]
Event  == {"read", "write"}

VARIABLES
  alloc,     \* allocated nodes
  fd,        \* node->fd
  cbs,       \* which of read_cb and write_cb the node has
  deleted,   \* node->deleted
  id,        \* number of the registration the node was last allocated for
  io_list,   \* nodes on ctx->io_list
  death_io,  \* nodes on ctx->death_io
  io_count,  \* ctx->io_count
  wake,      \* the wakeup fd is readable
  pc,        \* where the loop thread is
  snap,      \* iosnap: the nodes still to be visited
  cur,       \* the node being visited (those of "call" and "callback")
  event,     \* which callback is called
  rfds,      \* the read set: interest before select, readiness after it
  wfds,      \* the write set
  call,      \* per thread: the API call it is in
  held,      \* handles callers have and have not unregistered
  stale,     \* handles callers have unregistered
  regs,      \* registrations so far
  built,     \* history: numbers of the registrations in the snapshot
  gone       \* history: which thread has unregistered which number

memory == <<alloc, fd, cbs, deleted, id>>
lists  == <<io_list, death_io, io_count>>
round  == <<snap, cur, event, rfds, wfds, built>>
users  == <<held, stale, gone>>
vars   == <<memory, lists, round, users, wake, pc, call, regs>>

NoCall == [op |-> "none"]
Call   == [op : {"register", "unregister"}, h : Handle]
PC     == {"free", "build", "select", "drain", "io", "call", "callback", "rest"}

TypeOK ==
  /\ alloc \in SUBSET Node /\ io_list \in SUBSET Node /\ death_io \in SUBSET Node
  /\ snap \in SUBSET Node
  /\ fd \in [Node -> Fd \cup {None}] /\ cbs \in [Node -> SUBSET Event]
  /\ deleted \in [Node -> BOOLEAN] /\ id \in [Node -> 0..MaxReg]
  /\ io_count \in Nat
  /\ wake \in BOOLEAN /\ pc \in PC
  /\ cur \in Node \cup {None} /\ event \in Event
  /\ rfds \in SUBSET Fd /\ wfds \in SUBSET Fd
  /\ call \in [Thread -> {NoCall} \cup Call]
  /\ held \in SUBSET Handle /\ stale \in SUBSET Handle
  /\ regs \in 0..MaxReg
  /\ built \in SUBSET Id /\ gone \in SUBSET (Thread \X Id)

Init ==
  /\ alloc = {} /\ io_list = {} /\ death_io = {} /\ snap = {}
  /\ fd = [n \in Node |-> None]
  /\ cbs = [n \in Node |-> {}]
  /\ deleted = [n \in Node |-> FALSE] /\ id = [n \in Node |-> 0]
  /\ io_count = 0
  /\ wake = FALSE /\ pc = "rest"
  /\ cur = None
  /\ event = "read"
  /\ rfds = {} /\ wfds = {}
  /\ call = [x \in Thread |-> NoCall]
  /\ held = {} /\ stale = {} /\ regs = 0
  /\ built = {} /\ gone = {}

-------------------------------------------------------------------------------
(* The API.  Each call is one section under ctx->lock, then sevent_wakeup,
   with which it returns. *)

InUserCode(x) == x # Loop \/ pc \in {"callback", "rest"}

CanCall(x) == call[x] = NoCall /\ InUserCode(x)

\* Mutant: the search for another handle of the same fd is left out.
sevent_io_register_duplicate(x, f, c) ==
  /\ CanCall(x) /\ regs < MaxReg
  /\ \E n \in Node \ alloc :
       /\ alloc' = alloc \cup {n}
       /\ fd' = [fd EXCEPT ![n] = f] /\ cbs' = [cbs EXCEPT ![n] = c]
       /\ deleted' = [deleted EXCEPT ![n] = FALSE]
       /\ id' = [id EXCEPT ![n] = regs + 1]
       /\ io_list' = io_list \cup {n}
       /\ call' = [call EXCEPT ![x] =
                     [op |-> "register", h |-> [node |-> n, id |-> regs + 1]]]
  /\ io_count' = io_count + 1
  /\ regs' = regs + 1
  /\ UNCHANGED <<death_io, round, users, wake, pc>>

\* Mutant: a registration does not wake the loop.
sevent_io_register_silent(x, f, c) ==
  /\ CanCall(x) /\ regs < MaxReg
  /\ \A p \in io_list : fd[p] # f
  /\ \E n \in Node \ alloc :
       /\ alloc' = alloc \cup {n}
       /\ fd' = [fd EXCEPT ![n] = f] /\ cbs' = [cbs EXCEPT ![n] = c]
       /\ deleted' = [deleted EXCEPT ![n] = FALSE]
       /\ id' = [id EXCEPT ![n] = regs + 1]
       /\ io_list' = io_list \cup {n}
       /\ held' = held \cup {[node |-> n, id |-> regs + 1]}
  /\ io_count' = io_count + 1
  /\ regs' = regs + 1
  /\ UNCHANGED <<death_io, round, stale, gone, wake, pc, call>>

\* c: the callbacks the caller's sevent_io_handler gives, at least one.
\* NULL, without effect, when the fd is registered or no node can be had.
sevent_io_register(x, f, c) ==
  /\ CanCall(x) /\ regs < MaxReg
  /\ \A p \in io_list : fd[p] # f
  /\ \E n \in Node \ alloc :
       /\ alloc' = alloc \cup {n}
       /\ fd' = [fd EXCEPT ![n] = f] /\ cbs' = [cbs EXCEPT ![n] = c]
       /\ deleted' = [deleted EXCEPT ![n] = FALSE]
       /\ id' = [id EXCEPT ![n] = regs + 1]
       /\ io_list' = io_list \cup {n}
       /\ call' = [call EXCEPT ![x] =
                     [op |-> "register", h |-> [node |-> n, id |-> regs + 1]]]
  /\ io_count' = io_count + 1
  /\ regs' = regs + 1
  /\ UNCHANGED <<death_io, round, users, wake, pc>>

\* The handle a caller may pass: one it holds or, with Repeat, had.
MayUnregister(x, h) ==
  /\ CanCall(x)
  /\ h \in held \cup (IF Repeat THEN stale ELSE {})

Forget(h) == held' = held \ {h} /\ stale' = stale \cup {h}

\* Mutant: the node is released at once instead of at the next round.
sevent_io_unregister_frees(x, h) ==
  /\ MayUnregister(x, h) /\ Forget(h)
  /\ h.node \in io_list
  /\ deleted' = [deleted EXCEPT ![h.node] = TRUE]
  /\ io_list' = io_list \ {h.node}
  /\ io_count' = io_count - 1
  /\ alloc' = alloc \ {h.node}
  /\ call' = [call EXCEPT ![x] = [op |-> "unregister", h |-> h]]
  /\ UNCHANGED <<fd, cbs, id, death_io, round, gone, wake, pc, regs>>

\* The address is found on the list: marked, unlinked, left for the next
\* run_free_death.
sevent_io_unregister(x, h) ==
  /\ MayUnregister(x, h) /\ Forget(h)
  /\ h.node \in io_list
  /\ deleted' = [deleted EXCEPT ![h.node] = TRUE]
  /\ io_list' = io_list \ {h.node}
  /\ io_count' = io_count - 1
  /\ death_io' = death_io \cup {h.node}
  /\ call' = [call EXCEPT ![x] = [op |-> "unregister", h |-> h]]
  /\ UNCHANGED <<alloc, fd, cbs, id, round, gone, wake, pc, regs>>

\* The address is not on the list: nothing is done, the loop is not woken.
sevent_io_unregister_absent(x, h) ==
  /\ MayUnregister(x, h) /\ Forget(h)
  /\ h.node \notin io_list
  /\ gone' = gone \cup {<<x, h.id>>}
  /\ UNCHANGED <<memory, lists, round, wake, pc, call, regs>>

\* The end of a call: a register returns the handle, an unregister returns.
sevent_wakeup(x) ==
  /\ call[x] # NoCall
  /\ wake' = TRUE
  /\ call' = [call EXCEPT ![x] = NoCall]
  /\ held' = held \cup (IF call[x].op = "register" THEN {call[x].h} ELSE {})
  /\ gone' = gone \cup (IF call[x].op = "unregister" THEN {<<x, call[x].h.id>>} ELSE {})
  /\ UNCHANGED <<memory, lists, round, stale, pc, regs>>

-------------------------------------------------------------------------------
(* One round of sevent_run_once on the loop thread. *)

LoopAt(p) == pc = p /\ call[Loop] = NoCall

\* Outside the IO phase: posted tasks, timers, and the code around the round.
round_begin ==
  /\ LoopAt("rest")
  /\ pc' = "free"
  /\ UNCHANGED <<memory, lists, round, users, wake, call, regs>>

\* The dead list is cut off under the lock; the nodes on it cannot be reached
\* from there on, so that their release can be counted in.
run_free_death ==
  /\ LoopAt("free")
  /\ alloc' = alloc \ death_io
  /\ death_io' = {}
  /\ pc' = "build"
  /\ UNCHANGED <<fd, cbs, deleted, id, io_list, io_count, round, users, wake, call, regs>>

\* Without an IO handle select is still called when there is a timer.
run_build_fdset ==
  /\ LoopAt("build")
  /\ snap' = io_list
  /\ built' = {id[n] : n \in io_list}
  /\ rfds' = {fd[n] : n \in {m \in io_list : "read" \in cbs[m]}}
  /\ wfds' = {fd[n] : n \in {m \in io_list : "write" \in cbs[m]}}
  /\ pc' = "select" \/ (io_list = {} /\ pc' = "rest")
  /\ UNCHANGED <<memory, lists, users, cur, event, wake, call, regs>>

\* select reports some of the fds it was asked about, the wakeup fd if set.
select_ready ==
  /\ LoopAt("select")
  /\ rfds' \in SUBSET rfds /\ wfds' \in SUBSET wfds
  /\ wake \/ rfds' \cup wfds' # {}
  /\ pc' = IF wake THEN "drain" ELSE "io"
  /\ UNCHANGED <<memory, lists, users, snap, cur, event, built, wake, call, regs>>

\* The locals of the IO phase go out of use.
round_end ==
  /\ pc' = "rest"
  /\ snap' = {} /\ rfds' = {} /\ wfds' = {} /\ built' = {}
  /\ UNCHANGED <<cur, event>>

\* Timeout, EINTR, EBADF (a handle's fd was closed) or a fatal error.
select_none ==
  /\ LoopAt("select")
  /\ round_end
  /\ UNCHANGED <<memory, lists, users, wake, call, regs>>

sevent_wakeup_drain ==
  /\ LoopAt("drain")
  /\ wake' = FALSE
  /\ pc' = "io"
  /\ UNCHANGED <<memory, lists, round, users, call, regs>>

\* The callback a visit of node n chooses: read before write, never both.
Chosen(n) ==
  IF "read" \in cbs[n] /\ fd[n] \in rfds THEN {"read"}
  ELSE IF "write" \in cbs[n] /\ fd[n] \in wfds THEN {"write"}
  ELSE {}

\* Mutant: the deleted mark is not looked at.
visit_unchecked(n) ==
  /\ LoopAt("io") /\ n \in snap
  /\ IF Chosen(n) = {}
     THEN snap' = snap \ {n} /\ UNCHANGED <<pc, cur, event>>
     ELSE pc' = "call" /\ cur' = n /\ event' \in Chosen(n) /\ UNCHANGED snap
  /\ UNCHANGED <<memory, lists, users, rfds, wfds, built, wake, call, regs>>

\* run_io_callbacks looks at one node of the snapshot and decides.
visit(n) ==
  /\ LoopAt("io") /\ n \in snap
  /\ IF deleted[n] \/ Chosen(n) = {}
     THEN snap' = snap \ {n} /\ UNCHANGED <<pc, cur, event>>
     ELSE pc' = "call" /\ cur' = n /\ event' \in Chosen(n) /\ UNCHANGED snap
  /\ UNCHANGED <<memory, lists, users, rfds, wfds, built, wake, call, regs>>

\* ... calls the callback ...
callback ==
  /\ LoopAt("call")
  /\ pc' = "callback"
  /\ UNCHANGED <<memory, lists, round, users, wake, call, regs>>

\* ... which returns.
callback_return ==
  /\ LoopAt("callback")
  /\ pc' = "io" /\ snap' = snap \ {cur}
  /\ cur' = None /\ event' = "read"
  /\ UNCHANGED <<memory, lists, users, rfds, wfds, built, wake, call, regs>>

run_io_callbacks_end ==
  /\ LoopAt("io") /\ snap = {}
  /\ round_end
  /\ UNCHANGED <<memory, lists, users, wake, call, regs>>

-------------------------------------------------------------------------------
Api(x) ==
  \/ \E f \in Fd, c \in SUBSET Event \ {{}} : sevent_io_register(x, f, c)
  \/ \E h \in held \cup stale :
       sevent_io_unregister(x, h) \/ sevent_io_unregister_absent(x, h)
  \/ sevent_wakeup(x)

LoopStep ==
  \/ round_begin \/ run_free_death \/ run_build_fdset \/ sevent_wakeup_drain
  \/ (\E n \in snap : visit(n)) \/ callback \/ callback_return
  \/ run_io_callbacks_end

Next == (\E x \in Thread : Api(x)) \/ LoopStep \/ select_ready \/ select_none

\* The loop is inside sevent_run and callbacks return; a call ends; a select
\* with a readable wakeup fd does not fail for ever.  No use is made of the
\* timeout of select, nor of any fd becoming ready.
Fairness ==
  /\ SF_vars(LoopStep)
  /\ SF_vars(wake /\ select_ready)
  /\ \A x \in Thread : WF_vars(sevent_wakeup(x))

Spec == Init /\ [][Next]_vars

FairSpec == Spec /\ Fairness

-------------------------------------------------------------------------------
(* Properties. *)

\* The two lists are the allocated nodes: live ones unmarked, with different
\* fds and counted by io_count, dead ones marked.  It follows that a snapshot
\* never exceeds the FD_SETSIZE entries of iosnap.
HandlesConsistent ==
  /\ alloc = io_list \cup death_io /\ io_list \cap death_io = {}
  /\ \A n \in io_list : ~deleted[n]
  /\ \A n \in death_io : deleted[n]
  /\ \A m, n \in io_list : fd[m] = fd[n] => m = n
  /\ io_count = Cardinality(io_list)

\* From the snapshot to the last callback made from it, no node of it is
\* released, and none has been given to another registration: what select
\* reported is delivered to the registration it was asked for.
SnapshotIntact ==
  /\ snap \subseteq alloc
  /\ \A n \in snap : id[n] \in built
  /\ pc \in {"call", "callback"} => cur \in snap

\* A change of the handles while the loop is blocked in select on an older
\* snapshot wakes it.
NoStaleSelect ==
  pc = "select" /\ io_list # snap => wake \/ \E x \in Thread : call[x] # NoCall

\* When the loop thread has unregistered a handle, in any callback, its own
\* callback is not called any more, although it may be in the snapshot and
\* ready.
OwnUnregisterFinal ==
  [][pc = "call" /\ pc' = "callback" => <<Loop, id[cur]>> \notin gone]_vars

\* sevent.h:34 and the comment at sevent.c:374 say so of every thread: after
\* sevent_io_unregister has returned, the callback is not called any more.  It does not
\* hold: the loop tests the mark before the call and without the lock.
NoCallAfterUnregister ==
  [][pc = "call" /\ pc' = "callback" => \A x \in Thread : <<x, id[cur]>> \notin gone]_vars

Registered(i) == \E n \in io_list : id[n] = i

\* A registration becomes part of a snapshot without waiting for the timeout
\* of select, unless it is unregistered before.
RegistrationSeen ==
  \A i \in Id : Registered(i) ~> (i \in built \/ ~Registered(i))
===============================================================================
