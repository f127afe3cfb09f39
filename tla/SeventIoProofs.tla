---------------------------- MODULE SeventIoProofs ----------------------------
(***************************************************************************)
(* Proofs about SeventIo: memory safety of the snapshot and consistency of *)
(* the handle lists, for any number of threads, nodes, descriptors and     *)
(* registrations, with callers that may also unregister a handle twice.    *)
(***************************************************************************)
EXTENDS SeventIo, FiniteSetTheorems, TLAPS

\* The inductive invariant.  The last three conjuncts are what the others
\* need: io_count is the size of the list only if the list is finite,
\* run_free_death may release nodes only because no snapshot is alive then,
\* and an allocated node has the number and the fd of a registration.
Inv ==
  /\ TypeOK
  /\ HandlesConsistent
  /\ SnapshotIntact
  /\ IsFiniteSet(io_list)
  /\ pc \in {"rest", "free", "build"} => snap = {}
  /\ \A n \in alloc : id[n] \in Id /\ fd[n] \in Fd

\* The initial state.
LEMMA InvInit == Init => Inv
<1> SUFFICES ASSUME Init PROVE Inv
  OBVIOUS
<1>1. call \in [Thread -> {NoCall} \cup Call]
  BY DEF Init
<1>2. cbs \in [Node -> SUBSET Event] /\ deleted \in [Node -> BOOLEAN]
  BY DEF Init
<1>3. id \in [Node -> 0..MaxReg] /\ fd \in [Node -> Fd \cup {None}] /\ regs \in 0..MaxReg
  BY IoAssumption DEF Init
<1>4. TypeOK
  BY <1>1, <1>2, <1>3 DEF Init, TypeOK, PC, Event
<1>5. HandlesConsistent /\ IsFiniteSet(io_list)
  BY FS_EmptySet DEF Init, HandlesConsistent
<1>6. QED
  BY <1>4, <1>5 DEF Init, Inv, SnapshotIntact

\* A registration takes a node that is on neither list and in no snapshot.
LEMMA InvRegister ==
  ASSUME Inv, NEW x \in Thread, NEW f \in Fd, NEW c \in SUBSET Event,
         sevent_io_register(x, f, c)
  PROVE  Inv'
<1>1. PICK n \in Node \ alloc :
        /\ alloc' = alloc \cup {n}
        /\ fd' = [fd EXCEPT ![n] = f] /\ cbs' = [cbs EXCEPT ![n] = c]
        /\ deleted' = [deleted EXCEPT ![n] = FALSE]
        /\ id' = [id EXCEPT ![n] = regs + 1]
        /\ io_list' = io_list \cup {n}
        /\ call' = [call EXCEPT ![x] =
                     [op |-> "register", h |-> [node |-> n, id |-> regs + 1]]]
  BY DEF sevent_io_register
<1>2. UNCHANGED <<death_io, snap, cur, event, rfds, wfds, built, held, stale, gone, wake, pc>>
  BY DEF sevent_io_register, round, users
<1>3. regs + 1 \in Id /\ regs' = regs + 1 /\ io_count' = io_count + 1
  BY IoAssumption DEF sevent_io_register, Inv, TypeOK, Id
<1>4. n \notin io_list /\ n \notin death_io /\ n \notin snap
  BY DEF Inv, HandlesConsistent, SnapshotIntact
<1>5. TypeOK'
  BY <1>1, <1>2, <1>3, IoAssumption DEF Inv, TypeOK, Call, Handle, Id
<1>6. IsFiniteSet(io_list') /\ Cardinality(io_list') = Cardinality(io_list) + 1
  BY <1>1, <1>4, FS_AddElement DEF Inv
<1>7. HandlesConsistent'
  <2>1. /\ alloc' = io_list' \cup death_io' /\ io_list' \cap death_io' = {}
        /\ io_count' = Cardinality(io_list')
    BY <1>1, <1>2, <1>3, <1>4, <1>6 DEF Inv, HandlesConsistent
  <2>2. /\ \A p \in io_list' : ~deleted'[p]
        /\ \A p \in death_io' : deleted'[p]
    BY <1>1, <1>2, <1>4 DEF Inv, TypeOK, HandlesConsistent
  <2>3. \A p \in io_list : fd[p] # f
    BY DEF sevent_io_register
  <2>4. \A m, p \in io_list' : fd'[m] = fd'[p] => m = p
    BY <1>1, <1>4, <2>3 DEF Inv, TypeOK, HandlesConsistent
  <2>5. QED
    BY <2>1, <2>2, <2>4 DEF HandlesConsistent
<1>8. SnapshotIntact'
  BY <1>1, <1>2, <1>4 DEF Inv, TypeOK, SnapshotIntact
<1>9. \A p \in alloc' : id'[p] \in Id /\ fd'[p] \in Fd
  BY <1>1, <1>3 DEF Inv, TypeOK
<1>10. QED
  BY <1>2, <1>5, <1>6, <1>7, <1>8, <1>9 DEF Inv

\* An unregistration moves a node from one list to the other; the node stays
\* allocated and keeps its registration number.
LEMMA InvUnregister ==
  ASSUME Inv, NEW x \in Thread, NEW h \in Handle, sevent_io_unregister(x, h)
  PROVE  Inv'
<1>1. /\ h.node \in io_list
      /\ deleted' = [deleted EXCEPT ![h.node] = TRUE]
      /\ io_list' = io_list \ {h.node}
      /\ io_count' = io_count - 1
      /\ death_io' = death_io \cup {h.node}
      /\ call' = [call EXCEPT ![x] = [op |-> "unregister", h |-> h]]
      /\ held' = held \ {h} /\ stale' = stale \cup {h}
      /\ h.node \in Node
  BY DEF sevent_io_unregister, Forget, Handle
<1>2. UNCHANGED <<alloc, fd, cbs, id, snap, cur, event, rfds, wfds, built, gone, wake, pc, regs>>
  BY DEF sevent_io_unregister, round
<1>3. IsFiniteSet(io_list') /\ Cardinality(io_list') = Cardinality(io_list) - 1
  BY <1>1, FS_RemoveElement DEF Inv
<1>4. Cardinality(io_list') \in Nat
  BY <1>3, FS_CardinalityType
<1>5. io_count' = Cardinality(io_list')
  BY <1>1, <1>3 DEF Inv, HandlesConsistent
<1>6. TypeOK'
  BY <1>1, <1>2, <1>4, <1>5, IoAssumption DEF Inv, TypeOK, Call
<1>7. HandlesConsistent'
  BY <1>1, <1>2, <1>5 DEF Inv, TypeOK, HandlesConsistent
<1>8. SnapshotIntact'
  BY <1>1, <1>2 DEF Inv, SnapshotIntact
<1>9. QED
  BY <1>2, <1>3, <1>6, <1>7, <1>8 DEF Inv

\* The steps that touch neither the lists, the memory nor the snapshot.
LEMMA InvCalls ==
  ASSUME Inv, NEW x \in Thread,
         \/ sevent_wakeup(x)
         \/ \E h \in Handle : sevent_io_unregister_absent(x, h)
  PROVE  Inv'
<1>1. UNCHANGED <<memory, lists, round, pc>>
  BY DEF sevent_wakeup, sevent_io_unregister_absent
<1>2. TypeOK'
  <2>1. CASE sevent_wakeup(x)
    BY <1>1, <2>1
       DEF Inv, TypeOK, sevent_wakeup, memory, lists, round, Call, Handle
  <2>2. ASSUME NEW h \in Handle, sevent_io_unregister_absent(x, h) PROVE TypeOK'
    BY <1>1, <2>2
       DEF Inv, TypeOK, sevent_io_unregister_absent, Forget, memory, lists, round, Handle
  <2>3. QED
    BY <2>1, <2>2
<1>3. HandlesConsistent' /\ SnapshotIntact'
  BY <1>1 DEF Inv, HandlesConsistent, SnapshotIntact, memory, lists, round
<1>4. QED
  BY <1>1, <1>2, <1>3 DEF Inv, memory, lists, round

\* A round of the loop thread.
LEMMA InvLoop ==
  ASSUME Inv, LoopStep \/ select_ready \/ select_none
  PROVE  Inv'
<1> USE DEF LoopAt
<1>1. CASE run_free_death
  <2>1. snap = {} /\ pc' = "build" /\ snap' = {} /\ alloc' = alloc \ death_io /\ death_io' = {}
    BY <1>1 DEF run_free_death, Inv, round
  <2>2. UNCHANGED <<fd, cbs, deleted, id, io_list, io_count, cur, event, rfds, wfds, built,
                    held, stale, gone, wake, call, regs>>
    BY <1>1 DEF run_free_death, round, users
  <2>3. TypeOK' /\ HandlesConsistent'
    BY <2>1, <2>2 DEF Inv, TypeOK, HandlesConsistent, PC
  <2>4. SnapshotIntact'
    BY <2>1, <2>2 DEF SnapshotIntact
  <2>5. QED
    BY <2>1, <2>2, <2>3, <2>4 DEF Inv
<1>2. ASSUME UNCHANGED <<memory, lists, users, call, regs>>,
             TypeOK', SnapshotIntact', pc' \in {"rest", "free", "build"} => snap' = {}
      PROVE  Inv'
  BY <1>2 DEF Inv, HandlesConsistent, memory, lists
<1>3. CASE run_build_fdset
  <2>1. /\ snap' = io_list /\ built' = {id[n] : n \in io_list}
        /\ rfds' = {fd[n] : n \in {m \in io_list : "read" \in cbs[m]}}
        /\ wfds' = {fd[n] : n \in {m \in io_list : "write" \in cbs[m]}}
        /\ pc' \in {"select", "rest"} /\ (pc' = "rest" => io_list = {})
        /\ UNCHANGED <<memory, lists, users, cur, event, wake, call, regs>>
    BY <1>3 DEF run_build_fdset
  <2>2. \A n \in io_list : n \in alloc /\ id[n] \in Id /\ fd[n] \in Fd
    BY DEF Inv, HandlesConsistent
  <2>3. TypeOK'
    BY <2>1, <2>2 DEF Inv, TypeOK, PC, memory, lists, users
  <2>4. SnapshotIntact'
    BY <2>1, <2>2 DEF SnapshotIntact, memory
  <2>5. QED
    BY <1>2, <2>1, <2>3, <2>4
<1>4. CASE select_none \/ run_io_callbacks_end
  <2>1. /\ pc' = "rest" /\ snap' = {} /\ rfds' = {} /\ wfds' = {} /\ built' = {}
        /\ UNCHANGED <<memory, lists, users, cur, event, wake, call, regs>>
    BY <1>4 DEF select_none, run_io_callbacks_end, round_end
  <2>2. TypeOK' /\ SnapshotIntact'
    BY <2>1 DEF Inv, TypeOK, SnapshotIntact, PC, memory, lists, users
  <2>3. QED
    BY <1>2, <2>1, <2>2
<1>5. CASE select_ready
  <2>1. /\ pc' \in {"drain", "io"} /\ rfds' \in SUBSET rfds /\ wfds' \in SUBSET wfds
        /\ UNCHANGED <<memory, lists, users, snap, cur, event, built, wake, call, regs>>
    BY <1>5 DEF select_ready
  <2>2. TypeOK' /\ SnapshotIntact'
    BY <2>1 DEF Inv, TypeOK, SnapshotIntact, PC, memory, lists, users
  <2>3. QED
    BY <1>2, <2>1, <2>2
<1>6. CASE round_begin \/ sevent_wakeup_drain \/ callback
  <2>1. TypeOK'
    BY <1>6 DEF Inv, TypeOK, PC, round_begin, sevent_wakeup_drain, callback, memory, lists, round, users
  <2>2. SnapshotIntact'
    BY <1>6 DEF Inv, SnapshotIntact, round_begin, sevent_wakeup_drain, callback, memory, round
  <2>3. pc' \in {"rest", "free", "build"} => snap' = {}
    BY <1>6 DEF Inv, round_begin, sevent_wakeup_drain, callback, round
  <2>4. QED
    BY <1>2, <1>6, <2>1, <2>2, <2>3 DEF round_begin, sevent_wakeup_drain, callback
<1>7. ASSUME NEW n \in snap, visit(n) PROVE Inv'
  <2>1. Chosen(n) \subseteq Event
    BY DEF Chosen, Event
  <2>2. \/ snap' = snap \ {n} /\ UNCHANGED <<pc, cur, event>>
        \/ pc' = "call" /\ cur' = n /\ event' \in Chosen(n) /\ UNCHANGED snap
    BY <1>7 DEF visit
  <2>3. pc = "io" /\ UNCHANGED <<memory, lists, users, rfds, wfds, built, wake, call, regs>>
    BY <1>7 DEF visit
  <2>4. TypeOK' /\ SnapshotIntact'
    BY <2>1, <2>2, <2>3 DEF Inv, TypeOK, SnapshotIntact, PC, memory, lists, users
  <2>5. QED
    BY <1>2, <2>2, <2>3, <2>4
<1>8. CASE callback_return
  <2>1. TypeOK' /\ SnapshotIntact'
    BY <1>8 DEF callback_return, Inv, TypeOK, SnapshotIntact, PC, Event, memory, lists, users
  <2>2. QED
    BY <1>2, <1>8, <2>1 DEF callback_return
<1>9. QED
  BY <1>1, <1>3, <1>4, <1>5, <1>6, <1>7, <1>8 DEF LoopStep

\* Inv is an invariant.
THEOREM InvHolds == Spec => []Inv
<1>1. Inv /\ [Next]_vars => Inv'
  <2> SUFFICES ASSUME Inv, [Next]_vars PROVE Inv'
    OBVIOUS
  <2>1. held \cup stale \subseteq Handle
    BY DEF Inv, TypeOK
  <2>2. ASSUME NEW x \in Thread, Api(x) PROVE Inv'
    BY <2>1, <2>2, InvRegister, InvUnregister, InvCalls DEF Api
  <2>3. CASE UNCHANGED vars
    BY <2>3
       DEF Inv, TypeOK, HandlesConsistent, SnapshotIntact, vars, memory, lists, round, users
  <2>4. QED
    BY <2>2, <2>3, InvLoop DEF Next
<1>2. QED
  BY <1>1, InvInit, PTL DEF Spec

\* Types.
THEOREM TypeCorrect == Spec => []TypeOK
<1>1. Inv => TypeOK
  BY DEF Inv
<1>2. QED
  BY <1>1, InvHolds, PTL

\* The handle lists stay consistent whatever threads register and unregister.
THEOREM HandlesConsistentHolds == Spec => []HandlesConsistent
<1>1. Inv => HandlesConsistent
  BY DEF Inv
<1>2. QED
  BY <1>1, InvHolds, PTL

\* run_io_callbacks never reads a released node and never delivers readiness
\* to a registration that it was not asked for.
THEOREM SnapshotIntactHolds == Spec => []SnapshotIntact
<1>1. Inv => SnapshotIntact
  BY DEF Inv
<1>2. QED
  BY <1>1, InvHolds, PTL

-------------------------------------------------------------------------------
\* While the loop is blocked in select, every change of the list leaves either
\* the wakeup fd readable or a thread on its way to write it.
THEOREM NoStaleSelectHolds == Spec => []NoStaleSelect
<1>1. Init => NoStaleSelect
  BY DEF Init, NoStaleSelect
<1>2. TypeOK /\ NoStaleSelect /\ [Next]_vars => NoStaleSelect'
  <2> SUFFICES ASSUME TypeOK, NoStaleSelect, [Next]_vars PROVE NoStaleSelect'
    OBVIOUS
  <2>1. ASSUME NEW x \in Thread, NEW r, r # NoCall, call' = [call EXCEPT ![x] = r]
        PROVE  NoStaleSelect'
    <3>1. call'[x] # NoCall
      BY <2>1 DEF TypeOK
    <3>2. QED
      BY <3>1 DEF NoStaleSelect
  <2>2. ASSUME NEW x \in Thread, Api(x) PROVE NoStaleSelect'
    <3>1. ASSUME NEW f, NEW c, sevent_io_register(x, f, c) PROVE NoStaleSelect'
      <4>1. PICK n \in Node : call' = [call EXCEPT ![x] =
                 [op |-> "register", h |-> [node |-> n, id |-> regs + 1]]]
        BY <3>1 DEF sevent_io_register
      <4>2. QED
        BY <2>1, <4>1 DEF NoCall
    <3>2. ASSUME NEW h, sevent_io_unregister(x, h) PROVE NoStaleSelect'
      BY <2>1, <3>2 DEF sevent_io_unregister, NoCall
    <3>3. ASSUME NEW h, sevent_io_unregister_absent(x, h) PROVE NoStaleSelect'
      BY <3>3 DEF sevent_io_unregister_absent, NoStaleSelect, lists, round
    <3>4. CASE sevent_wakeup(x)
      BY <3>4 DEF sevent_wakeup, NoStaleSelect
    <3>5. QED
      BY <2>2, <3>1, <3>2, <3>3, <3>4 DEF Api
  <2>3. CASE run_build_fdset
    BY <2>3 DEF run_build_fdset, NoStaleSelect, lists
  <2>4. CASE round_begin \/ run_free_death \/ sevent_wakeup_drain \/ callback
              \/ callback_return \/ run_io_callbacks_end \/ select_none \/ select_ready
    <3>1. pc' # "select"
      BY <2>4 DEF round_begin, run_free_death, sevent_wakeup_drain, callback,
                  callback_return, run_io_callbacks_end, select_none, select_ready, round_end
    <3>2. QED
      BY <3>1 DEF NoStaleSelect
  <2>5. ASSUME NEW n \in snap, visit(n) PROVE NoStaleSelect'
    <3>1. pc' # "select"
      BY <2>5 DEF visit, LoopAt
    <3>2. QED
      BY <3>1 DEF NoStaleSelect
  <2>6. CASE UNCHANGED vars
    BY <2>6 DEF vars, NoStaleSelect, lists, round
  <2>7. QED
    BY <2>2, <2>3, <2>4, <2>5, <2>6 DEF Next, LoopStep
<1>3. QED
  BY <1>1, <1>2, TypeCorrect, PTL DEF Spec

-------------------------------------------------------------------------------
(* A thread that has unregistered a handle sees it dead: the mark that
   run_io_callbacks tests is the one the thread has set.  A registration is
   known by its number, an address can be used again. *)

\* The number of a handle was given out, to the address in the handle.
Numbered(h) == h.id <= regs /\ \A n \in Node : id[n] = h.id => n = h.node

\* What is inductive.  A caller's handle names its registration even when the
\* address has another one (a second unregister); no live node has a number
\* that some thread has unregistered, or is about to have; and between the
\* test of the mark and the call, the loop thread makes no call of its own.
OwnInv ==
  /\ \A n \in Node : id[n] <= regs
  /\ \A h \in held \cup stale : Numbered(h)
  /\ \A x \in Thread : call[x] # NoCall => Numbered(call[x].h)
  /\ \A x \in Thread, i \in Id : <<x, i>> \in gone => i <= regs
  /\ \A n \in io_list, x \in Thread : <<x, id[n]>> \notin gone
  /\ \A x \in Thread : call[x].op = "unregister" =>
       \A n \in io_list : id[n] # call[x].h.id
  /\ pc = "call" => call[Loop] = NoCall /\ <<Loop, id[cur]>> \notin gone

\* The initial state: no number has been given out.
LEMMA OwnInit == Init => OwnInv
  BY DEF Init, OwnInv, NoCall

\* A registration has a number that no handle, no call and no history has.
LEMMA OwnRegister ==
  ASSUME Inv, OwnInv, NEW x \in Thread, NEW f \in Fd, NEW c \in SUBSET Event,
         sevent_io_register(x, f, c)
  PROVE  OwnInv'
<1>1. PICK n \in Node \ alloc :
        /\ id' = [id EXCEPT ![n] = regs + 1]
        /\ io_list' = io_list \cup {n}
        /\ call' = [call EXCEPT ![x] =
                     [op |-> "register", h |-> [node |-> n, id |-> regs + 1]]]
  BY DEF sevent_io_register
<1>2. /\ regs' = regs + 1 /\ regs \in Nat
      /\ UNCHANGED <<snap, cur, held, stale, gone, pc>>
      /\ x # Loop \/ pc # "call"
      /\ call[x] = NoCall
  BY IoAssumption
     DEF sevent_io_register, round, users, CanCall, InUserCode, Inv, TypeOK
<1>3. /\ id \in [Node -> Nat] /\ io_list \subseteq Node /\ n \notin io_list
      /\ call \in [Thread -> {NoCall} \cup Call]
      /\ gone \subseteq Thread \X Id /\ regs + 1 \in Id
      /\ held \cup stale \subseteq Handle
  BY IoAssumption
     DEF Inv, TypeOK, HandlesConsistent, sevent_io_register, Id
<1>4. \A m \in Node : id'[m] = IF m = n THEN regs + 1 ELSE id[m]
  BY <1>1, <1>3
<1>5. \A m \in Node : id'[m] <= regs'
  BY <1>2, <1>3, <1>4 DEF OwnInv
<1> DEFINE Given(h) == h.id <= regs' /\ \A m \in Node : id'[m] = h.id => m = h.node
<1>6. ASSUME NEW h, h.id \in Nat, Numbered(h) PROVE Given(h)
  BY <1>2, <1>4, <1>6 DEF Numbered
<1>7. \A h \in held' \cup stale' : Given(h)
  <2>1. \A h \in held \cup stale : h.id \in Nat
    BY <1>3 DEF Handle, Id
  <2>2. QED
    BY <1>2, <1>6, <2>1 DEF OwnInv
<1>8. ASSUME NEW y \in Thread, y # x, call[y] # NoCall PROVE Given(call[y].h)
  <2>1. call[y].h.id \in Nat
    BY <1>3, <1>8 DEF Call, Handle, Id
  <2>2. QED
    BY <1>6, <1>8, <2>1 DEF OwnInv
<1>9. ASSUME NEW y \in Thread, call'[y] # NoCall PROVE Given(call'[y].h)
  <2>1. CASE y = x
    <3>1. call'[x].h.node = n /\ call'[x].h.id = regs + 1
      BY <1>1, <1>3
    <3>2. QED
      BY <1>2, <1>3, <1>4, <2>1, <3>1 DEF OwnInv
  <2>2. CASE y # x
    <3>1. call'[y] = call[y]
      BY <1>1, <1>3, <2>2
    <3>2. QED
      BY <1>8, <1>9, <2>2, <3>1
  <2>3. QED
    BY <2>1, <2>2
<1>10. \A y \in Thread, i \in Id : <<y, i>> \in gone' => i <= regs'
  BY <1>2, IoAssumption DEF OwnInv, Id
<1>11. \A m \in io_list', y \in Thread : <<y, id'[m]>> \notin gone'
  <2>1. \A y \in Thread : <<y, regs + 1>> \notin gone
    BY <1>2, <1>3 DEF OwnInv
  <2>2. QED
    BY <1>1, <1>2, <1>3, <1>4, <2>1 DEF OwnInv
<1>12. \A y \in Thread : call'[y].op = "unregister" =>
         \A m \in io_list' : id'[m] # call'[y].h.id
  <2> SUFFICES ASSUME NEW y \in Thread, call'[y].op = "unregister",
                      NEW m \in io_list'
               PROVE  id'[m] # call'[y].h.id
    OBVIOUS
  <2>1. y # x /\ call'[y] = call[y]
    BY <1>1, <1>3
  <2>2. call[y] \in Call
    BY <1>3, <2>1 DEF NoCall
  <2>3. call[y].h.id \in Nat /\ call[y].h.id <= regs
    BY <2>1, <2>2 DEF OwnInv, Numbered, Call, Handle, Id, NoCall
  <2>4. CASE m = n
    BY <1>1, <1>2, <1>4, <2>1, <2>3, <2>4
  <2>5. CASE m \in io_list /\ m # n
    BY <1>3, <1>4, <2>1, <2>5 DEF OwnInv
  <2>6. QED
    BY <1>1, <2>4, <2>5
<1>13. pc' = "call" => call'[Loop] = NoCall /\ <<Loop, id'[cur']>> \notin gone'
  <2> SUFFICES ASSUME pc = "call" PROVE call'[Loop] = NoCall /\ <<Loop, id'[cur]>> \notin gone
    BY <1>2
  <2>1. cur \in alloc /\ cur \in Node
    BY DEF Inv, TypeOK, SnapshotIntact
  <2>2. id'[cur] = id[cur]
    BY <1>4, <2>1
  <2>3. call'[Loop] = call[Loop]
    BY <1>1, <1>2, <1>3 DEF Thread
  <2>4. QED
    BY <2>2, <2>3 DEF OwnInv
<1>14. QED
  BY <1>5, <1>7, <1>9, <1>10, <1>11, <1>12, <1>13 DEF OwnInv, Numbered

\* The node an unregistration takes off the list is the only one that can have
\* the number of the handle.
LEMMA OwnUnregister ==
  ASSUME Inv, OwnInv, NEW x \in Thread, NEW h \in held \cup stale,
         sevent_io_unregister(x, h)
  PROVE  OwnInv'
<1>1. /\ io_list' = io_list \ {h.node}
      /\ call' = [call EXCEPT ![x] = [op |-> "unregister", h |-> h]]
      /\ held' \cup stale' \subseteq held \cup stale
      /\ UNCHANGED <<id, cur, gone, pc, regs>>
      /\ x # Loop \/ pc # "call"
  BY DEF sevent_io_unregister, Forget, round, MayUnregister, CanCall, InUserCode
<1>2. call \in [Thread -> {NoCall} \cup Call] /\ io_list \subseteq Node
  BY DEF Inv, TypeOK
<1>3. \A y \in Thread : call'[y] = IF y = x THEN [op |-> "unregister", h |-> h] ELSE call[y]
  BY <1>1, <1>2
<1>4. Numbered(h)
  BY DEF OwnInv
<1>5. \A y \in Thread : call'[y] # NoCall => Numbered(call'[y].h)
  BY <1>1, <1>3, <1>4 DEF OwnInv, Numbered
<1>6. \A g \in held' \cup stale' : Numbered(g)'
  BY <1>1 DEF OwnInv, Numbered
<1>7. \A y \in Thread : call'[y].op = "unregister" =>
        \A n \in io_list' : id'[n] # call'[y].h.id
  BY <1>1, <1>2, <1>3, <1>4 DEF OwnInv, Numbered
<1>8. pc' = "call" => call'[Loop] = NoCall /\ <<Loop, id'[cur']>> \notin gone'
  BY <1>1, <1>3 DEF OwnInv, Thread
<1>9. QED
  BY <1>1, <1>5, <1>6, <1>7, <1>8 DEF OwnInv, Numbered

\* A call ends: what it goes down in history with is not on the list.
LEMMA OwnCalls ==
  ASSUME Inv, OwnInv, NEW x \in Thread,
         \/ sevent_wakeup(x)
         \/ \E h \in held \cup stale : sevent_io_unregister_absent(x, h)
  PROVE  OwnInv'
<1>1. /\ UNCHANGED <<id, io_list, cur, pc, regs>>
      /\ call \in [Thread -> {NoCall} \cup Call]
      /\ io_list \subseteq Node
  BY DEF sevent_wakeup, sevent_io_unregister_absent, memory, lists, round, Inv, TypeOK
<1>2. CASE sevent_wakeup(x)
  <2>1. /\ call[x] # NoCall /\ call[x] \in Call
        /\ call' = [call EXCEPT ![x] = NoCall]
        /\ held' = held \cup (IF call[x].op = "register" THEN {call[x].h} ELSE {})
        /\ gone' = gone \cup (IF call[x].op = "unregister" THEN {<<x, call[x].h.id>>} ELSE {})
        /\ stale' = stale
    BY <1>1, <1>2 DEF sevent_wakeup
  <2>2. Numbered(call[x].h) /\ call[x].h.id \in Id
    BY <2>1 DEF OwnInv, Call, Handle
  <2>3. \A y \in Thread : call'[y] = IF y = x THEN NoCall ELSE call[y]
    BY <1>1, <2>1
  <2>4. \A h \in held' \cup stale' : Numbered(h)
    BY <2>1, <2>2 DEF OwnInv
  <2>5. \A y \in Thread, i \in Id : <<y, i>> \in gone' => i <= regs
    BY <2>1, <2>2 DEF OwnInv, Numbered
  <2>6. \A n \in io_list, y \in Thread : <<y, id[n]>> \notin gone'
    BY <2>1 DEF OwnInv
  <2>7. \A y \in Thread : call'[y].op = "unregister" => \A n \in io_list : id[n] # call'[y].h.id
    BY <2>3 DEF OwnInv, NoCall
  <2>8. pc = "call" => call'[Loop] = NoCall /\ <<Loop, id[cur]>> \notin gone'
    BY <2>1, <2>3 DEF OwnInv, Thread
  <2>9. \A y \in Thread : call'[y] # NoCall => Numbered(call'[y].h)
    BY <2>3 DEF OwnInv
  <2>10. QED
    BY <1>1, <2>4, <2>5, <2>6, <2>7, <2>8, <2>9 DEF OwnInv, Numbered
<1>3. ASSUME NEW h \in held \cup stale, sevent_io_unregister_absent(x, h) PROVE OwnInv'
  <2>1. /\ h.node \notin io_list
        /\ gone' = gone \cup {<<x, h.id>>}
        /\ held' \cup stale' \subseteq held \cup stale
        /\ call' = call
        /\ x # Loop \/ pc # "call"
    BY <1>3 DEF sevent_io_unregister_absent, Forget, MayUnregister, CanCall, InUserCode
  <2>2. Numbered(h)
    BY DEF OwnInv
  <2>3. \A y \in Thread, i \in Id : <<y, i>> \in gone' => i <= regs
    BY <2>1, <2>2 DEF OwnInv, Numbered
  <2>4. \A n \in io_list, y \in Thread : <<y, id[n]>> \notin gone'
    BY <1>1, <2>1, <2>2 DEF OwnInv, Numbered
  <2>5. pc = "call" => <<Loop, id[cur]>> \notin gone'
    BY <2>1 DEF OwnInv
  <2>6. QED
    BY <1>1, <2>1, <2>3, <2>4, <2>5 DEF OwnInv, Numbered
<1>4. QED
  BY <1>2, <1>3

\* A round of the loop thread: only visit goes to the call, and for a node
\* that has no mark, thus one on the list.
LEMMA OwnLoop ==
  ASSUME Inv, OwnInv, LoopStep \/ select_ready \/ select_none
  PROVE  OwnInv'
<1>1. UNCHANGED <<id, io_list, held, stale, gone, call, regs>> /\ call[Loop] = NoCall
  BY DEF LoopStep, select_ready, select_none, round_begin, run_free_death, run_build_fdset,
         sevent_wakeup_drain, visit, callback, callback_return, run_io_callbacks_end,
         LoopAt, memory, lists, users
<1>2. pc' = "call" => <<Loop, id[cur']>> \notin gone
  <2>1. ASSUME NEW n \in snap, visit(n) PROVE pc' = "call" => <<Loop, id[cur']>> \notin gone
    <3>1. pc = "io" /\ n \in alloc
      BY <2>1 DEF visit, LoopAt, Inv, SnapshotIntact
    <3>2. pc' = "call" => cur' = n /\ ~deleted[n]
      BY <2>1, <3>1 DEF visit
    <3>3. ~deleted[n] => n \in io_list
      BY <3>1 DEF Inv, HandlesConsistent
    <3>4. QED
      BY <3>2, <3>3 DEF OwnInv, Thread
  <2>2. CASE ~\E n \in snap : visit(n)
    <3>1. pc' # "call"
      BY <2>2
         DEF LoopStep, select_ready, select_none, round_begin, run_free_death, run_build_fdset,
             sevent_wakeup_drain, callback, callback_return, run_io_callbacks_end, round_end
    <3>2. QED
      BY <3>1
  <2>3. QED
    BY <2>1, <2>2
<1>3. QED
  BY <1>1, <1>2 DEF OwnInv, Numbered

\* Once the loop thread has unregistered a handle, whichever callback it did
\* it in, run_io_callbacks does not call that registration's callback again.
THEOREM OwnUnregisterFinalHolds == Spec => OwnUnregisterFinal
<1>1. Inv /\ OwnInv /\ [Next]_vars => OwnInv'
  <2> SUFFICES ASSUME Inv, OwnInv, [Next]_vars PROVE OwnInv'
    OBVIOUS
  <2>1. ASSUME NEW x \in Thread, Api(x) PROVE OwnInv'
    BY <2>1, OwnRegister, OwnUnregister, OwnCalls DEF Api
  <2>2. CASE UNCHANGED vars
    BY <2>2 DEF OwnInv, Numbered, vars, memory, lists, round, users
  <2>3. QED
    BY <2>1, <2>2, OwnLoop DEF Next
<1>2. OwnInv => (pc = "call" => <<Loop, id[cur]>> \notin gone)
  BY DEF OwnInv
<1>3. OwnInv => [pc = "call" /\ pc' = "callback" => <<Loop, id[cur]>> \notin gone]_vars
  BY <1>2
<1>4. QED
  BY <1>1, <1>3, OwnInit, InvHolds, PTL DEF Spec, OwnUnregisterFinal
===============================================================================
