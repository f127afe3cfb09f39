--------------------------- MODULE PostWsConnProofs ---------------------------
(***************************************************************************)
(* The proofs about SeventPost, through which the loop is told to run and  *)
(* to stop, and about WsConn, the life of a WebSocket connection.          *)
(***************************************************************************)
EXTENDS SeventPost, WsConn, DataLemmas

(***************************************************************************)
(* SeventPost, for any set of worker threads and of tasks.                 *)
(***************************************************************************)

(* Facts about queues that are split in two. *)

\* Enqueueing at the second part is enqueueing at the whole.
LEMMA AppendConcat ==
  ASSUME NEW S, NEW a \in Seq(S), NEW p \in Seq(S), NEW t \in S
  PROVE  a \o Append(p, t) = Append(a \o p, t)
<1>1. a \o p \in Seq(S) /\ a \o Append(p, t) \in Seq(S) /\ Append(a \o p, t) \in Seq(S)
  OBVIOUS
<1>2. <<t>> \in Seq(S)
  OBVIOUS
<1>3. (a \o p) \o <<t>> = a \o (p \o <<t>>)
  BY <1>2, ConcatAssociative
<1>4. Append(p, t) = p \o <<t>> /\ Append(a \o p, t) = (a \o p) \o <<t>>
  BY <1>1, AppendIsConcat
<1>5. QED
  BY <1>3, <1>4

\* A non-empty queue is its head followed by its tail.
LEMMA HeadThenTail ==
  ASSUME NEW S, NEW a \in Seq(S), a # <<>>
  PROVE  /\ Head(a) \in S /\ Tail(a) \in Seq(S)
         /\ a = <<Head(a)>> \o Tail(a)
<1>1. Head(a) \in S /\ Tail(a) \in Seq(S)
  BY HeadTailProperties
<1>2. Len(a) \in 1..Len(a)
  OBVIOUS
<1>3. SubSeq(a, 1, Len(a)) = <<a[1]>> \o SubSeq(a, 2, Len(a))
  OBVIOUS
<1>4. QED
  BY <1>1, <1>3, SubSeqFull, TailIsSubSeq

\* The head and the tail of a queue are those of its non-empty first part.
LEMMA HeadTailConcat ==
  ASSUME NEW S, NEW a \in Seq(S), NEW p \in Seq(S), a # <<>>
  PROVE  /\ a \o p # <<>>
         /\ Head(a \o p) = Head(a)
         /\ Tail(a \o p) = Tail(a) \o p
<1>1. a \o p \in Seq(S) /\ Len(a \o p) = Len(a) + Len(p) /\ Len(a) > 0
  OBVIOUS
<1>2. a \o p # <<>> /\ Head(a \o p) = Head(a)
  BY <1>1
<1>3. Tail(a) \in Seq(S) /\ Tail(a \o p) \in Seq(S) /\ Tail(a) \o p \in Seq(S)
  BY <1>1, <1>2, HeadTailProperties, ConcatProperties
<1>4. Len(Tail(a \o p)) = Len(Tail(a) \o p)
  BY <1>1, <1>2, <1>3
<1>5. \A i \in 1..Len(Tail(a \o p)) : Tail(a \o p)[i] = (Tail(a) \o p)[i]
  BY <1>1, <1>2, <1>3, <1>4
<1>6. QED
  BY <1>2, <1>3, <1>4, <1>5, SeqEqual

\* Moving the head of the second part to the end of the first changes nothing.
LEMMA ShiftHead ==
  ASSUME NEW S, NEW d \in Seq(S), NEW a \in Seq(S), NEW p \in Seq(S), a # <<>>
  PROVE  (Append(d, Head(a)) \o Tail(a)) \o p = (d \o a) \o p
<1>1. Head(a) \in S /\ Tail(a) \in Seq(S) /\ a = <<Head(a)>> \o Tail(a)
  BY HeadThenTail
<1>2. <<Head(a)>> \in Seq(S)
  BY <1>1
<1>3. Append(d, Head(a)) = d \o <<Head(a)>>
  BY <1>1, AppendIsConcat
<1>4. (d \o <<Head(a)>>) \o Tail(a) = d \o (<<Head(a)>> \o Tail(a))
  BY <1>1, <1>2, ConcatAssociative
<1>5. QED
  BY <1>1, <1>3, <1>4

-------------------------------------------------------------------------------

\* Every step keeps the types; run_posts leaves its phase with an empty list.
THEOREM TypeCorrect == Spec => []TypeOK
<1>1. Init => TypeOK
  <2> SUFFICES ASSUME Init PROVE TypeOK
    OBVIOUS
  <2>1. call \in [Thread -> {"none", "wakeup"}]
    BY DEF Init
  <2>2. <<>> \in Seq(Task)
    OBVIOUS
  <2>3. QED
    BY <2>1, <2>2 DEF Init, TypeOK, PC
<1>2. TypeOK /\ [Next]_vars => TypeOK'
  <2> SUFFICES ASSUME TypeOK, [Next]_vars PROVE TypeOK'
    OBVIOUS
  <2> USE DEF TypeOK, PC, CanCall, InUserCode, ThenWakeup, LoopAt, Goto, RoundEnd
  <2>1. ASSUME NEW x \in Thread, sevent_wakeup(x) PROVE TypeOK'
    BY <2>1 DEF sevent_wakeup, queues, control
  <2>2. ASSUME NEW x \in Thread, NEW t \in Task, sevent_post(x, t) PROVE TypeOK'
    BY <2>2 DEF sevent_post, control
  <2>3. ASSUME NEW x \in Thread, NEW t \in Task, sevent_dispatch(x, t) PROVE TypeOK'
    BY <2>2, <2>3 DEF sevent_dispatch, control
  <2>4. ASSUME NEW x \in Thread, sevent_stop(x) PROVE TypeOK'
    BY <2>4 DEF sevent_stop, queues
  <2>5. ASSUME NEW x \in Thread, change_handles(x) PROVE TypeOK'
    BY <2>5 DEF change_handles, queues, control
  <2>6. CASE sevent_destroy
    BY <2>6 DEF sevent_destroy
  <2>7. CASE sevent_run \/ sevent_run_once \/ set_running \/ test_running
    BY <2>7 DEF sevent_run, sevent_run_once, set_running, test_running, queues, control
  <2>8. CASE run_build_fdset \/ sevent_wakeup_drain \/ run_io_callbacks \/ run_timers
    BY <2>8 DEF run_build_fdset, sevent_wakeup_drain, run_io_callbacks, run_timers, queues, control
  <2>9. CASE run_posts_take
    BY <2>9 DEF run_posts_take, control
  <2>10. CASE run_posts_return
    BY <2>10 DEF run_posts_return, control
  <2>11. CASE run_posts_end
    BY <2>11 DEF run_posts_end, queues, control
  <2>12. CASE Select
    BY <2>12 DEF Select, select_wake, select_other, select_ebadf, select_fatal, queues, control
  <2>13. CASE UNCHANGED vars
    BY <2>13 DEF vars, queues, control
  <2>14. QED
    BY <2>1, <2>2, <2>3, <2>4, <2>5, <2>6, <2>7, <2>8, <2>9, <2>10, <2>11, <2>12, <2>13
       DEF Next, Api, LoopStep
<1>3. QED
  BY <1>1, <1>2, PTL DEF Spec

-------------------------------------------------------------------------------
(***************************************************************************)
(* No lost wakeup.  Where the loop is matters: between draining the fd and *)
(* taking the queue ("io", "take") a pending task needs no wakeup, because *)
(* the loop is about to look; and a cleared flag needs none outside        *)
(* "build" and "select", because the loop tests it before it can block.    *)
(* sevent_run_once starts at "build" too, with the flag as it may be: the  *)
(* last conjunct tells such a round from one of sevent_run.                *)
(***************************************************************************)
WakeInv ==
  /\ post_pending # <<>> => Wakening \/ pc \in {"io", "take"}
  /\ pc \in {"build", "select"} /\ inRun /\ ~running => Wakening
  /\ pc = "idle" => ~inRun

\* A wakeup in progress is ended only by the write that makes the fd readable.
LEMMA WakeningKept ==
  ASSUME Wakening, UNCHANGED <<wake, call>>
  PROVE  Wakening'
BY DEF Wakening

\* A call that reaches sevent_wakeup keeps the loop awake until the drain.
LEMMA WakeningStarted ==
  ASSUME TypeOK, NEW x \in Thread, ThenWakeup(x)
  PROVE  Wakening'
<1>1. call'[x] = "wakeup"
  BY DEF TypeOK, ThenWakeup
<1>2. QED
  BY <1>1 DEF Wakening

\* WakeInv holds initially and is kept by every step.
THEOREM WakeInductive == Spec => []WakeInv
<1>1. Init => WakeInv
  BY DEF Init, WakeInv
<1>2. TypeOK /\ WakeInv /\ [Next]_vars => WakeInv'
  <2> SUFFICES ASSUME TypeOK, WakeInv, [Next]_vars PROVE WakeInv'
    OBVIOUS
  <2>1. ASSUME NEW x \in Thread, sevent_wakeup(x) PROVE WakeInv'
    BY <2>1 DEF sevent_wakeup, control, WakeInv, Wakening
  <2>2. ASSUME NEW x \in Thread, ThenWakeup(x), UNCHANGED <<pc, inRun>> PROVE WakeInv'
    BY <2>2, WakeningStarted DEF WakeInv
  <2>3. ASSUME NEW x \in Thread, NEW t \in Task, sevent_post(x, t) PROVE WakeInv'
    BY <2>2, <2>3 DEF sevent_post, control
  <2>4. ASSUME NEW x \in Thread, NEW t \in Task, sevent_dispatch(x, t) PROVE WakeInv'
    <3>1. CASE UNCHANGED <<post_pending, control, wake, pc, call>>
      BY <3>1, WakeningKept DEF WakeInv, control
    <3>2. CASE sevent_post(x, t)
      BY <3>2, <2>3
    <3>3. QED
      BY <2>4, <3>1, <3>2 DEF sevent_dispatch
  <2>5. ASSUME NEW x \in Thread, sevent_stop(x) \/ change_handles(x) PROVE WakeInv'
    BY <2>2, <2>5 DEF sevent_stop, change_handles, control
  <2>6. CASE sevent_destroy
    BY <2>6 DEF sevent_destroy, WakeInv
  <2>7. CASE sevent_wakeup_drain
    BY <2>7 DEF sevent_wakeup_drain, WakeInv, Goto
  <2>8. CASE run_posts_take
    BY <2>8 DEF run_posts_take, WakeInv, Goto
  <2> DEFINE Silent == UNCHANGED <<post_pending, wake, call>>
  <2>9. CASE sevent_run \/ sevent_run_once \/ set_running \/ test_running
    <3>1. Silent
      BY <2>9 DEF sevent_run, sevent_run_once, set_running, test_running, queues
    <3>2. pc # "io" /\ pc # "take"
      BY <2>9 DEF sevent_run, sevent_run_once, set_running, test_running, LoopAt
    <3>3. post_pending' # <<>> => Wakening'
      BY <3>1, <3>2, WakeningKept DEF WakeInv
    <3>4. pc' \in {"build", "select"} /\ inRun' /\ ~running' => Wakening'
      BY <2>9, <3>1, WakeningKept
         DEF sevent_run, sevent_run_once, set_running, test_running, LoopAt, Goto, control, WakeInv
    <3>5. pc' = "idle" => ~inRun'
      BY <2>9 DEF sevent_run, sevent_run_once, set_running, test_running, Goto
    <3>6. QED
      BY <3>3, <3>4, <3>5 DEF WakeInv
  <2>10. CASE run_build_fdset
    BY <2>10, WakeningKept DEF run_build_fdset, LoopAt, Goto, queues, WakeInv
  <2>11. CASE Select
    BY <2>11, WakeningKept
       DEF Select, select_wake, select_other, select_ebadf, select_fatal, LoopAt,
           Goto, RoundEnd, queues, control, WakeInv
  <2>12. CASE run_io_callbacks \/ run_posts_return \/ run_posts_end \/ run_timers
    BY <2>12, WakeningKept
       DEF run_io_callbacks, run_posts_return, run_posts_end, run_timers, LoopAt,
           Goto, RoundEnd, queues, control, WakeInv
  <2>13. CASE UNCHANGED vars
    BY <2>13, WakeningKept DEF vars, queues, control, WakeInv
  <2>14. QED
    BY <2>1, <2>3, <2>4, <2>5, <2>6, <2>7, <2>8, <2>9, <2>10, <2>11, <2>12, <2>13
       DEF Next, Api, LoopStep
<1>3. QED
  BY <1>1, <1>2, TypeCorrect, PTL DEF Spec

\* A loop blocked in select with a task pending is being woken.
THEOREM NoLostPostHolds == Spec => []NoLostPost
<1>1. WakeInv => NoLostPost
  BY DEF WakeInv, NoLostPost
<1>2. QED
  BY <1>1, WakeInductive, PTL

\* A loop of sevent_run blocked in select after sevent_stop is being woken.
THEOREM NoLostStopHolds == Spec => []NoLostStop
<1>1. WakeInv => NoLostStop
  BY DEF WakeInv, NoLostStop
<1>2. QED
  BY <1>1, WakeInductive, PTL

-------------------------------------------------------------------------------
(***************************************************************************)
(* The hand-over of the queue.                                             *)
(***************************************************************************)

\* The accepted tasks are the finished, the taken and the pending ones, in
\* that order: the hand-over neither loses, repeats nor reorders a task.
THEOREM FifoHolds == Spec => []Fifo
<1>1. Init => Fifo
  <2> SUFFICES ASSUME Init PROVE <<>> = (<<>> \o <<>>) \o <<>>
    BY DEF Init, Fifo
  <2>1. <<>> \in Seq(Task) /\ <<>> \o <<>> = <<>>
    BY ConcatEmptySeq, EmptySeq
  <2>2. QED
    BY <2>1
<1>2. TypeOK /\ Fifo /\ [Next]_vars => Fifo'
  <2> SUFFICES ASSUME TypeOK, Fifo, [Next]_vars PROVE Fifo'
    OBVIOUS
  <2>0. /\ posted \in Seq(Task) /\ done \in Seq(Task)
        /\ active \in Seq(Task) /\ post_pending \in Seq(Task)
        /\ done \o active \in Seq(Task)
    BY DEF TypeOK
  <2>1. ASSUME NEW x \in Thread, NEW t \in Task, sevent_post(x, t) PROVE Fifo'
    <3>1. (done \o active) \o Append(post_pending, t)
            = Append((done \o active) \o post_pending, t)
      BY <2>0, AppendConcat
    <3>2. UNCHANGED <<pc, done, active>>
      BY <2>1 DEF sevent_post
    <3>3. QED
      BY <2>1, <3>1, <3>2 DEF sevent_post, Fifo
  <2> DEFINE Same == UNCHANGED <<post_pending, active, posted, done>>
  <2>2. CASE Same /\ (pc = "destroyed" => pc' = "destroyed")
    BY <2>2 DEF Fifo
  <2>3. ASSUME NEW x \in Thread, Api(x) PROVE Fifo'
    <3>1. ASSUME Same, UNCHANGED pc PROVE Fifo'
      BY <3>1, <2>2
    <3>2. CASE sevent_wakeup(x) \/ sevent_stop(x) \/ change_handles(x)
      BY <3>1, <3>2 DEF sevent_wakeup, sevent_stop, change_handles, queues
    <3>3. ASSUME NEW t \in Task, sevent_dispatch(x, t) PROVE Fifo'
      BY <3>1, <3>3, <2>1 DEF sevent_dispatch
    <3>4. QED
      BY <2>1, <2>3, <3>2, <3>3 DEF Api
  <2>4. CASE sevent_destroy
    BY <2>4 DEF sevent_destroy, Fifo
  <2>5. CASE run_posts_take
    <3>1. active = <<>>
      BY <2>5 DEF run_posts_take, LoopAt, TypeOK
    <3>2. done \o <<>> = done /\ (done \o post_pending) \o <<>> = done \o post_pending
      BY <2>0, ConcatEmptySeq, ConcatProperties
    <3>3. QED
      BY <2>5, <3>1, <3>2 DEF run_posts_take, LoopAt, Goto, Fifo
  <2>6. CASE run_posts_return
    <3>1. (Append(done, Head(active)) \o Tail(active)) \o post_pending
            = (done \o active) \o post_pending
      BY <2>0, <2>6, ShiftHead, SMTT(30) DEF run_posts_return
    <3>2. QED
      BY <2>6, <3>1 DEF run_posts_return, Fifo
  <2>7. CASE sevent_run \/ sevent_run_once \/ set_running \/ test_running
    BY <2>2, <2>7 DEF sevent_run, sevent_run_once, set_running, test_running, LoopAt, queues
  <2>8. CASE Select
    BY <2>2, <2>8 DEF Select, select_wake, select_other, select_ebadf, select_fatal, LoopAt, queues
  <2>9. CASE run_build_fdset \/ sevent_wakeup_drain \/ run_io_callbacks
              \/ run_posts_end \/ run_timers
    BY <2>2, <2>9
       DEF run_build_fdset, sevent_wakeup_drain, run_io_callbacks, run_posts_end,
           run_timers, LoopAt, queues
  <2>10. CASE UNCHANGED vars
    BY <2>2, <2>10 DEF vars, queues
  <2>11. QED
    BY <2>3, <2>4, <2>5, <2>6, <2>7, <2>8, <2>9, <2>10 DEF Next, LoopStep
<1>3. QED
  BY <1>1, <1>2, TypeCorrect, PTL DEF Spec

\* SeventPost implements TaskQueue: taking the queue is invisible, a callback
\* that returns finishes the oldest task.
THEOREM Refinement == Spec => TaskQueueSpec
<1>1. Init => Queue!Init
  <2> SUFFICES ASSUME Init PROVE <<>> \o <<>> = <<>>
    BY DEF Init, Queue!Init
  <2>1. QED
    BY ConcatEmptySeq, EmptySeq
<1>2. TypeOK /\ [Next]_vars => [Queue!Next]_(Queue!vars)
  <2> SUFFICES ASSUME TypeOK, [Next]_vars PROVE [Queue!Next]_(Queue!vars)
    OBVIOUS
  <2>0. active \in Seq(Task) /\ post_pending \in Seq(Task)
    BY DEF TypeOK
  <2>1. ASSUME NEW x \in Thread, NEW t \in Task, sevent_post(x, t) PROVE Queue!Next
    <3>1. active \o Append(post_pending, t) = Append(active \o post_pending, t)
      BY <2>0, AppendConcat
    <3>2. QED
      BY <2>1, <3>1 DEF sevent_post, Queue!Next, Queue!Accept
  <2>2. ASSUME UNCHANGED <<post_pending, active, done>> PROVE UNCHANGED Queue!vars
    BY <2>2 DEF Queue!vars
  <2>3. ASSUME NEW x \in Thread, Api(x) PROVE [Queue!Next]_(Queue!vars)
    <3>1. CASE sevent_wakeup(x) \/ sevent_stop(x) \/ change_handles(x)
      BY <2>2, <3>1 DEF sevent_wakeup, sevent_stop, change_handles, queues
    <3>2. ASSUME NEW t \in Task, sevent_dispatch(x, t) PROVE [Queue!Next]_(Queue!vars)
      BY <2>1, <2>2, <3>2 DEF sevent_dispatch
    <3>3. QED
      BY <2>1, <2>3, <3>1, <3>2 DEF Api
  <2>4. CASE sevent_destroy
    <3>1. active = <<>> /\ <<>> \o <<>> = <<>>
      BY <2>4, ConcatEmptySeq, EmptySeq DEF sevent_destroy, TypeOK
    <3>2. QED
      BY <2>4, <3>1 DEF sevent_destroy, Queue!Next, Queue!Discard
  <2>5. CASE run_posts_take
    <3>1. active = <<>> /\ <<>> \o post_pending = post_pending \o <<>>
      BY <2>0, <2>5, ConcatEmptySeq DEF run_posts_take, LoopAt, TypeOK
    <3>2. QED
      BY <2>5, <3>1 DEF run_posts_take, Queue!vars
  <2>6. CASE run_posts_return
    <3>1. /\ active \o post_pending # <<>>
          /\ Head(active \o post_pending) = Head(active)
          /\ Tail(active \o post_pending) = Tail(active) \o post_pending
      BY <2>0, <2>6, HeadTailConcat DEF run_posts_return
    <3>2. QED
      BY <2>6, <3>1 DEF run_posts_return, Queue!Next, Queue!Finish
  <2>7. CASE sevent_run \/ sevent_run_once \/ set_running \/ test_running
    BY <2>2, <2>7 DEF sevent_run, sevent_run_once, set_running, test_running, queues
  <2>8. CASE Select
    BY <2>2, <2>8 DEF Select, select_wake, select_other, select_ebadf, select_fatal, queues
  <2>9. CASE run_build_fdset \/ sevent_wakeup_drain \/ run_io_callbacks
              \/ run_posts_end \/ run_timers
    BY <2>2, <2>9
       DEF run_build_fdset, sevent_wakeup_drain, run_io_callbacks, run_posts_end,
           run_timers, queues
  <2>10. CASE UNCHANGED vars
    BY <2>2, <2>10 DEF vars, queues
  <2>11. QED
    BY <2>3, <2>4, <2>5, <2>6, <2>7, <2>8, <2>9, <2>10 DEF Next, LoopStep
<1>3. QED
  BY <1>1, <1>2, TypeCorrect, PTL DEF Spec, TaskQueueSpec, Queue!Spec

-----------------------------------------------------------------------------
(***************************************************************************)
(* WsConn, for any configurations, peers, outcomes of writes and calls of  *)
(* the user's in callbacks.                                                *)
(*                                                                         *)
(* A step is a composition of functions that make callbacks, in which the  *)
(* user calls functions that make callbacks. WsCallsProofs has what the    *)
(* functions keep if the callbacks keep it; Inner and Outer are its lemmas *)
(* for the functions below and around a callback. What is left here: the   *)
(* frames, the handshakes and the steps of the loop, one lemma each.       *)
(***************************************************************************)

Inner ==
  INSTANCE WsCallsProofs WITH Called <- Quiet, Cfg <- Configs \cup {<<>>}, Buffer <- Seq(Item),
                              Header <- Headers, Plan <- Plans, Outcome <- Outcomes

Outer ==
  INSTANCE WsCallsProofs WITH Called <- Called, Cfg <- Configs \cup {<<>>}, Buffer <- Seq(Item),
                              Header <- Headers, Plan <- Plans, Outcome <- Outcomes

\* The states of a step and what every function keeps: see WsCallsProofs.
State == Outer!State
Told(x) == Outer!Told(x)
Good(x) == Outer!Good(x)
Keeps(x, y) == Outer!Keeps(x, y)
Ended(x, y) == Outer!Ended(x, y)

-----------------------------------------------------------------------------
(* WsConn has the operators of WsCalls twice, and here are the same again with what is *)
(* proved about them.                                                                    *)

\* The operators of WsConn are those of Outer.
LEMMA SameOuter ==
  /\ \A x, what : Notify(x, what) = Outer!Notify(x, what)
  /\ \A x : ws_close_socket(x) = Outer!ws_close_socket(x)
  /\ \A x : Closed(x) = Outer!Closed(x)
  /\ \A x : ws_enter_closed(x) = Outer!ws_enter_closed(x)
  /\ \A x, err : ws_stream_on_error(x, err) = Outer!ws_stream_on_error(x, err)
  /\ \A x, put : stream_write(x, put) = Outer!stream_write(x, put)
  /\ \A x, kind : send_frame(x, kind) = Outer!send_frame(x, kind)
  /\ \A x : ws_send_close_code(x) = Outer!ws_send_close_code(x)
  /\ \A x, err : ws_fatal(x, err) = Outer!ws_fatal(x, err)
  /\ \A x : \A act \in Calls : Act(x, act) = Outer!Act(x, act)
<1>1. \A x, what : Notify(x, what) = Outer!Notify(x, what)
  BY DEF Notify, Outer!Notify
<1>2. \A x : ws_close_socket(x) = Outer!ws_close_socket(x)
  BY DEF ws_close_socket, Outer!ws_close_socket
<1>3. \A x : Closed(x) = Outer!Closed(x)
  BY <1>2 DEF Closed, Outer!Closed
<1>4. \A x : ws_enter_closed(x) = Outer!ws_enter_closed(x)
  BY <1>1, <1>3 DEF ws_enter_closed, Outer!ws_enter_closed
<1>5. \A x, err : ws_stream_on_error(x, err) = Outer!ws_stream_on_error(x, err)
  BY <1>1, <1>3, <1>4 DEF ws_stream_on_error, Outer!ws_stream_on_error
<1>6. \A x, put : stream_write(x, put) = Outer!stream_write(x, put)
  BY <1>5 DEF stream_write, Outer!stream_write
<1>7. \A g, f : OnWire(g, f) = Outer!OnWire(g, f)
  BY DEF OnWire, Outer!OnWire
<1>8. \A k, n : Frame(k, n) = Outer!Frame(k, n)
  BY DEF Frame, Outer!Frame
<1>9. \A x, f : send_frame_raw(x, f) = Outer!send_frame_raw(x, f)
  BY <1>6, <1>7 DEF send_frame_raw, Outer!send_frame_raw
<1>10. \A x, kind : send_frame(x, kind) = Outer!send_frame(x, kind)
  BY <1>8, <1>9 DEF send_frame, Outer!send_frame
<1>11. \A x : send_message(x) = Outer!send_message(x)
  BY <1>8, <1>9, <1>10 DEF send_message, Outer!send_message
<1>12. \A x : ws_send_close_code(x) = Outer!ws_send_close_code(x)
  BY <1>4, <1>10 DEF ws_send_close_code, Outer!ws_send_close_code
<1>13. \A x, err : ws_fatal(x, err) = Outer!ws_fatal(x, err)
  BY <1>1, <1>3, <1>10 DEF ws_fatal, Outer!ws_fatal
<1>14. \A x : Sent(x) = Outer!Sent(x)
  BY <1>13 DEF Sent, Outer!Sent
<1>15. \A x : sevent_ws_send_text(x) = Outer!sevent_ws_send_text(x)
  BY <1>11, <1>14 DEF sevent_ws_send_text, Outer!sevent_ws_send_text
<1>16. \A x : sevent_ws_ping(x) = Outer!sevent_ws_ping(x)
  BY <1>10, <1>14 DEF sevent_ws_ping, Outer!sevent_ws_ping
<1>17. \A x : sevent_ws_shutdown(x) = Outer!sevent_ws_shutdown(x)
  BY <1>10, <1>14 DEF sevent_ws_shutdown, Outer!sevent_ws_shutdown
<1>18. \A x : sevent_ws_close(x) = Outer!sevent_ws_close(x)
  BY <1>3 DEF sevent_ws_close, Outer!sevent_ws_close
<1>19. \A x : sevent_ws_destroy(x) = Outer!sevent_ws_destroy(x)
  BY <1>18 DEF sevent_ws_destroy, Outer!sevent_ws_destroy
<1>20. \A x : \A act \in Calls : Act(x, act) = Outer!Act(x, act)
  BY <1>15, <1>16, <1>17, <1>18, <1>19 DEF Calls, Act, Outer!Act
<1> QED BY <1>1, <1>2, <1>3, <1>4, <1>5, <1>6, <1>10, <1>12, <1>13, <1>20

\* The operators below a callback are those of Inner.
LEMMA SameInner ==
  \A x : \A act \in Calls : Nested!Act(x, act) = Inner!Act(x, act)
<1>1. \A x, what : Nested!Notify(x, what) = Inner!Notify(x, what)
  BY DEF Nested!Notify, Inner!Notify
<1>2. \A x : Nested!ws_close_socket(x) = Inner!ws_close_socket(x)
  BY DEF Nested!ws_close_socket, Inner!ws_close_socket
<1>3. \A x : Nested!Closed(x) = Inner!Closed(x)
  BY <1>2 DEF Nested!Closed, Inner!Closed
<1>4. \A x : Nested!ws_enter_closed(x) = Inner!ws_enter_closed(x)
  BY <1>1, <1>3 DEF Nested!ws_enter_closed, Inner!ws_enter_closed
<1>5. \A x, err : Nested!ws_stream_on_error(x, err) = Inner!ws_stream_on_error(x, err)
  BY <1>1, <1>3, <1>4 DEF Nested!ws_stream_on_error, Inner!ws_stream_on_error
<1>6. \A x, put : Nested!stream_write(x, put) = Inner!stream_write(x, put)
  BY <1>5 DEF Nested!stream_write, Inner!stream_write
<1>7. \A g, f : Nested!OnWire(g, f) = Inner!OnWire(g, f)
  BY DEF Nested!OnWire, Inner!OnWire
<1>8. \A k, n : Nested!Frame(k, n) = Inner!Frame(k, n)
  BY DEF Nested!Frame, Inner!Frame
<1>9. \A x, f : Nested!send_frame_raw(x, f) = Inner!send_frame_raw(x, f)
  BY <1>6, <1>7 DEF Nested!send_frame_raw, Inner!send_frame_raw
<1>10. \A x, kind : Nested!send_frame(x, kind) = Inner!send_frame(x, kind)
  BY <1>8, <1>9 DEF Nested!send_frame, Inner!send_frame
<1>11. \A x : Nested!send_message(x) = Inner!send_message(x)
  BY <1>8, <1>9, <1>10 DEF Nested!send_message, Inner!send_message
<1>12. \A x, err : Nested!ws_fatal(x, err) = Inner!ws_fatal(x, err)
  BY <1>1, <1>3, <1>10 DEF Nested!ws_fatal, Inner!ws_fatal
<1>13. \A x : Nested!Sent(x) = Inner!Sent(x)
  BY <1>12 DEF Nested!Sent, Inner!Sent
<1>14. \A x : Nested!sevent_ws_send_text(x) = Inner!sevent_ws_send_text(x)
  BY <1>11, <1>13 DEF Nested!sevent_ws_send_text, Inner!sevent_ws_send_text
<1>15. \A x : Nested!sevent_ws_ping(x) = Inner!sevent_ws_ping(x)
  BY <1>10, <1>13 DEF Nested!sevent_ws_ping, Inner!sevent_ws_ping
<1>16. \A x : Nested!sevent_ws_shutdown(x) = Inner!sevent_ws_shutdown(x)
  BY <1>10, <1>13 DEF Nested!sevent_ws_shutdown, Inner!sevent_ws_shutdown
<1>17. \A x : Nested!sevent_ws_close(x) = Inner!sevent_ws_close(x)
  BY <1>3 DEF Nested!sevent_ws_close, Inner!sevent_ws_close
<1>18. \A x : Nested!sevent_ws_destroy(x) = Inner!sevent_ws_destroy(x)
  BY <1>17 DEF Nested!sevent_ws_destroy, Inner!sevent_ws_destroy
<1>19. \A x : \A act \in Calls : Nested!Act(x, act) = Inner!Act(x, act)
  BY <1>14, <1>15, <1>16, <1>17, <1>18 DEF Calls, Nested!Act, Inner!Act
<1> QED BY <1>19

\* What is kept does not depend on what callbacks do.
LEMMA SameStates ==
  /\ \A x : Inner!Good(x) <=> Good(x)
  /\ \A x, y : Inner!Keeps(x, y) <=> Keeps(x, y)
<1>1. Inner!State = Outer!State
  BY DEF Inner!State, Outer!State, Inner!Conn, Outer!Conn, Inner!Hist, Outer!Hist
<1>2. \A x : Inner!Told(x) <=> Outer!Told(x)
  BY DEF Inner!Told, Outer!Told, Inner!Apart, Outer!Apart
<1>3. \A x : Inner!Live(x) <=> Outer!Live(x)
  BY DEF Inner!Live, Outer!Live, Inner!Opening, Outer!Opening, Inner!InStep, Outer!InStep
<1>4. \A x : Inner!Good(x) <=> Good(x)
  BY <1>1, <1>2, <1>3 DEF Inner!Good, Outer!Good, Good
<1>5. \A x, y : Inner!Keeps(x, y) <=> Keeps(x, y)
  BY DEF Inner!Keeps, Outer!Keeps, Keeps
<1> QED BY <1>4, <1>5

\* A callback in which the user does nothing.
LEMMA QuietKeeps ==
  ASSUME NEW x, Good(x)
  PROVE  Good(Quiet(x)) /\ Keeps(x, Quiet(x)) /\ Quiet(x).calls = x.calls + 1
<1> DEFINE y == Quiet(x)
<1>1. /\ y \in Outer!State /\ y.c = x.c /\ y.h = x.h /\ y.plan = x.plan /\ y.outcome = x.outcome
      /\ y.calls = x.calls + 1
  BY DEF Good, Outer!Good, Outer!State, Quiet
<1> HIDE DEF y
<1>2. Good(y)
  BY <1>1 DEF Good, Outer!Good, Outer!Told, Outer!Apart, Outer!Live, Outer!Opening, Outer!InStep
<1>3. Keeps(x, y)
  BY <1>1 DEF Keeps, Outer!Keeps, Good, Outer!Good, Outer!State, Outer!Conn
<1> QED BY <1>1, <1>2, <1>3 DEF y

\* Whatever the user does in a callback, and in the callbacks below it.
LEMMA CallbackKeeps == Outer!Callbacks
<1>1. Inner!Callbacks
  BY QuietKeeps, SameStates DEF Inner!Callbacks
<1> SUFFICES ASSUME NEW x \in Outer!State, Outer!Good(x)
             PROVE  Outer!Good(Called(x)) /\ Outer!Keeps(x, Called(x))
  BY DEF Outer!Callbacks
<1> DEFINE y == Quiet(x)
<1>2. Good(y) /\ Keeps(x, y) /\ y.calls = x.calls + 1
  BY QuietKeeps DEF Good
<1> HIDE DEF y
<1>3. CASE y.calls # y.plan.at
  BY <1>2, <1>3 DEF Called, y, Good, Keeps
<1>4. CASE y.calls = y.plan.at
  <2>1. y.calls # 0 /\ y.plan \in Plans
    BY <1>2 DEF Good, Outer!Good, Outer!State
  <2>2. y.plan.act \in Calls
    BY <1>4, <2>1, ConnAssumption DEF Plans, NoPlan
  <2>3. Inner!Good(Inner!Act(y, y.plan.act)) /\ Inner!Keeps(y, Inner!Act(y, y.plan.act))
    BY <1>1, <1>2, <2>2, SameStates, Inner!Acted DEF Calls
  <2>4. Called(x) = Inner!Act(y, y.plan.act)
    BY <1>4, <2>2, SameInner DEF Called, y
  <2> QED BY <1>2, <2>3, <2>4, SameStates, Outer!KeepsTwice DEF Good, Keeps
<1> QED BY <1>3, <1>4

-----------------------------------------------------------------------------
(* What is proved in WsCallsProofs, for the operators as WsConn has them. *)

\* KeepsTwice.
LEMMA Twice ==
  ASSUME NEW x, NEW y, NEW z, Keeps(x, y), Keeps(y, z)
  PROVE  Keeps(x, z)
BY Outer!KeepsTwice DEF Keeps

\* KeepsSelf.
LEMMA Self ==
  ASSUME NEW x \in State
  PROVE  Keeps(x, x)
BY Outer!KeepsSelf DEF Keeps, State

\* Callbacks.
LEMMA CalledKeeps ==
  ASSUME NEW x, Good(x)
  PROVE  Good(Called(x)) /\ Keeps(x, Called(x))
BY CallbackKeeps DEF Outer!Callbacks, Good, Keeps, Outer!Good

\* ResultOnly.
LEMMA ResultSet ==
  ASSUME NEW x, Good(x), NEW r \in {"ok", "WRITE", "NOMEM", "INVAL", "PROTOCOL"}
  PROVE  /\ Good([x EXCEPT !.ret = r]) /\ Keeps(x, [x EXCEPT !.ret = r])
         /\ [x EXCEPT !.ret = r].c = x.c /\ [x EXCEPT !.ret = r].ret = r
BY Outer!ResultOnly DEF Good, Keeps

\* EnterClosed.
LEMMA EnterClosedEnds ==
  ASSUME NEW x \in State, Told(x)
  PROVE  Ended(x, ws_enter_closed(x))
BY CallbackKeeps, SameOuter, Outer!EnterClosed DEF Ended, State, Told

\* StreamError.
LEMMA StreamErrorEnds ==
  ASSUME NEW x \in State, Told(x), NEW err,
         err \in {"CONNECT", "HANDSHAKE"} /\ x.c.state # "CLOSED" => ~x.h.refused
  PROVE  Ended(x, ws_stream_on_error(x, err))
BY CallbackKeeps, SameOuter, Outer!StreamError DEF Ended, State, Told

\* Fatal.
LEMMA FatalEnds ==
  ASSUME ~LateFails, NEW x \in State, Told(x), NEW err,
         x.c.state # "CLOSED" => ~x.h.refused, x.c.state = "OPEN" => x.c.stream # "shut"
  PROVE  Ended(x, ws_fatal(x, err))
BY CallbackKeeps, SameOuter, Outer!Fatal DEF Ended, State, Told

\* ws_fatal of a connection that has ended does nothing.
LEMMA EndedTwice ==
  ASSUME NEW x, NEW y, Ended(x, y), NEW err
  PROVE  Ended(x, ws_fatal(y, err)) /\ ws_fatal(y, err) = y
BY DEF ws_fatal, Ended, Outer!Ended

\* Written.
LEMMA StreamWritten ==
  ASSUME NEW x \in State, Told(x), NEW put
  PROVE  \/ x.c.stream = "open" /\ stream_write(x, put) = [x EXCEPT !.ret = "ok", !.h = put]
         \/ x.c.stream \notin {"open", "shut"} /\ stream_write(x, put) = [x EXCEPT !.ret = "WRITE"]
         \/ x.c.stream = "open" /\ x.outcome = "nomem" /\ stream_write(x, put) = [x EXCEPT !.ret = "NOMEM"]
         \/ /\ x.outcome = "fatal" \/ x.c.stream = "shut"
            /\ stream_write(x, put).ret = "WRITE" /\ Ended(x, stream_write(x, put))
BY CallbackKeeps, SameOuter, Outer!Written DEF Ended, State, Told

\* ControlSent.
LEMMA ControlFrame ==
  ASSUME NEW x, Good(x), NEW kind \in {"ping", "pong"}
  PROVE  Good(send_frame(x, kind)) /\ Keeps(x, send_frame(x, kind))
BY CallbackKeeps, SameOuter, Outer!ControlSent DEF Good, Keeps

\* CloseSent and CloseCodeSent.
LEMMA CloseFrame ==
  ASSUME NEW x, Good(x)
  PROVE  /\ send_frame(x, "close") \in State /\ Told(send_frame(x, "close"))
         /\ Keeps(x, send_frame(x, "close"))
         /\ Ended(x, ws_send_close_code(x))
BY CallbackKeeps, SameOuter, Outer!CloseSent, Outer!CloseCodeSent DEF Good, Keeps, State, Told, Ended

\* Acted.
LEMMA ActKeeps ==
  ASSUME NEW x, Good(x), NEW act \in Calls
  PROVE  Good(Act(x, act)) /\ Keeps(x, Act(x, act))
BY CallbackKeeps, SameOuter, Outer!Acted DEF Good, Keeps, Calls

-----------------------------------------------------------------------------
(* The invariant. *)

\* The compressor is what the answer says.
Agreed(deflate, ext) ==
  /\ deflate.on <=> ext # <<>>
  /\ deflate.on => deflate.cbw <= Limit(ext, CMWB) /\ deflate.sbw >= Limit(ext, SMWB)

\* A connection that exists has a configuration, and once it is open its compressor is what
\* was agreed, unless it could not be created or a message was dropped.
Made(x) ==
  /\ x.c.life = "none" => x.c.state = "CONNECTING"
  /\ x.c.life # "none" => x.c.cfg \in Configs
  /\ x.h.opened /\ x.c.life # "released" =>
       x.h.lost \/ EightBits(x.c.cfg, x.h.answer) \/ Agreed(x.c.deflate, x.h.answer)

\* The invariant, of a step.
Fine(x) == Good(x) /\ Made(x)

\* The states of a connection that exists.
LEMMA FineKept ==
  ASSUME NEW x, NEW y, Made(x), x.c.life # "none", Good(y), Keeps(x, y)
  PROVE  Fine(y) /\ y.c.life # "none"
BY DEF Fine, Made, Keeps, Outer!Keeps

-----------------------------------------------------------------------------
(* Frames. *)

\* The kinds of frames.
Kinds == {"data", "bad text", "ping", "pong", "close", "bad"}

\* What a client sends is a request.
LEMMA AskedItems ==
  \A item \in Asked \cup {GoodRequest} : item.is = "request"
BY ConnAssumption DEF Asked, GoodRequest, ws_build_request

\* A frame has one of them.
LEMMA ItemKinds ==
  ASSUME NEW item \in Item
  PROVE  item.is = "frame" => item.kind \in Kinds
<1>1. CASE item \in Frames
  <2>1. PICK k \in Kinds : item = [is |-> "frame", kind |-> k]
    BY <1>1 DEF Frames, Kinds
  <2> QED BY <2>1
<1>2. CASE item = Part
  BY <1>2 DEF Part
<1>3. CASE item \in Asked \cup {GoodRequest}
  BY <1>3, AskedItems
<1> QED BY <1>1, <1>2, <1>3 DEF Item

\* handle_close: the close is answered and the connection ends.
LEMMA CloseHandled ==
  ASSUME NEW x, Good(x)
  PROVE  Ended(x, handle_close(x))
<1> DEFINE y == send_frame(x, "close")
           z == [y EXCEPT !.ret = "ok"]
<1>1. CASE x.c.state = "CLOSING"
  BY <1>1, EnterClosedEnds DEF handle_close, Good, Outer!Good, State, Told
<1>2. CASE x.c.state # "CLOSING"
  <2>1. y \in State /\ Told(y) /\ Keeps(x, y)
    BY CloseFrame
  <2> HIDE DEF y
  <2>2. z \in State /\ z.c = y.c /\ z.h = y.h /\ z.plan = y.plan /\ z.outcome = y.outcome
    BY <2>1 DEF State, Outer!State
  <2> HIDE DEF z
  <2>3. Told(z) /\ Keeps(x, z)
    BY <2>1, <2>2 DEF Told, Outer!Told, Outer!Apart, Keeps, Outer!Keeps
  <2>4. Ended(z, ws_enter_closed(z))
    BY <2>2, <2>3, EnterClosedEnds
  <2>5. handle_close(x) = ws_enter_closed(z)
    BY <1>2 DEF handle_close, y, z
  <2> QED BY <2>3, <2>4, <2>5, Twice DEF Ended, Outer!Ended, Keeps
<1> QED BY <1>1, <1>2

\* handle_frame, by the kind of the frame.
LEMMA FrameHandled ==
  ASSUME NEW x, Good(x), x.h.opened, x.c.state # "CLOSED", NEW kind \in Kinds
  PROVE  Good(handle_frame(x, kind)) /\ Keeps(x, handle_frame(x, kind))
<1>1. CASE kind = "data"
  <2>1. Outer!Good(Outer!Notify(x, "message")) /\ Outer!Keeps(x, Outer!Notify(x, "message"))
    BY CallbackKeeps, Outer!MessageTold DEF Good
  <2> QED BY <1>1, <2>1, SameOuter DEF handle_frame, Good, Keeps
<1>2. CASE kind = "bad text"
  BY <1>2, CloseFrame DEF handle_frame, Ended, Outer!Ended, Good, Keeps
<1>3. CASE kind = "ping"
  BY <1>3, ControlFrame DEF handle_frame
<1>4. CASE kind = "pong"
  BY <1>4, CalledKeeps DEF handle_frame
<1>5. CASE kind = "close"
  BY <1>5, CloseHandled DEF handle_frame, Ended, Outer!Ended, Good, Keeps
<1>6. CASE kind = "bad"
  BY <1>6, ResultSet DEF handle_frame
<1> QED BY <1>1, <1>2, <1>3, <1>4, <1>5, <1>6 DEF Kinds

\* process_frame: after an error the connection has ended and no further frame is read.
LEMMA FrameProcessed ==
  ASSUME ~LateFails, NEW x, Fine(x), x.c.life # "none", x.c.busy # "no", x.c.state # "CLOSED", x.c.buf # <<>>
  PROVE  Fine(process_frame(x))
<1> DEFINE item == Head(x.c.buf)
           kind == IF item.is = "frame" THEN item.kind ELSE "bad"
           y == handle_frame(x, kind)
           z == IF kind \in {"ping", "bad"} THEN y ELSE [y EXCEPT !.ret = "ok"]
           quiet == [z EXCEPT !.c.busy = "no"]
           next == [z EXCEPT !.c.buf = Tail(@)]
<1>1. x \in State /\ x.c.buf \in Seq(Item) /\ x.h.opened
  BY DEF Fine, Good, Outer!Good, Outer!Told, Outer!Apart, Outer!State, Outer!Conn, State
<1>2. item \in Item /\ Tail(x.c.buf) \in Seq(Item)
  BY <1>1, Pop
<1>3. kind \in Kinds
  BY <1>2, ItemKinds DEF Kinds
<1> HIDE DEF item, kind
<1>4. Good(y) /\ Keeps(x, y)
  BY <1>1, <1>3, FrameHandled DEF Fine
<1> HIDE DEF y
<1>5. Good(z) /\ Keeps(x, z)
  BY <1>4, ResultSet, Twice
<1> HIDE DEF z
<1>6. Fine(z) /\ z.c.life # "none"
  BY <1>5, FineKept DEF Fine
<1>7. /\ z \in State /\ Told(z) /\ z.c.busy # "no" /\ z.h.opened /\ z.c.buf = x.c.buf
      /\ z.c.state # "CLOSED" => ~z.h.refused
      /\ z.c.state = "OPEN" => z.c.stream # "shut"
  BY <1>1, <1>5 DEF Good, Outer!Good, State, Told, Keeps, Outer!Keeps, Outer!Live, Outer!Opening,
                    Outer!State, Outer!Conn
<1>8. /\ quiet \in State /\ quiet.h = z.h /\ quiet.c.life = z.c.life /\ quiet.c.state = z.c.state
      /\ quiet.c.stream = z.c.stream /\ quiet.c.cfg = z.c.cfg /\ quiet.c.deflate = z.c.deflate
      /\ quiet.c.ctx = z.c.ctx /\ quiet.c.timer = z.c.timer /\ quiet.c.destroyed = z.c.destroyed
      /\ quiet.c.busy = "no"
  BY <1>7 DEF State, Outer!State, Outer!Conn
<1>9. /\ next \in State /\ next.h = z.h /\ next.c.life = z.c.life /\ next.c.state = z.c.state
      /\ next.c.stream = z.c.stream /\ next.c.cfg = z.c.cfg /\ next.c.deflate = z.c.deflate
      /\ next.c.ctx = z.c.ctx /\ next.c.timer = z.c.timer /\ next.c.destroyed = z.c.destroyed
      /\ next.c.busy = z.c.busy
  BY <1>2, <1>7 DEF State, Outer!State, Outer!Conn
<1> HIDE DEF quiet, next
<1>10. Fine(quiet)
  BY <1>6, <1>8 DEF Fine, Good, Made, State, Outer!Good, Outer!Told, Outer!Apart, Outer!Live, Outer!Opening, Outer!InStep
<1>11. Fine(next)
  BY <1>6, <1>9 DEF Fine, Good, Made, State, Outer!Good, Outer!Told, Outer!Apart, Outer!Live, Outer!Opening, Outer!InStep
<1>12. Ended(quiet, ws_fatal(quiet, z.ret))
  BY <1>7, <1>8, <1>10, FatalEnds DEF Fine, Good, Outer!Good, State, Told
<1>13. Fine(ws_fatal(quiet, z.ret))
  BY <1>6, <1>8, <1>10, <1>12, FineKept DEF Fine, Ended, Outer!Ended, Good, Keeps
<1>14. process_frame(x) \in {ws_fatal(quiet, z.ret), quiet, next}
  BY DEF process_frame, quiet, next, z, y, kind, item
<1> QED BY <1>10, <1>11, <1>13, <1>14
-----------------------------------------------------------------------------
(* Handshakes. *)

\* A connection in its handshake whose stream is open.
Shaking(x) ==
  /\ x \in State /\ Told(x) /\ x.c.state \in {"CONNECTING", "HANDSHAKE"} /\ x.c.stream = "open"
  /\ ~x.h.opened /\ ~x.h.refused /\ ~x.h.closed /\ x.c.ctx = 0 /\ x.h.peer_ctx = 0 /\ x.h.sync
  /\ x.c.life # "none" /\ x.c.cfg \in Configs

\* The state is OPEN before on_open; the heartbeat starts unless the user has closed in it.
LEMMA EstablishedFine ==
  ASSUME NEW x, Shaking(x), NEW n \in 0 .. Len(x.c.buf),
         x.h.lost \/ EightBits(x.c.cfg, x.h.answer) \/ Agreed(x.c.deflate, x.h.answer)
  PROVE  Fine(Established(x, n))
<1> DEFINE rest == SubSeq(x.c.buf, n + 1, Len(x.c.buf))
           u == [x EXCEPT !.c.buf = rest, !.c.state = "OPEN"]
           y == Notify(u, "open")
           b == y.c.timer \/ y.c.cfg.ping
           z == [y EXCEPT !.c.timer = b, !.c.busy = "handshake"]
<1>1. x \in State /\ x.c.buf \in Seq(Item)
  BY DEF Shaking, State, Outer!State, Outer!Conn
<1>2. rest \in Seq(Item)
  BY <1>1, Cut
<1> HIDE DEF rest
<1>3. /\ u \in State /\ u.h = x.h /\ u.c.life = x.c.life /\ u.c.state = "OPEN"
      /\ u.c.stream = x.c.stream /\ u.c.cfg = x.c.cfg /\ u.c.deflate = x.c.deflate
      /\ u.c.ctx = x.c.ctx /\ u.c.timer = x.c.timer /\ u.c.destroyed = x.c.destroyed
      /\ u.c.busy = x.c.busy
  BY <1>1, <1>2 DEF State, Outer!State, Outer!Conn
<1> HIDE DEF u
<1>4. Told(u) /\ Outer!InStep(u)
  BY <1>3 DEF Shaking, Told, Outer!Told, Outer!Apart, Outer!InStep
<1>5. Good(y) /\ \E t : t.c = u.c /\ t.h.opened /\ t.h.answer = u.h.answer /\ (u.h.lost => t.h.lost) /\ Keeps(t, y)
  <2>1. u \in Outer!State /\ Outer!Told(u) /\ u.c.state = "OPEN" /\ u.c.stream = "open" /\ ~u.h.opened /\ ~u.h.refused /\ ~u.h.closed
    BY <1>3, <1>4 DEF Shaking, State, Told
  <2>2. y = Outer!Notify(u, "open")
    BY SameOuter
  <2> HIDE DEF y
  <2> QED BY <1>4, <2>1, <2>2, CallbackKeeps, Outer!OpenTold DEF Good, Keeps
<1> HIDE DEF y
<1>6. PICK t : t.c = u.c /\ t.h.opened /\ t.h.answer = u.h.answer /\ (u.h.lost => t.h.lost) /\ Keeps(t, y)
  BY <1>5
<1>7. Made(t) /\ t.c.life # "none"
  BY <1>3, <1>6 DEF Made, Shaking
<1>8. Fine(y)
  BY <1>5, <1>6, <1>7, FineKept
<1>9. y.h.opened
  BY <1>6 DEF Keeps, Outer!Keeps
<1>10. CASE y.c.destroyed
  BY <1>8, <1>10 DEF Established, y, u, rest
<1>11. CASE ~y.c.destroyed
  <2>1. Established(x, n) = z
    BY <1>11 DEF Established, z, b, y, u, rest
  <2>2. b \in BOOLEAN
    OBVIOUS
  <2> HIDE DEF b
  <2>3. y \in State
    BY <1>5 DEF Good, Outer!Good, State
  <2>4. /\ z \in State /\ z.h = y.h /\ z.c.life = y.c.life /\ z.c.state = y.c.state
        /\ z.c.stream = y.c.stream /\ z.c.cfg = y.c.cfg /\ z.c.deflate = y.c.deflate
        /\ z.c.ctx = y.c.ctx /\ z.c.destroyed = y.c.destroyed /\ z.c.busy = "handshake"
    BY <2>2, <2>3 DEF State, Outer!State, Outer!Conn
  <2> HIDE DEF z
  <2>5. Fine(z)
    BY <1>8, <1>9, <1>11, <2>4 DEF Fine, Good, Made, State, Outer!Good, Outer!Told, Outer!Apart, Outer!Live,
                                  Outer!Opening, Outer!InStep
  <2> QED BY <2>1, <2>5
<1> QED BY <1>10, <1>11

\* A connection that ends before it was opened.
LEMMA EndedFine ==
  ASSUME NEW x, x.c.life # "none", x.c.cfg \in Configs, ~x.h.opened, NEW y, Ended(x, y)
  PROVE  Fine(y)
BY DEF Fine, Made, Ended, Outer!Ended, Good, Outer!Keeps

\* A request that is refused.
LEMMA RefusedFine ==
  ASSUME ~LateFails, NEW x, Shaking(x)
  PROVE  Fine(ws_server_handshake_fail(x))
<1> DEFINE u == [x EXCEPT !.outcome = "ok"]
           y == stream_write(u, x.h)
           z == [y EXCEPT !.c.stream = IF @ = "open" THEN "shut" ELSE @, !.c.state = "CLOSING", !.outcome = x.outcome]
           w == Notify(z, "refused")
<1>1. ws_server_handshake_fail(x) = w
  BY DEF ws_server_handshake_fail
<1>2. x \in State /\ Told(x)
  BY DEF Shaking
<1>3. u \in State /\ u.c = x.c /\ u.h = x.h /\ u.plan = x.plan /\ u.outcome = "ok"
  BY <1>2 DEF State, Outer!State
<1> HIDE DEF u
<1>4. y = [u EXCEPT !.ret = "ok", !.h = x.h]
  BY <1>3 DEF Shaking, stream_write
<1>5. y \in State /\ y.c = x.c /\ y.h = x.h
  BY <1>3, <1>4 DEF State, Outer!State
<1> HIDE DEF y
<1>6. z = [y EXCEPT !.c.stream = "shut", !.c.state = "CLOSING", !.outcome = x.outcome]
  BY <1>5 DEF Shaking
<1> HIDE DEF z
<1>7. /\ z \in State /\ z.h = x.h /\ z.c.life = x.c.life /\ z.c.state = "CLOSING"
      /\ z.c.stream = "shut" /\ z.c.cfg = x.c.cfg /\ z.c.timer = x.c.timer
      /\ z.c.destroyed = x.c.destroyed /\ z.c.busy = x.c.busy
  BY <1>2, <1>5, <1>6, ZenonT(60) DEF State, Outer!State, Outer!Conn
<1>8. Told(z)
  BY <1>7 DEF Shaking, Told, Outer!Told, Outer!Apart
<1>9. Good(w) /\ \E t : t.c = z.c /\ ~t.h.opened /\ Keeps(t, w)
  <2>1. z \in Outer!State /\ Outer!Told(z) /\ ~z.h.opened
    BY <1>7, <1>8 DEF State, Told, Shaking
  <2>2. w = Outer!Notify(z, "refused")
    BY SameOuter
  <2> HIDE DEF w
  <2> QED BY <1>7, <2>1, <2>2, CallbackKeeps, Outer!RefusalTold DEF Good, Keeps
<1> HIDE DEF w
<1>10. PICK t : t.c = z.c /\ ~t.h.opened /\ Keeps(t, w)
  BY <1>9
<1>11. Made(t) /\ t.c.life # "none"
  BY <1>7, <1>10 DEF Made, Shaking
<1> QED BY <1>1, <1>9, <1>10, <1>11, FineKept
\* The first item that is not a part of a message.
LEMMA FirstWhole ==
  ASSUME NEW buf \in Seq(Item)
  PROVE  LET n == SelectInSeq(buf, LAMBDA item : item.is # "part")
         IN n \in 0 .. Len(buf) /\ (n # 0 => buf[n] \in Item /\ buf[n].is # "part")
<1> DEFINE I == {i \in 1 .. Len(buf) : buf[i].is # "part"}
           n == SelectInSeq(buf, LAMBDA item : item.is # "part")
<1>1. n = IF I # {} THEN Min(I) ELSE 0
  BY DEF SelectInSeq
<1>2. Len(buf) \in Nat /\ I \subseteq Nat /\ \A i \in 1 .. Len(buf) : buf[i] \in Item
  OBVIOUS
<1>3. I # {} => Min(I) \in I
  BY <1>2, MinOfNats
<1> HIDE DEF n
<1>4. n \in 0 .. Len(buf)
  BY <1>1, <1>2, <1>3
<1>5. ASSUME n # 0 PROVE buf[n] \in Item /\ buf[n].is # "part"
  <2>1. n \in I
    BY <1>1, <1>3, <1>5
  <2> QED BY <1>2, <2>1
<1> QED BY <1>4, <1>5 DEF n

\* A whole request is read, and the extension of one that is accepted is known.
LEMMA RequestParsed ==
  ASSUME NEW buf \in Seq(Item)
  PROVE  LET req == ws_parse_request(buf)
         IN /\ req.n # 0 /\ req.status = 0 =>
                 req.n \in 0 .. Len(buf) /\ req.nct \in BOOLEAN /\ req.deflate_offered \in BOOLEAN
            /\ \A i \in 1 .. Len(buf) : buf[i].is # "part" => req.n # 0
<1> DEFINE n == SelectInSeq(buf, LAMBDA item : item.is # "part")
           I == {i \in 1 .. Len(buf) : buf[i].is # "part"}
           req == ws_parse_request(buf)
           offered == ext_token_has(buf[n].ext, PMD)
           nct == offered /\ ext_token_has(buf[n].ext, CNCT)
<1>1. n \in 0 .. Len(buf)
  BY FirstWhole
<1>2. \A i \in 1 .. Len(buf) : buf[i].is # "part" => n # 0
  <2>1. n = IF I # {} THEN Min(I) ELSE 0
    BY DEF SelectInSeq
  <2>2. I # {} => Min(I) \in I
    <3>1. I \subseteq Nat
      OBVIOUS
    <3> QED BY <3>1, MinOfNats
  <2> HIDE DEF n
  <2> QED BY <2>1, <2>2
<1>3. offered \in BOOLEAN
  BY DEF ext_token_has
<1>4. nct \in BOOLEAN
  BY DEF ext_token_has
<1>5. /\ n # 0 => req.n # 0
      /\ req.n # 0 /\ req.status = 0 => req.n = n /\ req.nct = nct /\ req.deflate_offered = offered
  <2> DEFINE status == RequestStatus(buf[n])
  <2>1. status \in {0, 400, 426}
    BY DEF RequestStatus
  <2>2. req = IF n = 0 THEN [n |-> 0, status |-> -1, key |-> 0, deflate_offered |-> FALSE, nct |-> FALSE]
              ELSE IF buf[n].is # "request"
              THEN [n |-> -1, status |-> -1, key |-> 0, deflate_offered |-> FALSE, nct |-> FALSE]
              ELSE IF status # 0
              THEN [n |-> n, status |-> status, key |-> 0, deflate_offered |-> FALSE, nct |-> FALSE]
              ELSE [n |-> n, status |-> 0, key |-> buf[n].key, deflate_offered |-> offered, nct |-> nct]
    BY DEF ws_parse_request
  <2> HIDE DEF status, n, req, offered, nct
  <2>3. CASE n = 0
    <3>1. req.n = 0
      BY <2>2, <2>3
    <3> QED BY <2>3, <3>1
  <2>4. CASE n # 0 /\ buf[n].is # "request"
    <3>1. req.n = -1 /\ req.status = -1
      BY <2>2, <2>4
    <3> QED BY <2>4, <3>1
  <2>5. CASE n # 0 /\ buf[n].is = "request" /\ status # 0
    <3>1. req.n = n /\ req.status = status
      BY <2>2, <2>5
    <3> QED BY <2>5, <3>1
  <2>6. CASE n # 0 /\ buf[n].is = "request" /\ status = 0
    <3>1. req = [n |-> n, status |-> 0, key |-> buf[n].key, deflate_offered |-> offered, nct |-> nct]
      BY <2>2, <2>6
    <3>2. req.n = n /\ req.nct = nct /\ req.deflate_offered = offered
      BY <3>1, Zenon
    <3> QED BY <2>6, <3>2
  <2> QED BY <2>3, <2>4, <2>5, <2>6
<1> HIDE DEF n, offered, nct
<1> QED BY <1>1, <1>2, <1>3, <1>4, <1>5

\* Compressors.
Deflates == [on : BOOLEAN, cbw : Int, sbw : Int, reset : BOOLEAN]

\* An answer without parameters.
LEMMA NoWindows ==
  ASSUME NEW param
  PROVE  First(<<>>, param) = 0 /\ First(<<[name |-> PMD, params |-> NoParams]>>, param) = 0
<1> DEFINE ext == <<[name |-> PMD, params |-> NoParams]>>
           I(s) == {i \in 1 .. Len(s) : param \in DOMAIN s[i].params}
<1>1. I(<<>>) = {}
  OBVIOUS
<1>2. I(ext) = {}
  <2>1. Len(ext) = 1 /\ ext[1] = [name |-> PMD, params |-> NoParams]
    OBVIOUS
  <2>2. DOMAIN NoParams = {}
    BY DEF NoParams
  <2> HIDE DEF ext
  <2> QED BY <2>1, <2>2
<1>3. ASSUME NEW s, I(s) = {} PROVE First(s, param) = 0
  BY <1>3 DEF First, SelectInSeq
<1> QED BY <1>1, <1>2, <1>3

\* The windows a header names are numbers.
LEMMA HeaderNumbers ==
  ASSUME NEW ext \in Headers
  PROVE  First(ext, CMWB) \in Int /\ First(ext, SMWB) \in Int
BY NoWindows, ConnAssumption DEF Headers

\* What a server creates is what its answer says.
LEMMA ServerAgrees ==
  ASSUME NEW both \in BOOLEAN, NEW nct \in BOOLEAN, NEW key
  PROVE  LET d == IF both THEN ws_deflate_create(0, 0, nct) ELSE NoDeflate
             ext == ws_build_response(key, d.on).ext
         IN d \in Deflates /\ ext \in Headers /\ Agreed(d, ext)
<1> DEFINE d == IF both THEN ws_deflate_create(0, 0, nct) ELSE NoDeflate
           ext == ws_build_response(key, d.on).ext
           pmd == <<[name |-> PMD, params |-> NoParams]>>
<1>1. d = IF both THEN [on |-> TRUE, cbw |-> 15, sbw |-> 15, reset |-> nct] ELSE [on |-> FALSE, cbw |-> 0, sbw |-> 0, reset |-> FALSE]
  BY DEF ws_deflate_create, NoDeflate
<1>2. ext = IF d.on THEN pmd ELSE <<>>
  BY DEF ws_build_response, Response
<1>3. pmd # <<>>
  OBVIOUS
<1>4. First(pmd, CMWB) = 0 /\ First(pmd, SMWB) = 0
  BY NoWindows
<1>5. pmd \in Headers /\ <<>> \in Headers
  BY DEF Headers
<1> HIDE DEF d, ext, pmd
<1>6. ASSUME both PROVE d \in Deflates /\ ext \in Headers /\ Agreed(d, ext)
  <2>1. d = [on |-> TRUE, cbw |-> 15, sbw |-> 15, reset |-> nct]
    BY <1>1, <1>6
  <2>2. d \in Deflates /\ d.on /\ d.cbw = 15 /\ d.sbw = 15
    BY <2>1 DEF Deflates
  <2>3. ext = pmd
    BY <1>2, <2>2
  <2>4. Agreed(d, ext)
    BY <1>3, <1>4, <2>2, <2>3 DEF Agreed, Limit
  <2> QED BY <1>5, <2>2, <2>3, <2>4
<1>7. ASSUME ~both PROVE d \in Deflates /\ ext \in Headers /\ Agreed(d, ext)
  <2>1. d = [on |-> FALSE, cbw |-> 0, sbw |-> 0, reset |-> FALSE]
    BY <1>1, <1>7
  <2>2. d \in Deflates /\ ~d.on
    BY <2>1 DEF Deflates
  <2>3. ext = <<>>
    BY <1>2, <2>2
  <2>4. Agreed(d, ext)
    BY <2>2, <2>3 DEF Agreed
  <2> QED BY <1>5, <2>2, <2>3, <2>4
<1> QED BY <1>6, <1>7 DEF d, ext

\* So is what a client creates, if it accepts the answer.
LEMMA ClientAgrees ==
  ASSUME NEW cfg \in Configs, cfg.is_client, NEW ext \in Headers, ws_extensions_ok(ext, cfg.deflate),
         cfg.deflate => Negotiable(cfg, ext)
  PROVE  Negotiated(cfg, ext) \in Deflates /\ (EightBits(cfg, ext) \/ Agreed(Negotiated(cfg, ext), ext))
<1> DEFINE named == First(ext, CMWB)
           theirs == First(ext, SMWB)
           own == IF named # 0 THEN named ELSE IF Valid(cfg.cmwb) THEN cfg.cmwb ELSE 0
           d == Negotiated(cfg, ext)
<1>1. /\ cfg.deflate \in BOOLEAN /\ cfg.cnct \in BOOLEAN /\ cfg.cmwb \in Nat
      /\ named \in Int /\ theirs \in Int
  BY ConnAssumption, HeaderNumbers DEF ConfigType
<1>2. NoDeflate \in Deflates /\ ~NoDeflate.on
  BY DEF NoDeflate, Deflates
<1>3. CASE ~cfg.deflate \/ ext = <<>>
  <2>1. ext = <<>>
    BY <1>3 DEF ws_extensions_ok
  <2>2. d = NoDeflate
    BY <1>3 DEF Negotiated
  <2> QED BY <1>2, <2>1, <2>2 DEF Agreed
<1>4. CASE cfg.deflate /\ ext # <<>>
  <2>1. d = ws_deflate_create(own, theirs, cfg.cnct)
    BY <1>4 DEF Negotiated
  <2>2. WindowOk(named, cfg.cmwb) /\ WindowOk(theirs, cfg.smwb)
    BY <1>4 DEF Negotiable
  <2>3. own \in Int /\ (own = 0 \/ (8 <= own /\ own <= 15)) /\ (named # 0 => own = named)
    BY <1>1, <2>2 DEF WindowOk, Valid
  <2>4. theirs = 0 \/ (8 <= theirs /\ theirs <= 15)
    BY <2>2 DEF WindowOk, Valid
  <2>5. own = 8 => EightBits(cfg, ext)
    BY DEF EightBits
  <2> HIDE DEF own
  <2>6. d = IF (IF own = 0 THEN 15 ELSE own) = 8 THEN NoDeflate
            ELSE [on |-> TRUE, cbw |-> IF own = 0 THEN 15 ELSE own,
                  sbw |-> IF theirs = 0 THEN 15 ELSE theirs, reset |-> cfg.cnct]
    BY <2>1 DEF ws_deflate_create
  <2> HIDE DEF d, named, theirs
  <2>7. d \in Deflates
    BY <1>1, <1>2, <2>3, <2>6 DEF Deflates
  <2>8. ASSUME ~EightBits(cfg, ext) PROVE Agreed(d, ext)
    <3>1. d.on /\ d.cbw = (IF own = 0 THEN 15 ELSE own) /\ d.sbw = IF theirs = 0 THEN 15 ELSE theirs
      BY <2>3, <2>5, <2>6, <2>8
    <3>2. d.cbw <= IF named = 0 THEN 15 ELSE named
      BY <1>1, <2>3, <3>1
    <3>3. d.sbw >= IF theirs = 0 THEN 15 ELSE theirs
      BY <1>1, <3>1
    <3> QED BY <1>4, <3>1, <3>2, <3>3 DEF Agreed, Limit, named, theirs
  <2> QED BY <2>7, <2>8 DEF d
<1> QED BY <1>1, <1>3, <1>4

\* ws_server_establish: the answer is written first; if that fails there is no on_open.
LEMMA ServerEstablished ==
  ASSUME ~LateFails, NEW x, Shaking(x), NEW req, req.n \in 0 .. Len(x.c.buf),
         req.deflate_offered \in BOOLEAN, req.nct \in BOOLEAN
  PROVE  Fine(ws_server_establish(x, req))
<1> DEFINE both == x.c.cfg.deflate /\ req.deflate_offered
           d == IF both THEN ws_deflate_create(0, 0, req.nct) ELSE NoDeflate
           ext == ws_build_response(req.key, d.on).ext
           u == [x EXCEPT !.c.deflate = d]
           put == [x.h EXCEPT !.answer = ext]
           y == stream_write(u, put)
           z == ws_fatal(y, "WRITE")
<1>1. ws_server_establish(x, req) = IF y.ret # "ok" THEN z ELSE Established(y, req.n)
  BY DEF ws_server_establish
<1>2. both \in BOOLEAN
  OBVIOUS
<1>3. d \in Deflates /\ ext \in Headers /\ Agreed(d, ext)
  <2> HIDE DEF both
  <2> QED BY <1>2, ServerAgrees
<1> HIDE DEF both, d, ext
<1>4. x \in State /\ Told(x)
  BY DEF Shaking
<1>5. /\ u \in State /\ u.h = x.h /\ u.c.life = x.c.life /\ u.c.state = x.c.state
      /\ u.c.stream = "open" /\ u.c.cfg = x.c.cfg /\ u.c.deflate = d
      /\ u.c.ctx = x.c.ctx /\ u.c.timer = x.c.timer /\ u.c.destroyed = x.c.destroyed
      /\ u.c.busy = x.c.busy /\ u.c.buf = x.c.buf
  BY <1>3, <1>4 DEF State, Outer!State, Outer!Conn, Shaking, Deflates
<1>6. /\ put \in Outer!Hist /\ put.answer = ext /\ (put.opened <=> x.h.opened)
      /\ (put.refused <=> x.h.refused) /\ (put.closed <=> x.h.closed) /\ put.peer_ctx = x.h.peer_ctx
      /\ (put.ok <=> x.h.ok) /\ (put.sync <=> x.h.sync) /\ (put.gone <=> x.h.gone)
      /\ (put.ended <=> x.h.ended) /\ (put.lost <=> x.h.lost) /\ (put.resets <=> x.h.resets)
  BY <1>3, <1>4 DEF State, Outer!State, Outer!Hist
<1> HIDE DEF u, put
<1>7. Told(u)
  BY <1>4, <1>5 DEF Shaking, Told, Outer!Told, Outer!Apart
<1>8. /\ u.c.life # "none" /\ u.c.cfg \in Configs /\ ~u.h.opened /\ ~u.h.refused
      /\ u.c.state \in {"CONNECTING", "HANDSHAKE"}
  BY <1>5 DEF Shaking
<1>9. CASE y = [u EXCEPT !.ret = "ok", !.h = put]
  <2>1. y \in State /\ y.c = u.c /\ y.h = put /\ y.ret = "ok"
    BY <1>5, <1>6, <1>9 DEF State, Outer!State
  <2> HIDE DEF y
  <2>2. Told(y)
    BY <1>6, <1>7, <1>5, <2>1 DEF Told, Outer!Told, Outer!Apart
  <2>3. Shaking(y)
    BY <1>5, <1>6, <2>1, <2>2 DEF Shaking
  <2>4. Fine(Established(y, req.n))
    BY <1>3, <1>5, <1>6, <2>1, <2>3, EstablishedFine
  <2> QED BY <1>1, <2>1, <2>4
<1>10. CASE y = [u EXCEPT !.ret = "NOMEM"]
  <2>1. y \in State /\ y.c = u.c /\ y.h = u.h /\ y.ret = "NOMEM"
    BY <1>5, <1>10 DEF State, Outer!State
  <2> HIDE DEF y
  <2>2. Told(y)
    BY <1>7, <2>1 DEF Told, Outer!Told, Outer!Apart
  <2>3. Ended(y, z)
    BY <1>8, <2>1, <2>2, FatalEnds
  <2> QED BY <1>1, <1>8, <2>1, <2>3, EndedFine
<1>11. CASE y.ret = "WRITE" /\ Ended(u, y)
  <2> HIDE DEF y
  <2>1. Ended(u, z)
    BY <1>11, EndedTwice
  <2> QED BY <1>1, <1>8, <1>11, <2>1, EndedFine
<1> QED BY <1>5, <1>7, <1>9, <1>10, <1>11, StreamWritten

\* ws_handshake_data_server: it waits for a whole request.
LEMMA ServerShaken ==
  ASSUME ~LateFails, NEW x, Shaking(x)
  PROVE  LET y == ws_handshake_data_server(x)
         IN Fine(y) \/ (y = x /\ \A i \in 1 .. Len(x.c.buf) : x.c.buf[i].is = "part")
<1> DEFINE req == ws_parse_request(x.c.buf)
<1>1. x.c.buf \in Seq(Item)
  BY DEF Shaking, State, Outer!State, Outer!Conn
<1>2. req.n # 0 /\ req.status = 0 =>
        req.n \in 0 .. Len(x.c.buf) /\ req.nct \in BOOLEAN /\ req.deflate_offered \in BOOLEAN
  BY <1>1, RequestParsed
<1>6. req.n = 0 => \A i \in 1 .. Len(x.c.buf) : x.c.buf[i].is = "part"
  BY <1>1, RequestParsed
<1>3. ws_handshake_data_server(x) =
        IF req.n = 0 THEN x ELSE IF req.status # 0 THEN ws_server_handshake_fail(x)
        ELSE ws_server_establish(x, req)
  BY DEF ws_handshake_data_server
<1> HIDE DEF req
<1>4. CASE req.n # 0 /\ req.status = 0
  BY <1>2, <1>3, <1>4, ServerEstablished
<1>5. CASE req.n # 0 /\ req.status # 0
  BY <1>3, <1>5, RefusedFine
<1> QED BY <1>3, <1>4, <1>5, <1>6

\* ws_redirect_reconnect: the connection is as it was before its first attempt.
LEMMA Reconnects ==
  ASSUME ~LateFails, NEW x, Shaking(x), ~x.c.deflate.on
  PROVE  Fine(ws_redirect_reconnect(x))
<1> DEFINE m == x.c.redirects + 1
           u == [x EXCEPT !.c.buf = <<>>, !.c.state = "CONNECTING", !.c.redirects = m]
           y == [u EXCEPT !.c.stream = "closed"]
           z == [y EXCEPT !.c.stream = "opening"]
           w == ws_fatal(y, "CONNECT")
<1>1. x \in State /\ Told(x) /\ m \in Nat /\ <<>> \in Seq(Item) /\ ~x.c.destroyed
  BY DEF Shaking, State, Outer!State, Outer!Conn, Told, Outer!Told, Outer!Apart
<1> HIDE DEF m
<1>2. /\ u \in State /\ u.h = x.h /\ u.c.life = x.c.life /\ u.c.state = "CONNECTING"
      /\ u.c.stream = "open" /\ u.c.cfg = x.c.cfg /\ u.c.deflate = x.c.deflate
      /\ u.c.ctx = x.c.ctx /\ u.c.timer = x.c.timer /\ u.c.destroyed = x.c.destroyed
      /\ u.c.busy = x.c.busy
  BY <1>1 DEF State, Outer!State, Outer!Conn, Shaking
<1>3. ws_redirect_reconnect(x) = IF x.outcome = "ok" THEN z ELSE w
  <2>1. ws_close_socket(u) = y
    BY <1>2 DEF ws_close_socket
  <2> HIDE DEF y
  <2> QED BY <2>1 DEF ws_redirect_reconnect, m
<1> HIDE DEF u
<1>4. /\ y \in State /\ y.h = u.h /\ y.c.life = u.c.life /\ y.c.state = "CONNECTING"
      /\ y.c.stream = "closed" /\ y.c.cfg = u.c.cfg /\ y.c.deflate = u.c.deflate
      /\ y.c.ctx = u.c.ctx /\ y.c.timer = u.c.timer /\ y.c.destroyed = u.c.destroyed
      /\ y.c.busy = u.c.busy
  BY <1>2 DEF State, Outer!State, Outer!Conn
<1> HIDE DEF y
<1>5. /\ z \in State /\ z.h = y.h /\ z.c.life = y.c.life /\ z.c.state = "CONNECTING"
      /\ z.c.stream = "opening" /\ z.c.cfg = y.c.cfg /\ z.c.deflate = y.c.deflate
      /\ z.c.ctx = y.c.ctx /\ z.c.timer = y.c.timer /\ z.c.destroyed = y.c.destroyed
      /\ z.c.busy = y.c.busy
  BY <1>4 DEF State, Outer!State, Outer!Conn
<1> HIDE DEF z
<1>6. Told(y)
  BY <1>1, <1>2, <1>4 DEF Shaking, Told, Outer!Told, Outer!Apart
<1>7. Fine(z)
  <2>1. Outer!Told(z)
    BY <1>4, <1>5, <1>6 DEF Told, Outer!Told, Outer!Apart
  <2>2. Outer!Live(z)
    BY <1>2, <1>4, <1>5 DEF Shaking, Outer!Live, Outer!Opening
  <2>3. Made(z)
    BY <1>2, <1>4, <1>5 DEF Shaking, Made
  <2> QED BY <1>5, <2>1, <2>2, <2>3 DEF Fine, Good, Outer!Good, State
<1>8. Fine(w)
  <2>1. /\ ~y.h.refused /\ y.c.life # "none" /\ y.c.cfg \in Configs /\ ~y.h.opened
    BY <1>2, <1>4 DEF Shaking
  <2>2. Ended(y, w)
    BY <1>4, <1>6, <2>1, FatalEnds
  <2> QED BY <2>1, <2>2, EndedFine
<1> QED BY <1>3, <1>7, <1>8

\* A response has one of the headers.
LEMMA ResponseItems ==
  ASSUME NEW item \in Item, item.is = "response"
  PROVE  item.ext \in Headers
<1>1. item \notin Frames
  <2> SUFFICES ASSUME item \in Frames PROVE FALSE
    OBVIOUS
  <2>1. PICK k \in Kinds : item = [is |-> "frame", kind |-> k]
    BY DEF Frames, Kinds
  <2> QED BY <2>1
<1>2. item # Part
  BY DEF Part
<1>3. item \notin Asked \cup {GoodRequest}
  BY AskedItems
<1> QED BY <1>1, <1>2, <1>3 DEF Item

\* A response that is not malformed is in the buffer.
LEMMA ResponseParsed ==
  ASSUME NEW buf \in Seq(Item)
  PROVE  LET a == ws_parse_response(buf)
         IN \/ a.n = 0
            \/ a.n = -1
            \/ a.n \in 0 .. Len(buf) /\ ~(a.n < 0) /\ a.resp.ext \in Headers
<1> DEFINE n == SelectInSeq(buf, LAMBDA item : item.is # "part")
           a == ws_parse_response(buf)
<1>1. n \in 0 .. Len(buf) /\ (n # 0 => buf[n] \in Item)
  BY FirstWhole
<1>2. a = IF n = 0 THEN [n |-> 0, resp |-> NoResponse]
          ELSE IF buf[n].is # "response" \/ ~buf[n].whole THEN [n |-> -1, resp |-> NoResponse]
          ELSE IF buf[n].status = SWITCHING /\ buf[n].accept = NoAccept THEN [n |-> -1, resp |-> buf[n]]
          ELSE [n |-> n, resp |-> buf[n]]
  BY DEF ws_parse_response
<1> HIDE DEF a, n
<1>3. a.n = 0 \/ a.n = -1 \/ (n # 0 /\ buf[n].is = "response" /\ a.n = n /\ a.resp = buf[n])
  BY <1>2
<1>4. a.n = 0 \/ a.n = -1 \/ (a.n \in 0 .. Len(buf) /\ ~(a.n < 0) /\ a.resp.ext \in Headers)
  BY <1>1, <1>3, ResponseItems
<1> QED BY <1>4 DEF a

\* What a client makes of an answer that it accepts.
Accepted(x, ext) ==
  [x EXCEPT !.c.deflate = IF x.outcome = "nomem" THEN NoDeflate ELSE Negotiated(x.c.cfg, ext),
            !.h.lost = x.outcome = "nomem" /\ ext # <<>>, !.h.answer = ext,
            !.h.resets = x.c.cfg.cnct \/ Named(ext, CNCT)]

\* The client is OPEN with a compressor that is what the answer says, if it could be created.
LEMMA ClientEstablished ==
  ASSUME NEW x, Shaking(x), x.c.cfg.is_client, NEW n \in 0 .. Len(x.c.buf), NEW ext \in Headers,
         ws_extensions_ok(ext, x.c.cfg.deflate), x.c.cfg.deflate => Negotiable(x.c.cfg, ext)
  PROVE  Fine(Established(Accepted(x, ext), n))
<1> DEFINE d == IF x.outcome = "nomem" THEN NoDeflate ELSE Negotiated(x.c.cfg, ext)
           lost == x.outcome = "nomem" /\ ext # <<>>
           resets == x.c.cfg.cnct \/ Named(ext, CNCT)
           g == [x.h EXCEPT !.lost = lost, !.answer = ext, !.resets = resets]
           u == [x EXCEPT !.c.deflate = d]
           y == [u EXCEPT !.h = g]
<1>1. /\ d \in Deflates /\ (lost \/ EightBits(x.c.cfg, ext) \/ Agreed(d, ext))
      /\ lost \in BOOLEAN /\ resets \in BOOLEAN
  <2>1. Negotiated(x.c.cfg, ext) \in Deflates /\ (EightBits(x.c.cfg, ext) \/ Agreed(Negotiated(x.c.cfg, ext), ext))
    BY ClientAgrees DEF Shaking
  <2>2. NoDeflate \in Deflates /\ (ext = <<>> => Agreed(NoDeflate, ext))
    BY DEF NoDeflate, Deflates, Agreed
  <2> QED BY <2>1, <2>2
<1>0. Accepted(x, ext) = [x EXCEPT !.c.deflate = d, !.h.lost = lost, !.h.answer = ext, !.h.resets = resets]
  BY DEF Accepted
<1> HIDE DEF d, lost, resets
<1>2. x \in State /\ Told(x)
  BY DEF Shaking
<1>3. /\ u \in State /\ u.h = x.h /\ u.c.life = x.c.life /\ u.c.state = x.c.state
      /\ u.c.stream = "open" /\ u.c.cfg = x.c.cfg /\ u.c.deflate = d
      /\ u.c.ctx = x.c.ctx /\ u.c.timer = x.c.timer /\ u.c.destroyed = x.c.destroyed
      /\ u.c.busy = x.c.busy /\ u.c.buf = x.c.buf
  BY <1>1, <1>2 DEF State, Outer!State, Outer!Conn, Shaking, Deflates
<1>4. /\ g \in Outer!Hist /\ g.answer = ext /\ g.opened = x.h.opened
      /\ g.refused = x.h.refused /\ g.closed = x.h.closed /\ g.peer_ctx = x.h.peer_ctx
      /\ g.ok = x.h.ok /\ g.sync = x.h.sync /\ g.gone = x.h.gone
      /\ g.ended = x.h.ended /\ g.lost = lost
  BY <1>1, <1>2 DEF State, Outer!State, Outer!Hist
<1>5. Accepted(x, ext) = y
  BY <1>0, <1>2 DEF State, Outer!State, Outer!Hist
<1> HIDE DEF u, g
<1>6. y \in State /\ y.c = u.c /\ y.h = g
  BY <1>3, <1>4 DEF State, Outer!State
<1> HIDE DEF y
<1>7. Told(y)
  BY <1>2, <1>3, <1>4, <1>6, ZenonT(60) DEF Shaking, Told, Outer!Told, Outer!Apart
<1>8. Shaking(y)
  BY <1>3, <1>4, <1>6, <1>7, ZenonT(60) DEF Shaking
<1>9. Fine(Established(y, n))
  BY <1>1, <1>3, <1>4, <1>6, <1>8, EstablishedFine
<1> QED BY <1>5, <1>9

\* ws_handshake_data, for a client and a server.
LEMMA Shaken ==
  ASSUME ~LateFails, NEW x, Fine(x), Shaking(x), ~x.c.deflate.on
  PROVE  Fine(ws_handshake_data(x))
<1> DEFINE a == ws_parse_response(x.c.buf)
           r == a.resp
           cfg == x.c.cfg
           redirect == 300 <= r.status /\ r.status < 400 /\ r.location # "none"
           right == r.status = SWITCHING /\ ws_verify_accept(x.c.key, r.accept)
           shown == Called(x)
           v == Accepted(x, r.ext)
<1>1. ws_handshake_data(x) =
     IF ~cfg.is_client THEN ws_handshake_data_server(x)
     ELSE IF a.n = 0 THEN x
     ELSE IF a.n < 0 THEN ws_fatal(IF cfg.http_cb THEN shown ELSE x, "HANDSHAKE")
     ELSE IF redirect /\ (x.c.redirects >= MaxRedirects \/ ~ws_redirect_parse(r.location))
     THEN ws_fatal(x, "HANDSHAKE")
     ELSE IF redirect THEN ws_redirect_reconnect(x)
     ELSE IF cfg.http_cb /\ ~right THEN ws_enter_closed(shown)
     ELSE IF ~ws_verify_accept(x.c.key, r.accept) THEN ws_fatal(x, "HANDSHAKE")
     ELSE IF ~ws_extensions_ok(r.ext, cfg.deflate) THEN ws_fatal(x, "HANDSHAKE")
     ELSE IF cfg.deflate /\ ~Negotiable(cfg, r.ext) THEN ws_fatal(x, "PROTOCOL")
     ELSE Established(v, a.n)
  BY DEF ws_handshake_data, Accepted
<1>2. x.c.buf \in Seq(Item)
  BY DEF Shaking, State, Outer!State, Outer!Conn
<1>3. a.n = 0 \/ a.n = -1 \/ (a.n \in 0 .. Len(x.c.buf) /\ ~(a.n < 0) /\ r.ext \in Headers)
  BY <1>2, ResponseParsed
<1>4. /\ Good(x) /\ Made(x) /\ x \in State /\ Told(x) /\ x.c.life # "none" /\ ~x.h.refused
      /\ x.c.state \in {"CONNECTING", "HANDSHAKE"}
  BY DEF Fine, Shaking
<1>5. Good(shown) /\ Keeps(x, shown)
  BY <1>4, CalledKeeps
<1> HIDE DEF shown
<1>6. shown \in State /\ Told(shown) /\ ~shown.h.refused /\ shown.c.state # "OPEN"
  BY <1>4, <1>5 DEF Good, Outer!Good, Keeps, Outer!Keeps, State, Told
<1>7. ASSUME NEW err PROVE Fine(ws_fatal(x, err)) /\ Fine(ws_fatal(shown, err))
  <2>1. Ended(x, ws_fatal(x, err))
    BY <1>4, FatalEnds
  <2>2. Ended(shown, ws_fatal(shown, err))
    BY <1>6, FatalEnds
  <2>3. Keeps(x, ws_fatal(shown, err))
    BY <1>5, <2>2, Twice DEF Ended, Outer!Ended, Keeps
  <2> QED BY <1>4, <2>1, <2>2, <2>3, FineKept DEF Ended, Outer!Ended, Good, Keeps
<1>8. Fine(ws_enter_closed(shown))
  <2>1. Ended(shown, ws_enter_closed(shown))
    BY <1>6, EnterClosedEnds
  <2>2. Keeps(x, ws_enter_closed(shown))
    BY <1>5, <2>1, Twice DEF Ended, Outer!Ended, Keeps
  <2> QED BY <1>4, <2>1, <2>2, FineKept DEF Ended, Outer!Ended, Good
<1>9. Fine(ws_redirect_reconnect(x))
  BY Reconnects
<1>10. Fine(ws_handshake_data_server(x))
  BY ServerShaken
<1>11. ASSUME cfg.is_client, a.n # 0, ~(a.n < 0), ws_extensions_ok(r.ext, cfg.deflate), cfg.deflate => Negotiable(cfg, r.ext)
       PROVE  Fine(Established(v, a.n))
  <2>1. a.n \in 0 .. Len(x.c.buf) /\ r.ext \in Headers
    BY <1>3, <1>11
  <2> HIDE DEF a
  <2> QED BY <1>11, <2>1, ClientEstablished
<1> HIDE DEF a, cfg, redirect, right, v
<1> QED BY <1>1, <1>7, <1>8, <1>9, <1>10, <1>11

-----------------------------------------------------------------------------
(* The steps. *)

\* What the peer sends.
LEMMA InputItems ==
  ASSUME c.key \in Nat, NEW items \in Inputs
  PROVE  items \in Seq(Item)
<1>1. ASSUME NEW status \in Nat, NEW accept \in [of : Nat], NEW l \in {"none", "path", "ws", "other"},
             NEW e \in Headers
      PROVE  /\ Response(status, accept, l, e) \in Item
             /\ [Response(status, accept, l, e) EXCEPT !.whole = FALSE] \in Item
  BY DEF Item, Response
<1>2. <<>> \in Headers /\ <<[name |-> PMD, params |-> NoParams]>> \in Headers /\ Extensions \subseteq Headers
  BY DEF Headers
<1>3. /\ SWITCHING \in Nat /\ 302 \in Nat /\ 404 \in Nat /\ ws_compute_accept(c.key) \in [of : Nat]
      /\ NoAccept \in [of : Nat] /\ [of |-> c.key + 10] \in [of : Nat]
  BY DEF SWITCHING, ws_compute_accept, NoAccept
<1>4. \A pmd : ws_build_response(c.key, pmd) \in Item
  BY <1>1, <1>2, <1>3 DEF ws_build_response
<1>5. Answers \subseteq Item
  <2>1. \A e \in Extensions : Response(SWITCHING, ws_compute_accept(c.key), "none", e) \in Item
    BY <1>1, <1>2, <1>3
  <2>2. \A a \in {NoAccept, [of |-> c.key + 10]} : Response(SWITCHING, a, "none", <<>>) \in Item
    BY <1>1, <1>2, <1>3
  <2>3. \A l \in {"path", "ws", "other"} : Response(302, NoAccept, l, <<>>) \in Item
    BY <1>2, <1>3 DEF Response, Item
  <2>4. Response(404, NoAccept, "none", <<>>) \in Item
    BY <1>2, <1>3 DEF Response, Item
  <2>5. [Response(302, NoAccept, "path", <<>>) EXCEPT !.whole = FALSE] \in Item
    BY <1>2, <1>3 DEF Response, Item
  <2> SUFFICES ASSUME NEW answer \in Answers PROVE answer \in Item
    OBVIOUS
  <2>6. \/ \E pmd : answer = ws_build_response(c.key, pmd)
        \/ \E e \in Extensions : answer = Response(SWITCHING, ws_compute_accept(c.key), "none", e)
        \/ \E a \in {NoAccept, [of |-> c.key + 10]} : answer = Response(SWITCHING, a, "none", <<>>)
        \/ \E l \in {"path", "ws", "other"} : answer = Response(302, NoAccept, l, <<>>)
        \/ answer = [Response(302, NoAccept, "path", <<>>) EXCEPT !.whole = FALSE]
        \/ answer = Response(404, NoAccept, "none", <<>>)
    BY Zenon DEF Answers
  <2>7. CASE \E pmd : answer = ws_build_response(c.key, pmd)
    BY <1>4, <2>7
  <2>8. CASE \E e \in Extensions : answer = Response(SWITCHING, ws_compute_accept(c.key), "none", e)
    BY <2>1, <2>8
  <2>9. CASE \E a \in {NoAccept, [of |-> c.key + 10]} : answer = Response(SWITCHING, a, "none", <<>>)
    BY <2>2, <2>9
  <2>10. CASE \E l \in {"path", "ws", "other"} : answer = Response(302, NoAccept, l, <<>>)
    BY <2>3, <2>10
  <2> QED BY <2>4, <2>5, <2>6, <2>7, <2>8, <2>9, <2>10, ZenonT(60)
<1>6. Frames \subseteq Item /\ Asked \subseteq Item /\ Part \in Item /\ GoodRequest \in Item
  BY DEF Item
<1>7. Data \in Item
  BY <1>6 DEF Data, Frames
<1>8. \/ \E i \in Item : items = <<i>>
      \/ \E i \in Item, f \in Item : items = <<i, f>>
  BY <1>4, <1>5, <1>6, <1>7 DEF Inputs
<1>9. CASE \E i \in Item : items = <<i>>
  BY <1>9
<1>10. CASE \E i \in Item, f \in Item : items = <<i, f>>
  BY <1>10
<1> QED BY <1>8, <1>9, <1>10

\* The connection and its history between steps.
ConnInv == Fine(Step(NoPlan, "ok"))

\* The invariant at the begin of a step.
LEMMA StepFine ==
  ASSUME ConnInv, NEW plan \in Plans, NEW outcome \in Outcomes
  PROVE  /\ Fine(Step(plan, outcome))
         /\ Step(plan, outcome).c = c /\ Step(plan, outcome).h = h
<1> DEFINE x == Step(NoPlan, "ok")
           y == Step(plan, outcome)
<1>1. x.c = c /\ x.h = h /\ y.c = c /\ y.h = h
  BY DEF Step
<1>2. x \in State
  BY DEF ConnInv, Fine, Good, Outer!Good, State
<1>3. y \in State
  BY <1>2 DEF Step, State, Outer!State
<1>4. Fine(x)
  BY DEF ConnInv
<1> HIDE DEF x, y
<1> QED BY <1>1, <1>3, <1>4 DEF y, Fine, Good, Made, State, Outer!Good, Outer!Told, Outer!Apart, Outer!Live, Outer!Opening, Outer!InStep

\* The invariant at the end of a step.
LEMMA StepEnds ==
  ASSUME NEW y, Fine(y), c' = y.c, h' = y.h
  PROVE  ConnInv'
<1> DEFINE x == [c |-> c', h |-> h', ret |-> "ok", calls |-> 0, plan |-> NoPlan, outcome |-> "ok"]
<1>1. x.c = y.c /\ x.h = y.h
  OBVIOUS
<1>2. x \in State
  BY DEF Fine, Good, Outer!Good, State, Outer!State, Plans
<1> HIDE DEF x
<1>3. Fine(x)
  BY <1>1, <1>2 DEF Fine, Good, Made, State, Outer!Good, Outer!Told, Outer!Apart, Outer!Live, Outer!Opening, Outer!InStep
<1> QED BY <1>3 DEF x, ConnInv, Step

\* The stream is open: the request is written.
LEMMA OpenStep ==
  ASSUME ~LateFails, ConnInv, ws_stream_on_open
  PROVE  ConnInv'
<1> DEFINE F(x) ==
      LET y == [x EXCEPT !.c.stream = "open", !.c.state = "HANDSHAKE"]
          z == stream_write([y EXCEPT !.c.key = c.redirects + 1], x.h)
      IN IF ~c.cfg.is_client THEN y
         ELSE IF z.ret = "ok" THEN z ELSE ws_fatal(z, "CONNECT")
<1>1. PICK outcome \in Outcomes, plan \in Plans :
        c' = F(Step(plan, outcome)).c /\ h' = F(Step(plan, outcome)).h
  <2>1. Chosen(F)
    BY Zenon DEF ws_stream_on_open
  <2> HIDE DEF F
  <2> QED BY <2>1 DEF Chosen
<1> DEFINE x == Step(plan, outcome)
           y == [x EXCEPT !.c.stream = "open", !.c.state = "HANDSHAKE"]
           m == c.redirects + 1
           u == [y EXCEPT !.c.key = m]
           z == stream_write(u, x.h)
           w == ws_fatal(z, "CONNECT")
<1>2. Fine(x) /\ x.c = c /\ x.h = h
  BY StepFine
<1>3. F(x) = IF ~c.cfg.is_client THEN y ELSE IF z.ret = "ok" THEN z ELSE w
  OBVIOUS
<1>4. c' = F(x).c /\ h' = F(x).h
  BY <1>1
<1>5. m \in Nat
  BY <1>2 DEF Fine, Good, Outer!Good, Outer!State, Outer!Conn
<1> HIDE DEF F, x, m
<1>6. /\ x \in State /\ Told(x) /\ x.c.state = "CONNECTING" /\ Outer!Opening(x) /\ Made(x)
      /\ x.c.life = "live" /\ x.c.cfg \in Configs
  BY <1>2 DEF ws_stream_on_open, Fine, Good, Made, Outer!Good, Outer!Told, Outer!Apart, Outer!Live, Outer!State, Outer!Conn, State, Told
<1>7. /\ y \in State /\ y.h = x.h /\ y.c.life = x.c.life /\ y.c.state = "HANDSHAKE"
      /\ y.c.stream = "open" /\ y.c.cfg = x.c.cfg /\ y.c.deflate = x.c.deflate
      /\ y.c.ctx = x.c.ctx /\ y.c.timer = x.c.timer /\ y.c.destroyed = x.c.destroyed
      /\ y.c.busy = x.c.busy
  BY <1>6 DEF State, Outer!State, Outer!Conn
<1> HIDE DEF y
<1>8. /\ u \in State /\ u.h = y.h /\ u.c.life = y.c.life /\ u.c.state = "HANDSHAKE"
      /\ u.c.stream = "open" /\ u.c.cfg = y.c.cfg /\ u.c.deflate = y.c.deflate
      /\ u.c.ctx = y.c.ctx /\ u.c.timer = y.c.timer /\ u.c.destroyed = y.c.destroyed
      /\ u.c.busy = y.c.busy
  BY <1>5, <1>7 DEF State, Outer!State, Outer!Conn
<1> HIDE DEF u
<1>9. Fine(y) /\ Fine(u)
  BY <1>6, <1>7, <1>8 DEF Fine, Good, Made, State, Told, Outer!Good, Outer!Told, Outer!Apart, Outer!Live, Outer!Opening
<1>10. /\ Told(u) /\ u.c.life # "none" /\ u.c.cfg \in Configs /\ ~u.h.opened /\ ~u.h.refused
  BY <1>6, <1>7, <1>8, <1>9 DEF Fine, Good, Outer!Good, Outer!Opening, Told
<1>11. CASE z = [u EXCEPT !.ret = "ok", !.h = x.h]
  <2>1. z \in State /\ z.c = u.c /\ z.h = u.h /\ z.ret = "ok"
    BY <1>7, <1>8, <1>11 DEF State, Outer!State
  <2> HIDE DEF z
  <2>2. Fine(z)
    BY <1>9, <2>1 DEF Fine, Good, Made, State, Told, Outer!Good, Outer!Told, Outer!Apart, Outer!Live, Outer!Opening, Outer!InStep
  <2> QED BY <1>3, <1>4, <1>9, <2>1, <2>2, StepEnds
<1>12. CASE z = [u EXCEPT !.ret = "NOMEM"]
  <2>1. z \in State /\ z.c = u.c /\ z.h = u.h /\ z.ret = "NOMEM"
    BY <1>8, <1>12 DEF State, Outer!State
  <2> HIDE DEF z
  <2>2. Told(z)
    BY <1>10, <2>1 DEF Told, Outer!Told, Outer!Apart
  <2>3. Ended(z, w)
    BY <1>8, <1>10, <2>1, <2>2, FatalEnds
  <2>4. Fine(w)
    BY <1>10, <2>1, <2>3, EndedFine
  <2> QED BY <1>3, <1>4, <1>9, <2>1, <2>4, StepEnds
<1>13. CASE z.ret = "WRITE" /\ Ended(u, z)
  <2> HIDE DEF z
  <2>1. Ended(u, w)
    BY <1>13, EndedTwice
  <2>2. Fine(w)
    BY <1>10, <2>1, EndedFine
  <2> QED BY <1>3, <1>4, <1>9, <1>13, <2>2, StepEnds
<1> QED BY <1>8, <1>10, <1>11, <1>12, <1>13, StreamWritten

\* The stream is closed by the transport.
LEMMA StreamGone ==
  ASSUME NEW x, Fine(x), x.c.life # "none"
  PROVE  LET u == [x EXCEPT !.c.stream = "closed"]
         IN /\ u \in State /\ Told(u) /\ Made(u) /\ u.c.life = x.c.life /\ u.c.state = x.c.state
            /\ u.h = x.h /\ u.c.cfg = x.c.cfg
            /\ x.c.state = "CLOSED" => Fine(u)
<1> DEFINE u == [x EXCEPT !.c.stream = "closed"]
<1>1. x \in State /\ Told(x)
  BY DEF Fine, Good, Outer!Good, State, Told
<1>2. /\ u \in State /\ u.h = x.h /\ u.c.life = x.c.life /\ u.c.state = x.c.state
      /\ u.c.stream = "closed" /\ u.c.cfg = x.c.cfg /\ u.c.deflate = x.c.deflate
      /\ u.c.ctx = x.c.ctx /\ u.c.timer = x.c.timer /\ u.c.destroyed = x.c.destroyed
      /\ u.c.busy = x.c.busy
  BY <1>1 DEF State, Outer!State, Outer!Conn
<1> HIDE DEF u
<1>3. Told(u) /\ Made(u)
  BY <1>1, <1>2 DEF Fine, Made, Told, Outer!Told, Outer!Apart
<1>4. x.c.state = "CLOSED" => Fine(u)
  BY <1>2, <1>3 DEF Fine, Good, Outer!Good, Outer!Live, State, Told
<1>5. /\ u \in State /\ Told(u) /\ Made(u) /\ u.c.life = x.c.life /\ u.c.state = x.c.state
      /\ u.h = x.h /\ u.c.cfg = x.c.cfg
      /\ x.c.state = "CLOSED" => Fine(u)
  BY <1>2, <1>3, <1>4
<1> QED BY <1>5 DEF u

\* An attempt fails, or a read.
LEMMA ErrorStep ==
  ASSUME ConnInv, open_fails \/ read_error
  PROVE  ConnInv'
<1> DEFINE F(x, err) == ws_stream_on_error([x EXCEPT !.c.stream = "closed"], err)
<1>1. PICK outcome \in Outcomes, plan \in Plans, err \in {"CONNECT", "HANDSHAKE", "READ"} :
        /\ c' = F(Step(plan, outcome), err).c /\ h' = F(Step(plan, outcome), err).h
        /\ c.life # "none"
        /\ err \in {"CONNECT", "HANDSHAKE"} => c.stream = "opening"
  BY DEF open_fails, read_error, Chosen
<1> DEFINE x == Step(plan, outcome)
           u == [x EXCEPT !.c.stream = "closed"]
           w == ws_stream_on_error(u, err)
<1>2. Fine(x) /\ x.c = c /\ x.h = h
  BY StepFine
<1>3. c' = w.c /\ h' = w.h
  BY <1>1
<1> HIDE DEF F, x
<1>4. /\ u \in State /\ Told(u) /\ Made(u) /\ u.c.life = x.c.life /\ u.c.state = x.c.state /\ u.h = x.h
  BY <1>1, <1>2, StreamGone
<1> HIDE DEF u
<1>5. err \in {"CONNECT", "HANDSHAKE"} /\ u.c.state # "CLOSED" => ~u.h.refused
  BY <1>1, <1>2, <1>4 DEF Fine, Good, Outer!Good, Outer!Live, Outer!Opening, Outer!State, Outer!Conn
<1>6. Ended(u, w)
  BY <1>4, <1>5, StreamErrorEnds
<1>7. Fine(w)
  BY <1>1, <1>2, <1>4, <1>6, FineKept DEF Ended, Outer!Ended, Good, Keeps
<1> QED BY <1>3, <1>7, StepEnds

\* EOF in the handshake is an on_error, later an on_close.
LEMMA EofStep ==
  ASSUME ~LateFails, ConnInv, ws_stream_on_close
  PROVE  ConnInv'
<1> DEFINE F(x) ==
      LET y == [x EXCEPT !.c.stream = "closed"]
      IN IF c.destroyed \/ c.state = "CLOSED" THEN y
         ELSE IF c.state = "HANDSHAKE" THEN ws_fatal(y, "HANDSHAKE")
         ELSE ws_enter_closed(y)
<1>1. PICK outcome \in Outcomes, plan \in Plans :
        c' = F(Step(plan, outcome)).c /\ h' = F(Step(plan, outcome)).h
  BY DEF ws_stream_on_close, Chosen
<1> DEFINE x == Step(plan, outcome)
           u == [x EXCEPT !.c.stream = "closed"]
<1>2. Fine(x) /\ x.c = c /\ x.h = h /\ x.c.life # "none"
  BY StepFine DEF ws_stream_on_close
<1>3. F(x) = IF c.destroyed \/ c.state = "CLOSED" THEN u
             ELSE IF c.state = "HANDSHAKE" THEN ws_fatal(u, "HANDSHAKE") ELSE ws_enter_closed(u)
  OBVIOUS
<1>4. c' = F(x).c /\ h' = F(x).h
  BY <1>1
<1> HIDE DEF F, x
<1>5. /\ u \in State /\ Told(u) /\ Made(u) /\ u.c.life = x.c.life /\ u.c.state = x.c.state /\ u.h = x.h
      /\ x.c.state = "CLOSED" => Fine(u)
  BY <1>2, StreamGone
<1> HIDE DEF u
<1>6. c.destroyed => c.state = "CLOSED"
  BY <1>2 DEF Fine, Good, Outer!Good, Outer!Told, Outer!Apart
<1>7. c.state = "HANDSHAKE" => Fine(ws_fatal(u, "HANDSHAKE"))
  <2> SUFFICES ASSUME c.state = "HANDSHAKE" PROVE Fine(ws_fatal(u, "HANDSHAKE"))
    OBVIOUS
  <2>1. ~u.h.refused
    BY <1>2, <1>5 DEF Fine, Good, Outer!Good, Outer!Live, Outer!Opening
  <2>2. Ended(u, ws_fatal(u, "HANDSHAKE"))
    BY <1>2, <1>5, <2>1, FatalEnds
  <2> QED BY <1>2, <1>5, <2>2, FineKept DEF Ended, Outer!Ended, Good, Keeps
<1>8. Fine(ws_enter_closed(u))
  <2>1. Ended(u, ws_enter_closed(u))
    BY <1>5, EnterClosedEnds
  <2> QED BY <1>2, <1>5, <2>1, FineKept DEF Ended, Outer!Ended, Good, Keeps
<1>9. Fine(F(x))
  BY <1>2, <1>3, <1>5, <1>6, <1>7, <1>8
<1> QED BY <1>4, <1>9, StepEnds

\* Data of the peer.
LEMMA DataStep ==
  ASSUME ~LateFails, ~Talkative, ConnInv, ws_stream_on_data
  PROVE  ConnInv'
<1>1. PICK items \in Inputs :
        Chosen(LAMBDA x :
         LET y == [x EXCEPT !.c.buf = @ \o items]
         IN IF c.destroyed \/ c.state = "CLOSED" THEN x
            ELSE IF Len(y.c.buf) > Cap THEN ws_fatal(x, "PROTOCOL")
            ELSE IF c.state = "HANDSHAKE" THEN ws_handshake_data(y)
            ELSE [y EXCEPT !.c.busy = "data"])
  BY Zenon DEF ws_stream_on_data
<1> DEFINE F(x) ==
         LET y == [x EXCEPT !.c.buf = @ \o items]
         IN IF c.destroyed \/ c.state = "CLOSED" THEN x
            ELSE IF Len(y.c.buf) > Cap THEN ws_fatal(x, "PROTOCOL")
            ELSE IF c.state = "HANDSHAKE" THEN ws_handshake_data(y)
            ELSE [y EXCEPT !.c.busy = "data"]
<1>2. PICK outcome \in Outcomes, plan \in Plans :
        c' = F(Step(plan, outcome)).c /\ h' = F(Step(plan, outcome)).h
  <2>1. Chosen(F)
    BY <1>1
  <2> HIDE DEF F
  <2> QED BY <2>1 DEF Chosen
<1> DEFINE x == Step(plan, outcome)
           b == x.c.buf \o items
           y == [x EXCEPT !.c.buf = b]
           z == [y EXCEPT !.c.busy = "data"]
<1>3. Fine(x) /\ x.c = c /\ x.h = h /\ x.c.life # "none" /\ c.stream \in {"open", "shut"} /\ ~h.refused
  BY StepFine DEF ws_stream_on_data
<1>4. F(x) = IF c.destroyed \/ c.state = "CLOSED" THEN x
            ELSE IF Len(y.c.buf) > Cap THEN ws_fatal(x, "PROTOCOL")
            ELSE IF c.state = "HANDSHAKE" THEN ws_handshake_data(y) ELSE z
  OBVIOUS
<1>5. c' = F(x).c /\ h' = F(x).h
  BY <1>2
<1> HIDE DEF F, x
<1>6. x \in State /\ Told(x) /\ x.c.buf \in Seq(Item) /\ x.c.key \in Nat
  BY <1>3 DEF Fine, Good, Outer!Good, State, Outer!State, Outer!Conn, Told
<1>7. b \in Seq(Item)
  BY <1>3, <1>6, InputItems
<1> HIDE DEF b
<1>8. /\ y \in State /\ y.h = x.h /\ y.c.life = x.c.life /\ y.c.state = x.c.state
      /\ y.c.stream = x.c.stream /\ y.c.cfg = x.c.cfg /\ y.c.deflate = x.c.deflate
      /\ y.c.ctx = x.c.ctx /\ y.c.timer = x.c.timer /\ y.c.destroyed = x.c.destroyed
      /\ y.c.busy = x.c.busy
  BY <1>6, <1>7 DEF State, Outer!State, Outer!Conn
<1> HIDE DEF y
<1>9. /\ z \in State /\ z.h = y.h /\ z.c.life = y.c.life /\ z.c.state = y.c.state
      /\ z.c.stream = y.c.stream /\ z.c.cfg = y.c.cfg /\ z.c.deflate = y.c.deflate
      /\ z.c.ctx = y.c.ctx /\ z.c.timer = y.c.timer /\ z.c.destroyed = y.c.destroyed
  BY <1>8 DEF State, Outer!State, Outer!Conn
<1> HIDE DEF z
<1>10. Fine(y)
  BY <1>3, <1>8 DEF Fine, Good, Made, State, Outer!Good, Outer!Told, Outer!Apart, Outer!Live, Outer!Opening, Outer!InStep
<1>11. Fine(ws_fatal(x, "PROTOCOL"))
  <2>1. x.c.state = "OPEN" => x.c.stream # "shut"
    BY <1>3 DEF Fine, Good, Outer!Good, Outer!Live
  <2>2. Ended(x, ws_fatal(x, "PROTOCOL"))
    BY <1>3, <1>6, <2>1, FatalEnds
  <2> QED BY <1>3, <2>2, FineKept DEF Fine, Ended, Outer!Ended, Good, Keeps
<1>12. ASSUME c.state = "HANDSHAKE" PROVE Fine(ws_handshake_data(y))
  <2>1. Shaking(y) /\ ~y.c.deflate.on
    BY <1>3, <1>8, <1>10, <1>12 DEF Shaking, Fine, Good, Made, Outer!Good, Outer!Live, Outer!Opening, State, Told
  <2> QED BY <1>10, <2>1, Shaken
<1>13. ASSUME ~(c.destroyed \/ c.state = "CLOSED"), c.state # "HANDSHAKE" PROVE Fine(z)
  <2>1. x.h.opened
    BY <1>3, <1>6, <1>13 DEF Fine, Good, Outer!Good, Outer!Live, State, Outer!State, Outer!Conn
  <2> QED BY <1>8, <1>9, <1>10, <2>1 DEF Fine, Good, Made, State, Outer!Good, Outer!Told, Outer!Apart, Outer!Live, Outer!Opening, Outer!InStep
<1>14. Fine(F(x))
  BY <1>3, <1>4, <1>11, <1>12, <1>13
<1> QED BY <1>5, <1>14, StepEnds

\* A frame, or the end of the frames.
LEMMA FrameStep ==
  ASSUME ~LateFails, ConnInv, process_frames
  PROVE  ConnInv'
<1>1. CASE c.buf = <<>> \/ c.destroyed \/ c.state = "CLOSED"
  <2> DEFINE x == Step(NoPlan, "ok")
             y == [x EXCEPT !.c.busy = "no"]
  <2>1. Fine(x) /\ x.c = c /\ x.h = h
    BY DEF ConnInv, Step
  <2>2. y.c = [c EXCEPT !.busy = "no"] /\ y.h = h
    BY DEF Step
  <2> HIDE DEF x
  <2>3. c' = y.c /\ h' = y.h
    BY <1>1, <2>2 DEF process_frames
  <2>4. x \in State
    BY <2>1 DEF Fine, Good, Outer!Good, State
  <2>5. /\ y \in State /\ y.h = x.h /\ y.c.life = x.c.life /\ y.c.state = x.c.state
        /\ y.c.stream = x.c.stream /\ y.c.cfg = x.c.cfg /\ y.c.deflate = x.c.deflate
        /\ y.c.ctx = x.c.ctx /\ y.c.timer = x.c.timer /\ y.c.destroyed = x.c.destroyed
        /\ y.c.busy = "no"
    BY <2>4 DEF State, Outer!State, Outer!Conn
  <2> HIDE DEF y
  <2>6. Fine(y)
    BY <2>1, <2>5 DEF Fine, Good, Made, State, Outer!Good, Outer!Told, Outer!Apart, Outer!Live, Outer!Opening, Outer!InStep
  <2> QED BY <2>3, <2>6, StepEnds
<1>2. CASE ~(c.buf = <<>> \/ c.destroyed \/ c.state = "CLOSED")
  <2>1. PICK outcome \in Outcomes, plan \in Plans :
          c' = process_frame(Step(plan, outcome)).c /\ h' = process_frame(Step(plan, outcome)).h
    BY <1>2 DEF process_frames, Chosen
  <2> DEFINE x == Step(plan, outcome)
  <2>2. Fine(x) /\ x.c = c /\ x.h = h
    BY StepFine
  <2> HIDE DEF x
  <2>3. x.c.busy # "no" /\ x.c.buf # <<>> /\ x.c.state # "CLOSED"
    BY <1>2, <2>2 DEF process_frames
  <2>4. x.c.life # "none"
    BY <2>2, <2>3 DEF Fine, Made, Good, Outer!Good, Outer!Told, Outer!Apart, Outer!Live, Outer!Opening
  <2>5. Fine(process_frame(x))
    BY <2>2, <2>3, <2>4, FrameProcessed
  <2> QED BY <2>1, <2>5, StepEnds DEF x
<1> QED BY <1>1, <1>2

\* The heartbeat.
LEMMA TimerStep ==
  ASSUME ConnInv, on_ping_timer
  PROVE  ConnInv'
<1> DEFINE F(x) == IF c.destroyed \/ c.state # "OPEN" THEN x ELSE send_frame(x, "ping")
<1>1. PICK outcome \in Outcomes, plan \in Plans :
        c' = F(Step(plan, outcome)).c /\ h' = F(Step(plan, outcome)).h
  BY DEF on_ping_timer, Chosen
<1> DEFINE x == Step(plan, outcome)
<1>2. Fine(x) /\ x.c = c /\ x.h = h
  BY StepFine
<1> HIDE DEF x
<1>3. ASSUME c.state = "OPEN" PROVE Fine(send_frame(x, "ping"))
  <2>1. Good(send_frame(x, "ping")) /\ Keeps(x, send_frame(x, "ping"))
    BY <1>2, ControlFrame DEF Fine
  <2> QED BY <1>2, <1>3, <2>1, FineKept DEF Fine, Made
<1>4. Fine(F(x))
  BY <1>2, <1>3
<1> QED BY <1>1, <1>4, StepEnds DEF x

\* A call of the user's.
LEMMA CallStep ==
  ASSUME ConnInv, user_call
  PROVE  ConnInv'
<1>1. PICK act \in Calls, outcome \in Outcomes, plan \in Plans :
        c' = Act(Step(plan, outcome), act).c /\ h' = Act(Step(plan, outcome), act).h
  BY DEF user_call, Chosen
<1> DEFINE x == Step(plan, outcome)
<1>2. Fine(x) /\ x.c = c /\ x.h = h /\ x.c.life # "none"
  BY StepFine DEF user_call
<1> HIDE DEF x
<1>3. Good(Act(x, act)) /\ Keeps(x, Act(x, act))
  BY <1>2, ActKeeps DEF Fine
<1>4. Fine(Act(x, act))
  BY <1>2, <1>3, FineKept DEF Fine
<1> QED BY <1>1, <1>4, StepEnds DEF x

\* The release of a destroyed connection.
LEMMA ReleaseStep ==
  ASSUME ConnInv, ws_cleanup_conn
  PROVE  ConnInv'
<1> DEFINE x == Step(NoPlan, "ok")
           d == [c EXCEPT !.life = "released", !.stream = "none", !.buf = <<>>, !.deflate = NoDeflate]
           y == [x EXCEPT !.c = d]
<1>1. Fine(x) /\ x.c = c /\ x.h = h
  BY DEF ConnInv, Step
<1>2. c' = y.c /\ h' = y.h
  BY DEF ws_cleanup_conn, Step
<1> HIDE DEF x
<1>3. x \in State /\ c \in Outer!Conn /\ c.destroyed /\ c.life = "posted"
  BY <1>1 DEF Fine, Good, Outer!Good, State, Outer!State, Outer!Told, Outer!Apart, ws_cleanup_conn
<1>4. NoDeflate \in Deflates /\ ~NoDeflate.reset /\ <<>> \in Seq(Item)
  BY DEF NoDeflate, Deflates
<1>5. /\ d \in Outer!Conn /\ d.life = "released" /\ d.state = c.state /\ d.stream = "none" /\ d.cfg = c.cfg
      /\ d.timer = c.timer /\ d.destroyed = c.destroyed /\ d.busy = c.busy /\ d.deflate = NoDeflate
  BY <1>3, <1>4 DEF Outer!Conn, Deflates
<1> HIDE DEF d
<1>6. y \in State /\ y.c = d /\ y.h = h
  BY <1>1, <1>3, <1>5 DEF State, Outer!State
<1> HIDE DEF y
<1>7. Fine(y)
  BY <1>1, <1>3, <1>4, <1>5, <1>6 DEF Fine, Good, Made, State, Outer!Good, Outer!Told, Outer!Apart, Outer!Live
<1> QED BY <1>2, <1>7, StepEnds

\* A connection that is made.
LEMMA CreatedIs ==
  ASSUME ConnInv, c.life = "none", NEW cfg \in Configs, NEW stream \in {"opening", "open"}
  PROVE  LET d == Created(cfg, stream)
         IN /\ d \in Outer!Conn /\ d.life = "live" /\ d.state = "CONNECTING" /\ d.stream = stream /\ d.cfg = cfg
            /\ d.deflate = c.deflate /\ d.ctx = c.ctx /\ d.timer = c.timer
            /\ d.destroyed = c.destroyed /\ d.busy = c.busy
            /\ Outer!Opening(Step(NoPlan, "ok")) /\ ~c.destroyed /\ c.state = "CONNECTING"
<1> DEFINE x == Step(NoPlan, "ok")
<1>1. Fine(x) /\ x.c = c /\ x.h = h
  BY DEF ConnInv, Step
<1> HIDE DEF x
<1>2. c \in Outer!Conn /\ c.state = "CONNECTING" /\ Outer!Opening(x) /\ ~c.destroyed
  BY <1>1 DEF Fine, Good, Made, Outer!Good, Outer!Told, Outer!Apart, Outer!Live, Outer!State
<1>3. cfg \in Configs \cup {<<>>}
  OBVIOUS
<1> QED BY <1>2, <1>3 DEF Created, Outer!Conn, x

\* sevent_ws_connect and sevent_ws_accept.
LEMMA CreateStep ==
  ASSUME ConnInv, sevent_ws_connect \/ sevent_ws_accept
  PROVE  ConnInv'
<1>1. PICK cfg \in Configs : c.life = "none" /\ c' = Created(cfg, "opening") /\ h' = h
  BY DEF sevent_ws_connect, sevent_ws_accept
<1> DEFINE x == Step(NoPlan, "ok")
           d == Created(cfg, "opening")
           y == [x EXCEPT !.c = d]
<1>2. /\ d \in Outer!Conn /\ d.life = "live" /\ d.state = "CONNECTING" /\ d.stream = "opening" /\ d.cfg = cfg
      /\ d.deflate = c.deflate /\ d.ctx = c.ctx /\ d.timer = c.timer
      /\ d.destroyed = c.destroyed /\ d.busy = c.busy
      /\ Outer!Opening(x) /\ ~c.destroyed /\ c.state = "CONNECTING"
  BY <1>1, CreatedIs
<1>3. Fine(x) /\ x.c = c /\ x.h = h
  BY DEF ConnInv, Step
<1> HIDE DEF d, x
<1>4. x \in State
  BY <1>3 DEF Fine, Good, Outer!Good, State
<1>5. y \in State /\ y.c = d /\ y.h = x.h
  BY <1>2, <1>4 DEF State, Outer!State
<1> HIDE DEF y
<1>6. Fine(y)
  BY <1>2, <1>3, <1>5 DEF Fine, Good, Made, State, Outer!Good, Outer!Told, Outer!Apart, Outer!Live, Outer!Opening
<1> QED BY <1>1, <1>3, <1>5, <1>6, StepEnds DEF d

\* sevent_ws_upgrade: the handshake is done in the call.
LEMMA UpgradeStep ==
  ASSUME ~LateFails, ConnInv, sevent_ws_upgrade
  PROVE  ConnInv'
<1>1. PICK cfg \in Configs, items \in {<<i>> : i \in Asked} \cup {<<GoodRequest, f>> : f \in Frames},
           outcome \in Outcomes, plan \in Plans :
        LET x == Step(plan, outcome)
            u == [x EXCEPT !.c = [Created(cfg, "open") EXCEPT !.buf = items]]
        IN c.life = "none" /\ c' = ws_handshake_data_server(u).c /\ h' = ws_handshake_data_server(u).h
  BY DEF sevent_ws_upgrade, Chosen
<1> DEFINE x == Step(plan, outcome)
           e == Created(cfg, "open")
           d == [e EXCEPT !.buf = items]
           u == [x EXCEPT !.c = d]
           w == ws_handshake_data_server(u)
<1>2. c.life = "none" /\ c' = w.c /\ h' = w.h
  BY <1>1
<1> HIDE DEF w
<1>3. items \in Seq(Item) /\ Len(items) \in Nat \ {0} /\ items[1].is = "request"
  <2>1. Frames \subseteq Item /\ Asked \subseteq Item /\ GoodRequest \in Item
    BY DEF Item
  <2>2. CASE items \in {<<i>> : i \in Asked}
    <3>1. PICK i \in Asked : items = <<i>>
      BY <2>2
    <3> QED BY <2>1, <3>1, AskedItems
  <2>3. CASE items \in {<<GoodRequest, f>> : f \in Frames}
    <3>1. PICK f \in Frames : items = <<GoodRequest, f>>
      BY <2>3
    <3>2. GoodRequest.is = "request"
      BY AskedItems
    <3> QED BY <2>1, <3>1, <3>2
  <2> QED BY <2>2, <2>3
<1>4. /\ e \in Outer!Conn /\ e.life = "live" /\ e.state = "CONNECTING" /\ e.stream = "open" /\ e.cfg = cfg
      /\ e.deflate = c.deflate /\ e.ctx = c.ctx /\ e.timer = c.timer
      /\ e.destroyed = c.destroyed /\ e.busy = c.busy
      /\ Outer!Opening(Step(NoPlan, "ok")) /\ ~c.destroyed /\ c.state = "CONNECTING"
  BY <1>2, CreatedIs
<1>5. Outer!Opening(x)
  BY <1>4 DEF Outer!Opening, Step
<1>6. Fine(x) /\ x.c = c /\ x.h = h
  BY StepFine
<1> HIDE DEF e, x
<1>7. /\ d \in Outer!Conn /\ d.life = "live" /\ d.state = "CONNECTING" /\ d.stream = "open" /\ d.cfg = cfg
      /\ d.deflate = c.deflate /\ d.ctx = c.ctx /\ d.timer = c.timer
      /\ d.destroyed = c.destroyed /\ d.busy = c.busy /\ d.buf = items
  BY <1>3, <1>4 DEF Outer!Conn
<1> HIDE DEF d
<1>8. x \in State
  BY <1>6 DEF Fine, Good, Outer!Good, State
<1>9. u \in State /\ u.c = d /\ u.h = x.h
  BY <1>7, <1>8 DEF State, Outer!State
<1> HIDE DEF u
<1>10. Shaking(u)
  BY <1>4, <1>5, <1>6, <1>7, <1>9 DEF Shaking, Fine, Good, State, Told, Outer!Good, Outer!Told, Outer!Apart, Outer!Opening
<1>11. Fine(w) \/ (w = u /\ \A i \in 1 .. Len(u.c.buf) : u.c.buf[i].is = "part")
  BY <1>10, ServerShaken DEF w
<1>12. Fine(w)
  BY <1>3, <1>7, <1>9, <1>11
<1> QED BY <1>2, <1>12, StepEnds

-----------------------------------------------------------------------------
(* The theorems. *)

\* The invariant of a WebSocket connection: between two steps of the loop or calls of the
\* user's the connection is Good and compresses as it has answered.  Where the last write may
\* still fail (LateFails), or a peer sends on after its request was refused (Talkative), an
\* end is told twice: ws_conn.c does not ask again what it has told.
THEOREM ConnInvariant ==
  ASSUME ~LateFails, ~Talkative
  PROVE  ConnSpec => []ConnInv
<1>1. ConnInit => ConnInv
  <2> SUFFICES ASSUME ConnInit PROVE ConnInv
    OBVIOUS
  <2> DEFINE x == Step(NoPlan, "ok")
  <2>1. x.c = c /\ x.h = h
    BY DEF Step
  <2>2. NoDeflate \in Deflates /\ <<>> \in Seq(Item) /\ <<>> \in Headers /\ NoDeflate.on = FALSE
    BY DEF NoDeflate, Deflates, Headers
  <2>3. c \in Outer!Conn /\ h \in Outer!Hist
    BY <2>2 DEF ConnInit, Outer!Conn, Outer!Hist, Deflates
  <2>4. x \in State
    BY <2>3 DEF Step, State, Outer!State, Plans
  <2> HIDE DEF x
  <2>5. Outer!Told(x) /\ Outer!Live(x) /\ Made(x)
    BY <2>1, <2>2 DEF ConnInit, Outer!Told, Outer!Apart, Outer!Live, Outer!Opening, Made
  <2> QED BY <2>4, <2>5 DEF x, ConnInv, Fine, Good, Outer!Good, State
<1>2. ConnInv /\ [ConnNext]_conn_vars => ConnInv'
  <2> SUFFICES ASSUME ConnInv, [ConnNext]_conn_vars PROVE ConnInv'
    OBVIOUS
  <2>1. CASE UNCHANGED conn_vars
    <3>1. Fine(Step(NoPlan, "ok")) /\ Step(NoPlan, "ok").c = c /\ Step(NoPlan, "ok").h = h
      BY DEF ConnInv, Step
    <3> QED BY <2>1, <3>1, StepEnds DEF conn_vars
  <2>2. CASE ConnNext
    BY <2>2, CreateStep, UpgradeStep, CallStep, OpenStep, ErrorStep, DataStep, FrameStep, EofStep,
       TimerStep, ReleaseStep DEF ConnNext
  <2> QED BY <2>1, <2>2
<1> QED BY <1>1, <1>2, PTL DEF ConnSpec

\* What the invariant says of the properties.
LEMMA InvariantSays ==
  ASSUME ConnInv
  PROVE  ConnTypeOK /\ NotificationOrder /\ InSync
<1> DEFINE x == Step(NoPlan, "ok")
<1>1. Fine(x) /\ x.c = c /\ x.h = h
  BY DEF ConnInv, Step
<1> HIDE DEF x
<1>2. ConnTypeOK
  BY <1>1 DEF ConnTypeOK, Fine, Good, Outer!Good, Outer!State, Outer!Conn, Outer!Hist
<1>3. NotificationOrder
  BY <1>1 DEF NotificationOrder, Fine, Good, Outer!Good, Outer!Told, Outer!Apart
<1>4. InSync
  <2>1. h.sync \/ (~c.deflate.reset /\ (h.lost \/ h.resets))
    BY <1>1 DEF Fine, Good, Outer!Good, Outer!Told, Outer!Apart
  <2>2. h.opened /\ c.life # "released" => h.lost \/ EightBits(c.cfg, h.answer) \/ Agreed(c.deflate, h.answer)
    BY <1>1 DEF Fine, Made
  <2>3. c.deflate.on \in BOOLEAN
    BY <1>2 DEF ConnTypeOK
  <2> QED BY <2>1, <2>2, <2>3 DEF InSync, Agreed
<1> QED BY <1>2, <1>3, <1>4

\* The fields of struct sevent_ws_conn keep their types, the receive buffer has whole items.
THEOREM ConnTypeCorrect ==
  ASSUME ~LateFails, ~Talkative
  PROVE  ConnSpec => []ConnTypeOK
BY ConnInvariant, InvariantSays, PTL

\* on_open once and before messages, the end once and last, nothing after the user's close,
\* no timer left on a destroyed connection, no data behind a close frame: for every
\* configuration, every peer, every nesting of a call in a callback and every failing write.
THEOREM NotificationOrderHolds ==
  ASSUME ~LateFails, ~Talkative
  PROVE  ConnSpec => []NotificationOrder
BY ConnInvariant, InvariantSays, PTL

\* The two ends agree on compression for every configuration, every answer of a server (an
\* answered client_no_context_takeover and windows of 8 bits included), every failing write
\* and every order of messages, but for what InSync excepts: the compressor that keeps its
\* context after a message was dropped (send_message has advanced it by then) or while the
\* server resets its own, and the one that could not be created.
THEOREM InSyncHolds ==
  ASSUME ~LateFails, ~Talkative
  PROVE  ConnSpec => []InSync
BY ConnInvariant, InvariantSays, PTL
=============================================================================
