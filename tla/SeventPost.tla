------------------------------ MODULE SeventPost ------------------------------
(***************************************************************************)
(* The event loop of src/src/sevent.c seen from its task queue: sevent_run *)
(* and sevent_run_once on the loop thread, sevent_post, sevent_dispatch,   *)
(* sevent_stop and sevent_wakeup called by any thread, the wakeup fd that  *)
(* ends a blocked select, and the two-queue hand-over of run_posts.        *)
(*                                                                         *)
(* The handles (IO and timers) are reduced to what this part reads of      *)
(* them: whether there is any, which decides if a round calls select at    *)
(* all.  SeventIo and SeventTimer model the handles themselves.            *)
(*                                                                         *)
(* Steps are the code between two points where another thread can act: a   *)
(* section under ctx->lock or ctx->post_lock is one step, and the write to *)
(* the wakeup fd that follows the unlock is another.                       *)
(***************************************************************************)
EXTENDS Naturals, Sequences, SequencesExt

CONSTANTS Loop,    \* the thread that calls sevent_run / sevent_run_once
          Worker,  \* the other threads
          Task     \* one element per call of sevent_post or sevent_dispatch

ASSUME LoopAssumption == Loop \notin Worker

Thread == Worker \cup {Loop}

VARIABLES
  running,      \* ctx->running
  wake,         \* the read end of ctx->wake_fds is readable
  loop_set,     \* ctx->loop_thread has been set (to Loop)
  registered,   \* ctx->io_list or ctx->timer_list is not empty
  post_pending, \* ctx->post_pending
  active,       \* run_posts' local list; its head's callback is executing
  pc,           \* where the loop thread is
  inRun,        \* the loop thread is inside sevent_run (else run_once alone)
  call,         \* per thread: the rest of the API call it is in
  posted,       \* history: the tasks accepted by sevent_post, in order
  done,         \* history: the queued tasks that finished, in order
  inlined,      \* history: the tasks sevent_dispatch executed at once
  stopping      \* history: sevent_stop was called during this sevent_run

queues == <<post_pending, active, posted, done, inlined>>
control == <<running, inRun, stopping, loop_set>>
vars == <<queues, control, wake, registered, pc, call>>

PC == {"idle", "enter", "test", "build", "select", "drain", "io", "take",
       "posts", "timers", "destroyed"}

\* Types, and the one fact about places: the local list of run_posts exists
\* only inside run_posts.
TypeOK ==
  /\ running \in BOOLEAN /\ wake \in BOOLEAN /\ loop_set \in BOOLEAN
  /\ registered \in BOOLEAN
  /\ inRun \in BOOLEAN /\ stopping \in BOOLEAN
  /\ post_pending \in Seq(Task) /\ active \in Seq(Task)
  /\ posted \in Seq(Task) /\ done \in Seq(Task)
  /\ inlined \in SUBSET Task
  /\ pc \in PC
  /\ call \in [Thread -> {"none", "wakeup"}]
  /\ active # <<>> => pc = "posts"

Init ==
  /\ running = FALSE /\ wake = FALSE /\ loop_set = FALSE
  /\ registered = FALSE
  /\ inRun = FALSE /\ stopping = FALSE
  /\ post_pending = <<>> /\ active = <<>>
  /\ posted = <<>> /\ done = <<>> /\ inlined = {}
  /\ pc = "idle"
  /\ call = [x \in Thread |-> "none"]

-------------------------------------------------------------------------------
(* The API.  A thread may start a call when it is not inside one; the loop
   thread runs user code before and after sevent_run and in a callback. *)

InUserCode(x) ==
  IF x = Loop
  THEN pc \in {"idle", "io", "timers"} \/ (pc = "posts" /\ active # <<>>)
  ELSE pc # "destroyed"

CanCall(x) == call[x] = "none" /\ InUserCode(x)

\* The call has left its critical section and goes on to sevent_wakeup.
ThenWakeup(x) == call' = [call EXCEPT ![x] = "wakeup"]

\* A task is handed over once: Task names the posts, not the handlers.
Fresh(t) == t \notin inlined /\ \A i \in 1..Len(posted) : posted[i] # t

\* Mutant: the writer skips the fd, as if EAGAIN left it unreadable.
sevent_wakeup_dropped(x) ==
  /\ call[x] = "wakeup" \/ CanCall(x)
  /\ call' = [call EXCEPT ![x] = "none"]
  /\ UNCHANGED <<queues, control, wake, registered, pc>>

sevent_wakeup(x) ==
  /\ call[x] = "wakeup" \/ CanCall(x)
  /\ wake' = TRUE
  /\ call' = [call EXCEPT ![x] = "none"]
  /\ UNCHANGED <<queues, control, registered, pc>>

\* Mutant: a post does not wake the loop.
sevent_post_no_wakeup(x, t) ==
  /\ CanCall(x) /\ Fresh(t)
  /\ post_pending' = Append(post_pending, t)
  /\ posted' = Append(posted, t)
  /\ UNCHANGED <<active, done, inlined, control, wake, registered, pc, call>>

sevent_post(x, t) ==
  /\ CanCall(x) /\ Fresh(t)
  /\ post_pending' = Append(post_pending, t)
  /\ posted' = Append(posted, t)
  /\ ThenWakeup(x)
  /\ UNCHANGED <<active, done, inlined, control, wake, registered, pc>>

\* On the loop thread the handler runs inside the call; what it does itself
\* is what the calling callback may do.  On any other thread this is a post.
sevent_dispatch(x, t) ==
  IF x = Loop /\ loop_set
  THEN /\ CanCall(x) /\ Fresh(t)
       /\ inlined' = inlined \cup {t}
       /\ UNCHANGED <<post_pending, active, posted, done, control, wake,
                      registered, pc, call>>
  ELSE sevent_post(x, t)

sevent_stop(x) ==
  /\ CanCall(x)
  /\ running' = FALSE
  /\ stopping' = (stopping \/ inRun)
  /\ ThenWakeup(x)
  /\ UNCHANGED <<queues, inRun, loop_set, wake, registered, pc>>

\* Any of the four register / unregister calls: the lists change under
\* ctx->lock, and the caller then wakes the loop.
change_handles(x) ==
  /\ CanCall(x)
  /\ registered' \in BOOLEAN
  /\ ThenWakeup(x)
  /\ UNCHANGED <<queues, control, wake, pc>>

\* sevent_destroy: serial, no thread is inside a call; pending tasks are freed
\* and never run.
sevent_destroy ==
  /\ pc = "idle" /\ \A x \in Thread : call[x] = "none"
  /\ pc' = "destroyed"
  /\ running' = FALSE /\ registered' = FALSE /\ wake' = FALSE
  /\ post_pending' = <<>>
  /\ UNCHANGED <<active, posted, done, inlined, inRun, stopping, loop_set,
                 call>>

-------------------------------------------------------------------------------
(* The loop thread. *)

LoopAt(p) == pc = p /\ call[Loop] = "none"

Goto(p) == pc' = p

\* The caller enters sevent_run ...
sevent_run ==
  /\ LoopAt("idle")
  /\ inRun' = TRUE /\ stopping' = FALSE
  /\ Goto("enter")
  /\ UNCHANGED <<queues, running, loop_set, wake, registered, call>>

\* ... which sets the flag, whatever it was.
set_running ==
  /\ LoopAt("enter")
  /\ running' = TRUE
  /\ Goto("test")
  /\ UNCHANGED <<queues, inRun, stopping, loop_set, wake, registered, call>>

\* while(ctx->running)
test_running ==
  /\ LoopAt("test")
  /\ IF running
     THEN Goto("build") /\ UNCHANGED <<inRun, stopping>>
     ELSE Goto("idle") /\ inRun' = FALSE /\ stopping' = FALSE
  /\ UNCHANGED <<queues, running, loop_set, wake, registered, call>>

\* A caller that drives the loop itself, one round at a time.
sevent_run_once ==
  /\ LoopAt("idle")
  /\ Goto("build")
  /\ UNCHANGED <<queues, control, wake, registered, call>>

\* loop_thread, run_free_death and run_build_fdset; select is skipped when
\* there is neither an IO handle nor a timer.
run_build_fdset ==
  /\ LoopAt("build")
  /\ loop_set' = TRUE
  /\ Goto(IF registered THEN "select" ELSE "take")
  /\ UNCHANGED <<queues, running, inRun, stopping, wake, registered, call>>

\* End of a round: back to sevent_run's test or out of sevent_run_once.
RoundEnd == Goto(IF inRun THEN "test" ELSE "idle")

\* select reports the wakeup fd (and possibly others).
select_wake ==
  /\ LoopAt("select") /\ wake
  /\ Goto("drain")
  /\ UNCHANGED <<queues, control, wake, registered, call>>

\* select reports other fds only, or nobody (timeout, EINTR, EBADF): then the
\* IO phase is skipped.  Its timeout is finite but as long as the next timer.
select_other ==
  /\ LoopAt("select") /\ ~wake
  /\ Goto("io") \/ Goto("take")
  /\ UNCHANGED <<queues, control, wake, registered, call>>

\* A handle's fd was closed: EBADF, whatever else is ready.
select_ebadf ==
  /\ LoopAt("select")
  /\ Goto("take")
  /\ UNCHANGED <<queues, control, wake, registered, call>>

\* Any other errno: run_once returns at once, without posts and timers.
select_fatal ==
  /\ LoopAt("select")
  /\ RoundEnd
  /\ UNCHANGED <<queues, control, wake, registered, call>>

sevent_wakeup_drain ==
  /\ LoopAt("drain")
  /\ wake' = FALSE
  /\ Goto("io")
  /\ UNCHANGED <<queues, control, registered, call>>

\* The last IO callback has returned.
run_io_callbacks ==
  /\ LoopAt("io")
  /\ Goto("take")
  /\ UNCHANGED <<queues, control, wake, registered, call>>

\* Mutant: the queue is taken newest first.
run_posts_take_reversed ==
  /\ LoopAt("take")
  /\ active' = Reverse(post_pending) /\ post_pending' = <<>>
  /\ Goto("posts")
  /\ UNCHANGED <<posted, done, inlined, control, wake, registered, call>>

\* run_posts, under post_lock: the whole pending queue becomes the local list.
run_posts_take ==
  /\ LoopAt("take")
  /\ active' = post_pending /\ post_pending' = <<>>
  /\ Goto("posts")
  /\ UNCHANGED <<posted, done, inlined, control, wake, registered, call>>

\* The head's callback returns and its node is freed.
run_posts_return ==
  /\ LoopAt("posts") /\ active # <<>>
  /\ done' = Append(done, Head(active))
  /\ active' = Tail(active)
  /\ UNCHANGED <<post_pending, posted, inlined, control, wake, registered,
                 pc, call>>

\* Mutant: the wakeup fd is drained after the queue was taken, not before.
run_posts_end_drains ==
  /\ LoopAt("posts") /\ active = <<>>
  /\ wake' = FALSE
  /\ Goto("timers")
  /\ UNCHANGED <<queues, control, registered, call>>

run_posts_end ==
  /\ LoopAt("posts") /\ active = <<>>
  /\ Goto("timers")
  /\ UNCHANGED <<queues, control, wake, registered, call>>

\* The last timer callback has returned and the round is over.
run_timers ==
  /\ LoopAt("timers")
  /\ RoundEnd
  /\ UNCHANGED <<queues, control, wake, registered, call>>

-------------------------------------------------------------------------------
Api(x) ==
  \/ sevent_wakeup(x)
  \/ \E t \in Task : sevent_post(x, t) \/ sevent_dispatch(x, t)
  \/ sevent_stop(x)
  \/ change_handles(x)

\* What the loop thread does by itself inside sevent_run / sevent_run_once.
LoopStep ==
  \/ set_running \/ test_running \/ run_build_fdset
  \/ sevent_wakeup_drain \/ run_io_callbacks
  \/ run_posts_take \/ run_posts_return \/ run_posts_end \/ run_timers

Select == select_wake \/ select_other \/ select_ebadf \/ select_fatal

Next ==
  \/ \E x \in Thread : Api(x)
  \/ sevent_run \/ sevent_run_once \/ sevent_destroy
  \/ LoopStep
  \/ Select

\* Fairness.  The loop thread proceeds and every callback returns (strong,
\* because the API calls of a callback disable the loop's own step for a
\* while), a call that has begun ends, and a select whose wakeup fd is readable
\* does not fail fatally for ever.  Nothing is assumed of the timeout of select.
Fairness ==
  /\ SF_vars(LoopStep)
  /\ SF_vars(select_wake)
  /\ \A x \in Thread : WF_vars(call[x] = "wakeup" /\ sevent_wakeup(x))

Spec == Init /\ [][Next]_vars

FairSpec == Spec /\ Fairness

\* With the timeout of select as well, which is always finite.
TimelySpec == FairSpec /\ WF_vars(select_other)

-------------------------------------------------------------------------------
(* Properties. *)

Wakening == wake \/ \E x \in Thread : call[x] = "wakeup"

\* A thread that posts enqueues under post_lock and only then writes the
\* wakeup fd, and the loop empties the fd before it takes the queue: so a
\* loop blocked in select with a task pending is being, or about to be, woken.
NoLostPost == pc = "select" /\ post_pending # <<>> => Wakening

\* The same for sevent_stop: a loop inside sevent_run that is blocked in
\* select with the flag already cleared is woken.
NoLostStop == pc = "select" /\ inRun /\ ~running => Wakening

\* Until the context is destroyed, every accepted task is finished, in the
\* local list or pending, in the order of acceptance, and in one place only.
Fifo == pc # "destroyed" => posted = done \o active \o post_pending

\* The task queue is what TaskQueue specifies.
Queue == INSTANCE TaskQueue WITH queue <- active \o post_pending, ran <- done

TaskQueueSpec == Queue!Spec

\* A task that is pending while the loop runs is executed without help from
\* the timeout of select, unless the loop is stopped.
PostsRun ==
  \A t \in Task :
    (Contains(post_pending, t) /\ inRun) ~> (Contains(done, t) \/ ~inRun)

\* Once sevent_run has set the flag, a stop ends sevent_run.
StopExits == (inRun /\ pc # "enter" /\ ~running) ~> ~inRun

\* sevent.h:137 promises this of every sevent_stop that is called while the
\* loop thread is in sevent_run.  It does not hold under TimelySpec: sevent_run sets the
\* flag on entry, and a stop before that is lost.
EveryStopExits == stopping ~> ~stopping
===============================================================================
