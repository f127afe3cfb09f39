------------------------------ MODULE TaskQueue -------------------------------
(***************************************************************************)
(* What sevent_post promises its callers, without loop, locks or wakeups:  *)
(* accepted tasks wait in one queue, the loop thread runs them one at a    *)
(* time in the order they were accepted, each exactly once, until the      *)
(* context is destroyed, which discards the ones that have not run.        *)
(***************************************************************************)
EXTENDS Sequences

CONSTANT Task

VARIABLES queue,  \* accepted and not yet finished, oldest first
          ran     \* finished, in the order they finished

vars == <<queue, ran>>

Init == queue = <<>> /\ ran = <<>>

\* A thread hands a task to the loop.
Accept(t) == queue' = Append(queue, t) /\ UNCHANGED ran

\* The oldest task finishes.
Finish == /\ queue # <<>>
          /\ queue' = Tail(queue)
          /\ ran' = Append(ran, Head(queue))

\* The context is destroyed.
Discard == queue' = <<>> /\ UNCHANGED ran

Next == (\E t \in Task : Accept(t)) \/ Finish \/ Discard

Spec == Init /\ [][Next]_vars
===============================================================================
