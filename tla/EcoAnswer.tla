----------------------------- MODULE EcoAnswer -----------------------------
(***************************************************************************)
(* What a trajectory of eco promises, whichever way it finds its patch: an *)
(* answer is a patch that the independent evaluator accepts, it is only    *)
(* ever exchanged for a cheaper one that the evaluator accepts too, and in *)
(* the end it is delivered, unless there has never been one.               *)
(*                                                                         *)
(* Trajectory implements this.                                             *)
(***************************************************************************)
EXTENDS Integers

CONSTANTS
  NoPatch,      \* the patch that replaces nothing
  Cost(_),      \* what a patch costs
  Right(_, _)   \* whether the evaluator accepts a patch for the netlists

VARIABLES
  circ,     \* the netlists
  stage,    \* "searching", "answered", "delivered", "failed"
  answer    \* the patch, once there is one

answerVars == <<circ, stage, answer>>

AnswerInit == stage = "searching" /\ answer = NoPatch

(* There may be nothing to do: then the empty patch is right.              *)
Nothing ==
  /\ stage = "searching"
  /\ Right(circ, NoPatch)
  /\ stage' = "delivered"
  /\ UNCHANGED <<circ, answer>>

Found ==
  /\ stage = "searching"
  /\ \E p \in {answer'} : Right(circ, p)
  /\ stage' = "answered"
  /\ UNCHANGED circ

Improve ==
  /\ stage = "answered"
  /\ \E p \in {answer'} : /\ Cost(p) < Cost(answer)
                           /\ Right(circ, p) /\ p.outputs = answer.outputs
  /\ UNCHANGED <<circ, stage>>

Give ==
  /\ stage = "answered"
  /\ stage' = "delivered"
  /\ UNCHANGED <<circ, answer>>

Fail ==
  /\ stage = "searching"
  /\ stage' = "failed"
  /\ UNCHANGED <<circ, answer>>

AnswerNext == Nothing \/ Found \/ Improve \/ Give \/ Fail

AnswerSafe == AnswerInit /\ [][AnswerNext]_answerVars

AnswerSpec ==
  /\ AnswerSafe
  /\ <>(stage \in {"delivered", "failed"})
=============================================================================
