------------------------------ MODULE BestPatch ------------------------------
(***************************************************************************)
(* What the driver of eco/src/main.cpp promises of its N trajectories: one *)
(* answer is delivered, once.  It is the earliest of the cheapest answers  *)
(* of the trajectories that run; every trajectory runs, except that the    *)
(* serial driver stops after an answer that costs at most Enough.          *)
(***************************************************************************)
EXTENDS Integers

CONSTANTS N, Enough, None, Failed

VARIABLES
  answers,   \* what each trajectory answers when nothing disturbs it
  mode,      \* "serial" or "parallel"
  out        \* None, then the delivered answer, or Failed

vars == <<answers, mode, out>>

(* Trajectories the driver runs.                                           *)
Ran ==
  {i \in 1..N : mode = "serial" =>
     \A j \in 1..(i - 1) : ~(answers[j].ok /\ answers[j].cost <= Enough)}

(* i's answer is delivered: no other run is cheaper, none before as cheap. *)
Wins(i) ==
  /\ answers[i].ok
  /\ \A j \in Ran : answers[j].ok =>
       \/ answers[i].cost < answers[j].cost
       \/ answers[i].cost = answers[j].cost /\ i <= j

Init == out = None

Deliver ==
  /\ out = None
  /\ \/ \E i \in Ran : Wins(i) /\ out' = answers[i]
     \/ (\A i \in Ran : ~Wins(i)) /\ out' = Failed
  /\ UNCHANGED <<answers, mode>>

Next == Deliver

Spec == Init /\ [][Next]_vars
=============================================================================
