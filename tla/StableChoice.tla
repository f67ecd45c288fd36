---------------------------- MODULE StableChoice ----------------------------
(***************************************************************************)
(* What a state blob promises its callers, with nothing said of files:     *)
(* the first load of a path decides its value, every later load answers    *)
(* the decided value, and only the removal of the state undoes a decision. *)
(* The documentation states it as "generated once within a constrained     *)
(* model, retained for the right lifetime, and reused consistently by      *)
(* every covered API" (docs/concepts/randomization.md:37).                    *)
(***************************************************************************)
CONSTANTS
  Threads,    \* callers
  Paths,      \* the values to be chosen
  Values,     \* what can be chosen
  NoValue     \* no decision, or an answer that is a failure

VARIABLES
  choice,     \* choice[p]: the decided value of p, or NoValue
  answers     \* answers[t]: the answers t has not consumed yet (none or one)

choiceVars == <<choice, answers>>

Init ==
  /\ choice = [p \in Paths |-> NoValue]
  /\ answers = [t \in Threads |-> {}]

(* A load answers v: either v was decided before or it is decided now. *)
Answer(t, p, v) ==
  /\ answers[t] = {}
  /\ choice[p] \in {NoValue, v}
  /\ choice' = [choice EXCEPT ![p] = v]
  /\ answers' = [answers EXCEPT ![t] = {v}]

(* A load whose generator refuses answers a failure and decides nothing. *)
Refuse(t) ==
  /\ answers[t] = {}
  /\ answers' = [answers EXCEPT ![t] = {NoValue}]
  /\ UNCHANGED choice

(* Some callers consume their answer, or die with it. *)
Consume(who) ==
  /\ answers' = [t \in Threads |-> IF t \in who THEN {} ELSE answers[t]]
  /\ UNCHANGED choice

(* The state of a path is removed from outside. *)
Forget(p) ==
  /\ choice' = [choice EXCEPT ![p] = NoValue]
  /\ UNCHANGED answers

Next ==
  \/ \E t \in Threads, p \in Paths, v \in Values : Answer(t, p, v)
  \/ \E t \in Threads : Refuse(t)
  \/ \E who \in SUBSET Threads : Consume(who)
  \/ \E p \in Paths : Forget(p)

Spec == Init /\ [][Next]_choiceVars
=============================================================================
