------------------------------- MODULE SyncSGD -------------------------------
(***************************************************************************)
(* What one worker group and its servers promise: synchronous stochastic   *)
(* gradient descent.  Worker w has computed computed[w] gradients, slice s *)
(* of the parameter has absorbed applied[s] rounds of them.                *)
(***************************************************************************)
EXTENDS Integers

CONSTANTS Worker, Slice, Rounds

VARIABLES computed, applied

vars == <<computed, applied>>

Init ==
  /\ computed = [w \in Worker |-> 0]
  /\ applied = [s \in Slice |-> 0]

\* A gradient is computed from a parameter that contains all earlier rounds
\* and nothing else.
Compute(w) ==
  /\ computed[w] < Rounds
  /\ \A s \in Slice : applied[s] = computed[w]
  /\ computed' = [computed EXCEPT ![w] = @ + 1]
  /\ UNCHANGED applied

\* A slice is updated once the gradients of all workers are there.
Apply(s) ==
  /\ \A w \in Worker : computed[w] = applied[s] + 1
  /\ applied' = [applied EXCEPT ![s] = @ + 1]
  /\ UNCHANGED computed

Next == (\E w \in Worker : Compute(w)) \/ (\E s \in Slice : Apply(s))

Spec == Init /\ [][Next]_vars
=============================================================================
