---------------------------- MODULE MCParamServer ----------------------------
(***************************************************************************)
(* Small clusters for ParamServer.                                         *)
(***************************************************************************)
EXTENDS ParamServerInv

\* Two workers, each in a process of its own.
TwoGroupsEntryOf == [w \in Worker |-> IF w = "w1" THEN "e1" ELSE "e2"]

\* Two workers in the owner's process, one in each of two others.
FourEntryOf == [w \in Worker |->
  CASE w = "w3" -> "e2" [] w = "w4" -> "e3" [] OTHER -> "e1"]

\* Two groups that both span two processes.
SpanningEntryOf == [w \in Worker |->
  CASE w = "w1" -> "e1" [] w = "w2" -> "e2" [] w = "w3" -> "e3" [] w = "w4" -> "e4"]
SpanningGrpOf == [e \in Entry |-> IF e \in {"e1", "e2"} THEN "g1" ELSE "g2"]

OneGroupGrpOf == [e \in Entry |-> "g1"]
TwoGroupsGrpOf == [e \in Entry |-> IF e = "e1" THEN "g1" ELSE "g2"]
=============================================================================
