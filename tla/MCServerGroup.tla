---------------------------- MODULE MCServerGroup ----------------------------
(***************************************************************************)
(* Small groups for ServerGroup.                                           *)
(***************************************************************************)
EXTENDS ServerGroup

\* All workers in one group.
OneGroup == [w \in Worker |-> "g1"]
=============================================================================
