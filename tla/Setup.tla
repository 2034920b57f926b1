------------------------------- MODULE Setup --------------------------------
(***************************************************************************)
(* Trainer::SetupWorkerServer, which every process runs for itself: the    *)
(* net is built for the workers of a group, its parameters are sliced, and *)
(* the slices are assigned to server groups and servers.                   *)
(***************************************************************************)
EXTENDS NetGraph, Slicing

CONSTANT Inputs     \* set of [conf, net]: configurations and nets

\* The layers of a configured net: sources are layers of it.
Layers(n) ==
  [pdim : {-1, 0, 1}, srcs : Seq(1..n), conn : {"one", "all"}, many : BOOLEAN, size : Nat]

ASSUME InputsAssumption ==
  \A in \in Inputs : /\ in.conf \in Config
                     /\ in.net \in Seq(Layers(Len(in.net)))

vars == <<netVars, sliceVars>>

Init == \E in \in Inputs : NetInit(in.net, in.conf.nw) /\ SliceInit(in.conf)

BuildNet == phase = "net" /\ NetStep /\ UNCHANGED sliceVars

StartSlicing == pass = "built" /\ SliceParams(ParamSizes) /\ UNCHANGED netVars

SliceAndPartition == SliceStep /\ UNCHANGED netVars

Over == phase \in {"done", "fatal"} \/ pass = "crashed"

Next == BuildNet \/ StartSlicing \/ SliceAndPartition \/ (Over /\ UNCHANGED vars)

Spec == Init /\ [][Next]_vars /\ WF_vars(Next)

-----------------------------------------------------------------------------
\* Messages for a server, and for a worker whose entry in the table no server
\* has replaced, go to the process that has created the thread.
Placed == ThreadsArePlaced(conf)

\* The set-up comes to an end.  PartitionSlices opens boxes for ever when a
\* slice is larger than one, which a total of few parameters can bring about.
SetupEnds == <>(Over \/ (sizes # << >> /\ Total < Lcm * Lcm))
=============================================================================
