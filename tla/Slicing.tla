------------------------------ MODULE Slicing -------------------------------
(***************************************************************************)
(* What every process computes before its threads start: the parameters    *)
(* are cut into slices, for the least common multiple of the numbers of    *)
(* server groups and of servers in a group, and the slices are assigned    *)
(* once to the groups and once to the servers of a group.  A step is one   *)
(* turn of a loop of the code.                                             *)
(***************************************************************************)
EXTENDS Topology, SequencesExt

CONSTANT MaxBox           \* bound: boxes are counted up to here

ASSUME MaxBoxAssumption == MaxBox \in Nat

VARIABLES
  conf,                   \* the configuration of the cluster
  sizes,                  \* sizes of the parameters
  phase,                  \* "net" before, "slice", "group", "server", "done" or "fatal"
  rest,                   \* sizes not sliced yet, the first of them in part
  capacity, nbox,         \* of Slice
  slices,                 \* slices of each parameter so far
  box, boxid,             \* of PartitionSlices
  slice2box               \* result of each call so far, by phase

sliceVars == <<conf, sizes, phase, rest, capacity, nbox, slices, box, boxid, slice2box>>

Sum(s) == LET sum[k \in 0..Len(s)] == IF k = 0 THEN 0 ELSE sum[k - 1] + s[k] IN sum[Len(s)]
Total == Sum(sizes)

gcd(a, b) == CHOOSE d \in 1..a : /\ Divides(d, a) /\ Divides(d, b)
                                 /\ \A e \in (d + 1)..a : ~(Divides(e, a) /\ Divides(e, b))
LeastCommonMultiple(a, b) == (a \div gcd(a, b)) * b

Lcm == LeastCommonMultiple(conf.nsg, conf.ns)

\* Fault: the remainder is left out.
AverageDown(total, num) == total \div num

\* avg of num boxes, and how far a box may be overfilled.
Average(total, num) == (total \div num) + (total % num)
Avg(num) == Average(Total, num)
Diff(num) == Avg(num) \div 10

SliceInit(c) ==
  /\ conf = c /\ sizes = << >> /\ phase = "net" /\ rest = << >> /\ slices = << >>
  /\ capacity = 0 /\ nbox = 0 /\ box = 0 /\ boxid = 0
  /\ slice2box = [group |-> << >>, server |-> << >>]

SliceParams(s) ==
  /\ phase = "net" /\ phase' = "slice"
  /\ sizes' = s /\ rest' = s /\ slices' = IF s = << >> THEN << >> ELSE << << >> >>
  /\ capacity' = Average(Sum(s), Lcm)
  /\ UNCHANGED <<conf, nbox, box, boxid, slice2box>>

-----------------------------------------------------------------------------
\* Fault: an overfilled box takes no more than it has room for.
CutShort(x) ==
  LET num == Lcm
  IN  CASE capacity >= x -> [size |-> x, x |-> 0, capacity |-> capacity - x, nbox |-> nbox]
        [] capacity < x /\ capacity + Diff(num) >= x ->
             [size |-> capacity, x |-> 0, capacity |-> 0, nbox |-> nbox]
        [] OTHER -> [size |-> capacity, x |-> x - capacity, capacity |-> Avg(num), nbox |-> nbox + 1]

\* A turn of the loop in Slice for a rest x: what is cut off, x, the capacity
\* and nbox afterwards.
Cut(x) ==
  LET num == Lcm
  IN  CASE capacity >= x -> [size |-> x, x |-> 0, capacity |-> capacity - x, nbox |-> nbox]
        [] capacity < x /\ capacity + Diff(num) >= x ->
             [size |-> x, x |-> 0, capacity |-> 0, nbox |-> nbox]
        [] capacity + Diff(num) < x /\ capacity >= Diff(num) ->
             [size |-> capacity, x |-> x - capacity, capacity |-> Avg(num), nbox |-> nbox + 1]
        [] OTHER -> [size |-> 0, x |-> x, capacity |-> Avg(num), nbox |-> nbox + 1]

Slice ==
  /\ phase = "slice" /\ rest # << >> /\ Head(rest) > 0
  /\ LET t == Cut(Head(rest))
     IN  /\ rest' = <<t.x>> \o Tail(rest)
         /\ capacity' = t.capacity /\ nbox' = t.nbox
         /\ slices' = IF t.size = 0 THEN slices
                      ELSE [slices EXCEPT ![Len(slices)] = Append(@, t.size)]
  /\ UNCHANGED <<conf, sizes, phase, box, boxid, slice2box>>

\* On to the next parameter, or to the first partition.
NumBoxes == IF phase = "group" THEN conf.nsg ELSE conf.ns

NextParam ==
  /\ phase = "slice" /\ (rest # << >> => Head(rest) = 0)
  /\ IF Len(rest) > 1
     THEN /\ rest' = Tail(rest) /\ slices' = Append(slices, << >>)
          /\ UNCHANGED <<phase, box, boxid>>
     ELSE /\ rest' = << >>
          /\ phase' = IF nbox <= Lcm THEN "group" ELSE "fatal"
          /\ box' = Avg(conf.nsg) /\ boxid' = 0
          /\ UNCHANGED slices
  /\ UNCHANGED <<conf, sizes, capacity, nbox, slice2box>>

-----------------------------------------------------------------------------
\* The slices in the order of their ids.
Flat == FlattenSeq(slices)

Assigned == IF phase = "group" THEN slice2box.group ELSE slice2box.server

\* Fault: the slice is compared with a whole box.
FitsEmpty(x) == Avg(NumBoxes) + Diff(NumBoxes) >= x

\* Fault: what is left of the box, not a new one.
SameBox == box

\* A turn of the loop in PartitionSlices: a slice that fits goes to the box,
\* else a new box is opened for it.
Fits(x) == box + Diff(NumBoxes) >= x

NewBox == Avg(NumBoxes)

AssignSlice ==
  LET x == Flat[Len(Assigned) + 1]
  IN  /\ phase \in {"group", "server"} /\ Len(Assigned) < Len(Flat)
      /\ IF Fits(x)
         THEN /\ slice2box' = [slice2box EXCEPT ![phase] = Append(@, boxid)]
              /\ box' = IF box >= x THEN box - x ELSE 0
              /\ UNCHANGED boxid
         ELSE /\ box' = NewBox /\ boxid' = IF boxid < MaxBox THEN boxid + 1 ELSE boxid
              /\ UNCHANGED slice2box
      /\ UNCHANGED <<conf, sizes, phase, rest, capacity, nbox, slices>>

EndPartition ==
  /\ phase \in {"group", "server"} /\ Len(Assigned) = Len(Flat)
  /\ phase' = IF phase = "group" THEN "server" ELSE "done"
  /\ box' = Avg(conf.ns) /\ boxid' = 0
  /\ UNCHANGED <<conf, sizes, rest, capacity, nbox, slices, slice2box>>

SliceStep == Slice \/ NextParam \/ AssignSlice \/ EndPartition

-----------------------------------------------------------------------------
\* The slices of a parameter cover it, and none is empty.
SlicesCover ==
  phase \notin {"net", "slice", "fatal"} =>
    \A p \in DOMAIN sizes : /\ Sum(slices[p]) = sizes[p]
                               /\ \A k \in DOMAIN slices[p] : slices[p][k] > 0

\* The assertion at the end of Slice does not fail for up to eleven boxes:
\* each may lose a tenth, and one more than num is let through.
NoFatal == Lcm <= 11 => phase # "fatal"

\* What a box holds of slices larger than diff is no more than its share and a
\* tenth.  (Of smaller ones a full box takes any number.)
Load(s2b, num, b) ==
  Sum([k \in DOMAIN s2b |-> IF s2b[k] = b /\ Flat[k] > Diff(num) THEN Flat[k] ELSE 0])

Balanced ==
  phase = "done" => \A b \in 0..(MaxBox - 1) :
    /\ Load(slice2box.group, conf.nsg, b) <= Avg(conf.nsg) + Diff(conf.nsg)
    /\ Load(slice2box.server, conf.ns, b) <= Avg(conf.ns) + Diff(conf.ns)

\* Every slice is assigned to one of the num boxes.
BoxesExist ==
  phase = "done" =>
    \A k \in DOMAIN Flat : slice2box.group[k] < conf.nsg /\ slice2box.server[k] < conf.ns

=============================================================================
