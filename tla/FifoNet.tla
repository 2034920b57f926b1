------------------------------ MODULE FifoNet ------------------------------
(***************************************************************************)
(* What the message layer promises its users, the threads and the stubs:   *)
(* between any two of them messages arrive once and in the order sent.     *)
(***************************************************************************)
EXTENDS Integers, Sequences, SequencesExt

CONSTANT Node

VARIABLE chan     \* chan[a][b]: sent by a, not yet handled by b

Init == chan = [a \in Node |-> [b \in Node |-> << >>]]

\* A node handles at most one message and sends any number.
Step(n) ==
  /\ \A a \in Node \ {n}, b \in Node \ {n} : chan'[a][b] = chan[a][b]
  /\ \A b \in Node \ {n} : IsPrefix(chan[n][b], chan'[n][b])
  /\ \/ \A a \in Node : chan'[a][n] = chan[a][n]
     \/ \E a \in Node : /\ chan[a][n] # << >>
                        /\ chan'[a][n] = Tail(chan[a][n])
                        /\ \A c \in Node \ {a} : chan'[c][n] = chan[c][n]

Next == \E n \in Node : Step(n)

Spec == Init /\ [][Next]_chan
=============================================================================
