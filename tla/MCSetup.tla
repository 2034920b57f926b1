------------------------------ MODULE MCSetup -------------------------------
EXTENDS Setup

Conf(nw, nsg, ns) ==
  [nwg |-> 2, nw |-> nw, wpp |-> nw, nsg |-> nsg, ns |-> ns, spp |-> 1, separate |-> FALSE]

Layer(pdim, srcs, conn, many, size) ==
  [pdim |-> pdim, srcs |-> srcs, conn |-> conn, many |-> many, size |-> size]

\* Layers in a row, with parameters of these sizes.
Row(z) ==
  [l \in DOMAIN z |-> Layer(-1, IF l = 1 THEN << >> ELSE <<l - 1>>, "all", FALSE, z[l])]

Rows == {Row(s) : s \in UNION {[1..n -> {1, 7, 19, 23, 65}] : n \in 1..3}}

\* Data, parser, two layers on it, and a loss of both and of the parser,
\* configured from the last to the first.
Diamond(p1, p2, p3, p4, c) ==
  << Layer(p4, <<3, 2, 4>>, "one", FALSE, 0), Layer(p3, <<4>>, c, FALSE, 40),
     Layer(p2, <<4>>, c, FALSE, 60), Layer(p1, <<5>>, "one", FALSE, 0), Layer(-1, << >>, "one", TRUE, 0) >>

Diamonds == {Diamond(p1, p2, p3, p4, c) : p1, p2, p3, p4 \in {-1, 0, 1}, c \in {"one", "all"}}

\* Data, and two layers of an RBM.
Rbm == << Layer(-1, << >>, "one", TRUE, 0), Layer(-1, <<1, 3>>, "one", FALSE, 12),
          Layer(-1, <<2>>, "one", FALSE, 30) >>

Confs == [nwg : 1..3, nw : 1..3, wpp : 1..3, nsg : 1..2, ns : 1..3, spp : 1..2, separate : BOOLEAN]

\* Four servers, and parameters of which the last does not fit what the others
\* leave.
FourServers == { [conf |-> Conf(1, 1, 4), net |-> Row(<<1900, 1900, 1900, 2300>>)] }

MCInputs ==
  { [conf |-> Conf(1, nsg, ns), net |-> r] : nsg \in 1..2, ns \in 1..4, r \in Rows } \cup
  { [conf |-> Conf(2, 1, 2), net |-> d] : d \in Diamonds \cup {Rbm} } \cup
  { [conf |-> c, net |-> Row(<<23>>)] : c \in Confs } \cup
  { [conf |-> Conf(1, 1, 2), net |-> Row(<<0>>)] }
=============================================================================
