-------------------------- MODULE MeshTorusRouting --------------------------
(***************************************************************************)
(* Routing in a mesh or torus of NX x NY routers with one end point each:  *)
(* the turn models of route_mesh.sv and their torus ("TRANC") versions of  *)
(* route_torus.sv, and the code of the output ports that a header carries  *)
(* (mesh_torus_routting.sv).  A torus algorithm TRANC_X is the algorithm X *)
(* here, with the directions of the torus.                                 *)
(***************************************************************************)
EXTENDS Integers

CONSTANTS
    NX, NY,
    Configs       \* bound: the configurations that are looked at

ASSUME SizeAssumption == NX \in Nat \ {0} /\ NY \in Nat \ {0}

Router == (0 .. NX - 1) \X (0 .. NY - 1)     \* <<x, y>>, y grows to the south

DirX == {"EAST", "WEST"}
DirY == {"NORTH", "SOUTH"}
Dir  == DirX \cup DirY

Algorithms == [MESH  |-> {"DOR", "WEST_FIRST", "NORTH_LAST",
                          "NEGETIVE_FIRST", "ODD_EVEN", "FULL_ADPT"},
               TORUS |-> {"DOR", "WEST_FIRST", "NORTH_LAST",
                          "NEGETIVE_FIRST", "FULL_ADPT"}]

\* A configuration: TOPOLOGY and ROUTE_NAME.
Config == UNION {[topo : {t}, alg : Algorithms[t]] : t \in {"MESH", "TORUS"}}

ASSUME ConfigAssumption == Configs \subseteq Config

-----------------------------------------------------------------------------
(* Where routers lead.                                                     *)

\* The wires wrap around; in a mesh no packet is sent over the edge.
Neighbor(r, p) ==
    IF p = "EAST" THEN <<IF r[1] < NX - 1 THEN r[1] + 1 ELSE 0, r[2]>>
    ELSE IF p = "WEST" THEN <<IF r[1] > 0 THEN r[1] - 1 ELSE NX - 1, r[2]>>
    ELSE IF p = "SOUTH" THEN <<r[1], IF r[2] < NY - 1 THEN r[2] + 1 ELSE 0>>
    ELSE <<r[1], IF r[2] > 0 THEN r[2] - 1 ELSE NY - 1>>

Opposite(p) ==
    CASE p = "EAST"  -> "WEST"
      [] p = "WEST"  -> "EAST"
      [] p = "SOUTH" -> "NORTH"
      [] p = "NORTH" -> "SOUTH"

\* 1 and -1: plus and minus in one dimension, 0: the same coordinate.
MeshSign(c, d) == IF d > c THEN 1 ELSE IF d < c THEN -1 ELSE 0

\* The direction in a ring of n routers.  It needs no VC classes: a packet
\* that goes plus stops before the ring closes.
TrancPlus(c, d, n) ==
    \/ d - c = 1
    \/ d - c = 1 - n
    \/ c = n - 4 /\ d = n - 2
    \/ c >= n - 2 /\ d <= n - 4
    \/ d > c /\ d <= n - 3

TrancSign(c, d, n) ==
    IF d = c THEN 0 ELSE IF TrancPlus(c, d, n) THEN 1 ELSE -1

Sign(topo, c, d, n) ==
    IF topo = "MESH" THEN MeshSign(c, d) ELSE TrancSign(c, d, n)

PortX(dx) == IF dx = 0 THEN {} ELSE IF dx = 1 THEN {"EAST"} ELSE {"WEST"}
PortY(dy) == IF dy = 0 THEN {} ELSE IF dy = 1 THEN {"SOUTH"} ELSE {"NORTH"}

-----------------------------------------------------------------------------
(* possible_out_port of the algorithms at router r for destination d; dx   *)
(* and dy are the directions to d.                                         *)

Odd(n) == n % 2 = 1

\* Eastbound packets turn in odd columns only, or where they start (the
\* network interface computes the first route), westbound in even ones.
OddEvenOut(r, d, dx, dy, inNI) ==
    IF dx = 0 \/ dy = 0 THEN PortX(dx) \cup PortY(dy)
    ELSE IF dx = 1
    THEN    (IF Odd(r[1]) \/ inNI THEN PortY(dy) ELSE {})
       \cup (IF Odd(d[1]) \/ d[1] - r[1] # 1 THEN PortX(dx) ELSE {})
    ELSE PortX(dx) \cup (IF Odd(r[1]) THEN {} ELSE PortY(dy))

\* The dimension that goes first, where the algorithm prescribes one.
OnlyX(alg, dx, dy) ==
    \/ alg = "DOR"
    \/ alg = "WEST_FIRST" /\ dx = -1
    \/ alg = "NORTH_LAST" /\ dy = -1
    \/ alg = "NEGETIVE_FIRST" /\ dx = -1 /\ dy = -1

OnlyY(alg, dx, dy) == alg = "NEGETIVE_FIRST" /\ dx = 1 /\ dy = 1

PossibleOut(c, r, d, inNI) ==
    LET dx == Sign(c.topo, r[1], d[1], NX)
        dy == Sign(c.topo, r[2], d[2], NY)
    IN IF dx = 0 /\ dy = 0 THEN {"LOCAL"}
       ELSE IF c.alg = "ODD_EVEN" THEN OddEvenOut(r, d, dx, dy, inNI)
       ELSE IF dx # 0 /\ OnlyX(c.alg, dx, dy) THEN PortX(dx)
       ELSE IF OnlyY(c.alg, dx, dy) THEN PortY(dy)
       ELSE PortX(dx) \cup PortY(dy)

-----------------------------------------------------------------------------
(* The coded destination port {x, y, a, b}: a and b say in which dimension *)
(* the packet may go, x (EAST) and y (NORTH) say which way.                *)

Code == [x : BOOLEAN, y : BOOLEAN, a : BOOLEAN, b : BOOLEAN]

CodeX(code) == IF code.x THEN "EAST" ELSE "WEST"
CodeY(code) == IF code.y THEN "NORTH" ELSE "SOUTH"

Requested(code) ==
    IF ~code.a /\ ~code.b THEN {"LOCAL"}
    ELSE (IF code.a THEN {CodeX(code)} ELSE {})
         \cup (IF code.b THEN {CodeY(code)} ELSE {})

Deterministic(c) == c.alg = "DOR"
FullAdaptive(c)  == c.alg = "FULL_ADPT"

\* Only fully adaptive routing tells the VCs of a channel apart.
VcClass(c) == IF FullAdaptive(c) THEN {"escape", "adaptive"} ELSE {"escape"}

\* The y bit: minus, to the north, in a mesh; plus in the adaptive
\* algorithms of the torus.
BitY(c, out, dy) ==
    IF Deterministic(c) THEN "NORTH" \in out
    ELSE IF c.topo = "MESH" THEN dy = -1 ELSE dy = 1

Encode(c, r, d, inNI) ==
    LET out == PossibleOut(c, r, d, inNI)
    IN [x |-> IF Deterministic(c) THEN "EAST" \in out
              ELSE Sign(c.topo, r[1], d[1], NX) = 1,
        y |-> BitY(c, out, Sign(c.topo, r[2], d[2], NY)),
        a |-> out \cap DirX # {},
        b |-> out \cap DirY # {}]

\* Mutation: the header keeps x and y only while both dimensions are left.
LookAheadKeepsBoth(c, r, d, code, p) ==
    LET next == Encode(c, Neighbor(r, p), d, FALSE)
    IN IF Deterministic(c) THEN next
       ELSE [next EXCEPT !.x = IF next.a /\ next.b THEN code.x ELSE ~code.x,
                         !.y = IF next.a /\ next.b THEN code.y ELSE ~code.y]

\* The code for the next router, computed one router ahead; p is the output
\* port it is computed for.  Adaptive algorithms keep x and y of the header.
LookAhead(c, r, d, code, p) ==
    LET next == Encode(c, Neighbor(r, p), d, FALSE)
    IN IF Deterministic(c) THEN next
       ELSE [next EXCEPT !.x = IF next.a \/ next.b THEN code.x ELSE ~code.x,
                         !.y = IF next.a \/ next.b THEN code.y ELSE ~code.y]

\* The ports to which the crossbar of input port "via" is wired, without the
\* turns that the algorithm never takes.
NonAssignable(c, r, via) ==
    CASE c.alg = "DOR" -> IF via \in DirY THEN DirX ELSE {}
      [] c.alg = "WEST_FIRST" -> IF via \in DirY THEN {"WEST"} ELSE {}
      [] c.alg = "NORTH_LAST" -> IF via = "SOUTH" THEN DirX ELSE {}
      [] c.alg = "NEGETIVE_FIRST" ->
            CASE via = "SOUTH" -> {"WEST"}
              [] via = "WEST"  -> {"SOUTH"}
              [] OTHER         -> {}
      [] c.alg = "ODD_EVEN" ->
            CASE via \in DirY /\ Odd(r[1])  -> {"WEST"}
              [] via = "WEST" /\ ~Odd(r[1]) -> DirY
              [] OTHER                      -> {}
      [] c.alg = "FULL_ADPT" -> {}

Assignable(c, r, via) ==
    ((Dir \cup {"LOCAL"}) \ {via}) \ NonAssignable(c, r, via)
=============================================================================
