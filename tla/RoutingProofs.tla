---------------------------- MODULE RoutingProofs ---------------------------
(***************************************************************************)
(* What MCRouting promises of routes, of grants and of chains of waiting   *)
(* packets.                                                                *)
(*                                                                         *)
(* Of a packet: in a mesh of any size, with any of the algorithms, and in  *)
(* a torus with deterministic routing, every header asks for the ports     *)
(* that the algorithm permits, no request is for a turn the crossbar       *)
(* lacks, and the way has the length the end points compute.               *)
(*                                                                         *)
(* Of chains: in the same networks each algorithm has an order of the VCs  *)
(* that every step of a chain goes up, so that no chain comes back to its  *)
(* start.                                                                  *)
(*                                                                         *)
(* Of the composition: the chain never leaves the VCs of the network, what *)
(* a packet is granted is an option of a chain, and each part rests while  *)
(* the others run.                                                         *)
(***************************************************************************)
EXTENDS MCRouting, TLAPS

-----------------------------------------------------------------------------
(* The way of a packet.                                                    *)

Dx(c, r, d) == Sign(c.topo, r[1], d[1], NX)
Dy(c, r, d) == Sign(c.topo, r[2], d[2], NY)

\* What a packet's way so far, of which "in" is the last port, says of the
\* directions that are left to it.
Onward(c, r, d, in, class) ==
    /\ in = "EAST"  => Dx(c, r, d) # 1
    /\ in = "WEST"  => Dx(c, r, d) # -1
    /\ in = "SOUTH" => Dy(c, r, d) # 1
    /\ in = "NORTH" => Dy(c, r, d) # -1
    /\ c.alg = "DOR" /\ in \in DirY => Dx(c, r, d) = 0
    /\ c.alg = "WEST_FIRST" /\ in \in DirY => Dx(c, r, d) # -1
    /\ c.alg = "NORTH_LAST" /\ in = "SOUTH" => Dx(c, r, d) = 0
    /\ c.alg = "NEGETIVE_FIRST" /\ in = "SOUTH" => Dx(c, r, d) # -1
    /\ c.alg = "NEGETIVE_FIRST" /\ in = "WEST" => Dy(c, r, d) # 1
    /\ c.alg = "ODD_EVEN" /\ in \in DirY /\ Odd(r[1]) => Dx(c, r, d) # -1
    /\ c.alg = "ODD_EVEN" /\ in = "WEST" /\ ~Odd(r[1]) =>
            Dx(c, r, d) # 0 \/ Dy(c, r, d) = 0
    /\ c.alg = "FULL_ADPT" /\ in \in DirY /\ class = "escape" => Dx(c, r, d) = 0

\* The x and y bits of an adaptive algorithm's header say the way for as long
\* as there is one in their dimension.
BitsKept(c, r, d, h) ==
    ~Deterministic(c) => /\ Dx(c, r, d) # 0 => (h.x <=> Dx(c, r, d) = 1)
                         /\ Dy(c, r, d) # 0 => (h.y <=> Dy(c, r, d) = -1)

\* The inductive invariant.
RouteInv ==
    /\ TypeOK
    /\ Onward(cfg, here, dest, via, vc)
    /\ BitsKept(cfg, here, dest, code)
    /\ via = "LOCAL" => here # dest
    /\ hops + Distance(cfg, here, dest) = Distance(cfg, src, dest)
    /\ arriving => ovc = None
    /\ ovc = None => Requested(code) = PossibleOut(cfg, here, dest, via = "LOCAL")
    /\ ovc # None => /\ Requested(code) = {ovc.port}
                     /\ ovc.port \in PossibleOut(cfg, here, dest, via = "LOCAL")
                     /\ ovc.vc \in VcClass(cfg)
                     /\ FullAdaptive(cfg) /\ ovc.port \in DirY /\ ovc.vc = "escape"
                           => Dx(cfg, here, dest) = 0

-----------------------------------------------------------------------------
(* One dimension.                                                          *)

RingNext(c, n) == IF c < n - 1 THEN c + 1 ELSE 0
RingPrev(c, n) == IF c > 0 THEN c - 1 ELSE n - 1

\* The distance in one dimension.
Apart(topo, c, d, n) == IF topo = "MESH" THEN Abs(c - d) ELSE RingOffset(c, d, n)

\* Reduction modulo the size of a ring.
LEMMA RingMod ==
    ASSUME NEW n \in Nat \ {0}, NEW x \in Nat, x < 2 * n
    PROVE  x % n = IF x < n THEN x ELSE x - n
  OBVIOUS

LEMMA RingDifference ==
    ASSUME NEW n \in Nat \ {0}, NEW c \in 0 .. n - 1, NEW d \in 0 .. n - 1, c # d
    PROVE  (d - c + n) % n = IF d > c THEN d - c ELSE d - c + n
<1> DEFINE x == d - c + n
<1>1. x \in Nat /\ x < 2 * n /\ (x < n <=> ~(d > c)) /\ x - n = d - c
  OBVIOUS
<1>2. x % n = IF x < n THEN x ELSE x - n
  <2> HIDE DEF x
  <2> QED
    BY <1>1, RingMod
<1> QED
  BY <1>1, <1>2

LEMMA RingPlus ==
    ASSUME NEW n \in Nat \ {0}, NEW c \in 0 .. n - 1, NEW d \in 0 .. n - 1,
           TrancSign(c, d, n) = 1
    PROVE  /\ RingNext(c, n) \in 0 .. n - 1
           /\ TrancSign(RingNext(c, n), d, n) \in {0, 1}
           /\ RingOffset(RingNext(c, n), d, n) = RingOffset(c, d, n) - 1
           /\ RingOffset(c, d, n) \in Int
<1> DEFINE e == RingNext(c, n)
<1>1. c # d /\ TrancPlus(c, d, n)
  BY DEF TrancSign
<1>2. e \in 0 .. n - 1 /\ (e = d \/ TrancPlus(e, d, n))
  BY <1>1 DEF TrancPlus, RingNext
<1>3. (d - c + n) % n = IF d > c THEN d - c ELSE d - c + n
  BY <1>1, RingDifference
<1>4. RingOffset(c, d, n) = IF d > c THEN d - c ELSE d - c + n
  BY <1>1, <1>3 DEF RingOffset
<1>5. CASE e = d
  BY <1>1, <1>2, <1>4, <1>5 DEF RingOffset, RingNext, TrancSign
<1>6. CASE e # d
  <2>1. (d - e + n) % n = IF d > e THEN d - e ELSE d - e + n
    BY <1>2, <1>6, RingDifference
  <2>2. RingOffset(e, d, n) = IF d > e THEN d - e ELSE d - e + n
    BY <1>2, <1>6, <2>1 DEF RingOffset
  <2> QED
    BY <1>1, <1>2, <1>4, <1>6, <2>2 DEF RingNext, TrancSign
<1> QED
  BY <1>5, <1>6

LEMMA RingMinus ==
    ASSUME NEW n \in Nat \ {0}, NEW c \in 0 .. n - 1, NEW d \in 0 .. n - 1,
           TrancSign(c, d, n) = -1
    PROVE  /\ RingPrev(c, n) \in 0 .. n - 1
           /\ TrancSign(RingPrev(c, n), d, n) \in {0, -1}
           /\ RingOffset(RingPrev(c, n), d, n) = RingOffset(c, d, n) - 1
           /\ RingOffset(c, d, n) \in Int
<1> DEFINE e == RingPrev(c, n)
<1>1. c # d /\ ~TrancPlus(c, d, n)
  BY DEF TrancSign
<1>2. e \in 0 .. n - 1 /\ (e = d \/ ~TrancPlus(e, d, n))
  BY <1>1 DEF TrancPlus, RingPrev
<1>3. (c - d + n) % n = IF c > d THEN c - d ELSE c - d + n
  BY <1>1, RingDifference
<1>4. RingOffset(c, d, n) = IF c > d THEN c - d ELSE c - d + n
  BY <1>1, <1>3 DEF RingOffset
<1>5. CASE e = d
  BY <1>1, <1>2, <1>4, <1>5 DEF RingOffset, RingPrev, TrancSign
<1>6. CASE e # d
  <2>1. (e - d + n) % n = IF e > d THEN e - d ELSE e - d + n
    BY <1>2, <1>6, RingDifference
  <2>2. RingOffset(e, d, n) = IF e > d THEN e - d ELSE e - d + n
    BY <1>2, <1>6, <2>1 DEF RingOffset
  <2> QED
    BY <1>1, <1>2, <1>4, <1>6, <2>2 DEF RingPrev, TrancSign
<1> QED
  BY <1>5, <1>6

\* A step in the direction of the sign brings the packet one router nearer and
\* never turns the direction round.
LEMMA StepPlus ==
    ASSUME NEW t \in {"MESH", "TORUS"}, NEW n \in Nat \ {0},
           NEW c \in 0 .. n - 1, NEW d \in 0 .. n - 1, Sign(t, c, d, n) = 1
    PROVE  /\ RingNext(c, n) \in 0 .. n - 1
           /\ Sign(t, RingNext(c, n), d, n) \in {0, 1}
           /\ Apart(t, RingNext(c, n), d, n) = Apart(t, c, d, n) - 1
           /\ Apart(t, c, d, n) \in Int
           /\ t = "MESH" => RingNext(c, n) = c + 1 /\ c < d
<1>1. CASE t = "MESH"
  BY <1>1 DEF Sign, MeshSign, RingNext, Apart, Abs
<1>2. CASE t = "TORUS"
  BY <1>2, RingPlus DEF Sign, Apart
<1> QED
  BY <1>1, <1>2

LEMMA StepMinus ==
    ASSUME NEW t \in {"MESH", "TORUS"}, NEW n \in Nat \ {0},
           NEW c \in 0 .. n - 1, NEW d \in 0 .. n - 1, Sign(t, c, d, n) = -1
    PROVE  /\ RingPrev(c, n) \in 0 .. n - 1
           /\ Sign(t, RingPrev(c, n), d, n) \in {0, -1}
           /\ Apart(t, RingPrev(c, n), d, n) = Apart(t, c, d, n) - 1
           /\ Apart(t, c, d, n) \in Int
           /\ t = "MESH" => RingPrev(c, n) = c - 1 /\ c > d
<1>1. CASE t = "MESH"
  BY <1>1 DEF Sign, MeshSign, RingPrev, Apart, Abs
<1>2. CASE t = "TORUS"
  BY <1>2, RingMinus DEF Sign, Apart
<1> QED
  BY <1>1, <1>2

LEMMA SignOfCoordinates ==
    ASSUME NEW t \in {"MESH", "TORUS"}, NEW n \in Nat \ {0},
           NEW c \in 0 .. n - 1, NEW d \in 0 .. n - 1
    PROVE  /\ Sign(t, c, d, n) \in {-1, 0, 1}
           /\ Sign(t, c, d, n) = 0 <=> c = d
           /\ t = "MESH" => (Sign(t, c, d, n) = 1 <=> c < d)
           /\ c = d => Apart(t, c, d, n) = 0
           /\ Apart(t, c, d, n) \in Int
<1>1. CASE t = "MESH"
  BY <1>1 DEF Sign, MeshSign, Apart, Abs
<1>2. CASE t = "TORUS"
  <2>1. RingOffset(c, d, n) \in Int
    BY DEF RingOffset
  <2> QED
    BY <1>2, <2>1 DEF Sign, TrancSign, Apart, RingOffset
<1> QED
  BY <1>1, <1>2
-----------------------------------------------------------------------------
(* Both dimensions.                                                        *)

LEMMA Coordinates ==
    ASSUME NEW r \in Router
    PROVE  /\ r = <<r[1], r[2]>> /\ r[1] \in 0 .. NX - 1 /\ r[2] \in 0 .. NY - 1
           /\ NX \in Nat \ {0} /\ NY \in Nat \ {0}
  BY SizeAssumption DEF Router

LEMMA Signs ==
    ASSUME NEW c \in AllowedConfigs, NEW r \in Router, NEW d \in Router
    PROVE  /\ Dx(c, r, d) \in {-1, 0, 1} /\ Dy(c, r, d) \in {-1, 0, 1}
           /\ Dx(c, r, d) = 0 /\ Dy(c, r, d) = 0 <=> r = d
           /\ Distance(c, r, d) = Apart(c.topo, r[1], d[1], NX)
                                  + Apart(c.topo, r[2], d[2], NY) + 1
           /\ Distance(c, r, d) \in Int
           /\ r = d => Distance(c, r, d) = 1
<1>1. c.topo \in {"MESH", "TORUS"}
  BY DEF AllowedConfigs, Config
<1>2. /\ r = <<r[1], r[2]>> /\ r[1] \in 0 .. NX - 1 /\ r[2] \in 0 .. NY - 1
      /\ d = <<d[1], d[2]>> /\ d[1] \in 0 .. NX - 1 /\ d[2] \in 0 .. NY - 1
      /\ NX \in Nat \ {0} /\ NY \in Nat \ {0}
  BY Coordinates
<1>3. /\ Dx(c, r, d) \in {-1, 0, 1} /\ (Dx(c, r, d) = 0 <=> r[1] = d[1])
      /\ Apart(c.topo, r[1], d[1], NX) \in Int
      /\ r[1] = d[1] => Apart(c.topo, r[1], d[1], NX) = 0
  BY <1>1, <1>2, SignOfCoordinates DEF Dx
<1>4. /\ Dy(c, r, d) \in {-1, 0, 1} /\ (Dy(c, r, d) = 0 <=> r[2] = d[2])
      /\ Apart(c.topo, r[2], d[2], NY) \in Int
      /\ r[2] = d[2] => Apart(c.topo, r[2], d[2], NY) = 0
  BY <1>1, <1>2, SignOfCoordinates DEF Dy
<1>5. Distance(c, r, d) = Apart(c.topo, r[1], d[1], NX) + Apart(c.topo, r[2], d[2], NY) + 1
  BY <1>1 DEF Distance, Apart
<1>6. r = d <=> r[1] = d[1] /\ r[2] = d[2]
  BY <1>2
<1> QED
  BY <1>3, <1>4, <1>5, <1>6

\* A hop towards the destination.
LEMMA Hop ==
    ASSUME NEW c \in AllowedConfigs, NEW r \in Router, NEW d \in Router,
           NEW p \in PortX(Dx(c, r, d)) \cup PortY(Dy(c, r, d))
    PROVE  /\ p \in Dir
           /\ p = "EAST"  => Dx(c, r, d) = 1
           /\ p = "WEST"  => Dx(c, r, d) = -1
           /\ p = "SOUTH" => Dy(c, r, d) = 1
           /\ p = "NORTH" => Dy(c, r, d) = -1
           /\ Neighbor(r, p) \in Router
           /\ p \in DirX => /\ Dx(c, Neighbor(r, p), d) \in {Dx(c, r, d), 0}
                            /\ Dy(c, Neighbor(r, p), d) = Dy(c, r, d)
           /\ p \in DirY => /\ Dy(c, Neighbor(r, p), d) \in {Dy(c, r, d), 0}
                            /\ Dx(c, Neighbor(r, p), d) = Dx(c, r, d)
                            /\ Neighbor(r, p)[1] = r[1]
           /\ p = "EAST" /\ c.topo = "MESH" => Neighbor(r, p)[1] = r[1] + 1
           /\ Distance(c, Neighbor(r, p), d) = Distance(c, r, d) - 1
<1> DEFINE e == Neighbor(r, p)
<1>1. c.topo \in {"MESH", "TORUS"}
  BY DEF AllowedConfigs, Config
<1>2. /\ r = <<r[1], r[2]>> /\ r[1] \in 0 .. NX - 1 /\ r[2] \in 0 .. NY - 1
      /\ d = <<d[1], d[2]>> /\ d[1] \in 0 .. NX - 1 /\ d[2] \in 0 .. NY - 1
      /\ NX \in Nat \ {0} /\ NY \in Nat \ {0}
  BY Coordinates
<1>3. /\ p \in {"EAST", "WEST", "SOUTH", "NORTH"}
      /\ p = "EAST"  => Dx(c, r, d) = 1
      /\ p = "WEST"  => Dx(c, r, d) = -1
      /\ p = "SOUTH" => Dy(c, r, d) = 1
      /\ p = "NORTH" => Dy(c, r, d) = -1
  BY Signs DEF PortX, PortY
<1>4. /\ Apart(c.topo, r[1], d[1], NX) \in Int /\ Apart(c.topo, r[2], d[2], NY) \in Int
  BY <1>1, <1>2, SignOfCoordinates
<1>5. \A q \in Router : Distance(c, q, d) = Apart(c.topo, q[1], d[1], NX)
                                            + Apart(c.topo, q[2], d[2], NY) + 1
  BY Signs
<1>6. CASE p = "EAST"
  <2>1. e = <<RingNext(r[1], NX), r[2]>>
    BY <1>6 DEF Neighbor, RingNext
  <2>2. /\ RingNext(r[1], NX) \in 0 .. NX - 1
        /\ Sign(c.topo, RingNext(r[1], NX), d[1], NX) \in {0, 1}
        /\ Apart(c.topo, RingNext(r[1], NX), d[1], NX) = Apart(c.topo, r[1], d[1], NX) - 1
        /\ c.topo = "MESH" => RingNext(r[1], NX) = r[1] + 1
    BY <1>1, <1>2, <1>3, <1>6, StepPlus DEF Dx
  <2>3. e \in Router /\ e[1] = RingNext(r[1], NX) /\ e[2] = r[2]
    BY <1>2, <2>1, <2>2 DEF Router
  <2> HIDE DEF e
  <2>4. Distance(c, e, d) = Distance(c, r, d) - 1
    BY <1>4, <1>5, <2>2, <2>3
  <2>5. Dx(c, e, d) \in {0, 1} /\ Dy(c, e, d) = Dy(c, r, d)
    BY <2>2, <2>3 DEF Dx, Dy
  <2> QED
    BY <1>3, <1>6, <2>2, <2>3, <2>4, <2>5 DEF e, Dir, DirX, DirY
<1>7. CASE p = "WEST"
  <2>1. e = <<RingPrev(r[1], NX), r[2]>>
    BY <1>7 DEF Neighbor, RingPrev
  <2>2. /\ RingPrev(r[1], NX) \in 0 .. NX - 1
        /\ Sign(c.topo, RingPrev(r[1], NX), d[1], NX) \in {0, -1}
        /\ Apart(c.topo, RingPrev(r[1], NX), d[1], NX) = Apart(c.topo, r[1], d[1], NX) - 1
    BY <1>1, <1>2, <1>3, <1>7, StepMinus DEF Dx
  <2>3. e \in Router /\ e[1] = RingPrev(r[1], NX) /\ e[2] = r[2]
    BY <1>2, <2>1, <2>2 DEF Router
  <2> HIDE DEF e
  <2>4. Distance(c, e, d) = Distance(c, r, d) - 1
    BY <1>4, <1>5, <2>2, <2>3
  <2>5. Dx(c, e, d) \in {0, -1} /\ Dy(c, e, d) = Dy(c, r, d)
    BY <2>2, <2>3 DEF Dx, Dy
  <2> QED
    BY <1>3, <1>7, <2>3, <2>4, <2>5 DEF e, Dir, DirX, DirY
<1>8. CASE p = "SOUTH"
  <2>1. e = <<r[1], RingNext(r[2], NY)>>
    BY <1>8 DEF Neighbor, RingNext
  <2>2. /\ RingNext(r[2], NY) \in 0 .. NY - 1
        /\ Sign(c.topo, RingNext(r[2], NY), d[2], NY) \in {0, 1}
        /\ Apart(c.topo, RingNext(r[2], NY), d[2], NY) = Apart(c.topo, r[2], d[2], NY) - 1
    BY <1>1, <1>2, <1>3, <1>8, StepPlus DEF Dy
  <2>3. e \in Router /\ e[1] = r[1] /\ e[2] = RingNext(r[2], NY)
    BY <1>2, <2>1, <2>2 DEF Router
  <2> HIDE DEF e
  <2>4. Distance(c, e, d) = Distance(c, r, d) - 1
    BY <1>4, <1>5, <2>2, <2>3
  <2>5. Dy(c, e, d) \in {0, 1} /\ Dx(c, e, d) = Dx(c, r, d)
    BY <2>2, <2>3 DEF Dx, Dy
  <2> QED
    BY <1>3, <1>8, <2>3, <2>4, <2>5 DEF e, Dir, DirX, DirY
<1>9. CASE p = "NORTH"
  <2>1. e = <<r[1], RingPrev(r[2], NY)>>
    BY <1>9 DEF Neighbor, RingPrev
  <2>2. /\ RingPrev(r[2], NY) \in 0 .. NY - 1
        /\ Sign(c.topo, RingPrev(r[2], NY), d[2], NY) \in {0, -1}
        /\ Apart(c.topo, RingPrev(r[2], NY), d[2], NY) = Apart(c.topo, r[2], d[2], NY) - 1
    BY <1>1, <1>2, <1>3, <1>9, StepMinus DEF Dy
  <2>3. e \in Router /\ e[1] = r[1] /\ e[2] = RingPrev(r[2], NY)
    BY <1>2, <2>1, <2>2 DEF Router
  <2> HIDE DEF e
  <2>4. Distance(c, e, d) = Distance(c, r, d) - 1
    BY <1>4, <1>5, <2>2, <2>3
  <2>5. Dy(c, e, d) \in {0, -1} /\ Dx(c, e, d) = Dx(c, r, d)
    BY <2>2, <2>3 DEF Dx, Dy
  <2> QED
    BY <1>3, <1>9, <2>3, <2>4, <2>5 DEF e, Dir, DirX, DirY
<1> QED
  BY <1>3, <1>6, <1>7, <1>8, <1>9

-----------------------------------------------------------------------------
(* What the algorithms permit.                                             *)

LEMMA Algs ==
    ASSUME NEW c \in AllowedConfigs
    PROVE  /\ c.alg \in {"DOR", "WEST_FIRST", "NORTH_LAST", "NEGETIVE_FIRST", "ODD_EVEN",
                         "FULL_ADPT"}
           /\ c.alg # "DOR" => c.topo = "MESH"
  BY DEF AllowedConfigs, Config, Algorithms

\* In odd-even routing a packet that goes east in an even column, which it
\* has not started in, never has to turn there.
LEMMA OddEvenGoesOn ==
    ASSUME NEW c \in AllowedConfigs, c.alg = "ODD_EVEN", NEW r \in Router, NEW d \in Router,
           Dx(c, r, d) = 1, ~Odd(r[1]), d[1] - r[1] = 1
    PROVE  Odd(d[1])
  BY Coordinates DEF Odd

\* A packet may always go on, and only towards its destination.
LEMMA Permitted ==
    ASSUME NEW c \in AllowedConfigs, NEW r \in Router, NEW d \in Router, NEW n \in BOOLEAN
    PROVE  /\ r = d => PossibleOut(c, r, d, n) = {"LOCAL"}
           /\ r # d => /\ PossibleOut(c, r, d, n) # {}
                       /\ PossibleOut(c, r, d, n)
                             \subseteq PortX(Dx(c, r, d)) \cup PortY(Dy(c, r, d))
                       /\ PossibleOut(c, r, d, n) \subseteq Dir
<1> DEFINE dx == Dx(c, r, d)
           dy == Dy(c, r, d)
           out == PossibleOut(c, r, d, n)
<1>1. /\ dx \in {-1, 0, 1} /\ dy \in {-1, 0, 1}
      /\ dx = 0 /\ dy = 0 <=> r = d
  BY Signs
<1>2. out = IF dx = 0 /\ dy = 0 THEN {"LOCAL"}
            ELSE IF c.alg = "ODD_EVEN" THEN OddEvenOut(r, d, dx, dy, n)
            ELSE IF dx # 0 /\ OnlyX(c.alg, dx, dy) THEN PortX(dx)
            ELSE IF OnlyY(c.alg, dx, dy) THEN PortY(dy)
            ELSE PortX(dx) \cup PortY(dy)
  BY DEF PossibleOut, Dx, Dy
<1>3. c.alg = "ODD_EVEN" /\ dx = 1 /\ ~Odd(r[1]) => Odd(d[1]) \/ d[1] - r[1] # 1
  BY OddEvenGoesOn
<1> HIDE DEF dx, dy, out
<1>4. PortX(dx) \subseteq Dir /\ PortY(dy) \subseteq Dir
      /\ (dx # 0 => PortX(dx) # {}) /\ (dy # 0 => PortY(dy) # {})
  BY <1>1 DEF PortX, PortY, Dir, DirX, DirY
<1>5. CASE r = d
  BY <1>1, <1>2, <1>5 DEF out
<1>6. CASE r # d /\ c.alg = "ODD_EVEN"
  <2>1. out = OddEvenOut(r, d, dx, dy, n)
    BY <1>1, <1>2, <1>6
  <2>2. out # {} /\ out \subseteq PortX(dx) \cup PortY(dy)
    BY <1>1, <1>3, <1>4, <1>6, <2>1 DEF OddEvenOut
  <2> QED
    BY <1>4, <1>6, <2>2 DEF out, dx, dy
<1>7. CASE r # d /\ c.alg # "ODD_EVEN"
  <2>1. out # {} /\ out \subseteq PortX(dx) \cup PortY(dy)
    BY <1>1, <1>2, <1>4, <1>7 DEF OnlyY
  <2> QED
    BY <1>4, <1>7, <2>1 DEF out, dx, dy
<1> QED
  BY <1>5, <1>6, <1>7

\* Which permitted ports leave which directions.
LEMMA TurnRules ==
    ASSUME NEW c \in AllowedConfigs, NEW r \in Router, NEW d \in Router, NEW n \in BOOLEAN,
           NEW p \in PossibleOut(c, r, d, n)
    PROVE  /\ c.alg = "DOR" /\ p \in DirY => Dx(c, r, d) = 0
           /\ c.alg = "WEST_FIRST" /\ p \in DirY => Dx(c, r, d) # -1
           /\ c.alg = "NORTH_LAST" /\ p = "NORTH" => Dx(c, r, d) = 0
           /\ c.alg = "NEGETIVE_FIRST" /\ p = "NORTH" => Dx(c, r, d) # -1
           /\ c.alg = "NEGETIVE_FIRST" /\ p = "EAST" => Dy(c, r, d) # 1
           /\ c.alg = "ODD_EVEN" /\ p \in DirY /\ Dx(c, r, d) = -1 => ~Odd(r[1])
           /\ c.alg = "ODD_EVEN" /\ p \in DirY /\ Dx(c, r, d) = 1 => Odd(r[1]) \/ n
           /\ c.alg = "ODD_EVEN" /\ p = "EAST" =>
                 Dy(c, r, d) = 0 \/ Odd(d[1]) \/ d[1] - r[1] # 1
<1> DEFINE dx == Dx(c, r, d)
           dy == Dy(c, r, d)
           out == PossibleOut(c, r, d, n)
<1>1. dx \in {-1, 0, 1} /\ dy \in {-1, 0, 1}
  BY Signs
<1>2. out = IF dx = 0 /\ dy = 0 THEN {"LOCAL"}
            ELSE IF c.alg = "ODD_EVEN" THEN OddEvenOut(r, d, dx, dy, n)
            ELSE IF dx # 0 /\ OnlyX(c.alg, dx, dy) THEN PortX(dx)
            ELSE IF OnlyY(c.alg, dx, dy) THEN PortY(dy)
            ELSE PortX(dx) \cup PortY(dy)
  BY DEF PossibleOut, Dx, Dy
<1>3. p \in out
  OBVIOUS
<1> HIDE DEF dx, dy, out
<1>4. CASE c.alg = "ODD_EVEN"
  BY <1>1, <1>2, <1>3, <1>4 DEF OddEvenOut, PortX, PortY, DirX, DirY, dx, dy
<1>5. CASE c.alg # "ODD_EVEN"
  <2>1. /\ c.alg = "DOR" /\ p \in DirY => dx = 0
        /\ c.alg = "WEST_FIRST" /\ p \in DirY => dx # -1
        /\ c.alg = "NORTH_LAST" /\ p = "NORTH" => dx = 0
        /\ c.alg = "NEGETIVE_FIRST" /\ p = "NORTH" => dx # -1
        /\ c.alg = "NEGETIVE_FIRST" /\ p = "EAST" => dy # 1
    BY <1>1, <1>2, <1>3, <1>5 DEF OnlyX, OnlyY, PortX, PortY, DirX, DirY
  <2> QED
    BY <1>5, <2>1 DEF dx, dy
<1> QED
  BY <1>4, <1>5
\* The crossbar has every turn that a packet may take.
LEMMA TurnIsWired ==
    ASSUME NEW c \in AllowedConfigs, NEW r \in Router, NEW d \in Router,
           NEW in \in Dir \cup {"LOCAL"}, NEW class, Onward(c, r, d, in, class),
           in = "LOCAL" => r # d,
           NEW p \in PossibleOut(c, r, d, in = "LOCAL")
    PROVE  p \in Assignable(c, r, in)
<1>1. CASE r = d
  <2>1. p = "LOCAL"
    <3> DEFINE n == in = "LOCAL"
    <3>1. n \in BOOLEAN
      OBVIOUS
    <3>2. p \in PossibleOut(c, r, d, n)
      OBVIOUS
    <3> HIDE DEF n
    <3> QED
      BY <1>1, <3>1, <3>2, Permitted
  <2>2. "LOCAL" \notin NonAssignable(c, r, in)
    BY Algs DEF NonAssignable, DirX, DirY
  <2> QED
    BY <1>1, <2>1, <2>2 DEF Assignable
<1>2. CASE r # d
  <2>1. p \in Dir /\ p \in PortX(Dx(c, r, d)) \cup PortY(Dy(c, r, d))
    BY <1>2, Permitted
  <2>2. /\ p = "EAST"  => Dx(c, r, d) = 1
        /\ p = "WEST"  => Dx(c, r, d) = -1
        /\ p = "SOUTH" => Dy(c, r, d) = 1
        /\ p = "NORTH" => Dy(c, r, d) = -1
    BY <2>1, Hop
  <2>3. Dx(c, r, d) \in {-1, 0, 1} /\ Dy(c, r, d) \in {-1, 0, 1}
    BY Signs
  <2>4. p # in
    BY <2>1, <2>2 DEF Onward, Dir, DirX, DirY
  <2>5. ASSUME p \in NonAssignable(c, r, in) PROVE FALSE
    <3>1. CASE c.alg = "DOR"
      BY <2>1, <2>2, <2>5, <3>1 DEF NonAssignable, Onward, Dir, DirX, DirY
    <3>2. CASE c.alg = "WEST_FIRST"
      BY <2>1, <2>2, <2>5, <3>2 DEF NonAssignable, Onward, Dir, DirX, DirY
    <3>3. CASE c.alg = "NORTH_LAST"
      BY <2>1, <2>2, <2>5, <3>3 DEF NonAssignable, Onward, Dir, DirX, DirY
    <3>4. CASE c.alg = "NEGETIVE_FIRST"
      BY <2>1, <2>2, <2>5, <3>4 DEF NonAssignable, Onward, Dir, DirX, DirY
    <3>5. CASE c.alg = "ODD_EVEN"
      <4>1. CASE in \in DirY /\ Odd(r[1])
        BY <2>1, <2>2, <2>5, <3>5, <4>1 DEF NonAssignable, Onward, Dir, DirX, DirY
      <4>2. CASE in = "WEST" /\ ~Odd(r[1])
        <5>1. p \in DirY
          BY <2>5, <3>5, <4>2 DEF NonAssignable, DirY
        <5>2. Dy(c, r, d) # 0
          BY <2>2, <5>1 DEF DirY
        <5>3. Dx(c, r, d) = 1
          BY <2>3, <3>5, <4>2, <5>2 DEF Onward
        <5> QED
          BY <3>5, <4>2, <5>1, <5>3, TurnRules
      <4>3. CASE ~(in \in DirY /\ Odd(r[1])) /\ ~(in = "WEST" /\ ~Odd(r[1]))
        BY <2>5, <3>5, <4>3 DEF NonAssignable
      <4> QED
        BY <4>1, <4>2, <4>3
    <3>6. CASE c.alg = "FULL_ADPT"
      BY <2>5, <3>6 DEF NonAssignable
    <3> QED
      BY <3>1, <3>2, <3>3, <3>4, <3>5, <3>6, Algs
  <2> QED
    BY <2>1, <2>4, <2>5 DEF Assignable
<1> QED
  BY <1>1, <1>2

\* After a hop the way so far again says where the packet does not turn to.
LEMMA OnwardHop ==
    ASSUME NEW c \in AllowedConfigs, NEW r \in Router, NEW d \in Router, NEW n \in BOOLEAN,
           NEW p \in PossibleOut(c, r, d, n), p # "LOCAL", NEW class,
           FullAdaptive(c) /\ p \in DirY /\ class = "escape" => Dx(c, r, d) = 0
    PROVE  Onward(c, Neighbor(r, p), d, Opposite(p), class)
<1> DEFINE e == Neighbor(r, p)
           o == Opposite(p)
<1>1. r # d
  BY Permitted
<1>2. p \in PortX(Dx(c, r, d)) \cup PortY(Dy(c, r, d))
  BY <1>1, Permitted
<1>3. /\ p \in {"EAST", "WEST", "SOUTH", "NORTH"}
      /\ p = "EAST"  => Dx(c, r, d) = 1
      /\ p = "WEST"  => Dx(c, r, d) = -1
      /\ p = "SOUTH" => Dy(c, r, d) = 1
      /\ p = "NORTH" => Dy(c, r, d) = -1
      /\ e \in Router
      /\ p \in {"EAST", "WEST"} => /\ Dx(c, e, d) \in {Dx(c, r, d), 0}
                                   /\ Dy(c, e, d) = Dy(c, r, d)
      /\ p \in {"SOUTH", "NORTH"} => /\ Dy(c, e, d) \in {Dy(c, r, d), 0}
                                     /\ Dx(c, e, d) = Dx(c, r, d)
                                     /\ e[1] = r[1]
      /\ p = "EAST" /\ c.topo = "MESH" => e[1] = r[1] + 1
  BY <1>2, Hop DEF Dir, DirX, DirY
<1>4. /\ o = "EAST" <=> p = "WEST"
      /\ o = "WEST" <=> p = "EAST"
      /\ o = "SOUTH" <=> p = "NORTH"
      /\ o = "NORTH" <=> p = "SOUTH"
      /\ o \in DirY <=> p \in DirY
      /\ p \in DirY <=> p \in {"SOUTH", "NORTH"}
  BY <1>3 DEF Opposite, DirY
<1>5. /\ c.alg = "DOR" /\ p \in DirY => Dx(c, r, d) = 0
      /\ c.alg = "WEST_FIRST" /\ p \in DirY => Dx(c, r, d) # -1
      /\ c.alg = "NORTH_LAST" /\ p = "NORTH" => Dx(c, r, d) = 0
      /\ c.alg = "NEGETIVE_FIRST" /\ p = "NORTH" => Dx(c, r, d) # -1
      /\ c.alg = "NEGETIVE_FIRST" /\ p = "EAST" => Dy(c, r, d) # 1
      /\ c.alg = "ODD_EVEN" /\ p \in DirY /\ Dx(c, r, d) = -1 => ~Odd(r[1])
      /\ c.alg = "ODD_EVEN" /\ p = "EAST" => Dy(c, r, d) = 0 \/ Odd(d[1]) \/ d[1] - r[1] # 1
  BY TurnRules
<1>6. c.alg = "ODD_EVEN" /\ p = "EAST" /\ ~Odd(e[1]) => Dx(c, e, d) # 0 \/ Dy(c, e, d) = 0
  <2> SUFFICES ASSUME c.alg = "ODD_EVEN", p = "EAST", Dx(c, e, d) = 0, Dy(c, e, d) # 0
               PROVE  Odd(e[1])
    OBVIOUS
  <2>1. c.topo = "MESH"
    BY Algs
  <2>2. e[1] = d[1] /\ r[1] \in Int /\ d[1] \in Int
    BY <1>3, <2>1, SignOfCoordinates, Coordinates DEF Dx
  <2>3. d[1] - r[1] = 1
    BY <1>3, <2>1, <2>2
  <2> QED
    BY <1>3, <1>5, <2>2, <2>3
<1>7. Dx(c, r, d) \in {-1, 0, 1} /\ Dy(c, r, d) \in {-1, 0, 1}
  BY Signs
<1> HIDE DEF e, o
<1>8. Onward(c, e, d, o, class)
  BY <1>3, <1>4, <1>5, <1>6, <1>7 DEF Onward, FullAdaptive
<1> QED
  BY <1>8 DEF e, o

-----------------------------------------------------------------------------
(* The coded destination port.                                             *)

\* Bits a and b say in which dimensions the packet may go on; the code then
\* asks for the permitted ports if x and y say the right way there.
LEMMA CodeAsksFor ==
    ASSUME NEW c \in AllowedConfigs, NEW r \in Router, NEW d \in Router, NEW n \in BOOLEAN,
           NEW h \in Code,
           h.a <=> PossibleOut(c, r, d, n) \cap DirX # {},
           h.b <=> PossibleOut(c, r, d, n) \cap DirY # {},
           h.a => (h.x <=> Dx(c, r, d) = 1),
           h.b => (h.y <=> Dy(c, r, d) = -1)
    PROVE  Requested(h) = PossibleOut(c, r, d, n)
<1> DEFINE out == PossibleOut(c, r, d, n)
           dx == Dx(c, r, d)
           dy == Dy(c, r, d)
<1>1. dx \in {-1, 0, 1} /\ dy \in {-1, 0, 1}
  BY Signs
<1>2. \/ out = {"LOCAL"}
      \/ out # {} /\ out \subseteq PortX(dx) \cup PortY(dy)
  BY Permitted
<1>3. (h.a <=> out \cap DirX # {}) /\ (h.b <=> out \cap DirY # {})
      /\ (h.a => (h.x <=> dx = 1)) /\ (h.b => (h.y <=> dy = -1))
  OBVIOUS
<1> HIDE DEF out, dx, dy
<1>4. CASE out = {"LOCAL"}
  BY <1>3, <1>4 DEF Requested, DirX, DirY, out
<1>5. CASE out # {} /\ out \subseteq PortX(dx) \cup PortY(dy)
  <2>1. out = (out \cap DirX) \cup (out \cap DirY)
    BY <1>5 DEF PortX, PortY, DirX, DirY
  <2>2. h.a => out \cap DirX = {CodeX(h)}
    BY <1>1, <1>3, <1>5 DEF PortX, PortY, DirX, CodeX
  <2>3. h.b => out \cap DirY = {CodeY(h)}
    BY <1>1, <1>3, <1>5 DEF PortX, PortY, DirY, CodeY
  <2>4. h.a \/ h.b
    BY <1>3, <1>5, <2>1
  <2>5. Requested(h) = (IF h.a THEN {CodeX(h)} ELSE {}) \cup (IF h.b THEN {CodeY(h)} ELSE {})
    BY <2>4 DEF Requested
  <2>6. (IF h.a THEN {CodeX(h)} ELSE {}) = out \cap DirX
    BY <1>3, <2>2
  <2>7. (IF h.b THEN {CodeY(h)} ELSE {}) = out \cap DirY
    BY <1>3, <2>3
  <2> QED
    BY <2>1, <2>5, <2>6, <2>7 DEF out
<1> QED
  BY <1>2, <1>4, <1>5

LEMMA Encoded ==
    ASSUME NEW c \in AllowedConfigs, NEW r \in Router, NEW d \in Router, NEW n \in BOOLEAN
    PROVE  /\ Encode(c, r, d, n) \in Code
           /\ Requested(Encode(c, r, d, n)) = PossibleOut(c, r, d, n)
           /\ BitsKept(c, r, d, Encode(c, r, d, n))
<1> DEFINE h == Encode(c, r, d, n)
           out == PossibleOut(c, r, d, n)
           dx == Dx(c, r, d)
           dy == Dy(c, r, d)
<1>1. h = [x |-> IF Deterministic(c) THEN "EAST" \in out ELSE dx = 1,
           y |-> BitY(c, out, dy),
           a |-> out \cap DirX # {},
           b |-> out \cap DirY # {}]
  BY DEF Encode, Dx, Dy
<1>2. ~Deterministic(c) => c.topo = "MESH"
  BY Algs DEF Deterministic
<1>3. dx \in {-1, 0, 1} /\ dy \in {-1, 0, 1}
  BY Signs
<1>4. out = {"LOCAL"} \/ out \subseteq PortX(dx) \cup PortY(dy)
  BY Permitted
<1> HIDE DEF h, out, dx, dy
<1>5. h \in Code
  <2>1. h.x \in BOOLEAN /\ h.y \in BOOLEAN
    <3>1. CASE Deterministic(c)
      <4>1. h.x = ("EAST" \in out) /\ h.y = ("NORTH" \in out)
        BY <1>1, <3>1 DEF BitY
      <4>2. h.x \in BOOLEAN
        BY <4>1
      <4>3. h.y \in BOOLEAN
        BY <4>1
      <4> QED
        BY <4>2, <4>3
    <3>2. CASE ~Deterministic(c)
      <4>1. h.x = (dx = 1) /\ h.y = (dy = -1)
        BY <1>1, <1>2, <3>2 DEF BitY
      <4> QED
        BY <4>1, Zenon
    <3> QED
      BY <3>1, <3>2
  <2>2. h.a \in BOOLEAN /\ h.b \in BOOLEAN
    BY <1>1, Zenon
  <2>3. h = [x |-> h.x, y |-> h.y, a |-> h.a, b |-> h.b]
    BY <1>1
  <2> QED
    BY <2>1, <2>2, <2>3 DEF Code
<1>6. (h.a <=> out \cap DirX # {}) /\ (h.b <=> out \cap DirY # {})
  BY <1>1
<1>7. h.x <=> (IF Deterministic(c) THEN "EAST" \in out ELSE dx = 1)
  BY <1>1
<1>8. h.y <=> (IF Deterministic(c) THEN "NORTH" \in out ELSE dy = -1)
  BY <1>1, <1>2 DEF BitY
<1>9. h.a => (h.x <=> dx = 1)
  BY <1>3, <1>4, <1>6, <1>7 DEF PortX, PortY, DirX
<1>10. h.b => (h.y <=> dy = -1)
  BY <1>3, <1>4, <1>6, <1>8 DEF PortX, PortY, DirY
<1>11. Requested(h) = out
  BY <1>5, <1>6, <1>9, <1>10, CodeAsksFor DEF out, dx, dy
<1>12. BitsKept(c, r, d, h)
  BY <1>7, <1>8 DEF BitsKept, dx, dy
<1> QED
  BY <1>5, <1>11, <1>12 DEF h, out

\* The code for the next router, computed from the header of this one.
LEMMA LookedAhead ==
    ASSUME NEW c \in AllowedConfigs, NEW r \in Router, NEW d \in Router, NEW n \in BOOLEAN,
           NEW h \in Code, BitsKept(c, r, d, h),
           NEW p \in PossibleOut(c, r, d, n), p # "LOCAL"
    PROVE  /\ LookAhead(c, r, d, h, p) \in Code
           /\ Requested(LookAhead(c, r, d, h, p)) = PossibleOut(c, Neighbor(r, p), d, FALSE)
           /\ BitsKept(c, Neighbor(r, p), d, LookAhead(c, r, d, h, p))
<1> DEFINE e == Neighbor(r, p)
           next == Encode(c, e, d, FALSE)
           out == PossibleOut(c, e, d, FALSE)
           l == LookAhead(c, r, d, h, p)
<1>1. p \in PortX(Dx(c, r, d)) \cup PortY(Dy(c, r, d))
  BY Permitted
<1>2. /\ e \in Router
      /\ Dx(c, e, d) \in {Dx(c, r, d), 0} /\ Dy(c, e, d) \in {Dy(c, r, d), 0}
  BY <1>1, Hop DEF Dir
<1>3. next \in Code /\ Requested(next) = out /\ BitsKept(c, e, d, next)
  BY <1>2, Encoded
<1>4. CASE Deterministic(c)
  BY <1>3, <1>4 DEF LookAhead
<1>5. CASE ~Deterministic(c)
  <2>1. l = [next EXCEPT !.x = IF next.a \/ next.b THEN h.x ELSE ~h.x,
                         !.y = IF next.a \/ next.b THEN h.y ELSE ~h.y]
    BY <1>5 DEF LookAhead
  <2>2. (next.a <=> out \cap DirX # {}) /\ (next.b <=> out \cap DirY # {})
    BY DEF Encode
  <2> HIDE DEF next, l
  <2>3. /\ l \in Code /\ l.a = next.a /\ l.b = next.b
        /\ next.a \/ next.b => l.x = h.x /\ l.y = h.y
    BY <1>3, <2>1 DEF Code
  <2>4. e = d => ~next.a /\ ~next.b
    BY <1>2, <2>2, Permitted DEF DirX, DirY
  <2>5. e # d => next.a \/ next.b
    <3> SUFFICES ASSUME e # d PROVE out \cap DirX # {} \/ out \cap DirY # {}
      BY <2>2
    <3>1. out # {} /\ out \subseteq Dir
      BY <1>2, Permitted
    <3> QED
      BY <3>1 DEF Dir
  <2>6. e = d => Dx(c, e, d) = 0 /\ Dy(c, e, d) = 0
    BY <1>2, Signs
  <2>7. /\ Dx(c, e, d) # 0 => (l.x <=> Dx(c, e, d) = 1)
        /\ Dy(c, e, d) # 0 => (l.y <=> Dy(c, e, d) = -1)
    BY <1>2, <1>5, <2>3, <2>5, <2>6 DEF BitsKept
  <2>8. BitsKept(c, e, d, l)
    BY <2>7 DEF BitsKept
  <2>9. l.a => Dx(c, e, d) # 0
    <3> SUFFICES ASSUME out \cap DirX # {} PROVE Dx(c, e, d) # 0
      BY <2>2, <2>3
    <3>1. e # d
      BY <1>2, Permitted DEF DirX
    <3>2. out \subseteq PortX(Dx(c, e, d)) \cup PortY(Dy(c, e, d))
      BY <1>2, <3>1, Permitted
    <3> QED
      BY <3>2 DEF PortX, PortY, DirX
  <2>10. l.b => Dy(c, e, d) # 0
    <3> SUFFICES ASSUME out \cap DirY # {} PROVE Dy(c, e, d) # 0
      BY <2>2, <2>3
    <3>1. e # d
      BY <1>2, Permitted DEF DirY
    <3>2. out \subseteq PortX(Dx(c, e, d)) \cup PortY(Dy(c, e, d))
      BY <1>2, <3>1, Permitted
    <3> QED
      BY <3>2 DEF PortX, PortY, DirY
  <2>11. Requested(l) = out
    <3> DEFINE no == FALSE
               out2 == PossibleOut(c, e, d, no)
    <3>1. no \in BOOLEAN /\ e \in Router /\ l \in Code
      BY <1>2, <2>3
    <3>2. (l.a <=> out2 \cap DirX # {}) /\ (l.b <=> out2 \cap DirY # {})
      BY <2>2, <2>3
    <3>3. (l.a => (l.x <=> Dx(c, e, d) = 1)) /\ (l.b => (l.y <=> Dy(c, e, d) = -1))
      BY <2>7, <2>9, <2>10
    <3>4. out2 = out
      OBVIOUS
    <3> HIDE DEF no, e
    <3>5. Requested(l) = out2
      BY <3>1, <3>2, <3>3, CodeAsksFor
    <3> QED
      BY <3>4, <3>5
  <2> QED
    BY <2>3, <2>8, <2>11 DEF l
<1> QED
  BY <1>4, <1>5
-----------------------------------------------------------------------------
(* The grants.                                                             *)

\* A code that asks for permitted ports names the way in each dimension.
LEMMA AskedPorts ==
    ASSUME NEW c \in AllowedConfigs, NEW r \in Router, NEW d \in Router, NEW n \in BOOLEAN,
           NEW h \in Code, Requested(h) = PossibleOut(c, r, d, n)
    PROVE  /\ h.a => CodeX(h) \in PossibleOut(c, r, d, n)
           /\ h.b => CodeY(h) \in PossibleOut(c, r, d, n)
           /\ ~h.a /\ ~h.b => PossibleOut(c, r, d, n) = {"LOCAL"}
           /\ h.a => Dx(c, r, d) = (IF h.x THEN 1 ELSE -1)
           /\ h.b => Dy(c, r, d) = (IF h.y THEN -1 ELSE 1)
           /\ Deterministic(c) => ~(h.a /\ h.b)
           /\ FullAdaptive(c) /\ ~h.a => Dx(c, r, d) = 0
<1> DEFINE out == PossibleOut(c, r, d, n)
           dx == Dx(c, r, d)
           dy == Dy(c, r, d)
<1>1. dx \in {-1, 0, 1} /\ dy \in {-1, 0, 1}
  BY Signs
<1>2. out = {"LOCAL"} \/ out \subseteq PortX(dx) \cup PortY(dy)
  BY Permitted
<1>3. out = Requested(h)
  OBVIOUS
<1>4. \A p \in out : Deterministic(c) /\ p \in DirY => dx = 0
  BY TurnRules DEF Deterministic
<1>5. FullAdaptive(c) /\ dx # 0 => out = PortX(dx) \cup PortY(dy)
  BY DEF PossibleOut, FullAdaptive, OnlyX, OnlyY, Dx, Dy
<1> HIDE DEF out, dx, dy
<1>6. h.a => CodeX(h) \in out
  BY <1>3 DEF Requested
<1>7. h.b => CodeY(h) \in out
  BY <1>3 DEF Requested
<1>8. ~h.a /\ ~h.b => out = {"LOCAL"}
  BY <1>3 DEF Requested
<1>9. h.a => dx = (IF h.x THEN 1 ELSE -1)
  BY <1>1, <1>2, <1>6 DEF CodeX, PortX, PortY
<1>10. h.b => dy = (IF h.y THEN -1 ELSE 1)
  BY <1>1, <1>2, <1>7 DEF CodeY, PortX, PortY
<1>11. Deterministic(c) => ~(h.a /\ h.b)
  BY <1>4, <1>7, <1>9 DEF CodeY, DirY
<1>12. FullAdaptive(c) /\ ~h.a => dx = 0
  <2> SUFFICES ASSUME FullAdaptive(c), ~h.a, dx # 0 PROVE FALSE
    OBVIOUS
  <2>1. "EAST" \in out \/ "WEST" \in out
    BY <1>1, <1>5 DEF PortX
  <2>2. out \subseteq {"LOCAL", "NORTH", "SOUTH"}
    BY <1>3 DEF Requested, CodeY
  <2> QED
    BY <2>1, <2>2
<1> QED
  BY <1>6, <1>7, <1>8, <1>9, <1>10, <1>11, <1>12 DEF out, dx, dy

\* A code with one bit asks for one port.
LEMMA OneBit ==
    ASSUME NEW h \in Code
    PROVE  /\ h.a /\ ~h.b => Requested(h) = {CodeX(h)}
           /\ h.b /\ ~h.a => Requested(h) = {CodeY(h)}
           /\ ~h.a /\ ~h.b => Requested(h) = {"LOCAL"}
  BY DEF Requested

LEMMA OnePort ==
    ASSUME NEW h \in Code, NEW p, p # "LOCAL", Requested(h) = {p}
    PROVE  \/ h.a /\ ~h.b /\ p = CodeX(h)
           \/ h.b /\ ~h.a /\ p = CodeY(h)
<1>1. CASE h.a /\ h.b
  <2>1. CodeX(h) \in Requested(h) /\ CodeY(h) \in Requested(h)
    BY <1>1 DEF Requested
  <2>2. CodeX(h) # CodeY(h)
    BY DEF CodeX, CodeY
  <2> QED
    BY <2>1, <2>2
<1>2. CASE h.a /\ ~h.b
  BY <1>2, OneBit
<1>3. CASE h.b /\ ~h.a
  BY <1>3, OneBit
<1>4. CASE ~h.a /\ ~h.b
  BY <1>4, OneBit
<1> QED
  BY <1>1, <1>2, <1>3, <1>4

\* The bit that a grant does not clear is that of the granted port.
LEMMA Cleared ==
    ASSUME NEW c \in AllowedConfigs, cfg = c, NEW h \in Code, code = h,
           Deterministic(c) => ~(h.a /\ h.b)
    PROVE  /\ h.a => /\ ClearOther(FALSE) \in Code
                     /\ Requested(ClearOther(FALSE)) = {CodeX(h)}
           /\ h.b => /\ ClearOther(TRUE) \in Code
                     /\ Requested(ClearOther(TRUE)) = {CodeY(h)}
           /\ ~h.a => ClearOther(TRUE) = h
           /\ ~h.b => ClearOther(FALSE) = h
           /\ ClearOther(FALSE).x = h.x /\ ClearOther(FALSE).y = h.y
           /\ ClearOther(TRUE).x = h.x /\ ClearOther(TRUE).y = h.y
<1>1. CASE Deterministic(c)
  BY <1>1, OneBit DEF ClearOther
<1>2. CASE ~Deterministic(c)
  <2> DEFINE noA == [h EXCEPT !.a = FALSE]
             noB == [h EXCEPT !.b = FALSE]
  <2>1. ClearOther(FALSE) = noB /\ ClearOther(TRUE) = noA
    BY <1>2 DEF ClearOther
  <2>2. /\ noA \in Code /\ noB \in Code
        /\ noA.x = h.x /\ noA.y = h.y /\ noA.b = h.b /\ noA.a = FALSE
        /\ noB.x = h.x /\ noB.y = h.y /\ noB.a = h.a /\ noB.b = FALSE
        /\ ~h.a => noA = h
        /\ ~h.b => noB = h
    BY DEF Code
  <2> HIDE DEF noA, noB
  <2>3. h.a => Requested(noB) = {CodeX(h)}
    BY <2>2, OneBit DEF CodeX
  <2>4. h.b => Requested(noA) = {CodeY(h)}
    BY <2>2, OneBit DEF CodeY
  <2> QED
    BY <2>1, <2>2, <2>3, <2>4
<1> QED
  BY <1>1, <1>2
\* What the invariant says of a packet that has no OVC yet.
LEMMA Asking ==
    ASSUME Configs \subseteq AllowedConfigs, RouteInv, ovc = None
    PROVE  /\ code.a => CodeX(code) \in PossibleOut(cfg, here, dest, via = "LOCAL")
           /\ code.b => CodeY(code) \in PossibleOut(cfg, here, dest, via = "LOCAL")
           /\ ~code.a /\ ~code.b =>
                 PossibleOut(cfg, here, dest, via = "LOCAL") = {"LOCAL"}
           /\ code.a => Dx(cfg, here, dest) = (IF code.x THEN 1 ELSE -1)
           /\ code.b => Dy(cfg, here, dest) = (IF code.y THEN -1 ELSE 1)
           /\ Deterministic(cfg) => ~(code.a /\ code.b)
           /\ FullAdaptive(cfg) /\ ~code.a => Dx(cfg, here, dest) = 0
           /\ code.a => CodeX(code) # via
           /\ code.b => CodeY(code) # via
<1> DEFINE n == via = "LOCAL"
<1>1. /\ cfg \in AllowedConfigs /\ here \in Router /\ dest \in Router /\ code \in Code
      /\ n \in BOOLEAN
  BY DEF RouteInv, TypeOK
<1>2. Requested(code) = PossibleOut(cfg, here, dest, n)
  BY DEF RouteInv
<1> HIDE DEF n
<1>3. /\ code.a => CodeX(code) \in PossibleOut(cfg, here, dest, n)
      /\ code.b => CodeY(code) \in PossibleOut(cfg, here, dest, n)
      /\ ~code.a /\ ~code.b => PossibleOut(cfg, here, dest, n) = {"LOCAL"}
      /\ code.a => Dx(cfg, here, dest) = (IF code.x THEN 1 ELSE -1)
      /\ code.b => Dy(cfg, here, dest) = (IF code.y THEN -1 ELSE 1)
      /\ Deterministic(cfg) => ~(code.a /\ code.b)
      /\ FullAdaptive(cfg) /\ ~code.a => Dx(cfg, here, dest) = 0
  BY <1>1, <1>2, AskedPorts
<1>4. Onward(cfg, here, dest, via, vc)
  BY DEF RouteInv
<1>5. code.a => CodeX(code) # via
  BY <1>3, <1>4 DEF Onward, CodeX
<1>6. code.b => CodeY(code) # via
  BY <1>3, <1>4 DEF Onward, CodeY
<1> QED
  BY <1>3, <1>5, <1>6 DEF n

\* The port that is decoded beside sel, the dimension that sel chooses, and the
\* bit that is cleared with it agree.
LEMMA Selected ==
    ASSUME Configs \subseteq AllowedConfigs, RouteInv, ovc = None
    PROVE  /\ ClearOther(Sel) \in Code
           /\ Requested(ClearOther(Sel)) = {OutPort}
           /\ OutPort \in PossibleOut(cfg, here, dest, via = "LOCAL")
           /\ FullAdaptive(cfg) /\ OutPort \in DirY /\ ~EscapeForbidden
                 => Dx(cfg, here, dest) = 0
           /\ BitsKept(cfg, here, dest, ClearOther(Sel))
<1> DEFINE out == PossibleOut(cfg, here, dest, via = "LOCAL")
<1>1. /\ cfg \in AllowedConfigs /\ code \in Code /\ BitsKept(cfg, here, dest, code)
      /\ via \in Dir \cup {"LOCAL"} /\ pre \in BOOLEAN /\ swap \in BOOLEAN
  BY DEF RouteInv, TypeOK
<1>2. /\ code.a => CodeX(code) \in out
      /\ code.b => CodeY(code) \in out
      /\ ~code.a /\ ~code.b => out = {"LOCAL"}
      /\ Deterministic(cfg) => ~(code.a /\ code.b)
      /\ FullAdaptive(cfg) /\ ~code.a => Dx(cfg, here, dest) = 0
      /\ code.a => CodeX(code) # via
      /\ code.b => CodeY(code) # via
  BY Asking
<1>3. /\ code.a => /\ ClearOther(FALSE) \in Code
                   /\ Requested(ClearOther(FALSE)) = {CodeX(code)}
      /\ code.b => /\ ClearOther(TRUE) \in Code
                   /\ Requested(ClearOther(TRUE)) = {CodeY(code)}
      /\ ~code.a => ClearOther(TRUE) = code
      /\ ~code.b => ClearOther(FALSE) = code
      /\ ClearOther(FALSE).x = code.x /\ ClearOther(FALSE).y = code.y
      /\ ClearOther(TRUE).x = code.x /\ ClearOther(TRUE).y = code.y
  BY <1>1, <1>2, Cleared
<1> HIDE DEF out
<1>4. /\ BitsKept(cfg, here, dest, ClearOther(FALSE))
      /\ BitsKept(cfg, here, dest, ClearOther(TRUE))
  BY <1>1, <1>3 DEF BitsKept
<1>5. CASE code.a /\ code.b
  <2>1. via = "EAST" => ~code.x
    BY <1>2, <1>5 DEF CodeX
  <2>2. via = "WEST" => code.x
    BY <1>2, <1>5 DEF CodeX
  <2>3. via = "NORTH" => ~code.y
    BY <1>2, <1>5 DEF CodeY
  <2>4. via = "SOUTH" => code.y
    BY <1>2, <1>5 DEF CodeY
  <2>5. PreSelPerPort <=> pre
    BY <2>1, <2>2, <2>3, <2>4 DEF PreSelPerPort
  <2>6. Sel <=> (pre # swap)
    <3>1. Sel <=> PreSelPerPort # swap
      BY <1>5 DEF Sel
    <3>2. CASE pre
      BY <1>1, <2>5, <3>1, <3>2
    <3>3. CASE ~pre
      BY <1>1, <2>5, <3>1, <3>3
    <3> QED
      BY <3>2, <3>3
  <2>7. CASE pre # swap
    <3>1. ClearOther(Sel) = ClearOther(TRUE)
      BY <2>6, <2>7 DEF ClearOther
    <3>2. OutPort = CodeY(code)
      BY <1>5, <2>7 DEF OutPort
    <3>3. FullAdaptive(cfg) => EscapeForbidden
      BY <1>5, <2>6, <2>7 DEF EscapeForbidden
    <3> QED
      BY <1>2, <1>3, <1>4, <1>5, <3>1, <3>2, <3>3 DEF out
  <2>8. CASE pre = swap
    <3>1. ClearOther(Sel) = ClearOther(FALSE)
      BY <2>6, <2>8 DEF ClearOther
    <3>2. OutPort = CodeX(code)
      BY <1>5, <2>8 DEF OutPort
    <3>3. OutPort \notin DirY
      BY <3>2 DEF CodeX, DirY
    <3> QED
      BY <1>2, <1>3, <1>4, <1>5, <3>1, <3>2, <3>3 DEF out
  <2> QED
    BY <2>7, <2>8
<1>6. CASE code.a /\ ~code.b
  <2>1. ClearOther(Sel) = ClearOther(FALSE)
    BY <1>6 DEF Sel, ClearOther
  <2>2. Requested(code) = {CodeX(code)}
    BY <1>1, <1>6, OneBit
  <2>3. OutPort = CodeX(code)
    BY <1>6, <2>2 DEF OutPort
  <2>4. OutPort \notin DirY
    BY <2>3 DEF CodeX, DirY
  <2> QED
    BY <1>2, <1>3, <1>4, <1>6, <2>1, <2>3, <2>4 DEF out
<1>7. CASE code.b /\ ~code.a
  <2>1. ClearOther(Sel) = ClearOther(TRUE)
    BY <1>7 DEF Sel, ClearOther
  <2>2. Requested(code) = {CodeY(code)}
    BY <1>1, <1>7, OneBit
  <2>3. OutPort = CodeY(code)
    BY <1>7, <2>2 DEF OutPort
  <2> QED
    BY <1>2, <1>3, <1>4, <1>7, <2>1, <2>3 DEF out
<1>8. CASE ~code.a /\ ~code.b
  <2>1. ClearOther(Sel) = code
    BY <1>3, <1>8 DEF ClearOther
  <2>2. Requested(code) = {"LOCAL"}
    BY <1>1, <1>8, OneBit
  <2>3. OutPort = "LOCAL"
    BY <1>8, <2>2 DEF OutPort
  <2> QED
    BY <1>1, <1>2, <1>8, <2>1, <2>2, <2>3 DEF out, DirY
<1> QED
  BY <1>5, <1>6, <1>7, <1>8

-----------------------------------------------------------------------------
(* The steps.                                                              *)

LEMMA RouteInit ==
    ASSUME Configs \subseteq AllowedConfigs, Init
    PROVE  RouteInv
<1>1. /\ cfg \in AllowedConfigs /\ src \in Router /\ dest \in Router /\ here = src
      /\ via = "LOCAL" /\ here # dest /\ ovc = None /\ hops = 0
      /\ vc \in VcClass(cfg) /\ arriving = TRUE /\ swap = FALSE
      /\ pre \in PreSelections(cfg) /\ avcFree \in AvcStates(cfg)
      /\ code = Encode(cfg, here, dest, TRUE)
  BY DEF Init
<1>2. pre \in BOOLEAN /\ avcFree \in BOOLEAN
  BY <1>1 DEF PreSelections, AvcStates
<1>3. TRUE \in BOOLEAN /\ (via = "LOCAL") = TRUE
  BY <1>1
<1>4. /\ code \in Code /\ Requested(code) = PossibleOut(cfg, here, dest, TRUE)
      /\ BitsKept(cfg, here, dest, code)
  <2> DEFINE yes == TRUE
  <2>1. yes \in BOOLEAN
    OBVIOUS
  <2>2. code = Encode(cfg, here, dest, yes)
    BY <1>1
  <2> HIDE DEF yes
  <2>3. /\ code \in Code /\ Requested(code) = PossibleOut(cfg, here, dest, yes)
        /\ BitsKept(cfg, here, dest, code)
    BY <1>1, <2>1, <2>2, Encoded
  <2> QED
    BY <2>3 DEF yes
<1>5. Distance(cfg, here, dest) \in Int
  BY <1>1, Signs
<1>6. Onward(cfg, here, dest, via, vc)
  BY <1>1 DEF Onward, DirY
<1>7. cfg \in Configs
  BY DEF Init
<1>8. TypeOK
  BY <1>1, <1>2, <1>4, <1>7 DEF TypeOK
<1>9. hops + Distance(cfg, here, dest) = Distance(cfg, src, dest)
  BY <1>1, <1>5
<1>10. Requested(code) = PossibleOut(cfg, here, dest, via = "LOCAL")
  BY <1>3, <1>4
<1> QED
  BY <1>1, <1>4, <1>6, <1>8, <1>9, <1>10 DEF RouteInv

\* The place of the packet and the code of its header, as the invariant has
\* them, while an OVC is granted.
LEMMA GrantStep ==
    ASSUME Configs \subseteq AllowedConfigs, RouteInv, ovc = None,
           NEW p \in PossibleOut(cfg, here, dest, via = "LOCAL"),
           NEW v \in VcClass(cfg),
           FullAdaptive(cfg) /\ p \in DirY /\ v = "escape" => Dx(cfg, here, dest) = 0,
           NEW h \in Code, Requested(h) = {p}, BitsKept(cfg, here, dest, h),
           ovc' = [port |-> p, vc |-> v], code' = h, arriving' = FALSE,
           UNCHANGED <<cfg, src, dest, here, via, vc, pre, swap, avcFree, hops>>
    PROVE  RouteInv'
<1>1. /\ cfg \in AllowedConfigs /\ here \in Router /\ dest \in Router
  BY DEF RouteInv, TypeOK
<1>2. v \in {"escape", "adaptive"}
  BY DEF VcClass
<1>3. p \in Dir \cup {"LOCAL"}
  <2> DEFINE n == via = "LOCAL"
  <2>1. n \in BOOLEAN /\ p \in PossibleOut(cfg, here, dest, n)
    OBVIOUS
  <2> HIDE DEF n
  <2> QED
    BY <1>1, <2>1, Permitted
<1>4. ovc' \in Ovc /\ ovc' # None
  BY <1>2, <1>3, NoneAssumption DEF Ovc
<1>5. TypeOK'
  BY <1>4 DEF RouteInv, TypeOK
<1>6. ovc'.port = p /\ ovc'.vc = v
  OBVIOUS
<1>7. Onward(cfg, here, dest, via, vc)'
  BY DEF RouteInv
<1>8. BitsKept(cfg, here, dest, code)'
  OBVIOUS
<1>9. (via = "LOCAL" => here # dest)'
  BY DEF RouteInv
<1>10. (hops + Distance(cfg, here, dest) = Distance(cfg, src, dest))'
  BY DEF RouteInv
<1>11. /\ Requested(code') = {ovc.port}'
       /\ (ovc.port \in PossibleOut(cfg, here, dest, via = "LOCAL"))'
       /\ (ovc.vc \in VcClass(cfg))'
  BY <1>6
<1>12. (FullAdaptive(cfg) /\ ovc.port \in DirY /\ ovc.vc = "escape"
           => Dx(cfg, here, dest) = 0)'
  BY <1>6
<1> QED
  BY <1>4, <1>5, <1>7, <1>8, <1>9, <1>10, <1>11, <1>12 DEF RouteInv

LEMMA SsaGrantStep ==
    ASSUME Configs \subseteq AllowedConfigs, RouteInv, SsaGrant
    PROVE  RouteInv'
<1> DEFINE out == PossibleOut(cfg, here, dest, via = "LOCAL")
           p == Opposite(via)
<1>1. /\ arriving /\ via # "LOCAL"
      /\ ~(FullAdaptive(cfg) /\ via \in DirY /\ vc = "adaptive")
      /\ IF via \in DirX THEN code.a ELSE code.b
      /\ ovc' = [port |-> p, vc |-> vc]
      /\ code' = ClearOther(via \in DirY)
      /\ arriving' = FALSE
      /\ UNCHANGED <<cfg, src, dest, here, via, vc, pre, swap, avcFree, hops>>
  BY DEF SsaGrant
<1>2. /\ cfg \in AllowedConfigs /\ code \in Code /\ BitsKept(cfg, here, dest, code)
      /\ via \in Dir /\ ovc = None /\ vc \in VcClass(cfg)
      /\ Onward(cfg, here, dest, via, vc)
  BY <1>1 DEF RouteInv, TypeOK
<1>3. /\ code.a => CodeX(code) \in out
      /\ code.b => CodeY(code) \in out
      /\ Deterministic(cfg) => ~(code.a /\ code.b)
      /\ code.a => CodeX(code) # via
      /\ code.b => CodeY(code) # via
  BY <1>2, Asking
<1>4. /\ code.a => /\ ClearOther(FALSE) \in Code
                   /\ Requested(ClearOther(FALSE)) = {CodeX(code)}
      /\ code.b => /\ ClearOther(TRUE) \in Code
                   /\ Requested(ClearOther(TRUE)) = {CodeY(code)}
      /\ ClearOther(FALSE).x = code.x /\ ClearOther(FALSE).y = code.y
      /\ ClearOther(TRUE).x = code.x /\ ClearOther(TRUE).y = code.y
  BY <1>2, <1>3, Cleared
<1>5. /\ BitsKept(cfg, here, dest, ClearOther(FALSE))
      /\ BitsKept(cfg, here, dest, ClearOther(TRUE))
  BY <1>2, <1>4 DEF BitsKept
<1> HIDE DEF out
<1>6. CASE via \in DirX
  <2>1. p = CodeX(code)
    BY <1>1, <1>3, <1>6 DEF CodeX, DirX, Opposite
  <2>2. via \notin DirY /\ p \notin DirY
    BY <1>6, <2>1 DEF DirX, DirY, CodeX
  <2>3. code' = ClearOther(FALSE)
    BY <1>1, <2>2 DEF ClearOther
  <2> HIDE DEF p
  <2>4. /\ p \in out /\ ClearOther(FALSE) \in Code /\ Requested(ClearOther(FALSE)) = {p}
    BY <1>1, <1>3, <1>4, <1>6, <2>1
  <2> QED
    BY <1>1, <1>2, <1>5, <2>2, <2>3, <2>4, GrantStep DEF out
<1>7. CASE via \in DirY
  <2>1. via \notin DirX
    BY <1>7 DEF DirX, DirY
  <2>2. p = CodeY(code)
    BY <1>1, <1>3, <1>7, <2>1 DEF CodeY, DirY, Opposite
  <2>3. code' = ClearOther(TRUE)
    BY <1>1, <1>7 DEF ClearOther
  <2>4. FullAdaptive(cfg) => Dx(cfg, here, dest) = 0
    BY <1>1, <1>2, <1>7 DEF VcClass, Onward, FullAdaptive
  <2> HIDE DEF p
  <2>5. /\ p \in out /\ ClearOther(TRUE) \in Code /\ Requested(ClearOther(TRUE)) = {p}
    BY <1>1, <1>3, <1>4, <2>1, <2>2
  <2> QED
    BY <1>1, <1>2, <1>5, <2>3, <2>4, <2>5, GrantStep DEF out
<1> QED
  BY <1>2, <1>6, <1>7 DEF Dir
LEMMA VsaGrantStep ==
    ASSUME Configs \subseteq AllowedConfigs, RouteInv, NEW v, VsaGrant(v)
    PROVE  RouteInv'
<1> DEFINE p == OutPort
           h == ClearOther(Sel)
<1>1. /\ ovc = None /\ v \in VcClass(cfg) /\ ~arriving
      /\ v = "escape" => ~EscapeForbidden
      /\ ovc' = [port |-> p, vc |-> v]
      /\ code' = h
      /\ UNCHANGED <<cfg, src, dest, here, via, vc, arriving, pre, swap, avcFree, hops>>
  BY DEF VsaGrant
<1>2. /\ h \in Code /\ Requested(h) = {p}
      /\ p \in PossibleOut(cfg, here, dest, via = "LOCAL")
      /\ FullAdaptive(cfg) /\ p \in DirY /\ ~EscapeForbidden => Dx(cfg, here, dest) = 0
      /\ BitsKept(cfg, here, dest, h)
  BY <1>1, Selected
<1>3. FullAdaptive(cfg) /\ p \in DirY /\ v = "escape" => Dx(cfg, here, dest) = 0
  BY <1>1, <1>2
<1>4. arriving' = FALSE
  BY <1>1 DEF RouteInv, TypeOK
<1> HIDE DEF p, h
<1> QED
  BY <1>1, <1>2, <1>3, <1>4, GrantStep

\* Steps in which the place, the code and the OVC stay as they are.
LEMMA IdleStep ==
    ASSUME RouteInv, TypeOK', arriving' => arriving,
           UNCHANGED <<cfg, src, dest, here, via, vc, code, ovc, hops>>
    PROVE  RouteInv'
<1>1. /\ Onward(cfg, here, dest, via, vc)'
      /\ BitsKept(cfg, here, dest, code)'
      /\ (via = "LOCAL" => here # dest)'
      /\ (hops + Distance(cfg, here, dest) = Distance(cfg, src, dest))'
      /\ (arriving => ovc = None)'
  BY DEF RouteInv
<1>2. (ovc = None => Requested(code) = PossibleOut(cfg, here, dest, via = "LOCAL"))'
  BY DEF RouteInv
<1>3. (ovc # None => /\ Requested(code) = {ovc.port}
                     /\ ovc.port \in PossibleOut(cfg, here, dest, via = "LOCAL")
                     /\ ovc.vc \in VcClass(cfg)
                     /\ FullAdaptive(cfg) /\ ovc.port \in DirY /\ ovc.vc = "escape"
                           => Dx(cfg, here, dest) = 0)'
  BY DEF RouteInv
<1> QED
  BY <1>1, <1>2, <1>3 DEF RouteInv

LEMMA BufferStep ==
    ASSUME RouteInv, Buffer
    PROVE  RouteInv'
<1>1. TypeOK'
  BY DEF RouteInv, TypeOK, Buffer
<1> QED
  BY <1>1, IdleStep DEF Buffer

LEMMA WaitStep ==
    ASSUME RouteInv, Wait
    PROVE  RouteInv'
<1>1. pre' \in BOOLEAN /\ avcFree' \in BOOLEAN
  BY DEF Wait, PreSelections, AvcStates
<1>2. swap' \in BOOLEAN
  <2>1. CASE EscapeForbidden /\ ~avcFree
    BY <2>1 DEF Wait
  <2>2. CASE ~(EscapeForbidden /\ ~avcFree)
    BY <2>2 DEF Wait
  <2> QED
    BY <2>1, <2>2
<1>3. TypeOK'
  BY <1>1, <1>2 DEF RouteInv, TypeOK, Wait
<1> QED
  BY <1>3, IdleStep DEF Wait

LEMMA StutterStep ==
    ASSUME RouteInv, UNCHANGED vars
    PROVE  RouteInv'
<1>1. TypeOK'
  BY DEF RouteInv, TypeOK, vars
<1> QED
  BY <1>1, IdleStep DEF vars

LEMMA DepartStep ==
    ASSUME Configs \subseteq AllowedConfigs, RouteInv, Depart
    PROVE  RouteInv'
<1> DEFINE p == ovc.port
           n == via = "LOCAL"
           e == Neighbor(here, p)
           l == LookAhead(cfg, here, dest, code, p)
<1>1. /\ ovc # None /\ p # "LOCAL"
      /\ here' = e /\ via' = Opposite(p) /\ vc' = ovc.vc
      /\ code' = LookAhead(cfg, here, dest, code, IF Sel THEN CodeY(code) ELSE CodeX(code))
      /\ arriving' = TRUE
      /\ pre' \in PreSelections(cfg)
      /\ avcFree' \in AvcStates(cfg)
      /\ swap' = FALSE /\ ovc' = None /\ hops' = hops + 1
      /\ cfg' = cfg /\ src' = src /\ dest' = dest
  BY DEF Depart, Delivered
<1>2. /\ cfg \in AllowedConfigs /\ here \in Router /\ dest \in Router /\ code \in Code
      /\ n \in BOOLEAN /\ hops \in Nat /\ src \in Router /\ cfg \in Configs
      /\ ovc.vc \in VcClass(cfg)
      /\ BitsKept(cfg, here, dest, code)
      /\ Requested(code) = {p} /\ p \in PossibleOut(cfg, here, dest, n)
      /\ FullAdaptive(cfg) /\ p \in DirY /\ ovc.vc = "escape" => Dx(cfg, here, dest) = 0
      /\ hops + Distance(cfg, here, dest) = Distance(cfg, src, dest)
  BY <1>1 DEF RouteInv, TypeOK
<1>3. (IF Sel THEN CodeY(code) ELSE CodeX(code)) = p
  <2> HIDE DEF p
  <2>1. \/ code.a /\ ~code.b /\ p = CodeX(code)
        \/ code.b /\ ~code.a /\ p = CodeY(code)
    BY <1>1, <1>2, OnePort
  <2> QED
    BY <2>1 DEF Sel
<1>4. code' = l
  BY <1>1, <1>3
<1> HIDE DEF p, n
<1>5. /\ l \in Code
      /\ Requested(l) = PossibleOut(cfg, e, dest, FALSE)
      /\ BitsKept(cfg, e, dest, l)
  BY <1>1, <1>2, LookedAhead
<1>6. Onward(cfg, e, dest, Opposite(p), ovc.vc)
  BY <1>1, <1>2, OnwardHop
<1>7. p \in PortX(Dx(cfg, here, dest)) \cup PortY(Dy(cfg, here, dest))
  BY <1>1, <1>2, Permitted
<1>8. e \in Router /\ p \in Dir /\ Distance(cfg, e, dest) = Distance(cfg, here, dest) - 1
  BY <1>2, <1>7, Hop
<1>9. Opposite(p) \in Dir /\ Opposite(p) # "LOCAL"
  BY <1>8 DEF Opposite, Dir, DirX, DirY
<1>10. Distance(cfg, here, dest) \in Int
  BY <1>2, Signs
<1>11. pre' \in BOOLEAN /\ avcFree' \in BOOLEAN
  BY <1>1 DEF PreSelections, AvcStates
<1> HIDE DEF e, l
<1>12. TypeOK'
  <2>1. /\ cfg' \in Configs /\ {src', dest', here'} \subseteq Router
        /\ vc' \in VcClass(cfg') /\ code' \in Code /\ hops' \in Nat
    BY <1>1, <1>2, <1>4, <1>5, <1>8
  <2>2. via' \in Dir \cup {"LOCAL"} /\ ovc' \in Ovc \cup {None}
    BY <1>1, <1>9
  <2>3. {arriving', pre', swap', avcFree'} \subseteq BOOLEAN
    BY <1>1, <1>11
  <2> QED
    BY <2>1, <2>2, <2>3 DEF TypeOK
<1>13. Onward(cfg, here, dest, via, vc)'
  BY <1>1, <1>6
<1>14. BitsKept(cfg, here, dest, code)'
  BY <1>1, <1>4, <1>5
<1>15. (hops + Distance(cfg, here, dest) = Distance(cfg, src, dest))'
  BY <1>1, <1>2, <1>8, <1>10
<1>16. (via = "LOCAL")' = FALSE
  BY <1>1, <1>9
<1>17. (Requested(code) = PossibleOut(cfg, here, dest, via = "LOCAL"))'
  BY <1>1, <1>4, <1>5, <1>16
<1> QED
  BY <1>1, <1>12, <1>13, <1>14, <1>15, <1>16, <1>17 DEF RouteInv

LEMMA RouteStep ==
    ASSUME Configs \subseteq AllowedConfigs, RouteInv, [Next]_vars
    PROVE  RouteInv'
  BY SsaGrantStep, BufferStep, VsaGrantStep, WaitStep, DepartStep, StutterStep
     DEF Next, Done

-----------------------------------------------------------------------------
\* The invariant holds throughout a packet's way.
THEOREM RouteInvariant ==
    ASSUME Configs \subseteq AllowedConfigs
    PROVE  Spec => []RouteInv
<1>1. Init => RouteInv
  BY RouteInit
<1>2. RouteInv /\ [Next]_vars => RouteInv'
  BY RouteStep
<1> QED
  BY <1>1, <1>2, PTL DEF Spec

\* The code in a header asks at every router for exactly the ports that the
\* algorithm permits there.
LEMMA InvFollows == RouteInv => FollowsAlgorithm
  BY DEF RouteInv, FollowsAlgorithm

\* No request is for a turn that the crossbar lacks.
LEMMA InvAssignable ==
    ASSUME Configs \subseteq AllowedConfigs, RouteInv
    PROVE  RequestAssignable
<1> SUFFICES ASSUME ovc = None, NEW q \in Requested(code)
             PROVE  q \in Assignable(cfg, here, via)
  BY DEF RequestAssignable
<1>1. /\ cfg \in AllowedConfigs /\ here \in Router /\ dest \in Router
      /\ via \in Dir \cup {"LOCAL"}
      /\ Onward(cfg, here, dest, via, vc) /\ (via = "LOCAL" => here # dest)
  BY DEF RouteInv, TypeOK
<1>2. q \in PossibleOut(cfg, here, dest, via = "LOCAL")
  BY DEF RouteInv
<1> QED
  BY <1>1, <1>2, TurnIsWired

\* The granted port and the code that is left agree.
LEMMA InvGrant == RouteInv => GrantMatchesPort
  BY DEF RouteInv, GrantMatchesPort

\* A packet that has come is where it should be, and its way was the shortest.
LEMMA InvArrives ==
    ASSUME Configs \subseteq AllowedConfigs, RouteInv
    PROVE  ArrivesAtDistance
<1> SUFFICES ASSUME ovc # None, ovc.port = "LOCAL"
             PROVE  here = dest /\ hops + 1 = Distance(cfg, src, dest)
  BY DEF ArrivesAtDistance, Delivered
<1> DEFINE n == via = "LOCAL"
<1>1. /\ cfg \in AllowedConfigs /\ here \in Router /\ dest \in Router /\ n \in BOOLEAN
      /\ "LOCAL" \in PossibleOut(cfg, here, dest, n)
      /\ hops + Distance(cfg, here, dest) = Distance(cfg, src, dest)
  BY DEF RouteInv, TypeOK
<1> HIDE DEF n
<1>2. here = dest
  BY <1>1, Permitted DEF Dir, DirX, DirY
<1>3. Distance(cfg, here, dest) = 1
  BY <1>1, <1>2, Signs
<1> QED
  BY <1>1, <1>2, <1>3

\* In a mesh of any size, with any algorithm, and in a torus of any size with
\* deterministic routing, a packet takes the way its algorithm promises, over
\* as many routers as the distance that end points compute.
THEOREM PacketsFollowTheAlgorithm ==
    ASSUME Configs \subseteq AllowedConfigs
    PROVE  Spec => [](TypeOK /\ FollowsAlgorithm /\ ArrivesAtDistance)
<1>1. RouteInv => TypeOK /\ FollowsAlgorithm /\ ArrivesAtDistance
  BY InvFollows, InvArrives DEF RouteInv
<1> QED
  BY <1>1, RouteInvariant, PTL

\* What a header asks for, the crossbar has; what is granted is the port that
\* was selected.
THEOREM RequestsAreWired ==
    ASSUME Configs \subseteq AllowedConfigs
    PROVE  Spec => [](RequestAssignable /\ GrantMatchesPort)
<1>1. RouteInv => RequestAssignable /\ GrantMatchesPort
  BY InvAssignable, InvGrant
<1> QED
  BY <1>1, RouteInvariant, PTL


Mesh  == {c \in Config : c.topo = "MESH"}
Torus == {c \in Config : c.topo = "TORUS" /\ c.alg = "DOR"}

X(v) == v.from[1]
Y(v) == v.from[2]

-----------------------------------------------------------------------------
(* The orders: v comes after s.                                            *)

\* x before y, and forward in each dimension.
AfterDor(s, v) ==
    \/ s.port \in DirX /\ v.port \in DirY
    \/ s.port = "EAST"  /\ v.port = "EAST"  /\ X(v) > X(s)
    \/ s.port = "WEST"  /\ v.port = "WEST"  /\ X(v) < X(s)
    \/ s.port = "SOUTH" /\ v.port = "SOUTH" /\ Y(v) > Y(s)
    \/ s.port = "NORTH" /\ v.port = "NORTH" /\ Y(v) < Y(s)

\* West first; then column by column to the east.
AfterWestFirst(s, v) ==
    IF s.port = "WEST"
    THEN v.port = "WEST" => X(v) < X(s)
    ELSE /\ v.port # "WEST"
         /\ \/ X(v) > X(s)
            \/ X(v) = X(s) /\ s.port # "EAST" /\ v.port = "EAST"
            \/ X(v) = X(s) /\ s.port = "SOUTH" /\ v.port = "SOUTH" /\ Y(v) > Y(s)
            \/ X(v) = X(s) /\ s.port = "NORTH" /\ v.port = "NORTH" /\ Y(v) < Y(s)

\* Row by row to the south; north last.
AfterNorthLast(s, v) ==
    IF v.port = "NORTH"
    THEN s.port = "NORTH" => Y(v) < Y(s)
    ELSE /\ s.port # "NORTH"
         /\ \/ Y(v) > Y(s)
            \/ Y(v) = Y(s) /\ s.port # "SOUTH" /\ v.port = "SOUTH"
            \/ Y(v) = Y(s) /\ s.port = "EAST" /\ v.port = "EAST" /\ X(v) > X(s)
            \/ Y(v) = Y(s) /\ s.port = "WEST" /\ v.port = "WEST" /\ X(v) < X(s)

\* West and south first, which both increase y - x; then east and north.
AfterNegativeFirst(s, v) ==
    IF s.port \in {"WEST", "SOUTH"}
    THEN v.port \in {"WEST", "SOUTH"} => Y(v) - X(v) > Y(s) - X(s)
    ELSE v.port \notin {"WEST", "SOUTH"} /\ X(v) - Y(v) > X(s) - Y(s)

\* The escape VCs in the order of AfterDor.  In an adaptive VC of y the
\* destination d matters: the packet still has to go on in the x direction of
\* the start, or has no x left to go.
AfterFullAdaptive(s, v, d) ==
    \/ s.port = "EAST" /\ v.port = "EAST" /\ X(v) > X(s)
    \/ s.port = "WEST" /\ v.port = "WEST" /\ X(v) < X(s)
    \/ s.port \in DirX /\ v.port \in DirY /\ d[1] = X(v)
    \/ /\ s.port = "EAST" /\ v.port \in DirY /\ v.class = "adaptive"
       /\ X(v) > X(s) /\ d[1] > X(v)
    \/ /\ s.port = "WEST" /\ v.port \in DirY /\ v.class = "adaptive"
       /\ X(v) < X(s) /\ d[1] < X(v)
    \/ s.port = "SOUTH" /\ v.port = "SOUTH" /\ d[1] = X(v) /\ Y(v) > Y(s)
    \/ s.port = "NORTH" /\ v.port = "NORTH" /\ d[1] = X(v) /\ Y(v) < Y(s)

\* First west, and over the even columns, column by column; then east, and
\* over the odd columns.
Eastern(v) == v.port = "EAST" \/ (v.port \in DirY /\ Odd(X(v)))

AfterOddEven(s, v) ==
    IF Eastern(s) # Eastern(v) THEN Eastern(v)
    ELSE \/ Eastern(s) /\ X(v) > X(s)
         \/ ~Eastern(s) /\ X(v) < X(s)
         \/ X(v) = X(s) /\ s.port \in DirY /\ v.port \in DirX
         \/ X(v) = X(s) /\ s.port = "SOUTH" /\ v.port = "SOUTH" /\ Y(v) > Y(s)
         \/ X(v) = X(s) /\ s.port = "NORTH" /\ v.port = "NORTH" /\ Y(v) < Y(s)

\* A packet that goes plus in a ring never passes router n - 2, and one that
\* goes minus never passes n - 3: the orders start there.
PlusPos(k, n)  == IF k >= n - 2 THEN k - (n - 2) ELSE k + 2
MinusPos(k, n) == IF k <= n - 3 THEN n - 3 - k ELSE 2 * n - 3 - k

AfterTorus(s, v) ==
    \/ s.port \in DirX /\ v.port \in DirY
    \/ s.port = "EAST"  /\ v.port = "EAST"  /\ PlusPos(X(v), NX) > PlusPos(X(s), NX)
    \/ s.port = "WEST"  /\ v.port = "WEST"  /\ MinusPos(X(v), NX) > MinusPos(X(s), NX)
    \/ s.port = "SOUTH" /\ v.port = "SOUTH" /\ PlusPos(Y(v), NY) > PlusPos(Y(s), NY)
    \/ s.port = "NORTH" /\ v.port = "NORTH" /\ MinusPos(Y(v), NY) > MinusPos(Y(s), NY)

After(c, s, v, d) ==
    /\ c.topo = "TORUS" => AfterTorus(s, v)
    /\ c.topo = "MESH" /\ c.alg = "DOR" => AfterDor(s, v)
    /\ c.alg = "WEST_FIRST" => AfterWestFirst(s, v)
    /\ c.alg = "NORTH_LAST" => AfterNorthLast(s, v)
    /\ c.alg = "NEGETIVE_FIRST" => AfterNegativeFirst(s, v)
    /\ c.alg = "ODD_EVEN" => AfterOddEven(s, v)
    /\ c.alg = "FULL_ADPT" => AfterFullAdaptive(s, v, d)

\* The inductive invariant: what the chain's last packet may hold, and where
\* that is in the order.
ChainInv ==
    /\ ChainTypeOK
    /\ MayHold(chainCfg, last, goal)
    /\ IF moved THEN After(chainCfg, start, last, goal) ELSE last = start

-----------------------------------------------------------------------------
(* What the options of a packet say about its destination.                 *)

\* The turns that an algorithm leaves a packet to d at v.from, as facts about
\* the position of d.
Heading(c, v, d) ==
    /\ v.port = "EAST"  => d[1] > X(v)
    /\ v.port = "WEST"  => d[1] < X(v)
    /\ v.port = "SOUTH" => d[2] > Y(v)
    /\ v.port = "NORTH" => d[2] < Y(v)
    /\ c.alg = "DOR" => (v.port \in DirY => d[1] = X(v))
    /\ c.alg = "WEST_FIRST" => (v.port # "WEST" => d[1] >= X(v))
    /\ c.alg = "NORTH_LAST" => (v.port = "NORTH" => d[1] = X(v))
    /\ c.alg = "NEGETIVE_FIRST" => /\ v.port = "NORTH" => d[1] >= X(v)
                                   /\ v.port = "EAST" => d[2] <= Y(v)
    /\ c.alg = "ODD_EVEN" => /\ v.port \in DirY /\ Odd(X(v)) => d[1] >= X(v)
                             /\ v.port = "EAST" => d[2] = Y(v) \/ Odd(d[1])
                                                                \/ d[1] # X(v) + 1
    /\ c.alg = "FULL_ADPT" =>
            (v.port \in DirY /\ v.class = "escape" => d[1] = X(v))

\* What the routers permit, the network interface permits too.
LEMMA MoreInNI ==
    ASSUME NEW c \in Config, NEW r \in Router, NEW d \in Router
    PROVE  Options(c, r, d, FALSE) \subseteq Options(c, r, d, TRUE)
<1>1. CASE c.alg # "ODD_EVEN"
  BY <1>1 DEF Options, PossibleOut
<1>2. CASE c.alg = "ODD_EVEN"
  <2>1. PossibleOut(c, r, d, FALSE) \subseteq PossibleOut(c, r, d, TRUE)
    BY <1>2 DEF PossibleOut, OddEvenOut
  <2> QED
    BY <1>2, <2>1 DEF Options, FullAdaptive
<1> QED
  BY <1>1, <1>2

\* Options are VCs that leave the router towards the destination.
LEMMA OptionHeading ==
    ASSUME NEW c \in Mesh, NEW r \in Router, NEW d \in Router,
           NEW v \in Options(c, r, d, TRUE)
    PROVE  v \in Vc /\ v.from = r /\ v.class \in VcClass(c) /\ Heading(c, v, d)
<1> DEFINE dx == MeshSign(r[1], d[1])
           dy == MeshSign(r[2], d[2])
           out == PossibleOut(c, r, d, TRUE)
<1>1. r[1] \in Int /\ r[2] \in Int /\ d[1] \in Int /\ d[2] \in Int
  BY SizeAssumption DEF Router
<1>2. v \in Vc /\ v.from = r /\ v.port \in out \cap Dir /\ v.class \in VcClass(c)
  BY DEF Options, VcClass, Vc
<1>3. c.topo = "MESH"
  BY DEF Mesh
<1>4. out = IF dx = 0 /\ dy = 0 THEN {"LOCAL"}
            ELSE IF c.alg = "ODD_EVEN" THEN OddEvenOut(r, d, dx, dy, TRUE)
            ELSE IF dx # 0 /\ OnlyX(c.alg, dx, dy) THEN PortX(dx)
            ELSE IF OnlyY(c.alg, dx, dy) THEN PortY(dy)
            ELSE PortX(dx) \cup PortY(dy)
  BY <1>3 DEF PossibleOut, Sign
<1>5. /\ dx = 1 <=> d[1] > r[1]
      /\ dx = -1 <=> d[1] < r[1]
      /\ dx = 0 <=> d[1] = r[1]
      /\ dy = 1 <=> d[2] > r[2]
      /\ dy = -1 <=> d[2] < r[2]
      /\ dy = 0 <=> d[2] = r[2]
      /\ dx \in {-1, 0, 1} /\ dy \in {-1, 0, 1}
  BY <1>1 DEF MeshSign
<1> HIDE DEF dx, dy, out
<1>6. /\ v.port = "EAST"  => dx = 1
      /\ v.port = "WEST"  => dx = -1
      /\ v.port = "SOUTH" => dy = 1
      /\ v.port = "NORTH" => dy = -1
  <2>1. out \cap Dir \subseteq PortX(dx) \cup PortY(dy)
    BY <1>4, <1>5 DEF OddEvenOut, Dir, DirX, DirY
  <2> QED
    BY <1>2, <1>5, <2>1 DEF PortX, PortY
<1>7. /\ c.alg = "DOR" => (v.port \in DirY => dx = 0)
      /\ c.alg = "WEST_FIRST" => (v.port # "WEST" => dx # -1)
      /\ c.alg = "NORTH_LAST" => (v.port = "NORTH" => dx = 0)
      /\ c.alg = "NEGETIVE_FIRST" => /\ v.port = "NORTH" => dx # -1
                                     /\ v.port = "EAST" => dy # 1
  <2>1. c.alg = "DOR" => (v.port \in DirY => dx = 0)
    BY <1>2, <1>4, <1>5 DEF PortX, PortY, Dir, DirX, DirY, OnlyX, OnlyY
  <2>2. c.alg = "WEST_FIRST" => (v.port # "WEST" => dx # -1)
    BY <1>2, <1>4, <1>5 DEF PortX, PortY, Dir, DirX, DirY, OnlyX, OnlyY
  <2>3. c.alg = "NORTH_LAST" => (v.port = "NORTH" => dx = 0)
    BY <1>2, <1>4, <1>5 DEF PortX, PortY, Dir, DirX, DirY, OnlyX, OnlyY
  <2>4. c.alg = "NEGETIVE_FIRST" => (v.port = "NORTH" => dx # -1)
    BY <1>2, <1>4, <1>5 DEF PortX, PortY, Dir, DirX, DirY, OnlyX, OnlyY
  <2>5. c.alg = "NEGETIVE_FIRST" => (v.port = "EAST" => dy # 1)
    BY <1>2, <1>4, <1>5 DEF PortX, PortY, Dir, DirX, DirY, OnlyX, OnlyY
  <2> QED
    BY <2>1, <2>2, <2>3, <2>4, <2>5
<1>8. c.alg = "FULL_ADPT" /\ v.port \in DirY /\ v.class = "escape" => dx = 0
  <2> SUFFICES ASSUME c.alg = "FULL_ADPT", v.port \in DirY,
                      v.class = "escape", dx # 0
               PROVE  FALSE
    OBVIOUS
  <2>1. out \cap DirX # {}
    BY <1>4, <1>5 DEF OnlyX, OnlyY, PortX, DirX
  <2>2. v \in [from : {r}, port : DirY, class : {"escape"}]
    BY <1>2 DEF Vc
  <2> QED BY <2>1, <2>2 DEF Options, FullAdaptive, out
<1>9. c.alg = "ODD_EVEN" => /\ v.port \in DirY /\ Odd(r[1]) => dx # -1
                            /\ v.port = "EAST" => dy = 0 \/ Odd(d[1]) \/ d[1] - r[1] # 1
  BY <1>2, <1>4, <1>5 DEF OddEvenOut, PortX, PortY, Dir, DirX, DirY
<1> QED BY <1>1, <1>2, <1>5, <1>6, <1>7, <1>8, <1>9 DEF Heading, X, Y

\* In odd-even routing a router turns no packet in an even column that still
\* goes east.
LEMMA EvenColumn ==
    ASSUME NEW c \in Mesh, c.alg = "ODD_EVEN", NEW r \in Router, NEW d \in Router,
           NEW v \in Options(c, r, d, FALSE), v.port \in DirY, ~Odd(r[1])
    PROVE  d[1] <= r[1]
<1> DEFINE dx == MeshSign(r[1], d[1])
           dy == MeshSign(r[2], d[2])
<1>1. r[1] \in Int /\ d[1] \in Int
  BY SizeAssumption DEF Router
<1>2. v.port \in PossibleOut(c, r, d, FALSE)
  BY DEF Options
<1>3. dx = 1 \/ d[1] <= r[1]
  BY <1>1 DEF MeshSign
<1>4. dx = 1 => PossibleOut(c, r, d, FALSE) \subseteq
                   PortX(dx) \cup (IF dy = 0 THEN PortY(dy) ELSE {})
  BY DEF PossibleOut, OddEvenOut, Sign, Mesh, MeshSign
<1> HIDE DEF dx, dy
<1> QED
  BY <1>2, <1>3, <1>4 DEF PortX, PortY, DirY

\* A packet that heads for its destination never leaves the mesh, so that the
\* next router is one step further in its direction.
LEMMA EndOf ==
    ASSUME NEW c \in Mesh, NEW v \in Vc, NEW d \in Router, Heading(c, v, d)
    PROVE  /\ End(v) \in Router
           /\ End(v)[1] = IF v.port = "EAST" THEN X(v) + 1
                          ELSE IF v.port = "WEST" THEN X(v) - 1 ELSE X(v)
           /\ End(v)[2] = IF v.port = "SOUTH" THEN Y(v) + 1
                          ELSE IF v.port = "NORTH" THEN Y(v) - 1 ELSE Y(v)
<1>1. v.from \in Router /\ v.port \in Dir
  BY DEF Vc
<1>2. /\ v.from[1] \in 0 .. NX - 1 /\ v.from[2] \in 0 .. NY - 1
      /\ d[1] \in 0 .. NX - 1 /\ d[2] \in 0 .. NY - 1
      /\ v.from = <<v.from[1], v.from[2]>>
  BY <1>1 DEF Router
<1>3. CASE v.port = "EAST"
  BY <1>2, <1>3, SizeAssumption DEF End, Neighbor, Heading, X, Y, Router
<1>4. CASE v.port = "WEST"
  BY <1>2, <1>4, SizeAssumption DEF End, Neighbor, Heading, X, Y, Router
<1>5. CASE v.port = "SOUTH"
  BY <1>2, <1>5, SizeAssumption DEF End, Neighbor, Heading, X, Y, Router
<1>6. CASE v.port = "NORTH"
  BY <1>2, <1>6, SizeAssumption DEF End, Neighbor, Heading, X, Y, Router
<1> QED BY <1>1, <1>3, <1>4, <1>5, <1>6 DEF Dir, DirX, DirY

-----------------------------------------------------------------------------
(* The steps of a chain.                                                   *)

LEMMA HeldHeading ==
    ASSUME NEW c \in Mesh, NEW v \in Vc, NEW d \in Router, MayHold(c, v, d)
    PROVE  v.class \in VcClass(c) /\ Heading(c, v, d)
<1>1. v.from \in Router
  BY DEF Vc
<1> QED BY <1>1, OptionHeading DEF MayHold

\* From v, which is the start or after it, a packet goes on to a VC after the
\* start.
LEMMA StepUpMesh ==
    ASSUME NEW c \in Mesh, NEW s \in Vc, s.class = "escape",
           NEW v \in Vc, NEW d \in Router, MayHold(c, v, d),
           v = s \/ After(c, s, v, d),
           NEW w \in Options(c, End(v), d, FALSE)
    PROVE  /\ w \in Vc /\ w.class \in VcClass(c)
           /\ MayHold(c, w, d)
           /\ After(c, s, w, d)
<1>1. Heading(c, v, d)
  BY HeldHeading
<1>2. /\ End(v) \in Router
      /\ End(v)[1] = IF v.port = "EAST" THEN X(v) + 1
                     ELSE IF v.port = "WEST" THEN X(v) - 1 ELSE X(v)
      /\ End(v)[2] = IF v.port = "SOUTH" THEN Y(v) + 1
                     ELSE IF v.port = "NORTH" THEN Y(v) - 1 ELSE Y(v)
  BY <1>1, EndOf
<1>3. w \in Vc /\ w.from = End(v) /\ w.class \in VcClass(c) /\ Heading(c, w, d)
      /\ w \in Options(c, End(v), d, TRUE)
  <2>1. c \in Config /\ End(v) \in Router
    BY <1>2 DEF Mesh
  <2>2. w \in Options(c, End(v), d, TRUE)
    BY <2>1, MoreInNI
  <2> QED
    BY <2>1, <2>2, OptionHeading
<1>4. MayHold(c, w, d)
  BY <1>3 DEF MayHold
<1>5. /\ X(w) = IF v.port = "EAST" THEN X(v) + 1
                ELSE IF v.port = "WEST" THEN X(v) - 1 ELSE X(v)
      /\ Y(w) = IF v.port = "SOUTH" THEN Y(v) + 1
                ELSE IF v.port = "NORTH" THEN Y(v) - 1 ELSE Y(v)
  BY <1>2, <1>3 DEF X, Y
<1>6. /\ s.port \in {"EAST", "WEST", "SOUTH", "NORTH"}
      /\ v.port \in {"EAST", "WEST", "SOUTH", "NORTH"}
      /\ w.port \in {"EAST", "WEST", "SOUTH", "NORTH"}
      /\ X(s) \in Int /\ Y(s) \in Int
      /\ X(v) \in Int /\ Y(v) \in Int
      /\ d[1] \in Int /\ d[2] \in Int
  BY <1>3, SizeAssumption DEF Vc, Dir, DirX, DirY, X, Y, Router
<1>0. c.topo = "MESH"
  BY DEF Mesh
<1>7. c.alg = "DOR" => AfterDor(s, w)
  BY <1>0, <1>1, <1>3, <1>5, <1>6 DEF After, AfterDor, Heading, DirX, DirY
<1>8. c.alg = "WEST_FIRST" => AfterWestFirst(s, w)
  BY <1>1, <1>3, <1>5, <1>6 DEF After, AfterWestFirst, Heading
<1>9. c.alg = "NORTH_LAST" => AfterNorthLast(s, w)
  BY <1>1, <1>3, <1>5, <1>6 DEF After, AfterNorthLast, Heading
<1>10. c.alg = "NEGETIVE_FIRST" => AfterNegativeFirst(s, w)
  BY <1>1, <1>3, <1>5, <1>6 DEF After, AfterNegativeFirst, Heading
<1>11. c.alg = "FULL_ADPT" => AfterFullAdaptive(s, w, d)
  <2>1. w.class \in {"escape", "adaptive"}
    BY <1>3 DEF Vc
  <2> QED BY <1>1, <1>3, <1>5, <1>6, <2>1
          DEF After, AfterFullAdaptive, Heading, DirX, DirY
<1>12. c.alg = "ODD_EVEN" => AfterOddEven(s, w)
  <2> SUFFICES ASSUME c.alg = "ODD_EVEN" PROVE AfterOddEven(s, w)
    OBVIOUS
  <2>1. w.port \in DirY /\ ~Odd(X(w)) => d[1] <= X(w)
    BY <1>2, <1>3, EvenColumn DEF X
  <2>2. v = s \/ AfterOddEven(s, v)
    BY DEF After
  <2>3. AfterOddEven(v, w)
    <3>1. CASE v.port = "EAST"
      <4>1. w.port \in DirY => d[2] # Y(w) /\ Y(w) = Y(v)
        BY <1>3, <1>5, <1>6, <3>1 DEF Heading, DirY
      <4>2. w.port \in DirY /\ ~Odd(X(w)) => d[1] = X(w) /\ X(w) = X(v) + 1
        BY <1>1, <1>5, <1>6, <2>1, <3>1 DEF Heading
      <4>3. w.port \in DirY => Odd(X(w))
        BY <1>1, <3>1, <4>1, <4>2 DEF Heading
      <4>4. w.port # "WEST"
        BY <1>1, <1>3, <1>5, <1>6, <3>1 DEF Heading
      <4> QED
        <5>1. Eastern(v) /\ Eastern(w)
          BY <1>6, <3>1, <4>3, <4>4 DEF Eastern, DirY
        <5>2. X(w) > X(v)
          BY <1>5, <1>6, <3>1
        <5> QED
          BY <5>1, <5>2 DEF AfterOddEven
    <3>2. CASE v.port = "WEST"
      BY <1>5, <1>6, <3>2 DEF AfterOddEven, Eastern, DirY
    <3>3. CASE v.port \in DirY
      <4>1. X(w) = X(v)
        BY <1>5, <3>3 DEF DirY
      <4>2. w.port = "WEST" => ~Odd(X(v))
        BY <1>1, <1>3, <1>6, <3>3, <4>1 DEF Heading
      <4>3. w.port \in DirY => w.port = v.port
        BY <1>1, <1>3, <1>5, <1>6, <3>3 DEF Heading, DirY
      <4> QED
        BY <1>5, <1>6, <3>3, <4>1, <4>2, <4>3 DEF AfterOddEven, Eastern, DirX, DirY
    <3> QED
      BY <1>6, <3>1, <3>2, <3>3 DEF DirY
  <2> QED
    BY <1>5, <1>6, <2>2, <2>3 DEF AfterOddEven, Eastern, DirX, DirY
<1> QED BY <1>0, <1>3, <1>4, <1>7, <1>8, <1>9, <1>10, <1>11, <1>12 DEF After

\* In a VC that may hold several packets the order does not depend on which
\* of them is looked at.
LEMMA SameForAllHeldMesh ==
    ASSUME NEW c \in Mesh, NEW s \in Vc, NEW v \in Vc, ~Atomic(c, v),
           NEW d \in Router, NEW e \in Router, MayHold(c, v, e),
           After(c, s, v, d)
    PROVE  After(c, s, v, e)
<1>1. v.class \in VcClass(c) /\ Heading(c, v, e)
  BY HeldHeading
<1>2. c.alg = "FULL_ADPT" /\ v.port \in DirY => e[1] = X(v) /\ v.class = "escape"
  BY <1>1 DEF Atomic, FullAdaptive, VcClass, Heading
<1> QED BY <1>2 DEF After, AfterFullAdaptive, DirX, DirY

-----------------------------------------------------------------------------
(* The same in the torus, where a packet keeps its direction in a ring      *)
(* until it has reached its coordinate there.                              *)

LEMMA PlusInRing ==
    ASSUME NEW n \in Nat \ {0}, NEW k \in 0 .. n - 1, NEW d \in 0 .. n - 1,
           TrancSign(k, d, n) = 1,
           NEW e, e = (IF k < n - 1 THEN k + 1 ELSE 0)
    PROVE  /\ TrancSign(e, d, n) # -1
           /\ TrancSign(e, d, n) = 1 => PlusPos(e, n) > PlusPos(k, n)
<1>1. k # d /\ TrancPlus(k, d, n)
  BY DEF TrancSign
<1>2. e = d \/ TrancPlus(e, d, n)
  BY <1>1 DEF TrancPlus
<1>3. e # d => PlusPos(e, n) > PlusPos(k, n)
  BY <1>1 DEF TrancPlus, PlusPos
<1> QED
  BY <1>2, <1>3 DEF TrancSign

LEMMA MinusInRing ==
    ASSUME NEW n \in Nat \ {0}, NEW k \in 0 .. n - 1, NEW d \in 0 .. n - 1,
           TrancSign(k, d, n) = -1,
           NEW e, e = (IF k > 0 THEN k - 1 ELSE n - 1)
    PROVE  /\ TrancSign(e, d, n) # 1
           /\ TrancSign(e, d, n) = -1 => MinusPos(e, n) > MinusPos(k, n)
<1>1. k # d /\ ~TrancPlus(k, d, n)
  BY DEF TrancSign
<1>2. e = d \/ ~TrancPlus(e, d, n)
  BY <1>1 DEF TrancPlus
<1>3. e # d => MinusPos(e, n) > MinusPos(k, n)
  BY <1>1 DEF TrancPlus, MinusPos
<1> QED
  BY <1>2, <1>3 DEF TrancSign

\* The port that the rings leave a packet to d at v.from.
RingHeading(v, d) ==
    /\ v.port = "EAST"  => TrancSign(X(v), d[1], NX) = 1
    /\ v.port = "WEST"  => TrancSign(X(v), d[1], NX) = -1
    /\ v.port = "SOUTH" => TrancSign(Y(v), d[2], NY) = 1
    /\ v.port = "NORTH" => TrancSign(Y(v), d[2], NY) = -1
    /\ v.port \in DirY  => d[1] = X(v)

LEMMA OptionRingHeading ==
    ASSUME NEW c \in Torus, NEW r \in Router, NEW d \in Router, NEW n,
           NEW v \in Options(c, r, d, n)
    PROVE  v \in Vc /\ v.from = r /\ v.class \in VcClass(c) /\ RingHeading(v, d)
<1> DEFINE dx == TrancSign(r[1], d[1], NX)
           dy == TrancSign(r[2], d[2], NY)
           out == PossibleOut(c, r, d, n)
<1>1. v \in Vc /\ v.from = r /\ v.port \in out \cap Dir /\ v.class \in VcClass(c)
  BY DEF Options, VcClass, Vc
<1>2. out = IF dx = 0 /\ dy = 0 THEN {"LOCAL"}
            ELSE IF dx # 0 THEN PortX(dx) ELSE PortX(dx) \cup PortY(dy)
  BY DEF PossibleOut, Sign, OnlyX, OnlyY, Torus
<1>3. dx \in {-1, 0, 1} /\ dy \in {-1, 0, 1} /\ (dx = 0 => d[1] = r[1])
  BY DEF TrancSign
<1> HIDE DEF dx, dy, out
<1>4. /\ v.port = "EAST"  => dx = 1
      /\ v.port = "WEST"  => dx = -1
      /\ v.port = "SOUTH" => dy = 1
      /\ v.port = "NORTH" => dy = -1
      /\ v.port \in DirY  => dx = 0
  BY <1>1, <1>2, <1>3 DEF PortX, PortY, Dir, DirX, DirY
<1> QED
  BY <1>1, <1>3, <1>4 DEF RingHeading, X, Y, dx, dy

LEMMA StepUpTorus ==
    ASSUME NEW c \in Torus, NEW s \in Vc, NEW v \in Vc, NEW d \in Router,
           MayHold(c, v, d), v = s \/ After(c, s, v, d),
           NEW w \in Options(c, End(v), d, FALSE)
    PROVE  /\ w \in Vc /\ w.class \in VcClass(c)
           /\ MayHold(c, w, d)
           /\ After(c, s, w, d)
<1>1. /\ v.from \in Router /\ v.port \in {"EAST", "WEST", "SOUTH", "NORTH"}
      /\ v.from = <<X(v), Y(v)>>
      /\ X(v) \in 0 .. NX - 1 /\ Y(v) \in 0 .. NY - 1
      /\ d[1] \in 0 .. NX - 1 /\ d[2] \in 0 .. NY - 1
  BY DEF Vc, Router, Dir, DirX, DirY, X, Y
<1>2. RingHeading(v, d)
  BY <1>1, OptionRingHeading DEF MayHold
<1>3. End(v) = IF v.port = "EAST" THEN <<IF X(v) < NX - 1 THEN X(v) + 1 ELSE 0, Y(v)>>
               ELSE IF v.port = "WEST" THEN <<IF X(v) > 0 THEN X(v) - 1 ELSE NX - 1, Y(v)>>
               ELSE IF v.port = "SOUTH" THEN <<X(v), IF Y(v) < NY - 1 THEN Y(v) + 1 ELSE 0>>
               ELSE <<X(v), IF Y(v) > 0 THEN Y(v) - 1 ELSE NY - 1>>
  BY <1>1 DEF End, Neighbor, X, Y
<1>4. End(v) \in Router
  BY <1>1, <1>3, SizeAssumption DEF Router
<1>5. w \in Vc /\ w.from = End(v) /\ w.class \in VcClass(c) /\ RingHeading(w, d)
  BY <1>4, OptionRingHeading
<1>6. Options(c, End(v), d, FALSE) = Options(c, End(v), d, TRUE)
  BY DEF Options, PossibleOut, Torus
<1>7. MayHold(c, w, d)
  BY <1>5, <1>6 DEF MayHold
<1>8. w.port \in {"EAST", "WEST", "SOUTH", "NORTH"}
  BY <1>5 DEF Vc, Dir, DirX, DirY
<1>9. AfterTorus(v, w)
  <2>1. CASE v.port = "EAST"
    <3>1. X(w) = IF X(v) < NX - 1 THEN X(v) + 1 ELSE 0
      BY <1>3, <1>5, <2>1 DEF X
    <3>2. TrancSign(X(v), d[1], NX) = 1
      BY <1>2, <2>1 DEF RingHeading
    <3>3. /\ TrancSign(X(w), d[1], NX) # -1
          /\ TrancSign(X(w), d[1], NX) = 1 => PlusPos(X(w), NX) > PlusPos(X(v), NX)
      BY <1>1, <3>1, <3>2, PlusInRing, SizeAssumption
    <3> QED
      BY <1>5, <1>8, <2>1, <3>3 DEF RingHeading, AfterTorus, DirX, DirY
  <2>2. CASE v.port = "WEST"
    <3>1. X(w) = IF X(v) > 0 THEN X(v) - 1 ELSE NX - 1
      BY <1>3, <1>5, <2>2 DEF X
    <3>2. TrancSign(X(v), d[1], NX) = -1
      BY <1>2, <2>2 DEF RingHeading
    <3>3. /\ TrancSign(X(w), d[1], NX) # 1
          /\ TrancSign(X(w), d[1], NX) = -1 => MinusPos(X(w), NX) > MinusPos(X(v), NX)
      BY <1>1, <3>1, <3>2, MinusInRing, SizeAssumption
    <3> QED
      BY <1>5, <1>8, <2>2, <3>3 DEF RingHeading, AfterTorus, DirX, DirY
  <2>3. v.port \in DirY => w.port \in DirY
    <3>1. v.port \in DirY => X(w) = d[1]
      BY <1>1, <1>2, <1>3, <1>5 DEF X, RingHeading, DirY
    <3> QED
      BY <1>5, <1>8, <3>1 DEF RingHeading, TrancSign, DirY
  <2>4. CASE v.port = "SOUTH"
    <3>1. Y(w) = IF Y(v) < NY - 1 THEN Y(v) + 1 ELSE 0
      BY <1>3, <1>5, <2>4 DEF Y
    <3>2. TrancSign(Y(v), d[2], NY) = 1
      BY <1>2, <2>4 DEF RingHeading
    <3>3. /\ TrancSign(Y(w), d[2], NY) # -1
          /\ TrancSign(Y(w), d[2], NY) = 1 => PlusPos(Y(w), NY) > PlusPos(Y(v), NY)
      BY <1>1, <3>1, <3>2, PlusInRing, SizeAssumption
    <3> QED
      BY <1>5, <1>8, <2>3, <2>4, <3>3 DEF RingHeading, AfterTorus, DirX, DirY
  <2>5. CASE v.port = "NORTH"
    <3>1. Y(w) = IF Y(v) > 0 THEN Y(v) - 1 ELSE NY - 1
      BY <1>3, <1>5, <2>5 DEF Y
    <3>2. TrancSign(Y(v), d[2], NY) = -1
      BY <1>2, <2>5 DEF RingHeading
    <3>3. /\ TrancSign(Y(w), d[2], NY) # 1
          /\ TrancSign(Y(w), d[2], NY) = -1 => MinusPos(Y(w), NY) > MinusPos(Y(v), NY)
      BY <1>1, <3>1, <3>2, MinusInRing, SizeAssumption
    <3> QED
      BY <1>5, <1>8, <2>3, <2>5, <3>3 DEF RingHeading, AfterTorus, DirX, DirY
  <2> QED
    BY <1>1, <2>1, <2>2, <2>4, <2>5
<1>10. v = s \/ AfterTorus(s, v)
  BY DEF After, Torus
<1>11. AfterTorus(s, w)
  <2>1. \A k, n \in Int : PlusPos(k, n) \in Int /\ MinusPos(k, n) \in Int
    BY DEF PlusPos, MinusPos
  <2>2. /\ X(s) \in Int /\ Y(s) \in Int /\ X(v) \in Int /\ Y(v) \in Int
        /\ X(w) \in Int /\ Y(w) \in Int /\ NX \in Int /\ NY \in Int
    BY <1>5, SizeAssumption DEF Vc, Router, X, Y
  <2>3. \A x \in {s, v, w} :
           /\ PlusPos(X(x), NX) \in Int /\ MinusPos(X(x), NX) \in Int
           /\ PlusPos(Y(x), NY) \in Int /\ MinusPos(Y(x), NY) \in Int
    BY <2>1, <2>2
  <2> QED
    BY <1>9, <1>10, <2>3 DEF AfterTorus, DirX, DirY
<1> QED
  BY <1>5, <1>7, <1>11 DEF After, Torus

-----------------------------------------------------------------------------
(* In all configurations.                                                  *)

LEMMA Allowed ==
    ASSUME NEW c \in AllowedConfigs
    PROVE  c \in Mesh \/ c \in Torus
  BY DEF AllowedConfigs, Config, Mesh, Torus

LEMMA StepUp ==
    ASSUME NEW c \in AllowedConfigs, NEW s \in Vc, s.class = "escape",
           NEW v \in Vc, NEW d \in Router, MayHold(c, v, d),
           v = s \/ After(c, s, v, d),
           NEW w \in Options(c, End(v), d, FALSE)
    PROVE  /\ w \in Vc /\ w.class \in VcClass(c)
           /\ MayHold(c, w, d)
           /\ After(c, s, w, d)
<1>1. CASE c \in Mesh
  BY <1>1, StepUpMesh
<1>2. CASE c \in Torus
  BY <1>2, StepUpTorus
<1> QED
  BY <1>1, <1>2, Allowed

LEMMA SameForAllHeld ==
    ASSUME NEW c \in AllowedConfigs, NEW s \in Vc, NEW v \in Vc, ~Atomic(c, v),
           NEW d \in Router, NEW e \in Router, MayHold(c, v, e),
           After(c, s, v, d)
    PROVE  After(c, s, v, e)
<1>1. CASE c \in Mesh
  BY <1>1, SameForAllHeldMesh
<1>2. CASE c \in Torus
  BY <1>2 DEF After, Torus
<1> QED
  BY <1>1, <1>2, Allowed

LEMMA NeverAfterItself ==
    ASSUME NEW c \in AllowedConfigs, NEW s \in Vc, s.class = "escape", NEW d \in Router
    PROVE  ~After(c, s, s, d)
<1>1. /\ s.port \in {"EAST", "WEST", "SOUTH", "NORTH"}
      /\ X(s) \in Int /\ Y(s) \in Int /\ NX \in Int /\ NY \in Int
  BY SizeAssumption DEF Vc, Dir, DirX, DirY, X, Y, Router
<1>2. \A k, n \in Int : PlusPos(k, n) \in Int /\ MinusPos(k, n) \in Int
  BY DEF PlusPos, MinusPos
<1>3. ~AfterTorus(s, s)
  <2>1. /\ PlusPos(X(s), NX) \in Int /\ MinusPos(X(s), NX) \in Int
        /\ PlusPos(Y(s), NY) \in Int /\ MinusPos(Y(s), NY) \in Int
    BY <1>1, <1>2
  <2> QED
    BY <1>1, <2>1 DEF AfterTorus, DirX, DirY
<1>4. /\ ~AfterDor(s, s) /\ ~AfterWestFirst(s, s) /\ ~AfterNorthLast(s, s)
      /\ ~AfterNegativeFirst(s, s) /\ ~AfterFullAdaptive(s, s, d)
  BY <1>1 DEF AfterDor, AfterWestFirst, AfterNorthLast, AfterNegativeFirst,
              AfterFullAdaptive, DirX, DirY
<1>5. ~AfterOddEven(s, s)
  BY <1>1 DEF AfterOddEven, Eastern, DirX, DirY
<1>6. \/ c.topo = "TORUS"
      \/ /\ c.topo = "MESH"
         /\ c.alg \in {"DOR", "WEST_FIRST", "NORTH_LAST", "NEGETIVE_FIRST", "ODD_EVEN",
                       "FULL_ADPT"}
  BY Allowed DEF Mesh, Torus, Config, Algorithms
<1> QED
  BY <1>3, <1>4, <1>5, <1>6 DEF After

-----------------------------------------------------------------------------
LEMMA ChainStarts ==
    ASSUME Configs \subseteq AllowedConfigs, ChainInit
    PROVE  ChainInv
<1>1. start \in Vc /\ start.class = "escape"
  BY DEF ChainInit, Vc
<1>2. "escape" \in VcClass(chainCfg)
  BY DEF VcClass
<1> QED BY <1>1, <1>2 DEF ChainInit, ChainInv, ChainTypeOK

LEMMA ChainStep ==
    ASSUME Configs \subseteq AllowedConfigs, ChainInv, [ChainNext]_chainVars
    PROVE  ChainInv'
<1> USE DEF ChainInv, ChainTypeOK
<1>1. chainCfg \in AllowedConfigs
  OBVIOUS
<1>2. last = start \/ After(chainCfg, start, last, goal)
  OBVIOUS
<1>3. CASE Extend
  <2>1. /\ last' \in Vc /\ last'.class \in VcClass(chainCfg)
        /\ MayHold(chainCfg, last', goal) /\ After(chainCfg, start, last', goal)
    BY <1>1, <1>2, <1>3, StepUp DEF Extend
  <2> QED BY <1>3, <2>1 DEF Extend
<1>4. CASE QueueBehind
  <2>1. moved => After(chainCfg, start, last, goal')
    BY <1>1, <1>4, SameForAllHeld DEF QueueBehind
  <2> QED BY <1>4, <2>1 DEF QueueBehind
<1>5. CASE WaitFor
  <2>1. /\ last' \in Vc /\ last'.class \in VcClass(chainCfg)
        /\ MayHold(chainCfg, last', goal) /\ After(chainCfg, start, last', goal)
    BY <1>1, <1>2, <1>5, StepUp DEF WaitFor
  <2>2. ~Atomic(chainCfg, last')
    BY <1>5 DEF WaitFor, Atomic
  <2>3. After(chainCfg, start, last', goal')
    BY <1>1, <1>5, <2>1, <2>2, SameForAllHeld DEF WaitFor
  <2> QED BY <1>5, <2>1, <2>3 DEF WaitFor
<1>6. CASE Consumed
  BY <1>6 DEF Consumed, chainVars
<1>7. CASE UNCHANGED chainVars
  BY <1>7 DEF chainVars
<1> QED BY <1>3, <1>4, <1>5, <1>6, <1>7 DEF ChainNext

\* The last VC of a chain comes after its start, in the order of the algorithm.
THEOREM ChainInvariant ==
    ASSUME Configs \subseteq AllowedConfigs
    PROVE  ChainSpec => []ChainInv
<1>1. ChainInit => ChainInv
  BY ChainStarts
<1>2. ChainInv /\ [ChainNext]_chainVars => ChainInv'
  BY ChainStep
<1> QED BY <1>1, <1>2, PTL DEF ChainSpec

\* A mesh of any size, with any of its algorithms, and a torus with
\* deterministic routing are free of deadlock.
THEOREM NeverWaitsInACircle ==
    ASSUME Configs \subseteq AllowedConfigs
    PROVE  ChainSpec => []NoCircularWait
<1>1. ChainInv => NoCircularWait
  BY NeverAfterItself DEF ChainInv, ChainTypeOK, NoCircularWait
<1> QED BY <1>1, ChainInvariant, PTL


-----------------------------------------------------------------------------
(* The composition.                                                        *)

\* The packet is on its way, or rests at its destination.
PacketInv == IF part = "packet" THEN RouteInv ELSE PacketRests

\* The chain grows, or rests at the destination of its packet.
WaitInv == IF part = "chain" THEN ChainInv ELSE ChainRests

RoutingInv == PacketInv /\ WaitInv

-----------------------------------------------------------------------------
(* The chain.                                                              *)

LEMMA EndInNetwork ==
    ASSUME NEW v \in Vc
    PROVE  End(v) \in Router /\ v.from \in Router
<1>1. v.from \in Router /\ v.port \in Dir
  BY DEF Vc
<1>2. /\ v.from[1] \in 0 .. NX - 1 /\ v.from[2] \in 0 .. NY - 1
  BY <1>1 DEF Router
<1>3. /\ (IF v.from[1] < NX - 1 THEN v.from[1] + 1 ELSE 0) \in 0 .. NX - 1
      /\ (IF v.from[1] > 0 THEN v.from[1] - 1 ELSE NX - 1) \in 0 .. NX - 1
      /\ (IF v.from[2] < NY - 1 THEN v.from[2] + 1 ELSE 0) \in 0 .. NY - 1
      /\ (IF v.from[2] > 0 THEN v.from[2] - 1 ELSE NY - 1) \in 0 .. NY - 1
  BY <1>2, SizeAssumption
<1> QED
  BY <1>1, <1>2, <1>3 DEF End, Neighbor, Router

LEMMA ChainAtRest == ChainRests => ChainTypeOK
<1> SUFFICES ASSUME ChainRests PROVE ChainTypeOK
  OBVIOUS
<1>1. <<0, 0>> \in Router /\ <<1, 0>> \in Router /\ <<2, 0>> \in Router
  BY SizeAssumption, RestAssumption DEF Router
<1>2. /\ start \in Vc /\ last \in Vc
      /\ start.class = "escape" /\ last.class = "escape"
  BY <1>1 DEF ChainRests, Vc, Dir, DirX
<1>3. "escape" \in VcClass(chainCfg)
  BY DEF VcClass
<1> QED
  BY <1>1, <1>2, <1>3, RestAssumption DEF ChainRests, ChainTypeOK

\* The permitted ports in x, with x to go, and in y, without, have an escape VC
\* that a packet may ask for.
LEMMA EscapeOffered ==
    ASSUME NEW c \in AllowedConfigs, NEW r \in Router, NEW d \in Router, r # d
    PROVE  \E v \in Options(c, r, d, FALSE) : v.class = "escape"
<1> DEFINE out == PossibleOut(c, r, d, FALSE)
<1>1. out # {} /\ out \subseteq Dir
  <2> DEFINE no == FALSE
  <2>1. no \in BOOLEAN
    OBVIOUS
  <2> HIDE DEF no
  <2>2. PossibleOut(c, r, d, no) # {} /\ PossibleOut(c, r, d, no) \subseteq Dir
    BY <2>1, Permitted
  <2> QED
    BY <2>2 DEF no
<1>2. "escape" \in VcClass(c)
  BY DEF VcClass
<1> HIDE DEF out
<1>3. PICK p \in out : p \in DirY => out \cap DirX = {}
  BY <1>1 DEF Dir, DirX, DirY
<1> DEFINE v == [from |-> r, port |-> p, class |-> "escape"]
<1>4. v \in [from : {r}, port : out \cap Dir, class : VcClass(c)]
  BY <1>1, <1>2
<1>5. out \cap DirX # {} => v \notin [from : {r}, port : DirY, class : {"escape"}]
  BY <1>3
<1>6. v \in Options(c, r, d, FALSE)
  BY <1>4, <1>5 DEF Options, out
<1> QED
  BY <1>6

\* What is promised of a chain holds while it grows and where it rests.
LEMMA ChainGoesRight ==
    ASSUME Configs \subseteq AllowedConfigs, WaitInv
    PROVE  NoCircularWait /\ EscapeAlwaysOffered
<1>1. ChainTypeOK
  BY ChainAtRest DEF WaitInv, ChainInv
<1>2. End(last) \in Router /\ goal \in Router /\ chainCfg \in AllowedConfigs
  BY <1>1, EndInNetwork DEF ChainTypeOK
<1>3. EscapeAlwaysOffered
  BY <1>2, EscapeOffered DEF EscapeAlwaysOffered
<1>4. CASE part = "chain"
  <2>1. ~After(chainCfg, start, start, goal)
    BY <1>1, <1>2, NeverAfterItself DEF ChainTypeOK
  <2>2. NoCircularWait
    BY <1>4, <2>1 DEF WaitInv, ChainInv, NoCircularWait
  <2> QED
    BY <1>3, <2>2
<1>5. CASE part # "chain"
  <2>1. start.from[1] = 0 /\ last.from[1] = 1
    BY <1>5 DEF WaitInv, ChainRests
  <2>2. last # start
    BY <2>1
  <2> QED
    BY <1>3, <2>2 DEF NoCircularWait
<1> QED
  BY <1>4, <1>5

-----------------------------------------------------------------------------
(* The packet.                                                             *)

\* A grant of a packet on its way is an option.
LEMMA PacketOption ==
    ASSUME Configs \subseteq AllowedConfigs, RouteInv
    PROVE  GrantIsOption
<1> SUFFICES ASSUME ovc # None, ovc.port # "LOCAL"
             PROVE  [from |-> here, port |-> ovc.port, class |-> ovc.vc]
                       \in Options(cfg, here, dest, via = "LOCAL")
  BY DEF GrantIsOption, Delivered
<1> DEFINE n == via = "LOCAL"
           out == PossibleOut(cfg, here, dest, n)
           dx == Dx(cfg, here, dest)
           dy == Dy(cfg, here, dest)
           v == [from |-> here, port |-> ovc.port, class |-> ovc.vc]
<1>1. /\ cfg \in AllowedConfigs /\ here \in Router /\ dest \in Router /\ n \in BOOLEAN
      /\ ovc.port \in out /\ ovc.vc \in VcClass(cfg)
      /\ FullAdaptive(cfg) /\ ovc.port \in DirY /\ ovc.vc = "escape" => dx = 0
  BY DEF RouteInv, TypeOK
<1> HIDE DEF n
<1>2. /\ out \subseteq Dir
      /\ out \subseteq PortX(dx) \cup PortY(dy)
  BY <1>1, Permitted
<1>3. dx = 0 => out \cap DirX = {}
  BY <1>2 DEF PortX, PortY, DirX
<1> HIDE DEF dx, dy, out
<1>4. v \in [from : {here}, port : out \cap Dir, class : VcClass(cfg)]
  BY <1>1, <1>2
<1>5. FullAdaptive(cfg) /\ out \cap DirX # {} =>
         v \notin [from : {here}, port : DirY, class : {"escape"}]
  BY <1>1, <1>3
<1> HIDE DEF v
<1>6. v \in Options(cfg, here, dest, n)
  BY <1>4, <1>5 DEF Options, out
<1> QED
  BY <1>6 DEF v, n

\* What is promised of a packet holds on its way.
LEMMA PacketGoesRight ==
    ASSUME Configs \subseteq AllowedConfigs, RouteInv
    PROVE  TakesItsWay /\ RequestAssignable /\ GrantMatchesPort /\ GrantIsOption
<1>1. TypeOK /\ FollowsAlgorithm /\ GrantMatchesPort
  BY InvFollows, InvGrant DEF RouteInv
<1>2. RequestAssignable /\ ArrivesAtDistance
  BY InvAssignable, InvArrives
<1> QED
  BY <1>1, <1>2, PacketOption DEF TakesItsWay

\* And where it rests.
LEMMA PacketAtRest ==
    ASSUME PacketRests
    PROVE  TakesItsWay /\ RequestAssignable /\ GrantMatchesPort /\ GrantIsOption
<1>1. ovc.port = "LOCAL" /\ ovc.vc = "escape" /\ ovc \in Ovc /\ ovc # None
  BY NoneAssumption DEF PacketRests, Ovc
<1>2. <<0, 0>> \in Router
  BY SizeAssumption DEF Router
<1>3. TypeOK
  BY <1>1, <1>2, RestAssumption
     DEF PacketRests, TypeOK, VcClass, FullAdaptive, Code
<1>4. Distance(cfg, src, dest) = 1
  BY DEF PacketRests, Distance, Abs
<1>5. ArrivesAtDistance
  BY <1>4 DEF PacketRests, ArrivesAtDistance
<1>6. Requested(code) = {"LOCAL"}
  BY DEF PacketRests, Requested
<1> QED
  BY <1>1, <1>3, <1>5, <1>6 DEF TakesItsWay, FollowsAlgorithm,
     RequestAssignable, GrantMatchesPort, GrantIsOption, Delivered

-----------------------------------------------------------------------------
LEMMA RoutingInit ==
    ASSUME Configs \subseteq AllowedConfigs, MCInit
    PROVE  RoutingInv
<1>1. CASE part = "packet" /\ Init /\ ChainRests
  BY <1>1, RouteInit DEF RoutingInv, PacketInv, WaitInv
<1>2. CASE part = "chain" /\ ChainInit /\ PacketRests
  BY <1>2, ChainStarts DEF RoutingInv, PacketInv, WaitInv
<1>3. CASE part = "rank" /\ ChainRests /\ PacketRests
  BY <1>3 DEF RoutingInv, PacketInv, WaitInv
<1> QED
  BY <1>1, <1>2, <1>3 DEF MCInit

LEMMA RoutingStep ==
    ASSUME Configs \subseteq AllowedConfigs, RoutingInv,
           [MCNext]_<<part, vars, chainVars, ranking>>
    PROVE  RoutingInv'
<1>1. ASSUME UNCHANGED <<part, chainVars>> PROVE WaitInv'
  <2>1. part = "chain" => ChainInv'
    BY <1>1, ChainStep DEF RoutingInv, WaitInv
  <2>2. ChainRests => ChainRests'
    BY <1>1 DEF chainVars, ChainRests
  <2> QED
    BY <1>1, <2>1, <2>2 DEF RoutingInv, WaitInv
<1>2. ASSUME UNCHANGED <<part, vars>> PROVE PacketInv'
  <2>1. part = "packet" => RouteInv'
    BY <1>2, RouteStep DEF RoutingInv, PacketInv
  <2>2. PacketRests => PacketRests'
    BY <1>2 DEF vars, PacketRests
  <2> QED
    BY <1>2, <2>1, <2>2 DEF RoutingInv, PacketInv
<1>3. CASE part = "packet" /\ Next /\ UNCHANGED <<part, chainVars>>
  <2>1. RouteInv'
    BY <1>3, RouteStep DEF RoutingInv, PacketInv
  <2> QED
    BY <1>1, <1>3, <2>1 DEF RoutingInv, PacketInv
<1>4. CASE part = "chain" /\ ChainNext /\ UNCHANGED <<part, vars>>
  <2>1. ChainInv'
    BY <1>4, ChainStep DEF RoutingInv, WaitInv
  <2> QED
    BY <1>2, <1>4, <2>1 DEF RoutingInv, WaitInv
<1>5. CASE UNCHANGED <<part, vars, chainVars>>
  BY <1>1, <1>2, <1>5 DEF RoutingInv
<1> QED
  BY <1>3, <1>4, <1>5 DEF MCNext

\* The packet and the chain stay in their invariants, whichever part runs.
THEOREM RoutingInvariant ==
    ASSUME Configs \subseteq AllowedConfigs
    PROVE  MCSpec => []RoutingInv
<1>1. MCInit => RoutingInv
  BY RoutingInit
<1>2. RoutingInv /\ [MCNext]_<<part, vars, chainVars, ranking>> => RoutingInv'
  BY RoutingStep
<1> QED
  BY <1>1, <1>2, PTL DEF MCSpec

\* A packet takes the way its algorithm promises, of the shortest length, in
\* meshes and deterministic tori of any size.
THEOREM RoutesFollowTheAlgorithm ==
    ASSUME Configs \subseteq AllowedConfigs
    PROVE  MCSpec => []TakesItsWay
<1>1. RoutingInv => TakesItsWay
  BY PacketGoesRight, PacketAtRest DEF RoutingInv, PacketInv
<1> QED
  BY <1>1, RoutingInvariant, PTL

\* Every request is wired, every granted VC is an option of the packet's, and
\* the options always have an escape VC.
THEOREM GrantsAreLegal ==
    ASSUME Configs \subseteq AllowedConfigs
    PROVE  MCSpec => []GrantIsLegal
<1>1. RoutingInv => GrantIsLegal
  BY PacketGoesRight, PacketAtRest, ChainGoesRight
     DEF RoutingInv, PacketInv, GrantIsLegal
<1> QED
  BY <1>1, RoutingInvariant, PTL

\* No chain of waiting packets closes, whichever part runs.
THEOREM NetworkNeverWaitsInACircle ==
    ASSUME Configs \subseteq AllowedConfigs
    PROVE  MCSpec => []NoCircularWait
<1>1. RoutingInv => NoCircularWait
  BY ChainGoesRight DEF RoutingInv
<1> QED
  BY <1>1, RoutingInvariant, PTL

=============================================================================
