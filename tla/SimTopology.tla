---------------------------- MODULE SimTopology -----------------------------
(***************************************************************************)
(* The topologies as the Verilator simulator wires them (topology/*.h):    *)
(* which router port is copied from which, where the end points are, the   *)
(* addresses of routers and end points, and the distance that statistics   *)
(* use.  topo names a topology and its parameters T1 .. T4; the tables are *)
(* computed once, by topology_init.                                        *)
(*                                                                         *)
(* On these tables, where a traffic generator sends its next packet, and   *)
(* how long it is (traffic_synthetic.h, pck_dst_gen and get_new_pck_size   *)
(* of simulator.cpp).  A step generates one packet; the random numbers it  *)
(* draws are nondeterministic.  Destinations are the addresses given to    *)
(* the hardware: of an end point, with a unicast flag below it, or one bit *)
(* per end point or per member of the multicast list.                      *)
(***************************************************************************)
EXTENDS Integers, Sequences, FiniteSets, FiniteSetsExt, SequencesExt, Functions

CONSTANTS
    Topologies,    \* the instances, [kind, t1, t2, t3, t4, cast]
    Traffics,      \* the values of TRAFFIC
    SelfLoopEn,    \* SELF_LOOP_EN
    HotspotArgs,   \* after the number: ip, send enable and percentage of each
    CustomArgs,    \* pairs of a source and its destination
    McastDigits,   \* MCAST_ENDP_LIST: the digits as written, highest first
    DigitBits,     \* 4 for a hexadecimal list, 1 for a binary one
    SizeArgs,      \* the packet size: sizes and their percentages, which are
                   \* none for a range of two sizes
    McastSizes     \* mcast.min and mcast.max

VARIABLES
    topo,      \* the topology, from the parameters of the generated NoC
    r2r,       \* r2r_cnt_all: the links, each copied from r2, p2 to r1, p1
    r2e,       \* r2e_cnt_all: <<end point, router, port>>
    er_addr,   \* the address of the router of each end point
    req        \* the last packet: core_num, traffic, dest, size

vars == <<topo, r2r, r2e, er_addr>>

T1 == topo.t1
T2 == topo.t2
T3 == topo.t3
T4 == topo.t4

Is(kinds) == topo.kind \in kinds
Line3D    == {"line", "ring", "mesh", "torus", "fmesh", "mesh3d"}
Trees     == {"fattree", "tree"}

-----------------------------------------------------------------------------
(* topology_top.h                                                          *)

powi(x, y)     == x ^ y
sum_powi(x, y) == MapThenSumSet(LAMBDA i : powi(x, i), 0 .. y - 1)

\* The width of an index, at least one bit.
Log2(n) == CHOOSE l \in 1 .. 8 : /\ 2 ^ l >= n
                                 /\ l = 1 \/ 2 ^ (l - 1) < n

-----------------------------------------------------------------------------
(* mesh.h: meshes, tori, lines, rings and the full mesh                    *)

LOCAL_ == 0
EAST  == 1
NORTH == 2
SOUTH == 4
UP    == 5
DOWN  == 6
WEST  == IF Is({"line", "ring"}) THEN 2 ELSE 3

DIM   == IF Is({"line", "ring"}) THEN 1 ELSE IF Is({"mesh3d"}) THEN 3 ELSE 2
X_MAX == T1
Y_MAX == IF DIM = 1 THEN 1 ELSE T2
Z_MAX == IF DIM = 3 THEN T3 ELSE 1
L_MAX == IF DIM = 3 THEN T4 ELSE T3

R2R_CHANELS_MESH_TORI == 2 * DIM

router_id(c)  == (c.z * Y_MAX * X_MAX) + (c.y * X_MAX) + c.x
endp_id(c, l) == (router_id(c) * L_MAX) + l
Coords        == [x : 0 .. X_MAX - 1, y : 0 .. Y_MAX - 1, z : 0 .. Z_MAX - 1]

\* The end points of an fmesh at the top, bottom, left and right edge follow
\* those of the routers; the last coordinate is the port.
FmeshEidToCoords(id) ==
    LET diff == id - T1 * T2 * T3
        l    == id % T3
    IN  IF diff < 0
        THEN [x |-> (id \div T3) % T1, y |-> (id \div T3) \div T1, z |-> 0,
              l |-> IF l = 0 THEN LOCAL_ ELSE 4 + l]
        ELSE IF diff < T1     THEN [x |-> diff, y |-> 0, z |-> 0, l |-> NORTH]
        ELSE IF diff < 2 * T1 THEN [x |-> diff - T1, y |-> T2 - 1, z |-> 0, l |-> SOUTH]
        ELSE IF diff < 2 * T1 + T2
             THEN [x |-> 0, y |-> diff - 2 * T1, z |-> 0, l |-> WEST]
        ELSE [x |-> T1 - 1, y |-> diff - 2 * T1 - T2, z |-> 0, l |-> EAST]

EidToCoords(id) ==
    LET rid == id \div L_MAX
    IN  IF Is({"fmesh"}) THEN FmeshEidToCoords(id)
        ELSE [x |-> rid % X_MAX, y |-> (rid \div X_MAX) % Y_MAX,
              z |-> rid \div (X_MAX * Y_MAX), l |-> id % L_MAX]

nxw == Log2(X_MAX)
nyw == Log2(Y_MAX)
nzw == Log2(Z_MAX)

\* The fields of an address, from the lowest: x, y, z, l.
CoordsToEaddr(c) ==
    c.x + (IF DIM > 1 THEN c.y * 2 ^ nxw ELSE 0)
        + (IF DIM > 2 THEN c.z * 2 ^ (nxw + nyw) ELSE 0)
        + c.l * 2 ^ (nxw + (IF DIM > 1 THEN nyw ELSE 0) + (IF DIM > 2 THEN nzw ELSE 0))

EaddrToCoords(code) ==
    LET c1 == code \div 2 ^ nxw
        c2 == IF DIM > 1 THEN c1 \div 2 ^ nyw ELSE c1
        c3 == IF DIM > 2 THEN c2 \div 2 ^ nzw ELSE c2
    IN  [x |-> code % 2 ^ nxw,
         y |-> IF DIM > 1 THEN c1 % 2 ^ nyw ELSE 0,
         z |-> IF DIM > 2 THEN c2 % 2 ^ nzw ELSE 0,
         l |-> c3]

\* Mutation: the end points of the bottom edge decoded like those of the top.
FmeshDecodeSouth(c) ==
    LET local == T1 * T2 * T3
    IN  IF c.l = LOCAL_ THEN (c.y * T1 + c.x) * T3
        ELSE IF c.l > SOUTH THEN (c.y * T1 + c.x) * T3 + (c.l - SOUTH)
        ELSE local + (CASE c.l = NORTH -> c.x [] c.l = SOUTH -> c.x
                        [] c.l = WEST -> 2 * T1 + c.y
                        [] c.l = EAST -> 2 * T1 + T2 + c.y)

FmeshDecode(c) ==
    LET local == T1 * T2 * T3
    IN  IF c.l = LOCAL_ THEN (c.y * T1 + c.x) * T3
        ELSE IF c.l > SOUTH THEN (c.y * T1 + c.x) * T3 + (c.l - SOUTH)
        ELSE local + (CASE c.l = NORTH -> c.x [] c.l = SOUTH -> T1 + c.x
                        [] c.l = WEST -> 2 * T1 + c.y
                        [] c.l = EAST -> 2 * T1 + T2 + c.y)

\* A destination's port at a router where there is no edge on that side.
FmeshLCoordsFix(x, y, l) ==
    CASE l = LOCAL_ \/ l > SOUTH -> l
      [] (x = 0 /\ l = WEST) \/ (x = T1 - 1 /\ l = EAST) -> l
      [] (y = 0 /\ l = NORTH) \/ (y = T2 - 1 /\ l = SOUTH) -> l
      [] OTHER -> IF x = 0 THEN WEST ELSE IF x = T1 - 1 THEN EAST
                  ELSE IF y = 0 THEN NORTH ELSE IF y = T2 - 1 THEN SOUTH
                  ELSE LOCAL_

\* The ports towards neighbours: port, the port met there, direction.
Steps ==
    {[p |-> EAST, q |-> WEST, dx |-> 1, dy |-> 0, dz |-> 0],
     [p |-> WEST, q |-> EAST, dx |-> -1, dy |-> 0, dz |-> 0]} \cup
    (IF DIM = 1 THEN {} ELSE
    {[p |-> SOUTH, q |-> NORTH, dx |-> 0, dy |-> 1, dz |-> 0],
     [p |-> NORTH, q |-> SOUTH, dx |-> 0, dy |-> -1, dz |-> 0]}) \cup
    (IF DIM < 3 THEN {} ELSE
    {[p |-> UP, q |-> DOWN, dx |-> 0, dy |-> 0, dz |-> 1],
     [p |-> DOWN, q |-> UP, dx |-> 0, dy |-> 0, dz |-> -1]})

Beyond(c, s)  == [x |-> c.x + s.dx, y |-> c.y + s.dy, z |-> c.z + s.dz]
Wrapped(c, s) == [x |-> (c.x + s.dx) % X_MAX, y |-> (c.y + s.dy) % Y_MAX,
                  z |-> (c.z + s.dz) % Z_MAX]

Link(r1, p1, r2, p2) == [r1 |-> r1, p1 |-> p1, r2 |-> r2, p2 |-> p2]

\* topology_init: an input channel copied from the neighbour's output, also
\* around the edge of a torus or ring (topology_edge_connect).
MeshLinks ==
    {Link(router_id(cs[1]), cs[2].p, router_id(Wrapped(cs[1], cs[2])), cs[2].q) :
        cs \in {cs \in Coords \X Steps :
                   Is({"torus", "ring"}) \/ Beyond(cs[1], cs[2]) \in Coords}}

MeshRouterAddr(r) ==
    LET c == CHOOSE c \in Coords : router_id(c) = r
    IN  c.z * 2 ^ (nxw + nyw) + c.y * 2 ^ nxw + c.x

\* The local ports after the first follow the neighbours' ones; the edge
\* ports of an fmesh lead to end points.
MeshEndpoints ==
    {<<endp_id(c, l), router_id(c),
       IF l = 0 THEN l ELSE l + R2R_CHANELS_MESH_TORI>> :
        c \in Coords, l \in 0 .. L_MAX - 1} \cup
    (IF ~Is({"fmesh"}) THEN {}
     ELSE LET n == T1 * T2 * T3
              At(x, y) == router_id([x |-> x, y |-> y, z |-> 0])
          IN  {<<n + x, At(x, 0), NORTH>> : x \in 0 .. T1 - 1} \cup
              {<<n + T1 + x, At(x, T2 - 1), SOUTH>> : x \in 0 .. T1 - 1} \cup
              {<<n + 2 * T1 + y, At(0, y), WEST>> : y \in 0 .. T2 - 1} \cup
              {<<n + 2 * T1 + T2 + y, At(T1 - 1, y), EAST>> : y \in 0 .. T2 - 1})

Abs(n) == IF n < 0 THEN -n ELSE n

MeshDistance(a, b) ==
    LET c == EidToCoords(a)  d == EidToCoords(b)
    IN  Abs(c.x - d.x) + Abs(c.y - d.y) + Abs(c.z - d.z)

-----------------------------------------------------------------------------
(* fattree.h and tree.h: K = T1 children, L = T2 levels                    *)

K   == T1
L   == T2
LKw == L * Log2(K)

\* A position as L digits to the base K, each in a field of kw bits.
Digit(place, i) == (place \div powi(K, i)) % K
kw            == CHOOSE w \in 0 .. 8 : 2 ^ w >= K /\ (w = 0 \/ 2 ^ (w - 1) < K)

TreeEncode(place) == MapThenSumSet(LAMBDA i : Digit(place, i) * 2 ^ (i * kw), 0 .. L - 1)

TreeDecode(code) ==
    MapThenSumSet(LAMBDA i : ((code \div 2 ^ (i * kw)) % 2 ^ kw) * powi(K, i),
                  0 .. L - 1)

NPOS == powi(K, L - 1)          \* routers per layer of a fat tree
CHAN_PER_LEVEL == 2 * K * NPOS

\* The link of a down port, numbered within its level.
FattreeLink(level, place, port) ==
    LET neighborhood == powi(K, L - 1 - level)
        branch       == powi(K, L - 2 - level)
        npos         == place % neighborhood
    IN  (level + 1) * CHAN_PER_LEVEL
        + (place \div neighborhood) * neighborhood * K
        + port * branch * K + (npos % branch) * K + (npos \div branch)

FattreeLinks ==
    {LET link == FattreeLink(level, place, port)
         at   == link % CHAN_PER_LEVEL
     IN  Link(NPOS * level + place, port,
              NPOS * (link \div CHAN_PER_LEVEL) + (at \div K), (at % K) + K) :
        level \in 0 .. L - 2, place \in 0 .. NPOS - 1, port \in 0 .. K - 1}

FattreeRouterAddr(r) == (L - 1 - r \div NPOS) * 2 ^ LKw + TreeEncode(r % NPOS)

FattreeEndpoints ==
    {<<e, NPOS * (L - 1) + (e \div K), e % K>> : e \in 0 .. powi(K, L) - 1}

\* Each router of a tree but the root has its parent at port K.
TreeLinks ==
    UNION {{Link(sum_powi(K, level) + place, K,
                 sum_powi(K, level - 1) + (place \div K), place % K) :
               place \in 0 .. powi(K, level) - 1} : level \in 1 .. L - 1}

TreeRouterAddr(r) ==
    LET level == CHOOSE l \in 0 .. L - 1 : /\ sum_powi(K, l) <= r
                                           /\ r < sum_powi(K, l + 1)
        up    == L - 1 - level
    IN  up * 2 ^ LKw + TreeEncode((r - sum_powi(K, level)) * powi(K, up))

TreeEndpoints ==
    {<<e, sum_powi(K, L - 1) + (e \div K), e % K>> : e \in 0 .. powi(K, L) - 1}

\* The highest digit in which two positions differ.
TreeDistance(a, b) ==
    LET differ == {i \in 0 .. L - 1 : Digit(a, i) # Digit(b, i)}
    IN  IF differ = {} THEN 0 ELSE (Max(differ) + 1) * 2 - 1

-----------------------------------------------------------------------------
(* star.h: one router.  custom/mesh4x4_noc.h and custom/custom1_noc.h: the *)
(* generated tables, router numbers as the simulator numbers instances.    *)

StarEndpoints == {<<e, 0, e>> : e \in 0 .. T1 - 1}

\* Rows 2, 0, 1, 3 of a mesh of four by four are instances 0, 4, 8, 12.
InstanceOf(n) == CASE n \div 4 = 0 -> n + 4 [] n \div 4 = 1 -> n + 4
                   [] n \div 4 = 2 -> n - 8 [] OTHER -> n

Mesh4x4Links ==
    LET R(x, y) == InstanceOf(4 * y + x)
    IN  UNION {{Link(R(x, y), 1, R(x + 1, y), 3), Link(R(x + 1, y), 3, R(x, y), 1)} :
                  x \in 0 .. 2, y \in 0 .. 3} \cup
        UNION {{Link(R(x, y), 4, R(x, y + 1), 2), Link(R(x, y + 1), 2, R(x, y), 4)} :
                  x \in 0 .. 3, y \in 0 .. 2}

Mesh4x4Endpoints == {<<e, InstanceOf(e), 0>> : e \in 0 .. 15}

\* r2r_cnt_all: per router, what each port from 1 on is copied from.
Custom1Table ==
    <<<<<<10, 3>>, <<9, 3>>>>, <<<<7, 3>>, <<2, 2>>>>,
      <<<<11, 2>>, <<1, 2>>>>, <<<<11, 3>>, <<4, 2>>>>,
      <<<<13, 2>>, <<3, 2>>, <<6, 3>>>>, <<<<15, 4>>, <<6, 2>>, <<9, 2>>>>,
      <<<<13, 3>>, <<5, 2>>, <<4, 3>>>>, <<<<8, 3>>, <<10, 2>>, <<1, 1>>>>,
      <<<<12, 4>>, <<14, 3>>, <<7, 1>>>>, <<<<12, 2>>, <<5, 3>>, <<0, 2>>>>,
      <<<<12, 3>>, <<7, 2>>, <<0, 1>>>>, <<<<14, 4>>, <<2, 1>>, <<3, 1>>>>,
      <<<<15, 1>>, <<9, 1>>, <<10, 1>>, <<8, 1>>>>, <<<<15, 3>>, <<4, 1>>, <<6, 1>>, <<14, 2>>>>,
      <<<<15, 2>>, <<13, 4>>, <<8, 2>>, <<11, 1>>>>, <<<<12, 1>>, <<14, 1>>, <<13, 1>>, <<5, 1>>>>>>

Custom1Links ==
    UNION {{Link(r, p, Custom1Table[r + 1][p][1], Custom1Table[r + 1][p][2]) :
                p \in DOMAIN Custom1Table[r + 1]} : r \in 0 .. 15}

Custom1Endpoints == {<<e, e, 0>> : e \in 0 .. 15}

-----------------------------------------------------------------------------
(* The tables of a topology, as main uses them.                            *)

\* fattree_connect copies a link in both directions.
BothWays(links) == links \cup {Link(l.r2, l.p2, l.r1, l.p1) : l \in links}

Copies ==
    CASE Is(Line3D)       -> MeshLinks
      [] Is({"fattree"})  -> BothWays(FattreeLinks)
      [] Is({"tree"})     -> BothWays(TreeLinks)
      [] Is({"star"})     -> {}
      [] Is({"mesh4x4"})  -> Mesh4x4Links
      [] Is({"custom1"})  -> Custom1Links

\* <<end point, router, port>>
Endpoints ==
    CASE Is(Line3D)       -> MeshEndpoints
      [] Is({"fattree"})  -> FattreeEndpoints
      [] Is({"tree"})     -> TreeEndpoints
      [] Is({"star"})     -> StarEndpoints
      [] Is({"mesh4x4"})  -> Mesh4x4Endpoints
      [] Is({"custom1"})  -> Custom1Endpoints

endp_addr_encoder(id) ==
    IF Is(Line3D) THEN CoordsToEaddr(EidToCoords(id))
    ELSE IF Is(Trees) THEN TreeEncode(id) ELSE id

endp_addr_decoder(code) ==
    IF Is({"fmesh"}) THEN FmeshDecode(EaddrToCoords(code))
    ELSE IF Is(Line3D) THEN endp_id(EaddrToCoords(code), EaddrToCoords(code).l)
    ELSE IF Is(Trees) THEN TreeDecode(code) ELSE code

get_mah_distance(a, b) == IF Is(Trees) THEN TreeDistance(a, b) ELSE MeshDistance(a, b)

\* The address of router r; the generated topologies use its number.
RouterAddr(r) ==
    CASE Is(Line3D)      -> MeshRouterAddr(r)
      [] Is({"fattree"}) -> FattreeRouterAddr(r)
      [] Is({"tree"})    -> TreeRouterAddr(r)
      [] OTHER           -> r

Init ==
    /\ topo \in Topologies
    /\ r2r = {} /\ r2e = {} /\ er_addr = <<>>

\* topology_init
TopologyInit ==
    /\ r2e = {}
    /\ r2r' = Copies /\ r2e' = Endpoints
    /\ er_addr' = [e \in {x[1] : x \in r2e'} |->
                        RouterAddr((CHOOSE x \in r2e' : x[1] = e)[2])]
    /\ UNCHANGED topo

Next == TopologyInit

Spec == Init /\ [][Next]_vars

-----------------------------------------------------------------------------
(* Properties of the tables.                                               *)

Endp       == DOMAIN er_addr
Routers    == {e[2] : e \in r2e} \cup {l.r1 : l \in r2r}

\* Hops[r][q] is the length of the shortest path from router r to q.
Hops ==
    LET near == [q \in Routers |-> {l.r1 : l \in {m \in r2r : m.r2 = q}}]
        Grow(balls, j) ==
            Append(balls, balls[j] \cup UNION {near[q] : q \in balls[j]})
        Balls(r) == FoldLeft(Grow, <<{r}>>, [j \in 1 .. Cardinality(Routers) |-> j])
    IN  [r \in Routers |->
            LET balls == Balls(r)
            IN  [q \in UNION Range(balls) |->
                    Min({j \in DOMAIN balls : q \in balls[j]}) - 1]]

\* The simulator's wiring is a network: an input channel has one driver, a
\* link leads back to where it comes from, a port has a neighbour or an end
\* point but not both, and there is a path from every router to every other.
WiringSound ==
    LET ports == {<<l.r1, l.p1>> : l \in r2r}
        ends  == {<<e[2], e[3]>> : e \in r2e}
    IN  /\ Cardinality(ports) = Cardinality(r2r)
        /\ \A l \in r2r : Link(l.r2, l.p2, l.r1, l.p1) \in r2r
        /\ Cardinality(r2e) = Cardinality(ends) /\ ends \cap ports = {}
        /\ LET hops == Hops IN \A r \in Routers : DOMAIN hops[r] = Routers

\* Statistics and packets find their end points: the address an end point
\* sends decodes to its number, and the address of its router beside it
\* (er_addr) is its own without the local part.
AddressesDecode ==
    /\ Endp = 0 .. Cardinality(r2e) - 1
    /\ \A e \in Endp : endp_addr_decoder(endp_addr_encoder(e)) = e
    /\ Is(Line3D) => \A e \in Endp :
           LET c == EidToCoords(e) IN er_addr[e] = CoordsToEaddr([c EXCEPT !.l = 0])
    /\ Is(Trees) => \A e \in Endp : er_addr[e] = TreeEncode(e \div K)

\* The distance of the statistics is that of the wiring: links in a mesh
\* (a torus may be shorter), routers in a tree.
DistanceOfWiring ==
    Is(Line3D \cup Trees) =>
        LET hops == Hops
            RouterOf == [e \in Endp |-> (CHOOSE x \in r2e : x[1] = e)[2]]
        IN  \A a, b \in Endp :
                LET d == hops[RouterOf[a]][RouterOf[b]]
                IN  IF Is(Trees) THEN get_mah_distance(a, b) = IF a = b THEN 0 ELSE d + 1
                    ELSE IF Is({"torus", "ring"}) THEN get_mah_distance(a, b) >= d
                    ELSE get_mah_distance(a, b) = d

-----------------------------------------------------------------------------
(* The packets of a traffic pattern.                                       *)

INJECT_OFF == -1

allVars == <<vars, req>>

EndpNum == Cardinality(r2e)

\* CAST_TYPE: unicast, full, partial or bcast.
CAST_TYPE == topo.cast

-----------------------------------------------------------------------------
(* The arguments: update_hotspot, update_custom_traffic, mcast_init and    *)
(* update_pck_size.                                                        *)

\* The percentages accumulate.
Hotspots ==
    [i \in 1 .. Len(HotspotArgs) \div 3 |->
        [ip_num |-> HotspotArgs[3 * i - 2], send_enable |-> HotspotArgs[3 * i - 1],
         percentage |-> MapThenSumSet(LAMBDA j : HotspotArgs[3 * j], 1 .. i)]]

CustomTable ==
    [e \in Endp |->
        LET given == {i \in 1 .. Len(CustomArgs) \div 2 : CustomArgs[2 * i - 1] = e}
        IN  IF given = {} THEN INJECT_OFF ELSE CustomArgs[2 * Max(given)]]

\* mcast_list_array: the digits are reversed, the lowest bit is end point 0.
McastList(e) ==
    (McastDigits[Len(McastDigits) - (e \div DigitBits)] \div 2 ^ (e % DigitBits)) % 2 = 1

endp_id_to_mcast_id(e) == Cardinality({i \in Endp : i < e /\ McastList(i)})

\* discrete_prob
DiscreteProb ==
    [i \in DOMAIN SizeArgs.sizes |->
        MapThenSumSet(LAMBDA j : SizeArgs.prob[j], 1 .. i)]

rnd_between(a, b) == IF a < b THEN a .. b ELSE b .. a

\* get_new_pck_size: rnd is at most the sum of the percentages up to a size.
NewPckSizes ==
    IF SizeArgs.prob = <<>> THEN rnd_between(SizeArgs.sizes[1], SizeArgs.sizes[2])
    ELSE {LET above == {i \in DOMAIN DiscreteProb : rnd <= DiscreteProb[i]}
          IN  IF above = {} THEN 0 ELSE SizeArgs.sizes[Min(above)] : rnd \in 0 .. 99}

-----------------------------------------------------------------------------
(* pck_dst_gen_synthetic.                                                  *)

get_rnd_ip(core) == IF SelfLoopEn THEN Endp ELSE Endp \ {core}

NEw == Log2(EndpNum)

getBit(n, b)  == (n \div 2 ^ (b % NEw)) % 2
Bit == 0 .. NEw - 1
FromBits(bits) == MapThenSumSet(LAMBDA i : bits[i] * 2 ^ i, Bit)

Unregular == ~Is(Line3D)

\* The coordinates and their numbers; NL of an fmesh is written T3+4 with no
\* parentheses.
NX == IF Unregular THEN EndpNum ELSE X_MAX
NY == IF Unregular THEN 1 ELSE Y_MAX
NZ == IF Unregular THEN 1 ELSE Z_MAX
NL == IF Unregular THEN 1 ELSE IF Is({"fmesh"}) THEN T3 + 4 ELSE L_MAX

Current(core) == IF Unregular THEN [x |-> core, y |-> 0, z |-> 0, l |-> 0]
                              ELSE EidToCoords(core)

Tornado(v, n) == IF n = 1 THEN 0 ELSE (v + (n \div 2) - 1) % n

TornadoL(l) == IF Is({"fmesh"}) THEN ((l + T3 + 2 - 1) % T3) + 4 ELSE Tornado(l, NL)

Transposed1(c) ==
    [x |-> IF NZ = 1 /\ NY = 1 THEN NX - c.x - 1 ELSE (NY - c.y - 1) % NX,
     y |-> IF NZ = 1 THEN (NX - c.x - 1) % NY ELSE (NZ - c.z - 1) % NY,
     z |-> (NX - c.x - 1) % NZ, l |-> NL - c.l - 1]

Transposed2(c) ==
    LET x == IF NZ = 1 /\ NY = 1 THEN NX - c.x - 1 ELSE c.y % NX
    IN  [x |-> x, y |-> IF NZ = 1 THEN c.x % NY ELSE c.z % NY,
         z |-> x % NZ, l |-> NL - c.l - 1]

TornadoOf(c) == [x |-> (c.x + (NX \div 2) - 1) % NX, y |-> Tornado(c.y, NY),
                 z |-> Tornado(c.z, NZ), l |-> TornadoL(c.l)]

Neighbor(c) == [x |-> (c.x + 1) % NX, y |-> (c.y + 1) % NY, z |-> (c.z + 1) % NZ,
                l |-> c.l]

pck_dst_gen_return_func(c) ==
    IF Unregular THEN endp_addr_encoder(c.x)
    ELSE CoordsToEaddr(IF Is({"fmesh"}) THEN [c EXCEPT !.l = FmeshLCoordsFix(c.x, c.y, c.l)]
                                        ELSE c)

\* A draw below the percentage of a hotspot other than the source goes there.
HotspotDests(core) ==
    LET To(rnd1000) == {i \in DOMAIN Hotspots : /\ rnd1000 < Hotspots[i].percentage
                                                /\ core # Hotspots[i].ip_num}
        bounds == {Hotspots[i].percentage : i \in DOMAIN Hotspots} \ {1000}
    IN  IF \E i \in DOMAIN Hotspots : Hotspots[i].send_enable = 0 /\ core = Hotspots[i].ip_num
        THEN {INJECT_OFF}
        ELSE UNION {IF To(r) = {} THEN {endp_addr_encoder(e) : e \in get_rnd_ip(core)}
                    ELSE {endp_addr_encoder(Hotspots[Min(To(r))].ip_num)} :
                       r \in {0} \cup bounds}

\* The addresses pck_dst_gen_synthetic may return.
SyntheticDests(core, traffic) ==
    LET c == Current(core)
    IN  CASE traffic = "RANDOM"  -> {endp_addr_encoder(e) : e \in get_rnd_ip(core)}
          [] traffic = "HOTSPOT" -> HotspotDests(core)
          [] traffic = "CUSTOM"  -> {IF CustomTable[core] = INJECT_OFF THEN INJECT_OFF
                                     ELSE endp_addr_encoder(CustomTable[core])}
          [] traffic = "BIT_REVERSE" ->
                {endp_addr_encoder(FromBits([i \in Bit |-> getBit(core, NEw - i - 1)]))}
          [] traffic = "BIT_COMPLEMENT" ->
                {endp_addr_encoder(FromBits([i \in Bit |-> 1 - getBit(core, i)]))}
          [] traffic = "SHUFFLE" -> {endp_addr_encoder(FromBits([i \in Bit |-> getBit(core, i - 1)]))}
          [] traffic = "BIT_ROTATION" ->
                {endp_addr_encoder(FromBits([i \in Bit |-> getBit(core, i + 1)]))}
          [] traffic = "TRANSPOSE1" -> {pck_dst_gen_return_func(Transposed1(c))}
          [] traffic = "TRANSPOSE2" -> {pck_dst_gen_return_func(Transposed2(c))}
          [] traffic = "TORNADO"    -> {pck_dst_gen_return_func(TornadoOf(c))}
          [] traffic = "NEIGHBOR"   -> {pck_dst_gen_return_func(Neighbor(c))}

-----------------------------------------------------------------------------
(* pck_dst_gen: multicast and broadcast destinations.                      *)

OneHot(ids) == MapThenSumSet(LAMBDA i : 2 ^ i, ids)

\* mcast_full_rnd: drawn again until a bit is left.
McastFullRnd(core) ==
    {OneHot(ids) : ids \in (SUBSET get_rnd_ip(core)) \ {{}}}

\* Mutation: the bit of the end point's own number is cleared.
McastPartialOwnNumber(core) ==
    LET members == 1 .. Cardinality({e \in Endp : McastList(e)})
        self    == IF McastList(core) /\ ~SelfLoopEn THEN {core} ELSE {}
    IN  {OneHot(ids) : ids \in (SUBSET (members \ self)) \ {{}}}

\* mcast_partial_rnd: bit 0 is the unicast flag.
McastPartialRnd(core) ==
    LET members == 1 .. Cardinality({e \in Endp : McastList(e)})
        self    == IF McastList(core) /\ ~SelfLoopEn
                   THEN {endp_id_to_mcast_id(core) + 1} ELSE {}
    IN  {OneHot(ids) : ids \in (SUBSET (members \ self)) \ {{}}}

\* A unicast packet among multicast traffic.
UnicastOf(core, dest) ==
    IF ~SelfLoopEn /\ endp_addr_decoder(dest) = core THEN INJECT_OFF
    ELSE IF CAST_TYPE = "full" THEN OneHot({endp_addr_decoder(dest)}) ELSE 2 * dest + 1

McastDests(core) ==
    CASE CAST_TYPE = "full"    -> McastFullRnd(core)
      [] CAST_TYPE = "partial" -> McastPartialRnd(core)
      [] CAST_TYPE = "bcast"   -> {0}

\* <<destination, size>>; a multicast packet has a size of its own.
Packets(core, traffic) ==
    LET synthetic == SyntheticDests(core, traffic)
    IN  IF CAST_TYPE = "unicast" \/ synthetic = {INJECT_OFF}
        THEN synthetic \X NewPckSizes
        ELSE ({UnicastOf(core, d) : d \in synthetic} \X NewPckSizes) \cup
             (McastDests(core) \X rnd_between(McastSizes[1], McastSizes[2]))

PckDstGen(core, traffic) ==
    /\ r2e # {}
    /\ \E p \in Packets(core, traffic) :
          req' = [core |-> core, traffic |-> traffic, dest |-> p[1], size |-> p[2]]
    /\ UNCHANGED vars

NoReq == [core |-> 0, traffic |-> "", dest |-> INJECT_OFF, size |-> 0]

PatternInit == Init /\ req = NoReq

PatternNext ==
    \/ TopologyInit /\ UNCHANGED req
    \/ /\ req = NoReq
       /\ \E core \in Endp, t \in Traffics : PckDstGen(core, t)

PatternSpec == PatternInit /\ [][PatternNext]_allVars

-----------------------------------------------------------------------------
(* Property of the packets.                                                *)

\* The end points that the hardware takes a destination for.
Receivers ==
    LET bits == {i \in 0 .. EndpNum : (req.dest \div 2 ^ i) % 2 = 1}
    IN  CASE CAST_TYPE = "unicast" -> {endp_addr_decoder(req.dest)}
          [] CAST_TYPE = "full"    -> bits
          [] CAST_TYPE \in {"partial", "bcast"} /\ 0 \in bits ->
                {endp_addr_decoder(req.dest \div 2)}
          [] CAST_TYPE = "partial" /\ 0 \notin bits ->
                {e \in Endp : McastList(e) /\ endp_id_to_mcast_id(e) + 1 \in bits}
          [] OTHER -> Endp

BitPatterns == {"BIT_REVERSE", "BIT_COMPLEMENT", "SHUFFLE", "BIT_ROTATION"}

\* Every packet has a destination that exists, whatever the sizes of the
\* topology (a power of two for the patterns on bits); random and multicast
\* packets do not return to their source unless that is enabled; a multicast
\* packet goes to members of the list only; and a hotspot that may not send
\* does not.  Its size is one of those asked for.
DestinationExists ==
    req.dest # INJECT_OFF /\ (req.traffic \in BitPatterns => 2 ^ NEw = EndpNum) =>
        /\ req.size \in Range(SizeArgs.sizes) \cup
                        (IF CAST_TYPE # "unicast" /\ req.dest \in McastDests(req.core)
                         THEN McastSizes[1] .. McastSizes[2] ELSE {})
        /\ Receivers # {} /\ Receivers \subseteq Endp
        /\ req.dest = IF CAST_TYPE = "unicast" THEN endp_addr_encoder(Max(Receivers))
                                              ELSE req.dest
        /\ /\ ~SelfLoopEn /\ ~(CAST_TYPE = "bcast" /\ req.dest = 0)
           /\ req.traffic = "RANDOM" \/ CAST_TYPE # "unicast"
           => req.core \notin Receivers
        /\ CAST_TYPE = "partial" /\ Cardinality(Receivers) > 1
              => \A e \in Receivers : McastList(e)
        /\ req.traffic = "HOTSPOT" =>
              \A i \in DOMAIN Hotspots :
                 Hotspots[i].ip_num = req.core => Hotspots[i].send_enable = 1
=============================================================================
