----------------------------- MODULE PacketRoute ----------------------------
(***************************************************************************)
(* One packet's way through a mesh or torus: what its header says at every *)
(* router, which output port and OVC it asks for, how the code is cleared  *)
(* and rewritten for the next router (mesh_torus.sv, header_flit.sv), with *)
(* the straight allocator's shortcut (ss_allocator.sv).  Other packets     *)
(* appear as the choice of when an OVC is granted, and as adaptive VCs     *)
(* that are never free.                                                    *)
(***************************************************************************)
EXTENDS MeshTorusRouting

CONSTANT None

VARIABLES
    cfg, src, dest,
    here, via,    \* the router where the header is, the port it came through
    vc,           \* the VC it came on: "escape" or "adaptive"
    code,         \* its coded destination port
    arriving,     \* the header flit has just come and is not yet buffered
    pre,          \* port_pre_sel, which follows the congestion: y, not x
    swap,         \* swap_reg
    avcFree,      \* external: an adaptive OVC is free where the packet asks
    ovc,          \* the assigned OVC, or None
    hops

vars == <<cfg, src, dest, here, via, vc, code, arriving, pre, swap, avcFree,
          ovc, hops>>

Ovc == [port : Dir \cup {"LOCAL"}, vc : {"escape", "adaptive"}]

ASSUME NoneAssumption == None \notin Ovc

\* What matters to this packet of the state of the network where it arrives.
PreSelections(c) == IF Deterministic(c) THEN {FALSE} ELSE BOOLEAN
AvcStates(c)     == IF FullAdaptive(c) THEN BOOLEAN ELSE {FALSE}

-----------------------------------------------------------------------------
(* Port selection.                                                         *)

\* Each input port sees the pre-selection of the quadrants that its packets
\* can go to, and 0 for the others.
PreSelPerPort ==
    /\ pre
    /\ via = "EAST" => ~code.x
    /\ via = "WEST" => code.x
    /\ via = "NORTH" => ~code.y
    /\ via = "SOUTH" => code.y

\* sel: the y dimension is chosen.
Sel == IF code.a /\ code.b THEN PreSelPerPort # swap
       ELSE code.b \/ (via \in DirY /\ ~code.a)

\* The output port as decoded from the code, beside sel.
OutPort ==
    IF code.a /\ code.b
    THEN IF pre # swap THEN CodeY(code) ELSE CodeX(code)
    ELSE CHOOSE p \in Requested(code) : TRUE

\* y_evc_forbiden: a packet with both dimensions to go keeps out of the
\* escape VCs of y.
EscapeForbidden == FullAdaptive(cfg) /\ Sel /\ code.a /\ code.b

\* destport_clear: a grant clears the bit of the other dimension.
ClearOther(y) == IF Deterministic(cfg) THEN code
                 ELSE IF y THEN [code EXCEPT !.a = FALSE]
                 ELSE [code EXCEPT !.b = FALSE]

-----------------------------------------------------------------------------
Init ==
    /\ cfg \in Configs
    /\ src \in Router
    /\ dest \in Router \ {src}
    /\ here = src /\ via = "LOCAL"
    /\ vc \in VcClass(cfg)
    /\ code = Encode(cfg, src, dest, TRUE)
    /\ arriving = TRUE
    /\ pre \in PreSelections(cfg)
    /\ swap = FALSE
    /\ avcFree \in AvcStates(cfg)
    /\ ovc = None
    /\ hops = 0

\* The straight allocator grants, as the header arrives, the OVC of the same
\* number at the opposite port; not from an adaptive VC of y in fully
\* adaptive routing.
SsaGrant ==
    /\ arriving /\ via # "LOCAL"
    /\ ~(FullAdaptive(cfg) /\ via \in DirY /\ vc = "adaptive")
    /\ IF via \in DirX THEN code.a ELSE code.b
    /\ ovc' = [port |-> Opposite(via), vc |-> vc]
    /\ code' = ClearOther(via \in DirY)
    /\ arriving' = FALSE
    /\ UNCHANGED <<cfg, src, dest, here, via, vc, pre, swap, avcFree, hops>>

Buffer ==
    /\ arriving /\ arriving' = FALSE
    /\ UNCHANGED <<cfg, src, dest, here, via, vc, code, pre, swap, avcFree,
                   ovc, hops>>

\* Mutation: the escape VCs of y are not forbidden.
VsaGrantAnyEscape(v) ==
    /\ ~arriving /\ ovc = None
    /\ v \in VcClass(cfg)
    /\ v = "adaptive" => avcFree
    /\ OutPort \in Assignable(cfg, here, via)
    /\ ovc' = [port |-> OutPort, vc |-> v]
    /\ code' = ClearOther(Sel)
    /\ UNCHANGED <<cfg, src, dest, here, via, vc, arriving, pre, swap,
                   avcFree, hops>>

\* The VC and switch allocators grant OVC v of the selected port, if that port
\* is one the input port is wired to.
VsaGrant(v) ==
    /\ ~arriving /\ ovc = None
    /\ v \in VcClass(cfg)
    /\ v = "escape" => ~EscapeForbidden
    /\ v = "adaptive" => avcFree
    /\ OutPort \in Assignable(cfg, here, via)
    /\ ovc' = [port |-> OutPort, vc |-> v]
    /\ code' = ClearOther(Sel)
    /\ UNCHANGED <<cfg, src, dest, here, via, vc, arriving, pre, swap,
                   avcFree, hops>>

\* Mutation: swap_reg stays off.
WaitWithoutSwap ==
    /\ ~arriving /\ ovc = None
    /\ pre' \in PreSelections(cfg)
    /\ avcFree' \in AvcStates(cfg)
    /\ UNCHANGED <<cfg, src, dest, here, via, vc, code, arriving, swap, ovc,
                   hops>>

\* A cycle without a grant.  When the escape VC is forbidden and no adaptive
\* VC is free the other dimension is selected next.
Wait ==
    /\ ~arriving /\ ovc = None
    /\ swap' = (EscapeForbidden /\ ~avcFree)
    /\ pre' \in PreSelections(cfg)
    /\ avcFree' \in AvcStates(cfg)
    /\ UNCHANGED <<cfg, src, dest, here, via, vc, code, arriving, ovc, hops>>

Delivered == ovc # None /\ ovc.port = "LOCAL"

\* The header leaves with the code of the dimension that sel says.
Depart ==
    /\ ovc # None /\ ~Delivered
    /\ here' = Neighbor(here, ovc.port)
    /\ via' = Opposite(ovc.port)
    /\ vc' = ovc.vc
    /\ code' = LookAhead(cfg, here, dest, code,
                         IF Sel THEN CodeY(code) ELSE CodeX(code))
    /\ arriving' = TRUE
    /\ pre' \in PreSelections(cfg)
    /\ avcFree' \in AvcStates(cfg)
    /\ swap' = FALSE
    /\ ovc' = None
    /\ hops' = hops + 1
    /\ UNCHANGED <<cfg, src, dest>>

Done == Delivered /\ UNCHANGED vars

Next == SsaGrant \/ Buffer \/ (\E v \in {"escape", "adaptive"} : VsaGrant(v))
        \/ Wait \/ Depart \/ Done

\* The clock runs, and swap_reg with it; an OVC is granted to a packet that asks
\* for it again and again, since OVCs become free and the arbiters are
\* round-robin.
Fairness ==
    /\ WF_vars(SsaGrant \/ Buffer)
    /\ WF_swap(Wait)
    /\ WF_vars(Depart)
    /\ \A v \in {"escape", "adaptive"} : SF_vars(VsaGrant(v))

Spec     == Init /\ [][Next]_vars
FairSpec == Spec /\ Fairness

-----------------------------------------------------------------------------
(* Sets of configurations, for Configs.                                    *)

\* A torus with one of the adaptive algorithms.
AdaptiveTorus == {c \in Config : c.topo = "TORUS" /\ c.alg # "DOR"}

FullAdaptiveMesh == {c \in Config : c.topo = "MESH" /\ FullAdaptive(c)}

-----------------------------------------------------------------------------
(* Properties.                                                             *)

\* The states of the packet and of what the routers keep about it.
TypeOK ==
    /\ cfg \in Configs
    /\ {src, dest, here} \subseteq Router
    /\ via \in Dir \cup {"LOCAL"}
    /\ vc \in VcClass(cfg)
    /\ code \in Code
    /\ {arriving, pre, swap, avcFree} \subseteq BOOLEAN
    /\ ovc \in Ovc \cup {None}
    /\ hops \in Nat

\* The code in the header, computed one router ahead and with its x and y bits
\* from the first router, asks for exactly the ports that the algorithm
\* permits here.
FollowsAlgorithm ==
    ovc = None => Requested(code) = PossibleOut(cfg, here, dest, via = "LOCAL")

\* A request is never for a turn that the crossbar is built without: such a
\* request would be masked and its packet would wait for ever.
RequestAssignable ==
    ovc = None => Requested(code) \subseteq Assignable(cfg, here, via)

\* The port that was decoded from the code, the dimension that sel chose from
\* the masked pre-selection and the bit that was cleared agree.
GrantMatchesPort == ovc # None => Requested(code) = {ovc.port}

RingOffset(s, d, n) ==
    IF s = d THEN 0
    ELSE IF TrancPlus(s, d, n) THEN (d - s + n) % n ELSE (s - d + n) % n

Abs(n) == IF n < 0 THEN -n ELSE n

\* mesh_line_distance_gen and ring_torus_distance_gen.
Distance(c, s, d) ==
    IF c.topo = "MESH" THEN Abs(s[1] - d[1]) + Abs(s[2] - d[2]) + 1
    ELSE RingOffset(s[1], d[1], NX) + RingOffset(s[2], d[2], NY) + 1

\* A packet reaches its destination, over as many routers as the distance
\* that end points compute for it.
ArrivesAtDistance ==
    Delivered => here = dest /\ hops + 1 = Distance(cfg, src, dest)

\* Every packet is delivered; in fully adaptive routing also when no adaptive
\* VC ever becomes free, if the pre-selection settles on y: swap_reg then leads
\* to the escape VC of x in every other cycle.
EventuallyDelivered ==
    (FullAdaptive(cfg) => []<>avcFree \/ <>[]pre) => <>Delivered

\* "If the use of EVC in destination port is restricted while the destination
\* port has no available AVC, the port pre selection must swap" (mesh_torus.sv):
\* such a packet asks in the next cycle for the other port, as far as
\* port_pre_sel stays the same.
SelectionSwaps ==
    [][Wait /\ EscapeForbidden /\ ~avcFree /\ pre' = pre => Sel' # Sel]_vars
=============================================================================
