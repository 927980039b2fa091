-------------------------- MODULE StraightAllocator -------------------------
(***************************************************************************)
(* The static straight allocator (ss_allocator.sv) between one input port  *)
(* and the output port opposite to it.  A flit that arrives for an empty   *)
(* IVC and goes straight on leaves one cycle later without the two-stage   *)
(* allocators (VSA), if these grant nothing at either port.  Both ways     *)
(* share the OVC status and credits of output_ports.sv, the assignment     *)
(* registers, header FIFOs and look-ahead FIFOs of input_ports.sv, and the *)
(* flit update of header_flit.sv.                                          *)
(*                                                                         *)
(* Next is one clock edge.  The VSA's choice, the grants of other input    *)
(* ports at the straight output port, arriving flits and credits are left  *)
(* open.  The other output ports are not modelled: the IVC's packets that  *)
(* turn leave whenever the VSA grants them.                                *)
(***************************************************************************)
EXTENDS Integers, Sequences, FiniteSets, TLC

CONSTANTS
    Vc, None,
    B,             \* flits per VC of this input port and of the next router's
    OvcAllocMode,  \* OVC_ALLOC_MODE: allocate an OVC with one free place
    Id,            \* look-ahead routes, which tell packets apart
    MaxBuffered,   \* bound: the flits that wait in the input port
    BodyFlits,     \* bound: packets of more than two flits
    OtherVc        \* bound: the OVCs that other input ports use

ASSUME StraightAssumption ==
    None \notin Vc /\ B \in Nat /\ B >= 2 /\ OvcAllocMode \in BOOLEAN

VARIABLES
    arriving,                     \* external: the packet that is arriving
    buffer, headers, lkDest,      \* per IVC: flits, routes, look-ahead routes
    lkDestIn, wrHdrDelay, rdHdrDelay,
    assigned, assignedOvc, ovcIsFull,          \* per IVC
    status, credit,               \* per OVC of the straight output port
    other,                        \* external: OVCs held by other input ports
    bufferOut, vcNumDelayed, ivcAnyDelayed,    \* the stage after the buffer
    toStraight, otherToStraight,  \* who writes to the straight port
    leaving                       \* external: the packet on each OVC

inVars  == <<arriving, buffer, headers, lkDest, lkDestIn, wrHdrDelay,
             rdHdrDelay, assigned, assignedOvc, ovcIsFull>>
outVars == <<status, credit, other, bufferOut, vcNumDelayed,
             ivcAnyDelayed, toStraight, otherToStraight, leaving>>
vars    == <<inVars, outVars>>

Packet == [straight : BOOLEAN, id : Id]
Flit   == [vc : Vc, hdr : BOOLEAN, tail : BOOLEAN, pck : Packet]

ASSUME NoneAssumption == None \notin Packet

NoFlit == [vc |-> None, hdr |-> FALSE, tail |-> FALSE]

\* Grants of the VSA to this input port, and to others at the straight port.
Grant      == [vc : Vc, ovc : Vc \cup {None}]
NoGrant    == [vc |-> None, ovc |-> None]
OtherGrant == [ovc : Vc, hdr : BOOLEAN, tail : BOOLEAN]
NoOther    == [ovc |-> None, hdr |-> FALSE, tail |-> FALSE]

-----------------------------------------------------------------------------
(* What the VSA may grant.                                                 *)

Full(o)       == credit[o] = 0
NearlyFull(o) == credit[o] <= 1

OvcAvailable(o) == ~status[o] /\ IF OvcAllocMode THEN ~Full(o) ELSE ~NearlyFull(o)

Straight(v) == headers[v] # <<>> /\ Head(headers[v]).straight

\* ivc_request_masked: IVC v may be granted, with OVC o if it has none yet.
Requests(v, o) ==
    /\ buffer[v] # <<>>
    /\ IF assigned[v] \/ ~Straight(v) THEN o = None ELSE o # None /\ OvcAvailable(o)
    /\ assigned[v] /\ Straight(v) => ~ovcIsFull[v]

VsaGrants == {g \in Grant : Requests(g.vc, g.ovc)} \cup {NoGrant}

IsStraight(g) == g # NoGrant /\ Straight(g.vc)

\* The OVC of the straight port whose credit a grant takes.
OvcOf(g) == IF ~IsStraight(g) THEN None
            ELSE IF assigned[g.vc] THEN assignedOvc[g.vc] ELSE g.ovc

\* Other ports: as VcLink shows, they are only granted with a credit.
OtherGrants ==
    {x \in OtherGrant :
        /\ x.ovc \in OtherVc /\ (x.hdr \/ x.tail \/ BodyFlits)
        /\ IF x.hdr THEN OvcAvailable(x.ovc) ELSE other[x.ovc] /\ ~Full(x.ovc)}
    \cup {NoOther}

-----------------------------------------------------------------------------
(* ssa_per_vc, for the flit in that arrives.                               *)

\* Mutations: the IVC need not be empty; the conditions on the grants of
\* the VSA are dropped.
SsaPermittedNotEmpty(v, g, x) == g = NoGrant /\ x = NoOther
SsaPermittedAlways(v, g, x) == buffer[v] = <<>>

\* Conditions 1 and 2: no grant at the input or at the output port; and no
\* flit of the IVC waits.
SsaPermitted(v, g, x) == g = NoGrant /\ x = NoOther /\ buffer[v] = <<>>

\* A packet stays on the OVC of its IVC's number, or is allocated it.
SsOvcReady(v) ==
    IF assigned[v] THEN Straight(v) /\ assignedOvc[v] = v /\ ~Full(v)
    ELSE OvcAvailable(v)

SsaGrant(in, g, x) ==
    /\ in # NoFlit /\ SsaPermitted(in.vc, g, x) /\ SsOvcReady(in.vc)
    /\ in.hdr => in.pck.straight

-----------------------------------------------------------------------------
(* The input port; s is the IVC the straight allocator grants, or None.    *)

Waiting == UNION {{<<v, k>> : k \in 1 .. Len(buffer[v])} : v \in Vc}

NextFlit(v) == [vc : {v}, hdr : {arriving[v] = None},
                tail : IF arriving[v] = None \/ BodyFlits THEN BOOLEAN ELSE {TRUE},
                pck : IF arriving[v] = None THEN Packet ELSE {arriving[v]}]

Arrivals == {NoFlit} \cup
    IF Cardinality(Waiting) = MaxBuffered THEN {}
    ELSE UNION {NextFlit(v) : v \in {v \in Vc : Len(buffer[v]) < B}}

\* The flit an IVC passes on: from its buffer, or the one that arrives.
Passed(in, v) == Head(Append(buffer[v], in))

FlitBuffer(in, g, s) ==
    /\ arriving' = [v \in Vc |-> IF in.vc # v THEN arriving[v]
                                 ELSE IF in.tail THEN None ELSE in.pck]
    /\ buffer' = [v \in Vc |->
          LET full == IF in.vc = v THEN Append(buffer[v], in) ELSE buffer[v]
          IN  IF v \in {g.vc, s} THEN Tail(full) ELSE full]

\* The IVCs whose packet's tail is granted (reset_ivc).
Reset(in, g, s) == {v \in Vc \cap {g.vc, s} : Passed(in, v).tail}

\* A FIFO that may be written and read at once, also when it is empty.
FifoNext(q, wr, d, rd) ==
    LET full == IF wr THEN Append(q, d) ELSE q
    IN  IF rd /\ full # <<>> THEN Tail(full) ELSE full

\* The look-ahead route of a header is computed from registers one cycle
\* after it arrived, so its FIFO is written and read a cycle after the others.
HeaderFifos(in, g, s) ==
    /\ headers' = [v \in Vc |->
          FifoNext(headers[v], in.vc = v /\ in.hdr, in.pck, v \in Reset(in, g, s))]
    /\ lkDest' = [v \in Vc |->
          FifoNext(lkDest[v], wrHdrDelay = v, lkDestIn, v \in rdHdrDelay)]
    /\ lkDestIn' = IF in.hdr THEN in.pck.id ELSE None
    /\ wrHdrDelay' = IF in.hdr THEN in.vc ELSE None
    /\ rdHdrDelay' = Reset(in, g, s)

OvcAssignment(in, g, s) ==
    /\ assigned' = [v \in Vc |-> IF v \in Reset(in, g, s) THEN FALSE
                                 ELSE assigned[v] \/ v \in {g.vc, s}]
    /\ assignedOvc' = [v \in Vc |->
          IF assigned[v] THEN assignedOvc[v]
          ELSE IF g.vc = v THEN g.ovc ELSE IF s = v THEN v ELSE assignedOvc[v]]

\* full_ovc_predictor; only the VSA's grants are seen, and c is the OVC a
\* credit returns for.  An IVC without a route is not going to be granted by
\* the VSA in the next cycle, so what its predictor sees is left out.
FullOvcPredictor(g, c) ==
    LET unrelieved(flag(_), o) == o # None /\ flag(o) /\ c # o
        sel(v) == IF assigned[v] \/ ~OvcAllocMode THEN assignedOvc[v] ELSE g.ovc
    IN  ovcIsFull' = [v \in Vc |->
            /\ Straight(v)
            /\ \/ unrelieved(Full, assignedOvc[v])
               \/ g.vc = v /\ unrelieved(NearlyFull, sel(v))]

-----------------------------------------------------------------------------
(* The straight output port.                                               *)

CreditMonitor(g, s, x, c) ==
    credit' = [o \in Vc |->
        LET decreased == o \in {OvcOf(g), s, x.ovc} IN
        CASE c = o /\ ~decreased -> credit[o] + 1
          [] c # o /\ decreased  -> credit[o] - 1
          [] OTHER               -> credit[o]]

OvcStatus(in, g, s, x) ==
    LET allocated == (IF IsStraight(g) /\ ~assigned[g.vc] /\ ~Passed(in, g.vc).tail
                      THEN {g.ovc} ELSE {})
                     \cup (IF s # None /\ in.hdr /\ ~in.tail THEN {s} ELSE {})
                     \cup (IF x.hdr /\ ~x.tail THEN {x.ovc} ELSE {})
        released  == (IF IsStraight(g) /\ assigned[g.vc] /\ Passed(in, g.vc).tail
                      THEN {assignedOvc[g.vc]} ELSE {})
                     \cup (IF s # None /\ ~in.hdr /\ in.tail THEN {s} ELSE {})
                     \cup (IF ~x.hdr /\ x.tail THEN {x.ovc} ELSE {})
    IN  /\ status' = [o \in Vc |-> o \in allocated \/ (status[o] /\ o \notin released)]
        /\ other' = [o \in Vc |-> IF x.ovc = o THEN ~x.tail ELSE other[o]]

\* The registers that say, one cycle later, whose flit is on the port's
\* output and where the crossbar sends it.
Crossbar(in, g, s, x) ==
    /\ bufferOut' = IF g # NoGrant THEN Head(buffer[g.vc])
                    ELSE IF s # None THEN in ELSE NoFlit
    /\ vcNumDelayed' = {g.vc, s} \ {None}
    /\ ivcAnyDelayed' = (g # NoGrant)
    /\ toStraight' = (IsStraight(g) \/ s # None)
    /\ otherToStraight' = x

\* header_flit_update_lk_route_ovc: the flit's OVC and look-ahead route.
OvcNum == LET v == CHOOSE v \in vcNumDelayed : TRUE IN assignedOvc[v]

\* Mutation: the look-ahead route always comes from its FIFO.
LkRouteFifo == LET v == CHOOSE v \in vcNumDelayed : TRUE
               IN  IF lkDest[v] = <<>> THEN None ELSE Head(lkDest[v])
LkRoute == LET v == CHOOSE v \in vcNumDelayed : TRUE
           IN  IF ~ivcAnyDelayed THEN lkDestIn
               ELSE IF lkDest[v] = <<>> THEN None ELSE Head(lkDest[v])

\* The next router sees the flits of this port and of the others.
NextRouter ==
    leaving' = [o \in Vc |->
        IF toStraight /\ OvcNum = o
        THEN IF bufferOut.tail THEN None ELSE bufferOut.pck
        ELSE IF otherToStraight.ovc = o
        THEN IF otherToStraight.tail THEN None ELSE NoOther
        ELSE leaving[o]]

-----------------------------------------------------------------------------

Init ==
    /\ arriving = [v \in Vc |-> None] /\ buffer = [v \in Vc |-> <<>>]
    /\ headers = [v \in Vc |-> <<>>] /\ lkDest = [v \in Vc |-> <<>>]
    /\ lkDestIn = None /\ wrHdrDelay = None /\ rdHdrDelay = {}
    /\ assigned = [v \in Vc |-> FALSE] /\ assignedOvc = [v \in Vc |-> None]
    /\ ovcIsFull = [v \in Vc |-> FALSE]
    /\ status = [o \in Vc |-> FALSE] /\ credit = [o \in Vc |-> B]
    /\ other = [o \in Vc |-> FALSE]
    /\ bufferOut = NoFlit /\ vcNumDelayed = {} /\ ivcAnyDelayed = FALSE
    /\ toStraight = FALSE /\ otherToStraight = NoOther
    /\ leaving = [o \in Vc |-> None]

Cycle(in, g, x, c) ==
    LET s == IF SsaGrant(in, g, x) THEN in.vc ELSE None IN
    /\ FlitBuffer(in, g, s) /\ HeaderFifos(in, g, s)
    /\ OvcAssignment(in, g, s) /\ FullOvcPredictor(g, c)
    /\ CreditMonitor(g, s, x, c) /\ OvcStatus(in, g, s, x)
    /\ Crossbar(in, g, s, x) /\ NextRouter

Next ==
    \E g \in VsaGrants, x \in OtherGrants :
        /\ IsStraight(g) => x = NoOther
        /\ \E c \in {o \in Vc : credit[o] < B} \cup {None}, in \in Arrivals :
              Cycle(in, g, x, c)

Spec == Init /\ [][Next]_vars

\* Look-ahead routes are only compared.  VCs are not interchangeable, since
\* OtherVc tells them apart.
Symmetry == Permutations(Id)

-----------------------------------------------------------------------------

\* Counters and registers hold what they are wide enough for.
TypeOK ==
    /\ arriving \in [Vc -> Packet \cup {None}]
    /\ \A v \in Vc : /\ Len(buffer[v]) <= B /\ Len(headers[v]) <= B + 1
                     /\ Len(lkDest[v]) <= B + 1
    /\ assigned \in [Vc -> BOOLEAN] /\ assignedOvc \in [Vc -> Vc \cup {None}]
    /\ ovcIsFull \in [Vc -> BOOLEAN]
    /\ status \in [Vc -> BOOLEAN] /\ other \in [Vc -> BOOLEAN]
    /\ credit \in [Vc -> 0 .. B]
    /\ vcNumDelayed \subseteq Vc

\* The full predictor, which does not see the grants of the straight
\* allocator, still never lets the VSA send to a full OVC.
NoFlitToFullOvc == \A g \in VsaGrants : IsStraight(g) => credit[OvcOf(g)] > 0

\* The IVC, if any, of this port that holds OVC o.
Holders(o) == {v \in Vc : assigned[v] /\ Straight(v) /\ assignedOvc[v] = o}

\* An occupied OVC is held by one IVC, of this port or of another, whichever
\* way its packets were allocated.
OvcExclusive ==
    \A o \in Vc :
        /\ status[o] <=> other[o] \/ Holders(o) # {}
        /\ Cardinality(Holders(o)) + (IF other[o] THEN 1 ELSE 0) <= 1

\* One flit at a time is on the output of the input port, and one on its way
\* to the straight port (the assertion "VSA/SSA conflict" of input_ports.sv).
SwitchExclusive ==
    /\ Cardinality(vcNumDelayed) <= 1
    /\ ~(toStraight /\ otherToStraight # NoOther)

\* Neither allocator ever takes what the other has taken: the crossbar, an
\* OVC, or the last credit of one.
NothingCollides == TypeOK /\ SwitchExclusive /\ OvcExclusive /\ NoFlitToFullOvc

\* Packets leave whole and in order on their OVC although the straight
\* allocator takes some flits past the buffer: a header opens a packet, and
\* what follows belongs to it until its tail.  No packet that turns is sent
\* straight on.
LeavesInOrder ==
    toStraight =>
        /\ bufferOut.pck.straight
        /\ bufferOut.hdr = (leaving[OvcNum] = None)
        /\ ~bufferOut.hdr => leaving[OvcNum] = bufferOut.pck

\* A header leaves with its own look-ahead route, from the FIFO that is
\* written a cycle late or past it.
LookAheadOfHeader ==
    bufferOut.hdr => LkRoute = bufferOut.pck.id
=============================================================================
