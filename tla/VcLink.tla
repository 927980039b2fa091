------------------------------- MODULE VcLink -------------------------------
(***************************************************************************)
(* Credit-based flow control over one link of the network: the output      *)
(* virtual channels (OVCs) of one router port, the flit and credit wires   *)
(* and the input virtual channels (IVCs) of the port they lead to.         *)
(*                                                                         *)
(* The upstream half is output_ports.sv (credit counter, flags, occupancy  *)
(* and full predictor) with the ovc_is_assigned registers of the IVCs that *)
(* compete for the port; the downstream half is the flit buffer, header    *)
(* FIFO and credit_out register of input_ports.sv.  Next is one rising     *)
(* clock edge; which IVC wins the switch on either side is left open, so   *)
(* every arbiter and every traffic pattern is covered.                     *)
(***************************************************************************)
EXTENDS Integers, Sequences, FiniteSets

CONSTANTS
    Vc,            \* the virtual channels of the port
    Ivc,           \* the upstream IVCs whose packets may leave by this port
    None,          \* "no virtual channel": an all-zero one-hot vector
    B,             \* PORT_B, the flits each downstream VC can hold
    CreditSpan,    \* 2^DEPTHw, the number of values of a credit counter
    OvcAllocMode,  \* OVC_ALLOC_MODE: allocate an OVC with one free place
    Atomic,        \* IS_VCA_ATOMIC: allocate only empty OVCs
    MinPck,        \* MIN_PCK_SIZE
    MaxPckSize,    \* bound: the longest packet that is sent
    PipeReg        \* ADD_PIPREG_AFTER_CROSSBAR

ASSUME ConstAssumption ==
    /\ None \notin Vc /\ None \notin Ivc
    /\ B \in Nat /\ B >= 2
    /\ CreditSpan \in Nat /\ CreditSpan > B
    /\ MinPck \in Nat \ {0} /\ MaxPckSize \in Nat /\ MaxPckSize >= MinPck
    /\ OvcAllocMode \in BOOLEAN /\ Atomic \in BOOLEAN /\ PipeReg \in BOOLEAN

VARIABLES
    credit, full, nearlyFull, empty, status,     \* per OVC
    assigned, assignedOvc, fullReg1, fullReg2,   \* per upstream IVC
    sent,                                        \* flits sent of its packet
    crossbar, link, creditWire,                  \* registers between routers
    buffer, headers, dnAssigned                  \* per downstream IVC

ovcVars  == <<credit, full, nearlyFull, empty, status>>
ivcVars  == <<assigned, assignedOvc, fullReg1, fullReg2, sent>>
wireVars == <<crossbar, link, creditWire>>
portVars == <<buffer, headers, dnAssigned>>
vars     == <<ovcVars, ivcVars, wireVars, portVars>>

-----------------------------------------------------------------------------
(* Flits.  The payload is abstracted to the IVC the packet came from.      *)

Flit   == [vc : Vc, hdr : BOOLEAN, tail : BOOLEAN, src : Ivc]
NoFlit == [vc |-> None, hdr |-> FALSE, tail |-> FALSE, src |-> None]

\* Mutation: the partly read and the partly written packet not counted.
NonAtomPcksWholeOnly == (B - 1) \div MinPck

\* The number of header FIFO places the source reserves per IVC (MAX_PCK).
NonAtomPcks ==
    IF B <= MinPck THEN 1
    ELSE (B - 1) \div MinPck + (IF (B - 1) % MinPck > 0 THEN 1 ELSE 0) + 1

MaxPck == IF Atomic THEN 1
          ELSE IF OvcAllocMode THEN NonAtomPcks + 1 ELSE NonAtomPcks

-----------------------------------------------------------------------------
(* Upstream: what the switch may grant.                                    *)

\* Mutation: an occupied OVC is offered.
OvcAvailableOccupied(v) == ~full[v] /\ ~nearlyFull[v]

OvcAvailable(v) ==
    /\ ~status[v]
    /\ IF Atomic THEN empty[v]
       ELSE IF OvcAllocMode THEN ~full[v] ELSE ~nearlyFull[v]

AssignedOvcIsFull(i) == fullReg1[i] \/ fullReg2[i]

\* A header asks for an available OVC; the rest of its packet follows on the
\* OVC that was assigned to it, one flit at a time.
CanSend(f) ==
    /\ f.hdr = ~assigned[f.src]
    /\ f.hdr  => OvcAvailable(f.vc)
    /\ ~f.hdr => f.vc = assignedOvc[f.src] /\ ~AssignedOvcIsFull(f.src)
    /\ f.tail  => sent[f.src] + 1 >= MinPck
    /\ ~f.tail => sent[f.src] + 1 < MaxPckSize

SwitchGrants == {f \in Flit : CanSend(f)} \cup {NoFlit}

SingleFlitPck(f) == MinPck = 1 /\ f.hdr /\ f.tail

-----------------------------------------------------------------------------
(* Upstream registers; f is the flit granted in this cycle, or NoFlit.     *)

CreditNext(c, increased, decreased) ==
    CASE increased /\ ~decreased -> IF c = CreditSpan - 1 THEN 0 ELSE c + 1
      [] ~increased /\ decreased -> IF c = 0 THEN CreditSpan - 1 ELSE c - 1
      [] OTHER                   -> c

\* credit_monitor_per_ovc and the registered flags derived from it.
CreditMonitor(f) ==
    /\ credit' = [v \in Vc |->
                    CreditNext(credit[v], creditWire = v, f.vc = v)]
    /\ full'       = [v \in Vc |-> credit'[v] = 0]
    /\ nearlyFull' = [v \in Vc |-> credit'[v] <= 1]
    /\ empty'      = [v \in Vc |-> credit'[v] = B]

\* A header occupies its OVC, the tail of an assigned IVC releases it.
OvcStatus(f) ==
    status' = [v \in Vc |->
        IF f.vc = v /\ f.hdr /\ ~SingleFlitPck(f) THEN TRUE
        ELSE IF f.vc = v /\ ~f.hdr /\ f.tail THEN FALSE
        ELSE status[v]]

\* Mutation: a returning credit is seen only when the counter has taken it.
UnrelievedUntilSeen(flag, v) == v # None /\ flag[v]

\* A set bit of a flag vector that no returning credit clears; a one-hot
\* selector of all zeros selects nothing.
Unrelieved(flag, v) == v # None /\ flag[v] /\ creditWire # v

\* Mutation: a newly allocated OVC is not taken into account, as without
\* OVC_ALLOC_MODE.
FullOvcPredictorOldOvc(f) ==
    /\ fullReg1' = [i \in Ivc |-> Unrelieved(full, assignedOvc[i])]
    /\ fullReg2' = [i \in Ivc |->
          f.src = i /\ Unrelieved(nearlyFull, assignedOvc[i])]

FullOvcPredictor(f) ==
    /\ fullReg1' = [i \in Ivc |-> Unrelieved(full, assignedOvc[i])]
    /\ fullReg2' = [i \in Ivc |->
          /\ f.src = i
          /\ Unrelieved(nearlyFull, IF assigned[i] \/ ~OvcAllocMode
                                    THEN assignedOvc[i] ELSE f.vc)]

OvcAssignment(f) ==
    /\ assigned' = [i \in Ivc |->
          IF f.src = i THEN ~f.tail ELSE assigned[i]]
    /\ assignedOvc' = [i \in Ivc |->
          IF f.src = i /\ f.hdr THEN f.vc ELSE assignedOvc[i]]
    /\ sent' = [i \in Ivc |->
          IF f.src # i THEN sent[i] ELSE IF f.tail THEN 0 ELSE sent[i] + 1]

\* The granted flit leaves the crossbar in the next cycle, directly on the
\* link or through the optional pipeline register.
FlitPipeline(f) ==
    IF PipeReg THEN crossbar' = f /\ link' = crossbar
               ELSE link' = f /\ UNCHANGED crossbar

-----------------------------------------------------------------------------
(* Downstream: the link's flit is written while the granted VC d, or None, *)
(* is read.                                                                *)

ReadGrants == {v \in Vc : buffer[v] # <<>>} \cup {None}

\* Mutation: every read pops the header FIFO.
TailReadAny(v, d) == d = v

TailRead(v, d) == d = v /\ Head(buffer[v]).tail

FlitBuffer(d) ==
    buffer' = [v \in Vc |->
        LET kept == IF d = v THEN Tail(buffer[v]) ELSE buffer[v]
        IN  IF link.vc = v THEN Append(kept, link) ELSE kept]

\* The header FIFOs hold the route of each packet: written with its header
\* flit, read when its tail leaves (rd_hdr_fwft_fifo, wr_hdr_fwft_fifo).
\* They are abstract queues here, faithful until one is written when full or
\* read when empty.
HeaderFifo(d) ==
    headers' = [v \in Vc |->
        LET kept == IF TailRead(v, d) /\ headers[v] # <<>>
                    THEN Tail(headers[v]) ELSE headers[v]
        IN  IF link.vc = v /\ link.hdr THEN Append(kept, link.src) ELSE kept]

\* Mutation: the tail of a single-flit packet does not end it.
DnAssignmentHeader(d) ==
    dnAssigned' = [v \in Vc |->
        IF d = v THEN Head(buffer[v]).hdr ELSE dnAssigned[v]]

DnAssignment(d) ==
    dnAssigned' = [v \in Vc |->
        IF d = v THEN ~Head(buffer[v]).tail ELSE dnAssigned[v]]

\* Mutations: no credit for a VC written in the same cycle, and none but for
\* tails.
CreditOutNotWritten(d) == creditWire' = IF link.vc = d THEN None ELSE d
CreditOutTail(d) ==
    creditWire' = IF d # None /\ Head(buffer[d]).tail THEN d ELSE None

CreditOut(d) == creditWire' = d

-----------------------------------------------------------------------------

Init ==
    /\ credit = [v \in Vc |-> B]
    /\ full = [v \in Vc |-> FALSE] /\ nearlyFull = [v \in Vc |-> FALSE]
    /\ empty = [v \in Vc |-> FALSE] /\ status = [v \in Vc |-> FALSE]
    /\ assigned = [i \in Ivc |-> FALSE] /\ assignedOvc = [i \in Ivc |-> None]
    /\ fullReg1 = [i \in Ivc |-> FALSE] /\ fullReg2 = [i \in Ivc |-> FALSE]
    /\ sent = [i \in Ivc |-> 0]
    /\ crossbar = NoFlit /\ link = NoFlit /\ creditWire = None
    /\ buffer = [v \in Vc |-> <<>>] /\ headers = [v \in Vc |-> <<>>]
    /\ dnAssigned = [v \in Vc |-> FALSE]

OutputPort(f) == CreditMonitor(f) /\ OvcStatus(f) /\ FullOvcPredictor(f)
                 /\ OvcAssignment(f) /\ FlitPipeline(f)

InputPort(d)  == FlitBuffer(d) /\ HeaderFifo(d) /\ DnAssignment(d) /\ CreditOut(d)

Cycle(f, d) == OutputPort(f) /\ InputPort(d)

Next == \E f \in SwitchGrants, d \in ReadGrants : Cycle(f, d)

Spec == Init /\ [][Next]_vars

-----------------------------------------------------------------------------
(* Fairness.  The clock never stops.  Round-robin arbitration serves an    *)
(* IVC that keeps asking, and the next router drains every VC; headers may *)
(* wait for ever, since a packet need not arrive, but the flits of a packet *)
(* that was begun do.                                                      *)

ContinuePacket(i) ==
    \E f \in {g \in SwitchGrants : g.src = i /\ ~g.hdr}, d \in ReadGrants : Cycle(f, d)

DrainVc(v) == v \in ReadGrants /\ \E f \in SwitchGrants : Cycle(f, v)

FairSpec == /\ Spec
            /\ WF_vars(Next)
            /\ \A i \in Ivc : WF_vars(ContinuePacket(i))
            /\ \A v \in Vc : WF_vars(DrainVc(v))

-----------------------------------------------------------------------------
(* Properties.                                                             *)

\* Every register holds a value it is wide enough for (part of the inductive
\* invariant of VcLinkProofs).
TypeOK ==
    /\ credit \in [Vc -> 0 .. CreditSpan - 1]
    /\ full \in [Vc -> BOOLEAN] /\ nearlyFull \in [Vc -> BOOLEAN]
    /\ empty \in [Vc -> BOOLEAN] /\ status \in [Vc -> BOOLEAN]
    /\ assigned \in [Ivc -> BOOLEAN]
    /\ assignedOvc \in [Ivc -> Vc \cup {None}]
    /\ fullReg1 \in [Ivc -> BOOLEAN] /\ fullReg2 \in [Ivc -> BOOLEAN]
    /\ sent \in [Ivc -> 0 .. MaxPckSize - 1]
    /\ crossbar \in Flit \cup {NoFlit} /\ link \in Flit \cup {NoFlit}
    /\ creditWire \in Vc \cup {None}
    /\ buffer \in [Vc -> Seq(Flit)] /\ headers \in [Vc -> Seq(Ivc)]
    /\ dnAssigned \in [Vc -> BOOLEAN]

\* A wire that names VC v carries one flit, or one credit, of it.
One(wire, v) == IF wire = v THEN 1 ELSE 0

\* Places the upstream side knows to be free or is about to hear of, and
\* places taken by a flit that is buffered or on its way to the buffer.
Free(v) == credit[v] + One(creditWire, v)
Used(v) == One(crossbar.vc, v) + One(link.vc, v) + Len(buffer[v])

\* Each of the B places of a downstream VC is counted exactly once: as a
\* credit, as a credit on its way back, or as a flit.  So a buffer is never
\* written when full (the assertion of flit_buffer.sv), and no credit arrives
\* at a full count (that of output_ports.sv).
CreditConservation == \A v \in Vc : Free(v) + Used(v) = B

\* Whatever the registered flags and the full predictor, which look one
\* cycle back, let the switch grant, the OVC has a credit for it (the
\* assertion "Attempt to send flit to full ovc" of output_ports.sv).
NoFlitToFullOvc ==
    \A f \in SwitchGrants \ {NoFlit} : credit[f.vc] > 0

\* An OVC is occupied exactly when one IVC, and only one, holds it: the
\* assertions of check_ovc and "number of assigned IVC mismatch the number
\* of occupied OVC" of output_ports.sv.
OvcExclusive ==
    /\ \A v \in Vc : status[v] <=> \E i \in Ivc : assigned[i] /\ assignedOvc[i] = v
    /\ \A i, j \in Ivc : assigned[i] /\ assigned[j] /\ assignedOvc[i] = assignedOvc[j]
                           => i = j

\* The flits of VC v that have left the switch and are not read yet.
Stream(v) == buffer[v] \o (IF link.vc = v THEN <<link>> ELSE <<>>)
                       \o (IF crossbar.vc = v THEN <<crossbar>> ELSE <<>>)

\* While an IVC holds an OVC, the prediction is exact in both directions: it
\* says full precisely when the OVC has no credit, though it is computed a
\* cycle ahead from the flags, the returning credit and the grant.  Too low,
\* and a flit is lost; too high, and the packet misses a cycle in which its
\* OVC has a place.  (In the cycle after the header's grant it still speaks of
\* the OVC the IVC held before: a step that starts between packets is exempt.)
PredictorExact ==
    [][\A i \in Ivc : assigned[i] /\ assigned'[i] =>
           (AssignedOvcIsFull(i)' <=> credit'[assignedOvc'[i]] = 0)]_vars

\* Packets travel on a VC whole and one after another: a header follows a
\* tail and nothing else, the flits in between come from the same IVC, the
\* reader is between packets exactly when the next flit is a header, and the
\* OVC is occupied exactly while the last packet misses its tail.
Wormhole ==
    \A v \in Vc :
        LET s == Stream(v) IN
        s # <<>> =>
            /\ s[1].hdr = ~dnAssigned[v]
            /\ \A k \in 2 .. Len(s) :
                   /\ s[k].hdr = s[k-1].tail
                   /\ ~s[k].hdr => s[k].src = s[k-1].src
            /\ s[Len(s)].tail = ~status[v]

\* The route at the head of the header FIFOs is that of the packet whose
\* flit is at the head of the flit buffer.
RouteOfHeadFlit ==
    \A v \in Vc : buffer[v] # <<>> =>
        headers[v] # <<>> /\ Head(headers[v]) = Head(buffer[v]).src

\* The header FIFOs, MAX_PCK places deep, are never written when full: the
\* assertion of fwft_fifo and the sizing argument of input_ports.sv.
HeaderFifoNeverFull ==
    link.hdr => Len(headers[link.vc]) < MaxPck

\* A packet whose header got an OVC is sent to its tail: no credit is lost
\* and the predictor never reports a full OVC for ever.
PacketCompletes == \A i \in Ivc : assigned[i] ~> ~assigned[i]
=============================================================================
