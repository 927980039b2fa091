--------------------------- MODULE PacketInjector ---------------------------
(***************************************************************************)
(* Two packet injectors (packet_injector.sv), one sending and one          *)
(* receiving, with the network between them reduced to what VcLink shows   *)
(* of it: on each virtual channel flits stay in order, and those of        *)
(* different channels overtake each other.                                 *)
(*                                                                         *)
(* The sender cuts a packet into header, body and tail flits while the     *)
(* channel of the packet has credits; the receiver counts the flits of     *)
(* each channel, puts their data in place, returns a credit for each flit  *)
(* and reports the packet one cycle after its tail.  A packet's data is    *)
(* one chunk in the header and Remain chunks in the flits after it.        *)
(***************************************************************************)
EXTENDS Integers, Sequences

CONSTANTS
    Vc, None,
    LB,          \* credits of a local port (injector_ovc_status)
    Remain,      \* REMAIN_DAT_FLIT
    ChunkSpan,   \* 2^CNTw, the number of values of counter2
    SizeSpan,    \* 2^PCK_SIZw, the number of values of a packet size
    MaxSize,     \* bound: the longest packet, in flits
    Id           \* what distinguishes the data of packets

InjectorAssumption ==
    /\ Vc # {} /\ None \notin Vc /\ LB \in Nat \ {0} /\ Remain \in Nat
    /\ ChunkSpan \in Nat \ {0} /\ ChunkSpan >= Remain
    /\ Id # {} /\ SizeSpan \in Nat /\ MaxSize \in Remain + 1 .. SizeSpan - 1

VARIABLES
    flitType, counter, counter2, credit,   \* sender
    pck,                                   \* external: the packet offered to it
    buf, creditIn, outCredit, eject,       \* external: the network
    rsvCounter, data, creditO, vcReg, tailReg,    \* receiver
    pending                                \* packets sent and not reported

sender   == <<flitType, counter, counter2, credit, pck>>
network  == <<buf, creditIn, outCredit, eject>>
receiver == <<rsvCounter, data, creditO, vcReg, tailReg>>
vars     == <<sender, network, receiver, pending>>

Packet == [vc : Vc, size : Remain + 1 .. MaxSize, id : Id]
NoFlit == [vc |-> None]

Full(v) == credit[v] = 0

-----------------------------------------------------------------------------
(* The sender; p is the packet its inputs describe, wr is pck_wr.          *)

Flit(p, head, tail) ==
    [vc |-> p.vc, hdr |-> head, tail |-> tail, id |-> p.id,
     chunk |-> IF head THEN 0 ELSE counter2 + 1]

\* The flit on the channel in this cycle.
FlitOut(p, wr) ==
    IF Full(p.vc) THEN NoFlit
    ELSE CASE flitType = "HEADER" /\ ~wr -> NoFlit
           [] flitType = "HEADER" /\ wr  -> Flit(p, TRUE, p.size = 1)
           [] flitType = "BODY"          -> Flit(p, FALSE, FALSE)
           [] flitType = "TAIL_ST"       -> Flit(p, FALSE, TRUE)

FlitTypeNext(p) ==
    CASE flitType = "HEADER"  -> CASE p.size = 1 -> "HEADER"
                                   [] p.size = 2 -> "TAIL_ST"
                                   [] OTHER      -> "BODY"
      [] flitType = "BODY"    -> IF counter = 2 THEN "TAIL_ST" ELSE "BODY"
      [] flitType = "TAIL_ST" -> "HEADER"

SendFlit(p, flit) ==
    IF flit = NoFlit THEN UNCHANGED <<flitType, counter, counter2>>
    ELSE /\ flitType' = FlitTypeNext(p)
         /\ counter' = CASE flitType = "HEADER" -> p.size - 1
                         [] flitType = "BODY"   -> (counter - 1) % SizeSpan
                         [] OTHER               -> counter
         /\ counter2' = CASE flitType = "HEADER" -> 0
                          [] flitType = "BODY"   -> (counter2 + 1) % ChunkSpan
                          [] OTHER               -> counter2

\* injector_ovc_status
OvcStatus(flit) ==
    credit' = [v \in Vc |->
        CASE flit.vc = v /\ creditIn # v -> credit[v] - 1
          [] flit.vc # v /\ creditIn = v -> credit[v] + 1
          [] OTHER                       -> credit[v]]

-----------------------------------------------------------------------------
(* The network reads channel r of its input buffer, or none, and sends the *)
(* flit on; a credit goes back for it.                                     *)

ReadGrants == {v \in Vc : buf[v] # <<>> /\ outCredit[v] > 0} \cup {None}

Network(flit, r) ==
    /\ buf' = [v \in Vc |->
          LET kept == IF r = v THEN Tail(buf[v]) ELSE buf[v]
          IN  IF flit.vc = v THEN Append(kept, flit) ELSE kept]
    /\ creditIn' = r
    /\ eject' = IF r = None THEN NoFlit ELSE Head(buf[r])
    /\ outCredit' = [v \in Vc |->
          outCredit[v] - (IF r = v THEN 1 ELSE 0) + (IF creditO = v THEN 1 ELSE 0)]

-----------------------------------------------------------------------------
(* The receiver.                                                           *)

RsvCounterNext(v) == IF eject.hdr THEN 1 ELSE (rsvCounter[v] + 1) % SizeSpan

\* Mutation: a flit's place is counted over all channels.
PlaceOfFlitShared(v) ==
    IF eject.hdr THEN 0 ELSE rsvCounter[IF vcReg = None THEN v ELSE vcReg]
PlaceOfFlit(v) == IF eject.hdr THEN 0 ELSE rsvCounter[v]

CreditOut == creditO' = eject.vc

Receive ==
    /\ rsvCounter' = [v \in Vc |->
          IF eject.vc = v THEN RsvCounterNext(v) ELSE rsvCounter[v]]
    /\ data' = [v \in Vc |-> [k \in 0 .. Remain |->
          IF eject.vc = v /\ PlaceOfFlit(v) = k THEN <<eject.id, eject.chunk>>
          ELSE data[v][k]]]
    /\ CreditOut
    /\ vcReg' = eject.vc
    /\ tailReg' = (eject # NoFlit /\ eject.tail)

-----------------------------------------------------------------------------

\* A packet is offered while the sender is ready for its channel, and its
\* description is held until it is sent; between packets nobody looks at it.
Idle == CHOOSE p \in Packet : TRUE

Offered(p, wr) ==
    IF wr THEN flitType = "HEADER" /\ ~Full(p.vc) ELSE p = pck

Cycle(p, wr, r) ==
    LET flit == FlitOut(p, wr) IN
    /\ Offered(p, wr)
    /\ pck' = IF flit # NoFlit /\ FlitTypeNext(p) = "HEADER" THEN Idle ELSE p
    /\ SendFlit(p, flit) /\ OvcStatus(flit)
    /\ Network(flit, r) /\ Receive
    /\ pending' = [v \in Vc |->
          LET left == IF tailReg /\ vcReg = v THEN Tail(pending[v]) ELSE pending[v]
          IN  IF wr /\ p.vc = v THEN Append(left, [size |-> p.size, id |-> p.id])
              ELSE left]

Init ==
    /\ flitType = "HEADER" /\ counter = 0 /\ counter2 = 0
    /\ credit = [v \in Vc |-> LB]
    /\ pck = Idle
    /\ buf = [v \in Vc |-> <<>>] /\ creditIn = None
    /\ outCredit = [v \in Vc |-> LB] /\ eject = NoFlit
    /\ rsvCounter = [v \in Vc |-> 0]
    /\ data = [v \in Vc |-> [k \in 0 .. Remain |-> <<>>]]
    /\ creditO = None /\ vcReg = None /\ tailReg = FALSE
    /\ pending = [v \in Vc |-> <<>>]

Next == \E p \in Packet, wr \in BOOLEAN, r \in ReadGrants : Cycle(p, wr, r)

Spec == Init /\ [][Next]_vars

\* The clock never stops and the network passes on what it holds.
ReadVc(v) == v \in ReadGrants /\ \E p \in Packet, wr \in BOOLEAN : Cycle(p, wr, v)

FairSpec == Spec /\ WF_vars(Next) /\ \A v \in Vc : WF_vars(ReadVc(v))

-----------------------------------------------------------------------------

\* Counters and registers hold what they are wide enough for; no credit is lost
\* or gained beyond the places of a buffer.
TypeOK ==
    /\ flitType \in {"HEADER", "BODY", "TAIL_ST"}
    /\ counter \in 0 .. SizeSpan - 1 /\ counter2 \in 0 .. ChunkSpan - 1
    /\ credit \in [Vc -> 0 .. LB] /\ outCredit \in [Vc -> 0 .. LB]
    /\ pck \in Packet
    /\ rsvCounter \in [Vc -> 0 .. SizeSpan - 1]
    /\ {creditIn, creditO, vcReg} \subseteq Vc \cup {None}
    /\ tailReg \in BOOLEAN

\* What the receiver reports one cycle after a tail is the oldest packet of
\* that channel that was not reported: of the same size and with all its
\* data in place, although the flits of packets on other channels arrived in
\* between and the next header may be arriving now.
DeliveredAsSent ==
    tailReg =>
        /\ pending[vcReg] # <<>>
        /\ LET p == Head(pending[vcReg]) IN
           /\ rsvCounter[vcReg] = p.size
           /\ \A k \in 0 .. Remain : data[vcReg][k] = <<p.id, k>>

\* Places of the local buffers are never lost: each is a credit, a credit on
\* its way, or a flit; the sender so never overruns the router's buffer.
BuffersAccounted ==
    \A v \in Vc :
        /\ credit[v] + Len(buf[v]) + (IF creditIn = v THEN 1 ELSE 0) = LB
        /\ outCredit[v] + (IF eject.vc = v THEN 1 ELSE 0)
                        + (IF creditO = v THEN 1 ELSE 0) = LB

\* The sender is ready for the next packet again.
PacketSent == (flitType # "HEADER") ~> (flitType = "HEADER")

\* A packet sent is reported.
PacketReported == \A v \in Vc : pending[v] # <<>> ~> tailReg /\ vcReg = v
=============================================================================
