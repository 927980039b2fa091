---------------------------- MODULE VcLinkProofs ----------------------------
(***************************************************************************)
(* Credit flow control of VcLink is correct for every number of VCs and    *)
(* competing IVCs, every buffer depth and every packet length: proofs of   *)
(* the conservation of credits, of counters that never wrap, of the full   *)
(* predictor and of the exclusive use of an OVC; then, that the packets    *)
(* stay whole and in order on their VC and that the header FIFOs hold the  *)
(* route of each of them.                                                  *)
(***************************************************************************)
EXTENDS VcLink, SequenceTheorems, WellFoundedInduction, TLAPS

(***************************************************************************)
(* The inductive invariant.  CreditConservation alone is not inductive: a  *)
(* grant must find a credit, which the switch only knows through registers *)
(* computed a cycle before, so what those registers mean is part of it.    *)
(***************************************************************************)

FlagsExact ==
    \A v \in Vc : /\ full[v] <=> credit[v] = 0
                  /\ nearlyFull[v] <=> credit[v] <= 1
                  /\ empty[v] => credit[v] = B

PredictorSound ==
    \A i \in Ivc : assigned[i] /\ ~AssignedOvcIsFull(i)
                     => credit[assignedOvc[i]] > 0

AssignmentOK ==
    \A i \in Ivc : /\ assigned[i] => assignedOvc[i] \in Vc
                   /\ ~assigned[i] => sent[i] = 0

IInv == /\ TypeOK /\ CreditConservation /\ FlagsExact /\ PredictorSound
        /\ AssignmentOK /\ OvcExclusive

-----------------------------------------------------------------------------

\* The switch grants nothing or a flit of an IVC for a VC (CanSend).
LEMMA GrantType ==
    ASSUME NEW f \in SwitchGrants
    PROVE  /\ f \in Flit \cup {NoFlit}
           /\ \/ f = NoFlit /\ f.vc = None /\ f.src = None
              \/ f.vc \in Vc /\ f.src \in Ivc /\ CanSend(f)
  BY DEF SwitchGrants, Flit, NoFlit

\* The invariant says enough about the predictor to know that what it lets
\* through has a credit.
LEMMA GrantHasCredit ==
    ASSUME IInv, NEW f \in SwitchGrants, f # NoFlit
    PROVE  credit[f.vc] > 0
  <1>1. f.vc \in Vc /\ f.src \in Ivc /\ CanSend(f)
    BY GrantType
  <1>2. CASE f.hdr
    BY <1>1, <1>2, ConstAssumption
       DEF CanSend, OvcAvailable, IInv, FlagsExact, TypeOK
  <1>3. CASE ~f.hdr
    BY <1>1, <1>3 DEF CanSend, IInv, PredictorSound
  <1>4. QED
    BY <1>2, <1>3

\* One edge changes a credit counter by exactly the credit received and the
\* flit sent; it neither wraps below zero nor beyond its width.
LEMMA CreditStep ==
    ASSUME IInv, NEW f \in SwitchGrants, CreditMonitor(f), NEW v \in Vc
    PROVE  /\ credit'[v] = credit[v] + One(creditWire, v) - One(f.vc, v)
           /\ credit'[v] \in 0 .. B
  <1>0. credit[v] \in Nat /\ Len(buffer[v]) \in Nat
    <2>1. credit[v] \in 0 .. CreditSpan - 1 /\ buffer[v] \in Seq(Flit)
      BY DEF IInv, TypeOK
    <2>2. QED
      BY <2>1, ConstAssumption
  <1>1. credit[v] \in Nat /\ Free(v) <= B
    <2>1. Free(v) \in Nat /\ Used(v) \in Nat
      <3>1. /\ One(creditWire, v) \in Nat /\ One(crossbar.vc, v) \in Nat
            /\ One(link.vc, v) \in Nat
        BY DEF One
      <3>2. QED
        BY <1>0, <3>1 DEF Free, Used
    <2>2. Free(v) + Used(v) = B
      BY DEF IInv, CreditConservation
    <2>3. QED
      BY <1>0, <2>1, <2>2, ConstAssumption
  <1>2. credit[v] <= B /\ (creditWire = v => credit[v] < B)
    BY <1>1, ConstAssumption DEF Free, One
  <1>3. f.vc = v => credit[v] > 0
    BY GrantHasCredit, ConstAssumption DEF NoFlit
  <1>4. credit'[v] = CreditNext(credit[v], creditWire = v, f.vc = v)
    BY DEF CreditMonitor
  <1>5. CASE creditWire = v /\ f.vc = v
    BY <1>1, <1>2, <1>4, <1>5, ConstAssumption DEF CreditNext, One
  <1>6. CASE creditWire = v /\ f.vc # v
    BY <1>1, <1>2, <1>4, <1>6, ConstAssumption DEF CreditNext, One
  <1>7. CASE creditWire # v /\ f.vc = v
    BY <1>1, <1>2, <1>3, <1>4, <1>7, ConstAssumption DEF CreditNext, One
  <1>8. CASE creditWire # v /\ f.vc # v
    BY <1>1, <1>2, <1>4, <1>8, ConstAssumption DEF CreditNext, One
  <1>9. QED
    BY <1>5, <1>6, <1>7, <1>8
-----------------------------------------------------------------------------
(* The steps of the induction, one lemma for each part of the invariant.   *)

\* A clock edge keeps every register within its width; for the credit counter
\* this rests on CreditStep, for the buffer on the grants being of its VC.
LEMMA TypeStep ==
    ASSUME IInv, NEW f \in SwitchGrants, NEW d \in ReadGrants, Cycle(f, d)
    PROVE  TypeOK'
  <1> USE DEF Cycle, OutputPort, InputPort
  <1>1. credit' \in [Vc -> 0 .. CreditSpan - 1]
    <2>1. \A v \in Vc : credit'[v] \in 0 .. CreditSpan - 1
      BY CreditStep, ConstAssumption
    <2>2. QED
      BY <2>1 DEF CreditMonitor
  <1>2. /\ full' \in [Vc -> BOOLEAN] /\ nearlyFull' \in [Vc -> BOOLEAN]
        /\ empty' \in [Vc -> BOOLEAN]
    BY DEF CreditMonitor
  <1>3. status' \in [Vc -> BOOLEAN]
    <2>1. ASSUME NEW v \in Vc
          PROVE  (IF f.vc = v /\ f.hdr /\ ~SingleFlitPck(f) THEN TRUE
                  ELSE IF f.vc = v /\ ~f.hdr /\ f.tail THEN FALSE
                  ELSE status[v]) \in BOOLEAN
      <3>1. status[v] \in BOOLEAN
        BY DEF IInv, TypeOK
      <3>2. QED
        BY <3>1
    <2>2. QED
      BY <2>1 DEF OvcStatus
  <1>4. fullReg1' \in [Ivc -> BOOLEAN] /\ fullReg2' \in [Ivc -> BOOLEAN]
    BY DEF FullOvcPredictor, Unrelieved
  <1>5. /\ assigned' \in [Ivc -> BOOLEAN]
        /\ assignedOvc' \in [Ivc -> Vc \cup {None}]
    BY GrantType DEF OvcAssignment, IInv, TypeOK, Flit, NoFlit
  <1>6. sent' \in [Ivc -> 0 .. MaxPckSize - 1]
    <2>1. ASSUME NEW i \in Ivc
          PROVE  (IF f.src # i THEN sent[i] ELSE IF f.tail THEN 0 ELSE sent[i] + 1)
                   \in 0 .. MaxPckSize - 1
      <3>1. sent[i] \in 0 .. MaxPckSize - 1
        BY DEF IInv, TypeOK
      <3>2. f.src = i /\ ~f.tail => sent[i] + 1 < MaxPckSize
        BY GrantType, ConstAssumption DEF CanSend
      <3>3. QED
        BY <3>1, <3>2, ConstAssumption
    <2>2. QED
      BY <2>1 DEF OvcAssignment
  <1>7. crossbar' \in Flit \cup {NoFlit} /\ link' \in Flit \cup {NoFlit}
    BY GrantType DEF FlitPipeline, IInv, TypeOK
  <1>8. creditWire' \in Vc \cup {None}
    BY DEF CreditOut, ReadGrants
  <1>9. buffer' \in [Vc -> Seq(Flit)]
    <2>1. ASSUME NEW v \in Vc
          PROVE  (LET kept == IF d = v THEN Tail(buffer[v]) ELSE buffer[v]
                  IN  IF link.vc = v THEN Append(kept, link) ELSE kept) \in Seq(Flit)
      <3>1. buffer[v] \in Seq(Flit) /\ (d = v => buffer[v] # <<>>)
        BY ConstAssumption DEF IInv, TypeOK, ReadGrants
      <3>2. link.vc = v => link \in Flit
        BY ConstAssumption DEF IInv, TypeOK, NoFlit
      <3>3. QED
        BY <3>1, <3>2
    <2>2. QED
      BY <2>1 DEF FlitBuffer
  <1>10. headers' \in [Vc -> Seq(Ivc)]
    <2>1. ASSUME NEW v \in Vc
          PROVE  (LET kept == IF TailRead(v, d) /\ headers[v] # <<>>
                              THEN Tail(headers[v]) ELSE headers[v]
                  IN  IF link.vc = v /\ link.hdr THEN Append(kept, link.src) ELSE kept)
                    \in Seq(Ivc)
      <3>1. headers[v] \in Seq(Ivc)
        BY DEF IInv, TypeOK
      <3>2. link.vc = v => link.src \in Ivc
        BY ConstAssumption DEF IInv, TypeOK, NoFlit, Flit
      <3>3. QED
        BY <3>1, <3>2
    <2>2. QED
      BY <2>1 DEF HeaderFifo
  <1>11. dnAssigned' \in [Vc -> BOOLEAN]
    <2>1. ASSUME NEW v \in Vc
          PROVE  (IF d = v THEN ~Head(buffer[v]).tail ELSE dnAssigned[v]) \in BOOLEAN
      BY DEF IInv, TypeOK
    <2>2. QED
      BY <2>1 DEF DnAssignment
  <1>12. QED
    BY <1>1, <1>2, <1>3, <1>4, <1>5, <1>6, <1>7, <1>8, <1>9, <1>10, <1>11
       DEF TypeOK

\* A granted flit takes a place that was free, a read gives one back.
LEMMA FreeStep ==
    ASSUME IInv, NEW f \in SwitchGrants, NEW d \in ReadGrants, Cycle(f, d),
           NEW v \in Vc
    PROVE  Free(v)' = Free(v) - One(f.vc, v) + One(d, v)
  <1>1. credit[v] \in Nat /\ credit'[v] \in Nat
    BY CreditStep, ConstAssumption DEF IInv, TypeOK, Cycle, OutputPort
  <1>2. credit'[v] = credit[v] + One(creditWire, v) - One(f.vc, v)
    BY CreditStep DEF Cycle, OutputPort
  <1>3. One(creditWire', v) = One(d, v)
    BY DEF Cycle, InputPort, CreditOut, One
  <1>4. One(creditWire, v) \in Int /\ One(d, v) \in Int /\ One(f.vc, v) \in Int
    BY DEF One
  <1>5. credit'[v] + One(d, v)
          = (credit[v] + One(creditWire, v)) - One(f.vc, v) + One(d, v)
    BY <1>1, <1>2, <1>4
  <1>6. QED
    BY <1>3, <1>5 DEF Free

\* The flit buffer of a VC grows by the flit on the link and shrinks by the
\* one that is read.
LEMMA BufferStep ==
    ASSUME IInv, NEW f \in SwitchGrants, NEW d \in ReadGrants, Cycle(f, d),
           NEW v \in Vc
    PROVE  /\ Len(buffer'[v]) \in Int /\ Len(buffer[v]) \in Int
           /\ Len(buffer'[v]) = Len(buffer[v]) + One(link.vc, v) - One(d, v)
  <1> DEFINE kept == IF d = v THEN Tail(buffer[v]) ELSE buffer[v]
  <1>1. /\ buffer[v] \in Seq(Flit) /\ (d = v => buffer[v] # <<>>)
        /\ link.vc = v => link \in Flit
    BY ConstAssumption DEF IInv, TypeOK, ReadGrants, NoFlit
  <1>2. buffer'[v] = IF link.vc = v THEN Append(kept, link) ELSE kept
    BY DEF Cycle, InputPort, FlitBuffer
  <1>3. /\ kept \in Seq(Flit) /\ Len(buffer[v]) \in Int
        /\ Len(kept) = Len(buffer[v]) - One(d, v)
    BY <1>1 DEF One
  <1>4. link.vc = v => Len(Append(kept, link)) = Len(kept) + 1
    BY <1>1, <1>3
  <1> HIDE DEF kept
  <1>5. Len(kept) \in Int
    BY <1>3
  <1>6. Len(buffer'[v]) = Len(kept) + One(link.vc, v)
    <2>1. CASE link.vc = v
      BY <1>2, <1>4, <2>1 DEF One
    <2>2. CASE link.vc # v
      BY <1>2, <1>5, <2>2 DEF One
    <2>3. QED
      BY <2>1, <2>2
  <1>7. One(link.vc, v) \in Int /\ One(d, v) \in Int
    BY DEF One
  <1>8. QED
    BY <1>3, <1>5, <1>6, <1>7

\* The places that flits of a VC take, in the pipeline and in the buffer,
\* grow by a grant and shrink by a read.
LEMMA UsedStep ==
    ASSUME IInv, NEW f \in SwitchGrants, NEW d \in ReadGrants, Cycle(f, d),
           NEW v \in Vc
    PROVE  Used(v)' = Used(v) + One(f.vc, v) - One(d, v)
  <1>1. One(crossbar'.vc, v) + One(link'.vc, v)
          = One(crossbar.vc, v) + One(f.vc, v)
    <2>1. CASE PipeReg
      <3>1. crossbar' = f /\ link' = crossbar
        BY <2>1 DEF Cycle, OutputPort, FlitPipeline
      <3>2. QED
        BY <3>1 DEF One
    <2>2. CASE ~PipeReg
      <3>1. crossbar' = crossbar /\ link' = f
        BY <2>2 DEF Cycle, OutputPort, FlitPipeline
      <3>2. QED
        BY <3>1 DEF One
    <2>3. QED
      BY <2>1, <2>2
  <1>2. /\ Len(buffer'[v]) \in Int /\ Len(buffer[v]) \in Int
        /\ Len(buffer'[v]) = Len(buffer[v]) + One(link.vc, v) - One(d, v)
    BY BufferStep
  <1>3. /\ One(crossbar.vc, v) \in Int /\ One(link.vc, v) \in Int
        /\ One(f.vc, v) \in Int /\ One(d, v) \in Int
    BY DEF One
  <1>4. (One(crossbar.vc, v) + One(f.vc, v))
           + (Len(buffer[v]) + One(link.vc, v) - One(d, v))
          = (One(crossbar.vc, v) + One(link.vc, v) + Len(buffer[v]))
              + One(f.vc, v) - One(d, v)
    BY <1>2, <1>3
  <1>5. One(crossbar'.vc, v) + One(link'.vc, v) + Len(buffer'[v])
          = (One(crossbar.vc, v) + One(f.vc, v))
              + (Len(buffer[v]) + One(link.vc, v) - One(d, v))
    BY <1>1, <1>2, Zenon
  <1>6. QED
    BY <1>4, <1>5 DEF Used

\* So their sum with the free places stays B.
LEMMA ConservationStep ==
    ASSUME IInv, NEW f \in SwitchGrants, NEW d \in ReadGrants, Cycle(f, d)
    PROVE  CreditConservation'
  <1> SUFFICES ASSUME NEW v \in Vc
               PROVE  Free(v)' + Used(v)' = B
    BY DEF CreditConservation
  <1>1. Free(v) \in Int /\ Used(v) \in Int
    <2>1. credit[v] \in Int
      BY ConstAssumption DEF IInv, TypeOK
    <2>2. Len(buffer[v]) \in Int
      BY BufferStep
    <2>3. QED
      BY <2>1, <2>2 DEF Free, Used, One
  <1>2. One(f.vc, v) \in Int /\ One(d, v) \in Int
    BY DEF One
  <1>3. Free(v) + Used(v) = B
    BY DEF IInv, CreditConservation
  <1>4. Free(v)' = Free(v) - One(f.vc, v) + One(d, v)
    BY FreeStep
  <1>5. Used(v)' = Used(v) + One(f.vc, v) - One(d, v)
    BY UsedStep
  <1>6. QED
    BY <1>1, <1>2, <1>3, <1>4, <1>5

\* The registered flags say what the credit counter says after the edge.
LEMMA FlagsStep ==
    ASSUME IInv, NEW f \in SwitchGrants, CreditMonitor(f)
    PROVE  FlagsExact'
  BY DEF CreditMonitor, FlagsExact

\* The IVC that sends on an OVC, once its header has passed, is the one that
\* holds it; a header only takes an OVC that nobody holds.
LEMMA GrantHolder ==
    ASSUME IInv, NEW f \in SwitchGrants, NEW i \in Ivc,
           assigned[i], f # NoFlit, f.vc = assignedOvc[i]
    PROVE  f.src = i /\ ~f.hdr
  <1>1. f.vc \in Vc /\ f.src \in Ivc /\ CanSend(f)
    BY GrantType
  <1>2. status[f.vc]
    BY <1>1 DEF IInv, OvcExclusive
  <1>3. ~f.hdr /\ assigned[f.src] /\ assignedOvc[f.src] = f.vc
    BY <1>1, <1>2 DEF CanSend, OvcAvailable
  <1>4. QED
    BY <1>1, <1>3 DEF IInv, OvcExclusive

\* An IVC keeps a real OVC while it is assigned, and has sent nothing when it
\* is not.
LEMMA AssignmentStep ==
    ASSUME IInv, NEW f \in SwitchGrants, OvcAssignment(f)
    PROVE  AssignmentOK'
  <1> SUFFICES ASSUME NEW i \in Ivc
               PROVE  /\ assigned'[i] => assignedOvc'[i] \in Vc
                      /\ ~assigned'[i] => sent'[i] = 0
    BY DEF AssignmentOK
  <1>1. /\ assigned'[i] = IF f.src = i THEN ~f.tail ELSE assigned[i]
        /\ assignedOvc'[i] = IF f.src = i /\ f.hdr THEN f.vc ELSE assignedOvc[i]
        /\ sent'[i] = IF f.src # i THEN sent[i]
                      ELSE IF f.tail THEN 0 ELSE sent[i] + 1
    BY DEF OvcAssignment
  <1>2. CASE f.src # i
    BY <1>1, <1>2 DEF IInv, AssignmentOK
  <1>3. CASE f.src = i
    <2>1. f.vc \in Vc /\ CanSend(f)
      BY <1>3, GrantType, ConstAssumption
    <2>2. f.hdr = ~assigned[i]
      BY <1>3, <2>1 DEF CanSend
    <2>3. QED
      BY <1>1, <1>3, <2>1, <2>2 DEF IInv, AssignmentOK, CanSend
  <1>4. QED
    BY <1>2, <1>3

\* A header takes a free OVC and a tail frees the one of its own IVC, so
\* occupied OVCs and assigned IVCs still correspond.
LEMMA ExclusiveStep ==
    ASSUME IInv, NEW f \in SwitchGrants, OvcStatus(f), OvcAssignment(f)
    PROVE  OvcExclusive'
  <1>1. \A i \in Ivc :
          /\ assigned'[i] = IF f.src = i THEN ~f.tail ELSE assigned[i]
          /\ assignedOvc'[i] = IF f.src = i /\ f.hdr THEN f.vc ELSE assignedOvc[i]
    BY DEF OvcAssignment
  <1>2. \A v \in Vc :
          status'[v] = IF f.vc = v /\ f.hdr /\ ~SingleFlitPck(f) THEN TRUE
                       ELSE IF f.vc = v /\ ~f.hdr /\ f.tail THEN FALSE
                       ELSE status[v]
    BY DEF OvcStatus
  <1>3. CASE f = NoFlit
    BY <1>1, <1>2, <1>3, ConstAssumption DEF NoFlit, IInv, OvcExclusive
  <1>4. CASE f # NoFlit
    <2>1. f \in Flit /\ f.vc \in Vc /\ f.src \in Ivc /\ CanSend(f)
      BY <1>4, GrantType
    <2>2. f.hdr \in BOOLEAN /\ f.tail \in BOOLEAN
      BY <2>1 DEF Flit
    <2>3. CASE f.hdr
      <3>1. ~status[f.vc] /\ ~assigned[f.src] /\ sent[f.src] = 0
        BY <2>1, <2>3 DEF CanSend, OvcAvailable, IInv, AssignmentOK
      <3>2. f.tail <=> SingleFlitPck(f)
        BY <2>1, <2>3, <3>1, ConstAssumption DEF SingleFlitPck, CanSend
      <3>3. \A i \in Ivc : assigned[i] => assignedOvc[i] # f.vc
        BY <2>1, <3>1 DEF IInv, OvcExclusive
      <3>4. /\ \A v \in Vc : status'[v] <=> \E i \in Ivc : assigned'[i] /\ assignedOvc'[i] = v
            /\ \A i, j \in Ivc :
                 assigned'[i] /\ assigned'[j] /\ assignedOvc'[i] = assignedOvc'[j]
                   => i = j
        <4>1. \A i \in Ivc : /\ assigned'[i] <=> assigned[i] \/ (i = f.src /\ ~f.tail)
                             /\ i = f.src => assignedOvc'[i] = f.vc
                             /\ i # f.src => assignedOvc'[i] = assignedOvc[i]
          BY <1>1, <2>2, <2>3, <3>1
        <4>2. \A v \in Vc : status'[v] <=> status[v] \/ (v = f.vc /\ ~f.tail)
          <5>1. \A v \in Vc : status[v] \in BOOLEAN
            BY DEF IInv, TypeOK
          <5>2. QED
            BY <1>2, <2>2, <2>3, <3>1, <3>2, <5>1
        <4>3. QED
          <5>1. OvcExclusive
            BY DEF IInv
          <5>2. ASSUME NEW v \in Vc
                PROVE  status'[v] <=> \E i \in Ivc : assigned'[i] /\ assignedOvc'[i] = v
            <6>1. CASE v = f.vc
              BY <4>1, <4>2, <2>1, <2>2, <3>1, <3>3, <6>1
            <6>2. CASE v # f.vc
              <7>1. status'[v] <=> \E i \in Ivc : assigned[i] /\ assignedOvc[i] = v
                BY <4>2, <5>1, <6>2 DEF OvcExclusive
              <7>2. ASSUME NEW i \in Ivc
                    PROVE  assigned'[i] /\ assignedOvc'[i] = v
                             <=> assigned[i] /\ assignedOvc[i] = v
                BY <4>1, <3>1, <6>2
              <7>3. QED
                BY <7>1, <7>2
            <6>3. QED
              BY <6>1, <6>2
          <5>3. ASSUME NEW i \in Ivc, NEW j \in Ivc, assigned'[i], assigned'[j],
                       assignedOvc'[i] = assignedOvc'[j]
                PROVE  i = j
            BY <4>1, <3>1, <3>3, <5>1, <5>3 DEF OvcExclusive
          <5>4. QED
            BY <5>2, <5>3
      <3>5. QED
        BY <3>4 DEF OvcExclusive
    <2>4. CASE ~f.hdr
      <3>1. assigned[f.src] /\ assignedOvc[f.src] = f.vc
        BY <2>1, <2>4 DEF CanSend
      <3>2. \A i \in Ivc : assigned[i] /\ assignedOvc[i] = f.vc => i = f.src
        BY <2>1, <3>1 DEF IInv, OvcExclusive
      <3>3. /\ \A v \in Vc : status'[v] <=> \E i \in Ivc : assigned'[i] /\ assignedOvc'[i] = v
            /\ \A i, j \in Ivc :
                 assigned'[i] /\ assigned'[j] /\ assignedOvc'[i] = assignedOvc'[j]
                   => i = j
        <4>1. \A i \in Ivc : /\ assigned'[i] <=> assigned[i] /\ ~(i = f.src /\ f.tail)
                             /\ assignedOvc'[i] = assignedOvc[i]
          BY <1>1, <2>2, <2>4, <3>1
        <4>2. \A v \in Vc : status'[v] <=> status[v] /\ ~(v = f.vc /\ f.tail)
          <5>1. \A v \in Vc : status[v] \in BOOLEAN
            BY DEF IInv, TypeOK
          <5>2. QED
            BY <1>2, <2>2, <2>4, <5>1
        <4>3. QED
          <5>1. OvcExclusive
            BY DEF IInv
          <5>2. ASSUME NEW v \in Vc
                PROVE  status'[v] <=> \E i \in Ivc : assigned'[i] /\ assignedOvc'[i] = v
            <6>1. CASE v = f.vc
              BY <4>1, <4>2, <2>1, <2>2, <3>1, <3>2, <5>1, <6>1 DEF OvcExclusive
            <6>2. CASE v # f.vc
              <7>1. status'[v] <=> \E i \in Ivc : assigned[i] /\ assignedOvc[i] = v
                BY <4>2, <5>1, <6>2 DEF OvcExclusive
              <7>2. ASSUME NEW i \in Ivc
                    PROVE  assigned'[i] /\ assignedOvc'[i] = v
                             <=> assigned[i] /\ assignedOvc[i] = v
                BY <4>1, <3>1, <6>2
              <7>3. QED
                BY <7>1, <7>2
            <6>3. QED
              BY <6>1, <6>2
          <5>3. ASSUME NEW i \in Ivc, NEW j \in Ivc, assigned'[i], assigned'[j],
                       assignedOvc'[i] = assignedOvc'[j]
                PROVE  i = j
            BY <4>1, <5>1, <5>3 DEF OvcExclusive
          <5>4. QED
            BY <5>2, <5>3
      <3>4. QED
        BY <3>3 DEF OvcExclusive
    <2>5. QED
      BY <2>3, <2>4
  <1>5. QED
    BY <1>3, <1>4

\* The predictor looks at the flags of this cycle, the credit that returns
\* and the flit that leaves, and is right about the next.
LEMMA PredictorStep ==
    ASSUME IInv, NEW f \in SwitchGrants, NEW d \in ReadGrants, Cycle(f, d)
    PROVE  PredictorSound'
  <1> SUFFICES ASSUME NEW i \in Ivc, assigned'[i],
                      ~fullReg1'[i], ~fullReg2'[i]
               PROVE  credit'[assignedOvc'[i]] > 0
    BY DEF PredictorSound, AssignedOvcIsFull
  <1> USE DEF Cycle, OutputPort
  <1>1. /\ assigned'[i] = IF f.src = i THEN ~f.tail ELSE assigned[i]
        /\ assignedOvc'[i] = IF f.src = i /\ f.hdr THEN f.vc ELSE assignedOvc[i]
    BY DEF OvcAssignment
  <1>2. /\ ~Unrelieved(full, assignedOvc[i])
        /\ f.src = i => ~Unrelieved(nearlyFull, IF assigned[i] \/ ~OvcAllocMode
                                                 THEN assignedOvc[i] ELSE f.vc)
    BY DEF FullOvcPredictor
  <1>3. \A v \in Vc : /\ credit'[v] = credit[v] + One(creditWire, v) - One(f.vc, v)
                      /\ credit[v] \in Nat
    BY CreditStep, ConstAssumption DEF IInv, TypeOK
  <1>4. CASE f.src # i
    <2>1. assigned[i] /\ assignedOvc'[i] = assignedOvc[i] /\ assignedOvc[i] \in Vc
      BY <1>1, <1>4 DEF IInv, AssignmentOK
    <2>2. f.vc # assignedOvc[i]
      BY <1>4, <2>1, GrantHolder, ConstAssumption DEF NoFlit
    <2>3. QED
      BY <1>2, <1>3, <2>1, <2>2, ConstAssumption
         DEF Unrelieved, IInv, FlagsExact, One
  <1>5. CASE f.src = i
    <2>1. f.vc \in Vc /\ CanSend(f) /\ assignedOvc'[i] = f.vc
      <3>1. f.vc \in Vc /\ CanSend(f)
        BY <1>5, GrantType, ConstAssumption
      <3>2. QED
        BY <1>1, <1>5, <3>1 DEF CanSend
    <2>2. creditWire = f.vc \/ credit[f.vc] >= 2
      <3>1. CASE assigned[i]
        <4>1. assignedOvc[i] = f.vc
          BY <1>5, <2>1, <3>1 DEF CanSend
        <4>2. creditWire = f.vc \/ ~nearlyFull[f.vc]
          BY <1>2, <1>5, <2>1, <3>1, <4>1, ConstAssumption DEF Unrelieved
        <4>3. QED
          BY <4>2, <1>3, <2>1 DEF IInv, FlagsExact
      <3>2. CASE ~assigned[i] /\ OvcAllocMode
        BY <1>2, <1>5, <2>1, <3>2, <1>3, ConstAssumption
           DEF Unrelieved, IInv, FlagsExact
      <3>3. CASE ~assigned[i] /\ ~OvcAllocMode
        <4>1. f.hdr /\ OvcAvailable(f.vc)
          BY <1>5, <2>1, <3>3 DEF CanSend
        <4>2. ~nearlyFull[f.vc] \/ credit[f.vc] = B
          BY <2>1, <3>3, <4>1 DEF OvcAvailable, IInv, FlagsExact
        <4>3. QED
          BY <4>2, <1>3, <2>1, ConstAssumption DEF IInv, FlagsExact
      <3>4. QED
        BY <3>1, <3>2, <3>3
    <2>3. credit[f.vc] > 0
      BY <1>5, GrantHasCredit, ConstAssumption DEF NoFlit
    <2>4. QED
      BY <1>3, <2>1, <2>2, <2>3 DEF One
  <1>6. QED
    BY <1>4, <1>5

-----------------------------------------------------------------------------

\* The reset values of the registers satisfy the invariant.
LEMMA InitIInv == Init => IInv
  <1> SUFFICES ASSUME Init PROVE IInv
    OBVIOUS
  <1> USE ConstAssumption DEF Init
  <1>1. TypeOK
    BY DEF TypeOK
  <1>2. CreditConservation
    BY DEF CreditConservation, Free, Used, One, NoFlit
  <1>3. FlagsExact /\ PredictorSound /\ AssignmentOK /\ OvcExclusive
    BY DEF FlagsExact, PredictorSound, AssignmentOK, OvcExclusive
  <1>4. QED
    BY <1>1, <1>2, <1>3 DEF IInv

\* Every clock edge keeps it: the step lemmas together.
LEMMA NextIInv == IInv /\ [Next]_vars => IInv'
  <1> SUFFICES ASSUME IInv, [Next]_vars PROVE IInv'
    OBVIOUS
  <1>1. CASE Next
    <2>1. PICK f \in SwitchGrants, d \in ReadGrants : Cycle(f, d)
      BY <1>1 DEF Next
    <2>2. QED
      BY <2>1, TypeStep, ConservationStep, FlagsStep, PredictorStep,
         AssignmentStep, ExclusiveStep DEF IInv, Cycle, OutputPort
  <1>2. CASE UNCHANGED vars
    BY <1>2 DEF vars, ovcVars, ivcVars, wireVars, portVars, IInv, TypeOK,
       CreditConservation, Free, Used, FlagsExact, PredictorSound, AssignedOvcIsFull,
       AssignmentOK, OvcExclusive
  <1>3. QED
    BY <1>1, <1>2

\* The inductive invariant holds in every reachable state of the link.
THEOREM SpecIInv == Spec => []IInv
  BY InitIInv, NextIInv, PTL DEF Spec

\* The flit the switch granted at the last edge.
Launched == IF PipeReg THEN crossbar ELSE link

\* The counter of an OVC, a register of DEPTHw bits, changes in every cycle by
\* the credit received and the flit granted as an integer does: it is never
\* decreased at zero nor increased at its last value.
CreditNeverWraps ==
    [][\A v \in Vc : credit'[v] = credit[v] + One(creditWire, v)
                                  - One(Launched.vc, v)']_vars

\* No sequence of grants and returning credits wraps a credit counter, for
\* every buffer depth and counter width.
THEOREM CreditsNeverWrap == Spec => CreditNeverWraps
  <1>1. ASSUME IInv, Next
        PROVE  \A v \in Vc : credit'[v] = credit[v] + One(creditWire, v)
                                          - One(Launched.vc, v)'
    <2>1. PICK f \in SwitchGrants, d \in ReadGrants : Cycle(f, d)
      BY <1>1 DEF Next
    <2>2. Launched' = f
      BY <2>1 DEF Launched, Cycle, OutputPort, FlitPipeline
    <2>3. \A v \in Vc : One(Launched.vc, v)' = One(f.vc, v)
      BY <2>2 DEF One
    <2>4. QED
      BY <1>1, <2>1, <2>3, CreditStep DEF Cycle, OutputPort
  <1>2. QED
    BY <1>1, SpecIInv, PTL DEF Spec, CreditNeverWraps

\* The prediction for the OVC an IVC holds is exact in both directions, for
\* every number of VCs and competing IVCs: it costs no flit and no cycle.
THEOREM PredictionExact == Spec => PredictorExact
  <1>1. ASSUME IInv, Next, NEW i \in Ivc, assigned[i], assigned'[i]
        PROVE  AssignedOvcIsFull(i)' <=> credit'[assignedOvc'[i]] = 0
    <2>1. PICK f \in SwitchGrants, d \in ReadGrants : Cycle(f, d)
      BY <1>1 DEF Next
    <2> DEFINE v == assignedOvc[i]
    <2>2. v \in Vc /\ v # None /\ credit[v] \in Nat
      BY <1>1, ConstAssumption DEF IInv, AssignmentOK, TypeOK
    <2>3. f.src = i => ~f.hdr /\ f.vc = v
      BY <1>1, GrantType, ConstAssumption DEF CanSend
    <2>4. assignedOvc'[i] = v
      BY <2>1, <2>3 DEF Cycle, OutputPort, OvcAssignment
    <2>5. f.src = i <=> f.vc = v
      BY <1>1, <2>2, <2>3, GrantHolder, ConstAssumption DEF NoFlit
    <2>6. credit'[v] = credit[v] + One(creditWire, v) - One(f.vc, v)
      BY <1>1, <2>1, <2>2, CreditStep DEF Cycle, OutputPort
    <2>7. f.vc = v => credit[v] > 0
      BY <1>1, <2>2, GrantHasCredit DEF NoFlit
    <2>8. /\ full[v] <=> credit[v] = 0
          /\ nearlyFull[v] <=> credit[v] <= 1
      BY <1>1, <2>2 DEF IInv, FlagsExact
    <2>9. /\ fullReg1'[i] <=> full[v] /\ creditWire # v
          /\ fullReg2'[i] <=> f.vc = v /\ nearlyFull[v] /\ creditWire # v
      BY <1>1, <2>1, <2>2, <2>5
         DEF Cycle, OutputPort, FullOvcPredictor, Unrelieved
    <2>10. AssignedOvcIsFull(i)' <=> fullReg1'[i] \/ fullReg2'[i]
      BY DEF AssignedOvcIsFull
    <2>11. credit'[v] = 0 <=> \/ credit[v] = 0 /\ creditWire # v
                              \/ f.vc = v /\ credit[v] <= 1 /\ creditWire # v
      BY <2>2, <2>6, <2>7 DEF One
    <2>12. QED
      BY <2>4, <2>8, <2>9, <2>10, <2>11
  <1>2. IInv /\ [Next]_vars =>
          [\A i \in Ivc : assigned[i] /\ assigned'[i] =>
             (AssignedOvcIsFull(i)' <=> credit'[assignedOvc'[i]] = 0)]_vars
    BY <1>1
  <1>3. QED
    BY <1>2, SpecIInv, PTL DEF Spec, PredictorExact

\* No credit is lost or made up on a link, whatever the two switches do.
THEOREM CreditsConserved == Spec => []CreditConservation
  BY SpecIInv, PTL DEF IInv

\* No grant reaches a full OVC, although the switch only sees registers that
\* were computed one cycle before.
THEOREM NeverSendToFull == Spec => []NoFlitToFullOvc
  <1>1. IInv => NoFlitToFullOvc
    BY GrantHasCredit DEF NoFlitToFullOvc
  <1>2. QED
    BY <1>1, SpecIInv, PTL

\* Occupied OVCs and assigned IVCs correspond one to one.
THEOREM OvcsExclusive == Spec => []OvcExclusive
  BY SpecIInv, PTL DEF IInv

-----------------------------------------------------------------------------
(***************************************************************************)
(* The flits of a VC.  Seen from one VC, a clock edge removes the oldest   *)
(* flit of the stream between the two switches, if it is read, and adds    *)
(* the flit that is granted, if any; the registers in between only move    *)
(* flits along.  The proofs therefore are about removing the head of a     *)
(* sequence and about appending to it.                                     *)
(***************************************************************************)

\* Sequence s with e after it, when c holds.
With(s, c, e) == IF c THEN Append(s, e) ELSE s

\* The flits of VC v in the buffer b, on the link x and in the crossbar y.
Joined(b, x, y, v) ==
    b \o (IF x.vc = v THEN <<x>> ELSE <<>>) \o (IF y.vc = v THEN <<y>> ELSE <<>>)

\* The routes of the packets of VC v that have left the switch and whose tail
\* was not read: those in the header FIFO, then those on their way to it.
Routes(v) ==
    With(With(headers[v], link.vc = v /\ link.hdr, link.src),
         crossbar.vc = v /\ crossbar.hdr, crossbar.src)

\* The flits s form packets one after another; the first one goes on with a
\* packet when begun, and the last packet is still open when open.
InOrder(s, begun, open) ==
    IF s = <<>> THEN begun <=> open
    ELSE /\ s[1].hdr <=> ~begun
         /\ \A k \in 2 .. Len(s) : s[k].hdr <=> s[k-1].tail
         /\ s[Len(s)].tail <=> ~open

\* m numbers the packets of the flits s so that r holds their routes; their
\* headers are a shortest packet apart at least.
Numbers(m, s, r) ==
    /\ m \in [1 .. Len(s) -> 1 .. Len(r)]
    /\ s # <<>> => m[1] = 1 /\ m[Len(s)] = Len(r)
    /\ \A k \in 2 .. Len(s) : m[k] = IF s[k].hdr THEN m[k-1] + 1 ELSE m[k-1]
    /\ \A j, k \in 1 .. Len(s) : j <= k => m[j] <= m[k]
    /\ \A k \in 1 .. Len(s) : r[m[k]] = s[k].src
    /\ \A j, k \in 1 .. Len(s) :
         j <= k /\ s[j].hdr /\ s[k].hdr => k - j >= (m[k] - m[j]) * MinPck

\* From any header in s to the end of s there are the flits of all packets but
\* the last, and p of that one.
Progress(m, s, r, p) ==
    \A j \in 1 .. Len(s) :
        s[j].hdr => Len(s) + 1 - j >= (Len(r) - m[j]) * MinPck + p

\* The routes r are those of the packets of the flits s, and of the open one
\* when all its flits are gone; of the last packet, p flits were sent.
Routed(s, r, open, p) ==
    /\ \E m : Numbers(m, s, r) /\ Progress(m, s, r, p)
    /\ s = <<>> => Len(r) = IF open THEN 1 ELSE 0

\* At least p flits of the last packet of VC v were sent.
Sent(v, p) == /\ ~status[v] => p >= MinPck
              /\ \A i \in Ivc : assigned[i] /\ assignedOvc[i] = v => p >= sent[i]

\* The inductive invariant, beside IInv: the streams are in order, their
\* routes are known, whoever holds an OVC is the source of the last packet, and
\* an atomic OVC carries one packet at a time.
OrderInv ==
    /\ ~PipeReg => crossbar = NoFlit
    /\ \A v \in Vc :
         /\ InOrder(Stream(v), dnAssigned[v], status[v])
         /\ \E p \in Nat : Sent(v, p) /\ Routed(Stream(v), Routes(v), status[v], p)
         /\ Atomic => \A k \in 2 .. Len(Stream(v)) : ~Stream(v)[k].hdr
         /\ \A i \in Ivc : assigned[i] /\ assignedOvc[i] = v
                             => Routes(v) # <<>> /\ Routes(v)[Len(Routes(v))] = i

-----------------------------------------------------------------------------
(* Sequences.                                                              *)

\* With yields a sequence, of the length and the elements one expects.
LEMMA WithProperties ==
    ASSUME NEW S, NEW s \in Seq(S), NEW c \in BOOLEAN, NEW e, c => e \in S
    PROVE  /\ With(s, c, e) \in Seq(S)
           /\ Len(With(s, c, e)) = Len(s) + (IF c THEN 1 ELSE 0)
           /\ \A k \in 1 .. Len(s) : With(s, c, e)[k] = s[k]
           /\ c => With(s, c, e)[Len(s) + 1] = e
           /\ With(s, c, e) = <<>> <=> s = <<>> /\ ~c
  BY AppendProperties DEF With

\* Removing the head of a sequence does not meet what is added at its end.
LEMMA TailWith ==
    ASSUME NEW S, NEW s \in Seq(S), s # <<>>, NEW c, NEW e
    PROVE  /\ Tail(With(s, c, e)) = With(Tail(s), c, e)
           /\ Head(With(s, c, e)) = Head(s)
  BY HeadTailAppend DEF With

\* One packet more.
LEMMA OneMore ==
    ASSUME NEW x \in Int, NEW y \in Int
    PROVE  x * y \in Int /\ (x + 1) * y = x * y + y
  OBVIOUS

\* The flags of the flits of a sequence are flags.
LEMMA FlagsOfFlits ==
    ASSUME NEW s \in Seq(Flit)
    PROVE  \A k \in 1 .. Len(s) : s[k].hdr \in BOOLEAN /\ s[k].tail \in BOOLEAN
  <1>1. \A k \in 1 .. Len(s) : s[k] \in Flit
    BY ElementOfSeq
  <1>2. QED
    BY <1>1 DEF Flit

\* Reading the first flit keeps the order; whether a packet is begun is then
\* what that flit's tail flag says.
LEMMA ReadInOrder ==
    ASSUME NEW s \in Seq(Flit), s # <<>>, NEW begun, NEW open \in BOOLEAN,
           InOrder(s, begun, open)
    PROVE  InOrder(Tail(s), ~Head(s).tail, open)
  <1>1. /\ Tail(s) \in Seq(Flit) /\ Len(Tail(s)) = Len(s) - 1
        /\ \A i \in 1 .. Len(Tail(s)) : Tail(s)[i] = s[i+1]
        /\ Head(s) = s[1] /\ Len(s) \in Nat /\ Len(s) >= 1
    BY HeadTailProperties, LenProperties, EmptySeq
  <1>2. \A k \in 1 .. Len(s) : s[k].hdr \in BOOLEAN /\ s[k].tail \in BOOLEAN
    BY FlagsOfFlits
  <1>3. CASE Tail(s) = <<>>
    <2>1. Len(s) = 1
      BY <1>1, <1>3
    <2>2. QED
      BY <1>1, <1>2, <1>3, <2>1 DEF InOrder
  <1>4. CASE Tail(s) # <<>>
    <2>1. Len(s) >= 2
      BY <1>1, <1>4, EmptySeq
    <2>2. Tail(s)[1].hdr <=> s[1].tail
      BY <1>1, <2>1 DEF InOrder
    <2>3. \A k \in 2 .. Len(Tail(s)) : Tail(s)[k].hdr <=> Tail(s)[k-1].tail
      <3> SUFFICES ASSUME NEW k \in 2 .. Len(Tail(s))
                   PROVE  Tail(s)[k].hdr <=> Tail(s)[k-1].tail
        OBVIOUS
      <3>1. s[k+1].hdr <=> s[k].tail
        BY <1>1 DEF InOrder
      <3>2. Tail(s)[k] = s[k+1] /\ Tail(s)[k-1] = s[k]
        BY <1>1
      <3>3. QED
        BY <3>1, <3>2
    <2>4. Tail(s)[Len(Tail(s))].tail <=> ~open
      BY <1>1, <2>1 DEF InOrder
    <2>5. QED
      BY <1>1, <1>2, <1>4, <2>1, <2>2, <2>3, <2>4 DEF InOrder
  <1>5. QED
    BY <1>3, <1>4

\* Sending a flit that is a header exactly when no packet is open keeps it.
LEMMA SendInOrder ==
    ASSUME NEW s \in Seq(Flit), NEW begun \in BOOLEAN, NEW open \in BOOLEAN,
           InOrder(s, begun, open), NEW f \in Flit, f.hdr <=> ~open
    PROVE  InOrder(Append(s, f), begun, ~f.tail)
  <1>1. /\ Append(s, f) # <<>> /\ Len(Append(s, f)) = Len(s) + 1
        /\ \A i \in 1 .. Len(s) : Append(s, f)[i] = s[i]
        /\ Append(s, f)[Len(s)+1] = f /\ Len(s) \in Nat
        /\ s = <<>> <=> Len(s) = 0
        /\ f.tail \in BOOLEAN /\ f.hdr \in BOOLEAN
    BY AppendProperties, LenProperties, EmptySeq DEF Flit
  <1>2. \A k \in 1 .. Len(s) : s[k].tail \in BOOLEAN
    BY FlagsOfFlits
  <1>3. QED
    BY <1>1, <1>2 DEF InOrder

\* Without flits there is nothing to number.
LEMMA NothingNumbered ==
    ASSUME NEW s, s = <<>>, NEW r
    PROVE  \A p : \E m : Numbers(m, s, r) /\ Progress(m, s, r, p)
  <1>1. \A p : Numbers(<<>>, <<>>, r) /\ Progress(<<>>, <<>>, r, p)
    BY DEF Numbers, Progress
  <1>2. QED
    BY <1>1, Zenon

\* Reading a flit, and with a tail its packet's route, keeps the numbering:
\* every number is one less after a tail.
LEMMA ReadRouted ==
    ASSUME NEW s \in Seq(Flit), s # <<>>, NEW r \in Seq(Ivc),
           NEW begun, NEW open \in BOOLEAN,
           InOrder(s, begun, open), NEW p \in Nat, Routed(s, r, open, p)
    PROVE  /\ r # <<>>
           /\ Routed(Tail(s), IF Head(s).tail THEN Tail(r) ELSE r, open, p)
           /\ Head(s).tail /\ open => Tail(r) # <<>>
  <1> DEFINE last == Head(s).tail
             rest == IF last THEN Tail(r) ELSE r
             done == IF last THEN 1 ELSE 0
  <1>1. /\ Tail(s) \in Seq(Flit) /\ Len(Tail(s)) = Len(s) - 1
        /\ \A k \in 1 .. Len(Tail(s)) : Tail(s)[k] = s[k+1]
        /\ Head(s) = s[1] /\ Len(s) \in Nat /\ Len(s) >= 1
        /\ Tail(s) = <<>> <=> Len(s) = 1
    <2>1. /\ Tail(s) \in Seq(Flit) /\ Len(Tail(s)) = Len(s) - 1
          /\ \A k \in 1 .. Len(Tail(s)) : Tail(s)[k] = s[k+1]
          /\ Len(s) \in Nat /\ Len(s) >= 1
      BY HeadTailProperties, LenProperties, EmptySeq
    <2>2. Tail(s) # <<>> => Len(Tail(s)) # 0
      BY <2>1, EmptySeq
    <2>3. Tail(s) = <<>> => Len(Tail(s)) = 0
      BY EmptySeq
    <2>4. QED
      BY <2>1, <2>2, <2>3
  <1>2. \A k \in 1 .. Len(s) : s[k].hdr \in BOOLEAN /\ s[k].tail \in BOOLEAN
    BY FlagsOfFlits
  <1>3. PICK m : Numbers(m, s, r) /\ Progress(m, s, r, p)
    BY DEF Routed
  <1>4. /\ m \in [1 .. Len(s) -> 1 .. Len(r)] /\ m[1] = 1 /\ m[Len(s)] = Len(r)
        /\ \A k \in 2 .. Len(s) : m[k] = IF s[k].hdr THEN m[k-1] + 1 ELSE m[k-1]
        /\ \A j, k \in 1 .. Len(s) : j <= k => m[j] <= m[k]
        /\ \A k \in 1 .. Len(s) : r[m[k]] = s[k].src
        /\ \A j, k \in 1 .. Len(s) :
             j <= k /\ s[j].hdr /\ s[k].hdr => k - j >= (m[k] - m[j]) * MinPck
        /\ \A j \in 1 .. Len(s) :
             s[j].hdr => Len(s) + 1 - j >= (Len(r) - m[j]) * MinPck + p
    BY <1>3 DEF Numbers, Progress
  <1>5. Len(r) \in Nat /\ Len(r) >= 1 /\ r # <<>>
    BY <1>1, <1>4, LenProperties, EmptySeq
  <1>6. /\ Len(rest) = Len(r) - done
        /\ \A k \in 1 .. Len(rest) : rest[k] = r[k + done]
    BY <1>2, <1>1, <1>5, HeadTailProperties, LenProperties
  <1>7. CASE Len(s) = 1
    <2>1. Tail(s) = <<>> /\ Len(Tail(s)) = 0 /\ Len(r) = 1 /\ (last <=> ~open)
      BY <1>1, <1>4, <1>7 DEF InOrder
    <2>2. Len(rest) = IF open THEN 1 ELSE 0
      <3>1. open => done = 0
        BY <2>1
      <3>2. ~open => done = 1
        BY <2>1
      <3>3. Len(rest) = Len(r) - done /\ Len(r) = 1
        BY <1>6, <2>1
      <3> HIDE DEF rest, done
      <3>4. QED
        BY <3>1, <3>2, <3>3
    <2>3. \E m1 : Numbers(m1, Tail(s), rest) /\ Progress(m1, Tail(s), rest, p)
      BY <1>1, <2>1, NothingNumbered, Zenon
    <2>4. QED
      BY <1>5, <2>1, <2>2, <2>3 DEF Routed
  <1>8. CASE Len(s) # 1
    <2>1. Len(s) >= 2 /\ (s[2].hdr <=> last) /\ m[2] = 1 + done
      BY <1>1, <1>2, <1>4, <1>8 DEF InOrder
    <2> DEFINE n == [k \in 1 .. Len(Tail(s)) |-> m[k+1] - done]
    <2>2. Len(r) >= 1 + done
      BY <1>1, <1>4, <1>5, <2>1
    <2>3. n \in [1 .. Len(Tail(s)) -> 1 .. Len(rest)]
      <3> SUFFICES ASSUME NEW k \in 1 .. Len(Tail(s))
                   PROVE  m[k+1] - done \in 1 .. Len(rest)
        OBVIOUS
      <3>1. k + 1 \in 1 .. Len(s) /\ 2 \in 1 .. Len(s) /\ 2 <= k + 1
        BY <1>1, <2>1
      <3>2. m[2] <= m[k+1] /\ m[k+1] \in 1 .. Len(r)
        BY <1>4, <3>1
      <3>3. QED
        BY <1>5, <1>6, <2>1, <2>2, <3>2
    <2>4. Tail(s) # <<>> => n[1] = 1 /\ n[Len(Tail(s))] = Len(rest)
      <3>1. /\ 1 \in 1 .. Len(Tail(s)) /\ Len(Tail(s)) \in 1 .. Len(Tail(s))
            /\ Len(Tail(s)) + 1 = Len(s)
        BY <1>1, <2>1
      <3>2. n[1] = m[2] - done /\ n[Len(Tail(s))] = m[Len(s)] - done
        BY <3>1
      <3>3. m[Len(s)] = Len(r) /\ Len(rest) = Len(r) - done
        BY <1>4, <1>6
      <3>4. done \in Int
        OBVIOUS
      <3> HIDE DEF n, rest, done
      <3>5. QED
        BY <2>1, <3>2, <3>3, <3>4
    <2>5. ASSUME NEW k \in 2 .. Len(Tail(s))
          PROVE  n[k] = IF Tail(s)[k].hdr THEN n[k-1] + 1 ELSE n[k-1]
      <3>1. /\ k + 1 \in 2 .. Len(s) /\ k \in 1 .. Len(s) /\ k - 1 \in 1 .. Len(Tail(s))
            /\ Tail(s)[k] = s[k+1] /\ (k + 1) - 1 = k /\ (k - 1) + 1 = k
        BY <1>1
      <3>2. m[k+1] = IF s[k+1].hdr THEN m[k] + 1 ELSE m[k]
        BY <1>4, <3>1
      <3>3. m[k] \in Int
        BY <1>4, <3>1
      <3>4. QED
        BY <3>1, <3>2, <3>3
    <2>6. ASSUME NEW j \in 1 .. Len(Tail(s)), NEW k \in 1 .. Len(Tail(s)), j <= k
          PROVE  n[j] <= n[k]
      <3>1. j + 1 \in 1 .. Len(s) /\ k + 1 \in 1 .. Len(s) /\ j + 1 <= k + 1
        BY <1>1, <2>6
      <3>2. m[j+1] <= m[k+1]
        <4>1. \A a, b \in 1 .. Len(s) : a <= b => m[a] <= m[b]
          BY <1>4
        <4>2. QED
          BY <3>1, <4>1
      <3>4. m[j+1] \in Int /\ m[k+1] \in Int
        <4>1. m \in [1 .. Len(s) -> 1 .. Len(r)]
          BY <1>4
        <4>2. m[j+1] \in 1 .. Len(r) /\ m[k+1] \in 1 .. Len(r)
          BY <3>1, <4>1
        <4>3. QED
          BY <4>2
      <3>3. QED
        BY <3>2, <3>4
    <2>7. ASSUME NEW k \in 1 .. Len(Tail(s))
          PROVE  rest[n[k]] = Tail(s)[k].src
      <3>1. k + 1 \in 1 .. Len(s) /\ Tail(s)[k] = s[k+1]
        BY <1>1
      <3>2. n[k] \in 1 .. Len(rest) /\ n[k] + done = m[k+1]
        <4>1. n[k] = m[k+1] - done /\ m[k+1] \in Int /\ done \in Int
          BY <1>4, <3>1
        <4>2. n[k] \in 1 .. Len(rest)
          BY <2>3
        <4> HIDE DEF n, done
        <4>3. QED
          BY <4>1, <4>2
      <3>3. QED
        BY <1>4, <1>6, <3>1, <3>2
    <2> DEFINE t == Tail(s)
    <2>12. ASSUME NEW j \in 1 .. Len(t), t[j].hdr
           PROVE  /\ j + 1 \in 1 .. Len(s) /\ s[j+1].hdr
                  /\ n[j] = m[j+1] - done /\ m[j+1] \in Int /\ done \in Int
                  /\ \A k \in 1 .. Len(t) : j <= k /\ t[k].hdr
                        => k - j >= (n[k] - n[j]) * MinPck
                  /\ Len(t) + 1 - j >= (Len(rest) - n[j]) * MinPck + p
      <3>1. j + 1 \in 1 .. Len(s) /\ t[j] = s[j+1] /\ s[j+1].hdr
        BY <1>1, <2>12
      <3>2. n[j] = m[j+1] - done /\ m[j+1] \in Int /\ done \in Int
        BY <1>4, <3>1
      <3>3. ASSUME NEW k \in 1 .. Len(t), j <= k, t[k].hdr
            PROVE  k - j >= (n[k] - n[j]) * MinPck
        <4>1. k + 1 \in 1 .. Len(s) /\ t[k] = s[k+1] /\ s[k+1].hdr
          BY <1>1, <3>3
        <4>2. n[k] = m[k+1] - done /\ m[k+1] \in Int
          <5>1. m[k+1] \in 1 .. Len(r)
            BY <1>4, <4>1
          <5>2. QED
            BY <5>1
        <4>3. (k + 1) - (j + 1) >= (m[k+1] - m[j+1]) * MinPck
          BY <1>4, <3>1, <3>3, <4>1
        <4>4. n[k] - n[j] = m[k+1] - m[j+1] /\ (k + 1) - (j + 1) = k - j
          <5> HIDE DEF n, done
          <5> QED
            BY <1>1, <3>2, <4>2
        <4>5. QED
          BY <4>3, <4>4
      <3>4. Len(t) + 1 - j >= (Len(rest) - n[j]) * MinPck + p
        <4>1. Len(s) + 1 - (j + 1) >= (Len(r) - m[j+1]) * MinPck + p
          BY <1>4, <3>1
        <4>2. Len(rest) - n[j] = Len(r) - m[j+1] /\ Len(s) + 1 - (j + 1) = Len(t) + 1 - j
          <5>1. Len(rest) = Len(r) - done /\ Len(t) = Len(s) - 1
            BY <1>1, <1>6
          <5>3. Len(r) \in Int /\ Len(s) \in Int
            BY <1>1, <1>5
          <5> HIDE DEF n, rest, done, t
          <5>2. Len(rest) - n[j] = Len(r) - m[j+1]
            BY <3>2, <5>1, <5>3
          <5>4. Len(s) + 1 - (j + 1) = Len(t) + 1 - j
            BY <5>1, <5>3
          <5>5. QED
            BY <5>2, <5>4
        <4>3. QED
          BY <4>1, <4>2
      <3>5. QED
        BY <3>1, <3>2, <3>3, <3>4
    <2>8. Numbers(n, Tail(s), rest)
      <3> HIDE DEF n, rest
      <3> QED
        BY <2>3, <2>4, <2>5, <2>6, <2>7, <2>12 DEF Numbers
    <2>13. Progress(n, Tail(s), rest, p)
      <3> HIDE DEF n, rest
      <3> QED
        BY <2>12 DEF Progress
    <2>9. Routed(Tail(s), rest, open, p)
      BY <1>1, <1>8, <2>8, <2>13, Zenon DEF Routed
    <2>10. ASSUME last PROVE Tail(r) # <<>>
      <3>1. done = 1
        BY <2>10
      <3>2. Len(Tail(r)) = Len(r) - 1
        BY <1>5, HeadTailProperties
      <3> HIDE DEF last, done
      <3>3. Len(Tail(r)) >= 1
        BY <1>5, <2>2, <3>1, <3>2
      <3>4. Len(<<>>) = 0 /\ ~(0 >= 1)
        OBVIOUS
      <3>5. QED
        BY <3>3, <3>4, Zenon
    <2>11. QED
      BY <1>5, <2>9, <2>10
  <1>9. QED
    BY <1>7, <1>8

\* Sending a flit, and with a header its packet's route, keeps the numbering:
\* the flit belongs to the last packet.
LEMMA SendRouted ==
    ASSUME NEW s \in Seq(Flit), NEW r \in Seq(Ivc), NEW open \in BOOLEAN,
           NEW p \in Nat, Routed(s, r, open, p), NEW f \in Flit, f.hdr <=> ~open,
           ~f.hdr => r # <<>> /\ r[Len(r)] = f.src, f.hdr => p >= MinPck
    PROVE  LET more == With(r, f.hdr, f.src)
           IN  /\ Routed(Append(s, f), more, ~f.tail, IF f.hdr THEN 1 ELSE p + 1)
               /\ more # <<>> /\ more[Len(more)] = f.src
  <1> DEFINE more == With(r, f.hdr, f.src)
             t    == Append(s, f)
             q    == IF f.hdr THEN 1 ELSE p + 1
  <1>1. /\ t # <<>> /\ Len(t) = Len(s) + 1 /\ t[Len(s)+1] = f
        /\ \A k \in 1 .. Len(s) : t[k] = s[k]
        /\ Len(s) \in Nat /\ (s = <<>> <=> Len(s) = 0)
    BY AppendProperties, LenProperties, EmptySeq
  <1>2. f.hdr \in BOOLEAN /\ f.src \in Ivc
    BY DEF Flit
  <1>3. /\ more \in Seq(Ivc) /\ Len(more) = Len(r) + (IF f.hdr THEN 1 ELSE 0)
        /\ \A k \in 1 .. Len(r) : more[k] = r[k]
        /\ f.hdr => more[Len(r) + 1] = f.src
        /\ Len(r) \in Nat
    <2>1. Len(r) \in Nat
      BY LenProperties
    <2>2. CASE f.hdr
      BY <1>2, <2>1, <2>2, AppendProperties DEF With
    <2>3. CASE ~f.hdr
      BY <2>1, <2>3 DEF With
    <2>4. QED
      BY <1>2, <2>2, <2>3
  <1> HIDE DEF more
  <1>4. Len(more) >= 1 /\ more[Len(more)] = f.src
    <2>1. CASE f.hdr
      BY <1>3, <2>1
    <2>2. CASE ~f.hdr
      <3>1. Len(r) >= 1 /\ r[Len(r)] = f.src
        BY <1>3, <2>2, EmptySeq
      <3>2. QED
        BY <1>3, <2>2, <3>1
    <2>3. QED
      BY <1>2, <2>1, <2>2
  <1>5. PICK m : Numbers(m, s, r) /\ Progress(m, s, r, p)
    BY DEF Routed
  <1>6. /\ m \in [1 .. Len(s) -> 1 .. Len(r)]
        /\ s # <<>> => m[1] = 1 /\ m[Len(s)] = Len(r)
        /\ \A k \in 2 .. Len(s) : m[k] = IF s[k].hdr THEN m[k-1] + 1 ELSE m[k-1]
        /\ \A j, k \in 1 .. Len(s) : j <= k => m[j] <= m[k]
        /\ \A k \in 1 .. Len(s) : r[m[k]] = s[k].src
        /\ \A j, k \in 1 .. Len(s) :
             j <= k /\ s[j].hdr /\ s[k].hdr => k - j >= (m[k] - m[j]) * MinPck
        /\ \A j \in 1 .. Len(s) :
             s[j].hdr => Len(s) + 1 - j >= (Len(r) - m[j]) * MinPck + p
    BY <1>5 DEF Numbers, Progress
  <1> DEFINE n == [k \in 1 .. Len(t) |-> IF k <= Len(s) THEN m[k] ELSE Len(more)]
  <1> HIDE DEF t
  <1>7. n \in [1 .. Len(t) -> 1 .. Len(more)]
    BY <1>1, <1>2, <1>3, <1>4, <1>6
  <1>8. n[1] = 1 /\ n[Len(t)] = Len(more)
    <2>1. s = <<>> => Len(more) = 1
      <3>1. s = <<>> => Len(r) = IF open THEN 1 ELSE 0
        BY DEF Routed
      <3>2. CASE open
        <4>1. ~f.hdr /\ Len(more) = Len(r)
          BY <1>3, <3>2
        <4>2. QED
          BY <3>1, <3>2, <4>1
      <3>3. CASE ~open
        BY <1>3, <3>1, <3>3
      <3>4. QED
        BY <3>2, <3>3
    <2>2. QED
      BY <1>1, <1>6, <2>1
  <1>9. ASSUME NEW k \in 2 .. Len(t)
        PROVE  n[k] = IF t[k].hdr THEN n[k-1] + 1 ELSE n[k-1]
    <2>1. CASE k <= Len(s)
      <3>1. k \in 2 .. Len(s) /\ k \in 1 .. Len(s) /\ k - 1 \in 1 .. Len(s)
        BY <1>1, <2>1
      <3>2. n[k] = m[k] /\ n[k-1] = m[k-1] /\ t[k] = s[k]
        BY <1>1, <2>1, <3>1
      <3>3. m[k] = IF s[k].hdr THEN m[k-1] + 1 ELSE m[k-1]
        BY <1>6, <3>1
      <3>4. QED
        BY <3>2, <3>3
    <2>2. CASE k = Len(s) + 1
      <3>1. t[k] = f /\ n[k] = Len(more) /\ n[k-1] = Len(r)
        BY <1>1, <1>6, <2>2
      <3>2. QED
        BY <1>2, <1>3, <3>1
    <2>3. QED
      BY <1>1, <2>1, <2>2
  <1>10. ASSUME NEW j \in 1 .. Len(t), NEW k \in 1 .. Len(t), j <= k
         PROVE  n[j] <= n[k]
    <2>1. CASE k <= Len(s)
      <3>1. j \in 1 .. Len(s) /\ k \in 1 .. Len(s)
        BY <1>1, <1>10, <2>1
      <3>2. m[j] <= m[k]
        BY <1>6, <1>10, <3>1
      <3>3. QED
        BY <3>1, <3>2
    <2>2. CASE k = Len(s) + 1
      <3>1. n[k] = Len(more) /\ n[j] \in 1 .. Len(more)
        BY <1>1, <1>7, <2>2
      <3>2. QED
        BY <3>1
    <2>3. QED
      BY <1>1, <2>1, <2>2
  <1>11. ASSUME NEW k \in 1 .. Len(t)
         PROVE  more[n[k]] = t[k].src
    <2>1. CASE k <= Len(s)
      <3>1. k \in 1 .. Len(s) /\ t[k] = s[k] /\ n[k] = m[k] /\ m[k] \in 1 .. Len(r)
        BY <1>1, <1>6, <2>1
      <3>2. more[m[k]] = r[m[k]] /\ r[m[k]] = s[k].src
        BY <1>3, <1>6, <3>1
      <3>3. QED
        BY <3>1, <3>2
    <2>2. CASE k = Len(s) + 1
      BY <1>1, <1>4, <2>2
    <2>3. QED
      BY <1>1, <2>1, <2>2
  <1>15. ASSUME NEW j \in 1 .. Len(s), s[j].hdr
         PROVE  /\ n[j] = m[j] /\ m[j] \in Int /\ MinPck \in Int
                /\ f.hdr => (Len(s) + 1) - j >= (Len(more) - m[j]) * MinPck
                /\ Len(t) + 1 - j >= (Len(more) - m[j]) * MinPck + q
    <2>1. n[j] = m[j] /\ m[j] \in Int /\ MinPck \in Int
      <3>1. j <= Len(s) /\ n[j] = m[j]
        BY <1>1
      <3>2. m[j] \in 1 .. Len(r)
        BY <1>6
      <3>3. MinPck \in Int
        BY ConstAssumption
      <3>4. QED
        BY <3>1, <3>2, <3>3
    <2>2. Len(s) + 1 - j >= (Len(r) - m[j]) * MinPck + p
      BY <1>6, <1>15
    <2> DEFINE x == Len(r) - m[j]
               y == Len(more) - m[j]
    <2>6. x \in Int /\ x * MinPck \in Int /\ (x + 1) * MinPck = x * MinPck + MinPck
      <3>1. x \in Int
        BY <1>3, <2>1, LenProperties
      <3> HIDE DEF x
      <3>2. QED
        BY <2>1, <3>1, OneMore
    <2>7. Len(t) = Len(s) + 1 /\ Len(s) \in Int /\ p \in Int /\ j \in Int
      BY <1>1
    <2>3. CASE f.hdr
      <3>1. y = x + 1
        BY <1>3, <2>1, <2>3
      <3>2. p >= MinPck /\ q = 1
        BY <2>3
      <3>3. y * MinPck = x * MinPck + MinPck
        BY <2>6, <3>1
      <3> DEFINE xm == x * MinPck
                 ym == y * MinPck
      <3>4. Len(s) + 1 - j >= xm + p /\ ym = xm + MinPck /\ xm \in Int
        BY <2>2, <2>6, <3>3
      <3> HIDE DEF xm, ym, q
      <3>5. (Len(s) + 1) - j >= ym /\ Len(t) + 1 - j >= ym + q
        BY <2>1, <2>7, <3>2, <3>4
      <3>6. QED
        BY <2>1, <3>5 DEF xm, ym
    <2>4. CASE ~f.hdr
      <3>1. y = x /\ q = p + 1
        BY <1>3, <2>4
      <3> DEFINE xm == x * MinPck
                 ym == y * MinPck
      <3>2. Len(s) + 1 - j >= xm + p /\ ym = xm /\ xm \in Int
        BY <2>2, <2>6, <3>1
      <3> HIDE DEF xm, ym, q
      <3>3. Len(t) + 1 - j >= ym + q
        BY <2>7, <3>1, <3>2
      <3>4. QED
        BY <2>1, <2>4, <3>3 DEF ym
    <2>5. QED
      BY <1>2, <2>3, <2>4
  <1>16. ASSUME NEW j \in 1 .. Len(t), NEW k \in 1 .. Len(t),
                j <= k, t[j].hdr, t[k].hdr
         PROVE  k - j >= (n[k] - n[j]) * MinPck
    <2>1. MinPck \in Int
      BY ConstAssumption
    <2>2. CASE k <= Len(s)
      <3>1. j \in 1 .. Len(s) /\ k \in 1 .. Len(s) /\ s[j].hdr /\ s[k].hdr
        BY <1>1, <1>16, <2>2
      <3>2. n[j] = m[j] /\ n[k] = m[k]
        BY <3>1
      <3>3. k - j >= (m[k] - m[j]) * MinPck
        BY <1>6, <1>16, <3>1
      <3>4. QED
        BY <3>2, <3>3
    <2>3. CASE k = Len(s) + 1
      <3>1. f.hdr /\ n[k] = Len(more)
        BY <1>1, <1>16, <2>3
      <3>2. CASE j <= Len(s)
        <4>1. j \in 1 .. Len(s) /\ s[j].hdr
          BY <1>1, <1>16, <3>2
        <4>2. n[j] = m[j] /\ (Len(s) + 1) - j >= (Len(more) - m[j]) * MinPck
          BY <1>15, <3>1, <4>1
        <4>3. QED
          BY <2>3, <3>1, <4>2
      <3>3. CASE j = Len(s) + 1
        <4>1. n[k] - n[j] = 0 /\ k - j = 0
          BY <1>1, <1>3, <2>3, <3>1, <3>3
        <4>2. 0 * MinPck = 0
          BY <2>1
        <4>3. QED
          BY <4>1, <4>2
      <3>4. QED
        BY <1>1, <3>2, <3>3
    <2>4. QED
      BY <1>1, <2>2, <2>3
  <1>12. Numbers(n, t, more)
    <2> HIDE DEF n
    <2> QED
      BY <1>1, <1>7, <1>8, <1>9, <1>10, <1>11, <1>16 DEF Numbers
  <1>17. Progress(n, t, more, q)
    <2> SUFFICES ASSUME NEW j \in 1 .. Len(t), t[j].hdr
                 PROVE  Len(t) + 1 - j >= (Len(more) - n[j]) * MinPck + q
      BY DEF Progress
    <2>1. CASE j <= Len(s)
      <3>1. j \in 1 .. Len(s) /\ s[j].hdr
        BY <1>1, <2>1
      <3>2. n[j] = m[j] /\ Len(t) + 1 - j >= (Len(more) - m[j]) * MinPck + q
        BY <1>15, <3>1
      <3>3. QED
        BY <3>2
    <2>2. CASE j = Len(s) + 1
      <3>1. f.hdr /\ n[j] = Len(more) /\ Len(t) + 1 - j = 1
        BY <1>1, <2>2
      <3>2. Len(more) - n[j] = 0 /\ q = 1
        BY <1>3, <3>1
      <3>3. 0 * MinPck + 1 = 1
        BY ConstAssumption
      <3>4. QED
        BY <3>1, <3>2, <3>3
    <2>3. QED
      BY <1>1, <2>1, <2>2
  <1>13. more # <<>>
    BY <1>4, EmptySeq
  <1>14. Routed(t, more, ~f.tail, q)
    BY <1>1, <1>12, <1>17, Zenon DEF Routed
  <1>18. QED
    BY <1>4, <1>13, <1>14 DEF more, t

-----------------------------------------------------------------------------
(* What one clock edge does to a stream and to its routes.                 *)

\* The stream is the buffer with the flits on the link and in the crossbar.
LEMMA StreamShape ==
    ASSUME NEW b \in Seq(Flit), NEW x \in Flit \cup {NoFlit},
           NEW y \in Flit \cup {NoFlit}, NEW v \in Vc
    PROVE  /\ Joined(b, x, y, v) = With(With(b, x.vc = v, x), y.vc = v, y)
           /\ With(b, x.vc = v, x) \in Seq(Flit)
           /\ With(With(b, x.vc = v, x), y.vc = v, y) \in Seq(Flit)
  <1>1. (x.vc = v => x \in Flit) /\ (y.vc = v => y \in Flit)
    BY ConstAssumption DEF NoFlit
  <1>2. With(b, x.vc = v, x) \in Seq(Flit)
    BY <1>1, AppendProperties DEF With
  <1>3. b \o (IF x.vc = v THEN <<x>> ELSE <<>>) = With(b, x.vc = v, x)
    <2>1. CASE x.vc = v
      BY <1>1, <2>1, AppendIsConcat, Zenon DEF With
    <2>2. CASE x.vc # v
      BY <2>2, ConcatEmptySeq, Zenon DEF With
    <2>3. QED
      BY <2>1, <2>2
  <1>4. With(b, x.vc = v, x) \o (IF y.vc = v THEN <<y>> ELSE <<>>)
          = With(With(b, x.vc = v, x), y.vc = v, y)
    <2>1. CASE y.vc = v
      BY <1>1, <1>2, <2>1, AppendIsConcat, Zenon DEF With
    <2>2. CASE y.vc # v
      BY <1>2, <2>2, ConcatEmptySeq, Zenon DEF With
    <2>3. QED
      BY <2>1, <2>2
  <1>5. With(With(b, x.vc = v, x), y.vc = v, y) \in Seq(Flit)
    BY <1>1, <1>2, AppendProperties DEF With
  <1>6. QED
    BY <1>2, <1>3, <1>4, <1>5, Zenon DEF Joined

\* What StreamShape says of the stream of a state.
LEMMA StreamNow ==
    ASSUME TypeOK, NEW v \in Vc
    PROVE  /\ Stream(v) = With(With(buffer[v], link.vc = v, link), crossbar.vc = v, crossbar)
           /\ Stream(v) \in Seq(Flit)
  <1> DEFINE now == buffer[v]
  <1>1. now \in Seq(Flit)
    BY DEF TypeOK
  <1>2. link \in Flit \cup {NoFlit} /\ crossbar \in Flit \cup {NoFlit}
    BY DEF TypeOK
  <1>3. Stream(v) = Joined(now, link, crossbar, v)
    BY Zenon DEF Stream, Joined
  <1> HIDE DEF now
  <1>4. Joined(now, link, crossbar, v)
          = With(With(now, link.vc = v, link), crossbar.vc = v, crossbar)
    BY <1>1, <1>2, StreamShape
  <1>5. With(With(now, link.vc = v, link), crossbar.vc = v, crossbar) \in Seq(Flit)
    BY <1>1, <1>2, StreamShape
  <1>6. QED
    BY <1>3, <1>4, <1>5 DEF now

\* A stream loses the flit that is read and gains the one that is granted.
LEMMA StreamStep ==
    ASSUME IInv, TypeOK', ~PipeReg => crossbar = NoFlit,
           NEW f \in SwitchGrants, NEW d \in ReadGrants, Cycle(f, d), NEW v \in Vc
    PROVE  /\ Stream(v) \in Seq(Flit)
           /\ Stream(v)' = With(IF d = v THEN Tail(Stream(v)) ELSE Stream(v), f.vc = v, f)
           /\ d = v => Stream(v) # <<>> /\ Head(Stream(v)) = Head(buffer[v])
  <1> DEFINE now == buffer[v]
             next == buffer'[v]
             kept(s) == IF d = v THEN Tail(s) ELSE s
             whole   == With(With(now, link.vc = v, link), crossbar.vc = v, crossbar)
  <1>1. /\ now \in Seq(Flit) /\ (d = v => now # <<>>)
        /\ link \in Flit \cup {NoFlit} /\ crossbar \in Flit \cup {NoFlit}
        /\ next \in Seq(Flit)
        /\ link' \in Flit \cup {NoFlit} /\ crossbar' \in Flit \cup {NoFlit}
    BY ConstAssumption DEF IInv, TypeOK, ReadGrants
  <1>2. Stream(v) = Joined(now, link, crossbar, v) /\ Stream(v)' = Joined(next, link', crossbar', v)
    BY Zenon DEF Stream, Joined
  <1>3. next = With(kept(now), link.vc = v, link)
    BY DEF Cycle, InputPort, FlitBuffer, With
  <1> HIDE DEF now, next
  <1>4. Stream(v) = whole /\ whole \in Seq(Flit)
    BY StreamNow, Zenon DEF IInv, now
  <1>5. Stream(v)' = With(With(next, link'.vc = v, link'), crossbar'.vc = v, crossbar')
    BY <1>1, <1>2, StreamShape
  <1>6. /\ kept(whole) = With(With(kept(now), link.vc = v, link), crossbar.vc = v, crossbar)
        /\ d = v => whole # <<>> /\ Head(whole) = Head(now)
    <2>1. CASE d = v
      <3> DEFINE once == With(now, link.vc = v, link)
      <3>1. /\ once \in Seq(Flit) /\ once # <<>>
            /\ Tail(once) = With(Tail(now), link.vc = v, link)
            /\ Head(once) = Head(now)
        <4>1. once \in Seq(Flit)
          BY <1>1, StreamShape, Zenon
        <4>2. once # <<>>
          BY <1>1, <2>1, ConstAssumption, AppendProperties DEF With, NoFlit
        <4>3. QED
          BY <1>1, <2>1, <4>1, <4>2, TailWith
      <3> HIDE DEF once
      <3>2. /\ Tail(With(once, crossbar.vc = v, crossbar))
                  = With(Tail(once), crossbar.vc = v, crossbar)
            /\ Head(With(once, crossbar.vc = v, crossbar)) = Head(once)
        BY <3>1, TailWith
      <3>3. With(once, crossbar.vc = v, crossbar) # <<>>
        BY <1>1, <3>1, ConstAssumption, AppendProperties DEF With, NoFlit
      <3> USE DEF once
      <3>4. QED
        BY <2>1, <3>1, <3>2, <3>3
    <2>2. CASE d # v
      BY <2>2
    <2>3. QED
      BY <2>1, <2>2
  <1>7. Stream(v)' = With(kept(whole), f.vc = v, f)
    <2>1. CASE PipeReg
      <3>1. crossbar' = f /\ link' = crossbar
        BY <2>1 DEF Cycle, OutputPort, FlitPipeline
      <3> HIDE DEF kept, whole
      <3>2. QED
        BY <1>3, <1>5, <1>6, <3>1
    <2>2. CASE ~PipeReg
      <3>1. crossbar = NoFlit /\ crossbar' = NoFlit /\ link' = f /\ NoFlit.vc # v
        BY <2>2, ConstAssumption DEF Cycle, OutputPort, FlitPipeline, NoFlit
      <3>2. \A s, e : With(s, NoFlit.vc = v, e) = s
        BY <3>1 DEF With
      <3> HIDE DEF kept, whole
      <3>3. QED
        BY <1>3, <1>5, <1>6, <3>1, <3>2
    <2>3. QED
      BY <2>1, <2>2
  <1>8. QED
    BY <1>4, <1>6, <1>7 DEF now

\* Without its last flit, and a header's route, a numbering is one still.
LEMMA UnsendNumbers ==
    ASSUME NEW s \in Seq(Flit), s # <<>>, NEW r \in Seq(Ivc), NEW e \in Flit,
           NEW m, Numbers(m, Append(s, e), With(r, e.hdr, e.src))
    PROVE  \E n : Numbers(n, s, r) /\ \A k \in 1 .. Len(s) : n[k] = m[k]
  <1> DEFINE more == With(r, e.hdr, e.src)
             t    == Append(s, e)
             n    == [k \in 1 .. Len(s) |-> m[k]]
  <1>1. /\ Len(t) = Len(s) + 1 /\ t[Len(s)+1] = e /\ t # <<>>
        /\ \A k \in 1 .. Len(s) : t[k] = s[k]
        /\ Len(s) \in Nat /\ Len(s) >= 1 /\ Len(r) \in Nat
    BY AppendProperties, LenProperties, EmptySeq
  <1>2. e.hdr \in BOOLEAN /\ e.src \in Ivc
    BY DEF Flit
  <1>3. /\ Len(more) = Len(r) + (IF e.hdr THEN 1 ELSE 0)
        /\ \A k \in 1 .. Len(r) : more[k] = r[k]
    <2>1. CASE e.hdr
      BY <1>2, <1>1, <2>1, AppendProperties DEF With
    <2>2. CASE ~e.hdr
      BY <1>1, <2>2 DEF With
    <2>3. QED
      BY <2>1, <2>2
  <1> HIDE DEF more, t
  <1>4. /\ m \in [1 .. Len(t) -> 1 .. Len(more)]
        /\ t # <<>> => m[1] = 1 /\ m[Len(t)] = Len(more)
        /\ \A k \in 2 .. Len(t) : m[k] = IF t[k].hdr THEN m[k-1] + 1 ELSE m[k-1]
        /\ \A j, k \in 1 .. Len(t) : j <= k => m[j] <= m[k]
        /\ \A k \in 1 .. Len(t) : more[m[k]] = t[k].src
        /\ \A j, k \in 1 .. Len(t) :
             j <= k /\ t[j].hdr /\ t[k].hdr => k - j >= (m[k] - m[j]) * MinPck
    BY DEF Numbers, more, t
  <1>5. m[1] = 1 /\ m[Len(s)] = Len(r)
    <2>1. m[Len(s)+1] = IF e.hdr THEN m[Len(s)] + 1 ELSE m[Len(s)]
      BY <1>1, <1>4
    <2>2. m[Len(s)] \in Int
      BY <1>1, <1>4
    <2>3. QED
      BY <1>1, <1>3, <1>4, <2>1, <2>2
  <1>6. ASSUME NEW k \in 1 .. Len(s)
        PROVE  n[k] = m[k] /\ m[k] \in 1 .. Len(r) /\ t[k] = s[k] /\ r[m[k]] = s[k].src
    <2>1. /\ k \in 1 .. Len(t) /\ m[k] \in 1 .. Len(more) /\ m[k] <= m[Len(s)]
          /\ t[k] = s[k] /\ more[m[k]] = t[k].src
      BY <1>1, <1>4
    <2>2. m[k] \in 1 .. Len(r)
      BY <1>5, <2>1
    <2>3. QED
      BY <1>3, <2>1, <2>2
  <1>7. n \in [1 .. Len(s) -> 1 .. Len(r)]
    BY <1>6
  <1>8. n[1] = 1 /\ n[Len(s)] = Len(r)
    BY <1>1, <1>5
  <1>9. ASSUME NEW k \in 2 .. Len(s)
        PROVE  n[k] = IF s[k].hdr THEN n[k-1] + 1 ELSE n[k-1]
    BY <1>1, <1>4, <1>6
  <1>10. ASSUME NEW j \in 1 .. Len(s), NEW k \in 1 .. Len(s), j <= k
         PROVE  n[j] <= n[k]
    BY <1>1, <1>4, <1>10
  <1>11. \A k \in 1 .. Len(s) : r[n[k]] = s[k].src
    BY <1>6
  <1>14. ASSUME NEW j \in 1 .. Len(s), NEW k \in 1 .. Len(s),
                j <= k, s[j].hdr, s[k].hdr
         PROVE  k - j >= (n[k] - n[j]) * MinPck
    <2>1. j \in 1 .. Len(t) /\ k \in 1 .. Len(t) /\ t[j].hdr /\ t[k].hdr
      BY <1>1, <1>14
    <2>2. k - j >= (m[k] - m[j]) * MinPck
      BY <1>4, <1>14, <2>1
    <2>3. QED
      BY <1>6, <2>2
  <1>12. Numbers(n, s, r)
    <2> HIDE DEF n
    <2> QED
      BY <1>7, <1>8, <1>9, <1>10, <1>11, <1>14 DEF Numbers
  <1>13. QED
    BY <1>6, <1>12, Zenon

\* The routes in the header FIFO, and that of a header on the link, are those of
\* the packets that have a flit in the buffer or on the link.
LEMMA RoutesUpToLink ==
    ASSUME TypeOK, OrderInv, NEW v \in Vc, buffer[v] # <<>> \/ link.vc = v
    PROVE  LET s == With(buffer[v], link.vc = v, link)
               r == With(headers[v], link.vc = v /\ link.hdr, link.src)
           IN  s \in Seq(Flit) /\ s # <<>> /\ r \in Seq(Ivc) /\ \E m : Numbers(m, s, r)
  <1> DEFINE now    == buffer[v]
             hold   == headers[v]
             onLink == With(now, link.vc = v, link)
             holdL  == With(hold, link.vc = v /\ link.hdr, link.src)
  <1>1. now \in Seq(Flit) /\ hold \in Seq(Ivc)
    BY DEF TypeOK
  <1>2. /\ link.vc = v => link \in Flit
        /\ crossbar.vc = v => crossbar \in Flit
    BY ConstAssumption DEF TypeOK, NoFlit
  <1>3. \E m : Numbers(m, With(onLink, crossbar.vc = v, crossbar),
                        With(holdL, crossbar.vc = v /\ crossbar.hdr, crossbar.src))
    <2>1. \E m : Numbers(m, Stream(v), Routes(v))
      BY Zenon DEF OrderInv, Routed
    <2>2. Stream(v) = With(onLink, crossbar.vc = v, crossbar)
      BY StreamNow, Zenon DEF now, onLink
    <2>3. Routes(v) = With(holdL, crossbar.vc = v /\ crossbar.hdr, crossbar.src)
      BY Zenon DEF Routes, hold, holdL
    <2>4. QED
      BY <2>1, <2>2, <2>3, Zenon
  <1>4. onLink \in Seq(Flit) /\ onLink # <<>> /\ holdL \in Seq(Ivc)
    <2>1. CASE link.vc = v
      <3>1. link.src \in Ivc
        BY <1>2, <2>1 DEF Flit
      <3>2. QED
        BY <1>1, <1>2, <2>1, <3>1, AppendProperties DEF With
    <2>2. CASE link.vc # v
      BY <1>1, <2>2 DEF With
    <2>3. QED
      BY <2>1, <2>2
  <1> HIDE DEF onLink, holdL
  <1>5. \E m : Numbers(m, onLink, holdL)
    <2>1. CASE crossbar.vc = v
      <3>1. PICK m : Numbers(m, Append(onLink, crossbar),
                             With(holdL, crossbar.hdr, crossbar.src))
        BY <1>3, <2>1, Zenon DEF With
      <3>2. QED
        BY <1>2, <1>4, <2>1, <3>1, UnsendNumbers
    <2>2. CASE crossbar.vc # v
      BY <1>3, <2>2, Zenon DEF With
    <2>3. QED
      BY <2>1, <2>2
  <1>6. QED
    BY <1>4, <1>5, Zenon DEF onLink, holdL

\* The header FIFO holds the route of every packet that has a flit in the
\* buffer, the oldest one first.
LEMMA HeadersCover ==
    ASSUME TypeOK, OrderInv, NEW v \in Vc, buffer[v] # <<>>
    PROVE  headers[v] # <<>> /\ Head(headers[v]) = Head(buffer[v]).src
  <1> DEFINE now  == buffer[v]
             hold == headers[v]
  <1>1. now \in Seq(Flit) /\ now # <<>> /\ hold \in Seq(Ivc)
    BY DEF TypeOK
  <1>2. link.vc = v => link \in Flit
    BY ConstAssumption DEF TypeOK, NoFlit
  <1>5. \E m : Numbers(m, With(now, link.vc = v, link),
                        With(hold, link.vc = v /\ link.hdr, link.src))
    BY RoutesUpToLink, Zenon
  <1> HIDE DEF now, hold
  <1>6. \E m : Numbers(m, now, hold)
    <2>1. CASE link.vc = v
      <3>1. PICK m : Numbers(m, Append(now, link), With(hold, link.hdr, link.src))
        BY <1>5, <2>1, Zenon DEF With
      <3>2. QED
        BY <1>1, <1>2, <2>1, <3>1, UnsendNumbers
    <2>2. CASE link.vc # v
      BY <1>5, <2>2, Zenon DEF With
    <2>3. QED
      BY <2>1, <2>2
  <1>7. PICK m : Numbers(m, now, hold)
    BY <1>6
  <1>8. Len(now) >= 1 /\ Len(now) \in Nat /\ Len(hold) \in Nat
    BY <1>1, LenProperties, EmptySeq
  <1>9. m[1] = 1 /\ m[1] \in 1 .. Len(hold) /\ hold[m[1]] = now[1].src
    BY <1>1, <1>7, <1>8 DEF Numbers
  <1>10. Len(hold) >= 1 /\ hold # <<>>
    BY <1>8, <1>9, EmptySeq
  <1>11. Head(hold) = hold[1] /\ Head(now) = now[1]
    OBVIOUS
  <1>12. Head(hold) = Head(now).src
    BY <1>9, <1>11
  <1>13. QED
    BY <1>10, <1>12 DEF now, hold

\* The routes of a VC lose that of the packet whose tail is read and gain that
\* of the header that is granted.
LEMMA RoutesStep ==
    ASSUME IInv, OrderInv,
           NEW f \in SwitchGrants, NEW d \in ReadGrants, Cycle(f, d), NEW v \in Vc
    PROVE  /\ Routes(v) \in Seq(Ivc)
           /\ Routes(v)' = With(IF TailRead(v, d) THEN Tail(Routes(v)) ELSE Routes(v),
                               f.vc = v /\ f.hdr, f.src)
  <1> DEFINE hold    == headers[v]
             next    == headers'[v]
             kept(r) == IF TailRead(v, d) THEN Tail(r) ELSE r
             holdL   == With(hold, link.vc = v /\ link.hdr, link.src)
             whole   == With(holdL, crossbar.vc = v /\ crossbar.hdr, crossbar.src)
  <1>1. /\ hold \in Seq(Ivc)
        /\ link.vc = v => link.src \in Ivc
        /\ crossbar.vc = v => crossbar.src \in Ivc
    BY ConstAssumption DEF IInv, TypeOK, NoFlit, Flit
  <1>2. TailRead(v, d) => hold # <<>>
    <2>1. TailRead(v, d) => buffer[v] # <<>>
      BY ConstAssumption DEF TailRead, ReadGrants
    <2>2. QED
      BY <2>1, HeadersCover DEF IInv
  <1>3. next = With(kept(hold), link.vc = v /\ link.hdr, link.src)
    <2>1. next = LET k == IF TailRead(v, d) /\ hold # <<>> THEN Tail(hold) ELSE hold
                 IN  IF link.vc = v /\ link.hdr THEN Append(k, link.src) ELSE k
      BY DEF Cycle, InputPort, HeaderFifo
    <2> HIDE DEF hold, next
    <2>2. QED
      BY <1>2, <2>1 DEF With
  <1>4. Routes(v) = whole
    BY Zenon DEF Routes, whole, hold
  <1>5. Routes(v)' = With(With(next, link'.vc = v /\ link'.hdr, link'.src),
                          crossbar'.vc = v /\ crossbar'.hdr, crossbar'.src)
    BY Zenon DEF Routes, With
  <1> HIDE DEF hold, next
  <1>6. holdL \in Seq(Ivc)
    BY <1>1, AppendProperties DEF With
  <1>7. whole \in Seq(Ivc)
    <2> HIDE DEF holdL
    <2> QED
      BY <1>1, <1>6, AppendProperties DEF With
  <1>8. kept(whole) = With(With(kept(hold), link.vc = v /\ link.hdr, link.src),
                           crossbar.vc = v /\ crossbar.hdr, crossbar.src)
    <2>1. CASE TailRead(v, d)
      <3>1. holdL # <<>> /\ Tail(holdL) = With(Tail(hold), link.vc = v /\ link.hdr, link.src)
        <4>1. CASE link.vc = v /\ link.hdr
          BY <1>1, <1>2, <2>1, <4>1, AppendProperties, HeadTailAppend DEF With
        <4>2. CASE ~(link.vc = v /\ link.hdr)
          BY <1>2, <2>1, <4>2 DEF With
        <4>3. QED
          BY <4>1, <4>2
      <3> HIDE DEF holdL
      <3>2. Tail(whole) = With(Tail(holdL), crossbar.vc = v /\ crossbar.hdr, crossbar.src)
        BY <1>6, <3>1, HeadTailAppend DEF With
      <3>3. QED
        BY <2>1, <3>1, <3>2
    <2>2. CASE ~TailRead(v, d)
      BY <2>2
    <2>3. QED
      BY <2>1, <2>2
  <1>9. Routes(v)' = With(kept(whole), f.vc = v /\ f.hdr, f.src)
    <2>1. CASE PipeReg
      <3>1. crossbar' = f /\ link' = crossbar
        BY <2>1 DEF Cycle, OutputPort, FlitPipeline
      <3> HIDE DEF kept, whole
      <3>2. QED
        BY <1>3, <1>5, <1>8, <3>1
    <2>2. CASE ~PipeReg
      <3>1. crossbar = NoFlit /\ crossbar' = NoFlit /\ link' = f /\ ~NoFlit.hdr
        BY <2>2 DEF Cycle, OutputPort, FlitPipeline, OrderInv, NoFlit
      <3>2. \A r, e : With(r, NoFlit.vc = v /\ NoFlit.hdr, e) = r
        BY <3>1 DEF With
      <3> HIDE DEF kept, whole
      <3>3. QED
        BY <1>3, <1>5, <1>8, <3>1, <3>2
    <2>3. QED
      BY <2>1, <2>2
  <1>10. QED
    BY <1>4, <1>7, <1>9

-----------------------------------------------------------------------------
(* The step of the induction, in two halves: the read, then the grant.     *)

\* The last element stays the last while there is one.
LEMMA LastOfTail ==
    ASSUME NEW S, NEW r \in Seq(S), r # <<>>, Tail(r) # <<>>
    PROVE  Tail(r)[Len(Tail(r))] = r[Len(r)]
  <1> DEFINE t == Tail(r)
  <1>1. /\ t \in Seq(S) /\ Len(t) = Len(r) - 1 /\ Len(r) \in Nat
        /\ \A k \in 1 .. Len(t) : t[k] = r[k+1]
    BY HeadTailProperties, LenProperties
  <1> HIDE DEF t
  <1>2. t # <<>>
    BY DEF t
  <1>3. Len(t) >= 1
    BY <1>1, <1>2, EmptySeq
  <1>4. t[Len(t)] = r[Len(t)+1] /\ Len(t) + 1 = Len(r)
    BY <1>1, <1>3
  <1>5. QED
    BY <1>4 DEF t

\* What is left of a stream and of its routes after the read of the cycle:
\* the next flit is a header exactly when the reader is between packets.
LEMMA OrderRead ==
    ASSUME IInv, TypeOK', OrderInv,
           NEW f \in SwitchGrants, NEW d \in ReadGrants, Cycle(f, d), NEW v \in Vc
    PROVE  LET s == IF d = v THEN Tail(Stream(v)) ELSE Stream(v)
               r == IF TailRead(v, d) THEN Tail(Routes(v)) ELSE Routes(v)
           IN  /\ s \in Seq(Flit) /\ r \in Seq(Ivc)
               /\ InOrder(s, dnAssigned'[v], status[v])
               /\ \E p \in Nat : Sent(v, p) /\ Routed(s, r, status[v], p)
               /\ Atomic => \A k \in 2 .. Len(s) : ~s[k].hdr
               /\ \A i \in Ivc : assigned[i] /\ assignedOvc[i] = v
                                    => r # <<>> /\ r[Len(r)] = i
  <1> DEFINE s    == Stream(v)
             r    == Routes(v)
             open == status[v]
             goes == dnAssigned[v]
             then == dnAssigned'[v]
  <1>1. /\ s \in Seq(Flit)
        /\ d = v => s # <<>> /\ Head(s) = Head(buffer[v])
    <2>1. ~PipeReg => crossbar = NoFlit
      BY DEF OrderInv
    <2>2. QED
      BY <2>1, StreamStep
  <1>2. r \in Seq(Ivc)
    BY RoutesStep, Zenon
  <1>3. InOrder(s, goes, open)
    BY Zenon DEF OrderInv
  <1>11. PICK p \in Nat : Sent(v, p) /\ Routed(s, r, open, p)
    BY Zenon DEF OrderInv
  <1>12. Atomic => \A k \in 2 .. Len(s) : ~s[k].hdr
    BY Zenon DEF OrderInv
  <1>4. \A i \in Ivc : assigned[i] /\ assignedOvc[i] = v => r # <<>> /\ r[Len(r)] = i
    BY Zenon DEF OrderInv
  <1>5. open \in BOOLEAN
    BY DEF IInv, TypeOK
  <1>6. \A i \in Ivc : assigned[i] /\ assignedOvc[i] = v => open
    BY DEF IInv, OvcExclusive
  <1>7. then = IF d = v THEN ~Head(buffer[v]).tail ELSE goes
    BY DEF Cycle, InputPort, DnAssignment
  <1>8. CASE d # v
    <2>1. then = goes /\ ~TailRead(v, d)
      BY <1>7, <1>8 DEF TailRead
    <2>2. InOrder(s, then, open)
      BY <1>3, <2>1, Zenon
    <2>3. QED
      BY <1>1, <1>2, <1>4, <1>8, <1>11, <1>12, <2>1, <2>2, Zenon
  <1>9. CASE d = v
    <2>1. /\ s # <<>> /\ Head(s) = Head(buffer[v]) /\ then = ~Head(s).tail
          /\ (TailRead(v, d) <=> Head(s).tail)
      BY <1>1, <1>7, <1>9 DEF TailRead
    <2> HIDE DEF s, r, open, goes, then
    <2>2. Tail(s) \in Seq(Flit)
      BY <1>1, <2>1
    <2>3. InOrder(Tail(s), ~Head(s).tail, open)
      BY <1>1, <1>3, <1>5, <2>1, ReadInOrder
    <2>4. /\ r # <<>>
          /\ Routed(Tail(s), IF Head(s).tail THEN Tail(r) ELSE r, open, p)
          /\ Head(s).tail /\ open => Tail(r) # <<>>
      BY <1>1, <1>2, <1>3, <1>5, <1>11, <2>1, ReadRouted
    <2> DEFINE r1 == IF TailRead(v, d) THEN Tail(r) ELSE r
    <2>5. r1 = IF Head(s).tail THEN Tail(r) ELSE r
      BY <2>1
    <2>6. r1 \in Seq(Ivc)
      BY <1>2, <2>4
    <2>7. InOrder(Tail(s), then, open)
      BY <2>1, <2>3, Zenon
    <2>8. Sent(v, p) /\ Routed(Tail(s), r1, open, p)
      BY <1>11, <2>4, <2>5, Zenon
    <2>11. ASSUME Atomic, NEW k \in 2 .. Len(Tail(s))
           PROVE  ~Tail(s)[k].hdr
      <3>1. k + 1 \in 2 .. Len(s) /\ Tail(s)[k] = s[k+1]
        BY <1>1, <2>1, HeadTailProperties, LenProperties
      <3>2. QED
        BY <1>12, <2>11, <3>1
    <2>9. ASSUME NEW i \in Ivc, assigned[i], assignedOvc[i] = v
          PROVE  r1 # <<>> /\ r1[Len(r1)] = i
      <3>1. r # <<>> /\ r[Len(r)] = i /\ open
        BY <1>4, <1>6, <2>9
      <3>2. CASE TailRead(v, d)
        <4>1. Tail(r) # <<>>
          BY <2>1, <2>4, <3>1, <3>2
        <4>2. Tail(r)[Len(Tail(r))] = r[Len(r)]
          BY <1>2, <3>1, <4>1, LastOfTail
        <4>3. QED
          BY <3>1, <3>2, <4>1, <4>2, Zenon
      <3>3. CASE ~TailRead(v, d)
        BY <3>1, <3>3, Zenon
      <3>4. QED
        BY <3>2, <3>3
    <2>10. QED
      BY <1>9, <2>2, <2>6, <2>7, <2>8, <2>9, <2>11, Zenon DEF s, r, open, then
  <1>10. QED
    BY <1>8, <1>9

\* The flit that a grant adds is a header exactly when no packet is open on its
\* OVC, and then the OVC is open until the tail; otherwise it comes from the
\* IVC that holds the OVC.
LEMMA GrantFits ==
    ASSUME IInv, NEW f \in SwitchGrants, OvcStatus(f), NEW v \in Vc, f.vc = v
    PROVE  /\ f \in Flit
           /\ f.hdr <=> ~status[v]
           /\ status'[v] <=> ~f.tail
           /\ ~f.hdr => assigned[f.src] /\ assignedOvc[f.src] = v
  <1>1. f \in Flit /\ f.src \in Ivc /\ CanSend(f)
    BY GrantType, ConstAssumption DEF NoFlit
  <1>2. f.hdr \in BOOLEAN /\ f.tail \in BOOLEAN /\ status[v] \in BOOLEAN
    BY <1>1 DEF Flit, IInv, TypeOK
  <1>3. status'[v] = IF f.hdr /\ ~SingleFlitPck(f) THEN TRUE
                     ELSE IF ~f.hdr /\ f.tail THEN FALSE ELSE status[v]
    BY DEF OvcStatus
  <1>4. CASE f.hdr
    <2>1. ~status[v] /\ ~assigned[f.src] /\ sent[f.src] = 0
      BY <1>1, <1>4 DEF CanSend, OvcAvailable, IInv, AssignmentOK
    <2>2. f.tail <=> SingleFlitPck(f)
      BY <1>1, <1>4, <2>1, ConstAssumption DEF SingleFlitPck, CanSend
    <2>3. QED
      BY <1>1, <1>2, <1>3, <1>4, <2>1, <2>2
  <1>5. CASE ~f.hdr
    <2>1. assigned[f.src] /\ assignedOvc[f.src] = v
      BY <1>1, <1>5 DEF CanSend
    <2>2. status[v]
      BY <1>1, <2>1 DEF IInv, OvcExclusive
    <2>3. QED
      BY <1>1, <1>2, <1>3, <1>5, <2>1, <2>2
  <1>6. QED
    BY <1>2, <1>4, <1>5

\* Where OVCs are allocated atomically, a header finds the OVC empty.
LEMMA AtomicGrant ==
    ASSUME IInv, Atomic, NEW f \in SwitchGrants, NEW d \in ReadGrants, NEW v \in Vc,
           f.vc = v, (IF d = v THEN Tail(Stream(v)) ELSE Stream(v)) # <<>>
    PROVE  ~f.hdr
  <1> SUFFICES ASSUME f.hdr PROVE FALSE
    OBVIOUS
  <1>1. CanSend(f)
    BY GrantType, ConstAssumption DEF NoFlit
  <1>2. credit[v] = B
    BY <1>1 DEF CanSend, OvcAvailable, IInv, FlagsExact
  <1>3. Free(v) + Used(v) = B
    BY DEF IInv, CreditConservation
  <1>4. buffer[v] \in Seq(Flit) /\ Len(buffer[v]) \in Nat
    BY LenProperties DEF IInv, TypeOK
  <1>5. Len(buffer[v]) = 0 /\ crossbar.vc # v /\ link.vc # v
    <2> DEFINE n == Len(buffer[v])
    <2>1. B \in Nat /\ n \in Nat
      BY <1>4, ConstAssumption
    <2>2. B + One(creditWire, v) + (One(crossbar.vc, v) + One(link.vc, v) + n) = B
      BY <1>2, <1>3, Zenon DEF Free, Used
    <2> HIDE DEF n
    <2>3. n = 0 /\ One(crossbar.vc, v) = 0 /\ One(link.vc, v) = 0
      BY <2>1, <2>2 DEF One
    <2>4. QED
      BY <2>3 DEF One, n
  <1>6. buffer[v] = <<>>
    BY <1>4, <1>5, EmptySeq
  <1>7. Stream(v) = <<>>
    BY <1>5, <1>6 DEF Stream
  <1>8. d # v
    BY <1>6, ConstAssumption DEF ReadGrants
  <1>9. QED
    BY <1>7, <1>8

\* The invariant of one VC after a clock edge.
LEMMA OrderGrant ==
    ASSUME IInv, TypeOK', OrderInv,
           NEW f \in SwitchGrants, NEW d \in ReadGrants, Cycle(f, d), NEW v \in Vc
    PROVE  /\ InOrder(Stream(v)', dnAssigned'[v], status'[v])
           /\ \E p \in Nat : Sent(v, p)' /\ Routed(Stream(v)', Routes(v)', status'[v], p)
           /\ Atomic => \A k \in 2 .. Len(Stream(v)') : ~Stream(v)'[k].hdr
           /\ \A i \in Ivc : assigned'[i] /\ assignedOvc'[i] = v
                 => Routes(v)' # <<>> /\ Routes(v)'[Len(Routes(v)')] = i
  <1> DEFINE s    == IF d = v THEN Tail(Stream(v)) ELSE Stream(v)
             r    == IF TailRead(v, d) THEN Tail(Routes(v)) ELSE Routes(v)
             s1   == Stream(v)'
             r1   == Routes(v)'
             goes == dnAssigned'[v]
             open == status[v]
             then == status'[v]
  <1>1. /\ s \in Seq(Flit) /\ r \in Seq(Ivc)
        /\ InOrder(s, goes, open)
    BY OrderRead, Zenon
  <1>11. PICK p \in Nat : Sent(v, p) /\ Routed(s, r, open, p)
    BY OrderRead
  <1>12. Atomic => \A k \in 2 .. Len(s) : ~s[k].hdr
    BY OrderRead
  <1>2. \A i \in Ivc : assigned[i] /\ assignedOvc[i] = v => r # <<>> /\ r[Len(r)] = i
    BY OrderRead
  <1>3. s1 = With(s, f.vc = v, f)
    <2>1. ~PipeReg => crossbar = NoFlit
      BY DEF OrderInv
    <2>2. QED
      BY <2>1, StreamStep
  <1>4. r1 = With(r, f.vc = v /\ f.hdr, f.src)
    BY RoutesStep
  <1>5. goes \in BOOLEAN /\ open \in BOOLEAN
    BY DEF IInv, TypeOK
  <1>6. \A i \in Ivc :
          /\ assigned'[i] = IF f.src = i THEN ~f.tail ELSE assigned[i]
          /\ assignedOvc'[i] = IF f.src = i /\ f.hdr THEN f.vc ELSE assignedOvc[i]
          /\ sent'[i] = IF f.src # i THEN sent[i] ELSE IF f.tail THEN 0 ELSE sent[i] + 1
    BY DEF Cycle, OutputPort, OvcAssignment
  <1>7. then = IF f.vc = v /\ f.hdr /\ ~SingleFlitPck(f) THEN TRUE
               ELSE IF f.vc = v /\ ~f.hdr /\ f.tail THEN FALSE ELSE open
    BY DEF Cycle, OutputPort, OvcStatus
  <1>8. CASE f.vc # v
    <2>1. then = open
      BY <1>7, <1>8
    <2>2. s1 = s /\ r1 = r
      <3> HIDE DEF s, r, s1, r1
      <3> QED
        BY <1>3, <1>4, <1>8 DEF With
    <2>3. ASSUME NEW i \in Ivc, assigned'[i], assignedOvc'[i] = v
          PROVE  assigned[i] /\ assignedOvc[i] = v /\ sent'[i] = sent[i]
      <3>1. CASE f.src = i
        <4>1. ~f.hdr /\ assignedOvc[i] = v
          BY <1>6, <1>8, <2>3, <3>1
        <4>2. CanSend(f)
          BY <3>1, GrantType, ConstAssumption
        <4>3. f.vc = v
          BY <3>1, <4>1, <4>2 DEF CanSend
        <4>4. QED
          BY <1>8, <4>3
      <3>2. CASE f.src # i
        BY <1>6, <2>3, <3>2
      <3>3. QED
        BY <3>1, <3>2
    <2> HIDE DEF s, r, s1, r1, goes, open, then
    <2>4. InOrder(s1, goes, then) /\ Routed(s1, r1, then, p)
      BY <1>1, <1>11, <2>1, <2>2, Zenon
    <2>7. Sent(v, p)'
      <3> USE DEF then, open
      <3>1. ~status'[v] => p >= MinPck
        BY <1>11, <2>1 DEF Sent
      <3>2. QED
        BY <1>11, <2>3, <3>1 DEF Sent
    <2>8. Atomic => \A k \in 2 .. Len(s1) : ~s1[k].hdr
      BY <1>12, <2>2, Zenon
    <2>5. \A i \in Ivc : assigned'[i] /\ assignedOvc'[i] = v
                            => r1 # <<>> /\ r1[Len(r1)] = i
      BY <1>2, <2>2, <2>3, Zenon
    <2>6. QED
      BY <2>4, <2>5, <2>7, <2>8, Zenon DEF s1, r1, goes, then
  <1>9. CASE f.vc = v
    <2>1. /\ f \in Flit /\ (f.hdr <=> ~open) /\ (then <=> ~f.tail)
          /\ ~f.hdr => assigned[f.src] /\ assignedOvc[f.src] = v
      BY <1>9, GrantFits DEF Cycle, OutputPort
    <2>2. f.src \in Ivc
      BY <2>1 DEF Flit
    <2>3. then = ~f.tail
      <3>1. then \in BOOLEAN /\ f.tail \in BOOLEAN
        BY <2>1 DEF TypeOK, Flit
      <3>2. QED
        BY <2>1, <3>1
    <2>4. ASSUME NEW i \in Ivc, assigned'[i], assignedOvc'[i] = v
          PROVE  i = f.src
      <3>1. CASE f.src # i
        <4>1. assigned[i] /\ assignedOvc[i] = f.vc
          BY <1>6, <1>9, <2>4, <3>1
        <4>2. QED
          BY <1>9, <3>1, <4>1, GrantHolder, ConstAssumption DEF NoFlit
      <3>2. QED
        BY <3>1
    <2> HIDE DEF s, r, s1, r1, goes, open, then
    <2>5. s1 = Append(s, f) /\ r1 = With(r, f.hdr, f.src)
      BY <1>3, <1>4, <1>9, Zenon DEF With
    <2>6. InOrder(Append(s, f), goes, ~f.tail)
      BY <1>1, <1>5, <2>1, SendInOrder
    <2>7. ~f.hdr => r # <<>> /\ r[Len(r)] = f.src
      BY <1>2, <2>1, <2>2
    <2> DEFINE q == IF f.hdr THEN 1 ELSE p + 1
    <2>12. f.hdr => p >= MinPck
      BY <1>11, <2>1 DEF Sent, open
    <2>8. /\ Routed(Append(s, f), With(r, f.hdr, f.src), ~f.tail, q)
          /\ With(r, f.hdr, f.src) # <<>>
          /\ With(r, f.hdr, f.src)[Len(With(r, f.hdr, f.src))] = f.src
      BY <1>1, <1>5, <1>11, <2>1, <2>7, <2>12, SendRouted
    <2>9. InOrder(s1, goes, then)
      BY <2>3, <2>5, <2>6, Zenon
    <2>10. Routed(s1, r1, then, q) /\ r1 # <<>> /\ r1[Len(r1)] = f.src
      BY <2>3, <2>5, <2>8, Zenon
    <2>13. q \in Nat /\ Sent(v, q)'
      <3>1. CanSend(f) /\ sent[f.src] \in Nat
        BY <2>1, <2>2, GrantType, ConstAssumption DEF NoFlit, IInv, TypeOK
      <3>2. q >= sent[f.src] + 1 /\ q \in Nat
        <4>1. CASE f.hdr
          <5>1. ~assigned[f.src]
            BY <3>1, <4>1 DEF CanSend
          <5>2. sent[f.src] = 0
            BY <2>2, <5>1 DEF IInv, AssignmentOK
          <5>3. QED
            BY <4>1, <5>2
        <4>2. CASE ~f.hdr
          BY <1>11, <2>1, <2>2, <3>1, <4>2 DEF Sent
        <4>3. QED
          BY <4>1, <4>2
      <3>3. ~then => q >= MinPck
        BY <2>1, <3>1, <3>2, ConstAssumption DEF CanSend
      <3>4. ASSUME NEW i \in Ivc, assigned'[i], assignedOvc'[i] = v
            PROVE  q >= sent'[i]
        <4>1. i = f.src /\ sent'[i] = IF f.tail THEN 0 ELSE sent[f.src] + 1
          BY <1>6, <2>4, <3>4
        <4>2. QED
          BY <3>1, <3>2, <4>1
      <3> HIDE DEF q
      <3>5. QED
        BY <3>2, <3>3, <3>4 DEF Sent, then
    <2>14. ASSUME Atomic, NEW k \in 2 .. Len(s1)
           PROVE  ~s1[k].hdr
      <3>1. Len(s1) = Len(s) + 1 /\ Len(s) \in Nat /\ s1[Len(s) + 1] = f
            /\ \A j \in 1 .. Len(s) : s1[j] = s[j]
        BY <1>1, <2>1, <2>5, AppendProperties, LenProperties
      <3>2. CASE k <= Len(s)
        BY <1>12, <2>14, <3>1, <3>2
      <3>3. CASE k = Len(s) + 1
        <4>1. s # <<>>
          BY <3>1, <3>3
        <4>2. ~f.hdr
          BY <1>9, <2>14, <4>1, AtomicGrant DEF s
        <4>3. QED
          BY <3>1, <3>3, <4>2
      <3>4. QED
        BY <3>1, <3>2, <3>3
    <2>11. QED
      BY <2>4, <2>9, <2>10, <2>13, <2>14, Zenon DEF s1, r1, goes, then
  <1>10. QED
    BY <1>8, <1>9

-----------------------------------------------------------------------------

\* After reset no flit is on its way and no packet is begun.
LEMMA InitOrderInv == Init => OrderInv
  <1> SUFFICES ASSUME Init PROVE OrderInv
    OBVIOUS
  <1>1. crossbar = NoFlit
    BY DEF Init
  <1>2. ASSUME NEW v \in Vc
        PROVE  /\ InOrder(Stream(v), dnAssigned[v], status[v])
               /\ \E p \in Nat : Sent(v, p) /\ Routed(Stream(v), Routes(v), status[v], p)
               /\ Atomic => \A k \in 2 .. Len(Stream(v)) : ~Stream(v)[k].hdr
               /\ \A i \in Ivc : assigned[i] /\ assignedOvc[i] = v
                     => Routes(v) # <<>> /\ Routes(v)[Len(Routes(v))] = i
    <2>1. NoFlit.vc # v
      BY ConstAssumption DEF NoFlit
    <2>2. Stream(v) = <<>> /\ Routes(v) = <<>>
      BY <2>1, ConstAssumption DEF Init, Stream, Routes, With
    <2>3. dnAssigned[v] = FALSE /\ status[v] = FALSE /\ \A i \in Ivc : ~assigned[i]
      BY DEF Init
    <2>4. \E m : Numbers(m, Stream(v), Routes(v)) /\ Progress(m, Stream(v), Routes(v), MinPck)
      BY <2>2, NothingNumbered
    <2>5. Routed(Stream(v), Routes(v), status[v], MinPck)
      BY <2>2, <2>3, <2>4 DEF Routed
    <2>6. MinPck \in Nat /\ Sent(v, MinPck)
      BY <2>3, ConstAssumption DEF Sent
    <2>7. QED
      BY <2>2, <2>3, <2>5, <2>6 DEF InOrder
  <1>3. QED
    BY <1>1, <1>2, Zenon DEF OrderInv

\* Every clock edge keeps the order on every VC.
LEMMA NextOrderInv == IInv /\ OrderInv /\ [Next]_vars => OrderInv'
  <1> SUFFICES ASSUME IInv, OrderInv, [Next]_vars PROVE OrderInv'
    OBVIOUS
  <1>1. CASE Next
    <2>1. PICK f \in SwitchGrants, d \in ReadGrants : Cycle(f, d)
      BY <1>1 DEF Next
    <2>2. TypeOK'
      BY <1>1, NextIInv DEF IInv
    <2>3. ~PipeReg => crossbar' = NoFlit
      BY <2>1 DEF Cycle, OutputPort, FlitPipeline, OrderInv
    <2>4. QED
      BY <2>1, <2>2, <2>3, OrderGrant, Zenon DEF OrderInv
  <1>2. CASE UNCHANGED vars
    <2>1. /\ crossbar' = crossbar /\ dnAssigned' = dnAssigned /\ status' = status
          /\ assigned' = assigned /\ assignedOvc' = assignedOvc /\ sent' = sent
          /\ link' = link /\ buffer' = buffer /\ headers' = headers
      BY <1>2 DEF vars, ovcVars, ivcVars, wireVars, portVars
    <2>2. \A v \in Vc : Stream(v)' = Stream(v) /\ Routes(v)' = Routes(v)
      BY <2>1, Zenon DEF Stream, Routes
    <2>4. \A v, p : Sent(v, p)' <=> Sent(v, p)
      BY <2>1, Zenon DEF Sent
    <2>3. QED
      BY <2>1, <2>2, <2>4, Zenon DEF OrderInv
  <1>3. QED
    BY <1>1, <1>2

\* The order and the routes of the packets on every VC are kept for ever.
THEOREM SpecOrderInv == Spec => [](IInv /\ OrderInv)
  BY InitIInv, NextIInv, InitOrderInv, NextOrderInv, PTL DEF Spec

\* Packets travel on a VC whole and one after another.
THEOREM PacketsStayWhole == Spec => []Wormhole
  <1>1. IInv /\ OrderInv => Wormhole
    <2> SUFFICES ASSUME IInv, OrderInv, NEW v \in Vc, Stream(v) # <<>>
                 PROVE  /\ Stream(v)[1].hdr = ~dnAssigned[v]
                        /\ \A k \in 2 .. Len(Stream(v)) :
                              /\ Stream(v)[k].hdr = Stream(v)[k-1].tail
                              /\ ~Stream(v)[k].hdr
                                   => Stream(v)[k].src = Stream(v)[k-1].src
                        /\ Stream(v)[Len(Stream(v))].tail = ~status[v]
      BY Zenon DEF Wormhole
    <2> DEFINE s == Stream(v)
               r == Routes(v)
               goes == dnAssigned[v]
               open == status[v]
    <2>1. s \in Seq(Flit) /\ InOrder(s, goes, open) /\ \E p \in Nat : Routed(s, r, open, p)
      BY StreamNow, Zenon DEF IInv, OrderInv
    <2>2. goes \in BOOLEAN /\ open \in BOOLEAN
      BY DEF IInv, TypeOK
    <2> HIDE DEF s, r, goes, open
    <2>3. s # <<>>
      BY DEF s
    <2>4. Len(s) \in Nat /\ Len(s) >= 1
      BY <2>1, <2>3, LenProperties, EmptySeq
    <2>5. \A k \in 1 .. Len(s) : s[k].hdr \in BOOLEAN /\ s[k].tail \in BOOLEAN
      BY <2>1, FlagsOfFlits
    <2>6. s[1].hdr = ~goes
      BY <2>1, <2>2, <2>3, <2>4, <2>5 DEF InOrder
    <2>7. s[Len(s)].tail = ~open
      BY <2>1, <2>2, <2>3, <2>4, <2>5 DEF InOrder
    <2>8. ASSUME NEW k \in 2 .. Len(s)
          PROVE  s[k].hdr = s[k-1].tail /\ (~s[k].hdr => s[k].src = s[k-1].src)
      <3>1. k \in 1 .. Len(s) /\ k-1 \in 1 .. Len(s)
        BY <2>4
      <3>2. s[k].hdr <=> s[k-1].tail
        BY <2>1, <2>3 DEF InOrder
      <3>3. PICK m : Numbers(m, s, r)
        BY <2>1 DEF Routed
      <3>4. ~s[k].hdr => m[k] = m[k-1]
        BY <3>3 DEF Numbers
      <3>5. r[m[k]] = s[k].src /\ r[m[k-1]] = s[k-1].src
        BY <3>1, <3>3 DEF Numbers
      <3>6. QED
        BY <2>5, <3>1, <3>2, <3>4, <3>5
    <2>9. QED
      BY <2>6, <2>7, <2>8, Zenon DEF s, goes, open
  <1>2. QED
    BY <1>1, SpecOrderInv, PTL

\* The header FIFO's head is always the route of the packet that is read.
THEOREM HeadersMatchFlits == Spec => []RouteOfHeadFlit
  <1>1. IInv /\ OrderInv => RouteOfHeadFlit
    BY HeadersCover DEF RouteOfHeadFlit, IInv
  <1>2. QED
    BY <1>1, SpecOrderInv, PTL

-----------------------------------------------------------------------------
(* The size of the header FIFOs.                                           *)

\* A nonempty set of numbers has a smallest one.
LEMMA LeastOf ==
    ASSUME NEW S \in SUBSET Nat, S # {}
    PROVE  \E n \in S : \A m \in S : n <= m
  <1> DEFINE R == {ss \in Nat \X Nat : ss[1] < ss[2]}
  <1>1. IsWellFoundedOn(R, Nat)
    BY NatLessThanWellFounded, Zenon DEF OpToRel
  <1>2. PICK n \in S : \A m \in S : <<m, n>> \notin R
    <2> HIDE DEF R
    <2> QED
      BY <1>1, WFMin, Zenon
  <1>3. ASSUME NEW m \in S PROVE n <= m
    <2>1. <<m, n>> \in Nat \X Nat /\ <<m, n>> \notin R
      BY <1>2
    <2>2. ~(m < n)
      BY <2>1
    <2>3. n \in Nat /\ m \in Nat
      OBVIOUS
    <2> HIDE DEF R
    <2>4. QED
      BY <2>2, <2>3
  <1>4. QED
    BY <1>3

\* When a header arrives, the packets whose routes wait before it have their
\* flits in the buffer: the oldest one at least its tail, the others at least
\* MinPck flits; and there is a place for the header itself.
LEMMA RoutesFit ==
    ASSUME IInv, OrderInv, NEW v \in Vc, link.vc = v, link.hdr
    PROVE  LET n == Len(buffer[v])  h == Len(headers[v])
           IN  /\ n \in Nat /\ h \in Nat /\ n + 1 <= B
               /\ h >= 1 => n + 1 >= 2 + (h - 1) * MinPck
               /\ Atomic => h = 0
  <1> DEFINE now  == buffer[v]
             hold == headers[v]
             s    == Append(now, link)
             r    == Append(hold, link.src)
             n    == Len(now)
             h    == Len(hold)
  <1>1. now \in Seq(Flit) /\ hold \in Seq(Ivc) /\ link \in Flit /\ link.src \in Ivc
    <2>1. now \in Seq(Flit) /\ hold \in Seq(Ivc) /\ link \in Flit \cup {NoFlit}
      BY DEF IInv, TypeOK
    <2>2. link \in Flit
      BY <2>1, ConstAssumption DEF NoFlit
    <2>3. link.src \in Ivc
      BY <2>2 DEF Flit
    <2>4. QED
      BY <2>1, <2>2, <2>3
  <1>2. n \in Nat /\ h \in Nat
    BY <1>1, LenProperties
  <1>3. n + 1 <= B
    <2>1. Free(v) + Used(v) = B /\ credit[v] \in Nat
      BY ConstAssumption DEF IInv, CreditConservation, TypeOK
    <2>2. credit[v] + One(creditWire, v) + (One(crossbar.vc, v) + One(link.vc, v) + n) = B
      BY <2>1, Zenon DEF Free, Used
    <2>3. One(link.vc, v) = 1
      BY DEF One
    <2> HIDE DEF n
    <2>4. QED
      BY <1>2, <2>1, <2>2, <2>3, ConstAssumption DEF One
  <1>4. PICK m : Numbers(m, s, r)
    <2>1. \E m : Numbers(m, With(now, link.vc = v, link),
                          With(hold, link.vc = v /\ link.hdr, link.src))
      BY RoutesUpToLink, Zenon DEF IInv
    <2>2. QED
      BY <2>1, Zenon DEF With
  <1>5. /\ Len(s) = n + 1 /\ s[n+1] = link /\ Len(r) = h + 1 /\ s # <<>>
        /\ \A k \in 1 .. n : s[k] = now[k]
    BY <1>1, AppendProperties, LenProperties
  <1> HIDE DEF now, hold, n, h, s, r
  <1>6. /\ m \in [1 .. n + 1 -> 1 .. h + 1]
        /\ m[1] = 1 /\ m[n+1] = h + 1
        /\ \A k \in 2 .. n + 1 : m[k] = IF s[k].hdr THEN m[k-1] + 1 ELSE m[k-1]
    BY <1>4, <1>5 DEF Numbers
  <1>7. \A j \in 1 .. n + 1 :
          j <= n + 1 /\ s[j].hdr => (n + 1) - j >= (m[n+1] - m[j]) * MinPck
    <2>1. \A j, k \in 1 .. n + 1 :
            j <= k /\ s[j].hdr /\ s[k].hdr => k - j >= (m[k] - m[j]) * MinPck
      BY <1>4, <1>5, Zenon DEF Numbers
    <2>2. n + 1 \in 1 .. n + 1 /\ s[n+1].hdr
      BY <1>2, <1>5
    <2>3. QED
      BY <2>1, <2>2, Zenon
  <1>8. ASSUME h >= 1
        PROVE  n + 1 >= 2 + (h - 1) * MinPck
    <2> DEFINE later == {k \in 1 .. n + 1 : m[k] >= 2}
    <2>1. later \in SUBSET Nat /\ n + 1 \in later
      BY <1>2, <1>6, <1>8
    <2>2. PICK j \in later : \A k \in later : j <= k
      <3> HIDE DEF later
      <3> QED
        BY <2>1, LeastOf
    <2>3. j \in 2 .. n + 1 /\ m[j] >= 2
      BY <1>2, <1>6, <2>2
    <2>4. m[j-1] = 1
      <3>1. j - 1 \in 1 .. n + 1 /\ j - 1 \notin later
        BY <1>2, <2>2, <2>3
      <3>2. m[j-1] \in 1 .. h + 1 /\ ~(m[j-1] >= 2)
        BY <1>6, <3>1
      <3>3. QED
        BY <3>2
    <2>5. s[j].hdr /\ m[j] = 2
      BY <1>6, <2>3, <2>4
    <2>6. (n + 1) - j >= (h - 1) * MinPck
      <3>1. j \in 1 .. n + 1 /\ j <= n + 1
        BY <1>2, <2>3
      <3>2. (n + 1) - j >= (m[n+1] - m[j]) * MinPck
        BY <1>7, <2>5, <3>1, Zenon
      <3>3. m[n+1] - m[j] = h - 1
        BY <1>2, <1>6, <2>5
      <3>4. QED
        BY <3>2, <3>3, Zenon
    <2> DEFINE x == (h - 1) * MinPck
    <2>7. x \in Int
      BY <1>2, ConstAssumption
    <2>8. (n + 1) - j >= x
      BY <2>6
    <2> HIDE DEF x
    <2>9. n + 1 >= 2 + x
      BY <1>2, <2>3, <2>7, <2>8
    <2>10. QED
      BY <2>9 DEF x
  <1>9. ASSUME Atomic
        PROVE  h = 0
    <2>1. /\ Stream(v) = With(With(now, link.vc = v, link), crossbar.vc = v, crossbar)
          /\ \A k \in 2 .. Len(Stream(v)) : ~Stream(v)[k].hdr
      BY <1>9, StreamNow DEF IInv, OrderInv, now
    <2>2. Stream(v) = With(s, crossbar.vc = v, crossbar) /\ s \in Seq(Flit)
      BY <1>1, <2>1 DEF With, s
    <2>3. Len(Stream(v)) \in Int /\ Len(Stream(v)) >= n + 1 /\ Stream(v)[n+1] = link
      <3>1. CASE crossbar.vc = v
        <4>1. crossbar \in Flit
          BY <3>1, ConstAssumption DEF IInv, TypeOK, NoFlit
        <4>2. Stream(v) = Append(s, crossbar)
          BY <2>2, <3>1 DEF With
        <4>3. QED
          BY <1>2, <1>5, <2>2, <4>1, <4>2, AppendProperties
      <3>2. CASE crossbar.vc # v
        BY <1>2, <1>5, <2>2, <3>2 DEF With
      <3>3. QED
        BY <3>1, <3>2
    <2>4. n + 1 < 2
      BY <1>2, <2>1, <2>3
    <2>5. QED
      BY <1>2, <1>6, <2>4
  <1>10. QED
    BY <1>2, <1>3, <1>8, <1>9 DEF n, h, now, hold

\* h packets of at least M flits, of which the oldest may have but its tail
\* left and one more is to come, in b places: no more than the source reserves.
LEMMA HeadersFitPlaces ==
    ASSUME NEW b \in Nat, b >= 2, NEW M \in Nat \ {0}, NEW h \in Nat, h >= 1,
           b >= 2 + (h - 1) * M
    PROVE  /\ b <= M => h = 1
           /\ b > M => h <= (b - 1) \div M + (IF (b - 1) % M > 0 THEN 1 ELSE 0)
  <1> DEFINE c == (b - 1) \div M
             e == (b - 1) % M
  <1>1. c \in Nat /\ e \in 0 .. M - 1 /\ b - 1 = M * c + e
    OBVIOUS
  <1>2. ASSUME b <= M PROVE h = 1
    <2>1. CASE h >= 2
      <3>1. (h - 1) * M >= M
        BY <2>1
      <3>2. QED
        BY <1>2, <3>1
    <2>2. QED
      BY <2>1
  <1>3. h <= c + (IF e > 0 THEN 1 ELSE 0)
    <2>1. (h - 1) * M + 1 <= M * c + e
      BY <1>1
    <2> HIDE DEF c, e
    <2>2. CASE e = 0
      <3>1. ~(h - 1 >= c)
        <4>1. SUFFICES ASSUME h - 1 >= c PROVE FALSE
          OBVIOUS
        <4>2. (h - 1) * M >= c * M
          BY <1>1, <4>1
        <4>3. QED
          BY <1>1, <2>1, <2>2, <4>2
      <3>2. QED
        BY <1>1, <2>2, <3>1
    <2>3. CASE e > 0
      <3>1. ~(h - 1 >= c + 1)
        <4>1. SUFFICES ASSUME h - 1 >= c + 1 PROVE FALSE
          OBVIOUS
        <4>2. (h - 1) * M >= (c + 1) * M
          BY <1>1, <4>1
        <4>3. (c + 1) * M = M * c + M
          BY <1>1
        <4>4. QED
          BY <1>1, <2>1, <4>2, <4>3
      <3>2. QED
        BY <1>1, <2>3, <3>1
    <2>4. QED
      BY <1>1, <2>2, <2>3
  <1>4. QED
    BY <1>2, <1>3

\* A header FIFO is never written when full, the assertion of fwft_fifo: for
\* every buffer depth when an OVC carries one packet at a time or
\* OVC_ALLOC_MODE adds a place, and otherwise when the buffer is longer than
\* the shortest packet.  (When it is not, MAX_PCK is one place short and run
\* vclink_header_fifo shows the FIFO overflow.)
THEOREM HeaderFifosSuffice ==
    ASSUME Atomic \/ OvcAllocMode \/ MinPck < B
    PROVE  Spec => []HeaderFifoNeverFull
  <1>1. IInv /\ OrderInv => HeaderFifoNeverFull
    <2> SUFFICES ASSUME IInv, OrderInv, link.hdr
                 PROVE  Len(headers[link.vc]) < MaxPck
      BY DEF HeaderFifoNeverFull
    <2>1. link \in Flit /\ link.vc \in Vc
      BY DEF IInv, TypeOK, NoFlit, Flit
    <2> DEFINE v == link.vc
               n == Len(buffer[v])
               h == Len(headers[v])
    <2>2. /\ n \in Nat /\ h \in Nat /\ n + 1 <= B
          /\ h >= 1 => n + 1 >= 2 + (h - 1) * MinPck
          /\ Atomic => h = 0
      BY <2>1, RoutesFit
    <2> HIDE DEF v, n, h
    <2>3. h < MaxPck
      <3>1. CASE Atomic
        BY <2>2, <3>1 DEF MaxPck
      <3>2. CASE ~Atomic
        <4>1. NonAtomPcks \in Nat \ {0} /\ MaxPck \in Nat /\ MaxPck >= NonAtomPcks
          <5>1. (B - 1) \div MinPck \in Nat
            BY ConstAssumption
          <5>2. QED
            BY <5>1, <3>2 DEF NonAtomPcks, MaxPck
        <4>2. CASE h = 0
          BY <4>1, <4>2
        <4>3. CASE h >= 1
          <5>1. B >= 2 + (h - 1) * MinPck
            <6> DEFINE x == (h - 1) * MinPck
            <6>1. x \in Int /\ n + 1 >= 2 + x
              BY <2>2, <4>3, ConstAssumption
            <6> HIDE DEF x
            <6>2. B >= 2 + x
              BY <2>2, <6>1, ConstAssumption
            <6>3. QED
              BY <6>2 DEF x
          <5>2. /\ B <= MinPck => h = 1
                /\ B > MinPck => h <= (B - 1) \div MinPck
                                      + (IF (B - 1) % MinPck > 0 THEN 1 ELSE 0)
            BY <2>2, <4>3, <5>1, HeadersFitPlaces, ConstAssumption
          <5>3. (B - 1) \div MinPck \in Nat
            BY ConstAssumption
          <5>4. CASE B <= MinPck
            BY <3>2, <5>2, <5>4, ConstAssumption DEF NonAtomPcks, MaxPck
          <5>5. CASE B > MinPck
            BY <3>2, <5>2, <5>3, <5>5, <2>2, ConstAssumption DEF NonAtomPcks, MaxPck
          <5>6. QED
            BY <5>4, <5>5, ConstAssumption
        <4>4. QED
          BY <2>2, <4>2, <4>3
      <3>3. QED
        BY <3>1, <3>2
    <2>4. QED
      BY <2>3 DEF h, v
  <1>2. QED
    BY <1>1, SpecOrderInv, PTL
=============================================================================
