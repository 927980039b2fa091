----------------------------- MODULE MCChannels ------------------------------
(***************************************************************************)
(* What must make progress between two routers, for TLC: the link with      *)
(* non-atomic and with atomic allocation (parts "nonatomic", "atomic"), two *)
(* packet injectors (part "injector", and part "inject1" with single-flit   *)
(* buffers) and an arbiter of each kind, a wide one whose every grant is a  *)
(* service (part "wide") and a narrow one with an enabled priority register *)
(* (part "narrow").  Liveness is asked of the parts in Live.                *)
(***************************************************************************)
EXTENDS VcLink

CONSTANTS LB, Remain, ChunkSpan, SizeSpan, MaxSize, Id,
          WideWidth, NarrowWidth,  \* the widths of the two arbiters
          WidePriorityEn, NarrowPriorityEn

VARIABLES part,
          flitType, counter, counter2, niCredit, pck, buf, creditIn, outCredit, eject,
          rsvCounter, data, creditO, vcReg, tailReg, pending,
          pr, wideRequest, lowPr, request, priorityEn

injectorVars == <<flitType, counter, counter2, niCredit, pck, buf, creditIn, outCredit, eject,
                  rsvCounter, data, creditO, vcReg, tailReg, pending>>
arbiterVars == <<pr, wideRequest, lowPr, request, priorityEn>>
allVars == <<part, vars, injectorVars, arbiterVars>>

AtomicLink == INSTANCE VcLink WITH Atomic <- TRUE, MinPck <- 1
Injector   == INSTANCE PacketInjector WITH credit <- niCredit
Inject1    == INSTANCE PacketInjector WITH credit <- niCredit, LB <- 1, Remain <- 0
Wide       == INSTANCE ThermoArbiter WITH
                N <- WideWidth, PriorityEn <- WidePriorityEn, request <- wideRequest
Narrow     == INSTANCE OneHotArbiter WITH
                N <- NarrowWidth, PriorityEn <- NarrowPriorityEn

ASSUME PartsAssumption ==
  /\ Wide!ThermoAssumption /\ ~WidePriorityEn
  /\ NarrowWidth \in 2 .. 4 /\ NarrowPriorityEn \in BOOLEAN
  /\ Injector!InjectorAssumption /\ Inject1!InjectorAssumption

\* Parts that do not run start in one state.
MCInit ==
  /\ part \in {"nonatomic", "atomic", "injector", "inject1", "wide", "narrow"}
  /\ Init
  /\ IF part = "inject1" THEN Inject1!Init ELSE Injector!Init
  /\ Wide!Init /\ (part # "wide" => wideRequest = {})
  /\ Narrow!Init /\ (part # "narrow" => request = {} /\ ~priorityEn)

LinkPart ==
  /\ \/ part = "nonatomic" /\ Next
     \/ part = "atomic" /\ AtomicLink!Next
  /\ UNCHANGED <<part, injectorVars, arbiterVars>>

InjectorPart ==
  /\ \/ part = "injector" /\ Injector!Next
     \/ part = "inject1" /\ Inject1!Next
  /\ UNCHANGED <<part, vars, arbiterVars>>

ArbiterPart ==
  /\ \/ part = "wide" /\ Wide!Clock /\ ~priorityEn' /\ UNCHANGED <<lowPr, request>>
     \/ part = "narrow" /\ Narrow!Clock /\ UNCHANGED <<pr, wideRequest>>
  /\ UNCHANGED <<part, vars, injectorVars>>

Live == {"nonatomic", "inject1", "wide"}

MCNext == LinkPart \/ InjectorPart \/ ArbiterPart

\* The fairness of VcLink and of PacketInjector.
Continue(i) ==
  /\ part = "nonatomic" /\ ContinuePacket(i)
  /\ UNCHANGED <<part, injectorVars, arbiterVars>>
Drain(v) ==
  /\ part = "nonatomic" /\ DrainVc(v)
  /\ UNCHANGED <<part, injectorVars, arbiterVars>>
Read(v) ==
  /\ part = "inject1" /\ Inject1!ReadVc(v)
  /\ UNCHANGED <<part, vars, arbiterVars>>

MCSpec ==
  /\ MCInit /\ [][MCNext]_allVars
  /\ WF_allVars(part \in Live /\ MCNext)
  /\ \A i \in Ivc : WF_allVars(Continue(i))
  /\ \A v \in Vc : WF_allVars(Drain(v)) /\ WF_allVars(Read(v))
-----------------------------------------------------------------------------
\* The header FIFOs, MAX_PCK places deep, are never written when full, with
\* either way of allocating an OVC.
HeaderFifosNeverFull ==
  IF part = "atomic" THEN AtomicLink!HeaderFifoNeverFull ELSE HeaderFifoNeverFull

\* A packet that got an OVC is sent to its tail, an injected packet too, and
\* it is reported at its destination.
PacketsComplete ==
  /\ part = "nonatomic" => PacketCompletes
  /\ part = "inject1" => Inject1!PacketSent /\ Inject1!PacketReported

\* What an injector reports is the packet that was sent, and neither counters
\* nor the credits of its local port are ever off.
InjectorSound ==
  IF part = "inject1"
  THEN Inject1!TypeOK /\ Inject1!DeliveredAsSent /\ Inject1!BuffersAccounted
  ELSE Injector!TypeOK /\ Injector!DeliveredAsSent /\ Injector!BuffersAccounted

\* Both kinds of arbiters are round-robin arbiters; the thermometer code never
\* grants two requests.
ArbitersAreRoundRobin ==
  Wide!ImplementsRoundRobin /\ Narrow!ImplementsRoundRobin /\ []Wide!GrantOneHot

\* Nobody who keeps asking an arbiter whose grants are services waits for ever.
NoStarvation == part = "wide" => Wide!NoStarvation
=============================================================================
