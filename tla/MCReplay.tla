------------------------------ MODULE MCReplay -------------------------------
(***************************************************************************)
(* The sources of traffic that wait for what they sent, for TLC: the        *)
(* netrace player (part "netrace"), the SynFull model inside the simulator   *)
(* with two caches and a directory (part "library"), and the SynFull         *)
(* generator with its server, one cache and one directory (part "socket").  *)
(***************************************************************************)
EXTENDS Integers, Sequences, SequencesExt

CONSTANTS HierClasses, Classes, NumInvs, TimeSpan, Resolution, MemDelay,
          MaxClk, MaxPck, Horizon, NumCycles, NumPackets, MaxId,
          LibNodes, LibVolumes, Endpoints, PronocMapping,  \* of the part "library"
          SocNodes, SocVolumes                             \* of the part "socket"

VARIABLES part,
          trace, mode, reader, queues, ntCycle, total, readDone, packetsRemain, evalNum, ntWr,
          ejected, ntDone,
          cycle, nextInterval, nextHinterval, hierClass, state, steadyExit,
          injectionDone, totalQueued, messageId, inTransit, transactions, queue,
          pc, at, inject, wr, traverse, packetsLeft, simulationDone, sentPackets,
          client, toSend, cntPackets, allPacketsEjected, server, buffer, content, req,
          offered, refused, ready, network, returned, ejectBuffer

ntVars == <<trace, mode, reader, queues, ntCycle, total, readDone, packetsRemain, evalNum, ntWr,
            ejected, ntDone>>
genVars == <<cycle, nextInterval, nextHinterval, hierClass, state, steadyExit,
               injectionDone, totalQueued, messageId, inTransit, transactions, queue>>
simVars == <<pc, at, inject, wr, traverse, packetsLeft, simulationDone, sentPackets>>
sockVars == <<client, toSend, cntPackets, allPacketsEjected, server, buffer, content, req,
                offered, refused, ready, network, returned, ejectBuffer>>
allVars == <<part, ntVars, genVars, simVars, sockVars>>
-----------------------------------------------------------------------------
\* Four packets of three nodes: every choice of dependencies between them.
Later(p) == {SetToSortSeq(S, LAMBDA x, y : x > y) : S \in SUBSET (p + 1 .. 4)}

Packet(c, s, d, deps) == [cycle |-> c, src |-> s, dst |-> d, deps |-> deps]

FourPackets(d1, d2, d3) ==
  <<Packet(0, 0, 1, d1), Packet(0, 1, 2, d2), Packet(2, 2, 0, d3), Packet(4, 0, 2, <<>>)>>

AllTraces == {FourPackets(d[1], d[2], d[3]) : d \in Later(1) \X Later(2) \X Later(3)}

Mode(alone, ignore, throttling, endPck, speedUp) ==
  [standalone |-> alone, ignore |-> ignore, throttling |-> throttling,
   endPck |-> endPck, speedUp |-> speedUp]

AllModes ==
  {Mode(a, FALSE, t, 0, 1) : a \in BOOLEAN, t \in BOOLEAN} \cup
  {Mode(TRUE, FALSE, t, 2, 1) : t \in BOOLEAN} \cup
  {Mode(a, TRUE, FALSE, 0, 1) : a \in BOOLEAN} \cup
  {Mode(FALSE, FALSE, t, 0, 2) : t \in BOOLEAN}

Nt == INSTANCE Netrace WITH
        Traces <- AllTraces, Modes <- AllModes, NE <- 2, Nodes <- 3, XNodes <- 2, NumCycles <- 4,
        ReadAhead <- 1, L2Latency <- 1, PipeLatency <- 1,
        cycle <- ntCycle, left <- packetsRemain, wr <- ntWr, done <- ntDone
NtRest == INSTANCE Netrace WITH
        Traces <- {<<>>}, Modes <- {Mode(FALSE, FALSE, TRUE, 0, 1)}, NE <- 2, Nodes <- 3, XNodes <- 2,
        NumCycles <- 4, ReadAhead <- 1, L2Latency <- 1, PipeLatency <- 1,
        cycle <- ntCycle, left <- packetsRemain, wr <- ntWr, done <- ntDone
-----------------------------------------------------------------------------
\* The library never sets synful_numCycles, and has limits of its own.
Lib == INSTANCE Synfull WITH
         Nodes <- LibNodes, Volumes <- LibVolumes,
         NumCycles <- 0, Limited <- TRUE, SsExit <- FALSE

Soc == INSTANCE SynfullSocket WITH
         Nodes <- SocNodes, Volumes <- SocVolumes, Limited <- FALSE, SsExit <- TRUE

ASSUME PlayersAssumption == Lib!WrapperAssumption /\ Soc!SocketAssumption

\* For TLC: each endpoint has the node of its number, a class of the library
\* starts one operation in an interval, one of the generator two.
SameNumber == [n \in 0 .. 2 |-> n]
OneEach    == << << {<<"WRITE">>, <<"READ">>}, {<<"PUTC">>} >> >>
OneOrTwo   == << << {<<"WRITE", "READ">>}, {<<"PUTC">>, <<"PUTD">>} >> >>
-----------------------------------------------------------------------------
Init ==
  /\ part \in {"netrace", "library", "socket"}
  /\ IF part = "netrace" THEN Nt!Init ELSE NtRest!Init
  /\ Lib!Init /\ Soc!Init

Next ==
  \/ part = "netrace" /\ Nt!Next /\ UNCHANGED <<part, genVars, simVars, sockVars>>
  \/ part = "library" /\ Lib!Next /\ UNCHANGED <<part, ntVars, sockVars>>
  \/ part = "socket" /\ Soc!Next /\ UNCHANGED <<part, ntVars, simVars>>

Ended == CASE part = "netrace" -> ntDone [] part = "library" -> pc = "done" [] OTHER -> TRUE

\* The clock runs until the end, and the networks deliver.  (Every step of
\* the two players changes the state.)
Spec == /\ Init /\ [][Next]_allVars
        /\ []<>Ended \/ []<><<TRUE>>_allVars
        /\ part = "netrace" => Nt!NetworkServes
        /\ Lib!NetworkDelivers
-----------------------------------------------------------------------------
\* No packet of a trace is injected before those it depends on are ejected,
\* none twice, and none is lost.
DependenciesRespected == part = "netrace" => Nt!DependenciesRespected

\* The netrace player does not end while a packet is left to send or on its
\* way.  The SynFull library ends in a cycle that begins with nothing on its
\* way, but does not wait for packets the model keeps for a later cycle.
EndsWhenQuiet ==
  /\ part = "netrace" => Nt!ReplayComplete
  /\ part = "library" => Lib!EndsWhenQuiet

\* No packet outlives the transaction it belongs to, which react dereferences
\* without a test, and a transaction waits for just the acknowledgements that
\* are still to come.
TransactionsAccounted ==
  CASE part = "library" -> Lib!TransactionOfMessage /\ Lib!AcksMatchInvs
    [] part = "socket"  -> Soc!TransactionOfMessage /\ Soc!AcksMatchInvs
    [] OTHER            -> TRUE

\* The server answers the generator only with packets it waits for.
AnswersKnownPackets == part = "socket" => Soc!AnswersKnownPackets

\* Every replay of a trace, and every simulation with the library, ends.
PlayersEnd == <>Ended
=============================================================================
