---------------------------- MODULE MCSimulator -----------------------------
(***************************************************************************)
(* The Verilator simulator, for TLC: the threads of a clock cycle, the      *)
(* counters of a simulation with unicast and with multicast traffic, the    *)
(* task graph, and the topologies with the traffic patterns.  A behaviour   *)
(* is of one part; the others stay where they start.                        *)
(***************************************************************************)
EXTENDS SimThreads

CONSTANTS Unicast, Multicast   \* the settings of the parts "unicast" and "multicast"

VARIABLES part,
          clk, injectDone, simulationDone, failed, idle, total, sentStat, rsvdStat, endpToEndp,
          stop, nextPck, queue, sent, net,
          file, sources, activeRouters, waiting, sentPck, timeUp, tasksDone,
          topo, r2r, r2e, er_addr, req

trafficVars == <<clk, injectDone, simulationDone, failed, idle, total, sentStat, rsvdStat,
                 endpToEndp, stop, nextPck, queue, sent, net>>
taskVars    == <<file, sources, activeRouters, waiting, sentPck, timeUp, tasksDone>>
topoVars    == <<topo, r2r, r2e, er_addr, req>>
allVars     == <<part, vars, trafficVars, taskVars, topoVars>>

\* The threads: links into routers of every thread.
Links == <<2, 0, 1, 3>>
-----------------------------------------------------------------------------
\* A setting of a simulation with synthetic traffic.
Setting(ne, sizes, latency, multicast, endPck, endClk, idleLimit) ==
  [ne |-> ne, sizes |-> sizes, latency |-> latency, multicast |-> multicast,
   endPck |-> endPck, endClk |-> endClk, idleLimit |-> idleLimit, fifoNum |-> 1]

Traffic(s) == INSTANCE SimTraffic WITH
  NE <- s.ne, Sizes <- s.sizes, Latency <- s.latency, Multicast <- s.multicast,
  EndPck <- s.endPck, EndClk <- s.endClk, IdleLimit <- s.idleLimit, FifoNum <- s.fifoNum

ASSUME TrafficSettings ==
  Traffic(Unicast)!TrafficAssumption /\ Traffic(Multicast)!TrafficAssumption

\* For TLC.
TwoSizes == Setting(2, {1, 2}, {1, 2}, FALSE, 2, 4, 3)
ToEach   == Setting(2, {2}, {1}, TRUE, 1, 3, 2)
-----------------------------------------------------------------------------
Line(s, d, bytes, min, max, burst) ==
  [src |-> s, dst |-> d, bytes |-> bytes, minSize |-> min, maxSize |-> max, burst |-> burst]

\* Two sources, bursts that are computed and given, bytes that fill a last
\* packet in part; with a destination outside, whose packets count for the end
\* and are never sent, and without, when the count ends it before the tasks.
TaskFile ==
  <<Line(0, 1, 20, 2, 2, -1), Line(0, 2, 16, 2, 2, -1), Line(0, 1, 44, 2, 3, 3),
    Line(0, 5, 40, 2, 3, 3), Line(1, 0, 28, 2, 2, 1), Line(1, 0, 8, 2, 2, 1)>>

Tasks == INSTANCE TaskGraph WITH
  NE <- 3, Fpay <- 32, FifoNum <- 2, Files <- {TaskFile, SelectSeq(TaskFile, LAMBDA l : l.dst < 3)},
  injectDone <- tasksDone
-----------------------------------------------------------------------------
Topology(kind, t1, t2, t3, t4) ==
  [kind |-> kind, t1 |-> t1, t2 |-> t2, t3 |-> t3, t4 |-> t4, cast |-> "unicast"]

Regular ==
  {Topology(kind, a, b, 1, 1) : kind \in {"mesh", "torus", "fmesh"}, a \in 2 .. 4, b \in 2 .. 3} \cup
  {Topology("mesh3d", a, 2, c, d) : a \in 2 .. 3, c \in 2 .. 3, d \in 1 .. 2} \cup
  {Topology(kind, a, 1, c, 1) : kind \in {"line", "ring"}, a \in {3, 5}, c \in 1 .. 2} \cup
  {Topology(kind, a, b, 1, 1) : kind \in {"fattree", "tree"}, a \in 2 .. 3, b \in 2 .. 3}

AllTopologies ==
  Regular \cup
  {Topology("mesh", 2, 2, 2, 1), Topology("fmesh", 2, 2, 2, 1), Topology("fmesh", 3, 2, 2, 1),
   Topology("fmesh", 1, 2, 2, 1), Topology("star", 5, 1, 1, 1), Topology("mesh4x4", 1, 1, 1, 1),
   Topology("custom1", 1, 1, 1, 1)} \cup
  {[t EXCEPT !.cast = c] :
     t \in {Topology("mesh", 2, 3, 1, 1), Topology("ring", 5, 1, 1, 1), Topology("star", 5, 1, 1, 1)},
     c \in {"full", "partial", "bcast"}}

AllTraffics == {"RANDOM", "HOTSPOT", "CUSTOM", "BIT_REVERSE", "BIT_COMPLEMENT", "SHUFFLE",
                "BIT_ROTATION", "TRANSPOSE1", "TRANSPOSE2", "TORNADO", "NEIGHBOR"}

Patterns == INSTANCE SimTopology WITH
  Topologies <- AllTopologies, Traffics <- AllTraffics, SelfLoopEn <- FALSE,
  HotspotArgs <- <<0, 0, 100, 1, 1, 200>>, CustomArgs <- <<0, 1, 1, 2, 0, 2>>,
  McastDigits <- <<0, 0, 0, 0, 0, 0, 0, 0, 0, 3, 5>>, DigitBits <- 4,
  SizeArgs <- [sizes |-> <<2, 3, 5>>, prob |-> <<30, 0, 70>>], McastSizes <- <<2, 4>>
-----------------------------------------------------------------------------
TopologyRests == topo = 0 /\ r2r = {} /\ r2e = {} /\ er_addr = <<>> /\ req = 0
TrafficRests ==
  \A i \in DOMAIN stop : ~stop[i] /\ nextPck[i] = CHOOSE p \in Traffic(Unicast)!Packets(i) : TRUE

MCInit ==
  /\ part \in {"threads", "unicast", "multicast", "tasks", "topology"}
  /\ Init
  /\ IF part = "multicast" THEN Traffic(Multicast)!Init ELSE Traffic(Unicast)!Init
  /\ part \in {"unicast", "multicast"} \/ TrafficRests
  /\ Tasks!Init /\ (part = "tasks" \/ file = TaskFile)
  /\ IF part = "topology" THEN Patterns!PatternInit ELSE TopologyRests

MCNext ==
  \/ part = "threads" /\ Next /\ UNCHANGED <<part, trafficVars, taskVars, topoVars>>
  \/ /\ \/ part = "unicast" /\ Traffic(Unicast)!Next
        \/ part = "multicast" /\ Traffic(Multicast)!Next
     /\ UNCHANGED <<part, vars, taskVars, topoVars>>
  \/ part = "tasks" /\ Tasks!Next /\ UNCHANGED <<part, vars, trafficVars, topoVars>>
  \/ part = "topology" /\ Patterns!PatternNext /\ UNCHANGED <<part, vars, trafficVars, taskVars>>

\* The fairness of each part.
MCSpec ==
  /\ MCInit /\ [][MCNext]_allVars
  /\ WF_vars(part = "threads" /\ MainStep)
  /\ \A n \in Thread : WF_vars(part = "threads" /\ ThreadStep(n))
  /\ part \in {"unicast", "multicast"} => Traffic(Unicast)!ClockRuns
  /\ WF_taskVars(part = "tasks" /\ Tasks!Next)
  /\ \A s \in Tasks!Endp : WF_taskVars(part = "tasks" /\ Tasks!Advance(s))
-----------------------------------------------------------------------------
\* The threads execute the stages one after another as one thread would; no flag
\* is up, and nobody works, outside the stage that main waits for.
ThreadsAreSequential ==
  ImplementsPhases /\ [](TypeOK /\ FlagOfStageOnly /\ Barrier)

\* The report of a simulation that is declared done is complete.
ReportComplete ==
  IF part = "multicast" THEN Traffic(Multicast)!ReportComplete ELSE Traffic(Unicast)!ReportComplete

\* The clock runs on, no thread waits for a flag that nobody lowers; and a
\* simulation comes to its end, with the report or with the error.
SimulationEnds ==
  /\ part = "threads" => ClockAdvances
  /\ part \in {"unicast", "multicast"} => Traffic(Unicast)!SimulationEnds

\* Each header takes one packet of one task, the active task of a source is
\* always one of its own, and the sources are stopped at last and with a reason:
\* the packets counted in the file have left, no task is left, or time is up.
TasksAccounted ==
  /\ [](part = "tasks" =>
          Tasks!IndexInRange /\ Tasks!PacketsAccounted /\ Tasks!EndsWithReason)
  /\ part = "tasks" => Tasks!TasksEnd

\* Links go both ways between ports that exist, addresses decode to the end
\* points they were made from, distances are those along the links.
TopologySound ==
  part = "topology" /\ req = Patterns!NoReq =>
    Patterns!WiringSound /\ Patterns!AddressesDecode /\ Patterns!DistanceOfWiring

\* Every packet of every pattern has an end point of the network to go to.
DestinationExists == part = "topology" => Patterns!DestinationExists
=============================================================================
