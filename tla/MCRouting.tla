----------------------------- MODULE MCRouting ------------------------------
(***************************************************************************)
(* What keeps routes correct and free of deadlock, for TLC.  A behaviour    *)
(* has a packet on its way (PacketRoute), a chain of waiting packets        *)
(* (WaitChain), or the tool that ranks the channels of a custom topology    *)
(* (Agony); the other two rest at their ends.                              *)
(***************************************************************************)
EXTENDS PacketRoute, WaitChain, Sequences

VARIABLES part, pc, labels, graph, parent, paredge, u, seed, active, left, euler, rank,
          newrank, count, sources, slackOf, curslack, primal, dual, edge, diff, curstack,
          visited, nl, bound

ranking == <<pc, labels, graph, parent, paredge, u, seed, active, left, euler, rank, newrank,
             count, sources, slackOf, curslack, primal, dual, edge, diff, curstack, visited,
             nl, bound>>

\* Every graph over up to four nodes: the first edge of a file always joins
\* the first two nodes that are named.
FirstEdge == <<1, 2>>
MoreEdges == <<<<1, 3>>, <<1, 4>>, <<2, 1>>, <<2, 3>>, <<2, 4>>, <<3, 1>>, <<3, 2>>, <<3, 4>>,
               <<4, 1>>, <<4, 2>>, <<4, 3>>>>
Graphs == {<<FirstEdge>> \o SelectSeq(MoreEdges, LAMBDA e : e \in s) : s \in 
             SUBSET {MoreEdges[i] : i \in DOMAIN MoreEdges}}

A    == INSTANCE Agony WITH Inputs <- Graphs
Rest == INSTANCE Agony WITH Inputs <- {<<FirstEdge>>}

\* A packet that was sent to the router it comes from.
PacketRests ==
    /\ cfg = [topo |-> "MESH", alg |-> "DOR"]
    /\ src = <<0, 0>> /\ dest = src /\ here = src /\ via = "LOCAL"
    /\ vc = "escape"
    /\ code = [x |-> FALSE, y |-> FALSE, a |-> FALSE, b |-> FALSE]
    /\ ovc = [port |-> "LOCAL", vc |-> "escape"]
    /\ arriving = FALSE /\ pre = FALSE /\ swap = FALSE /\ avcFree = FALSE
    /\ hops = 0

\* A packet that has come, over two routers, to its destination.
ChainRests ==
    /\ chainCfg = [topo |-> "MESH", alg |-> "DOR"]
    /\ start = [from |-> <<0, 0>>, port |-> "EAST", class |-> "escape"]
    /\ last = [from |-> <<1, 0>>, port |-> "EAST", class |-> "escape"]
    /\ goal = <<2, 0>>
    /\ moved = TRUE

\* These are states of the parts.
ASSUME RestAssumption ==
    /\ [topo |-> "MESH", alg |-> "DOR"] \in Configs
    /\ NX >= 3

MCInit ==
    \/ part = "packet" /\ Init /\ ChainRests /\ Rest!Init
    \/ part = "chain" /\ ChainInit /\ PacketRests /\ Rest!Init
    \/ part = "rank" /\ A!Init /\ ChainRests /\ PacketRests

Rank == A!Next \/ (pc = "done" /\ UNCHANGED ranking)

MCNext ==
    \/ part = "packet" /\ Next /\ UNCHANGED <<part, chainVars, ranking>>
    \/ part = "chain" /\ ChainNext /\ UNCHANGED <<part, vars, ranking>>
    \/ part = "rank" /\ Rank /\ UNCHANGED <<part, vars, chainVars>>

MCSpec == /\ MCInit /\ [][MCNext]_<<part, vars, chainVars, ranking>>
          /\ Fairness
          /\ WF_ranking(part = "rank" /\ A!Next)

AllowedConfigs == {c \in Config : c.topo = "MESH" \/ c.alg = "DOR"}

\* A packet takes the way its algorithm promises, of the shortest length.
TakesItsWay == TypeOK /\ FollowsAlgorithm /\ ArrivesAtDistance

\* Every VC that is granted to a packet, by the two-stage allocators or by the
\* straight one, which looks at a or b of the code only, is one that the chains
\* take it to ask for.  A packet with x to go so never gets an escape VC of y,
\* which debug.sv asserts.
GrantIsOption ==
    ovc # None /\ ~Delivered =>
        [from |-> here, port |-> ovc.port, class |-> ovc.vc]
            \in Options(cfg, here, dest, via = "LOCAL")

\* What a packet asks for, the crossbar has, at the port that was selected; what
\* it is granted is one of the chains' options, and these always have an escape
\* VC.
GrantIsLegal ==
    RequestAssignable /\ GrantMatchesPort /\ GrantIsOption /\ EscapeAlwaysOffered

\* The ranks agony writes are of least agony, and between two reliefs its lists
\* agree with them.
AgonyMinimal == A!AgonyMinimal /\ A!SlacksFiled

\* The ranking of every graph comes to an end.
RankingEnds == part = "rank" => A!RankingEnds
=============================================================================
