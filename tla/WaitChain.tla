------------------------------ MODULE WaitChain -----------------------------
(***************************************************************************)
(* Can packets of a mesh or torus wait for each other in a circle?  A      *)
(* packet that waits holds a VC and asks for another, which a packet       *)
(* holds that waits in turn.  The module follows such a chain of waiting   *)
(* packets from any VC on; a circle is a chain that comes back to the VC   *)
(* where it starts.                                                        *)
(*                                                                         *)
(* In deterministic and partially adaptive routing the VCs of a channel    *)
(* are alike, and the chain may follow any port a packet could ask for.    *)
(* In fully adaptive routing a packet that waits is stuck only if its      *)
(* escape VC is held, so the chain goes from escape VC to escape VC: the   *)
(* packet that holds one may have gone on over adaptive VCs since, and its *)
(* header may be queued behind another packet in a VC that is reallocated  *)
(* before it is empty (regular_topo_full_adapt_ovc_avail).                 *)
(***************************************************************************)
EXTENDS MeshTorusRouting

CONSTANT AvcAtomicEn   \* AVC_ATOMIC_EN

ASSUME AtomicAssumption == AvcAtomicEn \in BOOLEAN

VARIABLES
    chainCfg,
    start,   \* the VC where the chain starts
    last,    \* the VC that holds the header of the chain's last packet
    goal,    \* that packet's destination
    moved    \* the chain has left its start

chainVars == <<chainCfg, start, last, goal, moved>>

\* The VCs (of one class) of the channel that leaves router "from" at "port".
Vc == [from : Router, port : Dir, class : {"escape", "adaptive"}]

\* The VCs at router r that a packet to d may ask for.  With both dimensions
\* to go it keeps out of the escape VCs of y.
Options(c, r, d, inNI) ==
    LET out == PossibleOut(c, r, d, inNI)
    IN [from : {r}, port : out \cap Dir, class : VcClass(c)]
       \ (IF FullAdaptive(c) /\ out \cap DirX # {}
          THEN [from : {r}, port : DirY, class : {"escape"}]
          ELSE {})

\* Some packet to d may hold v: one that started at the router before v, or
\* one that came through it, has v among its options.
MayHold(c, v, d) == v \in Options(c, v.from, d, TRUE)

\* Mutation: as AVC_ATOMIC_EN says, in both dimensions.
AtomicIfEnabled(c, v) ==
    FullAdaptive(c) /\ v.class = "adaptive" /\ AvcAtomicEn

\* Allocated only when it is empty, so that it never holds two packets.
Atomic(c, v) ==
    /\ FullAdaptive(c)
    /\ v.class = "adaptive"
    /\ AvcAtomicEn \/ v.port \in DirY

End(v) == Neighbor(v.from, v.port)

-----------------------------------------------------------------------------
ChainInit ==
    /\ chainCfg \in Configs
    /\ start \in [from : Router, port : Dir, class : {"escape"}]
    /\ goal \in Router
    /\ MayHold(chainCfg, start, goal)
    /\ last = start
    /\ moved = FALSE

\* The packet's header goes on into a further VC.
Extend ==
    /\ last' \in Options(chainCfg, End(last), goal, FALSE)
    /\ moved' = TRUE
    /\ UNCHANGED <<chainCfg, start, goal>>

\* Its header is queued behind that of another packet in the same VC.
QueueBehind ==
    /\ ~Atomic(chainCfg, last)
    /\ goal' \in Router
    /\ MayHold(chainCfg, last, goal')
    /\ UNCHANGED <<chainCfg, start, last, moved>>

\* It waits for an escape VC that another packet holds.
WaitFor ==
    /\ last' \in Options(chainCfg, End(last), goal, FALSE)
    /\ last'.class = "escape"
    /\ goal' \in Router
    /\ MayHold(chainCfg, last', goal')
    /\ moved' = TRUE
    /\ UNCHANGED <<chainCfg, start>>

\* At its destination a packet is consumed, and the chain ends.
Consumed == End(last) = goal /\ UNCHANGED chainVars

ChainNext == Extend \/ QueueBehind \/ WaitFor \/ Consumed

ChainSpec == ChainInit /\ [][ChainNext]_chainVars

-----------------------------------------------------------------------------
(* Properties.                                                             *)

\* A chain follows VCs of the configuration's classes, from an escape VC on.
ChainTypeOK ==
    /\ chainCfg \in Configs
    /\ start \in Vc /\ start.class = "escape"
    /\ last \in Vc /\ last.class \in VcClass(chainCfg)
    /\ goal \in Router
    /\ moved \in BOOLEAN

\* Packets never wait for each other in a circle, whatever their destinations
\* and whichever of the permitted ports each has asked for: the network is
\* free of deadlock.
NoCircularWait == moved => last # start

\* A packet that waits always has an escape VC to wait for.
EscapeAlwaysOffered ==
    End(last) # goal =>
        \E v \in Options(chainCfg, End(last), goal, FALSE) : v.class = "escape"
=============================================================================
