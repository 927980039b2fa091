------------------------------- MODULE Synfull -------------------------------
(***************************************************************************)
(* SynFull linked into the simulator: synful_wrapper.h calls the model once *)
(* per clock, moves the packets of the model into the packet injectors and  *)
(* hands the packets that arrive to synful_Eject.  The network between the  *)
(* injectors is external: it delivers every packet once, in any order.      *)
(* The simulator is built with self-loops, without which the first packet   *)
(* of a node to itself ends the program.                                    *)
(***************************************************************************)
EXTENDS SynfullModel, SequencesExt

CONSTANTS Endpoints,      \* endpoints of the network, 0 .. NE - 1
          PronocMapping   \* pronoc_mapping: the endpoint of each SynFull node

VARIABLES pc,         \* where synful_eval is
          at,         \* the endpoint its ejection loop is at
          inject,     \* synful_inject: packets waiting at each endpoint
          wr,         \* the packet given to an injector this cycle, None otherwise
          traverse,   \* synful_traverse: packets in the network, by destination
          packetsLeft, simulationDone, sentPackets

vars == <<modelVars, pc, at, inject, wr, traverse, packetsLeft, simulationDone, sentPackets>>
wrapperVars == <<at, inject, wr, traverse, packetsLeft, simulationDone, sentPackets>>

None == -1

WrapperAssumption ==
  ModelAssumption /\ IsFiniteSet(Endpoints) /\ Endpoints \subseteq Nat

Init ==
  /\ ModelInit
  /\ pc = "eval" /\ at = 0
  /\ inject = [e \in Endpoints |-> <<>>]
  /\ wr = [e \in Endpoints |-> None]
  /\ traverse = [e \in Endpoints |-> {}]
  /\ packetsLeft = FALSE /\ simulationDone = FALSE /\ sentPackets = 0

(* The end is decided from what the previous cycle left in the queues.  The *)
(* cycle that decides it still runs to its end.                             *)
EvalBegin ==
  /\ pc = "eval" /\ pc' = "hier"
  /\ simulationDone' = (simulationDone \/
       ((cycle > MaxClk \/ sentPackets >= MaxPck) /\ ~packetsLeft))
  /\ packetsLeft' = FALSE
  /\ UNCHANGED <<modelVars, at, inject, wr, traverse, sentPackets>>

(* synful_run_one_cycle: the two intervals, then the packets of this cycle. *)
RunHier ==
  /\ pc = "hier" /\ pc' = "interval"
  /\ HierInterval
  /\ UNCHANGED <<cycle, nextInterval, injectionDone, totalQueued, messageId, inTransit,
                 transactions, queue, wrapperVars>>

RunInterval ==
  /\ pc = "interval" /\ pc' = "send"
  /\ Interval
  /\ UNCHANGED <<cycle, nextHinterval, hierClass, steadyExit, messageId, inTransit,
                 transactions, wrapperVars>>

(* synful_queue_push goes before the packets of the same cycle, so the     *)
(* packets an endpoint gets in one cycle leave in reverse order.           *)
RunInject ==
  /\ pc = "send" /\ pc' = "inject"
  /\ sendPackets
  /\ inject' = [e \in Endpoints |->
       inject[e] \o Reverse(Select([i \in DOMAIN Sent |-> Sent[i].id],
         LAMBDA n : PronocMapping[Sent[n - messageId + 1].source] = e))]
  /\ UNCHANGED <<cycle, nextInterval, nextHinterval, hierClass, state, steadyExit,
                 injectionDone, totalQueued, at, wr, traverse, packetsLeft,
                 simulationDone, sentPackets>>

(* The ejection loop goes over the endpoints in order; it does nothing at  *)
(* one that no packet is on its way to.                                    *)
GoToEndpoint(first) ==
  LET rest == {e \in Endpoints : e >= first /\ traverse'[e] # {}} IN
  IF rest = {} THEN pc' = "step" /\ at' = 0 ELSE pc' = "eject" /\ at' = Min(rest)

(* Each injector that is ready and was not written in the last cycle takes *)
(* the first packet of its queue.                                          *)
InjectAll ==
  /\ pc = "inject"
  /\ \E ready \in SUBSET {e \in Endpoints : wr[e] = None /\ inject[e] # <<>>} :
       LET taken == {Head(inject[e]) : e \in ready} IN
       /\ wr' = [e \in Endpoints |-> IF e \in ready THEN Head(inject[e]) ELSE None]
       /\ inject' = [e \in Endpoints |-> IF e \in ready THEN Tail(inject[e]) ELSE inject[e]]
       /\ traverse' = [e \in Endpoints |->
            traverse[e] \cup {n \in taken : PronocMapping[inTransit[n].dest] = e}]
       /\ sentPackets' = sentPackets + Cardinality(ready)
  /\ GoToEndpoint(0)
  /\ packetsLeft' = (packetsLeft \/ \E e \in Endpoints : inject[e] # <<>>)
  /\ UNCHANGED <<modelVars, simulationDone>>

EjectNothing ==
  /\ pc = "eject"
  /\ packetsLeft' = TRUE
  /\ UNCHANGED <<modelVars, inject, wr, traverse, simulationDone, sentPackets>>
  /\ GoToEndpoint(at + 1)

(* At most one packet has arrived at an endpoint since the last cycle, and *)
(* never one that an injector is only being given.                         *)
Eject ==
  /\ pc = "eject"
  /\ \E n \in traverse[at] :
       /\ \A e \in Endpoints : wr[e] # n
       /\ react(n)
       /\ traverse' = [traverse EXCEPT ![at] = @ \ {n}]
  /\ GoToEndpoint(at + 1)
  /\ packetsLeft' = TRUE
  /\ UNCHANGED <<cycle, nextInterval, nextHinterval, hierClass, state, steadyExit, messageId,
                 inject, wr, simulationDone, sentPackets>>

(* The end of a cycle; the cycles after Horizon are not told apart. *)
Step ==
  /\ pc = "step" /\ pc' = (IF simulationDone THEN "done" ELSE "eval")
  /\ cycle' = IF cycle < Horizon THEN cycle + 1 ELSE cycle
  /\ UNCHANGED <<nextInterval, nextHinterval, hierClass, state, steadyExit, injectionDone,
                 totalQueued, messageId, inTransit, transactions, queue, wrapperVars>>

Next == EvalBegin \/ RunHier \/ RunInterval \/ RunInject \/ InjectAll
        \/ EjectNothing \/ Eject \/ Step
Spec == Init /\ [][Next]_vars

(* The clock runs and the network delivers: no packet stays for ever in an *)
(* injection queue or in the network.                                      *)
InNetwork(n) == \E e \in Endpoints : n \in traverse[e] \/ n \in ToSet(inject[e])
NetworkDelivers == \A n \in 0 .. MaxPck - 1 : []<>(~InNetwork(n))
FairSpec == Spec /\ WF_vars(Next) /\ NetworkDelivers

(* The simulation ends, however the injection limits cut the transactions. *)
SynfullEnds == <>(pc = "done")

(* The end is decided in a cycle that begins with nothing in the injection *)
(* queues and in the network; a packet that these hold at the report was   *)
(* sent by the model in that last cycle, and one in the network has just   *)
(* been given to its injector.  Packets that the model keeps for a later   *)
(* cycle, such as the answer of a memory access, are not waited for: their *)
(* transactions stay open.                                                 *)
EndsWhenQuiet ==
  /\ simulationDone /\ pc \in {"hier", "interval", "send"} =>
       \A e \in Endpoints : inject[e] = <<>> /\ traverse[e] = {}
  /\ pc = "done" => \A e \in Endpoints : traverse[e] \subseteq {wr[f] : f \in Endpoints}
=============================================================================
