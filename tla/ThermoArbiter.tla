--------------------------- MODULE ThermoArbiter ----------------------------
(***************************************************************************)
(* The arbiters of width 5 and more (thermo_arbiter of arbiter.v and its   *)
(* _priority_en variant): the register pr masks the requests up to the one *)
(* served last, and the lowest request is found with thermometer codes.    *)
(* A bit vector is the set of the positions of its ones.                   *)
(***************************************************************************)
EXTENDS Integers

CONSTANTS N, PriorityEn

ThermoAssumption == N \in Nat /\ N >= 2 /\ PriorityEn \in BOOLEAN

VARIABLES pr, request, priorityEn

vars == <<pr, request, priorityEn>>

Requester == 0 .. N - 1
NoOne == -1

Termo(bits) == {i \in Requester : \E j \in bits : j <= i}

MaskedRequest == request \cap pr

\* Mutation: the mask is not used.
MuxOutUnmasked == Termo(request)
MuxOut == IF N - 1 \in Termo(MaskedRequest) THEN Termo(MaskedRequest)
          ELSE Termo(request)

EdgeMask == LET mux == MuxOut IN {i \in Requester : i - 1 \in mux}

\* mux_out ^ edge_mask
GrantBits == LET mux == MuxOut  edge == EdgeMask IN (mux \ edge) \cup (edge \ mux)

Enabled == IF PriorityEn THEN priorityEn ELSE request # {}

Clock ==
    /\ pr' = IF Enabled THEN EdgeMask ELSE pr
    /\ request' \in SUBSET Requester /\ priorityEn' \in BOOLEAN

Init == pr = Requester /\ request \in SUBSET Requester /\ priorityEn \in BOOLEAN
Next == Clock
Spec == Init /\ [][Next]_vars

-----------------------------------------------------------------------------

\* The grant is one-hot, or all zeros without a request: what the one-hot
\* multiplexers of the crossbar rely on.
GrantOneHot ==
    /\ GrantBits = {} <=> request = {}
    /\ \A i, j \in GrantBits : i = j
    /\ GrantBits \subseteq request

\* The requester whose edge the mask was made from; a mask of all ones or of
\* all zeros is that of the last one.
Last == IF pr = {} \/ 0 \in pr THEN N - 1
        ELSE (CHOOSE i \in pr : \A j \in pr : i <= j) - 1

Abstract == INSTANCE RoundRobin WITH
    First <- 0, last <- Last,
    enabled <- IF PriorityEn THEN priorityEn ELSE request # {},
    grant <- LET bits == GrantBits IN
             IF bits = {} THEN NoOne ELSE CHOOSE i \in bits : TRUE

\* The arbiter is a round-robin arbiter that starts with requester 0.
ImplementsRoundRobin == Abstract!Spec

\* Whoever keeps asking is passed by each of the others once at most.
Approaching == Abstract!Approaching

\* Nobody who keeps asking waits for ever, where every grant is a service.
NoStarvation == Abstract!NoStarvation
=============================================================================
