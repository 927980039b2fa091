----------------------------- MODULE RoundRobin -----------------------------
(***************************************************************************)
(* What the round-robin arbiters of arbiter.v promise: the grant goes to   *)
(* the first requester after the one that was served last, going round.    *)
(* Every allocator of the router is built from them.  The requesters of a  *)
(* cycle are given from outside, and so is whether the priority register   *)
(* is enabled, that is, whether the grant counts as a service: the grants  *)
(* of an input arbiter only do when the output arbiter grants as well      *)
(* (arbiter_priority_en); elsewhere every grant does.                      *)
(***************************************************************************)
EXTENDS Integers

CONSTANTS
    N,           \* ARBITER_WIDTH
    NoOne,       \* no requester
    First        \* the requester of highest priority after a reset

VARIABLES
    last,     \* the requester served last, which has the lowest priority
    request,  \* the requesters of this cycle
    enabled,  \* the priority register is loaded at the end of this cycle
    grant     \* the requester granted in this cycle, or NoOne

vars == <<last, request, enabled, grant>>

Requester == 0 .. N - 1

\* How many requesters are served before i if all ask.
Rank(i) == IF i > last THEN i - last - 1 ELSE i - last - 1 + N

\* The combinational part.
Arbitrate == IF request = {} THEN grant = NoOne
             ELSE grant \in request /\ \A j \in request : Rank(grant) <= Rank(j)

Inputs ==
    /\ request \in SUBSET Requester /\ enabled \in BOOLEAN
    /\ grant \in Requester \cup {NoOne} /\ Arbitrate

Init == last = (IF First = 0 THEN N - 1 ELSE First - 1) /\ Inputs

\* The granted requester is served.
Serve == enabled /\ grant # NoOne /\ last' = grant /\ Inputs'

\* Nobody is served: the grant, if any, does not count.
Skip == ~enabled /\ last' = last /\ Inputs'

\* A priority register that is enabled without a request may go anywhere.
Disturb == enabled /\ grant = NoOne /\ last' \in Requester /\ Inputs'

Next == Serve \/ Skip \/ Disturb

Spec == Init /\ [][Next]_vars

-----------------------------------------------------------------------------

\* Whoever keeps asking is passed by each of the others once at most: every
\* service of another requester brings it closer to the highest priority.
Approaching ==
    [][Serve => \A i \in request \ {grant} : Rank(i)' < Rank(i)]_vars

\* Nobody who keeps asking waits for ever.  It needs every grant, or at least
\* one of every sequence of grants, to be a service.
NoStarvation ==
    \A i \in Requester : []<>(i \notin request \/ grant = i)
=============================================================================
