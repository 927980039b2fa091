--------------------------- MODULE OneHotArbiter ----------------------------
(***************************************************************************)
(* The arbiters of width 2 to 4 (my_one_hot_arbiter of arbiter.v and its   *)
(* _priority_en variant): low_pr is the number of the requester served     *)
(* last, and a table gives the order in which the requests are looked at.  *)
(***************************************************************************)
EXTENDS Integers

CONSTANTS
    N,          \* ARBITER_WIDTH, from 2 to 4
    PriorityEn  \* the _priority_en variant

VARIABLES lowPr, request, priorityEn

vars == <<lowPr, request, priorityEn>>

Requester == 0 .. N - 1
NoOne == -1

\* arbiter_2_one_hot, arbiter_3_one_hot, arbiter_4_one_hot: for each low_pr
\* the requesters in the order they are tried.
Order ==
    CASE N = 2 -> <<  <<1, 0>>, <<0, 1>>  >>
      [] N = 3 -> <<  <<1, 2, 0>>, <<2, 0, 1>>, <<0, 1, 2>>  >>
      [] N = 4 -> <<  <<1, 2, 3, 0>>, <<2, 3, 0, 1>>,
                      <<3, 0, 1, 2>>, <<0, 1, 2, 3>>  >>

\* The position of requester i in the order that lowPr selects.
Turn(i) == CHOOSE k \in 1 .. N : Order[lowPr + 1][k] = i

Grant == IF request = {} THEN NoOne
         ELSE CHOOSE i \in request : \A j \in request : Turn(i) <= Turn(j)

\* grant_bin: the number of the granted requester, 0 without a grant.
GrantBin == IF Grant = NoOne THEN 0 ELSE Grant

\* Mutation: the priority moves past a grant that was not enabled.
EnabledAny == Grant # NoOne
Enabled == IF PriorityEn THEN priorityEn ELSE Grant # NoOne

Clock ==
    /\ lowPr' = IF Enabled THEN GrantBin ELSE lowPr
    /\ request' \in SUBSET Requester /\ priorityEn' \in BOOLEAN

Init == lowPr = 0 /\ request \in SUBSET Requester /\ priorityEn \in BOOLEAN
Next == Clock
Spec == Init /\ [][Next]_vars

-----------------------------------------------------------------------------

Abstract == INSTANCE RoundRobin WITH
    First <- 1, last <- lowPr, grant <- Grant,
    enabled <- IF PriorityEn THEN priorityEn ELSE request # {}

\* The arbiter is a round-robin arbiter that starts with requester 1.
ImplementsRoundRobin == Abstract!Spec
=============================================================================
