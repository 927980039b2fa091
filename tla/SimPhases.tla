----------------------------- MODULE SimPhases ------------------------------
(***************************************************************************)
(* What the Verilator simulator promises whatever thread_num is: a clock   *)
(* cycle is a fixed sequence of stages, each of which executes every item  *)
(* of its kind (a router, an end point, a link) exactly once, and none     *)
(* begins before its predecessor is complete.  This is how the branches    *)
(* of the code for a single thread run; SimThreads implements it.          *)
(***************************************************************************)
EXTENDS Integers, Sequences

CONSTANTS
    Schedule,    \* the stages of a cycle, in order
    Parallel,    \* the stages that execute items; the others are one step
    Item,        \* everything a stage may execute
    ItemsOf      \* the items of each parallel stage

VARIABLES
    pos,         \* the place in the schedule
    running,     \* whether the stage at pos has begun
    left         \* how many executions of each item are still to come

vars == <<pos, running, left>>

Stage   == Schedule[pos]
Nothing == [i \in Item |-> 0]

Advance == pos' = (pos % Len(Schedule)) + 1

Init == pos = 1 /\ running = FALSE /\ left = Nothing

OneStep ==
    /\ Stage \notin Parallel
    /\ Advance
    /\ UNCHANGED <<running, left>>

Begin ==
    /\ Stage \in Parallel /\ ~running
    /\ running' = TRUE
    /\ left' = [i \in Item |-> IF i \in ItemsOf[Stage] THEN 1 ELSE 0]
    /\ UNCHANGED pos

Do ==
    /\ LET now == left  later == left'
       IN  \E i \in Item : /\ now[i] > 0
                           /\ later = [now EXCEPT ![i] = @ - 1]
    /\ UNCHANGED <<pos, running>>

End ==
    /\ running /\ left = Nothing
    /\ running' = FALSE
    /\ Advance
    /\ UNCHANGED left

Next == OneStep \/ Begin \/ End \/ Do

Spec == Init /\ [][Next]_vars
=============================================================================
