----------------------------- MODULE SimThreads -----------------------------
(***************************************************************************)
(* The threads of the Verilator simulator (simulator.cpp).  Routers and    *)
(* end points are divided into one chunk per thread.  Main raises the      *)
(* atomic flag of a stage (eval, copy, update) in every Vthread, runs      *)
(* thread 0's share itself and spins until every flag is down; a worker    *)
(* spins until a flag of its own is up, does its share and lowers it.      *)
(* One step is one access to a flag or one item.                           *)
(***************************************************************************)
EXTENDS Integers, Sequences, FiniteSets, Functions

CONSTANTS
    ThreadNum,   \* thread_num, at least two
    NR, NE,      \* the numbers of routers and end points
    R2r,         \* r2r_cnt_all: the router id1 of each link copied into it
    SmartMax     \* SMART_MAX

ASSUME SimAssumption ==
    /\ ThreadNum \in Nat /\ ThreadNum >= 2
    /\ NR \in Nat \ {0} /\ NE \in Nat \ {0} /\ SmartMax \in Nat
    /\ R2r \in Seq(0 .. NR - 1)

Thread == 0 .. ThreadNum - 1
Flag   == {"eval", "copy", "update"}
Router == 0 .. NR - 1
Endp   == 0 .. NE - 1

VARIABLES
    pos,        \* the place of main in the schedule of a clock cycle
    pc,         \* main: raising flags, inside thread 0's function, joining
    k,          \* the index of main's loop over the threads
    flag,       \* Vthread::eval, copy and update
    tpc,        \* the test a thread is at; thread 0 is "off" outside a call
    busy,       \* whether the thread is inside the branch it tested
    todo        \* the items left of that branch

vars == <<pos, pc, k, flag, tpc, busy, todo>>

-----------------------------------------------------------------------------
(* The stages of a clock cycle.                                            *)

\* update_all_router_stat, the sequential part and sim_eval_all of the
\* rising edge, then the falling edge SMART_MAX + 2 times.
PosedgeStages == <<"update", "inject", "eval">>
NegedgeStages == <<"copy", "stop", "eval">>

Schedule == [i \in 1 .. 3 * (SmartMax + 3) |->
                IF i <= 3 THEN PosedgeStages[i]
                          ELSE NegedgeStages[((i - 1) % 3) + 1]]

Stage == Schedule[pos]

-----------------------------------------------------------------------------
(* The division of the work.                                               *)

PerThread(n) == IF n % ThreadNum # 0 THEN (n \div ThreadNum) + 1
                                     ELSE n \div ThreadNum

\* The nodes of thread n: node = n * per_thread + i, up to the last one.
First(n, count) == n * PerThread(count)
Chunk(n, count) ==
    [i \in 1 .. IF First(n, count) >= count THEN 0
                ELSE IF count - First(n, count) < PerThread(count)
                THEN count - First(n, count) ELSE PerThread(count)
        |-> First(n, count) + i - 1]

Tagged(kind, s) == [i \in 1 .. Len(s) |-> <<kind, s[i]>>]

\* What the loops of a branch go over; a thread goes over all links.
Work(f, n) ==
    CASE f = "eval"   -> Tagged("router", Chunk(n, NR)) \o
                         Tagged("endp", Chunk(n, NE))
      [] f = "copy"   -> Tagged("link", [i \in 1 .. Len(R2r) |-> i]) \o
                         Tagged("endp", Chunk(n, NE))
      [] f = "update" -> Tagged("router", Chunk(n, NR))

\* Of the links it copies those into its routers.
Executes(n, i) ==
    i[1] = "link" => /\ R2r[i[2]] >= First(n, NR)
                     /\ R2r[i[2]] < (n + 1) * PerThread(NR)

-----------------------------------------------------------------------------
(* Vthread::function.                                                      *)

AfterTest(f) == CASE f = "eval" -> "copy" [] f = "copy" -> "update"
                  [] f = "update" -> "spin"

\* The end of a pass: the main thread's own call returns.
Pass(n, f) == IF f = "update" /\ n = 0 THEN "off" ELSE AfterTest(f)

\* while(!eval && !copy && !update) yield
Awake(n) ==
    /\ tpc[n] = "spin" /\ \E f \in Flag : flag[n][f]
    /\ tpc' = [tpc EXCEPT ![n] = "eval"]
    /\ UNCHANGED <<pos, pc, k, flag, busy, todo>>

Test(n) ==
    /\ tpc[n] \in Flag /\ ~busy[n]
    /\ IF flag[n][tpc[n]]
       THEN /\ busy' = [busy EXCEPT ![n] = TRUE]
            /\ todo' = [todo EXCEPT ![n] = Work(tpc[n], n)]
            /\ UNCHANGED tpc
       ELSE /\ tpc' = [tpc EXCEPT ![n] = Pass(n, tpc[n])]
            /\ UNCHANGED <<busy, todo>>
    /\ UNCHANGED <<pos, pc, k, flag>>

DoItem(n) ==
    /\ busy[n] /\ todo[n] # <<>>
    /\ todo' = [todo EXCEPT ![n] = Tail(@)]
    /\ UNCHANGED <<pos, pc, k, flag, tpc, busy>>

Lower(n) ==
    /\ busy[n] /\ todo[n] = <<>>
    /\ flag' = [flag EXCEPT ![n][tpc[n]] = FALSE]
    /\ busy' = [busy EXCEPT ![n] = FALSE]
    /\ tpc' = [tpc EXCEPT ![n] = Pass(n, tpc[n])]
    /\ UNCHANGED <<pos, pc, k, todo>>

ThreadStep(n) == Awake(n) \/ Test(n) \/ DoItem(n) \/ Lower(n)

-----------------------------------------------------------------------------
(* Main: sim_eval_all, topology_connect_all_nodes, update_all_router_stat. *)

Advance == pos' = (pos % Len(Schedule)) + 1

\* The part of a clock edge that main does alone: traffic injection and
\* statistics, or stopping the injectors.
Sequential ==
    /\ pc = "raise" /\ Stage \notin Flag
    /\ Advance
    /\ UNCHANGED <<pc, k, flag, tpc, busy, todo>>

\* for(i) thread[i]->flag=true, then thread[0]->function()
Raise ==
    /\ pc = "raise" /\ Stage \in Flag
    /\ flag' = [flag EXCEPT ![k][Stage] = TRUE]
    /\ IF k = ThreadNum - 1
       THEN pc' = "call" /\ k' = 0 /\ tpc' = [tpc EXCEPT ![0] = "spin"]
       ELSE k' = k + 1 /\ UNCHANGED <<pc, tpc>>
    /\ UNCHANGED <<pos, busy, todo>>

Return ==
    /\ pc = "call" /\ tpc[0] = "off"
    /\ pc' = "join"
    /\ UNCHANGED <<pos, k, flag, tpc, busy, todo>>

\* Mutation: the last thread is not waited for.
JoinButLast ==
    /\ pc = "join" /\ ~flag[k][Stage]
    /\ IF k >= ThreadNum - 2
       THEN pc' = "raise" /\ k' = 0 /\ Advance
       ELSE k' = k + 1 /\ UNCHANGED <<pos, pc>>
    /\ UNCHANGED <<flag, tpc, busy, todo>>

\* for(i) while(thread[i]->flag)
Join ==
    /\ pc = "join" /\ ~flag[k][Stage]
    /\ IF k = ThreadNum - 1
       THEN pc' = "raise" /\ k' = 0 /\ Advance
       ELSE k' = k + 1 /\ UNCHANGED <<pos, pc>>
    /\ UNCHANGED <<flag, tpc, busy, todo>>

MainStep == Sequential \/ Raise \/ Return \/ Join

-----------------------------------------------------------------------------

\* initial_threads: every flag down, the workers spinning.
Init ==
    /\ pos = 1 /\ pc = "raise" /\ k = 0
    /\ flag = [n \in Thread |-> [f \in Flag |-> FALSE]]
    /\ tpc = [n \in Thread |-> IF n = 0 THEN "off" ELSE "spin"]
    /\ busy = [n \in Thread |-> FALSE]
    /\ todo = [n \in Thread |-> <<>>]

Next == MainStep \/ \E n \in Thread : ThreadStep(n)

Spec == Init /\ [][Next]_vars

\* The operating system runs every thread again and again.
Fairness == WF_vars(MainStep) /\ \A n \in Thread : WF_vars(ThreadStep(n))

FairSpec == Spec /\ Fairness

-----------------------------------------------------------------------------
(* Properties.                                                             *)

TypeOK ==
    /\ pos \in 1 .. Len(Schedule)
    /\ pc \in {"raise", "call", "join"}
    /\ k \in Thread
    /\ flag \in [Thread -> [Flag -> BOOLEAN]]
    /\ tpc \in [Thread -> Flag \cup {"spin", "off"}]
    /\ busy \in [Thread -> BOOLEAN]
    /\ DOMAIN todo = Thread

\* A flag is up only for the stage main is in, between being raised by main
\* and being found down: the worker a flag belongs to can neither meet a flag
\* of an earlier stage nor one of a later.
FlagOfStageOnly ==
    \A n \in Thread, f \in Flag :
        flag[n][f] => /\ f = Stage
                      /\ pc = "raise" => n < k
                      /\ pc = "join" => n >= k

\* A thread executes routers, end points or links only in the stage main is
\* waiting for, so that main's own accesses to the injectors, and copies
\* between routers while others evaluate, never meet a thread at work.
Barrier ==
    \A n \in Thread :
        busy[n] => tpc[n] = Stage /\ flag[n][Stage]

Items == [f \in Flag |->
            CASE f = "eval"   -> ({"router"} \X Router) \cup ({"endp"} \X Endp)
              [] f = "copy"   -> ({"link"} \X DOMAIN R2r) \cup ({"endp"} \X Endp)
              [] f = "update" -> {"router"} \X Router]

Item == UNION {Items[f] : f \in Flag}

InStage == Stage \in Flag /\ ~(pc = "raise" /\ k = 0)

Share == [f \in Flag |->
            [n \in Thread |-> {i \in Range(Work(f, n)) : Executes(n, i)}]]

\* Thread n still has to execute item i of the stage.
Pending(n, i) ==
    IF busy[n] /\ flag[n][Stage]
    THEN Executes(n, i) /\ \E j \in DOMAIN todo[n] : todo[n][j] = i
    ELSE /\ flag[n][Stage] \/ (pc = "raise" /\ n >= k)
         /\ i \in Share[Stage][n]

Owing(i) == {n \in Thread : Pending(n, i)}

Left == [i \in Item |-> IF InStage THEN Cardinality(Owing(i)) ELSE 0]

Phases == INSTANCE SimPhases WITH
    Parallel <- Flag, ItemsOf <- Items, running <- InStage, left <- Left

\* The threads execute the stages of the sequential simulator: every item of
\* every stage exactly once, and no stage before the last one is complete.
ImplementsPhases == Phases!Spec

\* The clock runs on: no thread waits for a flag that nobody lowers.
ClockAdvances == []<>(pos = 1) /\ []<>(pos = Len(Schedule))
=============================================================================
