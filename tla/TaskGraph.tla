----------------------------- MODULE TaskGraph ------------------------------
(***************************************************************************)
(* Task traffic (traffic_task_graph.h and pck_dst_gen_task_graph of        *)
(* simulator.cpp): each source has a list of tasks, takes a burst of each  *)
(* in turn, and drops a task whose bytes are taken.  A step is one clock   *)
(* cycle: the generators queue packets, some headers leave, each of them   *)
(* is counted and asks for the task of the next packet; and the simulator  *)
(* decides whether to stop the sources.  The model counts packets: a       *)
(* queued packet keeps the destination set when it was queued.             *)
(***************************************************************************)
EXTENDS Integers, Sequences, FiniteSets, SequencesExt

CONSTANTS
    NE,          \* the number of end points
    Fpay,        \* the payload of a flit in bits
    FifoNum,     \* TIMSTMP_FIFO_NUM, the packets a generator queues
    Files        \* the task files: lines; a burst of Auto is computed

Endp == 0 .. NE - 1
Auto == -1       \* SET_AUTO
Disable == -1    \* DISABLE

VARIABLES
    file,            \* the file that was read
    sources,         \* of each source: its task list and index, and stop
    activeRouters,   \* total_active_routers
    waiting,         \* the packets of a source whose header has not left
    sentPck,         \* total_sent_pck_num, by source
    timeUp,          \* clk_counter has reached sim_end_clk_num
    injectDone

vars == <<file, sources, activeRouters, waiting, sentPck, timeUp, injectDone>>

-----------------------------------------------------------------------------
(* The file: extract_traffic_data, load_traffic_file and                   *)
(* calcualte_traffic_parameters.                                           *)

AvgPckSize(l) == (l.minSize + (IF l.maxSize >= l.minSize THEN l.maxSize
                                                         ELSE l.minSize)) \div 2

EstimatedPcks(l) ==
    LET n == (l.bytes * 8) \div (AvgPckSize(l) * Fpay)
    IN  IF n = 0 THEN 1 ELSE n

\* Every line that is read counts, those with a destination outside as well.
EndSimPckNum == FoldSeq(LAMBDA l, n : EstimatedPcks(l) + n, 0, file)

\* push puts a task before those of earlier lines.
LinesOf(src) == Reverse(SelectSeq(file, LAMBDA l : l.dst < NE /\ l.src = src))

MinPcks(ls) == Min({EstimatedPcks(l) : l \in Range(ls)})

TaskOf(l, minTotal) ==
    [dst |-> l.dst, bytes |-> l.bytes, size |-> AvgPckSize(l),
     burst |-> IF l.burst = Auto THEN EstimatedPcks(l) \div minTotal ELSE l.burst,
     byteSent |-> 0, burstSent |-> 0]

Loaded(s) ==
    LET ls == LinesOf(s) IN
    [tasks |-> [i \in DOMAIN ls |-> TaskOf(ls[i], MinPcks(ls))], totalIndex |-> Len(ls),
     active |-> IF ls = <<>> THEN Disable ELSE 0, stop |-> FALSE]

-----------------------------------------------------------------------------
(* pck_dst_gen_task_graph, for the record g of a source.  Indices count    *)
(* from zero.                                                              *)

Sent(t) == [t EXCEPT !.byteSent = @ + t.size * (Fpay \div 8), !.burstSent = @ + 1]

BurstDone(t) == t.burstSent >= t.burst

Rotated(i, n) == IF i >= n THEN 0 ELSE i

\* Mutation: the index is not brought back after a task is removed.
IndexAfterRemovalKept(i, n) == i

IndexAfterRemoval(i, n) == IF i >= n THEN 0 ELSE i

Generate(g) ==
    LET i == g.active
        t == Sent(g.tasks[i + 1])
        j == IF BurstDone(t) THEN Rotated(i + 1, g.totalIndex) ELSE i
        left == g.totalIndex - 1
    IN  IF t.byteSent < t.bytes
        THEN [g EXCEPT !.active = j, !.tasks[i + 1] =
                         IF BurstDone(t) THEN [t EXCEPT !.burstSent = 0] ELSE t]
        ELSE [g EXCEPT !.tasks = RemoveAt(@, i + 1), !.totalIndex = left,
                       !.active = IF left = 0 THEN Disable
                                              ELSE IndexAfterRemoval(j, left),
                       !.stop = @ \/ left = 0]

\* DISABLE, or no task at the active index: the source is turned off.
DstGen(g) == IF g.active = Disable \/ g.active >= Len(g.tasks)
             THEN [g EXCEPT !.stop = TRUE] ELSE Generate(g)

\* The sources of S call it; a last task removed is a router less.
Finish(S) == {s \in S : sources[s].active # Disable /\ DstGen(sources[s]).active = Disable}

ActiveAfter(n, finished) == IF n >= finished THEN n - finished ELSE 0

-----------------------------------------------------------------------------
\* The file is loaded, and traffic_gen_init asks for every first packet.
Init ==
    /\ file \in Files
    /\ sources = [s \in Endp |-> DstGen(Loaded(s))]
    /\ activeRouters =
         LET with == {s \in Endp : Loaded(s).totalIndex # 0}
         IN  ActiveAfter(Cardinality(with),
                         Cardinality({s \in with : DstGen(Loaded(s)).active = Disable}))
    /\ waiting = [s \in Endp |-> 0]
    /\ sentPck = [s \in Endp |-> 0]
    /\ timeUp = FALSE /\ injectDone = FALSE

TotalSentPck == FoldFunction(LAMBDA n, m : n + m, 0, sentPck)

\* Decided from the counts of the cycle before.
InjectDone == TotalSentPck >= EndSimPckNum \/ timeUp' \/ activeRouters = 0

\* A stopped generator still sends what it has queued.
MayQueue == {s \in Endp : ~sources[s].stop /\ waiting[s] < FifoNum}
MaySend  == {s \in Endp : waiting[s] > 0}

One(s, S) == IF s \in S THEN 1 ELSE 0

\* The generators of Q queue a packet, the headers of those of S leave.  stop
\* of a source was set by the falling edge before, or is by its new task.
Cycle(Q, S) ==
    /\ waiting' = [s \in Endp |-> waiting[s] + One(s, Q) - One(s, S)]
    /\ sentPck' = [s \in Endp |-> sentPck[s] + One(s, S)]
    /\ timeUp' \in {timeUp, TRUE}
    /\ injectDone' = InjectDone
    /\ sources' = [s \in Endp |->
          LET g == IF s \in S THEN DstGen(sources[s]) ELSE sources[s]
          IN  [g EXCEPT !.stop = @ \/ injectDone]]
    /\ activeRouters' = ActiveAfter(activeRouters, Cardinality(Finish(S)))
    /\ UNCHANGED file

Next == \E Q \in SUBSET MayQueue, S \in SUBSET MaySend : Cycle(Q, S)

\* A source that is on queues packets and gets rid of them: its injection
\* ratio is not 0 and its tasks are for others.  The clock runs.
Advance(s) ==
    /\ ~sources[s].stop
    /\ \E Q \in SUBSET MayQueue, S \in SUBSET MaySend :
         s \in (IF waiting[s] = 0 THEN Q ELSE S) /\ Cycle(Q, S)

FairSpec == Init /\ [][Next]_vars /\ WF_vars(Next) /\ \A s \in Endp : WF_vars(Advance(s))

-----------------------------------------------------------------------------
(* Properties.                                                             *)

\* The packets that carry the bytes of a task: the last one may be partly
\* used, and a task takes one at least.
PcksOf(bytes, size) ==
    LET pck == size * (Fpay \div 8) IN IF bytes = 0 THEN 1 ELSE (bytes + pck - 1) \div pck

AllPcks(s) ==
    FoldSeq(LAMBDA l, n : n + (IF l.src = s /\ l.dst < NE
                               THEN PcksOf(l.bytes, AvgPckSize(l)) ELSE 0), 0, file)

LeftPcks(s) == FoldSeq(LAMBDA t, n : n + PcksOf(t.bytes - t.byteSent, t.size),
                       0, sources[s].tasks)

\* The active index of a source names one of its tasks, and the number of
\* active sources, which ends the simulation, counts those with tasks.
IndexInRange ==
    /\ \A s \in Endp :
         /\ sources[s].totalIndex = Len(sources[s].tasks)
         /\ sources[s].active \in
              IF sources[s].tasks = <<>> THEN {Disable} ELSE 0 .. Len(sources[s].tasks) - 1
    /\ activeRouters = Cardinality({s \in Endp : sources[s].tasks # <<>>})

\* However bursts and removals follow each other, every header that leaves
\* takes exactly one packet of one task, and a source that has no task left
\* has sent all packets of its tasks but the last: that one is taken when the
\* source is turned off and leaves only if it was queued before.
PacketsAccounted ==
    \A s \in Endp : AllPcks(s) > 0 =>
        IF sources[s].tasks # <<>> THEN sentPck[s] + 1 = AllPcks(s) - LeftPcks(s)
                                   ELSE sentPck[s] + 1 >= AllPcks(s)

\* The sources are stopped before the time is up only when the packets that
\* the file's lines estimate have left, or when no source has a task; the
\* first may come while tasks are left.
EndsWithReason ==
    injectDone /\ ~timeUp =>
        \/ TotalSentPck >= EndSimPckNum
        \/ \A s \in Endp : sources[s].tasks = <<>>

\* The sources are stopped at last, without a limit of time as well: no task
\* is passed over for ever when others are removed.
TasksEnd == <>[](injectDone /\ \A s \in Endp : sources[s].stop)
=============================================================================
