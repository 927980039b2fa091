------------------------------- MODULE Netrace ------------------------------
(***************************************************************************)
(* Trace-driven simulation: the dependency tracker of netrace (netrace.c), *)
(* the simulator that replays a trace on the NoC (netrace_lib.h) and the   *)
(* stand-alone player, which has a delay for a network (netrace-1.0/       *)
(* main.c).  A packet of the trace names the later packets that depend on  *)
(* it; those are injected once it has been ejected.  A step is one call of *)
(* netrace_eval or one round of main's loop; the NoC, which has            *)
(* SELF_LOOP_EN, decides which injectors are ready and which packets       *)
(* arrive.                                                                 *)
(***************************************************************************)
EXTENDS Integers, Sequences, FiniteSets, FiniteSetsExt, SequencesExt

CONSTANTS
    Traces,      \* sequences of packets [cycle, src, dst, deps], in order of
                 \* their cycle; deps are indices of later packets
    Modes,       \* what the arguments set: standalone, ignore, throttling,
                 \* endPck, speedUp
    NE,          \* the number of end points
    Nodes,       \* the number of nodes of the trace
    XNodes,      \* x_nodes, of the player's grid
    NumCycles,   \* header->num_cycles
    ReadAhead,   \* NT_READ_AHEAD
    L2Latency,   \* L2_LATENCY
    PipeLatency  \* router_pipe_latency

VARIABLES
    trace, mode,
    reader,      \* what netrace.c keeps
    queues,      \* waiting, inject and traverse of each end point
    cycle,       \* nt_cycle, two values of it after NumCycles
    total,       \* nt_total_rd_pck
    readDone,    \* read_done, done in the player
    left,        \* nt_packets_left
    evalNum,     \* the evaluations of a clock edge so far
    wr,          \* pck_injct_in_pck_wr of each injector
    ejected,     \* the packets ejected, in order
    done         \* simulation_done, the end of the loop

vars == <<trace, mode, reader, queues, cycle, total, readDone, left, evalNum, wr,
          ejected, done>>

Pck  == DOMAIN trace

\* The nodes with queues: the end points of the NoC, those of the trace.
Endp == 0 .. (IF mode.standalone THEN Nodes ELSE NE) - 1

-----------------------------------------------------------------------------
(* netrace.c                                                               *)

\* node maps the packets of the dependency array to their reference count
\* and whether they have been read; last is the packet read last, or one
\* more at the end of the file.
NoReader == [node |-> <<>>, last |-> 0, list |-> <<>>, primed |-> FALSE, listed |-> 0]

Node(r, p) == IF p \in DOMAIN r.node THEN r.node[p] ELSE [read |-> FALSE, ref |-> 0]

With(r, p, n) == [r EXCEPT !.node = [q \in DOMAIN @ \cup {p} |-> IF q = p THEN n ELSE @[q]]]

\* nt_remove_dependency_node
Without(r, p) == [r EXCEPT !.node = [q \in DOMAIN @ \ {p} |-> @[q]]]

\* nt_add_cleared_packet_to_list
Listed(r, p) == [r EXCEPT !.list = Append(@, p)]

\* nt_read_packet: tracks the packet and counts a reference to each packet
\* that depends on it.
ReadPacket(r) ==
    LET p == r.last + 1
        Count(a, d) == With(a, d, [Node(a, d) EXCEPT !.ref = @ + 1])
        tracked == [With(r, p, [Node(r, p) EXCEPT !.read = TRUE]) EXCEPT !.last = p]
    IN  IF p > Len(trace) \/ mode.ignore
        THEN [r EXCEPT !.last = IF @ > Len(trace) THEN @ ELSE p]
        ELSE FoldLeft(Count, tracked, trace[p].deps)

Cleared(r, p) == mode.ignore \/ Node(r, p).ref = 0

\* One turn of the loop of nt_read_ahead.
ReadOne(r, i) ==
    LET next == [ReadPacket(r) EXCEPT !.listed = @ + 1]
    IN  IF next.last <= Len(trace) /\ Cleared(next, next.last)
        THEN Listed(next, next.last) ELSE next

LatestCycle(r) == IF r.last = 0 THEN 0 ELSE trace[Min({r.last, Len(trace)})].cycle

\* Mutation: only the packets within the limit are read.
NtReadAheadWithin(r, now) ==
    LET limit == now + ReadAhead
        count == Cardinality({p \in Pck : p > r.last /\ trace[p].cycle <= limit})
    IN  IF mode.endPck = 0 \/ mode.endPck > r.listed
        THEN FoldLeft(ReadOne, r, [i \in 1 .. count |-> i]) ELSE r

\* nt_read_ahead: up to the first packet beyond the limit or the end of the
\* file; the number of packets is only tested once.
NtReadAhead(r, now) ==
    LET limit  == now + ReadAhead
        beyond == {p \in Pck : p > r.last /\ trace[p].cycle > limit} \cup {Len(trace) + 1}
        count  == Min(beyond) - r.last
    IN  IF /\ limit > LatestCycle(r) /\ r.last <= Len(trace)
           /\ mode.endPck = 0 \/ mode.endPck > r.listed
        THEN FoldLeft(ReadOne, r, [i \in 1 .. count |-> i]) ELSE r

\* nt_prime_self_throttle, at the first call of nt_get_cleared_packets_list
Prime(r) ==
    LET first == ReadOne(r, 1)
    IN  NtReadAhead([first EXCEPT !.primed = TRUE], trace[first.last].cycle)

\* Mutation: a packet is released whether it has been read or not.
ClearWithoutTest(r0, p) ==
    LET ahead == IF mode.throttling /\ ~mode.ignore THEN NtReadAhead(r0, trace[p].cycle)
                                                    ELSE r0
        Down(r, d) ==
            LET n == [Node(r, d) EXCEPT !.ref = @ - 1]
            IN  IF n.ref = 0 /\ mode.throttling
                THEN Listed(With(r, d, n), d) ELSE With(r, d, n)
    IN  Without(FoldLeft(Down, ahead, IF mode.ignore THEN <<>> ELSE trace[p].deps), p)

\* nt_clear_dependencies_free_packet
Clear(r0, p) ==
    LET ahead == IF mode.throttling /\ ~mode.ignore THEN NtReadAhead(r0, trace[p].cycle)
                                                    ELSE r0
        Down(r, d) ==
            LET n == [Node(r, d) EXCEPT !.ref = @ - 1]
            IN  IF n.ref = 0 /\ n.read /\ mode.throttling
                THEN Listed(With(r, d, n), d) ELSE With(r, d, n)
    IN  Without(FoldLeft(Down, ahead, IF mode.ignore THEN <<>> ELSE trace[p].deps), p)

-----------------------------------------------------------------------------
(* queue.c.  due is the cycle of an entry relative to the current one; one *)
(* that has passed is -1.                                                  *)

\* queue_push: behind the entries of a lower priority, before its equals.
Push(q, e) == InsertAt(q, Cardinality({i \in DOMAIN q : q[i].due < e.due}) + 1, e)

Aged(q) == [i \in DOMAIN q |-> [q[i] EXCEPT !.due = IF @ > -1 THEN @ - 1 ELSE @]]

AgedAll(Q) == [Q EXCEPT !.inject = [i \in Endp |-> Aged(@[i])],
                        !.waiting = [i \in Endp |-> Aged(@[i])],
                        !.traverse = [i \in Endp |-> Aged(@[i])]]

\* queue_remove
QueueRemove(q, p) == SelectSeq(q, LAMBDA e : e.p # p)

\* traffic_model_mapping
Mapping(n) == IF mode.standalone THEN n
              ELSE IF NE <= Nodes THEN (n * NE) \div Nodes ELSE n

Src(p) == Mapping(trace[p].src)
Dst(p) == Mapping(trace[p].dst)

-----------------------------------------------------------------------------
(* The parts of an evaluation, on s = the reader, the queues and total.    *)

\* A packet is injected in its cycle, or at once if that has passed.
Entry(p) == [p |-> p, due |-> IF trace[p].cycle > cycle THEN trace[p].cycle - cycle ELSE 0]

ToInject(s, p) == [s EXCEPT !.q.inject[Src(p)] = Push(@, Entry(p)), !.total = @ + 1]

GetCleared(s) ==
    LET r == IF s.r.primed THEN s.r ELSE Prime(s.r)
    IN  FoldLeft(ToInject, [s EXCEPT !.r = [r EXCEPT !.list = <<>>]], r.list)

\* The packet read last is the next of the trace.
PlaceAndRead(s, p) ==
    LET placed == IF Cleared(s.r, p) THEN ToInject(s, p)
                  ELSE [s EXCEPT !.q.waiting[Src(p)] = Push(@, Entry(p)), !.total = @ + 1]
    IN  [placed EXCEPT !.r = ReadPacket(@)]

GetDue(s) ==
    LET now == {p \in Pck : p >= s.r.last /\ trace[p].cycle = cycle}
    IN  FoldLeft(PlaceAndRead, s, [i \in 1 .. Cardinality(now) |-> s.r.last + i - 1])

Reading == mode.endPck = 0 \/ mode.endPck > total

GetPackets(s) == IF ~Reading THEN s
                 ELSE IF mode.throttling THEN GetCleared(s) ELSE GetDue(s)

\* The packets at the head of the queues I leave for their end points, to be
\* due there after a delay.
Leave(s, I, delay) ==
    LET first == {Head(s.q.inject[i]).p : i \in I}
        BySrc(p, q) == Src(p) < Src(q)
        Add(q, p) == Push(q, [p |-> p, due |-> delay[p]])
    IN  [s EXCEPT !.q.inject = [i \in Endp |-> IF i \in I THEN Tail(@[i]) ELSE @[i]],
                  !.q.traverse = [d \in Endp |-> FoldLeft(Add, @[d],
                       SetToSortSeq({p \in first : Dst(p) = d}, BySrc))]]

CanInject(s, i) == s.q.inject[i] # <<>> /\ Head(s.q.inject[i]).due <= 0

\* Packet p arrives where it is expected.
Eject(s, p) ==
    [s EXCEPT !.r = Clear(@, p), !.out = Append(@, p),
              !.q.traverse[Dst(p)] = QueueRemove(@, p)]

\* The waiting packets whose dependencies are cleared.
MoveCleared(s) ==
    LET Due(e) == [e EXCEPT !.due = L2Latency]
        Ready(e) == Cleared(s.r, e.p)
    IN  IF mode.throttling THEN s
        ELSE [s EXCEPT
                !.q.inject = [i \in Endp |-> FoldLeft(LAMBDA q, e : Push(q, Due(e)), @[i],
                                                 SelectSeq(s.q.waiting[i], Ready))],
                !.q.waiting = [i \in Endp |-> SelectSeq(@[i], LAMBDA e : ~Ready(e))]]

AnyIn(Q) == \E i \in Endp : Q[i] # <<>>

State == [r |-> reader, q |-> queues, total |-> total, out |-> ejected]

Became(s) ==
    /\ reader' = s.r /\ queues' = AgedAll(s.q) /\ total' = s.total /\ ejected' = s.out
    /\ readDone' = (readDone \/ ~Reading)
    /\ cycle' = IF cycle > NumCycles + 1 THEN NumCycles + 1 ELSE cycle + 1

-----------------------------------------------------------------------------
(* netrace_eval                                                            *)

\* Mutation: tested in the last evaluation of a clock edge.
OverAtLast == (cycle > NumCycles \/ readDone) /\ ~left /\ evalNum = mode.speedUp - 1

Over == (cycle > NumCycles \/ readDone) /\ ~left

\* Only the last evaluation of a clock edge meets the NoC.
EvalAgain ==
    /\ ~mode.standalone /\ ~done /\ evalNum < mode.speedUp - 1
    /\ done' = Over
    /\ Became(GetPackets(State))
    /\ left' = TRUE /\ evalNum' = evalNum + 1
    /\ UNCHANGED <<trace, mode, wr>>

\* The injectors of R are ready; those of which a write was asserted lower it.
Injecting(s, R) == {i \in R : ~wr[i] /\ CanInject(s, i)}

\* The packets of out arrive at their end points.
EvalLast(R, out) ==
    LET got     == GetPackets(State)
        I       == Injecting(got, R)
        sent    == Leave(got, I, [p \in Pck |-> 0])
        arrived == FoldLeft(Eject, sent, out)
    IN  /\ ~mode.standalone /\ ~done /\ evalNum = mode.speedUp - 1
        /\ done' = Over
        /\ wr' = [i \in Endp |-> i \in I]
        /\ left' = (AnyIn(got.q.inject) \/ AnyIn(sent.q.traverse)
                     \/ (~mode.throttling /\ AnyIn(arrived.q.waiting)))
        /\ Became(MoveCleared(arrived))
        /\ evalNum' = 0
        /\ UNCHANGED <<trace, mode>>

\* At most one packet for each end point, of those on their way.
Arrivals ==
    LET onTheWay == UNION {{e.p : e \in Range(queues.traverse[d])} : d \in Endp}
    IN  {SetToSortSeq(S, LAMBDA p, q : Dst(p) < Dst(q)) :
            S \in {T \in SUBSET onTheWay : \A p, q \in T : Dst(p) = Dst(q) => p = q}}

Eval == EvalAgain \/ \E R \in SUBSET Endp, out \in Arrivals : EvalLast(R, out)

-----------------------------------------------------------------------------
(* main of the stand-alone player                                          *)

Abs(n) == IF n < 0 THEN -n ELSE n

calc_packet_timing(p) ==
    LET a == trace[p].src
        b == trace[p].dst
        hops == Abs((a % XNodes) - (b % XNodes)) + Abs((a \div XNodes) - (b \div XNodes))
    IN  PipeLatency * Max({hops, 1})

\* One packet that is due leaves each node, and then one arrives.
PlayerInject(s) ==
    Leave(s, {i \in Endp : CanInject(s, i)}, [p \in Pck |-> calc_packet_timing(p)])

PlayerEject(s) ==
    LET due == {i \in Endp : s.q.traverse[i] # <<>> /\ Head(s.q.traverse[i]).due <= 0}
    IN  FoldLeft(LAMBDA a, i : Eject(a, Head(s.q.traverse[i]).p), s,
                 SetToSortSeq(due, LAMBDA i, j : i < j))

Round ==
    LET got     == GetPackets(State)
        sent    == PlayerInject(got)
        arrived == PlayerEject(sent)
    IN  /\ mode.standalone /\ ~done
        /\ (~readDone /\ cycle <= NumCycles) \/ left
        /\ left' = (AnyIn(got.q.inject) \/ AnyIn(sent.q.traverse)
                     \/ (~mode.throttling /\ AnyIn(arrived.q.waiting)))
        /\ Became(MoveCleared(arrived))
        /\ UNCHANGED <<trace, mode, evalNum, wr, done>>

EndOfLoop ==
    /\ mode.standalone /\ ~done
    /\ (readDone \/ cycle > NumCycles) /\ ~left
    /\ done' = TRUE
    /\ UNCHANGED <<trace, mode, reader, queues, cycle, total, readDone, left, evalNum, wr,
                   ejected>>

-----------------------------------------------------------------------------

\* netrace_init: a reader that does not throttle itself has a packet ready.
Init ==
    /\ trace \in Traces /\ mode \in Modes
    /\ reader = IF mode.throttling THEN NoReader ELSE ReadPacket(NoReader)
    /\ queues = [waiting |-> [i \in Endp |-> <<>>], inject |-> [i \in Endp |-> <<>>],
                 traverse |-> [i \in Endp |-> <<>>]]
    /\ cycle = 0 /\ total = 0 /\ evalNum = 0 /\ ejected = <<>>
    /\ readDone = FALSE /\ left = FALSE /\ done = FALSE
    /\ wr = [i \in Endp |-> FALSE]

Next == Eval \/ Round \/ EndOfLoop

Spec == Init /\ [][Next]_vars

\* An injector is ready again and again while it has a packet to take, and
\* the NoC delivers the packets for an end point.  (Strong fairness, written
\* without ENABLED.)
Arrived(i) == \E n \in Len(ejected) + 1 .. Len(ejected') : Dst(ejected'[n]) = i

NetworkServes ==
    \A i \in 0 .. NE - 1 :
        /\ <>[](queues.inject[i] = <<>>) \/ []<><<wr'[i]>>_vars \/ <>[]mode.standalone
        /\ <>[](queues.traverse[i] = <<>>) \/ []<><<Arrived(i)>>_vars

\* The clock runs until the end.  Every step changes cycle, evalNum or done,
\* so this is WF_vars(Next), in a form in which TLC need not look for the
\* packets that could arrive.
ClockRuns == []<>done \/ []<><<TRUE>>_vars

FairSpec == Spec /\ ClockRuns /\ NetworkServes

-----------------------------------------------------------------------------
(* Properties.                                                             *)

In(Q)       == UNION {{e.p : e \in Range(Q[i])} : i \in Endp}
Before(p)   == {b \in Pck : p \in Range(trace[b].deps)}
Injected    == In(queues.inject) \cup In(queues.traverse) \cup Range(ejected)
Out         == Range(ejected)
HasRead     == {p \in Pck : p <= reader.last}

\* No packet is injected, however far the reader is ahead, before all
\* packets it depends on have been ejected; every packet read is in one
\* place, once; and the reference counts are those of the packets read and
\* not yet ejected, so that no release is lost or comes early.
DependenciesRespected ==
    /\ ~mode.ignore => \A p \in Injected : Before(p) \subseteq Out
    /\ Len(ejected) = Cardinality(Out)
    /\ ~mode.ignore => \A p \in Pck \ Out :
          Node(reader, p).ref = Cardinality((Before(p) \cap HasRead) \ Out)
    /\ \A p \in HasRead :
          Cardinality({w \in {"waiting", "inject", "traverse"} \X Endp \X Pck :
                          LET q == queues[w[1]][w[2]]
                          IN  w[3] \in DOMAIN q /\ q[w[3]].p = p})
          + (IF p \in Range(reader.list) THEN 1 ELSE 0) + (IF p \in Out THEN 1 ELSE 0)
          <= 1

\* The simulation is only over when every packet it was to replay has been
\* ejected: the whole trace, or as many packets as were asked for, and none
\* is left in a queue.
ReplayComplete ==
    done => /\ ~AnyIn(queues.inject) /\ ~AnyIn(queues.traverse) /\ ~AnyIn(queues.waiting)
            /\ IF mode.endPck = 0 THEN Out = Pck
               ELSE Cardinality(Out) >= Min({mode.endPck, Len(trace)})

\* Every replay ends.
ReplayEnds == <>done
=============================================================================
