----------------------------- MODULE SimTraffic -----------------------------
(***************************************************************************)
(* Synthetic traffic in the Verilator simulator (simulator.cpp): what a    *)
(* clock cycle reads from the end points' traffic generators, the counters *)
(* and statistics it keeps, and how it decides that the simulation is      *)
(* complete or stuck.  The generators and the network are the environment: *)
(* a generator queues packets until it is stopped and sends them flit by   *)
(* flit; the network keeps the order of the flits from one end point to    *)
(* another, may hold them for ever, and stalls a packet half sent only     *)
(* while it holds one of its flits.                                        *)
(***************************************************************************)
EXTENDS Integers, Sequences, FiniteSets

CONSTANTS
    NE,           \* the number of end points
    Sizes,        \* the packet sizes in flits
    Latency,      \* bound: the latencies a packet may have
    Multicast,    \* CAST_TYPE is not UNICAST
    EndPck,       \* end_sim_pck_num
    EndClk,       \* sim_end_clk_num
    IdleLimit,    \* NE*10, the cycles without a flit after which it gives up
    FifoNum       \* TIMSTMP_FIFO_NUM, the packets a generator queues

Endp == 0 .. NE - 1

TrafficAssumption ==
    /\ NE \in Nat \ {0} /\ Sizes \subseteq Nat \ {0} /\ Latency \subseteq Nat \ {0}
    /\ {EndPck, EndClk} \subseteq Nat /\ IdleLimit \in Nat \ {0, 1}
    /\ Multicast \in BOOLEAN

VARIABLES
    clk,          \* clk_counter, no further than sim_end_clk_num
    injectDone, simulationDone, failed,
    idle,         \* ideal_rsv_cnt
    total,        \* the total_ counters: sent and received packets and
                  \* flits and the flits expected to be received
    sentStat, rsvdStat, endpToEndp,
    stop, nextPck,         \* what the simulator sets at each generator
    queue, sent,           \* the generator's packets, flits sent of the first
    net                    \* the flits between each two end points

counters == <<clk, injectDone, simulationDone, failed, idle, total>>
stats    == <<sentStat, rsvdStat, endpToEndp>>
network  == <<stop, nextPck, queue, sent, net>>
vars     == <<counters, stats, network>>

-----------------------------------------------------------------------------
(* Statistics.                                                             *)

NoStat == [pck |-> 0, flit |-> 0, worst |-> 0, min |-> 0]

\* worst_latency and min_latency, where a minimum of zero is none yet.
WithLatency(st, l) == [st EXCEPT !.worst = IF @ < l THEN l ELSE @,
                                 !.min = IF @ = 0 \/ @ > l THEN l ELSE @]

UpdateRsvdSt(st, size, l) ==
    WithLatency([st EXCEPT !.pck = @ + 1, !.flit = @ + size], l)

MergeStatistic(a, b) ==
    [pck   |-> a.pck + b.pck, flit |-> a.flit + b.flit,
     worst |-> IF a.worst < b.worst THEN b.worst ELSE a.worst,
     min   |-> IF a.min = 0 \/ (a.min > b.min /\ b.min # 0) THEN b.min
               ELSE a.min]

\* The line "total" of print_statistic_new, for the statistics of each end point.
Merged(st) ==
    LET after[n \in 0 .. NE] ==
            IF n = 0 THEN NoStat ELSE MergeStatistic(after[n - 1], st[n - 1])
    IN  after[NE]

-----------------------------------------------------------------------------
(* Packets and flits.                                                      *)

\* Mutation: only the unicast count is expected, one flit for one flit.
ExpectedOfFlitUnicast(p) == 1

\* mcast_dst_num_o: a multicast flit is received once per destination.
ExpectedOfFlit(p) == IF Multicast THEN Cardinality(p.dst) ELSE 1

\* A counter that each end point adds to, in the order of the loop.
Sum(f) ==
    LET after[n \in 0 .. NE] == IF n = 0 THEN 0 ELSE after[n - 1] + f[n - 1]
    IN  after[NE]

Packets(i) ==
    [dst : IF Multicast THEN (SUBSET Endp) \ {{}} ELSE {{d} : d \in Endp \ {i}},
     size : Sizes]

\* The flit i has put out, if it sends in this cycle.
IsHeader(i) == sent[i] = 0
IsTail(i)   == sent[i] + 1 = Head(queue[i]).size

\* Who may send, and who must: a stall in a packet needs an empty credit
\* counter, and the credits of a full VC return before its last flit arrives.
StaysInNet(i, from) ==
    \E d \in Endp : Len(net[i, d]) > IF d \in DOMAIN from /\ from[d] = i THEN 1 ELSE 0

CanSend        == {i \in Endp : queue[i] # <<>>}
MustSend(from) == {i \in CanSend : sent[i] > 0 /\ ~StaysInNet(i, from)}

-----------------------------------------------------------------------------
(* A clock cycle: S sends a flit, the end points of from receive one from  *)
(* from[i], those of G have queued a packet, new is the next packet of a   *)
(* generator whose header has left, lat the latency of packets received.   *)

Tails(from) == {d \in DOMAIN from : Head(net[from[d], d]).tail}

\* update_traffic_injector_st, the totals.
TotalNext(S, from) ==
    LET headers == {i \in S : IsHeader(i)}
    IN  [sentPck  |-> total.sentPck + Cardinality(headers),
         sentFlit |-> total.sentFlit + Cardinality(S),
         expect   |-> total.expect +
                        Sum([i \in Endp |-> IF i \in S THEN ExpectedOfFlit(Head(queue[i]))
                                                       ELSE 0]),
         rsvPck   |-> total.rsvPck + Cardinality(Tails(from)),
         rsvFlit  |-> total.rsvFlit + Cardinality(DOMAIN from)]

\* update_statistic_at_ejection: the receiver, the sender and the pair.
SizeFrom(from, d) == Head(net[from[d], d]).size

SentStatNext(S, from, lat) ==
    [i \in Endp |->
        LET st == IF \E d \in Tails(from) : from[d] = i
                  THEN WithLatency(sentStat[i], lat) ELSE sentStat[i]
        IN  [st EXCEPT !.flit = @ + (IF i \in S THEN 1 ELSE 0),
                       !.pck = @ + (IF i \in S /\ IsHeader(i) THEN 1 ELSE 0)]]

RsvdStatNext(from, lat) ==
    [d \in Endp |-> IF d \in Tails(from)
                    THEN UpdateRsvdSt(rsvdStat[d], SizeFrom(from, d), lat)
                    ELSE rsvdStat[d]]

EndpToEndpNext(from, lat) ==
    [e \in Endp \X Endp |->
        IF e[2] \in Tails(from) /\ from[e[2]] = e[1]
        THEN UpdateRsvdSt(endpToEndp[e], SizeFrom(from, e[2]), lat)
        ELSE endpToEndp[e]]

\* -t sets it to -1 for synthetic traffic, where no source has a task to end;
\* task traffic counts it down (TaskGraph).  It is unsigned, and only compared with 0.
TotalActiveRouters == -1

\* traffic_clk_posedge_event: the packets sent so far, the time.
InjectDone ==
    total.sentPck >= EndPck \/ clk + 1 >= EndClk \/ TotalActiveRouters = 0

\* Mutation: the count is too narrow for its limit.
IdleNextWraps(rsv) == IF rsv = total.rsvFlit THEN (idle + 1) % IdleLimit ELSE 0

IdleNext(rsv) == IF rsv = total.rsvFlit THEN idle + 1 ELSE 0

Done(t) == t.expect = t.rsvFlit

FinishOrFail(S, from) ==
    LET t == TotalNext(S, from)
    IN  /\ injectDone' = InjectDone
        /\ idle' = IF InjectDone THEN IdleNext(t.rsvFlit) ELSE idle
        /\ failed' = (InjectDone /\ idle' >= IdleLimit)
        /\ simulationDone' = (InjectDone /\ ~failed' /\ Done(t))

\* What the simulator sets at the generators: the next packet once a header
\* has left, stop when pck_dst_gen gives none or injection is done.
SetGenerators(S, new, off) ==
    LET headers == {i \in S : IsHeader(i)}
    IN  /\ nextPck' = [i \in Endp |-> IF i \in headers THEN new[i] ELSE nextPck[i]]
        /\ stop' = [i \in Endp |-> stop[i] \/ i \in off \cap headers \/ InjectDone]

Flits(i, d, S) ==
    IF i \in S /\ d \in Head(queue[i]).dst
    THEN <<[tail |-> IsTail(i), size |-> Head(queue[i]).size]>> ELSE <<>>

Generators(S, from, G) ==
    /\ queue' = [i \in Endp |->
                    (IF i \in S /\ IsTail(i) THEN Tail(queue[i]) ELSE queue[i])
                    \o (IF i \in G THEN <<nextPck[i]>> ELSE <<>>)]
    /\ sent' = [i \in Endp |-> IF i \notin S THEN sent[i]
                               ELSE IF IsTail(i) THEN 0 ELSE sent[i] + 1]
    /\ net' = [e \in Endp \X Endp |->
                  (IF e[2] \in DOMAIN from /\ from[e[2]] = e[1]
                   THEN Tail(net[e]) ELSE net[e]) \o Flits(e[1], e[2], S)]

Arrivals ==
    UNION {{f \in [D -> Endp] : \A d \in D : net[f[d], d] # <<>>} : D \in SUBSET Endp}

Cycle(S, from, G, new, off, lat) ==
    /\ ~simulationDone /\ ~failed
    /\ MustSend(from) \subseteq S
    /\ G \subseteq {i \in Endp : ~stop[i] /\ Len(queue[i]) < FifoNum}
    /\ clk' = IF clk < EndClk THEN clk + 1 ELSE clk
    /\ total' = TotalNext(S, from)
    /\ sentStat' = SentStatNext(S, from, lat)
    /\ rsvdStat' = RsvdStatNext(from, lat)
    /\ endpToEndp' = EndpToEndpNext(from, lat)
    /\ FinishOrFail(S, from)
    /\ SetGenerators(S, new, off)
    /\ Generators(S, from, G)

-----------------------------------------------------------------------------

\* reset_all_register and traffic_gen_init.
Init ==
    /\ clk = 0 /\ idle = 0
    /\ injectDone = FALSE /\ simulationDone = FALSE /\ failed = FALSE
    /\ total = [sentPck |-> 0, sentFlit |-> 0, expect |-> 0, rsvPck |-> 0,
                rsvFlit |-> 0]
    /\ sentStat = [i \in Endp |-> NoStat] /\ rsvdStat = [i \in Endp |-> NoStat]
    /\ endpToEndp = [e \in Endp \X Endp |-> NoStat]
    /\ nextPck \in {f \in [Endp -> UNION {Packets(i) : i \in Endp}] :
                        \A i \in Endp : f[i] \in Packets(i)}
    /\ stop \in [Endp -> BOOLEAN]
    /\ queue = [i \in Endp |-> <<>>] /\ sent = [i \in Endp |-> 0]
    /\ net = [e \in Endp \X Endp |-> <<>>]

\* Only the generators whose header leaves take a new packet.
NewPackets(S) ==
    {f \in [{i \in S : IsHeader(i)} -> UNION {Packets(i) : i \in Endp}] :
        \A i \in DOMAIN f : f[i] \in Packets(i)}

Next ==
    \E S \in SUBSET CanSend, from \in Arrivals, G \in SUBSET Endp, lat \in Latency :
        \E new \in NewPackets(S), off \in SUBSET S :
            Cycle(S, from, G, new, off, lat)

Spec == Init /\ [][Next]_vars

\* The simulated clock runs until the end; the network need not deliver
\* anything.  A cycle always changes clk, idle or the flits received, so this is
\* WF_vars(Next), in a form in which TLC need not look for the cycle's
\* parameters to check it.
ClockRuns == []<><<TRUE>>_vars \/ <>(simulationDone \/ failed)

FairSpec == Spec /\ ClockRuns

-----------------------------------------------------------------------------
(* Properties.                                                             *)

\* What one end point has received of the others, and the others of it.
FromAll(d) == [s \in Endp |-> endpToEndp[s, d]]
ToAll(s)   == [d \in Endp |-> endpToEndp[s, d]]

\* The statistics of a receiver are those of its pairs, at any time.  The
\* final report is complete: when the simulation is declared done, no packet
\* is in the network or half sent, whatever was sent is received by each of
\* its destinations, and the statistics per sender, per receiver and per pair
\* agree with each other and with the totals.  The error that the numbers of
\* flits differ is only reported when they do.
ReportComplete ==
    /\ \A d \in Endp : rsvdStat[d] = Merged(FromAll(d))
    /\ \A e \in Endp \X Endp : endpToEndp[e].pck > 0 => endpToEndp[e].min \in Latency
    /\ simulationDone =>
        /\ \A e \in Endp \X Endp : net[e] = <<>>
        /\ \A i \in Endp : sent[i] = 0
        /\ Multicast \/ \A s \in Endp :
              /\ sentStat[s].pck  = Merged(ToAll(s)).pck
              /\ sentStat[s].flit = Merged(ToAll(s)).flit
        /\ Merged(rsvdStat).flit = total.expect
        /\ Merged(rsvdStat).pck = total.rsvPck
        /\ Merged(sentStat).flit = total.sentFlit
        /\ Merged(sentStat).min = Merged(rsvdStat).min
    /\ failed => total.expect # total.rsvFlit

\* The simulation ends, with a report or with the error, even when the
\* network stops delivering.
SimulationEnds == <>(simulationDone \/ failed)
=============================================================================
