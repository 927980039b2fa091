---------------------------- MODULE SynfullModel ----------------------------
(***************************************************************************)
(* The SynFull traffic generator: a Markov model starts cache coherence    *)
(* transactions, and every packet that arrives makes the receiving node    *)
(* queue the answers of the protocol.  This module holds the state and the *)
(* steps shared by the library linked into the simulator                   *)
(* (ProNoC_Tgen.cpp, module Synfull) and by the stand-alone generator on a *)
(* socket (TrafficGenerator.cpp, module SynfullSocket).                    *)
(*                                                                         *)
(* The probabilities of the model file are abstracted to choices: any      *)
(* source, destination, forwarding decision and number of invalidates.     *)
(***************************************************************************)
EXTENDS Integers, Sequences, FiniteSets, Selection

CONSTANTS Nodes,        \* even nodes are caches, odd ones directories
          HierClasses,  \* classes of the hierarchical Markov chain
          Classes,      \* classes of the Markov chain inside one of them
          Volumes,      \* Volumes[h][c]: lists of the operations a class starts in an interval
          NumInvs,      \* numbers of invalidates the model file allows
          TimeSpan, Resolution,      \* lengths of a hierarchical and of an inner interval
          MemDelay,     \* cycles a memory access takes (80 in the code)
          NumCycles,    \* the simulated cycles the steady-state test compares with
          MaxClk, MaxPck, Limited,   \* limits of injection, which only the library has
          SsExit,       \* stop when the model is in its steady state
          Horizon       \* bound: the last cycle told apart from the later ones

VARIABLES cycle, nextInterval, nextHinterval, hierClass, state, steadyExit,
          injectionDone, totalQueued,
          messageId,    \* the next packet number
          inTransit,    \* packets given to the network, by number
          transactions, \* open transactions, by the number of their first packet
          queue         \* PacketQueue: the packets to send, by cycle

modelVars == <<cycle, nextInterval, nextHinterval, hierClass, state, steadyExit,
               injectionDone, totalQueued, messageId, inTransit, transactions, queue>>

Caches      == {n \in Nodes : n % 2 = 0}
Directories == Nodes \ Caches
Times       == 0 .. Horizon + MemDelay + Resolution
Operations  == {"READ", "WRITE", "PUTC", "PUTD"}  \* what a class may start
NoAddress   == -1

\* A volume only starts transactions.
ModelAssumption ==
  /\ IsFiniteSet(Nodes) /\ Nodes \subseteq Nat /\ NumInvs \subseteq Nat
  /\ {Resolution, Horizon, MaxPck} \subseteq Nat /\ MemDelay \in Nat \ {0}
  /\ \A h \in HierClasses \cup {1}, c \in Classes \cup {1} :
       \A v \in Volumes[h][c] : v \in Seq(Operations)

transaction_t(s, d) == [source |-> s, dest |-> d, invs |-> 0, acks |-> 0,
                        data |-> FALSE, unblock |-> FALSE]

Completed(t) == t.invs = t.acks /\ t.data /\ t.unblock

Packet(s, d, msg, co, time, addr) ==
  [source |-> s, dest |-> d, msg |-> msg, co |-> co, time |-> time, address |-> addr]

ModelInit ==
  /\ cycle = 0 /\ nextInterval = 0 /\ nextHinterval = 0
  /\ hierClass = 1 /\ state = 1
  /\ steadyExit = FALSE /\ injectionDone = FALSE
  /\ totalQueued = 0 /\ messageId = 0
  /\ inTransit = <<>> /\ transactions = <<>>
  /\ queue = [t \in Times |-> <<>>]
-----------------------------------------------------------------------------
(* Packets the limits still let in: none after the last cycle or the steady *)
(* exit, and at most MaxPck over the whole simulation.                      *)
Room(n) == IF ~Limited THEN n
           ELSE IF cycle > MaxClk \/ steadyExit THEN 0
           ELSE IF MaxPck - totalQueued < n THEN MaxPck - totalQueued ELSE n

Enqueue(ps) ==
  [t \in Times |-> queue[t] \o Select(ps, LAMBDA p : p.time = t)]

(* QueuePacket for each packet of ps in turn; what is over a limit is dropped. *)
QueuePackets(ps) ==
  LET room == Room(Len(ps)) IN
  /\ queue' = Enqueue(SubSeq(ps, 1, room))
  /\ totalQueued' = totalQueued + room
  /\ injectionDone' = (injectionDone \/ room < Len(ps))

(* calculate_mse compares the observed share of each class with the model  *)
(* file's: close is its verdict.                                           *)
InHSteadyState(close) ==
  \/ close /\ 10 * cycle > 3 * NumCycles
  \/ 10 * cycle > 7 * NumCycles

(* Start of a hierarchical interval: the chain moves and state restarts. *)
HierInterval ==
  IF cycle >= nextHinterval
  THEN /\ nextHinterval' = nextHinterval + TimeSpan
       /\ IF cycle = 0 THEN UNCHANGED <<hierClass, state>>
                       ELSE hierClass' \in HierClasses /\ state' = 1
       /\ \E close \in BOOLEAN :
            steadyExit' = (steadyExit \/ (SsExit /\ InHSteadyState(close)))
  ELSE UNCHANGED <<nextHinterval, hierClass, state, steadyExit>>

Deltas == {2 * k : k \in 0 .. (Resolution \div 2) - 1}

(* UniformInject: each operation of the volume gets a cycle of the interval, *)
(* a cache it starts at and the directory of its line.                       *)
UniformInject(v) ==
  \E delta \in [DOMAIN v -> Deltas], src \in [DOMAIN v -> Caches],
     dst \in [DOMAIN v -> Directories] :
    QueuePackets([i \in DOMAIN v |->
      Packet(src[i], dst[i], "REQUEST", v[i], cycle + delta[i], NoAddress)])

(* Start of an inner interval: the chain moves, the class sets the volume. *)
Interval ==
  IF cycle >= nextInterval
  THEN /\ nextInterval' = nextInterval + Resolution
       /\ IF cycle = 0 THEN UNCHANGED state ELSE state' \in Classes
       /\ \E v \in Volumes[hierClass][state'] : UniformInject(v)
  ELSE UNCHANGED <<nextInterval, state, queue, totalQueued, injectionDone>>

(* sendPacket for each packet of this cycle: it gets the next number, and a *)
(* request without address opens the transaction of that number.            *)
Sent == [i \in DOMAIN queue[cycle] |->
           LET p == queue[cycle][i]
               n == messageId + i - 1
           IN  [id |-> n, source |-> p.source, dest |-> p.dest, msg |-> p.msg, co |-> p.co,
                address |-> IF p.address = NoAddress THEN n ELSE p.address]]

sendPackets ==
  LET opened == {i \in DOMAIN Sent : Sent[i].address = Sent[i].id} IN
  /\ inTransit' = [n \in DOMAIN inTransit \cup {Sent[i].id : i \in DOMAIN Sent} |->
                     IF n < messageId THEN inTransit[n] ELSE Sent[n - messageId + 1]]
  /\ transactions' = [a \in DOMAIN transactions \cup {Sent[i].id : i \in opened} |->
                        IF a < messageId THEN transactions[a]
                        ELSE LET p == Sent[a - messageId + 1]
                             IN  transaction_t(p.source, p.dest)]
  /\ messageId' = messageId + Len(Sent)
  /\ queue' = [queue EXCEPT ![cycle] = <<>>]
-----------------------------------------------------------------------------
(* What a packet r makes the node it reached send, and its transaction.    *)

Without(f, a) == [x \in DOMAIN f \ {a} |-> f[x]]

(* The transaction a of a reply becomes t, or is erased when t is complete. *)
Record(a, t) ==
  transactions' = IF Completed(t) THEN Without(transactions, a)
                                  ELSE [transactions EXCEPT ![a] = t]

Initiating(r) == r.msg = "REQUEST" /\ r.co \in {"READ", "WRITE"} /\ r.address = r.id
Forwarded(r)  == r.msg = "REQUEST" /\ r.co \in {"READ", "WRITE"} /\ r.address # r.id

Reply(r, to, co) == Packet(r.dest, to, "RESPONSE", co, cycle + 1, r.address)
Request(r, to, co) == Packet(r.dest, to, "REQUEST", co, cycle + 1, r.address)

(* The directory reads memory and answers with the data. *)
AccessMemory(r) ==
  /\ QueuePackets(<<Packet(r.dest, r.source, "RESPONSE", "DATA", cycle + MemDelay, r.address)>>)
  /\ UNCHANGED transactions

(* Mutation: the owner is left out of the invalidates but counted among them. *)
InvSetsSharers(n, owner) == {s \in SUBSET (Caches \ {owner}) : Cardinality(s) = n - 1}

(* The sets of n caches the loop over the invalidate distribution can end  *)
(* with: it starts from the owner the request is forwarded to.             *)
InvSets(n, owner) == {s \in SUBSET Caches : owner \in s /\ Cardinality(s) = n}

(* The directory forwards the request to the owner and, for a write,       *)
(* invalidates the sharers; every invalidate counts as sent, queued or not. *)
ForwardRequest(r) ==
  \E owner \in Caches :
    \/ /\ r.co = "READ"
       /\ QueuePackets(<<Request(r, owner, r.co)>>)
       /\ UNCHANGED transactions
    \/ /\ r.co = "WRITE"
       /\ \E n \in NumInvs :
          \E s \in IF n = 0 THEN {{}} ELSE InvSets(n, owner) :
            LET inv == InOrder(s) IN
            /\ QueuePackets(<<Request(r, owner, r.co)>> \o
                            [i \in DOMAIN inv |-> Request(r, inv[i], "INV")])
            /\ transactions' = [transactions EXCEPT ![r.address].invs = @ + n]

(* The other packets; none of them returns early, so each ends with the    *)
(* test for a complete transaction.                                        *)
Respond(r) ==
  LET t == transactions[r.address] IN
  CASE Forwarded(r) ->
         QueuePackets(<<Reply(r, t.source, "DATA")>>) /\ Record(r.address, t)
    [] r.co \in {"PUTC", "PUTD"} ->
         QueuePackets(<<Reply(r, r.source, "WB_ACK")>>) /\ Record(r.address, t)
    [] r.co = "INV" ->
         QueuePackets(<<Reply(r, t.source, "ACK")>>) /\ Record(r.address, t)
    [] r.co = "DATA" ->
         /\ QueuePackets(<<Packet(t.source, t.dest, "RESPONSE", "UNBLOCK",
                                  cycle + 1, r.address)>>)
         /\ Record(r.address, [t EXCEPT !.data = TRUE])
    [] r.co = "ACK" -> QueuePackets(<<>>) /\ Record(r.address, [t EXCEPT !.acks = @ + 1])
    [] r.co = "UNBLOCK" -> QueuePackets(<<>>) /\ Record(r.address, [t EXCEPT !.unblock = TRUE])
    [] OTHER -> QueuePackets(<<>>) /\ Record(r.address, t)

(* react: the packet leaves inTransit, and the protocol answers it. *)
react(id) ==
  LET r == inTransit[id] IN
  /\ inTransit' = Without(inTransit, id)
  /\ IF Initiating(r) THEN AccessMemory(r) \/ ForwardRequest(r) ELSE Respond(r)
-----------------------------------------------------------------------------
(* The protocol's messages under way: packets waiting for their cycle and  *)
(* packets in the network.                                                 *)
Waiting == UNION {{t} \X DOMAIN queue[t] : t \in Times}
UnderWay(a, cos) ==
  Cardinality({w \in Waiting : queue[w[1]][w[2]].address = a /\ queue[w[1]][w[2]].co \in cos})
  + Cardinality({n \in DOMAIN inTransit : inTransit[n].address = a /\ inTransit[n].co \in cos})

(* react dereferences the transaction of a packet without testing that it  *)
(* exists: no message under way may outlive its transaction.               *)
TransactionOfMessage ==
  /\ \A n \in DOMAIN inTransit : inTransit[n].address \in DOMAIN transactions
  /\ \A w \in Waiting : queue[w[1]][w[2]].address \in DOMAIN transactions \cup {NoAddress}

(* The acknowledgements a transaction still waits for are the invalidates  *)
(* and acknowledgements under way, unless the limits have dropped some.    *)
AcksMatchInvs ==
  \A a \in DOMAIN transactions :
    LET open == transactions[a].invs - transactions[a].acks IN
    /\ UnderWay(a, {"INV", "ACK"}) <= open
    /\ ~injectionDone => UnderWay(a, {"INV", "ACK"}) = open
=============================================================================
