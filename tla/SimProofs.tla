----------------------------- MODULE SimProofs ------------------------------
(***************************************************************************)
(* Threads.  The threads of the simulator execute what one thread would,   *)
(* for any number of threads, routers, end points and links.  A node       *)
(* belongs to one thread, so the executions an item still has to come      *)
(* (zero or one) are those its owner still owes it; the flags keep the     *)
(* stages apart.                                                           *)
(* Traffic.  The report of a simulation is complete, for any setting of    *)
(* the traffic.  Books of each two end points say how many flits and       *)
(* packets went between them: what the statistic of the pair has counted,  *)
(* and what is in the network or still to come of a packet half sent.      *)
(* Every counter of the simulator is a sum over these books; when the      *)
(* flits expected are those received, the books hold nothing but the       *)
(* statistics.                                                             *)
(***************************************************************************)
EXTENDS MCSimulator, FiniteSetTheorems, SequenceTheorems, WellFoundedInduction, TLAPS

-----------------------------------------------------------------------------
(* The division of the nodes.                                              *)

LEMMA TimesMonotone ==
  ASSUME NEW a \in Int, NEW b \in Int, NEW q \in Nat, a <= b
  PROVE  a * q <= b * q
  <1>1. (b - a) * q >= 0
    OBVIOUS
  <1>2. (b - a) * q = b * q - a * q
    OBVIOUS
  <1> QED BY <1>1, <1>2

\* Enough nodes per thread: the shares of all threads cover the nodes.
LEMMA ShareIsEnough ==
  ASSUME NEW count \in Nat \ {0}
  PROVE  /\ PerThread(count) \in Nat \ {0}
         /\ count <= ThreadNum * PerThread(count)
  <1> DEFINE q == count \div ThreadNum
             r == count % ThreadNum
  <1>1. ThreadNum \in Nat /\ ThreadNum >= 2
    BY SimAssumption
  <1>2. q \in Nat /\ r \in 0 .. ThreadNum - 1 /\ count = ThreadNum * q + r
    BY <1>1
  <1>3. PerThread(count) = IF r # 0 THEN q + 1 ELSE q
    BY DEF PerThread
  <1> HIDE DEF q, r
  <1>4. ThreadNum * (q + 1) = ThreadNum * q + ThreadNum
    BY <1>1, <1>2
  <1>5. r = 0 => q # 0
    BY <1>1, <1>2
  <1> QED BY <1>1, <1>2, <1>3, <1>4, <1>5

\* The nodes of thread n.
Between(n, x, count) == First(n, count) <= x /\ x < First(n + 1, count)

LEMMA OneThreadPerNode ==
  ASSUME NEW count \in Nat \ {0}, NEW x \in 0 .. count - 1
  PROVE  /\ \E n \in Thread : Between(n, x, count)
         /\ \A n, m \in Thread :
               Between(n, x, count) /\ Between(m, x, count) => n = m
  <1> DEFINE q == PerThread(count)
             d == x \div q
             r == x % q
  <1>1. q \in Nat \ {0} /\ count <= ThreadNum * q /\ ThreadNum \in Nat
    BY ShareIsEnough, SimAssumption
  <1> HIDE DEF q
  <1>2. d \in Int /\ r \in 0 .. q - 1 /\ x = q * d + r
    BY <1>1
  <1>x. x \in Nat /\ x < count
    OBVIOUS
  <1> HIDE DEF d, r
  <1>3. d \in Nat /\ d * q <= x /\ x < (d + 1) * q
    <2>1. d * q = q * d /\ (d + 1) * q = q * d + q
      BY <1>1, <1>2
    <2>2. d * q <= x /\ x < (d + 1) * q
      BY <1>1, <1>2, <1>x, <2>1
    <2>3. ~(d + 1 <= 0)
      <3> SUFFICES ASSUME d + 1 <= 0 PROVE FALSE
        OBVIOUS
      <3>1. (d + 1) * q <= 0 * q
        BY <1>1, <1>2, TimesMonotone
      <3> QED BY <1>1, <1>2, <1>x, <2>2, <3>1
    <2> QED BY <1>2, <2>2, <2>3
  <1>4. d < ThreadNum
    <2> SUFFICES ASSUME ThreadNum <= d PROVE FALSE
      BY <1>1, <1>2
    <2>1. ThreadNum * q <= d * q
      BY <1>1, <1>2, TimesMonotone
    <2> QED BY <1>1, <1>2, <1>3, <1>x, <2>1
  <1>5. \E n \in Thread : Between(n, x, count)
    BY <1>1, <1>2, <1>3, <1>4 DEF Between, First, Thread, q
  <1>6. ASSUME NEW n \in Thread, NEW m \in Thread, n < m,
               Between(n, x, count), Between(m, x, count)
        PROVE  FALSE
    <2>1. x < (n + 1) * q /\ m * q <= x
      BY <1>6 DEF Between, First, q
    <2>2. (n + 1) * q <= m * q
      BY <1>1, <1>6, TimesMonotone DEF Thread
    <2> QED BY <1>1, <2>1, <2>2 DEF Thread
  <1>7. ASSUME NEW n \in Thread, NEW m \in Thread,
               Between(n, x, count), Between(m, x, count)
        PROVE  n = m
    <2>1. ~(n < m) /\ ~(m < n)
      BY <1>6, <1>7
    <2> QED BY <1>1, <2>1 DEF Thread
  <1> QED BY <1>5, <1>7

LEMMA ChunkNodes ==
  ASSUME NEW count \in Nat \ {0}, NEW n \in Thread
  PROVE  /\ Chunk(n, count) \in Seq(0 .. count - 1)
         /\ Range(Chunk(n, count)) = {x \in 0 .. count - 1 : Between(n, x, count)}
         /\ IsInjective(Chunk(n, count))
  <1> DEFINE q == PerThread(count)
             f == First(n, count)
             l == IF f >= count THEN 0 ELSE IF count - f < q THEN count - f ELSE q
             c == Chunk(n, count)
  <1>1. q \in Nat \ {0} /\ n \in Nat
    BY ShareIsEnough, SimAssumption DEF Thread
  <1>2. c = [i \in 1 .. l |-> f + i - 1]
    BY DEF Chunk
  <1>3. f = n * q /\ First(n + 1, count) = f + q
    <2>1. (n + 1) * PerThread(count) = n * PerThread(count) + PerThread(count)
      BY <1>1
    <2> QED BY <2>1 DEF First
  <1> HIDE DEF q, c
  <1>4. f \in Nat
    BY <1>1, <1>3
  <1> HIDE DEF f
  <1>5. l \in Nat /\ \A i \in 1 .. l : f + i - 1 \in 0 .. count - 1
    BY <1>1, <1>4
  <1>6. \A x \in 0 .. count - 1 :
           f <= x /\ x < f + q <=> \E i \in 1 .. l : x = f + i - 1
    <2> SUFFICES ASSUME NEW x \in 0 .. count - 1
                 PROVE  f <= x /\ x < f + q <=> \E i \in 1 .. l : x = f + i - 1
      OBVIOUS
    <2>1. ASSUME NEW i \in 1 .. l, x = f + i - 1
          PROVE  f <= x /\ x < f + q
      BY <1>1, <1>4, <2>1
    <2>2. ASSUME f <= x, x < f + q
          PROVE  x - f + 1 \in 1 .. l /\ x = f + (x - f + 1) - 1
      BY <1>1, <1>4, <2>2
    <2> QED BY <2>1, <2>2
  <1> HIDE DEF l
  <1>7. c \in Seq(0 .. count - 1)
    BY <1>2, <1>5
  <1>8. Range(c) = {x \in 0 .. count - 1 : \E i \in 1 .. l : x = f + i - 1}
    BY <1>2, <1>5 DEF Range
  <1>9. IsInjective(c)
    BY <1>2, <1>4, <1>5 DEF IsInjective
  <1>10. \A x \in 0 .. count - 1 : Between(n, x, count) <=> f <= x /\ x < f + q
    BY <1>3 DEF Between, f
  <1>11. Range(c) = {x \in 0 .. count - 1 : Between(n, x, count)}
    BY <1>6, <1>8, <1>10
  <1> QED BY <1>7, <1>9, <1>11 DEF c

-----------------------------------------------------------------------------
(* The items of a stage and their owners.                                  *)

Kind == {"router", "endp", "link"}

LEMMA TaggedSequence ==
  ASSUME NEW kind \in Kind, NEW s \in Seq(Nat), IsInjective(s)
  PROVE  /\ Tagged(kind, s) \in Seq(Kind \X Nat)
         /\ IsInjective(Tagged(kind, s))
         /\ Range(Tagged(kind, s)) = {kind} \X Range(s)
  <1>1. Tagged(kind, s) = [i \in 1 .. Len(s) |-> <<kind, s[i]>>]
    BY DEF Tagged
  <1>2. Len(s) \in Nat /\ DOMAIN s = 1 .. Len(s) /\ \A i \in 1 .. Len(s) : s[i] \in Nat
    OBVIOUS
  <1>3. Tagged(kind, s) \in Seq(Kind \X Nat)
    BY <1>1, <1>2
  <1>4. IsInjective(Tagged(kind, s))
    BY <1>1, <1>2 DEF IsInjective
  <1>5. Range(Tagged(kind, s)) = {kind} \X Range(s)
    BY <1>1, <1>2 DEF Range
  <1> QED BY <1>3, <1>4, <1>5

LEMMA DisjointConcat ==
  ASSUME NEW S, NEW s \in Seq(S), NEW t \in Seq(S), IsInjective(s), IsInjective(t),
         Range(s) \cap Range(t) = {}
  PROVE  /\ s \o t \in Seq(S)
         /\ IsInjective(s \o t)
         /\ Range(s \o t) = Range(s) \cup Range(t)
  <1> DEFINE u == s \o t
  <1>1. u \in Seq(S) /\ Len(u) = Len(s) + Len(t) /\ Len(s) \in Nat /\ Len(t) \in Nat
    OBVIOUS
  <1>2. /\ DOMAIN u = 1 .. Len(u) /\ DOMAIN s = 1 .. Len(s) /\ DOMAIN t = 1 .. Len(t)
        /\ \A i \in 1 .. Len(s) : u[i] = s[i]
        /\ \A i \in 1 .. Len(t) : u[Len(s) + i] = t[i]
        /\ \A i \in 1 .. Len(u) : i \notin 1 .. Len(s) =>
              i - Len(s) \in 1 .. Len(t) /\ u[i] = t[i - Len(s)]
    OBVIOUS
  <1> HIDE DEF u
  <1>3. Range(u) = Range(s) \cup Range(t)
    <2>1. ASSUME NEW x \in Range(u) PROVE x \in Range(s) \cup Range(t)
      BY <1>1, <1>2 DEF Range
    <2>2. ASSUME NEW x \in Range(s) PROVE x \in Range(u)
      BY <1>1, <1>2 DEF Range
    <2>3. ASSUME NEW x \in Range(t) PROVE x \in Range(u)
      <3>1. PICK i \in 1 .. Len(t) : x = t[i]
        BY <1>2 DEF Range
      <3>2. Len(s) + i \in DOMAIN u /\ u[Len(s) + i] = x
        BY <1>1, <1>2, <3>1
      <3> QED BY <3>2 DEF Range
    <2> QED BY <2>1, <2>2, <2>3
  <1>4. ASSUME NEW i \in DOMAIN u, NEW j \in DOMAIN u, u[i] = u[j]
        PROVE  i = j
    <2>1. \A a \in 1 .. Len(s), b \in 1 .. Len(t) : s[a] # t[b]
      BY <1>2 DEF Range
    <2>2. i \in 1 .. Len(s) <=> j \in 1 .. Len(s)
      BY <1>2, <1>4, <2>1
    <2>3. CASE i \in 1 .. Len(s)
      BY <1>2, <1>4, <2>2, <2>3 DEF IsInjective
    <2>4. CASE i \notin 1 .. Len(s)
      <3>1. i - Len(s) = j - Len(s)
        BY <1>2, <1>4, <2>2, <2>4 DEF IsInjective
      <3> QED BY <1>1, <1>2, <3>1
    <2> QED BY <2>3, <2>4
  <1> QED BY <1>1, <1>3, <1>4 DEF IsInjective, u

\* Whether thread n is the one an item belongs to.
Mine(n, i) ==
    /\ i[1] = "router" => Between(n, i[2], NR)
    /\ i[1] = "endp" => Between(n, i[2], NE)
    /\ i[1] = "link" => Between(n, R2r[i[2]], NR)

LEMMA WorkOfThread ==
  ASSUME NEW f \in Flag, NEW n \in Thread
  PROVE  /\ Work(f, n) \in Seq(Kind \X Nat)
         /\ IsInjective(Work(f, n))
         /\ \A i : i \in Range(Work(f, n)) /\ Executes(n, i)
                   <=> i \in Items[f] /\ Mine(n, i)
  <1> DEFINE routers == Chunk(n, NR)
             endps   == Chunk(n, NE)
             links   == [i \in 1 .. Len(R2r) |-> i]
  <1>1. /\ routers \in Seq(Nat) /\ IsInjective(routers)
        /\ Range(routers) = {x \in Router : Between(n, x, NR)}
    BY ChunkNodes, SimAssumption DEF Router
  <1>2. /\ endps \in Seq(Nat) /\ IsInjective(endps)
        /\ Range(endps) = {x \in Endp : Between(n, x, NE)}
    BY ChunkNodes, SimAssumption DEF Endp
  <1>3. /\ links \in Seq(Nat) /\ IsInjective(links)
        /\ Range(links) = DOMAIN R2r
    <2>1. Len(R2r) \in Nat /\ DOMAIN R2r = 1 .. Len(R2r)
      BY SimAssumption
    <2>2. DOMAIN links = 1 .. Len(R2r) /\ \A i \in 1 .. Len(R2r) : links[i] = i
      OBVIOUS
    <2>3. links \in Seq(Nat)
      BY <2>1
    <2> HIDE DEF links
    <2>4. IsInjective(links)
      BY <2>2 DEF IsInjective
    <2>5. Range(links) = DOMAIN R2r
      BY <2>1, <2>2 DEF Range
    <2> QED BY <2>3, <2>4, <2>5
  <1>4. \A i : i[1] = "link" => (Executes(n, i) <=> Between(n, R2r[i[2]], NR))
    BY DEF Executes, Between, First
  <1>5. \A i : i[1] # "link" => Executes(n, i)
    BY DEF Executes
  <1> HIDE DEF routers, endps, links
  <1> DEFINE R == Tagged("router", routers)
             E == Tagged("endp", endps)
             L == Tagged("link", links)
  <1>6. /\ R \in Seq(Kind \X Nat) /\ IsInjective(R)
        /\ Range(R) = {"router"} \X Range(routers)
    BY <1>1, TaggedSequence DEF Kind
  <1>7. /\ E \in Seq(Kind \X Nat) /\ IsInjective(E)
        /\ Range(E) = {"endp"} \X Range(endps)
    BY <1>2, TaggedSequence DEF Kind
  <1>8. /\ L \in Seq(Kind \X Nat) /\ IsInjective(L)
        /\ Range(L) = {"link"} \X Range(links)
    BY <1>3, TaggedSequence DEF Kind
  <1>9. CASE f = "eval"
    <2>1. Work(f, n) = R \o E /\ Items[f] = ({"router"} \X Router) \cup ({"endp"} \X Endp)
      BY <1>9 DEF Work, Items, Flag, routers, endps
    <2> HIDE DEF R, E, L
    <2>2. /\ R \o E \in Seq(Kind \X Nat) /\ IsInjective(R \o E)
          /\ Range(R \o E) = Range(R) \cup Range(E)
      BY <1>6, <1>7, DisjointConcat
    <2>3. \A i : i \in Range(R) \cup Range(E) <=> i \in Items[f] /\ Mine(n, i)
      BY <1>1, <1>2, <1>6, <1>7, <2>1 DEF Mine
    <2>4. \A i \in Range(R) \cup Range(E) : Executes(n, i)
      BY <1>5, <1>6, <1>7
    <2> QED BY <2>1, <2>2, <2>3, <2>4
  <1>10. CASE f = "copy"
    <2>1. Work(f, n) = L \o E /\ Items[f] = ({"link"} \X DOMAIN R2r) \cup ({"endp"} \X Endp)
      BY <1>10 DEF Work, Items, Flag, links, endps
    <2> HIDE DEF R, E, L
    <2>2. /\ L \o E \in Seq(Kind \X Nat) /\ IsInjective(L \o E)
          /\ Range(L \o E) = Range(L) \cup Range(E)
      BY <1>7, <1>8, DisjointConcat
    <2>3. \A i : i \in Range(L) /\ Executes(n, i)
                 <=> i \in {"link"} \X DOMAIN R2r /\ Mine(n, i)
      BY <1>3, <1>4, <1>8 DEF Mine
    <2>4. \A i : i \in Range(E) <=> i \in {"endp"} \X Endp /\ Mine(n, i)
      BY <1>2, <1>7 DEF Mine
    <2>5. \A i \in Range(E) : Executes(n, i)
      BY <1>5, <1>7
    <2> QED BY <2>1, <2>2, <2>3, <2>4, <2>5
  <1>11. CASE f = "update"
    <2>1. Work(f, n) = R /\ Items[f] = {"router"} \X Router
      BY <1>11 DEF Work, Items, Flag, routers
    <2>2. \A i : i \in Range(R) <=> i \in Items[f] /\ Mine(n, i)
      BY <1>1, <1>6, <2>1 DEF Mine
    <2>3. \A i \in Range(R) : Executes(n, i)
      BY <1>5, <1>6
    <2> QED BY <1>6, <2>1, <2>2, <2>3
  <1> QED BY <1>9, <1>10, <1>11 DEF Flag

\* Every item of a stage belongs to exactly one thread.
LEMMA OneOwner ==
  ASSUME NEW f \in Flag
  PROVE  /\ \A n \in Thread : Share[f][n] = {i \in Items[f] : Mine(n, i)}
         /\ \A i \in Items[f] : \E n \in Thread : Mine(n, i)
         /\ \A i \in Items[f], n, m \in Thread : Mine(n, i) /\ Mine(m, i) => n = m
  <1>1. \A n \in Thread : Share[f][n] = {i \in Items[f] : Mine(n, i)}
    <2> SUFFICES ASSUME NEW n \in Thread
                 PROVE  Share[f][n] = {i \in Items[f] : Mine(n, i)}
      OBVIOUS
    <2>1. Share[f][n] = {i \in Range(Work(f, n)) : Executes(n, i)}
      BY DEF Share
    <2> QED BY <2>1, WorkOfThread
  <1>2. \A x \in Router : /\ \E n \in Thread : Between(n, x, NR)
                          /\ \A n, m \in Thread :
                                Between(n, x, NR) /\ Between(m, x, NR) => n = m
    BY OneThreadPerNode, SimAssumption DEF Router
  <1>3. \A x \in Endp : /\ \E n \in Thread : Between(n, x, NE)
                        /\ \A n, m \in Thread :
                              Between(n, x, NE) /\ Between(m, x, NE) => n = m
    BY OneThreadPerNode, SimAssumption DEF Endp
  <1>4. \A x \in DOMAIN R2r : R2r[x] \in Router
    BY SimAssumption DEF Router
  <1>5. ASSUME NEW i \in Items[f]
        PROVE  \/ i[1] = "router" /\ i[2] \in Router
               \/ i[1] = "endp" /\ i[2] \in Endp
               \/ i[1] = "link" /\ i[2] \in DOMAIN R2r
    BY DEF Items, Flag
  <1>6. ASSUME NEW i \in Items[f] PROVE \E n \in Thread : Mine(n, i)
    BY <1>2, <1>3, <1>4, <1>5 DEF Mine
  <1>7. ASSUME NEW i \in Items[f], NEW n \in Thread, NEW m \in Thread,
               Mine(n, i), Mine(m, i)
        PROVE  n = m
    BY <1>2, <1>3, <1>4, <1>5, <1>7 DEF Mine
  <1> QED BY <1>1, <1>6, <1>7

-----------------------------------------------------------------------------
(* The inductive invariant.                                                *)

\* Main raises flags in the parallel stages only, and runs thread 0's
\* function only within its call.
Calls ==
    /\ pc = "raise" /\ Stage \notin Flag => k = 0
    /\ pc # "raise" => Stage \in Flag
    /\ pc = "call" => k = 0
    /\ pc # "call" => tpc[0] = "off"

\* A thread at work has items of its share left, each of them once.
Todo ==
    /\ todo \in [Thread -> Seq(Kind \X Nat)]
    /\ \A n \in Thread :
          busy[n] => /\ Stage \in Flag
                     /\ Range(todo[n]) \subseteq Range(Work(Stage, n))
                     /\ IsInjective(todo[n])

IInv == TypeOK /\ FlagOfStageOnly /\ Barrier /\ Calls /\ Todo

LEMMA ScheduleRuns ==
  /\ Len(Schedule) \in Nat /\ Len(Schedule) >= 9
  /\ \A p \in 1 .. Len(Schedule) : (p % Len(Schedule)) + 1 \in 1 .. Len(Schedule)
  <1>1. DOMAIN Schedule = 1 .. 3 * (SmartMax + 3) /\ SmartMax \in Nat
    BY SimAssumption DEF Schedule
  <1>2. Schedule \in Seq({PosedgeStages[i] : i \in 1 .. 3} \cup {NegedgeStages[i] : i \in 1 .. 3})
    BY SimAssumption DEF Schedule
  <1>3. Len(Schedule) = 3 * (SmartMax + 3)
    BY <1>1, <1>2
  <1>4. Len(Schedule) \in Nat /\ Len(Schedule) >= 9
    BY <1>1, <1>3
  <1> QED BY <1>4

LEMMA InitInv == Init => IInv
  <1> SUFFICES ASSUME Init PROVE IInv
    OBVIOUS
  <1>1. TypeOK
    BY ScheduleRuns, SimAssumption DEF Init, TypeOK, Thread
  <1>2. FlagOfStageOnly /\ Barrier
    BY DEF Init, FlagOfStageOnly, Barrier
  <1>3. Calls
    BY SimAssumption DEF Init, Calls, Thread
  <1>4. Todo
    BY DEF Init, Todo
  <1> QED BY <1>1, <1>2, <1>3, <1>4 DEF IInv

LEMMA AwakeInv ==
  ASSUME IInv, NEW n \in Thread, Awake(n)
  PROVE  IInv'
  <1>1. Stage' = Stage
    BY DEF Awake, Stage
  <1>2. tpc' = [tpc EXCEPT ![n] = "eval"] /\ tpc[n] = "spin"
        /\ UNCHANGED <<pos, pc, k, flag, busy, todo>>
    BY DEF Awake
  <1>3. TypeOK'
    BY <1>2 DEF IInv, TypeOK, Flag
  <1>4. FlagOfStageOnly'
    BY <1>1, <1>2 DEF IInv, FlagOfStageOnly
  <1>5. Barrier'
    BY <1>1, <1>2 DEF IInv, TypeOK, Barrier, Todo, Flag
  <1>6. Calls'
    BY <1>1, <1>2 DEF IInv, TypeOK, Calls
  <1>7. Todo'
    BY <1>1, <1>2 DEF IInv, Todo
  <1> QED BY <1>3, <1>4, <1>5, <1>6, <1>7 DEF IInv

LEMMA TestInv ==
  ASSUME IInv, NEW n \in Thread, Test(n)
  PROVE  IInv'
  <1>1. Stage' = Stage
    BY DEF Test, Stage
  <1>2. UNCHANGED <<pos, pc, k, flag>> /\ tpc[n] \in Flag /\ ~busy[n]
    BY DEF Test
  <1>3. Calls'
    <2>1. tpc[n] # "off"
      BY <1>2 DEF Flag
    <2>2. n = 0 => pc = "call"
      BY <2>1 DEF IInv, Calls
    <2>3. n # 0 => tpc'[0] = tpc[0]
      BY SimAssumption DEF Test, IInv, TypeOK, Thread
    <2> QED BY <1>1, <1>2, <2>2, <2>3 DEF IInv, Calls
  <1>4. FlagOfStageOnly'
    BY <1>1, <1>2 DEF IInv, FlagOfStageOnly
  <1>5. CASE flag[n][tpc[n]]
    <2>1. /\ busy' = [busy EXCEPT ![n] = TRUE] /\ tpc' = tpc
          /\ todo' = [todo EXCEPT ![n] = Work(tpc[n], n)]
      BY <1>5 DEF Test
    <2>2. tpc[n] = Stage
      BY <1>2, <1>5 DEF IInv, FlagOfStageOnly
    <2>3. TypeOK'
      BY <1>2, <2>1 DEF IInv, TypeOK
    <2>4. Barrier'
      BY <1>1, <1>2, <1>5, <2>1, <2>2 DEF IInv, TypeOK, Barrier
    <2>5. Work(tpc[n], n) \in Seq(Kind \X Nat) /\ IsInjective(Work(tpc[n], n))
      BY <1>2, WorkOfThread
    <2>6. Todo'
      BY <1>1, <1>2, <2>1, <2>2, <2>5 DEF IInv, TypeOK, Todo
    <2> QED BY <1>3, <1>4, <2>3, <2>4, <2>6 DEF IInv
  <1>6. CASE ~flag[n][tpc[n]]
    <2>1. tpc' = [tpc EXCEPT ![n] = Pass(n, tpc[n])] /\ busy' = busy /\ todo' = todo
      BY <1>6 DEF Test
    <2>2. Pass(n, tpc[n]) \in Flag \cup {"spin", "off"}
      BY <1>2 DEF Pass, AfterTest, Flag
    <2>3. TypeOK'
      BY <1>2, <2>1, <2>2 DEF IInv, TypeOK
    <2>4. Barrier'
      BY <1>1, <1>2, <2>1 DEF IInv, TypeOK, Barrier
    <2>5. Todo'
      BY <1>1, <2>1 DEF IInv, Todo
    <2> QED BY <1>3, <1>4, <2>3, <2>4, <2>5 DEF IInv
  <1> QED BY <1>5, <1>6

LEMMA TailOfInjective ==
  ASSUME NEW S, NEW s \in Seq(S), s # <<>>, IsInjective(s)
  PROVE  /\ Tail(s) \in Seq(S) /\ IsInjective(Tail(s)) /\ Head(s) \in Range(s)
         /\ Range(Tail(s)) = Range(s) \ {Head(s)}
  <1>1. /\ Tail(s) \in Seq(S) /\ Len(Tail(s)) = Len(s) - 1
        /\ Len(s) \in Nat /\ Len(s) >= 1
        /\ DOMAIN s = 1 .. Len(s) /\ DOMAIN Tail(s) = 1 .. Len(s) - 1
        /\ Head(s) = s[1]
    BY EmptySeq
  <1>2. \A i \in 1 .. Len(s) - 1 : Tail(s)[i] = s[i + 1]
    BY <1>1
  <1> DEFINE t == Tail(s)
             h == Head(s)
  <1> HIDE DEF t, h
  <1>3. IsInjective(t)
    BY <1>1, <1>2 DEF IsInjective, t
  <1>4. h \in Range(s)
    BY <1>1 DEF Range, h
  <1>5. ASSUME NEW x \in Range(t) PROVE x \in Range(s) \ {h}
    <2>1. PICK i \in 1 .. Len(s) - 1 : x = s[i + 1]
      BY <1>1, <1>2 DEF Range, t
    <2>2. i + 1 \in DOMAIN s /\ 1 \in DOMAIN s /\ i + 1 # 1
      BY <1>1
    <2> QED BY <1>1, <2>1, <2>2 DEF Range, IsInjective, h
  <1>6. ASSUME NEW x \in Range(s) \ {h} PROVE x \in Range(t)
    <2>1. PICK i \in 1 .. Len(s) : x = s[i]
      BY <1>1 DEF Range
    <2>2. i - 1 \in 1 .. Len(s) - 1 /\ x = t[i - 1]
      BY <1>1, <1>2, <2>1 DEF h, t
    <2> QED BY <1>1, <2>2 DEF Range, t
  <1> QED BY <1>1, <1>3, <1>4, <1>5, <1>6 DEF t, h

LEMMA DoItemInv ==
  ASSUME IInv, NEW n \in Thread, DoItem(n)
  PROVE  IInv'
  <1>1. Stage' = Stage
    BY DEF DoItem, Stage
  <1>2. /\ busy[n] /\ todo[n] # <<>> /\ todo' = [todo EXCEPT ![n] = Tail(todo[n])]
        /\ UNCHANGED <<pos, pc, k, flag, tpc, busy>>
    BY DEF DoItem, IInv, Todo
  <1>3. TypeOK'
    BY <1>2 DEF IInv, TypeOK
  <1>4. FlagOfStageOnly' /\ Calls'
    BY <1>1, <1>2 DEF IInv, FlagOfStageOnly, Calls
  <1>5. Barrier'
    BY <1>1, <1>2 DEF IInv, Barrier
  <1>6. /\ Tail(todo[n]) \in Seq(Kind \X Nat) /\ IsInjective(Tail(todo[n]))
        /\ Range(Tail(todo[n])) \subseteq Range(Work(Stage, n))
    BY <1>2, TailOfInjective DEF IInv, Todo
  <1>7. Todo'
    BY <1>1, <1>2, <1>6 DEF IInv, Todo
  <1> QED BY <1>3, <1>4, <1>5, <1>7 DEF IInv

LEMMA LowerInv ==
  ASSUME IInv, NEW n \in Thread, Lower(n)
  PROVE  IInv'
  <1>1. Stage' = Stage
    BY DEF Lower, Stage
  <1>2. /\ busy[n] /\ todo[n] = <<>> /\ UNCHANGED <<pos, pc, k, todo>>
        /\ flag' = [flag EXCEPT ![n][tpc[n]] = FALSE]
        /\ busy' = [busy EXCEPT ![n] = FALSE]
        /\ tpc' = [tpc EXCEPT ![n] = Pass(n, tpc[n])]
    BY DEF Lower
  <1>3. tpc[n] = Stage /\ Stage \in Flag
    BY <1>2 DEF IInv, Barrier, Todo
  <1>4. Pass(n, tpc[n]) \in Flag \cup {"spin", "off"}
    BY <1>3 DEF Pass, AfterTest, Flag
  <1>5. TypeOK'
    BY <1>2, <1>3, <1>4 DEF IInv, TypeOK
  <1>6. FlagOfStageOnly'
    BY <1>1, <1>2 DEF IInv, TypeOK, FlagOfStageOnly
  <1>7. Barrier'
    BY <1>1, <1>2 DEF IInv, TypeOK, Barrier
  <1>8. Calls'
    <2>1. n = 0 => pc = "call"
      BY <1>3 DEF IInv, Calls, Flag
    <2>2. n # 0 => tpc'[0] = tpc[0]
      BY <1>2 DEF IInv, TypeOK
    <2> QED BY <1>1, <1>2, <2>1, <2>2 DEF IInv, Calls
  <1>9. Todo'
    BY <1>1, <1>2 DEF IInv, TypeOK, Todo
  <1> QED BY <1>5, <1>6, <1>7, <1>8, <1>9 DEF IInv

LEMMA SequentialInv == IInv /\ Sequential => IInv'
  <1> SUFFICES ASSUME IInv, Sequential PROVE IInv'
    OBVIOUS
  <1>1. /\ pc = "raise" /\ Stage \notin Flag /\ pos' = (pos % Len(Schedule)) + 1
        /\ UNCHANGED <<pc, k, flag, tpc, busy, todo>>
    BY DEF Sequential, Advance
  <1>2. pos' \in 1 .. Len(Schedule) /\ k = 0
    BY <1>1, ScheduleRuns DEF IInv, TypeOK, Calls
  <1>3. \A n \in Thread : ~busy[n]
    BY <1>1 DEF IInv, Todo
  <1>4. \A n \in Thread, f \in Flag : ~flag[n][f]
    BY <1>1 DEF IInv, FlagOfStageOnly
  <1>5. TypeOK'
    BY <1>1, <1>2 DEF IInv, TypeOK
  <1>6. FlagOfStageOnly' /\ Barrier'
    BY <1>1, <1>3, <1>4 DEF FlagOfStageOnly, Barrier
  <1>7. Calls'
    BY <1>1, <1>2 DEF IInv, Calls
  <1>8. Todo'
    BY <1>1, <1>3 DEF IInv, Todo
  <1> QED BY <1>5, <1>6, <1>7, <1>8 DEF IInv

LEMMA RaiseInv == IInv /\ Raise => IInv'
  <1> SUFFICES ASSUME IInv, Raise PROVE IInv'
    OBVIOUS
  <1>1. /\ pc = "raise" /\ Stage \in Flag /\ Stage' = Stage
        /\ flag' = [flag EXCEPT ![k][Stage] = TRUE]
        /\ UNCHANGED <<pos, busy, todo>>
    BY DEF Raise, Stage
  <1>2. \/ /\ k = ThreadNum - 1 /\ pc' = "call" /\ k' = 0
           /\ tpc' = [tpc EXCEPT ![0] = "spin"]
        \/ k # ThreadNum - 1 /\ k' = k + 1 /\ pc' = pc /\ tpc' = tpc
    BY DEF Raise
  <1>3. k \in Thread /\ ThreadNum \in Nat /\ 0 \in Thread
    BY SimAssumption DEF IInv, TypeOK, Thread
  <1>4. k' \in Thread /\ pc' \in {"raise", "call", "join"}
    BY <1>1, <1>2, <1>3 DEF Thread
  <1>5. ~flag[0][Stage] \/ k # 0
    BY <1>1, <1>3 DEF IInv, FlagOfStageOnly, Thread
  <1>6. TypeOK'
    BY <1>1, <1>2, <1>3, <1>4 DEF IInv, TypeOK
  <1>7. FlagOfStageOnly'
    BY <1>1, <1>2, <1>3 DEF IInv, TypeOK, FlagOfStageOnly, Thread
  <1>8. ASSUME NEW n \in Thread, busy[n]
        PROVE  tpc'[n] = Stage /\ flag'[n][Stage]
    <2>1. tpc[n] = Stage /\ flag[n][Stage]
      BY <1>8 DEF IInv, Barrier
    <2>2. flag'[n][Stage]
      BY <1>1, <1>3, <2>1 DEF IInv, TypeOK
    <2>3. n # 0
      BY <1>1, <2>1 DEF IInv, Calls, Flag
    <2> QED BY <1>2, <2>1, <2>2, <2>3 DEF IInv, TypeOK
  <1>9. Barrier'
    BY <1>1, <1>8 DEF Barrier
  <1>10. Calls' /\ Todo'
    BY <1>1, <1>2 DEF IInv, Calls, Todo
  <1> QED BY <1>6, <1>7, <1>9, <1>10 DEF IInv

LEMMA ReturnInv == IInv /\ Return => IInv'
  <1> SUFFICES ASSUME IInv, Return PROVE IInv'
    OBVIOUS
  <1>1. /\ pc = "call" /\ pc' = "join" /\ Stage' = Stage
        /\ UNCHANGED <<pos, k, flag, tpc, busy, todo>>
    BY DEF Return, Stage
  <1>2. k = 0
    BY <1>1 DEF IInv, Calls
  <1>3. TypeOK' /\ Calls'
    BY <1>1, <1>2 DEF Return, IInv, TypeOK, Calls
  <1>4. FlagOfStageOnly'
    BY <1>1, <1>2, SimAssumption DEF IInv, FlagOfStageOnly, Thread
  <1>5. Barrier' /\ Todo'
    BY <1>1 DEF IInv, Barrier, Todo
  <1> QED BY <1>3, <1>4, <1>5 DEF IInv

LEMMA JoinInv == IInv /\ Join => IInv'
  <1> SUFFICES ASSUME IInv, Join PROVE IInv'
    OBVIOUS
  <1>1. pc = "join" /\ ~flag[k][Stage] /\ UNCHANGED <<flag, tpc, busy, todo>>
    BY DEF Join
  <1>2. k \in Thread /\ ThreadNum \in Nat /\ 0 \in Thread /\ Stage \in Flag
    BY <1>1, SimAssumption DEF IInv, TypeOK, Calls, Thread
  <1>3. CASE k = ThreadNum - 1
    <2>1. pc' = "raise" /\ k' = 0 /\ pos' = (pos % Len(Schedule)) + 1
      BY <1>3 DEF Join, Advance
    <2>2. pos' \in 1 .. Len(Schedule)
      BY <2>1, ScheduleRuns DEF IInv, TypeOK
    <2>3. \A n \in Thread, f \in Flag : ~flag[n][f]
      BY <1>1, <1>2, <1>3 DEF IInv, FlagOfStageOnly, Thread
    <2>4. \A n \in Thread : ~busy[n]
      BY <1>2, <2>3 DEF IInv, Barrier
    <2>5. TypeOK'
      BY <1>1, <1>2, <2>1, <2>2 DEF IInv, TypeOK
    <2>6. FlagOfStageOnly' /\ Barrier'
      BY <1>1, <2>3, <2>4 DEF FlagOfStageOnly, Barrier
    <2>7. Calls'
      BY <1>1, <2>1 DEF IInv, Calls
    <2>8. Todo'
      BY <1>1, <2>4 DEF IInv, Todo
    <2> QED BY <2>5, <2>6, <2>7, <2>8 DEF IInv
  <1>4. CASE k # ThreadNum - 1
    <2>1. pc' = pc /\ k' = k + 1 /\ pos' = pos /\ Stage' = Stage
      BY <1>4 DEF Join, Stage
    <2>2. k' \in Thread
      BY <1>2, <1>4, <2>1 DEF Thread
    <2>3. TypeOK'
      BY <1>1, <2>1, <2>2 DEF IInv, TypeOK
    <2>4. FlagOfStageOnly'
      BY <1>1, <1>2, <2>1 DEF IInv, FlagOfStageOnly, Thread
    <2>5. Barrier' /\ Todo'
      BY <1>1, <2>1 DEF IInv, Barrier, Todo
    <2>6. Calls'
      BY <1>1, <1>2, <2>1 DEF IInv, Calls
    <2> QED BY <2>3, <2>4, <2>5, <2>6 DEF IInv
  <1> QED BY <1>3, <1>4

LEMMA StepInv == IInv /\ [Next]_vars => IInv'
  <1>1. IInv /\ MainStep => IInv'
    BY SequentialInv, RaiseInv, ReturnInv, JoinInv DEF MainStep
  <1>2. ASSUME IInv, NEW n \in Thread, ThreadStep(n) PROVE IInv'
    BY <1>2, AwakeInv, TestInv, DoItemInv, LowerInv DEF ThreadStep
  <1>3. IInv /\ UNCHANGED vars => IInv'
    <2> SUFFICES ASSUME IInv, UNCHANGED vars PROVE IInv'
      OBVIOUS
    <2>1. UNCHANGED <<pos, pc, k, flag, tpc, busy, todo>> /\ Stage' = Stage
      BY DEF vars, Stage
    <2>2. TypeOK' /\ FlagOfStageOnly'
      BY <2>1 DEF IInv, TypeOK, FlagOfStageOnly
    <2>3. Barrier' /\ Calls' /\ Todo'
      BY <2>1 DEF IInv, Barrier, Calls, Todo
    <2> QED BY <2>2, <2>3 DEF IInv
  <1> QED BY <1>1, <1>2, <1>3 DEF Next

\* For any threads, nodes and links: a flag is up, and a thread at work, only
\* in the stage that main waits for.
THEOREM StagesApart == Spec => [](TypeOK /\ FlagOfStageOnly /\ Barrier)
  <1>1. IInv => TypeOK /\ FlagOfStageOnly /\ Barrier
    BY DEF IInv
  <1> QED BY <1>1, InitInv, StepInv, PTL DEF Spec

-----------------------------------------------------------------------------
(* What the threads owe.                                                   *)

LEMMA PendingIsOwn ==
  ASSUME IInv, InStage, NEW n \in Thread, NEW i, Pending(n, i)
  PROVE  i \in Items[Stage] /\ Mine(n, i)
  <1>1. Stage \in Flag
    BY DEF InStage
  <1>2. CASE busy[n] /\ flag[n][Stage]
    <2>1. Executes(n, i) /\ i \in Range(todo[n])
      BY <1>2 DEF Pending, Range
    <2>2. i \in Range(Work(Stage, n))
      BY <1>2, <2>1 DEF IInv, Todo
    <2> QED BY <1>1, <2>1, <2>2, WorkOfThread
  <1>3. CASE ~(busy[n] /\ flag[n][Stage])
    BY <1>1, <1>3, OneOwner DEF Pending
  <1> QED BY <1>2, <1>3

\* Nobody else owes what its owner owes.
LEMMA OneOwes ==
  ASSUME IInv, InStage, NEW i, NEW n \in Thread, Pending(n, i)
  PROVE  Owing(i) = {n} /\ i \in Item
  <1>1. Stage \in Flag
    BY DEF InStage
  <1>2. i \in Items[Stage] /\ Mine(n, i)
    BY PendingIsOwn
  <1>3. \A m \in Thread : Pending(m, i) => Mine(m, i)
    BY PendingIsOwn
  <1>4. \A m \in Thread : Pending(m, i) => m = n
    BY <1>1, <1>2, <1>3, OneOwner
  <1> QED BY <1>1, <1>2, <1>4 DEF Owing, Item

\* One execution is to come, or none.
OneOrNone ==
    \A i \in Item :
        Left[i] = IF InStage /\ \E n \in Thread : Pending(n, i) THEN 1 ELSE 0

LEMMA LeftIsOneOrNone == IInv => OneOrNone
  <1> SUFFICES ASSUME IInv, NEW i \in Item
               PROVE  Left[i] = IF InStage /\ \E n \in Thread : Pending(n, i)
                                THEN 1 ELSE 0
    BY DEF OneOrNone
  <1>1. Left[i] = IF InStage THEN Cardinality(Owing(i)) ELSE 0
    BY DEF Left
  <1>2. CASE InStage /\ \E n \in Thread : Pending(n, i)
    <2>1. PICK n \in Thread : Pending(n, i)
      BY <1>2
    <2>2. Owing(i) = {n}
      BY <1>2, <2>1, OneOwes
    <2> QED BY <1>1, <1>2, <2>2, FS_Singleton
  <1>3. CASE ~\E n \in Thread : Pending(n, i)
    <2>1. Owing(i) = {}
      BY <1>3 DEF Owing
    <2> QED BY <1>1, <1>3, <2>1, FS_EmptySet
  <1>4. CASE ~InStage
    BY <1>1, <1>4
  <1> QED BY <1>2, <1>3, <1>4

LEMMA LeftNext == IInv' => OneOrNone'
  BY LeftIsOneOrNone, PTL

-----------------------------------------------------------------------------
(* The steps of the threads, as the stages see them.                       *)

Unseen == pos' = pos /\ (InStage' <=> InStage) /\ Left' = Left

LEMMA NothingOwedAnew ==
  ASSUME InStage' <=> InStage,
         \A i, n : n \in Thread => (Pending(n, i)' <=> Pending(n, i))
  PROVE  Left' = Left
  <1>1. \A i : Owing(i)' = Owing(i)
    BY DEF Owing
  <1> QED BY <1>1 DEF Left

LEMMA AwakeUnseen ==
  ASSUME IInv, NEW n \in Thread, Awake(n)
  PROVE  Unseen
  <1>1. UNCHANGED <<pos, pc, k, flag, busy, todo>> /\ Stage' = Stage
    BY DEF Awake, Stage
  <1>2. InStage' <=> InStage
    BY <1>1 DEF InStage
  <1>3. \A i, m : m \in Thread => (Pending(m, i)' <=> Pending(m, i))
    BY <1>1 DEF Pending
  <1> QED BY <1>1, <1>2, <1>3, NothingOwedAnew DEF Unseen

LEMMA TestUnseen ==
  ASSUME IInv, NEW n \in Thread, Test(n)
  PROVE  Unseen
  <1>1. UNCHANGED <<pos, pc, k, flag>> /\ Stage' = Stage /\ ~busy[n] /\ tpc[n] \in Flag
    BY DEF Test, Stage
  <1>2. InStage' <=> InStage
    BY <1>1 DEF InStage
  <1>3. ASSUME NEW i, NEW m \in Thread PROVE Pending(m, i)' <=> Pending(m, i)
    <2>1. CASE flag[n][tpc[n]] /\ m = n
      <3>1. /\ busy'[n] /\ todo'[n] = Work(tpc[n], n) /\ tpc[n] = Stage
        BY <1>1, <2>1 DEF Test, IInv, TypeOK, Todo, FlagOfStageOnly
      <3>2. Pending(n, i) <=> i \in Share[Stage][n]
        BY <1>1, <2>1, <3>1 DEF Pending
      <3>3. i \in Share[Stage][n] <=> i \in Range(Work(Stage, n)) /\ Executes(n, i)
        BY <1>1, <3>1 DEF Share
      <3>4. Pending(n, i)' <=> Executes(n, i) /\ i \in Range(Work(Stage, n))
        BY <1>1, <2>1, <3>1 DEF Pending, Range
      <3> QED BY <2>1, <3>2, <3>3, <3>4
    <2>2. CASE ~(flag[n][tpc[n]] /\ m = n)
      <3>1. busy'[m] = busy[m] /\ todo'[m] = todo[m]
        BY <1>1, <2>2 DEF Test, IInv, TypeOK, Todo
      <3> QED BY <1>1, <3>1 DEF Pending
    <2> QED BY <2>1, <2>2
  <1> QED BY <1>1, <1>2, <1>3, NothingOwedAnew DEF Unseen

LEMMA LowerUnseen ==
  ASSUME IInv, NEW n \in Thread, Lower(n)
  PROVE  Unseen
  <1>1. /\ busy[n] /\ todo[n] = <<>> /\ UNCHANGED <<pos, pc, k, todo>> /\ Stage' = Stage
        /\ flag' = [flag EXCEPT ![n][tpc[n]] = FALSE]
        /\ busy' = [busy EXCEPT ![n] = FALSE]
    BY DEF Lower, Stage
  <1>2. tpc[n] = Stage /\ Stage \in Flag /\ flag[n][Stage] /\ (pc = "raise" => n < k)
    BY <1>1 DEF IInv, Barrier, Todo, FlagOfStageOnly
  <1>3. InStage' <=> InStage
    BY <1>1 DEF InStage
  <1>4. ASSUME NEW i, NEW m \in Thread PROVE Pending(m, i)' <=> Pending(m, i)
    <2>1. CASE m = n
      <3>1. ~Pending(n, i)
        BY <1>1, <1>2 DEF Pending
      <3>2. ~flag'[n][Stage] /\ ~busy'[n]
        BY <1>1, <1>2 DEF IInv, TypeOK
      <3>3. k \in Nat /\ n \in Nat
        BY SimAssumption DEF IInv, TypeOK, Thread
      <3>4. ~Pending(n, i)'
        BY <1>1, <1>2, <3>2, <3>3 DEF Pending
      <3> QED BY <2>1, <3>1, <3>4
    <2>2. CASE m # n
      <3>1. flag'[m] = flag[m] /\ busy'[m] = busy[m]
        BY <1>1, <2>2 DEF IInv, TypeOK
      <3> QED BY <1>1, <3>1 DEF Pending
    <2> QED BY <2>1, <2>2
  <1> QED BY <1>1, <1>3, <1>4, NothingOwedAnew DEF Unseen

LEMMA ReturnUnseen ==
  ASSUME IInv, Return
  PROVE  Unseen
  <1>1. pc = "call" /\ pc' = "join" /\ UNCHANGED <<pos, k, flag, busy, todo>>
        /\ Stage' = Stage
    BY DEF Return, Stage
  <1>2. InStage' <=> InStage
    BY <1>1 DEF InStage
  <1>3. \A i, m : m \in Thread => (Pending(m, i)' <=> Pending(m, i))
    BY <1>1 DEF Pending
  <1> QED BY <1>1, <1>2, <1>3, NothingOwedAnew DEF Unseen

LEMMA JoinUnseen ==
  ASSUME IInv, Join, k # ThreadNum - 1
  PROVE  Unseen
  <1>1. pc = "join" /\ UNCHANGED <<pos, pc, flag, busy, todo>> /\ Stage' = Stage
    BY DEF Join, Stage
  <1>2. InStage' <=> InStage
    BY <1>1 DEF InStage
  <1>3. \A i, m : m \in Thread => (Pending(m, i)' <=> Pending(m, i))
    BY <1>1 DEF Pending
  <1> QED BY <1>1, <1>2, <1>3, NothingOwedAnew DEF Unseen

\* A flag raised after the first only says what its thread owed already.
LEMMA RaiseUnseen ==
  ASSUME IInv, Raise, k # 0
  PROVE  Unseen
  <1>1. /\ pc = "raise" /\ Stage \in Flag /\ Stage' = Stage
        /\ flag' = [flag EXCEPT ![k][Stage] = TRUE]
        /\ UNCHANGED <<pos, busy, todo>>
    BY DEF Raise, Stage
  <1>2. \/ k = ThreadNum - 1 /\ pc' = "call" /\ k' = 0
        \/ k # ThreadNum - 1 /\ k' = k + 1 /\ pc' = "raise"
    BY <1>1 DEF Raise
  <1>3. k \in Thread /\ ThreadNum \in Nat
    BY SimAssumption DEF IInv, TypeOK, Thread
  <1>4. InStage /\ InStage'
    BY <1>1, <1>2, <1>3 DEF InStage, Thread
  <1>5. ASSUME NEW i, NEW m \in Thread PROVE Pending(m, i)' <=> Pending(m, i)
    <2>1. CASE m = k
      <3>1. ~flag[k][Stage]
        BY <1>1, <1>3 DEF IInv, FlagOfStageOnly, Thread
      <3>2. ~busy[k]
        BY <1>3, <3>1 DEF IInv, Barrier
      <3>3. flag'[k][Stage]
        BY <1>1, <1>3 DEF IInv, TypeOK
      <3>4. Pending(k, i) <=> i \in Share[Stage][k]
        BY <1>1, <1>3, <3>2 DEF Pending, Thread
      <3>5. Pending(m, i)' <=> i \in Share[Stage][m]
        BY <1>1, <2>1, <3>2, <3>3 DEF Pending
      <3> QED BY <2>1, <3>4, <3>5
    <2>2. CASE m # k
      <3>1. flag'[m] = flag[m] /\ busy'[m] = busy[m] /\ todo'[m] = todo[m]
        BY <1>1, <2>2 DEF IInv, TypeOK
      <3>2. pc' = "raise" /\ m >= k' <=> m >= k
        BY <1>2, <1>3, <2>2 DEF Thread
      <3> QED BY <1>1, <3>1, <3>2 DEF Pending
    <2> QED BY <2>1, <2>2
  <1> QED BY <1>1, <1>4, <1>5, NothingOwedAnew DEF Unseen

\* Raising the first flag begins the stage: every item is owed by its owner.
LEMMA FirstRaiseBegins ==
  ASSUME IInv, IInv', Raise, k = 0
  PROVE  /\ Stage \in Flag /\ pos' = pos /\ ~InStage /\ InStage'
         /\ Left' = [i \in Item |-> IF i \in Items[Stage] THEN 1 ELSE 0]
  <1>1. /\ pc = "raise" /\ Stage \in Flag /\ Stage' = Stage
        /\ flag' = [flag EXCEPT ![k][Stage] = TRUE]
        /\ UNCHANGED <<pos, busy, todo>>
    BY DEF Raise, Stage
  <1>2. ThreadNum \in Nat /\ ThreadNum >= 2 /\ 0 \in Thread
    BY SimAssumption DEF Thread
  <1>3. k' = 1 /\ pc' = "raise"
    BY <1>1, <1>2 DEF Raise
  <1>4. ~InStage /\ InStage'
    BY <1>1, <1>3 DEF InStage
  <1>5. \A n \in Thread : ~flag[n][Stage] /\ ~busy[n]
    BY <1>1, <1>2 DEF IInv, FlagOfStageOnly, Barrier, Thread
  <1>6. ASSUME NEW n \in Thread, NEW i
        PROVE  Pending(n, i)' <=> i \in Items[Stage] /\ Mine(n, i)
    <2>1. flag'[n][Stage] \/ n >= k'
      BY <1>1, <1>2, <1>3 DEF IInv, TypeOK, Thread
    <2>2. Pending(n, i)' <=> i \in Share[Stage][n]
      BY <1>1, <1>3, <1>5, <2>1 DEF Pending
    <2> QED BY <1>1, <2>2, OneOwner
  <1>7. ASSUME NEW i \in Item
        PROVE  Left'[i] = IF i \in Items[Stage] THEN 1 ELSE 0
    <2>1. OneOrNone'
      BY LeftNext
    <2>2. Left'[i] = IF \E n \in Thread : Pending(n, i)' THEN 1 ELSE 0
      BY <1>4, <2>1 DEF OneOrNone
    <2>3. i \in Items[Stage] => \E n \in Thread : Mine(n, i)
      BY <1>1, OneOwner
    <2> QED BY <1>6, <2>2, <2>3
  <1>8. Left' = [i \in Item |-> Left'[i]]
    BY DEF Left
  <1> QED BY <1>1, <1>4, <1>7, <1>8

\* No flag is up when main has found the last one down: the stage is complete.
LEMMA LastJoinEnds ==
  ASSUME IInv, Join, k = ThreadNum - 1
  PROVE  /\ InStage /\ ~InStage'
         /\ Left = [i \in Item |-> 0] /\ Left' = Left
         /\ pos' = (pos % Len(Schedule)) + 1
  <1>1. /\ pc = "join" /\ ~flag[k][Stage] /\ Stage \in Flag
        /\ pc' = "raise" /\ k' = 0 /\ pos' = (pos % Len(Schedule)) + 1
    BY DEF Join, Advance, IInv, Calls
  <1>2. InStage /\ ~InStage'
    BY <1>1 DEF InStage
  <1>3. \A n \in Thread : ~flag[n][Stage]
    BY <1>1, SimAssumption DEF IInv, FlagOfStageOnly, Thread
  <1>4. \A i : \A n \in Thread : ~Pending(n, i)
    BY <1>1, <1>3 DEF Pending
  <1>5. \A i : Owing(i) = {}
    BY <1>4 DEF Owing
  <1>6. Left = [i \in Item |-> 0]
    BY <1>5, FS_EmptySet DEF Left
  <1>7. Left' = [i \in Item |-> 0]
    BY <1>2 DEF Left
  <1> QED BY <1>1, <1>2, <1>6, <1>7

LEMMA SequentialIsOneStep ==
  ASSUME IInv, Sequential
  PROVE  /\ Stage \notin Flag /\ pos' = (pos % Len(Schedule)) + 1
         /\ ~InStage /\ ~InStage' /\ Left' = Left
  <1>1. /\ Stage \notin Flag /\ pos' = (pos % Len(Schedule)) + 1
        /\ pc' = "raise" /\ k' = 0
    BY DEF Sequential, Advance, IInv, Calls
  <1>2. ~InStage /\ ~InStage'
    BY <1>1 DEF InStage
  <1> QED BY <1>1, <1>2 DEF Left

\* An item done is one that its owner, and nobody else, still owed; a link
\* that is not into the thread's routers was owed by another.
LEMMA DoItemDoes ==
  ASSUME IInv, IInv', NEW n \in Thread, DoItem(n)
  PROVE  \/ Unseen
         \/ /\ pos' = pos /\ (InStage' <=> InStage)
            /\ \E i \in Item : Left[i] > 0 /\ Left' = [Left EXCEPT ![i] = @ - 1]
  <1> PICK h : h = Head(todo[n])
    OBVIOUS
  <1>1. /\ busy[n] /\ todo[n] # <<>> /\ Stage' = Stage
        /\ todo' = [todo EXCEPT ![n] = Tail(todo[n])]
        /\ UNCHANGED <<pos, pc, k, flag, tpc, busy>>
    BY DEF DoItem, IInv, Todo, Stage
  <1>2. flag[n][Stage] /\ Stage \in Flag /\ (pc = "raise" => n < k)
    BY <1>1 DEF IInv, Barrier, Todo, FlagOfStageOnly
  <1>3. InStage /\ InStage'
    <2>1. ~(pc = "raise" /\ k = 0)
      BY <1>2, SimAssumption DEF Thread
    <2> QED BY <1>1, <1>2, <2>1 DEF InStage
  <1>4. /\ h \in Range(todo[n]) /\ todo'[n] = Tail(todo[n])
        /\ Range(Tail(todo[n])) = Range(todo[n]) \ {h}
    BY <1>1, TailOfInjective DEF IInv, Todo
  <1>5. ASSUME NEW m \in Thread, NEW i, m # n
        PROVE  Pending(m, i)' <=> Pending(m, i)
    <2>1. todo'[m] = todo[m]
      BY <1>1, <1>5 DEF IInv, Todo
    <2> QED BY <1>1, <2>1 DEF Pending
  <1>6. ASSUME NEW i
        PROVE  /\ Pending(n, i) <=> Executes(n, i) /\ i \in Range(todo[n])
               /\ Pending(n, i)' <=> Executes(n, i) /\ i \in Range(todo[n]) \ {h}
    <2>1. Pending(n, i) <=> Executes(n, i) /\ i \in Range(todo[n])
      BY <1>1, <1>2 DEF Pending, Range
    <2>2. Pending(n, i)' <=> Executes(n, i) /\ i \in Range(Tail(todo[n]))
      BY <1>1, <1>2, <1>4 DEF Pending, Range
    <2> QED BY <1>4, <2>1, <2>2
  <1>7. CASE ~Executes(n, h)
    <2>1. ASSUME NEW i, NEW m \in Thread PROVE Pending(m, i)' <=> Pending(m, i)
      BY <1>5, <1>6, <1>7
    <2>2. Left' = Left
      BY <1>3, <2>1, NothingOwedAnew
    <2> QED BY <1>1, <1>3, <2>2 DEF Unseen
  <1>8. CASE Executes(n, h)
    <2>1. Pending(n, h) /\ ~Pending(n, h)'
      BY <1>4, <1>6, <1>8
    <2>2. Owing(h) = {n} /\ h \in Item
      BY <1>3, <2>1, OneOwes
    <2>3. \A m \in Thread : ~Pending(m, h)'
      BY <1>5, <2>1, <2>2 DEF Owing
    <2>4. \A i, m : i # h /\ m \in Thread => (Pending(m, i)' <=> Pending(m, i))
      BY <1>5, <1>6
    <2>5. OneOrNone /\ OneOrNone'
      BY LeftIsOneOrNone, LeftNext
    <2>6. Left[h] = 1 /\ Left'[h] = 0
      BY <1>3, <2>1, <2>2, <2>3, <2>5 DEF OneOrNone
    <2>7. \A i \in Item : i # h => Left'[i] = Left[i]
      BY <1>3, <2>4, <2>5 DEF OneOrNone
    <2>8. Left = [i \in Item |-> Left[i]] /\ Left' = [i \in Item |-> Left'[i]]
      BY DEF Left
    <2>9. Left' = [Left EXCEPT ![h] = @ - 1]
      BY <2>2, <2>6, <2>7, <2>8
    <2>10. Left[h] > 0
      BY <2>6
    <2>11. \E i \in Item : Left[i] > 0 /\ Left' = [Left EXCEPT ![i] = @ - 1]
      BY <2>2, <2>9, <2>10, Zenon
    <2> QED BY <1>1, <1>3, <2>11
  <1> QED BY <1>7, <1>8

-----------------------------------------------------------------------------
(* The threads implement the stages.                                       *)

LEMMA InitPhases == Init => Phases!Init
  <1> SUFFICES ASSUME Init PROVE Phases!Init
    OBVIOUS
  <1>1. pos = 1 /\ ~InStage
    BY DEF Init, InStage
  <1>2. Left = [i \in Item |-> 0]
    BY <1>1 DEF Left
  <1>3. InStage = FALSE
    BY <1>1, Zenon DEF InStage
  <1> QED BY <1>1, <1>2, <1>3 DEF Phases!Init, Phases!Nothing

\* What main and the threads do is a step of the stages, or nothing of them.
LEMMA UnseenPhases == Unseen => UNCHANGED Phases!vars
  <1> SUFFICES ASSUME Unseen PROVE UNCHANGED Phases!vars
    OBVIOUS
  <1>1. InStage' = InStage
    BY Zenon DEF Unseen
  <1> QED BY <1>1 DEF Unseen, Phases!vars

LEMMA SequentialPhases == IInv /\ Sequential => Phases!OneStep
  <1> SUFFICES ASSUME IInv, Sequential PROVE Phases!OneStep
    OBVIOUS
  <1>1. /\ Stage \notin Flag /\ pos' = (pos % Len(Schedule)) + 1
        /\ ~InStage /\ ~InStage' /\ Left' = Left
    BY SequentialIsOneStep
  <1>2. InStage' = InStage
    BY <1>1, Zenon DEF InStage
  <1> QED BY <1>1, <1>2 DEF Phases!OneStep, Phases!Stage, Phases!Advance, Stage

LEMMA RaisePhases == IInv /\ IInv' /\ Raise => Phases!Begin \/ Unseen
  <1> SUFFICES ASSUME IInv, IInv', Raise, k = 0 PROVE Phases!Begin
    BY RaiseUnseen
  <1>1. /\ Stage \in Flag /\ pos' = pos /\ ~InStage /\ InStage'
        /\ Left' = [i \in Item |-> IF i \in Items[Stage] THEN 1 ELSE 0]
    BY FirstRaiseBegins
  <1>2. InStage' = TRUE
    BY <1>1, Zenon
  <1> QED BY <1>1, <1>2 DEF Phases!Begin, Phases!Stage, Stage

LEMMA JoinPhases == IInv /\ Join => Phases!End \/ Unseen
  <1> SUFFICES ASSUME IInv, Join, k = ThreadNum - 1 PROVE Phases!End
    BY JoinUnseen
  <1>1. /\ InStage /\ ~InStage'
        /\ Left = [i \in Item |-> 0] /\ Left' = Left
        /\ pos' = (pos % Len(Schedule)) + 1
    BY LastJoinEnds
  <1>2. InStage' = FALSE
    BY <1>1, Zenon DEF InStage
  <1> QED BY <1>1, <1>2 DEF Phases!End, Phases!Nothing, Phases!Advance

LEMMA ThreadPhases ==
  ASSUME IInv, IInv', NEW n \in Thread, ThreadStep(n)
  PROVE  Phases!Do \/ Unseen
  <1>1. CASE DoItem(n)
    <2> SUFFICES ASSUME ~Unseen PROVE Phases!Do
      OBVIOUS
    <2>1. /\ pos' = pos /\ (InStage' <=> InStage)
          /\ \E i \in Item : Left[i] > 0 /\ Left' = [Left EXCEPT ![i] = @ - 1]
      BY <1>1, DoItemDoes
    <2>2. InStage' = InStage
      BY <2>1, Zenon DEF InStage
    <2> QED BY <2>1, <2>2 DEF Phases!Do
  <1> QED BY <1>1, AwakeUnseen, TestUnseen, LowerUnseen DEF ThreadStep

LEMMA StepPhases == IInv /\ IInv' /\ [Next]_vars => [Phases!Next]_(Phases!vars)
  <1> SUFFICES ASSUME IInv, IInv', [Next]_vars
               PROVE  Phases!Next \/ UNCHANGED Phases!vars
    BY DEF Phases!vars
  <1>1. CASE MainStep
    BY <1>1, SequentialPhases, RaisePhases, ReturnUnseen, JoinPhases, UnseenPhases
       DEF MainStep, Phases!Next
  <1>2. CASE \E n \in Thread : ThreadStep(n)
    BY <1>2, ThreadPhases, UnseenPhases DEF Phases!Next
  <1>3. CASE UNCHANGED vars
    <2>1. UNCHANGED <<pos, pc, k, flag, busy, todo>> /\ Stage' = Stage
      BY <1>3 DEF vars, Stage
    <2>2. InStage' <=> InStage
      BY <2>1 DEF InStage
    <2>3. \A i, n : n \in Thread => (Pending(n, i)' <=> Pending(n, i))
      BY <2>1 DEF Pending
    <2>4. Unseen
      BY <2>1, <2>2, <2>3, NothingOwedAnew DEF Unseen
    <2> QED BY <2>4, UnseenPhases
  <1> QED BY <1>1, <1>2, <1>3 DEF Next

\* For any threads, nodes and links: the threads execute every item of every
\* stage once, and no stage before the last one is complete, as one thread does.
THEOREM ThreadsImplementPhases == Spec => ImplementsPhases
  <1>1. Spec => []IInv
    BY InitInv, StepInv, PTL DEF Spec
  <1> QED BY <1>1, InitPhases, StepPhases, PTL DEF Spec, ImplementsPhases, Phases!Spec

\* The threads of a whole run of the simulator, with its traffic, its tasks and
\* its topologies beside them.
THEOREM SimulatorThreads == MCSpec => ThreadsAreSequential
  <1>1. MCInit => Init
    BY DEF MCInit
  <1>2. [MCNext]_allVars => [Next]_vars
    <2> SUFFICES ASSUME [MCNext]_allVars PROVE Next \/ UNCHANGED vars
      BY DEF vars
    <2>1. CASE MCNext
      BY <2>1 DEF MCNext
    <2>2. CASE UNCHANGED allVars
      BY <2>2 DEF allVars
    <2> QED BY <2>1, <2>2
  <1>3. MCSpec => Spec
    BY <1>1, <1>2, PTL DEF MCSpec, Spec
  <1> QED BY <1>3, StagesApart, ThreadsImplementPhases, PTL DEF ThreadsAreSequential

-----------------------------------------------------------------------------
(* Loops over the end points.                                              *)

\* What holds of 0, and of m + 1 if of m, holds up to n.
LEMMA UpTo ==
    ASSUME NEW n \in Nat, NEW T, 0 \in T, \A m \in 0 .. n - 1 : m \in T => m + 1 \in T
    PROVE  n \in T /\ \A m \in 0 .. n : m \in T
  <1> DEFINE Bad == {m \in 0 .. n : m \notin T}
  <1> SUFFICES ASSUME Bad # {} PROVE FALSE
    <2>1. n \in 0 .. n
      OBVIOUS
    <2> QED BY <2>1
  <1>1. IsWellFoundedOn(OpToRel(<, Nat), Nat)
    BY NatLessThanWellFounded, Zenon
  <1>2. Bad \subseteq Nat
    OBVIOUS
  <1>3. PICK m \in Bad : \A y \in Bad : ~(<<y, m>> \in OpToRel(<, Nat))
    BY <1>1, <1>2, WFMin, Zenon
  <1>4. m # 0
    OBVIOUS
  <1>5. m - 1 \in 0 .. n - 1 /\ m - 1 \in Nat /\ m \in Nat /\ m - 1 < m
    BY <1>4
  <1>6. m - 1 \notin Bad
    BY <1>3, <1>5 DEF OpToRel
  <1>7. m - 1 \in T
    BY <1>5, <1>6
  <1>8. m - 1 + 1 \in T
    BY <1>5, <1>7
  <1> QED BY <1>5, <1>8

\* g holds what a loop from a, whose round i does step[x, i], has after each round.
IsLoop(g, A, step, a, n) ==
    /\ g \in [0 .. n -> A] /\ g[0] = a
    /\ \A m \in 0 .. n - 1 : g[m + 1] = step[<<g[m], m>>]

LEMMA LoopExists ==
    ASSUME NEW n \in Nat, NEW A, NEW a \in A, NEW step \in [A \X (0 .. n - 1) -> A]
    PROVE  \E g : IsLoop(g, A, step, a, n)
  <1> DEFINE T == {m \in 0 .. n : \E g : IsLoop(g, A, step, a, m)}
  <1>1. 0 \in T
    <2>1. IsLoop([m \in 0 .. 0 |-> a], A, step, a, 0)
      BY DEF IsLoop
    <2> QED BY <2>1
  <1>2. ASSUME NEW m \in 0 .. n - 1, m \in T PROVE m + 1 \in T
    <2>1. PICK g : IsLoop(g, A, step, a, m)
      BY <1>2
    <2>2. g \in [0 .. m -> A] /\ g[0] = a /\ \A i \in 0 .. m - 1 : g[i + 1] = step[<<g[i], i>>]
      BY <2>1 DEF IsLoop
    <2>3. step[<<g[m], m>>] \in A
      BY <2>2
    <2> DEFINE h == [i \in 0 .. m + 1 |-> IF i = m + 1 THEN step[<<g[m], m>>] ELSE g[i]]
    <2>4. h \in [0 .. m + 1 -> A] /\ h[0] = a
      BY <2>2, <2>3
    <2>5. ASSUME NEW i \in 0 .. m PROVE h[i + 1] = step[<<h[i], i>>]
      <3>1. h[i] = g[i]
        OBVIOUS
      <3>2. CASE i = m
        <4>1. h[m + 1] = step[<<g[m], m>>]
          OBVIOUS
        <4> HIDE DEF h
        <4> QED BY <3>1, <3>2, <4>1
      <3>3. CASE i # m
        <4>1. i \in 0 .. m - 1 /\ i + 1 \in 0 .. m
          BY <3>3
        <4>2. h[i + 1] = g[i + 1]
          BY <4>1
        <4> QED BY <2>2, <3>1, <4>1, <4>2
      <3> QED BY <3>2, <3>3
    <2>6. m + 1 - 1 = m
      OBVIOUS
    <2> HIDE DEF h
    <2>7. IsLoop(h, A, step, a, m + 1)
      BY <2>4, <2>5, <2>6 DEF IsLoop
    <2> QED BY <2>7
  <1> HIDE DEF T
  <1>3. n \in T
    BY <1>1, <1>2, UpTo
  <1> QED BY <1>3 DEF T

\* The partial sums of f.
IsSum(g, f, n) ==
    g \in [0 .. n -> Int] /\ g[0] = 0 /\ \A m \in 0 .. n - 1 : g[m + 1] = g[m] + f[m]

LEMMA SumExists ==
    ASSUME NEW n \in Nat, NEW f \in [0 .. n - 1 -> Int]
    PROVE  \E g : IsSum(g, f, n)
  <1> DEFINE step == [x \in Int \X (0 .. n - 1) |-> x[1] + f[x[2]]]
  <1>1. step \in [Int \X (0 .. n - 1) -> Int]
    OBVIOUS
  <1>2. \A x \in Int, m \in 0 .. n - 1 : step[<<x, m>>] = x + f[m]
    OBVIOUS
  <1> HIDE DEF step
  <1>3. PICK g : IsLoop(g, Int, step, 0, n)
    <2>1. 0 \in Int
      OBVIOUS
    <2> QED BY <1>1, <2>1, LoopExists, Zenon
  <1>4. g \in [0 .. n -> Int] /\ g[0] = 0 /\ \A m \in 0 .. n - 1 : g[m + 1] = step[<<g[m], m>>]
    BY <1>3 DEF IsLoop
  <1>5. \A m \in 0 .. n - 1 : g[m] \in Int
    BY <1>4
  <1>6. IsSum(g, f, n)
    BY <1>2, <1>4, <1>5 DEF IsSum
  <1> QED BY <1>6

\* The value of a loop that is defined as the function of its rounds.
SumOf(f, n) ==
    LET after[m \in 0 .. n] == IF m = 0 THEN 0 ELSE after[m - 1] + f[m - 1] IN after[n]

IsAfterSum(g, f, n) == g = [m \in 0 .. n |-> IF m = 0 THEN 0 ELSE g[m - 1] + f[m - 1]]

LEMMA SumIs ==
    ASSUME NEW n \in Nat, NEW f \in [0 .. n - 1 -> Int]
    PROVE  \E g : IsSum(g, f, n) /\ SumOf(f, n) = g[n]
  <1>1. PICK g : IsSum(g, f, n)
    BY SumExists
  <1>2. \A m \in 0 .. n : g[m] = IF m = 0 THEN 0 ELSE g[m - 1] + f[m - 1]
    <2> SUFFICES ASSUME NEW m \in 0 .. n, m # 0 PROVE g[m] = g[m - 1] + f[m - 1]
      BY <1>1 DEF IsSum
    <2>1. m - 1 \in 0 .. n - 1 /\ m - 1 + 1 = m
      OBVIOUS
    <2> QED BY <1>1, <2>1 DEF IsSum
  <1>3. IsAfterSum(g, f, n)
    <2>1. g = [m \in 0 .. n |-> g[m]]
      BY <1>1 DEF IsSum
    <2> QED BY <1>2, <2>1 DEF IsAfterSum
  <1> DEFINE c == CHOOSE h : IsAfterSum(h, f, n)
  <1>4. IsAfterSum(c, f, n)
    BY <1>3
  <1>5. SumOf(f, n) = c[n]
    BY Zenon DEF SumOf, IsAfterSum
  <1> HIDE DEF c
  <1>6. DOMAIN c = 0 .. n /\ c[0] = 0 /\ \A m \in 0 .. n - 1 : c[m + 1] = c[m] + f[m]
    <2>1. \A m \in 0 .. n : c[m] = IF m = 0 THEN 0 ELSE c[m - 1] + f[m - 1]
      BY <1>4 DEF IsAfterSum
    <2>2. \A m \in 0 .. n - 1 : m + 1 \in 0 .. n /\ m + 1 # 0 /\ m + 1 - 1 = m
      OBVIOUS
    <2> QED BY <1>4, <2>1, <2>2 DEF IsAfterSum
  <1>7. \A m \in 0 .. n : c[m] = g[m]
    <2> DEFINE T == {m \in 0 .. n : c[m] = g[m]}
    <2>1. 0 \in T
      BY <1>1, <1>6 DEF IsSum
    <2>2. \A m \in 0 .. n - 1 : m \in T => m + 1 \in T
      BY <1>1, <1>6 DEF IsSum
    <2> HIDE DEF T
    <2>3. \A m \in 0 .. n : m \in T
      BY <2>1, <2>2, UpTo
    <2> QED BY <2>3 DEF T
  <1> QED BY <1>1, <1>5, <1>7

LEMMA SumInt ==
    ASSUME NEW n \in Nat, NEW f \in [0 .. n - 1 -> Int] PROVE SumOf(f, n) \in Int
  BY SumIs DEF IsSum

LEMMA SumAdd ==
    ASSUME NEW n \in Nat, NEW f \in [0 .. n - 1 -> Int], NEW g \in [0 .. n - 1 -> Int],
           NEW h \in [0 .. n - 1 -> Int], \A m \in 0 .. n - 1 : h[m] = f[m] + g[m]
    PROVE  SumOf(h, n) = SumOf(f, n) + SumOf(g, n)
  <1>1. PICK a : IsSum(a, f, n) /\ SumOf(f, n) = a[n]
    BY SumIs
  <1>2. PICK b : IsSum(b, g, n) /\ SumOf(g, n) = b[n]
    BY SumIs
  <1>3. PICK c : IsSum(c, h, n) /\ SumOf(h, n) = c[n]
    BY SumIs
  <1>4. ASSUME NEW m \in 0 .. n - 1, c[m] = a[m] + b[m] PROVE c[m + 1] = a[m + 1] + b[m + 1]
    <2> DEFINE x == a[m]
               y == b[m]
               u == f[m]
               v == g[m]
    <2>1. a[m + 1] = x + u /\ x \in Int
      BY <1>1 DEF IsSum
    <2>2. b[m + 1] = y + v /\ y \in Int
      BY <1>2 DEF IsSum
    <2>3. c[m + 1] = c[m] + h[m]
      BY <1>3 DEF IsSum
    <2>4. u \in Int /\ v \in Int /\ h[m] = u + v
      OBVIOUS
    <2>5. c[m] = x + y
      BY <1>4
    <2> HIDE DEF x, y, u, v
    <2>6. (x + y) + (u + v) = (x + u) + (y + v)
      BY <2>1, <2>2, <2>4
    <2> QED BY <2>1, <2>2, <2>3, <2>4, <2>5, <2>6, Zenon
  <1> DEFINE T == {m \in 0 .. n : c[m] = a[m] + b[m]}
  <1>5. 0 \in T
    BY <1>1, <1>2, <1>3 DEF IsSum
  <1>6. \A m \in 0 .. n - 1 : m \in T => m + 1 \in T
    BY <1>4
  <1> HIDE DEF T
  <1>7. n \in T
    BY <1>5, <1>6, UpTo
  <1> QED BY <1>1, <1>2, <1>3, <1>7 DEF T

\* A sum of naturals is one, and none of them exceeds it.
LEMMA SumNat ==
    ASSUME NEW n \in Nat, NEW f \in [0 .. n - 1 -> Nat]
    PROVE  SumOf(f, n) \in Nat /\ \A i \in 0 .. n - 1 : f[i] <= SumOf(f, n)
  <1>1. f \in [0 .. n - 1 -> Int]
    OBVIOUS
  <1>2. PICK a : IsSum(a, f, n) /\ SumOf(f, n) = a[n]
    BY <1>1, SumIs
  <1> DEFINE T == {m \in 0 .. n : a[m] \in Nat /\ \A i \in 0 .. m - 1 : f[i] <= a[m]}
  <1>3. 0 \in T
    BY <1>2 DEF IsSum
  <1>4. \A m \in 0 .. n - 1 : m \in T => m + 1 \in T
    <2> SUFFICES ASSUME NEW m \in 0 .. n - 1, m \in T PROVE m + 1 \in T
      OBVIOUS
    <2>1. a[m + 1] = a[m] + f[m] /\ f[m] \in Nat /\ a[m] \in Nat
      BY <1>2 DEF IsSum
    <2>2. \A i \in 0 .. m : f[i] \in Nat /\ f[i] <= a[m + 1]
      BY <2>1
    <2> QED BY <2>1, <2>2
  <1> HIDE DEF T
  <1>5. n \in T
    BY <1>3, <1>4, UpTo
  <1> QED BY <1>2, <1>5 DEF T

\* The number of elements of a set.
LEMMA SumSet ==
    ASSUME NEW n \in Nat, NEW T \in SUBSET (0 .. n - 1)
    PROVE  /\ IsFiniteSet(T)
           /\ SumOf([m \in 0 .. n - 1 |-> IF m \in T THEN 1 ELSE 0], n) = Cardinality(T)
  <1> DEFINE f == [m \in 0 .. n - 1 |-> IF m \in T THEN 1 ELSE 0]
  <1>1. f \in [0 .. n - 1 -> Int]
    OBVIOUS
  <1>2. PICK a : IsSum(a, f, n) /\ SumOf(f, n) = a[n]
    BY <1>1, SumIs
  <1>3. ASSUME NEW m \in 0 .. n PROVE IsFiniteSet(T \cap (0 .. m - 1))
    <2>1. IsFiniteSet(0 .. m - 1) /\ T \cap (0 .. m - 1) \in SUBSET (0 .. m - 1)
      BY FS_Interval
    <2> QED BY <2>1, FS_Subset
  <1> DEFINE R == {m \in 0 .. n : a[m] = Cardinality(T \cap (0 .. m - 1))}
  <1>4. 0 \in R
    <2>1. T \cap (0 .. 0 - 1) = {}
      OBVIOUS
    <2> QED BY <1>2, <2>1, FS_EmptySet DEF IsSum
  <1>5. \A m \in 0 .. n - 1 : m \in R => m + 1 \in R
    <2> SUFFICES ASSUME NEW m \in 0 .. n - 1, m \in R PROVE m + 1 \in R
      OBVIOUS
    <2>1. a[m + 1] = a[m] + f[m]
      BY <1>2 DEF IsSum
    <2>2. m + 1 \in 0 .. n /\ m \in 0 .. n /\ m + 1 - 1 = m
      OBVIOUS
    <2>3. CASE m \in T
      <3>1. T \cap (0 .. m) = (T \cap (0 .. m - 1)) \cup {m} /\ m \notin T \cap (0 .. m - 1)
        BY <2>3
      <3>2. Cardinality(T \cap (0 .. m)) = Cardinality(T \cap (0 .. m - 1)) + 1
        BY <1>3, <2>2, <3>1, FS_AddElement
      <3> QED BY <2>1, <2>2, <2>3, <3>2
    <2>4. CASE m \notin T
      <3>1. T \cap (0 .. m) = T \cap (0 .. m - 1)
        BY <2>4
      <3>2. Cardinality(T \cap (0 .. m - 1)) \in Nat
        BY <1>3, <2>2, FS_CardinalityType
      <3>3. f[m] = 0 /\ a[m] = Cardinality(T \cap (0 .. m - 1))
        BY <2>4
      <3>4. a[m + 1] = a[m]
        BY <2>1, <3>2, <3>3
      <3>5. a[m + 1] = Cardinality(T \cap (0 .. m + 1 - 1))
        BY <2>2, <3>1, <3>3, <3>4, Zenon
      <3> QED BY <2>2, <3>5
    <2> QED BY <2>3, <2>4
  <1> HIDE DEF R
  <1>6. n \in R
    BY <1>4, <1>5, UpTo
  <1>7. T \cap (0 .. n - 1) = T
    OBVIOUS
  <1> QED BY <1>2, <1>3, <1>6, <1>7 DEF R

\* A sum of which all but one number is 0.
LEMMA SumSingle ==
    ASSUME NEW n \in Nat, NEW f \in [0 .. n - 1 -> Int], NEW j \in 0 .. n - 1,
           \A m \in 0 .. n - 1 : m # j => f[m] = 0
    PROVE  SumOf(f, n) = f[j]
  <1>1. PICK a : IsSum(a, f, n) /\ SumOf(f, n) = a[n]
    BY SumIs
  <1> DEFINE R == {m \in 0 .. n : a[m] = IF m > j THEN f[j] ELSE 0}
  <1>2. 0 \in R
    BY <1>1 DEF IsSum
  <1>3. \A m \in 0 .. n - 1 : m \in R => m + 1 \in R
    <2> SUFFICES ASSUME NEW m \in 0 .. n - 1, m \in R PROVE m + 1 \in R
      OBVIOUS
    <2>1. a[m + 1] = a[m] + f[m] /\ f[j] \in Int
      BY <1>1 DEF IsSum
    <2>2. CASE m = j
      BY <2>1, <2>2
    <2>3. CASE m # j
      BY <2>1, <2>3
    <2> QED BY <2>2, <2>3
  <1> HIDE DEF R
  <1>4. n \in R
    BY <1>2, <1>3, UpTo
  <1> QED BY <1>1, <1>4 DEF R

LEMMA SumNothing ==
    ASSUME NEW n \in Nat, NEW f \in [0 .. n - 1 -> Int], \A m \in 0 .. n - 1 : f[m] = 0
    PROVE  SumOf(f, n) = 0
  <1>1. PICK a : IsSum(a, f, n) /\ SumOf(f, n) = a[n]
    BY SumIs
  <1> DEFINE R == {m \in 0 .. n : a[m] = 0}
  <1>2. 0 \in R
    BY <1>1 DEF IsSum
  <1>3. \A m \in 0 .. n - 1 : m \in R => m + 1 \in R
    BY <1>1 DEF IsSum
  <1> HIDE DEF R
  <1>4. n \in R
    BY <1>2, <1>3, UpTo
  <1> QED BY <1>1, <1>4 DEF R

\* Rows and columns.
RowSum(X, i, n)    == SumOf([j \in 0 .. n - 1 |-> X[<<i, j>>]], n)
ColumnSum(X, j, n) == SumOf([i \in 0 .. n - 1 |-> X[<<i, j>>]], n)
RowSums(X, n)      == SumOf([i \in 0 .. n - 1 |-> RowSum(X, i, n)], n)
ColumnSums(X, n)   == SumOf([j \in 0 .. n - 1 |-> ColumnSum(X, j, n)], n)

LEMMA RowsAreColumns ==
    ASSUME NEW n \in Nat, NEW X \in [(0 .. n - 1) \X (0 .. n - 1) -> Int]
    PROVE  RowSums(X, n) = ColumnSums(X, n)
  <1> DEFINE E == 0 .. n - 1
             row(i) == [j \in E |-> X[<<i, j>>]]
             col(j) == [i \in E |-> X[<<i, j>>]]
             rows == [i \in E |-> SumOf(row(i), n)]
             strip(j) == CHOOSE p : IsSum(p, col(j), n) /\ SumOf(col(j), n) = p[n]
             upTo(m) == [j \in E |-> strip(j)[m]]
  <1>1. \A i \in E : row(i) \in [E -> Int] /\ col(i) \in [E -> Int]
    OBVIOUS
  <1>2. \A i, j \in E : row(i)[j] = col(j)[i]
    OBVIOUS
  <1> HIDE DEF row, col
  <1>3. ASSUME NEW j \in E PROVE IsSum(strip(j), col(j), n) /\ SumOf(col(j), n) = strip(j)[n]
    <2>1. \E p : IsSum(p, col(j), n) /\ SumOf(col(j), n) = p[n]
      BY <1>1, SumIs
    <2> QED BY <2>1
  <1> HIDE DEF strip
  <1>4. rows \in [E -> Int]
    BY <1>1, SumInt
  <1> HIDE DEF rows
  <1>5. PICK a : IsSum(a, rows, n) /\ SumOf(rows, n) = a[n]
    BY <1>4, SumIs
  <1>6. ASSUME NEW m \in 0 .. n PROVE upTo(m) \in [E -> Int]
    BY <1>3 DEF IsSum
  <1> DEFINE R == {m \in 0 .. n : a[m] = SumOf(upTo(m), n)}
  <1>7. 0 \in R
    <2>1. \A j \in E : upTo(0)[j] = 0
      BY <1>3 DEF IsSum
    <2>2. 0 \in 0 .. n /\ a[0] = 0
      BY <1>5 DEF IsSum
    <2>3. SumOf(upTo(0), n) = 0
      BY <1>6, <2>1, <2>2, SumNothing
    <2> QED BY <2>2, <2>3
  <1>8. \A m \in 0 .. n - 1 : m \in R => m + 1 \in R
    <2> SUFFICES ASSUME NEW m \in 0 .. n - 1, m \in R PROVE m + 1 \in R
      OBVIOUS
    <2>1. a[m + 1] = a[m] + rows[m] /\ m \in 0 .. n /\ m + 1 \in 0 .. n
      BY <1>5 DEF IsSum
    <2>2. rows[m] = SumOf(row(m), n)
      BY DEF rows
    <2>3. ASSUME NEW j \in E PROVE upTo(m + 1)[j] = upTo(m)[j] + row(m)[j]
      <3>1. strip(j)[m + 1] = strip(j)[m] + col(j)[m]
        BY <1>3 DEF IsSum
      <3> QED BY <1>2, <3>1
    <2>4. upTo(m) \in [E -> Int] /\ upTo(m + 1) \in [E -> Int]
      BY <1>6, <2>1
    <2> HIDE DEF upTo
    <2>5. SumOf(upTo(m + 1), n) = SumOf(upTo(m), n) + SumOf(row(m), n)
      BY <1>1, <2>3, <2>4, SumAdd
    <2>6. a[m] = SumOf(upTo(m), n)
      OBVIOUS
    <2> QED BY <2>1, <2>2, <2>5, <2>6
  <1>9. n \in R
    <2> HIDE DEF R
    <2> QED BY <1>7, <1>8, UpTo
  <1>10. upTo(n) = [j \in E |-> SumOf(col(j), n)]
    BY <1>3
  <1>11. RowSums(X, n) = SumOf(rows, n)
    BY DEF RowSums, RowSum, rows, row
  <1>12. ColumnSums(X, n) = SumOf(upTo(n), n)
    BY <1>10 DEF ColumnSums, ColumnSum, col
  <1> QED BY <1>5, <1>9, <1>11, <1>12

-----------------------------------------------------------------------------
(* Statistics.                                                             *)

Stat == [pck : Nat, flit : Nat, worst : Nat, min : Nat]
Nil  == [pck |-> 0, flit |-> 0, worst |-> 0, min |-> 0]

Merge(a, b) ==
    [pck   |-> a.pck + b.pck, flit |-> a.flit + b.flit,
     worst |-> IF a.worst < b.worst THEN b.worst ELSE a.worst,
     min   |-> IF a.min = 0 \/ (a.min > b.min /\ b.min # 0) THEN b.min ELSE a.min]

Later(x, l)   == IF x < l THEN l ELSE x
Earlier(x, l) == IF x = 0 \/ x > l THEN l ELSE x

\* The statistic a with another packet of this size and latency.
Counted(a, size, l) ==
    [pck |-> a.pck + 1, flit |-> a.flit + size, worst |-> Later(a.worst, l),
     min |-> Earlier(a.min, l)]

LEMMA StatRecord == \A a \in Stat : /\ a.pck \in Nat /\ a.flit \in Nat /\ a.worst \in Nat /\ a.min \in Nat
                                    /\ a = [pck |-> a.pck, flit |-> a.flit, worst |-> a.worst, min |-> a.min]
  BY DEF Stat

LEMMA MergeIsStat == ASSUME NEW a \in Stat, NEW b \in Stat PROVE Merge(a, b) \in Stat
  BY DEF Merge, Stat

LEMMA CountedIsStat ==
    ASSUME NEW a \in Stat, NEW size \in Nat, NEW l \in Nat PROVE Counted(a, size, l) \in Stat
  BY DEF Counted, Stat, Later, Earlier

\* It does not matter whether a packet is counted before or after merging.
LEMMA CountThenMerge ==
    ASSUME NEW a \in Stat, NEW b \in Stat, NEW size \in Nat, NEW l \in Nat \ {0}
    PROVE  /\ Merge(a, Counted(b, size, l)) = Counted(Merge(a, b), size, l)
           /\ Merge(Counted(a, size, l), b) = Counted(Merge(a, b), size, l)
  BY StatRecord DEF Merge, Counted, Later, Earlier

IsMerged(g, st, n) ==
    g \in [0 .. n -> Stat] /\ g[0] = Nil /\ \A m \in 0 .. n - 1 : g[m + 1] = Merge(g[m], st[m])

LEMMA MergedExists ==
    ASSUME NEW n \in Nat, NEW st \in [0 .. n - 1 -> Stat]
    PROVE  \E g : IsMerged(g, st, n)
  <1> DEFINE step == [x \in Stat \X (0 .. n - 1) |-> Merge(x[1], st[x[2]])]
  <1>1. step \in [Stat \X (0 .. n - 1) -> Stat]
    BY MergeIsStat
  <1>2. \A x \in Stat, m \in 0 .. n - 1 : step[<<x, m>>] = Merge(x, st[m])
    OBVIOUS
  <1> HIDE DEF step
  <1>3. PICK g : IsLoop(g, Stat, step, Nil, n)
    <2>1. Nil \in Stat
      BY DEF Nil, Stat
    <2> QED BY <1>1, <2>1, LoopExists, Zenon
  <1>4. g \in [0 .. n -> Stat] /\ g[0] = Nil /\ \A m \in 0 .. n - 1 : g[m + 1] = step[<<g[m], m>>]
    BY <1>3 DEF IsLoop
  <1>5. \A m \in 0 .. n - 1 : g[m] \in Stat
    BY <1>4
  <1>6. IsMerged(g, st, n)
    BY <1>2, <1>4, <1>5 DEF IsMerged
  <1> QED BY <1>6

MergedOf(st, n) ==
    LET after[m \in 0 .. n] == IF m = 0 THEN Nil ELSE Merge(after[m - 1], st[m - 1]) IN after[n]

IsAfterMerged(g, st, n) == g = [m \in 0 .. n |-> IF m = 0 THEN Nil ELSE Merge(g[m - 1], st[m - 1])]

LEMMA MergedIs ==
    ASSUME NEW n \in Nat, NEW st \in [0 .. n - 1 -> Stat]
    PROVE  \E g : IsMerged(g, st, n) /\ MergedOf(st, n) = g[n]
  <1>1. PICK g : IsMerged(g, st, n)
    BY MergedExists
  <1>2. \A m \in 0 .. n : g[m] = IF m = 0 THEN Nil ELSE Merge(g[m - 1], st[m - 1])
    <2> SUFFICES ASSUME NEW m \in 0 .. n, m # 0 PROVE g[m] = Merge(g[m - 1], st[m - 1])
      BY <1>1 DEF IsMerged
    <2>1. m - 1 \in 0 .. n - 1 /\ m - 1 + 1 = m
      OBVIOUS
    <2> QED BY <1>1, <2>1 DEF IsMerged
  <1>3. IsAfterMerged(g, st, n)
    <2>1. g = [m \in 0 .. n |-> g[m]]
      BY <1>1 DEF IsMerged
    <2> QED BY <1>2, <2>1 DEF IsAfterMerged
  <1> DEFINE c == CHOOSE h : IsAfterMerged(h, st, n)
  <1>4. IsAfterMerged(c, st, n)
    BY <1>3
  <1>5. MergedOf(st, n) = c[n]
    BY Zenon DEF MergedOf, IsAfterMerged
  <1> HIDE DEF c
  <1>6. DOMAIN c = 0 .. n /\ c[0] = Nil /\ \A m \in 0 .. n - 1 : c[m + 1] = Merge(c[m], st[m])
    <2>1. \A m \in 0 .. n : c[m] = IF m = 0 THEN Nil ELSE Merge(c[m - 1], st[m - 1])
      BY <1>4 DEF IsAfterMerged
    <2>2. \A m \in 0 .. n - 1 : m + 1 \in 0 .. n /\ m + 1 # 0 /\ m + 1 - 1 = m
      OBVIOUS
    <2> QED BY <1>4, <2>1, <2>2 DEF IsAfterMerged
  <1>7. \A m \in 0 .. n : c[m] = g[m]
    <2> DEFINE T == {m \in 0 .. n : c[m] = g[m]}
    <2>1. 0 \in T
      BY <1>1, <1>6 DEF IsMerged
    <2>2. \A m \in 0 .. n - 1 : m \in T => m + 1 \in T
      BY <1>1, <1>6 DEF IsMerged
    <2> HIDE DEF T
    <2>3. \A m \in 0 .. n : m \in T
      BY <2>1, <2>2, UpTo
    <2> QED BY <2>3 DEF T
  <1> QED BY <1>1, <1>5, <1>7

LEMMA MergedIsStat ==
    ASSUME NEW n \in Nat, NEW st \in [0 .. n - 1 -> Stat] PROVE MergedOf(st, n) \in Stat
  BY MergedIs DEF IsMerged

\* The counts of a merged statistic are sums.
LEMMA MergedCounts ==
    ASSUME NEW n \in Nat, NEW st \in [0 .. n - 1 -> Stat]
    PROVE  /\ MergedOf(st, n).pck = SumOf([m \in 0 .. n - 1 |-> st[m].pck], n)
           /\ MergedOf(st, n).flit = SumOf([m \in 0 .. n - 1 |-> st[m].flit], n)
  <1> DEFINE p == [m \in 0 .. n - 1 |-> st[m].pck]
             f == [m \in 0 .. n - 1 |-> st[m].flit]
  <1>1. PICK g : IsMerged(g, st, n) /\ MergedOf(st, n) = g[n]
    BY MergedIs
  <1>2. p \in [0 .. n - 1 -> Int] /\ f \in [0 .. n - 1 -> Int]
    BY StatRecord
  <1>3. PICK a : IsSum(a, p, n) /\ SumOf(p, n) = a[n]
    BY <1>2, SumIs
  <1>4. PICK b : IsSum(b, f, n) /\ SumOf(f, n) = b[n]
    BY <1>2, SumIs
  <1> DEFINE T == {m \in 0 .. n : g[m].pck = a[m] /\ g[m].flit = b[m]}
  <1>5. 0 \in T
    BY <1>1, <1>3, <1>4 DEF IsMerged, IsSum, Nil
  <1>6. ASSUME NEW m \in 0 .. n - 1, g[m].pck = a[m] /\ g[m].flit = b[m]
        PROVE  g[m + 1].pck = a[m + 1] /\ g[m + 1].flit = b[m + 1]
    <2>1. g[m + 1] = Merge(g[m], st[m])
      BY <1>1 DEF IsMerged
    <2>2. a[m + 1] = a[m] + st[m].pck
      BY <1>3 DEF IsSum
    <2>3. b[m + 1] = b[m] + st[m].flit
      BY <1>4 DEF IsSum
    <2>4. g[m + 1].pck = g[m].pck + st[m].pck /\ g[m + 1].flit = g[m].flit + st[m].flit
      BY <2>1 DEF Merge
    <2> QED BY <1>6, <2>2, <2>3, <2>4, Zenon
  <1>7. \A m \in 0 .. n - 1 : m \in T => m + 1 \in T
    BY <1>6
  <1> HIDE DEF T
  <1>8. n \in T
    BY <1>5, <1>7, UpTo
  <1> QED BY <1>1, <1>3, <1>4, <1>8 DEF T

\* x is the least number of f that is not 0, or 0 when all are.
Least(x, f, n) ==
    /\ \A m \in 0 .. n - 1 : f[m] # 0 => x # 0 /\ x <= f[m]
    /\ x # 0 => \E m \in 0 .. n - 1 : f[m] = x

LEMMA MergedMin ==
    ASSUME NEW n \in Nat, NEW st \in [0 .. n - 1 -> Stat]
    PROVE  Least(MergedOf(st, n).min, [m \in 0 .. n - 1 |-> st[m].min], n)
  <1> DEFINE f == [m \in 0 .. n - 1 |-> st[m].min]
  <1>1. PICK g : IsMerged(g, st, n) /\ MergedOf(st, n) = g[n]
    BY MergedIs
  <1>2. \A m \in 0 .. n - 1 : f[m] \in Nat /\ st[m].min = f[m]
    BY StatRecord
  <1>3. \A m \in 0 .. n : g[m].min \in Nat
    BY <1>1, StatRecord DEF IsMerged
  <1> HIDE DEF f
  <1> DEFINE T == {m \in 0 .. n : Least(g[m].min, f, m)}
  <1>4. 0 \in T
    BY <1>1 DEF IsMerged, Nil, Least
  <1>5. ASSUME NEW m \in 0 .. n - 1, Least(g[m].min, f, m) PROVE Least(g[m + 1].min, f, m + 1)
    <2> DEFINE x == g[m].min
               y == f[m]
               z == g[m + 1].min
    <2>1. z = IF x = 0 \/ (x > y /\ y # 0) THEN y ELSE x
      <3>1. g[m + 1] = Merge(g[m], st[m])
        BY <1>1 DEF IsMerged
      <3> QED BY <1>2, <3>1 DEF Merge
    <2>2. x \in Nat /\ y \in Nat
      BY <1>2, <1>3
    <2>3. /\ \A i \in 0 .. m - 1 : f[i] # 0 => x # 0 /\ x <= f[i]
          /\ x # 0 => \E i \in 0 .. m - 1 : f[i] = x
      BY <1>5 DEF Least
    <2>4. \A i \in 0 .. m : i \in 0 .. m - 1 \/ i = m
      OBVIOUS
    <2>5. \A i \in 0 .. m : f[i] \in Nat
      BY <1>2
    <2>6. m + 1 - 1 = m /\ 0 .. m - 1 \subseteq 0 .. m /\ m \in 0 .. m
      OBVIOUS
    <2>7. f[m] = y
      OBVIOUS
    <2> HIDE DEF x, y, z
    <2>8. ASSUME NEW i \in 0 .. m, f[i] # 0 PROVE z # 0 /\ z <= f[i]
      <3>1. CASE i \in 0 .. m - 1
        BY <2>1, <2>2, <2>3, <2>5, <2>8, <3>1
      <3>2. CASE i = m
        BY <2>1, <2>2, <2>7, <2>8, <3>2
      <3> QED BY <2>4, <3>1, <3>2
    <2>9. ASSUME z # 0 PROVE \E i \in 0 .. m : f[i] = z
      <3>1. CASE z = y
        BY <2>6, <2>7, <3>1
      <3>2. CASE z = x
        BY <2>3, <2>6, <2>9, <3>2
      <3> QED BY <2>1, <3>1, <3>2
    <2> QED BY <2>6, <2>8, <2>9 DEF Least, z
  <1>6. \A m \in 0 .. n - 1 : m \in T => m + 1 \in T
    BY <1>5
  <1> HIDE DEF T
  <1>7. n \in T
    BY <1>4, <1>6, UpTo
  <1> QED BY <1>1, <1>7 DEF T, f

\* A packet more in one of the statistics is a packet more in all of them together.
CountedAt(st, su, i, size, l, n) ==
    /\ st \in [0 .. n - 1 -> Stat] /\ su \in [0 .. n - 1 -> Stat] /\ i \in 0 .. n - 1
    /\ size \in Nat /\ l \in Nat \ {0}
    /\ su[i] = Counted(st[i], size, l) /\ \A m \in 0 .. n - 1 : m # i => su[m] = st[m]

LEMMA MergedCounted ==
    ASSUME NEW n \in Nat, NEW st, NEW su, NEW i, NEW size, NEW l, CountedAt(st, su, i, size, l, n)
    PROVE  MergedOf(su, n) = Counted(MergedOf(st, n), size, l)
  <1>1. /\ st \in [0 .. n - 1 -> Stat] /\ su \in [0 .. n - 1 -> Stat] /\ i \in 0 .. n - 1
        /\ size \in Nat /\ l \in Nat \ {0}
        /\ su[i] = Counted(st[i], size, l) /\ \A m \in 0 .. n - 1 : m # i => su[m] = st[m]
    BY Zenon DEF CountedAt
  <1>2. PICK g : IsMerged(g, st, n) /\ MergedOf(st, n) = g[n]
    BY <1>1, MergedIs
  <1>3. PICK h : IsMerged(h, su, n) /\ MergedOf(su, n) = h[n]
    BY <1>1, MergedIs
  <1>4. \A m \in 0 .. n - 1 : /\ g[m + 1] = Merge(g[m], st[m]) /\ h[m + 1] = Merge(h[m], su[m])
                              /\ g[m] \in Stat /\ h[m] \in Stat
    BY <1>2, <1>3 DEF IsMerged
  <1> DEFINE P(m) == IF m > i THEN h[m] = Counted(g[m], size, l) ELSE h[m] = g[m]
             T == {m \in 0 .. n : P(m)}
  <1>5. 0 \in T
    BY <1>1, <1>2, <1>3 DEF IsMerged
  <1>6. ASSUME NEW m \in 0 .. n - 1, P(m) PROVE P(m + 1)
    <2>1. CASE m = i
      <3>1. h[m] = g[m] /\ su[m] = Counted(st[m], size, l)
        BY <1>1, <1>6, <2>1
      <3>2. h[m + 1] = Counted(g[m + 1], size, l)
        BY <1>1, <1>4, <3>1, CountThenMerge
      <3> QED BY <2>1, <3>2
    <2>2. CASE m < i
      <3>1. h[m] = g[m] /\ su[m] = st[m] /\ ~(m + 1 > i)
        BY <1>1, <1>6, <2>2
      <3> QED BY <1>4, <3>1
    <2>3. CASE m > i
      <3>1. h[m] = Counted(g[m], size, l) /\ su[m] = st[m] /\ m + 1 > i
        BY <1>1, <1>6, <2>3
      <3>2. h[m + 1] = Counted(g[m + 1], size, l)
        BY <1>1, <1>4, <3>1, CountThenMerge
      <3> QED BY <3>1, <3>2
    <2> QED BY <1>1, <2>1, <2>2, <2>3
  <1>7. \A m \in 0 .. n - 1 : m \in T => m + 1 \in T
    BY <1>6
  <1>8. n > i /\ n \in 0 .. n /\ i \in Nat
    BY <1>1
  <1> HIDE DEF T
  <1>9. n \in T
    BY <1>5, <1>7, UpTo
  <1> QED BY <1>2, <1>3, <1>8, <1>9 DEF T

LEMMA MergedNothing ==
    ASSUME NEW n \in Nat, NEW st \in [0 .. n - 1 -> Stat], \A m \in 0 .. n - 1 : st[m] = Nil
    PROVE  MergedOf(st, n) = Nil
  <1>1. PICK g : IsMerged(g, st, n) /\ MergedOf(st, n) = g[n]
    BY MergedIs
  <1>2. Merge(Nil, Nil) = Nil
    BY DEF Merge, Nil
  <1> DEFINE T == {m \in 0 .. n : g[m] = Nil}
  <1>3. 0 \in T
    BY <1>1 DEF IsMerged
  <1>4. \A m \in 0 .. n - 1 : m \in T => m + 1 \in T
    BY <1>1, <1>2 DEF IsMerged
  <1> HIDE DEF T
  <1>5. n \in T
    BY <1>3, <1>4, UpTo
  <1> QED BY <1>1, <1>5 DEF T

Square(n) == (0 .. n - 1) \X (0 .. n - 1)

\* The sums of a row and of a matrix are additive.
IsPlus(X, Y, Z, n) ==
    /\ X \in [Square(n) -> Int] /\ Y \in [Square(n) -> Int] /\ Z \in [Square(n) -> Int]
    /\ \A i, j \in 0 .. n - 1 : Z[<<i, j>>] = X[<<i, j>>] + Y[<<i, j>>]

\* Rows and matrices are summed element by element.
LEMMA MatrixAdd ==
    ASSUME NEW n \in Nat, NEW X, NEW Y, NEW Z, IsPlus(X, Y, Z, n)
    PROVE  /\ \A i \in 0 .. n - 1 :
                 /\ RowSum(X, i, n) \in Int /\ RowSum(Y, i, n) \in Int
                 /\ RowSum(Z, i, n) = RowSum(X, i, n) + RowSum(Y, i, n)
           /\ RowSums(X, n) \in Int /\ RowSums(Y, n) \in Int
           /\ RowSums(Z, n) = RowSums(X, n) + RowSums(Y, n)
  <1> DEFINE E == 0 .. n - 1
             row(M, i) == [j \in E |-> M[<<i, j>>]]
             rows(M) == [i \in E |-> RowSum(M, i, n)]
  <1>0. /\ X \in [Square(n) -> Int] /\ Y \in [Square(n) -> Int] /\ Z \in [Square(n) -> Int]
        /\ \A i, j \in E : Z[<<i, j>>] = X[<<i, j>>] + Y[<<i, j>>]
    BY DEF IsPlus
  <1>1. \A M \in [Square(n) -> Int], i \in E : row(M, i) \in [E -> Int]
    BY DEF Square
  <1>2. \A i, j \in E : row(Z, i)[j] = row(X, i)[j] + row(Y, i)[j]
    BY <1>0
  <1>3. \A M, i : RowSum(M, i, n) = SumOf(row(M, i), n)
    BY DEF RowSum
  <1> HIDE DEF row
  <1>4. ASSUME NEW i \in E PROVE RowSum(Z, i, n) = RowSum(X, i, n) + RowSum(Y, i, n)
    <2>1. row(X, i) \in [E -> Int] /\ row(Y, i) \in [E -> Int] /\ row(Z, i) \in [E -> Int]
      BY <1>0, <1>1
    <2>2. \A j \in E : row(Z, i)[j] = row(X, i)[j] + row(Y, i)[j]
      BY <1>2
    <2>3. SumOf(row(Z, i), n) = SumOf(row(X, i), n) + SumOf(row(Y, i), n)
      BY <2>1, <2>2, SumAdd
    <2> QED BY <1>3, <2>3, Zenon
  <1>5. \A M \in [Square(n) -> Int], i \in E : RowSum(M, i, n) \in Int
    <2> SUFFICES ASSUME NEW M \in [Square(n) -> Int], NEW i \in E PROVE RowSum(M, i, n) \in Int
      OBVIOUS
    <2>1. row(M, i) \in [E -> Int]
      BY <1>1
    <2>2. SumOf(row(M, i), n) \in Int
      BY <2>1, SumInt
    <2> QED BY <1>3, <2>2, Zenon
  <1>6. rows(X) \in [E -> Int] /\ rows(Y) \in [E -> Int] /\ rows(Z) \in [E -> Int]
    BY <1>0, <1>5
  <1>7. \A i \in E : rows(Z)[i] = rows(X)[i] + rows(Y)[i]
    BY <1>4
  <1>8. /\ RowSums(X, n) = SumOf(rows(X), n) /\ RowSums(Y, n) = SumOf(rows(Y), n)
        /\ RowSums(Z, n) = SumOf(rows(Z), n)
    BY DEF RowSums
  <1> HIDE DEF rows
  <1>9. SumOf(rows(Z), n) = SumOf(rows(X), n) + SumOf(rows(Y), n)
    BY <1>6, <1>7, SumAdd
  <1>10. SumOf(rows(X), n) \in Int /\ SumOf(rows(Y), n) \in Int
    BY <1>6, SumInt
  <1> QED BY <1>0, <1>4, <1>5, <1>8, <1>9, <1>10, Zenon

\* A matrix of ones in the columns T[i] of row i, and its sums.
LEMMA RowsOfSets ==
    ASSUME NEW n \in Nat, NEW T \in [0 .. n - 1 -> SUBSET (0 .. n - 1)], NEW X,
           X = [e \in Square(n) |-> IF e[2] \in T[e[1]] THEN 1 ELSE 0]
    PROVE  /\ X \in [Square(n) -> Int]
           /\ \A i \in 0 .. n - 1 : RowSum(X, i, n) = Cardinality(T[i]) /\ Cardinality(T[i]) \in Nat
           /\ RowSums(X, n) = SumOf([i \in 0 .. n - 1 |-> Cardinality(T[i])], n)
  <1>1. X \in [Square(n) -> Int]
    OBVIOUS
  <1>2. ASSUME NEW i \in 0 .. n - 1
        PROVE RowSum(X, i, n) = Cardinality(T[i]) /\ Cardinality(T[i]) \in Nat
    <2>1. T[i] \in SUBSET (0 .. n - 1)
      OBVIOUS
    <2>2. [j \in 0 .. n - 1 |-> X[<<i, j>>]] = [j \in 0 .. n - 1 |-> IF j \in T[i] THEN 1 ELSE 0]
      BY DEF Square
    <2>3. /\ IsFiniteSet(T[i])
          /\ SumOf([j \in 0 .. n - 1 |-> IF j \in T[i] THEN 1 ELSE 0], n) = Cardinality(T[i])
      BY <2>1, SumSet
    <2> QED BY <2>2, <2>3, FS_CardinalityType DEF RowSum
  <1>3. RowSums(X, n) = SumOf([i \in 0 .. n - 1 |-> Cardinality(T[i])], n)
    <2>1. [i \in 0 .. n - 1 |-> RowSum(X, i, n)] = [i \in 0 .. n - 1 |-> Cardinality(T[i])]
      BY <1>2
    <2> QED BY <2>1 DEF RowSums
  <1> QED BY <1>1, <1>2, <1>3

\* The same by columns, for at most one row of each.
LEMMA ColumnsOfOnes ==
    ASSUME NEW n \in Nat, NEW D \in SUBSET (0 .. n - 1), NEW r \in [D -> 0 .. n - 1], NEW X,
           X = [e \in Square(n) |-> IF e[2] \in D /\ r[e[2]] = e[1] THEN 1 ELSE 0]
    PROVE  X \in [Square(n) -> Int] /\ RowSums(X, n) = Cardinality(D) /\ Cardinality(D) \in Nat
  <1> DEFINE E == 0 .. n - 1
  <1>1. X \in [Square(n) -> Int]
    OBVIOUS
  <1>2. ASSUME NEW j \in E PROVE ColumnSum(X, j, n) = IF j \in D THEN 1 ELSE 0
    <2> DEFINE c == [i \in E |-> X[<<i, j>>]]
    <2>0. \A i \in E : X[<<i, j>>] = IF j \in D /\ r[j] = i THEN 1 ELSE 0
      BY DEF Square
    <2>a. \A i \in E : X[<<i, j>>] \in Int
      BY <1>1 DEF Square
    <2>1. c \in [E -> Int] /\ \A i \in E : c[i] = IF j \in D /\ r[j] = i THEN 1 ELSE 0
      BY <2>0, <2>a, Zenon
    <2>2. ColumnSum(X, j, n) = SumOf(c, n)
      BY DEF ColumnSum
    <2> HIDE DEF c
    <2>3. CASE j \in D
      <3>1. r[j] \in E /\ c[r[j]] = 1 /\ \A i \in E : i # r[j] => c[i] = 0
        BY <2>1, <2>3
      <3>2. SumOf(c, n) = c[r[j]]
        BY <2>1, <3>1, SumSingle
      <3> QED BY <2>2, <2>3, <3>1, <3>2
    <2>4. CASE j \notin D
      <3>1. SumOf(c, n) = 0
        BY <2>1, <2>4, SumNothing
      <3> QED BY <2>2, <2>4, <3>1
    <2> QED BY <2>3, <2>4
  <1>3. ColumnSums(X, n) = SumOf([j \in E |-> IF j \in D THEN 1 ELSE 0], n)
    <2>1. [j \in E |-> ColumnSum(X, j, n)] = [j \in E |-> IF j \in D THEN 1 ELSE 0]
      BY <1>2
    <2> QED BY <2>1 DEF ColumnSums
  <1>4. IsFiniteSet(D) /\ ColumnSums(X, n) = Cardinality(D)
    BY <1>3, SumSet
  <1>5. RowSums(X, n) = ColumnSums(X, n)
    BY <1>1, RowsAreColumns DEF Square
  <1> QED BY <1>1, <1>4, <1>5, FS_CardinalityType

\* A matrix of naturals whose sum is 0 has nothing in it.
LEMMA NothingInSum ==
    ASSUME NEW n \in Nat, NEW X \in [Square(n) -> Nat]
    PROVE  /\ RowSums(X, n) \in Nat
           /\ RowSums(X, n) = 0 => \A i, j \in 0 .. n - 1 : X[<<i, j>>] = 0
  <1> DEFINE E == 0 .. n - 1
             row(i) == [j \in E |-> X[<<i, j>>]]
             rows == [i \in E |-> RowSum(X, i, n)]
  <1>1. \A i \in E : row(i) \in [E -> Nat] /\ \A j \in E : row(i)[j] = X[<<i, j>>]
    BY DEF Square
  <1>2. \A i : RowSum(X, i, n) = SumOf(row(i), n)
    BY DEF RowSum
  <1> HIDE DEF row
  <1>3. ASSUME NEW i \in E PROVE RowSum(X, i, n) \in Nat /\ \A j \in E : X[<<i, j>>] <= RowSum(X, i, n)
    <2>1. row(i) \in [E -> Nat]
      BY <1>1
    <2>2. SumOf(row(i), n) \in Nat /\ \A j \in E : row(i)[j] <= SumOf(row(i), n)
      BY <2>1, SumNat
    <2> QED BY <1>1, <1>2, <2>2
  <1>4. rows \in [E -> Nat]
    BY <1>3
  <1>5. SumOf(rows, n) \in Nat /\ \A i \in E : rows[i] <= SumOf(rows, n)
    BY <1>4, SumNat
  <1>6. RowSums(X, n) = SumOf(rows, n) /\ \A i \in E : rows[i] = RowSum(X, i, n)
    BY DEF RowSums
  <1>7. \A i, j \in E : X[<<i, j>>] \in Nat
    BY DEF Square
  <1> HIDE DEF rows
  <1>8. ASSUME RowSums(X, n) = 0, NEW i \in E, NEW j \in E PROVE X[<<i, j>>] = 0
    <2>1. RowSum(X, i, n) \in Nat /\ RowSum(X, i, n) <= 0
      BY <1>3, <1>5, <1>6, <1>8
    <2>2. X[<<i, j>>] \in Nat /\ X[<<i, j>>] <= RowSum(X, i, n)
      BY <1>3, <1>7
    <2> DEFINE a == X[<<i, j>>]
               b == RowSum(X, i, n)
    <2>3. b \in Nat /\ b <= 0 /\ a \in Nat /\ a <= b
      BY <2>1, <2>2, Zenon
    <2> HIDE DEF a, b
    <2>4. a = 0
      BY <2>3
    <2> QED BY <2>4 DEF a
  <1> QED BY <1>5, <1>6, <1>8

-----------------------------------------------------------------------------
(* The flits from one end point to another.                                *)

\* A flit: the last of its packet or not, and the size of the packet.
FlitKind == [tail : BOOLEAN, size : Nat \ {0}]
One(b)   == IF b THEN 1 ELSE 0

\* w goes on where g flits of a packet have been received, and ends where x of one
\* have been sent; p packets have begun and are not received to the end.
IsRun(w, g, p, x, c, q) ==
    /\ c \in [1 .. Len(w) + 1 -> Nat] /\ q \in [1 .. Len(w) + 1 -> Int]
    /\ c[1] = g /\ q[1] = p /\ c[Len(w) + 1] = x /\ q[Len(w) + 1] = One(x > 0)
    /\ \A m \in 1 .. Len(w) : /\ w[m].tail <=> c[m] + 1 = w[m].size
                              /\ c[m + 1] = IF w[m].tail THEN 0 ELSE c[m] + 1
                              /\ q[m + 1] = q[m] - One(w[m].tail)

\* The counts of flits and packets along w are not told.
Run(w, g, p, x) == \E c, q : IsRun(w, g, p, x, c, q)

\* With nothing on its way, what has been received of a packet is what has been sent.
LEMMA RunEmpty ==
    ASSUME NEW g, NEW p, NEW x
    PROVE  /\ Run(<<>>, g, p, x) => g = x /\ p = One(x > 0)
           /\ x \in Nat => Run(<<>>, x, One(x > 0), x)
  <1>1. Len(<<>>) = 0
    OBVIOUS
  <1>2. ASSUME Run(<<>>, g, p, x) PROVE g = x /\ p = One(x > 0)
    BY <1>1, <1>2 DEF Run, IsRun
  <1>3. ASSUME x \in Nat PROVE Run(<<>>, x, One(x > 0), x)
    <2>1. IsRun(<<>>, x, One(x > 0), x, [m \in 1 .. 1 |-> x], [m \in 1 .. 1 |-> One(x > 0)])
      BY <1>1, <1>3 DEF IsRun, One
    <2> QED BY <2>1 DEF Run
  <1> QED BY <1>2, <1>3

\* The first flit is received: it is the last of its packet just when its number is
\* the size of the packet.
LEMMA RunReceive ==
    ASSUME NEW w \in Seq(FlitKind), NEW g \in Nat, NEW p \in Int, NEW x \in Nat,
           Run(w, g, p, x), w # <<>>
    PROVE  /\ Head(w).tail <=> g + 1 = Head(w).size
           /\ Run(Tail(w), IF Head(w).tail THEN 0 ELSE g + 1, p - One(Head(w).tail), x)
  <1>1. PICK c, q : IsRun(w, g, p, x, c, q)
    BY DEF Run
  <1>2. Len(w) \in Nat \ {0} /\ Head(w) = w[1] /\ Len(Tail(w)) = Len(w) - 1
    OBVIOUS
  <1>3. \A m \in 1 .. Len(w) - 1 : Tail(w)[m] = w[m + 1]
    OBVIOUS
  <1> DEFINE n == Len(w)
             cc == [m \in 1 .. n |-> c[m + 1]]
             qq == [m \in 1 .. n |-> q[m + 1]]
  <1>4. Head(w).tail <=> g + 1 = Head(w).size
    BY <1>1, <1>2 DEF IsRun
  <1>5. cc \in [1 .. n -> Nat] /\ qq \in [1 .. n -> Int]
    BY <1>1, <1>2 DEF IsRun
  <1>6. /\ cc[1] = IF Head(w).tail THEN 0 ELSE g + 1
        /\ qq[1] = p - One(Head(w).tail)
        /\ cc[n] = x /\ qq[n] = One(x > 0)
    BY <1>1, <1>2 DEF IsRun
  <1>7. ASSUME NEW m \in 1 .. n - 1
        PROVE /\ Tail(w)[m].tail <=> cc[m] + 1 = Tail(w)[m].size
              /\ cc[m + 1] = IF Tail(w)[m].tail THEN 0 ELSE cc[m] + 1
              /\ qq[m + 1] = qq[m] - One(Tail(w)[m].tail)
    <2>1. m + 1 \in 1 .. n /\ m \in 1 .. n
      BY <1>2
    <2>2. /\ w[m + 1].tail <=> c[m + 1] + 1 = w[m + 1].size
          /\ c[m + 1 + 1] = IF w[m + 1].tail THEN 0 ELSE c[m + 1] + 1
          /\ q[m + 1 + 1] = q[m + 1] - One(w[m + 1].tail)
      BY <1>1, <2>1 DEF IsRun
    <2> QED BY <1>3, <2>1, <2>2
  <1>8. n - 1 + 1 = n
    BY <1>2
  <1> HIDE DEF cc, qq, n
  <1>9. IsRun(Tail(w), IF Head(w).tail THEN 0 ELSE g + 1, p - One(Head(w).tail), x, cc, qq)
    <2>1. Len(Tail(w)) = n - 1
      BY <1>2 DEF n
    <2> QED BY <1>5, <1>6, <1>7, <1>8, <2>1 DEF IsRun
  <1> QED BY <1>4, <1>9 DEF Run

\* One more flit is sent: the last of its packet just when its number is the size.
LEMMA RunSend ==
    ASSUME NEW w \in Seq(FlitKind), NEW g \in Nat, NEW p \in Int, NEW x \in Nat,
           Run(w, g, p, x), NEW f \in FlitKind, f.tail <=> x + 1 = f.size
    PROVE  Run(w \o <<f>>, g, p + One(x = 0), IF f.tail THEN 0 ELSE x + 1)
  <1>1. PICK c, q : IsRun(w, g, p, x, c, q)
    BY DEF Run
  <1> DEFINE n == Len(w)
             v == w \o <<f>>
             y == IF f.tail THEN 0 ELSE x + 1
             cc == [m \in 1 .. n + 2 |-> IF m = n + 2 THEN y ELSE c[m]]
             qq == [m \in 1 .. n + 2 |-> IF m = n + 2 THEN One(y > 0) ELSE q[m] + One(x = 0)]
  <1>2. n \in Nat /\ Len(v) = n + 1 /\ v[n + 1] = f /\ \A m \in 1 .. n : v[m] = w[m]
    OBVIOUS
  <1>3. /\ c \in [1 .. n + 1 -> Nat] /\ q \in [1 .. n + 1 -> Int]
        /\ c[1] = g /\ q[1] = p /\ c[n + 1] = x /\ q[n + 1] = One(x > 0)
    BY <1>1 DEF IsRun
  <1>4. \A m \in 1 .. n : /\ w[m].tail <=> c[m] + 1 = w[m].size
                          /\ c[m + 1] = IF w[m].tail THEN 0 ELSE c[m] + 1
                          /\ q[m + 1] = q[m] - One(w[m].tail)
    BY <1>1 DEF IsRun
  <1>5. y \in Nat
    OBVIOUS
  <1>6. \A b \in BOOLEAN : One(b) \in Int
    BY DEF One
  <1>7. (x > 0) \in BOOLEAN /\ (x = 0) \in BOOLEAN /\ (y > 0) \in BOOLEAN
    OBVIOUS
  <1>8. cc \in [1 .. n + 2 -> Nat]
    BY <1>2, <1>3, <1>5
  <1>9. qq \in [1 .. n + 2 -> Int]
    <2>1. \A m \in 1 .. n + 2 : m # n + 2 => q[m] \in Int
      BY <1>2, <1>3
    <2>2. One(y > 0) \in Int /\ One(x = 0) \in Int
      BY <1>6, <1>7
    <2> HIDE DEF y
    <2> QED BY <2>1, <2>2
  <1>10. cc[1] = g /\ qq[1] = p + One(x = 0) /\ cc[n + 2] = y /\ qq[n + 2] = One(y > 0)
    BY <1>2, <1>3
  <1>11. /\ cc[n + 1] = x /\ qq[n + 1] = One(x > 0) + One(x = 0)
         /\ \A m \in 1 .. n : /\ cc[m] = c[m] /\ cc[m + 1] = c[m + 1]
                              /\ qq[m] = q[m] + One(x = 0) /\ qq[m + 1] = q[m + 1] + One(x = 0)
    BY <1>2, <1>3
  <1>12. y = (IF f.tail THEN 0 ELSE x + 1) /\ f.tail \in BOOLEAN
    BY DEF FlitKind
  <1>13. One(y > 0) = (One(x > 0) + One(x = 0)) - One(f.tail)
    BY <1>12 DEF One
  <1>14. \A m \in 1 .. n : w[m].tail \in BOOLEAN
    <2>1. \A m \in 1 .. n : w[m] \in FlitKind
      OBVIOUS
    <2> QED BY <2>1 DEF FlitKind
  <1> HIDE DEF cc, qq, v, y
  <1>15. ASSUME NEW m \in 1 .. n + 1
         PROVE /\ v[m].tail <=> cc[m] + 1 = v[m].size
               /\ cc[m + 1] = IF v[m].tail THEN 0 ELSE cc[m] + 1
               /\ qq[m + 1] = qq[m] - One(v[m].tail)
    <2>1. CASE m \in 1 .. n
      <3>1. /\ v[m] = w[m] /\ cc[m] = c[m] /\ cc[m + 1] = c[m + 1]
            /\ qq[m] = q[m] + One(x = 0) /\ qq[m + 1] = q[m + 1] + One(x = 0)
        BY <1>2, <1>11, <2>1
      <3>2. q[m] \in Int /\ One(x = 0) \in Int /\ One(w[m].tail) \in Int
        BY <1>3, <1>6, <1>7, <1>14, <2>1
      <3>3. q[m + 1] = q[m] - One(w[m].tail)
        BY <1>4, <2>1
      <3>4. qq[m + 1] = qq[m] - One(v[m].tail)
        BY <3>1, <3>2, <3>3
      <3> QED BY <1>4, <2>1, <3>1, <3>4
    <2>2. CASE m = n + 1
      <3>1. m + 1 = n + 2
        BY <1>2, <2>2
      <3>2. v[m] = f /\ cc[m] = x /\ qq[m] = One(x > 0) + One(x = 0)
        BY <1>2, <1>11, <2>2
      <3>3. cc[m + 1] = y /\ qq[m + 1] = One(y > 0)
        BY <1>10, <3>1
      <3>4. /\ v[m].tail <=> cc[m] + 1 = v[m].size
            /\ cc[m + 1] = IF v[m].tail THEN 0 ELSE cc[m] + 1
        BY <1>12, <3>2, <3>3
      <3>5. qq[m + 1] = qq[m] - One(v[m].tail)
        <4>1. One(v[m].tail) = One(f.tail)
          BY <3>2, Zenon
        <4>2. qq[m + 1] = qq[m] - One(f.tail)
          BY <1>13, <3>2, <3>3, Zenon
        <4> QED BY <4>1, <4>2, Zenon
      <3> QED BY <3>4, <3>5
    <2> QED BY <1>2, <2>1, <2>2
  <1>16. n + 1 + 1 = n + 2
    BY <1>2
  <1> HIDE DEF n
  <1>17. IsRun(v, g, p + One(x = 0), y, cc, qq)
    BY <1>2, <1>8, <1>9, <1>10, <1>15, <1>16 DEF IsRun
  <1> QED BY <1>17 DEF Run, v, y

-----------------------------------------------------------------------------
(* A cycle of the traffic with setting s.                                  *)

\* End points, and pairs of a sender and a receiver.
Ends(s)  == 0 .. s.ne - 1
Pairs(s) == Square(s.ne)

\* d receives a flit of i; i sends a flit to d, and which.
Takes(from, i, d) == d \in DOMAIN from /\ from[d] = i
Puts(S, i, d)     == i \in S /\ d \in Head(queue[i]).dst
EndsPacket(i)     == sent[i] + 1 = Head(queue[i]).size
NewFlit(i)        == [tail |-> EndsPacket(i), size |-> Head(queue[i]).size]

\* The flits of a packet on its way that i has sent to d.
Coming(i, d) == IF sent[i] > 0 /\ d \in Head(queue[i]).dst THEN sent[i] ELSE 0

\* What kind of values the counters, statistics, flits and packets are.
Kinds(s) ==
    /\ clk \in Nat /\ idle \in Nat
    /\ total \in [sentPck : Nat, sentFlit : Nat, expect : Nat, rsvPck : Nat, rsvFlit : Nat]
    /\ sentStat \in [Ends(s) -> Stat] /\ rsvdStat \in [Ends(s) -> Stat]
    /\ endpToEndp \in [Pairs(s) -> Stat] /\ net \in [Pairs(s) -> Seq(FlitKind)]
    /\ sent \in [Ends(s) -> Nat]
    /\ \A i \in Ends(s) : /\ queue[i] \in Seq(Traffic(s)!Packets(i))
                          /\ nextPck[i] \in Traffic(s)!Packets(i)
                          /\ sent[i] > 0 => queue[i] # <<>>

\* A cycle and what the environment chooses in it.
CycleOf(s, S, from, G, new, off, lat) ==
    /\ S \in SUBSET Traffic(s)!CanSend /\ from \in Traffic(s)!Arrivals
    /\ G \in SUBSET Traffic(s)!Endp /\ lat \in s.latency
    /\ new \in Traffic(s)!NewPackets(S) /\ off \in SUBSET S
    /\ Traffic(s)!Cycle(S, from, G, new, off, lat)

\* What the assumption says of a setting.
LEMMA SettingValues ==
    ASSUME NEW s, Traffic(s)!TrafficAssumption
    PROVE  /\ s.ne \in Nat \ {0} /\ s.latency \subseteq Nat \ {0} /\ s.sizes \subseteq Nat \ {0}
           /\ s.endPck \in Nat /\ s.endClk \in Nat /\ s.idleLimit \in Nat /\ s.idleLimit >= 2
           /\ Traffic(s)!Endp = Ends(s) /\ Ends(s) \X Ends(s) = Pairs(s)
  BY DEF Traffic!TrafficAssumption, Traffic!Endp, Ends, Pairs, Square

\* The loops of the model with setting s.
LEMMA LoopsAre ==
    ASSUME NEW s, NEW f
    PROVE  Traffic(s)!Sum(f) = SumOf(f, s.ne) /\ Traffic(s)!Merged(f) = MergedOf(f, s.ne)
  BY DEF Traffic!Sum, SumOf, Traffic!Merged, MergedOf, Traffic!MergeStatistic, Merge, Traffic!NoStat, Nil

\* Cardinality in the instance is that of this module.
LEMMA SameCardinality ==
    ASSUME NEW s, NEW T PROVE Traffic(s)!Cardinality(T) = Cardinality(T)
  BY DEF Traffic!Cardinality, Cardinality

\* What is known of a packet.
LEMMA PacketKind ==
    ASSUME NEW s, Traffic(s)!TrafficAssumption, NEW i \in Ends(s), NEW p \in Traffic(s)!Packets(i)
    PROVE  /\ p.dst \in SUBSET Ends(s) /\ p.dst # {} /\ p.size \in Nat \ {0}
           /\ Traffic(s)!ExpectedOfFlit(p) = Cardinality(p.dst)
           /\ ~s.multicast => Cardinality(p.dst) = 1
  <1>1. s.sizes \subseteq Nat \ {0} /\ Traffic(s)!Endp = Ends(s) /\ s.multicast \in BOOLEAN
    BY SettingValues DEF Traffic!TrafficAssumption
  <1>2. CASE s.multicast
    <2>1. p \in [dst : (SUBSET Ends(s)) \ {{}}, size : s.sizes]
      BY <1>1, <1>2 DEF Traffic!Packets
    <2>2. Traffic(s)!ExpectedOfFlit(p) = Cardinality(p.dst)
      BY <1>2, SameCardinality DEF Traffic!ExpectedOfFlit
    <2> QED BY <1>1, <1>2, <2>1, <2>2
  <1>3. CASE ~s.multicast
    <2>1. p \in [dst : {{d} : d \in Ends(s) \ {i}}, size : s.sizes]
      BY <1>1, <1>3 DEF Traffic!Packets
    <2>2. PICK d \in Ends(s) : p.dst = {d}
      BY <2>1
    <2>3. Cardinality(p.dst) = 1
      BY <2>2, FS_Singleton
    <2>4. Traffic(s)!ExpectedOfFlit(p) = 1
      BY <1>3 DEF Traffic!ExpectedOfFlit
    <2>5. p.size \in s.sizes
      BY <2>1
    <2> QED BY <1>1, <1>3, <2>2, <2>3, <2>4, <2>5
  <1> QED BY <1>1, <1>2, <1>3

\* The senders, arrivals, packets and latency that a cycle may have.
Chosen(s, S, from, new, lat) ==
    /\ S \in SUBSET Ends(s) /\ \A i \in S : queue[i] # <<>>
    /\ DOMAIN from \in SUBSET Ends(s) /\ from \in [DOMAIN from -> Ends(s)]
    /\ \A d \in DOMAIN from : net[<<from[d], d>>] # <<>>
    /\ lat \in Nat \ {0} /\ lat \in s.latency
    /\ ~simulationDone /\ ~failed
    /\ \A i \in Ends(s) : i \in S /\ sent[i] = 0 => new[i] \in Traffic(s)!Packets(i)

\* A cycle has such choices.
LEMMA CycleChoices ==
    ASSUME NEW s, NEW S, NEW from, NEW G, NEW new, NEW off, NEW lat,
           CycleOf(s, S, from, G, new, off, lat), Traffic(s)!TrafficAssumption
    PROVE  Chosen(s, S, from, new, lat)
  <1>1. s.latency \subseteq Nat \ {0} /\ Traffic(s)!Endp = Ends(s)
    BY SettingValues
  <1>2. S \in SUBSET Ends(s) /\ \A i \in S : queue[i] # <<>>
    BY <1>1 DEF CycleOf, Traffic!CanSend
  <1>3. PICK D \in SUBSET Ends(s) :
            from \in {f \in [D -> Ends(s)] : \A d \in D : net[f[d], d] # <<>>}
    BY <1>1 DEF CycleOf, Traffic!Arrivals
  <1>4. ~simulationDone /\ ~failed
    BY DEF CycleOf, Traffic!Cycle
  <1>5. \A i \in Ends(s) : i \in S /\ sent[i] = 0 => new[i] \in Traffic(s)!Packets(i)
    BY <1>2 DEF CycleOf, Traffic!NewPackets, Traffic!IsHeader
  <1> QED BY <1>1, <1>2, <1>3, <1>4, <1>5 DEF CycleOf, Chosen

\* The totals after a cycle.
LEMMA CycleTotals ==
    ASSUME NEW s, NEW S, NEW from, NEW G, NEW new, NEW off, NEW lat,
           CycleOf(s, S, from, G, new, off, lat), Traffic(s)!TrafficAssumption
    PROVE  total' = [sentPck  |-> total.sentPck + Cardinality({i \in S : sent[i] = 0}),
                     sentFlit |-> total.sentFlit + Cardinality(S),
                     expect   |-> total.expect +
                         SumOf([i \in Ends(s) |->
                            IF i \in S THEN Traffic(s)!ExpectedOfFlit(Head(queue[i])) ELSE 0], s.ne),
                     rsvPck   |-> total.rsvPck +
                         Cardinality({d \in DOMAIN from : Head(net[<<from[d], d>>]).tail}),
                     rsvFlit  |-> total.rsvFlit + Cardinality(DOMAIN from)]
  <1>1. Traffic(s)!Endp = Ends(s)
    BY SettingValues
  <1>2. total' = Traffic(s)!TotalNext(S, from)
    BY DEF CycleOf, Traffic!Cycle
  <1> QED BY <1>1, <1>2, LoopsAre, SameCardinality, Zenon
          DEF Traffic!TotalNext, Traffic!IsHeader, Traffic!Tails

\* The generators and the flits in the network after a cycle.
NetworkMoves(s, S, from, G, new) ==
    /\ net' = [e \in Pairs(s) |->
                 (IF Takes(from, e[1], e[2]) THEN Tail(net[e]) ELSE net[e]) \o
                 (IF Puts(S, e[1], e[2]) THEN <<NewFlit(e[1])>> ELSE <<>>)]
    /\ sent' = [i \in Ends(s) |-> IF i \notin S THEN sent[i]
                                  ELSE IF EndsPacket(i) THEN 0 ELSE sent[i] + 1]
    /\ queue' = [i \in Ends(s) |->
                   (IF i \in S /\ EndsPacket(i) THEN Tail(queue[i]) ELSE queue[i])
                   \o (IF i \in G THEN <<nextPck[i]>> ELSE <<>>)]
    /\ nextPck' = [i \in Ends(s) |-> IF i \in S /\ sent[i] = 0 THEN new[i] ELSE nextPck[i]]
    /\ \A i \in Ends(s) :
          sent[i] > 0 /\ i \notin S /\ queue[i] # <<>> =>
             \E d \in Ends(s) : Len(net[<<i, d>>]) > One(Takes(from, i, d))

\* A cycle moves them so.
LEMMA CycleNetwork ==
    ASSUME NEW s, NEW S, NEW from, NEW G, NEW new, NEW off, NEW lat,
           CycleOf(s, S, from, G, new, off, lat), Traffic(s)!TrafficAssumption
    PROVE  NetworkMoves(s, S, from, G, new)
  <1>1. Traffic(s)!Endp = Ends(s) /\ Ends(s) \X Ends(s) = Pairs(s)
    BY SettingValues
  <1>2. Traffic(s)!Generators(S, from, G) /\ Traffic(s)!SetGenerators(S, new, off)
    BY DEF CycleOf, Traffic!Cycle
  <1>3. net' = [e \in Pairs(s) |->
                  (IF Takes(from, e[1], e[2]) THEN Tail(net[e]) ELSE net[e]) \o
                  (IF Puts(S, e[1], e[2]) THEN <<NewFlit(e[1])>> ELSE <<>>)]
    BY <1>1, <1>2, Zenon
    DEF Traffic!Generators, Traffic!Flits, Traffic!IsTail, Takes, Puts, NewFlit, EndsPacket
  <1>4. sent' = [i \in Ends(s) |-> IF i \notin S THEN sent[i]
                                   ELSE IF EndsPacket(i) THEN 0 ELSE sent[i] + 1]
    BY <1>1, <1>2, Zenon DEF Traffic!Generators, Traffic!IsTail, EndsPacket
  <1>5. queue' = [i \in Ends(s) |->
                    (IF i \in S /\ EndsPacket(i) THEN Tail(queue[i]) ELSE queue[i])
                    \o (IF i \in G THEN <<nextPck[i]>> ELSE <<>>)]
    BY <1>1, <1>2, Zenon DEF Traffic!Generators, Traffic!IsTail, EndsPacket
  <1>6. nextPck' = [i \in Ends(s) |-> IF i \in S /\ sent[i] = 0 THEN new[i] ELSE nextPck[i]]
    BY <1>1, <1>2 DEF Traffic!SetGenerators, Traffic!IsHeader
  <1>7. Traffic(s)!MustSend(from) \subseteq S
    BY DEF CycleOf, Traffic!Cycle
  <1>8. ASSUME NEW i \in Ends(s), sent[i] > 0, i \notin S, queue[i] # <<>>
        PROVE  \E d \in Ends(s) : Len(net[<<i, d>>]) > One(Takes(from, i, d))
    BY <1>1, <1>7, <1>8 DEF Traffic!MustSend, Traffic!CanSend, Traffic!StaysInNet, One, Takes
  <1> QED BY <1>3, <1>4, <1>5, <1>6, <1>8 DEF NetworkMoves

\* One field of a statistic is changed.
LEMMA StatExcept ==
    ASSUME NEW a \in Stat, NEW x \in Nat
    PROVE  /\ [a EXCEPT !.pck = x]   = [pck |-> x, flit |-> a.flit, worst |-> a.worst, min |-> a.min]
           /\ [a EXCEPT !.flit = x]  = [pck |-> a.pck, flit |-> x, worst |-> a.worst, min |-> a.min]
           /\ [a EXCEPT !.worst = x] = [pck |-> a.pck, flit |-> a.flit, worst |-> x, min |-> a.min]
           /\ [a EXCEPT !.min = x]   = [pck |-> a.pck, flit |-> a.flit, worst |-> a.worst, min |-> x]
           /\ [a EXCEPT !.pck = x] \in Stat /\ [a EXCEPT !.flit = x] \in Stat
           /\ [a EXCEPT !.worst = x] \in Stat /\ [a EXCEPT !.min = x] \in Stat
  BY DEF Stat

\* The code's update of a statistic.
LEMMA UpdateIsCounted ==
    ASSUME NEW s, NEW a \in Stat, NEW size \in Nat, NEW l \in Nat
    PROVE  /\ Traffic(s)!UpdateRsvdSt(a, size, l) = Counted(a, size, l)
           /\ Traffic(s)!WithLatency(a, l) =
                 [pck |-> a.pck, flit |-> a.flit, worst |-> Later(a.worst, l), min |-> Earlier(a.min, l)]
  <1>1. ASSUME NEW b \in Stat
        PROVE  Traffic(s)!WithLatency(b, l) =
                 [pck |-> b.pck, flit |-> b.flit, worst |-> Later(b.worst, l), min |-> Earlier(b.min, l)]
    <2> DEFINE x == Later(b.worst, l)
               y == Earlier(b.min, l)
               d == [b EXCEPT !.worst = x]
    <2>1. x \in Nat /\ y \in Nat
      BY StatRecord DEF Later, Earlier
    <2>2. Traffic(s)!WithLatency(b, l) = [d EXCEPT !.min = IF b.min = 0 \/ b.min > l THEN l ELSE @]
      <3>1. \A u : [b EXCEPT !.worst = u].min = b.min
        BY DEF Stat
      <3> QED BY <3>1 DEF Traffic!WithLatency, Later
    <2>3. d = [pck |-> b.pck, flit |-> b.flit, worst |-> x, min |-> b.min] /\ d \in Stat
      BY <2>1, StatExcept
    <2>4. Traffic(s)!WithLatency(b, l) = [d EXCEPT !.min = y]
      BY <2>2, <2>3 DEF Earlier
    <2> HIDE DEF d
    <2>5. [d EXCEPT !.min = y] = [pck |-> d.pck, flit |-> d.flit, worst |-> d.worst, min |-> y]
      <3>1. d \in Stat
        BY <2>3
      <3> HIDE DEF x, y
      <3> QED BY <2>1, <3>1, StatExcept, Zenon
    <2> QED BY <2>3, <2>4, <2>5
  <1> DEFINE c == [a EXCEPT !.pck = @ + 1, !.flit = @ + size]
  <1>2. c \in Stat /\ c = [pck |-> a.pck + 1, flit |-> a.flit + size, worst |-> a.worst, min |-> a.min]
    <2> DEFINE d == [a EXCEPT !.pck = a.pck + 1]
    <2>1. a.pck + 1 \in Nat /\ a.flit + size \in Nat
      BY StatRecord
    <2>2. d = [pck |-> a.pck + 1, flit |-> a.flit, worst |-> a.worst, min |-> a.min] /\ d \in Stat
      BY <2>1, StatExcept
    <2>3. c = [d EXCEPT !.flit = a.flit + size]
      BY <2>2
    <2> HIDE DEF c, d
    <2>4. [d EXCEPT !.flit = a.flit + size]
            = [pck |-> d.pck, flit |-> a.flit + size, worst |-> d.worst, min |-> d.min]
      <3>1. d \in Stat
        BY <2>2
      <3> QED BY <2>1, <3>1, StatExcept, Zenon
    <2>5. [d EXCEPT !.flit = a.flit + size] \in Stat
      BY <2>1, <2>2, StatExcept
    <2> QED BY <2>2, <2>3, <2>4, <2>5
  <1>3. Traffic(s)!UpdateRsvdSt(a, size, l) = Traffic(s)!WithLatency(c, l)
    BY DEF Traffic!UpdateRsvdSt
  <1> HIDE DEF c
  <1>4. Traffic(s)!WithLatency(c, l) = Counted(a, size, l)
    BY <1>1, <1>2 DEF Counted
  <1> QED BY <1>1, <1>3, <1>4

\* What end point d receives at last of a packet from i.
TakesLast(from, i, d) == Takes(from, i, d) /\ Head(net[<<i, d>>]).tail

\* The flit that d receives of i.
LEMMA TakenFlit ==
    ASSUME NEW s, NEW S, NEW from, NEW new, NEW lat, Chosen(s, S, from, new, lat), Kinds(s),
           NEW i \in Ends(s), NEW d \in Ends(s), Takes(from, i, d)
    PROVE  net[<<i, d>>] \in Seq(FlitKind) /\ net[<<i, d>>] # <<>> /\ Head(net[<<i, d>>]) \in FlitKind
  <1>1. net[<<i, d>>] # <<>>
    BY DEF Chosen, Takes
  <1>2. net[<<i, d>>] \in Seq(FlitKind)
    BY DEF Kinds, Pairs, Square, Ends
  <1>3. \A w \in Seq(FlitKind) : w # <<>> => Head(w) \in FlitKind
    OBVIOUS
  <1> QED BY <1>1, <1>2, <1>3, Zenon

\* The statistics after a cycle.
StatisticsMove(s, S, from, lat) ==
    /\ endpToEndp' \in [Pairs(s) -> Stat]
    /\ \A i, d \in Ends(s) :
          endpToEndp'[<<i, d>>] =
             IF TakesLast(from, i, d)
             THEN Counted(endpToEndp[<<i, d>>], Head(net[<<i, d>>]).size, lat) ELSE endpToEndp[<<i, d>>]
    /\ rsvdStat' \in [Ends(s) -> Stat]
    /\ \A d \in Ends(s) :
          rsvdStat'[d] = IF d \in DOMAIN from /\ Head(net[<<from[d], d>>]).tail
                         THEN Counted(rsvdStat[d], Head(net[<<from[d], d>>]).size, lat)
                         ELSE rsvdStat[d]
    /\ sentStat' \in [Ends(s) -> Stat]
    /\ \A i \in Ends(s) :
          /\ sentStat'[i].pck  = sentStat[i].pck + One(i \in S /\ sent[i] = 0)
          /\ sentStat'[i].flit = sentStat[i].flit + One(i \in S)
          /\ sentStat'[i].min  = IF \E d \in Ends(s) : TakesLast(from, i, d)
                                 THEN Earlier(sentStat[i].min, lat) ELSE sentStat[i].min

\* A cycle updates the statistics so.
LEMMA CycleStatistics ==
    ASSUME NEW s, NEW S, NEW from, NEW G, NEW new, NEW off, NEW lat,
           CycleOf(s, S, from, G, new, off, lat), Traffic(s)!TrafficAssumption, Kinds(s)
    PROVE  StatisticsMove(s, S, from, lat)
  <1>1. Traffic(s)!Endp = Ends(s) /\ Ends(s) \X Ends(s) = Pairs(s)
    BY SettingValues
  <1>2. /\ endpToEndp' = Traffic(s)!EndpToEndpNext(from, lat)
        /\ rsvdStat' = Traffic(s)!RsvdStatNext(from, lat)
        /\ sentStat' = Traffic(s)!SentStatNext(S, from, lat)
    BY DEF CycleOf, Traffic!Cycle
  <1>c. Chosen(s, S, from, new, lat)
    BY CycleChoices
  <1>3. /\ \A d \in DOMAIN from : d \in Ends(s) /\ from[d] \in Ends(s) /\ Takes(from, from[d], d)
        /\ \A i, d \in Ends(s) : Takes(from, i, d) => d \in DOMAIN from /\ from[d] = i
        /\ lat \in Nat
    <2>1. DOMAIN from \in SUBSET Ends(s) /\ from \in [DOMAIN from -> Ends(s)] /\ lat \in Nat
      BY <1>c DEF Chosen
    <2> QED BY <2>1 DEF Takes
  <1>4. \A d : d \in Traffic(s)!Tails(from) <=> d \in DOMAIN from /\ Head(net[<<from[d], d>>]).tail
    BY DEF Traffic!Tails
  <1>5. \A i, d \in Ends(s) : d \in Traffic(s)!Tails(from) /\ from[d] = i <=> TakesLast(from, i, d)
    BY <1>3, <1>4 DEF TakesLast
  <1>6. ASSUME NEW i \in Ends(s), NEW d \in Ends(s), Takes(from, i, d)
        PROVE  Head(net[<<i, d>>]).size \in Nat
    BY <1>c, <1>6, TakenFlit DEF FlitKind
  <1>7. \A i, d \in Ends(s) : endpToEndp[<<i, d>>] \in Stat
    BY DEF Kinds, Pairs, Square, Ends
  <1>8. \A i \in Ends(s) : sentStat[i] \in Stat /\ rsvdStat[i] \in Stat
    BY DEF Kinds
  <1>9. ASSUME NEW i \in Ends(s), NEW d \in Ends(s)
        PROVE  endpToEndp'[<<i, d>>] =
                  IF TakesLast(from, i, d)
                  THEN Counted(endpToEndp[<<i, d>>], Head(net[<<i, d>>]).size, lat) ELSE endpToEndp[<<i, d>>]
    <2>1. endpToEndp'[<<i, d>>] =
             IF d \in Traffic(s)!Tails(from) /\ from[d] = i
             THEN Traffic(s)!UpdateRsvdSt(endpToEndp[<<i, d>>], Head(net[<<from[d], d>>]).size, lat)
             ELSE endpToEndp[<<i, d>>]
      BY <1>1, <1>2 DEF Traffic!EndpToEndpNext, Traffic!SizeFrom
    <2>2. CASE TakesLast(from, i, d)
      <3>1. d \in Traffic(s)!Tails(from) /\ from[d] = i
        BY <1>5, <2>2
      <3>2. Head(net[<<i, d>>]).size \in Nat /\ endpToEndp[<<i, d>>] \in Stat /\ lat \in Nat
        BY <1>3, <1>6, <1>7, <2>2 DEF TakesLast
      <3>3. Traffic(s)!UpdateRsvdSt(endpToEndp[<<i, d>>], Head(net[<<i, d>>]).size, lat)
              = Counted(endpToEndp[<<i, d>>], Head(net[<<i, d>>]).size, lat)
        BY <3>2, UpdateIsCounted
      <3> QED BY <2>1, <2>2, <3>1, <3>3
    <2>3. CASE ~TakesLast(from, i, d)
      BY <1>5, <2>1, <2>3
    <2> QED BY <2>2, <2>3
  <1>10. endpToEndp' \in [Pairs(s) -> Stat]
    <2>1. endpToEndp' = [e \in Pairs(s) |-> endpToEndp'[e]]
      BY <1>1, <1>2 DEF Traffic!EndpToEndpNext
    <2>2. ASSUME NEW i \in Ends(s), NEW d \in Ends(s) PROVE endpToEndp'[<<i, d>>] \in Stat
      <3>1. CASE TakesLast(from, i, d)
        <4>1. Head(net[<<i, d>>]).size \in Nat
          BY <1>6, <3>1 DEF TakesLast
        <4>2. Counted(endpToEndp[<<i, d>>], Head(net[<<i, d>>]).size, lat) \in Stat
          BY <1>3, <1>7, <4>1, CountedIsStat
        <4> QED BY <1>9, <3>1, <4>2
      <3>2. CASE ~TakesLast(from, i, d)
        BY <1>7, <1>9, <3>2
      <3> QED BY <3>1, <3>2
    <2>3. ASSUME NEW e \in Pairs(s) PROVE endpToEndp'[e] \in Stat
      <3>1. PICK i \in Ends(s), d \in Ends(s) : e = <<i, d>>
        BY DEF Pairs, Square, Ends
      <3> QED BY <2>2, <3>1
    <2> QED BY <2>1, <2>3
  <1>11. ASSUME NEW d \in Ends(s)
         PROVE  /\ rsvdStat'[d] = IF d \in DOMAIN from /\ Head(net[<<from[d], d>>]).tail
                                  THEN Counted(rsvdStat[d], Head(net[<<from[d], d>>]).size, lat)
                                  ELSE rsvdStat[d]
                /\ rsvdStat'[d] \in Stat
    <2>1. rsvdStat'[d] = IF d \in Traffic(s)!Tails(from)
                         THEN Traffic(s)!UpdateRsvdSt(rsvdStat[d], Head(net[<<from[d], d>>]).size, lat)
                         ELSE rsvdStat[d]
      BY <1>1, <1>2 DEF Traffic!RsvdStatNext, Traffic!SizeFrom
    <2>2. CASE d \in Traffic(s)!Tails(from)
      <3>1. d \in DOMAIN from /\ Head(net[<<from[d], d>>]).tail
        BY <1>4, <2>2
      <3>2. Head(net[<<from[d], d>>]).size \in Nat
        BY <1>3, <1>6, <3>1
      <3>3. Counted(rsvdStat[d], Head(net[<<from[d], d>>]).size, lat) \in Stat
        BY <1>3, <1>8, <3>2, CountedIsStat
      <3>4. Traffic(s)!UpdateRsvdSt(rsvdStat[d], Head(net[<<from[d], d>>]).size, lat)
              = Counted(rsvdStat[d], Head(net[<<from[d], d>>]).size, lat)
        <4>1. rsvdStat[d] \in Stat /\ lat \in Nat
          BY <1>3, <1>8
        <4> QED BY <3>2, <4>1, UpdateIsCounted
      <3> QED BY <2>1, <2>2, <3>1, <3>3, <3>4
    <2>3. CASE d \notin Traffic(s)!Tails(from)
      BY <1>4, <1>8, <2>1, <2>3
    <2> QED BY <2>2, <2>3
  <1>12. rsvdStat' \in [Ends(s) -> Stat]
    <2>1. rsvdStat' = [d \in Ends(s) |-> rsvdStat'[d]]
      BY <1>1, <1>2 DEF Traffic!RsvdStatNext
    <2> QED BY <1>11, <2>1
  <1>13. ASSUME NEW i \in Ends(s)
         PROVE  /\ sentStat'[i].pck  = sentStat[i].pck + One(i \in S /\ sent[i] = 0)
                /\ sentStat'[i].flit = sentStat[i].flit + One(i \in S)
                /\ sentStat'[i].min  = IF \E d \in Ends(s) : TakesLast(from, i, d)
                                       THEN Earlier(sentStat[i].min, lat) ELSE sentStat[i].min
                /\ sentStat'[i] \in Stat
    <2> DEFINE b == \E d \in Traffic(s)!Tails(from) : from[d] = i
               st == IF b THEN Traffic(s)!WithLatency(sentStat[i], lat) ELSE sentStat[i]
    <2>1. sentStat'[i] = [st EXCEPT !.flit = @ + (IF i \in S THEN 1 ELSE 0),
                                    !.pck = @ + (IF i \in S /\ sent[i] = 0 THEN 1 ELSE 0)]
      BY <1>1, <1>2, Zenon DEF Traffic!SentStatNext, Traffic!IsHeader
    <2>2. b <=> \E d \in Ends(s) : TakesLast(from, i, d)
      BY <1>3, <1>4, <1>5
    <2>3. /\ st = [pck |-> sentStat[i].pck, flit |-> sentStat[i].flit, worst |-> st.worst,
                   min |-> IF b THEN Earlier(sentStat[i].min, lat) ELSE sentStat[i].min]
          /\ st.worst \in Nat
      <3>1. CASE b
        <4>1. st = Traffic(s)!WithLatency(sentStat[i], lat)
          BY <3>1
        <4> HIDE DEF b, st
        <4>2. sentStat[i] \in Stat /\ lat \in Nat /\ 0 \in Nat
          BY <1>3, <1>8
        <4>3. st = [pck |-> sentStat[i].pck, flit |-> sentStat[i].flit,
                    worst |-> Later(sentStat[i].worst, lat), min |-> Earlier(sentStat[i].min, lat)]
          BY <4>1, <4>2, UpdateIsCounted
        <4>4. Later(sentStat[i].worst, lat) \in Nat
          BY <4>2, StatRecord DEF Later
        <4> QED BY <3>1, <4>3, <4>4
      <3>2. CASE ~b
        <4>1. st = sentStat[i]
          BY <3>2
        <4> HIDE DEF b, st
        <4> QED BY <1>8, <3>2, <4>1, StatRecord
      <3> QED BY <3>1, <3>2
    <2> HIDE DEF b, st
    <2>4. /\ sentStat'[i].pck  = sentStat[i].pck + One(i \in S /\ sent[i] = 0)
          /\ sentStat'[i].flit = sentStat[i].flit + One(i \in S)
          /\ sentStat'[i].min  = IF b THEN Earlier(sentStat[i].min, lat) ELSE sentStat[i].min
      BY <2>1, <2>3 DEF One
    <2>5. sentStat'[i] \in Stat
      <3>1. st \in Stat
        <4>1. sentStat[i] \in Stat /\ lat \in Nat
          BY <1>3, <1>8
        <4>2. (IF b THEN Earlier(sentStat[i].min, lat) ELSE sentStat[i].min) \in Nat
          BY <4>1, StatRecord DEF Earlier
        <4>3. sentStat[i].pck \in Nat /\ sentStat[i].flit \in Nat
          BY <4>1, StatRecord
        <4> QED BY <2>3, <4>2, <4>3 DEF Stat
      <3> DEFINE x == st.flit + (IF i \in S THEN 1 ELSE 0)
                 u == [st EXCEPT !.flit = x]
                 y == st.pck + (IF i \in S /\ sent[i] = 0 THEN 1 ELSE 0)
      <3>2. x \in Nat /\ y \in Nat
        BY <3>1, StatRecord
      <3>3. u \in Stat
        BY <3>1, <3>2, StatExcept
      <3>4. sentStat'[i] = [u EXCEPT !.pck = y]
        <4>1. u.pck = st.pck
          BY <3>1, <3>2, StatExcept
        <4> QED BY <2>1, <4>1
      <3> HIDE DEF u, x, y
      <3>5. [u EXCEPT !.pck = y] \in Stat
        BY <3>2, <3>3, StatExcept, Zenon
      <3> QED BY <3>4, <3>5
    <2> QED BY <2>2, <2>4, <2>5
  <1>14. sentStat' \in [Ends(s) -> Stat]
    <2>1. sentStat' = [i \in Ends(s) |-> sentStat'[i]]
      BY <1>1, <1>2 DEF Traffic!SentStatNext
    <2> QED BY <1>13, <2>1
  <1> QED BY <1>9, <1>10, <1>11, <1>12, <1>13, <1>14 DEF StatisticsMove

\* The packet a generator is sending.
LEMMA FirstPacket ==
    ASSUME NEW s, Traffic(s)!TrafficAssumption, Kinds(s), NEW i \in Ends(s), queue[i] # <<>>
    PROVE  /\ Head(queue[i]) \in Traffic(s)!Packets(i)
           /\ Head(queue[i]).dst \in SUBSET Ends(s) /\ Head(queue[i]).dst # {}
           /\ Head(queue[i]).size \in Nat \ {0} /\ NewFlit(i) \in FlitKind
  <1>1. queue[i] \in Seq(Traffic(s)!Packets(i))
    BY DEF Kinds
  <1>2. \A T : \A w \in Seq(T) : w # <<>> => Head(w) \in T
    OBVIOUS
  <1>3. Head(queue[i]) \in Traffic(s)!Packets(i)
    BY <1>1, <1>2, Zenon
  <1>4. /\ Head(queue[i]).dst \in SUBSET Ends(s) /\ Head(queue[i]).dst # {}
        /\ Head(queue[i]).size \in Nat \ {0}
    BY <1>3, PacketKind
  <1> QED BY <1>3, <1>4 DEF NewFlit, FlitKind, EndsPacket

\* The packets of a generator before and after a cycle.
LEMMA QueueStep ==
    ASSUME NEW s, Traffic(s)!TrafficAssumption, Kinds(s),
           NEW S, NEW from, NEW G, NEW new, NEW lat,
           Chosen(s, S, from, new, lat), NetworkMoves(s, S, from, G, new),
           NEW i \in Ends(s)
    PROVE  /\ queue'[i] \in Seq(Traffic(s)!Packets(i)) /\ nextPck'[i] \in Traffic(s)!Packets(i)
           /\ sent'[i] = IF i \notin S THEN sent[i] ELSE IF EndsPacket(i) THEN 0 ELSE sent[i] + 1
           /\ sent'[i] \in Nat /\ sent[i] \in Nat
           /\ queue[i] # <<>> /\ (i \in S => ~EndsPacket(i)) =>
                 queue'[i] # <<>> /\ Head(queue'[i]) = Head(queue[i])
           /\ sent'[i] > 0 => queue'[i] # <<>>
  <1> DEFINE Q == Traffic(s)!Packets(i)
             v == IF i \in S /\ EndsPacket(i) THEN Tail(queue[i]) ELSE queue[i]
             u == IF i \in G THEN <<nextPck[i]>> ELSE <<>>
  <1>1. queue[i] \in Seq(Q) /\ nextPck[i] \in Q /\ sent[i] \in Nat /\ (sent[i] > 0 => queue[i] # <<>>)
    BY DEF Kinds
  <1>2. (i \in S => queue[i] # <<>>) /\ (i \in S /\ sent[i] = 0 => new[i] \in Q)
    BY DEF Chosen
  <1>3. queue'[i] = v \o u
    BY DEF NetworkMoves
  <1>4. nextPck'[i] = IF i \in S /\ sent[i] = 0 THEN new[i] ELSE nextPck[i]
    BY DEF NetworkMoves
  <1>5. sent'[i] = IF i \notin S THEN sent[i] ELSE IF EndsPacket(i) THEN 0 ELSE sent[i] + 1
    BY DEF NetworkMoves
  <1> HIDE DEF Q
  <1>6. v \in Seq(Q) /\ u \in Seq(Q)
    BY <1>1, <1>2
  <1>7. ASSUME queue[i] # <<>>, i \in S => ~EndsPacket(i)
        PROVE  queue'[i] # <<>> /\ Head(queue'[i]) = Head(queue[i])
    <2>1. v = queue[i]
      BY <1>7
    <2> HIDE DEF v, u
    <2>2. v # <<>> /\ \A w \in Seq(Q), z \in Seq(Q) : w # <<>> => w \o z # <<>> /\ Head(w \o z) = Head(w)
      BY <1>7, <2>1
    <2> QED BY <1>3, <1>6, <2>1, <2>2
  <1>8. ASSUME sent'[i] > 0 PROVE queue'[i] # <<>>
    <2>1. queue[i] # <<>> /\ (i \in S => ~EndsPacket(i))
      BY <1>1, <1>2, <1>5, <1>8
    <2> QED BY <1>7, <2>1
  <1>9. queue'[i] \in Seq(Q)
    <2> HIDE DEF v, u
    <2> QED BY <1>3, <1>6
  <1>10. sent'[i] \in Nat
    BY <1>1, <1>5
  <1>11. nextPck'[i] \in Q
    BY <1>1, <1>2, <1>4
  <1> QED BY <1>1, <1>5, <1>7, <1>8, <1>9, <1>10, <1>11 DEF Q

\* What the pairs know of a packet half sent, before and after a cycle.
LEMMA ComingNext ==
    ASSUME NEW s, Traffic(s)!TrafficAssumption, Kinds(s),
           NEW S, NEW from, NEW G, NEW new, NEW lat,
           Chosen(s, S, from, new, lat), NetworkMoves(s, S, from, G, new),
           NEW i \in Ends(s), NEW d \in Ends(s)
    PROVE  /\ Coming(i, d) \in Nat
           /\ Puts(S, i, d) => /\ Coming(i, d) = sent[i]
                               /\ Coming(i, d)' = IF EndsPacket(i) THEN 0 ELSE sent[i] + 1
           /\ ~Puts(S, i, d) => Coming(i, d)' = Coming(i, d)
  <1>1. /\ sent[i] \in Nat /\ sent'[i] \in Nat
        /\ sent'[i] = IF i \notin S THEN sent[i] ELSE IF EndsPacket(i) THEN 0 ELSE sent[i] + 1
        /\ queue[i] # <<>> /\ (i \in S => ~EndsPacket(i)) => Head(queue'[i]) = Head(queue[i])
    BY QueueStep
  <1>2. (i \in S => queue[i] # <<>>) /\ (sent[i] > 0 => queue[i] # <<>>)
    BY DEF Chosen, Kinds
  <1>3. Coming(i, d)' = IF sent'[i] > 0 /\ d \in Head(queue'[i]).dst THEN sent'[i] ELSE 0
    BY DEF Coming
  <1>4. CASE i \in S /\ EndsPacket(i)
    BY <1>1, <1>3, <1>4 DEF Coming, Puts
  <1>5. CASE i \in S /\ ~EndsPacket(i)
    BY <1>1, <1>2, <1>3, <1>5 DEF Coming, Puts
  <1>6. CASE i \notin S
    BY <1>1, <1>2, <1>3, <1>6 DEF Coming, Puts
  <1> QED BY <1>4, <1>5, <1>6

\* A flit of w is received (take = 1), the last of its packet (b = 1), or none; the
\* statistic E of the pair becomes F, the flits received of a packet h.
Receiving(w, g, E, F, l, take, b, h, v) ==
    /\ take \in {0, 1} /\ b \in {0, 1} /\ (take = 1 => w # <<>>)
    /\ (b = 1 <=> take = 1 /\ Head(w).tail)
    /\ F = IF b = 1 THEN Counted(E, Head(w).size, l) ELSE E
    /\ h = IF take = 1 THEN IF b = 1 THEN 0 ELSE g + 1 ELSE g
    /\ v = IF take = 1 THEN Tail(w) ELSE w

\* What a receiver's step does to the run of flits and to the statistic.
LEMMA Receives ==
    ASSUME NEW w \in Seq(FlitKind), NEW g \in Nat, NEW p \in Int, NEW x \in Nat, Run(w, g, p, x),
           NEW E \in Stat, NEW F, NEW l, NEW take, NEW b, NEW h, NEW v,
           Receiving(w, g, E, F, l, take, b, h, v)
    PROVE  /\ v \in Seq(FlitKind) /\ Run(v, h, p - b, x) /\ h \in Nat
           /\ Len(v) = Len(w) - take
           /\ F.flit + h = (E.flit + g) + take
           /\ F.pck + (p - b) = E.pck + p
  <1>1. E.pck \in Nat /\ E.flit \in Nat /\ Len(w) \in Nat
    BY StatRecord
  <1>a. take \in {0, 1} /\ b \in {0, 1} /\ (take = 1 => w # <<>>) /\ (b = 1 <=> take = 1 /\ Head(w).tail)
    BY DEF Receiving
  <1>2. CASE take = 1
    <2>1. v = Tail(w) /\ Tail(w) \in Seq(FlitKind) /\ Len(Tail(w)) = Len(w) - 1
      <3>1. v = Tail(w) /\ w # <<>>
        BY <1>2 DEF Receiving
      <3> QED BY <3>1
    <2>2. /\ Head(w).tail <=> g + 1 = Head(w).size
          /\ Run(Tail(w), IF Head(w).tail THEN 0 ELSE g + 1, p - One(Head(w).tail), x)
      BY <1>2, <1>a, RunReceive
    <2>3. CASE b = 1
      <3>1. Head(w).tail /\ h = 0 /\ F = Counted(E, Head(w).size, l)
        BY <1>2, <2>3 DEF Receiving
      <3>2. One(Head(w).tail) = 1 /\ Head(w).size = g + 1
        BY <2>2, <3>1 DEF One
      <3>3. F.pck = E.pck + 1 /\ F.flit = E.flit + (g + 1)
        BY <3>1, <3>2 DEF Counted
      <3>4. Run(Tail(w), 0, p - 1, x)
        BY <2>2, <3>1, <3>2, Zenon
      <3>5. F.flit + 0 = (E.flit + g) + 1 /\ F.pck + (p - 1) = E.pck + p
        <4>1. \A m, n \in Int : (m + (n + 1)) + 0 = (m + n) + 1
          OBVIOUS
        <4>2. \A m, n \in Int : (m + 1) + (n - 1) = m + n
          OBVIOUS
        <4>3. E.flit \in Int /\ E.pck \in Int /\ g \in Int /\ p \in Int
          BY <1>1
        <4>4. F.flit + 0 = (E.flit + g) + 1
          BY <3>3, <4>1, <4>3, Zenon
        <4>5. F.pck + (p - 1) = E.pck + p
          BY <3>3, <4>2, <4>3, Zenon
        <4> QED BY <4>4, <4>5, Zenon
      <3>6. v \in Seq(FlitKind) /\ Len(v) = Len(w) - take
        BY <1>2, <2>1, Zenon
      <3>7. Run(v, h, p - b, x)
        BY <2>1, <2>3, <3>1, <3>4, Zenon
      <3>8. F.flit + h = (E.flit + g) + take /\ F.pck + (p - b) = E.pck + p
        BY <1>2, <2>3, <3>1, <3>5, Zenon
      <3>9. h \in Nat
        BY <3>1
      <3> QED BY <3>6, <3>7, <3>8, <3>9, Zenon
    <2>4. CASE b # 1
      <3>1. ~Head(w).tail /\ h = g + 1 /\ b = 0 /\ F = E
        BY <1>2, <2>4 DEF Receiving
      <3>2. One(Head(w).tail) = 0
        BY <3>1 DEF One
      <3>3. Run(Tail(w), g + 1, p - 0, x)
        BY <2>2, <3>1, <3>2, Zenon
      <3>4. E.flit + (g + 1) = (E.flit + g) + 1 /\ E.pck + (p - 0) = E.pck + p
        BY <1>1
      <3> QED BY <1>2, <2>1, <3>1, <3>3, <3>4
    <2> QED BY <2>3, <2>4
  <1>3. CASE take # 1
    <2>1. b = 0 /\ h = g /\ take = 0 /\ F = E /\ v = w
      BY <1>3 DEF Receiving
    <2>2. p - 0 = p /\ Len(w) - 0 = Len(w) /\ (E.flit + g) + 0 = E.flit + g
      BY <1>1
    <2> QED BY <2>1, <2>2
  <1> QED BY <1>2, <1>3

\* A flit f is sent (put = 1), the first of its packet (c = 1), or none.
Sending(v, x, f, put, c, z, u) ==
    /\ put \in {0, 1} /\ c \in {0, 1} /\ (c = 1 <=> put = 1 /\ x = 0)
    /\ (put = 1 => f \in FlitKind /\ (f.tail <=> x + 1 = f.size))
    /\ z = IF put = 1 THEN IF f.tail THEN 0 ELSE x + 1 ELSE x
    /\ u = v \o (IF put = 1 THEN <<f>> ELSE <<>>)

\* What a sender's step does to the run of flits.
LEMMA Sends ==
    ASSUME NEW v \in Seq(FlitKind), NEW h \in Nat, NEW r \in Int, NEW x \in Nat, Run(v, h, r, x),
           NEW put, NEW f, NEW z, NEW c, NEW u, Sending(v, x, f, put, c, z, u)
    PROVE  u \in Seq(FlitKind) /\ Run(u, h, r + c, z) /\ Len(u) = Len(v) + put
  <1>1. CASE put = 1
    <2>1. f \in FlitKind /\ (f.tail <=> x + 1 = f.size) /\ u = v \o <<f>>
      BY <1>1 DEF Sending
    <2>2. Run(v \o <<f>>, h, r + One(x = 0), IF f.tail THEN 0 ELSE x + 1)
      BY <2>1, RunSend
    <2>3. One(x = 0) = c /\ z = (IF f.tail THEN 0 ELSE x + 1)
      BY <1>1 DEF One, Sending
    <2>4. Run(u, h, r + c, z)
      BY <2>1, <2>2, <2>3, Zenon
    <2>5. v \o <<f>> \in Seq(FlitKind) /\ Len(v \o <<f>>) = Len(v) + 1
      BY <2>1
    <2> QED BY <1>1, <2>1, <2>4, <2>5
  <1>2. CASE put # 1
    <2>1. u = v
      <3>1. v \o <<>> = v
        OBVIOUS
      <3> QED BY <1>2, <3>1 DEF Sending
    <2>2. c = 0 /\ put = 0 /\ z = x
      BY <1>2 DEF Sending
    <2>3. r + 0 = r /\ Len(v) + 0 = Len(v)
      OBVIOUS
    <2> QED BY <2>1, <2>2, <2>3
  <1> QED BY <1>1, <1>2

\* The flits between two end points in a cycle, and what their statistic says of them.
Exchange(w, g, p, x, E, F, l, take, b, put, c, f, h, q, z, u) ==
    /\ w \in Seq(FlitKind) /\ g \in Nat /\ p \in Int /\ x \in Nat /\ Run(w, g, p, x)
    /\ E \in Stat /\ F \in Stat
    /\ Receiving(w, g, E, F, l, take, b, h, IF take = 1 THEN Tail(w) ELSE w)
    /\ Sending(IF take = 1 THEN Tail(w) ELSE w, x, f, put, c, z, u)
    /\ q = (p - b) + c

\* Both steps together: the books stay balanced.
LEMMA ExchangeNext ==
    ASSUME NEW w, NEW g, NEW p, NEW x, NEW E, NEW F, NEW l, NEW take, NEW b, NEW put, NEW c,
           NEW f, NEW h, NEW q, NEW z, NEW u,
           Exchange(w, g, p, x, E, F, l, take, b, put, c, f, h, q, z, u)
    PROVE  /\ h \in Nat /\ q \in Int /\ u \in Seq(FlitKind) /\ Run(u, h, q, z)
           /\ F.flit + h = (E.flit + g) + take
           /\ F.pck + q = (E.pck + p) + c
           /\ (F.flit + h) + Len(u) = ((E.flit + g) + Len(w)) + put
  <1> DEFINE v == IF take = 1 THEN Tail(w) ELSE w
             r == p - b
  <1>1. /\ w \in Seq(FlitKind) /\ g \in Nat /\ p \in Int /\ x \in Nat /\ Run(w, g, p, x)
        /\ E \in Stat /\ F \in Stat
        /\ Receiving(w, g, E, F, l, take, b, h, v) /\ Sending(v, x, f, put, c, z, u)
        /\ q = r + c
    BY Zenon DEF Exchange
  <1>2. take \in {0, 1} /\ b \in {0, 1} /\ put \in {0, 1} /\ c \in {0, 1}
    BY <1>1, Zenon DEF Receiving, Sending
  <1> HIDE DEF v
  <1>3. /\ v \in Seq(FlitKind) /\ Run(v, h, r, x) /\ h \in Nat
        /\ Len(v) = Len(w) - take
        /\ F.flit + h = (E.flit + g) + take
        /\ F.pck + r = E.pck + p
    BY <1>1, Receives
  <1>4. r \in Int
    BY <1>1, <1>2
  <1> HIDE DEF r
  <1>5. u \in Seq(FlitKind) /\ Run(u, h, r + c, z) /\ Len(u) = Len(v) + put
    BY <1>1, <1>3, <1>4, Sends
  <1>6. E.flit \in Nat /\ E.pck \in Nat /\ Len(w) \in Nat /\ F.flit \in Nat /\ F.pck \in Nat
    BY <1>1, StatRecord
  <1>7. q \in Int /\ F.pck + q = (E.pck + p) + c
    <2>1. \A m, n, k1, k2, k3 \in Int : m + n = k1 + k2 => n + k3 \in Int /\ m + (n + k3) = (k1 + k2) + k3
      OBVIOUS
    <2>2. p \in Int /\ c \in Int /\ q = r + c /\ F.pck \in Int /\ E.pck \in Int
      BY <1>1, <1>2, <1>6
    <2>3. F.pck + r = E.pck + p
      BY <1>3
    <2> QED BY <1>4, <2>1, <2>2, <2>3
  <1>8. (F.flit + h) + Len(u) = ((E.flit + g) + Len(w)) + put
    <2>1. \A m, n, k1, k2, k3, k4, k5 \in Int :
             m = n + k1 /\ k2 = k3 - k1 /\ k4 = k2 + k5 => m + k4 = (n + k3) + k5
      OBVIOUS
    <2>2. take \in Int /\ put \in Int
      BY <1>2
    <2>3. F.flit + h \in Int /\ E.flit + g \in Int
      <3>1. \A m, n \in Nat : m + n \in Int
        OBVIOUS
      <3>2. h \in Nat /\ g \in Nat
        BY <1>1, <1>3
      <3> QED BY <1>6, <3>1, <3>2, Zenon
    <2>4. Len(w) \in Int /\ Len(v) \in Int /\ Len(u) \in Int
      <3>1. w \in Seq(FlitKind) /\ v \in Seq(FlitKind) /\ u \in Seq(FlitKind)
        BY <1>1, <1>3, <1>5
      <3> QED BY <3>1
    <2>5. F.flit + h = (E.flit + g) + take /\ Len(v) = Len(w) - take /\ Len(u) = Len(v) + put
      BY <1>3, <1>5
    <2> QED BY <2>1, <2>2, <2>3, <2>4, <2>5
  <1>9. Run(u, h, q, z)
    BY <1>1, <1>5, Zenon
  <1> QED BY <1>3, <1>5, <1>7, <1>8, <1>9

\* What passes between i and d in a cycle, in numbers.
Passing(S, from, i, d, take, b, put, c) ==
    /\ take \in {0, 1} /\ (take = 1 <=> Takes(from, i, d))
    /\ b \in {0, 1} /\ (b = 1 <=> TakesLast(from, i, d))
    /\ put \in {0, 1} /\ (put = 1 <=> Puts(S, i, d))
    /\ c \in {0, 1} /\ (c = 1 <=> Puts(S, i, d) /\ sent[i] = 0)

\* The flits and packets of a pair that its statistic does not have yet, after a cycle.
Leaving(g, p, take, b, c, h, q) ==
    /\ h = IF take = 1 THEN IF b = 1 THEN 0 ELSE g + 1 ELSE g
    /\ q = (p - b) + c

\* The flits between i and d before and after a cycle, and what comes of a packet half sent.
Flows(i, d, w, u, x, z) ==
    /\ w = net[<<i, d>>] /\ u = net'[<<i, d>>]
    /\ x = Coming(i, d) /\ z = Coming(i, d)'

\* The flits between two end points in a cycle; g flits are received of a packet
\* that is not complete, p packets begun and not received.
LEMMA PairStep ==
    ASSUME NEW s, Traffic(s)!TrafficAssumption, Kinds(s),
           NEW S, NEW from, NEW G, NEW new, NEW lat,
           Chosen(s, S, from, new, lat), NetworkMoves(s, S, from, G, new),
           StatisticsMove(s, S, from, lat),
           NEW i \in Ends(s), NEW d \in Ends(s), NEW g \in Nat, NEW p \in Int,
           NEW w, NEW u, NEW x, NEW z, Flows(i, d, w, u, x, z), Run(w, g, p, x),
           NEW h, NEW q, NEW take, NEW b, NEW put, NEW c,
           Passing(S, from, i, d, take, b, put, c), Leaving(g, p, take, b, c, h, q)
    PROVE  /\ h \in Nat /\ q \in Int /\ u \in Seq(FlitKind)
           /\ Run(u, h, q, z)
           /\ endpToEndp'[<<i, d>>].flit + h = (endpToEndp[<<i, d>>].flit + g) + take
           /\ endpToEndp'[<<i, d>>].pck + q = (endpToEndp[<<i, d>>].pck + p) + c
           /\ (endpToEndp'[<<i, d>>].flit + h) + Len(u) = ((endpToEndp[<<i, d>>].flit + g) + Len(w)) + put
  <1> DEFINE E == endpToEndp[<<i, d>>]
             F == endpToEndp'[<<i, d>>]
             f == NewFlit(i)
             v == IF take = 1 THEN Tail(w) ELSE w
  <1>0. /\ take \in {0, 1} /\ (take = 1 <=> Takes(from, i, d))
        /\ b \in {0, 1} /\ (b = 1 <=> TakesLast(from, i, d))
        /\ put \in {0, 1} /\ (put = 1 <=> Puts(S, i, d))
        /\ c \in {0, 1} /\ (c = 1 <=> Puts(S, i, d) /\ sent[i] = 0)
    BY Zenon DEF Passing
  <1>a. w = net[<<i, d>>] /\ u = net'[<<i, d>>] /\ x = Coming(i, d) /\ z = Coming(i, d)'
    BY Zenon DEF Flows
  <1>1. w \in Seq(FlitKind) /\ E \in Stat /\ lat \in Nat
    BY <1>a DEF Kinds, Pairs, Square, Ends, Chosen
  <1>2. /\ x \in Nat /\ (put = 1 => x = sent[i])
        /\ z = IF put = 1 THEN IF EndsPacket(i) THEN 0 ELSE x + 1 ELSE x
    BY <1>0, <1>a, ComingNext
  <1>3. u = v \o (IF put = 1 THEN <<f>> ELSE <<>>)
    <2>1. <<i, d>> \in Pairs(s)
      BY DEF Pairs, Square, Ends
    <2> QED BY <1>0, <1>a, <2>1 DEF NetworkMoves
  <1>4. F = IF b = 1 THEN Counted(E, Head(w).size, lat) ELSE E
    BY <1>0, <1>a DEF StatisticsMove
  <1>5. b = 1 <=> take = 1 /\ Head(w).tail
    BY <1>0, <1>a DEF TakesLast
  <1>6. take = 1 => w # <<>>
    BY <1>0, <1>a, TakenFlit
  <1>c. c = 1 <=> put = 1 /\ x = 0
    BY <1>0, <1>2
  <1>7. put = 1 => f \in FlitKind /\ (f.tail <=> x + 1 = f.size) /\ (f.tail <=> EndsPacket(i))
    <2> SUFFICES ASSUME put = 1
                 PROVE  f \in FlitKind /\ (f.tail <=> x + 1 = f.size) /\ (f.tail <=> EndsPacket(i))
      OBVIOUS
    <2>1. queue[i] # <<>>
      BY <1>0 DEF Puts, Chosen
    <2>2. f \in FlitKind
      BY <2>1, FirstPacket
    <2>3. (f.tail <=> sent[i] + 1 = f.size) /\ (f.tail <=> EndsPacket(i))
      BY DEF NewFlit, EndsPacket
    <2> QED BY <1>2, <2>2, <2>3
  <1>8. z = IF put = 1 THEN IF f.tail THEN 0 ELSE x + 1 ELSE x
    BY <1>2, <1>7
  <1>9. Run(w, g, p, x)
    OBVIOUS
  <1>10. Receiving(w, g, E, F, lat, take, b, h, v)
    <2>1. h = IF take = 1 THEN IF b = 1 THEN 0 ELSE g + 1 ELSE g
      BY Zenon DEF Leaving
    <2> HIDE DEF E, F
    <2> QED BY <1>0, <1>4, <1>5, <1>6, <2>1, Zenon DEF Receiving
  <1>s. Sending(v, x, f, put, c, z, u)
    <2> HIDE DEF v, f
    <2> QED BY <1>0, <1>3, <1>c, <1>7, <1>8, Zenon DEF Sending
  <1>11. q = (p - b) + c
    BY Zenon DEF Leaving
  <1>12. F \in Stat
    BY DEF StatisticsMove, Pairs, Square, Ends, F
  <1>13. Exchange(w, g, p, x, E, F, lat, take, b, put, c, f, h, q, z, u)
    <2> HIDE DEF E, F, f
    <2> QED BY <1>1, <1>2, <1>9, <1>10, <1>s, <1>11, <1>12, Zenon DEF Exchange
  <1> HIDE DEF E, F, f
  <1>14. /\ h \in Nat /\ q \in Int /\ u \in Seq(FlitKind) /\ Run(u, h, q, z)
         /\ F.flit + h = (E.flit + g) + take
         /\ F.pck + q = (E.pck + p) + c
         /\ (F.flit + h) + Len(u) = ((E.flit + g) + Len(w)) + put
    BY <1>13, ExchangeNext
  <1> QED BY <1>14, Zenon DEF E, F

\* Exchange i and d, a flits have been received, b sent and c packets begun.
PairBook(i, d, a, b, c) ==
    \E g \in Nat : \E p \in Int :
        /\ Run(net[<<i, d>>], g, p, Coming(i, d))
        /\ a = endpToEndp[<<i, d>>].flit + g
        /\ b = a + Len(net[<<i, d>>])
        /\ c = endpToEndp[<<i, d>>].pck + p

\* A cycle keeps the book of a pair.
LEMMA PairBookNext ==
    ASSUME NEW s, Traffic(s)!TrafficAssumption, Kinds(s),
           NEW S, NEW from, NEW G, NEW new, NEW lat,
           Chosen(s, S, from, new, lat), NetworkMoves(s, S, from, G, new),
           StatisticsMove(s, S, from, lat),
           NEW i \in Ends(s), NEW d \in Ends(s), NEW m, NEW n, NEW k1, PairBook(i, d, m, n, k1),
           NEW take, NEW b, NEW put, NEW c, Passing(S, from, i, d, take, b, put, c)
    PROVE  PairBook(i, d, m + take, n + put, k1 + c)'
  <1> DEFINE E == endpToEndp[<<i, d>>]
             F == endpToEndp'[<<i, d>>]
  <1>0. PICK w, u, x, z : /\ w = net[<<i, d>>] /\ u = net'[<<i, d>>]
                          /\ x = Coming(i, d) /\ z = Coming(i, d)'
    OBVIOUS
  <1>1. PICK g \in Nat : \E p \in Int :
            Run(w, g, p, x) /\ m = E.flit + g /\ n = m + Len(w) /\ k1 = E.pck + p
    BY <1>0, Zenon DEF PairBook
  <1>2. PICK p \in Int : Run(w, g, p, x) /\ m = E.flit + g /\ n = m + Len(w) /\ k1 = E.pck + p
    BY <1>1, Zenon
  <1> DEFINE h == IF take = 1 THEN IF b = 1 THEN 0 ELSE g + 1 ELSE g
             q == (p - b) + c
  <1>3. Leaving(g, p, take, b, c, h, q)
    BY Zenon DEF Leaving
  <1>4. /\ h \in Nat /\ q \in Int /\ u \in Seq(FlitKind) /\ Run(u, h, q, z)
        /\ F.flit + h = (E.flit + g) + take
        /\ F.pck + q = (E.pck + p) + c
        /\ (F.flit + h) + Len(u) = ((E.flit + g) + Len(w)) + put
    <2>1. Flows(i, d, w, u, x, z) /\ Run(w, g, p, x)
      BY <1>0, <1>2, Zenon DEF Flows
    <2> HIDE DEF h, q
    <2> QED BY <1>3, <2>1, PairStep
  <1> HIDE DEF h, q, E, F
  <1>5. m + take = F.flit + h /\ n + put = (m + take) + Len(u) /\ k1 + c = F.pck + q
    BY <1>2, <1>4
  <1>6. \E g1 \in Nat : \E p1 \in Int :
           /\ Run(u, g1, p1, z) /\ m + take = F.flit + g1
           /\ n + put = (m + take) + Len(u) /\ k1 + c = F.pck + p1
    BY <1>4, <1>5, Zenon
  <1> QED BY <1>0, <1>6, Zenon DEF PairBook, F

-----------------------------------------------------------------------------
(* Sums over the flits of a cycle.                                         *)

\* X has ones in the columns T[i] of row i.
OnesOf(X, T, n) ==
    /\ T \in [0 .. n - 1 -> SUBSET (0 .. n - 1)]
    /\ X = [e \in Square(n) |-> IF e[2] \in T[e[1]] THEN 1 ELSE 0]

\* The sums of such a matrix count the elements of the sets.
LEMMA OnesSums ==
    ASSUME NEW n \in Nat, NEW T, NEW X, OnesOf(X, T, n)
    PROVE  /\ X \in [Square(n) -> Int]
           /\ \A i \in 0 .. n - 1 : RowSum(X, i, n) = Cardinality(T[i]) /\ Cardinality(T[i]) \in Nat
           /\ RowSums(X, n) = SumOf([i \in 0 .. n - 1 |-> Cardinality(T[i])], n)
  <1>1. /\ T \in [0 .. n - 1 -> SUBSET (0 .. n - 1)]
        /\ X = [e \in Square(n) |-> IF e[2] \in T[e[1]] THEN 1 ELSE 0]
    BY DEF OnesOf
  <1> QED BY <1>1, RowsOfSets

\* The flits received, the flits sent and the packets begun in a cycle, by pair.
Crossing(s, S, from, ins, outs, heads) ==
    /\ ins \in [Pairs(s) -> Int] /\ outs \in [Pairs(s) -> Int] /\ heads \in [Pairs(s) -> Int]
    /\ \A i, d \in Ends(s) :
          /\ ins[<<i, d>>] \in {0, 1} /\ (ins[<<i, d>>] = 1 <=> Takes(from, i, d))
          /\ outs[<<i, d>>] \in {0, 1} /\ (outs[<<i, d>>] = 1 <=> Puts(S, i, d))
          /\ heads[<<i, d>>] \in {0, 1} /\ (heads[<<i, d>>] = 1 <=> Puts(S, i, d) /\ sent[i] = 0)
    /\ RowSums(ins, s.ne) = Cardinality(DOMAIN from)
    /\ RowSums(outs, s.ne) =
          SumOf([i \in Ends(s) |->
                   IF i \in S THEN Traffic(s)!ExpectedOfFlit(Head(queue[i])) ELSE 0], s.ne)
    /\ ~s.multicast =>
          \A i \in Ends(s) : /\ RowSum(outs, i, s.ne) = IF i \in S THEN 1 ELSE 0
                             /\ RowSum(heads, i, s.ne) = IF i \in S /\ sent[i] = 0 THEN 1 ELSE 0

\* What crosses the network in a cycle, as matrices.
LEMMA CrossingExists ==
    ASSUME NEW s, Traffic(s)!TrafficAssumption, Kinds(s),
           NEW S, NEW from, NEW new, NEW lat, Chosen(s, S, from, new, lat)
    PROVE  \E ins, outs, heads : Crossing(s, S, from, ins, outs, heads)
  <1> DEFINE n == s.ne
             E == 0 .. n - 1
             T == [i \in E |-> IF i \in S THEN Head(queue[i]).dst ELSE {}]
             H == [i \in E |-> IF i \in S /\ sent[i] = 0 THEN Head(queue[i]).dst ELSE {}]
             ins   == [e \in Square(n) |-> IF e[2] \in DOMAIN from /\ from[e[2]] = e[1] THEN 1 ELSE 0]
             outs  == [e \in Square(n) |-> IF e[2] \in T[e[1]] THEN 1 ELSE 0]
             heads == [e \in Square(n) |-> IF e[2] \in H[e[1]] THEN 1 ELSE 0]
  <1>1. n \in Nat /\ Ends(s) = E /\ Pairs(s) = Square(n)
    BY SettingValues DEF Ends, Pairs
  <1>2. ASSUME NEW i \in E, i \in S
        PROVE  /\ Head(queue[i]).dst \in SUBSET E
               /\ Traffic(s)!ExpectedOfFlit(Head(queue[i])) = Cardinality(Head(queue[i]).dst)
               /\ ~s.multicast => Cardinality(Head(queue[i]).dst) = 1
    <2>1. queue[i] # <<>> /\ i \in Ends(s)
      BY <1>1, <1>2 DEF Chosen
    <2>2. Head(queue[i]) \in Traffic(s)!Packets(i)
      BY <2>1, FirstPacket
    <2> QED BY <1>1, <2>1, <2>2, PacketKind
  <1>3. T \in [E -> SUBSET E] /\ H \in [E -> SUBSET E]
    BY <1>2
  <1>4. DOMAIN from \in SUBSET E /\ from \in [DOMAIN from -> E]
    BY <1>1 DEF Chosen
  <1>5. ins \in [Square(n) -> Int] /\ RowSums(ins, n) = Cardinality(DOMAIN from)
    <2> DEFINE D == DOMAIN from
    <2>1. D \in SUBSET E /\ from \in [D -> E]
      BY <1>4
    <2>2. ins = [e \in Square(n) |-> IF e[2] \in D /\ from[e[2]] = e[1] THEN 1 ELSE 0]
      OBVIOUS
    <2> HIDE DEF ins, D, n
    <2>3. ins \in [Square(n) -> Int] /\ RowSums(ins, n) = Cardinality(D)
      BY <1>1, <2>1, <2>2, ColumnsOfOnes
    <2> QED BY <2>3 DEF D
  <1>6. /\ outs \in [Square(n) -> Int]
        /\ \A i \in E : RowSum(outs, i, n) = Cardinality(T[i])
        /\ RowSums(outs, n) = SumOf([i \in E |-> Cardinality(T[i])], n)
    <2>1. OnesOf(outs, T, n)
      BY <1>3 DEF OnesOf
    <2> HIDE DEF outs, n, T
    <2> QED BY <1>1, <2>1, OnesSums
  <1>7. /\ heads \in [Square(n) -> Int]
        /\ \A i \in E : RowSum(heads, i, n) = Cardinality(H[i])
    <2>1. OnesOf(heads, H, n)
      BY <1>3 DEF OnesOf
    <2> HIDE DEF heads, n, H
    <2> QED BY <1>1, <2>1, OnesSums
  <1>8. \A i \in E : Cardinality(T[i]) =
                        IF i \in S THEN Traffic(s)!ExpectedOfFlit(Head(queue[i])) ELSE 0
    BY <1>2, FS_EmptySet
  <1>9. ~s.multicast =>
          \A i \in E : /\ Cardinality(T[i]) = IF i \in S THEN 1 ELSE 0
                       /\ Cardinality(H[i]) = IF i \in S /\ sent[i] = 0 THEN 1 ELSE 0
    BY <1>2, FS_EmptySet
  <1>10. [i \in E |-> Cardinality(T[i])]
           = [i \in E |-> IF i \in S THEN Traffic(s)!ExpectedOfFlit(Head(queue[i])) ELSE 0]
    BY <1>8
  <1>11. ASSUME NEW i \in E, NEW d \in E
         PROVE  /\ ins[<<i, d>>] \in {0, 1} /\ (ins[<<i, d>>] = 1 <=> Takes(from, i, d))
                /\ outs[<<i, d>>] \in {0, 1} /\ (outs[<<i, d>>] = 1 <=> Puts(S, i, d))
                /\ heads[<<i, d>>] \in {0, 1} /\ (heads[<<i, d>>] = 1 <=> Puts(S, i, d) /\ sent[i] = 0)
    <2>1. <<i, d>> \in Square(n) /\ <<i, d>>[1] = i /\ <<i, d>>[2] = d
      BY DEF Square
    <2>2. ins[<<i, d>>] = IF d \in DOMAIN from /\ from[d] = i THEN 1 ELSE 0
      BY <2>1
    <2>3. outs[<<i, d>>] = IF d \in T[i] THEN 1 ELSE 0
      BY <2>1
    <2>4. heads[<<i, d>>] = IF d \in H[i] THEN 1 ELSE 0
      BY <2>1
    <2>5. (d \in T[i] <=> Puts(S, i, d)) /\ (d \in H[i] <=> Puts(S, i, d) /\ sent[i] = 0)
      BY DEF Puts
    <2> HIDE DEF ins, outs, heads, T, H
    <2> QED BY <2>2, <2>3, <2>4, <2>5 DEF Takes
  <1>12. Crossing(s, S, from, ins, outs, heads)
    <2>1. RowSums(outs, n) =
            SumOf([i \in E |-> IF i \in S THEN Traffic(s)!ExpectedOfFlit(Head(queue[i])) ELSE 0], n)
      <3> HIDE DEF outs
      <3> QED BY <1>6, <1>10, Zenon
    <2>2. ~s.multicast =>
            \A i \in E : /\ RowSum(outs, i, n) = IF i \in S THEN 1 ELSE 0
                         /\ RowSum(heads, i, n) = IF i \in S /\ sent[i] = 0 THEN 1 ELSE 0
      <3> HIDE DEF outs, heads, T, H
      <3> QED BY <1>6, <1>7, <1>9
    <2> HIDE DEF ins, outs, heads
    <2> QED BY <1>1, <1>5, <1>6, <1>7, <1>11, <2>1, <2>2, Zenon DEF Crossing
  <1> QED BY <1>12, Zenon

\* The sum of two matrices.
Plus(s, X, Y) == [e \in Pairs(s) |-> X[e] + Y[e]]

\* Its sums are those of the two.
LEMMA PlusSums ==
    ASSUME NEW s, s.ne \in Nat, NEW X \in [Pairs(s) -> Int], NEW Y \in [Pairs(s) -> Int]
    PROVE  /\ Plus(s, X, Y) \in [Pairs(s) -> Int]
           /\ \A i, d \in Ends(s) : Plus(s, X, Y)[<<i, d>>] = X[<<i, d>>] + Y[<<i, d>>]
           /\ \A i \in Ends(s) : RowSum(Plus(s, X, Y), i, s.ne) = RowSum(X, i, s.ne) + RowSum(Y, i, s.ne)
           /\ RowSums(Plus(s, X, Y), s.ne) = RowSums(X, s.ne) + RowSums(Y, s.ne)
  <1> DEFINE n == s.ne
             Z == Plus(s, X, Y)
  <1>1. n \in Nat /\ Pairs(s) = Square(n) /\ Ends(s) = 0 .. n - 1
    BY DEF Pairs, Ends
  <1>2. Z \in [Pairs(s) -> Int] /\ \A e \in Pairs(s) : Z[e] = X[e] + Y[e]
    BY DEF Plus
  <1>3. \A i, d \in 0 .. n - 1 : <<i, d>> \in Pairs(s)
    BY <1>1 DEF Square
  <1> HIDE DEF n, Z
  <1>4. \A i, d \in 0 .. n - 1 : Z[<<i, d>>] = X[<<i, d>>] + Y[<<i, d>>]
    BY <1>2, <1>3
  <1>5. X \in [Square(n) -> Int] /\ Y \in [Square(n) -> Int] /\ Z \in [Square(n) -> Int]
    BY <1>1, <1>2
  <1>6. /\ \A i \in 0 .. n - 1 : RowSum(Z, i, n) = RowSum(X, i, n) + RowSum(Y, i, n)
        /\ RowSums(Z, n) = RowSums(X, n) + RowSums(Y, n)
    <2>1. IsPlus(X, Y, Z, n)
      BY <1>4, <1>5, Zenon DEF IsPlus
    <2> QED BY <1>1, <2>1, MatrixAdd
  <1> QED BY <1>1, <1>2, <1>4, <1>6, Zenon DEF n, Z

-----------------------------------------------------------------------------
(* The books of a cycle.                                                   *)

\* The totals are the sums over the pairs; with one destination for each packet, so
\* are the statistics of the senders.
Books(s, A, B, C) ==
    /\ A \in [Pairs(s) -> Int] /\ B \in [Pairs(s) -> Int] /\ C \in [Pairs(s) -> Int]
    /\ \A i, d \in Ends(s) : PairBook(i, d, A[<<i, d>>], B[<<i, d>>], C[<<i, d>>])
    /\ total.rsvFlit = RowSums(A, s.ne) /\ total.expect = RowSums(B, s.ne)
    /\ ~s.multicast => \A i \in Ends(s) : /\ sentStat[i].flit = RowSum(B, i, s.ne)
                                          /\ sentStat[i].pck = RowSum(C, i, s.ne)

\* The totals after a cycle, in terms of sent and net.
TotalsMove(s, S, from) ==
    total' = [sentPck  |-> total.sentPck + Cardinality({i \in S : sent[i] = 0}),
              sentFlit |-> total.sentFlit + Cardinality(S),
              expect   |-> total.expect +
                  SumOf([i \in Ends(s) |->
                     IF i \in S THEN Traffic(s)!ExpectedOfFlit(Head(queue[i])) ELSE 0], s.ne),
              rsvPck   |-> total.rsvPck +
                  Cardinality({d \in DOMAIN from : Head(net[<<from[d], d>>]).tail}),
              rsvFlit  |-> total.rsvFlit + Cardinality(DOMAIN from)]

\* A cycle keeps the books.
LEMMA BooksNext ==
    ASSUME NEW s, Traffic(s)!TrafficAssumption, Kinds(s),
           NEW S, NEW from, NEW G, NEW new, NEW lat,
           Chosen(s, S, from, new, lat), NetworkMoves(s, S, from, G, new),
           StatisticsMove(s, S, from, lat), TotalsMove(s, S, from),
           NEW A, NEW B, NEW C, Books(s, A, B, C)
    PROVE  \E A1, B1, C1 : Books(s, A1, B1, C1)'
  <1>1. PICK ins, outs, heads : Crossing(s, S, from, ins, outs, heads)
    BY CrossingExists
  <1>2. PICK A1, B1, C1 : A1 = Plus(s, A, ins) /\ B1 = Plus(s, B, outs) /\ C1 = Plus(s, C, heads)
    OBVIOUS
  <1>3. /\ A \in [Pairs(s) -> Int] /\ B \in [Pairs(s) -> Int] /\ C \in [Pairs(s) -> Int]
        /\ ins \in [Pairs(s) -> Int] /\ outs \in [Pairs(s) -> Int] /\ heads \in [Pairs(s) -> Int]
    BY <1>1, Zenon DEF Books, Crossing
  <1>4. s.ne \in Nat
    BY SettingValues
  <1>5. /\ A1 \in [Pairs(s) -> Int]
        /\ \A i, d \in Ends(s) : A1[<<i, d>>] = A[<<i, d>>] + ins[<<i, d>>]
        /\ RowSums(A1, s.ne) = RowSums(A, s.ne) + RowSums(ins, s.ne)
    BY <1>2, <1>3, <1>4, PlusSums
  <1>6. /\ B1 \in [Pairs(s) -> Int]
        /\ \A i, d \in Ends(s) : B1[<<i, d>>] = B[<<i, d>>] + outs[<<i, d>>]
        /\ \A i \in Ends(s) : RowSum(B1, i, s.ne) = RowSum(B, i, s.ne) + RowSum(outs, i, s.ne)
        /\ RowSums(B1, s.ne) = RowSums(B, s.ne) + RowSums(outs, s.ne)
    BY <1>2, <1>3, <1>4, PlusSums
  <1>7. /\ C1 \in [Pairs(s) -> Int]
        /\ \A i, d \in Ends(s) : C1[<<i, d>>] = C[<<i, d>>] + heads[<<i, d>>]
        /\ \A i \in Ends(s) : RowSum(C1, i, s.ne) = RowSum(C, i, s.ne) + RowSum(heads, i, s.ne)
    BY <1>2, <1>3, <1>4, PlusSums
  <1>8. ASSUME NEW i \in Ends(s), NEW d \in Ends(s)
        PROVE  PairBook(i, d, A1[<<i, d>>], B1[<<i, d>>], C1[<<i, d>>])'
    <2> DEFINE e == <<i, d>>
    <2>1. PICK m, n, k1, take, put, c :
             /\ m = A[e] /\ n = B[e] /\ k1 = C[e] /\ take = ins[e] /\ put = outs[e] /\ c = heads[e]
      OBVIOUS
    <2>2. PICK b : b = IF TakesLast(from, i, d) THEN 1 ELSE 0
      OBVIOUS
    <2>3. Passing(S, from, i, d, take, b, put, c)
      BY <1>1, <2>1, <2>2 DEF Crossing, Passing
    <2>4. PairBook(i, d, m, n, k1)
      BY <2>1, Zenon DEF Books
    <2>5. PairBook(i, d, m + take, n + put, k1 + c)'
      BY <2>3, <2>4, PairBookNext
    <2>6. A1[e] = m + take /\ B1[e] = n + put /\ C1[e] = k1 + c
      BY <1>5, <1>6, <1>7, <2>1, Zenon
    <2> QED BY <2>5, <2>6, Zenon
  <1>9. total'.rsvFlit = RowSums(A1, s.ne) /\ total'.expect = RowSums(B1, s.ne)
    <2>1. total.rsvFlit = RowSums(A, s.ne) /\ total.expect = RowSums(B, s.ne)
      BY Zenon DEF Books
    <2>2. /\ total'.rsvFlit = total.rsvFlit + RowSums(ins, s.ne)
          /\ total'.expect = total.expect + RowSums(outs, s.ne)
      BY <1>1 DEF TotalsMove, Crossing
    <2> QED BY <1>5, <1>6, <2>1, <2>2, Zenon
  <1>10. ASSUME ~s.multicast, NEW i \in Ends(s)
         PROVE  sentStat'[i].flit = RowSum(B1, i, s.ne) /\ sentStat'[i].pck = RowSum(C1, i, s.ne)
    <2>1. sentStat[i].flit = RowSum(B, i, s.ne) /\ sentStat[i].pck = RowSum(C, i, s.ne)
      BY <1>10, Zenon DEF Books
    <2>2. /\ RowSum(outs, i, s.ne) = IF i \in S THEN 1 ELSE 0
          /\ RowSum(heads, i, s.ne) = IF i \in S /\ sent[i] = 0 THEN 1 ELSE 0
      BY <1>1, <1>10, Zenon DEF Crossing
    <2>3. /\ sentStat'[i].flit = sentStat[i].flit + RowSum(outs, i, s.ne)
          /\ sentStat'[i].pck = sentStat[i].pck + RowSum(heads, i, s.ne)
      BY <2>2, Zenon DEF StatisticsMove, One
    <2> QED BY <1>6, <1>7, <2>1, <2>3, Zenon
  <1>11. Books(s, A1, B1, C1)'
    BY <1>5, <1>6, <1>7, <1>8, <1>9, <1>10, Zenon DEF Books
  <1> QED BY <1>11

\* One more for each in T.
OneMore(f, h, T, n) ==
    /\ f \in [0 .. n - 1 -> Int] /\ h \in [0 .. n - 1 -> Int] /\ T \in SUBSET (0 .. n - 1)
    /\ \A m \in 0 .. n - 1 : h[m] = f[m] + (IF m \in T THEN 1 ELSE 0)

\* A sum grows by the number of elements that do.
LEMMA SumOneMore ==
    ASSUME NEW n \in Nat, NEW f, NEW h, NEW T, OneMore(f, h, T, n)
    PROVE  SumOf(h, n) = SumOf(f, n) + Cardinality(T)
  <1> DEFINE g == [m \in 0 .. n - 1 |-> IF m \in T THEN 1 ELSE 0]
  <1>1. /\ f \in [0 .. n - 1 -> Int] /\ h \in [0 .. n - 1 -> Int] /\ T \in SUBSET (0 .. n - 1)
        /\ \A m \in 0 .. n - 1 : h[m] = f[m] + g[m]
    BY DEF OneMore
  <1>2. g \in [0 .. n - 1 -> Int]
    OBVIOUS
  <1>3. SumOf(g, n) = Cardinality(T)
    BY <1>1, SumSet
  <1> HIDE DEF g
  <1>4. SumOf(h, n) = SumOf(f, n) + SumOf(g, n)
    <2>1. f \in [0 .. n - 1 -> Int] /\ h \in [0 .. n - 1 -> Int]
      BY <1>1
    <2>2. \A m \in 0 .. n - 1 : h[m] = f[m] + g[m]
      BY <1>1
    <2> QED BY <1>2, <2>1, <2>2, SumAdd
  <1> QED BY <1>3, <1>4

\* The totals of the senders and of the receivers.
Totals(s) ==
    /\ total.sentFlit = SumOf([i \in Ends(s) |-> sentStat[i].flit], s.ne)
    /\ total.rsvPck = SumOf([d \in Ends(s) |-> rsvdStat[d].pck], s.ne)

\* A cycle keeps the sums of the statistics equal to the totals.
LEMMA TotalsNext ==
    ASSUME NEW s, Traffic(s)!TrafficAssumption, Kinds(s),
           NEW S, NEW from, NEW new, NEW lat, Chosen(s, S, from, new, lat),
           StatisticsMove(s, S, from, lat), TotalsMove(s, S, from), Totals(s)
    PROVE  Totals(s)'
  <1> DEFINE n == s.ne
             T == {d \in DOMAIN from : Head(net[<<from[d], d>>]).tail}
             f == [i \in Ends(s) |-> sentStat[i].flit]
             h == [i \in Ends(s) |-> sentStat'[i].flit]
             k1 == [d \in Ends(s) |-> rsvdStat[d].pck]
             k2 == [d \in Ends(s) |-> rsvdStat'[d].pck]
  <1>1. n \in Nat /\ Ends(s) = 0 .. n - 1
    BY SettingValues DEF Ends
  <1>2. S \in SUBSET Ends(s) /\ T \in SUBSET Ends(s)
    BY DEF Chosen
  <1>3. total'.sentFlit = SumOf(f, n) + Cardinality(S) /\ total'.rsvPck = SumOf(k1, n) + Cardinality(T)
    BY DEF TotalsMove, Totals
  <1>4. \A i \in Ends(s) : /\ sentStat[i] \in Stat /\ sentStat'[i] \in Stat
                           /\ rsvdStat[i] \in Stat /\ rsvdStat'[i] \in Stat
    BY DEF Kinds, StatisticsMove
  <1>5. \A i \in Ends(s) : /\ sentStat[i].flit \in Int /\ sentStat'[i].flit \in Int
                           /\ rsvdStat[i].pck \in Int /\ rsvdStat'[i].pck \in Int
    BY <1>4, StatRecord
  <1>6. OneMore(f, h, S, n)
    <2>1. \A i \in Ends(s) : sentStat'[i].flit = sentStat[i].flit + (IF i \in S THEN 1 ELSE 0)
      BY Zenon DEF StatisticsMove, One
    <2>2. f \in [Ends(s) -> Int] /\ h \in [Ends(s) -> Int]
      BY <1>5
    <2> HIDE DEF n
    <2> QED BY <1>1, <1>2, <2>1, <2>2 DEF OneMore
  <1>7. OneMore(k1, k2, T, n)
    <2>1. \A d \in Ends(s) : rsvdStat'[d].pck = rsvdStat[d].pck + (IF d \in T THEN 1 ELSE 0)
      <3> SUFFICES ASSUME NEW d \in Ends(s)
                   PROVE  rsvdStat'[d].pck = rsvdStat[d].pck + (IF d \in T THEN 1 ELSE 0)
        OBVIOUS
      <3>1. rsvdStat'[d] = IF d \in T THEN Counted(rsvdStat[d], Head(net[<<from[d], d>>]).size, lat)
                           ELSE rsvdStat[d]
        BY DEF StatisticsMove
      <3>2. \A a, size, l : Counted(a, size, l).pck = a.pck + 1
        BY DEF Counted
      <3> HIDE DEF T
      <3> QED BY <1>5, <3>1, <3>2
    <2>2. k1 \in [Ends(s) -> Int] /\ k2 \in [Ends(s) -> Int]
      BY <1>5
    <2> HIDE DEF n, T
    <2> QED BY <1>1, <1>2, <2>1, <2>2 DEF OneMore
  <1> HIDE DEF f, h, k1, k2, T, n
  <1>8. SumOf(h, n) = SumOf(f, n) + Cardinality(S) /\ SumOf(k2, n) = SumOf(k1, n) + Cardinality(T)
    BY <1>1, <1>6, <1>7, SumOneMore
  <1>9. total'.sentFlit = SumOf(h, n) /\ total'.rsvPck = SumOf(k2, n)
    BY <1>3, <1>8, Zenon
  <1> QED BY <1>9, Zenon DEF Totals, h, k2, n

\* A minimum stays one when a latency is counted for each in T.
Timed(x, f, y, h, T, l, n) ==
    /\ f \in [0 .. n - 1 -> Nat] /\ x \in Nat /\ l \in Nat \ {0} /\ T \in SUBSET (0 .. n - 1)
    /\ \A m \in 0 .. n - 1 : h[m] = IF m \in T THEN Earlier(f[m], l) ELSE f[m]
    /\ y = IF T # {} THEN Earlier(x, l) ELSE x

\* The least of all latencies is kept when a receiver and its pair take one.
LEMMA LeastTimed ==
    ASSUME NEW n \in Nat, NEW x, NEW f, NEW y, NEW h, NEW T, NEW l,
           Timed(x, f, y, h, T, l, n), Least(x, f, n)
    PROVE  Least(y, h, n)
  <1> DEFINE E == 0 .. n - 1
  <1>1. /\ \A m \in E : f[m] \in Nat
        /\ x \in Nat /\ l \in Nat \ {0} /\ T \in SUBSET E
        /\ \A m \in E : h[m] = IF m \in T THEN Earlier(f[m], l) ELSE f[m]
        /\ y = IF T # {} THEN Earlier(x, l) ELSE x
    BY DEF Timed
  <1>2. /\ \A m \in E : f[m] # 0 => x # 0 /\ x <= f[m]
        /\ x # 0 => \E m \in E : f[m] = x
    BY DEF Least
  <1> HIDE DEF E
  <1>3. ASSUME NEW m \in E, h[m] # 0 PROVE y # 0 /\ y <= h[m]
    BY <1>1, <1>2, <1>3 DEF Earlier
  <1>4. ASSUME y # 0 PROVE \E m \in E : h[m] = y
    <2>1. CASE T = {}
      BY <1>1, <1>2, <1>4, <2>1
    <2>2. CASE T # {} /\ (x = 0 \/ x > l)
      <3>1. PICK m \in E : m \in T
        BY <1>1, <2>2
      <3>2. y = l
        BY <1>1, <2>2 DEF Earlier
      <3>3. f[m] = 0 \/ f[m] > l
        BY <1>1, <1>2, <2>2
      <3>4. h[m] = l
        BY <1>1, <3>1, <3>3 DEF Earlier
      <3> QED BY <3>2, <3>4
    <2>3. CASE T # {} /\ ~(x = 0 \/ x > l)
      <3>1. PICK m \in E : f[m] = x
        BY <1>2, <2>3
      <3>2. y = x /\ h[m] = x
        BY <1>1, <2>3, <3>1 DEF Earlier
      <3> QED BY <3>2
    <2> QED BY <2>1, <2>2, <2>3
  <1> QED BY <1>3, <1>4 DEF Least, E

-----------------------------------------------------------------------------
(* The statistics of receivers, senders and pairs.                         *)

\* The statistics of one receiver, those of one sender, and the minima.
Column(M, d, n) == [i \in 0 .. n - 1 |-> M[<<i, d>>]]
Row(M, i, n)    == [d \in 0 .. n - 1 |-> M[<<i, d>>]]
Mins(st, n)     == [m \in 0 .. n - 1 |-> st[m].min]

\* The statistics of the receivers and of the senders, and those of the pairs.
Reports(s) ==
    /\ \A d \in Ends(s) : rsvdStat[d] = MergedOf(Column(endpToEndp, d, s.ne), s.ne)
    /\ \A i \in Ends(s) : Least(sentStat[i].min, Mins(Row(endpToEndp, i, s.ne), s.ne), s.ne)
    /\ \A e \in Pairs(s) : /\ endpToEndp[e].pck = 0 => endpToEndp[e].min = 0
                           /\ endpToEndp[e].pck # 0 => endpToEndp[e].min \in s.latency

\* Functions with the same values are the same.
LEMMA SameFunction ==
    ASSUME NEW D, NEW R, NEW f \in [D -> R], NEW h \in [D -> R], \A j \in D : h[j] = f[j]
    PROVE  h = f
  OBVIOUS

\* A cycle keeps a receiver's statistic the merge of those of its pairs.
LEMMA ReportsNext ==
    ASSUME NEW s, Traffic(s)!TrafficAssumption, Kinds(s),
           NEW S, NEW from, NEW new, NEW lat, Chosen(s, S, from, new, lat),
           StatisticsMove(s, S, from, lat), Reports(s)
    PROVE  Reports(s)'
  <1> DEFINE n == s.ne
             E == endpToEndp
             F == endpToEndp'
  <1>1. n \in Nat /\ Ends(s) = 0 .. n - 1 /\ Pairs(s) = Square(n) /\ s.latency \subseteq Nat \ {0}
    BY SettingValues DEF Ends, Pairs
  <1>2. /\ lat \in Nat \ {0} /\ lat \in s.latency
        /\ DOMAIN from \in SUBSET Ends(s) /\ from \in [DOMAIN from -> Ends(s)]
    BY DEF Chosen
  <1>3. E \in [Pairs(s) -> Stat] /\ F \in [Pairs(s) -> Stat]
    BY DEF Kinds, StatisticsMove
  <1>4. \A i, d \in Ends(s) : <<i, d>> \in Pairs(s)
    BY <1>1 DEF Square
  <1>5. \A i, d \in Ends(s) : E[<<i, d>>] \in Stat /\ F[<<i, d>>] \in Stat
    BY <1>3, <1>4
  <1>6. \A i, d \in Ends(s) :
           F[<<i, d>>] = IF TakesLast(from, i, d)
                         THEN Counted(E[<<i, d>>], Head(net[<<i, d>>]).size, lat) ELSE E[<<i, d>>]
    BY DEF StatisticsMove
  <1>7. \A i, d \in Ends(s) : TakesLast(from, i, d) => Head(net[<<i, d>>]).size \in Nat
    BY TakenFlit DEF TakesLast, FlitKind
  <1>8. \A a, size : Counted(a, size, lat).pck = a.pck + 1 /\ Counted(a, size, lat).min = Earlier(a.min, lat)
    BY DEF Counted
  <1>9. ASSUME NEW d \in Ends(s)
        PROVE  rsvdStat'[d] = MergedOf(Column(endpToEndp, d, s.ne), s.ne)'
    <2> DEFINE f == Column(E, d, n)
               h == Column(F, d, n)
    <2>1. f \in [0 .. n - 1 -> Stat] /\ h \in [0 .. n - 1 -> Stat]
      BY <1>1, <1>5 DEF Column
    <2>2. rsvdStat[d] = MergedOf(f, n)
      BY DEF Reports
    <2>3. \A i \in Ends(s) : f[i] = E[<<i, d>>] /\ h[i] = F[<<i, d>>]
      BY <1>1 DEF Column
    <2> HIDE DEF f, h, n
    <2>4. CASE d \in DOMAIN from /\ Head(net[<<from[d], d>>]).tail
      <3>1. PICK i \in Ends(s) : i = from[d]
        BY <1>2, <2>4
      <3>2. TakesLast(from, i, d) /\ \A j \in Ends(s) : TakesLast(from, j, d) => j = i
        BY <2>4, <3>1 DEF TakesLast, Takes
      <3>3. PICK size \in Nat : size = Head(net[<<i, d>>]).size
        BY <1>7, <3>2
      <3>4. rsvdStat'[d] = Counted(rsvdStat[d], size, lat)
        BY <2>4, <3>1, <3>3 DEF StatisticsMove
      <3>5. h[i] = Counted(f[i], size, lat)
        BY <1>6, <2>3, <3>2, <3>3
      <3>6. \A j \in Ends(s) : j # i => h[j] = f[j]
        BY <1>6, <2>3, <3>2
      <3>7. CountedAt(f, h, i, size, lat, n)
        <4>1. i \in 0 .. n - 1 /\ size \in Nat /\ lat \in Nat \ {0}
          BY <1>1, <1>2
        <4>2. \A j \in 0 .. n - 1 : j # i => h[j] = f[j]
          BY <1>1, <3>6, Zenon
        <4> QED BY <2>1, <3>5, <4>1, <4>2, Zenon DEF CountedAt
      <3>8. MergedOf(h, n) = Counted(MergedOf(f, n), size, lat)
        BY <1>1, <3>7, MergedCounted
      <3>9. rsvdStat'[d] = MergedOf(h, n)
        BY <2>2, <3>4, <3>8, Zenon
      <3> QED BY <3>9, Zenon DEF h, n
    <2>5. CASE ~(d \in DOMAIN from /\ Head(net[<<from[d], d>>]).tail)
      <3>1. \A j \in Ends(s) : ~TakesLast(from, j, d)
        BY <2>5 DEF TakesLast, Takes
      <3>2. rsvdStat'[d] = rsvdStat[d]
        BY <2>5, Zenon DEF StatisticsMove
      <3>3. \A j \in Ends(s) : h[j] = f[j]
        BY <1>6, <2>3, <3>1
      <3>4. h = f
        BY <1>1, <2>1, <3>3, SameFunction
      <3>5. rsvdStat'[d] = MergedOf(h, n)
        BY <2>2, <3>2, <3>4, Zenon
      <3> QED BY <3>5, Zenon DEF h, n
    <2> QED BY <2>4, <2>5
  <1>10. ASSUME NEW i \in Ends(s)
         PROVE  Least(sentStat'[i].min, Mins(Row(F, i, n), n), n)
    <2> DEFINE T == {d \in Ends(s) : TakesLast(from, i, d)}
               f == Mins(Row(E, i, n), n)
               h == Mins(Row(F, i, n), n)
               x == sentStat[i].min
               y == sentStat'[i].min
    <2>1. \A d \in Ends(s) : E[<<i, d>>].min \in Nat /\ F[<<i, d>>].min \in Nat
      BY <1>5, StatRecord
    <2>2. /\ \A d \in 0 .. n - 1 : f[d] = E[<<i, d>>].min /\ h[d] = F[<<i, d>>].min
          /\ f \in [0 .. n - 1 -> Nat]
      BY <1>1, <2>1 DEF Mins, Row
    <2>3. Least(x, f, n)
      BY DEF Reports
    <2>4. x \in Nat
      <3>1. sentStat[i] \in Stat
        BY DEF Kinds
      <3> QED BY <3>1, StatRecord
    <2>5. y = IF T # {} THEN Earlier(x, lat) ELSE x
      <3>1. T # {} <=> \E d \in Ends(s) : TakesLast(from, i, d)
        BY Zenon
      <3> HIDE DEF T
      <3> QED BY <3>1, Zenon DEF StatisticsMove
    <2>6. \A d \in 0 .. n - 1 : h[d] = IF d \in T THEN Earlier(f[d], lat) ELSE f[d]
      <3>1. \A d \in Ends(s) : F[<<i, d>>].min = IF d \in T THEN Earlier(E[<<i, d>>].min, lat)
                                                 ELSE E[<<i, d>>].min
        BY <1>6, <1>8
      <3> HIDE DEF T, f, h
      <3> QED BY <1>1, <2>2, <3>1, Zenon
    <2>7. T \in SUBSET (0 .. n - 1)
      BY <1>1
    <2> HIDE DEF T, f, h, x, y, n
    <2>8. Timed(x, f, y, h, T, lat, n)
      BY <1>2, <2>2, <2>4, <2>5, <2>6, <2>7 DEF Timed
    <2>9. Least(y, h, n)
      BY <1>1, <2>3, <2>8, LeastTimed
    <2> QED BY <2>9, Zenon DEF y, h
  <1>11. ASSUME NEW e \in Pairs(s)
         PROVE  /\ F[e].pck = 0 => F[e].min = 0
                /\ F[e].pck # 0 => F[e].min \in s.latency
    <2>1. PICK i \in Ends(s), d \in Ends(s) : e = <<i, d>>
      BY <1>1, <1>11 DEF Square
    <2>2. /\ E[e].pck = 0 => E[e].min = 0
          /\ E[e].pck # 0 => E[e].min \in s.latency
      BY DEF Reports
    <2>3. E[e].pck \in Nat /\ E[e].min \in Nat
      BY <1>3, StatRecord
    <2>4. CASE TakesLast(from, i, d)
      <3>1. F[e].pck = E[e].pck + 1 /\ F[e].min = Earlier(E[e].min, lat)
        BY <1>6, <1>8, <2>1, <2>4
      <3> QED BY <1>1, <1>2, <2>2, <2>3, <3>1 DEF Earlier
    <2>5. CASE ~TakesLast(from, i, d)
      BY <1>6, <2>1, <2>2, <2>5
    <2> QED BY <2>4, <2>5
  <1> QED BY <1>9, <1>10, <1>11, Zenon DEF Reports

\* The flits in N are those of B that are not of A.
Held(s, N, A, B) ==
    /\ N \in [Pairs(s) -> Seq(FlitKind)] /\ A \in [Pairs(s) -> Int] /\ B \in [Pairs(s) -> Int]
    /\ \A i, d \in Ends(s) : B[<<i, d>>] = A[<<i, d>>] + Len(N[<<i, d>>])

\* What has been sent and not received is in the network.
LEMMA HeldCounts ==
    ASSUME NEW s, s.ne \in Nat, NEW N, NEW A, NEW B, Held(s, N, A, B)
    PROVE  /\ RowSums(A, s.ne) \in Int /\ RowSums(B, s.ne) \in Int
           /\ RowSums(B, s.ne) >= RowSums(A, s.ne)
           /\ RowSums(B, s.ne) = RowSums(A, s.ne) => \A i, d \in Ends(s) : N[<<i, d>>] = <<>>
  <1> DEFINE n == s.ne
             L == [e \in Pairs(s) |-> Len(N[e])]
  <1>1. n \in Nat /\ Pairs(s) = Square(n) /\ Ends(s) = 0 .. n - 1
    BY DEF Pairs, Ends
  <1>2. /\ N \in [Pairs(s) -> Seq(FlitKind)] /\ A \in [Pairs(s) -> Int] /\ B \in [Pairs(s) -> Int]
        /\ \A i, d \in Ends(s) : B[<<i, d>>] = A[<<i, d>>] + Len(N[<<i, d>>])
    BY Zenon DEF Held
  <1>3. \A i, d \in Ends(s) : <<i, d>> \in Pairs(s)
    BY <1>1 DEF Square
  <1>4. \A w \in Seq(FlitKind) : Len(w) \in Nat /\ (Len(w) = 0 => w = <<>>)
    OBVIOUS
  <1>5. L \in [Pairs(s) -> Nat] /\ \A i, d \in Ends(s) : L[<<i, d>>] = Len(N[<<i, d>>])
    BY <1>2, <1>3, <1>4
  <1> HIDE DEF L, n
  <1>6. L \in [Square(n) -> Nat] /\ L \in [Square(n) -> Int]
    BY <1>1, <1>5
  <1>7. A \in [Square(n) -> Int] /\ B \in [Square(n) -> Int]
    BY <1>1, <1>2
  <1>8. \A i, d \in 0 .. n - 1 : B[<<i, d>>] = A[<<i, d>>] + L[<<i, d>>]
    BY <1>1, <1>2, <1>5, Zenon
  <1>9. RowSums(A, n) \in Int /\ RowSums(B, n) = RowSums(A, n) + RowSums(L, n)
    <2>1. IsPlus(A, L, B, n)
      BY <1>6, <1>7, <1>8, Zenon DEF IsPlus
    <2> QED BY <1>1, <2>1, MatrixAdd
  <1>10. RowSums(L, n) \in Nat /\ (RowSums(L, n) = 0 => \A i, d \in 0 .. n - 1 : L[<<i, d>>] = 0)
    BY <1>1, <1>6, NothingInSum
  <1>11. RowSums(B, n) \in Int /\ RowSums(B, n) >= RowSums(A, n)
    BY <1>9, <1>10
  <1>12. ASSUME RowSums(B, n) = RowSums(A, n), NEW i \in Ends(s), NEW d \in Ends(s)
         PROVE  N[<<i, d>>] = <<>>
    <2>1. RowSums(L, n) = 0
      BY <1>9, <1>10, <1>12
    <2>2. Len(N[<<i, d>>]) = 0
      BY <1>1, <1>5, <1>10, <2>1
    <2>3. N[<<i, d>>] \in Seq(FlitKind)
      BY <1>2, <1>3
    <2> QED BY <1>4, <2>2, <2>3
  <1> QED BY <1>9, <1>11, <1>12, Zenon DEF n

-----------------------------------------------------------------------------
(* How a cycle ends.                                                       *)

\* Injection is done.
Ended(s) == total.sentPck >= s.endPck \/ clk + 1 >= s.endClk

\* The clock, the idle cycles and the verdict after a cycle.
VerdictMove(s) ==
    /\ clk' = IF clk < s.endClk THEN clk + 1 ELSE clk
    /\ idle' = IF Ended(s) THEN IF total'.rsvFlit = total.rsvFlit THEN idle + 1 ELSE 0 ELSE idle
    /\ failed' <=> Ended(s) /\ idle' >= s.idleLimit
    /\ simulationDone' <=> Ended(s) /\ ~failed' /\ total'.expect = total'.rsvFlit

\* A cycle comes to that verdict.
LEMMA CycleVerdict ==
    ASSUME NEW s, NEW S, NEW from, NEW G, NEW new, NEW off, NEW lat,
           CycleOf(s, S, from, G, new, off, lat), Traffic(s)!TrafficAssumption
    PROVE  VerdictMove(s)
  <1>1. /\ total' = Traffic(s)!TotalNext(S, from) /\ Traffic(s)!FinishOrFail(S, from)
        /\ clk' = IF clk < s.endClk THEN clk + 1 ELSE clk
    BY DEF CycleOf, Traffic!Cycle
  <1>2. Traffic(s)!InjectDone <=> Ended(s)
    BY DEF Traffic!InjectDone, Traffic!TotalActiveRouters, Ended
  <1>3. /\ idle' = IF Traffic(s)!InjectDone THEN Traffic(s)!IdleNext(total'.rsvFlit) ELSE idle
        /\ failed' = (Traffic(s)!InjectDone /\ idle' >= s.idleLimit)
        /\ simulationDone' = (Traffic(s)!InjectDone /\ ~failed' /\ Traffic(s)!Done(total'))
    BY <1>1, Zenon DEF Traffic!FinishOrFail
  <1>4. idle' = IF Ended(s) THEN IF total'.rsvFlit = total.rsvFlit THEN idle + 1 ELSE 0 ELSE idle
    BY <1>2, <1>3 DEF Traffic!IdleNext
  <1>5. failed' <=> Ended(s) /\ idle' >= s.idleLimit
    BY <1>2, <1>3, Zenon
  <1>6. simulationDone' <=> Ended(s) /\ ~failed' /\ total'.expect = total'.rsvFlit
    BY <1>2, <1>3, Zenon DEF Traffic!Done
  <1> QED BY <1>1, <1>4, <1>5, <1>6, Zenon DEF VerdictMove

\* Idle cycles are counted only while flits are missing; the verdict is that of the counts.
Verdict(s) ==
    /\ idle > 0 => Ended(s)
    /\ idle > 0 /\ ~simulationDone /\ ~failed => total.expect # total.rsvFlit
    /\ simulationDone => total.expect = total.rsvFlit
    /\ failed => total.expect # total.rsvFlit

\* The counters do not go back, and the flits received are among those expected.
Counts ==
    /\ clk \in Nat /\ idle \in Nat
    /\ total.sentPck \in Nat /\ total'.sentPck \in Nat /\ total'.sentPck >= total.sentPck
    /\ total.expect \in Int /\ total'.expect \in Int /\ total'.expect >= total.expect
    /\ total.rsvFlit \in Int /\ total'.rsvFlit \in Int /\ total.expect >= total.rsvFlit
    /\ ~simulationDone /\ ~failed

\* A cycle keeps the verdict true.
LEMMA VerdictNext ==
    ASSUME NEW s, s.endPck \in Nat, s.endClk \in Nat, s.idleLimit \in Nat, s.idleLimit >= 2,
           Counts, VerdictMove(s), Verdict(s)
    PROVE  Verdict(s)'
  <1> DEFINE a == total.sentPck
             a1 == total'.sentPck
             b == total.expect
             b1 == total'.expect
             c == total.rsvFlit
             c1 == total'.rsvFlit
  <1>1. /\ clk \in Nat /\ idle \in Nat /\ a \in Nat /\ a1 \in Nat /\ a1 >= a
        /\ b \in Int /\ b1 \in Int /\ b1 >= b /\ c \in Int /\ c1 \in Int /\ b >= c
    BY DEF Counts
  <1>2. ~simulationDone /\ ~failed
    BY Zenon DEF Counts
  <1>3. /\ clk' = IF clk < s.endClk THEN clk + 1 ELSE clk
        /\ idle' = IF Ended(s) THEN IF c1 = c THEN idle + 1 ELSE 0 ELSE idle
    BY DEF VerdictMove
  <1>4. /\ failed' <=> Ended(s) /\ idle' >= s.idleLimit
        /\ simulationDone' <=> Ended(s) /\ ~failed' /\ b1 = c1
    BY Zenon DEF VerdictMove
  <1>5. (idle > 0 => Ended(s)) /\ (idle > 0 => b # c)
    BY <1>2, Zenon DEF Verdict
  <1>6. Ended(s) <=> a >= s.endPck \/ clk + 1 >= s.endClk
    BY DEF Ended
  <1>7. Ended(s)' <=> a1 >= s.endPck \/ clk' + 1 >= s.endClk
    BY DEF Ended
  <1> HIDE DEF a, a1, b, b1, c, c1
  <1>8. idle' > 0 => Ended(s)
    BY <1>1, <1>3, <1>5
  <1>9. Ended(s) => Ended(s)'
    BY <1>1, <1>3, <1>6, <1>7
  <1>10. idle' >= s.idleLimit => idle > 0 /\ c1 = c
    BY <1>1, <1>3, <1>8
  <1>11. idle > 0 /\ c1 = c => b1 # c1
    BY <1>1, <1>5
  <1> QED BY <1>4, <1>8, <1>9, <1>10, <1>11, Zenon DEF Verdict, b1, c1

\* The totals do not go back.
LEMMA TotalsGrow ==
    ASSUME NEW s, Traffic(s)!TrafficAssumption, Kinds(s),
           NEW S, NEW from, NEW new, NEW lat, Chosen(s, S, from, new, lat), TotalsMove(s, S, from)
    PROVE  /\ total' \in [sentPck : Nat, sentFlit : Nat, expect : Nat, rsvPck : Nat, rsvFlit : Nat]
           /\ total.sentPck \in Nat /\ total'.sentPck \in Nat /\ total'.sentPck >= total.sentPck
           /\ total.expect \in Int /\ total'.expect \in Int /\ total'.expect >= total.expect
           /\ total.rsvFlit \in Int /\ total'.rsvFlit \in Int
  <1> DEFINE ex == SumOf([i \in Ends(s) |->
                     IF i \in S THEN Traffic(s)!ExpectedOfFlit(Head(queue[i])) ELSE 0], s.ne)
             ca == Cardinality({i \in S : sent[i] = 0})
             cb == Cardinality(S)
             cc == Cardinality({d \in DOMAIN from : Head(net[<<from[d], d>>]).tail})
             cd == Cardinality(DOMAIN from)
  <1>1. s.ne \in Nat /\ Ends(s) = 0 .. s.ne - 1 /\ Pairs(s) = Square(s.ne)
    BY SettingValues DEF Ends, Pairs
  <1>2. IsFiniteSet(Ends(s))
    BY <1>1, FS_Interval
  <1>3. \A T \in SUBSET Ends(s) : Cardinality(T) \in Nat
    BY <1>2, FS_Subset, FS_CardinalityType
  <1>4. S \in SUBSET Ends(s) /\ DOMAIN from \in SUBSET Ends(s)
    BY DEF Chosen
  <1>5. ca \in Nat /\ cb \in Nat /\ cc \in Nat /\ cd \in Nat
    BY <1>3, <1>4
  <1>6. ex \in Nat
    <2>1. PICK ins, outs, heads : Crossing(s, S, from, ins, outs, heads)
      BY CrossingExists
    <2>2. outs \in [Pairs(s) -> Int] /\ \A i, d \in Ends(s) : outs[<<i, d>>] \in {0, 1}
      BY <2>1, Zenon DEF Crossing
    <2>3. \A e \in Square(s.ne) : outs[e] \in Nat
      <3> SUFFICES ASSUME NEW e \in Square(s.ne) PROVE outs[e] \in Nat
        OBVIOUS
      <3>1. PICK i \in Ends(s), d \in Ends(s) : e = <<i, d>>
        BY <1>1 DEF Square
      <3>2. outs[e] \in {0, 1}
        BY <2>2, <3>1, Zenon
      <3> QED BY <3>2
    <2>4. outs \in [Square(s.ne) -> Nat]
      BY <1>1, <2>2, <2>3
    <2>5. RowSums(outs, s.ne) \in Nat
      BY <1>1, <2>4, NothingInSum
    <2>6. RowSums(outs, s.ne) = ex
      BY <2>1, Zenon DEF Crossing
    <2> QED BY <2>5, <2>6, Zenon
  <1>7. total' = [sentPck  |-> total.sentPck + ca, sentFlit |-> total.sentFlit + cb,
                  expect   |-> total.expect + ex, rsvPck   |-> total.rsvPck + cc,
                  rsvFlit  |-> total.rsvFlit + cd]
    BY Zenon DEF TotalsMove
  <1> HIDE DEF ca, cb, cc, cd, ex
  <1>8. /\ total.sentPck \in Nat /\ total.sentFlit \in Nat /\ total.expect \in Nat
        /\ total.rsvPck \in Nat /\ total.rsvFlit \in Nat
    BY DEF Kinds
  <1> QED BY <1>5, <1>6, <1>7, <1>8

\* The flits between two end points after a cycle.
LEMMA NetNext ==
    ASSUME NEW s, Traffic(s)!TrafficAssumption, Kinds(s),
           NEW S, NEW from, NEW G, NEW new, NEW lat,
           Chosen(s, S, from, new, lat), NetworkMoves(s, S, from, G, new),
           NEW i \in Ends(s), NEW d \in Ends(s)
    PROVE  /\ net'[<<i, d>>] \in Seq(FlitKind)
           /\ Puts(S, i, d) => net'[<<i, d>>] # <<>>
           /\ ~Puts(S, i, d) => Len(net'[<<i, d>>]) = Len(net[<<i, d>>]) - One(Takes(from, i, d))
  <1> DEFINE w == net[<<i, d>>]
             v == IF Takes(from, i, d) THEN Tail(w) ELSE w
             f == NewFlit(i)
             u == net'[<<i, d>>]
  <1>1. <<i, d>> \in Pairs(s)
    BY DEF Pairs, Square, Ends
  <1>2. u = v \o (IF Puts(S, i, d) THEN <<f>> ELSE <<>>)
    BY <1>1 DEF NetworkMoves
  <1>3. w \in Seq(FlitKind)
    BY <1>1 DEF Kinds
  <1>4. Takes(from, i, d) => w # <<>>
    BY TakenFlit
  <1>5. Puts(S, i, d) => f \in FlitKind
    BY FirstPacket DEF Puts, Chosen
  <1> HIDE DEF w, f, u
  <1>6. v \in Seq(FlitKind) /\ Len(v) = Len(w) - (IF Takes(from, i, d) THEN 1 ELSE 0)
    <2>1. CASE Takes(from, i, d)
      BY <1>3, <1>4, <2>1
    <2>2. CASE ~Takes(from, i, d)
      BY <1>3, <2>2
    <2> QED BY <2>1, <2>2
  <1>7. One(Takes(from, i, d)) = IF Takes(from, i, d) THEN 1 ELSE 0
    BY Zenon DEF One
  <1> HIDE DEF v
  <1>8. CASE Puts(S, i, d)
    <2>1. u = v \o <<f>> /\ f \in FlitKind
      BY <1>2, <1>5, <1>8
    <2>2. u \in Seq(FlitKind) /\ u # <<>>
      BY <1>6, <2>1
    <2> QED BY <1>8, <2>2 DEF u
  <1>9. CASE ~Puts(S, i, d)
    <2>1. u = v \o <<>>
      BY <1>2, <1>9
    <2>2. u = v
      BY <1>6, <2>1
    <2>3. u \in Seq(FlitKind) /\ Len(u) = Len(w) - One(Takes(from, i, d))
      BY <1>6, <1>7, <2>2, Zenon
    <2> QED BY <1>9, <2>3, Zenon DEF u, w
  <1> QED BY <1>8, <1>9

\* When nothing is in the network after a cycle, no packet is half sent.
LEMMA NothingHalfSent ==
    ASSUME NEW s, Traffic(s)!TrafficAssumption, Kinds(s),
           NEW S, NEW from, NEW G, NEW new, NEW lat,
           Chosen(s, S, from, new, lat), NetworkMoves(s, S, from, G, new),
           \A j, d \in Ends(s) : net'[<<j, d>>] = <<>>, NEW i \in Ends(s)
    PROVE  sent'[i] = 0
  <1>1. /\ sent'[i] = IF i \notin S THEN sent[i] ELSE IF EndsPacket(i) THEN 0 ELSE sent[i] + 1
        /\ sent[i] \in Nat
    BY QueueStep
  <1>2. CASE i \in S
    <2>1. queue[i] # <<>>
      BY <1>2 DEF Chosen
    <2>2. PICK d \in Ends(s) : d \in Head(queue[i]).dst
      BY <2>1, FirstPacket
    <2>3. Puts(S, i, d)
      BY <1>2, <2>2 DEF Puts
    <2>4. net'[<<i, d>>] # <<>>
      BY <2>3, NetNext
    <2> QED BY <2>4
  <1>3. CASE i \notin S
    <2> SUFFICES ASSUME sent[i] > 0 PROVE FALSE
      BY <1>1, <1>3
    <2>1. queue[i] # <<>>
      BY DEF Kinds
    <2>2. PICK d \in Ends(s) : Len(net[<<i, d>>]) > One(Takes(from, i, d))
      BY <1>3, <2>1 DEF NetworkMoves
    <2>3. ~Puts(S, i, d)
      BY <1>3 DEF Puts
    <2>4. Len(net'[<<i, d>>]) = Len(net[<<i, d>>]) - One(Takes(from, i, d))
      BY <2>3, NetNext
    <2>5. Len(net'[<<i, d>>]) = 0
      <3>1. net'[<<i, d>>] = <<>> /\ Len(<<>>) = 0
        OBVIOUS
      <3> QED BY <3>1, Zenon
    <2>6. Len(net[<<i, d>>]) \in Nat /\ One(Takes(from, i, d)) \in Nat
      <3>1. net[<<i, d>>] \in Seq(FlitKind)
        BY DEF Kinds, Pairs, Square, Ends
      <3>2. One(Takes(from, i, d)) \in {0, 1}
        BY Zenon DEF One
      <3> QED BY <3>1, <3>2
    <2> QED BY <2>2, <2>4, <2>5, <2>6
  <1> QED BY <1>2, <1>3

\* A cycle keeps the kinds of values.
LEMMA KindsNext ==
    ASSUME NEW s, Traffic(s)!TrafficAssumption, Kinds(s),
           NEW S, NEW from, NEW G, NEW new, NEW lat,
           Chosen(s, S, from, new, lat), NetworkMoves(s, S, from, G, new),
           StatisticsMove(s, S, from, lat), TotalsMove(s, S, from), VerdictMove(s)
    PROVE  Kinds(s)'
  <1>1. clk' \in Nat /\ idle' \in Nat
    BY DEF Kinds, VerdictMove
  <1>2. total' \in [sentPck : Nat, sentFlit : Nat, expect : Nat, rsvPck : Nat, rsvFlit : Nat]
    BY TotalsGrow
  <1>3. /\ sentStat' \in [Ends(s) -> Stat] /\ rsvdStat' \in [Ends(s) -> Stat]
        /\ endpToEndp' \in [Pairs(s) -> Stat]
    BY Zenon DEF StatisticsMove
  <1>4. net' \in [Pairs(s) -> Seq(FlitKind)]
    <2>1. net' = [e \in Pairs(s) |-> net'[e]]
      BY DEF NetworkMoves
    <2>2. ASSUME NEW e \in Pairs(s) PROVE net'[e] \in Seq(FlitKind)
      <3>1. PICK i \in Ends(s), d \in Ends(s) : e = <<i, d>>
        BY DEF Pairs, Square, Ends
      <3>2. net'[<<i, d>>] \in Seq(FlitKind)
        BY NetNext
      <3> QED BY <3>1, <3>2
    <2> QED BY <2>1, <2>2
  <1>5. sent' \in [Ends(s) -> Nat]
    <2>1. sent' = [i \in Ends(s) |-> sent'[i]]
      BY DEF NetworkMoves
    <2>2. \A i \in Ends(s) : sent'[i] \in Nat
      BY QueueStep
    <2> QED BY <2>1, <2>2
  <1>6. \A i \in Ends(s) : /\ queue'[i] \in Seq(Traffic(s)!Packets(i))
                           /\ nextPck'[i] \in Traffic(s)!Packets(i)
                           /\ sent'[i] > 0 => queue'[i] # <<>>
    BY QueueStep
  <1>7. \A i : Traffic(s)!Packets(i)' = Traffic(s)!Packets(i)
    BY DEF Traffic!Packets, Traffic!Endp
  <1> QED BY <1>1, <1>2, <1>3, <1>4, <1>5, <1>6, <1>7, Zenon DEF Kinds

-----------------------------------------------------------------------------
(* The invariant of the traffic with setting s.                            *)

\* A simulation that is done has no packet half sent.
NothingComes(s) == simulationDone => \A i \in Ends(s) : sent[i] = 0

\* The inductive invariant.
TrafficInv(s) ==
    /\ Kinds(s) /\ (\E A, B, C : Books(s, A, B, C))
    /\ Totals(s) /\ Reports(s) /\ Verdict(s) /\ NothingComes(s)

\* What the books say of the flits in the network.
LEMMA BooksHold ==
    ASSUME NEW s, NEW A, NEW B, NEW C, Books(s, A, B, C), net \in [Pairs(s) -> Seq(FlitKind)]
    PROVE  Held(s, net, A, B)
  <1>1. A \in [Pairs(s) -> Int] /\ B \in [Pairs(s) -> Int]
    BY Zenon DEF Books
  <1>2. ASSUME NEW i \in Ends(s), NEW d \in Ends(s)
        PROVE  B[<<i, d>>] = A[<<i, d>>] + Len(net[<<i, d>>])
    <2>1. PairBook(i, d, A[<<i, d>>], B[<<i, d>>], C[<<i, d>>])
      BY Zenon DEF Books
    <2> QED BY <2>1, Zenon DEF PairBook
  <1> QED BY <1>1, <1>2, Zenon DEF Held

\* The same after a cycle.
LEMMA BooksHoldNext ==
    ASSUME NEW s, NEW A, NEW B, NEW C, Books(s, A, B, C)', net' \in [Pairs(s) -> Seq(FlitKind)]
    PROVE  Held(s, net', A, B)
  <1>1. A \in [Pairs(s) -> Int] /\ B \in [Pairs(s) -> Int]
    BY Zenon DEF Books
  <1>2. ASSUME NEW i \in Ends(s), NEW d \in Ends(s)
        PROVE  B[<<i, d>>] = A[<<i, d>>] + Len(net'[<<i, d>>])
    <2>1. PairBook(i, d, A[<<i, d>>], B[<<i, d>>], C[<<i, d>>])'
      BY Zenon DEF Books
    <2> QED BY <2>1, Zenon DEF PairBook
  <1> QED BY <1>1, <1>2, Zenon DEF Held

\* A cycle keeps the invariant.
LEMMA TrafficStep ==
    ASSUME NEW s, Traffic(s)!TrafficAssumption, TrafficInv(s), NEW S, NEW from, NEW G, NEW new,
           NEW off, NEW lat, CycleOf(s, S, from, G, new, off, lat)
    PROVE  TrafficInv(s)'
  <1>1. /\ Kinds(s) /\ (\E A, B, C : Books(s, A, B, C))
        /\ Totals(s) /\ Reports(s) /\ Verdict(s)
    BY Zenon DEF TrafficInv
  <1>2. /\ Chosen(s, S, from, new, lat) /\ NetworkMoves(s, S, from, G, new)
        /\ StatisticsMove(s, S, from, lat) /\ VerdictMove(s)
    BY <1>1, CycleChoices, CycleNetwork, CycleStatistics, CycleVerdict
  <1>3. TotalsMove(s, S, from)
    BY CycleTotals DEF TotalsMove
  <1>4. PICK A, B, C : Books(s, A, B, C)
    BY <1>1, Zenon
  <1>5. PICK A1, B1, C1 : Books(s, A1, B1, C1)'
    BY <1>1, <1>2, <1>3, <1>4, BooksNext
  <1>6. Kinds(s)'
    BY <1>1, <1>2, <1>3, KindsNext
  <1>7. Totals(s)' /\ Reports(s)'
    BY <1>1, <1>2, <1>3, TotalsNext, ReportsNext
  <1>8. s.ne \in Nat /\ s.endPck \in Nat /\ s.endClk \in Nat /\ s.idleLimit \in Nat /\ s.idleLimit >= 2
    BY SettingValues
  <1>9. Held(s, net, A, B) /\ total.expect = RowSums(B, s.ne) /\ total.rsvFlit = RowSums(A, s.ne)
    <2>1. net \in [Pairs(s) -> Seq(FlitKind)]
      BY <1>1, Zenon DEF Kinds
    <2>2. Held(s, net, A, B)
      BY <1>4, <2>1, BooksHold
    <2> QED BY <1>4, <2>2, Zenon DEF Books
  <1>10. /\ Held(s, net', A1, B1) /\ total'.expect = RowSums(B1, s.ne)
         /\ total'.rsvFlit = RowSums(A1, s.ne)
    <2>1. net' \in [Pairs(s) -> Seq(FlitKind)]
      BY <1>6, Zenon DEF Kinds
    <2>2. Held(s, net', A1, B1)
      BY <1>5, <2>1, BooksHoldNext
    <2> QED BY <1>5, <2>2, Zenon DEF Books
  <1>11. Counts
    <2>1. RowSums(B, s.ne) >= RowSums(A, s.ne)
      BY <1>8, <1>9, HeldCounts
    <2>2. total.expect >= total.rsvFlit
      BY <1>9, <2>1, Zenon
    <2>3. ~simulationDone /\ ~failed
      BY <1>2, Zenon DEF Chosen
    <2>4. clk \in Nat /\ idle \in Nat
      BY <1>1, Zenon DEF Kinds
    <2>5. /\ total.sentPck \in Nat /\ total'.sentPck \in Nat /\ total'.sentPck >= total.sentPck
          /\ total.expect \in Int /\ total'.expect \in Int /\ total'.expect >= total.expect
          /\ total.rsvFlit \in Int /\ total'.rsvFlit \in Int
      BY <1>1, <1>2, <1>3, TotalsGrow
    <2> QED BY <2>2, <2>3, <2>4, <2>5, Zenon DEF Counts
  <1>12. Verdict(s)'
    BY <1>1, <1>2, <1>8, <1>11, VerdictNext
  <1>13. NothingComes(s)'
    <2> SUFFICES ASSUME simulationDone', NEW i \in Ends(s) PROVE sent'[i] = 0
      BY DEF NothingComes
    <2>1. total'.expect = total'.rsvFlit
      BY <1>2, Zenon DEF VerdictMove
    <2>2. RowSums(B1, s.ne) = RowSums(A1, s.ne)
      BY <1>10, <2>1, Zenon
    <2>3. \A j, d \in Ends(s) : net'[<<j, d>>] = <<>>
      <3>1. PICK N : N = net'
        OBVIOUS
      <3>2. Held(s, N, A1, B1)
        BY <1>10, <3>1, Zenon
      <3>3. \A j, d \in Ends(s) : N[<<j, d>>] = <<>>
        BY <1>8, <2>2, <3>2, HeldCounts
      <3> QED BY <3>1, <3>3, Zenon
    <2> QED BY <1>1, <1>2, <2>3, NothingHalfSent
  <1>14. (\E A2, B2, C2 : Books(s, A2, B2, C2))'
    BY <1>5, Zenon
  <1> QED BY <1>6, <1>7, <1>12, <1>13, <1>14, Zenon DEF TrafficInv

\* The sums of a matrix of zeros.
LEMMA ZeroSums ==
    ASSUME NEW n \in Nat, NEW Z, Z = [e \in Square(n) |-> 0]
    PROVE  RowSums(Z, n) = 0 /\ \A i \in 0 .. n - 1 : RowSum(Z, i, n) = 0
  <1>1. ASSUME NEW i \in 0 .. n - 1 PROVE RowSum(Z, i, n) = 0
    <2> DEFINE f == [j \in 0 .. n - 1 |-> Z[<<i, j>>]]
    <2>1. f \in [0 .. n - 1 -> Int] /\ \A m \in 0 .. n - 1 : f[m] = 0
      BY DEF Square
    <2> HIDE DEF f
    <2>2. SumOf(f, n) = 0
      BY <2>1, SumNothing
    <2> QED BY <2>2, Zenon DEF RowSum, f
  <1> DEFINE h == [i \in 0 .. n - 1 |-> RowSum(Z, i, n)]
  <1>2. h \in [0 .. n - 1 -> Int] /\ \A m \in 0 .. n - 1 : h[m] = 0
    BY <1>1
  <1> HIDE DEF h
  <1>3. SumOf(h, n) = 0
    BY <1>2, SumNothing
  <1> QED BY <1>1, <1>3, Zenon DEF RowSums, h

\* The initial states satisfy the invariant.
LEMMA TrafficStart ==
    ASSUME NEW s, Traffic(s)!TrafficAssumption, Traffic(s)!Init
    PROVE  TrafficInv(s)
  <1> DEFINE n == s.ne
             Z == [e \in Pairs(s) |-> 0]
  <1>1. /\ n \in Nat /\ Ends(s) = 0 .. n - 1 /\ Pairs(s) = Square(n)
        /\ Traffic(s)!Endp = Ends(s) /\ Ends(s) \X Ends(s) = Pairs(s)
    BY SettingValues DEF Ends, Pairs
  <1>2. Traffic(s)!NoStat = Nil /\ Nil \in Stat /\ Nil.pck = 0 /\ Nil.flit = 0 /\ Nil.min = 0
    BY DEF Traffic!NoStat, Nil, Stat
  <1>3. /\ clk = 0 /\ idle = 0 /\ simulationDone = FALSE /\ failed = FALSE
        /\ total = [sentPck |-> 0, sentFlit |-> 0, expect |-> 0, rsvPck |-> 0, rsvFlit |-> 0]
    BY DEF Traffic!Init
  <1>4. /\ sentStat = [i \in Ends(s) |-> Nil] /\ rsvdStat = [i \in Ends(s) |-> Nil]
        /\ endpToEndp = [e \in Pairs(s) |-> Nil]
        /\ queue = [i \in Ends(s) |-> <<>>] /\ sent = [i \in Ends(s) |-> 0]
        /\ net = [e \in Pairs(s) |-> <<>>]
    BY <1>1, <1>2, Zenon DEF Traffic!Init
  <1>5. \A i \in Ends(s) : nextPck[i] \in Traffic(s)!Packets(i)
    BY <1>1 DEF Traffic!Init
  <1>6. \A i, d \in Ends(s) : <<i, d>> \in Pairs(s)
    BY <1>1 DEF Square
  <1>7. Kinds(s)
    BY <1>2, <1>3, <1>4, <1>5 DEF Kinds
  <1>8. Books(s, Z, Z, Z)
    <2>1. RowSums(Z, n) = 0 /\ \A i \in Ends(s) : RowSum(Z, i, n) = 0
      <3>1. Z = [e \in Square(n) |-> 0]
        BY <1>1
      <3> HIDE DEF Z, n
      <3> QED BY <1>1, <3>1, ZeroSums
    <2>2. ASSUME NEW i \in Ends(s), NEW d \in Ends(s) PROVE PairBook(i, d, 0, 0, 0)
      <3>1. One(0 > 0) = 0
        BY DEF One
      <3>2. Run(<<>>, 0, 0, 0)
        BY <3>1, RunEmpty
      <3>3. net[<<i, d>>] = <<>> /\ Coming(i, d) = 0 /\ endpToEndp[<<i, d>>] = Nil
        BY <1>4, <1>6 DEF Coming
      <3>4. Len(<<>>) = 0 /\ 0 + 0 = 0 /\ 0 \in Nat /\ 0 \in Int
        OBVIOUS
      <3> QED BY <1>2, <3>2, <3>3, <3>4, Zenon DEF PairBook
    <2>3. \A i, d \in Ends(s) : Z[<<i, d>>] = 0
      BY <1>6
    <2>4. Z \in [Pairs(s) -> Int]
      OBVIOUS
    <2>5. total.rsvFlit = 0 /\ total.expect = 0
      BY <1>3
    <2>6. \A i \in Ends(s) : sentStat[i].flit = 0 /\ sentStat[i].pck = 0
      BY <1>2, <1>4
    <2> HIDE DEF Z
    <2> QED BY <2>1, <2>2, <2>3, <2>4, <2>5, <2>6, Zenon DEF Books
  <1>9. Totals(s)
    <2> DEFINE f == [i \in Ends(s) |-> sentStat[i].flit]
               h == [d \in Ends(s) |-> rsvdStat[d].pck]
    <2>1. f \in [0 .. n - 1 -> Int] /\ \A m \in 0 .. n - 1 : f[m] = 0
      BY <1>1, <1>2, <1>4
    <2>2. h \in [0 .. n - 1 -> Int] /\ \A m \in 0 .. n - 1 : h[m] = 0
      BY <1>1, <1>2, <1>4
    <2> HIDE DEF f, h, n
    <2>3. SumOf(f, n) = 0 /\ SumOf(h, n) = 0
      BY <1>1, <2>1, <2>2, SumNothing
    <2>4. total.sentFlit = 0 /\ total.rsvPck = 0
      BY <1>3
    <2> QED BY <2>3, <2>4, Zenon DEF Totals, f, h, n
  <1>10. Reports(s)
    <2>1. ASSUME NEW d \in Ends(s) PROVE rsvdStat[d] = MergedOf(Column(endpToEndp, d, n), n)
      <3> DEFINE f == Column(endpToEndp, d, n)
      <3>1. f \in [0 .. n - 1 -> Stat] /\ \A m \in 0 .. n - 1 : f[m] = Nil
        BY <1>1, <1>2, <1>4, <1>6 DEF Column
      <3> HIDE DEF f, n
      <3>2. MergedOf(f, n) = Nil
        BY <1>1, <3>1, MergedNothing
      <3> QED BY <1>4, <3>2 DEF f
    <2>2. ASSUME NEW i \in Ends(s)
          PROVE  Least(sentStat[i].min, Mins(Row(endpToEndp, i, n), n), n)
      <3>1. sentStat[i].min = 0
        BY <1>2, <1>4
      <3>2. \A m \in 0 .. n - 1 : Mins(Row(endpToEndp, i, n), n)[m] = 0
        BY <1>1, <1>2, <1>4, <1>6 DEF Mins, Row
      <3> QED BY <3>1, <3>2 DEF Least
    <2>3. \A e \in Pairs(s) : endpToEndp[e].pck = 0 /\ endpToEndp[e].min = 0
      BY <1>2, <1>4
    <2> QED BY <2>1, <2>2, <2>3, Zenon DEF Reports
  <1>11. Verdict(s) /\ NothingComes(s)
    BY <1>3 DEF Verdict, NothingComes
  <1> HIDE DEF Z
  <1> QED BY <1>7, <1>8, <1>9, <1>10, <1>11, Zenon DEF TrafficInv

-----------------------------------------------------------------------------
(* The report.                                                             *)

\* The least of all but the zeros in the rows of G.
LeastOfAll(x, G, n) ==
    /\ \A i, j \in 0 .. n - 1 : G[i][j] # 0 => x # 0 /\ x <= G[i][j]
    /\ x # 0 => \E i, j \in 0 .. n - 1 : G[i][j] = x

\* x is the least of f, whose elements are the least of the rows of G.
LeastRows(x, f, G, n) ==
    /\ x \in Nat /\ \A i \in 0 .. n - 1 : f[i] \in Nat
    /\ \A i, j \in 0 .. n - 1 : G[i][j] \in Nat
    /\ Least(x, f, n) /\ \A i \in 0 .. n - 1 : Least(f[i], G[i], n)

\* Then x is the least of all.
LEMMA LeastOfRows ==
    ASSUME NEW n \in Nat, NEW x, NEW f, NEW G, LeastRows(x, f, G, n)
    PROVE  LeastOfAll(x, G, n)
  <1> DEFINE E == 0 .. n - 1
  <1>1. /\ x \in Nat /\ \A i \in E : f[i] \in Nat
        /\ \A i, j \in E : G[i][j] \in Nat
    BY DEF LeastRows
  <1>2. /\ \A m \in E : f[m] # 0 => x # 0 /\ x <= f[m]
        /\ x # 0 => \E m \in E : f[m] = x
    BY DEF LeastRows, Least
  <1>3. \A i \in E : /\ \A m \in E : G[i][m] # 0 => f[i] # 0 /\ f[i] <= G[i][m]
                     /\ f[i] # 0 => \E m \in E : G[i][m] = f[i]
    BY DEF LeastRows, Least
  <1> HIDE DEF E
  <1>4. ASSUME NEW i \in E, NEW j \in E, G[i][j] # 0 PROVE x # 0 /\ x <= G[i][j]
    BY <1>1, <1>2, <1>3, <1>4
  <1>5. ASSUME x # 0 PROVE \E i, j \in E : G[i][j] = x
    BY <1>1, <1>2, <1>3, <1>5
  <1> QED BY <1>4, <1>5, Zenon DEF LeastOfAll, E

\* Rows and columns have the same least.
LEMMA SameLeast ==
    ASSUME NEW n \in Nat, NEW x, NEW f, NEW G, LeastRows(x, f, G, n),
           NEW y, NEW h, NEW H, LeastRows(y, h, H, n),
           \A i, j \in 0 .. n - 1 : G[i][j] = H[j][i]
    PROVE  x = y
  <1> DEFINE E == 0 .. n - 1
  <1>1. LeastOfAll(x, G, n) /\ LeastOfAll(y, H, n)
    BY LeastOfRows
  <1>2. x \in Nat /\ y \in Nat
    BY Zenon DEF LeastRows
  <1>3. /\ \A i, j \in E : G[i][j] # 0 => x # 0 /\ x <= G[i][j]
        /\ x # 0 => \E i, j \in E : G[i][j] = x
        /\ \A i, j \in E : H[i][j] # 0 => y # 0 /\ y <= H[i][j]
        /\ y # 0 => \E i, j \in E : H[i][j] = y
    BY <1>1 DEF LeastOfAll
  <1>4. \A i, j \in E : G[i][j] = H[j][i]
    OBVIOUS
  <1> HIDE DEF E
  <1>5. x # 0 => y # 0 /\ y <= x
    <2> SUFFICES ASSUME x # 0 PROVE y # 0 /\ y <= x
      OBVIOUS
    <2>1. PICK i \in E, j \in E : G[i][j] = x
      BY <1>3
    <2>2. H[j][i] = x
      BY <1>4, <2>1
    <2> QED BY <1>3, <2>2
  <1>6. y # 0 => x # 0 /\ x <= y
    <2> SUFFICES ASSUME y # 0 PROVE x # 0 /\ x <= y
      OBVIOUS
    <2>1. PICK i \in E, j \in E : H[i][j] = y
      BY <1>3
    <2>2. G[j][i] = y
      BY <1>4, <2>1
    <2> QED BY <1>3, <2>2
  <1> QED BY <1>2, <1>5, <1>6

\* The shortest latency is the same by senders and by receivers.
LEMMA ReportMin ==
    ASSUME NEW s, Traffic(s)!TrafficAssumption, Kinds(s), Reports(s)
    PROVE  MergedOf(sentStat, s.ne).min = MergedOf(rsvdStat, s.ne).min
  <1> DEFINE n == s.ne
             E == 0 .. n - 1
             f == Mins(sentStat, n)
             h == Mins(rsvdStat, n)
             G == [i \in E |-> Mins(Row(endpToEndp, i, n), n)]
             H == [d \in E |-> Mins(Column(endpToEndp, d, n), n)]
             x == MergedOf(sentStat, n).min
             y == MergedOf(rsvdStat, n).min
  <1>1. n \in Nat /\ Ends(s) = E /\ Pairs(s) = Square(n)
    BY SettingValues DEF Ends, Pairs
  <1>2. sentStat \in [E -> Stat] /\ rsvdStat \in [E -> Stat]
    BY <1>1 DEF Kinds
  <1>3. \A i, d \in E : endpToEndp[<<i, d>>] \in Stat
    BY <1>1 DEF Kinds, Square
  <1>4. \A i \in E : /\ f[i] = sentStat[i].min /\ h[i] = rsvdStat[i].min
                     /\ f[i] \in Nat /\ h[i] \in Nat
    BY <1>2, StatRecord DEF Mins
  <1>5. \A i, d \in E : /\ G[i][d] = endpToEndp[<<i, d>>].min /\ G[i][d] \in Nat
                        /\ H[d][i] = endpToEndp[<<i, d>>].min /\ H[d][i] \in Nat
    BY <1>3, StatRecord DEF Mins, Row, Column
  <1>6. x \in Nat /\ y \in Nat /\ Least(x, f, n) /\ Least(y, h, n)
    <2> HIDE DEF n
    <2>1. MergedOf(sentStat, n) \in Stat /\ MergedOf(rsvdStat, n) \in Stat
      BY <1>1, <1>2, MergedIsStat
    <2>2. x \in Nat /\ y \in Nat
      BY <2>1, StatRecord
    <2>3. Least(x, f, n)
      BY <1>1, <1>2, MergedMin DEF Mins
    <2>4. Least(y, h, n)
      BY <1>1, <1>2, MergedMin DEF Mins
    <2> QED BY <2>2, <2>3, <2>4
  <1>7. ASSUME NEW i \in E PROVE Least(f[i], G[i], n)
    <2>1. f[i] = sentStat[i].min /\ G[i] = Mins(Row(endpToEndp, i, n), n)
      BY <1>4
    <2> QED BY <1>1, <2>1, Zenon DEF Reports
  <1>8. ASSUME NEW d \in E PROVE Least(h[d], H[d], n)
    <2> DEFINE c == Column(endpToEndp, d, n)
    <2>1. c \in [E -> Stat]
      BY <1>3 DEF Column
    <2>2. h[d] = MergedOf(c, n).min
      BY <1>1, <1>4, Zenon DEF Reports
    <2>3. H[d] = [m \in E |-> c[m].min]
      BY DEF Mins
    <2> HIDE DEF n, c, h, H
    <2>4. Least(MergedOf(c, n).min, [m \in 0 .. n - 1 |-> c[m].min], n)
      BY <1>1, <2>1, MergedMin
    <2> QED BY <2>2, <2>3, <2>4, Zenon
  <1> HIDE DEF n, f, h, G, H, x, y
  <1>9. LeastRows(x, f, G, n) /\ LeastRows(y, h, H, n)
    BY <1>4, <1>5, <1>6, <1>7, <1>8, Zenon DEF LeastRows
  <1>10. \A i, j \in E : G[i][j] = H[j][i]
    BY <1>5, Zenon
  <1>11. x = y
    BY <1>1, <1>9, <1>10, SameLeast
  <1> QED BY <1>11, Zenon DEF x, y, n

\* The flits received in all, by receiver and by pair.
LEMMA ReportFlits ==
    ASSUME NEW s, Traffic(s)!TrafficAssumption, Kinds(s), Reports(s),
           NEW A \in [Pairs(s) -> Int], \A i, d \in Ends(s) : A[<<i, d>>] = endpToEndp[<<i, d>>].flit
    PROVE  MergedOf(rsvdStat, s.ne).flit = RowSums(A, s.ne)
  <1> DEFINE n == s.ne
             E == 0 .. n - 1
  <1>1. n \in Nat /\ Ends(s) = E /\ Pairs(s) = Square(n)
    BY SettingValues DEF Ends, Pairs
  <1>2. rsvdStat \in [E -> Stat]
    BY <1>1 DEF Kinds
  <1>3. \A i, d \in E : endpToEndp[<<i, d>>] \in Stat
    BY <1>1 DEF Kinds, Square
  <1>4. ASSUME NEW d \in E PROVE rsvdStat[d].flit = ColumnSum(A, d, n)
    <2> DEFINE c == Column(endpToEndp, d, n)
    <2>1. c \in [E -> Stat]
      BY <1>3 DEF Column
    <2>2. rsvdStat[d].flit = MergedOf(c, n).flit
      BY <1>1, Zenon DEF Reports
    <2>3. \A m \in E : c[m].flit = A[<<m, d>>]
      BY <1>1 DEF Column
    <2>4. MergedOf(c, n).flit = SumOf([m \in E |-> c[m].flit], n)
      <3> HIDE DEF n, c
      <3> QED BY <1>1, <2>1, MergedCounts
    <2>5. [m \in E |-> c[m].flit] = [m \in E |-> A[<<m, d>>]]
      <3> HIDE DEF c
      <3> QED BY <2>3
    <2> QED BY <2>2, <2>4, <2>5, Zenon DEF ColumnSum
  <1>5. MergedOf(rsvdStat, n).flit = SumOf([d \in E |-> rsvdStat[d].flit], n)
    <2> HIDE DEF n
    <2> QED BY <1>1, <1>2, MergedCounts
  <1>6. [d \in E |-> rsvdStat[d].flit] = [d \in E |-> ColumnSum(A, d, n)]
    BY <1>4
  <1>7. ColumnSums(A, n) = RowSums(A, n)
    <2>1. A \in [(0 .. n - 1) \X (0 .. n - 1) -> Int]
      BY <1>1 DEF Square
    <2> HIDE DEF n
    <2> QED BY <1>1, <2>1, RowsAreColumns
  <1> QED BY <1>5, <1>6, <1>7, Zenon DEF ColumnSums

\* What a sender has sent, by receiver.
LEMMA ReportSent ==
    ASSUME NEW s, Traffic(s)!TrafficAssumption, Kinds(s), NEW i \in Ends(s),
           NEW B, NEW C, \A d \in Ends(s) : /\ B[<<i, d>>] = endpToEndp[<<i, d>>].flit
                                            /\ C[<<i, d>>] = endpToEndp[<<i, d>>].pck
    PROVE  /\ MergedOf(Row(endpToEndp, i, s.ne), s.ne).flit = RowSum(B, i, s.ne)
           /\ MergedOf(Row(endpToEndp, i, s.ne), s.ne).pck = RowSum(C, i, s.ne)
  <1> DEFINE n == s.ne
             E == 0 .. n - 1
             c == Row(endpToEndp, i, n)
  <1>1. n \in Nat /\ Ends(s) = E /\ Pairs(s) = Square(n)
    BY SettingValues DEF Ends, Pairs
  <1>2. c \in [E -> Stat]
    BY <1>1 DEF Kinds, Square, Row
  <1>3. \A m \in E : c[m].flit = B[<<i, m>>] /\ c[m].pck = C[<<i, m>>]
    BY <1>1 DEF Row
  <1>4. /\ MergedOf(c, n).flit = SumOf([m \in E |-> c[m].flit], n)
        /\ MergedOf(c, n).pck = SumOf([m \in E |-> c[m].pck], n)
    <2> HIDE DEF n, c
    <2> QED BY <1>1, <1>2, MergedCounts
  <1>5. /\ [m \in E |-> c[m].flit] = [m \in E |-> B[<<i, m>>]]
        /\ [m \in E |-> c[m].pck] = [m \in E |-> C[<<i, m>>]]
    <2> HIDE DEF c
    <2> QED BY <1>3
  <1> QED BY <1>4, <1>5, Zenon DEF RowSum

\* The books are those of the pairs.
Closed(s, A, B, C) ==
    /\ Books(s, A, B, C) /\ A \in [Pairs(s) -> Int]
    /\ \A i, d \in Ends(s) : /\ A[<<i, d>>] = endpToEndp[<<i, d>>].flit
                             /\ B[<<i, d>>] = endpToEndp[<<i, d>>].flit
                             /\ C[<<i, d>>] = endpToEndp[<<i, d>>].pck

\* When the simulation is done, the books hold nothing but the statistics.
LEMMA BooksClosed ==
    ASSUME NEW s, Traffic(s)!TrafficAssumption, TrafficInv(s), simulationDone
    PROVE  /\ \A i, d \in Ends(s) : net[<<i, d>>] = <<>>
           /\ \E A, B, C : Closed(s, A, B, C)
  <1>1. /\ Kinds(s) /\ (\E A, B, C : Books(s, A, B, C)) /\ Verdict(s) /\ NothingComes(s)
    BY Zenon DEF TrafficInv
  <1>2. PICK A, B, C : Books(s, A, B, C)
    BY <1>1, Zenon
  <1>3. /\ total.rsvFlit = RowSums(A, s.ne) /\ total.expect = RowSums(B, s.ne)
        /\ A \in [Pairs(s) -> Int]
    BY <1>2, Zenon DEF Books
  <1>4. \A i, d \in Ends(s) : net[<<i, d>>] = <<>>
    <2>1. PICK N : N = net
      OBVIOUS
    <2>2. Held(s, N, A, B)
      <3>1. net \in [Pairs(s) -> Seq(FlitKind)]
        BY <1>1, Zenon DEF Kinds
      <3>2. Held(s, net, A, B)
        BY <1>2, <3>1, BooksHold
      <3> QED BY <2>1, <3>2, Zenon
    <2>3. RowSums(B, s.ne) = RowSums(A, s.ne)
      BY <1>1, <1>3, Zenon DEF Verdict
    <2>4. s.ne \in Nat
      BY SettingValues
    <2>5. \A i, d \in Ends(s) : N[<<i, d>>] = <<>>
      BY <2>2, <2>3, <2>4, HeldCounts
    <2> QED BY <2>1, <2>5, Zenon
  <1>5. ASSUME NEW i \in Ends(s), NEW d \in Ends(s)
        PROVE  /\ A[<<i, d>>] = endpToEndp[<<i, d>>].flit
               /\ B[<<i, d>>] = endpToEndp[<<i, d>>].flit
               /\ C[<<i, d>>] = endpToEndp[<<i, d>>].pck
    <2> DEFINE E == endpToEndp[<<i, d>>]
    <2>1. PairBook(i, d, A[<<i, d>>], B[<<i, d>>], C[<<i, d>>])
      BY <1>2, Zenon DEF Books
    <2>2. PICK g \in Nat : \E p \in Int :
             /\ Run(net[<<i, d>>], g, p, Coming(i, d))
             /\ A[<<i, d>>] = E.flit + g
             /\ B[<<i, d>>] = A[<<i, d>>] + Len(net[<<i, d>>])
             /\ C[<<i, d>>] = E.pck + p
      BY <2>1, Zenon DEF PairBook
    <2>3. PICK p \in Int :
             /\ Run(net[<<i, d>>], g, p, Coming(i, d))
             /\ A[<<i, d>>] = E.flit + g
             /\ B[<<i, d>>] = A[<<i, d>>] + Len(net[<<i, d>>])
             /\ C[<<i, d>>] = E.pck + p
      BY <2>2, Zenon
    <2>4. Coming(i, d) = 0
      BY <1>1 DEF NothingComes, Coming
    <2>5. Run(<<>>, g, p, 0)
      BY <1>4, <2>3, <2>4, Zenon
    <2>6. g = 0 /\ p = 0
      <3>1. g = 0 /\ p = One(0 > 0)
        BY <2>5, RunEmpty
      <3>2. One(0 > 0) = 0
        BY DEF One
      <3> QED BY <3>1, <3>2, Zenon
    <2>7. E.flit \in Nat /\ E.pck \in Nat
      <3>1. E \in Stat
        BY <1>1 DEF Kinds, Pairs, Square, Ends
      <3> QED BY <3>1, StatRecord
    <2>8. Len(net[<<i, d>>]) = 0
      <3>1. net[<<i, d>>] = <<>> /\ Len(<<>>) = 0
        BY <1>4
      <3> QED BY <3>1, Zenon
    <2>9. A[<<i, d>>] = E.flit + 0 /\ B[<<i, d>>] = A[<<i, d>>] + 0 /\ C[<<i, d>>] = E.pck + 0
      BY <2>3, <2>6, <2>8, Zenon
    <2> HIDE DEF E
    <2>10. A[<<i, d>>] = E.flit /\ B[<<i, d>>] = E.flit /\ C[<<i, d>>] = E.pck
      <3>1. \A m \in Nat : m + 0 = m
        OBVIOUS
      <3> QED BY <2>7, <2>9, <3>1, Zenon
    <2> QED BY <2>10, Zenon DEF E
  <1>6. Closed(s, A, B, C)
    BY <1>2, <1>3, <1>5, Zenon DEF Closed
  <1> QED BY <1>4, <1>6, Zenon

\* The invariant makes the report complete.
LEMMA TrafficReport ==
    ASSUME NEW s, Traffic(s)!TrafficAssumption, TrafficInv(s)
    PROVE  Traffic(s)!ReportComplete
  <1> DEFINE n == s.ne
  <1>1. Kinds(s) /\ Totals(s) /\ Reports(s) /\ Verdict(s) /\ NothingComes(s)
    BY Zenon DEF TrafficInv
  <1>2. /\ n \in Nat /\ Ends(s) = 0 .. n - 1 /\ Pairs(s) = Square(n)
        /\ Traffic(s)!Endp = Ends(s) /\ Ends(s) \X Ends(s) = Pairs(s)
    BY SettingValues DEF Ends, Pairs
  <1>3. /\ \A d : Traffic(s)!FromAll(d) = Column(endpToEndp, d, n)
        /\ \A i : Traffic(s)!ToAll(i) = Row(endpToEndp, i, n)
    BY <1>2 DEF Traffic!FromAll, Traffic!ToAll, Column, Row
  <1>4. \A f : Traffic(s)!Merged(f) = MergedOf(f, n)
    BY LoopsAre
  <1>5. \A d \in Ends(s) : rsvdStat[d] = Traffic(s)!Merged(Traffic(s)!FromAll(d))
    BY <1>1, <1>3, <1>4, Zenon DEF Reports
  <1>6. \A e \in Pairs(s) : endpToEndp[e].pck > 0 => endpToEndp[e].min \in s.latency
    <2> SUFFICES ASSUME NEW e \in Pairs(s), endpToEndp[e].pck > 0 PROVE endpToEndp[e].min \in s.latency
      OBVIOUS
    <2>1. endpToEndp[e].pck # 0
      <3>1. endpToEndp[e] \in Stat
        BY <1>1 DEF Kinds
      <3> QED BY <3>1, StatRecord
    <2> QED BY <1>1, <2>1, Zenon DEF Reports
  <1>7. failed => total.expect # total.rsvFlit
    BY <1>1, Zenon DEF Verdict
  <1>8. ASSUME simulationDone
        PROVE  /\ \A e \in Pairs(s) : net[e] = <<>>
               /\ \A i \in Ends(s) : sent[i] = 0
               /\ s.multicast \/ \A i \in Ends(s) :
                     /\ sentStat[i].pck = MergedOf(Row(endpToEndp, i, n), n).pck
                     /\ sentStat[i].flit = MergedOf(Row(endpToEndp, i, n), n).flit
               /\ MergedOf(rsvdStat, n).flit = total.expect
               /\ MergedOf(rsvdStat, n).pck = total.rsvPck
               /\ MergedOf(sentStat, n).flit = total.sentFlit
               /\ MergedOf(sentStat, n).min = MergedOf(rsvdStat, n).min
    <2>1. /\ \A i, d \in Ends(s) : net[<<i, d>>] = <<>>
          /\ \E A, B, C : Closed(s, A, B, C)
      BY <1>8, BooksClosed
    <2>2. PICK A, B, C : /\ Books(s, A, B, C) /\ A \in [Pairs(s) -> Int]
                         /\ \A i, d \in Ends(s) : /\ A[<<i, d>>] = endpToEndp[<<i, d>>].flit
                                                  /\ B[<<i, d>>] = endpToEndp[<<i, d>>].flit
                                                  /\ C[<<i, d>>] = endpToEndp[<<i, d>>].pck
      BY <2>1, Zenon DEF Closed
    <2>3. \A e \in Pairs(s) : net[e] = <<>>
      <3> SUFFICES ASSUME NEW e \in Pairs(s) PROVE net[e] = <<>>
        OBVIOUS
      <3>1. PICK i \in Ends(s), d \in Ends(s) : e = <<i, d>>
        BY <1>2 DEF Square
      <3> QED BY <2>1, <3>1
    <2>4. \A i \in Ends(s) : sent[i] = 0
      BY <1>1, <1>8, Zenon DEF NothingComes
    <2>5. ASSUME ~s.multicast, NEW i \in Ends(s)
          PROVE  /\ sentStat[i].pck = MergedOf(Row(endpToEndp, i, n), n).pck
                 /\ sentStat[i].flit = MergedOf(Row(endpToEndp, i, n), n).flit
      <3>1. sentStat[i].flit = RowSum(B, i, n) /\ sentStat[i].pck = RowSum(C, i, n)
        BY <2>2, <2>5, Zenon DEF Books
      <3>2. /\ MergedOf(Row(endpToEndp, i, n), n).flit = RowSum(B, i, n)
            /\ MergedOf(Row(endpToEndp, i, n), n).pck = RowSum(C, i, n)
        BY <1>1, <2>2, ReportSent
      <3> QED BY <3>1, <3>2, Zenon
    <2>6. MergedOf(rsvdStat, n).flit = total.expect
      <3>1. MergedOf(rsvdStat, n).flit = RowSums(A, n)
        BY <1>1, <2>2, ReportFlits
      <3>2. total.rsvFlit = RowSums(A, n)
        BY <2>2, Zenon DEF Books
      <3>3. total.expect = total.rsvFlit
        BY <1>1, <1>8, Zenon DEF Verdict
      <3> QED BY <3>1, <3>2, <3>3, Zenon
    <2>7. MergedOf(rsvdStat, n).pck = total.rsvPck /\ MergedOf(sentStat, n).flit = total.sentFlit
      <3>1. sentStat \in [0 .. n - 1 -> Stat] /\ rsvdStat \in [0 .. n - 1 -> Stat]
        BY <1>1, <1>2 DEF Kinds
      <3>2. /\ MergedOf(rsvdStat, n).pck = SumOf([m \in 0 .. n - 1 |-> rsvdStat[m].pck], n)
            /\ MergedOf(sentStat, n).flit = SumOf([m \in 0 .. n - 1 |-> sentStat[m].flit], n)
        <4> HIDE DEF n
        <4> QED BY <1>2, <3>1, MergedCounts
      <3> QED BY <1>1, <1>2, <3>2, Zenon DEF Totals
    <2>8. MergedOf(sentStat, n).min = MergedOf(rsvdStat, n).min
      BY <1>1, ReportMin
    <2> QED BY <2>3, <2>4, <2>5, <2>6, <2>7, <2>8, Zenon
  <1> DEFINE P == Traffic(s)!Endp
  <1>9. \A d \in P : rsvdStat[d] = Traffic(s)!Merged(Traffic(s)!FromAll(d))
    BY <1>2, <1>5, Zenon
  <1>10. \A e \in P \X P : endpToEndp[e].pck > 0 => endpToEndp[e].min \in s.latency
    BY <1>2, <1>6, Zenon
  <1>11. ASSUME simulationDone
         PROVE  /\ \A e \in P \X P : net[e] = <<>>
                /\ \A i \in P : sent[i] = 0
                /\ s.multicast \/ \A i \in P :
                     /\ sentStat[i].pck = Traffic(s)!Merged(Traffic(s)!ToAll(i)).pck
                     /\ sentStat[i].flit = Traffic(s)!Merged(Traffic(s)!ToAll(i)).flit
                /\ Traffic(s)!Merged(rsvdStat).flit = total.expect
                /\ Traffic(s)!Merged(rsvdStat).pck = total.rsvPck
                /\ Traffic(s)!Merged(sentStat).flit = total.sentFlit
                /\ Traffic(s)!Merged(sentStat).min = Traffic(s)!Merged(rsvdStat).min
    <2>1. /\ \A e \in P \X P : net[e] = <<>>
          /\ \A i \in P : sent[i] = 0
      BY <1>2, <1>8, <1>11, Zenon
    <2>2. s.multicast \/ \A i \in P :
             /\ sentStat[i].pck = Traffic(s)!Merged(Traffic(s)!ToAll(i)).pck
             /\ sentStat[i].flit = Traffic(s)!Merged(Traffic(s)!ToAll(i)).flit
      <3> SUFFICES ASSUME ~s.multicast, NEW i \in P
                   PROVE  /\ sentStat[i].pck = Traffic(s)!Merged(Traffic(s)!ToAll(i)).pck
                          /\ sentStat[i].flit = Traffic(s)!Merged(Traffic(s)!ToAll(i)).flit
        OBVIOUS
      <3>1. Traffic(s)!Merged(Traffic(s)!ToAll(i)) = MergedOf(Row(endpToEndp, i, n), n)
        BY <1>3, <1>4, Zenon
      <3>2. i \in Ends(s)
        BY <1>2
      <3> QED BY <1>8, <1>11, <3>1, <3>2, Zenon
    <2>3. /\ Traffic(s)!Merged(rsvdStat) = MergedOf(rsvdStat, n)
          /\ Traffic(s)!Merged(sentStat) = MergedOf(sentStat, n)
      BY <1>4, Zenon
    <2> QED BY <1>8, <1>11, <2>1, <2>2, <2>3, Zenon
  <1> QED BY <1>7, <1>9, <1>10, <1>11, Zenon DEF Traffic!ReportComplete

\* Nothing changes while another part of the simulator runs.
LEMMA TrafficRestsInv ==
    ASSUME NEW s, TrafficInv(s), UNCHANGED trafficVars
    PROVE  TrafficInv(s)'
  <1>1. /\ clk' = clk /\ simulationDone' = simulationDone /\ failed' = failed /\ idle' = idle
        /\ total' = total /\ sentStat' = sentStat /\ rsvdStat' = rsvdStat
        /\ endpToEndp' = endpToEndp /\ nextPck' = nextPck /\ queue' = queue /\ sent' = sent
        /\ net' = net
    BY DEF trafficVars
  <1>2. \A i : Traffic(s)!Packets(i)' = Traffic(s)!Packets(i)
    BY DEF Traffic!Packets, Traffic!Endp
  <1>3. Kinds(s)'
    BY <1>1, <1>2, Zenon DEF TrafficInv, Kinds
  <1>4. (\E A, B, C : Books(s, A, B, C))'
    <2>1. PICK A, B, C : Books(s, A, B, C)
      BY Zenon DEF TrafficInv
    <2>2. ASSUME NEW i \in Ends(s), NEW d \in Ends(s)
          PROVE  PairBook(i, d, A[<<i, d>>], B[<<i, d>>], C[<<i, d>>])'
      <3>1. PairBook(i, d, A[<<i, d>>], B[<<i, d>>], C[<<i, d>>])
        BY <2>1, Zenon DEF Books
      <3>2. Coming(i, d)' = Coming(i, d)
        BY <1>1, Zenon DEF Coming
      <3> QED BY <1>1, <3>1, <3>2, Zenon DEF PairBook
    <2>3. Books(s, A, B, C)'
      BY <1>1, <2>1, <2>2, Zenon DEF Books
    <2> QED BY <2>3, Zenon
  <1>5. Totals(s)'
    BY <1>1, Zenon DEF TrafficInv, Totals
  <1>6. Reports(s)'
    BY <1>1, Zenon DEF TrafficInv, Reports
  <1>7. Verdict(s)'
    BY <1>1, Zenon DEF TrafficInv, Verdict, Ended
  <1>8. NothingComes(s)'
    BY <1>1, Zenon DEF TrafficInv, NothingComes
  <1> QED BY <1>3, <1>4, <1>5, <1>6, <1>7, <1>8, Zenon DEF TrafficInv

\* The invariant of the part that is played; the traffic of the other parts rests.
TInv == IF part = "multicast" THEN TrafficInv(Multicast) ELSE TrafficInv(Unicast)

\* A step of the traffic keeps the invariant.
LEMMA TrafficNext ==
    ASSUME NEW s, Traffic(s)!TrafficAssumption, TrafficInv(s), Traffic(s)!Next
    PROVE  TrafficInv(s)'
  <1>1. PICK S \in SUBSET Traffic(s)!CanSend, from \in Traffic(s)!Arrivals,
             G \in SUBSET Traffic(s)!Endp, lat \in s.latency :
          \E new \in Traffic(s)!NewPackets(S), off \in SUBSET S :
              Traffic(s)!Cycle(S, from, G, new, off, lat)
    BY Zenon DEF Traffic!Next
  <1>2. PICK new \in Traffic(s)!NewPackets(S), off \in SUBSET S :
          Traffic(s)!Cycle(S, from, G, new, off, lat)
    BY <1>1, Zenon
  <1>3. CycleOf(s, S, from, G, new, off, lat)
    BY <1>1, <1>2, Zenon DEF CycleOf
  <1> QED BY <1>3, TrafficStep, Zenon

\* It holds at the start.
LEMMA InitTraffic == MCInit => TInv
  <1> SUFFICES ASSUME MCInit PROVE TInv
    OBVIOUS
  <1>1. CASE part = "multicast"
    BY <1>1, TrafficStart, TrafficSettings, Zenon DEF MCInit, TInv
  <1>2. CASE part # "multicast"
    BY <1>2, TrafficStart, TrafficSettings, Zenon DEF MCInit, TInv
  <1> QED BY <1>1, <1>2

\* Every step keeps it.
LEMMA StepTraffic == TInv /\ [MCNext]_allVars => TInv'
  <1> SUFFICES ASSUME TInv, [MCNext]_allVars PROVE TInv'
    OBVIOUS
  <1>1. part' = part
    BY DEF MCNext, allVars
  <1>2. CASE UNCHANGED trafficVars
    BY <1>1, <1>2, TrafficRestsInv, Zenon DEF TInv
  <1>3. CASE part = "unicast" /\ Traffic(Unicast)!Next
    <2>1. part # "multicast"
      BY <1>3
    <2> QED BY <1>1, <1>3, <2>1, TrafficNext, TrafficSettings, Zenon DEF TInv
  <1>4. CASE part = "multicast" /\ Traffic(Multicast)!Next
    BY <1>1, <1>4, TrafficNext, TrafficSettings, Zenon DEF TInv
  <1>5. CASE UNCHANGED allVars
    <2>1. UNCHANGED trafficVars
      BY <1>5, Zenon DEF allVars
    <2> QED BY <1>2, <2>1
  <1> QED BY <1>2, <1>3, <1>4, <1>5, Zenon DEF MCNext

\* At the end of a simulation that is declared done the report is complete: the
\* statistics of senders, receivers and pairs agree with each other and with the
\* totals, and nothing is in the network or half sent; the error is reported
\* only when the numbers of flits differ.  For any number of end points, any
\* packet sizes and latencies, with unicast and with multicast.
THEOREM ReportsComplete == MCSpec => []ReportComplete
  <1>1. TInv => ReportComplete
    BY TrafficReport, TrafficSettings, Zenon DEF TInv, ReportComplete
  <1> QED BY <1>1, InitTraffic, StepTraffic, PTL DEF MCSpec
=============================================================================
