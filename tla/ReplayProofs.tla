---------------------------- MODULE ReplayProofs ----------------------------
(***************************************************************************)
(* What the two players of SynFull traffic are proved to do, for every     *)
(* model file, network, mapping and schedule.  The proofs have three       *)
(* parts: the generator's model, whose transactions are accounted for      *)
(* (ModelInv); the library inside the simulator, which knows and holds     *)
(* once each packet (LibInv); and the stand-alone generator with its       *)
(* server, whose packet objects are kept apart (SocInv).                   *)
(***************************************************************************)
EXTENDS MCReplay, Selection, FiniteSetTheorems, TLAPS

-----------------------------------------------------------------------------
(* Picking the elements at some places, in the order of the places.        *)

\* How many elements of I come before i.
Rank(I, i) == Cardinality({j \in I : j < i})

\* The ranks of a finite set of integers are the numbers below its size.
LEMMA RankBijects ==
    ASSUME NEW I, IsFiniteSet(I), I \subseteq Int
    PROVE  /\ \A i \in I : Rank(I, i) \in 0 .. Cardinality(I) - 1
           /\ \A i, j \in I : i < j => Rank(I, i) < Rank(I, j)
           /\ \A k \in 0 .. Cardinality(I) - 1 : \E i \in I : Rank(I, i) = k
  <1>0. Cardinality(I) \in Nat
    BY FS_CardinalityType
  <1>1. ASSUME NEW i \in I
        PROVE  Rank(I, i) \in 0 .. Cardinality(I) - 1
    <2>1. {j \in I : j < i} \in SUBSET I /\ {j \in I : j < i} # I
      OBVIOUS
    <2>2. /\ Rank(I, i) \in Nat /\ Rank(I, i) <= Cardinality(I)
          /\ Rank(I, i) # Cardinality(I)
      BY <2>1, FS_Subset, FS_CardinalityType DEF Rank
    <2>3. QED
      BY <1>0, <2>2
  <1>2. ASSUME NEW i \in I, NEW j \in I, i < j
        PROVE  Rank(I, i) < Rank(I, j)
    <2> DEFINE L == {k \in I : k < i}
               M == {k \in I : k < j}
    <2>1. L \in SUBSET M /\ i \in M /\ i \notin L /\ M \in SUBSET I
      <3>1. i \in Int /\ j \in Int /\ \A k \in I : k \in Int
        OBVIOUS
      <3>2. \A k \in I : k < i => k < j
        BY <1>2, <3>1
      <3>3. L \subseteq M /\ M \subseteq I
        BY <3>2
      <3>4. i \in M /\ i \notin L
        BY <1>2, <3>1
      <3>5. QED
        BY <3>3, <3>4
    <2>2. IsFiniteSet(M)
      BY <2>1, FS_Subset
    <2>3. Cardinality(L) <= Cardinality(M) /\ Cardinality(L) # Cardinality(M) /\ IsFiniteSet(L)
      BY <2>1, <2>2, FS_Subset
    <2>4. Cardinality(L) \in Nat /\ Cardinality(M) \in Nat
      BY <2>2, <2>3, FS_CardinalityType
    <2>5. QED
      BY <2>3, <2>4 DEF Rank
  <1>3. ASSUME NEW k \in 0 .. Cardinality(I) - 1
        PROVE  \E i \in I : Rank(I, i) = k
    <2> DEFINE T == 0 .. Cardinality(I) - 1
               f == [i \in I |-> Rank(I, i)]
    <2>1. IsFiniteSet(T) /\ Cardinality(T) = Cardinality(I)
      BY <1>0, FS_Interval
    <2>2. f \in Injection(I, T)
      <3>1. f \in [I -> T]
        BY <1>1
      <3>2. ASSUME NEW i \in I, NEW j \in I, f[i] = f[j]
            PROVE  i = j
        <4>1. i < j \/ j < i \/ i = j
          OBVIOUS
        <4>2. Rank(I, i) = Rank(I, j) /\ Rank(I, i) \in Int
          BY <1>1, <3>2
        <4>3. QED
          BY <1>2, <4>1, <4>2
      <3>3. QED
        BY <3>1, <3>2 DEF Injection, IsInjective
    <2>3. f \in Surjection(I, T)
      BY <2>1, <2>2, FS_Injection
    <2>4. QED
      BY <2>3 DEF Surjection
  <1>4. QED
    BY <1>1, <1>2, <1>3

\* The sorted sequence of a finite set goes through it once, upwards.
LEMMA InOrderSorts ==
    ASSUME NEW I, IsFiniteSet(I), I \subseteq Int
    PROVE  /\ InOrder(I) \in [1 .. Cardinality(I) -> I] /\ Cardinality(I) \in Nat
           /\ \A k \in 1 .. Cardinality(I) : Rank(I, InOrder(I)[k]) = k - 1
           /\ \A i \in I : /\ Rank(I, i) + 1 \in 1 .. Cardinality(I)
                           /\ InOrder(I)[Rank(I, i) + 1] = i
  <1>0. Cardinality(I) \in Nat
    BY FS_CardinalityType
  <1>1. ASSUME NEW k \in 1 .. Cardinality(I)
        PROVE  InOrder(I)[k] \in I /\ Rank(I, InOrder(I)[k]) = k - 1
    <2>1. k - 1 \in 0 .. Cardinality(I) - 1
      BY <1>0
    <2>2. \E i \in I : Rank(I, i) = k - 1
      BY <2>1, RankBijects
    <2>3. InOrder(I)[k] = CHOOSE i \in I : Rank(I, i) = k - 1
      BY DEF InOrder, Rank
    <2>4. QED
      BY <2>2, <2>3
  <1>2. InOrder(I) \in [1 .. Cardinality(I) -> I]
    BY <1>1 DEF InOrder
  <1>3. ASSUME NEW i \in I
        PROVE  Rank(I, i) + 1 \in 1 .. Cardinality(I) /\ InOrder(I)[Rank(I, i) + 1] = i
    <2>1. Rank(I, i) \in 0 .. Cardinality(I) - 1
      BY RankBijects
    <2>2. Rank(I, i) + 1 \in 1 .. Cardinality(I)
      BY <1>0, <2>1
    <2> DEFINE j == InOrder(I)[Rank(I, i) + 1]
    <2>3. j \in I /\ Rank(I, j) = Rank(I, i)
      BY <1>1, <2>1, <2>2
    <2> HIDE DEF j
    <2>4. i < j \/ j < i \/ i = j
      <3>1. i \in Int /\ j \in Int
        BY <2>3
      <3>2. QED
        BY <3>1
    <2>5. i = j
      <3>1. \A x, y \in I : x < y => Rank(I, x) < Rank(I, y)
        BY RankBijects
      <3>2. ~(i < j) /\ ~(j < i)
        BY <2>1, <2>3, <3>1
      <3>3. QED
        BY <2>4, <3>2
    <2>6. QED
      BY <2>2, <2>5 DEF j
  <1>4. QED
    BY <1>0, <1>1, <1>2, <1>3

\* What the elements at some places of a sequence are.
LEMMA ElementsAtPlaces ==
    ASSUME NEW S, NEW s \in Seq(S), NEW I \in SUBSET DOMAIN s
    PROVE  /\ IsFiniteSet(I) /\ Cardinality(I) \in Nat
           /\ ElementsAt(s, I) \in Seq(S) /\ Len(ElementsAt(s, I)) = Cardinality(I)
           /\ \A k \in 1 .. Cardinality(I) :
                InOrder(I)[k] \in I /\ ElementsAt(s, I)[k] = s[InOrder(I)[k]]
           /\ \A i \in I : /\ Rank(I, i) + 1 \in 1 .. Cardinality(I)
                           /\ ElementsAt(s, I)[Rank(I, i) + 1] = s[i]
  <1>1. IsFiniteSet(DOMAIN s) /\ DOMAIN s \subseteq Int
    BY FS_Interval
  <1>2. IsFiniteSet(I) /\ I \subseteq Int
    BY <1>1, FS_Subset
  <1>3. ElementsAt(s, I) = [k \in 1 .. Cardinality(I) |-> s[InOrder(I)[k]]]
    BY DEF ElementsAt, InOrder
  <1>4. /\ InOrder(I) \in [1 .. Cardinality(I) -> I] /\ Cardinality(I) \in Nat
        /\ \A i \in I : /\ Rank(I, i) + 1 \in 1 .. Cardinality(I)
                        /\ InOrder(I)[Rank(I, i) + 1] = i
    BY <1>2, InOrderSorts
  <1>5. \A k \in 1 .. Cardinality(I) : s[InOrder(I)[k]] \in S
    BY <1>4
  <1>6. ElementsAt(s, I) \in Seq(S) /\ Len(ElementsAt(s, I)) = Cardinality(I)
    BY <1>3, <1>4, <1>5
  <1>7. QED
    BY <1>2, <1>3, <1>4, <1>6

-----------------------------------------------------------------------------
(* The messages under way.                                                 *)

Gen(Nodes, Volumes, Limited) == INSTANCE SynfullModel WITH NumCycles <- 0, SsExit <- FALSE

Slots == 0 .. Horizon + MemDelay + Resolution
WaitingIn(q) == UNION {{t} \X DOMAIN q[t] : t \in Slots}
WaitsIn(q, a, C) == {w \in WaitingIn(q) : q[w[1]][w[2]].address = a /\ q[w[1]][w[2]].co \in C}
Waits(a, C) == WaitsIn(queue, a, C)
Travels(a, C) == {n \in DOMAIN inTransit : inTransit[n].address = a /\ inTransit[n].co \in C}
Under(a, C) == Cardinality(Waits(a, C)) + Cardinality(Travels(a, C))

\* A place in the queue is a slot and a position in it.
LEMMA WaitingPlaces ==
    ASSUME NEW q
    PROVE  /\ \A t, i : <<t, i>> \in WaitingIn(q) <=> t \in Slots /\ i \in DOMAIN q[t]
           /\ \A w \in WaitingIn(q) :
                w = <<w[1], w[2]>> /\ w[1] \in Slots /\ w[2] \in DOMAIN q[w[1]]
  BY DEF WaitingIn

\* What a packet that waits with an address and a kind is.
LEMMA WaitsAre ==
    ASSUME NEW q, NEW a, NEW C
    PROVE  /\ \A t, i : <<t, i>> \in WaitsIn(q, a, C) <=>
                /\ t \in Slots /\ i \in DOMAIN q[t]
                /\ q[t][i].address = a /\ q[t][i].co \in C
           /\ \A w \in WaitsIn(q, a, C) :
                /\ w = <<w[1], w[2]>> /\ w[1] \in Slots /\ w[2] \in DOMAIN q[w[1]]
                /\ q[w[1]][w[2]].address = a /\ q[w[1]][w[2]].co \in C
  BY WaitingPlaces DEF WaitsIn

\* A queue is finite.
LEMMA QueueFinite ==
    ASSUME PlayersAssumption, NEW S, NEW q \in [Slots -> Seq(S)], NEW a, NEW C
    PROVE  IsFiniteSet(WaitsIn(q, a, C)) /\ Cardinality(WaitsIn(q, a, C)) \in Nat
  <1> DEFINE spots(t) == {t} \X DOMAIN q[t]
             f == [t \in Slots |-> spots(t)]
             T == {spots(t) : t \in Slots}
  <1>1. IsFiniteSet(Slots)
    <2>1. Horizon + MemDelay + Resolution \in Int
      BY PlayersAssumption DEF PlayersAssumption, Lib!WrapperAssumption, Lib!ModelAssumption
    <2>2. QED
      BY <2>1, FS_Interval DEF Slots
  <1>2. IsFiniteSet(T)
    <2>1. f \in Surjection(Slots, T)
      BY DEF Surjection
    <2>2. QED
      BY <1>1, <2>1, FS_Surjection
  <1>3. ASSUME NEW t \in Slots PROVE IsFiniteSet(spots(t))
    <2>1. q[t] \in Seq(S)
      OBVIOUS
    <2>2. DOMAIN q[t] = 1 .. Len(q[t]) /\ Len(q[t]) \in Nat
      BY <2>1
    <2>3. IsFiniteSet(DOMAIN q[t])
      BY <2>2, FS_Interval
    <2>4. QED
      BY <2>3, FS_Singleton, FS_Product
  <1>4. IsFiniteSet(WaitingIn(q))
    BY <1>2, <1>3, FS_UNION DEF WaitingIn
  <1>5. WaitsIn(q, a, C) \in SUBSET WaitingIn(q)
    BY DEF WaitsIn
  <1>6. QED
    BY <1>4, <1>5, FS_Subset, FS_CardinalityType

\* What Enqueue does, in terms of the places of the packets in ps.
Due(ps, t) == {i \in DOMAIN ps : ps[i].time = t}

\* The packets among the first m of ps that are messages C of transaction a.
Marked(ps, m, a, C) == {i \in 1 .. m : ps[i].address = a /\ ps[i].co \in C}

\* The queue r holds the messages the queue holds now and those among ps.
Grows(r, ps, m, a, C) ==
  Cardinality(WaitsIn(r, a, C)) =
    Cardinality(WaitsIn(queue, a, C)) + Cardinality(Marked(ps, m, a, C))

\* The queue r holds what the queue holds now, and some of the first m of ps.
OnlyAdds(r, ps, m) ==
  \A t \in Slots : \A i \in DOMAIN r[t] :
    \/ i \in DOMAIN queue[t] /\ r[t][i] = queue[t][i]
    \/ \E j \in 1 .. m : r[t][i] = ps[j]

\* The operators of the instance on sets are those of this module.
LEMMA GenIsHere ==
    ASSUME NEW CONSTANT K, NEW CONSTANT V, NEW CONSTANT L, NEW S
    PROVE  /\ Gen(K, V, L)!Cardinality(S) = Cardinality(S)
           /\ Gen(K, V, L)!InOrder(S) = InOrder(S)
  <1>1. Gen(K, V, L)!Cardinality(S) = Cardinality(S)
    BY DEF Gen!Cardinality, Cardinality
  <1>2. Gen(K, V, L)!InOrder(S) = InOrder(S)
    BY Zenon DEF Gen!InOrder, InOrder, Gen!Cardinality, Cardinality
  <1>3. QED
    BY <1>1, <1>2

\* Enqueue puts each packet at the end of the slot of its time.
LEMMA EnqueueIs ==
    ASSUME NEW CONSTANT K, NEW CONSTANT V, NEW CONSTANT L, NEW ps
    PROVE  Gen(K, V, L)!Enqueue(ps) = [t \in Slots |-> queue[t] \o ElementsAt(ps, Due(ps, t))]
  BY Zenon DEF Gen!Enqueue, Gen!Select, Gen!Times, Slots, Due, Gen!ElementsAt, ElementsAt,
     Gen!InOrder, InOrder, Gen!Cardinality, Cardinality

\* What Enqueue adds to the packets that wait: those of its argument, once each.
LEMMA EnqueueCounts ==
    ASSUME PlayersAssumption, NEW CONSTANT K, NEW CONSTANT V, NEW CONSTANT L,
           NEW S, queue \in [Slots -> Seq(S)],
           NEW ps \in Seq(S), \A i \in DOMAIN ps : ps[i].time \in Slots,
           queue' = Gen(K, V, L)!Enqueue(ps), NEW a, NEW C
    PROVE  /\ queue' \in [Slots -> Seq(S)]
           /\ IsFiniteSet(Marked(ps, Len(ps), a, C))
           /\ Cardinality(Marked(ps, Len(ps), a, C)) \in Nat
           /\ Grows(queue', ps, Len(ps), a, C)
           /\ OnlyAdds(queue', ps, Len(ps))
  <1> DEFINE D == {i \in DOMAIN ps : ps[i].address = a /\ ps[i].co \in C}
             N == Waits(a, C)' \ Waits(a, C)
             new(t) == ElementsAt(ps, Due(ps, t))
             spot(i) == <<ps[i].time, Len(queue[ps[i].time]) + (Rank(Due(ps, ps[i].time), i) + 1)>>
             f == [i \in D |-> spot(i)]
  <1>1. queue' = [t \in Slots |-> queue[t] \o new(t)]
    BY EnqueueIs
  <1>2. ASSUME NEW t \in Slots
        PROVE  /\ queue[t] \in Seq(S) /\ Len(queue[t]) \in Nat
               /\ DOMAIN queue[t] = 1 .. Len(queue[t])
               /\ new(t) \in Seq(S) /\ Len(new(t)) = Cardinality(Due(ps, t))
               /\ Len(new(t)) \in Nat
               /\ \A k \in 1 .. Len(new(t)) :
                    InOrder(Due(ps, t))[k] \in Due(ps, t) /\ new(t)[k] = ps[InOrder(Due(ps, t))[k]]
               /\ \A i \in Due(ps, t) : /\ Rank(Due(ps, t), i) + 1 \in 1 .. Len(new(t))
                                        /\ new(t)[Rank(Due(ps, t), i) + 1] = ps[i]
    <2>1. Due(ps, t) \in SUBSET DOMAIN ps
      BY DEF Due
    <2>2. queue[t] \in Seq(S)
      OBVIOUS
    <2>3. Len(queue[t]) \in Nat /\ DOMAIN queue[t] = 1 .. Len(queue[t])
      BY <2>2
    <2>4. QED
      BY <2>1, <2>2, <2>3, ElementsAtPlaces
  <1> HIDE DEF new
  <1>3. ASSUME NEW t \in Slots
        PROVE  /\ queue'[t] \in Seq(S)
               /\ DOMAIN queue'[t] = 1 .. Len(queue[t]) + Len(new(t))
               /\ \A i \in DOMAIN queue[t] : /\ i \in DOMAIN queue'[t]
                                              /\ queue'[t][i] = queue[t][i]
               /\ \A k \in 1 .. Len(new(t)) : /\ Len(queue[t]) + k \in DOMAIN queue'[t]
                                              /\ Len(queue[t]) + k \notin DOMAIN queue[t]
               /\ \A k \in 1 .. Len(new(t)) : queue'[t][Len(queue[t]) + k] = new(t)[k]
    <2>1. queue'[t] = queue[t] \o new(t)
      BY <1>1
    <2>2. QED
      BY <1>2, <2>1
  <1>4. queue' \in [Slots -> Seq(S)]
    BY <1>1, <1>3
  <1>5. \A t \in Slots : \A i \in DOMAIN queue'[t] :
          \/ i \in DOMAIN queue[t] /\ queue'[t][i] = queue[t][i]
          \/ \E j \in DOMAIN ps : queue'[t][i] = ps[j]
    <2> SUFFICES ASSUME NEW t \in Slots, NEW i \in DOMAIN queue'[t], i \notin DOMAIN queue[t]
                 PROVE  \E j \in DOMAIN ps : queue'[t][i] = ps[j]
      BY <1>2, <1>3
    <2>1. /\ i - Len(queue[t]) \in 1 .. Len(new(t))
          /\ i = Len(queue[t]) + (i - Len(queue[t]))
      BY <1>2, <1>3
    <2>2. queue'[t][i] = new(t)[i - Len(queue[t])]
      BY <1>3, <2>1
    <2>3. InOrder(Due(ps, t))[i - Len(queue[t])] \in DOMAIN ps
      BY <1>2, <2>1 DEF Due
    <2>4. QED
      BY <1>2, <2>1, <2>2, <2>3
  <1>6. Waits(a, C) \subseteq Waits(a, C)'
    <2> SUFFICES ASSUME NEW w \in Waits(a, C) PROVE w \in Waits(a, C)'
      OBVIOUS
    <2>1. /\ w = <<w[1], w[2]>> /\ w[1] \in Slots /\ w[2] \in DOMAIN queue[w[1]]
          /\ queue[w[1]][w[2]].address = a /\ queue[w[1]][w[2]].co \in C
      BY WaitsAre DEF Waits
    <2>2. w[2] \in DOMAIN queue'[w[1]] /\ queue'[w[1]][w[2]] = queue[w[1]][w[2]]
      BY <1>2, <1>3, <2>1
    <2>3. QED
      BY <2>1, <2>2, WaitsAre DEF Waits
  <1>7. f \in Bijection(D, N)
    <2>1. ASSUME NEW i \in D
          PROVE  spot(i) \in N
      <3> DEFINE t == ps[i].time
                 k == Rank(Due(ps, t), i) + 1
      <3>1. t \in Slots /\ i \in Due(ps, t)
        BY DEF Due
      <3>2. k \in 1 .. Len(new(t)) /\ new(t)[k] = ps[i]
        BY <1>2, <3>1
      <3> HIDE DEF k
      <3>3. /\ Len(queue[t]) + k \in DOMAIN queue'[t] \ DOMAIN queue[t]
            /\ queue'[t][Len(queue[t]) + k] = ps[i]
        <4>1. \A j \in 1 .. Len(new(t)) :
                /\ Len(queue[t]) + j \in DOMAIN queue'[t] \ DOMAIN queue[t]
                /\ queue'[t][Len(queue[t]) + j] = new(t)[j]
          BY <1>3, <3>1
        <4>2. QED
          BY <3>2, <4>1
      <3>4. <<t, Len(queue[t]) + k>> \in Waits(a, C)'
        BY <3>1, <3>3, WaitsAre DEF Waits
      <3>5. <<t, Len(queue[t]) + k>> \notin Waits(a, C)
        BY <3>3, WaitsAre DEF Waits
      <3>6. spot(i) = <<t, Len(queue[t]) + k>>
        BY DEF k
      <3>7. QED
        BY <3>4, <3>5, <3>6
    <2>2. ASSUME NEW i \in D, NEW j \in D, spot(i) = spot(j)
          PROVE  i = j
      <3> DEFINE t == ps[i].time
      <3>1. t \in Slots /\ i \in Due(ps, t) /\ j \in Due(ps, t) /\ ps[j].time = t
        BY <2>2 DEF Due
      <3>2. Len(queue[t]) + (Rank(Due(ps, t), i) + 1) = Len(queue[t]) + (Rank(Due(ps, t), j) + 1)
        BY <2>2, <3>1
      <3>3. /\ Rank(Due(ps, t), i) + 1 \in 1 .. Len(new(t))
            /\ Rank(Due(ps, t), j) + 1 \in 1 .. Len(new(t))
        BY <1>2, <3>1
      <3>4. IsFiniteSet(Due(ps, t)) /\ Due(ps, t) \subseteq Int
        BY FS_Interval, FS_Subset DEF Due
      <3>5. /\ Rank(Due(ps, t), i) \in Int /\ Rank(Due(ps, t), j) \in Int
        BY <3>1, <3>4, RankBijects
      <3>6. Rank(Due(ps, t), i) = Rank(Due(ps, t), j)
        BY <1>2, <3>1, <3>2, <3>5
      <3>7. \A x \in Due(ps, t) : InOrder(Due(ps, t))[Rank(Due(ps, t), x) + 1] = x
        BY <3>4, InOrderSorts
      <3>8. QED
        BY <3>1, <3>6, <3>7
    <2>3. ASSUME NEW w \in N
          PROVE  \E i \in D : spot(i) = w
      <3> DEFINE t == w[1]
                 k == w[2] - Len(queue[t])
      <3>1. w = <<t, w[2]>> /\ t \in Slots /\ w[2] \in DOMAIN queue'[t]
        BY WaitsAre DEF Waits
      <3>2. queue'[t][w[2]].address = a /\ queue'[t][w[2]].co \in C
        BY WaitsAre DEF Waits
      <3>3. w[2] \notin DOMAIN queue[t]
        <4> SUFFICES ASSUME w[2] \in DOMAIN queue[t] PROVE FALSE
          OBVIOUS
        <4>1. queue'[t][w[2]] = queue[t][w[2]]
          BY <1>2, <1>3, <3>1
        <4>2. QED
          BY <3>1, <3>2, <4>1, WaitsAre DEF Waits
      <3>4. k \in 1 .. Len(new(t)) /\ w[2] = Len(queue[t]) + k
        BY <1>2, <1>3, <3>1, <3>3
      <3> HIDE DEF k
      <3> DEFINE i == InOrder(Due(ps, t))[k]
      <3>5. i \in Due(ps, t) /\ queue'[t][w[2]] = ps[i]
        BY <1>2, <1>3, <3>1, <3>4
      <3>6. i \in D /\ ps[i].time = t
        BY <3>2, <3>5 DEF Due
      <3>7. Rank(Due(ps, t), i) = k - 1
        <4>1. IsFiniteSet(Due(ps, t)) /\ Due(ps, t) \subseteq Int
          BY FS_Interval, FS_Subset DEF Due
        <4>2. k \in 1 .. Cardinality(Due(ps, t))
          BY <1>2, <3>1, <3>4
        <4>3. QED
          BY <4>1, <4>2, InOrderSorts
      <3>8. spot(i) = <<t, Len(queue[t]) + ((k - 1) + 1)>>
        BY <3>6, <3>7
      <3>9. Len(queue[t]) + ((k - 1) + 1) = w[2]
        BY <1>2, <3>1, <3>4
      <3>10. QED
        BY <3>1, <3>6, <3>8, <3>9
    <2> HIDE DEF D, N, spot
    <2>4. QED
      BY <2>1, <2>2, <2>3 DEF Bijection, Injection, Surjection, IsInjective
  <1>8. IsFiniteSet(D) /\ Cardinality(D) \in Nat
    <2>1. DOMAIN ps = 1 .. Len(ps) /\ Len(ps) \in Nat
      OBVIOUS
    <2>2. D \in SUBSET DOMAIN ps
      OBVIOUS
    <2>3. IsFiniteSet(DOMAIN ps)
      BY <2>1, FS_Interval
    <2> HIDE DEF D
    <2>4. QED
      BY <2>2, <2>3, FS_Subset, FS_CardinalityType
  <1>9. Cardinality(Waits(a, C)') = Cardinality(Waits(a, C)) + Cardinality(D)
    <2>1. IsFiniteSet(N) /\ Cardinality(N) = Cardinality(D)
      BY <1>7, <1>8, FS_Bijection DEF ExistsBijection
    <2>2. IsFiniteSet(Waits(a, C)) /\ Cardinality(Waits(a, C)) \in Nat
      BY QueueFinite DEF Waits
    <2>3. Waits(a, C)' = Waits(a, C) \cup N /\ Waits(a, C) \cap N = {}
      BY <1>6
    <2> HIDE DEF N
    <2>4. Cardinality(Waits(a, C)') = Cardinality(Waits(a, C)) + Cardinality(N) - Cardinality({})
      BY <2>1, <2>2, <2>3, FS_Union
    <2>5. QED
      BY <1>8, <2>1, <2>2, <2>4, FS_EmptySet
  <1>10. D = Marked(ps, Len(ps), a, C) /\ DOMAIN ps = 1 .. Len(ps)
    BY DEF Marked
  <1> HIDE DEF D
  <1>11. OnlyAdds(queue', ps, Len(ps))
    BY <1>5, <1>10 DEF OnlyAdds
  <1>12. QED
    BY <1>4, <1>8, <1>9, <1>10, <1>11 DEF Waits, Grows

\* What sendPackets does, packet by packet.
Numbered(i) ==
  LET p == queue[cycle][i]
      n == messageId + i - 1
  IN  [id |-> n, source |-> p.source, dest |-> p.dest, msg |-> p.msg, co |-> p.co,
       address |-> IF p.address = -1 THEN n ELSE p.address]

\* sendPackets sends the slot of this cycle: each packet gets the next number,
\* and one without an address opens a transaction.
LEMMA SendIs ==
    ASSUME NEW CONSTANT K, NEW CONSTANT V, NEW CONSTANT L,
           NEW S, queue \in [Slots -> Seq(S)], cycle \in Slots, messageId \in Nat,
           DOMAIN inTransit \subseteq 0 .. messageId - 1,
           DOMAIN transactions \subseteq 0 .. messageId - 1,
           Gen(K, V, L)!sendPackets
    PROVE  LET n == Len(queue[cycle])
               opened == {i \in 1 .. n : Numbered(i).address = Numbered(i).id}
           IN
           /\ n \in Nat /\ DOMAIN queue[cycle] = 1 .. n
           /\ messageId' = messageId + n
           /\ queue' = [queue EXCEPT ![cycle] = <<>>]
           /\ DOMAIN inTransit' = DOMAIN inTransit \cup {messageId + i - 1 : i \in 1 .. n}
           /\ \A m \in DOMAIN inTransit : inTransit'[m] = inTransit[m]
           /\ \A i \in 1 .. n : inTransit'[messageId + i - 1] = Numbered(i)
           /\ DOMAIN transactions' =
                DOMAIN transactions \cup {messageId + i - 1 : i \in opened}
           /\ \A b \in DOMAIN transactions : transactions'[b] = transactions[b]
           /\ \A i \in opened : transactions'[messageId + i - 1] =
                [source |-> Numbered(i).source, dest |-> Numbered(i).dest,
                 invs |-> 0, acks |-> 0, data |-> FALSE, unblock |-> FALSE]
           /\ IsFiniteSet(DOMAIN inTransit')
  <1> DEFINE n == Len(queue[cycle])
             opened == {i \in 1 .. n : Numbered(i).address = Numbered(i).id}
             sent == Gen(K, V, L)!Sent
  <1>1. queue[cycle] \in Seq(S) /\ n \in Nat /\ DOMAIN queue[cycle] = 1 .. n
    OBVIOUS
  <1>2. sent = [i \in 1 .. n |-> Numbered(i)]
    BY <1>1 DEF Gen!Sent, Numbered, Gen!NoAddress
  <1>3. \A i \in 1 .. n : Numbered(i).id = messageId + i - 1
    BY DEF Numbered
  <1>4. Len(sent) = n
    BY <1>1, <1>2
  <1>5. DOMAIN sent = 1 .. n /\ \A i \in 1 .. n : sent[i] = Numbered(i)
    BY <1>2
  <1>6. /\ {sent[i].id : i \in DOMAIN sent} = {messageId + i - 1 : i \in 1 .. n}
        /\ {i \in DOMAIN sent : sent[i].address = sent[i].id} = opened
        /\ {sent[i].id : i \in opened} = {messageId + i - 1 : i \in opened}
    <2> HIDE DEF sent, n
    <2>1. \A i \in 1 .. n : sent[i].id = messageId + i - 1
      BY <1>3, <1>5
    <2>2. {sent[i].id : i \in DOMAIN sent} = {messageId + i - 1 : i \in 1 .. n}
      BY <1>5, <2>1
    <2>3. {i \in DOMAIN sent : sent[i].address = sent[i].id} = opened
      BY <1>5
    <2>4. {sent[i].id : i \in opened} = {messageId + i - 1 : i \in opened}
      BY <2>1
    <2>5. QED
      BY <2>2, <2>3, <2>4
  <1> HIDE DEF n, sent, opened
  <1>7. /\ messageId' = messageId + n
        /\ queue' = [queue EXCEPT ![cycle] = <<>>]
        /\ inTransit' = [m \in DOMAIN inTransit \cup {messageId + i - 1 : i \in 1 .. n} |->
                           IF m < messageId THEN inTransit[m] ELSE sent[m - messageId + 1]]
    BY <1>4, <1>6 DEF Gen!sendPackets, sent
  <1>8. transactions' = [b \in DOMAIN transactions \cup {messageId + i - 1 : i \in opened} |->
                           IF b < messageId THEN transactions[b]
                           ELSE [source |-> sent[b - messageId + 1].source,
                                 dest |-> sent[b - messageId + 1].dest,
                                 invs |-> 0, acks |-> 0, data |-> FALSE, unblock |-> FALSE]]
    BY <1>6 DEF Gen!sendPackets, Gen!transaction_t, sent
  <1>9. \A m \in DOMAIN inTransit : inTransit'[m] = inTransit[m]
    BY <1>7
  <1>10. \A b \in DOMAIN transactions : transactions'[b] = transactions[b]
    BY <1>8
  <1>11. ASSUME NEW i \in 1 .. n
         PROVE  /\ ~(messageId + i - 1 < messageId)
                /\ sent[(messageId + i - 1) - messageId + 1] = Numbered(i)
    <2>1. (messageId + i - 1) - messageId + 1 = i /\ ~(messageId + i - 1 < messageId)
      BY <1>1
    <2>2. QED
      BY <1>2, <2>1
  <1>12. \A i \in 1 .. n : inTransit'[messageId + i - 1] = Numbered(i)
    BY <1>7, <1>11
  <1>13. \A i \in opened : i \in 1 .. n
    BY DEF opened
  <1>14. \A i \in opened : transactions'[messageId + i - 1] =
                [source |-> Numbered(i).source, dest |-> Numbered(i).dest,
                 invs |-> 0, acks |-> 0, data |-> FALSE, unblock |-> FALSE]
    BY <1>8, <1>11, <1>13
  <1>15. IsFiniteSet(DOMAIN inTransit')
    <2>1. DOMAIN inTransit' \in SUBSET (0 .. messageId + n - 1)
      BY <1>1, <1>7
    <2>2. messageId + n - 1 \in Int
      BY <1>1
    <2>3. IsFiniteSet(0 .. messageId + n - 1)
      BY <2>2, FS_Interval
    <2>4. QED
      BY <2>1, <2>3, FS_Subset
  <1>16. QED
    BY <1>1, <1>7, <1>8, <1>9, <1>10, <1>12, <1>14, <1>15 DEF n, opened

\* Sending moves a packet from the queue into the network: what is under way
\* for an open transaction stays the same, a new one has its first packet.
LEMMA SendCounts ==
    ASSUME PlayersAssumption, NEW CONSTANT K, NEW CONSTANT V, NEW CONSTANT L,
           NEW S, queue \in [Slots -> Seq(S)], cycle \in Slots, messageId \in Nat,
           DOMAIN inTransit \subseteq 0 .. messageId - 1,
           DOMAIN transactions \subseteq 0 .. messageId - 1,
           \A t \in Slots : \A i \in DOMAIN queue[t] :
             queue[t][i].address \in -1 .. messageId - 1,
           \A n \in DOMAIN inTransit : inTransit[n].address \in 0 .. messageId - 1,
           Gen(K, V, L)!sendPackets, NEW a \in Nat, NEW C
    PROVE  /\ a < messageId => Under(a, C)' = Under(a, C)
           /\ a >= messageId =>
                \/ Under(a, C)' = 0
                \/ \E i \in DOMAIN queue[cycle] :
                     /\ a = messageId + i - 1 /\ queue[cycle][i].address = -1
                     /\ Under(a, C)' = IF queue[cycle][i].co \in C THEN 1 ELSE 0
  <1> DEFINE n == Len(queue[cycle])
             place(i) == messageId + i - 1
  <1>1. /\ n \in Nat /\ DOMAIN queue[cycle] = 1 .. n
        /\ queue' = [queue EXCEPT ![cycle] = <<>>]
        /\ DOMAIN inTransit' = DOMAIN inTransit \cup {place(i) : i \in 1 .. n}
        /\ \A m \in DOMAIN inTransit : inTransit'[m] = inTransit[m]
        /\ \A i \in 1 .. n : inTransit'[place(i)] = Numbered(i)
    BY SendIs
  <1> HIDE DEF n
  <1>2. /\ DOMAIN queue' = Slots /\ queue'[cycle] = <<>>
        /\ \A t \in Slots \ {cycle} : queue'[t] = queue[t]
    BY <1>1
  <1>3. queue' \in [Slots -> Seq(S)]
    BY <1>1
  <1>4. /\ IsFiniteSet(Waits(a, C)) /\ Cardinality(Waits(a, C)) \in Nat
        /\ IsFiniteSet(Waits(a, C)') /\ Cardinality(Waits(a, C)') \in Nat
    BY <1>3, QueueFinite DEF Waits
  <1>5. CASE a < messageId
    <2> DEFINE D == {i \in 1 .. n : queue[cycle][i].address = a /\ queue[cycle][i].co \in C}
               W == {<<cycle, i>> : i \in D}
               M == {place(i) : i \in D}
    <2>1. Waits(a, C) = Waits(a, C)' \cup W /\ Waits(a, C)' \cap W = {}
      <3>1. ASSUME NEW w \in Waits(a, C), w \notin W
            PROVE  w \in Waits(a, C)'
        <4>1. /\ w = <<w[1], w[2]>> /\ w[1] \in Slots /\ w[2] \in DOMAIN queue[w[1]]
              /\ queue[w[1]][w[2]].address = a /\ queue[w[1]][w[2]].co \in C
          BY WaitsAre DEF Waits
        <4>2. w[1] # cycle
          BY <1>1, <3>1, <4>1
        <4>3. QED
          BY <1>2, <4>1, <4>2, WaitsAre DEF Waits
      <3>2. ASSUME NEW w \in Waits(a, C)'
            PROVE  w \in Waits(a, C) /\ w \notin W
        <4>1. /\ w = <<w[1], w[2]>> /\ w[1] \in Slots /\ w[2] \in DOMAIN queue'[w[1]]
              /\ queue'[w[1]][w[2]].address = a /\ queue'[w[1]][w[2]].co \in C
          BY WaitsAre DEF Waits
        <4>2. w[1] # cycle
          BY <1>2, <4>1
        <4>3. w \notin W
          BY <4>1, <4>2
        <4>4. QED
          BY <1>2, <4>1, <4>2, <4>3, WaitsAre DEF Waits
      <3>3. W \subseteq Waits(a, C)
        BY <1>1, WaitsAre DEF Waits
      <3>4. QED
        BY <3>1, <3>2, <3>3
    <2>2. Travels(a, C)' = Travels(a, C) \cup M /\ Travels(a, C) \cap M = {}
      <3>1. ASSUME NEW i \in 1 .. n
            PROVE  /\ place(i) \notin DOMAIN inTransit
                   /\ Numbered(i).address = a <=> queue[cycle][i].address = a
                   /\ Numbered(i).co = queue[cycle][i].co
                   /\ place(i) \in Travels(a, C)' <=> i \in D
        <4>1. place(i) \notin DOMAIN inTransit
          BY <1>1
        <4>2. a # messageId + i - 1 /\ a # -1
          BY <1>1, <1>5
        <4>3. /\ Numbered(i).address = a <=> queue[cycle][i].address = a
              /\ Numbered(i).co = queue[cycle][i].co
          BY <4>2 DEF Numbered
        <4>4. place(i) \in DOMAIN inTransit' /\ inTransit'[place(i)] = Numbered(i)
          BY <1>1
        <4>5. place(i) \in Travels(a, C)' <=> i \in D
          BY <4>3, <4>4 DEF Travels
        <4>6. QED
          BY <4>1, <4>3, <4>5
      <3> HIDE DEF place
      <3>2. \A m \in DOMAIN inTransit : m \in Travels(a, C)' <=> m \in Travels(a, C)
        BY <1>1 DEF Travels
      <3>3. Travels(a, C) \subseteq DOMAIN inTransit /\ Travels(a, C)' \subseteq DOMAIN inTransit'
        BY DEF Travels
      <3>4. M \cap DOMAIN inTransit = {}
        BY <3>1
      <3>5. \A m \in Travels(a, C)' : m \in DOMAIN inTransit \/ m \in M
        BY <1>1, <3>1, <3>3
      <3>6. M \subseteq Travels(a, C)'
        BY <3>1
      <3>7. QED
        BY <3>2, <3>3, <3>4, <3>5, <3>6, <1>1
    <2>3. IsFiniteSet(D) /\ Cardinality(D) \in Nat
      <3>1. D \in SUBSET (1 .. n)
        OBVIOUS
      <3>2. IsFiniteSet(1 .. n)
        <4>1. n \in Int
          BY <1>1
        <4>2. QED
          BY <4>1, FS_Interval
      <3> HIDE DEF D
      <3>3. QED
        BY <3>1, <3>2, FS_Subset, FS_CardinalityType
    <2>4. IsFiniteSet(W) /\ Cardinality(W) = Cardinality(D)
      <3> DEFINE f == [i \in D |-> <<cycle, i>>]
      <3>1. f \in Bijection(D, W)
        <4> HIDE DEF D
        <4>1. QED
          BY DEF Bijection, Injection, Surjection, IsInjective
      <3>2. QED
        BY <2>3, <3>1, FS_Bijection DEF ExistsBijection
    <2>5. IsFiniteSet(M) /\ Cardinality(M) = Cardinality(D)
      <3> DEFINE f == [i \in D |-> place(i)]
      <3>1. f \in Bijection(D, M)
        <4>1. \A i, j \in D : place(i) = place(j) => i = j
          BY <1>1
        <4> HIDE DEF D, place
        <4>2. QED
          BY <4>1 DEF Bijection, Injection, Surjection, IsInjective
      <3>2. QED
        BY <2>3, <3>1, FS_Bijection DEF ExistsBijection
    <2>6. IsFiniteSet(Travels(a, C)) /\ Cardinality(Travels(a, C)) \in Nat
      <3>1. IsFiniteSet(0 .. messageId - 1)
        BY FS_Interval
      <3>2. Travels(a, C) \in SUBSET (0 .. messageId - 1)
        BY DEF Travels
      <3>3. QED
        BY <3>1, <3>2, FS_Subset, FS_CardinalityType
    <2> HIDE DEF W, M, D
    <2>7. Cardinality(Waits(a, C)) = Cardinality(Waits(a, C)') + Cardinality(W) - 0
      BY <1>4, <2>1, <2>4, FS_Union, FS_EmptySet
    <2>8. Cardinality(Travels(a, C)') = Cardinality(Travels(a, C)) + Cardinality(M) - 0
      BY <2>2, <2>5, <2>6, FS_Union, FS_EmptySet
    <2>9. QED
      BY <1>4, <1>5, <2>3, <2>4, <2>5, <2>6, <2>7, <2>8 DEF Under
  <1>6. CASE a >= messageId
    <2>1. Waits(a, C)' = {}
      <3> SUFFICES ASSUME NEW w \in Waits(a, C)' PROVE FALSE
        OBVIOUS
      <3>1. /\ w[1] \in Slots /\ w[2] \in DOMAIN queue'[w[1]]
            /\ queue'[w[1]][w[2]].address = a
        BY WaitsAre DEF Waits
      <3>2. w[1] # cycle
        BY <1>2, <3>1
      <3>3. queue[w[1]][w[2]].address = a /\ w[2] \in DOMAIN queue[w[1]]
        BY <1>2, <3>1, <3>2
      <3>4. QED
        BY <1>6, <3>1, <3>3
    <2>2. ASSUME NEW m \in Travels(a, C)'
          PROVE  \E i \in 1 .. n : /\ m = place(i) /\ a = place(i)
                                   /\ queue[cycle][i].address = -1
                                   /\ queue[cycle][i].co \in C
      <3>1. m \in DOMAIN inTransit' /\ inTransit'[m].address = a /\ inTransit'[m].co \in C
        BY DEF Travels
      <3>2. m \notin DOMAIN inTransit
        BY <1>1, <1>6, <3>1
      <3>3. PICK i \in 1 .. n : m = place(i)
        BY <1>1, <3>1, <3>2
      <3>4. inTransit'[m] = Numbered(i) /\ queue[cycle][i].address \in -1 .. messageId - 1
        BY <1>1, <3>3
      <3>5. queue[cycle][i].address = -1 /\ a = place(i) /\ queue[cycle][i].co \in C
        BY <1>6, <3>1, <3>4 DEF Numbered
      <3>6. QED
        BY <3>3, <3>5
    <2>3. CASE Travels(a, C)' = {}
      <3>1. Under(a, C)' = 0
        BY <2>1, <2>3, FS_EmptySet DEF Under
      <3>2. QED
        BY <3>1, <1>6
    <2>4. CASE Travels(a, C)' # {}
      <3>1. PICK m \in Travels(a, C)' : TRUE
        BY <2>4
      <3>2. PICK i \in 1 .. n : /\ m = place(i) /\ a = place(i)
                               /\ queue[cycle][i].address = -1 /\ queue[cycle][i].co \in C
        BY <2>2
      <3>3. Travels(a, C)' = {a}
        BY <2>2, <3>1
      <3>4. Cardinality(Waits(a, C)') = 0 /\ Cardinality(Travels(a, C)') = 1
        BY <2>1, <3>3, FS_EmptySet, FS_Singleton
      <3>5. Under(a, C)' = 1
        BY <3>4 DEF Under
      <3>6. \E j \in DOMAIN queue[cycle] :
              /\ a = messageId + j - 1 /\ queue[cycle][j].address = -1
              /\ Under(a, C)' = IF queue[cycle][j].co \in C THEN 1 ELSE 0
        <4>1. i \in DOMAIN queue[cycle]
          BY <1>1
        <4>2. QED
          BY <3>2, <3>5, <4>1
      <3>7. QED
        BY <1>6, <3>6
    <2>5. QED
      BY <2>3, <2>4
  <1>7. QED
    BY <1>5, <1>6

-----------------------------------------------------------------------------
(* The account of a transaction: at most one message of it carries it on,  *)
(* and the invalidates and acknowledgements under way are those it waits   *)
(* for.                                                                    *)

Early == {"READ", "WRITE", "PUTC", "PUTD", "DATA", "WB_ACK"}
Final == {"UNBLOCK"}
Ack   == {"INV", "ACK"}
Cos   == Early \cup Final \cup Ack

Item(K) == [source : K, dest : K, msg : {"REQUEST", "RESPONSE"}, co : Cos, time : Slots,
            address : Int]
Sending(K, n) == [id : {n}, source : K, dest : K, msg : {"REQUEST", "RESPONSE"}, co : Cos,
                  address : 0 .. messageId - 1]
Transaction(K) == [source : K, dest : K, invs : Nat, acks : Nat, data : BOOLEAN,
                   unblock : BOOLEAN]

QueueOK(K) ==
  /\ queue \in [Slots -> Seq(Item(K))]
  /\ \A t \in Slots : \A i \in DOMAIN queue[t] :
       /\ queue[t][i].address \in -1 .. messageId - 1
       /\ queue[t][i].address = -1 => queue[t][i].co \in {"READ", "WRITE", "PUTC", "PUTD"}

TransitOK(K) ==
  /\ DOMAIN inTransit \subseteq 0 .. messageId - 1
  /\ \A n \in DOMAIN inTransit : inTransit[n] \in Sending(K, n)

OpenOK(K) ==
  /\ DOMAIN transactions \subseteq 0 .. messageId - 1
  /\ transactions \in [DOMAIN transactions -> Transaction(K)]

Balance(dropped, t, early, final, ack) ==
  /\ early + final <= 1
  /\ early > 0 => ~t.data /\ ~t.unblock
  /\ final > 0 => t.data /\ ~t.unblock
  /\ ack <= t.invs - t.acks
  /\ ~dropped => ack = t.invs - t.acks

Accounted(a) ==
  IF a \in DOMAIN transactions
  THEN Balance(injectionDone, transactions[a], Under(a, Early), Under(a, Final), Under(a, Ack))
  ELSE Under(a, Early) = 0 /\ Under(a, Final) = 0 /\ Under(a, Ack) = 0

ModelInv(K, L) ==
  /\ messageId \in Nat /\ totalQueued \in Nat /\ injectionDone \in BOOLEAN
  /\ hierClass \in HierClasses \cup {1} /\ state \in Classes \cup {1}
  /\ L => totalQueued <= MaxPck
  /\ QueueOK(K) /\ TransitOK(K) /\ OpenOK(K)
  /\ \A a \in Nat : Accounted(a)

\* Numbers of messages are numbers.
LEMMA UnderNat ==
    ASSUME PlayersAssumption, NEW K, QueueOK(K), TransitOK(K), messageId \in Nat, NEW a, NEW C
    PROVE  /\ IsFiniteSet(Waits(a, C)) /\ Cardinality(Waits(a, C)) \in Nat
           /\ IsFiniteSet(Travels(a, C)) /\ Cardinality(Travels(a, C)) \in Nat
           /\ Under(a, C) \in Nat
           /\ IsFiniteSet(DOMAIN inTransit)
  <1>1. IsFiniteSet(Waits(a, C)) /\ Cardinality(Waits(a, C)) \in Nat
    BY QueueFinite DEF QueueOK, Waits
  <1>2. IsFiniteSet(0 .. messageId - 1)
    <2>1. messageId - 1 \in Int
      OBVIOUS
    <2>2. QED
      BY <2>1, FS_Interval
  <1>3. IsFiniteSet(DOMAIN inTransit)
    BY <1>2, FS_Subset DEF TransitOK
  <1>4. Travels(a, C) \in SUBSET DOMAIN inTransit
    BY DEF Travels
  <1>5. IsFiniteSet(Travels(a, C)) /\ Cardinality(Travels(a, C)) \in Nat
    BY <1>3, <1>4, FS_Subset, FS_CardinalityType
  <1>6. QED
    BY <1>1, <1>3, <1>5 DEF Under

\* What QueuePackets adds: the first m of its packets, all of them unless a
\* limit has been met.
Pushed(ps, m) ==
  /\ m < Len(ps) => injectionDone'
  /\ \A a, C : Grows(queue', ps, m, a, C)
  /\ OnlyAdds(queue', ps, m)

SomePushed(ps) == \E m \in 0 .. Len(ps) : Pushed(ps, m)

\* QueuePackets queues some first part of its packets, all unless it finds the
\* limit and ends the injection.
LEMMA PushCounts ==
    ASSUME PlayersAssumption, NEW CONSTANT K, NEW CONSTANT V, NEW CONSTANT L,
           L \in BOOLEAN, queue \in [Slots -> Seq(Item(K))],
           totalQueued \in Nat, injectionDone \in BOOLEAN, L => totalQueued <= MaxPck,
           NEW ps \in Seq(Item(K)), Gen(K, V, L)!QueuePackets(ps)
    PROVE  /\ queue' \in [Slots -> Seq(Item(K))]
           /\ totalQueued' \in Nat /\ injectionDone' \in BOOLEAN
           /\ L => totalQueued' <= MaxPck
           /\ injectionDone => injectionDone'
           /\ SomePushed(ps)
  <1> DEFINE m == Gen(K, V, L)!Room(Len(ps))
             qs == SubSeq(ps, 1, m)
  <1>1. MaxPck \in Nat /\ Len(ps) \in Nat
    BY PlayersAssumption DEF PlayersAssumption, Lib!WrapperAssumption, Lib!ModelAssumption
  <1>2. m \in 0 .. Len(ps) /\ (L => totalQueued + m <= MaxPck)
    BY <1>1 DEF Gen!Room
  <1> HIDE DEF m
  <1>3. /\ queue' = Gen(K, V, L)!Enqueue(qs) /\ totalQueued' = totalQueued + m
        /\ injectionDone' = (injectionDone \/ m < Len(ps))
    BY DEF Gen!QueuePackets, m
  <1>4. /\ qs \in Seq(Item(K)) /\ DOMAIN qs = 1 .. m /\ Len(qs) = m
        /\ \A i \in 1 .. m : qs[i] = ps[i] /\ ps[i] \in Item(K)
    BY <1>1, <1>2
  <1> HIDE DEF qs
  <1>5. \A i \in DOMAIN qs : qs[i].time \in Slots
    BY <1>4 DEF Item
  <1>6. ASSUME NEW a, NEW C
        PROVE  /\ queue' \in [Slots -> Seq(Item(K))]
               /\ Grows(queue', qs, Len(qs), a, C)
               /\ OnlyAdds(queue', qs, Len(qs))
    BY <1>3, <1>4, <1>5, EnqueueCounts
  <1>7. ASSUME NEW a, NEW C
        PROVE  Marked(qs, Len(qs), a, C) = Marked(ps, m, a, C)
    BY <1>4 DEF Marked
  <1>8. OnlyAdds(queue', ps, m)
    <2>1. OnlyAdds(queue', qs, m)
      BY <1>4, <1>6, Zenon
    <2>2. \A j \in 1 .. m : qs[j] = ps[j]
      BY <1>4
    <2>3. QED
      BY <2>1, <2>2 DEF OnlyAdds
  <1>9. Pushed(ps, m)
    BY <1>3, <1>6, <1>7, <1>8 DEF Pushed, Grows
  <1>10. \E k \in 0 .. Len(ps) : Pushed(ps, k)
    BY <1>2, <1>9
  <1>11. totalQueued' \in Nat /\ injectionDone' \in BOOLEAN /\ (L => totalQueued' <= MaxPck)
    BY <1>1, <1>2, <1>3
  <1>12. QED
    BY <1>3, <1>6, <1>10, <1>11 DEF SomePushed

\* What is under way for transaction a, in a queue q and a network f.
TravelsIn(f, a, C) == {n \in DOMAIN f : f[n].address = a /\ f[n].co \in C}
UnderIn(q, f, a, C) == Cardinality(WaitsIn(q, a, C)) + Cardinality(TravelsIn(f, a, C))

\* The queue q and the network f hold the same messages C of a as now.
Same(q, f, a, C) == UnderIn(q, f, a, C) = Under(a, C)

\* They hold one message co less, and the first m packets of ps more.
Shifted(q, f, ps, m, co, a, C) ==
  UnderIn(q, f, a, C) =
    Under(a, C) - (IF co \in C THEN 1 ELSE 0) + Cardinality(Marked(ps, m, a, C))

\* How many of the first packets of ps are messages C of a.
LEMMA MarkedNat ==
    ASSUME NEW ps, NEW m \in Nat, NEW a, NEW C
    PROVE  IsFiniteSet(Marked(ps, m, a, C)) /\ Cardinality(Marked(ps, m, a, C)) \in Nat
  <1>1. IsFiniteSet(1 .. m)
    <2>1. m \in Int
      OBVIOUS
    <2>2. QED
      BY <2>1, FS_Interval
  <1>2. Marked(ps, m, a, C) \in SUBSET (1 .. m)
    BY DEF Marked
  <1>3. QED
    BY <1>1, <1>2, FS_Subset, FS_CardinalityType

\* Packets with other addresses or kinds count nothing.
LEMMA MarkedNone ==
    ASSUME NEW ps, NEW m \in Nat, NEW a, NEW C,
           \A i \in 1 .. m : ps[i].address # a \/ ps[i].co \notin C
    PROVE  Cardinality(Marked(ps, m, a, C)) = 0
  <1>1. Marked(ps, m, a, C) = {}
    BY DEF Marked
  <1>2. QED
    BY <1>1, FS_EmptySet

\* A single packet counts as one, when it is queued.
LEMMA MarkedOne ==
    ASSUME NEW p, NEW m \in 0 .. 1, NEW C
    PROVE  Cardinality(Marked(<<p>>, m, p.address, C)) = IF p.co \in C THEN m ELSE 0
  <1>1. CASE m = 1 /\ p.co \in C
    <2>1. Marked(<<p>>, m, p.address, C) = {1}
      BY <1>1 DEF Marked
    <2>2. QED
      BY <1>1, <2>1, FS_Singleton
  <1>2. CASE m = 0 \/ p.co \notin C
    <2>1. \A i \in 1 .. m : <<p>>[i].co \notin C
      BY <1>2
    <2>2. Cardinality(Marked(<<p>>, m, p.address, C)) = 0
      BY <2>1, MarkedNone
    <2>3. QED
      BY <1>2, <2>2
  <1>3. QED
    BY <1>1, <1>2

\* What a packet of transaction a0 leaves as it was, when its answers are queued.
Carried(K, L, a0) ==
  /\ QueueOK(K)' /\ TransitOK(K)'
  /\ totalQueued' \in Nat /\ injectionDone' \in BOOLEAN
  /\ L => totalQueued' <= MaxPck
  /\ injectionDone => injectionDone'
  /\ \A a, C : a # a0 => Same(queue', inTransit', a, C)

\* A packet co of transaction a0 has come, and the first packets of ps are queued.
Came(ps, co, a0) ==
  \E m \in 0 .. Len(ps) :
    /\ m < Len(ps) => injectionDone'
    /\ \A C : Shifted(queue', inTransit', ps, m, co, a0, C)

\* What the arrival of a packet and the answers to it leave under way.
LEMMA Arrives ==
    ASSUME PlayersAssumption, NEW CONSTANT K, NEW CONSTANT V, NEW CONSTANT L,
           L \in BOOLEAN, ModelInv(K, L),
           NEW id \in DOMAIN inTransit, NEW a0, NEW co,
           inTransit[id].address = a0, inTransit[id].co = co,
           NEW ps \in Seq(Item(K)), \A i \in 1 .. Len(ps) : ps[i].address = a0,
           Gen(K, V, L)!QueuePackets(ps), inTransit' = Gen(K, V, L)!Without(inTransit, id),
           messageId' = messageId
    PROVE  Carried(K, L, a0) /\ Came(ps, co, a0)
  <1>1. /\ QueueOK(K) /\ TransitOK(K) /\ messageId \in Nat
        /\ queue \in [Slots -> Seq(Item(K))] /\ totalQueued \in Nat
        /\ injectionDone \in BOOLEAN /\ (L => totalQueued <= MaxPck)
        /\ DOMAIN inTransit \subseteq 0 .. messageId - 1
        /\ a0 \in 0 .. messageId - 1
    BY DEF ModelInv, QueueOK, TransitOK, Sending
  <1>2. /\ queue' \in [Slots -> Seq(Item(K))]
        /\ totalQueued' \in Nat /\ injectionDone' \in BOOLEAN
        /\ L => totalQueued' <= MaxPck
        /\ injectionDone => injectionDone'
        /\ SomePushed(ps)
    BY <1>1, PushCounts
  <1>3. PICK m \in 0 .. Len(ps) : Pushed(ps, m)
    BY <1>2 DEF SomePushed
  <1>4. Len(ps) \in Nat /\ m \in Nat /\ \A i \in 1 .. m : ps[i].address = a0
    OBVIOUS
  <1>5. /\ DOMAIN inTransit' = DOMAIN inTransit \ {id}
        /\ \A n \in DOMAIN inTransit \ {id} : inTransit'[n] = inTransit[n]
    BY DEF Gen!Without
  <1>6. TransitOK(K)'
    BY <1>1, <1>5 DEF TransitOK, Sending
  <1>7. QueueOK(K)'
    <2>1. ASSUME NEW t \in Slots, NEW i \in DOMAIN queue'[t]
          PROVE  /\ queue'[t][i].address \in -1 .. messageId - 1
                 /\ queue'[t][i].address = -1 =>
                      queue'[t][i].co \in {"READ", "WRITE", "PUTC", "PUTD"}
      <3>1. \/ i \in DOMAIN queue[t] /\ queue'[t][i] = queue[t][i]
            \/ \E j \in 1 .. m : queue'[t][i] = ps[j]
        BY <1>3 DEF Pushed, OnlyAdds
      <3>2. CASE i \in DOMAIN queue[t] /\ queue'[t][i] = queue[t][i]
        BY <1>1, <3>2 DEF QueueOK
      <3>3. CASE \E j \in 1 .. m : queue'[t][i] = ps[j]
        BY <1>1, <1>4, <3>3
      <3>4. QED
        BY <3>1, <3>2, <3>3
    <2>2. QED
      BY <1>2, <2>1 DEF QueueOK
  <1>8. ASSUME NEW a, NEW C
        PROVE  /\ Cardinality(TravelsIn(inTransit', a, C)) =
                    Cardinality(Travels(a, C)) - (IF a = a0 /\ co \in C THEN 1 ELSE 0)
               /\ Cardinality(TravelsIn(inTransit', a, C)) \in Nat
               /\ Cardinality(Travels(a, C)) \in Nat /\ Cardinality(Waits(a, C)) \in Nat
    <2>1. /\ IsFiniteSet(Travels(a, C)) /\ Cardinality(Travels(a, C)) \in Nat
          /\ Cardinality(Waits(a, C)) \in Nat
      BY <1>1, UnderNat
    <2>2. TravelsIn(inTransit', a, C) = Travels(a, C) \ {id}
      BY <1>5 DEF Travels, TravelsIn
    <2>3. id \in Travels(a, C) <=> a = a0 /\ co \in C
      BY DEF Travels
    <2>4. CASE a = a0 /\ co \in C
      <3>1. Cardinality(Travels(a, C) \ {id}) = Cardinality(Travels(a, C)) - 1
        BY <2>1, <2>3, <2>4, FS_RemoveElement
      <3>2. Cardinality(Travels(a, C) \ {id}) \in Nat
        BY <2>1, FS_RemoveElement, FS_CardinalityType
      <3>3. QED
        BY <2>1, <2>2, <2>4, <3>1, <3>2
    <2>5. CASE ~(a = a0 /\ co \in C)
      <3>1. Travels(a, C) \ {id} = Travels(a, C)
        BY <2>3, <2>5
      <3>2. (IF a = a0 /\ co \in C THEN 1 ELSE 0) = 0
        BY <2>5
      <3>3. Cardinality(Travels(a, C)) - 0 = Cardinality(Travels(a, C))
        BY <2>1
      <3>4. Cardinality(TravelsIn(inTransit', a, C)) = Cardinality(Travels(a, C))
        BY <2>2, <3>1
      <3>5. QED
        BY <2>1, <3>2, <3>3, <3>4
    <2>6. QED
      BY <2>4, <2>5
  <1>9. ASSUME NEW a, NEW C
        PROVE  /\ Cardinality(WaitsIn(queue', a, C)) =
                    Cardinality(Waits(a, C)) + Cardinality(Marked(ps, m, a, C))
               /\ Cardinality(Marked(ps, m, a, C)) \in Nat
               /\ a # a0 => Cardinality(Marked(ps, m, a, C)) = 0
    <2>1. Grows(queue', ps, m, a, C)
      BY <1>3 DEF Pushed
    <2>2. Cardinality(Marked(ps, m, a, C)) \in Nat
      BY <1>4, MarkedNat
    <2>3. a # a0 => Cardinality(Marked(ps, m, a, C)) = 0
      BY <1>4, MarkedNone
    <2>4. QED
      BY <2>1, <2>2, <2>3 DEF Grows, Waits
  <1>10. ASSUME NEW a, NEW C, a # a0
         PROVE  Same(queue', inTransit', a, C)
    BY <1>8, <1>9, <1>10 DEF Same, UnderIn, Under
  <1>11. ASSUME NEW C
         PROVE  Shifted(queue', inTransit', ps, m, co, a0, C)
    <2>1. /\ Cardinality(TravelsIn(inTransit', a0, C)) =
               Cardinality(Travels(a0, C)) - (IF co \in C THEN 1 ELSE 0)
          /\ Cardinality(TravelsIn(inTransit', a0, C)) \in Nat
          /\ Cardinality(Travels(a0, C)) \in Nat /\ Cardinality(Waits(a0, C)) \in Nat
      BY <1>8
    <2>2. /\ Cardinality(WaitsIn(queue', a0, C)) =
               Cardinality(Waits(a0, C)) + Cardinality(Marked(ps, m, a0, C))
          /\ Cardinality(Marked(ps, m, a0, C)) \in Nat
      BY <1>9
    <2>3. QED
      BY <2>1, <2>2 DEF Shifted, UnderIn, Under
  <1>12. m < Len(ps) => injectionDone'
    BY <1>3 DEF Pushed
  <1>13. QED
    BY <1>2, <1>6, <1>7, <1>10, <1>11, <1>12 DEF Carried, Came

\* A packet that is answered by one packet, if a limit does not drop it.
Swapped(q, f, m, new, old, a, C) ==
  UnderIn(q, f, a, C) =
    Under(a, C) - (IF old \in C THEN 1 ELSE 0) + (IF new \in C THEN m ELSE 0)

\* react to a packet with one answer swaps it for the answer, or drops it.
LEMMA OneAnswer ==
    ASSUME PlayersAssumption, NEW CONSTANT K, NEW CONSTANT V, NEW CONSTANT L,
           L \in BOOLEAN, ModelInv(K, L),
           NEW id \in DOMAIN inTransit, NEW a0, NEW co,
           inTransit[id].address = a0, inTransit[id].co = co,
           NEW p \in Item(K), p.address = a0,
           Gen(K, V, L)!QueuePackets(<<p>>),
           inTransit' = Gen(K, V, L)!Without(inTransit, id), messageId' = messageId
    PROVE  /\ Carried(K, L, a0)
           /\ \E m \in 0 .. 1 : /\ m = 0 => injectionDone'
                                /\ \A C : Swapped(queue', inTransit', m, p.co, co, a0, C)
  <1> DEFINE ps == <<p>>
  <1>9. Gen(K, V, L)!QueuePackets(ps)
    OBVIOUS
  <1>1. ps \in Seq(Item(K)) /\ Len(ps) = 1 /\ \A i \in 1 .. Len(ps) : ps[i].address = a0
    OBVIOUS
  <1> HIDE DEF ps
  <1>2. Carried(K, L, a0) /\ Came(ps, co, a0)
    BY <1>1, <1>9, Arrives
  <1>3. PICK m \in 0 .. 1 : /\ m < 1 => injectionDone'
                            /\ \A C : Shifted(queue', inTransit', ps, m, co, a0, C)
    BY <1>1, <1>2 DEF Came
  <1>4. ASSUME NEW C
        PROVE  Swapped(queue', inTransit', m, p.co, co, a0, C)
    <2>1. Cardinality(Marked(ps, m, a0, C)) = IF p.co \in C THEN m ELSE 0
      BY MarkedOne DEF ps
    <2>2. QED
      BY <1>3, <2>1 DEF Shifted, Swapped
  <1>5. QED
    BY <1>2, <1>3, <1>4

\* A packet that is answered by none.
LEMMA NoAnswer ==
    ASSUME PlayersAssumption, NEW CONSTANT K, NEW CONSTANT V, NEW CONSTANT L,
           L \in BOOLEAN, ModelInv(K, L),
           NEW id \in DOMAIN inTransit, NEW a0, NEW co,
           inTransit[id].address = a0, inTransit[id].co = co,
           Gen(K, V, L)!QueuePackets(<<>>),
           inTransit' = Gen(K, V, L)!Without(inTransit, id), messageId' = messageId
    PROVE  /\ Carried(K, L, a0)
           /\ \A C : Swapped(queue', inTransit', 0, co, co, a0, C)
  <1> DEFINE ps == << >>
  <1>9. Gen(K, V, L)!QueuePackets(ps)
    OBVIOUS
  <1>1. ps \in Seq(Item(K)) /\ Len(ps) = 0 /\ \A i \in 1 .. Len(ps) : ps[i].address = a0
    OBVIOUS
  <1> HIDE DEF ps
  <1>2. Carried(K, L, a0) /\ Came(ps, co, a0)
    BY <1>1, <1>9, Arrives
  <1>3. \A C : Shifted(queue', inTransit', ps, 0, co, a0, C)
    BY <1>1, <1>2 DEF Came
  <1>4. ASSUME NEW C
        PROVE  Swapped(queue', inTransit', 0, co, co, a0, C)
    <2>1. Cardinality(Marked(ps, 0, a0, C)) = 0
      <3>1. \A i \in 1 .. 0 : ps[i].address # a0 \/ ps[i].co \notin C
        OBVIOUS
      <3>2. 0 \in Nat
        OBVIOUS
      <3>3. QED
        BY <3>1, <3>2, MarkedNone
    <2>2. (IF co \in C THEN 0 ELSE 0) = 0
      OBVIOUS
    <2>3. QED
      BY <1>3, <2>1, <2>2 DEF Shifted, Swapped
  <1>5. QED
    BY <1>2, <1>4

\* The account of one transaction decides over the invariant.
LEMMA Settled ==
    ASSUME PlayersAssumption, NEW CONSTANT K, NEW CONSTANT L, ModelInv(K, L),
           NEW a0 \in DOMAIN transactions, Carried(K, L, a0),
           UNCHANGED <<messageId, hierClass, state>>,
           NEW t \in Transaction(K),
           \/ /\ transactions' = [transactions EXCEPT ![a0] = t]
              /\ Balance(injectionDone', t, UnderIn(queue', inTransit', a0, Early),
                         UnderIn(queue', inTransit', a0, Final),
                         UnderIn(queue', inTransit', a0, Ack))
           \/ /\ transactions' = [x \in DOMAIN transactions \ {a0} |-> transactions[x]]
              /\ UnderIn(queue', inTransit', a0, Early) = 0
              /\ UnderIn(queue', inTransit', a0, Final) = 0
              /\ UnderIn(queue', inTransit', a0, Ack) = 0
    PROVE  ModelInv(K, L)'
  <1>1. ASSUME NEW a \in Nat \ {a0}
        PROVE  /\ a \in DOMAIN transactions' <=> a \in DOMAIN transactions
               /\ a \in DOMAIN transactions => transactions'[a] = transactions[a]
    OBVIOUS
  <1>2. ASSUME NEW a, NEW C
        PROVE  Under(a, C)' = UnderIn(queue', inTransit', a, C)
    BY DEF Under, UnderIn, Waits, Travels, TravelsIn
  <1>3. ASSUME NEW a \in Nat \ {a0}
        PROVE  Accounted(a)'
    <2>1. /\ Under(a, Early)' = Under(a, Early) /\ Under(a, Final)' = Under(a, Final)
          /\ Under(a, Ack)' = Under(a, Ack)
      BY <1>2 DEF Carried, Same
    <2>2. Accounted(a) /\ (injectionDone => injectionDone')
      BY DEF ModelInv, Carried
    <2>3. QED
      BY <1>1, <2>1, <2>2 DEF Accounted, Balance
  <1>4. Accounted(a0)'
    <2>1. /\ Under(a0, Early)' = UnderIn(queue', inTransit', a0, Early)
          /\ Under(a0, Final)' = UnderIn(queue', inTransit', a0, Final)
          /\ Under(a0, Ack)' = UnderIn(queue', inTransit', a0, Ack)
      BY <1>2
    <2>2. \/ /\ a0 \in DOMAIN transactions' /\ transactions'[a0] = t
             /\ Balance(injectionDone', t, UnderIn(queue', inTransit', a0, Early),
                         UnderIn(queue', inTransit', a0, Final),
                         UnderIn(queue', inTransit', a0, Ack))
          \/ /\ a0 \notin DOMAIN transactions'
             /\ UnderIn(queue', inTransit', a0, Early) = 0
             /\ UnderIn(queue', inTransit', a0, Final) = 0
             /\ UnderIn(queue', inTransit', a0, Ack) = 0
      OBVIOUS
    <2>3. QED
      BY <2>1, <2>2 DEF Accounted
  <1>5. OpenOK(K)'
    BY DEF ModelInv, OpenOK
  <1>6. \A a \in Nat : Accounted(a)'
    BY <1>3, <1>4
  <1>7. QED
    BY <1>5, <1>6 DEF ModelInv, Carried


\* A write is forwarded to the owner, and n sharers are invalidated.
LEMMA WriteAnswer ==
    ASSUME PlayersAssumption, NEW CONSTANT K, NEW CONSTANT V, NEW CONSTANT L,
           L \in BOOLEAN, ModelInv(K, L),
           NEW id \in DOMAIN inTransit, NEW a0, NEW co,
           inTransit[id].address = a0, inTransit[id].co = co,
           NEW p \in Item(K), p.address = a0, p.co = "WRITE",
           NEW n \in Nat, NEW iv \in [1 .. n -> Item(K)],
           \A i \in 1 .. n : iv[i].address = a0 /\ iv[i].co = "INV",
           Gen(K, V, L)!QueuePackets(<<p>> \o iv),
           inTransit' = Gen(K, V, L)!Without(inTransit, id), messageId' = messageId
    PROVE  /\ Carried(K, L, a0)
           /\ \E e \in 0 .. 1, k \in 0 .. n :
                /\ ~injectionDone' => e = 1 /\ k = n
                /\ UnderIn(queue', inTransit', a0, Early) =
                     Under(a0, Early) - (IF co \in Early THEN 1 ELSE 0) + e
                /\ UnderIn(queue', inTransit', a0, Final) =
                     Under(a0, Final) - (IF co \in Final THEN 1 ELSE 0) + 0
                /\ UnderIn(queue', inTransit', a0, Ack) =
                     Under(a0, Ack) - (IF co \in Ack THEN 1 ELSE 0) + k
  <1> DEFINE ps == <<p>> \o iv
  <1>1. /\ ps \in Seq(Item(K)) /\ Len(ps) = n + 1
        /\ ps[1] = p /\ \A i \in 2 .. n + 1 : ps[i] = iv[i - 1] /\ i - 1 \in 1 .. n
    <2>1. iv \in Seq(Item(K)) /\ Len(iv) = n
      OBVIOUS
    <2>2. ps \in Seq(Item(K)) /\ Len(ps) = n + 1
      BY <2>1
    <2>3. ps[1] = p /\ \A i \in 2 .. n + 1 : ps[i] = iv[i - 1] /\ i - 1 \in 1 .. n
      BY <2>1
    <2>4. QED
      BY <2>2, <2>3
  <1>2. Gen(K, V, L)!QueuePackets(ps)
    OBVIOUS
  <1> HIDE DEF ps
  <1>3. /\ \A i \in 1 .. n + 1 : ps[i].address = a0
        /\ ps[1].co = "WRITE" /\ \A i \in 2 .. n + 1 : ps[i].co = "INV"
    BY <1>1
  <1>4. Carried(K, L, a0) /\ Came(ps, co, a0)
    BY <1>1, <1>2, <1>3, Arrives
  <1>5. PICK m \in 0 .. n + 1 : /\ m < n + 1 => injectionDone'
                                /\ \A C : Shifted(queue', inTransit', ps, m, co, a0, C)
    BY <1>1, <1>4 DEF Came
  <1> DEFINE e == IF m = 0 THEN 0 ELSE 1
             k == IF m = 0 THEN 0 ELSE m - 1
  <1>6. m \in Nat /\ e \in 0 .. 1 /\ k \in 0 .. n /\ (m = n + 1 => e = 1 /\ k = n)
         /\ (m = 0 => e = 0) /\ (m > 0 => e = 1)
    OBVIOUS
  <1> HIDE DEF e
  <1>7. Cardinality(Marked(ps, m, a0, Early)) = e
    <2>1. CASE m = 0
      <3>1. \A i \in 1 .. m : ps[i].address # a0 \/ ps[i].co \notin Early
        BY <2>1
      <3>2. Cardinality(Marked(ps, m, a0, Early)) = 0
        BY <1>6, <3>1, MarkedNone, Zenon
      <3>3. QED
        BY <1>6, <2>1, <3>2
    <2>2. CASE m > 0
      <3>1. Marked(ps, m, a0, Early) = {1}
        <4>1. ASSUME NEW i \in 1 .. m PROVE i \in Marked(ps, m, a0, Early) <=> i = 1
          <5>1. i = 1 \/ i \in 2 .. n + 1
            OBVIOUS
          <5>2. QED
            BY <1>3, <5>1 DEF Marked, Early
        <4>2. 1 \in 1 .. m
          BY <2>2
        <4>3. QED
          BY <4>1, <4>2 DEF Marked
      <3>2. Cardinality({1}) = 1
        BY FS_Singleton
      <3>3. QED
        BY <1>6, <2>2, <3>1, <3>2
    <2>3. QED
      BY <1>6, <2>1, <2>2
  <1>8. Cardinality(Marked(ps, m, a0, Final)) = 0
    <2>1. ASSUME NEW i \in 1 .. m PROVE ps[i].co \notin Final
      <3>1. i = 1 \/ i \in 2 .. n + 1
        OBVIOUS
      <3>2. QED
        BY <1>3, <3>1 DEF Final
    <2>2. QED
      BY <1>6, <2>1, MarkedNone, Zenon
  <1>9. Cardinality(Marked(ps, m, a0, Ack)) = k
    <2>1. Marked(ps, m, a0, Ack) = 2 .. m
      <3>1. ASSUME NEW i \in 1 .. m PROVE i \in Marked(ps, m, a0, Ack) <=> i # 1
        <4>1. i = 1 \/ i \in 2 .. n + 1
          OBVIOUS
        <4>2. QED
          BY <1>3, <4>1 DEF Marked, Ack
      <3>2. Marked(ps, m, a0, Ack) \subseteq 1 .. m
        BY DEF Marked
      <3>3. \A i : i \in 2 .. m <=> i \in 1 .. m /\ i # 1
        BY <1>6
      <3>4. QED
        BY <3>1, <3>2, <3>3
    <2>2. m \in Int /\ 2 \in Int
      OBVIOUS
    <2>3. Cardinality(2 .. m) = IF 2 > m THEN 0 ELSE m - 2 + 1
      BY <2>2, FS_Interval
    <2>4. (IF 2 > m THEN 0 ELSE m - 2 + 1) = k
      OBVIOUS
    <2>5. QED
      BY <2>1, <2>3, <2>4
  <1> HIDE DEF k
  <1>10. /\ UnderIn(queue', inTransit', a0, Early) =
              Under(a0, Early) - (IF co \in Early THEN 1 ELSE 0) + e
         /\ UnderIn(queue', inTransit', a0, Final) =
              Under(a0, Final) - (IF co \in Final THEN 1 ELSE 0) + 0
         /\ UnderIn(queue', inTransit', a0, Ack) =
              Under(a0, Ack) - (IF co \in Ack THEN 1 ELSE 0) + k
    BY <1>5, <1>7, <1>8, <1>9 DEF Shifted
  <1>11. ~injectionDone' => e = 1 /\ k = n
    BY <1>5, <1>6
  <1>12. QED
    BY <1>4, <1>6, <1>10, <1>11


\* The transaction a becomes u, or is erased when u is complete.
Noted(a, u) ==
  transactions' = IF u.invs = u.acks /\ u.data /\ u.unblock
                  THEN [x \in DOMAIN transactions \ {a} |-> transactions[x]]
                  ELSE [transactions EXCEPT ![a] = u]

\* What Record does to the transaction.
LEMMA RecordIs ==
    ASSUME NEW CONSTANT K, NEW CONSTANT V, NEW CONSTANT L, NEW a, NEW u
    PROVE  Gen(K, V, L)!Record(a, u) <=> Noted(a, u)
  BY DEF Gen!Record, Gen!Completed, Gen!Without, Noted

\* The n invalidates of a write, one for each sharer.
AreInvalidates(iv, n, K, a) ==
  /\ iv \in [1 .. n -> Item(K)]
  /\ \A i \in 1 .. n : iv[i].address = a /\ iv[i].co = "INV"

InvPackets(K, V, L, r, s) ==
  [i \in DOMAIN InOrder(s) |-> Gen(K, V, L)!Request(r, InOrder(s)[i], "INV")]

\* The invalidates of a write are one packet for each sharer.
LEMMA Invalidates ==
    ASSUME NEW CONSTANT K, NEW CONSTANT V, NEW CONSTANT L,
           IsFiniteSet(K), K \subseteq Nat, NEW s \in SUBSET K,
           NEW r, r.dest \in K, r.address \in Nat, cycle + 1 \in Slots
    PROVE  /\ Cardinality(s) \in Nat
           /\ AreInvalidates(InvPackets(K, V, L, r, s), Cardinality(s), K, r.address)
  <1>1. IsFiniteSet(s) /\ s \subseteq Int
    <2>1. IsFiniteSet(s)
      BY FS_Subset
    <2>2. s \subseteq Int
      OBVIOUS
    <2>3. QED
      BY <2>1, <2>2
  <1>2. InOrder(s) \in [1 .. Cardinality(s) -> s] /\ Cardinality(s) \in Nat
    BY <1>1, InOrderSorts
  <1>3. ASSUME NEW i \in 1 .. Cardinality(s)
        PROVE  /\ Gen(K, V, L)!Request(r, InOrder(s)[i], "INV") \in Item(K)
               /\ Gen(K, V, L)!Request(r, InOrder(s)[i], "INV").address = r.address
               /\ Gen(K, V, L)!Request(r, InOrder(s)[i], "INV").co = "INV"
    <2>1. InOrder(s)[i] \in K
      BY <1>2
    <2>2. QED
      BY <2>1 DEF Gen!Request, Gen!Packet, Item, Cos, Early, Final, Ack
  <1>4. DOMAIN InOrder(s) = 1 .. Cardinality(s)
    BY <1>2
  <1>5. QED
    BY <1>2, <1>3, <1>4 DEF AreInvalidates, InvPackets

\* The write that packet p forwards for transaction t has n sharers.
Writes(K, V, L, a, t, p, n, iv) ==
  /\ p.address = a /\ p.co = "WRITE" /\ AreInvalidates(iv, n, K, a)
  /\ Gen(K, V, L)!QueuePackets(<<p>> \o iv)
  /\ transactions' = [transactions EXCEPT ![a] = [t EXCEPT !.invs = @ + n]]

\* What the packet r of a transaction t makes its node do.
Answers(K, V, L, r, t) ==
  \/ /\ r.co \in Early
     /\ \E p \in Item(K) : /\ p.address = r.address /\ p.co \in Early
                           /\ Gen(K, V, L)!QueuePackets(<<p>>)
     /\ Noted(r.address, t) \/ transactions' = transactions
  \/ /\ r.co \in Early
     /\ \E p \in Item(K), n \in Nat : \E iv : Writes(K, V, L, r.address, t, p, n, iv)
  \/ /\ r.co = "INV"
     /\ \E p \in Item(K) : /\ p.address = r.address /\ p.co = "ACK"
                           /\ Gen(K, V, L)!QueuePackets(<<p>>)
     /\ Noted(r.address, t)
  \/ /\ r.co = "DATA"
     /\ \E p \in Item(K) : /\ p.address = r.address /\ p.co = "UNBLOCK"
                           /\ Gen(K, V, L)!QueuePackets(<<p>>)
     /\ Noted(r.address, [t EXCEPT !.data = TRUE])
  \/ /\ r.co = "ACK" /\ Gen(K, V, L)!QueuePackets(<< >>)
     /\ Noted(r.address, [t EXCEPT !.acks = @ + 1])
  \/ /\ r.co = "UNBLOCK" /\ Gen(K, V, L)!QueuePackets(<< >>)
     /\ Noted(r.address, [t EXCEPT !.unblock = TRUE])
  \/ /\ r.co \in Early /\ Gen(K, V, L)!QueuePackets(<< >>)
     /\ Noted(r.address, t)

\* What react to a packet queues, and what it notes in its transaction.
LEMMA AnswersIs ==
    ASSUME PlayersAssumption, NEW CONSTANT K, NEW CONSTANT V, NEW CONSTANT L,
           IsFiniteSet(K), K \subseteq Nat, cycle \in 0 .. Horizon,
           NEW n, NEW id, NEW r \in [id : {n}, source : K, dest : K, msg : {"REQUEST", "RESPONSE"},
                                     co : Cos, address : Nat],
           inTransit[id] = r,
           NEW t \in Transaction(K), r.address \in DOMAIN transactions,
           transactions[r.address] = t, Gen(K, V, L)!react(id)
    PROVE  Answers(K, V, L, r, t) /\ inTransit' = Gen(K, V, L)!Without(inTransit, id)
  <1>1. cycle + 1 \in Slots /\ cycle + MemDelay \in Slots
    BY PlayersAssumption DEF PlayersAssumption, Lib!WrapperAssumption, Lib!ModelAssumption, Slots
  <1>2. /\ r.source \in K /\ r.dest \in K /\ r.address \in Nat /\ r.co \in Cos
        /\ r.msg \in {"REQUEST", "RESPONSE"}
        /\ t.source \in K /\ t.dest \in K
    BY DEF Transaction
  <1>4. inTransit' = Gen(K, V, L)!Without(inTransit, id)
    BY DEF Gen!react
  <1>5. CASE Gen(K, V, L)!Initiating(r) /\ Gen(K, V, L)!AccessMemory(r)
    <2>1. r.co \in Early /\ "DATA" \in Early /\ "DATA" \in Cos
      BY <1>5 DEF Gen!Initiating, Early, Cos
    <2> DEFINE p == Gen(K, V, L)!Packet(r.dest, r.source, "RESPONSE", "DATA", cycle + MemDelay,
                                        r.address)
    <2>2. p \in Item(K) /\ p.address = r.address /\ p.co = "DATA"
      BY <1>1, <1>2, <2>1 DEF Gen!Packet, Item
    <2>3. Gen(K, V, L)!QueuePackets(<<p>>) /\ transactions' = transactions
      BY <1>5 DEF Gen!AccessMemory
    <2> HIDE DEF p
    <2>4. QED
      BY <1>4, <2>1, <2>2, <2>3 DEF Answers
  <1>6. CASE Gen(K, V, L)!Initiating(r) /\ Gen(K, V, L)!ForwardRequest(r)
    <2>1. r.co \in {"READ", "WRITE"} /\ r.co \in Early
      BY <1>6 DEF Gen!Initiating, Early
    <2>2. PICK owner \in Gen(K, V, L)!Caches :
            \/ /\ r.co = "READ"
               /\ Gen(K, V, L)!QueuePackets(<<Gen(K, V, L)!Request(r, owner, r.co)>>)
               /\ UNCHANGED transactions
            \/ /\ r.co = "WRITE"
               /\ \E m \in NumInvs :
                  \E s \in IF m = 0 THEN {{}} ELSE Gen(K, V, L)!InvSets(m, owner) :
                    LET inv == Gen(K, V, L)!InOrder(s) IN
                    /\ Gen(K, V, L)!QueuePackets(<<Gen(K, V, L)!Request(r, owner, r.co)>> \o
                            [i \in DOMAIN inv |-> Gen(K, V, L)!Request(r, inv[i], "INV")])
                    /\ transactions' = [transactions EXCEPT ![r.address].invs = @ + m]
      BY <1>6 DEF Gen!ForwardRequest
    <2>3. owner \in K
      BY DEF Gen!Caches
    <2> DEFINE p == Gen(K, V, L)!Request(r, owner, r.co)
    <2>4. p \in Item(K) /\ p.address = r.address /\ p.co = r.co
      BY <1>1, <1>2, <2>3 DEF Gen!Request, Gen!Packet, Item
    <2>5. CASE /\ r.co = "READ" /\ Gen(K, V, L)!QueuePackets(<<p>>)
               /\ UNCHANGED transactions
      <3> HIDE DEF p
      <3>1. QED
        BY <1>4, <2>1, <2>4, <2>5 DEF Answers
    <2>6. CASE /\ r.co = "WRITE"
               /\ \E m \in NumInvs :
                  \E s \in IF m = 0 THEN {{}} ELSE Gen(K, V, L)!InvSets(m, owner) :
                    LET inv == Gen(K, V, L)!InOrder(s) IN
                    /\ Gen(K, V, L)!QueuePackets(<<p>> \o
                            [i \in DOMAIN inv |-> Gen(K, V, L)!Request(r, inv[i], "INV")])
                    /\ transactions' = [transactions EXCEPT ![r.address].invs = @ + m]
      <3>0. PICK m \in NumInvs :
                  \E s \in IF m = 0 THEN {{}} ELSE Gen(K, V, L)!InvSets(m, owner) :
                    LET inv == Gen(K, V, L)!InOrder(s) IN
                    /\ Gen(K, V, L)!QueuePackets(<<p>> \o
                            [i \in DOMAIN inv |-> Gen(K, V, L)!Request(r, inv[i], "INV")])
                    /\ transactions' = [transactions EXCEPT ![r.address].invs = @ + m]
        BY <2>6
      <3>1. PICK s \in IF m = 0 THEN {{}} ELSE Gen(K, V, L)!InvSets(m, owner) :
                    LET inv == Gen(K, V, L)!InOrder(s) IN
                    /\ Gen(K, V, L)!QueuePackets(<<p>> \o
                            [i \in DOMAIN inv |-> Gen(K, V, L)!Request(r, inv[i], "INV")])
                    /\ transactions' = [transactions EXCEPT ![r.address].invs = @ + m]
        BY <3>0
      <3>2. s \subseteq K /\ Cardinality(s) = m
        <4>1. CASE m = 0
          BY <4>1, FS_EmptySet
        <4>2. CASE m # 0
          BY <4>2, GenIsHere DEF Gen!InvSets, Gen!Caches
        <4>3. QED
          BY <4>1, <4>2
      <3> DEFINE inv == InOrder(s)
                 iv == InvPackets(K, V, L, r, s)
      <3>3. Gen(K, V, L)!QueuePackets(<<p>> \o iv)
        BY <3>1, GenIsHere DEF InvPackets
      <3>5. m \in Nat /\ AreInvalidates(iv, m, K, r.address)
        <4>1. Cardinality(s) \in Nat /\ AreInvalidates(iv, Cardinality(s), K, r.address)
          BY <1>1, <1>2, <3>2, Invalidates
        <4>2. QED
          BY <3>2, <4>1
      <3> HIDE DEF p, iv
      <3>6. Writes(K, V, L, r.address, t, p, m, iv)
        BY <2>4, <2>6, <3>1, <3>3, <3>5 DEF Writes
      <3>7. QED
        BY <1>4, <2>1, <2>4, <3>5, <3>6 DEF Answers
    <2>7. QED
      BY <2>2, <2>5, <2>6
  <1>7. CASE ~Gen(K, V, L)!Initiating(r) /\ Gen(K, V, L)!Respond(r)
    <2> DEFINE to == Gen(K, V, L)!Reply(r, t.source, "DATA")
               wb == Gen(K, V, L)!Reply(r, r.source, "WB_ACK")
               ak == Gen(K, V, L)!Reply(r, t.source, "ACK")
               un == Gen(K, V, L)!Packet(t.source, t.dest, "RESPONSE", "UNBLOCK", cycle + 1,
                                         r.address)
    <2>1. /\ to \in Item(K) /\ to.address = r.address /\ to.co = "DATA"
          /\ wb \in Item(K) /\ wb.address = r.address /\ wb.co = "WB_ACK"
          /\ ak \in Item(K) /\ ak.address = r.address /\ ak.co = "ACK"
          /\ un \in Item(K) /\ un.address = r.address /\ un.co = "UNBLOCK"
      <3>1. {"DATA", "WB_ACK", "ACK", "UNBLOCK"} \subseteq Cos
        BY DEF Cos, Early, Final, Ack
      <3>2. r.address \in Int
        BY <1>2
      <3>3. to \in Item(K) /\ to.address = r.address /\ to.co = "DATA"
        BY <1>1, <1>2, <3>1, <3>2 DEF Gen!Reply, Gen!Packet, Item
      <3>4. wb \in Item(K) /\ wb.address = r.address /\ wb.co = "WB_ACK"
        BY <1>1, <1>2, <3>1, <3>2 DEF Gen!Reply, Gen!Packet, Item
      <3>5. ak \in Item(K) /\ ak.address = r.address /\ ak.co = "ACK"
        BY <1>1, <1>2, <3>1, <3>2 DEF Gen!Reply, Gen!Packet, Item
      <3>6. un \in Item(K) /\ un.address = r.address /\ un.co = "UNBLOCK"
        BY <1>1, <1>2, <3>1, <3>2 DEF Gen!Packet, Item
      <3>7. QED
        BY <3>3, <3>4, <3>5, <3>6
    <2>2. \/ /\ r.co \in {"READ", "WRITE"} /\ Gen(K, V, L)!QueuePackets(<<to>>)
             /\ Gen(K, V, L)!Record(r.address, t)
          \/ /\ r.co \in {"PUTC", "PUTD"} /\ Gen(K, V, L)!QueuePackets(<<wb>>)
             /\ Gen(K, V, L)!Record(r.address, t)
          \/ /\ r.co = "INV" /\ Gen(K, V, L)!QueuePackets(<<ak>>)
             /\ Gen(K, V, L)!Record(r.address, t)
          \/ /\ r.co = "DATA" /\ Gen(K, V, L)!QueuePackets(<<un>>)
             /\ Gen(K, V, L)!Record(r.address, [t EXCEPT !.data = TRUE])
          \/ /\ r.co = "ACK" /\ Gen(K, V, L)!QueuePackets(<< >>)
             /\ Gen(K, V, L)!Record(r.address, [t EXCEPT !.acks = @ + 1])
          \/ /\ r.co = "UNBLOCK" /\ Gen(K, V, L)!QueuePackets(<< >>)
             /\ Gen(K, V, L)!Record(r.address, [t EXCEPT !.unblock = TRUE])
          \/ /\ r.co \notin {"PUTC", "PUTD", "INV", "DATA", "ACK", "UNBLOCK"}
             /\ Gen(K, V, L)!QueuePackets(<< >>)
             /\ Gen(K, V, L)!Record(r.address, t)
      BY <1>7 DEF Gen!Respond, Gen!Forwarded
    <2>3. /\ {"READ", "WRITE", "PUTC", "PUTD", "DATA", "WB_ACK"} \subseteq Early
          /\ r.co \notin {"PUTC", "PUTD", "INV", "DATA", "ACK", "UNBLOCK"} => r.co \in Early
      BY <1>2 DEF Cos, Early, Final, Ack
    <2> HIDE DEF to, wb, ak, un
    <2>4. QED
      BY <1>4, <2>1, <2>2, <2>3, RecordIs DEF Answers
  <1>8. QED
    BY <1>5, <1>6, <1>7 DEF Gen!react


\* react keeps the account of every transaction.
LEMMA ReactKeeps ==
    ASSUME PlayersAssumption, NEW CONSTANT K, NEW CONSTANT V, NEW CONSTANT L,
           L \in BOOLEAN, IsFiniteSet(K), K \subseteq Nat, ModelInv(K, L),
           cycle \in 0 .. Horizon, NEW id \in DOMAIN inTransit,
           Gen(K, V, L)!react(id), UNCHANGED <<messageId, hierClass, state>>
    PROVE  ModelInv(K, L)'
  <1>1. PICK r : r = inTransit[id]
    OBVIOUS
  <1>2. r \in Sending(K, id) /\ messageId \in Nat
    BY <1>1 DEF ModelInv, TransitOK
  <1>3. PICK a0 : a0 = r.address
    OBVIOUS
  <1>4. PICK co : co = r.co
    OBVIOUS
  <1>5. a0 \in Nat /\ co \in Cos
    BY <1>2, <1>3, <1>4 DEF Sending
  <1>6. ASSUME NEW C
        PROVE  Under(a0, C) \in Nat /\ (co \in C => Under(a0, C) > 0)
    <2>1. /\ Cardinality(Waits(a0, C)) \in Nat /\ IsFiniteSet(Travels(a0, C))
          /\ Cardinality(Travels(a0, C)) \in Nat /\ Under(a0, C) \in Nat
      BY UnderNat DEF ModelInv
    <2>2. ASSUME co \in C PROVE Under(a0, C) > 0
      <3>1. id \in Travels(a0, C)
        BY <1>1, <1>3, <1>4, <2>2 DEF Travels
      <3>2. Cardinality(Travels(a0, C)) # 0
        BY <2>1, <3>1, FS_EmptySet
      <3>3. QED
        BY <2>1, <3>2 DEF Under
    <2>3. QED
      BY <2>1, <2>2
  <1>7. PICK e \in Nat, f \in Nat, k \in Nat :
          e = Under(a0, Early) /\ f = Under(a0, Final) /\ k = Under(a0, Ack)
    BY <1>6
  <1>8. /\ co \in Early => e > 0
        /\ co \in Final => f > 0
        /\ co \in Ack => k > 0
    BY <1>6, <1>7
  <1>9. /\ "READ" \in Early /\ "WRITE" \in Early /\ "DATA" \in Early /\ "WB_ACK" \in Early
        /\ "UNBLOCK" \in Final /\ "INV" \in Ack /\ "ACK" \in Ack
        /\ \A x \in Early : x \notin Final /\ x \notin Ack
        /\ \A x \in Final : x \notin Early /\ x \notin Ack
        /\ \A x \in Ack : x \notin Early /\ x \notin Final
        /\ co \in Early \/ co \in Final \/ co \in Ack
    BY <1>5 DEF Cos, Early, Final, Ack
  <1>10. a0 \in DOMAIN transactions
    BY <1>5, <1>7, <1>8, <1>9 DEF ModelInv, Accounted
  <1>11. PICK t : t = transactions[a0]
    OBVIOUS
  <1>12. /\ t \in Transaction(K) /\ Balance(injectionDone, t, e, f, k)
         /\ injectionDone \in BOOLEAN
    BY <1>5, <1>7, <1>10, <1>11 DEF ModelInv, OpenOK, Accounted
  <1>13. Answers(K, V, L, r, t) /\ inTransit' = Gen(K, V, L)!Without(inTransit, id)
    <2>1. r \in [id : {id}, source : K, dest : K, msg : {"REQUEST", "RESPONSE"},
                 co : Cos, address : Nat]
      BY <1>2 DEF Sending
    <2>2. QED
      BY <1>1, <1>3, <1>10, <1>11, <1>12, <2>1, AnswersIs
  <1> DEFINE U(C) == UnderIn(queue', inTransit', a0, C)
  <1>14. ASSUME NEW p \in Item(K), p.address = a0, Gen(K, V, L)!QueuePackets(<<p>>)
         PROVE  /\ Carried(K, L, a0)
                /\ \E m \in 0 .. 1 :
                     /\ m = 0 => injectionDone'
                     /\ U(Early) = e - (IF co \in Early THEN 1 ELSE 0)
                                     + (IF p.co \in Early THEN m ELSE 0)
                     /\ U(Final) = f - (IF co \in Final THEN 1 ELSE 0)
                                     + (IF p.co \in Final THEN m ELSE 0)
                     /\ U(Ack) = k - (IF co \in Ack THEN 1 ELSE 0)
                                   + (IF p.co \in Ack THEN m ELSE 0)
    <2>1. inTransit[id].address = a0 /\ inTransit[id].co = co
      BY <1>1, <1>3, <1>4
    <2>2. /\ Carried(K, L, a0)
          /\ \E m \in 0 .. 1 : /\ m = 0 => injectionDone'
                               /\ \A C : Swapped(queue', inTransit', m, p.co, co, a0, C)
      BY <1>13, <1>14, <2>1, OneAnswer, Zenon
    <2>3. PICK m \in 0 .. 1 : /\ m = 0 => injectionDone'
                              /\ \A C : Swapped(queue', inTransit', m, p.co, co, a0, C)
      BY <2>2
    <2>4. /\ U(Early) = e - (IF co \in Early THEN 1 ELSE 0)
                          + (IF p.co \in Early THEN m ELSE 0)
          /\ U(Final) = f - (IF co \in Final THEN 1 ELSE 0)
                          + (IF p.co \in Final THEN m ELSE 0)
          /\ U(Ack) = k - (IF co \in Ack THEN 1 ELSE 0)
                        + (IF p.co \in Ack THEN m ELSE 0)
      BY <1>7, <2>3 DEF Swapped
    <2>5. QED
      BY <2>2, <2>3, <2>4
  <1>15. ASSUME Gen(K, V, L)!QueuePackets(<< >>)
         PROVE  /\ Carried(K, L, a0)
                /\ U(Early) = e - (IF co \in Early THEN 1 ELSE 0)
                /\ U(Final) = f - (IF co \in Final THEN 1 ELSE 0)
                /\ U(Ack) = k - (IF co \in Ack THEN 1 ELSE 0)
    <2>1. inTransit[id].address = a0 /\ inTransit[id].co = co
      BY <1>1, <1>3, <1>4
    <2>2. Carried(K, L, a0) /\ \A C : Swapped(queue', inTransit', 0, co, co, a0, C)
      BY <1>13, <1>15, <2>1, NoAnswer
    <2>3. QED
      BY <1>7, <2>2 DEF Swapped
  <1> DEFINE Kept(u) == /\ u \in Transaction(K) /\ Carried(K, L, a0)
                        /\ \/ /\ transactions' = [transactions EXCEPT ![a0] = u]
                              /\ Balance(injectionDone', u, U(Early), U(Final), U(Ack))
                           \/ /\ transactions' =
                                   [x \in DOMAIN transactions \ {a0} |-> transactions[x]]
                              /\ U(Early) = 0 /\ U(Final) = 0 /\ U(Ack) = 0
  <1>16. ASSUME NEW u, Kept(u)
         PROVE  ModelInv(K, L)'
    BY <1>10, <1>16, Settled
  <1> HIDE DEF U
  <1>17. transactions' = transactions => transactions' = [transactions EXCEPT ![a0] = t]
    BY <1>10, <1>11 DEF ModelInv, OpenOK
  <1>18. CASE /\ co \in Early
              /\ \E p \in Item(K) : /\ p.address = a0 /\ p.co \in Early
                                    /\ Gen(K, V, L)!QueuePackets(<<p>>)
              /\ Noted(a0, t) \/ transactions' = transactions
    <2>1. PICK p \in Item(K) : /\ p.address = a0 /\ p.co \in Early
                               /\ Gen(K, V, L)!QueuePackets(<<p>>)
      BY <1>18
    <2>2. Carried(K, L, a0)
      BY <1>14, <2>1
    <2>3. PICK m \in 0 .. 1 : /\ m = 0 => injectionDone'
                              /\ U(Early) = e - 1 + m /\ U(Final) = f /\ U(Ack) = k
      BY <1>9, <1>14, <1>18, <2>1
    <2>4. ~t.data /\ e = 1 /\ f = 0
      BY <1>8, <1>12, <1>18 DEF Balance
    <2>5. transactions' = [transactions EXCEPT ![a0] = t]
      BY <1>17, <1>18, <2>4 DEF Noted
    <2>6. injectionDone => injectionDone'
      BY <2>2 DEF Carried
    <2>7. Balance(injectionDone', t, U(Early), U(Final), U(Ack))
      BY <1>12, <2>3, <2>4, <2>6 DEF Balance
    <2>8. QED
      BY <1>12, <1>16, <2>2, <2>5, <2>7
  <1>19. CASE /\ co \in Early
              /\ \E p \in Item(K), n \in Nat : \E iv : Writes(K, V, L, a0, t, p, n, iv)
    <2>1. PICK p \in Item(K), n \in Nat : \E iv : Writes(K, V, L, a0, t, p, n, iv)
      BY <1>19
    <2>2. PICK iv : Writes(K, V, L, a0, t, p, n, iv)
      BY <2>1
    <2>3. /\ p.address = a0 /\ p.co = "WRITE" /\ iv \in [1 .. n -> Item(K)]
          /\ \A i \in 1 .. n : iv[i].address = a0 /\ iv[i].co = "INV"
          /\ Gen(K, V, L)!QueuePackets(<<p>> \o iv)
          /\ inTransit[id].address = a0 /\ inTransit[id].co = co
      BY <1>1, <1>3, <1>4, <2>2 DEF Writes, AreInvalidates
    <2>4. /\ Carried(K, L, a0)
          /\ \E e2 \in 0 .. 1, k2 \in 0 .. n :
                /\ ~injectionDone' => e2 = 1 /\ k2 = n
                /\ UnderIn(queue', inTransit', a0, Early) =
                     Under(a0, Early) - (IF co \in Early THEN 1 ELSE 0) + e2
                /\ UnderIn(queue', inTransit', a0, Final) =
                     Under(a0, Final) - (IF co \in Final THEN 1 ELSE 0) + 0
                /\ UnderIn(queue', inTransit', a0, Ack) =
                     Under(a0, Ack) - (IF co \in Ack THEN 1 ELSE 0) + k2
      BY <1>13, <2>3, WriteAnswer
    <2>5. PICK e2 \in 0 .. 1, k2 \in 0 .. n :
            /\ ~injectionDone' => e2 = 1 /\ k2 = n
            /\ U(Early) = e - 1 + e2 /\ U(Final) = f /\ U(Ack) = k + k2
      BY <1>7, <1>9, <1>19, <2>4 DEF U
    <2>6. ~t.data /\ e = 1 /\ f = 0
      BY <1>8, <1>12, <1>19 DEF Balance
    <2> DEFINE u == [t EXCEPT !.invs = @ + n]
    <2>7. /\ u \in Transaction(K) /\ u.invs = t.invs + n /\ u.acks = t.acks
          /\ u.data = t.data /\ u.unblock = t.unblock
          /\ t.invs \in Nat /\ t.acks \in Nat
      BY <1>12 DEF Transaction
    <2>8. transactions' = [transactions EXCEPT ![a0] = u]
      BY <2>2 DEF Writes
    <2> HIDE DEF u
    <2>9. injectionDone => injectionDone'
      BY <2>4 DEF Carried
    <2>10. Balance(injectionDone', u, U(Early), U(Final), U(Ack))
      BY <1>12, <2>5, <2>6, <2>7, <2>9 DEF Balance
    <2>11. QED
      BY <1>16, <2>4, <2>7, <2>8, <2>10
  <1>20. CASE /\ co = "INV"
              /\ \E p \in Item(K) : /\ p.address = a0 /\ p.co = "ACK"
                                    /\ Gen(K, V, L)!QueuePackets(<<p>>)
              /\ Noted(a0, t)
    <2>1. PICK p \in Item(K) : /\ p.address = a0 /\ p.co = "ACK"
                               /\ Gen(K, V, L)!QueuePackets(<<p>>)
      BY <1>20
    <2>2. Carried(K, L, a0)
      BY <1>14, <2>1
    <2>3. PICK m \in 0 .. 1 : /\ m = 0 => injectionDone'
                              /\ U(Early) = e /\ U(Final) = f /\ U(Ack) = k - 1 + m
      <3>1. /\ co \notin Early /\ co \notin Final /\ co \in Ack
            /\ p.co \notin Early /\ p.co \notin Final /\ p.co \in Ack
        BY <1>9, <1>20, <2>1
      <3>2. \E m \in 0 .. 1 : /\ m = 0 => injectionDone'
                              /\ U(Early) = e - 0 + 0 /\ U(Final) = f - 0 + 0
                              /\ U(Ack) = k - 1 + m
        BY <1>14, <2>1, <3>1
      <3>3. QED
        BY <3>2
    <2>4. k > 0 /\ t.invs # t.acks /\ t.invs \in Nat /\ t.acks \in Nat
      BY <1>8, <1>9, <1>12, <1>20 DEF Balance, Transaction
    <2>5. transactions' = [transactions EXCEPT ![a0] = t]
      BY <1>20, <2>4 DEF Noted
    <2>6. injectionDone => injectionDone'
      BY <2>2 DEF Carried
    <2>7. Balance(injectionDone', t, U(Early), U(Final), U(Ack))
      BY <1>12, <2>3, <2>4, <2>6 DEF Balance
    <2>8. QED
      BY <1>12, <1>16, <2>2, <2>5, <2>7
  <1>21. CASE /\ co = "DATA"
              /\ \E p \in Item(K) : /\ p.address = a0 /\ p.co = "UNBLOCK"
                                    /\ Gen(K, V, L)!QueuePackets(<<p>>)
              /\ Noted(a0, [t EXCEPT !.data = TRUE])
    <2>1. PICK p \in Item(K) : /\ p.address = a0 /\ p.co = "UNBLOCK"
                               /\ Gen(K, V, L)!QueuePackets(<<p>>)
      BY <1>21
    <2>2. Carried(K, L, a0)
      BY <1>14, <2>1
    <2>3. PICK m \in 0 .. 1 : /\ m = 0 => injectionDone'
                              /\ U(Early) = e - 1 /\ U(Final) = f + m /\ U(Ack) = k
      BY <1>9, <1>14, <1>21, <2>1
    <2>4. ~t.data /\ ~t.unblock /\ e = 1 /\ f = 0
      BY <1>8, <1>9, <1>12, <1>21 DEF Balance
    <2> DEFINE u == [t EXCEPT !.data = TRUE]
    <2>5. /\ u \in Transaction(K) /\ u.invs = t.invs /\ u.acks = t.acks
          /\ u.data = TRUE /\ u.unblock = t.unblock
      BY <1>12 DEF Transaction
    <2>6. Noted(a0, u)
      BY <1>21
    <2> HIDE DEF u
    <2>7. transactions' = [transactions EXCEPT ![a0] = u]
      BY <2>4, <2>5, <2>6 DEF Noted
    <2>8. injectionDone => injectionDone'
      BY <2>2 DEF Carried
    <2>9. Balance(injectionDone', u, U(Early), U(Final), U(Ack))
      BY <1>12, <2>3, <2>4, <2>5, <2>8 DEF Balance
    <2>10. QED
      BY <1>16, <2>2, <2>5, <2>7, <2>9
  <1>22. CASE /\ co = "ACK" /\ Gen(K, V, L)!QueuePackets(<< >>)
              /\ Noted(a0, [t EXCEPT !.acks = @ + 1])
    <2>1. /\ Carried(K, L, a0)
          /\ U(Early) = e /\ U(Final) = f /\ U(Ack) = k - 1
      BY <1>9, <1>15, <1>22
    <2> DEFINE u == [t EXCEPT !.acks = @ + 1]
    <2>2. /\ u \in Transaction(K) /\ u.invs = t.invs /\ u.acks = t.acks + 1
          /\ u.data = t.data /\ u.unblock = t.unblock
          /\ t.invs \in Nat /\ t.acks \in Nat
      BY <1>12 DEF Transaction
    <2>3. Noted(a0, u)
      BY <1>22
    <2> HIDE DEF u
    <2>4. injectionDone => injectionDone'
      BY <2>1 DEF Carried
    <2>5. Balance(injectionDone', u, U(Early), U(Final), U(Ack))
      BY <1>12, <2>1, <2>2, <2>4 DEF Balance
    <2>6. CASE u.invs = u.acks /\ u.data /\ u.unblock
      <3>1. transactions' = [x \in DOMAIN transactions \ {a0} |-> transactions[x]]
        BY <2>3, <2>6 DEF Noted
      <3>2. U(Early) = 0 /\ U(Final) = 0 /\ U(Ack) = 0
        BY <1>8, <1>9, <1>12, <1>22, <2>1, <2>2, <2>6 DEF Balance
      <3>3. QED
        BY <1>16, <2>1, <2>2, <3>1, <3>2
    <2>7. CASE ~(u.invs = u.acks /\ u.data /\ u.unblock)
      <3>1. transactions' = [transactions EXCEPT ![a0] = u]
        BY <2>3, <2>7 DEF Noted
      <3>2. QED
        BY <1>16, <2>1, <2>2, <2>5, <3>1
    <2>8. QED
      BY <2>6, <2>7
  <1>23. CASE /\ co = "UNBLOCK" /\ Gen(K, V, L)!QueuePackets(<< >>)
              /\ Noted(a0, [t EXCEPT !.unblock = TRUE])
    <2>1. /\ Carried(K, L, a0)
          /\ U(Early) = e /\ U(Final) = f - 1 /\ U(Ack) = k
      BY <1>9, <1>15, <1>23
    <2>2. e = 0 /\ f = 1 /\ t.data
      BY <1>8, <1>9, <1>12, <1>23 DEF Balance
    <2> DEFINE u == [t EXCEPT !.unblock = TRUE]
    <2>3. /\ u \in Transaction(K) /\ u.invs = t.invs /\ u.acks = t.acks
          /\ u.data = t.data /\ u.unblock = TRUE
          /\ t.invs \in Nat /\ t.acks \in Nat
      BY <1>12 DEF Transaction
    <2>4. Noted(a0, u)
      BY <1>23
    <2> HIDE DEF u
    <2>5. injectionDone => injectionDone'
      BY <2>1 DEF Carried
    <2>6. Balance(injectionDone', u, U(Early), U(Final), U(Ack))
      BY <1>12, <2>1, <2>2, <2>3, <2>5 DEF Balance
    <2>7. CASE u.invs = u.acks /\ u.data /\ u.unblock
      <3>1. transactions' = [x \in DOMAIN transactions \ {a0} |-> transactions[x]]
        BY <2>4, <2>7 DEF Noted
      <3>2. U(Early) = 0 /\ U(Final) = 0 /\ U(Ack) = 0
        BY <1>12, <2>1, <2>2, <2>3, <2>7 DEF Balance
      <3>3. QED
        BY <1>16, <2>1, <2>3, <3>1, <3>2
    <2>8. CASE ~(u.invs = u.acks /\ u.data /\ u.unblock)
      <3>1. transactions' = [transactions EXCEPT ![a0] = u]
        BY <2>4, <2>8 DEF Noted
      <3>2. QED
        BY <1>16, <2>1, <2>3, <2>6, <3>1
    <2>9. QED
      BY <2>7, <2>8
  <1>24. CASE /\ co \in Early /\ Gen(K, V, L)!QueuePackets(<< >>)
              /\ Noted(a0, t)
    <2>1. /\ Carried(K, L, a0)
          /\ U(Early) = e - 1 /\ U(Final) = f /\ U(Ack) = k
      BY <1>9, <1>15, <1>24
    <2>2. ~t.data /\ e = 1 /\ f = 0
      BY <1>8, <1>12, <1>24 DEF Balance
    <2>3. transactions' = [transactions EXCEPT ![a0] = t]
      BY <1>24, <2>2 DEF Noted
    <2>4. injectionDone => injectionDone'
      BY <2>1 DEF Carried
    <2>5. Balance(injectionDone', t, U(Early), U(Final), U(Ack))
      BY <1>12, <2>1, <2>2, <2>4 DEF Balance
    <2>6. QED
      BY <1>12, <1>16, <2>1, <2>3, <2>5
  <1>25. QED
    BY <1>3, <1>4, <1>13, <1>18, <1>19, <1>20, <1>21, <1>22, <1>23, <1>24 DEF Answers


\* What the lists of operations of a model file may hold.
VolumesOK(V) ==
  \A h \in HierClasses \cup {1}, c \in Classes \cup {1} :
    \A v \in V[h][c] : v \in Seq({"READ", "WRITE", "PUTC", "PUTD"})

\* Operations without a transaction leave the accounts as they are.
LEMMA InitiateKeeps ==
    ASSUME PlayersAssumption, NEW CONSTANT K, NEW CONSTANT V, NEW CONSTANT L,
           L \in BOOLEAN, ModelInv(K, L), UNCHANGED <<messageId, inTransit, transactions>>,
           NEW ps \in Seq(Item(K)),
           \A i \in 1 .. Len(ps) : /\ ps[i].address = -1
                                   /\ ps[i].co \in {"READ", "WRITE", "PUTC", "PUTD"},
           Gen(K, V, L)!QueuePackets(ps)
    PROVE  /\ QueueOK(K)' /\ totalQueued' \in Nat /\ injectionDone' \in BOOLEAN
           /\ L => totalQueued' <= MaxPck
           /\ \A a \in Nat : Accounted(a)'
  <1>1. /\ messageId \in Nat /\ totalQueued \in Nat /\ injectionDone \in BOOLEAN
        /\ (L => totalQueued <= MaxPck)
        /\ QueueOK(K) /\ TransitOK(K)
        /\ \A a \in Nat : Accounted(a)
        /\ queue \in [Slots -> Seq(Item(K))]
    BY DEF ModelInv, QueueOK
  <1>2. \A a, C : Travels(a, C)' = Travels(a, C)
    BY DEF Travels
  <1>3. /\ Len(ps) \in Nat
        /\ \A i \in 1 .. Len(ps) : /\ ps[i].address = -1
                                   /\ ps[i].co \in {"READ", "WRITE", "PUTC", "PUTD"}
    OBVIOUS
  <1>8. /\ queue' \in [Slots -> Seq(Item(K))]
        /\ totalQueued' \in Nat /\ injectionDone' \in BOOLEAN
        /\ L => totalQueued' <= MaxPck
        /\ injectionDone => injectionDone'
        /\ SomePushed(ps)
    BY <1>1, PushCounts
  <1>9. PICK m \in 0 .. Len(ps) : Pushed(ps, m)
    BY <1>8 DEF SomePushed
  <1>10. QueueOK(K)'
    <2>1. ASSUME NEW t \in Slots, NEW i \in DOMAIN queue'[t]
          PROVE  /\ queue'[t][i].address \in -1 .. messageId - 1
                 /\ queue'[t][i].address = -1 =>
                      queue'[t][i].co \in {"READ", "WRITE", "PUTC", "PUTD"}
      <3>1. \/ i \in DOMAIN queue[t] /\ queue'[t][i] = queue[t][i]
            \/ \E j \in 1 .. m : queue'[t][i] = ps[j]
        BY <1>9 DEF Pushed, OnlyAdds
      <3>2. CASE i \in DOMAIN queue[t] /\ queue'[t][i] = queue[t][i]
        BY <1>1, <3>2 DEF QueueOK
      <3>3. CASE \E j \in 1 .. m : queue'[t][i] = ps[j]
        BY <1>1, <1>3, <3>3
      <3>4. QED
        BY <3>1, <3>2, <3>3
    <2>2. QED
      BY <1>8, <2>1 DEF QueueOK
  <1>11. ASSUME NEW a \in Nat, NEW C
         PROVE  Under(a, C)' = Under(a, C)
    <2>1. m \in Nat /\ \A i \in 1 .. m : ps[i].address # a \/ ps[i].co \notin C
      BY <1>3
    <2>2. Cardinality(Marked(ps, m, a, C)) = 0
      BY <2>1, MarkedNone
    <2>3. Grows(queue', ps, m, a, C)
      BY <1>9 DEF Pushed
    <2>4. Cardinality(Waits(a, C)) \in Nat
      BY <1>1, UnderNat
    <2>5. Cardinality(Waits(a, C)') = Cardinality(Waits(a, C))
      BY <2>2, <2>3, <2>4 DEF Grows, Waits
    <2>6. QED
      BY <1>2, <2>5 DEF Under
  <1>12. ASSUME NEW a \in Nat PROVE Accounted(a)'
    <2>1. /\ Under(a, Early)' = Under(a, Early) /\ Under(a, Final)' = Under(a, Final)
          /\ Under(a, Ack)' = Under(a, Ack)
      BY <1>11
    <2>2. Accounted(a)
      BY <1>1
    <2>3. QED
      BY <1>8, <2>1, <2>2 DEF Accounted, Balance
  <1>13. QED
    BY <1>8, <1>10, <1>12

\* The operations of an interval are queued without a transaction.
LEMMA IntervalKeeps ==
    ASSUME PlayersAssumption, NEW CONSTANT K, NEW CONSTANT V, NEW CONSTANT L,
           L \in BOOLEAN, VolumesOK(V), ModelInv(K, L), cycle \in 0 .. Horizon,
           Gen(K, V, L)!Interval, UNCHANGED <<hierClass, messageId, inTransit, transactions>>
    PROVE  ModelInv(K, L)'
  <1>1. /\ messageId \in Nat /\ totalQueued \in Nat /\ injectionDone \in BOOLEAN
        /\ hierClass \in HierClasses \cup {1} /\ state \in Classes \cup {1}
        /\ (L => totalQueued <= MaxPck)
        /\ QueueOK(K) /\ TransitOK(K) /\ OpenOK(K)
        /\ \A a \in Nat : Accounted(a)
        /\ queue \in [Slots -> Seq(Item(K))]
    BY DEF ModelInv, QueueOK
  <1>2. TransitOK(K)' /\ OpenOK(K)' /\ \A a, C : Travels(a, C)' = Travels(a, C)
    BY <1>1 DEF TransitOK, OpenOK, Sending, Transaction, Travels
  <1>3. CASE cycle >= nextInterval
    <2>1. state' \in Classes \cup {1}
      BY <1>1, <1>3 DEF Gen!Interval
    <2>2. PICK v \in V[hierClass][state'] : Gen(K, V, L)!UniformInject(v)
      BY <1>3 DEF Gen!Interval
    <2>3. v \in Seq({"READ", "WRITE", "PUTC", "PUTD"})
      BY <1>1, <2>1 DEF VolumesOK
    <2>4. PICK delta \in [DOMAIN v -> Gen(K, V, L)!Deltas],
               src \in [DOMAIN v -> Gen(K, V, L)!Caches],
               dst \in [DOMAIN v -> Gen(K, V, L)!Directories] :
            Gen(K, V, L)!QueuePackets([i \in DOMAIN v |->
              Gen(K, V, L)!Packet(src[i], dst[i], "REQUEST", v[i], cycle + delta[i], -1)])
      BY <2>2 DEF Gen!UniformInject, Gen!NoAddress
    <2>14. PICK ps : ps = [i \in DOMAIN v |->
              Gen(K, V, L)!Packet(src[i], dst[i], "REQUEST", v[i], cycle + delta[i], -1)]
      OBVIOUS
    <2>5. ASSUME NEW i \in DOMAIN v
          PROVE  /\ ps[i] \in Item(K) /\ ps[i].address = -1
                 /\ ps[i].co \in {"READ", "WRITE", "PUTC", "PUTD"}
      <3>1. src[i] \in K /\ dst[i] \in K
        BY DEF Gen!Caches, Gen!Directories
      <3>2. cycle + delta[i] \in Slots
        <4>1. delta[i] \in Gen(K, V, L)!Deltas
          OBVIOUS
        <4>2. PICK j \in 0 .. (Resolution \div 2) - 1 : delta[i] = 2 * j
          BY <4>1 DEF Gen!Deltas
        <4>3. Resolution \in Nat /\ Horizon \in Nat /\ MemDelay \in Nat
          BY PlayersAssumption DEF PlayersAssumption, Lib!WrapperAssumption, Lib!ModelAssumption
        <4>4. 2 * (Resolution \div 2) <= Resolution /\ Resolution \div 2 \in Nat
          BY <4>3
        <4>5. j \in Nat /\ j <= (Resolution \div 2) - 1
          BY <4>4
        <4>6. 2 * j <= Resolution
          BY <4>3, <4>4, <4>5
        <4>7. QED
          BY <4>2, <4>3, <4>5, <4>6 DEF Slots
      <3>3. v[i] \in {"READ", "WRITE", "PUTC", "PUTD"} /\ v[i] \in Cos
        BY <2>3 DEF Cos, Early, Final, Ack
      <3>4. QED
        BY <2>14, <3>1, <3>2, <3>3 DEF Gen!Packet, Item
    <2>6. /\ ps \in Seq(Item(K)) /\ DOMAIN ps = 1 .. Len(ps)
          /\ \A i \in 1 .. Len(ps) : /\ ps[i].address = -1
                                     /\ ps[i].co \in {"READ", "WRITE", "PUTC", "PUTD"}
      <3>1. DOMAIN v = 1 .. Len(v) /\ Len(v) \in Nat
        BY <2>3
      <3>2. ps \in Seq(Item(K)) /\ Len(ps) = Len(v)
        BY <2>5, <2>14, <3>1
      <3>3. QED
        BY <2>5, <2>14, <3>1, <3>2
    <2>7. Gen(K, V, L)!QueuePackets(ps)
      BY <2>4, <2>14
    <2>8. /\ QueueOK(K)' /\ totalQueued' \in Nat /\ injectionDone' \in BOOLEAN
          /\ L => totalQueued' <= MaxPck
          /\ \A a \in Nat : Accounted(a)'
      BY <2>6, <2>7, InitiateKeeps
    <2>13. QED
      BY <1>1, <1>2, <2>1, <2>8 DEF ModelInv
  <1>4. CASE ~(cycle >= nextInterval)
    <2>1. UNCHANGED <<state, queue, totalQueued, injectionDone>>
      BY <1>4 DEF Gen!Interval
    <2>2. ASSUME NEW a \in Nat PROVE Accounted(a)'
      <3>1. \A C : Under(a, C)' = Under(a, C)
        BY <2>1 DEF Under, Waits, Travels
      <3>2. Accounted(a)
        BY <1>1
      <3>3. QED
        BY <2>1, <3>1, <3>2 DEF Accounted, Balance
    <2>3. QueueOK(K)'
      BY <1>1, <2>1 DEF QueueOK
    <2>4. QED
      BY <1>1, <1>2, <2>1, <2>2, <2>3 DEF ModelInv
  <1>5. QED
    BY <1>3, <1>4

\* Sending opens the transactions of the packets that have none.
LEMMA SendKeeps ==
    ASSUME PlayersAssumption, NEW CONSTANT K, NEW CONSTANT V, NEW CONSTANT L,
           ModelInv(K, L), cycle \in 0 .. Horizon, Gen(K, V, L)!sendPackets,
           UNCHANGED <<totalQueued, injectionDone, hierClass, state>>
    PROVE  ModelInv(K, L)'
  <1> DEFINE n == Len(queue[cycle])
             opened == {i \in 1 .. n : Numbered(i).address = Numbered(i).id}
             place(i) == messageId + i - 1
  <1>1. /\ messageId \in Nat /\ totalQueued \in Nat /\ injectionDone \in BOOLEAN
        /\ hierClass \in HierClasses \cup {1} /\ state \in Classes \cup {1}
        /\ (L => totalQueued <= MaxPck)
        /\ QueueOK(K) /\ TransitOK(K) /\ OpenOK(K)
        /\ \A a \in Nat : Accounted(a)
    BY DEF ModelInv
  <1>2. cycle \in Slots
    BY PlayersAssumption DEF PlayersAssumption, Lib!WrapperAssumption, Lib!ModelAssumption, Slots
  <1>3. /\ queue \in [Slots -> Seq(Item(K))]
        /\ DOMAIN inTransit \subseteq 0 .. messageId - 1
        /\ DOMAIN transactions \subseteq 0 .. messageId - 1
        /\ \A t \in Slots : \A i \in DOMAIN queue[t] :
             queue[t][i].address \in -1 .. messageId - 1
        /\ \A m \in DOMAIN inTransit : inTransit[m].address \in 0 .. messageId - 1
    BY <1>1 DEF QueueOK, TransitOK, OpenOK, Sending
  <1>4. /\ n \in Nat /\ DOMAIN queue[cycle] = 1 .. n
        /\ messageId' = messageId + n
        /\ queue' = [queue EXCEPT ![cycle] = <<>>]
        /\ DOMAIN inTransit' = DOMAIN inTransit \cup {place(i) : i \in 1 .. n}
        /\ \A m \in DOMAIN inTransit : inTransit'[m] = inTransit[m]
        /\ \A i \in 1 .. n : inTransit'[place(i)] = Numbered(i)
        /\ DOMAIN transactions' = DOMAIN transactions \cup {place(i) : i \in opened}
        /\ \A b \in DOMAIN transactions : transactions'[b] = transactions[b]
        /\ \A i \in opened : transactions'[place(i)] =
             [source |-> Numbered(i).source, dest |-> Numbered(i).dest,
              invs |-> 0, acks |-> 0, data |-> FALSE, unblock |-> FALSE]
    BY <1>1, <1>2, <1>3, SendIs
  <1> HIDE DEF n
  <1>12. queue' = [queue EXCEPT ![cycle] = <<>>]
    BY <1>4
  <1>13. \A i \in opened : transactions'[place(i)] =
             [source |-> Numbered(i).source, dest |-> Numbered(i).dest,
              invs |-> 0, acks |-> 0, data |-> FALSE, unblock |-> FALSE]
    BY <1>4
  <1>5. ASSUME NEW i \in 1 .. n
        PROVE  /\ queue[cycle][i] \in Item(K)
               /\ queue[cycle][i].address \in -1 .. messageId - 1
               /\ queue[cycle][i].address = -1 =>
                    queue[cycle][i].co \in {"READ", "WRITE", "PUTC", "PUTD"}
               /\ place(i) \in messageId .. messageId + n - 1
               /\ Numbered(i).source \in K /\ Numbered(i).dest \in K
               /\ Numbered(i).msg \in {"REQUEST", "RESPONSE"} /\ Numbered(i).co \in Cos
               /\ Numbered(i).id = place(i)
               /\ Numbered(i).address \in 0 .. messageId + n - 1
               /\ i \in opened <=> queue[cycle][i].address = -1
    <2>1. /\ queue[cycle][i] \in Item(K)
          /\ queue[cycle][i].address \in -1 .. messageId - 1
          /\ queue[cycle][i].address = -1 =>
               queue[cycle][i].co \in {"READ", "WRITE", "PUTC", "PUTD"}
      BY <1>1, <1>2, <1>4 DEF QueueOK
    <2>2. place(i) \in messageId .. messageId + n - 1
      BY <1>1, <1>4
    <2>3. /\ Numbered(i).source = queue[cycle][i].source
          /\ Numbered(i).dest = queue[cycle][i].dest
          /\ Numbered(i).msg = queue[cycle][i].msg /\ Numbered(i).co = queue[cycle][i].co
          /\ Numbered(i).id = place(i)
          /\ Numbered(i).address =
               IF queue[cycle][i].address = -1 THEN place(i) ELSE queue[cycle][i].address
      BY DEF Numbered
    <2>4. /\ queue[cycle][i].source \in K /\ queue[cycle][i].dest \in K
          /\ queue[cycle][i].msg \in {"REQUEST", "RESPONSE"} /\ queue[cycle][i].co \in Cos
      BY <2>1 DEF Item
    <2>5. Numbered(i).address \in 0 .. messageId + n - 1
      BY <1>1, <1>4, <2>1, <2>2, <2>3
    <2>6. i \in opened <=> queue[cycle][i].address = -1
      BY <1>1, <1>4, <2>1, <2>2, <2>3
    <2>7. QED
      BY <2>1, <2>2, <2>3, <2>4, <2>5, <2>6
  <1>6. /\ opened \subseteq 1 .. n
        /\ \A i, j \in 1 .. n : place(i) = place(j) => i = j
    BY <1>1, <1>4
  <1> HIDE DEF opened, place
  <1>7. QueueOK(K)'
    <2>1. queue' \in [Slots -> Seq(Item(K))]
      <3>1. << >> \in Seq(Item(K))
        OBVIOUS
      <3>2. \A t \in Slots : queue[t] \in Seq(Item(K))
        BY <1>3
      <3>3. /\ DOMAIN queue' = Slots
            /\ \A t \in Slots : queue'[t] = IF t = cycle THEN << >> ELSE queue[t]
        BY <1>3, <1>12
      <3>4. queue' = [t \in Slots |-> queue'[t]]
        BY <1>3, <1>12
      <3>5. QED
        BY <3>1, <3>2, <3>3, <3>4
    <2>2. ASSUME NEW t \in Slots, NEW i \in DOMAIN queue'[t]
          PROVE  /\ queue'[t][i].address \in -1 .. messageId' - 1
                 /\ queue'[t][i].address = -1 =>
                      queue'[t][i].co \in {"READ", "WRITE", "PUTC", "PUTD"}
      <3>1. t # cycle /\ queue'[t] = queue[t]
        BY <1>3, <1>12
      <3>2. /\ queue[t][i].address \in -1 .. messageId - 1
            /\ queue[t][i].address = -1 => queue[t][i].co \in {"READ", "WRITE", "PUTC", "PUTD"}
        BY <1>1, <3>1 DEF QueueOK
      <3>3. QED
        BY <1>1, <1>4, <3>1, <3>2
    <2>3. QED
      BY <2>1, <2>2 DEF QueueOK
  <1>8. TransitOK(K)'
    <2>1. DOMAIN inTransit' \subseteq 0 .. messageId' - 1
      BY <1>1, <1>3, <1>4, <1>5
    <2>2. ASSUME NEW m \in DOMAIN inTransit'
          PROVE  inTransit'[m] \in [id : {m}, source : K, dest : K,
                                    msg : {"REQUEST", "RESPONSE"}, co : Cos,
                                    address : 0 .. messageId' - 1]
      <3>1. CASE m \in DOMAIN inTransit
        <4>1. inTransit[m] \in Sending(K, m) /\ inTransit'[m] = inTransit[m]
          BY <1>1, <1>4, <3>1 DEF TransitOK
        <4>2. 0 .. messageId - 1 \subseteq 0 .. messageId' - 1
          BY <1>1, <1>4
        <4>3. QED
          BY <4>1, <4>2 DEF Sending
      <3>2. CASE \E i \in 1 .. n : m = place(i)
        <4>1. PICK i \in 1 .. n : m = place(i)
          BY <3>2
        <4>2. inTransit'[m] = Numbered(i)
          BY <1>4, <4>1
        <4>3. QED
          BY <1>1, <1>4, <1>5, <4>1, <4>2 DEF Numbered
      <3>3. QED
        BY <1>4, <3>1, <3>2
    <2>3. QED
      BY <2>1, <2>2 DEF TransitOK, Sending
  <1>9. OpenOK(K)'
    <2>1. DOMAIN transactions' \subseteq 0 .. messageId' - 1
      BY <1>1, <1>3, <1>4, <1>5, <1>6
    <2>2. ASSUME NEW b \in DOMAIN transactions'
          PROVE  transactions'[b] \in Transaction(K)
      <3>1. CASE b \in DOMAIN transactions
        BY <1>1, <1>4, <3>1 DEF OpenOK
      <3>2. CASE \E i \in opened : b = place(i)
        <4>1. PICK i \in opened : b = place(i)
          BY <3>2
        <4>2. transactions'[b] = [source |-> Numbered(i).source, dest |-> Numbered(i).dest,
                                  invs |-> 0, acks |-> 0, data |-> FALSE, unblock |-> FALSE]
          BY <1>13, <4>1
        <4>3. Numbered(i).source \in K /\ Numbered(i).dest \in K
          BY <1>5, <1>6
        <4>4. QED
          BY <4>2, <4>3 DEF Transaction
      <3>3. QED
        BY <1>4, <3>1, <3>2
    <2>3. transactions' = [b \in DOMAIN transactions' |-> transactions'[b]]
      BY DEF Gen!sendPackets
    <2>4. QED
      BY <2>1, <2>2, <2>3 DEF OpenOK, Transaction
  <1>10. ASSUME NEW a \in Nat PROVE Accounted(a)'
    <2>1. ASSUME NEW C
          PROVE  /\ a < messageId => Under(a, C)' = Under(a, C)
                 /\ a >= messageId =>
                      \/ Under(a, C)' = 0
                      \/ \E i \in 1 .. n :
                           /\ a = place(i) /\ queue[cycle][i].address = -1
                           /\ Under(a, C)' = IF queue[cycle][i].co \in C THEN 1 ELSE 0
      BY <1>1, <1>2, <1>3, <1>4, SendCounts DEF place
    <2>2. CASE a < messageId
      <3>1. /\ a \in DOMAIN transactions' <=> a \in DOMAIN transactions
            /\ a \in DOMAIN transactions => transactions'[a] = transactions[a]
        BY <1>1, <1>4, <1>5, <1>6, <2>2
      <3>2. /\ Under(a, Early)' = Under(a, Early) /\ Under(a, Final)' = Under(a, Final)
            /\ Under(a, Ack)' = Under(a, Ack)
        BY <2>1, <2>2
      <3>3. Accounted(a)
        BY <1>1
      <3>4. QED
        BY <3>1, <3>2, <3>3 DEF Accounted, Balance
    <2>3. CASE a >= messageId
      <3>1. a \notin DOMAIN transactions
        BY <1>1, <1>3, <2>3
      <3>2. CASE \E i \in opened : a = place(i)
        <4>1. PICK i \in opened : a = place(i)
          BY <3>2
        <4>2. \A j \in 1 .. n : a = place(j) => j = i
          BY <1>6, <4>1
        <4>3. queue[cycle][i].co \in {"READ", "WRITE", "PUTC", "PUTD"}
          BY <1>5, <1>6
        <4>4. /\ queue[cycle][i].co \in Early /\ queue[cycle][i].co \notin Final
              /\ queue[cycle][i].co \notin Ack
          BY <4>3 DEF Early, Final, Ack
        <4>5. Under(a, Early)' \in {0, 1} /\ Under(a, Final)' = 0 /\ Under(a, Ack)' = 0
          BY <2>1, <2>3, <4>2, <4>4
        <4>6. /\ a \in DOMAIN transactions'
              /\ transactions'[a].invs = 0 /\ transactions'[a].acks = 0
              /\ transactions'[a].data = FALSE /\ transactions'[a].unblock = FALSE
          <5>1. transactions'[a] = [source |-> Numbered(i).source, dest |-> Numbered(i).dest,
                                    invs |-> 0, acks |-> 0, data |-> FALSE, unblock |-> FALSE]
            BY <1>13, <4>1
          <5>2. a \in DOMAIN transactions'
            BY <1>4, <4>1
          <5>3. QED
            BY <5>1, <5>2
        <4>7. QED
          BY <4>5, <4>6 DEF Accounted, Balance
      <3>3. CASE ~\E i \in opened : a = place(i)
        <4>1. a \notin DOMAIN transactions'
          BY <1>4, <3>1, <3>3
        <4>2. \A j \in 1 .. n : a = place(j) => queue[cycle][j].address # -1
          BY <1>5, <3>3
        <4>3. Under(a, Early)' = 0 /\ Under(a, Final)' = 0 /\ Under(a, Ack)' = 0
          BY <2>1, <2>3, <4>2
        <4>4. QED
          BY <4>1, <4>3 DEF Accounted
      <3>4. QED
        BY <3>2, <3>3
    <2>4. QED
      BY <1>1, <2>2, <2>3
  <1>11. QED
    BY <1>1, <1>4, <1>7, <1>8, <1>9, <1>10 DEF ModelInv

\* The steps of the model in the library, and the same in the generator.
LEMMA LibSteps ==
  /\ \A n : Lib!react(n) => Gen(LibNodes, LibVolumes, TRUE)!react(n)
  /\ Lib!Interval => Gen(LibNodes, LibVolumes, TRUE)!Interval
  /\ Lib!sendPackets => Gen(LibNodes, LibVolumes, TRUE)!sendPackets
  <1> USE DEF Lib!QueuePackets, Gen!QueuePackets, Lib!Room, Gen!Room, Lib!Enqueue, Gen!Enqueue,
        Lib!Times, Gen!Times, Lib!Select, Gen!Select, Lib!ElementsAt, Gen!ElementsAt,
        Lib!InOrder, Gen!InOrder, Lib!Cardinality, Gen!Cardinality, Lib!Packet, Gen!Packet,
        Lib!Caches, Gen!Caches
  <1>1. ASSUME NEW n, Lib!react(n) PROVE Gen(LibNodes, LibVolumes, TRUE)!react(n)
    BY <1>1, Zenon
       DEF Lib!react, Gen!react, Lib!Initiating, Gen!Initiating, Lib!AccessMemory,
           Gen!AccessMemory, Lib!Without, Gen!Without, Lib!ForwardRequest, Gen!ForwardRequest,
           Lib!Respond, Gen!Respond, Lib!InvSets, Gen!InvSets, Lib!Record, Gen!Record,
           Lib!Reply, Gen!Reply, Lib!Request, Gen!Request, Lib!Completed, Gen!Completed,
           Lib!Forwarded, Gen!Forwarded
  <1>2. ASSUME Lib!Interval PROVE Gen(LibNodes, LibVolumes, TRUE)!Interval
    BY <1>2, Zenon
       DEF Lib!Interval, Gen!Interval, Lib!UniformInject, Gen!UniformInject, Lib!Deltas,
           Gen!Deltas, Lib!NoAddress, Gen!NoAddress, Lib!Directories, Gen!Directories
  <1>3. ASSUME Lib!sendPackets PROVE Gen(LibNodes, LibVolumes, TRUE)!sendPackets
    BY <1>3, Zenon
       DEF Lib!sendPackets, Gen!sendPackets, Lib!Sent, Gen!Sent, Lib!NoAddress, Gen!NoAddress,
           Lib!transaction_t, Gen!transaction_t
  <1>4. QED
    BY <1>1, <1>2, <1>3

\* The same for the stand-alone generator.
LEMMA SocSteps ==
  /\ \A n : Soc!react(n) => Gen(SocNodes, SocVolumes, FALSE)!react(n)
  /\ Soc!Interval => Gen(SocNodes, SocVolumes, FALSE)!Interval
  /\ Soc!sendPackets => Gen(SocNodes, SocVolumes, FALSE)!sendPackets
  <1> USE DEF Soc!QueuePackets, Gen!QueuePackets, Soc!Room, Gen!Room, Soc!Enqueue, Gen!Enqueue,
        Soc!Times, Gen!Times, Soc!Select, Gen!Select, Soc!ElementsAt, Gen!ElementsAt,
        Soc!InOrder, Gen!InOrder, Soc!Cardinality, Gen!Cardinality, Soc!Packet, Gen!Packet,
        Soc!Caches, Gen!Caches
  <1>1. ASSUME NEW n, Soc!react(n) PROVE Gen(SocNodes, SocVolumes, FALSE)!react(n)
    BY <1>1, Zenon
       DEF Soc!react, Gen!react, Soc!Initiating, Gen!Initiating, Soc!AccessMemory,
           Gen!AccessMemory, Soc!Without, Gen!Without, Soc!ForwardRequest, Gen!ForwardRequest,
           Soc!Respond, Gen!Respond, Soc!InvSets, Gen!InvSets, Soc!Record, Gen!Record,
           Soc!Reply, Gen!Reply, Soc!Request, Gen!Request, Soc!Completed, Gen!Completed,
           Soc!Forwarded, Gen!Forwarded
  <1>2. ASSUME Soc!Interval PROVE Gen(SocNodes, SocVolumes, FALSE)!Interval
    BY <1>2, Zenon
       DEF Soc!Interval, Gen!Interval, Soc!UniformInject, Gen!UniformInject, Soc!Deltas,
           Gen!Deltas, Soc!NoAddress, Gen!NoAddress, Soc!Directories, Gen!Directories
  <1>3. ASSUME Soc!sendPackets PROVE Gen(SocNodes, SocVolumes, FALSE)!sendPackets
    BY <1>3, Zenon
       DEF Soc!sendPackets, Gen!sendPackets, Soc!Sent, Gen!Sent, Soc!NoAddress, Gen!NoAddress,
           Soc!transaction_t, Gen!transaction_t
  <1>4. QED
    BY <1>1, <1>2, <1>3

\* Steps outside the model keep its accounts.
LEMMA ModelStays ==
    ASSUME NEW K, NEW L, ModelInv(K, L),
           UNCHANGED <<injectionDone, totalQueued, messageId, inTransit, transactions, queue>>,
           hierClass' \in HierClasses \cup {1}, state' \in Classes \cup {1}
    PROVE  ModelInv(K, L)'
  <1>1. \A a, C : Under(a, C)' = Under(a, C)
    BY DEF Under, Waits, Travels
  <1>2. ASSUME NEW a \in Nat PROVE Accounted(a)'
    <2>1. Accounted(a)
      BY DEF ModelInv
    <2>2. QED
      BY <1>1, <2>1 DEF Accounted, Balance
  <1>3. QueueOK(K)' /\ TransitOK(K)' /\ OpenOK(K)'
    BY DEF ModelInv, QueueOK, TransitOK, OpenOK, Sending, Transaction
  <1>4. QED
    BY <1>2, <1>3 DEF ModelInv

\* The model starts with no message.
LEMMA ModelStarts ==
    ASSUME PlayersAssumption, NEW K, NEW L,
           hierClass = 1, state = 1, injectionDone = FALSE, totalQueued = 0, messageId = 0,
           inTransit = <<>>, transactions = <<>>, queue = [t \in Slots |-> <<>>]
    PROVE  ModelInv(K, L)
  <1>1. QueueOK(K) /\ TransitOK(K) /\ OpenOK(K)
    BY DEF QueueOK, TransitOK, OpenOK
  <1>2. ASSUME NEW a, NEW C PROVE Under(a, C) = 0
    <2>1. Waits(a, C) = {} /\ Travels(a, C) = {}
      BY DEF Waits, WaitsIn, WaitingIn, Travels
    <2>2. QED
      BY <2>1, FS_EmptySet DEF Under
  <1>3. \A a \in Nat : Accounted(a)
    BY <1>2 DEF Accounted
  <1>4. totalQueued <= MaxPck /\ messageId \in Nat /\ totalQueued \in Nat
    <2>1. MaxPck \in Nat
      BY PlayersAssumption DEF PlayersAssumption, Lib!WrapperAssumption, Lib!ModelAssumption
    <2>2. QED
      BY <2>1
  <1>5. injectionDone \in BOOLEAN /\ hierClass \in {1} /\ state \in {1}
    BY Zenon
  <1>6. QED
    BY <1>1, <1>3, <1>4, <1>5, Zenon DEF ModelInv

\* What the accounts say of the messages under way.
LEMMA AccountsHold ==
    ASSUME PlayersAssumption, NEW K, NEW L, ModelInv(K, L)
    PROVE  /\ \A n \in DOMAIN inTransit : inTransit[n].address \in DOMAIN transactions
           /\ \A w \in WaitingIn(queue) :
                queue[w[1]][w[2]].address \in DOMAIN transactions \cup {-1}
           /\ \A a \in DOMAIN transactions :
                /\ Under(a, Ack) <= transactions[a].invs - transactions[a].acks
                /\ ~injectionDone =>
                     Under(a, Ack) = transactions[a].invs - transactions[a].acks
  <1>1. /\ messageId \in Nat /\ QueueOK(K) /\ TransitOK(K) /\ OpenOK(K)
        /\ \A a \in Nat : Accounted(a)
    BY DEF ModelInv
  <1>2. ASSUME NEW a \in Nat, NEW C, Waits(a, C) # {} \/ Travels(a, C) # {}
        PROVE  Under(a, C) # 0
    <2>1. /\ IsFiniteSet(Waits(a, C)) /\ Cardinality(Waits(a, C)) \in Nat
          /\ IsFiniteSet(Travels(a, C)) /\ Cardinality(Travels(a, C)) \in Nat
      BY <1>1, UnderNat
    <2>2. Cardinality(Waits(a, C)) # 0 \/ Cardinality(Travels(a, C)) # 0
      BY <1>2, <2>1, FS_EmptySet
    <2>3. QED
      BY <2>1, <2>2 DEF Under
  <1>3. ASSUME NEW a \in Nat, NEW co \in Cos,
               \A C : co \in C => Waits(a, C) # {} \/ Travels(a, C) # {}
        PROVE  a \in DOMAIN transactions
    <2>1. co \in Early \/ co \in Final \/ co \in Ack
      BY DEF Cos
    <2>2. Under(a, Early) # 0 \/ Under(a, Final) # 0 \/ Under(a, Ack) # 0
      BY <1>2, <1>3, <2>1
    <2>3. QED
      BY <1>1, <2>2 DEF Accounted
  <1>4. ASSUME NEW n \in DOMAIN inTransit
        PROVE  inTransit[n].address \in DOMAIN transactions
    <2>1. inTransit[n].address \in Nat /\ inTransit[n].co \in Cos
      BY <1>1 DEF TransitOK, Sending
    <2>2. \A C : inTransit[n].co \in C => n \in Travels(inTransit[n].address, C)
      BY DEF Travels
    <2>3. QED
      BY <1>3, <2>1, <2>2
  <1>5. ASSUME NEW w \in WaitingIn(queue)
        PROVE  queue[w[1]][w[2]].address \in DOMAIN transactions \cup {-1}
    <2>1. w[1] \in Slots /\ w[2] \in DOMAIN queue[w[1]]
      BY WaitingPlaces
    <2>2. /\ queue[w[1]][w[2]].address \in -1 .. messageId - 1
          /\ queue[w[1]][w[2]].co \in Cos
      <3>1. queue[w[1]] \in Seq(Item(K))
        BY <1>1, <2>1 DEF QueueOK
      <3>2. queue[w[1]][w[2]] \in Item(K)
        BY <2>1, <3>1
      <3>3. QED
        BY <1>1, <2>1, <3>2 DEF QueueOK, Item
    <2>3. ASSUME queue[w[1]][w[2]].address # -1
          PROVE  queue[w[1]][w[2]].address \in DOMAIN transactions
      <3>1. queue[w[1]][w[2]].address \in Nat
        BY <1>1, <2>2, <2>3
      <3>2. \A C : queue[w[1]][w[2]].co \in C => w \in Waits(queue[w[1]][w[2]].address, C)
        BY DEF Waits, WaitsIn
      <3>3. QED
        BY <1>3, <2>2, <3>1, <3>2
    <2>4. QED
      BY <2>3
  <1>6. ASSUME NEW a \in DOMAIN transactions
        PROVE  /\ Under(a, Ack) <= transactions[a].invs - transactions[a].acks
               /\ ~injectionDone =>
                    Under(a, Ack) = transactions[a].invs - transactions[a].acks
    <2>1. a \in Nat
      BY <1>1 DEF OpenOK
    <2>2. QED
      BY <1>1, <2>1 DEF Accounted, Balance
  <1>7. QED
    BY <1>4, <1>5, <1>6

-----------------------------------------------------------------------------
(* The library inside the simulator.                                       *)

\* What the assumptions say of the library's network.
LEMMA LibFacts ==
    ASSUME PlayersAssumption
    PROVE  /\ IsFiniteSet(LibNodes) /\ LibNodes \subseteq Nat /\ VolumesOK(LibVolumes)
           /\ Horizon \in Nat
           /\ IsFiniteSet(Endpoints) /\ Endpoints \subseteq Nat
  BY Zenon DEF PlayersAssumption, Lib!WrapperAssumption, Lib!ModelAssumption,
       VolumesOK, Lib!Operations, Lib!IsFiniteSet, IsFiniteSet

\* And of the stand-alone generator.
LEMMA SocFacts ==
    ASSUME PlayersAssumption
    PROVE  /\ IsFiniteSet(SocNodes) /\ SocNodes \subseteq Nat /\ VolumesOK(SocVolumes)
           /\ SocNodes = 0 .. Cardinality(SocNodes) - 1
           /\ Horizon \in Nat /\ NumCycles \in Nat /\ NumCycles <= Horizon + 1 /\ MaxId \in Nat
  BY Zenon DEF PlayersAssumption, Soc!SocketAssumption, Soc!ModelAssumption,
       VolumesOK, Soc!Operations, Soc!IsFiniteSet, IsFiniteSet, Soc!Cardinality, Cardinality

\* r is made of elements of s at different places of I.
Picks(r, s, I) ==
  \E p \in [DOMAIN r -> I] : /\ \A k \in DOMAIN r : r[k] = s[p[k]]
                             /\ \A j, k \in DOMAIN r : p[j] = p[k] => j = k

\* ElementsAt takes each of its elements from a place of its own.
LEMMA ElementsArePicked ==
    ASSUME NEW S, NEW s \in Seq(S), NEW I \in SUBSET DOMAIN s
    PROVE  ElementsAt(s, I) \in Seq(S) /\ Picks(ElementsAt(s, I), s, I)
  <1> DEFINE r == ElementsAt(s, I)
  <1>1. /\ IsFiniteSet(I) /\ Cardinality(I) \in Nat /\ r \in Seq(S) /\ Len(r) = Cardinality(I)
        /\ \A k \in 1 .. Cardinality(I) : r[k] = s[InOrder(I)[k]]
    BY ElementsAtPlaces
  <1>2. I \subseteq Int
    OBVIOUS
  <1>3. /\ InOrder(I) \in [1 .. Cardinality(I) -> I]
        /\ \A k \in 1 .. Cardinality(I) : Rank(I, InOrder(I)[k]) = k - 1
    BY <1>1, <1>2, InOrderSorts
  <1>4. DOMAIN r = 1 .. Cardinality(I)
    BY <1>1
  <1> HIDE DEF r
  <1>5. \A j, k \in DOMAIN r : InOrder(I)[j] = InOrder(I)[k] => j = k
    <2> SUFFICES ASSUME NEW j \in DOMAIN r, NEW k \in DOMAIN r, InOrder(I)[j] = InOrder(I)[k]
                 PROVE  j = k
      OBVIOUS
    <2>1. j - 1 = k - 1 /\ j \in Nat /\ k \in Nat
      BY <1>1, <1>3, <1>4
    <2>2. QED
      BY <2>1
  <1>6. Picks(r, s, I)
    BY <1>1, <1>3, <1>4, <1>5 DEF Picks
  <1>7. QED
    BY <1>1, <1>6 DEF r

-----------------------------------------------------------------------------
(* The library.                                                            *)

\* The injectors and the network hold packets the model knows ...
Known ==
  \A e \in Endpoints : /\ traverse[e] \subseteq DOMAIN inTransit
                       /\ \A i \in DOMAIN inject[e] : inject[e][i] \in DOMAIN inTransit

\* ... each of them once.
HeldOnce ==
  \A e, f \in Endpoints :
    /\ traverse[e] \cap traverse[f] # {} => e = f
    /\ \A i \in DOMAIN inject[e] :
         /\ inject[e][i] \notin traverse[f]
         /\ \A j \in DOMAIN inject[f] : inject[e][i] = inject[f][j] => e = f /\ i = j

\* When synful_eval has seen the end, nothing is on its way until the model
\* sends the packets of this cycle, and then nothing is in the network but
\* what an injector has been given in this cycle.
Emptied ==
  /\ pc = "eval" => ~simulationDone
  /\ pc = "done" => simulationDone
  /\ pc \in {"step", "eval"} /\ ~packetsLeft =>
       \A e \in Endpoints : traverse[e] = {} /\ inject[e] = <<>>
  /\ pc \in {"hier", "interval", "send"} /\ simulationDone =>
       \A e \in Endpoints : inject[e] = <<>>
  /\ pc \in {"hier", "interval", "send", "inject"} /\ simulationDone =>
       \A e \in Endpoints : traverse[e] = {}
  /\ pc \in {"eject", "step", "done"} /\ simulationDone =>
       \A e \in Endpoints : traverse[e] \subseteq {wr[f] : f \in Endpoints}

LibType ==
  /\ cycle \in 0 .. Horizon
  /\ pc \in {"eval", "hier", "interval", "send", "inject", "eject", "step", "done"}
  /\ pc = "eject" => at \in Endpoints
  /\ packetsLeft \in BOOLEAN /\ simulationDone \in BOOLEAN
  /\ inject \in [Endpoints -> Seq(Nat)] /\ traverse \in [Endpoints -> SUBSET Nat]

LibInv == LibType /\ ModelInv(LibNodes, TRUE) /\ Known /\ HeldOnce /\ Emptied

\* Every message number is a number.
LEMMA TransitNat ==
    ASSUME NEW K, NEW L, ModelInv(K, L)
    PROVE  messageId \in Nat /\ DOMAIN inTransit \subseteq 0 .. messageId - 1
  BY DEF ModelInv, TransitOK

\* The ejection loop goes on at an endpoint.
LEMMA NextEndpoint ==
    ASSUME PlayersAssumption, NEW first, Lib!GoToEndpoint(first)
    PROVE  \/ pc' = "step" /\ \A e \in Endpoints : e >= first => traverse'[e] = {}
           \/ pc' = "eject" /\ at' \in Endpoints
  <1> DEFINE rest == {e \in Endpoints : e >= first /\ traverse'[e] # {}}
  <1>1. CASE rest = {}
    BY <1>1 DEF Lib!GoToEndpoint
  <1>2. CASE rest # {}
    <2>1. pc' = "eject" /\ at' = Lib!Min(rest)
      BY <1>2 DEF Lib!GoToEndpoint
    <2>2. IsFiniteSet(rest) /\ rest \subseteq Int
      <3>1. rest \in SUBSET Endpoints
        OBVIOUS
      <3>2. QED
        BY <3>1, LibFacts, FS_Subset
    <2>3. Cardinality(rest) \in Nat /\ Cardinality(rest) # 0
      BY <1>2, <2>2, FS_CardinalityType, FS_EmptySet
    <2>4. 0 \in 0 .. Cardinality(rest) - 1
      BY <2>3
    <2>5. PICK m \in rest : Rank(rest, m) = 0
      BY <2>2, <2>4, RankBijects
    <2> HIDE DEF rest
    <2>6. {j \in rest : j < m} = {}
      <3>1. {j \in rest : j < m} \in SUBSET rest
        OBVIOUS
      <3>2. IsFiniteSet({j \in rest : j < m})
        BY <2>2, <3>1, FS_Subset
      <3>3. QED
        BY <2>5, <3>2, FS_EmptySet DEF Rank
    <2>7. \A y \in rest : m <= y
      BY <2>2, <2>6
    <2>8. Lib!Min(rest) \in rest
      BY <2>7 DEF Lib!Min
    <2>9. QED
      BY <2>1, <2>8 DEF rest
  <1>3. QED
    BY <1>1, <1>2


\* Reversing a sequence moves its elements to other places.
LEMMA ReversePicks ==
    ASSUME NEW S, NEW r \in Seq(S), NEW s, NEW I, Picks(r, s, I)
    PROVE  Lib!Reverse(r) \in Seq(S) /\ Picks(Lib!Reverse(r), s, I)
  <1> DEFINE n == Len(r)
             v == [i \in 1 .. n |-> r[(n - i) + 1]]
  <1>1. n \in Nat /\ DOMAIN r = 1 .. n /\ \A i \in 1 .. n : (n - i) + 1 \in 1 .. n /\ r[i] \in S
    OBVIOUS
  <1>2. Lib!Reverse(r) = v
    BY DEF Lib!Reverse
  <1>3. v \in Seq(S) /\ DOMAIN v = 1 .. n
    BY <1>1
  <1>4. PICK p \in [DOMAIN r -> I] : /\ \A k \in DOMAIN r : r[k] = s[p[k]]
                                     /\ \A j, k \in DOMAIN r : p[j] = p[k] => j = k
    BY DEF Picks
  <1> DEFINE q == [i \in 1 .. n |-> p[(n - i) + 1]]
  <1>5. q \in [DOMAIN v -> I] /\ \A k \in DOMAIN v : v[k] = s[q[k]]
    BY <1>1, <1>3, <1>4
  <1>6. \A j, k \in DOMAIN v : q[j] = q[k] => j = k
    <2> SUFFICES ASSUME NEW j \in 1 .. n, NEW k \in 1 .. n, q[j] = q[k] PROVE j = k
      BY <1>3
    <2>1. (n - j) + 1 = (n - k) + 1
      BY <1>1, <1>4
    <2>2. QED
      BY <1>1, <2>1
  <1> HIDE DEF v, q
  <1>7. QED
    BY <1>2, <1>3, <1>5, <1>6, Zenon DEF Picks

\* The elements of two sequences put together.
LEMMA Joined ==
    ASSUME NEW S, NEW s \in Seq(S), NEW r \in Seq(S)
    PROVE  /\ s \o r \in Seq(S)
           /\ \A i \in DOMAIN (s \o r) :
                \/ i \in DOMAIN s /\ (s \o r)[i] = s[i]
                \/ i - Len(s) \in DOMAIN r /\ (s \o r)[i] = r[i - Len(s)]
  OBVIOUS

\* The packets sent in a cycle join the injection queues, each one once.
LEMMA InjectKeeps ==
    ASSUME PlayersAssumption, LibInv, Lib!RunInject
    PROVE  LibInv'
  <1>1. /\ cycle \in 0 .. Horizon /\ ModelInv(LibNodes, TRUE) /\ cycle \in Slots
        /\ messageId \in Nat /\ DOMAIN inTransit \subseteq 0 .. messageId - 1
        /\ inject \in [Endpoints -> Seq(Nat)] /\ traverse \in [Endpoints -> SUBSET Nat]
    <2>1. cycle \in 0 .. Horizon /\ Horizon \in Nat /\ MemDelay \in Nat /\ Resolution \in Nat
      BY PlayersAssumption DEF PlayersAssumption, Lib!WrapperAssumption, Lib!ModelAssumption,
         LibInv, LibType
    <2>2. cycle \in Slots
      BY <2>1 DEF Slots
    <2>3. QED
      BY <2>1, <2>2, TransitNat DEF LibInv, LibType
  <1>2. Gen(LibNodes, LibVolumes, TRUE)!sendPackets
    BY LibSteps DEF Lib!RunInject
  <1>3. ModelInv(LibNodes, TRUE)'
    BY <1>1, <1>2, SendKeeps DEF Lib!RunInject
  <1>4. PICK n : n = Len(queue[cycle])
    OBVIOUS
  <1>5. /\ n \in Nat /\ DOMAIN queue[cycle] = 1 .. n /\ messageId' = messageId + n
        /\ DOMAIN inTransit' = DOMAIN inTransit \cup {messageId + i - 1 : i \in 1 .. n}
    <2>1. /\ queue \in [Slots -> Seq(Item(LibNodes))]
          /\ DOMAIN transactions \subseteq 0 .. messageId - 1
      BY <1>1 DEF ModelInv, QueueOK, OpenOK
    <2>2. QED
      BY <1>1, <1>2, <1>4, <2>1, SendIs
  <1> DEFINE ids == [i \in 1 .. n |-> messageId + i - 1]
             Its(e) == {i \in 1 .. n : PronocMapping[Lib!Sent[ids[i] - messageId + 1].source] = e}
             new(e) == Lib!Reverse(ElementsAt(ids, Its(e)))
  <1>6. ids \in Seq(Nat) /\ DOMAIN ids = 1 .. n
    BY <1>1, <1>5
  <1>7. inject' = [e \in Endpoints |-> inject[e] \o new(e)]
    <2>1. DOMAIN Lib!Sent = 1 .. n /\ \A i \in 1 .. n : Lib!Sent[i].id = messageId + i - 1
      BY <1>5 DEF Lib!Sent
    <2>2. [i \in DOMAIN Lib!Sent |-> Lib!Sent[i].id] = ids
      BY <2>1
    <2>3. \A e : Lib!Select(ids, LAMBDA m : PronocMapping[Lib!Sent[m - messageId + 1].source] = e) =
                 Lib!ElementsAt(ids, {i \in DOMAIN ids :
                                        PronocMapping[Lib!Sent[ids[i] - messageId + 1].source] = e})
      BY DEF Lib!Select
    <2> DEFINE J(e) == {i \in DOMAIN ids : PronocMapping[Lib!Sent[ids[i] - messageId + 1].source] = e}
    <2>5. \A e : J(e) = Its(e)
      BY <1>6
    <2> HIDE DEF ids
    <2>4. inject' = [e \in Endpoints |-> inject[e] \o Lib!Reverse(Lib!ElementsAt(ids, J(e)))]
      BY <2>2, <2>3 DEF Lib!RunInject
    <2> HIDE DEF J, Its
    <2>6. \A I : Lib!ElementsAt(ids, I) = ElementsAt(ids, I)
      BY Zenon DEF Lib!ElementsAt, ElementsAt, Lib!InOrder, InOrder, Lib!Cardinality, Cardinality
    <2>7. QED
      BY <2>4, <2>5, <2>6
  <1>8. ASSUME NEW e \in Endpoints
        PROVE  new(e) \in Seq(Nat) /\ Picks(new(e), ids, Its(e))
    <2>1. Its(e) \in SUBSET DOMAIN ids
      BY <1>6
    <2> HIDE DEF ids, Its
    <2>2. QED
      BY <1>6, <2>1, ElementsArePicked, ReversePicks
  <1> HIDE DEF new
  <1>9. ASSUME NEW e \in Endpoints
        PROVE  /\ inject'[e] \in Seq(Nat)
               /\ \A i \in DOMAIN inject'[e] :
                    \/ i \in DOMAIN inject[e] /\ inject'[e][i] = inject[e][i]
                    \/ /\ i - Len(inject[e]) \in DOMAIN new(e)
                       /\ inject'[e][i] = new(e)[i - Len(inject[e])]
    <2>1. inject'[e] = inject[e] \o new(e) /\ inject[e] \in Seq(Nat)
      BY <1>1, <1>7
    <2>2. PICK s, r : s = inject[e] /\ r = new(e)
      OBVIOUS
    <2>3. s \in Seq(Nat) /\ r \in Seq(Nat)
      BY <1>8, <2>1, <2>2
    <2>4. /\ s \o r \in Seq(Nat)
          /\ \A i \in DOMAIN (s \o r) :
               \/ i \in DOMAIN s /\ (s \o r)[i] = s[i]
               \/ i - Len(s) \in DOMAIN r /\ (s \o r)[i] = r[i - Len(s)]
      BY <2>3, Joined
    <2>5. QED
      BY <2>1, <2>2, <2>4
  <1>10. ASSUME NEW e \in Endpoints, NEW f \in Endpoints,
                NEW i \in DOMAIN new(e), NEW j \in DOMAIN new(f)
         PROVE  /\ new(e)[i] \in {messageId + m - 1 : m \in 1 .. n} /\ new(e)[i] >= messageId
                /\ new(e)[i] = new(f)[j] => e = f /\ i = j
    <2>1. PICK p \in [DOMAIN new(e) -> Its(e)] :
                       /\ \A k \in DOMAIN new(e) : new(e)[k] = ids[p[k]]
                       /\ \A k, l \in DOMAIN new(e) : p[k] = p[l] => k = l
      BY <1>8 DEF Picks
    <2>2. PICK q \in [DOMAIN new(f) -> Its(f)] : \A k \in DOMAIN new(f) : new(f)[k] = ids[q[k]]
      BY <1>8 DEF Picks
    <2>3. /\ p[i] \in Its(e) /\ p[i] \in 1 .. n /\ new(e)[i] = messageId + p[i] - 1
          /\ q[j] \in Its(f) /\ q[j] \in 1 .. n /\ new(f)[j] = messageId + q[j] - 1
      BY <2>1, <2>2
    <2>4. new(e)[i] \in {messageId + m - 1 : m \in 1 .. n} /\ new(e)[i] >= messageId
      BY <1>1, <2>3
    <2>5. ASSUME new(e)[i] = new(f)[j] PROVE e = f /\ i = j
      <3>1. p[i] = q[j]
        BY <1>1, <2>3, <2>5
      <3>2. e = f
        BY <2>3, <3>1
      <3>3. new(e)[j] = messageId + p[j] - 1 /\ p[j] \in 1 .. n
        BY <2>1, <3>2
      <3>4. p[j] = p[i]
        BY <1>1, <2>3, <2>5, <3>2, <3>3
      <3>5. QED
        BY <2>1, <3>2, <3>4
    <2>6. QED
      BY <2>4, <2>5
  <1>11. /\ pc = "send" /\ pc' = "inject"
         /\ UNCHANGED <<cycle, at, traverse, wr, packetsLeft, simulationDone>>
    BY DEF Lib!RunInject
  <1>12. LibType'
    <2>1. inject' \in [Endpoints -> Seq(Nat)]
      BY <1>7, <1>9
    <2>2. QED
      BY <1>11, <2>1 DEF LibInv, LibType
  <1>13. \A e \in Endpoints : \A i \in DOMAIN inject'[e] :
           \/ i \in DOMAIN inject[e] /\ inject'[e][i] = inject[e][i]
           \/ /\ i - Len(inject[e]) \in DOMAIN new(e)
              /\ inject'[e][i] = new(e)[i - Len(inject[e])]
    BY <1>9
  <1> HIDE DEF ids, Its
  <1>14. Known'
    <2> SUFFICES ASSUME NEW e \in Endpoints
                 PROVE  /\ traverse[e] \subseteq DOMAIN inTransit'
                        /\ \A i \in DOMAIN inject'[e] : inject'[e][i] \in DOMAIN inTransit'
      BY <1>11 DEF Known
    <2>1. traverse[e] \subseteq DOMAIN inTransit'
      BY <1>5 DEF LibInv, Known
    <2>2. ASSUME NEW i \in DOMAIN inject'[e] PROVE inject'[e][i] \in DOMAIN inTransit'
      <3>1. CASE i \in DOMAIN inject[e] /\ inject'[e][i] = inject[e][i]
        BY <1>5, <3>1 DEF LibInv, Known
      <3>2. CASE /\ i - Len(inject[e]) \in DOMAIN new(e)
                 /\ inject'[e][i] = new(e)[i - Len(inject[e])]
        BY <1>5, <1>10, <3>2
      <3>3. QED
        BY <1>13, <3>1, <3>2
    <2>3. QED
      BY <2>1, <2>2
  <1>15. HeldOnce'
    <2> SUFFICES ASSUME NEW e \in Endpoints, NEW f \in Endpoints
                 PROVE  /\ traverse[e] \cap traverse[f] # {} => e = f
                        /\ \A i \in DOMAIN inject'[e] :
                             /\ inject'[e][i] \notin traverse[f]
                             /\ \A j \in DOMAIN inject'[f] :
                                  inject'[e][i] = inject'[f][j] => e = f /\ i = j
      BY <1>11 DEF HeldOnce
    <2>1. traverse[e] \cap traverse[f] # {} => e = f
      BY DEF LibInv, HeldOnce
    <2>2. ASSUME NEW i \in DOMAIN inject'[e]
          PROVE  inject'[e][i] \notin traverse[f]
      <3>1. \A m \in traverse[f] : m \in Nat /\ m < messageId
        BY <1>1 DEF LibInv, Known
      <3>2. CASE i \in DOMAIN inject[e] /\ inject'[e][i] = inject[e][i]
        BY <3>2 DEF LibInv, HeldOnce
      <3>3. CASE /\ i - Len(inject[e]) \in DOMAIN new(e)
                 /\ inject'[e][i] = new(e)[i - Len(inject[e])]
        <4>1. PICK k : k = i - Len(inject[e])
          OBVIOUS
        <4>2. new(e)[k] >= messageId
          BY <1>10, <3>3, <4>1
        <4>3. QED
          BY <1>1, <3>1, <3>3, <4>1, <4>2
      <3>4. QED
        BY <1>13, <3>2, <3>3
    <2>3. ASSUME NEW i \in DOMAIN inject'[e], NEW j \in DOMAIN inject'[f],
                 inject'[e][i] = inject'[f][j]
          PROVE  e = f /\ i = j
      <3>1. \A g \in Endpoints : \A k \in DOMAIN inject[g] :
              inject[g][k] \in Nat /\ inject[g][k] < messageId
        BY <1>1 DEF LibInv, Known
      <3>2. \A g \in Endpoints : \A k \in DOMAIN new(g) : new(g)[k] >= messageId
        BY <1>10
      <3>3. CASE /\ i \in DOMAIN inject[e] /\ inject'[e][i] = inject[e][i]
                 /\ j \in DOMAIN inject[f] /\ inject'[f][j] = inject[f][j]
        <4>1. inject[e][i] = inject[f][j]
          BY <2>3, <3>3
        <4>2. QED
          BY <3>3, <4>1 DEF LibInv, HeldOnce
      <3>4. CASE /\ i \in DOMAIN inject[e] /\ inject'[e][i] = inject[e][i]
                 /\ j - Len(inject[f]) \in DOMAIN new(f)
                 /\ inject'[f][j] = new(f)[j - Len(inject[f])]
        <4>1. inject[e][i] < messageId /\ inject[e][i] >= messageId
          BY <2>3, <3>1, <3>2, <3>4
        <4>2. QED
          BY <1>1, <3>1, <3>4, <4>1
      <3>5. CASE /\ j \in DOMAIN inject[f] /\ inject'[f][j] = inject[f][j]
                 /\ i - Len(inject[e]) \in DOMAIN new(e)
                 /\ inject'[e][i] = new(e)[i - Len(inject[e])]
        <4>1. inject[f][j] < messageId /\ inject[f][j] >= messageId
          BY <2>3, <3>1, <3>2, <3>5
        <4>2. QED
          BY <1>1, <3>1, <3>5, <4>1
      <3>6. CASE /\ i - Len(inject[e]) \in DOMAIN new(e)
                 /\ inject'[e][i] = new(e)[i - Len(inject[e])]
                 /\ j - Len(inject[f]) \in DOMAIN new(f)
                 /\ inject'[f][j] = new(f)[j - Len(inject[f])]
        <4>3. PICK k, l : k = i - Len(inject[e]) /\ l = j - Len(inject[f])
          OBVIOUS
        <4>4. k \in DOMAIN new(e) /\ l \in DOMAIN new(f) /\ new(e)[k] = new(f)[l]
          BY <2>3, <3>6, <4>3
        <4>1. e = f /\ k = l
          BY <1>10, <4>4
        <4>2. Len(inject[e]) \in Nat /\ Len(inject[f]) = Len(inject[e]) /\ i \in Nat /\ j \in Nat
          BY <1>1, <1>9, <4>1
        <4>6. i - Len(inject[e]) = j - Len(inject[e])
          BY <4>1, <4>3
        <4>5. QED
          BY <4>1, <4>2, <4>6
      <3>7. QED
        BY <1>13, <3>3, <3>4, <3>5, <3>6
    <2>4. QED
      BY <2>1, <2>2, <2>3
  <1>16. Emptied'
    BY <1>11 DEF LibInv, Emptied
  <1>17. QED
    BY <1>3, <1>12, <1>14, <1>15, <1>16 DEF LibInv


\* Each injector takes the first packet of its queue at most.
LEMMA TakeKeeps ==
    ASSUME PlayersAssumption, LibInv, Lib!InjectAll
    PROVE  LibInv'
  <1>1. PICK served \in SUBSET {e \in Endpoints : wr[e] = -1 /\ inject[e] # <<>>} :
          /\ wr' = [e \in Endpoints |-> IF e \in served THEN Head(inject[e]) ELSE -1]
          /\ inject' = [e \in Endpoints |-> IF e \in served THEN Tail(inject[e]) ELSE inject[e]]
          /\ traverse' = [e \in Endpoints |->
               traverse[e] \cup {n \in {Head(inject[g]) : g \in served} :
                                   PronocMapping[inTransit[n].dest] = e}]
    BY DEF Lib!InjectAll, Lib!None
  <1> DEFINE taken == {Head(inject[g]) : g \in served}
             s(e) == IF e \in served THEN 1 ELSE 0
  <1>2. /\ inject \in [Endpoints -> Seq(Nat)] /\ traverse \in [Endpoints -> SUBSET Nat]
        /\ pc = "inject" /\ Lib!GoToEndpoint(0)
        /\ UNCHANGED <<cycle, inTransit, simulationDone>>
    BY DEF LibInv, LibType, Lib!InjectAll, Lib!modelVars
  <1>3. ModelInv(LibNodes, TRUE)'
    <2>1. ModelInv(LibNodes, TRUE) /\ UNCHANGED Lib!modelVars
      BY DEF LibInv, Lib!InjectAll
    <2>2. hierClass' \in HierClasses \cup {1} /\ state' \in Classes \cup {1}
      BY <2>1 DEF Lib!modelVars, ModelInv
    <2>3. QED
      BY <2>1, <2>2, ModelStays DEF Lib!modelVars
  <1>4. packetsLeft' \in BOOLEAN
    BY DEF Lib!InjectAll, LibInv, LibType
  <1>5. ASSUME NEW g \in served
        PROVE  g \in Endpoints /\ 1 \in DOMAIN inject[g] /\ Head(inject[g]) = inject[g][1]
    BY <1>1, <1>2
  <1>6. ASSUME NEW e \in Endpoints
        PROVE  /\ inject'[e] \in Seq(Nat)
               /\ \A i \in DOMAIN inject'[e] :
                    i + s(e) \in DOMAIN inject[e] /\ inject'[e][i] = inject[e][i + s(e)]
    <2>1. CASE e \in served
      <3>1. inject'[e] = Tail(inject[e]) /\ inject[e] \in Seq(Nat) /\ inject[e] # <<>>
        BY <1>1, <1>2, <2>1
      <3>2. s(e) = 1
        BY <2>1
      <3>3. QED
        BY <3>1, <3>2
    <2>2. CASE e \notin served
      <3>1. inject'[e] = inject[e] /\ inject[e] \in Seq(Nat) /\ s(e) = 0
        BY <1>1, <1>2, <2>2
      <3>2. \A i \in DOMAIN inject[e] : i + 0 = i
        BY <3>1
      <3>3. QED
        BY <3>1, <3>2
    <2>3. QED
      BY <2>1, <2>2
  <1>7. \A e \in Endpoints : s(e) \in {0, 1} /\ (e \notin served => s(e) = 0)
    OBVIOUS
  <1>17. \A e \in Endpoints : e \in served => s(e) = 1
    OBVIOUS
  <1> HIDE DEF s
  <1>8. ASSUME NEW e \in Endpoints, NEW n \in traverse'[e]
        PROVE  \/ n \in traverse[e]
               \/ /\ PronocMapping[inTransit[n].dest] = e
                  /\ \E g \in served : n = inject[g][1]
    BY <1>1, <1>5
  <1>9. LibType'
    <2>1. inject' \in [Endpoints -> Seq(Nat)]
      BY <1>1, <1>6
    <2>2. \A g \in served : inject[g][1] \in Nat
      BY <1>2, <1>5
    <2>3. ASSUME NEW e \in Endpoints, NEW n \in traverse'[e] PROVE n \in Nat
      <3>1. traverse[e] \subseteq Nat
        BY <1>2
      <3>2. QED
        BY <1>8, <2>2, <3>1
    <2>4. traverse' \in [Endpoints -> SUBSET Nat]
      BY <1>1, <2>3
    <2>5. \/ pc' = "step"
          \/ pc' = "eject" /\ at' \in Endpoints
      BY <1>2, NextEndpoint
    <2>6. QED
      BY <1>2, <1>4, <2>1, <2>4, <2>5 DEF LibInv, LibType
  <1>10. Known'
    <2>1. ASSUME NEW e \in Endpoints PROVE traverse'[e] \subseteq DOMAIN inTransit
      BY <1>5, <1>8 DEF LibInv, Known
    <2>2. ASSUME NEW e \in Endpoints, NEW i \in DOMAIN inject'[e]
          PROVE  inject'[e][i] \in DOMAIN inTransit
      BY <1>6 DEF LibInv, Known
    <2>3. QED
      BY <1>2, <2>1, <2>2 DEF Known
  <1>11. ASSUME NEW e \in Endpoints, NEW f \in Endpoints, traverse'[e] \cap traverse'[f] # {}
         PROVE  e = f
    <2>1. PICK n : n \in traverse'[e] /\ n \in traverse'[f]
      BY <1>11
    <2>2. CASE n \in traverse[e] /\ n \in traverse[f]
      BY <2>2 DEF LibInv, HeldOnce
    <2>3. CASE \E g \in served : n = inject[g][1]
      <3>1. n \notin traverse[e] /\ n \notin traverse[f]
        BY <1>5, <2>3 DEF LibInv, HeldOnce
      <3>2. QED
        BY <1>8, <2>1, <3>1
    <2>4. QED
      BY <1>8, <2>1, <2>2, <2>3
  <1>12. ASSUME NEW e \in Endpoints, NEW f \in Endpoints, NEW i \in DOMAIN inject'[e]
         PROVE  inject'[e][i] \notin traverse'[f]
    <2> SUFFICES ASSUME inject'[e][i] \in traverse'[f] PROVE FALSE
      OBVIOUS
    <2>1. i + s(e) \in DOMAIN inject[e] /\ inject'[e][i] = inject[e][i + s(e)]
      BY <1>6
    <2>2. inject'[e][i] \notin traverse[f]
      BY <2>1 DEF LibInv, HeldOnce
    <2>3. PICK g \in served : inject'[e][i] = inject[g][1]
      BY <1>8, <2>2
    <2>4. inject[e][i + s(e)] = inject[g][1] /\ g \in Endpoints /\ 1 \in DOMAIN inject[g]
      BY <1>5, <2>1, <2>3
    <2>5. e = g /\ i + s(e) = 1
      BY <2>1, <2>4 DEF LibInv, HeldOnce
    <2>6. s(e) = 1 /\ i \in Nat /\ i > 0
      <3>1. inject'[e] \in Seq(Nat)
        BY <1>6
      <3>2. QED
        BY <1>17, <2>5, <3>1
    <2>7. QED
      BY <2>5, <2>6
  <1>13. ASSUME NEW e \in Endpoints, NEW f \in Endpoints, NEW i \in DOMAIN inject'[e],
                NEW j \in DOMAIN inject'[f], inject'[e][i] = inject'[f][j]
         PROVE  e = f /\ i = j
    <2>1. /\ i + s(e) \in DOMAIN inject[e] /\ inject'[e][i] = inject[e][i + s(e)]
          /\ j + s(f) \in DOMAIN inject[f] /\ inject'[f][j] = inject[f][j + s(f)]
      BY <1>6
    <2>2. inject[e][i + s(e)] = inject[f][j + s(f)]
      BY <1>13, <2>1
    <2>3. e = f /\ i + s(e) = j + s(f)
      BY <2>1, <2>2 DEF LibInv, HeldOnce
    <2>4. s(e) \in Nat /\ s(f) = s(e) /\ i \in Nat /\ j \in Nat
      <3>1. inject'[e] \in Seq(Nat) /\ inject'[f] \in Seq(Nat) /\ s(e) \in Nat
        BY <1>6, <1>7
      <3>2. QED
        BY <2>3, <3>1
    <2>5. i + s(e) = j + s(e)
      BY <2>3
    <2>6. QED
      BY <2>3, <2>4, <2>5
  <1>14. HeldOnce'
    BY <1>11, <1>12, <1>13 DEF HeldOnce
  <1>15. Emptied'
    <2>1. \/ pc' = "step" /\ \A e \in Endpoints : traverse'[e] = {}
          \/ pc' = "eject"
      <3>1. \A e \in Endpoints : e >= 0
        BY LibFacts
      <3>2. QED
        BY <1>2, <3>1, NextEndpoint
    <2>2. ASSUME simulationDone', NEW e \in Endpoints
          PROVE  traverse'[e] \subseteq {wr'[f] : f \in Endpoints}
      <3>1. traverse[e] = {}
        BY <1>2, <2>2 DEF LibInv, Emptied
      <3>2. \A g \in served : wr'[g] = inject[g][1] /\ g \in Endpoints
        BY <1>1, <1>5
      <3>3. QED
        BY <1>8, <3>1, <3>2
    <2>3. ASSUME ~packetsLeft', NEW e \in Endpoints
          PROVE  inject'[e] = <<>>
      <3>1. inject[e] = <<>>
        BY <2>3 DEF Lib!InjectAll
      <3>2. QED
        BY <1>1, <3>1
    <2>4. QED
      BY <1>2, <2>1, <2>2, <2>3 DEF Emptied
  <1>16. QED
    BY <1>3, <1>9, <1>10, <1>14, <1>15 DEF LibInv


\* A packet that arrives leaves the network and the model, and is held nowhere else.
LEMMA EjectKeeps ==
    ASSUME PlayersAssumption, LibInv, Lib!Eject
    PROVE  LibInv'
  <1>1. /\ cycle \in 0 .. Horizon /\ ModelInv(LibNodes, TRUE)
        /\ inject \in [Endpoints -> Seq(Nat)] /\ traverse \in [Endpoints -> SUBSET Nat]
        /\ pc = "eject" /\ at \in Endpoints /\ Lib!GoToEndpoint(at + 1)
        /\ packetsLeft' = TRUE /\ UNCHANGED <<cycle, inject, simulationDone, wr>>
        /\ UNCHANGED <<messageId, hierClass, state>>
    BY DEF LibInv, LibType, Lib!Eject
  <1>2. PICK n \in traverse[at] :
          Lib!react(n) /\ traverse' = [traverse EXCEPT ![at] = @ \ {n}]
    BY DEF Lib!Eject
  <1>3. n \in DOMAIN inTransit
    BY <1>1 DEF LibInv, Known
  <1>4. Gen(LibNodes, LibVolumes, TRUE)!react(n)
    BY <1>2, LibSteps
  <1>5. ModelInv(LibNodes, TRUE)'
    BY <1>1, <1>3, <1>4, LibFacts, ReactKeeps
  <1>6. DOMAIN inTransit' = DOMAIN inTransit \ {n}
    BY <1>4 DEF Gen!react, Gen!Without
  <1>7. /\ \A e \in Endpoints : traverse'[e] \subseteq traverse[e] /\ n \notin traverse'[e]
        /\ traverse' \in [Endpoints -> SUBSET Nat]
    <2>1. \A e \in Endpoints : e # at => n \notin traverse[e]
      BY <1>1, <1>2 DEF LibInv, HeldOnce
    <2>2. QED
      BY <1>1, <1>2, <2>1
  <1>8. \A e \in Endpoints : \A i \in DOMAIN inject[e] : inject[e][i] # n
    BY <1>1, <1>2 DEF LibInv, HeldOnce
  <1>9. LibType'
    <2>1. \/ pc' = "step"
          \/ pc' = "eject" /\ at' \in Endpoints
      BY <1>1, NextEndpoint
    <2>2. QED
      BY <1>1, <1>7, <2>1 DEF LibInv, LibType
  <1>10. Known'
    BY <1>1, <1>6, <1>7, <1>8 DEF LibInv, Known
  <1>11. HeldOnce'
    BY <1>1, <1>7 DEF LibInv, HeldOnce
  <1>12. Emptied'
    <2>1. \/ pc' = "step"
          \/ pc' = "eject"
      BY <1>1, NextEndpoint
    <2>2. ASSUME simulationDone', NEW e \in Endpoints
          PROVE  traverse'[e] \subseteq {wr'[f] : f \in Endpoints}
      <3>1. traverse[e] \subseteq {wr[f] : f \in Endpoints}
        BY <1>1, <2>2 DEF LibInv, Emptied
      <3>2. QED
        BY <1>1, <1>7, <3>1
    <2>3. QED
      BY <1>1, <2>1, <2>2 DEF Emptied
  <1>13. QED
    BY <1>5, <1>9, <1>10, <1>11, <1>12 DEF LibInv

\* The library's invariant is kept by each of its steps.
LEMMA LibKeeps ==
    ASSUME PlayersAssumption, LibInv, [Lib!Next]_(Lib!vars)
    PROVE  LibInv'
  <1>1. /\ cycle \in 0 .. Horizon /\ ModelInv(LibNodes, TRUE) /\ Horizon \in Nat
        /\ hierClass \in HierClasses \cup {1} /\ state \in Classes \cup {1}
    BY LibFacts DEF LibInv, LibType, ModelInv
  <1>2. CASE Lib!EvalBegin
    <2>1. UNCHANGED <<cycle, nextInterval, nextHinterval, hierClass, state, steadyExit,
                      injectionDone, totalQueued, messageId, inTransit, transactions, queue>>
      BY <1>2 DEF Lib!EvalBegin, Lib!modelVars
    <2>2. ModelInv(LibNodes, TRUE)'
      BY <1>1, <2>1, ModelStays
    <2>3. /\ pc = "eval" /\ pc' = "hier" /\ packetsLeft' = FALSE /\ simulationDone' \in BOOLEAN
          /\ simulationDone' => simulationDone \/ ~packetsLeft
          /\ UNCHANGED <<at, inject, traverse, wr>>
      BY <1>2, Zenon DEF Lib!EvalBegin
    <2>4. LibType'
      BY <2>1, <2>3 DEF LibInv, LibType
    <2>5. Known' /\ HeldOnce'
      BY <2>1, <2>3 DEF LibInv, Known, HeldOnce
    <2>6. Emptied'
      BY <2>3 DEF LibInv, Emptied
    <2>7. QED
      BY <2>2, <2>4, <2>5, <2>6 DEF LibInv
  <1>3. CASE Lib!RunHier
    <2>1. /\ hierClass' \in HierClasses \cup {1} /\ state' \in Classes \cup {1}
          /\ UNCHANGED <<cycle, injectionDone, totalQueued, messageId, inTransit, transactions,
                         queue, at, inject, wr, traverse, packetsLeft, simulationDone>>
          /\ pc = "hier" /\ pc' = "interval"
      BY <1>1, <1>3 DEF Lib!RunHier, Lib!HierInterval, Lib!wrapperVars
    <2>2. ModelInv(LibNodes, TRUE)'
      BY <1>1, <2>1, ModelStays
    <2>3. LibType' /\ Known' /\ HeldOnce' /\ Emptied'
      BY <2>1 DEF LibInv, LibType, Known, HeldOnce, Emptied
    <2>4. QED
      BY <2>2, <2>3 DEF LibInv
  <1>4. CASE Lib!RunInterval
    <2>1. /\ UNCHANGED <<cycle, hierClass, messageId, inTransit, transactions, at, inject, wr,
                         traverse, packetsLeft, simulationDone>>
          /\ pc = "interval" /\ pc' = "send" /\ Lib!Interval
      BY <1>4 DEF Lib!RunInterval, Lib!wrapperVars
    <2>2. Gen(LibNodes, LibVolumes, TRUE)!Interval
      BY <2>1, LibSteps
    <2>3. ModelInv(LibNodes, TRUE)'
      BY <1>1, <2>1, <2>2, LibFacts, IntervalKeeps
    <2>4. LibType' /\ Known' /\ HeldOnce' /\ Emptied'
      BY <2>1 DEF LibInv, LibType, Known, HeldOnce, Emptied
    <2>5. QED
      BY <2>3, <2>4 DEF LibInv
  <1>5. CASE Lib!RunInject
    BY <1>5, InjectKeeps
  <1>6. CASE Lib!InjectAll
    BY <1>6, TakeKeeps
  <1>7. CASE Lib!EjectNothing
    <2>1. /\ UNCHANGED <<cycle, hierClass, state, injectionDone, totalQueued, messageId,
                         inTransit, transactions, queue, inject, wr, traverse, simulationDone>>
          /\ pc = "eject" /\ packetsLeft' = TRUE /\ Lib!GoToEndpoint(at + 1)
      BY <1>7 DEF Lib!EjectNothing, Lib!modelVars
    <2>2. ModelInv(LibNodes, TRUE)'
      BY <1>1, <2>1, ModelStays
    <2>3. \/ pc' = "step"
          \/ pc' = "eject" /\ at' \in Endpoints
      BY <2>1, NextEndpoint
    <2>4. LibType' /\ Known' /\ HeldOnce' /\ Emptied'
      BY <2>1, <2>3 DEF LibInv, LibType, Known, HeldOnce, Emptied
    <2>5. QED
      BY <2>2, <2>4 DEF LibInv
  <1>8. CASE Lib!Eject
    BY <1>8, EjectKeeps
  <1>9. CASE Lib!Step
    <2>1. /\ UNCHANGED <<hierClass, state, injectionDone, totalQueued, messageId,
                         inTransit, transactions, queue, at, inject, wr, traverse, packetsLeft,
                         simulationDone>>
          /\ pc = "step" /\ pc' = (IF simulationDone THEN "done" ELSE "eval")
          /\ cycle' = IF cycle < Horizon THEN cycle + 1 ELSE cycle
      BY <1>9 DEF Lib!Step, Lib!wrapperVars
    <2>2. ModelInv(LibNodes, TRUE)'
      BY <1>1, <2>1, ModelStays
    <2>3. cycle' \in 0 .. Horizon
      BY <1>1, <2>1
    <2>4. LibType' /\ Known' /\ HeldOnce' /\ Emptied'
      BY <2>1, <2>3 DEF LibInv, LibType, Known, HeldOnce, Emptied
    <2>5. QED
      BY <2>2, <2>4 DEF LibInv
  <1>10. CASE UNCHANGED Lib!vars
    <2>1. UNCHANGED <<cycle, hierClass, state, injectionDone, totalQueued, messageId, inTransit,
                      transactions, queue, pc, at, inject, wr, traverse, packetsLeft,
                      simulationDone>>
      BY <1>10 DEF Lib!vars, Lib!modelVars
    <2>2. ModelInv(LibNodes, TRUE)'
      BY <1>1, <2>1, ModelStays
    <2>3. LibType' /\ Known' /\ HeldOnce' /\ Emptied'
      BY <2>1 DEF LibInv, LibType, Known, HeldOnce, Emptied
    <2>4. QED
      BY <2>2, <2>3 DEF LibInv
  <1>11. QED
    BY <1>2, <1>3, <1>4, <1>5, <1>6, <1>7, <1>8, <1>9, <1>10 DEF Lib!Next

\* The library starts with empty injectors and an empty network.
LEMMA LibStarts ==
    ASSUME PlayersAssumption, Lib!Init
    PROVE  LibInv
  <1>1. ModelInv(LibNodes, TRUE)
    BY ModelStarts DEF Lib!Init, Lib!ModelInit, Lib!Times, Slots
  <1>2. LibType
    <2>1. cycle \in 0 .. Horizon
      BY LibFacts DEF Lib!Init, Lib!ModelInit
    <2>2. pc = "eval" /\ packetsLeft = FALSE /\ simulationDone = FALSE
      BY DEF Lib!Init
    <2>3. packetsLeft \in BOOLEAN /\ simulationDone \in BOOLEAN
      BY <2>2, Zenon
    <2>4. inject \in [Endpoints -> Seq(Nat)] /\ traverse \in [Endpoints -> SUBSET Nat]
      BY DEF Lib!Init
    <2>5. QED
      BY <2>1, <2>2, <2>3, <2>4 DEF LibType
  <1>3. Known /\ HeldOnce /\ Emptied
    BY DEF Lib!Init, Known, HeldOnce, Emptied
  <1>4. QED
    BY <1>1, <1>2, <1>3 DEF LibInv

\* What the library's invariant says of its accounts and of its end.
LEMMA LibHolds ==
    ASSUME PlayersAssumption, LibInv
    PROVE  /\ Lib!TransactionOfMessage /\ Lib!AcksMatchInvs
           /\ Lib!EndsWhenQuiet
  <1>1. ModelInv(LibNodes, TRUE)
    BY DEF LibInv
  <1>2. Lib!Waiting = WaitingIn(queue)
    BY Zenon DEF Lib!Waiting, WaitingIn, Lib!Times, Slots
  <1>3. \A a : Lib!UnderWay(a, {"INV", "ACK"}) = Under(a, Ack)
    BY <1>2, Zenon DEF Lib!UnderWay, Under, Waits, WaitsIn, Travels, Ack,
       Lib!Cardinality, Cardinality
  <1>4. /\ \A n \in DOMAIN inTransit : inTransit[n].address \in DOMAIN transactions
        /\ \A w \in WaitingIn(queue) :
             queue[w[1]][w[2]].address \in DOMAIN transactions \cup {-1}
        /\ \A a \in DOMAIN transactions :
             /\ Under(a, Ack) <= transactions[a].invs - transactions[a].acks
             /\ ~injectionDone => Under(a, Ack) = transactions[a].invs - transactions[a].acks
    BY <1>1, AccountsHold
  <1>5. Lib!TransactionOfMessage
    BY <1>2, <1>4 DEF Lib!TransactionOfMessage, Lib!NoAddress
  <1>6. Lib!AcksMatchInvs
    BY <1>3, <1>4 DEF Lib!AcksMatchInvs
  <1>7. Lib!EndsWhenQuiet
    BY DEF LibInv, Emptied, Lib!EndsWhenQuiet
  <1>8. QED
    BY <1>5, <1>6, <1>7

-----------------------------------------------------------------------------
(* Numbers and objects held apart.                                         *)

\* A finite set of integers has a least element.
LEMMA LeastElement ==
    ASSUME NEW I, IsFiniteSet(I), I \subseteq Int, I # {}
    PROVE  \E m \in I : \A y \in I : m <= y
  <1>1. Cardinality(I) \in Nat /\ Cardinality(I) # 0
    BY FS_CardinalityType, FS_EmptySet
  <1>2. 0 \in 0 .. Cardinality(I) - 1
    BY <1>1
  <1>3. PICK m \in I : Rank(I, m) = 0
    BY <1>2, RankBijects
  <1>4. {j \in I : j < m} = {}
    <2>1. {j \in I : j < m} \in SUBSET I
      OBVIOUS
    <2>2. IsFiniteSet({j \in I : j < m})
      BY <2>1, FS_Subset
    <2>3. QED
      BY <1>3, <2>2, FS_EmptySet DEF Rank
  <1>5. \A y \in I : m <= y
    BY <1>4
  <1>6. QED
    BY <1>5

-----------------------------------------------------------------------------
(* The generator and its server.                                           *)

\* The states of the loop that puts refused packets back, after each node.
IsAfter(after, m) ==
  after = [k \in 0 .. m |->
             IF k = 0 THEN <<buffer, content>>
             ELSE Soc!PutBack(after[k - 1][1], after[k - 1][2], k - 1)]

\* The loop that puts back is a function of the node it has come to.
LEMMA AfterExists ==
    ASSUME NEW N \in Nat
    PROVE  \E after : IsAfter(after, N)
  <1> DEFINE Bad == {m \in 0 .. N : ~ \E after : IsAfter(after, m)}
  <1>1. SUFFICES ASSUME Bad # {} PROVE FALSE
    OBVIOUS
  <1>2. IsFiniteSet(Bad) /\ Bad \subseteq Int
    <2>1. IsFiniteSet(0 .. N)
      BY FS_Interval
    <2>2. Bad \in SUBSET (0 .. N)
      OBVIOUS
    <2>3. QED
      BY <2>1, <2>2, FS_Subset
  <1>3. PICK m \in Bad : \A y \in Bad : m <= y
    BY <1>1, <1>2, LeastElement
  <1>4. m # 0
    <2>1. IsAfter([k \in 0 .. 0 |-> <<buffer, content>>], 0)
      BY DEF IsAfter
    <2>2. QED
      BY <2>1
  <1>5. m - 1 \in 0 .. N /\ m - 1 \notin Bad /\ m \in Nat
    BY <1>3, <1>4
  <1>6. PICK f : IsAfter(f, m - 1)
    BY <1>5
  <1> DEFINE g == [k \in 0 .. m |-> IF k = m THEN Soc!PutBack(f[m - 1][1], f[m - 1][2], m - 1)
                                    ELSE f[k]]
  <1>7. \A k \in 0 .. m - 1 : g[k] = f[k]
    BY <1>5
  <1>8. ASSUME NEW k \in 0 .. m
        PROVE  g[k] = IF k = 0 THEN <<buffer, content>>
                      ELSE Soc!PutBack(g[k - 1][1], g[k - 1][2], k - 1)
    <2>1. CASE k = m
      <3>1. g[k] = Soc!PutBack(f[m - 1][1], f[m - 1][2], m - 1) /\ m - 1 \in 0 .. m - 1
        BY <1>5, <2>1
      <3>2. g[k - 1] = f[m - 1]
        BY <1>7, <2>1, <3>1
      <3>3. QED
        BY <1>4, <2>1, <3>1, <3>2
    <2>2. CASE k # m
      <3>1. k \in 0 .. m - 1
        BY <1>5, <2>2
      <3>2. g[k] = f[k]
        BY <1>7, <3>1
      <3>3. f[k] = IF k = 0 THEN <<buffer, content>>
                   ELSE Soc!PutBack(f[k - 1][1], f[k - 1][2], k - 1)
        BY <1>6, <3>1 DEF IsAfter
      <3>4. CASE k = 0
        BY <3>2, <3>3, <3>4
      <3>5. CASE k # 0
        <4>1. k - 1 \in 0 .. m - 1
          BY <3>1, <3>5
        <4>2. g[k - 1] = f[k - 1]
          BY <1>7, <4>1
        <4>3. QED
          BY <3>2, <3>3, <3>5, <4>2
      <3>6. QED
        BY <3>4, <3>5
    <2>3. QED
      BY <2>1, <2>2
  <1>9. IsAfter(g, m)
    <2>1. g = [k \in 0 .. m |-> g[k]]
      OBVIOUS
    <2> HIDE DEF g
    <2>2. g = [k \in 0 .. m |-> IF k = 0 THEN <<buffer, content>>
                                ELSE Soc!PutBack(g[k - 1][1], g[k - 1][2], k - 1)]
      BY <1>8, <2>1
    <2>3. QED
      BY <2>2 DEF IsAfter
  <1>10. QED
    BY <1>3, <1>9

\* AfterPutBack is what the loop has come to after its last node.
LEMMA AfterIs ==
    ASSUME PlayersAssumption
    PROVE  \E after : IsAfter(after, Cardinality(SocNodes))
                      /\ Soc!AfterPutBack = after[Cardinality(SocNodes)]
  <1>1. Cardinality(SocNodes) \in Nat
    BY SocFacts, FS_CardinalityType
  <1>2. Soc!Cardinality(SocNodes) = Cardinality(SocNodes)
    BY DEF Soc!Cardinality, Cardinality
  <1> DEFINE N == Cardinality(SocNodes)
             a == CHOOSE after : IsAfter(after, N)
  <1> HIDE DEF N
  <1>3. \E after : IsAfter(after, N)
    BY <1>1, AfterExists DEF N
  <1>4. Soc!AfterPutBack = a[N]
    BY <1>2, Zenon DEF Soc!AfterPutBack, IsAfter, N
  <1>5. QED
    BY <1>3, <1>4 DEF N


\* The first packet number the server has not been given.
Unsent == messageId - Len(toSend)

\* The packets of the objects in the buffer, the numbers in a function, and
\* that none of them is there twice.
Contents == [i \in DOMAIN buffer |-> content[buffer[i]]]
Numbers(f) == {f[i] : i \in DOMAIN f} \ {-1}
Distinct(f) == \A i, j \in DOMAIN f : f[i] = f[j] /\ f[i] # -1 => i = j

\* The packets the server and the test bench may hold.
GivenOut == {n \in DOMAIN inTransit : n < Unsent}

Apart(s1, s2, s3, s4, s5, s6) ==
  /\ s1 \cap s2 = {} /\ s1 \cap s3 = {} /\ s1 \cap s4 = {} /\ s1 \cap s5 = {} /\ s1 \cap s6 = {}
  /\ s2 \cap s3 = {} /\ s2 \cap s4 = {} /\ s2 \cap s5 = {} /\ s2 \cap s6 = {}
  /\ s3 \cap s4 = {} /\ s3 \cap s5 = {} /\ s3 \cap s6 = {}
  /\ s4 \cap s5 = {} /\ s4 \cap s6 = {} /\ s5 \cap s6 = {}

\* No packet is in two places of the server and of the test bench.
HeldApart ==
  /\ Distinct(Contents) /\ Distinct(offered) /\ Distinct(refused)
  /\ Distinct(returned) /\ Distinct(ejectBuffer)
  /\ Apart(Numbers(Contents), Numbers(offered), Numbers(refused), Numbers(returned),
           Numbers(ejectBuffer), network)
  /\ Numbers(Contents) \cup Numbers(offered) \cup Numbers(refused) \cup Numbers(returned)
       \cup Numbers(ejectBuffer) \cup network \subseteq GivenOut

SocType ==
  /\ cycle \in Nat
  /\ client \notin {"cycle", "quit", "ended"} => cycle < NumCycles
  /\ toSend \in Seq(Nat) /\ (client # "inject" => toSend = <<>>)
  /\ buffer \in Seq(0 .. MaxId) /\ content \in [0 .. MaxId -> Nat]
  /\ offered \in [SocNodes -> Int] /\ refused \in [SocNodes -> Int]
  /\ returned \in [SocNodes -> Int] /\ ejectBuffer \in Seq(Nat)

\* The packets to send are the last numbers given; the objects of the server
\* are those below, and only the object _req points to is written.
Objects ==
  /\ Len(toSend) <= messageId /\ messageId <= MaxId + 1
  /\ \A i \in DOMAIN toSend : toSend[i] = Unsent + i - 1 /\ toSend[i] \in DOMAIN inTransit
  /\ \A i \in DOMAIN buffer : buffer[i] < Unsent
  /\ \A i, j \in DOMAIN buffer : buffer[i] = buffer[j] => i = j
  /\ \A i \in 0 .. MaxId : i >= Unsent => content[i] = i
  /\ req \in -1 .. Unsent - 1
  /\ req = -1 => buffer = <<>> /\ Numbers(offered) = {} /\ Numbers(refused) = {}

SocInv == SocType /\ ModelInv(SocNodes, FALSE) /\ Objects /\ HeldApart

\* What holds of the buffer and the objects after m nodes: the objects are
\* different, and the one _req points to holds what it held or a refused packet.
LoopOK(b, c, m) ==
  /\ b \in Seq(0 .. MaxId) /\ c \in [0 .. MaxId -> Nat]
  /\ \A i, j \in DOMAIN b : b[i] = b[j] => i = j
  /\ \A o \in 0 .. MaxId : o # req => c[o] = content[o]
  /\ \A i \in DOMAIN b :
       \/ b[i] # req /\ \E j \in DOMAIN buffer : b[i] = buffer[j]
       \/ b[i] = req /\ c[req] = content[req] /\ \E j \in DOMAIN buffer : req = buffer[j]
       \/ b[i] = req /\ \E k \in SocNodes : k < m /\ c[req] = refused[k] /\ refused[k] # -1

\* What is known of the objects and _req before the loop.
LEMMA BeforeLoop ==
    ASSUME PlayersAssumption, SocInv
    PROVE  /\ LoopOK(buffer, content, 0)
           /\ req \in -1 .. MaxId
           /\ \A k \in SocNodes : refused[k] \in Int /\ (refused[k] # -1 => req # -1)
           /\ \A k \in SocNodes : refused[k] # -1 => refused[k] \in Nat
           /\ MaxId \in Nat
  <1>1. /\ buffer \in Seq(0 .. MaxId) /\ content \in [0 .. MaxId -> Nat]
        /\ refused \in [SocNodes -> Int] /\ MaxId \in Nat /\ messageId \in Nat
        /\ toSend \in Seq(Nat)
    BY SocFacts DEF SocInv, SocType, ModelInv
  <1>2. /\ \A i, j \in DOMAIN buffer : buffer[i] = buffer[j] => i = j
        /\ Unsent \in Int /\ Unsent <= MaxId + 1 /\ req \in -1 .. Unsent - 1
        /\ req = -1 => Numbers(refused) = {}
    <2>1. messageId <= MaxId + 1 /\ Len(toSend) \in Nat
      BY <1>1 DEF SocInv, Objects
    <2>2. Unsent \in Int /\ Unsent <= MaxId + 1
      BY <1>1, <2>1 DEF Unsent
    <2>3. QED
      BY <2>2 DEF SocInv, Objects
  <1>3. \A i \in DOMAIN buffer : buffer[i] = req => content[req] = content[req]
    OBVIOUS
  <1>4. LoopOK(buffer, content, 0)
    BY <1>1, <1>2 DEF LoopOK
  <1>5. req \in -1 .. MaxId
    BY <1>1, <1>2
  <1>6. ASSUME NEW k \in SocNodes, refused[k] # -1
        PROVE  req # -1 /\ refused[k] \in Nat
    <2>1. refused[k] \in Numbers(refused)
      BY <1>1, <1>6 DEF Numbers
    <2>2. refused[k] \in DOMAIN inTransit
      BY <2>1 DEF SocInv, HeldApart, GivenOut
    <2>3. messageId \in Nat /\ DOMAIN inTransit \subseteq 0 .. messageId - 1
      BY TransitNat DEF SocInv
    <2>4. refused[k] \in Nat
      BY <2>2, <2>3
    <2>5. QED
      BY <1>2, <2>1, <2>4
  <1>7. QED
    BY <1>1, <1>4, <1>5, <1>6

\* Putting back the refused packet of a node.
LEMMA PutBackOne ==
    ASSUME PlayersAssumption, SocInv, NEW b, NEW c, NEW k \in SocNodes, LoopOK(b, c, k)
    PROVE  LoopOK(Soc!PutBack(b, c, k)[1], Soc!PutBack(b, c, k)[2], k + 1)
  <1>1. /\ req \in -1 .. MaxId /\ MaxId \in Nat /\ k \in Nat
        /\ refused[k] # -1 => req # -1 /\ refused[k] \in Nat
        /\ \A m \in SocNodes : m \in Nat
    BY BeforeLoop, SocFacts
  <1>2. /\ b \in Seq(0 .. MaxId) /\ c \in [0 .. MaxId -> Nat]
        /\ \A i, j \in DOMAIN b : b[i] = b[j] => i = j
        /\ \A o \in 0 .. MaxId : o # req => c[o] = content[o]
        /\ \A i \in DOMAIN b :
             \/ b[i] # req /\ \E j \in DOMAIN buffer : b[i] = buffer[j]
             \/ b[i] = req /\ c[req] = content[req] /\ \E j \in DOMAIN buffer : req = buffer[j]
             \/ b[i] = req /\ \E m \in SocNodes : m < k /\ c[req] = refused[m] /\ refused[m] # -1
    BY DEF LoopOK
  <1>3. CASE refused[k] = -1
    <2>1. Soc!PutBack(b, c, k) = <<b, c>>
      BY <1>3 DEF Soc!PutBack, Soc!None
    <2>2. \A m \in SocNodes : m < k => m < k + 1
      BY <1>1
    <2>3. LoopOK(b, c, k + 1)
      BY <1>2, <2>2 DEF LoopOK
    <2>4. QED
      BY <2>1, <2>3
  <1>4. CASE refused[k] # -1
    <2>1. PICK new : new = [c EXCEPT ![req] = refused[k]]
      OBVIOUS
    <2>2. /\ req \in 0 .. MaxId /\ refused[k] \in Nat
          /\ new \in [0 .. MaxId -> Nat] /\ new[req] = refused[k]
          /\ \A o \in 0 .. MaxId : o # req => new[o] = content[o]
      BY <1>1, <1>2, <1>4, <2>1
    <2>3. k \in SocNodes /\ k < k + 1
      BY <1>1
    <2>4. ASSUME NEW i \in DOMAIN b
          PROVE  \/ b[i] # req /\ \E j \in DOMAIN buffer : b[i] = buffer[j]
                 \/ b[i] = req /\ \E m \in SocNodes :
                                    m < k + 1 /\ new[req] = refused[m] /\ refused[m] # -1
      BY <1>2, <1>4, <2>2, <2>3
    <2>5. CASE \E i \in DOMAIN b : new[b[i]] = refused[k]
      <3>1. Soc!PutBack(b, c, k) = <<b, new>>
        BY <1>4, <2>1, <2>5 DEF Soc!PutBack, Soc!None
      <3>2. LoopOK(b, new, k + 1)
        BY <1>2, <2>2, <2>4 DEF LoopOK
      <3>3. QED
        BY <3>1, <3>2
    <2>6. CASE ~ \E i \in DOMAIN b : new[b[i]] = refused[k]
      <3>1. Soc!PutBack(b, c, k) = <<Append(b, req), new>>
        BY <1>4, <2>1, <2>6 DEF Soc!PutBack, Soc!None
      <3>2. \A i \in DOMAIN b : b[i] # req
        BY <2>2, <2>6
      <3>3. PICK d : d = Append(b, req)
        OBVIOUS
      <3>4. /\ d \in Seq(0 .. MaxId)
            /\ \A i \in DOMAIN d : \/ i \in DOMAIN b /\ d[i] = b[i]
                                   \/ i = Len(b) + 1 /\ d[i] = req
        BY <1>2, <2>2, <3>3
      <3>5. \A i, j \in DOMAIN d : d[i] = d[j] => i = j
        BY <1>2, <3>2, <3>4
      <3>6. ASSUME NEW i \in DOMAIN d
            PROVE  \/ d[i] # req /\ \E j \in DOMAIN buffer : d[i] = buffer[j]
                   \/ d[i] = req /\ \E m \in SocNodes :
                                      m < k + 1 /\ new[req] = refused[m] /\ refused[m] # -1
        BY <1>4, <2>2, <2>3, <2>4, <3>4
      <3>7. LoopOK(d, new, k + 1)
        BY <2>2, <3>4, <3>5, <3>6 DEF LoopOK
      <3>8. QED
        BY <3>1, <3>3, <3>7
    <2>7. QED
      BY <2>5, <2>6
  <1>5. QED
    BY <1>3, <1>4

\* All the refused packets put back.
LEMMA AllPutBack ==
    ASSUME PlayersAssumption, SocInv
    PROVE  LoopOK(Soc!AfterPutBack[1], Soc!AfterPutBack[2], Cardinality(SocNodes))
  <1>1. PICK N : N = Cardinality(SocNodes)
    OBVIOUS
  <1>2. N \in Nat /\ SocNodes = 0 .. N - 1
    BY <1>1, SocFacts, FS_CardinalityType
  <1>3. PICK after : IsAfter(after, N) /\ Soc!AfterPutBack = after[N]
    BY <1>1, AfterIs
  <1> DEFINE good(m) == LoopOK(after[m][1], after[m][2], m)
             Bad == {m \in 0 .. N : ~good(m)}
  <1>14. SUFFICES good(N)
    BY <1>1, <1>3
  <1> HIDE DEF good
  <1>4. SUFFICES ASSUME Bad # {} PROVE FALSE
    <2>1. N \in 0 .. N
      BY <1>2
    <2>2. QED
      BY <2>1
  <1>5. IsFiniteSet(Bad) /\ Bad \subseteq Int
    <2>1. IsFiniteSet(0 .. N)
      BY <1>2, FS_Interval
    <2>2. Bad \in SUBSET (0 .. N)
      OBVIOUS
    <2>3. IsFiniteSet(Bad)
      BY <2>1, <2>2, FS_Subset
    <2>4. QED
      BY <1>2, <2>2, <2>3
  <1>6. PICK m \in Bad : \A y \in Bad : m <= y
    BY <1>4, <1>5, LeastElement
  <1>7. m # 0
    <2>1. after[0] = <<buffer, content>>
      BY <1>2, <1>3 DEF IsAfter
    <2>2. LoopOK(buffer, content, 0)
      BY BeforeLoop
    <2>3. good(0)
      BY <2>1, <2>2 DEF good
    <2>4. QED
      BY <1>6, <2>3
  <1>8. m - 1 \in 0 .. N /\ m - 1 \notin Bad /\ m - 1 \in SocNodes /\ m \in Nat
    BY <1>2, <1>6, <1>7
  <1>9. LoopOK(after[m - 1][1], after[m - 1][2], m - 1)
    BY <1>8 DEF good
  <1>10. after[m] = Soc!PutBack(after[m - 1][1], after[m - 1][2], m - 1)
    BY <1>2, <1>3, <1>6, <1>7 DEF IsAfter
  <1>11. LoopOK(after[m][1], after[m][2], (m - 1) + 1)
    BY <1>8, <1>9, <1>10, PutBackOne
  <1>12. (m - 1) + 1 = m
    BY <1>8
  <1>13. good(m)
    BY <1>11, <1>12 DEF good
  <1>15. QED
    BY <1>6, <1>13


\* The elements of a selection stay different, and come from the sequence.
LEMMA PickedOnce ==
    ASSUME NEW r, NEW s, NEW I, Picks(r, s, I), \A i, j \in I : s[i] = s[j] => i = j
    PROVE  /\ \A k \in DOMAIN r : \E i \in I : r[k] = s[i]
           /\ \A j, k \in DOMAIN r : r[j] = r[k] => j = k
  BY DEF Picks

\* What the server does with the objects b of its buffer, which hold the
\* packets c: it offers one to each ready node and keeps the others.
LEMMA OfferSplits ==
    ASSUME PlayersAssumption, NEW b \in Seq(0 .. MaxId), NEW c \in [0 .. MaxId -> Nat],
           \A i, j \in DOMAIN b : b[i] = b[j] => i = j,
           \A i, j \in DOMAIN b : c[b[i]] = c[b[j]] => i = j,
           Soc!Offer(b, c)
    PROVE  /\ buffer' \in Seq(0 .. MaxId)
           /\ \A k \in DOMAIN buffer' : \E i \in DOMAIN b : buffer'[k] = b[i]
           /\ \A j, k \in DOMAIN buffer' : buffer'[j] = buffer'[k] => j = k
           /\ offered' \in [SocNodes -> Int]
           /\ \A k \in SocNodes : offered'[k] # -1 =>
                \E i \in DOMAIN b : /\ offered'[k] = c[b[i]]
                                    /\ \A j \in DOMAIN buffer' : buffer'[j] # b[i]
           /\ \A k, m \in SocNodes : offered'[k] = offered'[m] /\ offered'[k] # -1 => k = m
           /\ b = <<>> => req' = req
           /\ b # <<>> => \E i \in DOMAIN b : req' = b[i]
  <1> DEFINE At(k) == {i \in DOMAIN b : inTransit[c[b[i]]].source = k}
             held(k) == ElementsAt(b, At(k))
             given == {held(k)[1] : k \in {m \in ready : held(m) # <<>>}}
             Rest == {i \in DOMAIN b : b[i] \notin given}
  <1>1. /\ offered' = [k \in SocNodes |-> IF k \in ready /\ held(k) # <<>> THEN c[held(k)[1]]
                                          ELSE -1]
        /\ buffer' = ElementsAt(b, Rest)
        /\ req' = IF b = <<>> THEN req ELSE b[Len(b)]
    BY Zenon DEF Soc!Offer, Soc!Select, Soc!NodeOf, Soc!None, Soc!Last, Soc!ElementsAt, ElementsAt,
       Soc!InOrder, InOrder, Soc!Cardinality, Cardinality
  <1>2. ASSUME NEW k, held(k) # <<>>
        PROVE  \E i \in At(k) : held(k)[1] = b[i]
    <2>1. At(k) \in SUBSET DOMAIN b
      OBVIOUS
    <2> HIDE DEF At
    <2>2. held(k) \in Seq(0 .. MaxId) /\ Picks(held(k), b, At(k))
      BY <2>1, ElementsArePicked
    <2>3. 1 \in DOMAIN held(k)
      BY <1>2, <2>2
    <2> HIDE DEF held
    <2>4. QED
      BY <2>2, <2>3 DEF Picks
  <1> HIDE DEF held
  <1>3. ASSUME NEW k \in SocNodes, offered'[k] # -1
        PROVE  k \in ready /\ held(k) # <<>> /\ offered'[k] = c[held(k)[1]]
    BY <1>1, <1>3
  <1>4. /\ buffer' \in Seq(0 .. MaxId)
        /\ \A k \in DOMAIN buffer' : \E i \in Rest : buffer'[k] = b[i]
        /\ \A j, k \in DOMAIN buffer' : buffer'[j] = buffer'[k] => j = k
    <2>1. Rest \in SUBSET DOMAIN b /\ \A i, j \in Rest : b[i] = b[j] => i = j
      OBVIOUS
    <2> HIDE DEF Rest
    <2>2. ElementsAt(b, Rest) \in Seq(0 .. MaxId) /\ Picks(ElementsAt(b, Rest), b, Rest)
      BY <2>1, ElementsArePicked
    <2>3. PICK r : r = ElementsAt(b, Rest)
      OBVIOUS
    <2>4. /\ \A k \in DOMAIN r : \E i \in Rest : r[k] = b[i]
          /\ \A j, k \in DOMAIN r : r[j] = r[k] => j = k
      BY <2>1, <2>2, <2>3, PickedOnce
    <2>5. QED
      BY <1>1, <2>2, <2>3, <2>4
  <1>5. ASSUME NEW k \in SocNodes, offered'[k] # -1
        PROVE  \E i \in At(k) : /\ offered'[k] = c[b[i]]
                                /\ \A j \in DOMAIN buffer' : buffer'[j] # b[i]
    <2>1. k \in ready /\ held(k) # <<>> /\ offered'[k] = c[held(k)[1]]
      BY <1>3, <1>5
    <2>2. PICK i \in At(k) : held(k)[1] = b[i]
      BY <1>2, <2>1
    <2>3. b[i] \in given
      BY <2>1, <2>2
    <2>4. \A j \in DOMAIN buffer' : buffer'[j] # b[i]
      BY <1>4, <2>3
    <2>5. QED
      BY <2>1, <2>2, <2>4
  <1>6. offered' \in [SocNodes -> Int]
    <2>1. ASSUME NEW k \in SocNodes PROVE offered'[k] \in Int
      <3>1. CASE offered'[k] = -1
        BY <3>1
      <3>2. CASE offered'[k] # -1
        <4>1. PICK i \in At(k) : offered'[k] = c[b[i]]
          BY <1>5, <3>2
        <4>2. i \in DOMAIN b /\ MaxId \in Nat
          BY SocFacts
        <4>3. b[i] \in 0 .. MaxId
          BY <4>2
        <4>4. c[b[i]] \in Nat
          BY <4>3
        <4>5. QED
          BY <4>1, <4>4
      <3>3. QED
        BY <3>1, <3>2
    <2>2. QED
      BY <1>1, <2>1
  <1>7. ASSUME NEW k \in SocNodes, NEW m \in SocNodes, offered'[k] = offered'[m],
               offered'[k] # -1
        PROVE  k = m
    <2>1. PICK i \in At(k) : offered'[k] = c[b[i]]
      BY <1>5, <1>7
    <2>2. PICK j \in At(m) : offered'[m] = c[b[j]]
      BY <1>5, <1>7
    <2>3. c[b[i]] = c[b[j]] /\ i \in DOMAIN b /\ j \in DOMAIN b
      BY <1>7, <2>1, <2>2
    <2>4. i = j
      BY <2>3
    <2>5. QED
      BY <2>1, <2>2, <2>4
  <1>8. b # <<>> => \E i \in DOMAIN b : req' = b[i]
    <2>1. b # <<>> => Len(b) \in DOMAIN b
      OBVIOUS
    <2>2. QED
      BY <1>1, <2>1
  <1>9. \A k \in DOMAIN buffer' : \E i \in DOMAIN b : buffer'[k] = b[i]
    BY <1>4
  <1>10. \A k \in SocNodes : offered'[k] # -1 =>
           \E i \in DOMAIN b : /\ offered'[k] = c[b[i]]
                               /\ \A j \in DOMAIN buffer' : buffer'[j] # b[i]
    BY <1>5
  <1>11. b = <<>> => req' = req
    BY <1>1
  <1>12. QED
    BY <1>4, <1>6, <1>7, <1>8, <1>9, <1>10, <1>11

\* Types of what the invariant of the generator is about.
LEMMA SocTypes ==
    ASSUME PlayersAssumption, SocInv
    PROVE  /\ messageId \in Nat /\ Len(toSend) \in Nat /\ Unsent \in Nat /\ Unsent <= messageId
           /\ Unsent <= MaxId + 1 /\ MaxId \in Nat
           /\ DOMAIN inTransit \subseteq 0 .. messageId - 1
           /\ \A i \in DOMAIN buffer : buffer[i] \in 0 .. MaxId /\ content[buffer[i]] \in Nat
           /\ cycle \in Nat
           /\ client \notin {"cycle", "quit", "ended"} => cycle \in 0 .. Horizon
           /\ hierClass \in HierClasses \cup {1} /\ state \in Classes \cup {1}
  <1>1. /\ messageId \in Nat /\ DOMAIN inTransit \subseteq 0 .. messageId - 1
        /\ toSend \in Seq(Nat) /\ buffer \in Seq(0 .. MaxId) /\ content \in [0 .. MaxId -> Nat]
        /\ MaxId \in Nat /\ Horizon \in Nat /\ NumCycles \in Nat /\ NumCycles <= Horizon + 1
        /\ Len(toSend) <= messageId /\ messageId <= MaxId + 1
    BY TransitNat, SocFacts DEF SocInv, SocType, Objects
  <1>2. Len(toSend) \in Nat /\ Unsent \in Nat /\ Unsent <= messageId /\ Unsent <= MaxId + 1
    BY <1>1 DEF Unsent
  <1>3. \A i \in DOMAIN buffer : buffer[i] \in 0 .. MaxId /\ content[buffer[i]] \in Nat
    BY <1>1
  <1>4. /\ cycle \in Nat
        /\ client \notin {"cycle", "quit", "ended"} => cycle \in 0 .. Horizon
    BY <1>1 DEF SocInv, SocType
  <1>5. hierClass \in HierClasses \cup {1} /\ state \in Classes \cup {1}
    BY DEF SocInv, ModelInv
  <1>6. QED
    BY <1>1, <1>2, <1>3, <1>4, <1>5

\* What is known of the objects after all the refused packets are put back.
LEMMA PutBackHolds ==
    ASSUME PlayersAssumption, SocInv, NEW b, NEW c, LoopOK(b, c, Cardinality(SocNodes))
    PROVE  /\ b \in Seq(0 .. MaxId) /\ c \in [0 .. MaxId -> Nat]
           /\ \A i, j \in DOMAIN b : b[i] = b[j] => i = j
           /\ \A i, j \in DOMAIN b : c[b[i]] = c[b[j]] => i = j
           /\ \A i \in DOMAIN b : /\ b[i] \in 0 .. Unsent - 1
                                  /\ c[b[i]] \in Numbers(Contents) \cup Numbers(refused)
           /\ \A o \in 0 .. MaxId : o >= Unsent => c[o] = o
           /\ req = -1 => DOMAIN b = {}
  <1>1. /\ b \in Seq(0 .. MaxId) /\ c \in [0 .. MaxId -> Nat]
        /\ \A i, j \in DOMAIN b : b[i] = b[j] => i = j
        /\ \A o \in 0 .. MaxId : o # req => c[o] = content[o]
        /\ \A i \in DOMAIN b :
             \/ b[i] # req /\ \E j \in DOMAIN buffer : b[i] = buffer[j]
             \/ b[i] = req /\ c[req] = content[req] /\ \E j \in DOMAIN buffer : req = buffer[j]
             \/ b[i] = req /\ \E k \in SocNodes : c[req] = refused[k] /\ refused[k] # -1
    BY DEF LoopOK
  <1>2. /\ Unsent \in Nat /\ Unsent <= MaxId + 1 /\ MaxId \in Nat
        /\ \A i \in DOMAIN buffer : buffer[i] \in 0 .. MaxId /\ content[buffer[i]] \in Nat
    BY SocTypes
  <1>3. /\ \A i \in DOMAIN buffer : buffer[i] < Unsent
        /\ \A i \in 0 .. MaxId : i >= Unsent => content[i] = i
        /\ req \in -1 .. Unsent - 1
        /\ req = -1 => buffer = <<>>
        /\ Distinct(Contents) /\ Numbers(Contents) \cap Numbers(refused) = {}
        /\ refused \in [SocNodes -> Int]
    BY DEF SocInv, Objects, HeldApart, Apart, SocType
  <1>4. ASSUME NEW i \in DOMAIN b
        PROVE  b[i] \in 0 .. MaxId
    BY <1>1, <1>2
  <1>5. ASSUME NEW i \in DOMAIN b
        PROVE  \/ \E j \in DOMAIN buffer : b[i] = buffer[j] /\ c[b[i]] = Contents[j]
               \/ b[i] = req /\ c[b[i]] \in Numbers(refused)
    <2>1. CASE b[i] # req /\ \E j \in DOMAIN buffer : b[i] = buffer[j]
      BY <1>1, <1>4, <2>1 DEF Contents
    <2>2. CASE b[i] = req /\ c[req] = content[req] /\ \E j \in DOMAIN buffer : req = buffer[j]
      BY <2>2 DEF Contents
    <2>3. CASE b[i] = req /\ \E k \in SocNodes : c[req] = refused[k] /\ refused[k] # -1
      BY <1>3, <2>3 DEF Numbers
    <2>4. QED
      BY <1>1, <2>1, <2>2, <2>3
  <1>6. \A j \in DOMAIN buffer : Contents[j] \in Numbers(Contents) /\ Contents[j] # -1
    BY <1>2 DEF Contents, Numbers
  <1>7. ASSUME NEW i \in DOMAIN b
        PROVE  /\ b[i] \in 0 .. Unsent - 1
               /\ c[b[i]] \in Numbers(Contents) \cup Numbers(refused)
    <2>1. b[i] \in 0 .. MaxId
      BY <1>4
    <2>2. CASE \E j \in DOMAIN buffer : b[i] = buffer[j] /\ c[b[i]] = Contents[j]
      BY <1>2, <1>3, <1>6, <2>1, <2>2
    <2>3. CASE b[i] = req /\ c[b[i]] \in Numbers(refused)
      BY <1>2, <1>3, <2>1, <2>3
    <2>4. QED
      BY <1>5, <2>2, <2>3
  <1>8. ASSUME NEW i \in DOMAIN b, NEW j \in DOMAIN b, c[b[i]] = c[b[j]]
        PROVE  i = j
    <2>1. CASE b[i] = req /\ b[j] = req
      BY <1>1, <2>1
    <2>2. CASE /\ \E k \in DOMAIN buffer : b[i] = buffer[k] /\ c[b[i]] = Contents[k]
               /\ \E k \in DOMAIN buffer : b[j] = buffer[k] /\ c[b[j]] = Contents[k]
      <3>1. PICK k \in DOMAIN buffer : b[i] = buffer[k] /\ c[b[i]] = Contents[k]
        BY <2>2
      <3>2. PICK l \in DOMAIN buffer : b[j] = buffer[l] /\ c[b[j]] = Contents[l]
        BY <2>2
      <3>3. Contents[k] = Contents[l] /\ Contents[k] # -1 /\ DOMAIN Contents = DOMAIN buffer
        BY <1>6, <1>8, <3>1, <3>2 DEF Contents
      <3>4. k = l
        BY <1>3, <3>3 DEF Distinct
      <3>5. QED
        BY <1>1, <3>1, <3>2, <3>4
    <2>3. CASE /\ \E k \in DOMAIN buffer : b[i] = buffer[k] /\ c[b[i]] = Contents[k]
               /\ c[b[j]] \in Numbers(refused)
      BY <1>3, <1>6, <1>8, <2>3
    <2>4. CASE /\ \E k \in DOMAIN buffer : b[j] = buffer[k] /\ c[b[j]] = Contents[k]
               /\ c[b[i]] \in Numbers(refused)
      BY <1>3, <1>6, <1>8, <2>4
    <2>5. QED
      BY <1>5, <2>1, <2>2, <2>3, <2>4
  <1>9. ASSUME NEW o \in 0 .. MaxId, o >= Unsent PROVE c[o] = o
    <2>1. o # req
      BY <1>2, <1>3, <1>9
    <2>2. QED
      BY <1>1, <1>3, <1>9, <2>1
  <1>10. ASSUME req = -1 PROVE DOMAIN b = {}
    <2>1. DOMAIN buffer = {}
      BY <1>3, <1>10
    <2>2. \A i \in DOMAIN b : b[i] # req
      BY <1>2, <1>4, <1>10
    <2>3. QED
      BY <1>5, <2>1, <2>2
  <1>11. QED
    BY <1>1, <1>7, <1>8, <1>9, <1>10


\* STEP_REQ puts the refused packets back and offers others.
LEMMA StepKeeps ==
    ASSUME PlayersAssumption, SocInv, Soc!StepRequest
    PROVE  SocInv'
  <1>1. /\ client = "step" /\ client' = "cycle"
        /\ cycle' = (IF allPacketsEjected THEN NumCycles ELSE cycle) + 1
        /\ UNCHANGED <<hierClass, state, injectionDone, totalQueued, messageId, inTransit,
                       transactions, queue, toSend, network, returned, ejectBuffer>>
        /\ refused' = [k \in SocNodes |-> -1]
        /\ content' = Soc!AfterPutBack[2]
        /\ Soc!Offer(Soc!AfterPutBack[1], Soc!AfterPutBack[2])
    BY DEF Soc!StepRequest, Soc!StepServer, Soc!None
  <1>2. PICK b, c : b = Soc!AfterPutBack[1] /\ c = Soc!AfterPutBack[2]
    OBVIOUS
  <1>3. LoopOK(b, c, Cardinality(SocNodes)) /\ Soc!Offer(b, c) /\ content' = c
    BY <1>1, <1>2, AllPutBack
  <1>4. /\ b \in Seq(0 .. MaxId) /\ c \in [0 .. MaxId -> Nat]
        /\ \A i, j \in DOMAIN b : b[i] = b[j] => i = j
        /\ \A i, j \in DOMAIN b : c[b[i]] = c[b[j]] => i = j
        /\ \A i \in DOMAIN b : /\ b[i] \in 0 .. Unsent - 1
                               /\ c[b[i]] \in Numbers(Contents) \cup Numbers(refused)
        /\ \A o \in 0 .. MaxId : o >= Unsent => c[o] = o
        /\ req = -1 => DOMAIN b = {}
    BY <1>3, PutBackHolds
  <1>5. /\ buffer' \in Seq(0 .. MaxId)
        /\ \A k \in DOMAIN buffer' : \E i \in DOMAIN b : buffer'[k] = b[i]
        /\ \A j, k \in DOMAIN buffer' : buffer'[j] = buffer'[k] => j = k
        /\ offered' \in [SocNodes -> Int]
        /\ \A k \in SocNodes : offered'[k] # -1 =>
             \E i \in DOMAIN b : /\ offered'[k] = c[b[i]]
                                 /\ \A j \in DOMAIN buffer' : buffer'[j] # b[i]
        /\ \A k, m \in SocNodes : offered'[k] = offered'[m] /\ offered'[k] # -1 => k = m
        /\ b = <<>> => req' = req
        /\ b # <<>> => \E i \in DOMAIN b : req' = b[i]
    BY <1>3, <1>4, OfferSplits
  <1>6. /\ messageId \in Nat /\ Unsent \in Nat /\ Unsent <= MaxId + 1 /\ MaxId \in Nat
        /\ Unsent' = Unsent /\ cycle \in Nat /\ NumCycles \in Nat
    BY <1>1, SocTypes, SocFacts DEF Unsent
  <1>7. ModelInv(SocNodes, FALSE)'
    <2>1. ModelInv(SocNodes, FALSE) /\ hierClass' \in HierClasses \cup {1}
          /\ state' \in Classes \cup {1}
      BY <1>1, SocTypes DEF SocInv
    <2>2. QED
      BY <1>1, <2>1, ModelStays
  <1>8. SocType'
    <2>1. cycle' \in Nat
      BY <1>1, <1>6
    <2>2. refused' \in [SocNodes -> Int]
      BY <1>1
    <2>3. QED
      BY <1>1, <1>3, <1>4, <1>5, <2>1, <2>2 DEF SocInv, SocType
  <1>9. Numbers(refused)' = {} /\ Distinct(refused)'
    BY <1>1 DEF Numbers, Distinct
  <1>10. Objects'
    <2>1. \A i \in DOMAIN buffer' : buffer'[i] < Unsent
      BY <1>4, <1>5, <1>6
    <2>2. req' \in -1 .. Unsent - 1
      <3>1. req \in -1 .. Unsent - 1
        BY DEF SocInv, Objects
      <3>2. QED
        BY <1>4, <1>5, <1>6, <3>1
    <2>3. ASSUME req' = -1
          PROVE  buffer' = <<>> /\ Numbers(offered)' = {}
      <3>1. DOMAIN b = {}
        <4>1. CASE b = <<>>
          BY <4>1
        <4>2. CASE b # <<>>
          BY <1>4, <1>5, <1>6, <2>3, <4>2
        <4>3. QED
          BY <4>1, <4>2
      <3>2. DOMAIN buffer' = {} /\ \A k \in SocNodes : offered'[k] = -1
        BY <1>5, <3>1
      <3>3. buffer' = <<>>
        BY <1>5, <3>2
      <3>4. Numbers(offered)' = {}
        BY <1>5, <3>2 DEF Numbers
      <3>5. QED
        BY <3>3, <3>4
    <2>4. Unsent' = messageId' - Len(toSend')
      BY DEF Unsent
    <2>5. \A o \in 0 .. MaxId : o >= Unsent => content'[o] = o
      BY <1>3, <1>4
    <2>6. QED
      BY <1>1, <1>5, <1>6, <1>9, <2>1, <2>2, <2>3, <2>5 DEF SocInv, Objects
  <1>11. HeldApart'
    <2>1. \A i \in DOMAIN buffer' : Contents'[i] = c[buffer'[i]]
      BY <1>3 DEF Contents
    <2>2. DOMAIN Contents' = DOMAIN buffer'
      BY DEF Contents
    <2>3. Distinct(Contents)'
      <3> SUFFICES ASSUME NEW i \in DOMAIN buffer', NEW j \in DOMAIN buffer',
                          Contents'[i] = Contents'[j]
                   PROVE  i = j
        BY <2>2 DEF Distinct
      <3>1. PICK k \in DOMAIN b : buffer'[i] = b[k]
        BY <1>5
      <3>2. PICK l \in DOMAIN b : buffer'[j] = b[l]
        BY <1>5
      <3>3. c[b[k]] = c[b[l]]
        BY <2>1, <3>1, <3>2
      <3>4. QED
        BY <1>4, <1>5, <3>1, <3>2, <3>3
    <2>4. Distinct(offered)'
      BY <1>5 DEF Distinct
    <2>5. Numbers(Contents)' \subseteq Numbers(Contents) \cup Numbers(refused)
      BY <1>4, <1>5, <2>1, <2>2 DEF Numbers
    <2>6. Numbers(offered)' \subseteq Numbers(Contents) \cup Numbers(refused)
      <3>1. ASSUME NEW k \in SocNodes, offered'[k] # -1
            PROVE  offered'[k] \in Numbers(Contents) \cup Numbers(refused)
        BY <1>4, <1>5, <3>1
      <3>2. QED
        BY <1>5, <3>1 DEF Numbers
    <2>7. Numbers(Contents)' \cap Numbers(offered)' = {}
      <3> SUFFICES ASSUME NEW i \in DOMAIN buffer', NEW k \in SocNodes,
                          Contents'[i] = offered'[k], offered'[k] # -1
                   PROVE  FALSE
        BY <1>5, <2>2 DEF Numbers
      <3>1. PICK j \in DOMAIN b : /\ offered'[k] = c[b[j]]
                                  /\ \A l \in DOMAIN buffer' : buffer'[l] # b[j]
        BY <1>5
      <3>2. PICK l \in DOMAIN b : buffer'[i] = b[l]
        BY <1>5
      <3>3. c[b[l]] = c[b[j]]
        BY <2>1, <3>1, <3>2
      <3>4. QED
        BY <1>4, <3>1, <3>2, <3>3
    <2>8. /\ Distinct(returned)' /\ Distinct(ejectBuffer)'
          /\ Numbers(returned)' = Numbers(returned) /\ network' = network
          /\ Numbers(ejectBuffer)' = Numbers(ejectBuffer) /\ GivenOut' = GivenOut
      BY <1>1, <1>6 DEF SocInv, HeldApart, Distinct, Numbers, GivenOut
    <2>9. /\ Apart(Numbers(Contents), Numbers(offered), Numbers(refused), Numbers(returned),
                   Numbers(ejectBuffer), network)
          /\ Numbers(Contents) \cup Numbers(offered) \cup Numbers(refused) \cup Numbers(returned)
               \cup Numbers(ejectBuffer) \cup network \subseteq GivenOut
      BY DEF SocInv, HeldApart
    <2>10. /\ Apart(Numbers(Contents)', Numbers(offered)', Numbers(refused)', Numbers(returned)',
                    Numbers(ejectBuffer)', network')
           /\ Numbers(Contents)' \cup Numbers(offered)' \cup Numbers(refused)'
                \cup Numbers(returned)' \cup Numbers(ejectBuffer)' \cup network'
                \subseteq GivenOut'
      BY <1>9, <2>5, <2>6, <2>7, <2>8, <2>9 DEF Apart
    <2>11. QED
      BY <1>9, <2>3, <2>4, <2>8, <2>10 DEF HeldApart
  <1>12. QED
    BY <1>7, <1>8, <1>10, <1>11 DEF SocInv


\* A clock edge moves what was offered into the network or among the refused,
\* and packets of the network to their nodes.
LEMMA ClockKeeps ==
    ASSUME PlayersAssumption, SocInv, Soc!ClockEdge
    PROVE  SocInv'
  <1>1. /\ UNCHANGED <<cycle, hierClass, state, injectionDone, totalQueued, messageId, inTransit,
                       transactions, queue, client, toSend, buffer, content, req, ejectBuffer>>
        /\ refused' = [k \in SocNodes |-> IF k \in ready' THEN -1 ELSE offered[k]]
        /\ offered' = [k \in SocNodes |-> -1]
        /\ ready' \in SUBSET SocNodes
    BY DEF Soc!ClockEdge, Soc!None, Soc!modelVars
  <1>2. PICK out \in SUBSET network :
          /\ returned' = [k \in SocNodes |->
               IF \E n \in out : inTransit[n].dest = k
               THEN CHOOSE n \in out : inTransit[n].dest = k ELSE -1]
          /\ network' = (network \ out)
               \cup {offered[k] : k \in {m \in ready' : offered[m] # -1}}
    BY DEF Soc!ClockEdge, Soc!None
  <1>3. /\ SocType /\ Objects /\ HeldApart /\ ModelInv(SocNodes, FALSE)
        /\ Apart(Numbers(Contents), Numbers(offered), Numbers(refused), Numbers(returned),
                 Numbers(ejectBuffer), network)
        /\ Numbers(Contents) \cup Numbers(offered) \cup Numbers(refused) \cup Numbers(returned)
             \cup Numbers(ejectBuffer) \cup network \subseteq GivenOut
        /\ offered \in [SocNodes -> Int] /\ Distinct(offered)
    BY DEF SocInv, HeldApart, SocType
  <1>4. GivenOut \subseteq Nat /\ Unsent' = Unsent /\ GivenOut' = GivenOut
    BY <1>1, SocTypes DEF GivenOut, Unsent
  <1>5. ModelInv(SocNodes, FALSE)'
    <2>1. hierClass' \in HierClasses \cup {1} /\ state' \in Classes \cup {1}
      BY <1>1, SocTypes
    <2>2. QED
      BY <1>1, <1>3, <2>1, ModelStays
  <1>6. ASSUME NEW k \in SocNodes, returned'[k] # -1
        PROVE  returned'[k] \in out /\ inTransit[returned'[k]].dest = k
    <2>1. \E n \in out : inTransit[n].dest = k
      BY <1>2, <1>6
    <2>2. returned'[k] = CHOOSE n \in out : inTransit[n].dest = k
      BY <1>2, <2>1
    <2>3. QED
      BY <2>1, <2>2
  <1>7. out \subseteq network /\ out \subseteq Nat
    BY <1>3, <1>4
  <1>8. returned' \in [SocNodes -> Int] /\ Distinct(returned)' /\ Numbers(returned)' \subseteq out
    <2>1. \A k \in SocNodes : returned'[k] \in Int
      <3>1. ASSUME NEW k \in SocNodes PROVE returned'[k] \in Int
        <4>1. CASE returned'[k] = -1
          BY <4>1
        <4>2. CASE returned'[k] # -1
          <5>1. returned'[k] \in out
            BY <1>6, <4>2
          <5>2. \A n \in out : n \in Int
            BY <1>7
          <5>3. QED
            BY <5>1, <5>2
        <4>3. QED
          BY <4>1, <4>2
      <3>2. QED
        BY <3>1
    <2>2. DOMAIN returned' = SocNodes /\ returned' \in [SocNodes -> Int]
      BY <1>2, <2>1
    <2>3. Distinct(returned)'
      <3> SUFFICES ASSUME NEW k \in SocNodes, NEW m \in SocNodes, returned'[k] = returned'[m],
                          returned'[k] # -1
                   PROVE  k = m
        BY <2>2 DEF Distinct
      <3>1. inTransit[returned'[k]].dest = k /\ inTransit[returned'[m]].dest = m
        BY <1>6
      <3>2. QED
        BY <3>1
    <2>4. Numbers(returned)' \subseteq out
      BY <1>6, <2>2 DEF Numbers
    <2>5. QED
      BY <2>2, <2>3, <2>4
  <1>9. Numbers(offered)' = {} /\ Distinct(offered)' /\ offered' \in [SocNodes -> Int]
    BY <1>1 DEF Numbers, Distinct
  <1>10. /\ refused' \in [SocNodes -> Int] /\ Distinct(refused)'
         /\ Numbers(refused)' \subseteq Numbers(offered)
    <2>1. \A k \in SocNodes : \/ refused'[k] = -1
                              \/ refused'[k] = offered[k] /\ k \notin ready'
      BY <1>1
    <2>2. DOMAIN refused' = SocNodes /\ DOMAIN offered = SocNodes
      BY <1>1, <1>3
    <2>3. refused' \in [SocNodes -> Int]
      BY <1>1, <1>3
    <2>4. Distinct(refused)'
      BY <1>3, <2>1, <2>2 DEF Distinct
    <2>5. Numbers(refused)' \subseteq Numbers(offered)
      BY <2>1, <2>2 DEF Numbers
    <2>6. QED
      BY <2>3, <2>4, <2>5
  <1>11. \A n \in network' : \/ n \in network /\ n \notin out
                             \/ n \in Numbers(offered) /\ n \notin Numbers(refused)'
    <2> SUFFICES ASSUME NEW k \in ready', offered[k] # -1
                 PROVE  offered[k] \in Numbers(offered) /\ offered[k] \notin Numbers(refused)'
      BY <1>2
    <2>1. k \in SocNodes /\ DOMAIN offered = SocNodes /\ DOMAIN refused' = SocNodes
      BY <1>1, <1>3
    <2>2. offered[k] \in Numbers(offered)
      BY <2>1 DEF Numbers
    <2>3. \A m \in SocNodes : refused'[m] # -1 => m \notin ready' /\ refused'[m] = offered[m]
      BY <1>1
    <2>4. ASSUME NEW m \in SocNodes, refused'[m] # -1 PROVE refused'[m] # offered[k]
      BY <1>3, <2>1, <2>3, <2>4 DEF Distinct
    <2>5. QED
      BY <2>1, <2>2, <2>4 DEF Numbers
  <1>12. /\ Numbers(Contents)' = Numbers(Contents) /\ Distinct(Contents)'
         /\ Numbers(ejectBuffer)' = Numbers(ejectBuffer) /\ Distinct(ejectBuffer)'
    BY <1>1, <1>3 DEF Numbers, Distinct, Contents, HeldApart
  <1>13. SocType'
    BY <1>1, <1>3, <1>8, <1>9, <1>10 DEF SocType
  <1>14. Objects'
    <2>1. req' = -1 => buffer' = <<>> /\ Numbers(offered)' = {} /\ Numbers(refused)' = {}
      BY <1>1, <1>3, <1>9, <1>10 DEF Objects
    <2>2. QED
      BY <1>1, <1>3, <1>4, <2>1 DEF Objects
  <1>15. HeldApart'
    <2>1. Apart(Numbers(Contents)', Numbers(offered)', Numbers(refused)', Numbers(returned)',
                Numbers(ejectBuffer)', network')
      BY <1>3, <1>7, <1>8, <1>9, <1>10, <1>11, <1>12 DEF Apart
    <2>2. Numbers(Contents)' \cup Numbers(offered)' \cup Numbers(refused)'
            \cup Numbers(returned)' \cup Numbers(ejectBuffer)' \cup network'
            \subseteq GivenOut'
      BY <1>3, <1>4, <1>7, <1>8, <1>9, <1>10, <1>11, <1>12
    <2>3. QED
      BY <1>8, <1>9, <1>10, <1>12, <2>1, <2>2 DEF HeldApart
  <1>16. QED
    BY <1>5, <1>13, <1>14, <1>15 DEF SocInv


\* The server keeps the request it is sent in an object of its own.
LEMMA RequestKeeps ==
    ASSUME PlayersAssumption, SocInv, Soc!InjectRequest
    PROVE  SocInv'
  <1>1. /\ UNCHANGED <<cycle, hierClass, state, injectionDone, totalQueued, messageId, inTransit,
                       transactions, queue, client, content, offered, refused, network, returned,
                       ejectBuffer>>
        /\ toSend # <<>> /\ toSend' = Tail(toSend) /\ buffer' = Append(buffer, Head(toSend))
        /\ req' = Head(toSend) /\ client = "inject"
    BY DEF Soc!InjectRequest, Soc!modelVars
  <1>2. /\ SocType /\ Objects /\ HeldApart /\ ModelInv(SocNodes, FALSE)
        /\ toSend \in Seq(Nat) /\ buffer \in Seq(0 .. MaxId) /\ content \in [0 .. MaxId -> Nat]
        /\ messageId <= MaxId + 1 /\ Len(toSend) <= messageId
        /\ \A i \in DOMAIN toSend : toSend[i] = Unsent + i - 1 /\ toSend[i] \in DOMAIN inTransit
        /\ \A i \in DOMAIN buffer : buffer[i] < Unsent
        /\ \A i, j \in DOMAIN buffer : buffer[i] = buffer[j] => i = j
        /\ \A i \in 0 .. MaxId : i >= Unsent => content[i] = i
    BY DEF SocInv, SocType, Objects
  <1>3. /\ messageId \in Nat /\ Len(toSend) \in Nat /\ Unsent \in Nat /\ MaxId \in Nat
        /\ DOMAIN inTransit \subseteq 0 .. messageId - 1
        /\ \A i \in DOMAIN buffer : buffer[i] \in 0 .. MaxId /\ content[buffer[i]] \in Nat
    BY SocTypes
  <1>4. PICK h : h = Head(toSend)
    OBVIOUS
  <1>5. h = toSend[1] /\ 1 \in DOMAIN toSend
    BY <1>1, <1>2, <1>4
  <1>6. h = Unsent /\ h \in DOMAIN inTransit
    BY <1>2, <1>3, <1>5
  <1>7. h \in 0 .. MaxId /\ content[h] = h
    <2>1. h <= MaxId
      BY <1>2, <1>3, <1>6
    <2>2. QED
      BY <1>2, <1>3, <1>6, <2>1
  <1>8. /\ toSend' \in Seq(Nat) /\ Len(toSend') = Len(toSend) - 1
        /\ \A i \in DOMAIN toSend' : i + 1 \in DOMAIN toSend /\ toSend'[i] = toSend[i + 1]
    BY <1>1, <1>2
  <1>9. Unsent' = Unsent + 1 /\ Len(toSend') <= messageId /\ Len(toSend') \in Nat
    BY <1>1, <1>2, <1>3, <1>8 DEF Unsent
  <1>10. /\ buffer' \in Seq(0 .. MaxId)
         /\ \A i \in DOMAIN buffer' : \/ i \in DOMAIN buffer /\ buffer'[i] = buffer[i]
                                      \/ i = Len(buffer) + 1 /\ buffer'[i] = h
    BY <1>1, <1>2, <1>4, <1>7
  <1>11. ModelInv(SocNodes, FALSE)'
    <2>1. hierClass' \in HierClasses \cup {1} /\ state' \in Classes \cup {1}
      BY <1>1, SocTypes
    <2>2. QED
      BY <1>1, <1>2, <2>1, ModelStays
  <1>12. SocType'
    BY <1>1, <1>2, <1>8, <1>10 DEF SocType
  <1>13. \A i \in DOMAIN buffer : buffer[i] # h
    BY <1>2, <1>3, <1>6
  <1>14. Objects'
    <2>1. ASSUME NEW i \in DOMAIN toSend'
          PROVE  toSend'[i] = Unsent' + i - 1 /\ toSend'[i] \in DOMAIN inTransit'
      <3>1. toSend'[i] = Unsent + (i + 1) - 1 /\ toSend[i + 1] \in DOMAIN inTransit /\ i \in Nat
        BY <1>2, <1>8
      <3>2. Unsent + (i + 1) - 1 = (Unsent + 1) + i - 1
        BY <1>3, <3>1
      <3>3. QED
        BY <1>1, <1>8, <1>9, <3>1, <3>2
    <2>2. ASSUME NEW i \in DOMAIN buffer' PROVE buffer'[i] < Unsent'
      <3>1. CASE i \in DOMAIN buffer /\ buffer'[i] = buffer[i]
        <4>1. buffer[i] < Unsent /\ buffer[i] \in 0 .. MaxId
          BY <1>2, <1>3, <3>1
        <4>2. QED
          BY <1>3, <1>9, <3>1, <4>1
      <3>2. CASE i = Len(buffer) + 1 /\ buffer'[i] = h
        BY <1>3, <1>6, <1>9, <3>2
      <3>3. QED
        BY <1>10, <3>1, <3>2
    <2>3. \A i, j \in DOMAIN buffer' : buffer'[i] = buffer'[j] => i = j
      BY <1>2, <1>10, <1>13
    <2>4. \A i \in 0 .. MaxId : i >= Unsent' => content'[i] = i
      BY <1>1, <1>2, <1>3, <1>9
    <2>5. req' = Unsent
      BY <1>1, <1>4, <1>6
    <2>6. req' \in -1 .. Unsent' - 1 /\ req' # -1
      BY <1>3, <1>9, <2>5
    <2>7. messageId' <= MaxId + 1 /\ Len(toSend') <= messageId'
      BY <1>1, <1>2, <1>9
    <2>8. QED
      BY <2>1, <2>2, <2>3, <2>4, <2>6, <2>7 DEF Objects
  <1>15. HeldApart'
    <2>1. /\ DOMAIN Contents' = DOMAIN buffer' /\ DOMAIN Contents = DOMAIN buffer
          /\ \A i \in DOMAIN buffer' :
               \/ i \in DOMAIN buffer /\ Contents'[i] = Contents[i]
               \/ i = Len(buffer) + 1 /\ Contents'[i] = h
      BY <1>1, <1>7, <1>10 DEF Contents
    <2>2. GivenOut \subseteq GivenOut' /\ h \in GivenOut' /\ h \notin GivenOut
      BY <1>1, <1>3, <1>6, <1>9 DEF GivenOut
    <2>3. Numbers(Contents)' \subseteq Numbers(Contents) \cup {h}
      BY <2>1 DEF Numbers
    <2>4. /\ Apart(Numbers(Contents), Numbers(offered), Numbers(refused), Numbers(returned),
                   Numbers(ejectBuffer), network)
          /\ Numbers(Contents) \cup Numbers(offered) \cup Numbers(refused) \cup Numbers(returned)
               \cup Numbers(ejectBuffer) \cup network \subseteq GivenOut
          /\ Distinct(Contents)
      BY <1>2 DEF HeldApart
    <2>5. \A i \in DOMAIN buffer : Contents[i] # h
      <3>1. \A i \in DOMAIN buffer : Contents[i] \in Numbers(Contents)
        BY <1>3, <2>1 DEF Numbers, Contents
      <3>2. QED
        BY <2>2, <2>4, <3>1
    <2>6. Distinct(Contents)'
      <3> SUFFICES ASSUME NEW i \in DOMAIN buffer', NEW j \in DOMAIN buffer',
                          Contents'[i] = Contents'[j], Contents'[i] # -1
                   PROVE  i = j
        BY <2>1 DEF Distinct
      <3>1. CASE i \in DOMAIN buffer /\ Contents'[i] = Contents[i]
        <4>1. j \in DOMAIN buffer /\ Contents'[j] = Contents[j]
          BY <2>1, <2>5, <3>1
        <4>2. QED
          BY <2>1, <2>4, <3>1, <4>1 DEF Distinct
      <3>2. CASE i = Len(buffer) + 1 /\ Contents'[i] = h
        BY <2>1, <2>5, <3>2
      <3>3. QED
        BY <2>1, <3>1, <3>2
    <2>7. /\ Numbers(offered)' = Numbers(offered) /\ Numbers(refused)' = Numbers(refused)
          /\ Numbers(returned)' = Numbers(returned) /\ network' = network
          /\ Numbers(ejectBuffer)' = Numbers(ejectBuffer)
          /\ Distinct(offered)' /\ Distinct(refused)' /\ Distinct(returned)'
          /\ Distinct(ejectBuffer)'
      BY <1>1, <1>2 DEF HeldApart, Distinct, Numbers
    <2>8. /\ Apart(Numbers(Contents)', Numbers(offered)', Numbers(refused)', Numbers(returned)',
                   Numbers(ejectBuffer)', network')
          /\ Numbers(Contents)' \cup Numbers(offered)' \cup Numbers(refused)'
               \cup Numbers(returned)' \cup Numbers(ejectBuffer)' \cup network'
               \subseteq GivenOut'
      BY <2>2, <2>3, <2>4, <2>7 DEF Apart
    <2>9. QED
      BY <2>6, <2>7, <2>8 DEF HeldApart
  <1>16. QED
    BY <1>11, <1>12, <1>14, <1>15 DEF SocInv


\* Steps that move no packet keep them apart.
LEMMA HeldStays ==
    ASSUME HeldApart, GivenOut \subseteq GivenOut',
           UNCHANGED <<buffer, content, offered, refused, network, returned, ejectBuffer>>
    PROVE  HeldApart'
  <1>1. /\ Numbers(Contents)' = Numbers(Contents) /\ Numbers(offered)' = Numbers(offered)
        /\ Numbers(refused)' = Numbers(refused) /\ Numbers(returned)' = Numbers(returned)
        /\ Numbers(ejectBuffer)' = Numbers(ejectBuffer) /\ network' = network
    BY DEF Numbers, Contents
  <1>2. /\ Distinct(Contents)' /\ Distinct(offered)' /\ Distinct(refused)'
        /\ Distinct(returned)' /\ Distinct(ejectBuffer)'
    BY DEF HeldApart, Distinct, Contents
  <1>3. /\ Apart(Numbers(Contents)', Numbers(offered)', Numbers(refused)', Numbers(returned)',
                 Numbers(ejectBuffer)', network')
        /\ Numbers(Contents)' \cup Numbers(offered)' \cup Numbers(refused)'
             \cup Numbers(returned)' \cup Numbers(ejectBuffer)' \cup network'
             \subseteq GivenOut'
    BY <1>1 DEF HeldApart
  <1>4. QED
    BY <1>2, <1>3 DEF HeldApart

\* The packets that have arrived, in the order in which the generator gets them.
LEMMA ArrivedIs ==
    ASSUME PlayersAssumption, SocInv
    PROVE  /\ Soc!Arrived \in Seq(Nat)
           /\ \A i, j \in DOMAIN Soc!Arrived : Soc!Arrived[i] = Soc!Arrived[j] => i = j
           /\ \A i \in DOMAIN Soc!Arrived :
                Soc!Arrived[i] \in Numbers(returned) \cup Numbers(ejectBuffer)
  <1>1. PICK N : N = Cardinality(SocNodes)
    OBVIOUS
  <1>2. N \in Nat /\ SocNodes = 0 .. N - 1
    BY <1>1, SocFacts, FS_CardinalityType
  <1> DEFINE rs == [k \in 1 .. N |-> returned[k - 1]]
             J == {k \in 1 .. N : rs[k] # -1}
  <1>3. PICK sel : sel = ElementsAt(rs, J)
    OBVIOUS
  <1>4. Soc!Arrived = ejectBuffer \o sel
    <2>1. Soc!Cardinality(SocNodes) = N
      BY <1>1 DEF Soc!Cardinality, Cardinality
    <2>2. DOMAIN rs = 1 .. N
      OBVIOUS
    <2>3. Soc!Select(rs, LAMBDA n : n # -1) = ElementsAt(rs, {k \in DOMAIN rs : rs[k] # -1})
      BY Zenon DEF Soc!Select, Soc!ElementsAt, ElementsAt, Soc!InOrder, InOrder,
         Soc!Cardinality, Cardinality
    <2>4. Soc!Arrived = ejectBuffer \o Soc!Select(rs, LAMBDA n : n # -1)
      BY <2>1 DEF Soc!Arrived, Soc!None
    <2>5. {k \in DOMAIN rs : rs[k] # -1} = J
      BY <2>2
    <2> HIDE DEF rs, J
    <2>6. QED
      BY <1>3, <2>3, <2>4, <2>5
  <1>5. /\ returned \in [SocNodes -> Int] /\ ejectBuffer \in Seq(Nat)
        /\ Distinct(returned) /\ Distinct(ejectBuffer)
        /\ Numbers(returned) \cap Numbers(ejectBuffer) = {}
        /\ Numbers(returned) \subseteq GivenOut
    BY DEF SocInv, SocType, HeldApart, Apart
  <1>6. rs \in Seq(Int) /\ J \in SUBSET DOMAIN rs
    BY <1>2, <1>5
  <1>7. \A i, j \in J : rs[i] = rs[j] => i = j
    <2> SUFFICES ASSUME NEW i \in J, NEW j \in J, rs[i] = rs[j] PROVE i = j
      OBVIOUS
    <2>1. /\ i - 1 \in SocNodes /\ j - 1 \in SocNodes /\ i \in Nat /\ j \in Nat
          /\ returned[i - 1] = returned[j - 1] /\ returned[i - 1] # -1
      BY <1>2
    <2>2. i - 1 = j - 1
      BY <1>5, <2>1 DEF Distinct
    <2>3. QED
      BY <2>1, <2>2
  <1>8. \A i \in J : rs[i] \in Numbers(returned)
    BY <1>2, <1>5 DEF Numbers
  <1> HIDE DEF rs, J
  <1>9. sel \in Seq(Int) /\ Picks(sel, rs, J)
    BY <1>3, <1>6, ElementsArePicked
  <1>10. /\ \A k \in DOMAIN sel : \E i \in J : sel[k] = rs[i]
         /\ \A j, k \in DOMAIN sel : sel[j] = sel[k] => j = k
    BY <1>7, <1>9, PickedOnce
  <1>11. \A k \in DOMAIN sel : sel[k] \in Numbers(returned) /\ sel[k] \in Nat
    <2>1. GivenOut \subseteq Nat
      BY SocTypes DEF GivenOut
    <2>2. QED
      BY <1>5, <1>8, <1>10, <2>1
  <1>12. sel \in Seq(Nat)
    BY <1>9, <1>11
  <1>13. PICK e, arr : e = ejectBuffer /\ arr = Soc!Arrived
    OBVIOUS
  <1>20. e \in Seq(Nat)
    BY <1>5, <1>13
  <1>14. e \in Seq(Nat) /\ arr = e \o sel
    BY <1>4, <1>5, <1>13
  <1>15. /\ arr \in Seq(Nat)
         /\ \A i \in DOMAIN arr : \/ i \in DOMAIN e /\ arr[i] = e[i]
                                  \/ i - Len(e) \in DOMAIN sel /\ arr[i] = sel[i - Len(e)]
    BY <1>12, <1>14, Joined
  <1>16. \A i \in DOMAIN e : e[i] \in Numbers(ejectBuffer)
    BY <1>5, <1>13 DEF Numbers
  <1>17. \A i \in DOMAIN arr : arr[i] \in Numbers(returned) \cup Numbers(ejectBuffer)
    BY <1>11, <1>15, <1>16
  <1>18. ASSUME NEW i \in DOMAIN arr, NEW j \in DOMAIN arr, arr[i] = arr[j]
         PROVE  i = j
    <2>1. CASE i \in DOMAIN e /\ arr[i] = e[i] /\ j \in DOMAIN e /\ arr[j] = e[j]
      <3>2. e[i] = e[j]
        BY <1>18, <2>1, Zenon
      <3>4. \A k \in DOMAIN e : e[k] \in Nat
        BY <1>20
      <3>3. e[i] = e[j] /\ e[i] \in Nat
        BY <2>1, <3>2, <3>4
      <3>1. ejectBuffer[i] = ejectBuffer[j] /\ ejectBuffer[i] # -1
        BY <1>13, <3>3
      <3>5. QED
        BY <1>5, <1>13, <2>1, <3>1 DEF Distinct
    <2>2. CASE /\ i - Len(e) \in DOMAIN sel /\ arr[i] = sel[i - Len(e)]
               /\ j - Len(e) \in DOMAIN sel /\ arr[j] = sel[j - Len(e)]
      <3>1. sel[i - Len(e)] = sel[j - Len(e)]
        BY <1>18, <2>2
      <3>2. i - Len(e) = j - Len(e)
        BY <1>10, <2>2, <3>1
      <3>3. i \in Nat /\ j \in Nat /\ Len(e) \in Nat
        BY <1>14, <1>15
      <3>4. QED
        BY <3>2, <3>3
    <2>3. CASE /\ i \in DOMAIN e /\ arr[i] = e[i]
               /\ j - Len(e) \in DOMAIN sel /\ arr[j] = sel[j - Len(e)]
      <3>1. arr[i] \in Numbers(ejectBuffer) /\ arr[j] \in Numbers(returned)
        BY <1>11, <1>16, <2>3
      <3>2. QED
        BY <1>5, <1>18, <3>1
    <2>4. CASE /\ j \in DOMAIN e /\ arr[j] = e[j]
               /\ i - Len(e) \in DOMAIN sel /\ arr[i] = sel[i - Len(e)]
      <3>1. arr[j] \in Numbers(ejectBuffer) /\ arr[i] \in Numbers(returned)
        BY <1>11, <1>16, <2>4
      <3>2. QED
        BY <1>5, <1>18, <3>1
    <2>5. QED
      BY <1>15, <2>1, <2>2, <2>3, <2>4
  <1>19. QED
    BY <1>13, <1>15, <1>17, <1>18


\* The generator gets the packets that have arrived, one by one.
LEMMA AnswerKeeps ==
    ASSUME PlayersAssumption, SocInv, Soc!EjectRequest
    PROVE  SocInv'
  <1>1. /\ UNCHANGED <<cycle, hierClass, state, messageId, toSend, buffer, content, req, offered,
                       refused, network>>
        /\ client = "eject" /\ client' \in {"eject", "step"}
        /\ returned' = [k \in SocNodes |-> -1]
    BY DEF Soc!EjectRequest, Soc!None
  <1>2. PICK arr : arr = Soc!Arrived
    OBVIOUS
  <1>3. /\ arr \in Seq(Nat) /\ \A i, j \in DOMAIN arr : arr[i] = arr[j] => i = j
        /\ \A i \in DOMAIN arr : arr[i] \in Numbers(returned) \cup Numbers(ejectBuffer)
    BY <1>2, ArrivedIs
  <1>4. /\ SocType /\ Objects /\ HeldApart /\ ModelInv(SocNodes, FALSE)
        /\ Apart(Numbers(Contents), Numbers(offered), Numbers(refused), Numbers(returned),
                 Numbers(ejectBuffer), network)
        /\ Numbers(Contents) \cup Numbers(offered) \cup Numbers(refused) \cup Numbers(returned)
             \cup Numbers(ejectBuffer) \cup network \subseteq GivenOut
        /\ toSend = <<>>
    BY <1>1 DEF SocInv, HeldApart, SocType
  <1>5. /\ cycle \in 0 .. Horizon /\ cycle \in Nat /\ messageId \in Nat /\ Unsent' = Unsent
    BY <1>1, SocTypes DEF Unsent
  <1>6. /\ Numbers(Contents)' = Numbers(Contents) /\ Numbers(offered)' = Numbers(offered)
        /\ Numbers(refused)' = Numbers(refused) /\ network' = network
        /\ Distinct(Contents)' /\ Distinct(offered)' /\ Distinct(refused)'
    BY <1>1, <1>4 DEF Numbers, Distinct, Contents, HeldApart
  <1>7. Numbers(returned)' = {} /\ Distinct(returned)' /\ returned' \in [SocNodes -> Int]
    BY <1>1 DEF Numbers, Distinct
  <1>8. CASE arr = <<>>
    <2>1. /\ ejectBuffer' = <<>>
          /\ UNCHANGED <<inTransit, transactions, queue, totalQueued, injectionDone>>
      BY <1>2, <1>8 DEF Soc!EjectRequest
    <2>2. Numbers(ejectBuffer)' = {} /\ Distinct(ejectBuffer)' /\ ejectBuffer' \in Seq(Nat)
      BY <2>1 DEF Numbers, Distinct
    <2>3. GivenOut' = GivenOut
      BY <1>1, <1>5, <2>1 DEF GivenOut
    <2>4. ModelInv(SocNodes, FALSE)'
      <3>1. hierClass' \in HierClasses \cup {1} /\ state' \in Classes \cup {1}
        BY <1>1, SocTypes
      <3>2. QED
        BY <1>1, <1>4, <2>1, <3>1, ModelStays
    <2>5. SocType'
      BY <1>1, <1>4, <1>7, <2>2 DEF SocType
    <2>6. Objects'
      BY <1>1, <1>4, <1>5, <1>6, <2>1 DEF Objects
    <2>7. HeldApart'
      <3>1. Apart(Numbers(Contents)', Numbers(offered)', Numbers(refused)', Numbers(returned)',
                  Numbers(ejectBuffer)', network')
        BY <1>4, <1>6, <1>7, <2>2 DEF Apart
      <3>2. Numbers(Contents)' \cup Numbers(offered)' \cup Numbers(refused)'
              \cup Numbers(returned)' \cup Numbers(ejectBuffer)' \cup network'
              \subseteq GivenOut'
        BY <1>4, <1>6, <1>7, <2>2, <2>3
      <3>3. QED
        BY <1>6, <1>7, <2>2, <3>1, <3>2 DEF HeldApart
    <2>8. QED
      BY <2>4, <2>5, <2>6, <2>7 DEF SocInv
  <1>9. CASE arr # <<>>
    <2>1. ejectBuffer' = Tail(arr) /\ Soc!react(Head(arr))
      BY <1>2, <1>9 DEF Soc!EjectRequest, Soc!answer
    <2>2. PICK h : h = Head(arr)
      OBVIOUS
    <2>3. h = arr[1] /\ 1 \in DOMAIN arr
      BY <1>3, <1>9, <2>2
    <2>4. h \in Numbers(returned) \cup Numbers(ejectBuffer) /\ h \in DOMAIN inTransit
      <3>1. h \in Numbers(returned) \cup Numbers(ejectBuffer)
        BY <1>3, <2>3
      <3>2. QED
        BY <1>4, <3>1 DEF GivenOut
    <2>5. Gen(SocNodes, SocVolumes, FALSE)!react(h)
      BY <2>1, <2>2, SocSteps
    <2>6. ModelInv(SocNodes, FALSE)'
      BY <1>1, <1>4, <1>5, <2>4, <2>5, SocFacts, ReactKeeps
    <2>7. DOMAIN inTransit' = DOMAIN inTransit \ {h}
      BY <2>5 DEF Gen!react, Gen!Without
    <2>8. GivenOut' = GivenOut \ {h}
      BY <1>1, <1>5, <2>7 DEF GivenOut
    <2>9. /\ ejectBuffer' \in Seq(Nat)
          /\ \A i \in DOMAIN ejectBuffer' : /\ i \in Nat /\ i # 0 /\ i + 1 \in DOMAIN arr
                                            /\ ejectBuffer'[i] = arr[i + 1]
      BY <1>3, <1>9, <2>1
    <2>10. Distinct(ejectBuffer)'
      <3> SUFFICES ASSUME NEW i \in DOMAIN ejectBuffer', NEW j \in DOMAIN ejectBuffer',
                          ejectBuffer'[i] = ejectBuffer'[j]
                   PROVE  i = j
        BY DEF Distinct
      <3>1. i + 1 = j + 1 /\ i \in Nat /\ j \in Nat
        BY <1>3, <2>9
      <3>2. QED
        BY <3>1
    <2>11. ASSUME NEW i \in DOMAIN ejectBuffer'
           PROVE  /\ ejectBuffer'[i] # h
                  /\ ejectBuffer'[i] \in Numbers(returned) \cup Numbers(ejectBuffer)
      <3>1. i + 1 # 1 /\ i + 1 \in DOMAIN arr /\ ejectBuffer'[i] = arr[i + 1]
        BY <2>9
      <3>2. QED
        BY <1>3, <2>3, <3>1
    <2>12. Numbers(ejectBuffer)' \subseteq (Numbers(returned) \cup Numbers(ejectBuffer)) \ {h}
      BY <2>11 DEF Numbers
    <2>13. SocType'
      BY <1>1, <1>4, <1>7, <2>9 DEF SocType
    <2>14. Objects'
      BY <1>1, <1>4, <1>5, <1>6 DEF Objects
    <2>15. HeldApart'
      <3>1. Apart(Numbers(Contents)', Numbers(offered)', Numbers(refused)', Numbers(returned)',
                  Numbers(ejectBuffer)', network')
        BY <1>4, <1>6, <1>7, <2>12 DEF Apart
      <3>2. Numbers(Contents)' \cup Numbers(offered)' \cup Numbers(refused)'
              \cup Numbers(returned)' \cup Numbers(ejectBuffer)' \cup network'
              \subseteq GivenOut'
        BY <1>4, <1>6, <1>7, <2>4, <2>8, <2>12 DEF Apart
      <3>3. QED
        BY <1>6, <1>7, <2>10, <3>1, <3>2 DEF HeldApart
    <2>16. QED
      BY <2>6, <2>13, <2>14, <2>15 DEF SocInv
  <1>10. QED
    BY <1>8, <1>9

\* The packets of a cycle get their numbers.
LEMMA NumberKeeps ==
    ASSUME PlayersAssumption, SocInv, Soc!RunInject
    PROVE  SocInv'
  <1>1. /\ UNCHANGED <<cycle, hierClass, state, injectionDone, totalQueued, buffer, content, req,
                       offered, refused, network, returned, ejectBuffer>>
        /\ client = "send" /\ client' = "inject"
        /\ messageId + Len(queue[cycle]) <= MaxId + 1
        /\ Soc!sendPackets /\ toSend' = [i \in DOMAIN Soc!Sent |-> Soc!Sent[i].id]
    BY DEF Soc!RunInject, Soc!sendPacket
  <1>2. /\ SocType /\ Objects /\ HeldApart /\ ModelInv(SocNodes, FALSE) /\ toSend = <<>>
        /\ cycle \in 0 .. Horizon /\ messageId \in Nat /\ Unsent = messageId
        /\ DOMAIN inTransit \subseteq 0 .. messageId - 1
    <2>1. SocType /\ Objects /\ HeldApart /\ ModelInv(SocNodes, FALSE) /\ toSend = <<>>
      BY <1>1 DEF SocInv, SocType
    <2>2. /\ cycle \in 0 .. Horizon /\ messageId \in Nat
          /\ DOMAIN inTransit \subseteq 0 .. messageId - 1
      BY <1>1, SocTypes
    <2>3. Unsent = messageId
      BY <2>1, <2>2 DEF Unsent
    <2>4. QED
      BY <2>1, <2>2, <2>3
  <1>3. Gen(SocNodes, SocVolumes, FALSE)!sendPackets
    BY <1>1, SocSteps
  <1>4. ModelInv(SocNodes, FALSE)'
    BY <1>1, <1>2, <1>3, SendKeeps
  <1>5. PICK n : n = Len(queue[cycle])
    OBVIOUS
  <1>6. /\ n \in Nat /\ DOMAIN queue[cycle] = 1 .. n /\ messageId' = messageId + n
        /\ DOMAIN inTransit' = DOMAIN inTransit \cup {messageId + i - 1 : i \in 1 .. n}
    <2>1. /\ queue \in [Slots -> Seq(Item(SocNodes))]
          /\ DOMAIN transactions \subseteq 0 .. messageId - 1
      BY <1>2 DEF ModelInv, QueueOK, OpenOK
    <2>2. cycle \in Slots
      <3>1. Horizon \in Nat /\ MemDelay \in Nat /\ Resolution \in Nat
        BY PlayersAssumption DEF PlayersAssumption, Lib!WrapperAssumption, Lib!ModelAssumption
      <3>2. QED
        BY <1>2, <3>1 DEF Slots
    <2>3. QED
      BY <1>2, <1>3, <1>5, <2>1, <2>2, SendIs
  <1>7. toSend' = [i \in 1 .. n |-> messageId + i - 1]
    <2>1. DOMAIN Soc!Sent = 1 .. n /\ \A i \in 1 .. n : Soc!Sent[i].id = messageId + i - 1
      BY <1>6 DEF Soc!Sent
    <2>2. QED
      BY <1>1, <2>1
  <1>8. toSend' \in Seq(Nat) /\ Len(toSend') = n /\ DOMAIN toSend' = 1 .. n
    BY <1>2, <1>6, <1>7
  <1>9. Unsent' = Unsent
    BY <1>2, <1>6, <1>8 DEF Unsent
  <1>10. SocType'
    BY <1>1, <1>2, <1>8 DEF SocType
  <1>11. Objects'
    <2>1. \A i \in DOMAIN toSend' : /\ toSend'[i] = Unsent' + i - 1
                                    /\ toSend'[i] \in DOMAIN inTransit'
      BY <1>2, <1>6, <1>7, <1>8, <1>9
    <2>2. messageId' <= MaxId + 1 /\ Len(toSend') <= messageId'
      BY <1>1, <1>2, <1>5, <1>6, <1>8
    <2>3. req' = -1 => buffer' = <<>> /\ Numbers(offered)' = {} /\ Numbers(refused)' = {}
      <3>1. UNCHANGED <<req, buffer, offered, refused>>
        BY <1>1
      <3>2. req = -1 => buffer = <<>> /\ Numbers(offered) = {} /\ Numbers(refused) = {}
        BY <1>2 DEF Objects
      <3>3. QED
        BY <3>1, <3>2, Zenon DEF Numbers
    <2>4. QED
      BY <1>1, <1>2, <1>9, <2>1, <2>2, <2>3 DEF Objects
  <1>12. HeldApart'
    <2>1. GivenOut \subseteq GivenOut'
      BY <1>6, <1>9 DEF GivenOut
    <2>2. QED
      BY <1>1, <1>2, <2>1, HeldStays
  <1>13. QED
    BY <1>4, <1>10, <1>11, <1>12 DEF SocInv


\* The generator's invariant is kept by each of its steps and the server's.
LEMMA SocKeeps ==
    ASSUME PlayersAssumption, SocInv, [Soc!Next]_(Soc!vars)
    PROVE  SocInv'
  <1>1. /\ SocType /\ Objects /\ HeldApart /\ ModelInv(SocNodes, FALSE)
        /\ cycle \in Nat /\ (client \notin {"cycle", "quit", "ended"} => cycle \in 0 .. Horizon)
        /\ hierClass \in HierClasses \cup {1} /\ state \in Classes \cup {1}
    BY SocTypes DEF SocInv
  <1>2. ASSUME UNCHANGED <<messageId, inTransit, toSend, buffer, content, req, offered, refused,
                           network, returned, ejectBuffer>>
        PROVE  Objects' /\ HeldApart'
    <2>1. GivenOut' = GivenOut /\ Unsent' = Unsent
      BY <1>2 DEF GivenOut, Unsent
    <2>2. HeldApart'
      BY <1>1, <1>2, <2>1, HeldStays
    <2>3. Numbers(offered)' = Numbers(offered) /\ Numbers(refused)' = Numbers(refused)
      BY <1>2 DEF Numbers
    <2>4. Objects'
      BY <1>1, <1>2, <2>1, <2>3 DEF Objects
    <2>5. QED
      BY <2>2, <2>4
  <1>3. CASE Soc!RunHier
    <2>1. /\ UNCHANGED <<messageId, inTransit, toSend, buffer, content, req, offered, refused,
                         network, returned, ejectBuffer, cycle, injectionDone, totalQueued,
                         transactions, queue>>
          /\ client = "cycle"
          /\ \/ cycle < NumCycles /\ Soc!HierInterval /\ client' \in {"quit", "interval"}
             \/ UNCHANGED <<hierClass, state>> /\ client' = "quit"
      BY <1>3 DEF Soc!RunHier
    <2>2. hierClass' \in HierClasses \cup {1} /\ state' \in Classes \cup {1}
      BY <1>1, <2>1 DEF Soc!HierInterval
    <2>3. ModelInv(SocNodes, FALSE)'
      BY <1>1, <2>1, <2>2, ModelStays
    <2>4. SocType'
      BY <1>1, <2>1 DEF SocType
    <2>5. QED
      BY <1>2, <2>1, <2>3, <2>4 DEF SocInv
  <1>4. CASE Soc!RunInterval
    <2>1. /\ UNCHANGED <<messageId, inTransit, toSend, buffer, content, req, offered, refused,
                         network, returned, ejectBuffer, cycle, hierClass, transactions>>
          /\ client = "interval" /\ client' = "send" /\ Soc!Interval
      BY <1>4 DEF Soc!RunInterval, Soc!InitiateMessages
    <2>2. Gen(SocNodes, SocVolumes, FALSE)!Interval
      BY <2>1, SocSteps
    <2>3. ModelInv(SocNodes, FALSE)'
      BY <1>1, <2>1, <2>2, SocFacts, IntervalKeeps
    <2>4. SocType'
      BY <1>1, <2>1 DEF SocType
    <2>5. QED
      BY <1>2, <2>1, <2>3, <2>4 DEF SocInv
  <1>5. CASE Soc!RunInject
    BY <1>5, NumberKeeps
  <1>6. CASE Soc!InjectRequest
    BY <1>6, RequestKeeps
  <1>7. CASE Soc!SentAll \/ Soc!QuitRequest \/ UNCHANGED Soc!vars
    <2>1. /\ UNCHANGED <<messageId, inTransit, toSend, buffer, content, req, offered, refused,
                         network, returned, ejectBuffer, cycle, hierClass, state, injectionDone,
                         totalQueued, transactions, queue>>
          /\ \/ client = "inject" /\ toSend = <<>> /\ client' = "eject"
             \/ client = "quit" /\ client' = "ended"
             \/ client' = client
      BY <1>7 DEF Soc!SentAll, Soc!QuitRequest, Soc!vars, Soc!modelVars, Soc!socketVars
    <2>2. hierClass' \in HierClasses \cup {1} /\ state' \in Classes \cup {1}
      BY <1>1, <2>1
    <2>3. ModelInv(SocNodes, FALSE)'
      BY <1>1, <2>1, <2>2, ModelStays
    <2>4. SocType'
      BY <1>1, <2>1 DEF SocType
    <2>5. QED
      BY <1>2, <2>1, <2>3, <2>4 DEF SocInv
  <1>8. CASE Soc!EjectRequest
    BY <1>8, AnswerKeeps
  <1>9. CASE Soc!StepRequest
    BY <1>9, StepKeeps
  <1>10. CASE Soc!ClockEdge
    BY <1>10, ClockKeeps
  <1>11. QED
    BY <1>3, <1>4, <1>5, <1>6, <1>7, <1>8, <1>9, <1>10 DEF Soc!Next

\* The generator and its server start with nothing to send.
LEMMA SocStarts ==
    ASSUME PlayersAssumption, Soc!Init
    PROVE  SocInv
  <1>1. ModelInv(SocNodes, FALSE) /\ messageId = 0 /\ cycle = 0
    BY ModelStarts DEF Soc!Init, Soc!ModelInit, Soc!Times, Slots
  <1>2. /\ client = "cycle" /\ toSend = <<>> /\ buffer = <<>> /\ content = [i \in 0 .. MaxId |-> i]
        /\ req = -1 /\ network = {} /\ ejectBuffer = <<>>
        /\ offered = [k \in SocNodes |-> -1] /\ refused = [k \in SocNodes |-> -1]
        /\ returned = [k \in SocNodes |-> -1] /\ MaxId \in Nat
    BY SocFacts DEF Soc!Init, Soc!None, Soc!Ids
  <1>3. SocType
    <2>1. content \in [0 .. MaxId -> Nat]
      BY <1>2
    <2>2. QED
      BY <1>1, <1>2, <2>1 DEF SocType
  <1>4. Unsent = 0
    BY <1>1, <1>2 DEF Unsent
  <1>5. /\ Numbers(Contents) = {} /\ Numbers(offered) = {} /\ Numbers(refused) = {}
        /\ Numbers(returned) = {} /\ Numbers(ejectBuffer) = {}
    BY <1>2 DEF Numbers, Contents
  <1>6. Objects
    BY <1>1, <1>2, <1>4, <1>5 DEF Objects
  <1>7. HeldApart
    <2>1. /\ Distinct(Contents) /\ Distinct(offered) /\ Distinct(refused)
          /\ Distinct(returned) /\ Distinct(ejectBuffer)
      BY <1>2 DEF Distinct, Contents
    <2>2. QED
      BY <1>2, <1>5, <2>1 DEF HeldApart, Apart
  <1>8. QED
    BY <1>1, <1>3, <1>6, <1>7 DEF SocInv


\* A set without two different elements.
LEMMA AtMostOne ==
    ASSUME NEW s, \A x, y \in s : x = y
    PROVE  \/ s = {} /\ Cardinality(s) = 0
           \/ s # {} /\ Cardinality(s) = 1
  <1>1. CASE s = {}
    BY <1>1, FS_EmptySet
  <1>2. CASE s # {}
    <2>1. PICK x : x \in s
      BY <1>2
    <2>2. s = {x}
      BY <2>1
    <2>3. QED
      BY <1>2, <2>2, FS_Singleton
  <1>3. QED
    BY <1>1, <1>2

\* What the generator's invariant says of its accounts and of its server.
LEMMA SocHolds ==
    ASSUME PlayersAssumption, SocInv
    PROVE  /\ Soc!TransactionOfMessage /\ Soc!AcksMatchInvs
           /\ Soc!AnswersKnownPackets
  <1>1. ModelInv(SocNodes, FALSE)
    BY DEF SocInv
  <1>2. Soc!Waiting = WaitingIn(queue)
    BY Zenon DEF Soc!Waiting, WaitingIn, Soc!Times, Slots
  <1>3. \A a : Soc!UnderWay(a, {"INV", "ACK"}) = Under(a, Ack)
    BY <1>2, Zenon DEF Soc!UnderWay, Under, Waits, WaitsIn, Travels, Ack,
       Soc!Cardinality, Cardinality
  <1>4. /\ \A n \in DOMAIN inTransit : inTransit[n].address \in DOMAIN transactions
        /\ \A w \in WaitingIn(queue) :
             queue[w[1]][w[2]].address \in DOMAIN transactions \cup {-1}
        /\ \A a \in DOMAIN transactions :
             /\ Under(a, Ack) <= transactions[a].invs - transactions[a].acks
             /\ ~injectionDone => Under(a, Ack) = transactions[a].invs - transactions[a].acks
    BY <1>1, AccountsHold
  <1>5. Soc!TransactionOfMessage
    BY <1>2, <1>4 DEF Soc!TransactionOfMessage, Soc!NoAddress
  <1>6. Soc!AcksMatchInvs
    BY <1>3, <1>4 DEF Soc!AcksMatchInvs
  <1>7. /\ Distinct(Contents) /\ Distinct(offered) /\ Distinct(refused)
        /\ Distinct(returned) /\ Distinct(ejectBuffer)
        /\ Apart(Numbers(Contents), Numbers(offered), Numbers(refused), Numbers(returned),
                 Numbers(ejectBuffer), network)
        /\ Numbers(Contents) \cup Numbers(offered) \cup Numbers(refused) \cup Numbers(returned)
             \cup Numbers(ejectBuffer) \cup network \subseteq GivenOut
        /\ GivenOut \subseteq DOMAIN inTransit
        /\ offered \in [SocNodes -> Int] /\ refused \in [SocNodes -> Int]
        /\ returned \in [SocNodes -> Int]
    BY DEF SocInv, HeldApart, GivenOut, SocType
  <1>8. ASSUME NEW n \in 0 .. MaxId
        PROVE  Soc!Copies(n) <= (IF n \in DOMAIN inTransit THEN 1 ELSE 0)
    <2> DEFINE s1 == {i \in DOMAIN buffer : content[buffer[i]] = n}
               s2 == {i \in DOMAIN ejectBuffer : ejectBuffer[i] = n}
               s3 == {k \in SocNodes : n \in {offered[k], refused[k], returned[k]}}
               x4 == IF n \in network THEN 1 ELSE 0
    <2>1. n # -1
      BY SocFacts
    <2>2. /\ \A i, j \in s1 : i = j
          /\ s1 # {} => n \in Numbers(Contents)
      BY <1>7, <2>1 DEF Distinct, Contents, Numbers
    <2>3. /\ \A i, j \in s2 : i = j
          /\ s2 # {} => n \in Numbers(ejectBuffer)
      BY <1>7, <2>1 DEF Distinct, Numbers
    <2>4. \A k \in SocNodes : /\ offered[k] = n => n \in Numbers(offered)
                              /\ refused[k] = n => n \in Numbers(refused)
                              /\ returned[k] = n => n \in Numbers(returned)
      BY <1>7, <2>1 DEF Numbers
    <2>5. /\ \A k, m \in s3 : k = m
          /\ s3 # {} => n \in Numbers(offered) \cup Numbers(refused) \cup Numbers(returned)
      <3>1. s3 # {} => n \in Numbers(offered) \cup Numbers(refused) \cup Numbers(returned)
        BY <2>4
      <3>2. ASSUME NEW k \in s3, NEW m \in s3 PROVE k = m
        <4>1. CASE offered[k] = n /\ offered[m] = n
          BY <1>7, <2>1, <4>1 DEF Distinct
        <4>2. CASE refused[k] = n /\ refused[m] = n
          BY <1>7, <2>1, <4>2 DEF Distinct
        <4>3. CASE returned[k] = n /\ returned[m] = n
          BY <1>7, <2>1, <4>3 DEF Distinct
        <4>4. QED
          BY <1>7, <2>4, <4>1, <4>2, <4>3 DEF Apart
      <3>3. QED
        BY <3>1, <3>2
    <2>6. Soc!Copies(n) = Cardinality(s1) + Cardinality(s2) + Cardinality(s3) + x4
      BY Zenon DEF Soc!Copies, Soc!Cardinality, Cardinality
    <2> HIDE DEF s1, s2, s3
    <2>7. /\ (s1 = {} /\ Cardinality(s1) = 0) \/ (s1 # {} /\ Cardinality(s1) = 1)
          /\ (s2 = {} /\ Cardinality(s2) = 0) \/ (s2 # {} /\ Cardinality(s2) = 1)
          /\ (s3 = {} /\ Cardinality(s3) = 0) \/ (s3 # {} /\ Cardinality(s3) = 1)
      BY <2>2, <2>3, <2>5, AtMostOne
    <2>8. /\ s1 # {} => s2 = {} /\ s3 = {} /\ n \notin network
          /\ s2 # {} => s1 = {} /\ s3 = {} /\ n \notin network
          /\ s3 # {} => s1 = {} /\ s2 = {} /\ n \notin network
          /\ s1 # {} \/ s2 # {} \/ s3 # {} \/ n \in network => n \in DOMAIN inTransit
      BY <1>7, <2>2, <2>3, <2>5 DEF Apart
    <2>9. QED
      BY <2>6, <2>7, <2>8
  <1>9. Soc!AnswersKnownPackets
    BY <1>8 DEF Soc!AnswersKnownPackets, Soc!Ids
  <1>10. QED
    BY <1>5, <1>6, <1>9

-----------------------------------------------------------------------------
(* The players.                                                            *)

PlayersInv ==
  /\ part = "library" => LibInv
  /\ part = "socket" => SocInv

\* The invariant of each player, for every model file, network and schedule.
LEMMA PlayersInvHolds == Spec => []PlayersInv
  <1>1. Init => PlayersInv
    BY PlayersAssumption, LibStarts, SocStarts DEF Init, PlayersInv
  <1>2. PlayersInv /\ [Next]_allVars => PlayersInv'
    <2> SUFFICES ASSUME PlayersInv, [Next]_allVars PROVE PlayersInv'
      OBVIOUS
    <2>1. CASE part = "netrace" /\ Nt!Next /\ UNCHANGED <<part, genVars, simVars, sockVars>>
      BY <2>1 DEF PlayersInv
    <2>2. CASE part = "library" /\ Lib!Next /\ UNCHANGED <<part, ntVars, sockVars>>
      BY <2>2, PlayersAssumption, LibKeeps DEF PlayersInv
    <2>3. CASE part = "socket" /\ Soc!Next /\ UNCHANGED <<part, ntVars, simVars>>
      BY <2>3, PlayersAssumption, SocKeeps DEF PlayersInv
    <2>4. CASE UNCHANGED allVars
      <3>1. part' = part /\ UNCHANGED Lib!vars /\ UNCHANGED Soc!vars
        BY <2>4 DEF allVars, genVars, simVars, sockVars, Lib!vars, Soc!vars, Lib!modelVars,
           Soc!modelVars, Soc!socketVars
      <3>2. QED
        BY <3>1, PlayersAssumption, LibKeeps, SocKeeps DEF PlayersInv
    <2>5. QED
      BY <2>1, <2>2, <2>3, <2>4 DEF Next
  <1>3. QED
    BY <1>1, <1>2, PTL DEF Spec

\* No packet of either player outlives its transaction, which react dereferences
\* without a test, and each transaction waits for just the acknowledgements that
\* are still to come.
THEOREM PlayersAccount == Spec => []TransactionsAccounted
  <1>1. PlayersInv => TransactionsAccounted
    BY PlayersAssumption, LibHolds, SocHolds DEF PlayersInv, TransactionsAccounted
  <1>2. QED
    BY <1>1, PlayersInvHolds, PTL

\* Every packet number that the server holds is of a packet the generator waits
\* for, and it holds each in one place: no answer is for a packet unknown, and
\* none comes twice.
THEOREM ServerKnowsPackets == Spec => []AnswersKnownPackets
  <1>1. PlayersInv => AnswersKnownPackets
    BY PlayersAssumption, SocHolds DEF PlayersInv, AnswersKnownPackets
  <1>2. QED
    BY <1>1, PlayersInvHolds, PTL

\* The simulation with the library is ended in a cycle that begins with nothing
\* in the injection queues and in the network, and what the network holds at the
\* report was given to an injector in that cycle.  (Packets that the model keeps
\* for a later cycle are not waited for.)
THEOREM LibraryEndsWhenQuiet == Spec => [](part = "library" => Lib!EndsWhenQuiet)
  <1>1. PlayersInv => (part = "library" => Lib!EndsWhenQuiet)
    BY PlayersAssumption, LibHolds DEF PlayersInv
  <1>2. QED
    BY <1>1, PlayersInvHolds, PTL
=============================================================================
