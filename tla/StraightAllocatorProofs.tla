----------------------- MODULE StraightAllocatorProofs -----------------------
(***************************************************************************)
(* The straight allocator and the VSA share the crossbar, the OVCs and     *)
(* their credits, the header FIFOs and the look-ahead FIFOs without a      *)
(* conflict, for any number of VCs and any depth of their buffers.         *)
(***************************************************************************)
EXTENDS StraightAllocator, SequenceTheorems, FiniteSetTheorems, TLAPS

\* 1 if IVC v is in the middle of a packet, else 0.
Held(v) == IF assigned[v] THEN 1 ELSE 0

\* The routes of an IVC are those of the packets in its buffer: place is
\* where the route of each flit is in the header FIFO.
RoutesAt(b, h, place) ==
    /\ place[1] = 1 /\ place[Len(b)] = Len(h)
    /\ \A k \in 1 .. Len(b) : h[place[k]] = b[k].pck
    /\ \A k \in 1 .. Len(b) - 1 :
          place[k + 1] = place[k] + (IF b[k].tail THEN 1 ELSE 0)
    /\ \A i, j \in 1 .. Len(b) : i <= j => place[j] - place[i] \in 0 .. j - i

\* The buffer b of an IVC, its routes h, whether its front packet has begun to
\* leave, and the packet a that is arriving fit together.
InOrder(b, h, held, a) ==
    /\ b \in Seq(Flit) /\ h \in Seq(Packet) /\ held \in {0, 1}
    /\ b = <<>> => Len(h) = held /\ a = (IF held = 1 THEN h[1] ELSE None)
    /\ b # <<>> =>
          /\ b[1].hdr <=> held = 0
          /\ \A k \in 1 .. Len(b) - 1 : b[k + 1].hdr <=> b[k].tail
          /\ a = IF b[Len(b)].tail THEN None ELSE b[Len(b)].pck
          /\ \E place \in [1 .. Len(b) -> 1 .. Len(h)] : RoutesAt(b, h, place)

\* The registers hold values of their types.
Registers ==
    /\ arriving \in [Vc -> Packet \cup {None}]
    /\ buffer \in [Vc -> Seq(Flit)] /\ headers \in [Vc -> Seq(Packet)]
    /\ lkDest \in [Vc -> Seq(Id)]
    /\ assigned \in [Vc -> BOOLEAN] /\ assignedOvc \in [Vc -> Vc \cup {None}]
    /\ ovcIsFull \in [Vc -> BOOLEAN]
    /\ status \in [Vc -> BOOLEAN] /\ other \in [Vc -> BOOLEAN]
    /\ credit \in [Vc -> 0 .. B]
    /\ bufferOut \in Flit \cup {NoFlit} /\ toStraight \in BOOLEAN
    /\ ivcAnyDelayed \in BOOLEAN
    /\ otherToStraight \in OtherGrant \cup {NoOther}

Queues ==
    \A v \in Vc : /\ Len(buffer[v]) <= B
                  /\ InOrder(buffer[v], headers[v], Held(v), arriving[v])

\* The look-ahead FIFO runs one cycle behind the header FIFO.
Ids(h) == [i \in 1 .. Len(h) |-> h[i].id]

LookAheads ==
    \A v \in Vc : FifoNext(lkDest[v], wrHdrDelay = v, lkDestIn, v \in rdHdrDelay)
                  = Ids(headers[v])

Holds(v, o) == assigned[v] /\ Straight(v) /\ assignedOvc[v] = o

Occupied ==
    /\ \A v \in Vc : assigned[v] /\ Straight(v) => assignedOvc[v] \in Vc
    /\ \A o \in Vc : status[o] <=> other[o] \/ \E v \in Vc : Holds(v, o)
    /\ \A v \in Vc, o \in Vc : Holds(v, o) => ~other[o]
    /\ \A v \in Vc, w \in Vc, o \in Vc : Holds(v, o) /\ Holds(w, o) => v = w

\* A waiting flit whose OVC has no credit is held back.  After a grant of the
\* straight allocator the predictor is late, but then no flit waits.
HeldBack ==
    \A v \in Vc : assigned[v] /\ Straight(v) /\ buffer[v] # <<>>
                  /\ credit[assignedOvc[v]] = 0 => ovcIsFull[v]

\* What is open on OVC o once the flit on the port's output has left.
Left(o) ==
    IF toStraight /\ OvcNum = o
    THEN IF bufferOut.tail THEN None ELSE bufferOut.pck
    ELSE IF otherToStraight.ovc = o
    THEN IF otherToStraight.tail THEN None ELSE NoOther
    ELSE leaving[o]

Output ==
    /\ vcNumDelayed = {} \/ \E v \in Vc : vcNumDelayed = {v}
    /\ toStraight => /\ otherToStraight = NoOther
                     /\ \E v \in Vc : vcNumDelayed = {v} /\ assignedOvc[v] \in Vc
    /\ LeavesInOrder
    /\ LookAheadOfHeader
    /\ \A v \in Vc, o \in Vc : Holds(v, o) => Left(o) = headers[v][1]
    /\ \A o \in Vc : ~status[o] => Left(o) = None

Inv == Registers /\ Queues /\ LookAheads /\ Occupied /\ HeldBack /\ Output
-----------------------------------------------------------------------------
(* A buffer with its routes.                                               *)

\* A flit may arrive: a header between packets, else a flit of the packet.
Fits(f, a) == f \in Flit /\ (f.hdr <=> a = None) /\ (a # None => f.pck = a)

\* A waiting flit is of the first packet in the header FIFO, and the FIFO
\* holds no more routes than the buffer has flits.
LEMMA FrontRoute ==
    ASSUME NEW b, NEW h, NEW held, NEW a, InOrder(b, h, held, a), b # <<>>
    PROVE  /\ h # <<>> /\ h[1] = b[1].pck /\ Len(h) <= Len(b) /\ Len(h) >= 1
           /\ b[1] \in Flit /\ (b[1].hdr <=> held = 0)
<1>1. b \in Seq(Flit) /\ h \in Seq(Packet) /\ Len(b) \in Nat /\ Len(b) >= 1
  BY DEF InOrder
<1>2. PICK place \in [1 .. Len(b) -> 1 .. Len(h)] : RoutesAt(b, h, place)
  BY DEF InOrder
<1>3. place[1] = 1 /\ place[Len(b)] = Len(h) /\ h[place[1]] = b[1].pck
  BY <1>1, <1>2 DEF RoutesAt
<1>4. place[Len(b)] - place[1] \in 0 .. Len(b) - 1
  BY <1>1, <1>2 DEF RoutesAt
<1>5. Len(h) \in Nat
  BY <1>1
<1>6. Len(h) >= 1 /\ Len(h) <= Len(b)
  BY <1>1, <1>3, <1>4, <1>5
<1>7. b[1] \in Flit
  BY <1>1
<1> QED
  BY <1>1, <1>3, <1>5, <1>6, <1>7 DEF InOrder

\* An arriving header brings its route.
LEMMA Arrive ==
    ASSUME NEW b, NEW h, NEW held, NEW a, NEW f,
           InOrder(b, h, held, a), Fits(f, a)
    PROVE  InOrder(Append(b, f), IF f.hdr THEN Append(h, f.pck) ELSE h, held,
                   IF f.tail THEN None ELSE f.pck)
<1> DEFINE n == Len(b) + 1
           c == Append(b, f)
           g == IF f.hdr THEN Append(h, f.pck) ELSE h
<1>1. b \in Seq(Flit) /\ h \in Seq(Packet) /\ held \in {0, 1} /\ f \in Flit /\ f.pck \in Packet
  BY DEF InOrder, Fits, Flit
<1>2. c \in Seq(Flit) /\ Len(c) = n /\ Len(b) \in Nat /\ c[n] = f
      /\ \A k \in 1 .. Len(b) : c[k] = b[k]
  BY <1>1
<1>3. g \in Seq(Packet) /\ Len(h) \in Nat /\ Len(g) = (IF f.hdr THEN Len(h) + 1 ELSE Len(h))
      /\ (\A i \in 1 .. Len(h) : g[i] = h[i]) /\ (f.hdr => g[Len(h) + 1] = f.pck)
  BY <1>1
<1>4. c # <<>> /\ n \in Nat /\ n >= 1
  BY <1>2
<1>5. CASE b = <<>>
  <2>1. Len(b) = 0 /\ n = 1 /\ Len(h) = held
    BY <1>5, <1>1 DEF InOrder
  <2>2. f.hdr <=> held = 0
    BY <1>1, <1>5, <2>1, NoneAssumption DEF InOrder, Fits
  <2>3. Len(g) = 1 /\ g[1] = f.pck
    <3>1. CASE f.hdr
      BY <1>3, <2>1, <2>2, <3>1
    <3>2. CASE ~f.hdr
      <4>1. held = 1
        BY <1>1, <2>2, <3>2
      <4>2. a = h[1] /\ a # None
        BY <4>1, <1>5, <3>2 DEF InOrder, Fits
      <4> QED
        BY <4>1, <4>2, <2>1, <1>3, <3>2 DEF Fits
    <3> QED
      BY <3>1, <3>2
  <2> DEFINE place == [k \in 1 .. 1 |-> 1]
  <2>4. RoutesAt(c, g, place)
    BY <1>2, <2>1, <2>3 DEF RoutesAt
  <2>5. place \in [1 .. Len(c) -> 1 .. Len(g)]
    BY <1>2, <2>1, <2>3
  <2>6. /\ c[1].hdr <=> held = 0
        /\ \A k \in 1 .. Len(c) - 1 : c[k + 1].hdr <=> c[k].tail
        /\ c[Len(c)] = f
    BY <1>2, <2>1, <2>2
  <2> QED
    BY <1>1, <1>2, <1>3, <1>4, <2>4, <2>5, <2>6 DEF InOrder
<1>6. CASE b # <<>>
  <2>1. PICK place \in [1 .. Len(b) -> 1 .. Len(h)] : RoutesAt(b, h, place)
    BY <1>6 DEF InOrder
  <2>2. Len(b) >= 1 /\ b[Len(b)] \in Flit
    BY <1>1, <1>6
  <2>3. f.hdr <=> b[Len(b)].tail
    BY <1>6, <2>2, NoneAssumption DEF InOrder, Fits, Flit
  <2>4. ~f.hdr => f.pck = b[Len(b)].pck
    BY <1>6, <2>2, <2>3, NoneAssumption DEF InOrder, Fits, Flit
  <2> DEFINE q == [k \in 1 .. n |-> IF k = n THEN Len(g) ELSE place[k]]
  <2>5. place[1] = 1 /\ place[Len(b)] = Len(h) /\ Len(h) >= 1
    BY <2>1, <2>2, <1>2 DEF RoutesAt
  <2>6. q \in [1 .. n -> 1 .. Len(g)]
    BY <1>2, <1>3, <2>5
  <2>7. q[1] = 1 /\ q[n] = Len(g)
    BY <1>2, <2>2, <2>5
  <2>8. \A k \in 1 .. n : g[q[k]] = c[k].pck
    <3> SUFFICES ASSUME NEW k \in 1 .. n PROVE g[q[k]] = c[k].pck
      OBVIOUS
    <3>1. CASE k # n
      <4>1. k \in 1 .. Len(b)
        BY <3>1, <1>2
      <4>2. h[place[k]] = b[k].pck /\ place[k] \in 1 .. Len(h)
        BY <4>1, <2>1 DEF RoutesAt
      <4> QED
        BY <4>1, <4>2, <3>1, <1>2, <1>3
    <3>2. CASE k = n /\ f.hdr
      BY <3>2, <1>2, <1>3
    <3>3. CASE k = n /\ ~f.hdr
      <4>1. h[Len(h)] = b[Len(b)].pck
        BY <2>1, <2>2, <1>2, <2>5 DEF RoutesAt
      <4> QED
        BY <4>1, <3>3, <2>4, <1>2, <1>3, <2>5
    <3> QED
      BY <3>1, <3>2, <3>3
  <2>9. \A k \in 1 .. n - 1 : q[k + 1] = q[k] + (IF c[k].tail THEN 1 ELSE 0)
    <3> SUFFICES ASSUME NEW k \in 1 .. n - 1
                 PROVE  q[k + 1] = q[k] + (IF c[k].tail THEN 1 ELSE 0)
      OBVIOUS
    <3>1. CASE k # Len(b)
      <4>1. k \in 1 .. Len(b) - 1 /\ k \in 1 .. Len(b) /\ k + 1 \in 1 .. n /\ k + 1 # n
        BY <3>1, <1>2
      <4>2. place[k + 1] = place[k] + (IF b[k].tail THEN 1 ELSE 0)
        BY <4>1, <2>1 DEF RoutesAt
      <4> QED
        BY <4>1, <4>2, <1>2
    <3>2. CASE k = Len(b)
      BY <3>2, <1>2, <1>3, <2>2, <2>3, <2>5
    <3> QED
      BY <3>1, <3>2
  <2>10. \A i, j \in 1 .. n : i <= j => q[j] - q[i] \in 0 .. j - i
    <3> SUFFICES ASSUME NEW i \in 1 .. n, NEW j \in 1 .. n, i <= j
                 PROVE  q[j] - q[i] \in 0 .. j - i
      OBVIOUS
    <3>1. CASE j # n
      <4>1. i \in 1 .. Len(b) /\ j \in 1 .. Len(b)
        BY <3>1, <1>2
      <4>2. place[j] - place[i] \in 0 .. j - i
        BY <4>1, <2>1 DEF RoutesAt
      <4> QED
        BY <4>1, <4>2, <1>2
    <3>2. CASE j = n /\ i = n
      BY <3>2, <1>2, <1>3
    <3>3. CASE j = n /\ i # n
      <4>1. i \in 1 .. Len(b) /\ i <= Len(b)
        BY <3>3, <1>2
      <4>2. place[Len(b)] - place[i] \in 0 .. Len(b) - i /\ place[i] \in Int
        BY <4>1, <1>2, <2>1, <2>2 DEF RoutesAt
      <4>3. q[j] = Len(g) /\ q[i] = place[i]
        BY <4>1, <3>3, <1>2
      <4> QED
        BY <4>1, <4>2, <4>3, <2>5, <1>2, <1>3, <3>3
    <3> QED
      BY <3>1, <3>2, <3>3
  <2> HIDE DEF q
  <2>11. RoutesAt(c, g, q)
    BY <2>7, <2>8, <2>9, <2>10, <1>2 DEF RoutesAt
  <2>12. c[1].hdr <=> held = 0
    BY <1>2, <1>6, <2>2 DEF InOrder
  <2>13. \A k \in 1 .. Len(c) - 1 : c[k + 1].hdr <=> c[k].tail
    <3> SUFFICES ASSUME NEW k \in 1 .. n - 1 PROVE c[k + 1].hdr <=> c[k].tail
      BY <1>2
    <3>1. CASE k = Len(b)
      BY <3>1, <1>2, <2>2, <2>3
    <3>2. CASE k # Len(b)
      <4>1. k \in 1 .. Len(b) - 1 /\ k \in 1 .. Len(b) /\ k + 1 \in 1 .. Len(b)
        BY <3>2, <1>2
      <4> QED
        BY <4>1, <1>2, <1>6 DEF InOrder
    <3> QED
      BY <3>1, <3>2
  <2> QED
    BY <1>1, <1>2, <1>3, <1>4, <2>6, <2>11, <2>12, <2>13 DEF InOrder
<1> QED
  BY <1>5, <1>6

\* The first flit leaves; a tail takes its route with it.
LEMMA Leave ==
    ASSUME NEW b, NEW h, NEW held, NEW a, InOrder(b, h, held, a), b # <<>>
    PROVE  InOrder(Tail(b), IF b[1].tail THEN Tail(h) ELSE h,
                   IF b[1].tail THEN 0 ELSE 1, a)
<1> DEFINE n == Len(b)
           c == Tail(b)
           t == IF b[1].tail THEN 1 ELSE 0
           g == IF b[1].tail THEN Tail(h) ELSE h
<1>1. b \in Seq(Flit) /\ h \in Seq(Packet) /\ n \in Nat /\ n >= 1
  BY DEF InOrder
<1>2. h # <<>> /\ h[1] = b[1].pck /\ Len(h) >= 1 /\ Len(h) \in Nat
  BY <1>1, FrontRoute
<1>3. c \in Seq(Flit) /\ Len(c) = n - 1 /\ \A k \in 1 .. n - 1 : c[k] = b[k + 1]
  BY <1>1
<1>4. g \in Seq(Packet) /\ Len(g) = Len(h) - t /\ \A i \in 1 .. Len(g) : g[i] = h[i + t]
  BY <1>1, <1>2
<1>5. PICK place \in [1 .. n -> 1 .. Len(h)] : RoutesAt(b, h, place)
  BY DEF InOrder
<1>6. place[1] = 1 /\ place[n] = Len(h)
  BY <1>5 DEF RoutesAt
<1>7. CASE n = 1
  <2>1. c = <<>> /\ Len(g) = (IF b[1].tail THEN 0 ELSE 1)
    BY <1>7, <1>3, <1>4, <1>6
  <2>2. a = IF b[1].tail THEN None ELSE b[1].pck
    BY <1>7 DEF InOrder
  <2>3. ~b[1].tail => g[1] = b[1].pck
    BY <1>2
  <2>4. (IF b[1].tail THEN 0 ELSE 1) \in {0, 1}
        /\ a = (IF (IF b[1].tail THEN 0 ELSE 1) = 1 THEN g[1] ELSE None)
    BY <2>2, <2>3
  <2> HIDE DEF c, g
  <2>5. c = <<>> /\ Len(g) = (IF b[1].tail THEN 0 ELSE 1) /\ g \in Seq(Packet)
        /\ c \in Seq(Flit)
    BY <2>1, <1>3, <1>4
  <2>6. InOrder(c, g, IF b[1].tail THEN 0 ELSE 1, a)
    BY <2>4, <2>5 DEF InOrder
  <2> QED
    BY <2>6 DEF c, g
<1>8. CASE n # 1
  <2>1. c # <<>> /\ Len(c) >= 1 /\ n >= 2
    BY <1>1, <1>3, <1>8
  <2>2. c[1].hdr <=> b[1].tail
    <3>1. b[1 + 1].hdr <=> b[1].tail
      BY <1>1, <2>1 DEF InOrder
    <3> QED
      BY <3>1, <1>3, <2>1
  <2>3. \A k \in 1 .. Len(c) - 1 : c[k + 1].hdr <=> c[k].tail
    <3> SUFFICES ASSUME NEW k \in 1 .. Len(c) - 1 PROVE c[k + 1].hdr <=> c[k].tail
      OBVIOUS
    <3>1. k + 1 \in 1 .. n - 1 /\ k \in 1 .. n - 1 /\ b # <<>>
      BY <1>1, <1>3, <2>1
    <3>2. b[(k + 1) + 1].hdr <=> b[k + 1].tail
      BY <3>1 DEF InOrder
    <3> QED
      BY <3>1, <3>2, <1>1, <1>3
  <2>4. c[Len(c)] = b[n]
    BY <1>1, <1>3, <2>1
  <2>5. a = IF c[Len(c)].tail THEN None ELSE c[Len(c)].pck
    BY <2>4 DEF InOrder
  <2> DEFINE q == [k \in 1 .. n - 1 |-> place[k + 1] - t]
  <2>6. place[2] = 1 + t
    <3>1. place[1 + 1] = place[1] + t
      BY <1>1, <2>1, <1>5 DEF RoutesAt
    <3> QED
      BY <3>1, <1>6
  <2>7. \A k \in 1 .. n - 1 : place[k + 1] - t \in 1 .. Len(g)
    <3> SUFFICES ASSUME NEW k \in 1 .. n - 1 PROVE place[k + 1] - t \in 1 .. Len(g)
      OBVIOUS
    <3>1. k + 1 \in 1 .. n /\ 2 \in 1 .. n /\ 2 <= k + 1
      BY <1>1, <2>1
    <3>2. place[k + 1] - place[2] \in 0 .. (k + 1) - 2 /\ place[k + 1] \in 1 .. Len(h)
      BY <3>1, <1>5 DEF RoutesAt
    <3> QED
      BY <3>1, <3>2, <2>6, <1>2, <1>4
  <2>8. q \in [1 .. Len(c) -> 1 .. Len(g)]
    BY <2>7, <1>3
  <2>9. q[1] = 1 /\ q[Len(c)] = Len(g)
    BY <2>1, <2>6, <1>3, <1>4, <1>6, <1>1
  <2>10. \A k \in 1 .. Len(c) : g[q[k]] = c[k].pck
    <3> SUFFICES ASSUME NEW k \in 1 .. n - 1 PROVE g[q[k]] = c[k].pck
      BY <1>3
    <3>1. k + 1 \in 1 .. n /\ place[k + 1] \in 1 .. Len(h)
      BY <1>1
    <3>2. h[place[k + 1]] = b[k + 1].pck
      BY <3>1, <1>5 DEF RoutesAt
    <3>3. q[k] = place[k + 1] - t /\ q[k] \in 1 .. Len(g)
      BY <2>7
    <3>4. g[q[k]] = h[q[k] + t]
      BY <3>3, <1>4
    <3>5. q[k] + t = place[k + 1]
      BY <3>1, <3>3, <1>2
    <3> QED
      BY <3>2, <3>4, <3>5, <1>3
  <2>11. \A k \in 1 .. Len(c) - 1 : q[k + 1] = q[k] + (IF c[k].tail THEN 1 ELSE 0)
    <3> SUFFICES ASSUME NEW k \in 1 .. Len(c) - 1
                 PROVE  q[k + 1] = q[k] + (IF c[k].tail THEN 1 ELSE 0)
      OBVIOUS
    <3>0. k \in 1 .. n - 2 /\ k + 1 \in 1 .. n - 1 /\ k \in 1 .. n - 1
          /\ k + 1 \in 1 .. n /\ (k + 1) + 1 \in 1 .. n
      BY <1>1, <1>3
    <3>1. place[k + 1] \in Int /\ place[(k + 1) + 1] \in Int
      BY <3>0, <1>2
    <3>2. place[(k + 1) + 1] = place[k + 1] + (IF b[k + 1].tail THEN 1 ELSE 0)
      BY <3>0, <1>5 DEF RoutesAt
    <3>3. q[k + 1] = place[(k + 1) + 1] - t /\ q[k] = place[k + 1] - t
      BY <3>0
    <3> QED
      BY <3>0, <3>1, <3>2, <3>3, <1>3
  <2>12. \A i, j \in 1 .. Len(c) : i <= j => q[j] - q[i] \in 0 .. j - i
    <3> SUFFICES ASSUME NEW i \in 1 .. n - 1, NEW j \in 1 .. n - 1, i <= j
                 PROVE  q[j] - q[i] \in 0 .. j - i
      BY <1>3
    <3>1. i + 1 \in 1 .. n /\ j + 1 \in 1 .. n /\ i + 1 <= j + 1
          /\ place[i + 1] \in Int /\ place[j + 1] \in Int
      BY <1>1, <1>2
    <3>2. place[j + 1] - place[i + 1] \in 0 .. (j + 1) - (i + 1)
      BY <3>1, <1>5 DEF RoutesAt
    <3>3. q[j] = place[j + 1] - t /\ q[i] = place[i + 1] - t
      OBVIOUS
    <3> QED
      BY <3>1, <3>2, <3>3
  <2> HIDE DEF q
  <2>13. RoutesAt(c, g, q)
    BY <2>9, <2>10, <2>11, <2>12 DEF RoutesAt
  <2>14. (IF b[1].tail THEN 0 ELSE 1) \in {0, 1}
         /\ (c[1].hdr <=> (IF b[1].tail THEN 0 ELSE 1) = 0)
    <3>1. CASE b[1].tail
      BY <2>2, <3>1
    <3>2. CASE ~b[1].tail
      <4>1. ~c[1].hdr
        BY <2>2, <3>2
      <4>2. (IF b[1].tail THEN 0 ELSE 1) = 1
        BY <3>2
      <4> HIDE DEF c
      <4> QED
        BY <4>1, <4>2
    <3> QED
      BY <3>1, <3>2
  <2>15. c \in Seq(Flit) /\ g \in Seq(Packet)
    BY <1>3, <1>4
  <2> HIDE DEF c, g
  <2>16. InOrder(c, g, IF b[1].tail THEN 0 ELSE 1, a)
    BY <2>1, <2>3, <2>5, <2>8, <2>13, <2>14, <2>15 DEF InOrder
  <2> QED
    BY <2>16 DEF c, g
<1> QED
  BY <1>7, <1>8
-----------------------------------------------------------------------------
(* One clock edge.                                                         *)

\* A step of Next: grants g and x of the VSA, s of the straight allocator, a
\* credit for c, and the flit in that arrives.
Edge(g, x, c, in, s) ==
    /\ g \in VsaGrants /\ x \in OtherGrants /\ (IsStraight(g) => x = NoOther)
    /\ c \in {o \in Vc : credit[o] < B} \cup {None} /\ in \in Arrivals
    /\ s = IF SsaGrant(in, g, x) THEN in.vc ELSE None
    /\ FlitBuffer(in, g, s) /\ HeaderFifos(in, g, s)
    /\ OvcAssignment(in, g, s) /\ FullOvcPredictor(g, c)
    /\ CreditMonitor(g, s, x, c) /\ OvcStatus(in, g, s, x)
    /\ Crossbar(in, g, s, x) /\ NextRouter

LEMMA NextIsEdge == Next => \E g, x, c, in, s : Edge(g, x, c, in, s)
<1> SUFFICES ASSUME Next PROVE \E g, x, c, in, s : Edge(g, x, c, in, s)
  OBVIOUS
<1>1. PICK g \in VsaGrants, x \in OtherGrants :
        /\ IsStraight(g) => x = NoOther
        /\ \E c \in {o \in Vc : credit[o] < B} \cup {None}, in \in Arrivals :
              Cycle(in, g, x, c)
  BY DEF Next
<1>2. PICK c \in {o \in Vc : credit[o] < B} \cup {None}, in \in Arrivals : Cycle(in, g, x, c)
  BY <1>1
<1>3. Edge(g, x, c, in, IF SsaGrant(in, g, x) THEN in.vc ELSE None)
  BY <1>1, <1>2 DEF Edge, Cycle
<1> QED
  BY <1>3

\* What the guards say of the grants and the flit.
LEMMA EdgeFacts ==
    ASSUME Inv, NEW g, NEW x, NEW c, NEW in, NEW s, Edge(g, x, c, in, s)
    PROVE  /\ g # NoGrant => g.vc \in Vc /\ buffer[g.vc] # <<>> /\ Requests(g.vc, g.ovc)
                             /\ s = None /\ g.ovc \in Vc \cup {None}
           /\ g = NoGrant => g.vc = None /\ ~IsStraight(g)
           /\ s # None => /\ s \in Vc /\ s = in.vc /\ in # NoFlit
                          /\ g = NoGrant /\ x = NoOther /\ buffer[s] = <<>>
                          /\ SsOvcReady(s) /\ (in.hdr => in.pck.straight)
           /\ in = NoFlit => in.vc = None /\ ~in.hdr /\ ~in.tail
           /\ in # NoFlit => /\ in.vc \in Vc /\ in \in Flit
                             /\ Fits(in, arriving[in.vc])
                             /\ Len(buffer[in.vc]) < B
<1>1. g = NoGrant \/ (g \in Grant /\ Requests(g.vc, g.ovc))
  BY DEF Edge, VsaGrants
<1>2. g # NoGrant => g.vc \in Vc /\ buffer[g.vc] # <<>> /\ Requests(g.vc, g.ovc)
                     /\ g.ovc \in Vc \cup {None}
  BY <1>1 DEF Grant, Requests
<1>3. g = NoGrant => g.vc = None /\ ~IsStraight(g)
  BY DEF NoGrant, IsStraight
<1>4. in = NoFlit \/ \E v \in Vc : Len(buffer[v]) < B /\ in \in NextFlit(v)
  BY DEF Edge, Arrivals
<1>5. in = NoFlit => in.vc = None /\ ~in.hdr /\ ~in.tail
  BY DEF NoFlit
<1>6. ASSUME NEW v \in Vc, Len(buffer[v]) < B, in \in NextFlit(v)
      PROVE  in.vc = v /\ in \in Flit /\ Fits(in, arriving[in.vc])
  <2>1. arriving[v] \in Packet \cup {None}
    BY DEF Inv, Registers
  <2>2. in.vc = v /\ in.hdr = (arriving[v] = None) /\ in \in Flit
        /\ (arriving[v] # None => in.pck = arriving[v])
    BY <1>6, <2>1 DEF NextFlit, Flit
  <2> QED
    BY <2>2 DEF Fits
<1>7. in # NoFlit => /\ in.vc \in Vc /\ in \in Flit
                     /\ Fits(in, arriving[in.vc])
                     /\ Len(buffer[in.vc]) < B
  BY <1>4, <1>6
<1>8. s # None => SsaGrant(in, g, x) /\ s = in.vc
  BY DEF Edge
<1>9. s # None => /\ s \in Vc /\ s = in.vc /\ in # NoFlit
                  /\ g = NoGrant /\ x = NoOther /\ buffer[s] = <<>>
                  /\ SsOvcReady(s) /\ (in.hdr => in.pck.straight)
  BY <1>7, <1>8 DEF SsaGrant, SsaPermitted
<1> QED
  BY <1>2, <1>3, <1>5, <1>7, <1>9

\* An IVC's buffer and routes once the arriving flit has been written.
Flits(v, in)  == IF in.vc = v THEN Append(buffer[v], in) ELSE buffer[v]
Routes(v, in) == IF in.vc = v /\ in.hdr THEN Append(headers[v], in.pck) ELSE headers[v]

LEMMA Arrived ==
    ASSUME Inv, NEW g, NEW x, NEW c, NEW in, NEW s, Edge(g, x, c, in, s), NEW v \in Vc
    PROVE  /\ InOrder(Flits(v, in), Routes(v, in), Held(v), arriving'[v])
           /\ Len(Flits(v, in)) <= B
           /\ buffer[v] # <<>> => Flits(v, in) # <<>> /\ Flits(v, in)[1] = buffer[v][1]
                                  /\ headers[v] # <<>> /\ headers[v][1] = buffer[v][1].pck
           /\ headers[v] # <<>> => Routes(v, in) # <<>> /\ Routes(v, in)[1] = headers[v][1]
           /\ buffer[v] = <<>> /\ in.vc = v => Flits(v, in) = <<in>>
<1>1. /\ InOrder(buffer[v], headers[v], Held(v), arriving[v]) /\ Len(buffer[v]) <= B
      /\ buffer[v] \in Seq(Flit) /\ headers[v] \in Seq(Packet)
  BY DEF Inv, Queues, Registers
<1>2. arriving'[v] = IF in.vc # v THEN arriving[v] ELSE IF in.tail THEN None ELSE in.pck
  BY DEF Edge, FlitBuffer
<1>3. B \in Nat /\ None \notin Vc
  BY StraightAssumption
<1>4. in.vc = v => in \in Flit /\ Fits(in, arriving[v]) /\ Len(buffer[v]) < B
  BY <1>3, EdgeFacts
<1>5. InOrder(Flits(v, in), Routes(v, in), Held(v), arriving'[v])
  <2>1. CASE in.vc = v
    <3>1. InOrder(Append(buffer[v], in),
                  IF in.hdr THEN Append(headers[v], in.pck) ELSE headers[v],
                  Held(v), IF in.tail THEN None ELSE in.pck)
      BY <1>1, <1>4, <2>1, Arrive
    <3> QED
      BY <3>1, <1>2, <2>1 DEF Flits, Routes
  <2>2. CASE in.vc # v
    BY <1>1, <1>2, <2>2 DEF Flits, Routes
  <2> QED
    BY <2>1, <2>2
<1>6. Len(Flits(v, in)) <= B
  BY <1>1, <1>3, <1>4 DEF Flits
<1>7. in.vc = v => in \in Flit /\ in.pck \in Packet
  BY <1>4 DEF Flit
<1>8. headers[v] # <<>> => Routes(v, in) # <<>> /\ Routes(v, in)[1] = headers[v][1]
  BY <1>1, <1>7 DEF Routes
<1>9. buffer[v] # <<>> => Flits(v, in) # <<>> /\ Flits(v, in)[1] = buffer[v][1]
  BY <1>1, <1>7 DEF Flits
<1>10. buffer[v] # <<>> => headers[v] # <<>> /\ headers[v][1] = buffer[v][1].pck
  BY <1>1, FrontRoute
<1>11. buffer[v] = <<>> /\ in.vc = v => Flits(v, in) = <<in>>
  BY <1>7 DEF Flits
<1> QED
  BY <1>5, <1>6, <1>8, <1>9, <1>10, <1>11

\* The IVC that is served passes on its first flit, and with a tail its route.
LEMMA IvcEdge ==
    ASSUME Inv, NEW g, NEW x, NEW c, NEW in, NEW s, Edge(g, x, c, in, s), NEW v \in Vc
    PROVE  /\ v \notin {g.vc, s} => /\ buffer'[v] = Flits(v, in)
                                    /\ headers'[v] = Routes(v, in)
                                    /\ assigned'[v] = assigned[v]
           /\ v \in {g.vc, s} =>
                /\ Flits(v, in) # <<>>
                /\ Passed(in, v) = Flits(v, in)[1]
                /\ v \in Reset(in, g, s) <=> Flits(v, in)[1].tail
                /\ buffer'[v] = Tail(Flits(v, in))
                /\ headers'[v] = IF Flits(v, in)[1].tail THEN Tail(Routes(v, in))
                                 ELSE Routes(v, in)
                /\ assigned'[v] <=> ~Flits(v, in)[1].tail
<1>1. None \notin Vc
  BY StraightAssumption
<1>2. /\ buffer' = [w \in Vc |-> LET full == IF in.vc = w THEN Append(buffer[w], in)
                                             ELSE buffer[w]
                                 IN  IF w \in {g.vc, s} THEN Tail(full) ELSE full]
      /\ headers' = [w \in Vc |-> FifoNext(headers[w], in.vc = w /\ in.hdr, in.pck,
                                           w \in Reset(in, g, s))]
      /\ assigned' = [w \in Vc |-> IF w \in Reset(in, g, s) THEN FALSE
                                   ELSE assigned[w] \/ w \in {g.vc, s}]
  BY DEF Edge, FlitBuffer, HeaderFifos, OvcAssignment
<1>3. v \in Reset(in, g, s) <=> v \in {g.vc, s} /\ Passed(in, v).tail
  BY DEF Reset
<1>4. assigned \in [Vc -> BOOLEAN] /\ buffer[v] \in Seq(Flit)
  BY DEF Inv, Registers
<1>5. CASE v \notin {g.vc, s}
  <2>1. v \notin Reset(in, g, s)
    BY <1>3, <1>5
  <2>2. buffer'[v] = Flits(v, in)
    BY <1>2, <1>5 DEF Flits
  <2>3. headers'[v] = Routes(v, in)
    BY <1>2, <2>1 DEF Routes, FifoNext
  <2>4. assigned'[v] = assigned[v]
    BY <1>2, <1>4, <1>5, <2>1
  <2> QED
    BY <1>5, <2>2, <2>3, <2>4
<1>6. CASE v \in {g.vc, s}
  <2>3. Flits(v, in) # <<>> /\ Passed(in, v) = Flits(v, in)[1]
    <3>1. CASE v = g.vc
      <4>1. g # NoGrant /\ buffer[v] # <<>>
        BY <3>1, <1>1, EdgeFacts
      <4>2. Passed(in, v) = buffer[v][1]
        BY <4>1, <1>4 DEF Passed
      <4> QED
        BY <4>1, <4>2, Arrived
    <3>2. CASE v = s
      <4>1. buffer[v] = <<>> /\ in.vc = v
        BY <3>2, <1>1, EdgeFacts
      <4>2. Passed(in, v) = in
        BY <4>1 DEF Passed
      <4>3. Flits(v, in) = <<in>>
        BY <4>1, Arrived
      <4> QED
        BY <4>2, <4>3
    <3> QED
      BY <1>6, <3>1, <3>2
  <2>4. v \in Reset(in, g, s) <=> Flits(v, in)[1].tail
    BY <1>3, <1>6, <2>3
  <2>5. buffer'[v] = Tail(Flits(v, in))
    BY <1>2, <1>6 DEF Flits
  <2>6. assigned'[v] <=> ~Flits(v, in)[1].tail
    BY <1>2, <1>6, <2>4
  <2>7. Routes(v, in) # <<>>
    BY <2>3, Arrived, FrontRoute
  <2>8. headers'[v] = IF Flits(v, in)[1].tail THEN Tail(Routes(v, in)) ELSE Routes(v, in)
    BY <1>2, <2>4, <2>7 DEF Routes, FifoNext
  <2> QED
    BY <1>6, <2>3, <2>4, <2>5, <2>6, <2>8
<1> QED
  BY <1>5, <1>6
\* An OVC that may be allocated is free and has a credit, or two.
LEMMA AvailableOvc ==
    ASSUME Inv, NEW o \in Vc, OvcAvailable(o)
    PROVE  ~status[o] /\ credit[o] > 0 /\ (~OvcAllocMode => credit[o] > 1)
<1>1. credit[o] \in 0 .. B /\ B \in Nat
  BY StraightAssumption DEF Inv, Registers
<1> QED
  BY <1>1 DEF OvcAvailable, Full, NearlyFull

\* What the VSA grants at the straight port has a credit.
LEMMA GrantHasCredit ==
    ASSUME Inv, NEW g \in VsaGrants, IsStraight(g)
    PROVE  /\ g.vc \in Vc /\ OvcOf(g) \in Vc /\ credit[OvcOf(g)] > 0
           /\ assigned[g.vc] => Holds(g.vc, OvcOf(g))
           /\ ~assigned[g.vc] => OvcAvailable(OvcOf(g)) /\ OvcOf(g) = g.ovc
<1>1. g # NoGrant /\ Straight(g.vc)
  BY DEF IsStraight
<1>2. g.vc \in Vc /\ g.ovc \in Vc \cup {None} /\ Requests(g.vc, g.ovc)
  BY <1>1 DEF VsaGrants, Grant
<1>3. CASE assigned[g.vc]
  <2>1. OvcOf(g) = assignedOvc[g.vc] /\ Holds(g.vc, OvcOf(g))
    BY <1>1, <1>3 DEF OvcOf, Holds, IsStraight
  <2>2. OvcOf(g) \in Vc
    BY <1>1, <1>2, <1>3, <2>1 DEF Inv, Occupied
  <2>3. buffer[g.vc] # <<>> /\ ~ovcIsFull[g.vc]
    BY <1>1, <1>2, <1>3 DEF Requests
  <2>4. credit[OvcOf(g)] # 0
    BY <1>1, <1>2, <1>3, <2>1, <2>3 DEF Inv, HeldBack
  <2>5. credit[OvcOf(g)] \in 0 .. B /\ B \in Nat
    BY <2>2, StraightAssumption DEF Inv, Registers
  <2>6. credit[OvcOf(g)] > 0
    BY <2>4, <2>5
  <2> QED
    BY <1>2, <1>3, <2>1, <2>2, <2>6
<1>4. CASE ~assigned[g.vc]
  <2>1. OvcOf(g) = g.ovc /\ g.ovc # None /\ OvcAvailable(g.ovc)
    BY <1>1, <1>2, <1>4 DEF OvcOf, IsStraight, Requests
  <2> QED
    BY <1>2, <1>4, <2>1, AvailableOvc
<1> QED
  BY <1>3, <1>4

\* The IVC that is served, the flit it sends, and the OVC of the straight port
\* that the flit takes; or None.
Served(g, s) == IF g # NoGrant THEN g.vc ELSE s
Sent(g, in)  == IF g # NoGrant THEN Head(buffer[g.vc]) ELSE in
Taken(g, s)  == IF IsStraight(g) THEN OvcOf(g) ELSE s

LEMMA ServedIvc ==
    ASSUME Inv, NEW g, NEW x, NEW c, NEW in, NEW s, Edge(g, x, c, in, s)
    PROVE  /\ Served(g, s) \in Vc \cup {None}
           /\ {g.vc, s} = {Served(g, s), None}
           /\ Served(g, s) = None => g = NoGrant /\ s = None
           /\ Served(g, s) # None =>
                /\ Flits(Served(g, s), in) # <<>>
                /\ Flits(Served(g, s), in)[1] = Sent(g, in)
                /\ Routes(Served(g, s), in) # <<>>
                /\ Routes(Served(g, s), in)[1] = Sent(g, in).pck
                /\ Sent(g, in) \in Flit
                /\ Sent(g, in).hdr <=> ~assigned[Served(g, s)]
<1> DEFINE u == Served(g, s)
<1>1. None \notin Vc
  BY StraightAssumption
<1>2. CASE g # NoGrant
  <2>1. u = g.vc /\ u \in Vc /\ buffer[u] # <<>> /\ s = None /\ Sent(g, in) = Head(buffer[u])
    BY <1>2, EdgeFacts DEF Served, Sent
  <2>2. buffer[u] \in Seq(Flit)
    BY <2>1 DEF Inv, Registers
  <2>3. Sent(g, in) = buffer[u][1]
    BY <2>1, <2>2
  <2>4. Flits(u, in) # <<>> /\ Flits(u, in)[1] = Sent(g, in)
    BY <2>1, <2>3, Arrived
  <2> QED
    BY <1>1, <1>2, <2>1, <2>4, Arrived, FrontRoute DEF Held
<1>3. CASE g = NoGrant /\ s # None
  <2>1. u = s /\ u \in Vc /\ buffer[u] = <<>> /\ in.vc = u /\ Sent(g, in) = in /\ g.vc = None
    BY <1>3, EdgeFacts DEF Served, Sent
  <2>2. Flits(u, in) = <<in>>
    BY <2>1, Arrived
  <2>3. Flits(u, in) # <<>> /\ Flits(u, in)[1] = Sent(g, in)
    BY <2>1, <2>2
  <2> QED
    BY <1>1, <1>3, <2>1, <2>3, Arrived, FrontRoute DEF Held
<1>4. CASE g = NoGrant /\ s = None
  BY <1>4 DEF Served, NoGrant
<1> QED
  BY <1>2, <1>3, <1>4

LEMMA TakenOvc ==
    ASSUME Inv, NEW g, NEW x, NEW c, NEW in, NEW s, Edge(g, x, c, in, s)
    PROVE  /\ Taken(g, s) # None =>
                /\ Served(g, s) \in Vc /\ Taken(g, s) \in Vc /\ x = NoOther
                /\ credit[Taken(g, s)] > 0
                /\ assigned[Served(g, s)] => Holds(Served(g, s), Taken(g, s))
                /\ ~assigned[Served(g, s)] => OvcAvailable(Taken(g, s))
                /\ assignedOvc'[Served(g, s)] = Taken(g, s)
                /\ Sent(g, in).pck.straight
           /\ Taken(g, s) = None /\ Served(g, s) # None =>
                /\ g # NoGrant /\ ~Sent(g, in).pck.straight
                /\ headers[Served(g, s)] # <<>>
                /\ headers[Served(g, s)][1] = Sent(g, in).pck
<1> DEFINE u == Served(g, s)
           t == Taken(g, s)
<1>1. None \notin Vc
  BY StraightAssumption
<1>2. assignedOvc' = [v \in Vc |-> IF assigned[v] THEN assignedOvc[v]
                                   ELSE IF g.vc = v THEN g.ovc
                                   ELSE IF s = v THEN v ELSE assignedOvc[v]]
  BY DEF Edge, OvcAssignment
<1>3. assigned \in [Vc -> BOOLEAN]
  BY DEF Inv, Registers
<1>4. CASE g # NoGrant
  <2>1. u = g.vc /\ u \in Vc /\ buffer[u] # <<>> /\ s = None /\ Sent(g, in) = Head(buffer[u])
    BY <1>4, EdgeFacts DEF Served, Sent
  <2>2. buffer[u] \in Seq(Flit) /\ headers[u] \in Seq(Packet)
    BY <2>1 DEF Inv, Registers
  <2>3. Sent(g, in) = buffer[u][1]
    BY <2>1, <2>2
  <2>4. headers[u] # <<>> /\ headers[u][1] = Sent(g, in).pck
    BY <2>1, <2>3, Arrived
  <2>5. IsStraight(g) <=> Sent(g, in).pck.straight
    BY <1>4, <2>1, <2>2, <2>4 DEF IsStraight, Straight
  <2>6. CASE ~IsStraight(g)
    BY <1>1, <1>4, <2>1, <2>4, <2>5, <2>6 DEF Taken
  <2>7. CASE IsStraight(g)
    <3>1. g \in VsaGrants /\ x = NoOther /\ t = OvcOf(g)
      BY <2>7 DEF Edge, Taken
    <3>2. /\ t \in Vc /\ credit[t] > 0
          /\ assigned[u] => Holds(u, t)
          /\ ~assigned[u] => OvcAvailable(t) /\ t = g.ovc
      BY <2>1, <2>7, <3>1, GrantHasCredit
    <3>3. assignedOvc'[u] = t
      BY <1>2, <2>1, <3>2 DEF Holds
    <3> QED
      BY <1>1, <2>1, <2>5, <2>7, <3>1, <3>2, <3>3
  <2> QED
    BY <2>6, <2>7
<1>5. CASE g = NoGrant /\ s # None
  <2>1. /\ u = s /\ u \in Vc /\ buffer[u] = <<>> /\ in.vc = u /\ Sent(g, in) = in
        /\ g.vc = None /\ ~IsStraight(g) /\ x = NoOther /\ SsOvcReady(u)
        /\ (in.hdr => in.pck.straight) /\ t = u
    BY <1>5, EdgeFacts DEF Served, Sent, Taken
  <2>2. in.hdr <=> ~assigned[u]
    BY <1>1, <2>1, ServedIvc
  <2>3. CASE assigned[u]
    <3>1. Straight(u) /\ assignedOvc[u] = u /\ ~Full(u)
      BY <2>1, <2>3 DEF SsOvcReady
    <3>2. Holds(u, t)
      BY <2>1, <2>3, <3>1 DEF Holds
    <3>3. credit[u] \in 0 .. B /\ B \in Nat
      BY <2>1, StraightAssumption DEF Inv, Registers
    <3>4. credit[t] > 0
      BY <2>1, <3>1, <3>3 DEF Full
    <3>5. assignedOvc'[u] = t
      BY <1>2, <2>1, <2>3, <3>1
    <3>6. headers[u] # <<>> /\ Head(headers[u]).straight /\ headers[u] \in Seq(Packet)
      BY <2>1, <3>1 DEF Straight, Inv, Registers
    <3>7. Routes(u, in) = headers[u] /\ Routes(u, in)[1] = in.pck
      BY <1>1, <2>1, <2>2, <2>3, ServedIvc DEF Routes
    <3>8. in.pck.straight
      BY <3>6, <3>7
    <3> QED
      BY <1>1, <2>1, <2>3, <3>2, <3>4, <3>5, <3>8
  <2>4. CASE ~assigned[u]
    <3>1. OvcAvailable(t)
      BY <2>1, <2>4 DEF SsOvcReady
    <3>2. credit[t] > 0
      BY <2>1, <3>1, AvailableOvc
    <3>3. assignedOvc'[u] = t
      BY <1>1, <1>2, <2>1, <2>4
    <3> QED
      BY <1>1, <2>1, <2>2, <2>4, <3>1, <3>2, <3>3
  <2> QED
    BY <2>3, <2>4
<1>6. CASE g = NoGrant /\ s = None
  BY <1>6, EdgeFacts DEF Served, Taken
<1> QED
  BY <1>4, <1>5, <1>6
\* An IVC in the middle of a packet has that packet's route.
LEMMA HeldRoute ==
    ASSUME Inv, NEW v \in Vc, assigned[v]
    PROVE  headers[v] # <<>>
<1>1. InOrder(buffer[v], headers[v], 1, arriving[v])
  BY DEF Inv, Queues, Held
<1>2. CASE buffer[v] = <<>>
  BY <1>1, <1>2 DEF InOrder
<1>3. CASE buffer[v] # <<>>
  BY <1>1, <1>3, FrontRoute
<1> QED
  BY <1>2, <1>3

\* Grants of other input ports.
LEMMA OtherFacts ==
    ASSUME Inv, NEW x \in OtherGrants
    PROVE  /\ x = NoOther => x.ovc = None /\ ~x.hdr /\ ~x.tail
           /\ x # NoOther => /\ x \in OtherGrant /\ x.ovc \in Vc /\ credit[x.ovc] > 0
                             /\ x.hdr => OvcAvailable(x.ovc)
                             /\ ~x.hdr => other[x.ovc]
<1>1. x = NoOther => x.ovc = None /\ ~x.hdr /\ ~x.tail
  BY DEF NoOther
<1>2. ASSUME x # NoOther
      PROVE  /\ x \in OtherGrant /\ x.ovc \in Vc /\ credit[x.ovc] > 0
             /\ x.hdr => OvcAvailable(x.ovc)
             /\ ~x.hdr => other[x.ovc]
  <2>1. x \in OtherGrant /\ x.ovc \in Vc
        /\ (IF x.hdr THEN OvcAvailable(x.ovc) ELSE other[x.ovc] /\ ~Full(x.ovc))
    BY <1>2 DEF OtherGrants, OtherGrant
  <2>2. CASE x.hdr
    BY <2>1, <2>2, AvailableOvc
  <2>3. CASE ~x.hdr
    <3>1. credit[x.ovc] \in 0 .. B /\ B \in Nat
      BY <2>1, StraightAssumption DEF Inv, Registers
    <3> QED
      BY <2>1, <2>3, <3>1 DEF Full
  <2> QED
    BY <2>2, <2>3
<1> QED
  BY <1>1, <1>2

\* Only the IVC that is served at the straight port changes what it holds.
LEMMA HoldsEdge ==
    ASSUME Inv, NEW g, NEW x, NEW c, NEW in, NEW s, Edge(g, x, c, in, s),
           NEW v \in Vc, NEW o \in Vc \cup {None}
    PROVE  /\ Taken(g, s) # None /\ v = Served(g, s) =>
                /\ Holds(v, o)' <=> ~Sent(g, in).tail /\ o = Taken(g, s)
                /\ Holds(v, o)' => headers'[v][1] = Sent(g, in).pck
           /\ ~(Taken(g, s) # None /\ v = Served(g, s)) =>
                /\ Holds(v, o)' <=> Holds(v, o)
                /\ Holds(v, o)' => headers'[v][1] = headers[v][1]
<1> DEFINE u == Served(g, s)
           t == Taken(g, s)
           d == Sent(g, in)
<1>1. None \notin Vc /\ headers[v] \in Seq(Packet)
  BY StraightAssumption DEF Inv, Registers
<1>2. Routes(v, in) \in Seq(Packet)
  BY Arrived DEF InOrder
<1>3. Holds(v, o)' <=> /\ assigned'[v] /\ headers'[v] # <<>>
                       /\ Head(headers'[v]).straight /\ assignedOvc'[v] = o
  BY DEF Holds, Straight
<1>4. Holds(v, o) <=> /\ assigned[v] /\ headers[v] # <<>>
                      /\ Head(headers[v]).straight /\ assignedOvc[v] = o
  BY DEF Holds, Straight
<1>5. CASE v # u
  <2>1. v \notin {g.vc, s}
    BY <1>1, <1>5, ServedIvc
  <2>2. headers'[v] = Routes(v, in) /\ assigned'[v] = assigned[v]
    BY <2>1, IvcEdge
  <2>3. ASSUME assigned[v] PROVE Head(Routes(v, in)) = Head(headers[v])
                                 /\ headers[v] # <<>> /\ Routes(v, in) # <<>>
                                 /\ assignedOvc'[v] = assignedOvc[v]
    <3>1. headers[v] # <<>>
      BY <2>3, HeldRoute
    <3>2. Routes(v, in) # <<>> /\ Routes(v, in)[1] = headers[v][1]
      BY <3>1, Arrived
    <3>3. assignedOvc'[v] = assignedOvc[v]
      BY <2>3 DEF Edge, OvcAssignment
    <3> QED
      BY <1>1, <1>2, <3>1, <3>2, <3>3
  <2>4. Holds(v, o)' <=> Holds(v, o)
    BY <1>3, <1>4, <2>2, <2>3
  <2>5. Holds(v, o)' => headers'[v][1] = headers[v][1]
    BY <1>1, <1>2, <1>3, <2>2, <2>3
  <2> QED
    BY <1>5, <2>4, <2>5
<1>6. CASE v = u
  <2>1. v \in {g.vc, s} /\ Flits(v, in)[1] = d /\ Routes(v, in) # <<>>
        /\ Routes(v, in)[1] = d.pck
    <3>3. u # None
      BY <1>1, <1>6
    <3>1. u # None /\ {g.vc, s} = {u, None}
      BY <3>3, ServedIvc
    <3>2. Flits(u, in)[1] = d /\ Routes(u, in) # <<>> /\ Routes(u, in)[1] = d.pck
      BY <3>1, ServedIvc
    <3> HIDE DEF u, d
    <3> QED
      BY <1>6, <3>1, <3>2
  <2>2. (assigned'[v] <=> ~d.tail) /\ (~d.tail => headers'[v] = Routes(v, in))
    BY <2>1, IvcEdge
  <2>3. ~d.tail => headers'[v] # <<>> /\ Head(headers'[v]) = d.pck /\ headers'[v][1] = d.pck
    BY <1>2, <2>1, <2>2
  <2>4. CASE t # None
    <3>1. assignedOvc'[v] = t /\ d.pck.straight
      BY <1>6, <2>4, TakenOvc
    <3> QED
      BY <1>3, <1>6, <2>2, <2>3, <2>4, <3>1
  <2>5. CASE t = None
    <3>1. ~d.pck.straight /\ headers[v] # <<>> /\ headers[v][1] = d.pck
      BY <1>1, <1>6, <2>5, TakenOvc
    <3>2. ~Head(headers[v]).straight
      BY <1>1, <3>1
    <3> QED
      BY <1>3, <1>4, <2>2, <2>3, <2>5, <3>1, <3>2
  <2> QED
    BY <2>4, <2>5
<1> QED
  BY <1>5, <1>6

\* A credit is taken only where there is one.
LEMMA CreditEdge ==
    ASSUME Inv, NEW g, NEW x, NEW c, NEW in, NEW s, Edge(g, x, c, in, s), NEW o \in Vc
    PROVE  /\ o = Taken(g, s) \/ o = x.ovc => credit[o] > 0
           /\ credit'[o] = credit[o] + (IF c = o THEN 1 ELSE 0)
                           - (IF o = Taken(g, s) \/ o = x.ovc THEN 1 ELSE 0)
           /\ c = o => credit[o] < B
           /\ credit'[o] \in 0 .. B
<1>1. credit[o] \in 0 .. B /\ B \in Nat /\ None \notin Vc
  BY StraightAssumption DEF Inv, Registers
<1>2. o = Taken(g, s) => credit[o] > 0
  BY <1>1, TakenOvc
<1>3. o = x.ovc => credit[o] > 0
  BY <1>1, OtherFacts DEF Edge
<1>4. c = o => credit[o] < B
  BY <1>1 DEF Edge
<1>5. o \in {OvcOf(g), s, x.ovc} <=> o = Taken(g, s) \/ o = x.ovc
  <2>1. IsStraight(g) => s = None
    BY EdgeFacts DEF IsStraight
  <2>2. ~IsStraight(g) => OvcOf(g) = None
    BY DEF OvcOf
  <2> QED
    BY <1>1, <2>1, <2>2 DEF Taken
<1>6. credit'[o] = CASE c = o /\ o \notin {OvcOf(g), s, x.ovc} -> credit[o] + 1
                     [] c # o /\ o \in {OvcOf(g), s, x.ovc} -> credit[o] - 1
                     [] OTHER -> credit[o]
  BY DEF Edge, CreditMonitor
<1> DEFINE dec == o = Taken(g, s) \/ o = x.ovc
<1>7. CASE dec
  BY <1>1, <1>2, <1>3, <1>4, <1>5, <1>6, <1>7
<1>8. CASE ~dec
  BY <1>1, <1>4, <1>5, <1>6, <1>8
<1> QED
  BY <1>7, <1>8
\* What the registers behind the buffer and at the straight port become.
LEMMA OutputEdge ==
    ASSUME Inv, NEW g, NEW x, NEW c, NEW in, NEW s, Edge(g, x, c, in, s)
    PROVE  /\ bufferOut' = IF Served(g, s) = None THEN NoFlit ELSE Sent(g, in)
           /\ vcNumDelayed' = IF Served(g, s) = None THEN {} ELSE {Served(g, s)}
           /\ ivcAnyDelayed' = (g # NoGrant)
           /\ toStraight' <=> Taken(g, s) # None
           /\ toStraight' \in BOOLEAN
           /\ otherToStraight' = x
<1>1. /\ bufferOut' = IF g # NoGrant THEN Head(buffer[g.vc])
                      ELSE IF s # None THEN in ELSE NoFlit
      /\ vcNumDelayed' = {g.vc, s} \ {None}
      /\ ivcAnyDelayed' = (g # NoGrant)
      /\ toStraight' = (IsStraight(g) \/ s # None)
      /\ otherToStraight' = x
  BY DEF Edge, Crossbar
<1>2. /\ g # NoGrant => g.vc \in Vc
      /\ IsStraight(g) => g # NoGrant
  BY EdgeFacts DEF IsStraight
<1>3. None \notin Vc
  BY StraightAssumption
<1>4. bufferOut' = IF Served(g, s) = None THEN NoFlit ELSE Sent(g, in)
  BY <1>1, <1>2, <1>3 DEF Served, Sent
<1>5. vcNumDelayed' = IF Served(g, s) = None THEN {} ELSE {Served(g, s)}
  <2>1. {g.vc, s} = {Served(g, s), None}
    BY ServedIvc
  <2> QED
    BY <1>1, <2>1
<1>6. toStraight' <=> Taken(g, s) # None
  <2>1. IsStraight(g) => OvcOf(g) # None
    BY <1>3, GrantHasCredit DEF Edge
  <2> QED
    BY <1>1, <2>1 DEF Taken
<1>7. toStraight' \in BOOLEAN
  BY <1>1
<1> QED
  BY <1>1, <1>4, <1>5, <1>6, <1>7

\* An OVC is free after a tail, and stays occupied after another flit.
LEMMA StatusEdge ==
    ASSUME Inv, NEW g, NEW x, NEW c, NEW in, NEW s, Edge(g, x, c, in, s), NEW o \in Vc
    PROVE  /\ status'[o] <=> IF o = Taken(g, s) THEN ~Sent(g, in).tail
                             ELSE IF o = x.ovc THEN ~x.tail ELSE status[o]
           /\ other'[o] <=> IF o = x.ovc THEN ~x.tail ELSE other[o]
           /\ status'[o] \in BOOLEAN /\ other'[o] \in BOOLEAN
<1> DEFINE u == Served(g, s)
           t == Taken(g, s)
           d == Sent(g, in)
           allocated == (IF IsStraight(g) /\ ~assigned[g.vc] /\ ~Passed(in, g.vc).tail
                         THEN {g.ovc} ELSE {})
                        \cup (IF s # None /\ in.hdr /\ ~in.tail THEN {s} ELSE {})
                        \cup (IF x.hdr /\ ~x.tail THEN {x.ovc} ELSE {})
           released  == (IF IsStraight(g) /\ assigned[g.vc] /\ Passed(in, g.vc).tail
                         THEN {assignedOvc[g.vc]} ELSE {})
                        \cup (IF s # None /\ ~in.hdr /\ in.tail THEN {s} ELSE {})
                        \cup (IF ~x.hdr /\ x.tail THEN {x.ovc} ELSE {})
<1>1. /\ status' = [p \in Vc |-> p \in allocated \/ (status[p] /\ p \notin released)]
      /\ other' = [p \in Vc |-> IF x.ovc = p THEN ~x.tail ELSE other[p]]
  BY DEF Edge, OvcStatus
<1>2. None \notin Vc /\ other \in [Vc -> BOOLEAN] /\ status \in [Vc -> BOOLEAN]
      /\ assigned \in [Vc -> BOOLEAN]
  BY StraightAssumption DEF Inv, Registers
<1>3. /\ x = NoOther => x.ovc = None /\ ~x.hdr /\ ~x.tail
      /\ x # NoOther => /\ x.hdr => OvcAvailable(x.ovc)
                        /\ ~x.hdr => other[x.ovc]
  BY OtherFacts DEF Edge
<1>4. o \in allocated <=> \/ o = t /\ d.hdr /\ ~d.tail
                          \/ o = x.ovc /\ x.hdr /\ ~x.tail
  <2>1. CASE IsStraight(g)
    <3>1. g # NoGrant /\ s = None /\ t = OvcOf(g) /\ u = g.vc
      BY <2>1, EdgeFacts DEF IsStraight, Taken, Served
    <3>2. g.vc \in Vc /\ g.vc \in {g.vc, s} /\ g.vc # None
      BY <1>2, <3>1, EdgeFacts
    <3>3. Passed(in, g.vc) = d /\ (d.hdr <=> ~assigned[g.vc])
      BY <3>1, <3>2, IvcEdge, ServedIvc
    <3>4. ~assigned[g.vc] => t = g.ovc
      BY <2>1, <3>1, GrantHasCredit DEF Edge
    <3> QED
      BY <2>1, <3>1, <3>3, <3>4
  <2>2. CASE ~IsStraight(g)
    <3>1. t = s /\ (s # None => g = NoGrant)
      BY <2>2, EdgeFacts DEF Taken
    <3>2. s # None => d = in
      BY <3>1 DEF Sent
    <3> QED
      BY <1>2, <2>2, <3>1, <3>2
  <2> QED
    BY <2>1, <2>2
<1>5. o \in released <=> \/ o = t /\ ~d.hdr /\ d.tail
                         \/ o = x.ovc /\ ~x.hdr /\ x.tail
  <2>1. CASE IsStraight(g)
    <3>1. g # NoGrant /\ s = None /\ t = OvcOf(g) /\ u = g.vc
      BY <2>1, EdgeFacts DEF IsStraight, Taken, Served
    <3>2. g.vc \in Vc /\ g.vc \in {g.vc, s} /\ g.vc # None
      BY <1>2, <3>1, EdgeFacts
    <3>3. Passed(in, g.vc) = d /\ (d.hdr <=> ~assigned[g.vc])
      BY <3>1, <3>2, IvcEdge, ServedIvc
    <3>4. assigned[g.vc] => t = assignedOvc[g.vc]
      BY <2>1, <3>1 DEF OvcOf
    <3> QED
      BY <2>1, <3>1, <3>3, <3>4
  <2>2. CASE ~IsStraight(g)
    <3>1. t = s /\ (s # None => g = NoGrant)
      BY <2>2, EdgeFacts DEF Taken
    <3>2. s # None => d = in
      BY <3>1 DEF Sent
    <3> QED
      BY <1>2, <2>2, <3>1, <3>2
  <2> QED
    BY <2>1, <2>2
<1>6. status'[o] <=> o \in allocated \/ (status[o] /\ o \notin released)
  BY <1>1
<1>7. other'[o] <=> IF o = x.ovc THEN ~x.tail ELSE other[o]
  BY <1>1
<1>8. status'[o] \in BOOLEAN /\ other'[o] \in BOOLEAN
  BY <1>1, <1>2
<1> HIDE DEF allocated, released
<1>9. CASE o = t
  <2>1. t # None /\ x = NoOther
    BY <1>2, <1>9, TakenOvc
  <2>2. CASE d.hdr
    <3>1. OvcAvailable(t)
      BY <1>2, <2>1, <2>2, ServedIvc, TakenOvc
    <3>2. ~status[o]
      BY <1>9, <3>1, AvailableOvc
    <3> QED
      BY <1>2, <1>3, <1>4, <1>5, <1>6, <1>7, <1>8, <1>9, <2>1, <2>2, <3>2
  <2>3. CASE ~d.hdr
    <3>1. u \in Vc /\ Holds(u, o)
      BY <1>2, <1>9, <2>1, <2>3, ServedIvc, TakenOvc
    <3>2. status[o]
      BY <3>1 DEF Inv, Occupied
    <3> QED
      BY <1>2, <1>3, <1>4, <1>5, <1>6, <1>7, <1>8, <1>9, <2>1, <2>3, <3>2
  <2> QED
    BY <2>2, <2>3
<1>10. CASE o # t /\ o = x.ovc
  <2>1. x # NoOther
    BY <1>2, <1>3, <1>10
  <2>2. x.hdr => ~status[o]
    BY <1>3, <1>10, <2>1, AvailableOvc
  <2>3. ~x.hdr => status[o]
    BY <1>3, <1>10, <2>1 DEF Inv, Occupied
  <2> QED
    BY <1>4, <1>5, <1>6, <1>7, <1>8, <1>10, <2>2, <2>3
<1>11. CASE o # t /\ o # x.ovc
  BY <1>4, <1>5, <1>6, <1>7, <1>8, <1>11
<1> QED
  BY <1>9, <1>10, <1>11
-----------------------------------------------------------------------------
(* Every edge preserves the invariant.                                     *)

LEMMA RegistersStep ==
    ASSUME Inv, NEW g, NEW x, NEW c, NEW in, NEW s, Edge(g, x, c, in, s)
    PROVE  Registers'
<1>1. None \notin Vc /\ B \in Nat
  BY StraightAssumption
<1>2. arriving' \in [Vc -> Packet \cup {None}]
  <2>1. arriving' = [v \in Vc |-> IF in.vc # v THEN arriving[v]
                                  ELSE IF in.tail THEN None ELSE in.pck]
    BY DEF Edge, FlitBuffer
  <2>2. \A v \in Vc : in.vc = v => in.pck \in Packet
    BY <1>1, EdgeFacts DEF Flit
  <2>3. arriving \in [Vc -> Packet \cup {None}]
    BY DEF Inv, Registers
  <2> QED
    BY <2>1, <2>2, <2>3
<1>3. \A v \in Vc : buffer'[v] \in Seq(Flit) /\ headers'[v] \in Seq(Packet)
  <2> SUFFICES ASSUME NEW v \in Vc
               PROVE  buffer'[v] \in Seq(Flit) /\ headers'[v] \in Seq(Packet)
    OBVIOUS
  <2>1. InOrder(Flits(v, in), Routes(v, in), Held(v), arriving'[v])
    BY Arrived
  <2>2. Flits(v, in) \in Seq(Flit) /\ Routes(v, in) \in Seq(Packet)
    BY <2>1 DEF InOrder
  <2>3. CASE v \notin {g.vc, s}
    BY <2>2, <2>3, IvcEdge
  <2>4. CASE v \in {g.vc, s}
    <3>1. Flits(v, in) # <<>> /\ Routes(v, in) # <<>>
      BY <2>1, <2>4, IvcEdge, FrontRoute
    <3>2. Tail(Flits(v, in)) \in Seq(Flit) /\ Tail(Routes(v, in)) \in Seq(Packet)
      BY <2>2, <3>1
    <3>3. buffer'[v] = Tail(Flits(v, in))
          /\ headers'[v] = IF Flits(v, in)[1].tail THEN Tail(Routes(v, in))
                           ELSE Routes(v, in)
      BY <2>4, IvcEdge
    <3> QED
      BY <2>2, <3>2, <3>3
  <2> QED
    BY <2>3, <2>4
<1>4. buffer' \in [Vc -> Seq(Flit)] /\ headers' \in [Vc -> Seq(Packet)]
  BY <1>3 DEF Edge, FlitBuffer, HeaderFifos
<1>5. lkDest' \in [Vc -> Seq(Id)]
  <2>1. lkDest' = [v \in Vc |-> Ids(headers[v])]
    BY DEF Edge, HeaderFifos, Inv, LookAheads
  <2>2. \A v \in Vc : Ids(headers[v]) \in Seq(Id)
    <3> SUFFICES ASSUME NEW v \in Vc PROVE Ids(headers[v]) \in Seq(Id)
      OBVIOUS
    <3>1. headers[v] \in Seq(Packet)
      BY DEF Inv, Registers
    <3>2. \A i \in 1 .. Len(headers[v]) : headers[v][i] \in Packet
      BY <3>1
    <3>3. \A p \in Packet : p.id \in Id
      BY DEF Packet
    <3> QED
      BY <3>1, <3>2, <3>3 DEF Ids
  <2> QED
    BY <2>1, <2>2
<1>6. assigned' \in [Vc -> BOOLEAN]
  BY DEF Edge, OvcAssignment, Inv, Registers
<1>7. assignedOvc' \in [Vc -> Vc \cup {None}]
  <2>1. \A v \in Vc : g.vc = v => g.ovc \in Vc \cup {None}
    BY <1>1, EdgeFacts
  <2>2. assignedOvc \in [Vc -> Vc \cup {None}]
    BY DEF Inv, Registers
  <2> QED
    BY <2>1, <2>2 DEF Edge, OvcAssignment
<1>8. ovcIsFull' \in [Vc -> BOOLEAN]
  BY DEF Edge, FullOvcPredictor
<1>9. status' \in [Vc -> BOOLEAN] /\ other' \in [Vc -> BOOLEAN]
  BY StatusEdge DEF Edge, OvcStatus
<1>10. credit' \in [Vc -> 0 .. B]
  BY CreditEdge DEF Edge, CreditMonitor
<1>11. bufferOut' \in Flit \cup {NoFlit}
  BY OutputEdge, ServedIvc
<1>12. toStraight' \in BOOLEAN /\ ivcAnyDelayed' \in BOOLEAN
  BY OutputEdge
<1>13. otherToStraight' \in OtherGrant \cup {NoOther}
  BY OutputEdge, OtherFacts DEF Edge
<1> QED
  BY <1>2, <1>4, <1>5, <1>6, <1>7, <1>8, <1>9, <1>10, <1>11, <1>12, <1>13 DEF Registers

LEMMA QueuesStep ==
    ASSUME Inv, NEW g, NEW x, NEW c, NEW in, NEW s, Edge(g, x, c, in, s)
    PROVE  Queues'
<1> SUFFICES ASSUME NEW v \in Vc
             PROVE  /\ Len(buffer'[v]) <= B
                    /\ InOrder(buffer'[v], headers'[v], Held(v)', arriving'[v])
  BY DEF Queues
<1>1. /\ InOrder(Flits(v, in), Routes(v, in), Held(v), arriving'[v])
      /\ Len(Flits(v, in)) <= B /\ B \in Nat
  BY Arrived, StraightAssumption
<1>2. CASE v \notin {g.vc, s}
  <2>1. Held(v)' = Held(v)
    BY <1>2, IvcEdge DEF Held
  <2> QED
    BY <1>1, <1>2, <2>1, IvcEdge
<1>3. CASE v \in {g.vc, s}
  <2> DEFINE f == Flits(v, in)
             r == Routes(v, in)
  <2>1. /\ f # <<>> /\ buffer'[v] = Tail(f)
        /\ headers'[v] = IF f[1].tail THEN Tail(r) ELSE r
        /\ assigned'[v] <=> ~f[1].tail
    BY <1>3, IvcEdge
  <2>2. Held(v)' = IF f[1].tail THEN 0 ELSE 1
    BY <2>1 DEF Held
  <2>3. f \in Seq(Flit)
    BY <1>1 DEF InOrder
  <2> HIDE DEF f, r
  <2>4. InOrder(f, r, Held(v), arriving'[v]) /\ Len(f) <= B
    BY <1>1 DEF f, r
  <2>5. InOrder(Tail(f), IF f[1].tail THEN Tail(r) ELSE r,
                IF f[1].tail THEN 0 ELSE 1, arriving'[v])
    BY <2>1, <2>4, Leave
  <2>6. Len(Tail(f)) <= B
    BY <1>1, <2>1, <2>3, <2>4
  <2> QED
    BY <2>1, <2>2, <2>5, <2>6
<1> QED
  BY <1>2, <1>3

LEMMA LookAheadsStep ==
    ASSUME Inv, NEW g, NEW x, NEW c, NEW in, NEW s, Edge(g, x, c, in, s)
    PROVE  LookAheads'
<1> SUFFICES ASSUME NEW v \in Vc
             PROVE  FifoNext(lkDest'[v], wrHdrDelay' = v, lkDestIn', v \in rdHdrDelay')
                    = Ids(headers'[v])
  BY DEF LookAheads
<1>1. None \notin Vc /\ headers[v] \in Seq(Packet)
  BY StraightAssumption DEF Inv, Registers
<1> DEFINE h == headers[v]
           wr == in.vc = v /\ in.hdr
           full == IF wr THEN Append(h, in.pck) ELSE h
<1>2. /\ lkDest'[v] = Ids(h)
      /\ wrHdrDelay' = v <=> wr
      /\ wr => lkDestIn' = in.pck.id
      /\ rdHdrDelay' = Reset(in, g, s)
      /\ headers'[v] = IF v \in Reset(in, g, s) /\ full # <<>> THEN Tail(full) ELSE full
  BY <1>1 DEF Edge, HeaderFifos, Inv, LookAheads, FifoNext
<1>3. wr => in.pck \in Packet
  BY <1>1, EdgeFacts DEF Flit
<1>4. full \in Seq(Packet)
  BY <1>1, <1>3
<1>5. Ids(full) = IF wr THEN Append(Ids(h), in.pck.id) ELSE Ids(h)
  <2>1. CASE wr
    <3>1. Ids(Append(h, in.pck)) = Append(Ids(h), in.pck.id)
      BY <1>1, <1>3, <2>1 DEF Ids
    <3> QED
      BY <2>1, <3>1
  <2>2. CASE ~wr
    BY <2>2
  <2> QED
    BY <2>1, <2>2
<1>6. full # <<>> => Ids(Tail(full)) = Tail(Ids(full))
  <2> HIDE DEF full
  <2> QED
    BY <1>4 DEF Ids
<1>7. full = <<>> <=> Ids(full) = <<>>
  <2> HIDE DEF full
  <2> QED
    BY <1>4 DEF Ids
<1> HIDE DEF h, wr, full
<1>8. Ids(headers'[v]) = IF v \in Reset(in, g, s) /\ Ids(full) # <<>> THEN Tail(Ids(full))
                         ELSE Ids(full)
  BY <1>2, <1>6, <1>7
<1> QED
  BY <1>2, <1>5, <1>8 DEF FifoNext

LEMMA OccupiedStep ==
    ASSUME Inv, NEW g, NEW x, NEW c, NEW in, NEW s, Edge(g, x, c, in, s)
    PROVE  Occupied'
<1> DEFINE u == Served(g, s)
           t == Taken(g, s)
           d == Sent(g, in)
<1>1. None \notin Vc
  BY StraightAssumption
<1>2. /\ t # None => /\ u \in Vc /\ t \in Vc /\ x = NoOther
                     /\ assigned[u] => Holds(u, t)
                     /\ ~assigned[u] => OvcAvailable(t)
      /\ x = NoOther => x.ovc = None
      /\ x # NoOther => /\ x.ovc \in Vc
                        /\ x.hdr => OvcAvailable(x.ovc)
                        /\ ~x.hdr => other[x.ovc]
  BY TakenOvc, OtherFacts DEF Edge
<1>3. /\ \A o \in Vc : status[o] <=> other[o] \/ \E v \in Vc : Holds(v, o)
      /\ \A v \in Vc, o \in Vc : Holds(v, o) => ~other[o]
      /\ \A v \in Vc, w \in Vc, o \in Vc : Holds(v, o) /\ Holds(w, o) => v = w
  BY DEF Inv, Occupied
<1>4. \A v \in Vc, o \in Vc : o = t /\ t # None /\ Holds(v, o) => v = u
  BY <1>2, <1>3, AvailableOvc
<1>5. \A v \in Vc, o \in Vc : o = x.ovc => ~Holds(v, o)
  BY <1>1, <1>2, <1>3, AvailableOvc
<1>6. \A v \in Vc, o \in Vc :
        Holds(v, o)' <=> IF t # None /\ v = u THEN ~d.tail /\ o = t ELSE Holds(v, o)
  BY HoldsEdge
<1>7. \A o \in Vc :
        /\ status'[o] <=> IF o = t THEN ~d.tail ELSE IF o = x.ovc THEN ~x.tail ELSE status[o]
        /\ other'[o] <=> IF o = x.ovc THEN ~x.tail ELSE other[o]
  BY StatusEdge
<1>8. \A o \in Vc : o = t => ~other[o]
  BY <1>1, <1>2, <1>3, AvailableOvc
<1>9. \A v \in Vc : (assigned[v] /\ Straight(v))' => assignedOvc'[v] \in Vc
  <2> SUFFICES ASSUME NEW v \in Vc, (assigned[v] /\ Straight(v))'
               PROVE  assignedOvc'[v] # None
    BY RegistersStep DEF Registers
  <2>1. SUFFICES ASSUME assignedOvc'[v] = None PROVE FALSE
    OBVIOUS
  <2>2. Holds(v, None)'
    BY <2>1 DEF Holds
  <2>3. ~Holds(v, None)
    BY <1>1 DEF Inv, Occupied, Holds
  <2> QED
    BY <2>2, <2>3, HoldsEdge
<1> HIDE DEF u, t, d
<1>10. ASSUME NEW o \in Vc
       PROVE  status'[o] <=> other'[o] \/ \E v \in Vc : Holds(v, o)'
  <2>1. CASE o = t
    BY <1>1, <1>2, <1>4, <1>6, <1>7, <1>8, <2>1
  <2>2. CASE o # t /\ o = x.ovc
    BY <1>2, <1>5, <1>6, <1>7, <2>2
  <2>3. CASE o # t /\ o # x.ovc
    <3>1. \A v \in Vc : Holds(v, o)' <=> Holds(v, o)
      <4> SUFFICES ASSUME NEW v \in Vc PROVE Holds(v, o)' <=> Holds(v, o)
        OBVIOUS
      <4>1. CASE t # None /\ v = u
        <5>1. ~Holds(v, o)'
          BY <1>6, <2>3, <4>1
        <5>2. ~Holds(v, o)
          <6>1. CASE assigned[u]
            BY <1>2, <2>3, <4>1, <6>1 DEF Holds
          <6>2. CASE ~assigned[u]
            BY <4>1, <6>2 DEF Holds
          <6> QED
            BY <6>1, <6>2
        <5> QED
          BY <5>1, <5>2
      <4>2. CASE ~(t # None /\ v = u)
        BY <1>6, <4>2
      <4> QED
        BY <4>1, <4>2
    <3> QED
      BY <1>3, <1>7, <2>3, <3>1
  <2> QED
    BY <2>1, <2>2, <2>3
<1>11. \A v \in Vc, o \in Vc : Holds(v, o)' => ~other'[o]
  BY <1>1, <1>2, <1>3, <1>5, <1>6, <1>7, <1>8
<1>12. \A v \in Vc, w \in Vc, o \in Vc : Holds(v, o)' /\ Holds(w, o)' => v = w
  BY <1>3, <1>4, <1>6
<1> QED
  BY <1>9, <1>10, <1>11, <1>12 DEF Occupied
LEMMA HeldBackStep ==
    ASSUME Inv, NEW g, NEW x, NEW c, NEW in, NEW s, Edge(g, x, c, in, s)
    PROVE  HeldBack'
<1> SUFFICES ASSUME NEW v \in Vc, assigned'[v], Straight(v)', buffer'[v] # <<>>,
                    credit'[assignedOvc'[v]] = 0
             PROVE  ovcIsFull'[v]
  BY DEF HeldBack
<1> DEFINE u == Served(g, s)
           t == Taken(g, s)
           d == Sent(g, in)
<1>1. assignedOvc'[v] \in Vc
  BY OccupiedStep DEF Occupied
<1>2. PICK o \in Vc : o = assignedOvc'[v]
  BY <1>1
<1>3. Holds(v, o)' /\ credit'[o] = 0
  BY <1>2 DEF Holds
<1>4. None \notin Vc /\ credit[o] \in 0 .. B /\ B \in Nat
  BY StraightAssumption DEF Inv, Registers
<1>5. /\ o = t \/ o = x.ovc => credit[o] > 0
      /\ credit'[o] = credit[o] + (IF c = o THEN 1 ELSE 0)
                      - (IF o = t \/ o = x.ovc THEN 1 ELSE 0)
  BY CreditEdge
<1>6. ovcIsFull'[v] <=>
        /\ Straight(v)
        /\ \/ assignedOvc[v] # None /\ Full(assignedOvc[v]) /\ c # assignedOvc[v]
           \/ /\ g.vc = v
              /\ (IF assigned[v] \/ ~OvcAllocMode THEN assignedOvc[v] ELSE g.ovc) # None
              /\ NearlyFull(IF assigned[v] \/ ~OvcAllocMode THEN assignedOvc[v] ELSE g.ovc)
              /\ c # (IF assigned[v] \/ ~OvcAllocMode THEN assignedOvc[v] ELSE g.ovc)
  BY DEF Edge, FullOvcPredictor
<1>7. CASE t # None /\ v = u
  <2>1. o = t
    BY <1>3, <1>7, HoldsEdge
  <2>2. credit[o] = 1 /\ c # o
    BY <1>3, <1>4, <1>5, <2>1
  <2>3. g # NoGrant
    <3> SUFFICES ASSUME g = NoGrant PROVE FALSE
      OBVIOUS
    <3>1. s = v /\ s # None /\ v \in {g.vc, s}
      BY <1>4, <1>7 DEF Served
    <3>2. buffer[v] = <<>> /\ in.vc = v
      BY <3>1, EdgeFacts
    <3>3. Flits(v, in) = <<in>> /\ buffer'[v] = Tail(Flits(v, in))
      BY <3>1, <3>2, Arrived, IvcEdge
    <3> QED
      BY <3>3
  <2>4. g.vc = v /\ IsStraight(g) /\ t = OvcOf(g)
    BY <1>7, <2>3, EdgeFacts DEF Served, Taken
  <2>5. Straight(v)
    BY <2>4 DEF IsStraight
  <2>6. CASE assigned[v]
    <3>1. assignedOvc[v] = o
      BY <2>1, <2>4, <2>6 DEF OvcOf
    <3> QED
      BY <1>4, <1>6, <2>2, <2>4, <2>5, <2>6, <3>1 DEF NearlyFull
  <2>7. CASE ~assigned[v]
    <3>1. OvcAvailable(o) /\ o = g.ovc
      BY <2>1, <2>4, <2>7, GrantHasCredit DEF Edge
    <3>2. OvcAllocMode
      BY <2>2, <3>1, AvailableOvc
    <3> QED
      BY <1>4, <1>6, <2>2, <2>4, <2>5, <2>7, <3>1, <3>2 DEF NearlyFull
  <2> QED
    BY <2>6, <2>7
<1>8. CASE ~(t # None /\ v = u)
  <2>1. Holds(v, o)
    BY <1>3, <1>8, HoldsEdge
  <2>2. status[o] /\ ~other[o] /\ \A w \in Vc : Holds(w, o) => w = v
    BY <2>1 DEF Inv, Occupied
  <2>3. o # t
    <3> SUFFICES ASSUME o = t PROVE FALSE
      OBVIOUS
    <3>1. t # None
      BY <1>4
    <3>2. u \in Vc /\ (assigned[u] => Holds(u, o)) /\ (~assigned[u] => OvcAvailable(o))
      BY <3>1, TakenOvc
    <3> QED
      BY <1>8, <2>2, <3>1, <3>2, AvailableOvc
  <2>4. o # x.ovc
    <3> SUFFICES ASSUME o = x.ovc PROVE FALSE
      OBVIOUS
    <3>1. (x.hdr => OvcAvailable(o)) /\ (~x.hdr => other[o])
      BY <1>4, OtherFacts DEF Edge
    <3> QED
      BY <2>2, <3>1, AvailableOvc
  <2>5. credit[o] = 0 /\ c # o
    BY <1>3, <1>4, <1>5, <2>3, <2>4
  <2>6. Straight(v) /\ assignedOvc[v] = o
    BY <2>1 DEF Holds
  <2> QED
    BY <1>4, <1>6, <2>5, <2>6 DEF Full
<1> QED
  BY <1>7, <1>8

\* What is open on an OVC follows what is sent on it.
LEMMA LeftEdge ==
    ASSUME Inv, NEW g, NEW x, NEW c, NEW in, NEW s, Edge(g, x, c, in, s), NEW o \in Vc
    PROVE  /\ leaving'[o] = Left(o)
           /\ Left(o)' = IF o = Taken(g, s)
                         THEN IF Sent(g, in).tail THEN None ELSE Sent(g, in).pck
                         ELSE IF o = x.ovc THEN IF x.tail THEN None ELSE NoOther
                         ELSE Left(o)
<1> DEFINE u == Served(g, s)
           t == Taken(g, s)
           d == Sent(g, in)
<1>1. None \notin Vc
  BY StraightAssumption
<1>2. leaving'[o] = Left(o)
  BY DEF Edge, NextRouter, Left
<1>3. /\ toStraight' <=> t # None
      /\ otherToStraight' = x
  BY OutputEdge
<1>4. CASE t # None
  <2>1. u \in Vc /\ assignedOvc'[u] = t /\ x = NoOther
    BY <1>4, TakenOvc
  <2>2. vcNumDelayed' = {u} /\ bufferOut' = d
    BY <1>1, <2>1, OutputEdge
  <2>3. OvcNum' = t
    BY <2>1, <2>2 DEF OvcNum
  <2> QED
    BY <1>2, <1>3, <1>4, <2>2, <2>3 DEF Left
<1>5. CASE t = None
  BY <1>1, <1>2, <1>3, <1>5 DEF Left
<1> QED
  BY <1>4, <1>5

LEMMA OutputStep ==
    ASSUME Inv, NEW g, NEW x, NEW c, NEW in, NEW s, Edge(g, x, c, in, s)
    PROVE  Output'
<1> DEFINE u == Served(g, s)
           t == Taken(g, s)
           d == Sent(g, in)
<1>1. None \notin Vc
  BY StraightAssumption
<1>2. /\ bufferOut' = IF u = None THEN NoFlit ELSE d
      /\ vcNumDelayed' = IF u = None THEN {} ELSE {u}
      /\ ivcAnyDelayed' = (g # NoGrant)
      /\ toStraight' <=> t # None
      /\ otherToStraight' = x
      /\ u \in Vc \cup {None}
  BY OutputEdge, ServedIvc
<1>3. u # None => /\ Routes(u, in) # <<>> /\ Routes(u, in)[1] = d.pck
                  /\ d \in Flit /\ (d.hdr <=> ~assigned[u])
  BY ServedIvc
<1>4. t # None => /\ u \in Vc /\ t \in Vc /\ x = NoOther
                  /\ assigned[u] => Holds(u, t)
                  /\ ~assigned[u] => OvcAvailable(t)
                  /\ assignedOvc'[u] = t
                  /\ d.pck.straight
  BY TakenOvc
<1>5. vcNumDelayed' = {} \/ \E v \in Vc : vcNumDelayed' = {v}
  BY <1>2
<1>6. toStraight' => /\ otherToStraight' = NoOther
                     /\ \E v \in Vc : vcNumDelayed' = {v} /\ assignedOvc'[v] \in Vc
  BY <1>1, <1>2, <1>4
<1>7. LeavesInOrder'
  <2> SUFFICES ASSUME toStraight'
               PROVE  /\ bufferOut'.pck.straight
                      /\ bufferOut'.hdr = (leaving'[OvcNum'] = None)
                      /\ ~bufferOut'.hdr => leaving'[OvcNum'] = bufferOut'.pck
    BY DEF LeavesInOrder
  <2>1. t # None /\ u \in Vc /\ t \in Vc /\ bufferOut' = d /\ vcNumDelayed' = {u}
        /\ d.pck.straight /\ assignedOvc'[u] = t
    BY <1>1, <1>2, <1>4
  <2>2. OvcNum' = t
    BY <2>1 DEF OvcNum
  <2>3. leaving'[t] = Left(t)
    BY <2>1, LeftEdge
  <2>4. d.hdr \in BOOLEAN /\ d.pck # None /\ (d.hdr <=> ~assigned[u])
    BY <1>1, <1>3, <2>1, NoneAssumption DEF Flit
  <2>5. CASE d.hdr
    <3>1. ~status[t]
      BY <1>4, <2>1, <2>4, <2>5, AvailableOvc
    <3>2. leaving'[t] = None
      BY <2>1, <2>3, <3>1 DEF Inv, Output
    <3> QED
      BY <2>1, <2>2, <2>4, <2>5, <3>2
  <2>6. CASE ~d.hdr
    <3>1. Holds(u, t) /\ assigned[u]
      BY <1>4, <2>1, <2>4, <2>6
    <3>2. leaving'[t] = headers[u][1]
      BY <2>1, <2>3, <3>1 DEF Inv, Output
    <3>3. headers[u] # <<>>
      BY <2>1, <3>1, HeldRoute
    <3>4. Routes(u, in)[1] = headers[u][1]
      BY <2>1, <3>3, Arrived
    <3>5. leaving'[t] = d.pck
      BY <1>1, <1>3, <2>1, <3>2, <3>4
    <3> QED
      BY <2>1, <2>2, <2>4, <2>6, <3>5
  <2> QED
    BY <2>5, <2>6
<1>8. LookAheadOfHeader'
  <2> SUFFICES ASSUME bufferOut'.hdr PROVE LkRoute' = bufferOut'.pck.id
    BY DEF LookAheadOfHeader
  <2>1. u # None
    BY <1>2 DEF NoFlit
  <2>2. u \in Vc /\ bufferOut' = d /\ vcNumDelayed' = {u} /\ d.hdr
    BY <1>2, <2>1
  <2>3. CASE g = NoGrant
    <3>1. d = in /\ ~ivcAnyDelayed'
      BY <1>2, <2>3 DEF Sent
    <3>2. lkDestIn' = in.pck.id
      BY <2>2, <3>1 DEF Edge, HeaderFifos
    <3> QED
      BY <2>2, <3>1, <3>2 DEF LkRoute
  <2>4. CASE g # NoGrant
    <3>1. ivcAnyDelayed' /\ u = g.vc /\ buffer[u] # <<>> /\ d = Head(buffer[u])
      BY <1>2, <2>4, EdgeFacts DEF Served, Sent
    <3>2. headers[u] # <<>> /\ headers[u][1] = d.pck
      BY <1>1, <2>2, <3>1, Arrived
    <3>3. lkDest'[u] = Ids(headers[u])
      BY <2>2 DEF Edge, HeaderFifos, Inv, LookAheads
    <3>4. headers[u] \in Seq(Packet)
      BY <2>2 DEF Inv, Registers
    <3>5. lkDest'[u] # <<>> /\ Head(lkDest'[u]) = d.pck.id
      BY <3>2, <3>3, <3>4 DEF Ids
    <3> QED
      BY <2>2, <3>1, <3>5 DEF LkRoute
  <2> QED
    BY <2>3, <2>4
<1>9. ASSUME NEW v \in Vc, NEW o \in Vc, Holds(v, o)'
      PROVE  Left(o)' = headers'[v][1]
  <2>1. CASE t # None /\ v = u
    BY <1>9, <2>1, HoldsEdge, LeftEdge
  <2>2. CASE ~(t # None /\ v = u)
    <3>1. Holds(v, o) /\ headers'[v][1] = headers[v][1]
      BY <1>9, <2>2, HoldsEdge
    <3>2. status[o] /\ ~other[o] /\ \A w \in Vc : Holds(w, o) => w = v
      BY <3>1 DEF Inv, Occupied
    <3>3. o # t
      BY <1>1, <1>4, <2>2, <3>2, AvailableOvc
    <3>4. o # x.ovc
      BY <1>1, <3>2, OtherFacts, AvailableOvc DEF Edge
    <3>5. Left(o)' = Left(o)
      BY <3>3, <3>4, LeftEdge
    <3>6. Left(o) = headers[v][1]
      BY <3>1 DEF Inv, Output
    <3> QED
      BY <3>1, <3>5, <3>6
  <2> QED
    BY <2>1, <2>2
<1>10. ASSUME NEW o \in Vc, ~status'[o] PROVE Left(o)' = None
  <2>1. /\ status'[o] <=> IF o = t THEN ~d.tail ELSE IF o = x.ovc THEN ~x.tail ELSE status[o]
        /\ Left(o)' = IF o = t THEN IF d.tail THEN None ELSE d.pck
                      ELSE IF o = x.ovc THEN IF x.tail THEN None ELSE NoOther
                      ELSE Left(o)
    BY StatusEdge, LeftEdge
  <2>2. ~status[o] => Left(o) = None
    BY DEF Inv, Output
  <2> HIDE DEF t, d
  <2> QED
    BY <1>10, <2>1, <2>2
<1> QED
  BY <1>5, <1>6, <1>7, <1>8, <1>9, <1>10 DEF Output
LEMMA InitHasInv == Init => Inv
<1> SUFFICES ASSUME Init PROVE Inv
  OBVIOUS
<1>1. None \notin Vc /\ B \in Nat /\ B >= 2
  BY StraightAssumption
<1>2. Registers
  <2>1. /\ arriving \in [Vc -> Packet \cup {None}]
        /\ assigned \in [Vc -> BOOLEAN] /\ assignedOvc \in [Vc -> Vc \cup {None}]
        /\ ovcIsFull \in [Vc -> BOOLEAN]
        /\ status \in [Vc -> BOOLEAN] /\ other \in [Vc -> BOOLEAN]
        /\ credit \in [Vc -> 0 .. B]
    BY <1>1 DEF Init
  <2>2. <<>> \in Seq(Flit) /\ <<>> \in Seq(Packet) /\ <<>> \in Seq(Id)
    OBVIOUS
  <2>3. /\ buffer \in [Vc -> Seq(Flit)] /\ headers \in [Vc -> Seq(Packet)]
        /\ lkDest \in [Vc -> Seq(Id)]
    BY <2>2 DEF Init
  <2>4. /\ bufferOut \in Flit \cup {NoFlit} /\ toStraight \in BOOLEAN
        /\ ivcAnyDelayed \in BOOLEAN
        /\ otherToStraight \in OtherGrant \cup {NoOther}
    BY DEF Init
  <2> QED
    BY <2>1, <2>3, <2>4 DEF Registers
<1>3. Queues
  <2>1. \A v \in Vc : Held(v) = 0 /\ buffer[v] = <<>> /\ headers[v] = <<>> /\ arriving[v] = None
    BY DEF Init, Held
  <2>2. InOrder(<<>>, <<>>, 0, None)
    BY DEF InOrder
  <2>3. Len(<<>>) = 0
    OBVIOUS
  <2> QED
    BY <1>1, <2>1, <2>2, <2>3 DEF Queues
<1>4. LookAheads
  BY <1>1 DEF Init, LookAheads, FifoNext, Ids
<1>5. \A v \in Vc : ~assigned[v] /\ ~status[v] /\ ~other[v] /\ leaving[v] = None
  BY DEF Init
<1>6. Occupied
  BY <1>5 DEF Occupied, Holds
<1>7. HeldBack
  BY <1>5 DEF HeldBack
<1>8. Output
  <2>1. /\ vcNumDelayed = {} /\ ~toStraight /\ ~bufferOut.hdr /\ otherToStraight.ovc = None
    BY DEF Init, NoFlit, NoOther
  <2>2. \A o \in Vc : Left(o) = None
    BY <1>1, <1>5, <2>1 DEF Left
  <2> QED
    BY <1>5, <2>1, <2>2 DEF Output, LeavesInOrder, LookAheadOfHeader, Holds
<1> QED
  BY <1>2, <1>3, <1>4, <1>6, <1>7, <1>8 DEF Inv

LEMMA NextKeepsInv == Inv /\ [Next]_vars => Inv'
<1> SUFFICES ASSUME Inv, [Next]_vars PROVE Inv'
  OBVIOUS
<1>1. CASE Next
  <2>1. PICK g, x, c, in, s : Edge(g, x, c, in, s)
    BY <1>1, NextIsEdge
  <2> QED
    BY <2>1, RegistersStep, QueuesStep, LookAheadsStep, OccupiedStep, HeldBackStep,
       OutputStep DEF Inv
<1>2. CASE UNCHANGED vars
  <2>1. UNCHANGED inVars /\ UNCHANGED outVars
    BY <1>2 DEF vars
  <2>2. Registers' /\ Queues' /\ LookAheads'
    BY <2>1 DEF inVars, outVars, Inv, Registers, Queues, LookAheads, Held
  <2>3. \A v \in Vc, o \in Vc : Holds(v, o)' <=> Holds(v, o)
    BY <2>1 DEF inVars, Holds, Straight
  <2>4. Occupied'
    BY <2>1, <2>3 DEF inVars, outVars, Inv, Occupied, Straight
  <2>5. HeldBack'
    BY <2>1 DEF inVars, outVars, Inv, HeldBack, Straight
  <2>6. \A o \in Vc : Left(o)' = Left(o)
    BY <2>1 DEF inVars, outVars, Left, OvcNum
  <2>7. Output'
    BY <2>1, <2>3, <2>6 DEF inVars, outVars, Inv, Output, LeavesInOrder, LookAheadOfHeader,
       OvcNum, LkRoute
  <2> QED
    BY <2>2, <2>4, <2>5, <2>7 DEF Inv
<1> QED
  BY <1>1, <1>2

\* In every reachable state the queues of the input port, the OVC status and
\* the registers behind the buffer agree with each other.
THEOREM SpecInv == Spec => []Inv
  BY InitHasInv, NextKeepsInv, PTL DEF Spec

-----------------------------------------------------------------------------
(* The properties.                                                         *)

LEMMA InvGivesTypeOK == Inv => TypeOK
<1> SUFFICES ASSUME Inv PROVE TypeOK
  OBVIOUS
<1>1. B \in Nat /\ B >= 2
  BY StraightAssumption
<1>2. ASSUME NEW v \in Vc
      PROVE  Len(buffer[v]) <= B /\ Len(headers[v]) <= B + 1 /\ Len(lkDest[v]) <= B + 1
  <2>1. /\ InOrder(buffer[v], headers[v], Held(v), arriving[v]) /\ Len(buffer[v]) <= B
        /\ buffer[v] \in Seq(Flit) /\ headers[v] \in Seq(Packet) /\ lkDest[v] \in Seq(Id)
    BY DEF Inv, Queues, Registers
  <2>2. Len(headers[v]) <= B
    <3>1. CASE buffer[v] = <<>>
      BY <1>1, <2>1, <3>1 DEF InOrder
    <3>2. CASE buffer[v] # <<>>
      <4>1. Len(headers[v]) <= Len(buffer[v])
        BY <2>1, <3>2, FrontRoute
      <4> QED
        BY <1>1, <2>1, <4>1
    <3> QED
      BY <3>1, <3>2
  <2> DEFINE q == Ids(headers[v])
             full == IF wrHdrDelay = v THEN Append(lkDest[v], lkDestIn) ELSE lkDest[v]
  <2>3. q = IF v \in rdHdrDelay /\ full # <<>> THEN Tail(full) ELSE full
    BY DEF Inv, LookAheads, FifoNext
  <2>4. Len(q) = Len(headers[v]) /\ Len(headers[v]) \in Nat
    BY <2>1 DEF Ids
  <2>5. full \in Seq(Id \cup {lkDestIn}) /\ Len(lkDest[v]) <= Len(full)
    <3>1. lkDest[v] \in Seq(Id \cup {lkDestIn})
      BY <2>1
    <3> QED
      BY <3>1
  <2> HIDE DEF q, full
  <2>6. Len(full) <= Len(q) + 1
    BY <2>3, <2>4, <2>5
  <2> QED
    BY <1>1, <2>1, <2>2, <2>4, <2>5, <2>6
<1>3. vcNumDelayed \subseteq Vc
  BY DEF Inv, Output
<1> QED
  BY <1>2, <1>3 DEF TypeOK, Inv, Registers

LEMMA InvGivesSwitchExclusive == Inv => SwitchExclusive
<1> SUFFICES ASSUME Inv PROVE SwitchExclusive
  OBVIOUS
<1>1. Cardinality(vcNumDelayed) <= 1
  <2>1. Cardinality({}) = 0 /\ \A v \in Vc : Cardinality({v}) = 1
    BY FS_EmptySet, FS_Singleton
  <2> QED
    BY <2>1 DEF Inv, Output
<1> QED
  BY <1>1 DEF SwitchExclusive, Inv, Output

LEMMA InvGivesOvcExclusive == Inv => OvcExclusive
<1> SUFFICES ASSUME Inv, NEW o \in Vc
             PROVE  /\ status[o] <=> other[o] \/ Holders(o) # {}
                    /\ Cardinality(Holders(o)) + (IF other[o] THEN 1 ELSE 0) <= 1
  BY DEF OvcExclusive
<1>1. \A v : v \in Holders(o) <=> v \in Vc /\ Holds(v, o)
  BY DEF Holders, Holds
<1>2. status[o] <=> other[o] \/ Holders(o) # {}
  BY <1>1 DEF Inv, Occupied
<1>3. CASE Holders(o) = {}
  <2>1. Cardinality(Holders(o)) = 0
    BY <1>3, FS_EmptySet
  <2> QED
    BY <1>2, <2>1
<1>4. CASE Holders(o) # {}
  <2>1. PICK v : v \in Holders(o)
    BY <1>4
  <2>2. Holders(o) = {v}
    BY <1>1, <2>1 DEF Inv, Occupied
  <2>3. Cardinality(Holders(o)) = 1
    BY <2>2, FS_Singleton
  <2>4. ~other[o]
    BY <1>1, <2>1 DEF Inv, Occupied
  <2> QED
    BY <1>2, <2>3, <2>4
<1> QED
  BY <1>3, <1>4

LEMMA InvGivesCredit == Inv => NoFlitToFullOvc
  BY GrantHasCredit DEF NoFlitToFullOvc

\* The two allocators never take the same thing: the output of the input port,
\* the straight port, an OVC, or a credit.
THEOREM AllocatorsNeverCollide == Spec => []NothingCollides
<1>1. Inv => NothingCollides
  BY InvGivesTypeOK, InvGivesSwitchExclusive, InvGivesOvcExclusive, InvGivesCredit
     DEF NothingCollides
<1> QED
  BY <1>1, SpecInv, PTL

\* Whichever allocator granted its flits, a packet leaves whole and alone on
\* its OVC.
THEOREM PacketsLeaveInOrder == Spec => []LeavesInOrder
<1>1. Inv => LeavesInOrder
  BY DEF Inv, Output
<1> QED
  BY <1>1, SpecInv, PTL

\* The look-ahead route that a header leaves with is its own, read from the
\* FIFO one cycle late or taken past it.
THEOREM HeadersLeaveWithTheirRoute == Spec => []LookAheadOfHeader
<1>1. Inv => LookAheadOfHeader
  BY DEF Inv, Output
<1> QED
  BY <1>1, SpecInv, PTL
=============================================================================
