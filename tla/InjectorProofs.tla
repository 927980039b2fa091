--------------------------- MODULE InjectorProofs ---------------------------
(***************************************************************************)
(* What is proved of PacketInjector, for every number of channels, credits *)
(* and data flits: the counters keep to their widths, no place of a buffer *)
(* is lost, and what is reported is what was sent.                         *)
(*                                                                         *)
(* The flits of a channel are those of the packets that were sent on it    *)
(* and not yet received, one after another: the first of them carries on   *)
(* where the receiver's counter stands, the last one ends where the        *)
(* sender's does.  This is what the invariant says, with the packet and    *)
(* the place in it of every flit.                                          *)
(***************************************************************************)
EXTENDS PacketInjector, SequenceTheorems, TLAPS

-----------------------------------------------------------------------------
(* Sequences of flits and of packets.                                      *)

\* Flit f is flit q of packet P[i].
Fits(f, P, i, q) ==
    /\ i \in 1 .. Len(P)
    /\ q < P[i].size
    /\ f.id = P[i].id
    /\ f.hdr <=> q = 0
    /\ f.tail <=> q = P[i].size - 1
    /\ q <= Remain => f.chunk = q

\* The packet and the place of the flit after it.
NextPacket(P, i, q) == IF q = P[i].size - 1 THEN i + 1 ELSE i
NextPlace(P, i, q)  == IF q = P[i].size - 1 THEN 0 ELSE q + 1

\* Flit k of S is flit j[k - 1] of packet m[k - 1].
Cursors(m, j, S, P) ==
    /\ m \in [0 .. Len(S) -> Nat] /\ j \in [0 .. Len(S) -> Nat]
    /\ m[0] = 1
    /\ \A k, l \in 0 .. Len(S) : k <= l => m[k] <= m[l]
    /\ \A k \in 1 .. Len(S) :
          /\ Fits(S[k], P, m[k - 1], j[k - 1])
          /\ m[k] = NextPacket(P, m[k - 1], j[k - 1])
          /\ j[k] = NextPlace(P, m[k - 1], j[k - 1])

\* S holds the flits of the packets P from flit q0 of the first to before flit
\* q of packet i.
Track(S, P, q0, i, q) ==
    \E m, j : Cursors(m, j, S, P) /\ j[0] = q0 /\ m[Len(S)] = i /\ j[Len(S)] = q

Sent == [size : {n \in Nat \ {0} : Remain < n /\ n <= MaxSize}, id : Id]

\* A further packet.
LEMMA PacketAdded ==
    ASSUME NEW X, NEW S \in Seq(X), NEW P \in Seq(Sent), NEW x \in Sent,
           NEW q0, NEW i, NEW q, Track(S, P, q0, i, q)
    PROVE  Track(S, Append(P, x), q0, i, q)
<1>1. PICK m, j : Cursors(m, j, S, P) /\ j[0] = q0 /\ m[Len(S)] = i /\ j[Len(S)] = q
  BY DEF Track
<1> DEFINE PP == Append(P, x)
<1>2. Len(PP) = Len(P) + 1 /\ \A k \in 1 .. Len(P) : PP[k] = P[k]
  BY AppendProperties
<1> HIDE DEF PP
<1>3. ASSUME NEW k \in 1 .. Len(S)
      PROVE  /\ Fits(S[k], PP, m[k - 1], j[k - 1])
             /\ m[k] = NextPacket(PP, m[k - 1], j[k - 1])
             /\ j[k] = NextPlace(PP, m[k - 1], j[k - 1])
  <2>1. /\ Fits(S[k], P, m[k - 1], j[k - 1])
        /\ m[k] = NextPacket(P, m[k - 1], j[k - 1])
        /\ j[k] = NextPlace(P, m[k - 1], j[k - 1])
    BY <1>1 DEF Cursors
  <2>2. m[k - 1] \in 1 .. Len(P) /\ m[k - 1] \in 1 .. Len(PP)
    BY <1>2, <2>1, LenProperties DEF Fits
  <2>3. PP[m[k - 1]] = P[m[k - 1]]
    BY <1>2, <2>2
  <2> QED
    BY <2>1, <2>2, <2>3 DEF Fits, NextPacket, NextPlace
<1>4. Cursors(m, j, S, PP)
  BY <1>1, <1>3 DEF Cursors
<1> QED
  BY <1>1, <1>4 DEF Track, PP

\* A further flit, where the flits so far end.
LEMMA FlitAdded ==
    ASSUME NEW X, NEW S \in Seq(X), NEW P \in Seq(Sent), NEW f \in X,
           NEW q0, NEW i, NEW q, Track(S, P, q0, i, q), Fits(f, P, i, q)
    PROVE  Track(Append(S, f), P, q0, NextPacket(P, i, q), NextPlace(P, i, q))
<1>1. PICK m, j : Cursors(m, j, S, P) /\ j[0] = q0 /\ m[Len(S)] = i /\ j[Len(S)] = q
  BY DEF Track
<1> DEFINE n  == Len(S)
           SS == Append(S, f)
           ii == NextPacket(P, i, q)
           qq == NextPlace(P, i, q)
           mm == [k \in 0 .. n + 1 |-> IF k = n + 1 THEN ii ELSE m[k]]
           jj == [k \in 0 .. n + 1 |-> IF k = n + 1 THEN qq ELSE j[k]]
<1>2. n \in Nat /\ Len(SS) = n + 1 /\ SS[n + 1] = f /\ \A k \in 1 .. n : SS[k] = S[k]
  BY AppendProperties, LenProperties
<1>3. /\ m \in [0 .. n -> Nat] /\ j \in [0 .. n -> Nat] /\ m[0] = 1
      /\ \A k, l \in 0 .. n : k <= l => m[k] <= m[l]
      /\ \A k \in 1 .. n : /\ Fits(S[k], P, m[k - 1], j[k - 1])
                           /\ m[k] = NextPacket(P, m[k - 1], j[k - 1])
                           /\ j[k] = NextPlace(P, m[k - 1], j[k - 1])
  BY <1>1 DEF Cursors
<1>4. i \in Nat /\ q \in Nat /\ ii \in Nat /\ qq \in Nat /\ i <= ii
  BY <1>1, <1>2, <1>3 DEF NextPacket, NextPlace
<1> HIDE DEF n, SS, ii, qq
<1>5. /\ mm \in [0 .. n + 1 -> Nat] /\ jj \in [0 .. n + 1 -> Nat]
      /\ mm[0] = 1 /\ jj[0] = q0 /\ mm[n + 1] = ii /\ jj[n + 1] = qq
      /\ mm[n] = i /\ jj[n] = q
      /\ \A k \in 0 .. n : mm[k] = m[k] /\ jj[k] = j[k]
  BY <1>1, <1>2, <1>3, <1>4 DEF n
<1> HIDE DEF mm, jj
<1>6. ASSUME NEW k \in 0 .. n + 1, NEW l \in 0 .. n + 1, k <= l
      PROVE  mm[k] <= mm[l]
  <2>1. m[n] = i /\ n \in 0 .. n
    BY <1>1, <1>2 DEF n
  <2>2. CASE l \in 0 .. n
    <3>1. k \in 0 .. n
      BY <1>2, <1>6, <2>2
    <3>2. m[k] <= m[l]
      BY <1>3, <1>6, <2>2, <3>1
    <3> QED
      BY <1>5, <2>2, <3>1, <3>2
  <2>3. CASE l = n + 1 /\ k \in 0 .. n
    <3>1. m[k] <= i /\ m[k] \in Nat
      BY <1>2, <1>3, <2>1, <2>3
    <3> QED
      BY <1>4, <1>5, <2>3, <3>1
  <2>4. CASE l = n + 1 /\ k = n + 1
    BY <1>4, <1>5, <2>4
  <2> QED
    BY <1>2, <1>6, <2>2, <2>3, <2>4
<1>7. ASSUME NEW k \in 1 .. n + 1
      PROVE  /\ Fits(SS[k], P, mm[k - 1], jj[k - 1])
             /\ mm[k] = NextPacket(P, mm[k - 1], jj[k - 1])
             /\ jj[k] = NextPlace(P, mm[k - 1], jj[k - 1])
  <2>1. CASE k = n + 1
    BY <1>2, <1>5, <2>1 DEF ii, qq
  <2>2. CASE k \in 1 .. n
    <3>1. SS[k] = S[k] /\ k - 1 \in 0 .. n /\ k \in 0 .. n
      BY <1>2, <2>2
    <3> QED
      BY <1>3, <1>5, <2>2, <3>1
  <2> QED
    BY <1>2, <2>1, <2>2
<1>8. Cursors(mm, jj, SS, P)
  BY <1>2, <1>5, <1>6, <1>7 DEF Cursors
<1>9. Track(SS, P, q0, ii, qq)
  BY <1>2, <1>5, <1>8 DEF Track
<1> QED
  BY <1>9 DEF SS, ii, qq

\* The first flit goes; with the tail of a packet, the packet.
LEMMA FlitDropped ==
    ASSUME NEW X, NEW S \in Seq(X), S # <<>>, NEW P \in Seq(Sent),
           NEW q0, NEW i, NEW q, Track(S, P, q0, i, q)
    PROVE  /\ Fits(Head(S), P, 1, q0)
           /\ Head(S).tail => i - 1 \in Nat \ {0} /\ Track(Tail(S), Tail(P), 0, i - 1, q)
           /\ ~Head(S).tail => Track(Tail(S), P, q0 + 1, i, q)
<1>1. PICK m, j : Cursors(m, j, S, P) /\ j[0] = q0 /\ m[Len(S)] = i /\ j[Len(S)] = q
  BY DEF Track
<1> DEFINE n  == Len(S) - 1
           SS == Tail(S)
<1>2. /\ n \in Nat /\ Len(S) = n + 1 /\ Len(SS) = n /\ Head(S) = S[1]
      /\ \A k \in 1 .. n : SS[k] = S[k + 1]
  BY HeadTailProperties, LenProperties, EmptySeq
<1> HIDE DEF n, SS
<1>3. /\ m \in [0 .. n + 1 -> Nat] /\ j \in [0 .. n + 1 -> Nat] /\ m[0] = 1
      /\ \A k, l \in 0 .. n + 1 : k <= l => m[k] <= m[l]
      /\ \A k \in 1 .. n + 1 : /\ Fits(S[k], P, m[k - 1], j[k - 1])
                               /\ m[k] = NextPacket(P, m[k - 1], j[k - 1])
                               /\ j[k] = NextPlace(P, m[k - 1], j[k - 1])
  BY <1>1, <1>2 DEF Cursors
<1>4. /\ Fits(Head(S), P, 1, q0)
      /\ m[1] = NextPacket(P, 1, q0) /\ j[1] = NextPlace(P, 1, q0)
  BY <1>1, <1>2, <1>3
<1>5. /\ m[n + 1] = i /\ j[n + 1] = q /\ q0 \in Nat
  BY <1>1, <1>2, <1>3
<1>6. \A k \in 1 .. n + 1 : m[1] <= m[k] /\ m[k] \in Nat
  BY <1>2, <1>3
<1> DEFINE jj == [k \in 0 .. n |-> j[k + 1]]
<1>7. /\ jj \in [0 .. n -> Nat] /\ jj[0] = j[1] /\ jj[n] = q
      /\ \A k \in 0 .. n : jj[k] = j[k + 1]
  BY <1>2, <1>3, <1>5
<1> HIDE DEF jj
<1>8. CASE Head(S).tail
  <2>1. m[1] = 2 /\ j[1] = 0
    BY <1>4, <1>8 DEF Fits, NextPacket, NextPlace
  <2> DEFINE mm == [k \in 0 .. n |-> m[k + 1] - 1]
             PP == Tail(P)
  <2>2. /\ mm \in [0 .. n -> Nat] /\ mm[0] = 1 /\ mm[n] = i - 1
        /\ \A k \in 0 .. n : mm[k] = m[k + 1] - 1
    <3>1. \A k \in 0 .. n : m[k + 1] - 1 \in Nat
      BY <1>2, <1>6, <2>1
    <3> QED
      BY <1>2, <1>5, <2>1, <3>1
  <2> HIDE DEF mm
  <2>3. P # <<>> /\ Len(P) \in Nat
    BY <1>4, LenProperties, EmptySeq DEF Fits
  <2>4. Len(PP) = Len(P) - 1 /\ \A k \in 1 .. Len(P) - 1 : PP[k] = P[k + 1]
    BY <2>3, HeadTailProperties
  <2> HIDE DEF PP
  <2>5. ASSUME NEW k \in 1 .. n
        PROVE  /\ Fits(SS[k], PP, mm[k - 1], jj[k - 1])
               /\ mm[k] = NextPacket(PP, mm[k - 1], jj[k - 1])
               /\ jj[k] = NextPlace(PP, mm[k - 1], jj[k - 1])
    <3>1. /\ Fits(S[k + 1], P, m[k], j[k])
          /\ m[k + 1] = NextPacket(P, m[k], j[k])
          /\ j[k + 1] = NextPlace(P, m[k], j[k])
      <4>1. k + 1 \in 1 .. n + 1 /\ (k + 1) - 1 = k
        BY <1>2
      <4> QED
        BY <1>3, <4>1
    <3>2. m[k] >= 2 /\ m[k] \in 1 .. Len(P) /\ m[k] \in Nat
      BY <1>2, <1>6, <2>1, <3>1 DEF Fits
    <3>3. mm[k - 1] = m[k] - 1 /\ jj[k - 1] = j[k] /\ mm[k] = m[k + 1] - 1 /\ jj[k] = j[k + 1]
      <4>1. k - 1 \in 0 .. n /\ (k - 1) + 1 = k /\ k \in 0 .. n
        BY <1>2
      <4> QED
        BY <1>7, <2>2, <4>1
    <3>4. mm[k - 1] \in 1 .. Len(PP) /\ PP[mm[k - 1]] = P[m[k]]
      <4>1. m[k] - 1 \in 1 .. Len(P) - 1 /\ (m[k] - 1) + 1 = m[k]
        BY <2>3, <3>2
      <4> QED
        BY <2>4, <3>3, <4>1
    <3>5. Fits(SS[k], PP, mm[k - 1], jj[k - 1])
      BY <1>2, <3>1, <3>3, <3>4 DEF Fits
    <3>6. mm[k] = NextPacket(PP, mm[k - 1], jj[k - 1])
      BY <3>1, <3>2, <3>3, <3>4 DEF NextPacket
    <3>7. jj[k] = NextPlace(PP, mm[k - 1], jj[k - 1])
      BY <3>1, <3>3, <3>4 DEF NextPlace
    <3> QED
      BY <3>5, <3>6, <3>7
  <2>6. ASSUME NEW k \in 0 .. n, NEW l \in 0 .. n, k <= l
        PROVE  mm[k] <= mm[l]
    <3>1. m[k + 1] <= m[l + 1] /\ m[k + 1] \in Nat /\ m[l + 1] \in Nat
      <4>1. k + 1 \in 0 .. n + 1 /\ l + 1 \in 0 .. n + 1 /\ k + 1 <= l + 1
        BY <1>2, <2>6
      <4>2. \A a, b \in 0 .. n + 1 : a <= b => m[a] <= m[b]
        BY <1>3
      <4>3. m \in [0 .. n + 1 -> Nat]
        BY <1>3
      <4> QED
        BY <4>1, <4>2, <4>3
    <3> QED
      BY <2>2, <3>1
  <2>7. Cursors(mm, jj, SS, PP)
    BY <1>2, <1>7, <2>2, <2>5, <2>6 DEF Cursors
  <2>8. Track(SS, PP, 0, i - 1, q)
    BY <1>2, <1>7, <2>1, <2>2, <2>7 DEF Track
  <2>9. i - 1 \in Nat \ {0}
    BY <1>2, <1>5, <1>6, <2>1
  <2> QED
    BY <1>4, <1>8, <2>8, <2>9 DEF SS, PP
<1>9. CASE ~Head(S).tail
  <2>1. m[1] = 1 /\ j[1] = q0 + 1
    BY <1>4, <1>9 DEF Fits, NextPacket, NextPlace
  <2> DEFINE mm == [k \in 0 .. n |-> m[k + 1]]
  <2>2. /\ mm \in [0 .. n -> Nat] /\ mm[0] = 1 /\ mm[n] = i
        /\ \A k \in 0 .. n : mm[k] = m[k + 1]
    BY <1>2, <1>3, <1>5, <2>1
  <2> HIDE DEF mm
  <2>3. ASSUME NEW k \in 1 .. n
        PROVE  /\ Fits(SS[k], P, mm[k - 1], jj[k - 1])
               /\ mm[k] = NextPacket(P, mm[k - 1], jj[k - 1])
               /\ jj[k] = NextPlace(P, mm[k - 1], jj[k - 1])
    <3>1. /\ Fits(S[k + 1], P, m[k], j[k])
          /\ m[k + 1] = NextPacket(P, m[k], j[k])
          /\ j[k + 1] = NextPlace(P, m[k], j[k])
      <4>1. k + 1 \in 1 .. n + 1 /\ (k + 1) - 1 = k
        BY <1>2
      <4> QED
        BY <1>3, <4>1
    <3>2. mm[k - 1] = m[k] /\ jj[k - 1] = j[k] /\ mm[k] = m[k + 1] /\ jj[k] = j[k + 1]
      <4>1. k - 1 \in 0 .. n /\ (k - 1) + 1 = k /\ k \in 0 .. n
        BY <1>2
      <4> QED
        BY <1>7, <2>2, <4>1
    <3> QED
      BY <1>2, <3>1, <3>2
  <2>4. ASSUME NEW k \in 0 .. n, NEW l \in 0 .. n, k <= l
        PROVE  mm[k] <= mm[l]
    <3>1. m[k + 1] <= m[l + 1]
      BY <1>2, <1>3, <2>4
    <3> QED
      BY <2>2, <3>1
  <2>5. Cursors(mm, jj, SS, P)
    BY <1>2, <1>7, <2>2, <2>3, <2>4 DEF Cursors
  <2>6. Track(SS, P, q0 + 1, i, q)
    BY <1>2, <1>7, <2>1, <2>2, <2>5 DEF Track
  <2> QED
    BY <1>4, <1>9, <2>6 DEF SS
<1> QED
  BY <1>8, <1>9

LEMMA FrontFlit ==
    ASSUME NEW X, NEW s \in Seq(X), NEW e \in X, NEW f \in X
    PROVE  /\ <<e>> \o s \in Seq(X) /\ <<e>> \o s # <<>>
           /\ Head(<<e>> \o s) = e /\ Tail(<<e>> \o s) = s
           /\ Append(<<e>> \o s, f) = <<e>> \o Append(s, f)
           /\ s # <<>> => /\ <<Head(s)>> \o Tail(s) = s
                          /\ <<Head(s)>> \o Append(Tail(s), f) = Append(s, f)
<1>1. ASSUME NEW t \in Seq(X), t # <<>>
      PROVE  <<Head(t)>> \o Tail(t) = t
  BY <1>1
<1>2. <<e>> \o s \in Seq(X) /\ <<e>> \o s # <<>>
  OBVIOUS
<1>3. Head(<<e>> \o s) = e /\ Tail(<<e>> \o s) = s
  OBVIOUS
<1>4. Append(<<e>> \o s, f) = <<e>> \o Append(s, f)
  OBVIOUS
<1>5. s # <<>> => <<Head(s)>> \o Append(Tail(s), f) = Append(s, f)
  <2> SUFFICES ASSUME s # <<>> PROVE <<Head(s)>> \o Append(Tail(s), f) = Append(s, f)
    OBVIOUS
  <2>1. Append(s, f) \in Seq(X) /\ Append(s, f) # <<>>
    BY AppendProperties
  <2>2. Head(Append(s, f)) = Head(s) /\ Tail(Append(s, f)) = Append(Tail(s), f)
    BY HeadTailAppend
  <2> QED
    BY <1>1, <2>1, <2>2
<1> QED
  BY <1>1, <1>2, <1>3, <1>4, <1>5

-----------------------------------------------------------------------------
(* The invariant.                                                          *)

Flits(v) == [vc : {v}, hdr : BOOLEAN, tail : BOOLEAN, id : Id, chunk : 0 .. ChunkSpan]

\* The flits between the sender and the receiver's registers.
Stream(v) == IF eject.vc = v THEN <<eject>> \o buf[v] ELSE buf[v]

\* The packets whose tail has not been received.
Open(v) == IF tailReg /\ vcReg = v THEN Tail(pending[v]) ELSE pending[v]

\* The sender is within a packet on v, and the flit of it that comes next.
Busy(v)     == flitType # "HEADER" /\ pck.vc = v
EndPlace(v) == IF Busy(v) THEN pck.size - counter ELSE 0

\* The receiver has the first q0 flits of the packet on v.
Received(v, q0) ==
    q0 > 0 => /\ Open(v) # <<>>
              /\ rsvCounter[v] = q0
              /\ \A k \in 0 .. Remain : k < q0 => data[v][k] = <<Open(v)[1].id, k>>

\* The last of the packets P is the one the sender is within.
LastIs(P, p) == P # <<>> /\ P[Len(P)] = [size |-> p.size, id |-> p.id]

ChannelInv(v) ==
    /\ Busy(v) => LastIs(Open(v), pck)
    /\ \E q0 \in Nat :
          /\ Track(Stream(v), Open(v), q0,
                   IF Busy(v) THEN Len(Open(v)) ELSE Len(Open(v)) + 1, EndPlace(v))
          /\ Received(v, q0)

\* counter holds the flits of the packet that are left, counter2 the chunks
\* that were sent after the header.
SenderInv ==
    flitType # "HEADER" =>
        /\ counter \in 1 .. pck.size - 1
        /\ flitType = "BODY" <=> counter >= 2
        /\ pck.size - counter <= ChunkSpan => counter2 = pck.size - counter - 1

NetworkType ==
    /\ DOMAIN buf = Vc /\ DOMAIN pending = Vc
    /\ \A v \in Vc : buf[v] \in Seq(Flits(v)) /\ pending[v] \in Seq(Sent)
    /\ eject = NoFlit \/ (eject.vc \in Vc /\ eject \in Flits(eject.vc))
    /\ tailReg => vcReg \in Vc

InjectorInv ==
    /\ TypeOK /\ BuffersAccounted /\ DeliveredAsSent
    /\ NetworkType /\ SenderInv
    /\ \A v \in Vc : ChannelInv(v)

-----------------------------------------------------------------------------
LEMMA PacketsExist ==
    ASSUME InjectorAssumption
    PROVE  Idle \in Packet
<1>1. PICK v \in Vc, i \in Id : TRUE
  BY DEF InjectorAssumption
<1>2. Remain + 1 \in Remain + 1 .. MaxSize
  BY DEF InjectorAssumption
<1>3. [vc |-> v, size |-> Remain + 1, id |-> i] \in Packet
  BY <1>2 DEF Packet
<1> QED
  BY <1>3 DEF Idle

LEMMA InjectorInit ==
    ASSUME InjectorAssumption, Init
    PROVE  InjectorInv
<1>1. TypeOK
  <2>1. 0 \in 0 .. SizeSpan - 1 /\ 0 \in 0 .. ChunkSpan - 1 /\ LB \in 0 .. LB
    BY DEF InjectorAssumption
  <2>2. pck \in Packet
    BY PacketsExist DEF Init
  <2> QED
    BY <2>1, <2>2 DEF Init, TypeOK
<1>2. NoFlit.vc = None /\ \A v \in Vc : None # v
  BY DEF NoFlit, InjectorAssumption
<1>3. BuffersAccounted
  <2> SUFFICES ASSUME NEW v \in Vc
               PROVE  /\ credit[v] + Len(buf[v]) + (IF creditIn = v THEN 1 ELSE 0) = LB
                      /\ outCredit[v] + (IF eject.vc = v THEN 1 ELSE 0)
                                      + (IF creditO = v THEN 1 ELSE 0) = LB
    BY DEF BuffersAccounted
  <2>1. credit[v] = LB /\ buf[v] = <<>> /\ outCredit[v] = LB /\ LB \in Nat
    BY DEF Init, InjectorAssumption
  <2>2. creditIn # v /\ creditO # v /\ eject.vc # v
    BY <1>2 DEF Init
  <2>3. Len(<<>>) = 0
    OBVIOUS
  <2> QED
    BY <2>1, <2>2, <2>3
<1>4. DeliveredAsSent /\ NetworkType /\ SenderInv
  BY DEF Init, DeliveredAsSent, NetworkType, SenderInv
<1>5. ASSUME NEW v \in Vc PROVE ChannelInv(v)
  <2>1. Stream(v) = <<>> /\ Open(v) = <<>> /\ ~Busy(v) /\ EndPlace(v) = 0
    BY <1>2 DEF Init, Stream, Open, Busy, EndPlace
  <2> DEFINE m == [k \in {0} |-> 1]
             j == [k \in {0} |-> 0]
  <2>2. Len(<<>>) = 0 /\ 0 .. 0 = {0} /\ 1 .. 0 = {}
    OBVIOUS
  <2>3. m \in [{0} -> Nat] /\ j \in [{0} -> Nat] /\ m[0] = 1 /\ j[0] = 0
    OBVIOUS
  <2> HIDE DEF m, j
  <2>4. Cursors(m, j, <<>>, <<>>)
    BY <2>2, <2>3 DEF Cursors
  <2>5. Track(<<>>, <<>>, 0, 1, 0)
    BY <2>2, <2>3, <2>4 DEF Track
  <2> QED
    BY <2>1, <2>2, <2>5 DEF ChannelInv, Received
<1> QED
  BY <1>1, <1>3, <1>4, <1>5 DEF InjectorInv

-----------------------------------------------------------------------------
(* The sender.                                                             *)

LEMMA InRange ==
    ASSUME NEW m \in Nat \ {0}, NEW n \in 0 .. m - 1
    PROVE  n % m = n
  OBVIOUS

\* What a cycle does to the sender: it waits, starts packet p, or goes on with
\* it.
Waits(f, wr) == f = NoFlit /\ ~wr /\ UNCHANGED <<flitType, counter, counter2, pck>>

Starts(f, p, wr) ==
    /\ wr /\ flitType = "HEADER" /\ credit[p.vc] # 0
    /\ f \in Flits(p.vc) /\ f.hdr /\ f.id = p.id /\ f.chunk = 0
    /\ f.tail <=> p.size = 1
    /\ flitType' = IF p.size = 1 THEN "HEADER"
                   ELSE IF p.size = 2 THEN "TAIL_ST" ELSE "BODY"
    /\ pck' = IF p.size = 1 THEN Idle ELSE p
    /\ counter' = p.size - 1 /\ counter2' = 0

GoesOn(f, p, wr) ==
    /\ ~wr /\ flitType # "HEADER" /\ p = pck /\ credit[p.vc] # 0
    /\ f \in Flits(p.vc) /\ ~f.hdr /\ f.id = p.id /\ f.chunk = counter2 + 1
    /\ f.tail <=> flitType = "TAIL_ST"
    /\ flitType' = IF flitType = "TAIL_ST" THEN "HEADER"
                   ELSE IF counter = 2 THEN "TAIL_ST" ELSE "BODY"
    /\ pck' = IF flitType = "TAIL_ST" THEN Idle ELSE p
    /\ counter' = IF flitType = "TAIL_ST" THEN counter ELSE counter - 1
    /\ counter2' = IF flitType = "TAIL_ST" THEN counter2 ELSE (counter2 + 1) % ChunkSpan

LEMMA FlitMade ==
    ASSUME InjectorAssumption, TypeOK, NEW p \in Packet, NEW head \in BOOLEAN,
           NEW tail \in BOOLEAN
    PROVE  LET f == Flit(p, head, tail)
           IN  /\ f \in Flits(p.vc) /\ f # NoFlit
               /\ f.hdr <=> head
               /\ f.tail <=> tail
               /\ f.id = p.id /\ f.chunk = IF head THEN 0 ELSE counter2 + 1
<1> DEFINE c == IF head THEN 0 ELSE counter2 + 1
<1>1. c \in 0 .. ChunkSpan
  BY DEF InjectorAssumption, TypeOK
<1> HIDE DEF c
<1> DEFINE f == Flit(p, head, tail)
<1>2. f = [vc |-> p.vc, hdr |-> head, tail |-> tail, id |-> p.id, chunk |-> c]
  BY DEF Flit, c
<1>3. p.vc \in Vc /\ p.id \in Id
  BY DEF Packet
<1>4. f.vc # None
  BY <1>2, <1>3 DEF InjectorAssumption
<1>5. f # NoFlit
  BY <1>4 DEF NoFlit
<1> HIDE DEF f
<1>6. f \in Flits(p.vc)
  BY <1>1, <1>2, <1>3 DEF Flits
<1> QED
  BY <1>2, <1>5, <1>6 DEF c, f

LEMMA FlitSent ==
    ASSUME InjectorAssumption, InjectorInv, NEW p \in Packet, NEW wr \in BOOLEAN,
           NEW r \in ReadGrants, Cycle(p, wr, r), NEW f, f = FlitOut(p, wr)
    PROVE  Waits(f, wr) \/ Starts(f, p, wr) \/ GoesOn(f, p, wr)
<1>1. TypeOK /\ SenderInv
  BY DEF InjectorInv
<1>2. /\ Offered(p, wr)
      /\ pck' = IF f # NoFlit /\ FlitTypeNext(p) = "HEADER" THEN Idle ELSE p
      /\ SendFlit(p, f)
  BY DEF Cycle
<1>3. flitType \in {"HEADER", "BODY", "TAIL_ST"}
  BY <1>1 DEF TypeOK
<1>4. CASE wr
  <2>1. flitType = "HEADER" /\ ~Full(p.vc) /\ credit[p.vc] # 0
    BY <1>2, <1>4 DEF Offered, Full
  <2> DEFINE one == p.size = 1
             yes == TRUE
  <2>2. one \in BOOLEAN /\ yes \in BOOLEAN
    OBVIOUS
  <2>3. f = Flit(p, yes, one)
    BY <1>4, <2>1 DEF FlitOut
  <2> HIDE DEF one, yes
  <2>4. /\ f \in Flits(p.vc) /\ f # NoFlit /\ (f.hdr <=> yes) /\ (f.tail <=> one)
        /\ f.id = p.id /\ f.chunk = IF yes THEN 0 ELSE counter2 + 1
    BY <1>1, <2>2, <2>3, FlitMade
  <2>5. FlitTypeNext(p) = IF p.size = 1 THEN "HEADER"
                          ELSE IF p.size = 2 THEN "TAIL_ST" ELSE "BODY"
    BY <2>1 DEF FlitTypeNext
  <2>6. flitType' = FlitTypeNext(p) /\ counter' = p.size - 1 /\ counter2' = 0
    BY <1>2, <2>1, <2>4 DEF SendFlit
  <2>7. pck' = IF p.size = 1 THEN Idle ELSE p
    BY <1>2, <2>4, <2>5
  <2> QED
    BY <1>4, <2>1, <2>4, <2>5, <2>6, <2>7 DEF Starts, one, yes
<1>5. CASE ~wr /\ (flitType = "HEADER" \/ Full(p.vc))
  <2>1. p = pck
    BY <1>2, <1>5 DEF Offered
  <2>2. f = NoFlit
    <3>1. CASE Full(p.vc)
      BY <3>1, Zenon DEF FlitOut
    <3>2. CASE ~Full(p.vc) /\ flitType = "HEADER"
      BY <1>5, <3>2 DEF FlitOut
    <3> QED
      BY <1>5, <3>1, <3>2
  <2> QED
    BY <1>2, <1>5, <2>1, <2>2 DEF SendFlit, Waits
<1>6. CASE ~wr /\ flitType # "HEADER" /\ ~Full(p.vc)
  <2>1. p = pck /\ credit[p.vc] # 0
    BY <1>2, <1>6 DEF Offered, Full
  <2> DEFINE end == flitType = "TAIL_ST"
             no  == FALSE
  <2>2. end \in BOOLEAN /\ no \in BOOLEAN
    OBVIOUS
  <2>3. f = Flit(p, no, end)
    BY <1>3, <1>6 DEF FlitOut
  <2> HIDE DEF end, no
  <2>4. /\ f \in Flits(p.vc) /\ f # NoFlit /\ (f.hdr <=> no) /\ (f.tail <=> end)
        /\ f.id = p.id /\ f.chunk = IF no THEN 0 ELSE counter2 + 1
    BY <1>1, <2>2, <2>3, FlitMade
  <2>5. FlitTypeNext(p) = IF flitType = "TAIL_ST" THEN "HEADER"
                          ELSE IF counter = 2 THEN "TAIL_ST" ELSE "BODY"
    BY <1>3, <1>6 DEF FlitTypeNext
  <2>6. /\ flitType' = FlitTypeNext(p)
        /\ counter' = IF flitType = "TAIL_ST" THEN counter ELSE (counter - 1) % SizeSpan
        /\ counter2' = IF flitType = "TAIL_ST" THEN counter2 ELSE (counter2 + 1) % ChunkSpan
    BY <1>2, <1>3, <1>6, <2>4 DEF SendFlit
  <2>7. (counter - 1) % SizeSpan = counter - 1
    <3>1. SizeSpan \in Nat \ {0} /\ counter - 1 \in 0 .. SizeSpan - 1
      BY <1>1, <1>6 DEF TypeOK, SenderInv, InjectorAssumption
    <3> QED
      BY <3>1, InRange
  <2>8. pck' = IF flitType = "TAIL_ST" THEN Idle ELSE p
    BY <1>2, <2>4, <2>5
  <2> QED
    BY <1>6, <2>1, <2>4, <2>5, <2>6, <2>7, <2>8 DEF GoesOn, end, no
<1> QED
  BY <1>4, <1>5, <1>6

LEMMA SenderStep ==
    ASSUME InjectorAssumption, TypeOK, SenderInv, NEW p \in Packet, NEW wr \in BOOLEAN,
           NEW f, Waits(f, wr) \/ Starts(f, p, wr) \/ GoesOn(f, p, wr)
    PROVE  /\ SenderInv' /\ pck' \in Packet
           /\ flitType' \in {"HEADER", "BODY", "TAIL_ST"}
           /\ counter' \in 0 .. SizeSpan - 1 /\ counter2' \in 0 .. ChunkSpan - 1
<1>1. /\ flitType \in {"HEADER", "BODY", "TAIL_ST"}
      /\ counter \in 0 .. SizeSpan - 1 /\ counter2 \in 0 .. ChunkSpan - 1
      /\ pck \in Packet
  BY DEF TypeOK
<1>2. /\ p.size \in 1 .. SizeSpan - 1 /\ p.size \in Nat /\ pck.size \in Nat
      /\ SizeSpan \in Nat /\ ChunkSpan \in Nat \ {0}
  BY <1>1 DEF Packet, InjectorAssumption
<1>3. CASE Waits(f, wr)
  BY <1>1, <1>3 DEF Waits, SenderInv
<1>4. CASE Starts(f, p, wr)
  <2>1. SenderInv'
    BY <1>2, <1>4 DEF Starts, SenderInv
  <2>2. pck' \in Packet
    BY <1>4, PacketsExist DEF Starts
  <2> QED
    BY <1>2, <1>4, <2>1, <2>2 DEF Starts
<1>5. CASE GoesOn(f, p, wr)
  <2>1. /\ counter \in 1 .. pck.size - 1
        /\ flitType = "BODY" <=> counter >= 2
        /\ pck.size - counter <= ChunkSpan => counter2 = pck.size - counter - 1
    BY <1>5 DEF SenderInv, GoesOn
  <2>2. pck' \in Packet
    BY <1>5, PacketsExist DEF GoesOn
  <2>3. CASE flitType = "TAIL_ST"
    <3>1. flitType' = "HEADER" /\ counter' = counter /\ counter2' = counter2
      BY <1>5, <2>3 DEF GoesOn
    <3> QED
      BY <1>1, <2>2, <3>1 DEF SenderInv
  <2>4. CASE flitType # "TAIL_ST"
    <3>1. /\ flitType' = (IF counter = 2 THEN "TAIL_ST" ELSE "BODY") /\ pck' = pck
          /\ counter' = counter - 1 /\ counter2' = (counter2 + 1) % ChunkSpan
      BY <1>5, <2>4 DEF GoesOn
    <3>2. counter >= 2
      BY <1>1, <1>5, <2>1, <2>4 DEF GoesOn
    <3>3. counter2' \in 0 .. ChunkSpan - 1
      BY <1>1, <1>2, <3>1
    <3>4. pck.size - counter' <= ChunkSpan => counter2' = pck.size - counter' - 1
      <4> SUFFICES ASSUME pck.size - counter' <= ChunkSpan
                   PROVE  counter2' = pck.size - counter' - 1
        OBVIOUS
      <4>1. counter2 + 1 = pck.size - counter /\ counter2 + 1 \in 0 .. ChunkSpan - 1
        BY <1>1, <1>2, <2>1, <3>1
      <4>2. (counter2 + 1) % ChunkSpan = counter2 + 1
        BY <1>2, <4>1, InRange
      <4> QED
        BY <1>2, <2>1, <3>1, <4>1, <4>2
    <3>5. counter' \in 1 .. pck.size - 1 /\ (flitType' = "BODY" <=> counter' >= 2)
      BY <1>2, <2>1, <3>1, <3>2
    <3>6. SenderInv'
      BY <3>1, <3>4, <3>5 DEF SenderInv
    <3>7. flitType' \in {"HEADER", "BODY", "TAIL_ST"} /\ counter' \in 0 .. SizeSpan - 1
      BY <1>1, <1>2, <3>1, <3>2
    <3> QED
      BY <2>2, <3>3, <3>6, <3>7
  <2> QED
    BY <2>3, <2>4
<1> QED
  BY <1>3, <1>4, <1>5

-----------------------------------------------------------------------------
(* The network and the receiver.                                           *)

\* The flit of the cycle, with what is needed of it.
Moved(f) == f = NoFlit \/ (f.vc \in Vc /\ f \in Flits(f.vc) /\ credit[f.vc] # 0)

LEMMA SentFlitMoves ==
    ASSUME InjectorAssumption, NEW p \in Packet, NEW wr, NEW f,
           Waits(f, wr) \/ Starts(f, p, wr) \/ GoesOn(f, p, wr)
    PROVE  Moved(f)
<1>1. p.vc \in Vc
  BY DEF Packet
<1>2. ASSUME f \in Flits(p.vc) PROVE f.vc = p.vc
  BY <1>2 DEF Flits
<1> QED
  BY <1>1, <1>2 DEF Moved, Waits, Starts, GoesOn

\* The channels keep their types, and no place is lost.
LEMMA NetworkStep ==
    ASSUME InjectorAssumption, TypeOK, BuffersAccounted, NetworkType,
           NEW r \in ReadGrants, NEW f, Moved(f),
           OvcStatus(f), Network(f, r), Receive
    PROVE  /\ credit' \in [Vc -> 0 .. LB] /\ outCredit' \in [Vc -> 0 .. LB]
           /\ DOMAIN buf' = Vc /\ \A v \in Vc : buf'[v] \in Seq(Flits(v))
           /\ eject' = NoFlit \/ (eject'.vc \in Vc /\ eject' \in Flits(eject'.vc))
           /\ eject'.vc = r
           /\ {creditIn', creditO', vcReg'} \subseteq Vc \cup {None}
           /\ tailReg' \in BOOLEAN
           /\ BuffersAccounted'
<1>1. NoFlit.vc = None /\ None \notin Vc /\ LB \in Nat \ {0}
  BY DEF NoFlit, InjectorAssumption
<1>2. /\ r \in Vc \cup {None}
      /\ r # None => buf[r] # <<>> /\ outCredit[r] > 0 /\ buf[r] \in Seq(Flits(r))
  BY <1>1 DEF ReadGrants, NetworkType
<1>3. ASSUME NEW v \in Vc, NEW s \in Seq(Flits(v))
      PROVE  /\ Len(s) \in Nat
             /\ s # <<>> => Tail(s) \in Seq(Flits(v)) /\ Len(Tail(s)) = Len(s) - 1
                            /\ Head(s) \in Flits(v)
             /\ f.vc = v => f \in Flits(v) /\ Append(s, f) \in Seq(Flits(v))
                            /\ Len(Append(s, f)) = Len(s) + 1
  <2>1. Len(s) \in Nat
    BY LenProperties
  <2>2. s # <<>> => Tail(s) \in Seq(Flits(v)) /\ Len(Tail(s)) = Len(s) - 1
                    /\ Head(s) \in Flits(v)
    BY HeadTailProperties
  <2>3. f.vc = v => f \in Flits(v)
    BY <1>1 DEF Moved
  <2>4. f.vc = v => Append(s, f) \in Seq(Flits(v)) /\ Len(Append(s, f)) = Len(s) + 1
    BY <2>3, AppendProperties
  <2> QED
    BY <2>1, <2>2, <2>3, <2>4
<1> DEFINE out(v) == IF r = v THEN 1 ELSE 0
           kept(v) == IF r = v THEN Tail(buf[v]) ELSE buf[v]
<1>4. ASSUME NEW v \in Vc
      PROVE  /\ buf'[v] \in Seq(Flits(v))
             /\ Len(buf'[v]) = Len(buf[v]) - (IF r = v THEN 1 ELSE 0)
                                           + (IF f.vc = v THEN 1 ELSE 0)
  <2>1. buf'[v] = IF f.vc = v THEN Append(kept(v), f) ELSE kept(v)
    BY DEF Network
  <2>2. kept(v) \in Seq(Flits(v))
    BY <1>1, <1>2, <1>3 DEF NetworkType
  <2>3. Len(kept(v)) = Len(buf[v]) - (IF r = v THEN 1 ELSE 0) /\ Len(kept(v)) \in Nat
    BY <1>1, <1>2, <1>3 DEF NetworkType
  <2> HIDE DEF kept
  <2>4. CASE f.vc = v
    <3>1. buf'[v] = Append(kept(v), f)
      BY <2>1, <2>4
    <3>2. Append(kept(v), f) \in Seq(Flits(v)) /\ Len(Append(kept(v), f)) = Len(kept(v)) + 1
      BY <1>3, <2>2, <2>4
    <3> QED
      BY <2>3, <2>4, <3>1, <3>2
  <2>5. CASE f.vc # v
    BY <2>1, <2>2, <2>3, <2>5
  <2> QED
    BY <2>4, <2>5
<1>5. ASSUME NEW v \in Vc
      PROVE  /\ credit'[v] \in 0 .. LB
             /\ credit'[v] + Len(buf'[v]) + (IF creditIn' = v THEN 1 ELSE 0) = LB
  <2>1. credit[v] + Len(buf[v]) + (IF creditIn = v THEN 1 ELSE 0) = LB
    BY DEF BuffersAccounted
  <2>2. credit'[v] = CASE f.vc = v /\ creditIn # v -> credit[v] - 1
                       [] f.vc # v /\ creditIn = v -> credit[v] + 1
                       [] OTHER                    -> credit[v]
    BY DEF OvcStatus
  <2>3. credit[v] \in 0 .. LB /\ Len(buf[v]) \in Nat /\ Len(buf'[v]) \in Nat
    BY <1>3, <1>4 DEF TypeOK, NetworkType
  <2>4. f.vc = v => credit[v] # 0
    BY <1>1 DEF Moved
  <2>5. creditIn' = r
    BY DEF Network
  <2>6. credit'[v] = credit[v] - (IF f.vc = v THEN 1 ELSE 0)
                               + (IF creditIn = v THEN 1 ELSE 0)
    <3>1. CASE f.vc = v /\ creditIn # v
      BY <2>2, <2>3, <3>1
    <3>2. CASE f.vc # v /\ creditIn = v
      BY <2>2, <2>3, <3>2
    <3>3. CASE f.vc = v /\ creditIn = v
      BY <2>2, <2>3, <3>3
    <3>4. CASE f.vc # v /\ creditIn # v
      BY <2>2, <2>3, <3>4
    <3> QED
      BY <3>1, <3>2, <3>3, <3>4
  <2> DEFINE a == IF f.vc = v THEN 1 ELSE 0
             b == IF creditIn = v THEN 1 ELSE 0
             d == IF r = v THEN 1 ELSE 0
  <2>7. /\ a \in {0, 1} /\ b \in {0, 1} /\ d \in {0, 1}
        /\ a = 1 => credit[v] # 0
    BY <2>4
  <2>8. (IF creditIn' = v THEN 1 ELSE 0) = d
    BY <2>5
  <2>9. Len(buf'[v]) = Len(buf[v]) - d + a /\ credit'[v] = credit[v] - a + b
        /\ credit[v] + Len(buf[v]) + b = LB
    BY <1>4, <2>1, <2>6
  <2> DEFINE c  == credit[v]
             n  == Len(buf[v])
             cc == credit'[v]
             nn == Len(buf'[v])
  <2>10. nn = n - d + a /\ cc = c - a + b /\ c + n + b = LB
    BY <2>9
  <2>11. c \in Nat /\ n \in Nat /\ nn \in Nat /\ LB \in Nat /\ (a = 1 => c # 0)
    BY <1>1, <2>3, <2>7
  <2> HIDE DEF a, b, d, c, n, cc, nn
  <2>12. cc \in 0 .. LB /\ cc + nn + d = LB
    BY <2>7, <2>10, <2>11
  <2> QED
    BY <2>8, <2>12 DEF cc, nn
<1>6. /\ eject' = NoFlit \/ (eject'.vc \in Vc /\ eject' \in Flits(eject'.vc))
      /\ eject'.vc = r
  <2>1. CASE r = None
    BY <1>1, <2>1 DEF Network
  <2>2. CASE r # None
    <3>1. r \in Vc /\ Head(buf[r]) \in Flits(r) /\ eject' = Head(buf[r])
      BY <1>2, <1>3, <2>2 DEF Network
    <3>2. eject'.vc = r
      BY <3>1 DEF Flits
    <3> QED
      BY <3>1, <3>2
  <2> QED
    BY <2>1, <2>2
<1>7. ASSUME NEW v \in Vc
      PROVE  /\ outCredit'[v] \in 0 .. LB
             /\ outCredit'[v] + (IF eject'.vc = v THEN 1 ELSE 0)
                              + (IF creditO' = v THEN 1 ELSE 0) = LB
  <2>1. outCredit[v] + (IF eject.vc = v THEN 1 ELSE 0)
                     + (IF creditO = v THEN 1 ELSE 0) = LB
    BY DEF BuffersAccounted
  <2>2. outCredit'[v] = outCredit[v] - (IF r = v THEN 1 ELSE 0)
                                     + (IF creditO = v THEN 1 ELSE 0)
    BY DEF Network
  <2>3. creditO' = eject.vc
    BY DEF Receive, CreditOut
  <2>4. outCredit[v] \in 0 .. LB /\ (r = v => outCredit[v] > 0)
    BY <1>1, <1>2 DEF TypeOK
  <2> QED
    BY <1>1, <1>6, <2>1, <2>2, <2>3, <2>4
<1>8. eject.vc \in Vc \cup {None} /\ creditO' = eject.vc /\ vcReg' = eject.vc
      /\ creditIn' = r /\ tailReg' \in BOOLEAN
  <2>1. eject.vc \in Vc \cup {None}
    BY <1>1 DEF NetworkType
  <2>2. eject # NoFlit => eject.tail \in BOOLEAN
    BY DEF NetworkType, Flits
  <2> QED
    BY <2>1, <2>2 DEF Receive, CreditOut, Network
<1>9. /\ DOMAIN credit' = Vc /\ credit' = [v \in Vc |-> credit'[v]]
      /\ outCredit' = [v \in Vc |-> outCredit'[v]] /\ DOMAIN buf' = Vc
  BY DEF OvcStatus, Network
<1>10. BuffersAccounted'
  BY <1>5, <1>7 DEF BuffersAccounted
<1>11. credit' \in [Vc -> 0 .. LB] /\ outCredit' \in [Vc -> 0 .. LB]
  BY <1>5, <1>7, <1>9
<1> QED
  BY <1>2, <1>4, <1>6, <1>8, <1>9, <1>10, <1>11

-----------------------------------------------------------------------------
(* The flits and the packets of a channel after a cycle, before the        *)
(* receiver takes its flit.                                                *)

Streamed(v, f) == IF f.vc = v THEN Append(Stream(v), f) ELSE Stream(v)

Opened(v, p, wr) ==
    IF wr /\ p.vc = v THEN Append(Open(v), [size |-> p.size, id |-> p.id]) ELSE Open(v)

\* The next flit the sender puts on v follows the flits S of the packets P.
EndOf(v, P) == IF Busy(v) THEN Len(P) ELSE Len(P) + 1

LEMMA ChannelType ==
    ASSUME InjectorAssumption, InjectorInv, NEW v \in Vc
    PROVE  Open(v) \in Seq(Sent) /\ Stream(v) \in Seq(Flits(v))
<1>1. pending[v] \in Seq(Sent) /\ buf[v] \in Seq(Flits(v))
  BY DEF InjectorInv, NetworkType
<1>2. Open(v) \in Seq(Sent)
  <2>1. tailReg /\ vcReg = v => pending[v] # <<>>
    BY DEF InjectorInv, DeliveredAsSent
  <2> QED
    BY <1>1, <2>1, HeadTailProperties DEF Open
<1>3. Stream(v) \in Seq(Flits(v))
  <2>1. CASE eject.vc = v
    <3>1. eject \in Flits(v)
      BY <2>1 DEF InjectorInv, NetworkType, NoFlit, InjectorAssumption
    <3> QED
      BY <1>1, <2>1, <3>1, FrontFlit DEF Stream
  <2>2. CASE eject.vc # v
    BY <1>1, <2>2 DEF Stream
  <2> QED
    BY <2>1, <2>2
<1> QED
  BY <1>2, <1>3

LEMMA PacketSize ==
    ASSUME InjectorAssumption, NEW p \in Packet
    PROVE  /\ [size |-> p.size, id |-> p.id] \in Sent
           /\ p.vc \in Vc /\ p.size \in Nat \ {0}
BY DEF InjectorAssumption, Packet, Sent

\* Another channel's flit or packet changes nothing.
LEMMA OtherChannel ==
    ASSUME InjectorAssumption, NEW p \in Packet, NEW wr \in BOOLEAN, NEW v \in Vc,
           NEW f, \/ Waits(f, wr)
                  \/ (Starts(f, p, wr) \/ GoesOn(f, p, wr)) /\ p.vc # v
    PROVE  /\ f.vc # v /\ ~(wr /\ p.vc = v)
           /\ Busy(v)' <=> Busy(v)
           /\ EndPlace(v)' = EndPlace(v)
           /\ Busy(v) => pck' = pck
<1>1. CASE Waits(f, wr)
  BY <1>1 DEF Waits, NoFlit, InjectorAssumption, Busy, EndPlace
<1>2. CASE Starts(f, p, wr) /\ p.vc # v
  <2>1. f.vc # v
    BY <1>2 DEF Starts, Flits
  <2>2. ~Busy(v) /\ ~Busy(v)'
    BY <1>2 DEF Starts, Busy
  <2> QED
    BY <1>2, <2>1, <2>2 DEF EndPlace
<1>3. CASE GoesOn(f, p, wr) /\ p.vc # v
  <2>1. f.vc # v
    BY <1>3 DEF GoesOn, Flits
  <2>2. ~Busy(v) /\ ~Busy(v)'
    BY <1>3 DEF GoesOn, Busy
  <2> QED
    BY <1>3, <2>1, <2>2 DEF GoesOn, EndPlace
<1> QED
  BY <1>1, <1>2, <1>3

\* The header of a packet: the packet is the last of its channel.
LEMMA ChannelStarts ==
    ASSUME InjectorAssumption, NEW p \in Packet, NEW wr \in BOOLEAN,
           NEW f, Starts(f, p, wr), NEW v \in Vc, p.vc = v,
           NEW P \in Seq(Sent), NEW S \in Seq(Flits(v)), NEW q0,
           Track(S, P, q0, Len(P) + 1, 0)
    PROVE  LET PP == Append(P, [size |-> p.size, id |-> p.id])
           IN  /\ Track(Append(S, f), PP, q0, EndOf(v, PP)', EndPlace(v)')
               /\ Busy(v)' => LastIs(PP, pck')
<1> DEFINE x  == [size |-> p.size, id |-> p.id]
           PP == Append(P, x)
           n  == Len(P) + 1
<1>1. x \in Sent /\ x.size = p.size /\ x.id = p.id /\ p.size \in Nat \ {0}
  BY PacketSize
<1>2. PP \in Seq(Sent) /\ Len(PP) = n /\ PP[n] = x /\ n \in Nat \ {0} /\ PP # <<>>
  BY <1>1, AppendProperties, LenProperties, EmptySeq
<1>3. f \in Flits(v)
  BY DEF Starts
<1> HIDE DEF x, PP
<1>4. Track(S, PP, q0, n, 0)
  BY <1>1, PacketAdded DEF PP
<1> HIDE DEF n
<1>5. Fits(f, PP, n, 0)
  BY <1>1, <1>2 DEF Fits, Starts
<1>6. Track(Append(S, f), PP, q0, NextPacket(PP, n, 0), NextPlace(PP, n, 0))
  BY <1>2, <1>3, <1>4, <1>5, FlitAdded
<1>7. CASE p.size = 1
  <2>1. ~Busy(v)'
    BY <1>7 DEF Starts, Busy
  <2>2. EndPlace(v)' = 0 /\ EndOf(v, PP)' = n + 1
    BY <1>2, <2>1 DEF EndPlace, EndOf
  <2>3. NextPacket(PP, n, 0) = n + 1 /\ NextPlace(PP, n, 0) = 0
    BY <1>1, <1>2, <1>7 DEF NextPacket, NextPlace
  <2> QED
    BY <1>6, <2>1, <2>2, <2>3 DEF PP, x
<1>8. CASE p.size # 1
  <2>1. Busy(v)' /\ pck' = p /\ counter' = p.size - 1
    BY <1>8 DEF Starts, Busy
  <2>2. EndPlace(v)' = 1 /\ EndOf(v, PP)' = n
    BY <1>1, <1>2, <2>1 DEF EndPlace, EndOf
  <2>3. NextPacket(PP, n, 0) = n /\ NextPlace(PP, n, 0) = 1
    BY <1>1, <1>2, <1>8 DEF NextPacket, NextPlace
  <2>4. LastIs(PP, pck')
    BY <1>2, <2>1 DEF LastIs, x
  <2> QED
    BY <1>6, <2>2, <2>3, <2>4 DEF PP, x
<1> QED
  BY <1>7, <1>8

\* A further flit of the last packet of its channel.
LEMMA ChannelGoesOn ==
    ASSUME InjectorAssumption, TypeOK, SenderInv, NEW p \in Packet, NEW wr \in BOOLEAN,
           NEW f, GoesOn(f, p, wr), NEW v \in Vc, p.vc = v,
           NEW P \in Seq(Sent), NEW S \in Seq(Flits(v)), NEW q0, LastIs(P, pck),
           Track(S, P, q0, Len(P), EndPlace(v))
    PROVE  /\ Track(Append(S, f), P, q0, EndOf(v, P)', EndPlace(v)')
           /\ Busy(v)' => LastIs(P, pck')
<1> DEFINE n == Len(P)
           q == pck.size - counter
<1>1. /\ counter \in 1 .. pck.size - 1
      /\ flitType = "BODY" <=> counter >= 2
      /\ pck.size - counter <= ChunkSpan => counter2 = pck.size - counter - 1
      /\ flitType # "HEADER" /\ p = pck
  BY DEF SenderInv, GoesOn
<1>2. pck.size \in Nat \ {0} /\ ChunkSpan \in Nat /\ Remain \in Nat /\ Remain <= ChunkSpan
  BY <1>1, PacketSize DEF InjectorAssumption
<1>3. n \in Nat \ {0} /\ P[n].size = pck.size /\ P[n].id = pck.id
  BY LenProperties, EmptySeq DEF LastIs
<1>4. f \in Flits(v)
  BY DEF GoesOn
<1>5. EndPlace(v) = q
  BY <1>1 DEF EndPlace, Busy
<1>6. q \in Nat \ {0} /\ q < pck.size /\ (q = pck.size - 1 <=> counter = 1)
  BY <1>1, <1>2
<1>7. f.tail <=> counter = 1
  <2>1. flitType \in {"HEADER", "BODY", "TAIL_ST"}
    BY DEF TypeOK
  <2>2. flitType = "TAIL_ST" <=> counter = 1
    BY <1>1, <2>1
  <2> QED
    BY <2>2 DEF GoesOn
<1>8. q <= Remain => f.chunk = q
  BY <1>1, <1>2 DEF GoesOn
<1>9. ~f.hdr /\ f.id = pck.id
  BY <1>1 DEF GoesOn
<1> HIDE DEF n, q
<1>10. Fits(f, P, n, q)
  <2>1. n \in 1 .. Len(P)
    BY <1>3 DEF n
  <2> QED
    BY <1>3, <1>6, <1>7, <1>8, <1>9, <2>1 DEF Fits
<1>11. Track(S, P, q0, n, q)
  BY <1>5 DEF n
<1>12. Track(Append(S, f), P, q0, NextPacket(P, n, q), NextPlace(P, n, q))
  BY <1>4, <1>10, <1>11, FlitAdded
<1>13. CASE flitType = "TAIL_ST"
  <2>1. ~Busy(v)' /\ counter = 1
    BY <1>1, <1>13 DEF GoesOn, Busy
  <2>2. EndPlace(v)' = 0 /\ EndOf(v, P)' = n + 1
    BY <2>1 DEF EndPlace, EndOf, n
  <2>3. NextPacket(P, n, q) = n + 1 /\ NextPlace(P, n, q) = 0
    BY <1>3, <1>6, <2>1 DEF NextPacket, NextPlace
  <2> QED
    BY <1>12, <2>1, <2>2, <2>3
<1>14. CASE flitType # "TAIL_ST"
  <2>1. Busy(v)' /\ pck' = pck /\ counter' = counter - 1
    BY <1>1, <1>14 DEF GoesOn, Busy
  <2>2. counter # 1
    BY <1>1, <1>7, <1>14 DEF GoesOn
  <2>3. EndPlace(v)' = q + 1 /\ EndOf(v, P)' = n
    BY <1>1, <1>2, <2>1 DEF EndPlace, EndOf, n, q
  <2>4. NextPacket(P, n, q) = n /\ NextPlace(P, n, q) = q + 1
    BY <1>3, <1>6, <2>2 DEF NextPacket, NextPlace
  <2>5. LastIs(P, pck')
    BY <2>1
  <2> QED
    BY <1>12, <2>3, <2>4, <2>5
<1> QED
  BY <1>13, <1>14

\* What the sender does in a cycle keeps the flits S1 of v those of its packets P1.
LEMMA ChannelSends ==
    ASSUME InjectorAssumption, InjectorInv, NEW p \in Packet, NEW wr \in BOOLEAN, NEW f,
           Waits(f, wr) \/ Starts(f, p, wr) \/ GoesOn(f, p, wr), NEW v \in Vc, NEW q0,
           Track(Stream(v), Open(v), q0, EndOf(v, Open(v)), EndPlace(v)),
           Busy(v) => LastIs(Open(v), pck),
           NEW P1, P1 = Opened(v, p, wr), NEW S1, S1 = Streamed(v, f)
    PROVE  /\ Track(S1, P1, q0, EndOf(v, P1)', EndPlace(v)')
           /\ Busy(v)' => LastIs(P1, pck')
           /\ S1 \in Seq(Flits(v)) /\ P1 \in Seq(Sent)
<1> DEFINE P == Open(v)
           S == Stream(v)
           x == [size |-> p.size, id |-> p.id]
<1>1. P \in Seq(Sent) /\ S \in Seq(Flits(v)) /\ x \in Sent
  BY ChannelType, PacketSize
<1>2. TypeOK /\ SenderInv
  BY DEF InjectorInv
<1>4. CASE Waits(f, wr) \/ ((Starts(f, p, wr) \/ GoesOn(f, p, wr)) /\ p.vc # v)
  <2>1. /\ f.vc # v /\ ~(wr /\ p.vc = v)
        /\ Busy(v)' <=> Busy(v)
        /\ EndPlace(v)' = EndPlace(v)
        /\ Busy(v) => pck' = pck
    BY <1>4, OtherChannel
  <2>2. P1 = P /\ S1 = S
    BY <2>1 DEF Opened, Streamed
  <2> HIDE DEF P, S
  <2>3. EndOf(v, P1)' = EndOf(v, P)
    BY <2>1, <2>2 DEF EndOf
  <2> QED
    BY <1>1, <2>1, <2>2, <2>3 DEF P, S
<1>5. CASE Starts(f, p, wr) /\ p.vc = v
  <2>1. f \in Flits(v) /\ f.vc = v /\ wr /\ ~Busy(v)
    BY <1>5 DEF Starts, Flits, Busy
  <2>2. P1 = Append(P, x) /\ S1 = Append(S, f)
    BY <1>5, <2>1 DEF Opened, Streamed
  <2>3. Track(S, P, q0, Len(P) + 1, 0)
    BY <2>1 DEF EndOf, EndPlace
  <2> HIDE DEF P, S
  <2>4. PICK PC, SC : PC = P /\ SC = S
    OBVIOUS
  <2>5. /\ Track(Append(SC, f), Append(PC, x), q0, EndOf(v, Append(PC, x))', EndPlace(v)')
        /\ Busy(v)' => LastIs(Append(PC, x), pck')
    BY <1>1, <1>5, <2>3, <2>4, ChannelStarts
  <2>6. P1 = Append(PC, x) /\ S1 = Append(SC, f)
    BY <2>2, <2>4
  <2> HIDE DEF x
  <2>7. P1 \in Seq(Sent) /\ S1 \in Seq(Flits(v))
    <3>1. Append(P, x) \in Seq(Sent)
      BY <1>1, AppendProperties
    <3>2. Append(S, f) \in Seq(Flits(v))
      BY <1>1, <2>1, AppendProperties
    <3> QED
      BY <2>2, <3>1, <3>2
  <2>8. EndOf(v, P1)' = EndOf(v, Append(PC, x))'
    BY <2>6 DEF EndOf
  <2> QED
    BY <2>5, <2>6, <2>7, <2>8
<1>6. CASE GoesOn(f, p, wr) /\ p.vc = v
  <2>1. f \in Flits(v) /\ f.vc = v /\ ~wr /\ Busy(v)
    BY <1>6 DEF GoesOn, Flits, Busy
  <2>2. P1 = P /\ S1 = Append(S, f)
    BY <1>6, <2>1 DEF Opened, Streamed
  <2>3. Track(S, P, q0, Len(P), EndPlace(v)) /\ LastIs(P, pck)
    BY <2>1 DEF EndOf
  <2> HIDE DEF P, S
  <2>4. PICK SC : SC = S
    OBVIOUS
  <2>5. P1 \in Seq(Sent) /\ SC \in Seq(Flits(v)) /\ LastIs(P1, pck)
        /\ Track(SC, P1, q0, Len(P1), EndPlace(v))
    BY <1>1, <2>2, <2>3, <2>4
  <2>6. /\ Track(Append(SC, f), P1, q0, EndOf(v, P1)', EndPlace(v)')
        /\ Busy(v)' => LastIs(P1, pck')
    BY <1>2, <1>6, <2>5, ChannelGoesOn
  <2>7. S1 \in Seq(Flits(v))
    BY <1>1, <2>1, <2>2, AppendProperties
  <2> QED
    BY <2>2, <2>4, <2>5, <2>6, <2>7
<1> QED
  BY <1>4, <1>5, <1>6

\* What is in the network and not yet received after a cycle.
LEMMA ChannelMoves ==
    ASSUME InjectorAssumption, InjectorInv, NEW r \in ReadGrants, NEW f, Moved(f),
           Network(f, r), NEW v \in Vc, NEW S1, S1 = Streamed(v, f)
    PROVE  /\ eject.vc = v  => /\ S1 # <<>> /\ Head(S1) = eject /\ Stream(v)' = Tail(S1)
                               /\ eject \in Flits(v)
           /\ eject.vc # v => Stream(v)' = S1
<1> DEFINE b  == buf[v]
           B1 == IF f.vc = v THEN Append(b, f) ELSE b
<1>1. b \in Seq(Flits(v)) /\ NoFlit.vc = None /\ v # None
  BY DEF InjectorInv, NetworkType, NoFlit, InjectorAssumption
<1>2. f.vc = v => f \in Flits(v)
  BY <1>1 DEF Moved
<1>3. B1 \in Seq(Flits(v))
  BY <1>1, <1>2, AppendProperties
<1>4. Stream(v)' = B1
  <2>1. buf'[v] = IF f.vc = v THEN Append(IF r = v THEN Tail(b) ELSE b, f)
                  ELSE IF r = v THEN Tail(b) ELSE b
    BY DEF Network
  <2>2. CASE r = v
    <3>1. b # <<>>
      BY <1>1, <2>2 DEF ReadGrants
    <3>2. Head(b) \in Flits(v) /\ Tail(b) \in Seq(Flits(v))
      BY <1>1, <3>1, HeadTailProperties
    <3>3. eject' = Head(b) /\ eject'.vc = v
      BY <1>1, <2>2, <3>2 DEF Network, Flits
    <3>4. Stream(v)' = <<Head(b)>> \o buf'[v]
      BY <3>3 DEF Stream
    <3>5. CASE f.vc = v
      <4> HIDE DEF b
      <4>1. <<Head(b)>> \o Append(Tail(b), f) = Append(b, f)
        BY <1>1, <1>2, <3>1, <3>2, <3>5, FrontFlit
      <4> QED
        BY <2>1, <2>2, <3>4, <3>5, <4>1
    <3>6. CASE f.vc # v
      <4>1. <<Head(b)>> \o Tail(b) = b
        BY <1>1, <3>1, <3>2, FrontFlit
      <4> QED
        BY <2>1, <2>2, <3>4, <3>6, <4>1
    <3> QED
      BY <3>5, <3>6
  <2>3. CASE r # v
    <3>1. eject'.vc # v
      <4>1. CASE r = None
        BY <1>1, <4>1 DEF Network
      <4>2. CASE r # None
        <5>1. r \in Vc /\ buf[r] \in Seq(Flits(r)) /\ buf[r] # <<>>
          BY <4>2 DEF ReadGrants, InjectorInv, NetworkType
        <5>2. Head(buf[r]) \in Flits(r)
          BY <5>1, HeadTailProperties
        <5>3. eject' = Head(buf[r]) /\ Head(buf[r]).vc = r
          BY <4>2, <5>2 DEF Network, Flits
        <5> QED
          BY <2>3, <5>3
      <4> QED
        BY <4>1, <4>2
    <3> QED
      BY <2>1, <2>3, <3>1 DEF Stream
  <2> QED
    BY <2>2, <2>3
<1>5. CASE eject.vc = v
  <2>1. eject \in Flits(v)
    BY <1>1, <1>5 DEF InjectorInv, NetworkType
  <2>2. Stream(v) = <<eject>> \o b
    BY <1>5 DEF Stream
  <2> HIDE DEF b
  <2>3. S1 = <<eject>> \o B1
    <3>1. CASE f.vc = v
      <4>1. Append(<<eject>> \o b, f) = <<eject>> \o Append(b, f)
        BY <1>1, <1>2, <2>1, <3>1, FrontFlit
      <4> QED
        BY <2>2, <3>1, <4>1 DEF Streamed
    <3>2. CASE f.vc # v
      BY <2>2, <3>2 DEF Streamed
    <3> QED
      BY <3>1, <3>2
  <2> HIDE DEF B1
  <2>4. S1 # <<>> /\ Head(S1) = eject /\ Tail(S1) = B1
    BY <1>3, <2>1, <2>3, FrontFlit
  <2> QED
    BY <1>4, <1>5, <2>1, <2>4
<1>6. CASE eject.vc # v
  <2>1. S1 = B1
    BY <1>6 DEF Streamed, Stream
  <2> QED
    BY <1>4, <1>6, <2>1
<1> QED
  BY <1>5, <1>6

\* The receiver takes flit q0 of the first packet of its channel: it then counts
\* and holds one more.
LEMMA FlitReceived ==
    ASSUME InjectorAssumption, InjectorInv, Receive, NEW v \in Vc, eject.vc = v,
           NEW q0 \in Nat, Received(v, q0), NEW P1 \in Seq(Sent),
           Open(v) # <<>> => P1[1] = Open(v)[1], Fits(eject, P1, 1, q0)
    PROVE  /\ P1 # <<>> /\ q0 < P1[1].size
           /\ rsvCounter'[v] = q0 + 1 /\ rsvCounter'[v] \in 0 .. SizeSpan - 1
           /\ \A k \in 0 .. Remain : k < q0 + 1 => data'[v][k] = <<P1[1].id, k>>
<1>1. /\ 1 \in 1 .. Len(P1) /\ q0 < P1[1].size /\ eject.id = P1[1].id
      /\ eject.hdr <=> q0 = 0
      /\ q0 <= Remain => eject.chunk = q0
  BY DEF Fits
<1>2. P1 # <<>> /\ P1[1] \in Sent
  BY <1>1, ElementOfSeq, EmptySeq
<1>3. q0 + 1 \in 0 .. SizeSpan - 1 /\ SizeSpan \in Nat \ {0}
  BY <1>1, <1>2 DEF Sent, InjectorAssumption
<1>4. /\ q0 > 0 => rsvCounter[v] = q0
      /\ q0 > 0 => \A k \in 0 .. Remain : k < q0 => data[v][k] = <<P1[1].id, k>>
  BY DEF Received
<1>5. rsvCounter'[v] = q0 + 1
  <2>1. rsvCounter'[v] = IF eject.hdr THEN 1 ELSE (rsvCounter[v] + 1) % SizeSpan
    BY DEF Receive, RsvCounterNext
  <2>2. CASE q0 = 0
    BY <1>1, <2>1, <2>2
  <2>3. CASE q0 # 0
    <3>1. rsvCounter[v] = q0
      BY <1>4, <2>3
    <3>2. (q0 + 1) % SizeSpan = q0 + 1
      BY <1>3, InRange
    <3> QED
      BY <1>1, <2>1, <2>3, <3>1, <3>2
  <2> QED
    BY <2>2, <2>3
<1>6. PlaceOfFlit(v) = q0
  BY <1>1, <1>4 DEF PlaceOfFlit
<1>7. ASSUME NEW k \in 0 .. Remain, k < q0 + 1
      PROVE  data'[v][k] = <<P1[1].id, k>>
  <2>1. data'[v][k] = IF eject.vc = v /\ PlaceOfFlit(v) = k THEN <<eject.id, eject.chunk>>
                      ELSE data[v][k]
    BY DEF Receive
  <2>2. k \in Nat /\ k <= Remain
    BY <1>7 DEF InjectorAssumption
  <2>3. CASE k = q0
    BY <1>1, <1>6, <2>1, <2>2, <2>3
  <2>4. CASE k # q0
    <3>1. k < q0 /\ q0 > 0
      BY <1>7, <2>2, <2>4
    <3> QED
      BY <1>4, <1>6, <2>1, <2>4, <3>1
  <2> QED
    BY <2>3, <2>4
<1> QED
  BY <1>1, <1>2, <1>3, <1>5, <1>7

\* A channel after a cycle.
LEMMA ChannelStep ==
    ASSUME InjectorAssumption, InjectorInv, NEW p \in Packet, NEW wr \in BOOLEAN,
           NEW r \in ReadGrants, Cycle(p, wr, r), NEW v \in Vc
    PROVE  /\ ChannelInv(v)'
           /\ pending'[v] \in Seq(Sent)
           /\ rsvCounter'[v] \in 0 .. SizeSpan - 1
           /\ tailReg' /\ vcReg' = v =>
                 /\ pending'[v] # <<>>
                 /\ rsvCounter'[v] = Head(pending'[v]).size
                 /\ \A k \in 0 .. Remain : data'[v][k] = <<Head(pending'[v]).id, k>>
<1>1. PICK f : f = FlitOut(p, wr)
  OBVIOUS
<1>2. Waits(f, wr) \/ Starts(f, p, wr) \/ GoesOn(f, p, wr)
  BY <1>1, FlitSent
<1>3. Moved(f)
  BY <1>2, SentFlitMoves
<1>4. Network(f, r) /\ Receive
  BY <1>1 DEF Cycle
<1>5. PICK P1, S1 : P1 = Opened(v, p, wr) /\ S1 = Streamed(v, f)
  OBVIOUS
<1>6. pending'[v] = P1
  <2>1. pending'[v] = IF wr /\ p.vc = v THEN Append(Open(v), [size |-> p.size, id |-> p.id])
                      ELSE Open(v)
    BY DEF Cycle, Open
  <2> QED
    BY <1>5, <2>1 DEF Opened
<1>7. PICK q0 \in Nat : /\ Track(Stream(v), Open(v), q0, EndOf(v, Open(v)), EndPlace(v))
                        /\ Received(v, q0)
  BY DEF InjectorInv, ChannelInv, EndOf
<1>8. Busy(v) => LastIs(Open(v), pck)
  BY DEF InjectorInv, ChannelInv
<1>9. /\ Track(S1, P1, q0, EndOf(v, P1)', EndPlace(v)')
      /\ Busy(v)' => LastIs(P1, pck')
      /\ S1 \in Seq(Flits(v)) /\ P1 \in Seq(Sent)
  BY <1>2, <1>5, <1>7, <1>8, ChannelSends
<1>10. Open(v) # <<>> => P1 # <<>> /\ P1[1] = Open(v)[1]
  <2>1. Open(v) \in Seq(Sent) /\ [size |-> p.size, id |-> p.id] \in Sent
    BY ChannelType, PacketSize
  <2>2. ASSUME NEW P \in Seq(Sent), NEW x \in Sent, P # <<>>
        PROVE  Append(P, x) # <<>> /\ Append(P, x)[1] = P[1]
    <3>1. Len(P) \in Nat \ {0} /\ 1 \in 1 .. Len(P)
      BY <2>2, EmptySeq
    <3> QED
      BY <3>1, AppendProperties
  <2> QED
    BY <1>5, <2>1, <2>2 DEF Opened
<1>11. eject.vc \in Vc => (eject # NoFlit /\ eject \in Flits(eject.vc))
  BY DEF InjectorInv, NetworkType, NoFlit, InjectorAssumption
<1>12. /\ vcReg' = eject.vc /\ (tailReg' <=> (eject # NoFlit /\ eject.tail))
  BY <1>4, <1>11 DEF Receive
<1>13. Open(v)' = IF tailReg' /\ vcReg' = v THEN Tail(P1) ELSE P1
  BY <1>6 DEF Open
<1>15. CASE eject.vc # v
  <2>1. Stream(v)' = S1 /\ Open(v)' = P1
    BY <1>3, <1>4, <1>5, <1>12, <1>13, <1>15, ChannelMoves
  <2>2. rsvCounter'[v] = rsvCounter[v] /\ \A k \in 0 .. Remain : data'[v][k] = data[v][k]
    BY <1>4, <1>15 DEF Receive
  <2>3. Received(v, q0)'
    BY <1>7, <1>10, <2>1, <2>2 DEF Received
  <2>4. Track(Stream(v), Open(v), q0, IF Busy(v) THEN Len(Open(v)) ELSE Len(Open(v)) + 1,
              EndPlace(v))'
    BY <1>9, <2>1 DEF EndOf
  <2>5. (Busy(v) => LastIs(Open(v), pck))'
    BY <1>9, <2>1
  <2>6. ChannelInv(v)'
    BY <2>3, <2>4, <2>5 DEF ChannelInv
  <2>7. rsvCounter'[v] \in 0 .. SizeSpan - 1
    BY <2>2 DEF InjectorInv, TypeOK
  <2> QED
    BY <1>6, <1>9, <1>12, <1>15, <2>6, <2>7
<1>16. CASE eject.vc = v
  <2>1. S1 # <<>> /\ Head(S1) = eject /\ Stream(v)' = Tail(S1) /\ eject \in Flits(v)
    BY <1>3, <1>4, <1>5, <1>16, ChannelMoves
  <2> DEFINE I == EndOf(v, P1)'
             E == EndPlace(v)'
  <2>2. /\ Fits(eject, P1, 1, q0)
        /\ eject.tail => I - 1 \in Nat \ {0} /\ Track(Tail(S1), Tail(P1), 0, I - 1, E)
        /\ ~eject.tail => Track(Tail(S1), P1, q0 + 1, I, E)
    <3> HIDE DEF I, E
    <3>1. Track(S1, P1, q0, I, E)
      BY <1>9 DEF I, E
    <3>2. PICK IC, EC : IC = I /\ EC = E
      OBVIOUS
    <3>3. Track(S1, P1, q0, IC, EC)
      BY <3>1, <3>2
    <3>4. /\ Fits(Head(S1), P1, 1, q0)
          /\ Head(S1).tail => IC - 1 \in Nat \ {0} /\ Track(Tail(S1), Tail(P1), 0, IC - 1, EC)
          /\ ~Head(S1).tail => Track(Tail(S1), P1, q0 + 1, IC, EC)
      BY <1>9, <2>1, <3>3, FlitDropped
    <3> QED
      BY <2>1, <3>2, <3>4
  <2>3. /\ P1 # <<>> /\ q0 < P1[1].size
        /\ rsvCounter'[v] = q0 + 1 /\ rsvCounter'[v] \in 0 .. SizeSpan - 1
        /\ \A k \in 0 .. Remain : k < q0 + 1 => data'[v][k] = <<P1[1].id, k>>
    BY <1>4, <1>7, <1>9, <1>10, <1>16, <2>2, FlitReceived
  <2>4. tailReg' <=> eject.tail
    BY <1>11, <1>12, <1>16
  <2>5. CASE ~eject.tail
    <3>1. Open(v)' = P1 /\ ~tailReg'
      BY <1>13, <2>4, <2>5
    <3>2. Received(v, q0 + 1)'
      BY <2>3, <3>1 DEF Received
    <3>3. Track(Stream(v), Open(v), q0 + 1, IF Busy(v) THEN Len(Open(v)) ELSE Len(Open(v)) + 1,
                EndPlace(v))'
      BY <2>1, <2>2, <2>5, <3>1 DEF EndOf
    <3>4. (Busy(v) => LastIs(Open(v), pck))'
      BY <1>9, <3>1
    <3>5. ChannelInv(v)'
      BY <3>2, <3>3, <3>4 DEF ChannelInv
    <3> QED
      BY <1>6, <1>9, <2>3, <3>1, <3>5
  <2>6. CASE eject.tail
    <3>1. Open(v)' = Tail(P1) /\ tailReg' /\ vcReg' = v
      BY <1>12, <1>13, <1>16, <2>4, <2>6
    <3> DEFINE T == Tail(P1)
               n == Len(P1)
    <3>2. /\ n \in Nat \ {0} /\ T \in Seq(Sent) /\ Len(T) = n - 1
          /\ \A k \in 1 .. n - 1 : T[k] = P1[k + 1]
      BY <1>9, <2>3, HeadTailProperties, EmptySeq
    <3> HIDE DEF T, n
    <3>3. I = IF Busy(v)' THEN n ELSE n + 1
      BY DEF EndOf, n
    <3>4. I - 1 = IF Busy(v)' THEN Len(T) ELSE Len(T) + 1
      BY <3>2, <3>3
    <3>5. Track(Stream(v), Open(v), 0, IF Busy(v) THEN Len(Open(v)) ELSE Len(Open(v)) + 1,
                EndPlace(v))'
      BY <2>1, <2>2, <2>6, <3>1, <3>4 DEF T
    <3>6. (Busy(v) => LastIs(Open(v), pck))'
      <4> SUFFICES ASSUME Busy(v)'
                   PROVE  LastIs(T, pck')
        BY <3>1 DEF T
      <4>1. n - 1 \in Nat \ {0} /\ T # <<>>
        <5>1. I = n /\ I - 1 \in Nat \ {0}
          BY <2>2, <2>6, <3>3
        <5>2. n - 1 \in Nat \ {0}
          BY <5>1
        <5> QED
          BY <3>2, <5>2, EmptySeq
      <4>2. P1[n] = [size |-> pck'.size, id |-> pck'.id]
        BY <1>9 DEF LastIs, n
      <4>3. T[Len(T)] = P1[n]
        <5>1. n - 1 \in 1 .. n - 1 /\ (n - 1) + 1 = n
          BY <3>2, <4>1
        <5> QED
          BY <3>2, <5>1
      <4> QED
        BY <4>1, <4>2, <4>3 DEF LastIs
    <3>7. Received(v, 0)'
      BY DEF Received
    <3>8. ChannelInv(v)'
      BY <3>5, <3>6, <3>7 DEF ChannelInv
    <3>9. q0 + 1 = P1[1].size /\ P1[1] \in Sent
      <4>1. 1 \in 1 .. Len(P1) /\ q0 = P1[1].size - 1
        BY <2>2, <2>6 DEF Fits
      <4>2. P1[1] \in Sent
        BY <1>9, <4>1, ElementOfSeq
      <4> QED
        BY <4>1, <4>2 DEF Sent
    <3>10. \A k \in 0 .. Remain : k < q0 + 1
      BY <3>9 DEF Sent, InjectorAssumption
    <3>11. Head(P1) = P1[1]
      BY <1>9, <2>3, HeadTailProperties
    <3> QED
      BY <1>6, <1>9, <2>3, <3>8, <3>9, <3>10, <3>11
  <2> QED
    BY <2>5, <2>6
<1> QED
  BY <1>15, <1>16

-----------------------------------------------------------------------------

LEMMA InjectorStep ==
    ASSUME InjectorAssumption, InjectorInv, [Next]_vars
    PROVE  InjectorInv'
<1>1. CASE Next
  <2>1. PICK p \in Packet, wr \in BOOLEAN, r \in ReadGrants : Cycle(p, wr, r)
    BY <1>1 DEF Next
  <2>2. PICK f : f = FlitOut(p, wr)
    OBVIOUS
  <2>3. Waits(f, wr) \/ Starts(f, p, wr) \/ GoesOn(f, p, wr)
    BY <2>1, <2>2, FlitSent
  <2>4. Moved(f)
    BY <2>3, SentFlitMoves
  <2>5. /\ OvcStatus(f) /\ Network(f, r) /\ Receive
        /\ DOMAIN pending' = Vc
    BY <2>1, <2>2 DEF Cycle
  <2>6. TypeOK /\ BuffersAccounted /\ NetworkType /\ SenderInv
    BY DEF InjectorInv
  <2>7. /\ SenderInv' /\ pck' \in Packet
        /\ flitType' \in {"HEADER", "BODY", "TAIL_ST"}
        /\ counter' \in 0 .. SizeSpan - 1 /\ counter2' \in 0 .. ChunkSpan - 1
    BY <2>3, <2>6, SenderStep
  <2>8. /\ credit' \in [Vc -> 0 .. LB] /\ outCredit' \in [Vc -> 0 .. LB]
        /\ DOMAIN buf' = Vc /\ \A v \in Vc : buf'[v] \in Seq(Flits(v))
        /\ eject' = NoFlit \/ (eject'.vc \in Vc /\ eject' \in Flits(eject'.vc))
        /\ {creditIn', creditO', vcReg'} \subseteq Vc \cup {None}
        /\ tailReg' \in BOOLEAN
        /\ BuffersAccounted'
    BY <2>4, <2>5, <2>6, NetworkStep
  <2>9. \A v \in Vc :
           /\ ChannelInv(v)'
           /\ pending'[v] \in Seq(Sent)
           /\ rsvCounter'[v] \in 0 .. SizeSpan - 1
           /\ tailReg' /\ vcReg' = v =>
                 /\ pending'[v] # <<>>
                 /\ rsvCounter'[v] = Head(pending'[v]).size
                 /\ \A k \in 0 .. Remain : data'[v][k] = <<Head(pending'[v]).id, k>>
    BY <2>1, ChannelStep
  <2>10. tailReg' => vcReg' \in Vc
    BY <2>5, <2>6 DEF Receive, NetworkType
  <2>11. rsvCounter' \in [Vc -> 0 .. SizeSpan - 1]
    <3>1. rsvCounter' = [v \in Vc |-> rsvCounter'[v]]
      BY <2>5 DEF Receive
    <3> QED
      BY <2>9, <3>1
  <2>12. TypeOK'
    BY <2>7, <2>8, <2>11 DEF TypeOK
  <2>13. DeliveredAsSent'
    BY <2>9, <2>10 DEF DeliveredAsSent
  <2>14. NetworkType'
    BY <2>5, <2>8, <2>9, <2>10 DEF NetworkType
  <2>15. \A v \in Vc : ChannelInv(v)'
    BY <2>9
  <2> QED
    BY <2>7, <2>8, <2>12, <2>13, <2>14, <2>15 DEF InjectorInv
<1>2. CASE UNCHANGED vars
  <2>1. /\ TypeOK' /\ BuffersAccounted' /\ DeliveredAsSent' /\ NetworkType' /\ SenderInv'
    BY <1>2 DEF InjectorInv, TypeOK, BuffersAccounted, DeliveredAsSent, NetworkType,
                SenderInv, vars, sender, network, receiver
  <2>2. ASSUME NEW v \in Vc PROVE ChannelInv(v)'
    <3>1. /\ Stream(v)' = Stream(v) /\ Open(v)' = Open(v) /\ (Busy(v)' <=> Busy(v))
          /\ EndPlace(v)' = EndPlace(v) /\ pck' = pck
          /\ rsvCounter' = rsvCounter /\ data' = data
      BY <1>2 DEF Stream, Open, Busy, EndPlace, vars, sender, network, receiver
    <3>2. ChannelInv(v)
      BY DEF InjectorInv
    <3> QED
      BY <3>1, <3>2 DEF ChannelInv, Received
  <2> QED
    BY <2>1, <2>2 DEF InjectorInv
<1> QED
  BY <1>1, <1>2

\* The invariant of the injectors: the flits on their way on a channel carry on
\* where the receiver's counter stands and end where the sender's does.
THEOREM InjectorInvariant == ASSUME InjectorAssumption PROVE Spec => []InjectorInv
<1>1. Init => InjectorInv
  BY InjectorInit
<1>2. InjectorInv /\ [Next]_vars => InjectorInv'
  BY InjectorStep
<1> QED
  BY <1>1, <1>2, PTL DEF Spec

\* What packet_injector.sv reports one cycle after a tail is the oldest packet of
\* the channel, of its size and with its data in place, however the flits of the
\* channels overtake each other.
THEOREM PacketsDeliveredAsSent == ASSUME InjectorAssumption PROVE Spec => []DeliveredAsSent
<1>1. InjectorInv => DeliveredAsSent
  BY DEF InjectorInv
<1> QED
  BY <1>1, InjectorInvariant, PTL

\* injector_ovc_status never sends without a place in the router's buffer, and
\* the receiver's credits are one to one with its places.
THEOREM InjectorBuffersAccounted ==
    ASSUME InjectorAssumption PROVE Spec => [](TypeOK /\ BuffersAccounted)
<1>1. InjectorInv => TypeOK /\ BuffersAccounted
  BY DEF InjectorInv
<1> QED
  BY <1>1, InjectorInvariant, PTL
=============================================================================
