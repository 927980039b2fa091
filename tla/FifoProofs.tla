----------------------------- MODULE FifoProofs ------------------------------
(***************************************************************************)
(* The buffers of flit_buffer.sv are FIFOs, for every number of channels   *)
(* and every depth: each clock edge of FlitBuffer, FwftFifo and            *)
(* FwftFifoBram is a clock edge of Fifo.                                   *)
(*                                                                         *)
(* Each buffer gives, for its state, the sequence of entries it stands     *)
(* for.  What an edge does to that sequence is shown entry by entry, which *)
(* leaves arithmetic on pointers; the lemmas of the first section then     *)
(* turn it into Append and Tail.                                           *)
(***************************************************************************)
EXTENDS MCFifos, SequenceTheorems, TLAPS

-----------------------------------------------------------------------------
(* Queues, entry by entry.                                                 *)

\* A sequence of a given length with given entries.
LEMMA QueueOf ==
    ASSUME NEW S, NEW n \in Nat, NEW q, q \in [1 .. n -> S]
    PROVE  q \in Seq(S) /\ Len(q) = n
  OBVIOUS

\* Writing an entry to the queue s gives t.
LEMMA Written ==
    ASSUME NEW S, NEW s \in Seq(S), NEW t \in Seq(S), NEW d \in S,
           Len(t) = Len(s) + 1, t[Len(s) + 1] = d,
           \A k \in 1 .. Len(s) : t[k] = s[k]
    PROVE  t = Append(s, d)
  <1>1. /\ Append(s, d) \in Seq(S) /\ Len(Append(s, d)) = Len(s) + 1
        /\ Append(s, d)[Len(s) + 1] = d
        /\ \A k \in 1 .. Len(s) : Append(s, d)[k] = s[k]
    BY AppendProperties
  <1> DEFINE u == Append(s, d)
  <1> HIDE DEF u
  <1>2. u \in Seq(S) /\ Len(u) = Len(t)
    BY <1>1 DEF u
  <1>3. \A k \in 1 .. Len(t) : t[k] = u[k]
    <2>1. Len(s) \in Nat
      BY LenProperties
    <2>2. QED
      BY <1>1, <2>1 DEF u
  <1>4. t = u
    BY <1>2, <1>3, SeqEqual
  <1>5. QED
    BY <1>4 DEF u

\* Reading the queue s leaves t.
LEMMA ReadOff ==
    ASSUME NEW S, NEW s \in Seq(S), NEW t \in Seq(S), s # <<>>,
           Len(t) = Len(s) - 1, \A k \in 1 .. Len(t) : t[k] = s[k+1]
    PROVE  t = Tail(s)
  <1>1. /\ Tail(s) \in Seq(S) /\ Len(Tail(s)) = Len(s) - 1
        /\ \A k \in 1 .. Len(Tail(s)) : Tail(s)[k] = s[k+1]
    BY HeadTailProperties
  <1> DEFINE u == Tail(s)
  <1> HIDE DEF u
  <1>2. u \in Seq(S) /\ Len(u) = Len(t) /\ \A k \in 1 .. Len(t) : t[k] = u[k]
    BY <1>1 DEF u
  <1>3. t = u
    BY <1>2, SeqEqual
  <1>4. QED
    BY <1>3 DEF u

\* Writing and reading the queue s at once leaves t.
LEMMA PassedOn ==
    ASSUME NEW S, NEW s \in Seq(S), NEW t \in Seq(S), NEW d \in S,
           Len(t) = Len(s),
           \A k \in 1 .. Len(t) : t[k] = IF k = Len(s) THEN d ELSE s[k+1]
    PROVE  t = Tail(Append(s, d))
  <1>1. /\ Append(s, d) \in Seq(S) /\ Len(Append(s, d)) = Len(s) + 1
        /\ Append(s, d)[Len(s) + 1] = d
        /\ \A k \in 1 .. Len(s) : Append(s, d)[k] = s[k]
    BY AppendProperties
  <1>2. Len(s) \in Nat
    BY LenProperties
  <1> DEFINE u == Append(s, d)
  <1> HIDE DEF u
  <1>3. u \in Seq(S) /\ Len(u) = Len(t) + 1 /\ u # <<>>
    BY <1>1, <1>2, EmptySeq DEF u
  <1>4. \A k \in 1 .. Len(t) : t[k] = u[k+1]
    BY <1>1, <1>2 DEF u
  <1>5. t = Tail(u)
    BY <1>2, <1>3, <1>4, ReadOff
  <1>6. QED
    BY <1>5 DEF u

\* The queue s of channel c becomes t in an edge that writes d to channel w
\* and reads channel r.
LEMMA QueueEdge ==
    ASSUME NEW S, NEW s \in Seq(S), NEW t \in Seq(S), NEW d \in S,
           NEW c, NEW w, NEW r, c = r => c = w \/ Len(s) > 0,
           Len(t) = Len(s) + (IF c = w THEN 1 ELSE 0) - (IF c = r THEN 1 ELSE 0),
           \A k \in 1 .. Len(t) :
             t[k] = LET j == IF c = r THEN k + 1 ELSE k
                    IN  IF j = Len(s) + 1 THEN d ELSE s[j]
    PROVE  t = LET u == IF c = w THEN Append(s, d) ELSE s
               IN  IF c = r THEN Tail(u) ELSE u
  <1>1. Len(s) \in Nat /\ Len(t) \in Nat
    BY LenProperties
  <1>2. CASE c = w /\ c = r
    <2>1. Len(t) = Len(s) /\ \A k \in 1 .. Len(t) : t[k] = IF k = Len(s) THEN d ELSE s[k+1]
      BY <1>1, <1>2
    <2>2. t = Tail(Append(s, d))
      BY <2>1, PassedOn
    <2>3. QED
      BY <1>2, <2>2
  <1>3. CASE c = w /\ c # r
    <2>1. /\ Len(t) = Len(s) + 1 /\ t[Len(s) + 1] = d
          /\ \A k \in 1 .. Len(s) : t[k] = s[k]
      BY <1>1, <1>3
    <2>2. t = Append(s, d)
      BY <2>1, Written
    <2>3. QED
      BY <1>3, <2>2
  <1>4. CASE c # w /\ c = r
    <2>1. Len(t) = Len(s) - 1 /\ \A k \in 1 .. Len(t) : t[k] = s[k+1]
      BY <1>1, <1>4
    <2>2. s # <<>>
      BY <1>1, <1>4, EmptySeq
    <2>3. t = Tail(s)
      BY <2>1, <2>2, ReadOff
    <2>4. QED
      BY <1>4, <2>3
  <1>5. CASE c # w /\ c # r
    <2>1. Len(t) = Len(s) /\ \A k \in 1 .. Len(s) : s[k] = t[k]
      BY <1>1, <1>5
    <2>2. s = t
      BY <2>1, SeqEqual
    <2>3. QED
      BY <1>5, <2>2
  <1>6. QED
    BY <1>2, <1>3, <1>4, <1>5

\* An edge writes d behind the queue s and takes its first entry: t is left.
Shifted(s, t, d, wr, rd) ==
    /\ Len(t) = Len(s) + (IF wr THEN 1 ELSE 0) - (IF rd THEN 1 ELSE 0)
    /\ \A k \in 1 .. Len(t) :
          t[k] = LET j == IF rd THEN k + 1 ELSE k
                 IN  IF j = Len(s) + 1 THEN d ELSE s[j]

\* It is an edge of the abstract FIFO with one channel.
AsEdge(s, t, d, D, e, rd) ==
    \E w, r \in {0, 1} :
       /\ w # 0 => Len(s) < D \/ r = w
       /\ r # 0 => s # <<>> \/ r = w
       /\ t = LET u == IF 1 = w THEN Append(s, d) ELSE s
              IN  IF 1 = r THEN Tail(u) ELSE u
       /\ (IF r = 0 \/ s = <<>> THEN e
           ELSE Head(IF r = w THEN Append(s, d) ELSE s))
          = (IF rd /\ Len(s) # 0 THEN s[1] ELSE e)

\* The same for the queue s of the only channel, with write and read enable:
\* it becomes t, the guards of a FIFO hold, and the entry read is the oldest.
LEMMA OneChannelEdge ==
    ASSUME NEW S, NEW s \in Seq(S), NEW t \in Seq(S), NEW d \in S, NEW D \in Nat, NEW e,
           NEW wr \in BOOLEAN, NEW rd \in BOOLEAN, Len(s) <= D,
           wr => rd \/ Len(s) # D, rd => wr \/ Len(s) # 0, Shifted(s, t, d, wr, rd)
    PROVE  AsEdge(s, t, d, D, e, rd)
  <1> DEFINE w == IF wr THEN 1 ELSE 0
             r == IF rd THEN 1 ELSE 0
  <1>1. w \in {0, 1} /\ r \in {0, 1} /\ (1 = w <=> wr) /\ (1 = r <=> rd)
    OBVIOUS
  <1>2. Len(s) \in Nat /\ (s = <<>> <=> Len(s) = 0)
    BY LenProperties, EmptySeq
  <1>8. Len(t) = Len(s) + (IF wr THEN 1 ELSE 0) - (IF rd THEN 1 ELSE 0)
    BY DEF Shifted
  <1>9. \A k \in 1 .. Len(t) :
          t[k] = LET j == IF rd THEN k + 1 ELSE k
                 IN  IF j = Len(s) + 1 THEN d ELSE s[j]
    BY DEF Shifted
  <1> HIDE DEF w, r
  <1>3. t = LET u == IF 1 = w THEN Append(s, d) ELSE s
            IN  IF 1 = r THEN Tail(u) ELSE u
    <2> DEFINE c == 1
    <2> HIDE DEF c
    <2>1. c = r => c = w \/ Len(s) > 0
      BY <1>1, <1>2 DEF c
    <2>2. Len(t) = Len(s) + (IF c = w THEN 1 ELSE 0) - (IF c = r THEN 1 ELSE 0)
      BY <1>1, <1>8 DEF c
    <2>3. \A k \in 1 .. Len(t) :
            t[k] = LET j == IF c = r THEN k + 1 ELSE k
                   IN  IF j = Len(s) + 1 THEN d ELSE s[j]
      BY <1>1, <1>9 DEF c
    <2>4. t = LET u == IF c = w THEN Append(s, d) ELSE s
              IN  IF c = r THEN Tail(u) ELSE u
      BY <2>1, <2>2, <2>3, QueueEdge
    <2>5. QED
      BY <2>4 DEF c
  <1>4. /\ w # 0 => Len(s) < D \/ r = w
        /\ r # 0 => s # <<>> \/ r = w
    BY <1>1, <1>2
  <1>5. s # <<>> => Head(s) = s[1] /\ Head(Append(s, d)) = s[1]
    BY HeadTailProperties, HeadTailAppend, AppendProperties
  <1>6. (IF r = 0 \/ s = <<>> THEN e ELSE Head(IF r = w THEN Append(s, d) ELSE s))
        = (IF rd /\ Len(s) # 0 THEN s[1] ELSE e)
    BY <1>1, <1>2, <1>5
  <1>7. QED
    BY <1>1, <1>3, <1>4, <1>6 DEF AsEdge

-----------------------------------------------------------------------------
(* fwft_fifo.                                                              *)

\* Its registers hold entries, and no more than there are places for.
FwftInv ==
    /\ fwftDepth \in 0 .. MaxDepth
    /\ shiftreg \in [1 .. MaxDepth - 1 -> Data \cup {Empty}]
    /\ dout \in Data \cup {Empty}

\* Where the shift register keeps entry k of n.
LEMMA ShiftPlace ==
    ASSUME NEW n \in Nat, n <= MaxDepth
    PROVE  \A k \in 1 .. n : k # 1 => n + 1 - k \in 1 .. MaxDepth - 1
  BY FwftAssumption

LEMMA FwftContents ==
    ASSUME FwftInv
    PROVE  /\ Fwft!Contents \in Seq(Data \cup {Empty})
           /\ Len(Fwft!Contents) = fwftDepth
           /\ \A k \in 1 .. fwftDepth :
                Fwft!Contents[k] = IF k = 1 THEN dout ELSE shiftreg[fwftDepth + 1 - k]
  <1>1. Fwft!Contents \in [1 .. fwftDepth -> Data \cup {Empty}]
    BY FwftAssumption DEF FwftInv, Fwft!Contents
  <1>2. fwftDepth \in Nat
    BY FwftAssumption DEF FwftInv
  <1>3. QED
    BY <1>1, <1>2, QueueOf DEF Fwft!Contents

\* An edge keeps the registers in range; it writes the queue, reads it, does
\* both or neither.
LEMMA FwftEdge ==
    ASSUME FwftInv, NEW wr \in BOOLEAN, NEW rd \in BOOLEAN, NEW din \in Data,
           Fwft!Clock(wr, din, rd)
    PROVE  /\ FwftInv'
           /\ fwftDepth' = fwftDepth + (IF wr THEN 1 ELSE 0) - (IF rd THEN 1 ELSE 0)
           /\ \A k \in 1 .. fwftDepth' :
                Fwft!Contents'[k] =
                  LET j == IF rd THEN k + 1 ELSE k
                  IN  IF j = fwftDepth + 1 THEN din ELSE Fwft!Contents[j]
  <1>1. /\ fwftDepth \in Nat /\ fwftDepth <= MaxDepth
        /\ wr /\ ~rd => fwftDepth < MaxDepth
        /\ rd /\ ~wr => fwftDepth > 0
    BY FwftAssumption DEF FwftInv, Fwft!Clock, Fwft!Legal
  <1>2. fwftDepth' = fwftDepth + (IF wr THEN 1 ELSE 0) - (IF rd THEN 1 ELSE 0)
    <2>1. CASE wr /\ ~rd
      <3>1. (fwftDepth + 1) % DepthSpan = fwftDepth + 1
        BY <1>1, <2>1, FwftAssumption
      <3>2. QED
        BY <2>1, <3>1, <1>1 DEF Fwft!Clock, Fwft!DepthNext
    <2>2. CASE ~wr /\ rd
      <3>1. (fwftDepth - 1) % DepthSpan = fwftDepth - 1
        BY <1>1, <2>2, FwftAssumption
      <3>2. QED
        BY <2>2, <3>1, <1>1 DEF Fwft!Clock, Fwft!DepthNext
    <2>3. CASE wr <=> rd
      BY <2>3, <1>1 DEF Fwft!Clock, Fwft!DepthNext
    <2>4. QED
      BY <2>1, <2>2, <2>3
  <1>3. fwftDepth' \in 0 .. MaxDepth
    BY <1>1, <1>2, FwftAssumption
  <1>4. /\ shiftreg' \in [1 .. MaxDepth - 1 -> Data \cup {Empty}]
        /\ \A k \in 1 .. MaxDepth - 1 :
             shiftreg'[k] = IF wr THEN IF k = 1 THEN din ELSE shiftreg[k-1]
                            ELSE shiftreg[k]
    BY FwftAssumption DEF FwftInv, Fwft!Clock, Fwft!Shift
  <1>5. dout' = IF (IF MaxDepth > 1 /\ fwftDepth # 0 THEN rd ELSE wr)
                THEN IF MaxDepth # 1 /\ fwftDepth >= 2 THEN shiftreg[fwftDepth - 1] ELSE din
                ELSE dout
    BY DEF Fwft!Clock, Fwft!OutLd, Fwft!DoutNext, Fwft!HasMultiple
  <1>6. dout' \in Data \cup {Empty}
    BY <1>1, <1>5, FwftAssumption DEF FwftInv
  <1>7. FwftInv'
    BY <1>3, <1>4, <1>6 DEF FwftInv
  <1>8. \A k \in 1 .. fwftDepth' :
           (IF k = 1 THEN dout' ELSE shiftreg'[fwftDepth' + 1 - k]) =
             LET j == IF rd THEN k + 1 ELSE k
             IN  IF j = fwftDepth + 1 THEN din
                 ELSE IF j = 1 THEN dout ELSE shiftreg[fwftDepth + 1 - j]
    <2> TAKE k \in 1 .. fwftDepth'
    <2>1. CASE k = 1
      BY <1>1, <1>2, <1>5, <2>1, FwftAssumption
    <2>2. CASE k # 1
      <3>1. fwftDepth' + 1 - k \in 1 .. MaxDepth - 1
        <4>1. fwftDepth' \in Nat /\ fwftDepth' <= MaxDepth
          BY <1>3, FwftAssumption
        <4>2. QED
          BY <2>2, <4>1, ShiftPlace
      <3>2. QED
        BY <1>1, <1>2, <1>4, <2>2, <3>1
    <2>3. QED
      BY <2>1, <2>2
  <1>9. \A k \in 1 .. fwftDepth :
           Fwft!Contents[k] = IF k = 1 THEN dout ELSE shiftreg[fwftDepth + 1 - k]
    BY FwftContents
  <1>10. \A k \in 1 .. fwftDepth' :
           Fwft!Contents'[k] = IF k = 1 THEN dout' ELSE shiftreg'[fwftDepth' + 1 - k]
    BY <1>3 DEF Fwft!Contents
  <1>11. QED
    BY <1>1, <1>2, <1>7, <1>8, <1>9, <1>10

\* fwft_fifo starts as an empty FIFO, and each of its edges is one of a FIFO.
LEMMA FwftSimulation ==
    /\ Fwft!Init => FwftInv /\ Fwft!Abstract!Init
    /\ FwftInv /\ [Fwft!Next]_(Fwft!vars)
         => FwftInv' /\ [Fwft!Abstract!Next]_<<[c \in {1} |-> Fwft!Contents], fwftTaken>>
  <1>1. ASSUME Fwft!Init PROVE FwftInv /\ Fwft!Abstract!Init
    <2>1. FwftInv
      BY <1>1, FwftAssumption DEF Fwft!Init, FwftInv
    <2>2. Fwft!Contents = <<>>
      BY <1>1, <2>1, FwftContents, EmptySeq DEF Fwft!Init
    <2>3. QED
      BY <1>1, <2>1, <2>2 DEF Fwft!Init, Fwft!Abstract!Init
  <1>2. ASSUME FwftInv, NEW wr \in BOOLEAN, NEW rd \in BOOLEAN, NEW din \in Data,
               Fwft!Clock(wr, din, rd)
        PROVE  FwftInv' /\ Fwft!Abstract!Next
    <2> DEFINE s == Fwft!Contents
               t == Fwft!Contents'
               E == Data \cup {Empty}
    <2>1. FwftInv'
      BY <1>2, FwftEdge
    <2>2. s \in Seq(E) /\ Len(s) = fwftDepth
      BY <1>2, FwftContents
    <2>3. t \in Seq(E) /\ Len(t) = fwftDepth'
      <3>1. /\ fwftDepth' \in Nat /\ fwftDepth' <= MaxDepth /\ dout' \in E
            /\ shiftreg' \in [1 .. MaxDepth - 1 -> E]
        BY <2>1, FwftAssumption DEF FwftInv
      <3>2. t \in [1 .. fwftDepth' -> E]
        <4>1. t = [k \in 1 .. fwftDepth' |->
                     IF k = 1 THEN dout' ELSE shiftreg'[fwftDepth' + 1 - k]]
          BY DEF Fwft!Contents
        <4> HIDE DEF E, t
        <4>2. \A k \in 1 .. fwftDepth' : k # 1 => shiftreg'[fwftDepth' + 1 - k] \in E
          BY <3>1, ShiftPlace
        <4>3. QED
          BY <3>1, <4>1, <4>2
      <3> HIDE DEF t, E
      <3>3. QED
        BY <3>1, <3>2, QueueOf
    <2>4. /\ Len(t) = Len(s) + (IF wr THEN 1 ELSE 0) - (IF rd THEN 1 ELSE 0)
          /\ \A k \in 1 .. Len(t) :
               t[k] = LET j == IF rd THEN k + 1 ELSE k
                      IN  IF j = Len(s) + 1 THEN din ELSE s[j]
      <3>1. fwftDepth' = fwftDepth + (IF wr THEN 1 ELSE 0) - (IF rd THEN 1 ELSE 0)
        BY <1>2, FwftEdge
      <3>2. \A k \in 1 .. fwftDepth' :
              t[k] = LET j == IF rd THEN k + 1 ELSE k
                     IN  IF j = fwftDepth + 1 THEN din ELSE s[j]
        BY <1>2, FwftEdge
      <3> HIDE DEF s, t, E
      <3>3. QED
        BY <2>2, <2>3, <3>1, <3>2
    <2>5. (wr => rd \/ fwftDepth # MaxDepth) /\ (rd => wr \/ fwftDepth # 0)
      BY <1>2 DEF Fwft!Clock, Fwft!Legal
    <2>6. fwftDepth \in Nat /\ fwftDepth <= MaxDepth /\ MaxDepth \in Nat /\ din \in E
      BY <1>2, FwftAssumption DEF FwftInv
    <2>7. fwftTaken' = IF rd /\ Len(s) # 0 THEN s[1] ELSE Empty
      <3>1. fwftTaken' = IF rd /\ fwftDepth # 0 THEN dout ELSE Empty
        BY <1>2 DEF Fwft!Clock
      <3>2. fwftDepth # 0 => s[1] = dout
        BY <1>2, <2>6, FwftContents
      <3> HIDE DEF s
      <3>3. QED
        BY <2>2, <3>1, <3>2
    <2> HIDE DEF s, t, E
    <2>10. AsEdge(s, t, din, MaxDepth, Empty, rd)
      <3>1. Shifted(s, t, din, wr, rd)
        BY <2>4 DEF Shifted
      <3>2. /\ Len(s) <= MaxDepth
            /\ wr => rd \/ Len(s) # MaxDepth
            /\ rd => wr \/ Len(s) # 0
        BY <2>2, <2>5, <2>6
      <3>3. QED
        BY <2>2, <2>3, <2>6, <3>1, <3>2, OneChannelEdge
    <2>8. PICK w, r \in {0, 1} :
             /\ w # 0 => Len(s) < MaxDepth \/ r = w
             /\ r # 0 => s # <<>> \/ r = w
             /\ t = LET u == IF 1 = w THEN Append(s, din) ELSE s
                    IN  IF 1 = r THEN Tail(u) ELSE u
             /\ (IF r = 0 \/ s = <<>> THEN Empty
                 ELSE Head(IF r = w THEN Append(s, din) ELSE s))
                = (IF rd /\ Len(s) # 0 THEN s[1] ELSE Empty)
      BY <2>10 DEF AsEdge
    <2>9. Fwft!Abstract!Edge(w, din, r)
      BY <2>7, <2>8 DEF Fwft!Abstract!Edge, Fwft!Abstract!Pushed, s, t
    <2>12. QED
      BY <2>1, <2>8, <2>9 DEF Fwft!Abstract!Next
  <1>3. ASSUME FwftInv, UNCHANGED Fwft!vars
        PROVE  FwftInv' /\ UNCHANGED <<[c \in {1} |-> Fwft!Contents], fwftTaken>>
    BY <1>3 DEF FwftInv, Fwft!vars, Fwft!Contents
  <1>4. QED
    BY <1>1, <1>2, <1>3, Zenon DEF Fwft!Next

-----------------------------------------------------------------------------
(* fwft_fifo_bram.                                                         *)

\* Place x of a ring of n places, when x is less than once round too large.
Round(x, n) == IF x < n THEN x ELSE x - n

LEMMA RoundIsModulo ==
    ASSUME NEW n \in Nat \ {0}, NEW x \in Nat, x < 2 * n
    PROVE  x % n = Round(x, n) /\ Round(x, n) \in 0 .. n - 1
  BY DEF Round

\* depth counts the entry on the output and those in the RAM, which are the
\* words from the read pointer to the write pointer; valid says that there is
\* an entry, and the RAM's answer is only awaited when it holds one.
BramInv ==
    /\ bramDepth \in 0 .. MaxDepth
    /\ outValid \in BOOLEAN /\ (outValid <=> bramDepth # 0)
    /\ bramOutIsValid \in BOOLEAN /\ (bramOutIsValid => bramDepth # 0)
    /\ ramDepth = IF bramDepth = 0 THEN 0 ELSE bramDepth - 1
    /\ bramRdPtr \in 0 .. MaxDepth - 1
    /\ bramWrPtr = Round(bramRdPtr + ramDepth, MaxDepth)
    /\ bramRam \in [0 .. MaxDepth - 1 -> Data \cup {Empty}]
    /\ bramDout \in Data \cup {Empty} /\ outReg \in Data \cup {Empty}

\* The entry on the output, or the one in the RAM, that is number k.
BramEntry(k) ==
    IF k = 1 THEN Bram!Dout ELSE bramRam[Round(bramRdPtr + k - 2, MaxDepth)]

\* Words of the RAM are addressed within it.
LEMMA BramPlace ==
    ASSUME NEW n \in Nat, n <= MaxDepth, NEW p \in 0 .. MaxDepth - 1
    PROVE  \A k \in 1 .. n : k # 1 =>
             /\ (p + k - 2) % MaxDepth = Round(p + k - 2, MaxDepth)
             /\ Round(p + k - 2, MaxDepth) \in 0 .. MaxDepth - 1
  <1>1. ASSUME NEW k \in 1 .. n, k # 1
        PROVE  /\ (p + k - 2) % MaxDepth = Round(p + k - 2, MaxDepth)
               /\ Round(p + k - 2, MaxDepth) \in 0 .. MaxDepth - 1
    <2>1. p + k - 2 \in Nat /\ p + k - 2 < 2 * MaxDepth
      BY <1>1, FwftAssumption
    <2>2. QED
      BY <2>1, RoundIsModulo, FwftAssumption
  <1>2. QED
    BY <1>1

\* Contents is a sequence of the entries.
LEMMA BramContents ==
    ASSUME BramInv
    PROVE  /\ Bram!Contents \in Seq(Data \cup {Empty})
           /\ Len(Bram!Contents) = bramDepth
           /\ \A k \in 1 .. bramDepth : Bram!Contents[k] = BramEntry(k)
  <1> DEFINE E == Data \cup {Empty}
             q == Bram!Contents
  <1>1. /\ bramDepth \in Nat /\ bramDepth <= MaxDepth /\ bramRdPtr \in 0 .. MaxDepth - 1
        /\ Bram!Dout \in E /\ bramRam \in [0 .. MaxDepth - 1 -> E]
    BY FwftAssumption DEF BramInv, Bram!Dout
  <1>2. q = [k \in 1 .. bramDepth |->
               IF k = 1 THEN Bram!Dout ELSE bramRam[(bramRdPtr + k - 2) % MaxDepth]]
    BY DEF Bram!Contents
  <1> HIDE DEF q, E
  <1>3. \A k \in 1 .. bramDepth : q[k] = BramEntry(k) /\ q[k] \in E
    BY <1>1, <1>2, BramPlace DEF BramEntry
  <1>4. q \in [1 .. bramDepth -> E]
    BY <1>2, <1>3
  <1>5. q \in Seq(E) /\ Len(q) = bramDepth
    BY <1>1, <1>4, QueueOf
  <1>6. QED
    BY <1>3, <1>5 DEF q, E

\* An edge keeps the invariant; it writes the queue, reads it, does both or
\* neither.
LEMMA BramEdge ==
    ASSUME BramInv, NEW wr \in BOOLEAN, NEW rd \in BOOLEAN, NEW din \in Data,
           Bram!Clock(wr, din, rd)
    PROVE  /\ BramInv'
           /\ bramDepth' = bramDepth + (IF wr THEN 1 ELSE 0) - (IF rd THEN 1 ELSE 0)
           /\ \A k \in 1 .. bramDepth' :
                BramEntry(k)' = LET j == IF rd THEN k + 1 ELSE k
                                IN  IF j = bramDepth + 1 THEN din ELSE BramEntry(j)
  <1> DEFINE n == bramDepth
             p == bramRdPtr
             D == MaxDepth
             E == Data \cup {Empty}
             pass == wr /\ (n = 0 \/ (n = 1 /\ rd))
             pop  == rd /\ n >= 2
             push == wr /\ ~pass
  <1>1. /\ n \in Nat /\ n <= D /\ p \in Nat /\ p < D /\ D \in Nat /\ D >= 2
        /\ wr => rd \/ n # D
        /\ rd => wr \/ n # 0
    BY FwftAssumption, BramAssumption DEF BramInv, Bram!Clock, Bram!Legal
  <1>2. /\ Bram!PassDinToOutReg(wr, rd) <=> pass
        /\ Bram!BramRdEn(rd) <=> pop
    BY <1>1 DEF BramInv, Bram!PassDinToOutReg, Bram!BramRdEn
  <1>3. n' = n + (IF wr THEN 1 ELSE 0) - (IF rd THEN 1 ELSE 0)
    BY DEF Bram!Clock, Bram!DepthNext
  <1>4. ramDepth' = ramDepth + (IF push THEN 1 ELSE 0) - (IF pop THEN 1 ELSE 0)
    BY <1>2 DEF Bram!Clock, Bram!BramFifo, Bram!DepthNext
  <1>5. p' = IF pop THEN Round(p + 1, D) ELSE p
    BY <1>1, <1>2 DEF Bram!Clock, Bram!BramFifo, Bram!PtrNext, Round
  <1>6. bramWrPtr' = IF push THEN IF bramWrPtr = D - 1 THEN 0 ELSE bramWrPtr + 1
                     ELSE bramWrPtr
    BY <1>2 DEF Bram!Clock, Bram!BramFifo, Bram!PtrNext
  <1>7. /\ ramDepth = (IF n = 0 THEN 0 ELSE n - 1)
        /\ bramWrPtr = Round(p + ramDepth, D)
        /\ bramWrPtr \in Nat /\ bramWrPtr < D
    BY <1>1 DEF BramInv, Round
  <1>8. /\ bramRam' \in [0 .. D - 1 -> E]
        /\ \A a \in 0 .. D - 1 :
             bramRam'[a] = IF push /\ a = bramWrPtr THEN din ELSE bramRam[a]
    <2>1. bramRam' = IF push THEN [bramRam EXCEPT ![bramWrPtr] = din] ELSE bramRam
      BY <1>2 DEF Bram!Clock, Bram!BramFifo
    <2> HIDE DEF push
    <2>2. QED
      BY <2>1, <1>1, <1>7 DEF BramInv
  <1>9. /\ bramDout' = IF pop THEN bramRam[p] ELSE bramDout
        /\ outReg' = IF pass THEN din ELSE IF bramOutIsValid THEN bramDout ELSE outReg
        /\ bramOutIsValid' \in BOOLEAN /\ (bramOutIsValid' <=> pop)
    BY <1>2 DEF Bram!Clock, Bram!BramFifo, Bram!BramRdEn
  <1>10. n' \in 0 .. D /\ ramDepth' = IF n' = 0 THEN 0 ELSE n' - 1
    BY <1>1, <1>3, <1>4, <1>7
  <1>11. p' \in 0 .. D - 1
    BY <1>1, <1>5 DEF Round
  <1>12. bramWrPtr' = Round(p' + ramDepth', D)
    BY <1>1, <1>4, <1>5, <1>6, <1>7 DEF Round
  <1>13. outValid' \in BOOLEAN /\ (outValid' <=> n' # 0)
    <2>1. outValid' = Bram!ValidNext(wr, rd)
      BY DEF Bram!Clock
    <2>2. Bram!DepthNext(n, wr, rd) = n'
      BY DEF Bram!Clock
    <2>3. Bram!ValidNext(wr, rd) = IF n' = 0 THEN FALSE
                                   ELSE IF pass \/ bramOutIsValid THEN TRUE
                                   ELSE IF ramDepth = 0 /\ rd THEN FALSE ELSE outValid
      BY <1>2, <2>2 DEF Bram!ValidNext
    <2>4. /\ outValid \in BOOLEAN /\ (outValid <=> n # 0)
          /\ bramOutIsValid \in BOOLEAN /\ (bramOutIsValid => n # 0)
      BY DEF BramInv
    <2>5. CASE n' = 0
      BY <2>1, <2>3, <2>5
    <2>6. CASE n' # 0 /\ (pass \/ bramOutIsValid)
      BY <2>1, <2>3, <2>6
    <2>7. CASE n' # 0 /\ ~(pass \/ bramOutIsValid)
      <3>1. ~(ramDepth = 0 /\ rd) /\ n # 0
        BY <1>1, <1>3, <1>7, <2>7
      <3>2. outValid' = outValid
        BY <2>1, <2>3, <2>7, <3>1, Zenon
      <3>3. QED
        BY <2>4, <2>7, <3>1, <3>2
    <2>8. QED
      BY <2>5, <2>6, <2>7
  <1>14. bramDout' \in E /\ outReg' \in E
    BY <1>1, <1>9 DEF BramInv
  <1>15. BramInv'
    <2>1. bramOutIsValid' => n' # 0
      BY <1>1, <1>3, <1>9
    <2>2. QED
      BY <2>1, <1>8, <1>9, <1>10, <1>11, <1>12, <1>13, <1>14 DEF BramInv
  <1>16. Bram!Dout' = IF pop THEN bramRam[p] ELSE IF pass THEN din ELSE Bram!Dout
    BY <1>1, <1>9 DEF BramInv, Bram!Dout
  <1>17. ASSUME NEW k \in 1 .. n'
         PROVE  BramEntry(k)' = LET j == IF rd THEN k + 1 ELSE k
                                IN  IF j = n + 1 THEN din ELSE BramEntry(j)
    <2>1. CASE k = 1
      <3>1. n >= 2 => BramEntry(2) = bramRam[p]
        BY <1>1 DEF BramEntry, Round
      <3>2. BramEntry(1) = Bram!Dout /\ BramEntry(k)' = Bram!Dout'
        BY <2>1 DEF BramEntry
      <3>3. QED
        BY <1>1, <1>3, <1>16, <2>1, <3>1, <3>2
    <2>2. CASE k # 1
      <3> DEFINE j == IF rd THEN k + 1 ELSE k
                 a == Round(p + j - 2, D)
      <3>1. k >= 2 /\ k <= n' /\ k \in Nat
        BY <1>3, <1>1, <2>2
      <3>2. /\ Round(p' + k - 2, D) = a /\ a \in 0 .. D - 1
            /\ j = n + 1 => push /\ a = bramWrPtr
            /\ j # n + 1 => a # bramWrPtr /\ j >= 2
        BY <1>1, <1>3, <1>5, <1>7, <3>1 DEF Round
      <3>3. BramEntry(k)' = bramRam'[a]
        BY <2>2, <3>2 DEF BramEntry
      <3>4. j >= 2 => BramEntry(j) = bramRam[a]
        BY DEF BramEntry
      <3> HIDE DEF j, a, push
      <3>5. QED
        BY <1>8, <3>2, <3>3, <3>4 DEF j
    <2>3. QED
      BY <2>1, <2>2
  <1>18. QED
    BY <1>3, <1>15, <1>17

\* fwft_fifo_bram starts as an empty FIFO, and each of its edges is one of a
\* FIFO.
LEMMA BramSimulation ==
    /\ Bram!Init => BramInv /\ Bram!Abstract!Init
    /\ BramInv /\ [Bram!Next]_(Bram!vars)
         => BramInv' /\ [Bram!Abstract!Next]_<<[c \in {1} |-> Bram!Contents], bramTaken>>
  <1>1. ASSUME Bram!Init PROVE BramInv /\ Bram!Abstract!Init
    <2>1. BramInv
      <3>1. /\ bramDepth = 0 /\ ramDepth = 0 /\ bramRdPtr = 0 /\ bramWrPtr = 0
            /\ outValid = FALSE /\ bramOutIsValid = FALSE
            /\ bramDout = Empty /\ outReg = Empty
            /\ bramRam \in [0 .. MaxDepth - 1 -> Data \cup {Empty}]
        BY <1>1 DEF Bram!Init
      <3>2. Round(0, MaxDepth) = 0 /\ 0 \in 0 .. MaxDepth /\ 0 \in 0 .. MaxDepth - 1
        BY FwftAssumption DEF Round
      <3>3. bramRdPtr + ramDepth = 0
        BY <3>1
      <3>4. QED
        BY <3>1, <3>2, <3>3 DEF BramInv
    <2>2. Bram!Contents = <<>>
      BY <1>1, <2>1, BramContents, EmptySeq DEF Bram!Init
    <2>3. QED
      BY <1>1, <2>1, <2>2 DEF Bram!Init, Bram!Abstract!Init
  <1>2. ASSUME BramInv, NEW wr \in BOOLEAN, NEW rd \in BOOLEAN, NEW din \in Data,
               Bram!Clock(wr, din, rd)
        PROVE  BramInv' /\ Bram!Abstract!Next
    <2> DEFINE s == Bram!Contents
               t == Bram!Contents'
               E == Data \cup {Empty}
    <2>1. BramInv'
      BY <1>2, BramEdge
    <2>2. s \in Seq(E) /\ Len(s) = bramDepth /\ \A k \in 1 .. bramDepth : s[k] = BramEntry(k)
      BY <1>2, BramContents
    <2>3. /\ t \in Seq(E) /\ Len(t) = bramDepth'
          /\ \A k \in 1 .. bramDepth' : t[k] = BramEntry(k)'
      <3>1. /\ bramDepth' \in Nat /\ bramDepth' <= MaxDepth /\ Bram!Dout' \in E
            /\ bramRdPtr' \in 0 .. MaxDepth - 1
            /\ bramRam' \in [0 .. MaxDepth - 1 -> E]
        BY <2>1, FwftAssumption DEF BramInv, Bram!Dout
      <3>2. t = [k \in 1 .. bramDepth' |->
                   IF k = 1 THEN Bram!Dout' ELSE bramRam'[(bramRdPtr' + k - 2) % MaxDepth]]
        BY DEF Bram!Contents
      <3> HIDE DEF t, E
      <3>3. \A k \in 1 .. bramDepth' : t[k] = BramEntry(k)' /\ t[k] \in E
        BY <3>1, <3>2, BramPlace DEF BramEntry
      <3>4. t \in [1 .. bramDepth' -> E]
        BY <3>2, <3>3
      <3>5. QED
        BY <3>1, <3>3, <3>4, QueueOf
    <2>4. /\ Len(t) = Len(s) + (IF wr THEN 1 ELSE 0) - (IF rd THEN 1 ELSE 0)
          /\ \A k \in 1 .. Len(t) :
               t[k] = LET j == IF rd THEN k + 1 ELSE k
                      IN  IF j = Len(s) + 1 THEN din ELSE s[j]
      <3>1. /\ bramDepth' = bramDepth + (IF wr THEN 1 ELSE 0) - (IF rd THEN 1 ELSE 0)
            /\ \A k \in 1 .. bramDepth' :
                 BramEntry(k)' = LET j == IF rd THEN k + 1 ELSE k
                                 IN  IF j = bramDepth + 1 THEN din ELSE BramEntry(j)
        BY <1>2, BramEdge
      <3>2. bramDepth \in Nat
        BY <1>2, FwftAssumption DEF BramInv
      <3> HIDE DEF s, t
      <3>3. QED
        BY <2>2, <2>3, <3>1, <3>2
    <2>5. (wr => rd \/ bramDepth # MaxDepth) /\ (rd => wr \/ bramDepth # 0)
      BY <1>2 DEF Bram!Clock, Bram!Legal
    <2>6. bramDepth \in Nat /\ bramDepth <= MaxDepth /\ MaxDepth \in Nat /\ din \in E
      BY <1>2, FwftAssumption DEF BramInv
    <2>7. bramTaken' = IF rd /\ Len(s) # 0 THEN s[1] ELSE Empty
      <3>1. bramTaken' = IF rd /\ bramDepth # 0 THEN Bram!Dout ELSE Empty
        BY <1>2 DEF Bram!Clock
      <3>2. bramDepth # 0 => s[1] = Bram!Dout
        <4> HIDE DEF s
        <4>1. QED
          BY <2>2, <2>6 DEF BramEntry
      <3> HIDE DEF s
      <3>3. QED
        BY <2>2, <3>1, <3>2
    <2> HIDE DEF s, t, E
    <2>10. AsEdge(s, t, din, MaxDepth, Empty, rd)
      <3>1. Shifted(s, t, din, wr, rd)
        BY <2>4 DEF Shifted
      <3>2. /\ Len(s) <= MaxDepth
            /\ wr => rd \/ Len(s) # MaxDepth
            /\ rd => wr \/ Len(s) # 0
        BY <2>2, <2>5, <2>6
      <3>3. QED
        BY <2>2, <2>3, <2>6, <3>1, <3>2, OneChannelEdge
    <2>8. PICK w, r \in {0, 1} :
             /\ w # 0 => Len(s) < MaxDepth \/ r = w
             /\ r # 0 => s # <<>> \/ r = w
             /\ t = LET u == IF 1 = w THEN Append(s, din) ELSE s
                    IN  IF 1 = r THEN Tail(u) ELSE u
             /\ (IF r = 0 \/ s = <<>> THEN Empty
                 ELSE Head(IF r = w THEN Append(s, din) ELSE s))
                = (IF rd /\ Len(s) # 0 THEN s[1] ELSE Empty)
      BY <2>10 DEF AsEdge
    <2>9. Bram!Abstract!Edge(w, din, r)
      BY <2>7, <2>8 DEF Bram!Abstract!Edge, Bram!Abstract!Pushed, s, t
    <2>12. QED
      BY <2>1, <2>8, <2>9 DEF Bram!Abstract!Next
  <1>3. ASSUME BramInv, UNCHANGED Bram!vars
        PROVE  BramInv' /\ UNCHANGED <<[c \in {1} |-> Bram!Contents], bramTaken>>
    BY <1>3 DEF BramInv, Bram!vars, Bram!Contents, Bram!Dout
  <1>4. QED
    BY <1>1, <1>2, <1>3, Zenon DEF Bram!Next

-----------------------------------------------------------------------------
(* Both first-word-fall-through FIFOs.                                     *)

\* Both first-word-fall-through FIFOs of flit_buffer.sv are FIFOs of any depth:
\* no entry is lost, repeated or overtaken, whatever is written and read at
\* once, while the RAM's answer is due, full or empty.
THEOREM FwftFifosImplementFifo == MCSpec => FwftFifosAreFifos
  <1>1. MCInit => Fwft!Init /\ Bram!Init
    BY DEF MCInit
  <1>2. [MCNext]_<<part, vars, fifoVars>>
          => [Fwft!Next]_(Fwft!vars) /\ [Bram!Next]_(Bram!vars)
    BY Zenon DEF MCNext, FifoClock, fifoVars, Fwft!Next, Fwft!vars, Bram!Next, Bram!vars
  <1>3. Fwft!Spec => Fwft!ImplementsFifo
    BY FwftSimulation, PTL DEF Fwft!Spec, Fwft!ImplementsFifo, Fwft!Abstract!Spec
  <1>4. Bram!Spec => Bram!ImplementsFifo
    BY BramSimulation, PTL DEF Bram!Spec, Bram!ImplementsFifo, Bram!Abstract!Spec
  <1>5. QED
    BY <1>1, <1>2, <1>3, <1>4, PTL
       DEF MCSpec, Fwft!Spec, Bram!Spec, FwftFifosAreFifos

-----------------------------------------------------------------------------
(* flit_buffer.                                                            *)

Entries == Flit \cup {Empty}

\* The RAM word of VC v at place a of its words.
Word(v, a) == B * v + a

\* The place of the oldest flit of VC v.
ReadPlace(v) == Place(v, rdPtr[v])

\* The words that hold flits are those from the read pointer to the write
\* pointer, and the tail flags of these words are those of their flits.
FlitInv ==
    /\ depth \in [Vc -> 0 .. B]
    /\ \A v \in Vc :
         /\ ReadPlace(v) \in 0 .. B - 1 /\ rdPtr[v] = First(v) + ReadPlace(v)
         /\ wrPtr[v] = First(v) + Round(ReadPlace(v) + depth[v], B)
         /\ \A k \in 1 .. depth[v] :
              LET a == Round(ReadPlace(v) + k - 1, B)
              IN  tailFifo[v][a] <=> ram[Word(v, a)] \in Tl
    /\ rdPtr \in [Vc -> Int] /\ wrPtr \in [Vc -> Int]
    /\ ram \in [0 .. V * B - 1 -> Entries]
    /\ tailFifo \in [Vc -> [0 .. B - 1 -> BOOLEAN]]
    /\ ramOut \in Entries /\ bypassReg \in Entries
    /\ rdEnDelayed \in BOOLEAN /\ valid \in BOOLEAN

\* The words of the VCs are within the RAM and do not overlap.
LEMMA WordsApart ==
    ASSUME NEW v \in Vc, NEW a \in 0 .. B - 1
    PROVE  /\ Word(v, a) \in 0 .. V * B - 1
           /\ \A u \in Vc, b \in 0 .. B - 1 : Word(v, a) = Word(u, b) => v = u /\ a = b
  <1>1. V \in Nat /\ B \in Nat /\ B >= 1 /\ v \in Nat /\ v <= V - 1
    BY FlitBufferAssumption DEF Vc
  <1>2. B * v \in Nat /\ B * v + B <= V * B
    <2>1. B * v \in Nat /\ B * (v + 1) = B * v + B /\ V * B = B * V
      BY <1>1
    <2>2. B * (v + 1) <= B * V
      BY <1>1
    <2>3. QED
      BY <2>1, <2>2
  <1>3. Word(v, a) \in 0 .. V * B - 1
    <2> DEFINE x == B * v
               y == V * B
    <2>1. x \in Nat /\ x + B <= y /\ y \in Nat
      BY <1>1, <1>2
    <2> HIDE DEF x, y
    <2>2. x + a \in 0 .. y - 1
      BY <1>1, <2>1
    <2>3. QED
      BY <2>2 DEF x, y, Word
  <1>4. ASSUME NEW u \in Vc, NEW b \in 0 .. B - 1, Word(v, a) = Word(u, b)
        PROVE  v = u /\ a = b
    <2>1. u \in Nat /\ B * u \in Nat /\ B * v + a = B * u + b
      BY <1>1, <1>4 DEF Vc, Word
    <2>2. ~(v < u)
      <3>1. SUFFICES ASSUME v < u PROVE FALSE
        OBVIOUS
      <3>2. B * (v + 1) <= B * u /\ B * (v + 1) = B * v + B
        BY <1>1, <2>1, <3>1
      <3>3. QED
        BY <1>1, <1>2, <2>1, <3>2
    <2>3. ~(u < v)
      <3>1. SUFFICES ASSUME u < v PROVE FALSE
        OBVIOUS
      <3>2. B * (u + 1) <= B * v /\ B * (u + 1) = B * u + B
        BY <1>1, <2>1, <3>1
      <3>3. QED
        BY <1>1, <1>2, <2>1, <3>2
    <2>4. v = u
      BY <1>1, <2>1, <2>2, <2>3
    <2>5. QED
      BY <2>1, <2>4, <1>2
  <1>5. QED
    BY <1>3, <1>4

\* Both pointer schemes are a place that goes round the words of the VC.
LEMMA PointerPlace ==
    ASSUME NEW v \in Vc, NEW a \in 0 .. B - 1, NEW p, p = First(v) + a
    PROVE  /\ Place(v, p) = a /\ Addr(v, p) = Word(v, a) /\ p \in 0 .. V * B - 1
           /\ PtrNext(v, p) = First(v) + Round(a + 1, B)
           /\ Place(v, PtrNext(v, p)) = Round(a + 1, B)
           /\ Round(a + 1, B) \in 0 .. B - 1 /\ PtrNext(v, p) \in Int
  <1>1. V \in Nat /\ V >= 1 /\ B \in Nat /\ B >= 1 /\ v \in Nat /\ PowerOf2 \in BOOLEAN
    BY FlitBufferAssumption DEF Vc
  <1> DEFINE x == B * v
  <1>2. x \in Nat /\ x + a \in 0 .. V * B - 1
    <2>1. x \in Nat
      BY <1>1
    <2>2. QED
      BY <2>1, WordsApart DEF Word
  <1>3. B * (v + 1) = x + B
    BY <1>1
  <1> HIDE DEF x
  <1>4. Round(a + 1, B) = (IF a = B - 1 THEN 0 ELSE a + 1) /\ Round(a + 1, B) \in 0 .. B - 1
    BY <1>1 DEF Round
  <1>5. CASE PowerOf2
    <2>1. First(v) = 0 /\ p = a
      BY <1>5, <1>1 DEF First
    <2>2. p \in 0 .. V * B - 1
      <3>1. B <= V * B /\ V * B \in Nat
        BY <1>1
      <3>2. QED
        BY <1>1, <2>1, <3>1
    <2>3. (a + 1) % B = Round(a + 1, B)
      BY <1>1, RoundIsModulo
    <2>4. QED
      BY <1>1, <1>4, <1>5, <2>1, <2>2, <2>3 DEF Place, Addr, Word, PtrNext
  <1>6. CASE ~PowerOf2
    <2>1. First(v) = x /\ p = x + a
      BY <1>6 DEF First, x
    <2>2. Place(v, p) = a /\ Addr(v, p) = Word(v, a)
      BY <1>2, <1>6, <2>1 DEF Place, Addr, Word, x
    <2>3. PtrNext(v, p) = x + Round(a + 1, B)
      <3>1. PtrNext(v, p) = IF p = x + B - 1 THEN x ELSE p + 1
        <4> DEFINE y == B * (v + 1)
        <4>1. PtrNext(v, p) = IF p = y - 1 THEN x ELSE p + 1
          BY <1>6 DEF PtrNext, x
        <4>2. y = x + B
          BY <1>3
        <4> HIDE DEF y
        <4>3. QED
          BY <1>1, <1>2, <4>1, <4>2
      <3>2. QED
        BY <1>1, <1>2, <1>4, <2>1, <3>1
    <2>4. QED
      BY <1>1, <1>2, <1>4, <2>1, <2>2, <2>3 DEF Place
  <1>7. QED
    BY <1>1, <1>5, <1>6

\* Entry k of VC v.
FlitEntry(v, k) == ram[Word(v, Round(ReadPlace(v) + k - 1, B))]

\* Its place is one of the places of the VC.
LEMMA FlitPlace ==
    ASSUME NEW n \in Nat, n <= B, NEW p \in 0 .. B - 1
    PROVE  \A k \in 1 .. n : /\ (p + k - 1) % B = Round(p + k - 1, B)
                             /\ Round(p + k - 1, B) \in 0 .. B - 1
  <1>1. ASSUME NEW k \in 1 .. n
        PROVE  /\ (p + k - 1) % B = Round(p + k - 1, B)
               /\ Round(p + k - 1, B) \in 0 .. B - 1
    <2>1. p + k - 1 \in Nat /\ p + k - 1 < 2 * B
      BY <1>1, FlitBufferAssumption
    <2>2. QED
      BY <2>1, RoundIsModulo, FlitBufferAssumption
  <1>2. QED
    BY <1>1

\* The n words of VC v in the RAM m from place p on, as in Contents.
WordsFrom(v, n, p, m) == [k \in 1 .. n |-> m[B * v + ((p + k - 1) % B)]]

\* They are a sequence.
LEMMA EntriesOfPlaces ==
    ASSUME NEW v \in Vc, NEW n \in 0 .. B, NEW p \in 0 .. B - 1,
           NEW m \in [0 .. V * B - 1 -> Entries]
    PROVE  LET c == WordsFrom(v, n, p, m) IN
           /\ c \in Seq(Entries) /\ Len(c) = n
           /\ \A k \in 1 .. n : c[k] = m[Word(v, Round(p + k - 1, B))]
  <1> DEFINE c == WordsFrom(v, n, p, m)
  <1>1. n \in Nat /\ n <= B
    BY FlitBufferAssumption
  <1>2. \A k \in 1 .. n : /\ (p + k - 1) % B = Round(p + k - 1, B)
                          /\ Word(v, Round(p + k - 1, B)) \in 0 .. V * B - 1
    BY <1>1, FlitPlace, WordsApart
  <1>3. \A k \in 1 .. n : c[k] = m[Word(v, Round(p + k - 1, B))]
    <2> TAKE k \in 1 .. n
    <2>1. c[k] = m[B * v + ((p + k - 1) % B)]
      BY DEF WordsFrom
    <2>2. B * v + ((p + k - 1) % B) = Word(v, Round(p + k - 1, B))
      BY <1>2, Zenon DEF Word
    <2>3. QED
      BY <2>1, <2>2, Zenon
  <1>4. \A k \in 1 .. n : c[k] \in Entries
    BY <1>2, <1>3
  <1>5. c \in [1 .. n -> Entries]
    BY <1>4 DEF WordsFrom
  <1>6. QED
    BY <1>1, <1>3, <1>5, QueueOf

\* The ring of VC v has n flits from place x on, and m from place q on after an
\* edge that writes VC w and reads VC rd.
RingEdge(x, n, v, w, rd, q, m) ==
    /\ x \in Nat /\ x < B /\ n \in Nat /\ n <= B /\ m \in Nat
    /\ v = w => n < B \/ v = rd
    /\ v = rd => v = w \/ n > 0
    /\ q = IF v = rd THEN Round(x + 1, B) ELSE x
    /\ m = n + (IF v = w THEN 1 ELSE 0) - (IF v = rd THEN 1 ELSE 0)

\* Then the place after its flits has moved on if it was written, and its flits
\* are where they were, the new one at the place written.
LEMMA RingAfterEdge ==
    ASSUME NEW x, NEW n, NEW v, NEW w, NEW rd, NEW q, NEW m,
           RingEdge(x, n, v, w, rd, q, m)
    PROVE  /\ Round(q + m, B) = IF v = w THEN Round(Round(x + n, B) + 1, B)
                                ELSE Round(x + n, B)
           /\ \A k \in 1 .. m :
                LET j == IF v = rd THEN k + 1 ELSE k
                    a == Round(q + k - 1, B)
                IN  /\ a \in 0 .. B - 1 /\ a = Round(x + j - 1, B)
                    /\ j = n + 1 => v = w
                    /\ v = w => (a = Round(x + n, B) <=> j = n + 1)
                    /\ j # n + 1 => j \in 1 .. n
  <1>1. B \in Nat /\ B >= 1
    BY FlitBufferAssumption
  <1>2. CASE v = w /\ v = rd
    BY <1>1, <1>2 DEF Round, RingEdge
  <1>3. CASE v = w /\ v # rd
    BY <1>1, <1>3 DEF Round, RingEdge
  <1>4. CASE v # w /\ v = rd
    BY <1>1, <1>4 DEF Round, RingEdge
  <1>5. CASE v # w /\ v # rd
    BY <1>1, <1>5 DEF Round, RingEdge
  <1>6. QED
    BY <1>2, <1>3, <1>4, <1>5

\* The VC that is read, by the allocators or by the straight allocator.
IsRead(rd, r, s) == rd = IF r # NoVc THEN r ELSE s

\* An edge keeps the invariant; it writes the queue of VC w, reads that of VC
\* rd and leaves the others alone, although all are in one RAM.
LEMMA FlitEdge ==
    ASSUME FlitInv, NEW w \in Vc \cup {NoVc}, NEW r \in Vc \cup {NoVc},
           NEW s \in Vc \cup {NoVc}, NEW din \in Flit, Clock(w, din, r, s),
           NEW rd, IsRead(rd, r, s)
    PROVE  /\ FlitInv'
           /\ \A v \in Vc :
                /\ depth[v]' = depth[v] + (IF v = w THEN 1 ELSE 0) - (IF v = rd THEN 1 ELSE 0)
                /\ \A k \in 1 .. depth[v]' :
                     FlitEntry(v, k)' = LET j == IF v = rd THEN k + 1 ELSE k
                                        IN  IF j = depth[v] + 1 THEN din ELSE FlitEntry(v, j)
  <1> DEFINE p(v) == ReadPlace(v)
             n(v) == depth[v]
             e(v) == Round(p(v) + n(v), B)     \* the place that is written
  <1>1. /\ B \in Nat /\ B >= 1 /\ NoVc \notin Vc /\ rd \in Vc \cup {NoVc}
        /\ w # NoVc => depth[w] < B \/ rd = w
        /\ \A v \in Vc : v = rd => v = w \/ depth[v] > 0
    BY FlitBufferAssumption DEF Clock, VcNotEmpty, Vc, NoVc, IsRead
  <1>2. \A v \in Vc : /\ n(v) \in Nat /\ n(v) <= B /\ p(v) \in Nat /\ p(v) < B
                      /\ rdPtr[v] = First(v) + p(v) /\ wrPtr[v] = First(v) + e(v)
    BY <1>1 DEF FlitInv
  <1>3. \A v \in Vc : e(v) \in Nat /\ e(v) < B
    <2> HIDE DEF p, n
    <2>1. QED
      BY <1>1, <1>2 DEF Round
  <1> HIDE DEF p, n, e
  <1>4. \A v \in Vc :
          /\ Place(v, rdPtr[v]) = p(v) /\ Addr(v, rdPtr[v]) = Word(v, p(v))
          /\ PtrNext(v, rdPtr[v]) = First(v) + Round(p(v) + 1, B)
          /\ Place(v, PtrNext(v, rdPtr[v])) = Round(p(v) + 1, B)
          /\ PtrNext(v, rdPtr[v]) \in Int
    <2> TAKE v \in Vc
    <2>1. p(v) \in 0 .. B - 1
      BY <1>1, <1>2
    <2>2. QED
      BY <1>2, <2>1, PointerPlace
  <1>5. \A v \in Vc :
          /\ Place(v, wrPtr[v]) = e(v) /\ Addr(v, wrPtr[v]) = Word(v, e(v))
          /\ PtrNext(v, wrPtr[v]) = First(v) + Round(e(v) + 1, B)
          /\ PtrNext(v, wrPtr[v]) \in Int
    <2> TAKE v \in Vc
    <2>1. e(v) \in 0 .. B - 1
      BY <1>1, <1>3
    <2>2. QED
      BY <1>2, <2>1, PointerPlace
  <1>6. /\ depth' \in [Vc -> Int]
        /\ \A v \in Vc : depth'[v] = n(v) + (IF v = w THEN 1 ELSE 0)
                                           - (IF v = rd THEN 1 ELSE 0)
    <2>1. depth' = [v \in Vc |-> DepthNext(v, w, rd)]
      BY DEF Clock, IsRead
    <2>2. \A v \in Vc : DepthNext(v, w, rd) = n(v) + (IF v = w THEN 1 ELSE 0)
                                                   - (IF v = rd THEN 1 ELSE 0)
      BY <1>2 DEF DepthNext, n
    <2>3. QED
      BY <1>2, <2>1, <2>2
  <1>7. depth' \in [Vc -> 0 .. B]
    <2>1. ASSUME NEW v \in Vc PROVE depth'[v] \in 0 .. B
      <3>1. v = w => n(v) < B \/ v = rd
        BY <1>1 DEF n
      <3>2. v = rd => v = w \/ n(v) > 0
        BY <1>1 DEF n
      <3>3. QED
        BY <1>1, <1>2, <1>6, <3>1, <3>2
    <2>2. QED
      BY <1>6, <2>1
  <1>8. /\ rdPtr' \in [Vc -> Int] /\ wrPtr' \in [Vc -> Int]
        /\ \A v \in Vc :
             /\ rdPtr'[v] = IF v = rd THEN First(v) + Round(p(v) + 1, B) ELSE rdPtr[v]
             /\ wrPtr'[v] = IF v = w THEN First(v) + Round(e(v) + 1, B) ELSE wrPtr[v]
    <2>1. /\ rdPtr' = [v \in Vc |-> IF v = rd THEN PtrNext(v, rdPtr[v]) ELSE rdPtr[v]]
          /\ wrPtr' = [v \in Vc |-> IF v = w THEN PtrNext(v, wrPtr[v]) ELSE wrPtr[v]]
      BY DEF Clock, IsRead
    <2>2. rdPtr \in [Vc -> Int] /\ wrPtr \in [Vc -> Int]
      BY DEF FlitInv
    <2>3. QED
      BY <1>4, <1>5, <2>1, <2>2
  <1>9. \A v \in Vc : /\ p(v)' = IF v = rd THEN Round(p(v) + 1, B) ELSE p(v)
                      /\ p(v)' \in Nat /\ p(v)' < B
    <2> TAKE v \in Vc
    <2>1. p(v)' = Place(v, rdPtr'[v])
      BY DEF p, ReadPlace
    <2>2. rdPtr'[v] = IF v = rd THEN PtrNext(v, rdPtr[v]) ELSE rdPtr[v]
      BY <1>4, <1>8
    <2>3. p(v)' = IF v = rd THEN Round(p(v) + 1, B) ELSE p(v)
      BY <1>4, <2>1, <2>2
    <2>4. QED
      BY <1>1, <1>2, <2>3 DEF Round
  <1>10. \A v \in Vc : wrPtr'[v] = First(v) + Round(p(v)' + depth'[v], B)
    <2> TAKE v \in Vc
    <2> DEFINE q == p(v)'
               m == depth'[v]
               f == First(v)
    <2>1. q = IF v = rd THEN Round(p(v) + 1, B) ELSE p(v)
      BY <1>9
    <2>2. m = n(v) + (IF v = w THEN 1 ELSE 0) - (IF v = rd THEN 1 ELSE 0)
      BY <1>6
    <2>3. wrPtr'[v] = IF v = w THEN f + Round(e(v) + 1, B) ELSE f + e(v)
      BY <1>2, <1>8
    <2>4. (v = w => n(v) < B \/ v = rd) /\ (v = rd => v = w \/ n(v) > 0)
      BY <1>1 DEF n
    <2> HIDE DEF q, m, f
    <2>5. Round(q + m, B) = IF v = w THEN Round(e(v) + 1, B) ELSE e(v)
      <3>1. m \in Nat
        BY <1>2, <2>2, <2>4
      <3>2. RingEdge(p(v), n(v), v, w, rd, q, m)
        BY <1>2, <2>1, <2>2, <2>4, <3>1 DEF RingEdge
      <3>3. Round(q + m, B) = IF v = w THEN Round(Round(p(v) + n(v), B) + 1, B)
                              ELSE Round(p(v) + n(v), B)
        BY <3>2, RingAfterEdge
      <3>4. QED
        BY <3>3 DEF e
    <2>6. wrPtr'[v] = f + Round(q + m, B)
      BY <2>3, <2>5
    <2>7. QED
      BY <2>6 DEF q, m, f
  <1>11. /\ ram' \in [0 .. V * B - 1 -> Entries]
         /\ \A v \in Vc, a \in 0 .. B - 1 :
              ram'[Word(v, a)] = IF v = w /\ a = e(v) THEN din ELSE ram[Word(v, a)]
    <2>1. ram' = IF w = NoVc THEN ram ELSE [ram EXCEPT ![Word(w, e(w))] = din]
      BY <1>5 DEF Clock, RamPorts
    <2>2. ram \in [0 .. V * B - 1 -> Entries] /\ din \in Entries
      BY DEF FlitInv, Entries
    <2>3. ram' \in [0 .. V * B - 1 -> Entries]
      BY <2>1, <2>2
    <2>4. ASSUME NEW v \in Vc, NEW a \in 0 .. B - 1
          PROVE  ram'[Word(v, a)] = IF v = w /\ a = e(v) THEN din ELSE ram[Word(v, a)]
      <3>1. Word(v, a) \in 0 .. V * B - 1
        BY WordsApart
      <3>2. CASE w = NoVc
        BY <1>1, <2>1, <3>2
      <3>3. CASE w # NoVc
        <4>1. e(w) \in 0 .. B - 1
          BY <1>1, <1>3, <3>3
        <4>2. Word(v, a) = Word(w, e(w)) <=> v = w /\ a = e(v)
          BY <3>3, <4>1, WordsApart
        <4>3. QED
          BY <2>1, <2>2, <3>1, <3>3, <4>2
      <3>4. QED
        BY <3>2, <3>3
    <2>5. QED
      BY <2>3, <2>4
  <1>12. /\ tailFifo' \in [Vc -> [0 .. B - 1 -> BOOLEAN]]
         /\ \A v \in Vc, a \in 0 .. B - 1 :
              tailFifo'[v][a] <=> IF v = w /\ a = e(v) THEN din \in Tl ELSE tailFifo[v][a]
    <2>1. tailFifo' = IF w = NoVc THEN tailFifo
                      ELSE [tailFifo EXCEPT ![w][e(w)] = (din \in Tl)]
      BY <1>5 DEF Clock
    <2>2. tailFifo \in [Vc -> [0 .. B - 1 -> BOOLEAN]]
      BY DEF FlitInv
    <2>3. CASE w = NoVc
      BY <1>1, <2>1, <2>2, <2>3
    <2>4. CASE w # NoVc
      <3> DEFINE b == din \in Tl
      <3>1. b \in BOOLEAN
        OBVIOUS
      <3> HIDE DEF b
      <3>2. tailFifo' = [tailFifo EXCEPT ![w][e(w)] = b]
        BY <2>1, <2>4 DEF b
      <3>3. e(w) \in 0 .. B - 1 /\ w \in Vc
        BY <1>1, <1>3, <2>4
      <3>4. /\ tailFifo' \in [Vc -> [0 .. B - 1 -> BOOLEAN]]
            /\ \A v \in Vc, a \in 0 .. B - 1 :
                 tailFifo'[v][a] = IF v = w /\ a = e(v) THEN b ELSE tailFifo[v][a]
        BY <2>2, <3>1, <3>2, <3>3
      <3>5. QED
        BY <3>4 DEF b
    <2>5. QED
      BY <2>3, <2>4
  <1>13. ASSUME NEW v \in Vc, NEW k \in 1 .. depth'[v],
                NEW j, j = IF v = rd THEN k + 1 ELSE k,
                NEW a, a = Round(p(v)' + k - 1, B)
         PROVE  /\ a \in 0 .. B - 1 /\ a = Round(p(v) + j - 1, B)
                /\ v = w /\ a = e(v) <=> j = n(v) + 1
                /\ j # n(v) + 1 => j \in 1 .. n(v)
    <2> DEFINE q == p(v)'
               m == depth'[v]
    <2>1. q = IF v = rd THEN Round(p(v) + 1, B) ELSE p(v)
      BY <1>9
    <2>2. m = n(v) + (IF v = w THEN 1 ELSE 0) - (IF v = rd THEN 1 ELSE 0)
      BY <1>6
    <2>3. m \in Nat /\ m <= B /\ k \in Nat /\ k >= 1 /\ k <= m
      BY <1>1, <1>7
    <2>4. (v = w => n(v) < B \/ v = rd) /\ (v = rd => v = w \/ n(v) > 0)
      BY <1>1 DEF n
    <2>5. a = Round(q + k - 1, B)
      BY <1>13
    <2> HIDE DEF q, m
    <2>6. /\ a \in 0 .. B - 1 /\ a = Round(p(v) + j - 1, B)
          /\ j = n(v) + 1 => v = w
          /\ v = w => (a = e(v) <=> j = n(v) + 1)
          /\ j # n(v) + 1 => j \in 1 .. n(v)
      <3>1. RingEdge(p(v), n(v), v, w, rd, q, m) /\ k \in 1 .. m
        BY <1>2, <2>1, <2>2, <2>3, <2>4 DEF RingEdge
      <3>2. LET l == IF v = rd THEN k + 1 ELSE k
                b == Round(q + k - 1, B)
            IN  /\ b \in 0 .. B - 1 /\ b = Round(p(v) + l - 1, B)
                /\ l = n(v) + 1 => v = w
                /\ v = w => (b = Round(p(v) + n(v), B) <=> l = n(v) + 1)
                /\ l # n(v) + 1 => l \in 1 .. n(v)
        BY <3>1, RingAfterEdge, Zenon
      <3>3. QED
        BY <1>13, <2>5, <3>2 DEF e
    <2>7. QED
      BY <2>6
  <1>14. ASSUME NEW v \in Vc, NEW k \in 1 .. depth'[v],
                NEW j, j = IF v = rd THEN k + 1 ELSE k
         PROVE  /\ FlitEntry(v, k)' = IF j = n(v) + 1 THEN din ELSE FlitEntry(v, j)
                /\ tailFifo'[v][Round(p(v)' + k - 1, B)] <=> FlitEntry(v, k)' \in Tl
    <2> DEFINE a == Round(p(v)' + k - 1, B)
    <2> HIDE DEF a
    <2>1. /\ a \in 0 .. B - 1 /\ a = Round(p(v) + j - 1, B)
          /\ v = w /\ a = e(v) <=> j = n(v) + 1
          /\ j # n(v) + 1 => j \in 1 .. n(v)
      BY <1>13, <1>14 DEF a
    <2>2. FlitEntry(v, k)' = ram'[Word(v, a)] /\ FlitEntry(v, j) = ram[Word(v, a)]
      BY <2>1 DEF FlitEntry, a, p
    <2>3. j \in 1 .. n(v) => (tailFifo[v][a] <=> ram[Word(v, a)] \in Tl)
      <3>1. SUFFICES ASSUME j \in 1 .. depth[v]
                     PROVE  tailFifo[v][Round(ReadPlace(v) + j - 1, B)]
                              <=> ram[Word(v, Round(ReadPlace(v) + j - 1, B))] \in Tl
        BY <2>1 DEF n, p
      <3>2. QED
        BY <3>1 DEF FlitInv
    <2>4. QED
      BY <1>11, <1>12, <2>1, <2>2, <2>3 DEF a
  <1>15. /\ ramOut' \in Entries /\ bypassReg' \in Entries
         /\ rdEnDelayed' \in BOOLEAN /\ valid' \in BOOLEAN
    <2>1. r # NoVc => ram[Addr(r, rdPtr[r])] \in Entries
      <3>1. r # NoVc => p(r) \in 0 .. B - 1 /\ r \in Vc
        BY <1>1, <1>2
      <3>2. QED
        BY <1>4, <3>1, WordsApart DEF FlitInv
    <2>2. QED
      BY <2>1 DEF FlitInv, Clock, RamPorts, BypassPort, Entries
  <1>16. FlitInv'
    <2>1. ASSUME NEW v \in Vc
          PROVE  /\ ReadPlace(v)' \in 0 .. B - 1 /\ rdPtr'[v] = First(v) + ReadPlace(v)'
                 /\ wrPtr'[v] = First(v) + Round(ReadPlace(v)' + depth'[v], B)
                 /\ \A k \in 1 .. depth'[v] :
                      LET a == Round(ReadPlace(v)' + k - 1, B)
                      IN  tailFifo'[v][a] <=> ram'[Word(v, a)] \in Tl
      <3>1. ReadPlace(v)' \in 0 .. B - 1
        BY <1>1, <1>9 DEF p
      <3>2. rdPtr'[v] = First(v) + ReadPlace(v)'
        BY <1>2, <1>8, <1>9 DEF p
      <3>3. wrPtr'[v] = First(v) + Round(ReadPlace(v)' + depth'[v], B)
        BY <1>10 DEF p
      <3>4. \A k \in 1 .. depth'[v] :
                tailFifo'[v][Round(ReadPlace(v)' + k - 1, B)] <=> FlitEntry(v, k)' \in Tl
        BY <1>14 DEF p
      <3>5. QED
        BY <3>1, <3>2, <3>3, <3>4 DEF FlitEntry
    <2>2. QED
      BY <2>1, <1>7, <1>8, <1>11, <1>12, <1>15 DEF FlitInv
  <1>17. QED
    BY <1>6, <1>14, <1>16 DEF n

\* The flit buffer starts as empty FIFOs, and each of its edges is one of a
\* set of FIFOs.
LEMMA FlitSimulation ==
    /\ Init => FlitInv /\ Abstract!Init
    /\ FlitInv /\ [Next]_vars
         => FlitInv' /\ [Abstract!Next]_<<[v \in Vc |-> Contents(v)],
                                          IF valid THEN Dout ELSE Empty>>
  <1>1. ASSUME Init PROVE FlitInv /\ Abstract!Init
    <2>1. B \in Nat /\ B >= 1 /\ V * B \in Nat
      BY FlitBufferAssumption
    <2>2. \A v \in Vc : First(v) \in Int
      BY FlitBufferAssumption DEF First, Vc
    <2>3. \A v \in Vc : depth[v] = 0 /\ rdPtr[v] = First(v) /\ wrPtr[v] = First(v)
      BY <1>1 DEF Init
    <2>4. \A v \in Vc : ReadPlace(v) = 0
      BY <2>2, <2>3 DEF ReadPlace, Place
    <2>5. \A v \in Vc : wrPtr[v] = First(v) + Round(ReadPlace(v) + depth[v], B)
      BY <2>1, <2>2, <2>3, <2>4 DEF Round
    <2>6. /\ depth \in [Vc -> 0 .. B] /\ rdPtr \in [Vc -> Int] /\ wrPtr \in [Vc -> Int]
          /\ ram \in [0 .. V * B - 1 -> Entries]
          /\ tailFifo \in [Vc -> [0 .. B - 1 -> BOOLEAN]]
          /\ ramOut \in Entries /\ bypassReg \in Entries
          /\ rdEnDelayed \in BOOLEAN /\ valid \in BOOLEAN
      <3>1. depth \in [Vc -> 0 .. B] /\ rdPtr \in [Vc -> Int] /\ wrPtr \in [Vc -> Int]
        BY <1>1, <2>1, <2>2 DEF Init
      <3>2. ram \in [0 .. V * B - 1 -> Entries]
        BY <1>1 DEF Init, Entries
      <3>3. tailFifo \in [Vc -> [0 .. B - 1 -> BOOLEAN]]
        BY <1>1 DEF Init
      <3>4. ramOut \in Entries /\ bypassReg \in Entries
        BY <1>1 DEF Init, Entries
      <3>5. rdEnDelayed \in BOOLEAN /\ valid \in BOOLEAN
        BY <1>1 DEF Init
      <3>6. QED
        BY <3>1, <3>2, <3>3, <3>4, <3>5
    <2>7. FlitInv
      <3>1. \A v \in Vc :
              /\ ReadPlace(v) \in 0 .. B - 1 /\ rdPtr[v] = First(v) + ReadPlace(v)
              /\ \A k \in 1 .. depth[v] : FALSE
        BY <2>1, <2>2, <2>3, <2>4
      <3>2. QED
        BY <2>5, <2>6, <3>1 DEF FlitInv
    <2>8. \A v \in Vc : Contents(v) = <<>>
      BY <2>3 DEF Contents
    <2>9. QED
      BY <1>1, <2>7, <2>8 DEF Init, Abstract!Init
  <1>2. ASSUME FlitInv, NEW w \in Vc \cup {NoVc}, NEW r \in Vc \cup {NoVc},
               NEW s \in Vc \cup {NoVc}, NEW din \in Flit, Clock(w, din, r, s)
        PROVE  FlitInv' /\ Abstract!Next
    <2> DEFINE rd == IF r # NoVc THEN r ELSE s
               queue == [v \in Vc |-> Contents(v)]
    <2>1. IsRead(rd, r, s) /\ rd \in Vc \cup {NoVc} /\ din \in Entries /\ NoVc \notin Vc
      BY DEF IsRead, Entries, Vc, NoVc
    <2> HIDE DEF rd
    <2>2. /\ FlitInv'
          /\ \A v \in Vc :
               /\ depth[v]' = depth[v] + (IF v = w THEN 1 ELSE 0)
                                       - (IF v = rd THEN 1 ELSE 0)
               /\ \A k \in 1 .. depth[v]' :
                    FlitEntry(v, k)' = LET j == IF v = rd THEN k + 1 ELSE k
                                       IN  IF j = depth[v] + 1 THEN din
                                           ELSE FlitEntry(v, j)
      BY <1>2, <2>1, FlitEdge
    <2>3. \A v \in Vc : /\ depth[v] \in Nat /\ Contents(v) \in Seq(Entries)
                        /\ Len(Contents(v)) = depth[v]
                        /\ \A k \in 1 .. depth[v] : Contents(v)[k] = FlitEntry(v, k)
      <3> TAKE v \in Vc
      <3> DEFINE c == Contents(v)
                 p == ReadPlace(v)
      <3>1. /\ depth[v] \in 0 .. B /\ p \in 0 .. B - 1 /\ depth[v] \in Nat
            /\ ram \in [0 .. V * B - 1 -> Entries]
        BY <1>2, FlitBufferAssumption DEF FlitInv
      <3>2. c = WordsFrom(v, depth[v], p, ram)
        BY Zenon DEF Contents, ReadPlace, WordsFrom
      <3>3. \A k \in 1 .. depth[v] : FlitEntry(v, k) = ram[Word(v, Round(p + k - 1, B))]
        BY DEF FlitEntry
      <3> HIDE DEF c, p
      <3>4. c \in Seq(Entries) /\ Len(c) = depth[v]
            /\ \A k \in 1 .. depth[v] : c[k] = ram[Word(v, Round(p + k - 1, B))]
        BY <3>1, <3>2, EntriesOfPlaces
      <3>5. QED
        BY <3>1, <3>3, <3>4 DEF c
    <2>4. \A v \in Vc : /\ Contents(v)' \in Seq(Entries) /\ Len(Contents(v)') = depth'[v]
                        /\ \A k \in 1 .. depth'[v] : Contents(v)'[k] = FlitEntry(v, k)'
      <3> TAKE v \in Vc
      <3> DEFINE c == Contents(v)'
                 p == ReadPlace(v)'
      <3>1. /\ depth'[v] \in 0 .. B /\ p \in 0 .. B - 1
            /\ ram' \in [0 .. V * B - 1 -> Entries]
        BY <2>2 DEF FlitInv
      <3>2. c = WordsFrom(v, depth'[v], p, ram')
        BY Zenon DEF Contents, ReadPlace, WordsFrom
      <3>3. \A k \in 1 .. depth'[v] : FlitEntry(v, k)' = ram'[Word(v, Round(p + k - 1, B))]
        BY DEF FlitEntry
      <3> HIDE DEF c, p
      <3>4. c \in Seq(Entries) /\ Len(c) = depth'[v]
            /\ \A k \in 1 .. depth'[v] : c[k] = ram'[Word(v, Round(p + k - 1, B))]
        BY <3>1, <3>2, EntriesOfPlaces
      <3>5. QED
        BY <3>3, <3>4 DEF c
    <2>5. \A v \in Vc : v = rd => v = w \/ depth[v] > 0
      BY <1>2, <2>1 DEF Clock, VcNotEmpty, rd
    <2>6. \A v \in Vc : Contents(v)' = LET u == IF v = w THEN Append(Contents(v), din)
                                                ELSE Contents(v)
                                       IN  IF v = rd THEN Tail(u) ELSE u
      <3> TAKE v \in Vc
      <3> DEFINE a == Contents(v)
                 c == Contents(v)'
      <3>1. a \in Seq(Entries) /\ c \in Seq(Entries) /\ (v = rd => v = w \/ Len(a) > 0)
        BY <2>3, <2>4, <2>5
      <3>2. Len(c) = Len(a) + (IF v = w THEN 1 ELSE 0) - (IF v = rd THEN 1 ELSE 0)
        BY <2>2, <2>3, <2>4
      <3>3. \A k \in 1 .. Len(c) :
              c[k] = LET j == IF v = rd THEN k + 1 ELSE k
                     IN  IF j = Len(a) + 1 THEN din ELSE a[j]
        <4> SUFFICES ASSUME NEW k \in 1 .. Len(c), NEW j, j = IF v = rd THEN k + 1 ELSE k
                     PROVE  c[k] = IF j = Len(a) + 1 THEN din ELSE a[j]
          OBVIOUS
        <4>1. Len(a) = depth[v] /\ Len(c) = depth'[v] /\ Len(a) \in Nat
          BY <2>3, <2>4
        <4>2. c[k] = IF j = Len(a) + 1 THEN din ELSE FlitEntry(v, j)
          <5>1. c[k] = FlitEntry(v, k)' /\ k \in 1 .. depth[v]'
            BY <2>4, <4>1
          <5>2. FlitEntry(v, k)' = LET i == IF v = rd THEN k + 1 ELSE k
                                   IN  IF i = depth[v] + 1 THEN din ELSE FlitEntry(v, i)
            BY <2>2, <5>1
          <5>3. FlitEntry(v, k)' = IF j = depth[v] + 1 THEN din ELSE FlitEntry(v, j)
            BY <5>2
          <5>4. QED
            BY <4>1, <5>1, <5>3
        <4>3. j # Len(a) + 1 => j \in 1 .. Len(a)
          BY <3>2, <4>1, <2>5, <2>3
        <4>4. j \in 1 .. Len(a) => a[j] = FlitEntry(v, j)
          BY <2>3, <4>1
        <4>5. QED
          BY <4>2, <4>3, <4>4
      <3> HIDE DEF a, c
      <3>4. c = LET u == IF v = w THEN Append(a, din) ELSE a
                IN  IF v = rd THEN Tail(u) ELSE u
        BY <2>1, <3>1, <3>2, <3>3, QueueEdge
      <3>5. QED
        BY <3>4 DEF a, c
    <2>7. /\ w # NoVc => Len(Contents(w)) < B \/ rd = w
          /\ rd # NoVc => Contents(rd) # <<>> \/ rd = w
      <3>1. w # NoVc => depth[w] < B \/ rd = w
        BY <1>2 DEF Clock, rd
      <3>2. QED
        BY <2>1, <2>3, <2>5, <3>1, EmptySeq
    <2>8. (IF valid THEN Dout ELSE Empty)'
            = IF rd = NoVc \/ (Contents(rd) = <<>> /\ ~SsaEn) THEN Empty
              ELSE Head(IF rd = w THEN Append(Contents(rd), din) ELSE Contents(rd))
      <3>1. valid' = (rd # NoVc)
        BY <1>2 DEF Clock, rd
      <3>2. CASE rd = NoVc
        BY <3>1, <3>2
      <3>3. CASE r # NoVc
        <4>1. rd = r /\ r \in Vc /\ depth[r] > 0
          BY <1>2, <3>3 DEF rd, Clock, VcNotEmpty
        <4>2. Contents(r) # <<>> /\ Contents(r)[1] = FlitEntry(r, 1)
          BY <2>3, <4>1, EmptySeq
        <4>3. /\ Head(Contents(r)) = Contents(r)[1]
              /\ Head(Append(Contents(r), din)) = Contents(r)[1]
          BY <2>1, <2>3, <4>1, <4>2, HeadTailProperties, HeadTailAppend
        <4>4. Dout' = ram[Addr(r, rdPtr[r])]
          BY <1>2, <3>3 DEF Clock, RamPorts, Dout
        <4>5. ReadPlace(r) \in 0 .. B - 1 /\ rdPtr[r] = First(r) + ReadPlace(r)
          BY <1>2, <4>1 DEF FlitInv
        <4>6. Addr(r, rdPtr[r]) = Word(r, ReadPlace(r))
          BY <4>1, <4>5, PointerPlace
        <4>7. Round(ReadPlace(r) + 1 - 1, B) = ReadPlace(r)
          BY <4>5, FlitBufferAssumption DEF Round
        <4>8. Dout' = FlitEntry(r, 1)
          BY <4>4, <4>6, <4>7, Zenon DEF FlitEntry
        <4>9. QED
          BY <2>1, <3>1, <4>1, <4>2, <4>3, <4>8
      <3>4. CASE r = NoVc /\ rd # NoVc
        <4>1. rd = s /\ s = w /\ s \in Vc /\ SsaEn /\ depth[s] = 0
          BY <1>2, <2>3, <3>4 DEF rd, Clock, VcNotEmpty
        <4>2. Contents(s) = <<>>
          BY <2>3, <4>1, EmptySeq
        <4>3. Dout' = din
          BY <1>2, <3>4, <4>1, <2>1 DEF Clock, RamPorts, BypassPort, Dout
        <4>4. Head(Append(Contents(s), din)) = din
          BY <2>1, <4>2, HeadTailAppend
        <4>5. QED
          BY <3>1, <3>4, <4>1, <4>3, <4>4
      <3>5. QED
        BY <3>2, <3>3, <3>4
    <2>9. Abstract!Edge(w, din, rd)
      <3>1. \A v \in Vc : queue[v] = Contents(v)
        OBVIOUS
      <3>2. queue' = [v \in Vc |-> Contents(v)']
        OBVIOUS
      <3> HIDE DEF queue
      <3>3. queue' = [v \in Vc |-> IF v = rd
                                   THEN Tail(IF v = w THEN Append(queue[v], din) ELSE queue[v])
                                   ELSE IF v = w THEN Append(queue[v], din) ELSE queue[v]]
        BY <2>6, <3>1, <3>2
      <3>4. /\ w # NoVc => Len(queue[w]) < B \/ rd = w
            /\ rd # NoVc => queue[rd] # <<>> \/ rd = w
        BY <2>1, <2>7, <3>1
      <3>5. (IF valid THEN Dout ELSE Empty)'
              = IF rd = NoVc \/ (queue[rd] = <<>> /\ ~SsaEn) THEN Empty
                ELSE Head(IF rd = w THEN Append(queue[rd], din) ELSE queue[rd])
        BY <2>1, <2>8, <3>1
      <3>6. QED
        BY <3>3, <3>4, <3>5, Zenon DEF Abstract!Edge, Abstract!Pushed, queue
    <2>10. QED
      BY <2>1, <2>2, <2>9 DEF Abstract!Next
  <1>3. ASSUME FlitInv, UNCHANGED vars
        PROVE  FlitInv' /\ UNCHANGED <<[v \in Vc |-> Contents(v)],
                                      IF valid THEN Dout ELSE Empty>>
    BY <1>3 DEF FlitInv, vars, Contents, Dout, ReadPlace
  <1>4. QED
    BY <1>1, <1>2, <1>3, Zenon DEF Next

\* What FlitInv says of the registers and of the tail flags.
LEMMA FlitInvImplies == FlitInv => TypeOK /\ TailFlagOfNextFlit
  <1> SUFFICES ASSUME FlitInv PROVE TypeOK /\ TailFlagOfNextFlit
    OBVIOUS
  <1>1. B \in Nat /\ B >= 1 /\ \A v \in Vc : depth[v] \in 0 .. B
    BY FlitBufferAssumption DEF FlitInv
  <1>2. \A v \in Vc : /\ ReadPlace(v) \in 0 .. B - 1
                      /\ Addr(v, rdPtr[v]) = Word(v, ReadPlace(v))
                      /\ rdPtr[v] \in 0 .. V * B - 1 /\ wrPtr[v] \in 0 .. V * B - 1
    <2> TAKE v \in Vc
    <2>1. /\ ReadPlace(v) \in 0 .. B - 1 /\ rdPtr[v] = First(v) + ReadPlace(v)
          /\ wrPtr[v] = First(v) + Round(ReadPlace(v) + depth[v], B)
      BY DEF FlitInv
    <2>2. Round(ReadPlace(v) + depth[v], B) \in 0 .. B - 1
      BY <1>1, <2>1 DEF Round
    <2>3. QED
      BY <2>1, <2>2, PointerPlace
  <1>3. TypeOK
    <2>1. rdPtr \in [Vc -> 0 .. V * B - 1] /\ wrPtr \in [Vc -> 0 .. V * B - 1]
      BY <1>2 DEF FlitInv
    <2>2. QED
      BY <2>1 DEF FlitInv, TypeOK, Entries
  <1>4. TailFlagOfNextFlit
    <2> SUFFICES ASSUME NEW v \in Vc, VcNotEmpty(v)
                 PROVE  FlitIsTail(v) = (ram[Addr(v, rdPtr[v])] \in Tl)
      BY DEF TailFlagOfNextFlit
    <2> DEFINE a == ReadPlace(v)
               flag == tailFifo[v][a]
               x == ram[Word(v, a)]
    <2>1. 1 \in 1 .. depth[v] /\ Round(a + 1 - 1, B) = a
      BY <1>1, <1>2 DEF VcNotEmpty, Round
    <2>2. tailFifo[v][Round(a + 1 - 1, B)] <=> ram[Word(v, Round(a + 1 - 1, B))] \in Tl
      BY <2>1 DEF FlitInv
    <2>3. (flag <=> x \in Tl) /\ flag \in BOOLEAN
      <3>1. flag \in BOOLEAN
        <4>1. tailFifo \in [Vc -> [0 .. B - 1 -> BOOLEAN]]
          BY DEF FlitInv
        <4>2. a \in 0 .. B - 1
          BY <1>2
        <4> HIDE DEF a
        <4>3. QED
          BY <4>1, <4>2
      <3>2. flag <=> x \in Tl
        <4> DEFINE b == Round(a + 1 - 1, B)
        <4>1. b = a
          BY <2>1
        <4>2. tailFifo[v][b] <=> ram[Word(v, b)] \in Tl
          BY <2>2
        <4> HIDE DEF b
        <4>3. QED
          BY <4>1, <4>2
      <3>3. QED
        BY <3>1, <3>2
    <2>4. FlitIsTail(v) = flag /\ ram[Addr(v, rdPtr[v])] = x
      BY <1>2 DEF FlitIsTail, ReadPlace
    <2> HIDE DEF a, flag, x
    <2>5. flag = (x \in Tl)
      BY <2>3
    <2>6. QED
      BY <2>4, <2>5
  <1>5. QED
    BY <1>3, <1>4

-----------------------------------------------------------------------------

\* Every VC of the flit buffer is a FIFO of its own although all share one RAM,
\* for every number of VCs and every depth, whether the pointers wrap by
\* themselves or not and with or without the bypass of the straight allocator;
\* and the tail flag that is seen before a read is that of the flit read.
THEOREM FlitBufferImplementsFifo == MCSpec => FlitBufferIsFifo
  <1>1. MCInit => Init
    BY DEF MCInit
  <1>2. [MCNext]_<<part, vars, fifoVars>> => [Next]_vars
    BY Zenon DEF MCNext
  <1>3. Spec => ImplementsFifo /\ []FlitInv
    BY FlitSimulation, PTL DEF Spec, ImplementsFifo, Abstract!Spec
  <1>4. QED
    BY <1>1, <1>2, <1>3, FlitInvImplies, PTL DEF MCSpec, Spec, FlitBufferIsFifo
=============================================================================
