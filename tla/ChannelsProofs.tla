--------------------------- MODULE ChannelsProofs ---------------------------
(***************************************************************************)
(* What the parts of MCChannels are proved to do, as theorems of its       *)
(* specification: each part runs a component whose own theorems hold for   *)
(* all values of its constants, and the others leave its variables alone.  *)
(* The arbiters, of which each kind runs once, are proved here: the        *)
(* thermometer-code one for every width, the table-driven one for the      *)
(* widths it exists in.                                                    *)
(***************************************************************************)
EXTENDS MCChannels, VcLinkProofs

AtomicProofs == INSTANCE VcLinkProofs WITH Atomic <- TRUE, MinPck <- 1
WholeProofs  == INSTANCE InjectorProofs WITH credit <- niCredit
SingleProofs == INSTANCE InjectorProofs WITH credit <- niCredit, LB <- 1, Remain <- 0

-----------------------------------------------------------------------------
(* The thermometer-code arbiter.  The register is always a mask of the     *)
(* requesters from some position p on, which is all that is needed.        *)

MaskFrom(p) == p .. WideWidth - 1

ThermoInv == /\ \E p \in 0 .. WideWidth : pr = MaskFrom(p)
             /\ wideRequest \in SUBSET Wide!Requester /\ priorityEn \in BOOLEAN

\* The requester that such a register stands for.
LEMMA LastOfMask ==
    ASSUME Wide!ThermoAssumption, NEW p \in 0 .. WideWidth, pr = MaskFrom(p)
    PROVE  Wide!Last = IF p = 0 \/ p = WideWidth THEN WideWidth - 1 ELSE p - 1
  <1>1. WideWidth \in Nat /\ WideWidth >= 2
    BY DEF Wide!ThermoAssumption
  <1>2. CASE p = 0 \/ p = WideWidth
    <2>1. pr = {} \/ 0 \in pr
      BY <1>1, <1>2 DEF MaskFrom
    <2>2. QED
      BY <1>2, <2>1 DEF Wide!Last
  <1>3. CASE p # 0 /\ p # WideWidth
    <2>1. pr # {} /\ 0 \notin pr /\ p \in pr /\ \A j \in pr : p <= j
      BY <1>1, <1>3 DEF MaskFrom
    <2>2. \A i \in pr : (\A j \in pr : i <= j) => i = p
      BY <1>1, <2>1 DEF MaskFrom
    <2>3. (CHOOSE i \in pr : \A j \in pr : i <= j) = p
      BY <2>1, <2>2, Zenon
    <2>4. QED
      BY <1>3, <2>1, <2>3 DEF Wide!Last
  <1>4. QED
    BY <1>2, <1>3

\* Of the requesters in bits, the thermometer code has all from the lowest on.
LEMMA TermoFromLeast ==
    ASSUME Wide!ThermoAssumption, NEW bits \in SUBSET Wide!Requester, NEW g \in bits,
           \A j \in bits : g <= j
    PROVE  Wide!Termo(bits) = MaskFrom(g) /\ WideWidth - 1 \in Wide!Termo(bits)
  BY DEF Wide!ThermoAssumption, Wide!Requester, Wide!Termo, MaskFrom

\* The arbiter finds the first requester from the mask on, going round, and
\* computes the mask behind it.
LEMMA GrantOfMask ==
    ASSUME Wide!ThermoAssumption, ThermoInv, wideRequest # {}
    PROVE  \E g \in wideRequest :
             /\ Wide!GrantBits = {g} /\ Wide!EdgeMask = MaskFrom(g + 1)
             /\ \A j \in wideRequest : Wide!Abstract!Rank(g) <= Wide!Abstract!Rank(j)
  <1>1. WideWidth \in Nat /\ WideWidth >= 2 /\ wideRequest \subseteq 0 .. WideWidth - 1
    BY DEF Wide!ThermoAssumption, ThermoInv, Wide!Requester
  <1>2. PICK p \in 0 .. WideWidth : pr = MaskFrom(p)
    BY DEF ThermoInv
  <1>3. Wide!Last = IF p = 0 \/ p = WideWidth THEN WideWidth - 1 ELSE p - 1
    BY <1>2, LastOfMask
  <1>4. ASSUME NEW g \in wideRequest, Wide!MuxOut = MaskFrom(g)
        PROVE  Wide!GrantBits = {g} /\ Wide!EdgeMask = MaskFrom(g + 1)
    <2>1. g \in 0 .. WideWidth - 1
      BY <1>1
    <2>2. Wide!EdgeMask = MaskFrom(g + 1)
      BY <1>1, <1>4, <2>1 DEF Wide!EdgeMask, MaskFrom, Wide!Requester
    <2>3. Wide!GrantBits = {g}
      <3>1. Wide!GrantBits = (Wide!MuxOut \ Wide!EdgeMask) \cup (Wide!EdgeMask \ Wide!MuxOut)
        BY Zenon DEF Wide!GrantBits
      <3>2. QED
        BY <1>1, <1>4, <2>1, <2>2, <3>1 DEF MaskFrom
    <2>4. QED
      BY <2>2, <2>3
  <1>5. CASE Wide!MaskedRequest # {}
    <2>1. Wide!MaskedRequest \in SUBSET Nat /\ Wide!MaskedRequest \in SUBSET Wide!Requester
      <3>1. Wide!MaskedRequest \subseteq wideRequest
        BY DEF Wide!MaskedRequest
      <3>2. wideRequest \subseteq Nat /\ wideRequest \subseteq Wide!Requester
        BY <1>1 DEF Wide!Requester
      <3>3. QED
        BY <3>1, <3>2
    <2>2. PICK g \in Wide!MaskedRequest : \A j \in Wide!MaskedRequest : g <= j
      BY <1>5, <2>1, LeastOf
    <2>3. Wide!MuxOut = MaskFrom(g) /\ g \in wideRequest
      BY <2>1, <2>2, TermoFromLeast DEF Wide!MuxOut, Wide!MaskedRequest
    <2>4. ASSUME NEW j \in wideRequest
          PROVE  Wide!Abstract!Rank(g) <= Wide!Abstract!Rank(j)
      <3>1. g \in 0 .. WideWidth - 1 /\ j \in 0 .. WideWidth - 1 /\ g >= p
        BY <1>1, <1>2, <2>2 DEF Wide!MaskedRequest, MaskFrom
      <3>2. j >= p => g <= j
        BY <1>1, <1>2, <2>2, <3>1 DEF Wide!MaskedRequest, MaskFrom
      <3>3. QED
        BY <1>1, <1>3, <3>1, <3>2 DEF Wide!Abstract!Rank
    <2>5. QED
      BY <1>4, <2>3, <2>4
  <1>6. CASE Wide!MaskedRequest = {}
    <2>1. PICK g \in wideRequest : \A j \in wideRequest : g <= j
      BY <1>1, LeastOf
    <2>2. Wide!MuxOut = MaskFrom(g)
      <3>1. Wide!Termo(Wide!MaskedRequest) = {}
        BY <1>6 DEF Wide!Termo
      <3>2. QED
        BY <1>1, <2>1, <3>1, TermoFromLeast DEF Wide!MuxOut, Wide!Requester
    <2>3. ASSUME NEW j \in wideRequest
          PROVE  Wide!Abstract!Rank(g) <= Wide!Abstract!Rank(j)
      <3>1. g \in 0 .. WideWidth - 1 /\ j \in 0 .. WideWidth - 1 /\ g < p /\ j < p /\ g <= j
        BY <1>1, <1>2, <1>6, <2>1 DEF Wide!MaskedRequest, MaskFrom
      <3>2. QED
        BY <1>1, <1>3, <3>1 DEF Wide!Abstract!Rank
    <2>4. QED
      BY <1>4, <2>2, <2>3
  <1>7. QED
    BY <1>5, <1>6

\* Without a request all the vectors are zero.
LEMMA NoRequestNoGrant ==
    ASSUME wideRequest = {}
    PROVE  Wide!GrantBits = {} /\ Wide!EdgeMask = {}
  <1>1. Wide!MuxOut = {}
    BY DEF Wide!MuxOut, Wide!MaskedRequest, Wide!Termo
  <1>2. QED
    BY <1>1 DEF Wide!GrantBits, Wide!EdgeMask

\* The mask only ever moves behind the requester that is served.
LEMMA InvThermo ==
    ASSUME Wide!ThermoAssumption
    PROVE  (Wide!Init => ThermoInv) /\ (ThermoInv /\ [Wide!Next]_(Wide!vars) => ThermoInv')
  <1>0. WideWidth \in Nat /\ WideWidth >= 2
    BY DEF Wide!ThermoAssumption
  <1>1. ASSUME Wide!Init PROVE ThermoInv
    <2>1. pr = MaskFrom(0) /\ 0 \in 0 .. WideWidth
      BY <1>0, <1>1 DEF Wide!Init, Wide!Requester, MaskFrom
    <2>2. QED
      BY <1>1, <2>1 DEF Wide!Init, ThermoInv
  <1>2. ASSUME ThermoInv, [Wide!Next]_(Wide!vars) PROVE ThermoInv'
    <2>1. CASE UNCHANGED Wide!vars
      BY <1>2, <2>1 DEF Wide!vars, ThermoInv, MaskFrom
    <2>2. CASE Wide!Next
      <3>1. wideRequest' \in SUBSET Wide!Requester /\ priorityEn' \in BOOLEAN
        BY <2>2 DEF Wide!Next, Wide!Clock
      <3>2. pr' = Wide!EdgeMask \/ pr' = pr
        BY <2>2 DEF Wide!Next, Wide!Clock
      <3>3. Wide!EdgeMask = {} => Wide!EdgeMask = MaskFrom(WideWidth)
        BY <1>0 DEF MaskFrom
      <3>4. \E p \in 0 .. WideWidth : Wide!EdgeMask = MaskFrom(p)
        <4>1. CASE wideRequest = {}
          BY <1>0, <3>3, <4>1, NoRequestNoGrant
        <4>2. CASE wideRequest # {}
          <5>1. PICK g \in wideRequest : Wide!EdgeMask = MaskFrom(g + 1)
            BY <1>2, <4>2, GrantOfMask
          <5>2. g + 1 \in 0 .. WideWidth
            BY <1>0, <1>2 DEF ThermoInv, Wide!Requester
          <5>3. QED
            BY <5>1, <5>2
        <4>3. QED
          BY <4>1, <4>2
      <3>5. \E p \in 0 .. WideWidth : pr' = MaskFrom(p)
        BY <1>2, <3>2, <3>4 DEF ThermoInv
      <3>6. QED
        BY <3>1, <3>5 DEF ThermoInv, MaskFrom
    <2>3. QED
      BY <1>2, <2>1, <2>2
  <1>3. QED
    BY <1>1, <1>2

\* The priority register is always a mask of the requesters from some one on.
THEOREM ThermoInvariant ==
    ASSUME Wide!ThermoAssumption
    PROVE  Wide!Spec => []ThermoInv
  BY InvThermo, PTL DEF Wide!Spec

\* The grant is one-hot, whatever was requested and served before.
THEOREM ThermoGrantOneHot ==
    ASSUME Wide!ThermoAssumption
    PROVE  Wide!Spec => []Wide!GrantOneHot
  <1>1. ThermoInv => Wide!GrantOneHot
    BY GrantOfMask, NoRequestNoGrant DEF Wide!GrantOneHot
  <1>2. QED
    BY <1>1, ThermoInvariant, PTL

\* In every state the grant is the one a round-robin arbiter gives, and the
\* mask stands for a requester.
ThermoState == Wide!Abstract!Inputs /\ Wide!Last \in Wide!Requester

\* The invariant says as much.
LEMMA ThermoInputs ==
    ASSUME Wide!ThermoAssumption, ThermoInv
    PROVE  ThermoState
  <1>0. WideWidth \in Nat /\ WideWidth >= 2
    BY DEF Wide!ThermoAssumption
  <1>1. wideRequest \in SUBSET Wide!Requester /\ priorityEn \in BOOLEAN
    BY DEF ThermoInv
  <1>2. (IF WidePriorityEn THEN priorityEn ELSE wideRequest # {}) \in BOOLEAN
    BY <1>1 DEF Wide!ThermoAssumption
  <1>3. Wide!Last \in Wide!Requester
    <2>1. PICK p \in 0 .. WideWidth : pr = MaskFrom(p)
      BY DEF ThermoInv
    <2>2. Wide!Last = IF p = 0 \/ p = WideWidth THEN WideWidth - 1 ELSE p - 1
      BY <2>1, LastOfMask
    <2>3. QED
      BY <1>0, <2>2 DEF Wide!Requester
  <1> DEFINE grant == LET bits == Wide!GrantBits IN
                      IF bits = {} THEN Wide!NoOne ELSE CHOOSE i \in bits : TRUE
  <1>4. CASE wideRequest = {}
    <2>1. grant = Wide!NoOne
      BY <1>4, NoRequestNoGrant, Zenon
    <2>2. QED
      BY <1>1, <1>2, <1>3, <1>4, <2>1, Zenon
         DEF ThermoState, Wide!Abstract!Inputs, Wide!Abstract!Arbitrate, Wide!Abstract!Requester,
             Wide!Requester
  <1>5. CASE wideRequest # {}
    <2>1. PICK g \in wideRequest :
             /\ Wide!GrantBits = {g}
             /\ \A j \in wideRequest : Wide!Abstract!Rank(g) <= Wide!Abstract!Rank(j)
      BY <1>5, GrantOfMask
    <2>2. grant = g
      <3>1. (CHOOSE i \in {g} : TRUE) = g /\ {g} # {}
        BY Zenon
      <3>2. QED
        BY <2>1, <3>1, Zenon
    <2>3. g \in Wide!Requester
      BY <1>1
    <2>4. QED
      BY <1>1, <1>2, <1>3, <1>5, <2>1, <2>2, <2>3, Zenon
         DEF ThermoState, Wide!Abstract!Inputs, Wide!Abstract!Arbitrate, Wide!Abstract!Requester,
             Wide!Requester
  <1>6. QED
    BY <1>3, <1>4, <1>5 DEF ThermoState

\* A clock edge serves the granted requester, or leaves the priority alone.
LEMMA ThermoStep ==
    ASSUME Wide!ThermoAssumption, ThermoInv, ThermoState', Wide!Next
    PROVE  Wide!Abstract!Next
  <1>0. WideWidth \in Nat /\ WideWidth >= 2
    BY DEF Wide!ThermoAssumption
  <1> DEFINE grant == LET bits == Wide!GrantBits IN
                      IF bits = {} THEN Wide!NoOne ELSE CHOOSE i \in bits : TRUE
  <1>1. pr' = IF Wide!Enabled THEN Wide!EdgeMask ELSE pr
    BY DEF Wide!Next, Wide!Clock
  <1>2. Wide!Abstract!Inputs' /\ Wide!Last' \in Wide!Requester
    BY DEF ThermoState, Wide!Requester
  <1>3. CASE ~Wide!Enabled
    <2>1. Wide!Last' = Wide!Last
      BY <1>1, <1>3 DEF Wide!Last
    <2>2. QED
      BY <1>2, <1>3, <2>1 DEF Wide!Enabled, Wide!Abstract!Next, Wide!Abstract!Skip
  <1>4. CASE Wide!Enabled /\ wideRequest = {}
    <2>1. grant = Wide!NoOne
      BY <1>4, NoRequestNoGrant, Zenon
    <2>2. QED
      BY <1>2, <1>4, <2>1 DEF Wide!Enabled, Wide!Abstract!Next, Wide!Abstract!Disturb,
         Wide!Abstract!Requester, Wide!Requester
  <1>5. CASE Wide!Enabled /\ wideRequest # {}
    <2>1. PICK g \in wideRequest : Wide!GrantBits = {g} /\ Wide!EdgeMask = MaskFrom(g + 1)
      BY <1>5, GrantOfMask
    <2>2. g \in 0 .. WideWidth - 1
      BY DEF ThermoInv, Wide!Requester
    <2>3. grant = g
      <3>1. (CHOOSE i \in {g} : TRUE) = g /\ {g} # {}
        BY Zenon
      <3>2. QED
        BY <2>1, <3>1, Zenon
    <2>4. Wide!Last' = g
      <3>1. pr' = (g + 1) .. WideWidth - 1 /\ g + 1 \in 0 .. WideWidth /\ g + 1 # 0
        BY <1>0, <1>1, <1>5, <2>1, <2>2 DEF MaskFrom
      <3>2. ASSUME NEW p \in 0 .. WideWidth, p # 0, pr' = p .. WideWidth - 1
            PROVE  Wide!Last' = p - 1
        <4>1. CASE p = WideWidth
          <5>1. pr' = {}
            BY <1>0, <3>2, <4>1
          <5>2. QED
            BY <4>1, <5>1 DEF Wide!Last
        <4>2. CASE p # WideWidth
          <5>1. pr' # {} /\ 0 \notin pr' /\ p \in pr' /\ \A j \in pr' : p <= j
            <6>1. p \in p .. WideWidth - 1 /\ 0 \notin p .. WideWidth - 1
              BY <1>0, <3>2, <4>2
            <6>2. QED
              BY <3>2, <6>1
          <5>2. ASSUME NEW i \in pr', \A j \in pr' : i <= j
                PROVE  i = p
            <6>1. i <= p /\ i \in p .. WideWidth - 1
              BY <3>2, <5>1, <5>2
            <6>2. QED
              BY <1>0, <6>1
          <5>3. (CHOOSE i \in pr' : \A j \in pr' : i <= j) = p
            BY <5>1, <5>2, Zenon
          <5>4. QED
            BY <5>1, <5>3 DEF Wide!Last
        <4>3. QED
          BY <4>1, <4>2
      <3>3. Wide!Last' = (g + 1) - 1
        BY <3>1, <3>2
      <3>4. QED
        BY <2>2, <3>3
    <2>5. g # Wide!NoOne
      BY <2>2 DEF Wide!NoOne
    <2>6. QED
      BY <1>2, <1>5, <2>3, <2>4, <2>5 DEF Wide!Enabled, Wide!Abstract!Next, Wide!Abstract!Serve
  <1>6. QED
    BY <1>3, <1>4, <1>5

\* The thermometer-code arbiter of any width implements the round-robin one.
THEOREM ThermoIsRoundRobin ==
    ASSUME Wide!ThermoAssumption
    PROVE  Wide!Spec => Wide!ImplementsRoundRobin
  <1>1. Wide!Init => Wide!Abstract!Init
    <2> SUFFICES ASSUME Wide!Init PROVE Wide!Abstract!Init
      OBVIOUS
    <2>1. Wide!Abstract!Inputs
      BY InvThermo, ThermoInputs DEF ThermoState
    <2>2. WideWidth \in Nat /\ WideWidth >= 2 /\ pr = MaskFrom(0)
      BY DEF Wide!ThermoAssumption, Wide!Init, Wide!Requester, MaskFrom
    <2>3. Wide!Last = WideWidth - 1
      BY <2>2, LastOfMask
    <2>4. QED
      BY <2>1, <2>3 DEF Wide!Abstract!Init
  <1>2. ThermoInv => ThermoState
    BY ThermoInputs
  <1>3. ThermoInv /\ ThermoState' /\ [Wide!Next]_(Wide!vars)
          => [Wide!Abstract!Next]_(Wide!Abstract!vars)
    <2> SUFFICES ASSUME ThermoInv, ThermoState', [Wide!Next]_(Wide!vars)
                 PROVE  [Wide!Abstract!Next]_(Wide!Abstract!vars)
      OBVIOUS
    <2>1. CASE Wide!Next
      BY <2>1, ThermoStep
    <2>2. CASE UNCHANGED Wide!vars
      BY <2>2 DEF Wide!vars, Wide!Abstract!vars, Wide!Last, Wide!GrantBits, Wide!EdgeMask,
         Wide!MuxOut, Wide!MaskedRequest, Wide!Termo
    <2>3. QED
      BY <2>1, <2>2
  <1>4. QED
    BY <1>1, <1>2, <1>3, ThermoInvariant, PTL
       DEF Wide!Spec, Wide!ImplementsRoundRobin, Wide!Abstract!Spec

\* Whoever keeps asking is passed by each of the others once at most, so a
\* request is granted after at most N - 1 services of others.
THEOREM ThermoNeverPassedTwice ==
    ASSUME Wide!ThermoAssumption
    PROVE  Wide!Spec => Wide!Approaching
  <1> DEFINE grant == LET bits == Wide!GrantBits IN
                      IF bits = {} THEN Wide!NoOne ELSE CHOOSE i \in bits : TRUE
             R(i)  == Wide!Abstract!Rank(i)
  <1>1. ThermoState => (Wide!Abstract!Serve => \A i \in wideRequest \ {grant} : R(i)' < R(i))
    <2> SUFFICES ASSUME ThermoState, Wide!Abstract!Serve, NEW i \in wideRequest \ {grant}
                 PROVE  R(i)' < R(i)
      OBVIOUS
    <2>1. /\ WideWidth \in Nat /\ WideWidth >= 2
          /\ Wide!Last \in 0 .. WideWidth - 1 /\ i \in 0 .. WideWidth - 1
      BY DEF Wide!ThermoAssumption, ThermoState, Wide!Requester, Wide!Abstract!Inputs,
         Wide!Abstract!Requester
    <2>2. grant \in wideRequest /\ R(grant) <= R(i) /\ Wide!Last' = grant
      BY DEF ThermoState, Wide!Abstract!Inputs, Wide!Abstract!Arbitrate, Wide!Abstract!Serve
    <2>3. grant \in 0 .. WideWidth - 1 /\ grant # i
      BY <2>2 DEF ThermoState, Wide!Abstract!Inputs, Wide!Abstract!Requester
    <2> DEFINE g == grant
    <2>4. R(i)' = IF i > Wide!Last' THEN i - Wide!Last' - 1 ELSE i - Wide!Last' - 1 + WideWidth
      BY DEF Wide!Abstract!Rank
    <2>5. /\ R(i) = IF i > Wide!Last THEN i - Wide!Last - 1 ELSE i - Wide!Last - 1 + WideWidth
          /\ R(g) = IF g > Wide!Last THEN g - Wide!Last - 1 ELSE g - Wide!Last - 1 + WideWidth
      BY DEF Wide!Abstract!Rank
    <2> HIDE DEF grant, R
    <2>6. QED
      BY <2>1, <2>2, <2>3, <2>4, <2>5
  <1>2. ThermoInv => ThermoState
    BY ThermoInputs
  <1>3. ThermoState => [Wide!Abstract!Serve => \A i \in wideRequest \ {grant} :
                                                  R(i)' < R(i)]_(Wide!Abstract!vars)
    BY <1>1
  <1>4. QED
    BY <1>2, <1>3, ThermoInvariant, PTL DEF Wide!Approaching, Wide!Abstract!Approaching

-----------------------------------------------------------------------------
(* The table-driven arbiter.                                               *)

OneHotInv == /\ lowPr \in Narrow!Requester
             /\ request \in SUBSET Narrow!Requester /\ priorityEn \in BOOLEAN

\* Its tables are round-robin orders.
LEMMA TurnIsRank ==
    ASSUME NarrowWidth \in 2 .. 4, lowPr \in Narrow!Requester, NEW i \in Narrow!Requester
    PROVE  /\ Narrow!Turn(i) = Narrow!Abstract!Rank(i) + 1
           /\ Narrow!Abstract!Rank(i) \in 0 .. NarrowWidth - 1
  <1> DEFINE place == Narrow!Abstract!Rank(i) + 1
  <1>1. /\ place \in 1 .. NarrowWidth /\ Narrow!Order[lowPr + 1][place] = i
        /\ \A k \in 1 .. NarrowWidth : Narrow!Order[lowPr + 1][k] = i => k = place
    <2>1. CASE NarrowWidth = 2
      BY <2>1 DEF Narrow!Order, Narrow!Abstract!Rank, Narrow!Requester
    <2>2. CASE NarrowWidth = 3
      BY <2>2 DEF Narrow!Order, Narrow!Abstract!Rank, Narrow!Requester
    <2>3. CASE NarrowWidth = 4
      BY <2>3 DEF Narrow!Order, Narrow!Abstract!Rank, Narrow!Requester
    <2>4. QED
      BY <2>1, <2>2, <2>3
  <1>2. Narrow!Turn(i) = place
    <2> HIDE DEF place
    <2> QED
      BY <1>1, Zenon DEF Narrow!Turn
  <1>3. Narrow!Abstract!Rank(i) \in 0 .. NarrowWidth - 1
    BY <1>1 DEF Narrow!Abstract!Rank, Narrow!Requester
  <1>4. QED
    BY <1>2, <1>3

\* The requester tried first is the one nearest behind the last served.
LEMMA OneHotGrant ==
    ASSUME NarrowWidth \in 2 .. 4, OneHotInv, request # {}
    PROVE  /\ Narrow!Grant \in request
           /\ \A j \in request :
                 Narrow!Abstract!Rank(Narrow!Grant) <= Narrow!Abstract!Rank(j)
  <1>1. \A j \in request : /\ Narrow!Turn(j) = Narrow!Abstract!Rank(j) + 1
                            /\ Narrow!Abstract!Rank(j) \in 0 .. NarrowWidth - 1
    BY TurnIsRank DEF OneHotInv
  <1> DEFINE turns == {Narrow!Turn(j) : j \in request}
  <1>2. PICK t \in turns : \A u \in turns : t <= u
    <2>1. turns \in SUBSET Nat /\ turns # {}
      BY <1>1
    <2> HIDE DEF turns
    <2>2. QED
      BY <2>1, LeastOf
  <1>3. \E i \in request : \A j \in request : Narrow!Turn(i) <= Narrow!Turn(j)
    BY <1>2
  <1>4. /\ Narrow!Grant \in request
        /\ \A j \in request : Narrow!Turn(Narrow!Grant) <= Narrow!Turn(j)
    <2> DEFINE best(i) == \A j \in request : Narrow!Turn(i) <= Narrow!Turn(j)
    <2>1. Narrow!Grant = CHOOSE i \in request : best(i)
      BY Zenon DEF Narrow!Grant
    <2>2. \E i \in request : best(i)
      BY <1>3
    <2> HIDE DEF best
    <2>3. Narrow!Grant \in request /\ best(Narrow!Grant)
      BY <2>1, <2>2, Zenon
    <2>4. QED
      BY <2>3 DEF best
  <1> DEFINE g == Narrow!Grant
  <1>5. ASSUME NEW j \in request
        PROVE  Narrow!Abstract!Rank(g) <= Narrow!Abstract!Rank(j)
    <2> DEFINE rg == Narrow!Abstract!Rank(g)
               rj == Narrow!Abstract!Rank(j)
    <2>1. Narrow!Turn(g) = rg + 1 /\ Narrow!Turn(j) = rj + 1 /\ rg \in Int /\ rj \in Int
      BY <1>1, <1>4
    <2>2. Narrow!Turn(g) <= Narrow!Turn(j)
      BY <1>4
    <2> HIDE DEF rg, rj
    <2>3. rg + 1 <= rj + 1
      BY <2>1, <2>2
    <2>4. rg <= rj
      BY <2>1, <2>3
    <2>5. QED
      BY <2>4 DEF rg, rj
  <1>6. QED
    BY <1>4, <1>5

\* The grant is the round-robin one in every state.
LEMMA OneHotInputs ==
    ASSUME NarrowWidth \in 2 .. 4, NarrowPriorityEn \in BOOLEAN, OneHotInv
    PROVE  Narrow!Abstract!Inputs
  <1>1. (IF NarrowPriorityEn THEN priorityEn ELSE request # {}) \in BOOLEAN
    BY DEF OneHotInv
  <1>2. CASE request = {}
    <2>1. Narrow!Grant = Narrow!NoOne
      BY <1>2 DEF Narrow!Grant
    <2>2. QED
      BY <1>1, <1>2, <2>1, Zenon
         DEF OneHotInv, Narrow!Abstract!Inputs, Narrow!Abstract!Arbitrate,
             Narrow!Abstract!Requester, Narrow!Requester
  <1>3. CASE request # {}
    <2>1. Narrow!Grant \in Narrow!Requester
      BY <1>3, OneHotGrant DEF OneHotInv
    <2>2. Narrow!Abstract!Arbitrate
      BY <1>3, OneHotGrant DEF Narrow!Abstract!Arbitrate
    <2>3. QED
      BY <1>1, <2>1, <2>2, Zenon
         DEF OneHotInv, Narrow!Abstract!Inputs, Narrow!Abstract!Requester, Narrow!Requester
  <1>4. QED
    BY <1>2, <1>3

\* The register follows the grants that count.
LEMMA OneHotStep ==
    ASSUME NarrowWidth \in 2 .. 4, OneHotInv, Narrow!Next
    PROVE  /\ OneHotInv'
           /\ Narrow!Abstract!Inputs' => Narrow!Abstract!Next
  <1>1. /\ lowPr' = IF Narrow!Enabled THEN Narrow!GrantBin ELSE lowPr
        /\ request' \in SUBSET Narrow!Requester /\ priorityEn' \in BOOLEAN
    BY Zenon DEF Narrow!Next, Narrow!Clock, Narrow!Requester
  <1>2. CASE request = {}
    <2>1. Narrow!Grant = Narrow!NoOne
      BY <1>2 DEF Narrow!Grant
    <2>2. Narrow!GrantBin = 0 /\ 0 \in Narrow!Requester
      BY <2>1 DEF Narrow!GrantBin, Narrow!Requester
    <2>3. lowPr' \in Narrow!Requester
      BY <1>1, <2>2 DEF OneHotInv
    <2>4. OneHotInv'
      BY <1>1, <2>3 DEF OneHotInv, Narrow!Requester
    <2>5. ASSUME Narrow!Abstract!Inputs' PROVE Narrow!Abstract!Next
      <3>1. CASE Narrow!Enabled
        BY <1>2, <2>1, <2>3, <2>5, <3>1
           DEF Narrow!Enabled, Narrow!Abstract!Next, Narrow!Abstract!Disturb,
               Narrow!Abstract!Requester, Narrow!Requester
      <3>2. CASE ~Narrow!Enabled
        BY <1>1, <1>2, <2>1, <2>5, <3>2
           DEF Narrow!Enabled, Narrow!Abstract!Next, Narrow!Abstract!Skip
      <3>3. QED
        BY <3>1, <3>2
    <2>6. QED
      BY <2>4, <2>5
  <1>3. CASE request # {}
    <2>1. Narrow!Grant \in Narrow!Requester /\ Narrow!Grant # Narrow!NoOne
      <3>1. Narrow!Grant \in Narrow!Requester
        BY <1>3, OneHotGrant DEF OneHotInv
      <3>2. Narrow!NoOne \notin Narrow!Requester
        BY DEF Narrow!Requester, Narrow!NoOne
      <3>3. QED
        BY <3>1, <3>2
    <2>2. Narrow!GrantBin = Narrow!Grant
      BY <2>1 DEF Narrow!GrantBin
    <2>3. lowPr' \in Narrow!Requester
      BY <1>1, <2>1, <2>2 DEF OneHotInv
    <2>4. OneHotInv'
      BY <1>1, <2>3 DEF OneHotInv, Narrow!Requester
    <2>5. ASSUME Narrow!Abstract!Inputs' PROVE Narrow!Abstract!Next
      <3>1. CASE Narrow!Enabled
        <4>1. lowPr' = Narrow!Grant
          BY <1>1, <2>2, <3>1
        <4>2. IF NarrowPriorityEn THEN priorityEn ELSE request # {}
          BY <1>3, <3>1 DEF Narrow!Enabled
        <4>3. QED
          BY <2>1, <2>5, <4>1, <4>2
             DEF Narrow!Abstract!Next, Narrow!Abstract!Serve
      <3>2. CASE ~Narrow!Enabled
        <4>1. ~(IF NarrowPriorityEn THEN priorityEn ELSE request # {})
          BY <2>1, <3>2 DEF Narrow!Enabled
        <4>2. QED
          BY <1>1, <2>5, <3>2, <4>1
             DEF Narrow!Abstract!Next, Narrow!Abstract!Skip
      <3>3. QED
        BY <3>1, <3>2
    <2>6. QED
      BY <2>4, <2>5
  <1>4. QED
    BY <1>2, <1>3

\* The table-driven arbiters implement the round-robin one.
THEOREM OneHotIsRoundRobin ==
    ASSUME NarrowWidth \in 2 .. 4, NarrowPriorityEn \in BOOLEAN
    PROVE  Narrow!Spec => Narrow!ImplementsRoundRobin
  <1>1. Narrow!Init => OneHotInv /\ Narrow!Abstract!Init
    <2> SUFFICES ASSUME Narrow!Init PROVE OneHotInv /\ Narrow!Abstract!Init
      OBVIOUS
    <2>1. OneHotInv /\ lowPr = 0
      BY DEF Narrow!Init, OneHotInv, Narrow!Requester
    <2>2. QED
      BY <2>1, OneHotInputs DEF Narrow!Abstract!Init
  <1>2. OneHotInv => Narrow!Abstract!Inputs
    BY OneHotInputs
  <1>3. OneHotInv /\ [Narrow!Next]_(Narrow!vars) => OneHotInv'
    <2>1. ASSUME OneHotInv, UNCHANGED Narrow!vars PROVE OneHotInv'
      BY <2>1 DEF Narrow!vars, OneHotInv, Narrow!Requester
    <2>2. QED
      BY <2>1, OneHotStep
  <1>4. OneHotInv /\ Narrow!Abstract!Inputs' /\ [Narrow!Next]_(Narrow!vars)
          => [Narrow!Abstract!Next]_(Narrow!Abstract!vars)
    <2>1. ASSUME UNCHANGED Narrow!vars PROVE UNCHANGED Narrow!Abstract!vars
      BY <2>1 DEF Narrow!vars, Narrow!Abstract!vars, Narrow!Grant, Narrow!Turn
    <2>2. QED
      BY <2>1, OneHotStep
  <1>5. QED
    BY <1>1, <1>2, <1>3, <1>4, PTL
       DEF Narrow!Spec, Narrow!ImplementsRoundRobin, Narrow!Abstract!Spec

-----------------------------------------------------------------------------
(* The arbiters beside the other parts.                                    *)

\* An arbiter that does not run has no requests.
ArbitersAtRest ==
  /\ part # "wide" => wideRequest = {}
  /\ part # "narrow" => request = {} /\ ~priorityEn
  /\ priorityEn \in BOOLEAN

\* The parts do not disturb each other's arbiter.
LEMMA ArbiterParts ==
  /\ MCInit => ArbitersAtRest /\ Wide!Init /\ Narrow!Init
  /\ ArbitersAtRest /\ [MCNext]_allVars
       => ArbitersAtRest' /\ [Wide!Next]_(Wide!vars) /\ [Narrow!Next]_(Narrow!vars)
  <1>1. MCInit => ArbitersAtRest /\ Wide!Init /\ Narrow!Init
    BY DEF MCInit, ArbitersAtRest, Narrow!Init
  <1>2. ASSUME ArbitersAtRest, [MCNext]_allVars
        PROVE  ArbitersAtRest' /\ [Wide!Next]_(Wide!vars) /\ [Narrow!Next]_(Narrow!vars)
    <2>1. CASE UNCHANGED <<part, arbiterVars>>
      BY <1>2, <2>1 DEF arbiterVars, ArbitersAtRest, Wide!vars, Narrow!vars
    <2>2. CASE /\ part = "wide" /\ Wide!Clock /\ ~priorityEn'
               /\ UNCHANGED <<part, lowPr, request>>
      <3>1. priorityEn' \in BOOLEAN
        BY <2>2 DEF Wide!Clock
      <3>2. priorityEn' = priorityEn /\ ArbitersAtRest'
        BY <1>2, <2>2, <3>1 DEF ArbitersAtRest
      <3>3. QED
        BY <2>2, <3>2 DEF Wide!Next, Narrow!vars
    <2>3. CASE /\ part = "narrow" /\ Narrow!Clock
               /\ UNCHANGED <<part, pr, wideRequest>>
      <3>1. wideRequest = {} /\ priorityEn' \in BOOLEAN /\ ArbitersAtRest'
        BY <1>2, <2>3 DEF ArbitersAtRest, Narrow!Clock
      <3>2. Wide!Next
        BY <2>3, <3>1, PartsAssumption DEF PartsAssumption, Wide!Next, Wide!Clock, Wide!Enabled
      <3>3. QED
        BY <2>3, <3>1, <3>2 DEF Narrow!Next
    <2>4. QED
      BY <1>2, <2>1, <2>2, <2>3
         DEF MCNext, LinkPart, InjectorPart, ArbiterPart, allVars
  <1>3. QED
    BY <1>1, <1>2

\* Both arbiters serve their requesters round-robin, and the thermometer code
\* never grants two of them, whatever their widths.
THEOREM ArbitersServeInTurn == MCSpec => ArbitersAreRoundRobin
  <1>1. MCSpec => Wide!Spec /\ Narrow!Spec
    BY ArbiterParts, PTL DEF MCSpec, Wide!Spec, Narrow!Spec
  <1>2. QED
    BY <1>1, PartsAssumption, ThermoIsRoundRobin, ThermoGrantOneHot, OneHotIsRoundRobin, PTL
       DEF ArbitersAreRoundRobin

-----------------------------------------------------------------------------
(* The links.                                                              *)

\* The part with atomic allocation runs.
AtomicPart == part = "atomic"

\* A part is chosen once, and only its own steps move the link.
LEMMA LinkParts ==
  /\ MCInit => Init /\ AtomicLink!Init
  /\ [MCNext]_allVars /\ ~AtomicPart => ~AtomicPart' /\ [Next]_vars
  /\ [MCNext]_allVars /\ AtomicPart => AtomicPart' /\ [AtomicLink!Next]_(AtomicLink!vars)
  <1>1. MCInit => Init /\ AtomicLink!Init
    BY Zenon DEF MCInit, Init, AtomicLink!Init, NoFlit, AtomicLink!NoFlit
  <1>2. ASSUME [MCNext]_allVars
        PROVE  /\ part' = part
               /\ \/ UNCHANGED vars
                  \/ part = "nonatomic" /\ Next
                  \/ part = "atomic" /\ AtomicLink!Next
    BY <1>2, Zenon DEF MCNext, LinkPart, InjectorPart, ArbiterPart, allVars
  <1>3. UNCHANGED vars => UNCHANGED AtomicLink!vars
    BY Zenon DEF vars, ovcVars, ivcVars, wireVars, portVars, AtomicLink!vars,
       AtomicLink!ovcVars, AtomicLink!ivcVars, AtomicLink!wireVars, AtomicLink!portVars
  <1>4. QED
    BY <1>1, <1>2, <1>3 DEF AtomicPart

\* The atomic link is the one that VcLinkProofs is about.
LEMMA AtomicTheorem == AtomicLink!Spec => []AtomicLink!HeaderFifoNeverFull
  <1>1. AtomicProofs!Spec => []AtomicProofs!HeaderFifoNeverFull
    BY AtomicProofs!HeaderFifosSuffice, ConstAssumption
       DEF AtomicProofs!ConstAssumption
  <1>2. AtomicLink!Init => AtomicProofs!Init
    BY Zenon DEF AtomicLink!Init, AtomicProofs!Init, AtomicLink!NoFlit, AtomicProofs!NoFlit
  <1>3. [AtomicLink!Next]_(AtomicLink!vars) => [AtomicProofs!Next]_(AtomicProofs!vars)
    BY Zenon
       DEF AtomicLink!Flit, AtomicProofs!Flit, AtomicLink!NoFlit,
           AtomicProofs!NoFlit, AtomicLink!OvcAvailable,
           AtomicProofs!OvcAvailable,
           AtomicLink!AssignedOvcIsFull,
           AtomicProofs!AssignedOvcIsFull, AtomicLink!CanSend,
           AtomicProofs!CanSend, AtomicLink!SwitchGrants,
           AtomicProofs!SwitchGrants, AtomicLink!SingleFlitPck,
           AtomicProofs!SingleFlitPck, AtomicLink!CreditNext,
           AtomicProofs!CreditNext, AtomicLink!CreditMonitor,
           AtomicProofs!CreditMonitor, AtomicLink!OvcStatus,
           AtomicProofs!OvcStatus, AtomicLink!Unrelieved,
           AtomicProofs!Unrelieved, AtomicLink!FullOvcPredictor,
           AtomicProofs!FullOvcPredictor,
           AtomicLink!OvcAssignment, AtomicProofs!OvcAssignment,
           AtomicLink!FlitPipeline, AtomicProofs!FlitPipeline,
           AtomicLink!ReadGrants, AtomicProofs!ReadGrants,
           AtomicLink!TailRead, AtomicProofs!TailRead,
           AtomicLink!FlitBuffer, AtomicProofs!FlitBuffer,
           AtomicLink!HeaderFifo, AtomicProofs!HeaderFifo,
           AtomicLink!DnAssignment, AtomicProofs!DnAssignment,
           AtomicLink!CreditOut, AtomicProofs!CreditOut,
           AtomicLink!OutputPort, AtomicProofs!OutputPort,
           AtomicLink!InputPort, AtomicProofs!InputPort,
           AtomicLink!Cycle, AtomicProofs!Cycle, AtomicLink!Next,
           AtomicProofs!Next, AtomicLink!vars, AtomicProofs!vars,
           AtomicLink!ovcVars, AtomicProofs!ovcVars,
           AtomicLink!ivcVars, AtomicProofs!ivcVars,
           AtomicLink!wireVars, AtomicProofs!wireVars,
           AtomicLink!portVars, AtomicProofs!portVars
  <1>4. AtomicProofs!HeaderFifoNeverFull => AtomicLink!HeaderFifoNeverFull
    BY Zenon DEF AtomicProofs!HeaderFifoNeverFull, AtomicLink!HeaderFifoNeverFull,
                 AtomicProofs!MaxPck, AtomicLink!MaxPck
  <1>5. QED
    BY <1>1, <1>2, <1>3, <1>4, PTL DEF AtomicLink!Spec, AtomicProofs!Spec

\* With either way of allocating an OVC, the header FIFOs are never written
\* when full.
THEOREM HeaderFifosFit ==
    ASSUME Atomic \/ OvcAllocMode \/ MinPck < B
    PROVE  MCSpec => []HeaderFifosNeverFull
  <1>1. MCSpec /\ ~AtomicPart => Spec /\ []~AtomicPart
    BY LinkParts, PTL DEF MCSpec, Spec
  <1>2. MCSpec /\ AtomicPart => AtomicLink!Spec /\ []AtomicPart
    BY LinkParts, PTL DEF MCSpec, AtomicLink!Spec
  <1>3. Spec => []HeaderFifoNeverFull
    BY HeaderFifosSuffice
  <1>4. /\ ~AtomicPart /\ HeaderFifoNeverFull => HeaderFifosNeverFull
        /\ AtomicPart /\ AtomicLink!HeaderFifoNeverFull => HeaderFifosNeverFull
    BY DEF HeaderFifosNeverFull, AtomicPart
  <1>5. QED
    BY <1>1, <1>2, <1>3, <1>4, AtomicTheorem, PTL
-----------------------------------------------------------------------------
(* The injectors.                                                          *)

\* The part with single-flit buffers runs.
SinglePart == part = "inject1"

\* Only the injectors' own steps move them.
LEMMA InjectorParts ==
  /\ MCInit /\ ~SinglePart => Injector!Init
  /\ MCInit /\ SinglePart => Inject1!Init
  /\ [MCNext]_allVars /\ ~SinglePart => ~SinglePart' /\ [Injector!Next]_(Injector!vars)
  /\ [MCNext]_allVars /\ SinglePart => SinglePart' /\ [Inject1!Next]_(Inject1!vars)
  <1>1. /\ MCInit /\ ~SinglePart => Injector!Init
        /\ MCInit /\ SinglePart => Inject1!Init
    BY DEF MCInit, SinglePart
  <1>2. ASSUME [MCNext]_allVars
        PROVE  /\ part' = part
               /\ \/ UNCHANGED injectorVars
                  \/ part = "injector" /\ Injector!Next
                  \/ part = "inject1" /\ Inject1!Next
    BY <1>2, Zenon DEF MCNext, LinkPart, InjectorPart, ArbiterPart, allVars
  <1>3. UNCHANGED injectorVars => UNCHANGED Injector!vars /\ UNCHANGED Inject1!vars
    BY Zenon DEF injectorVars, Injector!vars, Injector!sender, Injector!network,
       Injector!receiver, Inject1!vars, Inject1!sender, Inject1!network, Inject1!receiver
  <1>4. QED
    BY <1>1, <1>2, <1>3 DEF SinglePart

\* The injectors are those that InjectorProofs is about.
LEMMA WholeTheorem ==
  Injector!Spec => [](Injector!TypeOK /\ Injector!DeliveredAsSent /\ Injector!BuffersAccounted)
  <1>1. WholeProofs!InjectorAssumption
    BY PartsAssumption, Zenon DEF Injector!InjectorAssumption, WholeProofs!InjectorAssumption
  <1>2. /\ WholeProofs!Spec => []WholeProofs!DeliveredAsSent
        /\ WholeProofs!Spec => [](WholeProofs!TypeOK /\ WholeProofs!BuffersAccounted)
    BY <1>1, WholeProofs!PacketsDeliveredAsSent, WholeProofs!InjectorBuffersAccounted
  <1>3. Injector!Init => WholeProofs!Init
    BY Zenon DEF Injector!Init, WholeProofs!Init, Injector!NoFlit, WholeProofs!NoFlit,
                 Injector!Idle, WholeProofs!Idle, Injector!Packet, WholeProofs!Packet
  <1>4. [Injector!Next]_(Injector!vars) => [WholeProofs!Next]_(WholeProofs!vars)
    BY Zenon
       DEF Injector!Full, WholeProofs!Full, Injector!Flit, WholeProofs!Flit,
           Injector!FlitOut, WholeProofs!FlitOut, Injector!FlitTypeNext,
           WholeProofs!FlitTypeNext, Injector!SendFlit, WholeProofs!SendFlit,
           Injector!OvcStatus, WholeProofs!OvcStatus, Injector!ReadGrants,
           WholeProofs!ReadGrants, Injector!Network, WholeProofs!Network,
           Injector!RsvCounterNext, WholeProofs!RsvCounterNext, Injector!PlaceOfFlit,
           WholeProofs!PlaceOfFlit, Injector!CreditOut, WholeProofs!CreditOut,
           Injector!Receive, WholeProofs!Receive, Injector!Offered, WholeProofs!Offered,
           Injector!Cycle, WholeProofs!Cycle, Injector!Next, WholeProofs!Next,
           Injector!NoFlit, WholeProofs!NoFlit, Injector!Idle, WholeProofs!Idle,
           Injector!Packet, WholeProofs!Packet, Injector!vars, WholeProofs!vars,
           Injector!sender, WholeProofs!sender, Injector!network, WholeProofs!network,
           Injector!receiver, WholeProofs!receiver
  <1>5. WholeProofs!TypeOK /\ WholeProofs!DeliveredAsSent /\ WholeProofs!BuffersAccounted
           => Injector!TypeOK /\ Injector!DeliveredAsSent /\ Injector!BuffersAccounted
    BY Zenon DEF Injector!TypeOK, WholeProofs!TypeOK, Injector!DeliveredAsSent,
                 WholeProofs!DeliveredAsSent, Injector!BuffersAccounted,
                 WholeProofs!BuffersAccounted, Injector!Packet, WholeProofs!Packet
  <1>6. QED
    BY <1>2, <1>3, <1>4, <1>5, PTL DEF Injector!Spec, WholeProofs!Spec

\* And so are those with single-flit buffers.
LEMMA SingleTheorem ==
  Inject1!Spec => [](Inject1!TypeOK /\ Inject1!DeliveredAsSent /\ Inject1!BuffersAccounted)
  <1>1. SingleProofs!InjectorAssumption
    BY PartsAssumption, Zenon DEF Inject1!InjectorAssumption, SingleProofs!InjectorAssumption
  <1>2. /\ SingleProofs!Spec => []SingleProofs!DeliveredAsSent
        /\ SingleProofs!Spec => [](SingleProofs!TypeOK /\ SingleProofs!BuffersAccounted)
    BY <1>1, SingleProofs!PacketsDeliveredAsSent, SingleProofs!InjectorBuffersAccounted
  <1>3. Inject1!Init => SingleProofs!Init
    BY Zenon DEF Inject1!Init, SingleProofs!Init, Inject1!NoFlit, SingleProofs!NoFlit,
                 Inject1!Idle, SingleProofs!Idle, Inject1!Packet, SingleProofs!Packet
  <1>4. [Inject1!Next]_(Inject1!vars) => [SingleProofs!Next]_(SingleProofs!vars)
    BY Zenon
       DEF Inject1!Full, SingleProofs!Full, Inject1!Flit, SingleProofs!Flit,
           Inject1!FlitOut, SingleProofs!FlitOut, Inject1!FlitTypeNext,
           SingleProofs!FlitTypeNext, Inject1!SendFlit, SingleProofs!SendFlit,
           Inject1!OvcStatus, SingleProofs!OvcStatus, Inject1!ReadGrants,
           SingleProofs!ReadGrants, Inject1!Network, SingleProofs!Network,
           Inject1!RsvCounterNext, SingleProofs!RsvCounterNext, Inject1!PlaceOfFlit,
           SingleProofs!PlaceOfFlit, Inject1!CreditOut, SingleProofs!CreditOut,
           Inject1!Receive, SingleProofs!Receive, Inject1!Offered, SingleProofs!Offered,
           Inject1!Cycle, SingleProofs!Cycle, Inject1!Next, SingleProofs!Next,
           Inject1!NoFlit, SingleProofs!NoFlit, Inject1!Idle, SingleProofs!Idle,
           Inject1!Packet, SingleProofs!Packet, Inject1!vars, SingleProofs!vars,
           Inject1!sender, SingleProofs!sender, Inject1!network, SingleProofs!network,
           Inject1!receiver, SingleProofs!receiver
  <1>5. SingleProofs!TypeOK /\ SingleProofs!DeliveredAsSent /\ SingleProofs!BuffersAccounted
           => Inject1!TypeOK /\ Inject1!DeliveredAsSent /\ Inject1!BuffersAccounted
    BY Zenon DEF Inject1!TypeOK, SingleProofs!TypeOK, Inject1!DeliveredAsSent,
                 SingleProofs!DeliveredAsSent, Inject1!BuffersAccounted,
                 SingleProofs!BuffersAccounted, Inject1!Packet, SingleProofs!Packet
  <1>6. QED
    BY <1>2, <1>3, <1>4, <1>5, PTL DEF Inject1!Spec, SingleProofs!Spec

\* What an injector reports is the packet that was sent, whatever the number of
\* channels, credits and data flits; no counter and no credit is ever off.
THEOREM InjectorsDeliver == MCSpec => []InjectorSound
  <1>1. MCSpec /\ ~SinglePart => Injector!Spec /\ []~SinglePart
    BY InjectorParts, PTL DEF MCSpec, Injector!Spec
  <1>2. MCSpec /\ SinglePart => Inject1!Spec /\ []SinglePart
    BY InjectorParts, PTL DEF MCSpec, Inject1!Spec
  <1>3. /\ ~SinglePart /\ Injector!TypeOK /\ Injector!DeliveredAsSent
           /\ Injector!BuffersAccounted => InjectorSound
        /\ SinglePart /\ Inject1!TypeOK /\ Inject1!DeliveredAsSent
           /\ Inject1!BuffersAccounted => InjectorSound
    BY DEF InjectorSound, SinglePart
  <1>4. QED
    BY <1>1, <1>2, <1>3, WholeTheorem, SingleTheorem, PTL
=============================================================================
