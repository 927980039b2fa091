----------------------------- MODULE FlitBuffer -----------------------------
(***************************************************************************)
(* The flit buffer of an input port (flit_buffer of flit_buffer.sv, unicast  *)
(* configuration): all virtual channels in one RAM with one write and one  *)
(* read port, each with its own pointers and depth.  When B is a power of  *)
(* two a pointer wraps by its width and the RAM address is {vc, pointer};  *)
(* otherwise the pointer of channel v runs in B*v .. B*(v+1)-1 and is the  *)
(* address itself.  The RAM output is registered; with SSA_EN a flit that  *)
(* is read by the static straight allocator in the cycle it is written     *)
(* comes from a bypass register instead.                                   *)
(***************************************************************************)
EXTENDS Integers, Sequences

CONSTANTS
    V,         \* PORT_IVC, virtual channels of the port
    B,         \* PORT_B, flits per virtual channel
    PowerOf2,  \* (2**PORT_Bw) == PORT_B
    SsaEn,     \* SSA_EN
    Body, Tl,  \* the flits: not the last, or the last flit of a packet
    Empty      \* a RAM word, or a register without reset, never written

ASSUME FlitBufferAssumption ==
    /\ V \in Nat \ {0} /\ B \in Nat \ {0}
    /\ PowerOf2 \in BOOLEAN /\ SsaEn \in BOOLEAN
    /\ Empty \notin Body \cup Tl /\ Body \cap Tl = {}

Vc   == 0 .. V - 1
NoVc == -1
Flit == Body \cup Tl

VARIABLES
    ram,                    \* queue
    rdPtr, wrPtr, depth,    \* per VC
    tailFifo,               \* tail_fifo: the tail flag of each RAM word
    ramOut, bypassReg, rdEnDelayed,
    valid                   \* external: the grant one cycle later, when
                            \* dout is taken

vars == <<ram, rdPtr, wrPtr, depth, tailFifo, ramOut, bypassReg, rdEnDelayed,
          valid>>

First(v) == IF PowerOf2 THEN 0 ELSE B * v

PtrNext(v, p) ==
    IF PowerOf2 THEN (p + 1) % B
    ELSE IF p = B * (v + 1) - 1 THEN B * v ELSE p + 1

\* The RAM address; the tail flags are indexed by its place within the VC.
Addr(v, p)  == IF PowerOf2 THEN B * v + p ELSE p
Place(v, p) == p - First(v)

DepthNext(v, w, r) ==
    CASE v = w /\ v # r -> depth[v] + 1
      [] v # w /\ v = r -> depth[v] - 1
      [] OTHER          -> depth[v]

\* Mutation: the flag after the one of the next flit.
FlitIsTailNext(v) == tailFifo[v][Place(v, PtrNext(v, rdPtr[v]))]
FlitIsTail(v) == tailFifo[v][Place(v, rdPtr[v])]

VcNotEmpty(v) == depth[v] > 0

\* fifo_ram: the old word is read when the same word is written.
RamPorts(w, din, r) ==
    /\ ram' = IF w = NoVc THEN ram ELSE [ram EXCEPT ![Addr(w, wrPtr[w])] = din]
    /\ ramOut' = IF r = NoVc THEN ramOut ELSE ram[Addr(r, rdPtr[r])]
    /\ rdEnDelayed' = (r # NoVc)

\* wr_data is sampled in every cycle; it carries no flit when none is written.
BypassPort(w, din) == bypassReg' = IF SsaEn /\ w # NoVc THEN din ELSE Empty

Dout == IF SsaEn /\ ~rdEnDelayed THEN bypassReg ELSE ramOut

\* Write din to VC w; read VC r, or let the straight allocator read VC s.
\* rd_en takes precedence over ssa_rd; both are wired from allocators that
\* never ask together, and ss_allocator only reads what is being written to
\* an empty VC.
Clock(w, din, r, s) ==
    LET rd == IF r # NoVc THEN r ELSE s IN
    /\ w # NoVc => depth[w] < B \/ rd = w
    /\ r # NoVc => VcNotEmpty(r)
    /\ s # NoVc => SsaEn /\ r = NoVc /\ s = w /\ ~VcNotEmpty(s)
    /\ RamPorts(w, din, r) /\ BypassPort(w, din)
    /\ tailFifo' = IF w = NoVc THEN tailFifo
                   ELSE [tailFifo EXCEPT ![w][Place(w, wrPtr[w])] = (din \in Tl)]
    /\ wrPtr' = [v \in Vc |-> IF v = w THEN PtrNext(v, wrPtr[v]) ELSE wrPtr[v]]
    /\ rdPtr' = [v \in Vc |-> IF v = rd THEN PtrNext(v, rdPtr[v]) ELSE rdPtr[v]]
    /\ depth' = [v \in Vc |-> DepthNext(v, w, rd)]
    /\ valid' = (rd # NoVc)

Init ==
    /\ ram = [a \in 0 .. V * B - 1 |-> Empty]
    /\ rdPtr = [v \in Vc |-> First(v)] /\ wrPtr = [v \in Vc |-> First(v)]
    /\ depth = [v \in Vc |-> 0]
    /\ tailFifo = [v \in Vc |-> [k \in 0 .. B - 1 |-> FALSE]]
    /\ ramOut = Empty /\ bypassReg = Empty /\ rdEnDelayed = FALSE
    /\ valid = FALSE

Next == \E w, r, s \in Vc \cup {NoVc}, din \in Flit : Clock(w, din, r, s)

Spec == Init /\ [][Next]_vars

-----------------------------------------------------------------------------

\* Pointers stay within the words of their VC, and depths within a VC's places.
TypeOK ==
    /\ ram \in [0 .. V * B - 1 -> Flit \cup {Empty}]
    /\ rdPtr \in [Vc -> 0 .. V * B - 1] /\ wrPtr \in [Vc -> 0 .. V * B - 1]
    /\ depth \in [Vc -> 0 .. B]
    /\ tailFifo \in [Vc -> [0 .. B - 1 -> BOOLEAN]]
    /\ {ramOut, bypassReg} \subseteq (Flit \cup {Empty})
    /\ rdEnDelayed \in BOOLEAN /\ valid \in BOOLEAN

\* The entries of VC v: depth of them from the read pointer on, round the
\* words of the VC.
Contents(v) ==
    [k \in 1 .. depth[v] |->
        ram[B * v + ((Place(v, rdPtr[v]) + k - 1) % B)]]

Abstract == INSTANCE Fifo WITH
    Chan <- Vc, NoChan <- NoVc, Data <- Flit, Reset <- Empty, Depth <- B,
    Bypass <- SsaEn, queue <- [v \in Vc |-> Contents(v)],
    out <- IF valid THEN Dout ELSE Empty

\* Every VC is a FIFO of its own although all share one RAM: no write of one
\* VC reaches the words of another, and in the cycle after a read dout is the
\* oldest flit of the VC that was read, also one that was just written.
ImplementsFifo == Abstract!Spec

\* The tail flag seen before a flit is read, on which the release of the OVC
\* and of the header FIFO depends, is that of the flit that would be read.
TailFlagOfNextFlit ==
    \A v \in Vc : VcNotEmpty(v) =>
        FlitIsTail(v) = (ram[Addr(v, rdPtr[v])] \in Tl)
=============================================================================
