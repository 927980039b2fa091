------------------------------ MODULE FwftFifo ------------------------------
(***************************************************************************)
(* The small first-word-fall-through FIFO of flit_buffer.sv (fwft_fifo,    *)
(* and fwft_fifo_with_output_clear while no output bit is cleared): the    *)
(* oldest entry waits in the register dout, the others in a shift register *)
(* that moves on every write.  The header FIFOs of every input VC are made *)
(* of it.                                                                  *)
(***************************************************************************)
EXTENDS Integers, Sequences

CONSTANTS
    MaxDepth,  \* MAX_DEPTH
    DepthSpan, \* 2^DEPTHw, the number of values of depth
    Data,
    Empty      \* the contents of a register that was reset or never written

VARIABLES
    shiftreg,  \* shiftreg[1] is the entry written last; din_f when MaxDepth = 2
    dout, depth,
    taken      \* external: what the reader has taken from dout, if anything

vars == <<shiftreg, dout, depth, taken>>

HasMultiple == MaxDepth # 1 /\ depth >= 2

Shift(wr, din) ==
    shiftreg' = IF wr THEN [k \in 1 .. MaxDepth - 1 |->
                              IF k = 1 THEN din ELSE shiftreg[k-1]]
                ELSE shiftreg

OutLd(wr, rd) == IF MaxDepth > 1 /\ depth # 0 THEN rd ELSE wr

DoutNext(din) == IF HasMultiple THEN shiftreg[depth - 1] ELSE din

DepthNext(wr, rd) ==
    CASE wr /\ ~rd -> (depth + 1) % DepthSpan
      [] ~wr /\ rd -> (depth - 1) % DepthSpan
      [] OTHER     -> depth

\* The assertions of the module, with IGNORE_SAME_LOC_RD_WR_WARNING set:
\* what its users may do.
Legal(wr, rd) ==
    /\ wr => rd \/ depth # MaxDepth
    /\ rd => wr \/ depth # 0

Clock(wr, din, rd) ==
    /\ Legal(wr, rd)
    /\ Shift(wr, din)
    /\ dout' = IF OutLd(wr, rd) THEN DoutNext(din) ELSE dout
    /\ depth' = DepthNext(wr, rd)
    /\ taken' = IF rd /\ depth # 0 THEN dout ELSE Empty

Init ==
    /\ shiftreg = [k \in 1 .. MaxDepth - 1 |-> Empty]
    /\ dout = Empty /\ depth = 0 /\ taken = Empty

Next == \E wr, rd \in BOOLEAN, din \in Data : Clock(wr, din, rd)

Spec == Init /\ [][Next]_vars

-----------------------------------------------------------------------------

\* The queue in the registers: dout, then the entries that the reads to come
\* will select, the last one being the newest of the shift register.
Contents ==
    [k \in 1 .. depth |-> IF k = 1 THEN dout ELSE shiftreg[depth + 1 - k]]

Abstract == INSTANCE Fifo WITH
    Chan <- {1}, NoChan <- 0, Reset <- Empty, Depth <- MaxDepth, Bypass <- FALSE,
    queue <- [c \in {1} |-> Contents], out <- taken

\* fwft_fifo is a FIFO: what a read finds on dout is the oldest entry, also
\* when the FIFO is full, and when it is written in the same cycle.
ImplementsFifo == Abstract!Spec
=============================================================================
