---------------------------- MODULE FwftFifoBram ----------------------------
(***************************************************************************)
(* The first-word-fall-through FIFO over a block RAM of flit_buffer.sv     *)
(* (fwft_fifo_bram over bram_based_fifo).  The RAM answers one cycle after *)
(* a read, so the oldest entry waits in out_reg, or is still on the RAM's  *)
(* output, and entries go round the RAM while that is empty.               *)
(***************************************************************************)
EXTENDS Integers, Sequences

CONSTANTS
    MaxDepth,  \* MAX_DEPTH, at least 2
    Data,
    Empty      \* the contents of a register that was reset or never written

VARIABLES
    outReg, valid, bramOutIsValid, depth,       \* fwft_fifo_bram
    ram, rdPtr, wrPtr, ramDepth, bramDout,      \* bram_based_fifo
    taken                                       \* external: what the reader has taken

vars == <<outReg, valid, bramOutIsValid, depth,
          ram, rdPtr, wrPtr, ramDepth, bramDout, taken>>

Dout == IF bramOutIsValid THEN bramDout ELSE outReg

\* Mutation: an entry that arrives while the last one leaves goes to the RAM.
PassInvalid(wr, rd) == wr /\ ~valid
PassDinToOutReg(wr, rd) == wr /\ (~valid \/ (ramDepth = 0 /\ rd))

BramRdEn(rd) == rd /\ ramDepth # 0

DepthNext(n, wr, rd) == n + (IF wr THEN 1 ELSE 0) - (IF rd THEN 1 ELSE 0)

PtrNext(p) == IF p = MaxDepth - 1 THEN 0 ELSE p + 1

BramFifo(wr, din, rd) ==
    /\ ram' = IF wr THEN [ram EXCEPT ![wrPtr] = din] ELSE ram
    /\ bramDout' = IF rd THEN ram[rdPtr] ELSE bramDout
    /\ wrPtr' = IF wr THEN PtrNext(wrPtr) ELSE wrPtr
    /\ rdPtr' = IF rd THEN PtrNext(rdPtr) ELSE rdPtr
    /\ ramDepth' = DepthNext(ramDepth, wr, rd)

ValidNext(wr, rd) ==
    IF DepthNext(depth, wr, rd) = 0 THEN FALSE
    ELSE IF PassDinToOutReg(wr, rd) \/ bramOutIsValid THEN TRUE
    ELSE IF ramDepth = 0 /\ rd THEN FALSE
    ELSE valid

\* The assertions of the module, with IGNORE_SAME_LOC_RD_WR_WARNING set.
Legal(wr, rd) == (wr => rd \/ depth # MaxDepth) /\ (rd => wr \/ depth # 0)

Clock(wr, din, rd) ==
    /\ Legal(wr, rd)
    /\ outReg' = IF PassDinToOutReg(wr, rd) THEN din
                 ELSE IF bramOutIsValid THEN bramDout ELSE outReg
    /\ valid' = ValidNext(wr, rd)
    /\ bramOutIsValid' = BramRdEn(rd)
    /\ depth' = DepthNext(depth, wr, rd)
    /\ BramFifo(wr /\ ~PassDinToOutReg(wr, rd), din, BramRdEn(rd))
    /\ taken' = IF rd /\ depth # 0 THEN Dout ELSE Empty

Init ==
    /\ outReg = Empty /\ valid = FALSE /\ bramOutIsValid = FALSE /\ depth = 0
    /\ ram = [a \in 0 .. MaxDepth - 1 |-> Empty]
    /\ rdPtr = 0 /\ wrPtr = 0 /\ ramDepth = 0 /\ bramDout = Empty
    /\ taken = Empty

Next == \E wr, rd \in BOOLEAN, din \in Data : Clock(wr, din, rd)

Spec == Init /\ [][Next]_vars

-----------------------------------------------------------------------------

\* The entries: the one on the output, of which the source takes that it is
\* there when depth is not 0, and those in the RAM, from its read pointer on.
Contents ==
    [k \in 1 .. depth |->
        IF k = 1 THEN Dout ELSE ram[(rdPtr + k - 2) % MaxDepth]]

Abstract == INSTANCE Fifo WITH
    Chan <- {1}, NoChan <- 0, Reset <- Empty, Depth <- MaxDepth, Bypass <- FALSE,
    queue <- [c \in {1} |-> Contents], out <- taken

\* It is a FIFO: whatever the reader and the writer do in the cycle in which
\* the RAM's answer is due, no entry is lost, repeated or overtaken.
ImplementsFifo == Abstract!Spec
=============================================================================
