------------------------------ MODULE MCFifos -------------------------------
(* Either the flit buffer, or the two first-word-fall-through FIFOs with the *)
(* same depth and the same signals, as if one replaced the other.            *)
EXTENDS FlitBuffer

CONSTANTS MaxDepth, DepthSpan, Data

ASSUME FwftAssumption ==
    MaxDepth \in Nat \ {0} /\ DepthSpan \in Nat /\ DepthSpan > MaxDepth

\* The FIFO over a block RAM has one entry beside the RAM.
ASSUME BramAssumption == MaxDepth >= 2

VARIABLES part,
          shiftreg, dout, fwftDepth, fwftTaken,
          outReg, outValid, bramOutIsValid, bramDepth, bramRam, bramRdPtr,
          bramWrPtr, ramDepth, bramDout, bramTaken

Fwft == INSTANCE FwftFifo WITH depth <- fwftDepth, taken <- fwftTaken

Bram == INSTANCE FwftFifoBram WITH
            valid <- outValid, depth <- bramDepth, taken <- bramTaken,
            ram <- bramRam, rdPtr <- bramRdPtr, wrPtr <- bramWrPtr

fifoVars == <<shiftreg, dout, fwftDepth, fwftTaken,
              outReg, outValid, bramOutIsValid, bramDepth, bramRam, bramRdPtr,
              bramWrPtr, ramDepth, bramDout, bramTaken>>

MCInit == part \in {"flits", "fifos"} /\ Init /\ Fwft!Init /\ Bram!Init

FifoClock == \E wr, rd \in BOOLEAN, din \in Data :
                Fwft!Clock(wr, din, rd) /\ Bram!Clock(wr, din, rd)

MCNext ==
    \/ part = "flits" /\ Next /\ UNCHANGED <<part, fifoVars>>
    \/ part = "fifos" /\ FifoClock /\ UNCHANGED <<part, vars>>

MCSpec == MCInit /\ [][MCNext]_<<part, vars, fifoVars>>

\* Each VC of the flit buffer is a FIFO, and its tail flags belong to the flits
\* that are next.
FlitBufferIsFifo == ImplementsFifo /\ [](TypeOK /\ TailFlagOfNextFlit)

\* Both first-word-fall-through FIFOs are FIFOs.
FwftFifosAreFifos == Fwft!ImplementsFifo /\ Bram!ImplementsFifo

=============================================================================
