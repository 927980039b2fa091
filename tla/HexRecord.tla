------------------------------ MODULE HexRecord ------------------------------
(***************************************************************************)
(* A record of the Intel HEX format as its bytes: length, two of address,   *)
(* type, data and a checksum that brings the sum of all to 0 modulo 256.    *)
(* The two hex digits of a byte are one symbol here, and Start is the colon *)
(* a record begins with.                                                    *)
(***************************************************************************)
EXTENDS Integers, Sequences, Folds, SequencesExt

Start == -1
Bank  == 65536            \* addresses that two bytes can tell apart

DATA_RECORD             == 0
END_OF_FILE_RECORD      == 1
EXTENDED_SEGMENT_RECORD == 2
EXTENDED_LINEAR_RECORD  == 4

Total(bytes)    == FoldLeft(+, 0, bytes) % 256
Checksum(bytes) == (256 - Total(bytes)) % 256

Record(type, addr, data) ==
  LET b == <<Len(data), addr \div 256, addr % 256, type>> \o data
  IN  <<Start>> \o Append(b, Checksum(b))
=============================================================================
