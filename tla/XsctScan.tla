------------------------------ MODULE XsctScan ------------------------------
(***************************************************************************)
(* How the loader for xsct writes a scan and reads the answer: as hex       *)
(* digits, byte by byte, least significant byte first, with the update code *)
(* that the bridge looks for in the four bits above the data.  Strings are  *)
(* sequences of digits 0..15, as they are sent; a long value is split into  *)
(* machine words of WordDigits digits, least significant word first.        *)
(***************************************************************************)
EXTENDS Integers, Sequences, SequencesExt, FiniteSetsExt

CONSTANTS WordDigits,   \* hex digits of an unsigned: 8
          DataWidths,   \* bits of the bridge's data register, multiples of 8
          Values,       \* data sent and captured
          LongDigits    \* lengths of the hex numbers given to send_data

VARIABLES width, sent, code, inReg, held, answer, number, cut

vars == <<width, sent, code, inReg, held, answer, number, cut>>

UPDATE_INDEX == 1
UPDATE_IR    == 2
UPDATE_DAT   == 4

Zeros(n)  == [i \in 1 .. n |-> 0]
Value(s)  == FoldLeft(LAMBDA v, d : 16 * v + d, 0, s)
Digit(v, i) == (v \div 16^i) % 16                     \* i counted from the least significant
Hex(v, n) == [i \in 1 .. n |-> Digit(v, n - i)]       \* %0nx
Short(v)  == Hex(v, Max({1} \cup {i + 1 : i \in {j \in 0 .. 2 * WordDigits : Digit(v, j) # 0}}))  \* %x
-----------------------------------------------------------------------------

\* the bytes of a string of an even number of digits, in the opposite order
jtag_reorder(s) == FlattenSeq(Reverse([b \in 1 .. Len(s) \div 2 |-> SubSeq(s, 2 * b - 1, 2 * b)]))

hextostring_xsct(val, sz) ==
  LET top == Reverse(val)[1]
      tmp == Short(top) \o FlattenSeq([i \in 1 .. Len(val) - 1 |-> Hex(Reverse(val)[i + 1], WordDigits)])
      digits == 2 * ((sz + 7) \div 8)
  IN  jtag_reorder(Zeros(Max({0, digits - Len(tmp)})) \o tmp)

\* The code replaces the digit that starts at bit sz - 4 and ends the string; sizes that are not
\* a multiple of four take the other branch, which no register of whole bytes needs.
add_update_state(s, update, sz) == Append(SubSeq(s, 1, sz \div 4), update)

Scan(val, update, sz) == add_update_state(hextostring_xsct(val, sz), update, sz)

\* the shift register after the scan: byte k of the string holds bits 8k .. 8k+7
Shifted(s) ==
  LET padded == s \o Zeros(Len(s) % 2)
  IN  FoldLeft(+, 0, [i \in DOMAIN padded |->
        padded[i] * 16^(IF i % 2 = 1 THEN i ELSE i - 2)])

\* what xsct prints of a captured register: its bytes, least significant first
Printed(reg, sz) == jtag_reorder(Hex(reg, 2 * ((sz + 7) \div 8)))

remove_state(s) == SubSeq(s, 1, Len(s) - 2)
read_xsct(s) == Value(jtag_reorder(remove_state(s)))
-----------------------------------------------------------------------------
Words(s) == (Len(s) + WordDigits - 1) \div WordDigits

\* hexcut of the xsct loader: the last piece starts at 0 and is as long as the others
hexcut_xsct(s) ==
  [k \in 1 .. Words(s) |->
     LET start == Max({0, Len(s) - k * WordDigits})
     IN  Value(SubSeq(s, start + 1, Min({start + WordDigits, Len(s)})))]

\* hexcut of the others: each piece is cut off the string before the next is read
hexcut(s) ==
  [k \in 1 .. Words(s) |->
     Value(SubSeq(s, Max({0, Len(s) - k * WordDigits}) + 1, Len(s) - (k - 1) * WordDigits))]

hexgen(val) ==
  FlattenSeq([i \in DOMAIN val |->
     IF i = 1 THEN Short(Reverse(val)[1]) ELSE Hex(Reverse(val)[i], WordDigits)])
-----------------------------------------------------------------------------
Init ==
  /\ width \in DataWidths /\ sent \in Values /\ code \in {UPDATE_INDEX, UPDATE_IR, UPDATE_DAT}
  /\ held \in Values /\ sent < 2^width /\ held < 2^width
  /\ \E n \in LongDigits : number \in {Hex(v, n) : v \in Values}
  /\ inReg = <<>> /\ answer = -1 /\ cut = <<>>

\* jtag_vindex, jtag_vir, jtag_vdr: shift the data in, take the held data out
Exchange ==
  /\ inReg = <<>>
  /\ LET val == hexcut(Hex(sent, width \div 4))
         reg == Shifted(Scan(val, code, width + 4))
     IN  inReg' = <<reg % 2^width, (reg \div 2^width) % 16>>
  /\ answer' = read_xsct(Printed(held, width + 4))
  /\ UNCHANGED <<width, sent, code, held, number, cut>>

\* vdr_large: a number of the command line is cut into words and shown again
Cut ==
  /\ cut = <<>> /\ inReg # <<>>
  /\ cut' = <<hexgen(hexcut(number)), hexgen(hexcut_xsct(number))>>
  /\ UNCHANGED <<width, sent, code, inReg, held, answer, number>>

Next == Exchange \/ Cut

Spec == Init /\ [][Next]_vars
-----------------------------------------------------------------------------
\* The bridge finds in its register the data that was given and, above it, the update code, and
\* the data it held comes back as it was; a number cut into words is put together again.
ScanIsExact ==
  /\ inReg # <<>> => inReg = <<sent, code>> /\ answer = held
  /\ cut # <<>> => /\ Value(cut[1]) = Value(number)
                   /\ Len(number) % WordDigits = 0 => Value(cut[2]) = Value(number)
=============================================================================
