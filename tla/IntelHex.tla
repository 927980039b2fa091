------------------------------ MODULE IntelHex ------------------------------
(***************************************************************************)
(* bin2ihex writes a program image as Intel HEX and ihex2bin reads one back *)
(* into a binary file.  The writer fills a record and starts an address     *)
(* record where 16 bits do not reach; the reader takes the file symbol by   *)
(* symbol, in whatever state the previous record left it.  In between, the  *)
(* file may be damaged in one byte or cut short.                            *)
(*                                                                         *)
(* Addresses stay far below 2^32, where both programs would wrap.           *)
(***************************************************************************)
EXTENDS HexRecord, FiniteSetsExt

CONSTANTS LineLength,     \* IHEX_DEFAULT_OUTPUT_LINE_LENGTH: 32
          Images,         \* the contents of binary files
          Addresses,      \* -a of bin2ihex; absent is <<>>
          Damages         \* what a damaged byte may become

VARIABLES image, given, auto, to_stdout,                      \* the files and options of a run
          buffered, lines,                                    \* the writer and its file
          fault,
          rest, r, address_offset, out, file_position, closed, exit   \* the reader

options == <<image, given, auto, to_stdout>>
writer  == <<buffered, lines>>
sink    == <<address_offset, out, file_position, closed, exit>>
vars    == <<options, writer, fault, rest, r, sink>>

High(a) == a \div Bank
-----------------------------------------------------------------------------
(* The writer: a record is held in data, at address, until it is full. *)

\* Mutation: a record that ends with its bank is not seen to end it
OverflowsBeyond(addr, len) == (Bank - 1) - addr < len - 1

\* ihex_write_data signals that the address after the record needs an address record
Overflows(addr, len) == (Bank - 1) - addr < len

ihex_write_data(w) ==
  LET len  == Len(w.data)
      addr == w.address % Bank
  IN  IF len = 0 THEN w
      ELSE [address  |-> w.address + len,
            overflow |-> Overflows(addr, len),
            data     |-> <<>>,
            text     |-> w.text \o
              (IF w.overflow
               THEN Record(EXTENDED_LINEAR_RECORD, 0, <<High(w.address) \div 256, High(w.address) % 256>>)
               ELSE <<>>) \o
              Record(DATA_RECORD, addr, w.data)]

ihex_write_byte(w, byte) ==
  LET room == IF LineLength <= Len(w.data) THEN ihex_write_data(w) ELSE w
  IN  [room EXCEPT !.data = Append(@, byte)]

ihex_write_at_address(w, a) ==
  LET flushed == ihex_write_data(w)
  IN  [flushed EXCEPT !.overflow = High(flushed.address) # High(a), !.address = a]

ihex_init == [address |-> 0, overflow |-> FALSE, data |-> <<>>, text |-> <<>>]

\* bin2ihex: an address that is given is written even when it is 0
Opened ==
  IF given = <<>> THEN ihex_write_at_address(ihex_init, 0)
  ELSE [ihex_write_at_address(ihex_init, given[1]) EXCEPT !.overflow = TRUE]

bin2ihex ==
  /\ lines = <<>>
  /\ buffered' = ihex_write_data(FoldLeft(ihex_write_byte, Opened, image))
  /\ lines' = buffered'.text \o Record(END_OF_FILE_RECORD, 0, <<>>)
  /\ rest' = lines'
  /\ UNCHANGED <<options, fault, r, sink>>
-----------------------------------------------------------------------------
(* What happens to a file on its way. *)
StartOf(i) == Max({j \in 1 .. i : lines[j] = Start})

Damage ==
  /\ lines # <<>> /\ fault = "none" /\ rest = lines /\ exit = "run"
  /\ \/ \E i \in DOMAIN lines, b \in Damages :
          /\ i - StartOf(i) \notin {0, 1, 4} /\ b # lines[i]      \* not the colon, length or type
          /\ rest' = [lines EXCEPT ![i] = b] /\ fault' = "byte"
     \/ \E n \in 1 .. Len(lines) - 1 : rest' = SubSeq(lines, 1, n) /\ fault' = "cut"
  /\ UNCHANGED <<options, writer, r, sink>>
-----------------------------------------------------------------------------
(* The reader.  buf is ihex->data: each byte goes to the place after the    *)
(* data so far, those of the head of the record too.                        *)
Auto == -1                                       \* AUTODETECT_ADDRESS

Linear(x) == x.address + 16 * x.segment          \* IHEX_LINEAR_ADDRESS
Data(x)   == [i \in 1 .. x.length |-> x.buf[i - 1]]
HeadOf(x)  == <<x.length, x.type, (x.address % Bank) % 256, (x.address % Bank) \div 256>>

Sum(x) == (Checksum(HeadOf(x) \o Data(x)) - x.buf[x.length]) % 256

\* fseek and fwrite on a file, or zeros up to the place on stdout
Place(s, at, bytes) ==
  [i \in 1 .. Max({Len(s), at + Len(bytes)}) |->
     IF i > at /\ i <= at + Len(bytes) THEN bytes[i - at] ELSE IF i <= Len(s) THEN s[i] ELSE 0]

\* what ihex_data_read of ihex2bin exits with, if it does
Refused(x) ==
  LET at == Linear(x) - (IF address_offset = Auto THEN Linear(x) ELSE address_offset)
  IN  CASE Sum(x) # 0 -> "checksum"
        [] Sum(x) = 0 /\ x.length < x.line_length -> "length"
        [] Sum(x) = 0 /\ x.length >= x.line_length /\ closed -> "excess"
        [] Sum(x) = 0 /\ x.length >= x.line_length /\ ~closed /\ x.type = DATA_RECORD /\ at < 0 -> "underflow"
        [] Sum(x) = 0 /\ x.length >= x.line_length /\ ~closed /\ x.type = DATA_RECORD
             /\ at >= 0 /\ to_stdout /\ at < file_position -> "seek"
        [] OTHER -> "no"

WriteOut(x) ==
  /\ address_offset' = IF address_offset = Auto THEN Linear(x) ELSE address_offset
  /\ out' = Place(out, Linear(x) - address_offset', Data(x))
  /\ file_position' = Linear(x) - address_offset' + x.length
  /\ UNCHANGED <<closed, exit>>

\* The record held in x is over: check it, do what it says, go on in another state.
ihex_end_read(x, state) ==
  LET over == [x EXCEPT !.state = state, !.length = 0, !.type = DATA_RECORD]
      word == 256 * x.buf[0] + x.buf[1]
  IN  IF x.length = 0 /\ x.type = DATA_RECORD
      THEN r' = over /\ UNCHANGED sink
      ELSE \/ /\ Refused(x) # "no"
              /\ exit' = Refused(x)
              /\ UNCHANGED <<r, address_offset, out, file_position, closed>>
           \/ /\ Refused(x) = "no"
              /\ r' = [over EXCEPT
                         !.address = IF x.type = EXTENDED_LINEAR_RECORD THEN (@ % Bank) + Bank * word ELSE @,
                         !.segment = IF x.type = EXTENDED_SEGMENT_RECORD THEN word ELSE @]
              /\ \/ x.type = DATA_RECORD /\ WriteOut(x)
                 \/ /\ x.type = END_OF_FILE_RECORD /\ closed' = TRUE
                    /\ UNCHANGED <<address_offset, out, file_position, exit>>
                 \/ x.type \notin {DATA_RECORD, END_OF_FILE_RECORD} /\ UNCHANGED sink

\* the bytes before the data
HeadByte(x, b) ==
  CASE x.state = "count"          -> [x EXCEPT !.line_length = b, !.state = "msb"]
    [] x.state = "msb"            -> [x EXCEPT !.address = High(@) * Bank + 256 * b, !.state = "lsb"]
    [] x.state = "lsb"            -> [x EXCEPT !.address = @ + b, !.state = "type"]
    [] x.state = "type" /\ b > 7  -> [x EXCEPT !.state = "wait"]     \* skipped silently
    [] x.state = "type" /\ b <= 7 -> [x EXCEPT !.type = b, !.state = "data"]

\* ihex_read_byte
ReadSymbol ==
  /\ exit = "run" /\ lines # <<>> /\ rest # <<>>
  /\ rest' = Tail(rest)
  /\ LET b == Head(rest)
         x == [r EXCEPT !.buf[r.length] = b]
     IN  \/ b = Start /\ ihex_end_read(r, "count")      \* in any state
         \/ b # Start /\ r.state = "wait" /\ UNCHANGED <<r, sink>>
         \/ b # Start /\ r.state \notin {"wait", "data"} /\ r' = HeadByte(x, b) /\ UNCHANGED sink
         \/ /\ b # Start /\ r.state = "data" /\ r.length < r.line_length
            /\ r' = [x EXCEPT !.length = @ + 1] /\ UNCHANGED sink
         \/ /\ b # Start /\ r.state = "data" /\ r.length >= r.line_length
            /\ ihex_end_read(x, "wait")
  /\ UNCHANGED <<options, writer, fault>>

\* the end of the input: main ends the record it is in
ReadEnd ==
  /\ exit = "run" /\ lines # <<>> /\ rest = <<>> /\ r.state # "eof"
  /\ ihex_end_read(r, "eof")
  /\ UNCHANGED <<options, writer, fault, rest>>

Exit ==
  /\ exit = "run" /\ r.state = "eof"
  /\ exit' = "success"
  /\ UNCHANGED <<options, writer, fault, rest, r, address_offset, out, file_position, closed>>

Init ==
  /\ image \in Images /\ given \in Addresses
  /\ auto \in BOOLEAN /\ to_stdout \in BOOLEAN
  /\ buffered = ihex_init /\ lines = <<>> /\ fault = "none" /\ rest = <<>>
  /\ address_offset = IF auto THEN Auto ELSE IF given = <<>> THEN 0 ELSE given[1]
  /\ r = [state |-> "wait", address |-> IF address_offset = Auto THEN 0 ELSE address_offset,
          segment |-> 0, line_length |-> 0, length |-> 0, type |-> DATA_RECORD,
          buf |-> [i \in 0 .. Max({LineLength, 2}) |-> 0]]
  /\ out = <<>> /\ file_position = 0 /\ closed = FALSE /\ exit = "run"

Next == bin2ihex \/ Damage \/ ReadSymbol \/ ReadEnd \/ Exit

Spec == Init /\ [][Next]_vars
-----------------------------------------------------------------------------
\* An image comes back as it was, across every bank border, wherever it was to be placed.
ImageComesBack ==
  fault = "none" => exit \in {"run", "success"} /\ (exit = "success" => out = image)

\* A byte damaged in an address, in the data or in a checksum is noticed; a file cut short gives
\* an error or the first bytes of the image, never other ones.
DamageIsNoticed ==
  exit = "success" => /\ fault # "byte"
                      /\ fault = "cut" => IsPrefix(out, image)
=============================================================================
