---------------------------- MODULE MemoryFiles ----------------------------
(***************************************************************************)
(* The files a memory of the FPGA or of a simulation starts with.  ihex2mif *)
(* loads Intel HEX and lists the words with runs of zeros put together;     *)
(* bin2mif, bin2mem and bin2str take a binary file word by word.  The first *)
(* can also write Intel HEX (save_file, hexout).  A word is its Word bytes, *)
(* most significant first: four in ihex2mif, an option of the others.       *)
(***************************************************************************)
EXTENDS HexRecord, FiniteSets, FiniteSetsExt

CONSTANTS Files,        \* Intel HEX files to load, as sequences of records
          Saves,        \* [memory, begin, end]: what save_file is asked to write
          Ends,         \* -e: <<>>, or <<the end address>>
          Binaries,     \* binary files, as sequences of bytes
          Word,         \* bytes of a word: mem_width / 8, and the 4 of ihex2mif
          MAXHEXLINE,   \* 32
          Top           \* last address that is looked at

VARIABLES todo, saved, end_addr, memory, maxaddr, ram_addr, mif,     \* ihex2mif
          bin, words                                                 \* the others

loader == <<todo, saved, end_addr, memory, maxaddr>>
vars   == <<loader, ram_addr, mif, bin, words>>
-----------------------------------------------------------------------------
(* save_file: bytes one by one into hexout, which fills a line. *)
Line(h) == <<Record(DATA_RECORD, h.buffer_addr, h.byte_buffer)>>

Dumps(h, at, end) ==
  at # h.last_mem + 1 \/ Len(h.byte_buffer) >= MAXHEXLINE \/ (end /\ h.byte_buffer # <<>>)

hexout(h, byte, at, end) ==
  LET s == IF h.writing THEN h
           ELSE [h EXCEPT !.last_mem = at - 1, !.byte_buffer = <<>>, !.buffer_addr = at, !.writing = TRUE]
      d == IF Dumps(s, at, end)
           THEN [s EXCEPT !.text = @ \o Line(s), !.buffer_addr = at, !.byte_buffer = <<>>] ELSE s
  IN  [d EXCEPT !.text = IF end THEN Append(@, Record(END_OF_FILE_RECORD, 0, <<>>)) ELSE @,
                !.writing = ~end, !.last_mem = at, !.byte_buffer = Append(@, byte)]

save_file(s) ==
  LET first == [writing |-> FALSE, last_mem |-> 0, byte_buffer |-> <<>>, buffer_addr |-> 0, text |-> <<>>]
      last  == FoldLeft(LAMBDA h, k : hexout(h, s.memory[s.begin + k], s.begin + k, FALSE), first,
                        [k \in 1 .. s.end - s.begin + 1 |-> k - 1])
  IN  hexout(last, 0, 0, TRUE).text
-----------------------------------------------------------------------------
(* load_file: a line that parse_hex_line refuses is reported and left out;  *)
(* only the end record stops, other types change nothing.                   *)
parse_hex_line(line) ==
  Len(line) >= 6 /\ line[1] = Start /\ Len(line) >= 6 + line[2] /\ Total(SubSeq(line, 2, 6 + line[2])) = 0

AddrOf(line) == 256 * line[3] + line[4]
DataOf(line) == SubSeq(line, 6, 5 + line[2])

LoadLine ==
  /\ todo # <<>>
  /\ LET line == Head(todo)
         at   == AddrOf(line)
         data == DataOf(line)
     IN  \/ /\ parse_hex_line(line) /\ line[5] = DATA_RECORD
            /\ memory' = [a \in DOMAIN memory |->
                            IF a >= at /\ a < at + Len(data) THEN data[a - at + 1] ELSE memory[a]]
            /\ maxaddr' = Max({maxaddr} \cup {at + k - 1 : k \in DOMAIN data})
            /\ todo' = Tail(todo)
         \/ /\ parse_hex_line(line) /\ line[5] = END_OF_FILE_RECORD
            /\ todo' = <<>> /\ UNCHANGED <<memory, maxaddr>>
         \/ /\ ~(parse_hex_line(line) /\ line[5] \in {DATA_RECORD, END_OF_FILE_RECORD})
            /\ todo' = Tail(todo) /\ UNCHANGED <<memory, maxaddr>>
  /\ UNCHANGED <<saved, end_addr, ram_addr, mif, bin, words>>
-----------------------------------------------------------------------------
(* update_out_file: a word, or a run of zeros and the word that ends it. *)
end_addr_int == IF end_addr = <<>> THEN maxaddr ELSE end_addr[1]

WordAt(a) == [i \in 1 .. Word |-> memory[a + i - 1]]
Zero      == [i \in 1 .. Word |-> 0]
Entry(from, to, w) == [from |-> from, to |-> to, word |-> w]

zero_count(a) == Min({n \in 0 .. Top : WordAt(a + Word * n) # Zero \/ a + Word * n >= end_addr_int})

UpdateOutFile ==
  /\ todo = <<>> /\ ram_addr < end_addr_int
  /\ LET zeros == zero_count(ram_addr)
         first == ram_addr \div Word
         w     == WordAt(ram_addr + Word * zeros)
     IN  /\ mif' = mif \o (IF zeros = 0 THEN <<Entry(first, first, w)>>
                           ELSE <<Entry(first, first + zeros - 1, Zero)>> \o
                                (IF w # Zero THEN <<Entry(first + zeros, first + zeros, w)>> ELSE <<>>))
         /\ ram_addr' = ram_addr + Word * zeros + Word
  /\ UNCHANGED <<loader, bin, words>>
-----------------------------------------------------------------------------
(* The binary file word by word.  feof is true only after a read has failed: *)
(* bin2mif and bin2mem notice it at once and leave the word as far as it is, *)
(* bin2str takes the failed read for a byte 255 and pads the last word.      *)
sz_word == (Len(bin) + Word - 1) \div Word

\* Mutation: a byte is read to see whether the file goes on, and lost
PiecesAfterTest(b) == [k \in 1 .. (Len(b) + Word - 1) \div Word |->
                         SubSeq(b, (k - 1) * (Word + 1) + 1, Min({(k - 1) * (Word + 1) + Word, Len(b)}))]

Pieces(b) == [k \in 1 .. (Len(b) + Word - 1) \div Word |->
                SubSeq(b, (k - 1) * Word + 1, Min({k * Word, Len(b)}))]

bin2mif == [k \in 1 .. sz_word |-> Entry(k - 1, k - 1, Pieces(bin)[k])]
bin2mem == [k \in 1 .. sz_word |-> <<k - 1, Pieces(bin)[k]>>]       \* @address word

WithEof(b) == Append(b, 255)

bin2str ==
  [k \in DOMAIN Pieces(WithEof(bin)) |->
     LET p == Pieces(WithEof(bin))[k] IN p \o [i \in 1 .. Word - Len(p) |-> 0]]

Convert ==
  /\ words = <<>> /\ bin # <<>>
  /\ words' = <<bin2mif, bin2mem, bin2str>>
  /\ UNCHANGED <<loader, ram_addr, mif, bin>>
-----------------------------------------------------------------------------
Init ==
  /\ \/ \E s \in Saves : saved = <<s>> /\ todo = save_file(s) /\ bin = <<>>
     \/ saved = <<>> /\ todo \in Files /\ bin = <<>>
     \/ saved = <<>> /\ todo = <<>> /\ bin \in Binaries
  /\ end_addr \in Ends
  /\ memory = [a \in 0 .. Top + Word * (Top + 2) |-> 0]
  /\ maxaddr = 0 /\ ram_addr = 0 /\ mif = <<>> /\ words = <<>>

Next == LoadLine \/ UpdateOutFile \/ Convert

Spec == Init /\ [][Next]_vars
-----------------------------------------------------------------------------
Done == todo = <<>> /\ ram_addr >= end_addr_int

\* Every word of the memory up to the end is listed once, with the bytes that were loaded, and
\* nothing is listed beyond the depth; a part of a memory that was saved comes back.  (An end at
\* the first byte of a word leaves that word out, and one before the end of the file may list a
\* word beyond the depth.)
MifIsMemory ==
  /\ Done /\ end_addr_int % Word # 0 /\ end_addr_int >= maxaddr =>
       \A k \in 0 .. end_addr_int \div Word :
         LET of == {i \in DOMAIN mif : k \in mif[i].from .. mif[i].to}
         IN  /\ \A i \in of : mif[i].word = WordAt(k * Word)
             /\ Cardinality(of) = 1
             /\ \A i \in DOMAIN mif : mif[i].to <= end_addr_int \div Word
  /\ saved # <<>> /\ todo = <<>> =>
       \A a \in 0 .. Top :
         memory[a] = IF a \in saved[1].begin .. saved[1].end THEN saved[1].memory[a] ELSE 0

\* The three files made of a binary file hold its words at their places.
WordsAgree ==
  words # <<>> =>
    \A k \in 1 .. Len(bin) \div Word :
      LET w == SubSeq(bin, (k - 1) * Word + 1, k * Word)
      IN  words[1][k] = Entry(k - 1, k - 1, w) /\ words[2][k] = <<k - 1, w>> /\ words[3][k] = w
=============================================================================
