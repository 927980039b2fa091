----------------------------- MODULE MCHostTools -----------------------------
(***************************************************************************)
(* The programs that run on the host, for TLC: in a behaviour one of them   *)
(* runs, and the slots s1 .. s18 are its variables.  A slot that it does    *)
(* not use stays 0.                                                        *)
(***************************************************************************)
EXTENDS Integers, Sequences, SequencesExt

CONSTANTS Scripted,      \* whether program.sh, which holds the CPU, runs the loader
          MaxGlitches    \* bound: faults of the JTAG link in one behaviour

VARIABLES part, s1, s2, s3, s4, s5, s6, s7, s8, s9, s10, s11, s12, s13, s14, s15, s16, s17, s18

Slots9  == <<s9, s10, s11, s12, s13, s14, s15, s16, s17, s18>>
Slots10 == <<s10, s11, s12, s13, s14, s15, s16, s17, s18>>
Slots13 == <<s13, s14, s15, s16, s17, s18>>
vars    == <<part, s1, s2, s3, s4, s5, s6, s7, s8, Slots9>>

Unused13 == s13 = 0 /\ s14 = 0 /\ s15 = 0 /\ s16 = 0 /\ s17 = 0 /\ s18 = 0
Unused10 == s10 = 0 /\ s11 = 0 /\ s12 = 0 /\ Unused13
Unused9  == s9 = 0 /\ Unused10
-----------------------------------------------------------------------------
(* The loaders: words of one and of two machine words, a file that ends      *)
(* within a word, every option.                                             *)
Job(bytes, flags) == [bytes |-> bytes, flags |-> flags, data |-> <<>>]

CONSTANTS Jobs, Files

Load == INSTANCE JtagLoader WITH
  Offset <- 1, MemSize <- 12, SectionWords <- 2, MISS_RETRY_NUM <- 1, MaxStores <- 2,
  tool <- s1, job <- s2, file <- s3, mem <- s4, ir <- s5, addr <- s6, rd <- s7, cpu <- s8,
  phase <- s9, plan <- s10, got <- s11, shown <- s12, sec <- s13, miss <- s14, printed <- s15,
  verdict <- s16, result <- s17, glitches <- s18

ReadOne  == <<<<"I", 5>>, <<"R", 1>>>>     \* UPDATE_WB_RD_DATA, then address 1
LoaderJobs ==
  {Job(b, f) : b \in {4, 8}, f \in {{"i"}, {"i", "c"}, {"i", "c", "r"}, {"r"}}} \cup
  {Job(4, {"v"}), [bytes |-> 4, flags |-> {"d"}, data |-> ReadOne]}
LoaderFiles ==
  {[size |-> 4 * Len(c), chunks |-> c] : c \in {<<1, 2, 3>>, <<1, 1, 2, 1>>}} \cup
  {[size |-> 10, chunks |-> <<1, 2, 3>>]}
-----------------------------------------------------------------------------
(* Scans as xsct's hex digits: machine words of two digits. *)
Digits == INSTANCE XsctScan WITH
  WordDigits <- 2, DataWidths <- {8, 16}, Values <- {0, 1, 16, 18, 171, 4660, 65520},
  LongDigits <- {2, 3, 4},
  width <- s1, sent <- s2, code <- s3, inReg <- s4, held <- s5, answer <- s6, number <- s7, cut <- s8
-----------------------------------------------------------------------------
(* Scans as bytes for the USB blaster: short and long ones, hubs of every kind. *)
Scan(ir, bits, o, long) == [ir |-> ir, bits |-> bits, out |-> o, long |-> long]
UsbRows ==
  {<<Scan(TRUE, <<0, 1, 1>>, FALSE, FALSE), Scan(FALSE, <<1, 0, 1, 1>>, TRUE, l),
     Scan(FALSE, <<0, 1, 0, 0>>, TRUE, TRUE)>> : l \in BOOLEAN} \cup
  {<<Scan(FALSE, <<1, 0, 0, 1, 1, 0, 1, 0, 1>>, TRUE, TRUE), Scan(TRUE, <<1, 1, 0>>, o, FALSE),
     Scan(FALSE, <<0, 0, 1, 0, 1, 1, 0, 1, 1>>, TRUE, TRUE)>> : o \in BOOLEAN}
Node(id, iid) == [id |-> id, iid |-> iid]
UsbHubs ==
  {[irWidth |-> 3, nodes |-> s] :
     s \in {<<>>, <<Node(8, 126)>>, <<Node(4, 126), Node(8, 127), Node(8, 126)>>,
            <<Node(8, 1), Node(8, 2), Node(8, 3), Node(8, 4)>>}}

Usb == INSTANCE UsbBlaster WITH
  Packet <- 6, Transfers <- {1, 2, 4, 7, 9}, Rows <- UsbRows, Hubs <- UsbHubs,
  hub <- s1, wanted <- s2, vir_addr <- s3, vir_width <- s4, row <- s5, clocks <- s6, back <- s7,
  tap <- s8, shiftr <- s9, IReg <- s10, DReg <- s11, pending <- s12, out <- s13, expected <- s14
-----------------------------------------------------------------------------
(* The pipes to the vendor's shell: buffers of three commands and four lines. *)
PipeJobs ==
  [xsct |-> {<<"vir", "vdr", "vdrOut", "vdr", "vdrOut", "close">>,
             <<"vir", "multi", "vdrOut", "multiOut", "vdr", "vdrOut", "close">>},
   stp  |-> {<<"vir", "vdr", "vir", "vdrOut", "vdr", "vdrOut", "close">>,
             <<"vir", "vdrOut", "vir", "vdr", "vdr", "vdr", "vdrOut", "close">>}]
Banners == [xsct |-> {<<"blank", "blank">>, <<"text", "blank", "text", "blank", "blank">>},
            stp  |-> {<<"blank">>, <<"text", "text", "blank">>}]

Pipe == INSTANCE ShellPipe WITH
  Dialects <- {"xsct", "stp"}, Jobs <- PipeJobs, Banner <- Banners, BufferSize <- 3, PipeSize <- 4,
  dialect <- s1, calls <- s2, steps <- s3, scan <- s4, buffer <- s5, to <- s6, from <- s7,
  printing <- s8, data <- s9, failed <- s10, results <- s11, state <- s12

(* The terminal: two UARTs, buffers of four bytes. *)
Uart == INSTANCE UartTerminal WITH
  UartNum <- 2, BuffWidth <- 4,
  Prints <- {<<97, 98, 10, 99, 97, 98, 99>>, <<97, 0, 255, 98>>, <<10, 10, 97, 97, 97, 97, 97>>, <<>>},
  fifo <- s1, printed <- s2, write_log_file <- s3, buffer <- s4, temp <- s5, outfile <- s6,
  index <- s7, state <- s8
-----------------------------------------------------------------------------
(* Intel HEX: records of two bytes, images around the border of a bank. *)
Hex == INSTANCE IntelHex WITH
  LineLength <- 2, Images <- {<<>>, <<255>>, <<1, 2>>, <<0, 7, 7, 1>>, <<0, 0, 255, 16, 1>>},
  Addresses <- {<<>>, <<0>>, <<3>>, <<65532>>, <<65533>>, <<65534>>, <<65535>>, <<131071>>},
  Damages <- {0, 1, 255},
  image <- s1, given <- s2, auto <- s3, to_stdout <- s4, buffered <- s5, lines <- s6, fault <- s7,
  rest <- s8, r <- s9, address_offset <- s10, out <- s11, file_position <- s12, closed <- s13,
  exit <- s14

(* Memory files: words of two bytes, two records that may overlap. *)
D(a, d) == Hex!Record(Hex!DATA_RECORD, a, d)
E       == Hex!Record(Hex!END_OF_FILE_RECORD, 0, <<>>)
Bytes   == {<<0>>, <<7>>, <<0, 0>>, <<5, 0>>, <<0, 0, 0, 6>>, <<1, 2, 3, 4>>}
HexFiles ==
  {<<D(a, d), D(b, e), E>> : a \in {0, 3}, b \in {4, 8, 11}, d \in Bytes, e \in Bytes} \cup
  {<<D(4, <<9, 8>>), Hex!Record(Hex!EXTENDED_LINEAR_RECORD, 0, <<0, 0>>), D(0, <<3>>), E, D(6, <<1>>)>>,
   <<D(0, <<3, 4>>), Append(Front(D(2, <<5, 6>>)), 1), D(5, <<7>>), E>>}
Saved(m, b, e) == [memory |-> [a \in 0 .. 19 |-> IF a < Len(m) THEN m[a + 1] ELSE 0],
                   begin |-> b, end |-> e]

Mem == INSTANCE MemoryFiles WITH
  Files <- HexFiles, Ends <- {<<>>, <<15>>, <<6>>}, Word <- 2, MAXHEXLINE <- 2, Top <- 17,
  Saves <- {Saved(<<1, 2, 0, 0, 0, 0, 4, 5>>, b, e) : b \in 0 .. 3, e \in 3 .. 7},
  Binaries <- {SubSeq(<<1, 0, 255, 0, 0, 7, 7>>, 1, n) : n \in 1 .. 7},
  todo <- s1, saved <- s2, end_addr <- s3, memory <- s4, maxaddr <- s5, ram_addr <- s6, mif <- s7,
  bin <- s8, words <- s9
-----------------------------------------------------------------------------
Init ==
  \/ part = "load" /\ Load!Init
  \/ part = "digits" /\ Digits!Init /\ Unused9
  \/ part = "usb" /\ Usb!Init /\ s15 = 0 /\ s16 = 0 /\ s17 = 0 /\ s18 = 0
  \/ part = "pipe" /\ Pipe!Init /\ Unused13
  \/ part = "uart" /\ Uart!Init /\ Unused9
  \/ part = "hex" /\ Hex!Init /\ s15 = 0 /\ s16 = 0 /\ s17 = 0 /\ s18 = 0
  \/ part = "mem" /\ Mem!Init /\ Unused10

Next ==
  \/ part = "load" /\ Load!Next /\ UNCHANGED part
  \/ part = "digits" /\ Digits!Next /\ UNCHANGED <<part, Slots9>>
  \/ part = "usb" /\ Usb!Next /\ UNCHANGED <<part, s15, s16, s17, s18>>
  \/ part = "pipe" /\ Pipe!Next /\ UNCHANGED <<part, Slots13>>
  \/ part = "uart" /\ Uart!Next /\ UNCHANGED <<part, Slots9>>
  \/ part = "hex" /\ Hex!Next /\ UNCHANGED <<part, s15, s16, s17, s18>>
  \/ part = "mem" /\ Mem!Next /\ UNCHANGED <<part, Slots10>>

Spec == Init /\ [][Next]_vars
-----------------------------------------------------------------------------
\* After a load without a complaint about a word of the file, every word of it is in
\* the memory.
NoWordLost == part = "load" => Load!NoWordLost

\* Of the words of the file the loader reports only those that differ (two of its
\* versions also report the place behind the file, which is exempt), and a dump
\* shows the memory.
NoFalseAlarm == part = "load" => Load!NoFalseAlarm /\ Load!DumpIsMemory

\* The comment "disable the cpu" of the loaders: the CPU does not run while they
\* write its memory.
CpuIsDisabled == part = "load" => Load!CpuIsDisabled

\* What a scan sends is what the register of the node asked for takes, and what
\* it returns is what the register held, in hex digits and in USB packets.
ScanReachesRegister ==
  /\ part = "digits" => Digits!ScanIsExact
  /\ part = "usb" => Usb!ScanReachesRegister /\ Usb!NodeAddressed

\* The answer read from the shell is that of the scan it is taken for, and the
\* two processes never wait for each other.
ShellAnswers == part = "pipe" => Pipe!AnswerIsOfItsScan /\ Pipe!SomebodyMoves

\* The log of the terminal holds what the UARTs printed, each byte once and in order.
LogIsWhatWasRead == part = "uart" => Uart!LogIsWhatWasRead

\* An image written as Intel HEX reads back as it was; a damaged byte of an address, of
\* the data or of a checksum is noticed, and a file cut short gives an error or the
\* image's first bytes.  (Damage to a colon, a length or a type is not claimed to be
\* noticed.)
ImageComesBack == part = "hex" => Hex!ImageComesBack /\ Hex!DamageIsNoticed

\* A memory file holds the memory, and the converters write the same words.
MifIsMemory == part = "mem" => Mem!MifIsMemory /\ Mem!WordsAgree
=============================================================================
