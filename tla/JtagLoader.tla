----------------------------- MODULE JtagLoader -----------------------------
(***************************************************************************)
(* The programs that load, verify and dump a memory through JTAG: one for   *)
(* Xilinx' xsct shell and its two older copies, one for quartus_stp and one *)
(* that drives a USB blaster itself.  Each shifts an instruction register   *)
(* and a data register of the JTAG-to-wishbone bridge, scan by scan, under  *)
(* a script that holds the CPU through a JTAG port of its own.              *)
(*                                                                         *)
(* A scan takes a moment on the bus: a read is answered one scan later when *)
(* the JTAG clock is slow and two scans later when it is fast; a write that *)
(* finds the bus busy is overtaken by the next, and a word may be damaged.  *)
(***************************************************************************)
EXTENDS Integers, Sequences, FiniteSets, SequencesExt, FiniteSetsExt

CONSTANTS
  Jobs,          \* what the command line may ask for
  Files,         \* [size |-> bytes, chunks |-> the words of sizeof(unsigned) bytes]
  Offset,        \* memory_offset, in words of the memory
  MemSize,       \* memory_boundary - memory_offset, in bytes
  SectionWords,  \* 8192 in the code
  MISS_RETRY_NUM,
  MaxGlitches,   \* bound: faults of the link in one behaviour
  MaxStores,     \* bound: stores of a CPU that runs, and faults, in one behaviour
  Scripted       \* whether program.sh runs the tool

VARIABLES tool, job, file,
          mem, ir, addr, rd,                       \* memory and bridge
          cpu,
          phase, plan, got, shown,                 \* scans to do, data they captured
          sec,                                     \* part of the file being sent
          miss, printed, verdict, result,
          glitches

input  == <<tool, job, file>>
bridge == <<mem, ir, addr, rd>>
report == <<miss, printed, verdict, result>>
vars   == <<input, bridge, cpu, phase, plan, got, shown, sec, report, glitches>>

UPDATE_WB_ADDR    == 7
UPDATE_WB_WR_DATA == 6
UPDATE_WB_RD_DATA == 5
RD_WR_STATUS      == 4

Junk  == 0            \* what malloc leaves and what a damaged word holds
Chunk == 4            \* sizeof(unsigned)

IR(x) == <<"ir", x>>
DR(x) == <<"dr", x>>
-----------------------------------------------------------------------------
(* Where the tools differ.  lag: scans until a read is answered; lead:      *)
(* scans before the loop that verifies; past: that loop includes i = num;   *)
(* flush: two scans more bring the last answers; sections: the file is sent *)
(* in parts; counts: mismatches are counted and written again, else only    *)
(* printed; stops: a mismatch that stays ends the program.                  *)
Tool(name, lag, past, flush, sections, counts, stops) ==
  [name |-> name, lag |-> lag, lead |-> lag, past |-> past, flush |-> flush, sections |-> sections,
   counts |-> counts, stops |-> stops]

xsct      == Tool("xsct", 2, FALSE, TRUE, TRUE, TRUE, TRUE)
xsct_old  == Tool("xsct_old", 2, FALSE, TRUE, FALSE, TRUE, FALSE)
xsct_back == Tool("xsct_back", 2, TRUE, TRUE, FALSE, FALSE, FALSE)
quartus   == Tool("quartus", 2, TRUE, TRUE, FALSE, FALSE, FALSE)
libusb    == Tool("libusb", 1, TRUE, FALSE, FALSE, FALSE, FALSE)

Tools == {xsct, xsct_old, xsct_back, quartus, libusb}

\* The last index of read_mem's loop, for n chunks in words of w chunks.
xsctDump(n, w)     == IF w = 1 THEN n - 1 ELSE n + 1
xsctOldDump(n, w)  == IF w = 1 THEN n - 1 ELSE n + 1
xsctBackDump(n, w) == IF w = 1 THEN n ELSE n + 2
quartusDump(n, w)  == IF w = 1 THEN n - 1 ELSE n + 1
DumpEnd(n, w) ==
  CASE tool = xsct -> xsctDump(n, w)           [] tool = xsct_old -> xsctOldDump(n, w)
    [] tool = xsct_back -> xsctBackDump(n, w)  [] tool = quartus -> quartusDump(n, w)

\* Scans by which send_data reads one register.
xsctReads     == 3
xsctOldReads  == 3
xsctBackReads == 2
quartusReads  == 3
libusbReads   == 1
Reads ==
  CASE tool = xsct -> xsctReads [] tool = xsct_old -> xsctOldReads
    [] tool = xsct_back -> xsctBackReads [] tool = quartus -> quartusReads
    [] tool = libusb -> libusbReads

\* processArgs: the options each tool knows.  -i file: write; -c: verify after; -v file: verify;
\* -r: dump; -d string: send_data.
xsctArgs     == {"i", "c", "v", "r", "d"}
xsctOldArgs  == {"i", "c", "v", "r", "d"}
xsctBackArgs == {"i", "c", "r", "d"}
quartusArgs  == {"i", "c", "r", "d"}
libusbArgs   == {"i", "c", "r", "d"}
Args ==
  CASE tool = xsct -> xsctArgs [] tool = xsct_old -> xsctOldArgs
    [] tool = xsct_back -> xsctBackArgs [] tool = quartus -> quartusArgs
    [] tool = libusb -> libusbArgs

\* main: what it calls for them; the last one never calls its read_mem
Calls == IF tool = libusb THEN {"i", "d"} ELSE {"i", "v", "r", "d"}
Asked(o) == o \in job.flags
Send     == Asked("i")
Verify   == Asked("c") \/ Asked("v")
-----------------------------------------------------------------------------
words     == (job.bytes + Chunk - 1) \div Chunk
file_size == Min({file.size, MemSize})
num       == file_size \div Chunk

\* read_file: a word for every four bytes, the last one padded, the rest as malloc left it
read_file ==
  [i \in 0 .. Len(file.chunks) + 2 * words |->
     IF i < Len(file.chunks) THEN file.chunks[i + 1] ELSE Junk]

\* reorder_buffer of the word at index at: the chunks that it exchanges, one after another
reorder_buffer(at) == [k \in 1 .. words \div 2 |-> at + k - 1]
Swapped(b, i)      == [b EXCEPT ![i] = b[i + words - 1], ![i + words - 1] = b[i]]

Sections  == IF tool.sections THEN (num + SectionWords - 1) \div SectionWords ELSE 1
first     == IF tool.sections THEN sec * SectionWords ELSE 0
Size      == IF tool.sections THEN Min({SectionWords, num - first}) ELSE num
Base      == Offset + first        \* memory_offset_in_word_sec, counted in chunks

Starts      == {first + i * words : i \in 0 .. (Size + words - 1) \div words - 1}
Exchanges   == FlattenSeq([i \in 1 .. Cardinality(Starts) |-> reorder_buffer(first + (i - 1) * words)])

\* the words of the file, put in the order of the memory
Reordered   == FoldLeft(Swapped, read_file, Exchanges)
Cell(b, at) == [k \in 1 .. words |-> b[at + k - 1]]
Written     == [i \in 1 .. Cardinality(Starts) |-> Cell(Reordered, first + (i - 1) * words)]

\* what a word read back is compared with: the words of a copy, or of the file read again, which
\* are put in that order for the comparison
Compared(i) == Cell(Reordered, first + i * words)

HoldScans    == <<IR(RD_WR_STATUS), DR(1)>>
ReleaseScans == <<IR(RD_WR_STATUS), DR(0)>>
WriteScans   == <<IR(UPDATE_WB_ADDR), DR(Base), IR(UPDATE_WB_WR_DATA)>> \o
                [i \in DOMAIN Written |-> DR(Written[i])]

\* read from lead words on to the loop's last index; two more addresses flush the answers
ReadScans(base, last) ==
  LET upto == last \div words
  IN  <<IR(UPDATE_WB_RD_DATA)>> \o [i \in 1 .. tool.lead |-> DR(base + i - 1)] \o
      [i \in 1 .. Max({0, upto - tool.lead + 1}) |-> DR(base + tool.lead + i - 1)] \o
      (IF tool.flush /\ words = 1 THEN <<DR(0), DR(1)>> ELSE <<>>)
VerifyScans == ReadScans(Base, IF tool.past THEN Size ELSE Size - 1)

\* vdr_large for D:, R: as often as the tool reads, jtag_vir for I:
DataScans(s) ==
  FlattenSeq([i \in DOMAIN s |->
     CASE s[i][1] = "I" -> <<IR(s[i][2])>> [] s[i][1] = "D" -> <<DR(s[i][2])>>
       [] s[i][1] = "R" -> [k \in 1 .. Reads |-> DR(s[i][2])]])
-----------------------------------------------------------------------------
(* A scan of the bridge: a read goes on the bus when the register is        *)
(* captured, an address or a word is taken when it is updated.  The status  *)
(* register is only read: writing it changes nothing.                       *)
Fetched  == IF ir = UPDATE_WB_RD_DATA THEN mem[addr] ELSE rd
Captured == IF ir = RD_WR_STATUS THEN <<Junk>> ELSE IF tool.lag = 1 THEN Fetched ELSE rd

ShiftIr(x) == ir' = x /\ UNCHANGED <<mem, addr, rd, got, glitches>>

Store(v) == mem' = [mem EXCEPT ![addr] = v] /\ addr' = addr + 1

ShiftDr(x) ==
  /\ got' = Append(got, Captured)
  /\ rd' = Fetched
  /\ ir' = ir
  /\ \/ /\ ir # UPDATE_WB_WR_DATA
        /\ addr' = IF ir \in {UPDATE_WB_ADDR, UPDATE_WB_RD_DATA} THEN x ELSE addr
        /\ UNCHANGED <<mem, glitches>>
     \/ ir = UPDATE_WB_WR_DATA /\ Store(x) /\ UNCHANGED glitches
     \/ /\ ir = UPDATE_WB_WR_DATA /\ glitches < MaxGlitches
        /\ glitches' = glitches + 1
        /\ \/ Store([x EXCEPT ![1] = Junk])
           \/ Len(plan) > 1 /\ plan[2][1] = "dr" /\ UNCHANGED <<mem, addr>>   \* overtaken

Shift ==
  /\ plan # <<>>
  /\ plan' = Tail(plan)
  /\ \/ Head(plan)[1] = "ir" /\ ShiftIr(Head(plan)[2])
     \/ Head(plan)[1] = "dr" /\ ShiftDr(Head(plan)[2])
  /\ UNCHANGED <<input, cpu, phase, shown, sec, report>>
-----------------------------------------------------------------------------
Enter(p, scans) == phase' = p /\ plan' = scans /\ got' = <<>>

Exit(r) == Enter("exit", <<>>) /\ result' = r

\* main after the memory is loaded: read_mem, then send_data
ThenDump == Enter("dump", ReadScans(Offset, DumpEnd(MemSize \div Chunk, words)) \o ReleaseScans)
            /\ UNCHANGED result
ThenData == Enter("data", DataScans(job.data)) /\ UNCHANGED result
AfterDump == IF Asked("d") THEN ThenData ELSE Exit(0)
AfterLoad == IF "r" \in job.flags \cap Calls THEN ThenDump ELSE AfterDump

PartScans == HoldScans \o (IF Send THEN WriteScans ELSE <<>>)

Init ==
  /\ tool \in Tools /\ job \in Jobs /\ file \in Files /\ job.flags \subseteq Args
  /\ mem = [a \in 0 .. Offset + MemSize \div Chunk + 2 |-> [k \in 1 .. words |-> -a]]
  /\ ir = 0 /\ addr = 0 /\ rd = mem[0] /\ cpu = "running"
  /\ phase = "start" /\ plan = <<>> /\ got = <<>> /\ shown = <<>>
  /\ sec = 0 /\ miss = <<>> /\ printed = {} /\ verdict = "none" /\ result = -2
  /\ glitches = 0

\* program.sh, then main
Begin ==
  /\ phase = "start"
  /\ cpu' = IF Scripted THEN "held" ELSE cpu
  /\ IF (job.flags \cap {"i", "v"}) # {} /\ Sections > 0
     THEN Enter("write", PartScans) /\ UNCHANGED result
     ELSE AfterLoad
  /\ UNCHANGED <<input, bridge, shown, sec, miss, printed, verdict, glitches>>

Ended(p) == phase = p /\ plan = <<>>

WriteDone ==
  /\ Ended("write")
  /\ IF Verify THEN Enter("verify", VerifyScans) ELSE Enter("release", ReleaseScans)
  /\ UNCHANGED <<input, bridge, cpu, shown, sec, report, glitches>>

\* Mutation: the answers are taken from the first scan of the loop on, as if a read were
\* answered at once
AnswersTooEarly == SubSeq(got, tool.lead, Len(got))

Answers    == SubSeq(got, tool.lead + 1, Len(got))
Mismatches ==
  {i \in 0 .. (IF tool.counts /\ words = 1 THEN Min({Size, Len(Answers)}) ELSE Len(Answers)) - 1 :
     Answers[i + 1] # Compared(i)}
Kept(S) == LET s == SetToSortSeq(S, <) IN SubSeq(s, 1, Min({Len(s), MISS_RETRY_NUM + 1}))

\* Mutation: the loop stops before the last word
CountedButLast == IF tool.counts /\ words = 1 THEN Kept(Mismatches \ {Size - 1}) ELSE miss

\* one-word answers are counted by verify_memory_multi, others only printed
Counted == IF tool.counts /\ words = 1 THEN Kept(Mismatches) ELSE miss

Rewritten(s) ==
  FlattenSeq([i \in DOMAIN s |->
     <<IR(UPDATE_WB_ADDR), DR(s[i] + Base), IR(UPDATE_WB_WR_DATA), DR(Written[s[i] + 1])>>])

Failed ==
  /\ verdict' = "failed"
  /\ IF tool.stops THEN Exit(-1) ELSE Enter("release", ReleaseScans) /\ UNCHANGED result

VerifyDone ==
  /\ Ended("verify")
  /\ miss' = Counted /\ printed' = printed \cup {first + i : i \in Mismatches}
  /\ \/ /\ miss' = <<>>
        /\ verdict' = IF verdict = "none" THEN "verified" ELSE verdict
        /\ Enter("release", ReleaseScans) /\ UNCHANGED result
     \/ /\ Len(miss') \in 1 .. MISS_RETRY_NUM /\ Send
        /\ Enter("rewrite", Rewritten(miss')) /\ UNCHANGED <<verdict, result>>
     \/ (Len(miss') > MISS_RETRY_NUM \/ (miss' # <<>> /\ ~Send)) /\ Failed
  /\ UNCHANGED <<input, bridge, cpu, shown, sec, glitches>>

RewriteDone ==
  /\ Ended("rewrite")
  /\ Enter("verifyAgain", VerifyScans)
  /\ UNCHANGED <<input, bridge, cpu, shown, sec, report, glitches>>

VerifyAgainDone ==
  /\ Ended("verifyAgain")
  /\ miss' = Counted
  /\ \/ /\ miss' = <<>>
        /\ Enter("release", ReleaseScans)
        /\ verdict' = IF verdict = "none" THEN "rewritten" ELSE verdict
        /\ UNCHANGED result
     \/ miss' # <<>> /\ Failed
  /\ UNCHANGED <<input, bridge, cpu, shown, sec, printed, glitches>>

\* send_binary_file: the next part of the file
ReleaseDone ==
  /\ Ended("release")
  /\ IF sec + 1 < Sections
     THEN sec' = sec + 1 /\ Enter("nextPart", <<>>) /\ UNCHANGED result
     ELSE sec' = sec /\ AfterLoad
  /\ UNCHANGED <<input, bridge, cpu, shown, miss, printed, verdict, glitches>>

NextPart ==
  /\ phase = "nextPart"
  /\ Enter("write", PartScans)
  /\ UNCHANGED <<input, bridge, cpu, shown, sec, report, glitches>>

DumpDone ==
  /\ Ended("dump")
  /\ shown' = Front(Answers)      \* the last scan released the CPU
  /\ AfterDump
  /\ UNCHANGED <<input, bridge, cpu, sec, miss, printed, verdict, glitches>>

DataDone ==
  /\ Ended("data")
  /\ shown' = Append(shown, Last(got))
  /\ Exit(0)
  /\ UNCHANGED <<input, bridge, cpu, sec, miss, printed, verdict, glitches>>

\* program.sh enables the CPU whatever the tool returned
ScriptEnds ==
  /\ phase = "exit" /\ cpu = "held"
  /\ cpu' = "running"
  /\ UNCHANGED <<input, bridge, phase, plan, got, shown, sec, report, glitches>>

\* The CPU, when nothing holds it, runs what it finds in the memory.
CpuStores ==
  /\ cpu = "running" /\ phase # "start" /\ glitches < MaxStores
  /\ \E a \in Offset .. Offset + num - 1 : mem' = [mem EXCEPT ![a][1] = Junk]
  /\ glitches' = glitches + 1
  /\ UNCHANGED <<input, ir, addr, rd, cpu, phase, plan, got, shown, sec, report>>

Next ==
  \/ Begin \/ Shift \/ WriteDone \/ VerifyDone \/ RewriteDone \/ VerifyAgainDone
  \/ ReleaseDone \/ NextPart \/ DumpDone \/ DataDone \/ ScriptEnds \/ CpuStores

Spec == Init /\ [][Next]_vars
-----------------------------------------------------------------------------
Quiet == phase = "exit" /\ cpu = "held"       \* the tool is done, the CPU does not run yet

\* The words of the file are in the memory, most significant chunk last.
Loaded ==
  \A w \in 0 .. num \div words - 1 :
    mem[Offset + w] = [k \in 1 .. words |-> file.chunks[(w + 1) * words - k + 1]]

\* The loop to i <= num, two scans late, also compares what follows the file in the buffer (what
\* malloc left, or the bytes of a last part of a word) with the memory that follows it, and
\* prints that they differ: the code's own false alarm.
PastTheFile == IF tool.past /\ tool.flush /\ words = 1 THEN num .. Max({num, 1}) ELSE {}

Differs(w) == mem[Offset + w] # <<file.chunks[w + 1]>>

\* A tool that was asked to verify, returns success and shows no mismatch of the file that stayed,
\* leaves the whole words of the file in the memory, whatever the link did to single scans.  (Wide
\* words are left to the tool that compares all of them.)
NoWordLost ==
  Quiet /\ result = 0 /\ Verify /\ (words = 1 \/ tool = libusb)
    /\ verdict # "failed" /\ (~tool.counts => printed \subseteq PastTheFile)
  => Loaded

\* No word of the file is reported without a reason: the answers are matched with the words they
\* belong to, scans late as they come.  Without a fault of the link nothing of it is reported and
\* the tool succeeds; the tools that do not write again report no word that the memory holds right.
\* The claim is about the file: quartus_stp and the oldest xsct version do complain of the place
\* behind it (PastTheFile).
NoFalseAlarm ==
  Quiet /\ words = 1 /\ Send =>
    /\ glitches = 0 => result = 0 /\ printed \subseteq PastTheFile
    /\ ~tool.counts => \A w \in printed \ PastTheFile : Differs(w)

\* The words that read_mem shows are those of the memory from the offset on, late as they come,
\* and a register read by the tools that scan it three times is the one asked for.
DumpIsMemory ==
  Quiet /\ result = 0 /\ words = 1 =>
    /\ "r" \in job.flags \cap Calls =>
         \A w \in 0 .. MemSize \div Chunk - 1 : shown[w + 1] = mem[Offset + w]
    /\ Asked("d") /\ Reads = 3 => Last(shown) = mem[Last(job.data)[2]]

\* quartus_stp says "cpu is disabled." once its first scans, of the status
\* register, are done: the CPU is held while the tool works on its memory.
CpuIsDisabled == phase \in {"write", "verify"} /\ Len(got) > 0 => cpu = "held"
=============================================================================
