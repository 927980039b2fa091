----------------------------- MODULE ShellPipe -----------------------------
(***************************************************************************)
(* The JTAG tools of a vendor's board talk to the vendor's shell (xsdb of   *)
(* Xilinx, quartus_stp of Intel) through a pair of pipes: commands go       *)
(* through stdio's buffer and one pipe, what the shell prints comes back    *)
(* through the other, line by line.  jtag.c never knows how many lines a    *)
(* command prints: it looks for the line it needs, or takes one line per    *)
(* scan so that the pipe does not fill.                                     *)
(*                                                                         *)
(* A call of the library is a sequence of steps: a command is said, the     *)
(* buffer is flushed, a line is read.  A line is [kind, of]: of is the scan *)
(* whose data it shows.  What the shell prints is external.                 *)
(***************************************************************************)
EXTENDS Integers, Sequences

CONSTANTS Dialects,    \* {"xsct", "stp"}, the two libraries
          Jobs,        \* the calls after jtag_init, in order
          BufferSize,  \* commands stdio keeps before it writes them itself
          PipeSize,    \* lines a pipe takes
          Banner       \* what the shell may print before its first prompt

VARIABLES dialect, calls, steps, scan,      \* the host: calls left, steps of this one, its number
          buffer, to, from,                 \* stdio's buffer and the two pipes
          printing, data, failed,           \* the shell: lines to print, its $data, a failed scan
          results, state

vars  == <<dialect, calls, steps, scan, buffer, to, from, printing, data, failed, results, state>>
shell == <<printing, data, failed>>
-----------------------------------------------------------------------------
Say(c)   == [op |-> "say", arg |-> c]
Flush    == [op |-> "flush", arg |-> ""]
Line     == [op |-> "line", arg |-> ""]         \* one line, whatever it is
Until(k) == [op |-> "until", arg |-> k]         \* lines up to one of this kind
Search   == [op |-> "search", arg |-> "RESULT"] \* verify_memory_multi, character by character
Gap(k)   == [op |-> "gap", arg |-> k]           \* lines up to the end of the banner, or the next blank

\* jtag_init
xsct_init == <<Gap("two"), Say("set"), Say("connect"), Flush, Until("tcfchan"),
               Say("targets"), Flush, Until("done")>>
stp_init  == <<Gap("one"), Say("hardware"), Say("putsHardware"), Say("device"), Say("putsDevice"),
               Say("open"), Flush, Gap("one")>>

send_to_jtag      == <<Say("clear"), Say("ir"), Say("dr"), Say("run")>>
\* Mutation: the line is waited for without a flush
clean_xsct_unflushed == <<Say("putsHi"), Line>>

clean_xsct_buff   == <<Say("putsHi"), Flush, Line>>
send_capture_jtag == <<Say("clear"), Say("ir"), Say("dr"), Say("setData")>>
\* jtag_vdr_multi between jseq_multi_init and jseq_multi_end or jseq_multi_get_results
jseq_multi        == <<Say("clear"), Say("ir"), Say("dr"), Say("dr"), Say("dr")>>
return_dr         == <<Say("putsData"), Flush, Until("RESULT")>>

xsct_call(c) ==
  CASE c \in {"vir", "vdr"} -> send_to_jtag \o clean_xsct_buff
    [] c = "vdrOut"         -> send_capture_jtag \o return_dr
    [] c = "multi"          -> jseq_multi \o <<Say("run")>>
    [] c = "multiOut"       -> jseq_multi \o <<Say("setData"), Say("putsData"), Flush, Search>>
    [] c = "close"          -> <<Say("exit"), Flush>>

clean_stp_buff == <<Flush, Line>>

stp_call(c) ==
  CASE c = "vir"    -> <<Say("lock"), Say("ir"), Say("unlock")>>
    [] c = "vdr"    -> <<Say("lock"), Say("dr"), Say("unlock")>> \o clean_stp_buff
    [] c = "vdrOut" -> <<Say("lock"), Say("setData"), Say("unlock")>> \o return_dr
    [] c = "close"  -> <<Say("unlock"), Say("closeDevice"), Flush>>

Call(c) == IF dialect = "xsct" THEN xsct_call(c) ELSE stp_call(c)
-----------------------------------------------------------------------------
Ready == state = "run" /\ steps # <<>>
Next1 == steps' = Tail(steps)

StartCall ==
  /\ state = "run" /\ steps = <<>>
  /\ \/ calls # <<>> /\ steps' = Call(Head(calls)) /\ calls' = Tail(calls) /\ state' = state
     \/ calls = <<>> /\ state' = "done" /\ UNCHANGED <<steps, calls>>
  /\ scan' = scan + 1
  /\ UNCHANGED <<dialect, buffer, to, from, shell, results>>

\* fprintf
SayStep ==
  /\ Ready /\ Head(steps).op = "say" /\ Len(buffer) < BufferSize
  /\ buffer' = Append(buffer, [cmd |-> Head(steps).arg, of |-> scan])
  /\ Next1
  /\ UNCHANGED <<dialect, calls, scan, to, from, shell, results, state>>

\* stdio writes to the pipe when it is told to and when its buffer is full
Spill ==
  /\ Ready /\ buffer # <<>> /\ Len(to) < PipeSize
  /\ Head(steps).op = "flush" \/ (Head(steps).op = "say" /\ Len(buffer) = BufferSize)
  /\ to' = Append(to, Head(buffer)) /\ buffer' = Tail(buffer)
  /\ UNCHANGED <<dialect, calls, steps, scan, from, shell, results, state>>

FlushDone ==
  /\ Ready /\ Head(steps).op = "flush" /\ buffer = <<>>
  /\ Next1
  /\ UNCHANGED <<dialect, calls, scan, buffer, to, from, shell, results, state>>

\* clean_xsct_buff looks at its line for an error, clean_stp_buff and verify_memory_multi do not
Checked == Head(steps) # Search /\ (dialect = "xsct" \/ Head(steps) # Line)

check_error_xsct_out(l) == l.kind = "ERROR"

\* the first of two blank lines lets the next line pass unchecked
Reads(l) ==
  LET step == Head(steps)
  IN  \/ /\ Checked /\ check_error_xsct_out(l)
         /\ state' = "exit" /\ UNCHANGED <<steps, results>>
      \/ /\ ~(Checked /\ check_error_xsct_out(l))
         /\ \/ step = Line /\ Next1 /\ UNCHANGED <<results, state>>
            \/ step.op \in {"until", "search"} /\ l.kind = step.arg
               /\ Next1 /\ state' = state
               /\ results' = IF l.kind = "RESULT" THEN Append(results, [of |-> scan, is |-> l.of, by |-> step])
                             ELSE results
            \/ step = Until("RESULT") /\ l.kind = "blank"
               /\ state' = "crash" /\ UNCHANGED <<steps, results>>     \* read_xsct, read_stp return 0
            \/ step.op \in {"until", "search"} /\ l.kind # step.arg
               /\ (l.kind # "blank" \/ step # Until("RESULT"))
               /\ UNCHANGED <<steps, results, state>>
            \/ step = Gap("one") /\ l.kind = "blank" /\ Next1 /\ UNCHANGED <<results, state>>
            \/ step = Gap("two") /\ l.kind = "blank"
               /\ steps' = <<Gap("second")>> \o Tail(steps) /\ UNCHANGED <<results, state>>
            \/ step \in {Gap("one"), Gap("two")} /\ l.kind # "blank" /\ UNCHANGED <<steps, results, state>>

\* the line after a blank one: another blank ends the banner, anything else is passed over
ReadsSecond(l) ==
  /\ steps' = IF l.kind = "blank" THEN Tail(steps) ELSE <<Gap("two")>> \o Tail(steps)
  /\ UNCHANGED <<results, state>>

\* fgets
ReadLine ==
  /\ Ready /\ Head(steps).op \notin {"say", "flush"} /\ from # <<>>
  /\ from' = Tail(from)
  /\ IF Head(steps) = Gap("second") THEN ReadsSecond(Head(from)) ELSE Reads(Head(from))
  /\ UNCHANGED <<dialect, calls, scan, buffer, to, shell>>
-----------------------------------------------------------------------------
(* The shell: one command after the other.  xsdb prints the value of a few; *)
(* quartus_stp prints every value that is not empty, the 0 of catch too.    *)
Printed(k, n) == [kind |-> k, of |-> n]

Prints(c) ==
  CASE c.cmd = "putsHi"       -> <<Printed("hi", c.of)>>
    [] c.cmd = "putsData"     -> <<Printed("RESULT", data)>>
    [] c.cmd = "connect"      -> <<Printed("tcfchan", 0)>>
    [] c.cmd = "targets"      -> <<Printed("text", 0), Printed("done", 0)>>
    [] c.cmd = "unlock"       -> <<Printed("0", 0)>>
    [] c.cmd \in {"hardware", "device"} -> <<Printed("text", 0)>>
    [] c.cmd = "putsHardware" -> <<Printed("text", 0), Printed("text", 0)>>
    [] c.cmd = "putsDevice"   -> <<Printed("text", 0), Printed("blank", 0)>>
    [] c.cmd = "setData"      -> IF dialect = "stp" THEN <<Printed("text", c.of)>> ELSE <<>>
    [] OTHER                  -> <<>>

Scans(c) == c.cmd \in {"run", "setData"} \/ (dialect = "stp" /\ c.cmd = "dr")

Execute ==
  /\ printing = <<>> /\ to # <<>>
  /\ to' = Tail(to)
  /\ LET c == Head(to)
     IN  \/ /\ printing' = Prints(c)
            /\ data' = IF c.cmd = "setData" THEN c.of ELSE data
            /\ UNCHANGED failed
         \/ /\ Scans(c) /\ failed = 0
            /\ failed' = c.of /\ printing' = <<Printed("ERROR", c.of)>>
            /\ UNCHANGED data
  /\ UNCHANGED <<dialect, calls, steps, scan, buffer, from, results, state>>

PrintLine ==
  /\ printing # <<>> /\ Len(from) < PipeSize
  /\ from' = Append(from, Head(printing)) /\ printing' = Tail(printing)
  /\ UNCHANGED <<dialect, calls, steps, scan, buffer, to, data, failed, results, state>>
-----------------------------------------------------------------------------
Init ==
  /\ dialect \in Dialects /\ calls \in Jobs[dialect]
  /\ steps = IF dialect = "xsct" THEN xsct_init ELSE stp_init
  /\ scan = 0 /\ buffer = <<>> /\ to = <<>> /\ from = <<>>
  /\ \E b \in Banner[dialect] : printing = [i \in DOMAIN b |-> Printed(b[i], 0)]
  /\ data = 0 /\ failed = 0 /\ results = <<>> /\ state = "run"

Next ==
  \/ StartCall \/ SayStep \/ Spill \/ FlushDone \/ ReadLine
  \/ Execute \/ PrintLine

Spec == Init /\ [][Next]_vars
-----------------------------------------------------------------------------
\* The data a call returns is that of its own scan: not of an earlier one, whatever lines were
\* left in the pipe, and not what $data still held when the scan failed; with xsct nothing is
\* returned after a scan that failed.  (verify_memory_multi looks for no error: when its scans
\* fail it compares what $data held.)
AnswerIsOfItsScan ==
  LET unnoticed == \E i \in DOMAIN results : results[i].by = Search /\ results[i].of = failed
  IN  /\ state # "crash"
      /\ \A i \in DOMAIN results :
           /\ results[i].is = results[i].of \/ (unnoticed /\ results[i].of = failed)
           /\ dialect = "xsct" /\ failed # 0 /\ ~unnoticed => results[i].of < failed

HostWaits ==
  \/ Ready /\ Head(steps).op \notin {"say", "flush"} /\ from = <<>>
  \/ Ready /\ buffer # <<>> /\ Len(to) = PipeSize
     /\ (Head(steps).op = "flush" \/ (Head(steps).op = "say" /\ Len(buffer) = BufferSize))

ShellWaits == IF printing = <<>> THEN to = <<>> ELSE Len(from) = PipeSize

\* The tool and the shell never both wait for the other: for a line that nobody will print, or for
\* room in pipes that nobody empties.
SomebodyMoves == ~(HostWaits /\ ShellWaits)
=============================================================================
