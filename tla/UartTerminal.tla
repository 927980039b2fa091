---------------------------- MODULE UartTerminal ----------------------------
(***************************************************************************)
(* The terminal for the UARTs behind JTAG: it polls one UART after the      *)
(* other and, if asked to, keeps a log of what each prints: a buffer and a  *)
(* temporary file for each UART, put together when ESC ends the program.    *)
(* A character is a byte; 0 means there is none.  What the UARTs print is   *)
(* external, the scans are ShellPipe's.                                     *)
(*                                                                         *)
(* The windows are left out: what lands where is curses' doing, which puts  *)
(* a byte at its own cursor, and the program only counts bytes and new      *)
(* lines beside it.  buff_ptr is allocated and not set; it comes from       *)
(* memory that was not used before and is taken to be 0.                    *)
(***************************************************************************)
EXTENDS Integers, Sequences, SequencesExt

CONSTANTS UartNum,      \* uart_num
          Prints,       \* what UART n may print: a set of sequences of bytes
          BuffWidth     \* BUFF_WIDTH

VARIABLES fifo, printed,                          \* the UARTs: not read yet, all of it
          write_log_file, buffer, temp, outfile,  \* the log
          index, state

log  == <<write_log_file, buffer, temp>>
vars == <<fifo, printed, log, outfile, index, state>>

Uarts   == 0 .. UartNum - 1
EofByte == 255            \* as a char it equals EOF
-----------------------------------------------------------------------------
\* update_out_file
update_out_file(n, b) == temp' = [temp EXCEPT ![n] = @ \o b[n]]

\* a byte goes to the buffer, and the buffer to the file when it is full
Logged(n, c) ==
  LET b == [buffer EXCEPT ![n] = Append(@, c)]
  IN  IF Len(b[n]) = BuffWidth - 1
      THEN update_out_file(n, b) /\ buffer' = [b EXCEPT ![n] = <<>>]
      ELSE buffer' = b /\ temp' = temp

\* what it does beside showing the byte
win_add_char(n, c) == IF write_log_file THEN Logged(n, c) ELSE UNCHANGED <<buffer, temp>>
-----------------------------------------------------------------------------
\* run_jtag_scaner: one UART of a round
Poll ==
  /\ state = "poll" /\ index \in Uarts
  /\ index' = index + 1
  /\ \/ /\ fifo[index] # <<>>
        /\ fifo' = [fifo EXCEPT ![index] = Tail(@)]
        /\ \/ Head(fifo[index]) # 0 /\ win_add_char(index, Head(fifo[index]))
           \/ Head(fifo[index]) = 0 /\ UNCHANGED <<buffer, temp>>
     \/ fifo[index] = <<>> /\ UNCHANGED <<fifo, buffer, temp>>
  /\ UNCHANGED <<printed, write_log_file, outfile, state>>

\* the key is looked at after a round
Round ==
  /\ state = "poll" /\ index = UartNum
  /\ index' = 0 /\ state' = state
  /\ UNCHANGED <<fifo, printed, log, outfile>>

\* Mutation: what is still in the buffers is left there
MergedFiles == [n \in Uarts |-> temp[n]]

\* update_out_file for each, merge_output_files up to the first byte that is taken for EOF
Merged ==
  [n \in Uarts |->
     LET all == temp[n] \o buffer[n]
         end == SelectInSeq(all, LAMBDA c : c = EofByte)
     IN  IF end = 0 THEN all ELSE SubSeq(all, 1, end - 1)]

Escape ==
  /\ state = "poll" /\ index = UartNum
  /\ state' = "end"
  /\ outfile' = IF write_log_file THEN Merged ELSE outfile
  /\ UNCHANGED <<fifo, printed, log, index>>

\* processArgs, and the buffers of initial_windows
Init ==
  /\ fifo \in [Uarts -> Prints] /\ printed = fifo
  /\ write_log_file \in BOOLEAN
  /\ buffer = [n \in Uarts |-> <<>>] /\ temp = [n \in Uarts |-> <<>>]
  /\ outfile = <<>> /\ index = 0 /\ state = "poll"

Next == Poll \/ Round \/ Escape

Spec == Init /\ [][Next]_vars
-----------------------------------------------------------------------------
Read(n) == SubSeq(printed[n], 1, Len(printed[n]) - Len(fifo[n]))

\* The log of a UART holds the bytes it printed up to ESC, each once and in order.  (The log ends at
\* a byte 255, and a byte 0 is no byte.)
LogIsWhatWasRead ==
  state = "end" /\ write_log_file =>
    \A n \in Uarts :
      LET bytes == SelectSeq(Read(n), LAMBDA c : c # 0)
          end   == SelectInSeq(bytes, LAMBDA c : c = EofByte)
      IN  outfile[n] = IF end = 0 THEN bytes ELSE SubSeq(bytes, 1, end - 1)
=============================================================================
