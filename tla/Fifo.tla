-------------------------------- MODULE Fifo --------------------------------
(***************************************************************************)
(* What the buffers of flit_buffer.sv promise: a set of FIFO channels of   *)
(* the same depth behind one write port and one read port.  A step is one  *)
(* clock edge; at most one channel is written and at most one is read.     *)
(*                                                                         *)
(* The guards are the assertions of the source: no write to a full channel *)
(* that is not read, no read of an empty channel that is not written.      *)
(***************************************************************************)
EXTENDS Naturals, Sequences

CONSTANTS
    Chan,    \* the channels (virtual channels of a flit buffer)
    NoChan,  \* no channel is written, or read, in this cycle
    Data,    \* what an entry may hold
    Reset,   \* no entry was read
    Depth,   \* entries per channel
    Bypass   \* reading an empty channel yields what is written to it

VARIABLES
    queue,   \* the entries of each channel, oldest first
    out      \* the entry the last edge has read

Pushed(w, d, c) == IF c = w THEN Append(queue[c], d) ELSE queue[c]

Init == queue = [c \in Chan |-> <<>>] /\ out = Reset

\* Write d to channel w and read channel r; either may be NoChan.
Edge(w, d, r) ==
    /\ w # NoChan => Len(queue[w]) < Depth \/ r = w
    /\ r # NoChan => queue[r] # <<>> \/ r = w
    /\ queue' = [c \in Chan |->
                   IF c = r THEN Tail(Pushed(w, d, c)) ELSE Pushed(w, d, c)]
    /\ out' = IF r = NoChan \/ (queue[r] = <<>> /\ ~Bypass) THEN Reset
              ELSE Head(Pushed(w, d, r))

Next == \E w, r \in Chan \cup {NoChan}, d \in Data : Edge(w, d, r)

Spec == Init /\ [][Next]_<<queue, out>>
=============================================================================
