----------------------------- MODULE UsbBlaster -----------------------------
(***************************************************************************)
(* The loader that drives a USB blaster itself: commands as TMS/TDI bits,   *)
(* two bytes a clock, in one bulk transfer out; captured bits come back in  *)
(* packets of Packet bytes of which the first two are a status, and in as   *)
(* many transfers as the device likes.  On top of it, the virtual JTAG hub: *)
(* the nodes are listed, four bits a scan, and the one with the wanted      *)
(* index gives the address that virtual instructions are sent to.           *)
(***************************************************************************)
EXTENDS Integers, Sequences, SequencesExt, FiniteSetsExt

CONSTANTS
  Packet,     \* bytes of a packet: 64
  Transfers,  \* data bits that one transfer in may carry
  Rows,       \* sequences of scans that are checked
  Hubs        \* [irWidth |-> bits, nodes |-> <<[id, iid], ...>>]

VARIABLES hub, wanted, vir_addr, vir_width,    \* jtag_open_virtual_device
          row, clocks, back,                   \* scans to do, bits to clock, bits to read back
          tap, shiftr, IReg, DReg,             \* the device
          pending, out, expected

node  == <<hub, wanted, vir_addr, vir_width>>
tapv  == <<tap, shiftr, IReg, DReg>>
vars  == <<node, row, clocks, back, tapv, pending, out, expected>>

Status == -1
Bit(tms, tdi, rb) == [tms |-> tms, tdi |-> tdi, rb |-> rb]
-----------------------------------------------------------------------------
\* jtag_move: the bits of a TMS pattern, first clock first
jtag_move(tms) == [i \in DOMAIN tms |-> Bit(tms[i], 0, FALSE)]
RESET   == <<1, 1, 1, 1, 1, 1, 1, 0>>
SHIFTDR == <<1, 0, 0>>
SHIFTIR == <<1, 1, 0, 0>>
DONE    == <<1, 0>>

\* jtag_shift, jtag_shift_long: the last clock leaves the shift state
jtag_shift(bits, rb) ==
  [i \in DOMAIN bits |-> Bit(IF i = Len(bits) THEN 1 ELSE 0, bits[i], rb)]

\* jtag_ir, jtag_dr, jtag_dr_long
ScanClocks(s) ==
  jtag_move(IF s.ir THEN SHIFTIR ELSE SHIFTDR) \o jtag_shift(s.bits, s.out) \o jtag_move(DONE)

\* The controller of the device, as the JTAG standard has it.
After(t, tms) ==
  CASE t = "Reset" -> IF tms = 1 THEN "Reset" ELSE "Idle"
    [] t \in {"Idle", "UpdateDR", "UpdateIR"} -> IF tms = 1 THEN "SelectDR" ELSE "Idle"
    [] t = "SelectDR" -> IF tms = 1 THEN "SelectIR" ELSE "CaptureDR"
    [] t = "SelectIR" -> IF tms = 1 THEN "Reset" ELSE "CaptureIR"
    [] t \in {"CaptureDR", "ShiftDR"} -> IF tms = 1 THEN "Exit1DR" ELSE "ShiftDR"
    [] t \in {"CaptureIR", "ShiftIR"} -> IF tms = 1 THEN "Exit1IR" ELSE "ShiftIR"
    [] t = "Exit1DR" -> IF tms = 1 THEN "UpdateDR" ELSE "PauseDR"
    [] t = "Exit1IR" -> IF tms = 1 THEN "UpdateIR" ELSE "PauseIR"
    [] t = "PauseDR" -> IF tms = 1 THEN "Exit2DR" ELSE "PauseDR"
    [] t = "PauseIR" -> IF tms = 1 THEN "Exit2IR" ELSE "PauseIR"
    [] t = "Exit2DR" -> IF tms = 1 THEN "UpdateDR" ELSE "ShiftDR"
    [] t = "Exit2IR" -> IF tms = 1 THEN "UpdateIR" ELSE "ShiftIR"

\* One clock of the device: the register of the current state moves, then the state.
Clock ==
  /\ clocks # <<>>
  /\ clocks' = Tail(clocks)
  /\ LET b == Head(clocks)
         t == After(tap, b.tms)
     IN  /\ tap' = t
         /\ shiftr' = CASE tap = "CaptureDR" -> DReg [] tap = "CaptureIR" -> IReg
                        [] tap \in {"ShiftDR", "ShiftIR"} -> Append(Tail(shiftr), b.tdi)
                        [] OTHER -> shiftr
         /\ DReg' = IF t = "UpdateDR" THEN shiftr ELSE DReg
         /\ IReg' = IF t = "UpdateIR" THEN shiftr ELSE IReg
         /\ back' = IF b.rb THEN Append(back, Head(shiftr)) ELSE back
  /\ UNCHANGED <<node, row, pending, out, expected>>
-----------------------------------------------------------------------------
\* What the host takes from a transfer of the device: in a short scan every byte after the first
\* two, in a long one also none of the two status bytes of the packets that follow.
InTransfer(bits) ==      \* bytes as the device sends them: a status is Status
  LET room == Packet - 2
      packets == [p \in 1 .. (Len(bits) + room - 1) \div room |->
                    <<Status, Status>> \o SubSeq(bits, (p - 1) * room + 1, Min({p * room, Len(bits)}))]
  IN  FlattenSeq(packets)

TakenShort(bytes) == SubSeq(bytes, 3, Len(bytes))

\* Mutation: status bytes are looked for in the first packet only
TakenFirstOnly(bytes) == TakenShort(bytes)

TakenLong(bytes) ==
  LET kept == SelectSeq([n \in 1 .. Len(bytes) |-> <<n - 1, bytes[n]>>],
                        LAMBDA x : x[1] >= 2 /\ x[1] % Packet \notin {0, 1})
  IN  [n \in DOMAIN kept |-> kept[n][2]]

\* usb_bulk on the way in; a transfer of the status alone is skipped
ReadBack ==
  /\ clocks = <<>> /\ pending # <<>> /\ back # <<>>
  /\ \E n \in Transfers \cup {0} :
       /\ n <= Len(back)
       /\ LET bytes == IF n = 0 THEN <<Status, Status>> ELSE InTransfer(SubSeq(back, 1, n))
              taken == IF pending[1].long THEN TakenLong(bytes) ELSE TakenShort(bytes)
          IN  IF Len(bytes) < 3 THEN UNCHANGED <<out, back>>
              ELSE out' = out \o taken /\ back' = SubSeq(back, n + 1, Len(back))
  /\ UNCHANGED <<node, row, clocks, tapv, pending, expected>>

StartScan ==
  /\ clocks = <<>> /\ back = <<>> /\ pending = <<>> /\ row # <<>> /\ vir_addr # -2
  /\ LET s == Head(row)
     IN  /\ pending' = <<s>> /\ clocks' = ScanClocks(s)
         /\ expected' = [reg |-> s.bits, out |-> IF s.out THEN (IF s.ir THEN IReg ELSE DReg) ELSE <<>>]
  /\ out' = <<>> /\ row' = Tail(row)
  /\ UNCHANGED <<node, back, tapv>>

EndScan ==
  /\ clocks = <<>> /\ back = <<>> /\ pending # <<>>
  /\ pending' = <<>>
  /\ UNCHANGED <<node, row, clocks, back, tapv, out, expected>>
-----------------------------------------------------------------------------

needbits(max) == Min({b \in 1 .. 8 : max < 2^b \/ b = 8})

\* jtag_open_virtual_device: the last node of the right kind and index is taken
Open ==
  /\ vir_addr = -2 /\ clocks = <<>>
  /\ vir_width' = hub.irWidth + needbits(Len(hub.nodes))
  /\ LET fits == {n \in DOMAIN hub.nodes : hub.nodes[n].id = 8 /\ hub.nodes[n].iid = wanted}
     IN  vir_addr' = IF fits = {} THEN -1 ELSE Max(fits) * 2^hub.irWidth
  /\ UNCHANGED <<hub, wanted, row, clocks, back, tapv, pending, out, expected>>

Init ==
  /\ hub \in Hubs /\ wanted \in {n.iid : n \in Range(hub.nodes)} \cup {0}
  /\ vir_addr = -2 /\ vir_width = 0
  /\ row \in Rows
  /\ clocks = jtag_move(RESET) /\ back = <<>> /\ pending = <<>> /\ out = <<>>
  /\ tap = "Idle" /\ shiftr = <<0>>
  /\ LET len(ir) == Max({Len(row[i].bits) : i \in {j \in DOMAIN row : row[j].ir = ir}})
     IN  IReg = [i \in 1 .. len(TRUE) |-> i % 2] /\ DReg = [i \in 1 .. len(FALSE) |-> 1]
  /\ expected = [reg |-> <<>>, out |-> <<>>]

Next == Clock \/ ReadBack \/ StartScan \/ EndScan \/ Open

Spec == Init /\ [][Next]_vars
-----------------------------------------------------------------------------
ScanDone == pending # <<>> /\ clocks = <<>> /\ back = <<>>

\* A scan leaves the controller idle, its bits in the register it is meant for, and hands out what
\* the register held, however the answer was split into transfers and packets.
ScanReachesRegister ==
  ScanDone => /\ tap = "Idle"
              /\ (IF pending[1].ir THEN IReg ELSE DReg) = expected.reg
              /\ out = expected.out

\* The address found names a node of the wanted index and fits into the scan it is sent in.
NodeAddressed ==
  vir_addr > 0 => /\ vir_addr < 2^vir_width
                  /\ hub.nodes[vir_addr \div 2^hub.irWidth].iid = wanted
=============================================================================
