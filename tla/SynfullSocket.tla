---------------------------- MODULE SynfullSocket ----------------------------
(***************************************************************************)
(* SynFull as a process of its own (TrafficGenerator.cpp) and the server   *)
(* the Verilog test bench calls at each clock edge (dpi_interface.cpp).    *)
(* The generator waits for the answer of each request it sends, so a       *)
(* request and its answer are one step; the server answers until it is     *)
(* asked to STEP or to QUIT and then returns to the test bench.            *)
(*                                                                         *)
(* The server keeps pointers to requests, and _req is one variable of the  *)
(* whole file: object i is the request received i-th, content[i] is the    *)
(* packet number now written in it.                                        *)
(***************************************************************************)
EXTENDS SynfullModel, SequencesExt

CONSTANTS NumPackets,   \* stop after this many packets have been ejected
          MaxId         \* bound: packet numbers 0 .. MaxId

VARIABLES client,       \* where Run of the generator is
          toSend,       \* packets of this cycle it has not sent yet
          cntPackets, allPacketsEjected,
          server,       \* "idle" between clock edges, "serving", or "ended"
          buffer,       \* _inject_buffer: objects
          content, req, \* what each object holds, and the object _req points to
          offered,      \* valid_all: the packet offered at each node
          refused,      \* enqueue_valid: the packet a node did not accept
          ready,        \* nodes whose injector is ready
          network, returned, ejectBuffer

socketVars == <<client, toSend, cntPackets, allPacketsEjected, server, buffer, content, req,
                offered, refused, ready, network, returned, ejectBuffer>>
vars == <<modelVars, socketVars>>

None == -1
Ids  == 0 .. MaxId

\* The packets of every cycle that is simulated have their cycle in Times.
SocketAssumption ==
  /\ ModelAssumption /\ Nodes = 0 .. Cardinality(Nodes) - 1
  /\ NumCycles \in Nat /\ NumCycles <= Horizon + 1 /\ MaxId \in Nat

Init ==
  /\ ModelInit
  /\ client = "cycle" /\ toSend = <<>> /\ cntPackets = 0 /\ allPacketsEjected = FALSE
  /\ server = "idle" /\ buffer = <<>> /\ content = [i \in Ids |-> i] /\ req = None
  /\ offered = [k \in Nodes |-> None] /\ refused = [k \in Nodes |-> None]
  /\ ready = Nodes /\ network = {} /\ returned = [k \in Nodes |-> None]
  /\ ejectBuffer = <<>>
-----------------------------------------------------------------------------
(* The generator has its own text of the model's steps, the same as the    *)
(* library's but for the limits: QueuePacket drops nothing here.           *)
InitiateMessages == Interval
sendPacket == sendPackets
answer(n) == react(n)

(* The generator's cycle: its two intervals, and the end of the run when   *)
(* the steady state has been reached or NumCycles have passed.             *)
RunHier ==
  /\ client = "cycle"
  /\ IF cycle < NumCycles
     THEN HierInterval /\ client' = (IF steadyExit' THEN "quit" ELSE "interval")
     ELSE UNCHANGED <<nextHinterval, hierClass, state, steadyExit>> /\ client' = "quit"
  /\ UNCHANGED <<cycle, nextInterval, injectionDone, totalQueued, messageId, inTransit,
                 transactions, queue, toSend, cntPackets, allPacketsEjected, server, buffer,
                 content, req, offered, refused, ready, network, returned, ejectBuffer>>

RunInterval ==
  /\ client = "interval" /\ client' = "send"
  /\ InitiateMessages
  /\ UNCHANGED <<cycle, nextHinterval, hierClass, steadyExit, messageId, inTransit,
                 transactions, toSend, cntPackets, allPacketsEjected, server, buffer, content,
                 req, offered, refused, ready, network, returned, ejectBuffer>>

RunInject ==
  /\ client = "send" /\ client' = "inject"
  /\ messageId + Len(queue[cycle]) <= MaxId + 1
  /\ sendPacket
  /\ toSend' = [i \in DOMAIN Sent |-> Sent[i].id]
  /\ UNCHANGED <<cycle, nextInterval, nextHinterval, hierClass, state, steadyExit,
                 injectionDone, totalQueued, cntPackets, allPacketsEjected, server, buffer,
                 content, req, offered, refused, ready, network, returned, ejectBuffer>>

(* INJECT_REQ: the server keeps the request it received, and _req is it. *)
InjectRequest ==
  /\ client = "inject" /\ toSend # <<>> /\ server = "serving"
  /\ toSend' = Tail(toSend)
  /\ buffer' = Append(buffer, Head(toSend))
  /\ req' = Head(toSend)
  /\ UNCHANGED <<modelVars, client, cntPackets, allPacketsEjected, server, content, offered,
                 refused, ready, network, returned, ejectBuffer>>

SentAll ==
  /\ client = "inject" /\ toSend = <<>> /\ client' = "eject"
  /\ UNCHANGED <<modelVars, toSend, cntPackets, allPacketsEjected, server, buffer, content,
                 req, offered, refused, ready, network, returned, ejectBuffer>>

(* EJECT_REQ: the packets the test bench returned at this edge are put in  *)
(* the eject buffer once; the answer is its first packet and the number of *)
(* those that remain, and the generator asks again while some do.          *)
Arrived == ejectBuffer \o Select([k \in 1 .. Cardinality(Nodes) |-> returned[k - 1]],
                                 LAMBDA n : n # None)

EjectRequest ==
  /\ client = "eject" /\ server = "serving"
  /\ returned' = [k \in Nodes |-> None]
  /\ IF Arrived = <<>>
     THEN /\ client' = "step" /\ ejectBuffer' = <<>>
          /\ allPacketsEjected' = (allPacketsEjected \/ cntPackets = NumPackets)
          /\ UNCHANGED <<cntPackets, inTransit, transactions, queue, totalQueued, injectionDone>>
     ELSE /\ ejectBuffer' = Tail(Arrived)
          /\ cntPackets' = cntPackets + 1
          /\ answer(Head(Arrived))
          /\ IF Len(Arrived) > 1
             THEN UNCHANGED <<client, allPacketsEjected>>
             ELSE /\ client' = "step"
                  /\ allPacketsEjected' = (allPacketsEjected \/ cntPackets' = NumPackets)
  /\ UNCHANGED <<cycle, nextInterval, nextHinterval, hierClass, state, steadyExit, messageId,
                 toSend, server, buffer, content, req, offered, refused, ready, network>>
-----------------------------------------------------------------------------
(* STEP_REQ.  First the packets that were offered and not accepted are put *)
(* back: each is written over the object _req points to, and that object   *)
(* is queued unless an object with this number is queued already.          *)
PutBackAlways(b, c, k) ==
  IF refused[k] = None THEN <<b, c>>
  ELSE <<Append(b, req), [c EXCEPT ![req] = refused[k]]>>  \* no test of the number

PutBack(b, c, k) ==
  IF refused[k] = None THEN <<b, c>>
  ELSE LET new == [c EXCEPT ![req] = refused[k]]
       IN  IF \E i \in DOMAIN b : new[b[i]] = refused[k] THEN <<b, new>>
           ELSE <<Append(b, req), new>>

AfterPutBack ==
  LET after[k \in 0 .. Cardinality(Nodes)] ==
        IF k = 0 THEN <<buffer, content>>
                 ELSE PutBack(after[k - 1][1], after[k - 1][2], k - 1)
  IN  after[Cardinality(Nodes)]

(* Then the buffer is gone through once: the first object of each node     *)
(* that is ready is offered to it, the others stay; _req ends at the last. *)
NodeOf(n) == inTransit[n].source

Offer(b, c) ==
  LET held(k) == Select(b, LAMBDA i : NodeOf(c[i]) = k)
      given == {held(k)[1] : k \in {m \in ready : held(m) # <<>>}}
  IN /\ offered' = [k \in Nodes |-> IF k \in ready /\ held(k) # <<>> THEN c[held(k)[1]]
                                    ELSE None]
     /\ buffer' = Select(b, LAMBDA i : i \notin given)
     /\ req' = IF b = <<>> THEN req ELSE Last(b)

StepServer ==
  /\ server' = "idle"
  /\ refused' = [k \in Nodes |-> None]
  /\ content' = AfterPutBack[2]
  /\ Offer(AfterPutBack[1], AfterPutBack[2])

StepRequest ==
  /\ client = "step" /\ server = "serving"
  /\ client' = "cycle"
  /\ cycle' = (IF allPacketsEjected THEN NumCycles ELSE cycle) + 1
  /\ StepServer
  /\ UNCHANGED <<nextInterval, nextHinterval, hierClass, state, steadyExit, injectionDone,
                 totalQueued, messageId, inTransit, transactions, queue, toSend, cntPackets,
                 allPacketsEjected, ready, network, returned, ejectBuffer>>

QuitRequest ==
  /\ client = "quit" /\ server = "serving"
  /\ client' = "ended" /\ server' = "ended"
  /\ UNCHANGED <<modelVars, toSend, cntPackets, allPacketsEjected, buffer, content, req,
                 offered, refused, ready, network, returned, ejectBuffer>>

(* A clock edge of the test bench: a node that is ready takes what it was  *)
(* offered, another refuses it; the network returns at most one packet at  *)
(* each node; then c_dpi_interface is called.                              *)
ClockEdge ==
  /\ server = "idle" /\ server' = "serving"
  /\ ready' \in SUBSET Nodes
  /\ \E out \in SUBSET network :
       /\ \A m, n \in out : inTransit[m].dest = inTransit[n].dest => m = n
       /\ returned' = [k \in Nodes |->
            IF \E n \in out : inTransit[n].dest = k
            THEN CHOOSE n \in out : inTransit[n].dest = k ELSE None]
       /\ network' = (network \ out) \cup {offered[k] : k \in {m \in ready' : offered[m] # None}}
  /\ refused' = [k \in Nodes |-> IF k \in ready' THEN None ELSE offered[k]]
  /\ offered' = [k \in Nodes |-> None]
  /\ UNCHANGED <<modelVars, client, toSend, cntPackets, allPacketsEjected, buffer, content,
                 req, ejectBuffer>>

Next == RunHier \/ RunInterval \/ RunInject \/ InjectRequest \/ SentAll \/ EjectRequest
        \/ StepRequest \/ QuitRequest \/ ClockEdge
Spec == Init /\ [][Next]_vars
-----------------------------------------------------------------------------
(* Where the server and the test bench hold packet n. *)
Copies(n) ==
  Cardinality({i \in DOMAIN buffer : content[buffer[i]] = n})
  + Cardinality({i \in DOMAIN ejectBuffer : ejectBuffer[i] = n})
  + Cardinality({k \in Nodes : n \in {offered[k], refused[k], returned[k]}})
  + (IF n \in network THEN 1 ELSE 0)

(* The generator ends the program when it gets a packet it does not know:  *)
(* whatever the pointers of the server do, no packet exists twice, and     *)
(* none is left that the generator has already received.                   *)
AnswersKnownPackets ==
  \A n \in Ids : Copies(n) <= (IF n \in DOMAIN inTransit THEN 1 ELSE 0)
=============================================================================
