# ProNoC verification

TLA+ models of the ProNoC network-on-chip and of the programs around it, TLC
runs that check them on small instances and TLAPS proofs of what holds for every
instance.  All paths below are relative to the repository's `src/`; `src_noc/`
stands for `mpsoc/rtl/src_noc/`, `src_c/` and `src_verilator/` for the
directories of these names in `mpsoc/`.

ProNoC generates many-core systems.  Its core is the router in `src_noc/` (about
20 000 lines of SystemVerilog with its arbiters): wormhole switching with virtual
channels (VCs) and credits, two pipeline stages, an optional one-cycle bypass.
Around it are a simulator of the compiled network (`src_verilator/`), two players
of recorded or modelled traffic (netrace, SynFull), a tool that removes cycles
from custom topologies, and the programs that load and watch a board over JTAG.

The models of hardware are synchronous: **one step is one edge of the clock**,
all registers change at once, and the nondeterminism is in the inputs (flits,
grants, credits of neighbours, requests).  The models of programs take **one step
per scan, line, packet or evaluation**, whichever the program exchanges with
others; what a thread computes between two such points is one step.

## 1. Inventory

| component | state | operations | talks to |
|---|---|---|---|
| output port (`output_ports.sv`) | per output VC (OVC): credit counter, `full`/`nearly_full`/`empty` registers, status (occupied); per input VC (IVC): `full_reg1/2` of the full predictor | take a credit on a grant, give one back, allocate and release an OVC, predict the assigned OVC full | allocators (offers OVCs, gets grants), next router (flit out, credit in) |
| input port (`input_ports.sv`) | per IVC: assigned flag and OVC, flit buffer, header FIFOs (route, class, look-ahead route), credit register | write a flit, read a granted flit, push and pop the header FIFOs, return a credit | allocators, crossbar, previous router |
| flit buffer and FIFOs (`flit_buffer.sv`) | one RAM for all VCs, pointers and depths, tail flags, bypass register; `fwft_fifo`: output and shift register; `fwft_fifo_bram`: output and pass registers before a RAM FIFO | write, read, both | input port |
| arbiters (`arbiter.v`) | priority register | grant the next requester, move on when served | allocators |
| allocators (`comb_nonspec.sv`; alternatives `comb-spec1.sv`, `comb_spec2.sv`, `arch/baseline.v`) | only arbiters | mask requests, choose one IVC per input and per output port and its OVC | input and output ports |
| static straight allocator (`ss_allocator.sv`) | `ssa_flit_wr` | let an arriving flit go straight on without buffering | both ports, allocators |
| header update, crossbar (`header_flit.sv`, `crossbar.sv`) | delayed VC number | write OVC and look-ahead route into the header, connect | output registers |
| SMART bypass, weighted arbitration, multicast (`router_bypass.sv`, `wrra.sv`, `multicast.sv`) | flags of several routers; weight counters; destination lists and a second read pointer | bypass routers, grant in proportion, serve several ports | the same |
| mesh and torus routing (`mesh_torus_routting.sv`, `mesh_torus.sv`, `route_mesh.sv`, `route_torus.sv`) | coded destination port in each header, `swap_reg` per IVC | permitted ports, their code, the same for the next router (look-ahead); select one port, keep out of escape VCs, swap the selection, clear the port not taken | input ports, allocators, header update |
| other topologies, VC classes, congestion analyzer | registered destination, counters | output port, permitted VCs, preferred port | input ports |
| packet injector (`packet_injector.sv`) | sender's state machine and counters, credits; per VC receive counter and data | cut a packet into flits; put it together and report it | a router's local port, traffic generators |
| simulator (`src_verilator/simulator.cpp`, `parallel.h`, `traffic_task_graph.h`) | clock; per-thread start and ready flags; counters of sent, received, idle cycles; task list with progress | evaluate routers in threads, stage by stage; generate packets; count them; end; print the report | the compiled NoC, the players |
| topology tables and patterns (`src_verilator/topology/*.h`, `traffic_synthetic.h`) | who is connected to whom, end-point addresses | connect, encode, decode, distance; destination of the next packet | simulator |
| netrace (`src_c/netrace-1.0/`, `src_verilator/netrace_lib.h`) | packets read ahead with their count of dependencies; waiting, injected and travelling queues | read, clear dependencies, inject, eject | trace file, simulator |
| SynFull (`src_c/synfull/`, `src_verilator/synful_wrapper.h`) | coherence transactions, packet queue, traffic state; the buffers of the socket server | start transactions, react to what arrives, inject, answer | simulator, or a server over a socket |
| cycle removal (`remove_cycle/agony/`) | graph with the edges of removed cycles turned, ranks, slacks | cancel cycles, rank nodes, relieve agony | topology scripts |
| JTAG loaders (`src_c/jtag/`) | file words, scan queue, report | write memory in parts, verify, rewrite, dump | target's JTAG bridge, through a vendor's shell or a USB blaster |
| vendor shell pipes (`pipe.c`, `jtag.c`) | stdio buffer, two pipes | send a command, find the line with the answer | `xsdb`, `quartus_stp` |
| UART terminal (`src_c/jtag/uart_xsct_terminal/`) | window and log buffer per UART, temporary files | poll, print, flush, merge | JTAG UARTs |
| image converters (`src_c/ihex2bin/`, `src_c/ihex2mif/`, `bin2mif`, `bin2str`) | record under construction or being parsed, memory image | Intel HEX to and from binary, mif, other memory files | compilers, loaders |
| network interface (`src_peripheral/ni/`) | Wishbone registers, DMA per VC | move packets between memory and network | router, bus |
| tops, checkers, bridges; peripherals, processors, GUI, scripts, tests, boards | wiring, assertions; independent or vendored IP, generators, data | | |

**What is hard.**  Inside the network there is no crash, no loss and no retry; a
wire never drops a flit.  What is hard is that every decision is made from
registers computed a cycle earlier while credits, tails, headers and grants of
the same VC meet in one cycle: credits taken and returned at once, the full
prediction for an OVC allocated in this very cycle, release and allocation of an
OVC in one cycle, a header FIFO popped as the next header arrives, a flit that
bypasses the buffer beside the normal way through it, FIFOs read and written
while empty or full, and configuration arithmetic that only some parameter
values exercise.  Beyond one link: deadlock of routing and starvation in
arbitration.

Around the network it is different.  The simulator's threads share the
routers' wires without locks and meet at flags that are spun on.  Its statistics
are advanced at different clock edges than the events they count, and its end
depends on them.  The players wait for answers of a network that delays and
reorders.  The loaders work over a link with faults, against a CPU that
may overwrite what they write, and read answers through a shell that prints more
than was asked, fails, and shares bounded pipes.  Images arrive damaged and cut.
`PROJECT.json` lists the hazards line by line.

**What makes each component correct.**

- link (output port to input port): each buffer place is counted exactly once;
  nothing is sent to a full VC; an OVC belongs to one IVC; packets on a VC are
  whole and in order; the route read belongs to the flit read; header FIFOs do
  not overflow; a packet that was begun is completed.
- flit buffer, FIFOs: they are FIFOs, per VC, whatever is read and written at
  once, and the tail flag seen ahead belongs to the flit that comes.
- arbiters: one grant, to a requester, in round-robin order; no starvation.
- straight allocator: the link's properties with both ways open; no conflict at
  the crossbar; each header gets its own look-ahead route.
- injector: each packet arrives once, with its size and data; credits are kept.
- routing: the code read at a router says what the algorithm permits there; no
  packet asks for a turn that is not built; it arrives over a shortest way; no
  packets wait for each other in a circle; with adaptive VCs never free, a
  packet still comes to ask for an escape VC.
- simulator: threads evaluate what one thread would, stage by stage; a report
  counts every packet, and every simulation ends; each packet sent is one of one task,
  and the sources of a task graph stop for a reason; each topology table connects
  both ways and agrees with addresses and distances; each pattern names an end point
  that exists.
- netrace: nothing is injected before what it depends on has arrived; nothing is
  injected twice or lost; the replay ends.
- SynFull: a message never outlives its transaction; acknowledgements match
  invalidations; the end is not decided with a packet on its way; the server answers
  with packets the generator waits for.
- agony: the ranks have the least possible agony; ranking ends.
- loaders: without a complaint about a word of the file the memory holds the file; a
  complaint about one has a reason (two versions also complain of the place behind the
  file, see section 5); a dump shows the memory; each scan and answer belong together.
- terminal: the log holds what the UARTs printed.
- converters: an image survives the way there and back; damage to data, addresses
  and checksums is noticed.
- multicast: every destination is served once; the places are freed once.
  SMART: a bypass is granted in all routers or in none.  Weights: every requester
  is served in proportion.

## 2. Modules

| module | models | rests on |
|---|---|---|
| `VcLink` | one router-to-router link: credits, flags, OVC status, predictor, assignment, pipeline, downstream flit buffer and header FIFO, credit return | buffer and FIFOs as sequences (shown by the FIFO run) |
| `VcLinkProofs`, `StraightAllocatorProofs`, `InjectorProofs` | TLAPS proofs about the modules of these names | |
| `FifoProofs`, `ChannelsProofs`, `RoutingProofs`, `SimProofs`, `ReplayProofs` | TLAPS proofs about `MCFifos` with the three buffers, about `MCChannels` with both arbiters, about `PacketRoute`, `WaitChain` and `MCRouting`, about `SimThreads` and `SimTraffic` in `MCSimulator`, and about `SynfullModel`, `Synfull` and `SynfullSocket` in `MCReplay` | the proofs of the components |
| `StraightAllocator` | one input port with its opposite output port, both allocation ways | grants at other ports as `VcLink` shows them |
| `Fifo` | **abstract**: channels of FIFOs behind one read and one write port | |
| `FlitBuffer`, `FwftFifo`, `FwftFifoBram` | the shared-RAM flit buffer and the two first-word-fall-through FIFOs; implement `Fifo` | |
| `RoundRobin` | **abstract**: a round-robin arbiter | |
| `OneHotArbiter`, `ThermoArbiter` | the arbiters up to width 4, and wider; implement `RoundRobin` | |
| `MeshTorusRouting` | operators only: the algorithms of a mesh and a torus, the coded port, look-ahead, the crossbar's missing turns | |
| `PacketRoute` | one packet's way: its code at each router, port selection and swap, grants of both allocators, rewriting of the header | `MeshTorusRouting`; the other packets are the choice of when it is granted |
| `WaitChain` | chains of packets that hold a VC and wait for the next | `MeshTorusRouting`; `PacketRoute` shows that grants are among its `Options` |
| `PacketInjector` | a sending and a receiving injector with a network between | channels in order, as `VcLink` shows |
| `SimPhases` | **abstract**: one thread evaluates the stages of a clock cycle one after another | |
| `SimThreads` | main and worker threads with their flags and each thread's share of the work; implements `SimPhases` | |
| `SimTraffic` | injection, ejection and every counter of the report, unicast and multicast, up to the end of a simulation | a network that may keep flits for ever; threads as `SimThreads` shows |
| `TaskGraph` | the lines of a task file, the packets of its tasks, their order, and the stop of the sources | generators that queue a few packets |
| `SimTopology` | the tables that connect routers and end points, addresses, distances; on them, the destination and size of each packet of a pattern | |
| `Netrace` | trace reader, dependencies, queues; both the stand-alone player and the simulator's | any network with any delay |
| `Selection` | operators only: the elements of a sequence that a test picks, in their order, without recursion | |
| `SynfullModel` | the coherence transactions and the queue of packets to send | `Selection` |
| `Synfull`, `SynfullSocket` | the same inside the simulator, and behind the socket server | `SynfullModel`; any network |
| `Agony` | the ranking of a graph | |
| `JtagLoader` | five versions of the loader, the JTAG bridge they talk to, the script that calls them | scans as the next three show them |
| `XsctScan`, `UsbBlaster`, `ShellPipe` | how a scan becomes hex digits, USB bits, or commands and lines of a vendor's shell | |
| `UartTerminal` | polling and logs | polls as `ShellPipe` shows them |
| `HexRecord` | operators only: records of Intel HEX | |
| `IntelHex` | writing an image, damage on the way, reading it | `HexRecord` |
| `MemoryFiles` | hex to mif, a saved memory to mif, binaries to word files | `HexRecord` |

The `MC*` modules are instances for TLC; `VcLink`, `StraightAllocator` and, for the
violated runs, `PacketRoute` are checked as they are.  One run holds several components
beside each other: its variable `part` says which of them a behaviour is about
while the others rest, so the states add instead of multiplying.  `MCChannels`
has the link twice (`nonatomic`, `atomic`), the injector twice (`injector`,
`inject1`) and the arbiters (`wide`, `narrow`); `MCFifos` the flit buffer and the
FIFOs; `MCRouting` packet, chain and ranking; `MCSimulator` threads, unicast and
multicast traffic, tasks, topologies; `MCReplay` netrace and SynFull in the
simulator and behind its socket; `MCHostTools` the loader, digits, USB, pipe,
terminal, hex and memory files, which share the variables `s1` to `s18`.

How state and actions correspond to the code: variables carry the names of the
registers or C variables (`credit`, `fullReg1` = `full_reg1`, `assigned` =
`ovc_is_assigned`, `dnAssigned` = the same register downstream, `lowPr` =
`low_pr`, `packetsRemain`, `inTransit`, ...).  In hardware one operator
per `always` block or submodule gives the next value of its registers, and
`Cycle` (`Clock`) conjoins them as the wiring does; in programs one action is what
a function does between two exchanges with its surroundings, trailing calls
included.  One-hot vectors are a number or `None`, bit vectors are sets, words of
memory are model values or short tuples.  Variables marked *external* are the
environment or history: the packet that is arriving, the entry a reader took.
A definition whose comment says "Mutation" is not part of the model: it is a
faulty form of the definition that follows, kept to show that the properties
notice it.

**`VcLink`.**  `OutputPort(f)` is the upstream edge when the switch
grants flit `f` (or none): `CreditMonitor` (counter with its width, and the
three flags registered from its next value), `OvcStatus`, `FullOvcPredictor`,
`OvcAssignment`, `FlitPipeline` (crossbar register and the optional link
register).  `InputPort(d)` is the downstream edge when its switch reads VC `d`:
`FlitBuffer`, `HeaderFifo`, `DnAssignment`, `CreditOut`.  `CanSend` is exactly
what the masks of `comb_nonspec.sv` allow; which of the allowed grants is made
is left open, so the results hold for every allocator that respects the masks.
`NonAtomPcks` and `MaxPck` are the source's arithmetic for the header FIFO's
depth.

**`StraightAllocator`.**  A flit `in` arrives while the two-stage
allocators grant `g` to this input port and `x` to another input port that
sends to the straight output port.  `SsaGrant` decides from these in the same
cycle, as `ssa_per_vc` does.  The flit, if granted, goes past the buffer;
otherwise it waits.  The look-ahead route of a header is available one cycle
after its arrival (`lkDestIn`), so the look-ahead FIFO is written and read a
cycle late (`wrHdrDelay`, `rdHdrDelay`), and `LkRoute` selects between the FIFO
and the register.  The next router's view (`leaving`) is history.

**Routing.**  `PossibleOut` is what the module of each algorithm puts
into `possible_out_port`, `Encode` the code `{x, y, a, b}` made of it and
`LookAhead` the code for the next router, with the bits that adaptive routing
takes from the old header.  `PacketRoute` follows one packet: it comes to a
router (`arriving`), is granted an OVC by the straight allocator at once
(`SsaGrant`) or is buffered (`Buffer`), asks in each cycle for the port that
`Sel` chooses (`Wait`, `VsaGrant`), and leaves with the rewritten header
(`Depart`).  The request and the cleared bit use `Sel`, the switch uses
`OutPort`: the code computes the two apart, and `GrantMatchesPort` is about
that.  `port_pre_sel` takes any value in each cycle, which covers every
congestion analyzer.

**`WaitChain`** is about many packets at once without keeping them all.  A deadlock
is a set of packets each of which holds a VC and waits for one that another
holds.  The module follows *one* path through such a situation: from a VC to
the packet whose header is there, to what that packet holds further on
(`Extend`), to a packet queued behind it (`QueueBehind`), to the packet that
holds the VC it waits for (`WaitFor`).  Any packet, with any destination, may be
there if the algorithm could have brought it there (`MayHold`), so the module
has more chains than a network.  If no chain comes back to its start, no circle
of waiting packets exists.  In fully adaptive routing a packet with a free
adaptive VC does not wait; it is stuck only if its escape VC is held
(`EscapeAlwaysOffered`: there always is one), thus `WaitFor` goes to escape VCs,
while `Extend` may go over adaptive ones and `QueueBehind` is possible where
`regular_topo_full_adapt_ovc_avail` lets a VC be reallocated before it is empty.

**Simulator.**  In `SimThreads` main goes through `Schedule`, the stages of the
two halves of a clock cycle: sequential ones (`Sequential`) and those it shares
with the threads: `Raise` the flags one by one, do share 0, spin until all are
down (`Join`).  A worker tests its flags in the loop's order (`Awake`, `Test`),
does its routers or end points one by one (`DoItem`) and lowers the flag
(`Lower`).  Every access to a flag is a step.  A thread goes over all links and copies
those into its own routers (`Executes`).  The refinement counts for each item the
threads that still have to execute it (`Owing`); in `SimPhases` the items of a
stage are done in any order, each once, and a stage starts when the previous is
complete.  `SimTraffic!Cycle` is one
clock cycle of `main`: what the generators sent and received, which counters that
changes at this edge and which at the next, the idle counter, and `FinishOrFail`.
`TaskGraph!DstGen` is one call of `pck_dst_gen_task_graph`; it is asked for a
first packet by `Init` and then for the next whenever a header leaves, in `TaskGraph!Cycle`,
which also decides whether to stop the sources: `InjectDone` of the packets sent, the time
and the sources that have tasks.  `SimTopology` builds
the tables once per instance (`TopologyInit`); `PckDstGen` then chooses packets from
them.

**Players.**  `Netrace` has the reader (`reader`: nodes with their counts of open
dependencies, as `nt_read_packet`, `nt_clear_dependencies_free_packet` and the
read-ahead keep them) and the queues sorted by due cycle.  `EvalLast` is a call of
`netrace_eval` in which the network may take packets and deliver some, `EvalAgain`
one that is repeated because of the speed-up, `Round` the stand-alone loop.
`SynfullModel` has what both SynFull programs share: `Interval` queues the first
packets of transactions, `Respond` is `react`.  `Synfull` adds the four phases of
one simulator cycle; `SynfullSocket` the requests, the server's buffers and the
objects its pointers share.

**Agony.**  `NewSeed`, `Descend`, `Leave` and `CloseCycle` are the depth-first
search that takes out cycles, `InitAgony`, `Lift` and `Ranked` the first ranks,
`Relieve`, `ReliefStep`, `ReliefOver` and `Shift` one call of `relief` with the
exchange of a cycle.

**Host tools.**  `JtagLoader` runs any of the five programs, described by a record
of where they differ (`Tools`): the scans of a phase are in `plan`, the answers
in `got`, and `WriteDone`, `VerifyDone`, `RewriteDone` and so on are what the
program does with the answers of a phase.  The bridge answers a read one or two
scans later; a written word may be lost or damaged; a CPU that nothing holds
stores.  `XsctScan` is the conversion of a register to hexadecimal digits and
back, `UsbBlaster` the TMS/TDI bits through a TAP and a virtual hub and the bytes
of bulk transfers.  `ShellPipe` is a call of the library as steps (say, flush,
read until) against a shell behind two bounded pipes.  `UartTerminal` polls UARTs
round and round until ESC.  `IntelHex` writes an image line by line, may damage or
cut the file, and reads it symbol by symbol; `MemoryFiles` makes mif and word files.

## 3. Runs

| run | question | states, bounds |
|---|---|---|
| `vclink_nonatomic` | all safety of the link with non-atomic allocation and `OVC_ALLOC_MODE` | 207 162; 2 VCs, 2 IVCs, depth 3, packets of 1 to 3 flits, pipeline register |
| `channels` | the other two allocation rules, atomic and without `OVC_ALLOC_MODE`: header FIFOs and completion; the injector; both arbiters | 44 140; depth 3, packets up to 3 flits (2 to 3 where the smaller header FIFO is used); injector buffers of 2 with interleaved packets and of 1 back to back; arbiters of width 5 and 4 |
| `straight_allocator` | both ways through the router at once | 172 230; 2 VCs, depth 2, 2 flits waiting, 2 look-ahead routes |
| `fifos` | the shared RAM implements a FIFO per VC, both FWFT FIFOs implement a FIFO | 146 162; 2 VCs of depth 3 (no power of two), bypass on; depth 4 |
| `routing` | every algorithm of the mesh and dimension order in the torus: no circular waiting, right ports, a shortest way, delivery; ranking of channel graphs | 134 366; 5 x 3 routers, `AVC_ATOMIC_EN = 0`; every graph of up to 4 nodes |
| `simulator` | threads, statistics, task graphs, topologies, patterns | 117 232; 3 threads, 4 routers and 5 end points, `SMART_MAX = 0`; 2 end points with packets of 1 and 2 flits; 3 sources, 2 task files, 2 queued packets; 58 topologies, 11 patterns |
| `replay` | netrace and SynFull, over a network with any delay and order | 336 276; 4 packets with every choice of dependencies in 10 modes; SynFull with up to 5 packets and 5 clocks |
| `host_tools` | the programs on the host | 203 988; files of 10 to 16 bytes in words of 4 and 8, parts of 2 words, 2 glitches; pipes of 4 lines; images of up to 5 bytes at 8 addresses |
| `vclink_header_fifo` | **violation**: packets as long as the buffer and a header FIFO of one place | depth 5, packets of 5, one IVC |
| `torus_adaptive` | **violation**: a packet asks for a turn that is not built | adaptive algorithms of the torus, 5 x 3 |
| `swap_pre_selection` | **violation**: the selection must swap | fully adaptive mesh, 3 x 3 |
| `jtag_cpu` | **violation**: "cpu is disabled." | a loader by itself, without `program.sh` |

What the passing runs state:

- `vclink_nonatomic`: `CreditConservation`, `NoFlitToFullOvc`, `OvcExclusive`,
  `Wormhole`, `RouteOfHeadFlit`, `PredictorExact` (an action property: an IVC that keeps
  its OVC is told that it is full exactly when it has no credit there).
- `channels`: `HeaderFifosNeverFull`; `InjectorSound` (packets as they were sent,
  places accounted for); `PacketsComplete`; `ArbitersAreRoundRobin` (refinement of
  `RoundRobin`); `NoStarvation`.
- `straight_allocator`: `NothingCollides` (types, credits, switch, OVC
  ownership), `LeavesInOrder`, `LookAheadOfHeader`.
- `fifos`: `FlitBufferIsFifo` and `FwftFifosAreFifos` (refinements of `Fifo`).
- `routing`: `NoCircularWait`, `TakesItsWay`, `GrantIsLegal` (escape VC
  offered, grant is an option and goes to the port asked for), `EventuallyDelivered`;
  `AgonyMinimal` (against the minimum over all rankings) and `RankingEnds`.
- `simulator`: `ThreadsAreSequential` (refinement of `SimPhases`, and nobody works
  outside the stage that main waits for), `ReportComplete`, `SimulationEnds` (and
  the clock runs on until then), `TasksAccounted` (each header that leaves takes one packet
  of one task; the sources stop for a reason, and they stop), `TopologySound`, `DestinationExists`.
- `replay`: `DependenciesRespected`, `EndsWhenQuiet` (netrace ends complete, SynFull's
  end is not decided with a packet on its way), `TransactionsAccounted`,
  `AnswersKnownPackets`, `PlayersEnd`.
- `host_tools`: `NoWordLost`, `NoFalseAlarm`, `ScanReachesRegister`,
  `ShellAnswers`, `LogIsWhatWasRead`, `ImageComesBack`, `MifIsMemory`.

**Why the bounds are enough.**  Depth 3 separates empty, one left (nearly
full), and neither; two flits in the pipeline plus one buffered fill it; two
VCs and two IVCs let a release, an allocation and a competing allocation meet.
Packets of one flit do allocation and release at once, packets of three fill
the buffer and need returned credits.  The FIFO depths are the smallest at which each path (empty, single,
several entries, full; wrap of pointers in each VC) is taken; the abstract FIFO
compares the contents with a history in every state, and since no FIFO looks at
its data two values show every lost, repeated, reordered or misplaced entry.
Five columns are the smallest ring in which `tranc_dir` uses each of its cases,
three rows are a ring that its cases cut as well; in the mesh they give each
turn inside, at the edges and in odd and even columns.  `AVC_ATOMIC_EN = 0`
allows more than 1 does.  The chains of `WaitChain` have no bound on their
length, and the proofs of section 4 remove the bounds on the size of the network,
on the depths and numbers of channels, and on the width of the thermometer arbiter:
5 is its smallest, 4 the largest of the tables.  In `StraightAllocator` `MaxBuffered`
bounds flits waiting in the whole input port, `BodyFlits = FALSE` leaves
packets of one and two flits (a packet of two flits has all kinds of flit that
`ss_allocator.sv` tells apart), and `OtherVc` restricts the OVCs of the other
input port to one, so that one OVC is disputed and one is not; `Id` is the only
symmetric set since `OtherVc` distinguishes the VCs.

Three threads are main, a worker with a full share and one with the rest; four
routers and five end points leave shares of different size and an empty one.  Two
end points make every packet's sender and receiver differ or be one; `EndPck`,
`EndClk` and `IdleLimit` are each reached first in some behaviour.  Graphs of four
nodes have cycles that share edges, which is what the exchange of cycles in
`relief` is for.  A trace of four packets has chains, forks and joins of
dependencies; the network's order and delay are free, and the clock runs past the
end of the trace (in `Netrace` it then alternates between two values, which keeps
the states finite and lets idle cycles pass).  Two glitches damage a word twice:
in the load and in the rewriting.  Words of one and of two chunks, parts that end
within the file, and dumps and data calls make every branch of the five loaders
happen.  The pipes are just large enough for what a correct host leaves in them,
and smaller than what a host that does not read would leave.  The images end at, before and
behind the border of a 64 KiB bank.  `MaxPckSize`, `MaxSize`, `MaxClk`, `MaxPck`,
`Horizon`, `NumCycles`, `MaxGlitches` and `MaxStores` are bounds of the models; all
other constants are parameters of the code.

**Deadlock** is checked in the runs about hardware: some input is always
possible.  `simulator`, `replay`, `host_tools` and `jtag_cpu` switch it off, since
simulations and programs end; that the host and the shell do not wait for each other
for ever is part of `ShellAnswers`, that simulations end is stated as liveness.

**Fairness.**  The clock never stops.  `channels` assumes in addition that an IVC
that can continue its packet is eventually granted and
that the next router drains every non-empty VC: round-robin arbitration gives
both (`NoStarvation` of the wide arbiter), and that the remaining flits of a
packet arrive, which is the same statement about the link before.  Nothing is
assumed about headers: a packet may wait for an OVC for ever, and no such claim
is made.  The input arbiters only advance when the output arbiter grants as
well (`PriorityEn`): the abstract arbiter has that signal as an input
(`enabled`), the refinement shows that the priority moves exactly then, and no
starvation freedom is claimed.  For the injector the network passes on
what it holds.  `PacketRoute` assumes that the clock updates `swap_reg`
(`WF_swap(Wait)`) and that a packet which asks again and again for an OVC that
becomes free again and again is granted it (`SF` of `VsaGrant`, the arbiters
being round-robin; that escape VCs become free is `NoCircularWait`).  It does
not assume that an adaptive VC ever becomes free, nor anything about the
congestion analyzer; `EventuallyDelivered` names what is needed of them.
`Agony`, and each source of `TaskGraph`, goes on (`WF`).  In `SimThreads` main and
each worker are scheduled (`WF`), as an operating system does; nothing says that
they run at once.  In `SimTraffic` the clock runs until the end, but the
network may hold a packet for ever: `SimulationEnds` then means the error of the
idle counter; only a packet that is half sent is never the last thing to move,
which is `PacketCompletes` of the link.  In `replay` the network serves ready
injectors and delivers what it holds, which is what `routing` is about.

**What the violated runs show.**

*`vclink_header_fifo`.*  `NON_ATOM_PCKS` in `input_ports.sv` is 1 whenever
`PORT_B <= MIN_PCK_SIZE`.  The comment above it counts one packet partly read
and one partly written, which can both be in a buffer of three to
`MIN_PCK_SIZE` places.  The run reaches a state in which the header of a second
packet is written while the tail of the first has not been read, and the
header FIFO of depth one overflows.

*`torus_adaptive`.*  The adaptive algorithms in `route_torus.sv` set the y bit
of the code when the packet goes *plus*, which is SOUTH; the decoder, the port
selector and the mesh algorithms read 1 as NORTH.  Under TRANC_NORTH_LAST a
packet from (0,0) to (1,1) goes NORTH round the ring and then needs EAST, a turn
that the crossbar of the SOUTH input is built without.  The adaptive torus in
the tests is 3 x 2, where NORTH and SOUTH lead to the same router.  These
configurations are therefore not part of `routing`.

*`swap_pre_selection`.*  `swap_reg` is set, not toggled, while the escape VC is
forbidden and no adaptive VC is free.  If the congestion analyzer changes its
preference from y to x in the cycle in which the register is set, the inverted
preference is y again, and so on: the packet does not ask for its escape VC in x
until an adaptive VC of y becomes free or the preference changes again.  Hence
the premise `<>[]pre` of `EventuallyDelivered`.

*`jtag_cpu`.*  The loaders scan a 1 into `RD_WR_STATUS` to hold the CPU, and
`quartus_stp` says "cpu is disabled."; the bridges (`vjtag_wb.v`,
`xilinx_jtag_wb.v`) only read that register.  The CPU is held if the loader is
called by a script like `program.sh`, which uses the enable register of index 127
(`jtag_system_en.v`); all of `host_tools` assumes such a script (`Scripted`).

## 4. Proofs

Every safety property and every refinement of the five runs about hardware is proved
as a theorem of the specification that the run checks, for all values of the
constants; only `AgonyMinimal`, which shares the run `routing`, is not.  Of the runs
about programs, the refinement that `simulator` checks of the threads and the report of
its statistics are proved, and what `replay` checks of both SynFull players.  The theorems about a component are in its own module; where a run holds several, a module
about the composition shows that each part's steps are the component's steps and
leave the others alone, and applies the component's theorem.

| module | theorem | property, in words |
|---|---|---|
| `VcLinkProofs` | `CreditsConserved`, `NeverSendToFull`, `OvcsExclusive` | each place is counted once; a grant has a credit; OVCs and IVCs correspond one to one |
| | `CreditsNeverWrap`, `PredictionExact` | no step takes a credit from zero or adds one at the depth; `PredictorExact` |
| | `PacketsStayWhole`, `HeadersMatchFlits` | `Wormhole` and `RouteOfHeadFlit` |
| | `HeaderFifosSuffice` | the formula for the depth of the header FIFOs is enough |
| `ChannelsProofs` | `HeaderFifosFit`, `ArbitersServeInTurn`, `InjectorsDeliver` | `HeaderFifosNeverFull`, `ArbitersAreRoundRobin`, `InjectorSound` of `MCChannels` |
| | `ThermoIsRoundRobin`, `ThermoGrantOneHot`, `ThermoNeverPassedTwice`, `OneHotIsRoundRobin` | both arbiters implement `RoundRobin` |
| `InjectorProofs` | `PacketsDeliveredAsSent`, `InjectorBuffersAccounted` | packets as they were sent, no place lost |
| `FifoProofs` | `FlitBufferImplementsFifo`, `FwftFifosImplementFifo` | the three buffers implement `Fifo` |
| `StraightAllocatorProofs` | `AllocatorsNeverCollide`, `PacketsLeaveInOrder`, `HeadersLeaveWithTheirRoute` | the three properties of `straight_allocator` |
| `RoutingProofs` | `NetworkNeverWaitsInACircle`, `RoutesFollowTheAlgorithm`, `GrantsAreLegal`; `PacketsFollowTheAlgorithm`, `RequestsAreWired` | `NoCircularWait`, `TakesItsWay`, `GrantIsLegal` of `MCRouting`; ways of a packet |
| `SimProofs` | `SimulatorThreads`; `ThreadsImplementPhases`, `StagesApart` | `ThreadsAreSequential` of `MCSimulator`; `SimThreads` implements `SimPhases` |
| | `ReportsComplete` | `ReportComplete` of `MCSimulator`, for every setting of unicast and multicast traffic |
| `ReplayProofs` | `PlayersAccount`, `ServerKnowsPackets` | `TransactionsAccounted`, `AnswersKnownPackets` of `MCReplay` |
| | `LibraryEndsWhenQuiet` | the part of `EndsWhenQuiet` that is about the library |

**Assumptions.**  The constants' assumptions are stated beside them and TLC
evaluates them: `ConstAssumption` (depth at least 2, a credit counter wide enough for
it), `ThermoAssumption` and widths 2 to 4 for the tables, `InjectorAssumption` (the
longest packet fits the receive counter, `counter2` counts the chunks of a packet),
`FwftAssumption` and `BramAssumption` (the depth fits its counter; one entry is beside
the RAM), `StraightAssumption`, `SimAssumption` (two threads or more, a router and an
end point, links into routers that exist), `TrafficAssumption` for the two settings of
`MCSimulator` (an end point or more, packets and latencies that are not zero; the idle limit
`NE*10` is two or more) and `RestAssumption` (a mesh with `DOR` is among the
configurations: it is where parts that rest stay).  `PlayersAssumption` joins those of
the players: `ModelAssumption` (finitely many nodes, with numbers; a memory takes a clock or more to
answer; what a class starts in an interval is a sequence of operations),
`WrapperAssumption` (finitely many end points, with numbers) and `SocketAssumption` (nodes
are numbered from 0; the last clock is not beyond `Horizon + 1`, where the model stops
to tell clocks apart; `MaxId` is a number).  `NoneAssumption` says that the
value `None` is no packet or VC.  Two theorems have a hypothesis of their own:

- `HeaderFifosSuffice`, `HeaderFifosFit`: OVCs are allocated atomically, or by
  `OVC_ALLOC_MODE`, or packets may be shorter than the buffer (`MinPck < B`).  In the
  case left over the FIFO is a place short: `vclink_header_fifo` shows it overflow.
- `Configs \subseteq AllowedConfigs`: the algorithms of the mesh and
  dimension order in the torus.  `torus_adaptive` shows what is wrong with the rest.

**Credits** (`VcLinkProofs`).  `CreditConservation` is not inductive: a grant must
find a credit, and the switch only knows registers of the cycle before.  `IInv` adds
what those registers mean: `FlagsExact` (the three flags say what the counter
says), `PredictorSound` (an IVC whose assigned OVC is not predicted full has a
credit there), `AssignmentOK`, and `OvcExclusive` (else two IVCs could both use the
last credit one prediction vouches for).  The ranges in `TypeOK` say nothing of a wrap, since the
counter is taken modulo its width: `CreditsNeverWrap` says that in every step it changes as
an integer would, which follows from the grant having a credit and from each returning
credit being for a place that was not counted.  `PredictorStep` is the heart: the OVC of
an IVC loses a credit only by the IVC's own grant, which the second register sees
with `nearly_full`, or had none already, which the first sees with `full`; a
returning credit relieves both.

**Order on the link.**  `OrderInv` looks at the flits of a VC between the two
routers as one sequence and at the routes in the header FIFO as another: headers
and tails alternate, and there is one route per packet, in the same order
(`Routed`: flit k belongs to the route at place k of a non-decreasing map).  From
this `RouteOfHeadFlit` is the case of the first flit.  A buffer of `B` places holds
at most one packet's end, whole packets, and one packet's beginning; counting them
gives the depth of the header FIFO (`RoutesFit`, `HeadersFitPlaces`).

**Straight allocator.**  The same sequences for two ways through the router:
`InOrder` relates buffer, header FIFO and the packet that is arriving; `Queues`
and `LookAheads` do so for each VC, with the look-ahead routes as they are written
one cycle late; `Occupied` says who owns each OVC; `HeldBack` that a waiting flit
whose OVC has no credit is held back, although the predictor learns one cycle late
of what goes straight on (no flit waits then); and `Output` what the registers
behind the crossbar hold and which packet is open on each OVC.

**FIFOs.**  `Contents` of each buffer is proved to be changed as `Fifo` says by
each edge: entry by entry, which leaves arithmetic on wrapping pointers, and from
the entries to `Append` and `Tail` by lemmas on sequences.

**Arbiters.**  The register of the thermometer arbiter is always a mask
`p .. N - 1` (`MaskFrom`); that its grant is the first request in order needs the
least element of a set, from `NatLessThanWellFounded`.

**Injector.**  `DeliveredAsSent` is about one cycle, when a whole packet has long
left.  `ChannelInv` says for each channel that its flits on their way are those of
the packets not yet received, one after another (`Track`): flit k is flit `j[k]` of
packet `m[k]`; the first carries on where the receiver's counter stands, with
the data before it in place (`Received`), and the last ends where the sender's
`counter` does (`EndPlace`).  `SenderInv` says that `counter` and `counter2`, which
count in opposite directions and wrap, name the same place.  `PacketAdded`,
`FlitAdded` and `FlitDropped` are what a new packet, the sender and the receiver do
to `Track`; the sum of credits is `NetworkStep`.

**Routing of one packet** (`RoutingProofs`).  `Onward` says for each algorithm
which directions a packet that came out of a port can still need (after NORTH
under north-last nothing else, and so on), `BitsKept` that the bits of an adaptive
header, which are inherited and cleared but never computed again, still say the
shortest way; together they make the code read at a router what the algorithm
permits there.  Hops and remaining distance add up to the distance of the end points,
which in a torus needs that `tranc_dir` never changes its mind on the way.

**Deadlock** (`RoutingProofs`).  `NoCircularWait` says nothing about chains in
between.  Each algorithm has an order of its VCs (`After`): along the rows after
everything west (west-first), towards the end of a column last (north-last), in the
direction of `y - x` (negative-first), over the even columns to the west and then
over the odd ones to the east (odd-even), in a torus along each ring from the router
that `tranc_dir` lets no packet pass (`PlusPos`, `MinusPos`).  `ChainInv` keeps
that the VC where the chain stands comes after `start` and that the header in it
still wants to go the way that its VC leads.  `StepUp` shows that each option of a
waiting header comes after the VC that the header is in; `NeverAfterItself` ends the
argument.  For fully adaptive routing the chain may pass through adaptive VCs,
which no order ranks; `AfterFullAdaptive` says instead what their packets can
still have to go, and that is where the atomic allocation of the adaptive VCs of y
is needed.  `RoutingInv` joins `RouteInv` and `ChainInv`; `GrantsAreLegal` then
shows that what the allocators grant to a packet is what the chains take it to ask
for, so the two models are about one network.

**Threads** (`SimProofs`).  `IInv` adds to the three parts of `StagesApart` where
main may be when (`Calls`) and that a thread at work has a part of its share left,
without repetition (`Todo`).  `SimPhases` counts the executions to come; the
threads have no such count.  `OneThreadPerNode` shows from the rounding in
`initial_threads` that the chunks cover all nodes and do not overlap, `OneOwner` that
so every item of a stage has one owner, and `PendingIsOwn` that only the owner
can owe it: before its flag is raised, while the flag is up and not yet seen, and
while the item is in the list of the branch.  The count is thus one or zero
(`OneOrNone`).  Raising the first flag then begins a stage, finding the last one down
ends it (no flag is up, nothing is owed), doing an item is `Do` or, for a link of
another thread, nothing, and every other step is `Unseen`.

**Statistics** (`SimProofs`).  `ReportComplete` says of the last cycle what only all cycles
before it together bring about: when the flits expected and the flits received are equal
in number, nothing is under way and all statistics agree.  `TrafficInv` keeps a book for each two
end points (`PairBook`): the flits received of a packet that is not complete, the run of flits in the
network (`Run`: each flit is the last of its packet just when its number is the
packet's size, and no packet is begun in another) and the flits already sent of a packet that is half sent.
What the statistic of the pair counts and what the book holds is what was sent between
the two.  `Books` joins them: the expected, the received and (without multicast)
the sender's counts are sums over all books (`RowSums`), thus equal totals leave every book empty
(`HeldCounts`), and a packet half sent without a flit in the network would have to
send on (`NothingHalfSent`).  `Reports` says that a receiver's statistic is the merge of those of
its pairs and that the least latency of a sender is the least of its pairs; that
merging by senders and by receivers gives the same minimum is `ReportMin`.
`Verdict` ends the argument: the idle cycles are counted only while flits are missing, which
is why the error is never reported of equal numbers.  The loops over the end points are functions
on `0 .. NE`, and what holds of each of their steps is proved by the least number at which it
would not (`UpTo`).

**Players** (`ReplayProofs`).  `TransactionsAccounted` says that a message that is on
its way or waiting has its transaction, and that a transaction waits for as many
acknowledgements as invalidations and acknowledgements are under way; the steps that
complete a transaction need more.  The proof keeps an account of each
transaction: at most one message carries it on at a time (a request, a forward, the
data of a memory or of the last owner), what has been said of its completion agrees
with what that message still will do, the acknowledgements owed are the
invalidations and acknowledgements of that transaction in all queues together, and the
limits on what may be sent only ever take away messages that are not yet counted.
These facts are stated over sets of identifiers (`UnderWay`), so that a step
moves one identifier from queue to queue or replaces it by those of the answers.  A
queue that is cut in two by what is due (`Select`) is where sequences enter:
the lemmas about `InOrder` say that both parts together hold each element once.

`LibraryEndsWhenQuiet` needs that `packetsLeft` is set in each cycle in which a queue
was not empty after its injector took a packet, or a packet was in the network
when its end point was looked at; what is left when it is not set was given to an
injector in this very cycle.

`ServerKnowsPackets` is about a server that puts a packet which the network refused back
by writing it over the object that `_req` points to, the last it handled, though that
object may still be in its buffer with a packet of its own.  What holds nevertheless:
the pointers in the buffer are distinct objects, only that of `req` is ever overwritten,
and each packet that an object of the buffer holds is one that the generator still waits
for, in at most one place.  So packets are lost, but the generator never gets an answer
for a packet it does not know.  The loop of `PutBack` over the ejection buffer has an invariant of its
own, proved for each number of rounds by taking the least round at which it fails.

**Only model-checked.**  All liveness (TLAPS 1.4.5 does not reason about fairness
and ENABLED), thus `PacketsComplete`, `NoStarvation`, `EventuallyDelivered`,
the running clock (`ClockAdvances`) and the endings of programs.  What `Agony` and the
converters compute (`AgonyMinimal`, `ImageComesBack`, `MifIsMemory`, `TopologySound`,
`DestinationExists`) and the queues that `Netrace` sorts and filters
(`DependenciesRespected`, its part of `EndsWhenQuiet`): it is defined by folds and
recursion over data.  The induction theorems take an operator as a
parameter, which the installed provers cannot instantiate; where a proof here
needed induction it takes the least counterexample in a well-founded order instead,
which does not reach through a fold.  The simulator's task graphs and the host tools have
no theorem yet.

## 5. Not modelled

Routing in line, ring, tree, fat tree, star, 3D and custom topologies (their tables
are in `SimTopology`), routing without look-ahead, several end points per router,
multicast, SMART, weights, speculative and baseline allocators, message classes and
the network interface.  The hazards that this leaves without a property are: the read
pointers of a multicast packet, of which the last to pass frees the places
(`flit_buffer.sv:141`); the list of OVCs of a message class, which together with the
escape VCs must leave every packet one (`ovc_list.sv:26`); a SMART bypass granted in
several routers from flags of the cycle before (`router_bypass.sv:375`); the
weighted arbiter's locked priority (`wrra.sv:104`); and the tree arbiter, whose
groups move their priority when they grant although the group may lose
(`arbiter.v:508`).  The congestion analyzer only changes preferences;
`PacketRoute` lets it say anything.  OpenPiton and CHI bridges, multi-mesh clusters,
peripherals, processors and their headers, vendored libraries, the GUI, scripts and
test data are not part of the system's own logic.

Inside the modelled parts the following are left out: multicast and SMART inputs,
simulation-only counters of the RTL, header fields nobody decides on, random numbers
(any choice is taken), option parsing, printing, file formats of traces and of
SynFull's model, curses, libusb.

Some behaviour of the code is kept in the models but outside the properties'
premises, or is left out by a premise that names it:

- *Loaders:* the comparison of wide words leaves the last ones out and its result is
  not used, though "There was no difference!" is printed; for wide words the
  offset of a part beyond the first is not scaled; words of four and more chunks are
  reordered wrongly; a trailing part of a word is not sent.  The properties about the
  loader are therefore about words of one chunk (of any size for the USB blaster's).
  The comparison of `quartus_stp` and of the oldest xsct version runs to `i <= num` and
  then two scans late, so it also compares `buffer[num]` (what `malloc` left, or the bytes
  of a last part of a word) with the memory behind the file and prints "missmatched at
  location" of that place (`jtag_quartus_stp.c:367-374`, `back/jtag_xilinx_xsct.c:384-391`):
  a false alarm after a good load.  `NoFalseAlarm` and `NoWordLost` name it (`PastTheFile`) and are
  about the words of the file.  Only scans that write meet faults of the link.
  `xsct` cuts a number into words rightly when its digits are a multiple of 8, and
  puts the update code in its place for registers of 8k + 4 bits.  The USB
  blaster's loader never calls its `read_mem` although the usage text offers `-r`.
  `program.sh` starts the CPU after a failed load, too.
  Strings that `strncpy` leaves without their end and buffers of `malloc(sizeof ...)` that are
  too short, in the helpers of the scans, are not modelled; short scans are of one packet.
- *Shell:* `clean_stp_buff` does not notice ERROR and end of file; `pipe.c` keeps at
  most ten processes.
- *Terminal:* `buff_ptr` is not initialised; the log ends at a byte of 255.  The windows are
  not modelled: `win_add_char` writes at curses' cursor and only counts bytes and new lines, so
  carriage returns, tabs, backspaces and bytes above 127 put what follows elsewhere than
  `win_x` and `win_y` say, the box included.
- *Converters:* `bin2str` takes the end of file for a byte of 255, a trailing part of a word
  is written short; `ihex2mif` leaves out the last word if the end is its first
  byte and ignores extended addresses; the reader skips unknown records and does
  not miss the last one, so damage to a type (above 7), a colon or a length, or a cut between
  records, may pass unnoticed: `DamageIsNoticed` is about damage to addresses, data and
  checksums.
- *Simulator:* the last packet of a source's last task is counted, but leaves only if it was
  queued before the source was turned off, for the source is turned off when it is taken;
  a packet already queued keeps the destination of when it was queued; the count of
  packets that ends a task graph is rounded down line by line and includes lines that
  were rejected, so it may stop the sources before all tasks are sent, or stay out of
  reach until no source has a task left (`TasksAccounted` says which packets were taken
  and why the sources stop, not that every task is sent).  That they stop assumes an
  injection ratio above 0 and tasks for other end points than their own; `-n` after
  `-f`, which sets the count anew, is not modelled.  `HOTSPOT_NUM = 0` divides by zero; `NL` of an fmesh lacks parentheses; `synful_numCycles` is never set.
- *Socket server:* a refused packet is written over the object of the last request, which may
  be queued, so packets can be lost (none is answered twice: `ServerKnowsPackets`);
  hence only the answers are stated for `SynfullSocket`, and no end.
- *SynFull:* the end is decided from the queues before the injectors and the network.  A packet
  that the model keeps for a later cycle (a memory answers 80 cycles on) is not waited for: at the
  limit it is dropped and its transaction stays open.  What injectors take in the cycle of the
  decision is on its way at the end.
- *Netrace:* with dependencies ignored and throttling on, the player ends early.

## 6. Plan

1. **Multicast**: second read pointer and destination clearing of one input port.
2. **Weights** and **SMART**, sharing a run with the arbiters and the straight
   allocator where the questions meet.
3. **Network interface**: the per-VC DMA against its status registers.
4. **Routing**: tree and fat tree beside mesh and torus, on the tables of
   `SimTopology`; the congestion analyzer with its counters.
5. **Proofs**: `DependenciesRespected` and the queues of `Netrace`; `AnswerIsOfItsScan` of
   `ShellPipe`; the index of the active task in `TaskGraph`.
