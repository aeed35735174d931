# A verification development for M17Netd

M17Netd carries IP packets over an M17 radio link. Three threads and a helper
talk through three bounded queues; a half-duplex SDR board is switched between
receiving and transmitting; packets are cut in M17 frames and put together again
from the frames a demodulator finds in noise. The modules in this directory are
translated from the source, TLC checks them on small instances, and TLAPS proves
some of what matters for every instance. Paths are relative to the repository.

    kernel --tun--> tun_thread --from_net--> m17tx_thread --to_radio--> radio_thread --> sdrnode
    kernel <--tun-- tun_thread <------------- from_radio (to_net) ----- radio_thread <-- sdrnode
                    to_net_monitor --eventfd--^

## 1. Inventory

| Component (source) | State | Operations | What makes it correct |
|---|---|---|---|
| ConsumerProducerQueue (`inc/ConsumerProducer.h`) | a `std::queue`, one mutex, one condition variable | `add`, `consume`, `wait_for_non_empty`, `clear`, `isEmpty`, all waits bounded by a second | FIFO, atomic, bounded; no lost wakeup; every call returns |
| tun_thread and to_net_monitor (`src/tun_threads.cpp`) | an eventfd, the fd sets, the last packet consumed | select on interface and eventfd; drain `to_net`; forward to `from_net` | each packet exactly once and in order; both directions served; the threads end |
| m17tx_thread (`src/m17tx_thread.cpp`) | the map from routes to callsigns | build the map; consume, look up, build a packet, add it to `to_radio` | a packet goes to the station configured for its destination |
| radio_thread (`src/radio_thread.cpp`) | `channel_bsy`, the packet being received, the one being sent | receive and measure, switch, transmit | listen before talk; packets sent whole; frames of different transmissions not mixed |
| m17tx, m17tx_pkt, m17tx_bert (`src/m17tx.cpp`) | the frames of a packet, the BERT register, the polyphase buffer and its position | constructor: segmentation and coding; `get_baseband_samples`, `terminate_stream` | every byte in exactly one frame, numbered as the receiver expects; every symbol sent once |
| m17rx (`src/m17rx.cpp`) | status, LSF, data, frame counter, BERT history | `add_frame`, `is_valid`, ... | what was sent is what is returned; skipped frames noticed |
| M17Demodulator (`src/M17Demodulator.cpp`) | state, sync words, miss counter; symbol clock, frame being filled | `update`, `getFrame` | locks on signals, lets go of dead ones, reports ends of transmission; takes every symbol at its place |
| sdrnode (`src/sdrnode.cpp`) | sound device, GPIOs, transceiver mode, `tx_nRx` | `switch_rx`, `switch_tx`, `receive`, `transmit` | its parts agree on the direction |
| sx1255_drv, spi_device (`src/sx1255.cpp`, `src/spi.cpp`) | registers of the transceiver | set gains, frequencies, mode | fields do not overlap; failures reported |
| tun_device (`src/tuntap.cpp`) | descriptors of the interface | create, address, routes; `get_packet`, `send_packet` | one packet per read |
| config (`src/config.cpp`) | the parsed TOML file | typed getters with defaults | values within what the other parts accept |
| main (`src/m17netd.cpp`) | the atomic `running` | start and join the threads, SIGINT | all threads end |
| Synchronizer, Correlator (`inc/`) | ring of samples, history of correlations, trigger | `sample`, `update` | a sync word's peak is found at its place in the ring |
| M17Utils, iir, type_conversion (`inc/`) | filter states | signal processing | numerical |
| test programs, Python scripts | - | stand-alone tools | - |

The hard behaviours are these.

* **Shared queues.** Producers and consumers wait on the same condition variable,
  the notification follows the unlock, waits time out, and two callers read the
  size without the mutex.
* **An event counter next to a queue.** `tun_thread` waits in one `pselect` for
  both directions; "the queue is not empty" is turned into a readable eventfd by
  a second thread, and cleared by the first.
* **Guessed sync words.** When a sync word is damaged the demodulator guesses it,
  a limited number of times; the receiver's packet outlives the lock.
* **A half-duplex radio** whose switches have several steps, each of which may
  fail and whose results nobody looks at.
* **Shutdown** by one flag read in many places, while calls are in progress.
* **Look-ups in a `std::map`** whose comparison is not an order.
* **Counters that advance at different rates**: samples, symbols and frames in the
  baseband generator, whose calls end anywhere; samples, ring places and symbols in
  the demodulator, whose clock is moved by what it hears.
* **A synchronisation that is gained and lost by counting** (the bit error rate
  test), in the middle of frames.

`PROJECT.json` lists the hazards at their lines with the properties for them.

## 2. Modules

| Module | Models | Uses |
|---|---|---|
| `BoundedQueue` | abstract: what the queue promises | - |
| `ConsumerProducerQueue` | the monitor, between any two points where another thread may interleave | `BoundedQueue` through a refinement mapping |
| `ConsumerProducerQueue_proofs` | 5 theorems | |
| `TunThread` | tun_thread, to_net_monitor, SIGINT; kernel, radio and m17tx_thread at its borders | the queues as `BoundedQueue` promises, `isEmpty()` racing |
| `M17txThread` | the loop of m17tx_thread with both its queues | - |
| `RadioSide` | abstract: what the other threads see of the radio thread | - |
| `M17Netd` | the daemon: all threads, the ring of their queues, the joins of main | extends `TunThread`, instances of `M17txThread` and `RadioSide`; implements `TunThread` |
| `M17Netd_proofs` | 6 theorems, two of them about `TunThread` | |
| `M17Rx` | the value of an m17rx and its member functions | - |
| `PacketSuperframe` | the constructor of m17tx_pkt, and add_frame on a perfect channel | `M17Rx` with 25 bytes per frame |
| `Baseband` | the base class m17tx: `get_baseband_samples` sample by sample | - |
| `Transmission` | a packet from its constructor to its last transmitted block | extends `PacketSuperframe`, `Baseband` |
| `Transmission_proofs` | 5 theorems, three of them about `PacketSuperframe` | |
| `BertRx` | the BERT part of m17rx | - |
| `BertLink` | m17tx_bert, a channel, the BERT receiver | extends `Baseband`, `BertRx` |
| `BertLink_proofs` | 3 theorems | |
| `M17Demodulator` | the state machine of update(), frame by frame | - |
| `Synchronizer` | the correlator's ring, the search of a correlation peak | - |
| `SymbolClock` | update() sample by sample: symbols, peaks, the search window | extends `Synchronizer`; implements `M17Demodulator` through a refinement mapping |
| `SymbolClock_proofs` | 4 theorems | |
| `PacketLink` | the receive loop over a channel that damages frames | extends `M17Demodulator`, `M17Rx` with 1 byte per frame |
| `PacketLink_proofs` | 9 theorems, three of them about `M17Demodulator` | |
| `Sx1255` | the transceiver's registers, gains, frequencies and mode | - |
| `Sdrnode` | the switches of the radio and their failures | extends `Sx1255` |
| `RadioThread` | the loops of radio_thread around the radio | extends `Sdrnode`; implements `RadioSide` through a refinement mapping |
| `RadioThread_proofs` | 6 theorems | |
| `RouteTable` | m17_route, callsign_map and its look-ups; the kernel's routes for the same peers | - |
| `RouteTable_proofs` | 3 theorems | |

The modules `MC...` give the constants values.

### Correspondence

*ConsumerProducerQueue.* `pc[t]` places a thread between two points where others
may run: `lock` and `relock` wait for the mutex (at entry, after a wait), `test`
evaluates the predicate of `wait_for`, `mutate` is the critical section,
`notify` is after `unlock()` and before `notify_all()`, `look` is an unlocked
`isEmpty()`. `Deadline` and `SpuriousWakeup` are the library's. The unlocked read
is undefined behaviour: `Look` returns either answer while a push or a pop is in
progress. `AbsStage` and `cpq` map the state to `BoundedQueue`: an operation
takes effect when it enters `notify` or `return`.

*TunThread.* `tun_pc` and `mon_pc` are the places in the two threads; `eventfd`
is "the counter is not zero". A push and a pop have a beginning and an end, with
the mutex held in between, so that `SeesEmpty` and `SeesNonEmpty` may both hold.
A packet is `[id, body]`; its body has exactly the facts the tests at
`src/tun_threads.cpp:163-183` look at; `RxPackets` are the packets the radio
completes, in order. `fdset` is emptied at the loop's test, where no code reads it any
more. Histories (`offered`, `sent`, `lost`, `arrived`) exist for the properties only.

*M17Netd, M17txThread and RadioSide.* The environment of `TunThread` is played by the
other two threads: `NetdM17tx` is a step of `M17txThread`, whose look-up may find a
route or none and whose constructor throws only when the interface's MTU is longer than
a packet may be; `NetdRadio` is a step of `RadioSide`, whose `from_radio.add()` is
`TunThread`'s push. `Main` is one join after the other. `RadioSide` keeps of
`RadioThread` what the queues and the flag can tell apart: all between two calls is
`"rx"`, and `fetched` is the history of the packets consumed.

*M17Rx and PacketSuperframe.* A byte is named by its place in the superframe, so
that equality of data means "the same bytes in the same order". The 26th byte
of a packet frame - end bit, and frame number or byte count - is a number in
0..255. Coding, interleaving and randomising are the identity of a perfect
channel and are left out; the LSF either passes its CRC or not.

*M17Demodulator.* A step is a call of `update()` in which the state machine moves
(or completes a frame); what the samples hold is chosen: a peak or none, a sync
word recognised or not. `missedSyncs`, which `reset()` does not set, starts from
any value of `StaleMisses`.

*Baseband and Transmission.* The symbols of a transmission are numbered from 0;
the vector `symbols` is known by the number of its first (`first`) and its length
(`nsym`). Of `filt_buff` only every 20th entry is ever set: `filt_buff[j]` is entry
`20 * j`, and `None` is the zero that stands for no symbol. A `Push` is one round of
the loop at `src/m17tx.cpp:274`; `room` is what the call may still push and `got`
what it has. `emitted` counts all samples since construction and is a history. The
loop's early `break` is not modelled, `NeverExhausted` (part of `SentToTheEnd` and
`StreamWhole`) says no call gets there. `Transmission` adds the transmit loop of
`src/radio_thread.cpp:199`: a whole block is sent, also when the last call filled
only part of it (`stale`).

*BertRx and BertLink.* A bit per step, in the generator (`GenerateBit`) and in the
receiver (`HearBit`). `air` holds the frames whose last symbol has not passed the
middle of the filter, with the register they were generated from. `heard` is the
frame being heard, the places where the channel flipped its bits, and three
histories: the transmitter's register at the place reached and at the beginning,
and the receiver before the frame. The channel flips or loses what it likes, up to
the bounds.

*Synchronizer and SymbolClock.* A step is one sample of `update()`, or the `Quiet`
samples before the next one on which anything but a counter changes (`Count`).
`index` is the correlator's place in its ring. The signal is a sequence of sync
words: `word` the one on the air, `ahead` the samples to its last symbol. A
correlation is a small number with the shape `Shape` around that symbol, a sync word
is heard well, with a peak but damaged symbols, or not at all. `late` says how late
the last symbol was taken and `nearest` which sync word the current frame begins
with; both are histories of the signal, not state of the code. The refinement mapping
keeps `demodState` but shows SYNC_UPDATE only from the moment the frame is complete,
because until then `update()` does what it does in LOCKED.

*PacketLink.* Each action is a round of the loop at `src/radio_thread.cpp:103`: a
demodulator step, then `add_frame` and the three ways to replace `rx_packet`.
`air` is the transmission being followed, `Decodings` what the decoder may return
for the current frame: the frame sent, if the sync word was right, or garbage.

*Sx1255, Sdrnode and RadioThread.* A register access fails or does all it should;
`Construct` and `FirstReception` are the thread's set-up, in the constructor's order
and with its ignored results; `RXFE1` and `TXFE1` are bytes two functions read,
mask and write back. `pc` is the place in `radio_simplex::operator()`;
`Receive` is a whole round of the receive loop, `SendBlock` one of the transmit
loop. `Add`, m17tx_thread's, may come at any time, also after a signal. The lock of
the demodulator and the energy measured are chosen. `leaked`
records a sound device handle that `open_pcm_rx`/`open_pcm_tx` set to null after
it was opened: it may make every later open fail.

*RouteTable.* `callsign_map` is the sequence of the map's entries in tree order,
with the age of each; the tree of at most seven keys is determined by that
(`Root`). `Find` and `Insert` descend it like libstdc++ (`Descend`, `Leaf`), comparing
with `Less`. A mask
of length 0 is made by a shift of the type's width, which is undefined: `shift32` says
what the processor leaves of it. `InsertRoute` is one route of a peer, `InsertOwn` the
peer's own address after them;
`KernelRoutes` is what `add_routes_to_peer` gives the kernel for a peer.

## 3. What the runs check

| Run | Instance | Shows |
|---|---|---|
| `queue` | 2 threads, 2 items, size 2, fair | mutual exclusion, the predicate still true in the critical section, no lost wakeup; implements `BoundedQueue`; every call returns |
| `netd` | all threads, 2 packets from the kernel, 2 (a delivered and a rejected one) from the radio, queues of 1, an MTU too long for M17, packets of 2 blocks, fair | the receive path exact, every packet of the interface accounted for, transmit side served, main returns unless the monitor spins; implements `TunThread` |
| `tun_lost_wakeup` | tun_thread alone, 2 packets from the radio, none from the kernel, fair | finding 1 |
| `tun_shutdown` | the same | finding 2 |
| `superframe` | every size from 0 to 823; samples of packets of 22, 23, 72 and 822 bytes | prefix and round trip; the samples are one convolution, and all of them are transmitted |
| `bert` | frames of 197 bits in 2 symbols, blocks of 23 samples, 5 frames, 2 of them damaged or lost, the end at any block | every symbol once across refills; one clean frame synchronises the receiver; every flipped bit is counted |
| `clock` | 8 symbols of 20 samples per sync word, frames of 32 symbols, 3 sync words, 22 places in the ring, drift of a sample per frame | symbols taken in their places, frames read in time, sync words found; implements `M17Demodulator` |
| `link` | 2 peaks, up to 2 packet frames, 3 initial miss counts | dead signals let go of; packets pushed when heard, once, unmixed; recovery |
| `link_addressee` | the same, miss count 0 | finding 3 |
| `radio` | 3 packets of 2 blocks, queue of 2, 2 failures, fair | listen before talk after reception, parts and registers agree, packets whole, one failure survived, queue served, the thread ends; implements `RadioSide` |
| `routes` | every configuration of up to 2 peers with up to 2 routes, 2 one-bit bytes, mask lengths 0 to 2 | only to configured peers; one mask length works, and then the station is the one whose route brought the packet from the kernel |
| `routes_matches` | up to 1 route per peer, mask lengths 1 and 2 | finding 4 |

`SyncFound` names the two cases in which an intact sync word is missed, both found
by TLC: its correlation falls on the ring's place the history does not have, or the
clock was more than a sample late. A first sync word missed is a
transmission missed; a later one is guessed, and `SymbolsInPlace` holds all the same.

### Bounds, and why they are enough

* Queues: a producer and a consumer that share the condition variable, a queue of
  two for the order of items. What a third thread may do, taking the item or the
  wakeup, and queues of any other size, are covered by `ConsumerProducerQueue_proofs`,
  whose theorems hold for any number of threads.
* TunThread and M17Netd: two packets from the radio are what a lost wakeup needs (one
  to raise the eventfd, one to be forgotten), and they fill a queue of one, so that the
  radio's add times out. Two from the kernel fill a queue of one and find it full, so
  that `from_net.add()` and, with the radio busy, `to_radio.add()` give up. That every
  thread of the ring waits for the next one at the same time takes four packets from the
  kernel: out of reach of the liveness checks, but of the safety properties'
  theorems, which hold for any number of packets and any size of the queues, it is a
  case like the others. `TwoPackets` has one packet that passes the tests and one that
  does not: which test rejects it makes no difference to the threads. The MTU is one the
  configuration allows and m17tx_pkt does not, so that the uncaught exception occurs. The
  two runs of `TunThread` alone need no packet of the kernel.
* PacketSuperframe: all sizes the constructor accepts and one it refuses. The samples
  are generated for packets of one frame, exactly full and one byte over, of three,
  and the longest: 128 and 20 have 4 in common, so the calls end at every
  offset that occurs within five blocks.
* BertLink: frames are of the real length in bits, since the receiver's window (128
  bits) and register (16) compare with that, and of two symbols, which the generator
  does not compare with anything. Blocks of 23 samples, coprime to 20, end at every
  offset. The damages are the first and last bit, two bits as far apart as the
  register's taps, as many as are tolerated in a row and one more, and all.
* SymbolClock: the ring, the sync word and the block are the real ones; the frame is
  shortened from 192 to 32 symbols, longer than the search window before and after.
  A frame of 32 symbols moves the ring by 640 modulo 161, four places back, so that
  from the chosen places the correlations of all three words fall on either side of the
  ring's end. The lateness up to which symbols are read right (`Tolerance`, 3 samples
  of 20) and the drift (a sample per frame, far more than two crystals differ) are
  assumptions about the signal. `MaxCount` bounds the miss counter as a transmission
  begins.
* PacketLink: mixing needs two transmissions; a packet of two frames has a first,
  a last and a middle. The initial miss counts are a fresh one, the limit, and
  one about to wrap; `PacketLink_proofs` covers all 256.
* RadioThread: a failure in either direction and one while it is being undone; two
  blocks distinguish a packet cut short from one not begun.
* RouteTable: two bytes of one bit are the smallest addresses in which network
  order and the order of `s_addr` differ; two peers with two routes reach six keys at
  most, and `KeysAssumption` keeps every instance within the seven for which `Root` is
  the tree of libstdc++. The theorems use nothing of `Root` but that it is one of the
  keys left, and nothing of `KeysAssumption`.

### Fairness

The scheduler runs every thread (weak fairness of its steps) and deadlines pass.
A queue operation gets the mutex in the end (strong fairness of `Lock`: the mutex
is free again and again, and the futex queue lets a waiter have it). In `M17Netd`
each of the four threads and main has weak fairness of its own: the scheduler runs
it, its second passes, the sound device gives and takes blocks. In `TunThread`, and in
`M17Netd` for those outside the process, nothing obliges the kernel, the user or a
failing read (in `TunThread`, the radio either) to act, and a thread that sees
the race of an unlocked `isEmpty()` may lose it every time. In `RadioThread` the
other stations stop now and then: a block without a lock on a free channel recurs
while the thread receives (`DeadSignalBounded` is why a lock does not last).

### Deadlock

It is checked in `queue`, `superframe`, `bert`, `clock`, `link`, `link_addressee`,
`routes` and `routes_matches`. The runs `netd`, `radio`, `tun_lost_wakeup` and
`tun_shutdown` stop when the process has ended or crashed, and say
`CHECK_DEADLOCK FALSE`; that they end only there is what `DaemonEnds` and `LoopEnds`
say.

## 4. What is proved

TLAPS checks these for every value of the constants under the named assumptions. They
say that sizes, bounds and numbers of blocks are naturals (positive
where the code begins with one: `BlocksAssumption`, `RadioAssumption`; at least two
samples in a block of `BertAssumption`), that nothing is not something (`NoItem`, `NoThread`, `Noise`, and an
LSF is not `NoLsf`: `NothingAssumption`), that `StaleMisses` are bytes, that the
frequencies are in the transceiver's band (`FrequencyAssumption`) and that gains are
numbers (`GainAssumption`). Three assumptions of `SymbolClock` relate its numbers:
`FrameAssumption` says that a sync word has more than one symbol and a frame more than
three sync words (the code has 8 and 192), which keeps the search windows of successive
sync words apart, and that the clocks drift by at most a sample in a frame;
`CallAssumption` that a call of `update()` is no longer than a sync word (128 of 160
samples), without which a frame could be overwritten unread; `LatenessAssumption` that a
symbol of 20 samples is longer than twice the seven a clock can be off in a lock that is
about to be given up, without which a symbol would be taken for its neighbour.
`RouteTable` assumes that mask lengths fit the address, and `SyncAssumption` of
`BertLink` that a frame has more than 160 bits (the code's has 197).

* `ConsumerProducerQueue_proofs`: `TypeCorrect`, `MutualExclusion`,
  `CapacityRespected`, `WakeupsNotLost`, `Refinement`. The inductive invariant
  joins the type invariant, "the mutex's owner is exactly the thread in the
  critical section", "its predicate holds there" (which is why a push never
  overfills the queue although it does not test again), and the wakeup property.
  For the last one the argument is that a predicate becomes true only by a step
  that leads to `notify`, and that a notifier wakes all waiters. The refinement maps `mutate` and
  failing tests to the abstract operation and everything else to stuttering or to
  invocation and return.
* `Transmission_proofs`, about segmentation: `TypeCorrect`, `PrefixTheorem`, `RoundTripTheorem`.
  The loop invariant: after `n` frames `25 * n` bytes of the superframe are cut,
  `index_i = 25 * n - 1`, the receiver holds exactly those bytes and expects
  number `n`; 33 frames suffice because 25 * 33 = 825 = 822 + 3. `AddNext` and
  `AddLast` say what `add_frame` makes of a frame.
* `Transmission_proofs`, about the samples: `ConvolutionTheorem`, `SentToTheEndTheorem`. The invariant
  `BufferInv` places the buffer in the stream: the newest symbol in it is number
  `first + sym_idx - 1`, entry `j` is the one `j` before it, and
  `20 * newest = emitted + filt_offset`, so that the taps meet
  their symbols whatever the lengths of the calls; `BlockInv` counts what a call has and
  lacks.
* `BertLink_proofs`: `StreamTheorem`, `CountTheorem`, `SyncTheorem`. `StreamInv` relates the frames
  generated, the symbols refilled and the samples emitted for frames and blocks of any
  size; `AirInv` says which frames are under way and that the frame heard is one the
  transmitter's register generated. `CountInv`: while the receiver is in lock its
  register agrees with the transmitter's in the nine bits that are ever read (a flipped
  bit does not enter it), so that it counts the
  flips and nothing else; `LowBits` is the arithmetic of the shifted register and
  `HistoryGrows` that of the window of 128. For `SyncTheorem` a clean frame is followed
  bit by bit from any register, lock and history. In a lock on a wrong register the errors
  counted are the bits of the difference of the two registers, which the same generator
  produces; any 18 consecutive ones hold three errors, so that the limit of 18 is passed
  within 126 bits and the lock is lost. With the eight bits before and the nine
  that replace the register and 18 right ones after that, 161 bits suffice.
* `PacketLink_proofs`. About the demodulator: `LockTheorem`, `ReturnTheorem`,
  `DeadSignalTheorem`, from an invariant that relates state, lock and last sync word,
  and says that `missedSyncs` is at least the number of misses in a row and at most the
  limit once one was missed, whatever it held at the start. A step of the receive loop
  is a demodulator step or none, which gives `LinkDeadSignalTheorem`. About the link:
  `LinkTypeTheorem` (packets pushed, and an LSF held or due, are no more than the peaks
  heard), `OnceTheorem` (the bytes held or delivered are of places the transmission has
  passed, so the next one is new), `SameTheorem` (what `rx_packet` holds is of one
  transmission unless a lock was lost silently), `HeardTheorem` (heard whole so far, the
  receiver holds all bytes so far and expects the next frame) and `RecoversTheorem`.
* `RadioThread_proofs`: `ListenTheorem` (`channel_bsy` holds the last
  measurement, and reception is left with it cleared or for a signal, which stops
  the thread before `switch_tx`); `PartsTheorem` (without failures every
  switch succeeds, and the mode changes only there; the registers hold the
  frequencies and gains of the configuration from the end of the set-up on, because
  the fields of a byte do not overlap for any gain the configuration can yield);
  `SentTheorem` (consumed and queued packets are numbered without a gap, and without
  a signal or a failure those before the last have all their blocks); `SurviveTheorem` (with at most one failure and
  no leaked handle, a null handle is asked for samples only before the first reception:
  later it is of the direction `tx_nRx` disables);
  `SideTheorem` (it implements `RadioSide`); `TypeTheorem`.
* `M17Netd_proofs`, about tun_thread: `ReceiveTheorem`. Between the test of `isEmpty()` and the pop
  nobody else takes a packet, so that a pop finds one although the test is made without
  the mutex (`PopFindsPacket`), and `to_net_packet` is never a stale one; the rest of
  `ReceiveInv` says that what was offered, less what was examined, is the queue.
  `TypeTheorem` needs this, too: no null packet is examined.
* `M17Netd_proofs`, about the daemon: `TunRefinement` (every step of the daemon is one of `TunThread` or
  changes nothing there), hence `NetdReceiveTheorem`; `AccountTheorem` (`AccountInv`: the
  way from the kernel to the radio is one sequence in the kernel's order, of which a step
  moves a boundary, takes a packet out into `lost` or `forgotten`, or adds one at the end);
  `NetdTypeTheorem`.

* `RouteTable_proofs`: `OnlyToConfiguredHolds`, `OneLengthWorksHolds`, `SameGatewayHolds`.
  `Origin` says of every entry that its key is a route or the address of the peer it
  names; with the arithmetic of masks that gives the first theorem, whatever `Find`
  descends through, because it returns only a key that neither is less than the other.
  `OneLengthInv` says that with routes of one length the entries are in strict order and
  every route dealt with is found: then `Less` is an order, the keys not less than
  another are the last ones, and a descent (`Leaf`) ends where they begin. The third
  theorem sets the kernel's entries beside that.
* `SymbolClock_proofs`: `ReadInTimeHolds`, `ImplementsM17DemodulatorHolds`,
  `SymbolsInPlaceHolds`, `SyncFoundHolds`. `WindowInv` counts the symbols taken in the search window by the
  samples left of it, `NewFrameInv` those since a frame was completed: from these the
  first, and that a sync word is decided with the frame complete, on which the
  refinement turns. The third needs the relation of the code's clock to the signal:
  `lateness` is what the samples since the last sync word's end are off by, at every
  sample and not only where a symbol is taken; it is kept while samples go by, moved by
  the drift when a sync word is sent, and set by a peak to at most one
  (`LatenessInv`, with the misses so far as its bound). That the peak is that close is
  `Rising`: what a triggered synchronizer holds are the correlations since it was, at
  their places, without the one at the last place of the ring, so that the largest of
  them is a sample from the sync word's end at most (`PeakDistance`). The fourth says that
  the two ways to miss an intact sync word that TLC found are the only ones. A sync word
  heard and not yet found has its peak ahead or still at hand in a triggered
  synchronizer (`Past`), unless one of its places is the ring's last (`RingEnd`, which is
  the same at every sample: the index and the samples ahead have a constant sum modulo
  the ring, `Remainder`). `FoundInv` carries this from the sync word to the symbol that
  decides it; there the recorded peak has the right sign (`FoundSign`), and what is
  left is a clock whose `late` is its `lateness` (`ReadInv`).

Some of these proofs are about functions defined by recursion on numbers: powers of two
and their arithmetic, the descent of a tree. No induction rule with an operator for its
parameter is used; `Induction` states it for sets of numbers, from the
well-foundedness of `<` (`WFMin`), and that a recursive function exists is derived from
it (`IteratesExist`).

Every invariant, action property and refinement of the passing runs is stated by one of
these theorems. Only model-checked is liveness under fairness (`EveryCallReturns`,
`TransmitSideServed`, `DaemonEnds`, `QueueServed`, `LoopEnds`), which the prover does not
treat.

`LockedIsRight`, `ReturnIsRight` and `Capacity` are proved and not run. The losses that
`PacketsAccounted` allows are those the code has; that they are rare is not claimed.

## 5. Findings

Each is a run that ends in a counterexample; `PROJECT.json` quotes the lines.

1. *Lost wakeup* (`tun_lost_wakeup`). A packet pushed on `to_net` after the drain
   loop saw it empty and before the eventfd is cleared is never announced again:
   the monitor waits for the queue to become empty. Reception stops for good.
   Transmission goes on (`TransmitSideServed`).
2. *Shutdown* (`tun_shutdown`). With a packet left in `to_net` at SIGINT the
   monitor spins for ever, and so the join never returns.
3. *Wrong addressee* (`link_addressee`). A lock lost silently leaves `rx_packet`
   with its LSF; the next station's packet frames are delivered under it.
4. *Unreachable route* (`routes_matches`). With keys of two mask lengths (a peer's
   own address outside its routes is enough) a look-up may miss a route that is in
   the map: e.g. `172.16.0.8/29` and a peer at `10.0.0.9`, then destination
   `172.16.0.8`.

Seen while modelling, without a run of their own:

* *No listening before talking.* A packet queued between the end of the transmit loop
  and the test at `src/radio_thread.cpp:103` is sent on the measurement made before
  the last transmission. `NeverOverBusy` speaks of measurements, and holds.
* The history of correlations has a place less than the ring its index comes from
  (`inc/Synchronizer.hpp:227` and `inc/Correlator.hpp:42`): the write at line 172 goes
  past the array, onto the flag behind it, once in 161 samples of a correlation. The
  model takes every outcome; a sync word may be missed (`SyncFound`).
* `EOTSync` is called with the positive threshold as its negative one
  (`src/M17Demodulator.cpp:358`), so that it is triggered by noise; the model lets it
  find its peak or not.
* The search for a sync word is one-sided (`src/M17Demodulator.cpp:372`): a clock two
  samples late misses the peak of an intact sync word, one that is early does not.
* A lock that was lost leaves `missedSyncs` at five or more, and only a recognised
  sync word resets it, not the next lock: until then the next transmission's first
  missed sync word ends its lock.
* The end of a BERT stream lacks up to 19 samples: a refill clears `bb_samples` up to
  so many samples late (`src/m17tx.cpp:238`).
* `set_rx_pga_gain` writes its argument unshifted (`src/sx1255.cpp:185`); nothing calls
  it. `switch_rx` of the driver ignores the result of its send (`src/sx1255.cpp:230`).
* `get_packet()` returns a null pointer on a failed read and the caller
  dereferences it (`src/tun_threads.cpp:140`); `TunThread` has the step.
* The lock survives a fourth consecutive miss and is lost at the fifth, where the
  comment at `src/M17Demodulator.cpp:446` says four.
* A packet whose frame before the last was skipped becomes complete
  (`src/m17rx.cpp:148`, against `inc/m17rx.h:139`); the CRC in tun_thread rejects it.
* `from_net.add()`, `to_radio.add()` and `from_radio.add()` give up after a second and
  nobody looks at their results: while a long transmission keeps the queues full packets
  are dropped without a message (`PacketsAccounted` counts them).
* SIGINT during a transmission leaves the amplifier on; `src/test_bert_tx.cpp:165`
  switches back, radio_thread does not.
* After a failed open, `open_pcm_rx`/`open_pcm_tx` drop the handle without a close.
  `open_pcm_tx` opens the receive device's name (`src/sdrnode.cpp:196`).
* Where two peers' routes overlap, the map keeps the first, not the longest.
* A route without a mask length is a host route to `m17_route`, but ends
  `add_routes_to_peer` before the kernel has the routes after it.
* The address family of `gw` is never set (`src/tuntap.cpp:249`): the kernel may refuse
  the host route to a peer, and then gets none of the routes through it. `SameGateway`
  is about every entry the kernel may have, and so holds.
* `example-1.toml` sets `MTU`, `src/config.cpp:41` reads `mtu`: the setting is ignored and
  the default of 822 taken. `set_MTU` keeps its argument also when the ioctl fails.
* Any MTU the file gives is accepted. With one above 822 a long packet makes the
  constructor of m17tx_pkt throw in m17tx_thread, where nobody catches (`ConsumeTooLong`):
  the process ends.

## 6. What is not modelled

Signal processing (filters, FFT, the value of a correlation, modulation, the mapping
of symbols to soft bits) and the codes of M17: the models choose their outcome. The
creation of the network interface with its address and MTU, which runs once and keeps
no state of the program but the MTU; reading the configuration, a chain of look-ups in a
parsed file. Of
the SX1255's driver `set_dac_gain` and `set_rx_pga_gain`, which nothing calls, and the
diagnostics `dump_regs` and `read_version`. Start-up arguments, logging, most of the test
programs and the scripts. The libraries (libm17, liquid, ALSA, the kernel) appear by
their effects.

## 7. Plan

Done, in this order: the queue and its promise; TunThread; segmentation and
reassembly; demodulator and link; the radio; the routes; theorems about the queue,
the superframe, the demodulator and the radio's listening; the baseband generator and
the packet's way to the air; the bit error rate test; the transceiver's registers; the
symbol clock, shown to implement the demodulator; the daemon composed of its threads,
with the abstract radio thread; the kernel's routes next to the daemon's; the theorems
about the samples, the bit error rate test and its synchronisation, the link, the radio,
tun_thread and the daemon, the routes, the symbol clock and its sync words.

Left:

* A configuration of larger address fields for `RouteTable`: the number of
  configurations grows with the fourth power of that of the addresses.
* Four packets from the kernel in `netd`. Its safety properties are theorems; for
  liveness an abstraction of the packets' numbers would be needed first.
