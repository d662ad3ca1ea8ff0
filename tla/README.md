# TLA+ models of wfb_rs

`wfb_rs` sends and receives plaintext WFB frames over raw 802.11: a Rust crate
(`src/src/`), a C interface, Python bindings over it (`src/python/`) and
examples. These modules model the crate's own logic, TLC checks them on small
instances, and TLAPS proves the main properties for every instance.
`PROJECT.json` lists components, runs, the source lines of every definition,
hazards, findings and theorems.

## The system

| component | state | operations | interacts with |
|---|---|---|---|
| `proto.rs` | none | `compute_max_payload`, header `encode`/`decode` | sender and receiver, which compute with its lengths separately |
| `WfbTx` (`tx.rs`) | socket, 802.11 sequence control, header templates | `open`, `send`, `close`, drop | kernel: `socket`, `bind`, `sendmsg` |
| receive ring (`rx.rs`) | slots in one flat store, lengths, metadata, head, tail, count | `enqueue_decoded`, `pop_one` | filled by the drain, emptied by `recv` |
| packet acceptance (`rx.rs`) | none | `parse_and_enqueue_one_packet` | capture buffer to ring |
| `WfbRx::recv` (`rx.rs`) | the ring, a pcap capture, its descriptor | `open`, `recv`, `drain_pcap_nonblock`, drop | capture buffer, clock, `poll`, signals |
| radiotap walk (`rx.rs`) | offset, antenna index, fields read | `radiotap_meta_from_packet` | packet acceptance |
| C interface (`ffi.rs`) | boxed handles | open, close, send, recv | callers in any thread |
| Python bindings (`api.py`) | handle, closed flag | the same, context managers, `__del__` | the C interface, interpreter lock released during calls |
| examples | packet number, stop event | a reading thread and a sending thread | all of the above |

What is hard here: packets, signals, the clock and the interface change between
any two steps of `recv`; the drain runs as long as there is something to read;
the ring keeps bytes of old frames; sender and receiver check lengths on their
own; radiotap offsets depend on every field before; descriptors are numbers
that the process reuses as soon as they are closed; a handle of the C interface
is an address that nothing keeps from being closed while a call uses it, and
Ctrl-C reaches Python between any two steps.

`src/README.md` also describes a witness protocol, clusters, a simulation and a
dashboard. None of that code is in the repository, so nothing of it is modelled.

## Modules

| module | models | checked by | proved in |
|---|---|---|---|
| `WfbProto` | constants of the framing | - | - |
| `RxRing` | the ring | `MCRxRing` | `RxRingProofs` |
| `BoundedFifo` | what the ring promises (abstract) | - | - |
| `RxPacket` | which packets are accepted, what is kept of them | `MCWfbRx` | - |
| `WfbRx` (extends `RxRing`, `RxPacket`) | `recv`, the drain and the world outside | `MCWfbRx` | `WfbRxProofs` |
| `LossyFifo` | what the receiver promises (abstract) | - | - |
| `WfbFrameHeader` (extends `WfbProto`) | `encode` and `decode` of the header | `MCFrameLink` | `FrameLinkProofs` |
| `WfbTx` (extends `WfbFrameHeader`) | `send` | `MCFrameLink` | `FrameLinkProofs` |
| `FrameLink` (extends `WfbTx`, `RxPacket`) | a sent frame at the receiver | `MCFrameLink` | `FrameLinkProofs` |
| `Radiotap` | the walk over a radiotap header | `MCRadiotap` | `RadiotapProofs` |
| `Link` (extends `WfbRx`, two instances of `FrameLink`) | `examples/simple_txrx.rs` on two hosts | `MCLink` | `LinkProofs` |
| `Descriptors` | opens, closes and drops of both handles | itself | `DescriptorsProofs` |
| `CInterface` | what the functions of `ffi.rs` do to the boxed values | `SimpleTxRx` | - |
| `SimpleTxRx` (extends `CInterface`) | `python/examples/simple_txrx.py` on the Python classes | itself | `SimpleTxRxProofs` |
| `InductionLemmas` | nothing: induction over the numbers, for the proofs | - | itself |

### State and actions against the code

- `RxRing`. The variables are the fields of `WfbRx`, and `popped` is what the
  last `pop_one` gave its caller. The store is flat as in the code: slot `i`
  begins at byte `i * max_payload`, and bytes of older frames stay in it.
  `enqueue_decoded` is `DropNew` or `StoreNew`.
- `WfbRx`. `pc` is where `recv` stands: not called, at the head of its loop, about
  to poll, in `poll`, or in the drain. `LoopReads` reads the clock and computes
  the `wait`, `LoopPolls` enters `poll`; time may pass between the two, and then
  `poll` still waits for all of it. `lost` is a history variable that counts that
  time. The clock, `elapsed`, stops at the timeout of the call, past which it
  makes no difference to `recv`. Each turn of the drain is a step of its own, `DrainOne`, that takes one
  packet off the capture buffer, parses it and stores it or drops it; between
  turns more packets may arrive. `PollInterrupted` is the EINTR branch,
  `PollFails` the other error, and an interface that is gone makes `poll` ready
  and the drain end. `kbuf` holds what the pcap filter let through.
- `RxPacket`. A packet is a record of lengths, the outcome of the radiotap walk,
  the decoded header and the bytes behind it. `Accepts` is the conjunction of
  the early returns not taken. `radio` stands for frequency, MCS, bandwidth and
  antenna values, which the receiver only copies.
- `WfbFrameHeader`. `encode` and `decode` put each field into its bytes, highest
  first. `ByteValues` is 256 in the code and 2 in the runs, so that numbers of
  three and four bytes are small; `payload_len as u16` is the remainder by its
  square.
- `WfbTx`. `SendOk` and `SendFails` both spend a sequence number, as the code
  does before `sendmsg`. `seq` and `number`, what the caller asked for and the
  call a frame comes from, are not in the frame beside its header; they are there
  for the properties.
- `Link`. Everything of `WfbRx`, driven by the reading thread of
  `simple_txrx.rs`: `ReaderCalls` and `ReaderRecvs` are its call, the other
  `Reader...` actions the arms of its `match`. `heard` is what it printed. The two
  main threads send lines through two instances of `WfbTx`; an error of `send`
  ends the program, and with main the reading thread. `PeerFramePasses` lets the
  next frame of the peer into the capture, with or without an FCS, or loses it;
  `OwnFramePasses` does so with this host's own frames, marked self-injected
  (`GivenBack`). `NoisePasses` is everything else that gets through the filter and
  that the receiver refuses, and it has no bound: damaged frames, or those of another
  program of this host.
- `Radiotap`. `Visit` is one present field: skip to it, align, test, read,
  advance. `PastEnd` and `Refuse` are the walk's ways to `None`, `Finish` the
  end of the loop, whether a `break` or the last bit. Which bytes are read where
  is kept, their values are not.
- `Descriptors`. One descriptor table for the process, one action per system
  call. `owner` says who opened a descriptor, `fd` which number a handle keeps;
  a close frees a number whoever owns it. The errors of `libc::close` are
  ignored by the code and here.
- `CInterface`. `box` is what is behind the address of each side: a live value or
  one dropped once or more. `Box::from_raw` drops whatever it is given.
- `SimpleTxRx`. Each action of the main thread and the reader runs up to the next
  point where the other may get in: a C call, for ctypes releases the interpreter
  lock there, or a line that sets what the other reads. `handle` and `closed` are
  the fields of `Tx` and `Rx`; `todo` lists the objects whose `close` is still to
  run, by `__exit__` in reverse order or by `__del__`. `CloseCalls`,
  `CloseClears` and `CloseMarks` are the three lines of `close`.
  `Interrupted` is Ctrl-C outside the `try` block once both objects are open. It
  leaves the `with` block at once, or abandons the `close` it hits where it is. Two
  history variables say what it did: `join_cut`, that the reader had been started and
  was left without being joined, and `abandoned`, at which of its lines a `close` of
  each object was given up. Ctrl-C while the objects are opened is in `OpenTx` and
  `OpenRx`: the value exists, and the `with` statement has not got it.
  Ctrl-C inside the loop is `LeavesLoop`. Two clocks say how long the join has
  waited and how long ago the reader looked at `stop_event`. A `send` that
  succeeds changes nothing here; the exit status and `rx_error` are left out.

Modelled from how the code uses them, and marked external: libpcap's capture
buffer and its close, the clock, the interface, POSIX descriptor allocation, the
air with the receiving driver (`Received`, `PeerFramePasses`, `OwnFramePasses`,
`NoisePasses`), and Ctrl-C. The air neither repeats nor reorders frames: injected broadcast
frames are not retransmitted.

## Runs

| run | shows | bounds |
|---|---|---|
| `ring` | a FIFO of whole frames, refined from cursors and a flat store | 3 slots, payloads of 0 to 2 bytes over two values, buffers of 1 and 2 bytes: every wrap, every stale byte, cut and uncut reads |
| `receiver` | readers get a lossy FIFO of the acceptable packets; no FCS byte; no wait on a frame already there; timeouts not early, and stretched only by the time lost between the clock and `poll`; calls end once packets stop | ring of 2 against a capture buffer of 2, so the drain can overfill the ring; one packet per early return, another stream's, one with an FCS; 2 ticks to the millisecond, so rounding shows; timeouts of 0 to 2 ms around the longest wait of 1 |
| `receiver_overrun` | **violated**: `recv` returns whatever the traffic does | one packet, arriving again and again |
| `sender_link` | sequence controls distinct and unfragmented; every sent frame accepted, with its payload and its number | 3 sequence numbers and 5 sends, so the counter wraps; payloads of 0 to 3 bytes against a limit of 2; a packet number that needs all four bytes |
| `link` | what is printed was sent, once and in order; no step loses a frame that waits behind less than a full ring (`AwaitedIsKept`), and it is printed once packets stop arriving (`CapturedIsHeard`) | 3 frames of the peer and a capture buffer of 2 against a ring of 2, so the ring overflows; a frame of this host; damaged packets without end; a timeout of one tick, so that every call can time out before it polls |
| `radiotap` | fields in place, nothing readable left out, the sender's header understood | every subset of 8 bits that have every alignment and size of the layout table and an unknown field among them; 9 packet lengths; pairs of words; malformed headers |
| `radiotap_extended` | **violated**: extended presence words are read | one header with two antennas |
| `descriptors` | no path leaks; a descriptor is first lost to a second close only | a dropped and a closed sender, a receiver, three descriptors |
| `descriptors_receiver` | **violated**: an open handle has its descriptor, with a receiver | a sender and a receiver |
| `descriptors_close` | **violated**: the same, with `WfbTx::close` | two senders |
| `simple_txrx` | the receiver is closed under a `recv` only if that overruns by the join's grace; each value is dropped once, but where Ctrl-C abandons a `close` of its own; the program ends | timeout and grace of 2 ticks each; Ctrl-C any number of times |
| `simple_txrx_closed` | **violated**: no call runs on a closed receiver | the same |

`WIFI_MTU` is 4045 in the code; the runs set it to a few bytes more than the
headers, and the theorems hold for any value. Every bound is a constant in the
`.cfg`: `KernelCap`, `MaxSends`, `PeerSendsMax`, `OwnSendsMax`, `PollMax`,
`TicksPerMs`, `Timeouts`, `SeqNumbers`. The bounds on sends are the ones that cut
behaviours off: `MaxSends` lies past the wrap of the sequence control,
`PeerSendsMax` past the size of the ring. The wrap of the 32-bit packet number,
after which numbers repeat, is not reached in `link`; `HeardAsSent` is stated by
place, not by number. Deadlock is checked except for `Radiotap`, whose walk ends,
and `Link`, whose program ends.

`RecvReturnsWhenQuiet` and `CapturedIsHeard` have the same premise, `GoesQuiet`: from
some point on the capture buffer takes nothing in. It is needed: without it TLC
refutes both with a drain that is fed one packet for each that it takes, which in
`link` is `NoisePasses` and `DrainOne` in turn. Everything before that point is
free, so the frames of interest come with any traffic around them.

`DroppedExactlyOnce` has two exceptions, and no more: a value is dropped twice only
if Ctrl-C hit its own `close` between the C call and the line that clears the
handle (`__del__` then closes the stale address), and it is left at the end only if
Ctrl-C hit its own `close` before the C call. Ctrl-C anywhere else, in the join or
in the close of the other object, costs nothing. Both exceptions occur in the run.

### What the violated runs say

- `descriptors_receiver`: `Drop for WfbRx` closes the descriptor that
  `pcap::Capture` is about to close (`src/src/rx.rs:508-511`). What another
  thread opened between the two loses its descriptor.
- `descriptors_close`: `WfbTx::close(self)` closes, and the drop of `self`
  closes once more; `fd >= 0` is still true (`src/src/tx.rs:198-202, 264`).
- `receiver_overrun`: the drain has no bound and does not look at the clock
  (`src/src/rx.rs:354`).
- `simple_txrx_closed`: the join gives up 0.2 s after the timeout and the `with`
  block closes the receiver; `_closed` is looked at only when `recv` is entered
  (`api.py:156`), so a call that overruns goes on with a freed value. That
  `recv` can overrun is what `receiver_overrun` shows. `RecvKeepsItsReceiver`
  is what the example does guarantee.
- `radiotap_extended`: bits of later words count on from 32, which the layout
  table does not know, and bit 29 already ends the walk (`src/src/rx.rs:90, 172`).

### Fairness

`FairSpec` asks that a thread inside `recv` is scheduled (`WF` of its own steps)
and that time passes (`WF` of `Tick`). Nothing is asked of callers, packets,
signals, failures or the interface.

`LinkSpec` asks the same of the reading thread, whose loop is its own caller,
and strong fairness of `LoopReads`: the thread does not lose the whole of its
timeout between the start of a call and the look at the clock, in every call anew.
That holds of a host that is not overloaded; it cannot hold of timeouts of 0, which
never reach `poll` (`src/src/rx.rs:477-480`). The main threads and the air owe
nothing. The property excuses a frame when the interface goes, `poll` fails or the
program ends.

`FairSpec` of `SimpleTxRx` asks that the main thread goes on once it has left its
loop and that time passes. The reader may stay in `recv` for ever, and stdin may
stay open; Ctrl-C may arrive any number of times, for each abandons something.

## Proofs

All from the named assumptions on the constants, for every value of them. Every
invariant that a run checks is proved, and every action property and refinement.

### Assumptions

Most say that a constant is a number or a set of the right kind. Five say more.

- `FcsAssumption` (`WfbRx`): `FcsByte` stands for the bytes of every frame check
  sequence, told apart from all others; they are the last four of a packet, and
  there only if the driver sets the radiotap flag. The code trusts the same flag
  (`effective_len`).
- `ExampleAssumption` (`Link`): the receiver is opened with `ignore_self_injected`
  (`src/examples/simple_txrx.rs:85`) and read into a buffer of 4097 bytes (`:94`),
  more than any payload. Without the first a host would print its own lines, without
  the second it would print cut ones.
- `HostsAssumption` (`Link`): what `WfbTx` and `FrameLink` assume of their constants,
  for both hosts.
- `AirAssumption` (`Link`): what a capture can show of the two hosts' frames is in
  `Packet`, the set the receiver is specified over. `Packet` may hold anything else.
- `NoiseAssumption` (`Link`): what passes besides is refused by the receiver. Without
  it a third sender of the same stream, whose numbers mean nothing to these two hosts,
  would be printed as well, and `HeardAsSent` speaks of two hosts.

### Arguments

- `RxRingProofs`: `RingInv`, types and `CursorsAgree`, is inductive. From it,
  `RingImplementsFifo`: `RingQueue` maps every step to a `Put`, a `Take` or a
  stutter of `BoundedFifo`. The work is in showing that a copy to the tail slot
  leaves the other slots' bytes alone, and in arithmetic modulo `ring_size`.
- `WfbRxProofs`: `ReceiverInv` adds the types of the locals, what holds of them
  in each `pc`, and what a wait is (`WaitInv`): with the time lost before `poll` set
  aside it ends within the timeout. Every step of `recv`
  is a step of `RxRing` or leaves the ring alone (`ReceiverKeepsRing`), so the
  ring's theorem carries over. `TimeoutNotEarly` is an action property and
  rests on `WaitLength`: a wait falls short of the timeout by less than a
  millisecond unless it is the longest there is.
  `FcsNeverDelivered` is not inductive: `FcsInv` says that no byte of the whole
  store is one of an FCS, which holds because an accepted payload ends where
  `effective_len` does (`AcceptedEndsBeforeFcs`).
  `ReceiverImplementsLossyFifo` maps the state to `pending`, the frames of the ring
  and then `Frames(kbuf)`, the acceptable packets of the capture buffer. A packet
  that arrives is appended to it (`ArriveIsCapture`); a turn of the drain moves a
  frame across the seam and changes nothing, or drops the first one behind a full
  ring, which is a `Lose` of place `ring_size + 1` (`DrainMovesOrLoses`); a pop takes
  its head (`PopTakesPending`). `Frames` is a recursive function: `FramesAppend` and
  `FramesTail`, by induction, say what it does at both ends of the buffer.
- `FrameLinkProofs`: `TxInv` says that the sequence control is
  `16 * (call number mod SeqNumbers)`, which no property mentions and
  `SeqControlDistinct` and `NeverAFragment` need. `EverySentFrameIsAccepted`
  does the receiver's arithmetic on the sender's lengths, over
  `HeaderRoundTrip`: `decode` undoes `encode` for every header and every size of
  a byte, from the one fact that a number is its lowest byte and the rest.
- `LinkProofs`: `InOrder`, the heart of `LinkInv`, is about more than what is
  printed: the lines that were printed, the frame `recv` has just returned, the
  frames of the ring and those still in the capture buffer, in this order, stand at
  increasing places among the peer's frames that have gone past. Every step does one
  of four things to that list: nothing, one more at its end from a frame that goes
  past now, one removed, or its front moved from waiting to told. The steps of the
  receiver are the ones of `LossyFifo`, cited from `WfbRxProofs`; that a frame of the
  peer enters whole and under its number is `EverySentFrameIsAccepted`, cited from an
  instance of `FrameLinkProofs`; that a frame of this host never does is the test
  of `self_injected`. `LinkUsesItsParts` shows that the composition implements the
  specifications of the receiver and of both senders, so that all their theorems
  hold inside it; `LinkReceives` names two.
  `AwaitedIsKept` is the safety half of `CapturedIsHeard`: the first `ring_size` places
  of the ring and the capture buffer taken together are safe ground. By `WaitsOn`, a
  frame there keeps its place, moves up one when the head is popped, or is the head and
  is returned, for a loss takes a frame from behind place `ring_size` only.
- `RadiotapProofs`: `WalkInv` says that `cur_off` is the end of the last field
  read and that every field read ends by then. `ReadsAllItCan` needs `Swept`: every
  present field before `field_index` has been read. `OwnHeaderUnderstood` needs the
  walk over the sender's header turn by turn, `OwnWalk`.
- `DescriptorsProofs`: a number is kept by exactly the handle the table names.
  Where a handle may be `closing` with a stale number, only `NothingLeaks`
  survives; `OpenOwnsItsDescriptor` is proved under `OnlyDroppedSenders`,
  the case in which the code keeps it. `OwnKept` is the lemma under both that
  and `FirstLossCorrect`: every step but a second close keeps it.
- `SimpleTxRxProofs`: `TimeInv` says that while the join waits for a running
  reader the reader's clock is not behind the join's, because `stop_event` is set
  before the join starts and a reader that looked at it later has ended. So a
  reader left behind by the join is past the deadline by its own clock.
  `Orderly` ties `handle`, `closed`, `box` and `todo` together, for
  `DroppedExactlyOnce`: a handle that is not null stands for a live value except
  between two lines of `close` or after a `close` abandoned there, and once the
  `with` block is being left every live value is still to be closed (`ToClose`) or had
  a `close` abandoned. `TimeInv` holds until Ctrl-C cuts the join short, `Orderly`
  whatever Ctrl-C does.
- `InductionLemmas`: the library states induction over an operator, which the
  provers cannot instantiate. `InductiveSet` states it over a set of numbers, from the
  least-element form of well-foundedness, and `RecursiveFunction` says that a
  recursion over `0 .. n` defines a function.

Only model-checked: liveness (`RecvReturnsWhenQuiet`, `CapturedIsHeard`,
`ExitsAfterLoop`), which is out of the provers' reach, and the five violated
properties, which are false.

## Not modelled

Metadata byte by byte; `setsockopt`; configuration checks that fail before
anything is opened; null arguments and panics caught in the C interface; loading
the library and argument types in Python; the counters and report lines of
`bandwidth.rs`, whose two loops are those of `simple_txrx.rs`; `smoke.c`, which
opens nothing; build scripts. `RxPacket.radiotap` abstracts the outcome of
`Radiotap`; the two are not composed. The witness protocol, clusters, simulation
and dashboard of `src/README.md` have no code here.

## Plan

1. Proofs: what `decode` makes of any eight bytes; that the receiver of `SimpleTxRx`
   is used by one thread at a time.
2. `bandwidth.rs`: totals of a sender and a receiver against each other.
3. `Radiotap` composed with `RxPacket`: the sender's own header makes
   `self_injected` true in the walk, which `Link` takes from the driver.
