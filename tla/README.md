# Verification of emersia

emersia streams a Wayland desktop to paired devices. The daemon captures the
screen, encodes it with an ffmpeg child process, and sends encrypted datagrams
over UDP; a command line client controls it over a unix socket. This directory
holds TLA+ models of the host side (`host/crates`), the TLC configurations that
check them on small instances, and TLAPS proofs of the properties that matter
most.

File names below are relative to `host/crates/emersia-daemon/src/` unless they
say otherwise.

## The system

| Component | State it keeps | Operations | Where |
|---|---|---|---|
| Trust store | paired devices, the one pending code, in memory and in a JSON file | new code, accept code, revoke, save, load | `pairing.rs` |
| Service | `inner` (streaming flag, selected output, outputs, last error, revoked ids not drained yet) and `pairing`, each behind a mutex | the control requests | `service.rs` |
| Engine | Wayland connection, output, encoder, transport | one loop: drain revocations, pump handshakes, capture, encode, ship, pace | `service.rs`, `run_engine` |
| Streaming endpoint | pending handshakes per source, peers per device, sequence counter | INIT, RESPONSE, CONFIRM, disconnect, send_frame | `transport/udp.rs`, `transport/handshake.rs` |
| Datagram layer | replay window, partial frame | open_packet, Reassembler::push | `transport/mod.rs` |
| Receiver | reassembler, counters | the receive loop | `receiver/mod.rs` |
| Encoder | ffmpeg child, bounded frame queue, three helper threads | spawn, encode, poll, teardown | `encoder.rs` |
| Control socket | listening socket, connection permits | bind, serve, drop | `control.rs`, `main.rs` |
| Host identity | the key in `host.key` | load or create | `crypto.rs`, `main.rs` |
| Capture | events of the session and frame under way, shared buffer, latched protocol error | discover, capture, reconnect | `capture/`, `shm.rs` |
| Frame transforms | none | decode, flip, untransform | `frame.rs` |
| Annex-B parser | unread bytes, access unit under construction, parameter sets | push, finish | `codec.rs` |
| Primitives, CLI, protocol types | none | pure functions and I/O | `crypto.rs`, `emersia-cli`, `emersia-protocol` |

How they interact. The main thread is the engine. The accept thread serves at
most sixteen connections, each on a thread of its own, which call
`Service::handle`. Connections and engine share only the two mutexes and the
shutdown flag: a connection sets `streaming`, and the engine reads it once an
iteration; a revocation marks the device under `pairing` and then pushes its id
under `inner`, and the engine drains the ids before it pumps the network; the
authorizer the engine hands to the endpoint takes `pairing` for each handshake
message. The encoder's three threads meet the engine at a bounded queue, an
unbounded channel and an error slot; its reader thread owns an Annex-B parser.
A capture is a conversation with the compositor on the engine's thread: it
resets the state that events are written to, asks, and dispatches events until
they satisfy it or a deadline passes.

What is hard here: requests that interleave with the steps of an engine
iteration; two-lock operations; a crash, or a process exit that does not wait
for connection threads, in the middle of a save; a datagram network; sequence
numbers that wrap; several finite pipes in a ring; a byte stream cut anywhere;
events of a capture that was given up on; several daemons at one socket path
and one key file. `PROJECT.json` lists these as hazards, each at its line.

## Modules

| Module | Models | Extends |
|---|---|---|
| `DeviceIds` | the set of device identities | |
| `TrustLedger` | what the trust store promises: which devices are trusted in memory and on disk, operations that hold a lock across a save | `DeviceIds` |
| `TrustStore` | `pairing.rs` in detail: codes, salts and hashes as identities, attempts, expiry, save, load, crash | `DeviceIds`; instantiates `TrustLedger` |
| `HostEndpoint` | the handshake, both ends, over a network that keeps every datagram | `DeviceIds` |
| `MCHostEndpoint` | its instance: the symmetry of devices and sources | `HostEndpoint` |
| `Daemon` | composition of ledger and endpoint with connection threads and the engine's drain and pump | `TrustLedger`, `HostEndpoint` |
| `ReplayWindow` | sequence numbers and the sliding window | |
| `FrameLink` | `send_frame`, the network, `open_packet`, the Reassembler | `ReplayWindow` |
| `Receiver` | the receive loop | `FrameLink` |
| `EngineLoop` | `run_engine`, one step per place where another thread can come in | `DeviceIds` |
| `ControlSocket` | `run_serve`: the host key, bind, serve, permits, drop | |
| `Encoder` | one encoder with its child and threads | |
| `AnnexB` | the reader thread and the Annex-B parser | |
| `MCAnnexB` | its instance: the streams, and a check of the bit reader | `AnnexB` |
| `Pixels` | decode, flip and untransform, and what a compositor does before them | |
| `Capture` | a capture with either backend, against a compositor that may be late | `Pixels` |
| `Locks` | who takes which mutex, and when | |
| `TrustStoreProofs`, `EngineLoopProofs`, `EncoderProofs`, `AnnexBProofs`, `CaptureProofs` | theorems | the module they are about |
| `DaemonProofs` | theorems about the endpoint and the composed daemon | `Daemon` |
| `ReceiverProofs` | theorems about the window, the link and the receive loop | `Receiver` |
| `ControlProofs` | theorems about the control plane: the socket, the key, the mutexes | `ControlSocket`, `Locks` |

An action stands for what one thread does between two points where another can
interfere: a statement that takes a lock, a system call, one datagram. `map` in
`PROJECT.json` gives the lines of every definition. Operators whose name ends a
definition preceded by "a mutant of" are the faults the properties are tried
against; no specification uses them.

### How state and actions correspond

* **TrustStore.** `db` is `PairingDb::db`, `file` the JSON on disk, `op` the
  operation that holds the `pairing` lock and how far it has come. An operation
  changes `db` in one step (`NewCode`, `AcceptDead`, `AcceptWrong`,
  `AcceptRight`, `Revoke`), then `Save` replaces the file (write to a temporary
  file, then rename: there is no torn file) or `SaveFails` leaves it as it is,
  and the answer is the last step. `Crash` may come anywhere; it stands for a
  kill and for an exit of `run_serve`, which does not wait for connections.
  A code is its serial number. A guess is right or wrong; hashing is ideal.
* **HostEndpoint.** A client attempt is a device, a source address and a number
  (its ephemeral key). A session is the attempt with the host's ephemeral key:
  two sides agree on a session exactly if they derive the same keys. The
  network is a set of datagrams that only grows, so each may arrive late, often
  or never. The authorizer is asked in one step and its answer used in the
  next. On its own the endpoint meets an authorizer that may say anything.
* **Daemon.** Connection threads run `HandlePair`, `HandleRevoke`, the save, the
  return and `HandlePush`; the engine drains (`EngineDrain`), then receives up
  to `PUMP_MAX` datagrams, then goes round. The authorizer's answer is the
  ledger's at that moment.
* **ReplayWindow, FrameLink, Receiver.** `sent` is `next_sequence`, counted
  without wrapping; the wire carries it modulo `2 * HALF`. `top` and `times`
  are history. A record is delivered only within `LIFE` of the newest accepted
  one. A frame is sent record by record, and may stop half way.
* **EngineLoop.** `pc` names the next step of the iteration. The transport is
  the engine's alone, so a pump is one step that removes and adds any peers.
  What a capture returns and whether the compositor is there is up to the
  environment. `own` and `late` are history.
* **ControlSocket.** The key file and the path are shared by all daemons; each
  system call of `load_or_create` and of `bind` is a step. A key is named after
  the daemon that made it. A connection is reading, replying, or over with its
  permit still out.
* **Encoder.** Frames, units and log lines are counted. Each pipe has capacity
  `PIPE`; ffmpeg (external) reads, writes and logs as it likes, holds at most
  `HOLD` frames, and may die. `spawn` ends with a probe: a child that has not
  died by then is kept.
* **AnnexB.** The variables are the fields of `AnnexBParser`, and `pipe` what
  ffmpeg wrote and nobody read yet. `Read` is `push` up to its loop, `Take` one
  turn of the loop in `push` or `finish`, and a call's units are sent when it
  returns (`PushReturns`, `FinishReturns`). Bytes are numbers; start codes, NAL
  headers, emulation prevention and Exp-Golomb numbers are read as in the code.
  A NAL unit has a few bytes instead of thousands in the run. Of the encoder it
  is assumed what the formats demand (`AnnexBAssumption`, `WellFormed`): no NAL
  unit holds a start code, which is what emulation prevention is for, none ends
  in a zero byte, a slice that does not begin a picture follows a slice, and the
  output ends behind a NAL unit; `CutSpec` is the same reader with a writer that
  dies anywhere.
* **Capture.** `st` is `ExtState` or `WlrState`, `wire` the events sent and not
  dispatched, `comp` how far the compositor is with the objects of each
  capture, `memory` what is in each capture's buffer: nothing, zeroes, or a
  frame. Objects of a capture that gave up live on, and their events reach the
  state of the next one, as in the code; those of an object that was destroyed
  are dropped when they are dispatched. A frame that was copied carries the
  transform and the inversion it was written with; `Pixels` then says, for
  every pixel, where it was put and where the code looks for it.
* **Locks.** A request is the list of mutexes it locks and unlocks, with its
  disk write.

## Runs

Passing runs (TLC, two workers; the slowest takes about two and a half
minutes):

| Run | Checks | Shows |
|---|---|---|
| `trust_store` | `AttemptBudget`, `CodeSingleUse`, `AckDurable`, `ImplementsLedger` | over failed saves, crashes and restarts at most `MAX_CODE_ATTEMPTS` wrong verdicts are given about a code (a comparison whose answer is an I/O error, or is lost in a crash, is none) and a code is used once; an answered pairing or revocation is on disk; the store implements the ledger |
| `host_endpoint` | `PendingBounded`, `PeersAgreed`, `SessionOnce` | the pending map keeps its bound, every peer is a session its device derived too, and a session is established once, not again after a disconnect |
| `daemon` | `PeersAccountedFor`, `RevokedLeaves` | a peer is trusted, or its id is on the way to the engine, or its revocation could not be saved; a revoked device leaves and never comes back unless it is paired again, whatever handshake it has in flight |
| `receiver` | `AcceptedOnce`, `WindowExact`, `FramesWhole`, `FramesOnce`, `NoHiddenLoss` | across wraps of the counter, no replay, no wrong refusal within the window, no mixed and no repeated frame, and a reported gap that covers every hole |
| `engine_loop` | `GrowthGetsKeyframe`, `ShutdownEnds` | newcomers that raise the number of peers get a keyframe first; shutdown works from every step, unless the compositor never answers a discovery |
| `engine_recovers` | `StopTakesEffect`, `Recovers` | after a stop at most the frame under way is captured; protocol errors are recovered from |
| `control_socket` | `IdentityKept`, `PermitsExact`, `CleanExit`, `ServesItsPath`, `SignalEnds` | the host keeps one key unless two daemons looked for it together; no permit leaks; only an unclean end leaves a socket; a serving daemon is reachable unless two starts overlapped; a signal ends the daemon if the compositor answers its discoveries |
| `encoder` | `BacklogBounded`, `KeepsDelivering`, `FailureSurfaces`, `HelpersEnd` | the ring of pipes does not deadlock, the unbounded channel stays short, a dead child is noticed, all threads end |
| `locks` | `NeverBoth`, `NeverWedged` | the locking rule of `Service`, and that no set of requests wedges it |
| `annexb` | `NalsExact`, `OnePicture`, `SetsInForce`, `EndReported` | however the stream is cut into reads, the units sent hold the encoder's NAL units byte for byte, one picture each; with H.264 they carry exactly the complete group of parameter sets in force at the last NAL unit of the call that completed them; the reader always reports an end |
| `capture` | `OwnFrame`, `Upright`, `Released`, `CaptureEnds` | a capture returns what was written for it, upright for all eight transforms, releases its memory on every path, and comes back whatever the compositor does |

`host_endpoint`, `daemon` and `receiver` also check the type invariants that the
theorems name. The type invariants of the other modules are proved, or hold
with the same configurations. So do the inductive invariants of the proofs,
which TLC checked before they were proved: to repeat it, run TLC on the module
of the proofs (for `AnnexB` together with `MCAnnexB`) with the configuration of
its run and the invariant named below.

One run ends in a violation, a disagreement between the code and what the
repository says:

| Run | Refuted | Trace |
|---|---|---|
| `revoke_unsaved` | `RevokedDisconnected`: a revoked device is disconnected (`service.rs:193`, ADR 0006) | the save fails after the device was marked; the id is never pushed, a retry is NotFound, and the session goes on |

The modules state further claims of comments and documents that no run keeps,
because each is refuted in a few steps and one example is as good as another;
to see a trace, give the property to TLC with the module's configuration:
`JoinGetsKeyframe` (service.rs:969; one device leaves in the pump in which
another joins, the number of peers is the same, and deltas are shipped),
`OwnFrameAlways` (capture/mod.rs:176; the late `ready` of a timed-out capture
ends the next one, which returns its blank buffer), `SetsOwn` (encoder.rs:435;
one read that completes two pictures sends both with the later one's sets),
`SetsCarried` (codec.rs:9-13; an SPS of type 33 between two HEVC pictures is no
parameter set to codec.rs:105-110: it goes out at the end of the first
picture's unit, and the second one's packet begins without it; the daemon
itself configures H.264 only, service.rs:885), `TruncatedReported`
(codec.rs:19-21; ffmpeg dies inside a slice, `finish` takes what is left for a
whole NAL unit, and it is sent before a clean end; `CutSpec` over `LongStreams`
of `MCAnnexB`), `ShutdownAlwaysEnds` (`ShutdownEnds` without its exception: a
compositor that accepts the connection and never answers holds the engine in
`Engine::discover`, service.rs:858), `IdentityAlwaysKept` (crypto.rs,
`into_identity`; of two first starts the slower one overwrites the key the
faster one serves with), `RevocationNotDodged` (pairing.rs:358; pairing a
revoked key again makes it active), `PerDeviceBounded` (udp.rs:38; a source may
replace its entry by one more of another device; `MCHostEndpoint`),
`FramesInOrder` (receiver/mod.rs:231; an overtaken frame comes out late),
`StopMeansTimeout` (receiver/mod.rs:241; a duplicate ends the loop),
`NeverSilent` (ADR 0005; the frame under way is captured after the stop was
answered), `ErrorStopsOwnStream` (service.rs:1147; a late failure ends the next
stream), `NeverStolen` (control.rs:72; two daemons start over one stale
socket), `StatusNeverWaitsForDisk` (service.rs:224; status takes the mutex a
save holds), and `AcceptedOnce` for `LIFE > HALF` (ADR 0006; a datagram kept
back for half the sequence space is accepted again: keys are never renewed).

### Bounds

* `trust_store`: two devices, three codes, two wrong attempts (five in the
  code), a code that lives one tick of two: enough for a code to be burned, to
  expire and to be replaced, with a crash before and after each save. One
  connection: the mutex serialises them.
* `host_endpoint`: two devices and three sources, with an attempt for each
  pair, against room for two handshakes, one of each device, and one TTL: every
  way to replace and expire an entry, and a refusal by either limit alone (the
  global one once a device has replaced the other's entry). Devices and sources
  are interchangeable.
* `daemon`: one device that is paired, revoked and paired again over two
  connections, two attempts of it, and a pump of two datagrams, so that
  revocation, drain and handshake interleave at every datagram.
* `receiver`: a space of eight numbers, a window of three, twelve numbers sent,
  frames of one to three records, five frames wanted: numbers are used again
  while old datagrams are still about. `LIFE` equals `HALF`, the most the
  theorem allows.
* `engine_loop` has two devices and one monitor, `engine_recovers` two monitors
  and no device: reconnecting does not look at peers, and the keyframe rule
  does not look at monitors.
* `control_socket`: two daemons, two clients for one slot.
* `annexb`: all well-formed streams of up to five NAL units (two kinds of
  parameter set, keyframe and delta slices), of four with AUDs and later slices
  as well, and of three with everything else (SEI, both start codes, empty and
  truncated NAL units), and HEVC alike, each cut into reads of one to eight
  bytes in every way. Limits of fourteen bytes are exceeded by the longer ones.
  One stream is left out: an empty NAL unit with a start code of four bytes
  before a code of three, which the scanner steps over (see the hazard at
  codec.rs:494).
* `capture`: two captures, so that the first can disturb the second, an image of
  two by three pixels, which no two transforms map alike, one turn.
* `encoder`: a queue of one, as in the code, pipes and ffmpeg of two.
* `locks`: two connections and the engine. A third would only wait for the
  same two mutexes.

Sizes are exact in `PROJECT.json` and the `.cfg` files.

### Fairness

* `EngineLoop`: weak fairness of the engine's own steps (`Turn`), whose waits
  all have deadlines. None of `Discovery`: the roundtrips of `Engine::discover`
  (service.rs:858-863) block until the compositor answers. `ShutdownEnds`
  excepts an engine that stays there for ever, and the premise of `Recovers`
  says that discoveries come back (`CompositorAnswers`). Nothing is assumed of
  requests.
* `Daemon`: weak fairness of the engine's steps, for `RevokedLeaves`.
* `ControlSocket`: weak fairness of a daemon's own threads, none of clients: a
  connection may stay open, or never read, for ever. The main thread's steps
  stand for run_serve with its engine, so the compositor is taken to answer the
  discoveries of that thread.
* `Encoder`: weak fairness of each thread, and of ffmpeg while it works. A
  killed child dies. `FailureSurfaces` needs no fairness of ffmpeg.
* `AnnexB`: weak fairness of the reader thread; ffmpeg closes its output.
* `Capture`: weak fairness of the engine's steps, the deadline among them. None
  of the compositor.
* `Locks`: weak fairness of each thread's step only. A mutex may always go to
  another waiter while new requests come; `NeverWedged` is about requests that
  stop coming.

## Proofs

TLAPS proves the following for every value of the constants that meets the
modules' assumptions: any number of devices, connections, daemons, codes,
datagrams and records, any limits and capacities. Each result is an invariant
(`Spec => []Inv`), an action property or a refinement. The invariants that the
runs check are seldom inductive; each module joins them with what keeps them.

* `TrustStoreProofs`: `StoreTypes`, `AttemptsBounded`, `CodeUsedOnce`,
  `VerdictsDurable`, `StoreImplementsLedger`. `StoreInv` says that one
  operation holds the mutex (`OpInv`), that a code not minted yet occurs
  nowhere (`FreshInv`), that every verdict on a guess, given or about to be
  given, is counted in memory from the comparison on and in the file from the
  save on (`BudgetInv`), that a store never has a code pending that one of its
  devices was paired with (`SpentInv`), and that between save and answer the
  file equals memory and has the verdict about to be told (`DurableInv`).
  `AttemptBudget` alone is not inductive: a crash loads the older count, and
  what bounds the verdicts is that the count was saved before each verdict was
  given. The refinement maps each step of the store to a step of the ledger or
  to a stutter; codes, clock and answers are hidden.
* `DaemonProofs`, about the endpoint: `EndpointTypes`, `PeersAreAgreed`,
  `SessionsOnce`, `PendingIsBounded`. The inductive invariant `EndpointInv`
  says that a confirm on the network is of a session its client completed
  (`NetInv`), that the datagram in hand was on the network (`InHandInv`), that
  there is one pending handshake per source, of a key already drawn and a
  session not established (`PendingInv`), and that established sessions have
  keys already drawn (`EstablishedInv`). `SessionOnce` is not inductive without
  it: that a confirm cannot be used twice follows from the entry being gone,
  and from every later entry having a newer key. `PendingIsBounded` rests on
  `BoundInv`: the map is finite too.
* `DaemonProofs`, about the daemon: `DaemonTypes`, `PeersAlwaysAccountedFor`.
  `DaemonInv` adds to the endpoint's types that one operation holds the mutex
  and its connection owes the engine no id (`OpInv`), that the device of an
  authorizer's yes still in hand is accounted for (`AnswerInv`), and that a
  dead process has no endpoint (`DownInv`). A peer can only be untrusted
  because a revocation is under way (its holder will push), pushed, or failed
  (`orphan`).
* `ReceiverProofs`, about the window: `NoReplay`, `BitmapExact`, both for
  `LIFE <= HALF`. The arithmetic is in `WireDistance`: within half the space,
  wire numbers tell the real distance. The invariant joins the type,
  `AcceptedOnce` and `WindowExact`. `LinkImplementsWindow` carries both over to
  the link (`LinkNeverReplays`, `LinkBitmapExact`).
* `ReceiverProofs`, about frames: `LinkTypes`, `FramesComeWhole`,
  `FramesComeOnce`. The Reassembler knows a frame by a number that wraps, and a
  partial frame may stay for as long as nothing else arrives. `LinkInv` says
  that the records of a frame are numbered one after another and agree on its
  count (`WireInv`), and that the partial frame holds accepted fragments of one
  frame that is still near the window (`CurrentInv`, `PartOf`). A record the
  window lets in is near it too, so two frames with the same number cannot meet
  (`SameFrame`) if a datagram's life, the window and the longest frame fit the
  space together: `RoomForFrames`, `LIFE <= HALF` and `LIFE + WIDTH + MaxFrags
  < 2 * HALF + 3`. In the code that is a life of half the space, 64 and at most
  65535 (a count is a `u16`) against 2^32; the instance TLC checks meets it
  with nothing to spare (4 + 3 + 3 against 11). A frame is complete when it has
  as many fragments as its count, and then has all of them because they are of
  one frame and differ; it is new because its last record was accepted for the
  first time.
* `ReceiverProofs`, about the receive loop: `ReceiverImplementsLink`, and by it
  `ReceiverGetsFrames`; `GapHidesNoLoss` for `LIFE <= HALF`. `NoHiddenLoss`
  speaks of neighbours, and a late record makes new ones, so it is not
  inductive by itself; `Dense` is: from every number between the first record
  and the newest it is at most `max_gap` to the next that arrived. A late
  record is measured round the whole space, which is more than any hole it can
  end.
* `EngineLoopProofs`: `EngineTypes`, `GrowthStartsWithKeyframe`, `StopEnds`.
  `EngineInv` says that while a device that raised the number of peers waits
  for its first unit the encoder is gone or has put nothing out (`WaitInv`),
  and that after a stop a capture is still to come only if none was made since
  (`LateInv`).
* `ControlProofs`, about the socket: `SocketTypes`, `PermitsNeverLeak`,
  `ExitsClean`, `PathKept`, `OneIdentity`. `SocketInv` says that a socket at
  the path is that of a daemon which has yet to remove it (`PathInv`); that,
  unless two daemons were inside `bind()` together, one is at most, whoever has
  bound has the path, and a file about to be removed is dead (`BindInv`); that,
  unless two looked for the key together, nobody has used a key while one is
  made (`KeyInv`); and that a client has one connection to a daemon
  (`ClientInv`), which makes the number of connections what the permits count.
  Assumed: the names of daemons differ from the markers `"none"`, `"partial"`
  and `"stale"` of a file that is no daemon's.
* `EncoderProofs`: `EncoderTypes`, `BacklogStaysShort`. `FlowInv` counts the
  frames between the queue and the channel: nothing on the way multiplies them,
  the engine adds one and then empties the channel before the next, and the
  reader's last message is its only one that is not a frame.
* `ControlProofs`, about the mutexes: `NeverHoldsBoth`. What is left of a
  thread's script is the rest of a request begun outside both mutexes, or it
  leaves the one it is in first (`Outside`, `Inside`); who holds what follows
  from it (`Disciplined`).

* `AnnexBProofs`, about NAL units: `StreamIsKept`, for every stream of any
  length and every way to read it. The library's induction theorems take an
  operator as a parameter, which the provers cannot instantiate, so the
  induction is stated once for a set of numbers (`Least`, `Induction`) and what
  the recursive definitions compute is proved through it: `FlattenSeq` is the
  concatenation (`FlattenConcat`, `FlattenMore`), the scanner finds the first
  two start codes of a buffer that holds any part of two NAL units
  (`FindsTwo`), and `take_next_nal` cuts out the next NAL unit of the stream,
  finds it empty or too short, or waits for more (`TakeFinds`). The inductive
  invariant `ExactInv` says that the parser stands between two NAL units
  (`Stands`): buffer and pipe together are the rest of the stream behind the
  k-th unit, after the junk perhaps, and all that was sent, completed or begun
  is the NAL units up to it (`Taken`). `NalsExact` alone says nothing of the
  buffer.
* `AnnexBProofs`, about pictures: `UnitsArePictures`. `PictureInv` says of every
  unit sent, completed or begun that of its slices the first, and only the
  first, begins a picture, and that `current_has_vcl` tells whether there is
  one. A slice that does not begin a picture finds one before it in the unit
  (`LaterSlice`), because nothing is flushed between two slices of a picture.
  Numbers of pictures then differ between units because a first slice lies
  between any two (`UnitBegins`, `MoreLater`).
* `AnnexBProofs`, about parameter sets: `SetsAreInForce`. `SetsInv` ties the
  parser's three fields to the stream: its sets are those in force behind the
  last NAL unit taken, and what it collects is the group that a picture right
  there would put in force (`Kept`). It holds for both codecs with the code's
  own test for a parameter set (`Forced`); with H.264 that is the standard's
  (`ForcedIs`). A call hands its sets to all the units it completes
  (`SentHasSets`).
* `CaptureProofs`: `ReadBack`, `CaptureTypes`, `MemoryReleased`, `FrameIsOwn`,
  `FrameIsUpright`, for any number of captures and turns and any size of the
  image. `ReadBack` is the arithmetic of `Pixels`: for all eight transforms,
  four formats, any padding and either row order, the code looks for a pixel
  where the compositor put it. `CaptureInv` says that objects and events are of
  captures that have begun and how far buffer and objects of the one under way
  are (`ObjectsInv`), that the compositor speaks of a frame once it has written
  it and describes it as it wrote it (`WireInv`), and that, unless an earlier
  capture left objects behind, `ready` comes behind the description of the
  frame it announces (`ReadyInv`).
  `OwnFrame` is not inductive without it: whether a buffer is blank when the
  capture succeeds was decided when `ready` was put on the wire.

Only model-checked: everything about liveness and fairness, which is outside
the prover's reach (`RevokedLeaves`, `ShutdownEnds`, `Recovers`, `SignalEnds`,
`KeepsDelivering`, `FailureSurfaces`, `HelpersEnd`, `NeverWedged`,
`EndReported`, `CaptureEnds`), and that the bit reader computes Exp-Golomb
numbers (`MCAnnexB`); the theorems about `AnnexB` hold whatever it computes.
Every invariant and every refinement that a run checks is proved.

## Not modelled

* Cryptographic primitives: ideal in `HostEndpoint` and `ReplayWindow`.
* JSON and argument parsing, the text of errors, PNG and file output, rate and
  timing statistics: formatting and I/O without state that a property is about.
* `handle_data`, which opens a datagram of a device, moves that peer's replay
  window and drops what it opened: no other code reads that window. The window
  itself is `ReplayWindow`.
* ffmpeg's arguments and the order of the encoder candidates: a fixed list.
  `Encoder` has the probe each of them goes through. `Encoder::finish` is called
  by tests only.
* The one-shot commands (`snapshot`, `keygen`, `bench`): straight-line I/O over
  the parts modelled here.
* The decoder side of a device: not in this repository.

## Plan

What is worth adding: the engine with the real encoder. `EngineLoop` and
`Encoder` share the queue; state the part of `Encoder` the loop relies on and
show it implemented.
