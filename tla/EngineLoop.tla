----------------------------- MODULE EngineLoop -----------------------------
(***************************************************************************)
(* The engine thread's loop (service.rs, run_engine) against the control   *)
(* connections that start, stop and deselect the stream, the compositor    *)
(* the daemon captures from, and the devices that come and go.             *)
(*                                                                         *)
(* An iteration takes the inner mutex many times, for one read or write    *)
(* each, and control requests are served in between.  `pc` is the place in *)
(* the iteration, named after the next thing the engine does; neighbouring *)
(* writes of fields no request reads together are one step.  The transport *)
(* is the engine's own: what it does to the peers in one pump is one step. *)
(***************************************************************************)
EXTENDS Naturals, FiniteSets, DeviceIds

CONSTANTS
  Outputs,      \* names of monitors
  None,         \* Option::None for an output name
  PIPE          \* frames the encoder can hold before it drops

ASSUME EngineAssumption ==
  /\ None \notin Outputs
  /\ PIPE \in Nat \ {0}

VARIABLES
  streaming,    \* Inner::streaming
  selected,     \* Inner::selected
  outputs,      \* Inner::outputs, as published
  last_error,   \* Inner::last_error is Some
  halting,      \* shutdown requested, or a signal received
  pc,           \* the engine's next step
  want,         \* the selection a reconnect has read
  output,       \* Engine::output
  applied,      \* the selection last applied, applied_output
  known,        \* Engine::state.outputs
  encoder,      \* "none", "new" (nothing came out yet) or "running"
  queued,       \* frames inside the encoder
  peers,        \* confirmed peers, and the first unit offered to each
  last_peers,   \* their number at the end of the previous pump
  link,         \* the Wayland connection: "ok", "poisoned" (a protocol error is
                \* latched) or "dead" (the socket is broken)
  present,      \* the compositor's monitors, {} when there is no compositor
  own,          \* history: no stream was started since the iteration looked
  late          \* history: captures since the stream ended

innerVars == <<streaming, selected, outputs, last_error>>
captureVars == <<want, output, applied, known>>
encoderVars == <<encoder, queued>>
peerVars == <<peers, last_peers>>
history == <<own, late>>
vars == <<innerVars, halting, pc, captureVars, encoderVars, peerVars, link,
          present, history>>

Places ==
  {"pump", "check", "begin", "reconnect", "reselect", "publish", "capture",
   "encode", "ship", "pace", "error", "exit"}

(* counted: the device joined in a pump that raised the number of peers.   *)
Peer == [dev: Devices, first: {"none", "key", "delta"}, counted: BOOLEAN]

(* Type invariant: the engine is at one of the steps of run_engine, with   *)
(* the fields of Service and Engine in range.                              *)
EngineTypeOK ==
  /\ streaming \in BOOLEAN
  /\ selected \in Outputs \cup {None}
  /\ outputs \in SUBSET Outputs
  /\ last_error \in BOOLEAN
  /\ halting \in BOOLEAN
  /\ pc \in Places
  /\ want \in Outputs \cup {None}
  /\ output \in Outputs
  /\ applied \in Outputs \cup {None}
  /\ known \in SUBSET Outputs
  /\ encoder \in {"none", "new", "running"}
  /\ queued \in 0..PIPE
  /\ encoder = "none" => queued = 0
  /\ peers \in SUBSET Peer
  /\ \A p, q \in peers : p.dev = q.dev => p = q
  /\ last_peers \in 0..Cardinality(Devices)
  /\ link \in {"ok", "poisoned", "dead"}
  /\ present \in SUBSET Outputs
  /\ own \in BOOLEAN
  /\ late \in Nat

(* discover() has succeeded and its outputs are published.                 *)
EngineInit ==
  /\ streaming = FALSE
  /\ selected = None
  /\ present \in SUBSET Outputs \ {{}}
  /\ known = present
  /\ outputs = present
  /\ output \in present
  /\ applied = None
  /\ last_error = FALSE
  /\ halting = FALSE
  /\ pc = "pump"
  /\ want = None
  /\ encoder = "none"
  /\ queued = 0
  /\ peers = {}
  /\ last_peers = 0
  /\ link = "ok"
  /\ own = TRUE
  /\ late = 0

Goto(here, there) == pc = here /\ pc' = there

-----------------------------------------------------------------------------
(* Control requests.                                                       *)

Serving == pc # "exit"

(* handle_start: the requested output must be a published one; without a   *)
(* request the last selection stands, and without one the first output.    *)
handle_start(o) ==
  /\ Serving
  /\ ~streaming
  /\ o # None => o \in outputs
  /\ \/ o # None /\ selected' = o
     \/ o = None /\ selected # None /\ selected' = selected
     \/ o = None /\ selected = None /\ selected' \in outputs
  /\ streaming' = TRUE
  /\ last_error' = FALSE
  /\ own' = FALSE
  /\ late' = 0
  /\ UNCHANGED <<outputs, halting, pc, captureVars, encoderVars, peerVars,
                 link, present>>

(* stop, and select with no targets, which also clears the selection.      *)
Stop ==
  /\ Serving
  /\ streaming
  /\ streaming' = FALSE
  /\ selected' \in {selected, None}
  /\ late' = 0
  /\ UNCHANGED <<outputs, last_error, halting, pc, captureVars, encoderVars,
                 peerVars, link, present, own>>

(* select with no targets while nothing streams.                           *)
Deselect ==
  /\ Serving
  /\ ~streaming
  /\ selected' = None
  /\ UNCHANGED <<streaming, outputs, last_error, halting, pc, captureVars,
                 encoderVars, peerVars, link, present, history>>

Halt ==
  /\ ~halting
  /\ halting' = TRUE
  /\ UNCHANGED <<innerVars, pc, captureVars, encoderVars, peerVars, link,
                 present, history>>

-----------------------------------------------------------------------------
(* The engine, in the order of its loop.                                   *)

Exit ==
  /\ Goto("pump", "exit")
  /\ halting
  /\ UNCHANGED <<innerVars, halting, captureVars, encoderVars, peerVars, link,
                 present, history>>

(* Revoked devices leave and handshakes complete; a device that shakes     *)
(* hands again replaces its own session.  The encoder is dropped when the  *)
(* new number of peers says that one joined.                               *)
PumpWith(Joins(_)) ==
  /\ Goto("pump", "check")
  /\ \E gone \in SUBSET Devices : \E joined \in SUBSET Devices :
       LET stay == {p \in peers : p.dev \notin gone \cup joined}
           n == Cardinality(stay) + Cardinality(joined)
       IN
       /\ peers' = stay \cup
            {[dev |-> d, first |-> "none", counted |-> n > last_peers] :
               d \in joined}
       /\ last_peers' = n
       /\ encoder' = IF Joins(n) THEN "none" ELSE encoder
       /\ queued' = IF Joins(n) THEN 0 ELSE queued
  /\ own' = TRUE
  /\ UNCHANGED <<innerVars, halting, captureVars, link, present, late>>

(* Mutants of Pump: only the first device counts as new; the loop does not *)
(* look at the shutdown flag.                                              *)
PumpFirstOnly ==
  ~halting /\ PumpWith(LAMBDA n : n > 0 /\ last_peers = 0)
PumpPastHalt == PumpWith(LAMBDA n : n > last_peers)

(* One pump, and the comparison with the previous number of peers.         *)
Pump ==
  /\ ~halting
  /\ PumpWith(LAMBDA n : n > last_peers)

(* is_streaming.                                                           *)
CheckIdle ==
  /\ Goto("check", "pump")
  /\ ~streaming
  /\ UNCHANGED <<innerVars, halting, captureVars, encoderVars, peerVars, link,
                 present, history>>

(* A mutant of CheckStreaming: goes on without looking.                    *)
CheckNothing ==
  /\ Goto("check", "begin")
  /\ own' = TRUE
  /\ UNCHANGED <<innerVars, halting, captureVars, encoderVars, peerVars, link,
                 present, late>>

CheckStreaming ==
  /\ Goto("check", "begin")
  /\ streaming
  /\ own' = TRUE
  /\ UNCHANGED <<innerVars, halting, captureVars, encoderVars, peerVars, link,
                 present, late>>

(* A poisoned connection is replaced.  The selection is read first, and    *)
(* the encoder goes whatever discovery says.                               *)
ReconnectBegin ==
  /\ Goto("begin", "reconnect")
  /\ link = "poisoned"
  /\ want' = selected
  /\ encoder' = "none"
  /\ queued' = 0
  /\ UNCHANGED <<innerVars, halting, output, applied, known, peerVars, link,
                 present, history>>

(* discover() fails without a compositor or without monitors: the error is *)
(* reported, the stream stays on and the next iteration tries again.       *)
ReconnectFails ==
  /\ Goto("reconnect", "pump")
  /\ present = {}
  /\ last_error' = TRUE
  /\ want' = None
  /\ UNCHANGED <<streaming, selected, outputs, halting, output, applied, known,
                 encoderVars, peerVars, link, present, history>>

(* A mutant of ReconnectOk: the latched failure outlives the replacement.  *)
ReconnectStillLatched ==
  /\ Goto("reconnect", "publish")
  /\ present # {}
  /\ known' = present
  /\ output' \in present
  /\ want' = None
  /\ UNCHANGED <<innerVars, halting, applied, encoderVars, peerVars, link,
                 present, history>>

(* discover(): a new connection, the monitors it announces and one of them *)
(* as the output.  Without a monitor there is nothing to select.           *)
discover ==
  /\ present # {}
  /\ link' = "ok"
  /\ known' = present
  /\ output' \in present

(* The engine is replaced but for its transport: the wanted output if it   *)
(* is still there, the first one otherwise.                                *)
ReconnectOk ==
  /\ pc = "reconnect"
  /\ discover
  /\ want \in present => output' = want
  /\ pc' = IF want = None \/ want \in present THEN "publish" ELSE "reselect"
  /\ want' = None
  /\ UNCHANGED <<innerVars, halting, applied, encoderVars, peerVars, present,
                 history>>

(* set_selected_output(fallback).                                          *)
Reselect ==
  /\ Goto("reselect", "publish")
  /\ selected' = output
  /\ UNCHANGED <<streaming, outputs, last_error, halting, captureVars,
                 encoderVars, peerVars, link, present, history>>

(* publish_discovery and clear_error; the selection counts as applied.     *)
Publish ==
  /\ Goto("publish", "pump")
  /\ outputs' = known
  /\ last_error' = FALSE
  /\ applied' = selected
  /\ UNCHANGED <<streaming, selected, halting, want, output, known,
                 encoderVars, peerVars, link, present, history>>

(* set_output: the selection as it is now; without one the engine goes on  *)
(* with the output it has.  A selection that was not applied before        *)
(* publishes the monitors as they are known now.                           *)
SetOutput ==
  /\ Goto("begin", "capture")
  /\ link # "poisoned"
  /\ \/ selected = None /\ UNCHANGED <<output, applied, outputs>>
     \/ /\ selected \in known
        /\ output' = selected
        /\ applied' = selected
        /\ outputs' = IF applied = selected THEN outputs ELSE known
  /\ UNCHANGED <<streaming, selected, last_error, halting, want, known,
                 encoderVars, peerVars, link, present, history>>

SetOutputFails ==
  /\ Goto("begin", "error")
  /\ link # "poisoned"
  /\ selected \notin known \cup {None}
  /\ UNCHANGED <<innerVars, halting, captureVars, encoderVars, peerVars, link,
                 present, history>>

(* Whatever capture_once dispatches can change the known monitors.         *)
Dispatch == known' \in {known, present}

(* A frame.  Without peers it goes nowhere.                                *)
CaptureOk ==
  /\ pc = "capture"
  /\ link = "ok"
  /\ output \in present
  /\ Dispatch
  /\ late' = IF streaming THEN late ELSE late + 1
  /\ pc' = IF peers = {} THEN "pace" ELSE "encode"
  /\ UNCHANGED <<innerVars, halting, want, output, applied, encoderVars,
                 peerVars, link, present, own>>

(* The compositor has killed the connection with a protocol error, which   *)
(* the client reads here: it is latched, and the stream stays on.          *)
CapturePoisoned ==
  /\ Goto("capture", "pump")
  /\ link = "ok"
  /\ present # {}
  /\ link' = "poisoned"
  /\ UNCHANGED <<innerVars, halting, captureVars, encoderVars, peerVars,
                 present, history>>

(* Any other error, a broken socket included.                              *)
CaptureFails ==
  /\ Goto("capture", "error")
  /\ IF link = "ok" THEN Dispatch ELSE UNCHANGED known
  /\ UNCHANGED <<innerVars, halting, want, output, applied, encoderVars,
                 peerVars, link, present, history>>

(* ensure_encoder and encode(): the encoder in use if it still fits the    *)
(* frame and the rate, or a new one.  A full queue drops the frame.        *)
EncodeKeep ==
  /\ Goto("encode", "ship")
  /\ encoder # "none"
  /\ queued' = IF queued < PIPE THEN queued + 1 ELSE queued
  /\ UNCHANGED <<innerVars, halting, captureVars, encoder, peerVars, link,
                 present, history>>

EncodeRestart ==
  /\ Goto("encode", "ship")
  /\ encoder' = "new"
  /\ queued' = 1
  /\ UNCHANGED <<innerVars, halting, captureVars, peerVars, link, present,
                 history>>

(* Start, encode() or the output side fails: the encoder is dropped.       *)
EncoderFails ==
  /\ pc \in {"encode", "ship"}
  /\ pc' = "error"
  /\ encoder' = "none"
  /\ queued' = 0
  /\ UNCHANGED <<innerVars, halting, captureVars, peerVars, link, present,
                 history>>

(* An access unit is offered to every peer (send_frame; what can happen to *)
(* it from there is FrameLink's).  A new encoder starts with a keyframe.   *)
Ship(kind) ==
  /\ pc = "ship"
  /\ queued > 0
  /\ encoder = "new" => kind = "key"
  /\ encoder' = "running"
  /\ queued' = queued - 1
  /\ peers' = {[p EXCEPT !.first = IF @ = "none" THEN kind ELSE @] :
                 p \in peers}
  /\ UNCHANGED <<innerVars, halting, pc, captureVars, last_peers, link,
                 present, history>>

(* No more units are ready.                                                *)
ShipDone ==
  /\ Goto("ship", "pace")
  /\ UNCHANGED <<innerVars, halting, captureVars, encoderVars, peerVars, link,
                 present, history>>

(* The sleep that paces the loop, and record_frame.                        *)
Pace ==
  /\ Goto("pace", "pump")
  /\ last_error' = FALSE
  /\ UNCHANGED <<streaming, selected, outputs, halting, captureVars,
                 encoderVars, peerVars, link, present, history>>

(* record_error.                                                           *)
RecordError ==
  /\ Goto("error", "pump")
  /\ streaming' = FALSE
  /\ last_error' = TRUE
  /\ late' = IF streaming THEN 0 ELSE late
  /\ UNCHANGED <<selected, outputs, halting, captureVars, encoderVars,
                 peerVars, link, present, own>>

(* What Engine::discover waits for: the answers of the compositor, in      *)
(* round trips that have no deadline.                                      *)
Discovery == ReconnectOk \/ ReconnectFails

(* Every other step of the loop waits for nobody, or not for ever.         *)
Turn ==
  \/ Exit \/ Pump
  \/ CheckIdle \/ CheckStreaming
  \/ ReconnectBegin \/ Reselect \/ Publish
  \/ SetOutput \/ SetOutputFails
  \/ CaptureOk \/ CapturePoisoned \/ CaptureFails
  \/ EncodeKeep \/ EncodeRestart \/ EncoderFails
  \/ \E kind \in {"key", "delta"} : Ship(kind)
  \/ ShipDone \/ Pace \/ RecordError

Engine == Turn \/ Discovery

-----------------------------------------------------------------------------
(* The compositor.                                                         *)

(* Monitors come and go; without a compositor there are none, and its      *)
(* socket is broken for good.                                              *)
Monitors ==
  /\ present' \in SUBSET Outputs
  /\ link' \in {link, IF present' = {} /\ link = "ok" THEN "dead" ELSE link}
  /\ UNCHANGED <<innerVars, halting, pc, captureVars, encoderVars, peerVars,
                 history>>

EngineNext ==
  \/ Engine
  \/ \E o \in Outputs \cup {None} : handle_start(o)
  \/ Stop \/ Deselect \/ Halt
  \/ Monitors

(* The engine thread runs: every wait of the loop has a deadline (pump,    *)
(* capture, the sleeps), and the encoder is only polled.  The round trips  *)
(* of a reconnect have none: a compositor that accepts the connection and  *)
(* never answers keeps the engine there, so nothing is assumed of them.    *)
EngineSpec == EngineInit /\ [][EngineNext]_vars /\ WF_vars(Turn)

-----------------------------------------------------------------------------
(* Properties.                                                             *)

(* Once a stream is stopped, deselected or ended by an error, at most the  *)
(* frame of the iteration already under way is captured.                   *)
StopTakesEffect == ~streaming => late <= 1

(* A device that joined in a pump that raised the number of peers is given *)
(* a keyframe before any delta, whatever the encoder, the stream and the   *)
(* connection went through in between.                                     *)
GrowthGetsKeyframe == \A p \in peers : p.counted => p.first # "delta"

(* No discovery is left without an answer for ever.                        *)
CompositorAnswers == []<>(pc # "reconnect")

(* A stream whose Wayland connection was killed by a protocol error gets a *)
(* new connection, or ends, once the compositor is back for good, if it    *)
(* answers.                                                                *)
Recovers ==
  <>[](present # {}) /\ CompositorAnswers =>
    ((streaming /\ link = "poisoned") ~>
       (~streaming \/ link # "poisoned" \/ pc = "exit"))

(* A shutdown request ends the engine, wherever it is in its iteration,    *)
(* unless it waits in a discovery that the compositor never answers.       *)
ShutdownEnds == halting ~> (pc = "exit" \/ [](pc = "reconnect"))

(* The same without a condition: the round trips of Engine::discover stand *)
(* between a shutdown request and the end.                                 *)
ShutdownAlwaysEnds == halting ~> (pc = "exit")

(* What ADR 0005 says: while a capture session is active the daemon        *)
(* reports it, so screen sharing is never silent.                          *)
NeverSilent == ~streaming => late = 0

(* What the comment in run_engine says: a device that just connected is    *)
(* served a keyframe first.                                                *)
JoinGetsKeyframe == \A p \in peers : p.first # "delta"

(* What the comment in run_engine says: a failure stops this stream.       *)
ErrorStopsOwnStream ==
  [][(pc = "error" /\ pc' = "pump" /\ streaming) => own]_vars

=============================================================================
