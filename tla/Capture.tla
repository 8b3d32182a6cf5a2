------------------------------ MODULE Capture ------------------------------
(***************************************************************************)
(* Capturing one frame after another from a compositor over one Wayland    *)
(* connection: capture/mod.rs, capture/ext.rs, capture/wlr.rs, shm.rs and  *)
(* the transform service.rs keeps for the wlr backend.                     *)
(*                                                                         *)
(* Events come in order, and are applied to the connection's State without *)
(* looking at the object they are for (its user data is `()`).  A capture  *)
(* that times out returns without destroying its session or frame, so the  *)
(* compositor may still answer it while the next capture waits.            *)
(*                                                                         *)
(* A batch of events dispatched before `ready` is looked at is a number of *)
(* single dispatches, with the look at any point.  The compositor speaks   *)
(* version 3 of wlr-screencopy (it sends buffer_done).  Errors of the      *)
(* connection belong to EngineLoop.                                        *)
(***************************************************************************)
EXTENDS Pixels, FiniteSets

CONSTANTS
  Backends,      \* of {"Ext", "Wlr"}
  Offers,        \* the sets of formats a compositor may accept
  Started,       \* the transforms an output may start with
  TurnedTo,      \* and be turned to
  Width, Height, \* of the output, upright
  MaxCaptures,   \* bound: captures of a connection
  MaxTurns       \* bound: times the output is turned

ASSUME CaptureAssumption ==
  /\ Backends \subseteq {"Ext", "Wlr"}
  /\ \A f \in Offers : f # {}
  /\ Started \subseteq Transforms /\ TurnedTo \subseteq Transforms
  /\ {Width, Height, MaxCaptures} \subseteq Nat \ {0}
  /\ MaxTurns \in Nat

VARIABLES
  backend,
  selected,      \* a screen is selected, and set_output runs before every
                 \* capture; it is of no matter to ext
  turned,        \* the output's transform, and how often it was turned
  turns,
  known,         \* OutputInfo::transform
  transform,     \* Engine::transform
  pc,            \* "idle", "constraints" or "frame"
  n,             \* the captures begun; the last is the one under way
  began,         \* history: `known` when it began
  st,            \* ExtState or WlrState
  wire,          \* events sent and not dispatched
  comp,          \* what the compositor has of each capture's objects
  format,        \* of the buffer under way
  memory,        \* what is in each capture's buffer
  result         \* of the last capture: an error unless it says ok

clientVars == <<pc, n, began, format, result, transform>>
turnVars == <<turned, turns>>
capVars == <<backend, selected, turnVars, known, clientVars, st, wire, comp,
             memory>>

Captures == 1..MaxCaptures

(* A buffer: there is none, it is zeroed, or the compositor wrote a frame  *)
(* into it, with the output turned and the rows inverted like this.        *)
NoMemory == [is |-> "none"]
Blank == [is |-> "blank"]
Frame(t, inv) == [is |-> "frame", turned |-> t, y_invert |-> inv]

(* ExtState::default and WlrState::default.  `failed` is ext's failure,    *)
(* `described` wlr's have_buffer, `done` constraints_done or buffer_done.  *)
Reset ==
  [formats |-> {}, described |-> FALSE, done |-> FALSE, dmabuf |-> FALSE,
   stopped |-> FALSE, transform |-> "Normal", y_invert |-> FALSE,
   ready |-> FALSE, failed |-> FALSE]

Event(a, is, value) == [of |-> a, is |-> is, value |-> value]

(* The Dispatch implementations of ext's session and frame: formats add    *)
(* up, and dmabufs are ignored.                                            *)
ExtApplies(s, e) ==
  CASE e.is = "formats" -> [s EXCEPT !.formats = @ \cup e.value]
    [] e.is = "done" -> [s EXCEPT !.done = TRUE]
    [] e.is = "stopped" -> [s EXCEPT !.stopped = TRUE]
    [] e.is = "transform" -> [s EXCEPT !.transform = e.value]
    [] e.is = "ready" -> [s EXCEPT !.ready = TRUE]
    [] e.is = "failed" -> [s EXCEPT !.failed = TRUE]

(* The Dispatch implementation of wlr's frame.                             *)
WlrApplies(s, e) ==
  CASE e.is = "formats" -> [s EXCEPT !.formats = e.value, !.described = TRUE]
    [] e.is = "done" -> [s EXCEPT !.done = TRUE]
    [] e.is = "dmabuf" -> [s EXCEPT !.dmabuf = TRUE]
    [] e.is = "flags" -> [s EXCEPT !.y_invert = e.value]
    [] e.is = "ready" -> [s EXCEPT !.ready = TRUE]
    [] e.is = "failed" -> [s EXCEPT !.failed = TRUE]

Applies(s, e) == IF backend = "Ext" THEN ExtApplies(s, e) ELSE WlrApplies(s, e)

-----------------------------------------------------------------------------
(* The compositor.                                                         *)

(* What it says of the buffer it wants.  A wlr compositor offers dmabufs   *)
(* as well, or only those, and accepts one shm format.                     *)
Describe(a) ==
  /\ comp[a] = "asked"
  /\ comp' = [comp EXCEPT ![a] = "described"]
  /\ \E offer \in Offers :
       IF backend = "Ext"
       THEN wire' = wire \o <<Event(a, "formats", offer),
                              Event(a, "done", TRUE)>>
       ELSE \/ \E f \in offer :
                 wire' = wire \o <<Event(a, "formats", {f}),
                                   Event(a, "dmabuf", TRUE),
                                   Event(a, "done", TRUE)>>
            \/ wire' = wire \o <<Event(a, "dmabuf", TRUE),
                                 Event(a, "done", TRUE)>>
  /\ UNCHANGED <<backend, selected, turnVars, known, clientVars, st, memory>>

(* The copy.  The transform, or the flags, come before `ready`.  A turn    *)
(* since the description does not stop it here; a real compositor would    *)
(* rather refuse a buffer whose sides are swapped.                         *)
Copy(a) ==
  /\ comp[a] = "copying"
  /\ comp' = [comp EXCEPT ![a] = "answered"]
  /\ \E inv \in IF backend = "Wlr" THEN BOOLEAN ELSE {FALSE} :
       /\ memory' = IF memory[a] = NoMemory THEN memory
                    ELSE [memory EXCEPT ![a] = Frame(turned, inv)]
       /\ wire' = wire \o <<IF backend = "Ext"
                            THEN Event(a, "transform", turned)
                            ELSE Event(a, "flags", inv),
                            Event(a, "ready", TRUE)>>
  /\ UNCHANGED <<backend, selected, turnVars, known, clientVars, st>>

Refuse(a) ==
  /\ comp[a] = "copying" \/ (backend = "Wlr" /\ comp[a] = "asked")
  /\ comp' = [comp EXCEPT ![a] = "answered"]
  /\ wire' = Append(wire, Event(a, "failed", TRUE))
  /\ UNCHANGED <<backend, selected, turnVars, known, clientVars, st, memory>>

(* The output goes away, or its owner ends the session.                    *)
StopSession(a) ==
  /\ backend = "Ext"
  /\ comp[a] \in {"asked", "described", "copying"}
  /\ comp' = [comp EXCEPT ![a] = "answered"]
  /\ wire' = wire \o (IF comp[a] = "copying"
                      THEN <<Event(a, "failed", TRUE)>> ELSE <<>>)
                  \o <<Event(a, "stopped", TRUE)>>
  /\ UNCHANGED <<backend, selected, turnVars, known, clientVars, st, memory>>

Turn(t) ==
  /\ turns < MaxTurns
  /\ t # turned
  /\ turned' = t
  /\ turns' = turns + 1
  /\ wire' = Append(wire, Event(0, "geometry", t))
  /\ UNCHANGED <<backend, selected, known, clientVars, st, comp, memory>>

Compositor ==
  \/ \E a \in Captures : Describe(a) \/ Copy(a) \/ Refuse(a) \/ StopSession(a)
  \/ \E t \in TurnedTo : Turn(t)

-----------------------------------------------------------------------------
(* A capture.                                                              *)

(* Mutant of Begin: the state is not reset.                                *)
BeginStale ==
  /\ pc = "idle"
  /\ n < MaxCaptures
  /\ n' = n + 1
  /\ pc' = "constraints"
  /\ began' = known
  /\ transform' = IF selected THEN known ELSE transform
  /\ result' = [ok |-> FALSE]
  /\ comp' = [comp EXCEPT ![n + 1] = "asked"]
  /\ UNCHANGED <<backend, selected, turnVars, known, format, st, wire, memory>>

(* set_output, when a screen is selected, and the first requests.          *)
Begin ==
  /\ pc = "idle"
  /\ n < MaxCaptures
  /\ n' = n + 1
  /\ pc' = "constraints"
  /\ began' = known
  /\ transform' = IF selected THEN known ELSE transform
  /\ result' = [ok |-> FALSE]
  /\ st' = Reset
  /\ comp' = [comp EXCEPT ![n + 1] = "asked"]
  /\ UNCHANGED <<backend, selected, turnVars, known, format, wire, memory>>

Waiting == pc \in {"constraints", "frame"}

(* dispatch_pending, one event of it.  An event of an object that was      *)
(* destroyed meanwhile goes nowhere.                                       *)
DispatchEvent ==
  /\ Waiting
  /\ wire # <<>>
  /\ wire' = Tail(wire)
  /\ IF Head(wire).is = "geometry"
     THEN known' = Head(wire).value /\ UNCHANGED st
     ELSE /\ st' = IF comp[Head(wire).of] = "none" THEN st
                   ELSE Applies(st, Head(wire))
          /\ UNCHANGED known
  /\ UNCHANGED <<backend, selected, turnVars, clientVars, comp, memory>>

(* What the two wait_until of ext wait for, and those of wlr.              *)
ExtReady ==
  IF pc = "constraints" THEN st.done \/ st.stopped
  ELSE st.ready \/ st.failed \/ st.stopped

WlrReady ==
  IF pc = "constraints"
  THEN st.failed \/ (st.described /\ st.done) \/ st.dmabuf
  ELSE st.ready \/ st.failed

Ready == IF backend = "Ext" THEN ExtReady ELSE WlrReady

(* Mutant of GiveUp: the pool of the buffer is not released (#49).         *)
GiveUpMapped ==
  /\ pc' = "idle"
  /\ UNCHANGED result
  /\ UNCHANGED <<memory, comp, wire, n, began, format, transform>>

(* An early return: the buffer is dropped, and with it its pool; session,  *)
(* source and frame are not destroyed.                                     *)
GiveUp ==
  /\ pc' = "idle"
  /\ UNCHANGED result
  /\ memory' = [memory EXCEPT ![n] = NoMemory]
  /\ UNCHANGED <<comp, wire, n, began, format, transform>>

(* Mutant of Timeout: nothing bounds the wait for the frame.               *)
TimeoutConstraints ==
  /\ pc = "constraints"
  /\ ~Ready
  /\ GiveUp
  /\ UNCHANGED <<backend, selected, turnVars, known, st>>

(* wait_until's deadline.                                                  *)
Timeout ==
  /\ Waiting
  /\ ~Ready
  /\ GiveUp
  /\ UNCHANGED <<backend, selected, turnVars, known, st>>

Preferred == <<"Xrgb8888", "Argb8888", "Xbgr8888", "Rgba8888">>

Usable == SelectSeq(Preferred, LAMBDA f : f \in st.formats)

(* The session was stopped or refused, or offers nothing usable; or the    *)
(* buffer cannot be made.  wlr takes any format, and decode refuses later. *)
NoBuffer ==
  IF backend = "Ext" THEN st.stopped \/ Usable = <<>>
  ELSE st.failed \/ ~st.described

ConstraintsFail ==
  /\ pc = "constraints"
  /\ Ready
  /\ GiveUp
  /\ UNCHANGED <<backend, selected, turnVars, known, st>>

(* pick_shm_format, ShmBuffer::create, and the request to copy.            *)
ConstraintsOk ==
  /\ pc = "constraints"
  /\ Ready
  /\ ~NoBuffer
  /\ format' = IF backend = "Ext" THEN Usable[1]
               ELSE CHOOSE f \in st.formats : TRUE
  /\ memory' = [memory EXCEPT ![n] = Blank]
  /\ comp' = [comp EXCEPT ![n] = IF @ \in {"asked", "described"}
                                 THEN "copying" ELSE @]
  /\ pc' = "frame"
  /\ UNCHANGED <<backend, selected, turnVars, known, n, began, result,
                 transform, st, wire>>

(* ext lets a failure win over a ready frame, wlr the other way round.     *)
ExtSucceeded == st.ready /\ ~st.failed

WlrSucceeded == st.ready

(* decode() refuses a format it does not know.                             *)
Succeeded ==
  /\ IF backend = "Ext" THEN ExtSucceeded ELSE WlrSucceeded
  /\ format \in Supported

(* Whether the image is upright that is read back from a written frame:    *)
(* every pixel is taken from where the compositor put it, and comes out in *)
(* its own colours.  `pad` words end each row.                             *)
ReadsUpright(written, pad, t, y_invert) ==
  \A x \in 0..(Width - 1), y \in 0..(Height - 1) :
    LET shown == Turned(written.turned, [x |-> x, y |-> y, w |-> Width, h |-> Height])
        spot == IF written.y_invert THEN Inverted(shown) ELSE shown
        from == untransform(<<x, y>>, spot.w, spot.h, t)
        colour == <<1, 2, 3, 255>>
    IN  /\ UprightSize(t, spot.w, spot.h) = <<Width, Height>>
        /\ decode(IF y_invert THEN flip_rows(from, spot.h) ELSE from,
                  spot.w + pad)
             = spot.y * (spot.w + pad) + spot.x
        /\ convert(format, Word(format, colour)) = colour

(* The frame is over: its objects are destroyed, the pixels are read back, *)
(* and the buffer is dropped.                                              *)
FrameOver ==
  /\ pc = "frame"
  /\ Ready
  /\ pc' = "idle"
  /\ comp' = [comp EXCEPT ![n] = "none"]
  /\ memory' = [memory EXCEPT ![n] = NoMemory]
  /\ \E pad \in IF backend = "Wlr" THEN {0, 1} ELSE {0} :
       result' =
         IF ~Succeeded THEN [ok |-> FALSE]
         ELSE [ok |-> TRUE,
               written |-> memory[n],
               upright |->
                 /\ memory[n] # Blank
                 /\ ReadsUpright(memory[n], pad,
                      IF backend = "Ext" THEN st.transform ELSE transform,
                      st.y_invert)]
  /\ UNCHANGED <<backend, selected, turnVars, known, n, began, format,
                 transform, st, wire>>

Progress == Timeout \/ ConstraintsFail \/ ConstraintsOk \/ FrameOver

CaptureInit ==
  /\ backend \in Backends
  /\ selected \in BOOLEAN
  /\ backend = "Ext" => ~selected
  /\ turned \in Started
  /\ turns = 0
  /\ known = turned
  /\ transform = turned
  /\ pc = "idle"
  /\ n = 0
  /\ began = turned
  /\ st = Reset
  /\ wire = <<>>
  /\ comp = [a \in Captures |-> "none"]
  /\ format = "Other"
  /\ memory = [a \in Captures |-> NoMemory]
  /\ result = [ok |-> FALSE]

CaptureNext ==
  \/ Compositor
  \/ Begin \/ DispatchEvent
  \/ Progress

(* The engine thread runs, and time passes: nothing is asked of the        *)
(* compositor.                                                             *)
CaptureSpec ==
  CaptureInit /\ [][CaptureNext]_capVars /\ WF_capVars(Progress)

-----------------------------------------------------------------------------
(* Properties.                                                             *)

(* Objects an earlier capture left behind.                                 *)
Litter == {a \in Captures : comp[a] # "none" /\ (a # n \/ pc = "idle")}

(* A capture that succeeds returns what the compositor wrote for it, and   *)
(* not the zeroes of an untouched buffer, unless an earlier capture of     *)
(* the connection gave up and left its objects behind.                     *)
OwnFrame == result.ok /\ result.written = Blank => Litter # {}

(* As the comment on ExtState has it, for "the in-flight session/frame",   *)
(* without that exception.                                                 *)
OwnFrameAlways == result.ok => result.written # Blank

(* A frame the compositor wrote comes out upright, pixel for pixel, for    *)
(* every transform, format, padding and inversion: with ext always, with   *)
(* wlr when a screen is selected and the output is turned the way it was   *)
(* known to be when the capture began.                                     *)
Upright ==
  result.ok /\ result.written # Blank /\ Litter = {} =>
    \/ result.upright
    \/ backend = "Wlr" /\ (transform # began \/ result.written.turned # began)

(* Whichever way a capture ends, the shared memory it registered is        *)
(* released (#49), and one that succeeds leaves no object behind.          *)
Released ==
  /\ \A a \in Captures : memory[a] # NoMemory => a = n /\ pc = "frame"
  /\ pc = "idle" /\ result.ok => comp[n] = "none"

(* A wedged compositor surfaces as an error, not as a hung daemon: every   *)
(* capture comes back.                                                     *)
CaptureEnds == Waiting ~> (pc = "idle")

=============================================================================
