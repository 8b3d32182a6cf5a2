------------------------------ MODULE Encoder ------------------------------
(***************************************************************************)
(* One encoder of encoder.rs, from start to the end of its last thread:    *)
(* the engine that feeds and polls it, the ffmpeg child, and the writer,   *)
(* reader and stderr threads between them, over three finite pipes.        *)
(*                                                                         *)
(* Frames and access units are counted, not told apart: every queue is     *)
(* first in, first out, and ffmpeg runs without B-frames, one unit for     *)
(* each frame.  The engine drops an encoder as soon as it returns an error *)
(* (service.rs), so an error and the drop are one step.                    *)
(***************************************************************************)
EXTENDS Naturals, Sequences

CONSTANTS
  QUEUE,   \* STDIN_QUEUE_CAPACITY
  PIPE,    \* what an operating system pipe holds, in frames, units or lines
  HOLD     \* frames ffmpeg takes in before it must write one out

ASSUME EncoderAssumption ==
  /\ QUEUE \in Nat \ {0}
  /\ PIPE \in Nat \ {0}
  /\ HOLD \in Nat \ {0}

VARIABLES
  phase,          \* "off", "probe", "offer" (a frame is next), "poll", "gone"
  tx,             \* Encoder::stdin, the sender of the frame queue, is Some
  queue,          \* frames in the bounded queue
  hand,           \* frames (0 or 1) in the writer's write_all
  writer_error,   \* Encoder::writer_error is Some
  writer,         \* the helper threads: TRUE while they run
  reader,
  stderr_reader,
  stdin,          \* the contents of the three pipes
  stdout,
  stderr,
  child,          \* ffmpeg: "run" or "exited"
  held,           \* frames inside ffmpeg
  log,            \* ffmpeg has a line to write to stderr before it goes on
  parsed,         \* units (0 or 1) the parser holds back
  rx              \* the reader's messages

engineVars == <<phase, tx>>
writerVars == <<queue, hand, writer_error, writer, stdin>>
childVars == <<child, held, log>>
readerVars == <<reader, parsed, rx>>
errVars == <<stderr_reader, stderr>>
encVars == <<engineVars, writerVars, childVars, readerVars, errVars, stdout>>

Live == phase \in {"probe", "offer", "poll"}

(* Type invariant: the frame queue, the three pipes and what ffmpeg holds  *)
(* stay within their capacities (sync_channel and the pipes).              *)
EncoderTypeOK ==
  /\ phase \in {"off", "probe", "offer", "poll", "gone"}
  /\ tx \in BOOLEAN
  /\ queue \in 0..QUEUE
  /\ hand \in 0..1
  /\ writer_error \in BOOLEAN
  /\ writer \in BOOLEAN
  /\ reader \in BOOLEAN
  /\ stderr_reader \in BOOLEAN
  /\ stdin \in 0..PIPE
  /\ stdout \in 0..PIPE
  /\ stderr \in 0..PIPE
  /\ child \in {"run", "exited"}
  /\ held \in 0..HOLD
  /\ log \in BOOLEAN
  /\ parsed \in 0..1
  /\ rx \in Seq({"unit", "end", "err"})

EncoderInit ==
  /\ phase = "off"
  /\ tx = FALSE
  /\ queue = 0
  /\ hand = 0
  /\ writer_error = FALSE
  /\ writer = FALSE
  /\ reader = FALSE
  /\ stderr_reader = FALSE
  /\ stdin = 0
  /\ stdout = 0
  /\ stderr = 0
  /\ child = "exited"
  /\ held = 0
  /\ log = FALSE
  /\ parsed = 0
  /\ rx = <<>>

-----------------------------------------------------------------------------
(* The engine thread.                                                      *)

(* spawn, up to the probe.  ffmpeg may have something to say at once.      *)
SpawnOk ==
  /\ phase = "off"
  /\ phase' = "probe"
  /\ log' \in BOOLEAN
  /\ tx' = TRUE
  /\ child' = "run"
  /\ writer' = TRUE
  /\ reader' = TRUE
  /\ stderr_reader' = TRUE
  /\ UNCHANGED <<queue, hand, writer_error, stdin, stdout, stderr, held, parsed,
                 rx>>

(* A mutant of Teardown: the engine keeps an encoder that has failed.      *)
TeardownNot ==
  /\ phase' = "offer"
  /\ tx' = FALSE
  /\ UNCHANGED <<writerVars, childVars, readerVars, errVars, stdout>>

(* Drop for Encoder: the queue's sender goes, the child is killed (see     *)
(* ChildDies), threads that are still busy are detached, and the receiver  *)
(* goes with the encoder.                                                  *)
Teardown ==
  /\ phase' = "gone"
  /\ tx' = FALSE
  /\ UNCHANGED <<writerVars, childVars, readerVars, errVars, stdout>>

(* The end of spawn, thirty milliseconds later: a child that is still      *)
(* there is kept, no frame is asked of it.  One that is gone, its stderr   *)
(* thread joined, or cannot be asked is given up; start() goes on with the *)
(* next candidate.                                                         *)
ProbeOk ==
  /\ phase = "probe"
  /\ child = "run"
  /\ phase' = "offer"
  /\ UNCHANGED <<tx, writerVars, childVars, readerVars, errVars, stdout>>

ProbeFails ==
  /\ phase = "probe"
  /\ child = "exited" => ~stderr_reader
  /\ Teardown

(* A mutant of EncodeQueued: the engine does not poll after a frame.       *)
EncodeQueuedOnly ==
  /\ phase = "offer"
  /\ tx
  /\ ~writer_error
  /\ writer
  /\ queue < QUEUE
  /\ queue' = queue + 1
  /\ UNCHANGED <<engineVars, hand, writer_error, writer, stdin, childVars,
                 readerVars, errVars, stdout>>

(* encode(): a frame is offered to the queue and never waits: a full queue *)
(* drops it.                                                               *)
EncodeQueued ==
  /\ phase = "offer"
  /\ tx
  /\ ~writer_error
  /\ writer
  /\ queue < QUEUE
  /\ queue' = queue + 1
  /\ phase' = "poll"
  /\ UNCHANGED <<tx, hand, writer_error, writer, stdin, childVars, readerVars,
                 errVars, stdout>>

EncodeDropped ==
  /\ phase = "offer"
  /\ tx
  /\ ~writer_error
  /\ writer
  /\ queue = QUEUE
  /\ phase' = "poll"
  /\ UNCHANGED <<tx, writerVars, childVars, readerVars, errVars, stdout>>

(* The writer has left an error, or is gone and its queue closed.          *)
EncodeFails ==
  /\ phase = "offer"
  /\ ~tx \/ writer_error \/ ~writer
  /\ Teardown

(* next_access_unit_result, until there is nothing ready.                  *)
PollUnit ==
  /\ phase = "poll"
  /\ rx # <<>>
  /\ Head(rx) = "unit"
  /\ rx' = Tail(rx)
  /\ UNCHANGED <<engineVars, writerVars, childVars, reader, parsed, errVars,
                 stdout>>

PollEmpty ==
  /\ phase = "poll"
  /\ rx = <<>>
  /\ reader
  /\ phase' = "offer"
  /\ UNCHANGED <<tx, writerVars, childVars, readerVars, errVars, stdout>>

(* The reader's last message, or its channel closed without one.           *)
PollFails ==
  /\ phase = "poll"
  /\ IF rx = <<>> THEN ~reader ELSE Head(rx) # "unit"
  /\ Teardown

(* The engine drops a working encoder: a device joined, the geometry or    *)
(* the rate changed, the Wayland connection is replaced.                   *)
DropEncoder ==
  /\ phase = "offer"
  /\ Teardown

EngineStep ==
  \/ ProbeOk \/ ProbeFails
  \/ EncodeQueued \/ EncodeDropped \/ EncodeFails
  \/ PollUnit \/ PollEmpty \/ PollFails

-----------------------------------------------------------------------------
(* The writer thread.                                                      *)

WriterTakes ==
  /\ writer
  /\ hand = 0
  /\ queue > 0
  /\ queue' = queue - 1
  /\ hand' = 1
  /\ UNCHANGED <<engineVars, writer_error, writer, stdin, childVars,
                 readerVars, errVars, stdout>>

WriterWrites ==
  /\ writer
  /\ hand = 1
  /\ child = "run"
  /\ stdin < PIPE
  /\ stdin' = stdin + 1
  /\ hand' = 0
  /\ UNCHANGED <<engineVars, queue, writer_error, writer, childVars,
                 readerVars, errVars, stdout>>

(* A broken pipe.                                                          *)
WriterFails ==
  /\ writer
  /\ hand = 1
  /\ child = "exited"
  /\ writer_error' = TRUE
  /\ writer' = FALSE
  /\ UNCHANGED <<engineVars, queue, hand, stdin, childVars, readerVars,
                 errVars, stdout>>

(* The queue is closed and empty.                                          *)
WriterEnds ==
  /\ writer
  /\ hand = 0
  /\ queue = 0
  /\ ~tx
  /\ writer' = FALSE
  /\ UNCHANGED <<engineVars, queue, hand, writer_error, stdin, childVars,
                 readerVars, errVars, stdout>>

Writer == WriterTakes \/ WriterWrites \/ WriterFails \/ WriterEnds

-----------------------------------------------------------------------------
(* ffmpeg.  It may have something to say about a frame, and then waits for *)
(* room in the stderr pipe like for room in the stdout pipe.               *)

ChildReads ==
  /\ child = "run"
  /\ ~log
  /\ stdin > 0
  /\ held < HOLD
  /\ stdin' = stdin - 1
  /\ held' = held + 1
  /\ log' \in BOOLEAN
  /\ UNCHANGED <<engineVars, queue, hand, writer_error, writer, child,
                 readerVars, errVars, stdout>>

ChildLogs ==
  /\ child = "run"
  /\ log
  /\ stderr < PIPE
  /\ stderr' = stderr + 1
  /\ log' = FALSE
  /\ UNCHANGED <<engineVars, writerVars, child, held, readerVars,
                 stderr_reader, stdout>>

ChildWrites ==
  /\ child = "run"
  /\ ~log
  /\ held > 0
  /\ stdout < PIPE
  /\ held' = held - 1
  /\ stdout' = stdout + 1
  /\ UNCHANGED <<engineVars, writerVars, child, log, readerVars, errVars>>

(* It exits: killed, crashed, or at the end of its input.                  *)
ChildExits ==
  /\ child = "run"
  /\ child' = "exited"
  /\ stdin' = 0
  /\ held' = 0
  /\ log' = FALSE
  /\ UNCHANGED <<engineVars, queue, hand, writer_error, writer, readerVars,
                 errVars, stdout>>

(* A mutant of ChildDies: teardown only closes the queue.                  *)
ChildSpared == phase = "off" /\ ChildExits

(* The SIGKILL of stop_child_and_join takes effect.                        *)
ChildDies == phase = "gone" /\ ChildExits

ChildWorks == ChildReads \/ ChildLogs \/ ChildWrites

-----------------------------------------------------------------------------
(* The reader thread and the stderr thread.                                *)

(* tx.send to a receiver that is gone ends the thread.                     *)
SendOrEnd(msgs) ==
  IF phase = "gone"
  THEN reader' = FALSE /\ rx' = rx
  ELSE rx' = rx \o msgs /\ reader' = reader

(* A chunk of output: the parser lets go of a unit when the next begins.   *)
ReaderReads ==
  /\ reader
  /\ stdout > 0
  /\ stdout' = stdout - 1
  /\ parsed' = 1
  /\ IF parsed = 1 THEN SendOrEnd(<<"unit">>) ELSE UNCHANGED <<reader, rx>>
  /\ UNCHANGED <<engineVars, writerVars, childVars, errVars>>

(* Output that is not a valid stream, or a failed read.                    *)
ReaderFails ==
  /\ reader
  /\ stdout > 0
  /\ reader' = FALSE
  /\ stdout' = stdout - 1
  /\ rx' = IF phase = "gone" THEN rx ELSE Append(rx, "err")
  /\ UNCHANGED <<engineVars, writerVars, childVars, parsed, errVars>>

(* End of file: what the parser still holds, then the end, or an error.    *)
ReaderEnds ==
  /\ reader
  /\ stdout = 0
  /\ child = "exited"
  /\ reader' = FALSE
  /\ parsed' = 0
  /\ IF phase = "gone" THEN rx' = rx
     ELSE \/ rx' = rx \o (IF parsed = 1 THEN <<"unit", "end">> ELSE <<"end">>)
          \/ rx' = Append(rx, "err")
  /\ UNCHANGED <<engineVars, writerVars, childVars, errVars, stdout>>

Reader == ReaderReads \/ ReaderFails \/ ReaderEnds

(* A mutant of Drained: nobody reads stderr while the child runs.          *)
DrainedLate ==
  /\ stderr_reader
  /\ stderr > 0
  /\ child = "exited"
  /\ stderr' = stderr - 1
  /\ UNCHANGED <<engineVars, writerVars, childVars, readerVars, stderr_reader,
                 stdout>>

(* drain_stderr.                                                           *)
Drained ==
  /\ stderr_reader
  /\ stderr > 0
  /\ stderr' = stderr - 1
  /\ UNCHANGED <<engineVars, writerVars, childVars, readerVars, stderr_reader,
                 stdout>>

DrainEnds ==
  /\ stderr_reader
  /\ stderr = 0
  /\ child = "exited"
  /\ stderr_reader' = FALSE
  /\ UNCHANGED <<engineVars, writerVars, childVars, readerVars, stderr, stdout>>

EncoderNext ==
  \/ SpawnOk \/ EngineStep \/ DropEncoder
  \/ Writer
  \/ ChildWorks \/ ChildExits
  \/ Reader
  \/ Drained \/ DrainEnds

(* Threads run, a streaming engine keeps capturing, a killed child dies,   *)
(* and ffmpeg does its work unless a pipe stops it.                        *)
EncoderSpec ==
  /\ EncoderInit /\ [][EncoderNext]_encVars
  /\ WF_encVars(EngineStep)
  /\ WF_encVars(Writer)
  /\ WF_encVars(Reader)
  /\ WF_encVars(Drained \/ DrainEnds)
  /\ WF_encVars(ChildWorks)
  /\ WF_encVars(ChildDies)

-----------------------------------------------------------------------------
(* Properties.                                                             *)

(* The reader's channel has no limit of its own, and still never holds     *)
(* more than the queue, the pipes and ffmpeg can: the engine empties it    *)
(* between two frames.                                                     *)
BacklogBounded == Len(rx) <= QUEUE + 2 * PIPE + HOLD + 4

(* Nobody waits for anybody for ever: an encoder that stays in use, with a *)
(* child that stays alive, delivers access units again and again, although *)
(* the child blocks on three finite pipes.                                 *)
KeepsDelivering ==
  <>[](Live /\ child = "run") => []<><<PollUnit>>_encVars

(* A child that dies takes its encoder with it: the error reaches the      *)
(* engine, through the writer or through the reader, and is not mistaken   *)
(* for an encoder with nothing ready.                                      *)
FailureSurfaces == (Live /\ child = "exited") ~> (phase = "gone")

(* After the drop every helper thread ends, those that were detached too.  *)
HelpersEnd ==
  (phase = "gone") ~> (~writer /\ ~reader /\ ~stderr_reader)

=============================================================================
