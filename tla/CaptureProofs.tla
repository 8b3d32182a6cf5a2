--------------------------- MODULE CaptureProofs ----------------------------
(***************************************************************************)
(* Capturing, for images of any size, any number of captures and turns of  *)
(* the output, and any order in which the compositor's events and the      *)
(* deadlines come: memory is released on every path, and a capture that no *)
(* earlier one disturbs returns its own frame, upright.                    *)
(***************************************************************************)
EXTENDS Capture, SequenceTheorems, TLAPS

-----------------------------------------------------------------------------
(* Pixels.  A compositor turns a picture by mirrorings and quarter turns;  *)
(* frame.rs has a formula for each transform.                              *)

(* A place in an image, and the size of the image.                         *)
Spot(x, y, w, h) == [x |-> x, y |-> y, w |-> w, h |-> h]

LEMMA Places ==
  ASSUME NEW x, NEW y, NEW w, NEW h
  PROVE  /\ Spot(x, y, w, h).x = x /\ Spot(x, y, w, h).y = y
         /\ Spot(x, y, w, h).w = w /\ Spot(x, y, w, h).h = h
         /\ Mirrored(Spot(x, y, w, h)) = Spot(w - 1 - x, y, w, h)
         /\ Inverted(Spot(x, y, w, h)) = Spot(x, h - 1 - y, w, h)
         /\ Quarter(Spot(x, y, w, h)) = Spot(y, w - 1 - x, h, w)
<1> DEFINE s == Spot(x, y, w, h)
<1>1. s.x = x /\ s.y = y /\ s.w = w /\ s.h = h
  BY DEF Spot
<1>2. s = [x |-> x, y |-> y, w |-> w, h |-> h]
  BY DEF Spot
<1> HIDE DEF s
<1>3. [s EXCEPT !.x = s.w - 1 - s.x] = Spot(w - 1 - x, y, w, h)
  BY <1>1, <1>2 DEF Spot
<1>4. [s EXCEPT !.y = s.h - 1 - s.y] = Spot(x, h - 1 - y, w, h)
  BY <1>1, <1>2 DEF Spot
<1> QED
  BY <1>1, <1>3, <1>4 DEF s, Mirrored, Inverted, Quarter, Spot

LEMMA ForwardIs ==
  ASSUME NEW x, NEW y, NEW w, NEW h
  PROVE  /\ forward("Normal", x, y, w, h) = <<x, y>>
         /\ forward("_90", x, y, w, h) = <<y, w - 1 - x>>
         /\ forward("_180", x, y, w, h) = <<w - 1 - x, h - 1 - y>>
         /\ forward("_270", x, y, w, h) = <<h - 1 - y, x>>
         /\ forward("Flipped", x, y, w, h) = <<w - 1 - x, y>>
         /\ forward("Flipped90", x, y, w, h) = <<y, x>>
         /\ forward("Flipped180", x, y, w, h) = <<x, h - 1 - y>>
         /\ forward("Flipped270", x, y, w, h) = <<h - 1 - y, w - 1 - x>>
BY Zenon DEF forward

LEMMA TurnedIs ==
  ASSUME NEW s
  PROVE  /\ Turned("Normal", s) = s
         /\ Turned("_90", s) = Quarter(s)
         /\ Turned("_180", s) = Quarter(Quarter(s))
         /\ Turned("_270", s) = Quarter(Quarter(Quarter(s)))
         /\ Turned("Flipped", s) = Mirrored(s)
         /\ Turned("Flipped90", s) = Quarter(Mirrored(s))
         /\ Turned("Flipped180", s) = Quarter(Quarter(Mirrored(s)))
         /\ Turned("Flipped270", s) = Quarter(Quarter(Quarter(Mirrored(s))))
BY Zenon DEF Turned

(* The formulas of frame.rs find each pixel where the compositor put it,   *)
(* and swap the sides of the image back, for all eight transforms.         *)
LEMMA UntransformFinds ==
  ASSUME NEW t \in Transforms, NEW w \in Int, NEW h \in Int,
         NEW x \in Int, NEW y \in Int
  PROVE  \E a, b, c, d \in Int :
           /\ Turned(t, Spot(x, y, w, h)) = Spot(a, b, c, d)
           /\ UprightSize(t, c, d) = <<w, h>>
           /\ untransform(<<x, y>>, c, d, t) = <<a, b>>
<1> DEFINE X == w - 1 - x
           Y == h - 1 - y
           Lands(a, b, c, d) ==
             /\ Turned(t, Spot(x, y, w, h)) = Spot(a, b, c, d)
             /\ UprightSize(t, c, d) = <<w, h>>
             /\ untransform(<<x, y>>, c, d, t) = <<a, b>>
<1>1. X \in Int /\ Y \in Int /\ w - 1 - X = x
  OBVIOUS
<1> USE DEF UprightSize, untransform, swaps_axes
<1>2. CASE t = "Normal"
  <2>1. Lands(x, y, w, h)
    BY <1>1, <1>2, TurnedIs, Places, ForwardIs
  <2> QED
    BY <1>1, <2>1, ZenonT(60)
<1>3. CASE t = "_90"
  <2>1. Lands(y, X, h, w)
    BY <1>1, <1>3, TurnedIs, Places, ForwardIs
  <2> QED
    BY <1>1, <2>1, ZenonT(60)
<1>4. CASE t = "_180"
  <2>1. Lands(X, Y, w, h)
    BY <1>1, <1>4, TurnedIs, Places, ForwardIs
  <2> QED
    BY <1>1, <2>1, ZenonT(60)
<1>5. CASE t = "_270"
  <2>1. Lands(Y, x, h, w)
    BY <1>1, <1>5, TurnedIs, Places, ForwardIs
  <2> QED
    BY <1>1, <2>1, ZenonT(60)
<1>6. CASE t = "Flipped"
  <2>1. Lands(X, y, w, h)
    BY <1>1, <1>6, TurnedIs, Places, ForwardIs
  <2> QED
    BY <1>1, <2>1, ZenonT(60)
<1>7. CASE t = "Flipped90"
  <2>1. Lands(y, x, h, w)
    BY <1>1, <1>7, TurnedIs, Places, ForwardIs
  <2> QED
    BY <1>1, <2>1, ZenonT(60)
<1>8. CASE t = "Flipped180"
  <2>1. Lands(x, Y, w, h)
    BY <1>1, <1>8, TurnedIs, Places, ForwardIs
  <2> QED
    BY <1>1, <2>1, ZenonT(60)
<1>9. CASE t = "Flipped270"
  <2>1. Lands(Y, X, h, w)
    BY <1>1, <1>9, TurnedIs, Places, ForwardIs
  <2> QED
    BY <1>1, <2>1, ZenonT(60)
<1> QED
  BY <1>2, <1>3, <1>4, <1>5, <1>6, <1>7, <1>8, <1>9 DEF Transforms

(* decode() takes the byte layouts apart the way the formats put them      *)
(* together: an opaque colour comes out as it went in.                     *)
LEMMA ReverseWord ==
  ASSUME NEW a, NEW b, NEW c, NEW d
  PROVE  Reverse(<<a, b, c, d>>) = <<d, c, b, a>>
BY DEF Reverse

LEMMA ConvertIs ==
  ASSUME NEW a, NEW b, NEW c, NEW d
  PROVE  /\ convert("Argb8888", <<a, b, c, d>>) = <<c, b, a, d>>
         /\ convert("Xrgb8888", <<a, b, c, d>>) = <<c, b, a, 255>>
         /\ convert("Xbgr8888", <<a, b, c, d>>) = <<a, b, c, 255>>
         /\ convert("Rgba8888", <<a, b, c, d>>) = <<d, c, b, a>>
<1> DEFINE w == <<a, b, c, d>>
<1>1. w[1] = a /\ w[2] = b /\ w[3] = c /\ w[4] = d
  OBVIOUS
<1> HIDE DEF w
<1>2. /\ convert("Argb8888", w) = <<w[3], w[2], w[1], w[4]>>
      /\ convert("Xrgb8888", w) = <<w[3], w[2], w[1], 255>>
      /\ convert("Xbgr8888", w) = <<w[1], w[2], w[3], 255>>
      /\ convert("Rgba8888", w) = <<w[4], w[3], w[2], w[1]>>
  BY Zenon DEF convert
<1> QED
  BY <1>1, <1>2 DEF w

LEMMA WordIs ==
  ASSUME NEW p
  PROVE  /\ Word("Argb8888", p) = Reverse(<<p[4], p[1], p[2], p[3]>>)
         /\ Word("Xrgb8888", p) = Reverse(<<0, p[1], p[2], p[3]>>)
         /\ Word("Xbgr8888", p) = Reverse(<<0, p[3], p[2], p[1]>>)
         /\ Word("Rgba8888", p) = Reverse(<<p[1], p[2], p[3], p[4]>>)
BY Zenon DEF Word

LEMMA ConvertInverts ==
  ASSUME NEW f \in Supported
  PROVE  convert(f, Word(f, <<1, 2, 3, 255>>)) = <<1, 2, 3, 255>>
<1> DEFINE p == <<1, 2, 3, 255>>
<1>1. p[1] = 1 /\ p[2] = 2 /\ p[3] = 3 /\ p[4] = 255
  OBVIOUS
<1> HIDE DEF p
<1>2. /\ Word("Argb8888", p) = <<3, 2, 1, 255>>
      /\ Word("Xrgb8888", p) = <<3, 2, 1, 0>>
      /\ Word("Xbgr8888", p) = <<1, 2, 3, 0>>
      /\ Word("Rgba8888", p) = <<255, 3, 2, 1>>
  <2>1. /\ Word("Argb8888", p) = Reverse(<<255, 1, 2, 3>>)
        /\ Word("Xrgb8888", p) = Reverse(<<0, 1, 2, 3>>)
        /\ Word("Xbgr8888", p) = Reverse(<<0, 3, 2, 1>>)
        /\ Word("Rgba8888", p) = Reverse(<<1, 2, 3, 255>>)
    BY <1>1, WordIs
  <2> QED
    BY <2>1, ReverseWord
<1> QED
  BY <1>2, ConvertIs DEF Supported, p

(* So whatever the transform, the inversion, the padding, the format and   *)
(* the size of the image, decode, flip_rows and untransform read back      *)
(* upright, every pixel in its colours, what the compositor wrote.         *)
THEOREM ReadBack ==
  ASSUME NEW t \in Transforms, NEW inv \in BOOLEAN, NEW pad \in Nat,
         format \in Supported
  PROVE  ReadsUpright(Frame(t, inv), pad, t, inv)
<1>1. Frame(t, inv).turned = t /\ Frame(t, inv).y_invert = inv
  BY DEF Frame
<1> DEFINE w == Frame(t, inv)
           shown(x, y) ==
             Turned(w.turned, [x |-> x, y |-> y, w |-> Width, h |-> Height])
           spot(x, y) == IF w.y_invert THEN Inverted(shown(x, y)) ELSE shown(x, y)
           from(x, y) == untransform(<<x, y>>, spot(x, y).w, spot(x, y).h, t)
<1> SUFFICES ASSUME NEW x \in 0..(Width - 1), NEW y \in 0..(Height - 1)
    PROVE /\ UprightSize(t, spot(x, y).w, spot(x, y).h) = <<Width, Height>>
          /\ decode(IF inv THEN flip_rows(from(x, y), spot(x, y).h)
                    ELSE from(x, y), spot(x, y).w + pad)
               = spot(x, y).y * (spot(x, y).w + pad) + spot(x, y).x
          /\ convert(format, Word(format, <<1, 2, 3, 255>>)) = <<1, 2, 3, 255>>
  BY Zenon DEF ReadsUpright
<1>2. x \in Int /\ y \in Int /\ Width \in Int /\ Height \in Int
  BY CaptureAssumption
<1>3. PICK a, b, c, d \in Int :
        /\ Turned(t, Spot(x, y, Width, Height)) = Spot(a, b, c, d)
        /\ UprightSize(t, c, d) = <<Width, Height>>
        /\ untransform(<<x, y>>, c, d, t) = <<a, b>>
  BY <1>2, UntransformFinds
<1> DEFINE row == IF inv THEN d - 1 - b ELSE b
           p == spot(x, y)
<1>4. p.x = a /\ p.y = row /\ p.w = c /\ p.h = d
  <2>1. shown(x, y) = Spot(a, b, c, d)
    BY <1>1, <1>3 DEF Spot
  <2>2. p = IF inv THEN Inverted(Spot(a, b, c, d)) ELSE Spot(a, b, c, d)
    BY <1>1, <2>1, Zenon
  <2> QED
    BY <2>2, Places
<1> HIDE DEF p
<1>5. (IF inv THEN flip_rows(<<a, b>>, d) ELSE <<a, b>>) = <<a, row>>
  BY DEF flip_rows
<1>6. decode(<<a, row>>, c + pad) = row * (c + pad) + a
  BY DEF decode
<1>7. convert(format, Word(format, <<1, 2, 3, 255>>)) = <<1, 2, 3, 255>>
  BY ConvertInverts
<1>8. /\ UprightSize(t, p.w, p.h) = <<Width, Height>>
      /\ decode(IF inv THEN flip_rows(untransform(<<x, y>>, p.w, p.h, t), p.h)
                ELSE untransform(<<x, y>>, p.w, p.h, t), p.w + pad)
           = p.y * (p.w + pad) + p.x
  BY <1>3, <1>4, <1>5, <1>6
<1> QED
  BY <1>7, <1>8 DEF p

-----------------------------------------------------------------------------
(* The inductive invariant.                                                *)

Formats == UNION Offers

States ==
  [formats : SUBSET Formats, described : BOOLEAN, done : BOOLEAN,
   dmabuf : BOOLEAN, stopped : BOOLEAN, transform : Transforms,
   y_invert : BOOLEAN, ready : BOOLEAN, failed : BOOLEAN]

Buffers ==
  {NoMemory, Blank}
    \cup [is : {"frame"}, turned : Transforms, y_invert : BOOLEAN]

Signals == {"done", "dmabuf", "stopped", "ready", "failed"}

Events ==
  [of : Captures, is : {"formats"}, value : SUBSET Formats]
    \cup [of : Captures, is : Signals, value : {TRUE}]
    \cup [of : Captures, is : {"transform"}, value : Transforms]
    \cup [of : Captures, is : {"flags"}, value : BOOLEAN]
    \cup [of : {0}, is : {"geometry"}, value : Transforms]

(* Type correctness.                                                       *)
CaptureTypeOK ==
  /\ backend \in {"Ext", "Wlr"}
  /\ turned \in Transforms /\ known \in Transforms
  /\ transform \in Transforms /\ began \in Transforms
  /\ turns \in 0..MaxTurns
  /\ pc \in {"idle", "constraints", "frame"}
  /\ n \in 0..MaxCaptures
  /\ Waiting => n # 0
  /\ st \in States
  /\ wire \in Seq(Events)
  /\ comp \in [Captures -> {"none", "asked", "described", "copying", "answered"}]
  /\ memory \in [Captures -> Buffers]
  /\ result.ok \in BOOLEAN

(* What the compositor never says over this protocol.                      *)
Foreign ==
  IF backend = "Ext" THEN {"dmabuf", "flags"} ELSE {"stopped", "transform"}

BackendInv ==
  /\ \A i \in 1..Len(wire) : wire[i].is \notin Foreign
  /\ backend = "Ext" =>
       /\ ~st.y_invert
       /\ \A a \in Captures : memory[a].is = "frame" => ~memory[a].y_invert

(* How far the compositor is with the capture under way, and which         *)
(* captures there have been.                                               *)
ObjectsInv ==
  /\ \A a \in Captures : n < a => comp[a] = "none"
  /\ \A i \in 1..Len(wire) : wire[i].of <= n
  /\ Waiting => comp[n] # "none"
  /\ pc = "constraints" => comp[n] # "copying"
  /\ pc = "frame" => memory[n].is # "none"
  /\ pc = "frame" /\ memory[n].is = "frame" => comp[n] # "copying"

(* An event that describes the frame of the capture under way.             *)
Describes(e) == e.of = n /\ e.is \in {"transform", "flags"}

(* The compositor speaks of a frame of this capture once it has written    *)
(* it, and describes it as it wrote it.                                    *)
WireInv ==
  Waiting =>
    \A i \in 1..Len(wire) :
      /\ wire[i].of = n /\ wire[i].is \in {"ready", "transform", "flags"}
           => pc = "frame" /\ memory[n].is = "frame"
      /\ wire[i].of = n /\ wire[i].is = "transform"
           => wire[i].value = memory[n].turned
      /\ wire[i].of = n /\ wire[i].is = "flags"
           => wire[i].value = memory[n].y_invert

(* The description was received.                                           *)
Told ==
  IF backend = "Ext" THEN st.transform = memory[n].turned
  ELSE st.y_invert = memory[n].y_invert

(* Unless an earlier capture left objects behind, `ready` comes after the  *)
(* description, and is the word of this capture's frame.                   *)
ReadyInv ==
  Waiting /\ Litter = {} =>
    /\ \A i \in 1..Len(wire) :
         wire[i].of = n /\ wire[i].is = "ready"
           => Told \/ \E j \in 1..(i - 1) : Describes(wire[j])
    /\ st.ready => pc = "frame" /\ memory[n].is = "frame" /\ Told

ResultInv ==
  /\ result.ok => pc = "idle" /\ n # 0
  /\ OwnFrame
  /\ Upright

CaptureInv ==
  /\ CaptureTypeOK
  /\ BackendInv
  /\ ObjectsInv
  /\ WireInv
  /\ ReadyInv
  /\ ResultInv
  /\ Released

-----------------------------------------------------------------------------
(* Events, buffers and states.                                             *)

LEMMA BufferIs ==
  /\ NoMemory \in Buffers /\ Blank \in Buffers
  /\ NoMemory.is = "none" /\ Blank.is = "blank"
  /\ \A m \in Buffers :
       /\ m.is \in {"none", "blank", "frame"}
       /\ m.is = "none" => m = NoMemory
       /\ m.is = "blank" => m = Blank
       /\ m.is = "frame" => /\ m.turned \in Transforms
                            /\ m.y_invert \in BOOLEAN
                            /\ m = Frame(m.turned, m.y_invert)
  /\ \A t \in Transforms, inv \in BOOLEAN :
       /\ Frame(t, inv) \in Buffers
       /\ Frame(t, inv).is = "frame"
       /\ Frame(t, inv).turned = t
       /\ Frame(t, inv).y_invert = inv
<1>1. NoMemory.is = "none" /\ Blank.is = "blank"
  BY DEF NoMemory, Blank
<1>2. \A t \in Transforms, inv \in BOOLEAN :
        /\ Frame(t, inv).is = "frame"
        /\ Frame(t, inv).turned = t
        /\ Frame(t, inv).y_invert = inv
  BY DEF Frame
<1>3. /\ NoMemory \in Buffers /\ Blank \in Buffers
      /\ \A t \in Transforms, inv \in BOOLEAN : Frame(t, inv) \in Buffers
  BY DEF Buffers, Frame
<1>4. ASSUME NEW m \in Buffers
      PROVE  /\ m.is \in {"none", "blank", "frame"}
             /\ m.is = "none" => m = NoMemory
             /\ m.is = "blank" => m = Blank
             /\ m.is = "frame" => /\ m.turned \in Transforms
                                  /\ m.y_invert \in BOOLEAN
                                  /\ m = Frame(m.turned, m.y_invert)
  <2>1. CASE m = NoMemory
    BY <1>1, <2>1
  <2>2. CASE m = Blank
    BY <1>1, <2>2
  <2>3. CASE m \in [is : {"frame"}, turned : Transforms, y_invert : BOOLEAN]
    BY <2>3 DEF Frame
  <2> QED
    BY <2>1, <2>2, <2>3 DEF Buffers
<1> QED
  BY <1>1, <1>2, <1>3, <1>4

LEMMA EventIs ==
  ASSUME NEW a, NEW is, NEW value
  PROVE  /\ Event(a, is, value).of = a
         /\ Event(a, is, value).is = is
         /\ Event(a, is, value).value = value
BY DEF Event

(* An event without a value.                                               *)
Signal(a, s) == Event(a, s, TRUE)

LEMMA SignalIs ==
  ASSUME NEW a \in Captures, NEW s \in Signals
  PROVE  Signal(a, s) \in Events /\ Signal(a, s).of = a /\ Signal(a, s).is = s
BY DEF Signal, Event, Events

LEMMA EventsHave ==
  /\ \A a \in Captures, f \in SUBSET Formats : Event(a, "formats", f) \in Events
  /\ \A a \in Captures, t \in Transforms : Event(a, "transform", t) \in Events
  /\ \A a \in Captures, inv \in BOOLEAN : Event(a, "flags", inv) \in Events
  /\ \A t \in Transforms : Event(0, "geometry", t) \in Events
BY DEF Events, Event

LEMMA EventsAre ==
  ASSUME NEW e \in Events
  PROVE  /\ e.of \in Nat
         /\ e.is = "geometry" => e.value \in Transforms
         /\ e.is # "geometry" => e.of \in Captures
         /\ e.is = "formats" => e.value \in SUBSET Formats
         /\ e.is = "transform" => e.value \in Transforms
         /\ e.is = "flags" => e.value \in BOOLEAN
         /\ e.is \in {"geometry", "formats", "transform", "flags"} \cup Signals
<1>1. MaxCaptures \in Nat
  BY CaptureAssumption
<1>2. CASE e \in [of : Captures, is : {"formats"}, value : SUBSET Formats]
  BY <1>1, <1>2 DEF Captures
<1>3. CASE e \in [of : Captures, is : Signals, value : {TRUE}]
  BY <1>1, <1>3 DEF Captures, Signals
<1>4. CASE e \in [of : Captures, is : {"transform"}, value : Transforms]
  BY <1>1, <1>4 DEF Captures
<1>5. CASE e \in [of : Captures, is : {"flags"}, value : BOOLEAN]
  BY <1>1, <1>5 DEF Captures
<1>6. CASE e \in [of : {0}, is : {"geometry"}, value : Transforms]
  BY <1>6
<1> QED
  BY <1>2, <1>3, <1>4, <1>5, <1>6 DEF Events

(* What the wire holds after it was added to, or after a dispatch.         *)
LEMMA WireGrows ==
  ASSUME NEW S, NEW w \in Seq(S), NEW m \in Seq(S)
  PROVE  /\ w \o m \in Seq(S)
         /\ Len(w \o m) = Len(w) + Len(m)
         /\ \A i \in 1..Len(w) : (w \o m)[i] = w[i]
         /\ \A i \in 1..Len(m) : (w \o m)[Len(w) + i] = m[i]
         /\ \A i \in 1..Len(w \o m) :
              i \in 1..Len(w) \/ \E j \in 1..Len(m) : i = Len(w) + j
<1>1. Len(w) \in Nat /\ Len(m) \in Nat
  OBVIOUS
<1>2. w \o m \in Seq(S) /\ Len(w \o m) = Len(w) + Len(m)
  OBVIOUS
<1>3. \A i \in 1..Len(w) : (w \o m)[i] = w[i]
  BY <1>1
<1>4. \A i \in 1..Len(m) : (w \o m)[Len(w) + i] = m[i]
  BY <1>1
<1>5. ASSUME NEW i \in 1..Len(w \o m), i \notin 1..Len(w)
      PROVE \E j \in 1..Len(m) : i = Len(w) + j
  <2>1. i - Len(w) \in 1..Len(m) /\ i = Len(w) + (i - Len(w))
    BY <1>1, <1>2, <1>5
  <2> QED
    BY <2>1
<1> QED
  BY <1>2, <1>3, <1>4, <1>5

LEMMA WireShrinks ==
  ASSUME NEW S, NEW w \in Seq(S), w # <<>>
  PROVE  /\ Tail(w) \in Seq(S)
         /\ Head(w) = w[1] /\ 1 \in 1..Len(w) /\ Head(w) \in S
         /\ Len(Tail(w)) = Len(w) - 1
         /\ \A i \in 1..Len(Tail(w)) :
              i + 1 \in 1..Len(w) /\ Tail(w)[i] = w[i + 1]
<1>1. Len(w) \in Nat /\ Len(w) # 0
  OBVIOUS
<1>2. Tail(w) \in Seq(S) /\ Len(Tail(w)) = Len(w) - 1
  BY <1>1
<1> QED
  BY <1>1, <1>2

LEMMA ExtAppliesIs ==
  ASSUME NEW s, NEW e
  PROVE  /\ e.is = "formats"
              => ExtApplies(s, e) = [s EXCEPT !.formats = @ \cup e.value]
         /\ e.is = "done" => ExtApplies(s, e) = [s EXCEPT !.done = TRUE]
         /\ e.is = "stopped" => ExtApplies(s, e) = [s EXCEPT !.stopped = TRUE]
         /\ e.is = "transform"
              => ExtApplies(s, e) = [s EXCEPT !.transform = e.value]
         /\ e.is = "ready" => ExtApplies(s, e) = [s EXCEPT !.ready = TRUE]
         /\ e.is = "failed" => ExtApplies(s, e) = [s EXCEPT !.failed = TRUE]
BY Zenon DEF ExtApplies

LEMMA WlrAppliesIs ==
  ASSUME NEW s, NEW e
  PROVE  /\ e.is = "formats"
              => WlrApplies(s, e) = [s EXCEPT !.formats = e.value,
                                              !.described = TRUE]
         /\ e.is = "done" => WlrApplies(s, e) = [s EXCEPT !.done = TRUE]
         /\ e.is = "dmabuf" => WlrApplies(s, e) = [s EXCEPT !.dmabuf = TRUE]
         /\ e.is = "flags" => WlrApplies(s, e) = [s EXCEPT !.y_invert = e.value]
         /\ e.is = "ready" => WlrApplies(s, e) = [s EXCEPT !.ready = TRUE]
         /\ e.is = "failed" => WlrApplies(s, e) = [s EXCEPT !.failed = TRUE]
BY Zenon DEF WlrApplies

(* A state with this transform and inversion, and not newly ready.         *)
Says(r, s, t, inv) ==
  /\ r \in States
  /\ r.ready => s.ready
  /\ r.transform = t
  /\ r.y_invert = inv

LEMMA FlagsSay ==
  ASSUME NEW s \in States, NEW v \in BOOLEAN
  PROVE  /\ Says([s EXCEPT !.done = v], s, s.transform, s.y_invert)
         /\ Says([s EXCEPT !.stopped = v], s, s.transform, s.y_invert)
         /\ Says([s EXCEPT !.failed = v], s, s.transform, s.y_invert)
         /\ Says([s EXCEPT !.dmabuf = v], s, s.transform, s.y_invert)
         /\ Says([s EXCEPT !.y_invert = v], s, s.transform, v)
         /\ \A f \in SUBSET Formats :
              Says([s EXCEPT !.formats = f, !.described = v], s, s.transform,
                   s.y_invert)
         /\ LET r == [s EXCEPT !.ready = v]
            IN  /\ r \in States
                /\ r.transform = s.transform
                /\ r.y_invert = s.y_invert
BY DEF Says, States

LEMMA DataSay ==
  ASSUME NEW s \in States
  PROVE  /\ \A f \in SUBSET Formats :
              Says([s EXCEPT !.formats = @ \cup f], s, s.transform, s.y_invert)
         /\ \A t \in Transforms :
              Says([s EXCEPT !.transform = t], s, t, s.y_invert)
BY DEF Says, States

LEMMA AppliesKeeps ==
  ASSUME backend \in {"Ext", "Wlr"}, NEW s \in States, NEW e \in Events,
         e.is # "geometry", e.is \notin Foreign
  PROVE  /\ e.is = "transform" => Says(Applies(s, e), s, e.value, s.y_invert)
         /\ e.is = "flags" => Says(Applies(s, e), s, s.transform, e.value)
         /\ e.is \notin {"transform", "flags", "ready"}
              => Says(Applies(s, e), s, s.transform, s.y_invert)
         /\ e.is = "ready" => /\ Applies(s, e) \in States
                              /\ Applies(s, e).transform = s.transform
                              /\ Applies(s, e).y_invert = s.y_invert
<1>1. /\ e.is = "formats" => e.value \in SUBSET Formats
      /\ e.is = "transform" => e.value \in Transforms
      /\ e.is = "flags" => e.value \in BOOLEAN
      /\ e.is \in {"formats", "transform", "flags"} \cup Signals
  BY EventsAre
<1>2. TRUE \in BOOLEAN
  OBVIOUS
<1>3. CASE backend = "Ext"
  <2>1. Applies(s, e) = ExtApplies(s, e)
    BY <1>3 DEF Applies
  <2>2. e.is \in {"formats", "done", "stopped", "transform", "ready", "failed"}
    BY <1>1, <1>3 DEF Foreign, Signals
  <2>3. CASE e.is = "formats"
    <3>1. Applies(s, e) = [s EXCEPT !.formats = @ \cup e.value]
      BY <2>1, <2>3, ExtAppliesIs, Zenon
    <3> QED
      BY <1>1, <1>2, <2>3, <3>1, DataSay, Zenon
  <2>4. CASE e.is = "done"
    <3>1. Applies(s, e) = [s EXCEPT !.done = TRUE]
      BY <2>1, <2>4, ExtAppliesIs, Zenon
    <3> QED
      BY <1>1, <1>2, <2>4, <3>1, FlagsSay, Zenon
  <2>5. CASE e.is = "stopped"
    <3>1. Applies(s, e) = [s EXCEPT !.stopped = TRUE]
      BY <2>1, <2>5, ExtAppliesIs, Zenon
    <3> QED
      BY <1>1, <1>2, <2>5, <3>1, FlagsSay, Zenon
  <2>6. CASE e.is = "transform"
    <3>1. Applies(s, e) = [s EXCEPT !.transform = e.value]
      BY <2>1, <2>6, ExtAppliesIs, Zenon
    <3> QED
      BY <1>1, <1>2, <2>6, <3>1, DataSay, Zenon
  <2>7. CASE e.is = "ready"
    <3>1. Applies(s, e) = [s EXCEPT !.ready = TRUE]
      BY <2>1, <2>7, ExtAppliesIs, Zenon
    <3> QED
      BY <1>1, <1>2, <2>7, <3>1, FlagsSay, Zenon
  <2>8. CASE e.is = "failed"
    <3>1. Applies(s, e) = [s EXCEPT !.failed = TRUE]
      BY <2>1, <2>8, ExtAppliesIs, Zenon
    <3> QED
      BY <1>1, <1>2, <2>8, <3>1, FlagsSay, Zenon
  <2> QED
    BY <2>2, <2>3, <2>4, <2>5, <2>6, <2>7, <2>8
<1>4. CASE backend = "Wlr"
  <2>1. Applies(s, e) = WlrApplies(s, e)
    BY <1>4 DEF Applies
  <2>2. e.is \in {"formats", "done", "dmabuf", "flags", "ready", "failed"}
    BY <1>1, <1>4 DEF Foreign, Signals
  <2>3. CASE e.is = "formats"
    <3>1. Applies(s, e) = [s EXCEPT !.formats = e.value, !.described = TRUE]
      BY <2>1, <2>3, WlrAppliesIs, Zenon
    <3> QED
      BY <1>1, <1>2, <2>3, <3>1, FlagsSay, ZenonT(60)
  <2>4. CASE e.is = "done"
    <3>1. Applies(s, e) = [s EXCEPT !.done = TRUE]
      BY <2>1, <2>4, WlrAppliesIs, Zenon
    <3> QED
      BY <1>1, <1>2, <2>4, <3>1, FlagsSay, Zenon
  <2>5. CASE e.is = "dmabuf"
    <3>1. Applies(s, e) = [s EXCEPT !.dmabuf = TRUE]
      BY <2>1, <2>5, WlrAppliesIs, Zenon
    <3> QED
      BY <1>1, <1>2, <2>5, <3>1, FlagsSay, Zenon
  <2>6. CASE e.is = "flags"
    <3>1. Applies(s, e) = [s EXCEPT !.y_invert = e.value]
      BY <2>1, <2>6, WlrAppliesIs, Zenon
    <3> QED
      BY <1>1, <1>2, <2>6, <3>1, FlagsSay, Zenon
  <2>7. CASE e.is = "ready"
    <3>1. Applies(s, e) = [s EXCEPT !.ready = TRUE]
      BY <2>1, <2>7, WlrAppliesIs, Zenon
    <3> QED
      BY <1>1, <1>2, <2>7, <3>1, FlagsSay, Zenon
  <2>8. CASE e.is = "failed"
    <3>1. Applies(s, e) = [s EXCEPT !.failed = TRUE]
      BY <2>1, <2>8, WlrAppliesIs, Zenon
    <3> QED
      BY <1>1, <1>2, <2>8, <3>1, FlagsSay, Zenon
  <2> QED
    BY <2>2, <2>3, <2>4, <2>5, <2>6, <2>7, <2>8
<1> QED
  BY <1>3, <1>4

-----------------------------------------------------------------------------
(* The steps.                                                              *)

(* Events that are not of a frame, for objects there are.                  *)
Talk ==
  {e \in Events : /\ e.of <= n
                  /\ e.is \notin {"ready", "transform", "flags"} \cup Foreign}

(* What a compositor may do that is not writing a frame.                   *)
LEMMA SpeakingKeeps ==
  ASSUME CaptureInv, NEW m \in Seq(Talk),
         wire' = wire \o m,
         comp' \in [Captures -> {"none", "asked", "described", "copying",
                                 "answered"}],
         \A a \in Captures : comp'[a] = "none" <=> comp[a] = "none",
         \A a \in Captures : comp'[a] = "copying" => comp[a] = "copying",
         turned' \in Transforms, turns' \in 0..MaxTurns,
         UNCHANGED <<backend, known, clientVars, st, memory>>
  PROVE  CaptureInv'
<1>1. UNCHANGED <<backend, known, pc, n, began, format, result, transform, st,
                  memory>>
  BY DEF clientVars
<1>2. /\ wire' \in Seq(Events)
      /\ \A i \in 1..Len(wire) : i \in 1..Len(wire') /\ wire'[i] = wire[i]
      /\ \A i \in 1..Len(wire') :
           \/ i \in 1..Len(wire) /\ wire'[i] = wire[i]
           \/ wire'[i] \in Talk
  <2>1. m \in Seq(Events) /\ \A j \in 1..Len(m) : m[j] \in Talk
    BY SeqMonotonic, ElementOfSeq DEF Talk
  <2> QED
    BY <2>1, WireGrows DEF CaptureInv, CaptureTypeOK
<1>3. n \in Nat /\ (Waiting => n \in Captures) /\ (n # 0 => n \in Captures)
  BY CaptureAssumption DEF CaptureInv, CaptureTypeOK, Captures
<1>4. Litter' = Litter
  BY <1>1 DEF Litter
<1>5. CaptureTypeOK'
  BY <1>1, <1>2 DEF CaptureInv, CaptureTypeOK, Waiting
<1>6. BackendInv'
  BY <1>1, <1>2 DEF CaptureInv, BackendInv, Foreign, Talk
<1>7. ObjectsInv'
  BY <1>1, <1>2, <1>3 DEF CaptureInv, ObjectsInv, Waiting, Talk
<1>8. WireInv'
  BY <1>1, <1>2 DEF CaptureInv, WireInv, Waiting, Talk
<1>9. ReadyInv'
  <2> SUFFICES ASSUME Waiting, Litter = {}
      PROVE (/\ \A i \in 1..Len(wire) :
                  wire[i].of = n /\ wire[i].is = "ready"
                    => Told \/ \E j \in 1..(i - 1) : Describes(wire[j])
             /\ st.ready => pc = "frame" /\ memory[n].is = "frame" /\ Told)'
    BY <1>1, <1>4 DEF ReadyInv, Waiting
  <2>1. Told' = Told
    BY <1>1 DEF Told
  <2>2. ASSUME NEW i \in 1..Len(wire'), wire'[i].of = n, wire'[i].is = "ready"
        PROVE Told \/ \E j \in 1..(i - 1) : Describes(wire[j])'
    <3>1. i \in 1..Len(wire) /\ wire'[i] = wire[i]
      BY <1>2, <2>2 DEF Talk
    <3>2. Told \/ \E j \in 1..(i - 1) : Describes(wire[j])
      BY <2>2, <3>1 DEF CaptureInv, ReadyInv
    <3>3. \A j \in 1..(i - 1) : j \in 1..Len(wire)
      BY <3>1
    <3> QED
      BY <1>1, <1>2, <3>2, <3>3 DEF Describes
  <2> QED
    BY <1>1, <2>1, <2>2 DEF CaptureInv, ReadyInv
<1>10. ResultInv'
  BY <1>1, <1>4 DEF CaptureInv, ResultInv, OwnFrame, Upright
<1>11. Released'
  BY <1>1, <1>3 DEF CaptureInv, Released, ResultInv
<1> QED
  BY <1>5, <1>6, <1>7, <1>8, <1>9, <1>10, <1>11 DEF CaptureInv

LEMMA CompKinds ==
  ASSUME CaptureInv, NEW a \in Captures
  PROVE  /\ comp[a] # "none" => a <= n
         /\ 0 <= n
BY CaptureAssumption DEF CaptureInv, CaptureTypeOK, ObjectsInv, Captures

LEMMA DescribeKeeps ==
  ASSUME CaptureInv, NEW a \in Captures, Describe(a)
  PROVE  CaptureInv'
<1>1. /\ comp[a] = "asked"
      /\ comp' = [comp EXCEPT ![a] = "described"]
      /\ UNCHANGED <<backend, selected, turnVars, known, clientVars, st, memory>>
  BY DEF Describe
<1>2. /\ comp' \in [Captures -> {"none", "asked", "described", "copying",
                                 "answered"}]
      /\ \A b \in Captures : comp'[b] = "none" <=> comp[b] = "none"
      /\ \A b \in Captures : comp'[b] = "copying" => comp[b] = "copying"
      /\ turned' \in Transforms /\ turns' \in 0..MaxTurns
  BY <1>1 DEF CaptureInv, CaptureTypeOK, turnVars
<1>3. a <= n
  BY <1>1, CompKinds
<1>4. /\ \A f \in SUBSET Formats : Event(a, "formats", f) \in Talk
      /\ Signal(a, "done") \in Talk
      /\ backend # "Ext" => Signal(a, "dmabuf") \in Talk
  BY <1>3, EventsHave, EventIs, SignalIs DEF Talk, Foreign, Signals
<1>5. PICK offer \in Offers :
        IF backend = "Ext"
        THEN wire' = wire \o <<Event(a, "formats", offer),
                               Signal(a, "done")>>
        ELSE \/ \E f \in offer :
                  wire' = wire \o <<Event(a, "formats", {f}),
                                    Signal(a, "dmabuf"),
                                    Signal(a, "done")>>
             \/ wire' = wire \o <<Signal(a, "dmabuf"),
                                  Signal(a, "done")>>
  BY Zenon DEF Describe, Signal
<1>6. offer \in SUBSET Formats /\ \A f \in offer : {f} \in SUBSET Formats
  BY DEF Formats
<1>7. \E m \in Seq(Talk) : wire' = wire \o m
  <2>1. CASE backend = "Ext"
    <3>1. <<Event(a, "formats", offer), Signal(a, "done")>> \in Seq(Talk)
      BY <1>4, <1>6
    <3> QED
      BY <1>5, <2>1, <3>1
  <2>2. CASE backend # "Ext"
    <3>1. <<Signal(a, "dmabuf"), Signal(a, "done")>> \in Seq(Talk)
      BY <1>4, <2>2
    <3>2. \A f \in offer :
            <<Event(a, "formats", {f}), Signal(a, "dmabuf"), Signal(a, "done")>>
              \in Seq(Talk)
      BY <1>4, <1>6, <2>2
    <3> QED
      BY <1>5, <2>2, <3>1, <3>2
  <2> QED
    BY <2>1, <2>2
<1> QED
  BY <1>1, <1>2, <1>7, SpeakingKeeps

LEMMA RefuseKeeps ==
  ASSUME CaptureInv, NEW a \in Captures, Refuse(a)
  PROVE  CaptureInv'
<1>1. /\ comp[a] \in {"copying", "asked"}
      /\ comp' = [comp EXCEPT ![a] = "answered"]
      /\ wire' = Append(wire, Signal(a, "failed"))
      /\ UNCHANGED <<backend, selected, turnVars, known, clientVars, st, memory>>
  BY DEF Refuse, Signal
<1>2. /\ comp' \in [Captures -> {"none", "asked", "described", "copying",
                                 "answered"}]
      /\ \A b \in Captures : comp'[b] = "none" <=> comp[b] = "none"
      /\ \A b \in Captures : comp'[b] = "copying" => comp[b] = "copying"
      /\ turned' \in Transforms /\ turns' \in 0..MaxTurns
  BY <1>1 DEF CaptureInv, CaptureTypeOK, turnVars
<1>3. a <= n
  BY <1>1, CompKinds
<1>4. Signal(a, "failed") \in Talk
  BY <1>3, SignalIs DEF Talk, Foreign, Signals
<1>5. wire' = wire \o <<Signal(a, "failed")>>
  BY <1>1, <1>4, AppendIsConcat DEF CaptureInv, CaptureTypeOK, Talk
<1>6. <<Signal(a, "failed")>> \in Seq(Talk)
  BY <1>4
<1> QED
  BY <1>1, <1>2, <1>5, <1>6, SpeakingKeeps

LEMMA StopSessionKeeps ==
  ASSUME CaptureInv, NEW a \in Captures, StopSession(a)
  PROVE  CaptureInv'
<1> DEFINE f == IF comp[a] = "copying" THEN <<Signal(a, "failed")>> ELSE <<>>
           s == <<Signal(a, "stopped")>>
<1>1. /\ backend = "Ext"
      /\ comp[a] \in {"asked", "described", "copying"}
      /\ comp' = [comp EXCEPT ![a] = "answered"]
      /\ UNCHANGED <<backend, selected, turnVars, known, clientVars, st, memory>>
  BY DEF StopSession
<1>2. /\ comp' \in [Captures -> {"none", "asked", "described", "copying",
                                 "answered"}]
      /\ \A b \in Captures : comp'[b] = "none" <=> comp[b] = "none"
      /\ \A b \in Captures : comp'[b] = "copying" => comp[b] = "copying"
      /\ turned' \in Transforms /\ turns' \in 0..MaxTurns
  BY <1>1 DEF CaptureInv, CaptureTypeOK, turnVars
<1>3. a <= n
  BY <1>1, CompKinds
<1>4. Signal(a, "failed") \in Talk /\ Signal(a, "stopped") \in Talk
  BY <1>1, <1>3, SignalIs DEF Talk, Foreign, Signals
<1>5. f \in Seq(Talk) /\ s \in Seq(Talk)
  BY <1>4
<1>6. wire' = (wire \o f) \o s
  BY DEF StopSession, Signal
<1> HIDE DEF f, s
<1>7. wire' = wire \o (f \o s) /\ f \o s \in Seq(Talk)
  <2>1. f \in Seq(Events) /\ s \in Seq(Events)
    BY <1>5, SeqMonotonic DEF Talk
  <2> QED
    BY <1>5, <1>6, <2>1, ConcatAssociative, ConcatProperties, SMTT(60)
       DEF CaptureInv, CaptureTypeOK
<1> QED
  BY <1>1, <1>2, <1>7, SpeakingKeeps

LEMMA TurnKeeps ==
  ASSUME CaptureInv, NEW t \in TurnedTo, Turn(t)
  PROVE  CaptureInv'
<1>1. t \in Transforms /\ MaxTurns \in Nat
  BY CaptureAssumption
<1>2. /\ turned' \in Transforms /\ turns' \in 0..MaxTurns
      /\ UNCHANGED <<backend, known, clientVars, st, memory, comp>>
      /\ wire' = Append(wire, Event(0, "geometry", t))
  BY <1>1 DEF Turn, CaptureInv, CaptureTypeOK
<1>3. Event(0, "geometry", t) \in Talk
  <2>1. 0 <= n
    BY CaptureAssumption DEF CaptureInv, CaptureTypeOK
  <2> QED
    BY <1>1, <2>1, EventsHave, EventIs DEF Talk, Foreign
<1>4. <<Event(0, "geometry", t)>> \in Seq(Talk)
  BY <1>3
<1>5. wire' = wire \o <<Event(0, "geometry", t)>>
  BY <1>2, <1>3, AppendIsConcat DEF CaptureInv, CaptureTypeOK, Talk
<1>6. /\ comp' \in [Captures -> {"none", "asked", "described", "copying",
                                 "answered"}]
      /\ \A b \in Captures : comp'[b] = "none" <=> comp[b] = "none"
      /\ \A b \in Captures : comp'[b] = "copying" => comp[b] = "copying"
  BY <1>2 DEF CaptureInv, CaptureTypeOK
<1> QED
  BY <1>2, <1>4, <1>5, <1>6, SpeakingKeeps

(* The copy.  Only the buffer of the capture under way can be written, and *)
(* it has not been before.                                                 *)
LEMMA CopyKeeps ==
  ASSUME CaptureInv, NEW a \in Captures, Copy(a)
  PROVE  CaptureInv'
<1>1. PICK inv \in IF backend = "Wlr" THEN BOOLEAN ELSE {FALSE} :
        /\ memory' = IF memory[a] = NoMemory THEN memory
                     ELSE [memory EXCEPT ![a] = Frame(turned, inv)]
        /\ wire' = wire \o <<IF backend = "Ext"
                             THEN Event(a, "transform", turned)
                             ELSE Event(a, "flags", inv),
                             Signal(a, "ready")>>
  BY Zenon DEF Copy, Signal
<1> DEFINE d == IF backend = "Ext" THEN Event(a, "transform", turned)
                ELSE Event(a, "flags", inv)
           r == Signal(a, "ready")
<1>0. PICK k \in Nat : k = Len(wire)
  BY DEF CaptureInv, CaptureTypeOK
<1>2. /\ comp[a] = "copying" /\ comp' = [comp EXCEPT ![a] = "answered"]
      /\ UNCHANGED <<backend, turned, turns, known, pc, n, began, format,
                     result, transform, st>>
  BY DEF Copy, turnVars, clientVars
<1>3. /\ n \in Nat /\ a <= n /\ (Waiting => n \in Captures)
      /\ (n # 0 => n \in Captures) /\ turned \in Transforms /\ inv \in BOOLEAN
      /\ backend \in {"Ext", "Wlr"}
  <2>1. inv \in BOOLEAN
    BY <1>1
  <2> QED
    BY <1>2, <2>1, CompKinds, CaptureAssumption
       DEF CaptureInv, CaptureTypeOK, Captures, Waiting
<1>4. /\ d \in Events /\ d.of = a /\ d.is \notin Foreign
      /\ d.is \in {"transform", "flags"}
      /\ d.is = "transform" => d.value = turned
      /\ d.is = "flags" => d.value = inv
      /\ r \in Events /\ r.of = a /\ r.is = "ready" /\ r.is \notin Foreign
  BY <1>3, EventsHave, EventIs, SignalIs DEF Foreign, Signals
<1> HIDE DEF d, r
<1>5. /\ wire' \in Seq(Events)
      /\ Len(wire') = k + 2
      /\ \A i \in 1..k : wire'[i] = wire[i]
      /\ wire'[k + 1] = d /\ wire'[k + 2] = r
      /\ \A i \in 1..Len(wire') : i \in 1..k \/ i = k + 1 \/ i = k + 2
  BY <1>0, <1>1, <1>4 DEF CaptureInv, CaptureTypeOK, d, r
<1>6. /\ Waiting /\ a = n => /\ pc = "frame"
                             /\ memory[n].is = "blank"
                             /\ memory' = [memory EXCEPT ![n] = Frame(turned, inv)]
      /\ ~(Waiting /\ a = n) => memory' = memory
  <2>1. memory[a] = NoMemory \/ (a = n /\ pc = "frame")
    BY DEF CaptureInv, Released
  <2>2. memory[a] = NoMemory => memory' = memory
    BY <1>1
  <2>3. memory[a] # NoMemory => memory' = [memory EXCEPT ![a] = Frame(turned, inv)]
    BY <1>1
  <2>4. ASSUME Waiting, a = n
        PROVE pc = "frame" /\ memory[n].is = "blank" /\ memory[a] # NoMemory
    <3>1. pc = "frame" /\ memory[n].is # "none" /\ memory[n].is # "frame"
      BY <1>2, <2>4 DEF CaptureInv, ObjectsInv, Waiting
    <3> QED
      BY <2>4, <3>1, BufferIs DEF CaptureInv, CaptureTypeOK
  <2> QED
    BY <2>1, <2>2, <2>3, <2>4 DEF Waiting
<1>7. Litter' = Litter
  BY <1>2 DEF Litter, CaptureInv, CaptureTypeOK
<1>8. /\ memory' \in [Captures -> Buffers]
      /\ \A b \in Captures :
           \/ memory'[b] = memory[b]
           \/ b = n /\ Waiting /\ a = n /\ memory'[b] = Frame(turned, inv)
  <2>1. Frame(turned, inv) \in Buffers
    BY <1>3, BufferIs
  <2>2. CASE Waiting /\ a = n
    BY <1>6, <2>1, <2>2 DEF CaptureInv, CaptureTypeOK
  <2>3. CASE ~(Waiting /\ a = n)
    BY <1>6, <2>3 DEF CaptureInv, CaptureTypeOK
  <2> QED
    BY <2>2, <2>3
<1>9. /\ comp' \in [Captures -> {"none", "asked", "described", "copying",
                                 "answered"}]
      /\ \A b \in Captures : comp'[b] = IF b = a THEN "answered" ELSE comp[b]
  BY <1>2 DEF CaptureInv, CaptureTypeOK
<1>10. CaptureTypeOK'
  BY <1>2, <1>5, <1>8, <1>9 DEF CaptureInv, CaptureTypeOK, Waiting
<1>11. BackendInv'
  <2>1. \A i \in 1..Len(wire') : wire'[i].is \notin Foreign
    BY <1>0, <1>4, <1>5 DEF CaptureInv, BackendInv
  <2>2. ASSUME backend = "Ext", NEW b \in Captures, memory'[b].is = "frame"
        PROVE ~memory'[b].y_invert
    <3>1. inv = FALSE
      BY <2>2
    <3>2. CASE memory'[b] = memory[b]
      BY <2>2, <3>2 DEF CaptureInv, BackendInv
    <3>3. CASE memory'[b] = Frame(turned, inv)
      <4>1. memory'[b].y_invert = inv
        BY <1>3, <3>3, BufferIs
      <4> QED
        BY <3>1, <4>1
    <3> QED
      BY <1>8, <3>2, <3>3
  <2> QED
    BY <1>2, <2>1, <2>2 DEF CaptureInv, BackendInv, Foreign
<1>12. ObjectsInv'
  <2>1. \A b \in Captures : n < b => comp'[b] = "none"
    BY <1>3, <1>9 DEF CaptureInv, ObjectsInv, Captures
  <2>2. \A i \in 1..Len(wire') : wire'[i].of <= n
    BY <1>0, <1>3, <1>4, <1>5 DEF CaptureInv, ObjectsInv
  <2>3. ASSUME Waiting
        PROVE  /\ comp[n] # "none" => comp'[n] # "none"
               /\ comp'[n] = "copying" => comp[n] = "copying" /\ a # n
               /\ memory'[n].is = "none" => memory[n].is = "none"
               /\ a # n => memory'[n] = memory[n]
    BY <1>3, <1>8, <1>9, <2>3, BufferIs
  <2> QED
    BY <1>2, <2>1, <2>2, <2>3 DEF CaptureInv, ObjectsInv, Waiting
<1>13. WireInv'
  <2> SUFFICES ASSUME Waiting, NEW i \in 1..Len(wire'), wire'[i].of = n,
                      wire'[i].is \in {"ready", "transform", "flags"}
      PROVE /\ pc = "frame" /\ memory'[n].is = "frame"
            /\ wire'[i].is = "transform" => wire'[i].value = memory'[n].turned
            /\ wire'[i].is = "flags" => wire'[i].value = memory'[n].y_invert
    BY <1>2 DEF WireInv, Waiting
  <2>1. CASE i \in 1..k
    BY <1>0, <1>3, <1>5, <1>6, <2>1 DEF CaptureInv, WireInv
  <2>2. CASE i \in {k + 1, k + 2}
    <3>1. a = n
      BY <1>4, <1>5, <2>2
    <3>2. pc = "frame" /\ memory'[n] = Frame(turned, inv)
      BY <1>3, <1>6, <3>1 DEF CaptureInv, CaptureTypeOK
    <3> QED
      BY <1>3, <1>4, <1>5, <2>2, <3>2, BufferIs
  <2> QED
    BY <1>5, <2>1, <2>2
<1>14. ReadyInv'
  <2> SUFFICES ASSUME Waiting, Litter = {}
      PROVE (/\ \A i \in 1..Len(wire) :
                  wire[i].of = n /\ wire[i].is = "ready"
                    => Told \/ \E j \in 1..(i - 1) : Describes(wire[j])
             /\ st.ready => pc = "frame" /\ memory[n].is = "frame" /\ Told)'
    BY <1>2, <1>7 DEF ReadyInv, Waiting
  <2>1. a = n
    BY <1>2 DEF Litter
  <2>2. memory[n].is = "blank"
    BY <1>6, <2>1
  <2>3. ~st.ready /\ \A i \in 1..k : ~(wire[i].of = n /\ wire[i].is = "ready")
    BY <1>0, <2>2 DEF CaptureInv, ReadyInv, WireInv
  <2>4. Describes(wire[k + 1])' /\ k + 1 \in 1..(k + 2 - 1)
    BY <1>2, <1>4, <1>5, <2>1 DEF Describes
  <2> QED
    BY <1>2, <1>4, <1>5, <2>3, <2>4
<1>15. ResultInv'
  BY <1>2, <1>7 DEF CaptureInv, ResultInv, OwnFrame, Upright
<1>16. Released'
  <2>1. ASSUME NEW b \in Captures, memory'[b] # NoMemory
        PROVE b = n /\ pc = "frame"
    BY <1>6, <1>8, <2>1 DEF CaptureInv, Released
  <2>2. pc = "idle" /\ result.ok => comp'[n] = "none"
    BY <1>2, <1>3, <1>9 DEF CaptureInv, Released, ResultInv
  <2> QED
    BY <1>2, <2>1, <2>2 DEF Released
<1> QED
  BY <1>10, <1>11, <1>12, <1>13, <1>14, <1>15, <1>16 DEF CaptureInv

(* A capture begins with a clean state, and nothing said of it.            *)
LEMMA BeginKeeps ==
  ASSUME CaptureInv, Begin
  PROVE  CaptureInv'
<1>1. /\ pc = "idle" /\ n < MaxCaptures /\ n' = n + 1 /\ pc' = "constraints"
      /\ began' = known /\ transform' \in {known, transform}
      /\ result' = [ok |-> FALSE] /\ st' = Reset
      /\ comp' = [comp EXCEPT ![n + 1] = "asked"]
      /\ UNCHANGED <<backend, turned, turns, known, wire, memory>>
  BY DEF Begin, turnVars
<1>2. n \in Nat /\ n + 1 \in Captures /\ n' \in 0..MaxCaptures /\ n' # 0
  BY <1>1, CaptureAssumption DEF CaptureInv, CaptureTypeOK, Captures
<1>3. Reset \in States /\ ~Reset.ready /\ ~Reset.y_invert
  BY DEF Reset, States, Transforms
<1>4. result'.ok = FALSE
  BY <1>1
<1>5. /\ comp' \in [Captures -> {"none", "asked", "described", "copying",
                                 "answered"}]
      /\ \A a \in Captures : comp'[a] = IF a = n + 1 THEN "asked" ELSE comp[a]
  BY <1>1 DEF CaptureInv, CaptureTypeOK
<1>6. \A a \in Captures : memory[a] = NoMemory
  BY <1>1 DEF CaptureInv, Released
<1>7. \A i \in 1..Len(wire) : wire[i].of \in Nat /\ wire[i].of # n + 1
  <2>1. \A i \in 1..Len(wire) : wire[i] \in Events
    BY DEF CaptureInv, CaptureTypeOK
  <2> QED
    BY <1>2, <2>1, EventsAre DEF CaptureInv, ObjectsInv
<1>8. CaptureTypeOK'
  <2>1. result'.ok \in BOOLEAN
    BY <1>4
  <2> QED
    BY <1>1, <1>2, <1>3, <1>5, <2>1 DEF CaptureInv, CaptureTypeOK
<1>9. BackendInv'
  BY <1>1, <1>3 DEF CaptureInv, BackendInv, Foreign
<1>10. ObjectsInv'
  <2>1. \A a \in Captures : n' < a => comp'[a] = "none"
    BY <1>1, <1>2, <1>5 DEF CaptureInv, ObjectsInv, Captures
  <2>2. \A i \in 1..Len(wire) : wire[i].of <= n'
    BY <1>1, <1>2, <1>7 DEF CaptureInv, ObjectsInv
  <2>3. comp'[n'] = "asked"
    BY <1>1, <1>2, <1>5
  <2> QED
    BY <1>1, <2>1, <2>2, <2>3 DEF ObjectsInv
<1>11. WireInv'
  BY <1>1, <1>7 DEF WireInv
<1>12. ReadyInv'
  BY <1>1, <1>3, <1>7 DEF ReadyInv
<1>13. ResultInv' /\ Released'
  BY <1>1, <1>4, <1>6 DEF ResultInv, OwnFrame, Upright, Released
<1> QED
  BY <1>8, <1>9, <1>10, <1>11, <1>12, <1>13 DEF CaptureInv

(* An event is dispatched.  Without litter it is an event of the capture   *)
(* under way, or goes nowhere.                                             *)
LEMMA DispatchKeeps ==
  ASSUME CaptureInv, DispatchEvent
  PROVE  CaptureInv'
<1> DEFINE e == Head(wire)
<1>1. /\ Waiting /\ wire # <<>> /\ wire' = Tail(wire)
      /\ UNCHANGED <<backend, turned, turns, pc, n, began, format, result,
                     transform, comp, memory>>
      /\ e.is = "geometry" => known' = e.value /\ st' = st
      /\ e.is # "geometry" =>
           /\ known' = known
           /\ comp[e.of] = "none" => st' = st
           /\ comp[e.of] # "none" => st' = Applies(st, e)
  BY DEF DispatchEvent, turnVars, clientVars
<1>2. /\ wire' \in Seq(Events)
      /\ e = wire[1] /\ 1 \in 1..Len(wire) /\ e \in Events
      /\ Len(wire') = Len(wire) - 1
      /\ \A i \in 1..Len(wire') : i + 1 \in 1..Len(wire) /\ wire'[i] = wire[i + 1]
  BY <1>1, WireShrinks DEF CaptureInv, CaptureTypeOK
<1>3. e.is \notin Foreign
  BY <1>2 DEF CaptureInv, BackendInv
<1>4. n \in Captures /\ n \in Nat
  BY <1>1, CaptureAssumption DEF CaptureInv, CaptureTypeOK, Captures
<1> HIDE DEF e
<1>5. /\ e.is = "geometry" => e.value \in Transforms
      /\ e.is # "geometry" => e.of \in Captures
      /\ e.is = "flags" => e.value \in BOOLEAN
  BY <1>2, EventsAre
<1>6. \/ st' = st /\ (e.is = "geometry" \/ comp[e.of] = "none")
      \/ /\ e.is # "geometry" /\ comp[e.of] # "none"
         /\ e.is = "transform" => Says(st', st, e.value, st.y_invert)
         /\ e.is = "flags" => Says(st', st, st.transform, e.value)
         /\ e.is \notin {"transform", "flags", "ready"}
              => Says(st', st, st.transform, st.y_invert)
         /\ e.is = "ready" => /\ st' \in States
                              /\ st'.transform = st.transform
                              /\ st'.y_invert = st.y_invert
  BY <1>1, <1>2, <1>3, AppliesKeeps DEF CaptureInv, CaptureTypeOK
<1>7. CaptureTypeOK'
  <2>1. st' \in States
    BY <1>6 DEF Says, CaptureInv, CaptureTypeOK
  <2>2. known' \in Transforms
    BY <1>1, <1>5 DEF CaptureInv, CaptureTypeOK
  <2> QED
    BY <1>1, <1>2, <2>1, <2>2 DEF CaptureInv, CaptureTypeOK, Waiting
<1>8. BackendInv'
  <2>1. backend = "Ext" => ~st'.y_invert
    BY <1>3, <1>6 DEF Says, Foreign, CaptureInv, BackendInv
  <2> QED
    BY <1>1, <1>2, <2>1 DEF CaptureInv, BackendInv, Foreign
<1>9. ObjectsInv'
  BY <1>1, <1>2 DEF CaptureInv, ObjectsInv
<1>10. WireInv'
  BY <1>1, <1>2 DEF CaptureInv, WireInv, Waiting
<1>11. Litter' = Litter
  BY <1>1 DEF Litter
<1>12. ASSUME Litter = {}
       PROVE  /\ Told /\ ~Describes(e) => Told'
              /\ Describes(e) => Told'
              /\ st'.ready /\ ~st.ready => e.of = n /\ e.is = "ready"
  <2>1. comp[n] # "none"
    BY <1>1 DEF CaptureInv, ObjectsInv
  <2>2. CASE st' = st /\ (e.is = "geometry" \/ comp[e.of] = "none")
    <3>1. Told' <=> Told
      BY <1>1, <2>2 DEF Told
    <3> QED
      BY <2>1, <2>2, <3>1 DEF Describes
  <2>3. CASE e.is # "geometry" /\ comp[e.of] # "none"
    <3>1. e.of = n
      BY <1>1, <1>5, <1>12, <2>3 DEF Litter
    <3>2. CASE e.is = "transform"
      <4>1. backend = "Ext" /\ e.value = memory[n].turned
        BY <1>1, <1>2, <1>3, <3>1, <3>2 DEF CaptureInv, CaptureTypeOK, WireInv, Foreign
      <4> QED
        BY <1>1, <1>6, <2>3, <3>2, <4>1 DEF Says, Told, Describes
    <3>3. CASE e.is = "flags"
      <4>1. backend = "Wlr" /\ e.value = memory[n].y_invert
        BY <1>1, <1>2, <1>3, <3>1, <3>3 DEF CaptureInv, CaptureTypeOK, WireInv, Foreign
      <4> QED
        BY <1>1, <1>6, <2>3, <3>3, <4>1 DEF Says, Told, Describes
    <3>4. CASE e.is \notin {"transform", "flags"}
      <4>1. st'.transform = st.transform /\ st'.y_invert = st.y_invert
        BY <1>6, <2>3, <3>4 DEF Says
      <4>2. Told' <=> Told
        BY <1>1, <4>1 DEF Told
      <4>3. st'.ready /\ ~st.ready => e.is = "ready"
        BY <1>6, <2>3, <3>4 DEF Says
      <4> QED
        BY <3>1, <3>4, <4>2, <4>3 DEF Describes
    <3> QED
      BY <3>2, <3>3, <3>4
  <2> QED
    BY <1>6, <2>2, <2>3
<1>13. ReadyInv'
  <2> SUFFICES ASSUME Litter = {}
      PROVE (/\ \A i \in 1..Len(wire) :
                  wire[i].of = n /\ wire[i].is = "ready"
                    => Told \/ \E j \in 1..(i - 1) : Describes(wire[j])
             /\ st.ready => pc = "frame" /\ memory[n].is = "frame" /\ Told)'
    BY <1>1, <1>11 DEF ReadyInv
  <2>1. ASSUME NEW i \in 1..Len(wire'), wire'[i].of = n, wire'[i].is = "ready"
        PROVE Told' \/ \E j \in 1..(i - 1) : Describes(wire[j])'
    <3>1. /\ i \in Nat /\ i + 1 \in 1..Len(wire)
          /\ wire[i + 1].of = n /\ wire[i + 1].is = "ready"
      BY <1>2, <2>1
    <3>2. Told \/ \E j \in 1..i : Describes(wire[j])
      BY <1>1, <3>1 DEF CaptureInv, ReadyInv
    <3>3. CASE Told \/ Describes(wire[1])
      BY <1>2, <1>12, <3>3
    <3>4. ASSUME NEW j \in 1..i, j # 1, Describes(wire[j])
          PROVE \E l \in 1..(i - 1) : Describes(wire[l])'
      <4>1. j - 1 \in 1..(i - 1) /\ j - 1 \in 1..Len(wire')
        BY <1>2, <3>1, <3>4
      <4>2. wire'[j - 1] = wire[j]
        BY <1>2, <4>1
      <4>3. Describes(wire[j - 1])'
        BY <1>1, <3>4, <4>2 DEF Describes
      <4> QED
        BY <4>1, <4>3
    <3> QED
      BY <3>2, <3>3, <3>4
  <2>2. ASSUME st'.ready
        PROVE pc = "frame" /\ memory[n].is = "frame" /\ Told'
    <3>1. CASE st.ready
      <4>1. pc = "frame" /\ memory[n].is = "frame" /\ Told
        BY <1>1, <3>1 DEF CaptureInv, ReadyInv
      <4> QED
        BY <1>12, <4>1
    <3>2. CASE ~st.ready
      <4>1. e.of = n /\ e.is = "ready"
        BY <1>12, <2>2, <3>2
      <4>2. pc = "frame" /\ memory[n].is = "frame"
        BY <1>1, <1>2, <4>1 DEF CaptureInv, WireInv
      <4>3. Told
        BY <1>1, <1>2, <4>1 DEF CaptureInv, ReadyInv
      <4> QED
        BY <1>12, <4>2, <4>3
    <3> QED
      BY <3>1, <3>2
  <2> QED
    BY <1>1, <2>1, <2>2
<1>14. ResultInv'
  BY <1>1, <1>11 DEF CaptureInv, ResultInv, OwnFrame, Upright, Waiting
<1>15. Released'
  BY <1>1 DEF CaptureInv, Released
<1> QED
  BY <1>7, <1>8, <1>9, <1>10, <1>13, <1>14, <1>15 DEF CaptureInv

(* A capture gives up: its buffer is dropped, its objects stay.            *)
LEMMA GiveUpKeeps ==
  ASSUME CaptureInv, Waiting, GiveUp,
         UNCHANGED <<backend, selected, turnVars, known, st>>
  PROVE  CaptureInv'
<1>1. /\ pc' = "idle" /\ memory' = [memory EXCEPT ![n] = NoMemory]
      /\ UNCHANGED <<result, comp, wire, n, began, format, transform, backend,
                     turned, turns, known, st>>
  BY DEF GiveUp, turnVars
<1>2. n \in Captures /\ ~result.ok
  BY CaptureAssumption DEF CaptureInv, CaptureTypeOK, Captures, ResultInv, Waiting
<1>3. /\ memory' \in [Captures -> Buffers]
      /\ \A a \in Captures : memory'[a] = IF a = n THEN NoMemory ELSE memory[a]
  BY <1>1, BufferIs, ZenonT(60) DEF CaptureInv, CaptureTypeOK
<1>4. ~Waiting'
  BY <1>1 DEF Waiting
<1>5. CaptureTypeOK'
  BY <1>1, <1>3, <1>4 DEF CaptureInv, CaptureTypeOK
<1>6. BackendInv'
  BY <1>1, <1>3, BufferIs DEF CaptureInv, BackendInv, Foreign
<1>7. ObjectsInv' /\ WireInv' /\ ReadyInv'
  BY <1>1, <1>4 DEF CaptureInv, ObjectsInv, WireInv, ReadyInv
<1>8. ResultInv'
  BY <1>1, <1>2 DEF ResultInv, OwnFrame, Upright
<1>9. Released'
  BY <1>1, <1>2, <1>3 DEF CaptureInv, Released
<1> QED
  BY <1>5, <1>6, <1>7, <1>8, <1>9 DEF CaptureInv

(* The buffer is made and the copy asked for: nothing was said of a frame  *)
(* of this capture before.                                                 *)
LEMMA ConstraintsOkKeeps ==
  ASSUME CaptureInv, ConstraintsOk
  PROVE  CaptureInv'
<1>1. /\ pc = "constraints" /\ pc' = "frame"
      /\ memory' = [memory EXCEPT ![n] = Blank]
      /\ comp' = [comp EXCEPT ![n] = IF @ \in {"asked", "described"}
                                     THEN "copying" ELSE @]
      /\ UNCHANGED <<backend, turned, turns, known, n, began, result,
                     transform, st, wire>>
  BY DEF ConstraintsOk, turnVars
<1>2. n \in Captures /\ ~result.ok /\ Waiting /\ Waiting'
  BY <1>1, CaptureAssumption
     DEF CaptureInv, CaptureTypeOK, Captures, ResultInv, Waiting
<1>3. /\ memory' \in [Captures -> Buffers]
      /\ \A a \in Captures : memory'[a] = IF a = n THEN Blank ELSE memory[a]
  BY <1>1, BufferIs DEF CaptureInv, CaptureTypeOK
<1>4. /\ comp' \in [Captures -> {"none", "asked", "described", "copying",
                                 "answered"}]
      /\ \A a \in Captures : comp'[a] = "none" <=> comp[a] = "none"
  BY <1>1, <1>2 DEF CaptureInv, CaptureTypeOK
<1>5. CaptureTypeOK'
  BY <1>1, <1>2, <1>3, <1>4 DEF CaptureInv, CaptureTypeOK
<1>6. BackendInv'
  BY <1>1, <1>3, BufferIs DEF CaptureInv, BackendInv, Foreign
<1>7. ObjectsInv'
  BY <1>1, <1>2, <1>3, <1>4, BufferIs DEF CaptureInv, ObjectsInv
<1>8. \A i \in 1..Len(wire) :
        ~(wire[i].of = n /\ wire[i].is \in {"ready", "transform", "flags"})
  BY <1>1, <1>2 DEF CaptureInv, WireInv
<1>9. WireInv'
  BY <1>1, <1>8 DEF WireInv
<1>10. ReadyInv'
  <2>1. Litter' = Litter
    BY <1>1, <1>4 DEF Litter
  <2>2. Litter = {} => ~st.ready
    BY <1>1, <1>2 DEF CaptureInv, ReadyInv
  <2> QED
    BY <1>1, <1>8, <2>1, <2>2 DEF ReadyInv
<1>11. ResultInv'
  BY <1>1, <1>2 DEF ResultInv, OwnFrame, Upright
<1>12. Released'
  BY <1>1, <1>2, <1>3 DEF CaptureInv, Released
<1> QED
  BY <1>5, <1>6, <1>7, <1>9, <1>10, <1>11, <1>12 DEF CaptureInv

(* The frame is read back.  If it is this capture's own it was written     *)
(* with the transform and the inversion it is read with.                   *)
LEMMA FrameOverKeeps ==
  ASSUME CaptureInv, FrameOver
  PROVE  CaptureInv'
<1> DEFINE t == IF backend = "Ext" THEN st.transform ELSE transform
<1>1. /\ pc = "frame" /\ pc' = "idle"
      /\ comp' = [comp EXCEPT ![n] = "none"]
      /\ memory' = [memory EXCEPT ![n] = NoMemory]
      /\ UNCHANGED <<backend, turned, turns, known, n, began, format,
                     transform, st, wire>>
  BY DEF FrameOver, turnVars
<1>2. PICK pad \in {0, 1} :
        result' = IF ~Succeeded THEN [ok |-> FALSE]
                  ELSE [ok |-> TRUE,
                        written |-> memory[n],
                        upright |->
                          /\ memory[n] # Blank
                          /\ ReadsUpright(memory[n], pad, t, st.y_invert)]
  <2>1. (IF backend = "Wlr" THEN {0, 1} ELSE {0}) \subseteq {0, 1}
    OBVIOUS
  <2> QED
    BY <2>1, Zenon DEF FrameOver
<1>3. n \in Captures /\ Waiting /\ ~Waiting'
  BY <1>1, CaptureAssumption DEF CaptureInv, CaptureTypeOK, Captures, Waiting
<1>4. /\ memory' \in [Captures -> Buffers]
      /\ \A a \in Captures : memory'[a] = IF a = n THEN NoMemory ELSE memory[a]
  BY <1>1, BufferIs DEF CaptureInv, CaptureTypeOK
<1>5. /\ comp' \in [Captures -> {"none", "asked", "described", "copying",
                                 "answered"}]
      /\ \A a \in Captures : comp'[a] = IF a = n THEN "none" ELSE comp[a]
  BY <1>1 DEF CaptureInv, CaptureTypeOK
<1>6. Litter' = Litter
  BY <1>1, <1>5 DEF Litter
<1>7. /\ ~Succeeded => result'.ok = FALSE
      /\ Succeeded => result'.ok = TRUE /\ result'.written = memory[n]
  BY <1>2
<1>8. CaptureTypeOK'
  BY <1>1, <1>3, <1>4, <1>5, <1>7 DEF CaptureInv, CaptureTypeOK
<1>9. BackendInv'
  BY <1>1, <1>4, BufferIs DEF CaptureInv, BackendInv, Foreign
<1>10. ObjectsInv' /\ WireInv' /\ ReadyInv'
  BY <1>1, <1>3, <1>5 DEF CaptureInv, ObjectsInv, WireInv, ReadyInv
<1>11. Released'
  BY <1>1, <1>3, <1>4, <1>5 DEF CaptureInv, Released
<1>12. ASSUME Succeeded, Litter = {}
       PROVE  memory[n].is = "frame" /\ Told /\ format \in Supported
  <2>1. st.ready /\ format \in Supported
    BY <1>12 DEF Succeeded, ExtSucceeded, WlrSucceeded
  <2> QED
    BY <1>3, <1>12, <2>1 DEF CaptureInv, ReadyInv
<1>13. OwnFrame'
  BY <1>6, <1>7, <1>12, BufferIs DEF OwnFrame
<1>14. Upright'
  <2> SUFFICES ASSUME Succeeded, Litter = {},
                      backend = "Ext" \/ (transform = began
                                          /\ memory[n].turned = began)
      PROVE result'.upright
    BY <1>1, <1>6, <1>7 DEF Upright, CaptureInv, CaptureTypeOK
  <2>1. /\ memory[n].turned \in Transforms /\ memory[n].y_invert \in BOOLEAN
        /\ memory[n] = Frame(memory[n].turned, memory[n].y_invert)
        /\ memory[n] # Blank
    BY <1>3, <1>12, BufferIs DEF CaptureInv, CaptureTypeOK
  <2>2. memory[n].turned = t
    BY <1>12 DEF Told, CaptureInv, CaptureTypeOK
  <2>3. memory[n].y_invert = st.y_invert
    <3>1. CASE backend = "Ext"
      <4>1. memory[n].y_invert = FALSE /\ st.y_invert = FALSE
        <5>1. st.y_invert \in BOOLEAN /\ ~st.y_invert /\ ~memory[n].y_invert
          BY <1>3, <1>12, <3>1 DEF CaptureInv, BackendInv, CaptureTypeOK, States
        <5> QED
          BY <2>1, <5>1
      <4> QED
        BY <4>1
    <3>2. CASE backend # "Ext"
      BY <1>12, <3>2 DEF Told
    <3> QED
      BY <3>1, <3>2
  <2>4. ReadsUpright(memory[n], pad, t, st.y_invert)
    <3>1. ReadsUpright(Frame(memory[n].turned, memory[n].y_invert), pad,
                       memory[n].turned, memory[n].y_invert)
      BY <1>12, <2>1, ReadBack
    <3> QED
      BY <2>1, <2>2, <2>3, <3>1, Zenon
  <2>5. result'.upright = (/\ memory[n] # Blank
                           /\ ReadsUpright(memory[n], pad, t, st.y_invert))
    BY <1>2
  <2> QED
    BY <2>1, <2>4, <2>5
<1>15. ResultInv'
  BY <1>1, <1>3, <1>13, <1>14, CaptureAssumption DEF ResultInv, Captures
<1> QED
  BY <1>8, <1>9, <1>10, <1>11, <1>15 DEF CaptureInv

-----------------------------------------------------------------------------
LEMMA CaptureInvInit == CaptureInit => CaptureInv
<1> SUFFICES ASSUME CaptureInit PROVE CaptureInv
  OBVIOUS
<1> USE DEF CaptureInit
<1>1. Reset \in States /\ ~Reset.ready /\ ~Reset.y_invert
  BY DEF Reset, States, Transforms
<1>2. \A a \in Captures : memory[a] = NoMemory /\ memory[a].is = "none"
  BY BufferIs
<1>3. ~Waiting /\ ~result.ok /\ Len(wire) = 0
  BY DEF Waiting
<1>4. CaptureTypeOK
  <2>1. result.ok \in BOOLEAN
    OBVIOUS
  <2> QED
    BY <1>1, <1>3, <2>1, CaptureAssumption, BufferIs DEF CaptureTypeOK
<1>5. BackendInv
  BY <1>1, <1>2, <1>3 DEF BackendInv
<1>6. ObjectsInv /\ WireInv /\ ReadyInv
  BY <1>3 DEF ObjectsInv, WireInv, ReadyInv
<1>7. ResultInv /\ Released
  BY <1>2, <1>3 DEF ResultInv, OwnFrame, Upright, Released
<1> QED
  BY <1>4, <1>5, <1>6, <1>7 DEF CaptureInv

LEMMA CaptureInvNext == CaptureInv /\ [CaptureNext]_capVars => CaptureInv'
<1> SUFFICES ASSUME CaptureInv, [CaptureNext]_capVars PROVE CaptureInv'
  OBVIOUS
<1>1. ASSUME NEW a \in Captures, Describe(a) PROVE CaptureInv'
  BY <1>1, DescribeKeeps
<1>2. ASSUME NEW a \in Captures, Copy(a) PROVE CaptureInv'
  BY <1>2, CopyKeeps
<1>3. ASSUME NEW a \in Captures, Refuse(a) PROVE CaptureInv'
  BY <1>3, RefuseKeeps
<1>4. ASSUME NEW a \in Captures, StopSession(a) PROVE CaptureInv'
  BY <1>4, StopSessionKeeps
<1>5. ASSUME NEW t \in TurnedTo, Turn(t) PROVE CaptureInv'
  BY <1>5, TurnKeeps
<1>6. CASE Begin
  BY <1>6, BeginKeeps
<1>7. CASE DispatchEvent
  BY <1>7, DispatchKeeps
<1>8. CASE Timeout
  BY <1>8, GiveUpKeeps DEF Timeout
<1>9. CASE ConstraintsFail
  BY <1>9, GiveUpKeeps DEF ConstraintsFail, Waiting
<1>10. CASE ConstraintsOk
  BY <1>10, ConstraintsOkKeeps
<1>11. CASE FrameOver
  BY <1>11, FrameOverKeeps
<1>12. CASE UNCHANGED capVars
  <2>1. UNCHANGED <<backend, selected, turned, turns, known, pc, n, began,
                    format, result, transform, st, wire, comp, memory>>
    BY <1>12 DEF capVars, turnVars, clientVars
  <2>2. Litter' = Litter
    BY <2>1 DEF Litter
  <2>3. Told' = Told /\ \A e : Describes(e)' = Describes(e)
    BY <2>1 DEF Told, Describes
  <2> QED
    BY <2>1, <2>2, <2>3 DEF CaptureInv, CaptureTypeOK, BackendInv, Foreign,
       ObjectsInv, WireInv, ReadyInv, ResultInv, OwnFrame, Upright, Released,
       Waiting, Told, Describes
<1> QED
  BY <1>1, <1>2, <1>3, <1>4, <1>5, <1>6, <1>7, <1>8, <1>9, <1>10, <1>11, <1>12
     DEF CaptureNext, Compositor, Progress

(* The invariant of the capture, with its objects and the events under way *)
(* (capture of ext.rs and wlr.rs, wait_until).                             *)
THEOREM CaptureInvariant == CaptureSpec => []CaptureInv
<1>1. CaptureInit /\ [][CaptureNext]_capVars => []CaptureInv
  BY CaptureInvInit, CaptureInvNext, PTL
<1> QED
  BY <1>1, PTL DEF CaptureSpec

(* Type correctness.                                                       *)
THEOREM CaptureTypes == CaptureSpec => []CaptureTypeOK
<1>1. CaptureInv => CaptureTypeOK
  BY DEF CaptureInv
<1> QED
  BY <1>1, CaptureInvariant, PTL

(* Whichever way a capture ends, its shared memory is released, and one    *)
(* that succeeds has destroyed its objects.                                *)
THEOREM MemoryReleased == CaptureSpec => []Released
<1>1. CaptureInv => Released
  BY DEF CaptureInv
<1> QED
  BY <1>1, CaptureInvariant, PTL

(* A capture returns the frame written for it, unless an earlier one gave  *)
(* up and left its objects behind.                                         *)
THEOREM FrameIsOwn == CaptureSpec => []OwnFrame
<1>1. CaptureInv => OwnFrame
  BY DEF CaptureInv, ResultInv
<1> QED
  BY <1>1, CaptureInvariant, PTL

(* And it returns that frame upright, in its own colours, for every        *)
(* transform, format, padding, inversion and size of the output: with ext  *)
(* always, with wlr if the output is turned the way it was known to be.    *)
THEOREM FrameIsUpright == CaptureSpec => []Upright
<1>1. CaptureInv => Upright
  BY DEF CaptureInv, ResultInv
<1> QED
  BY <1>1, CaptureInvariant, PTL

=============================================================================
