------------------------------- MODULE Pixels -------------------------------
(***************************************************************************)
(* frame.rs: from the bytes a compositor wrote into a shared buffer to an  *)
(* upright RGBA image; and, to check it against, how a compositor writes   *)
(* them, from the meaning of the wl_output transforms and wl_shm formats.  *)
(*                                                                         *)
(* An image is followed pixel by pixel: each function of frame.rs says     *)
(* from which place its result takes a pixel.  Offsets and strides are in  *)
(* words of four bytes, a word is the sequence of its bytes.               *)
(***************************************************************************)
EXTENDS Integers, Sequences, SequencesExt

Transforms == {"Normal", "_90", "_180", "_270",
               "Flipped", "Flipped90", "Flipped180", "Flipped270"}

Supported == {"Xrgb8888", "Argb8888", "Xbgr8888", "Rgba8888"}

swaps_axes(t) == t \in {"_90", "_270", "Flipped90", "Flipped270"}

(* Mutant of forward: quarter turns clockwise.                             *)
forward_clockwise(t, x, y, lw, lh) ==
  CASE t = "Normal" -> <<x, y>>
    [] t = "_90" -> <<lh - 1 - y, x>>
    [] t = "_180" -> <<lw - 1 - x, lh - 1 - y>>
    [] t = "_270" -> <<y, lw - 1 - x>>
    [] t = "Flipped" -> <<lw - 1 - x, y>>
    [] t = "Flipped90" -> <<lh - 1 - y, lw - 1 - x>>
    [] t = "Flipped180" -> <<x, lh - 1 - y>>
    [] t = "Flipped270" -> <<y, x>>

(* Where t puts the pixel (x, y) of an upright lw x lh image.              *)
forward(t, x, y, lw, lh) ==
  CASE t = "Normal" -> <<x, y>>
    [] t = "_90" -> <<y, lw - 1 - x>>
    [] t = "_180" -> <<lw - 1 - x, lh - 1 - y>>
    [] t = "_270" -> <<lh - 1 - y, x>>
    [] t = "Flipped" -> <<lw - 1 - x, y>>
    [] t = "Flipped90" -> <<y, x>>
    [] t = "Flipped180" -> <<x, lh - 1 - y>>
    [] t = "Flipped270" -> <<lh - 1 - y, lw - 1 - x>>

(* The size of the upright image of a bw x bh buffer.                      *)
UprightSize(t, bw, bh) == IF swaps_axes(t) THEN <<bh, bw>> ELSE <<bw, bh>>

(* untransform: the place in the buffer the upright pixel p comes from.    *)
untransform(p, bw, bh, t) ==
  LET size == UprightSize(t, bw, bh)
  IN  forward(t, p[1], p[2], size[1], size[2])

flip_rows(p, height) == <<p[1], height - 1 - p[2]>>

(* decode: the place in memory of the pixel p; rows may be padded.         *)
decode(p, stride) == p[2] * stride + p[1]

(* decode: the byte layouts of the four formats.  An X is read as opaque.  *)
convert(format, b) ==
  CASE format = "Argb8888" -> <<b[3], b[2], b[1], b[4]>>
    [] format = "Xrgb8888" -> <<b[3], b[2], b[1], 255>>
    [] format = "Xbgr8888" -> <<b[1], b[2], b[3], 255>>
    [] format = "Rgba8888" -> <<b[4], b[3], b[2], b[1]>>

-----------------------------------------------------------------------------
(* The compositor's side.  A transform is a number of quarter turns        *)
(* counter-clockwise, after a mirroring for the flipped ones.  A spot is a *)
(* place x, y in an image of size w, h.                                    *)

Mirrored(s) == [s EXCEPT !.x = s.w - 1 - s.x]

Quarter(s) == [x |-> s.y, y |-> s.w - 1 - s.x, w |-> s.h, h |-> s.w]

Inverted(s) == [s EXCEPT !.y = s.h - 1 - s.y]

Turned(t, s) ==
  LET m == IF t \in {"Normal", "_90", "_180", "_270"} THEN s ELSE Mirrored(s)
  IN  CASE t \in {"Normal", "Flipped"} -> m
        [] t \in {"_90", "Flipped90"} -> Quarter(m)
        [] t \in {"_180", "Flipped180"} -> Quarter(Quarter(m))
        [] t \in {"_270", "Flipped270"} -> Quarter(Quarter(Quarter(m)))

(* A format names the channels of a little-endian word, highest first.     *)
Word(format, p) ==
  Reverse(CASE format = "Argb8888" -> <<p[4], p[1], p[2], p[3]>>
            [] format = "Xrgb8888" -> <<0, p[1], p[2], p[3]>>
            [] format = "Xbgr8888" -> <<0, p[3], p[2], p[1]>>
            [] format = "Rgba8888" -> <<p[1], p[2], p[3], p[4]>>)

=============================================================================
