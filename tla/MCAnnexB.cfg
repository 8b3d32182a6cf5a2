\* Streams of three to five NAL units, read in pieces of one to eight bytes.
CONSTANTS
  Codecs = {"H264", "Hevc"}
  Streams <- MCStreams
  Junk <- MCJunk
  MAX_PARAMETER_SET_BYTES = 14
  MAX_BUFFER = 14
  READ = 8
  UE_BITS = 16
  MaxNals = 5
SPECIFICATION AnnexBSpec
INVARIANTS NalsExact OnePicture
PROPERTIES SetsInForce EndReported
CHECK_DEADLOCK FALSE
