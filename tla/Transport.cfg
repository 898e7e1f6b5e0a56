SPECIFICATION FairSpec
CONSTANTS
  Children = 2
  Reader = 1
  Frame <- Frames
  PayloadSize <- Sizes
  HeaderSize = 2
  PipeSize = 4
  PipeBuf = 3
INVARIANT DecoderInStep
PROPERTIES ImplementsFramePipe EveryPeerHeard
