SPECIFICATION StreamSpec
CONSTANTS
  BufferSize = 4
  Elements <- SphereImages
  Blank = blank
  InitialCounts = {0}
  Counts = {0, 1, 2}
  MaxFrames = 6
  MaxSpheres = 2
  MaxResizes = 3
  MaxMessages = 2
  MaxLost = 1
INVARIANT NoMixedFrame
