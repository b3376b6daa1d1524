SPECIFICATION CaptureSpec
CONSTANTS
  Sniffers = {fromBrowser, fromCamera}
  RingSize = 2
  BufferSize = 2
  FrameSizes = {1, 2}
  Frames = 2
INVARIANTS RingHoldsLatest ListingKeepsPlaces FramesInOrder
