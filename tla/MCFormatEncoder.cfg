\* Two workers, five blocks, all formats, levels out of range on both sides.
CONSTANTS
  Worker = {1, 2}
  Block <- MCBlock
  Bitmap <- MCBitmap
  Levels = {0, 10}
  MaxCalls = 3
SPECIFICATION EncoderFair
INVARIANT
  EncoderInv
PROPERTIES
  ImplementsEncoder
  CallsEnd
