SPECIFICATION CSpec
CONSTANTS
  Debounce = 3
  Word = 8
  Cap = 15
  Sizes = {1, 2}
  Framing = 1
  MaxPad = 0
  MinSamples = 1
PROPERTY NoPhantomDrain
