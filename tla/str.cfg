SPECIFICATION EditSpec
CONSTANTS
  Wrap = 65536
  Size = 5
  Chars = {97, 98, 10}
  Sources <- SmallSources
  Lengths = {0, 1, 3, 4, 5}
INVARIANTS
  EditExact
  InBounds
