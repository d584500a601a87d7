SPECIFICATION LibSpec
CONSTANTS
  SPIN = 4
  MaxTime = 6
  Never = Never
  N = 12
  UINTS = 16
  Texts <- MCTexts
  Unprintable = {"^"}
  MaxBuf = 24
  Formats <- MinusFormats
  Memories = {}
  Numerals = {}
  Places = {0, 1, 2, 3}
  Sizes = {0, 1, 2, 3}
  Chars = {97, 200}
  Bases = {0, 8, 10, 16}
  Copies = {}
INVARIANT
  MinusPadsRight
CHECK_DEADLOCK FALSE
