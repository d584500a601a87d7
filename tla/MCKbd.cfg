SPECIFICATION Spec
CONSTANTS
  Keys <- MCKeys
  MaxHeld = 3
  MaxWire = 1
INVARIANTS
  NoStuckModifier
  ResetNeedsChord
  NoStaleEscape
  LetterCase
