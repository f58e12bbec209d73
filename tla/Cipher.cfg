\* Texts of up to three characters of every kind, written over each other.
SPECIFICATION Spec
CONSTANTS
  Chars <- SomeChars
  MaxLen = 3
INVARIANTS
  ClearText
