SPECIFICATION Spec
CONSTANTS
  p = p
  q = q
  a = a
  b = b
  Empty = Empty
  Panels <- OnePanel
  Texts <- ThreeContents
  Acts <- TypingOnly
  Patient = FALSE
  MaxActs = 2
SYMMETRY Symmetry
INVARIANTS PanelsShowDocument
\* people may stop at any time, and everything may have been handled
CHECK_DEADLOCK FALSE
