SPECIFICATION Spec
CONSTANTS
  p = p
  q = q
  a = a
  b = b
  Empty = Empty
  Panels <- TwoPanels
  Texts <- ThreeContents
  Acts <- AllActs
  Patient = TRUE
  MaxActs = 6
SYMMETRY Symmetry
INVARIANTS PanelsShowDocument EditsComeFromTyping
\* people may stop at any time, and everything may have been handled
CHECK_DEADLOCK FALSE
