SPECIFICATION FairSpec
CONSTANTS
  p = p
  q = q
  a = a
  b = b
  Empty = Empty
  Panels <- TwoPanels
  Texts <- TwoContents
  Acts <- AllActs
  Patient = FALSE
  MaxActs = 2
INVARIANTS HostMirrorsModel NoEchoLoop
PROPERTIES EditReplacesComparedText SuppressionEnds
\* people may stop at any time, and everything may have been handled
CHECK_DEADLOCK FALSE
