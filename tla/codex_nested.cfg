SPECIFICATION Spec
CONSTANTS
  hero = hero
  draft = draft
  codex = codex
  people = people
  old = old
  notes = notes
  v = v
  Absent = Absent
  None = None
  Files <- BothFiles
  Folders <- NestedFolders
  In <- NestedIn
  Below <- NestedBelow
  Roots <- BothRoots
  StartsWith <- StartsWithRoot
  Contents <- OneContent
  Callers = {k1}
  Loads = {l1}
  MaxChanges = 1
  MaxFailures = 0
INVARIANT CachedEntriesTrue
\* nothing is asked of people, and every request may have been answered
CHECK_DEADLOCK FALSE
