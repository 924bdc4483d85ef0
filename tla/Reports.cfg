\* A session that ends twice and is analyzed by a newer engine too, and a command.
SPECIFICATION Spec
CONSTANTS
  s1 = s1
  first = first
  second = second
  newer = newer
  viewer = viewer
  cleaner = cleaner
  Missing = Missing
  Torn = Torn
  Sessions = {s1}
  Analyses = {first, second, newer}
  Identity <- Identities
  CleanId <- OwnName
  Readers = {viewer, cleaner}
  OlderThan = 1
  MaxClock = 1
  MaxLength = 2
SYMMETRY Symmetry
INVARIANT StatsTellTheStore
PROPERTIES
  ReplacedByItsOwn
  PruneKeepsYoung
\* The processes end.
CHECK_DEADLOCK FALSE
