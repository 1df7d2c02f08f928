SPECIFICATION Spec
CONSTANTS
  Entry = {e1, e2}
  Asset = {}
  Body = body
  Content = {v1, v2}
  Nil = nil
  Task = {t1, t2}
  Nobody = nobody
  Collection = {}
  RowId = {1, 2, 3, 4, 5, 6}
  Stem <- MCStem
  Owned <- MCOwned
  Changes <- EditChanges
  Archive <- NoChanges
  Seeds <- EmptyDisk
  Rewrite <- MCRewrite
  LiveReindex = FALSE
  AdminReset = FALSE
  MaxWrites = 4
  MaxCrashes = 0
SYMMETRY Symmetry
INVARIANTS
  PendingKept
  OneIndexer
  InflightExact
  NoOrphan
PROPERTIES
  AllOrNothing
