SPECIFICATION Spec
CONSTANTS
  Entry = {e1}
  Asset = {a1}
  Body = body
  Content = {v1, v2}
  Nil = nil
  Task = {t1, t2}
  Nobody = nobody
  Collection = {c1}
  RowId = {1, 2, 3, 4, 5, 6}
  Stem <- MCStem
  Owned <- MCOwned
  Changes <- BootChanges
  Archive <- ImportArchive
  Seeds <- AnyDisk
  Rewrite <- MCRewrite
  LiveReindex = FALSE
  AdminReset = FALSE
  MaxWrites = 2
  MaxCrashes = 1
SYMMETRY Symmetry
INVARIANTS
  NothingStale
PROPERTIES
  CommitsLast
