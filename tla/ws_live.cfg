SPECIFICATION FairSpec
CONSTANTS
  Entry = {e1}
  Asset = {}
  Body = body
  Content = {v1}
  Nil = nil
  Task = {t1, t2}
  Nobody = nobody
  Collection = {c1}
  RowId = {1, 2, 3, 4, 5, 6}
  Stem <- MCStem
  Owned <- MCOwned
  Changes <- EditChanges
  Archive <- ImportArchive
  Seeds <- EmptyDisk
  Rewrite <- MCRewrite
  LiveReindex = TRUE
  AdminReset = TRUE
  MaxWrites = 2
  MaxCrashes = 0
PROPERTIES
  EverythingEnds
