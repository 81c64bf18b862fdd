SPECIFICATION FairSpec
CONSTANTS
  Platforms = {"posix", "win32"}
  Objects = {"x", "y"}
  Pids = {1, 2}
  Streams = {"stdin", "stdout"}
  Codes = {0, 1}
  MaxSpawns = 2
  Programs = {"progress", "monitor", "api"}
  Child = "x"
  Steps = 2
INVARIANTS
  ChildrenAccounted
  HandlesOwned
  ResultTrue
PROPERTIES
  LaunchEnds
CHECK_DEADLOCK FALSE
