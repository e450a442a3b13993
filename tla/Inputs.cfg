CONSTANTS
  Name <- Names
  MaxLinks = 4
  FileSystems <- SomeFileSystems
  Workspaces <- SomeWorkspaces
  InputPaths <- SomePaths
  TestArgs <- SomeTestArgs
SPECIFICATION Spec
INVARIANTS AcceptedLandsInside ExistingPathsExact TokenizeExact
CHECK_DEADLOCK FALSE
