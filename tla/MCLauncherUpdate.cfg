SPECIFICATION LauncherSpec
CONSTANTS
  Setups <- MCSetups
  Bounds <- MCBounds
INVARIANTS
  WayBackIsKept
  OldBuildReadsItsData
  ResultIsTrue
  NothingIsLost
