CONSTANTS
  Pkgs = {"foo", "bar"}
  Builds = {1, 2}
  Listing <- MCListing
  Dirs <- MCDirs
  Base <- MCBase
  MaxCmds = 5
  MaxFaults = 1
  Created = "foo"
  Invocations <- MCInvocations
  Trees <- MCTrees
  Projects <- MCProjects
  Machines = {"x86_64", "ppc64"}
  MaxKills = 1
  MaxCreates = 2
SPECIFICATION MCSpec
INVARIANTS  PrivateBuild ExitMeansPackage
CHECK_DEADLOCK FALSE
