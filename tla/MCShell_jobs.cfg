SPECIFICATION Spec
CONSTANTS
  MaxForks = 2
  MaxFailures = 1
INVARIANTS
  ReapCoversList
  ListMatchesChildren
  StatesCatchUp
  NeverWaitsInVain
  TerminalPlaced
  EofKillsJobs
  ShellInv
PROPERTY ZombiesReaped
