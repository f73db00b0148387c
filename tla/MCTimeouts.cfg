CONSTANT MaxQuiet <- MCMaxQuiet
SPECIFICATION Spec
INVARIANTS
  ProbeReleases
  ToldOfTimeouts
  OverflowsLate
PROPERTIES
  ImplementsBoredom
  SsdpRecovers
