SPECIFICATION Spec
CONSTANTS
  Submits = 2
  Jobs = 2
  NodeOf <- SameNode
  MaxFaults = 1
INVARIANTS
  OrphansAreCutOff
PROPERTIES
  KeepsResults
  RerunRepairs
  MergesWholeResults
