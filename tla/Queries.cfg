SPECIFICATION Spec
CONSTANTS
  Projects <- MCProjects
  StatementsOf <- MCStatementsOf
  MaxStatements = 3
  IgnoredDirs = {"venv"}
  RootParts = {"home"}
  Patterns <- MCPatterns
  LayerLists <- MCLayerLists
  NamePatterns <- MCNamePatterns
  Names <- MCNames
INVARIANTS
  PatternsAgree
  EdgesAsWritten
  CyclesAgree
  LayersExcludeLoops
  OverlapsAgree
  RulesAgree
CHECK_DEADLOCK FALSE
