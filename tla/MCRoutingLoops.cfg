SPECIFICATION RoutingSpec
CHECK_DEADLOCK FALSE
CONSTANTS
  Paths <- MCPaths
  Letters <- MCLetters
  Width <- MCWidth
  Speech = {"en"}
  Sources <- MCSources
  Targets <- MCTargets
  Patterns <- MCPatterns
  MaxHops = 32
  MaxCalls = 3
INVARIANTS NoRedirectLoop
