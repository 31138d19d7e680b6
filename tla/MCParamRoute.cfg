CONSTANTS
  Methods <- MCMethods
  Patterns <- MCPatterns
  Paths <- MCPaths
  MaxRoutes = 1
SPECIFICATION Spec
INVARIANTS
  ParamRouteAnswers
