CONSTANTS
  Methods <- MCMethods
  Patterns <- MCPatterns
  Paths <- MCPaths
  MaxRoutes = 2
SPECIFICATION Spec
PROPERTIES
  RegistrationOnlyAdds
