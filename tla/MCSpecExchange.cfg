SPECIFICATION Spec
CONSTANTS
  Collation <- MCCollation
  Methods <- MCMethods
  Wildcards <- MCWildcards
  ParamOf <- MCParamOf
  Templates <- MCTemplates
  Schemes <- MCSchemes
  HostPorts <- MCHostPorts
  Encoded <- MCEncoded
  BaseUrl = "{{baseUrl}}"
  Braced <- MCBraced
  Folders <- MCFolders
  Levels = 4
  Blank = " "
  SpecMethods <- MCSpecMethods
  DefaultKey = 0
  Collections <- MCCollections
  Specs <- MCSpecs
  Environments <- MCEnvironments
  Probes <- MCProbes
  Nothing = Nothing
  MaxImports = 2
INVARIANTS
  ImportedIsServed
  ExampleAccepted
  RoundTrip
CHECK_DEADLOCK FALSE
