CONSTANT Cases <- MCCases
CONSTANT Versions <- MCVersions
CONSTANT FilesOf <- MCFilesOf
CONSTANT Settings <- MCSettings
SPECIFICATION LoadSpec
INVARIANTS
  PreparedConsistent
  AsAsked
  InstallReasons
  VersionOrder
  LoadedAsChecked
PROPERTY Terminates
