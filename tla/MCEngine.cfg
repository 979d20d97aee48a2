CONSTANTS
  HostCalls <- MCHostCalls
  SourceFiles <- MCSourceFiles
  ConfigFiles <- MCConfigFiles
  ConfigLines <- MCConfigLines
  DefaultConfig <- MCDefault
  Garbage <- MCGarbage
  atoi <- MCNumerals
  Libraries <- MCLibraries
  NoLibrary = NoLibrary
  Dirs <- MCDirs
  Files <- MCFiles
  Has <- MCHas
  Hole = Hole
  NotFound = NotFound
SPECIFICATION FairSpec
INVARIANTS TypeOK ReadsAsSpelled SourcesNamed ChildlessOnlyAtEnd NothingLost ConfigAsWritten EvaluatorConfigured NothingUndefined
PROPERTIES ImplementsDirList CallsReturn
