\* A file that ends right after an atom.
CONSTANTS
  HostCalls <- UnendedCalls
  SourceFiles <- UnendedFiles
  ConfigFiles <- NoConfigFiles
  ConfigLines <- MCConfigLines
  DefaultConfig <- MCDefault
  Garbage <- MCGarbage
  atoi <- MCNumerals
  Libraries <- MCLibraries
  NoLibrary = NoLibrary
  Dirs <- MCDirs
  Files <- MCFiles
  Has <- MCHas
  Hole = Hole
  NotFound = NotFound
SPECIFICATION Spec
INVARIANTS ReadsAsSpelled
