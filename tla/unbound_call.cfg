CONSTANTS
  Coroutine = {c1}
  MainThread = main
  Tags = {g}
  NilArg = nil
  NoArg = noarg
  DefaultTag = default
  MaxCopies = 2
  MaxTables = 2
SPECIFICATION TablesSpec
INVARIANT FunctionsAreBound
