CONSTANTS
  Coroutine = {c1}
  MainThread = main
  Tags = {g}
  NilArg = nil
  NoArg = noarg
  DefaultTag = default
  MaxCopies = 2
  MaxTables = 2
  Contents <- LoadedModules
  LoadedTable = "loaded"
  Globals = "globals"
  StringKey = {"_G", "mod", "top", "print", "go", "deep"}
  Fn = {"f1", "f2", "f3", "f4"}
  Depth = {0, 1, 2, 3, 10, 12, 21, 22, 23, 24, 25, 33}
  FirstLevel <- Levels5
  Atom = {a, b}
  NilValue = nil
  TableObject = {t1, t2}
  Registry = registry
  Globals53 = globals
  Key = {k}
  LoadedKey = loaded
  Module = module
  MaxSlots = 4
  MaxCalls = 5
  SizeMod = 32
  BufferSize = 3
  Size = {0, 1, 2, 4, 13, 30, 31}
  MaxAdded = 20
SPECIFICATION Spec
INVARIANT
  OnlyThreadCallIsUnbound
  FreshTags
  OneCoroset
  NamesResolve
  ShowsAllLevels
  TracebackFits
  BufferKeepsContent
  CompatIsLua53
