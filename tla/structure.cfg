CONSTANTS
  Main = main
  Nil = nil
  RawTag = rawtag
  x = x
  a = a
  b = b
  Arg = {x}
  Tag = {g1, g2}
  MaxHeld = 1
  Thread = {main, a, b, c, u}
  Untagged = {u}
  Unyielding = {c}
  MayOverflow = FALSE
  Payload <- OnePayload
SPECIFICATION Spec
SYMMETRY Interchangeable
INVARIANT
  TypeOK
  Structure
  OneResumer
  StackedIsOnAStack
  ParentIsResumer
  NoValuesLeftBehind
  YieldGoesWhereIsyieldableSays
  SourceIsYielder
  SourceBelowUntagged
  TracebackEnds
  TracebackListsCallers
  StatusDescribesStacks
  DeadSourceIsDead
