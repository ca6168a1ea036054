CONSTANTS
  Main = main
  Nil = nil
  RawTag = rawtag
  x = x
  Arg = {x}
  Tag = {g1, g2}
  MaxHeld = 1
  Thread = {main, a, b, u}
  Untagged = {u}
  Unyielding = {a}
  MayOverflow = FALSE
  Payload <- TwoPayloads
SPECIFICATION LuaFairSpec
INVARIANT
  LuaStructure
  LuaYieldGoesWhereIsyieldableSays
  LuaSourceIsYielder
  LuaDeadTracebackComplete
  LuaTracebackListsCallers
PROPERTY
  LuaImplementsNestedCoro
  LuaFailureReachesYielder
