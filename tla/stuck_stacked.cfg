CONSTANTS
  Main = main
  Nil = nil
  RawTag = rawtag
  x = x
  a = a
  b = b
  Arg = {x}
  Tag = {g1, g2}
  MaxHeld = 1
  Thread = {main, a, b, u}
  Untagged = {u}
  Unyielding = {}
  Payload <- OnePayload
  MayOverflow = TRUE
SPECIFICATION Spec
INVARIANT OnlyPassedAreStacked
