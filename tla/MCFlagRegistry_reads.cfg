\* Two threads inside ReadFlagsFromString while the program goes on.
CONSTANTS
  x = x  xDashed = xDashed  y = y
  zero = zero  minusZero = minusZero  one = one  nan = nan
  refuseOne = refuseOne  t1 = t1  t2 = t2
  NULL = NULL  Illegal = Illegal
  Name = {x}
  Value = {zero, one}
  Validator = {}
  Thread = {t1, t2}
  Saver = {}
  Reporting = {x}
  Text <- MCText
  Underscored <- MCUnderscored
  Parse <- MCParse
  Equals <- MCEquals
  Fresh <- MCFresh
  Accepts <- MCAccepts
  Files <- MCFiles
SPECIFICATION Spec
INVARIANTS DefaultFollows
PROPERTIES ImplementsSettings RollbackIsExact LockIsReleased
