\* Two flags, one of them also spelled with a dash, and every setter and
\* getter; NaN is one of the values.
CONSTANTS
  x = x  xDashed = xDashed  y = y
  zero = zero  minusZero = minusZero  one = one  nan = nan
  refuseOne = refuseOne  s1 = s1  s2 = s2
  NULL = NULL  Illegal = Illegal
  Name = {x, xDashed, y}
  Value = {zero, one, nan}
  Validator = {refuseOne}
  Thread = {}
  Saver = {}
  Reporting = {}
  Text <- MCText
  Underscored <- MCUnderscored
  Parse <- MCParse
  Equals <- MCEquals
  Fresh <- MCFresh
  Accepts <- MCAccepts
  Files <- MCNoFiles
SPECIFICATION Spec
INVARIANTS DefaultFollows AlwaysValid
PROPERTIES DefaultModesYield ImplementsSettings
