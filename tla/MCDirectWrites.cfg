\* One flag, assigned directly and set with SET_FLAG_IF_DEFAULT.
CONSTANTS
  x = x  xDashed = xDashed  y = y
  zero = zero  minusZero = minusZero  one = one  nan = nan
  refuseOne = refuseOne  s1 = s1  s2 = s2
  NULL = NULL  Illegal = Illegal
  Name = {x}
  Value = {zero, one}
  Validator = {refuseOne}
  Thread = {}
  Saver = {}
  Reporting = {}
  Text <- MCText
  Underscored <- MCUnderscored
  Parse <- MCParse
  Equals <- MCEquals
  Fresh <- MCFresh
  Accepts <- MCAccepts
  Files <- MCNoFiles
SPECIFICATION HistorySpec
PROPERTIES IfDefaultYieldsToAssignment
