\* Two overlapping FlagSavers around one flag, with a value that has two
\* representations comparing equal, and a validator.
CONSTANTS
  x = x  xDashed = xDashed  y = y
  zero = zero  minusZero = minusZero  one = one  nan = nan
  refuseOne = refuseOne  s1 = s1  s2 = s2
  NULL = NULL  Illegal = Illegal
  Name = {x}
  Value = {zero, minusZero, one}
  Validator = {refuseOne}
  Thread = {}
  Saver = {s1, s2}
  Reporting = {}
  Text <- MCText
  Underscored <- MCUnderscored
  Parse <- MCParse
  Equals <- MCEquals
  Fresh <- MCFresh
  Accepts <- MCAccepts
  Files <- MCNoFiles
SPECIFICATION Spec
SYMMETRY Symmetry
INVARIANTS TypeOK DefaultFollows AlwaysValid BackupsAreFaithful
PROPERTIES RestoreIsExact ImplementsSettings
