SPECIFICATION Spec
CONSTANTS
  Thread = {t1, t2, t3}
  None = None
  Limit = 8
  Forms <- TwoForms
  MaxStarts = 1
SYMMETRY Symmetry
INVARIANTS
  TypeOK
  RowsShape
PROPERTIES
  RegisterSpec
  CleanApplyTakesEffect
