SPECIFICATION Spec
CONSTANTS
  x = x
  y = y
  one = one
  two = two
  narrow = narrow
  wide = wide
  None = None
  Name <- MCName
  Val <- MCVal
  Type <- MCType
  TypeOf <- MCTypeOf
  Admits <- MCAdmits
  MaxGeneration = 1
  MaxScopes = 3
  MaxSlots = 2
SYMMETRY NameSymmetry
INVARIANTS
  TypeOK
  HandlesLive
  StaleStaysDead
  MapsAgree
  ValuesHaveTypes
  CapturesWhatIsSeen
PROPERTY
  ImplementsMaps
