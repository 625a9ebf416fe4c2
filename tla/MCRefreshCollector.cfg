SPECIFICATION Spec
CONSTANTS
  Readers = {r1, r2}
  Tags = {t1, t2}
  None = None
  Payload <- MCPayload
INVARIANTS
  TypeOK
  CoherentReport
PROPERTIES
  ImplementsRegister
  CollectReturns
  RefreshesForever
