CONSTANTS
  Tables = {"t1", "t2"}
  Schemas <- ThreeSchemas
  Keys = {"1", "2"}
  Texts = {"big"}
  Big = {"big"}
  Rejected = {}
  Identities = {"default", "full"}
  Null = Null
SPECIFICATION Spec
INVARIANTS TypeOK ChangeIsDecoded RowsMatch
