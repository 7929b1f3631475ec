CONSTANTS
  Tables = {"t1"}
  Schemas <- ThreeSchemas
  Keys = {"1", "2"}
  Texts = {"big"}
  Big = {"big"}
  Rejected = {}
  Identities = {"default", "full"}
  Null = Null
SPECIFICATION Spec
INVARIANT NoWrongValue
