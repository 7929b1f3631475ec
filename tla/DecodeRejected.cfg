CONSTANTS
  Tables = {"t1"}
  Schemas <- ThreeSchemas
  Keys = {"1", "2"}
  Texts = {"big", "odd"}
  Big = {"big"}
  Rejected = {"odd"}
  Identities = {"default", "full"}
  Null = Null
SPECIFICATION Spec
INVARIANT ChangeIsDecoded
