SPECIFICATION ClientSpec
CONSTANTS
  Pet = Pet
  Kind = Kind
  NoSchema = NoSchema
  Schemas <- MCSchemas
  Documents <- MCDocuments
  NameOf <- MCNameOf
  Preferred <- MCPreferred
CHECK_DEADLOCK FALSE
INVARIANTS
  DistinctMethods
  SignatureFaithful
