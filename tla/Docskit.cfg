SPECIFICATION Spec
CONSTANTS
  WordBits = 4
  Fields <- SomeFields
  MaxFields = 3
INVARIANTS
  FieldsOnTheirBits
  WordMeansRight
