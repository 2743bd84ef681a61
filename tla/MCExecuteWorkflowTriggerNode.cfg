\* Every input source the description offers, with every parameter value.
CONSTANTS
  NumItems = 2
  Names = {"a"}
  FieldTypes = {"any", "number"}
  MaxEntries = 2
SPECIFICATION Spec
INVARIANT InputSourceRecognized
