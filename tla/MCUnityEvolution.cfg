\* Lossless column types: every type the UC round trip preserves.
CONSTANTS
    FieldIds = {1, 2}
    IcebergTypes = {"int", "long", "date", "timestamp", "string"}
    NoTable = NoTable
    NoResult = NoResult
SPECIFICATION Spec
INVARIANT TypeOK
INVARIANT VerdictMatchesSpec
