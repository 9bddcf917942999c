\* Nested and unmapped Iceberg types next to lossless ones.
CONSTANTS
    FieldIds = {1, 2}
    IcebergTypes = {"int", "long", "string", "struct", "uuid"}
    NoTable = NoTable
    NoResult = NoResult
SPECIFICATION Spec
INVARIANT VerdictMatchesSpec
