CONSTANTS
    Unused = Unused
    Radix = 6
    Base = 3
    TableNumbers = {5, 6, 8}
    Pks <- Double
    MaxRows = 4
    Tables <- MCTables
    Values <- MCValues
    Numbers = {1, 53}
    Operands <- Supported
    Junk = {0, 5}
    Chains <- Clauses
    Percent = 0
    Bytes = {0, 1, 91, 255}
    MaxBytes = 4
    IntBits = 14
    RES_CHUNK_SIZE = 7
    Garbage = Garbage
    Blocks <- MCBlocks
    FilterInfos <- FilterSet
    Blank = 0
SPECIFICATION Spec
INVARIANTS
    ScansTheTable
    ColumnsAreRead
    OperandIsExact
    FiltersByWhere
    DecodesTheFilter
    BlockIsFiltered
 
CHECK_DEADLOCK FALSE
