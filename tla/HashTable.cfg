\* Two enumerators of a table that symbols are added to and deleted from.
CONSTANTS
    n1 = n1  n2 = n2  n3 = n3  n4 = n4  n5 = n5
    e1 = e1  e2 = e2
    NULL = NULL
    Names <- mcNames
    Enums <- mcEnums
    HashOf <- mcHashOf
    Buckets = 2
SPECIFICATION Spec
SYMMETRY Symmetric
VIEW mcView
INVARIANTS TypeOK checkHTable EnumeratorsStand
PROPERTIES EnumerationSafe
