CONSTANTS
  Tables <- AllTables
  Structs <- AllStructs
  MAX_DMI_MEMDEVS = 6
  PerPage = 2
  KB = 2
  AddrBytes = 32
  WindowBytes = 16
  PageBytes = 4
  Physical <- SomePhysical
  MaxErrors = 3

SPECIFICATION Spec

INVARIANTS
  TypeOK
  BlameExact

PROPERTIES
  SaysChange
