SPECIFICATION FairSpec
CONSTANTS
  MaxDaqFiles = 3
  MaxHkFiles = 2
  MaxFaults = 2
INVARIANTS
  TypeOK
PROPERTIES
  OpenFilesStay
  PlainFilesMoved
