SPECIFICATION FairSpec
CONSTANTS
  MaxDaqFiles = 1
  MaxHkFiles = 2
  MaxFaults = 0
PROPERTIES
  AllFilesMoved
