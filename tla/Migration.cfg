\* The default connection and another, one auto-save, every failure.
SPECIFICATION Spec
CONSTANTS
  Names = {work, vepeen}
  DefaultName = vepeen
  AutoSaves = {a1}
  ReadsFail = TRUE
  SavesFail = TRUE
INVARIANTS
  TypeOK
  
  
PROPERTY
  NeverOverNewer
