SPECIFICATION Spec
CONSTANTS
  Names = {work, vepeen}
  DefaultName = vepeen
  AutoSaves = {a1}
  ReadsFail = FALSE
  SavesFail = TRUE
INVARIANT
  NoDataLoss
