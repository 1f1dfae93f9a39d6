SPECIFICATION Spec
CONSTANTS
  Profiles = {p1, p2}
  Contents = {s0, s1}
  Initial = s0
  NoCred = noCred
  AutoSaves = {i1}
  WritesFail = TRUE
SYMMETRY Symmetry
INVARIANT
  TypeOK
PROPERTIES
  UntouchedCredsSurvive
  UnreadableNotReplacedQuietly
