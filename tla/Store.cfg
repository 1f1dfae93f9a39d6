\* One writer at a time, a reader, crashes: both platforms.
SPECIFICATION Spec
CONSTANTS
  Writers = {w1}
  Values = {v1, v2}
  Inodes = {f1, f2, f3, f4}
  Keys = {k1, k2}
  NoFile = noFile
  NoKey = noKey
SYMMETRY Symmetry
INVARIANTS
  TypeOK
  KeyFits
PROPERTY
  ReplacesAtomically
