\* The program that quits, the call it may have under way, and tunnels of
\* another profile.
SPECIFICATION Spec
CONSTANTS
  Profiles = {p1, p2}
  StatusFails = TRUE
\* Once the program has exited nothing has to happen.
CHECK_DEADLOCK FALSE
INVARIANTS
  TypeOK
  QuitCloses
PROPERTY
  QuitEnds
