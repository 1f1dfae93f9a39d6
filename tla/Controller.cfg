\* Two profiles, two clean-ups and the probe: a calm session, one whose user
\* picks profiles at any time, and one that waits for nothing.
SPECIFICATION Spec
CONSTANTS
  Profiles = {p1, p2}
  Slots = {s1, s2}
  Worlds = {"calm", "picking", "rough"}
  Outsiders = TRUE
INVARIANTS
  TypeOK
  OneJob
  SpinnerHasJob
  NoOrphanTunnel
  OwnedTunnels
PROPERTIES
  KeepsOneOperation
  KeepsSession
