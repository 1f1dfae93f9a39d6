SPECIFICATION Spec
CONSTANTS
  Profiles = {p1, p2}
  Slots = {s1}
  Worlds = {"picking"}
  Outsiders = FALSE
PROPERTY
  ClosedMeansDown
