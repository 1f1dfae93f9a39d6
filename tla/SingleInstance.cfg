\* Three launches, by hand or at log-on: an instance, one that finds it, and a
\* successor.  No symmetry: it is not sound for the liveness property.
SPECIFICATION InstanceSpec
CONSTANTS
  Launches = {l1, l2, l3}
  CallsFail = TRUE
CHECK_DEADLOCK FALSE
INVARIANTS
  InstanceTypeOK
  AtMostOne
PROPERTY
  LaunchAnswered
