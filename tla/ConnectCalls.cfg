\* A profile to connect to and one that other programs dial, so that there is a
\* tunnel to hang up and it may come back; an address and a domain, so that the
\* resolver may fail or run out of time; both builds.
SPECIFICATION EngineSpec
CONSTANTS
  Profiles = {p1, p2}
  Prefixes = {a}
  Domains = {d}
  DefaultRoute = default
  Outsiders = TRUE
  Targets = {p1}
  NoIface = noIface
INVARIANT
  NothingComesLate
PROPERTIES
  CallReturns
  EngineKeepsContract
