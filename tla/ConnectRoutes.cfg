\* Everything a request can ask of the routes of a profile with two prefixes and
\* a domain, started from every set of stored routes; another profile, which
\* other programs dial, is there to be hung up.
SPECIFICATION Spec
CONSTANTS
  Profiles = {p1, p2}
  Targets = {p1}
  Prefixes = {a, b}
  Domains = {d}
  DefaultRoute = default
  Outsiders = TRUE
SYMMETRY Symmetry
INVARIANTS
  TypeOK
  QuietSuccess
PROPERTIES
  RouteEditsAreNeeded
  TunnelStartsRouted
