\* Two connections: the first one's ticker outlives it.
SPECIFICATION Spec
CONSTANTS
  MaxTickers = 2
  MaxCount = 1
\* The user may make no more connections, or stop using the window.
CHECK_DEADLOCK FALSE
INVARIANTS
  TypeOK
  RatesOnlyWhileConnected
  RateIsReal
PROPERTIES
  NoRevival
  KeepsSampling
  OldTickersEnd
