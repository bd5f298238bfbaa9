\* Five configurations, any sequence of three reloads; an id cannot be made twice.
CONSTANTS
  n1 = n1
  n2 = n2
  dA = dA
  dB = dB
  dBad = dBad
  dHttp = dHttp
  f1 = f1
  f2 = f2
  x = x
  y = y
  none = none
  default = default
  Unset = none
  Default = default
  Configs <- MCConfigs
  First <- MCFirst
  Unparsable <- MCUnparsable
  Foreign <- MCForeign
  MaxReloads = 3
  MaxFails = 2
SPECIFICATION Spec
INVARIANTS
  RunsConfigured
  KeepsServing
PROPERTIES
  KeepsUnchanged
\* The process may end.
CHECK_DEADLOCK FALSE
