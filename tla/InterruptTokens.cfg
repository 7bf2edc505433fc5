\* Two instances on one pin and three tokens, in any order of their lives.
SPECIFICATION Spec
CONSTANTS
  Instances = {i1, i2}
  Tokens = {k1, k2, k3}
  MaxIds = 3
  None = None
  Temp = Temp
SYMMETRY Symmetry
INVARIANT OnlyOutlivedDangles
INVARIANT NoDeadInstance
INVARIANT RemoveSucceeds
PROPERTY PressRunsTokens
CHECK_DEADLOCK FALSE
