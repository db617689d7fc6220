SPECIFICATION Spec
CONSTANTS
  l1 = l1
  l2 = l2
  p1 = p1
  p2 = p2
  Lib = {l1, l2}
  Plugin = {p1, p2}
  PluginOf <- TwoLibs
  Asks = TRUE
  None = None
INVARIANTS
  StartedWithNetwork
