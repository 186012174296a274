SPECIFICATION PluginFairSpec
CONSTANTS
  Plugins = {p1, p2}
  NoPlugin = NoPlugin
  FuseThreshold = 3
  MaxCalls = 2
INVARIANTS
  PluginTypeOK
  HooksBacked
  PluginFuseHolds
PROPERTIES
  ApplyEnds
CHECK_DEADLOCK FALSE
