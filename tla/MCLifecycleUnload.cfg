CONSTANTS
  NFiles <- MCNFiles
  MaxSent <- MCMaxSent
  UI = UI
SPECIFICATION Spec
INVARIANTS
  PluginsReachable
