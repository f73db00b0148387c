CONSTANTS
  NFiles <- MCNFiles
  MaxSent <- MCMaxSent
  UI = UI
SPECIFICATION Spec
INVARIANTS
  TypeOK
  LoaderSafe
  ListAccounted
  ServingSafe
  FaultOnlyAfterFinal
  PairsBeforeUI
PROPERTIES
  ImplementsChannel
  ExitHonoured
