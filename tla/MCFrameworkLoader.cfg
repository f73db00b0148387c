CONSTANTS
  NPlugins <- MCNPlugins
  MaxPackets <- MCMaxPackets
  Framework <- MCFramework
SPECIFICATION Spec
INVARIANTS
  TypeOK
  SessionsAccounted
  OnlyPartialCrash
PROPERTIES
  PacketsDelivered
  ImplementsStream
  BufferedOutputShown
