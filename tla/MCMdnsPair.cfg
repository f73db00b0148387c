CONSTANTS
  NSlots <- MCNSlots
  MaxPackets <- MCMaxPackets
SPECIFICATION Spec
INVARIANTS
  OneMessagePerPacket
  ReadsNoOlderPacket
PROPERTIES
  MessagePrinted
