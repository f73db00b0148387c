CONSTANTS
  NSlots <- MCNSlots
  MaxPackets <- MCMaxPackets
SPECIFICATION Spec
INVARIANT PrintsQueuedPacket
