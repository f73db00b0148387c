CONSTANTS
  MaxPackets <- MCMaxPackets
  MaxNodes <- MCMaxNodes
SPECIFICATION Spec
INVARIANTS
  TypeOK
  PacketsOwned
  LocationAlive
  LocationsInOrder
  NothingLeftBehind
  OwnDescription
PROPERTIES
  LocationTried
