CONSTANTS
  NPlugins <- MCNPlugins
  NInterfaces <- MCNInterfaces
  MaxWrites <- MCMaxWrites
  MaxKeys <- MCMaxKeys
SPECIFICATION Spec
INVARIANTS
  TypeOK
  ScreenOwned
PROPERTIES
  ModalWindow
  ImplementsStream
  InputResponds
  MessagesDisplayed
