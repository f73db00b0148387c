CONSTANTS
  MaxText <- MCMaxText
  LineBuffer <- MCLineBuffer
SPECIFICATION Spec
PROPERTY DumpCompletes
