CONSTANTS
  MaxText <- MCMaxText
  LineBuffer <- MCLineBuffer
SPECIFICATION Spec
INVARIANTS
  SplitsAsReference
  OverreadsWithoutEmptyLine
