CONSTANTS
  Word <- MCWord
  Text <- MCText
  MaxLines <- MCMaxLines
SPECIFICATION Spec
INVARIANTS
  ChangesOnlySpoilt
  ReportsAsReference
  CrashOnlyWithoutValue
