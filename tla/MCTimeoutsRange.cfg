CONSTANT MaxQuiet <- MCMaxQuiet
SPECIFICATION Spec
INVARIANT SsdpWaitInRange
