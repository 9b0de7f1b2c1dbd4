SPECIFICATION Spec
CHECK_DEADLOCK FALSE
CONSTANTS
  Jobs <- DoubleJobs
  Answers <- MCAnswers
  Resolves <- MCResolves
  PythonElement <- MCPythonElement
  Canonical <- MCCanonical
  CanonicalSorted <- MCCanonicalSorted
  Literal <- MCLiteral
  PythonLiteral <- MCPythonLiteral
  CppPrints <- MCCppPrints
  CppText <- MCCppText
  PythonText <- MCPythonText
  ObjectsOf <- MCObjectsOf
  Spoiled <- MCSpoiled
  EqualValues <- MCEqualValues
  EqualBags <- MCEqualBags
  TextIsAgreed <- MCTextIsAgreed
  LevelOrderIsOwn <- MCLevelOrderIsOwn
  IsNoStructure <- MCIsNoStructure
  MaxInt = 3
  MaxLong = 5
  MaxParams = 2
  MaxTestCases = 2
  MaxSource = 2
  MaxCaseSize = 2
  MaxTimeLimit = 2
  MaxMemoryLimit = 2
INVARIANT CorrectIsAccepted
