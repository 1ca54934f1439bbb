SPECIFICATION Spec
CONSTANTS
  Num <- MCNum
  MaxData <- MCMaxData
  UnitSpellings <- MCUnitSpellings
  ConstantNames <- MCConstantNames
  OpNames <- MCOpNames
  Lowercase <- MCLowercase
  Absent = AbsentValue
  NotNumber = NotNumberValue
  AbsentValue = AbsentValue
  NotNumberValue = NotNumberValue
INVARIANT
  NegativeMassRejected
