SPECIFICATION Spec
CONSTANTS
  Compilers <- MCCompilers
  LineOrder <- MCLineOrder
  SpecialLines <- MCSpecialLines
  Removed <- MCRemoved
  Availabilities <- MCAvailabilities
  MaxFaults = 1
  Pins <- MCPins
  Parts <- MCParts
  Smoke <- MCSmoke
  Behaviour <- MCBehaviour
INVARIANT RefreshedIsDumped
PROPERTIES
  ChecksOnlyCompare
  PassedGatesTriedThePin
