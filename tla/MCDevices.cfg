SPECIFICATION Spec
CONSTANTS
  Gpio = {0, 1, 16}
  Hz = {50, 60, 7}
  BadHz = {7}
  ServoHz = 50
  MaxEvents = 3
  Handler = {1, 2}
  McpThread = {"a", "b"}
  Setup = "a"
  Pin = {0, 1}
  McpInput <- TwoInputs
  has_int = TRUE
  Failing = {"inten"}
  MaxPosition = 5
  INT_MAX = 9
  Ranges <- OneRange
  I2cThread = {"a", "b"}
  Byte = {0, 1}
  I2cTask = {"a", "b", "c"}
  MAX_I2C = 2
  Address <- OneApart
  Register = {0, 1}
  MaxPos = 4
  Percent = {40, 100}
  MaxWidened = 1
  NBytes = 4
  MaxSeek = 2
  Header = 2
  Fmt = 4
  Sizes = {1, 2, 4, 5}
  MaxChunks = 2
  Lengths = {0, 7, 8, 13}
  a_block = 5
  Channels = {1, 2}
  SampleBytes = {1, 2, 3}
  Averages = {1, 2}
  Path <- FivePaths
  FilePath <- TwoFiles
  MaxPieces = 4
  Width = 3
  Height = 3
  buffered_rows = 2
  Fills <- AllFills
  Imports <- SomeImports
  Config = {"x", "y"}
  MaxCards = 2
  MaxDevices = 2
  Preference <- Preferences
  Sub = 2
  MaxAxis = 9
  MaxRamp = 2
  Slack = 4
INVARIANTS
  TypeOK
PROPERTIES
  DevicesAreAsRemembered
  DataAreAsAskedFor
CHECK_DEADLOCK FALSE
