SPECIFICATION Spec
CONSTANTS
    a = a
    b = b
    official = official
    mirror = mirror
    Ids <- MCIds
    Locations <- MCLocations
    Official = official
    Args <- MCArgs
    Versions <- MCVersions
    Listed <- MCListed
    Yanked <- MCYanked
    Missing = Missing
    MaxSerial = 2
    MaxGen = 2
    MaxCommands = 3
    MaxKills = 1
    MaxRuns = 1
INVARIANTS
  LoadsOnlyLive
  TypeOK
  AtRest
PROPERTY Implements
CHECK_DEADLOCK FALSE
