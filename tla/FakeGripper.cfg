SPECIFICATION FakeSpec
CONSTANTS
  Commands <- MCCommands
  Faults = {5}
  Profiles <- MCProfiles
  Openings <- MCOpenings
  Paces <- MCPaces
  Frequencies <- MCFrequencies
  CommandAddress = 1
  StatusAddress = 6
  BlockRegisters = 4
  Documented = 3
INVARIANT MoveEndsWhereAsked
PROPERTY ActsAsDevice
