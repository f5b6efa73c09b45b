CONSTANTS
  COMMAND_CAPACITY = 3
  LastId = 4
  Commands <- MCCommands
  Panic <- MCPanic
  NoCommand = NoCommand
  Names = {"a", "b"}
  Types = {"first", "rival", "second"}
  KindOf <- MCKindOf
  Patches = {"solo", "duo", "bad"}
  Contents <- MCContents
  Spawnable = {"solo", "duo"}
  None = None
  MaxLives = 3
SPECIFICATION Spec
INVARIANTS
  ExactlyOnce
  HandlesStayHome
  FacadeAgreesWithApp
PROPERTIES
  ImplementsQueue
CHECK_DEADLOCK FALSE
