\* Every command of the protocol, in every order, against a search at every stage.
SPECIFICATION FairSpec
CONSTANTS
  Commands <- MCCommands
  Positions = {"start", "p1"}
  StartPosition = "start"
  Settings = {"v0", "v1"}
  DefaultSetting = "v0"
  MaxLines = 3
  MaxInfos = 1
  NBench = 2
INVARIANTS
  SingleMutator
  StopIsExact
  SearchSeesItsGo
  GamesDoNotMix
PROPERTIES
  ImplementsProtocol
  AlwaysResponds
