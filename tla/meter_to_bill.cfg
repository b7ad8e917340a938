SPECIFICATION Spec
CONSTANTS
  NumMeters = 1
  OldFirmware = {1}
  LastRound = 2
  OutageRounds = {1}
  LateRounds = {2}
  Damages = {"missing_field", "spike", "malformed_json", "unknown_household"}
  Dropped = {"event_time"}
  MaxIncidents = 1
  LastOfDay = 1
  Load <- MCLoad
  Solar <- MCSolar
  Strange <- MCStrange
  MaxStrange = 1
  StrangeTime = {1}
  MaxOffsets = 2
  Percents = {0, 95, 110}
  MaxVersions = 2
  MaxBills = 2
  Households = {1, 2}
  TierOf <- MCTierOf
  Subsidised = {1}
  Zones = {"zone"}
INVARIANTS
  EveryReadingIsAccountedFor
  ValidatorsAgree
  GateIsRight
  EachReadingBilledOnce
  BillIsMarginal
  RevisionMovesBillsItsWay
CHECK_DEADLOCK FALSE
