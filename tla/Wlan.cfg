SPECIFICATION FairWlanSpec
CONSTANTS
  BootstrapTime = 2
  ReconnectTime = 1
  RecoveryTime = 2
  ResetTime = 4
  QueueBound = 2
  EventBound = 2
  FaultBound = 1
  CommandBound = 1
INVARIANTS AssociatedTracksLink
PROPERTIES ResetsWhenStranded ReturnsToNetwork
