SPECIFICATION FairSpec
CONSTANTS
  MaxMutations = 2
  Setups <- MCSetups
INVARIANTS
  NothingLost
  ShownIsPendingOrTaken
  OutboxInOrder
PROPERTIES
  AnswersNeverRewind
  Delivers
CHECK_DEADLOCK FALSE
