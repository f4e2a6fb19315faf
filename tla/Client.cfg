SPECIFICATION FairSpec
CONSTANTS
  Thread = {t1, t2}
  Old = {t1}
  Nowhere = nowhere
  MaxEntry = 2
  MaxId = 2
  MaxVersion = 2
  MaxWire = 1
  Scopes <- Each
CHECK_DEADLOCK FALSE
INVARIANTS RetryIsSame OneConversation DeletedIsLeft
PROPERTIES CompleteStays ReplyIsShown ComposerUnlocks
