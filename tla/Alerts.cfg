SPECIFICATION ReviewSpec
CONSTANTS
  Webhooks <- SomeWebhooks
  Saves <- SomeSaves
  MaxShown = 1
  Lists <- SomeLists
INVARIANTS
  ReviewTypeOK
  AlertsInSync
  NoRepeatWithinLife
  PageAgrees
  MessageHonest
PROPERTY
  ReviewsGoOn
