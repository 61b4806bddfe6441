SPECIFICATION FairSpec
CONSTANTS
  both = both
  one = one
  other = other
  noise = noise
  None = None
  Marks = {".", ":"}
  Versions <- MCVersions
  Subscriptions <- MCSubscriptions
  Consumes <- MCConsumes
  Events = {both, one, other, noise}
  TopicOf <- MCTopicOf
  Matching <- MCMatching
  Undecodable = noise
  InitialBackoff = 1
  MaxBackoff = 5
  HealthySession = 5
  MaxLate = 1
  MaxEvents = 2
INVARIANT TypeOK EachOnceInOrder NeverBusyLoops
PROPERTY SessionsAreRenewed
CHECK_DEADLOCK FALSE
