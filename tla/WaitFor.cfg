SPECIFICATION FairSpec
CONSTANTS
  Senders = {s1, s2}
  Holders = {s2}
  Locks = {"sighand", "other"}
  Timed = TRUE
INVARIANTS NoLostNotify SignalWakesWaiter
PROPERTY SignalIsTaken
