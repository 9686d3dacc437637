SPECIFICATION Spec
CONSTANTS
  Senders = {s1}
  Holders = {}
  Locks = {"other"}
  Timed = FALSE
INVARIANT SignalWakesEveryWaiter
