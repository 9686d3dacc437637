----------------------------- MODULE MCThreads -----------------------------
(* What host threads wait for: the lock that keeps them out of each        *)
(* other's way, the signals of a task and the thread of a timer.  One part *)
(* runs per behaviour; the others stay in their initial states.            *)
EXTENDS WRLock, Signals, Timer

CONSTANT Parts
VARIABLE part

Handler(mask, nodefer, reset) ==
  [handler |-> "function", mask |-> mask, nodefer |-> nodefer, reset |-> reset]
SomeHandlers == {Handler({}, FALSE, FALSE), Handler({"A", "B"}, FALSE, TRUE)}

MCInit ==
  /\ part \in Parts /\ Init /\ SigInit /\ TimerInit
  /\ part # "timer" => owner = CHOOSE o \in Owners : TRUE

MCNext ==
  \/ part = "wrlock" /\ Next /\ UNCHANGED <<part, sigVars, timerVars>>
  \/ part = "signals" /\ SigNext /\ UNCHANGED <<part, vars, timerVars>>
  \/ part = "timer" /\ TimerNext /\ UNCHANGED <<part, vars, sigVars>>

(* The fairness of the three modules, each for the part that runs; of      *)
(* WRLock nothing is possible before a thread asks for the lock.           *)
MCFairness ==
  /\ Fairness
  /\ WF_sigVars(part = "signals" /\ Receive)
  /\ WF_sigVars(part = "signals" /\ Interrupt)
  /\ WF_sigVars(part = "signals" /\ GoesOn)
  /\ WF_timerVars(part = "timer" /\ Thread)
  /\ WF_timerVars(part = "timer" /\ Tick)
  /\ WF_timerVars(part = "timer" /\ Caller)

MCSpec == MCInit /\ [][MCNext]_<<part, vars, sigVars, timerVars>> /\ MCFairness
============================================================================
