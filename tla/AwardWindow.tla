---------------------------- MODULE AwardWindow ----------------------------
(***************************************************************************)
(* The ticks that get to see one run.  closed_periods_for_tick hands out a *)
(* closed period to a bounded number of hourly ticks (24 for a day).       *)
(* Here ticks come one after the other: each is over, or evicted, within   *)
(* the hour, and the five minute lease a dead tick left behind has run out *)
(* when the next one begins.  With fewer failures than ticks, the run      *)
(* completes within its window.                                            *)
(***************************************************************************)
EXTENDS AwardTick, Naturals

CONSTANTS
  MaxTicks,   \* ticks in the run's window
  MaxFaults   \* failures of the ranking, the relay, Discord, D1 or the isolate

ASSUME WindowAssumption == MaxTicks \in Nat /\ MaxFaults \in Nat /\ MaxFaults < MaxTicks

VARIABLES ticksLeft, faults

windowVars == <<vars, ticksLeft, faults>>

WindowInit == Init /\ ticksLeft = MaxTicks /\ faults = 0

NextTick(t) ==
  /\ ticksLeft > 0
  /\ \A u \in Tick : At(u, "idle")
  /\ run.lease # "live"
  /\ Begin(t)
  /\ ticksLeft' = ticksLeft - 1
  /\ UNCHANGED faults

Progress(t) == Step(t) /\ UNCHANGED <<ticksLeft, faults>>

Failure(t) ==
  /\ faults < MaxFaults
  /\ Fault(t)
  /\ faults' = faults + 1
  /\ UNCHANGED ticksLeft

MessageArrives == \E m \in sent \ received : Arrive(m) /\ UNCHANGED <<ticksLeft, faults>>

TimePasses == LeaseExpires /\ UNCHANGED <<ticksLeft, faults>>

WindowNext ==
  \/ \E t \in Tick : NextTick(t) \/ Progress(t) \/ Failure(t)
  \/ MessageArrives
  \/ TimePasses

\* The cron keeps firing while the window lasts, the runtime resumes a tick whose
\* await is over, what is not a failure gets through, and time passes.
Fairness ==
  /\ \A t \in Tick : WF_windowVars(NextTick(t)) /\ WF_windowVars(Progress(t))
  /\ WF_windowVars(MessageArrives)
  /\ WF_windowVars(TimePasses)

WindowSpec == WindowInit /\ [][WindowNext]_windowVars /\ Fairness

\* One tick without a failure is enough, whatever the failed ticks before it
\* left in the row: every status but completed is one a later tick goes on from.
RunCompletes == <>(run.status = "completed")
=============================================================================
