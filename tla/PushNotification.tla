-------------------------- MODULE PushNotification --------------------------
(***************************************************************************)
(* notify_engagement of src/src/use_cases.rs: every tick that finds the    *)
(* day's run completed tries to have its two push campaigns created.       *)
(* push_notified_at in the run's row says who may: it is claimed before    *)
(* the first call to divine-engagement and given back after the second     *)
(* when either failed, so that a later tick starts over.                   *)
(*                                                                         *)
(* Slots run ticks one after the other and concurrently, as in AwardTick.  *)
(* The column holds the claiming tick's clock reading in the code; here it *)
(* holds the slot.  divine-engagement is not part of the repository: it    *)
(* creates a campaign once per automation key, whatever it answers.        *)
(***************************************************************************)
EXTENDS Naturals

CONSTANTS
  Tick,          \* the tick slots
  NULL,          \* push_notified_at is not set
  MaxFailures    \* failures of divine-engagement, D1 or the isolate

ASSUME PushAssumption == NULL \notin Tick /\ MaxFailures \in Nat

Campaigns == {"winner", "broadcast"}

VARIABLES
  notified,   \* push_notified_at: the slot that claimed it, or NULL
  created,    \* the campaigns divine-engagement has
  pc,         \* where each tick is
  failed,     \* the ticks one of whose campaigns failed
  failures,   \* failures so far
  claims,     \* how often the column went from NULL to set
  lost        \* the ticks that were gone while they held the claim

vars == <<notified, created, pc, failed, failures, claims, lost>>

Holding == {"create_winner", "create_broadcast", "release"}
Label == {"idle", "claim"} \cup Holding

TypeOK ==
  /\ notified \in Tick \cup {NULL}
  /\ created \subseteq Campaigns
  /\ pc \in [Tick -> Label]
  /\ failed \subseteq Tick
  /\ failures \in 0..MaxFailures
  /\ claims \in 0..(MaxFailures + 1)
  /\ lost \subseteq Tick

Init ==
  /\ notified = NULL
  /\ created = {}
  /\ pc = [t \in Tick |-> "idle"]
  /\ failed = {}
  /\ failures = 0
  /\ claims = 0
  /\ lost = {}

-----------------------------------------------------------------------------
At(t, here) == pc[t] = here
Goto(t, there) == pc' = [pc EXCEPT ![t] = there]

\* The tick sees the run completed, and has campaigns for it.
Begin(t) ==
  /\ At(t, "idle")
  /\ Goto(t, "claim")
  /\ failed' = failed \ {t}
  /\ UNCHANGED <<notified, created, failures, claims, lost>>

\* Faulty: the WHERE clause forgets push_notified_at IS NULL.
Claim_Again(t) ==
  /\ At(t, "claim")
  /\ notified' = t
  /\ claims' = claims + 1
  /\ Goto(t, "create_winner")
  /\ UNCHANGED <<created, failed, failures, lost>>

\* claim_push_notification answers whether it changed the row.
Claim(t) ==
  /\ At(t, "claim")
  /\ IF notified = NULL
     THEN /\ notified' = t
          /\ claims' = claims + 1
          /\ Goto(t, "create_winner")
     ELSE /\ Goto(t, "idle")
          /\ UNCHANGED <<notified, claims>>
  /\ UNCHANGED <<created, failed, failures, lost>>

\* Faulty: only the last campaign's failure is looked at.
AfterCreate_LastOnly(t, campaign, ok) ==
  /\ failed' = IF ok THEN failed \ {t} ELSE failed \cup {t}
  /\ Goto(t, IF campaign = "winner" THEN "create_broadcast"
             ELSE IF ok THEN "idle" ELSE "release")

\* Faulty: the claim is given back also when nothing failed.
AfterCreate_Releases(t, campaign, ok) ==
  /\ failed' = IF ok THEN failed ELSE failed \cup {t}
  /\ Goto(t, IF campaign = "winner" THEN "create_broadcast" ELSE "release")

\* The broadcast is created even when the winner's campaign failed.
AfterCreate(t, campaign, ok) ==
  /\ failed' = IF ok THEN failed ELSE failed \cup {t}
  /\ Goto(t, IF campaign = "winner" THEN "create_broadcast"
             ELSE IF t \in failed' THEN "release" ELSE "idle")

Step(t, campaign) ==
  At(t, IF campaign = "winner" THEN "create_winner" ELSE "create_broadcast")

CreateOk(t, campaign) ==
  /\ Step(t, campaign)
  /\ created' = created \cup {campaign}
  /\ AfterCreate(t, campaign, TRUE)
  /\ UNCHANGED <<notified, failures, claims, lost>>

\* Not reached or refused; or created, and the answer was lost.
CreateError(t, campaign) ==
  /\ failures < MaxFailures
  /\ Step(t, campaign)
  /\ created' \in {created, created \cup {campaign}}
  /\ failures' = failures + 1
  /\ AfterCreate(t, campaign, FALSE)
  /\ UNCHANGED <<notified, claims, lost>>

\* Faulty: the claim is kept when some campaign was created.
Release_KeepsPartial(t) ==
  /\ At(t, "release")
  /\ notified' = IF created = {} THEN NULL ELSE notified
  /\ Goto(t, "idle")
  /\ UNCHANGED <<created, failed, failures, claims, lost>>

\* release_push_notification gives back this tick's claim only.
Release(t) ==
  /\ At(t, "release")
  /\ notified' = IF notified = t THEN NULL ELSE notified
  /\ Goto(t, "idle")
  /\ UNCHANGED <<created, failed, failures, claims, lost>>

\* The isolate is gone, or D1 failed: on a claim that was applied though its
\* answer was lost, or on the release.
Stop(t) ==
  /\ failures < MaxFailures
  /\ ~At(t, "idle")
  /\ failures' = failures + 1
  /\ lost' = IF pc[t] \in Holding THEN lost \cup {t} ELSE lost
  /\ Goto(t, "idle")
  /\ UNCHANGED <<notified, created, failed, claims>>

Progress(t) ==
  Begin(t) \/ Claim(t) \/ (\E c \in Campaigns : CreateOk(t, c)) \/ Release(t)

Next ==
  \E t \in Tick :
    \/ Progress(t)
    \/ \E c \in Campaigns : CreateError(t, c)
    \/ Stop(t)

\* Ticks keep coming while the day is ticked, and what does not fail goes on.
Spec == Init /\ [][Next]_vars /\ \A t \in Tick : WF_vars(Progress(t))

-----------------------------------------------------------------------------
(* However ticks overlap, at most one of them talks to divine-engagement.  *)
OneSender ==
  \A t, u \in Tick : pc[t] \in Holding /\ pc[u] \in Holding => t = u

\* A row marked as notified, by a tick that is over, has both its campaigns; a
\* failed one never hides behind the mark.  The exception is the tick that was
\* gone between its claim and its release: then nobody retries.
MarkedMeansCreated ==
  notified # NULL /\ pc[notified] \notin Holding => created = Campaigns \/ lost # {}

\* However often divine-engagement fails, a tick that comes when it no longer
\* does gets the campaigns created.
EventuallyCreated == <>(created = Campaigns \/ lost # {})

\* However many ticks see the day completed, and however they overlap: the column
\* is set for the first time, and then once for each failure at most.  Nobody is
\* notified again of a day for which nothing failed.
ExtraClaimsAreRetries == claims <= failures + 1

-----------------------------------------------------------------------------
(* Why: whoever talks to divine-engagement holds the claim, remembers what  *)
(* failed, and pays for every claim given back with a failure.              *)

HolderInv(t) ==
  /\ pc[t] \in Holding => notified = t
  /\ pc[t] \in {"claim", "create_winner"} => t \notin failed
  /\ pc[t] = "create_broadcast" => t \in failed \/ "winner" \in created
  /\ pc[t] = "release" => t \in failed
  /\ pc[t] \in Holding /\ t \in failed => claims <= failures

IInv ==
  /\ TypeOK
  /\ \A t \in Tick : HolderInv(t)
  /\ ExtraClaimsAreRetries
  /\ notified = NULL => claims <= failures
  /\ MarkedMeansCreated
=============================================================================
