--------------------------- MODULE DiscordDelivery ---------------------------
(***************************************************************************)
(* deliver_discord of src/src/use_cases.rs with its clock: ticks that find *)
(* one run awarded claim its delivery in D1 under a lease, post the        *)
(* announcement to the webhook with a timeout, and settle the claim.  Each *)
(* tick delivers once and its random claim token is the tick itself.       *)
(*                                                                         *)
(* AwardTick has the same statements with a lease that may run out at any  *)
(* moment; here the lease is a time, compared with the time the claiming   *)
(* tick read before its UPDATE was even sent.                              *)
(***************************************************************************)
EXTENDS Naturals, FiniteSets

CONSTANTS
  Tick,        \* the ticks that try to deliver
  NULL,        \* no token in the row
  Lease,       \* DISCORD_DELIVERY_LEASE
  Timeout,     \* DISCORD_WEBHOOK_TIMEOUT
  StartDelay,  \* longest time from reading the clock to starting the post
  MarkDelay,   \* longest time from the webhook's answer to settling the claim
  MaxTime      \* the bound on the clock

ASSUME ConstantsAssumption ==
  /\ NULL \notin Tick
  /\ Lease \in Nat /\ Timeout \in Nat
  /\ StartDelay \in Nat /\ MarkDelay \in Nat /\ MaxTime \in Nat

\* Five minutes of lease against twenty seconds of webhook timeout.  Nothing in
\* the code bounds the other two delays: it does not look at its lease again
\* before it posts.  That they fit is assumed of D1 and the runtime.
ASSUME LeaseAssumption == StartDelay + Timeout + MarkDelay < Lease

VARIABLES
  now,        \* the clock, the same for every tick
  row,        \* the delivery columns of the award_runs row
  pc,         \* where each tick is
  claimTime,  \* the time a tick read before claiming
  dueBy,      \* when what a tick is doing must be over
  wire,       \* posts that were sent, by the tick that sent them
  accepted    \* posts Discord accepted

vars == <<now, row, pc, claimTime, dueBy, wire, accepted>>

Deliverable == {"awarded", "awarded_discord_pending"}
Label ==
  { "start", "claim", "read_claim", "post", "posting", "mark_completed",
    "mark_discord_pending", "completed", "pending", "overtaken", "stopped" }

\* A tick in one of these is on the clock.
Timed == {"claim", "read_claim", "post", "posting", "mark_completed"}

TypeOK ==
  /\ now \in Nat
  /\ row \in [ status : Deliverable \cup {"discord_sending", "completed"},
               token : Tick \cup {NULL}, expires : Nat ]
  /\ pc \in [Tick -> Label]
  /\ claimTime \in [Tick -> Nat]
  /\ dueBy \in [Tick -> Nat]
  /\ accepted \subseteq wire
  /\ wire \subseteq Tick

Init ==
  /\ now = 0
  /\ row = [status |-> "awarded", token |-> NULL, expires |-> 0]
  /\ pc = [t \in Tick |-> "start"]
  /\ claimTime = [t \in Tick |-> 0]
  /\ dueBy = [t \in Tick |-> 0]
  /\ wire = {}
  /\ accepted = {}

-----------------------------------------------------------------------------
At(t, here) == pc[t] = here
Goto(t, there) == pc' = [pc EXCEPT ![t] = there]
Due(t, delay) == dueBy' = [dueBy EXCEPT ![t] = now + delay]

\* Faulty: any delivery under way may be taken over.
Free_AnyTime(r, time) == r.status \in Deliverable \cup {"discord_sending"}

\* The WHERE clause of claim_discord_delivery.
Free(r, time) ==
  \/ r.status \in Deliverable
  \/ r.status = "discord_sending" /\ r.expires <= time

ReadClock(t) ==
  /\ At(t, "start")
  /\ claimTime' = [claimTime EXCEPT ![t] = now]
  /\ Due(t, StartDelay)
  /\ Goto(t, "claim")
  /\ UNCHANGED <<now, row, wire, accepted>>

\* Faulty: the lease and the token are bound the other way round.
Claim_Swapped(t) ==
  /\ At(t, "claim")
  /\ row' = IF Free(row, claimTime[t])
            THEN [ status |-> "discord_sending", expires |-> t,
                   token |-> claimTime[t] + Lease ]
            ELSE row
  /\ Goto(t, "read_claim")
  /\ UNCHANGED <<now, claimTime, dueBy, wire, accepted>>

Claim(t) ==
  /\ At(t, "claim")
  /\ row' = IF Free(row, claimTime[t])
            THEN [ status |-> "discord_sending", token |-> t,
                   expires |-> claimTime[t] + Lease ]
            ELSE row
  /\ Goto(t, "read_claim")
  /\ UNCHANGED <<now, claimTime, dueBy, wire, accepted>>

\* Faulty: posts without looking whose claim it is.
ReadClaim_AnyToken(t) ==
  /\ At(t, "read_claim")
  /\ Goto(t, "post")
  /\ UNCHANGED <<now, row, claimTime, dueBy, wire, accepted>>

ReadClaim(t) ==
  /\ At(t, "read_claim")
  /\ Goto(t, IF row.status = "discord_sending" /\ row.token = t
             THEN "post" ELSE "overtaken")
  /\ UNCHANGED <<now, row, claimTime, dueBy, wire, accepted>>

Post(t) ==
  /\ At(t, "post")
  /\ wire' = wire \cup {t}
  /\ Due(t, Timeout)
  /\ Goto(t, "posting")
  /\ UNCHANGED <<now, row, claimTime, accepted>>

\* Discord may accept a post after the tick gave up on it.
Accept(t) ==
  /\ accepted' = accepted \cup {t}
  /\ UNCHANGED <<now, row, pc, claimTime, dueBy, wire>>

PostOk(t) ==
  /\ At(t, "posting")
  /\ t \in accepted
  /\ Due(t, MarkDelay)
  /\ Goto(t, "mark_completed")
  /\ UNCHANGED <<now, row, claimTime, wire, accepted>>

\* No connection, a status that is not 2xx, or the timeout at dueBy.
PostError(t) ==
  /\ At(t, "posting")
  /\ Goto(t, "mark_discord_pending")
  /\ UNCHANGED <<now, row, claimTime, dueBy, wire, accepted>>

Holds(t) == row.status = "discord_sending" /\ row.token = t

\* The claim's columns are cleared with the status.
Settled(status) == [status |-> status, token |-> NULL, expires |-> 0]

MarkCompleted(t) ==
  /\ At(t, "mark_completed")
  /\ row' = IF Holds(t) THEN Settled("completed") ELSE row
  /\ Goto(t, IF Holds(t) THEN "completed" ELSE "overtaken")
  /\ UNCHANGED <<now, claimTime, dueBy, wire, accepted>>

\* Faulty: releases the delivery of whoever holds it.
MarkDiscordPending_AnyToken(t) ==
  /\ At(t, "mark_discord_pending")
  /\ row' = IF row.status = "discord_sending"
            THEN Settled("awarded_discord_pending") ELSE row
  /\ Goto(t, "pending")
  /\ UNCHANGED <<now, claimTime, dueBy, wire, accepted>>

MarkDiscordPending(t) ==
  /\ At(t, "mark_discord_pending")
  /\ row' = IF Holds(t) THEN Settled("awarded_discord_pending") ELSE row
  /\ Goto(t, "pending")
  /\ UNCHANGED <<now, claimTime, dueBy, wire, accepted>>

\* The isolate is gone, or D1 answered with an error.
Stop(t) ==
  /\ pc[t] \in Timed \cup {"mark_discord_pending"}
  /\ Goto(t, "stopped")
  /\ UNCHANGED <<now, row, claimTime, dueBy, wire, accepted>>

AdvanceClock ==
  /\ now < MaxTime
  /\ \A t \in Tick : pc[t] \in Timed => now < dueBy[t]
  /\ now' = now + 1
  /\ UNCHANGED <<row, pc, claimTime, dueBy, wire, accepted>>

Next ==
  \/ \E t \in Tick :
       \/ ReadClock(t) \/ Claim(t) \/ ReadClaim(t) \/ Post(t) \/ PostOk(t)
       \/ PostError(t) \/ MarkCompleted(t) \/ MarkDiscordPending(t) \/ Stop(t)
  \/ \E t \in wire \ accepted : Accept(t)
  \/ AdvanceClock

Spec == Init /\ [][Next]_vars

-----------------------------------------------------------------------------
(* Two ticks never have a post to Discord under way at the same time.      *)
NoOverlappingPosts ==
  \A t, u \in Tick : At(t, "posting") /\ At(u, "posting") => t = u

\* Discord shows the announcement twice only when the answer to an earlier post
\* never reached its tick, or that tick was gone before it could settle the claim.
LostAnswer(t) == pc[t] \in {"mark_discord_pending", "pending", "stopped"}
ExtraPostsWereLost ==
  \A t, u \in accepted : LostAnswer(t) \/ LostAnswer(u) \/ t = u

\* A tick that posted and heard OK completes the run: it is never overtaken.
OkCompletes == \A t \in Tick : At(t, "mark_completed") => Holds(t)

\* Nothing is posted for a run that is already completed.
NoPostAfterCompleted == [][row.status = "completed" => wire' = wire]_vars

-----------------------------------------------------------------------------
(* Why: a tick that posts is still within its lease.                       *)

Posting == {"post", "posting", "mark_completed"}
Posted ==
  {"posting", "mark_completed", "mark_discord_pending", "completed", "pending", "stopped"}

ClockInv(t) ==
  /\ claimTime[t] <= now
  /\ pc[t] \in Timed => now <= dueBy[t]
  /\ pc[t] \in {"claim", "read_claim", "post"} => dueBy[t] <= claimTime[t] + StartDelay
  /\ pc[t] = "posting" => dueBy[t] <= claimTime[t] + StartDelay + Timeout
  /\ pc[t] = "mark_completed" => dueBy[t] <= claimTime[t] + StartDelay + Timeout + MarkDelay

RowInv ==
  /\ row.token = NULL <=> row.status # "discord_sending"
  /\ row.token # NULL => /\ row.expires = claimTime[row.token] + Lease
                         /\ pc[row.token] \notin {"start", "claim"}

TickInv(t) ==
  /\ pc[t] \in Posting => Holds(t)
  /\ pc[t] = "completed" => row.status = "completed"
  /\ t \in wire => pc[t] \in Posted

IInv ==
  /\ TypeOK
  /\ RowInv
  /\ \A t \in Tick : ClockInv(t) /\ TickInv(t)
  /\ \A t, u \in Tick : At(t, "completed") /\ At(u, "completed") => t = u
=============================================================================
