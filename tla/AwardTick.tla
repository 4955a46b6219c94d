------------------------------ MODULE AwardTick ------------------------------
(***************************************************************************)
(* Overlapping scheduled ticks working on one award run: the body of the   *)
(* period loop of run_award_tick_with_clock and deliver_discord, in        *)
(* src/src/use_cases.rs, against the D1 row of AwardRun, the badge         *)
(* definition row, the relay and the Discord webhook.                      *)
(*                                                                         *)
(* A tick slot runs any number of ticks one after the other; the slots run *)
(* concurrently.  There is one action per await: between two of them other *)
(* ticks move.  A guarded update is two awaits in the code, the UPDATE and *)
(* the SELECT that reads the row back, and so two actions here whenever    *)
(* the tick uses what it reads.                                            *)
(*                                                                         *)
(* Stop ends a tick at any await: the isolate is evicted, or a D1 call     *)
(* returns an error and `?' leaves the tick.  A statement that was applied *)
(* but whose answer was lost is the statement's action followed by Stop.   *)
(***************************************************************************)
EXTENDS AwardRun

CONSTANT Tick   \* the tick slots: how many ticks may overlap

VARIABLES
  run,         \* the row of award_runs
  definition,  \* the event saved in badge_definitions, or NULL
  sent,        \* messages put on the wire, to the relay or to Discord
  received,    \* those of them that arrived
  pc,          \* where each tick is
  seen,        \* the columns of `run' a tick last read
  candidate,   \* the winner a tick proposes
  event,       \* the award event a tick prepared or publishes
  defined,     \* the definition event a tick publishes
  token        \* a tick's Discord claim token

vars == <<run, definition, sent, received, pc, seen, candidate, event, defined, token>>
locals == <<seen, candidate, event, defined, token>>
world  == <<definition, sent, received>>

DefinitionMsg(s) == [type |-> "definition", stamp |-> s]
AwardMsg(e)      == [type |-> "award", award |-> e]
AnnounceMsg(c)   == [type |-> "announcement", winner |-> c]

Message ==
  [type : {"definition"}, stamp : Stamp] \cup [type : {"award"}, award : Award]
    \cup [type : {"announcement"}, winner : Creator]

View == [winner : Creator \cup {NULL}, award : Award \cup {NULL}]
NoView == [winner |-> NULL, award |-> NULL]
ViewOf(r) == [winner |-> r.winner, award |-> r.award]

Label ==
  { "idle", "upsert", "load", "rank", "mark_skipped_inactive", "mark_fetch_failed",
    "claim_winner", "read_winner", "load_definition", "publish_definition",
    "await_definition_ok", "save_definition", "mark_definition_failed", "prepare",
    "mark_preparation_failed", "claim_award", "read_award", "publish_award",
    "await_award_ok", "mark_award_failed", "mark_awarded", "read_awarded",
    "claim_discord", "read_claim", "post", "await_post", "mark_completed",
    "mark_discord_pending" }

TypeOK ==
  /\ run \in Row
  /\ definition \in Stamp \cup {NULL}
  /\ sent \subseteq Message
  /\ received \subseteq sent
  /\ pc \in [Tick -> Label]
  /\ seen \in [Tick -> View]
  /\ candidate \in [Tick -> Creator \cup {NULL}]
  /\ event \in [Tick -> Award \cup {NULL}]
  /\ defined \in [Tick -> Stamp \cup {NULL}]
  /\ token \in [Tick -> Token \cup {NULL}]

\* The badge definition outlives a run: an earlier period may have saved it.
Init ==
  /\ run = AbsentRow
  /\ definition \in Stamp \cup {NULL}
  /\ sent = IF definition = NULL THEN {} ELSE {DefinitionMsg(definition)}
  /\ received = sent
  /\ pc = [t \in Tick |-> "idle"]
  /\ seen = [t \in Tick |-> NoView]
  /\ candidate = [t \in Tick |-> NULL]
  /\ event = [t \in Tick |-> NULL]
  /\ defined = [t \in Tick |-> NULL]
  /\ token = [t \in Tick |-> NULL]

-----------------------------------------------------------------------------
(* Steps that several actions are made of. *)

At(t, here) == pc[t] = here
Goto(t, there) == pc' = [pc EXCEPT ![t] = there]

\* The tick leaves this run and its locals are gone.
Leave(t) ==
  /\ Goto(t, "idle")
  /\ seen' = [seen EXCEPT ![t] = NoView]
  /\ candidate' = [candidate EXCEPT ![t] = NULL]
  /\ event' = [event EXCEPT ![t] = NULL]
  /\ defined' = [defined EXCEPT ![t] = NULL]
  /\ token' = [token EXCEPT ![t] = NULL]

Look(t) == seen' = [seen EXCEPT ![t] = ViewOf(run)]

Send(m) == sent' = sent \cup {m}

\* An update whose read-back the tick only reports: it leaves the run.
Mark(t, here, row) ==
  /\ At(t, here)
  /\ run' = row
  /\ Leave(t)
  /\ UNCHANGED world

\* An update whose read-back the tick goes on with.
Write(t, here, row, there) ==
  /\ At(t, here)
  /\ run' = row
  /\ Goto(t, there)
  /\ UNCHANGED <<world, locals>>

\* An await that ends in an error.
Fail(t, here, there) ==
  /\ At(t, here)
  /\ Goto(t, there)
  /\ UNCHANGED <<run, world, locals>>

-----------------------------------------------------------------------------
(* Opening the run. *)

\* The badge definition's seed row is inserted here; only its coordinate matters.
Begin(t) ==
  /\ At(t, "idle")
  /\ Goto(t, "upsert")
  /\ UNCHANGED <<run, world, locals>>

UpsertRun(t) == Write(t, "upsert", InsertPending(run), "load")

\* Where the loop body goes with the row it loaded.
Dispatch(r) ==
  IF r.status \in Deliverable \cup {"discord_sending"} THEN "claim_discord"
  ELSE IF r.winner = NULL THEN "rank"
  ELSE "load_definition"

LoadRun(t) ==
  /\ At(t, "load")
  /\ IF run.status = "completed"
     THEN Leave(t)
     ELSE /\ Look(t)
          /\ Goto(t, Dispatch(run))
          /\ UNCHANGED <<candidate, event, defined, token>>
  /\ UNCHANGED <<run, world>>

-----------------------------------------------------------------------------
(* Choosing the winner.  What the endpoint ranks first may differ from tick *)
(* to tick, so the winner is any creator.                                   *)

RankWinner(t) ==
  /\ At(t, "rank")
  /\ \E c \in Creator : candidate' = [candidate EXCEPT ![t] = c]
  /\ Goto(t, "claim_winner")
  /\ UNCHANGED <<run, world, seen, event, defined, token>>

\* Nobody ranked, or nobody eligible among those ranked.
RankNobody(t) == Fail(t, "rank", "mark_skipped_inactive")
RankError(t)  == Fail(t, "rank", "mark_fetch_failed")

MarkSkippedInactive(t) == Mark(t, "mark_skipped_inactive", MarkSkippedInactiveRow(run))
MarkFetchFailed(t)     == Mark(t, "mark_fetch_failed", MarkFetchFailedRow(run))

ClaimWinner(t) ==
  Write(t, "claim_winner", ClaimWinnerRow(run, candidate[t]), "read_winner")

ReadWinner(t) ==
  /\ At(t, "read_winner")
  /\ Look(t)
  /\ Goto(t, "load_definition")
  /\ UNCHANGED <<run, world, candidate, event, defined, token>>

-----------------------------------------------------------------------------
(* The badge definition. *)

LoadDefinition(t) ==
  /\ At(t, "load_definition")
  /\ Goto(t, IF definition = NULL THEN "publish_definition" ELSE "prepare")
  /\ UNCHANGED <<run, world, locals>>

PublishDefinition(t) ==
  /\ At(t, "publish_definition")
  /\ \E s \in Stamp :
       /\ defined' = [defined EXCEPT ![t] = s]
       /\ Send(DefinitionMsg(s))
  /\ Goto(t, "await_definition_ok")
  /\ UNCHANGED <<run, definition, received, seen, candidate, event, token>>

\* The relay answers OK for an event it has.
DefinitionOk(t) ==
  /\ At(t, "await_definition_ok")
  /\ DefinitionMsg(defined[t]) \in received
  /\ Goto(t, "save_definition")
  /\ UNCHANGED <<run, world, locals>>

\* Faulty: saves the coordinate whatever the relay said.
DefinitionError_Saved(t) == Fail(t, "await_definition_ok", "save_definition")

\* The relay was not reached, refused, or its answer was lost.
DefinitionError(t) == Fail(t, "await_definition_ok", "mark_definition_failed")

\* save_badge_definition: an UPDATE with no guard, the last one stays.
SaveDefinition(t) ==
  /\ At(t, "save_definition")
  /\ definition' = defined[t]
  /\ Goto(t, "prepare")
  /\ UNCHANGED <<run, sent, received, locals>>

MarkDefinitionFailed(t) ==
  Mark(t, "mark_definition_failed", MarkDefinitionFailedRow(run))

-----------------------------------------------------------------------------
(* The award event.  The steps at "prepare" are one stretch of code without *)
(* an await, on the row the tick saw last.                                  *)

\* stored_prepared_event: the event names the winner the tick goes by.
StoredEventFits(view, winner) == view.award # NULL /\ view.award.winner = winner

UseStoredAward(t) ==
  /\ At(t, "prepare")
  /\ seen[t].winner # NULL
  /\ seen[t].award # NULL
  /\ event' = [event EXCEPT ![t] = seen[t].award]
  /\ Goto(t, IF StoredEventFits(seen[t], seen[t].winner)
             THEN "publish_award" ELSE "mark_award_failed")
  /\ UNCHANGED <<run, world, seen, candidate, defined, token>>

SignAward(t) ==
  /\ At(t, "prepare")
  /\ seen[t].winner # NULL
  /\ seen[t].award = NULL
  /\ \E s \in Stamp :
       event' = [event EXCEPT ![t] = [winner |-> seen[t].winner, stamp |-> s]]
  /\ Goto(t, "claim_award")
  /\ UNCHANGED <<run, world, seen, candidate, defined, token>>

SignError(t) ==
  /\ seen[t].winner # NULL
  /\ seen[t].award = NULL
  /\ Fail(t, "prepare", "mark_preparation_failed")

MarkPreparationFailed(t) ==
  Mark(t, "mark_preparation_failed", MarkPreparationFailedRow(run))

ClaimAward(t) ==
  Write(t, "claim_award", ClaimPreparedAwardRow(run, event[t]), "read_award")

\* Faulty: publishes its own proposal though another tick's was stored first.
ReadAward_KeepsOwn(t) ==
  /\ At(t, "read_award")
  /\ Look(t)
  /\ Goto(t, "publish_award")
  /\ UNCHANGED <<run, world, candidate, event, defined, token>>

\* The stored event replaces the tick's own proposal.
ReadAward(t) ==
  /\ At(t, "read_award")
  /\ Look(t)
  /\ event' = [event EXCEPT ![t] = run.award]
  /\ Goto(t, IF StoredEventFits(ViewOf(run), seen[t].winner)
             THEN "publish_award" ELSE "mark_award_failed")
  /\ UNCHANGED <<run, world, candidate, defined, token>>

PublishAward(t) ==
  /\ At(t, "publish_award")
  /\ Send(AwardMsg(event[t]))
  /\ Goto(t, "await_award_ok")
  /\ UNCHANGED <<run, definition, received, locals>>

AwardOk(t) ==
  /\ At(t, "await_award_ok")
  /\ AwardMsg(event[t]) \in received
  /\ Goto(t, "mark_awarded")
  /\ UNCHANGED <<run, world, locals>>

\* Faulty: takes a lost answer for an OK.
AwardError_Awarded(t) == Fail(t, "await_award_ok", "mark_awarded")

AwardError(t) == Fail(t, "await_award_ok", "mark_award_failed")

MarkAwardFailed(t) == Mark(t, "mark_award_failed", MarkAwardFailedRow(run))

MarkAwarded(t) ==
  Write(t, "mark_awarded", MarkAwardedRow(run, event[t]), "read_awarded")

\* deliver_discord has nothing to do for a run already completed.
ReadAwarded(t) ==
  /\ At(t, "read_awarded")
  /\ IF run.status = "completed"
     THEN Leave(t)
     ELSE /\ Look(t)
          /\ Goto(t, "claim_discord")
          /\ UNCHANGED <<candidate, event, defined, token>>
  /\ UNCHANGED <<run, world>>

-----------------------------------------------------------------------------
(* The Discord announcement. *)

\* A random token differs from every token still in use.
FreshTokens == Token \ ({run.token} \cup {token[u] : u \in Tick})

ClaimDiscord(t) ==
  /\ At(t, "claim_discord")
  /\ \E k \in FreshTokens :
       /\ token' = [token EXCEPT ![t] = k]
       /\ run' = ClaimDiscordDeliveryRow(run, k)
  /\ Goto(t, "read_claim")
  /\ UNCHANGED <<world, seen, candidate, event, defined>>

\* The claim was acquired if the row read back still carries the token.
ReadClaim(t) ==
  /\ At(t, "read_claim")
  /\ IF run.status = "discord_sending" /\ run.token = token[t]
     THEN /\ Look(t)
          /\ Goto(t, "post")
          /\ UNCHANGED <<candidate, event, defined, token>>
     ELSE Leave(t)
  /\ UNCHANGED <<run, world>>

\* announcement_message found no text that fits Discord's limit.
MessageError(t) == Fail(t, "post", "mark_discord_pending")

Post(t) ==
  /\ At(t, "post")
  /\ Send(AnnounceMsg(seen[t].winner))
  /\ Goto(t, "await_post")
  /\ UNCHANGED <<run, definition, received, locals>>

PostOk(t) ==
  /\ At(t, "await_post")
  /\ AnnounceMsg(seen[t].winner) \in received
  /\ Goto(t, "mark_completed")
  /\ UNCHANGED <<run, world, locals>>

\* Faulty: takes a timeout for a delivery.
PostError_Completed(t) == Fail(t, "await_post", "mark_completed")

\* The webhook timed out or failed; it may have accepted, or still may.
PostError(t) == Fail(t, "await_post", "mark_discord_pending")

MarkCompleted(t) == Mark(t, "mark_completed", MarkCompletedRow(run, token[t]))

MarkDiscordPending(t) ==
  Mark(t, "mark_discord_pending", MarkDiscordPendingRow(run, token[t]))

-----------------------------------------------------------------------------
(* The world around the ticks. *)

\* The relay stores an event, or Discord takes a message, however late.
Arrive(m) ==
  /\ received' = received \cup {m}
  /\ UNCHANGED <<run, definition, sent, pc, locals>>

\* discord_lease_expires_at has passed.
LeaseExpires ==
  /\ run.lease = "live"
  /\ run' = [run EXCEPT !.lease = "expired"]
  /\ UNCHANGED <<world, pc, locals>>

Stop(t) ==
  /\ ~At(t, "idle")
  /\ Leave(t)
  /\ UNCHANGED <<run, world>>

\* What a tick does next when nothing fails.
Step(t) ==
  \/ UpsertRun(t) \/ LoadRun(t) \/ RankWinner(t) \/ ClaimWinner(t) \/ ReadWinner(t)
  \/ LoadDefinition(t) \/ PublishDefinition(t) \/ DefinitionOk(t) \/ SaveDefinition(t)
  \/ UseStoredAward(t) \/ SignAward(t) \/ ClaimAward(t) \/ ReadAward(t)
  \/ PublishAward(t) \/ AwardOk(t) \/ MarkAwarded(t) \/ ReadAwarded(t)
  \/ ClaimDiscord(t) \/ ReadClaim(t) \/ Post(t) \/ PostOk(t) \/ MarkCompleted(t)
  \/ MarkSkippedInactive(t) \/ MarkFetchFailed(t) \/ MarkDefinitionFailed(t)
  \/ MarkPreparationFailed(t) \/ MarkAwardFailed(t) \/ MarkDiscordPending(t)

\* What keeps a tick from finishing the run.
Fault(t) ==
  \/ RankNobody(t) \/ RankError(t) \/ DefinitionError(t) \/ SignError(t)
  \/ AwardError(t) \/ MessageError(t) \/ PostError(t) \/ Stop(t)

Next ==
  \/ \E t \in Tick : Begin(t) \/ Step(t) \/ Fault(t)
  \/ \E m \in sent \ received : Arrive(m)
  \/ LeaseExpires

Spec == Init /\ [][Next]_vars

-----------------------------------------------------------------------------
(* Safety. *)

\* However ticks overlap and fail, at most one award event ever leaves the
\* Worker for this run: the stored one, and it names the stored winner.
OneAwardEvent ==
  \A e \in Award : AwardMsg(e) \in sent => e = run.award /\ e.winner = run.winner

\* The row says the badge is issued only when the relay has the stored event.
IssuedMeansPublished == run.status \in Issued => AwardMsg(run.award) \in received

\* Discord hears of nobody but the stored winner, never before the relay has
\* the award, and a completed run was announced.
AnnouncedTruthfully ==
  /\ \A c \in Creator :
       AnnounceMsg(c) \in sent => c = run.winner /\ AwardMsg(run.award) \in received
  /\ run.status = "completed" => AnnounceMsg(run.winner) \in received

\* No award leaves before a definition it refers to is on the relay, and the
\* saved definition is one the relay has.
AwardHasDefinition ==
  /\ definition # NULL => DefinitionMsg(definition) \in received
  /\ \A e \in Award :
       AwardMsg(e) \in sent => \E s \in Stamp : DefinitionMsg(s) \in received

\* The row a claim reads back always has what was claimed, by this tick or by
\* another: the errors "claimed run is missing winner pubkey" and "missing
\* prepared award event", and a stored event that does not fit, never happen.
ReadBackComplete ==
  \A t \in Tick :
    /\ pc[t] = "prepare" => seen[t].winner # NULL
    /\ pc[t] \in {"publish_award", "await_award_ok", "mark_awarded", "mark_award_failed"}
         => event[t] = run.award /\ run.award # NULL /\ run.award.winner = seen[t].winner

\* The columns of the row always fit its status, whatever stale tick wrote last.
RowShape == Shape(run)

\* README.md:25 says a tick publishes the badge definition once.  The code saves
\* the coordinate after the relay's OK and tests it before publishing, so two
\* overlapping ticks, or a tick after a lost answer, publish it again.
DefinitionPublishedOnce ==
  \A s1, s2 \in Stamp :
    DefinitionMsg(s1) \in received /\ DefinitionMsg(s2) \in received => s1 = s2

-----------------------------------------------------------------------------
(* What no step may do. *)

\* The first winner and the first award event written are final.
FirstClaimStays ==
  [][/\ run.winner # NULL => run'.winner = run.winner
     /\ run.award # NULL => run'.award = run.award]_run

\* A tick that read the row long ago cannot take it back: an issued run stays
\* issued and a completed one is never written again.
NoStepBack ==
  [][/\ run.status \in Issued => run'.status \in Issued
     /\ run.status # "completed"]_run

\* Only the tick whose token the row carries settles a delivery: one whose
\* lease ran out and was taken over changes nothing.
OnlyHolderSettles ==
  [][run.status = "discord_sending" /\ run'.status # "discord_sending" =>
       \E t \in Tick : /\ pc[t] \in {"mark_completed", "mark_discord_pending"}
                      /\ token[t] = run.token]_vars

-----------------------------------------------------------------------------
(* Why the safety properties hold: what each tick may count on where it is.  *)

Opened == Label \ {"idle", "upsert"}
WinnerKnown ==
  { "load_definition", "publish_definition", "await_definition_ok", "save_definition",
    "mark_definition_failed", "prepare", "mark_preparation_failed", "claim_award",
    "read_award", "publish_award", "await_award_ok", "mark_award_failed", "mark_awarded" }
DefinitionKnown == {"prepare", "claim_award", "read_award", "publish_award"}
EventKnown == {"publish_award", "await_award_ok", "mark_award_failed", "mark_awarded"}
Delivering ==
  { "read_awarded", "claim_discord", "read_claim", "post", "await_post",
    "mark_completed", "mark_discord_pending" }

TickInv(t) ==
  /\ seen[t].winner # NULL => seen[t].winner = run.winner
  /\ seen[t].award # NULL => seen[t].award = run.award
  /\ pc[t] \in Opened => run.status # "absent"
  /\ pc[t] = "claim_winner" => candidate[t] # NULL
  /\ pc[t] = "read_winner" => run.winner # NULL
  /\ pc[t] \in WinnerKnown \cup {"post", "await_post"} => seen[t].winner # NULL
  /\ pc[t] \in {"await_definition_ok", "save_definition"} => defined[t] # NULL
  /\ pc[t] = "save_definition" => DefinitionMsg(defined[t]) \in received
  /\ pc[t] \in DefinitionKnown => \E s \in Stamp : DefinitionMsg(s) \in received
  /\ pc[t] = "claim_award" => event[t] # NULL /\ event[t].winner = seen[t].winner
  /\ pc[t] \in {"read_award"} \cup EventKnown => run.award # NULL
  /\ pc[t] \in EventKnown => event[t] = run.award
  /\ pc[t] = "mark_awarded" => AwardMsg(run.award) \in received
  /\ pc[t] \in Delivering => run.status \in Issued
  /\ pc[t] = "mark_completed" => AnnounceMsg(run.winner) \in received

WireInv ==
  OneAwardEvent /\ IssuedMeansPublished /\ AnnouncedTruthfully /\ AwardHasDefinition

IInv == TypeOK /\ RowShape /\ WireInv /\ \A t \in Tick : TickInv(t)

-----------------------------------------------------------------------------
(* The promise, seen through what the relay and Discord have received. *)

Promise ==
  INSTANCE AwardPromise WITH
    winner    <- run.winner,
    award     <- run.award,
    relay     <- {e \in Award : AwardMsg(e) \in received},
    announced <- {c \in Creator : AnnounceMsg(c) \in received},
    completed <- run.status = "completed"

\* The ticks, however they overlap, stop and retry, keep AwardPromise.
KeepsPromise == Promise!Spec
=============================================================================
