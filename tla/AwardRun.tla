------------------------------ MODULE AwardRun ------------------------------
(***************************************************************************)
(* One row of the D1 table award_runs, the run of one award for one closed *)
(* period, and the guarded SQL statements of src/src/repository.rs that    *)
(* write it.  Every statement is one atomic UPDATE: an operator from the   *)
(* row it finds to the row it leaves, which is the same row when the WHERE *)
(* clause does not match.                                                  *)
(*                                                                         *)
(* Kept of a row: the status, the winner, the prepared award event (its    *)
(* JSON and its id are two columns written together), and the Discord      *)
(* claim: token, lease and the message_sent flag.  Left out: the winner's  *)
(* statistics, error_message and the two timestamps, which no statement    *)
(* tests, and push_notified_at, which only a completed row can carry.      *)
(***************************************************************************)

CONSTANTS
  Creator,   \* creators the ranking endpoint may propose
  Stamp,     \* seconds at which an event is signed (created_at)
  Token,     \* Discord claim tokens, 16 random bytes in the code
  NULL       \* SQL NULL, Rust None

(***************************************************************************)
(* A signed award event (kind 8).  Its id is a hash of the winner, the     *)
(* badge coordinate, the period and created_at: for one run, two events    *)
(* are the same event exactly when winner and second are.                  *)
(***************************************************************************)
Award == [winner : Creator, stamp : Stamp]

ASSUME NullAssumption == NULL \notin Creator \cup Stamp \cup Token \cup Award

Undecided   == {"pending", "failed_fetch", "skipped_inactive"}
Issuing     == {"award_prepared", "failed_award"}
Deliverable == {"awarded", "awarded_discord_pending"}
Issued      == Deliverable \cup {"discord_sending", "completed"}
Status      == Undecided \cup Issuing \cup Issued \cup {"failed_definition"}

Row ==
  [ status : Status \cup {"absent"},
    winner : Creator \cup {NULL},
    award  : Award \cup {NULL},
    token  : Token \cup {NULL},
    lease  : {"none", "live", "expired"},
    sent   : BOOLEAN ]

\* The columns that go with each status.
Shape(r) ==
  /\ r.winner = NULL => r.status \in Undecided \cup {"absent"}
  /\ r.winner # NULL => r.status \notin {"absent", "failed_fetch", "skipped_inactive"}
  /\ r.award # NULL => r.winner = r.award.winner /\ r.status \in Issuing \cup Issued
  /\ r.status \in {"award_prepared"} \cup Issued => r.award # NULL
  /\ r.token # NULL <=> r.status = "discord_sending"
  /\ r.lease # "none" <=> r.status = "discord_sending"
  /\ r.sent <=> r.status = "completed"

\* No row yet for this award and period.
AbsentRow ==
  [ status |-> "absent", winner |-> NULL, award |-> NULL,
    token |-> NULL, lease |-> "none", sent |-> FALSE ]

\* upsert_award_run: INSERT ... ON CONFLICT DO NOTHING of AwardRun::pending.
InsertPending(r) ==
  IF r.status = "absent" THEN [AbsentRow EXCEPT !.status = "pending"] ELSE r

-----------------------------------------------------------------------------
(* Choosing the winner. *)

\* Faulty: the WHERE clause forgets winner_pubkey IS NULL.
ClaimWinnerRow_Overwrites(r, c) ==
  IF r.status \in Undecided
  THEN [r EXCEPT !.winner = c, !.status = "pending"]
  ELSE r

\* Faulty: the WHERE clause forgets the states a retry starts from.
ClaimWinnerRow_PendingOnly(r, c) ==
  IF r.winner = NULL /\ r.status = "pending"
  THEN [r EXCEPT !.winner = c]
  ELSE r

\* The first winner written stays: a later claim finds winner_pubkey set.
ClaimWinnerRow(r, c) ==
  IF r.winner = NULL /\ r.status \in Undecided
  THEN [r EXCEPT !.winner = c, !.status = "pending"]
  ELSE r

MarkUndecided(r, status) ==
  IF r.winner = NULL /\ r.award = NULL /\ r.status \in Undecided
  THEN [r EXCEPT !.status = status]
  ELSE r

MarkFetchFailedRow(r)     == MarkUndecided(r, "failed_fetch")
MarkSkippedInactiveRow(r) == MarkUndecided(r, "skipped_inactive")

-----------------------------------------------------------------------------
(* Signing and publishing the award. *)

MarkDefinitionFailedRow(r) ==
  IF r.winner # NULL /\ r.award = NULL /\ r.status \in {"pending", "failed_definition"}
  THEN [r EXCEPT !.status = "failed_definition"]
  ELSE r

MarkPreparationFailedRow(r) ==
  IF /\ r.winner # NULL /\ r.award = NULL
     /\ r.status \in {"pending", "failed_definition", "failed_award"}
  THEN [r EXCEPT !.status = "failed_award"]
  ELSE r

\* Faulty: the WHERE clause forgets prepared_award_event IS NULL.
ClaimPreparedAwardRow_Overwrites(r, e) ==
  IF r.winner # NULL /\ r.status \notin {"award_prepared"} \cup Issued
  THEN [r EXCEPT !.award = e, !.status = "award_prepared"]
  ELSE r

\* Faulty: the bindings are shifted by one column.
ClaimPreparedAwardRow_Shifted(r, e) ==
  IF r.award = NULL /\ r.status \notin {"award_prepared"} \cup Issued
  THEN [r EXCEPT !.award = r.winner, !.status = "award_prepared"]
  ELSE r

\* The first signed event written stays: a later claim finds it stored.
ClaimPreparedAwardRow(r, e) ==
  IF /\ r.winner # NULL /\ r.award = NULL
     /\ r.status \notin {"award_prepared"} \cup Issued
  THEN [r EXCEPT !.award = e, !.status = "award_prepared"]
  ELSE r

\* Faulty: the WHERE clause forgets the status.
MarkAwardFailedRow_AnyStatus(r) ==
  IF r.award # NULL THEN [r EXCEPT !.status = "failed_award"] ELSE r

MarkAwardFailedRow(r) ==
  IF r.award # NULL /\ r.status \in Issuing
  THEN [r EXCEPT !.status = "failed_award"]
  ELSE r

MarkAwardedRow(r, e) ==
  IF r.award # NULL /\ r.award = e /\ r.status \in Issuing
  THEN [r EXCEPT !.status = "awarded"]
  ELSE r

-----------------------------------------------------------------------------
(* Delivering the Discord announcement. *)

\* Faulty: a delivery whose claimer died is never taken over.
ClaimDiscordDeliveryRow_NoTakeover(r, k) ==
  IF ~r.sent /\ r.status \in Deliverable
  THEN [r EXCEPT !.status = "discord_sending", !.token = k, !.lease = "live"]
  ELSE r

\* Free to claim: waiting for a delivery, or claimed under a lease that is over.
ClaimDiscordDeliveryRow(r, k) ==
  IF /\ ~r.sent
     /\ \/ r.status \in Deliverable
        \/ r.status = "discord_sending" /\ r.lease = "expired"
  THEN [r EXCEPT !.status = "discord_sending", !.token = k, !.lease = "live"]
  ELSE r

\* Faulty: the WHERE clause forgets the token.
MarkDiscordPendingRow_AnyToken(r, k) ==
  IF r.status = "discord_sending"
  THEN [r EXCEPT !.status = "awarded_discord_pending", !.token = NULL, !.lease = "none"]
  ELSE r

MarkDiscordPendingRow(r, k) ==
  IF r.status = "discord_sending" /\ r.token = k
  THEN [r EXCEPT !.status = "awarded_discord_pending", !.token = NULL, !.lease = "none"]
  ELSE r

\* Faulty: the claim's columns are not cleared.
MarkCompletedRow_KeepsClaim(r, k) ==
  IF r.status = "discord_sending" /\ r.token = k
  THEN [r EXCEPT !.status = "completed", !.sent = TRUE]
  ELSE r

MarkCompletedRow(r, k) ==
  IF r.status = "discord_sending" /\ r.token = k
  THEN [r EXCEPT !.status = "completed", !.sent = TRUE, !.token = NULL, !.lease = "none"]
  ELSE r
=============================================================================
