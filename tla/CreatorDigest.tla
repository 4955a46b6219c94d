---------------------------- MODULE CreatorDigest ----------------------------
(***************************************************************************)
(* run_creator_digest of src/src/use_cases.rs with fetch_all_stats and     *)
(* digest_campaign of src/src/digest.rs: every tick of a day reads whether *)
(* the day's digest is out, walks the whole statistics endpoint page by    *)
(* page, claims the day's row in digest_runs, and creates one campaign for *)
(* the creators it found.  A failed campaign gives the claim back.         *)
(*                                                                         *)
(* The day's aggregates may still be arriving while ticks walk.  The       *)
(* endpoint is not part of the repository: a page scans the next PageLimit *)
(* creators after the cursor, in pubkey order, and leaves out those        *)
(* without a public video.  divine-engagement keeps the first campaign     *)
(* created under an automation key.  The claim column holds the claiming   *)
(* tick's clock reading in the code; here it holds the slot.               *)
(***************************************************************************)
EXTENDS Integers, FiniteSets, FiniteSetsExt

CONSTANTS
  Tick,          \* the tick slots
  NULL,          \* SQL NULL: the day is not claimed; no campaign
  Creators,      \* how many creators there are; their pubkeys are 1..Creators
  PageLimit,     \* DIGEST_PAGE_LIMIT
  AudienceCap,   \* DIGEST_AUDIENCE_CAP
  MaxPages,      \* DIGEST_MAX_PAGES
  MaxFailures    \* failures of the endpoint, divine-engagement, D1 or the isolate

Pubkey == 1..Creators

ASSUME DigestAssumption ==
  /\ NULL \notin Tick \cup Pubkey /\ \A list \in SUBSET Pubkey : list # NULL
  /\ Creators \in Nat /\ PageLimit \in Nat \ {0}
  /\ AudienceCap \in Nat /\ MaxPages \in Nat \ {0} /\ MaxFailures \in Nat

VARIABLES
  stats,      \* each creator's row of the day: missing, or what it holds
  early,      \* the creators with activity before the day's first tick
  notified,   \* notified_at: the slot that claimed the day, or NULL
  count,      \* recipient_count, written with the claim
  campaign,   \* the recipients of the day's campaign, or NULL
  pc,         \* where each tick is
  after,      \* the cursor of its walk
  pages,      \* the pages it has read
  collected,  \* the entries it has found
  failures,   \* failures so far
  lost        \* the ticks that were gone while they held the claim

vars == <<stats, early, notified, count, campaign, pc, after, pages, collected, failures, lost>>
day  == <<notified, count, campaign>>
walk == <<after, pages, collected>>

\* private: activity, but no public video.  quiet: every metric is zero.
Kind  == {"missing", "private", "quiet", "active"}
Entry == Pubkey \X {"quiet", "active"}
Active == {c \in Pubkey : stats[c] = "active"}

Holding == {"create", "release"}
Label == {"idle", "read", "fetch", "claim"} \cup Holding

TypeOK ==
  /\ stats \in [Pubkey -> Kind]
  /\ early \subseteq Pubkey
  /\ notified \in Tick \cup {NULL}
  /\ count \in 0..AudienceCap
  /\ campaign \in (SUBSET Pubkey) \cup {NULL}
  /\ pc \in [Tick -> Label]
  /\ after \in [Tick -> 0..Creators]
  /\ pages \in [Tick -> 0..MaxPages]
  /\ collected \in [Tick -> SUBSET Entry]
  /\ failures \in 0..MaxFailures
  /\ lost \subseteq Tick

Init ==
  /\ stats \in [Pubkey -> Kind]
  /\ early = Active
  /\ notified = NULL
  /\ count = 0
  /\ campaign = NULL
  /\ pc = [t \in Tick |-> "idle"]
  /\ after = [t \in Tick |-> 0]
  /\ pages = [t \in Tick |-> 0]
  /\ collected = [t \in Tick |-> {}]
  /\ failures = 0
  /\ lost = {}

-----------------------------------------------------------------------------
At(t, here) == pc[t] = here
Goto(t, there) == pc' = [pc EXCEPT ![t] = there]

\* The digest is over for this tick, and its walk is gone.
Leave(t) ==
  /\ Goto(t, "idle")
  /\ after' = [after EXCEPT ![t] = 0]
  /\ pages' = [pages EXCEPT ![t] = 0]
  /\ collected' = [collected EXCEPT ![t] = {}]

Fail ==
  /\ failures < MaxFailures
  /\ failures' = failures + 1

\* The tick comes to the digest, and the digest is enabled.
Begin(t) ==
  /\ At(t, "idle")
  /\ Goto(t, "read")
  /\ UNCHANGED <<stats, early, day, walk, failures, lost>>

ReadNotified(t) ==
  /\ At(t, "read")
  /\ Goto(t, IF notified = NULL THEN "fetch" ELSE "idle")
  /\ UNCHANGED <<stats, early, day, walk, failures, lost>>

\* The read only saves a walk: without its answer the tick goes on.
ReadError(t) ==
  /\ At(t, "read")
  /\ Fail
  /\ Goto(t, "fetch")
  /\ UNCHANGED <<stats, early, day, walk, lost>>

-----------------------------------------------------------------------------
(* The walk over the statistics.                                           *)

\* The creators a page scans, those it returns, and whether more are behind it.
Candidates(cursor) == {c \in Pubkey : c > cursor /\ stats[c] # "missing"}
Scan(cursor) ==
  {c \in Candidates(cursor) :
     Cardinality({d \in Candidates(cursor) : d < c}) < PageLimit}
Entries(cursor) == {<<c, stats[c]>> : c \in {d \in Scan(cursor) : stats[d] # "private"}}
NextAfter(cursor) ==
  IF Scan(cursor) = Candidates(cursor) THEN NULL ELSE Max(Scan(cursor))

\* Faulty: a page without entries ends the walk.
WalkEnds_OnEmptyPage(entries, next) == entries = {} \/ next = NULL

\* A page without a cursor ends the walk; a short or empty one does not.
WalkEnds(entries, next) == next = NULL

\* Faulty: the audience cap is not looked at.
WalkFails_NoCap(found, next, page) == next # NULL /\ page >= MaxPages

\* More creators than the cap, or a cursor where the page bound is reached, is
\* an error and never a shorter list: the day stays unclaimed.
WalkFails(found, next, page) ==
  Cardinality(found) > AudienceCap \/ (next # NULL /\ page >= MaxPages)

FetchPage(t) ==
  /\ At(t, "fetch")
  /\ LET entries == Entries(after[t])
         next    == NextAfter(after[t])
         found   == collected[t] \cup entries
     IN  IF WalkFails(found, next, pages[t] + 1)
         THEN Leave(t)
         ELSE /\ collected' = [collected EXCEPT ![t] = found]
              /\ pages' = [pages EXCEPT ![t] = @ + 1]
              /\ IF WalkEnds(entries, next)
                 THEN Goto(t, "claim") /\ UNCHANGED after
                 ELSE after' = [after EXCEPT ![t] = next] /\ UNCHANGED pc
  /\ UNCHANGED <<stats, early, day, failures, lost>>

\* The page failed, or its cursor does not advance.
FetchError(t) ==
  /\ At(t, "fetch")
  /\ Fail
  /\ Leave(t)
  /\ UNCHANGED <<stats, early, day, lost>>

-----------------------------------------------------------------------------
(* The claim and the campaign.                                             *)

\* digest_campaign leaves out whoever has nothing to be told.
Recipients(t) == {c \in Pubkey : <<c, "active">> \in collected[t]}

\* Faulty: the claim forgets notified_at IS NULL.
ClaimDay_Again(t) ==
  /\ At(t, "claim")
  /\ notified' = t
  /\ count' = Cardinality(Recipients(t))
  /\ IF Recipients(t) = {} THEN Leave(t) ELSE Goto(t, "create") /\ UNCHANGED walk
  /\ UNCHANGED <<stats, early, campaign, failures, lost>>

\* A day with nobody to tell is claimed too, and its digest is over.
ClaimDay(t) ==
  /\ At(t, "claim")
  /\ IF notified = NULL
     THEN /\ notified' = t
          /\ count' = Cardinality(Recipients(t))
          /\ IF Recipients(t) = {}
             THEN Leave(t)
             ELSE Goto(t, "create") /\ UNCHANGED walk
     ELSE Leave(t) /\ UNCHANGED <<notified, count>>
  /\ UNCHANGED <<stats, early, campaign, failures, lost>>

\* divine-engagement keeps the first campaign of the day's automation key.
Kept(recipients) == IF campaign = NULL THEN recipients ELSE campaign

CreateOk(t) ==
  /\ At(t, "create")
  /\ campaign' = Kept(Recipients(t))
  /\ Leave(t)
  /\ UNCHANGED <<stats, early, notified, count, failures, lost>>

\* Faulty: a failed campaign keeps its claim.
CreateError_KeepsClaim(t) ==
  /\ At(t, "create")
  /\ Fail
  /\ campaign' \in {campaign, Kept(Recipients(t))}
  /\ Leave(t)
  /\ UNCHANGED <<stats, early, notified, count, lost>>

\* Not reached or refused; or created, and the answer was lost.
CreateError(t) ==
  /\ At(t, "create")
  /\ Fail
  /\ campaign' \in {campaign, Kept(Recipients(t))}
  /\ Goto(t, "release")
  /\ UNCHANGED <<stats, early, notified, count, walk, lost>>

\* release_digest_notification gives back this tick's claim only.
Release(t) ==
  /\ At(t, "release")
  /\ notified' = IF notified = t THEN NULL ELSE notified
  /\ Leave(t)
  /\ UNCHANGED <<stats, early, count, campaign, failures, lost>>

\* The isolate is gone, or D1 failed: on a claim that was applied though its
\* answer was lost, or on the release, whose error is only logged.
Stop(t) ==
  /\ ~At(t, "idle")
  /\ Fail
  /\ lost' = IF pc[t] \in Holding THEN lost \cup {t} ELSE lost
  /\ Leave(t)
  /\ UNCHANGED <<stats, early, day>>

\* The aggregation adds a creator's row, or counts into an empty one.
Aggregate(c) ==
  /\ \/ stats[c] = "missing" /\ \E k \in Kind \ {"missing"} : stats' = [stats EXCEPT ![c] = k]
     \/ stats[c] = "quiet" /\ stats' = [stats EXCEPT ![c] = "active"]
  /\ UNCHANGED <<early, day, pc, walk, failures, lost>>

Progress(t) ==
  \/ Begin(t) \/ ReadNotified(t) \/ FetchPage(t) \/ ClaimDay(t) \/ CreateOk(t) \/ Release(t)

Next ==
  \/ \E t \in Tick :
       Progress(t) \/ ReadError(t) \/ FetchError(t) \/ CreateError(t) \/ Stop(t)
  \/ \E c \in Pubkey : Aggregate(c)

\* Ticks keep coming while the day is ticked, and what does not fail goes on.
Spec == Init /\ [][Next]_vars /\ \A t \in Tick : WF_vars(Progress(t))

-----------------------------------------------------------------------------
\* A digest reaches every creator whose activity was there before the walk, and
\* nobody without activity, however rows arrive while ticks walk: a list cut
\* short by a page, a cap or an error never becomes a campaign.
NobodyLeftOut ==
  campaign # NULL => early \subseteq campaign /\ campaign \subseteq Active

\* A day that counts as notified, and whose claiming tick is over, has its
\* campaign, or had nobody to tell when it was claimed.  The exception is a tick
\* that was gone between its claim and its campaign: then nobody retries.
NotifiedMeansSent ==
  notified # NULL /\ pc[notified] \notin Holding =>
    campaign # NULL \/ count = 0 \/ lost # {}

\* A claim is given back by the tick that made it and by no other, and a day
\* that was claimed is not claimed again: the digest goes out once.
MarkStays ==
  [][notified # NULL /\ pc[notified] # "release" => notified' = notified]_vars

\* Too many creators for one campaign, or too many to scan in one walk.
TooLarge ==
  \/ Cardinality({c \in Pubkey : stats[c] \in {"quiet", "active"}}) > AudienceCap
  \/ Cardinality(Candidates(0)) > PageLimit * MaxPages

\* However often something fails, a tick that comes when it no longer does gets
\* the day sent, unless the day is too large for a digest.
EventuallySent == <>(campaign # NULL \/ TooLarge \/ lost # {} \/ (notified # NULL /\ count = 0))
=============================================================================
