# A verification of Divine Badges

TLA+ modules, TLC configurations and TLAPS proofs for the program in this
repository: the Cloudflare Worker that awards the Diviner badges, and the badge
client it serves. The modules and PROJECT.json write paths with the repository as
`src/`, so the Worker's Rust code is in `src/src/`; below, a bare file name of
Rust code is one of those.

## The system

**The Worker** is started by a cron trigger at minute 35 of every hour. A tick
(`run_award_tick`) computes the periods that just closed, and for each one
drives a row of `award_runs` in D1 from `pending` to `completed`: rank the
creators, claim a winner, publish the badge definition, sign and store one award
event, publish it to the relay, announce it on Discord, have two push campaigns
created. After the periods it sends the day's creator digest. Every tick of a day
sees the same closed day, so each tick is also the retry of those before it; and
nothing keeps two ticks from running at the same time.

**The client** is JavaScript in the browser. It reads and publishes Nostr events
through several relays. Its lists (profile badges, contacts, relays) are
replaceable events: each change publishes a new version of the whole list.

| Part | State it keeps | Operations | Talks to |
| --- | --- | --- | --- |
| Award run store (`repository.rs`) | rows of `award_runs`, `badge_definitions`, `digest_runs` | guarded `UPDATE`s, each followed by a `SELECT` | D1 |
| Award tick (`use_cases.rs`) | locals of one tick | the body of the period loop | store, ranking API, relay, Discord |
| Discord delivery (`deliver_discord`) | a claim token and its lease in the row | claim, post, settle | store, webhook, clock |
| Push notification (`notify_engagement`) | `push_notified_at` in the row | claim, two campaigns, release | store, divine-engagement |
| Creator digest (`digest.rs`, `run_creator_digest`) | the day's row of `digest_runs`, a walk's cursor and list | read, walk, claim, campaign, release | store, statistics API, divine-engagement |
| Periods, eligibility (`period.rs`, `eligibility.rs`, `divine_api.rs`) | none | pure functions | |
| Worker relay client (`relay_client.rs`) | one websocket exchange | send, AUTH, wait for OK | relay |
| HTTP routes (`worker_entry.rs` and others) | none | render, publish the profile | store, relay |
| Browser relay client (`nostr/relay.js`, `publish.js`) | one query or publish | query with a timeout, merge, publish to many | relays |
| Replaceable lists (`badges.js`, `badge.js`, `me.js`, `profile.js`, `relays.js`) | the version a page loaded | read, modify, publish | relays |
| Badge studio (`new.js`, `edit_badge.js`, `blossom.js`) | a form | upload, save, award | relays, Blossom |
| Browser session (`auth/`) | tokens in local storage | restore, login, logout | login server |
| Deployment checks (`scripts/`, `deploy.yml`) | a run's outcome; the versions and what is live | compare with main, check migrations, deploy, verify | GitHub, D1, Cloudflare |

**What is hard.** Two ticks interleave at every `await`, and a tick goes on with
a row it read several awaits ago. A tick may end anywhere: the isolate is
evicted, or D1 returns an error, also for a statement it applied. The relay,
Discord and divine-engagement may do what they were asked and lose the answer. A
claim whose claimer is gone must come free, but not while the claimer is alive. A
run is only looked at for a bounded number of ticks. In the browser, a list read
too early, or read from relays that did not answer in time, replaces a newer one.

**What correct means.** One winner and one award event per run, whatever
overlaps; what the row says is true of the relay and of Discord; nobody else is
announced; an issued run never goes back; a delivery is settled by its holder;
duplicate announcements only where an answer was lost; a run that is not
completed is completed by a later tick; a digest reaches everyone or nobody. For
the client: no list loses an entry it was not asked to drop; an edit reported as
saved is held by a relay; a logout lasts; a badge is saved as its form showed it,
and awarded by its author only. For the deployment: no older commit over a newer
one, migrations first, and a release recorded as verified is one.

## The modules

| Module | Models | From |
| --- | --- | --- |
| `AwardRun` | one row of `award_runs` and its guarded statements, as operators from row to row | `repository.rs:32-78`, `models.rs`, `state.rs` |
| `AwardTick` | overlapping ticks on one run, one action per await; the relay and Discord as messages sent and received | `use_cases.rs:64-282`, `402-472`, `repository.rs:295-659` |
| `AwardPromise` | what the run promises to who watches the relay and Discord | abstract |
| `AwardWindow` | `AwardTick` with the ticks of one run's window counted, and failures counted | `period.rs`, `worker_entry.rs:45-78` |
| `DiscordDelivery` | the delivery with its clock: lease, timeout, delays | `use_cases.rs:402-472` |
| `PushNotification` | the claim and the two campaigns | `use_cases.rs:474-534`, `engagement.rs` |
| `CreatorDigest` | the walk over the statistics, the claim and the campaign | `use_cases.rs:544-623`, `digest.rs` |
| `EditedList` | what a list promises to the person who edits it | abstract |
| `ReplaceableList` | profile badges, contacts and relays: pages read a list, edit it and publish it through several relays | `nostr/relay.js`, `publish.js`, `badges.js`, `views/badge.js`, `me.js`, `profile.js`, `relays.js` |
| `BrowserSession` | who is signed in, in the tabs of one browser | `auth/session.js` |
| `MePage` | one visit of `/me`: logins, loading of awards and clicks that overlap | `views/me.js` |
| `BadgeStudio` | the forms that make, edit and award a badge, on top of the session | `views/new.js`, `edit_badge.js`, `badge.js`, `media/blossom.js` |
| `Deployment` | runs of the deployment workflow, main, D1's migrations, the live version | `deploy.yml`, `scripts/` |
| `MC...` | symmetry, or constants that are functions and sets, for model checking | |
| `...Proofs` | theorems and proofs | |

`AwardTick` composes the row, the tick, the relay and Discord. `AwardWindow`
conjoins its actions with two counters. `DiscordDelivery`, `PushNotification` and
`CreatorDigest` are separate because what they are about (time, campaigns, a
walk) is not in the award's columns: a completed row is never written again
except for `push_notified_at`, which `AwardTick` leaves out, and the digest has a
table of its own.

The client and the Worker meet only on the relays. `ReplaceableList` refines
`EditedList`. `BadgeStudio` extends `BrowserSession` and composes the two: what a
form may do depends on the tab's signer, and leaving a page or logging out ends
the form. The lists are not composed with the session: their handlers keep the
signer they started with, and a page has one signer as long as it is open. `/me` is
the exception: one can log in and out there without leaving it. `BrowserSession`
takes each login on it as one step; `MePage` takes it apart, and looks at nothing
but which account's list is handed to which account's signer.

### How the actions correspond to the code

- *One action per await.* Code between two awaits touches only locals and is part
  of the action before it or, where it decides between several awaits (preparing
  the award event), an action of its own that changes locals only.
- *A guarded update is two statements* (`execute_guarded_update`,
  `repository.rs:309-329`): the `UPDATE`, and a `SELECT` that reads the row back.
  Where the tick goes on with what it reads these are two actions (`ClaimWinner`,
  `ReadWinner`), and another tick may write in between. Where the row read back
  is only put in the tick's report (`mark_award_failed` and the like) it is one.
- *A tick that ends* is `Stop`, possible at every await. A `?` on a D1 error is
  the same to the run. A statement applied whose answer was lost is the
  statement's action followed by `Stop`.
- *The relay and Discord* are two sets: messages sent, and those of them that
  arrived. A message arrives at any time after it was sent, also after its sender
  gave up, or never. `Ok` needs the message to have arrived; an error is always
  possible. So an error does not mean that nothing happened.
- *A signed event* is its winner and the second it was signed in. Its id hashes
  those with the badge coordinate and the period, which are the same for every
  tick on a run: the coordinate is a function of the issuer's key and the award's
  slug (`relay_client.rs:136-153`). For this reason `StoredEventFits` compares
  the winner only.
- *Statuses are the code's.* `absent` is the row that does not exist yet.
- *Claim tokens* are 16 random bytes: a new one differs from every token in use.
- *The badge definition's row* keeps only its saved event. The seed's insertion
  (`ON CONFLICT DO NOTHING`) has no effect on the coordinate and is part of
  `Begin`. `Init` allows a definition saved by an earlier run.
- *Gates.* `notify_engagement` returns at once for week and month runs, and when
  the campaign API is not configured or the run is not announceable; the digest
  when it is not enabled. There is then nothing to model; the modules are about
  ticks that pass the gate.

### The client

- *Between two awaits nothing interleaves.* A handler runs to its next `await` in
  one action. A click builds its event at once, from what the page has then
  (`Begin`); the write relays are looked up and the signer asked before it is sent
  (`Sign`, `Decline`).
- *A relay* (`Relay`) is not part of the repository. It answers a query or not;
  it stores an event and says so in time (`Confirm`), or it stores it and nobody
  hears of it (`GiveUp`, then `ReachUnheard`), or it never does. It keeps the
  version with the larger `created_at`; of two from one second, either.
- *A query that timed out counts as answered* (`relay.js:100`): a page with status
  `empty` may be about a list that is not empty. `unknown` needs every relay to
  fail. This is `Readings`.
- *After a save* the pages differ, and so do the actions: the badge page and `/me`
  read again (`ReadAgain`) and use what they had until then, the public profile
  reloads only if every relay took the event (`SavedOnProfile`), following and
  `/relays` take what they sent for what there is (`Adopt`).
- *Clocks.* `created_at` is the clock of the device, ahead by at most `MaxSkew`.
  The clock is read at clicks only and only compared, so it moves with them.
- *A session* is its account. A page restores the stored one or the cookie's
  (`Loaded`), waits for the signer (`Restored`, `RestoreFails`, `SharedRestored`,
  `SharedFails`), and asks it for its key: a page whose signer does not tell it
  (`NoOne`) behaves as one without. `/me` shows its login form while it waits.
- *A logout* in one tab leaves the others signed in. `stale` marks what was begun
  before it.
- *A handler* of `/me` is a job: which account it is about and which await it is at.
  `boot` marks the restore that `mountMePage` begins, whose failure shows the form
  again. A click puts its account and the page's signer together (`requests`).
- *A form* is a record. Names and identifiers are always filled in. `reached` and
  `lost` count the page's events that relays stored and those of them it was told
  had failed: they are history, nothing reads them. A page that is left while
  sending may or may not have its event stored (`Abandon`).

### The deployment

- A run of the workflow goes through `stage`s; its checks before the comparison
  with main have no effect on the state and are part of `checking`. `Fail` ends it
  in any step: a check, a command or a request fails or does not find what it
  wants. `RunnerLost` ends it without a receipt.
- `wrangler deploy` is two actions, the upload and the activation; the step may
  be reported as failed although the version is live (`Deploy`).
- A commit is its position on main. `Required` gives the migrations of its tree.
- GitHub's queue and Cloudflare's deployments are modelled from how the workflow
  uses them. It is assumed that what a lost runner had asked for has happened by
  the time the run counts as ended, or never does. Versions uploaded from a
  maintainer's machine are left out; putting any version live by hand is not.

## The runs

| Run | Instance | Shows |
| --- | --- | --- |
| `award_tick` | 2 slots, 2 creators, 2 seconds, 3 tokens, unbounded ticks | the type invariant, six safety invariants, three action properties, and the refinement of `AwardPromise` |
| `award_window` | 1 slot, 4 ticks, at most 3 failures | `RunCompletes` |
| `discord_delivery` | 3 ticks, lease 4, three delays of 1, clock to 10 | no overlapping posts, duplicates only after a loss, an OK is recorded, a completed run is quiet |
| `push_notification` | 3 slots, 3 failures | one sender at a time, a mark that is true, claims repeated only after failures, campaigns created in the end |
| `creator_digest` | 2 slots, 4 creators, 1 a page, cap 2, 3 pages, 2 failures | no shortened list, a notified day was sent, its claim stays |
| `digest_sent` | 2 slots, 3 creators, cap 1, 2 pages, 2 failures | `EventuallySent` |
| `replaceable_list` | 2 relays, 2 entries, 2 pages, 2 edits, any one of the three lists | `SavedIsHeld` in any environment; `CalmEdits`, the refinement of `EditedList`, in the calm one |
| `badge_studio` | 2 tabs, 2 accounts, a form in one tab, an image and a thumbnail, 2 saves | a logout lasts, an extra event answers a lost one, awards are the author's, the thumbnail is the one asked for |
| `deployment` | 2 runs started twice, 3 commits, 1 migration, 2 changes by hand | no rollback by a run, migrations first, verified and superseded are true |
| `follows_preserved` | 1 relay, 1 page, 1 click | a disagreement, see below |
| `definition_once` | as `award_tick` | a disagreement, see below |
| `me_page` | 2 accounts, 2 handlers at once | a disagreement, see below |

**Why the bounds are enough.** Slots run ticks one after the other without a
limit, so the number of ticks is not bounded, only how many overlap. What the
statements' guards prevent needs two ticks, one that acts on what the other
changed. Two creators and two seconds are enough to tell a second winner or a
second event from the first. Three tokens: one in the row and one for each tick.
The proofs remove these bounds. Symmetry is used where values are only compared
for equality and no liveness is checked. In `discord_delivery` three ticks let one
be overtaken twice, and the clock goes far enough for two leases to run out one
after the other. In `creator_digest` a walk takes one, two or three pages, pages
may be empty in the middle, the cap and the page bound are both exceeded in some
days, and rows arrive between pages. Two failures there are one release and one
lost claim.

In `replaceable_list` one relay is Divine's and the other is found through the
published list. Two edits are enough for one to overwrite the other; `a` is not in
the list at first and `b` is, or there is no list. Outside the calm environment
only one page is used and one entry edited (`RoughPage`, `RoughOffered`): its two
clicks may still overlap, and what `SavedIsHeld` is about, lost and late answers, is
between one handler and the relays. Both devices' clocks agree (`MaxSkew` is 0):
two edits in one second are still there. In `badge_studio` the second tab has no
form (`StudioTab`): it is there to sign in, log out and refresh tokens meanwhile.
One account makes badges and has the cookie, the other signs in through Divine. Two
saves (`MaxSaves`) are one that is lost and one that is tried again. In
`deployment` an old run is overtaken by a newer one in both orders, since either
run may be the first and both may be started again (`MaxAttempts`), and two changes
by hand (`MaxByHand`) are one away and one back.

Deadlock is checked, except where the model really stops: `AwardWindow` when its
ticks are used up, `DiscordDelivery` when every tick is done and the clock is
at its bound, and `ReplaceableList`, `MePage`, `BadgeStudio` and `Deployment`, where people may
stop and the bounds on clicks, saves, attempts and changes are used up.

**The calm environment.** The list pages are written for an environment that
nothing in them enforces, and `CalmEdits` says what they achieve in it: the Divine
relay has the list, answers and takes events in time; one edit is over before the
next is begun; a page that is behind an edit of another page is opened again
before it is used; and clocks order the edits. Each of these is needed: without
any one of them TLC finds a change that nobody asked for. The first one failing is the
finding `follows_preserved`; the others are hazards of PROJECT.json. The other relay
is not calm: it may lose, delay and answer as it likes, and pages may mix. What
holds in any environment is `SavedIsHeld`.

**Fairness.** `AwardWindow` assumes that the cron fires while the window lasts,
that the runtime resumes a tick whose await is over, that time passes, and that a
message which is not a failure arrives. It runs ticks one after the other: they
are an hour apart, and the lease of five minutes a dead tick left behind is over
when the next one starts. Failures are not fair, they are bounded: with fewer of
them than ticks some tick meets none, and the property says that one such tick is
enough whatever the others left behind. A ranking with no eligible creator counts
as a failure, since nobody can then be awarded. `PushNotification` and
`CreatorDigest` assume that ticks keep coming and that what does not fail goes on,
and bound the failures. None of these bounds how long the ticks take: that they
fit into the window is the cron's business.

`ReplaceableList`, `MePage`, `BadgeStudio` and `Deployment` assume no fairness and promise
nothing in the end: a person may stop, a relay may stay silent.

**Exceptions the properties state.** `MarkedMeansCreated`, `NotifiedMeansSent`
and the two liveness properties except a tick that was gone between its claim and
its release (`lost`). These claims have no lease: after such a tick nobody
retries. `NotifiedMeansSent` also excepts a day that had nobody to tell when it
was claimed: if its aggregates arrive later, it is not sent. `LogoutLasts` is about the
time until somebody signs in again, and it does not cover what pages from before
the logout do: one that is still open stays signed in, and stores its session again
when its tokens are refreshed (`session.js:78`) or the cookie's session it was
restoring is there (`session.js:160`). `ExtraEventsWereLost` allows what the code
allows: a save whose answer was lost can be tried again.

### Where documents and code disagree

- `README.md:25` says that a tick publishes the badge definition once. The code
  tests the coordinate, publishes, and then saves it: two overlapping ticks, or a
  tick after a lost answer, publish it again with another timestamp
  (`DefinitionPublishedOnce`, run `definition_once`). The event is addressable, so
  the relay keeps the newer one.
- `README.md:15` says that following the awardees preserves the existing follows. A
  query for the contact list that times out counts as answered with nothing, and
  the page then builds the new list on a blank one (`FollowsPreserved`, run
  `follows_preserved`).
- The client's design (`2026-04-14-badges-client-design.md:142`) says that `/me` is
  the workspace of the currently connected user. A login there does not end a restore
  or a loading of awards that is under way (`me.js:207-222`). If they overlap, the
  panel may show one account's awards while the page's signer is another's, and a
  click hands the first one's list to the second one's signer (`SignsOwnList`, run
  `me_page`). What the signer then does, refuse or sign it under its own key, is
  not in this repository.

## What is proved

TLAPS proves these for every value of the constants: any number of ticks,
creators, seconds and tokens; of runs, commits, migrations and changes by hand; of
tabs, forms, accounts, pictures and saves; of pages and caps of the statistics; of
relays, entries and clicks. Every invariant and every action property of a passing
run is here.

| Module | Theorem | Property |
| --- | --- | --- |
| `AwardTickProofs` | `TypeCorrect` | `TypeOK` |
| | `OneAward` | `OneAwardEvent` |
| | `IssuedIsPublished` | `IssuedMeansPublished` |
| | `AnnouncementIsTrue` | `AnnouncedTruthfully` |
| | `DefinitionFirst` | `AwardHasDefinition` |
| | `ReadBack` | `ReadBackComplete` |
| | `ColumnsFitStatus` | `RowShape` |
| | `ClaimsAreFinal` | `FirstClaimStays` |
| | `RunsMoveForward` | `NoStepBack` |
| | `HolderSettles` | `OnlyHolderSettles` |
| | `Implementation` | `KeepsPromise` |
| `DiscordDeliveryProofs` | `TypeCorrect` | `TypeOK` |
| | `OnePostAtATime` | `NoOverlappingPosts` |
| | `OkIsRecorded` | `OkCompletes` |
| | `DuplicatesAreLosses` | `ExtraPostsWereLost` |
| | `CompletedIsQuiet` | `NoPostAfterCompleted` |
| `PushNotificationProofs` | `TypeCorrect` | `TypeOK` |
| | `OneSenderAtATime` | `OneSender` |
| | `MarkIsTrue` | `MarkedMeansCreated` |
| | `ClaimsArePaid` | `ExtraClaimsAreRetries` |
| `DeploymentProofs` | `TypeCorrect` | `TypeOK` |
| | `MigrationsPrecede` | `MigrationsFirst` |
| | `VerifiedIsTrue` | `VerifiedMeansServed` |
| | `SupersededIsTrue` | `SupersededIsOld` |
| | `NoRollback` | `NeverRollsBack` |
| `BadgeStudioProofs` | `TypeCorrect` | `TypeOK` |
| | `LogoutIsKept` | `LogoutLasts` |
| | `ExtraEvents` | `ExtraEventsWereLost` |
| | `AwardsByAuthors` | `AwardsAreTheAuthors` |
| | `ThumbIsAsChosen` | `ThumbAsChosen` |
| `CreatorDigestProofs` | `TypeCorrect` | `TypeOK` |
| | `DigestIsWhole` | `NobodyLeftOut` |
| | `MarkIsTrue` | `NotifiedMeansSent` |
| | `ClaimStays` | `MarkStays` |
| `ReplaceableListProofs` | `TypeCorrect` | `TypeOK` |
| | `SavedStaysHeld` | `SavedIsHeld` |
| | `Implementation` | `CalmEdits` |
| | `CalmFollowing` | `calm => FollowsPreserved` |
| `MePageProofs` | `OrderlyVisits` | `SignsOwnList`, if always `Orderly` |

**Assumptions.** `NullAssumption`: NULL is none of the other values.
`ConstantsAssumption` and `PushAssumption`: numbers are natural numbers and NULL
is no tick. `DeploymentAssumption`: the bounds are natural numbers, and commit 0
needs no migration, since it is live before any is applied here. `LeaseAssumption`: the time from reading the clock to starting the
post, the webhook's timeout and the time from its answer to settling the claim
fit, together, into the lease. The code gives the lease (five minutes) and the
timeout (twenty seconds); nothing in it bounds the other two, and a tick does not
look at its lease again before it posts. All ticks read one clock.
`SessionAssumption`, `StudioAssumption` and `NoDefinitionAssumption`: nobody is no
account and no definition is no definition, the tabs with forms are tabs and the
badges' authors accounts, an image is not a thumbnail, and the pages are the four
the module has. `DigestAssumption`: NULL is no tick, no creator and no list of
them; a page of the statistics has room for one creator and a walk may take one
page (the code: 500 and 40), the caps are natural numbers. `ListAssumption` and
`NoVersionAssumption`: there is a Divine relay and a tab, the sets of relays and
entries contain what they are parts of, no version is no version, the bounds are
natural numbers. The number of relays need not be finite. `CalmFollowing` assumes
in its statement that a list was there before the pages are used.

**The award.** The properties are not inductive as they stand. A stale tick is harmless
because of where it is and what it remembers, so `IInv` adds `TickInv(t)`: what a
tick read of the winner and of the event, if it read one, is what the row still
has; a tick at one of the later labels has a winner, a definition on the relay, an
event equal to the stored one; a tick that delivers found the run issued. With
it, each statement can be looked at alone. `AwardTickProofs` first proves a lemma
about each statement of `AwardRun` (types, the shape of the row, what it leaves
alone), puts together what any write to the row keeps for the *other* ticks, and
then goes through the actions, one step each. The refinement follows from the
invariant: the winner is written once, the event is signed for it, `Arrive` of
the award is `Publish`, `Arrive` of an announcement is `Announce`, `MarkCompleted`
is `Complete`, and all else stutters.

**The delivery.** `IInv` bounds the clock by where each tick is: a tick that may
still post read the clock at most `StartDelay` ago, so its own lease still runs,
so no other tick could take the claim, so the row still carries its token
(`TickInv`). Every property follows from that.

**The push notification.** Whoever is between claim and release is the one in the
row; it remembers whether a campaign failed; and each claim given back was paid
for with a failure, which is what bounds `claims`.

**The deployment.** That a run does not roll back needs the past of all the others:
between its comparison with main and its activation main may move on, but nobody
else may deploy. `IInv` says so: at most one run is running (`OneRunning`); what is
live or uploaded is never ahead of main (`NoneAhead`); and what a run has compared,
uploaded and seen still stands (`RunInv`), in particular, once it has compared, no
version is newer than its commit. For `VerifiedMeansServed` the run remembers the
deployment it saw: ids only grow, so if the second look finds the same one, every
version that answered in between was the run's own.

**The session and the studio.** `LogoutLasts` speaks of pages that are signed in; what
breaks it would be a page that is about to be. `SessionInv` therefore says of every
tab that is signed in *or still restoring* that it is of before the logout. For the
forms, `IInv` ties a page's form to its tab (`PageInv`): a form that is shown has
the signer it was shown to, and no login goes on in its tab, because a login needs a
page that is loading, has no signer, or is `/me`. So a save is signed by whom the
form is about, although the handler reads the signer after its awaits. `DraftInv`
keeps the event built at the click apart from the pictures that still arrive, and
`CountInv` counts a save from the click to its answer. The proof has a lemma for what
happens in one tab (`OneTab`): the other forms rely only on their own tab and on
definitions not going away.

**The digest.** `NobodyLeftOut` speaks of a campaign and needs the walk that led to
it. `WalkInv` says that the list a walk has collected holds every creator up to its
cursor who was there before any walk began (`early`), whatever rows arrive while it
goes on, and nobody without activity. The step that needs an argument is one page:
what a page scanned has no gap (`ScanHasNoGap`), its cursor is the last it scanned
(`NextIsLast`), so every creator up to the new cursor is on it or before it
(`PageIsComplete`); a page without a cursor had all that were left. That a page
with a cursor has a last creator rests on the library's theorem that `<` is
well-founded (`Least`, `Greatest`). A tick that ends between two awaits
leaves nothing but the claim, and whose claim it is, is in the row (`HolderInv`).

**The lists, in any environment.** For `SavedIsHeld` it is enough to follow one OK:
the relay that said it has the event or a newer one (`ClickInv`), and no relay goes
back (`Grows`), also when late events of other clicks reach it. So the fact survives
until the handler says "saved", and from then on some relay has a version that is
not older.

**The lists, in the calm environment.** `CalmInv` says why the next event is built on
the list as it stands. Between edits the Divine relay has the newest version there is
(`SeedInv`), so a page that reads then has the list (`ReadingIsCurrent`), and a page
that is not behind still has it (`UpToDate`). At a click the new event is therefore
the list with the edit (`Fresh`), it is newer than every version on a relay or under
way (`Latest`), and every other page is behind from then on (`Alone`). When the event
first reaches a relay the list becomes the edited one: `Apply`. Every later arrival
of it, and every late arrival of an event of an earlier click, changes nothing,
because the Divine relay has something at least as new (`StoreChangesNothing`). A
click maps to `Ask`, the end of its handler to `Answer`, all else stutters. No step of
the proof says that the relays besides the Divine one answer.

`CalmFollowing` is the other side of the finding `follows_preserved`: a follow is
only lost outside the calm environment. In it a click on *follow* keeps what was
there before on every relay that has a list.

**A visit of `/me`.** `OrderlyVisits` is the other side of the finding `me_page`, and says
what the page would have to see to: that no login goes on while a handler about
another account has not come back (`Orderly`). Then a handler past its login is about
the signer's account, the panel shows that account's awards or none, and the form
means that none are shown (`VisitInv`). The condition is part of the statement;
nothing in the code provides it.

**Only model-checked:** the liveness properties (`RunCompletes`,
`EventuallyCreated`, `EventuallySent`), which are out of the prover's reach, and the
disagreements, which are refuted by a counterexample. That each condition of the
calm environment is needed was found by TLC, and is not a theorem.

## What is not modelled, and why

- *Wording*: the announcement, the notifications, the pages. `announcement_message`
  is here only as a step that can fail.
- *Statistics of the winner* and error messages: written, never tested. The
  overflow check `js_safe_i64` is one of the errors of `RankError`.
- *HTTP routes*: stateless, or one relay publish behind a bearer token.
- *Several periods in one tick*: the runs of a day, a week and a month are
  different rows with different award slugs. What couples them, that an error in
  one period ends the tick before the others, is planned.
- *The rest of the client*: names and pictures of profiles, the tabs and cards, what
  badge definitions are shown beside a list, the landing pages, identifiers and
  Markdown. They read and render. The relay check of `/relays` queries and shows.
  The local overrides of `/relays` are parameters of `ReplaceableList`.
- *The login server and signers*: an external service and a library; their outcomes
  are in `BrowserSession`.
- *The Worker's relay exchange*: planned, see below.

## Plan

Done: the award tick, its window, delivery, notification and digest; the lists, the
session and studio of the client; the deployment; the proofs of their safety and
action properties and of both refinements. What is left, in the order of importance:

1. `ScheduledTick`: day, week, month and digest in one tick, the `?` that ends it,
   and each run's window; the composition of what is proved for one run.
2. `RelayPublish`: the Worker's websocket exchange with AUTH, refined to the
   outcomes `AwardTick` assumes.
3. The definitions shown beside the lists (`me.js:291-295`), which keep the oldest of
   several versions where relays disagree.
4. Pure algorithms against reference definitions: closed periods and keys,
   validation and eligibility of candidates, the order of RFC 3339 texts, which the
   lease compares.
