----------------------------- MODULE Deployment -----------------------------
(***************************************************************************)
(* How a commit of main reaches production (.github/workflows/deploy.yml,  *)
(* scripts/check-remote-migrations.mjs, scripts/verify-deployment.mjs).    *)
(* A run of the workflow belongs to one commit; run again, it keeps it.    *)
(* Runs are serialized by their concurrency group.  Meanwhile main moves   *)
(* on, migrations are applied by hand, and a maintainer may put another    *)
(* version live.  Any step may fail, and the runner may be lost.           *)
(*                                                                         *)
(* Outside the repository, modelled from how the workflow uses them: the   *)
(* queue of GitHub's concurrency group, which keeps one waiting run and    *)
(* cancels an older one; and Cloudflare's versions and deployments, where  *)
(* every change of what is served is a deployment with an id of its own.   *)
(* What a lost runner has asked for has happened by then or never does.    *)
(***************************************************************************)
EXTENDS Naturals, Sequences

CONSTANTS
  Run,          \* runs of the workflow
  Migration,
  Required,     \* the migrations in the tree of each commit
  MaxCommit,    \* bound: commits pushed to main, numbered in order,
  MaxAttempts,  \*        times a run is started,
  MaxByHand     \*        changes of the live version by hand

Commit == 0..MaxCommit

ASSUME DeploymentAssumption ==
  /\ MaxCommit \in Nat /\ MaxAttempts \in Nat /\ MaxByHand \in Nat
  /\ Required \in [Commit -> SUBSET Migration]
  /\ Required[0] = {}

VARIABLES
  main,         \* the head of main
  applied,      \* names in d1_migrations
  versions,     \* the commit each version of the Worker was made from
  live,         \* the latest deployment and the versions it serves
  byHand,       \* changes of it by hand so far
  run

vars == <<main, applied, versions, live, byHand, run>>

Stage == {"absent", "queued", "checking", "compared", "migrated", "uploaded",
          "deployed", "active", "healthy", "ended"}

RunState == [stage    : Stage,
             commit   : Commit,
             attempts : 0..MaxAttempts,
             version  : Nat,       \* of Wrangler's receipt; 0 when there is none
             seen     : Nat,       \* the deployment of the first checkActive
             answered : Nat,       \* the version that answered the health check
             result   : {"none", "failed", "superseded", "verified"}]

(* Every value keeps to its set, and refers to versions there are. *)
TypeOK ==
  /\ main \in Commit
  /\ applied \subseteq Migration
  /\ versions \in Seq(Commit)
  /\ live \in [id : Nat, serving : SUBSET DOMAIN versions]
  /\ byHand \in 0..MaxByHand
  /\ run \in [Run -> RunState]
  /\ \A r \in Run : run[r].stage = "uploaded" => run[r].version \in DOMAIN versions

Fresh(commit, attempts) ==
  [stage |-> "queued", commit |-> commit, attempts |-> attempts,
   version |-> 0, seen |-> 0, answered |-> 0, result |-> "none"]

Init ==
  /\ main = 0
  /\ applied = {}
  /\ versions = <<0>>
  /\ live = [id |-> 1, serving |-> {1}]
  /\ byHand = 0
  /\ run = [r \in Run |-> [Fresh(0, 0) EXCEPT !.stage = "absent"]]

-----------------------------------------------------------------------------
(* The concurrency group. *)
Running(r) == run[r].stage \notin {"absent", "queued", "ended"}

Queue(r, commit) ==
  /\ run[r].attempts < MaxAttempts
  /\ run' = [q \in Run |->
       IF q = r THEN Fresh(commit, run[r].attempts + 1)
       ELSE IF run[q].stage = "queued" THEN [run[q] EXCEPT !.stage = "ended"]
       ELSE run[q]]

Push(r) ==
  /\ run[r].stage = "absent"
  /\ main < MaxCommit
  /\ main' = main + 1
  /\ Queue(r, main + 1)
  /\ UNCHANGED <<applied, versions, live, byHand>>

(* workflow_dispatch on main. *)
Dispatch(r) ==
  /\ run[r].stage = "absent"
  /\ Queue(r, main)
  /\ UNCHANGED <<main, applied, versions, live, byHand>>

Rerun(r) ==
  /\ run[r].stage = "ended"
  /\ Queue(r, run[r].commit)
  /\ UNCHANGED <<main, applied, versions, live, byHand>>

(* Faulty: no concurrency group. *)
Start_Overlapping(r) ==
  /\ run[r].stage = "queued"
  /\ run' = [run EXCEPT ![r].stage = "checking"]
  /\ UNCHANGED <<main, applied, versions, live, byHand>>

Start(r) ==
  /\ run[r].stage = "queued"
  /\ \A q \in Run : ~Running(q)
  /\ run' = [run EXCEPT ![r].stage = "checking"]
  /\ UNCHANGED <<main, applied, versions, live, byHand>>

-----------------------------------------------------------------------------
(* The steps of a run.  The native and wasm checks and the secrets come    *)
(* before the comparison with main.                                        *)
Step(r, from) ==
  /\ run[r].stage = from
  /\ UNCHANGED <<main, applied, byHand>>

Ends(r, result) == run' = [run EXCEPT ![r].stage = "ended", ![r].result = result]

(* Faulty: the head could not be read, which counts as another head. *)
CheckHead_Unread(r) ==
  /\ Step(r, "checking")
  /\ \/ run[r].commit = main /\ run' = [run EXCEPT ![r].stage = "compared"]
     \/ Ends(r, "superseded")
  /\ UNCHANGED <<versions, live>>

CheckHead(r) ==
  /\ Step(r, "checking")
  /\ IF run[r].commit = main
     THEN run' = [run EXCEPT ![r].stage = "compared"]
     ELSE Ends(r, "superseded")
  /\ UNCHANGED <<versions, live>>

(* Faulty: pending migrations are only reported. *)
CheckMigrations_Reported(r) ==
  /\ Step(r, "compared")
  /\ run' = [run EXCEPT ![r].stage = "migrated"]
  /\ UNCHANGED <<versions, live>>

(* Any other answer is a failure: Fail. *)
CheckMigrations(r) ==
  /\ Step(r, "compared")
  /\ Required[run[r].commit] \subseteq applied
  /\ run' = [run EXCEPT ![r].stage = "migrated"]
  /\ UNCHANGED <<versions, live>>

(* Faulty: Wrangler's receipt is not read. *)
UploadVersion_NoReceipt(r) ==
  /\ Step(r, "migrated")
  /\ versions' = Append(versions, run[r].commit)
  /\ run' = [run EXCEPT ![r].stage = "uploaded"]
  /\ UNCHANGED live

(* wrangler deploy makes a version, tagged with the commit, and then a     *)
(* deployment of it.                                                       *)
UploadVersion(r) ==
  /\ Step(r, "migrated")
  /\ versions' = Append(versions, run[r].commit)
  /\ run' = [run EXCEPT ![r].stage = "uploaded", ![r].version = Len(versions) + 1]
  /\ UNCHANGED live

Serve(some) == live' = [id |-> live.id + 1, serving |-> some]

(* The step may fail although the version is live. *)
Deploy(r, reported) ==
  /\ Step(r, "uploaded")
  /\ Serve({run[r].version})
  /\ IF reported THEN run' = [run EXCEPT ![r].stage = "deployed"] ELSE Ends(r, "failed")
  /\ UNCHANGED versions

-----------------------------------------------------------------------------
(* verifyDeployment: who is live, does the public address answer, and is   *)
(* the same deployment still live.                                         *)
IsActive(r) == live.serving = {run[r].version}

FirstCheckActive(r) ==
  /\ Step(r, "deployed")
  /\ IsActive(r)
  /\ versions[run[r].version] = run[r].commit
  /\ run' = [run EXCEPT ![r].stage = "active", ![r].seen = live.id]
  /\ UNCHANGED <<versions, live>>

CheckHealth(r, version) ==
  /\ Step(r, "active")
  /\ version \in live.serving
  /\ run' = [run EXCEPT ![r].stage = "healthy", ![r].answered = version]
  /\ UNCHANGED <<versions, live>>

(* Faulty: the version is compared and not the deployment. *)
SecondCheckActive_Version(r) ==
  /\ Step(r, "healthy")
  /\ IsActive(r)
  /\ Ends(r, "verified")
  /\ UNCHANGED <<versions, live>>

SecondCheckActive(r) ==
  /\ Step(r, "healthy")
  /\ IsActive(r)
  /\ live.id = run[r].seen
  /\ Ends(r, "verified")
  /\ UNCHANGED <<versions, live>>

(* A check, a step or a request fails, or does not find what it wants. *)
Fail(r) ==
  /\ Running(r)
  /\ Ends(r, "failed")
  /\ UNCHANGED <<main, applied, versions, live, byHand>>

(* The runner is lost, or the run cancelled: there is no receipt. *)
RunnerLost(r) ==
  /\ Running(r)
  /\ Ends(r, "none")
  /\ UNCHANGED <<main, applied, versions, live, byHand>>

-----------------------------------------------------------------------------
(* By hand: migrations, of main or of a change not yet merged; and any     *)
(* version there is, or a share of the traffic for two.                    *)
ApplyMigration(m) ==
  /\ m \notin applied
  /\ applied' = applied \cup {m}
  /\ UNCHANGED <<main, versions, live, byHand, run>>

PutLive(some) ==
  /\ byHand < MaxByHand
  /\ byHand' = byHand + 1
  /\ Serve(some)
  /\ UNCHANGED <<main, applied, versions, run>>

Next ==
  \/ \E r \in Run :
       \/ Push(r) \/ Dispatch(r) \/ Rerun(r) \/ Start(r)
       \/ CheckHead(r) \/ CheckMigrations(r) \/ UploadVersion(r)
       \/ \E reported \in BOOLEAN : Deploy(r, reported)
       \/ FirstCheckActive(r)
       \/ \E version \in DOMAIN versions : CheckHealth(r, version)
       \/ SecondCheckActive(r)
       \/ Fail(r) \/ RunnerLost(r)
  \/ \E m \in Migration : ApplyMigration(m)
  \/ \E v, w \in DOMAIN versions : PutLive({v, w})

Spec == Init /\ [][Next]_vars

-----------------------------------------------------------------------------
(* A run puts its commit live only over versions that are not newer: "A    *)
(* run deploys only if its commit is still the head of main, so re-running *)
(* an old run does not roll production back" (README).  main may have      *)
(* moved on since the comparison; no run of a newer commit has, because    *)
(* activation is serialized.                                               *)
Activates(r) == run[r].stage = "uploaded" /\ live' # live

NeverRollsBack ==
  [][\A r \in Run : Activates(r) =>
       \A v \in live.serving : versions[v] <= run[r].commit]_vars

(* No version made by a run was made before its migrations were applied,   *)
(* so a rollback to it finds them too.                                     *)
MigrationsFirst ==
  \A v \in DOMAIN versions : Required[versions[v]] \subseteq applied

(* A run recorded as verified: its own version, made from its commit,      *)
(* answered the health check, whatever was put live by hand meanwhile.     *)
VerifiedMeansServed ==
  \A r \in Run : run[r].result = "verified" =>
    /\ run[r].answered = run[r].version
    /\ versions[run[r].version] = run[r].commit

(* A run recorded as superseded released nothing, and is of a commit that  *)
(* is not the head any more: "a green superseded run did not release       *)
(* anything" (README).                                                     *)
SupersededIsOld ==
  \A r \in Run : run[r].result = "superseded" =>
    run[r].version = 0 /\ run[r].commit < main
=============================================================================
