-------------------------- MODULE DeploymentProofs --------------------------
(***************************************************************************)
(* Proofs about Deployment, for any number of runs, commits, migrations    *)
(* and changes by hand.                                                    *)
(***************************************************************************)
EXTENDS Deployment, TLAPS

USE DeploymentAssumption DEF Commit, Step, Ends, Serve, Running, Fresh, IsActive

(* Where a run is, and what it may still rely on there. *)
RunInv(r) ==
  /\ run[r].commit <= main
  /\ run[r].stage \in {"queued", "checking"} => run[r].version = 0
  /\ run[r].stage = "queued" \/ Running(r) => run[r].result = "none"
  /\ run[r].stage \in {"compared", "migrated", "uploaded"} =>
       \A v \in DOMAIN versions : versions[v] <= run[r].commit
  /\ run[r].stage = "migrated" => Required[run[r].commit] \subseteq applied
  /\ run[r].stage \in {"uploaded", "deployed", "active", "healthy"} =>
       run[r].version \in DOMAIN versions /\ versions[run[r].version] = run[r].commit
  /\ run[r].stage \in {"active", "healthy"} =>
       run[r].seen <= live.id /\ (run[r].seen = live.id => IsActive(r))
  /\ run[r].stage = "healthy" /\ run[r].seen = live.id => run[r].answered = run[r].version
  /\ run[r].result = "verified" =>
       /\ run[r].answered = run[r].version
       /\ run[r].version \in DOMAIN versions
       /\ versions[run[r].version] = run[r].commit
  /\ run[r].result = "superseded" => run[r].version = 0 /\ run[r].commit < main

OneRunning == \A q, r \in Run : Running(q) /\ Running(r) => q = r

NoneAhead == \A v \in DOMAIN versions : versions[v] <= main

IInv ==
  /\ TypeOK
  /\ OneRunning
  /\ NoneAhead
  /\ MigrationsFirst
  /\ \A r \in Run : RunInv(r)

LEMMA InitIInv == Init => IInv
<1> SUFFICES ASSUME Init
             PROVE  IInv
  OBVIOUS
<1> USE DEF Init
<1>1. TypeOK
  BY DEF TypeOK, RunState, Stage
<1>2. OneRunning /\ NoneAhead /\ MigrationsFirst
  BY DEF OneRunning, NoneAhead, MigrationsFirst
<1>3. ASSUME NEW r \in Run
      PROVE  RunInv(r)
  BY DEF RunInv
<1> QED
  BY <1>1, <1>2, <1>3 DEF IInv

-----------------------------------------------------------------------------
(* A run is queued, by a push that moves main, or by hand. *)
LEMMA QueueKeeps ==
  ASSUME IInv, NEW r \in Run, NEW commit \in Commit,
         main' \in Commit, main <= main', commit <= main',
         Queue(r, commit),
         UNCHANGED <<applied, versions, live, byHand>>
  PROVE  IInv'
<1> USE DEF IInv, Queue
<1>1. TypeOK'
  <2>1. run' \in [Run -> RunState]
    <3>1. ASSUME NEW q \in Run
          PROVE  run'[q] \in RunState
      <4>1. run[q] \in RunState /\ run[r] \in RunState
        BY DEF TypeOK
      <4>2. CASE q = r
        BY <4>1, <4>2 DEF RunState, Stage
      <4>3. CASE q # r /\ run[q].stage = "queued"
        BY <4>1, <4>3 DEF RunState, Stage
      <4>4. CASE q # r /\ run[q].stage # "queued"
        BY <4>1, <4>4
      <4> QED
        BY <4>2, <4>3, <4>4
    <3> QED
      BY <3>1
  <2>2. ASSUME NEW q \in Run, run'[q].stage = "uploaded"
        PROVE  run'[q].version \in DOMAIN versions'
    BY <2>2 DEF TypeOK
  <2> QED
    BY <2>1, <2>2 DEF TypeOK
<1>2. ASSUME NEW q \in Run
      PROVE  /\ Running(q)' => run'[q] = run[q]
             /\ \/ run'[q] = run[q]
                \/ run'[q] = [run[q] EXCEPT !.stage = "ended"]
                \/ run'[q] = Fresh(commit, run[r].attempts + 1)
  <2>1. run[q] \in RunState
    BY DEF TypeOK
  <2> QED
    BY <2>1 DEF RunState
<1>3. OneRunning'
  BY <1>2 DEF OneRunning
<1>4. NoneAhead'
  BY DEF NoneAhead, TypeOK
<1>5. MigrationsFirst'
  BY DEF MigrationsFirst
<1>6. ASSUME NEW q \in Run
      PROVE  RunInv(q)'
  <2>1. run[q] \in RunState /\ main \in Nat /\ main' \in Nat
    BY DEF TypeOK
  <2>2. CASE run'[q] = run[q]
    BY <2>1, <2>2 DEF RunInv, RunState
  <2>3. CASE run'[q] = [run[q] EXCEPT !.stage = "ended"]
    BY <2>1, <2>3 DEF RunInv, RunState
  <2>4. CASE run'[q] = Fresh(commit, run[r].attempts + 1)
    BY <2>1, <2>4 DEF RunInv
  <2> QED
    BY <1>2, <2>2, <2>3, <2>4
<1> QED
  BY <1>1, <1>3, <1>4, <1>5, <1>6

-----------------------------------------------------------------------------
(* A step of one run: the others are not at work, and lose nothing.        *)
Alone(r) == \A q \in Run : Running(q) => q = r

LEMMA OthersKeep ==
  ASSUME IInv, NEW r \in Run, Alone(r), NEW q \in Run, q # r,
         run'[q] = run[q], UNCHANGED <<main, applied>>,
         \A v \in DOMAIN versions : v \in DOMAIN versions' /\ versions'[v] = versions[v]
  PROVE  RunInv(q)'
<1>1. ~Running(q)
  BY DEF Alone
<1> QED
  BY <1>1 DEF IInv, RunInv

LEMMA OneRunningKept ==
  ASSUME IInv, NEW r \in Run, Alone(r), \A q \in Run : q # r => run'[q] = run[q]
  PROVE  OneRunning'
BY DEF Alone, OneRunning

LEMMA RunKeeps ==
  ASSUME IInv, NEW r \in Run, Alone(r), NEW new \in RunState,
         run' = [run EXCEPT ![r] = new],
         UNCHANGED <<main, applied, versions, byHand>>,
         live' \in [id : Nat, serving : SUBSET DOMAIN versions],
         RunInv(r)'
  PROVE  IInv'
<1>1. run \in [Run -> RunState]
  BY DEF IInv, TypeOK
<1>2. \A q \in Run : q # r => run'[q] = run[q]
  BY <1>1
<1>3. OneRunning'
  BY <1>2, OneRunningKept
<1>4. \A q \in Run : RunInv(q)'
  BY <1>2, OthersKeep
<1>5. TypeOK'
  <2>1. run' \in [Run -> RunState]
    BY <1>1
  <2>2. ASSUME NEW q \in Run, run'[q].stage = "uploaded"
        PROVE  run'[q].version \in DOMAIN versions'
    BY <1>4, <2>2 DEF RunInv
  <2> QED
    BY <2>1, <2>2 DEF IInv, TypeOK
<1>6. NoneAhead' /\ MigrationsFirst'
  BY DEF IInv, NoneAhead, MigrationsFirst
<1> QED
  BY <1>3, <1>4, <1>5, <1>6 DEF IInv

LEMMA AtWorkAlone ==
  ASSUME IInv, NEW r \in Run, Running(r)
  PROVE  Alone(r)
BY DEF IInv, OneRunning, Alone

LEMMA StartKeeps ==
  ASSUME IInv, NEW r \in Run, Start(r)
  PROVE  IInv'
<1> USE DEF Start
<1> DEFINE new == [run[r] EXCEPT !.stage = "checking"]
<1>1. run[r] \in RunState /\ run \in [Run -> RunState]
  BY DEF IInv, TypeOK
<1>2. RunInv(r)'
  BY <1>1 DEF IInv, RunInv, TypeOK
<1>3. new \in RunState /\ run' = [run EXCEPT ![r] = new]
  BY <1>1 DEF RunState, Stage
<1>4. Alone(r)
  BY DEF Alone
<1> HIDE DEF new
<1> QED
  BY <1>2, <1>3, <1>4, RunKeeps DEF IInv, TypeOK

LEMMA CheckHeadKeeps ==
  ASSUME IInv, NEW r \in Run, CheckHead(r)
  PROVE  IInv'
<1> USE DEF CheckHead
<1> DEFINE new == [run[r] EXCEPT !.stage  = IF run[r].commit = main THEN "compared" ELSE "ended",
                                 !.result = IF run[r].commit = main THEN @ ELSE "superseded"]
<1>1. run[r] \in RunState /\ run \in [Run -> RunState] /\ main \in Nat
  BY DEF IInv, TypeOK
<1>2. new \in RunState /\ run' = [run EXCEPT ![r] = new]
  BY <1>1 DEF RunState, Stage
<1>3. RunInv(r)'
  <2>1. CASE run[r].commit = main
    <3>1. run'[r] = [run[r] EXCEPT !.stage = "compared"]
      BY <1>1, <2>1
    <3>2. \A v \in DOMAIN versions : versions[v] <= run[r].commit
      BY <2>1 DEF IInv, NoneAhead
    <3> QED
      BY <1>1, <3>1, <3>2 DEF IInv, RunInv, RunState
  <2>2. CASE run[r].commit # main
    BY <1>1, <2>2 DEF IInv, RunInv, RunState
  <2> QED
    BY <2>1, <2>2
<1>4. Alone(r)
  BY AtWorkAlone
<1> HIDE DEF new
<1> QED
  BY <1>2, <1>3, <1>4, RunKeeps DEF IInv, TypeOK

LEMMA CheckMigrationsKeeps ==
  ASSUME IInv, NEW r \in Run, CheckMigrations(r)
  PROVE  IInv'
<1> USE DEF CheckMigrations
<1> DEFINE new == [run[r] EXCEPT !.stage = "migrated"]
<1>1. run[r] \in RunState /\ run \in [Run -> RunState]
  BY DEF IInv, TypeOK
<1>2. new \in RunState /\ run' = [run EXCEPT ![r] = new]
  BY <1>1 DEF RunState, Stage
<1>3. RunInv(r)'
  BY <1>1 DEF IInv, RunInv
<1>4. Alone(r)
  BY AtWorkAlone
<1> HIDE DEF new
<1> QED
  BY <1>2, <1>3, <1>4, RunKeeps DEF IInv, TypeOK

LEMMA DeployKeeps ==
  ASSUME IInv, NEW r \in Run, NEW reported \in BOOLEAN, Deploy(r, reported)
  PROVE  IInv'
<1> USE DEF Deploy
<1> DEFINE new == [run[r] EXCEPT !.stage  = IF reported THEN "deployed" ELSE "ended",
                                 !.result = IF reported THEN @ ELSE "failed"]
<1>1. run[r] \in RunState /\ run \in [Run -> RunState] /\ live.id \in Nat
  BY DEF IInv, TypeOK
<1>2. new \in RunState /\ run' = [run EXCEPT ![r] = new]
  <2>1. CASE reported
    BY <1>1, <2>1 DEF RunState, Stage
  <2>2. CASE ~reported
    BY <1>1, <2>2 DEF RunState, Stage
  <2> QED
    BY <2>1, <2>2
<1>3. RunInv(r)'
  <2>1. CASE reported
    <3>1. run'[r] = [run[r] EXCEPT !.stage = "deployed"]
      BY <1>1, <2>1
    <3>2. UNCHANGED <<main, applied, versions>>
      OBVIOUS
    <3>3. run[r].stage = "uploaded" /\ RunInv(r)
      BY DEF IInv
    <3> HIDE DEF Deploy
    <3> QED
      BY <1>1, <3>1, <3>2, <3>3 DEF RunInv, RunState
  <2>2. CASE ~reported
    <3>1. run'[r] = [run[r] EXCEPT !.stage = "ended", !.result = "failed"]
      BY <1>1, <2>2
    <3>2. UNCHANGED <<main, applied, versions>>
      OBVIOUS
    <3>3. RunInv(r)
      BY DEF IInv
    <3> HIDE DEF Deploy
    <3> QED
      BY <1>1, <3>1, <3>2, <3>3 DEF RunInv, RunState
  <2> QED
    BY <2>1, <2>2
<1>4. live' \in [id : Nat, serving : SUBSET DOMAIN versions]
  BY <1>1 DEF IInv, RunInv
<1>5. Alone(r)
  BY AtWorkAlone
<1>6. UNCHANGED <<main, applied, versions, byHand>>
  OBVIOUS
<1> HIDE DEF new, Deploy
<1> QED
  BY <1>2, <1>3, <1>4, <1>5, <1>6, RunKeeps

LEMMA FirstCheckKeeps ==
  ASSUME IInv, NEW r \in Run, FirstCheckActive(r)
  PROVE  IInv'
<1> USE DEF FirstCheckActive
<1> DEFINE new == [run[r] EXCEPT !.stage = "active", !.seen = live.id]
<1>1. run[r] \in RunState /\ run \in [Run -> RunState] /\ live.id \in Nat
  BY DEF IInv, TypeOK
<1>2. new \in RunState /\ run' = [run EXCEPT ![r] = new]
  BY <1>1 DEF RunState, Stage
<1>3. RunInv(r)'
  BY <1>1 DEF IInv, RunInv
<1>4. Alone(r)
  BY AtWorkAlone
<1> HIDE DEF new
<1> QED
  BY <1>2, <1>3, <1>4, RunKeeps DEF IInv, TypeOK

(* If the deployment is still the one seen, only the run's version serves. *)
LEMMA CheckHealthKeeps ==
  ASSUME IInv, NEW r \in Run, NEW version \in DOMAIN versions, CheckHealth(r, version)
  PROVE  IInv'
<1> USE DEF CheckHealth
<1> DEFINE new == [run[r] EXCEPT !.stage = "healthy", !.answered = version]
<1>1. run[r] \in RunState /\ run \in [Run -> RunState] /\ version \in Nat
  BY DEF IInv, TypeOK
<1>2. new \in RunState /\ run' = [run EXCEPT ![r] = new]
  BY <1>1 DEF RunState, Stage
<1>3. RunInv(r)'
  BY <1>1 DEF IInv, RunInv
<1>4. Alone(r)
  BY AtWorkAlone
<1> HIDE DEF new
<1> QED
  BY <1>2, <1>3, <1>4, RunKeeps DEF IInv, TypeOK

LEMMA SecondCheckKeeps ==
  ASSUME IInv, NEW r \in Run, SecondCheckActive(r)
  PROVE  IInv'
<1> USE DEF SecondCheckActive
<1> DEFINE new == [run[r] EXCEPT !.stage = "ended", !.result = "verified"]
<1>1. run[r] \in RunState /\ run \in [Run -> RunState]
  BY DEF IInv, TypeOK
<1>2. new \in RunState /\ run' = [run EXCEPT ![r] = new]
  BY <1>1 DEF RunState, Stage
<1>3. RunInv(r)'
  BY <1>1 DEF IInv, RunInv
<1>4. Alone(r)
  BY AtWorkAlone
<1> HIDE DEF new
<1> QED
  BY <1>2, <1>3, <1>4, RunKeeps DEF IInv, TypeOK

LEMMA EndKeeps ==
  ASSUME IInv, NEW r \in Run, Running(r), NEW result \in {"none", "failed"},
         Ends(r, result), UNCHANGED <<main, applied, versions, live, byHand>>
  PROVE  IInv'
<1> DEFINE new == [run[r] EXCEPT !.stage = "ended", !.result = result]
<1>1. run[r] \in RunState /\ run \in [Run -> RunState]
  BY DEF IInv, TypeOK
<1>2. new \in RunState /\ run' = [run EXCEPT ![r] = new]
  BY <1>1 DEF RunState, Stage
<1>3. RunInv(r)'
  BY <1>1 DEF IInv, RunInv
<1>4. Alone(r)
  BY AtWorkAlone
<1> HIDE DEF new
<1> QED
  BY <1>2, <1>3, <1>4, RunKeeps DEF IInv, TypeOK

(* The new version is of the head's commit, or was when it was compared.   *)
LEMMA UploadKeeps ==
  ASSUME IInv, NEW r \in Run, UploadVersion(r)
  PROVE  IInv'
<1> USE DEF UploadVersion
<1> DEFINE new == [run[r] EXCEPT !.stage = "uploaded", !.version = Len(versions) + 1]
<1>1. /\ run[r] \in RunState /\ run \in [Run -> RunState] /\ main \in Nat
      /\ versions \in Seq(Commit) /\ run[r].commit \in Commit
  BY DEF IInv, TypeOK, RunState
<1>2. run' \in [Run -> RunState]
  <2>1. Len(versions) + 1 \in Nat
    BY <1>1
  <2>2. new \in RunState
    BY <1>1, <2>1 DEF RunState, Stage
  <2> QED
    BY <1>1, <2>2
<1>3. /\ versions' \in Seq(Commit)
      /\ DOMAIN versions' = DOMAIN versions \cup {Len(versions) + 1}
      /\ versions'[Len(versions) + 1] = run[r].commit
      /\ \A v \in DOMAIN versions : v # Len(versions) + 1 /\ versions'[v] = versions[v]
  BY <1>1
<1>4. Alone(r)
  BY AtWorkAlone
<1>5. \A q \in Run : q # r => run'[q] = run[q]
  BY <1>1
<1>6. run'[r] = new
  BY <1>1
<1>7. OneRunning'
  BY <1>4, <1>5, OneRunningKept
<1>8. RunInv(r)'
  <2>1. \A v \in DOMAIN versions : versions[v] <= run[r].commit
    BY DEF IInv, RunInv
  <2>2. \A v \in DOMAIN versions' : versions'[v] <= run[r].commit
    BY <1>1, <1>3, <2>1
  <2>3. /\ run[r].commit <= main
        /\ run[r].result = "none"
    BY DEF IInv, RunInv, Running, Step
  <2>4. /\ run'[r].stage = "uploaded"
        /\ run'[r].version = Len(versions) + 1
        /\ run'[r].commit = run[r].commit
        /\ run'[r].result = run[r].result
    BY <1>1, <1>6 DEF RunState
  <2>5. main' = main
    BY DEF Step
  <2>6. Len(versions) + 1 \in DOMAIN versions'
    BY <1>3
  <2> HIDE DEF UploadVersion
  <2> QED
    BY <1>3, <2>2, <2>3, <2>4, <2>5, <2>6 DEF RunInv, Running
<1>9. \A q \in Run : RunInv(q)'
  BY <1>3, <1>4, <1>5, <1>8, OthersKeep
<1>10. NoneAhead'
  BY <1>1, <1>3 DEF IInv, NoneAhead, RunInv
<1>11. MigrationsFirst'
  BY <1>3 DEF IInv, MigrationsFirst, RunInv
<1>12. TypeOK'
  <2>1. live' \in [id : Nat, serving : SUBSET DOMAIN versions']
    BY <1>3 DEF IInv, TypeOK
  <2>2. \A q \in Run : run'[q].stage = "uploaded" => run'[q].version \in DOMAIN versions'
    BY <1>9 DEF RunInv
  <2> QED
    BY <1>2, <1>3, <2>1, <2>2 DEF IInv, TypeOK
<1> QED
  BY <1>7, <1>9, <1>10, <1>11, <1>12 DEF IInv

-----------------------------------------------------------------------------
(* By hand. *)
LEMMA ApplyMigrationKeeps ==
  ASSUME IInv, NEW m \in Migration, ApplyMigration(m)
  PROVE  IInv'
<1> USE DEF ApplyMigration
<1>1. TypeOK'
  BY DEF IInv, TypeOK
<1>2. OneRunning' /\ NoneAhead' /\ MigrationsFirst'
  BY DEF IInv, OneRunning, NoneAhead, MigrationsFirst
<1>3. ASSUME NEW r \in Run
      PROVE  RunInv(r)'
  BY DEF IInv, RunInv
<1> QED
  BY <1>1, <1>2, <1>3 DEF IInv

(* The deployment is a new one, which no run has seen. *)
LEMMA PutLiveKeeps ==
  ASSUME IInv, NEW v \in DOMAIN versions, NEW w \in DOMAIN versions, PutLive({v, w})
  PROVE  IInv'
<1> USE DEF PutLive
<1>1. TypeOK'
  BY DEF IInv, TypeOK
<1>2. OneRunning' /\ NoneAhead' /\ MigrationsFirst'
  BY DEF IInv, OneRunning, NoneAhead, MigrationsFirst
<1>3. ASSUME NEW r \in Run
      PROVE  RunInv(r)'
  <2>1. run[r] \in RunState /\ live.id \in Nat
    BY DEF IInv, TypeOK
  <2> QED
    BY <2>1 DEF IInv, RunInv, RunState
<1> QED
  BY <1>1, <1>2, <1>3 DEF IInv

-----------------------------------------------------------------------------
LEMMA RunStepKeeps ==
  ASSUME IInv, NEW r \in Run,
         \/ Push(r) \/ Dispatch(r) \/ Rerun(r) \/ Start(r)
         \/ CheckHead(r) \/ CheckMigrations(r) \/ UploadVersion(r)
         \/ \E reported \in BOOLEAN : Deploy(r, reported)
         \/ FirstCheckActive(r)
         \/ \E version \in DOMAIN versions : CheckHealth(r, version)
         \/ SecondCheckActive(r)
         \/ Fail(r) \/ RunnerLost(r)
  PROVE  IInv'
<1>1. main \in Commit /\ run[r].commit \in Commit /\ run[r].commit <= main
  BY DEF IInv, TypeOK, RunInv, RunState
<1>2. CASE Push(r)
  BY <1>1, <1>2, QueueKeeps DEF Push
<1>3. CASE Dispatch(r)
  BY <1>1, <1>3, QueueKeeps DEF Dispatch
<1>4. CASE Rerun(r)
  BY <1>1, <1>4, QueueKeeps DEF Rerun
<1>5. CASE Fail(r)
  BY <1>5, EndKeeps DEF Fail
<1>6. CASE RunnerLost(r)
  BY <1>6, EndKeeps DEF RunnerLost
<1> QED
  BY <1>2, <1>3, <1>4, <1>5, <1>6, StartKeeps, CheckHeadKeeps, CheckMigrationsKeeps,
     UploadKeeps, DeployKeeps, FirstCheckKeeps, CheckHealthKeeps, SecondCheckKeeps

LEMMA NextKeeps == IInv /\ [Next]_vars => IInv'
<1> SUFFICES ASSUME IInv, [Next]_vars
             PROVE  IInv'
  OBVIOUS
<1>1. ASSUME NEW r \in Run,
             \/ Push(r) \/ Dispatch(r) \/ Rerun(r) \/ Start(r)
             \/ CheckHead(r) \/ CheckMigrations(r) \/ UploadVersion(r)
             \/ \E reported \in BOOLEAN : Deploy(r, reported)
             \/ FirstCheckActive(r)
             \/ \E version \in DOMAIN versions : CheckHealth(r, version)
             \/ SecondCheckActive(r)
             \/ Fail(r) \/ RunnerLost(r)
      PROVE  IInv'
  BY <1>1, RunStepKeeps
<1>2. ASSUME NEW m \in Migration, ApplyMigration(m)
      PROVE  IInv'
  BY <1>2, ApplyMigrationKeeps
<1>3. ASSUME NEW v \in DOMAIN versions, NEW w \in DOMAIN versions, PutLive({v, w})
      PROVE  IInv'
  BY <1>3, PutLiveKeeps
<1>4. CASE UNCHANGED vars
  <2>1. TypeOK' /\ OneRunning' /\ NoneAhead' /\ MigrationsFirst'
    BY <1>4 DEF IInv, vars, TypeOK, OneRunning, NoneAhead, MigrationsFirst
  <2>2. ASSUME NEW r \in Run
        PROVE  RunInv(r)'
    BY <1>4 DEF IInv, vars, RunInv
  <2> QED
    BY <2>1, <2>2 DEF IInv
<1> QED
  BY <1>1, <1>2, <1>3, <1>4 DEF Next

(* What the runs rely on holds in every state. *)
THEOREM Invariance == Spec => []IInv
BY InitIInv, NextKeeps, PTL DEF Spec

(* Type correctness. *)
THEOREM TypeCorrect == Spec => []TypeOK
<1>1. IInv => TypeOK
  BY DEF IInv
<1> QED
  BY <1>1, Invariance, PTL

(* No version was made before the migrations of its commit. *)
THEOREM MigrationsPrecede == Spec => []MigrationsFirst
<1>1. IInv => MigrationsFirst
  BY DEF IInv
<1> QED
  BY <1>1, Invariance, PTL

(* The version of a verified run answered the health check. *)
THEOREM VerifiedIsTrue == Spec => []VerifiedMeansServed
<1>1. IInv => VerifiedMeansServed
  BY DEF IInv, RunInv, VerifiedMeansServed
<1> QED
  BY <1>1, Invariance, PTL

(* A superseded run released nothing and is of an old commit. *)
THEOREM SupersededIsTrue == Spec => []SupersededIsOld
<1>1. IInv => SupersededIsOld
  BY DEF IInv, RunInv, SupersededIsOld
<1> QED
  BY <1>1, Invariance, PTL

(* The run that activates is of a commit not older than any version: it    *)
(* was the head when it was compared, and no other run has been at work    *)
(* since.                                                                  *)
THEOREM NoRollback == Spec => NeverRollsBack
<1>1. ASSUME IInv, NEW r \in Run, Activates(r), NEW v \in live.serving
      PROVE  versions[v] <= run[r].commit
  <2>1. v \in DOMAIN versions
    BY <1>1 DEF IInv, TypeOK
  <2>2. \A u \in DOMAIN versions : versions[u] <= run[r].commit
    BY <1>1 DEF IInv, RunInv, Activates
  <2> QED
    BY <2>1, <2>2
<1>2. IInv => [\A r \in Run : Activates(r) =>
                 \A v \in live.serving : versions[v] <= run[r].commit]_vars
  BY <1>1
<1> QED
  BY <1>2, Invariance, PTL DEF NeverRollsBack
=============================================================================
