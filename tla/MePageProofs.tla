----------------------------- MODULE MePageProofs -----------------------------
(***************************************************************************)
(* Proofs about MePage, for any number of accounts and handlers: what is   *)
(* missing for SignsOwnList, which the program does not keep.              *)
(***************************************************************************)
EXTENDS MePage, TLAPS

(* No login goes on while a handler that is about another account has not  *)
(* come back.  Nothing in the page sees to that.                           *)
Orderly ==
  \A i, j \in Job : ~At(i, "idle") /\ ~At(j, "idle") => job[i].of = job[j].of

(* A handler that is past its login is about the account of the signer, as *)
(* long as there is one, and so are the awards that are shown; those of    *)
(* another account are never shown while a handler is under way.           *)
JobInv(j) ==
  /\ ~At(j, "idle") => shown \in {NoOne, job[j].of}
  /\ job[j].at \in {"key", "profile", "badges", "publish"} => signer \in {NoOne, job[j].of}

VisitInv ==
  /\ TypeOK
  /\ view = "form" => shown = NoOne
  /\ shown # NoOne => signer \in {NoOne, shown}
  /\ \A j \in Job : JobInv(j)
  /\ SignsOwnList

-----------------------------------------------------------------------------
LEMMA InitVisit ==
  ASSUME mountMePage
  PROVE  VisitInv
<1>1. \E account \in Someone :
        job = [j \in Job |->
          IF j = 1 /\ account # NoOne THEN [at |-> "restore", of |-> account, boot |-> TRUE]
                                      ELSE NoJob]
  BY DEF mountMePage
<1>2. job \in [Job -> JobState]
  BY <1>1 DEF JobState, NoJob, Someone
<1>3. \A j \in Job : job[j].at \in {"idle", "restore"}
  BY <1>1 DEF NoJob
<1> QED
  BY <1>2, <1>3 DEF mountMePage, VisitInv, TypeOK, JobInv, SignsOwnList, Someone

(* One handler changes, the others stay. *)
LEMMA OneJob ==
  ASSUME TypeOK, NEW j \in Job, NEW new \in JobState, job' = [job EXCEPT ![j] = new]
  PROVE  /\ job' \in [Job -> JobState] /\ job'[j] = new
         /\ \A i \in Job : i # j => job'[i] = job[i]
BY DEF TypeOK

LEMMA GotoIsJob ==
  ASSUME TypeOK, NEW j \in Job, NEW there \in {"key", "profile", "badges"}, Goto(j, there)
  PROVE  /\ job' \in [Job -> JobState]
         /\ job'[j].at = there /\ job'[j].of = job[j].of
         /\ \A i \in Job : i # j => job'[i] = job[i]
BY DEF TypeOK, JobState, Goto

LEMMA EndIsJob ==
  ASSUME TypeOK, NEW j \in Job, End(j)
  PROVE  /\ job' \in [Job -> JobState] /\ job'[j].at = "idle"
         /\ \A i \in Job : i # j => job'[i] = job[i]
BY DEF TypeOK, JobState, NoJob, End, Someone

LEMMA ClickLoginKeeps ==
  ASSUME VisitInv, NEW j \in Job, NEW account \in Account, clickLogin(j, account)
  PROVE  VisitInv'
<1> DEFINE new == [at |-> "login", of |-> account, boot |-> FALSE]
<1>1. new \in JobState
  BY DEF JobState, Someone
<1>2. /\ job' \in [Job -> JobState] /\ job'[j] = new
      /\ \A i \in Job : i # j => job'[i] = job[i]
  BY <1>1, OneJob DEF clickLogin, VisitInv
<1>3. UNCHANGED <<signer, view, chip, shown, requests>> /\ shown = NoOne
  BY DEF clickLogin, VisitInv
<1>4. \A i \in Job : JobInv(i)'
  BY <1>2, <1>3 DEF VisitInv, JobInv, At
<1> QED
  BY <1>2, <1>3, <1>4 DEF VisitInv, TypeOK, SignsOwnList

(* The signer changes, and every handler under way is about its account. *)
LEMMA OnLoginKeeps ==
  ASSUME VisitInv, Orderly, NEW j \in Job, onLogin(j)
  PROVE  VisitInv'
<1>1. /\ job[j].at \in {"restore", "login"} /\ signer' = job[j].of
      /\ UNCHANGED <<view, chip, shown, requests>>
  BY DEF onLogin
<1>2. /\ job' \in [Job -> JobState]
      /\ job'[j].at = "key" /\ job'[j].of = job[j].of
      /\ \A i \in Job : i # j => job'[i] = job[i]
  BY GotoIsJob DEF onLogin, VisitInv
<1>3. shown \in {NoOne, job[j].of} /\ job[j].of \in Someone
  BY <1>1 DEF VisitInv, JobInv, At, TypeOK, JobState
<1>4. \A i \in Job : job[i].at # "idle" => job[i].of = job[j].of
  BY <1>1 DEF Orderly, At
<1>5. \A i \in Job : JobInv(i)'
  BY <1>1, <1>2, <1>3, <1>4 DEF VisitInv, JobInv, At
<1> QED
  BY <1>1, <1>2, <1>3, <1>5 DEF VisitInv, TypeOK, SignsOwnList

LEMMA EndsKeep ==
  ASSUME VisitInv, NEW j \in Job, loginFails(j) \/ loadBadgesFails(j) \/ publishFails(j)
  PROVE  VisitInv'
<1>1. /\ job' \in [Job -> JobState] /\ job'[j].at = "idle"
      /\ \A i \in Job : i # j => job'[i] = job[i]
  BY EndIsJob DEF loginFails, loadBadgesFails, publishFails, VisitInv
<1>2. /\ UNCHANGED <<signer, requests>>
      /\ \/ UNCHANGED <<view, chip, shown>>
         \/ view' = "form" /\ chip' = "login" /\ shown' = NoOne
  BY DEF loginFails, loadBadgesFails, publishFails, renderLogin
<1>3. \A i \in Job : JobInv(i)'
  BY <1>1, <1>2 DEF VisitInv, JobInv, At
<1> QED
  BY <1>1, <1>2, <1>3 DEF VisitInv, TypeOK, SignsOwnList, Someone

LEMMA LoadingKeeps ==
  ASSUME VisitInv, NEW j \in Job,
         renderLoaded(j) \/ renderAuthChipProfile(j) \/ published(j)
  PROVE  VisitInv'
<1>1. /\ job' \in [Job -> JobState] /\ job'[j].of = job[j].of
      /\ job'[j].at \in {"profile", "badges"}
      /\ job[j].at \in {"key", "profile", "publish"}
      /\ \A i \in Job : i # j => job'[i] = job[i]
  BY GotoIsJob DEF renderLoaded, renderAuthChipProfile, published, At, VisitInv
<1>2. /\ UNCHANGED <<signer, requests>> /\ chip' \in {"login", "disabled", "logout"}
      /\ \/ UNCHANGED <<view, shown>>
         \/ view' = "panel" /\ shown' = NoOne
  BY DEF renderLoaded, renderAuthChipProfile, published, VisitInv, TypeOK
<1>3. \A i \in Job : JobInv(i)'
  BY <1>1, <1>2 DEF VisitInv, JobInv, At
<1> QED
  BY <1>1, <1>2, <1>3 DEF VisitInv, TypeOK, SignsOwnList, Someone

(* The awards come, and every handler under way is about their account. *)
LEMMA RenderBadgeTabsKeeps ==
  ASSUME VisitInv, Orderly, NEW j \in Job, renderBadgeTabs(j)
  PROVE  VisitInv'
<1>1. /\ job' \in [Job -> JobState] /\ job'[j].at = "idle"
      /\ \A i \in Job : i # j => job'[i] = job[i]
  BY EndIsJob DEF renderBadgeTabs, VisitInv
<1>2. /\ job[j].at = "badges" /\ UNCHANGED <<signer, view, chip, requests>>
      /\ shown' = IF view = "panel" THEN job[j].of ELSE shown
  BY DEF renderBadgeTabs, At
<1>3. signer \in {NoOne, job[j].of} /\ job[j].of \in Someone
  BY <1>2 DEF VisitInv, JobInv, TypeOK, JobState
<1>4. \A i \in Job : job[i].at # "idle" => job[i].of = job[j].of
  BY <1>2 DEF Orderly, At
<1>5. \A i \in Job : JobInv(i)'
  BY <1>1, <1>2, <1>4 DEF VisitInv, JobInv, At
<1> QED
  BY <1>1, <1>2, <1>3, <1>5 DEF VisitInv, TypeOK, SignsOwnList

LEMMA LogOutKeeps ==
  ASSUME VisitInv, logOut
  PROVE  VisitInv'
BY DEF VisitInv, logOut, renderLogin, TypeOK, JobInv, At, SignsOwnList, Someone

LEMMA AwardActionKeeps ==
  ASSUME VisitInv, NEW j \in Job, handleAwardAction(j)
  PROVE  VisitInv'
<1> DEFINE new == [at |-> "publish", of |-> shown, boot |-> FALSE]
<1>1. /\ shown # NoOne /\ signer # NoOne
      /\ requests' = requests \cup {[by |-> signer, of |-> shown]}
      /\ job' = [job EXCEPT ![j] = new]
      /\ UNCHANGED <<signer, view, chip, shown>>
  BY DEF handleAwardAction
<1>2. signer = shown /\ shown \in Account
  BY <1>1 DEF VisitInv, TypeOK, Someone
<1>3. new \in JobState
  BY <1>2 DEF JobState, Someone
<1>4. /\ job' \in [Job -> JobState] /\ job'[j] = new
      /\ \A i \in Job : i # j => job'[i] = job[i]
  BY <1>1, <1>3, OneJob DEF VisitInv
<1>5. \A i \in Job : JobInv(i)'
  BY <1>1, <1>2, <1>4 DEF VisitInv, JobInv, At
<1> QED
  BY <1>1, <1>2, <1>4, <1>5 DEF VisitInv, TypeOK, SignsOwnList

\* The list an accept or a hide rewrites is the list of the account whose
\* signer is asked, in every visit of /me in which no login overlaps with a
\* handler that is about another account.
THEOREM OrderlyVisits == Spec /\ []Orderly => []SignsOwnList
<1>1. mountMePage => VisitInv
  BY InitVisit
<1>2. VisitInv /\ Orderly /\ [Next]_vars => VisitInv'
  <2> SUFFICES ASSUME VisitInv, Orderly, [Next]_vars
               PROVE  VisitInv'
    OBVIOUS
  <2>1. CASE UNCHANGED vars
    BY <2>1 DEF vars, VisitInv, TypeOK, JobInv, At, SignsOwnList
  <2>2. ASSUME NEW j \in Job, \E account \in Account : clickLogin(j, account)
        PROVE  VisitInv'
    BY <2>2, ClickLoginKeeps
  <2>3. ASSUME NEW j \in Job, onLogin(j) \/ renderBadgeTabs(j)
        PROVE  VisitInv'
    BY <2>3, OnLoginKeeps, RenderBadgeTabsKeeps
  <2>4. ASSUME NEW j \in Job, loginFails(j) \/ loadBadgesFails(j) \/ publishFails(j)
        PROVE  VisitInv'
    BY <2>4, EndsKeep
  <2>5. ASSUME NEW j \in Job, renderLoaded(j) \/ renderAuthChipProfile(j) \/ published(j)
        PROVE  VisitInv'
    BY <2>5, LoadingKeeps
  <2>6. ASSUME NEW j \in Job, handleAwardAction(j)
        PROVE  VisitInv'
    BY <2>6, AwardActionKeeps
  <2>7. CASE logOut
    BY <2>7, LogOutKeeps
  <2> QED
    BY <2>1, <2>2, <2>3, <2>4, <2>5, <2>6, <2>7 DEF Next
<1>3. VisitInv => SignsOwnList
  BY DEF VisitInv
<1> QED
  BY <1>1, <1>2, <1>3, PTL DEF Spec
=============================================================================
