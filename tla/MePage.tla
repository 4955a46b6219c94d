-------------------------------- MODULE MePage --------------------------------
(***************************************************************************)
(* One visit of /me (views/me.js): the page where a person logs in, sees   *)
(* the awards made to an account and accepts or hides them.  Signing in,   *)
(* reading the awards and publishing are handlers with several awaits, and *)
(* nothing ends one when another begins: what each await finds when it     *)
(* comes back is whatever the others have made of the page meanwhile.      *)
(* The lists themselves are in ReplaceableList; here a list is the account *)
(* it is of.  Signers and relays are not part of the repository.           *)
(***************************************************************************)
EXTENDS Naturals

CONSTANTS
  Account,
  NoOne,
  Jobs            \* bound: handlers under way at once

VARIABLES
  signer,         \* the account of the page's signer, or NoOne
  view,           \* the login form, or the panel for an account's awards
  chip,           \* the button in the corner: to log in, disabled, to log out
  shown,          \* whose awards are in the panel, or NoOne
  job,            \* the handlers under way
  requests        \* the lists handed over for signing: whose, and to whose signer

vars == <<signer, view, chip, shown, job, requests>>

Job == 1..Jobs
Someone == Account \cup {NoOne}

JobState == [at : {"idle", "restore", "login", "key", "profile", "badges", "publish"},
             of : Someone,
             boot : BOOLEAN]    \* the restore of the page's own start

TypeOK ==
  /\ signer \in Someone
  /\ view \in {"form", "panel"}
  /\ chip \in {"login", "disabled", "logout"}
  /\ shown \in Someone
  /\ job \in [Job -> JobState]
  /\ requests \subseteq [by : Account, of : Account]

NoJob == [at |-> "idle", of |-> NoOne, boot |-> FALSE]

(* The page has loaded, with a stored session or without one.  The login   *)
(* form is there at once.                                                  *)
mountMePage ==
  /\ signer = NoOne /\ view = "form" /\ chip = "login" /\ shown = NoOne
  /\ requests = {}
  /\ \E account \in Someone :
       job = [j \in Job |->
         IF j = 1 /\ account # NoOne THEN [at |-> "restore", of |-> account, boot |-> TRUE]
                                     ELSE NoJob]

-----------------------------------------------------------------------------
At(j, here) == job[j].at = here
Goto(j, there) == job' = [job EXCEPT ![j].at = there]
End(j) == job' = [job EXCEPT ![j] = NoJob]

renderLogin == view' = "form" /\ chip' = "login" /\ shown' = NoOne

(* The person uses the form: an extension, a bunker or an nsec. *)
clickLogin(j, account) ==
  /\ view = "form" /\ At(j, "idle")
  /\ job' = [job EXCEPT ![j] = [at |-> "login", of |-> account, boot |-> FALSE]]
  /\ UNCHANGED <<signer, view, chip, shown, requests>>

(* The signer is there, and is asked for its key. *)
onLogin(j) ==
  /\ job[j].at \in {"restore", "login"}
  /\ signer' = job[j].of
  /\ Goto(j, "key")
  /\ UNCHANGED <<view, chip, shown, requests>>

(* No signer, or one that does not tell its key: an error is shown, and    *)
(* the form again if the page's own start failed with its key.             *)
loginFails(j) ==
  /\ job[j].at \in {"restore", "login", "key"}
  /\ IF job[j].boot /\ At(j, "key") THEN renderLogin ELSE UNCHANGED <<view, chip, shown>>
  /\ End(j)
  /\ UNCHANGED <<signer, requests>>

renderLoaded(j) ==
  /\ At(j, "key")
  /\ chip' = "disabled" /\ view' = "panel" /\ shown' = NoOne
  /\ Goto(j, "profile")
  /\ UNCHANGED <<signer, requests>>

(* The name has come, or the lack of one: from here the person can log out.*)
renderAuthChipProfile(j) ==
  /\ At(j, "profile")
  /\ chip' = "logout"
  /\ Goto(j, "badges")
  /\ UNCHANGED <<signer, view, shown, requests>>

(* The awards have come: they are shown if there is a panel. *)
renderBadgeTabs(j) ==
  /\ At(j, "badges")
  /\ shown' = IF view = "panel" THEN job[j].of ELSE shown
  /\ End(j)
  /\ UNCHANGED <<signer, view, chip, requests>>

loadBadgesFails(j) ==
  /\ At(j, "badges")
  /\ End(j)
  /\ UNCHANGED <<signer, view, chip, shown, requests>>

logOut ==
  /\ chip = "logout"
  /\ signer' = NoOne
  /\ renderLogin
  /\ UNCHANGED <<job, requests>>

(* Accept or hide: the next version of the list that is shown goes to the  *)
(* signer of the page; without one, to an error.                           *)
handleAwardAction(j) ==
  /\ shown # NoOne /\ At(j, "idle")
  /\ signer # NoOne
  /\ requests' = requests \cup {[by |-> signer, of |-> shown]}
  /\ job' = [job EXCEPT ![j] = [at |-> "publish", of |-> shown, boot |-> FALSE]]
  /\ UNCHANGED <<signer, view, chip, shown>>

(* A relay has the list: the awards are read again. *)
published(j) ==
  /\ At(j, "publish")
  /\ Goto(j, "badges")
  /\ UNCHANGED <<signer, view, chip, shown, requests>>

(* Declined, refused or lost: the button is given back. *)
publishFails(j) ==
  /\ At(j, "publish")
  /\ End(j)
  /\ UNCHANGED <<signer, view, chip, shown, requests>>

Next ==
  \/ \E j \in Job :
       \/ \E account \in Account : clickLogin(j, account)
       \/ onLogin(j) \/ loginFails(j)
       \/ renderLoaded(j) \/ renderAuthChipProfile(j)
       \/ renderBadgeTabs(j) \/ loadBadgesFails(j)
       \/ handleAwardAction(j) \/ published(j) \/ publishFails(j)
  \/ logOut

Spec == mountMePage /\ [][Next]_vars

-----------------------------------------------------------------------------
(* /me is the workspace of the connected user: the list an accept or a     *)
(* hide rewrites is the list of the account whose signer is asked.         *)
SignsOwnList == \A r \in requests : r.by = r.of
=============================================================================
