--------------------------- MODULE BrowserSession ---------------------------
(***************************************************************************)
(* Who is signed in (auth/session.js).  The tabs of a browser share the    *)
(* stored session, a flag that says the person logged out, and the login   *)
(* cookie of divine.video.  Every page restores a signer when it loads:    *)
(* the stored one, or the cookie's unless the person logged out here.      *)
(* Restoring asks a remote signer or an extension and may fail; meanwhile  *)
(* other tabs, and the login form of /me, go on.                           *)
(***************************************************************************)
EXTENDS Naturals, FiniteSets

CONSTANTS
  Tab,
  Account,
  NoOne,
  OAuthAccount,   \* accounts signed in through Divine: their tokens are refreshed
  Cookie,         \* the account of the divine.video cookie, or NoOne
  View            \* the pages of the client; "me" has the login form

ASSUME SessionAssumption ==
  /\ NoOne \notin Account
  /\ OAuthAccount \subseteq Account
  /\ Cookie \in Account \cup {NoOne}
  /\ "me" \in View

VARIABLES
  stored,      \* the session in localStorage
  loggedOut,   \* dbdg_logged_out in localStorage
  tab,         \* the page of each tab
  left         \* the person logged out and has not signed in since

sessionVars == <<stored, loggedOut, tab, left>>

Someone == Account \cup {NoOne}

TabState == [view   : View,
             boot   : {"closed", "away", "restoring", "sharing", "done"},
             trying : Someone,    \* the account being restored
             signer : Someone,    \* the account the page signs with
             stale  : BOOLEAN]    \* it, or the attempt, is older than the last logout

SessionTypeOK ==
  /\ stored \in Someone
  /\ loggedOut \in BOOLEAN
  /\ tab \in [Tab -> TabState]
  /\ left \in BOOLEAN

Page(v, boot, trying) ==
  [view |-> v, boot |-> boot, trying |-> trying, signer |-> NoOne, stale |-> FALSE]

(* The cookie's session, unless the person logged out here. *)
sharedDivineSession(out) == IF out THEN NoOne ELSE Cookie

WithoutStored(v, out) ==
  IF sharedDivineSession(out) # NoOne
  THEN Page(v, "sharing", sharedDivineSession(out))
  ELSE Page(v, "done", NoOne)

(* A page has loaded: its bootstrapSession runs up to its first await. *)
Loaded(v, session, out) ==
  IF session # NoOne THEN Page(v, "restoring", session) ELSE WithoutStored(v, out)

SessionInit ==
  /\ stored \in Someone
  /\ loggedOut \in BOOLEAN
  /\ tab = [t \in Tab |-> Page("me", "closed", NoOne)]
  /\ left = FALSE

Signed(t) == tab[t].signer # NoOne

Open(t, v) ==
  /\ tab' = [tab EXCEPT ![t] = Loaded(v, stored, loggedOut)]
  /\ UNCHANGED <<stored, loggedOut, left>>

-----------------------------------------------------------------------------
(* The page has a signer, and then its key, or NoOne when the signer does  *)
(* not tell it.  /me takes the signer as a login before it asks for the    *)
(* key, and forgets that the person had logged out.                        *)
SignedIn(t, key) ==
  /\ key \in {tab[t].trying, NoOne}
  /\ tab' = [tab EXCEPT ![t].boot = "done", ![t].trying = NoOne, ![t].signer = key]
  /\ loggedOut' = (loggedOut /\ tab[t].view # "me")

Restored(t, key) ==
  /\ tab[t].boot = "restoring"
  /\ SignedIn(t, key)
  /\ left' = (left /\ ~(tab[t].stale /\ tab[t].view = "me"))
  /\ UNCHANGED stored

(* The stored session is cleared, whoever stored it meanwhile; what the    *)
(* login form of /me has done stays.                                       *)
RestoreFails(t) ==
  /\ tab[t].boot = "restoring"
  /\ stored' = NoOne
  /\ tab' = [tab EXCEPT ![t] = [WithoutStored(@.view, loggedOut) EXCEPT
                                  !.signer = tab[t].signer, !.stale = tab[t].stale]]
  /\ UNCHANGED <<loggedOut, left>>

SharedRestored(t, key) ==
  /\ tab[t].boot = "sharing"
  /\ SignedIn(t, key)
  /\ stored' = tab[t].trying
  /\ left' = (left /\ ~tab[t].stale)

SharedFails(t) ==
  /\ tab[t].boot = "sharing"
  /\ tab' = [tab EXCEPT ![t].boot = "done", ![t].trying = NoOne]
  /\ UNCHANGED <<stored, loggedOut, left>>

-----------------------------------------------------------------------------
(* The tabs a logout in t leaves behind: they signed in before it, or      *)
(* began to.                                                               *)
Behind(u) == Signed(u) \/ tab[u].boot \in {"restoring", "sharing"}

(* Faulty: only the session is cleared. *)
clearStoredSession_NoFlag(t) == stored' = NoOne /\ UNCHANGED loggedOut

clearStoredSession(t) == stored' = NoOne /\ loggedOut' = TRUE

(* Every page but /me loads again and finds nothing; /me shows its form.   *)
Logout(t) ==
  /\ Signed(t)
  /\ clearStoredSession(t)
  /\ left' = TRUE
  /\ tab' = [u \in Tab |->
       IF u # t THEN [tab[u] EXCEPT !.stale = @ \/ Behind(u)]
       ELSE IF tab[t].view = "me"
            THEN [tab[t] EXCEPT !.signer = NoOne, !.stale = tab[t].boot # "done"]
            ELSE Loaded(tab[t].view, stored', loggedOut')]

(* The login form of /me: an extension, a bunker or an nsec.  It is there  *)
(* from the start, also while a session is being restored.                 *)
LoginOnMe(t, account) ==
  /\ tab[t].view = "me" /\ tab[t].boot \in {"restoring", "sharing", "done"} /\ ~Signed(t)
  /\ account \in Account \ OAuthAccount
  /\ stored' = account
  /\ loggedOut' = FALSE
  /\ left' = FALSE
  /\ tab' = [tab EXCEPT ![t].signer = account, ![t].stale = FALSE]

(* The Divine login leaves the page and comes back to it: the way back is  *)
(* kept per tab (auth/return_to.js).  A login that was refused ends on a   *)
(* page that only leads on to another: Open.                               *)
beginDivineOAuth(t) ==
  /\ \/ tab[t].boot = "done"
     \/ tab[t].view = "me" /\ tab[t].boot \in {"restoring", "sharing"}
  /\ ~Signed(t)
  /\ tab' = [tab EXCEPT ![t] = Page(tab[t].view, "away", NoOne)]
  /\ UNCHANGED <<stored, loggedOut, left>>

completeOAuthCallback(t, account) ==
  /\ tab[t].boot = "away"
  /\ account \in OAuthAccount
  /\ stored' = account
  /\ left' = FALSE
  /\ tab' = [tab EXCEPT ![t] = Loaded(tab[t].view, account, loggedOut)]
  /\ UNCHANGED loggedOut

(* A signer of the page gets new tokens, at any time, and stores them.     *)
TokenRefresh(t) ==
  /\ tab[t].signer \in OAuthAccount
  /\ stored' = tab[t].signer
  /\ left' = (left /\ ~tab[t].stale)
  /\ UNCHANGED <<loggedOut, tab>>
=============================================================================
