-------------------------- MODULE BadgeStudioProofs --------------------------
(***************************************************************************)
(* Proofs about BadgeStudio, for any number of tabs, accounts, pictures    *)
(* and saves.                                                              *)
(***************************************************************************)
EXTENDS BadgeStudio, TLAPS

(* While the person is logged out, whoever is signed in or about to be is  *)
(* of before the logout.                                                   *)
SessionInv ==
  left => stored = NoOne /\ loggedOut /\ \A t \in Tab : Behind(t) => tab[t].stale

AsChosen(d) ==
  /\ d.made = "plain" => d.thumb = d.image
  /\ d.made = "custom" => d.thumb \in Thumb

Working(t)  == form[t].stage \in {"new", "edit", "award"}
InFlight(f) == f.save \in {"signing", "sending"}

(* A page with a form has the signer it is for; what it sends is what its  *)
(* form showed; and it keeps count of what was stored, heard and lost.     *)
PageInv(t) ==
  /\ Working(t) => /\ tab[t].boot = "done" /\ tab[t].view # "me"
                   /\ tab[t].signer = form[t].of
  /\ form[t].save # "idle" => Working(t)
  /\ form[t].stage = "award" => definition[form[t].of] # NoDefinition

DraftInv(f) ==
  /\ InFlight(f) /\ f.stage # "award" => f.draft # NoDefinition
  /\ f.draft # NoDefinition => AsChosen(f.draft)
  /\ f.stage \in {"loading", "new"} => f.thumb \in Thumb \cup {NoPicture}

CountInv(f) ==
  /\ InFlight(f) => f.reached < f.saves
  /\ f.reached <= f.saves
  /\ f.lost <= f.reached
  /\ f.save = "done" => f.reached <= f.lost + 1
  /\ f.save # "done" => f.reached <= f.lost

FormInv(t) == PageInv(t) /\ DraftInv(form[t]) /\ CountInv(form[t])

IInv ==
  /\ TypeOK
  /\ SessionInv
  /\ \A t \in StudioTab : FormInv(t)
  /\ AwardsAreTheAuthors
  /\ ThumbAsChosen

-----------------------------------------------------------------------------
(* The session. *)
SessionOK == SessionTypeOK /\ SessionInv

(* Another page than t's: what its form relies on stays. *)
SameTab(u) == /\ tab'[u].boot = tab[u].boot /\ tab'[u].view = tab[u].view
              /\ tab'[u].signer = tab[u].signer

OthersStay(t) == \A u \in Tab \ {t} : SameTab(u)

LEMMA PageIsTab ==
  ASSUME NEW v \in View, NEW boot \in {"closed", "away", "restoring", "sharing", "done"},
         NEW account \in Someone
  PROVE  Page(v, boot, account) \in TabState
  BY SessionAssumption DEF Page, TabState, Someone

LEMMA LoadedIsTab ==
  ASSUME NEW v \in View, NEW session \in Someone, NEW out \in BOOLEAN
  PROVE  /\ Loaded(v, session, out) \in TabState
         /\ Loaded(v, session, out).signer = NoOne
         /\ session = NoOne /\ out => Loaded(v, session, out).boot = "done"
<1>1. sharedDivineSession(out) \in Someone
  BY SessionAssumption DEF sharedDivineSession, Someone
<1>2. /\ Page(v, "restoring", session) \in TabState
      /\ Page(v, "sharing", sharedDivineSession(out)) \in TabState
      /\ Page(v, "done", NoOne) \in TabState
  BY <1>1, PageIsTab DEF Someone
<1> QED
  BY <1>2 DEF Loaded, WithoutStored, Page, sharedDivineSession

(* One tab changes, and it is of before the logout if it has to be. *)
LEMMA TabChanges ==
  ASSUME SessionOK, NEW t \in Tab, NEW new \in TabState,
         tab' = [tab EXCEPT ![t] = new],
         stored' \in Someone, loggedOut' \in BOOLEAN, left' \in BOOLEAN,
         left' => /\ left /\ stored' = NoOne /\ loggedOut'
                  /\ new.signer # NoOne \/ new.boot \in {"restoring", "sharing"} => new.stale
  PROVE  SessionOK' /\ OthersStay(t)
<1>1. tab \in [Tab -> TabState]
  BY DEF SessionOK, SessionTypeOK
<1>2. /\ tab' \in [Tab -> TabState] /\ tab'[t] = new
      /\ \A u \in Tab \ {t} : tab'[u] = tab[u]
  BY <1>1
<1>3. SessionTypeOK'
  BY <1>2 DEF SessionTypeOK
<1>4. SessionInv'
  <2>1. SUFFICES ASSUME left', NEW u \in Tab, Behind(u)'
                 PROVE  tab'[u].stale
    BY DEF SessionInv
  <2>2. CASE u = t
    BY <1>2, <2>1, <2>2 DEF Behind, Signed
  <2>3. CASE u # t
    BY <1>2, <2>1, <2>3 DEF Behind, Signed, SessionOK, SessionInv
  <2> QED
    BY <2>2, <2>3
<1> QED
  BY <1>2, <1>3, <1>4 DEF SessionOK, OthersStay, SameTab

LEMMA OpenKeeps ==
  ASSUME SessionOK, NEW t \in Tab, NEW v \in View, Open(t, v)
  PROVE  SessionOK' /\ OthersStay(t)
<1> DEFINE new == Loaded(v, stored, loggedOut)
<1>1. stored \in Someone /\ loggedOut \in BOOLEAN /\ left \in BOOLEAN
  BY DEF SessionOK, SessionTypeOK
<1>2. /\ new \in TabState /\ new.signer = NoOne
      /\ stored = NoOne /\ loggedOut => new.boot = "done"
  BY <1>1, LoadedIsTab
<1>3. left => stored = NoOne /\ loggedOut
  BY DEF SessionOK, SessionInv
<1>4. tab' = [tab EXCEPT ![t] = new] /\ UNCHANGED <<stored, loggedOut, left>>
  BY DEF Open
<1> HIDE DEF new
<1> QED
  BY <1>1, <1>2, <1>3, <1>4, TabChanges

(* Signing in ends the wait; /me takes any signer as a login. *)
LEMMA SignedInKeeps ==
  ASSUME SessionOK, NEW t \in Tab, NEW key \in Someone,
         Restored(t, key) \/ SharedRestored(t, key)
  PROVE  SessionOK' /\ OthersStay(t)
<1> DEFINE new == [tab[t] EXCEPT !.boot = "done", !.trying = NoOne, !.signer = key]
<1>1. /\ tab[t] \in TabState /\ tab \in [Tab -> TabState]
      /\ stored \in Someone /\ loggedOut \in BOOLEAN /\ left \in BOOLEAN
  BY DEF SessionOK, SessionTypeOK
<1>2. new \in TabState /\ tab' = [tab EXCEPT ![t] = new] /\ new.stale = tab[t].stale
  BY <1>1 DEF Restored, SharedRestored, SignedIn, TabState, Someone
<1>3. left => stored = NoOne /\ loggedOut /\ tab[t].stale
  BY DEF SessionOK, SessionInv, Behind, Restored, SharedRestored
<1>4. tab[t].trying \in Someone
  BY <1>1 DEF TabState
<1>5. /\ stored' \in Someone /\ loggedOut' \in BOOLEAN /\ left' \in BOOLEAN
      /\ left' => left /\ stored' = NoOne /\ loggedOut'
  BY <1>1, <1>3, <1>4 DEF Restored, SharedRestored, SignedIn
<1> HIDE DEF new
<1> QED
  BY <1>2, <1>3, <1>5, TabChanges

LEMMA RestoreFailsKeeps ==
  ASSUME SessionOK, NEW t \in Tab, RestoreFails(t)
  PROVE  SessionOK' /\ OthersStay(t)
<1> DEFINE page == WithoutStored(tab[t].view, loggedOut)
           new  == [page EXCEPT !.signer = tab[t].signer, !.stale = tab[t].stale]
<1>1. /\ tab[t] \in TabState /\ tab \in [Tab -> TabState]
      /\ loggedOut \in BOOLEAN /\ left \in BOOLEAN
  BY DEF SessionOK, SessionTypeOK
<1>2. tab[t].view \in View /\ tab[t].signer \in Someone /\ tab[t].stale \in BOOLEAN
  BY <1>1 DEF TabState
<1>3. page \in TabState
  BY <1>1, <1>2, LoadedIsTab DEF Loaded, Someone
<1>4. new \in TabState /\ new.stale = tab[t].stale
  <2> HIDE DEF page
  <2> QED
    BY <1>2, <1>3 DEF TabState
<1>5. tab' = [tab EXCEPT ![t] = new]
  BY <1>1 DEF RestoreFails
<1>6. left => loggedOut /\ tab[t].stale
  BY DEF SessionOK, SessionInv, Behind, RestoreFails
<1>7. stored' = NoOne /\ NoOne \in Someone /\ UNCHANGED <<loggedOut, left>>
  BY DEF RestoreFails, Someone
<1> HIDE DEF new
<1> QED
  BY <1>1, <1>4, <1>5, <1>6, <1>7, TabChanges

LEMMA SharedFailsKeeps ==
  ASSUME SessionOK, NEW t \in Tab, SharedFails(t)
  PROVE  SessionOK' /\ OthersStay(t)
<1> DEFINE new == [tab[t] EXCEPT !.boot = "done", !.trying = NoOne]
<1>1. /\ tab[t] \in TabState /\ tab \in [Tab -> TabState]
      /\ stored \in Someone /\ loggedOut \in BOOLEAN /\ left \in BOOLEAN
  BY DEF SessionOK, SessionTypeOK
<1>2. new \in TabState /\ tab' = [tab EXCEPT ![t] = new] /\ new.stale = tab[t].stale
  BY <1>1 DEF SharedFails, TabState, Someone
<1>3. left => stored = NoOne /\ loggedOut /\ tab[t].stale
  BY DEF SessionOK, SessionInv, Behind, SharedFails
<1>4. UNCHANGED <<stored, loggedOut, left>>
  BY DEF SharedFails
<1> HIDE DEF new
<1> QED
  BY <1>1, <1>2, <1>3, <1>4, TabChanges

LEMMA LoginOnMeKeeps ==
  ASSUME SessionOK, NEW t \in Tab, NEW account \in Account, LoginOnMe(t, account)
  PROVE  SessionOK' /\ OthersStay(t)
<1> DEFINE new == [tab[t] EXCEPT !.signer = account, !.stale = FALSE]
<1>1. tab[t] \in TabState /\ tab \in [Tab -> TabState]
  BY DEF SessionOK, SessionTypeOK
<1>2. new \in TabState /\ tab' = [tab EXCEPT ![t] = new]
  BY <1>1 DEF LoginOnMe, TabState, Someone
<1>3. stored' \in Someone /\ loggedOut' = FALSE /\ left' = FALSE
  BY DEF LoginOnMe, Someone
<1> HIDE DEF new
<1> QED
  BY <1>2, <1>3, TabChanges

LEMMA OAuthKeeps ==
  ASSUME SessionOK, NEW t \in Tab,
         \/ beginDivineOAuth(t)
         \/ \E account \in Account : completeOAuthCallback(t, account)
  PROVE  SessionOK' /\ OthersStay(t)
<1>1. /\ tab[t] \in TabState /\ tab \in [Tab -> TabState] /\ tab[t].view \in View
      /\ stored \in Someone /\ loggedOut \in BOOLEAN /\ left \in BOOLEAN
  BY DEF SessionOK, SessionTypeOK, TabState
<1>2. left => stored = NoOne /\ loggedOut
  BY DEF SessionOK, SessionInv
<1>3. CASE beginDivineOAuth(t)
  <2> DEFINE new == Page(tab[t].view, "away", NoOne)
  <2>1. new \in TabState /\ new.signer = NoOne /\ new.boot = "away"
    BY <1>1, PageIsTab DEF Page, Someone
  <2>2. tab' = [tab EXCEPT ![t] = new] /\ UNCHANGED <<stored, loggedOut, left>>
    BY <1>3 DEF beginDivineOAuth
  <2> HIDE DEF new
  <2> QED
    BY <1>1, <1>2, <2>1, <2>2, TabChanges
<1>4. ASSUME NEW account \in Account, completeOAuthCallback(t, account)
      PROVE  SessionOK' /\ OthersStay(t)
  <2> DEFINE new == Loaded(tab[t].view, account, loggedOut)
  <2>1. account \in Someone
    BY DEF Someone
  <2>2. new \in TabState
    BY <1>1, <2>1, LoadedIsTab
  <2>3. /\ tab' = [tab EXCEPT ![t] = new] /\ stored' = account /\ left' = FALSE
        /\ UNCHANGED loggedOut
    BY <1>4 DEF completeOAuthCallback
  <2> HIDE DEF new
  <2> QED
    BY <1>1, <2>1, <2>2, <2>3, TabChanges
<1> QED
  BY <1>3, <1>4

LEMMA TokenRefreshKeeps ==
  ASSUME SessionOK, NEW t \in Tab, TokenRefresh(t)
  PROVE  SessionOK' /\ OthersStay(t)
<1>1. tab[t] \in TabState /\ left \in BOOLEAN /\ NoOne \notin OAuthAccount
  BY SessionAssumption DEF SessionOK, SessionTypeOK
<1>2. left => tab[t].stale
  BY <1>1 DEF SessionOK, SessionInv, Behind, Signed, TokenRefresh
<1>3. SessionTypeOK'
  BY <1>1 DEF TokenRefresh, SessionOK, SessionTypeOK, TabState
<1>4. left' = FALSE
  BY <1>1, <1>2 DEF TokenRefresh
<1> QED
  BY <1>3, <1>4 DEF SessionOK, SessionInv, OthersStay, SameTab, TokenRefresh

LEMMA LogoutKeeps ==
  ASSUME SessionOK, NEW t \in Tab, Logout(t)
  PROVE  SessionOK' /\ OthersStay(t)
<1> DEFINE mine   == IF tab[t].view = "me"
                     THEN [tab[t] EXCEPT !.signer = NoOne, !.stale = tab[t].boot # "done"]
                     ELSE Loaded(tab[t].view, stored', loggedOut')
           its(u) == [tab[u] EXCEPT !.stale = @ \/ Behind(u)]
<1>1. tab \in [Tab -> TabState] /\ tab[t].view \in View
  BY DEF SessionOK, SessionTypeOK, TabState
<1>2. stored' = NoOne /\ loggedOut' = TRUE /\ left' = TRUE /\ NoOne \in Someone
  BY DEF Logout, clearStoredSession, Someone
<1>3. tab' = [u \in Tab |-> IF u # t THEN its(u) ELSE mine]
  BY DEF Logout
<1>4. /\ Loaded(tab[t].view, stored', loggedOut') \in TabState
      /\ Loaded(tab[t].view, stored', loggedOut').signer = NoOne
      /\ Loaded(tab[t].view, stored', loggedOut').boot = "done"
  BY <1>1, <1>2, LoadedIsTab
<1>5. /\ mine \in TabState /\ mine.signer = NoOne
      /\ mine.boot \in {"restoring", "sharing"} => mine.stale
  BY <1>1, <1>2, <1>4 DEF TabState
<1>6. ASSUME NEW u \in Tab
      PROVE  /\ its(u) \in TabState
             /\ its(u).boot = tab[u].boot /\ its(u).view = tab[u].view
             /\ its(u).signer = tab[u].signer
             /\ Behind(u) => its(u).stale
  BY <1>1 DEF TabState, Behind, Signed
<1> HIDE DEF mine, its
<1>7. SessionTypeOK'
  BY <1>1, <1>2, <1>3, <1>5, <1>6 DEF SessionTypeOK
<1>8. OthersStay(t)
  BY <1>3, <1>6 DEF OthersStay, SameTab
<1>9. ASSUME NEW u \in Tab, Behind(u)'
      PROVE  tab'[u].stale
  <2>1. CASE u = t
    BY <1>3, <1>5, <1>9, <2>1 DEF Behind, Signed
  <2>2. CASE u # t
    BY <1>3, <1>6, <1>9, <2>2 DEF Behind, Signed
  <2> QED
    BY <2>1, <2>2
<1> QED
  BY <1>2, <1>7, <1>8, <1>9 DEF SessionOK, SessionInv

-----------------------------------------------------------------------------
(* The forms. *)
EventsKept ==
  /\ definition' \in [Author -> Definition \cup {NoDefinition}]
  /\ awards' \subseteq Award
  /\ \A a \in Author : definition[a] # NoDefinition => definition'[a] # NoDefinition
  /\ AwardsAreTheAuthors' /\ ThumbAsChosen'

LEMMA StoreKeeps ==
  ASSUME IInv, NEW t \in StudioTab, form[t].save = "sending", Store(t)
  PROVE  EventsKept
<1> USE DEF EventsKept
<1>1. /\ form[t] \in FormState /\ t \in Tab
      /\ definition \in [Author -> Definition \cup {NoDefinition}] /\ awards \subseteq Award
  BY StudioAssumption DEF IInv, TypeOK
<1>2. /\ Working(t) /\ tab[t].signer = form[t].of /\ form[t].of \in Author
      /\ form[t].of \in Account
  BY <1>1, StudioAssumption DEF IInv, FormInv, PageInv, FormState
<1>3. CASE form[t].stage = "award"
  <2>1. definition[form[t].of] # NoDefinition
    BY <1>3 DEF IInv, FormInv, PageInv
  <2> DEFINE new == [of |-> form[t].of, by |-> tab[t].signer]
  <2>2. awards' = awards \cup {new} /\ UNCHANGED definition
    BY <1>3 DEF Store
  <2>3. new \in Award /\ new.of = form[t].of /\ new.by = new.of
    BY <1>2 DEF Award
  <2> HIDE DEF new
  <2>4. AwardsAreTheAuthors'
    BY <2>1, <2>2, <2>3 DEF IInv, AwardsAreTheAuthors
  <2> QED
    BY <1>1, <2>2, <2>3, <2>4 DEF IInv, ThumbAsChosen
<1>4. CASE form[t].stage # "award"
  <2>1. form[t].draft \in Definition /\ AsChosen(form[t].draft) /\ form[t].draft # NoDefinition
    BY <1>1, <1>4 DEF IInv, FormInv, DraftInv, InFlight, FormState
  <2>2. definition' = [definition EXCEPT ![form[t].of] = form[t].draft] /\ UNCHANGED awards
    BY <1>2, <1>4 DEF Store
  <2>3. ThumbAsChosen'
    BY <1>1, <1>2, <2>1, <2>2 DEF IInv, ThumbAsChosen, AsChosen
  <2>4. AwardsAreTheAuthors'
    BY <1>1, <1>2, <2>1, <2>2 DEF IInv, AwardsAreTheAuthors, Award
  <2> QED
    BY <1>1, <1>2, <2>1, <2>2, <2>3, <2>4
<1> QED
  BY <1>3, <1>4

LEMMA NothingStored ==
  ASSUME IInv, UNCHANGED <<definition, awards>>
  PROVE  EventsKept
  BY DEF IInv, TypeOK, EventsKept, AwardsAreTheAuthors, ThumbAsChosen

(* What concerns one tab keeps the forms of the others. *)
LEMMA OneTab ==
  ASSUME IInv, NEW t \in Tab, SessionOK', OthersStay(t), EventsKept,
         form' \in [StudioTab -> FormState],
         \A u \in StudioTab \ {t} : form'[u] = form[u],
         t \in StudioTab => FormInv(t)'
  PROVE  IInv'
<1>1. TypeOK'
  BY DEF TypeOK, SessionOK, EventsKept
<1>2. ASSUME NEW u \in StudioTab, u # t
      PROVE  FormInv(u)'
  <2>1. u \in Tab /\ form'[u] = form[u] /\ SameTab(u) /\ FormInv(u) /\ form[u].of \in Author
    BY <1>2, StudioAssumption DEF OthersStay, IInv, TypeOK, FormState
  <2>2. PageInv(u)'
    BY <2>1 DEF FormInv, PageInv, Working, SameTab, EventsKept
  <2>3. DraftInv(form'[u]) /\ CountInv(form'[u])
    BY <2>1 DEF FormInv
  <2> QED
    BY <2>2, <2>3 DEF FormInv, DraftInv, CountInv, InFlight, AsChosen
<1>3. \A u \in StudioTab : FormInv(u)'
  BY <1>2
<1> QED
  BY <1>1, <1>3 DEF IInv, SessionOK, EventsKept

LEMMA BlankIsGood ==
  ASSUME NEW of \in Author
  PROVE  /\ Blank(of) \in FormState /\ DraftInv(Blank(of)) /\ CountInv(Blank(of))
         /\ Blank(of).stage = "loading" /\ Blank(of).save = "idle"
  BY StudioAssumption DEF Blank, FormState, DraftInv, CountInv, InFlight, SomePicture

LEMMA AbandonKeeps ==
  ASSUME IInv, NEW t \in Tab, Abandon(t)
  PROVE  EventsKept
  BY StoreKeeps, NothingStored DEF Abandon

(* A page is opened: its form is blank.                                    *)
LEMMA NewFormKeeps ==
  ASSUME IInv, NEW t \in Tab, NEW of \in Author,
         SessionOK', OthersStay(t), EventsKept, NewForm(t, of)
  PROVE  IInv'
<1>1. form \in [StudioTab -> FormState]
  BY DEF IInv, TypeOK
<1>2. /\ form' \in [StudioTab -> FormState]
      /\ \A u \in StudioTab \ {t} : form'[u] = form[u]
      /\ t \in StudioTab => form'[t] = Blank(of)
  BY <1>1, BlankIsGood DEF NewForm
<1>3. t \in StudioTab => FormInv(t)'
  <2>1. SUFFICES ASSUME t \in StudioTab
                 PROVE  FormInv(t)'
    OBVIOUS
  <2>2. form'[t] = Blank(of)
    BY <1>2, <2>1
  <2>3. PageInv(t)'
    BY <2>2, BlankIsGood DEF PageInv, Working
  <2>4. DraftInv(form'[t]) /\ CountInv(form'[t])
    BY <2>2, BlankIsGood
  <2> QED
    BY <2>3, <2>4 DEF FormInv, DraftInv, CountInv, InFlight, AsChosen
<1> QED
  BY <1>2, <1>3, OneTab

LEMMA SessionHolds ==
  ASSUME IInv
  PROVE  SessionOK
  BY DEF IInv, TypeOK, SessionOK

LEMMA OpenPageKeeps ==
  ASSUME IInv, NEW t \in Tab, NEW v \in View, NEW of \in Author, OpenPage(t, v, of)
  PROVE  IInv'
  BY SessionHolds, OpenKeeps, AbandonKeeps, NewFormKeeps DEF OpenPage

LEMMA NavigateKeeps ==
  ASSUME IInv, NEW t \in StudioTab, Navigate(t)
  PROVE  IInv'
<1>1. t \in Tab /\ "badge" \in View /\ form[t].of \in Author
  BY StudioAssumption DEF IInv, TypeOK, FormState
<1> QED
  BY <1>1, SessionHolds, OpenKeeps, NothingStored, NewFormKeeps DEF Navigate

LEMMA LogoutPageKeeps ==
  ASSUME IInv, NEW t \in Tab, LogoutPage(t)
  PROVE  IInv'
<1>1. SessionOK' /\ OthersStay(t) /\ EventsKept
  BY SessionHolds, LogoutKeeps, AbandonKeeps DEF LogoutPage
<1>2. CASE t \in StudioTab
  <2>1. form[t].of \in Author
    BY <1>2 DEF IInv, TypeOK, FormState
  <2> QED
    BY <1>1, <1>2, <2>1, NewFormKeeps DEF LogoutPage
<1>3. CASE t \notin StudioTab
  BY <1>1, <1>3, OneTab DEF LogoutPage, IInv, TypeOK
<1> QED
  BY <1>2, <1>3

(* A page with a form has its signer, and no login but a refresh of tokens *)
(* goes on in it.                                                          *)
LEMMA LogInKeeps ==
  ASSUME IInv, NEW t \in Tab, LogIn(t)
  PROVE  IInv'
<1>1. UNCHANGED studioVars
  BY DEF LogIn
<1>2. SessionOK' /\ OthersStay(t)
  BY SessionHolds, SignedInKeeps, RestoreFailsKeeps, SharedFailsKeeps, LoginOnMeKeeps,
     OAuthKeeps, TokenRefreshKeeps DEF LogIn, Someone
<1>3. t \in StudioTab => FormInv(t)'
  <2>1. SUFFICES ASSUME t \in StudioTab
                 PROVE  FormInv(t)'
    OBVIOUS
  <2>2. /\ FormInv(t) /\ form' = form /\ definition' = definition
        /\ form[t].of \in Account /\ NoOne \notin Account
    BY <1>1, <2>1, StudioAssumption, SessionAssumption
    DEF studioVars, IInv, TypeOK, FormState
  <2>3. CASE Working(t)
    <3>1. tab[t].boot = "done" /\ tab[t].view # "me" /\ Signed(t)
      BY <2>2, <2>3 DEF FormInv, PageInv, Signed
    <3>2. UNCHANGED tab
      BY <3>1 DEF LogIn, Restored, SharedRestored, RestoreFails, SharedFails, LoginOnMe,
                  completeOAuthCallback, beginDivineOAuth, TokenRefresh
    <3> QED
      BY <2>2, <3>2
      DEF FormInv, PageInv, Working, DraftInv, CountInv, InFlight, AsChosen
  <2>4. CASE ~Working(t)
    BY <2>2, <2>4 DEF FormInv, PageInv, Working, DraftInv, CountInv, InFlight, AsChosen
  <2> QED
    BY <2>3, <2>4
<1>4. EventsKept
  BY <1>1, NothingStored DEF studioVars
<1>5. form' = form /\ form \in [StudioTab -> FormState]
  BY <1>1 DEF studioVars, IInv, TypeOK
<1> QED
  BY <1>2, <1>3, <1>4, <1>5, OneTab

-----------------------------------------------------------------------------
(* What a form does: one page changes, the session does not. *)
FitsPage(t, f) ==
  /\ f.stage \in {"new", "edit", "award"} =>
       /\ tab[t].boot = "done" /\ tab[t].view # "me" /\ tab[t].signer = f.of
  /\ f.save # "idle" => f.stage \in {"new", "edit", "award"}
  /\ f.stage = "award" => definition[f.of] # NoDefinition

LEMMA FitsNow ==
  ASSUME IInv, NEW t \in StudioTab
  PROVE  /\ form[t] \in FormState /\ FitsPage(t, form[t])
         /\ DraftInv(form[t]) /\ CountInv(form[t])
  BY DEF IInv, TypeOK, FormInv, PageInv, FitsPage, Working

LEMMA FormStep ==
  ASSUME IInv, NEW t \in StudioTab, NEW new \in FormState,
         form' = [form EXCEPT ![t] = new], UNCHANGED sessionVars, EventsKept,
         FitsPage(t, new), DraftInv(new), CountInv(new)
  PROVE  IInv'
<1>1. /\ form \in [StudioTab -> FormState] /\ t \in Tab
      /\ definition \in [Author -> Definition \cup {NoDefinition}] /\ new.of \in Author
  BY StudioAssumption DEF IInv, TypeOK, FormState
<1>2. /\ form' \in [StudioTab -> FormState] /\ form'[t] = new
      /\ \A u \in StudioTab \ {t} : form'[u] = form[u]
  BY <1>1
<1>3. SessionOK'
  BY SessionHolds DEF SessionOK, SessionTypeOK, SessionInv, Behind, Signed, sessionVars
<1>4. OthersStay(t)
  BY DEF OthersStay, SameTab, sessionVars
<1>5. PageInv(t)'
  BY <1>1, <1>2 DEF PageInv, Working, FitsPage, sessionVars, EventsKept
<1>6. FormInv(t)'
  BY <1>2, <1>5 DEF FormInv, DraftInv, CountInv, InFlight, AsChosen
<1> QED
  BY <1>1, <1>2, <1>3, <1>4, <1>6, OneTab
LEMMA MountNewKeeps ==
  ASSUME IInv, NEW t \in StudioTab, mountNewBadgePage(t)
  PROVE  IInv'
<1> DEFINE new == IF tab[t].signer \in Author
                  THEN [form[t] EXCEPT !.stage = "new", !.of = tab[t].signer]
                  ELSE [form[t] EXCEPT !.stage = "none"]
<1>1. /\ form[t] \in FormState /\ FitsPage(t, form[t])
      /\ DraftInv(form[t]) /\ CountInv(form[t])
  BY FitsNow
<1>2. /\ form[t].stage = "loading" /\ tab[t].boot = "done" /\ tab[t].view = "new"
      /\ UNCHANGED <<sessionVars, definition, awards>>
  BY DEF mountNewBadgePage, Ready
<1>3. new \in FormState /\ form' = [form EXCEPT ![t] = new]
  BY <1>1 DEF mountNewBadgePage, Shows, FormState, IInv, TypeOK
<1>4. form[t].save = "idle"
  BY <1>1, <1>2 DEF FitsPage
<1>5. FitsPage(t, new) /\ DraftInv(new) /\ CountInv(new)
  BY <1>1, <1>2, <1>4 DEF FitsPage, DraftInv, CountInv, InFlight, FormState
<1> HIDE DEF new
<1> QED
  BY <1>2, <1>3, <1>5, NothingStored, FormStep

LEMMA MountEditKeeps ==
  ASSUME IInv, NEW t \in StudioTab, NEW found \in Definition \cup {NoDefinition},
         mountEditBadgePage(t, found)
  PROVE  IInv'
<1> DEFINE new == IF tab[t].signer = form[t].of /\ found # NoDefinition
                  THEN [form[t] EXCEPT !.stage = "edit", !.image = found.image,
                                       !.thumb = found.thumb]
                  ELSE [form[t] EXCEPT !.stage = "none"]
<1>1. /\ form[t] \in FormState /\ FitsPage(t, form[t])
      /\ DraftInv(form[t]) /\ CountInv(form[t])
  BY FitsNow
<1>2. /\ form[t].stage = "loading" /\ tab[t].boot = "done" /\ tab[t].view = "edit"
      /\ UNCHANGED <<sessionVars, definition, awards>>
  BY DEF mountEditBadgePage, Ready
<1>3. new \in FormState /\ form' = [form EXCEPT ![t] = new]
  BY <1>1 DEF mountEditBadgePage, Shows, FormState, IInv, TypeOK, Definition, SomePicture
<1>4. form[t].save = "idle"
  BY <1>1, <1>2 DEF FitsPage
<1>5. FitsPage(t, new) /\ DraftInv(new) /\ CountInv(new)
  BY <1>1, <1>2, <1>4 DEF FitsPage, DraftInv, CountInv, InFlight, FormState
<1> HIDE DEF new
<1> QED
  BY <1>2, <1>3, <1>5, NothingStored, FormStep

LEMMA MountBadgeKeeps ==
  ASSUME IInv, NEW t \in StudioTab, NEW found \in Definition \cup {NoDefinition},
         mountBadgePage(t, found)
  PROVE  IInv'
<1> DEFINE shown == IF found # NoDefinition /\ canAwardBadge(t) THEN "award" ELSE "none"
           new   == [form[t] EXCEPT !.stage = shown]
<1>1. /\ form[t] \in FormState /\ FitsPage(t, form[t])
      /\ DraftInv(form[t]) /\ CountInv(form[t])
  BY FitsNow
<1>2. /\ form[t].stage = "loading" /\ tab[t].boot = "done" /\ tab[t].view = "badge"
      /\ UNCHANGED <<sessionVars, definition, awards>>
      /\ found \in {NoDefinition, definition[form[t].of]}
  BY DEF mountBadgePage, Ready
<1>3. new \in FormState /\ form' = [form EXCEPT ![t] = new]
  BY <1>1 DEF mountBadgePage, Shows, FormState, IInv, TypeOK
<1>4. form[t].save = "idle"
  BY <1>1, <1>2 DEF FitsPage
<1>5. FitsPage(t, new)
  BY <1>1, <1>2, <1>4 DEF FitsPage, FormState, canAwardBadge
<1>6. DraftInv(new) /\ CountInv(new)
  BY <1>1, <1>4 DEF DraftInv, CountInv, InFlight, FormState
<1> HIDE DEF new
<1> QED
  BY <1>2, <1>3, <1>5, <1>6, NothingStored, FormStep

(* Pictures come and go under a save that is on its way: the draft stays. *)
LEMMA PicturesKeep ==
  ASSUME IInv, NEW t \in StudioTab, NEW new \in FormState,
         form' = [form EXCEPT ![t] = new], UNCHANGED <<sessionVars, definition, awards>>,
         new = [form[t] EXCEPT !.image = new.image, !.thumb = new.thumb,
                               !.custom = new.custom, !.uploads = new.uploads,
                               !.reviewing = new.reviewing, !.resolved = new.resolved],
         form[t].stage = "new" => new.thumb \in Thumb \cup {NoPicture},
         form[t].stage # "loading"
  PROVE  IInv'
<1>1. /\ form[t] \in FormState /\ FitsPage(t, form[t])
      /\ DraftInv(form[t]) /\ CountInv(form[t])
  BY FitsNow
<1>2. /\ new.stage = form[t].stage /\ new.of = form[t].of /\ new.save = form[t].save
      /\ new.draft = form[t].draft /\ new.saves = form[t].saves
      /\ new.reached = form[t].reached /\ new.lost = form[t].lost
  BY <1>1 DEF FormState
<1>3. FitsPage(t, new) /\ DraftInv(new) /\ CountInv(new)
  BY <1>1, <1>2 DEF FitsPage, DraftInv, CountInv, InFlight
<1> QED
  BY <1>3, NothingStored, FormStep

LEMMA UploadKeeps ==
  ASSUME IInv, NEW t \in StudioTab, NEW file \in Picture,
         Upload(t, file) \/ UploadFails(t, file)
  PROVE  IInv'
<1>1. form[t] \in FormState /\ DraftInv(form[t]) /\ form \in [StudioTab -> FormState]
  BY FitsNow DEF IInv, TypeOK
<1>2. PICK files \in SUBSET Picture : form' = [form EXCEPT ![t].uploads = files]
  BY <1>1 DEF Upload, UploadFails, FormState
<1> DEFINE new == [form[t] EXCEPT !.uploads = files]
<1>3. new \in FormState /\ form' = [form EXCEPT ![t] = new]
  BY <1>1, <1>2 DEF FormState
<1>4. new = [form[t] EXCEPT !.image = new.image, !.thumb = new.thumb,
                            !.custom = new.custom, !.uploads = new.uploads,
                            !.reviewing = new.reviewing, !.resolved = new.resolved]
  BY <1>1 DEF FormState
<1>5. form[t].stage = "new" => new.thumb \in Thumb \cup {NoPicture}
  BY <1>1 DEF FormState, DraftInv
<1>6. form[t].stage # "loading" /\ UNCHANGED <<sessionVars, definition, awards>>
  BY DEF Upload, UploadFails, OnForm
<1> HIDE DEF new
<1> QED
  BY <1>3, <1>4, <1>5, <1>6, PicturesKeep

(* On /new only a thumbnail becomes the thumb. *)
LEMMA UploadedKeeps ==
  ASSUME IInv, NEW t \in StudioTab, NEW file \in Picture, Uploaded(t, file)
  PROVE  IInv'
<1> DEFINE f   == [form[t] EXCEPT !.uploads = @ \ {file}]
           new == IF file \in Thumb THEN [f EXCEPT !.thumb = file]
                  ELSE IF f.stage = "new" /\ ~f.custom
                       THEN [f EXCEPT !.image = file, !.thumb = NoPicture]
                       ELSE [f EXCEPT !.image = file]
<1>1. form[t] \in FormState /\ DraftInv(form[t])
  BY FitsNow
<1>2. f \in FormState /\ f.stage = form[t].stage /\ f.thumb = form[t].thumb
  BY <1>1 DEF FormState
<1>3. /\ f = [form[t] EXCEPT !.uploads = f.uploads]
      /\ form' = [form EXCEPT ![t] = new]
  BY <1>1 DEF Uploaded, FormState
<1>4. new \in FormState
  <2> HIDE DEF f
  <2> QED
    BY <1>2 DEF FormState, SomePicture
<1>5. new = [form[t] EXCEPT !.image = new.image, !.thumb = new.thumb,
                            !.custom = new.custom, !.uploads = new.uploads,
                            !.reviewing = new.reviewing, !.resolved = new.resolved]
  BY <1>1 DEF FormState
<1>6. form[t].stage = "new" => new.thumb \in Thumb \cup {NoPicture}
  <2> HIDE DEF f
  <2> QED
    BY <1>1, <1>2 DEF FormState, DraftInv
<1>7. form[t].stage # "loading" /\ UNCHANGED <<sessionVars, definition, awards>>
  BY DEF Uploaded, OnForm
<1> HIDE DEF new
<1> QED
  BY <1>3, <1>4, <1>5, <1>6, <1>7, PicturesKeep

LEMMA ToggleThumbKeeps ==
  ASSUME IInv, NEW t \in StudioTab, ToggleThumb(t)
  PROVE  IInv'
<1> DEFINE thumb == IF form[t].custom THEN NoPicture ELSE form[t].thumb
           new   == [form[t] EXCEPT !.custom = ~@, !.thumb = thumb]
<1>1. form[t] \in FormState /\ DraftInv(form[t]) /\ form \in [StudioTab -> FormState]
  BY FitsNow DEF IInv, TypeOK
<1>2. thumb \in SomePicture
  BY <1>1 DEF FormState, SomePicture
<1>3. form[t].stage = "new" => thumb \in Thumb \cup {NoPicture}
  BY <1>1 DEF DraftInv
<1>4. form' = [form EXCEPT ![t] = new]
  BY <1>1 DEF ToggleThumb
<1> HIDE DEF thumb
<1>5. new \in FormState /\ new.thumb = thumb
  BY <1>1, <1>2 DEF FormState
<1>6. new = [form[t] EXCEPT !.image = new.image, !.thumb = new.thumb,
                            !.custom = new.custom, !.uploads = new.uploads,
                            !.reviewing = new.reviewing, !.resolved = new.resolved]
  BY <1>1 DEF FormState
<1>7. form[t].stage # "loading" /\ UNCHANGED <<sessionVars, definition, awards>>
  BY DEF ToggleThumb, OnForm
<1> HIDE DEF new
<1> QED
  BY <1>3, <1>4, <1>5, <1>6, <1>7, PicturesKeep

LEMMA TypeUrlKeeps ==
  ASSUME IInv, NEW t \in StudioTab, TypeUrl(t)
  PROVE  IInv'
<1>1. form[t] \in FormState /\ form \in [StudioTab -> FormState]
  BY FitsNow DEF IInv, TypeOK
<1>2. PICK image \in SomePicture, thumb \in SomePicture :
        form' = [form EXCEPT ![t] = [form[t] EXCEPT !.image = image, !.thumb = thumb]]
  <2>1. form[t].image \in SomePicture /\ form[t].thumb \in SomePicture
    BY <1>1 DEF FormState
  <2>2. CASE \E p \in Image \cup {NoPicture} : form' = [form EXCEPT ![t].image = p]
    <3>1. PICK p \in SomePicture : form' = [form EXCEPT ![t].image = p]
      BY <2>2 DEF SomePicture, Picture
    <3>2. form' = [form EXCEPT ![t] = [form[t] EXCEPT !.image = p, !.thumb = form[t].thumb]]
      BY <1>1, <3>1 DEF FormState
    <3> QED
      BY <2>1, <3>2
  <2>3. CASE \E p \in Thumb \cup {NoPicture} : form' = [form EXCEPT ![t].thumb = p]
    <3>1. PICK p \in SomePicture : form' = [form EXCEPT ![t].thumb = p]
      BY <2>3 DEF SomePicture, Picture
    <3>2. form' = [form EXCEPT ![t] = [form[t] EXCEPT !.image = form[t].image, !.thumb = p]]
      BY <1>1, <3>1 DEF FormState
    <3> QED
      BY <2>1, <3>2
  <2> QED
    BY <2>2, <2>3 DEF TypeUrl
<1> DEFINE new == [form[t] EXCEPT !.image = image, !.thumb = thumb]
<1>3. new \in FormState /\ form' = [form EXCEPT ![t] = new]
  BY <1>1, <1>2 DEF FormState
<1>4. new = [form[t] EXCEPT !.image = new.image, !.thumb = new.thumb,
                            !.custom = new.custom, !.uploads = new.uploads,
                            !.reviewing = new.reviewing, !.resolved = new.resolved]
  BY <1>1 DEF FormState
<1>5. form[t].stage = "edit" /\ UNCHANGED <<sessionVars, definition, awards>>
  BY DEF TypeUrl, OnForm
<1> HIDE DEF new
<1> QED
  BY <1>3, <1>4, <1>5, PicturesKeep

LEMMA RecipientsKeep ==
  ASSUME IInv, NEW t \in StudioTab,
         Review(t) \/ \E some \in BOOLEAN : resolveAwardRecipients(t, some)
  PROVE  IInv'
<1>1. form[t] \in FormState /\ form \in [StudioTab -> FormState]
  BY FitsNow DEF IInv, TypeOK
<1>2. PICK reviewing \in BOOLEAN, resolved \in BOOLEAN :
        form' = [form EXCEPT ![t] = [form[t] EXCEPT !.reviewing = reviewing,
                                                    !.resolved = resolved]]
  <2>1. CASE Review(t)
    <3>1. form' = [form EXCEPT ![t] = [form[t] EXCEPT !.reviewing = TRUE,
                                                      !.resolved = form[t].resolved]]
      BY <1>1, <2>1 DEF Review, FormState
    <3> QED
      BY <1>1, <3>1 DEF FormState
  <2>2. CASE \E some \in BOOLEAN : resolveAwardRecipients(t, some)
    <3>1. PICK some \in BOOLEAN : resolveAwardRecipients(t, some)
      BY <2>2
    <3>2. form' = [form EXCEPT ![t] = [form[t] EXCEPT !.reviewing = FALSE,
                                                      !.resolved = some]]
      BY <1>1, <3>1 DEF resolveAwardRecipients
    <3> QED
      BY <3>2
  <2> QED
    BY <2>1, <2>2
<1> DEFINE new == [form[t] EXCEPT !.reviewing = reviewing, !.resolved = resolved]
<1>3. new \in FormState /\ form' = [form EXCEPT ![t] = new]
  BY <1>1, <1>2 DEF FormState
<1>4. new = [form[t] EXCEPT !.image = new.image, !.thumb = new.thumb,
                            !.custom = new.custom, !.uploads = new.uploads,
                            !.reviewing = new.reviewing, !.resolved = new.resolved]
  BY <1>1 DEF FormState
<1>5. form[t].stage = "award" /\ UNCHANGED <<sessionVars, definition, awards>>
  BY DEF Review, resolveAwardRecipients, OnForm
<1> HIDE DEF new
<1> QED
  BY <1>3, <1>4, <1>5, PicturesKeep

(* A save goes from the click to the relays' answer with its draft. *)
LEMMA SaveKeeps ==
  ASSUME IInv, NEW t \in StudioTab, NEW draft \in Definition \cup {NoDefinition},
         Save(t, draft), UNCHANGED <<sessionVars, definition, awards>>,
         form[t].stage \in {"new", "edit", "award"},
         form[t].stage # "award" => draft # NoDefinition,
         draft # NoDefinition => AsChosen(draft)
  PROVE  IInv'
<1> DEFINE new == [form[t] EXCEPT !.save = "signing", !.draft = draft, !.saves = @ + 1]
<1>1. /\ form[t] \in FormState /\ FitsPage(t, form[t])
      /\ DraftInv(form[t]) /\ CountInv(form[t]) /\ form \in [StudioTab -> FormState]
  BY FitsNow DEF IInv, TypeOK
<1>2. /\ form[t].save = "idle" /\ form[t].saves < MaxSaves /\ MaxSaves \in Nat
      /\ form' = [form EXCEPT ![t] = new]
  BY <1>1, StudioAssumption DEF Save
<1>3. form[t].saves + 1 \in 0..MaxSaves
  BY <1>1, <1>2 DEF FormState
<1>4. /\ new \in FormState /\ new.stage = form[t].stage /\ new.of = form[t].of
      /\ new.thumb = form[t].thumb /\ new.save = "signing" /\ new.draft = draft
      /\ new.saves = form[t].saves + 1 /\ new.reached = form[t].reached
      /\ new.lost = form[t].lost
  BY <1>1, <1>3 DEF FormState
<1>5. /\ form[t].saves \in Nat /\ form[t].reached \in Nat /\ form[t].lost \in Nat
  BY <1>1, <1>2 DEF FormState
<1> HIDE DEF new
<1>6. FitsPage(t, new) /\ DraftInv(new)
  BY <1>1, <1>4 DEF FitsPage, DraftInv, InFlight
<1>7. CountInv(new)
  BY <1>1, <1>2, <1>4, <1>5 DEF CountInv, InFlight
<1> QED
  BY <1>2, <1>4, <1>6, <1>7, NothingStored, FormStep

LEMMA PublishBadgeKeeps ==
  ASSUME IInv, NEW t \in StudioTab, publishBadge(t)
  PROVE  IInv'
<1> DEFINE draft == [image |-> form[t].image,
                     thumb |-> IF form[t].custom THEN form[t].thumb ELSE form[t].image,
                     made  |-> IF form[t].custom THEN "custom" ELSE "plain"]
<1>1. form[t] \in FormState /\ DraftInv(form[t])
  BY FitsNow
<1>2. /\ form[t].stage = "new" /\ form[t].image # NoPicture
      /\ form[t].custom => form[t].thumb # NoPicture
      /\ Save(t, draft) /\ UNCHANGED <<sessionVars, definition, awards>>
  BY DEF publishBadge, OnForm
<1>3. draft \in Definition /\ AsChosen(draft)
  BY <1>1, <1>2 DEF Definition, AsChosen, FormState, SomePicture, DraftInv
<1> HIDE DEF draft
<1>4. draft # NoDefinition
  BY <1>3, NoDefinitionAssumption DEF NoDefinitionAssumption
<1> QED
  BY <1>2, <1>3, <1>4, SaveKeeps

LEMMA SaveBadgeKeeps ==
  ASSUME IInv, NEW t \in StudioTab, saveBadge(t)
  PROVE  IInv'
<1> DEFINE draft == [image |-> form[t].image,
                     thumb |-> IF form[t].thumb = NoPicture THEN form[t].image
                               ELSE form[t].thumb,
                     made  |-> "edited"]
<1>1. form[t] \in FormState
  BY FitsNow
<1>2. /\ form[t].stage = "edit" /\ form[t].image # NoPicture
      /\ Save(t, draft) /\ UNCHANGED <<sessionVars, definition, awards>>
  BY DEF saveBadge, OnForm
<1>3. draft \in Definition /\ AsChosen(draft)
  BY <1>1, <1>2 DEF Definition, AsChosen, FormState, SomePicture
<1> HIDE DEF draft
<1>4. draft # NoDefinition
  BY <1>3, NoDefinitionAssumption DEF NoDefinitionAssumption
<1> QED
  BY <1>2, <1>3, <1>4, SaveKeeps

LEMMA PublishAwardKeeps ==
  ASSUME IInv, NEW t \in StudioTab, publishAward(t)
  PROVE  IInv'
<1>1. /\ form[t].stage = "award" /\ Save(t, NoDefinition)
      /\ UNCHANGED <<sessionVars, definition, awards>>
  BY DEF publishAward, OnForm
<1> QED
  BY <1>1, SaveKeeps

LEMMA SignKeeps ==
  ASSUME IInv, NEW t \in StudioTab, NEW signs \in BOOLEAN, Sign(t, signs)
  PROVE  IInv'
<1> DEFINE draft == IF signs THEN form[t].draft ELSE NoDefinition
           save  == IF signs THEN "sending" ELSE "idle"
           new   == [form[t] EXCEPT !.save = save, !.draft = draft]
<1>1. /\ form[t] \in FormState /\ FitsPage(t, form[t])
      /\ DraftInv(form[t]) /\ CountInv(form[t]) /\ form \in [StudioTab -> FormState]
  BY FitsNow DEF IInv, TypeOK
<1>2. /\ form[t].save = "signing" /\ UNCHANGED <<sessionVars, definition, awards>>
      /\ form' = [form EXCEPT ![t] = new]
  BY <1>1 DEF Sign
<1>3. /\ new \in FormState /\ new.stage = form[t].stage /\ new.of = form[t].of
      /\ new.thumb = form[t].thumb /\ new.save = save /\ new.draft = draft
      /\ new.saves = form[t].saves /\ new.reached = form[t].reached
      /\ new.lost = form[t].lost
  BY <1>1 DEF FormState
<1>4. save \in {"sending", "idle"} /\ (save = "sending" => draft = form[t].draft)
      /\ (draft # NoDefinition => draft = form[t].draft)
  OBVIOUS
<1> HIDE DEF new, draft, save
<1>5. FitsPage(t, new) /\ DraftInv(new) /\ CountInv(new)
  BY <1>1, <1>2, <1>3, <1>4 DEF FitsPage, DraftInv, CountInv, InFlight
<1> QED
  BY <1>2, <1>3, <1>5, NothingStored, FormStep

(* What was heard counts as reached; what was not, as lost too if it is    *)
(* there all the same.                                                     *)
LEMMA AnswerKeeps ==
  ASSUME IInv, NEW t \in StudioTab, Heard(t) \/ \E arrived \in BOOLEAN : NotHeard(t, arrived)
  PROVE  IInv'
<1>1. /\ form[t] \in FormState /\ FitsPage(t, form[t])
      /\ DraftInv(form[t]) /\ CountInv(form[t]) /\ form \in [StudioTab -> FormState]
  BY FitsNow DEF IInv, TypeOK
<1>2. form[t].save = "sending" /\ UNCHANGED sessionVars /\ MaxSaves \in Nat
  BY StudioAssumption DEF Heard, NotHeard
<1>3. PICK save \in {"idle", "done"}, more \in {0, 1}, lost \in {0, 1} :
        /\ form' = [form EXCEPT ![t] = [form[t] EXCEPT
                      !.save = save, !.draft = NoDefinition,
                      !.reached = form[t].reached + more, !.lost = form[t].lost + lost]]
        /\ save = "done" => more = 1 /\ lost = 0
        /\ save = "idle" => more = lost
  <2>1. CASE Heard(t)
    <3>1. form' = [form EXCEPT ![t] = [form[t] EXCEPT
                      !.save = "done", !.draft = NoDefinition,
                      !.reached = form[t].reached + 1, !.lost = form[t].lost + 0]]
      BY <1>1, <2>1 DEF Heard, FormState
    <3> QED
      BY <3>1
  <2>2. ASSUME NEW arrived \in BOOLEAN, NotHeard(t, arrived)
        PROVE  \E n \in {0, 1} :
                 form' = [form EXCEPT ![t] = [form[t] EXCEPT
                      !.save = "idle", !.draft = NoDefinition,
                      !.reached = form[t].reached + n, !.lost = form[t].lost + n]]
    <3>1. CASE arrived
      <4>1. form' = [form EXCEPT ![t] = [form[t] EXCEPT
                      !.save = "idle", !.draft = NoDefinition,
                      !.reached = form[t].reached + 1, !.lost = form[t].lost + 1]]
        BY <1>1, <2>2, <3>1 DEF NotHeard, FormState
      <4> QED
        BY <4>1
    <3>2. CASE ~arrived
      <4>1. form' = [form EXCEPT ![t] = [form[t] EXCEPT
                      !.save = "idle", !.draft = NoDefinition,
                      !.reached = form[t].reached, !.lost = form[t].lost]]
        BY <1>1, <2>2, <3>2 DEF NotHeard, FormState
      <4>2. form[t].reached = form[t].reached + 0 /\ form[t].lost = form[t].lost + 0
        BY <1>1, <1>2 DEF FormState
      <4> QED
        BY <4>1, <4>2
    <3> QED
      BY <3>1, <3>2
  <2> QED
    BY <2>1, <2>2
<1> DEFINE new == [form[t] EXCEPT !.save = save, !.draft = NoDefinition,
                      !.reached = form[t].reached + more, !.lost = form[t].lost + lost]
<1>4. /\ form[t].saves \in 0..MaxSaves /\ form[t].reached \in Nat /\ form[t].lost \in Nat
      /\ form[t].reached < form[t].saves /\ form[t].lost <= form[t].reached
      /\ form[t].reached <= form[t].lost
  BY <1>1, <1>2 DEF FormState, CountInv, InFlight
<1>5. form[t].reached + more \in 0..MaxSaves /\ form[t].lost + lost \in 0..MaxSaves
  BY <1>2, <1>4
<1>6. /\ new \in FormState /\ new.stage = form[t].stage /\ new.of = form[t].of
      /\ new.thumb = form[t].thumb /\ new.save = save /\ new.draft = NoDefinition
      /\ new.saves = form[t].saves /\ new.reached = form[t].reached + more
      /\ new.lost = form[t].lost + lost
  BY <1>1, <1>5 DEF FormState
<1>7. form' = [form EXCEPT ![t] = new]
  BY <1>3
<1> HIDE DEF new
<1>8. EventsKept
  BY <1>2, StoreKeeps, NothingStored DEF Heard, NotHeard
<1>9. FitsPage(t, new) /\ DraftInv(new)
  BY <1>1, <1>2, <1>6 DEF FitsPage, DraftInv, InFlight
<1>10. CountInv(new)
  BY <1>3, <1>4, <1>6 DEF CountInv, InFlight
<1> QED
  BY <1>2, <1>6, <1>7, <1>8, <1>9, <1>10, FormStep

-----------------------------------------------------------------------------
LEMMA InitIInv ==
  ASSUME Init
  PROVE  IInv
<1>1. SessionTypeOK /\ SessionInv
  BY PageIsTab, SessionAssumption
  DEF Init, SessionInit, SessionTypeOK, SessionInv, Someone
<1>2. /\ form \in [StudioTab -> {Blank(of) : of \in Author}]
      /\ \A t \in StudioTab : \E of \in Author : form[t] = Blank(of)
  BY DEF Init
<1>3. form \in [StudioTab -> FormState]
  BY <1>2, BlankIsGood
<1>4. \A t \in StudioTab : FormInv(t)
  BY <1>2, BlankIsGood DEF FormInv, PageInv, Working
<1>5. /\ definition \in [Author -> Definition \cup {NoDefinition}] /\ awards = {}
      /\ \A a \in Author : definition[a] = NoDefinition
  BY DEF Init
<1> QED
  BY <1>1, <1>3, <1>4, <1>5 DEF IInv, TypeOK, AwardsAreTheAuthors, ThumbAsChosen

LEMMA StutterKeeps ==
  ASSUME IInv, UNCHANGED vars
  PROVE  IInv'
<1> USE DEF vars, sessionVars, studioVars
<1>1. TypeOK' /\ SessionInv'
  BY DEF IInv, TypeOK, SessionTypeOK, SessionInv, Behind, Signed
<1>2. \A t \in StudioTab : FormInv(t)'
  BY DEF IInv, FormInv, PageInv, Working, DraftInv, CountInv, InFlight, AsChosen
<1>3. AwardsAreTheAuthors' /\ ThumbAsChosen'
  BY DEF IInv, AwardsAreTheAuthors, ThumbAsChosen
<1> QED
  BY <1>1, <1>2, <1>3 DEF IInv

LEMMA NextKeeps ==
  ASSUME IInv, Next
  PROVE  IInv'
<1>1. CASE \E t \in Tab : \/ \E v \in View, of \in Author : OpenPage(t, v, of)
                          \/ LogoutPage(t)
                          \/ LogIn(t)
  BY <1>1, OpenPageKeeps, LogoutPageKeeps, LogInKeeps
<1>2. ASSUME NEW t \in StudioTab,
             \/ mountNewBadgePage(t)
             \/ \E found \in Definition \cup {NoDefinition} :
                  mountEditBadgePage(t, found) \/ mountBadgePage(t, found)
      PROVE  IInv'
  BY <1>2, MountNewKeeps, MountEditKeeps, MountBadgeKeeps
<1>3. ASSUME NEW t \in StudioTab,
             \/ \E file \in Picture : Upload(t, file) \/ Uploaded(t, file)
                                      \/ UploadFails(t, file)
             \/ ToggleThumb(t) \/ TypeUrl(t)
             \/ Review(t) \/ \E some \in BOOLEAN : resolveAwardRecipients(t, some)
      PROVE  IInv'
  BY <1>3, UploadKeeps, UploadedKeeps, ToggleThumbKeeps, TypeUrlKeeps, RecipientsKeep
<1>4. ASSUME NEW t \in StudioTab,
             \/ publishBadge(t) \/ saveBadge(t) \/ publishAward(t)
             \/ \E signs \in BOOLEAN : Sign(t, signs)
             \/ Heard(t) \/ \E arrived \in BOOLEAN : NotHeard(t, arrived)
             \/ Navigate(t)
      PROVE  IInv'
  BY <1>4, PublishBadgeKeeps, SaveBadgeKeeps, PublishAwardKeeps, SignKeeps, AnswerKeeps,
     NavigateKeeps
<1> QED
  BY <1>1, <1>2, <1>3, <1>4 DEF Next

(* Nothing the tabs do, in any order, breaks what the session and the      *)
(* forms rely on: a form always has the signer it was shown to, and what   *)
(* it sends is what it showed at the click.                                *)
THEOREM Invariant == Spec => []IInv
<1>1. Init => IInv
  BY InitIInv
<1>2. IInv /\ [Next]_vars => IInv'
  BY NextKeeps, StutterKeeps
<1> QED
  BY <1>1, <1>2, PTL DEF Spec

(* Every value keeps to its set, the counts of a page's saves included.    *)
THEOREM TypeCorrect == Spec => []TypeOK
<1>1. IInv => TypeOK
  BY DEF IInv
<1> QED
  BY <1>1, Invariant, PTL

(* After a logout nothing is stored, the cookie is not used and no page    *)
(* opened since signs in, whatever the other tabs' restores and logins do, *)
(* until somebody signs in or a page of before stores its session again    *)
(* (clearStoredSession, bootstrapSession).                                 *)
THEOREM LogoutIsKept == Spec => []LogoutLasts
<1>1. IInv => LogoutLasts
  BY DEF IInv, SessionInv, LogoutLasts, Behind
<1> QED
  BY <1>1, Invariant, PTL

(* Only a save the page was told had failed leaves a second event on the   *)
(* relays: the buttons of the three forms stay disabled after an OK        *)
(* (publishBadge, saveBadge, publishAward).                                *)
THEOREM ExtraEvents == Spec => []ExtraEventsWereLost
<1>1. IInv => ExtraEventsWereLost
  <2>1. SUFFICES ASSUME IInv, NEW t \in StudioTab
                 PROVE  form[t].reached <= form[t].lost + 1
    BY DEF ExtraEventsWereLost
  <2>2. form[t] \in FormState /\ CountInv(form[t]) /\ MaxSaves \in Nat
    BY <2>1, FitsNow, StudioAssumption
  <2> QED
    BY <2>2 DEF CountInv, FormState
<1> QED
  BY <1>1, Invariant, PTL

(* Every award on the relays is by the author of its badge, which has a    *)
(* definition there (canAwardBadge, mountBadgePage).                       *)
THEOREM AwardsByAuthors == Spec => []AwardsAreTheAuthors
<1>1. IInv => AwardsAreTheAuthors
  BY DEF IInv
<1> QED
  BY <1>1, Invariant, PTL

(* A badge made on /new has the thumbnail the toggle asked for at the      *)
(* click, whenever the uploads ended (publishBadge, handleFileUpload).     *)
THEOREM ThumbIsAsChosen == Spec => []ThumbAsChosen
<1>1. IInv => ThumbAsChosen
  BY DEF IInv
<1> QED
  BY <1>1, Invariant, PTL
=============================================================================
