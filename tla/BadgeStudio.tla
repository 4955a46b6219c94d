----------------------------- MODULE BadgeStudio -----------------------------
(***************************************************************************)
(* Creating, editing and awarding a badge in the browser (views/new.js,    *)
(* views/edit_badge.js, the award panel of views/badge.js), on top of the  *)
(* session: what a page may do depends on who is signed in, and signing in *)
(* and out in any tab goes on meanwhile.  An account has one badge here.   *)
(* A form uploads pictures while the person goes on with it, and saves by  *)
(* signing an event built at the click and sending it to the relays, whose *)
(* answer may be lost.  Relays and the media server are not part of the    *)
(* repository: an event is stored or not, with or without an answer.       *)
(***************************************************************************)
EXTENDS BrowserSession

CONSTANTS
  StudioTab,      \* bound: the tabs whose forms are modelled,
  Author,         \*        and the accounts that make badges
  Image,          \* pictures the person uploads or names as the badge's image,
  Thumb,          \*   and as its thumbnail
  NoPicture,
  NoDefinition,
  MaxSaves        \* bound: saves tried on one page

ASSUME StudioAssumption ==
  /\ StudioTab \subseteq Tab
  /\ Author \subseteq Account /\ Author # {}
  /\ View = {"me", "new", "edit", "badge"}
  /\ Image \cap Thumb = {}
  /\ NoPicture \notin Image \cup Thumb
  /\ MaxSaves \in Nat

VARIABLES
  form,         \* the page of each studio tab
  definition,   \* the definition of each account's badge, as the relays have it
  awards        \* the award events the relays have

studioVars == <<form, definition, awards>>
vars == <<sessionVars, studioVars>>

Picture == Image \cup Thumb
SomePicture == Picture \cup {NoPicture}

\* made tells by which form, and on /new whether a custom thumbnail was asked for.
Definition == [image : Picture, thumb : Picture, made : {"plain", "custom", "edited"}]
Award == [of : Author, by : Account]

NoDefinitionAssumption == NoDefinition \notin Definition
ASSUME NoDefinitionAssumption

FormState == [of        : Author,           \* whose badge the page is about
              stage     : {"loading", "none", "new", "edit", "award"},
              image     : SomePicture,
              thumb     : SomePicture,
              custom    : BOOLEAN,          \* the custom thumbnail toggle
              uploads   : SUBSET Picture,
              reviewing : BOOLEAN,          \* recipients are being resolved,
              resolved  : BOOLEAN,          \*   and there are some
              save      : {"idle", "signing", "sending", "done"},
              draft     : Definition \cup {NoDefinition},
              saves     : 0..MaxSaves,
              reached   : 0..MaxSaves,      \* events of this page the relays stored,
              lost      : 0..MaxSaves]      \*   those it was told had failed

(* Every value keeps to its set. *)
TypeOK ==
  /\ SessionTypeOK
  /\ form \in [StudioTab -> FormState]
  /\ definition \in [Author -> Definition \cup {NoDefinition}]
  /\ awards \subseteq Award

Blank(of) ==
  [of |-> of, stage |-> "loading", image |-> NoPicture, thumb |-> NoPicture,
   custom |-> FALSE, uploads |-> {}, reviewing |-> FALSE, resolved |-> FALSE,
   save |-> "idle", draft |-> NoDefinition, saves |-> 0, reached |-> 0, lost |-> 0]

Init ==
  /\ SessionInit
  /\ form \in [StudioTab -> {Blank(of) : of \in Author}]
  /\ definition = [a \in Author |-> NoDefinition]
  /\ awards = {}

-----------------------------------------------------------------------------
(* The relays have the event that t is sending. *)
Store(t) ==
  IF form[t].stage = "award"
  THEN /\ awards' = awards \cup {[of |-> form[t].of, by |-> tab[t].signer]}
       /\ UNCHANGED definition
  ELSE /\ definition' = [definition EXCEPT ![tab[t].signer] = form[t].draft]
       /\ UNCHANGED awards

(* The page of t is left: what it was sending may arrive or not. *)
Abandon(t) ==
  \/ t \in StudioTab /\ form[t].save = "sending" /\ Store(t)
  \/ UNCHANGED <<definition, awards>>

NewForm(t, of) ==
  form' = IF t \in StudioTab THEN [form EXCEPT ![t] = Blank(of)] ELSE form

OpenPage(t, v, of) ==
  /\ v # "me" => t \in StudioTab
  /\ Open(t, v)
  /\ NewForm(t, of)
  /\ Abandon(t)

LogoutPage(t) ==
  /\ Logout(t)
  /\ IF t \in StudioTab THEN NewForm(t, form[t].of) ELSE UNCHANGED form
  /\ Abandon(t)

LogIn(t) ==
  /\ \/ \E key \in Someone : Restored(t, key) \/ SharedRestored(t, key)
     \/ RestoreFails(t)
     \/ SharedFails(t)
     \/ \E account \in Account : LoginOnMe(t, account) \/ completeOAuthCallback(t, account)
     \/ beginDivineOAuth(t)
     \/ TokenRefresh(t)
  /\ UNCHANGED studioVars

-----------------------------------------------------------------------------
(* The page has its session and shows its form, if there is one for the    *)
(* person signed in.  A query may find nothing where there is something.   *)
Ready(t) ==
  /\ form[t].stage = "loading"
  /\ tab[t].boot = "done"
  /\ UNCHANGED <<sessionVars, definition, awards>>

Shows(t, stage) == form' = [form EXCEPT ![t].stage = stage]

mountNewBadgePage(t) ==
  /\ Ready(t) /\ tab[t].view = "new"
  /\ IF tab[t].signer \in Author
     THEN form' = [form EXCEPT ![t].stage = "new", ![t].of = tab[t].signer]
     ELSE Shows(t, "none")

mountEditBadgePage(t, found) ==
  /\ Ready(t) /\ tab[t].view = "edit"
  /\ found \in {NoDefinition, definition[form[t].of]}
  /\ IF tab[t].signer = form[t].of /\ found # NoDefinition
     THEN form' = [form EXCEPT ![t].stage = "edit",
                               ![t].image = found.image, ![t].thumb = found.thumb]
     ELSE Shows(t, "none")

canAwardBadge(t) == tab[t].signer = form[t].of

(* Faulty: the page is shown for a badge that was not found. *)
mountBadgePage_NotFound(t, found) ==
  /\ Ready(t) /\ tab[t].view = "badge"
  /\ found \in {NoDefinition, definition[form[t].of]}
  /\ Shows(t, IF canAwardBadge(t) THEN "award" ELSE "none")

mountBadgePage(t, found) ==
  /\ Ready(t) /\ tab[t].view = "badge"
  /\ found \in {NoDefinition, definition[form[t].of]}
  /\ Shows(t, IF found # NoDefinition /\ canAwardBadge(t) THEN "award" ELSE "none")

-----------------------------------------------------------------------------
(* Pictures.  Nothing holds back a second upload, the toggle or a save     *)
(* while one is on its way.                                                *)
OnForm(t, stages) ==
  /\ form[t].stage \in stages
  /\ UNCHANGED <<sessionVars, definition, awards>>

Upload(t, file) ==
  /\ OnForm(t, {"new", "edit"})
  /\ file \in Thumb /\ form[t].stage = "new" => form[t].custom
  /\ form' = [form EXCEPT ![t].uploads = @ \cup {file}]

(* On /new a new image drops a thumbnail that is not asked for. *)
Uploaded(t, file) ==
  /\ OnForm(t, {"new", "edit"})
  /\ file \in form[t].uploads
  /\ LET f == [form[t] EXCEPT !.uploads = @ \ {file}] IN
     form' = [form EXCEPT ![t] =
       IF file \in Thumb THEN [f EXCEPT !.thumb = file]
       ELSE IF f.stage = "new" /\ ~f.custom
            THEN [f EXCEPT !.image = file, !.thumb = NoPicture]
            ELSE [f EXCEPT !.image = file]]

UploadFails(t, file) ==
  /\ OnForm(t, {"new", "edit"})
  /\ file \in form[t].uploads
  /\ form' = [form EXCEPT ![t].uploads = @ \ {file}]

ToggleThumb(t) ==
  /\ OnForm(t, {"new"})
  /\ form' = [form EXCEPT ![t].custom = ~@,
                          ![t].thumb = IF form[t].custom THEN NoPicture ELSE @]

TypeUrl(t) ==
  /\ OnForm(t, {"edit"})
  /\ \/ \E p \in Image \cup {NoPicture} : form' = [form EXCEPT ![t].image = p]
     \/ \E p \in Thumb \cup {NoPicture} : form' = [form EXCEPT ![t].thumb = p]

(* Recipients: a review replaces the list, by nothing when none is found. *)
Review(t) ==
  /\ OnForm(t, {"award"})
  /\ ~form[t].reviewing
  /\ form' = [form EXCEPT ![t].reviewing = TRUE]

resolveAwardRecipients(t, some) ==
  /\ OnForm(t, {"award"})
  /\ form[t].reviewing
  /\ form' = [form EXCEPT ![t].reviewing = FALSE, ![t].resolved = some]

-----------------------------------------------------------------------------
(* Saving.  The event is built at the click. *)
Save(t, draft) ==
  /\ form[t].save = "idle"
  /\ form[t].saves < MaxSaves
  /\ form' = [form EXCEPT ![t].save = "signing", ![t].draft = draft, ![t].saves = @ + 1]

(* Faulty: the thumbnail of the preview. *)
publishBadge_Preview(t) ==
  LET f == form[t] IN
  /\ OnForm(t, {"new"})
  /\ f.image # NoPicture
  /\ f.custom => f.thumb # NoPicture
  /\ Save(t, [image |-> f.image, thumb |-> IF f.thumb = NoPicture THEN f.image ELSE f.thumb,
              made |-> IF f.custom THEN "custom" ELSE "plain"])

publishBadge(t) ==
  LET f == form[t] IN
  /\ OnForm(t, {"new"})
  /\ f.image # NoPicture
  /\ f.custom => f.thumb # NoPicture
  /\ Save(t, [image |-> f.image, thumb |-> IF f.custom THEN f.thumb ELSE f.image,
              made |-> IF f.custom THEN "custom" ELSE "plain"])

(* Faulty: the image may have been emptied. *)
saveBadge_NoImage(t) ==
  LET f == form[t] IN
  /\ OnForm(t, {"edit"})
  /\ Save(t, [image |-> f.image, thumb |-> IF f.thumb = NoPicture THEN f.image ELSE f.thumb,
              made |-> "edited"])

saveBadge(t) ==
  LET f == form[t] IN
  /\ OnForm(t, {"edit"})
  /\ f.image # NoPicture
  /\ Save(t, [image |-> f.image, thumb |-> IF f.thumb = NoPicture THEN f.image ELSE f.thumb,
              made |-> "edited"])

publishAward(t) ==
  /\ OnForm(t, {"award"})
  /\ form[t].resolved
  /\ Save(t, NoDefinition)

(* The write relays are looked up, and the signer signs or refuses. *)
Sign(t, signs) ==
  /\ form[t].save = "signing"
  /\ form' = [form EXCEPT ![t].save = IF signs THEN "sending" ELSE "idle",
                          ![t].draft = IF signs THEN @ ELSE NoDefinition]
  /\ UNCHANGED <<sessionVars, definition, awards>>

(* Faulty: the button is given back whatever the outcome. *)
Heard_ButtonBack(t) ==
  /\ form[t].save = "sending"
  /\ form' = [form EXCEPT ![t].save = "idle", ![t].draft = NoDefinition, ![t].reached = @ + 1]
  /\ Store(t)
  /\ UNCHANGED sessionVars

(* One relay at least has said OK: the button stays disabled. *)
Heard(t) ==
  /\ form[t].save = "sending"
  /\ form' = [form EXCEPT ![t].save = "done", ![t].draft = NoDefinition, ![t].reached = @ + 1]
  /\ Store(t)
  /\ UNCHANGED sessionVars

(* No relay has said OK within its timeout: the form is there again, also  *)
(* when a relay has the event.                                             *)
NotHeard(t, arrived) ==
  /\ form[t].save = "sending"
  /\ form' = [form EXCEPT ![t].save = "idle", ![t].draft = NoDefinition,
                          ![t].reached = IF arrived THEN @ + 1 ELSE @,
                          ![t].lost = IF arrived THEN @ + 1 ELSE @]
  /\ IF arrived THEN Store(t) ELSE UNCHANGED <<definition, awards>>
  /\ UNCHANGED sessionVars

(* A saved badge, and the badge page once more after an award. *)
Navigate(t) ==
  /\ form[t].save = "done"
  /\ Open(t, "badge")
  /\ NewForm(t, form[t].of)
  /\ UNCHANGED <<definition, awards>>

-----------------------------------------------------------------------------
Next ==
  \/ \E t \in Tab :
       \/ \E v \in View, of \in Author : OpenPage(t, v, of)
       \/ LogoutPage(t)
       \/ LogIn(t)
  \/ \E t \in StudioTab :
       \/ mountNewBadgePage(t)
       \/ \E found \in Definition \cup {NoDefinition} :
            mountEditBadgePage(t, found) \/ mountBadgePage(t, found)
       \/ \E file \in Picture : Upload(t, file) \/ Uploaded(t, file) \/ UploadFails(t, file)
       \/ ToggleThumb(t)
       \/ TypeUrl(t)
       \/ Review(t)
       \/ \E some \in BOOLEAN : resolveAwardRecipients(t, some)
       \/ publishBadge(t)
       \/ saveBadge(t)
       \/ publishAward(t)
       \/ \E signs \in BOOLEAN : Sign(t, signs)
       \/ Heard(t)
       \/ \E arrived \in BOOLEAN : NotHeard(t, arrived)
       \/ Navigate(t)

Spec == Init /\ [][Next]_vars

-----------------------------------------------------------------------------
(* Once the person has logged out in a tab, and until somebody signs in or *)
(* a page from before the logout stores its session again, no session is   *)
(* stored, the cookie is not used, and no page opened since signs in       *)
(* (clearStoredSession, bootstrapSession).                                 *)
LogoutLasts ==
  left => /\ stored = NoOne /\ loggedOut
          /\ \A t \in Tab : Signed(t) => tab[t].stale

(* The relays have more than one event of a page only for saves that the   *)
(* page was told had failed: a save that was heard is not made again.      *)
ExtraEventsWereLost ==
  \A t \in StudioTab : form[t].reached <= form[t].lost + 1

(* An award of a badge is by its author, and the badge has a definition,   *)
(* whoever was signed in when the page was opened and since.               *)
AwardsAreTheAuthors ==
  \A a \in awards : a.by = a.of /\ definition[a.of] # NoDefinition

(* A badge made with the custom thumbnail off has its image as thumbnail,  *)
(* and one made with it on a thumbnail, also when an upload begun before   *)
(* the toggle was used ended after it.                                     *)
ThumbAsChosen ==
  \A a \in Author : definition[a] # NoDefinition =>
    /\ definition[a].made = "plain" => definition[a].thumb = definition[a].image
    /\ definition[a].made = "custom" => definition[a].thumb \in Thumb
=============================================================================
