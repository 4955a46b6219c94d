--------------------------- MODULE ReplaceableList ---------------------------
(***************************************************************************)
(* The lists a person edits with the badge client: profile badges (kind    *)
(* 30008), contacts (kind 3) and relays (kind 10002).  A list is one       *)
(* replaceable event: a relay keeps the version with the largest           *)
(* created_at.  A page reads the list from several relays when it is       *)
(* opened, keeps that copy, builds the next version from it at a click,    *)
(* signs it and sends it to the relays the person writes to.               *)
(*                                                                         *)
(* All pages of a behaviour edit the same list of the same person:         *)
(*   badge    accept or hide the badge of the page (views/badge.js)        *)
(*   me       accept or hide any award             (views/me.js)           *)
(*   profile  the same on the public profile       (views/profile.js)      *)
(*   follow   follow the awardees of the page      (views/badge.js)        *)
(*   relays   publish the relay list               (views/relays.js)       *)
(* Relays are not part of the repository: one answers a query in full, not *)
(* at all, or too late, and stores an event with or without saying so.     *)
(*                                                                         *)
(* calm is chosen at the start.  When it holds the environment is the one  *)
(* the pages are written for: see "The calm environment" below.            *)
(***************************************************************************)
EXTENDS Naturals, FiniteSets

CONSTANTS
  Relay,         \* every relay
  Seed,          \* the Divine relay
  ReadMarked,    \* relays of the person's published list, marked for reading
  WriteMarked,   \* and those marked for writing
  LocalWrite,    \* local overrides of /relays with write on
  Page,          \* browser tabs
  Entry,         \* awards, contacts or relays a list may hold
  Offered,       \* the entries the pages are about
  Overrides,     \* edits of the relay list by the local overrides of /relays
  Existing,      \* the entries of the list before the pages are used
  Holders,       \* which relays may have the list before that
  NoVersion,     \* the relay has no version of the list
  RoughPage,     \* bound: tabs in use when the environment is not calm,
  RoughOffered,  \*        and the entries they are about
  MaxSkew,       \* bound: how far the clock of a device runs ahead
  MaxClicks      \* bound: edits of a behaviour

ASSUME ListAssumption ==
  /\ Seed \subseteq Relay /\ Seed # {}
  /\ ReadMarked \subseteq Relay
  /\ WriteMarked \subseteq Relay
  /\ LocalWrite \subseteq Relay
  /\ Offered \subseteq Entry /\ Existing \subseteq Entry
  /\ Holders \subseteq SUBSET Relay
  /\ Overrides \subseteq [add : SUBSET Entry, drop : SUBSET Entry]
  /\ RoughPage \subseteq Page /\ RoughOffered \subseteq Offered
  /\ Page # {} /\ MaxSkew \in Nat /\ MaxClicks \in Nat

Click == 1..MaxClicks

Version == [at : 0..(MaxClicks + 1 + MaxSkew), entries : SUBSET Entry]

ASSUME NoVersionAssumption == NoVersion \notin Version

VARIABLES
  stored,   \* the version each relay keeps
  clock,    \* the second it is
  page,     \* what each tab shows and knows of the list
  click,    \* the handler of each click
  calm      \* the environment is calm

vars == <<stored, clock, page, click, calm>>

-----------------------------------------------------------------------------
(* Which list a view edits; a behaviour is about one of the three. *)
ProfileBadges == {"badge", "me", "profile"}
Contacts      == {"follow"}
RelayList     == {"relays"}
Lists         == {ProfileBadges, Contacts, RelayList}

InReach == IF calm THEN Offered ELSE RoughOffered

(* The entries the buttons of a view are about: one award on a badge page. *)
Offers(v) == IF v = "badge" THEN {{e} : e \in InReach} ELSE {InReach}

Edit == [add : SUBSET Entry, drop : SUBSET Entry]
NoEdit == [add |-> {}, drop |-> {}]

Edited(entries, edit) == (entries \cup edit.add) \ edit.drop

PageState == [view    : UNION Lists,
              offers  : SUBSET Offered,
              ahead   : 0..MaxSkew,
              status  : {"loading", "unknown", "empty", "loaded"},
              copy    : Version \cup {NoVersion},
              behind  : BOOLEAN]

ClickState == [pc    : {"none", "sign", "send", "refresh", "saved", "failed", "gone"},
               page  : Page,
               edit  : Edit,
               event : Version \cup {NoVersion},
               reply : [Relay -> {"none", "sent", "ok", "late", "failed"}]]

TypeOK ==
  /\ stored \in [Relay -> Version \cup {NoVersion}]
  /\ clock \in 1..(MaxClicks + 1)
  /\ page \in [Page -> PageState]
  /\ click \in [Click -> ClickState]
  /\ calm \in BOOLEAN

-----------------------------------------------------------------------------
(* Reading a list.                                                         *)
Held == {stored[r] : r \in Relay} \ {NoVersion}

Newest(versions) == {v \in versions : \A w \in versions : w.at <= v.at}

Entries(version) == IF version = NoVersion THEN {} ELSE version.entries

(* The relays asked: the Divine relay and what was discovered through it. *)
ReadRelays == Seed \cup ReadMarked

(* Which relays told what they have before the query was over.  A relay    *)
(* whose time ran out has told nothing and counts as answered all the same.*)
Told == {told \in SUBSET ReadRelays : calm => Seed \subseteq told}

(* What the page makes of the versions that came. *)
Heard(versions) ==
  IF versions = {}
  THEN {[status |-> "empty", copy |-> NoVersion]}
  ELSE {[status |-> "loaded", copy |-> v] : v \in Newest(versions)}

(* Not one relay answered or ran out of time: all of them failed. *)
Unheard == [status |-> "unknown", copy |-> NoVersion]

Readings ==
  {Unheard} \cup UNION {Heard({stored[r] : r \in told} \ {NoVersion}) : told \in Told}

-----------------------------------------------------------------------------
(* The calm environment: the Divine relay is up and keeps the list, pages  *)
(* are used one after the other, a page that is behind an edit of another  *)
(* one is opened again before it is used, and clocks order the edits.      *)
InFlight(c) == click[c].pc \in {"sign", "send", "refresh"}
Busy        == \E c \in Click : InFlight(c)

CalmStart(holders) == holders # {} => Seed \subseteq holders
CalmClick(p)       == ~Busy /\ ~page[p].behind
CalmEvent(at)      == \A v \in Held : at > v.at

-----------------------------------------------------------------------------
Opened(v, offers, ahead) ==
  [view |-> v, offers |-> offers, ahead |-> ahead,
   status |-> "loading", copy |-> NoVersion, behind |-> FALSE]

NoClick == [pc |-> "none", page |-> CHOOSE p \in Page : TRUE, edit |-> NoEdit,
            event |-> NoVersion, reply |-> [r \in Relay |-> "none"]]

Init ==
  /\ calm \in BOOLEAN
  /\ \E holders \in Holders :
       /\ calm => CalmStart(holders)
       /\ stored = [r \in Relay |-> IF r \in holders THEN [at |-> 0, entries |-> Existing]
                                                   ELSE NoVersion]
  /\ clock = 1
  /\ \E list \in Lists :
       page \in [Page -> UNION {{Opened(v, offers, ahead) : offers \in Offers(v), ahead \in 0..MaxSkew}
                                : v \in list}]
  /\ calm \/ \A p, q \in Page : page[p] = page[q]    \* only RoughPage is used
  /\ click = [c \in Click |-> NoClick]

InUse(p) == calm \/ p \in RoughPage

(* The page reads the list; a page opened while an edit is on its way may  *)
(* have read too early.                                                    *)
Load(p) ==
  /\ InUse(p) /\ page[p].status = "loading"
  /\ \E reading \in Readings :
       page' = [page EXCEPT ![p] = [@ EXCEPT !.status = reading.status, !.copy = reading.copy,
                                             !.behind = Busy]]
  /\ UNCHANGED <<stored, clock, click, calm>>

LoadBadgePage(p) == page[p].view \in {"badge", "follow"} /\ Load(p)
LoadMe(p)        == page[p].view = "me" /\ Load(p)
LoadProfile(p)   == page[p].view = "profile" /\ Load(p)
LoadRelayList(p) == page[p].view = "relays" /\ Load(p)

(* A handler has ended: what it sent and nobody waits for may still arrive,*)
(* and the rest is forgotten.                                              *)
Ended(k, pc) ==
  LET late == {r \in Relay : k.reply[r] \in {"sent", "late"}} IN
  [k EXCEPT !.pc = pc, !.edit = NoEdit,
            !.event = IF late = {} /\ pc # "saved" THEN NoVersion ELSE @,
            !.reply = [r \in Relay |-> IF r \in late THEN "late" ELSE "none"]]

(* The handlers of a page end with it.                                     *)
GoneWith(p) ==
  [c \in Click |-> IF click[c].page = p /\ InFlight(c)
                   THEN Ended(click[c], "gone") ELSE click[c]]

(* The person opens another badge page, or the same page again.            *)
Reload(p) ==
  /\ InUse(p) /\ page[p].status # "loading"
  /\ calm => ~Busy
  /\ \E offers \in Offers(page[p].view) :
       page' = [page EXCEPT ![p] = Opened(page[p].view, offers, page[p].ahead)]
  /\ click' = GoneWith(p)
  /\ UNCHANGED <<stored, clock, calm>>

-----------------------------------------------------------------------------
(* Faulty: milliseconds where seconds are meant. *)
CreatedAt_Millis(p) == 1000 * (clock' + page[p].ahead)

CreatedAt(p) == clock' + page[p].ahead

CanPublish(p) == page[p].status \in {"empty", "loaded"}

(* A click: the next version is built at once, from the copy of the page.  *)
(* The clock is read here and nowhere else, and only compared: it moves    *)
(* from one click to the next, or does not.  A button is disabled during   *)
(* its click, but whatever draws the page again brings it back.            *)
Begin(c, p, edit) ==
  /\ InUse(p)
  /\ \A d \in Click : click[d].pc = "none" <=> d >= c
  /\ calm => CalmClick(p)
  /\ clock' \in {clock, clock + 1}
  /\ LET at == CreatedAt(p) IN
     /\ calm => CalmEvent(at)
     /\ click' = [click EXCEPT ![c] =
          [pc |-> "sign", page |-> p, edit |-> edit,
           event |-> [at |-> at, entries |-> Edited(Entries(page[p].copy), edit)],
           reply |-> [r \in Relay |-> "none"]]]
  /\ page' = [q \in Page |-> IF q = p THEN page[q] ELSE [page[q] EXCEPT !.behind = TRUE]]
  /\ UNCHANGED <<stored, calm>>

Accepting(e) == [add |-> {e}, drop |-> {}]
Hiding(e)    == [add |-> {}, drop |-> {e}]

(* Accept is offered for an award that is not in the list, hide for one    *)
(* that is.                                                                *)
AcceptOrHide(p, e) == IF e \in Entries(page[p].copy) THEN Hiding(e) ELSE Accepting(e)

ClickOnBadgePage(c, p) ==
  /\ page[p].view = "badge" /\ CanPublish(p)
  /\ \E e \in page[p].offers : Begin(c, p, AcceptOrHide(p, e))

ClickOnMe(c, p) ==
  /\ page[p].view = "me" /\ CanPublish(p)
  /\ \E e \in page[p].offers : Begin(c, p, AcceptOrHide(p, e))

ClickOnProfile(c, p) ==
  /\ page[p].view = "profile" /\ CanPublish(p)
  /\ \E e \in page[p].offers : Begin(c, p, AcceptOrHide(p, e))

(* The awardees the copy of the contact list does not have.                *)
MissingFollows(p) == page[p].offers \ Entries(page[p].copy)

Following(pubkeys) == [add |-> pubkeys, drop |-> {}]

FollowAwardees(c, p) ==
  /\ page[p].view = "follow" /\ CanPublish(p)
  /\ MissingFollows(p) # {}
  /\ Begin(c, p, Following(MissingFollows(p)))

(* The published list with the local overrides put in its place: they add  *)
(* relays, change them, and drop those with neither read nor write.        *)
PublishRelays(c, p) ==
  /\ page[p].view = "relays" /\ CanPublish(p)
  /\ \E override \in Overrides : Begin(c, p, override)

-----------------------------------------------------------------------------
(* The write relays are looked up, then the person signs, or does not.     *)
(* Without the published relay list the lookup ends with the Divine relay. *)
Discovered == {{}, WriteMarked}

WriteRelays(discovered) == Seed \cup discovered \cup LocalWrite

Sign(c) ==
  /\ click[c].pc = "sign"
  /\ \E discovered \in Discovered :
       click' = [click EXCEPT ![c].pc = "send",
                   ![c].reply = [r \in Relay |-> IF r \in WriteRelays(discovered)
                                                 THEN "sent" ELSE "none"]]
  /\ UNCHANGED <<stored, clock, page, calm>>

Decline(c) ==
  /\ click[c].pc = "sign"
  /\ click' = [click EXCEPT ![c] = Ended(@, "failed")]
  /\ UNCHANGED <<stored, clock, page, calm>>

(* A relay keeps the newer of two versions; of two made in the same second *)
(* either.                                                                 *)
Kept(old, new) ==
  IF old = NoVersion \/ old.at < new.at THEN {new}
  ELSE IF old.at = new.at THEN {old, new} ELSE {old}

Store(c, r) ==
  \E v \in Kept(stored[r], click[c].event) : stored' = [stored EXCEPT ![r] = v]

(* The relay has the event, and its OK comes in time.                      *)
Confirm(c, r) ==
  /\ click[c].pc = "send" /\ click[c].reply[r] = "sent"
  /\ Store(c, r)
  /\ click' = [click EXCEPT ![c].reply[r] = "ok"]
  /\ UNCHANGED <<clock, page, calm>>

(* Eight seconds pass, the socket fails, or the relay refuses the event.   *)
GiveUp(c, r) ==
  /\ click[c].pc = "send" /\ click[c].reply[r] = "sent"
  /\ calm => r \notin Seed
  /\ click' = [click EXCEPT ![c].reply[r] = "late"]
  /\ UNCHANGED <<stored, clock, page, calm>>

(* The event was given up, or its page was left, and reaches the relay.    *)
ReachUnheard(c, r) ==
  /\ click[c].reply[r] = "late"
  /\ Store(c, r)
  /\ click' = [click EXCEPT ![c].reply[r] = "failed"]
  /\ UNCHANGED <<clock, page, calm>>

-----------------------------------------------------------------------------
(* Every relay of the click has answered or was given up.                  *)
Settled(c) ==
  /\ click[c].pc = "send"
  /\ \A r \in Relay : click[c].reply[r] # "sent"

(* Faulty: the publish counts as done when it was attempted. *)
Succeeded_Attempted(c) == \E r \in Relay : click[c].reply[r] # "none"

Succeeded(c) == \E r \in Relay : click[c].reply[r] = "ok"

Everywhere(c) == \A r \in Relay : click[c].reply[r] \in {"none", "ok"}

NotSaved(c) ==
  /\ Settled(c) /\ ~Succeeded(c)
  /\ click' = [click EXCEPT ![c] = Ended(@, "failed")]
  /\ UNCHANGED <<stored, clock, page, calm>>

(* Read again: other clicks of the page may have been made meanwhile.      *)
ReadAgain(c) ==
  /\ click[c].pc = "refresh"
  /\ \E reading \in Readings :
       page' = [page EXCEPT ![click[c].page] =
                  [@ EXCEPT !.status = reading.status, !.copy = reading.copy]]
  /\ click' = [click EXCEPT ![c] = Ended(@, "saved")]
  /\ UNCHANGED <<stored, clock, calm>>

Saved(c, views) ==
  /\ Settled(c) /\ Succeeded(c)
  /\ page[click[c].page].view \in views

SavedOnBadgePage(c) ==
  /\ Saved(c, {"badge"})
  /\ click' = [click EXCEPT ![c].pc = "refresh"]
  /\ UNCHANGED <<stored, clock, page, calm>>

(* Faulty: the page keeps the copy it had. *)
SavedOnMe_Keep(c) ==
  /\ Saved(c, {"me"})
  /\ click' = [click EXCEPT ![c] = Ended(@, "saved")]
  /\ UNCHANGED <<stored, clock, page, calm>>

SavedOnMe(c) ==
  /\ Saved(c, {"me"})
  /\ click' = [click EXCEPT ![c].pc = "refresh"]
  /\ UNCHANGED <<stored, clock, page, calm>>

RefreshBadgePage(c) == page[click[c].page].view = "badge" /\ ReadAgain(c)
RefreshMe(c)        == page[click[c].page].view = "me" /\ ReadAgain(c)

(* The public profile opens itself again when every relay took the event,  *)
(* and asks the person to do so when some did not: its copy stays.         *)
SavedOnProfile(c) ==
  /\ Saved(c, {"profile"})
  /\ LET p == click[c].page IN
     IF Everywhere(c)
     THEN /\ page' = [page EXCEPT ![p] = Opened(@.view, @.offers, @.ahead)]
          /\ click' = [GoneWith(p) EXCEPT ![c] = Ended(click[c], "saved")]
     ELSE /\ page' = [page EXCEPT ![p].behind = TRUE]
          /\ click' = [click EXCEPT ![c] = Ended(@, "saved")]
  /\ UNCHANGED <<stored, clock, calm>>

(* What was sent becomes the copy of the page.                             *)
Adopt(c) ==
  /\ page' = [page EXCEPT ![click[c].page] =
                 [@ EXCEPT !.status = "loaded", !.copy = click[c].event]]
  /\ click' = [click EXCEPT ![c] = Ended(@, "saved")]
  /\ UNCHANGED <<stored, clock, calm>>

Followed(c)        == Saved(c, Contacts) /\ Adopt(c)
RelaysPublished(c) == Saved(c, RelayList) /\ Adopt(c)

Next ==
  \/ \E p \in Page :
       \/ LoadBadgePage(p) \/ LoadMe(p) \/ LoadProfile(p) \/ LoadRelayList(p)
       \/ Reload(p)
  \/ \E c \in Click, p \in Page :
       \/ ClickOnBadgePage(c, p) \/ ClickOnMe(c, p) \/ ClickOnProfile(c, p)
       \/ FollowAwardees(c, p) \/ PublishRelays(c, p)
  \/ \E c \in Click, r \in Relay : Confirm(c, r) \/ GiveUp(c, r) \/ ReachUnheard(c, r)
  \/ \E c \in Click :
       \/ Sign(c) \/ Decline(c) \/ NotSaved(c)
       \/ SavedOnBadgePage(c) \/ SavedOnMe(c) \/ SavedOnProfile(c)
       \/ RefreshBadgePage(c) \/ RefreshMe(c)
       \/ Followed(c) \/ RelaysPublished(c)

Spec == Init /\ [][Next]_vars

-----------------------------------------------------------------------------
(* A person told that an edit was saved can rely on it: some relay has the *)
(* edited list, or one that is not older, also when other relays failed,   *)
(* answered too late, or took the event without saying so.  (The pages ask *)
(* publishSucceeded before they say so.)                                   *)
SavedIsHeld ==
  \A c \in Click : click[c].pc \in {"refresh", "saved"} =>
    \E v \in Held : v.at >= click[c].event.at

(* In the calm environment the list on the relays changes only by edits    *)
(* the person asked for, applied to the list as it stands, whatever mix of *)
(* pages is used and whatever the relays besides the Divine one do.        *)
CurrentList == UNION {v.entries : v \in Newest(Held)}
AskedEdits  == {click[c].edit : c \in {d \in Click : InFlight(d)}}

EL == INSTANCE EditedList WITH list <- CurrentList, asked <- AskedEdits

CalmEdits == [][calm => EL!Next]_EL!vars

(* Following the awardees preserves the follows the person already has.    *)
FollowsPreserved ==
  \A p \in Page : page[p].view \in Contacts => \A v \in Held : Existing \subseteq v.entries
=============================================================================
