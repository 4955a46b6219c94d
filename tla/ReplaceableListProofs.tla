------------------------ MODULE ReplaceableListProofs ------------------------
(***************************************************************************)
(* Proofs about ReplaceableList, for any number of relays, pages, entries  *)
(* and clicks: what was saved is held in any environment, and in the calm  *)
(* one the list changes as EditedList says.                                *)
(***************************************************************************)
EXTENDS ReplaceableList, TLAPS

-----------------------------------------------------------------------------
(* In any environment.                                                     *)

Reached(v, r) == stored[r] # NoVersion /\ v.at <= stored[r].at

(* A handler keeps its event as long as a relay may still get it; a relay  *)
(* that said OK has it, or a newer one; and time moves with the clicks.    *)
ClickInv(c) ==
  /\ click[c].pc \in {"sign", "send", "refresh", "saved"} => click[c].event # NoVersion
  /\ click[c].pc = "none" => clock <= c
  /\ \A r \in Relay :
       /\ click[c].reply[r] = "sent" => click[c].pc = "send"
       /\ click[c].reply[r] = "late" => click[c].event # NoVersion /\ click[c].pc # "sign"
       /\ click[c].reply[r] = "ok" => /\ click[c].pc \in {"send", "refresh"}
                                      /\ Reached(click[c].event, r)

SafeInv ==
  /\ TypeOK
  /\ \A c \in Click : ClickInv(c)
  /\ SavedIsHeld

-----------------------------------------------------------------------------
(* In the calm environment.                                                *)

OneInFlight == \A c, d \in Click : InFlight(c) /\ InFlight(d) => c = d

(* Clocks order the versions. *)
Known == Held \cup ({click[c].event : c \in Click} \ {NoVersion})

Ordered == \A v, w \in Known : v.at = w.at => v = w

Latest(c) ==
  /\ \A v \in Held : v.at <= click[c].event.at
  /\ click[c].pc = "sign" => click[c].event \notin Held
  /\ \A d \in Click \ {c} :
       click[d].event # NoVersion => click[d].event.at < click[c].event.at

(* The Divine relay has every version of a click that is over, and every   *)
(* version that is on another relay, unless it is being sent.              *)
OnItsWay(v) == \E c \in Click : click[c].pc = "send" /\ click[c].event = v

SeedInv(s) ==
  /\ \A v \in Held : Reached(v, s) \/ OnItsWay(v)
  /\ \A c \in Click :
       /\ ~InFlight(c) /\ click[c].event # NoVersion => Reached(click[c].event, s)
       /\ click[c].pc = "send" => click[c].reply[s] \in {"sent", "ok"}
       /\ click[c].pc = "refresh" => click[c].reply[s] = "ok"

(* What is being sent is the list as it stands with the edit applied.      *)
Fresh(c) == click[c].event \notin Held => click[c].event.entries = Edited(CurrentList, click[c].edit)

(* The pages that did not make the edit are behind it. *)
Alone(c) == \A p \in Page : p # click[c].page => page[p].behind

(* A page that is not behind has the list as it stands, except while its   *)
(* own edit is on its way.                                                 *)
Sending(p) == \E c \in Click : click[c].pc \in {"send", "refresh"} /\ click[c].page = p

UpToDate(p) ==
  ~page[p].behind /\ CanPublish(p) => Sending(p) \/ Entries(page[p].copy) = CurrentList

CalmInv ==
  /\ OneInFlight
  /\ Ordered
  /\ \A c \in Click : InFlight(c) => Latest(c) /\ Fresh(c) /\ Alone(c)
  /\ \A s \in Seed : SeedInv(s)
  /\ \A p \in Page : UpToDate(p)

-----------------------------------------------------------------------------
(* Types.                                                                  *)

LEMMA Numbers ==
  /\ MaxClicks \in Nat /\ MaxSkew \in Nat
  /\ \A c \in Click : c \in Nat /\ c <= MaxClicks
  /\ \A v \in Version : v.at \in Nat /\ v.entries \subseteq Entry
BY ListAssumption DEF Click, Version

LEMMA HeldIsTyped ==
  ASSUME TypeOK
  PROVE  /\ Held \subseteq Version
         /\ \A r \in Relay : stored[r] # NoVersion => stored[r] \in Held
BY DEF TypeOK, Held

LEMMA EntriesAreTyped ==
  ASSUME NEW v \in Version \cup {NoVersion}
  PROVE  Entries(v) \subseteq Entry
BY Numbers DEF Entries

LEMMA ReadingsAreTyped ==
  ASSUME TypeOK, NEW reading \in Readings
  PROVE  /\ reading.status \in {"unknown", "empty", "loaded"}
         /\ reading.copy \in Version \cup {NoVersion}
<1>1. CASE reading = Unheard
  BY <1>1 DEF Unheard
<1>2. ASSUME NEW told \in Told, reading \in Heard({stored[r] : r \in told} \ {NoVersion})
      PROVE  /\ reading.status \in {"empty", "loaded"}
             /\ reading.copy \in Version \cup {NoVersion}
  <2> DEFINE versions == {stored[r] : r \in told} \ {NoVersion}
  <2>1. told \subseteq Relay
    BY ListAssumption DEF Told, ReadRelays
  <2>2. versions \subseteq Version
    BY <2>1 DEF TypeOK
  <2>3. Newest(versions) \subseteq Version
    BY <2>2 DEF Newest
  <2>4. reading \in Heard(versions)
    BY <1>2
  <2> HIDE DEF versions
  <2> QED
    BY <2>3, <2>4 DEF Heard
<1> QED
  BY <1>1, <1>2 DEF Readings

LEMMA NoEditIsEdit ==
  NoEdit \in Edit
BY DEF NoEdit, Edit

LEMMA NoClickIsClick ==
  /\ NoClick \in ClickState
  /\ NoClick.pc = "none" /\ NoClick.event = NoVersion
  /\ \A r \in Relay : NoClick.reply[r] = "none"
<1>1. (CHOOSE p \in Page : TRUE) \in Page
  BY ListAssumption
<1>2. [r \in Relay |-> "none"] \in [Relay -> {"none", "sent", "ok", "late", "failed"}]
  OBVIOUS
<1> HIDE DEF NoEdit
<1> QED
  BY <1>1, <1>2, NoEditIsEdit DEF NoClick, ClickState

LEMMA OpenedIsPage ==
  ASSUME NEW v \in UNION Lists, NEW offers \in SUBSET Offered, NEW ahead \in 0..MaxSkew
  PROVE  Opened(v, offers, ahead) \in PageState
BY DEF Opened, PageState

LEMMA OffersAreOffered ==
  ASSUME NEW v, NEW offers \in Offers(v)
  PROVE  offers \in SUBSET Offered
BY ListAssumption DEF Offers, InReach

LEMMA EndedIsClick ==
  ASSUME NEW k \in ClickState, NEW pc \in {"saved", "failed", "gone"}
  PROVE  /\ Ended(k, pc) \in ClickState
         /\ Ended(k, pc).pc = pc /\ Ended(k, pc).page = k.page
         /\ Ended(k, pc).event \in {k.event, NoVersion}
         /\ pc = "saved" => Ended(k, pc).event = k.event
         /\ \A r \in Relay :
              /\ Ended(k, pc).reply[r] \in {"none", "late"}
              /\ Ended(k, pc).reply[r] = "late" => /\ k.reply[r] \in {"sent", "late"}
                                                   /\ Ended(k, pc).event = k.event
         /\ (\A r \in Relay : k.reply[r] \notin {"sent", "late"}) /\ pc # "saved" =>
              Ended(k, pc).event = NoVersion
<1> DEFINE late  == {r \in Relay : k.reply[r] \in {"sent", "late"}}
           event == IF late = {} /\ pc # "saved" THEN NoVersion ELSE k.event
           reply == [r \in Relay |-> IF r \in late THEN "late" ELSE "none"]
<1>1. Ended(k, pc) = [k EXCEPT !.pc = pc, !.edit = NoEdit, !.event = event, !.reply = reply]
  BY DEF Ended
<1> HIDE DEF event, reply
<1>2. Ended(k, pc) = [pc |-> pc, page |-> k.page, edit |-> NoEdit, event |-> event, reply |-> reply]
  BY <1>1 DEF ClickState
<1> USE DEF event, reply
<1>3. /\ event \in Version \cup {NoVersion}
      /\ reply \in [Relay -> {"none", "sent", "ok", "late", "failed"}]
      /\ k.page \in Page
  BY DEF ClickState
<1>4. Ended(k, pc) \in ClickState
  BY <1>2, <1>3, NoEditIsEdit DEF ClickState
<1> QED
  BY <1>2, <1>4

-----------------------------------------------------------------------------
(* What was saved is held.                                                 *)

SavedOK(c) ==
  click[c].pc \in {"refresh", "saved"} => \E v \in Held : v.at >= click[c].event.at

(* No relay goes back to an older version. *)
Grows == \A r \in Relay :
  stored[r] # NoVersion => stored'[r] # NoVersion /\ stored[r].at <= stored'[r].at

LEMMA Typed ==
  ASSUME SafeInv
  PROVE  /\ stored \in [Relay -> Version \cup {NoVersion}]
         /\ clock \in 1..(MaxClicks + 1) /\ clock \in Nat
         /\ page \in [Page -> PageState] /\ click \in [Click -> ClickState]
         /\ calm \in BOOLEAN
         /\ \A c \in Click : /\ click[c] \in ClickState /\ click[c].page \in Page
                             /\ click[c].event \in Version \cup {NoVersion}
                             /\ click[c].edit \in Edit
         /\ \A p \in Page : /\ page[p] \in PageState
                            /\ page[p].copy \in Version \cup {NoVersion}
                            /\ page[p].view \in UNION Lists /\ page[p].offers \in SUBSET Offered
                            /\ page[p].ahead \in 0..MaxSkew
         /\ \A c \in Click : ClickInv(c) /\ SavedOK(c)
<1>1. TypeOK /\ \A c \in Click : ClickInv(c) /\ SavedOK(c)
  BY DEF SafeInv, SavedIsHeld, SavedOK
<1>2. /\ stored \in [Relay -> Version \cup {NoVersion}]
      /\ clock \in 1..(MaxClicks + 1) /\ clock \in Nat
      /\ page \in [Page -> PageState] /\ click \in [Click -> ClickState]
      /\ calm \in BOOLEAN
  BY <1>1, Numbers DEF TypeOK
<1>3. \A c \in Click : /\ click[c] \in ClickState /\ click[c].page \in Page
                       /\ click[c].event \in Version \cup {NoVersion}
                       /\ click[c].edit \in Edit
  BY <1>2 DEF ClickState
<1>4. \A p \in Page : /\ page[p] \in PageState
                      /\ page[p].copy \in Version \cup {NoVersion}
                      /\ page[p].view \in UNION Lists /\ page[p].offers \in SUBSET Offered
                      /\ page[p].ahead \in 0..MaxSkew
  BY <1>2 DEF PageState
<1> QED
  BY <1>1, <1>2, <1>3, <1>4

LEMMA HeldGrows ==
  ASSUME TypeOK, TypeOK', Grows, NEW at \in Nat, NEW v \in Held, v.at >= at
  PROVE  \E w \in Held' : w.at >= at
<1>1. PICK r \in Relay : stored[r] = v /\ v # NoVersion
  BY DEF Held
<1>2. stored'[r] # NoVersion /\ v.at <= stored'[r].at
  BY <1>1 DEF Grows
<1>3. stored'[r] \in Held' /\ stored'[r] \in Version /\ v \in Version
  BY <1>1, <1>2 DEF TypeOK, Held
<1>4. stored'[r].at >= at
  BY <1>2, <1>3, Numbers
<1> QED
  BY <1>3, <1>4

LEMMA ClickStays ==
  ASSUME SafeInv, TypeOK', Grows, NEW c \in Click, click'[c] = click[c],
         click[c].pc = "none" => clock' <= c
  PROVE  ClickInv(c)' /\ SavedOK(c)'
<1>1. ClickInv(c) /\ SavedOK(c) /\ click[c].event \in Version \cup {NoVersion}
  BY Typed
<1>2. TypeOK
  BY DEF SafeInv
<1>3. ASSUME NEW r \in Relay, click[c].reply[r] = "ok"
      PROVE  stored'[r] # NoVersion /\ click[c].event.at <= stored'[r].at
  <2>1. /\ click[c].event \in Version
        /\ stored[r] # NoVersion /\ click[c].event.at <= stored[r].at
    BY <1>1, <1>3 DEF ClickInv, Reached
  <2>2. stored'[r] # NoVersion /\ stored[r].at <= stored'[r].at
    BY <2>1 DEF Grows
  <2>3. stored[r] \in Version /\ stored'[r] \in Version
    BY <1>2, <2>1, <2>2 DEF TypeOK
  <2> QED
    BY <2>1, <2>2, <2>3, Numbers
<1>4. ClickInv(c)'
  BY <1>1, <1>3 DEF ClickInv, Reached
<1>5. SavedOK(c)'
  <2>1. SUFFICES ASSUME click[c].pc \in {"refresh", "saved"}
                 PROVE  \E v \in Held' : v.at >= click[c].event.at
    BY DEF SavedOK
  <2>2. click[c].event \in Version /\ \E v \in Held : v.at >= click[c].event.at
    BY <1>1, <2>1 DEF ClickInv, SavedOK
  <2> QED
    BY <1>2, <2>2, HeldGrows, Numbers
<1> QED
  BY <1>4, <1>5

(* A handler ends; one that says the edit was saved says so truly.         *)
LEMMA ClickEnds ==
  ASSUME SafeInv, TypeOK', UNCHANGED stored, NEW c \in Click,
         NEW pc \in {"saved", "failed", "gone"}, click'[c] = Ended(click[c], pc),
         pc = "saved" => /\ click[c].event # NoVersion
                         /\ \E v \in Held : v.at >= click[c].event.at
  PROVE  ClickInv(c)' /\ SavedOK(c)'
<1> DEFINE new == Ended(click[c], pc)
<1>1. click[c] \in ClickState /\ ClickInv(c)
  BY Typed
<1>2. /\ new.pc = pc
      /\ new.event \in {click[c].event, NoVersion}
      /\ pc = "saved" => new.event = click[c].event
      /\ \A r \in Relay : /\ new.reply[r] \in {"none", "late"}
                          /\ new.reply[r] = "late" => /\ click[c].reply[r] \in {"sent", "late"}
                                                      /\ new.event = click[c].event
  BY <1>1, EndedIsClick
<1>3. click'[c] = new
  OBVIOUS
<1> HIDE DEF new
<1>4. ClickInv(c)'
  BY <1>1, <1>2, <1>3 DEF ClickInv, Reached
<1>5. SavedOK(c)'
  <2>1. Held' = Held
    BY DEF Held
  <2> QED
    BY <1>2, <1>3, <2>1 DEF SavedOK
<1> QED
  BY <1>4, <1>5

LEMMA OneClick ==
  ASSUME SafeInv, NEW c \in Click, NEW new \in ClickState,
         click' = [click EXCEPT ![c] = new],
         stored' \in [Relay -> Version \cup {NoVersion}], Grows,
         page' \in [Page -> PageState], UNCHANGED <<clock, calm>>,
         TypeOK' => ClickInv(c)' /\ SavedOK(c)'
  PROVE  SafeInv'
<1>1. /\ click \in [Click -> ClickState]
      /\ \A d \in Click : ClickInv(d)
  BY Typed
<1>2. click' \in [Click -> ClickState] /\ \A d \in Click \ {c} : click'[d] = click[d]
  BY <1>1
<1>3. TypeOK'
  BY <1>2 DEF SafeInv, TypeOK
<1>4. ASSUME NEW d \in Click
      PROVE  ClickInv(d)' /\ SavedOK(d)'
  <2>1. CASE d = c
    BY <1>3, <2>1
  <2>2. CASE d # c
    BY <1>1, <1>2, <1>3, <2>2, ClickStays DEF ClickInv
  <2> QED
    BY <2>1, <2>2
<1> QED
  BY <1>3, <1>4 DEF SafeInv, SavedIsHeld, SavedOK

LEMMA OneClickEnds ==
  ASSUME SafeInv, NEW c \in Click, NEW pc \in {"saved", "failed", "gone"},
         click' = [click EXCEPT ![c] = Ended(@, pc)],
         page' \in [Page -> PageState], UNCHANGED <<stored, clock, calm>>,
         pc = "saved" => /\ click[c].event # NoVersion
                         /\ \E v \in Held : v.at >= click[c].event.at
  PROVE  SafeInv'
<1>1. /\ click \in [Click -> ClickState] /\ click[c] \in ClickState
      /\ stored \in [Relay -> Version \cup {NoVersion}]
  BY Typed
<1>2. Ended(click[c], pc) \in ClickState
  BY <1>1, EndedIsClick
<1>3. click' = [click EXCEPT ![c] = Ended(click[c], pc)] /\ click'[c] = Ended(click[c], pc)
  BY <1>1
<1>4. Grows
  BY <1>1, Numbers DEF Grows
<1>5. TypeOK' => ClickInv(c)' /\ SavedOK(c)'
  BY <1>3, ClickEnds
<1> QED
  BY <1>1, <1>2, <1>3, <1>4, <1>5, OneClick

LEMMA StoredStays ==
  ASSUME SafeInv, UNCHANGED stored
  PROVE  /\ stored' \in [Relay -> Version \cup {NoVersion}] /\ Grows /\ Held' = Held
         /\ CurrentList' = CurrentList
<1>1. stored \in [Relay -> Version \cup {NoVersion}]
  BY Typed
<1>2. Grows
  BY <1>1, Numbers DEF Grows
<1>3. Held' = Held
  BY DEF Held
<1> QED
  BY <1>1, <1>2, <1>3 DEF CurrentList, Newest

(* A relay said OK: some relay has the event, or a newer one.              *)
LEMMA SucceededIsHeld ==
  ASSUME SafeInv, NEW c \in Click, click[c].pc = "send", Succeeded(c)
  PROVE  click[c].event # NoVersion /\ \E v \in Held : v.at >= click[c].event.at
<1>1. PICK r \in Relay : click[c].reply[r] = "ok"
  BY DEF Succeeded
<1>2. /\ click[c].event \in Version /\ stored[r] # NoVersion
      /\ click[c].event.at <= stored[r].at
  BY <1>1, Typed DEF ClickInv, Reached
<1>3. stored[r] \in Held /\ stored[r] \in Version
  BY <1>2, Typed DEF Held
<1>4. stored[r].at >= click[c].event.at
  BY <1>2, <1>3, Numbers
<1> QED
  BY <1>2, <1>3, <1>4, NoVersionAssumption

LEMMA PageOnly ==
  ASSUME SafeInv, page' \in [Page -> PageState], UNCHANGED <<stored, clock, click, calm>>
  PROVE  SafeInv'
<1>1. Grows
  BY StoredStays
<1>2. TypeOK'
  BY DEF SafeInv, TypeOK
<1>3. ASSUME NEW c \in Click
      PROVE  ClickInv(c)' /\ SavedOK(c)'
  BY <1>1, <1>2, ClickStays, Typed DEF ClickInv
<1> QED
  BY <1>2, <1>3 DEF SafeInv, SavedIsHeld, SavedOK

LEMMA OpensOnly ==
  ASSUME SafeInv, NEW p \in Page, NEW offers \in SUBSET Offered
  PROVE  [page EXCEPT ![p] = Opened(page[p].view, offers, page[p].ahead)] \in [Page -> PageState]
BY Typed, OpenedIsPage

LEMMA ReadingIsPage ==
  ASSUME SafeInv, NEW p \in Page, NEW reading \in Readings, NEW behind \in BOOLEAN
  PROVE  /\ [page EXCEPT ![p] = [@ EXCEPT !.status = reading.status, !.copy = reading.copy,
                                          !.behind = behind]] \in [Page -> PageState]
         /\ [page EXCEPT ![p] = [@ EXCEPT !.status = reading.status, !.copy = reading.copy]]
              \in [Page -> PageState]
<1>1. /\ reading.status \in {"unknown", "empty", "loaded"}
      /\ reading.copy \in Version \cup {NoVersion}
  BY ReadingsAreTyped DEF SafeInv
<1>2. page[p] \in PageState /\ page \in [Page -> PageState]
  BY Typed
<1>3. /\ [page[p] EXCEPT !.status = reading.status, !.copy = reading.copy, !.behind = behind]
            \in PageState
      /\ [page[p] EXCEPT !.status = reading.status, !.copy = reading.copy] \in PageState
  BY <1>1, <1>2 DEF PageState
<1> QED
  BY <1>2, <1>3

LEMMA LoadIsSafe ==
  ASSUME SafeInv, NEW p \in Page, Load(p)
  PROVE  SafeInv'
<1>1. PICK reading \in Readings :
        page' = [page EXCEPT ![p] = [@ EXCEPT !.status = reading.status, !.copy = reading.copy,
                                              !.behind = Busy]]
  BY DEF Load
<1>2. Busy \in BOOLEAN
  BY DEF Busy
<1>3. page' \in [Page -> PageState]
  BY <1>1, <1>2, ReadingIsPage
<1> QED
  BY <1>3, PageOnly DEF Load

(* Handlers end, and the others go on. *)
EndsOrStays(c) ==
  \/ click'[c] = click[c]
  \/ \E pc \in {"saved", "failed", "gone"} :
       /\ click'[c] = Ended(click[c], pc)
       /\ pc = "saved" => /\ click[c].event # NoVersion
                          /\ \E v \in Held : v.at >= click[c].event.at

LEMMA SomeEnd ==
  ASSUME SafeInv, click' \in [Click -> ClickState], \A c \in Click : EndsOrStays(c),
         page' \in [Page -> PageState], UNCHANGED <<stored, clock, calm>>
  PROVE  SafeInv'
<1>1. Grows
  BY StoredStays
<1>2. TypeOK'
  BY DEF SafeInv, TypeOK
<1>3. ASSUME NEW c \in Click
      PROVE  ClickInv(c)' /\ SavedOK(c)'
  <2>1. CASE click'[c] = click[c]
    BY <1>1, <1>2, <2>1, ClickStays, Typed DEF ClickInv
  <2>2. CASE click'[c] # click[c]
    BY <1>2, <2>2, ClickEnds DEF EndsOrStays
  <2> QED
    BY <2>1, <2>2
<1> QED
  BY <1>2, <1>3 DEF SafeInv, SavedIsHeld, SavedOK

LEMMA GoneIsClick ==
  ASSUME SafeInv, NEW p \in Page
  PROVE  /\ GoneWith(p) \in [Click -> ClickState]
         /\ \A c \in Click : \/ GoneWith(p)[c] = click[c]
                             \/ GoneWith(p)[c] = Ended(click[c], "gone") /\ InFlight(c)
<1>1. \A c \in Click : Ended(click[c], "gone") \in ClickState /\ click[c] \in ClickState
  BY Typed, EndedIsClick
<1> QED
  BY <1>1 DEF GoneWith

LEMMA ReloadIsSafe ==
  ASSUME SafeInv, NEW p \in Page, Reload(p)
  PROVE  SafeInv'
<1>1. PICK offers \in Offers(page[p].view) :
        page' = [page EXCEPT ![p] = Opened(page[p].view, offers, page[p].ahead)]
  BY DEF Reload
<1>2. page' \in [Page -> PageState]
  BY <1>1, OffersAreOffered, OpensOnly
<1>3. click' = GoneWith(p) /\ UNCHANGED <<stored, clock, calm>>
  BY DEF Reload
<1>4. click' \in [Click -> ClickState] /\ \A c \in Click : EndsOrStays(c)
  BY <1>3, GoneIsClick DEF EndsOrStays
<1> QED
  BY <1>2, <1>3, <1>4, SomeEnd

(* A click: the record of a handler that begins. *)
Begun(p, edit, at) ==
  [pc |-> "sign", page |-> p, edit |-> edit,
   event |-> [at |-> at, entries |-> Edited(Entries(page[p].copy), edit)],
   reply |-> [r \in Relay |-> "none"]]

LEMMA BegunIsClick ==
  ASSUME SafeInv, NEW c \in Click, NEW p \in Page, NEW edit \in Edit, Begin(c, p, edit)
  PROVE  /\ clock' \in Nat /\ clock' <= c + 1 /\ 1 <= clock'
         /\ CreatedAt(p) \in Nat
         /\ Begun(p, edit, CreatedAt(p)) \in ClickState
         /\ Begun(p, edit, CreatedAt(p)).event \in Version
         /\ click' = [click EXCEPT ![c] = Begun(p, edit, CreatedAt(p))]
         /\ page' = [q \in Page |-> IF q = p THEN page[q] ELSE [page[q] EXCEPT !.behind = TRUE]]
<1>1. /\ clock \in Nat /\ 1 <= clock /\ c \in Nat /\ c <= MaxClicks
      /\ MaxClicks \in Nat /\ MaxSkew \in Nat
      /\ page[p].ahead \in 0..MaxSkew /\ page[p].copy \in Version \cup {NoVersion}
  BY Typed, Numbers
<1>2. click[c].pc = "none" /\ clock <= c
  BY <1>1, Typed DEF Begin, ClickInv
<1>3. clock' \in {clock, clock + 1}
  BY DEF Begin
<1>4. clock' \in Nat /\ clock' <= c + 1 /\ 1 <= clock'
  BY <1>1, <1>2, <1>3
<1>5. CreatedAt(p) \in 0..(MaxClicks + 1 + MaxSkew) /\ CreatedAt(p) \in Nat
  BY <1>1, <1>4 DEF CreatedAt
<1>6. Edited(Entries(page[p].copy), edit) \in SUBSET Entry
  BY <1>1, EntriesAreTyped DEF Edited, Edit
<1>7. [at |-> CreatedAt(p), entries |-> Edited(Entries(page[p].copy), edit)] \in Version
  BY <1>5, <1>6 DEF Version
<1>8. [r \in Relay |-> "none"] \in [Relay -> {"none", "sent", "ok", "late", "failed"}]
  OBVIOUS
<1>9. Begun(p, edit, CreatedAt(p)) \in ClickState
  BY <1>7, <1>8 DEF Begun, ClickState
<1>10. /\ click' = [click EXCEPT ![c] = Begun(p, edit, CreatedAt(p))]
       /\ page' = [q \in Page |-> IF q = p THEN page[q] ELSE [page[q] EXCEPT !.behind = TRUE]]
  BY DEF Begin, Begun
<1> QED
  BY <1>4, <1>5, <1>7, <1>9, <1>10 DEF Begun

LEMMA BeginIsSafe ==
  ASSUME SafeInv, NEW c \in Click, NEW p \in Page, NEW edit \in Edit, Begin(c, p, edit)
  PROVE  SafeInv'
<1> DEFINE new == Begun(p, edit, CreatedAt(p))
<1>1. /\ clock' \in Nat /\ clock' <= c + 1 /\ 1 <= clock'
      /\ new \in ClickState /\ new.event \in Version
      /\ click' = [click EXCEPT ![c] = new]
      /\ page' = [q \in Page |-> IF q = p THEN page[q] ELSE [page[q] EXCEPT !.behind = TRUE]]
      /\ UNCHANGED <<stored, calm>>
  BY BegunIsClick DEF Begin
<1>2. new.pc = "sign" /\ \A r \in Relay : new.reply[r] = "none"
  BY DEF Begun
<1> HIDE DEF new
<1>3. /\ click' \in [Click -> ClickState] /\ click'[c] = new
      /\ \A d \in Click \ {c} : click'[d] = click[d]
  BY <1>1, Typed
<1>4. page' \in [Page -> PageState]
  <2>1. \A q \in Page : [page[q] EXCEPT !.behind = TRUE] \in PageState
    BY Typed DEF PageState
  <2> QED
    BY <1>1, <2>1, Typed
<1>5. clock' \in 1..(MaxClicks + 1)
  BY <1>1, Numbers
<1>6. TypeOK'
  BY <1>1, <1>3, <1>4, <1>5 DEF SafeInv, TypeOK
<1>7. Grows
  BY <1>1, StoredStays
<1>8. ASSUME NEW d \in Click
      PROVE  ClickInv(d)' /\ SavedOK(d)'
  <2>1. CASE d = c
    BY <1>1, <1>2, <1>3, <2>1, NoVersionAssumption DEF ClickInv, SavedOK
  <2>2. CASE d # c
    <3>1. click[d].pc = "none" => d > c
      BY <2>2, Numbers DEF Begin
    <3>2. click[d].pc = "none" => clock' <= d
      BY <1>1, <3>1, Numbers
    <3> QED
      BY <1>3, <1>6, <1>7, <2>2, <3>2, ClickStays
  <2> QED
    BY <2>1, <2>2
<1> QED
  BY <1>6, <1>8 DEF SafeInv, SavedIsHeld, SavedOK

(* What the views make of a click. *)
LEMMA ClicksBegin ==
  ASSUME SafeInv, NEW c \in Click, NEW p \in Page,
         \/ ClickOnBadgePage(c, p) \/ ClickOnMe(c, p) \/ ClickOnProfile(c, p)
         \/ FollowAwardees(c, p) \/ PublishRelays(c, p)
  PROVE  CanPublish(p) /\ \E edit \in Edit : Begin(c, p, edit)
<1>1. page[p].offers \subseteq Entry
  BY Typed, ListAssumption
<1>2. CASE ClickOnBadgePage(c, p) \/ ClickOnMe(c, p) \/ ClickOnProfile(c, p)
  <2>1. PICK e \in page[p].offers : Begin(c, p, AcceptOrHide(p, e))
    BY <1>2 DEF ClickOnBadgePage, ClickOnMe, ClickOnProfile
  <2>2. AcceptOrHide(p, e) \in Edit
    BY <1>1 DEF AcceptOrHide, Accepting, Hiding, Edit
  <2> QED
    BY <1>2, <2>1, <2>2 DEF ClickOnBadgePage, ClickOnMe, ClickOnProfile
<1>3. CASE FollowAwardees(c, p)
  <2>1. Following(MissingFollows(p)) \in Edit
    BY <1>1 DEF Following, MissingFollows, Edit
  <2> QED
    BY <1>3, <2>1 DEF FollowAwardees
<1>4. CASE PublishRelays(c, p)
  BY <1>4, ListAssumption DEF PublishRelays, Edit
<1> QED
  BY <1>2, <1>3, <1>4

LEMMA SignIsClick ==
  ASSUME SafeInv, NEW c \in Click, Sign(c)
  PROVE  \E discovered \in Discovered :
           \E new \in ClickState :
             /\ click' = [click EXCEPT ![c] = new]
             /\ new.pc = "send" /\ new.page = click[c].page /\ new.edit = click[c].edit
             /\ new.event = click[c].event
             /\ \A r \in Relay : new.reply[r] = IF r \in WriteRelays(discovered)
                                                THEN "sent" ELSE "none"
<1>1. PICK discovered \in Discovered :
        click' = [click EXCEPT ![c].pc = "send",
                    ![c].reply = [r \in Relay |-> IF r \in WriteRelays(discovered)
                                                  THEN "sent" ELSE "none"]]
  BY DEF Sign
<1> DEFINE reply == [r \in Relay |-> IF r \in WriteRelays(discovered) THEN "sent" ELSE "none"]
           new   == [click[c] EXCEPT !.pc = "send", !.reply = reply]
<1>2. reply \in [Relay -> {"none", "sent", "ok", "late", "failed"}]
  OBVIOUS
<1>3. click[c] \in ClickState /\ click \in [Click -> ClickState]
  BY Typed
<1>4. click' = [click EXCEPT ![c] = new]
  BY <1>1, <1>3
<1> HIDE DEF reply
<1>5. /\ new \in ClickState
      /\ new.pc = "send" /\ new.page = click[c].page /\ new.edit = click[c].edit
      /\ new.event = click[c].event /\ new.reply = reply
  BY <1>2, <1>3 DEF ClickState
<1> HIDE DEF new
<1>6. \A r \in Relay : new.reply[r] = IF r \in WriteRelays(discovered) THEN "sent" ELSE "none"
  BY <1>5 DEF reply
<1> QED
  BY <1>4, <1>5, <1>6

LEMMA SignIsSafe ==
  ASSUME SafeInv, NEW c \in Click, Sign(c)
  PROVE  SafeInv'
<1>1. PICK new \in ClickState :
        /\ click' = [click EXCEPT ![c] = new]
      /\ new.pc = "send" /\ new.event = click[c].event
        /\ \A r \in Relay : new.reply[r] \in {"sent", "none"}
  BY SignIsClick
<1>2. click[c].pc = "sign" /\ UNCHANGED <<stored, clock, page, calm>>
  BY DEF Sign
<1>3. click[c].event # NoVersion /\ click'[c] = new
  BY <1>1, <1>2, Typed DEF ClickInv
<1>4. ClickInv(c)' /\ SavedOK(c)'
  BY <1>1, <1>3 DEF ClickInv, SavedOK
<1> QED
  BY <1>1, <1>2, <1>4, StoredStays, OneClick, Typed

(* A relay of a click has answered: the record of the click. *)
Replied(k, r, reply) == [k EXCEPT !.reply = [k.reply EXCEPT ![r] = reply]]

LEMMA ReplyIsClick ==
  ASSUME SafeInv, NEW c \in Click, NEW r \in Relay, NEW reply \in {"ok", "late", "failed"}
  PROVE  /\ Replied(click[c], r, reply) \in ClickState
         /\ Replied(click[c], r, reply).pc = click[c].pc
         /\ Replied(click[c], r, reply).page = click[c].page
         /\ Replied(click[c], r, reply).edit = click[c].edit
         /\ Replied(click[c], r, reply).event = click[c].event
         /\ Replied(click[c], r, reply).reply[r] = reply
         /\ \A s \in Relay \ {r} : Replied(click[c], r, reply).reply[s] = click[c].reply[s]
<1> DEFINE new == Replied(click[c], r, reply)
           replies == [click[c].reply EXCEPT ![r] = reply]
<1>1. click[c] \in ClickState /\ click \in [Click -> ClickState]
  BY Typed
<1>2. click[c].reply \in [Relay -> {"none", "sent", "ok", "late", "failed"}]
  BY <1>1 DEF ClickState
<1>3. /\ replies \in [Relay -> {"none", "sent", "ok", "late", "failed"}]
      /\ replies[r] = reply /\ \A s \in Relay \ {r} : replies[s] = click[c].reply[s]
  BY <1>2
<1>4. new = [click[c] EXCEPT !.reply = replies]
  BY DEF Replied
<1> HIDE DEF replies, new
<1>5. /\ new \in ClickState
      /\ new.pc = click[c].pc /\ new.page = click[c].page /\ new.edit = click[c].edit
      /\ new.event = click[c].event /\ new.reply = replies
  BY <1>1, <1>3, <1>4 DEF ClickState
<1> QED
  BY <1>3, <1>5 DEF new

(* Only the relay itself changes, and to the event or to what it had. *)
LEMMA StoreGrows ==
  ASSUME SafeInv, NEW c \in Click, NEW r \in Relay, click[c].event \in Version, Store(c, r)
  PROVE  /\ stored' \in [Relay -> Version \cup {NoVersion}] /\ Grows
         /\ stored'[r] \in {stored[r], click[c].event}
         /\ \A s \in Relay \ {r} : stored'[s] = stored[s]
         /\ stored'[r] # NoVersion /\ click[c].event.at <= stored'[r].at
         /\ stored[r] # NoVersion /\ stored[r].at > click[c].event.at => stored'[r] = stored[r]
         /\ stored[r] = NoVersion \/ stored[r].at < click[c].event.at =>
              stored'[r] = click[c].event
<1>1. stored \in [Relay -> Version \cup {NoVersion}]
  BY Typed
<1>2. PICK v \in Kept(stored[r], click[c].event) : stored' = [stored EXCEPT ![r] = v]
  BY DEF Store
<1>3. /\ click[c].event \in Version /\ click[c].event.at \in Nat
      /\ click[c].event # NoVersion
      /\ stored[r] # NoVersion => stored[r] \in Version /\ stored[r].at \in Nat
  BY <1>1, Numbers, NoVersionAssumption
<1>4. /\ v \in {stored[r], click[c].event} /\ v # NoVersion /\ click[c].event.at <= v.at
      /\ stored[r] # NoVersion => stored[r].at <= v.at
      /\ stored[r] # NoVersion /\ stored[r].at > click[c].event.at => v = stored[r]
      /\ stored[r] = NoVersion \/ stored[r].at < click[c].event.at => v = click[c].event
  BY <1>2, <1>3 DEF Kept
<1>5. stored'[r] = v /\ \A s \in Relay \ {r} : stored'[s] = stored[s]
  BY <1>1, <1>2
<1>6. stored' \in [Relay -> Version \cup {NoVersion}]
  BY <1>1, <1>2, <1>3, <1>4
<1>7. Grows
  <2>1. \A s \in Relay : stored[s] # NoVersion => stored[s].at \in Nat
    BY <1>1, Numbers
  <2> QED
    BY <1>4, <1>5, <2>1 DEF Grows
<1> QED
  BY <1>4, <1>5, <1>6, <1>7

LEMMA ConfirmIsSafe ==
  ASSUME SafeInv, NEW c \in Click, NEW r \in Relay, Confirm(c, r)
  PROVE  SafeInv'
<1> DEFINE new == Replied(click[c], r, "ok")
<1>1. /\ click[c].pc = "send" /\ Store(c, r) /\ UNCHANGED <<clock, page, calm>>
      /\ click' = [click EXCEPT ![c].reply[r] = "ok"]
  BY DEF Confirm
<1>2. /\ new \in ClickState
      /\ new.pc = "send" /\ new.event = click[c].event /\ new.reply[r] = "ok"
      /\ \A s \in Relay \ {r} : new.reply[s] = click[c].reply[s]
  BY <1>1, ReplyIsClick
<1>3. click' = [click EXCEPT ![c] = new]
  BY <1>1 DEF Replied
<1> HIDE DEF new
<1>4. ClickInv(c) /\ click[c].event \in Version /\ click'[c] = new
  BY <1>1, <1>2, <1>3, Typed DEF ClickInv
<1>5. /\ stored' \in [Relay -> Version \cup {NoVersion}] /\ Grows
      /\ stored'[r] # NoVersion /\ click[c].event.at <= stored'[r].at
      /\ \A s \in Relay \ {r} : stored'[s] = stored[s]
  BY <1>1, <1>4, StoreGrows
<1>6. ClickInv(c)' /\ SavedOK(c)'
  BY <1>1, <1>2, <1>3, <1>4, <1>5 DEF ClickInv, SavedOK, Reached
<1> QED
  BY <1>1, <1>2, <1>3, <1>5, <1>6, OneClick, Typed

LEMMA ReachUnheardIsSafe ==
  ASSUME SafeInv, NEW c \in Click, NEW r \in Relay, ReachUnheard(c, r)
  PROVE  SafeInv'
<1> DEFINE new == Replied(click[c], r, "failed")
<1>1. /\ click[c].reply[r] = "late" /\ Store(c, r) /\ UNCHANGED <<clock, page, calm>>
      /\ click' = [click EXCEPT ![c].reply[r] = "failed"]
  BY DEF ReachUnheard
<1>2. /\ new \in ClickState
      /\ new.pc = click[c].pc /\ new.event = click[c].event /\ new.reply[r] = "failed"
      /\ \A s \in Relay \ {r} : new.reply[s] = click[c].reply[s]
  BY <1>1, ReplyIsClick
<1>3. click' = [click EXCEPT ![c] = new]
  BY <1>1 DEF Replied
<1> HIDE DEF new
<1>4. ClickInv(c) /\ SavedOK(c) /\ click[c].event \in Version /\ click'[c] = new
  BY <1>1, <1>2, <1>3, Typed DEF ClickInv
<1>5. /\ stored' \in [Relay -> Version \cup {NoVersion}] /\ Grows
      /\ \A s \in Relay \ {r} : stored'[s] = stored[s]
  BY <1>1, <1>4, StoreGrows
<1>6. ClickInv(c)'
  BY <1>1, <1>2, <1>3, <1>4, <1>5 DEF ClickInv, Reached
<1>7. TypeOK' => SavedOK(c)'
  <2>1. SUFFICES ASSUME TypeOK', click[c].pc \in {"refresh", "saved"}
                 PROVE  \E v \in Held' : v.at >= click[c].event.at
    BY <1>2, <1>3, <1>4 DEF SavedOK
  <2>2. \E v \in Held : v.at >= click[c].event.at
    BY <1>4, <2>1 DEF SavedOK
  <2>3. TypeOK
    BY DEF SafeInv
  <2> QED
    BY <1>4, <1>5, <2>1, <2>2, <2>3, HeldGrows, Numbers
<1> QED
  BY <1>1, <1>2, <1>3, <1>5, <1>6, <1>7, OneClick, Typed

LEMMA GiveUpIsSafe ==
  ASSUME SafeInv, NEW c \in Click, NEW r \in Relay, GiveUp(c, r)
  PROVE  SafeInv'
<1> DEFINE new == Replied(click[c], r, "late")
<1>1. /\ click[c].pc = "send" /\ UNCHANGED <<stored, clock, page, calm>>
      /\ click' = [click EXCEPT ![c].reply[r] = "late"]
  BY DEF GiveUp
<1>2. /\ new \in ClickState
      /\ new.pc = "send" /\ new.event = click[c].event /\ new.reply[r] = "late"
      /\ \A s \in Relay \ {r} : new.reply[s] = click[c].reply[s]
  BY <1>1, ReplyIsClick
<1>3. click' = [click EXCEPT ![c] = new]
  BY <1>1 DEF Replied
<1> HIDE DEF new
<1>4. ClickInv(c) /\ click'[c] = new
  BY <1>2, <1>3, Typed
<1>5. ClickInv(c)' /\ SavedOK(c)'
  BY <1>1, <1>2, <1>3, <1>4 DEF ClickInv, SavedOK, Reached
<1> QED
  BY <1>1, <1>2, <1>3, <1>5, OneClick, StoredStays, Typed

LEMMA NotSavedIsSafe ==
  ASSUME SafeInv, NEW c \in Click, Decline(c) \/ NotSaved(c)
  PROVE  SafeInv'
BY OneClickEnds, Typed DEF Decline, NotSaved

LEMMA RefreshIsSafe ==
  ASSUME SafeInv, NEW c \in Click, SavedOnBadgePage(c) \/ SavedOnMe(c)
  PROVE  SafeInv'
<1> DEFINE new == [click[c] EXCEPT !.pc = "refresh"]
<1>1. /\ click[c].pc = "send" /\ Succeeded(c) /\ UNCHANGED <<stored, clock, page, calm>>
      /\ click' = [click EXCEPT ![c].pc = "refresh"]
  BY DEF SavedOnBadgePage, SavedOnMe, Saved, Settled
<1>2. click \in [Click -> ClickState] /\ click[c] \in ClickState /\ ClickInv(c)
  BY Typed
<1>3. /\ new \in ClickState /\ new.pc = "refresh"
      /\ new.event = click[c].event /\ new.reply = click[c].reply
  BY <1>2 DEF ClickState
<1>4. click' = [click EXCEPT ![c] = new] /\ click'[c] = new
  BY <1>1, <1>2
<1> HIDE DEF new
<1>5. \A r \in Relay : click[c].reply[r] # "sent"
  BY DEF SavedOnBadgePage, SavedOnMe, Saved, Settled
<1>6. ClickInv(c)'
  BY <1>1, <1>2, <1>3, <1>4, <1>5 DEF ClickInv, Reached
<1>7. SavedOK(c)'
  BY <1>1, <1>3, <1>4, SucceededIsHeld, StoredStays DEF SavedOK
<1> QED
  BY <1>1, <1>3, <1>4, <1>6, <1>7, OneClick, StoredStays, Typed

LEMMA ReadAgainIsSafe ==
  ASSUME SafeInv, NEW c \in Click, ReadAgain(c)
  PROVE  SafeInv'
<1>1. PICK reading \in Readings :
        page' = [page EXCEPT ![click[c].page] =
                   [@ EXCEPT !.status = reading.status, !.copy = reading.copy]]
  BY DEF ReadAgain
<1>2. page' \in [Page -> PageState]
  BY <1>1, ReadingIsPage, Typed
<1>3. click[c].event # NoVersion /\ \E v \in Held : v.at >= click[c].event.at
  BY Typed DEF ReadAgain, ClickInv, SavedOK
<1> QED
  BY <1>2, <1>3, OneClickEnds DEF ReadAgain

LEMMA SavedOnProfileIsSafe ==
  ASSUME SafeInv, NEW c \in Click, SavedOnProfile(c)
  PROVE  SafeInv'
<1> DEFINE p == click[c].page
<1>1. /\ click[c].pc = "send" /\ Succeeded(c) /\ UNCHANGED <<stored, clock, calm>>
      /\ p \in Page /\ click \in [Click -> ClickState] /\ click[c] \in ClickState
      /\ page \in [Page -> PageState] /\ page[p] \in PageState
  BY Typed DEF SavedOnProfile, Saved, Settled
<1>2. click[c].event # NoVersion /\ \E v \in Held : v.at >= click[c].event.at
  BY <1>1, SucceededIsHeld
<1>3. CASE Everywhere(c)
  <2>1. /\ page' = [page EXCEPT ![p] = Opened(@.view, @.offers, @.ahead)]
        /\ click' = [GoneWith(p) EXCEPT ![c] = Ended(click[c], "saved")]
    BY <1>3 DEF SavedOnProfile
  <2>2. page' = [page EXCEPT ![p] = Opened(page[p].view, page[p].offers, page[p].ahead)]
    BY <1>1, <2>1
  <2>3. page' \in [Page -> PageState]
    BY <1>1, <2>2, OpensOnly, Typed
  <2>4. Ended(click[c], "saved") \in ClickState
    BY <1>1, EndedIsClick
  <2>5. /\ GoneWith(p) \in [Click -> ClickState]
        /\ \A d \in Click : \/ GoneWith(p)[d] = click[d]
                            \/ GoneWith(p)[d] = Ended(click[d], "gone") /\ InFlight(d)
    BY <1>1, GoneIsClick
  <2>6. /\ click' \in [Click -> ClickState] /\ click'[c] = Ended(click[c], "saved")
        /\ \A d \in Click \ {c} : click'[d] = GoneWith(p)[d]
    BY <2>1, <2>4, <2>5
  <2>7. \A d \in Click : EndsOrStays(d)
    BY <1>2, <2>5, <2>6 DEF EndsOrStays
  <2> QED
    BY <1>1, <2>3, <2>6, <2>7, SomeEnd
<1>4. CASE ~Everywhere(c)
  <2>1. /\ page' = [page EXCEPT ![p].behind = TRUE]
        /\ click' = [click EXCEPT ![c] = Ended(@, "saved")]
    BY <1>4 DEF SavedOnProfile
  <2>2. [page[p] EXCEPT !.behind = TRUE] \in PageState
    BY <1>1 DEF PageState
  <2>3. page' \in [Page -> PageState]
    BY <1>1, <2>1, <2>2
  <2> QED
    BY <1>1, <1>2, <2>1, <2>3, OneClickEnds
<1> QED
  BY <1>3, <1>4

LEMMA AdoptIsSafe ==
  ASSUME SafeInv, NEW c \in Click, Followed(c) \/ RelaysPublished(c)
  PROVE  SafeInv'
<1> DEFINE p == click[c].page
<1>1. /\ click[c].pc = "send" /\ Succeeded(c) /\ UNCHANGED <<stored, clock, calm>>
      /\ page' = [page EXCEPT ![p] = [@ EXCEPT !.status = "loaded", !.copy = click[c].event]]
      /\ click' = [click EXCEPT ![c] = Ended(@, "saved")]
  BY DEF Followed, RelaysPublished, Saved, Settled, Adopt
<1>2. click[c].event # NoVersion /\ \E v \in Held : v.at >= click[c].event.at
  BY <1>1, SucceededIsHeld
<1>3. /\ page \in [Page -> PageState] /\ p \in Page /\ page[p] \in PageState
      /\ click[c].event \in Version \cup {NoVersion}
  BY Typed
<1>4. [page[p] EXCEPT !.status = "loaded", !.copy = click[c].event] \in PageState
  BY <1>3 DEF PageState
<1>5. page' \in [Page -> PageState]
  BY <1>1, <1>3, <1>4
<1> QED
  BY <1>1, <1>2, <1>5, OneClickEnds

LEMMA InitIsSafe ==
  ASSUME Init
  PROVE  SafeInv
<1>1. stored \in [Relay -> Version \cup {NoVersion}]
  <2>1. PICK holders \in Holders :
          stored = [r \in Relay |-> IF r \in holders THEN [at |-> 0, entries |-> Existing]
                                                     ELSE NoVersion]
    BY DEF Init
  <2>2. [at |-> 0, entries |-> Existing] \in Version
    BY ListAssumption, Numbers DEF Version
  <2> QED
    BY <2>1, <2>2
<1>2. clock = 1 /\ clock \in 1..(MaxClicks + 1) /\ calm \in BOOLEAN
  BY Numbers DEF Init
<1>3. page \in [Page -> PageState]
  <2>1. PICK list \in Lists :
          page \in [Page -> UNION {{Opened(v, offers, ahead) : offers \in Offers(v), ahead \in 0..MaxSkew}
                                   : v \in list}]
    BY DEF Init
  <2>2. \A v \in list : v \in UNION Lists
    OBVIOUS
  <2>3. UNION {{Opened(v, offers, ahead) : offers \in Offers(v), ahead \in 0..MaxSkew} : v \in list}
          \subseteq PageState
    BY <2>2, OffersAreOffered, OpenedIsPage
  <2> QED
    BY <2>1, <2>3
<1>4. click \in [Click -> ClickState]
  BY NoClickIsClick DEF Init
<1>5. ASSUME NEW c \in Click
      PROVE  ClickInv(c) /\ SavedOK(c)
  <2>1. click[c] = NoClick /\ clock <= c
    BY <1>2, Numbers DEF Init, Click
  <2> QED
    BY <2>1, NoClickIsClick DEF ClickInv, SavedOK
<1> QED
  BY <1>1, <1>2, <1>3, <1>4, <1>5 DEF SafeInv, TypeOK, SavedIsHeld, SavedOK

LEMMA NextIsSafe ==
  ASSUME SafeInv, [Next]_vars
  PROVE  SafeInv'
<1>1. CASE UNCHANGED vars
  BY <1>1, PageOnly, Typed DEF vars
<1>2. ASSUME NEW p \in Page,
             LoadBadgePage(p) \/ LoadMe(p) \/ LoadProfile(p) \/ LoadRelayList(p) \/ Reload(p)
      PROVE  SafeInv'
  BY <1>2, LoadIsSafe, ReloadIsSafe DEF LoadBadgePage, LoadMe, LoadProfile, LoadRelayList
<1>3. ASSUME NEW c \in Click, NEW p \in Page,
             \/ ClickOnBadgePage(c, p) \/ ClickOnMe(c, p) \/ ClickOnProfile(c, p)
             \/ FollowAwardees(c, p) \/ PublishRelays(c, p)
      PROVE  SafeInv'
  BY <1>3, ClicksBegin, BeginIsSafe
<1>4. ASSUME NEW c \in Click, NEW r \in Relay,
             Confirm(c, r) \/ GiveUp(c, r) \/ ReachUnheard(c, r)
      PROVE  SafeInv'
  BY <1>4, ConfirmIsSafe, GiveUpIsSafe, ReachUnheardIsSafe
<1>5. ASSUME NEW c \in Click,
             \/ Sign(c) \/ Decline(c) \/ NotSaved(c)
             \/ SavedOnBadgePage(c) \/ SavedOnMe(c) \/ SavedOnProfile(c)
             \/ RefreshBadgePage(c) \/ RefreshMe(c)
             \/ Followed(c) \/ RelaysPublished(c)
      PROVE  SafeInv'
  <2>1. CASE Sign(c) \/ Decline(c) \/ NotSaved(c)
    BY <2>1, SignIsSafe, NotSavedIsSafe
  <2>2. CASE SavedOnBadgePage(c) \/ SavedOnMe(c) \/ SavedOnProfile(c)
    BY <2>2, RefreshIsSafe, SavedOnProfileIsSafe
  <2>3. CASE RefreshBadgePage(c) \/ RefreshMe(c)
    BY <2>3, ReadAgainIsSafe DEF RefreshBadgePage, RefreshMe
  <2>4. CASE Followed(c) \/ RelaysPublished(c)
    BY <2>4, AdoptIsSafe
  <2> QED
    BY <1>5, <2>1, <2>2, <2>3, <2>4
<1> QED
  BY <1>1, <1>2, <1>3, <1>4, <1>5 DEF Next

\* The invariant that holds in any environment.
THEOREM Safety == Spec => []SafeInv
<1>1. Init => SafeInv
  BY InitIsSafe
<1>2. SafeInv /\ [Next]_vars => SafeInv'
  BY NextIsSafe
<1> QED
  BY <1>1, <1>2, PTL DEF Spec

\* The relays keep versions, the pages show and the handlers carry what the
\* views give them.
THEOREM TypeCorrect == Spec => []TypeOK
<1>1. SafeInv => TypeOK
  BY DEF SafeInv
<1> QED
  BY Safety, <1>1, PTL

\* "Saved" is true: whatever the relays do, when a page says that an edit was
\* saved, some relay keeps the edited list or one that is not older.
THEOREM SavedStaysHeld == Spec => []SavedIsHeld
<1>1. SafeInv => SavedIsHeld
  BY DEF SafeInv
<1> QED
  BY Safety, <1>1, PTL

-----------------------------------------------------------------------------
(* Versions and the list they make.                                        *)

LEMMA NewestSame ==
  ASSUME NEW V \in SUBSET Version, NEW W \in SUBSET Version,
         \A v \in V : \E w \in W : v.at <= w.at,
         \A w \in W : \E v \in V : w.at <= v.at,
         \A v \in V, w \in W : v.at = w.at => v = w
  PROVE  Newest(V) = Newest(W)
<1>1. \A v \in V : v.at \in Nat
  BY Numbers
<1>2. \A w \in W : w.at \in Nat
  BY Numbers
<1>3. ASSUME NEW x \in Newest(V)
      PROVE  x \in Newest(W)
  <2>1. x \in V /\ \A v \in V : v.at <= x.at
    BY DEF Newest
  <2>2. \A w \in W : w.at <= x.at
    BY <1>1, <1>2, <2>1
  <2>3. PICK w \in W : x.at <= w.at
    BY <2>1
  <2>4. x = w
    BY <1>1, <1>2, <2>1, <2>2, <2>3
  <2> QED
    BY <2>2, <2>3, <2>4 DEF Newest
<1>4. ASSUME NEW x \in Newest(W)
      PROVE  x \in Newest(V)
  <2>1. x \in W /\ \A w \in W : w.at <= x.at
    BY DEF Newest
  <2>2. \A v \in V : v.at <= x.at
    BY <1>1, <1>2, <2>1
  <2>3. PICK v \in V : x.at <= v.at
    BY <2>1
  <2>4. x = v
    BY <1>1, <1>2, <2>1, <2>2, <2>3
  <2> QED
    BY <2>2, <2>3, <2>4 DEF Newest
<1> QED
  BY <1>3, <1>4

LEMMA NewestIs ==
  ASSUME NEW V \in SUBSET Version, NEW v \in V,
         \A w \in V : w.at <= v.at,
         \A w \in V : w.at = v.at => w = v
  PROVE  Newest(V) = {v}
<1>1. \A w \in V : w.at \in Nat
  BY Numbers
<1>2. v \in Newest(V)
  BY DEF Newest
<1>3. ASSUME NEW w \in Newest(V)
      PROVE  w = v
  <2>1. w \in V /\ v.at <= w.at
    BY DEF Newest
  <2> QED
    BY <1>1, <2>1
<1> QED
  BY <1>2, <1>3

LEMMA CurrentIs ==
  ASSUME SafeInv, Ordered, NEW v \in Held, \A w \in Held : w.at <= v.at
  PROVE  CurrentList = v.entries
<1>1. Held \in SUBSET Version
  BY HeldIsTyped DEF SafeInv
<1>2. \A w \in Held : w.at = v.at => w = v
  BY DEF Ordered, Known
<1>3. Newest(Held) = {v}
  BY <1>1, <1>2, NewestIs
<1> QED
  BY <1>3 DEF CurrentList

LEMMA KnownIsTyped ==
  ASSUME SafeInv
  PROVE  /\ Known \subseteq Version /\ Held \subseteq Known
         /\ \A v \in Known : v.at \in Nat /\ v # NoVersion
         /\ \A c \in Click : click[c].event # NoVersion => click[c].event \in Known
         /\ \A r \in Relay : stored[r] # NoVersion => stored[r] \in Held
<1>1. Known \subseteq Version /\ Held \subseteq Known
  BY Typed, HeldIsTyped DEF Known, SafeInv
<1>2. \A v \in Known : v.at \in Nat /\ v # NoVersion
  BY <1>1, Numbers, NoVersionAssumption
<1>3. \A r \in Relay : stored[r] # NoVersion => stored[r] \in Held
  BY DEF Held
<1> QED
  BY <1>1, <1>2, <1>3 DEF Known

(* The Divine relay has a version as new as any: a page that reads when it *)
(* answers, reads the list as it stands.                                   *)
LEMMA ReadingIsCurrent ==
  ASSUME SafeInv, calm, Ordered, NEW s \in Seed, \A v \in Held : Reached(v, s),
         NEW reading \in Readings, reading.status \in {"empty", "loaded"}
  PROVE  Entries(reading.copy) = CurrentList
<1>1. PICK told \in Told : reading \in Heard({stored[r] : r \in told} \ {NoVersion})
  BY DEF Readings, Unheard
<1> DEFINE versions == {stored[r] : r \in told} \ {NoVersion}
<1>2. s \in told /\ told \subseteq Relay
  BY <1>1, ListAssumption DEF Told, ReadRelays
<1>3. versions \subseteq Held /\ Held \subseteq Version
  BY <1>2, KnownIsTyped DEF Held
<1>4. stored[s] # NoVersion => stored[s] \in versions
  BY <1>2
<1>5. reading \in Heard(versions)
  BY <1>1
<1> HIDE DEF versions
<1>6. CASE Held = {}
  <2>1. reading.copy = NoVersion
    BY <1>3, <1>5, <1>6 DEF Heard
  <2>2. Newest(Held) = {}
    BY <1>6 DEF Newest
  <2> QED
    BY <2>1, <2>2 DEF Entries, CurrentList
<1>7. CASE Held # {}
  <2>1. stored[s] # NoVersion /\ \A v \in Held : v.at <= stored[s].at
    BY <1>7 DEF Reached
  <2>2. stored[s] \in versions /\ stored[s] \in Held
    BY <1>3, <1>4, <2>1
  <2>3. CurrentList = stored[s].entries
    BY <2>1, <2>2, CurrentIs
  <2>4. \A v \in versions : v.at <= stored[s].at /\ (v.at = stored[s].at => v = stored[s])
    BY <1>3, <2>1, <2>2 DEF Ordered, Known
  <2>5. Newest(versions) = {stored[s]}
    BY <1>3, <2>2, <2>4, NewestIs
  <2>6. reading.copy = stored[s]
    BY <1>5, <2>2, <2>5 DEF Heard
  <2> QED
    BY <2>1, <2>3, <2>6 DEF Entries
<1> QED
  BY <1>6, <1>7

(* Between edits the Divine relay has all there is. *)
LEMMA SeedHasAll ==
  ASSUME SafeInv, CalmInv, ~Busy, NEW s \in Seed
  PROVE  \A v \in Known : Reached(v, s)
<1>1. \A c \in Click : ~InFlight(c)
  BY DEF Busy
<1>2. SeedInv(s)
  BY DEF CalmInv
<1>3. \A v \in Held : Reached(v, s)
  BY <1>1, <1>2 DEF SeedInv, OnItsWay, InFlight
<1>4. \A c \in Click : click[c].event # NoVersion => Reached(click[c].event, s)
  BY <1>1, <1>2 DEF SeedInv
<1> QED
  BY <1>3, <1>4 DEF Known

(* When the Divine relay has confirmed an edit it has the list as it stands. *)
LEMMA ConfirmedIsCurrent ==
  ASSUME SafeInv, CalmInv, NEW c \in Click, InFlight(c), NEW s \in Seed,
         click[c].reply[s] = "ok"
  PROVE  /\ \A v \in Held : Reached(v, s)
         /\ click[c].event # NoVersion /\ click[c].event \in Held
         /\ CurrentList = click[c].event.entries
<1>1. s \in Relay
  BY ListAssumption
<1>2. Reached(click[c].event, s) /\ click[c].event # NoVersion
  BY <1>1, Typed DEF ClickInv
<1>3. Ordered /\ \A v \in Held : v.at <= click[c].event.at
  BY DEF CalmInv, Latest
<1>4. stored[s] \in Held /\ stored[s] \in Known /\ click[c].event \in Known
  BY <1>1, <1>2, KnownIsTyped DEF Reached
<1>5. \A v \in Known : v.at \in Nat
  BY KnownIsTyped
<1>6. Held \subseteq Known
  BY KnownIsTyped
<1>7. \A v \in Held : Reached(v, s)
  BY <1>2, <1>3, <1>4, <1>5, <1>6 DEF Reached
<1>8. stored[s].at = click[c].event.at
  BY <1>2, <1>3, <1>4, <1>5 DEF Reached
<1>9. stored[s] = click[c].event
  BY <1>3, <1>4, <1>8 DEF Ordered
<1> QED
  BY <1>2, <1>3, <1>4, <1>7, <1>9, CurrentIs

-----------------------------------------------------------------------------
(* What most steps keep of the calm invariant.                             *)

(* A handler goes on with what it has, or is over. *)
GoesOn(c) ==
  /\ click'[c].event \in {click[c].event, NoVersion}
  /\ InFlight(c)' => /\ InFlight(c)
                     /\ click'[c].page = click[c].page /\ click'[c].edit = click[c].edit
                     /\ click'[c].event = click[c].event
                     /\ click'[c].pc = "sign" => click[c].pc = "sign"

LEMMA HandlersGoOn ==
  ASSUME SafeInv, CalmInv, UNCHANGED stored, \A c \in Click : GoesOn(c),
         \A c \in Click, p \in Page : InFlight(c)' /\ page[p].behind => page'[p].behind
  PROVE  /\ OneInFlight' /\ Ordered' /\ CurrentList' = CurrentList
         /\ \A c \in Click : InFlight(c)' => Latest(c)' /\ Fresh(c)' /\ Alone(c)'
<1>1. Held' = Held /\ CurrentList' = CurrentList
  BY StoredStays
<1>2. OneInFlight'
  BY DEF CalmInv, OneInFlight, GoesOn
<1>3. Ordered'
  <2>1. Known' \subseteq Known
    BY <1>1 DEF Known, GoesOn
  <2> QED
    BY <2>1 DEF CalmInv, Ordered
<1>4. ASSUME NEW c \in Click, InFlight(c)'
      PROVE  Latest(c)' /\ Fresh(c)' /\ Alone(c)'
  <2>1. /\ InFlight(c) /\ Latest(c) /\ Fresh(c) /\ Alone(c)
        /\ click'[c].page = click[c].page /\ click'[c].edit = click[c].edit
        /\ click'[c].event = click[c].event
        /\ click'[c].pc = "sign" => click[c].pc = "sign"
    BY <1>4 DEF GoesOn, CalmInv
  <2>2. \A d \in Click : click'[d].event # NoVersion => click'[d].event = click[d].event
    BY DEF GoesOn
  <2>3. Latest(c)'
    BY <1>1, <2>1, <2>2 DEF Latest
  <2>4. Fresh(c)'
    BY <1>1, <2>1 DEF Fresh
  <2>5. Alone(c)'
    BY <1>4, <2>1 DEF Alone
  <2> QED
    BY <2>3, <2>4, <2>5
<1> QED
  BY <1>1, <1>2, <1>3, <1>4

LEMMA SeedGoesOn ==
  ASSUME SafeInv, CalmInv, UNCHANGED stored, \A c \in Click : GoesOn(c), NEW s \in Seed,
         \A c \in Click :
           /\ click[c].pc = "send" => \/ click'[c].pc = "send" /\ click'[c].event = click[c].event
                                      \/ Reached(click[c].event, s)
           /\ ~InFlight(c)' /\ click'[c].event # NoVersion => Reached(click[c].event, s)
           /\ click'[c].pc = "send" => click'[c].reply[s] \in {"sent", "ok"}
           /\ click'[c].pc = "refresh" => click'[c].reply[s] = "ok"
  PROVE  SeedInv(s)'
<1>1. Held' = Held
  BY StoredStays
<1>2. SeedInv(s)
  BY DEF CalmInv
<1>3. ASSUME NEW v \in Held'
      PROVE  Reached(v, s)' \/ OnItsWay(v)'
  BY <1>1, <1>2 DEF SeedInv, OnItsWay, Reached
<1>4. ASSUME NEW c \in Click, ~InFlight(c)', click'[c].event # NoVersion
      PROVE  Reached(click[c].event, s)'
  <2>1. Reached(click[c].event, s) /\ click'[c].event = click[c].event
    BY <1>4 DEF GoesOn
  <2> QED
    BY <2>1 DEF Reached
<1> QED
  BY <1>3, <1>4 DEF SeedInv

LEMMA AskedSame ==
  ASSUME \A c \in Click : /\ InFlight(c)' <=> InFlight(c)
                          /\ InFlight(c) => click'[c].edit = click[c].edit
  PROVE  AskedEdits' = AskedEdits
<1>1. AskedEdits' = {click'[c].edit : c \in {d \in Click : InFlight(d)'}}
  BY DEF AskedEdits
<1>2. {d \in Click : InFlight(d)'} = {d \in Click : InFlight(d)}
  OBVIOUS
<1> QED
  BY <1>1, <1>2 DEF AskedEdits

LEMMA AskedOne ==
  ASSUME CalmInv, NEW c \in Click, InFlight(c)
  PROVE  AskedEdits = {click[c].edit}
<1>1. {d \in Click : InFlight(d)} = {c}
  BY DEF CalmInv, OneInFlight
<1> QED
  BY <1>1 DEF AskedEdits

(* A handler ends, and with it the edit: it was made, or never left. *)
LEMMA EndsCalmly ==
  ASSUME SafeInv, CalmInv, NEW c \in Click, InFlight(c), NEW pc \in {"saved", "failed"},
         UNCHANGED stored, click'[c] = Ended(click[c], pc),
         \A d \in Click : d # c => click'[d] = click[d],
         \/ \A s \in Seed : click[c].reply[s] = "ok"
         \/ click[c].pc = "sign" /\ pc = "failed"
  PROVE  /\ OneInFlight' /\ Ordered' /\ CurrentList' = CurrentList
         /\ \A d \in Click : ~InFlight(d)'
         /\ \A s \in Seed : SeedInv(s)'
         /\ EL!Next
<1>1. click[c] \in ClickState /\ ClickInv(c)
  BY Typed
<1>2. /\ click'[c].pc = pc /\ click'[c].event \in {click[c].event, NoVersion}
      /\ (\A r \in Relay : click[c].reply[r] \notin {"sent", "late"}) /\ pc # "saved" =>
           click'[c].event = NoVersion
  BY <1>1, EndedIsClick
<1>3. ~InFlight(c)'
  BY <1>2 DEF InFlight
<1>4. \A d \in Click : d # c => ~InFlight(d) /\ ~InFlight(d)'
  BY DEF CalmInv, OneInFlight, InFlight
<1>5. \A d \in Click : GoesOn(d)
  BY <1>2, <1>3, <1>4 DEF GoesOn
<1>6. OneInFlight' /\ Ordered' /\ CurrentList' = CurrentList
  BY <1>3, <1>4, <1>5, HandlersGoOn
<1>7. ASSUME NEW s \in Seed
      PROVE  SeedInv(s)'
  <2>1. SeedInv(s) /\ s \in Relay
    BY ListAssumption DEF CalmInv
  <2>2. Reached(click[c].event, s) \/ (click[c].pc = "sign" /\ click'[c].event = NoVersion)
    <3>1. CASE click[c].reply[s] = "ok"
      BY <1>1, <2>1, <3>1 DEF ClickInv
    <3>2. CASE click[c].pc = "sign" /\ pc = "failed"
      <4>1. \A r \in Relay : click[c].reply[r] \notin {"sent", "late"}
        BY <1>1, <3>2 DEF ClickInv
      <4> QED
        BY <1>2, <3>2, <4>1
    <3> QED
      BY <3>1, <3>2
  <2>3. /\ click[c].pc = "send" => Reached(click[c].event, s)
        /\ click'[c].event # NoVersion => Reached(click[c].event, s)
        /\ click'[c].pc \notin {"send", "refresh"}
    BY <1>2, <2>2
  <2>4. \A d \in Click : d # c =>
          /\ click[d].pc # "send" /\ click'[d].pc \notin {"send", "refresh"}
          /\ click'[d].event # NoVersion => Reached(click[d].event, s)
    BY <1>4, <2>1 DEF SeedInv, InFlight
  <2> QED
    BY <1>5, <2>3, <2>4, SeedGoesOn
<1>8. EL!Next
  <2>1. AskedEdits = {click[c].edit}
    BY AskedOne
  <2>2. AskedEdits' = {}
    BY <1>3, <1>4 DEF AskedEdits
  <2>3. EL!Answer(click[c].edit)
    BY <1>6, <2>1, <2>2 DEF EL!Answer
  <2> QED
    BY <2>1, <2>3 DEF EL!Next
<1> QED
  BY <1>3, <1>4, <1>6, <1>7, <1>8

-----------------------------------------------------------------------------
(* The steps of the calm environment, and what EditedList sees of them.    *)

LEMMA LoadIsCalm ==
  ASSUME SafeInv, CalmInv, calm, NEW p \in Page, Load(p)
  PROVE  CalmInv' /\ UNCHANGED EL!vars
<1>1. PICK reading \in Readings :
        page' = [page EXCEPT ![p] = [@ EXCEPT !.status = reading.status, !.copy = reading.copy,
                                              !.behind = Busy]]
  BY DEF Load
<1>2. UNCHANGED <<stored, clock, click, calm>>
  BY DEF Load
<1>3. /\ page \in [Page -> PageState] /\ page[p] \in PageState
      /\ reading.status \in {"unknown", "empty", "loaded"}
  BY Typed, ReadingsAreTyped DEF SafeInv
<1>4. /\ page'[p].status = reading.status /\ page'[p].copy = reading.copy
      /\ page'[p].behind = Busy
      /\ \A q \in Page : q # p => page'[q] = page[q]
  BY <1>1, <1>3 DEF PageState
<1>5. \A c \in Click : GoesOn(c) /\ InFlight(c)' = InFlight(c)
  BY <1>2 DEF GoesOn, InFlight
<1>6. \A c \in Click, q \in Page : InFlight(c)' /\ page[q].behind => page'[q].behind
  BY <1>4, <1>5 DEF Busy
<1>7. /\ OneInFlight' /\ Ordered' /\ CurrentList' = CurrentList
      /\ \A c \in Click : InFlight(c)' => Latest(c)' /\ Fresh(c)' /\ Alone(c)'
  BY <1>2, <1>5, <1>6, HandlersGoOn
<1>8. ASSUME NEW s \in Seed
      PROVE  SeedInv(s)'
  <2>1. SeedInv(s)
    BY DEF CalmInv
  <2>2. Held' = Held
    BY <1>2, StoredStays
  <2> QED
    BY <1>2, <2>1, <2>2 DEF SeedInv, Reached, OnItsWay, InFlight
<1>9. ASSUME NEW q \in Page
      PROVE  UpToDate(q)'
  <2>1. CASE q # p
    BY <1>2, <1>4, <1>7, <2>1 DEF CalmInv, UpToDate, CanPublish, Sending
  <2>2. CASE q = p
    <3>1. SUFFICES ASSUME ~Busy, reading.status \in {"empty", "loaded"}
                   PROVE  Entries(reading.copy) = CurrentList
      BY <1>4, <1>7, <2>2 DEF UpToDate, CanPublish
    <3>2. PICK s \in Seed : TRUE
      BY ListAssumption
    <3>3. \A v \in Held : Reached(v, s)
      BY <3>1, SeedHasAll, KnownIsTyped
    <3> QED
      BY <3>1, <3>3, ReadingIsCurrent DEF CalmInv
  <2> QED
    BY <2>1, <2>2
<1>10. AskedEdits' = AskedEdits
  BY <1>2, <1>5, AskedSame
<1> QED
  BY <1>7, <1>8, <1>9, <1>10 DEF CalmInv, EL!vars

LEMMA ReloadIsCalm ==
  ASSUME SafeInv, CalmInv, calm, NEW p \in Page, Reload(p)
  PROVE  CalmInv' /\ UNCHANGED EL!vars
<1>1. PICK offers \in Offers(page[p].view) :
        page' = [page EXCEPT ![p] = Opened(page[p].view, offers, page[p].ahead)]
  BY DEF Reload
<1>2. UNCHANGED <<stored, clock, calm>> /\ click' = GoneWith(p) /\ \A c \in Click : ~InFlight(c)
  BY DEF Reload, Busy
<1>3. click' \in [Click -> ClickState] /\ \A c \in Click : click'[c] = click[c]
  BY <1>2, GoneIsClick
<1>4. click' = click
  BY <1>3, Typed
<1>5. /\ page'[p].status = "loading"
      /\ \A q \in Page : q # p => page'[q] = page[q]
  BY <1>1, Typed DEF Opened
<1>6. \A c \in Click : GoesOn(c) /\ InFlight(c)' = InFlight(c)
  BY <1>4 DEF GoesOn, InFlight
<1>7. /\ OneInFlight' /\ Ordered' /\ CurrentList' = CurrentList
      /\ \A c \in Click : InFlight(c)' => Latest(c)' /\ Fresh(c)' /\ Alone(c)'
  BY <1>2, <1>6, HandlersGoOn
<1>8. ASSUME NEW s \in Seed
      PROVE  SeedInv(s)'
  <2>1. SeedInv(s)
    BY DEF CalmInv
  <2>2. Held' = Held
    BY <1>2, StoredStays
  <2> QED
    BY <1>2, <1>4, <2>1, <2>2 DEF SeedInv, Reached, OnItsWay, InFlight
<1>9. ASSUME NEW q \in Page
      PROVE  UpToDate(q)'
  <2>1. CASE q # p
    BY <1>4, <1>5, <1>7, <2>1 DEF CalmInv, UpToDate, CanPublish, Sending
  <2>2. CASE q = p
    BY <1>5, <2>2 DEF UpToDate, CanPublish
  <2> QED
    BY <2>1, <2>2
<1>10. AskedEdits' = AskedEdits
  BY <1>4, <1>6, AskedSame
<1> QED
  BY <1>7, <1>8, <1>9, <1>10 DEF CalmInv, EL!vars

(* A click: an edit is asked for, of the list as it stands. *)
LEMMA BeginIsCalm ==
  ASSUME SafeInv, CalmInv, calm, NEW c \in Click, NEW p \in Page, NEW edit \in Edit,
         CanPublish(p), Begin(c, p, edit)
  PROVE  CalmInv' /\ EL!Next
<1> DEFINE new == Begun(p, edit, CreatedAt(p))
<1>1. /\ CreatedAt(p) \in Nat /\ new.event \in Version
      /\ click' = [click EXCEPT ![c] = new]
      /\ page' = [q \in Page |-> IF q = p THEN page[q] ELSE [page[q] EXCEPT !.behind = TRUE]]
      /\ UNCHANGED <<stored, calm>>
  BY BegunIsClick DEF Begin
<1>2. /\ new.pc = "sign" /\ new.page = p /\ new.edit = edit
      /\ new.event.at = CreatedAt(p)
      /\ new.event.entries = Edited(Entries(page[p].copy), edit)
  BY DEF Begun
<1> HIDE DEF new
<1>3. /\ click'[c] = new /\ \A d \in Click : d # c => click'[d] = click[d]
  BY <1>1, Typed
<1>4. /\ ~page[p].behind /\ \A v \in Held : CreatedAt(p) > v.at
      /\ \A d \in Click : ~InFlight(d)
      /\ ~Busy
  BY DEF Begin, CalmClick, CalmEvent, Busy
<1>5. page'[p] = page[p] /\ \A q \in Page : q # p => page'[q].behind
  BY <1>1, Typed DEF PageState
<1>6. Held' = Held /\ CurrentList' = CurrentList
  BY <1>1, StoredStays
<1>7. \A v \in Known : v.at < CreatedAt(p) /\ v.at \in Nat
  <2>1. PICK s \in Seed : s \in Relay
    BY ListAssumption
  <2>2. \A v \in Known : Reached(v, s) /\ v.at \in Nat
    BY <1>4, <2>1, SeedHasAll, KnownIsTyped
  <2>3. stored[s] # NoVersion => stored[s].at < CreatedAt(p) /\ stored[s].at \in Nat
    BY <1>4, <2>1, KnownIsTyped
  <2> QED
    BY <1>1, <2>2, <2>3 DEF Reached
<1>8. Known' \subseteq Known \cup {new.event}
  BY <1>3, <1>6 DEF Known
<1>9. OneInFlight'
  BY <1>3, <1>4 DEF OneInFlight, InFlight
<1>10. Ordered'
  BY <1>1, <1>2, <1>7, <1>8 DEF CalmInv, Ordered
<1>11. ASSUME NEW d \in Click, InFlight(d)'
       PROVE  Latest(d)' /\ Fresh(d)' /\ Alone(d)'
  <2>1. d = c
    BY <1>3, <1>4, <1>11 DEF InFlight
  <2>2. \A v \in Held : v.at < new.event.at /\ v.at \in Nat /\ new.event.at \in Nat
    BY <1>1, <1>2, <1>7, KnownIsTyped
  <2>3. \A e \in Click : click[e].event # NoVersion => click[e].event.at < new.event.at
    BY <1>2, <1>7, KnownIsTyped
  <2>4. Latest(c)'
    BY <1>3, <1>6, <2>2, <2>3 DEF Latest
  <2>5. Entries(page[p].copy) = CurrentList
    BY <1>4 DEF CalmInv, UpToDate, Sending, InFlight
  <2>6. Fresh(c)'
    BY <1>2, <1>3, <1>6, <2>5 DEF Fresh
  <2>7. Alone(c)'
    BY <1>2, <1>3, <1>5 DEF Alone
  <2> QED
    BY <2>1, <2>4, <2>6, <2>7
<1>12. ASSUME NEW s \in Seed
       PROVE  SeedInv(s)'
  <2>1. SeedInv(s) /\ \A v \in Held : Reached(v, s)
    BY <1>4, SeedHasAll, KnownIsTyped DEF CalmInv
  <2>2. \A v \in Held' : Reached(v, s)'
    BY <1>1, <1>6, <2>1 DEF Reached
  <2>3. InFlight(c)'
    BY <1>2, <1>3 DEF InFlight
  <2>4. \A d \in Click : d # c =>
          /\ click[d].event # NoVersion => Reached(click[d].event, s)'
          /\ click'[d].pc \notin {"send", "refresh"}
    BY <1>1, <1>3, <1>4, <2>1 DEF SeedInv, Reached, InFlight
  <2> QED
    BY <1>2, <1>3, <2>2, <2>3, <2>4 DEF SeedInv
<1>13. ASSUME NEW q \in Page
       PROVE  UpToDate(q)'
  BY <1>4, <1>5, <1>6 DEF CalmInv, UpToDate, CanPublish, Sending, InFlight
<1>14. EL!Next
  <2>1. AskedEdits = {}
    BY <1>4 DEF AskedEdits
  <2>2. {d \in Click : InFlight(d)'} = {c}
    BY <1>2, <1>3, <1>4 DEF InFlight
  <2>3. AskedEdits' = {edit}
    BY <1>2, <1>3, <2>2 DEF AskedEdits
  <2>4. EL!Ask
    BY <1>6, <2>1, <2>3 DEF EL!Ask, EL!Edit, Edit
  <2> QED
    BY <2>4 DEF EL!Next
<1> QED
  BY <1>9, <1>10, <1>11, <1>12, <1>13, <1>14 DEF CalmInv

LEMMA SignIsCalm ==
  ASSUME SafeInv, CalmInv, NEW c \in Click, Sign(c)
  PROVE  CalmInv' /\ UNCHANGED EL!vars
<1>1. PICK discovered \in Discovered : \E new \in ClickState :
        /\ click' = [click EXCEPT ![c] = new]
        /\ new.pc = "send" /\ new.page = click[c].page /\ new.edit = click[c].edit
        /\ new.event = click[c].event
        /\ \A r \in Relay : new.reply[r] = IF r \in WriteRelays(discovered)
                                           THEN "sent" ELSE "none"
  BY SignIsClick
<1>2. PICK new \in ClickState :
        /\ click' = [click EXCEPT ![c] = new]
        /\ new.pc = "send" /\ new.page = click[c].page /\ new.edit = click[c].edit
        /\ new.event = click[c].event
        /\ \A r \in Relay : new.reply[r] = IF r \in WriteRelays(discovered)
                                           THEN "sent" ELSE "none"
  BY <1>1
<1>3. click'[c] = new /\ \A d \in Click : d # c => click'[d] = click[d]
  BY <1>2, Typed
<1>4. click[c].pc = "sign" /\ UNCHANGED <<stored, clock, page, calm>>
  BY DEF Sign
<1>5. \A d \in Click : GoesOn(d) /\ (InFlight(d)' <=> InFlight(d)) /\ click'[d].edit = click[d].edit
  BY <1>2, <1>3, <1>4 DEF GoesOn, InFlight
<1>6. /\ OneInFlight' /\ Ordered' /\ CurrentList' = CurrentList
      /\ \A d \in Click : InFlight(d)' => Latest(d)' /\ Fresh(d)' /\ Alone(d)'
  BY <1>4, <1>5, HandlersGoOn
<1>7. ASSUME NEW s \in Seed
      PROVE  SeedInv(s)'
  <2>1. SeedInv(s)
    BY DEF CalmInv
  <2>2. new.reply[s] = "sent"
    BY <1>2, ListAssumption DEF WriteRelays
  <2>3. /\ click[c].pc # "send" /\ InFlight(c)'
        /\ click'[c].reply[s] = "sent" /\ click'[c].pc # "refresh"
    BY <1>2, <1>3, <1>4, <2>2 DEF InFlight
  <2>4. \A d \in Click : d # c =>
          /\ ~InFlight(d)' /\ click'[d].event # NoVersion => Reached(click[d].event, s)
          /\ click'[d].pc = "send" => click'[d].reply[s] \in {"sent", "ok"}
          /\ click'[d].pc = "refresh" => click'[d].reply[s] = "ok"
          /\ click[d].pc = "send" => click'[d].pc = "send" /\ click'[d].event = click[d].event
    BY <1>3, <1>5, <2>1 DEF SeedInv
  <2> QED
    BY <1>4, <1>5, <2>3, <2>4, SeedGoesOn
<1>8. ASSUME NEW p \in Page
      PROVE  UpToDate(p)'
  <2>1. Sending(p) => Sending(p)'
    BY <1>2, <1>3, <1>4 DEF Sending
  <2> QED
    BY <1>4, <1>6, <2>1 DEF CalmInv, UpToDate, CanPublish
<1>9. AskedEdits' = AskedEdits
  BY <1>5, AskedSame
<1> QED
  BY <1>6, <1>7, <1>8, <1>9 DEF CalmInv, EL!vars

LEMMA GiveUpIsCalm ==
  ASSUME SafeInv, CalmInv, calm, NEW c \in Click, NEW r \in Relay, GiveUp(c, r)
  PROVE  CalmInv' /\ UNCHANGED EL!vars
<1> DEFINE new == Replied(click[c], r, "late")
<1>1. /\ click[c].pc = "send" /\ r \notin Seed /\ UNCHANGED <<stored, clock, page, calm>>
      /\ click' = [click EXCEPT ![c].reply[r] = "late"]
  BY DEF GiveUp
<1>2. /\ new \in ClickState
      /\ new.pc = "send" /\ new.page = click[c].page /\ new.edit = click[c].edit
      /\ new.event = click[c].event
      /\ \A s \in Relay \ {r} : new.reply[s] = click[c].reply[s]
  BY <1>1, ReplyIsClick
<1>3. click' = [click EXCEPT ![c] = new]
  BY <1>1 DEF Replied
<1> HIDE DEF new
<1>4. click'[c] = new /\ \A d \in Click : d # c => click'[d] = click[d]
  BY <1>3, Typed
<1>5. \A d \in Click : /\ GoesOn(d) /\ (InFlight(d)' <=> InFlight(d))
                       /\ click'[d].pc = click[d].pc /\ click'[d].event = click[d].event
                       /\ click'[d].page = click[d].page /\ click'[d].edit = click[d].edit
                       /\ \A s \in Seed : click'[d].reply[s] = click[d].reply[s]
  BY <1>1, <1>2, <1>4, ListAssumption DEF GoesOn, InFlight
<1>6. /\ OneInFlight' /\ Ordered' /\ CurrentList' = CurrentList
      /\ \A d \in Click : InFlight(d)' => Latest(d)' /\ Fresh(d)' /\ Alone(d)'
  BY <1>1, <1>5, HandlersGoOn
<1>7. ASSUME NEW s \in Seed
      PROVE  SeedInv(s)'
  <2>1. SeedInv(s)
    BY DEF CalmInv
  <2> QED
    BY <1>1, <1>5, <2>1, SeedGoesOn DEF SeedInv
<1>8. ASSUME NEW p \in Page
      PROVE  UpToDate(p)'
  BY <1>1, <1>5, <1>6 DEF CalmInv, UpToDate, CanPublish, Sending
<1>9. AskedEdits' = AskedEdits
  BY <1>5, AskedSame
<1> QED
  BY <1>6, <1>7, <1>8, <1>9 DEF CalmInv, EL!vars

(* The Divine relay has answered when every relay has. *)
LEMMA SettledAtSeed ==
  ASSUME CalmInv, NEW c \in Click, Settled(c)
  PROVE  InFlight(c) /\ \A s \in Seed : click[c].reply[s] = "ok"
BY ListAssumption DEF CalmInv, SeedInv, Settled, InFlight

LEMMA RefreshIsCalm ==
  ASSUME SafeInv, CalmInv, NEW c \in Click, SavedOnBadgePage(c) \/ SavedOnMe(c)
  PROVE  CalmInv' /\ UNCHANGED EL!vars
<1> DEFINE new == [click[c] EXCEPT !.pc = "refresh"]
<1>1. /\ Settled(c) /\ click[c].pc = "send" /\ UNCHANGED <<stored, clock, page, calm>>
      /\ click' = [click EXCEPT ![c].pc = "refresh"]
  BY DEF SavedOnBadgePage, SavedOnMe, Saved, Settled
<1>2. click \in [Click -> ClickState] /\ click[c] \in ClickState /\ ClickInv(c)
  BY Typed
<1>3. /\ new.pc = "refresh" /\ new.page = click[c].page /\ new.edit = click[c].edit
      /\ new.event = click[c].event /\ new.reply = click[c].reply
  BY <1>2 DEF ClickState
<1>4. click' = [click EXCEPT ![c] = new]
  BY <1>1, <1>2
<1> HIDE DEF new
<1>5. click'[c] = new /\ \A d \in Click : d # c => click'[d] = click[d]
  BY <1>2, <1>4
<1>6. \A d \in Click : GoesOn(d) /\ (InFlight(d)' <=> InFlight(d)) /\ click'[d].edit = click[d].edit
  BY <1>1, <1>3, <1>5 DEF GoesOn, InFlight
<1>7. /\ OneInFlight' /\ Ordered' /\ CurrentList' = CurrentList
      /\ \A d \in Click : InFlight(d)' => Latest(d)' /\ Fresh(d)' /\ Alone(d)'
  BY <1>1, <1>6, HandlersGoOn
<1>8. ASSUME NEW s \in Seed
      PROVE  SeedInv(s)'
  <2>1. SeedInv(s) /\ click[c].reply[s] = "ok"
    BY <1>1, SettledAtSeed DEF CalmInv
  <2>2. Reached(click[c].event, s)
    BY <1>2, <2>1, ListAssumption DEF ClickInv
  <2>3. /\ InFlight(c)' /\ click'[c].pc = "refresh" /\ click'[c].reply[s] = "ok"
    BY <1>3, <1>5, <2>1 DEF InFlight
  <2>4. \A d \in Click : d # c =>
          /\ ~InFlight(d)' /\ click'[d].event # NoVersion => Reached(click[d].event, s)
          /\ click'[d].pc = "send" => click'[d].reply[s] \in {"sent", "ok"}
          /\ click'[d].pc = "refresh" => click'[d].reply[s] = "ok"
          /\ click[d].pc = "send" => click'[d].pc = "send" /\ click'[d].event = click[d].event
    BY <1>5, <1>6, <2>1 DEF SeedInv
  <2> QED
    BY <1>1, <1>6, <2>2, <2>3, <2>4, SeedGoesOn
<1>9. ASSUME NEW p \in Page
      PROVE  UpToDate(p)'
  <2>1. Sending(p) => Sending(p)'
    BY <1>3, <1>5 DEF Sending
  <2> QED
    BY <1>1, <1>7, <2>1 DEF CalmInv, UpToDate, CanPublish
<1>10. AskedEdits' = AskedEdits
  BY <1>6, AskedSame
<1> QED
  BY <1>7, <1>8, <1>9, <1>10 DEF CalmInv, EL!vars

LEMMA DeclineIsCalm ==
  ASSUME SafeInv, CalmInv, NEW c \in Click, Decline(c)
  PROVE  CalmInv' /\ EL!Next
<1>1. /\ click[c].pc = "sign" /\ UNCHANGED <<stored, clock, page, calm>>
      /\ click'[c] = Ended(click[c], "failed")
      /\ \A d \in Click : d # c => click'[d] = click[d]
  BY Typed DEF Decline
<1>2. InFlight(c)
  BY <1>1 DEF InFlight
<1>3. /\ OneInFlight' /\ Ordered' /\ CurrentList' = CurrentList
      /\ \A d \in Click : ~InFlight(d)'
      /\ \A s \in Seed : SeedInv(s)'
      /\ EL!Next
  BY <1>1, <1>2, EndsCalmly
<1>4. ASSUME NEW p \in Page
      PROVE  UpToDate(p)'
  <2>1. ~Sending(p)
    BY <1>1, <1>2 DEF CalmInv, OneInFlight, InFlight, Sending
  <2> QED
    BY <1>1, <1>3, <2>1 DEF CalmInv, UpToDate, CanPublish
<1> QED
  BY <1>3, <1>4 DEF CalmInv

(* In the calm environment a publish does not fail. *)
LEMMA NotSavedIsRough ==
  ASSUME CalmInv, NEW c \in Click
  PROVE  ~NotSaved(c)
<1>1. \E s \in Seed : s \in Relay
  BY ListAssumption
<1> QED
  BY <1>1, SettledAtSeed DEF NotSaved, Succeeded

(* A handler that saved ends: its page has the list as it stands, or has   *)
(* to be opened again; the other pages are behind.                         *)
LEMMA SavedCalmly ==
  ASSUME SafeInv, CalmInv, NEW c \in Click, InFlight(c),
         \A s \in Seed : click[c].reply[s] = "ok",
         UNCHANGED <<stored, clock, calm>>, click'[c] = Ended(click[c], "saved"),
         \A d \in Click : d # c => click'[d] = click[d],
         \A p \in Page : p # click[c].page => page'[p] = page[p],
         LET p == click[c].page IN
           ~page'[p].behind /\ page'[p].status \in {"empty", "loaded"} =>
             Entries(page'[p].copy) = CurrentList
  PROVE  CalmInv' /\ EL!Next
<1>1. /\ OneInFlight' /\ Ordered' /\ CurrentList' = CurrentList
      /\ \A d \in Click : ~InFlight(d)'
      /\ \A s \in Seed : SeedInv(s)'
      /\ EL!Next
  BY EndsCalmly
<1>2. ASSUME NEW p \in Page
      PROVE  UpToDate(p)'
  <2>1. CASE p = click[c].page
    BY <1>1, <2>1 DEF UpToDate, CanPublish
  <2>2. CASE p # click[c].page
    <3>1. page[p].behind
      BY <2>2 DEF CalmInv, Alone
    <3> QED
      BY <2>2, <3>1 DEF UpToDate
  <2> QED
    BY <2>1, <2>2
<1> QED
  BY <1>1, <1>2 DEF CalmInv

LEMMA ReadAgainIsCalm ==
  ASSUME SafeInv, CalmInv, calm, NEW c \in Click, ReadAgain(c)
  PROVE  CalmInv' /\ EL!Next
<1> DEFINE p == click[c].page
<1>1. PICK reading \in Readings :
        page' = [page EXCEPT ![p] = [@ EXCEPT !.status = reading.status, !.copy = reading.copy]]
  BY DEF ReadAgain
<1>2. /\ click[c].pc = "refresh" /\ UNCHANGED <<stored, clock, calm>>
      /\ click'[c] = Ended(click[c], "saved")
      /\ \A d \in Click : d # c => click'[d] = click[d]
  BY Typed DEF ReadAgain
<1>3. p \in Page /\ page \in [Page -> PageState] /\ page[p] \in PageState
  BY Typed
<1>4. /\ page'[p].status = reading.status /\ page'[p].copy = reading.copy
      /\ \A q \in Page : q # p => page'[q] = page[q]
  BY <1>1, <1>3 DEF PageState
<1>5. InFlight(c) /\ \A s \in Seed : click[c].reply[s] = "ok"
  BY <1>2 DEF CalmInv, SeedInv, InFlight
<1>6. PICK s \in Seed : TRUE
  BY ListAssumption
<1>7. \A v \in Held : Reached(v, s)
  BY <1>5, <1>6, ConfirmedIsCurrent
<1>8. reading.status \in {"empty", "loaded"} => Entries(reading.copy) = CurrentList
  BY <1>7, ReadingIsCurrent DEF CalmInv
<1> QED
  BY <1>2, <1>4, <1>5, <1>8, SavedCalmly

LEMMA SavedOnProfileIsCalm ==
  ASSUME SafeInv, CalmInv, NEW c \in Click, SavedOnProfile(c)
  PROVE  CalmInv' /\ EL!Next
<1> DEFINE p == click[c].page
<1>1. /\ InFlight(c) /\ UNCHANGED <<stored, clock, calm>>
      /\ \A s \in Seed : click[c].reply[s] = "ok"
  BY SettledAtSeed DEF SavedOnProfile, Saved
<1>2. p \in Page /\ page \in [Page -> PageState] /\ page[p] \in PageState
  BY Typed
<1>3. \A d \in Click : d # c => ~InFlight(d)
  BY <1>1 DEF CalmInv, OneInFlight
<1>4. /\ GoneWith(p) \in [Click -> ClickState]
      /\ \A d \in Click : d # c => GoneWith(p)[d] = click[d]
  BY <1>2, <1>3, GoneIsClick
<1>5. /\ click'[c] = Ended(click[c], "saved")
      /\ \A d \in Click : d # c => click'[d] = click[d]
  BY <1>4, Typed DEF SavedOnProfile
<1>6. /\ page'[p].behind \/ page'[p].status = "loading"
      /\ \A q \in Page : q # p => page'[q] = page[q]
  <2>1. CASE Everywhere(c)
    <3>1. page' = [page EXCEPT ![p] = Opened(page[p].view, page[p].offers, page[p].ahead)]
      BY <1>2, <2>1 DEF SavedOnProfile
    <3> QED
      BY <1>2, <3>1 DEF Opened
  <2>2. CASE ~Everywhere(c)
    <3>1. page' = [page EXCEPT ![p].behind = TRUE]
      BY <2>2 DEF SavedOnProfile
    <3> QED
      BY <1>2, <3>1 DEF PageState
  <2> QED
    BY <2>1, <2>2
<1> QED
  BY <1>1, <1>5, <1>6, SavedCalmly

LEMMA AdoptIsCalm ==
  ASSUME SafeInv, CalmInv, NEW c \in Click, Followed(c) \/ RelaysPublished(c)
  PROVE  CalmInv' /\ EL!Next
<1> DEFINE p == click[c].page
<1>1. /\ Settled(c) /\ UNCHANGED <<stored, clock, calm>>
      /\ page' = [page EXCEPT ![p] = [@ EXCEPT !.status = "loaded", !.copy = click[c].event]]
      /\ click' = [click EXCEPT ![c] = Ended(@, "saved")]
  BY DEF Followed, RelaysPublished, Saved, Adopt
<1>2. InFlight(c) /\ \A s \in Seed : click[c].reply[s] = "ok"
  BY <1>1, SettledAtSeed
<1>3. /\ p \in Page /\ page \in [Page -> PageState] /\ page[p] \in PageState
      /\ click \in [Click -> ClickState]
  BY Typed
<1>4. /\ page'[p].copy = click[c].event
      /\ \A q \in Page : q # p => page'[q] = page[q]
  BY <1>1, <1>3 DEF PageState
<1>5. /\ click'[c] = Ended(click[c], "saved")
      /\ \A d \in Click : d # c => click'[d] = click[d]
  BY <1>1, <1>3
<1>6. PICK s \in Seed : TRUE
  BY ListAssumption
<1>7. Entries(click[c].event) = CurrentList
  BY <1>2, <1>6, ConfirmedIsCurrent DEF Entries
<1> QED
  BY <1>1, <1>2, <1>4, <1>5, <1>7, SavedCalmly

(* A relay gets an event it may have had: the newest version is the same.  *)
LEMMA StoreChangesNothing ==
  ASSUME SafeInv, SafeInv', Ordered, NEW c \in Click, NEW r \in Relay,
         click[c].event \in Version, Store(c, r),
         NEW v \in Held, click[c].event.at <= v.at
  PROVE  CurrentList' = CurrentList
<1>1. /\ Grows /\ stored'[r] \in {stored[r], click[c].event}
      /\ \A q \in Relay \ {r} : stored'[q] = stored[q]
  BY StoreGrows
<1>2. Held \in SUBSET Version /\ Held' \in SUBSET Version
  BY HeldIsTyped DEF SafeInv, TypeOK, Held
<1>3. Held' \subseteq Held \cup {click[c].event}
  BY <1>1 DEF Held
<1>4. ASSUME NEW x \in Held
      PROVE  \E y \in Held' : x.at <= y.at
  <2>1. PICK q \in Relay : stored[q] = x /\ x # NoVersion
    BY DEF Held
  <2>2. stored'[q] # NoVersion /\ x.at <= stored'[q].at
    BY <1>1, <2>1 DEF Grows
  <2>3. stored'[q] \in Held'
    BY <2>2 DEF Held
  <2> QED
    BY <2>2, <2>3
<1>5. ASSUME NEW y \in Held'
      PROVE  \E x \in Held : y.at <= x.at
  <2>1. CASE y \in Held
    BY <1>2, <2>1, Numbers
  <2>2. CASE y = click[c].event
    BY <2>2
  <2> QED
    BY <1>3, <2>1, <2>2
<1>6. \A x \in Held, y \in Held' : x.at = y.at => x = y
  <2>1. click[c].event \in Known /\ Held \subseteq Known
    BY KnownIsTyped, NoVersionAssumption
  <2> QED
    BY <1>3, <2>1 DEF Ordered
<1>7. Newest(Held) = Newest(Held')
  BY <1>2, <1>4, <1>5, <1>6, NewestSame
<1> QED
  BY <1>7 DEF CurrentList, Newest

(* The first relay gets the edited list: it is the list now. *)
LEMMA StoreIsEdit ==
  ASSUME SafeInv, SafeInv', CalmInv, Ordered', NEW c \in Click, NEW r \in Relay,
         InFlight(c), Store(c, r), click[c].event \in Version, click[c].event \notin Held
  PROVE  CurrentList' = Edited(CurrentList, click[c].edit)
<1> DEFINE event == click[c].event
<1>1. /\ Ordered /\ \A v \in Held : v.at <= event.at
      /\ event.entries = Edited(CurrentList, click[c].edit)
  BY DEF CalmInv, Latest, Fresh
<1>2. event \in Known /\ Held \subseteq Known /\ \A v \in Known : v.at \in Nat
  BY KnownIsTyped, NoVersionAssumption
<1>3. \A v \in Held : v.at < event.at
  BY <1>1, <1>2 DEF Ordered
<1>4. stored[r] = NoVersion \/ stored[r].at < event.at
  BY <1>3, KnownIsTyped
<1>5. stored'[r] = event /\ \A q \in Relay \ {r} : stored'[q] = stored[q]
  BY <1>4, StoreGrows
<1>6. /\ Held' \subseteq Held \cup {event} /\ event \in Held'
      /\ Held' \in SUBSET Version
  BY <1>5, NoVersionAssumption, Typed DEF Held
<1>7. Newest(Held') = {event}
  <2>1. \A w \in Held' : w.at <= event.at
    BY <1>1, <1>2, <1>6
  <2>2. \A w \in Held' : w.at = event.at => w = event
    BY <1>2, <1>3, <1>6
  <2> QED
    BY <1>6, <2>1, <2>2, NewestIs
<1>8. CurrentList' = UNION {v.entries : v \in Newest(Held')}
  BY DEF CurrentList, Newest
<1> QED
  BY <1>1, <1>7, <1>8

(* A relay gets the event of a click, and the handler, if there is one     *)
(* still, knows it or not.                                                 *)
LEMMA StoreIsCalm ==
  ASSUME SafeInv, SafeInv', CalmInv, NEW c \in Click, NEW r \in Relay,
         Confirm(c, r) \/ ReachUnheard(c, r)
  PROVE  CalmInv' /\ (EL!Next \/ UNCHANGED EL!vars)
<1> DEFINE reply == IF click[c].reply[r] = "sent" THEN "ok" ELSE "failed"
           new   == Replied(click[c], r, reply)
           event == click[c].event
<1>1. /\ click[c].reply[r] \in {"sent", "late"} /\ Store(c, r)
      /\ UNCHANGED <<clock, page, calm>>
      /\ click' = [click EXCEPT ![c].reply[r] = reply]
  BY DEF Confirm, ReachUnheard
<1>2. /\ new.pc = click[c].pc /\ new.page = click[c].page /\ new.edit = click[c].edit
      /\ new.event = click[c].event /\ new.reply[r] = reply
      /\ \A s \in Relay \ {r} : new.reply[s] = click[c].reply[s]
  BY ReplyIsClick
<1>3. click' = [click EXCEPT ![c] = new]
  BY <1>1 DEF Replied
<1> HIDE DEF new
<1>4. click'[c] = new /\ \A d \in Click : d # c => click'[d] = click[d]
  BY <1>3, Typed
<1>5. \A d \in Click : /\ InFlight(d)' <=> InFlight(d)
                       /\ click'[d].pc = click[d].pc /\ click'[d].event = click[d].event
                       /\ click'[d].page = click[d].page /\ click'[d].edit = click[d].edit
  BY <1>2, <1>4 DEF InFlight
<1>6. event \in Version /\ event # NoVersion /\ click[c].pc # "sign"
  BY <1>1, Typed, NoVersionAssumption DEF ClickInv
<1>7. /\ Grows /\ Held' \subseteq Held \cup {event}
      /\ \A q \in Relay \ {r} : stored'[q] = stored[q]
  BY <1>1, <1>6, StoreGrows DEF Held
<1>8. event \in Known /\ Held \subseteq Known /\ \A v \in Known : v.at \in Nat
  BY <1>6, KnownIsTyped
<1>9. Ordered' /\ OneInFlight'
  <2>1. Known' \subseteq Known
    BY <1>5, <1>7, <1>8 DEF Known
  <2> QED
    BY <1>5, <2>1 DEF CalmInv, Ordered, OneInFlight
<1>10. \/ InFlight(c) /\ event \notin Held
       \/ \E v \in Held : event.at <= v.at
  <2>1. CASE InFlight(c)
    BY <1>8, <2>1
  <2>2. CASE ~InFlight(c)
    <3>1. PICK s \in Seed : s \in Relay
      BY ListAssumption
    <3>2. Reached(event, s)
      BY <1>6, <2>2, <3>1 DEF CalmInv, SeedInv
    <3> QED
      BY <3>1, <3>2, KnownIsTyped DEF Reached
  <2> QED
    BY <2>1, <2>2
<1>11. \/ /\ InFlight(c) /\ event \notin Held
          /\ CurrentList' = Edited(CurrentList, click[c].edit)
       \/ CurrentList' = CurrentList
  BY <1>1, <1>6, <1>9, <1>10, StoreChangesNothing, StoreIsEdit DEF CalmInv
<1>12. ASSUME NEW d \in Click, InFlight(d)'
       PROVE  Latest(d)' /\ Fresh(d)' /\ Alone(d)'
  <2>1. InFlight(d) /\ Latest(d) /\ Fresh(d) /\ Alone(d)
    BY <1>5, <1>12 DEF CalmInv
  <2>2. d # c => event.at < click[d].event.at
    BY <1>6, <2>1 DEF Latest
  <2>3. click[d].event \in Known
    BY <2>1, KnownIsTyped, Typed DEF ClickInv, InFlight
  <2>4. \A v \in Held' : v.at <= click[d].event.at
    BY <1>7, <1>8, <2>1, <2>2, <2>3 DEF Latest
  <2>5. click[d].pc = "sign" => click[d].event \notin Held'
    BY <1>6, <1>7, <1>8, <2>1, <2>2, <2>3 DEF Latest
  <2>6. Latest(d)'
    BY <1>5, <2>1, <2>4, <2>5 DEF Latest
  <2>7. Fresh(d)'
    <3>1. SUFFICES ASSUME click[d].event \notin Held'
                   PROVE  click[d].event.entries = Edited(CurrentList', click[d].edit)
      BY <1>5 DEF Fresh
    <3>2. click[d].event \notin Held
      <4>1. SUFFICES ASSUME click[d].event \in Held
                     PROVE  FALSE
        OBVIOUS
      <4>2. PICK q \in Relay : stored[q] = click[d].event /\ stored[q] # NoVersion
        BY <4>1 DEF Held
      <4>3. stored'[q] # NoVersion /\ click[d].event.at <= stored'[q].at
        BY <1>7, <4>2 DEF Grows
      <4>4. stored'[q] \in Held'
        BY <4>3 DEF Held
      <4>5. stored'[q].at = click[d].event.at /\ stored'[q] \in Known
        BY <1>7, <1>8, <2>3, <2>4, <4>3, <4>4
      <4>6. stored'[q] = click[d].event
        BY <2>3, <4>5 DEF CalmInv, Ordered
      <4> QED
        BY <3>1, <4>4, <4>6
    <3>3. d # c
      <4>1. d = c => stored'[r] = event /\ stored'[r] # NoVersion
        <5>1. d = c => stored[r] = NoVersion \/ stored[r].at < event.at
          BY <1>8, <2>1, <3>2, KnownIsTyped DEF Latest, CalmInv, Ordered
        <5> QED
          BY <1>1, <1>6, <5>1, StoreGrows
      <4> QED
        BY <3>1, <4>1 DEF Held
    <3>4. CurrentList' = CurrentList
      BY <1>11, <2>1, <3>3 DEF CalmInv, OneInFlight
    <3> QED
      BY <2>1, <3>2, <3>4 DEF Fresh
  <2>8. Alone(d)'
    BY <1>1, <1>5, <2>1 DEF Alone
  <2> QED
    BY <2>6, <2>7, <2>8
<1>13. ASSUME NEW s \in Seed
       PROVE  SeedInv(s)'
  <2>1. SeedInv(s) /\ s \in Relay
    BY ListAssumption DEF CalmInv
  <2>2. \A v \in Known : Reached(v, s) => stored'[s] # NoVersion /\ v.at <= stored'[s].at
    <3>1. stored[s] # NoVersion => stored[s].at \in Nat
      BY <1>8, <2>1, KnownIsTyped
    <3>2. stored'[s] # NoVersion => stored'[s].at \in Nat
      BY <2>1, Numbers DEF SafeInv, TypeOK
    <3> QED
      BY <1>7, <1>8, <2>1, <3>1, <3>2 DEF Grows, Reached
  <2>3. OnItsWay(event) \/ Reached(event, s)
    <3>1. CASE click[c].pc = "send"
      BY <3>1 DEF OnItsWay
    <3>2. CASE click[c].pc = "refresh"
      BY <2>1, <3>2, Typed DEF SeedInv, ClickInv
    <3>3. CASE ~InFlight(c)
      BY <1>6, <2>1, <3>3 DEF SeedInv
    <3> QED
      BY <1>6, <3>1, <3>2, <3>3 DEF InFlight
  <2>4. ASSUME NEW v \in Held'
        PROVE  Reached(v, s)' \/ OnItsWay(v)'
    <3>1. Reached(v, s) \/ OnItsWay(v)
      BY <1>7, <2>1, <2>3 DEF SeedInv
    <3>2. v \in Known
      BY <1>7, <1>8
    <3>3. OnItsWay(v) => OnItsWay(v)'
      BY <1>5 DEF OnItsWay
    <3> QED
      BY <2>2, <3>1, <3>2, <3>3 DEF Reached
  <2>5. ASSUME NEW d \in Click, ~InFlight(d), click[d].event # NoVersion
        PROVE  stored'[s] # NoVersion /\ click[d].event.at <= stored'[s].at
    BY <2>1, <2>2, <2>5, KnownIsTyped DEF SeedInv
  <2>6. ASSUME NEW d \in Click
        PROVE  /\ click[d].pc = "send" => click'[d].reply[s] \in {"sent", "ok"}
               /\ click[d].pc = "refresh" => click'[d].reply[s] = "ok"
    <3>1. CASE d # c \/ s # r
      BY <1>2, <1>4, <2>1, <3>1 DEF SeedInv
    <3>2. CASE d = c /\ s = r
      BY <1>1, <1>2, <1>4, <2>1, <3>2, Typed DEF SeedInv, ClickInv
    <3> QED
      BY <3>1, <3>2
  <2> QED
    BY <1>5, <2>4, <2>5, <2>6 DEF SeedInv, Reached
<1>14. ASSUME NEW p \in Page
       PROVE  UpToDate(p)'
  <2>1. page' = page /\ UpToDate(p) /\ (Sending(p)' <=> Sending(p))
    BY <1>1, <1>5 DEF CalmInv, Sending
  <2>2. CASE CurrentList' = CurrentList
    BY <2>1, <2>2 DEF UpToDate, CanPublish
  <2>3. CASE InFlight(c)
    <3>1. CASE p = click[c].page
      BY <1>6, <2>1, <2>3, <3>1 DEF UpToDate, Sending, InFlight
    <3>2. CASE p # click[c].page
      BY <2>1, <2>3, <3>2 DEF CalmInv, Alone, UpToDate
    <3> QED
      BY <3>1, <3>2
  <2> QED
    BY <1>11, <2>2, <2>3
<1>15. EL!Next \/ UNCHANGED EL!vars
  <2>1. AskedEdits' = AskedEdits
    BY <1>5, AskedSame
  <2>2. CASE CurrentList' = CurrentList
    BY <2>1, <2>2 DEF EL!vars
  <2>3. CASE InFlight(c) /\ CurrentList' = Edited(CurrentList, click[c].edit)
    <3>1. click[c].edit \in AskedEdits
      BY <2>3 DEF AskedEdits
    <3>2. EL!Apply(click[c].edit)
      BY <2>1, <2>3 DEF EL!Apply, EL!Edited, Edited
    <3> QED
      BY <3>1, <3>2 DEF EL!Next
  <2> QED
    BY <1>11, <2>2, <2>3
<1> QED
  BY <1>9, <1>12, <1>13, <1>14, <1>15 DEF CalmInv

LEMMA InitIsCalm ==
  ASSUME Init, calm
  PROVE  CalmInv
<1>1. PICK holders \in Holders :
        /\ holders # {} => Seed \subseteq holders
        /\ stored = [r \in Relay |-> IF r \in holders THEN [at |-> 0, entries |-> Existing]
                                                     ELSE NoVersion]
  BY DEF Init, CalmStart
<1> DEFINE first == [at |-> 0, entries |-> Existing]
<1>2. first \in Version /\ first # NoVersion
  BY ListAssumption, Numbers, NoVersionAssumption DEF Version
<1>3. holders \subseteq Relay /\ Held \subseteq {first} /\ (Held # {} => holders # {})
  BY <1>1, ListAssumption DEF Held
<1>4. \A c \in Click : click[c].pc = "none" /\ click[c].event = NoVersion
  BY NoClickIsClick DEF Init
<1>5. Known \subseteq {first}
  BY <1>3, <1>4 DEF Known
<1>6. OneInFlight /\ \A c \in Click : ~InFlight(c)
  BY <1>4 DEF OneInFlight, InFlight
<1>7. Ordered
  BY <1>5 DEF Ordered
<1>8. ASSUME NEW s \in Seed
      PROVE  SeedInv(s)
  <2>1. s \in Relay
    BY ListAssumption
  <2>2. ASSUME NEW v \in Held
        PROVE  Reached(v, s)
    <3>1. v = first /\ stored[s] = first
      BY <1>1, <1>3, <2>1
    <3>2. first.at <= first.at
      BY <1>2, Numbers
    <3> QED
      BY <1>2, <3>1, <3>2 DEF Reached
  <2> QED
    BY <1>4, <2>2 DEF SeedInv
<1>9. ASSUME NEW p \in Page
      PROVE  UpToDate(p)
  <2>1. PICK list \in Lists :
          page \in [Page -> UNION {{Opened(v, offers, ahead) : offers \in Offers(v), ahead \in 0..MaxSkew}
                                   : v \in list}]
    BY DEF Init
  <2>2. page[p].status = "loading"
    BY <2>1 DEF Opened
  <2> QED
    BY <2>2 DEF UpToDate, CanPublish
<1> QED
  BY <1>6, <1>7, <1>8, <1>9 DEF CalmInv

LEMMA NextIsCalm ==
  ASSUME SafeInv, SafeInv', CalmInv, calm, [Next]_vars
  PROVE  CalmInv' /\ (EL!Next \/ UNCHANGED EL!vars)
<1>1. CASE UNCHANGED vars
  <2>1. UNCHANGED <<stored, page, click>>
    BY <1>1 DEF vars
  <2>2. /\ \A c \in Click : GoesOn(c) /\ (InFlight(c)' <=> InFlight(c)) /\ click'[c] = click[c]
        /\ \A p \in Page : Sending(p)' <=> Sending(p)
        /\ \A v : OnItsWay(v) => OnItsWay(v)'
    BY <2>1 DEF GoesOn, InFlight, Sending, OnItsWay
  <2>3. /\ OneInFlight' /\ Ordered' /\ CurrentList' = CurrentList
        /\ \A c \in Click : InFlight(c)' => Latest(c)' /\ Fresh(c)' /\ Alone(c)'
    BY <2>1, <2>2, HandlersGoOn
  <2>4. \A s \in Seed : SeedInv(s)'
    BY <2>1, <2>2, StoredStays DEF CalmInv, SeedInv, Reached
  <2>5. \A p \in Page : UpToDate(p)'
    BY <2>1, <2>2, <2>3 DEF CalmInv, UpToDate, CanPublish
  <2>6. AskedEdits' = AskedEdits
    BY <2>2, AskedSame
  <2> QED
    BY <2>3, <2>4, <2>5, <2>6 DEF CalmInv, EL!vars
<1>2. ASSUME NEW p \in Page,
             LoadBadgePage(p) \/ LoadMe(p) \/ LoadProfile(p) \/ LoadRelayList(p) \/ Reload(p)
      PROVE  CalmInv' /\ UNCHANGED EL!vars
  BY <1>2, LoadIsCalm, ReloadIsCalm DEF LoadBadgePage, LoadMe, LoadProfile, LoadRelayList
<1>3. ASSUME NEW c \in Click, NEW p \in Page,
             \/ ClickOnBadgePage(c, p) \/ ClickOnMe(c, p) \/ ClickOnProfile(c, p)
             \/ FollowAwardees(c, p) \/ PublishRelays(c, p)
      PROVE  CalmInv' /\ EL!Next
  BY <1>3, ClicksBegin, BeginIsCalm
<1>4. ASSUME NEW c \in Click, NEW r \in Relay,
             Confirm(c, r) \/ GiveUp(c, r) \/ ReachUnheard(c, r)
      PROVE  CalmInv' /\ (EL!Next \/ UNCHANGED EL!vars)
  BY <1>4, StoreIsCalm, GiveUpIsCalm
<1>5. ASSUME NEW c \in Click,
             \/ Sign(c) \/ Decline(c) \/ NotSaved(c)
             \/ SavedOnBadgePage(c) \/ SavedOnMe(c) \/ SavedOnProfile(c)
             \/ RefreshBadgePage(c) \/ RefreshMe(c)
             \/ Followed(c) \/ RelaysPublished(c)
      PROVE  CalmInv' /\ (EL!Next \/ UNCHANGED EL!vars)
  <2>1. CASE Sign(c) \/ Decline(c) \/ NotSaved(c)
    BY <2>1, SignIsCalm, DeclineIsCalm, NotSavedIsRough
  <2>2. CASE SavedOnBadgePage(c) \/ SavedOnMe(c) \/ SavedOnProfile(c)
    BY <2>2, RefreshIsCalm, SavedOnProfileIsCalm
  <2>3. CASE RefreshBadgePage(c) \/ RefreshMe(c)
    BY <2>3, ReadAgainIsCalm DEF RefreshBadgePage, RefreshMe
  <2>4. CASE Followed(c) \/ RelaysPublished(c)
    BY <2>4, AdoptIsCalm
  <2> QED
    BY <1>5, <2>1, <2>2, <2>3, <2>4
<1> QED
  BY <1>1, <1>2, <1>3, <1>4, <1>5 DEF Next

LEMMA CalmStays ==
  ASSUME [Next]_vars
  PROVE  calm' = calm
BY DEF Next, vars, LoadBadgePage, LoadMe, LoadProfile, LoadRelayList, Load, Reload,
       ClickOnBadgePage, ClickOnMe, ClickOnProfile, FollowAwardees, PublishRelays, Begin,
       Confirm, GiveUp, ReachUnheard, Sign, Decline, NotSaved, SavedOnBadgePage, SavedOnMe,
       SavedOnProfile, RefreshBadgePage, RefreshMe, ReadAgain, Followed, RelaysPublished, Adopt

\* The invariant that holds in the calm environment.
THEOREM CalmSafety == Spec => [](calm => CalmInv)
<1>1. Init => (calm => CalmInv)
  BY InitIsCalm
<1>2. SafeInv /\ SafeInv' /\ (calm => CalmInv) /\ [Next]_vars => (calm => CalmInv)'
  BY NextIsCalm, CalmStays
<1> QED
  BY Safety, <1>1, <1>2, PTL DEF Spec

\* No edit of another page is undone and none is lost: in the calm environment
\* the list on the relays changes only by the edits the person asked for, each
\* applied to the list as it stands when it arrives.
THEOREM Implementation == Spec => CalmEdits
<1>1. SafeInv /\ SafeInv' /\ (calm => CalmInv) /\ [Next]_vars => [calm => EL!Next]_EL!vars
  BY NextIsCalm
<1> QED
  BY Safety, CalmSafety, <1>1, PTL DEF Spec, CalmEdits

-----------------------------------------------------------------------------
(* Follows.  FollowsPreserved is refuted by a reading that timed out; in   *)
(* the calm environment it holds.                                          *)

FollowsInv ==
  \/ \A p \in Page : page[p].view \notin Contacts
  \/ /\ \A p \in Page : page[p].view \in Contacts
     /\ Held # {}
     /\ \A v \in Known : Existing \subseteq v.entries

(* No version appears that no handler has, and no page turns into another. *)
NothingNew ==
  /\ \A p \in Page : page'[p].view = page[p].view
  /\ Grows
  /\ Known' \subseteq Known

LEMMA SameEvents ==
  ASSUME SafeInv, \A p \in Page : page'[p].view = page[p].view,
         \/ UNCHANGED stored
         \/ \E c \in Click, r \in Relay : click[c].event \in Version /\ Store(c, r),
         \A c \in Click : click'[c].event \in {click[c].event, NoVersion}
  PROVE  NothingNew
<1>1. Grows /\ Held' \subseteq Known
  <2>1. CASE UNCHANGED stored
    BY <2>1, StoredStays, KnownIsTyped
  <2>2. CASE \E c \in Click, r \in Relay : click[c].event \in Version /\ Store(c, r)
    <3>1. PICK c \in Click, r \in Relay : click[c].event \in Version /\ Store(c, r)
      BY <2>2
    <3>2. /\ Grows /\ stored'[r] \in {stored[r], click[c].event}
          /\ \A q \in Relay \ {r} : stored'[q] = stored[q]
      BY <3>1, StoreGrows
    <3>3. Held' \subseteq Held \cup {click[c].event}
      BY <3>2 DEF Held
    <3> QED
      BY <3>1, <3>2, <3>3, KnownIsTyped, NoVersionAssumption
  <2> QED
    BY <2>1, <2>2
<1>2. Known' \subseteq Known
  BY <1>1 DEF Known
<1> QED
  BY <1>1, <1>2 DEF NothingNew

LEMMA PagesBringNothing ==
  ASSUME SafeInv, NEW p \in Page, Load(p) \/ Reload(p)
  PROVE  NothingNew
<1>1. page \in [Page -> PageState] /\ page[p] \in PageState
  BY Typed
<1>2. CASE Load(p)
  <2>1. PICK reading \in Readings :
          page' = [page EXCEPT ![p] = [@ EXCEPT !.status = reading.status, !.copy = reading.copy,
                                                !.behind = Busy]]
    BY <1>2 DEF Load
  <2>2. \A q \in Page : page'[q].view = page[q].view
    BY <1>1, <2>1 DEF PageState
  <2> QED
    BY <1>2, <2>2, SameEvents DEF Load
<1>3. CASE Reload(p)
  <2>1. \A q \in Page : page'[q].view = page[q].view
    BY <1>1, <1>3 DEF Reload, Opened
  <2>2. \A c \in Click : click'[c].event \in {click[c].event, NoVersion}
    BY <1>3, GoneIsClick, EndedIsClick, Typed DEF Reload
  <2> QED
    BY <1>3, <2>1, <2>2, SameEvents DEF Reload
<1> QED
  BY <1>2, <1>3

LEMMA RelaysBringNothing ==
  ASSUME SafeInv, NEW c \in Click, NEW r \in Relay,
         Confirm(c, r) \/ GiveUp(c, r) \/ ReachUnheard(c, r)
  PROVE  NothingNew
<1>1. PICK reply \in {"ok", "late", "failed"} : click' = [click EXCEPT ![c].reply[r] = reply]
  BY DEF Confirm, GiveUp, ReachUnheard
<1> DEFINE new == Replied(click[c], r, reply)
<1>2. new.event = click[c].event
  BY ReplyIsClick
<1>3. click' = [click EXCEPT ![c] = new]
  BY <1>1 DEF Replied
<1> HIDE DEF new
<1>4. \A d \in Click : click'[d].event = click[d].event
  BY <1>2, <1>3, Typed
<1>5. \/ UNCHANGED stored
      \/ \E d \in Click, q \in Relay : click[d].event \in Version /\ Store(d, q)
  <2>1. click[c].reply[r] \in {"sent", "late"} => click[c].event \in Version
    BY Typed DEF ClickInv
  <2> QED
    BY <2>1 DEF Confirm, GiveUp, ReachUnheard
<1> QED
  BY <1>4, <1>5, SameEvents DEF Confirm, GiveUp, ReachUnheard

LEMMA HandlersBringNothing ==
  ASSUME SafeInv, NEW c \in Click,
         \/ Sign(c) \/ Decline(c) \/ NotSaved(c)
         \/ SavedOnBadgePage(c) \/ SavedOnMe(c) \/ SavedOnProfile(c)
         \/ RefreshBadgePage(c) \/ RefreshMe(c)
         \/ Followed(c) \/ RelaysPublished(c)
  PROVE  NothingNew
<1> DEFINE p == click[c].page
<1>1. /\ click \in [Click -> ClickState] /\ click[c] \in ClickState
      /\ page \in [Page -> PageState] /\ p \in Page /\ page[p] \in PageState
  BY Typed
<1>2. \A pc \in {"saved", "failed", "gone"}, d \in Click :
        Ended(click[d], pc).event \in {click[d].event, NoVersion}
  BY EndedIsClick, Typed
<1>3. CASE Sign(c)
  <2>1. PICK new \in ClickState :
          click' = [click EXCEPT ![c] = new] /\ new.event = click[c].event
    BY <1>3, SignIsClick
  <2> QED
    BY <1>1, <1>3, <2>1, SameEvents DEF Sign
<1>4. CASE Decline(c) \/ NotSaved(c)
  BY <1>1, <1>2, <1>4, SameEvents DEF Decline, NotSaved
<1>5. CASE SavedOnBadgePage(c) \/ SavedOnMe(c)
  <2>1. click' = [click EXCEPT ![c].pc = "refresh"] /\ UNCHANGED <<stored, page>>
    BY <1>5 DEF SavedOnBadgePage, SavedOnMe
  <2>2. \A d \in Click : click'[d].event = click[d].event
    BY <1>1, <2>1 DEF ClickState
  <2> QED
    BY <2>1, <2>2, SameEvents
<1>6. CASE SavedOnProfile(c)
  <2>1. \A q \in Page : page'[q].view = page[q].view
    BY <1>1, <1>6 DEF SavedOnProfile, Opened, PageState
  <2>2. /\ GoneWith(p) \in [Click -> ClickState]
        /\ \A d \in Click : GoneWith(p)[d].event \in {click[d].event, NoVersion}
    BY <1>1, <1>2, GoneIsClick
  <2>3. \A d \in Click : click'[d].event \in {click[d].event, NoVersion}
    BY <1>1, <1>2, <1>6, <2>2 DEF SavedOnProfile
  <2> QED
    BY <1>6, <2>1, <2>3, SameEvents DEF SavedOnProfile
<1>7. CASE RefreshBadgePage(c) \/ RefreshMe(c)
  <2>1. PICK reading \in Readings :
          page' = [page EXCEPT ![p] = [@ EXCEPT !.status = reading.status, !.copy = reading.copy]]
    BY <1>7 DEF RefreshBadgePage, RefreshMe, ReadAgain
  <2>2. \A q \in Page : page'[q].view = page[q].view
    BY <1>1, <2>1 DEF PageState
  <2> QED
    BY <1>1, <1>2, <1>7, <2>2, SameEvents DEF RefreshBadgePage, RefreshMe, ReadAgain
<1>8. CASE Followed(c) \/ RelaysPublished(c)
  <2>1. page' = [page EXCEPT ![p] = [@ EXCEPT !.status = "loaded", !.copy = click[c].event]]
    BY <1>8 DEF Followed, RelaysPublished, Adopt
  <2>2. \A q \in Page : page'[q].view = page[q].view
    BY <1>1, <2>1 DEF PageState
  <2> QED
    BY <1>1, <1>2, <1>8, <2>2, SameEvents DEF Followed, RelaysPublished, Adopt
<1> QED
  BY <1>3, <1>4, <1>5, <1>6, <1>7, <1>8

(* Following: the list as it stands has the follows, and none is dropped.  *)
LEMMA FollowKeeps ==
  ASSUME SafeInv, CalmInv, calm, FollowsInv, NEW c \in Click, NEW p \in Page,
         FollowAwardees(c, p)
  PROVE  FollowsInv'
<1> DEFINE edit == Following(MissingFollows(p))
           new  == Begun(p, edit, CreatedAt(p))
<1>1. /\ page[p].view \in Contacts /\ CanPublish(p) /\ Begin(c, p, edit)
  BY DEF FollowAwardees, Contacts
<1>2. edit \in Edit /\ edit.drop = {}
  BY Typed, ListAssumption DEF Following, MissingFollows, Edit
<1> HIDE DEF edit
<1>3. /\ click' = [click EXCEPT ![c] = new] /\ UNCHANGED stored
      /\ page' = [q \in Page |-> IF q = p THEN page[q] ELSE [page[q] EXCEPT !.behind = TRUE]]
  BY <1>1, <1>2, BegunIsClick DEF Begin
<1>4. new.event.entries = Edited(Entries(page[p].copy), edit)
  BY DEF Begun
<1> HIDE DEF new
<1>5. \A q \in Page : page'[q].view = page[q].view
  BY <1>3, Typed DEF PageState
<1>6. /\ \A q \in Page : page[q].view \in Contacts
      /\ Held # {} /\ \A v \in Known : Existing \subseteq v.entries
  BY <1>1 DEF FollowsInv
<1>7. ~Busy /\ ~page[p].behind
  BY <1>1 DEF Begin, CalmClick
<1>8. Entries(page[p].copy) = CurrentList
  BY <1>1, <1>7 DEF CalmInv, UpToDate, Sending, Busy, InFlight
<1>9. Existing \subseteq CurrentList
  <2>1. PICK s \in Seed : s \in Relay
    BY ListAssumption
  <2>2. \A v \in Held : Reached(v, s)
    BY <1>7, SeedHasAll, KnownIsTyped
  <2>3. stored[s] \in Held /\ \A v \in Held : v.at <= stored[s].at
    BY <1>6, <2>1, <2>2, KnownIsTyped DEF Reached
  <2>4. CurrentList = stored[s].entries
    BY <2>3, CurrentIs DEF CalmInv
  <2> QED
    BY <1>6, <2>3, <2>4, KnownIsTyped
<1>10. Existing \subseteq new.event.entries
  BY <1>2, <1>4, <1>8, <1>9 DEF Edited
<1>11. Held' = Held
  BY <1>3, StoredStays
<1>12. \A v \in Known' : v \in Known \/ v = new.event
  BY <1>3, <1>11, Typed DEF Known
<1> QED
  BY <1>5, <1>6, <1>10, <1>11, <1>12 DEF FollowsInv

LEMMA NextKeepsFollows ==
  ASSUME SafeInv, CalmInv, calm, FollowsInv, [Next]_vars
  PROVE  FollowsInv'
<1>1. ASSUME NothingNew
      PROVE  FollowsInv'
  <2>1. Held # {} => Held' # {}
    BY <1>1 DEF NothingNew, Grows, Held
  <2> QED
    BY <1>1, <2>1 DEF NothingNew, FollowsInv
<1>2. CASE UNCHANGED vars
  BY <1>1, <1>2, SameEvents DEF vars
<1>3. ASSUME NEW p \in Page,
             LoadBadgePage(p) \/ LoadMe(p) \/ LoadProfile(p) \/ LoadRelayList(p) \/ Reload(p)
      PROVE  FollowsInv'
  BY <1>1, <1>3, PagesBringNothing DEF LoadBadgePage, LoadMe, LoadProfile, LoadRelayList
<1>4. ASSUME NEW c \in Click, NEW p \in Page, FollowAwardees(c, p)
      PROVE  FollowsInv'
  BY <1>4, FollowKeeps
<1>5. ASSUME NEW c \in Click, NEW p \in Page,
             \/ ClickOnBadgePage(c, p) \/ ClickOnMe(c, p) \/ ClickOnProfile(c, p)
             \/ PublishRelays(c, p)
      PROVE  FollowsInv'
  <2>1. page[p].view \notin Contacts
    BY <1>5 DEF ClickOnBadgePage, ClickOnMe, ClickOnProfile, PublishRelays, Contacts
  <2>2. PICK edit \in Edit : Begin(c, p, edit)
    BY <1>5, ClicksBegin
  <2>3. page' = [q \in Page |-> IF q = p THEN page[q] ELSE [page[q] EXCEPT !.behind = TRUE]]
    BY <2>2, BegunIsClick
  <2>4. \A q \in Page : page'[q].view = page[q].view
    BY <2>3, Typed DEF PageState
  <2> QED
    BY <2>1, <2>4 DEF FollowsInv
<1>6. ASSUME NEW c \in Click, NEW r \in Relay,
             Confirm(c, r) \/ GiveUp(c, r) \/ ReachUnheard(c, r)
      PROVE  FollowsInv'
  BY <1>1, <1>6, RelaysBringNothing
<1>7. ASSUME NEW c \in Click,
             \/ Sign(c) \/ Decline(c) \/ NotSaved(c)
             \/ SavedOnBadgePage(c) \/ SavedOnMe(c) \/ SavedOnProfile(c)
             \/ RefreshBadgePage(c) \/ RefreshMe(c)
             \/ Followed(c) \/ RelaysPublished(c)
      PROVE  FollowsInv'
  BY <1>1, <1>7, HandlersBringNothing
<1> QED
  BY <1>2, <1>3, <1>4, <1>5, <1>6, <1>7 DEF Next

LEMMA InitHasFollows ==
  ASSUME Init, {} \notin Holders
  PROVE  FollowsInv
<1>1. PICK holders \in Holders :
        stored = [r \in Relay |-> IF r \in holders THEN [at |-> 0, entries |-> Existing]
                                                   ELSE NoVersion]
  BY DEF Init
<1> DEFINE first == [at |-> 0, entries |-> Existing]
<1>2. first \in Version /\ first # NoVersion
  BY ListAssumption, Numbers, NoVersionAssumption DEF Version
<1>3. PICK r \in holders : r \in Relay
  <2>1. holders # {} /\ holders \subseteq Relay
    BY ListAssumption
  <2> QED
    BY <2>1
<1>4. Held = {first}
  BY <1>1, <1>2, <1>3 DEF Held
<1>5. Known = {first}
  BY <1>4, NoClickIsClick DEF Init, Known
<1>6. (\A p \in Page : page[p].view \in Contacts) \/ (\A p \in Page : page[p].view \notin Contacts)
  <2>1. PICK list \in Lists :
          page \in [Page -> UNION {{Opened(v, offers, ahead) : offers \in Offers(v), ahead \in 0..MaxSkew}
                                   : v \in list}]
    BY DEF Init
  <2>2. \A p \in Page : page[p].view \in list
    BY <2>1 DEF Opened
  <2> QED
    BY <2>2 DEF Lists, Contacts, ProfileBadges, RelayList
<1> QED
  BY <1>4, <1>5, <1>6 DEF FollowsInv

\* Where a list of contacts was before the pages are used, following the
\* awardees preserves the follows, on every relay that has a list, as long as
\* the environment is calm.
THEOREM CalmFollowing ==
  ASSUME {} \notin Holders
  PROVE  Spec => [](calm => FollowsPreserved)
<1>1. Init => (calm => FollowsInv)
  BY InitHasFollows
<1>2. /\ SafeInv /\ (calm => CalmInv) /\ (calm => FollowsInv) /\ [Next]_vars
      => (calm => FollowsInv)'
  BY NextKeepsFollows, CalmStays
<1>3. FollowsInv => FollowsPreserved
  BY DEF FollowsInv, FollowsPreserved, Known
<1> QED
  BY Safety, CalmSafety, <1>1, <1>2, <1>3, PTL DEF Spec

=============================================================================
