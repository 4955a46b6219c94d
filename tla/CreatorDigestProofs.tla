------------------------- MODULE CreatorDigestProofs -------------------------
(***************************************************************************)
(* Proofs about CreatorDigest, for any number of ticks, creators, pages    *)
(* and failures.                                                           *)
(***************************************************************************)
EXTENDS CreatorDigest, WellFoundedInduction, FiniteSetTheorems, TLAPS

(* Who is between claim and release is the one in the row. *)
HolderInv(t) == pc[t] \in Holding => notified = t

(* A walk has every creator up to its cursor whose activity was there      *)
(* before it began, and nobody without activity; when it is over it has    *)
(* them all.                                                               *)
WalkInv(t) ==
  /\ \A c \in early : c <= after[t] => c \in Recipients(t)
  /\ Recipients(t) \subseteq Active
  /\ pc[t] \in {"claim"} \cup Holding => early \subseteq Recipients(t)

BoundInv(t) ==
  /\ Cardinality(collected[t]) <= AudienceCap
  /\ pc[t] \in {"idle", "read", "fetch"} => pages[t] < MaxPages

TickInv(t) == HolderInv(t) /\ WalkInv(t) /\ BoundInv(t)

IInv ==
  /\ TypeOK
  /\ early \subseteq Active
  /\ \A t \in Tick : TickInv(t)
  /\ NobodyLeftOut
  /\ NotifiedMeansSent

-----------------------------------------------------------------------------
(* The least and the greatest of some numbers. *)
LEMMA Least ==
  ASSUME NEW S \in SUBSET Nat, S # {}
  PROVE  \E m \in S : \A n \in S : m <= n
<1> DEFINE Less == OpToRel(<, Nat)
<1>1. IsWellFoundedOn(Less, Nat)
  BY NatLessThanWellFounded
<1>2. \A n, m \in Nat : n < m => <<n, m>> \in Less
  BY DEF OpToRel
<1> HIDE DEF Less
<1>3. PICK m \in S : \A n \in S : ~ (<<n, m>> \in Less)
  BY <1>1, WFMin, Zenon
<1>4. ASSUME NEW n \in S
      PROVE  m <= n
  <2>1. n \in Nat /\ m \in Nat /\ ~ (n < m)
    BY <1>2, <1>3, Zenon
  <2> QED
    BY <2>1
<1> QED
  BY <1>4

LEMMA Greatest ==
  ASSUME NEW N \in Nat, NEW S \in SUBSET (1..N), S # {}
  PROVE  /\ Max(S) \in S
         /\ \A n \in S : n <= Max(S)
<1> DEFINE Above == {k \in Nat : \A n \in S : n <= k}
<1>1. N \in Above /\ Above \in SUBSET Nat
  OBVIOUS
<1>2. PICK m \in Above : \A n \in Above : m <= n
  BY <1>1, Least
<1>3. m \in S
  <2>1. SUFFICES ASSUME m \notin S
                 PROVE  FALSE
    OBVIOUS
  <2>2. PICK s \in S : TRUE
    OBVIOUS
  <2>3. \A n \in S : n <= m - 1
    BY <2>1
  <2>4. m - 1 \in Nat
    BY <2>2, <2>3
  <2> QED
    BY <1>2, <2>3, <2>4
<1>4. \A n \in S : m >= n
  OBVIOUS
<1> QED
  BY <1>3, <1>4 DEF Max

-----------------------------------------------------------------------------
(* A page.  Its cursor, if it has one, is the last creator it scanned, and *)
(* nobody was skipped: a page without a cursor scanned all there were.     *)

LEMMA CandidatesAreFinite ==
  ASSUME NEW cursor
  PROVE  /\ Candidates(cursor) \in SUBSET (1..Creators)
         /\ IsFiniteSet(Candidates(cursor))
<1>1. Creators \in Nat /\ Candidates(cursor) \subseteq 1..Creators
  BY DigestAssumption DEF Candidates, Pubkey
<1>2. IsFiniteSet(1..Creators)
  BY <1>1, FS_Interval
<1> QED
  BY <1>1, <1>2, FS_Subset

LEMMA ScanHasNoGap ==
  ASSUME NEW cursor, NEW c \in Candidates(cursor), NEW d \in Scan(cursor), c <= d
  PROVE  c \in Scan(cursor)
<1> DEFINE Below(e) == {f \in Candidates(cursor) : f < e}
<1>1. /\ c \in Nat /\ d \in Nat /\ Candidates(cursor) \subseteq Nat
      /\ PageLimit \in Nat
  BY CandidatesAreFinite, DigestAssumption DEF Scan
<1>2. Below(c) \subseteq Below(d) /\ Below(d) \subseteq Candidates(cursor)
  BY <1>1
<1>3. IsFiniteSet(Below(d))
  BY <1>2, CandidatesAreFinite, FS_Subset
<1>4. /\ Cardinality(Below(c)) \in Nat /\ Cardinality(Below(d)) \in Nat
      /\ Cardinality(Below(c)) <= Cardinality(Below(d))
  BY <1>2, <1>3, FS_Subset, FS_CardinalityType
<1>5. Cardinality(Below(d)) < PageLimit
  BY DEF Scan
<1>6. Cardinality(Below(c)) < PageLimit
  BY <1>1, <1>4, <1>5
<1> QED
  BY <1>6 DEF Scan

LEMMA FirstIsScanned ==
  ASSUME NEW cursor, Candidates(cursor) # {}
  PROVE  Scan(cursor) # {}
<1>1. Candidates(cursor) \in SUBSET Nat
  BY CandidatesAreFinite
<1>2. PICK m \in Candidates(cursor) : \A n \in Candidates(cursor) : m <= n
  BY <1>1, Least
<1>3. {d \in Candidates(cursor) : d < m} = {}
  BY <1>1, <1>2
<1>4. Cardinality({}) = 0 /\ 0 < PageLimit
  BY FS_EmptySet, DigestAssumption
<1> QED
  BY <1>3, <1>4 DEF Scan

LEMMA NextIsLast ==
  ASSUME NEW cursor, Scan(cursor) # Candidates(cursor)
  PROVE  /\ NextAfter(cursor) \in Scan(cursor) /\ NextAfter(cursor) \in Pubkey
         /\ NextAfter(cursor) # NULL
<1>1. Scan(cursor) \subseteq Candidates(cursor)
  BY DEF Scan
<1>2. Scan(cursor) # {}
  BY <1>1, FirstIsScanned
<1>3. Creators \in Nat /\ Scan(cursor) \in SUBSET (1..Creators)
  BY <1>1, CandidatesAreFinite, DigestAssumption
<1>4. Max(Scan(cursor)) \in Scan(cursor)
  BY <1>2, <1>3, Greatest
<1> QED
  BY <1>3, <1>4, DigestAssumption DEF NextAfter, Pubkey

(* Up to its cursor, or to the end, a page has every active creator.       *)
LEMMA PageIsComplete ==
  ASSUME TypeOK, NEW cursor \in 0..Creators, NEW c \in Active, c > cursor,
         NextAfter(cursor) # NULL => c <= NextAfter(cursor)
  PROVE  <<c, "active">> \in Entries(cursor)
<1>1. c \in Pubkey /\ stats[c] = "active"
  BY DEF Active
<1>2. c \in Candidates(cursor)
  BY <1>1 DEF Candidates
<1>3. c \in Scan(cursor)
  <2>1. CASE Scan(cursor) = Candidates(cursor)
    BY <1>2, <2>1
  <2>2. CASE Scan(cursor) # Candidates(cursor)
    BY <1>2, <2>2, NextIsLast, ScanHasNoGap
  <2> QED
    BY <2>1, <2>2
<1>4. c \in {d \in Scan(cursor) : stats[d] # "private"}
  BY <1>1, <1>3
<1> QED
  BY <1>1, <1>4 DEF Entries

LEMMA PageIsTrue ==
  ASSUME TypeOK, NEW cursor
  PROVE  /\ Entries(cursor) \subseteq Entry
         /\ \A c : <<c, "active">> \in Entries(cursor) => c \in Active
<1>1. ASSUME NEW e \in Entries(cursor)
      PROVE  \E d \in Pubkey : e = <<d, stats[d]>> /\ stats[d] \in {"quiet", "active"}
  <2>1. PICK d \in Scan(cursor) : stats[d] # "private" /\ e = <<d, stats[d]>>
    BY DEF Entries
  <2>2. d \in Pubkey /\ stats[d] # "missing"
    BY DEF Scan, Candidates
  <2>3. stats[d] \in Kind
    BY <2>2 DEF TypeOK
  <2> QED
    BY <2>1, <2>2, <2>3 DEF Kind
<1>2. Entries(cursor) \subseteq Entry
  BY <1>1 DEF Entry
<1>3. \A c : <<c, "active">> \in Entries(cursor) => c \in Active
  BY <1>1 DEF Active
<1> QED
  BY <1>2, <1>3

LEMMA EntriesAreFinite ==
  ASSUME NEW S \in SUBSET Entry
  PROVE  IsFiniteSet(S) /\ Cardinality(S) \in Nat
<1>1. IsFiniteSet(Pubkey) /\ IsFiniteSet({"quiet", "active"})
  <2> Creators \in Int
    BY DigestAssumption
  <2>1. IsFiniteSet(1..Creators)
    BY FS_Interval
  <2>2. IsFiniteSet({"quiet"} \cup {"active"})
    BY FS_Singleton, FS_AddElement
  <2>3. {"quiet"} \cup {"active"} = {"quiet", "active"}
    OBVIOUS
  <2> QED
    BY <2>1, <2>2, <2>3 DEF Pubkey
<1>2. IsFiniteSet(Entry)
  BY <1>1, FS_Product DEF Entry
<1> QED
  BY <1>2, FS_Subset, FS_CardinalityType

(* A list is not longer than the entries it is made of. *)
LEMMA ListIsNotLonger ==
  ASSUME TypeOK, NEW t \in Tick, Cardinality(collected[t]) <= AudienceCap
  PROVE  Cardinality(Recipients(t)) \in 0..AudienceCap
<1> DEFINE entry == [c \in Recipients(t) |-> <<c, "active">>]
<1>1. collected[t] \in SUBSET Entry
  BY DEF TypeOK
<1>2. IsFiniteSet(collected[t]) /\ Cardinality(collected[t]) \in Nat
  BY <1>1, EntriesAreFinite
<1>3. entry \in Injection(Recipients(t), collected[t])
  <2>1. entry \in [Recipients(t) -> collected[t]]
    BY DEF Recipients
  <2>2. \A c, d \in Recipients(t) : entry[c] = entry[d] => c = d
    OBVIOUS
  <2> QED
    BY <2>1, <2>2 DEF Injection, IsInjective
<1>4. /\ IsFiniteSet(Recipients(t))
      /\ Cardinality(Recipients(t)) <= Cardinality(collected[t])
  BY <1>2, <1>3, FS_Injection
<1>5. Cardinality(Recipients(t)) \in Nat
  BY <1>4, FS_CardinalityType
<1> QED
  BY <1>2, <1>4, <1>5, DigestAssumption

-----------------------------------------------------------------------------
(* What a step of one tick means to the others: nothing, as long as no     *)
(* activity goes away and the claim of another is left alone.              *)

StaysWith(u) ==
  /\ pc'[u] = pc[u]
  /\ after'[u] = after[u] /\ pages'[u] = pages[u] /\ collected'[u] = collected[u]

LEMMA OthersKeep ==
  ASSUME IInv, NEW u \in Tick, StaysWith(u), UNCHANGED early,
         Active \subseteq Active',
         notified' = notified \/ notified \in {NULL} \cup (Tick \ {u})
  PROVE  TickInv(u)'
<1>1. TickInv(u)
  BY DEF IInv
<1>2. Recipients(u)' = Recipients(u)
  BY DEF Recipients, StaysWith
<1>3. HolderInv(u)'
  BY <1>1, DigestAssumption DEF TickInv, HolderInv, StaysWith
<1>4. WalkInv(u)'
  BY <1>1, <1>2 DEF TickInv, WalkInv, StaysWith
<1>5. BoundInv(u)'
  BY <1>1 DEF TickInv, BoundInv, StaysWith
<1> QED
  BY <1>3, <1>4, <1>5 DEF TickInv

LEMMA LeaveKeeps ==
  ASSUME IInv, NEW t \in Tick, Leave(t), UNCHANGED early
  PROVE  /\ pc' \in [Tick -> Label] /\ pc'[t] = "idle"
         /\ after' \in [Tick -> 0..Creators]
         /\ pages' \in [Tick -> 0..MaxPages]
         /\ collected' \in [Tick -> SUBSET Entry]
         /\ \A u \in Tick \ {t} : StaysWith(u)
         /\ TickInv(t)'
<1>1. /\ pc \in [Tick -> Label] /\ after \in [Tick -> 0..Creators]
      /\ pages \in [Tick -> 0..MaxPages] /\ collected \in [Tick -> SUBSET Entry]
      /\ early \subseteq Pubkey
  BY DEF IInv, TypeOK
<1>2. Creators \in Nat /\ MaxPages \in Nat \ {0} /\ AudienceCap \in Nat
  BY DigestAssumption
<1>3. pc' \in [Tick -> Label] /\ pc'[t] = "idle"
  BY <1>1 DEF Leave, Goto, Label
<1>4. after' \in [Tick -> 0..Creators] /\ after'[t] = 0
  BY <1>1, <1>2 DEF Leave
<1>5. pages' \in [Tick -> 0..MaxPages] /\ pages'[t] = 0
  BY <1>1, <1>2 DEF Leave
<1>6. collected' \in [Tick -> SUBSET Entry] /\ collected'[t] = {}
  BY <1>1 DEF Leave
<1>7. \A u \in Tick \ {t} : StaysWith(u)
  BY <1>1 DEF Leave, Goto, StaysWith
<1>8. TickInv(t)'
  <2>1. Recipients(t)' = {}
    BY <1>6 DEF Recipients
  <2>2. HolderInv(t)'
    BY <1>3 DEF HolderInv, Holding
  <2>3. \A c \in early' : ~ (c <= after'[t])
    BY <1>1, <1>2, <1>4 DEF Pubkey
  <2>4. WalkInv(t)'
    BY <1>3, <2>1, <2>3 DEF WalkInv, Holding
  <2>5. BoundInv(t)'
    BY <1>2, <1>5, <1>6, FS_EmptySet DEF BoundInv
  <2> QED
    BY <2>2, <2>4, <2>5 DEF TickInv
<1> QED
  BY <1>3, <1>4, <1>5, <1>6, <1>7, <1>8

(* A step that changes at most the label of one tick. *)
LEMMA GotoKeeps ==
  ASSUME IInv, NEW t \in Tick, NEW there \in Label, Goto(t, there),
         UNCHANGED <<stats, early, walk>>
  PROVE  /\ pc' \in [Tick -> Label] /\ pc'[t] = there
         /\ after' \in [Tick -> 0..Creators]
         /\ pages' \in [Tick -> 0..MaxPages]
         /\ collected' \in [Tick -> SUBSET Entry]
         /\ \A u \in Tick \ {t} : StaysWith(u)
         /\ Recipients(t)' = Recipients(t) /\ Active' = Active
<1>1. /\ pc \in [Tick -> Label] /\ after \in [Tick -> 0..Creators]
      /\ pages \in [Tick -> 0..MaxPages] /\ collected \in [Tick -> SUBSET Entry]
  BY DEF IInv, TypeOK
<1>2. pc' \in [Tick -> Label] /\ pc'[t] = there
  BY <1>1 DEF Goto
<1> QED
  BY <1>1, <1>2 DEF Goto, walk, StaysWith, Recipients, Active

LEMMA StepKeeps ==
  ASSUME IInv, NEW t \in Tick, TypeOK', UNCHANGED <<stats, early>>,
         TickInv(t)', \A u \in Tick \ {t} : StaysWith(u),
         notified' = notified \/ (notified \in {NULL, t} /\ notified' \in {NULL, t}),
         NobodyLeftOut', NotifiedMeansSent'
  PROVE  IInv'
<1>1. Active' = Active /\ Active \subseteq Active'
  BY DEF Active
<1>2. (early \subseteq Active)'
  BY <1>1 DEF IInv
<1>3. ASSUME NEW u \in Tick
      PROVE  TickInv(u)'
  <2>1. CASE u = t
    BY <2>1
  <2>2. CASE u # t
    BY <1>1, <2>2, OthersKeep
  <2> QED
    BY <2>1, <2>2
<1> QED
  BY <1>2, <1>3 DEF IInv

(* The day is left alone: its campaign stays true, and its mark too if the *)
(* step's tick held no claim, or still holds it, or is gone with it.       *)
LEMMA DayStays ==
  ASSUME IInv, NEW t \in Tick, UNCHANGED <<stats, early, day>>,
         \A u \in Tick \ {t} : StaysWith(u),
         pc[t] \in Holding => pc'[t] \in Holding \/ lost' # {},
         lost \subseteq lost'
  PROVE  NobodyLeftOut' /\ NotifiedMeansSent'
<1>1. NobodyLeftOut'
  BY DEF IInv, NobodyLeftOut, Active, day
<1>2. NotifiedMeansSent'
  BY DEF IInv, TypeOK, NotifiedMeansSent, StaysWith, day
<1> QED
  BY <1>1, <1>2

LEMMA WaitingKeeps ==
  ASSUME IInv, NEW t \in Tick, Begin(t) \/ ReadNotified(t) \/ ReadError(t)
  PROVE  IInv'
<1>1. PICK there \in {"idle", "read", "fetch"} : Goto(t, there)
  BY DEF Begin, ReadNotified, ReadError
<1>2. /\ pc[t] \in {"idle", "read"}
      /\ UNCHANGED <<stats, early, day, walk, lost>> /\ failures' \in 0..MaxFailures
  BY DigestAssumption DEF IInv, TypeOK, Begin, ReadNotified, ReadError, Fail, At
<1>3. /\ there \in Label /\ there \notin {"claim"} \cup Holding
      /\ pc[t] \notin {"claim"} \cup Holding
  BY <1>2 DEF Label, Holding
<1>4. /\ pc' \in [Tick -> Label] /\ pc'[t] = there
      /\ after' \in [Tick -> 0..Creators]
      /\ pages' \in [Tick -> 0..MaxPages]
      /\ collected' \in [Tick -> SUBSET Entry]
      /\ \A u \in Tick \ {t} : StaysWith(u)
      /\ Recipients(t)' = Recipients(t) /\ Active' = Active
  BY <1>1, <1>2, <1>3, GotoKeeps
<1>5. TypeOK'
  BY <1>2, <1>4 DEF IInv, TypeOK, day
<1>6. TickInv(t)'
  <2>1. TickInv(t)
    BY DEF IInv
  <2>2. HolderInv(t)' /\ WalkInv(t)'
    BY <1>2, <1>3, <1>4, <2>1 DEF TickInv, HolderInv, WalkInv, walk
  <2>3. BoundInv(t)'
    BY <1>2, <2>1 DEF TickInv, BoundInv, walk
  <2> QED
    BY <2>2, <2>3 DEF TickInv
<1>7. NobodyLeftOut' /\ NotifiedMeansSent'
  BY <1>2, <1>3, <1>4, DayStays
<1> QED
  BY <1>2, <1>4, <1>5, <1>6, <1>7, StepKeeps DEF day

(* The digest is over for a tick that held no claim, or it is gone. *)
LEMMA LeavingKeeps ==
  ASSUME IInv, NEW t \in Tick, Leave(t), UNCHANGED <<stats, early, day>>,
         pc[t] \in Holding => lost' # {},
         lost \subseteq lost', lost' \subseteq Tick, failures' \in 0..MaxFailures
  PROVE  IInv'
<1>1. /\ pc' \in [Tick -> Label] /\ pc'[t] = "idle"
      /\ after' \in [Tick -> 0..Creators]
      /\ pages' \in [Tick -> 0..MaxPages]
      /\ collected' \in [Tick -> SUBSET Entry]
      /\ \A u \in Tick \ {t} : StaysWith(u)
      /\ TickInv(t)'
  BY LeaveKeeps
<1>2. TypeOK'
  BY <1>1 DEF IInv, TypeOK, day
<1>3. NobodyLeftOut' /\ NotifiedMeansSent'
  BY <1>1, DayStays
<1> QED
  BY <1>1, <1>2, <1>3, StepKeeps DEF day

LEMMA StopKeeps ==
  ASSUME IInv, NEW t \in Tick, Stop(t)
  PROVE  IInv'
<1>1. /\ Leave(t) /\ UNCHANGED <<stats, early, day>>
      /\ lost' = IF pc[t] \in Holding THEN lost \cup {t} ELSE lost
  BY DEF Stop
<1>2. failures' \in 0..MaxFailures /\ lost \subseteq Tick
  BY DigestAssumption DEF IInv, TypeOK, Stop, Fail
<1> QED
  BY <1>1, <1>2, LeavingKeeps

LEMMA FetchErrorKeeps ==
  ASSUME IInv, NEW t \in Tick, FetchError(t)
  PROVE  IInv'
<1>1. Leave(t) /\ UNCHANGED <<stats, early, day, lost>> /\ pc[t] \notin Holding
  BY DEF FetchError, At, Holding
<1>2. failures' \in 0..MaxFailures /\ lost \subseteq Tick
  BY DigestAssumption DEF IInv, TypeOK, FetchError, Fail
<1> QED
  BY <1>1, <1>2, LeavingKeeps

(* A page is added to the walk: what it has up to the new cursor is what   *)
(* it had up to the old one, and what the page has.                        *)
LEMMA FetchPageKeeps ==
  ASSUME IInv, NEW t \in Tick, FetchPage(t)
  PROVE  IInv'
<1> DEFINE entries == Entries(after[t])
           next    == NextAfter(after[t])
           found   == collected[t] \cup entries
<1>1. /\ pc[t] = "fetch" /\ UNCHANGED <<stats, early, day, failures, lost>>
      /\ pc[t] \notin Holding
  BY DEF FetchPage, At, Holding
<1>2. /\ pc \in [Tick -> Label] /\ after \in [Tick -> 0..Creators]
      /\ pages \in [Tick -> 0..MaxPages] /\ collected \in [Tick -> SUBSET Entry]
      /\ lost \subseteq Tick /\ failures \in 0..MaxFailures /\ early \subseteq Active
      /\ Active \subseteq Pubkey /\ Active' = Active
  BY <1>1 DEF IInv, TypeOK, Active
<1>3. CASE WalkFails(found, next, pages[t] + 1)
  <2>1. Leave(t)
    BY <1>3 DEF FetchPage
  <2> QED
    BY <1>1, <1>2, <2>1, LeavingKeeps
<1>4. CASE ~ WalkFails(found, next, pages[t] + 1)
  <2>1. /\ collected' = [collected EXCEPT ![t] = found]
        /\ pages' = [pages EXCEPT ![t] = @ + 1]
        /\ IF next = NULL THEN Goto(t, "claim") /\ UNCHANGED after
                          ELSE after' = [after EXCEPT ![t] = next] /\ UNCHANGED pc
    BY <1>4 DEF FetchPage, WalkEnds
  <2>2. /\ ~ (Cardinality(found) > AudienceCap)
        /\ next = NULL \/ ~ (pages[t] + 1 >= MaxPages)
    BY <1>4 DEF WalkFails
  <2>3. next # NULL => next \in Pubkey
    BY NextIsLast DEF NextAfter
  <2>4. /\ entries \subseteq Entry
        /\ \A c : <<c, "active">> \in entries => c \in Active
    BY PageIsTrue DEF IInv
  <2>5. ASSUME NEW c \in Active, c > after[t], next # NULL => c <= next
        PROVE  <<c, "active">> \in entries
    BY <1>2, <2>5, PageIsComplete DEF IInv
  <2> HIDE DEF entries, next
  <2>6. /\ found \in SUBSET Entry
        /\ Cardinality(found) \in Nat
        /\ Cardinality(found) <= AudienceCap
    BY <1>2, <2>2, <2>4, EntriesAreFinite, DigestAssumption
  <2>7. /\ pages[t] < MaxPages /\ pages[t] \in Nat /\ MaxPages \in Nat
        /\ after[t] \in 0..Creators /\ Creators \in Nat
    BY <1>1, <1>2, DigestAssumption DEF IInv, TickInv, BoundInv
  <2>8. /\ collected' \in [Tick -> SUBSET Entry] /\ collected'[t] = found
        /\ pages' \in [Tick -> 0..MaxPages] /\ pages'[t] = pages[t] + 1
    BY <1>2, <2>1, <2>6, <2>7
  <2>9. /\ after' \in [Tick -> 0..Creators] /\ pc' \in [Tick -> Label]
        /\ next = NULL => after'[t] = after[t] /\ pc'[t] = "claim"
        /\ next # NULL => after'[t] = next /\ pc'[t] = "fetch"
    BY <1>1, <1>2, <2>1, <2>3, <2>7 DEF Goto, Label, Pubkey
  <2>10. \A u \in Tick \ {t} : StaysWith(u)
    BY <1>2, <2>1 DEF Goto, StaysWith
  <2>11. TypeOK'
    BY <1>1, <2>8, <2>9 DEF IInv, TypeOK, day
  <2>12. HolderInv(t)' /\ BoundInv(t)'
    BY <2>2, <2>6, <2>7, <2>8, <2>9 DEF HolderInv, BoundInv, Holding
  <2>13. Recipients(t)' = {c \in Pubkey : <<c, "active">> \in found}
    BY <2>8 DEF Recipients
  <2>14. \A c \in early : c <= after[t] => <<c, "active">> \in found
    BY <1>2 DEF IInv, TickInv, WalkInv, Recipients
  <2>15. \A c \in early : (next # NULL => c <= next) => <<c, "active">> \in found
    <3>1. SUFFICES ASSUME NEW c \in early, next # NULL => c <= next
                   PROVE  <<c, "active">> \in found
      OBVIOUS
    <3>2. c \in Active /\ c \in Nat
      BY <1>2, <2>7 DEF Pubkey
    <3>3. CASE c <= after[t]
      BY <2>14, <3>3
    <3>4. CASE c > after[t]
      BY <2>5, <3>1, <3>2, <3>4
    <3> QED
      BY <2>7, <3>2, <3>3, <3>4
  <2>16. Recipients(t)' \subseteq Active'
    BY <1>2, <2>4, <2>13 DEF IInv, TickInv, WalkInv, Recipients
  <2>17. WalkInv(t)'
    <3>1. CASE next = NULL
      BY <1>1, <1>2, <2>13, <2>15, <2>16, <3>1 DEF WalkInv
    <3>2. CASE next # NULL
      BY <1>1, <1>2, <2>9, <2>13, <2>15, <2>16, <3>2 DEF WalkInv, Holding
    <3> QED
      BY <3>1, <3>2
  <2>18. NobodyLeftOut' /\ NotifiedMeansSent'
    BY <1>1, <2>10, DayStays
  <2> QED
    BY <1>1, <2>10, <2>11, <2>12, <2>17, <2>18, StepKeeps DEF TickInv, day
<1> QED
  BY <1>3, <1>4

(* The claim: of a day that is not claimed, and with a list that is whole. *)
LEMMA ClaimDayKeeps ==
  ASSUME IInv, NEW t \in Tick, ClaimDay(t)
  PROVE  IInv'
<1>1. /\ pc[t] = "claim" /\ UNCHANGED <<stats, early, campaign, failures, lost>>
      /\ pc[t] \notin Holding
  BY DEF ClaimDay, At, Holding
<1>2. lost \subseteq Tick /\ failures \in 0..MaxFailures /\ TickInv(t)
  BY DEF IInv, TypeOK
<1>3. CASE notified # NULL
  BY <1>1, <1>2, <1>3, LeavingKeeps DEF ClaimDay, day
<1>4. CASE notified = NULL
  <2>1. /\ notified' = t /\ count' = Cardinality(Recipients(t))
        /\ IF Recipients(t) = {} THEN Leave(t) ELSE Goto(t, "create") /\ UNCHANGED walk
    BY <1>4 DEF ClaimDay
  <2>2. count' \in 0..AudienceCap
    BY <1>2, <2>1, ListIsNotLonger DEF IInv, TickInv, BoundInv
  <2>3. NobodyLeftOut'
    BY <1>1 DEF IInv, NobodyLeftOut, Active
  <2>4. CASE Recipients(t) = {}
    <3>1. /\ pc' \in [Tick -> Label]
          /\ after' \in [Tick -> 0..Creators]
          /\ pages' \in [Tick -> 0..MaxPages]
          /\ collected' \in [Tick -> SUBSET Entry]
          /\ \A u \in Tick \ {t} : StaysWith(u)
          /\ TickInv(t)'
      BY <1>1, <2>1, <2>4, LeaveKeeps
    <3>2. TypeOK'
      BY <1>1, <2>1, <2>2, <3>1 DEF IInv, TypeOK
    <3>3. NotifiedMeansSent'
      BY <2>1, <2>4, FS_EmptySet DEF NotifiedMeansSent
    <3> QED
      BY <1>1, <1>4, <2>1, <2>3, <3>1, <3>2, <3>3, StepKeeps
  <2>5. CASE Recipients(t) # {}
    <3>1. /\ pc' \in [Tick -> Label] /\ pc'[t] = "create"
          /\ after' \in [Tick -> 0..Creators]
          /\ pages' \in [Tick -> 0..MaxPages]
          /\ collected' \in [Tick -> SUBSET Entry]
          /\ \A u \in Tick \ {t} : StaysWith(u)
          /\ Recipients(t)' = Recipients(t) /\ Active' = Active
      BY <1>1, <2>1, <2>5, GotoKeeps DEF Label, Holding
    <3>2. TypeOK'
      BY <1>1, <2>1, <2>2, <3>1 DEF IInv, TypeOK
    <3>3. NotifiedMeansSent'
      BY <2>1, <3>1 DEF NotifiedMeansSent, Holding
    <3>4. HolderInv(t)' /\ WalkInv(t)'
      BY <1>1, <1>2, <2>1, <2>5, <3>1 DEF TickInv, HolderInv, WalkInv, walk
    <3>5. BoundInv(t)'
      BY <1>2, <2>1, <2>5, <3>1 DEF TickInv, BoundInv, walk
    <3> QED
      BY <1>1, <1>4, <2>1, <2>3, <3>1, <3>2, <3>3, <3>4, <3>5, StepKeeps DEF TickInv
  <2> QED
    BY <2>4, <2>5
<1> QED
  BY <1>3, <1>4

(* The campaign: that of the first tick whose list arrived. *)
LEMMA KeptIsWhole ==
  ASSUME IInv, NEW t \in Tick, pc[t] = "create"
  PROVE  /\ Kept(Recipients(t)) \in (SUBSET Pubkey) \cup {NULL}
         /\ Kept(Recipients(t)) # NULL
         /\ early \subseteq Kept(Recipients(t)) /\ Kept(Recipients(t)) \subseteq Active
<1>1. WalkInv(t)
  BY DEF IInv, TickInv
<1>2. /\ Recipients(t) \in SUBSET Pubkey /\ early \subseteq Recipients(t)
      /\ Recipients(t) \subseteq Active
  BY <1>1 DEF WalkInv, Recipients, Holding
<1>3. /\ campaign \in (SUBSET Pubkey) \cup {NULL}
      /\ campaign # NULL => early \subseteq campaign /\ campaign \subseteq Active
  BY DEF IInv, TypeOK, NobodyLeftOut
<1>4. Recipients(t) # NULL
  BY <1>2, DigestAssumption
<1> QED
  BY <1>2, <1>3, <1>4 DEF Kept

LEMMA CreateOkKeeps ==
  ASSUME IInv, NEW t \in Tick, CreateOk(t)
  PROVE  IInv'
<1>1. /\ pc[t] = "create" /\ Leave(t) /\ campaign' = Kept(Recipients(t))
      /\ UNCHANGED <<stats, early, notified, count, failures, lost>>
  BY DEF CreateOk, At
<1>2. /\ campaign' \in (SUBSET Pubkey) \cup {NULL} /\ campaign' # NULL
      /\ early \subseteq campaign' /\ campaign' \subseteq Active
  BY <1>1, KeptIsWhole
<1>3. /\ pc' \in [Tick -> Label]
      /\ after' \in [Tick -> 0..Creators]
      /\ pages' \in [Tick -> 0..MaxPages]
      /\ collected' \in [Tick -> SUBSET Entry]
      /\ \A u \in Tick \ {t} : StaysWith(u)
      /\ TickInv(t)'
  BY <1>1, LeaveKeeps
<1>4. TypeOK'
  BY <1>1, <1>2, <1>3 DEF IInv, TypeOK
<1>5. NobodyLeftOut' /\ NotifiedMeansSent'
  BY <1>1, <1>2 DEF NobodyLeftOut, NotifiedMeansSent, Active
<1> QED
  BY <1>1, <1>3, <1>4, <1>5, StepKeeps

LEMMA CreateErrorKeeps ==
  ASSUME IInv, NEW t \in Tick, CreateError(t)
  PROVE  IInv'
<1>1. /\ pc[t] = "create" /\ Goto(t, "release")
      /\ campaign' \in {campaign, Kept(Recipients(t))}
      /\ UNCHANGED <<stats, early, notified, count, walk, lost>>
      /\ failures' \in 0..MaxFailures
  BY DigestAssumption DEF CreateError, At, Fail, IInv, TypeOK
<1>2. /\ campaign' \in (SUBSET Pubkey) \cup {NULL}
      /\ campaign' # NULL => early \subseteq campaign' /\ campaign' \subseteq Active
      /\ campaign # NULL => campaign' # NULL
  BY <1>1, KeptIsWhole DEF IInv, TypeOK, NobodyLeftOut
<1>3. /\ pc' \in [Tick -> Label] /\ pc'[t] = "release"
      /\ after' \in [Tick -> 0..Creators]
      /\ pages' \in [Tick -> 0..MaxPages]
      /\ collected' \in [Tick -> SUBSET Entry]
      /\ \A u \in Tick \ {t} : StaysWith(u)
      /\ Recipients(t)' = Recipients(t) /\ Active' = Active
  BY <1>1, GotoKeeps DEF Label, Holding
<1>4. TypeOK'
  BY <1>1, <1>2, <1>3 DEF IInv, TypeOK
<1>5. TickInv(t)'
  <2>1. TickInv(t)
    BY DEF IInv
  <2>2. HolderInv(t)' /\ WalkInv(t)'
    BY <1>1, <1>3, <2>1 DEF TickInv, HolderInv, WalkInv, Holding, walk
  <2>3. BoundInv(t)'
    BY <1>1, <1>3, <2>1 DEF TickInv, BoundInv, walk
  <2> QED
    BY <2>2, <2>3 DEF TickInv
<1>6. NobodyLeftOut'
  BY <1>1, <1>2, <1>3 DEF NobodyLeftOut
<1>7. NotifiedMeansSent'
  BY <1>1, <1>2, <1>3 DEF IInv, TypeOK, NotifiedMeansSent, StaysWith, Holding
<1> QED
  BY <1>1, <1>3, <1>4, <1>5, <1>6, <1>7, StepKeeps

(* The claim given back is the tick's own. *)
LEMMA ReleaseKeeps ==
  ASSUME IInv, NEW t \in Tick, Release(t)
  PROVE  IInv'
<1>1. /\ pc[t] = "release" /\ Leave(t)
      /\ notified' = IF notified = t THEN NULL ELSE notified
      /\ UNCHANGED <<stats, early, count, campaign, failures, lost>>
  BY DEF Release, At
<1>2. notified = t
  BY <1>1 DEF IInv, TickInv, HolderInv, Holding
<1>3. /\ pc' \in [Tick -> Label]
      /\ after' \in [Tick -> 0..Creators]
      /\ pages' \in [Tick -> 0..MaxPages]
      /\ collected' \in [Tick -> SUBSET Entry]
      /\ \A u \in Tick \ {t} : StaysWith(u)
      /\ TickInv(t)'
  BY <1>1, LeaveKeeps
<1>4. TypeOK'
  BY <1>1, <1>2, <1>3 DEF IInv, TypeOK
<1>5. NobodyLeftOut' /\ NotifiedMeansSent'
  BY <1>1, <1>2 DEF IInv, NobodyLeftOut, NotifiedMeansSent, Active
<1> QED
  BY <1>1, <1>2, <1>3, <1>4, <1>5, StepKeeps

(* Activity only grows: no list becomes untrue. *)
LEMMA AggregateKeeps ==
  ASSUME IInv, NEW c \in Pubkey, Aggregate(c)
  PROVE  IInv'
<1>1. /\ UNCHANGED <<early, day, pc, walk, failures, lost>>
      /\ stats[c] # "active" /\ \E k \in Kind : stats' = [stats EXCEPT ![c] = k]
  BY DEF Aggregate, Kind
<1>2. stats \in [Pubkey -> Kind]
  BY DEF IInv, TypeOK
<1>3. stats' \in [Pubkey -> Kind] /\ Active \subseteq Active'
  BY <1>1, <1>2 DEF Active
<1>4. TypeOK'
  BY <1>1, <1>3 DEF IInv, TypeOK, day, walk
<1>5. ASSUME NEW u \in Tick
      PROVE  TickInv(u)'
  BY <1>1, <1>3, OthersKeep DEF StaysWith, day, walk
<1>6. (early \subseteq Active)' /\ NobodyLeftOut' /\ NotifiedMeansSent'
  BY <1>1, <1>3 DEF IInv, NobodyLeftOut, NotifiedMeansSent, day
<1> QED
  BY <1>4, <1>5, <1>6 DEF IInv

-----------------------------------------------------------------------------
\* The invariant of the day's digest, for every way its ticks overlap and fail.
THEOREM Invariant == Spec => []IInv
<1>1. Init => IInv
  <2> SUFFICES ASSUME Init
               PROVE  IInv
    OBVIOUS
  <2>1. TypeOK
    BY DigestAssumption DEF Init, TypeOK, Label, Active
  <2>2. early \subseteq Active /\ NobodyLeftOut /\ NotifiedMeansSent
    BY DEF Init, NobodyLeftOut, NotifiedMeansSent
  <2>3. ASSUME NEW t \in Tick
        PROVE  TickInv(t)
    <3>1. /\ pc[t] = "idle" /\ after[t] = 0 /\ pages[t] = 0 /\ collected[t] = {}
          /\ early \subseteq Pubkey
      BY DEF Init, Active
    <3>2. AudienceCap \in Nat /\ MaxPages \in Nat \ {0} /\ Creators \in Nat
      BY DigestAssumption
    <3>3. HolderInv(t) /\ BoundInv(t)
      BY <3>1, <3>2, FS_EmptySet DEF HolderInv, BoundInv, Holding
    <3>4. \A c \in early : ~ (c <= after[t])
      BY <3>1, <3>2 DEF Pubkey
    <3>5. WalkInv(t)
      BY <3>1, <3>4 DEF WalkInv, Recipients, Holding
    <3> QED
      BY <3>3, <3>5 DEF TickInv
  <2> QED
    BY <2>1, <2>2, <2>3 DEF IInv
<1>2. IInv /\ [Next]_vars => IInv'
  <2> SUFFICES ASSUME IInv, [Next]_vars
               PROVE  IInv'
    OBVIOUS
  <2>1. CASE UNCHANGED vars
    <3>1. UNCHANGED <<stats, early, day, pc, walk, failures, lost>>
      BY <2>1 DEF vars, day, walk
    <3>2. TypeOK' /\ (early \subseteq Active)' /\ NobodyLeftOut' /\ NotifiedMeansSent'
      BY <3>1 DEF IInv, TypeOK, Active, NobodyLeftOut, NotifiedMeansSent, day, walk
    <3>3. ASSUME NEW u \in Tick
          PROVE  TickInv(u)'
      BY <3>1, OthersKeep DEF StaysWith, Active, day, walk
    <3> QED
      BY <3>2, <3>3 DEF IInv
  <2>2. CASE \E t \in Tick :
               Progress(t) \/ ReadError(t) \/ FetchError(t) \/ CreateError(t) \/ Stop(t)
    <3>1. PICK t \in Tick :
            Progress(t) \/ ReadError(t) \/ FetchError(t) \/ CreateError(t) \/ Stop(t)
      BY <2>2
    <3>2. CASE Begin(t) \/ ReadNotified(t) \/ ReadError(t)
      BY <3>2, WaitingKeeps
    <3>3. CASE FetchPage(t) \/ FetchError(t)
      BY <3>3, FetchPageKeeps, FetchErrorKeeps
    <3>4. CASE ClaimDay(t) \/ Release(t) \/ Stop(t)
      BY <3>4, ClaimDayKeeps, ReleaseKeeps, StopKeeps
    <3>5. CASE CreateOk(t) \/ CreateError(t)
      BY <3>5, CreateOkKeeps, CreateErrorKeeps
    <3> QED
      BY <3>1, <3>2, <3>3, <3>4, <3>5 DEF Progress
  <2>3. CASE \E c \in Pubkey : Aggregate(c)
    BY <2>3, AggregateKeeps
  <2> QED
    BY <2>1, <2>2, <2>3 DEF Next
<1> QED
  BY <1>1, <1>2, PTL DEF Spec

\* The day's row, its campaign and every walk keep their types: no list is longer
\* than the audience cap, and no walk reads more pages than its bound.
THEOREM TypeCorrect == Spec => []TypeOK
<1>1. IInv => TypeOK
  BY DEF IInv
<1> QED
  BY Invariant, <1>1, PTL

\* Whatever the sizes of the day, a page, the cap and the bound: a campaign has
\* everyone who was active before the day's ticks, and nobody without activity.
THEOREM DigestIsWhole == Spec => []NobodyLeftOut
<1>1. IInv => NobodyLeftOut
  BY DEF IInv
<1> QED
  BY Invariant, <1>1, PTL

\* A day marked as notified by a tick that is over has its campaign or had nobody
\* to tell, unless a tick was gone while it held the claim.
THEOREM MarkIsTrue == Spec => []NotifiedMeansSent
<1>1. IInv => NotifiedMeansSent
  BY DEF IInv
<1> QED
  BY Invariant, <1>1, PTL

\* A claim is only given back by the tick that made it, and a claimed day is not
\* claimed again.
THEOREM ClaimStays == Spec => MarkStays
<1>1. ASSUME IInv, [Next]_vars, notified # NULL /\ pc[notified] # "release"
      PROVE  notified' = notified
  <2>1. CASE UNCHANGED vars
    BY <2>1 DEF vars, day
  <2>2. ASSUME NEW c \in Pubkey, Aggregate(c)
        PROVE  notified' = notified
    BY <2>2 DEF Aggregate, day
  <2>3. ASSUME NEW t \in Tick, Release(t)
        PROVE  notified' = notified
    BY <1>1, <2>3 DEF IInv, TickInv, HolderInv, Release, At, Holding
  <2>4. ASSUME NEW t \in Tick, ClaimDay(t)
        PROVE  notified' = notified
    BY <1>1, <2>4 DEF ClaimDay
  <2>5. ASSUME NEW t \in Tick,
               \/ Begin(t) \/ ReadNotified(t) \/ ReadError(t) \/ FetchPage(t)
               \/ FetchError(t) \/ CreateOk(t) \/ CreateError(t) \/ Stop(t)
        PROVE  notified' = notified
    BY <2>5 DEF Begin, ReadNotified, ReadError, FetchPage, FetchError, CreateOk,
       CreateError, Stop, day
  <2> QED
    BY <1>1, <2>1, <2>2, <2>3, <2>4, <2>5 DEF Next, Progress
<1> QED
  BY Invariant, <1>1, PTL DEF MarkStays, Spec
=============================================================================
