------------------------ MODULE PushNotificationProofs ------------------------
(***************************************************************************)
(* Proofs about PushNotification, for any number of ticks and failures.    *)
(***************************************************************************)
EXTENDS PushNotification, TLAPS

USE PushAssumption DEF Campaigns, Holding, Label

LEMMA BeginKeeps ==
  ASSUME IInv, NEW t \in Tick, Begin(t)
  PROVE  IInv'
<1> USE DEF IInv, ExtraClaimsAreRetries, Begin, Goto, At
<1>1. TypeOK'
  BY DEF TypeOK, HolderInv
<1>2. ASSUME NEW u \in Tick
      PROVE  HolderInv(u)'
  BY DEF TypeOK, HolderInv
<1>3. claims' <= failures' + 1 /\ (notified' = NULL => claims' <= failures')
  BY DEF TypeOK, HolderInv
<1>4. MarkedMeansCreated'
  BY DEF TypeOK, HolderInv, MarkedMeansCreated
<1> QED
  BY <1>1, <1>2, <1>3, <1>4

LEMMA ClaimKeeps ==
  ASSUME IInv, NEW t \in Tick, Claim(t)
  PROVE  IInv'
<1> USE DEF IInv, ExtraClaimsAreRetries, Claim, Goto, At
<1>1. TypeOK'
  BY DEF TypeOK, HolderInv
<1>2. ASSUME NEW u \in Tick
      PROVE  HolderInv(u)'
  BY DEF TypeOK, HolderInv
<1>3. claims' <= failures' + 1 /\ (notified' = NULL => claims' <= failures')
  BY DEF TypeOK, HolderInv
<1>4. MarkedMeansCreated'
  BY DEF TypeOK, HolderInv, MarkedMeansCreated
<1> QED
  BY <1>1, <1>2, <1>3, <1>4

LEMMA CreateOkKeeps ==
  ASSUME IInv, NEW t \in Tick, NEW c \in Campaigns, CreateOk(t, c)
  PROVE  IInv'
<1> USE DEF IInv, ExtraClaimsAreRetries, CreateOk, Step, AfterCreate, Goto, At
<1>1. TypeOK'
  BY DEF TypeOK, HolderInv
<1>2. ASSUME NEW u \in Tick
      PROVE  HolderInv(u)'
  <2>1. CASE u = t
    BY <2>1 DEF TypeOK, HolderInv
  <2>2. CASE u # t
    BY <2>2 DEF TypeOK, HolderInv
  <2> QED
    BY <2>1, <2>2
<1>3. claims' <= failures' + 1 /\ (notified' = NULL => claims' <= failures')
  BY DEF TypeOK, HolderInv
<1>4. MarkedMeansCreated'
  <2>1. notified' = t
    BY DEF TypeOK, HolderInv
  <2>2. CASE pc'[t] \in Holding
    BY <2>1, <2>2 DEF MarkedMeansCreated
  <2>3. CASE pc'[t] \notin Holding
    <3>1. "winner" \in created' /\ "broadcast" \in created'
      BY <2>3 DEF TypeOK, HolderInv
    <3>2. created' = Campaigns
      BY <1>1, <3>1 DEF TypeOK
    <3> QED
      BY <3>2 DEF MarkedMeansCreated
  <2> QED
    BY <2>2, <2>3
<1> QED
  BY <1>1, <1>2, <1>3, <1>4

LEMMA CreateErrorKeeps ==
  ASSUME IInv, NEW t \in Tick, NEW c \in Campaigns, CreateError(t, c)
  PROVE  IInv'
<1>1. CASE c = "winner"
  BY <1>1
  DEF IInv, ExtraClaimsAreRetries, TypeOK, HolderInv, MarkedMeansCreated, CreateError, Step, AfterCreate, Goto, At
<1>2. CASE c = "broadcast"
  BY <1>2
  DEF IInv, ExtraClaimsAreRetries, TypeOK, HolderInv, MarkedMeansCreated, CreateError, Step, AfterCreate, Goto, At
<1> QED
  BY <1>1, <1>2

LEMMA ReleaseKeeps ==
  ASSUME IInv, NEW t \in Tick, Release(t)
  PROVE  IInv'
<1> USE DEF IInv, ExtraClaimsAreRetries, Release, Goto, At
<1>1. TypeOK'
  BY DEF TypeOK, HolderInv
<1>2. ASSUME NEW u \in Tick
      PROVE  HolderInv(u)'
  BY DEF TypeOK, HolderInv
<1>3. claims' <= failures' + 1 /\ (notified' = NULL => claims' <= failures')
  BY DEF TypeOK, HolderInv
<1>4. MarkedMeansCreated'
  BY DEF TypeOK, HolderInv, MarkedMeansCreated
<1> QED
  BY <1>1, <1>2, <1>3, <1>4

LEMMA StopKeeps ==
  ASSUME IInv, NEW t \in Tick, Stop(t)
  PROVE  IInv'
<1> USE DEF IInv, ExtraClaimsAreRetries, Stop, Goto, At
<1>1. TypeOK'
  BY DEF TypeOK, HolderInv
<1>2. ASSUME NEW u \in Tick
      PROVE  HolderInv(u)'
  BY DEF TypeOK, HolderInv
<1>3. claims' <= failures' + 1 /\ (notified' = NULL => claims' <= failures')
  BY DEF TypeOK, HolderInv
<1>4. MarkedMeansCreated'
  BY DEF TypeOK, HolderInv, MarkedMeansCreated
<1> QED
  BY <1>1, <1>2, <1>3, <1>4

\* The invariant of the ticks that notify divine-engagement of one run.
THEOREM Invariant == Spec => []IInv
<1>1. Init => IInv
  <2> SUFFICES ASSUME Init
               PROVE  IInv
    OBVIOUS
  <2>1. TypeOK
    BY DEF Init, TypeOK
  <2>2. (\A t \in Tick : HolderInv(t)) /\ MarkedMeansCreated /\ claims <= failures
    BY DEF Init, HolderInv, MarkedMeansCreated
  <2> QED
    BY <2>1, <2>2 DEF IInv, ExtraClaimsAreRetries, TypeOK
<1>2. IInv /\ [Next]_vars => IInv'
  <2> SUFFICES ASSUME IInv, [Next]_vars
               PROVE  IInv'
    OBVIOUS
  <2>1. CASE Next
    BY <2>1, BeginKeeps, ClaimKeeps, CreateOkKeeps, CreateErrorKeeps, ReleaseKeeps, StopKeeps
    DEF Next, Progress
  <2>2. CASE UNCHANGED vars
    BY <2>2 DEF vars, IInv, ExtraClaimsAreRetries, TypeOK, HolderInv, MarkedMeansCreated
  <2> QED
    BY <2>1, <2>2
<1> QED
  BY <1>1, <1>2, PTL DEF Spec

\* The mark, the campaigns and the ticks keep their types, and the column is
\* set at most once more than there were failures.
THEOREM TypeCorrect == Spec => []TypeOK
<1>1. IInv => TypeOK
  BY DEF IInv
<1> QED
  BY Invariant, <1>1, PTL

\* The claim in D1 keeps overlapping ticks from notifying at the same time.
THEOREM OneSenderAtATime == Spec => []OneSender
<1>1. IInv => OneSender
  BY DEF IInv, HolderInv, OneSender
<1> QED
  BY Invariant, <1>1, PTL

\* A mark left behind by a tick that is over stands for two created campaigns,
\* unless some tick was gone while it held the claim.
THEOREM MarkIsTrue == Spec => []MarkedMeansCreated
<1>1. IInv => MarkedMeansCreated
  BY DEF IInv
<1> QED
  BY Invariant, <1>1, PTL

\* Nobody is notified again of a day for which nothing failed: each claim after the
\* first answers a failure of its own.
THEOREM ClaimsArePaid == Spec => []ExtraClaimsAreRetries
<1>1. IInv => ExtraClaimsAreRetries
  BY DEF IInv
<1> QED
  BY Invariant, <1>1, PTL
=============================================================================
