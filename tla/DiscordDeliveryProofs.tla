------------------------ MODULE DiscordDeliveryProofs ------------------------
(***************************************************************************)
(* Proofs about DiscordDelivery, for any number of ticks and any lease     *)
(* longer than the delays it has to cover (LeaseAssumption).               *)
(***************************************************************************)
EXTENDS DiscordDelivery, TLAPS

\* A tick on its way to posting or settling has a lease that is still running.
LEMMA LeaseRuns ==
  ASSUME IInv, NEW t \in Tick, pc[t] \in Posting
  PROVE  /\ row.status = "discord_sending" /\ row.token = t
         /\ row.expires = claimTime[t] + Lease /\ now < row.expires
<1>1. /\ row.status = "discord_sending" /\ row.token = t /\ row.expires = claimTime[t] + Lease
  BY ConstantsAssumption DEF IInv, TickInv, RowInv, Holds
<1>2. now <= dueBy[t] /\ dueBy[t] <= claimTime[t] + StartDelay + Timeout + MarkDelay
  BY ConstantsAssumption DEF IInv, TypeOK, ClockInv, Posting, Timed
<1> QED
  BY <1>1, <1>2, ConstantsAssumption, LeaseAssumption DEF IInv, TypeOK

\* So nobody else's claim gets through.
LEMMA NotFree ==
  ASSUME IInv, NEW t \in Tick, NEW u \in Tick, pc[t] \in Posting
  PROVE  ~Free(row, claimTime[u])
BY LeaseRuns, ConstantsAssumption DEF IInv, TypeOK, ClockInv, Free, Deliverable

LEMMA TypeKeeps ==
  ASSUME IInv, Next
  PROVE  TypeOK'
<1> USE ConstantsAssumption DEF IInv, TypeOK, Label, Deliverable, Goto, Due, Settled
<1>1. ASSUME NEW t \in Tick, ReadClock(t) \/ Claim(t) \/ ReadClaim(t)
      PROVE  TypeOK'
  BY <1>1 DEF ReadClock, Claim, ReadClaim
<1>2. ASSUME NEW t \in Tick, Post(t) \/ PostOk(t) \/ PostError(t)
      PROVE  TypeOK'
  BY <1>2 DEF Post, PostOk, PostError
<1>3. ASSUME NEW t \in Tick, MarkCompleted(t) \/ MarkDiscordPending(t) \/ Stop(t)
      PROVE  TypeOK'
  BY <1>3 DEF MarkCompleted, MarkDiscordPending, Stop
<1>4. ASSUME NEW t \in wire \ accepted, Accept(t)
      PROVE  TypeOK'
  BY <1>4 DEF Accept
<1>5. CASE AdvanceClock
  BY <1>5 DEF AdvanceClock
<1> QED
  BY <1>1, <1>2, <1>3, <1>4, <1>5 DEF Next

-----------------------------------------------------------------------------
(* Every action keeps the invariant. *)

LEMMA ReadClockKeeps ==
  ASSUME IInv, NEW t \in Tick, ReadClock(t), TypeOK'
  PROVE  IInv'
BY ConstantsAssumption
DEF IInv, TypeOK, RowInv, ClockInv, TickInv, ReadClock, Goto, Due, At, Holds, Posting, Posted, Timed

LEMMA ReadClaimKeeps ==
  ASSUME IInv, NEW t \in Tick, ReadClaim(t), TypeOK'
  PROVE  IInv'
BY ConstantsAssumption
DEF IInv, TypeOK, RowInv, ClockInv, TickInv, ReadClaim, Goto, Due, At, Holds, Posting, Posted, Timed

LEMMA PostKeeps ==
  ASSUME IInv, NEW t \in Tick, Post(t), TypeOK'
  PROVE  IInv'
BY ConstantsAssumption
DEF IInv, TypeOK, RowInv, ClockInv, TickInv, Post, Goto, Due, At, Holds, Posting, Posted, Timed

LEMMA PostOkKeeps ==
  ASSUME IInv, NEW t \in Tick, PostOk(t), TypeOK'
  PROVE  IInv'
BY ConstantsAssumption
DEF IInv, TypeOK, RowInv, ClockInv, TickInv, PostOk, Goto, Due, At, Holds, Posting, Posted, Timed

LEMMA PostErrorKeeps ==
  ASSUME IInv, NEW t \in Tick, PostError(t), TypeOK'
  PROVE  IInv'
BY ConstantsAssumption
DEF IInv, TypeOK, RowInv, ClockInv, TickInv, PostError, Goto, Due, At, Holds, Posting, Posted, Timed

LEMMA StopKeeps ==
  ASSUME IInv, NEW t \in Tick, Stop(t), TypeOK'
  PROVE  IInv'
BY ConstantsAssumption
DEF IInv, TypeOK, RowInv, ClockInv, TickInv, Stop, Goto, Due, At, Holds, Posting, Posted, Timed

LEMMA ClaimKeeps ==
  ASSUME IInv, NEW t \in Tick, Claim(t), TypeOK'
  PROVE  IInv'
<1>1. CASE Free(row, claimTime[t])
  <2>1. \A u \in Tick : pc[u] \notin Posting
    BY <1>1, NotFree
  <2>2. row.status # "completed"
    BY <1>1 DEF Free, Deliverable
  <2> QED
    BY <1>1, <2>1, <2>2, ConstantsAssumption
    DEF IInv, TypeOK, RowInv, ClockInv, TickInv, Claim, Goto, At, Holds, Posting, Posted, Timed
<1>2. CASE ~Free(row, claimTime[t])
  BY <1>2, ConstantsAssumption
  DEF IInv, TypeOK, RowInv, ClockInv, TickInv, Claim, Goto, At, Holds, Posting, Posted, Timed
<1> QED
  BY <1>1, <1>2

\* Settling frees the row: the tick that settles was the only one posting.
LEMMA SettleKeeps ==
  ASSUME IInv, NEW t \in Tick, MarkCompleted(t) \/ MarkDiscordPending(t), TypeOK'
  PROVE  IInv'
<1>1. CASE Holds(t)
  <2>1. \A u \in Tick : pc[u] \in Posting => u = t
    BY <1>1 DEF IInv, TickInv, Holds
  <2>2. \A u \in Tick : pc[u] # "completed"
    BY <1>1 DEF IInv, TickInv, Holds
  <2> QED
    BY <1>1, <2>1, <2>2, ConstantsAssumption
    DEF IInv, TypeOK, RowInv, ClockInv, TickInv, MarkCompleted, MarkDiscordPending, Settled,
        Goto, At, Holds, Posting, Posted, Timed
<1>2. CASE ~Holds(t)
  <2>1. MarkDiscordPending(t) /\ row' = row
    BY <1>2 DEF IInv, TickInv, MarkCompleted, MarkDiscordPending, At, Posting
  <2> QED
    BY <1>2, <2>1, ConstantsAssumption
    DEF IInv, TypeOK, RowInv, ClockInv, TickInv, MarkDiscordPending, Goto, At, Holds, Posting,
        Posted, Timed
<1> QED
  BY <1>1, <1>2

LEMMA AdvanceClockKeeps ==
  ASSUME IInv, AdvanceClock, TypeOK'
  PROVE  IInv'
BY ConstantsAssumption
DEF IInv, TypeOK, RowInv, ClockInv, TickInv, AdvanceClock, At, Holds, Posting, Posted, Timed

LEMMA AcceptKeeps ==
  ASSUME IInv, NEW t \in wire \ accepted, Accept(t), TypeOK'
  PROVE  IInv'
BY DEF IInv, TypeOK, RowInv, ClockInv, TickInv, Accept, At, Holds, Posting, Posted, Timed

\* The invariant of the ticks that deliver one run under a lease.
THEOREM Invariant == Spec => []IInv
<1>1. Init => IInv
  BY ConstantsAssumption
  DEF Init, IInv, TypeOK, Label, Deliverable, RowInv, ClockInv, TickInv, At, Holds, Posting,
      Posted, Timed
<1>2. IInv /\ [Next]_vars => IInv'
  <2> SUFFICES ASSUME IInv, [Next]_vars
               PROVE  IInv'
    OBVIOUS
  <2>1. CASE Next
    BY <2>1, TypeKeeps, ReadClockKeeps, ClaimKeeps, ReadClaimKeeps, PostKeeps, PostOkKeeps,
       PostErrorKeeps, SettleKeeps, StopKeeps, AcceptKeeps, AdvanceClockKeeps DEF Next
  <2>2. CASE UNCHANGED vars
    BY <2>2
    DEF vars, IInv, TypeOK, RowInv, ClockInv, TickInv, At, Holds, Posting, Posted, Timed
  <2> QED
    BY <2>1, <2>2
<1> QED
  BY <1>1, <1>2, PTL DEF Spec

\* Every tick's times and the delivery columns of the row keep their types.
THEOREM TypeCorrect == Spec => []TypeOK
<1>1. IInv => TypeOK
  BY DEF IInv
<1> QED
  BY Invariant, <1>1, PTL

\* deliver_discord never has two posts for one run under way at once, however
\* many ticks overlap, as long as the lease covers the delays.
THEOREM OnePostAtATime == Spec => []NoOverlappingPosts
<1>1. IInv => NoOverlappingPosts
  BY LeaseRuns DEF NoOverlappingPosts, At, Posting
<1> QED
  BY Invariant, <1>1, PTL

\* A tick that posted and heard OK finds its claim in the row: its completion
\* is never lost to another tick's takeover.
THEOREM OkIsRecorded == Spec => []OkCompletes
<1>1. IInv => OkCompletes
  BY DEF IInv, TickInv, OkCompletes, At, Posting
<1> QED
  BY Invariant, <1>1, PTL

\* Discord accepts a second announcement only when the answer to one of the two
\* was lost: what the comment in deliver_discord allows, and no more.
THEOREM DuplicatesAreLosses == Spec => []ExtraPostsWereLost
<1>1. IInv => ExtraPostsWereLost
  <2> SUFFICES ASSUME IInv, NEW t \in accepted, NEW u \in accepted,
                      ~LostAnswer(t), ~LostAnswer(u)
               PROVE  t = u
    BY DEF ExtraPostsWereLost
  <2>1. t \in Tick /\ u \in Tick /\ t \in wire /\ u \in wire
    BY DEF IInv, TypeOK
  <2>2. pc[t] \in Posting \cup {"completed"} /\ pc[u] \in Posting \cup {"completed"}
    BY <2>1 DEF IInv, TickInv, Posted, Posting, LostAnswer
  <2>3. /\ pc[t] \in Posting => row.token = t /\ row.status = "discord_sending"
        /\ pc[u] \in Posting => row.token = u /\ row.status = "discord_sending"
    BY <2>1, LeaseRuns
  <2>4. /\ pc[t] = "completed" => row.status = "completed"
        /\ pc[u] = "completed" => row.status = "completed"
    BY <2>1 DEF IInv, TickInv
  <2> QED
    BY <2>1, <2>2, <2>3, <2>4 DEF IInv, At
<1> QED
  BY Invariant, <1>1, PTL

\* Once the run is completed nothing more is posted for it.
THEOREM CompletedIsQuiet == Spec => NoPostAfterCompleted
<1>1. IInv /\ [Next]_vars => [row.status = "completed" => wire' = wire]_vars
  <2> SUFFICES ASSUME IInv, Next, row.status = "completed"
               PROVE  wire' = wire
    OBVIOUS
  <2>1. \A t \in Tick : ~Post(t)
    BY LeaseRuns DEF Post, At, Posting
  <2> QED
    BY <2>1
    DEF Next, ReadClock, Claim, ReadClaim, PostOk, PostError, MarkCompleted, MarkDiscordPending,
        Stop, Accept, AdvanceClock
<1> QED
  BY Invariant, <1>1, PTL DEF Spec, NoPostAfterCompleted
=============================================================================
