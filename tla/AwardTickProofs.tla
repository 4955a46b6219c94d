--------------------------- MODULE AwardTickProofs ---------------------------
(***************************************************************************)
(* Proofs about AwardTick, for any number of overlapping ticks, creators,  *)
(* seconds and claim tokens, from NullAssumption alone.                    *)
(*                                                                         *)
(* First what each statement may do to the row it finds (Grows, Quiet),    *)
(* then the messages, then one lemma per action that it keeps IInv, then   *)
(* the theorems that follow from IInv, and the refinement of AwardPromise. *)
(***************************************************************************)
EXTENDS AwardTick, TLAPS

-----------------------------------------------------------------------------
(* What a statement may do to the row. *)

\* A claim once written stays, and a status once reached is not lost.
Grows(r, s) ==
  /\ s \in Row
  /\ Shape(s)
  /\ r.winner # NULL => s.winner = r.winner
  /\ r.award # NULL => s.award = r.award
  /\ r.status # "absent" => s.status # "absent"
  /\ r.status \in Issued => s.status \in Issued

\* Nor does the row claim more of the outside world than before.
Quiet(r, s) ==
  /\ s.status \in Issued => r.status \in Issued
  /\ s.status = "completed" => r.status = "completed"

USE DEF Undecided, Issuing, Deliverable, Issued, Status

LEMMA SameRow ==
  ASSUME NEW r \in Row, Shape(r)
  PROVE  Grows(r, r) /\ Quiet(r, r)
BY DEF Grows, Quiet

LEMMA InsertPendingGrows ==
  ASSUME NEW r \in Row, Shape(r)
  PROVE  /\ Grows(r, InsertPending(r)) /\ Quiet(r, InsertPending(r))
         /\ InsertPending(r).status # "absent"
BY DEF Grows, Quiet, Row, Shape, InsertPending, AbsentRow

LEMMA ClaimWinnerGrows ==
  ASSUME NEW r \in Row, Shape(r), NEW c \in Creator
  PROVE  /\ Grows(r, ClaimWinnerRow(r, c)) /\ Quiet(r, ClaimWinnerRow(r, c))
         /\ r.status # "absent" => ClaimWinnerRow(r, c).winner # NULL
BY NullAssumption DEF Grows, Quiet, Row, Shape, ClaimWinnerRow

LEMMA MarkUndecidedGrows ==
  ASSUME NEW r \in Row, Shape(r), NEW status \in {"failed_fetch", "skipped_inactive"}
  PROVE  Grows(r, MarkUndecided(r, status)) /\ Quiet(r, MarkUndecided(r, status))
BY DEF Grows, Quiet, Row, Shape, MarkUndecided

LEMMA MarkFailedGrows ==
  ASSUME NEW r \in Row, Shape(r)
  PROVE  /\ Grows(r, MarkDefinitionFailedRow(r)) /\ Quiet(r, MarkDefinitionFailedRow(r))
         /\ Grows(r, MarkPreparationFailedRow(r)) /\ Quiet(r, MarkPreparationFailedRow(r))
         /\ Grows(r, MarkAwardFailedRow(r)) /\ Quiet(r, MarkAwardFailedRow(r))
BY DEF Grows, Quiet, Row, Shape, MarkDefinitionFailedRow, MarkPreparationFailedRow, MarkAwardFailedRow

LEMMA ClaimPreparedAwardGrows ==
  ASSUME NEW r \in Row, Shape(r), NEW e \in Award, e.winner = r.winner
  PROVE  /\ Grows(r, ClaimPreparedAwardRow(r, e)) /\ Quiet(r, ClaimPreparedAwardRow(r, e))
         /\ ClaimPreparedAwardRow(r, e).award # NULL
<1>1. e # NULL /\ r.winner # NULL
  BY NullAssumption DEF Award
<1> QED
  BY <1>1 DEF Grows, Quiet, Row, Shape, ClaimPreparedAwardRow

LEMMA MarkAwardedGrows ==
  ASSUME NEW r \in Row, Shape(r), r.award # NULL
  PROVE  /\ Grows(r, MarkAwardedRow(r, r.award))
         /\ MarkAwardedRow(r, r.award).status \in Issued
         /\ MarkAwardedRow(r, r.award).status = "completed" => r.status = "completed"
BY DEF Grows, Quiet, Row, Shape, MarkAwardedRow

LEMMA ClaimDiscordDeliveryGrows ==
  ASSUME NEW r \in Row, Shape(r), NEW k \in Token
  PROVE  Grows(r, ClaimDiscordDeliveryRow(r, k)) /\ Quiet(r, ClaimDiscordDeliveryRow(r, k))
BY NullAssumption DEF Grows, Quiet, Row, Shape, ClaimDiscordDeliveryRow

LEMMA MarkDiscordPendingGrows ==
  ASSUME NEW r \in Row, Shape(r), NEW k
  PROVE  Grows(r, MarkDiscordPendingRow(r, k)) /\ Quiet(r, MarkDiscordPendingRow(r, k))
BY DEF Grows, Quiet, Row, Shape, MarkDiscordPendingRow

LEMMA MarkCompletedGrows ==
  ASSUME NEW r \in Row, Shape(r), NEW k
  PROVE  /\ Grows(r, MarkCompletedRow(r, k))
         /\ MarkCompletedRow(r, k).status \in Issued => r.status \in Issued
BY DEF Grows, Quiet, Row, Shape, MarkCompletedRow

LEMMA ExpireGrows ==
  ASSUME NEW r \in Row, Shape(r), r.lease = "live"
  PROVE  /\ Grows(r, [r EXCEPT !.lease = "expired"])
         /\ Quiet(r, [r EXCEPT !.lease = "expired"])
BY DEF Grows, Quiet, Row, Shape

LEMMA Messages ==
  /\ \A a, b : AwardMsg(a) = AwardMsg(b) => a = b
  /\ \A a, b : DefinitionMsg(a) = DefinitionMsg(b) => a = b
  /\ \A a, b : AnnounceMsg(a) = AnnounceMsg(b) => a = b
  /\ \A a, b : AwardMsg(a) # DefinitionMsg(b)
  /\ \A a, b : AwardMsg(a) # AnnounceMsg(b)
  /\ \A a, b : DefinitionMsg(a) # AnnounceMsg(b)
BY DEF AwardMsg, DefinitionMsg, AnnounceMsg

LEMMA MessageType ==
  /\ \A e \in Award : AwardMsg(e) \in Message
  /\ \A s \in Stamp : DefinitionMsg(s) \in Message
  /\ \A c \in Creator : AnnounceMsg(c) \in Message
  /\ \A x : AwardMsg(x) \in Message => x \in Award
BY DEF AwardMsg, DefinitionMsg, AnnounceMsg, Message

-----------------------------------------------------------------------------
(* What is left to show of a step. *)

LocalsType ==
  /\ pc \in [Tick -> Label]
  /\ seen \in [Tick -> View]
  /\ candidate \in [Tick -> Creator \cup {NULL}]
  /\ event \in [Tick -> Award \cup {NULL}]
  /\ defined \in [Tick -> Stamp \cup {NULL}]
  /\ token \in [Tick -> Token \cup {NULL}]

WireType ==
  /\ definition \in Stamp \cup {NULL}
  /\ sent \subseteq Message
  /\ received \subseteq sent

USE DEF Opened, WinnerKnown, DefinitionKnown, EventKnown, Delivering

\* No tick but t moves.
Others(t) ==
  \A u \in Tick \ {t} :
    /\ pc'[u] = pc[u] /\ seen'[u] = seen[u] /\ candidate'[u] = candidate[u]
    /\ event'[u] = event[u] /\ defined'[u] = defined[u]

LEMMA OtherKeeps ==
  ASSUME IInv, NEW u \in Tick, Grows(run, run'), received \subseteq received',
         pc'[u] = pc[u], seen'[u] = seen[u], candidate'[u] = candidate[u],
         event'[u] = event[u], defined'[u] = defined[u]
  PROVE  TickInv(u)'
<1>1. TickInv(u) /\ run \in Row /\ Shape(run) /\ pc[u] \in Label /\ seen[u] \in View
  BY DEF IInv, TypeOK, RowShape
<1>2. run.status \in Issued => run.winner # NULL
  BY <1>1 DEF Shape
<1> QED
  BY <1>1, <1>2, SMTT(60) DEF TickInv, Grows

LEMMA StepKeeps ==
  ASSUME IInv, NEW t \in Tick, Grows(run, run'), received \subseteq received',
         LocalsType', WireType', WireInv', Others(t), TickInv(t)'
  PROVE  IInv'
<1>1. \A u \in Tick : TickInv(u)'
  BY OtherKeeps DEF Others
<1>2. run' \in Row /\ RowShape'
  BY DEF Grows, RowShape
<1>3. TypeOK'
  BY <1>2 DEF TypeOK, LocalsType, WireType
<1> QED
  BY <1>1, <1>2, <1>3 DEF IInv

LEMMA QuietWire ==
  ASSUME IInv, Grows(run, run'), Quiet(run, run'), UNCHANGED world
  PROVE  WireType' /\ WireInv' /\ received \subseteq received'
<1>1. WireInv /\ run \in Row /\ Shape(run)
  BY DEF IInv, TypeOK, RowShape
<1>2. definition' = definition /\ sent' = sent /\ received' = received
  BY DEF world
<1>3. WireType'
  BY <1>2 DEF IInv, TypeOK, WireType
<1>4. OneAwardEvent'
  BY <1>1, <1>2, NullAssumption DEF WireInv, OneAwardEvent, Grows, Award
<1>5. IssuedMeansPublished'
  BY <1>1, <1>2 DEF WireInv, IssuedMeansPublished, Grows, Quiet, Shape
<1>6. AnnouncedTruthfully'
  <2>1. ASSUME NEW c \in Creator, AnnounceMsg(c) \in sent'
        PROVE  c = run'.winner /\ AwardMsg(run'.award) \in received'
    <3>1. c = run.winner /\ AwardMsg(run.award) \in received
      BY <1>1, <1>2, <2>1 DEF WireInv, AnnouncedTruthfully
    <3>2. run.award # NULL
      BY <1>1, <3>1, MessageType, NullAssumption DEF IInv, TypeOK
    <3> QED
      BY <1>1, <1>2, <3>1, <3>2, NullAssumption DEF Grows
  <2>2. run'.status = "completed" => AnnounceMsg(run'.winner) \in received'
    BY <1>1, <1>2 DEF WireInv, AnnouncedTruthfully, Grows, Quiet, Shape
  <2> QED
    BY <2>1, <2>2 DEF AnnouncedTruthfully
<1>7. AwardHasDefinition'
  BY <1>1, <1>2 DEF WireInv, AwardHasDefinition
<1> QED
  BY <1>2, <1>3, <1>4, <1>5, <1>6, <1>7 DEF WireInv

LEMMA QuietKeeps ==
  ASSUME IInv, NEW t \in Tick, Grows(run, run'), Quiet(run, run'), UNCHANGED world,
         LocalsType', Others(t), TickInv(t)'
  PROVE  IInv'
BY QuietWire, StepKeeps

LEMMA LocalKeeps ==
  ASSUME IInv, NEW t \in Tick, UNCHANGED <<run, world>>, LocalsType', Others(t), TickInv(t)'
  PROVE  IInv'
<1>1. run \in Row /\ Shape(run) /\ run' = run
  BY DEF IInv, TypeOK, RowShape
<1>2. Grows(run, run') /\ Quiet(run, run')
  BY <1>1, SameRow
<1> QED
  BY <1>2, QuietKeeps

\* A step that moves t without touching its locals.
LEMMA MoveKeeps ==
  ASSUME IInv, NEW t \in Tick, NEW there \in Label, Goto(t, there), UNCHANGED locals
  PROVE  LocalsType' /\ Others(t)
BY DEF IInv, TypeOK, LocalsType, Others, Goto, locals

LEMMA GotoKeeps ==
  ASSUME IInv, NEW t \in Tick, NEW there \in Label, Goto(t, there),
         Grows(run, run'), Quiet(run, run'), UNCHANGED <<world, locals>>, TickInv(t)'
  PROVE  IInv'
<1>1. UNCHANGED world /\ UNCHANGED locals
  OBVIOUS
<1> QED
  BY <1>1, MoveKeeps, QuietKeeps

LEMMA FailKeeps ==
  ASSUME IInv, NEW t \in Tick, NEW here, NEW there \in Label, Fail(t, here, there), TickInv(t)'
  PROVE  IInv'
<1>1. Goto(t, there) /\ UNCHANGED <<run, world>> /\ UNCHANGED locals
  BY DEF Fail
<1> QED
  BY <1>1, MoveKeeps, LocalKeeps

LEMMA LeaveType ==
  ASSUME IInv, NEW t \in Tick, Leave(t)
  PROVE  LocalsType' /\ Others(t) /\ TickInv(t)'
<1>1. LocalsType'
  BY DEF IInv, TypeOK, LocalsType, Leave, Goto, NoView, View, Label
<1>2. Others(t)
  BY DEF IInv, TypeOK, Others, Leave, Goto
<1>3. pc'[t] = "idle" /\ seen'[t] = NoView
  BY DEF IInv, TypeOK, Leave, Goto
<1>4. TickInv(t)'
  BY <1>3 DEF TickInv, NoView
<1> QED
  BY <1>1, <1>2, <1>4

LEMMA LeaveKeeps ==
  ASSUME IInv, NEW t \in Tick, Leave(t), Grows(run, run'), Quiet(run, run'), UNCHANGED world
  PROVE  IInv'
BY LeaveType, QuietKeeps

LEMMA StopKeeps ==
  ASSUME IInv, NEW t \in Tick, Leave(t), UNCHANGED <<run, world>>
  PROVE  IInv'
BY LeaveType, LocalKeeps

LEMMA MarkKeeps ==
  ASSUME IInv, NEW t \in Tick, NEW here, NEW row, Mark(t, here, row),
         Grows(run, row), Quiet(run, row)
  PROVE  IInv'
BY LeaveKeeps DEF Mark

\* What a tick may use of the invariant.
LEMMA Known ==
  ASSUME IInv, NEW t \in Tick
  PROVE  /\ run \in Row /\ Shape(run) /\ LocalsType /\ TickInv(t)
         /\ pc[t] \in Label /\ seen[t] \in View /\ candidate[t] \in Creator \cup {NULL}
         /\ event[t] \in Award \cup {NULL} /\ defined[t] \in Stamp \cup {NULL}
         /\ token[t] \in Token \cup {NULL}
BY DEF IInv, TypeOK, RowShape, LocalsType

-----------------------------------------------------------------------------
(* Every action keeps the invariant. *)

LEMMA BeginKeeps ==
  ASSUME IInv, NEW t \in Tick, Begin(t)
  PROVE  IInv'
<1>1. Goto(t, "upsert") /\ UNCHANGED <<run, world>> /\ UNCHANGED locals
  BY DEF Begin
<1>2. pc'[t] = "upsert" /\ seen'[t] = seen[t] /\ run' = run
  BY <1>1, Known DEF LocalsType, Goto, locals
<1>3. TickInv(t)'
  BY <1>2, Known DEF TickInv
<1> QED
  BY <1>1, <1>3, MoveKeeps, LocalKeeps DEF Label

\* Where a failed await leaves the tick.
LEMMA FailMoves ==
  ASSUME IInv, NEW t \in Tick, NEW here, NEW there, Fail(t, here, there)
  PROVE  /\ pc[t] = here /\ pc'[t] = there
         /\ run' = run /\ sent' = sent /\ received' = received /\ definition' = definition
         /\ seen' = seen /\ candidate' = candidate /\ event' = event /\ defined' = defined
BY Known DEF Fail, At, Goto, LocalsType, locals, world

LEMMA FaultKeeps ==
  ASSUME IInv, NEW t \in Tick, Fault(t)
  PROVE  IInv'
<1>1. CASE RankNobody(t)
  <2>1. Fail(t, "rank", "mark_skipped_inactive")
    BY <1>1 DEF RankNobody
  <2>2. TickInv(t)'
    BY <2>1, FailMoves, Known DEF TickInv
  <2> QED
    BY <2>1, <2>2, FailKeeps DEF Label
<1>2. CASE RankError(t)
  <2>1. Fail(t, "rank", "mark_fetch_failed")
    BY <1>2 DEF RankError
  <2>2. TickInv(t)'
    BY <2>1, FailMoves, Known DEF TickInv
  <2> QED
    BY <2>1, <2>2, FailKeeps DEF Label
<1>3. CASE DefinitionError(t)
  <2>1. Fail(t, "await_definition_ok", "mark_definition_failed")
    BY <1>3 DEF DefinitionError
  <2>2. TickInv(t)'
    BY <2>1, FailMoves, Known DEF TickInv
  <2> QED
    BY <2>1, <2>2, FailKeeps DEF Label
<1>4. CASE SignError(t)
  <2>1. Fail(t, "prepare", "mark_preparation_failed")
    BY <1>4 DEF SignError
  <2>2. TickInv(t)'
    BY <2>1, FailMoves, Known DEF TickInv
  <2> QED
    BY <2>1, <2>2, FailKeeps DEF Label
<1>5. CASE AwardError(t)
  <2>1. Fail(t, "await_award_ok", "mark_award_failed")
    BY <1>5 DEF AwardError
  <2>2. TickInv(t)'
    BY <2>1, FailMoves, Known DEF TickInv
  <2> QED
    BY <2>1, <2>2, FailKeeps DEF Label
<1>6. CASE MessageError(t)
  <2>1. Fail(t, "post", "mark_discord_pending")
    BY <1>6 DEF MessageError
  <2>2. TickInv(t)'
    BY <2>1, FailMoves, Known DEF TickInv
  <2> QED
    BY <2>1, <2>2, FailKeeps DEF Label
<1>7. CASE PostError(t)
  <2>1. Fail(t, "await_post", "mark_discord_pending")
    BY <1>7 DEF PostError
  <2>2. TickInv(t)'
    BY <2>1, FailMoves, Known DEF TickInv
  <2> QED
    BY <2>1, <2>2, FailKeeps DEF Label
<1>8. CASE Stop(t)
  BY <1>8, StopKeeps DEF Stop
<1> QED
  BY <1>1, <1>2, <1>3, <1>4, <1>5, <1>6, <1>7, <1>8 DEF Fault

\* Updates after which the tick leaves the run.
LEMMA MarksKeep ==
  ASSUME IInv, NEW t \in Tick,
         \/ MarkSkippedInactive(t) \/ MarkFetchFailed(t) \/ MarkDefinitionFailed(t)
         \/ MarkPreparationFailed(t) \/ MarkAwardFailed(t) \/ MarkDiscordPending(t)
  PROVE  IInv'
<1> USE Known
<1>1. CASE MarkSkippedInactive(t)
  BY <1>1, MarkUndecidedGrows, MarkKeeps DEF MarkSkippedInactive, MarkSkippedInactiveRow
<1>2. CASE MarkFetchFailed(t)
  BY <1>2, MarkUndecidedGrows, MarkKeeps DEF MarkFetchFailed, MarkFetchFailedRow
<1>3. CASE MarkDefinitionFailed(t)
  BY <1>3, MarkFailedGrows, MarkKeeps DEF MarkDefinitionFailed
<1>4. CASE MarkPreparationFailed(t)
  BY <1>4, MarkFailedGrows, MarkKeeps DEF MarkPreparationFailed
<1>5. CASE MarkAwardFailed(t)
  BY <1>5, MarkFailedGrows, MarkKeeps DEF MarkAwardFailed
<1>6. CASE MarkDiscordPending(t)
  BY <1>6, MarkDiscordPendingGrows, MarkKeeps DEF MarkDiscordPending
<1> QED
  BY <1>1, <1>2, <1>3, <1>4, <1>5, <1>6

\* The announcement arrived before the run is completed.
LEMMA MarkCompletedKeeps ==
  ASSUME IInv, NEW t \in Tick, MarkCompleted(t)
  PROVE  IInv'
<1>1. /\ pc[t] = "mark_completed" /\ run' = MarkCompletedRow(run, token[t])
      /\ Leave(t) /\ definition' = definition /\ sent' = sent /\ received' = received
  BY DEF MarkCompleted, Mark, At, world
<1>2. /\ Grows(run, run') /\ (run'.status \in Issued => run.status \in Issued)
  BY <1>1, Known, MarkCompletedGrows
<1>3. run.winner # NULL /\ run.award # NULL /\ AnnounceMsg(run.winner) \in received
  BY <1>1, Known DEF TickInv, Shape
<1>4. run'.winner = run.winner /\ run'.award = run.award
  BY <1>2, <1>3 DEF Grows
<1>5. WireInv'
  BY <1>1, <1>2, <1>3, <1>4
  DEF IInv, WireInv, OneAwardEvent, IssuedMeansPublished, AnnouncedTruthfully, AwardHasDefinition
<1>6. WireType'
  BY <1>1 DEF IInv, TypeOK, WireType
<1> QED
  BY <1>1, <1>2, <1>5, <1>6, LeaveType, StepKeeps

\* Updates after which the tick goes on.
LEMMA WriteMoves ==
  ASSUME IInv, NEW t \in Tick, NEW here, NEW row, NEW there \in Label, Write(t, here, row, there)
  PROVE  /\ pc[t] = here /\ pc'[t] = there /\ Goto(t, there) /\ run' = row
         /\ sent' = sent /\ received' = received /\ definition' = definition
         /\ seen' = seen /\ candidate' = candidate /\ event' = event /\ defined' = defined
         /\ UNCHANGED <<world, locals>> /\ UNCHANGED locals
BY Known DEF Write, At, Goto, LocalsType, locals, world

LEMMA UpsertRunKeeps ==
  ASSUME IInv, NEW t \in Tick, UpsertRun(t)
  PROVE  IInv'
<1>1. Write(t, "upsert", InsertPending(run), "load") /\ "load" \in Label
  BY DEF UpsertRun, Label
<1>2. Grows(run, run') /\ Quiet(run, run') /\ run'.status # "absent"
  BY <1>1, Known, WriteMoves, InsertPendingGrows
<1>3. TickInv(t)'
  BY <1>1, <1>2, WriteMoves, Known DEF TickInv, Grows
<1> QED
  BY <1>1, <1>2, <1>3, WriteMoves, GotoKeeps

LEMMA ClaimWinnerKeeps ==
  ASSUME IInv, NEW t \in Tick, ClaimWinner(t)
  PROVE  IInv'
<1>1. /\ Write(t, "claim_winner", ClaimWinnerRow(run, candidate[t]), "read_winner")
      /\ "read_winner" \in Label
  BY DEF ClaimWinner, Label
<1>2. candidate[t] \in Creator /\ run.status # "absent"
  BY <1>1, WriteMoves, Known DEF TickInv
<1>3. Grows(run, run') /\ Quiet(run, run') /\ run'.winner # NULL
  BY <1>1, <1>2, Known, WriteMoves, ClaimWinnerGrows
<1>4. TickInv(t)'
  BY <1>1, <1>2, <1>3, WriteMoves, Known DEF TickInv, Grows
<1> QED
  BY <1>1, <1>3, <1>4, WriteMoves, GotoKeeps

LEMMA ClaimAwardKeeps ==
  ASSUME IInv, NEW t \in Tick, ClaimAward(t)
  PROVE  IInv'
<1>1. /\ Write(t, "claim_award", ClaimPreparedAwardRow(run, event[t]), "read_award")
      /\ "read_award" \in Label
  BY DEF ClaimAward, Label
<1>2. event[t] \in Award /\ event[t].winner = run.winner
  BY <1>1, WriteMoves, Known DEF TickInv
<1>3. Grows(run, run') /\ Quiet(run, run') /\ run'.award # NULL
  BY <1>1, <1>2, Known, WriteMoves, ClaimPreparedAwardGrows
<1>4. TickInv(t)'
  BY <1>1, <1>2, <1>3, WriteMoves, Known DEF TickInv, Grows
<1> QED
  BY <1>1, <1>3, <1>4, WriteMoves, GotoKeeps

\* The relay has the stored event before the row says it is awarded.
LEMMA MarkAwardedKeeps ==
  ASSUME IInv, NEW t \in Tick, MarkAwarded(t)
  PROVE  IInv'
<1>1. /\ Write(t, "mark_awarded", MarkAwardedRow(run, event[t]), "read_awarded")
      /\ "read_awarded" \in Label
  BY DEF MarkAwarded, Label
<1>2. /\ event[t] = run.award /\ run.award # NULL /\ run.winner # NULL
      /\ AwardMsg(run.award) \in received
  BY <1>1, WriteMoves, Known DEF TickInv, Shape
<1>3. /\ Grows(run, run') /\ run'.status \in Issued
      /\ (run'.status = "completed" => run.status = "completed")
  BY <1>1, <1>2, Known, WriteMoves, MarkAwardedGrows
<1>4. run'.winner = run.winner /\ run'.award = run.award
  BY <1>2, <1>3 DEF Grows
<1>5. WireInv'
  BY <1>1, <1>2, <1>3, <1>4, WriteMoves
  DEF IInv, WireInv, OneAwardEvent, IssuedMeansPublished, AnnouncedTruthfully, AwardHasDefinition
<1>6. WireType' /\ received \subseteq received'
  BY <1>1, WriteMoves DEF IInv, TypeOK, WireType
<1>7. TickInv(t)'
  BY <1>1, <1>2, <1>3, <1>4, WriteMoves, Known DEF TickInv, Grows
<1> QED
  BY <1>1, <1>3, <1>5, <1>6, <1>7, WriteMoves, MoveKeeps, StepKeeps

\* Steps that only move the tick.
LEMMA MovesKeep ==
  ASSUME IInv, NEW t \in Tick,
         LoadDefinition(t) \/ DefinitionOk(t) \/ AwardOk(t) \/ PostOk(t)
  PROVE  IInv'
<1>1. /\ UNCHANGED <<run, world>> /\ UNCHANGED locals
      /\ run' = run /\ received' = received /\ seen' = seen /\ candidate' = candidate
      /\ event' = event /\ defined' = defined
  BY DEF LoadDefinition, DefinitionOk, AwardOk, PostOk, locals, world
<1>2. ASSUME NEW there \in Label, Goto(t, there)
      PROVE  pc'[t] = there
  BY <1>2, Known DEF Goto, LocalsType
<1>3. CASE LoadDefinition(t) /\ definition = NULL
  <2>1. Goto(t, "publish_definition") /\ pc[t] = "load_definition"
    BY <1>3 DEF LoadDefinition, At
  <2>2. TickInv(t)'
    BY <1>1, <1>2, <2>1, Known DEF TickInv, Label
  <2> QED
    BY <1>1, <2>1, <2>2, MoveKeeps, LocalKeeps DEF Label
<1>4. CASE LoadDefinition(t) /\ definition # NULL
  <2>1. Goto(t, "prepare") /\ pc[t] = "load_definition"
    BY <1>4 DEF LoadDefinition, At
  <2>2. \E s \in Stamp : DefinitionMsg(s) \in received
    BY <1>4 DEF IInv, TypeOK, WireInv, AwardHasDefinition
  <2>3. TickInv(t)'
    BY <1>1, <1>2, <2>1, <2>2, Known DEF TickInv, Label
  <2> QED
    BY <1>1, <2>1, <2>3, MoveKeeps, LocalKeeps DEF Label
<1>5. CASE DefinitionOk(t)
  <2>1. /\ Goto(t, "save_definition") /\ pc[t] = "await_definition_ok"
        /\ DefinitionMsg(defined[t]) \in received
    BY <1>5 DEF DefinitionOk, At
  <2>2. TickInv(t)'
    BY <1>1, <1>2, <2>1, Known DEF TickInv, Label
  <2> QED
    BY <1>1, <2>1, <2>2, MoveKeeps, LocalKeeps DEF Label
<1>6. CASE AwardOk(t)
  <2>1. /\ Goto(t, "mark_awarded") /\ pc[t] = "await_award_ok"
        /\ AwardMsg(event[t]) \in received
    BY <1>6 DEF AwardOk, At
  <2>2. TickInv(t)'
    BY <1>1, <1>2, <2>1, Known DEF TickInv, Label
  <2> QED
    BY <1>1, <2>1, <2>2, MoveKeeps, LocalKeeps DEF Label
<1>7. CASE PostOk(t)
  <2>1. /\ Goto(t, "mark_completed") /\ pc[t] = "await_post"
        /\ AnnounceMsg(seen[t].winner) \in received
    BY <1>7 DEF PostOk, At
  <2>2. TickInv(t)'
    BY <1>1, <1>2, <2>1, Known DEF TickInv, Label
  <2> QED
    BY <1>1, <2>1, <2>2, MoveKeeps, LocalKeeps DEF Label
<1> QED
  BY <1>3, <1>4, <1>5, <1>6, <1>7

\* Steps in which a tick reads the row, and only its view of it changes.
LEMMA LookKeeps ==
  ASSUME IInv, NEW t \in Tick, NEW there \in Label, Look(t), Goto(t, there),
         UNCHANGED <<run, world>>, UNCHANGED <<candidate, event, defined, token>>
  PROVE  /\ LocalsType' /\ Others(t)
         /\ pc'[t] = there /\ seen'[t] = ViewOf(run) /\ run' = run
         /\ sent' = sent /\ received' = received /\ definition' = definition
         /\ candidate' = candidate /\ event' = event /\ defined' = defined
<1>1. ViewOf(run) \in View
  BY Known DEF ViewOf, View, Row
<1>2. LocalsType' /\ Others(t) /\ pc'[t] = there /\ seen'[t] = ViewOf(run)
  BY <1>1, Known DEF LocalsType, Others, Look, Goto
<1> QED
  BY <1>2 DEF world

LEMMA LoadRunKeeps ==
  ASSUME IInv, NEW t \in Tick, LoadRun(t)
  PROVE  IInv'
<1>1. pc[t] = "load" /\ UNCHANGED <<run, world>>
  BY DEF LoadRun, At
<1>2. CASE run.status = "completed"
  BY <1>1, <1>2, StopKeeps DEF LoadRun
<1>3. CASE run.status # "completed"
  <2>1. /\ Look(t) /\ Goto(t, Dispatch(run))
        /\ UNCHANGED <<candidate, event, defined, token>>
    BY <1>3 DEF LoadRun
  <2>2. Dispatch(run) \in Label
    BY DEF Dispatch, Label
  <2>3. /\ Dispatch(run) = "claim_discord" => run.status \in Issued
        /\ Dispatch(run) = "load_definition" => run.winner # NULL
        /\ Dispatch(run) \in {"claim_discord", "load_definition", "rank"}
    BY DEF Dispatch
  <2>4. TickInv(t)'
    BY <1>1, <2>1, <2>2, <2>3, LookKeeps, Known DEF TickInv, ViewOf
  <2> QED
    BY <1>1, <2>1, <2>2, <2>4, LookKeeps, LocalKeeps
<1> QED
  BY <1>2, <1>3

LEMMA RankWinnerKeeps ==
  ASSUME IInv, NEW t \in Tick, RankWinner(t)
  PROVE  IInv'
<1> PICK c \in Creator : candidate' = [candidate EXCEPT ![t] = c]
  BY DEF RankWinner
<1>1. /\ pc[t] = "rank" /\ Goto(t, "claim_winner") /\ UNCHANGED <<run, world>>
      /\ run' = run /\ received' = received /\ UNCHANGED <<seen, event, defined, token>>
  BY DEF RankWinner, At, world
<1>2. LocalsType' /\ Others(t) /\ pc'[t] = "claim_winner" /\ candidate'[t] = c
  BY <1>1, Known DEF LocalsType, Others, Goto, Label
<1>3. TickInv(t)'
  BY <1>1, <1>2, Known, NullAssumption DEF TickInv
<1> QED
  BY <1>1, <1>2, <1>3, LocalKeeps

LEMMA ReadWinnerKeeps ==
  ASSUME IInv, NEW t \in Tick, ReadWinner(t)
  PROVE  IInv'
<1>1. /\ pc[t] = "read_winner" /\ Look(t) /\ Goto(t, "load_definition")
      /\ UNCHANGED <<run, world>> /\ UNCHANGED <<candidate, event, defined, token>>
      /\ "load_definition" \in Label
  BY DEF ReadWinner, At, Label
<1>2. TickInv(t)'
  BY <1>1, LookKeeps, Known DEF TickInv, ViewOf
<1> QED
  BY <1>1, <1>2, LookKeeps, LocalKeeps

\* The award event a tick holds changes, and nothing else does.
LEMMA EventKeeps ==
  ASSUME IInv, NEW t \in Tick, NEW e \in Award \cup {NULL}, NEW there \in Label,
         event' = [event EXCEPT ![t] = e], Goto(t, there),
         UNCHANGED <<run, world>>, UNCHANGED <<seen, candidate, defined, token>>
  PROVE  /\ LocalsType' /\ Others(t)
         /\ pc'[t] = there /\ event'[t] = e /\ run' = run /\ seen' = seen
         /\ received' = received /\ candidate' = candidate /\ defined' = defined
<1>1. LocalsType' /\ Others(t) /\ pc'[t] = there /\ event'[t] = e
  BY Known DEF LocalsType, Others, Goto
<1> QED
  BY <1>1 DEF world

LEMMA UseStoredAwardKeeps ==
  ASSUME IInv, NEW t \in Tick, UseStoredAward(t)
  PROVE  IInv'
<1>1. /\ pc[t] = "prepare" /\ seen[t].winner # NULL /\ seen[t].award # NULL
      /\ event' = [event EXCEPT ![t] = seen[t].award]
      /\ UNCHANGED <<run, world>> /\ UNCHANGED <<seen, candidate, defined, token>>
  BY DEF UseStoredAward, At
<1>2. /\ seen[t].award = run.award /\ seen[t].winner = run.winner
      /\ run.award \in Award /\ run.award.winner = run.winner
  BY <1>1, Known DEF TickInv, Shape, Row
<1>3. Goto(t, "publish_award") /\ "publish_award" \in Label
  BY <1>1, <1>2 DEF UseStoredAward, StoredEventFits, Label
<1>4. /\ LocalsType' /\ Others(t) /\ pc'[t] = "publish_award" /\ event'[t] = run.award
      /\ run' = run /\ seen' = seen /\ received' = received
  BY <1>1, <1>2, <1>3, EventKeeps
<1>5. TickInv(t)'
  BY <1>1, <1>2, <1>4, Known DEF TickInv
<1> QED
  BY <1>1, <1>4, <1>5, LocalKeeps

LEMMA SignAwardKeeps ==
  ASSUME IInv, NEW t \in Tick, SignAward(t)
  PROVE  IInv'
<1> PICK s \in Stamp : event' = [event EXCEPT ![t] = [winner |-> seen[t].winner, stamp |-> s]]
  BY DEF SignAward
<1> DEFINE e == [winner |-> seen[t].winner, stamp |-> s]
<1>1. /\ pc[t] = "prepare" /\ seen[t].winner # NULL /\ Goto(t, "claim_award")
      /\ UNCHANGED <<run, world>> /\ UNCHANGED <<seen, candidate, defined, token>>
  BY DEF SignAward, At
<1>2. e \in Award /\ e # NULL /\ e.winner = seen[t].winner /\ "claim_award" \in Label
  BY <1>1, Known, NullAssumption DEF Award, View, Label
<1>3. event' = [event EXCEPT ![t] = e]
  OBVIOUS
<1> HIDE DEF e
<1>4. /\ LocalsType' /\ Others(t) /\ pc'[t] = "claim_award" /\ event'[t] = e
      /\ run' = run /\ seen' = seen /\ received' = received
  BY <1>1, <1>2, <1>3, EventKeeps
<1>5. TickInv(t)'
  BY <1>1, <1>2, <1>4, Known DEF TickInv
<1> QED
  BY <1>1, <1>4, <1>5, LocalKeeps

LEMMA ReadAwardKeeps ==
  ASSUME IInv, NEW t \in Tick, ReadAward(t)
  PROVE  IInv'
<1>1. /\ pc[t] = "read_award" /\ run' = run /\ received' = received
      /\ seen' = [seen EXCEPT ![t] = ViewOf(run)]
      /\ event' = [event EXCEPT ![t] = run.award]
      /\ UNCHANGED <<run, world>> /\ UNCHANGED <<candidate, defined, token>>
  BY DEF ReadAward, Look, At, world
<1>2. /\ seen[t].winner = run.winner /\ run.winner # NULL
      /\ run.award \in Award /\ run.award.winner = run.winner /\ ViewOf(run) \in View
  BY <1>1, Known DEF TickInv, Shape, Row, View, ViewOf
<1>3. Goto(t, "publish_award") /\ "publish_award" \in Label
  BY <1>1, <1>2, NullAssumption DEF ReadAward, StoredEventFits, ViewOf, Label
<1>4. /\ LocalsType' /\ Others(t) /\ pc'[t] = "publish_award"
      /\ seen'[t] = ViewOf(run) /\ event'[t] = run.award
  BY <1>1, <1>2, <1>3, Known DEF LocalsType, Others, Goto
<1>5. TickInv(t)'
  BY <1>1, <1>2, <1>4, Known DEF TickInv, ViewOf
<1> QED
  BY <1>1, <1>4, <1>5, LocalKeeps

LEMMA ReadAwardedKeeps ==
  ASSUME IInv, NEW t \in Tick, ReadAwarded(t)
  PROVE  IInv'
<1>1. pc[t] = "read_awarded" /\ UNCHANGED <<run, world>>
  BY DEF ReadAwarded, At
<1>2. CASE run.status = "completed"
  BY <1>1, <1>2, StopKeeps DEF ReadAwarded
<1>3. CASE run.status # "completed"
  <2>1. /\ Look(t) /\ Goto(t, "claim_discord") /\ "claim_discord" \in Label
        /\ UNCHANGED <<candidate, event, defined, token>>
    BY <1>3 DEF ReadAwarded, Label
  <2>2. TickInv(t)'
    BY <1>1, <2>1, LookKeeps, Known DEF TickInv, ViewOf
  <2> QED
    BY <1>1, <2>1, <2>2, LookKeeps, LocalKeeps
<1> QED
  BY <1>2, <1>3

LEMMA ClaimDiscordKeeps ==
  ASSUME IInv, NEW t \in Tick, ClaimDiscord(t)
  PROVE  IInv'
<1> PICK k \in Token : /\ token' = [token EXCEPT ![t] = k]
                       /\ run' = ClaimDiscordDeliveryRow(run, k)
  BY DEF ClaimDiscord, FreshTokens
<1>1. /\ pc[t] = "claim_discord" /\ Goto(t, "read_claim") /\ UNCHANGED world
      /\ received' = received /\ UNCHANGED <<seen, candidate, event, defined>>
  BY DEF ClaimDiscord, At, world
<1>2. Grows(run, run') /\ Quiet(run, run')
  BY Known, ClaimDiscordDeliveryGrows
<1>3. LocalsType' /\ Others(t) /\ pc'[t] = "read_claim"
  BY <1>1, Known DEF LocalsType, Others, Goto, Label
<1>4. TickInv(t)'
  BY <1>1, <1>2, <1>3, Known DEF TickInv, Grows
<1> QED
  BY <1>1, <1>2, <1>3, <1>4, QuietKeeps

LEMMA ReadClaimKeeps ==
  ASSUME IInv, NEW t \in Tick, ReadClaim(t)
  PROVE  IInv'
<1>1. pc[t] = "read_claim" /\ UNCHANGED <<run, world>>
  BY DEF ReadClaim, At
<1>2. CASE ~(run.status = "discord_sending" /\ run.token = token[t])
  BY <1>1, <1>2, StopKeeps DEF ReadClaim
<1>3. CASE run.status = "discord_sending" /\ run.token = token[t]
  <2>1. /\ Look(t) /\ Goto(t, "post") /\ "post" \in Label
        /\ UNCHANGED <<candidate, event, defined, token>>
    BY <1>3 DEF ReadClaim, Label
  <2>2. TickInv(t)'
    BY <1>1, <2>1, LookKeeps, Known DEF TickInv, ViewOf, Shape
  <2> QED
    BY <1>1, <2>1, <2>2, LookKeeps, LocalKeeps
<1> QED
  BY <1>2, <1>3

\* A step that puts messages on the wire, delivers some or saves a definition.
LEMMA WireKeeps ==
  ASSUME IInv, NEW t \in Tick, run' = run, received \subseteq received',
         LocalsType', WireType', WireInv', Others(t), TickInv(t)'
  PROVE  IInv'
BY Known, SameRow, StepKeeps

LEMMA PublishDefinitionKeeps ==
  ASSUME IInv, NEW t \in Tick, PublishDefinition(t)
  PROVE  IInv'
<1> PICK s \in Stamp : /\ defined' = [defined EXCEPT ![t] = s]
                       /\ sent' = sent \cup {DefinitionMsg(s)}
  BY DEF PublishDefinition, Send
<1>1. /\ pc[t] = "publish_definition" /\ Goto(t, "await_definition_ok")
      /\ UNCHANGED <<run, definition, received, seen, candidate, event, token>>
  BY DEF PublishDefinition, At
<1>2. LocalsType' /\ Others(t) /\ pc'[t] = "await_definition_ok" /\ defined'[t] = s
  BY <1>1, Known DEF LocalsType, Others, Goto, Label
<1>3. WireType'
  BY <1>1, MessageType DEF IInv, TypeOK, WireType
<1>4. WireInv'
  BY <1>1, Messages
  DEF IInv, WireInv, OneAwardEvent, IssuedMeansPublished, AnnouncedTruthfully, AwardHasDefinition
<1>5. TickInv(t)'
  BY <1>1, <1>2, Known, NullAssumption DEF TickInv
<1> QED
  BY <1>1, <1>2, <1>3, <1>4, <1>5, WireKeeps

LEMMA SaveDefinitionKeeps ==
  ASSUME IInv, NEW t \in Tick, SaveDefinition(t)
  PROVE  IInv'
<1>1. /\ pc[t] = "save_definition" /\ Goto(t, "prepare") /\ definition' = defined[t]
      /\ UNCHANGED <<run, sent, received>> /\ UNCHANGED locals
      /\ UNCHANGED <<seen, candidate, event, defined, token>> /\ "prepare" \in Label
  BY DEF SaveDefinition, At, locals, Label
<1>2. LocalsType' /\ Others(t) /\ pc'[t] = "prepare"
  BY <1>1, Known, MoveKeeps DEF LocalsType, Goto
<1>3. defined[t] \in Stamp /\ DefinitionMsg(defined[t]) \in received
  BY <1>1, Known DEF TickInv
<1>4. WireType'
  BY <1>1, <1>3 DEF IInv, TypeOK, WireType
<1>5. WireInv'
  BY <1>1, <1>3
  DEF IInv, WireInv, OneAwardEvent, IssuedMeansPublished, AnnouncedTruthfully, AwardHasDefinition
<1>6. TickInv(t)'
  BY <1>1, <1>2, <1>3, Known DEF TickInv
<1> QED
  BY <1>1, <1>2, <1>4, <1>5, <1>6, WireKeeps

\* The one award event that is sent is the stored one, after a definition.
LEMMA PublishAwardKeeps ==
  ASSUME IInv, NEW t \in Tick, PublishAward(t)
  PROVE  IInv'
<1>1. /\ pc[t] = "publish_award" /\ Goto(t, "await_award_ok")
      /\ sent' = sent \cup {AwardMsg(event[t])}
      /\ UNCHANGED <<run, definition, received>> /\ UNCHANGED locals
      /\ UNCHANGED <<seen, candidate, event, defined, token>> /\ "await_award_ok" \in Label
  BY DEF PublishAward, Send, At, locals, Label
<1>2. LocalsType' /\ Others(t) /\ pc'[t] = "await_award_ok"
  BY <1>1, Known, MoveKeeps DEF LocalsType, Goto
<1>3. /\ event[t] = run.award /\ run.award \in Award /\ run.award.winner = run.winner
      /\ \E s \in Stamp : DefinitionMsg(s) \in received
  BY <1>1, Known DEF TickInv, Shape, Row
<1>4. WireType'
  BY <1>1, <1>3, MessageType DEF IInv, TypeOK, WireType
<1>5. WireInv'
  BY <1>1, <1>3, Messages
  DEF IInv, WireInv, OneAwardEvent, IssuedMeansPublished, AnnouncedTruthfully, AwardHasDefinition
<1>6. TickInv(t)'
  BY <1>1, <1>2, Known DEF TickInv
<1> QED
  BY <1>1, <1>2, <1>4, <1>5, <1>6, WireKeeps

\* The announcement is for the stored winner, of a run the relay has.
LEMMA PostKeeps ==
  ASSUME IInv, NEW t \in Tick, Post(t)
  PROVE  IInv'
<1>1. /\ pc[t] = "post" /\ Goto(t, "await_post")
      /\ sent' = sent \cup {AnnounceMsg(seen[t].winner)}
      /\ UNCHANGED <<run, definition, received>> /\ UNCHANGED locals
      /\ UNCHANGED <<seen, candidate, event, defined, token>> /\ "await_post" \in Label
  BY DEF Post, Send, At, locals, Label
<1>2. LocalsType' /\ Others(t) /\ pc'[t] = "await_post"
  BY <1>1, Known, MoveKeeps DEF LocalsType, Goto
<1>3. seen[t].winner = run.winner /\ run.winner \in Creator /\ run.status \in Issued
  BY <1>1, Known DEF TickInv, Row
<1>4. WireType'
  BY <1>1, <1>3, MessageType DEF IInv, TypeOK, WireType
<1>5. WireInv'
  BY <1>1, <1>3, Messages
  DEF IInv, WireInv, OneAwardEvent, IssuedMeansPublished, AnnouncedTruthfully, AwardHasDefinition
<1>6. TickInv(t)'
  BY <1>1, <1>2, Known DEF TickInv
<1> QED
  BY <1>1, <1>2, <1>4, <1>5, <1>6, WireKeeps

LEMMA ArriveKeeps ==
  ASSUME IInv, NEW m \in sent \ received, Arrive(m)
  PROVE  IInv'
<1>1. /\ received' = received \cup {m} /\ UNCHANGED <<run, definition, sent, pc>>
      /\ UNCHANGED <<seen, candidate, event, defined, token>>
  BY DEF Arrive, locals
<1>2. Grows(run, run')
  BY <1>1, SameRow DEF IInv, TypeOK, RowShape
<1>3. \A u \in Tick : TickInv(u)'
  BY <1>1, <1>2, OtherKeeps
<1>4. WireInv'
  BY <1>1
  DEF IInv, WireInv, OneAwardEvent, IssuedMeansPublished, AnnouncedTruthfully, AwardHasDefinition
<1>5. TypeOK' /\ RowShape'
  BY <1>1 DEF IInv, TypeOK, RowShape
<1> QED
  BY <1>3, <1>4, <1>5 DEF IInv

LEMMA LeaseExpiresKeeps ==
  ASSUME IInv, LeaseExpires
  PROVE  IInv'
<1>1. /\ run.lease = "live" /\ run' = [run EXCEPT !.lease = "expired"]
      /\ UNCHANGED world /\ UNCHANGED <<pc, seen, candidate, event, defined, token>>
  BY DEF LeaseExpires, locals
<1>2. Grows(run, run') /\ Quiet(run, run')
  BY <1>1, ExpireGrows DEF IInv, TypeOK, RowShape
<1>3. WireType' /\ WireInv' /\ received \subseteq received'
  BY <1>1, <1>2, QuietWire
<1>4. \A u \in Tick : TickInv(u)'
  BY <1>1, <1>2, <1>3, OtherKeeps
<1>5. TypeOK' /\ RowShape'
  BY <1>1, <1>2, <1>3 DEF IInv, TypeOK, RowShape, Grows, WireType
<1> QED
  BY <1>3, <1>4, <1>5 DEF IInv

LEMMA StepsKeep ==
  ASSUME IInv, NEW t \in Tick, Step(t)
  PROVE  IInv'
BY UpsertRunKeeps, LoadRunKeeps, RankWinnerKeeps, ClaimWinnerKeeps, ReadWinnerKeeps,
   PublishDefinitionKeeps, SaveDefinitionKeeps, UseStoredAwardKeeps, SignAwardKeeps,
   ClaimAwardKeeps, ReadAwardKeeps, PublishAwardKeeps, MarkAwardedKeeps, ReadAwardedKeeps,
   ClaimDiscordKeeps, ReadClaimKeeps, PostKeeps, MarkCompletedKeeps, MarksKeep, MovesKeep
DEF Step

-----------------------------------------------------------------------------
(* The invariant is inductive. *)

\* The invariant holds at the start, whether or not an earlier period saved
\* the badge definition.
LEMMA InitIInv ==
  ASSUME Init
  PROVE  IInv
<1>1. TypeOK /\ RowShape
  BY MessageType DEF Init, TypeOK, RowShape, Shape, Row, AbsentRow, Label, NoView, View
<1>2. WireInv
  BY Messages DEF Init, WireInv, OneAwardEvent, IssuedMeansPublished, AnnouncedTruthfully,
                  AwardHasDefinition, AbsentRow
<1>3. \A t \in Tick : TickInv(t)
  BY DEF Init, TickInv, NoView
<1> QED
  BY <1>1, <1>2, <1>3 DEF IInv

\* Every step of the ticks and of the world around them keeps it.
THEOREM Inductive == IInv /\ [Next]_vars => IInv'
<1> SUFFICES ASSUME IInv, [Next]_vars PROVE IInv'
  OBVIOUS
<1>1. CASE \E t \in Tick : Begin(t) \/ Step(t) \/ Fault(t)
  BY <1>1, BeginKeeps, StepsKeep, FaultKeeps
<1>2. CASE \E m \in sent \ received : Arrive(m)
  BY <1>2, ArriveKeeps
<1>3. CASE LeaseExpires
  BY <1>3, LeaseExpiresKeeps
<1>4. CASE UNCHANGED vars
  BY <1>4
  DEF vars, IInv, TypeOK, RowShape, WireInv, OneAwardEvent, IssuedMeansPublished,
      AnnouncedTruthfully, AwardHasDefinition, TickInv
<1> QED
  BY <1>1, <1>2, <1>3, <1>4 DEF Next

-----------------------------------------------------------------------------
(* What a single step may do to the row. *)

\* The statements a tick's step may run, with what it binds in them.
Statement(t) ==
  \/ run' = run
  \/ run' = InsertPending(run)
  \/ pc[t] = "claim_winner" /\ run' = ClaimWinnerRow(run, candidate[t])
  \/ \E status \in {"failed_fetch", "skipped_inactive"} : run' = MarkUndecided(run, status)
  \/ run' = MarkDefinitionFailedRow(run)
  \/ run' = MarkPreparationFailedRow(run)
  \/ run' = MarkAwardFailedRow(run)
  \/ pc[t] = "claim_award" /\ run' = ClaimPreparedAwardRow(run, event[t])
  \/ pc[t] = "mark_awarded" /\ run' = MarkAwardedRow(run, event[t])
  \/ \E k \in Token : run' = ClaimDiscordDeliveryRow(run, k)
  \/ pc[t] = "mark_discord_pending" /\ run' = MarkDiscordPendingRow(run, token[t])
  \/ pc[t] = "mark_completed" /\ run' = MarkCompletedRow(run, token[t])

LEMMA StepStatement ==
  ASSUME NEW t \in Tick, Step(t)
  PROVE  Statement(t) /\ received' = received
<1>1. CASE \/ UpsertRun(t) \/ ClaimWinner(t) \/ ClaimAward(t) \/ MarkAwarded(t)
  BY <1>1 DEF UpsertRun, ClaimWinner, ClaimAward, MarkAwarded, Write, At, world, Statement
<1>2. CASE \/ MarkSkippedInactive(t) \/ MarkFetchFailed(t) \/ MarkDefinitionFailed(t)
           \/ MarkPreparationFailed(t) \/ MarkAwardFailed(t) \/ MarkDiscordPending(t)
           \/ MarkCompleted(t)
  BY <1>2
  DEF MarkSkippedInactive, MarkFetchFailed, MarkDefinitionFailed, MarkPreparationFailed,
      MarkAwardFailed, MarkDiscordPending, MarkCompleted, MarkSkippedInactiveRow,
      MarkFetchFailedRow, Mark, At, world, Statement
<1>3. CASE ClaimDiscord(t)
  BY <1>3 DEF ClaimDiscord, FreshTokens, world, Statement
<1>4. CASE \/ LoadRun(t) \/ RankWinner(t) \/ ReadWinner(t) \/ LoadDefinition(t)
           \/ DefinitionOk(t) \/ UseStoredAward(t) \/ SignAward(t) \/ ReadAward(t)
           \/ AwardOk(t) \/ ReadAwarded(t) \/ ReadClaim(t) \/ PostOk(t)
  BY <1>4
  DEF LoadRun, RankWinner, ReadWinner, LoadDefinition, DefinitionOk, UseStoredAward, SignAward,
      ReadAward, AwardOk, ReadAwarded, ReadClaim, PostOk, world, Statement
<1>5. CASE PublishDefinition(t) \/ SaveDefinition(t) \/ PublishAward(t) \/ Post(t)
  BY <1>5 DEF PublishDefinition, SaveDefinition, PublishAward, Post, Statement
<1> QED
  BY <1>1, <1>2, <1>3, <1>4, <1>5 DEF Step

LEMMA FaultLeavesRow ==
  ASSUME NEW t \in Tick, Fault(t)
  PROVE  run' = run /\ received' = received
BY DEF Fault, RankNobody, RankError, DefinitionError, SignError, AwardError, MessageError,
       PostError, Stop, Fail, world

\* A step is a tick's statement, a message that arrives, or the lease running out.
LEMMA NextSteps ==
  ASSUME Next
  PROVE  \/ \E t \in Tick : Statement(t) /\ received' = received
         \/ run' = run /\ \E m \in sent \ received : received' = received \cup {m}
         \/ /\ run.lease = "live" /\ run' = [run EXCEPT !.lease = "expired"]
            /\ received' = received
<1>1. CASE \E t \in Tick : Begin(t)
  BY <1>1 DEF Begin, world, Statement
<1>2. CASE \E t \in Tick : Step(t) \/ Fault(t)
  BY <1>2, StepStatement, FaultLeavesRow DEF Statement
<1>3. CASE \E m \in sent \ received : Arrive(m)
  BY <1>3 DEF Arrive
<1>4. CASE LeaseExpires
  BY <1>4 DEF LeaseExpires, world
<1> QED
  BY <1>1, <1>2, <1>3, <1>4 DEF Next

\* No statement touches a completed row, and only the two that settle a
\* delivery, for the token in the row, end one.
LEMMA StatementsLeave ==
  ASSUME NEW r \in Row, Shape(r), r.status \in {"discord_sending", "completed"}
  PROVE  /\ InsertPending(r) = r
         /\ \A c : ClaimWinnerRow(r, c) = r
         /\ \A status : MarkUndecided(r, status) = r
         /\ MarkDefinitionFailedRow(r) = r /\ MarkPreparationFailedRow(r) = r
         /\ MarkAwardFailedRow(r) = r
         /\ \A e : ClaimPreparedAwardRow(r, e) = r /\ MarkAwardedRow(r, e) = r
BY DEF Shape, InsertPending, ClaimWinnerRow, MarkUndecided, MarkDefinitionFailedRow,
       MarkPreparationFailedRow, MarkAwardFailedRow, ClaimPreparedAwardRow, MarkAwardedRow

LEMMA ClaimDiscordLeaves ==
  ASSUME NEW r \in Row, Shape(r), NEW k
  PROVE  /\ r.status = "discord_sending" => ClaimDiscordDeliveryRow(r, k).status = r.status
         /\ r.status = "completed" => ClaimDiscordDeliveryRow(r, k) = r
BY DEF Row, Shape, ClaimDiscordDeliveryRow

\* Only three statements write what the promise is about.
LEMMA StatementsKeep ==
  ASSUME NEW r \in Row, Shape(r), NEW c, NEW e, NEW k
  PROVE  LET Same(s) == /\ s.winner = r.winner /\ s.award = r.award
                        /\ (s.status = "completed") = (r.status = "completed")
         IN  /\ Same(InsertPending(r))
             /\ Same(MarkUndecided(r, "failed_fetch")) /\ Same(MarkUndecided(r, "skipped_inactive"))
             /\ Same(MarkDefinitionFailedRow(r)) /\ Same(MarkPreparationFailedRow(r))
             /\ Same(MarkAwardFailedRow(r)) /\ Same(MarkAwardedRow(r, e))
             /\ Same(ClaimDiscordDeliveryRow(r, k)) /\ Same(MarkDiscordPendingRow(r, k))
             /\ Same([r EXCEPT !.lease = "expired"])
BY DEF Row, Shape, InsertPending, AbsentRow, MarkUndecided, MarkDefinitionFailedRow,
       MarkPreparationFailedRow, MarkAwardFailedRow, MarkAwardedRow, ClaimDiscordDeliveryRow,
       MarkDiscordPendingRow

LEMMA StatementGrows ==
  ASSUME IInv, NEW t \in Tick, Statement(t)
  PROVE  Grows(run, run')
<1> USE Known
<1>1. CASE \/ run' = run \/ run' = InsertPending(run)
           \/ \E status \in {"failed_fetch", "skipped_inactive"} : run' = MarkUndecided(run, status)
           \/ run' = MarkDefinitionFailedRow(run) \/ run' = MarkPreparationFailedRow(run)
           \/ run' = MarkAwardFailedRow(run)
           \/ \E k \in Token : run' = ClaimDiscordDeliveryRow(run, k)
  BY <1>1, SameRow, InsertPendingGrows, MarkUndecidedGrows, MarkFailedGrows,
     ClaimDiscordDeliveryGrows
<1>2. CASE pc[t] = "claim_winner" /\ run' = ClaimWinnerRow(run, candidate[t])
  BY <1>2, ClaimWinnerGrows DEF TickInv
<1>3. CASE pc[t] = "claim_award" /\ run' = ClaimPreparedAwardRow(run, event[t])
  <2>1. event[t] \in Award /\ event[t].winner = run.winner
    BY <1>3 DEF TickInv
  <2> QED
    BY <1>3, <2>1, ClaimPreparedAwardGrows
<1>4. CASE pc[t] = "mark_awarded" /\ run' = MarkAwardedRow(run, event[t])
  <2>1. event[t] = run.award /\ run.award # NULL
    BY <1>4 DEF TickInv
  <2> QED
    BY <1>4, <2>1, MarkAwardedGrows
<1>5. CASE \/ pc[t] = "mark_discord_pending" /\ run' = MarkDiscordPendingRow(run, token[t])
           \/ pc[t] = "mark_completed" /\ run' = MarkCompletedRow(run, token[t])
  BY <1>5, MarkDiscordPendingGrows, MarkCompletedGrows
<1> QED
  BY <1>1, <1>2, <1>3, <1>4, <1>5 DEF Statement

LEMMA NextGrows ==
  ASSUME IInv, Next
  PROVE  Grows(run, run')
<1>1. run \in Row /\ Shape(run)
  BY DEF IInv, TypeOK, RowShape
<1> QED
  BY <1>1, NextSteps, StatementGrows, SameRow, ExpireGrows

LEMMA CompletedStays ==
  ASSUME IInv, Next, run.status = "completed"
  PROVE  run' = run
<1>1. run \in Row /\ Shape(run) /\ run.lease # "live"
  BY DEF IInv, TypeOK, RowShape, Shape
<1>2. ASSUME NEW t \in Tick, Statement(t)
      PROVE  run' = run
  BY <1>1, <1>2, StatementsLeave, ClaimDiscordLeaves
  DEF Statement, MarkDiscordPendingRow, MarkCompletedRow
<1> QED
  BY <1>1, <1>2, NextSteps

LEMMA SettledByHolder ==
  ASSUME IInv, Next, run.status = "discord_sending", run'.status # "discord_sending"
  PROVE  \E t \in Tick : /\ pc[t] \in {"mark_completed", "mark_discord_pending"}
                         /\ token[t] = run.token
<1>1. run \in Row /\ Shape(run)
  BY DEF IInv, TypeOK, RowShape
<1>2. PICK t \in Tick : Statement(t)
  BY <1>1, NextSteps DEF Row
<1>3. \/ pc[t] = "mark_discord_pending" /\ run' = MarkDiscordPendingRow(run, token[t])
      \/ pc[t] = "mark_completed" /\ run' = MarkCompletedRow(run, token[t])
  BY <1>1, <1>2, StatementsLeave, ClaimDiscordLeaves DEF Statement
<1> QED
  BY <1>3 DEF MarkDiscordPendingRow, MarkCompletedRow

-----------------------------------------------------------------------------
(* The theorems, for any number of overlapping ticks, creators, seconds and *)
(* tokens.                                                                  *)

\* Overlapping, failing and stopping ticks keep the inductive invariant.
THEOREM Invariant == Spec => []IInv
<1>1. Init => IInv
  BY InitIInv
<1> QED
  BY <1>1, Inductive, PTL DEF Spec

\* The row, the wire and every tick's locals keep their types.
THEOREM TypeCorrect == Spec => []TypeOK
<1>1. IInv => TypeOK
  BY DEF IInv
<1> QED
  BY Invariant, <1>1, PTL

\* At most one award event ever leaves the Worker for a run, the stored one, for
\* the stored winner: what the two D1 claims of run_award_tick are for.
THEOREM OneAward == Spec => []OneAwardEvent
<1>1. IInv => OneAwardEvent
  BY DEF IInv, WireInv
<1> QED
  BY Invariant, <1>1, PTL

\* A row whose status says the badge is issued has its event on the relay.
THEOREM IssuedIsPublished == Spec => []IssuedMeansPublished
<1>1. IInv => IssuedMeansPublished
  BY DEF IInv, WireInv
<1> QED
  BY Invariant, <1>1, PTL

\* deliver_discord tells Discord of the stored winner only, after the relay has
\* the award, and completes only what was announced.
THEOREM AnnouncementIsTrue == Spec => []AnnouncedTruthfully
<1>1. IInv => AnnouncedTruthfully
  BY DEF IInv, WireInv
<1> QED
  BY Invariant, <1>1, PTL

\* An award is sent only when a definition it refers to is on the relay.
THEOREM DefinitionFirst == Spec => []AwardHasDefinition
<1>1. IInv => AwardHasDefinition
  BY DEF IInv, WireInv
<1> QED
  BY Invariant, <1>1, PTL

\* The guarded statements keep the columns of the row consistent.
THEOREM ColumnsFitStatus == Spec => []RowShape
<1>1. IInv => RowShape
  BY DEF IInv
<1> QED
  BY Invariant, <1>1, PTL

\* The rows read back after claim_winner and claim_prepared_award always carry
\* what was claimed, so their error returns are never taken.
THEOREM ReadBack == Spec => []ReadBackComplete
<1>1. IInv => ReadBackComplete
  <2> SUFFICES ASSUME IInv, NEW t \in Tick
               PROVE  /\ pc[t] = "prepare" => seen[t].winner # NULL
                      /\ pc[t] \in { "publish_award", "await_award_ok", "mark_awarded",
                                     "mark_award_failed" }
                           => /\ event[t] = run.award /\ run.award # NULL
                              /\ run.award.winner = seen[t].winner
    BY DEF ReadBackComplete
  <2> QED
    BY Known DEF TickInv, Shape
<1> QED
  BY Invariant, <1>1, PTL

\* The winner and the award event of a run are written once.
THEOREM ClaimsAreFinal == Spec => FirstClaimStays
<1>1. IInv /\ [Next]_vars =>
        [/\ run.winner # NULL => run'.winner = run.winner
         /\ run.award # NULL => run'.award = run.award]_run
  BY NextGrows DEF Grows, vars
<1> QED
  BY Invariant, <1>1, PTL DEF Spec, FirstClaimStays

\* A stale tick cannot take back an issued run, nor write a completed one.
THEOREM RunsMoveForward == Spec => NoStepBack
<1>1. IInv /\ [Next]_vars =>
        [/\ run.status \in Issued => run'.status \in Issued
         /\ run.status # "completed"]_run
  BY NextGrows, CompletedStays DEF Grows, vars
<1> QED
  BY Invariant, <1>1, PTL DEF Spec, NoStepBack

\* A delivery is settled only by a tick whose token the row carries.
THEOREM HolderSettles == Spec => OnlyHolderSettles
<1>1. IInv /\ [Next]_vars =>
        [run.status = "discord_sending" /\ run'.status # "discord_sending" =>
           \E t \in Tick : /\ pc[t] \in {"mark_completed", "mark_discord_pending"}
                          /\ token[t] = run.token]_vars
  BY SettledByHolder
<1> QED
  BY Invariant, <1>1, PTL DEF Spec, OnlyHolderSettles

-----------------------------------------------------------------------------
(* The ticks implement AwardPromise. *)

LEMMA InitPromise ==
  ASSUME Init
  PROVE  Promise!Init
BY Messages DEF Init, Promise!Init, AbsentRow

LEMMA StatementKeepsPromise ==
  ASSUME IInv, NEW t \in Tick, Statement(t), received' = received
  PROVE  [Promise!Next]_Promise!vars
<1> USE Known
<1>1. CASE pc[t] = "claim_winner" /\ run' = ClaimWinnerRow(run, candidate[t])
  <2>1. candidate[t] \in Creator
    BY <1>1 DEF TickInv
  <2>2. \/ run' = run
        \/ /\ run.winner = NULL /\ run'.winner = candidate[t] /\ run'.award = run.award
           /\ run.status # "completed" /\ run'.status # "completed"
    BY <1>1 DEF ClaimWinnerRow, Row
  <2> QED
    BY <2>1, <2>2 DEF Promise!Next, Promise!Choose, Promise!vars
<1>2. CASE pc[t] = "claim_award" /\ run' = ClaimPreparedAwardRow(run, event[t])
  <2>1. event[t] \in Award /\ event[t].winner = run.winner /\ run.winner # NULL
    BY <1>2 DEF TickInv
  <2>2. \E s \in Stamp : event[t] = [winner |-> run.winner, stamp |-> s]
    BY <2>1 DEF Award
  <2>3. \/ run' = run
        \/ /\ run.award = NULL /\ run'.award = event[t] /\ run'.winner = run.winner
           /\ run.status # "completed" /\ run'.status # "completed"
    BY <1>2 DEF ClaimPreparedAwardRow, Row
  <2> QED
    BY <2>1, <2>2, <2>3 DEF Promise!Next, Promise!Sign, Promise!vars
<1>3. CASE pc[t] = "mark_completed" /\ run' = MarkCompletedRow(run, token[t])
  <2>1. AnnounceMsg(run.winner) \in received /\ run.winner \in Creator
    BY <1>3 DEF TickInv, Shape, Row
  <2>2. \/ run' = run
        \/ run'.winner = run.winner /\ run'.award = run.award /\ run'.status = "completed"
    BY <1>3 DEF MarkCompletedRow, Row
  <2> QED
    BY <2>1, <2>2 DEF Promise!Next, Promise!Complete, Promise!vars
<1>4. CASE /\ run'.winner = run.winner /\ run'.award = run.award
           /\ (run'.status = "completed") = (run.status = "completed")
  BY <1>4 DEF Promise!vars
<1> QED
  BY <1>1, <1>2, <1>3, <1>4, StatementsKeep DEF Statement

LEMMA ArrivalKeepsPromise ==
  ASSUME IInv, run' = run, NEW m \in sent \ received, received' = received \cup {m}
  PROVE  [Promise!Next]_Promise!vars
<1>1. OneAwardEvent /\ AnnouncedTruthfully /\ m \in sent /\ m \in Message /\ received \subseteq sent
  BY DEF IInv, TypeOK, WireInv
<1>2. CASE \E e \in Award : m = AwardMsg(e)
  <2>1. m = AwardMsg(run.award) /\ run.award \in Award
    BY <1>1, <1>2 DEF OneAwardEvent
  <2>2. {e \in Award : AwardMsg(e) \in received'} = {run.award}
    BY <1>1, <2>1 DEF OneAwardEvent
  <2>3. {c \in Creator : AnnounceMsg(c) \in received'} = {c \in Creator : AnnounceMsg(c) \in received}
    BY <2>1, Messages
  <2> QED
    BY <2>1, <2>2, <2>3, NullAssumption DEF Promise!Next, Promise!Publish, Promise!vars
<1>3. CASE \E c \in Creator : m = AnnounceMsg(c)
  <2>1. /\ m = AnnounceMsg(run.winner) /\ run.winner \in Creator
        /\ AwardMsg(run.award) \in received
    BY <1>1, <1>3 DEF AnnouncedTruthfully
  <2>2. run.award \in Award
    BY <1>1, <2>1, MessageType DEF IInv, TypeOK
  <2>3. {c \in Creator : AnnounceMsg(c) \in received'} = {run.winner}
    BY <1>1, <2>1 DEF AnnouncedTruthfully
  <2>4. {e \in Award : AwardMsg(e) \in received'} = {e \in Award : AwardMsg(e) \in received}
    BY <2>1, Messages
  <2> QED
    BY <2>1, <2>2, <2>3, <2>4 DEF Promise!Next, Promise!Announce, Promise!vars
<1>4. CASE \E s \in Stamp : m = DefinitionMsg(s)
  <2>1. /\ {e \in Award : AwardMsg(e) \in received'} = {e \in Award : AwardMsg(e) \in received}
        /\ {c \in Creator : AnnounceMsg(c) \in received'}
             = {c \in Creator : AnnounceMsg(c) \in received}
    BY <1>4, Messages
  <2> QED
    BY <2>1 DEF Promise!vars
<1>5. \/ \E e \in Award : m = AwardMsg(e)
      \/ \E c \in Creator : m = AnnounceMsg(c)
      \/ \E s \in Stamp : m = DefinitionMsg(s)
  BY <1>1 DEF Message, AwardMsg, AnnounceMsg, DefinitionMsg
<1> QED
  BY <1>2, <1>3, <1>4, <1>5

\* Seen from the relay and from Discord, the ticks do what AwardPromise says:
\* one winner, one award event, announced after it is out, then complete.
THEOREM Implementation == Spec => KeepsPromise
<1>1. Init => Promise!Init
  BY InitPromise
<1>2. IInv /\ [Next]_vars => [Promise!Next]_Promise!vars
  <2> SUFFICES ASSUME IInv, [Next]_vars
               PROVE  [Promise!Next]_Promise!vars
    OBVIOUS
  <2>1. CASE Next
    <3>1. CASE \E t \in Tick : Statement(t) /\ received' = received
      BY <3>1, StatementKeepsPromise
    <3>2. CASE run' = run /\ \E m \in sent \ received : received' = received \cup {m}
      BY <3>2, ArrivalKeepsPromise
    <3>3. CASE run' = [run EXCEPT !.lease = "expired"] /\ received' = received
      <4>1. /\ run'.winner = run.winner /\ run'.award = run.award
            /\ (run'.status = "completed") = (run.status = "completed")
        BY <3>3, StatementsKeep DEF IInv, TypeOK, RowShape
      <4> QED
        BY <3>3, <4>1 DEF Promise!vars
    <3> QED
      BY <2>1, <3>1, <3>2, <3>3, NextSteps
  <2>2. CASE UNCHANGED vars
    BY <2>2 DEF vars, Promise!vars
  <2> QED
    BY <2>1, <2>2
<1> QED
  BY Invariant, <1>1, <1>2, PTL DEF Spec, KeepsPromise, Promise!Spec
=============================================================================
