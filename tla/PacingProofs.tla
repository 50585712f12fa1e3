---------------------------- MODULE PacingProofs ----------------------------
(***************************************************************************)
(* What every instance of Pacing keeps: a screen that is behind always has *)
(* somebody who asks for its frame.  The strengthening says what each skip *)
(* relies on: a hold that is on has a wake-up to come, and a frame held    *)
(* for the terminal has a report without its answer.                       *)
(***************************************************************************)
EXTENDS Pacing, FiniteSetTheorems, TLAPS

Fresh == redraw \in {"no", "asked", "scheduled"}

HoldsAreKeyed ==
  /\ holds \in [Keys -> {"no", "on", "late"}]
  /\ wakes \in [Keys -> Nat]

UnreadIsSeq == unread \in Seq(Sizes)

HeldIsOwed == held => unread # <<>>

OnIsWoken == \A k \in Keys : holds[k] = "on" => wakes[k] > 0

Asker ==
  \/ redraw # "no"
  \/ held /\ unread # <<>>
  \/ \E k \in Keys : holds[k] # "no" /\ wakes[k] > 0

PacingInv ==
  /\ Fresh /\ HoldsAreKeyed /\ UnreadIsSeq
  /\ HeldIsOwed /\ OnIsWoken
  /\ dirty => Asker

\* Asking leaves a redraw on its way.
LEMMA AskAsks ==
  ASSUME Fresh
  PROVE  Ask(redraw) \in {"asked", "scheduled"}
BY DEF Fresh, Ask

\* What goes out behind a flush is one more open report, or none.
LEMMA FlushGrows ==
  ASSUME UnreadIsSeq, NEW size \in Sizes, Flush(size)
  PROVE  UnreadIsSeq' /\ (unread # <<>> => unread' # <<>>)
<1>1. CASE Len(unread) < MaxUnread
  BY <1>1 DEF UnreadIsSeq, Flush
<1>2. CASE ~(Len(unread) < MaxUnread)
  BY <1>2 DEF UnreadIsSeq, Flush
<1> QED BY <1>1, <1>2

\* A redraw that drops the holds which are over keeps those that are on.
LEMMA DropKeeps ==
  ASSUME HoldsAreKeyed, OnIsWoken, DropTheRest, UNCHANGED wakes
  PROVE  /\ HoldsAreKeyed' /\ OnIsWoken'
         /\ \A k \in StillWaiting : holds'[k] = "on" /\ wakes[k] > 0
BY DEF HoldsAreKeyed, OnIsWoken, DropTheRest, StillWaiting

\* Holding again starts a wake-up of its own.
LEMMA HoldWakes ==
  ASSUME HoldsAreKeyed, OnIsWoken, NEW k \in Keys, Hold(k)
  PROVE  HoldsAreKeyed' /\ OnIsWoken'
BY DEF HoldsAreKeyed, OnIsWoken, Hold

LEMMA PacingInit == Init => PacingInv
BY DEF Init, PacingInv, Fresh, HoldsAreKeyed, UnreadIsSeq, HeldIsOwed,
       OnIsWoken, Asker

LEMMA RedrawKeeps == PacingInv /\ Redraw => PacingInv'
<1> SUFFICES ASSUME PacingInv, Redraw PROVE PacingInv'
  OBVIOUS
<1> USE DEF PacingInv
<1>1. CASE SkipStale
  BY <1>1 DEF SkipStale, holding, reports, Fresh, HoldsAreKeyed, UnreadIsSeq,
              HeldIsOwed, OnIsWoken, Asker
<1>2. CASE SkipHeld
  <2>1. HoldsAreKeyed' /\ OnIsWoken' /\ Asker'
    <3>1. PICK k \in StillWaiting : TRUE
      BY <1>2 DEF SkipHeld
    <3>2. k \in Keys /\ holds'[k] = "on" /\ wakes'[k] > 0
      BY <1>2, <3>1, DropKeeps DEF SkipHeld, StillWaiting
    <3> QED BY <1>2, <3>2, DropKeeps DEF SkipHeld, Asker
  <2> QED BY <1>2, <2>1 DEF SkipHeld, reports, Fresh, UnreadIsSeq, HeldIsOwed
<1>3. CASE SkipUnread
  <2>1. HoldsAreKeyed' /\ OnIsWoken'
    BY <1>3, DropKeeps DEF SkipUnread
  <2> QED BY <1>3, <2>1 DEF SkipUnread, WaitsForTerminal, Fresh, UnreadIsSeq,
                            HeldIsOwed, Asker
<1>4. CASE SkipBehind
  <2>1. HoldsAreKeyed' /\ OnIsWoken'
    BY <1>4, DropKeeps DEF SkipBehind
  <2> QED BY <1>4, <2>1 DEF SkipBehind, reports, Fresh, UnreadIsSeq,
                            HeldIsOwed, Asker
<1>5. CASE Draw
  <2>1. HoldsAreKeyed' /\ OnIsWoken'
    BY <1>5, DropKeeps DEF Draw
  <2>2. PICK size \in Sizes : Flush(size)
    BY <1>5 DEF Draw
  <2>3. UnreadIsSeq' /\ HeldIsOwed'
    BY <1>5, <2>2, FlushGrows DEF Draw, HeldIsOwed
  <2> QED BY <1>5, <2>1, <2>3 DEF Draw, Fresh
<1> QED BY <1>1, <1>2, <1>3, <1>4, <1>5 DEF Redraw

LEMMA HoldsKeep ==
  ASSUME PacingInv, NEW k \in Keys,
         ShowMirror(k) \/ PartEnds(k) \/ DeadlinePasses(k) \/ Wake(k)
  PROVE  PacingInv'
<1> USE DEF PacingInv
<1>1. CASE ShowMirror(k)
  <2>1. HoldsAreKeyed' /\ OnIsWoken'
    BY <1>1, HoldWakes DEF ShowMirror
  <2> QED BY <1>1, <2>1, AskAsks DEF ShowMirror, reports, Fresh, UnreadIsSeq,
                                     HeldIsOwed, Asker
<1>2. CASE PartEnds(k)
  <2>1. /\ \/ redraw' = Ask(redraw) /\ holds' = [holds EXCEPT ![k] = "no"] /\ dirty' = dirty
           \/ redraw' = redraw /\ holds' = [holds EXCEPT ![k] = "no"] /\ holds[k] = "no" /\ dirty' = dirty
           \/ UNCHANGED <<holds, redraw, dirty>>
           \/ redraw' = Ask(redraw) /\ holds' = holds
        /\ UNCHANGED <<wakes, unread, held>>
    BY <1>2 DEF PartEnds, Release, reports
  <2>2. HoldsAreKeyed' /\ OnIsWoken'
    BY <2>1 DEF HoldsAreKeyed, OnIsWoken
  <2>3. Asker \/ redraw' = Ask(redraw) => Asker'
    BY <2>1, AskAsks DEF Asker, HoldsAreKeyed, Fresh
  <2> QED BY <2>1, <2>2, <2>3, AskAsks DEF Fresh, UnreadIsSeq, HeldIsOwed
<1>3. CASE DeadlinePasses(k)
  BY <1>3 DEF DeadlinePasses, drawing, reports, Fresh, HoldsAreKeyed,
              UnreadIsSeq, HeldIsOwed, OnIsWoken, Asker
<1>4. CASE Wake(k)
  <2>1. HoldsAreKeyed' /\ OnIsWoken'
    BY <1>4 DEF Wake, HoldsAreKeyed, OnIsWoken
  <2> QED BY <1>4, <2>1, AskAsks DEF Wake, reports, Fresh, UnreadIsSeq,
                                     HeldIsOwed, Asker
<1> QED BY <1>1, <1>2, <1>3, <1>4

LEMMA AnswerKeeps == PacingInv /\ StatusAnswered => PacingInv'
<1> SUFFICES ASSUME PacingInv, StatusAnswered PROVE PacingInv'
  OBVIOUS
<1> USE DEF PacingInv
<1>1. HoldsAreKeyed' /\ OnIsWoken'
  BY DEF StatusAnswered, holding, HoldsAreKeyed, OnIsWoken
<1>2. UnreadIsSeq'
  BY DEF StatusAnswered, UnreadIsSeq
<1>3. CASE held /\ ~ WaitsForTerminal(unread', TRUE)
  BY <1>1, <1>2, <1>3, AskAsks DEF StatusAnswered, Fresh, HeldIsOwed, Asker
<1>4. CASE ~held
  <2>1. UNCHANGED <<held, redraw, dirty, holds, wakes>>
    BY <1>4 DEF StatusAnswered, holding
  <2> QED BY <1>1, <1>2, <1>4, <2>1 DEF Fresh, HeldIsOwed, Asker
<1>5. CASE held /\ WaitsForTerminal(unread', TRUE)
  <2>1. UNCHANGED <<held, redraw, dirty, holds, wakes>> /\ unread' # <<>>
    BY <1>5 DEF StatusAnswered, holding, WaitsForTerminal
  <2> QED BY <1>1, <1>2, <1>5, <2>1 DEF Fresh, HeldIsOwed, Asker
<1> QED BY <1>3, <1>4, <1>5

LEMMA PacingNext == PacingInv /\ [Next]_vars => PacingInv'
<1> SUFFICES ASSUME PacingInv, [Next]_vars PROVE PacingInv'
  OBVIOUS
<1> USE DEF PacingInv
<1>1. CASE Change \/ Schedule \/ OthersSchedule
  BY <1>1, AskAsks DEF Change, Schedule, OthersSchedule, holding, reports,
     Fresh, HoldsAreKeyed, UnreadIsSeq, HeldIsOwed, OnIsWoken, Asker
<1>2. CASE Input
  <2>1. HoldsAreKeyed' /\ OnIsWoken'
    <3>1. CASE UNCHANGED holding
      BY <3>1 DEF holding, HoldsAreKeyed, OnIsWoken
    <3>2. CASE Hold(Lookup)
      BY <3>2, HoldWakes, PacingAssumption
    <3> QED BY <1>2, <3>1, <3>2 DEF Input
  <2> QED BY <1>2, <2>1, AskAsks DEF Input, reports, Fresh, UnreadIsSeq,
                                     HeldIsOwed, Asker
<1>3. CASE \E k \in Keys : ShowMirror(k) \/ PartEnds(k) \/ DeadlinePasses(k) \/ Wake(k)
  BY <1>3, HoldsKeep
<1>4. CASE Redraw
  BY <1>4, RedrawKeeps
<1>5. CASE FlushOther
  <2>1. PICK size \in Sizes : Flush(size)
    BY <1>5 DEF FlushOther
  <2>2. UnreadIsSeq' /\ (unread # <<>> => unread' # <<>>)
    BY <2>1, FlushGrows
  <2> QED BY <1>5, <2>2 DEF FlushOther, drawing, holding, Fresh,
             HoldsAreKeyed, HeldIsOwed, OnIsWoken, Asker
<1>6. CASE SetLimits \/ TerminalReads \/ GoQuiet \/ TakeBytes \/ UNCHANGED vars
  BY <1>6 DEF SetLimits, TerminalReads, GoQuiet, TakeBytes, vars, drawing,
     holding, reports, Fresh, HoldsAreKeyed, UnreadIsSeq, HeldIsOwed,
     OnIsWoken, Asker
<1>7. CASE StatusAnswered
  BY <1>7, AnswerKeeps
<1> QED BY <1>1, <1>2, <1>3, <1>4, <1>5, <1>6, <1>7 DEF Next

\* A screen that is behind always has somebody who asks for its frame: no
\* skip in `should_skip_render` loses it, for any options, any keys and any
\* order of answers, wake-ups and inputs.
THEOREM NobodyIsForgotten == Spec => []NothingForgotten
<1>1. PacingInv => NothingForgotten
  BY DEF PacingInv, Asker, NothingForgotten
<1> QED BY <1>1, PacingInit, PacingNext, PTL DEF Spec
-----------------------------------------------------------------------------
(* Types. *)

\* The fields that one step of a key, a redraw or a flush may write.
LEMMA HoldTypes ==
  ASSUME PacingTypeOK, NEW k \in Keys, Hold(k)
  PROVE  holds' \in [Keys -> {"no", "on", "late"}] /\ wakes' \in [Keys -> Nat]
BY DEF PacingTypeOK, Hold

LEMMA AskTypes == PacingTypeOK => Ask(redraw) \in {"no", "asked", "scheduled"}
BY DEF PacingTypeOK, Ask

LEMMA PartsTypes ==
  ASSUME NEW k \in Keys
  PROVE  Parts(k) \subseteq {"suggestion", "completion", "page"}
BY DEF Parts

LEMMA FlushTypes ==
  ASSUME PacingTypeOK, NEW size \in Sizes, Flush(size)
  PROVE  unread' \in Seq(Sizes) /\ wire' \in Seq(Sizes)
<1>1. unread' \in {unread, Append(unread, size)} /\ wire' \in {wire, Append(wire, size)}
  BY DEF Flush
<1>2. Append(unread, size) \in Seq(Sizes) /\ Append(wire, size) \in Seq(Sizes)
  BY DEF PacingTypeOK
<1> QED BY <1>1, <1>2 DEF PacingTypeOK

LEMMA RedrawTypes == PacingTypeOK /\ Redraw => PacingTypeOK'
<1> SUFFICES ASSUME PacingTypeOK, Redraw PROVE PacingTypeOK'
  OBVIOUS
<1>1. CASE SkipStale
  BY <1>1 DEF SkipStale, PacingTypeOK, holding, reports, link
<1>2. CASE SkipHeld
  BY <1>2 DEF SkipHeld, DropTheRest, PacingTypeOK, reports, link
<1>3. CASE SkipUnread
  BY <1>3 DEF SkipUnread, DropTheRest, PacingTypeOK, link
<1>4. CASE SkipBehind
  BY <1>4 DEF SkipBehind, DropTheRest, PacingTypeOK, reports, link
<1>5. CASE Draw
  <2>1. PICK size \in Sizes : Flush(size)
    BY <1>5 DEF Draw
  <2>2. unread' \in Seq(Sizes) /\ wire' \in Seq(Sizes)
    BY <2>1, FlushTypes
  <2> QED BY <1>5, <2>2 DEF Draw, DropTheRest, PacingTypeOK
<1> QED BY <1>1, <1>2, <1>3, <1>4, <1>5 DEF Redraw

LEMMA KeyTypes ==
  ASSUME PacingTypeOK, NEW k \in Keys,
         ShowMirror(k) \/ PartEnds(k) \/ DeadlinePasses(k) \/ Wake(k)
  PROVE  PacingTypeOK'
<1>1. CASE ShowMirror(k)
  BY <1>1, HoldTypes, AskTypes, PartsTypes, PacingAssumption
     DEF ShowMirror, Disturb, PacingTypeOK, reports, link
<1>2. CASE PartEnds(k)
  <2>1. PICK part \in results[k] : results' = [results EXCEPT ![k] = @ \ {part}]
    BY <1>2 DEF PartEnds
  <2>2. results' \in [Keys -> SUBSET {"suggestion", "completion", "page"}]
    BY <2>1 DEF PacingTypeOK
  <2>3. /\ redraw' \in {redraw, Ask(redraw)}
        /\ holds' \in {holds, [holds EXCEPT ![k] = "no"]}
        /\ dirty' \in {dirty, TRUE}
        /\ UNCHANGED <<stale, wakes, limits, reports, link, left>>
    BY <1>2 DEF PartEnds, Release
  <2>4. redraw' \in {"no", "asked", "scheduled"}
    BY <2>3, AskTypes DEF PacingTypeOK
  <2>5. holds' \in [Keys -> {"no", "on", "late"}] /\ dirty' \in BOOLEAN
    BY <2>3 DEF PacingTypeOK
  <2> QED BY <2>2, <2>3, <2>4, <2>5 DEF PacingTypeOK, reports, link
<1>3. CASE DeadlinePasses(k)
  BY <1>3 DEF DeadlinePasses, PacingTypeOK, drawing, reports, link
<1>4. CASE Wake(k)
  BY <1>4, AskTypes DEF Wake, PacingTypeOK, reports, link
<1> QED BY <1>1, <1>2, <1>3, <1>4

LEMMA TypesNext == PacingTypeOK /\ [Next]_vars => PacingTypeOK'
<1> SUFFICES ASSUME PacingTypeOK, [Next]_vars PROVE PacingTypeOK'
  OBVIOUS
<1>1. CASE Change \/ Schedule \/ OthersSchedule
  <2>1. redraw' \in {"no", "asked", "scheduled"} /\ dirty' \in BOOLEAN /\ stale' \in BOOLEAN
    BY <1>1, AskTypes DEF Change, Schedule, OthersSchedule, PacingTypeOK
  <2>2. UNCHANGED <<holding, limits, reports, link, left>>
    BY <1>1 DEF Change, Schedule, OthersSchedule
  <2> QED BY <2>1, <2>2 DEF PacingTypeOK, holding, reports, link
<1>2. CASE Input
  <2>1. /\ holds' \in [Keys -> {"no", "on", "late"}]
        /\ wakes' \in [Keys -> Nat]
        /\ results' \in [Keys -> SUBSET {"suggestion", "completion", "page"}]
    <3>1. CASE UNCHANGED holding
      BY <3>1 DEF holding, PacingTypeOK
    <3>2. CASE /\ Hold(Lookup)
               /\ \E started \in SUBSET Parts(Lookup) \ {{}} :
                     results' = [results EXCEPT ![Lookup] = started]
      BY <3>2, HoldTypes, PartsTypes, PacingAssumption DEF PacingTypeOK
    <3> QED BY <1>2, <3>1, <3>2 DEF Input
  <2> QED BY <1>2, <2>1, AskTypes, PacingAssumption DEF Input, Disturb, PacingTypeOK, reports, link
<1>3. CASE \E k \in Keys : ShowMirror(k) \/ PartEnds(k) \/ DeadlinePasses(k) \/ Wake(k)
  BY <1>3, KeyTypes
<1>4. CASE Redraw
  BY <1>4, RedrawTypes
<1>5. CASE FlushOther
  <2>1. PICK size \in Sizes : Flush(size)
    BY <1>5 DEF FlushOther
  <2>2. unread' \in Seq(Sizes) /\ wire' \in Seq(Sizes)
    BY <2>1, FlushTypes
  <2> QED BY <1>5, <2>2, PacingAssumption DEF FlushOther, Disturb, PacingTypeOK, drawing, holding
<1>6. CASE SetLimits
  BY <1>6, PacingAssumption DEF SetLimits, Disturb, PacingTypeOK, drawing, holding, reports, link
<1>7. CASE TerminalReads
  BY <1>7 DEF TerminalReads, PacingTypeOK, drawing, holding, reports
<1>8. CASE GoQuiet \/ TakeBytes \/ UNCHANGED vars
  <2>1. /\ terminal' \in {terminal, "quiet"} /\ behind' \in {behind, FALSE}
        /\ UNCHANGED <<drawing, holding, limits, reports, wire, replies, route, left>>
    BY <1>8 DEF GoQuiet, TakeBytes, vars, drawing, holding, reports
  <2> QED BY <2>1 DEF PacingTypeOK, drawing, holding, reports
<1>9. CASE StatusAnswered
  <2>1. unread' \in Seq(Sizes)
    BY <1>9 DEF StatusAnswered, PacingTypeOK
  <2>2. held' \in {held, FALSE} /\ redraw' \in {redraw, Ask(redraw)}
    BY <1>9 DEF StatusAnswered
  <2>3. /\ replies' = replies - 1 /\ replies > 0 /\ answered' = TRUE
        /\ UNCHANGED <<dirty, stale, holds, results, wakes, limits, wire, terminal, route, behind, left>>
    BY <1>9 DEF StatusAnswered, holding
  <2>4. held' \in BOOLEAN /\ answered' \in BOOLEAN
    BY <2>2, <2>3 DEF PacingTypeOK
  <2>5. redraw' \in {"no", "asked", "scheduled"} /\ replies' \in Nat
    BY <2>2, <2>3, AskTypes DEF PacingTypeOK
  <2> QED BY <2>1, <2>3, <2>4, <2>5 DEF PacingTypeOK
<1> QED BY <1>1, <1>2, <1>3, <1>4, <1>5, <1>6, <1>7, <1>8, <1>9 DEF Next

\* The types of the frames, the holds and the reports, for any keys, sizes
\* and limits, however long the client stays.
THEOREM PacingIsTyped == Spec => []PacingTypeOK
<1>1. Init => PacingTypeOK
  <2> SUFFICES ASSUME Init PROVE PacingTypeOK
    OBVIOUS
  <2>1. unread \in Seq(Sizes) /\ wire \in Seq(Sizes) /\ replies \in Nat
    BY DEF Init
  <2>2. left \in 0..Disturbances
    BY PacingAssumption DEF Init
  <2>3. /\ holds \in [Keys -> {"no", "on", "late"}]
        /\ results \in [Keys -> SUBSET {"suggestion", "completion", "page"}]
        /\ wakes \in [Keys -> Nat]
    BY DEF Init
  <2> QED BY <2>1, <2>2, <2>3 DEF Init, PacingTypeOK
<1> QED BY <1>1, TypesNext, PTL DEF Spec

-----------------------------------------------------------------------------
(* What the server believes of the terminal.                               *)

\* The open reports are those that are answered already, the answer on its
\* way, and behind them those that the terminal did not read.
WireIsUnread ==
  /\ terminal = "ignores" => ~ answered /\ replies = 0
  /\ terminal # "ignores" =>
       /\ Len(unread) = replies + Len(wire)
       /\ \A i \in 1..Len(wire) : wire[i] = unread[replies + i]

\* The bytes of frames are finitely many.
LEMMA BytesAreFinite ==
  ASSUME NEW frames \in Seq(Sizes)
  PROVE  IsFiniteSet(BytesIn(frames)) /\ Bytes(frames) \in Nat
<1> DEFINE n == Len(frames)
           of == [i \in 1..n |-> {i} \X (1 .. frames[i])]
           each == {{i} \X (1 .. frames[i]) : i \in 1..n}
<1>1. n \in Nat /\ DOMAIN frames = 1..n /\ \A i \in 1..n : frames[i] \in Nat
  <2>1. \A i \in 1..n : frames[i] \in Sizes
    OBVIOUS
  <2>2. Sizes \subseteq Nat
    BY PacingAssumption
  <2>3. n \in Nat /\ DOMAIN frames = 1..n
    OBVIOUS
  <2> HIDE DEF n
  <2> QED BY <2>1, <2>2, <2>3
<1> HIDE DEF n
<1>2. IsFiniteSet(1..n)
  BY <1>1, FS_Interval
<1>3. of \in Surjection(1..n, each)
  BY DEF Surjection
<1>4. IsFiniteSet(each)
  BY <1>2, <1>3, FS_Surjection
<1>5. \A i \in 1..n : IsFiniteSet({i} \X (1 .. frames[i]))
  <2> SUFFICES ASSUME NEW i \in 1..n PROVE IsFiniteSet({i} \X (1 .. frames[i]))
    OBVIOUS
  <2>1. IsFiniteSet({i})
    BY FS_Singleton
  <2>2. 1 \in Int /\ frames[i] \in Int
    BY <1>1
  <2>3. IsFiniteSet(1 .. frames[i])
    BY <2>2, FS_Interval
  <2> QED BY <2>1, <2>3, FS_Product
<1>6. IsFiniteSet(UNION each)
  BY <1>4, <1>5, FS_UNION
<1>7. BytesIn(frames) = UNION each
  BY <1>1 DEF BytesIn
<1> QED BY <1>6, <1>7, FS_CardinalityType DEF Bytes

\* The last frames of a queue have no more bytes than all of it.
LEMMA FewerBytes ==
  ASSUME NEW all \in Seq(Sizes), NEW last \in Seq(Sizes), NEW n \in Nat,
         Len(all) = n + Len(last),
         \A i \in 1..Len(last) : last[i] = all[n + i]
  PROVE  Len(last) <= Len(all) /\ Bytes(last) <= Bytes(all)
<1> DEFINE moved == [byte \in BytesIn(last) |-> <<n + byte[1], byte[2]>>]
<1>1. /\ DOMAIN last = 1..Len(last) /\ DOMAIN all = 1..Len(all)
      /\ Len(last) \in Nat /\ Len(all) \in Nat
  OBVIOUS
<1>2. ASSUME NEW byte \in BytesIn(last)
      PROVE  /\ moved[byte] \in BytesIn(all)
             /\ byte = <<byte[1], byte[2]>> /\ byte[1] \in 1..Len(last)
  <2>1. PICK i \in 1..Len(last) : byte \in {i} \X (1 .. last[i])
    BY <1>1 DEF BytesIn
  <2>2. byte = <<i, byte[2]>> /\ byte[1] = i /\ byte[2] \in 1 .. last[i]
    BY <2>1
  <2>3. n + i \in DOMAIN all /\ last[i] = all[n + i]
    BY <1>1
  <2>4. <<n + i, byte[2]>> \in {n + i} \X (1 .. all[n + i])
    BY <2>2, <2>3
  <2>5. <<n + i, byte[2]>> \in BytesIn(all)
    BY <2>3, <2>4 DEF BytesIn
  <2> QED BY <2>2, <2>5
<1>3. moved \in Injection(BytesIn(last), BytesIn(all))
  <2>1. moved \in [BytesIn(last) -> BytesIn(all)]
    BY <1>2
  <2>2. ASSUME NEW a \in BytesIn(last), NEW b \in BytesIn(last), moved[a] = moved[b]
        PROVE  a = b
    <3>1. moved[a] = <<n + a[1], a[2]>> /\ moved[b] = <<n + b[1], b[2]>>
      OBVIOUS
    <3>2. n + a[1] = n + b[1] /\ a[2] = b[2]
      BY <2>2, <3>1
    <3>3. a[1] \in 1..Len(last) /\ b[1] \in 1..Len(last)
      BY <1>2
    <3>4. a[1] = b[1]
      BY <3>2, <3>3
    <3> QED BY <1>2, <3>2, <3>4
  <2> QED BY <2>1, <2>2 DEF Injection, IsInjective
<1>4. Bytes(last) <= Bytes(all)
  BY <1>3, BytesAreFinite, FS_Injection DEF Bytes
<1> QED BY <1>1, <1>4

\* A report that goes out is open, and not read.
LEMMA FlushOwes ==
  ASSUME PacingTypeOK, WireIsUnread, NEW size \in Sizes, Flush(size),
         UNCHANGED <<terminal, replies, answered>>
  PROVE  WireIsUnread'
<1>1. CASE terminal = "ignores"
  BY <1>1 DEF WireIsUnread
<1>2. CASE terminal # "ignores"
  <2>1. /\ wire' = Append(wire, size) /\ unread' = Append(unread, size)
        /\ wire \in Seq(Sizes) /\ unread \in Seq(Sizes) /\ replies \in Nat
    BY <1>2 DEF Flush, PacingTypeOK
  <2>2. /\ Len(wire') = Len(wire) + 1 /\ Len(unread') = Len(unread) + 1
        /\ Len(wire) \in Nat /\ Len(unread) \in Nat
        /\ Len(unread) = replies + Len(wire)
    BY <1>2, <2>1 DEF WireIsUnread
  <2>3. ASSUME NEW i \in 1..Len(wire') PROVE wire'[i] = unread'[replies + i]
    <3>1. CASE i = Len(wire) + 1
      <4>1. replies + i = Len(unread) + 1
        BY <2>1, <2>2, <3>1
      <4> QED BY <2>1, <3>1, <4>1
    <3>2. CASE i # Len(wire) + 1
      <4>1. i \in 1..Len(wire) /\ replies + i \in 1..Len(unread)
        BY <2>1, <2>2, <3>2
      <4>2. wire'[i] = wire[i] /\ unread'[replies + i] = unread[replies + i]
        BY <2>1, <4>1
      <4> QED BY <1>2, <4>1, <4>2 DEF WireIsUnread
    <3> QED BY <3>1, <3>2
  <2>4. Len(unread') = replies' + Len(wire') /\ replies' = replies /\ terminal' # "ignores"
    BY <1>2, <2>1, <2>2
  <2> QED BY <2>3, <2>4 DEF WireIsUnread
<1> QED BY <1>1, <1>2

\* What a terminal reads, it answers; what is answered is not open any more.
LEMMA WireNext == PacingTypeOK /\ WireIsUnread /\ [Next]_vars => WireIsUnread'
<1> SUFFICES ASSUME PacingTypeOK, WireIsUnread, [Next]_vars PROVE WireIsUnread'
  OBVIOUS
<1>0. wire \in Seq(Sizes) /\ unread \in Seq(Sizes) /\ replies \in Nat
  BY DEF PacingTypeOK
<1>1. ASSUME UNCHANGED <<unread, answered, wire, replies>>,
             terminal' = terminal \/ (terminal # "ignores" /\ terminal' # "ignores")
      PROVE  WireIsUnread'
  BY <1>1 DEF WireIsUnread
<1>2. CASE Change \/ Schedule \/ OthersSchedule \/ Input \/ SetLimits \/ GoQuiet \/ TakeBytes \/ UNCHANGED vars
  BY <1>1, <1>2 DEF Change, Schedule, OthersSchedule, Input, SetLimits, GoQuiet, TakeBytes,
                    vars, reports, link
<1>3. ASSUME NEW k \in Keys, ShowMirror(k) \/ PartEnds(k) \/ DeadlinePasses(k) \/ Wake(k)
      PROVE  WireIsUnread'
  BY <1>1, <1>3 DEF ShowMirror, PartEnds, DeadlinePasses, Wake, reports, link
<1>4. CASE Redraw
  <2>1. CASE Draw
    BY <2>1, FlushOwes DEF Draw
  <2>2. CASE SkipStale \/ SkipHeld \/ SkipUnread \/ SkipBehind
    BY <1>1, <2>2 DEF SkipStale, SkipHeld, SkipUnread, SkipBehind, reports, link
  <2> QED BY <1>4, <2>1, <2>2 DEF Redraw
<1>5. CASE FlushOther
  BY <1>5, FlushOwes DEF FlushOther
<1>6. CASE TerminalReads
  <2>1. /\ wire # <<>> /\ wire' = Tail(wire) /\ replies' = replies + 1
        /\ UNCHANGED <<unread, answered, terminal>> /\ terminal = "answers"
    BY <1>6 DEF TerminalReads, reports
  <2>2. /\ Len(wire) \in Nat /\ Len(wire') = Len(wire) - 1
        /\ \A i \in 1..Len(wire') : wire'[i] = wire[i + 1] /\ i + 1 \in 1..Len(wire)
    BY <1>0, <2>1
  <2>3. Len(unread) = replies + Len(wire) /\ \A i \in 1..Len(wire) : wire[i] = unread[replies + i]
    BY <2>1 DEF WireIsUnread
  <2>4. \A i \in 1..Len(wire') : wire'[i] = unread[replies + 1 + i]
    BY <1>0, <2>2, <2>3
  <2>5. Len(unread) = (replies + 1) + Len(wire')
    BY <1>0, <2>2, <2>3
  <2> QED BY <2>1, <2>4, <2>5 DEF WireIsUnread
<1>7. CASE StatusAnswered
  <2>1. /\ replies > 0 /\ replies' = replies - 1 /\ UNCHANGED <<wire, terminal>>
        /\ unread' = IF unread = <<>> THEN <<>> ELSE Tail(unread)
    BY <1>7 DEF StatusAnswered
  <2>2. terminal # "ignores"
    BY <2>1 DEF WireIsUnread
  <2>3. Len(unread) = replies + Len(wire) /\ \A i \in 1..Len(wire) : wire[i] = unread[replies + i]
    BY <2>2 DEF WireIsUnread
  <2>4. Len(wire) \in Nat /\ Len(unread) \in Nat /\ unread # <<>> /\ unread' = Tail(unread)
    BY <1>0, <2>1, <2>3
  <2>5. Len(unread') = Len(unread) - 1 /\ \A i \in 1..Len(unread') : unread'[i] = unread[i + 1]
    BY <1>0, <2>4
  <2>6. ASSUME NEW i \in 1..Len(wire) PROVE wire[i] = unread'[replies' + i]
    <3>1. replies' + i \in 1..Len(unread') /\ (replies' + i) + 1 = replies + i
      BY <1>0, <2>1, <2>3, <2>4, <2>5
    <3> QED BY <2>3, <2>5, <3>1
  <2>7. Len(unread') = replies' + Len(wire)
    BY <1>0, <2>1, <2>3, <2>4, <2>5
  <2> QED BY <2>1, <2>2, <2>6, <2>7 DEF WireIsUnread
<1> QED BY <1>2, <1>3, <1>4, <1>5, <1>6, <1>7 DEF Next

\* `waits_for_terminal`: once the terminal answered, a frame goes out only
\* while the frames and the bytes that it did not read are fewer than the
\* options allow. What the server counts is never less than that.
THEOREM NoBacklogEver == Spec => NoBacklog
<1> DEFINE Backed == answered /\ dirty /\ ~dirty' => ~ WaitsForTerminal(wire, TRUE)
           Counted == PacingTypeOK /\ WireIsUnread
<1>1. ASSUME Counted, Next PROVE Backed
  <2> SUFFICES ASSUME answered, dirty, ~dirty' PROVE ~ WaitsForTerminal(wire, TRUE)
    OBVIOUS
  <2>1. Draw
    <3>1. ~ (Change \/ Schedule \/ OthersSchedule \/ Input \/ FlushOther \/ SetLimits)
      BY DEF Change, Schedule, OthersSchedule, Input, FlushOther, SetLimits, drawing
    <3>2. ~ (TerminalReads \/ GoQuiet \/ StatusAnswered \/ TakeBytes)
      BY DEF TerminalReads, GoQuiet, StatusAnswered, TakeBytes, drawing
    <3>3. \A k \in Keys : ~ (ShowMirror(k) \/ PartEnds(k) \/ DeadlinePasses(k) \/ Wake(k))
      BY DEF ShowMirror, PartEnds, DeadlinePasses, Wake, drawing
    <3>4. ~ (SkipStale \/ SkipHeld \/ SkipUnread \/ SkipBehind)
      BY DEF SkipStale, SkipHeld, SkipUnread, SkipBehind
    <3> QED BY <1>1, <3>1, <3>2, <3>3, <3>4 DEF Next, Redraw
  <2>2. ~ WaitsForTerminal(unread, TRUE)
    <3>1. answered = TRUE
      BY <1>1 DEF PacingTypeOK
    <3> QED BY <2>1, <3>1 DEF Draw, MayGo
  <2>3. /\ wire \in Seq(Sizes) /\ unread \in Seq(Sizes) /\ replies \in Nat
        /\ Len(unread) = replies + Len(wire)
        /\ \A i \in 1..Len(wire) : wire[i] = unread[replies + i]
    BY <1>1 DEF PacingTypeOK, WireIsUnread
  <2>4. Len(wire) <= Len(unread) /\ Bytes(wire) <= Bytes(unread)
    BY <2>3, FewerBytes
  <2>5. /\ Len(wire) \in Nat /\ Len(unread) \in Nat /\ Bytes(wire) \in Nat /\ Bytes(unread) \in Nat
        /\ limits[1] \in Nat /\ limits[2] \in Nat
    BY <1>1, <2>3, BytesAreFinite, PacingAssumption DEF PacingTypeOK
  <2>6. wire # <<>> => unread # <<>>
    BY <2>3
  <2> QED BY <2>2, <2>4, <2>5, <2>6 DEF WaitsForTerminal
<1>2. Counted /\ [Next]_vars => [Backed]_vars
  BY <1>1
<1>3. Init => WireIsUnread
  BY DEF Init, WireIsUnread
<1>4. Spec => []Counted
  BY <1>3, PacingIsTyped, WireNext, PTL DEF Spec
<1> QED BY <1>2, <1>4, PTL DEF Spec, NoBacklog
=============================================================================
