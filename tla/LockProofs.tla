----------------------------- MODULE LockProofs -----------------------------
(***************************************************************************)
(* Proofs about what tasks wait for in turn: the turns to write on a       *)
(* connection (Turns, SocketConnection), for any writers, visitors and     *)
(* sizes, and the channels of `wait-for` (WaitFor), for any clients and    *)
(* channels.  First the turns: what the queue operations do to the writers *)
(* in a queue, and that turns are neither doubled nor lost.  Then a        *)
(* connection: it keeps the promises of Turns, the stream turns to zstd    *)
(* between two packets, a part of a packet of its own is never followed by *)
(* another, what is outstanding is what the writers count, and nobody      *)
(* waits for a connection to drain that has nothing to drain.  Then the    *)
(* channels: their types, their lock and its order.                        *)
(***************************************************************************)
EXTENDS SocketConnection, WaitFor, FiniteSetTheorems, TLAPS

\* A writer that queues is in the queue, once.
LEMMA AppendQueues ==
    ASSUME NEW queue \in Seq(Writers), NEW w \in Writers
    PROVE  /\ Append(queue, w) \in Seq(Writers)
           /\ ToSet(Append(queue, w)) = ToSet(queue) \cup {w}
           /\ Once(queue) /\ w \notin ToSet(queue) => Once(Append(queue, w))
<1>1. /\ Append(queue, w) \in Seq(Writers)
      /\ Len(Append(queue, w)) = Len(queue) + 1
      /\ \A i \in 1..Len(queue) : Append(queue, w)[i] = queue[i]
      /\ Append(queue, w)[Len(queue) + 1] = w
  OBVIOUS
<1>2. /\ DOMAIN queue = 1..Len(queue)
      /\ DOMAIN Append(queue, w) = 1..(Len(queue) + 1)
      /\ Len(queue) \in Nat
  BY <1>1
<1>3. ToSet(Append(queue, w)) = ToSet(queue) \cup {w}
  BY <1>1, <1>2 DEF ToSet
<1>4. ASSUME Once(queue), w \notin ToSet(queue)
      PROVE  Once(Append(queue, w))
  BY <1>1, <1>2, <1>4 DEF Once, ToSet
<1> QED BY <1>1, <1>3, <1>4

\* The head of a queue leaves it, and only the head.
LEMMA TailServes ==
    ASSUME NEW queue \in Seq(Writers), queue # <<>>
    PROVE  /\ Head(queue) \in ToSet(queue)
           /\ Head(queue) \in Writers
           /\ Tail(queue) \in Seq(Writers)
           /\ Once(queue) => /\ Once(Tail(queue))
                             /\ ToSet(Tail(queue)) = ToSet(queue) \ {Head(queue)}
<1>1. /\ Len(queue) \in Nat \ {0}
      /\ Head(queue) = queue[1]
      /\ Tail(queue) \in Seq(Writers)
      /\ Len(Tail(queue)) = Len(queue) - 1
      /\ \A i \in 1..(Len(queue) - 1) : Tail(queue)[i] = queue[i + 1]
  OBVIOUS
<1>2. /\ DOMAIN queue = 1..Len(queue)
      /\ DOMAIN Tail(queue) = 1..(Len(queue) - 1)
  BY <1>1
<1>3. Head(queue) \in ToSet(queue) /\ Head(queue) \in Writers
  BY <1>1, <1>2 DEF ToSet
<1>4. ASSUME Once(queue)
      PROVE  Once(Tail(queue)) /\ ToSet(Tail(queue)) = ToSet(queue) \ {Head(queue)}
  <2>1. Once(Tail(queue))
    BY <1>1, <1>2, <1>4 DEF Once
  <2>2. ASSUME NEW v \in ToSet(Tail(queue))
        PROVE  v \in ToSet(queue) \ {Head(queue)}
    BY <1>1, <1>2, <1>4, <2>2 DEF Once, ToSet
  <2>3. ASSUME NEW v \in ToSet(queue) \ {Head(queue)}
        PROVE  v \in ToSet(Tail(queue))
    <3>1. PICK i \in 1..Len(queue) : v = queue[i]
      BY <1>2, <2>3 DEF ToSet
    <3>2. i # 1 /\ i - 1 \in 1..(Len(queue) - 1) /\ Tail(queue)[i - 1] = v
      BY <1>1, <2>3, <3>1
    <3> QED BY <1>2, <3>2 DEF ToSet
  <2> QED BY <2>1, <2>2, <2>3
<1> QED BY <1>1, <1>3, <1>4

\* A writer that gives up leaves the queue, and only that writer.
LEMMA WithoutLeaves ==
    ASSUME NEW queue \in Seq(Writers), NEW w \in ToSet(queue), Once(queue)
    PROVE  /\ Without(queue, w) \in Seq(Writers)
           /\ ToSet(Without(queue, w)) = ToSet(queue) \ {w}
           /\ Once(Without(queue, w))
<1>1. DOMAIN queue = 1..Len(queue) /\ Len(queue) \in Nat
  OBVIOUS
<1>2. PICK at \in 1..Len(queue) : at = CHOOSE i \in DOMAIN queue : queue[i] = w
  BY <1>1 DEF ToSet
<1>3. queue[at] = w
  BY <1>1, <1>2 DEF ToSet
<1>4. PICK rest : rest = Without(queue, w)
  OBVIOUS
<1>5. rest = [i \in 1..(Len(queue) - 1) |-> IF i < at THEN queue[i] ELSE queue[i + 1]]
  BY <1>2, <1>4 DEF Without
<1>6. /\ \A i \in 1..(at - 1) : rest[i] = queue[i]
      /\ \A i \in at..(Len(queue) - 1) : rest[i] = queue[i + 1]
      /\ DOMAIN rest = 1..(Len(queue) - 1)
  BY <1>1, <1>5
<1>7. rest \in Seq(Writers) /\ DOMAIN rest = 1..(Len(queue) - 1)
  <2>1. rest \in [1..(Len(queue) - 1) -> Writers]
    BY <1>1, <1>5
  <2>2. Len(queue) - 1 \in Nat
    BY <1>1, <1>2
  <2> QED BY <2>1, <2>2
<1>8. \A i \in DOMAIN rest :
         \E k \in DOMAIN queue : /\ k # at /\ rest[i] = queue[k]
                                 /\ k = IF i < at THEN i ELSE i + 1
  BY <1>1, <1>6, <1>7
<1>9. Once(rest)
  <2>1. SUFFICES ASSUME NEW i \in DOMAIN rest, NEW j \in DOMAIN rest, rest[i] = rest[j]
                 PROVE  i = j
    BY DEF Once
  <2>2. PICK k \in DOMAIN queue : rest[i] = queue[k] /\ k = IF i < at THEN i ELSE i + 1
    BY <1>8
  <2>3. PICK l \in DOMAIN queue : rest[j] = queue[l] /\ l = IF j < at THEN j ELSE j + 1
    BY <1>8
  <2>4. k = l
    BY <2>1, <2>2, <2>3 DEF Once
  <2> QED BY <1>7, <2>2, <2>3, <2>4
<1>10. ASSUME NEW v \in ToSet(rest) PROVE v \in ToSet(queue) \ {w}
  <2>1. PICK i \in DOMAIN rest : v = rest[i]
    BY DEF ToSet
  <2>2. PICK k \in DOMAIN queue : v = queue[k] /\ k # at
    BY <1>8, <2>1
  <2> QED BY <1>1, <1>3, <2>2 DEF Once, ToSet
<1>11. ASSUME NEW v \in ToSet(queue) \ {w} PROVE v \in ToSet(rest)
  <2>1. PICK i \in 1..Len(queue) : v = queue[i] /\ i # at
    BY <1>1, <1>3 DEF ToSet
  <2>2. CASE i < at
    <3>1. i \in DOMAIN rest /\ rest[i] = v
      BY <1>1, <1>6, <1>7, <2>1, <2>2
    <3> QED BY <3>1 DEF ToSet
  <2>3. CASE i > at
    <3>1. i - 1 \in at..(Len(queue) - 1) /\ (i - 1) + 1 = i
      BY <1>1, <2>1, <2>3
    <3>2. i - 1 \in DOMAIN rest /\ rest[i - 1] = v
      BY <1>1, <1>6, <1>7, <2>1, <3>1
    <3> QED BY <3>2 DEF ToSet
  <2> QED BY <2>1, <2>2, <2>3
<1> QED BY <1>4, <1>7, <1>9, <1>10, <1>11

-----------------------------------------------------------------------------
\* What a release does: the turn is free and nobody was queued, or one writer
\* of the queues has it, an urgent one if there is one.
LEMMA ReleaseHandsOver ==
    ASSUME TurnsTypeOK, QueuedOnce, NEW freed, Release(freed)
    PROVE  \/ /\ Queued = {} /\ Queued' = {}
              /\ held' = FALSE
              /\ handed' = handed \ freed
              /\ UNCHANGED <<urgent, waiting>>
           \/ \E next \in Queued :
                 /\ held' = held
                 /\ handed' = (handed \ freed) \cup {next}
                 /\ urgent' \in Seq(Writers) /\ waiting' \in Seq(Writers)
                 /\ Once(urgent') /\ Once(waiting')
                 /\ ToSet(urgent)' = ToSet(urgent) \ {next}
                 /\ ToSet(waiting)' = ToSet(waiting) \ {next}
                 /\ ToSet(urgent) # {} => next \in ToSet(urgent)
                 /\ IF urgent # <<>> THEN next = Head(urgent)
                                     ELSE waiting # <<>> /\ next = Head(waiting)
<1> USE DEF TurnsTypeOK, QueuedOnce
<1>1. ToSet(<<>>) = {}
  BY DEF ToSet
<1>2. CASE urgent # <<>>
  <2>1. /\ urgent' = Tail(urgent)
        /\ handed' = (handed \ freed) \cup {Head(urgent)}
        /\ UNCHANGED <<held, waiting>>
    BY <1>2 DEF Release
  <2>2. /\ Head(urgent) \in ToSet(urgent)
        /\ Tail(urgent) \in Seq(Writers)
        /\ Once(Tail(urgent))
        /\ ToSet(Tail(urgent)) = ToSet(urgent) \ {Head(urgent)}
    BY <1>2, TailServes
  <2>3. ToSet(waiting)' = ToSet(waiting) \ {Head(urgent)}
    BY <2>1, <2>2
  <2> QED BY <1>2, <2>1, <2>2, <2>3 DEF Queued
<1>3. CASE urgent = <<>> /\ waiting # <<>>
  <2>1. /\ waiting' = Tail(waiting)
        /\ handed' = (handed \ freed) \cup {Head(waiting)}
        /\ UNCHANGED <<held, urgent>>
    BY <1>3 DEF Release
  <2>2. /\ Head(waiting) \in ToSet(waiting)
        /\ Tail(waiting) \in Seq(Writers)
        /\ Once(Tail(waiting))
        /\ ToSet(Tail(waiting)) = ToSet(waiting) \ {Head(waiting)}
    BY <1>3, TailServes
  <2>3. ToSet(urgent)' = ToSet(urgent) \ {Head(waiting)}
    BY <1>1, <1>3, <2>1
  <2> QED BY <1>1, <1>3, <2>1, <2>2, <2>3 DEF Queued
<1>4. CASE urgent = <<>> /\ waiting = <<>>
  BY <1>1, <1>4 DEF Release, Queued
<1> QED BY <1>2, <1>3, <1>4

\* The invariant holds at the start.
LEMMA TurnsInitInv == TurnsInit => TurnsInv
<1> ToSet(<<>>) = {} /\ Once(<<>>) /\ <<>> \in Seq(Writers)
  BY DEF ToSet, Once
<1> QED BY DEF TurnsInit, TurnsInv, TurnsTypeOK, OneTurn, NoTurnLost, QueuedOnce,
           Holders, Queued

\* A holder that leaves keeps it: the turn is free, or one queued writer has it.
LEMMA ReleaseKeepsInv ==
    ASSUME TurnsInv, NEW w \in Writers, NEW freed,
           Holders = {w}, handed \ freed = {}, Release(freed),
           pc' = [pc EXCEPT ![w] = "out"]
    PROVE  TurnsInv'
<1>1. TurnsTypeOK /\ OneTurn /\ NoTurnLost /\ QueuedOnce
  BY DEF TurnsInv
<1>2. /\ handed \subseteq {w}
      /\ w \notin Queued
      /\ held
      /\ \A v \in Writers : pc[v] = "writing" => v = w
      /\ \A v \in Writers \ {w} : pc[v] = "queued" <=> v \in Queued
  BY <1>1 DEF Holders, QueuedOnce, NoTurnLost, TurnsTypeOK
<1>3. pc' \in [Writers -> {"out", "queued", "writing"}]
  BY <1>1 DEF TurnsTypeOK
<1>4. pc'[w] = "out" /\ \A v \in Writers \ {w} : pc'[v] = pc[v]
  BY <1>1 DEF TurnsTypeOK
<1>5. CASE Queued = {} /\ Queued' = {} /\ held' = FALSE /\ handed' = handed \ freed
           /\ UNCHANGED <<urgent, waiting>>
  <2>1. Holders' = {}
    BY <1>2, <1>4, <1>5 DEF Holders
  <2>2. TurnsTypeOK'
    BY <1>1, <1>3, <1>5 DEF TurnsTypeOK
  <2>3. QueuedOnce'
    BY <1>1, <1>2, <1>4, <1>5 DEF QueuedOnce
  <2> QED BY <1>5, <2>1, <2>2, <2>3 DEF TurnsInv, OneTurn, NoTurnLost
<1>6. ASSUME NEW next \in Queued,
             held' = held,
             handed' = (handed \ freed) \cup {next},
             urgent' \in Seq(Writers), waiting' \in Seq(Writers),
             Once(urgent'), Once(waiting'),
             ToSet(urgent)' = ToSet(urgent) \ {next},
             ToSet(waiting)' = ToSet(waiting) \ {next}
      PROVE  TurnsInv'
  <2>1. handed' = {next} /\ next \in Writers /\ next # w
    <3>1. ToSet(urgent) \subseteq Writers /\ ToSet(waiting) \subseteq Writers
      BY <1>1 DEF TurnsTypeOK, ToSet
    <3> QED BY <1>2, <1>6, <3>1 DEF Queued
  <2>2. pc'[next] = "queued"
    BY <1>2, <1>4, <2>1
  <2>3. Holders' = {next}
    BY <1>2, <1>4, <2>1, <2>2 DEF Holders
  <2>4. TurnsTypeOK'
    BY <1>1, <1>3, <1>6, <2>1 DEF TurnsTypeOK
  <2>5. Queued' = Queued \ {next}
    BY <1>6 DEF Queued
  <2>6. QueuedOnce'
    <3>1. \A v \in Writers : pc'[v] = "queued" <=> v \in Queued' \cup handed'
      BY <1>2, <1>4, <2>1, <2>2, <2>5
    <3>2. Queued' \cap handed' = {} /\ ToSet(urgent)' \cap ToSet(waiting)' = {}
      BY <1>1, <1>6, <2>1, <2>5 DEF QueuedOnce
    <3> QED BY <1>6, <3>1, <3>2 DEF QueuedOnce, Once
  <2> QED BY <1>2, <1>6, <2>3, <2>4, <2>6 DEF TurnsInv, OneTurn, NoTurnLost
<1> QED BY <1>1, <1>5, <1>6, ReleaseHandsOver

\* Every step keeps it: the three parts need one another. That a release
\* hands the turn to somebody who waits takes QueuedOnce, that nobody else has
\* it takes OneTurn, and that a free turn has nobody behind it NoTurnLost.
LEMMA TurnsStepInv == TurnsInv /\ [TurnsNext]_turnVars => TurnsInv'
<1> SUFFICES ASSUME TurnsInv, [TurnsNext]_turnVars PROVE TurnsInv'
  OBVIOUS
<1>0. TurnsTypeOK /\ OneTurn /\ NoTurnLost /\ QueuedOnce
  BY DEF TurnsInv
<1>1. ASSUME NEW w \in Writers, AcquireFree(w) PROVE TurnsInv'
  BY <1>0, <1>1 DEF AcquireFree, Queued, TurnsInv, TurnsTypeOK, OneTurn, NoTurnLost,
                    QueuedOnce, Holders
<1>2. ASSUME NEW w \in Writers, NEW hurry \in BOOLEAN, AcquireHeld(w, hurry) PROVE TurnsInv'
  <2>1. /\ w \notin Queued /\ w \notin handed /\ held
        /\ pc' = [pc EXCEPT ![w] = "queued"]
        /\ held' = held /\ handed' = handed
    BY <1>0, <1>2 DEF AcquireHeld, QueuedOnce
  <2>2. /\ urgent' \in Seq(Writers) /\ waiting' \in Seq(Writers)
        /\ Queued' = Queued \cup {w}
        /\ ToSet(urgent)' \cap ToSet(waiting)' = {}
        /\ Once(urgent') /\ Once(waiting')
    <3>1. CASE hurry
      <4>1. urgent' = Append(urgent, w) /\ waiting' = waiting
        BY <1>2, <3>1 DEF AcquireHeld
      <4>2. /\ urgent' \in Seq(Writers)
            /\ ToSet(urgent)' = ToSet(urgent) \cup {w}
            /\ Once(urgent')
        BY <1>0, <2>1, <4>1, AppendQueues DEF Queued, QueuedOnce, TurnsTypeOK
      <4> QED BY <1>0, <2>1, <4>1, <4>2 DEF Queued, QueuedOnce, TurnsTypeOK
    <3>2. CASE ~hurry
      <4>1. waiting' = Append(waiting, w) /\ urgent' = urgent
        BY <1>2, <3>2 DEF AcquireHeld
      <4>2. /\ waiting' \in Seq(Writers)
            /\ ToSet(waiting)' = ToSet(waiting) \cup {w}
            /\ Once(waiting')
        BY <1>0, <2>1, <4>1, AppendQueues DEF Queued, QueuedOnce, TurnsTypeOK
      <4> QED BY <1>0, <2>1, <4>1, <4>2 DEF Queued, QueuedOnce, TurnsTypeOK
    <3> QED BY <3>1, <3>2
  <2>3. Holders' = Holders
    BY <1>0, <1>2, <2>1 DEF Holders, TurnsTypeOK, AcquireHeld
  <2>4. TurnsTypeOK'
    BY <1>0, <2>1, <2>2 DEF TurnsTypeOK
  <2>5. QueuedOnce'
    BY <1>0, <2>1, <2>2 DEF QueuedOnce, TurnsTypeOK, Once
  <2> QED BY <1>0, <2>1, <2>3, <2>4, <2>5 DEF TurnsInv, OneTurn, NoTurnLost
<1>3. ASSUME NEW w \in Writers, Wake(w) PROVE TurnsInv'
  BY <1>0, <1>3 DEF Wake, Queued, TurnsInv, TurnsTypeOK, OneTurn, NoTurnLost,
                    QueuedOnce, Holders
<1>4. ASSUME NEW w \in Writers, CancelQueued(w) PROVE TurnsInv'
  <2>1. /\ w \in Queued /\ pc[w] = "queued" /\ w \notin handed
        /\ pc' = [pc EXCEPT ![w] = "out"]
        /\ held' = held /\ handed' = handed
    BY <1>0, <1>4 DEF CancelQueued, QueuedOnce
  <2>2. /\ urgent' \in Seq(Writers) /\ waiting' \in Seq(Writers)
        /\ Queued' = Queued \ {w}
        /\ ToSet(urgent)' \cap ToSet(waiting)' = {}
        /\ Once(urgent') /\ Once(waiting')
    <3>1. CASE w \in ToSet(urgent)
      <4>1. urgent' = Without(urgent, w) /\ waiting' = waiting
        BY <1>4, <3>1 DEF CancelQueued
      <4> QED BY <1>0, <3>1, <4>1, WithoutLeaves DEF Queued, QueuedOnce, TurnsTypeOK
    <3>2. CASE w \notin ToSet(urgent)
      <4>1. waiting' = Without(waiting, w) /\ urgent' = urgent /\ w \in ToSet(waiting)
        BY <1>4, <3>2 DEF CancelQueued, Queued
      <4> QED BY <1>0, <3>2, <4>1, WithoutLeaves DEF Queued, QueuedOnce, TurnsTypeOK
    <3> QED BY <3>1, <3>2
  <2>3. Holders' = Holders
    BY <1>0, <2>1 DEF Holders, TurnsTypeOK
  <2>4. TurnsTypeOK'
    BY <1>0, <2>1, <2>2 DEF TurnsTypeOK
  <2>5. QueuedOnce'
    BY <1>0, <2>1, <2>2 DEF QueuedOnce, TurnsTypeOK, Once
  <2> QED BY <1>0, <2>1, <2>2, <2>3, <2>4, <2>5 DEF TurnsInv, OneTurn, NoTurnLost
<1>5. ASSUME NEW w \in Writers, CancelHanded(w) PROVE TurnsInv'
  <2>1. Holders = {w} /\ handed \ {w} = {}
    BY <1>0, <1>5 DEF CancelHanded, OneTurn, Holders, TurnsTypeOK
  <2> QED BY <1>5, <2>1, ReleaseKeepsInv DEF CancelHanded
<1>6. ASSUME NEW w \in Writers, Leave(w) PROVE TurnsInv'
  <2>1. Holders = {w} /\ w \notin handed
    BY <1>0, <1>6 DEF Leave, OneTurn, Holders, TurnsTypeOK, QueuedOnce
  <2>2. handed \ {} = {}
    BY <2>1 DEF Holders
  <2> QED BY <1>6, <2>1, <2>2, ReleaseKeepsInv DEF Leave
<1>7. CASE UNCHANGED turnVars
  BY <1>0, <1>7 DEF turnVars, Queued, TurnsInv, TurnsTypeOK, OneTurn, NoTurnLost,
                    QueuedOnce, Holders
<1> QED BY <1>1, <1>2, <1>3, <1>4, <1>5, <1>6, <1>7 DEF TurnsNext

\* Frames of two writers never mix, whoever is cancelled when.
THEOREM TurnsOneTurn == TurnsSafety => []OneTurn
<1>1. TurnsInv => OneTurn
  BY DEF TurnsInv
<1> QED BY <1>1, TurnsInitInv, TurnsStepInv, PTL DEF TurnsSafety

\* No turn is lost and none is made up, whoever is cancelled when.
THEOREM TurnsNoTurnLost == TurnsSafety => []NoTurnLost
<1>1. TurnsInv => NoTurnLost
  BY DEF TurnsInv
<1> QED BY <1>1, TurnsInitInv, TurnsStepInv, PTL DEF TurnsSafety

\* Whoever is handed the turn was first in the urgent queue, or first in the
\* other one with no urgent writer queued.
THEOREM TurnsInOrder == TurnsSafety => InOrder
<1> DEFINE Fair == \A w \in handed' \ handed :
                      \/ urgent # <<>> /\ w = Head(urgent)
                      \/ urgent = <<>> /\ waiting # <<>> /\ w = Head(waiting)
<1>1. ASSUME TurnsInv, [TurnsNext]_turnVars PROVE [Fair]_turnVars
  <2>0. TurnsTypeOK /\ QueuedOnce
    BY <1>1 DEF TurnsInv
  <2>1. ASSUME NEW freed, Release(freed) PROVE Fair
    BY <2>0, <2>1, ReleaseHandsOver
  <2>2. ASSUME NEW w \in Writers, CancelHanded(w) \/ Leave(w) PROVE Fair
    BY <2>1, <2>2 DEF CancelHanded, Leave
  <2>3. ASSUME handed' \subseteq handed PROVE Fair
    BY <2>3
  <2>4. ASSUME NEW w \in Writers,
               \/ AcquireFree(w) \/ Wake(w) \/ CancelQueued(w)
               \/ \E hurry \in BOOLEAN : AcquireHeld(w, hurry)
        PROVE  handed' \subseteq handed
    BY <2>4 DEF AcquireFree, Wake, CancelQueued, AcquireHeld
  <2> HIDE DEF Fair
  <2> QED BY <1>1, <2>2, <2>3, <2>4 DEF TurnsNext
<1>2. TurnsSafety => []TurnsInv
  BY TurnsInitInv, TurnsStepInv, PTL DEF TurnsSafety
<1> QED BY <1>1, <1>2, PTL DEF TurnsSafety, InOrder

-----------------------------------------------------------------------------
\* The owner of the mapping is the one holder, if there is one.
LEMMA OwnerHolds ==
    ASSUME TurnsInv
    PROVE  /\ Holders = {} => Owner = NoWriter
           /\ \A w \in Holders : w \in Writers /\ Owner = w /\ Owner # NoWriter
<1>1. Holders \subseteq Writers /\ OneTurn
  BY DEF TurnsInv, TurnsTypeOK, Holders
<1> QED BY <1>1, WritersAssumption DEF Owner, OneTurn

\* A release is a step of the specification: it passes the turn on.
LEMMA ReleaseRefines ==
    ASSUME TurnsInv, TurnsInv', NEW w \in Writers, NEW freed,
           Holders = {w}, handed \ freed = {}, Release(freed),
           pc' = [pc EXCEPT ![w] = "out"]
    PROVE  Abstract!PassOn
<1>0. TurnsTypeOK /\ QueuedOnce /\ NoTurnLost
  BY DEF TurnsInv
<1>1. Owner = w /\ Owner # NoWriter
  BY OwnerHolds
<1>2. CASE Queued = {} /\ Queued' = {} /\ held' = FALSE /\ UNCHANGED <<urgent, waiting>>
  <2>1. Holders' = {}
    BY <1>2 DEF TurnsInv, NoTurnLost
  <2>2. Owner' = NoWriter
    BY <2>1 DEF Owner
  <2> QED BY <1>1, <1>2, <2>2 DEF Abstract!PassOn
<1>3. ASSUME NEW next \in Queued,
             handed' = (handed \ freed) \cup {next},
             ToSet(urgent)' = ToSet(urgent) \ {next},
             ToSet(waiting)' = ToSet(waiting) \ {next},
             ToSet(urgent) # {} => next \in ToSet(urgent)
      PROVE  Abstract!PassOn
  <2>1. next \in Holders'
    BY <1>3 DEF Holders
  <2>2. Owner' = next
    <3>1. Holders' \subseteq Writers /\ OneTurn'
      BY DEF TurnsInv, TurnsTypeOK, Holders
    <3> QED BY <2>1, <3>1 DEF Owner, OneTurn
  <2>3. Queued' = Queued \ {next}
    BY <1>3 DEF Queued
  <2>4. next \in (IF ToSet(urgent) # {} THEN ToSet(urgent) ELSE Queued)
    BY <1>3
  <2> QED BY <1>1, <1>3, <2>2, <2>3, <2>4 DEF Abstract!PassOn
<1> QED BY <1>0, <1>2, <1>3, ReleaseHandsOver

\* Turns implements TurnSpec: every step is a step of the lock or leaves its
\* three variables alone.
THEOREM TurnsImplementsTurnSpec == TurnsSafety => RefinesTurnSpec
<1>1. TurnsInit => Abstract!SpecInit
  <2> SUFFICES ASSUME TurnsInit PROVE Abstract!SpecInit
    OBVIOUS
  <2>1. Holders = {} /\ Queued = {} /\ ToSet(urgent) = {}
    BY DEF TurnsInit, Holders, Queued, ToSet
  <2> QED BY <2>1 DEF Owner, Abstract!SpecInit
<1>2. TurnsInv /\ TurnsInv' /\ [TurnsNext]_turnVars
          => [Abstract!SpecNext]_(Abstract!specVars)
  <2> SUFFICES ASSUME TurnsInv, TurnsInv', [TurnsNext]_turnVars
               PROVE  [Abstract!SpecNext]_(Abstract!specVars)
    OBVIOUS
  <2>0. TurnsTypeOK /\ OneTurn /\ NoTurnLost /\ QueuedOnce
    BY DEF TurnsInv
  <2>8. Holders' \subseteq Writers /\ OneTurn'
    BY DEF TurnsInv, TurnsTypeOK, Holders
  <2>9. \A v \in Holders' : Owner' = v
    BY <2>8 DEF Owner, OneTurn
  <2>1. ASSUME NEW w \in Writers, AcquireFree(w) PROVE Abstract!Enter(w)
    <3>1. Holders = {} /\ Owner = NoWriter
      BY <2>0, <2>1, OwnerHolds DEF AcquireFree, NoTurnLost
    <3>2. w \in Holders'
      BY <2>0, <2>1 DEF AcquireFree, TurnsTypeOK, Holders
    <3> QED BY <2>1, <2>9, <3>1, <3>2 DEF AcquireFree, Queued, Abstract!Enter
  <2>2. ASSUME NEW w \in Writers, NEW hurry \in BOOLEAN, AcquireHeld(w, hurry)
        PROVE  Abstract!Want(w, hurry)
    <3>1. Holders # {} /\ w \notin Holders /\ w \notin Queued
      BY <2>0, <2>2 DEF AcquireHeld, NoTurnLost, Holders, QueuedOnce
    <3>2. Owner # NoWriter /\ Owner # w
      BY <3>1, OwnerHolds
    <3>3. Holders' = Holders
      BY <2>0, <2>2 DEF AcquireHeld, Holders, TurnsTypeOK
    <3>4. Owner' = Owner
      BY <3>3 DEF Owner
    <3>5. CASE hurry
      <4>1. ToSet(urgent)' = ToSet(urgent) \cup {w} /\ waiting' = waiting
        BY <2>0, <2>2, <3>5, AppendQueues DEF AcquireHeld, TurnsTypeOK
      <4> QED BY <3>1, <3>2, <3>4, <3>5, <4>1 DEF Queued, Abstract!Want
    <3>6. CASE ~hurry
      <4>1. ToSet(waiting)' = ToSet(waiting) \cup {w} /\ urgent' = urgent
        BY <2>0, <2>2, <3>6, AppendQueues DEF AcquireHeld, TurnsTypeOK
      <4> QED BY <3>1, <3>2, <3>4, <3>6, <4>1 DEF Queued, Abstract!Want
    <3> QED BY <3>5, <3>6
  <2>3. ASSUME NEW w \in Writers, Wake(w) PROVE UNCHANGED Abstract!specVars
    <3>1. Holders' = Holders
      BY <2>0, <2>3 DEF Wake, Holders, TurnsTypeOK
    <3> QED BY <2>3, <3>1 DEF Wake, Owner, Queued, Abstract!specVars
  <2>4. ASSUME NEW w \in Writers, CancelQueued(w) PROVE Abstract!GiveUp(w)
    <3>1. Holders' = Holders
      BY <2>0, <2>4 DEF CancelQueued, Holders, TurnsTypeOK
    <3>2. Owner' = Owner /\ w \in Queued
      BY <2>4, <3>1 DEF Owner, CancelQueued
    <3>3. CASE w \in ToSet(urgent)
      <4>1. ToSet(urgent)' = ToSet(urgent) \ {w} /\ waiting' = waiting
        BY <2>0, <2>4, <3>3, WithoutLeaves DEF CancelQueued, QueuedOnce, TurnsTypeOK
      <4>2. w \notin ToSet(waiting)
        BY <2>0, <3>3 DEF QueuedOnce
      <4> QED BY <3>2, <4>1, <4>2 DEF Queued, Abstract!GiveUp
    <3>4. CASE w \notin ToSet(urgent)
      <4>1. ToSet(waiting)' = ToSet(waiting) \ {w} /\ urgent' = urgent
        BY <2>0, <2>4, <3>2, <3>4, WithoutLeaves DEF CancelQueued, QueuedOnce, TurnsTypeOK, Queued
      <4> QED BY <3>2, <3>4, <4>1 DEF Queued, Abstract!GiveUp
    <3> QED BY <3>3, <3>4
  <2>5. ASSUME NEW w \in Writers, CancelHanded(w) PROVE Abstract!PassOn
    <3>1. Holders = {w} /\ handed \ {w} = {}
      BY <2>0, <2>5 DEF CancelHanded, OneTurn, Holders, TurnsTypeOK
    <3> QED BY <2>5, <3>1, ReleaseRefines DEF CancelHanded
  <2>6. ASSUME NEW w \in Writers, Leave(w) PROVE Abstract!PassOn
    <3>1. Holders = {w} /\ w \notin handed
      BY <2>0, <2>6 DEF Leave, OneTurn, Holders, TurnsTypeOK, QueuedOnce
    <3>2. handed \ {} = {}
      BY <3>1 DEF Holders
    <3> QED BY <2>6, <3>1, <3>2, ReleaseRefines DEF Leave
  <2>7. CASE UNCHANGED turnVars
    BY <2>7 DEF turnVars, Owner, Holders, Queued, Abstract!specVars
  <2> QED BY <2>1, <2>2, <2>3, <2>4, <2>5, <2>6, <2>7 DEF TurnsNext, Abstract!SpecNext
<1>3. TurnsSafety => []TurnsInv
  BY TurnsInitInv, TurnsStepInv, PTL DEF TurnsSafety
<1> QED BY <1>1, <1>2, <1>3, PTL DEF TurnsSafety, RefinesTurnSpec, Abstract!TurnSpecification

-----------------------------------------------------------------------------
\* The connection uses its turns as Turns says: every step is one of Turns, or
\* touches no turn.
LEMMA SocketStepIsTurnsStep == [SocketNext]_socketVars => [TurnsNext]_turnVars
<1> SUFFICES ASSUME [SocketNext]_socketVars PROVE [TurnsNext]_turnVars
  OBVIOUS
<1>1. ASSUME NEW w \in Writers, NEW bytes \in Sizes, NEW hurry \in BOOLEAN,
             NEW compressAfter \in BOOLEAN, Write(w, bytes, hurry, compressAfter)
      PROVE  TurnsNext
  BY <1>1 DEF Write, TurnsNext
<1>2. ASSUME NEW w \in Writers, TurnComes(w) PROVE TurnsNext
  BY <1>2 DEF TurnComes, TurnsNext
<1>3. ASSUME NEW w \in Writers, Sent(w) \/ Fail(w) \/ CancelWriting(w) PROVE TurnsNext
  BY <1>3 DEF Sent, Fail, CancelWriting, TurnsNext
<1>4. ASSUME NEW w \in Writers, CancelWaiting(w) PROVE TurnsNext
  BY <1>4 DEF CancelWaiting, TurnsNext
<1>5. ASSUME NEW w \in Writers, Refuse(w) \/ TakeIn(w) PROVE UNCHANGED turnVars
  BY <1>5 DEF Refuse, TakeIn
<1>6. CASE Close \/ EndScope \/ \E d \in Drainers : Drain(d) \/ DrainWoken(d)
  BY <1>6 DEF Close, EndScope, Drain, DrainWoken, DrainAgain
<1>7. CASE UNCHANGED socketVars
  BY <1>7 DEF socketVars
<1> QED BY <1>1, <1>2, <1>3, <1>4, <1>5, <1>6, <1>7 DEF SocketNext

\* The socket's specification implements the one of its turns.
THEOREM SocketImplementsTurns == SocketSafety => TurnsSafety
<1>1. SocketInit => TurnsInit
  BY DEF SocketInit
<1> QED BY <1>1, SocketStepIsTurnsStep, PTL DEF SocketSafety, TurnsSafety

\* On the connection too, one task at a time is inside a packet.
THEOREM SocketOneTurn == SocketSafety => []OneTurn
  BY SocketImplementsTurns, TurnsOneTurn, PTL

\* On the connection too, no write waits behind nobody.
THEOREM SocketNoTurnLost == SocketSafety => []NoTurnLost
  BY SocketImplementsTurns, TurnsNoTurnLost, PTL

\* On the connection too, the turns are the lock of TurnSpec.
THEOREM SocketRefinesTurnSpec == SocketSafety => RefinesTurnSpec
  BY SocketImplementsTurns, TurnsImplementsTurnSpec, PTL

-----------------------------------------------------------------------------
\* What the stream's properties rest on: the scope ends after the close, the
\* packet in the stream is that of the writer whose turn it is, and a part a
\* task of the connection left is the last thing in the stream.
StreamInv ==
    /\ midway \in Writers \cup {NoWriter}
    /\ torn \in Writers \cup {NoWriter}
    /\ compressor \in BOOLEAN
    /\ form \in [Writers -> {"none", "plain", "zstd"}]
    /\ ended => closed
    /\ StreamInStep
    /\ torn # NoWriter /\ torn \notin Visitors => closed /\ midway = NoWriter

\* The invariant of the stream holds at the start.
LEMMA StreamInitInv == SocketInit => StreamInv
  BY DEF SocketInit, StreamInv, StreamInStep

\* A writer that leaves its packet: it was the one in the stream, if any is.
LEMMA AbandonKeepsStream ==
    ASSUME TurnsInv, StreamInv, NEW w \in Writers, Abandon(w),
           pc[w] # "out", pc' = [pc EXCEPT ![w] = "out"],
           closed => closed', ended' = ended,
           closed' \/ w \in Visitors
    PROVE  StreamInv'
<1>1. pc \in [Writers -> {"out", "queued", "writing"}]
  BY DEF TurnsInv, TurnsTypeOK
<1>2. CASE midway = w
  BY <1>1, <1>2, WritersAssumption DEF Abandon, StreamInv, StreamInStep
<1>3. CASE midway # w
  BY <1>1, <1>3, WritersAssumption DEF Abandon, StreamInv, StreamInStep
<1> QED BY <1>2, <1>3

\* Every step keeps it.
LEMMA StreamStepInv == TurnsInv /\ StreamInv /\ [SocketNext]_socketVars => StreamInv'
<1> SUFFICES ASSUME TurnsInv, StreamInv, [SocketNext]_socketVars PROVE StreamInv'
  OBVIOUS
<1>0. /\ pc \in [Writers -> {"out", "queued", "writing"}]
      /\ \A v, w \in Writers : pc[v] = "writing" /\ pc[w] = "writing" => v = w
  BY DEF TurnsInv, TurnsTypeOK, OneTurn, Holders
<1>1. ASSUME NEW w \in Writers, NEW bytes \in Sizes, NEW hurry \in BOOLEAN,
             NEW compressAfter \in BOOLEAN, Write(w, bytes, hurry, compressAfter)
      PROVE  StreamInv'
  <2>1. /\ pc[w] = "out"
        /\ \A v \in Writers \ {w} : pc'[v] = pc[v]
    BY <1>0, <1>1 DEF Write, AcquireFree, AcquireHeld
  <2>2. midway # w
    BY <2>1, WritersAssumption DEF StreamInv, StreamInStep
  <2>3. compressor' => turning' = NoWriter
    BY <1>1 DEF Write, StreamInv, StreamInStep
  <2> QED BY <1>1, <2>1, <2>2, <2>3 DEF Write, StreamInv, StreamInStep
<1>2. ASSUME NEW w \in Writers, Refuse(w) PROVE StreamInv'
  BY <1>2 DEF Refuse, StreamInv, StreamInStep, streamVars, turnVars
<1>3. ASSUME NEW w \in Writers, TurnComes(w) PROVE StreamInv'
  <2>1. /\ pc[w] = "queued"
        /\ \A v \in Writers \ {w} : pc'[v] = pc[v]
    BY <1>0, <1>3 DEF TurnComes, Wake
  <2>2. midway # w
    BY <2>1, WritersAssumption DEF StreamInv, StreamInStep
  <2> QED BY <1>3, <2>1, <2>2 DEF TurnComes, streamVars, StreamInv, StreamInStep
<1>4. ASSUME NEW w \in Writers, TakeIn(w) PROVE StreamInv'
  BY <1>4, WritersAssumption DEF TakeIn, turnVars, StreamInv, StreamInStep
<1>5. ASSUME NEW w \in Writers, Sent(w) PROVE StreamInv'
  <2>1. turning' = NoWriter \/ (turning' = turning /\ turning # w)
    BY <1>5 DEF Sent
  <2>2. compressor' => turning' = NoWriter
    BY <1>5, <2>1 DEF Sent, StreamInv, StreamInStep
  <2> QED BY <1>5, <2>2 DEF Sent, StreamInv, StreamInStep
<1>6. ASSUME NEW w \in Writers, Fail(w) PROVE StreamInv'
  BY <1>6, AbandonKeepsStream DEF Fail, Leave, UncountAndClose
<1>7. ASSUME NEW w \in Writers, CancelWriting(w) \/ CancelWaiting(w) PROVE StreamInv'
  <2>1. /\ Abandon(w) /\ UNCHANGED <<closed, ended>>
        /\ pc[w] # "out" /\ pc' = [pc EXCEPT ![w] = "out"]
        /\ w \in Visitors \/ ended
    BY <1>7 DEF CancelWriting, CancelWaiting, Leave, CancelQueued, CancelHanded, Cancellable
  <2>2. closed \/ w \in Visitors
    BY <2>1 DEF StreamInv
  <2> QED BY <2>1, <2>2, AbandonKeepsStream
<1>8. CASE Close \/ EndScope
  BY <1>8 DEF Close, EndScope, streamVars, turnVars, StreamInv, StreamInStep
<1>9. CASE \E d \in Drainers : Drain(d) \/ DrainWoken(d)
  BY <1>9 DEF Drain, DrainWoken, DrainAgain, streamVars, turnVars, StreamInv, StreamInStep
<1>10. CASE UNCHANGED socketVars
  BY <1>10 DEF socketVars, streamVars, turnVars, StreamInv, StreamInStep
<1> QED BY <1>1, <1>2, <1>3, <1>4, <1>5, <1>6, <1>7, <1>8, <1>9, <1>10 DEF SocketNext

\* The stream's invariant, always.
LEMMA StreamAlways == SocketSafety => []StreamInv
<1>1. SocketSafety => []TurnsInv
  <2>1. TurnsSafety => []TurnsInv
    BY TurnsInitInv, TurnsStepInv, PTL DEF TurnsSafety
  <2> QED BY <2>1, SocketImplementsTurns, PTL
<1> QED BY <1>1, StreamInitInv, StreamStepInv, PTL DEF SocketSafety

\* The switch to zstd falls between two packets, and nothing is compressed
\* before it or plain after it.
THEOREM SocketStreamInStep == SocketSafety => []StreamInStep
<1>1. StreamInv => StreamInStep
  BY DEF StreamInv
<1> QED BY <1>1, StreamAlways, PTL

\* A part of a packet of the connection's own tasks is the last thing in its
\* stream, whatever fails, closes or is cancelled.
THEOREM SocketOwnPacketsWhole == SocketSafety => []OwnPacketsWhole
<1>1. StreamInv => OwnPacketsWhole
  BY DEF StreamInv, OwnPacketsWhole
<1> QED BY <1>1, StreamAlways, PTL

-----------------------------------------------------------------------------
\* What the count rests on: every writer counts the packet it is at, and no
\* other, and what is counted is finite.
CountInv ==
    /\ size \in [Writers -> Sizes \cup {0}]
    /\ IsFiniteSet(Bytes)
    /\ Backlog

\* A packet counts as many bytes as it has.
LEMMA PacketCounts ==
    ASSUME NEW w, NEW n \in Nat
    PROVE  IsFiniteSet({w} \X (1 .. n)) /\ Cardinality({w} \X (1 .. n)) = n
<1>1. IsFiniteSet({w}) /\ Cardinality({w}) = 1
  BY FS_Singleton
<1>2. IsFiniteSet(1 .. n) /\ Cardinality(1 .. n) = n
  BY FS_Interval
<1> DEFINE one == {w}
           bytes == 1 .. n
<1>3. IsFiniteSet(one) /\ IsFiniteSet(bytes) /\ Cardinality(one) = 1 /\ Cardinality(bytes) = n
  BY <1>1, <1>2
<1> HIDE DEF one, bytes
<1>4. /\ IsFiniteSet(one \X bytes)
      /\ Cardinality(one \X bytes) = Cardinality(one) * Cardinality(bytes)
  BY <1>3, FS_Product
<1>5. Cardinality(one \X bytes) = n
  BY <1>3, <1>4
<1> QED BY <1>4, <1>5 DEF one, bytes

\* A size is a number.
LEMMA SizesAreNumbers ==
    ASSUME CountInv
    PROVE  /\ size \in [Writers -> Nat]
           /\ outstanding = Cardinality(Bytes) /\ outstanding \in Nat
<1>1. size \in [Writers -> Nat]
  <2>1. Sizes \cup {0} \subseteq Nat
    BY SocketAssumption
  <2> QED BY <2>1 DEF CountInv
<1>2. IsFiniteSet(Bytes) /\ outstanding = Cardinality(Bytes)
  BY DEF CountInv, Backlog
<1> QED BY <1>1, <1>2, FS_CardinalityType

\* A packet that is written adds its bytes to the count.
LEMMA WriteCounts ==
    ASSUME CountInv, NEW w \in Writers, size[w] = 0,
           NEW bytes \in Sizes, size' = [size EXCEPT ![w] = bytes]
    PROVE  IsFiniteSet(Bytes') /\ Cardinality(Bytes') = Cardinality(Bytes) + bytes
<1>1. size \in [Writers -> Nat] /\ bytes \in Nat
  BY SizesAreNumbers, SocketAssumption
<1>2. size'[w] = bytes /\ \A v \in Writers \ {w} : size'[v] = size[v]
  BY <1>1
<1> DEFINE packet == {w} \X (1 .. bytes)
<1>3. Bytes' = Bytes \cup packet
  BY <1>1, <1>2 DEF Bytes
<1>4. Bytes \cap packet = {}
  BY <1>1 DEF Bytes
<1>5. IsFiniteSet(Bytes) /\ Cardinality(Bytes) \in Nat /\ Cardinality({}) = 0
  BY SizesAreNumbers, FS_EmptySet DEF CountInv
<1>6. IsFiniteSet(packet) /\ Cardinality(packet) = bytes
  BY <1>1, PacketCounts
<1> HIDE DEF packet
<1>7. IsFiniteSet(Bytes \cup packet)
      /\ Cardinality(Bytes \cup packet)
            = Cardinality(Bytes) + Cardinality(packet) - Cardinality(Bytes \cap packet)
  BY <1>5, <1>6, FS_Union
<1> QED BY <1>1, <1>3, <1>4, <1>5, <1>6, <1>7

\* A packet that is out, or given up, takes its bytes out of the count.
LEMMA UncountCounts ==
    ASSUME CountInv, NEW w \in Writers, size' = [size EXCEPT ![w] = 0]
    PROVE  IsFiniteSet(Bytes') /\ Cardinality(Bytes') = Cardinality(Bytes) - size[w]
<1>1. size \in [Writers -> Nat]
  BY SizesAreNumbers
<1>2. size'[w] = 0 /\ \A v \in Writers \ {w} : size'[v] = size[v]
  BY <1>1
<1> DEFINE packet == {w} \X (1 .. size[w])
<1>3. Bytes' = Bytes \ packet
  BY <1>1, <1>2 DEF Bytes
<1>4. Bytes \cap packet = packet
  BY <1>1 DEF Bytes
<1>5. IsFiniteSet(packet) /\ Cardinality(packet) = size[w]
  BY <1>1, PacketCounts
<1> HIDE DEF packet
<1>6. IsFiniteSet(Bytes \ packet)
      /\ Cardinality(Bytes \ packet) = Cardinality(Bytes) - Cardinality(Bytes \cap packet)
  BY FS_Difference DEF CountInv
<1> QED BY <1>3, <1>4, <1>5, <1>6

\* A task that leaves its turn, and what it counted, keeps the rest.
LEMMA UncountKeeps ==
    ASSUME CountInv, NEW w \in Writers,
           pc \in [Writers -> {"out", "queued", "writing"}],
           pc' = [pc EXCEPT ![w] = "out"],
           size' = [size EXCEPT ![w] = 0],
           outstanding' = outstanding - size[w]
    PROVE  CountInv' /\ outstanding' \in Nat
<1>1. /\ size \in [Writers -> Nat]
      /\ outstanding = Cardinality(Bytes) /\ outstanding \in Nat
  BY SizesAreNumbers
<1>2. size' \in [Writers -> Sizes \cup {0}]
  BY DEF CountInv
<1>3. IsFiniteSet(Bytes') /\ outstanding' = Cardinality(Bytes')
  BY <1>1, UncountCounts
<1>4. outstanding' \in Nat /\ outstanding' <= outstanding
  BY <1>1, <1>3, FS_CardinalityType
<1>5. \A v \in Writers : size'[v] > 0 <=> pc'[v] # "out"
  BY <1>1 DEF CountInv, Backlog
<1>6. outstanding' > 0 => \E bytes \in Sizes : outstanding' <= TooSlow + bytes
  <2>1. SUFFICES ASSUME outstanding' > 0
                 PROVE  \E bytes \in Sizes : outstanding' <= TooSlow + bytes
    OBVIOUS
  <2>2. PICK bytes \in Sizes : outstanding <= TooSlow + bytes
    BY <1>1, <1>4, <2>1 DEF CountInv, Backlog
  <2> QED BY <1>1, <1>4, <2>2, SocketAssumption
<1> QED BY <1>2, <1>3, <1>4, <1>5, <1>6 DEF CountInv, Backlog

\* Every step keeps the count.
LEMMA CountStepInv == TurnsInv /\ CountInv /\ [SocketNext]_socketVars => CountInv'
<1> SUFFICES ASSUME TurnsInv, CountInv, [SocketNext]_socketVars PROVE CountInv'
  OBVIOUS
<1>0. /\ pc \in [Writers -> {"out", "queued", "writing"}]
      /\ size \in [Writers -> Nat]
      /\ outstanding = Cardinality(Bytes) /\ outstanding \in Nat
  BY SizesAreNumbers DEF TurnsInv, TurnsTypeOK
<1> ASSUME UNCHANGED <<pc, size, outstanding>> PROVE CountInv'
  <2>1. Bytes' = Bytes
    BY DEF Bytes
  <2> QED BY <2>1 DEF CountInv, Backlog
<1>1. ASSUME NEW w \in Writers, NEW bytes \in Sizes, NEW hurry \in BOOLEAN,
             NEW compressAfter \in BOOLEAN, Write(w, bytes, hurry, compressAfter)
      PROVE  CountInv'
  <2>1. /\ pc[w] = "out" /\ pc'[w] # "out"
        /\ \A v \in Writers \ {w} : pc'[v] = pc[v]
    BY <1>0, <1>1 DEF Write, AcquireFree, AcquireHeld
  <2>2. /\ outstanding <= TooSlow /\ outstanding' = outstanding + bytes
        /\ size' = [size EXCEPT ![w] = bytes]
    BY <1>1 DEF Write
  <2>3. size[w] = 0 /\ bytes \in Nat /\ bytes > 0 /\ TooSlow \in Nat
    BY <1>0, <2>1, SocketAssumption DEF CountInv, Backlog
  <2>4. IsFiniteSet(Bytes') /\ outstanding' = Cardinality(Bytes')
    BY <1>0, <2>2, <2>3, WriteCounts
  <2>5. outstanding' <= TooSlow + bytes
    BY <1>0, <2>2, <2>3
  <2>6. \A v \in Writers : size'[v] > 0 <=> pc'[v] # "out"
    BY <1>0, <2>1, <2>2, <2>3 DEF CountInv, Backlog
  <2>7. size' \in [Writers -> Sizes \cup {0}]
    BY <2>2 DEF CountInv
  <2> QED BY <2>4, <2>5, <2>6, <2>7 DEF CountInv, Backlog
<1>2. ASSUME NEW w \in Writers, TurnComes(w) PROVE CountInv'
  <2>1. \A v \in Writers : pc'[v] # "out" <=> pc[v] # "out"
    BY <1>0, <1>2 DEF TurnComes, Wake
  <2> QED BY <1>2, <2>1 DEF TurnComes, CountInv, Backlog, Bytes
<1>3. ASSUME NEW w \in Writers,
             Sent(w) \/ Fail(w) \/ CancelWriting(w) \/ CancelWaiting(w)
      PROVE  CountInv'
  <2>1. /\ pc' = [pc EXCEPT ![w] = "out"]
        /\ size' = [size EXCEPT ![w] = 0]
        /\ outstanding' = outstanding - size[w]
    BY <1>3 DEF Sent, Fail, CancelWriting, CancelWaiting, Leave, CancelQueued,
                CancelHanded, Uncount, UncountAndClose
  <2> QED BY <1>0, <2>1, UncountKeeps
<1>4. ASSUME NEW w \in Writers, Refuse(w) \/ TakeIn(w) PROVE CountInv'
  BY <1>4 DEF Refuse, TakeIn, turnVars
<1>5. CASE Close \/ EndScope \/ \E d \in Drainers : Drain(d) \/ DrainWoken(d)
  BY <1>5 DEF Close, EndScope, Drain, DrainWoken, DrainAgain, turnVars
<1>6. CASE UNCHANGED socketVars
  BY <1>6 DEF socketVars, turnVars
<1> QED BY <1>1, <1>2, <1>3, <1>4, <1>5, <1>6 DEF SocketNext

\* The count holds at the start, of nothing.
LEMMA CountInitInv == SocketInit => CountInv
<1> SUFFICES ASSUME SocketInit PROVE CountInv
  OBVIOUS
<1>1. Bytes = {}
  BY DEF SocketInit, Bytes
<1> QED BY <1>1, FS_EmptySet DEF SocketInit, TurnsInit, CountInv, Backlog

\* The turns keep their invariant on the connection, and so does the count.
LEMMA CountAlways == SocketSafety => [](TurnsInv /\ CountInv)
<1>1. TurnsSafety => []TurnsInv
  BY TurnsInitInv, TurnsStepInv, PTL DEF TurnsSafety
<1>2. SocketSafety => []TurnsInv
  BY <1>1, SocketImplementsTurns, PTL
<1> QED BY <1>2, CountInitInv, CountStepInv, PTL DEF SocketSafety

\* `outstanding` is the bytes of the packets that wait or are on their way,
\* and one client holds no more than `TOO_SLOW_BYTES` and one packet.
THEOREM SocketBacklog == SocketSafety => []Backlog
<1>1. CountInv => Backlog
  BY DEF CountInv
<1> QED BY <1>1, CountAlways, PTL

-----------------------------------------------------------------------------
\* What keeps a drainer from sleeping on: it waits on an event that is there
\* and not set, and the connection is open with something outstanding.
DrainInv ==
    /\ {closed, ended} \subseteq BOOLEAN
    /\ turning \in Writers \cup {NoWriter}
    /\ empty \in {"none", "unset", "set"}
    /\ drain \in [Drainers -> {"out", "waiting", "woken"}]
    /\ NoDrainerForgotten

\* Whoever sets the event wakes them all.
LEMMA SetEmptyWakes ==
    ASSUME DrainInv, SetEmpty, closed' \in BOOLEAN, ended' \in BOOLEAN,
           turning' \in Writers \cup {NoWriter}
    PROVE  DrainInv'
<1>1. drain' = [d \in Drainers |-> IF drain[d] = "waiting" THEN "woken" ELSE drain[d]]
  BY DEF SetEmpty
<1>2. \A d \in Drainers : drain'[d] # "waiting"
  BY <1>1
<1>3. drain' \in [Drainers -> {"out", "waiting", "woken"}]
  BY <1>1 DEF DrainInv
<1>4. empty' \in {"none", "unset", "set"}
  BY DEF SetEmpty, DrainInv
<1> QED BY <1>2, <1>3, <1>4 DEF DrainInv, NoDrainerForgotten

\* A packet that no longer counts wakes them when it was the last.
LEMMA UncountWakes ==
    ASSUME DrainInv, NEW w \in Writers, Uncount(w), UNCHANGED <<closed, ended>>,
           outstanding' \in Nat, turning' \in Writers \cup {NoWriter}
    PROVE  DrainInv'
<1>1. CASE outstanding' = 0
  BY <1>1, SetEmptyWakes DEF Uncount, DrainInv
<1>2. CASE outstanding' # 0
  <2>1. UNCHANGED <<empty, drain>> /\ outstanding' > 0
    BY <1>2 DEF Uncount, drainVars
  <2> QED BY <2>1 DEF DrainInv, NoDrainerForgotten
<1> QED BY <1>1, <1>2

\* A drainer goes to sleep only where it has to wait, on an event that is
\* unset for all who wait.
LEMMA DrainAgainWaits ==
    ASSUME DrainInv, NEW d \in Drainers, DrainAgain(d)
    PROVE  DrainInv'
<1>1. UNCHANGED <<closed, ended, outstanding, turning>>
  BY DEF DrainAgain, streamVars
<1>2. CASE outstanding > 0 /\ ~closed
  BY <1>1, <1>2 DEF DrainAgain, DrainInv, NoDrainerForgotten
<1>3. CASE ~(outstanding > 0 /\ ~closed)
  <2>1. drain' = [drain EXCEPT ![d] = "out"] /\ UNCHANGED empty
    BY <1>3 DEF DrainAgain
  <2>2. \A e \in Drainers : drain'[e] = "waiting" => drain[e] = "waiting"
    BY <2>1 DEF DrainInv
  <2> QED BY <1>1, <2>1, <2>2 DEF DrainInv, NoDrainerForgotten
<1> QED BY <1>2, <1>3

\* Every step keeps it: what is outstanding only falls in `Uncount`, and the
\* connection only closes with the event set.
LEMMA DrainStepInv ==
    TurnsInv /\ CountInv /\ CountInv' /\ DrainInv /\ [SocketNext]_socketVars => DrainInv'
<1> SUFFICES ASSUME TurnsInv, CountInv, CountInv', DrainInv, [SocketNext]_socketVars
             PROVE  DrainInv'
  OBVIOUS
<1>0. /\ outstanding \in Nat /\ outstanding' \in Nat
      /\ closed \in BOOLEAN /\ ended \in BOOLEAN /\ turning \in Writers \cup {NoWriter}
  <2>1. outstanding' \in Nat
    BY FS_CardinalityType DEF CountInv, Backlog
  <2> QED BY <2>1, SizesAreNumbers DEF DrainInv
<1>1. ASSUME NEW w \in Writers, NEW bytes \in Sizes, NEW hurry \in BOOLEAN,
             NEW compressAfter \in BOOLEAN, Write(w, bytes, hurry, compressAfter)
      PROVE  DrainInv'
  <2>1. outstanding' = outstanding + bytes /\ bytes \in Nat
    BY <1>1, SocketAssumption DEF Write
  <2>2. outstanding > 0 => outstanding' > 0
    BY <1>0, <2>1
  <2> QED BY <1>0, <1>1, <2>2 DEF Write, drainVars, DrainInv, NoDrainerForgotten
<1>2. ASSUME NEW w \in Writers, TurnComes(w) \/ TakeIn(w) PROVE DrainInv'
  BY <1>2 DEF TurnComes, TakeIn, streamVars, drainVars, DrainInv, NoDrainerForgotten
<1>3. ASSUME NEW w \in Writers, Sent(w) PROVE DrainInv'
  BY <1>0, <1>3, UncountWakes DEF Sent
<1>4. ASSUME NEW w \in Writers, CancelWriting(w) \/ CancelWaiting(w) PROVE DrainInv'
  <2>1. Abandon(w) /\ Uncount(w) /\ UNCHANGED <<closed, ended>>
    BY <1>4 DEF CancelWriting, CancelWaiting
  <2>2. turning' \in Writers \cup {NoWriter}
    BY <1>0, <2>1 DEF Abandon
  <2> QED BY <1>0, <2>1, <2>2, UncountWakes
<1>5. ASSUME NEW w \in Writers, Fail(w) PROVE DrainInv'
  <2>1. turning' \in Writers \cup {NoWriter}
    BY <1>0, <1>5 DEF Fail, Abandon
  <2> QED BY <1>0, <1>5, <2>1, SetEmptyWakes DEF Fail, UncountAndClose
<1>6. ASSUME NEW w \in Writers, Refuse(w) PROVE DrainInv'
  BY <1>0, <1>6, SetEmptyWakes DEF Refuse, streamVars
<1>7. CASE Close
  BY <1>0, <1>7, SetEmptyWakes DEF Close, streamVars
<1>8. CASE EndScope
  BY <1>8 DEF EndScope, streamVars, drainVars, DrainInv, NoDrainerForgotten
<1>9. CASE \E d \in Drainers : Drain(d) \/ DrainWoken(d)
  BY <1>9, DrainAgainWaits DEF Drain, DrainWoken
<1>10. CASE UNCHANGED socketVars
  BY <1>10 DEF socketVars, streamVars, drainVars, DrainInv, NoDrainerForgotten
<1> QED BY <1>1, <1>2, <1>3, <1>4, <1>5, <1>6, <1>7, <1>8, <1>9, <1>10 DEF SocketNext

\* Together with the count, the drainers' invariant always holds.
LEMMA DrainAlways == SocketSafety => [](TurnsInv /\ CountInv /\ DrainInv)
<1>1. SocketInit => DrainInv
  BY DEF SocketInit, DrainInv, NoDrainerForgotten
<1> QED BY <1>1, CountAlways, DrainStepInv, PTL DEF SocketSafety

\* Nobody sleeps in `drained` on a connection that is closed or that has
\* nothing left to send, however its packets ended.
THEOREM SocketNoDrainerForgotten == SocketSafety => []NoDrainerForgotten
<1>1. DrainInv => NoDrainerForgotten
  BY DEF DrainInv
<1> QED BY <1>1, DrainAlways, PTL

\* The types of the whole connection.
THEOREM SocketTyped == SocketSafety => []SocketTypeOK
<1>1. TurnsInv /\ CountInv /\ StreamInv /\ DrainInv => SocketTypeOK
  <2> SUFFICES ASSUME TurnsInv, CountInv, StreamInv, DrainInv PROVE SocketTypeOK
    OBVIOUS
  <2>1. TurnsTypeOK /\ outstanding \in Nat /\ size \in [Writers -> Sizes \cup {0}]
    BY SizesAreNumbers DEF TurnsInv, CountInv
  <2> QED BY <2>1 DEF StreamInv, DrainInv, SocketTypeOK
<1> QED BY <1>1, DrainAlways, StreamAlways, PTL

-----------------------------------------------------------------------------
(* The channels of `wait-for`. *)

\* What the proofs need of the types.
ChannelTypes ==
    /\ made \subseteq Channels
    /\ woken \in [Channels -> BOOLEAN]
    /\ locked \in [Channels -> BOOLEAN]
    /\ waiters \in [Channels -> SUBSET Clients]
    /\ lockers \in [Channels -> Seq(Clients)]
    /\ granted \in [Channels -> SUBSET Clients]

\* The lock of a channel, in a form that is inductive: held by one client that
\* was told so, or free with nobody told and nobody queued.
LockInv ==
    \A ch \in Channels :
        IF locked[ch] THEN \E c \in Clients : granted[ch] = {c}
                      ELSE granted[ch] = {} /\ lockers[ch] = <<>>

ChannelInv == ChannelTypes /\ LockInv /\ ChannelsRemembered

\* A handler that changes one channel and ends by keeping or forgetting it.
LEMMA RememberKeeps ==
    ASSUME ChannelTypes, ChannelsRemembered, NEW ch \in Channels, Remember(ch),
           \A other \in Channels \ {ch} :
              /\ woken'[other] = woken[other] /\ locked'[other] = locked[other]
              /\ waiters'[other] = waiters[other] /\ lockers'[other] = lockers[other]
    PROVE  ChannelsRemembered' /\ made' \subseteq Channels
<1>1. ASSUME NEW other \in Channels \ {ch} PROVE other \in made' <=> other \in made
  BY DEF Remember
<1> QED BY <1>1 DEF Remember, ChannelsRemembered, ChannelTypes

\* Every step keeps the invariant: each handler changes one channel, and ends
\* by keeping or forgetting that one.
LEMMA ChannelStepInv == ChannelInv /\ [Next]_vars => ChannelInv'
<1> SUFFICES ASSUME ChannelInv, [Next]_vars PROVE ChannelInv'
  OBVIOUS
<1>0. ChannelTypes /\ LockInv /\ ChannelsRemembered
  BY DEF ChannelInv
<1>1. ASSUME NEW ch \in Channels, Signal(ch) PROVE ChannelInv'
  <2>1. /\ woken' \in [Channels -> BOOLEAN] /\ waiters' \in [Channels -> SUBSET Clients]
        /\ \A d \in Channels \ {ch} : woken'[d] = woken[d] /\ waiters'[d] = waiters[d]
        /\ UNCHANGED <<locked, lockers, granted>> /\ Remember(ch)
    BY <1>0, <1>1 DEF Signal, ChannelTypes
  <2> QED BY <1>0, <2>1, RememberKeeps DEF ChannelInv, ChannelTypes, LockInv
<1>2. ASSUME NEW c \in Clients, NEW ch \in Channels, Wait(c, ch) PROVE ChannelInv'
  <2>1. /\ woken' \in [Channels -> BOOLEAN] /\ waiters' \in [Channels -> SUBSET Clients]
        /\ \A d \in Channels \ {ch} : woken'[d] = woken[d] /\ waiters'[d] = waiters[d]
        /\ UNCHANGED <<locked, lockers, granted>> /\ Remember(ch)
    <3>1. waiters[ch] \cup {c} \subseteq Clients
      BY <1>0 DEF ChannelTypes
    <3>2. CASE woken[ch]
      BY <1>0, <1>2, <3>2 DEF Wait, ChannelTypes
    <3>3. CASE ~woken[ch]
      BY <1>0, <1>2, <3>1, <3>3 DEF Wait, ChannelTypes
    <3> QED BY <3>2, <3>3
  <2> QED BY <1>0, <2>1, RememberKeeps DEF ChannelInv, ChannelTypes, LockInv
<1>3. ASSUME NEW c \in Clients, NEW ch \in Channels, Lock(c, ch) PROVE ChannelInv'
  <2>0. UNCHANGED <<woken, waiters>> /\ Remember(ch)
    BY <1>3 DEF Lock
  <2>1. CASE locked[ch]
    <3>1. Append(lockers[ch], c) \in Seq(Clients)
      BY <1>0 DEF ChannelTypes
    <3>2. /\ lockers' = [lockers EXCEPT ![ch] = Append(lockers[ch], c)]
          /\ UNCHANGED <<locked, granted>>
      BY <1>3, <2>1 DEF Lock
    <3>3. /\ lockers' \in [Channels -> Seq(Clients)]
          /\ \A d \in Channels \ {ch} : lockers'[d] = lockers[d]
      BY <1>0, <3>1, <3>2 DEF ChannelTypes
    <3>4. LockInv'
      BY <1>0, <2>1, <3>2, <3>3 DEF LockInv
    <3> QED BY <1>0, <2>0, <3>2, <3>3, <3>4, RememberKeeps DEF ChannelInv, ChannelTypes
  <2>2. CASE ~locked[ch]
    <3>1. /\ locked' = [locked EXCEPT ![ch] = TRUE]
          /\ granted' = [granted EXCEPT ![ch] = {c}]
          /\ lockers' = lockers
      BY <1>0, <1>3, <2>2 DEF Lock, LockInv
    <3>2. LockInv'
      BY <1>0, <3>1 DEF LockInv, ChannelTypes
    <3> QED BY <1>0, <2>0, <3>1, <3>2, RememberKeeps DEF ChannelInv, ChannelTypes
  <2> QED BY <2>1, <2>2
<1>4. ASSUME NEW ch \in Channels, Unlock(ch) PROVE ChannelInv'
  <2>0. UNCHANGED <<woken, waiters>> /\ Remember(ch)
    BY <1>4 DEF Unlock
  <2>1. CASE locked[ch] /\ lockers[ch] # <<>>
    <3>1. lockers[ch] \in Seq(Clients)
      BY <1>0 DEF ChannelTypes
    <3>2. Head(lockers[ch]) \in Clients /\ Tail(lockers[ch]) \in Seq(Clients)
      BY <2>1, <3>1
    <3>3. /\ lockers' = [lockers EXCEPT ![ch] = Tail(lockers[ch])]
          /\ granted' = [granted EXCEPT ![ch] = {Head(lockers[ch])}]
          /\ locked' = locked
      BY <1>4, <2>1 DEF Unlock
    <3>4. /\ lockers' \in [Channels -> Seq(Clients)]
          /\ granted' \in [Channels -> SUBSET Clients]
          /\ \A d \in Channels \ {ch} : lockers'[d] = lockers[d] /\ granted'[d] = granted[d]
      BY <1>0, <3>2, <3>3 DEF ChannelTypes
    <3>5. LockInv'
      BY <1>0, <2>1, <3>2, <3>3, <3>4 DEF LockInv, ChannelTypes
    <3> QED BY <1>0, <2>0, <3>3, <3>4, <3>5, RememberKeeps DEF ChannelInv, ChannelTypes
  <2>2. CASE ~(locked[ch] /\ lockers[ch] # <<>>)
    <3>1. /\ locked' = [locked EXCEPT ![ch] = FALSE]
          /\ granted' = [granted EXCEPT ![ch] = {}]
          /\ lockers' = lockers
      BY <1>4, <2>2 DEF Unlock
    <3>2. lockers[ch] = <<>>
      BY <1>0, <2>2 DEF LockInv
    <3>3. LockInv'
      BY <1>0, <3>1, <3>2 DEF LockInv, ChannelTypes
    <3> QED BY <1>0, <2>0, <3>1, <3>3, RememberKeeps DEF ChannelInv, ChannelTypes
  <2> QED BY <2>1, <2>2
<1>5. ASSUME UNCHANGED <<channelVars, granted>> PROVE ChannelInv'
  BY <1>0, <1>5 DEF channelVars, ChannelInv, ChannelTypes, LockInv, ChannelsRemembered
<1>6. ASSUME NEW c \in Clients, GoOn(c) \/ Go(c) PROVE ChannelInv'
  BY <1>5, <1>6 DEF GoOn, Go
<1>7. CASE Upgrade
  BY <1>5, <1>7 DEF Upgrade
<1>8. CASE UNCHANGED vars
  BY <1>5, <1>8 DEF vars
<1> QED BY <1>1, <1>2, <1>3, <1>4, <1>6, <1>7, <1>8 DEF Next

\* The invariant, always.
LEMMA ChannelAlways == Spec => []ChannelInv
<1>1. Init => ChannelInv
  BY DEF Init, ChannelInv, ChannelTypes, LockInv, ChannelsRemembered
<1> QED BY <1>1, ChannelStepInv, PTL DEF Spec

\* A lock is one script's at a time, across upgrades too.
THEOREM LockHasOneHolder == Spec => []OneHolder
<1>1. ChannelInv => OneHolder
  <2> SUFFICES ASSUME ChannelInv, NEW ch \in Channels
               PROVE  Cardinality(granted[ch]) = IF locked[ch] THEN 1 ELSE 0
    BY DEF OneHolder
  <2>1. CASE locked[ch]
    BY <2>1, FS_Singleton DEF ChannelInv, LockInv
  <2>2. CASE ~locked[ch]
    BY <2>2, FS_EmptySet DEF ChannelInv, LockInv
  <2> QED BY <2>1, <2>2
<1> QED BY <1>1, ChannelAlways, PTL

\* What was appended to a queue, or taken from it, is an arrival or a turn.
LEMMA LockStepInOrder ==
    ASSUME ChannelInv, [Next]_vars, NEW ch \in Channels
    PROVE  /\ lockers[ch] # <<>> /\ granted'[ch] # granted[ch] => granted'[ch] = {Head(lockers[ch])}
           /\ \/ lockers'[ch] = lockers[ch]
              \/ lockers[ch] # <<>> /\ lockers'[ch] = Tail(lockers[ch])
              \/ \E c \in Clients : lockers'[ch] = Append(lockers[ch], c)
<1>0. ChannelTypes /\ LockInv
  BY DEF ChannelInv
<1>1. CASE UNCHANGED <<lockers, granted>>
  BY <1>1
<1>2. ASSUME NEW d \in Channels, Unlock(d)
      PROVE  \/ lockers'[ch] = lockers[ch] /\ (granted'[ch] = granted[ch] \/ lockers[ch] = <<>>)
             \/ /\ lockers[ch] # <<>> /\ lockers'[ch] = Tail(lockers[ch])
                /\ granted'[ch] = {Head(lockers[ch])}
  BY <1>0, <1>2 DEF Unlock, ChannelTypes, LockInv
<1>3. ASSUME NEW c \in Clients, NEW d \in Channels, Lock(c, d)
      PROVE  \/ lockers'[ch] = lockers[ch] /\ (granted'[ch] = granted[ch] \/ lockers[ch] = <<>>)
             \/ lockers'[ch] = Append(lockers[ch], c) /\ granted'[ch] = granted[ch]
  BY <1>0, <1>3 DEF Lock, ChannelTypes, LockInv
<1>4. CASE \E d \in Channels : Signal(d)
  BY <1>1, <1>4 DEF Signal
<1>5. CASE \E c \in Clients, d \in Channels : Wait(c, d)
  BY <1>1, <1>5 DEF Wait
<1>6. CASE (\E c \in Clients : GoOn(c) \/ Go(c)) \/ Upgrade \/ UNCHANGED vars
  BY <1>1, <1>6 DEF GoOn, Go, Upgrade, vars, channelVars
<1> QED BY <1>2, <1>3, <1>4, <1>5, <1>6 DEF Next

\* Lockers have the lock in the order they came, for any clients and channels.
THEOREM LockIsServedInOrder == Spec => LockersInOrder
<1>1. ChannelInv /\ [Next]_vars =>
        [\A ch \in Channels :
          /\ lockers[ch] # <<>> /\ granted'[ch] # granted[ch] => granted'[ch] = {Head(lockers[ch])}
          /\ \/ lockers'[ch] = lockers[ch]
             \/ lockers[ch] # <<>> /\ lockers'[ch] = Tail(lockers[ch])
             \/ \E c \in Clients : lockers'[ch] = Append(lockers[ch], c)]_vars
  BY LockStepInOrder
<1> QED BY <1>1, ChannelAlways, PTL DEF Spec, LockersInOrder
-----------------------------------------------------------------------------
\* A client is in one queue, and there while it says so.
Queueing(c, ch) == c \in ToSet(lockers[ch])

OneSeat ==
    \A c \in Clients, a \in Channels, b \in Channels :
        /\ c \in waiters[a] /\ c \in waiters[b] => a = b
        /\ Queueing(c, a) /\ Queueing(c, b) => a = b

SeatTypes ==
    /\ client \in [Clients -> {"idle", "waits", "locks", "answered", "gone"}]
    /\ \A ch \in Channels : IsInjective(lockers[ch])

SeatInv == ChannelInv /\ SeatTypes /\ OneSeat /\ NobodyWaitsInVain

\* A client that queues for a lock is in the queue, once.
LEMMA AppendSeats ==
    ASSUME NEW queue \in Seq(Clients), NEW c \in Clients, c \notin ToSet(queue), IsInjective(queue)
    PROVE  /\ IsInjective(Append(queue, c))
           /\ ToSet(Append(queue, c)) = ToSet(queue) \cup {c}
<1>1. /\ Append(queue, c) \in Seq(Clients)
      /\ DOMAIN Append(queue, c) = 1..(Len(queue) + 1)
      /\ DOMAIN queue = 1..Len(queue) /\ Len(queue) \in Nat
      /\ \A i \in 1..Len(queue) : Append(queue, c)[i] = queue[i]
      /\ Append(queue, c)[Len(queue) + 1] = c
  OBVIOUS
<1>2. ToSet(Append(queue, c)) = ToSet(queue) \cup {c}
  BY <1>1 DEF ToSet
<1>3. IsInjective(Append(queue, c))
  BY <1>1 DEF IsInjective, ToSet
<1> QED BY <1>2, <1>3

\* The first of a queue leaves it, and nobody else.
LEMMA TailSeats ==
    ASSUME NEW queue \in Seq(Clients), queue # <<>>, IsInjective(queue)
    PROVE  /\ Head(queue) \in Clients
           /\ IsInjective(Tail(queue))
           /\ ToSet(Tail(queue)) = ToSet(queue) \ {Head(queue)}
           /\ Head(queue) \in ToSet(queue)
<1>1. /\ Tail(queue) \in Seq(Clients) /\ Head(queue) = queue[1] /\ Head(queue) \in Clients
      /\ DOMAIN Tail(queue) = 1..(Len(queue) - 1)
      /\ DOMAIN queue = 1..Len(queue) /\ Len(queue) \in Nat \ {0}
      /\ \A i \in 1..(Len(queue) - 1) : Tail(queue)[i] = queue[i + 1]
  OBVIOUS
<1>2. IsInjective(Tail(queue))
  BY <1>1 DEF IsInjective
<1>3. ASSUME NEW v \in ToSet(Tail(queue)) PROVE v \in ToSet(queue) \ {Head(queue)}
  BY <1>1, <1>3 DEF ToSet, IsInjective
<1>4. ASSUME NEW v \in ToSet(queue) \ {Head(queue)} PROVE v \in ToSet(Tail(queue))
  <2>1. PICK i \in 1..Len(queue) : v = queue[i]
    BY <1>1, <1>4 DEF ToSet
  <2>2. i # 1 /\ i - 1 \in 1..(Len(queue) - 1) /\ Tail(queue)[i - 1] = v
    BY <1>1, <1>4, <2>1
  <2> QED BY <1>1, <2>2 DEF ToSet
<1>5. Head(queue) \in ToSet(queue)
  BY <1>1 DEF ToSet
<1> QED BY <1>1, <1>2, <1>3, <1>4, <1>5

\* A step that leaves the seats alone, with no signal before a waiter and no
\* free lock before a locker.
LEMMA SeatsStay ==
    ASSUME SeatTypes, OneSeat, NobodyWaitsInVain, UNCHANGED <<waiters, lockers, client>>,
           \A d \in Channels : woken'[d] => waiters[d] = {},
           \A d \in Channels : lockers[d] # <<>> => locked'[d]
    PROVE  SeatTypes' /\ OneSeat' /\ NobodyWaitsInVain'
BY DEF SeatTypes, OneSeat, Queueing, NobodyWaitsInVain

\* Every step keeps each client in its seat: it sits down when it is idle,
\* and whoever ends its wait takes it out of the one queue it is in.
LEMMA SeatStepInv == SeatInv /\ [Next]_vars => SeatInv'
<1> SUFFICES ASSUME SeatInv, [Next]_vars PROVE SeatInv'
  OBVIOUS
<1>0. /\ ChannelTypes /\ LockInv /\ SeatTypes /\ OneSeat /\ NobodyWaitsInVain
      /\ ChannelInv'
  BY ChannelStepInv DEF SeatInv, ChannelInv
<1>1. ASSUME NEW ch \in Channels, Signal(ch) PROVE SeatInv'
  <2>1. UNCHANGED <<locked, lockers>>
    BY <1>1 DEF Signal
  <2>2. CASE waiters[ch] = {}
    <3>1. /\ UNCHANGED <<waiters, client>>
          /\ \A d \in Channels : woken'[d] => waiters[d] = {}
      <4>1. woken' = [woken EXCEPT ![ch] = TRUE] /\ UNCHANGED <<waiters, client>>
        BY <1>1, <2>2 DEF Signal
      <4> QED BY <1>0, <2>2, <4>1 DEF ChannelTypes, NobodyWaitsInVain
    <3>2. \A d \in Channels : lockers[d] # <<>> => locked'[d]
      BY <1>0, <2>1 DEF NobodyWaitsInVain
    <3> QED BY <1>0, <2>1, <3>1, <3>2, SeatsStay DEF SeatInv
  <2>3. CASE waiters[ch] # {}
    <3>1. /\ waiters'[ch] = {} /\ \A d \in Channels \ {ch} : waiters'[d] = waiters[d]
          /\ woken' = woken
          /\ client' \in [Clients -> {"idle", "waits", "locks", "answered", "gone"}]
          /\ \A c \in Clients : client'[c] =
                IF c \in waiters[ch] /\ client[c] = "waits" THEN "answered" ELSE client[c]
      BY <1>0, <1>1, <2>3 DEF Signal, ChannelTypes, SeatTypes
    <3> QED BY <1>0, <2>1, <3>1 DEF SeatInv, SeatTypes, OneSeat, Queueing, NobodyWaitsInVain
  <2> QED BY <2>2, <2>3
<1>2. ASSUME NEW c \in Clients, NEW ch \in Channels, Wait(c, ch) PROVE SeatInv'
  <2>1. UNCHANGED <<locked, lockers>> /\ client[c] = "idle"
    BY <1>2 DEF Wait
  <2>2. CASE woken[ch]
    <3>1. /\ UNCHANGED <<waiters, client>>
          /\ \A d \in Channels : woken'[d] => waiters[d] = {}
      <4>1. woken' = [woken EXCEPT ![ch] = FALSE] /\ UNCHANGED <<waiters, client>>
        BY <1>2, <2>2 DEF Wait
      <4>2. \A d \in Channels : woken'[d] => woken[d]
        BY <1>0, <4>1, Zenon DEF ChannelTypes
      <4> QED BY <1>0, <4>1, <4>2 DEF NobodyWaitsInVain
    <3>2. \A d \in Channels : lockers[d] # <<>> => locked'[d]
      BY <1>0, <2>1 DEF NobodyWaitsInVain
    <3> QED BY <1>0, <2>1, <3>1, <3>2, SeatsStay DEF SeatInv
  <2>3. CASE ~woken[ch]
    <3>1. /\ waiters'[ch] = waiters[ch] \cup {c}
          /\ \A d \in Channels \ {ch} : waiters'[d] = waiters[d]
          /\ woken' = woken
          /\ client' = [client EXCEPT ![c] = "waits"]
      BY <1>0, <1>2, <2>3 DEF Wait, ChannelTypes
    <3>2. \A d \in Channels : c \notin waiters[d] /\ ~Queueing(c, d)
      BY <1>0, <2>1 DEF NobodyWaitsInVain, Queueing
    <3>3. SeatTypes' /\ OneSeat'
      BY <1>0, <2>1, <3>1, <3>2 DEF SeatTypes, OneSeat, Queueing
    <3>4. NobodyWaitsInVain'
      BY <1>0, <2>1, <2>3, <3>1, <3>2 DEF SeatTypes, Queueing, NobodyWaitsInVain
    <3> QED BY <1>0, <3>3, <3>4 DEF SeatInv
  <2> QED BY <2>2, <2>3
<1>3. ASSUME NEW c \in Clients, NEW ch \in Channels, Lock(c, ch) PROVE SeatInv'
  <2>1. UNCHANGED <<woken, waiters>> /\ client[c] = "idle"
    BY <1>3 DEF Lock
  <2>2. \A d \in Channels : c \notin waiters[d] /\ ~Queueing(c, d)
    BY <1>0, <2>1 DEF NobodyWaitsInVain, Queueing
  <2>3. CASE ~locked[ch]
    <3>1. /\ UNCHANGED <<lockers, client>>
          /\ \A d \in Channels : lockers[d] # <<>> => locked'[d]
      BY <1>0, <1>3, <2>3 DEF Lock, ChannelTypes, NobodyWaitsInVain
    <3>2. \A d \in Channels : woken'[d] => waiters[d] = {}
      BY <1>0, <2>1 DEF NobodyWaitsInVain
    <3> QED BY <1>0, <2>1, <3>1, <3>2, SeatsStay DEF SeatInv
  <2>4. CASE locked[ch]
    <3>1. /\ lockers'[ch] = Append(lockers[ch], c)
          /\ \A d \in Channels \ {ch} : lockers'[d] = lockers[d]
          /\ locked' = locked
          /\ client' = [client EXCEPT ![c] = "locks"]
      BY <1>0, <1>3, <2>4 DEF Lock, ChannelTypes
    <3>2. /\ IsInjective(lockers'[ch])
          /\ ToSet(lockers'[ch]) = ToSet(lockers[ch]) \cup {c}
      <4>1. lockers[ch] \in Seq(Clients) /\ c \notin ToSet(lockers[ch]) /\ IsInjective(lockers[ch])
        BY <1>0, <2>2 DEF ChannelTypes, SeatTypes, Queueing
      <4> QED BY <3>1, <4>1, AppendSeats
    <3>3. \A d \in Channels, e \in Clients : Queueing(e, d)' <=> Queueing(e, d) \/ (e = c /\ d = ch)
      BY <3>1, <3>2 DEF Queueing
    <3>4. SeatTypes' /\ OneSeat'
      <4>1. SeatTypes'
        BY <1>0, <3>1, <3>2 DEF SeatTypes
      <4>2. OneSeat'
        BY <1>0, <2>1, <2>2, <3>3 DEF OneSeat
      <4> QED BY <4>1, <4>2
    <3>5. \A d \in Channels : lockers'[d] # <<>> => locked'[d]
      BY <1>0, <2>4, <3>1 DEF NobodyWaitsInVain
    <3>6. NobodyWaitsInVain'
      BY <1>0, <2>1, <2>2, <3>1, <3>3, <3>5 DEF SeatTypes, NobodyWaitsInVain, Queueing
    <3> QED BY <1>0, <3>4, <3>6 DEF SeatInv
  <2> QED BY <2>3, <2>4
<1>4. ASSUME NEW ch \in Channels, Unlock(ch) PROVE SeatInv'
  <2>1. UNCHANGED <<woken, waiters>>
    BY <1>4 DEF Unlock
  <2>2. CASE ~(locked[ch] /\ lockers[ch] # <<>>)
    <3>1. lockers[ch] = <<>>
      BY <1>0, <2>2 DEF LockInv
    <3>2. /\ UNCHANGED <<lockers, client>>
          /\ \A d \in Channels : lockers[d] # <<>> => locked'[d]
      BY <1>0, <1>4, <2>2, <3>1 DEF Unlock, ChannelTypes, NobodyWaitsInVain
    <3>3. \A d \in Channels : woken'[d] => waiters[d] = {}
      BY <1>0, <2>1 DEF NobodyWaitsInVain
    <3> QED BY <1>0, <2>1, <3>2, <3>3, SeatsStay DEF SeatInv
  <2>3. CASE locked[ch] /\ lockers[ch] # <<>>
    <3>0. PICK next \in Clients : next = Head(lockers[ch])
      BY <1>0, <2>3, TailSeats DEF ChannelTypes, SeatTypes
    <3>1. /\ next \in Clients /\ Queueing(next, ch)
          /\ IsInjective(Tail(lockers[ch]))
          /\ ToSet(Tail(lockers[ch])) = ToSet(lockers[ch]) \ {next}
      BY <1>0, <2>3, <3>0, TailSeats DEF ChannelTypes, SeatTypes, Queueing
    <3>2. /\ lockers'[ch] = Tail(lockers[ch])
          /\ \A d \in Channels \ {ch} : lockers'[d] = lockers[d]
          /\ locked' = locked
          /\ client' = IF client[next] = "locks" THEN [client EXCEPT ![next] = "answered"] ELSE client
      BY <1>0, <1>4, <2>3, <3>0 DEF Unlock, ChannelTypes
    <3>3. \A d \in Channels, e \in Clients : Queueing(e, d)' <=> Queueing(e, d) /\ (e # next \/ d # ch)
      BY <3>1, <3>2 DEF Queueing
    <3>4. SeatTypes' /\ OneSeat'
      BY <1>0, <2>1, <3>1, <3>2, <3>3 DEF SeatTypes, OneSeat
    <3>5. \A d \in Channels : ~Queueing(next, d)'
      <4> SUFFICES ASSUME NEW d \in Channels, Queueing(next, d)' PROVE FALSE
        OBVIOUS
      <4>1. Queueing(next, d) /\ d # ch
        BY <3>3
      <4> QED BY <1>0, <3>1, <4>1 DEF OneSeat
    <3>6. \A e \in Clients :
            client'[e] = IF e = next /\ client[e] = "locks" THEN "answered" ELSE client[e]
      BY <1>0, <3>1, <3>2 DEF SeatTypes
    <3>7. \A d \in Channels : lockers'[d] # <<>> => locked'[d]
      BY <1>0, <2>3, <3>2 DEF NobodyWaitsInVain
    <3>8. \A e \in Clients : client[e] = "locks" <=> client[e] # "gone" /\ \E d \in Channels : Queueing(e, d)
      BY <1>0 DEF NobodyWaitsInVain, Queueing
    <3>9. \A e \in Clients : client'[e] = "locks" <=> client'[e] # "gone" /\ \E d \in Channels : Queueing(e, d)'
      BY <3>1, <3>3, <3>5, <3>6, <3>8
    <3>10. \A e \in Clients : client'[e] = "waits" <=> client'[e] # "gone" /\ \E d \in Channels : e \in waiters'[d]
      BY <1>0, <2>1, <3>6 DEF NobodyWaitsInVain
    <3>11. NobodyWaitsInVain'
      BY <1>0, <2>1, <3>7, <3>9, <3>10 DEF NobodyWaitsInVain, Queueing
    <3> QED BY <1>0, <3>4, <3>11 DEF SeatInv
  <2> QED BY <2>2, <2>3
<1>5. ASSUME NEW c \in Clients, GoOn(c) \/ Go(c) PROVE SeatInv'
  BY <1>0, <1>5 DEF GoOn, Go, channelVars, SeatInv, SeatTypes, OneSeat, Queueing, NobodyWaitsInVain
<1>6. CASE Upgrade
  BY <1>0, <1>6 DEF Upgrade, channelVars, SeatInv, SeatTypes, OneSeat, Queueing, NobodyWaitsInVain
<1>7. CASE UNCHANGED vars
  BY <1>0, <1>7 DEF vars, channelVars, SeatInv, SeatTypes, OneSeat, Queueing, NobodyWaitsInVain
<1> QED BY <1>1, <1>2, <1>3, <1>4, <1>5, <1>6, <1>7 DEF Next

\* The seats, always.
LEMMA SeatAlways == Spec => []SeatInv
<1>1. Init => SeatInv
  <2> SUFFICES ASSUME Init PROVE SeatInv
    OBVIOUS
  <2>1. ChannelInv
    BY DEF Init, ChannelInv, ChannelTypes, LockInv, ChannelsRemembered
  <2>2. ToSet(<<>>) = {} /\ IsInjective(<<>>)
    BY DEF ToSet, IsInjective
  <2> QED BY <2>1, <2>2 DEF Init, SeatInv, SeatTypes, OneSeat, Queueing, NobodyWaitsInVain
<1> QED BY <1>1, SeatStepInv, PTL DEF Spec

\* The types, with every event in a queue once.
THEOREM ChannelsAreTyped == Spec => []TypeOK
<1>1. SeatInv => TypeOK
  BY DEF SeatInv, SeatTypes, ChannelInv, ChannelTypes, TypeOK
<1> QED BY <1>1, SeatAlways, PTL

\* Nobody waits for what is there: a client that waits or queues is in the one
\* channel it named, and no signal or free lock is there behind it.
THEOREM NobodyIsInVain == Spec => []NobodyWaitsInVain
<1>1. SeatInv => NobodyWaitsInVain
  BY DEF SeatInv
<1> QED BY <1>1, SeatAlways, PTL
=============================================================================
