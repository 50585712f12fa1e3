----------------------------- MODULE JobsProofs -----------------------------
(***************************************************************************)
(* For any jobs, clients, panes and caps: the waited stay in the table,    *)
(* nobody sleeps through what he waits for, and the output of a job that   *)
(* is done is complete.                                                    *)
(***************************************************************************)
EXTENDS Jobs, TLAPS

\* What was not submitted has no program and wrote nothing; what did not start has no program.
Unborn ==
    /\ \A j \in Ids : j > lastId => phase[j] = "none" /\ unread[j] = Nothing /\ landed[j] = Nothing
    /\ \A j \in Ids : phase[j] \in {"none", "submitted"} => program[j] = "none"

\* What nobody can write to any more is read.
Drained ==
    \A j \in Ids, s \in Streams :
        s \in eof[j] \/ s \notin StreamsOf(j) \/ program[j] = "none" => unread[j][s] = 0

JobsInv ==
    /\ JobsTyped /\ OutputTyped /\ ClientsTyped /\ Unborn /\ Drained
    /\ WaitedStay /\ NobodySleepsThrough /\ OutputIsComplete

-----------------------------------------------------------------------------
(* What the helpers do *)

\* A poke reaches every follower, and takes a hint from nobody.
LEMMA Poked ==
    ASSUME ClientsTyped, NEW j, Poke(j)
    PROVE  /\ hints' \in [Clients -> Nat]
           /\ \A c \in Clients : Follows(c, j) => hints'[c] > 0
           /\ \A c \in Clients : hints[c] > 0 => hints'[c] > 0
BY DEF ClientsTyped, Poke, OneMore

\* The cap spares whom somebody waits for.
LEMMA ReapedIsUnwaited ==
    ASSUME NEW finished \in SUBSET Nat, NEW k \in Reaped(finished)
    PROVE  k \in finished /\ ~Waited(k)
BY DEF Reaped

\* What a finish leaves.
LEMMA Finished ==
    ASSUME NEW j, NEW how, NEW known \in SUBSET Nat, Finish(j, how, known)
    PROVE  /\ phase' = [phase EXCEPT ![j] = how]
           /\ Poke(j)
           /\ listed' \subseteq known
           /\ \A k \in known : Waited(k) => k \in listed'
BY ReapedIsUnwaited DEF Finish

\* A `run -w` that returns leaves everybody else as they were.
LEMMA Returned ==
    ASSUME ClientsTyped, lastId \in Nat, NEW j, Return(j)
    PROVE  /\ does' \in [Clients -> Doings]
           /\ job' \in [Clients -> 0..lastId]
           /\ \A c \in Clients : does'[c] = "idle" <=> job'[c] = NoJob
           /\ \A c \in Clients : does'[c] # "idle" => does'[c] = does[c] /\ job'[c] = job[c]
BY DEF ClientsTyped, Return, Doings, NoJob

\* A client that is left alone.
SameClient(c) ==
    /\ does'[c] = does[c] /\ job'[c] = job[c] /\ seen'[c] = seen[c]
    /\ hints'[c] = hints[c] /\ stop'[c] = stop[c]

\* One client begins something, the others go on.
LEMMA Taken ==
    ASSUME ClientsTyped, lastId \in Nat, NEW c \in Clients, NEW what \in Doings, NEW j \in 0..lastId',
           NEW from \in [Streams -> Nat], Take(c, what, j, from), lastId' \in {lastId, lastId + 1},
           what = "idle" <=> j = NoJob
    PROVE  /\ ClientsTyped'
           /\ does'[c] = what /\ job'[c] = j /\ seen'[c] = from
           /\ hints'[c] = 0 /\ stop'[c] = FALSE
           /\ \A d \in Clients \ {c} : SameClient(d)
BY DEF ClientsTyped, Take, NoJob, SameClient

\* Who is busy is busy with a job that was submitted.
LEMMA BusyHasJob ==
    ASSUME JobsTyped, ClientsTyped, NEW c \in Clients, does[c] # "idle"
    PROVE  job[c] \in 1..lastId /\ job[c] \in Ids
<1>1. job[c] \in 0..lastId /\ job[c] # NoJob
  BY DEF ClientsTyped
<1>2. lastId \in Nat /\ MaxJobs \in Nat /\ lastId <= MaxJobs
  BY JobsAssumption DEF JobsTyped
<1> QED BY <1>1, <1>2 DEF NoJob, Ids

\* What the table lists was submitted.
LEMMA TableIsSubmitted ==
    ASSUME JobsTyped
    PROVE  lastId \in Nat /\ listed \in SUBSET Nat /\ listed \subseteq Ids
BY JobsAssumption DEF JobsTyped, Ids

\* A submit names a new job.
LEMMA Submitted ==
    ASSUME JobsTyped, Submit
    PROVE  /\ New \in 1..lastId' /\ New \in Ids /\ New \in Nat /\ New > lastId
           /\ lastId' = lastId + 1 /\ lastId' = New /\ lastId' \in 0..MaxJobs
           /\ listed \cup {New} \in SUBSET Nat /\ listed \cup {New} \subseteq 1..lastId'
BY JobsAssumption DEF JobsTyped, Submit, New, Ids

\* Nothing was seen of a job that just began.
LEMMA NothingTyped == Nothing \in [Streams -> Nat] /\ \A s \in Streams : Nothing[s] = 0
BY DEF Nothing

\* One client begins something with a job, the others go on.
LEMMA Took ==
    ASSUME ClientsTyped, lastId \in Nat, NEW c \in Clients, NEW what \in Doings \ {"idle"},
           NEW j \in 1..lastId', NEW from \in [Streams -> Nat], Take(c, what, j, from),
           lastId' \in {lastId, lastId + 1}
    PROVE  /\ ClientsTyped'
           /\ does'[c] = what /\ job'[c] = j /\ seen'[c] = from
           /\ hints'[c] = 0 /\ stop'[c] = FALSE
           /\ \A d \in Clients \ {c} : SameClient(d)
<1>1. j \in 0..lastId' /\ j # NoJob /\ what # "idle"
  BY DEF NoJob
<1> QED BY <1>1, Taken

\* One client lets go, the others go on.
LEMMA LetGo ==
    ASSUME ClientsTyped, lastId \in Nat, lastId' = lastId, NEW c \in Clients, Leave(c)
    PROVE  /\ ClientsTyped'
           /\ does'[c] = "idle" /\ job'[c] = NoJob
           /\ \A d \in Clients \ {c} : SameClient(d)
<1>1. NoJob \in 0..lastId' /\ "idle" \in Doings /\ Nothing \in [Streams -> Nat]
  BY NothingTyped DEF NoJob, Doings
<1> QED BY <1>1, Taken DEF Leave

-----------------------------------------------------------------------------
(* The invariant, a part at a time *)

\* The table and the jobs keep their types.
LEMMA JobsTypedKeeps == JobsInv /\ [Next]_vars => JobsTyped'
<1> SUFFICES ASSUME JobsInv, [Next]_vars PROVE JobsTyped'
  OBVIOUS
<1>1. ASSUME Run PROVE JobsTyped'
  <2>1. Submit
    BY <1>1 DEF Run
  <2> QED BY <1>1, <2>1, Submitted DEF JobsInv, JobsTyped, Run, Phases, output
<1>2. ASSUME NEW c \in Clients, RunAndFollow(c) PROVE JobsTyped'
  <2>1. Submit
    BY <1>2 DEF RunAndFollow
  <2> QED BY <1>2, <2>1, Submitted DEF JobsInv, JobsTyped, RunAndFollow, Phases, output
<1>3. ASSUME NEW c \in Clients, RunAndWait(c) PROVE JobsTyped'
  <2>1. Submit /\ UNCHANGED output
    BY <1>3 DEF RunAndWait
  <2>2. phase' \in [Ids -> Phases] /\ listed' \subseteq listed \cup {New}
    BY <1>3, <2>1, Submitted, Finished DEF JobsInv, JobsTyped, RunAndWait, Phases
  <2>3. program' \in [Ids -> {"none", "alive", "gone"}]
    BY <1>3 DEF JobsInv, JobsTyped, RunAndWait
  <2> QED BY <2>1, <2>2, <2>3, Submitted DEF JobsInv, JobsTyped, output
<1>4. ASSUME NEW j \in Ids, Begin(j) PROVE JobsTyped'
  <2>1. phase' \in [Ids -> Phases] /\ listed' \subseteq listed
    BY <1>4, TableIsSubmitted, Finished DEF JobsInv, JobsTyped, Begin, Phases
  <2> QED BY <1>4, <2>1 DEF JobsInv, JobsTyped, Begin, output
<1>5. ASSUME NEW j \in Ids, Started(j) PROVE JobsTyped'
  BY <1>5 DEF JobsInv, JobsTyped, Started, Phases, output
<1>6. ASSUME NEW j \in Ids, Exit(j) PROVE JobsTyped'
  BY <1>6 DEF JobsInv, JobsTyped, Exit, output
<1>7. ASSUME NEW j \in Ids, End(j) PROVE JobsTyped'
  <2>1. phase' \in [Ids -> Phases] /\ listed' \subseteq listed
    BY <1>7, TableIsSubmitted, Finished DEF JobsInv, JobsTyped, End, Cut, Phases
  <2> QED BY <1>7, <2>1 DEF JobsInv, JobsTyped, End, output
<1>8. ASSUME NEW j \in Ids, KillJob(j) PROVE JobsTyped'
  BY <1>8 DEF JobsInv, JobsTyped, KillJob, Kill, output
<1>9. ASSUME NEW j \in Ids, NEW s \in Streams, Write(j, s) PROVE JobsTyped'
  BY <1>9 DEF JobsInv, JobsTyped, Write, jobVars, output
<1>10. ASSUME NEW j \in Ids, NEW s \in Streams, Pump(j, s) PROVE JobsTyped'
  BY <1>10 DEF JobsInv, JobsTyped, Pump, jobVars, output
<1>11. ASSUME NEW j \in Ids, NEW s \in Streams, Eof(j, s) PROVE JobsTyped'
  BY <1>11 DEF JobsInv, JobsTyped, Eof, jobVars, output
<1>12. ASSUME NEW c \in Clients, NEW j \in Ids, Wait(c, j) PROVE JobsTyped'
  BY <1>12 DEF JobsInv, JobsTyped, Wait, jobVars, output
<1>13. ASSUME NEW c \in Clients, NEW j \in Ids, Follow(c, j) PROVE JobsTyped'
  BY <1>13 DEF JobsInv, JobsTyped, Follow, jobVars, output
<1>14. ASSUME NEW c \in Clients, NEW j \in Ids, View(c, j) PROVE JobsTyped'
  BY <1>14 DEF JobsInv, JobsTyped, View, jobVars, output
<1>15. ASSUME NEW c \in Clients, WaitOver(c) PROVE JobsTyped'
  BY <1>15 DEF JobsInv, JobsTyped, WaitOver, jobVars, output
<1>16. ASSUME NEW c \in Clients, Drain(c) PROVE JobsTyped'
  BY <1>16 DEF JobsInv, JobsTyped, Drain, jobVars, output
<1>17. ASSUME NEW c \in Clients, Timeout(c) PROVE JobsTyped'
  BY <1>17 DEF JobsInv, JobsTyped, Timeout, jobVars, output
<1>18. ASSUME NEW c \in Clients, Go(c) PROVE JobsTyped'
  BY <1>18 DEF JobsInv, JobsTyped, Go, jobVars, output
<1>19. ASSUME NEW c \in Clients, GoAndCut(c) PROVE JobsTyped'
  <2>1. phase' \in [Ids -> Phases] /\ listed' \subseteq listed
    BY <1>19, TableIsSubmitted, Finished DEF JobsInv, JobsTyped, GoAndCut, Cut, Phases
  <2> QED BY <1>19, <2>1 DEF JobsInv, JobsTyped, GoAndCut, output
<1>20. ASSUME NEW c \in Clients, ViewBegins(c) PROVE JobsTyped'
  BY <1>20 DEF JobsInv, JobsTyped, ViewBegins, jobVars, output
<1>21. ASSUME NEW c \in Clients, ViewDrain(c) PROVE JobsTyped'
  BY <1>21 DEF JobsInv, JobsTyped, ViewDrain, jobVars, output
<1>22. ASSUME NEW c \in Clients, CloseViewer(c) PROVE JobsTyped'
  BY <1>22 DEF JobsInv, JobsTyped, CloseViewer, jobVars, output
<1>23. ASSUME NEW i \in SUBSET listed, Sweep(i) PROVE JobsTyped'
  BY <1>23 DEF JobsInv, JobsTyped, Sweep, Kill, output
<1>24. ASSUME UNCHANGED vars PROVE JobsTyped'
  BY <1>24 DEF JobsInv, JobsTyped, vars, jobVars, output
<1> QED
  BY <1>1, <1>2, <1>3, <1>4, <1>5, <1>6, <1>7, <1>8, <1>9, <1>10, <1>11, <1>12,
     <1>13, <1>14, <1>15, <1>16, <1>17, <1>18, <1>19, <1>20, <1>21, <1>22, <1>23, <1>24, JobsAssumption DEF Next

\* So does the output.
LEMMA OutputTypedKeeps == JobsInv /\ [Next]_vars => OutputTyped'
<1> SUFFICES ASSUME JobsInv, [Next]_vars PROVE OutputTyped'
  OBVIOUS
<1>1. ASSUME Run PROVE OutputTyped'
  BY <1>1 DEF JobsInv, OutputTyped, Run, output
<1>2. ASSUME NEW c \in Clients, RunAndFollow(c) PROVE OutputTyped'
  BY <1>2 DEF JobsInv, OutputTyped, RunAndFollow, output
<1>3. ASSUME NEW c \in Clients, RunAndWait(c) PROVE OutputTyped'
  BY <1>3 DEF JobsInv, OutputTyped, RunAndWait, output
<1>4. ASSUME NEW j \in Ids, Begin(j) PROVE OutputTyped'
  BY <1>4 DEF JobsInv, OutputTyped, Begin, output
<1>5. ASSUME NEW j \in Ids, Started(j) PROVE OutputTyped'
  BY <1>5 DEF JobsInv, OutputTyped, Started, output
<1>6. ASSUME NEW j \in Ids, Exit(j) PROVE OutputTyped'
  BY <1>6 DEF JobsInv, OutputTyped, Exit, output
<1>7. ASSUME NEW j \in Ids, End(j) PROVE OutputTyped'
  BY <1>7 DEF JobsInv, OutputTyped, End, output
<1>8. ASSUME NEW j \in Ids, KillJob(j) PROVE OutputTyped'
  BY <1>8 DEF JobsInv, OutputTyped, KillJob, output
<1>9. ASSUME NEW j \in Ids, NEW s \in Streams, Write(j, s) PROVE OutputTyped'
  BY <1>9 DEF JobsInv, OutputTyped, Write
<1>10. ASSUME NEW j \in Ids, NEW s \in Streams, Pump(j, s) PROVE OutputTyped'
  BY <1>10 DEF JobsInv, OutputTyped, Pump
<1>11. ASSUME NEW j \in Ids, NEW s \in Streams, Eof(j, s) PROVE OutputTyped'
  BY <1>11 DEF JobsInv, OutputTyped, Eof
<1>12. ASSUME NEW c \in Clients, NEW j \in Ids, Wait(c, j) PROVE OutputTyped'
  BY <1>12 DEF JobsInv, OutputTyped, Wait, output
<1>13. ASSUME NEW c \in Clients, NEW j \in Ids, Follow(c, j) PROVE OutputTyped'
  BY <1>13 DEF JobsInv, OutputTyped, Follow, output
<1>14. ASSUME NEW c \in Clients, NEW j \in Ids, View(c, j) PROVE OutputTyped'
  BY <1>14 DEF JobsInv, OutputTyped, View, output
<1>15. ASSUME NEW c \in Clients, WaitOver(c) PROVE OutputTyped'
  BY <1>15 DEF JobsInv, OutputTyped, WaitOver, output
<1>16. ASSUME NEW c \in Clients, Drain(c) PROVE OutputTyped'
  BY <1>16 DEF JobsInv, OutputTyped, Drain, output
<1>17. ASSUME NEW c \in Clients, Timeout(c) PROVE OutputTyped'
  BY <1>17 DEF JobsInv, OutputTyped, Timeout, output
<1>18. ASSUME NEW c \in Clients, Go(c) PROVE OutputTyped'
  BY <1>18 DEF JobsInv, OutputTyped, Go, output
<1>19. ASSUME NEW c \in Clients, GoAndCut(c) PROVE OutputTyped'
  BY <1>19 DEF JobsInv, OutputTyped, GoAndCut, output
<1>20. ASSUME NEW c \in Clients, ViewBegins(c) PROVE OutputTyped'
  BY <1>20 DEF JobsInv, OutputTyped, ViewBegins, output
<1>21. ASSUME NEW c \in Clients, ViewDrain(c) PROVE OutputTyped'
  BY <1>21 DEF JobsInv, OutputTyped, ViewDrain, output
<1>22. ASSUME NEW c \in Clients, CloseViewer(c) PROVE OutputTyped'
  BY <1>22 DEF JobsInv, OutputTyped, CloseViewer, output
<1>23. ASSUME NEW i \in SUBSET listed, Sweep(i) PROVE OutputTyped'
  BY <1>23 DEF JobsInv, OutputTyped, Sweep, output
<1>24. ASSUME UNCHANGED vars PROVE OutputTyped'
  BY <1>24 DEF JobsInv, OutputTyped, vars, output
<1> QED
  BY <1>1, <1>2, <1>3, <1>4, <1>5, <1>6, <1>7, <1>8, <1>9, <1>10, <1>11, <1>12,
     <1>13, <1>14, <1>15, <1>16, <1>17, <1>18, <1>19, <1>20, <1>21, <1>22, <1>23, <1>24, JobsAssumption DEF Next

\* And so do the clients.
LEMMA ClientsTypedKeeps == JobsInv /\ [Next]_vars => ClientsTyped'
<1> SUFFICES ASSUME JobsInv, [Next]_vars PROVE ClientsTyped'
  OBVIOUS
<1>1. ASSUME Run PROVE ClientsTyped'
  BY <1>1 DEF JobsInv, JobsTyped, ClientsTyped, Run, Submit, New, clientVars
<1>2. ASSUME NEW c \in Clients, RunAndFollow(c) PROVE ClientsTyped'
  <2>1. New \in 1..lastId' /\ lastId \in Nat /\ lastId' = lastId + 1
    BY <1>2, Submitted, TableIsSubmitted DEF JobsInv, RunAndFollow
  <2>2. Take(c, "follows", New, Nothing)
    BY <1>2 DEF RunAndFollow
  <2> QED BY <2>1, <2>2, Took, NothingTyped DEF JobsInv, Doings
<1>3. ASSUME NEW c \in Clients, RunAndWait(c) PROVE ClientsTyped'
  <2>1. New \in 1..lastId' /\ lastId \in Nat /\ lastId' = lastId + 1
    BY <1>3, Submitted, TableIsSubmitted DEF JobsInv, RunAndWait
  <2>2. CASE Take(c, "runs", New, Nothing)
    BY <2>1, <2>2, Took, NothingTyped DEF JobsInv, Doings
  <2>3. CASE Finish(New, "done", listed \cup {New}) /\ UNCHANGED <<does, job, seen, stop>>
    <3>1. Poke(New)
      BY <2>3, <2>1, Finished DEF JobsInv, JobsTyped
    <3> QED BY <3>1, <2>1, <2>3, Poked DEF JobsInv, ClientsTyped
  <2> QED BY <1>3, <2>2, <2>3 DEF RunAndWait
<1>4. ASSUME NEW j \in Ids, Begin(j) PROVE ClientsTyped'
  <2>1. listed \in SUBSET Nat
    BY TableIsSubmitted DEF JobsInv
  <2>2. Poke(j) \/ UNCHANGED hints
    BY <1>4, <2>1, Finished DEF Begin
  <2> QED BY <1>4, <2>2, Poked DEF JobsInv, ClientsTyped, Begin
<1>5. ASSUME NEW j \in Ids, Started(j) PROVE ClientsTyped'
  BY <1>5 DEF JobsInv, ClientsTyped, Started, jobVars, clientVars
<1>6. ASSUME NEW j \in Ids, Exit(j) PROVE ClientsTyped'
  BY <1>6 DEF JobsInv, ClientsTyped, Exit, jobVars, clientVars
<1>7. ASSUME NEW j \in Ids, End(j) PROVE ClientsTyped'
  <2>1. listed \in SUBSET Nat /\ lastId \in Nat
    BY TableIsSubmitted DEF JobsInv
  <2>2. Poke(j) /\ Return(j)
    BY <1>7, <2>1, Finished DEF End
  <2>3. lastId' = lastId /\ UNCHANGED <<seen, stop>>
    BY <1>7 DEF End
  <2>4. hints' \in [Clients -> Nat]
    BY <2>2, Poked DEF JobsInv
  <2>5. ClientsTyped
    BY DEF JobsInv
  <2>6. /\ does' \in [Clients -> Doings] /\ job' \in [Clients -> 0..lastId]
        /\ \A d \in Clients : does'[d] = "idle" <=> job'[d] = NoJob
    BY <2>1, <2>2, <2>5, Returned
  <2> QED BY <2>3, <2>4, <2>5, <2>6 DEF ClientsTyped
<1>8. ASSUME NEW j \in Ids, KillJob(j) PROVE ClientsTyped'
  BY <1>8 DEF JobsInv, ClientsTyped, KillJob, jobVars, clientVars
<1>9. ASSUME NEW j \in Ids, NEW s \in Streams, Write(j, s) PROVE ClientsTyped'
  BY <1>9 DEF JobsInv, ClientsTyped, Write, jobVars, clientVars
<1>10. ASSUME NEW j \in Ids, NEW s \in Streams, Pump(j, s) PROVE ClientsTyped'
  BY <1>10, Poked DEF JobsInv, ClientsTyped, Pump, jobVars
<1>11. ASSUME NEW j \in Ids, NEW s \in Streams, Eof(j, s) PROVE ClientsTyped'
  BY <1>11 DEF JobsInv, ClientsTyped, Eof, jobVars, clientVars
<1>12. ASSUME NEW c \in Clients, NEW j \in Ids, Wait(c, j) PROVE ClientsTyped'
  <2>1. j \in 1..lastId' /\ lastId \in Nat /\ lastId' = lastId
    BY <1>12 DEF JobsInv, JobsTyped, Wait, jobVars
  <2>2. Take(c, "waits", j, Nothing) /\ Nothing \in [Streams -> Nat]
    BY <1>12, NothingTyped DEF Wait, JobsInv, OutputTyped
  <2> QED BY <2>1, <2>2, Took DEF JobsInv, Doings
<1>13. ASSUME NEW c \in Clients, NEW j \in Ids, Follow(c, j) PROVE ClientsTyped'
  <2>1. j \in 1..lastId' /\ lastId \in Nat /\ lastId' = lastId
    BY <1>13 DEF JobsInv, JobsTyped, Follow, jobVars
  <2>2. Take(c, "follows", j, landed[j]) /\ landed[j] \in [Streams -> Nat]
    BY <1>13, NothingTyped DEF Follow, JobsInv, OutputTyped
  <2> QED BY <2>1, <2>2, Took DEF JobsInv, Doings
<1>14. ASSUME NEW c \in Clients, NEW j \in Ids, View(c, j) PROVE ClientsTyped'
  <2>1. j \in 1..lastId' /\ lastId \in Nat /\ lastId' = lastId
    BY <1>14 DEF JobsInv, JobsTyped, View, jobVars
  <2>2. Take(c, "opens", j, Nothing) /\ Nothing \in [Streams -> Nat]
    BY <1>14, NothingTyped DEF View, JobsInv, OutputTyped
  <2> QED BY <2>1, <2>2, Took DEF JobsInv, Doings
<1>15. ASSUME NEW c \in Clients, WaitOver(c) PROVE ClientsTyped'
  BY <1>15, LetGo DEF JobsInv, JobsTyped, WaitOver, jobVars
<1>16. ASSUME NEW c \in Clients, Drain(c) PROVE ClientsTyped'
  <2>1. CASE Leave(c)
    BY <1>16, <2>1, LetGo DEF JobsInv, JobsTyped, Drain, jobVars
  <2>2. CASE Sleep(c)
    <3>1. job[c] \in Ids /\ hints[c] > 0
      BY <1>16, BusyHasJob DEF Drain, JobsInv
    <3> QED BY <1>16, <3>1, <2>2 DEF JobsInv, ClientsTyped, OutputTyped, Drain, Sleep, jobVars
  <2> QED BY <1>16, <2>1, <2>2 DEF Drain
<1>17. ASSUME NEW c \in Clients, Timeout(c) PROVE ClientsTyped'
  <2>1. CASE Leave(c)
    BY <1>17, <2>1, LetGo DEF JobsInv, JobsTyped, Timeout, jobVars
  <2>2. CASE ~Leave(c)
    BY <1>17, <2>2 DEF JobsInv, ClientsTyped, Timeout, jobVars
  <2> QED BY <2>1, <2>2
<1>18. ASSUME NEW c \in Clients, Go(c) PROVE ClientsTyped'
  BY <1>18, LetGo DEF JobsInv, JobsTyped, Go, jobVars
<1>19. ASSUME NEW c \in Clients, GoAndCut(c) PROVE ClientsTyped'
  <2>1. listed \in SUBSET Nat /\ lastId \in Nat
    BY TableIsSubmitted DEF JobsInv
  <2>2. Poke(job[c]) /\ Return(job[c])
    BY <1>19, <2>1, Finished DEF GoAndCut, Cut
  <2>3. lastId' = lastId /\ UNCHANGED <<seen, stop>>
    BY <1>19 DEF GoAndCut
  <2>4. hints' \in [Clients -> Nat]
    BY <2>2, Poked DEF JobsInv
  <2>5. ClientsTyped
    BY DEF JobsInv
  <2>6. /\ does' \in [Clients -> Doings] /\ job' \in [Clients -> 0..lastId]
        /\ \A d \in Clients : does'[d] = "idle" <=> job'[d] = NoJob
    BY <2>1, <2>2, <2>5, Returned
  <2> QED BY <2>3, <2>4, <2>5, <2>6 DEF ClientsTyped
<1>20. ASSUME NEW c \in Clients, ViewBegins(c) PROVE ClientsTyped'
  <2>1. CASE Leave(c)
    BY <1>20, <2>1, LetGo DEF JobsInv, JobsTyped, ViewBegins, jobVars
  <2>2. CASE Take(c, "views", job[c], landed[job[c]])
    <3>1. job[c] \in 1..lastId' /\ lastId \in Nat /\ lastId' = lastId /\ job[c] \in Ids
      BY <1>20, BusyHasJob, TableIsSubmitted DEF ViewBegins, JobsInv, jobVars
    <3> QED BY <3>1, <2>2, Took DEF JobsInv, OutputTyped, Doings
  <2> QED BY <1>20, <2>1, <2>2 DEF ViewBegins
<1>21. ASSUME NEW c \in Clients, ViewDrain(c) PROVE ClientsTyped'
  <2>1. CASE Leave(c)
    BY <1>21, <2>1, LetGo DEF JobsInv, JobsTyped, ViewDrain, jobVars
  <2>2. CASE Sleep(c)
    <3>1. job[c] \in Ids /\ hints[c] > 0
      BY <1>21, BusyHasJob DEF ViewDrain, JobsInv
    <3> QED BY <1>21, <3>1, <2>2 DEF JobsInv, ClientsTyped, OutputTyped, ViewDrain, Sleep, jobVars
  <2> QED BY <1>21, <2>1, <2>2 DEF ViewDrain
<1>22. ASSUME NEW c \in Clients, CloseViewer(c) PROVE ClientsTyped'
  BY <1>22 DEF JobsInv, ClientsTyped, CloseViewer, Wake, OneMore, jobVars
<1>23. ASSUME NEW i \in SUBSET listed, Sweep(i) PROVE ClientsTyped'
  BY <1>23 DEF JobsInv, ClientsTyped, Sweep, jobVars, clientVars
<1>24. ASSUME UNCHANGED vars PROVE ClientsTyped'
  BY <1>24 DEF JobsInv, ClientsTyped, vars, jobVars, clientVars
<1> QED
  BY <1>1, <1>2, <1>3, <1>4, <1>5, <1>6, <1>7, <1>8, <1>9, <1>10, <1>11, <1>12,
     <1>13, <1>14, <1>15, <1>16, <1>17, <1>18, <1>19, <1>20, <1>21, <1>22, <1>23, <1>24, JobsAssumption DEF Next

\* What does not run has no program and no output.
LEMMA UnbornKeeps == JobsInv /\ [Next]_vars => Unborn'
<1> SUFFICES ASSUME JobsInv, [Next]_vars PROVE Unborn'
  OBVIOUS
<1>1. ASSUME Run PROVE Unborn'
  <2>1. Submit /\ UNCHANGED <<unread, landed, program>> /\ phase' = [phase EXCEPT ![New] = "submitted"]
    BY <1>1 DEF Run, output
  <2>2. /\ New > lastId /\ lastId \in Nat /\ lastId' = lastId + 1 /\ New = lastId'
        /\ \A k \in Ids : k \in Nat
    BY <2>1, Submitted, TableIsSubmitted DEF JobsInv, Ids
  <2> QED BY <2>1, <2>2 DEF JobsInv, JobsTyped, Unborn
<1>2. ASSUME NEW c \in Clients, RunAndFollow(c) PROVE Unborn'
  <2>1. Submit /\ UNCHANGED <<unread, landed, program>> /\ phase' = [phase EXCEPT ![New] = "submitted"]
    BY <1>2 DEF RunAndFollow, output
  <2>2. /\ New > lastId /\ lastId \in Nat /\ lastId' = lastId + 1 /\ New = lastId'
        /\ \A k \in Ids : k \in Nat
    BY <2>1, Submitted, TableIsSubmitted DEF JobsInv, Ids
  <2> QED BY <2>1, <2>2 DEF JobsInv, JobsTyped, Unborn
<1>3. ASSUME NEW c \in Clients, RunAndWait(c) PROVE Unborn'
  <2>1. /\ Submit /\ UNCHANGED <<unread, landed>> /\ listed \cup {New} \in SUBSET Nat
        /\ \A j \in Ids \ {New} : program'[j] = program[j]
    BY <1>3, Submitted DEF RunAndWait, output, JobsInv, JobsTyped
  <2>2. \E how \in {"starting", "running", "done"} : phase' = [phase EXCEPT ![New] = how]
    BY <1>3, <2>1, Finished DEF RunAndWait
  <2>3. /\ New > lastId /\ lastId \in Nat /\ lastId' = lastId + 1 /\ New = lastId'
        /\ \A k \in Ids : k \in Nat
    BY <2>1, Submitted, TableIsSubmitted DEF JobsInv, Ids
  <2> QED BY <2>1, <2>2, <2>3 DEF JobsInv, JobsTyped, Unborn
<1>4. ASSUME NEW j \in Ids, Begin(j) PROVE Unborn'
  <2>1. j <= lastId /\ lastId \in Nat /\ lastId' = lastId /\ UNCHANGED <<unread, landed>>
    BY <1>4, TableIsSubmitted DEF Begin, JobsInv, Unborn, Ids, output
  <2>2. /\ \E how \in {"starting", "running", "done"} : phase' = [phase EXCEPT ![j] = how]
        /\ \A k \in Ids \ {j} : program'[k] = program[k]
    BY <1>4, TableIsSubmitted, Finished DEF Begin, JobsInv, JobsTyped
  <2>3. ~(j > lastId')
    BY <2>1 DEF Ids
  <2> QED BY <2>1, <2>2, <2>3 DEF JobsInv, JobsTyped, Unborn
<1>5. ASSUME NEW j \in Ids, Started(j) PROVE Unborn'
  BY <1>5 DEF JobsInv, JobsTyped, Unborn, Started, output
<1>6. ASSUME NEW j \in Ids, Exit(j) PROVE Unborn'
  BY <1>6 DEF JobsInv, JobsTyped, Unborn, Exit, output
<1>7. ASSUME NEW j \in Ids, End(j) PROVE Unborn'
  <2>1. phase' = [phase EXCEPT ![j] = "done"]
    BY <1>7, TableIsSubmitted, Finished DEF End, JobsInv
  <2> QED BY <1>7, <2>1 DEF End, JobsInv, JobsTyped, Unborn, output
<1>8. ASSUME NEW j \in Ids, KillJob(j) PROVE Unborn'
  BY <1>8 DEF JobsInv, Unborn, KillJob, Kill, output
<1>9. ASSUME NEW j \in Ids, NEW s \in Streams, Write(j, s) PROVE Unborn'
  BY <1>9 DEF JobsInv, OutputTyped, Unborn, Write, jobVars
<1>10. ASSUME NEW j \in Ids, NEW s \in Streams, Pump(j, s) PROVE Unborn'
  <2>1. ~(j > lastId)
    BY <1>10, NothingTyped DEF Pump, JobsInv, Unborn
  <2> QED BY <1>10, <2>1 DEF JobsInv, OutputTyped, Unborn, Pump, jobVars
<1>11. ASSUME NEW j \in Ids, NEW s \in Streams, Eof(j, s) PROVE Unborn'
  BY <1>11 DEF JobsInv, Unborn, Eof, jobVars
<1>12. ASSUME NEW c \in Clients, NEW j \in Ids, Wait(c, j) PROVE Unborn'
  BY <1>12 DEF JobsInv, Unborn, Wait, jobVars, output
<1>13. ASSUME NEW c \in Clients, NEW j \in Ids, Follow(c, j) PROVE Unborn'
  BY <1>13 DEF JobsInv, Unborn, Follow, jobVars, output
<1>14. ASSUME NEW c \in Clients, NEW j \in Ids, View(c, j) PROVE Unborn'
  BY <1>14 DEF JobsInv, Unborn, View, jobVars, output
<1>15. ASSUME NEW c \in Clients, WaitOver(c) PROVE Unborn'
  BY <1>15 DEF JobsInv, Unborn, WaitOver, jobVars, output
<1>16. ASSUME NEW c \in Clients, Drain(c) PROVE Unborn'
  BY <1>16 DEF JobsInv, Unborn, Drain, jobVars, output
<1>17. ASSUME NEW c \in Clients, Timeout(c) PROVE Unborn'
  BY <1>17 DEF JobsInv, Unborn, Timeout, jobVars, output
<1>18. ASSUME NEW c \in Clients, Go(c) PROVE Unborn'
  BY <1>18 DEF JobsInv, Unborn, Go, jobVars, output
<1>19. ASSUME NEW c \in Clients, GoAndCut(c) PROVE Unborn'
  <2>1. job[c] \in 1..lastId /\ job[c] \in Ids /\ lastId \in Nat
    BY <1>19, BusyHasJob, TableIsSubmitted DEF GoAndCut, JobsInv
  <2>2. phase' = [phase EXCEPT ![job[c]] = "cut"]
    BY <1>19, TableIsSubmitted, Finished DEF GoAndCut, Cut, JobsInv
  <2> QED BY <1>19, <2>1, <2>2 DEF GoAndCut, JobsInv, JobsTyped, Unborn, output
<1>20. ASSUME NEW c \in Clients, ViewBegins(c) PROVE Unborn'
  BY <1>20 DEF JobsInv, Unborn, ViewBegins, jobVars, output
<1>21. ASSUME NEW c \in Clients, ViewDrain(c) PROVE Unborn'
  BY <1>21 DEF JobsInv, Unborn, ViewDrain, jobVars, output
<1>22. ASSUME NEW c \in Clients, CloseViewer(c) PROVE Unborn'
  BY <1>22 DEF JobsInv, Unborn, CloseViewer, jobVars, output
<1>23. ASSUME NEW i \in SUBSET listed, Sweep(i) PROVE Unborn'
  BY <1>23 DEF JobsInv, Unborn, Sweep, Kill, output
<1>24. ASSUME UNCHANGED vars PROVE Unborn'
  BY <1>24 DEF JobsInv, Unborn, vars, jobVars, output
<1> QED
  BY <1>1, <1>2, <1>3, <1>4, <1>5, <1>6, <1>7, <1>8, <1>9, <1>10, <1>11, <1>12,
     <1>13, <1>14, <1>15, <1>16, <1>17, <1>18, <1>19, <1>20, <1>21, <1>22, <1>23, <1>24, JobsAssumption DEF Next

\* What nobody can write to any more stays read.
LEMMA DrainedKeeps == JobsInv /\ [Next]_vars => Drained'
<1> SUFFICES ASSUME JobsInv, [Next]_vars PROVE Drained'
  OBVIOUS
<1>1. ASSUME Run PROVE Drained'
  BY <1>1 DEF JobsInv, Drained, Run, output
<1>2. ASSUME NEW c \in Clients, RunAndFollow(c) PROVE Drained'
  BY <1>2 DEF JobsInv, Drained, RunAndFollow, output
<1>3. ASSUME NEW c \in Clients, RunAndWait(c) PROVE Drained'
  BY <1>3 DEF JobsInv, JobsTyped, Drained, RunAndWait, output
<1>4. ASSUME NEW j \in Ids, Begin(j) PROVE Drained'
  BY <1>4 DEF JobsInv, JobsTyped, Drained, Begin, output
<1>5. ASSUME NEW j \in Ids, Started(j) PROVE Drained'
  BY <1>5 DEF JobsInv, JobsTyped, Drained, Started, output
<1>6. ASSUME NEW j \in Ids, Exit(j) PROVE Drained'
  BY <1>6 DEF JobsInv, JobsTyped, Drained, Exit, output
<1>7. ASSUME NEW j \in Ids, End(j) PROVE Drained'
  BY <1>7 DEF JobsInv, Drained, End, output
<1>8. ASSUME NEW j \in Ids, KillJob(j) PROVE Drained'
  BY <1>8 DEF JobsInv, Drained, KillJob, Kill, output
<1>9. ASSUME NEW j \in Ids, NEW s \in Streams, Write(j, s) PROVE Drained'
  BY <1>9 DEF JobsInv, OutputTyped, Drained, Write, jobVars
<1>10. ASSUME NEW j \in Ids, NEW s \in Streams, Pump(j, s) PROVE Drained'
  BY <1>10 DEF JobsInv, OutputTyped, Drained, Pump, jobVars
<1>11. ASSUME NEW j \in Ids, NEW s \in Streams, Eof(j, s) PROVE Drained'
  BY <1>11 DEF JobsInv, JobsTyped, Drained, Eof, jobVars
<1>12. ASSUME NEW c \in Clients, NEW j \in Ids, Wait(c, j) PROVE Drained'
  BY <1>12 DEF JobsInv, Drained, Wait, jobVars, output
<1>13. ASSUME NEW c \in Clients, NEW j \in Ids, Follow(c, j) PROVE Drained'
  BY <1>13 DEF JobsInv, Drained, Follow, jobVars, output
<1>14. ASSUME NEW c \in Clients, NEW j \in Ids, View(c, j) PROVE Drained'
  BY <1>14 DEF JobsInv, Drained, View, jobVars, output
<1>15. ASSUME NEW c \in Clients, WaitOver(c) PROVE Drained'
  BY <1>15 DEF JobsInv, Drained, WaitOver, jobVars, output
<1>16. ASSUME NEW c \in Clients, Drain(c) PROVE Drained'
  BY <1>16 DEF JobsInv, Drained, Drain, jobVars, output
<1>17. ASSUME NEW c \in Clients, Timeout(c) PROVE Drained'
  BY <1>17 DEF JobsInv, Drained, Timeout, jobVars, output
<1>18. ASSUME NEW c \in Clients, Go(c) PROVE Drained'
  BY <1>18 DEF JobsInv, Drained, Go, jobVars, output
<1>19. ASSUME NEW c \in Clients, GoAndCut(c) PROVE Drained'
  BY <1>19 DEF JobsInv, JobsTyped, Drained, GoAndCut, output
<1>20. ASSUME NEW c \in Clients, ViewBegins(c) PROVE Drained'
  BY <1>20 DEF JobsInv, Drained, ViewBegins, jobVars, output
<1>21. ASSUME NEW c \in Clients, ViewDrain(c) PROVE Drained'
  BY <1>21 DEF JobsInv, Drained, ViewDrain, jobVars, output
<1>22. ASSUME NEW c \in Clients, CloseViewer(c) PROVE Drained'
  BY <1>22 DEF JobsInv, Drained, CloseViewer, jobVars, output
<1>23. ASSUME NEW i \in SUBSET listed, Sweep(i) PROVE Drained'
  BY <1>23 DEF JobsInv, Drained, Sweep, Kill, output
<1>24. ASSUME UNCHANGED vars PROVE Drained'
  BY <1>24 DEF JobsInv, Drained, vars, jobVars, output
<1> QED
  BY <1>1, <1>2, <1>3, <1>4, <1>5, <1>6, <1>7, <1>8, <1>9, <1>10, <1>11, <1>12,
     <1>13, <1>14, <1>15, <1>16, <1>17, <1>18, <1>19, <1>20, <1>21, <1>22, <1>23, <1>24, JobsAssumption DEF Next

\* Nothing is left in the pipe of a job that is done.
LEMMA OutputIsCompleteKeeps == JobsInv /\ [Next]_vars => OutputIsComplete'
<1> SUFFICES ASSUME JobsInv, [Next]_vars PROVE OutputIsComplete'
  OBVIOUS
<1>1. ASSUME Run PROVE OutputIsComplete'
  BY <1>1 DEF JobsInv, JobsTyped, OutputIsComplete, Run, output
<1>2. ASSUME NEW c \in Clients, RunAndFollow(c) PROVE OutputIsComplete'
  BY <1>2 DEF JobsInv, JobsTyped, OutputIsComplete, RunAndFollow, output
<1>3. ASSUME NEW c \in Clients, RunAndWait(c) PROVE OutputIsComplete'
  <2>1. Submit /\ UNCHANGED unread /\ listed \cup {New} \in SUBSET Nat
    BY <1>3, Submitted DEF RunAndWait, output, JobsInv
  <2>2. \E how \in {"starting", "running", "done"} : phase' = [phase EXCEPT ![New] = how]
    BY <1>3, <2>1, Finished DEF RunAndWait
  <2>3. unread[New] = Nothing
    BY <2>1, Submitted DEF JobsInv, Unborn
  <2> QED BY <2>1, <2>2, <2>3, NothingTyped DEF JobsInv, JobsTyped, OutputIsComplete
<1>4. ASSUME NEW j \in Ids, Begin(j) PROVE OutputIsComplete'
  <2>1. \E how \in {"starting", "running", "done"} : phase' = [phase EXCEPT ![j] = how]
    BY <1>4, TableIsSubmitted, Finished DEF Begin, JobsInv
  <2>2. \A s \in Streams : unread[j][s] = 0
    BY <1>4 DEF Begin, JobsInv, Unborn, Drained
  <2> QED BY <1>4, <2>1, <2>2 DEF Begin, JobsInv, JobsTyped, OutputIsComplete, output
<1>5. ASSUME NEW j \in Ids, Started(j) PROVE OutputIsComplete'
  BY <1>5 DEF JobsInv, JobsTyped, OutputIsComplete, Started, output
<1>6. ASSUME NEW j \in Ids, Exit(j) PROVE OutputIsComplete'
  BY <1>6 DEF JobsInv, OutputIsComplete, Exit, output
<1>7. ASSUME NEW j \in Ids, End(j) PROVE OutputIsComplete'
  <2>1. phase' = [phase EXCEPT ![j] = "done"]
    BY <1>7, TableIsSubmitted, Finished DEF End, JobsInv
  <2>2. \A s \in Streams : unread[j][s] = 0
    BY <1>7 DEF End, Over, JobsInv, Drained
  <2> QED BY <1>7, <2>1, <2>2 DEF End, JobsInv, JobsTyped, OutputIsComplete, output
<1>8. ASSUME NEW j \in Ids, KillJob(j) PROVE OutputIsComplete'
  BY <1>8 DEF JobsInv, OutputIsComplete, KillJob, output
<1>9. ASSUME NEW j \in Ids, NEW s \in Streams, Write(j, s) PROVE OutputIsComplete'
  BY <1>9 DEF JobsInv, OutputTyped, OutputIsComplete, Write, Done, jobVars
<1>10. ASSUME NEW j \in Ids, NEW s \in Streams, Pump(j, s) PROVE OutputIsComplete'
  BY <1>10 DEF JobsInv, OutputTyped, OutputIsComplete, Pump, Done, jobVars
<1>11. ASSUME NEW j \in Ids, NEW s \in Streams, Eof(j, s) PROVE OutputIsComplete'
  BY <1>11 DEF JobsInv, OutputIsComplete, Eof, jobVars
<1>12. ASSUME NEW c \in Clients, NEW j \in Ids, Wait(c, j) PROVE OutputIsComplete'
  BY <1>12 DEF JobsInv, OutputIsComplete, Wait, jobVars, output
<1>13. ASSUME NEW c \in Clients, NEW j \in Ids, Follow(c, j) PROVE OutputIsComplete'
  BY <1>13 DEF JobsInv, OutputIsComplete, Follow, jobVars, output
<1>14. ASSUME NEW c \in Clients, NEW j \in Ids, View(c, j) PROVE OutputIsComplete'
  BY <1>14 DEF JobsInv, OutputIsComplete, View, jobVars, output
<1>15. ASSUME NEW c \in Clients, WaitOver(c) PROVE OutputIsComplete'
  BY <1>15 DEF JobsInv, OutputIsComplete, WaitOver, jobVars, output
<1>16. ASSUME NEW c \in Clients, Drain(c) PROVE OutputIsComplete'
  BY <1>16 DEF JobsInv, OutputIsComplete, Drain, jobVars, output
<1>17. ASSUME NEW c \in Clients, Timeout(c) PROVE OutputIsComplete'
  BY <1>17 DEF JobsInv, OutputIsComplete, Timeout, jobVars, output
<1>18. ASSUME NEW c \in Clients, Go(c) PROVE OutputIsComplete'
  BY <1>18 DEF JobsInv, OutputIsComplete, Go, jobVars, output
<1>19. ASSUME NEW c \in Clients, GoAndCut(c) PROVE OutputIsComplete'
  <2>1. phase' = [phase EXCEPT ![job[c]] = "cut"]
    BY <1>19, TableIsSubmitted, Finished DEF GoAndCut, Cut, JobsInv
  <2> QED BY <1>19, <2>1 DEF GoAndCut, JobsInv, JobsTyped, OutputIsComplete, output
<1>20. ASSUME NEW c \in Clients, ViewBegins(c) PROVE OutputIsComplete'
  BY <1>20 DEF JobsInv, OutputIsComplete, ViewBegins, jobVars, output
<1>21. ASSUME NEW c \in Clients, ViewDrain(c) PROVE OutputIsComplete'
  BY <1>21 DEF JobsInv, OutputIsComplete, ViewDrain, jobVars, output
<1>22. ASSUME NEW c \in Clients, CloseViewer(c) PROVE OutputIsComplete'
  BY <1>22 DEF JobsInv, OutputIsComplete, CloseViewer, jobVars, output
<1>23. ASSUME NEW i \in SUBSET listed, Sweep(i) PROVE OutputIsComplete'
  BY <1>23 DEF JobsInv, OutputIsComplete, Sweep, output
<1>24. ASSUME UNCHANGED vars PROVE OutputIsComplete'
  BY <1>24 DEF JobsInv, OutputIsComplete, vars, jobVars, output
<1> QED
  BY <1>1, <1>2, <1>3, <1>4, <1>5, <1>6, <1>7, <1>8, <1>9, <1>10, <1>11, <1>12,
     <1>13, <1>14, <1>15, <1>16, <1>17, <1>18, <1>19, <1>20, <1>21, <1>22, <1>23, <1>24, JobsAssumption DEF Next

-----------------------------------------------------------------------------
(* Who waits, and who sleeps *)

Waiting == {"waits", "follows", "opens", "views"}

\* Whoever waits with a job keeps it over the finish of any job.
LEMMA FinishSpares ==
    ASSUME WaitedStay, NEW j, NEW how, NEW known \in SUBSET Nat, Finish(j, how, known),
           listed \subseteq known, NEW c \in Clients, does[c] \in Waiting
    PROVE  job[c] \in listed'
<1>1. job[c] \in known /\ Waited(job[c])
  BY DEF WaitedStay, Waited, Waiting
<1> QED BY <1>1, Finished

\* One client takes a listed job, the others keep theirs.
LEMMA TakeStays ==
    ASSUME WaitedStay, ClientsTyped, lastId \in Nat, NEW c \in Clients, NEW what \in Doings \ {"idle"},
           NEW j \in 1..lastId', NEW from \in [Streams -> Nat], Take(c, what, j, from),
           lastId' \in {lastId, lastId + 1}, listed \subseteq listed', j \in listed'
    PROVE  WaitedStay'
<1>1. does'[c] = what /\ job'[c] = j /\ \A d \in Clients \ {c} : SameClient(d)
  BY Took
<1> QED BY <1>1 DEF WaitedStay, SameClient

\* One client lets go, and the others keep theirs.
LEMMA LeaveStays ==
    ASSUME WaitedStay, ClientsTyped, lastId \in Nat, lastId' = lastId, NEW c \in Clients,
           Leave(c), listed \subseteq listed'
    PROVE  WaitedStay'
BY LetGo DEF WaitedStay, SameClient

\* Sweeps and finishes leave the waited in the table.
LEMMA WaitedStayKeeps == JobsInv /\ [Next]_vars => WaitedStay'
<1> SUFFICES ASSUME JobsInv, [Next]_vars PROVE WaitedStay'
  OBVIOUS
<1>1. ASSUME Run PROVE WaitedStay'
  BY <1>1 DEF JobsInv, WaitedStay, Run, clientVars
<1>2. ASSUME NEW c \in Clients, RunAndFollow(c) PROVE WaitedStay'
  <2>1. /\ Submit /\ New \in 1..lastId' /\ lastId \in Nat /\ lastId' = lastId + 1
        /\ listed' = listed \cup {New}
    BY <1>2, Submitted, TableIsSubmitted DEF RunAndFollow, JobsInv
  <2>2. Take(c, "follows", New, Nothing)
    BY <1>2 DEF RunAndFollow
  <2> QED BY <2>1, <2>2, TakeStays, NothingTyped DEF JobsInv, Doings
<1>3. ASSUME NEW c \in Clients, RunAndWait(c) PROVE WaitedStay'
  <2>1. /\ Submit /\ New \in 1..lastId' /\ lastId \in Nat /\ lastId' = lastId + 1
        /\ listed \cup {New} \in SUBSET Nat
    BY <1>3, Submitted, TableIsSubmitted DEF RunAndWait, JobsInv
  <2>2. CASE Take(c, "runs", New, Nothing) /\ listed' = listed \cup {New}
    BY <2>1, <2>2, TakeStays, NothingTyped DEF JobsInv, Doings
  <2>3. CASE Finish(New, "done", listed \cup {New}) /\ UNCHANGED <<does, job>>
    <3>1. \A d \in Clients : does[d] \in Waiting => job[d] \in listed'
      BY <2>1, <2>3, FinishSpares DEF JobsInv
    <3> QED BY <3>1, <2>3 DEF WaitedStay, Waiting
  <2> QED BY <1>3, <2>2, <2>3 DEF RunAndWait
<1>4. ASSUME NEW j \in Ids, Begin(j) PROVE WaitedStay'
  <2>1. \A d \in Clients : does[d] \in Waiting => job[d] \in listed'
    <3>1. CASE Finish(j, "done", listed)
      BY <3>1, FinishSpares, TableIsSubmitted DEF JobsInv
    <3>2. CASE UNCHANGED listed
      BY <3>2 DEF JobsInv, WaitedStay, Waiting
    <3> QED BY <1>4, <3>1, <3>2 DEF Begin
  <2> QED BY <1>4, <2>1 DEF Begin, WaitedStay, Waiting
<1>5. ASSUME NEW j \in Ids, Started(j) PROVE WaitedStay'
  BY <1>5 DEF JobsInv, WaitedStay, Started, jobVars, clientVars
<1>6. ASSUME NEW j \in Ids, Exit(j) PROVE WaitedStay'
  BY <1>6 DEF JobsInv, WaitedStay, Exit, jobVars, clientVars
<1>7. ASSUME NEW j \in Ids, End(j) PROVE WaitedStay'
  <2>1. \A d \in Clients : does[d] \in Waiting => job[d] \in listed'
    BY <1>7, FinishSpares, TableIsSubmitted DEF JobsInv, End
  <2>2. \A d \in Clients : does'[d] # "idle" => does'[d] = does[d] /\ job'[d] = job[d]
    BY <1>7, Returned, TableIsSubmitted DEF JobsInv, End
  <2> QED BY <2>1, <2>2 DEF WaitedStay, Waiting
<1>8. ASSUME NEW j \in Ids, KillJob(j) PROVE WaitedStay'
  BY <1>8 DEF JobsInv, WaitedStay, KillJob, jobVars, clientVars
<1>9. ASSUME NEW j \in Ids, NEW s \in Streams, Write(j, s) PROVE WaitedStay'
  BY <1>9 DEF JobsInv, WaitedStay, Write, jobVars, clientVars
<1>10. ASSUME NEW j \in Ids, NEW s \in Streams, Pump(j, s) PROVE WaitedStay'
  BY <1>10 DEF JobsInv, WaitedStay, Pump, jobVars
<1>11. ASSUME NEW j \in Ids, NEW s \in Streams, Eof(j, s) PROVE WaitedStay'
  BY <1>11 DEF JobsInv, WaitedStay, Eof, jobVars, clientVars
<1>12. ASSUME NEW c \in Clients, NEW j \in Ids, Wait(c, j) PROVE WaitedStay'
  <2>1. j \in 1..lastId' /\ lastId \in Nat /\ lastId' = lastId /\ j \in listed /\ UNCHANGED listed
    BY <1>12 DEF JobsInv, JobsTyped, Wait, jobVars
  <2>2. Take(c, "waits", j, Nothing) /\ Nothing \in [Streams -> Nat]
    BY <1>12, NothingTyped DEF Wait, JobsInv, OutputTyped
  <2> QED BY <2>1, <2>2, TakeStays DEF JobsInv, Doings
<1>13. ASSUME NEW c \in Clients, NEW j \in Ids, Follow(c, j) PROVE WaitedStay'
  <2>1. j \in 1..lastId' /\ lastId \in Nat /\ lastId' = lastId /\ j \in listed /\ UNCHANGED listed
    BY <1>13 DEF JobsInv, JobsTyped, Follow, jobVars
  <2>2. Take(c, "follows", j, landed[j]) /\ landed[j] \in [Streams -> Nat]
    BY <1>13, NothingTyped DEF Follow, JobsInv, OutputTyped
  <2> QED BY <2>1, <2>2, TakeStays DEF JobsInv, Doings
<1>14. ASSUME NEW c \in Clients, NEW j \in Ids, View(c, j) PROVE WaitedStay'
  <2>1. j \in 1..lastId' /\ lastId \in Nat /\ lastId' = lastId /\ j \in listed /\ UNCHANGED listed
    BY <1>14 DEF JobsInv, JobsTyped, View, jobVars
  <2>2. Take(c, "opens", j, Nothing) /\ Nothing \in [Streams -> Nat]
    BY <1>14, NothingTyped DEF View, JobsInv, OutputTyped
  <2> QED BY <2>1, <2>2, TakeStays DEF JobsInv, Doings
<1>15. ASSUME NEW c \in Clients, WaitOver(c) PROVE WaitedStay'
  <2>1. Leave(c) /\ lastId \in Nat /\ UNCHANGED <<lastId, listed>>
    BY <1>15, TableIsSubmitted DEF JobsInv, WaitOver, jobVars
  <2> QED BY <2>1, LeaveStays DEF JobsInv
<1>16. ASSUME NEW c \in Clients, Drain(c) PROVE WaitedStay'
  <2>1. lastId \in Nat /\ UNCHANGED <<lastId, listed>>
    BY <1>16, TableIsSubmitted DEF JobsInv, Drain, jobVars
  <2>2. CASE Leave(c)
    BY <2>1, <2>2, LeaveStays DEF JobsInv
  <2>3. CASE Sleep(c)
    BY <2>1, <2>3 DEF JobsInv, WaitedStay, Sleep
  <2> QED BY <1>16, <2>2, <2>3 DEF Drain
<1>17. ASSUME NEW c \in Clients, Timeout(c) PROVE WaitedStay'
  <2>1. lastId \in Nat /\ UNCHANGED <<lastId, listed>>
    BY <1>17, TableIsSubmitted DEF JobsInv, Timeout, jobVars
  <2>2. CASE Leave(c)
    BY <2>1, <2>2, LeaveStays DEF JobsInv
  <2>3. CASE UNCHANGED <<does, job>>
    BY <2>1, <2>3 DEF JobsInv, WaitedStay
  <2> QED BY <1>17, <2>2, <2>3 DEF Timeout
<1>18. ASSUME NEW c \in Clients, Go(c) PROVE WaitedStay'
  <2>1. Leave(c) /\ lastId \in Nat /\ UNCHANGED <<lastId, listed>>
    BY <1>18, TableIsSubmitted DEF JobsInv, Go, jobVars
  <2> QED BY <2>1, LeaveStays DEF JobsInv
<1>19. ASSUME NEW c \in Clients, GoAndCut(c) PROVE WaitedStay'
  <2>1. \A d \in Clients : does[d] \in Waiting => job[d] \in listed'
    BY <1>19, FinishSpares, TableIsSubmitted DEF JobsInv, GoAndCut, Cut
  <2>2. \A d \in Clients : does'[d] # "idle" => does'[d] = does[d] /\ job'[d] = job[d]
    BY <1>19, Returned, TableIsSubmitted DEF JobsInv, GoAndCut
  <2> QED BY <2>1, <2>2 DEF WaitedStay, Waiting
<1>20. ASSUME NEW c \in Clients, ViewBegins(c) PROVE WaitedStay'
  <2>1. lastId \in Nat /\ UNCHANGED <<lastId, listed>>
    BY <1>20, TableIsSubmitted DEF JobsInv, ViewBegins, jobVars
  <2>2. CASE Leave(c)
    BY <2>1, <2>2, LeaveStays DEF JobsInv
  <2>3. CASE Take(c, "views", job[c], landed[job[c]])
    <3>1. job[c] \in 1..lastId' /\ landed[job[c]] \in [Streams -> Nat] /\ job[c] \in listed'
      BY <1>20, <2>1, BusyHasJob DEF ViewBegins, JobsInv, OutputTyped, WaitedStay
    <3> QED BY <3>1, <2>1, <2>3, TakeStays DEF JobsInv, Doings
  <2> QED BY <1>20, <2>2, <2>3 DEF ViewBegins
<1>21. ASSUME NEW c \in Clients, ViewDrain(c) PROVE WaitedStay'
  <2>1. lastId \in Nat /\ UNCHANGED <<lastId, listed>>
    BY <1>21, TableIsSubmitted DEF JobsInv, ViewDrain, jobVars
  <2>2. CASE Leave(c)
    BY <2>1, <2>2, LeaveStays DEF JobsInv
  <2>3. CASE Sleep(c)
    BY <2>1, <2>3 DEF JobsInv, WaitedStay, Sleep
  <2> QED BY <1>21, <2>2, <2>3 DEF ViewDrain
<1>22. ASSUME NEW c \in Clients, CloseViewer(c) PROVE WaitedStay'
  BY <1>22 DEF JobsInv, WaitedStay, CloseViewer, jobVars
<1>23. ASSUME NEW i \in SUBSET listed, Sweep(i) PROVE WaitedStay'
  BY <1>23 DEF JobsInv, WaitedStay, Sweep, Waited, clientVars
<1>24. ASSUME UNCHANGED vars PROVE WaitedStay'
  BY <1>24 DEF JobsInv, WaitedStay, vars, jobVars, clientVars
<1> QED
  BY <1>1, <1>2, <1>3, <1>4, <1>5, <1>6, <1>7, <1>8, <1>9, <1>10, <1>11, <1>12,
     <1>13, <1>14, <1>15, <1>16, <1>17, <1>18, <1>19, <1>20, <1>21, <1>22, <1>23, <1>24, JobsAssumption DEF Next

\* A client that sleeps has read all, of a job that runs.
Awake(c) ==
    does[c] \in {"follows", "views"} /\ hints[c] = 0 =>
        seen[c] = landed[job[c]] /\ ~Done(job[c]) /\ ~stop[c]

\* A client that is left alone sleeps on, when its job does not end and lands nothing.
LEMMA SleepsOn ==
    ASSUME JobsTyped, ClientsTyped, NobodySleepsThrough, NEW c \in Clients, SameClient(c), UNCHANGED landed,
           \A k \in Ids : phase'[k] \in {"done", "cut"} => phase[k] = phase'[k]
    PROVE  Awake(c)'
<1> SUFFICES ASSUME does'[c] \in {"follows", "views"}, hints'[c] = 0
             PROVE  seen'[c] = landed'[job'[c]] /\ ~Done(job[c])' /\ ~stop'[c]
  BY DEF Awake
<1>1. does[c] \in {"follows", "views"} /\ hints[c] = 0
  BY DEF SameClient
<1>2. seen[c] = landed[job[c]] /\ ~Done(job[c]) /\ ~stop[c]
  BY <1>1 DEF NobodySleepsThrough
<1>3. job[c] \in Ids
  BY <1>1, BusyHasJob
<1> QED BY <1>2, <1>3 DEF SameClient, Done

\* A finish pokes whoever slept.
LEMMA FinishWakes ==
    ASSUME JobsTyped, ClientsTyped, NobodySleepsThrough, NEW j, NEW how, NEW known \in SUBSET Nat,
           Finish(j, how, known), UNCHANGED <<landed, seen, stop>>, NEW c \in Clients,
           does'[c] # "idle" => does'[c] = does[c] /\ job'[c] = job[c]
    PROVE  Awake(c)'
<1> SUFFICES ASSUME does'[c] \in {"follows", "views"}, hints'[c] = 0
             PROVE  seen'[c] = landed'[job'[c]] /\ ~Done(job[c])' /\ ~stop'[c]
  BY DEF Awake
<1>1. does[c] \in {"follows", "views"} /\ does'[c] = does[c] /\ job'[c] = job[c]
  OBVIOUS
<1>2. phase' = [phase EXCEPT ![j] = how] /\ Poke(j)
  BY Finished
<1>3. ~Follows(c, j) /\ hints[c] = 0
  <2>1. (Follows(c, j) => hints'[c] > 0) /\ (hints[c] > 0 => hints'[c] > 0)
    BY <1>2, Poked
  <2>2. hints[c] \in Nat
    BY DEF ClientsTyped
  <2> QED BY <2>1, <2>2
<1>4. job[c] # j /\ job[c] \in Ids
  BY <1>1, <1>3, BusyHasJob DEF Follows
<1>5. phase'[job[c]] = phase[job[c]]
  BY <1>2, <1>4 DEF JobsTyped
<1>6. seen[c] = landed[job[c]] /\ ~Done(job[c]) /\ ~stop[c]
  BY <1>1, <1>3 DEF NobodySleepsThrough
<1> QED BY <1>1, <1>5, <1>6 DEF Done

\* One client begins something, the others sleep on.
LEMMA TakeSleeps ==
    ASSUME JobsTyped, ClientsTyped, NobodySleepsThrough, NEW c \in Clients, NEW what \in Doings \ {"idle"},
           NEW j \in 1..lastId', NEW from \in [Streams -> Nat], Take(c, what, j, from),
           lastId' \in {lastId, lastId + 1}, UNCHANGED landed,
           \A k \in Ids : phase'[k] \in {"done", "cut"} => phase[k] = phase'[k],
           what \in {"follows", "views"} => from = landed[j] /\ phase'[j] \notin {"done", "cut"}
    PROVE  \A d \in Clients : Awake(d)'
<1>1. lastId \in Nat
  BY TableIsSubmitted
<1>2. /\ does'[c] = what /\ job'[c] = j /\ seen'[c] = from /\ hints'[c] = 0 /\ stop'[c] = FALSE
      /\ \A d \in Clients \ {c} : SameClient(d)
  BY DEF Take, ClientsTyped, SameClient
<1>3. Awake(c)'
  <2>1. CASE what \notin {"follows", "views"}
    BY <1>2, <2>1 DEF Awake
  <2>2. CASE what \in {"follows", "views"}
    <3>1. from = landed[j] /\ phase'[j] \notin {"done", "cut"} /\ landed' = landed
      BY <2>2
    <3> QED BY <1>2, <3>1 DEF Awake, Done
  <2> QED BY <2>1, <2>2
<1>4. ASSUME NEW d \in Clients \ {c} PROVE Awake(d)'
  BY <1>2, SleepsOn
<1> QED BY <1>3, <1>4

\* One client lets go, the others sleep on.
LEMMA LeaveSleeps ==
    ASSUME JobsTyped, ClientsTyped, NobodySleepsThrough, NEW c \in Clients, Leave(c),
           UNCHANGED <<lastId, landed, phase>>
    PROVE  \A d \in Clients : Awake(d)'
<1>1. lastId \in Nat
  BY TableIsSubmitted
<1>2. does'[c] = "idle" /\ \A d \in Clients \ {c} : SameClient(d)
  BY <1>1, LetGo
<1>3. Awake(c)'
  BY <1>2 DEF Awake
<1>4. ASSUME NEW d \in Clients \ {c} PROVE Awake(d)'
  BY <1>2, SleepsOn
<1> QED BY <1>3, <1>4

\* Whatever happens, who sleeps has nothing to hear.
LEMMA AwakeKeeps == JobsInv /\ [Next]_vars => \A d \in Clients : Awake(d)'
<1> SUFFICES ASSUME JobsInv, [Next]_vars PROVE \A d \in Clients : Awake(d)'
  OBVIOUS
<1>1. ASSUME Run PROVE \A d \in Clients : Awake(d)'
  <2>1. /\ UNCHANGED landed /\ phase' = [phase EXCEPT ![New] = "submitted"]
        /\ \A d \in Clients : SameClient(d)
    BY <1>1 DEF SameClient, Run, output, clientVars
  <2>2. \A k \in Ids : phase'[k] \in {"done", "cut"} => phase[k] = phase'[k]
    BY <2>1 DEF JobsInv, JobsTyped
  <2> QED BY <2>1, <2>2, SleepsOn DEF JobsInv
<1>2. ASSUME NEW c \in Clients, RunAndFollow(c) PROVE \A d \in Clients : Awake(d)'
  <2>1. /\ Submit /\ New \in 1..lastId' /\ lastId \in Nat /\ lastId' = lastId + 1 /\ New \in Ids
        /\ landed[New] = Nothing
    BY <1>2, Submitted, TableIsSubmitted DEF RunAndFollow, JobsInv, Unborn
  <2>2. Take(c, "follows", New, Nothing) /\ UNCHANGED landed /\ phase' = [phase EXCEPT ![New] = "submitted"]
    BY <1>2 DEF RunAndFollow, output
  <2>3. /\ \A k \in Ids : phase'[k] \in {"done", "cut"} => phase[k] = phase'[k]
        /\ phase'[New] \notin {"done", "cut"}
    BY <2>1, <2>2 DEF JobsInv, JobsTyped
  <2> QED BY <2>1, <2>2, <2>3, TakeSleeps, NothingTyped DEF JobsInv, Doings
<1>3. ASSUME NEW c \in Clients, RunAndWait(c) PROVE \A d \in Clients : Awake(d)'
  <2>1. /\ Submit /\ New \in 1..lastId' /\ lastId \in Nat /\ lastId' = lastId + 1 /\ New \in Ids
        /\ listed \cup {New} \in SUBSET Nat /\ UNCHANGED landed
    BY <1>3, Submitted, TableIsSubmitted DEF RunAndWait, JobsInv, output
  <2>2. CASE /\ Take(c, "runs", New, Nothing)
             /\ \E how \in {"starting", "running"} : phase' = [phase EXCEPT ![New] = how]
    <3>1. \A k \in Ids : phase'[k] \in {"done", "cut"} => phase[k] = phase'[k]
      BY <2>1, <2>2 DEF JobsInv, JobsTyped
    <3> QED BY <2>1, <2>2, <3>1, TakeSleeps, NothingTyped DEF JobsInv, Doings
  <2>3. CASE Finish(New, "done", listed \cup {New}) /\ UNCHANGED <<does, job, seen, stop>>
    BY <2>1, <2>3, FinishWakes DEF JobsInv
  <2> QED BY <1>3, <2>2, <2>3 DEF RunAndWait
<1>4. ASSUME NEW j \in Ids, Begin(j) PROVE \A d \in Clients : Awake(d)'
  <2>1. UNCHANGED <<landed, does, job, seen, stop>>
    BY <1>4 DEF Begin, output
  <2>2. CASE Finish(j, "done", listed)
    BY <2>1, <2>2, FinishWakes, TableIsSubmitted DEF JobsInv
  <2>3. CASE UNCHANGED hints /\ \E how \in {"starting", "running"} : phase' = [phase EXCEPT ![j] = how]
    <3>1. \A k \in Ids : phase'[k] \in {"done", "cut"} => phase[k] = phase'[k]
      BY <2>3 DEF JobsInv, JobsTyped
    <3> QED BY <2>1, <2>3, <3>1, SleepsOn DEF JobsInv, SameClient
  <2> QED BY <1>4, <2>2, <2>3 DEF Begin
<1>5. ASSUME NEW j \in Ids, Started(j) PROVE \A d \in Clients : Awake(d)'
  <2>1. /\ UNCHANGED landed /\ phase' = [phase EXCEPT ![j] = "running"]
        /\ \A d \in Clients : SameClient(d)
    BY <1>5 DEF SameClient, Started, output, clientVars
  <2>2. \A k \in Ids : phase'[k] \in {"done", "cut"} => phase[k] = phase'[k]
    BY <2>1 DEF JobsInv, JobsTyped
  <2> QED BY <2>1, <2>2, SleepsOn DEF JobsInv
<1>6. ASSUME NEW j \in Ids, Exit(j) PROVE \A d \in Clients : Awake(d)'
  <2>1. UNCHANGED <<landed, phase>> /\ \A d \in Clients : SameClient(d)
    BY <1>6 DEF SameClient, Exit, output, clientVars
  <2> QED BY <2>1, SleepsOn DEF JobsInv
<1>7. ASSUME NEW j \in Ids, End(j) PROVE \A d \in Clients : Awake(d)'
  <2>1. Finish(j, "done", listed) /\ UNCHANGED <<landed, seen, stop>>
    BY <1>7 DEF End, output
  <2>2. \A d \in Clients : does'[d] # "idle" => does'[d] = does[d] /\ job'[d] = job[d]
    BY <1>7, Returned, TableIsSubmitted DEF JobsInv, End
  <2> QED BY <2>1, <2>2, FinishWakes, TableIsSubmitted DEF JobsInv
<1>8. ASSUME NEW j \in Ids, KillJob(j) PROVE \A d \in Clients : Awake(d)'
  <2>1. UNCHANGED <<landed, phase>> /\ \A d \in Clients : SameClient(d)
    BY <1>8 DEF SameClient, KillJob, output, clientVars
  <2> QED BY <2>1, SleepsOn DEF JobsInv
<1>9. ASSUME NEW j \in Ids, NEW s \in Streams, Write(j, s) PROVE \A d \in Clients : Awake(d)'
  <2>1. UNCHANGED <<landed, phase>> /\ \A d \in Clients : SameClient(d)
    BY <1>9 DEF SameClient, Write, jobVars, clientVars
  <2> QED BY <2>1, SleepsOn DEF JobsInv
<1>10. ASSUME NEW j \in Ids, NEW s \in Streams, Pump(j, s) PROVE \A d \in Clients : Awake(d)'
  <2>1. UNCHANGED <<does, job, seen, stop, phase>> /\ Poke(j)
    BY <1>10 DEF Pump, jobVars
  <2>2. landed' = [landed EXCEPT ![j][s] = @ + unread[j][s]]
    BY <1>10 DEF Pump
  <2>3. ASSUME NEW c \in Clients PROVE Awake(c)'
    <3> SUFFICES ASSUME does[c] \in {"follows", "views"}, hints'[c] = 0
                 PROVE  seen[c] = landed'[job[c]] /\ ~Done(job[c]) /\ ~stop[c]
      BY <2>1 DEF Awake, Done
    <3>1. (Follows(c, j) => hints'[c] > 0) /\ (hints[c] > 0 => hints'[c] > 0) /\ hints[c] \in Nat
      BY <2>1, Poked DEF JobsInv, ClientsTyped
    <3>2. job[c] # j /\ hints[c] = 0 /\ job[c] \in Ids
      BY <3>1, BusyHasJob DEF Follows, JobsInv
    <3>3. landed'[job[c]] = landed[job[c]]
      BY <2>2, <3>2 DEF JobsInv, OutputTyped
    <3> QED BY <3>2, <3>3 DEF JobsInv, NobodySleepsThrough
  <2> QED BY <2>3
<1>11. ASSUME NEW j \in Ids, NEW s \in Streams, Eof(j, s) PROVE \A d \in Clients : Awake(d)'
  <2>1. UNCHANGED <<landed, phase>> /\ \A d \in Clients : SameClient(d)
    BY <1>11 DEF SameClient, Eof, jobVars, clientVars
  <2> QED BY <2>1, SleepsOn DEF JobsInv
<1>12. ASSUME NEW c \in Clients, NEW j \in Ids, Wait(c, j) PROVE \A d \in Clients : Awake(d)'
  <2>1. /\ j \in 1..lastId' /\ lastId' = lastId /\ UNCHANGED <<landed, phase>>
    BY <1>12 DEF JobsInv, JobsTyped, Wait, jobVars, output
  <2>2. Take(c, "waits", j, Nothing) /\ Nothing \in [Streams -> Nat]
    BY <1>12, NothingTyped DEF Wait, JobsInv, OutputTyped
  <2> QED BY <2>1, <2>2, TakeSleeps DEF JobsInv, Doings
<1>13. ASSUME NEW c \in Clients, NEW j \in Ids, Follow(c, j) PROVE \A d \in Clients : Awake(d)'
  <2>1. /\ j \in 1..lastId' /\ lastId' = lastId /\ UNCHANGED <<landed, phase>> /\ phase[j] \notin {"done", "cut"}
    BY <1>13 DEF JobsInv, JobsTyped, Follow, jobVars, output, Done
  <2>2. Take(c, "follows", j, landed[j]) /\ landed[j] \in [Streams -> Nat]
    BY <1>13, NothingTyped DEF Follow, JobsInv, OutputTyped
  <2> QED BY <2>1, <2>2, TakeSleeps DEF JobsInv, Doings
<1>14. ASSUME NEW c \in Clients, NEW j \in Ids, View(c, j) PROVE \A d \in Clients : Awake(d)'
  <2>1. /\ j \in 1..lastId' /\ lastId' = lastId /\ UNCHANGED <<landed, phase>>
    BY <1>14 DEF JobsInv, JobsTyped, View, jobVars, output
  <2>2. Take(c, "opens", j, Nothing) /\ Nothing \in [Streams -> Nat]
    BY <1>14, NothingTyped DEF View, JobsInv, OutputTyped
  <2> QED BY <2>1, <2>2, TakeSleeps DEF JobsInv, Doings
<1>15. ASSUME NEW c \in Clients, WaitOver(c) PROVE \A d \in Clients : Awake(d)'
  <2>1. Leave(c) /\ UNCHANGED <<lastId, landed, phase>>
    BY <1>15 DEF WaitOver, jobVars, output
  <2> QED BY <2>1, LeaveSleeps DEF JobsInv
<1>16. ASSUME NEW c \in Clients, Drain(c) PROVE \A d \in Clients : Awake(d)'
  <2>1. UNCHANGED <<lastId, landed, phase>>
    BY <1>16 DEF Drain, jobVars, output
  <2>2. CASE Leave(c)
    BY <2>1, <2>2, LeaveSleeps DEF JobsInv
  <2>3. CASE Sleep(c) /\ ~Done(job[c]) /\ ~stop[c]
    <3>1. Awake(c)'
      BY <2>1, <2>3 DEF JobsInv, ClientsTyped, Sleep, Awake, Done
    <3>2. \A d \in Clients \ {c} : SameClient(d)
      BY <2>3 DEF JobsInv, ClientsTyped, Sleep, SameClient
    <3>3. ASSUME NEW d \in Clients \ {c} PROVE Awake(d)'
      BY <2>1, <3>2, SleepsOn DEF JobsInv
    <3> QED BY <3>1, <3>3
  <2> QED BY <1>16, <2>2, <2>3 DEF Drain
<1>17. ASSUME NEW c \in Clients, Timeout(c) PROVE \A d \in Clients : Awake(d)'
  <2>1. UNCHANGED <<lastId, landed, phase>>
    BY <1>17 DEF Timeout, jobVars, output
  <2>2. CASE Leave(c)
    BY <2>1, <2>2, LeaveSleeps DEF JobsInv
  <2>3. CASE hints[c] > 0 /\ stop' = [stop EXCEPT ![c] = TRUE] /\ UNCHANGED <<does, job, seen, hints>>
    <3>1. \A d \in Clients \ {c} : SameClient(d)
      BY <2>3 DEF JobsInv, ClientsTyped, SameClient
    <3>2. ASSUME NEW d \in Clients \ {c} PROVE Awake(d)'
      BY <2>1, <3>1, SleepsOn DEF JobsInv
    <3> QED BY <2>3, <3>2 DEF Awake
  <2> QED BY <1>17, <2>2, <2>3 DEF Timeout
<1>18. ASSUME NEW c \in Clients, Go(c) PROVE \A d \in Clients : Awake(d)'
  <2>1. Leave(c) /\ UNCHANGED <<lastId, landed, phase>>
    BY <1>18 DEF Go, jobVars, output
  <2> QED BY <2>1, LeaveSleeps DEF JobsInv
<1>19. ASSUME NEW c \in Clients, GoAndCut(c) PROVE \A d \in Clients : Awake(d)'
  <2>1. Finish(job[c], "cut", listed) /\ UNCHANGED <<landed, seen, stop>>
    BY <1>19 DEF GoAndCut, Cut, output
  <2>2. \A d \in Clients : does'[d] # "idle" => does'[d] = does[d] /\ job'[d] = job[d]
    BY <1>19, Returned, TableIsSubmitted DEF JobsInv, GoAndCut
  <2> QED BY <2>1, <2>2, FinishWakes, TableIsSubmitted DEF JobsInv
<1>20. ASSUME NEW c \in Clients, ViewBegins(c) PROVE \A d \in Clients : Awake(d)'
  <2>1. UNCHANGED <<lastId, landed, phase>>
    BY <1>20 DEF ViewBegins, jobVars, output
  <2>2. CASE Leave(c)
    BY <2>1, <2>2, LeaveSleeps DEF JobsInv
  <2>3. CASE Take(c, "views", job[c], landed[job[c]]) /\ ~Done(job[c])
    <3>1. job[c] \in 1..lastId' /\ landed[job[c]] \in [Streams -> Nat]
      BY <1>20, <2>1, BusyHasJob DEF ViewBegins, JobsInv, OutputTyped
    <3> QED BY <3>1, <2>1, <2>3, TakeSleeps DEF JobsInv, Doings, Done
  <2> QED BY <1>20, <2>2, <2>3 DEF ViewBegins
<1>21. ASSUME NEW c \in Clients, ViewDrain(c) PROVE \A d \in Clients : Awake(d)'
  <2>1. UNCHANGED <<lastId, landed, phase>>
    BY <1>21 DEF ViewDrain, jobVars, output
  <2>2. CASE Leave(c)
    BY <2>1, <2>2, LeaveSleeps DEF JobsInv
  <2>3. CASE Sleep(c) /\ ~Done(job[c]) /\ ~stop[c]
    <3>1. Awake(c)'
      BY <2>1, <2>3 DEF JobsInv, ClientsTyped, Sleep, Awake, Done
    <3>2. \A d \in Clients \ {c} : SameClient(d)
      BY <2>3 DEF JobsInv, ClientsTyped, Sleep, SameClient
    <3>3. ASSUME NEW d \in Clients \ {c} PROVE Awake(d)'
      BY <2>1, <3>2, SleepsOn DEF JobsInv
    <3> QED BY <3>1, <3>3
  <2> QED BY <1>21, <2>2, <2>3 DEF ViewDrain
<1>22. ASSUME NEW c \in Clients, CloseViewer(c) PROVE \A d \in Clients : Awake(d)'
  <2>1. /\ UNCHANGED <<lastId, landed, phase, does, job, seen>> /\ stop' = [stop EXCEPT ![c] = TRUE]
        /\ hints' = [hints EXCEPT ![c] = IF does[c] = "views" THEN OneMore(@) ELSE @]
        /\ does[c] \in {"opens", "views"}
    BY <1>22 DEF CloseViewer, Wake, jobVars, output
  <2>2. \A d \in Clients \ {c} : SameClient(d)
    BY <2>1 DEF JobsInv, ClientsTyped, SameClient
  <2>3. ASSUME NEW d \in Clients \ {c} PROVE Awake(d)'
    BY <2>1, <2>2, SleepsOn DEF JobsInv
  <2>4. Awake(c)'
    BY <2>1 DEF Awake, OneMore, JobsInv, ClientsTyped
  <2> QED BY <2>3, <2>4
<1>23. ASSUME NEW i \in SUBSET listed, Sweep(i) PROVE \A d \in Clients : Awake(d)'
  <2>1. UNCHANGED <<landed, phase>> /\ \A d \in Clients : SameClient(d)
    BY <1>23 DEF SameClient, Sweep, output, clientVars
  <2> QED BY <2>1, SleepsOn DEF JobsInv
<1>24. ASSUME UNCHANGED vars PROVE \A d \in Clients : Awake(d)'
  <2>1. UNCHANGED <<landed, phase>> /\ \A d \in Clients : SameClient(d)
    BY <1>24 DEF SameClient, vars, jobVars, output, clientVars
  <2> QED BY <2>1, SleepsOn DEF JobsInv
<1> QED
  BY <1>1, <1>2, <1>3, <1>4, <1>5, <1>6, <1>7, <1>8, <1>9, <1>10, <1>11, <1>12,
     <1>13, <1>14, <1>15, <1>16, <1>17, <1>18, <1>19, <1>20, <1>21, <1>22, <1>23, <1>24, JobsAssumption DEF Next

-----------------------------------------------------------------------------
(* The theorems *)

\* An empty table.
LEMMA JobsInit == Init => JobsInv
<1> SUFFICES ASSUME Init PROVE JobsInv
  OBVIOUS
<1>1. JobsTyped /\ OutputTyped
  BY JobsAssumption DEF Init, JobsTyped, OutputTyped, Phases
<1>2. ClientsTyped
  BY DEF Init, ClientsTyped, Doings, NoJob
<1>3. Unborn /\ Drained /\ OutputIsComplete
  BY DEF Init, Unborn, Drained, OutputIsComplete, Nothing
<1>4. WaitedStay /\ NobodySleepsThrough
  BY DEF Init, WaitedStay, NobodySleepsThrough
<1> QED BY <1>1, <1>2, <1>3, <1>4 DEF JobsInv

\* Every step of the table, of programs, pipes and clients keeps the invariant.
LEMMA JobsNext == JobsInv /\ [Next]_vars => JobsInv'
<1> SUFFICES ASSUME JobsInv, [Next]_vars PROVE JobsInv'
  OBVIOUS
<1>1. NobodySleepsThrough'
  BY AwakeKeeps DEF Awake, NobodySleepsThrough
<1> QED BY <1>1, JobsTypedKeeps, OutputTypedKeeps, ClientsTypedKeeps, UnbornKeeps, DrainedKeeps,
           OutputIsCompleteKeeps, WaitedStayKeeps DEF JobsInv

\* The inductive invariant of the job table holds always.
THEOREM JobsInvariant == Spec => []JobsInv
BY JobsInit, JobsNext, PTL DEF Spec

\* What was asked to end, has its SIGTERM, or runs in a client's command.
LEMMA AskedTypedKeeps == JobsInv /\ AskedTyped /\ [Next]_vars => AskedTyped'
<1> SUFFICES ASSUME JobsInv, AskedTyped, [Next]_vars PROVE AskedTyped'
  OBVIOUS
<1>0. listed \subseteq Ids
  BY TableIsSubmitted DEF JobsInv
<1>1. ASSUME NEW asked, NEW ready, Term(asked, ready), asked \subseteq Ids
      PROVE  termed' \subseteq Ids
  BY <1>1 DEF Term, AskedTyped
<1>2. inline' \subseteq Ids
  <2>1. inline' = inline \/ (Submit /\ inline' = inline \cup {New})
    BY DEF Next, vars, jobVars, Run, RunAndFollow, RunAndWait, Begin, Started, Write, Exit, Pump,
           Eof, End, Wait, WaitOver, Follow, Drain, Timeout, View, ViewBegins, ViewDrain, CloseViewer,
           Go, GoAndCut, KillJob, Sweep
  <2> QED BY <2>1 DEF Submit, AskedTyped
<1>3. killAsked' \subseteq Ids
  <2>1. killAsked' = killAsked \/ \E jobs \in SUBSET listed : killAsked' \subseteq killAsked \cup jobs
    <3>1. ASSUME NEW j \in Ids, KillJob(j) PROVE \E jobs \in SUBSET listed : killAsked' \subseteq killAsked \cup jobs
      BY <3>1 DEF KillJob, Kill
    <3>2. ASSUME NEW idle \in SUBSET listed, Sweep(idle) PROVE \E jobs \in SUBSET listed : killAsked' \subseteq killAsked \cup jobs
      BY <3>2 DEF Sweep, Kill
    <3> QED BY <3>1, <3>2 DEF Next, vars, jobVars, Run, RunAndFollow, RunAndWait, Begin, Started, Write,
           Exit, Pump, Eof, End, Wait, WaitOver, Follow, Drain, Timeout, View, ViewBegins, ViewDrain,
           CloseViewer, Go, GoAndCut
  <2> QED BY <1>0, <2>1 DEF AskedTyped
<1>4. termed' \subseteq Ids
  <2>1. ASSUME NEW j \in Ids, KillJob(j) PROVE termed' \subseteq Ids
    BY <1>1, <2>1 DEF KillJob, Kill
  <2>2. ASSUME NEW idle \in SUBSET listed, Sweep(idle) PROVE termed' \subseteq Ids
    BY <1>0, <1>1, <2>2 DEF Sweep, Kill
  <2>3. ASSUME NEW j \in Ids, Begin(j) \/ Started(j) PROVE termed' \subseteq Ids
    <3>1. termed' = termed \/ Term(killAsked, {j})
      BY <2>3 DEF Begin, Started, Backed
    <3> QED BY <1>1, <3>1 DEF AskedTyped
  <2>4. ASSUME NEW c \in Clients \ Viewers, RunAndWait(c) PROVE termed' \subseteq Ids
    BY <1>1, <2>4 DEF RunAndWait, Backed, AskedTyped
  <2> QED BY <2>1, <2>2, <2>3, <2>4 DEF Next, vars, jobVars, Run, RunAndFollow, Write, Exit, Pump,
           Eof, End, Wait, WaitOver, Follow, Drain, Timeout, View, ViewBegins, ViewDrain, CloseViewer,
           Go, GoAndCut, AskedTyped
<1> QED BY <1>2, <1>3, <1>4 DEF AskedTyped

\* The types of the table, the output and the clients, without bounds on what is written
\* or hinted.
THEOREM JobsAreTyped == Spec => []JobsTypeOK
<1>1. Init => JobsInv /\ AskedTyped
  BY JobsInit DEF Init, AskedTyped
<1>2. JobsInv /\ AskedTyped => JobsTypeOK
  BY DEF JobsInv, JobsTypeOK
<1>3. JobsInv /\ AskedTyped /\ [Next]_vars => (JobsInv /\ AskedTyped)'
  BY JobsNext, AskedTypedKeeps
<1> QED BY <1>1, <1>2, <1>3, PTL DEF Spec

\* For any cap and any clients: whoever waits for a job, follows it or views it
\* finds it in the table until they leave (`sweep`, `_reap`).
THEOREM WaitedJobsStay == Spec => []WaitedStay
<1>1. JobsInv => WaitedStay
  BY DEF JobsInv
<1> QED BY <1>1, JobsInvariant, PTL

\* For any followers and viewers: none sleeps while there is something to read or
\* an end to hear of, though hints are dropped (`poke`).
THEOREM FollowersHear == Spec => []NobodySleepsThrough
<1>1. JobsInv => NobodySleepsThrough
  BY DEF JobsInv
<1> QED BY <1>1, JobsInvariant, PTL

\* For any program, on pipes or on a terminal: all it wrote is in the tails before
\* its job is done (`supervise`).
THEOREM DoneIsComplete == Spec => []OutputIsComplete
<1>1. JobsInv => OutputIsComplete
  BY DEF JobsInv
<1> QED BY <1>1, JobsInvariant, PTL
-----------------------------------------------------------------------------
(* What was asked to end *)

\* A job that was asked to end was submitted. One that the table forgot is over, or was
\* asked to end; and one that runs with a backend has its SIGTERM then.
EndInv ==
    /\ killAsked \subseteq 1..lastId
    /\ \A j \in 1..lastId : j \notin listed /\ ~Done(j) => j \in killAsked
    /\ \A j \in killAsked : phase[j] = "running" /\ program[j] = "alive" => j \in termed

\* What a finish takes from the table is over.
LEMMA FinishTakesTheDone ==
    ASSUME JobsTyped, NEW j \in Ids, NEW how \in {"done", "cut"}, NEW known \in SUBSET Ids,
           Finish(j, how, known)
    PROVE  /\ \A k \in known : k \notin listed' => Done(k)'
           /\ \A k \in Ids : Done(k) => Done(k)'
           /\ \A k \in Ids : phase'[k] = "running" => phase[k] = "running" /\ k # j
<1>1. /\ phase' = [phase EXCEPT ![j] = how]
      /\ listed' = known \ Reaped({k \in known : k = j \/ Done(k)})
  BY DEF Finish
<1>2. \A k \in Ids : phase'[k] = IF k = j THEN how ELSE phase[k]
  BY <1>1 DEF JobsTyped
<1>3. \A k \in Reaped({i \in known : i = j \/ Done(i)}) : k = j \/ Done(k)
  BY DEF Reaped
<1> QED BY <1>1, <1>2, <1>3 DEF Done

\* A step that leaves the table and the jobs alone.
LEMMA EndsUntouched ==
    ASSUME EndInv, UNCHANGED <<lastId, listed, phase, program, killAsked, termed>>
    PROVE  EndInv'
BY DEF EndInv, Done

\* A new job was not asked to end.
LEMMA NewIsNotAsked ==
    ASSUME JobsTyped, EndInv, Submit
    PROVE  /\ New \notin killAsked /\ killAsked \subseteq 1..lastId'
           /\ \A j \in 1..lastId' : j = New \/ j \in 1..lastId
           /\ 1..lastId' \subseteq Ids /\ 1..lastId \subseteq Ids
<1>1. lastId \in Nat /\ New = lastId + 1 /\ lastId' = New /\ New \in Ids
  BY Submitted DEF JobsTyped, Submit, New
<1> QED BY <1>1, JobsAssumption DEF EndInv, Ids

\* Every step keeps it: whatever gets a backend is looked up among the asked, and what
\* the sweep forgets is asked.
LEMMA EndStepInv == JobsInv /\ EndInv /\ [Next]_vars => EndInv'
<1> SUFFICES ASSUME JobsInv, EndInv, [Next]_vars PROVE EndInv'
  OBVIOUS
<1>0. /\ JobsTyped /\ ClientsTyped /\ listed \subseteq Ids /\ listed \subseteq 1..lastId
      /\ lastId \in Nat /\ 1..lastId \subseteq Ids
  BY TableIsSubmitted, JobsAssumption DEF JobsInv, JobsTyped, Ids
<1>1. ASSUME Submit, UNCHANGED <<killAsked, termed, program>>, listed' = listed \cup {New},
             phase' = [phase EXCEPT ![New] = "submitted"]
      PROVE  EndInv'
  <2>1. \A k \in Ids \ {New} : phase'[k] = phase[k]
    BY <1>0, <1>1 DEF JobsTyped
  <2> QED BY <1>0, <1>1, <2>1, NewIsNotAsked DEF EndInv, Done
<1>2. ASSUME NEW c \in Clients, RunAndWait(c) PROVE EndInv'
  <2>1. Submit /\ UNCHANGED <<killAsked, termed>>
    BY <1>2 DEF RunAndWait
  <2>2. /\ New \in Ids /\ New \notin killAsked /\ killAsked \subseteq 1..lastId' /\ 1..lastId' \subseteq Ids
        /\ \A j \in 1..lastId' : j = New \/ j \in 1..lastId
    BY <1>0, <2>1, NewIsNotAsked DEF Submit
  <2>3. CASE Finish(New, "done", listed \cup {New}) /\ UNCHANGED program
    <3>1. /\ \A k \in listed \cup {New} : k \notin listed' => Done(k)'
          /\ \A k \in Ids : Done(k) => Done(k)'
          /\ \A k \in Ids : phase'[k] = "running" => phase[k] = "running"
      <4>1. listed \cup {New} \in SUBSET Ids
        BY <1>0, <2>2
      <4> QED BY <1>0, <2>2, <2>3, <4>1, FinishTakesTheDone
    <3> QED BY <1>0, <2>1, <2>2, <2>3, <3>1 DEF EndInv
  <2>4. CASE /\ phase' = [phase EXCEPT ![New] = IF New \in OnTerminal THEN "starting" ELSE "running"]
             /\ program' = [program EXCEPT ![New] = "alive"]
             /\ listed' = listed \cup {New}
    <3>1. \A k \in Ids \ {New} : phase'[k] = phase[k] /\ program'[k] = program[k]
      BY <1>0, <2>4 DEF JobsTyped
    <3> QED BY <1>0, <2>1, <2>2, <2>4, <3>1 DEF EndInv, Done
  <2> QED BY <1>2, <2>3, <2>4 DEF RunAndWait
<1>3. ASSUME NEW j \in Ids, Begin(j) PROVE EndInv'
  <2>1. UNCHANGED <<lastId, killAsked>>
    BY <1>3 DEF Begin
  <2>2. CASE Finish(j, "done", listed) /\ UNCHANGED <<program, termed>>
    <3>1. /\ \A k \in listed : k \notin listed' => Done(k)'
          /\ \A k \in Ids : Done(k) => Done(k)'
          /\ \A k \in Ids : phase'[k] = "running" => phase[k] = "running"
      BY <1>0, <2>2, FinishTakesTheDone
    <3> QED BY <1>0, <2>1, <2>2, <3>1 DEF EndInv
  <2>3. CASE /\ program' = [program EXCEPT ![j] = "alive"]
             /\ phase' = [phase EXCEPT ![j] = IF j \in OnTerminal THEN "starting" ELSE "running"]
             /\ IF j \in OnTerminal THEN UNCHANGED termed ELSE Backed(j)
             /\ UNCHANGED listed
    <3>1. /\ \A k \in Ids \ {j} : phase'[k] = phase[k] /\ program'[k] = program[k]
          /\ phase'[j] = (IF j \in OnTerminal THEN "starting" ELSE "running") /\ program'[j] = "alive"
      BY <1>0, <2>3 DEF JobsTyped
    <3>2. termed \subseteq termed' /\ (j \in OnTerminal \/ j \notin killAsked \/ j \in termed')
      BY <2>3, <3>1 DEF Backed, Term
    <3>3. phase[j] = "submitted"
      BY <1>3 DEF Begin
    <3> QED BY <1>0, <2>1, <2>3, <3>1, <3>2, <3>3 DEF EndInv, Done
  <2> QED BY <1>3, <2>2, <2>3 DEF Begin
<1>4. ASSUME NEW j \in Ids, Started(j) PROVE EndInv'
  <2>1. /\ \A k \in Ids \ {j} : phase'[k] = phase[k]
        /\ phase[j] = "starting" /\ phase'[j] = "running"
        /\ UNCHANGED <<lastId, listed, killAsked, program>>
    BY <1>0, <1>4 DEF Started, JobsTyped
  <2>2. termed \subseteq termed' /\ (j \in killAsked /\ program'[j] = "alive" => j \in termed')
    BY <1>4 DEF Started, Backed, Term
  <2> QED BY <1>0, <2>1, <2>2 DEF EndInv, Done
<1>5. ASSUME NEW j \in Ids, Exit(j) PROVE EndInv'
  <2>1. /\ \A k \in Ids \ {j} : program'[k] = program[k]
        /\ program'[j] = "gone" /\ termed' = termed \ {j}
        /\ UNCHANGED <<lastId, listed, phase, killAsked>>
    BY <1>0, <1>5 DEF Exit, JobsTyped
  <2> QED BY <1>0, <2>1 DEF EndInv, Done
<1>6. ASSUME NEW j \in Ids, End(j) PROVE EndInv'
  <2>1. Finish(j, "done", listed) /\ UNCHANGED <<lastId, program, killAsked, termed>>
    BY <1>6 DEF End
  <2>2. /\ \A k \in listed : k \notin listed' => Done(k)'
        /\ \A k \in Ids : Done(k) => Done(k)'
        /\ \A k \in Ids : phase'[k] = "running" => phase[k] = "running"
    BY <1>0, <2>1, FinishTakesTheDone
  <2> QED BY <1>0, <2>1, <2>2 DEF EndInv
<1>7. ASSUME NEW c \in Clients, GoAndCut(c) PROVE EndInv'
  <2>1. PICK j \in Ids : j = job[c]
    BY <1>0, <1>7, BusyHasJob DEF GoAndCut
  <2>2. Finish(j, "cut", listed) /\ termed' = termed \ {j} /\ UNCHANGED <<lastId, killAsked>>
    BY <1>7, <2>1 DEF GoAndCut, Cut
  <2>3. \A k \in Ids \ {j} : program'[k] = program[k]
    BY <1>0, <1>7, <2>1 DEF GoAndCut, JobsTyped
  <2>4. /\ \A k \in listed : k \notin listed' => Done(k)'
        /\ \A k \in Ids : Done(k) => Done(k)'
        /\ \A k \in Ids : phase'[k] = "running" => phase[k] = "running" /\ k # j
    BY <1>0, <2>2, FinishTakesTheDone
  <2> QED BY <1>0, <2>2, <2>3, <2>4 DEF EndInv
<1>8. ASSUME NEW jobs \in SUBSET listed, Kill(jobs), UNCHANGED <<lastId, phase>>,
             \A j \in listed \ listed' : j \in jobs
      PROVE  EndInv'
  <2>1. /\ killAsked' = killAsked \cup {j \in jobs : ~Done(j)}
        /\ program' = program
        /\ termed \subseteq termed'
        /\ \A j \in jobs : ~Done(j) /\ phase[j] = "running" /\ program'[j] = "alive" => j \in termed'
    BY <1>0, <1>8 DEF Kill, Term
  <2> QED BY <1>0, <1>8, <2>1 DEF EndInv, Done
<1>9. ASSUME NEW j \in Ids, KillJob(j) PROVE EndInv'
  <2>1. {j} \in SUBSET listed /\ Kill({j}) /\ UNCHANGED <<lastId, listed, phase>>
    BY <1>9 DEF KillJob
  <2> QED BY <1>8, <2>1
<1>10. ASSUME NEW idle \in SUBSET listed, Sweep(idle) PROVE EndInv'
  <2>1. PICK swept \in SUBSET listed : swept = {j \in idle : ~Waited(j)}
    OBVIOUS
  <2>2. Kill(swept) /\ UNCHANGED <<lastId, phase>> /\ listed' = listed \ swept
    BY <1>10, <2>1 DEF Sweep
  <2> QED BY <1>8, <2>1, <2>2
<1>11. ASSUME UNCHANGED jobVars PROVE EndInv'
  BY <1>11, EndsUntouched DEF jobVars
<1>12. CASE Run
  BY <1>1, <1>12 DEF Run
<1>13. ASSUME NEW c \in Clients, RunAndFollow(c) PROVE EndInv'
  BY <1>1, <1>13 DEF RunAndFollow
<1>14. CASE UNCHANGED vars
  BY <1>11, <1>14 DEF vars
<1> QED
  BY <1>2, <1>3, <1>4, <1>5, <1>6, <1>7, <1>9, <1>10, <1>11, <1>12, <1>13, <1>14
  DEF Next, Write, Pump, Eof, Wait, WaitOver, Follow, Drain, Timeout, View, ViewBegins, ViewDrain,
      CloseViewer, Go

\* However early a job was asked to end, before its fork, while its terminal starts, or by
\* the sweep that forgets it, its program gets the SIGTERM (`kill`, `kill_requested`).
THEOREM AskedGetTheirEnd == Spec => []AskedToEnd
<1>1. Init => JobsInv /\ EndInv
  <2> SUFFICES ASSUME Init PROVE EndInv
    BY JobsInit
  <2>1. lastId = 0 /\ killAsked = {}
    BY DEF Init
  <2>2. \A j \in 1..lastId : FALSE
    BY <2>1
  <2> QED BY <2>1, <2>2 DEF EndInv
<1>2. JobsInv /\ EndInv => AskedToEnd
  BY DEF JobsInv, JobsTyped, EndInv, AskedToEnd, Done
<1>3. JobsInv /\ EndInv /\ [Next]_vars => (JobsInv /\ EndInv)'
  BY JobsNext, EndStepInv
<1> QED BY <1>1, <1>2, <1>3, PTL DEF Spec

-----------------------------------------------------------------------------
(* What runs in a client's command *)

\* A job of `run -w` that is not over is run by somebody.
AskerInv == \A j \in inline : j \in Ids /\ (~Done(j) => \E c \in Clients : does[c] = "runs" /\ job[c] = j)

\* A finish that returns to the asker of `j` leaves the askers of the others.
LEMMA OthersRunOn ==
    ASSUME JobsTyped, ClientsTyped, AskerInv, UNCHANGED inline, NEW j \in Ids, NEW how \in {"done", "cut"},
           Finish(j, how, listed), Return(j)
    PROVE  AskerInv'
<1>1. \A k \in Ids : phase'[k] = IF k = j THEN how ELSE phase[k]
  BY DEF Finish, JobsTyped
<1>2. \A c \in Clients : does[c] = "runs" /\ job[c] # j => does'[c] = "runs" /\ job'[c] = job[c]
  BY DEF Return, ClientsTyped
<1> QED BY <1>1, <1>2 DEF AskerInv, Done

\* A client that begins something was idle, so no asker leaves its job.
LEMMA AskersStay ==
    ASSUME JobsTyped, ClientsTyped, AskerInv, UNCHANGED inline, NEW c \in Clients, does[c] # "runs",
           \A d \in Clients \ {c} : does'[d] = does[d] /\ job'[d] = job[d],
           \A j \in inline : Done(j) => Done(j)'
    PROVE  AskerInv'
BY DEF AskerInv

\* With nobody refused after the submit (`Refuses`), every step keeps it.
LEMMA AskerStepInv ==
    ASSUME Refuses = FALSE
    PROVE  JobsInv /\ AskerInv /\ [Next]_vars => AskerInv'
<1> SUFFICES ASSUME JobsInv, AskerInv, [Next]_vars PROVE AskerInv'
  OBVIOUS
<1>0. JobsTyped /\ ClientsTyped /\ listed \subseteq Ids
  BY TableIsSubmitted DEF JobsInv
<1>1. ASSUME UNCHANGED <<inline, does, job>>, \A j \in inline : Done(j) => Done(j)' PROVE AskerInv'
  BY <1>1 DEF AskerInv
<1>2. ASSUME Submit, phase' = [phase EXCEPT ![New] = "submitted"], New \notin inline
      PROVE  \A j \in inline : Done(j)' = Done(j)
  BY <1>0, <1>2 DEF JobsTyped, AskerInv, Done
<1>3. ASSUME Submit PROVE New \in Ids
  BY <1>3 DEF Submit
<1>4. ASSUME Submit, New \in inline PROVE AskerInv'
  \* Its asker would have a job that was never submitted.
  <2>1. New > lastId /\ phase[New] = "none"
    BY <1>0, <1>4, Submitted DEF JobsInv, Unborn
  <2>2. PICK c \in Clients : does[c] = "runs" /\ job[c] = New
    BY <1>4, <2>1 DEF AskerInv, Done
  <2>3. job[c] \in 1..lastId
    BY <1>0, <2>2, BusyHasJob
  <2> QED BY <1>0, <2>1, <2>2, <2>3 DEF JobsTyped
<1>5. CASE Run
  BY <1>1, <1>2, <1>4, <1>5 DEF Run, clientVars
<1>6. ASSUME NEW c \in Clients, RunAndFollow(c) PROVE AskerInv'
  <2>1. /\ Submit /\ does[c] = "idle" /\ UNCHANGED inline
        /\ phase' = [phase EXCEPT ![New] = "submitted"]
        /\ \A d \in Clients \ {c} : does'[d] = does[d] /\ job'[d] = job[d]
    BY <1>0, <1>6 DEF RunAndFollow, Take, ClientsTyped
  <2> QED BY <1>0, <1>2, <1>4, <2>1, AskersStay
<1>7. ASSUME NEW c \in Clients, RunAndWait(c) PROVE AskerInv'
  <2>1. Submit /\ does[c] = "idle" /\ inline' = inline \cup {New} /\ New \in Ids
    BY <1>3, <1>7 DEF RunAndWait
  <2>2. CASE New \in inline
    BY <1>4, <2>1, <2>2
  <2>3. CASE New \notin inline
    <3>1. CASE Finish(New, "done", listed \cup {New}) /\ UNCHANGED <<does, job>>
      <4>1. \A k \in Ids : phase'[k] = IF k = New THEN "done" ELSE phase[k]
        BY <1>0, <2>1, <3>1 DEF Finish, JobsTyped
      <4> QED BY <2>1, <2>3, <3>1, <4>1 DEF AskerInv, Done
    <3>2. CASE /\ phase' = [phase EXCEPT ![New] = IF New \in OnTerminal THEN "starting" ELSE "running"]
               /\ Take(c, "runs", New, Nothing)
      <4>1. \A k \in Ids \ {New} : phase'[k] = phase[k]
        BY <1>0, <3>2 DEF JobsTyped
      <4>2. /\ does'[c] = "runs" /\ job'[c] = New
            /\ \A d \in Clients \ {c} : does'[d] = does[d] /\ job'[d] = job[d]
        BY <1>0, <3>2 DEF Take, ClientsTyped
      <4> QED BY <2>1, <2>3, <4>1, <4>2 DEF AskerInv, Done
    <3> QED BY <1>7, <3>1, <3>2 DEF RunAndWait
  <2> QED BY <2>2, <2>3
<1>8. ASSUME NEW j \in Ids, Begin(j) \/ Started(j) PROVE AskerInv'
  <2>1. /\ ~Done(j) /\ UNCHANGED <<inline, does, job>>
        /\ \A k \in Ids \ {j} : phase'[k] = phase[k]
    BY <1>0, <1>8 DEF Begin, Started, Finish, Done, JobsTyped, clientVars
  <2> QED BY <1>1, <2>1 DEF AskerInv, Done
<1>9. ASSUME NEW j \in Ids, End(j) PROVE AskerInv'
  BY <1>0, <1>9, OthersRunOn DEF End
<1>10. ASSUME NEW c \in Clients, GoAndCut(c) PROVE AskerInv'
  <2>1. job[c] \in Ids
    BY <1>0, <1>10, BusyHasJob DEF GoAndCut
  <2> QED BY <1>0, <1>10, <2>1, OthersRunOn DEF GoAndCut, Cut
<1>11. ASSUME UNCHANGED <<inline, phase>>,
              UNCHANGED <<does, job>> \/ \E c \in Clients : /\ does[c] # "runs"
                                                            /\ \A d \in Clients \ {c} : does'[d] = does[d] /\ job'[d] = job[d]
       PROVE  AskerInv'
  BY <1>0, <1>1, <1>11, AskersStay DEF Done
<1>12. ASSUME NEW c \in Clients, does[c] # "runs", NEW what, NEW j, NEW from, Take(c, what, j, from)
       PROVE  \A d \in Clients \ {c} : does'[d] = does[d] /\ job'[d] = job[d]
  BY <1>0, <1>12 DEF Take, ClientsTyped
<1>13. ASSUME NEW c \in Clients, NEW j \in Ids, Wait(c, j) \/ Follow(c, j) \/ View(c, j) PROVE AskerInv'
  BY <1>11, <1>12, <1>13 DEF Wait, Follow, View, jobVars
<1>14. ASSUME NEW c \in Clients, WaitOver(c) \/ Go(c) \/ ViewBegins(c) PROVE AskerInv'
  BY <1>11, <1>12, <1>14 DEF WaitOver, Go, ViewBegins, Leave, jobVars
<1>15. ASSUME NEW c \in Clients, Drain(c) \/ ViewDrain(c) \/ Timeout(c) PROVE AskerInv'
  BY <1>11, <1>12, <1>15 DEF Drain, ViewDrain, Timeout, Sleep, Leave, jobVars
<1>16. ASSUME NEW c \in Clients, CloseViewer(c) PROVE AskerInv'
  BY <1>11, <1>16 DEF CloseViewer, jobVars
<1>17. ASSUME NEW j \in Ids, Exit(j) \/ KillJob(j) PROVE AskerInv'
  BY <1>11, <1>17 DEF Exit, KillJob, clientVars
<1>18. ASSUME NEW j \in Ids, NEW s \in Streams, Write(j, s) \/ Pump(j, s) \/ Eof(j, s) PROVE AskerInv'
  BY <1>11, <1>18 DEF Write, Pump, Eof, jobVars, clientVars
<1>19. ASSUME NEW idle \in SUBSET listed, Sweep(idle) PROVE AskerInv'
  BY <1>11, <1>19 DEF Sweep, clientVars
<1>20. CASE UNCHANGED vars
  BY <1>11, <1>20 DEF vars, jobVars, clientVars
<1>21. ASSUME NEW c \in Clients,
              WaitOver(c) \/ Drain(c) \/ Timeout(c) \/ Go(c) \/ GoAndCut(c)
                \/ ViewBegins(c) \/ ViewDrain(c) \/ CloseViewer(c)
       PROVE  AskerInv'
  BY <1>10, <1>14, <1>15, <1>16, <1>21
<1>22. ASSUME NEW j \in Ids, Begin(j) \/ Started(j) \/ Exit(j) \/ End(j) \/ KillJob(j) PROVE AskerInv'
  BY <1>8, <1>9, <1>17, <1>22
<1>23. ASSUME NEW c \in Clients \ Viewers, RunAndFollow(c) \/ RunAndWait(c) PROVE AskerInv'
  BY <1>6, <1>7, <1>23
<1> QED BY <1>5, <1>13, <1>18, <1>19, <1>20, <1>21, <1>22, <1>23, JobsAssumption DEF Next

\* Where nobody is refused after the submit, the table says of no job of `run -w` that it runs
\* while nobody runs it: not when its client goes, and not at its end.
THEOREM InlineJobsHaveTheirAsker == ASSUME Refuses = FALSE PROVE Spec => []InlineHasItsAsker
<1>1. Init => JobsInv /\ AskerInv
  BY JobsInit DEF Init, AskerInv
<1>2. AskerInv => InlineHasItsAsker
  BY DEF AskerInv, InlineHasItsAsker
<1>3. JobsInv /\ AskerInv /\ [Next]_vars => (JobsInv /\ AskerInv)'
  BY JobsNext, AskerStepInv
<1> QED BY <1>1, <1>2, <1>3, PTL DEF Spec
=============================================================================
