-------------------------------- MODULE Jobs --------------------------------
(***************************************************************************)
(* The jobs of `run` (jobs/table.py, jobs/job.py, jobs/pipes.py,           *)
(* jobs/feed.py and their commands): submitting, starting on pipes or on a *)
(* terminal, pumping what the program writes, waiting, following with      *)
(* hints that may be lost, viewing, killing, sweeping, and forgetting the  *)
(* oldest finished jobs past the cap.                                      *)
(*                                                                         *)
(* A byte is its offset: a stream is how much of it landed and how much    *)
(* still waits in its pipe.  The tail that is kept moves no offset.        *)
(***************************************************************************)
EXTENDS Naturals, FiniteSets, FiniteSetsExt, Functions

CONSTANTS MaxJobs,       \* bound: jobs submitted
          MaxWritten,    \* bound: bytes that programs write, all together
          Clients,       \* commands that wait or follow, and panes that view
          Viewers,       \* the panes
          OnTerminal,    \* the jobs that are submitted with `--pty`
          FinishedKeep,  \* FINISHED_KEEP
          Refuses        \* whether an agent asks for `run -w`, which is refused

ASSUME JobsAssumption ==
    FinishedKeep \in Nat /\ MaxJobs \in Nat /\ MaxWritten \in Nat /\ Viewers \subseteq Clients

Ids == 1..MaxJobs
Streams == {"stdout", "stderr"}
NoJob == 0

VARIABLES lastId, listed,     \* the table
          phase, inline,      \* a job's life, and whether its supervise is its asker's (`run -w`)
          program,            \* its process
          killAsked, termed,  \* `kill_requested`, and the programs that have their SIGTERM
          unread, landed, eof,\* per stream: in the pipe, in the tail, whether its pump ended
          does, job,          \* what a client does, and with which job
          seen, hints,        \* the offsets of a follower and its queue of hints
          stop                \* its timeout passed, or the viewer was closed

jobVars == <<lastId, listed, phase, inline, program, killAsked, termed>>
output == <<unread, landed, eof>>
clientVars == <<does, job, seen, hints, stop>>
vars == <<jobVars, output, clientVars>>

Init ==
    /\ lastId = 0 /\ listed = {}
    /\ phase = [j \in Ids |-> "none"] /\ inline = {}
    /\ program = [j \in Ids |-> "none"]
    /\ killAsked = {} /\ termed = {}
    /\ unread = [j \in Ids |-> [s \in Streams |-> 0]]
    /\ landed = [j \in Ids |-> [s \in Streams |-> 0]]
    /\ eof = [j \in Ids |-> {}]
    /\ does = [c \in Clients |-> "idle"] /\ job = [c \in Clients |-> NoJob]
    /\ seen = [c \in Clients |-> [s \in Streams |-> 0]]
    /\ hints = [c \in Clients |-> 0]
    /\ stop = [c \in Clients |-> FALSE]

-----------------------------------------------------------------------------
\* `is_done`: the job ended, or its supervise was cancelled.
Done(j) == phase[j] \in {"done", "cut"}

\* A terminal has one stream for both.
StreamsOf(j) == IF j \in OnTerminal THEN {"stdout"} ELSE Streams

\* `waiters` is not zero: `wait`, `follow` and a viewer count themselves.
Waited(j) == \E c \in Clients : job[c] = j /\ does[c] \in {"waits", "follows", "opens", "views"}

\* A way it could go wrong: a viewer is in no list of followers.
MutFollows(c, j) == job[c] = j /\ does[c] = "follows"

\* `followers`: who has a queue of hints.
Follows(c, j) == job[c] = j /\ does[c] \in {"follows", "views"}

\* `poke`: one hint is handed to the sleeper, one more waits, the rest is dropped.
OneMore(n) == IF n < 2 THEN n + 1 ELSE n
Poke(j) == hints' = [c \in Clients |-> IF Follows(c, j) THEN OneMore(hints[c]) ELSE hints[c]]

\* A way it could go wrong: the cap takes what somebody waits for.
MutReaped(finished) == {k \in finished : Cardinality({i \in finished : i >= k}) > FinishedKeep}

\* `_reap`: the oldest past the cap, up to the first that is waited for.
Reaped(finished) ==
    {k \in finished : /\ Cardinality({i \in finished : i >= k}) > FinishedKeep
                      /\ \A i \in finished : i <= k => ~Waited(i)}

\* `_finish` of a job in the table `known`: done, told to the followers, and the cap kept.
Finish(j, how, known) ==
    /\ phase' = [phase EXCEPT ![j] = how]
    /\ Poke(j)
    /\ listed' = known \ Reaped({k \in known : k = j \/ Done(k)})

\* What a client that does `what` with `j` begins with, and what it ends with.
Nothing == [s \in Streams |-> 0]
Take(c, what, j, from) ==
    /\ does' = [does EXCEPT ![c] = what] /\ job' = [job EXCEPT ![c] = j]
    /\ seen' = [seen EXCEPT ![c] = from]
    /\ hints' = [hints EXCEPT ![c] = 0] /\ stop' = [stop EXCEPT ![c] = FALSE]
Leave(c) == Take(c, "idle", NoJob, Nothing)

\* `run -w` of `j` returns to who asked.
Return(j) ==
    LET asker(c) == does[c] = "runs" /\ job[c] = j
    IN  /\ does' = [c \in Clients |-> IF asker(c) THEN "idle" ELSE does[c]]
        /\ job' = [c \in Clients |-> IF asker(c) THEN NoJob ELSE job[c]]

-----------------------------------------------------------------------------
(* Submitting and starting *)

\* `submit`: an id that was never used.
New == lastId + 1
Submit ==
    /\ New \in Ids
    /\ lastId' = New

\* `run`: the server supervises it, and the asker gets the id. `run -w` of an
\* agent is submitted first and refused then: nobody supervises that job.
Run ==
    /\ Submit
    /\ listed' = listed \cup {New}
    /\ phase' = [phase EXCEPT ![New] = "submitted"]
    /\ inline' \in {inline} \cup (IF Refuses THEN {inline \cup {New}} ELSE {})
    /\ UNCHANGED <<program, killAsked, termed, output, clientVars>>

\* `run --timeout`: the same, and the asker follows it before it starts.
RunAndFollow(c) ==
    /\ Submit /\ does[c] = "idle"
    /\ listed' = listed \cup {New}
    /\ phase' = [phase EXCEPT ![New] = "submitted"]
    /\ Take(c, "follows", New, Nothing)
    /\ UNCHANGED <<inline, program, killAsked, termed, output>>

\* `run -w`: the asker supervises it and starts it at once. It is in `waiters` of nothing.
RunAndWait(c) ==
    /\ Submit /\ does[c] = "idle"
    /\ inline' = inline \cup {New}
    /\ \/ /\ phase' = [phase EXCEPT ![New] = IF New \in OnTerminal THEN "starting" ELSE "running"]
          /\ program' = [program EXCEPT ![New] = "alive"]
          /\ listed' = listed \cup {New}
          /\ Take(c, "runs", New, Nothing)
       \/ /\ Finish(New, "done", listed \cup {New})
          /\ UNCHANGED <<program, does, job, seen, stop>>
    /\ UNCHANGED <<killAsked, termed, output>>

\* SIGTERM now, to a program that is there.
Term(asked, ready) == termed' = termed \cup {j \in asked : j \in ready /\ program'[j] = "alive"}

\* A way it could go wrong: a kill before the start is forgotten.
MutBacked(j) == termed' = termed

\* The job got its backend: a kill that came before is sent now.
Backed(j) == Term(killAsked, {j})

\* `supervise` in the server's task: fork on pipes, fork on a terminal whose start is awaited, or fail.
Begin(j) ==
    /\ phase[j] = "submitted" /\ j \notin inline
    /\ \/ /\ program' = [program EXCEPT ![j] = "alive"]
          /\ phase' = [phase EXCEPT ![j] = IF j \in OnTerminal THEN "starting" ELSE "running"]
          /\ IF j \in OnTerminal THEN UNCHANGED termed ELSE Backed(j)
          /\ UNCHANGED <<listed, hints>>
       \/ /\ Finish(j, "done", listed)
          /\ UNCHANGED <<program, termed>>
    /\ UNCHANGED <<lastId, inline, killAsked, output, does, job, seen, stop>>

\* `backend.start` is over.
Started(j) ==
    /\ phase[j] = "starting"
    /\ phase' = [phase EXCEPT ![j] = "running"]
    /\ UNCHANGED program
    /\ Backed(j)
    /\ UNCHANGED <<lastId, inline, listed, killAsked, output, clientVars>>

-----------------------------------------------------------------------------
(* The program and its output *)

\* What all programs wrote.
Written == SumFunctionOnSet([d \in Ids \X Streams |-> unread[d[1]][d[2]] + landed[d[1]][d[2]]], Ids \X Streams)

\* The program, or one it left behind, writes.
Write(j, s) ==
    /\ program[j] # "none" /\ ~Done(j) /\ s \in StreamsOf(j) \ eof[j]
    /\ Written < MaxWritten
    /\ unread' = [unread EXCEPT ![j][s] = @ + 1]
    /\ UNCHANGED <<jobVars, landed, eof, clientVars>>

\* `pump`, `land`: what the pipe holds goes into the tail, and the followers are poked.
Pump(j, s) ==
    /\ ~Done(j) /\ unread[j][s] > 0
    /\ landed' = [landed EXCEPT ![j][s] = @ + unread[j][s]]
    /\ unread' = [unread EXCEPT ![j][s] = 0]
    /\ Poke(j)
    /\ UNCHANGED <<jobVars, eof, does, job, seen, stop>>

\* A pump reads the end: nothing holds the other end any more.
Eof(j, s) ==
    /\ program[j] # "none" /\ ~Done(j) /\ s \in StreamsOf(j) \ eof[j] /\ unread[j][s] = 0
    /\ eof' = [eof EXCEPT ![j] = @ \cup {s}]
    /\ UNCHANGED <<jobVars, unread, landed, clientVars>>

\* The program ends, on its own or of a signal, and is reaped.
Exit(j) ==
    /\ program[j] = "alive"
    /\ program' = [program EXCEPT ![j] = "gone"]
    /\ termed' = termed \ {j}
    /\ UNCHANGED <<lastId, listed, phase, inline, killAsked, output, clientVars>>

\* A way it could go wrong: the exit is recorded before the output is in.
MutOver(j) == program[j] = "gone"

\* The group of the pumps and the reap is over.
Over(j) == program[j] = "gone" /\ eof[j] = StreamsOf(j)

\* The end of `supervise`. Who ran it with `-w` reads the outcome.
End(j) ==
    /\ phase[j] = "running" /\ Over(j)
    /\ Finish(j, "done", listed)
    /\ Return(j)
    /\ UNCHANGED <<lastId, inline, program, killAsked, termed, output, seen, stop>>

-----------------------------------------------------------------------------
(* Waiting, following and viewing *)

\* `wait-job`
Wait(c, j) ==
    /\ does[c] = "idle" /\ j \in listed
    /\ Take(c, "waits", j, Nothing)
    /\ UNCHANGED <<jobVars, output>>

\* `done` is set, and the waiter runs.
WaitOver(c) ==
    /\ does[c] = "waits" /\ Done(job[c])
    /\ Leave(c)
    /\ UNCHANGED <<jobVars, output>>

\* `tail`: the replay, then the follow from the end of both streams. Of a
\* job that is done the replay is all.
Follow(c, j) ==
    /\ does[c] = "idle" /\ j \in listed /\ ~Done(j)
    /\ Take(c, "follows", j, landed[j])
    /\ UNCHANGED <<jobVars, output>>

\* A turn that read what is new in both streams, and sleeps again.
Sleep(c) ==
    /\ seen' = [seen EXCEPT ![c] = landed[job[c]]]
    /\ hints' = [hints EXCEPT ![c] = @ - 1]
    /\ UNCHANGED <<does, job, stop>>

\* A hint wakes a follower: it reads what is new, and sleeps unless the job
\* ended or its timeout passed meanwhile.
Drain(c) ==
    /\ does[c] = "follows" /\ hints[c] > 0
    /\ IF Done(job[c]) \/ stop[c] THEN Leave(c) ELSE Sleep(c)
    /\ UNCHANGED <<jobVars, output>>

\* `move_on_after`: it ends the sleep, unless a hint did.
Timeout(c) ==
    /\ does[c] = "follows"
    /\ \/ hints[c] = 0 /\ Leave(c)
       \/ hints[c] > 0 /\ stop' = [stop EXCEPT ![c] = TRUE] /\ UNCHANGED <<does, job, seen, hints>>
    /\ UNCHANGED <<jobVars, output>>

\* `view-job`: a pane starts to view, and counts as a waiter at once.
View(c, j) ==
    /\ does[c] = "idle" /\ j \in listed
    /\ Take(c, "opens", j, Nothing)
    /\ UNCHANGED <<jobVars, output>>

\* `_follow` of a viewer begins: its queue, the replay, and what a sleep needs.
ViewBegins(c) ==
    /\ does[c] = "opens"
    /\ IF Done(job[c]) \/ stop[c] THEN Leave(c) ELSE Take(c, "views", job[c], landed[job[c]])
    /\ UNCHANGED <<jobVars, output>>

\* A hint wakes a viewer. One that was closed feeds nothing more.
ViewDrain(c) ==
    /\ does[c] = "views" /\ hints[c] > 0
    /\ IF Done(job[c]) \/ stop[c] THEN Leave(c) ELSE Sleep(c)
    /\ UNCHANGED <<jobVars, output>>

\* A way it could go wrong: a closed viewer is not woken.
MutWake(c) == UNCHANGED hints

\* The hint of `kill`, in a queue that may be full.
Wake(c) == hints' = [hints EXCEPT ![c] = IF does[c] = "views" THEN OneMore(@) ELSE @]

\* The pane is closed: `kill` of its feed.
CloseViewer(c) ==
    /\ does[c] \in {"opens", "views"} /\ ~stop[c]
    /\ stop' = [stop EXCEPT ![c] = TRUE]
    /\ Wake(c)
    /\ UNCHANGED <<jobVars, output, does, job, seen>>

\* The connection of a client that waits or follows ends.
Go(c) ==
    /\ does[c] \in {"waits", "follows"}
    /\ Leave(c)
    /\ UNCHANGED <<jobVars, output>>

\* A way it could go wrong: the cancelled supervise records no end.
MutCut(j) == UNCHANGED <<phase, hints, listed>>

\* The `finally` of a cancelled supervise.
Cut(j) == Finish(j, "cut", listed)

\* The client of `run -w` goes: its supervise is cancelled, and kills the program.
GoAndCut(c) ==
    /\ does[c] = "runs"
    /\ program' = [program EXCEPT ![job[c]] = "gone"]
    /\ Cut(job[c])
    /\ Return(job[c])
    /\ termed' = termed \ {job[c]}
    /\ UNCHANGED <<lastId, inline, killAsked, output, seen, stop>>

-----------------------------------------------------------------------------
(* Ending and forgetting *)

\* `kill` of running jobs: asked, and SIGTERM to those with a backend.
Kill(jobs) ==
    /\ killAsked' = killAsked \cup {j \in jobs : ~Done(j)}
    /\ UNCHANGED program
    /\ Term({j \in jobs : ~Done(j)}, {j \in Ids : phase[j] = "running"})

\* `kill-job`
KillJob(j) ==
    /\ j \in listed /\ ~Done(j)
    /\ Kill({j})
    /\ UNCHANGED <<lastId, listed, phase, inline, output, clientVars>>

\* `sweep`, of the jobs that were idle for too long. The waited stay.
Sweep(idle) ==
    LET swept == {j \in idle : ~Waited(j)}
    IN  /\ swept # {}
        /\ listed' = listed \ swept
        /\ Kill(swept)
        /\ UNCHANGED <<lastId, phase, inline, output, clientVars>>

-----------------------------------------------------------------------------
Next ==
    \/ Run
    \/ \E c \in Clients \ Viewers : RunAndFollow(c) \/ RunAndWait(c)
    \/ \E j \in Ids : Begin(j) \/ Started(j) \/ Exit(j) \/ End(j) \/ KillJob(j)
    \/ \E j \in Ids, s \in Streams : Write(j, s) \/ Pump(j, s) \/ Eof(j, s)
    \/ \E c \in Clients \ Viewers, j \in Ids : Wait(c, j) \/ Follow(c, j)
    \/ \E c \in Viewers, j \in Ids : View(c, j)
    \/ \E c \in Clients : \/ WaitOver(c) \/ Drain(c) \/ Timeout(c) \/ Go(c) \/ GoAndCut(c)
                          \/ ViewBegins(c) \/ ViewDrain(c) \/ CloseViewer(c)
    \/ \E idle \in SUBSET listed : Sweep(idle)

Spec == Init /\ [][Next]_vars

\* The loop runs what is ready: a supervise whose start or program is over, a
\* waiter whose event is set, a follower with a hint. Nothing is assumed of
\* programs and of their pipes.
FairSpec ==
    /\ Spec
    /\ \A j \in Ids : WF_vars(Started(j)) /\ WF_vars(End(j))
    /\ \A c \in Clients : /\ WF_vars(WaitOver(c)) /\ WF_vars(Drain(c))
                          /\ WF_vars(ViewBegins(c)) /\ WF_vars(ViewDrain(c))

-----------------------------------------------------------------------------
(* Properties *)

Phases == {"none", "submitted", "starting", "running", "done", "cut"}
Doings == {"idle", "waits", "follows", "opens", "views", "runs"}

JobsTyped ==
    /\ lastId \in 0..MaxJobs /\ listed \subseteq 1..lastId
    /\ phase \in [Ids -> Phases]
    /\ program \in [Ids -> {"none", "alive", "gone"}]
    /\ eof \in [Ids -> SUBSET Streams]

AskedTyped == inline \subseteq Ids /\ killAsked \subseteq Ids /\ termed \subseteq Ids

OutputTyped ==
    /\ unread \in [Ids -> [Streams -> Nat]]
    /\ landed \in [Ids -> [Streams -> Nat]]

ClientsTyped ==
    /\ does \in [Clients -> Doings]
    /\ job \in [Clients -> 0..lastId]
    /\ \A c \in Clients : does[c] = "idle" <=> job[c] = NoJob
    /\ seen \in [Clients -> [Streams -> Nat]]
    /\ hints \in [Clients -> Nat]
    /\ stop \in [Clients -> BOOLEAN]

\* Types, and a client has a job exactly while it does something with one
\* (jobs/table.py, jobs/feed.py).
JobsTypeOK == JobsTyped /\ AskedTyped /\ OutputTyped /\ ClientsTyped

\* A follower that sleeps with no hint on its way has read all that landed, and
\* its job runs: a dropped hint loses nothing (`poke`, `_drain`, `JobFeed._follow`).
NobodySleepsThrough ==
    \A c \in Clients :
        does[c] \in {"follows", "views"} /\ hints[c] = 0 =>
            seen[c] = landed[job[c]] /\ ~Done(job[c]) /\ ~stop[c]

\* Who counts as a waiter finds its job in the table until it leaves, over every
\* sweep and every finish of another job (`sweep`, `_reap`).
WaitedStay ==
    \A c \in Clients : does[c] \in {"waits", "follows", "opens", "views"} => job[c] \in listed

\* What a person, or the sweep, ended gets its SIGTERM however early that was:
\* before the fork, or while the terminal started (`kill`, `kill_requested`).
AskedToEnd ==
    \A j \in 1..lastId :
        (j \in killAsked \/ j \notin listed) /\ phase[j] = "running" /\ program[j] = "alive" => j \in termed

\* A waiter never reads half of the output: all a program wrote is in the tails
\* before its job is done (`supervise`).
OutputIsComplete == \A j \in Ids : phase[j] = "done" => \A s \in Streams : unread[j][s] = 0

\* A job that runs in the command of a client ends when that client goes or is
\* refused: the table says `running` of no job that nobody runs (jobs/job.py:136,
\* "`running` until the process ends or fails to start").
InlineHasItsAsker ==
    \A j \in listed \cap inline : ~Done(j) => \E c \in Clients : does[c] = "runs" /\ job[c] = j

\* A job is never taken from a client that waits for it (options/server_options.py:134,
\* "a waited one never"), `run -w` among them.
WaitedIsKept == \A c \in Clients : does[c] # "idle" => job[c] \in listed

\* When a job is over, everybody who waits for it, follows it or views it hears of it
\* and lets it go (`wait`, `follow`, `JobFeed._follow`).
EndIsTold ==
    \A c \in Clients, j \in Ids : (job[c] = j /\ phase[j] = "running" /\ Over(j)) ~> (job[c] # j)
=============================================================================
