------------------------------- MODULE Upgrade -------------------------------
(***************************************************************************)
(* `upgrade-server`: core/upgrade.py with the snapshot file of             *)
(* core/snapshot/write.py, beside the commands that open and close panes   *)
(* and the programs that write, end and are reaped.  The exec keeps the    *)
(* process, so the programs stay its children; what no image knows of is   *)
(* never reaped, and what was read from a pty and is in no snapshot is     *)
(* gone.                                                                   *)
(*                                                                         *)
(* Nothing but `refusing_commands` keeps one upgrade out while another     *)
(* runs, and it is set late: Attempts with two members are two clients     *)
(* that both ask for one.                                                  *)
(***************************************************************************)
EXTENDS Naturals, FiniteSets

CONSTANTS
  Programs,   \* the programs of panes
  Attempts,   \* calls of `upgrade`
  NoFile,     \* a name in the directory that leads to no file
  MaxOutput   \* a bound: what a program writes

ASSUME UpgradeAssumption ==
  /\ NoFile \notin Attempts
  /\ MaxOutput \in Nat

VARIABLES
  prog,       \* "none", "runs", "ended" (a zombie), or "reaped"
  place,      \* its pane: "none", in the "making" (`create_pane`), or "listed"
  hanging,    \* `hanging_up`: closed, and in the grace after SIGHUP
  wrote,      \* what the program wrote
  taken,      \* what was read of it from the pty, by any image
  shows,      \* what the pane of this image holds of it
  reads,      \* its backend is read
  listening,  \* clients are taken
  refusing,   \* `refusing_commands`
  at,         \* where each call of `upgrade` awaits
  swept,      \* the backends it killed and waits for
  db,         \* the file that its `Snapshot` writes, by pane
  partial,    \* whose file `path.partial` names
  path,       \* whose file `path` names
  server,     \* "serves", "execs", or "crashed" in the new image
  late,       \* killed, and not reaped within KILL_TIMEOUT
  flight      \* in the making at the pause

programs == <<prog, place, hanging, wrote, taken, shows>>
serving == <<reads, listening, refusing>>
upgrading == <<at, swept, db, partial, path>>
vars == <<programs, serving, upgrading, server, late, flight>>

Phases == {"no", "quiets", "checks", "tells", "sweeps", "answers"}

\* A file holds some panes, and of each what it shows.
Files == UNION {[held -> 0..MaxOutput] : held \in SUBSET Programs}

UpgradeTypeOK ==
  /\ prog \in [Programs -> {"none", "runs", "ended", "reaped"}]
  /\ place \in [Programs -> {"none", "making", "listed"}]
  /\ hanging \subseteq Programs
  /\ wrote \in [Programs -> 0..MaxOutput]
  /\ taken \in [Programs -> 0..MaxOutput]
  /\ shows \in [Programs -> 0..MaxOutput]
  /\ reads \in [Programs -> BOOLEAN]
  /\ listening \in BOOLEAN /\ refusing \in BOOLEAN
  /\ at \in [Attempts -> Phases]
  /\ swept \in [Attempts -> SUBSET Programs]
  /\ db \in [Attempts -> Files]
  /\ partial \in Attempts \cup {NoFile} /\ path \in Attempts \cup {NoFile}
  /\ server \in {"serves", "execs", "crashed"}
  /\ late \subseteq Programs /\ flight \subseteq Programs

Nothing == [p \in {} |-> 0]

Init ==
  /\ prog = [p \in Programs |-> "none"]
  /\ place = [p \in Programs |-> "none"]
  /\ hanging = {}
  /\ wrote = [p \in Programs |-> 0]
  /\ taken = [p \in Programs |-> 0]
  /\ shows = [p \in Programs |-> 0]
  /\ reads = [p \in Programs |-> TRUE]
  /\ listening = TRUE /\ refusing = FALSE
  /\ at = [a \in Attempts |-> "no"]
  /\ swept = [a \in Attempts |-> {}]
  /\ db = [a \in Attempts |-> Nothing]
  /\ partial = NoFile /\ path = NoFile
  /\ server = "serves" /\ late = {} /\ flight = {}

Listed == {p \in Programs : place[p] = "listed"}

-----------------------------------------------------------------------------
(* The programs and their panes.                                           *)

\* A command that makes a pane, as far as its await.
Begin(p) ==
  /\ server = "serves" /\ ~refusing
  /\ prog[p] = "none" /\ place[p] = "none"
  /\ place' = [place EXCEPT ![p] = "making"]
  /\ UNCHANGED <<prog, hanging, wrote, taken, shows, serving, upgrading, server, late, flight>>

\* The fork, within that await.
Fork(p) ==
  /\ server = "serves"
  /\ prog[p] = "none" /\ place[p] = "making"
  /\ prog' = [prog EXCEPT ![p] = "runs"]
  /\ UNCHANGED <<place, hanging, wrote, taken, shows, serving, upgrading, server, late, flight>>

\* The rest of the command: the pane is in a window.
Place(p) ==
  /\ server = "serves"
  /\ prog[p] # "none" /\ place[p] = "making"
  /\ place' = [place EXCEPT ![p] = "listed"]
  /\ UNCHANGED <<prog, hanging, wrote, taken, shows, serving, upgrading, server, late, flight>>

\* Writing and ending go on whatever the server does.
Write(p) ==
  /\ prog[p] = "runs" /\ wrote[p] < MaxOutput
  /\ wrote' = [wrote EXCEPT ![p] = @ + 1]
  /\ UNCHANGED <<prog, place, hanging, taken, shows, serving, upgrading, server, late, flight>>

End(p) ==
  /\ prog[p] = "runs"
  /\ prog' = [prog EXCEPT ![p] = "ended"]
  /\ UNCHANGED <<place, hanging, wrote, taken, shows, serving, upgrading, server, late, flight>>

\* A read of the pty, where there is something to read.
Read(p) ==
  /\ server = "serves"
  /\ place[p] # "none" /\ reads[p]
  /\ taken[p] < wrote[p]
  /\ taken' = [taken EXCEPT ![p] = @ + 1]
  /\ shows' = [shows EXCEPT ![p] = @ + 1]
  /\ UNCHANGED <<prog, place, hanging, wrote, serving, upgrading, server, late, flight>>

\* An image reaps what it knows, and `take_ended_pane` follows.
Reap(p) ==
  /\ server = "serves"
  /\ place[p] = "listed" \/ p \in hanging
  /\ prog[p] \in {"ended", "reaped"}
  /\ prog' = [prog EXCEPT ![p] = "reaped"]
  /\ place' = [place EXCEPT ![p] = "none"]
  /\ hanging' = hanging \ {p}
  /\ UNCHANGED <<wrote, taken, shows, serving, upgrading, server, late, flight>>

\* The command closes panes though an upgrade refuses commands.
MutClose(p) ==
  /\ server = "serves"
  /\ place[p] = "listed" /\ prog[p] = "runs"
  /\ place' = [place EXCEPT ![p] = "none"]
  /\ hanging' = hanging \cup {p}
  /\ UNCHANGED <<prog, wrote, taken, shows, serving, upgrading, server, late, flight>>

\* A command closes a pane: out of its window, and `hang_up`.
Close(p) ==
  /\ server = "serves" /\ ~refusing
  /\ place[p] = "listed" /\ prog[p] = "runs"
  /\ place' = [place EXCEPT ![p] = "none"]
  /\ hanging' = hanging \cup {p}
  /\ UNCHANGED <<prog, wrote, taken, shows, serving, upgrading, server, late, flight>>

-----------------------------------------------------------------------------
(* The steps of `upgrade`, from one await to the next.                     *)

\* What `Snapshot.write` finds.
Contents == [p \in Listed |-> shows[p]]

\* `_refuse`, and `Snapshot(path)`: a file of another one that is still
\* being written loses its name.
Start(a) ==
  /\ server = "serves" /\ ~refusing
  /\ at[a] = "no"
  /\ at' = [at EXCEPT ![a] = "quiets"]
  /\ partial' = a
  /\ db' = [db EXCEPT ![a] = Nothing]
  /\ UNCHANGED <<programs, serving, swept, path, server, late, flight>>

\* Sound and portal stopped; the first write, while the server serves.
FirstWrite(a) ==
  /\ at[a] = "quiets"
  /\ at' = [at EXCEPT ![a] = "checks"]
  /\ db' = [db EXCEPT ![a] = Contents]
  /\ UNCHANGED <<programs, serving, swept, partial, path, server, late, flight>>

\* `_check`: the new build loads the file that `partial` names.
Checked(a) ==
  /\ at[a] = "checks"
  /\ partial # NoFile
  /\ at' = [at EXCEPT ![a] = "tells"]
  /\ UNCHANGED <<programs, serving, swept, db, partial, path, server, late, flight>>

\* `_pause`: of the panes that `panes_of` finds.
MutStopReading == UNCHANGED reads
StopReading == reads' = [p \in Programs |-> reads[p] /\ place[p] # "listed"]

\* The pause, the second write and `finish`, without an await.
PauseAndWrite(a) ==
  /\ partial # NoFile
  /\ listening' = FALSE
  /\ StopReading
  /\ db' = [db EXCEPT ![a] = Contents]
  /\ path' = partial
  /\ partial' = NoFile
  /\ at' = [at EXCEPT ![a] = "answers"]
  /\ flight' = flight \cup {p \in Programs : place[p] = "making"}

\* The clients are told.  `_end_the_hung_up` kills what is in its grace,
\* and awaits only if there is something.
Sweep(a) ==
  /\ at[a] = "tells"
  /\ refusing' = TRUE
  /\ swept' = [swept EXCEPT ![a] = hanging]
  /\ IF hanging = {}
       THEN PauseAndWrite(a)
       ELSE /\ at' = [at EXCEPT ![a] = "sweeps"]
            /\ UNCHANGED <<reads, listening, db, partial, path, flight>>
  /\ UNCHANGED <<programs, server, late>>

\* All were reaped, or KILL_TIMEOUT passed.
Swept(a) ==
  /\ at[a] = "sweeps"
  /\ late' = late \cup (swept[a] \cap hanging)
  /\ PauseAndWrite(a)
  /\ UNCHANGED <<programs, refusing, swept, server>>

\* Nothing is read again.
MutReadAgain(a) == UNCHANGED reads

\* `_resume`, for what was paused.
ReadAgain(a) ==
  reads' = [p \in Programs |-> reads[p] \/ (at[a] = "answers" /\ place[p] = "listed")]

\* The `except` of `upgrade`.  The names go, whoever's files they name.
RollBack(a) ==
  /\ at' = [at EXCEPT ![a] = "no"]
  /\ partial' = NoFile /\ path' = NoFile
  /\ refusing' = FALSE
  /\ listening' = (listening \/ at[a] = "answers")
  /\ ReadAgain(a)
  /\ flight' = {p \in flight : place[p] = "none"}
  /\ UNCHANGED <<programs, swept, db, server, late>>

\* The check fails or takes too long, a snapshot is refused, the caller
\* goes at an await, or the exec fails.
Fail(a) ==
  /\ server = "serves"
  /\ at[a] # "no"
  /\ RollBack(a)

\* The second write is refused in the pause, or its file has no name.
\* Reading goes on as before: what `_pause` stopped, `_resume` starts.
FailPaused(a) ==
  /\ at[a] \in {"tells", "sweeps"}
  /\ at[a] = "tells" => hanging = {}
  /\ at' = [at EXCEPT ![a] = "no"]
  /\ partial' = NoFile /\ path' = NoFile
  /\ refusing' = FALSE
  /\ listening' = TRUE
  /\ reads' = [p \in Programs |-> reads[p] \/ place[p] = "listed"]
  /\ swept' = [swept EXCEPT ![a] = IF at[a] = "tells" THEN {} ELSE @]
  /\ late' = late \cup (swept'[a] \cap hanging)
  /\ flight' = {p \in flight : place[p] = "none"}
  /\ UNCHANGED <<programs, db, server>>

\* The caller is answered, and the process becomes the new build.
Exec(a) ==
  /\ server = "serves"
  /\ at[a] = "answers"
  /\ server' = "execs"
  /\ UNCHANGED <<programs, serving, upgrading, late, flight>>

\* `resume` in the new image, from the file that `path` names.
Resume ==
  /\ server = "execs"
  /\ IF path = NoFile
       THEN /\ server' = "crashed"
            /\ UNCHANGED <<programs, serving, upgrading>>
       ELSE /\ server' = "serves"
            /\ place' = [p \in Programs |-> IF p \in DOMAIN db[path] THEN "listed" ELSE "none"]
            /\ shows' = [p \in Programs |-> IF p \in DOMAIN db[path] THEN db[path][p] ELSE 0]
            /\ hanging' = {}
            /\ reads' = [p \in Programs |-> TRUE]
            /\ listening' = TRUE /\ refusing' = FALSE
            /\ at' = [b \in Attempts |-> "no"]
            /\ swept' = [b \in Attempts |-> {}]
            /\ db' = [b \in Attempts |-> Nothing]
            /\ path' = NoFile
            /\ UNCHANGED <<prog, wrote, taken, partial>>
  /\ UNCHANGED <<late, flight>>

-----------------------------------------------------------------------------
PaneStep(p) ==
  Begin(p) \/ Fork(p) \/ Place(p) \/ Write(p) \/ End(p) \/ Read(p) \/ Reap(p) \/ Close(p)

UpgradeStep(a) ==
  /\ server = "serves"
  /\ \/ Start(a) \/ FirstWrite(a) \/ Checked(a) \/ Sweep(a) \/ Swept(a)
     \/ Fail(a) \/ FailPaused(a) \/ Exec(a)

Next ==
  \/ \E p \in Programs : PaneStep(p)
  \/ \E a \in Attempts : UpgradeStep(a)
  \/ Resume

Spec == Init /\ [][Next]_vars

-----------------------------------------------------------------------------
(* Properties.                                                             *)

\* "No pane is read after the write that describes it": whatever was read
\* from a program is on the screen of its pane, in this image and in those
\* that come after it.
NothingLost ==
  server = "serves" => \A p \in Listed : shows[p] = taken[p]

\* "Neither image ends or reaps": a program is in a pane, or in its grace
\* where this image reaps it.  An upgrade leaves only what outlived its
\* SIGKILL for KILL_TIMEOUT, and what was in the making.
NobodyLeftBehind ==
  server = "serves" =>
    \A p \in Programs : prog[p] \in {"runs", "ended"} =>
      place[p] # "none" \/ p \in hanging \/ p \in late \/ p \in flight

\* "A build that cannot is refused with nothing lost": while no upgrade is
\* past its check the server takes clients and commands, and reads every
\* pane, whichever step of an earlier one failed.
ServesOn ==
  server = "serves" /\ (\A a \in Attempts : at[a] \in {"no", "quiets", "checks", "tells"}) =>
    listening /\ ~refusing /\ \A p \in Listed : reads[p]

\* "Run a new build of pymux in this server's place, and keep every pane".
EveryPaneKept ==
  [][server = "execs" /\ server' = "serves" =>
       \A p \in Programs : prog[p] = "runs" /\ place[p] = "listed" => place'[p] = "listed"]_vars
=============================================================================
