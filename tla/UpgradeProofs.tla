---------------------------- MODULE UpgradeProofs ----------------------------
(***************************************************************************)
(* Proofs about Upgrade, for any programs and outputs, when one `upgrade`  *)
(* is asked for at a time: nothing that was read is lost over the exec, no *)
(* program is left behind, and an upgrade that fails leaves a server that  *)
(* serves.  With two at a time the first two fail (MCUpgradeTwice).        *)
(***************************************************************************)
EXTENDS Upgrade, TLAPS

\* One call of `upgrade` runs at a time.
OneAtATime == \A a, b \in Attempts : a = b

\* The screen of each pane holds what was read, also where it is in the making.
Shown ==
  server = "serves" =>
    \A p \in Programs : place[p] # "none" \/ prog[p] = "none" => shows[p] = taken[p]

\* Of a program that is not forked nothing was read, closed or stopped.
Unborn ==
  \A p \in Programs :
    /\ prog[p] = "none" => wrote[p] = 0 /\ taken[p] = 0 /\ place[p] # "listed" /\ p \notin hanging
    /\ prog[p] = "none" \/ place[p] = "making" => reads[p]

\* Until it is finished the file at `partial` is that of the upgrade.
OwnFile ==
  \A a \in Attempts : at[a] \in {"quiets", "checks", "tells", "sweeps"} => partial = a

\* What the second write wrote stays true until the exec: what it holds is
\* not read, and what it does not hold was in the making or too late.
HandedOn ==
  \A a \in Attempts : at[a] = "answers" =>
    /\ path = a
    /\ \A p \in DOMAIN db[a] : prog[p] # "none" /\ ~reads[p] /\ db[a][p] = taken[p]
    /\ \A p \in Programs : prog[p] \in {"runs", "ended"} =>
         p \in DOMAIN db[a] \/ p \in late \/ p \in flight
    /\ \A p \in Programs : place[p] = "making" => p \in flight

\* Nothing joins what the sweep kills.
SweepsAll ==
  \A a \in Attempts :
    /\ at[a] \in {"sweeps", "answers"} => refusing
    /\ at[a] = "sweeps" => hanging \subseteq swept[a]

\* The exec hands over the file of the upgrade that answered.
InExec ==
  server # "serves" => server = "execs" /\ path \in Attempts /\ at[path] = "answers"

\* `ServesOn`, by what each phase stops.
Serving ==
  server = "serves" =>
    /\ (\A a \in Attempts : at[a] # "answers") =>
         listening /\ \A p \in Programs : place[p] = "listed" => reads[p]
    /\ (\A a \in Attempts : at[a] \notin {"sweeps", "answers"}) => ~refusing

UpgradeInv ==
  /\ UpgradeTypeOK
  /\ Shown
  /\ Unborn
  /\ OwnFile
  /\ HandedOn
  /\ SweepsAll
  /\ InExec
  /\ NobodyLeftBehind
  /\ Serving

\* What a write writes is a file's contents, and so is nothing.
LEMMA ContentsAreContents ==
  ASSUME UpgradeTypeOK
  PROVE  Contents \in Files /\ Nothing \in Files /\ DOMAIN Contents = Listed /\ DOMAIN Nothing = {}
<1>1. Listed \in SUBSET Programs
  BY DEF Listed
<1>2. Contents \in [Listed -> 0..MaxOutput]
  BY DEF Contents, Listed, UpgradeTypeOK
<1>3. Nothing \in [{} -> 0..MaxOutput]
  BY DEF Nothing
<1> QED BY <1>1, <1>2, <1>3 DEF Files

\* A new file is a file.
LEMMA ContentsAreFiles == Nothing \in Files
<1>1. Nothing \in [{} -> 0..MaxOutput] /\ {} \in SUBSET Programs
  BY DEF Nothing
<1> QED BY <1>1 DEF Files

\* A file's contents are numbers for some of the programs.
LEMMA FilesHold ==
  ASSUME NEW f \in Files
  PROVE  DOMAIN f \subseteq Programs /\ \A p \in DOMAIN f : f[p] \in 0..MaxOutput
BY DEF Files

\* `Begin` keeps the invariant.
LEMMA BeginKeeps ==
  ASSUME OneAtATime, UpgradeInv, NEW p \in Programs, Begin(p)
  PROVE  UpgradeInv'
<1>1. UpgradeTypeOK'
  BY DEF UpgradeTypeOK, UpgradeInv, Begin, programs, serving, upgrading
<1>2. Shown'
  BY DEF Shown, UpgradeInv, Begin, programs, serving, upgrading
<1>3. Unborn'
  BY DEF Unborn, UpgradeInv, Begin, programs, serving, upgrading
<1>4. OwnFile'
  BY DEF OwnFile, UpgradeInv, Begin, programs, serving, upgrading
<1>5. HandedOn'
  BY DEF HandedOn, UpgradeInv, Begin, programs, serving, upgrading, SweepsAll, UpgradeTypeOK
<1>6. SweepsAll'
  BY DEF SweepsAll, UpgradeInv, Begin, programs, serving, upgrading
<1>7. InExec'
  BY DEF InExec, UpgradeInv, Begin, programs, serving, upgrading
<1>8. NobodyLeftBehind'
  BY DEF NobodyLeftBehind, UpgradeInv, Begin, programs, serving, upgrading
<1>9. Serving'
  BY DEF Serving, UpgradeInv, Begin, programs, serving, upgrading
<1> QED BY <1>1, <1>2, <1>3, <1>4, <1>5, <1>6, <1>7, <1>8, <1>9 DEF UpgradeInv

\* `Fork` keeps the invariant.
LEMMA ForkKeeps ==
  ASSUME OneAtATime, UpgradeInv, NEW p \in Programs, Fork(p)
  PROVE  UpgradeInv'
<1>1. UpgradeTypeOK'
  BY DEF UpgradeTypeOK, UpgradeInv, Fork, programs, serving, upgrading
<1>2. Shown'
  BY DEF Shown, UpgradeInv, Fork, programs, serving, upgrading
<1>3. Unborn'
  BY DEF Unborn, UpgradeInv, Fork, programs, serving, upgrading
<1>4. OwnFile'
  BY DEF OwnFile, UpgradeInv, Fork, programs, serving, upgrading
<1>5. HandedOn'
  BY DEF HandedOn, UpgradeInv, Fork, programs, serving, upgrading
<1>6. SweepsAll'
  BY DEF SweepsAll, UpgradeInv, Fork, programs, serving, upgrading
<1>7. InExec'
  BY DEF InExec, UpgradeInv, Fork, programs, serving, upgrading
<1>8. NobodyLeftBehind'
  BY DEF NobodyLeftBehind, UpgradeInv, Fork, programs, serving, upgrading
<1>9. Serving'
  BY DEF Serving, UpgradeInv, Fork, programs, serving, upgrading
<1> QED BY <1>1, <1>2, <1>3, <1>4, <1>5, <1>6, <1>7, <1>8, <1>9 DEF UpgradeInv

\* `Place` keeps the invariant.
LEMMA PlaceKeeps ==
  ASSUME OneAtATime, UpgradeInv, NEW p \in Programs, Place(p)
  PROVE  UpgradeInv'
<1>1. UpgradeTypeOK'
  BY DEF UpgradeTypeOK, UpgradeInv, Place, programs, serving, upgrading
<1>2. Shown'
  BY DEF Shown, UpgradeInv, Place, programs, serving, upgrading
<1>3. Unborn'
  BY DEF Unborn, UpgradeInv, Place, programs, serving, upgrading
<1>4. OwnFile'
  BY DEF OwnFile, UpgradeInv, Place, programs, serving, upgrading
<1>5. HandedOn'
  BY DEF HandedOn, UpgradeInv, Place, programs, serving, upgrading
<1>6. SweepsAll'
  BY DEF SweepsAll, UpgradeInv, Place, programs, serving, upgrading
<1>7. InExec'
  BY DEF InExec, UpgradeInv, Place, programs, serving, upgrading
<1>8. NobodyLeftBehind'
  BY DEF NobodyLeftBehind, UpgradeInv, Place, programs, serving, upgrading
<1>9. Serving'
  BY DEF Serving, UpgradeInv, Place, programs, serving, upgrading, UpgradeTypeOK, Unborn
<1> QED BY <1>1, <1>2, <1>3, <1>4, <1>5, <1>6, <1>7, <1>8, <1>9 DEF UpgradeInv

\* `Write` keeps the invariant.
LEMMA WriteKeeps ==
  ASSUME OneAtATime, UpgradeInv, NEW p \in Programs, Write(p)
  PROVE  UpgradeInv'
<1>1. UpgradeTypeOK'
  BY UpgradeAssumption DEF UpgradeTypeOK, UpgradeInv, Write, programs, serving, upgrading
<1>2. Shown'
  BY DEF Shown, UpgradeInv, Write, programs, serving, upgrading
<1>3. Unborn'
  BY DEF Unborn, UpgradeInv, Write, programs, serving, upgrading
<1>4. OwnFile'
  BY DEF OwnFile, UpgradeInv, Write, programs, serving, upgrading
<1>5. HandedOn'
  BY DEF HandedOn, UpgradeInv, Write, programs, serving, upgrading
<1>6. SweepsAll'
  BY DEF SweepsAll, UpgradeInv, Write, programs, serving, upgrading
<1>7. InExec'
  BY DEF InExec, UpgradeInv, Write, programs, serving, upgrading
<1>8. NobodyLeftBehind'
  BY DEF NobodyLeftBehind, UpgradeInv, Write, programs, serving, upgrading
<1>9. Serving'
  BY DEF Serving, UpgradeInv, Write, programs, serving, upgrading
<1> QED BY <1>1, <1>2, <1>3, <1>4, <1>5, <1>6, <1>7, <1>8, <1>9 DEF UpgradeInv

\* `End` keeps the invariant.
LEMMA EndKeeps ==
  ASSUME OneAtATime, UpgradeInv, NEW p \in Programs, End(p)
  PROVE  UpgradeInv'
<1>1. UpgradeTypeOK'
  BY DEF UpgradeTypeOK, UpgradeInv, End, programs, serving, upgrading
<1>2. Shown'
  BY DEF Shown, UpgradeInv, End, programs, serving, upgrading
<1>3. Unborn'
  BY DEF Unborn, UpgradeInv, End, programs, serving, upgrading
<1>4. OwnFile'
  BY DEF OwnFile, UpgradeInv, End, programs, serving, upgrading
<1>5. HandedOn'
  BY DEF HandedOn, UpgradeInv, End, programs, serving, upgrading
<1>6. SweepsAll'
  BY DEF SweepsAll, UpgradeInv, End, programs, serving, upgrading
<1>7. InExec'
  BY DEF InExec, UpgradeInv, End, programs, serving, upgrading
<1>8. NobodyLeftBehind'
  BY DEF NobodyLeftBehind, UpgradeInv, End, programs, serving, upgrading
<1>9. Serving'
  BY DEF Serving, UpgradeInv, End, programs, serving, upgrading
<1> QED BY <1>1, <1>2, <1>3, <1>4, <1>5, <1>6, <1>7, <1>8, <1>9 DEF UpgradeInv

\* `Read` keeps the invariant.
LEMMA ReadKeeps ==
  ASSUME OneAtATime, UpgradeInv, NEW p \in Programs, Read(p)
  PROVE  UpgradeInv'
<1>1. UpgradeTypeOK'
  BY UpgradeAssumption DEF UpgradeTypeOK, UpgradeInv, Read, programs, serving, upgrading, Shown
<1>2. Shown'
  BY DEF Shown, UpgradeInv, Read, programs, serving, upgrading, UpgradeTypeOK
<1>3. Unborn'
  BY DEF Unborn, UpgradeInv, Read, programs, serving, upgrading
<1>4. OwnFile'
  BY DEF OwnFile, UpgradeInv, Read, programs, serving, upgrading
<1>5. HandedOn'
  BY DEF HandedOn, UpgradeInv, Read, programs, serving, upgrading
<1>6. SweepsAll'
  BY DEF SweepsAll, UpgradeInv, Read, programs, serving, upgrading
<1>7. InExec'
  BY DEF InExec, UpgradeInv, Read, programs, serving, upgrading
<1>8. NobodyLeftBehind'
  BY DEF NobodyLeftBehind, UpgradeInv, Read, programs, serving, upgrading
<1>9. Serving'
  BY DEF Serving, UpgradeInv, Read, programs, serving, upgrading
<1> QED BY <1>1, <1>2, <1>3, <1>4, <1>5, <1>6, <1>7, <1>8, <1>9 DEF UpgradeInv

\* `Reap` keeps the invariant.
LEMMA ReapKeeps ==
  ASSUME OneAtATime, UpgradeInv, NEW p \in Programs, Reap(p)
  PROVE  UpgradeInv'
<1>1. UpgradeTypeOK'
  BY DEF UpgradeTypeOK, UpgradeInv, Reap, programs, serving, upgrading
<1>2. Shown'
  BY DEF Shown, UpgradeInv, Reap, programs, serving, upgrading
<1>3. Unborn'
  BY DEF Unborn, UpgradeInv, Reap, programs, serving, upgrading
<1>4. OwnFile'
  BY DEF OwnFile, UpgradeInv, Reap, programs, serving, upgrading
<1>5. HandedOn'
  BY DEF HandedOn, UpgradeInv, Reap, programs, serving, upgrading
<1>6. SweepsAll'
  BY DEF SweepsAll, UpgradeInv, Reap, programs, serving, upgrading
<1>7. InExec'
  BY DEF InExec, UpgradeInv, Reap, programs, serving, upgrading
<1>8. NobodyLeftBehind'
  BY DEF NobodyLeftBehind, UpgradeInv, Reap, programs, serving, upgrading, UpgradeTypeOK, Unborn
<1>9. Serving'
  BY DEF Serving, UpgradeInv, Reap, programs, serving, upgrading
<1> QED BY <1>1, <1>2, <1>3, <1>4, <1>5, <1>6, <1>7, <1>8, <1>9 DEF UpgradeInv

\* `Close` keeps the invariant.
LEMMA CloseKeeps ==
  ASSUME OneAtATime, UpgradeInv, NEW p \in Programs, Close(p)
  PROVE  UpgradeInv'
<1>1. UpgradeTypeOK'
  BY DEF UpgradeTypeOK, UpgradeInv, Close, programs, serving, upgrading
<1>2. Shown'
  BY DEF Shown, UpgradeInv, Close, programs, serving, upgrading
<1>3. Unborn'
  BY DEF Unborn, UpgradeInv, Close, programs, serving, upgrading
<1>4. OwnFile'
  BY DEF OwnFile, UpgradeInv, Close, programs, serving, upgrading
<1>5. HandedOn'
  BY DEF HandedOn, UpgradeInv, Close, programs, serving, upgrading
<1>6. SweepsAll'
  BY DEF SweepsAll, UpgradeInv, Close, programs, serving, upgrading
<1>7. InExec'
  BY DEF InExec, UpgradeInv, Close, programs, serving, upgrading
<1>8. NobodyLeftBehind'
  BY DEF NobodyLeftBehind, UpgradeInv, Close, programs, serving, upgrading
<1>9. Serving'
  BY DEF Serving, UpgradeInv, Close, programs, serving, upgrading
<1> QED BY <1>1, <1>2, <1>3, <1>4, <1>5, <1>6, <1>7, <1>8, <1>9 DEF UpgradeInv

\* `Start` keeps the invariant.
LEMMA StartKeeps ==
  ASSUME OneAtATime, UpgradeInv, NEW a \in Attempts, server = "serves", Start(a)
  PROVE  UpgradeInv'
<1>1. UpgradeTypeOK'
  BY ContentsAreContents DEF UpgradeTypeOK, UpgradeInv, Start, programs, serving, upgrading, Phases
<1>2. Shown'
  BY DEF Shown, UpgradeInv, Start, programs, serving, upgrading
<1>3. Unborn'
  BY DEF Unborn, UpgradeInv, Start, programs, serving, upgrading
<1>4. OwnFile'
  BY DEF OwnFile, UpgradeInv, Start, programs, serving, upgrading, OneAtATime, UpgradeTypeOK
<1>5. HandedOn'
  BY DEF HandedOn, UpgradeInv, Start, programs, serving, upgrading
<1>6. SweepsAll'
  BY DEF SweepsAll, UpgradeInv, Start, programs, serving, upgrading
<1>7. InExec'
  BY DEF InExec, UpgradeInv, Start, programs, serving, upgrading
<1>8. NobodyLeftBehind'
  BY DEF NobodyLeftBehind, UpgradeInv, Start, programs, serving, upgrading
<1>9. Serving'
  BY DEF Serving, UpgradeInv, Start, programs, serving, upgrading
<1> QED BY <1>1, <1>2, <1>3, <1>4, <1>5, <1>6, <1>7, <1>8, <1>9 DEF UpgradeInv

\* `FirstWrite` keeps the invariant.
LEMMA FirstWriteKeeps ==
  ASSUME OneAtATime, UpgradeInv, NEW a \in Attempts, server = "serves", FirstWrite(a)
  PROVE  UpgradeInv'
<1>1. UpgradeTypeOK'
  BY ContentsAreContents DEF UpgradeTypeOK, UpgradeInv, FirstWrite, Contents, programs, serving, upgrading, Phases
<1>2. Shown'
  BY DEF Shown, UpgradeInv, FirstWrite, Contents, programs, serving, upgrading
<1>3. Unborn'
  BY DEF Unborn, UpgradeInv, FirstWrite, Contents, programs, serving, upgrading
<1>4. OwnFile'
  BY DEF OwnFile, UpgradeInv, FirstWrite, Contents, programs, serving, upgrading
<1>5. HandedOn'
  BY DEF HandedOn, UpgradeInv, FirstWrite, Contents, programs, serving, upgrading
<1>6. SweepsAll'
  BY DEF SweepsAll, UpgradeInv, FirstWrite, Contents, programs, serving, upgrading
<1>7. InExec'
  BY DEF InExec, UpgradeInv, FirstWrite, Contents, programs, serving, upgrading
<1>8. NobodyLeftBehind'
  BY DEF NobodyLeftBehind, UpgradeInv, FirstWrite, Contents, programs, serving, upgrading
<1>9. Serving'
  BY DEF Serving, UpgradeInv, FirstWrite, Contents, programs, serving, upgrading
<1> QED BY <1>1, <1>2, <1>3, <1>4, <1>5, <1>6, <1>7, <1>8, <1>9 DEF UpgradeInv

\* `Checked` keeps the invariant.
LEMMA CheckedKeeps ==
  ASSUME OneAtATime, UpgradeInv, NEW a \in Attempts, server = "serves", Checked(a)
  PROVE  UpgradeInv'
<1>1. UpgradeTypeOK'
  BY DEF UpgradeTypeOK, UpgradeInv, Checked, programs, serving, upgrading, Phases
<1>2. Shown'
  BY DEF Shown, UpgradeInv, Checked, programs, serving, upgrading
<1>3. Unborn'
  BY DEF Unborn, UpgradeInv, Checked, programs, serving, upgrading
<1>4. OwnFile'
  BY DEF OwnFile, UpgradeInv, Checked, programs, serving, upgrading
<1>5. HandedOn'
  BY DEF HandedOn, UpgradeInv, Checked, programs, serving, upgrading
<1>6. SweepsAll'
  BY DEF SweepsAll, UpgradeInv, Checked, programs, serving, upgrading
<1>7. InExec'
  BY DEF InExec, UpgradeInv, Checked, programs, serving, upgrading
<1>8. NobodyLeftBehind'
  BY DEF NobodyLeftBehind, UpgradeInv, Checked, programs, serving, upgrading
<1>9. Serving'
  BY DEF Serving, UpgradeInv, Checked, programs, serving, upgrading
<1> QED BY <1>1, <1>2, <1>3, <1>4, <1>5, <1>6, <1>7, <1>8, <1>9 DEF UpgradeInv

\* `Sweep` keeps the invariant.
LEMMA SweepKeeps ==
  ASSUME OneAtATime, UpgradeInv, NEW a \in Attempts, server = "serves", Sweep(a)
  PROVE  UpgradeInv'
<1>1. UpgradeTypeOK'
  <2>1. CASE hanging = {}
    <3>1. db' \in [Attempts -> Files]
      BY <2>1, ContentsAreContents DEF Sweep, PauseAndWrite, UpgradeTypeOK, UpgradeInv
    <3>2. reads' \in [Programs -> BOOLEAN] /\ flight' \subseteq Programs
      BY <2>1 DEF Sweep, PauseAndWrite, StopReading, UpgradeTypeOK, UpgradeInv
    <3>3. at' \in [Attempts -> Phases] /\ swept' \in [Attempts -> SUBSET Programs]
      BY <2>1 DEF Sweep, PauseAndWrite, UpgradeTypeOK, UpgradeInv, Phases
    <3> QED BY <2>1, <3>1, <3>2, <3>3 DEF UpgradeTypeOK, UpgradeInv, Sweep, PauseAndWrite, programs
  <2>2. CASE hanging # {}
    BY <2>2 DEF UpgradeTypeOK, UpgradeInv, Sweep, programs, Phases
  <2> QED BY <2>1, <2>2
<1>2. Shown'
  BY DEF Shown, UpgradeInv, Sweep, PauseAndWrite, StopReading, programs, serving, upgrading
<1>3. Unborn'
  BY DEF Unborn, UpgradeInv, Sweep, PauseAndWrite, StopReading, programs, serving, upgrading
<1>4. OwnFile'
  BY DEF OwnFile, UpgradeInv, Sweep, PauseAndWrite, StopReading, programs, serving, upgrading, OneAtATime, UpgradeTypeOK
<1>5. HandedOn'
  <2>1. CASE hanging # {}
    BY <2>1 DEF HandedOn, OneAtATime, Sweep, programs, UpgradeInv, UpgradeTypeOK
  <2>2. CASE hanging = {}
    <3>1. db'[a] = Contents /\ path' = a /\ at'[a] = "answers"
      BY <2>2 DEF Sweep, PauseAndWrite, OwnFile, UpgradeInv, UpgradeTypeOK
    <3>2. \A p \in DOMAIN Contents : prog[p] # "none" /\ ~reads'[p] /\ Contents[p] = taken[p]
      BY <2>2, ContentsAreContents
      DEF Sweep, PauseAndWrite, StopReading, Contents, Listed, Shown, Unborn, UpgradeInv, UpgradeTypeOK
    <3>3. \A p \in Programs : prog[p] \in {"runs", "ended"} => p \in Listed \/ p \in late' \/ p \in flight'
      BY <2>2 DEF Sweep, PauseAndWrite, Listed, NobodyLeftBehind, UpgradeInv, UpgradeTypeOK
    <3>4. \A p \in Programs : place[p] = "making" => p \in flight'
      BY <2>2 DEF Sweep, PauseAndWrite
    <3> QED BY <2>2, <3>1, <3>2, <3>3, <3>4, ContentsAreContents DEF HandedOn, Sweep, OneAtATime, programs, UpgradeInv
  <2> QED BY <2>1, <2>2
<1>6. SweepsAll'
  BY DEF SweepsAll, UpgradeInv, Sweep, PauseAndWrite, StopReading, programs, serving, upgrading, OneAtATime, UpgradeTypeOK
<1>7. InExec'
  BY DEF InExec, UpgradeInv, Sweep, PauseAndWrite, StopReading, programs, serving, upgrading
<1>8. NobodyLeftBehind'
  BY DEF NobodyLeftBehind, UpgradeInv, Sweep, PauseAndWrite, StopReading, programs, serving, upgrading
<1>9. Serving'
  BY DEF Serving, UpgradeInv, Sweep, PauseAndWrite, StopReading, programs, serving, upgrading, OneAtATime, UpgradeTypeOK
<1> QED BY <1>1, <1>2, <1>3, <1>4, <1>5, <1>6, <1>7, <1>8, <1>9 DEF UpgradeInv

\* `Swept` keeps the invariant.
LEMMA SweptKeeps ==
  ASSUME OneAtATime, UpgradeInv, NEW a \in Attempts, server = "serves", Swept(a)
  PROVE  UpgradeInv'
<1>1. UpgradeTypeOK'
  BY ContentsAreContents DEF UpgradeTypeOK, UpgradeInv, Swept, PauseAndWrite, StopReading, programs, serving, upgrading, Phases
<1>2. Shown'
  BY DEF Shown, UpgradeInv, Swept, PauseAndWrite, StopReading, programs, serving, upgrading
<1>3. Unborn'
  BY DEF Unborn, UpgradeInv, Swept, PauseAndWrite, StopReading, programs, serving, upgrading
<1>4. OwnFile'
  BY DEF OwnFile, UpgradeInv, Swept, PauseAndWrite, StopReading, programs, serving, upgrading, OneAtATime, UpgradeTypeOK
<1>5. HandedOn'
  <2>1. db'[a] = Contents /\ path' = a /\ at'[a] = "answers"
    BY DEF Swept, PauseAndWrite, OwnFile, UpgradeInv, UpgradeTypeOK
  <2>2. \A p \in DOMAIN Contents : prog[p] # "none" /\ ~reads'[p] /\ Contents[p] = taken[p]
    BY ContentsAreContents
    DEF Swept, PauseAndWrite, StopReading, Contents, Listed, Shown, Unborn, UpgradeInv, UpgradeTypeOK
  <2>3. \A p \in Programs : prog[p] \in {"runs", "ended"} => p \in Listed \/ p \in late' \/ p \in flight'
    BY DEF Swept, PauseAndWrite, Listed, NobodyLeftBehind, SweepsAll, UpgradeInv, UpgradeTypeOK
  <2>4. \A p \in Programs : place[p] = "making" => p \in flight'
    BY DEF Swept, PauseAndWrite
  <2> QED BY <2>1, <2>2, <2>3, <2>4, ContentsAreContents DEF HandedOn, Swept, OneAtATime, programs, UpgradeInv
<1>6. SweepsAll'
  BY DEF SweepsAll, UpgradeInv, Swept, PauseAndWrite, StopReading, programs, serving, upgrading, OneAtATime, UpgradeTypeOK
<1>7. InExec'
  BY DEF InExec, UpgradeInv, Swept, PauseAndWrite, StopReading, programs, serving, upgrading
<1>8. NobodyLeftBehind'
  BY DEF NobodyLeftBehind, UpgradeInv, Swept, PauseAndWrite, StopReading, programs, serving, upgrading
<1>9. Serving'
  BY DEF Serving, UpgradeInv, Swept, PauseAndWrite, StopReading, programs, serving, upgrading, OneAtATime, UpgradeTypeOK
<1> QED BY <1>1, <1>2, <1>3, <1>4, <1>5, <1>6, <1>7, <1>8, <1>9 DEF UpgradeInv

\* `Fail` keeps the invariant.
LEMMA FailKeeps ==
  ASSUME OneAtATime, UpgradeInv, NEW a \in Attempts, server = "serves", Fail(a)
  PROVE  UpgradeInv'
<1>1. UpgradeTypeOK'
  BY DEF UpgradeTypeOK, UpgradeInv, Fail, RollBack, ReadAgain, programs, serving, upgrading, Phases
<1>2. Shown'
  BY DEF Shown, UpgradeInv, Fail, RollBack, ReadAgain, programs, serving, upgrading
<1>3. Unborn'
  BY DEF Unborn, UpgradeInv, Fail, RollBack, ReadAgain, programs, serving, upgrading
<1>4. OwnFile'
  BY DEF OwnFile, UpgradeInv, Fail, RollBack, ReadAgain, programs, serving, upgrading, OneAtATime, UpgradeTypeOK
<1>5. HandedOn'
  BY DEF HandedOn, UpgradeInv, Fail, RollBack, ReadAgain, programs, serving, upgrading, OneAtATime, UpgradeTypeOK
<1>6. SweepsAll'
  BY DEF SweepsAll, UpgradeInv, Fail, RollBack, ReadAgain, programs, serving, upgrading, OneAtATime, UpgradeTypeOK
<1>7. InExec'
  BY DEF InExec, UpgradeInv, Fail, RollBack, ReadAgain, programs, serving, upgrading
<1>8. NobodyLeftBehind'
  BY DEF NobodyLeftBehind, UpgradeInv, Fail, RollBack, ReadAgain, programs, serving, upgrading
<1>9. Serving'
  BY DEF Serving, UpgradeInv, Fail, RollBack, ReadAgain, programs, serving, upgrading, OneAtATime, UpgradeTypeOK
<1> QED BY <1>1, <1>2, <1>3, <1>4, <1>5, <1>6, <1>7, <1>8, <1>9 DEF UpgradeInv

\* `FailPaused` keeps the invariant.
LEMMA FailPausedKeeps ==
  ASSUME OneAtATime, UpgradeInv, NEW a \in Attempts, server = "serves", FailPaused(a)
  PROVE  UpgradeInv'
<1>1. UpgradeTypeOK'
  BY DEF UpgradeTypeOK, UpgradeInv, FailPaused, programs, serving, upgrading, Phases
<1>2. Shown'
  BY DEF Shown, UpgradeInv, FailPaused, programs, serving, upgrading
<1>3. Unborn'
  BY DEF Unborn, UpgradeInv, FailPaused, programs, serving, upgrading
<1>4. OwnFile'
  BY DEF OwnFile, UpgradeInv, FailPaused, programs, serving, upgrading, OneAtATime, UpgradeTypeOK
<1>5. HandedOn'
  BY DEF HandedOn, UpgradeInv, FailPaused, programs, serving, upgrading, OneAtATime, UpgradeTypeOK
<1>6. SweepsAll'
  BY DEF SweepsAll, UpgradeInv, FailPaused, programs, serving, upgrading, OneAtATime, UpgradeTypeOK
<1>7. InExec'
  BY DEF InExec, UpgradeInv, FailPaused, programs, serving, upgrading
<1>8. NobodyLeftBehind'
  BY DEF NobodyLeftBehind, UpgradeInv, FailPaused, programs, serving, upgrading
<1>9. Serving'
  BY DEF Serving, UpgradeInv, FailPaused, programs, serving, upgrading, OneAtATime, UpgradeTypeOK
<1> QED BY <1>1, <1>2, <1>3, <1>4, <1>5, <1>6, <1>7, <1>8, <1>9 DEF UpgradeInv

\* `Exec` keeps the invariant.
LEMMA ExecKeeps ==
  ASSUME OneAtATime, UpgradeInv, NEW a \in Attempts, server = "serves", Exec(a)
  PROVE  UpgradeInv'
<1>1. UpgradeTypeOK'
  BY DEF UpgradeTypeOK, UpgradeInv, Exec, programs, serving, upgrading
<1>2. Shown'
  BY DEF Shown, UpgradeInv, Exec, programs, serving, upgrading
<1>3. Unborn'
  BY DEF Unborn, UpgradeInv, Exec, programs, serving, upgrading
<1>4. OwnFile'
  BY DEF OwnFile, UpgradeInv, Exec, programs, serving, upgrading
<1>5. HandedOn'
  BY DEF HandedOn, UpgradeInv, Exec, programs, serving, upgrading
<1>6. SweepsAll'
  BY DEF SweepsAll, UpgradeInv, Exec, programs, serving, upgrading
<1>7. InExec'
  BY DEF InExec, UpgradeInv, Exec, programs, serving, upgrading, HandedOn, UpgradeTypeOK
<1>8. NobodyLeftBehind'
  BY DEF NobodyLeftBehind, UpgradeInv, Exec, programs, serving, upgrading
<1>9. Serving'
  BY DEF Serving, UpgradeInv, Exec, programs, serving, upgrading
<1> QED BY <1>1, <1>2, <1>3, <1>4, <1>5, <1>6, <1>7, <1>8, <1>9 DEF UpgradeInv

\* `Resume` keeps the invariant.
LEMMA ResumeKeeps ==
  ASSUME OneAtATime, UpgradeInv, Resume
  PROVE  UpgradeInv'
<1>1. UpgradeTypeOK'
  <2>1. path \in Attempts /\ path # NoFile
    BY UpgradeAssumption DEF UpgradeInv, InExec, Resume
  <2>2. db[path] \in Files
    BY <2>1 DEF UpgradeInv, UpgradeTypeOK
  <2>3. shows' \in [Programs -> 0..MaxOutput] /\ place' \in [Programs -> {"none", "making", "listed"}]
    BY <2>1, <2>2, FilesHold, UpgradeAssumption DEF Resume
  <2>4. db' \in [Attempts -> Files]
    BY <2>1, ContentsAreContents DEF Resume, UpgradeInv
  <2>5. at' \in [Attempts -> Phases] /\ swept' \in [Attempts -> SUBSET Programs]
    BY <2>1 DEF Resume, Phases
  <2> QED BY <2>1, <2>3, <2>4, <2>5 DEF Resume, UpgradeInv, UpgradeTypeOK
<1>2. Shown'
  BY FilesHold DEF Shown, UpgradeInv, Resume, programs, serving, upgrading, InExec, HandedOn, Unborn, UpgradeTypeOK
<1>3. Unborn'
  BY FilesHold DEF Unborn, UpgradeInv, Resume, programs, serving, upgrading, InExec, HandedOn, UpgradeTypeOK
<1>4. OwnFile'
  BY DEF OwnFile, UpgradeInv, Resume, programs, serving, upgrading
<1>5. HandedOn'
  BY DEF HandedOn, UpgradeInv, Resume, programs, serving, upgrading
<1>6. SweepsAll'
  BY DEF SweepsAll, UpgradeInv, Resume, programs, serving, upgrading
<1>7. InExec'
  BY UpgradeAssumption DEF InExec, UpgradeInv, Resume, programs, serving, upgrading, UpgradeTypeOK
<1>8. NobodyLeftBehind'
  BY FilesHold DEF NobodyLeftBehind, UpgradeInv, Resume, programs, serving, upgrading, InExec, HandedOn, UpgradeTypeOK
<1>9. Serving'
  BY DEF Serving, UpgradeInv, Resume, programs, serving, upgrading
<1> QED BY <1>1, <1>2, <1>3, <1>4, <1>5, <1>6, <1>7, <1>8, <1>9 DEF UpgradeInv

\* The first state satisfies the invariant.
LEMMA UpgradeInit == Init => UpgradeInv
<1> SUFFICES ASSUME Init PROVE UpgradeInv
  OBVIOUS
<1>1. UpgradeTypeOK
  <2>1. db \in [Attempts -> Files]
    BY ContentsAreFiles DEF Init
  <2>2. wrote \in [Programs -> 0..MaxOutput] /\ taken \in [Programs -> 0..MaxOutput] /\ shows \in [Programs -> 0..MaxOutput]
    BY UpgradeAssumption DEF Init
  <2>3. at \in [Attempts -> Phases] /\ swept \in [Attempts -> SUBSET Programs]
    BY DEF Init, Phases
  <2> QED BY <2>1, <2>2, <2>3 DEF Init, UpgradeTypeOK
<1>2. Shown /\ Unborn /\ OwnFile /\ HandedOn /\ SweepsAll /\ InExec /\ NobodyLeftBehind /\ Serving
  BY DEF Init, Shown, Unborn, OwnFile, HandedOn, SweepsAll, InExec, NobodyLeftBehind, Serving
<1> QED BY <1>1, <1>2 DEF UpgradeInv

\* A step that changes nothing keeps it.
LEMMA UpgradeStutters == ASSUME UpgradeInv, UNCHANGED vars PROVE UpgradeInv'
BY DEF UpgradeInv, UpgradeTypeOK, Shown, Unborn, OwnFile, HandedOn, SweepsAll, InExec, NobodyLeftBehind, Serving,
       vars, programs, serving, upgrading, Listed

\* Every step keeps it.
LEMMA UpgradeNext == ASSUME OneAtATime, UpgradeInv, [Next]_vars PROVE UpgradeInv'
<1>1. ASSUME NEW p \in Programs, PaneStep(p) PROVE UpgradeInv'
  BY <1>1, BeginKeeps, ForkKeeps, PlaceKeeps, WriteKeeps, EndKeeps, ReadKeeps, ReapKeeps, CloseKeeps DEF PaneStep
<1>2. ASSUME NEW a \in Attempts, UpgradeStep(a) PROVE UpgradeInv'
  BY <1>2, StartKeeps, FirstWriteKeeps, CheckedKeeps, SweepKeeps, SweptKeeps, FailKeeps, FailPausedKeeps, ExecKeeps
  DEF UpgradeStep
<1>3. ASSUME Resume PROVE UpgradeInv'
  BY <1>3, ResumeKeeps
<1>4. ASSUME UNCHANGED vars PROVE UpgradeInv'
  BY <1>4, UpgradeStutters
<1> QED BY <1>1, <1>2, <1>3, <1>4 DEF Next

\* With one upgrade at a time, every reachable state satisfies the invariant.
THEOREM UpgradeInvariant == ASSUME OneAtATime PROVE Spec => []UpgradeInv
<1>1. Init => UpgradeInv
  BY UpgradeInit
<1>2. UpgradeInv /\ [Next]_vars => UpgradeInv'
  BY UpgradeNext
<1> QED BY <1>1, <1>2, PTL DEF Spec

\* With one upgrade at a time, what was read from a pty is on the screen of its
\* pane, before and after any number of upgrades that succeed or fail (`upgrade`,
\* `Snapshot.write`).
THEOREM NothingIsLost == ASSUME OneAtATime PROVE Spec => []NothingLost
<1>1. UpgradeInv => NothingLost
  BY DEF UpgradeInv, Shown, NothingLost, Listed
<1> QED BY <1>1, UpgradeInvariant, PTL

\* With one upgrade at a time, an upgrade leaves no program that neither image ends
\* or reaps, but for one that outlived its kill or was in the making
\* (`_end_the_hung_up`, `refusing_commands`).
THEOREM NobodyIsLeftBehind == ASSUME OneAtATime PROVE Spec => []NobodyLeftBehind
<1>1. UpgradeInv => NobodyLeftBehind
  BY DEF UpgradeInv
<1> QED BY <1>1, UpgradeInvariant, PTL

\* With one upgrade at a time, a server whose upgrade failed at any step takes
\* clients and commands and reads every pane (the `except` of `upgrade`).
THEOREM RefusedUpgradesServeOn == ASSUME OneAtATime PROVE Spec => []ServesOn
<1>1. UpgradeInv => ServesOn
  BY DEF UpgradeInv, Serving, ServesOn, Listed, UpgradeTypeOK
<1> QED BY <1>1, UpgradeInvariant, PTL
=============================================================================
