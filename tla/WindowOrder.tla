----------------------------- MODULE WindowOrder -----------------------------
(***************************************************************************)
(* The windows of one session (pymux/core/arrangement.py): their order and *)
(* indexes, the pen of the unlinked ones, and what each client looks at,   *)
(* left before, and is sent back to. All the clients share the order; each *)
(* has a window of its own. A window has one pane here, so a pane that     *)
(* goes takes its window along; a window that another session's order      *)
(* gives or takes comes from, and goes, nowhere.                           *)
(***************************************************************************)
EXTENDS Naturals, Sequences, FiniteSets, SequencesExt

CONSTANTS
    Windows, Clients,
    BaseIndex,      \* the option `base-index`
    MaxIndex,       \* bound: the highest index
    MayEmpty,       \* TRUE: the last window of the session goes too
    LinksOnTaken,   \* TRUE: `link-window -t` names an index that is in use
    None            \* no window, no client, no index

ASSUME WindowOrderAssumption ==
    /\ BaseIndex \in Nat /\ MaxIndex \in Nat /\ BaseIndex <= MaxIndex
    /\ None \notin Windows

VARIABLES
    windows,        \* `windows`, in the order people see
    index,          \* `Window.index`
    pen,            \* `_unlinked_windows`
    active,         \* `_active_window_for_cli`
    history,        \* `_window_history_for_cli`, the newest last
    lastActive,     \* `_last_active_window`
    renumbers       \* the option `renumber-windows`

focus == <<active, history, lastActive>>
vars == <<windows, index, pen, focus, renumbers>>

Init ==
    /\ windows = <<>> /\ pen = {}
    /\ index = [w \in Windows |-> BaseIndex]
    /\ active = [c \in Clients |-> None]
    /\ history = [c \in Clients |-> <<>>]
    /\ lastActive = None
    /\ renumbers \in BOOLEAN

Listed == Range(windows)
Indexes == BaseIndex .. MaxIndex
\* A window nothing knows of any more, for a new one.
Unknown == {w \in Windows : /\ w \notin Listed \cup pen /\ w # lastActive
                            /\ \A c \in Clients : active[c] # w /\ w \notin Range(history[c])}

-----------------------------------------------------------------------------
\* `sorted(self.windows, key=index)`.
SortedBy(ix, set) ==
    CHOOSE order \in [1 .. Cardinality(set) -> set] :
        /\ IsInjective(order)
        /\ \A i, j \in DOMAIN order : i < j => ix[order[i]] <= ix[order[j]]

\* `get_window_by_index`, `lowest_free_index` and the index after the last.
At(i) == {w \in Listed : index[w] = i}
LowestFree == CHOOSE i \in BaseIndex .. (BaseIndex + Len(windows)) :
                At(i) = {} /\ \A j \in BaseIndex .. (i - 1) : At(j) # {}
AfterLast == IF windows = <<>> THEN BaseIndex
             ELSE 1 + CHOOSE i \in {index[w] : w \in Listed} : \A w \in Listed : index[w] <= i

\* A way it could go wrong: everything from the index up moves, but the first.
MutMakeRoom(at) ==
    [w \in Windows |-> IF w \in Listed /\ index[w] > at THEN index[w] + 1 ELSE index[w]]

\* `make_room_at`: the run of windows from the index up to the first gap.
MakeRoom(at) ==
    [w \in Windows |->
       IF w \in Listed /\ index[w] >= at /\ \A i \in at .. index[w] : At(i) # {}
       THEN index[w] + 1 ELSE index[w]]

\* Where a window is in the order.
PlaceOf(w, order) == CHOOSE i \in DOMAIN order : order[i] = w

\* `renumber`: the listed windows keep their order, which goes up with their
\* indexes, and close their gaps.
Renumbered(order, ix) ==
    [w \in Windows |->
       IF w \in Range(order)
       THEN BaseIndex - 1 + PlaceOf(w, order) ELSE ix[w]]

\* The bound on indexes.
InBound == \A w \in Windows : index'[w] <= MaxIndex

-----------------------------------------------------------------------------
\* `get_active_window_for`, in an order that holds a window.
ActiveOf(c, order) ==
    IF active[c] # None THEN active[c]
    ELSE IF lastActive \in Range(order) THEN lastActive ELSE Head(order)

\* The history of a client that goes from one window to another.
Left(past, from, to) ==
    RemoveFirst(IF from # to THEN Append(RemoveFirst(past, from), from) ELSE past, to)

\* `set_active_window` of one client, after the order changed.
SetActive(c, w) ==
    /\ active' = [active EXCEPT ![c] = w]
    /\ history' = [history EXCEPT ![c] = Left(@, ActiveOf(c, windows'), w)]
    /\ lastActive' = w

\* A client renders, or asks for what it looks at.
Look(c) ==
    /\ windows # <<>> /\ active[c] = None
    /\ active' = [active EXCEPT ![c] = ActiveOf(c, windows)]
    /\ UNCHANGED <<windows, index, pen, history, lastActive, renumbers>>

\* `select-window`, `next-window`, `previous-window` and `last-window`.
Select(c, w) ==
    /\ w \in Listed
    /\ UNCHANGED <<windows, index, pen, renumbers>>
    /\ SetActive(c, w)

\* `focus_next_window` of a client that looks at a window of the order.
NextAfter(w) == windows[(PlaceOf(w, windows) % Len(windows)) + 1]

\* `previous_window_for`: the newest one left that is still in the order.
PreviousOf(c) == LET newest == SelectLastInSeq(history[c], LAMBDA w : w \in Listed)
                 IN  IF newest = 0 THEN None ELSE history[c][newest]

-----------------------------------------------------------------------------
\* Where a window goes that comes into the order.
Insert(w, at) ==
    /\ windows' = SortedBy(index', Listed \cup {w})
    /\ index'[w] = at /\ InBound

\* `create_window`, by a client that asks or (c = None) by nobody.
Create(c, w, at) ==
    /\ w \in Unknown
    /\ index' = IF at = None THEN [index EXCEPT ![w] = LowestFree]
                ELSE [MakeRoom(at) EXCEPT ![w] = at]
    /\ Insert(w, index'[w])
    /\ UNCHANGED <<pen, renumbers>>
    /\ IF c = None THEN UNCHANGED focus ELSE SetActive(c, w)

\* `link_window` of a window in the pen or, from `move_window_to` of another
\* session, of one in no order; the client that asked looks at it.
Link(c, w, at) ==
    /\ w \notin Listed
    /\ LinksOnTaken \/ at = None \/ At(at) = {}
    /\ index' = [index EXCEPT ![w] = IF at = None THEN AfterLast ELSE at]
    /\ Insert(w, index'[w])
    /\ pen' = pen \ {w}
    /\ UNCHANGED renumbers
    /\ SetActive(c, w)

\* `link_window` of a window that is in the order is a move.
Relink(c, w, at) ==
    /\ w \in Listed
    /\ LinksOnTaken \/ at = None \/ At(at) \subseteq {w}
    /\ index' = IF at = None THEN index ELSE [index EXCEPT ![w] = at]
    /\ windows' = SortedBy(index', Listed)
    /\ UNCHANGED <<pen, renumbers>>
    /\ SetActive(c, w)

\* A way it could go wrong: the index that is taken is not refused.
MutMoveTo(w, at) ==
    /\ w \in Listed /\ index[w] # at
    /\ index' = [index EXCEPT ![w] = at]
    /\ windows' = SortedBy(index', Listed)
    /\ UNCHANGED <<pen, focus, renumbers>>

\* `move-window -t`: to a free index.
MoveTo(w, at) ==
    /\ w \in Listed /\ At(at) = {}
    /\ index' = [index EXCEPT ![w] = at]
    /\ windows' = SortedBy(index', Listed)
    /\ UNCHANGED <<pen, focus, renumbers>>

\* `move-window -a` and `-b`: what is in the way moves up first.
MoveInto(w, at) ==
    /\ w \in Listed /\ w \notin At(at)
    /\ index' = [MakeRoom(at) EXCEPT ![w] = at]
    /\ windows' = SortedBy(index', Listed)
    /\ InBound
    /\ UNCHANGED <<pen, focus, renumbers>>

\* `swap_window`.
Swap(v, w) ==
    /\ {v, w} \subseteq Listed /\ v # w
    /\ index' = [index EXCEPT ![v] = index[w], ![w] = index[v]]
    /\ windows' = SortedBy(index', Listed)
    /\ UNCHANGED <<pen, focus, renumbers>>

-----------------------------------------------------------------------------
\* A way it could go wrong: everybody is moved off a window that goes.
MutWatching(w) == {c \in Clients : active[c] # None}

Watching(w) == {c \in Clients : active[c] = w}

\* The clients of a window that goes are moved to theirs, one after another.
MoveOff(w, theirs) ==
    /\ active' = [c \in Clients |-> IF c \in Watching(w) THEN theirs[c] ELSE active[c]]
    /\ lastActive' \in IF Watching(w) = {} THEN {lastActive} ELSE {theirs[c] : c \in Watching(w)}

\* A way it could go wrong: the clients that look at it stay.
MutTakeOut(w) ==
    /\ w \in Listed /\ (MayEmpty \/ Len(windows) > 1)
    /\ windows' = RemoveFirst(windows, w)
    /\ UNCHANGED <<active, lastActive, history>>

\* `unlink_window`: the clients go to the next window, and keep this one in
\* their history.
TakeOut(w) ==
    /\ w \in Listed /\ (MayEmpty \/ Len(windows) > 1)
    /\ windows' = RemoveFirst(windows, w)
    /\ MoveOff(w, [c \in Clients |-> NextAfter(w)])
    /\ history' = [c \in Clients |->
          IF c \in Watching(w) THEN Left(history[c], w, NextAfter(w)) ELSE history[c]]

\* The command keeps the last window.
Unlink(w) ==
    /\ Len(windows) > 1 /\ TakeOut(w)
    /\ pen' = pen \cup {w}
    /\ UNCHANGED <<index, renumbers>>

\* `move_window_to` another session.
MoveAway(w) ==
    /\ TakeOut(w)
    /\ index' = IF renumbers THEN Renumbered(windows', index) ELSE index
    /\ UNCHANGED <<pen, renumbers>>

\* A way it could go wrong: the history is not asked.
MutBackFrom(c, w) == NextAfter(w)

\* Where a client goes whose window closes.
BackFrom(c, w) == IF PreviousOf(c) \in {None, w} THEN NextAfter(w) ELSE PreviousOf(c)

\* `remove_pane` of the last pane of a window.
Close(w) ==
    /\ w \in Listed /\ (MayEmpty \/ Len(windows) > 1)
    /\ windows' = RemoveFirst(windows, w)
    /\ MoveOff(w, [c \in Clients |-> BackFrom(c, w)])
    /\ history' = [c \in Clients |->
          RemoveFirst(IF c \in Watching(w) THEN Left(history[c], w, BackFrom(c, w)) ELSE history[c], w)]
    /\ index' = IF renumbers THEN Renumbered(windows', index) ELSE index
    /\ UNCHANGED <<pen, renumbers>>

\* `set-option renumber-windows`, which renumbers when it goes on.
SetRenumber ==
    /\ renumbers' = ~renumbers
    /\ index' = IF renumbers' THEN Renumbered(windows, index) ELSE index
    /\ UNCHANGED <<windows, pen, focus>>

Next ==
    \/ \E c \in Clients : Look(c)
    \/ \E c \in Clients, w \in Windows : Select(c, w)
    \/ \E c \in Clients \cup {None}, w \in Windows, at \in Indexes \cup {None} : Create(c, w, at)
    \/ \E c \in Clients, w \in Windows, at \in Indexes \cup {None} : Link(c, w, at)
    \/ \E c \in Clients, w \in Windows, at \in Indexes \cup {None} : Relink(c, w, at)
    \/ \E w \in Windows, at \in Indexes : MoveTo(w, at)
    \/ \E w \in Windows, at \in Indexes : MoveInto(w, at)
    \/ \E v, w \in Windows : Swap(v, w)
    \/ \E w \in Windows : Unlink(w)
    \/ \E w \in Windows : MoveAway(w)
    \/ \E w \in Windows : Close(w)
    \/ SetRenumber

Spec == Init /\ [][Next]_vars

-----------------------------------------------------------------------------
\* The shape of the state: the order holds each window once, sorted by index.
OrderTypeOK ==
    /\ Listed \subseteq Windows /\ pen \subseteq Windows /\ Listed \cap pen = {}
    /\ index \in [Windows -> Indexes]
    /\ active \in [Clients -> Windows \cup {None}]
    /\ \A c \in Clients : Range(history[c]) \subseteq Windows
    /\ lastActive \in Windows \cup {None}
    /\ renumbers \in BOOLEAN

\* `select-window -t` reaches every window, and the next one in the order is the
\* one of the next index: no two have the same index and the order goes up,
\* whatever was inserted, moved, swapped, renumbered or linked back.
UniqueIndexes == \A i, j \in DOMAIN windows : i < j => index[windows[i]] < index[windows[j]]

\* `get_active_window_for`: a client looks at a window of the order. Nobody is
\* left on one that closed, was unlinked, or went to another session.
LooksAtListed == windows # <<>> => \A c \in Clients : active[c] \in Listed \cup {None}

\* `renumber`: "nobody's focus changes". What a client looks at, and what it
\* left, changes only when it asks or when its window goes out of the order;
\* one step moves no second client that is on a window that stays.
OnlyOwnFocus ==
    [][\A c, d \in Clients :
         (c # d /\ active[c] # None /\ active[d] # None
            /\ active'[c] # active[c] /\ active'[d] # active[d])
           => active[c] = active[d] /\ active[c] \notin Range(windows')]_vars

\* "Closing its window returns it to the newest one still open", and nobody
\* else's focus changes. A window that goes to another session is no closing:
\* its clients keep it in their history.
ClosingReturns ==
    [][\A w \in Windows :
         w \in Listed /\ w \notin Range(windows') /\ w \notin pen'
         => /\ \A c \in Watching(w) :
                 \/ PreviousOf(c) = None
                 \/ active'[c] = PreviousOf(c)
                 \/ w \in Range(history'[c])
            /\ \A c \in Clients \ Watching(w) :
                 active'[c] = active[c]]_vars
=============================================================================
