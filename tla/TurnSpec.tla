------------------------------ MODULE TurnSpec ------------------------------
(***************************************************************************)
(* What `Turns` (pymux/pipes/base.py) promises to the writers of one       *)
(* connection, with no queue and no event in sight: at most one writer has *)
(* the turn, a turn that ends goes straight to somebody who wants it, and  *)
(* an urgent writer that wants it comes before every other one.            *)
(***************************************************************************)
CONSTANTS Writers, NoWriter

VARIABLES
    owner,      \* the writer whose turn it is, or NoWriter
    wants,      \* the writers that asked and have no turn yet
    hurries     \* those of them whose packet is urgent

specVars == <<owner, wants, hurries>>

SpecInit ==
    /\ owner = NoWriter
    /\ wants = {}
    /\ hurries = {}

\* A writer that finds nobody at it has the turn at once.
Enter(w) ==
    /\ owner = NoWriter
    /\ owner' = w
    /\ UNCHANGED <<wants, hurries>>

\* A writer that finds somebody at it has to want it for a while.
Want(w, urgent) ==
    /\ owner # NoWriter
    /\ owner # w
    /\ w \notin wants
    /\ wants' = wants \cup {w}
    /\ hurries' = IF urgent THEN hurries \cup {w} ELSE hurries
    /\ UNCHANGED owner

GiveUp(w) ==
    /\ w \in wants
    /\ wants' = wants \ {w}
    /\ hurries' = hurries \ {w}
    /\ UNCHANGED owner

\* The turn ends. Nobody is skipped: it is free only when nobody wants it.
PassOn ==
    /\ owner # NoWriter
    /\ IF wants = {}
       THEN /\ owner' = NoWriter
            /\ UNCHANGED <<wants, hurries>>
       ELSE \E next \in IF hurries # {} THEN hurries ELSE wants :
                /\ owner' = next
                /\ wants' = wants \ {next}
                /\ hurries' = hurries \ {next}

SpecNext ==
    \/ PassOn
    \/ \E w \in Writers : Enter(w) \/ GiveUp(w)
    \/ \E w \in Writers, urgent \in BOOLEAN : Want(w, urgent)

TurnSpecification == SpecInit /\ [][SpecNext]_specVars

=============================================================================
