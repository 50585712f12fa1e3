------------------------------ MODULE PageSpec ------------------------------
(***************************************************************************)
(* What a mirror promises to who looks at it (pymux/mirror), with no link, *)
(* no packet and no frame in sight: it shows a page that the program of    *)
(* the pane had, whole, and no page before one that it showed.             *)
(***************************************************************************)
EXTENDS Naturals

CONSTANT Panes

VARIABLES
  life,     \* a pane is "unborn", "alive" or "gone"
  version,  \* the page of its program
  page      \* the page that its mirror shows, 0 when it has none

pageVars == <<life, version, page>>

PageInit ==
  /\ life \in [Panes -> {"unborn", "alive"}]
  /\ version = [p \in Panes |-> 1]
  /\ page = [p \in Panes |-> 0]

Opens(p) ==
  /\ life[p] = "unborn"
  /\ life' = [life EXCEPT ![p] = "alive"]
  /\ UNCHANGED <<version, page>>

Closes(p) ==
  /\ life[p] = "alive"
  /\ life' = [life EXCEPT ![p] = "gone"]
  /\ UNCHANGED <<version, page>>

NewPage(p) ==
  /\ life[p] = "alive"
  /\ version' = [version EXCEPT ![p] = @ + 1]
  /\ UNCHANGED <<life, page>>

\* The page may be an old one, and may come when the pane is gone.
Shows(p) ==
  /\ life[p] # "unborn"
  /\ \E seen \in 1 .. version[p] : seen >= page[p] /\ page' = [page EXCEPT ![p] = seen]
  /\ UNCHANGED <<life, version>>

PageNext == \E p \in Panes : Opens(p) \/ Closes(p) \/ NewPage(p) \/ Shows(p)

PageSpecification == PageInit /\ [][PageNext]_pageVars

=============================================================================
