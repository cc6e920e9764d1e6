-------------------------- MODULE PreviewDisclosure --------------------------
(***************************************************************************)
(* What the seller is promised of public previews, whatever crashes, gets  *)
(* lost or is repeated: only rows agreed to are hosted; what the           *)
(* marketplace shows is what is hosted; what is retired never comes back,  *)
(* and is not retired under a preview that is still shown.                 *)
(***************************************************************************)
CONSTANTS Previews,    \* previews, in the order they are made
          Selections,  \* rows a preview may show
          Nothing,     \* no rows
          Gone         \* rows retired

VARIABLES agreed,  \* agreed[p]: the rows the seller's last consent is for
          served,  \* served[p]: the rows hosted, Nothing, or Gone
          shown,   \* the preview the marketplace shows and the rows it names
          was      \* previews that have been shown

vars == <<agreed, served, shown, was>>

Blank == [preview |-> 0, rows |-> Nothing]

Init ==
    /\ agreed = [p \in Previews |-> Nothing]
    /\ served = [p \in Previews |-> Nothing]
    /\ shown = Blank
    /\ was = {}

\* The seller agrees to rows, or changes the choice and has to agree again.
Agree(p) ==
    /\ served[p] = Nothing
    /\ \E rows \in Selections \cup {Nothing} :
          agreed' = [agreed EXCEPT ![p] = rows]
    /\ UNCHANGED <<served, shown, was>>

Serve(p) ==
    /\ served[p] = Nothing
    /\ agreed[p] # Nothing
    /\ served' = [served EXCEPT ![p] = agreed[p]]
    /\ UNCHANGED <<agreed, shown, was>>

\* A preview is shown once, with the rows it serves, and takes the place of
\* the one before it.
Show(p) ==
    /\ served[p] \in Selections
    /\ p \notin was
    /\ shown' = [preview |-> p, rows |-> served[p]]
    /\ was' = was \cup {p}
    /\ UNCHANGED <<agreed, served>>

Hide ==
    /\ shown' = Blank
    /\ UNCHANGED <<agreed, served, was>>

Retire(p) ==
    /\ served[p] \in Selections
    /\ shown.preview # p
    /\ served' = [served EXCEPT ![p] = Gone]
    /\ UNCHANGED <<agreed, shown, was>>

Next ==
    \/ \E p \in Previews : Agree(p) \/ Serve(p) \/ Show(p) \/ Retire(p)
    \/ Hide

Spec == Init /\ [][Next]_vars
=============================================================================
