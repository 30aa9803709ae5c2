------------------------------- MODULE Listing -------------------------------
(***************************************************************************)
(* What a caller of `course ls` may rely on who follows next_cursor        *)
(* (TJUCLI.md:28, skills/tjucli/SKILL.md:43): the pages shown are those of *)
(* the directory from the first on, in the host's order and without a gap, *)
(* and the listing is called complete with the last page and not before.   *)
(***************************************************************************)
EXTENDS Sequences

CONSTANTS
    First,      \* names the first page
    NoNext      \* there is no further page

VARIABLES
    catalog,    \* the page that follows each page
    shown,      \* the pages shown
    claim       \* "open" or "complete"

Init == shown = << >> /\ claim = "open"

Following == IF shown = << >> THEN First ELSE catalog[shown[Len(shown)]]

Show ==
    /\ claim = "open"
    /\ shown' = Append(shown, Following)
    /\ claim' = IF catalog[Following] = NoNext THEN "complete" ELSE "open"
    /\ UNCHANGED catalog

Spec == Init /\ [][Show]_<<catalog, shown, claim>>

=============================================================================
