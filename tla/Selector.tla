------------------------------- MODULE Selector -------------------------------
(***************************************************************************)
(* The selector that every interactive choice of kra goes through: rows of *)
(* candidates, a filter that hides some of them, a cursor among those that *)
(* are left, and marks that survive filtering.  A choice is shown for a    *)
(* moment, with the input locked, before the selector ends.                *)
(*                                                                         *)
(* Of the filter only the candidates that match it matter.                 *)
(***************************************************************************)
EXTENDS Filtered

CONSTANT Matches    \* the sets of ids that filters match

VARIABLE sel    \* the selector's model

(***************************************************************************)
(* Indices are those of the candidates, from 1; the cursor counts visible  *)
(* rows from 0, as in the code.                                            *)
(***************************************************************************)
Closed == [cands |-> <<>>, single |-> FALSE, shown |-> {}, cursor |-> 0,
           selected |-> {}, marked |-> {}, phase |-> "closed"]

newWorkspaceSelectorModel(cands, single) ==
    [cands |-> cands, single |-> single, shown |-> DOMAIN cands, cursor |-> 0,
     selected |-> {}, marked |-> {}, phase |-> "open"]

VisibleCount == Cardinality(sel.shown)

(***************************************************************************)
(* The row drawn with the cursor in front.                                 *)
(***************************************************************************)
Focused == Nth(sel.shown, sel.cursor)

(***************************************************************************)
(* How many candidates are rendered in a terminal of this height (0: not   *)
(* known), under a title with or without a blank line, and which: as many, *)
(* around the cursor.  The headings and blank lines that render puts       *)
(* between the candidates of a workspace list are not counted.             *)
(***************************************************************************)
selectorBodyRowsLimit(height, compactTitle) ==
    LET body == height - (IF compactTitle THEN 5 ELSE 6)
    IN IF height <= 0 THEN 0 ELSE IF body < 1 THEN 1 ELSE body

InRange(cursor, n) == IF n = 0 THEN 0 ELSE IF cursor >= n THEN n - 1 ELSE cursor

selectorViewportRange(total, cursor, rows) ==
    LET above == InRange(cursor, total) - (rows \div 2)
        start == IF above < 0 THEN 0 ELSE above
    IN IF rows <= 0 \/ total <= rows THEN [start |-> 0, end |-> total]
       ELSE IF start + rows > total THEN [start |-> total - rows, end |-> total]
       ELSE [start |-> start, end |-> start + rows]

Symmetric(S, x) == IF x \in S THEN S \ {x} ELSE S \cup {x}

Open == sel.phase = "open"

Up ==
    /\ Open /\ sel.cursor > 0
    /\ sel' = [sel EXCEPT !.cursor = @ - 1]

Down ==
    /\ Open /\ sel.cursor < VisibleCount - 1
    /\ sel' = [sel EXCEPT !.cursor = @ + 1]

(***************************************************************************)
(* Faulty variant: the row number is taken for the candidate.              *)
(***************************************************************************)
ToggledRow == sel.cursor + 1

(***************************************************************************)
(* toggleCurrentSelection looks the candidate up among the visible ones.   *)
(***************************************************************************)
Toggled == Nth(sel.shown, sel.cursor)

Toggle ==
    /\ Open /\ ~sel.single /\ sel.shown # {}
    /\ sel' = [sel EXCEPT
                !.selected = Symmetric(@, Toggled),
                !.marked = Symmetric(@, sel.cands[Focused]),
                !.cursor = IF @ < VisibleCount - 1 THEN @ + 1 ELSE @]

filteredCandidateIndices(ids) == {j \in DOMAIN sel.cands : sel.cands[j] \in ids}

(***************************************************************************)
(* Faulty variant: the cursor stays where it was.                          *)
(***************************************************************************)
EditFilterOnly ==
    /\ Open
    /\ \E ids \in Matches : sel' = [sel EXCEPT !.shown = filteredCandidateIndices(ids)]

(***************************************************************************)
(* Typing, deleting and pasting in the filter; ensureCursorInFilteredRange.*)
(***************************************************************************)
EditFilter ==
    /\ Open
    /\ \E ids \in Matches :
         LET shown == filteredCandidateIndices(ids)
         IN sel' = [sel EXCEPT !.shown = shown,
                               !.cursor = InRange(@, Cardinality(shown))]

(***************************************************************************)
(* No key is handled any more: the filter and the cursor stay as they are, *)
(* and are not followed further.                                           *)
(***************************************************************************)
Ended(m, phase) == [m EXCEPT !.phase = phase, !.shown = {}, !.cursor = 0]

(***************************************************************************)
(* A choice is shown until a timer ends it; with reduced motion it ends at *)
(* once.                                                                   *)
(***************************************************************************)
Confirming(m) == {Ended(m, "confirming"), Ended(m, "done")}

EnterMulti ==
    /\ Open /\ ~sel.single /\ sel.selected # {}
    /\ sel' \in Confirming(sel)

confirmSingleSelection ==
    /\ Open /\ sel.single /\ sel.shown # {}
    /\ sel' \in Confirming([sel EXCEPT !.selected = {Toggled},
                                       !.marked = {sel.cands[Focused]}])

(***************************************************************************)
(* selectorConfirmDoneMsg.  Keys are ignored until then.                   *)
(***************************************************************************)
ConfirmDone ==
    /\ sel.phase = "confirming"
    /\ sel' = [sel EXCEPT !.phase = "done"]

(***************************************************************************)
(* Esc and Ctrl-C.                                                         *)
(***************************************************************************)
Cancel ==
    /\ Open
    /\ sel' = [Closed EXCEPT !.phase = "canceled"]

Key == Up \/ Down \/ Toggle \/ EditFilter \/ EnterMulti \/ confirmSingleSelection \/ Cancel

(***************************************************************************)
(* The ids of the selected candidates, in the order of the candidates.     *)
(***************************************************************************)
selectedIDs == Remaining(sel.cands, sel.selected)
-----------------------------------------------------------------------------
(***************************************************************************)
(* Whatever is typed, the cursor is on a visible row as long as there is   *)
(* one, so that visible[m.cursor] never panics, and that row is in the     *)
(* range render loops over, whatever limit it gets from the height of the  *)
(* terminal (Update, ensureCursorInFilteredRange, selectorViewportRange).  *)
(* This does not say that the row is on the screen: render adds headings   *)
(* and blank lines that the limit leaves out.                              *)
(***************************************************************************)
CursorInRange(height, compactTitle) ==
    LET v == selectorViewportRange(VisibleCount, sel.cursor,
                                   selectorBodyRowsLimit(height, compactTitle))
    IN v.start <= sel.cursor /\ sel.cursor < v.end

CursorUsable ==
    sel.shown # {} =>
        /\ sel.cursor < VisibleCount
        /\ \A h \in 0..(VisibleCount + 6), compact \in BOOLEAN : CursorInRange(h, compact)
===============================================================================
