---------------------------- MODULE MCBoardPanels ----------------------------
(* A small instance of BoardPanels. *)
EXTENDS BoardPanels, TLC

CONSTANTS e, i, r1, r2

Proposed(kind, parent, again) ==
    [kind |-> kind, title |-> "A", parent |-> parent, again |-> again]

\* An epic with an issue under it, the same taken up again, and an epic that has become
\* an issue beside a new one.
MCAnswers == {
    (e :> Proposed("epic", None, FALSE)) @@ (i :> Proposed("issue", e, FALSE)),
    (e :> Proposed("epic", None, TRUE)) @@ (i :> Proposed("issue", e, FALSE)),
    (e :> Proposed("issue", None, TRUE)) @@ (i :> Proposed("issue", None, FALSE)) }

\* A name with a space after it, and one of spaces alone.
MCEntries == {"", "a", "b", "a ", " "}
MCTrimmed == [x \in MCEntries |-> CASE x = "a " -> "a" [] x = " " -> "" [] OTHER -> x]

\* A project may be linked to more than one repository.
MCProjectsOf == (r1 :> {"p", "q"}) @@ (r2 :> {"q", "s"})
=============================================================================
