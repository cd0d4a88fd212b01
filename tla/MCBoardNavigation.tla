-------------------------- MODULE MCBoardNavigation --------------------------
EXTENDS BoardNavigation

CONSTANTS b1, b2, c1

MCBoards      == {b1, b2}
MCFounded     == {b1}
MCBothFounded == {b1, b2}
MCCalls       == {c1}

MCHabits == {{"create", "pick"}, {"create", "bare"}, {"pick", "lock", "save", "others"},
             {"delete", "create"}, {"delete", "pick"}, {"delete", "expire", "save"},
             {"replace", "save", "others"}, {"logout", "create"}}
MCDeletes == {{"delete"}}

\* Nothing is asked of what follows an answer that was applied where it did not belong.
Orderly == late = {} /\ ~lost
=============================================================================
