----------------------------- MODULE BoardPanels -----------------------------
(***************************************************************************)
(* The panels and dialogs of the page: the draft of what is to be created  *)
(* (Drafts), the chat that drafts a diagram (DiagramDraft), the premise    *)
(* (Premise), an annotation in its detail (AnnotationName), the choice of  *)
(* a target (TargetPicker), the members (Members) and the connections of   *)
(* /mcp (Connections).  They share no state with one another, so any       *)
(* behaviour of the page, seen in one panel, is a behaviour of that panel  *)
(* alone: a behaviour here takes the steps of one of them.                 *)
(***************************************************************************)
EXTENDS Drafts, DiagramDraft, Premise, AnnotationName, TargetPicker, Members, Connections

VARIABLE panel

vars == <<drafts, diagram, premising, naming, picking, sharing, connecting, panel>>

Panels == {"draft", "diagram", "premise", "name", "target", "members", "connections"}

PanelsTyped ==
    /\ panel \in Panels /\ DraftsTyped /\ DiagramTyped /\ PremiseTyped
    /\ NamingTyped /\ PickerTyped /\ SharingTyped /\ ConnectionsTyped

\* What the panels that take no step start with does not matter.
Init ==
    /\ panel \in Panels
    /\ DraftsInit /\ (panel # "draft" => granularity = "auto")
    /\ DiagramInit /\ PremiseInit
    /\ NamingInit /\ (panel # "name" => savedName = NoName /\ mayEdit /\ frame =
                        [frame EXCEPT !.name = NoName, !.shape = NoShape,
                                      !.grain = CHOOSE g \in Grains : TRUE])
    /\ PickerInit
    /\ SharingInit /\ (panel # "members" => /\ \A l \in Logins : holder[l] = Nobody
                                            /\ \A u \in Users \ {Me} : roleOf[u] = "none")
    /\ ConnectionsInit /\ (panel # "connections" => live = {})

DraftStep ==
    /\ panel = "draft" /\ DraftsNext
    /\ UNCHANGED <<diagram, premising, naming, picking, sharing, connecting, panel>>

DiagramStep ==
    /\ panel = "diagram" /\ DiagramNext
    /\ UNCHANGED <<drafts, premising, naming, picking, sharing, connecting, panel>>

PremiseStep ==
    /\ panel = "premise" /\ PremiseNext
    /\ UNCHANGED <<drafts, diagram, naming, picking, sharing, connecting, panel>>

NamingStep ==
    /\ panel = "name" /\ NamingNext
    /\ UNCHANGED <<drafts, diagram, premising, picking, sharing, connecting, panel>>

PickerStep ==
    /\ panel = "target" /\ PickerNext
    /\ UNCHANGED <<drafts, diagram, premising, naming, sharing, connecting, panel>>

SharingStep ==
    /\ panel = "members" /\ SharingNext
    /\ UNCHANGED <<drafts, diagram, premising, naming, picking, connecting, panel>>

ConnectionsStep ==
    /\ panel = "connections" /\ ConnectionsNext
    /\ UNCHANGED <<drafts, diagram, premising, naming, picking, sharing, panel>>

Next ==
    \/ DraftStep \/ DiagramStep \/ PremiseStep
    \/ NamingStep \/ PickerStep \/ SharingStep \/ ConnectionsStep

Spec == Init /\ [][Next]_vars

-----------------------------------------------------------------------------
(* Properties *)

\* Whatever the user did to the draft, what is sent is not refused for its structure and
\* makes nothing a second time (Drafts: NeverTwice, RequestIsValid).
SentOnceAndValid == NeverTwice /\ RequestIsValid

\* What the user has typed or chosen is neither overwritten by an answer nor changed on its
\* way: a premise and a name go only when the user drops them or has lost the right to write
\* them, the items of a draft stay as long as its interpretation is shown, which one that
\* arrives or a save ends (Premise: PremiseKept, AnnotationName: NamesKept, Drafts: DraftKept).
InputKept == PremiseKept /\ NamesKept /\ DraftKept

\* What leaves a dialog is what it showed: no target mixed of two choices, no person invited
\* whom the user was not shown, no rows of an earlier opening.
AsShown == [](TargetAsShown /\ RowsOfThisOpening) /\ InvitedAsShown
=============================================================================
