----------------------------- MODULE SyncHistory -----------------------------
(***************************************************************************)
(* What etoki reads back from the history of its own writes to GitHub.     *)
(*                                                                         *)
(* Every creation leaves one row in sync_runs and one row in sync_items    *)
(* per item it tried to write.  Nothing is ever updated: the current       *)
(* picture of an annotation is FOLDED out of the whole history.  This      *)
(* module holds the queries of internal/adapter/sqlite/mapping.go and the  *)
(* judgements internal/usecase/annotation.go derives from them, as         *)
(* operators on the history of one board.                                  *)
(*                                                                         *)
(* A history is a sequence of runs; the position of a run is its           *)
(* autoincrement id.  A run is a record                                    *)
(*   [req, annotation, hash, complete, rows]                               *)
(* and rows is a sequence of                                               *)
(*   [localId, item, title, confirmed].                                    *)
(* The kind, body, parent and timestamps of a row are display data and are *)
(* left out; req names the request that wrote the run and exists only for  *)
(* the properties.                                                         *)
(***************************************************************************)
EXTENDS Naturals, Sequences

CONSTANT NoItem      \* the empty item_id of a creation that was not answered

(* The three states of domain.SyncState. *)
Uncreated == "uncreated"
Created   == "created"
Changed   == "changed"

-----------------------------------------------------------------------------
(* sync_items.id orders rows by run and then by position within the run. *)
RowIds(runs) == UNION {{<<n, k>> : k \in DOMAIN runs[n].rows} : n \in DOMAIN runs}

RowAt(runs, p) == runs[p[1]].rows[p[2]]

AnnotationAt(runs, p) == runs[p[1]].annotation

Later(p, q) == \/ p[1] < q[1]
               \/ p[1] = q[1] /\ p[2] < q[2]

ConfirmedRows(runs) == {p \in RowIds(runs) : RowAt(runs, p).confirmed}

(* Fault: grouping by annotation alone. *)
SameGroupByAnnotation(runs, p, q) == AnnotationAt(runs, p) = AnnotationAt(runs, q)

(* The group of foldedItemsQuery: (annotation, item_id). *)
SameGroup(runs, p, q) ==
    /\ AnnotationAt(runs, p) = AnnotationAt(runs, q)
    /\ RowAt(runs, p).item = RowAt(runs, q).item

(* The last confirmed row of every group, MAX(i2.id). *)
FoldedRows(runs) ==
    {p \in ConfirmedRows(runs) :
        \A q \in ConfirmedRows(runs) : SameGroup(runs, p, q) => ~Later(p, q)}

(* ListItemsByAnnotation, reduced to the item ids. *)
ListItemsByAnnotation(runs, a) ==
    {RowAt(runs, p).item : p \in {f \in FoldedRows(runs) : AnnotationAt(runs, f) = a}}

(* Fault: any confirmed write settles, also one from before. *)
ListUnconfirmedUnordered(runs) ==
    {p \in RowIds(runs) :
        /\ ~RowAt(runs, p).confirmed
        /\ ~(/\ RowAt(runs, p).item # NoItem
             /\ \E q \in ConfirmedRows(runs) : SameGroup(runs, p, q))}

(* ListUnconfirmedItemsByBoard: unanswered writes that no later confirmed  *)
(* write to the same item of the same annotation has settled.              *)
ListUnconfirmed(runs) ==
    {p \in RowIds(runs) :
        /\ ~RowAt(runs, p).confirmed
        /\ ~(/\ RowAt(runs, p).item # NoItem
             /\ \E q \in ConfirmedRows(runs) : SameGroup(runs, p, q) /\ Later(p, q))}

-----------------------------------------------------------------------------
(* ListLatestRunsByBoard keeps MAX(id) per annotation. *)
IsLatestRun(runs, n) ==
    /\ n \in DOMAIN runs
    /\ \A m \in DOMAIN runs : runs[m].annotation = runs[n].annotation => m <= n

(* TargetLocked: one run is enough, whatever became of it. *)
TargetLocked(runs) == runs # << >>

(* DecideState on the latest run of a and the hash the scene has now. *)
DecideState(runs, a, current) ==
    IF \A n \in DOMAIN runs : runs[n].annotation # a THEN Uncreated
    ELSE IF \E n \in DOMAIN runs :
                /\ runs[n].annotation = a
                /\ IsLatestRun(runs, n)
                /\ runs[n].hash = current
         THEN Created
         ELSE Changed

(* Fault: only what the fold returns counts. *)
DetachedByItems(runs, inScene) == {AnnotationAt(runs, p) : p \in FoldedRows(runs)} \ inScene

(* Annotations the scene no longer has but GitHub may still show: what     *)
(* detachedAnnotations returns for the annotations the scene still has.    *)
DetachedAnnotations(runs, inScene) ==
    {AnnotationAt(runs, p) : p \in FoldedRows(runs) \cup ListUnconfirmed(runs)} \ inScene

=============================================================================
