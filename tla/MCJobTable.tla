----------------------------- MODULE MCJobTable -----------------------------
(* Small instances of JobTable for TLC. *)
EXTENDS JobTable, TLC

CONSTANTS s1, s2, s3, x, y, b1, c1, c2

(* Starts of the same arguments differ in nothing but when they arrive:    *)
(* they may as well arrive in the order of their names.                    *)
InTurn ==
    /\ pc[s2] # "idle" => pc[s1] # "idle"
    /\ pc[s3] # "idle" => pc[s2] # "idle"

(* Three starts on a board left alone, the answers read at the first time; *)
(* two whose answers are sent back; and two interpretations of an          *)
(* annotation that is edited, in a short time.                             *)
LeftAlone == \A t \in Topics : content[t] = c1
AtOnce == \A r \in Starts : attempts[r] <= 1
TwoStarts == pc[s3] = "idle" /\ asked[s3] = asked[s1]
Edited ==
    /\ clock = 0
    /\ pc[s1] # "idle" => c1 \in since[s1]
    /\ \A r \in Starts : KindOf(r) = "interpretation"

Worlds ==
    InTurn /\ \/ LeftAlone /\ AtOnce
              \/ LeftAlone /\ TwoStarts
              \/ Edited /\ AtOnce /\ TwoStarts
=============================================================================
