---------------------------- MODULE MCOAuthGrants ----------------------------
(* Small instances of OAuthGrants for TLC. *)
EXTENDS OAuthGrants, TLC

CONSTANTS a1, a2, e1, e2, f1, f2, g1, g2, u1, u2

(* Requests of one kind differ in nothing but what they are sent, which is *)
(* part of the state; users differ in nothing at all.                      *)
Symmetry ==
    Permutations({e1, e2}) \cup Permutations({f1, f2}) \cup Permutations({u1, u2})

Begun(S) == {r \in S : pc[r] # "idle"}

(* One approval of a client named by URL, by any user, with every later    *)
(* request about the grant it leads to.                                    *)
TokenWorld ==
    /\ clock <= 2
    /\ Begun(Registrations) = {} /\ Begun(Approvals) \subseteq {a1}

(* Registered clients, approved by one user, over a longer time; what is   *)
(* sent to exchange a code fits it, and no statement fails.                *)
ClientWorld ==
    /\ Begun(Refreshes \cup Revocations) = {}
    /\ \A a, b \in Begun(Approvals) : user[a] = user[b] /\ arg[a] \in Registrations
    /\ \A e \in Begun(Exchanges) : fits[e]
    /\ \A r \in Requests : pc[r] # "dead"

(* Of two registrations or approvals, the first may as well begin first.   *)
InTurn ==
    \A p \in {<<a1, a2>>, <<g1, g2>>} : pc[p[2]] # "idle" => pc[p[1]] # "idle"

Worlds == InTurn /\ (TokenWorld \/ ClientWorld)
=============================================================================
