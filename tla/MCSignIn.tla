------------------------------ MODULE MCSignIn ------------------------------
(* A small instance of SignIn for TLC. *)
EXTENDS SignIn, TLC

CONSTANTS c1, c2, s1, s2, s3, x, y, l1, l2, l3

Begun(S) == {r \in S : pc[r] # "idle"}

(* Token calls are alike, and so are logins. *)
Symmetry == Permutations(TokenCalls) \cup Permutations({l1, l2, l3})

(* Of two starts or callbacks, the first may as well begin first. *)
InTurn ==
    \A p \in {<<s1, s2>>, <<s2, s3>>, <<c1, c2>>} : Begun({p[2]}) # {} => Begun({p[1]}) # {}

(* One account: three of its requests refresh, or two while one of its     *)
(* sign-ins comes in between.                                              *)
RefreshWorld ==
    /\ Cardinality(Begun(TokenCalls)) <= 2 \/ Begun(Requests \ TokenCalls) = {}
    /\ Begun({s2, s3, c2}) = {} /\ renames = 0
    /\ \A r \in Callbacks : account[r] # y

(* Sign-ins are started and given up, and the process dies. *)
WindowWorld == Begun(Requests \ Starts) = {} /\ renames = 0

(* Two accounts that exchange their logins come back from two starts. *)
ReturnWorld ==
    /\ Begun(TokenCalls \cup Logouts \cup {s3}) = {} /\ clock <= 2 /\ crashes = 0
    /\ \A r \in Requests : pc[r] # "failed"

Worlds == InTurn /\ (RefreshWorld \/ WindowWorld \/ ReturnWorld)
=============================================================================
