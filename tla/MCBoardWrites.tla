---------------------------- MODULE MCBoardWrites ----------------------------
(* Small instances of BoardWrites for TLC. *)
EXTENDS BoardWrites, TLC

CONSTANTS u1, u2, a1, a2, h1, h2, p1, p2, t1, t2

Epic(t, prev) == [kind |-> "epic", title |-> t, parent |-> 0, prev |-> prev]
Issue(t, parent, prev) ==
    [kind |-> "issue", title |-> t, parent |-> parent, prev |-> prev]

Creation(u, a, h, plan) ==
    [op |-> "create", user |-> u, annotation |-> a, hash |-> h, plan |-> plan]
Selection(u, p) == [op |-> "target", user |-> u, project |-> p]
Refreshment(u, p) == [op |-> "refresh", user |-> u, project |-> p]
Deletion(u) == [op |-> "delete", user |-> u]
RoleChange(u, m, rl) == [op |-> "setRole", user |-> u, member |-> m, role |-> rl]
Removal(u, m) == [op |-> "remove", user |-> u, member |-> m]
Invitation(u, m, rl) == [op |-> "invite", user |-> u, member |-> m, role |-> rl]

(* Creations of one user on two annotations: an issue listed before its    *)
(* epic, updates of the first and second item, a lone issue.               *)
CreationCalls ==
    {Creation(u1, a1, h1, <<Issue(t1, 2, NoItem), Epic(t2, NoItem)>>),
     Creation(u1, a1, h2, <<Epic(t2, 1), Issue(t2, 1, 2)>>),
     Creation(u1, a1, h1, <<Issue(t1, 0, 2), Issue(t2, 0, NoItem)>>),
     Creation(u1, a2, h1, <<Issue(t1, 0, 1)>>)}

(* One item made, then rewritten twice: the writes whose answers are lost  *)
(* and the later ones that settle them.                                    *)
LoneCreation == Creation(u1, a1, h1, <<Issue(t1, 0, NoItem)>>)

RetryCalls ==
    {LoneCreation,
     Creation(u1, a1, h1, <<Issue(t2, 0, 1)>>),
     Creation(u1, a1, h1, <<Issue(t1, 0, 1)>>)}

CreationsAndRetries == CreationCalls \cup RetryCalls

(* Two creations while the scene is edited (the third request does not     *)
(* come), or three that make and rewrite one item of a scene left alone.   *)
TwoCreations ==
    \E r \in Requests :
        /\ call[r] = LoneCreation /\ pc[r] = "waiting" /\ r \notin cancelled
        /\ \A s \in Requests \ {r} : call[s] \in CreationCalls

ThreeWrites ==
    /\ \A r \in Requests : call[r] \in RetryCalls
    /\ \A a \in Annotations : content[a] = h1
    /\ \A x \in Items : github[x].by # Nobody => x <= 2

CreationWorlds == TwoCreations \/ ThreeWrites

(* One call of every kind that waits for the lock, and the invitation. *)
QueueCalls ==
    {Creation(u1, a1, h1, <<Issue(t1, 0, NoItem)>>), Selection(u1, p2), Deletion(u1),
     RoleChange(u1, u1, Editor), Removal(u1, u2), Invitation(u1, u2, Owner)}

(* Every operation of the board, by two people. *)
AllCalls ==
    {Creation(u1, a1, h1, <<Issue(t1, 0, NoItem)>>),
     Creation(u2, a1, h1, <<Issue(t2, 0, NoItem)>>),
     Selection(u1, p2), Refreshment(u1, p1), Deletion(u1), Deletion(u2),
     Invitation(u1, u2, Editor), Invitation(u1, u2, Owner),
     RoleChange(u1, u2, Owner), RoleChange(u2, u1, Viewer), RoleChange(u1, u1, Editor),
     Removal(u1, u2), Removal(u2, u1)}

RequestSymmetry == Permutations(Requests)

OneAnnotation == {a1}
ItemIds == 1 .. 3
TwoItemIds == 1 .. 2
NobodyEdits == {}

=============================================================================
