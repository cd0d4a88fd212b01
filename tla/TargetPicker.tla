---------------------------- MODULE TargetPicker ----------------------------
(***************************************************************************)
(* The choice of where the draft issues of a board go                      *)
(* (web/src/board/target/RepositoryPicker.tsx): a repository, then one of  *)
(* the projects linked to it, whose fields are checked once when it is     *)
(* chosen, then a button that hands the target to the caller.  Any number  *)
(* of readings may be on their way and answer in any order.                *)
(***************************************************************************)
EXTENDS Naturals

CONSTANTS
    Repositories, NoRepository,
    Projects, NoProject,
    ProjectsOf,         \* what GitHub answers: the projects linked to a repository
    MaxPresses          \* bound on the presses of a row and of the button

ASSUME PickerAssumption ==
    /\ ProjectsOf \in [Repositories -> SUBSET Projects]
    /\ NoRepository \notin Repositories /\ NoProject \notin Projects
    /\ MaxPresses \in Nat

VARIABLES
    listing,        \* repositories: "reading", "read" or "failed"
    repository,
    projects,       \* the list of projects, null while it is read
    projectsRequest, \* number of the last reading of a list
    projectsAsked,  \* readings of a list on their way
    chosen,
    fieldsCheck,
    fieldsRequest,  \* number of the last check
    fieldsAsked,    \* checks on their way
    picked,         \* what onSelected was given and has not answered
    refusal,        \* error
    mounted,        \* the picker is on the screen
    presses

asking  == <<projectsRequest, projectsAsked, fieldsRequest, fieldsAsked>>
picking == <<listing, repository, projects, chosen, fieldsCheck, asking, picked, refusal,
             mounted, presses>>

NotListed  == [status |-> "none", list |-> {}]
NotChecked == [project |-> NoProject, status |-> "checking"]
NotPicked  == [repository |-> NoRepository, project |-> NoProject]

TargetChoice == [repository : Repositories, project : Projects]
Asked(keys) == [number : 1 .. MaxPresses, of : keys]

PickerTyped ==
    /\ listing \in {"reading", "read", "failed"}
    /\ repository \in Repositories \cup {NoRepository}
    /\ projects \in [status : {"none", "reading", "read", "failed"}, list : SUBSET Projects]
    /\ projectsRequest \in 0 .. MaxPresses /\ fieldsRequest \in 0 .. MaxPresses
    /\ projectsAsked \subseteq Asked(Repositories) /\ fieldsAsked \subseteq Asked(Projects)
    /\ chosen \in Projects \cup {NoProject}
    /\ fieldsCheck \in [project : Projects, status : {"ok", "missing", "unknown"}] \cup {NotChecked}
    /\ picked \in TargetChoice \cup {NotPicked}
    /\ refusal \in {"none", "repositories", "projects", "target"}
    /\ mounted \in BOOLEAN /\ presses \in 0 .. MaxPresses

PickerInit ==
    /\ listing = "reading" /\ repository = NoRepository /\ projects = NotListed
    /\ projectsRequest = 0 /\ projectsAsked = {} /\ fieldsRequest = 0 /\ chosen = NoProject /\ fieldsCheck = NotChecked /\ fieldsAsked = {}
    /\ picked = NotPicked /\ refusal = "none" /\ mounted = TRUE /\ presses = 0

Press == mounted /\ picked = NotPicked /\ presses < MaxPresses /\ presses' = presses + 1

(* Fault: every answer is shown. *)
AnyAnswer(a, last) == TRUE

\* Only the answer to what was asked for last is shown.
Current(a, last) == a.number = last

-----------------------------------------------------------------------------

RepositoriesArrive ==
    /\ mounted /\ listing = "reading"
    /\ \/ listing' = "read" /\ UNCHANGED refusal
       \/ listing' = "failed" /\ refusal' = "repositories"
    /\ UNCHANGED <<repository, projects, chosen, fieldsCheck, asking, picked, mounted, presses>>

\* The number of the press is the number of the request.
AskProjects(r) ==
    /\ projectsRequest' = presses'
    /\ projectsAsked' = projectsAsked \cup {[number |-> presses', of |-> r]}
    /\ UNCHANGED <<fieldsRequest, fieldsAsked>>

(* Fault: the project chosen in another repository stays chosen. *)
ChooseRepositoryKept(r) ==
    /\ listing = "read" /\ Press
    /\ repository' = r /\ projects' = [status |-> "reading", list |-> {}]
    /\ refusal' = "none" /\ AskProjects(r)
    /\ UNCHANGED <<listing, chosen, fieldsCheck, picked, mounted>>

ChooseRepository(r) ==
    /\ listing = "read" /\ Press
    /\ repository' = r /\ projects' = [status |-> "reading", list |-> {}]
    /\ chosen' = NoProject /\ refusal' = "none" /\ AskProjects(r)
    /\ UNCHANGED <<listing, fieldsCheck, picked, mounted>>

\* An answer that is not shown is only forgotten.
ProjectsArrive(a) ==
    /\ projectsAsked' = projectsAsked \ {a}
    /\ IF mounted /\ Current(a, projectsRequest)
         THEN \/ /\ projects' = [status |-> "read", list |-> ProjectsOf[a.of]]
                 /\ UNCHANGED refusal
              \/ projects' = [projects EXCEPT !.status = "failed"] /\ refusal' = "projects"
         ELSE UNCHANGED <<projects, refusal>>
    /\ UNCHANGED <<listing, repository, projectsRequest, chosen, fieldsCheck, fieldsRequest,
                   fieldsAsked, picked, mounted, presses>>

ChooseProject(p) ==
    /\ projects.status = "read" /\ p \in projects.list /\ Press
    /\ chosen' = p /\ fieldsCheck' = NotChecked /\ refusal' = "none"
    /\ fieldsRequest' = presses'
    /\ fieldsAsked' = fieldsAsked \cup {[number |-> presses', of |-> p]}
    /\ UNCHANGED <<listing, repository, projects, projectsRequest, projectsAsked, picked, mounted>>

\* A check that could not be made says neither that a field is missing nor that none is.
FieldsArrive(a) ==
    /\ fieldsAsked' = fieldsAsked \ {a}
    /\ IF mounted /\ Current(a, fieldsRequest)
         THEN \E s \in {"ok", "missing", "unknown"} :
                fieldsCheck' = [project |-> a.of, status |-> s]
         ELSE UNCHANGED fieldsCheck
    /\ UNCHANGED <<listing, repository, projects, projectsRequest, projectsAsked, chosen,
                   fieldsRequest, picked, refusal, mounted, presses>>

-----------------------------------------------------------------------------

\* What the check found does not hold the choice up.
ConfirmProject ==
    /\ repository # NoRepository /\ chosen # NoProject /\ Press
    /\ picked' = [repository |-> repository, project |-> chosen] /\ refusal' = "none"
    /\ UNCHANGED <<listing, repository, projects, chosen, fieldsCheck, asking, mounted>>

\* The caller leaves the picker once it has the target.
SelectedArrives ==
    /\ picked # NotPicked /\ picked' = NotPicked
    /\ \/ mounted' = FALSE /\ UNCHANGED refusal
       \/ refusal' = "target" /\ UNCHANGED mounted
    /\ UNCHANGED <<listing, repository, projects, chosen, fieldsCheck, asking, presses>>

\* onCancel is there while the target is being set, too.
CancelPicker ==
    /\ mounted /\ mounted' = FALSE
    /\ UNCHANGED <<listing, repository, projects, chosen, fieldsCheck, asking, picked, refusal,
                   presses>>

PickerNext ==
    \/ RepositoriesArrive \/ ConfirmProject \/ SelectedArrives \/ CancelPicker
    \/ \E r \in Repositories : ChooseRepository(r)
    \/ \E p \in Projects : ChooseProject(p)
    \/ \E a \in projectsAsked : ProjectsArrive(a)
    \/ \E a \in fieldsAsked : FieldsArrive(a)

-----------------------------------------------------------------------------
(* Properties *)

\* In whatever order the readings answer, the projects on the screen are those of the
\* repository that is pressed, the check beside the button is of the project it would take,
\* and the target is a project of its repository: no target is a mix of two choices
\* (chooseRepository, "作成先を取り違える経路なので塞いでおく").
TargetAsShown ==
    /\ projects.status = "read" => projects.list = ProjectsOf[repository]
    /\ chosen # NoProject /\ fieldsCheck # NotChecked => fieldsCheck.project = chosen
    /\ picked # NotPicked => picked.project \in ProjectsOf[picked.repository]
=============================================================================
