---------------------------- MODULE CameraGroups ----------------------------
(***************************************************************************)
(* The tree of camera groups (cameras/groups.py) and the camera scopes of  *)
(* users and roles that refer to it (auth/camera_scope.py).  A request     *)
(* validates what it read and commits later; a foreign key that dangles at *)
(* the commit fails it: parents are RESTRICT, members and scope entries    *)
(* CASCADE.                                                                *)
(***************************************************************************)
EXTENDS Naturals, FiniteSets

CONSTANTS
  MaxGroups,       \* groups that exist at a time
  Cameras,         \* cameras
  MaxGroupEdits    \* bound: requests

ASSUME GroupsAssumption == MaxGroups \in Nat /\ MaxGroupEdits \in Nat

VARIABLES
  known,    \* the groups that exist
  parent,   \* parent_id, 0 for none
  members,  \* camera_group_members
  scope,    \* principal_camera_scopes and their entries
  asking,   \* requests between validation and commit
  crossed,  \* history: two moves overlapped
  groupEdits     \* requests so far

groupVars == <<known, parent, members, scope, asking, crossed, groupEdits>>

Groups == 1..MaxGroups
Root == 0
Principals == {"user", "role"}
Askers == {1, 2}

Unasked == [op |-> "none", group |-> Root, to |-> Root, who |-> "user",
            entries |-> {}, groups |-> {}, overlap |-> FALSE]

\* A user without a scope of its own inherits the scopes of its roles; a new
\* custom role sees nothing.
Absent == [mode |-> "absent", entries |-> {}, groups |-> {}]

GroupsInit ==
  /\ known = {} /\ parent = [g \in Groups |-> Root]
  /\ members = [g \in Groups |-> {}]
  /\ scope = [p \in Principals |->
       IF p = "user" THEN Absent ELSE [Absent EXCEPT !.mode = "none"]]
  /\ asking = [a \in Askers |-> Unasked] /\ crossed = FALSE /\ groupEdits = 0

-----------------------------------------------------------------------------
(* What a scope opens.                                                     *)

\* The groups on the way from g to the root, g included; on a cycle, all of it:
\* the least set with g that is closed under parents.
Upward(g) ==
  {x \in Groups : \A S \in SUBSET Groups :
     (g \in S /\ \A y \in S : parent[y] \in S \cup {Root}) => x \in S}

\* _expand_group_camera_ids: the selected groups and all below them.
ExpandGroups(selected) ==
  UNION {members[g] : g \in {h \in known : Upward(h) \cap selected # {}}}

\* _camera_ids_for_scope
CamerasOf(value) ==
  CASE value.mode = "all" -> Cameras
    [] value.mode = "selected" -> value.entries \cup ExpandGroups(value.groups)
    [] OTHER -> {}

\* effective_scope: the scope of the user, if there is one, replaces the
\* scopes of its roles.
EffectiveScope ==
  IF scope["user"].mode # "absent" THEN CamerasOf(scope["user"])
                                   ELSE CamerasOf(scope["role"])

-----------------------------------------------------------------------------
(* Requests.                                                               *)

GroupEdit == groupEdits < MaxGroupEdits /\ groupEdits' = groupEdits + 1

Ask(a, request) ==
  /\ asking[a] = Unasked /\ \A b \in 1..(a - 1) : asking[b] # Unasked
  /\ GroupEdit /\ asking' = [asking EXCEPT ![a] = request]

Answer(a) == [asking EXCEPT ![a] = Unasked]

Named(g) == \E a \in Askers : g \in {asking[a].group, asking[a].to} \cup asking[a].groups

\* create.  A new group has a new id: none a request still names.
CreateGroup(g, p, cameras) ==
  /\ g \notin known /\ ~Named(g)
  /\ \A h \in 1..(g - 1) : h \in known \/ Named(h)
  /\ p \in known \cup {Root}
  /\ GroupEdit
  /\ known' = known \cup {g} /\ parent' = [parent EXCEPT ![g] = p]
  /\ members' = [members EXCEPT ![g] = cameras]
  /\ UNCHANGED <<scope, asking, crossed>>

\* _validate_parent: the walk to the root meets neither the group nor a
\* group twice.
ValidateParent(g, p) ==
  p # Root => /\ p \in known /\ g \notin Upward(p)
              /\ \E x \in Upward(p) : parent[x] = Root

MoveVerify(a, g, p) ==
  /\ g \in known /\ parent[g] # p /\ ValidateParent(g, p)
  /\ Ask(a, [Unasked EXCEPT !.op = "move", !.group = g, !.to = p])
  /\ UNCHANGED <<known, parent, members, scope, crossed>>

\* A move that commits invalidates what the others walked over.
MoveCommit(a) ==
  LET g == asking[a].group  p == asking[a].to
      possible == g \in known /\ p \in known \cup {Root}
  IN /\ asking[a].op = "move"
     /\ parent' = IF possible THEN [parent EXCEPT ![g] = p] ELSE parent
     /\ crossed' = (crossed \/ (possible /\ asking[a].overlap))
     /\ asking' = [b \in Askers |->
          IF b # a /\ possible /\ asking[b].op = "move"
          THEN [asking[b] EXCEPT !.overlap = TRUE] ELSE Answer(a)[b]]
     /\ UNCHANGED <<known, members, scope, groupEdits>>

\* update with camera_ids: _replace_members
ReplaceMembers(g, cameras) ==
  /\ g \in known /\ members[g] # cameras /\ GroupEdit
  /\ members' = [members EXCEPT ![g] = cameras]
  /\ UNCHANGED <<known, parent, scope, asking, crossed>>

\* delete: refused with children or with a scope that refers to the group.
Children(g) == {h \in known : parent[h] = g}

DeleteVerify(a, g) ==
  /\ g \in known /\ Children(g) = {}
  /\ \A p \in Principals : g \notin scope[p].groups
  /\ Ask(a, [Unasked EXCEPT !.op = "delete", !.group = g])
  /\ UNCHANGED <<known, parent, members, scope, crossed>>

\* Fault: a scope that lost its last entry is dropped, and with it the
\* restriction it stood for.
CascadedAway(g) ==
  [p \in Principals |->
     IF g \in scope[p].groups /\ scope[p].groups = {g} /\ scope[p].entries = {}
     THEN Absent ELSE [scope[p] EXCEPT !.groups = @ \ {g}]]

\* What the database does with the scope entries of a deleted group: the
\* entry goes, the scope stays what it was.
Cascaded(g) == [p \in Principals |-> [scope[p] EXCEPT !.groups = @ \ {g}]]

DeleteCommit(a) ==
  LET g == asking[a].group
      possible == g \in known /\ Children(g) = {}
  IN /\ asking[a].op = "delete"
     /\ known' = IF possible THEN known \ {g} ELSE known
     /\ parent' = IF possible THEN [parent EXCEPT ![g] = Root] ELSE parent
     /\ members' = IF possible THEN [members EXCEPT ![g] = {}] ELSE members
     /\ scope' = IF possible THEN Cascaded(g) ELSE scope
     /\ asking' = Answer(a)
     /\ UNCHANGED <<crossed, groupEdits>>

\* set_scope with mode selected: the groups named exist when it looks.
ScopeVerify(a, who, cameras, groups) ==
  /\ groups \subseteq known
  /\ Ask(a, [Unasked EXCEPT !.op = "scope", !.who = who, !.entries = cameras,
                            !.groups = groups])
  /\ UNCHANGED <<known, parent, members, scope, crossed>>

ScopeCommit(a) ==
  LET value == [mode |-> "selected", entries |-> asking[a].entries,
                groups |-> asking[a].groups]
  IN /\ asking[a].op = "scope"
     /\ scope' = IF value.groups \subseteq known
                 THEN [scope EXCEPT ![asking[a].who] = value] ELSE scope
     /\ asking' = Answer(a)
     /\ UNCHANGED <<known, parent, members, crossed, groupEdits>>

\* The modes without entries, and "inherit" for a user (clear_scope).
ScopeMode(who, mode) ==
  /\ scope[who].mode # mode /\ (mode = "absent" => who = "user")
  /\ GroupEdit /\ scope' = [scope EXCEPT ![who] = [Absent EXCEPT !.mode = mode]]
  /\ UNCHANGED <<known, parent, members, asking, crossed>>

GroupsNext ==
  \/ \E g \in Groups, cameras \in SUBSET Cameras :
       \/ ReplaceMembers(g, cameras)
       \/ \E p \in Groups \cup {Root} : CreateGroup(g, p, cameras)
  \/ \E a \in Askers :
       \/ \E g \in Groups : \/ DeleteVerify(a, g)
                            \/ \E p \in Groups \cup {Root} : MoveVerify(a, g, p)
       \/ \E who \in Principals, cameras \in SUBSET Cameras, groups \in SUBSET Groups :
            ScopeVerify(a, who, cameras, groups)
       \/ MoveCommit(a) \/ DeleteCommit(a) \/ ScopeCommit(a)
  \/ \E who \in Principals, mode \in {"all", "none", "absent"} : ScopeMode(who, mode)

GroupsSpec == GroupsInit /\ [][GroupsNext]_groupVars

-----------------------------------------------------------------------------
(* Every group hangs under the root, so that the walks of _validate_parent *)
(* end there.  The exception: two moves, each validated before the other   *)
(* committed, may close a cycle.                                           *)
HierarchyIsForest ==
  crossed \/ \A g \in known : \E x \in Upward(g) : parent[x] = Root

(* Deleting a group never opens a camera to anyone, even when a scope that *)
(* names the group was saved between the check and the deletion.           *)
DeletionNeverWidens ==
  [][known' # known /\ known' \subseteq known
       => EffectiveScope' \subseteq EffectiveScope]_groupVars

(* Whatever is moved, deleted and scoped at the same time: the tree stays a  *)
(* tree, and a deletion takes access away or leaves it.                      *)
GroupsStaySound == []HierarchyIsForest /\ DeletionNeverWidens

=============================================================================
