------------------------------- MODULE Groups -------------------------------
(***************************************************************************)
(* Network variables and their groups.  A NetVar puts itself in a list of  *)
(* the thread that constructs it; createGroup makes a group of all that    *)
(* is in the list of the calling thread; the first variable of a group     *)
(* that is destroyed dissolves it.  Groups live in the pending list of the *)
(* GroupCollection until the Network goes: m_IdPool is filled nowhere, so  *)
(* that no group gets an id, no createGroup is sent, and an RPC to change  *)
(* an owner finds no group.                                                *)
(*                                                                         *)
(* A variable that is in no group is destroyed by the thread that          *)
(* constructed it: the destructor looks in the list of its own thread      *)
(* only.  A variable that outlives the Network keeps a pointer to a group  *)
(* that is gone; to use it brings the process down.                        *)
(***************************************************************************)
EXTENDS Naturals, Sequences, Functions

CONSTANTS
    Threads,    \* threads of the user and workers
    Vars        \* NetVariable objects, each constructed at most once

VARIABLES
    var,        \* the NetVariable: [state, group, bit, control, changed]
    built,      \* getConstructedVariables() of each thread
    groups,     \* the Group objects made: [vars, ungrouped, changed, alive]
    jobs,       \* tryProcessPendingGroups jobs in the JobSystem
    nw,         \* there is a Network
    told,       \* history: variables whose change of owner was sent
    down        \* a group that is gone was used

vars == <<var, built, groups, jobs, nw, told, down>>

NoGroup == 0
NoBit   == 255     \* (byte)-1

Init ==
    /\ var = [v \in Vars |-> [state |-> "no", group |-> NoGroup, bit |-> NoBit, control |-> "Unowned", changed |-> FALSE]]
    /\ built = [t \in Threads |-> <<>>]
    /\ groups = <<>> /\ jobs = 0 /\ nw = TRUE /\ told = {} /\ down = FALSE
----------------------------------------------------------------------------
Alive(v)    == ~down /\ var[v].state = "alive"
Dangling(v) == var[v].group # NoGroup /\ ~groups[var[v].group].alive

\* NetVariable::NetVariable
Construct(t, v) ==
    /\ ~down /\ var[v].state = "no"
    /\ var' = [var EXCEPT ![v].state = "alive"]
    /\ built' = [built EXCEPT ![t] = Append(@, v)]
    /\ UNCHANGED <<groups, jobs, nw, told, down>>

\* Where a variable is in a list, and the list without it.
PlaceOf(s, v) == CHOOSE i \in DOMAIN s : s[i] = v
Erase(s, v)   == [j \in 1 .. Len(s) - 1 |-> IF j < PlaceOf(s, v) THEN s[j] ELSE s[j + 1]]

\* Group::unGroup: once, and for all its variables.
UnGroup_One(g, v) == [g EXCEPT !.vars = IF v \in Range(@) THEN Erase(@, v) ELSE @]
UnGroup(g, v) == IF g.ungrouped THEN g ELSE [g EXCEPT !.ungrouped = TRUE, !.vars = <<>>]

\* NetVariable::unGroup, at the end of ...
Leave(v) ==
    /\ var' = [var EXCEPT ![v].state = "dead", ![v].group = NoGroup]
    /\ IF var[v].group = NoGroup \/ Dangling(v) THEN UNCHANGED groups
       ELSE groups' = [groups EXCEPT ![var[v].group] = UnGroup(@, v)]
    /\ down' = Dangling(v)

\* ... NetVariable::~NetVariable, which first erases it from the list.
Destruct(t, v) ==
    /\ Alive(v) /\ (var[v].group # NoGroup \/ v \in Range(built[t]))
    /\ built' = [built EXCEPT ![t] = IF v \in Range(@) THEN Erase(@, v) ELSE @]
    /\ Leave(v)
    /\ UNCHANGED <<jobs, nw, told>>
----------------------------------------------------------------------------
\* NetVariable::initialize, for the variables of the group g.
Initialize(s, g) ==
    var' = [v \in Vars |-> IF v \in Range(s)
                             THEN [var[v] EXCEPT !.group = g, !.bit = (PlaceOf(s, v) - 1) % 256, !.control = "Full"]
                             ELSE var[v]]

\* The constructor of Group, ...
NewGroup(s) ==
    /\ groups' = Append(groups, [vars |-> s, ungrouped |-> FALSE, changed |-> FALSE, alive |-> TRUE])
    /\ Initialize(s, Len(groups) + 1)

\* ... addNewPendingGroup, which discards a call without variables, and ...
AddNewPendingGroup(s) ==
    /\ s # <<>>
    /\ NewGroup(s)
    /\ jobs' = jobs + 1

\* ... createGroupInternal.
CreateGroup_KeepsList(t) ==
    /\ ~down /\ nw
    /\ AddNewPendingGroup(built[t])
    /\ UNCHANGED <<built, nw, told, down>>
CreateGroup(t) ==
    /\ ~down /\ nw
    /\ AddNewPendingGroup(built[t])
    /\ built' = [built EXCEPT ![t] = <<>>]
    /\ UNCHANGED <<nw, told, down>>

\* tryProcessPendingGroups: there is no id to take, the groups stay pending.
TryProcessPendingGroups ==
    /\ ~down /\ jobs > 0
    /\ jobs' = jobs - 1
    /\ UNCHANGED <<var, built, groups, nw, told, down>>

\* NetVariable::changeOwner: a variable that is in a group is owned here, for nothing but the
\* RPC gives it another owner, and the RPC goes out with the id of a group that has none.
ChangeOwner(v) ==
    /\ Alive(v) /\ var[v].group # NoGroup /\ v \notin told
    /\ IF Dangling(v) THEN down' = TRUE /\ UNCHANGED told ELSE told' = told \cup {v} /\ UNCHANGED down
    /\ UNCHANGED <<var, built, groups, jobs, nw>>

\* Group::markChanged and NetVariable::markChanged
GroupChanged(g) == [g EXCEPT !.changed = TRUE]
MarkChanged(v) ==
    /\ Alive(v) /\ ~var[v].changed
    /\ var' = [var EXCEPT ![v].changed = TRUE]
    /\ IF var[v].group = NoGroup \/ Dangling(v) THEN UNCHANGED groups
       ELSE groups' = [groups EXCEPT ![var[v].group] = GroupChanged(@)]
    /\ down' = Dangling(v)
    /\ UNCHANGED <<built, jobs, nw, told>>

\* ~Network clears the components, and with the pending list goes every Group.
NetworkGone ==
    /\ ~down /\ nw
    /\ nw' = FALSE /\ jobs' = 0
    /\ groups' = [g \in DOMAIN groups |-> [groups[g] EXCEPT !.ungrouped = TRUE, !.vars = <<>>, !.alive = FALSE]]
    /\ UNCHANGED <<var, built, told, down>>

Next ==
    \/ \E t \in Threads, v \in Vars : Construct(t, v) \/ Destruct(t, v)
    \/ \E t \in Threads : CreateGroup(t)
    \/ \E v \in Vars : ChangeOwner(v) \/ MarkChanged(v)
    \/ TryProcessPendingGroups \/ NetworkGone

Spec == Init /\ [][Next]_vars
----------------------------------------------------------------------------
\* An index of a group that was not dissolved names the variable that has it as m_Bit, and that
\* variable is alive and in this group: what getUserVar and setNewOwnership rely on, through any
\* order of destructors.  (m_Bit is a byte: with more than 256 variables it comes round.)
IndexNamesVariable ==
    \A g \in DOMAIN groups : \A k \in DOMAIN groups[g].vars :
        LET v == var[groups[g].vars[k]] IN v.state = "alive" /\ v.group = g /\ v.bit = (k - 1) % 256

\* A living variable without a group is in the list of exactly one thread, once, and no list
\* has another one: createGroup never takes a variable that is gone or in a group, which
\* initialize asserts, and forgets none.
WaitingOnce ==
    /\ \A v \in Vars :
         (var[v].state = "alive" /\ var[v].group = NoGroup) <=> \E t \in Threads : v \in Range(built[t])
    /\ \A t, u \in Threads : \A i \in DOMAIN built[t], j \in DOMAIN built[u] :
         built[t][i] = built[u][j] => t = u /\ i = j
=============================================================================
