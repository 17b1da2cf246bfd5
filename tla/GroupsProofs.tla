---------------------------- MODULE GroupsProofs ----------------------------
(***************************************************************************)
(* Proofs about variables and groups, for any threads and variables.       *)
(***************************************************************************)
EXTENDS Groups, TLAPS

VarRecords == [state : {"no", "alive", "dead"}, group : Nat, bit : Nat, control : {"Unowned", "Full"}, changed : BOOLEAN]
GroupRecords == [vars : Seq(Vars), ungrouped : BOOLEAN, changed : BOOLEAN, alive : BOOLEAN]

\* The types; a group that was dissolved, or is gone, has no variables, and a variable without
\* an object has no group.
Typed ==
    /\ var \in [Vars -> VarRecords]
    /\ built \in [Threads -> Seq(Vars)]
    /\ groups \in Seq(GroupRecords)
    /\ \A v \in Vars : var[v].group \in 0 .. Len(groups)
    /\ \A v \in Vars : var[v].state # "alive" => var[v].group = NoGroup
    /\ \A g \in DOMAIN groups : groups[g].ungrouped \/ ~groups[g].alive => groups[g].vars = <<>>

\* The inductive invariant.
IInv == Typed /\ IndexNamesVariable /\ WaitingOnce
----------------------------------------------------------------------------
\* The variables of a list.
LEMMA RangeOfList == ASSUME NEW s \in Seq(Vars) PROVE Range(s) \subseteq Vars
  BY DEF Range

\* Without v a list is a list; it holds what it held but v, and what it holds twice it held
\* twice.
LEMMA EraseEffect ==
    ASSUME NEW s \in Seq(Vars), NEW v \in Range(s), \A i, j \in DOMAIN s : s[i] = s[j] => i = j
    PROVE  /\ Erase(s, v) \in Seq(Vars)
           /\ Range(Erase(s, v)) = Range(s) \ {v}
           /\ \A i, j \in DOMAIN Erase(s, v) : Erase(s, v)[i] = Erase(s, v)[j] => i = j
  <1>. DEFINE p == PlaceOf(s, v)  n == Len(s)  e == Erase(s, v)
  <1>1. n \in Nat /\ DOMAIN s = 1 .. n
    OBVIOUS
  <1>2. p \in 1 .. n /\ s[p] = v
    <2>1. \E i \in DOMAIN s : s[i] = v
      BY DEF Range
    <2>. QED
      BY <1>1, <2>1 DEF PlaceOf
  <1>3. n - 1 \in Nat
    BY <1>1, <1>2
  <1>4. e = [j \in 1 .. n - 1 |-> IF j < p THEN s[j] ELSE s[j + 1]]
    BY DEF Erase
  <1>. HIDE DEF p, n, e
  <1>5. DOMAIN e = 1 .. n - 1
    BY <1>4
  <1>6. ASSUME NEW j \in 1 .. n - 1
        PROVE  \E i \in 1 .. n : i # p /\ e[j] = s[i] /\ i = IF j < p THEN j ELSE j + 1
    <2>1. CASE j < p
      BY <1>1, <1>2, <1>4, <2>1
    <2>2. CASE ~(j < p)
      BY <1>1, <1>2, <1>4, <2>2
    <2>. QED
      BY <2>1, <2>2
  <1>7. ASSUME NEW i \in 1 .. n, i # p PROVE \E j \in 1 .. n - 1 : e[j] = s[i]
    <2>1. CASE i < p
      <3>1. i \in 1 .. n - 1 /\ e[i] = s[i]
        BY <1>1, <1>2, <1>4, <2>1
      <3>. QED
        BY <3>1
    <2>2. CASE i > p
      <3>1. i - 1 \in 1 .. n - 1 /\ ~(i - 1 < p) /\ (i - 1) + 1 = i
        BY <1>1, <1>2, <2>2
      <3>2. e[i - 1] = s[i]
        BY <1>4, <3>1
      <3>. QED
        BY <3>1, <3>2
    <2>. QED
      BY <1>1, <1>2, <1>7, <2>1, <2>2
  <1>8. e \in Seq(Vars)
    <2>1. \A j \in 1 .. n - 1 : e[j] \in Vars
      BY <1>1, <1>6
    <2>2. e \in [1 .. n - 1 -> Vars]
      BY <1>4, <2>1
    <2>. QED
      BY <1>3, <2>2
  <1>9. Range(e) = Range(s) \ {v}
    <2>1. ASSUME NEW x \in Range(e) PROVE x \in Range(s) \ {v}
      <3>1. PICK j \in 1 .. n - 1 : x = e[j]
        BY <1>5 DEF Range
      <3>2. PICK i \in 1 .. n : i # p /\ x = s[i]
        BY <1>6, <3>1
      <3>3. x # v
        BY <1>1, <1>2, <3>2
      <3>. QED
        BY <1>1, <3>2, <3>3 DEF Range
    <2>2. ASSUME NEW x \in Range(s), x # v PROVE x \in Range(e)
      <3>1. PICK i \in 1 .. n : x = s[i]
        BY <1>1 DEF Range
      <3>2. i # p
        BY <1>2, <2>2, <3>1
      <3>3. PICK j \in 1 .. n - 1 : e[j] = x
        BY <1>7, <3>1, <3>2
      <3>. QED
        BY <1>5, <3>3 DEF Range
    <2>. QED
      BY <2>1, <2>2
  <1>10. ASSUME NEW a \in 1 .. n - 1, NEW b \in 1 .. n - 1, e[a] = e[b] PROVE a = b
    <2>1. PICK i \in 1 .. n : i # p /\ e[a] = s[i] /\ i = IF a < p THEN a ELSE a + 1
      BY <1>6
    <2>2. PICK j \in 1 .. n : j # p /\ e[b] = s[j] /\ j = IF b < p THEN b ELSE b + 1
      BY <1>6
    <2>3. i = j
      BY Zenon, <1>1, <1>10, <2>1, <2>2
    <2>. QED
      BY <1>1, <1>2, <2>1, <2>2, <2>3
  <1>. QED
    BY <1>5, <1>8, <1>9, <1>10 DEF e
----------------------------------------------------------------------------
\* What an action does to a variable and to its group.
LEMMA VarUpdate ==
    ASSUME Typed, NEW v \in Vars, NEW r \in VarRecords, var' = [var EXCEPT ![v] = r]
    PROVE  /\ var' \in [Vars -> VarRecords]
           /\ var'[v] = r
           /\ \A u \in Vars : u # v => var'[u] = var[u]
  BY DEF Typed

\* One group changed, the others not.
LEMMA GroupUpdate ==
    ASSUME Typed, NEW g \in DOMAIN groups, NEW r \in GroupRecords, groups' = [groups EXCEPT ![g] = r]
    PROVE  /\ groups' \in Seq(GroupRecords) /\ Len(groups') = Len(groups) /\ DOMAIN groups' = DOMAIN groups
           /\ groups'[g] = r
           /\ \A h \in DOMAIN groups : h # g => groups'[h] = groups[h]
  BY DEF Typed

\* A group record without its variables.
LEMMA EmptiedGroup ==
    ASSUME NEW h \in GroupRecords
    PROVE  LET e == [h EXCEPT !.ungrouped = TRUE, !.vars = <<>>]
               z == [h EXCEPT !.ungrouped = TRUE, !.vars = <<>>, !.alive = FALSE] IN
           e \in GroupRecords /\ e.vars = <<>> /\ z \in GroupRecords /\ z.vars = <<>>
  <1>1. ASSUME NEW q \in Seq(Vars)
        PROVE  LET e == [h EXCEPT !.ungrouped = TRUE, !.vars = q]
                   z == [h EXCEPT !.ungrouped = TRUE, !.vars = q, !.alive = FALSE] IN
               e \in GroupRecords /\ e.vars = q /\ z \in GroupRecords /\ z.vars = q
    BY Zenon DEF GroupRecords
  <1>2. <<>> \in Seq(Vars)
    OBVIOUS
  <1>. QED
    BY Zenon, <1>1, <1>2

\* The destructor of v: its record, and its group, which no longer has variables.
LEMMA LeaveEffect ==
    ASSUME Typed, NEW v \in Vars, Leave(v)
    PROVE  /\ var' \in [Vars -> VarRecords]
           /\ var'[v].state = "dead" /\ var'[v].group = NoGroup
           /\ \A u \in Vars : u # v => var'[u] = var[u]
           /\ groups' \in Seq(GroupRecords) /\ Len(groups') = Len(groups) /\ DOMAIN groups' = DOMAIN groups
           /\ \A g \in DOMAIN groups :
                /\ g # var[v].group => groups'[g] = groups[g]
                /\ g = var[v].group => groups'[g].vars = <<>>
                /\ groups'[g].ungrouped \/ ~groups'[g].alive => groups'[g].vars = <<>>
  <1>. DEFINE r == [var[v] EXCEPT !.state = "dead", !.group = NoGroup]
              g == var[v].group
              u == UnGroup(groups[g], v)
  <1>1. var[v] \in VarRecords /\ r \in VarRecords /\ r.state = "dead" /\ r.group = NoGroup
    <2>1. var[v] \in VarRecords
      BY DEF Typed
    <2>. QED
      BY Zenon, <2>1 DEF VarRecords, NoGroup
  <1>2. var' = [var EXCEPT ![v] = r]
    BY Zenon DEF Leave, Typed
  <1>. HIDE DEF r
  <1>3. /\ var' \in [Vars -> VarRecords]
        /\ var'[v].state = "dead" /\ var'[v].group = NoGroup
        /\ \A w \in Vars : w # v => var'[w] = var[w]
    BY Zenon, <1>1, <1>2, VarUpdate
  <1>4. CASE g = NoGroup \/ Dangling(v)
    <2>1. groups' = groups
      BY <1>4 DEF Leave
    <2>2. ASSUME NEW h \in DOMAIN groups, h = g PROVE groups[h].vars = <<>>
      <3>1. h # NoGroup
        BY DEF Typed, NoGroup
      <3>. QED
        BY <1>4, <2>2, <3>1 DEF Dangling, Typed
    <2>. QED
      BY <1>3, <2>1, <2>2 DEF Typed
  <1>5. CASE ~(g = NoGroup \/ Dangling(v))
    <2>1. g \in DOMAIN groups
      BY <1>5 DEF Typed, NoGroup
    <2>2. groups[g] \in GroupRecords
      BY <2>1 DEF Typed
    <2>3. u \in GroupRecords /\ u.vars = <<>>
      <3>1. CASE groups[g].ungrouped
        BY <2>1, <2>2, <3>1 DEF UnGroup, Typed
      <3>2. CASE ~groups[g].ungrouped
        <4>1. u = [groups[g] EXCEPT !.ungrouped = TRUE, !.vars = <<>>]
          BY <3>2 DEF UnGroup
        <4>2. ASSUME NEW h \in GroupRecords
              PROVE  LET e == [h EXCEPT !.ungrouped = TRUE, !.vars = <<>>] IN e \in GroupRecords /\ e.vars = <<>>
          BY Zenon, EmptiedGroup
        <4>. HIDE DEF u, g
        <4>. QED
          BY Zenon, <2>2, <4>1, <4>2
      <3>. QED
        BY <3>1, <3>2
    <2>4. groups' = [groups EXCEPT ![g] = u]
      BY <1>5 DEF Leave
    <2>. HIDE DEF u
    <2>5. /\ groups' \in Seq(GroupRecords) /\ Len(groups') = Len(groups) /\ DOMAIN groups' = DOMAIN groups
          /\ groups'[g].vars = <<>>
          /\ \A h \in DOMAIN groups : h # g => groups'[h] = groups[h]
      BY Zenon, <2>1, <2>3, <2>4, GroupUpdate
    <2>. QED
      BY <1>3, <2>5 DEF Typed
  <1>. QED
    BY <1>4, <1>5

\* createGroup: each variable of the list gets the new group and its place in the list.
LEMMA NewGroupEffect ==
    ASSUME Typed, NEW s \in Seq(Vars), \A i, j \in DOMAIN s : s[i] = s[j] => i = j, NewGroup(s)
    PROVE  LET n == Len(groups) + 1 IN
           /\ var' \in [Vars -> VarRecords]
           /\ \A v \in Vars : /\ var'[v].state = var[v].state
                              /\ v \notin Range(s) => var'[v] = var[v]
                              /\ v \in Range(s) => var'[v].group = n
           /\ \A k \in DOMAIN s : var'[s[k]].bit = (k - 1) % 256
           /\ groups' \in Seq(GroupRecords) /\ Len(groups') = n /\ DOMAIN groups' = DOMAIN groups \cup {n}
           /\ groups'[n].vars = s /\ groups'[n].alive /\ ~groups'[n].ungrouped
           /\ \A g \in DOMAIN groups : groups'[g] = groups[g]
  <1>. DEFINE n == Len(groups) + 1
              r == [vars |-> s, ungrouped |-> FALSE, changed |-> FALSE, alive |-> TRUE]
              B(v) == (PlaceOf(s, v) - 1) % 256
              R(v) == [var[v] EXCEPT !.group = n, !.bit = B(v), !.control = "Full"]
  <1>1. groups \in Seq(GroupRecords) /\ Len(groups) \in Nat
    BY DEF Typed
  <1>2. r \in GroupRecords /\ r.vars = s /\ r.alive /\ ~r.ungrouped
    BY DEF GroupRecords
  <1>3. groups' = Append(groups, r)
    BY DEF NewGroup
  <1>. HIDE DEF r
  <1>4. /\ groups' \in Seq(GroupRecords) /\ Len(groups') = n /\ DOMAIN groups' = DOMAIN groups \cup {n}
        /\ groups'[n] = r /\ \A g \in DOMAIN groups : groups'[g] = groups[g]
    BY <1>1, <1>2, <1>3
  <1>5. ASSUME NEW k \in DOMAIN s PROVE PlaceOf(s, s[k]) = k
    <2>1. PlaceOf(s, s[k]) \in DOMAIN s /\ s[PlaceOf(s, s[k])] = s[k]
      BY DEF PlaceOf
    <2>. QED
      BY <2>1
  <1>6. ASSUME NEW v \in Range(s) PROVE v \in Vars /\ B(v) \in Nat
    <2>1. PICK k \in DOMAIN s : v = s[k]
      BY DEF Range
    <2>2. PlaceOf(s, v) = k /\ k \in Nat /\ k > 0
      BY <1>5, <2>1
    <2>. QED
      BY <2>1, <2>2
  <1>7. var' = [v \in Vars |-> IF v \in Range(s) THEN R(v) ELSE var[v]]
    BY Zenon DEF NewGroup, Initialize
  <1>8. ASSUME NEW v \in Range(s)
        PROVE  R(v) \in VarRecords /\ R(v).state = var[v].state /\ R(v).group = n /\ R(v).bit = B(v)
    <2>1. var[v] \in VarRecords /\ B(v) \in Nat /\ n \in Nat
      BY <1>1, <1>6 DEF Typed
    <2>. HIDE DEF B, n
    <2>. QED
      BY Zenon, <2>1 DEF VarRecords
  <1>. HIDE DEF R, n
  <1>9. ASSUME NEW v \in Vars
        PROVE  /\ var'[v] \in VarRecords /\ var'[v].state = var[v].state
               /\ v \notin Range(s) => var'[v] = var[v]
               /\ v \in Range(s) => var'[v].group = n /\ var'[v].bit = B(v)
    <2>1. CASE v \in Range(s)
      <3>1. var'[v] = R(v)
        BY <1>7, <2>1
      <3>. QED
        BY <1>8, <2>1, <3>1
    <2>2. CASE v \notin Range(s)
      <3>1. var'[v] = var[v]
        BY <1>7, <2>2
      <3>. QED
        BY <2>2, <3>1 DEF Typed
    <2>. QED
      BY <2>1, <2>2
  <1>10. var' \in [Vars -> VarRecords]
    BY <1>7, <1>9
  <1>11. ASSUME NEW k \in DOMAIN s PROVE var'[s[k]].bit = (k - 1) % 256
    <2>1. s[k] \in Range(s)
      BY DEF Range
    <2>2. s[k] \in Vars
      BY <1>6, <2>1
    <2>. QED
      BY <1>5, <1>9, <2>1, <2>2
  <1>. QED
    BY <1>2, <1>4, <1>9, <1>10, <1>11 DEF n
----------------------------------------------------------------------------
\* A list in which no variable is twice.
LEMMA ListOnce ==
    ASSUME WaitingOnce, NEW t \in Threads
    PROVE  \A i, j \in DOMAIN built[t] : built[t][i] = built[t][j] => i = j
  BY DEF WaitingOnce

\* A step that keeps the lists of the groups, and state, group and bit of the variables.
LEMMA SameIndices ==
    ASSUME Typed, IndexNamesVariable, DOMAIN groups' = DOMAIN groups,
           \A g \in DOMAIN groups : groups'[g].vars = groups[g].vars,
           \A u \in Vars : var'[u].state = var[u].state /\ var'[u].group = var[u].group /\ var'[u].bit = var[u].bit
    PROVE  IndexNamesVariable'
  <1>. SUFFICES ASSUME NEW g \in DOMAIN groups, NEW k \in DOMAIN groups[g].vars
                PROVE  LET w == var'[groups[g].vars[k]] IN w.state = "alive" /\ w.group = g /\ w.bit = (k - 1) % 256
    BY DEF IndexNamesVariable
  <1>. DEFINE x == groups[g].vars[k]
  <1>1. x \in Vars
    <2>1. groups[g] \in GroupRecords
      BY DEF Typed
    <2>2. groups[g].vars \in Seq(Vars)
      BY <2>1 DEF GroupRecords
    <2>. QED
      BY <2>2
  <1>2. var[x].state = "alive" /\ var[x].group = g /\ var[x].bit = (k - 1) % 256
    BY DEF IndexNamesVariable
  <1>. QED
    BY <1>1, <1>2

\* Constructing a variable keeps the invariant.
LEMMA ConstructStep ==
    ASSUME IInv, NEW t \in Threads, NEW v \in Vars, Construct(t, v)
    PROVE  IInv'
  <1>. DEFINE r == [var[v] EXCEPT !.state = "alive"]
  <1>0. Typed /\ IndexNamesVariable /\ WaitingOnce
    BY DEF IInv
  <1>1. r \in VarRecords /\ r.state = "alive" /\ r.group = NoGroup
    <2>1. var[v] \in VarRecords /\ var[v].group = NoGroup
      BY <1>0 DEF Typed, Construct
    <2>. QED
      BY <2>1 DEF VarRecords
  <1>2. var' = [var EXCEPT ![v] = r] /\ groups' = groups
    BY DEF Construct
  <1>. HIDE DEF r
  <1>3. /\ var' \in [Vars -> VarRecords]
        /\ var'[v].state = "alive" /\ var'[v].group = NoGroup
        /\ \A u \in Vars : u # v => var'[u] = var[u]
    BY Zenon, <1>0, <1>1, <1>2, VarUpdate
  <1>4. \A u \in Threads : v \notin Range(built[u])
    BY <1>0 DEF Construct, WaitingOnce
  <1>. DEFINE s == built[t]  e == Append(s, v)
  <1>5. s \in Seq(Vars) /\ built' = [built EXCEPT ![t] = e]
    BY <1>0 DEF Construct, Typed
  <1>6. /\ e \in Seq(Vars) /\ DOMAIN s = 1 .. Len(s) /\ Len(s) \in Nat /\ DOMAIN e = 1 .. Len(s) + 1
        /\ e[Len(s) + 1] = v /\ \A i \in 1 .. Len(s) : e[i] = s[i]
    <2>1. s \in Seq(Vars)
      BY <1>5
    <2>. HIDE DEF s
    <2>. QED
      BY <2>1
  <1>7. /\ built'[t] = e /\ \A u \in Threads : u # t => built'[u] = built[u]
        /\ built' \in [Threads -> Seq(Vars)]
    BY <1>0, <1>5, <1>6 DEF Typed
  <1>. HIDE DEF e
  <1>8. Typed'
    <2>1. \A w \in Vars : var'[w].group \in 0 .. Len(groups) /\ (var'[w].state # "alive" => var'[w].group = NoGroup)
      <3>. SUFFICES ASSUME NEW w \in Vars
                    PROVE  var'[w].group \in 0 .. Len(groups) /\ (var'[w].state # "alive" => var'[w].group = NoGroup)
        OBVIOUS
      <3>1. var[v].group \in 0 .. Len(groups) /\ var[v].group = NoGroup
        BY <1>0 DEF Typed, Construct
      <3>2. CASE w = v
        BY <1>3, <3>1, <3>2
      <3>3. CASE w # v
        BY <1>0, <1>3, <3>3 DEF Typed
      <3>. QED
        BY <3>2, <3>3
    <2>. QED
      BY <1>0, <1>2, <1>3, <1>7, <2>1 DEF Typed
  <1>9. IndexNamesVariable'
    <2>. SUFFICES ASSUME NEW g \in DOMAIN groups, NEW k \in DOMAIN groups[g].vars
                  PROVE  LET w == var'[groups[g].vars[k]] IN w.state = "alive" /\ w.group = g /\ w.bit = (k - 1) % 256
      BY <1>2 DEF IndexNamesVariable
    <2>. DEFINE x == groups[g].vars[k]
    <2>1. var[x].state = "alive" /\ var[x].group = g /\ var[x].bit = (k - 1) % 256
      BY <1>0 DEF IndexNamesVariable
    <2>2. x \in Vars
      <3>1. groups[g] \in GroupRecords
        BY <1>0 DEF Typed
      <3>2. groups[g].vars \in Seq(Vars)
        BY <3>1 DEF GroupRecords
      <3>. QED
        BY <3>2
    <2>3. x # v
      BY <2>1 DEF Construct
    <2>. QED
      BY <1>3, <2>1, <2>2, <2>3
  <1>10. Range(e) = Range(s) \cup {v}
    <2>1. \A x \in Range(e) : x \in Range(s) \cup {v}
      <3>. SUFFICES ASSUME NEW i \in 1 .. Len(s) + 1 PROVE e[i] \in Range(s) \cup {v}
        BY <1>6 DEF Range
      <3>1. i \in 1 .. Len(s) \/ i = Len(s) + 1
        BY <1>6
      <3>. QED
        BY <1>6, <3>1 DEF Range
    <2>2. \A x \in Range(s) : x \in Range(e)
      BY <1>6 DEF Range
    <2>3. v \in Range(e)
      BY <1>6 DEF Range
    <2>. QED
      BY <2>1, <2>2, <2>3
  <1>11. \A w \in Vars : (var'[w].state = "alive" /\ var'[w].group = NoGroup) <=> \E u \in Threads : w \in Range(built'[u])
    <2>. SUFFICES ASSUME NEW w \in Vars
                  PROVE  (var'[w].state = "alive" /\ var'[w].group = NoGroup) <=> \E u \in Threads : w \in Range(built'[u])
      OBVIOUS
    <2>1. CASE w = v
      BY <1>3, <1>7, <1>10, <2>1
    <2>2. CASE w # v
      <3>1. \A u \in Threads : w \in Range(built'[u]) <=> w \in Range(built[u])
        BY <1>7, <1>10, <2>2
      <3>. QED
        BY <1>0, <1>3, <2>2, <3>1 DEF WaitingOnce
    <2>. QED
      BY <2>1, <2>2
  <1>12. ASSUME NEW a \in Threads, NEW b \in Threads, NEW i \in DOMAIN built'[a], NEW j \in DOMAIN built'[b],
                built'[a][i] = built'[b][j]
         PROVE  a = b /\ i = j
    <2>1. \A c \in Threads : \A k \in DOMAIN built'[c] :
            (k \in DOMAIN built[c] /\ built'[c][k] = built[c][k]) \/ (c = t /\ k = Len(s) + 1 /\ built'[c][k] = v)
      <3>. SUFFICES ASSUME NEW c \in Threads, NEW k \in DOMAIN built'[c]
                    PROVE  \/ k \in DOMAIN built[c] /\ built'[c][k] = built[c][k]
                           \/ c = t /\ k = Len(s) + 1 /\ built'[c][k] = v
        OBVIOUS
      <3>1. CASE c = t
        <4>1. k \in 1 .. Len(s) \/ k = Len(s) + 1
          BY <1>6, <1>7, <3>1
        <4>. QED
          BY <1>6, <1>7, <3>1, <4>1
      <3>2. CASE c # t
        BY <1>7, <3>2
      <3>. QED
        BY <3>1, <3>2
    <2>2. \A c \in Threads : \A k \in DOMAIN built[c] : built[c][k] # v
      BY <1>4 DEF Range
    <2>. QED
      BY <1>0, <1>12, <2>1, <2>2 DEF WaitingOnce
  <1>. QED
    BY <1>8, <1>9, <1>11, <1>12 DEF IInv, WaitingOnce

\* Destroying a variable keeps the invariant: its group, if it has one, goes with it.
LEMMA DestructStep ==
    ASSUME IInv, NEW t \in Threads, NEW v \in Vars, Destruct(t, v)
    PROVE  IInv'
  <1>0. Typed /\ IndexNamesVariable /\ WaitingOnce
    BY DEF IInv
  <1>1. /\ var' \in [Vars -> VarRecords]
        /\ var'[v].state = "dead" /\ var'[v].group = NoGroup
        /\ \A u \in Vars : u # v => var'[u] = var[u]
        /\ groups' \in Seq(GroupRecords) /\ Len(groups') = Len(groups) /\ DOMAIN groups' = DOMAIN groups
        /\ \A g \in DOMAIN groups :
             /\ g # var[v].group => groups'[g] = groups[g]
             /\ g = var[v].group => groups'[g].vars = <<>>
             /\ groups'[g].ungrouped \/ ~groups'[g].alive => groups'[g].vars = <<>>
    BY <1>0, LeaveEffect DEF Destruct
  <1>. DEFINE s == built[t]  e == Erase(s, v)
  <1>2. s \in Seq(Vars) /\ built' = [built EXCEPT ![t] = IF v \in Range(s) THEN e ELSE s]
    BY <1>0 DEF Destruct, Typed
  <1>3. v \in Range(s) => /\ e \in Seq(Vars) /\ Range(e) = Range(s) \ {v}
                          /\ \A i, j \in DOMAIN e : e[i] = e[j] => i = j
    BY <1>0, <1>2, ListOnce, EraseEffect
  <1>. HIDE DEF e
  <1>4. built' \in [Threads -> Seq(Vars)]
    BY <1>0, <1>2, <1>3 DEF Typed
  <1>5. Typed'
    <2>1. \A w \in Vars : var'[w].group \in 0 .. Len(groups) /\ (var'[w].state # "alive" => var'[w].group = NoGroup)
      <3>. SUFFICES ASSUME NEW w \in Vars
                    PROVE  var'[w].group \in 0 .. Len(groups) /\ (var'[w].state # "alive" => var'[w].group = NoGroup)
        OBVIOUS
      <3>1. CASE w = v
        <4>1. Len(groups) \in Nat
          BY <1>0 DEF Typed
        <4>. QED
          BY <1>1, <3>1, <4>1 DEF NoGroup
      <3>2. CASE w # v
        BY <1>0, <1>1, <3>2 DEF Typed
      <3>. QED
        BY <3>1, <3>2
    <2>. QED
      BY <1>1, <1>4, <2>1 DEF Typed
  <1>6. IndexNamesVariable'
    <2>. SUFFICES ASSUME NEW g \in DOMAIN groups, NEW k \in DOMAIN groups'[g].vars
                  PROVE  LET w == var'[groups'[g].vars[k]] IN w.state = "alive" /\ w.group = g /\ w.bit = (k - 1) % 256
      BY <1>1 DEF IndexNamesVariable
    <2>1. g # var[v].group
      BY <1>1
    <2>2. groups'[g] = groups[g]
      BY <1>1, <2>1
    <2>. DEFINE x == groups[g].vars[k]
    <2>3. var[x].state = "alive" /\ var[x].group = g /\ var[x].bit = (k - 1) % 256
      BY <1>0, <2>2 DEF IndexNamesVariable
    <2>4. x \in Vars
      <3>1. groups[g] \in GroupRecords
        BY <1>0 DEF Typed
      <3>2. groups[g].vars \in Seq(Vars)
        BY <3>1 DEF GroupRecords
      <3>. QED
        BY <2>2, <3>2
    <2>. QED
      BY <1>1, <2>1, <2>2, <2>3, <2>4
  <1>7. ASSUME NEW u \in Threads PROVE Range(built'[u]) = Range(built[u]) \ {v}
    <2>1. CASE u = t
      BY <1>0, <1>2, <1>3, <2>1 DEF Typed
    <2>2. CASE u # t
      <3>1. built'[u] = built[u]
        BY <1>0, <1>2, <2>2 DEF Typed
      <3>2. v \notin Range(built[u])
        <4>1. CASE var[v].group # NoGroup
          BY <1>0, <4>1 DEF WaitingOnce
        <4>2. CASE v \in Range(s)
          BY <1>0, <2>2, <4>2 DEF WaitingOnce, Range
        <4>. QED
          BY <4>1, <4>2 DEF Destruct
      <3>. QED
        BY <3>1, <3>2
    <2>. QED
      BY <2>1, <2>2
  <1>8. \A w \in Vars : (var'[w].state = "alive" /\ var'[w].group = NoGroup) <=> \E u \in Threads : w \in Range(built'[u])
    <2>. SUFFICES ASSUME NEW w \in Vars
                  PROVE  (var'[w].state = "alive" /\ var'[w].group = NoGroup) <=> \E u \in Threads : w \in Range(built'[u])
      OBVIOUS
    <2>1. CASE w = v
      BY Zenon, <1>1, <1>7, <2>1
    <2>2. CASE w # v
      <3>1. \A u \in Threads : w \in Range(built'[u]) <=> w \in Range(built[u])
        BY <1>7, <2>2
      <3>. QED
        BY <1>0, <1>1, <2>2, <3>1 DEF WaitingOnce
    <2>. QED
      BY <2>1, <2>2
  <1>9. ASSUME NEW a \in Threads, NEW b \in Threads, NEW i \in DOMAIN built'[a], NEW j \in DOMAIN built'[b],
               built'[a][i] = built'[b][j]
        PROVE  a = b /\ i = j
    <2>1. a = b
      <3>1. built'[a][i] \in Range(built[a]) /\ built'[a][i] \in Range(built[b])
        <4>1. built'[a][i] \in Range(built'[a]) /\ built'[b][j] \in Range(built'[b])
          BY DEF Range
        <4>. QED
          BY <1>7, <1>9, <4>1
      <3>2. PICK k \in DOMAIN built[a], m \in DOMAIN built[b] : built[a][k] = built[b][m]
        BY <3>1 DEF Range
      <3>. QED
        BY <1>0, <3>2 DEF WaitingOnce
    <2>2. CASE a = t /\ v \in Range(s)
      <3>1. built'[a] = e
        BY <1>0, <1>2, <2>2 DEF Typed
      <3>. QED
        BY <1>3, <1>9, <2>1, <2>2, <3>1
    <2>3. CASE ~(a = t /\ v \in Range(s))
      <3>1. built'[a] = built[a]
        BY <1>0, <1>2, <2>3 DEF Typed
      <3>. QED
        BY <1>0, <1>9, <2>1, <3>1 DEF WaitingOnce
    <2>. QED
      BY <2>1, <2>2, <2>3
  <1>. QED
    BY <1>5, <1>6, <1>8, <1>9 DEF IInv, WaitingOnce

\* createGroup keeps the invariant: what the list holds is alive and in no group, so that no
\* older group loses a variable.
LEMMA CreateStep ==
    ASSUME IInv, NEW t \in Threads, CreateGroup(t)
    PROVE  IInv'
  <1>. DEFINE s == built[t]  n == Len(groups) + 1
  <1>0. Typed /\ IndexNamesVariable /\ WaitingOnce
    BY DEF IInv
  <1>1. s \in Seq(Vars) /\ NewGroup(s) /\ built' = [built EXCEPT ![t] = <<>>] /\ Len(groups) \in Nat
    BY <1>0 DEF Typed, CreateGroup, AddNewPendingGroup
  <1>2. \A i, j \in DOMAIN s : s[i] = s[j] => i = j
    BY <1>0, ListOnce
  <1>3. /\ var' \in [Vars -> VarRecords]
        /\ \A v \in Vars : /\ var'[v].state = var[v].state
                           /\ v \notin Range(s) => var'[v] = var[v]
                           /\ v \in Range(s) => var'[v].group = n
        /\ \A k \in DOMAIN s : var'[s[k]].bit = (k - 1) % 256
        /\ groups' \in Seq(GroupRecords) /\ Len(groups') = n /\ DOMAIN groups' = DOMAIN groups \cup {n}
        /\ groups'[n].vars = s /\ groups'[n].alive /\ ~groups'[n].ungrouped
        /\ \A g \in DOMAIN groups : groups'[g] = groups[g]
    BY Zenon, <1>0, <1>1, <1>2, NewGroupEffect
  <1>4. Range(s) \subseteq Vars /\ \A v \in Range(s) : var[v].state = "alive" /\ var[v].group = NoGroup
    BY <1>0, <1>1, RangeOfList DEF WaitingOnce
  <1>5. /\ built' \in [Threads -> Seq(Vars)] /\ built'[t] = <<>>
        /\ \A u \in Threads : u # t => built'[u] = built[u]
    BY <1>0, <1>1 DEF Typed
  <1>6. DOMAIN groups = 1 .. Len(groups)
    BY <1>0 DEF Typed
  <1>7. Typed'
    <2>1. ASSUME NEW w \in Vars
          PROVE  var'[w].group \in 0 .. n /\ (var'[w].state # "alive" => var'[w].group = NoGroup)
      <3>1. CASE w \in Range(s)
        BY <1>1, <1>3, <1>4, <3>1
      <3>2. CASE w \notin Range(s)
        <4>1. var'[w] = var[w]
          BY <1>3, <3>2
        <4>2. var[w].group \in 0 .. Len(groups) /\ (var[w].state # "alive" => var[w].group = NoGroup)
          BY <1>0 DEF Typed
        <4>. QED
          BY <1>1, <4>1, <4>2
      <3>. QED
        BY <3>1, <3>2
    <2>2. ASSUME NEW g \in DOMAIN groups'
          PROVE  groups'[g].ungrouped \/ ~groups'[g].alive => groups'[g].vars = <<>>
      BY <1>0, <1>3 DEF Typed
    <2>. HIDE DEF n
    <2>. QED
      BY <1>3, <1>5, <2>1, <2>2 DEF Typed
  <1>8. IndexNamesVariable'
    <2>. SUFFICES ASSUME NEW g \in DOMAIN groups \cup {n}, NEW k \in DOMAIN groups'[g].vars
                  PROVE  LET w == var'[groups'[g].vars[k]] IN w.state = "alive" /\ w.group = g /\ w.bit = (k - 1) % 256
      BY <1>3 DEF IndexNamesVariable
    <2>1. CASE g = n
      <3>1. s[k] \in Range(s) /\ groups'[g].vars[k] = s[k] /\ k \in DOMAIN s
        BY <1>3, <2>1 DEF Range
      <3>. QED
        BY <1>3, <1>4, <2>1, <3>1
    <2>2. CASE g \in DOMAIN groups
      <3>. DEFINE x == groups[g].vars[k]
      <3>0. groups'[g] = groups[g]
        BY <1>3, <2>2
      <3>1. var[x].state = "alive" /\ var[x].group = g /\ var[x].bit = (k - 1) % 256
        BY <1>0, <2>2, <3>0 DEF IndexNamesVariable
      <3>2. x \in Vars
        <4>1. groups[g] \in GroupRecords
          BY <1>0, <2>2 DEF Typed
        <4>2. groups[g].vars \in Seq(Vars)
          BY <4>1 DEF GroupRecords
        <4>. QED
          BY <3>0, <4>2
      <3>3. x \notin Range(s)
        <4>1. g # NoGroup
          BY <1>6, <2>2 DEF NoGroup
        <4>. QED
          BY <1>4, <3>1, <4>1
      <3>4. var'[x] = var[x]
        BY <1>3, <3>2, <3>3
      <3>. QED
        BY <3>0, <3>1, <3>4
    <2>. QED
      BY <2>1, <2>2
  <1>9. ASSUME NEW w \in Vars
        PROVE  (var'[w].state = "alive" /\ var'[w].group = NoGroup) <=> \E u \in Threads : w \in Range(built'[u])
    <2>1. CASE w \in Range(s)
      <3>1. var'[w].group # NoGroup
        BY <1>1, <1>3, <2>1 DEF NoGroup
      <3>2. ASSUME NEW u \in Threads PROVE w \notin Range(built'[u])
        <4>1. CASE u = t
          BY <1>5, <4>1 DEF Range
        <4>2. CASE u # t
          BY <1>0, <1>5, <2>1, <4>2 DEF WaitingOnce, Range
        <4>. QED
          BY <4>1, <4>2
      <3>. QED
        BY <3>1, <3>2
    <2>2. CASE w \notin Range(s)
      <3>1. \A u \in Threads : w \in Range(built'[u]) <=> w \in Range(built[u])
        <4>1. w \notin Range(built'[t])
          BY <1>5 DEF Range
        <4>. QED
          BY <1>5, <2>2, <4>1
      <3>2. var'[w] = var[w]
        BY <1>3, <2>2
      <3>. QED
        BY <1>0, <3>1, <3>2 DEF WaitingOnce
    <2>. QED
      BY <2>1, <2>2
  <1>10. ASSUME NEW a \in Threads, NEW b \in Threads, NEW i \in DOMAIN built'[a], NEW j \in DOMAIN built'[b],
                built'[a][i] = built'[b][j]
         PROVE  a = b /\ i = j
    <2>1. a # t /\ b # t
      BY <1>5
    <2>. QED
      <3>1. built'[a] = built[a] /\ built'[b] = built[b]
        BY <1>5, <2>1
      <3>. QED
        BY <1>0, <1>10, <3>1 DEF WaitingOnce
  <1>. QED
    BY <1>7, <1>8, <1>9, <1>10 DEF IInv, WaitingOnce

\* A change of the value keeps the invariant: it changes a flag of the variable and of its group.
LEMMA ChangedStep ==
    ASSUME IInv, NEW v \in Vars, MarkChanged(v)
    PROVE  IInv'
  <1>. DEFINE r == [var[v] EXCEPT !.changed = TRUE]
              h == var[v].group
              c == GroupChanged(groups[h])
  <1>0. Typed /\ IndexNamesVariable /\ WaitingOnce
    BY DEF IInv
  <1>1. r \in VarRecords /\ r.state = var[v].state /\ r.group = var[v].group /\ r.bit = var[v].bit
    <2>1. var[v] \in VarRecords
      BY <1>0 DEF Typed
    <2>. QED
      BY Zenon, <2>1 DEF VarRecords
  <1>2. var' = [var EXCEPT ![v] = r] /\ built' = built
    BY DEF MarkChanged
  <1>. HIDE DEF r
  <1>3. var' \in [Vars -> VarRecords] /\ var'[v] = r /\ \A u \in Vars : u # v => var'[u] = var[u]
    BY <1>0, <1>1, <1>2 DEF Typed
  <1>4. \A u \in Vars : var'[u].state = var[u].state /\ var'[u].group = var[u].group /\ var'[u].bit = var[u].bit
    BY <1>1, <1>3
  <1>5. /\ groups' \in Seq(GroupRecords) /\ Len(groups') = Len(groups) /\ DOMAIN groups' = DOMAIN groups
        /\ \A g \in DOMAIN groups : /\ groups'[g].vars = groups[g].vars
                                    /\ groups'[g].ungrouped = groups[g].ungrouped
                                    /\ groups'[g].alive = groups[g].alive
    <2>1. CASE h = NoGroup \/ Dangling(v)
      <3>1. groups' = groups
        BY <2>1 DEF MarkChanged
      <3>. QED
        BY <1>0, <3>1 DEF Typed
    <2>2. CASE ~(h = NoGroup \/ Dangling(v))
      <3>1. h \in DOMAIN groups
        BY <1>0, <2>2 DEF Typed, NoGroup
      <3>2. groups[h] \in GroupRecords
        BY <1>0, <3>1 DEF Typed
      <3>3. /\ c \in GroupRecords /\ c.vars = groups[h].vars
            /\ c.ungrouped = groups[h].ungrouped /\ c.alive = groups[h].alive
        BY Zenon, <3>2 DEF GroupChanged, GroupRecords
      <3>4. groups' = [groups EXCEPT ![h] = c]
        BY <2>2 DEF MarkChanged
      <3>. HIDE DEF c, h
      <3>. QED
        BY Zenon, <1>0, <3>1, <3>3, <3>4, GroupUpdate
    <2>. QED
      BY <2>1, <2>2
  <1>6. Typed'
    BY <1>0, <1>2, <1>3, <1>4, <1>5 DEF Typed
  <1>7. IndexNamesVariable'
    BY <1>0, <1>4, <1>5, SameIndices
  <1>8. WaitingOnce'
    BY <1>0, <1>2, <1>4 DEF WaitingOnce
  <1>. QED
    BY <1>6, <1>7, <1>8 DEF IInv

\* The end of the Network keeps the invariant: no group has variables.
LEMMA GoneStep == ASSUME IInv, NetworkGone PROVE IInv'
  <1>. DEFINE z(g) == [groups[g] EXCEPT !.ungrouped = TRUE, !.vars = <<>>, !.alive = FALSE]
  <1>0. Typed /\ IndexNamesVariable /\ WaitingOnce
    BY DEF IInv
  <1>1. \A g \in DOMAIN groups : z(g) \in GroupRecords /\ z(g).vars = <<>>
    <2>. SUFFICES ASSUME NEW g \in DOMAIN groups PROVE z(g) \in GroupRecords /\ z(g).vars = <<>>
      BY Zenon
    <2>1. groups[g] \in GroupRecords
      BY <1>0 DEF Typed
    <2>. QED
      BY Zenon, <2>1, EmptiedGroup
  <1>2. groups' = [g \in DOMAIN groups |-> z(g)] /\ UNCHANGED <<var, built>>
    BY Zenon DEF NetworkGone
  <1>3. DOMAIN groups = 1 .. Len(groups) /\ Len(groups) \in Nat
    BY <1>0 DEF Typed
  <1>. HIDE DEF z
  <1>4. /\ groups' \in Seq(GroupRecords) /\ Len(groups') = Len(groups) /\ DOMAIN groups' = DOMAIN groups
        /\ \A g \in DOMAIN groups : groups'[g].vars = <<>>
    BY <1>1, <1>2, <1>3
  <1>5. Typed'
    BY <1>0, <1>2, <1>4 DEF Typed
  <1>6. IndexNamesVariable'
    BY <1>4 DEF IndexNamesVariable
  <1>7. WaitingOnce'
    BY <1>0, <1>2 DEF WaitingOnce
  <1>. QED
    BY <1>5, <1>6, <1>7 DEF IInv
----------------------------------------------------------------------------
\* The invariant holds from the start.
LEMMA Initially == Init => IInv
  <1>. SUFFICES ASSUME Init PROVE IInv
    OBVIOUS
  <1>1. Typed
    BY DEF Init, Typed, VarRecords, GroupRecords, NoGroup, NoBit
  <1>2. IndexNamesVariable
    BY DEF Init, IndexNamesVariable
  <1>3. WaitingOnce
    BY DEF Init, WaitingOnce, Range
  <1>. QED
    BY <1>1, <1>2, <1>3 DEF IInv

\* Every step keeps it.
LEMMA Inductive == ASSUME IInv, [Next]_vars PROVE IInv'
  <1>1. ASSUME NEW t \in Threads, NEW v \in Vars, Construct(t, v) PROVE IInv'
    BY <1>1, ConstructStep
  <1>2. ASSUME NEW t \in Threads, NEW v \in Vars, Destruct(t, v) PROVE IInv'
    BY <1>2, DestructStep
  <1>3. ASSUME NEW t \in Threads, CreateGroup(t) PROVE IInv'
    BY <1>3, CreateStep
  <1>4. ASSUME NEW v \in Vars, MarkChanged(v) PROVE IInv'
    BY <1>4, ChangedStep
  <1>5. CASE NetworkGone
    BY <1>5, GoneStep
  <1>6. CASE UNCHANGED <<var, built, groups>>
    BY <1>6 DEF IInv, Typed, IndexNamesVariable, WaitingOnce, NoGroup
  <1>7. ASSUME NEW v \in Vars, ChangeOwner(v) PROVE UNCHANGED <<var, built, groups>>
    BY <1>7 DEF ChangeOwner
  <1>8. TryProcessPendingGroups \/ UNCHANGED vars => UNCHANGED <<var, built, groups>>
    BY DEF TryProcessPendingGroups, vars
  <1>. QED
    BY <1>1, <1>2, <1>3, <1>4, <1>5, <1>6, <1>7, <1>8 DEF Next

\* Indices name variables: through any order of constructors, createGroup and destructors, on
\* any threads, an index into a group that was not dissolved names a living variable of it.
THEOREM IndicesName == Spec => []IndexNamesVariable
  <1>1. IInv => IndexNamesVariable
    BY DEF IInv
  <1>. QED
    BY <1>1, Initially, Inductive, PTL DEF Spec

\* Lists are exact: the living variables without a group are those in the lists of the threads,
\* each in one list and once, so that createGroup takes neither a dead variable nor one of a
\* group.
THEOREM ListsExact == Spec => []WaitingOnce
  <1>1. IInv => WaitingOnce
    BY DEF IInv
  <1>. QED
    BY <1>1, Initially, Inductive, PTL DEF Spec
=============================================================================
