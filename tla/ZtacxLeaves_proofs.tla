-------------------------- MODULE ZtacxLeaves_proofs --------------------------
(***************************************************************************)
(* Proofs about ZtacxLeaves, for any set of leaves and commands: its       *)
(* types, that the registry's pointers are what the registrations make of  *)
(* them, however often a leaf is registered, when a walk of the registry   *)
(* comes to an end, and that every leaf listed when power_off was called   *)
(* is asleep before the system goes off.                                   *)
(***************************************************************************)
EXTENDS ZtacxLeaves, FiniteSetTheorems, Common_proofs

\* The list operations keep the pointers' types.
LEMMA ListTypes ==
  ASSUME LeavesAssumption, NEW r \in S!List, NEW l \in Leaf
  PROVE  S!SlistInit(r) \in S!List /\ S!SlistAppend(r, l) \in S!List
BY DEF S!List, S!SlistInit, S!SlistAppend

\* A pointer of the list is a leaf or NULL.
LEMMA NextType ==
  ASSUME TypeOK, NEW l \in Leaf
  PROVE  list.next[l] \in Leaf \cup {NULL}
BY DEF TypeOK, S!List

\* Emptying the registry keeps the types of the list.
LEMMA EmptyTypes ==
  ASSUME TypeOK, EmptyRegistry
  PROVE  list' \in S!List /\ order' \in Seq(Leaf)
<1>1. list' \in S!List
  BY DEF EmptyRegistry, TypeOK, S!List, S!SlistInit
<1>2. order' \in Seq(Leaf)
  BY DEF EmptyRegistry
<1>3. QED
  BY <1>1, <1>2

\* What a registration leaves behind has the right types.
LEMMA RegisterTypes ==
  ASSUME LeavesAssumption, TypeOK, NEW l \in Leaf, Register(l)
  PROVE  /\ list' \in S!List /\ order' \in Seq(Leaf)
         /\ ready' \in [Leaf -> BOOLEAN] /\ running' \in [Leaf -> BOOLEAN]
<1>1. list' \in S!List
  BY ListTypes DEF TypeOK, Register
<1>2. order' \in Seq(Leaf)
  BY DEF TypeOK, Register
<1>3. ready' \in [Leaf -> BOOLEAN] /\ running' \in [Leaf -> BOOLEAN]
  BY DEF TypeOK, Register
<1>4. QED
  BY <1>1, <1>2, <1>3

\* What a callback's result leaves behind has the right types.
LEMMA ResultTypes ==
  ASSUME TypeOK, NEW l \in Leaf, NEW rc \in {0, -1},
         Inited(l, rc) \/ Started(l, rc) \/ Stopped(l, rc)
  PROVE  ready' \in [Leaf -> BOOLEAN] /\ running' \in [Leaf -> BOOLEAN]
<1>1. /\ (ready[l] \/ rc = 0) \in BOOLEAN
      /\ (running[l] \/ rc = 0) \in BOOLEAN
      /\ (running[l] /\ rc # 0) \in BOOLEAN
  OBVIOUS
<1>2. CASE Inited(l, rc)
  BY <1>1, <1>2 DEF TypeOK, Inited
<1>3. CASE Started(l, rc)
  BY <1>1, <1>3 DEF TypeOK, Started
<1>4. CASE Stopped(l, rc)
  BY <1>1, <1>4 DEF TypeOK, Stopped
<1>5. QED
  BY <1>2, <1>3, <1>4

\* A callback is called for a leaf.
TargetIsLeaf == shell \in {"get", "init", "start", "stop"} => target \in Leaf

\* Every variable of the lifecycle's model keeps its type.
THEOREM TypeCorrect == Spec => []TypeOK
<1>1. Init => TypeOK /\ TargetIsLeaf
  BY LeavesAssumption DEF Init, TypeOK, TargetIsLeaf, S!List
<1>2. TypeOK /\ TargetIsLeaf /\ [Next]_vars => TypeOK' /\ TargetIsLeaf'
  <2> SUFFICES ASSUME TypeOK, TargetIsLeaf, [Next]_vars
               PROVE  TypeOK' /\ TargetIsLeaf'
    OBVIOUS
  <2> USE DEF TargetIsLeaf, flags, off
  <2>1. CASE BootInit
    <3>1. list' \in S!List /\ order' \in Seq(Leaf)
      BY <2>1, EmptyTypes DEF BootInit
    <3>2. QED
      BY <2>1, <3>1 DEF BootInit, TypeOK
  <2>2. CASE NextLevel
    BY <2>2 DEF NextLevel, TypeOK
  <2>3. CASE BootReturns
    <3>1. calling \in Leaf
      BY <2>3 DEF BootReturns, TypeOK
    <3>2. ready' \in [Leaf -> BOOLEAN] /\ running' \in [Leaf -> BOOLEAN]
      BY <2>3, <3>1, ResultTypes DEF BootReturns
    <3>3. QED
      BY <2>3, <3>2 DEF BootReturns, TypeOK
  <2>4. ASSUME NEW l \in Leaf, BootLeafInit(l)
        PROVE  TypeOK' /\ TargetIsLeaf'
    BY <2>4, RegisterTypes, LeavesAssumption DEF BootLeafInit, TypeOK
  <2>5. ASSUME NEW l \in Leaf, BootStart(l)
        PROVE  TypeOK' /\ TargetIsLeaf'
    BY <2>5 DEF BootStart, TypeOK
  <2>6. CASE ShellBoot
    <3>1. list' \in S!List /\ order' \in Seq(Leaf)
      BY <2>6, EmptyTypes DEF ShellBoot
    <3>2. QED
      BY <2>6, <3>1 DEF ShellBoot, TypeOK
  <2>7. CASE ShellStatus \/ StatusEnds
    BY <2>7 DEF ShellStatus, StatusEnds, TypeOK
  <2>8. CASE PowerOff
    <3>1. list.head \in Leaf \cup {NULL}
      BY DEF TypeOK, S!List
    <3>2. QED
      BY <2>8, <3>1 DEF PowerOff, TypeOK
  <2>9. ASSUME NEW l \in Leaf, ShellGet(l)
        PROVE  TypeOK' /\ TargetIsLeaf'
    BY <2>9 DEF ShellGet, TypeOK
  <2>10. CASE GetFails
    BY <2>10 DEF GetFails, TypeOK
  <2>11. CASE ShellInit
    <3>1. target \in Leaf
      BY <2>11 DEF ShellInit, Found
    <3>2. QED
      BY <2>11, <3>1, RegisterTypes, LeavesAssumption DEF ShellInit, TypeOK
  <2>12. CASE ShellStart \/ ShellStop
    BY <2>12 DEF ShellStart, ShellStop, Found, TypeOK
  <2>13. CASE ShellReturns
    <3>1. shell \in {"init", "start", "stop"} /\ target \in Leaf
      BY <2>13 DEF ShellReturns
    <3>2. ready' \in [Leaf -> BOOLEAN] /\ running' \in [Leaf -> BOOLEAN]
      BY <2>13, <3>1, ResultTypes DEF ShellReturns
    <3>3. QED
      BY <2>13, <3>2 DEF ShellReturns, TypeOK
  <2>14. CASE PreSleep
    <3>1. cursor \in Leaf
      BY <2>14 DEF PreSleep, TypeOK
    <3>2. list.next[cursor] \in Leaf \cup {NULL}
      BY <3>1, NextType
    <3>3. QED
      BY <2>14, <3>1, <3>2 DEF PreSleep, NextLeaf, TypeOK
  <2>15. CASE SystemOff
    BY <2>15 DEF SystemOff, TypeOK
  <2>16. CASE UNCHANGED vars
    BY <2>16 DEF vars, TypeOK
  <2>17. QED
    BY <2>1, <2>2, <2>3, <2>4, <2>5, <2>6, <2>7, <2>8, <2>9, <2>10, <2>11, <2>12, <2>13,
       <2>14, <2>15, <2>16 DEF Next, Boot, Runs, Shell
<1>3. QED
  BY <1>1, <1>2, PTL DEF Spec

\* What a step does to the registry: nothing, empty it, or append a leaf.
LEMMA RegistrySteps ==
  ASSUME TypeOK, [Next]_vars
  PROVE  \/ UNCHANGED <<list, order>>
         \/ EmptyRegistry
         \/ \E l \in Leaf : Register(l)
<1> USE DEF off, flags
<1>1. CASE BootInit \/ ShellBoot
  BY <1>1 DEF BootInit, ShellBoot
<1>2. CASE ShellInit
  <2>1. ShellInit => target \in Leaf \/ target = NULL
    BY DEF TypeOK
  <2>2. target \in S!Listed(list) /\ Register(target)
    BY <1>2 DEF ShellInit, Found
  <2>3. target # NULL
    BY <2>2 DEF S!Listed
  <2>4. QED
    BY <1>2, <2>1, <2>2, <2>3
<1>3. ASSUME NEW l \in Leaf, BootLeafInit(l) \/ BootStart(l) \/ ShellGet(l)
      PROVE  UNCHANGED <<list, order>> \/ Register(l)
  BY <1>3 DEF BootLeafInit, BootStart, ShellGet
<1>4. CASE NextLevel \/ BootReturns \/ ShellStatus \/ StatusEnds \/ GetFails
  BY <1>4 DEF NextLevel, BootReturns, ShellStatus, StatusEnds, GetFails
<1>5. CASE ShellStart \/ ShellStop \/ ShellReturns \/ PowerOff \/ PreSleep \/ SystemOff
  BY <1>5 DEF ShellStart, ShellStop, ShellReturns, PowerOff, PreSleep, SystemOff
<1>6. CASE UNCHANGED vars
  BY <1>6 DEF vars
<1>7. QED
  BY <1>1, <1>2, <1>3, <1>4, <1>5, <1>6 DEF Next, Boot, Runs, Shell

-----------------------------------------------------------------------------
\* Appending a leaf keeps the pointers in step with the sequence of the registrations,
\* whether or not it is in the list already (sys_slist_append).
LEMMA AppendSpells ==
  ASSUME LeavesAssumption, NEW r \in S!List, NEW s \in Seq(Leaf), NEW l \in Leaf,
         S!Spells(r, s)
  PROVE  S!Spells(S!SlistAppend(r, l), Append(s, l))
<1> DEFINE t == Append(s, l)
<1>1. /\ t \in Seq(Leaf) /\ Len(t) = Len(s) + 1 /\ t[Len(t)] = l /\ t # << >>
      /\ Len(s) \in Nat
      /\ \A i \in 1..Len(s) : t[i] = s[i] /\ s[i] \in Leaf
  OBVIOUS
<1>2. CASE s = << >>
  <2>1. r.tail = NULL /\ Len(t) = 1 /\ t[1] = l
    BY <1>2, <1>1 DEF S!Spells
  <2>2. S!SlistAppend(r, l) = [head |-> l, tail |-> l, next |-> [r.next EXCEPT ![l] = NULL]]
    BY <2>1 DEF S!SlistAppend
  <2>3. [r.next EXCEPT ![l] = NULL][l] = NULL
    BY DEF S!List
  <2>4. ~S!Twice(t) /\ S!Follower(t, 1) = NULL
    BY <2>1 DEF S!Twice, S!Follower
  <2>5. \A i \in 1..Len(t) : i = 1
    BY <2>1
  <2>6. t # << >> /\ t[Len(t)] = l
    BY <1>1
  <2> DEFINE m == [r.next EXCEPT ![l] = NULL]
  <2>7. S!Spells([head |-> l, tail |-> l, next |-> m], t)
    <3> HIDE DEF t, m
    <3>1. m[l] = NULL
      BY <2>3 DEF m
    <3>2. QED
      BY <2>1, <2>4, <2>5, <2>6, <3>1 DEF S!Spells
  <2>8. QED
    BY <2>2, <2>7
<1>3. CASE s # << >>
  <2>1. Len(s) \in Nat \ {0} /\ r.head = s[1] /\ r.tail = s[Len(s)] /\ r.tail \in Leaf
    BY <1>3, <1>1 DEF S!Spells
  <2> DEFINE n == [[r.next EXCEPT ![l] = NULL] EXCEPT ![r.tail] = l]
  <2>2. S!SlistAppend(r, l) = [head |-> r.head, tail |-> l, next |-> n]
    BY <2>1, LeavesAssumption DEF S!SlistAppend, LeavesAssumption
  <2>3. /\ n[r.tail] = l /\ (l # r.tail => n[l] = NULL)
        /\ \A x \in Leaf \ {l, r.tail} : n[x] = r.next[x]
    BY <2>1 DEF S!List
  <2>4. S!Twice(t) <=> l = r.tail
    BY <1>1, <2>1 DEF S!Twice
  <2>5. ASSUME NEW i \in 1..Len(t), S!IsLast(t, i)
        PROVE  n[t[i]] = S!Follower(t, i)
    <3> HIDE DEF t, n
    <3>1. CASE i = Len(t)
      BY <3>1, <2>3, <2>4, <1>1 DEF S!Follower
    <3>2. CASE i = Len(s)
      <4>1. t[i] = r.tail /\ t[i + 1] = l /\ i < Len(t)
        BY <3>2, <2>1, <1>1
      <4>2. QED
        BY <4>1, <2>3 DEF S!Follower
    <3>3. CASE i # Len(t) /\ i # Len(s)
      <4>1. i \in 1..Len(s) /\ i + 1 \in 1..Len(s) /\ i < Len(t) /\ i < Len(s)
        BY <3>3, <2>1, <1>1
      <4>2. Len(t) \in (i + 1)..Len(t) /\ Len(s) \in (i + 1)..Len(t)
        BY <4>1, <2>1, <1>1
      <4>3. t[i] # l /\ t[i] # r.tail
        BY <4>2, <2>5, <2>1, <1>1 DEF S!IsLast
      <4>4. ASSUME NEW j \in (i + 1)..Len(s)
            PROVE  s[j] # s[i]
        <5>1. j \in (i + 1)..Len(t) /\ j \in 1..Len(s)
          BY <4>1, <1>1
        <5>2. t[j] # t[i]
          BY <5>1, <2>5 DEF S!IsLast
        <5>3. QED
          BY <4>1, <5>1, <5>2, <1>1
      <4>5. r.next[s[i]] = s[i + 1]
        <5>1. S!IsLast(s, i)
          BY <4>4 DEF S!IsLast
        <5>2. QED
          BY <4>1, <5>1 DEF S!Spells, S!Follower
      <4>6. n[t[i]] = r.next[s[i]] /\ t[i + 1] = s[i + 1]
        BY <4>1, <4>3, <2>3, <1>1
      <4>7. QED
        BY <4>1, <4>5, <4>6 DEF S!Follower
    <3>4. QED
      BY <3>1, <3>2, <3>3
  <2>6. t[1] = s[1]
    BY <2>1, <1>1
  <2>7. QED
    <3> HIDE DEF t, n
    <3>1. S!Spells(S!SlistAppend(r, l), t)
      BY <2>1, <2>2, <2>5, <2>6, <1>1 DEF S!Spells
    <3>2. QED
      BY <3>1 DEF t
<1>4. QED
  BY <1>2, <1>3

\* The registry's pointers are what the registrations since the last ztacx_init make
\* of them, for any leaves, registered any number of times by the boot and by command
\* (ztacx_leaf_sys_init, ztacx_init).
THEOREM RegistryStaysList == Spec => []RegistryIsList
<1>1. Init => RegistryIsList
  BY DEF Init, RegistryIsList, S!Spells
<1>2. LeavesAssumption /\ TypeOK /\ RegistryIsList /\ [Next]_vars => RegistryIsList'
  <2> SUFFICES ASSUME LeavesAssumption, TypeOK, RegistryIsList, [Next]_vars
               PROVE  RegistryIsList'
    OBVIOUS
  <2>1. ASSUME EmptyRegistry
        PROVE  RegistryIsList'
    BY <2>1 DEF EmptyRegistry, RegistryIsList, S!Spells, S!SlistInit, TypeOK, S!List
  <2>2. ASSUME NEW l \in Leaf, Register(l)
        PROVE  RegistryIsList'
    <3>1. order \in Seq(Leaf) /\ list \in S!List
      BY DEF TypeOK
    <3>2. S!Spells(S!SlistAppend(list, l), Append(order, l))
      BY <3>1, AppendSpells DEF RegistryIsList
    <3>3. QED
      BY <2>2, <3>2 DEF RegistryIsList, Register
  <2>3. ASSUME UNCHANGED <<list, order>>
        PROVE  RegistryIsList'
    BY <2>3 DEF RegistryIsList
  <2>4. QED
    BY <2>1, <2>2, <2>3, RegistrySteps
<1>3. QED
  BY <1>1, <1>2, TypeCorrect, LeavesAssumption, PTL DEF Spec

-----------------------------------------------------------------------------
\* A traversal follows the pointers (SYS_SLIST_FOR_EACH_CONTAINER).
LEMMA Traversed ==
  ASSUME LeavesAssumption, NEW r \in S!List
  PROVE  /\ S!Visit(r)[0] = r.head
         /\ \A i \in Nat : S!Visit(r)[i + 1] = IF S!Visit(r)[i] = NULL THEN NULL
                                               ELSE r.next[S!Visit(r)[i]]
<1> DEFINE X == Leaf \cup {NULL}
           s == [x \in X |-> IF x = NULL THEN NULL ELSE r.next[x]]
           at == S!Visit(r)
<1>1. r.head \in X /\ s \in [X -> X]
  BY DEF S!List
<1>2. PICK f \in [Nat -> X] : f[0] = r.head /\ \A i \in Nat : f[i + 1] = s[f[i]]
  <2> HIDE DEF X, s
  <2>1. QED
    <3>1. \A x \in X : \A g \in [X -> X] :
            \E f \in [Nat -> X] : f[0] = x /\ \A i \in Nat : f[i + 1] = g[f[i]]
      BY Iterated
    <3>2. QED
      BY <1>1, <3>1
<1>3. f = [i \in Nat |-> IF i = 0 THEN r.head ELSE IF f[i - 1] = NULL THEN NULL ELSE r.next[f[i - 1]]]
  <2>1. ASSUME NEW i \in Nat, i # 0
        PROVE  f[i] = IF f[i - 1] = NULL THEN NULL ELSE r.next[f[i - 1]]
    <3>1. i - 1 \in Nat /\ (i - 1) + 1 = i
      BY <2>1
    <3>2. f[i] = s[f[i - 1]] /\ f[i - 1] \in X
      BY <1>2, <3>1
    <3>3. QED
      BY <3>2
  <2> HIDE DEF s
  <2>2. QED
    BY <1>2, <2>1
<1>4. at = [i \in Nat |-> IF i = 0 THEN r.head
                          ELSE IF at[i - 1] = NULL THEN NULL ELSE r.next[at[i - 1]]]
  BY <1>3 DEF S!Visit
<1> HIDE DEF at
<1>5. at[0] = r.head
  BY <1>4
<1>6. ASSUME NEW i \in Nat
      PROVE  at[i + 1] = IF at[i] = NULL THEN NULL ELSE r.next[at[i]]
  <2>1. i + 1 \in Nat /\ i + 1 # 0 /\ (i + 1) - 1 = i
    OBVIOUS
  <2>2. QED
    BY <1>4, <2>1
<1>7. QED
  BY <1>5, <1>6 DEF at

\* A set of leaves that has the list's first one, and with each the next one, has all
\* of them.
LEMMA ClosedHasAll ==
  ASSUME LeavesAssumption, NEW r \in S!List, NEW L \in SUBSET Leaf,
         r.head \in L \cup {NULL}, \A l \in L : r.next[l] \in L \cup {NULL}
  PROVE  S!Listed(r) \subseteq L
<1> DEFINE T == {i \in Nat : S!Visit(r)[i] \in L \cup {NULL}}
<1>1. 0 \in T
  BY Traversed
<1>2. ASSUME NEW i \in Nat, i \in T
      PROVE  i + 1 \in T
  <2>1. S!Visit(r)[i + 1] \in L \cup {NULL}
    BY <1>2, Traversed
  <2>2. QED
    BY <2>1
<1>3. T = Nat
  <2>1. T \in SUBSET Nat
    OBVIOUS
  <2> HIDE DEF T
  <2>2. QED
    BY <1>1, <1>2, <2>1, Induction
<1>4. QED
  <2>1. \A y \in S!Listed(r) : y # NULL /\ \E i \in Nat : y = S!Visit(r)[i]
    BY DEF S!Listed
  <2>2. \A i \in Nat : S!Visit(r)[i] \in L \cup {NULL}
    BY <1>3
  <2>3. QED
    BY <2>1, <2>2

\* How far the walk of the registry has come: of the registry as it was when power_off
\* was called, the leaves whose pre_sleep has been called are followed by one another
\* and by the one that the walk looks at.  What the boot appends meanwhile is appended
\* behind that: only the end of the list, whose leaf has no successor but itself, gets
\* another one.
Walk ==
  IF shell = "pre_sleep"
  THEN /\ asked.head \in slept \cup {cursor, NULL}
       /\ \A l \in slept : asked.next[l] \in slept \cup {cursor, NULL}
       /\ \A l \in Leaf : asked.next[l] \in {list.next[l], l, NULL}
       /\ power = "off" => cursor = NULL
  ELSE slept = {} /\ power # "off"

\* A leaf that the boot has not registered yet is nowhere in the registry.
Unlisted ==
  phase \in {"init", "leaf_init"} =>
    \A l \in IF phase = "init" THEN Leaf ELSE todo :
      /\ list.head # l /\ list.tail # l /\ list.next[l] = NULL
      /\ \A x \in Leaf : list.next[x] # l

\* What is appended becomes the successor of the end of the list and of nothing else.
LEMMA AppendNext ==
  ASSUME LeavesAssumption, TypeOK, NEW l \in Leaf, Register(l)
  PROVE  /\ list' \in S!List /\ list'.head \in {list.head, l} /\ list'.tail = l
         /\ \A x \in Leaf : /\ x # l /\ x # list.tail => list'.next[x] = list.next[x]
                           /\ list'.next[x] \in {list.next[x], NULL, l}
         /\ list.tail # NULL => list'.next[list.tail] = l
         /\ l # list.tail => list'.next[l] = NULL
<1>1. list' = S!SlistAppend(list, l) /\ list \in S!List
  BY DEF Register, TypeOK
<1>2. list' \in S!List
  BY <1>1, ListTypes
<1>3. CASE list.tail = NULL
  BY <1>1, <1>2, <1>3, LeavesAssumption DEF S!SlistAppend, S!List, LeavesAssumption
<1>4. CASE list.tail # NULL
  BY <1>1, <1>2, <1>4 DEF S!SlistAppend, S!List
<1>5. QED
  BY <1>3, <1>4

\* Registering a leaf that is not one of those left to the boot keeps those out.
LEMMA StillUnlisted ==
  ASSUME LeavesAssumption, TypeOK, NEW l \in Leaf, Register(l), NEW x \in Leaf, x # l,
         list.head # x, list.tail # x, list.next[x] = NULL, \A y \in Leaf : list.next[y] # x
  PROVE  /\ list'.head # x /\ list'.tail # x /\ list'.next[x] = NULL
         /\ \A y \in Leaf : list'.next[y] # x
<1>1. x # NULL
  BY DEF LeavesAssumption
<1>2. QED
  BY <1>1, AppendNext

\* So it is at every step of the boot and of the shell.
LEMMA BootKeepsOrder == Spec => []Unlisted
<1>1. Init => Unlisted
  BY LeavesAssumption DEF Init, Unlisted, LeavesAssumption
<1>2. LeavesAssumption /\ TypeOK /\ Unlisted /\ [Next]_vars => Unlisted'
  <2> SUFFICES ASSUME LeavesAssumption, TypeOK, Unlisted, [Next]_vars
               PROVE  Unlisted'
    OBVIOUS
  <2> USE DEF off, flags
  <2>1. ASSUME UNCHANGED <<phase, todo, list>>
        PROVE  Unlisted'
    BY <2>1 DEF Unlisted
  <2>2. CASE BootInit \/ ShellBoot
    <3>1. /\ list'.head = NULL /\ list'.tail = NULL /\ list'.next = list.next
      BY <2>2 DEF BootInit, ShellBoot, EmptyRegistry, S!SlistInit, TypeOK, S!List
    <3>2. NULL \notin Leaf /\ todo \subseteq Leaf
      BY DEF LeavesAssumption, TypeOK
    <3>3. CASE BootInit
      BY <3>1, <3>2, <3>3 DEF Unlisted, BootInit
    <3>4. CASE ShellBoot
      BY <3>1, <3>2, <3>4 DEF Unlisted, ShellBoot
    <3>5. QED
      BY <2>2, <3>3, <3>4
  <2>3. ASSUME NEW l \in Leaf, BootLeafInit(l)
        PROVE  Unlisted'
    <3>1. phase = "leaf_init" /\ phase' = phase /\ todo' = todo \ {l} /\ Register(l)
      BY <2>3 DEF BootLeafInit
    <3>2. QED
      BY <3>1, StillUnlisted DEF Unlisted, TypeOK
  <2>4. CASE ShellInit
    <3> DEFINE L == Leaf \ (IF phase = "init" THEN Leaf ELSE todo)
    <3>1. target \in Leaf /\ target \in S!Listed(list) /\ Register(target) /\ UNCHANGED <<phase, todo>>
      BY <2>4 DEF ShellInit, Found, S!Listed, TypeOK
    <3>2. CASE phase \in {"init", "leaf_init"}
      <4>1. list.head \in L \cup {NULL} /\ \A l \in L : list.next[l] \in L \cup {NULL}
        BY <3>2, NextType DEF Unlisted, TypeOK, S!List
      <4>2. S!Listed(list) \subseteq L
        BY <4>1, ClosedHasAll DEF TypeOK
      <4>3. QED
        BY <3>1, <3>2, <4>2, StillUnlisted DEF Unlisted, TypeOK
    <3>3. CASE phase \notin {"init", "leaf_init"}
      BY <3>1, <3>3 DEF Unlisted
    <3>4. QED
      BY <3>2, <3>3
  <2>5. CASE NextLevel
    BY <2>5 DEF NextLevel, Unlisted
  <2>6. ASSUME NEW l \in Leaf, BootStart(l) \/ ShellGet(l)
        PROVE  Unlisted'
    BY <2>1, <2>6 DEF BootStart, ShellGet, Unlisted
  <2>7. CASE BootReturns \/ ShellStatus \/ StatusEnds \/ GetFails
    BY <2>1, <2>7 DEF BootReturns, ShellStatus, StatusEnds, GetFails
  <2>8. CASE ShellStart \/ ShellStop \/ ShellReturns \/ PowerOff \/ PreSleep \/ SystemOff
    BY <2>1, <2>8 DEF ShellStart, ShellStop, ShellReturns, PowerOff, PreSleep, SystemOff
  <2>9. CASE UNCHANGED vars
    BY <2>1, <2>9 DEF vars
  <2>10. QED
    BY <2>2, <2>3, <2>4, <2>5, <2>6, <2>7, <2>8, <2>9 DEF Next, Boot, Runs, Shell
<1>3. QED
  BY <1>1, <1>2, TypeCorrect, LeavesAssumption, PTL DEF Spec

\* The leaf at the end of the list has no successor but itself.
LEMMA EndOfList ==
  ASSUME TypeOK, RegistryIsList, list.tail # NULL
  PROVE  list.tail \in Leaf /\ list.next[list.tail] \in {NULL, list.tail}
<1>1. order # << >> /\ list.tail = order[Len(order)] /\ Len(order) \in 1..Len(order)
  BY DEF RegistryIsList, S!Spells, TypeOK
<1>2. S!IsLast(order, Len(order))
  BY <1>1 DEF S!IsLast, TypeOK
<1>3. list.next[list.tail] = S!Follower(order, Len(order))
  BY <1>1, <1>2 DEF RegistryIsList, S!Spells
<1>4. QED
  BY <1>1, <1>3 DEF S!Follower, TypeOK

\* Every leaf that was listed when power_off was called is asleep before the system goes
\* off, also after one that failed, and with the boot registering others (power_off,
\* ztacx_pre_sleep).
THEOREM AllAreAsleep == Spec => []AllSleptBeforeOff
<1>1. Init => Walk
  BY DEF Init, Walk
<1>2. LeavesAssumption /\ TypeOK /\ RegistryIsList /\ Unlisted /\ Walk /\ [Next]_vars => Walk'
  <2> SUFFICES ASSUME LeavesAssumption, TypeOK, RegistryIsList, Unlisted, Walk, [Next]_vars
               PROVE  Walk'
    OBVIOUS
  <2> USE DEF off, flags
  <2>1. ASSUME UNCHANGED <<list, off>>, shell # "pre_sleep", shell' # "pre_sleep"
        PROVE  Walk'
    BY <2>1 DEF Walk
  <2>2. ASSUME list'.next = list.next, UNCHANGED <<shell, off>>
        PROVE  Walk'
    BY <2>2 DEF Walk
  <2>3. CASE BootInit \/ ShellBoot
    BY <2>2, <2>3 DEF BootInit, ShellBoot, EmptyRegistry, S!SlistInit, TypeOK, S!List
  <2>4. ASSUME NEW l \in Leaf, BootLeafInit(l)
        PROVE  Walk'
    <3>1. phase = "leaf_init" /\ l \in todo /\ Register(l) /\ UNCHANGED <<shell, off>>
      BY <2>4 DEF BootLeafInit
    <3>2. ASSUME NEW x \in Leaf, asked.next[x] \in {list.next[x], x, NULL}
          PROVE  asked.next[x] \in {list'.next[x], x, NULL}
      <4>1. CASE x = l
        BY <3>1, <3>2, <4>1 DEF Unlisted
      <4>2. CASE x = list.tail
        BY <3>2, <4>2, EndOfList, LeavesAssumption DEF LeavesAssumption
      <4>3. CASE x # l /\ x # list.tail
        BY <3>1, <3>2, <4>3, AppendNext
      <4>4. QED
        BY <4>1, <4>2, <4>3
    <3>3. QED
      BY <3>1, <3>2 DEF Walk
  <2>5. CASE ShellInit
    BY <2>5 DEF ShellInit, Found, Walk
  <2>6. CASE NextLevel \/ BootReturns
    BY <2>2, <2>6 DEF NextLevel, BootReturns
  <2>7. ASSUME NEW l \in Leaf, BootStart(l)
        PROVE  Walk'
    BY <2>2, <2>7 DEF BootStart
  <2>8. ASSUME NEW l \in Leaf, ShellGet(l)
        PROVE  Walk'
    BY <2>1, <2>8 DEF ShellGet, Types
  <2>9. CASE ShellStatus \/ StatusEnds
    BY <2>1, <2>9 DEF ShellStatus, StatusEnds, Types
  <2>10. CASE GetFails
    BY <2>10 DEF GetFails, Walk
  <2>11. CASE ShellStart \/ ShellStop
    BY <2>1, <2>11 DEF ShellStart, ShellStop, Found
  <2>12. CASE ShellReturns
    BY <2>1, <2>12 DEF ShellReturns
  <2>13. CASE PowerOff
    BY <2>13 DEF PowerOff, Types, ShellRuns, Walk
  <2>14. CASE PreSleep
    <3>1. /\ slept' = slept \cup {cursor} /\ cursor' = list.next[cursor] /\ cursor \in Leaf
          /\ shell = "pre_sleep" /\ power = "on"
          /\ UNCHANGED <<list, shell, asked, power>>
      BY <2>14 DEF PreSleep, NextLeaf, TypeOK, ShellRuns
    <3>2. asked.next[cursor] \in {cursor', cursor, NULL}
      BY <3>1 DEF Walk
    <3>3. QED
      BY <3>1, <3>2 DEF Walk
  <2>15. CASE SystemOff
    BY <2>15 DEF SystemOff, Walk
  <2>16. CASE UNCHANGED vars
    BY <2>2, <2>16 DEF vars
  <2>17. QED
    BY <2>3, <2>4, <2>5, <2>6, <2>7, <2>8, <2>9, <2>10, <2>11, <2>12, <2>13, <2>14, <2>15, <2>16
    DEF Next, Boot, Runs, Shell
<1>3. LeavesAssumption /\ TypeOK /\ Walk => AllSleptBeforeOff
  <2> SUFFICES ASSUME LeavesAssumption, TypeOK, Walk, power = "off"
               PROVE  S!Listed(asked) \subseteq slept
    BY DEF AllSleptBeforeOff
  <2>1. asked.head \in slept \cup {NULL} /\ \A l \in slept : asked.next[l] \in slept \cup {NULL}
    BY DEF Walk
  <2>2. QED
    BY <2>1, ClosedHasAll DEF TypeOK
<1>4. QED
  BY <1>1, <1>2, <1>3, TypeCorrect, RegistryStaysList, BootKeepsOrder, LeavesAssumption, PTL DEF Spec

-----------------------------------------------------------------------------
\* The leaves registered since the last ztacx_init.
Registered(s) == {s[i] : i \in 1..Len(s)}

\* A leaf that was registered was so for a last time.
LEMMA LastPlace ==
  ASSUME NEW s \in Seq(Leaf), NEW x \in Registered(s)
  PROVE  \E i \in 1..Len(s) : s[i] = x /\ S!IsLast(s, i)
<1> DEFINE T == {Len(s) - i : i \in {k \in 1..Len(s) : s[k] = x}}
<1>0. Len(s) \in Nat
  OBVIOUS
<1>1. T \in SUBSET Nat /\ T # {}
  BY <1>0 DEF Registered
<1>2. PICK m \in T : \A y \in T : m <= y
  <2> HIDE DEF T
  <2>1. QED
    BY <1>1, Least
<1>3. PICK i \in 1..Len(s) : s[i] = x /\ m = Len(s) - i
  BY <1>2
<1>4. ASSUME NEW j \in (i + 1)..Len(s), s[j] = x
      PROVE  FALSE
  <2>1. j \in 1..Len(s) /\ Len(s) - j \in T
    BY <1>0, <1>4
  <2>2. m <= Len(s) - j
    <3> HIDE DEF T
    <3>1. QED
      BY <1>2, <2>1
  <2>3. QED
    <3> HIDE DEF T
    <3>1. QED
      BY <1>0, <1>3, <2>2
<1>5. QED
  BY <1>3, <1>4 DEF S!IsLast

\* The walk of a registry whose last leaf was registered twice in a row never ends: it
\* meets a registered leaf at each step.
LEMMA TwiceIsEndless ==
  ASSUME LeavesAssumption, NEW r \in S!List, NEW s \in Seq(Leaf), S!Spells(r, s), S!Twice(s)
  PROVE  \A i \in Nat : S!Visit(r)[i] \in Leaf
<1> DEFINE T == {i \in Nat : S!Visit(r)[i] \in Registered(s)}
<1>0. Len(s) \in Nat /\ Len(s) > 1 /\ s # << >> /\ Registered(s) \subseteq Leaf /\ NULL \notin Leaf
  BY DEF S!Twice, Registered, LeavesAssumption
<1>1. 0 \in T
  <2>1. r.head = s[1] /\ 1 \in 1..Len(s)
    BY <1>0 DEF S!Spells
  <2>2. QED
    BY <2>1, Traversed DEF Registered
<1>2. ASSUME NEW i \in Nat, i \in T
      PROVE  i + 1 \in T
  <2>1. PICK k \in 1..Len(s) : s[k] = S!Visit(r)[i] /\ S!IsLast(s, k)
    BY <1>2, LastPlace
  <2>2. S!Visit(r)[i + 1] = S!Follower(s, k)
    BY <1>0, <1>2, <2>1, Traversed DEF S!Spells
  <2>3. S!Follower(s, k) \in Registered(s)
    <3>1. CASE k < Len(s)
      <4>1. k + 1 \in 1..Len(s)
        BY <1>0, <3>1
      <4>2. QED
        BY <3>1, <4>1 DEF S!Follower, Registered
    <3>2. CASE ~(k < Len(s))
      BY <3>2 DEF S!Follower, Registered
    <3>3. QED
      BY <3>1, <3>2
  <2>4. QED
    BY <2>2, <2>3
<1>3. T = Nat
  <2>1. T \in SUBSET Nat
    OBVIOUS
  <2> HIDE DEF T
  <2>2. QED
    BY <1>1, <1>2, <2>1, Induction
<1>4. QED
  BY <1>0, <1>3

\* The leaves met so far, of which there are n, were all registered for the last time
\* before place k, or there.
Met(s, n, k) ==
  \E W \in SUBSET Leaf :
    /\ IsFiniteSet(W) /\ Cardinality(W) = n
    /\ \A w \in W : \E j \in 1..k : s[j] = w /\ S!IsLast(s, j)

\* Any other registry's walk ends, because it goes from the last place of a leaf to a
\* later one and so meets no leaf twice.
LEMMA OtherwiseItEnds ==
  ASSUME LeavesAssumption, NEW r \in S!List, NEW s \in Seq(Leaf), S!Spells(r, s), ~S!Twice(s)
  PROVE  S!Visit(r)[Cardinality(Leaf)] = NULL
<1> DEFINE Far(i) == \/ S!Visit(r)[i] = NULL
                     \/ \E k \in 1..Len(s) : s[k] = S!Visit(r)[i] /\ S!IsLast(s, k) /\ Met(s, i + 1, k)
           T == {i \in Nat : Far(i)}
<1>0. Len(s) \in Nat /\ NULL \notin Leaf /\ \A i \in 1..Len(s) : s[i] \in Leaf
  BY DEF LeavesAssumption
<1>1. Far(0)
  <2>1. CASE s = << >>
    BY <2>1, Traversed DEF S!Spells
  <2>2. CASE s # << >>
    <3>1. S!Visit(r)[0] = s[1] /\ 1 \in 1..Len(s)
      BY <1>0, <2>2, Traversed DEF S!Spells
    <3>2. PICK k \in 1..Len(s) : s[k] = s[1] /\ S!IsLast(s, k)
      BY <3>1, LastPlace DEF Registered
    <3>3. IsFiniteSet({s[1]}) /\ Cardinality({s[1]}) = 1
      BY FS_Singleton
    <3>4. Met(s, 0 + 1, k)
      BY <1>0, <3>1, <3>2, <3>3 DEF Met
    <3>5. QED
      BY <3>1, <3>2, <3>4
  <2>3. QED
    BY <2>1, <2>2
<1>2. ASSUME NEW i \in Nat, Far(i)
      PROVE  Far(i + 1)
  <2>1. CASE S!Visit(r)[i] = NULL
    BY <2>1, Traversed
  <2>2. CASE S!Visit(r)[i] # NULL
    <3>1. PICK k \in 1..Len(s) : s[k] = S!Visit(r)[i] /\ S!IsLast(s, k) /\ Met(s, i + 1, k)
      BY <1>2, <2>2
    <3>2. S!Visit(r)[i + 1] = S!Follower(s, k)
      BY <2>2, <3>1, Traversed DEF S!Spells
    <3>3. CASE ~(k < Len(s))
      BY <3>2, <3>3 DEF S!Follower
    <3>4. CASE k < Len(s)
      <4>1. k + 1 \in 1..Len(s) /\ S!Visit(r)[i + 1] = s[k + 1] /\ s[k + 1] \in Leaf
        BY <1>0, <3>2, <3>4 DEF S!Follower
      <4>2. PICK h \in 1..Len(s) : s[h] = s[k + 1] /\ S!IsLast(s, h)
        BY <4>1, LastPlace DEF Registered
      <4>3. h > k
        <5>1. CASE h <= k
          <6>1. k + 1 \in (h + 1)..Len(s)
            BY <1>0, <4>1, <5>1
          <6>2. QED
            BY <4>2, <6>1 DEF S!IsLast
        <5>2. QED
          BY <5>1
      <4>4. PICK W \in SUBSET Leaf :
              /\ IsFiniteSet(W) /\ Cardinality(W) = i + 1
              /\ \A w \in W : \E j \in 1..k : s[j] = w /\ S!IsLast(s, j)
        BY <3>1 DEF Met
      <4>5. s[h] \notin W
        <5> SUFFICES ASSUME NEW j \in 1..k, s[j] = s[h], S!IsLast(s, j)
                     PROVE  FALSE
          BY <4>4
        <5>1. h \in (j + 1)..Len(s)
          BY <1>0, <4>3
        <5>2. QED
          BY <5>1 DEF S!IsLast
      <4>6. IsFiniteSet(W \cup {s[h]}) /\ Cardinality(W \cup {s[h]}) = (i + 1) + 1
        BY <4>4, <4>5, FS_AddElement
      <4>7. ASSUME NEW w \in W \cup {s[h]}
            PROVE  \E j \in 1..h : s[j] = w /\ S!IsLast(s, j)
        BY <1>0, <4>2, <4>3, <4>4
      <4>8. Met(s, (i + 1) + 1, h)
        BY <4>1, <4>2, <4>6, <4>7 DEF Met
      <4>9. QED
        BY <4>1, <4>2, <4>8
    <3>5. QED
      BY <3>3, <3>4
  <2>3. QED
    BY <2>1, <2>2
<1>3. T = Nat
  <2> HIDE DEF Far
  <2>1. T \in SUBSET Nat /\ 0 \in T /\ \A i \in Nat : i \in T => i + 1 \in T
    BY <1>1, <1>2
  <2> HIDE DEF T
  <2>2. QED
    BY <2>1, Induction
<1>4. IsFiniteSet(Leaf) /\ Cardinality(Leaf) \in Nat
  BY FS_CardinalityType DEF LeavesAssumption
<1>5. ASSUME NEW k, Met(s, Cardinality(Leaf) + 1, k)
      PROVE  FALSE
  <2>1. PICK W \in SUBSET Leaf : IsFiniteSet(W) /\ Cardinality(W) = Cardinality(Leaf) + 1
    BY <1>5 DEF Met
  <2>2. Cardinality(W) <= Cardinality(Leaf)
    BY <1>4, FS_Subset
  <2>3. QED
    BY <1>4, <2>1, <2>2
<1>6. Far(Cardinality(Leaf))
  <2> HIDE DEF Far
  <2>1. QED
    BY <1>3, <1>4
<1>7. QED
  BY <1>5, <1>6

\* A walk of the registry comes to an end unless the leaf registered last was registered
\* twice in a row, for any number of leaves and registrations (ztacx_leaf_get,
\* cmd_ztacx_status, ztacx_pre_sleep).
THEOREM WalksComeToAnEnd == Spec => []WalksEnd
<1>1. LeavesAssumption /\ TypeOK /\ RegistryIsList => WalksEnd
  <2> SUFFICES ASSUME LeavesAssumption, TypeOK, RegistryIsList
               PROVE  S!Endless(list) <=> S!Twice(order)
    BY DEF WalksEnd
  <2>1. list \in S!List /\ order \in Seq(Leaf) /\ S!Spells(list, order)
    BY DEF TypeOK, RegistryIsList
  <2>2. S!Cardinality(Leaf) = Cardinality(Leaf)
    BY Zenon DEF S!Cardinality, Cardinality
  <2>3. Cardinality(Leaf) \in Nat /\ NULL \notin Leaf
    BY FS_CardinalityType DEF LeavesAssumption
  <2>4. S!Endless(list) <=> S!Visit(list)[Cardinality(Leaf)] # NULL
    BY <2>2 DEF S!Endless
  <2>5. QED
    BY <2>1, <2>3, <2>4, TwiceIsEndless, OtherwiseItEnds
<1>2. QED
  BY <1>1, TypeCorrect, RegistryStaysList, LeavesAssumption, PTL

=============================================================================
