------------------------------ MODULE SysSlist ------------------------------
(***************************************************************************)
(* Zephyr's singly linked list, as the leaf registry uses it: a head and a *)
(* tail pointer, and a next pointer inside every node.  A list is a record *)
(* of the three, so that appending a node twice does to it what the        *)
(* pointer assignments do.                                                 *)
(***************************************************************************)
EXTENDS Naturals, Sequences, FiniteSets

CONSTANTS
  Node,   \* what is linked
  NULL    \* the NULL pointer, no node

List == [head : Node \cup {NULL}, tail : Node \cup {NULL}, next : [Node -> Node \cup {NULL}]]

\* sys_slist_init: the pointers inside the nodes stay as they are.
SlistInit(l) == [l EXCEPT !.head = NULL, !.tail = NULL]

\* sys_slist_append.
SlistAppend(l, n) ==
  LET cleared == [l.next EXCEPT ![n] = NULL]
  IN  IF l.tail = NULL
      THEN [head |-> n, tail |-> n, next |-> cleared]
      ELSE [head |-> l.head, tail |-> n, next |-> [cleared EXCEPT ![l.tail] = n]]

\* The node a traversal looks at after i steps, NULL past the end.
Visit(l) ==
  LET at[i \in Nat] == IF i = 0 THEN l.head
                       ELSE IF at[i - 1] = NULL THEN NULL ELSE l.next[at[i - 1]]
  IN  at

\* The nodes a traversal (SYS_SLIST_FOR_EACH_CONTAINER) meets, and whether it
\* goes round for ever when nothing in its body ends it.
Listed(l)  == {Visit(l)[i] : i \in 0..Cardinality(Node)} \ {NULL}
Endless(l) == Visit(l)[Cardinality(Node)] # NULL

\* Is s[i] its node's last place in s?
IsLast(s, i) == \A j \in (i + 1)..Len(s) : s[j] # s[i]

\* Was the node appended last appended twice in a row?
Twice(s) == Len(s) > 1 /\ s[Len(s)] = s[Len(s) - 1]

\* What follows s[i] when that is the last place of its node.
Follower(s, i) == IF i < Len(s) THEN s[i + 1] ELSE IF Twice(s) THEN s[i] ELSE NULL

\* The pointers of l are those that appending the sequence s to an empty list leaves,
\* repetitions included: a node appended again is followed by what was appended after
\* it the last time.
Spells(l, s) ==
  /\ l.head = IF s = << >> THEN NULL ELSE s[1]
  /\ l.tail = IF s = << >> THEN NULL ELSE s[Len(s)]
  /\ \A i \in 1..Len(s) : IsLast(s, i) => l.next[s[i]] = Follower(s, i)

=============================================================================
