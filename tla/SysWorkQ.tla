------------------------------ MODULE SysWorkQ ------------------------------
(***************************************************************************)
(* The Zephyr system work queue, as src/ uses it: one cooperative thread   *)
(* that runs work items in the order they were submitted.  A queue is a    *)
(* sequence of work items.  The kernel is not part of the repository; only *)
(* what the calls of src/ rely on is modelled here.                        *)
(***************************************************************************)
EXTENDS Naturals, Sequences, Functions

\* Is work item w waiting in queue q?
Queued(q, w) == w \in Range(q)

\* k_work_submit: an item that is already queued is not queued again, an item
\* whose handler is running is.
Submit(q, w) == IF Queued(q, w) THEN q ELSE Append(q, w)

\* k_work_cancel on a queued item takes it out of the queue, which holds it once.
Withdraw(q, w) ==
  IF Queued(q, w)
  THEN LET at == CHOOSE i \in DOMAIN q : q[i] = w
       IN  [i \in 1..(Len(q) - 1) |-> IF i < at THEN q[i] ELSE q[i + 1]]
  ELSE q

=============================================================================
