--------------------------- MODULE ZtacxVariables ---------------------------
(***************************************************************************)
(* ztacx variables (src/src/ztacx.c): named values that every module of    *)
(* the framework publishes its readings in, with at most one on_change     *)
(* work item per variable.  A setter stores the value and then submits the *)
(* on_change work to the system work queue; nothing locks the pair, and    *)
(* setters run in any thread and in work handlers.                         *)
(*                                                                         *)
(* The steps of a setter are interleaved freely.  The kernel's priorities  *)
(* (the work queue's thread is cooperative and above the application's)    *)
(* only remove interleavings.                                              *)
(***************************************************************************)
EXTENDS SysWorkQ, FiniteSets

CONSTANTS
  Var,           \* the variables
  Counter,       \* those written by ztacx_variable_value_inc_int64 only
  Observer,      \* on_change work items of the application
  Sampler,       \* work items that a timer submits (sensor readers)
  Thread,        \* preemptible threads: main, the shell
  WorkQueue,     \* the system work queue's thread
  Incrementer,   \* who calls ztacx_variable_value_inc_int64
  Value,         \* the values written by the other setters
  NoWork,        \* the NULL work pointer, and a work queue at rest
  MaxWrites      \* bound on the number of setter calls

Work    == Observer \cup Sampler
Context == Thread \cup {WorkQueue}

ASSUME VariablesAssumption ==
  /\ Counter \subseteq Var
  /\ Value \subseteq Nat
  /\ Incrementer \subseteq Context
  /\ Observer \cap Sampler = {}
  /\ NoWork \notin Work
  /\ WorkQueue \notin Thread
  /\ MaxWrites \in Nat

VARIABLES
  value,      \* variable -> struct ztacx_variable.value
  on_change,  \* variable -> struct ztacx_variable.on_change
  call,       \* context -> what it is in the middle of
  queue,      \* the work items waiting for the system work queue
  running,    \* the work item whose handler runs
  unread,     \* variables the running handler has still to read
  seen,       \* variable -> the value its observer read last (auxiliary)
  writes      \* setter calls so far, for the bound MaxWrites

vars == <<value, on_change, call, queue, running, unread, seen, writes>>

Idle         == [at |-> "idle"]
Stored(v)    == [at |-> "submit", var |-> v]            \* hook of v not looked at yet
Adding(v, x) == [at |-> "store", var |-> v, val |-> x]  \* x to be stored in v

Call ==      {Idle}
        \cup [at : {"submit"}, var : Var]
        \cup [at : {"store"}, var : Counter, val : Nat]

TypeOK ==
  /\ value     \in [Var -> Nat]
  /\ on_change \in [Var -> Observer \cup {NoWork}]
  /\ call      \in [Context -> Call]
  /\ queue     \in Seq(Work)
  /\ running   \in Work \cup {NoWork}
  /\ unread    \subseteq {v \in Var : on_change[v] # NoWork /\ on_change[v] = running}
  /\ seen      \in [Var -> Nat]
  /\ writes    \in 0..MaxWrites

Init ==
  /\ value     \in [Var -> {0}]
  /\ on_change = [v \in Var |-> NoWork]
  /\ call      = [c \in Context |-> Idle]
  /\ queue     = << >>
  /\ running   = NoWork
  /\ unread    = {}
  /\ seen      = value
  /\ writes    = 0

-----------------------------------------------------------------------------
(* The setters.                                                            *)

\* A context can start a setter call when it is not inside one; the work
\* queue's thread runs code of this program only in a handler.
CanCall(c) ==
  /\ call[c] = Idle
  /\ c = WorkQueue => running # NoWork
  /\ writes < MaxWrites

\* ztacx_variable_value_set up to its switch: the value is in place, the
\* on_change pointer not yet looked at.
ValueSet(c, v, x) ==
  /\ CanCall(c)
  /\ value'  = [value EXCEPT ![v] = x]
  /\ call'   = [call EXCEPT ![c] = Stored(v)]
  /\ writes' = writes + 1
  /\ UNCHANGED <<on_change, queue, running, unread, seen>>

\* ztacx_variable_value_inc_int64: the get ...
IncRead(c, v) ==
  /\ CanCall(c)
  /\ call'   = [call EXCEPT ![c] = Adding(v, value[v] + 1)]
  /\ writes' = writes + 1
  /\ UNCHANGED <<value, on_change, queue, running, unread, seen>>

\* ... and the set of the value computed from it, which takes the counter back
\* when another increment was stored in between.
IncStore(c) ==
  /\ call[c].at = "store"
  /\ value' = [value EXCEPT ![call[c].var] = call[c].val]
  /\ call'  = [call EXCEPT ![c] = Stored(call[c].var)]
  /\ UNCHANGED <<on_change, queue, running, unread, seen, writes>>

\* What the tail of ztacx_variable_value_set does to the work queue.  Broken
\* variants: no test for NULL; an observer that runs is left alone; only a work
\* queue that is empty is bothered.
TriggerUntested(q, w) == Submit(q, w)
TriggerAtRest(q, w)   == IF w # NoWork /\ running # w THEN Submit(q, w) ELSE q
TriggerFirst(q, w)    == IF w # NoWork /\ q = << >> THEN Submit(q, w) ELSE q
Trigger(q, w)         == IF w # NoWork THEN Submit(q, w) ELSE q

\* The tail of ztacx_variable_value_set: submit on_change if there is one.
SubmitOnChange(c) ==
  /\ call[c].at = "submit"
  /\ queue' = Trigger(queue, on_change[call[c].var])
  /\ call' = [call EXCEPT ![c] = Idle]
  /\ UNCHANGED <<value, on_change, running, unread, seen, writes>>

\* ztacx_variable_ptr_set_onchange: the first hook stays, a second caller gets
\* -EEXIST and changes nothing.  What the observer is owed starts here, so the
\* value at this moment counts as seen.
SetOnchange(v, w) ==
  /\ on_change[v] = NoWork
  /\ on_change' = [on_change EXCEPT ![v] = w]
  /\ seen'      = [seen EXCEPT ![v] = value[v]]
  /\ UNCHANGED <<value, call, queue, running, unread, writes>>

-----------------------------------------------------------------------------
(* The system work queue.                                                  *)

\* A sensor reader's delay expires.
TimerFires(w) ==
  /\ ~Queued(queue, w)
  /\ queue' = Submit(queue, w)
  /\ UNCHANGED <<value, on_change, call, running, unread, seen, writes>>

\* The thread takes the oldest item; from here on it can be queued again.
WorkStart ==
  /\ running = NoWork /\ queue # << >>
  /\ running' = Head(queue)
  /\ queue'   = Tail(queue)
  /\ unread'  = {v \in Var : on_change[v] = Head(queue)}
  /\ UNCHANGED <<value, on_change, call, seen, writes>>

\* The handler gets the value of a variable it observes.
HandlerRead(v) ==
  /\ v \in unread /\ call[WorkQueue] = Idle
  /\ seen'   = [seen EXCEPT ![v] = value[v]]
  /\ unread' = unread \ {v}
  /\ UNCHANGED <<value, on_change, call, queue, running, writes>>

\* The handler returns.
HandlerDone ==
  /\ running # NoWork /\ unread = {} /\ call[WorkQueue] = Idle
  /\ running' = NoWork
  /\ UNCHANGED <<value, on_change, call, queue, unread, seen, writes>>

-----------------------------------------------------------------------------
SetStep(c) ==
  \/ \E v \in Var \ Counter, x \in Value : ValueSet(c, v, x)
  \/ c \in Incrementer /\ \E v \in Counter : IncRead(c, v)

FinishCall(c) == IncStore(c) \/ SubmitOnChange(c)

Next ==
  \/ \E c \in Context : SetStep(c) \/ FinishCall(c)
  \/ \E v \in Var, w \in Observer : SetOnchange(v, w)
  \/ \E w \in Sampler : TimerFires(w)
  \/ WorkStart
  \/ \E v \in Var : HandlerRead(v)
  \/ HandlerDone

\* A thread inside a setter finishes it, the work queue keeps serving, and a
\* handler is straight-line code that reads its variables and returns.
Fairness ==
  /\ \A c \in Context : WF_vars(FinishCall(c))
  /\ WF_vars(WorkStart)
  /\ \A v \in Var : WF_vars(HandlerRead(v))
  /\ WF_vars(HandlerDone)

Spec     == Init /\ [][Next]_vars
FairSpec == Spec /\ Fairness

-----------------------------------------------------------------------------
(* Properties.                                                             *)

\* The observer of v has a run ahead of it that will read v, or a setter of v
\* is about to submit one.
NotificationOwed(v) ==
  \/ Queued(queue, on_change[v])
  \/ running = on_change[v] /\ v \in unread
  \/ \E c \in Context : call[c] = Stored(v)

\* No change is lost: whenever a hooked variable differs from what its observer
\* read last, a notification is still on its way.  It relates the value, the
\* queue and every setter in progress (ztacx_variable_value_set stores first
\* and submits after, and k_work_submit coalesces with a queued run but not
\* with the run in progress, which may have read the old value).
NoLostChange ==
  \A v \in Var : on_change[v] # NoWork /\ seen[v] # value[v] => NotificationOwed(v)

\* The abstract promise this module keeps: see ChangeNotification.
Promise == INSTANCE ChangeNotification
             WITH hooked <- {v \in Var : on_change[v] # NoWork}
Notifies == Promise!Spec

=============================================================================
