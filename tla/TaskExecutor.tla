---------------------------- MODULE TaskExecutor ----------------------------
(***************************************************************************)
(* What the benchmarks rely on when they use a ThreadPool                  *)
(* (include/utilities/ThreadPool.h): tasks start in the order in which     *)
(* they were added, at most Slots of them run at a time, wait_all() is a   *)
(* barrier that opens only when nothing is pending or running, and the     *)
(* destructor drains the pool before it returns.  Threads, the mutex, the  *)
(* condition variables and the counters of the implementation are absent:  *)
(* module ThreadPool is shown to implement this one.                       *)
(***************************************************************************)
EXTENDS Naturals, Sequences, FiniteSets

CONSTANTS
  Tasks,   (* the tasks the client may add, each at most once              *)
  Slots    (* how many tasks can run at the same time: the pool's threads  *)

VARIABLES
  pending,   (* the tasks added and not started, oldest first              *)
  executing, (* the tasks that have started and not finished               *)
  done,      (* the tasks that have finished                               *)
  client     (* what the client thread is doing                            *)

xvars == <<pending, executing, done, client>>

Elements(s) == {s[i] : i \in 1..Len(s)}

Known == Elements(pending) \cup executing \cup done

Quiet == pending = <<>> /\ executing = {}

XInit ==
  /\ pending = <<>>
  /\ executing = {}
  /\ done = {}
  /\ client = "open"

(* add_task() *)
Submit(t) ==
  /\ client = "open"
  /\ t \notin Known
  /\ pending' = Append(pending, t)
  /\ UNCHANGED <<executing, done, client>>

(* A free thread begins the oldest pending task. *)
Start ==
  /\ pending # <<>>
  /\ Cardinality(executing) < Slots
  /\ pending' = Tail(pending)
  /\ executing' = executing \cup {Head(pending)}
  /\ UNCHANGED <<done, client>>

Finish(t) ==
  /\ t \in executing
  /\ executing' = executing \ {t}
  /\ done' = done \cup {t}
  /\ UNCHANGED <<pending, client>>

(* wait_all() is called, and later returns. *)
Wait ==
  /\ client = "open"
  /\ client' = "waiting"
  /\ UNCHANGED <<pending, executing, done>>

Release ==
  /\ client = "waiting"
  /\ Quiet
  /\ client' = "open"
  /\ UNCHANGED <<pending, executing, done>>

(* The destructor is called, and later returns. *)
Close ==
  /\ client = "open"
  /\ client' = "closing"
  /\ UNCHANGED <<pending, executing, done>>

Closed ==
  /\ client = "closing"
  /\ Quiet
  /\ client' = "closed"
  /\ UNCHANGED <<pending, executing, done>>

XNext ==
  \/ \E t \in Tasks : Submit(t) \/ Finish(t)
  \/ Start \/ Wait \/ Release \/ Close \/ Closed

(* Nobody is obliged to add a task, to wait or to close; what was asked for
   is eventually served. *)
XFairness ==
  /\ WF_xvars(Start)
  /\ \A t \in Tasks : WF_xvars(Finish(t))
  /\ WF_xvars(Release)
  /\ WF_xvars(Closed)

XSafety == XInit /\ [][XNext]_xvars

XSpec == XSafety /\ XFairness

=============================================================================
