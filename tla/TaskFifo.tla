------------------------------ MODULE TaskFifo ------------------------------
(* What ThreadPool's task_queue is for: tasks leave it in the order in which
   they came, and those nobody took go with the queue.                      *)
EXTENDS Sequences

CONSTANTS
  Tasks,  (* the tasks that may be inserted                                 *)
  None    (* no task: what next() returns when there is none                *)

VARIABLES
  queue,  (* the tasks in the queue                                         *)
  taken,  (* what next() returned last                                      *)
  open    (* whether the queue still exists                                 *)

fvars == <<queue, taken, open>>

FInit == queue = <<>> /\ taken = None /\ open = TRUE

Put(t) == open /\ queue' = Append(queue, t) /\ UNCHANGED <<taken, open>>

Get ==
  /\ open
  /\ IF queue = <<>> THEN taken' = None /\ UNCHANGED queue
     ELSE taken' = Head(queue) /\ queue' = Tail(queue)
  /\ UNCHANGED open

(* The destructor, and what it does with a task that is left. *)
Shut == open /\ open' = FALSE /\ UNCHANGED <<queue, taken>>
Drop == ~open /\ queue # <<>> /\ queue' = Tail(queue) /\ UNCHANGED <<taken, open>>

FNext == (\E t \in Tasks : Put(t)) \/ Get \/ Shut \/ Drop

FSpec == FInit /\ [][FNext]_fvars

=============================================================================
