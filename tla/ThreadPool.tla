------------------------------ MODULE ThreadPool ------------------------------
(***************************************************************************)
(* The thread pool of include/utilities/ThreadPool.h and                   *)
(* src/utilities/ThreadPool.cpp.                                           *)
(*                                                                         *)
(* One process per worker thread (thread_run) and one for the only client, *)
(* the main thread, which calls add_task, wait_all and, at the end, the    *)
(* destructor in any order.  Every field the threads share is read and     *)
(* written under queue_rwlock, so an operation is two steps: the           *)
(* acquisition of the mutex, and the critical section up to the            *)
(* pthread_mutex_unlock or the pthread_cond_wait that releases it.         *)
(* pthread_cond_wait may return without a signal (at most MaxSpurious      *)
(* times in a behaviour), and a thread it returns to competes for the      *)
(* mutex like any other.                                                   *)
(***************************************************************************)
EXTENDS Integers, Sequences, FiniteSets

CONSTANTS
  Workers,     (* the threads of the pool                                  *)
  Main,        (* the client thread                                        *)
  Tasks,       (* the Task objects the client may allocate and add         *)
  None,        (* no thread, no task                                       *)
  MaxSpurious  (* bound on the wakeups that no signal caused               *)

ASSUME PoolAssumption ==
  /\ IsFiniteSet(Workers) /\ Workers # {}
  /\ Main \notin Workers
  /\ None \notin Workers \cup {Main} \cup Tasks
  /\ MaxSpurious \in Nat

Threads == Workers \cup {Main}

VARIABLES
  queue,     (* task_queue: the tasks from head to tail, n_tasks its length *)
  active,    (* ThreadPool::active                                          *)
  running,   (* ThreadPool::running                                         *)
  mutex,     (* the thread that holds queue_rwlock, or None                 *)
  pc,        (* where each thread is                                        *)
  task,      (* thread_run's local variable task, per worker                *)
  arg,       (* the argument of the add_task the client is in, or None      *)
  submitted, (* history: the tasks handed to add_task                       *)
  ran,       (* history: how often run() of each task has returned          *)
  freed,     (* history: the tasks deleted                                  *)
  spurious   (* how many wakeups without a signal have happened             *)

vars == <<queue, active, running, mutex, pc, task, arg, submitted, ran,
          freed, spurious>>

-----------------------------------------------------------------------------

(* The workers blocked in pthread_cond_wait(&queue_available). *)
Asleep == {w \in Workers : pc[w] = "asleep"}

(* The workers between active++ and active--. *)
Busy == {w \in Workers : pc[w] \in {"run", "delete", "relock", "finish"}}

(* The workers whose local variable task points to a live Task. *)
Holding == {w \in Workers : pc[w] \in {"run", "delete"}}

(* The workers that will look at the queue before they sleep. *)
Heading == {w \in Workers : pc[w] \in {"lock", "check"}}

Elements(s) == {s[i] : i \in 1..Len(s)}

(* pthread_cond_wait returns in the threads of woken: they compete for the
   mutex, then re-evaluate the condition of their loop. *)
Awake(woken) ==
  [t \in Threads |-> IF t \notin woken THEN pc[t]
                     ELSE IF t = Main THEN "wait_lock" ELSE "lock"]

(* pthread_cond_signal(&queue_available): the set of threads it unblocks. *)
NoSignal == {{}}

Signalled == IF Asleep = {} THEN {{}} ELSE {{w} : w \in Asleep}

(* pthread_cond_broadcast(&queue_available). *)
Broadcast == Asleep

(* pthread_cond_broadcast(&queue_empty) by a worker that leaves a active
   tasks behind (tested too early: the value active had before). *)
BroadcastTooEarly(a) ==
  {t \in {Main} : pc[t] = "wait_asleep" /\ active = 0 /\ queue = <<>>}

BroadcastEmpty(a) ==
  {t \in {Main} : pc[t] = "wait_asleep" /\ a = 0 /\ queue = <<>>}

Acquire(t, from, to) ==
  /\ pc[t] = from
  /\ mutex = None
  /\ mutex' = t
  /\ pc' = [pc EXCEPT ![t] = to]
  /\ UNCHANGED <<queue, active, running, task, arg, submitted, ran, freed,
                 spurious>>

-----------------------------------------------------------------------------
(* The client thread. *)

CallAdd(t) ==
  /\ pc[Main] = "client"
  /\ t \notin submitted
  /\ submitted' = submitted \cup {t}
  /\ arg' = t
  /\ pc' = [pc EXCEPT ![Main] = "add_lock"]
  /\ UNCHANGED <<queue, active, running, mutex, task, ran, freed, spurious>>

AddLock == Acquire(Main, "add_lock", "insert")

Prepend(t) == <<t>> \o queue

Link(t) == Append(queue, t)

(* task_queue::insert with the mutex held. *)
Insert ==
  /\ pc[Main] = "insert"
  /\ queue' = Link(arg)
  /\ \E woken \in Signalled : pc' = [Awake(woken) EXCEPT ![Main] = "client"]
  /\ arg' = None
  /\ mutex' = None
  /\ UNCHANGED <<active, running, task, submitted, ran, freed, spurious>>

CallWaitAll ==
  /\ pc[Main] = "client"
  /\ pc' = [pc EXCEPT ![Main] = "wait_lock"]
  /\ UNCHANGED <<queue, active, running, mutex, task, arg, submitted, ran,
                 freed, spurious>>

WaitLock == Acquire(Main, "wait_lock", "wait_check")

(* The condition of the loop of wait_all. *)
QueueOutstanding == queue # <<>>

Outstanding == queue # <<>> \/ active # 0

WaitSleep ==
  /\ pc[Main] = "wait_check"
  /\ Outstanding
  /\ pc' = [pc EXCEPT ![Main] = "wait_asleep"]
  /\ mutex' = None
  /\ UNCHANGED <<queue, active, running, task, arg, submitted, ran, freed,
                 spurious>>

WaitReturn ==
  /\ pc[Main] = "wait_check"
  /\ ~Outstanding
  /\ pc' = [pc EXCEPT ![Main] = "client"]
  /\ mutex' = None
  /\ UNCHANGED <<queue, active, running, task, arg, submitted, ran, freed,
                 spurious>>

(* ~ThreadPool *)
CallStop ==
  /\ pc[Main] = "client"
  /\ pc' = [pc EXCEPT ![Main] = "stop_lock"]
  /\ UNCHANGED <<queue, active, running, mutex, task, arg, submitted, ran,
                 freed, spurious>>

StopLock == Acquire(Main, "stop_lock", "stop")

Stop ==
  /\ pc[Main] = "stop"
  /\ running' = 0
  /\ pc' = [Awake(Broadcast) EXCEPT ![Main] = "join"]
  /\ mutex' = None
  /\ UNCHANGED <<queue, active, task, arg, submitted, ran, freed, spurious>>

Join ==
  /\ pc[Main] = "join"
  /\ \A w \in Workers : pc[w] = "exited"
  /\ pc' = [pc EXCEPT ![Main] = "destroyed"]
  /\ UNCHANGED <<queue, active, running, mutex, task, arg, submitted, ran,
                 freed, spurious>>

-----------------------------------------------------------------------------
(* The worker threads: thread_run. *)

WorkerLock(w) == Acquire(w, "lock", "check")

(* The condition of the inner loop of thread_run (without the flag that the
   destructor clears). *)
NothingQueued == queue = <<>>

MustSleep == queue = <<>> /\ running = 1

WorkerSleep(w) ==
  /\ pc[w] = "check"
  /\ MustSleep
  /\ pc' = [pc EXCEPT ![w] = "asleep"]
  /\ mutex' = None
  /\ UNCHANGED <<queue, active, running, task, arg, submitted, ran, freed,
                 spurious>>

(* The condition on which a worker leaves the outer loop. *)
ToldToStop == running = 0

ShouldExit == running = 0 /\ queue = <<>>

WorkerExit(w) ==
  /\ pc[w] = "check"
  /\ ~MustSleep /\ ShouldExit
  /\ pc' = [pc EXCEPT ![w] = "exited"]
  /\ mutex' = None
  /\ UNCHANGED <<queue, active, running, task, arg, submitted, ran, freed,
                 spurious>>

(* What task_queue::next leaves in the queue. *)
Unpopped == queue

Popped == Tail(queue)

WorkerTake(w) ==
  /\ pc[w] = "check"
  /\ ~MustSleep /\ ~ShouldExit
  /\ task' = [task EXCEPT ![w] = Head(queue)]
  /\ queue' = Popped
  /\ active' = active + 1
  /\ pc' = [pc EXCEPT ![w] = "run"]
  /\ mutex' = None
  /\ UNCHANGED <<running, arg, submitted, ran, freed, spurious>>

RunTask(w) ==
  /\ pc[w] = "run"
  /\ ran' = [ran EXCEPT ![task[w]] = @ + 1]
  /\ pc' = [pc EXCEPT ![w] = "delete"]
  /\ UNCHANGED <<queue, active, running, mutex, task, arg, submitted, freed,
                 spurious>>

DeleteTask(w) ==
  /\ pc[w] = "delete"
  /\ freed' = freed \cup {task[w]}
  /\ pc' = [pc EXCEPT ![w] = "relock"]
  /\ UNCHANGED <<queue, active, running, mutex, task, arg, submitted, ran,
                 spurious>>

WorkerRelock(w) == Acquire(w, "relock", "finish")

(* The value active-- leaves. *)
DecrementedTwice == active - 2

Decremented == active - 1

WorkerFinish(w) ==
  /\ pc[w] = "finish"
  /\ active' = Decremented
  /\ pc' = [Awake(BroadcastEmpty(Decremented)) EXCEPT ![w] = "lock"]
  /\ mutex' = None
  /\ UNCHANGED <<queue, running, task, arg, submitted, ran, freed, spurious>>

-----------------------------------------------------------------------------

(* A pthread_cond_wait returns although nobody signalled. *)
SpuriousWakeup(t) ==
  /\ pc[t] \in {"asleep", "wait_asleep"}
  /\ spurious < MaxSpurious
  /\ spurious' = spurious + 1
  /\ pc' = Awake({t})
  /\ UNCHANGED <<queue, active, running, mutex, task, arg, submitted, ran,
                 freed>>

(* The pool is gone: nothing more happens. *)
Terminated == pc[Main] = "destroyed" /\ UNCHANGED vars

Init ==
  /\ queue = <<>>
  /\ active = 0
  /\ running = 1
  /\ mutex = None
  /\ pc = [t \in Threads |-> IF t = Main THEN "client" ELSE "lock"]
  /\ task = [w \in Workers |-> None]
  /\ arg = None
  /\ submitted = {}
  /\ ran = [t \in Tasks |-> 0]
  /\ freed = {}
  /\ spurious = 0

(* What the client decides to do, and what it does once it has decided. *)
ClientCalls == (\E t \in Tasks : CallAdd(t)) \/ CallWaitAll \/ CallStop

ClientStep ==
  \/ AddLock \/ Insert
  \/ WaitLock \/ WaitSleep \/ WaitReturn
  \/ StopLock \/ Stop \/ Join

WorkerStep(w) ==
  \/ WorkerLock(w) \/ WorkerSleep(w) \/ WorkerExit(w) \/ WorkerTake(w)
  \/ RunTask(w) \/ DeleteTask(w) \/ WorkerRelock(w) \/ WorkerFinish(w)

Next ==
  \/ ClientCalls
  \/ ClientStep
  \/ \E w \in Workers : WorkerStep(w)
  \/ \E t \in Threads : SpuriousWakeup(t)
  \/ Terminated

Spec == Init /\ [][Next]_vars

(* The operating system runs every thread that can run; a task's run()
   returns.  Nothing obliges the client to call, and no signal is promised. *)
Fairness == WF_vars(ClientStep) /\ \A w \in Workers : WF_vars(WorkerStep(w))

FairSpec == Spec /\ Fairness

-----------------------------------------------------------------------------
(* Properties. *)

WorkerPlaces == {"lock", "check", "asleep", "run", "delete", "relock",
                 "finish", "exited"}

ClientPlaces == {"client", "add_lock", "insert", "wait_lock", "wait_check",
                 "wait_asleep", "stop_lock", "stop", "join", "destroyed"}

(* Every variable has its type; active never exceeds the number of threads
   and never goes below zero (ThreadPool::active is incremented at line 161
   and decremented at line 171). *)
TypeOK ==
  /\ queue \in Seq(Tasks)
  /\ active \in 0..Cardinality(Workers)
  /\ running \in {0, 1}
  /\ mutex \in Threads \cup {None}
  /\ pc \in [Threads -> WorkerPlaces \cup ClientPlaces]
  /\ pc[Main] \in ClientPlaces
  /\ \A w \in Workers : pc[w] \in WorkerPlaces
  /\ task \in [Workers -> Tasks \cup {None}]
  /\ arg \in Tasks \cup {None}
  /\ submitted \subseteq Tasks
  /\ ran \in [Tasks -> Nat]
  /\ freed \subseteq Tasks
  /\ spurious \in 0..MaxSpurious

(* A task handed to add_task is at every moment in exactly one place (with
   the caller, in the queue, with one worker, or deleted), so it is neither
   lost nor taken twice, and its run() has returned exactly once when it is
   deleted. *)
OneOwner ==
  /\ submitted = Elements(queue) \cup {task[w] : w \in Holding} \cup freed
                   \cup ({arg} \ {None})
  /\ \A i, j \in 1..Len(queue) : queue[i] = queue[j] => i = j
  /\ \A v, w \in Holding : task[v] = task[w] => v = w
  /\ \A w \in Holding : task[w] \notin Elements(queue) \cup freed
  /\ Elements(queue) \cap freed = {}
  /\ arg \notin Elements(queue) \cup {task[w] : w \in Holding} \cup freed
  /\ \A t \in Tasks :
       ran[t] = IF t \in freed \/ \E w \in Workers : pc[w] = "delete" /\ task[w] = t
                THEN 1 ELSE 0

(* No worker sleeps on queue_available while a task waits that no awake
   worker is on its way to pick up: insert's single pthread_cond_signal
   never leaves the pool slower than its threads allow. *)
WorkConserving == Asleep # {} => Len(queue) <= Cardinality(Heading)

(* wait_all never sleeps on queue_empty when the pool is already idle: the
   broadcast at line 174 cannot be missed. *)
NoMissedBroadcast == pc[Main] = "wait_asleep" => Outstanding

(* Once the destructor has cleared running no worker sleeps again, so join
   does not wait for a thread that nobody will wake. *)
NoSleepAfterStop == running = 0 => Asleep = {}

(* The places where a thread waits for queue_rwlock, and the threads that go
   no further unless another one does something, or have come to their end. *)
WantsMutex(t) == pc[t] \in {"lock", "relock", "add_lock", "wait_lock", "stop_lock"}

Waiting(t) ==
  \/ WantsMutex(t) /\ mutex \notin {None, t}
  \/ pc[t] \in {"asleep", "wait_asleep", "exited", "destroyed"}
  \/ pc[t] = "join" /\ \E w \in Workers : pc[w] # "exited"

(* Never do the client and all the workers wait for one another, on the mutex,
   the two conditions and the join: until the pool is destroyed somebody can
   go on, and not only because a wakeup is spurious. *)
NeverAllWaiting ==
  pc[Main] # "destroyed" => \E t \in Threads : ~Waiting(t)

(* Nobody waits for ever: no broadcast has come too early for a client in
   wait_all or a worker that should exit, and never does everybody wait. *)
NobodyForgotten == NoMissedBroadcast /\ NoSleepAfterStop /\ NeverAllWaiting

(* When the destructor has joined the threads every task ever added has run
   and has been deleted: the pool drains before it goes. *)
DrainedAtDestroy ==
  pc[Main] = "destroyed" => queue = <<>> /\ active = 0 /\ submitted = freed

(* wait_all returns only in a state where every task added before has run
   exactly once and has been deleted (its files closed, its writer flushed). *)
Barrier ==
  [][pc[Main] = "wait_check" /\ pc'[Main] = "client"
       => submitted = freed /\ \A t \in submitted : ran[t] = 1]_vars

(* The pool implements the abstract executor: a task is executing from
   active++ to active--, and done afterwards. *)
Executing == {task[w] : w \in Busy}

ClientView ==
  CASE pc[Main] \in {"client", "add_lock", "insert"} -> "open"
    [] pc[Main] \in {"wait_lock", "wait_check", "wait_asleep"} -> "waiting"
    [] pc[Main] \in {"stop_lock", "stop", "join"} -> "closing"
    [] pc[Main] = "destroyed" -> "closed"

Executor == INSTANCE TaskExecutor
  WITH Slots <- Cardinality(Workers), pending <- queue,
       executing <- Executing, done <- freed \ Executing, client <- ClientView

(* Safety and liveness of the executor, under this pool's fairness: every task
   handed to add_task runs and is deleted, and a wait_all returns. *)
ImplementsExecutor == Executor!XSpec

=============================================================================
