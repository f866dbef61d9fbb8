-------------------------- MODULE ThreadProofs --------------------------
(***************************************************************************)
(* Theorems about the two ways in which threads share work.                *)
(*                                                                         *)
(* Module ThreadPool, for any finite set of workers, any set of tasks and  *)
(* any bound on spurious wakeups.  None of the properties is inductive by  *)
(* itself: IInv adds which thread holds the mutex, what the counter active *)
(* counts, and what the destructor's phases have established.              *)
(*                                                                         *)
(* Module BlockIndirectSort, for any inputs, any numbers of threads and    *)
(* any sizes of blocks and groups: its atomic counters are exact.  CInv    *)
(* adds whose counters there are, who will decrement which, and where a    *)
(* function goes on once its own is zero.                                  *)
(***************************************************************************)
EXTENDS ThreadPool, BlockIndirectSort, FiniteSetTheorems, SequenceTheorems, TLAPS

-----------------------------------------------------------------------------
(* The inductive invariant. *)

(* TypeOK without the bound on active. *)
Typing ==
  /\ queue \in Seq(Tasks)
  /\ active \in Int
  /\ running \in {0, 1}
  /\ mutex \in Threads \cup {None}
  /\ pc \in [Threads -> WorkerPlaces \cup ClientPlaces]
  /\ pc[Main] \in ClientPlaces
  /\ \A w \in Workers : pc[w] \in WorkerPlaces
  /\ task \in [Workers -> Tasks \cup {None}]
  /\ arg \in Tasks \cup {None}
  /\ submitted \subseteq Tasks
  /\ ran \in [Tasks -> Nat]
  /\ freed \subseteq Tasks
  /\ spurious \in 0..MaxSpurious

(* active is the number of workers between active++ and active--. *)
ActiveCounts == active = Cardinality(Busy)

(* The places from which a thread releases queue_rwlock. *)
Critical == {"insert", "wait_check", "stop", "check", "finish"}

MutexHeld == \A t \in Threads : pc[t] \in Critical <=> mutex = t

ClearedByStop == running = 1 <=> pc[Main] \notin {"join", "destroyed"}

ExitedAfterDrain ==
  \A w \in Workers : pc[w] = "exited" => queue = <<>> /\ running = 0

JoinedAll == pc[Main] = "destroyed" => \A w \in Workers : pc[w] = "exited"

ArgInFlight == arg # None <=> pc[Main] \in {"add_lock", "insert"}

(* A worker between active++ and active-- has a task of its own, freed once
   the worker is past the delete. *)
BusyOwners ==
  /\ \A w \in Busy : task[w] \in Tasks
  /\ \A v, w \in Busy : task[v] = task[w] => v = w
  /\ \A w \in Busy \ Holding : task[w] \in freed

IInv ==
  /\ Typing
  /\ ActiveCounts
  /\ MutexHeld
  /\ ClearedByStop
  /\ ExitedAfterDrain
  /\ JoinedAll
  /\ ArgInFlight
  /\ BusyOwners
  /\ OneOwner
  /\ WorkConserving
  /\ NoMissedBroadcast
  /\ NoSleepAfterStop

-----------------------------------------------------------------------------
(* Facts about sequences and finite sets. *)

(* Taking the head off a queue without repetitions. *)
LEMMA HeadTail ==
  ASSUME NEW s \in Seq(Tasks), s # <<>>
  PROVE  /\ Tail(s) \in Seq(Tasks) /\ Head(s) \in Tasks
         /\ Len(Tail(s)) = Len(s) - 1
         /\ Elements(s) = Elements(Tail(s)) \cup {Head(s)}
         /\ (\A i, j \in 1..Len(s) : s[i] = s[j] => i = j)
              => /\ Head(s) \notin Elements(Tail(s))
                 /\ \A i, j \in 1..Len(Tail(s)) : Tail(s)[i] = Tail(s)[j] => i = j
<1>1. Len(s) \in Nat \ {0} /\ Head(s) = s[1] /\ Head(s) \in Tasks
  OBVIOUS
<1>2. Tail(s) \in Seq(Tasks) /\ Len(Tail(s)) = Len(s) - 1
  OBVIOUS
<1>3. \A i \in 1..Len(Tail(s)) : Tail(s)[i] = s[i + 1]
  BY HeadTailProperties
<1>4. Elements(s) = Elements(Tail(s)) \cup {Head(s)}
  <2>1. \A i \in 1..Len(s) : i = 1 \/ (i - 1 \in 1..Len(Tail(s)) /\ s[i] = Tail(s)[i - 1])
    BY <1>1, <1>2, <1>3
  <2>2. \A i \in 1..Len(Tail(s)) : i + 1 \in 1..Len(s)
    BY <1>1, <1>2
  <2> QED BY <1>1, <1>3, <2>1, <2>2 DEF Elements
<1>5. QED
  BY <1>1, <1>2, <1>3, <1>4 DEF Elements

(* Linking a task behind a queue without repetitions. *)
LEMMA Appended ==
  ASSUME NEW s \in Seq(Tasks), NEW t \in Tasks
  PROVE  /\ Append(s, t) \in Seq(Tasks)
         /\ Len(Append(s, t)) = Len(s) + 1
         /\ Elements(Append(s, t)) = Elements(s) \cup {t}
         /\ (\A i, j \in 1..Len(s) : s[i] = s[j] => i = j) /\ t \notin Elements(s)
              => \A i, j \in 1..Len(Append(s, t)) :
                   Append(s, t)[i] = Append(s, t)[j] => i = j
<1>1. Len(s) \in Nat /\ Len(Append(s, t)) = Len(s) + 1
  OBVIOUS
<1>2. /\ \A i \in 1..Len(s) : Append(s, t)[i] = s[i]
      /\ Append(s, t)[Len(s) + 1] = t
  OBVIOUS
<1>3. \A i \in 1..(Len(s) + 1) : i \in 1..Len(s) \/ i = Len(s) + 1
  BY <1>1
<1>4. Elements(Append(s, t)) = Elements(s) \cup {t}
  BY <1>1, <1>2, <1>3 DEF Elements
<1>5. QED
  BY <1>1, <1>2, <1>3, <1>4 DEF Elements

(* The sets of workers the invariants count are finite. *)
LEMMA FiniteSubsets ==
  /\ IsFiniteSet(Busy) /\ IsFiniteSet(Heading)
  /\ Cardinality(Busy) \in 0..Cardinality(Workers)
  /\ Cardinality(Heading) \in Nat
  /\ Cardinality(Workers) \in Nat
  BY PoolAssumption, FS_Subset, FS_CardinalityType DEF Busy, Heading

-----------------------------------------------------------------------------
(* Each part of IInv is preserved by every step. *)

(* Every step keeps every variable in its type. *)
LEMMA TypingStep == IInv /\ [Next]_vars => Typing'
<1> SUFFICES ASSUME IInv, [Next]_vars PROVE Typing'
  OBVIOUS
<1> USE PoolAssumption
    DEF IInv, Typing, Threads, WorkerPlaces, ClientPlaces,
        ArgInFlight, BusyOwners, Busy, Holding
<1>1. ASSUME NEW t \in Tasks, CallAdd(t) PROVE Typing'
  BY <1>1 DEF CallAdd
<1>2. CASE AddLock
  BY <1>2 DEF AddLock, Acquire
<1>3. CASE Insert
  BY <1>3 DEF Insert, Link, Signalled, Awake, Asleep
<1>4. CASE CallWaitAll
  BY <1>4 DEF CallWaitAll
<1>5. CASE WaitLock
  BY <1>5 DEF WaitLock, Acquire
<1>6. CASE WaitSleep
  BY <1>6 DEF WaitSleep, Outstanding
<1>7. CASE WaitReturn
  BY <1>7 DEF WaitReturn, Outstanding
<1>8. CASE CallStop
  BY <1>8 DEF CallStop
<1>9. CASE StopLock
  BY <1>9 DEF StopLock, Acquire
<1>10. CASE Stop
  BY <1>10 DEF Stop, Broadcast, Awake, Asleep
<1>11. CASE Join
  BY <1>11 DEF Join
<1>12. ASSUME NEW w \in Workers, WorkerLock(w) PROVE Typing'
  BY <1>12 DEF WorkerLock, Acquire
<1>13. ASSUME NEW w \in Workers, WorkerSleep(w) PROVE Typing'
  BY <1>13 DEF WorkerSleep, MustSleep
<1>14. ASSUME NEW w \in Workers, WorkerExit(w) PROVE Typing'
  BY <1>14 DEF WorkerExit, MustSleep, ShouldExit
<1>15. ASSUME NEW w \in Workers, WorkerTake(w) PROVE Typing'
  BY <1>15 DEF WorkerTake, MustSleep, ShouldExit, Popped
<1>16. ASSUME NEW w \in Workers, RunTask(w) PROVE Typing'
  BY <1>16 DEF RunTask
<1>17. ASSUME NEW w \in Workers, DeleteTask(w) PROVE Typing'
  BY <1>17 DEF DeleteTask
<1>18. ASSUME NEW w \in Workers, WorkerRelock(w) PROVE Typing'
  BY <1>18 DEF WorkerRelock, Acquire
<1>19. ASSUME NEW w \in Workers, WorkerFinish(w) PROVE Typing'
  BY <1>19 DEF WorkerFinish, Decremented, BroadcastEmpty, Awake
<1>20. ASSUME NEW t \in Threads, SpuriousWakeup(t) PROVE Typing'
  BY <1>20 DEF Awake, SpuriousWakeup
<1>21. CASE UNCHANGED vars
  BY <1>21 DEF vars
<1>22. QED
  BY <1>1, <1>2, <1>3, <1>4, <1>5, <1>6, <1>7, <1>8, <1>9, <1>10, <1>11,
     <1>12, <1>13, <1>14, <1>15, <1>16, <1>17, <1>18, <1>19, <1>20, <1>21
  DEF Next, ClientCalls, ClientStep, WorkerStep, Terminated

(* Exactly the thread in a critical section holds queue_rwlock. *)
LEMMA MutexStep == IInv /\ [Next]_vars => MutexHeld'
<1> SUFFICES ASSUME IInv, [Next]_vars PROVE MutexHeld'
  OBVIOUS
<1> USE PoolAssumption
    DEF IInv, Typing, Threads, WorkerPlaces, ClientPlaces,
        MutexHeld, Critical
<1>1. ASSUME NEW t \in Tasks, CallAdd(t) PROVE MutexHeld'
  BY <1>1 DEF CallAdd
<1>2. CASE AddLock
  BY <1>2 DEF AddLock, Acquire
<1>3. CASE Insert
  BY <1>3 DEF Insert, Link, Signalled, Awake, Asleep
<1>4. CASE CallWaitAll
  BY <1>4 DEF CallWaitAll
<1>5. CASE WaitLock
  BY <1>5 DEF WaitLock, Acquire
<1>6. CASE WaitSleep
  BY <1>6 DEF WaitSleep, Outstanding
<1>7. CASE WaitReturn
  BY <1>7 DEF WaitReturn, Outstanding
<1>8. CASE CallStop
  BY <1>8 DEF CallStop
<1>9. CASE StopLock
  BY <1>9 DEF StopLock, Acquire
<1>10. CASE Stop
  BY <1>10 DEF Stop, Broadcast, Awake, Asleep
<1>11. CASE Join
  BY <1>11 DEF Join
<1>12. ASSUME NEW w \in Workers, WorkerLock(w) PROVE MutexHeld'
  BY <1>12 DEF WorkerLock, Acquire
<1>13. ASSUME NEW w \in Workers, WorkerSleep(w) PROVE MutexHeld'
  BY <1>13 DEF WorkerSleep, MustSleep
<1>14. ASSUME NEW w \in Workers, WorkerExit(w) PROVE MutexHeld'
  BY <1>14 DEF WorkerExit, MustSleep, ShouldExit
<1>15. ASSUME NEW w \in Workers, WorkerTake(w) PROVE MutexHeld'
  BY <1>15 DEF WorkerTake, MustSleep, ShouldExit, Popped
<1>16. ASSUME NEW w \in Workers, RunTask(w) PROVE MutexHeld'
  BY <1>16 DEF RunTask
<1>17. ASSUME NEW w \in Workers, DeleteTask(w) PROVE MutexHeld'
  BY <1>17 DEF DeleteTask
<1>18. ASSUME NEW w \in Workers, WorkerRelock(w) PROVE MutexHeld'
  BY <1>18 DEF WorkerRelock, Acquire
<1>19. ASSUME NEW w \in Workers, WorkerFinish(w) PROVE MutexHeld'
  BY <1>19 DEF WorkerFinish, Decremented, BroadcastEmpty, Awake
<1>20. ASSUME NEW t \in Threads, SpuriousWakeup(t) PROVE MutexHeld'
  BY <1>20 DEF Awake, SpuriousWakeup
<1>21. CASE UNCHANGED vars
  BY <1>21 DEF vars
<1>22. QED
  BY <1>1, <1>2, <1>3, <1>4, <1>5, <1>6, <1>7, <1>8, <1>9, <1>10, <1>11,
     <1>12, <1>13, <1>14, <1>15, <1>16, <1>17, <1>18, <1>19, <1>20, <1>21
  DEF Next, ClientCalls, ClientStep, WorkerStep, Terminated

(* The phases of the client and of the destructor. *)
LEMMA ControlStep ==
  IInv /\ [Next]_vars => (ClearedByStop /\ JoinedAll /\ ArgInFlight)'
<1> SUFFICES ASSUME IInv, [Next]_vars PROVE (ClearedByStop /\ JoinedAll /\
   ArgInFlight)'
  OBVIOUS
<1> USE PoolAssumption
    DEF IInv, Typing, Threads, WorkerPlaces, ClientPlaces,
        ClearedByStop, JoinedAll, ArgInFlight
<1>1. ASSUME NEW t \in Tasks, CallAdd(t) PROVE (ClearedByStop /\ JoinedAll /\
   ArgInFlight)'
  BY <1>1 DEF CallAdd
<1>2. CASE AddLock
  BY <1>2 DEF AddLock, Acquire
<1>3. CASE Insert
  BY <1>3 DEF Insert, Link, Signalled, Awake, Asleep
<1>4. CASE CallWaitAll
  BY <1>4 DEF CallWaitAll
<1>5. CASE WaitLock
  BY <1>5 DEF WaitLock, Acquire
<1>6. CASE WaitSleep
  BY <1>6 DEF WaitSleep, Outstanding
<1>7. CASE WaitReturn
  BY <1>7 DEF WaitReturn, Outstanding
<1>8. CASE CallStop
  BY <1>8 DEF CallStop
<1>9. CASE StopLock
  BY <1>9 DEF StopLock, Acquire
<1>10. CASE Stop
  BY <1>10 DEF Stop, Broadcast, Awake, Asleep
<1>11. CASE Join
  BY <1>11 DEF Join
<1>12. ASSUME NEW w \in Workers, WorkerLock(w) PROVE (ClearedByStop /\
   JoinedAll /\ ArgInFlight)'
  BY <1>12 DEF WorkerLock, Acquire
<1>13. ASSUME NEW w \in Workers, WorkerSleep(w) PROVE (ClearedByStop /\
   JoinedAll /\ ArgInFlight)'
  BY <1>13 DEF WorkerSleep, MustSleep
<1>14. ASSUME NEW w \in Workers, WorkerExit(w) PROVE (ClearedByStop /\
   JoinedAll /\ ArgInFlight)'
  BY <1>14 DEF WorkerExit, MustSleep, ShouldExit
<1>15. ASSUME NEW w \in Workers, WorkerTake(w) PROVE (ClearedByStop /\
   JoinedAll /\ ArgInFlight)'
  BY <1>15 DEF WorkerTake, MustSleep, ShouldExit, Popped
<1>16. ASSUME NEW w \in Workers, RunTask(w) PROVE (ClearedByStop /\ JoinedAll
   /\ ArgInFlight)'
  BY <1>16 DEF RunTask
<1>17. ASSUME NEW w \in Workers, DeleteTask(w) PROVE (ClearedByStop /\
   JoinedAll /\ ArgInFlight)'
  BY <1>17 DEF DeleteTask
<1>18. ASSUME NEW w \in Workers, WorkerRelock(w) PROVE (ClearedByStop /\
   JoinedAll /\ ArgInFlight)'
  BY <1>18 DEF WorkerRelock, Acquire
<1>19. ASSUME NEW w \in Workers, WorkerFinish(w) PROVE (ClearedByStop /\
   JoinedAll /\ ArgInFlight)'
  BY <1>19 DEF WorkerFinish, Decremented, BroadcastEmpty, Awake
<1>20. ASSUME NEW t \in Threads, SpuriousWakeup(t) PROVE (ClearedByStop /\
   JoinedAll /\ ArgInFlight)'
  BY <1>20 DEF Awake, SpuriousWakeup
<1>21. CASE UNCHANGED vars
  BY <1>21 DEF vars
<1>22. QED
  BY <1>1, <1>2, <1>3, <1>4, <1>5, <1>6, <1>7, <1>8, <1>9, <1>10, <1>11,
     <1>12, <1>13, <1>14, <1>15, <1>16, <1>17, <1>18, <1>19, <1>20, <1>21
  DEF Next, ClientCalls, ClientStep, WorkerStep, Terminated

(* A worker leaves only a pool that is stopped and empty, and it stays so. *)
LEMMA DrainStep == IInv /\ [Next]_vars => ExitedAfterDrain'
<1> SUFFICES ASSUME IInv, [Next]_vars PROVE ExitedAfterDrain'
  OBVIOUS
<1> USE PoolAssumption
    DEF IInv, Typing, Threads, WorkerPlaces, ClientPlaces,
        ExitedAfterDrain, ClearedByStop
<1>1. ASSUME NEW t \in Tasks, CallAdd(t) PROVE ExitedAfterDrain'
  BY <1>1 DEF CallAdd
<1>2. CASE AddLock
  BY <1>2 DEF AddLock, Acquire
<1>3. CASE Insert
  BY <1>3 DEF Insert, Link, Signalled, Awake, Asleep
<1>4. CASE CallWaitAll
  BY <1>4 DEF CallWaitAll
<1>5. CASE WaitLock
  BY <1>5 DEF WaitLock, Acquire
<1>6. CASE WaitSleep
  BY <1>6 DEF WaitSleep, Outstanding
<1>7. CASE WaitReturn
  BY <1>7 DEF WaitReturn, Outstanding
<1>8. CASE CallStop
  BY <1>8 DEF CallStop
<1>9. CASE StopLock
  BY <1>9 DEF StopLock, Acquire
<1>10. CASE Stop
  BY <1>10 DEF Stop, Broadcast, Awake, Asleep
<1>11. CASE Join
  BY <1>11 DEF Join
<1>12. ASSUME NEW w \in Workers, WorkerLock(w) PROVE ExitedAfterDrain'
  BY <1>12 DEF WorkerLock, Acquire
<1>13. ASSUME NEW w \in Workers, WorkerSleep(w) PROVE ExitedAfterDrain'
  BY <1>13 DEF WorkerSleep, MustSleep
<1>14. ASSUME NEW w \in Workers, WorkerExit(w) PROVE ExitedAfterDrain'
  BY <1>14 DEF WorkerExit, MustSleep, ShouldExit
<1>15. ASSUME NEW w \in Workers, WorkerTake(w) PROVE ExitedAfterDrain'
  BY <1>15 DEF WorkerTake, MustSleep, ShouldExit, Popped
<1>16. ASSUME NEW w \in Workers, RunTask(w) PROVE ExitedAfterDrain'
  BY <1>16 DEF RunTask
<1>17. ASSUME NEW w \in Workers, DeleteTask(w) PROVE ExitedAfterDrain'
  BY <1>17 DEF DeleteTask
<1>18. ASSUME NEW w \in Workers, WorkerRelock(w) PROVE ExitedAfterDrain'
  BY <1>18 DEF WorkerRelock, Acquire
<1>19. ASSUME NEW w \in Workers, WorkerFinish(w) PROVE ExitedAfterDrain'
  BY <1>19 DEF WorkerFinish, Decremented, BroadcastEmpty, Awake
<1>20. ASSUME NEW t \in Threads, SpuriousWakeup(t) PROVE ExitedAfterDrain'
  BY <1>20 DEF Awake, SpuriousWakeup
<1>21. CASE UNCHANGED vars
  BY <1>21 DEF vars
<1>22. QED
  BY <1>1, <1>2, <1>3, <1>4, <1>5, <1>6, <1>7, <1>8, <1>9, <1>10, <1>11,
     <1>12, <1>13, <1>14, <1>15, <1>16, <1>17, <1>18, <1>19, <1>20, <1>21
  DEF Next, ClientCalls, ClientStep, WorkerStep, Terminated

(* No two busy workers have the same task. *)
LEMMA OwnersStep == IInv /\ [Next]_vars => BusyOwners'
<1> SUFFICES ASSUME IInv, [Next]_vars PROVE BusyOwners'
  OBVIOUS
<1> USE PoolAssumption
    DEF IInv, Typing, Threads, WorkerPlaces, ClientPlaces,
        BusyOwners, Busy, Holding, OneOwner, Elements
<1>1. ASSUME NEW t \in Tasks, CallAdd(t) PROVE BusyOwners'
  BY <1>1 DEF CallAdd
<1>2. CASE AddLock
  BY <1>2 DEF AddLock, Acquire
<1>3. CASE Insert
  <2>1. Busy' = Busy /\ Holding' = Holding
    BY <1>3 DEF Insert, Signalled, Awake, Asleep
  <2>2. task' = task /\ freed' = freed
    BY <1>3 DEF Insert
  <2>3. BusyOwners
    OBVIOUS
  <2> QED BY <2>1, <2>2, <2>3 DEF BusyOwners
<1>4. CASE CallWaitAll
  BY <1>4 DEF CallWaitAll
<1>5. CASE WaitLock
  BY <1>5 DEF WaitLock, Acquire
<1>6. CASE WaitSleep
  BY <1>6 DEF WaitSleep, Outstanding
<1>7. CASE WaitReturn
  BY <1>7 DEF WaitReturn, Outstanding
<1>8. CASE CallStop
  BY <1>8 DEF CallStop
<1>9. CASE StopLock
  BY <1>9 DEF StopLock, Acquire
<1>10. CASE Stop
  BY <1>10 DEF Stop, Broadcast, Awake, Asleep
<1>11. CASE Join
  BY <1>11 DEF Join
<1>12. ASSUME NEW w \in Workers, WorkerLock(w) PROVE BusyOwners'
  BY <1>12 DEF WorkerLock, Acquire
<1>13. ASSUME NEW w \in Workers, WorkerSleep(w) PROVE BusyOwners'
  BY <1>13 DEF WorkerSleep, MustSleep
<1>14. ASSUME NEW w \in Workers, WorkerExit(w) PROVE BusyOwners'
  BY <1>14 DEF WorkerExit, MustSleep, ShouldExit
<1>15. ASSUME NEW w \in Workers, WorkerTake(w) PROVE BusyOwners'
  <2>1. /\ queue # <<>> /\ task' = [task EXCEPT ![w] = Head(queue)]
        /\ w \notin Busy /\ Busy' = Busy \cup {w}
        /\ Holding' = Holding \cup {w} /\ freed' = freed
    BY <1>15 DEF WorkerTake, MustSleep, ShouldExit
  <2>2. /\ Head(queue) \in Tasks
        /\ \A v \in Busy : task[v] # Head(queue)
    BY <2>1, HeadTail
  <2> QED BY <2>1, <2>2
<1>16. ASSUME NEW w \in Workers, RunTask(w) PROVE BusyOwners'
  BY <1>16 DEF RunTask
<1>17. ASSUME NEW w \in Workers, DeleteTask(w) PROVE BusyOwners'
  BY <1>17 DEF DeleteTask
<1>18. ASSUME NEW w \in Workers, WorkerRelock(w) PROVE BusyOwners'
  BY <1>18 DEF WorkerRelock, Acquire
<1>19. ASSUME NEW w \in Workers, WorkerFinish(w) PROVE BusyOwners'
  BY <1>19 DEF WorkerFinish, Decremented, BroadcastEmpty, Awake
<1>20. ASSUME NEW t \in Threads, SpuriousWakeup(t) PROVE BusyOwners'
  BY <1>20 DEF Awake, SpuriousWakeup
<1>21. CASE UNCHANGED vars
  BY <1>21 DEF vars
<1>22. QED
  BY <1>1, <1>2, <1>3, <1>4, <1>5, <1>6, <1>7, <1>8, <1>9, <1>10, <1>11,
     <1>12, <1>13, <1>14, <1>15, <1>16, <1>17, <1>18, <1>19, <1>20, <1>21
  DEF Next, ClientCalls, ClientStep, WorkerStep, Terminated

(* Nobody sleeps who should not. *)
LEMMA AsleepStep ==
  IInv /\ [Next]_vars => (NoMissedBroadcast /\ NoSleepAfterStop)'
<1> SUFFICES ASSUME IInv, [Next]_vars PROVE (NoMissedBroadcast /\
   NoSleepAfterStop)'
  OBVIOUS
<1> USE PoolAssumption
    DEF IInv, Typing, Threads, WorkerPlaces, ClientPlaces,
        NoMissedBroadcast, NoSleepAfterStop, ClearedByStop, Outstanding, Asleep
<1>1. ASSUME NEW t \in Tasks, CallAdd(t) PROVE (NoMissedBroadcast /\
   NoSleepAfterStop)'
  BY <1>1 DEF CallAdd
<1>2. CASE AddLock
  BY <1>2 DEF AddLock, Acquire
<1>3. CASE Insert
  BY <1>3 DEF Insert, Link, Signalled, Awake, Asleep
<1>4. CASE CallWaitAll
  BY <1>4 DEF CallWaitAll
<1>5. CASE WaitLock
  BY <1>5 DEF WaitLock, Acquire
<1>6. CASE WaitSleep
  BY <1>6 DEF WaitSleep, Outstanding
<1>7. CASE WaitReturn
  BY <1>7 DEF WaitReturn, Outstanding
<1>8. CASE CallStop
  BY <1>8 DEF CallStop
<1>9. CASE StopLock
  BY <1>9 DEF StopLock, Acquire
<1>10. CASE Stop
  BY <1>10 DEF Stop, Broadcast, Awake, Asleep
<1>11. CASE Join
  BY <1>11 DEF Join
<1>12. ASSUME NEW w \in Workers, WorkerLock(w) PROVE (NoMissedBroadcast /\
   NoSleepAfterStop)'
  BY <1>12 DEF WorkerLock, Acquire
<1>13. ASSUME NEW w \in Workers, WorkerSleep(w) PROVE (NoMissedBroadcast /\
   NoSleepAfterStop)'
  BY <1>13 DEF WorkerSleep, MustSleep
<1>14. ASSUME NEW w \in Workers, WorkerExit(w) PROVE (NoMissedBroadcast /\
   NoSleepAfterStop)'
  BY <1>14 DEF WorkerExit, MustSleep, ShouldExit
<1>15. ASSUME NEW w \in Workers, WorkerTake(w) PROVE (NoMissedBroadcast /\
   NoSleepAfterStop)'
  BY <1>15, FiniteSubsets DEF WorkerTake, MustSleep, ShouldExit, Popped,
     ActiveCounts
<1>16. ASSUME NEW w \in Workers, RunTask(w) PROVE (NoMissedBroadcast /\
   NoSleepAfterStop)'
  BY <1>16 DEF RunTask
<1>17. ASSUME NEW w \in Workers, DeleteTask(w) PROVE (NoMissedBroadcast /\
   NoSleepAfterStop)'
  BY <1>17 DEF DeleteTask
<1>18. ASSUME NEW w \in Workers, WorkerRelock(w) PROVE (NoMissedBroadcast /\
   NoSleepAfterStop)'
  BY <1>18 DEF WorkerRelock, Acquire
<1>19. ASSUME NEW w \in Workers, WorkerFinish(w) PROVE (NoMissedBroadcast /\
   NoSleepAfterStop)'
  BY <1>19 DEF WorkerFinish, Decremented, BroadcastEmpty, Awake
<1>20. ASSUME NEW t \in Threads, SpuriousWakeup(t) PROVE (NoMissedBroadcast /\
   NoSleepAfterStop)'
  BY <1>20 DEF Awake, SpuriousWakeup
<1>21. CASE UNCHANGED vars
  BY <1>21 DEF vars
<1>22. QED
  BY <1>1, <1>2, <1>3, <1>4, <1>5, <1>6, <1>7, <1>8, <1>9, <1>10, <1>11,
     <1>12, <1>13, <1>14, <1>15, <1>16, <1>17, <1>18, <1>19, <1>20, <1>21
  DEF Next, ClientCalls, ClientStep, WorkerStep, Terminated

(* Only taking and finishing a task changes who is busy, and the counter. *)
LEMMA BusyFrame ==
  ASSUME IInv, [Next]_vars, ~\E w \in Workers : WorkerTake(w) \/ WorkerFinish(w)
  PROVE  Busy' = Busy /\ active' = active
<1> USE PoolAssumption DEF IInv, Typing, Threads, Busy
<1>1. CASE ClientCalls
  BY <1>1 DEF ClientCalls, CallAdd, CallWaitAll, CallStop
<1>2. CASE AddLock \/ WaitLock \/ WaitSleep \/ WaitReturn \/ StopLock \/ Join
  BY <1>2 DEF AddLock, WaitLock, StopLock, Acquire, WaitSleep, WaitReturn, Join
<1>3. CASE Insert
  BY <1>3 DEF Insert, Signalled, Awake, Asleep
<1>4. CASE Stop
  BY <1>4 DEF Stop, Broadcast, Awake, Asleep
<1>5. ASSUME NEW w \in Workers, WorkerStep(w) PROVE Busy' = Busy /\ active' =
   active
  BY <1>5 DEF WorkerStep, WorkerLock, WorkerRelock, Acquire, WorkerSleep,
     WorkerExit, RunTask, DeleteTask
<1>6. ASSUME NEW t \in Threads, SpuriousWakeup(t) PROVE Busy' = Busy /\
   active' = active
  BY <1>6 DEF SpuriousWakeup, Awake
<1>7. CASE UNCHANGED vars
  BY <1>7 DEF vars
<1> QED BY <1>1, <1>2, <1>3, <1>4, <1>5, <1>6, <1>7 DEF Next, ClientStep,
   Terminated

(* The counter follows the set of busy workers. *)
LEMMA ActiveStep == IInv /\ [Next]_vars => ActiveCounts'
<1> SUFFICES ASSUME IInv, [Next]_vars PROVE ActiveCounts'
  OBVIOUS
<1> USE PoolAssumption DEF IInv, Typing, Threads, ActiveCounts
<1>1. ASSUME NEW w \in Workers, WorkerTake(w) PROVE ActiveCounts'
  <2>1. w \notin Busy /\ Busy' = Busy \cup {w} /\ active' = active + 1
    BY <1>1 DEF WorkerTake, Busy
  <2> QED BY <2>1, FiniteSubsets, FS_AddElement
<1>2. ASSUME NEW w \in Workers, WorkerFinish(w) PROVE ActiveCounts'
  <2>1. w \in Busy /\ Busy' = Busy \ {w} /\ active' = active - 1
    BY <1>2 DEF WorkerFinish, Decremented, BroadcastEmpty, Awake, Busy
  <2> QED BY <2>1, FiniteSubsets, FS_RemoveElement
<1> QED BY <1>1, <1>2, BusyFrame

(* The other steps wake workers or leave them alone. *)
LEMMA HeadingFrame ==
  ASSUME IInv, [Next]_vars,
         ~Insert,
         ~\E w \in Workers : WorkerSleep(w) \/ WorkerExit(w) \/ WorkerTake(w)
  PROVE  Heading \subseteq Heading' /\ Asleep' \subseteq Asleep /\ queue' =
     queue
<1> USE PoolAssumption DEF IInv, Typing, Threads, Heading, Asleep
<1>1. CASE ClientCalls
  BY <1>1 DEF ClientCalls, CallAdd, CallWaitAll, CallStop
<1>2. CASE AddLock \/ WaitLock \/ WaitSleep \/ WaitReturn \/ StopLock \/ Join
  BY <1>2 DEF AddLock, WaitLock, StopLock, Acquire, WaitSleep, WaitReturn, Join
<1>4. CASE Stop
  BY <1>4 DEF Stop, Broadcast, Awake, Asleep
<1>5. ASSUME NEW w \in Workers, WorkerStep(w) PROVE Heading \subseteq Heading'
   /\ Asleep' \subseteq Asleep /\ queue' = queue
  BY <1>5 DEF WorkerStep, WorkerLock, WorkerRelock, Acquire, WorkerFinish,
     BroadcastEmpty, Awake, RunTask, DeleteTask
<1>6. ASSUME NEW t \in Threads, SpuriousWakeup(t) PROVE Heading \subseteq
   Heading' /\ Asleep' \subseteq Asleep /\ queue' = queue
  BY <1>6 DEF SpuriousWakeup, Awake
<1>7. CASE UNCHANGED vars
  BY <1>7 DEF vars
<1> QED BY <1>1, <1>2, <1>4, <1>5, <1>6, <1>7 DEF Next, ClientStep, Terminated

(* The length of the queue. *)
LEMMA QueueLengths ==
  ASSUME Typing
  PROVE  /\ Len(queue) \in Nat
         /\ queue = <<>> <=> Len(queue) = 0
  BY DEF Typing

(* Insert adds a task and wakes a worker for it; taking a task uses up one of
   each; a worker sleeps or exits only when the queue is empty. *)
LEMMA WorkStep == IInv /\ [Next]_vars => WorkConserving'
<1> SUFFICES ASSUME IInv, [Next]_vars PROVE WorkConserving'
  OBVIOUS
<1> USE PoolAssumption DEF WorkConserving
<1> USE DEF IInv
<1>1. CASE Insert
  <2> SUFFICES ASSUME Asleep' # {} PROVE Len(queue') <= Cardinality(Heading')
    OBVIOUS
  <2>1. arg \in Tasks /\ Len(queue') = Len(queue) + 1
    BY <1>1 DEF Insert, Link, ArgInFlight, Typing
  <2>2. PICK woken \in Signalled : pc' = [Awake(woken) EXCEPT ![Main] = "client"]
    BY <1>1 DEF Insert
  <2>3. Asleep # {}
    BY <2>2 DEF Typing, Threads, Asleep, Signalled, Awake
  <2>4. PICK w \in Asleep : woken = {w}
    BY <2>2, <2>3 DEF Signalled
  <2>5. w \in Workers /\ \A v \in Workers : pc'[v] = IF v = w THEN "lock" ELSE pc[v]
    BY <2>2, <2>4 DEF Typing, Threads, Asleep, Awake
  <2>6. w \notin Heading /\ Heading' = Heading \cup {w}
    BY <2>4, <2>5 DEF Asleep, Heading
  <2>7. Cardinality(Heading') = Cardinality(Heading) + 1
    BY <2>6, FiniteSubsets, FS_AddElement
  <2> QED BY <2>1, <2>3, <2>7, FiniteSubsets, QueueLengths
<1>2. ASSUME NEW w \in Workers, WorkerSleep(w) \/ WorkerExit(w) PROVE
   WorkConserving'
  <2>1. queue = <<>> /\ queue' = queue
    BY <1>2 DEF WorkerSleep, WorkerExit, MustSleep, ShouldExit
  <2> QED BY <2>1, FiniteSubsets, FS_Subset, FS_CardinalityType,
     PoolAssumption DEF Heading
<1>3. ASSUME NEW w \in Workers, WorkerTake(w) PROVE WorkConserving'
  <2>1. w \in Heading /\ Heading' = Heading \ {w} /\ Asleep' = Asleep
    BY <1>3 DEF WorkerTake, Heading, Asleep, Typing, Threads
  <2>2. queue # <<>>
    BY <1>3 DEF WorkerTake, MustSleep, ShouldExit, Typing
  <2>3. Len(queue') = Len(queue) - 1
    BY <1>3, <2>2 DEF WorkerTake, Popped, Typing
  <2>4. Cardinality(Heading') = Cardinality(Heading) - 1
    BY <2>1, FiniteSubsets, FS_RemoveElement
  <2> QED BY <2>1, <2>3, <2>4, FiniteSubsets, QueueLengths
<1>4. CASE ~Insert /\ ~\E w \in Workers : WorkerSleep(w) \/ WorkerExit(w) \/ WorkerTake(w)
  <2>1. Heading \subseteq Heading' /\ Asleep' \subseteq Asleep /\ queue' = queue
    BY <1>4, HeadingFrame
  <2>2. IsFiniteSet(Heading')
    BY PoolAssumption, FS_Subset DEF Heading
  <2>3. Cardinality(Heading) <= Cardinality(Heading') /\ Cardinality(Heading') \in Nat
    BY <2>1, <2>2, FS_Subset, FS_CardinalityType
  <2> QED BY <2>1, <2>3, FiniteSubsets, QueueLengths
<1> QED BY <1>1, <1>2, <1>3, <1>4

(* The workers between run() and the end of delete. *)
Deleting == {w \in Workers : pc[w] = "delete"}

(* The steps that move no task. *)
LEMMA OwnerFrame ==
  ASSUME IInv, [Next]_vars, ~Insert, ~\E t \in Tasks : CallAdd(t),
         ~\E w \in Workers : WorkerTake(w) \/ RunTask(w) \/ DeleteTask(w)
  PROVE  /\ UNCHANGED <<queue, task, arg, submitted, ran, freed>>
         /\ Holding' = Holding /\ Deleting' = Deleting
<1> DEFINE Goal == /\ UNCHANGED <<queue, task, arg, submitted, ran, freed>>
                   /\ Holding' = Holding /\ Deleting' = Deleting
<1> SUFFICES Goal
  OBVIOUS
<1> USE PoolAssumption DEF IInv, Typing, Threads, Holding, Deleting
<1>1. CASE CallWaitAll \/ CallStop
  BY <1>1 DEF CallWaitAll, CallStop
<1>2. CASE AddLock \/ WaitLock \/ WaitSleep \/ WaitReturn \/ StopLock \/ Join
  BY <1>2 DEF AddLock, WaitLock, StopLock, Acquire, WaitSleep, WaitReturn, Join
<1>3. CASE Stop
  BY <1>3 DEF Stop, Broadcast, Awake, Asleep
<1>4. ASSUME NEW w \in Workers, WorkerLock(w) \/ WorkerRelock(w) PROVE Goal
  BY <1>4 DEF WorkerLock, WorkerRelock, Acquire
<1>5. ASSUME NEW w \in Workers, WorkerSleep(w) \/ WorkerExit(w) \/
   WorkerFinish(w) PROVE Goal
  BY <1>5 DEF WorkerSleep, WorkerExit, WorkerFinish, BroadcastEmpty, Awake
<1>6. ASSUME NEW t \in Threads, SpuriousWakeup(t) PROVE Goal
  BY <1>6 DEF SpuriousWakeup, Awake
<1>7. CASE UNCHANGED vars
  BY <1>7 DEF vars
<1> HIDE DEF Goal
<1> QED BY <1>1, <1>2, <1>3, <1>4, <1>5, <1>6, <1>7 DEF Next, ClientCalls,
   ClientStep, WorkerStep, Terminated

(* add_task, insert, next, run and delete move a task from one place to the
   next one. *)
LEMMA OneOwnerStep == IInv /\ [Next]_vars => OneOwner'
<1> SUFFICES ASSUME IInv, [Next]_vars PROVE OneOwner'
  OBVIOUS
<1> USE PoolAssumption
<1>0. /\ submitted = Elements(queue) \cup {task[w] : w \in Holding} \cup freed \cup ({arg} \ {None})
      /\ \A i, j \in 1..Len(queue) : queue[i] = queue[j] => i = j
      /\ \A v, w \in Holding : task[v] = task[w] => v = w
      /\ \A w \in Holding : task[w] \notin Elements(queue) \cup freed
      /\ Elements(queue) \cap freed = {}
      /\ arg \notin Elements(queue) \cup {task[w] : w \in Holding} \cup freed
      /\ \A t \in Tasks : ran[t] = IF t \in freed \/ \E w \in Deleting : task[w] = t THEN 1 ELSE 0
  BY DEF IInv, OneOwner, Deleting
<1> DEFINE Goal ==
      /\ submitted' = Elements(queue') \cup {task'[w] : w \in Holding'} \cup freed' \cup ({arg'} \ {None})
      /\ \A i, j \in 1..Len(queue') : queue'[i] = queue'[j] => i = j
      /\ \A v, w \in Holding' : task'[v] = task'[w] => v = w
      /\ \A w \in Holding' : task'[w] \notin Elements(queue') \cup freed'
      /\ Elements(queue') \cap freed' = {}
      /\ arg' \notin Elements(queue') \cup {task'[w] : w \in Holding'} \cup freed'
      /\ \A t \in Tasks : ran'[t] = IF t \in freed' \/ \E w \in Deleting' : task'[w] = t THEN 1 ELSE 0
<1> SUFFICES Goal
  BY DEF OneOwner, Deleting, Elements
<1> HIDE DEF Goal
<1>1. ASSUME NEW t \in Tasks, CallAdd(t) PROVE Goal
  <2>1. /\ submitted' = submitted \cup {t} /\ t \notin submitted /\ arg' = t /\ arg = None
        /\ UNCHANGED <<queue, task, ran, freed>> /\ t # None
    BY <1>1 DEF CallAdd, IInv, ArgInFlight, Typing
  <2>2. Holding' = Holding /\ Deleting' = Deleting
    BY <1>1 DEF CallAdd, IInv, Typing, Threads, Holding, Deleting
  <2> QED BY <1>0, <2>1, <2>2 DEF Goal, Elements
<1>2. CASE Insert
  <2>1. /\ queue' = Append(queue, arg) /\ arg' = None /\ arg \in Tasks
        /\ queue \in Seq(Tasks)
        /\ UNCHANGED <<task, submitted, ran, freed>>
    BY <1>2 DEF Insert, Link, IInv, ArgInFlight, Typing
  <2>2. Holding' = Holding /\ Deleting' = Deleting
    BY <1>2 DEF Insert, Signalled, Asleep, Awake, IInv, Typing, Threads,
       Holding, Deleting
  <2>3. /\ Elements(queue') = Elements(queue) \cup {arg}
        /\ \A i, j \in 1..Len(queue') : queue'[i] = queue'[j] => i = j
    BY <1>0, <2>1, Appended
  <2>4. None \notin Elements(queue) \cup {task[w] : w \in Holding} \cup freed \cup {arg}
    BY <2>1 DEF IInv, Typing, Elements, BusyOwners, Holding, Busy
  <2> QED BY <1>0, <2>1, <2>2, <2>3, <2>4 DEF Goal
<1>3. ASSUME NEW w \in Workers, WorkerTake(w) PROVE Goal
  <2>1. /\ queue \in Seq(Tasks) /\ queue # <<>> /\ queue' = Tail(queue)
        /\ task' = [task EXCEPT ![w] = Head(queue)]
        /\ task \in [Workers -> Tasks \cup {None}]
        /\ UNCHANGED <<arg, submitted, ran, freed>>
    BY <1>3 DEF WorkerTake, MustSleep, ShouldExit, Popped, IInv, Typing
  <2>2. w \notin Holding /\ Holding' = Holding \cup {w} /\ Deleting' = Deleting /\ Deleting \subseteq Holding
    BY <1>3 DEF WorkerTake, IInv, Typing, Threads, Holding, Deleting
  <2>3. /\ Elements(queue) = Elements(queue') \cup {Head(queue)}
        /\ Head(queue) \notin Elements(queue')
        /\ \A i, j \in 1..Len(queue') : queue'[i] = queue'[j] => i = j
    BY <1>0, <2>1, HeadTail
  <2>4. task'[w] = Head(queue) /\ \A v \in Holding : task'[v] = task[v]
    BY <2>1, <2>2 DEF Holding
  <2>5. {task'[v] : v \in Holding'} = {task[v] : v \in Holding} \cup {Head(queue)}
    BY <2>2, <2>4
  <2> QED BY <1>0, <2>1, <2>2, <2>3, <2>4, <2>5 DEF Goal
<1>4. ASSUME NEW w \in Workers, RunTask(w) PROVE Goal
  <2>1. /\ UNCHANGED <<queue, task, arg, submitted, freed>>
        /\ ran' = [ran EXCEPT ![task[w]] = @ + 1] /\ ran \in [Tasks -> Nat]
        /\ w \in Holding /\ w \notin Deleting /\ Deleting \subseteq Holding
    BY <1>4 DEF RunTask, IInv, Typing, Holding, Deleting
  <2>2. Holding' = Holding /\ Deleting' = Deleting \cup {w}
    BY <1>4 DEF RunTask, IInv, Typing, Threads, Holding, Deleting
  <2>3. task[w] \in Tasks /\ ran[task[w]] = 0
    BY <1>0, <2>1 DEF IInv, BusyOwners, Holding, Busy
  <2>4. \A t \in Tasks : ran'[t] = IF t \in freed' \/ \E v \in Deleting' : task'[v] = t THEN 1 ELSE 0
    BY <1>0, <2>1, <2>2, <2>3
  <2> QED BY <1>0, <2>1, <2>2, <2>4 DEF Goal
<1>5. ASSUME NEW w \in Workers, DeleteTask(w) PROVE Goal
  <2>1. /\ UNCHANGED <<queue, task, arg, submitted, ran>>
        /\ freed' = freed \cup {task[w]}
        /\ w \in Deleting /\ Deleting \subseteq Holding
    BY <1>5 DEF DeleteTask, IInv, Typing, Holding, Deleting
  <2>2. Holding' = Holding \ {w} /\ Deleting' = Deleting \ {w}
    BY <1>5 DEF DeleteTask, IInv, Typing, Threads, Holding, Deleting
  <2>3. {task[v] : v \in Holding} = {task[v] : v \in Holding'} \cup {task[w]}
    BY <2>1, <2>2
  <2>4. \A t \in Tasks : ran'[t] = IF t \in freed' \/ \E v \in Deleting' : task'[v] = t THEN 1 ELSE 0
    BY <1>0, <2>1, <2>2
  <2> QED BY <1>0, <2>1, <2>2, <2>3, <2>4 DEF Goal
<1>6. CASE ~(\/ \E t \in Tasks : CallAdd(t)
             \/ Insert
             \/ \E w \in Workers : WorkerTake(w) \/ RunTask(w) \/ DeleteTask(w))
  BY <1>0, <1>6, OwnerFrame DEF Goal
<1> QED BY <1>1, <1>2, <1>3, <1>4, <1>5, <1>6

-----------------------------------------------------------------------------
(* The invariant, and what follows from it. *)

(* The constructor establishes the invariant. *)
LEMMA InitIInv == Init => IInv
<1> SUFFICES ASSUME Init PROVE IInv
  OBVIOUS
<1> USE PoolAssumption
<1>1. Typing
  BY DEF Init, Typing, Threads, WorkerPlaces, ClientPlaces
<1>2. /\ Busy = {} /\ Holding = {} /\ Asleep = {} /\ Elements(queue) = {}
      /\ \A w \in Workers : pc[w] = "lock"
      /\ pc[Main] = "client"
  BY DEF Init, Busy, Holding, Asleep, Elements, Threads
<1>3. ActiveCounts
  BY <1>2, FS_EmptySet DEF ActiveCounts, Init
<1>4. MutexHeld /\ ClearedByStop /\ ExitedAfterDrain /\ JoinedAll /\ ArgInFlight
  BY <1>2 DEF MutexHeld, ClearedByStop, ExitedAfterDrain, JoinedAll,
     ArgInFlight,
              Critical, Threads, Init
<1>5. BusyOwners /\ WorkConserving /\ NoMissedBroadcast /\ NoSleepAfterStop
  BY <1>2 DEF BusyOwners, WorkConserving, NoMissedBroadcast, NoSleepAfterStop
<1>6. OneOwner
  BY <1>2 DEF OneOwner, Init
<1> QED BY <1>1, <1>3, <1>4, <1>5, <1>6 DEF IInv

(* Every step preserves the invariant. *)
LEMMA NextIInv == IInv /\ [Next]_vars => IInv'
BY TypingStep, MutexStep, ControlStep, DrainStep, OwnersStep, AsleepStep,
   ActiveStep, WorkStep, OneOwnerStep DEF IInv

(* The inductive invariant holds in every reachable state. *)
THEOREM Invariance == Spec => []IInv
<1>1. Init => IInv
  BY InitIInv
<1>2. IInv /\ [Next]_vars => IInv'
  BY NextIInv
<1> QED BY <1>1, <1>2, PTL DEF Spec

(* Type correctness: in particular ThreadPool::active stays between zero and
   the number of threads. *)
THEOREM TypeCorrect == Spec => []TypeOK
<1>1. IInv => TypeOK
  BY FiniteSubsets DEF IInv, Typing, ActiveCounts, TypeOK
<1> QED BY <1>1, Invariance, PTL

(* A task is in one place at a time, and its run() has returned once when it
   is deleted. *)
THEOREM TasksHaveOneOwner == Spec => []OneOwner
<1>1. IInv => OneOwner
  BY DEF IInv
<1> QED BY <1>1, Invariance, PTL

(* No worker sleeps while more tasks are queued than awake workers are on
   their way to the queue (WorkConserving). *)
THEOREM NoLostWakeup == Spec => []WorkConserving
<1>1. IInv => WorkConserving
  BY DEF IInv
<1> QED BY <1>1, Invariance, PTL

(* Somebody can always go on (NeverAllWaiting).  The holder of the mutex can.
   With the mutex free, a client in wait_all waits for a task that a worker
   has, or that a worker heads for since no more may be queued while others
   sleep; and a client in join waits for a worker that cannot sleep any more. *)
LEMMA NotAllWaiting == IInv => NeverAllWaiting
<1> SUFFICES ASSUME IInv, pc[Main] # "destroyed", \A t \in Threads : Waiting(t)
             PROVE  FALSE
  BY DEF NeverAllWaiting
<1>1. mutex = None
  <2>1. ASSUME NEW t \in Threads, pc[t] \in Critical PROVE FALSE
    <3>1. Waiting(t)
      OBVIOUS
    <3> QED BY <2>1, <3>1 DEF Waiting, WantsMutex, Critical
  <2>2. mutex \notin Threads
    BY <2>1 DEF IInv, MutexHeld
  <2> QED BY <2>2 DEF IInv, Typing
<1>2. \A t \in Threads : pc[t] \in {"asleep", "wait_asleep", "exited", "join"}
  <2> SUFFICES ASSUME NEW t \in Threads
               PROVE  pc[t] \in {"asleep", "wait_asleep", "exited", "join"}
    OBVIOUS
  <2>1. Waiting(t) /\ (t = Main \/ pc[t] # "destroyed")
    BY DEF Threads, IInv, Typing, WorkerPlaces
  <2> QED BY <1>1, <2>1 DEF Waiting
<1>3. \A w \in Workers : pc[w] \in {"asleep", "exited"}
  BY <1>2 DEF Threads, IInv, Typing, WorkerPlaces
<1>4. Busy = {} /\ Heading = {}
  BY <1>3 DEF Busy, Heading
<1>5. active = 0 /\ Cardinality(Heading) = 0
  BY <1>4, FS_EmptySet DEF IInv, ActiveCounts
<1>6. CASE pc[Main] = "wait_asleep"
  <2>1. queue # <<>>
    BY <1>5, <1>6 DEF IInv, NoMissedBroadcast, Outstanding
  <2>2. \A w \in Workers : pc[w] = "asleep"
    BY <1>3, <2>1 DEF IInv, ExitedAfterDrain
  <2>3. Asleep # {}
    BY <2>2, PoolAssumption DEF Asleep
  <2> QED BY <1>5, <2>1, <2>3 DEF IInv, WorkConserving, Typing
<1>7. CASE pc[Main] = "join"
  <2>1. PICK w \in Workers : pc[w] # "exited"
    <3>1. Waiting(Main)
      BY DEF Threads
    <3> QED BY <1>1, <1>7, <3>1 DEF Waiting
  <2>2. running = 0
    BY <1>7 DEF IInv, ClearedByStop, Typing
  <2> QED BY <1>3, <2>1, <2>2 DEF IInv, NoSleepAfterStop, Asleep
<1>8. pc[Main] \in {"wait_asleep", "join"}
  BY <1>2 DEF Threads, IInv, Typing, ClientPlaces
<1> QED BY <1>6, <1>7, <1>8

(* No broadcast is missed and never does everybody wait: nobody waits for ever
   (NobodyForgotten). *)
THEOREM DeadlockFree == Spec => []NobodyForgotten
<1>1. IInv => NobodyForgotten
  BY NotAllWaiting DEF IInv, NobodyForgotten
<1> QED BY <1>1, Invariance, PTL

(* Nothing is left when nobody is busy, queued or being added. *)
LEMMA QuietMeansDone ==
  ASSUME IInv, queue = <<>>, active = 0, arg = None
  PROVE  submitted = freed /\ (\A t \in submitted : ran[t] = 1) /\ Busy = {}
<1>1. Busy = {}
  BY FiniteSubsets, FS_EmptySet DEF IInv, ActiveCounts
<1>2. Holding = {} /\ Elements(queue) = {}
  BY <1>1 DEF Holding, Busy, Elements
<1>3. submitted = freed
  BY <1>2 DEF IInv, OneOwner
<1> QED BY <1>1, <1>3 DEF IInv, Typing, OneOwner

(* Workers exit a drained pool. *)
LEMMA AllExited ==
  ASSUME IInv, \A w \in Workers : pc[w] = "exited"
  PROVE  Busy = {} /\ queue = <<>> /\ active = 0
<1>1. Busy = {} /\ queue = <<>>
  BY PoolAssumption DEF Busy, IInv, ExitedAfterDrain
<1> QED BY <1>1, FS_EmptySet DEF IInv, ActiveCounts

(* The destructor returns from a drained pool. *)
THEOREM DestructorDrains == Spec => []DrainedAtDestroy
<1>1. IInv => DrainedAtDestroy
  BY AllExited, QuietMeansDone
  DEF IInv, JoinedAll, ArgInFlight, DrainedAtDestroy
<1> QED BY <1>1, Invariance, PTL

(* The only step from wait_check to client is the return of wait_all. *)
LEMMA BarrierStep ==
  ASSUME IInv, [Next]_vars, pc[Main] = "wait_check", pc'[Main] = "client"
  PROVE  submitted = freed /\ \A t \in submitted : ran[t] = 1
<1> USE PoolAssumption DEF IInv, Typing, Threads
<1>1. ASSUME NEW w \in Workers, WorkerStep(w) PROVE FALSE
  BY <1>1 DEF WorkerStep, WorkerLock, WorkerRelock, Acquire, WorkerSleep,
     WorkerExit,
              WorkerTake, RunTask, DeleteTask, WorkerFinish, BroadcastEmpty, Awake
<1>2. ASSUME NEW t \in Threads, SpuriousWakeup(t) PROVE FALSE
  BY <1>2 DEF SpuriousWakeup, Awake
<1>3. ~Outstanding
  BY <1>1, <1>2 DEF Next, ClientCalls, CallAdd, CallWaitAll, CallStop,
     ClientStep, AddLock, Insert,
     WaitLock, WaitSleep, WaitReturn, StopLock, Stop, Join, Acquire, Terminated, vars
<1> QED BY <1>3, QuietMeansDone DEF Outstanding, ArgInFlight

(* wait_all is a barrier: it returns when every task added has run once and
   has been deleted. *)
THEOREM WaitAllIsBarrier == Spec => Barrier
<1>1. IInv /\ [Next]_vars =>
        [pc[Main] = "wait_check" /\ pc'[Main] = "client"
           => submitted = freed /\ \A t \in submitted : ran[t] = 1]_vars
  BY BarrierStep
<1> QED BY <1>1, Invariance, PTL DEF Spec, Barrier

-----------------------------------------------------------------------------
(* The pool implements the abstract executor. *)

(* The initial states correspond. *)
LEMMA ExecutorInit == Init => Executor!XInit
<1> SUFFICES ASSUME Init PROVE Executor!XInit
  OBVIOUS
<1> QED BY PoolAssumption DEF Init, Executor!XInit, Executing, Busy,
   ClientView, Threads

(* The client stays in the same phase of its use of the pool. *)
SamePhase ==
  \/ pc'[Main] = pc[Main]
  \/ {pc[Main], pc'[Main]} \subseteq {"client", "add_lock", "insert"}
  \/ {pc[Main], pc'[Main]} \subseteq {"wait_lock", "wait_check", "wait_asleep"}
  \/ {pc[Main], pc'[Main]} \subseteq {"stop_lock", "stop", "join"}

(* The steps the executor does not see. *)
LEMMA ExecutorFrame ==
  ASSUME IInv, IInv', [Next]_vars,
         ~Insert, ~WaitReturn, ~Join, ~CallWaitAll, ~CallStop,
         ~\E w \in Workers : WorkerTake(w) \/ WorkerFinish(w) \/ DeleteTask(w)
  PROVE  UNCHANGED <<queue, Executing, freed, ClientView>>
<1> DEFINE Goal == UNCHANGED <<queue, task, freed>> /\ SamePhase
<1>0. Typing /\ Typing'
  BY DEF IInv
<1> USE <1>0, PoolAssumption DEF Typing, Threads, SamePhase
<1>1. ASSUME NEW t \in Tasks, CallAdd(t) PROVE Goal
  BY <1>1 DEF CallAdd
<1>2. ASSUME AddLock \/ WaitLock \/ WaitSleep \/ StopLock PROVE Goal
  BY <1>2 DEF AddLock, WaitLock, StopLock, Acquire, WaitSleep
<1>3. ASSUME Stop PROVE Goal
  BY <1>3 DEF Stop, Broadcast, Awake, Asleep
<1>4. ASSUME NEW w \in Workers, WorkerStep(w) PROVE Goal
  BY <1>4 DEF WorkerStep, WorkerLock, WorkerRelock, Acquire, WorkerSleep,
     WorkerExit, RunTask
<1>5. ASSUME NEW t \in Threads, SpuriousWakeup(t) PROVE Goal
  BY <1>5 DEF SpuriousWakeup, Awake, ClientPlaces
<1>6. ASSUME UNCHANGED vars PROVE Goal
  BY <1>6 DEF vars
<1>7. Goal
  <2> HIDE <1>0 DEF Goal, Typing, SamePhase
  <2> QED BY <1>1, <1>2, <1>3, <1>4, <1>5, <1>6 DEF Next, ClientCalls,
     ClientStep, Terminated
<1>8. Busy' = Busy
  BY BusyFrame
<1>9. ClientView' = ClientView
  BY <1>7 DEF ClientView, ClientPlaces
<1> QED BY <1>7, <1>8, <1>9 DEF Executing

(* Every other step of the pool is a step of the executor. *)
LEMMA ExecutorStep ==
  ASSUME IInv, IInv', [Next]_vars
  PROVE  [Executor!XNext]_(Executor!xvars)
<1> USE PoolAssumption
<1>0. /\ \A w \in Busy : task[w] \in Tasks
      /\ \A v, w \in Busy : task[v] = task[w] => v = w
      /\ \A w \in Busy \ Holding : task[w] \in freed
  BY DEF IInv, BusyOwners
<1>1. CASE Insert
  <2>1. /\ queue' = Append(queue, arg) /\ arg \in Tasks
        /\ UNCHANGED <<task, freed>>
        /\ pc[Main] = "insert" /\ pc'[Main] = "client"
    BY <1>1 DEF Insert, Link, Signalled, Asleep, Awake, IInv, Typing,
       ArgInFlight, Threads
  <2>4. Busy' = Busy
    BY <1>1, BusyFrame DEF Insert, WorkerTake, WorkerFinish, IInv,
       MutexHeld, Critical, Threads
  <2>5. Executing' = Executing /\ ClientView = "open" /\ ClientView' = "open"
    BY <2>1, <2>4 DEF Executing, ClientView
  <2>2. arg \notin Executor!Known
    BY <1>0 DEF Executor!Known, Executor!Elements, IInv, OneOwner,
       Elements, Executing
  <2>3. Executor!Submit(arg)
    BY <2>1, <2>2, <2>5 DEF Executor!Submit
  <2> QED BY <2>1, <2>3 DEF Executor!XNext
<1>2. CASE WaitReturn
  <2>1. /\ UNCHANGED <<queue, Executing, freed>>
        /\ ClientView = "waiting" /\ ClientView' = "open" /\ queue = <<>> /\ active = 0
    BY <1>2 DEF WaitReturn, Outstanding, IInv, Typing, Threads, Executing,
       Busy, ClientView
  <2>2. Executing = {}
    BY <2>1, FiniteSubsets, FS_EmptySet DEF IInv, ActiveCounts, Executing
  <2> QED BY <2>1, <2>2 DEF Executor!XNext, Executor!Release, Executor!Quiet
<1>3. CASE Join
  <2>1. /\ UNCHANGED <<queue, Executing, freed>>
        /\ ClientView = "closing" /\ ClientView' = "closed"
    BY <1>3 DEF Join, IInv, Typing, Threads, Executing, Busy, ClientView
  <2>2. Executing = {} /\ queue = <<>>
    BY <1>3, AllExited DEF Join, Executing
  <2> QED BY <2>1, <2>2 DEF Executor!XNext, Executor!Closed, Executor!Quiet
<1>4. CASE CallWaitAll
  <2>1. /\ UNCHANGED <<queue, Executing, freed>>
        /\ ClientView = "open" /\ ClientView' = "waiting"
    BY <1>4 DEF CallWaitAll, IInv, Typing, Threads, Executing, Busy, ClientView
  <2> QED BY <2>1 DEF Executor!XNext, Executor!Wait
<1>5. CASE CallStop
  <2>1. /\ UNCHANGED <<queue, Executing, freed>>
        /\ ClientView = "open" /\ ClientView' = "closing"
    BY <1>5 DEF CallStop, IInv, Typing, Threads, Executing, Busy, ClientView
  <2> QED BY <2>1 DEF Executor!XNext, Executor!Close
<1>6. ASSUME NEW w \in Workers, WorkerTake(w) PROVE Executor!XNext
  <2>1. /\ queue # <<>> /\ queue' = Tail(queue) /\ freed' = freed
        /\ task' = [task EXCEPT ![w] = Head(queue)]
        /\ pc'[Main] = pc[Main]
        /\ w \notin Busy /\ Busy' = Busy \cup {w}
    BY <1>6 DEF WorkerTake, MustSleep, ShouldExit, Popped, IInv, Typing,
       Threads, Busy
  <2>7. ClientView' = ClientView
    BY <2>1 DEF ClientView
  <2>2. task'[w] = Head(queue) /\ \A v \in Busy : task'[v] = task[v]
    BY <2>1 DEF IInv, Typing, Busy
  <2>3. Executing' = Executing \cup {Head(queue)}
    BY <2>1, <2>2 DEF Executing
  <2>4. Head(queue) \notin freed
    BY <2>1, HeadTail DEF IInv, Typing, OneOwner
  <2>5. Cardinality(Executing) < Cardinality(Workers)
    <3>1. Cardinality(Busy) < Cardinality(Workers)
      BY <2>1, FiniteSubsets, FS_Subset DEF Busy
    <3>2. [v \in Busy |-> task[v]] \in Surjection(Busy, Executing)
      BY DEF Surjection, Executing
    <3>3. Cardinality(Executing) <= Cardinality(Busy) /\ IsFiniteSet(Executing)
      BY <3>2, FiniteSubsets, FS_Surjection
    <3>4. Cardinality(Executing) \in Nat
      BY <3>3, FS_CardinalityType
    <3> QED BY <3>1, <3>3, <3>4, FiniteSubsets
  <2>6. (freed \ Executing)' = freed \ Executing
    BY <2>1, <2>3, <2>4
  <2>8. Executor!Start
    BY <2>1, <2>3, <2>5, <2>6, <2>7 DEF Executor!Start,
       Executor!Cardinality, Cardinality, Executor!IsFiniteSet,
       IsFiniteSet
  <2> QED BY <2>8 DEF Executor!XNext
<1>7. ASSUME NEW w \in Workers, WorkerFinish(w) PROVE Executor!XNext
  <2>1. /\ UNCHANGED <<queue, task, freed>> /\ ClientView' = ClientView
        /\ w \in Busy \ Holding /\ Busy' = Busy \ {w}
    BY <1>7 DEF WorkerFinish, Decremented, BroadcastEmpty, Awake, IInv,
       Typing, Threads, Busy, Holding, ClientView
  <2>2. Executing' = Executing \ {task[w]}
    BY <1>0, <2>1 DEF Executing
  <2>3. task[w] \in Executing /\ task[w] \in freed /\ task[w] \in Tasks
    BY <1>0, <2>1 DEF Executing
  <2>4. Executor!Finish(task[w])
    BY <2>1, <2>2, <2>3 DEF Executor!Finish
  <2> QED BY <2>3, <2>4 DEF Executor!XNext
<1>8. ASSUME NEW w \in Workers, DeleteTask(w) PROVE UNCHANGED Executor!xvars
  <2>1. /\ UNCHANGED <<queue, task>> /\ freed' = freed \cup {task[w]}
        /\ pc'[Main] = pc[Main] /\ w \in Busy /\ Busy' = Busy
    BY <1>8 DEF DeleteTask, IInv, Typing, Threads, Busy
  <2>2. UNCHANGED <<Executing, ClientView>> /\ task[w] \in Executing
    BY <2>1 DEF Executing, ClientView
  <2> QED BY <2>1, <2>2 DEF Executor!xvars
<1>9. CASE ~(\/ Insert \/ WaitReturn \/ Join \/ CallWaitAll \/ CallStop
             \/ \E w \in Workers : WorkerTake(w) \/ WorkerFinish(w) \/ DeleteTask(w))
  BY <1>9, ExecutorFrame DEF Executor!xvars
<1> QED BY <1>1, <1>2, <1>3, <1>4, <1>5, <1>6, <1>7, <1>8, <1>9

(* Every behaviour of the pool is, seen through Executing and ClientView, one
   of the abstract executor: first come first started, at most as many at a
   time as there are threads, wait_all and the destructor wait for all. *)
THEOREM ImplementsExecutorSafety == Spec => Executor!XSafety
<1>1. Init => Executor!XInit
  BY ExecutorInit
<1>2. IInv /\ IInv' /\ [Next]_vars => [Executor!XNext]_(Executor!xvars)
  BY ExecutorStep
<1> QED BY <1>1, <1>2, Invariance, PTL DEF Spec, Executor!XSafety



-----------------------------------------------------------------------------
(* The work stack of block_indirect_sort: the shape of the C++ stacks.      *)

(* A stack of the model: its entries are numbered from 1. *)
IsSeq(s) == Len(s) \in Nat /\ s = [n \in 1..Len(s) |-> s[n]]

(* A function in progress. *)
IsFrame(f) ==
  f = [op |-> f.op, arg |-> f.arg, owner |-> f.owner, pushed |-> f.pushed,
       at |-> f.at, i |-> f.i]

(* stack maps every thread to a sequence of functions in progress. *)
Shape ==
  /\ stack = [t \in AllThreads |-> stack[t]]
  /\ \A t \in AllThreads :
       /\ IsSeq(stack[t])
       /\ \A n \in 1..Len(stack[t]) : IsFrame(stack[t][n])

(* What Append and the removal of the last entry do to such a sequence,
   whatever its entries are. *)
LEMMA SeqAppended ==
  ASSUME NEW s, IsSeq(s), NEW e
  PROVE  /\ IsSeq(Append(s, e)) /\ Len(s) \in Nat
         /\ Len(Append(s, e)) = Len(s) + 1 /\ Append(s, e)[Len(s) + 1] = e
         /\ \A n \in 1..Len(s) : Append(s, e)[n] = s[n]
<1> DEFINE S == {s[n] : n \in 1..Len(s)} \cup {e}
           r == Append(s, e)
<1>1. s \in Seq(S) /\ e \in S
  BY DEF IsSeq
<1>2. r \in Seq(S) /\ Len(r) = Len(s) + 1 /\ Len(s) \in Nat
  BY <1>1 DEF IsSeq
<1>3. r[Len(s) + 1] = e /\ \A n \in 1..Len(s) : r[n] = s[n]
  BY <1>1
<1>4. r \in [1..Len(r) -> S]
  <2> HIDE DEF r, S
  <2> QED BY <1>2, LenProperties
<1>5. IsSeq(r)
  <2> HIDE DEF r, S
  <2> QED BY <1>2, <1>4 DEF IsSeq
<1> QED BY <1>2, <1>3, <1>5

LEMMA SeqShortened ==
  ASSUME NEW s, IsSeq(s), s # <<>>
  PROVE  /\ IsSeq(SubSeq(s, 1, Len(s) - 1)) /\ Len(s) \in Nat \ {0}
         /\ Len(SubSeq(s, 1, Len(s) - 1)) = Len(s) - 1
         /\ \A n \in 1..(Len(s) - 1) : SubSeq(s, 1, Len(s) - 1)[n] = s[n]
<1> DEFINE r == SubSeq(s, 1, Len(s) - 1)
           S == {s[n] : n \in 1..Len(s)}
<1>1. Len(s) \in Nat \ {0}
  BY DEF IsSeq
<1>2. s \in Seq(S)
  BY DEF IsSeq
<1>3. r = [n \in 1..(Len(s) - 1) |-> s[n]]
  BY <1>1, <1>2
<1>4. Len(r) = Len(s) - 1
  BY <1>1, <1>3
<1> QED BY <1>1, <1>3, <1>4 DEF IsSeq

(* Replacing the fields at (and i) of an entry leaves the other entries and
   the other fields alone. *)
LEMMA FramePlaced ==
  ASSUME NEW f, IsFrame(f), NEW at
  PROVE  [f EXCEPT !.at = at] =
           [op |-> f.op, arg |-> f.arg, owner |-> f.owner, pushed |-> f.pushed,
            at |-> at, i |-> f.i]
<1>1. ASSUME NEW op, NEW range, NEW owner, NEW pushed, NEW at0, NEW i0,
             f = [op |-> op, arg |-> range, owner |-> owner, pushed |-> pushed,
                  at |-> at0, i |-> i0]
      PROVE  [f EXCEPT !.at = at] =
               [op |-> op, arg |-> range, owner |-> owner, pushed |-> pushed,
                at |-> at, i |-> i0]
  BY <1>1
<1> QED BY <1>1 DEF IsFrame

LEMMA FrameMoved ==
  ASSUME NEW f, IsFrame(f), NEW at, NEW i
  PROVE  [f EXCEPT !.at = at, !.i = i] =
           [op |-> f.op, arg |-> f.arg, owner |-> f.owner, pushed |-> f.pushed,
            at |-> at, i |-> i]
<1> DEFINE g == [f EXCEPT !.at = at]
<1>1. g = [op |-> f.op, arg |-> f.arg, owner |-> f.owner, pushed |-> f.pushed,
           at |-> at, i |-> f.i]
  BY FramePlaced
<1>2. [g EXCEPT !.i = i] =
        [op |-> f.op, arg |-> f.arg, owner |-> f.owner, pushed |-> f.pushed,
         at |-> at, i |-> i]
  <2> HIDE DEF g
  <2> QED BY <1>1
<1> QED BY <1>2

(* The places on the stacks st of the threads, and the function at a place. *)
PlacesIn(st) == UNION {{t} \X (1..Len(st[t])) : t \in AllThreads}
In(st, p) == st[p[1]][p[2]]

LEMMA PlacesDef ==
  ASSUME NEW st
  PROVE  /\ \A t, n : <<t, n>> \in PlacesIn(st)
                        <=> t \in AllThreads /\ n \in 1..Len(st[t])
         /\ \A p \in PlacesIn(st) :
              p = <<p[1], p[2]>> /\ p[1] \in AllThreads /\ p[2] \in 1..Len(st[p[1]])
  BY DEF PlacesIn

LEMMA TopPlace ==
  ASSUME Shape, NEW t \in AllThreads, stack[t] # <<>>
  PROVE  /\ Self(t) \in PlacesIn(stack) /\ In(stack, Self(t)) = Top(t)
         /\ Len(stack[t]) \in Nat \ {0} /\ IsFrame(Top(t))
         /\ Self(t)[1] = t /\ Self(t)[2] = Len(stack[t])
<1>1. IsSeq(stack[t])
  BY DEF Shape
<1>2. Len(stack[t]) \in Nat \ {0}
  BY <1>1, SeqShortened
<1>3. IsFrame(stack[t][Len(stack[t])])
  BY <1>2 DEF Shape
<1> QED BY <1>2, <1>3, PlacesDef DEF Self, In, Top

(* What the three ways to change a stack do to the places: the innermost
   function of t goes on elsewhere (GotoWith), calls (Enter) or returns. *)
LEMMA Moved ==
  ASSUME Shape, NEW t \in AllThreads, stack[t] # <<>>, NEW at, NEW i,
         GotoWith(t, at, i)
  PROVE  /\ Shape'
         /\ PlacesIn(stack') = PlacesIn(stack)
         /\ \A p \in PlacesIn(stack) \ {Self(t)} : In(stack', p) = In(stack, p)
         /\ In(stack', Self(t)) =
              [op |-> Top(t).op, arg |-> Top(t).arg, owner |-> Top(t).owner,
               pushed |-> Top(t).pushed, at |-> at, i |-> i]
<1> DEFINE len == Len(stack[t])
           f == [stack[t][len] EXCEPT !.at = at, !.i = i]
           r == [stack[t] EXCEPT ![len] = f]
<1>1. IsSeq(stack[t]) /\ len \in Nat \ {0}
  BY TopPlace DEF Shape
<1>2. stack' = [stack EXCEPT ![t] = r]
  BY DEF GotoWith, Top
<1>3. stack'[t] = r /\ \A u \in AllThreads : u # t => stack'[u] = stack[u]
  BY <1>2 DEF Shape
<1>4. f = [op |-> Top(t).op, arg |-> Top(t).arg, owner |-> Top(t).owner,
           pushed |-> Top(t).pushed, at |-> at, i |-> i]
  <2>1. IsFrame(stack[t][len])  BY <1>1 DEF Shape
  <2> QED BY <2>1, FrameMoved DEF Top
<1>5. /\ DOMAIN r = 1..len /\ r[len] = f
      /\ \A n \in 1..len : n # len => r[n] = stack[t][n]
  BY <1>1 DEF IsSeq
<1>6. Len(r) = len
  BY <1>1 DEF IsSeq
<1>8. IsSeq(r)
  BY <1>6, <1>5, <1>1 DEF IsSeq
<1>9. IsFrame(f)
  BY <1>4 DEF IsFrame
<1>10. Shape'
  <2>1. stack' = [u \in AllThreads |-> stack'[u]]
    BY <1>2 DEF Shape
  <2>2. ASSUME NEW u \in AllThreads
        PROVE  IsSeq(stack'[u]) /\ \A n \in 1..Len(stack'[u]) : IsFrame(stack'[u][n])
    <3>1. CASE u = t
      <4>1. \A n \in 1..Len(stack[t]) : IsFrame(r[n])
        BY <1>5, <1>9 DEF Shape
      <4> QED BY <3>1, <1>3, <1>6, <1>8, <4>1
    <3>2. CASE u # t
      BY <3>2, <1>3 DEF Shape
    <3> QED BY <3>1, <3>2
  <2> QED BY <2>1, <2>2 DEF Shape
<1>11. \A u \in AllThreads : Len(stack'[u]) = Len(stack[u])
  BY <1>3, <1>6
<1>12. PlacesIn(stack') = PlacesIn(stack)
  BY <1>11 DEF PlacesIn
<1>13. ASSUME NEW p \in PlacesIn(stack), p # Self(t)
       PROVE  In(stack', p) = In(stack, p)
  <2> HIDE DEF f
  <2>1. p = <<p[1], p[2]>> /\ p[1] \in AllThreads /\ p[2] \in 1..Len(stack[p[1]])
    BY PlacesDef
  <2>2. CASE p[1] = t
    BY <2>1, <2>2, <1>3, <1>5, <1>13 DEF In, Self
  <2>3. CASE p[1] # t
    BY <2>1, <2>3, <1>3 DEF In
  <2> QED BY <2>2, <2>3
<1>14. In(stack', Self(t)) = f
  <2> HIDE DEF f
  <2> QED BY <1>3, <1>5 DEF In, Self
<1> QED BY <1>4, <1>10, <1>12, <1>13, <1>14

LEMMA Entered ==
  ASSUME Shape, NEW t \in AllThreads, stack[t] # <<>>, NEW at, NEW w,
         Enter(t, at, w)
  PROVE  /\ Shape'
         /\ Callee(t) \notin PlacesIn(stack)
         /\ PlacesIn(stack') = PlacesIn(stack) \cup {Callee(t)}
         /\ \A p \in PlacesIn(stack) \ {Self(t)} : In(stack', p) = In(stack, p)
         /\ In(stack', Self(t)) =
              [op |-> Top(t).op, arg |-> Top(t).arg, owner |-> Top(t).owner,
               pushed |-> Top(t).pushed, at |-> at, i |-> Top(t).i]
         /\ In(stack', Callee(t)) = Frame(w)
         /\ Callee(t) = <<t, Self(t)[2] + 1>>
<1> DEFINE len == Len(stack[t])
           f == [stack[t][len] EXCEPT !.at = at]
           r == [stack[t] EXCEPT ![len] = f]
           q == Append(r, Frame(w))
<1>1. IsSeq(stack[t]) /\ len \in Nat \ {0}
  BY TopPlace DEF Shape
<1>2. stack' = [stack EXCEPT ![t] = q]
  BY DEF Enter
<1>3. stack'[t] = q /\ \A u \in AllThreads : u # t => stack'[u] = stack[u]
  BY <1>2 DEF Shape
<1>4. f = [op |-> Top(t).op, arg |-> Top(t).arg, owner |-> Top(t).owner,
           pushed |-> Top(t).pushed, at |-> at, i |-> Top(t).i]
  <2>1. IsFrame(stack[t][len])  BY <1>1 DEF Shape
  <2> QED BY <2>1, FramePlaced DEF Top
<1>5. /\ DOMAIN r = 1..len /\ r[len] = f
      /\ \A n \in 1..len : n # len => r[n] = stack[t][n]
  BY <1>1 DEF IsSeq
<1>6. Len(r) = len
  BY <1>1 DEF IsSeq
<1>7. IsSeq(r)
  BY <1>6, <1>5, <1>1 DEF IsSeq
<1>8. /\ IsSeq(q) /\ Len(q) = len + 1 /\ q[len + 1] = Frame(w)
      /\ \A n \in 1..len : q[n] = r[n]
  <2> HIDE DEF r
  <2> QED BY <1>6, <1>7, SeqAppended
<1>9. IsFrame(f) /\ IsFrame(Frame(w))
  <2>1. IsFrame(f)  BY <1>4 DEF IsFrame
  <2>2. IsFrame(Frame(w))  BY DEF IsFrame, Frame
  <2> QED BY <2>1, <2>2
<1> HIDE DEF q, r, f
<1>10. Shape'
  <2>1. stack' = [u \in AllThreads |-> stack'[u]]
    BY <1>2 DEF Shape
  <2>2. ASSUME NEW u \in AllThreads
        PROVE  IsSeq(stack'[u]) /\ \A n \in 1..Len(stack'[u]) : IsFrame(stack'[u][n])
    <3>1. CASE u = t
      <4>1. ASSUME NEW n \in 1..(len + 1) PROVE IsFrame(q[n])
        <5>1. CASE n = len + 1  BY <5>1, <1>8, <1>9
        <5>2. CASE n = len  BY <5>2, <1>1, <1>8, <1>9, <1>5
        <5>3. CASE n \in 1..(len - 1)
          BY <5>3, <1>1, <1>8, <1>5 DEF Shape
        <5> QED BY <5>1, <5>2, <5>3, <1>1
      <4> QED BY <3>1, <1>3, <1>8, <4>1
    <3>2. CASE u # t
      BY <3>2, <1>3 DEF Shape
    <3> QED BY <3>1, <3>2
  <2> QED BY <2>1, <2>2 DEF Shape
<1>11. /\ Len(stack'[t]) = len + 1
       /\ \A u \in AllThreads : u # t => Len(stack'[u]) = Len(stack[u])
  BY <1>3, <1>8
<1>12. PlacesIn(stack') = PlacesIn(stack) \cup {Callee(t)}
  <2>1. ASSUME NEW p \in PlacesIn(stack')
        PROVE  p \in PlacesIn(stack) \cup {Callee(t)}
    <3>1. p = <<p[1], p[2]>> /\ p[1] \in AllThreads /\ p[2] \in 1..Len(stack'[p[1]])
      BY PlacesDef
    <3>2. <<p[1], p[2]>> \in PlacesIn(stack)
            <=> p[1] \in AllThreads /\ p[2] \in 1..Len(stack[p[1]])
      BY PlacesDef
    <3> QED BY <3>1, <3>2, <1>11, <1>1 DEF Callee
  <2>2. ASSUME NEW p \in PlacesIn(stack)
        PROVE  p \in PlacesIn(stack')
    <3>1. p = <<p[1], p[2]>> /\ p[1] \in AllThreads /\ p[2] \in 1..Len(stack[p[1]])
      BY PlacesDef
    <3>2. <<p[1], p[2]>> \in PlacesIn(stack')
            <=> p[1] \in AllThreads /\ p[2] \in 1..Len(stack'[p[1]])
      BY PlacesDef
    <3> QED BY <3>1, <3>2, <1>11, <1>1
  <2>3. Callee(t) \in PlacesIn(stack')
    BY <1>11, <1>1, PlacesDef DEF Callee
  <2> QED BY <2>1, <2>2, <2>3
<1>13. Callee(t) \notin PlacesIn(stack)
  BY <1>1, PlacesDef DEF Callee
<1>14. ASSUME NEW p \in PlacesIn(stack), p # Self(t)
       PROVE  In(stack', p) = In(stack, p)
  <2>1. p = <<p[1], p[2]>> /\ p[1] \in AllThreads /\ p[2] \in 1..Len(stack[p[1]])
    BY PlacesDef
  <2>2. CASE p[1] = t
    BY <2>1, <2>2, <1>3, <1>5, <1>8, <1>14, <1>1 DEF In, Self
  <2>3. CASE p[1] # t
    BY <2>1, <2>3, <1>3 DEF In
  <2> QED BY <2>2, <2>3
<1>15. In(stack', Self(t)) = f /\ In(stack', Callee(t)) = Frame(w)
  BY <1>1, <1>3, <1>5, <1>8 DEF In, Self, Callee
<1>16. Callee(t) = <<t, Self(t)[2] + 1>>
  BY DEF Self, Callee
<1> QED BY <1>4, <1>10, <1>12, <1>13, <1>14, <1>15, <1>16

LEMMA Returned ==
  ASSUME Shape, NEW t \in AllThreads, Return(t)
  PROVE  /\ Shape'
         /\ PlacesIn(stack') = PlacesIn(stack) \ {Self(t)}
         /\ \A p \in PlacesIn(stack') : In(stack', p) = In(stack, p)
<1> DEFINE len == Len(stack[t])
           q == SubSeq(stack[t], 1, len - 1)
<1>1. IsSeq(stack[t]) /\ len \in Nat \ {0}
  BY TopPlace DEF Shape, Return
<1>2. stack' = [stack EXCEPT ![t] = q]
  BY DEF Return
<1>3. stack'[t] = q /\ \A u \in AllThreads : u # t => stack'[u] = stack[u]
  BY <1>2 DEF Shape
<1>8. /\ IsSeq(q) /\ Len(q) = len - 1
      /\ \A n \in 1..(len - 1) : q[n] = stack[t][n]
  BY <1>1, SeqShortened DEF Return
<1> HIDE DEF q
<1>10. Shape'
  <2>1. stack' = [u \in AllThreads |-> stack'[u]]
    BY <1>2 DEF Shape
  <2>2. ASSUME NEW u \in AllThreads
        PROVE  IsSeq(stack'[u]) /\ \A n \in 1..Len(stack'[u]) : IsFrame(stack'[u][n])
    <3>1. CASE u = t
      BY <3>1, <1>1, <1>3, <1>8 DEF Shape
    <3>2. CASE u # t
      BY <3>2, <1>3 DEF Shape
    <3> QED BY <3>1, <3>2
  <2> QED BY <2>1, <2>2 DEF Shape
<1>11. /\ Len(stack'[t]) = len - 1
       /\ \A u \in AllThreads : u # t => Len(stack'[u]) = Len(stack[u])
  BY <1>3, <1>8
<1>12. ASSUME NEW p
       PROVE  p \in PlacesIn(stack') <=> p \in PlacesIn(stack) /\ p # Self(t)
  <2>1. ASSUME NEW u, NEW n, p = <<u, n>>
        PROVE  p \in PlacesIn(stack') <=> p \in PlacesIn(stack) /\ p # Self(t)
    BY <2>1, <1>11, <1>1, PlacesDef DEF Self
  <2> QED BY <2>1, PlacesDef
<1>13. ASSUME NEW p \in PlacesIn(stack')
       PROVE  In(stack', p) = In(stack, p)
  <2>1. p = <<p[1], p[2]>> /\ p[1] \in AllThreads /\ p[2] \in 1..Len(stack'[p[1]])
    BY PlacesDef
  <2>2. CASE p[1] = t
    BY <2>1, <2>2, <1>3, <1>8, <1>11 DEF In
  <2>3. CASE p[1] # t
    BY <2>1, <2>3, <1>3 DEF In
  <2> QED BY <2>2, <2>3
<1> QED BY <1>10, <1>12, <1>13

-----------------------------------------------------------------------------
(* An entry of backbone::works. *)
IsWork(w) ==
  /\ w = [op |-> w.op, arg |-> w.arg, owner |-> w.owner, pushed |-> w.pushed]
  /\ w.pushed = TRUE

WorksShape == IsSeq(works) /\ \A n \in 1..Len(works) : IsWork(works[n])

(* The frame f at place p will decrement c. *)
Owes(f, p, c) ==
  \/ f.pushed = TRUE /\ f.owner = c
  \/ Splits(f) /\ f.at = "begin" /\ p = c

(* The works, and the functions in progress, that will decrement c. *)
WorksOf(ws, c) == {n \in 1..Len(ws) : ws[n].owner = c}
FramesOf(st, c) == {p \in PlacesIn(st) : Owes(In(st, p), p, c)}

Places == PlacesIn(stack)

(* The counters are those of the functions in progress that have one, and
   perhaps that of the whole sort. *)
CountersNamed ==
  /\ counter = [c \in DOMAIN counter |-> counter[c]]
  /\ \A p \in Places : p \in DOMAIN counter <=> In(stack, p).op \in Counting
  /\ \A c \in DOMAIN counter : c \in Places \cup {Whole}

(* An atomic counter is the number of those that will decrement it. *)
Exact ==
  \A c \in DOMAIN counter :
    counter[c] = Cardinality(WorksOf(works, c)) + Cardinality(FramesOf(stack, c))

(* The function at place p, a divide_sort that its parallel_sort has called. *)
SortAwaits(st, p) ==
  \E m : LET q == <<p[1], m>> IN
    /\ p[2] = m + 1 /\ q \in PlacesIn(st) /\ In(st, p).owner = q
    /\ In(st, q).op = "sort" /\ In(st, q).at = "exec"

(* Whoever will decrement a counter, in the stack of works or on a thread's
   C++ stack, refers to one that is still there; a function that was called
   decrements none, and a divide_sort that was called passes on the counter
   of the parallel_sort right below it, which waits for it. *)
OwnersLive ==
  /\ \A n \in 1..Len(works) : works[n].owner \in DOMAIN counter
  /\ \A p \in Places :
       LET f == In(stack, p) IN
       /\ f.pushed \in BOOLEAN
       /\ f.pushed = TRUE => f.owner \in DOMAIN counter /\ f.owner # p
       /\ f.pushed = FALSE /\ f.op # "divide" => f.owner = NoWork
       /\ f.pushed = FALSE /\ f.op = "divide" => SortAwaits(stack, p)

(* Where the counter of a function must be 0: exec has found it so, or the
   function has given it to nobody yet. *)
Settles(op, parts, at) ==
  \/ at \in {"end", "merge", "again"}
  \/ op = "sort" /\ at = "begin"
  \/ op = "long" /\ Len(parts) < Group_size

IsSettled(f) == Settles(f.op, f.arg, f.at)

(* So the counter is 0 there: a function that returns takes no counter away
   that somebody still has to decrement. *)
Settled ==
  \A p \in Places :
    In(stack, p).op \in Counting /\ IsSettled(In(stack, p)) => counter[p] = 0

(* The inductive invariant behind CountersExact. *)
CInv ==
  /\ Shape
  /\ WorksShape
  /\ CountersNamed
  /\ Exact
  /\ OwnersLive
  /\ Settled

-----------------------------------------------------------------------------

(* The works and the places are finitely many, so they can be counted. *)
LEMMA FiniteThreads ==
  /\ IsFiniteSet(AllThreads) /\ AllThreads \subseteq Nat \ {0}
  /\ Whole \notin {<<t, n>> : t \in AllThreads, n \in Nat}
<1>1. AllThreads \subseteq Nat \ {0}
  BY SortAssumption DEF AllThreads
<1>2. IsFiniteSet({1..n : n \in NThreads})
  <2> DEFINE f == [n \in NThreads |-> 1..n]
  <2>1. f \in Surjection(NThreads, {1..n : n \in NThreads})
    BY DEF Surjection
  <2> QED BY <2>1, SortAssumption, FS_Surjection
<1>3. \A S \in {1..n : n \in NThreads} : IsFiniteSet(S)
  BY SortAssumption, FS_Interval
<1>4. IsFiniteSet(AllThreads)
  BY <1>2, <1>3, FS_UNION DEF AllThreads
<1> QED BY <1>1, <1>4 DEF Whole

LEMMA FinitePlaces ==
  ASSUME NEW st, \A t \in AllThreads : Len(st[t]) \in Nat
  PROVE  IsFiniteSet(PlacesIn(st))
<1> DEFINE Own(t) == {t} \X (1..Len(st[t]))
           f == [t \in AllThreads |-> Own(t)]
<1>1. IsFiniteSet(AllThreads)
  BY FiniteThreads
<1>2. IsFiniteSet({Own(t) : t \in AllThreads})
  <2> HIDE DEF Own
  <2>1. f \in Surjection(AllThreads, {Own(t) : t \in AllThreads})
    BY DEF Surjection
  <2> HIDE DEF f
  <2> QED BY <1>1, <2>1, FS_Surjection
<1>3. ASSUME NEW t \in AllThreads PROVE IsFiniteSet(Own(t))
  <2>1. IsFiniteSet(1..Len(st[t]))
    BY FS_Interval
  <2>2. IsFiniteSet({t})
    BY FS_Singleton
  <2> QED BY <2>1, <2>2, FS_Product
<1>4. \A S \in {Own(t) : t \in AllThreads} : IsFiniteSet(S)
  BY <1>3
<1> HIDE DEF Own
<1>5. IsFiniteSet(UNION {Own(t) : t \in AllThreads})
  BY <1>2, <1>4, FS_UNION
<1> QED BY <1>5 DEF PlacesIn, Own

LEMMA FiniteSets ==
  ASSUME Shape, WorksShape, NEW c
  PROVE  /\ IsFiniteSet(WorksOf(works, c)) /\ IsFiniteSet(FramesOf(stack, c))
         /\ Cardinality(WorksOf(works, c)) \in Nat
         /\ Cardinality(FramesOf(stack, c)) \in Nat
<1>1. \A t \in AllThreads : Len(stack[t]) \in Nat
  BY DEF Shape, IsSeq
<1>2. IsFiniteSet(Places)
  BY <1>1, FinitePlaces DEF Places
<1>3. IsFiniteSet(1..Len(works))
  BY FS_Interval DEF WorksShape, IsSeq
<1>4. IsFiniteSet(FramesOf(stack, c))
  BY <1>2, FS_Subset DEF FramesOf, Places
<1>5. IsFiniteSet(WorksOf(works, c))
  BY <1>3, FS_Subset DEF WorksOf
<1> QED BY <1>4, <1>5, FS_CardinalityType

(* A work more, at the end. *)
LEMMA WorkAdded ==
  ASSUME WorksShape, NEW w, IsWork(w), works' = Append(works, w)
  PROVE  /\ WorksShape'
         /\ Len(works') = Len(works) + 1
         /\ \A n \in 1..Len(works) : works'[n] = works[n]
         /\ works'[Len(works')] = w
         /\ \A c : Cardinality(WorksOf(works', c)) =
              Cardinality(WorksOf(works, c)) + (IF w.owner = c THEN 1 ELSE 0)
<1>1. IsSeq(works) /\ Len(works) \in Nat
  BY DEF WorksShape, IsSeq
<1>2. /\ IsSeq(works') /\ Len(works') = Len(works) + 1
      /\ works'[Len(works) + 1] = w
      /\ \A n \in 1..Len(works) : works'[n] = works[n]
  BY <1>1, SeqAppended
<1>3. WorksShape'
  <2>1. ASSUME NEW n \in 1..Len(works') PROVE IsWork(works'[n])
    BY <1>1, <1>2 DEF WorksShape
  <2> QED BY <2>1, <1>2 DEF WorksShape
<1>4. ASSUME NEW c
      PROVE  Cardinality(WorksOf(works', c)) =
               Cardinality(WorksOf(works, c)) + (IF w.owner = c THEN 1 ELSE 0)
  <2>1. IsFiniteSet(WorksOf(works, c)) /\ Cardinality(WorksOf(works, c)) \in Nat
    <3>1. IsFiniteSet(1..Len(works))  BY <1>1, FS_Interval
    <3> QED BY <3>1, FS_Subset, FS_CardinalityType DEF WorksOf
  <2>2. CASE w.owner = c
    <3>1. WorksOf(works', c) = WorksOf(works, c) \cup {Len(works) + 1}
      BY <2>2, <1>1, <1>2 DEF WorksOf
    <3>2. Len(works) + 1 \notin WorksOf(works, c)
      BY <1>1 DEF WorksOf
    <3>3. Cardinality(WorksOf(works, c) \cup {Len(works) + 1})
            = Cardinality(WorksOf(works, c)) + 1
      BY <2>1, <3>2, FS_AddElement
    <3> QED BY <2>2, <3>1, <3>3
  <2>3. CASE w.owner # c
    <3>1. WorksOf(works', c) = WorksOf(works, c)
      BY <2>3, <1>1, <1>2 DEF WorksOf
    <3> QED BY <2>1, <2>3, <3>1
  <2> QED BY <2>2, <2>3
<1> QED BY <1>2, <1>3, <1>4

(* The last work gone. *)
LEMMA WorkTaken ==
  ASSUME WorksShape, works # <<>>, works' = SubSeq(works, 1, Len(works) - 1)
  PROVE  /\ WorksShape'
         /\ Len(works) \in Nat \ {0}
         /\ Len(works') = Len(works) - 1
         /\ \A n \in 1..Len(works') : works'[n] = works[n]
         /\ \A c : Cardinality(WorksOf(works', c)) =
              Cardinality(WorksOf(works, c))
                - (IF works[Len(works)].owner = c THEN 1 ELSE 0)
<1>1. /\ IsSeq(works) /\ IsSeq(works') /\ Len(works) \in Nat \ {0}
      /\ Len(works') = Len(works) - 1
      /\ \A n \in 1..(Len(works) - 1) : works'[n] = works[n]
  BY SeqShortened DEF WorksShape
<1>2. WorksShape'
  BY <1>1 DEF WorksShape
<1>3. ASSUME NEW c
      PROVE  Cardinality(WorksOf(works', c)) =
               Cardinality(WorksOf(works, c))
                 - (IF works[Len(works)].owner = c THEN 1 ELSE 0)
  <2>1. IsFiniteSet(WorksOf(works, c)) /\ Cardinality(WorksOf(works, c)) \in Nat
    <3>1. IsFiniteSet(1..Len(works))  BY <1>1, FS_Interval
    <3> QED BY <3>1, FS_Subset, FS_CardinalityType DEF WorksOf
  <2>2. WorksOf(works', c) = WorksOf(works, c) \ {Len(works)}
    BY <1>1 DEF WorksOf
  <2>3. Len(works) \in WorksOf(works, c) <=> works[Len(works)].owner = c
    BY <1>1 DEF WorksOf
  <2> QED BY <2>1, <2>2, <2>3, FS_RemoveElement
<1> QED BY <1>1, <1>2, <1>3

(* A counter that somebody will decrement is at least 1. *)
LEMMA ChargedPositive ==
  ASSUME CInv
  PROVE  /\ \A c \in DOMAIN counter : counter[c] \in Nat
         /\ \A p \in Places : \A c \in DOMAIN counter :
              Owes(In(stack, p), p, c) => counter[c] >= 1
         /\ \A n \in 1..Len(works) : counter[works[n].owner] >= 1
<1>1. \A c : /\ IsFiniteSet(WorksOf(works, c)) /\ IsFiniteSet(FramesOf(stack, c))
             /\ Cardinality(WorksOf(works, c)) \in Nat
             /\ Cardinality(FramesOf(stack, c)) \in Nat
  BY FiniteSets DEF CInv
<1>2. \A c \in DOMAIN counter :
        counter[c] = Cardinality(WorksOf(works, c)) + Cardinality(FramesOf(stack, c))
  BY DEF CInv, Exact
<1>3. ASSUME NEW p \in Places, NEW c \in DOMAIN counter, Owes(In(stack, p), p, c)
      PROVE  counter[c] >= 1
  <2>1. p \in FramesOf(stack, c)
    BY <1>3 DEF FramesOf, Places
  <2>2. Cardinality(FramesOf(stack, c)) # 0
    BY <1>1, <2>1, FS_EmptySet
  <2> QED BY <1>1, <1>2, <2>2
<1>4. ASSUME NEW n \in 1..Len(works)
      PROVE  counter[works[n].owner] >= 1
  <2> DEFINE c == works[n].owner
  <2>1. n \in WorksOf(works, c) /\ c \in DOMAIN counter
    BY DEF WorksOf, CInv, OwnersLive
  <2>2. Cardinality(WorksOf(works, c)) # 0
    BY <1>1, <2>1, FS_EmptySet
  <2> HIDE DEF c
  <2>3. counter[c] >= 1
    BY <1>1, <1>2, <2>1, <2>2
  <2> QED BY <2>3 DEF c
<1> QED BY <1>1, <1>2, <1>3, <1>4

(* The innermost function of t goes on elsewhere, and may push a work that
   counts itself in a counter whose function has not settled. *)
LEMMA Going ==
  ASSUME CInv, NEW t \in AllThreads, stack[t] # <<>>, NEW at, NEW i,
         GotoWith(t, at, i),
         ~(Splits(Top(t)) /\ Top(t).at = "begin"), ~(Splits(Top(t)) /\ at = "begin"),
         \/ works' = works /\ counter' = counter
         \/ \E w : /\ IsWork(w) /\ w.owner \in DOMAIN counter /\ Push(w)
                   /\ w.owner \in Places => ~IsSettled(In(stack', w.owner)),
         Top(t).op \in Counting /\ IsSettled(In(stack', Self(t)))
           => counter[Self(t)] = 0
  PROVE  CInv'
<1> DEFINE new == In(stack', Self(t))
<1>1. /\ Shape'
      /\ PlacesIn(stack') = PlacesIn(stack)
      /\ \A p \in PlacesIn(stack) \ {Self(t)} : In(stack', p) = In(stack, p)
      /\ new = [op |-> Top(t).op, arg |-> Top(t).arg, owner |-> Top(t).owner,
                pushed |-> Top(t).pushed, at |-> at, i |-> i]
  BY Moved DEF CInv
<1>2. Self(t) \in PlacesIn(stack) /\ In(stack, Self(t)) = Top(t)
      /\ Self(t)[1] = t /\ Self(t)[2] = Len(stack[t]) /\ Len(stack[t]) \in Nat \ {0}
  BY TopPlace DEF CInv
<1> HIDE DEF new
<1>3. /\ new.op = Top(t).op /\ new.arg = Top(t).arg /\ new.owner = Top(t).owner
      /\ new.pushed = Top(t).pushed /\ new.at = at
  BY <1>1
<1>4. Splits(new) <=> Splits(Top(t))
  BY <1>3 DEF Splits
<1>5. Places' = Places
  BY <1>1 DEF Places
<1>6. \A p \in Places :
        /\ In(stack', p).op = In(stack, p).op
        /\ In(stack', p).owner = In(stack, p).owner
        /\ In(stack', p).pushed = In(stack, p).pushed
        /\ p # Self(t) => In(stack', p) = In(stack, p)
  BY <1>1, <1>2, <1>3 DEF new, Places
<1>7. ASSUME NEW c PROVE FramesOf(stack', c) = FramesOf(stack, c)
  <2>1. ASSUME NEW p \in PlacesIn(stack)
        PROVE  Owes(In(stack', p), p, c) <=> Owes(In(stack, p), p, c)
    <3>1. CASE p = Self(t)
      BY <3>1, <1>2, <1>3, <1>4 DEF new, Owes
    <3>2. CASE p # Self(t)
      BY <3>2, <1>1
    <3> QED BY <3>1, <3>2
  <2> QED BY <2>1, <1>1 DEF FramesOf
<1>8. \A p \in Places \ {Self(t)} :
        In(stack, p).op \in Counting /\ IsSettled(In(stack, p)) => counter[p] = 0
  BY DEF CInv, Settled
<1>9. OwnersLive /\ CountersNamed /\ WorksShape /\ Exact
  BY DEF CInv
<1>10. ASSUME DOMAIN counter' = DOMAIN counter,
              \A n \in 1..Len(works') : works'[n].owner \in DOMAIN counter
       PROVE  OwnersLive'
  <2>1. ASSUME NEW p \in Places, In(stack, p).pushed = FALSE, In(stack, p).op = "divide"
        PROVE  SortAwaits(stack', p)
    <3>1. PICK m : LET q == <<p[1], m>> IN
              /\ p[2] = m + 1 /\ q \in PlacesIn(stack) /\ In(stack, p).owner = q
              /\ In(stack, q).op = "sort" /\ In(stack, q).at = "exec"
      BY <1>9, <2>1 DEF OwnersLive, SortAwaits
    <3>2. <<p[1], m>> # Self(t)
      <4>1. p = <<p[1], p[2]>> /\ p[1] \in AllThreads /\ p[2] \in 1..Len(stack[p[1]])
        BY PlacesDef DEF Places
      <4> QED BY <4>1, <3>1, <1>2 DEF Self
    <3>3. LET q == <<p[1], m>> IN
            /\ p[2] = m + 1 /\ q \in PlacesIn(stack') /\ In(stack', p).owner = q
            /\ In(stack', q).op = "sort" /\ In(stack', q).at = "exec"
      BY <3>1, <3>2, <1>1, <1>6 DEF Places
    <3> QED BY <3>3 DEF SortAwaits
  <2>2. ASSUME NEW p \in Places'
        PROVE  LET f == In(stack', p) IN
               /\ f.pushed \in BOOLEAN
               /\ f.pushed = TRUE => f.owner \in DOMAIN counter' /\ f.owner # p
               /\ f.pushed = FALSE /\ f.op # "divide" => f.owner = NoWork
               /\ f.pushed = FALSE /\ f.op = "divide" => SortAwaits(stack', p)
    BY <2>1, <1>5, <1>6, <1>9, <1>10 DEF OwnersLive
  <2> QED BY <2>2, <1>10 DEF OwnersLive
<1>11. CASE works' = works /\ counter' = counter
  <2>1. WorksShape' /\ CountersNamed'
    BY <1>11, <1>5, <1>6, <1>9 DEF WorksShape, CountersNamed
  <2>2. Exact'
    BY <1>11, <1>7, <1>9 DEF Exact
  <2>3. OwnersLive'
    BY <1>11, <1>10, <1>9 DEF OwnersLive
  <2>4. Settled'
    BY <1>11, <1>5, <1>6, <1>8, <1>2, <1>3 DEF Settled, new
  <2> QED BY <1>1, <2>1, <2>2, <2>3, <2>4 DEF CInv
<1>12. CASE \E w : /\ IsWork(w) /\ w.owner \in DOMAIN counter /\ Push(w)
                   /\ w.owner \in Places => ~IsSettled(In(stack', w.owner))
  <2>1. PICK w : /\ IsWork(w) /\ w.owner \in DOMAIN counter /\ Push(w)
                 /\ w.owner \in Places => ~IsSettled(In(stack', w.owner))
    BY <1>12
  <2>2. /\ WorksShape'
        /\ Len(works') = Len(works) + 1
        /\ \A n \in 1..Len(works) : works'[n] = works[n]
        /\ works'[Len(works')] = w
        /\ \A c : Cardinality(WorksOf(works', c)) =
             Cardinality(WorksOf(works, c)) + (IF w.owner = c THEN 1 ELSE 0)
    BY <2>1, <1>9, WorkAdded DEF Push
  <2>3. counter' = [counter EXCEPT ![w.owner] = @ + 1]
    BY <2>1 DEF Push, Counted
  <2>4. /\ DOMAIN counter' = DOMAIN counter
        /\ counter'[w.owner] = counter[w.owner] + 1
        /\ \A c \in DOMAIN counter : c # w.owner => counter'[c] = counter[c]
        /\ counter' = [c \in DOMAIN counter' |-> counter'[c]]
    BY <2>1, <2>3, <1>9 DEF CountersNamed
  <2>5. CountersNamed'
    BY <2>4, <1>5, <1>6, <1>9 DEF CountersNamed
  <2>6. Exact'
    <3>1. ASSUME NEW c \in DOMAIN counter
          PROVE  counter'[c] = Cardinality(WorksOf(works', c))
                                 + Cardinality(FramesOf(stack', c))
      <4>1. counter[c] = Cardinality(WorksOf(works, c)) + Cardinality(FramesOf(stack, c))
        BY <1>9 DEF Exact
      <4>2. /\ Cardinality(WorksOf(works, c)) \in Nat
            /\ Cardinality(FramesOf(stack, c)) \in Nat
        BY FiniteSets DEF CInv
      <4>3. CASE c = w.owner
        BY <4>1, <4>2, <4>3, <2>2, <2>4, <1>7
      <4>4. CASE c # w.owner
        BY <4>1, <4>2, <4>4, <2>2, <2>4, <1>7
      <4> QED BY <4>3, <4>4
    <3> QED BY <3>1, <2>4 DEF Exact
  <2>7. OwnersLive'
    <3>1. ASSUME NEW n \in 1..Len(works') PROVE works'[n].owner \in DOMAIN counter
      <4>1. Len(works) \in Nat  BY <1>9 DEF WorksShape, IsSeq
      <4>2. CASE n = Len(works')
        BY <4>2, <2>1, <2>2
      <4>3. CASE n \in 1..Len(works)
        BY <4>3, <2>2, <1>9 DEF OwnersLive
      <4> QED BY <4>1, <4>2, <4>3, <2>2
    <3> QED BY <3>1, <2>4, <1>10
  <2>8. Settled'
    <3>1. ASSUME NEW p \in Places, In(stack', p).op \in Counting, IsSettled(In(stack', p))
          PROVE  counter'[p] = 0
      <4>1. p # w.owner
        BY <3>1, <2>1
      <4>2. p \in DOMAIN counter
        BY <3>1, <1>6, <1>9 DEF CountersNamed
      <4>3. counter[p] = 0
        BY <3>1, <1>2, <1>3, <1>6, <1>8 DEF new
      <4> QED BY <4>1, <4>2, <4>3, <2>4
    <3> QED BY <3>1, <1>5 DEF Settled
  <2> QED BY <1>1, <2>2, <2>5, <2>6, <2>7, <2>8 DEF CInv
<1> QED BY <1>11, <1>12

(* What Enter does to the counters. *)
LEMMA CounterMade ==
  ASSUME NEW p, p \notin DOMAIN counter, NEW w,
         counter' = [c \in DOMAIN counter \cup NewCounter(p, w) |->
                       IF c \in DOMAIN counter THEN counter[c]
                       ELSE IF Splits(w) THEN 1 ELSE 0]
  PROVE  /\ counter' = [c \in DOMAIN counter' |-> counter'[c]]
         /\ \A c \in DOMAIN counter : c \in DOMAIN counter' /\ counter'[c] = counter[c]
         /\ \A c \in DOMAIN counter' :
              c \in DOMAIN counter \/ (c = p /\ w.op \in Counting)
         /\ w.op \in Counting =>
              p \in DOMAIN counter' /\ counter'[p] = IF Splits(w) THEN 1 ELSE 0
<1>1. p \in NewCounter(p, w) <=> w.op \in Counting
  BY DEF NewCounter
<1>2. \A c \in NewCounter(p, w) : c = p
  BY DEF NewCounter
<1> DEFINE Value(c) == IF c \in DOMAIN counter THEN counter[c]
                       ELSE IF Splits(w) THEN 1 ELSE 0
<1>3. counter' = [c \in DOMAIN counter \cup NewCounter(p, w) |-> Value(c)]
  OBVIOUS
<1>4. \A c \in DOMAIN counter : Value(c) = counter[c]
  OBVIOUS
<1>5. Value(p) = IF Splits(w) THEN 1 ELSE 0
  OBVIOUS
<1> HIDE DEF Value
<1>6. /\ DOMAIN counter' = DOMAIN counter \cup NewCounter(p, w)
      /\ \A c \in DOMAIN counter' : counter'[c] = Value(c)
  BY <1>3
<1>7. counter' = [c \in DOMAIN counter' |-> counter'[c]]
  BY <1>3, <1>6
<1>8. \A c \in DOMAIN counter : c \in DOMAIN counter' /\ counter'[c] = counter[c]
  BY <1>4, <1>6
<1>9. \A c \in DOMAIN counter' : c \in DOMAIN counter \/ (c = p /\ w.op \in Counting)
  <2>1. ASSUME NEW c \in DOMAIN counter', c \notin DOMAIN counter
        PROVE  c = p /\ w.op \in Counting
    <3>1. c \in NewCounter(p, w)
      BY <2>1, <1>6
    <3> QED BY <3>1, <1>1, <1>2
  <2> QED BY <2>1
<1>10. w.op \in Counting =>
         p \in DOMAIN counter' /\ counter'[p] = IF Splits(w) THEN 1 ELSE 0
  BY <1>1, <1>5, <1>6
<1> HIDE <1>3
<1> QED BY <1>7, <1>8, <1>9, <1>10

(* The innermost function of t calls another, or executes the work on top of
   the stack of works. *)
LEMMA Entering ==
  ASSUME CInv, NEW t \in AllThreads, stack[t] # <<>>, NEW at, NEW w,
         Enter(t, at, w),
         ~(Splits(Top(t)) /\ Top(t).at = "begin"), ~(Splits(Top(t)) /\ at = "begin"),
         \/ /\ works' = works /\ w.pushed = FALSE
            /\ w.op # "divide" => w.owner = NoWork
            /\ w.op = "divide" =>
                 w.owner = Self(t) /\ Top(t).op = "sort" /\ at = "exec"
         \/ /\ works # <<>> /\ works' = SubSeq(works, 1, Len(works) - 1)
            /\ w = works[Len(works)],
         Top(t).op \in Counting /\ IsSettled(In(stack', Self(t)))
           => counter[Self(t)] = 0
  PROVE  CInv'
<1> DEFINE new == In(stack', Self(t))
           callee == In(stack', Callee(t))
<1>1. /\ Shape'
      /\ Callee(t) \notin PlacesIn(stack)
      /\ PlacesIn(stack') = PlacesIn(stack) \cup {Callee(t)}
      /\ \A p \in PlacesIn(stack) \ {Self(t)} : In(stack', p) = In(stack, p)
      /\ new = [op |-> Top(t).op, arg |-> Top(t).arg, owner |-> Top(t).owner,
                pushed |-> Top(t).pushed, at |-> at, i |-> Top(t).i]
      /\ callee = Frame(w)
      /\ Callee(t) = <<t, Self(t)[2] + 1>>
  BY Entered DEF CInv
<1>2. Self(t) \in PlacesIn(stack) /\ In(stack, Self(t)) = Top(t)
      /\ Self(t)[1] = t /\ Self(t)[2] = Len(stack[t]) /\ Len(stack[t]) \in Nat \ {0}
  BY TopPlace DEF CInv
<1> HIDE DEF new, callee
<1>3. /\ new.op = Top(t).op /\ new.arg = Top(t).arg /\ new.owner = Top(t).owner
      /\ new.pushed = Top(t).pushed /\ new.at = at
  BY <1>1
<1>4. Splits(new) <=> Splits(Top(t))
  BY <1>3 DEF Splits
<1>5. /\ callee.op = w.op /\ callee.arg = w.arg /\ callee.owner = w.owner
      /\ callee.pushed = w.pushed /\ callee.at = "begin"
  BY <1>1 DEF Frame
<1>6. Splits(callee) <=> Splits(w)
  BY <1>5 DEF Splits
<1>7. \A p \in Places :
        /\ In(stack', p).op = In(stack, p).op
        /\ In(stack', p).owner = In(stack, p).owner
        /\ In(stack', p).pushed = In(stack, p).pushed
        /\ p # Self(t) => In(stack', p) = In(stack, p)
  BY <1>1, <1>2, <1>3 DEF new, Places
<1>8. OwnersLive /\ CountersNamed /\ WorksShape /\ Exact /\ Settled
  BY DEF CInv
<1>9. Callee(t) \notin DOMAIN counter
  <2>1. Callee(t) # Whole
    BY <1>1, <1>2, FiniteThreads DEF Whole
  <2> QED BY <2>1, <1>1, <1>8 DEF CountersNamed, Places
<1>10. /\ counter' = [c \in DOMAIN counter' |-> counter'[c]]
       /\ \A c \in DOMAIN counter : c \in DOMAIN counter' /\ counter'[c] = counter[c]
       /\ \A c \in DOMAIN counter' :
            c \in DOMAIN counter \/ (c = Callee(t) /\ w.op \in Counting)
       /\ w.op \in Counting =>
            /\ Callee(t) \in DOMAIN counter'
            /\ counter'[Callee(t)] = IF Splits(w) THEN 1 ELSE 0
  BY <1>9, CounterMade DEF Enter
<1>11. /\ WorksShape' /\ Len(works') \in Nat /\ Len(works') <= Len(works)
       /\ \A n \in 1..Len(works') : works'[n] = works[n]
       /\ w.pushed \in BOOLEAN
       /\ w.pushed = TRUE => w.owner \in DOMAIN counter
       /\ \A c : Cardinality(WorksOf(works', c)) =
            Cardinality(WorksOf(works, c))
              - (IF w.pushed = TRUE /\ w.owner = c THEN 1 ELSE 0)
  <2>1. CASE works' = works /\ w.pushed = FALSE
    <3>1. Len(works) \in Nat
      BY <1>8 DEF WorksShape, IsSeq
    <3>2. \A c : Cardinality(WorksOf(works, c)) \in Nat
      BY FiniteSets DEF CInv
    <3>3. WorksShape'
      BY <2>1, <1>8 DEF WorksShape
    <3>4. \A c : Cardinality(WorksOf(works', c)) =
            Cardinality(WorksOf(works, c))
              - (IF w.pushed = TRUE /\ w.owner = c THEN 1 ELSE 0)
      <4>1. w.pushed # TRUE
        BY <2>1, Zenon
      <4>2. \A c : ~(w.pushed = TRUE /\ w.owner = c)
        BY <4>1, Zenon
      <4> QED BY <4>2, <2>1, <3>2
    <3>5. w.pushed \in BOOLEAN /\ (w.pushed = TRUE => w.owner \in DOMAIN counter)
      BY <2>1, Zenon
    <3> QED BY <2>1, <3>1, <3>3, <3>4, <3>5
  <2>2. CASE /\ works # <<>> /\ works' = SubSeq(works, 1, Len(works) - 1)
             /\ w = works[Len(works)]
    <3>1. /\ WorksShape'
          /\ Len(works) \in Nat \ {0}
          /\ Len(works') = Len(works) - 1
          /\ \A n \in 1..Len(works') : works'[n] = works[n]
          /\ \A c : Cardinality(WorksOf(works', c)) =
               Cardinality(WorksOf(works, c))
                 - (IF works[Len(works)].owner = c THEN 1 ELSE 0)
      BY <2>2, <1>8, WorkTaken
    <3>2. IsWork(w) /\ w.owner \in DOMAIN counter
      BY <2>2, <3>1, <1>8 DEF WorksShape, OwnersLive
    <3>3. w.pushed = TRUE
      BY <3>2 DEF IsWork
    <3>4. \A c : Cardinality(WorksOf(works', c)) =
            Cardinality(WorksOf(works, c))
              - (IF w.pushed = TRUE /\ w.owner = c THEN 1 ELSE 0)
      BY <2>2, <3>1, <3>3
    <3>5. w.pushed \in BOOLEAN /\ (w.pushed = TRUE => w.owner \in DOMAIN counter)
      BY <3>2, <3>3, Zenon
    <3> QED BY <3>1, <3>4, <3>5
  <2> QED BY <2>1, <2>2
<1>12. CountersNamed'
  <2>1. ASSUME NEW p \in Places'
        PROVE  p \in DOMAIN counter' <=> In(stack', p).op \in Counting
    <3>1. CASE p = Callee(t)
      BY <3>1, <1>5, <1>9, <1>10 DEF callee
    <3>2. CASE p \in Places
      BY <3>2, <1>1, <1>7, <1>8, <1>10 DEF CountersNamed, Places
    <3> QED BY <3>1, <3>2, <1>1 DEF Places
  <2>2. \A c \in DOMAIN counter' : c \in Places' \cup {Whole}
    BY <1>1, <1>8, <1>10 DEF CountersNamed, Places
  <2> QED BY <2>1, <2>2, <1>10 DEF CountersNamed
<1>13. ASSUME NEW p \in Places, NEW c
       PROVE  Owes(In(stack', p), p, c) <=> Owes(In(stack, p), p, c)
  <2>1. CASE p = Self(t)
    BY <2>1, <1>2, <1>3, <1>4 DEF new, Owes
  <2>2. CASE p # Self(t)
    BY <2>2, <1>7
  <2> QED BY <2>1, <2>2
<1>14. ASSUME NEW c
       PROVE  FramesOf(stack', c) = IF Owes(callee, Callee(t), c)
                                    THEN FramesOf(stack, c) \cup {Callee(t)}
                                    ELSE FramesOf(stack, c)
  <2>1. \A p \in PlacesIn(stack) :
          Owes(In(stack', p), p, c) <=> Owes(In(stack, p), p, c)
    BY <1>13 DEF Places
  <2> QED BY <2>1, <1>1 DEF FramesOf, callee
<1>15. Exact'
  <2>1. ASSUME NEW c \in DOMAIN counter
        PROVE  counter'[c] = Cardinality(WorksOf(works', c))
                               + Cardinality(FramesOf(stack', c))
    <3>1. counter[c] = Cardinality(WorksOf(works, c)) + Cardinality(FramesOf(stack, c))
      BY <1>8 DEF Exact
    <3>2. /\ Cardinality(WorksOf(works, c)) \in Nat
          /\ Cardinality(FramesOf(stack, c)) \in Nat
          /\ IsFiniteSet(FramesOf(stack, c))
      BY FiniteSets DEF CInv
    <3>3. Callee(t) \notin FramesOf(stack, c)
      BY <1>1 DEF FramesOf
    <3>4. Owes(callee, Callee(t), c) <=> w.pushed = TRUE /\ w.owner = c
      BY <1>5, <1>9 DEF Owes
    <3>5. counter'[c] = counter[c]
      BY <1>10
    <3>6. CASE w.pushed = TRUE /\ w.owner = c
      <4>1. Cardinality(FramesOf(stack, c) \cup {Callee(t)})
              = Cardinality(FramesOf(stack, c)) + 1
        BY <3>2, <3>3, FS_AddElement
      <4>2. FramesOf(stack', c) = FramesOf(stack, c) \cup {Callee(t)}
        BY <3>4, <3>6, <1>14
      <4>3. Cardinality(WorksOf(works', c)) = Cardinality(WorksOf(works, c)) - 1
        BY <3>6, <1>11
      <4> QED BY <3>1, <3>2, <3>5, <4>1, <4>2, <4>3
    <3>7. CASE ~(w.pushed = TRUE /\ w.owner = c)
      <4>1. FramesOf(stack', c) = FramesOf(stack, c)
        BY <3>4, <3>7, <1>14
      <4>2. Cardinality(WorksOf(works', c)) = Cardinality(WorksOf(works, c)) - 0
        BY <3>7, <1>11
      <4> QED BY <3>1, <3>2, <3>5, <4>1, <4>2
    <3> QED BY <3>6, <3>7
  <2>2. ASSUME w.op \in Counting
        PROVE  counter'[Callee(t)] = Cardinality(WorksOf(works', Callee(t)))
                                       + Cardinality(FramesOf(stack', Callee(t)))
    <3>1. WorksOf(works', Callee(t)) = {}
      <4>1. ASSUME NEW n \in 1..Len(works') PROVE works'[n].owner # Callee(t)
        <5>1. Len(works) \in Nat  BY <1>8 DEF WorksShape, IsSeq
        <5>2. n \in 1..Len(works)  BY <5>1, <1>11
        <5> QED BY <5>2, <1>8, <1>9, <1>11 DEF OwnersLive
      <4> QED BY <4>1 DEF WorksOf
    <3>2. FramesOf(stack, Callee(t)) = {}
      BY <1>1, <1>8, <1>9 DEF FramesOf, Owes, OwnersLive, Places
    <3>3. Owes(callee, Callee(t), Callee(t)) <=> Splits(w)
      BY <1>5, <1>6, <1>9, <1>11 DEF Owes
    <3>4. CASE Splits(w)
      <4>1. FramesOf(stack', Callee(t)) = {Callee(t)}
        BY <3>2, <3>3, <3>4, <1>14
      <4>2. Cardinality({Callee(t)}) = 1
        BY FS_Singleton
      <4>3. Cardinality({}) = 0
        BY FS_EmptySet
      <4> QED BY <3>1, <3>4, <4>1, <4>2, <4>3, <2>2, <1>10
    <3>5. CASE ~Splits(w)
      <4>1. FramesOf(stack', Callee(t)) = {}
        BY <3>2, <3>3, <3>5, <1>14
      <4>3. Cardinality({}) = 0
        BY FS_EmptySet
      <4> QED BY <3>1, <3>5, <4>1, <4>3, <2>2, <1>10
    <3> QED BY <3>4, <3>5
  <2>3. ASSUME NEW c \in DOMAIN counter'
        PROVE  counter'[c] = Cardinality(WorksOf(works', c))
                               + Cardinality(FramesOf(stack', c))
    BY <2>1, <2>2, <1>10
  <2> QED BY <2>3 DEF Exact
<1>16. OwnersLive'
  <2>1. ASSUME NEW n \in 1..Len(works') PROVE works'[n].owner \in DOMAIN counter'
    <3>1. Len(works) \in Nat  BY <1>8 DEF WorksShape, IsSeq
    <3>2. n \in 1..Len(works)  BY <3>1, <1>11
    <3> QED BY <3>2, <1>8, <1>10, <1>11 DEF OwnersLive
  <2>2. ASSUME NEW p \in Places, In(stack, p).pushed = FALSE, In(stack, p).op = "divide"
        PROVE  SortAwaits(stack', p)
    <3>1. PICK m : LET q == <<p[1], m>> IN
              /\ p[2] = m + 1 /\ q \in PlacesIn(stack) /\ In(stack, p).owner = q
              /\ In(stack, q).op = "sort" /\ In(stack, q).at = "exec"
      BY <1>8, <2>2 DEF OwnersLive, SortAwaits
    <3>2. <<p[1], m>> # Self(t)
      <4>1. p = <<p[1], p[2]>> /\ p[1] \in AllThreads /\ p[2] \in 1..Len(stack[p[1]])
        BY PlacesDef DEF Places
      <4> QED BY <4>1, <3>1, <1>2 DEF Self
    <3>3. LET q == <<p[1], m>> IN
            /\ p[2] = m + 1 /\ q \in PlacesIn(stack') /\ In(stack', p).owner = q
            /\ In(stack', q).op = "sort" /\ In(stack', q).at = "exec"
      BY <3>1, <3>2, <1>1, <1>7 DEF Places
    <3> QED BY <3>3 DEF SortAwaits
  <2>3. ASSUME w.pushed = FALSE, w.op = "divide"
        PROVE  SortAwaits(stack', Callee(t))
    <3>1. w.owner = Self(t) /\ Top(t).op = "sort" /\ at = "exec"
      <4>1. CASE works' = works /\ (w.op = "divide" =>
                   w.owner = Self(t) /\ Top(t).op = "sort" /\ at = "exec")
        BY <4>1, <2>3
      <4>2. CASE /\ works # <<>> /\ w = works[Len(works)]
        <5>1. Len(works) \in Nat \ {0}
          BY <4>2, <1>8, SeqShortened DEF WorksShape
        <5>2. IsWork(w)
          BY <5>1, <4>2, <1>8 DEF WorksShape
        <5>3. w.pushed = TRUE
          BY <5>2, Zenon DEF IsWork
        <5> QED BY <5>3, <2>3
      <4> QED BY <4>1, <4>2, <2>3
    <3>2. LET q == <<Callee(t)[1], Len(stack[t])>> IN
            /\ Callee(t)[2] = Len(stack[t]) + 1 /\ q \in PlacesIn(stack')
            /\ In(stack', Callee(t)).owner = q
            /\ In(stack', q).op = "sort" /\ In(stack', q).at = "exec"
      <4>1. <<Callee(t)[1], Len(stack[t])>> = Self(t)
        BY <1>1 DEF Self
      <4> QED BY <4>1, <3>1, <1>1, <1>2, <1>3, <1>5 DEF new, callee
    <3> QED BY <3>2 DEF SortAwaits
  <2>4. ASSUME NEW p \in Places'
        PROVE  LET f == In(stack', p) IN
               /\ f.pushed \in BOOLEAN
               /\ f.pushed = TRUE => f.owner \in DOMAIN counter' /\ f.owner # p
               /\ f.pushed = FALSE /\ f.op # "divide" => f.owner = NoWork
               /\ f.pushed = FALSE /\ f.op = "divide" => SortAwaits(stack', p)
    <3>1. CASE p \in Places
      BY <3>1, <2>2, <1>7, <1>8, <1>10 DEF OwnersLive
    <3>2. CASE p = Callee(t)
      <4>1. w.pushed = FALSE /\ w.op # "divide" => w.owner = NoWork
        <5>1. CASE works' = works /\ (w.op # "divide" => w.owner = NoWork)
          BY <5>1
        <5>2. CASE /\ works # <<>> /\ w = works[Len(works)]
          <6>1. Len(works) \in Nat \ {0}
            BY <5>2, <1>8, SeqShortened DEF WorksShape
          <6>2. IsWork(w)
            BY <6>1, <5>2, <1>8 DEF WorksShape
          <6>3. w.pushed = TRUE
            BY <6>2, Zenon DEF IsWork
          <6> QED BY <6>3
        <5> QED BY <5>1, <5>2
      <4> QED BY <3>2, <4>1, <2>3, <1>5, <1>9, <1>10, <1>11 DEF callee
    <3> QED BY <3>1, <3>2, <1>1 DEF Places
  <2> QED BY <2>1, <2>4 DEF OwnersLive
<1>17. Settled'
  <2>1. ASSUME NEW p \in Places', In(stack', p).op \in Counting, IsSettled(In(stack', p))
        PROVE  counter'[p] = 0
    <3>1. CASE p = Callee(t)
      <4>1. ~Splits(w)
        BY <3>1, <2>1, <1>5 DEF IsSettled, Settles, Splits, callee
      <4> QED BY <3>1, <4>1, <2>1, <1>5, <1>10 DEF callee
    <3>2. CASE p \in Places
      <4>1. p \in DOMAIN counter
        BY <3>2, <2>1, <1>7, <1>8 DEF CountersNamed
      <4>2. counter[p] = 0
        BY <3>2, <2>1, <1>2, <1>3, <1>7, <1>8 DEF new, Settled
      <4> QED BY <4>1, <4>2, <1>10
    <3> QED BY <3>1, <3>2, <1>1 DEF Places
  <2> QED BY <2>1 DEF Settled
<1> QED BY <1>1, <1>11, <1>12, <1>15, <1>16, <1>17 DEF CInv

(* A function returns: the one it decrements for owes one less, and its own
   counter goes, which nobody refers to any more. *)
LEMMA Returning ==
  ASSUME CInv, NEW t \in AllThreads, Return(t)
  PROVE  CInv'
<1>1. /\ Shape'
      /\ PlacesIn(stack') = PlacesIn(stack) \ {Self(t)}
      /\ \A p \in PlacesIn(stack') : In(stack', p) = In(stack, p)
  BY Returned DEF CInv
<1>2. /\ Self(t) \in Places /\ In(stack, Self(t)) = Top(t)
      /\ Self(t)[1] = t /\ Self(t)[2] = Len(stack[t]) /\ Len(stack[t]) \in Nat \ {0}
      /\ Top(t).at = "end"
  BY TopPlace DEF CInv, Return, Places
<1>3. OwnersLive /\ CountersNamed /\ WorksShape /\ Exact /\ Settled
  BY DEF CInv
<1>4. /\ DOMAIN counter' = DOMAIN counter \ {Self(t)}
      /\ counter' = [c \in DOMAIN counter' |-> counter'[c]]
      /\ \A c \in DOMAIN counter' :
           counter'[c] = IF Top(t).pushed = TRUE /\ c = Top(t).owner
                         THEN counter[c] - 1 ELSE counter[c]
      /\ works' = works
  <2>1. Top(t).pushed \in BOOLEAN
    BY <1>2, <1>3 DEF OwnersLive
  <2>2. Top(t).pushed <=> Top(t).pushed = TRUE
    BY <2>1, Zenon
  <2>3. counter' = [c \in DOMAIN counter \ {Self(t)} |->
                      IF Top(t).pushed /\ c = Top(t).owner
                      THEN counter[c] - 1 ELSE counter[c]]
    BY DEF Return
  <2> QED BY <2>2, <2>3 DEF Return
<1>5. Top(t).op \in Counting => Self(t) \in DOMAIN counter /\ counter[Self(t)] = 0
  BY <1>2, <1>3 DEF CountersNamed, Settled, IsSettled, Settles
<1>6. Places' = Places \ {Self(t)}
  BY <1>1 DEF Places
<1>7. \A p \in Places' : p \in Places /\ p # Self(t) /\ In(stack', p) = In(stack, p)
  BY <1>1, <1>6 DEF Places
(* Nothing refers to the counter that goes. *)
<1>8. /\ \A n \in 1..Len(works) : works[n].owner # Self(t)
      /\ \A p \in Places : In(stack, p).pushed = TRUE => In(stack, p).owner # Self(t)
  <2>1. CASE Top(t).op \in Counting
    <3>1. \A n \in 1..Len(works) : counter[works[n].owner] >= 1
      BY ChargedPositive
    <3>2. ASSUME NEW p \in Places, In(stack, p).pushed = TRUE
          PROVE  counter[In(stack, p).owner] >= 1
      <4>1. In(stack, p).owner \in DOMAIN counter
        BY <3>2, <1>3 DEF OwnersLive
      <4>2. Owes(In(stack, p), p, In(stack, p).owner)
        BY <3>2 DEF Owes
      <4> QED BY <4>1, <4>2, ChargedPositive
    <3>3. counter[Self(t)] = 0
      BY <2>1, <1>5
    <3> HIDE DEF Self
    <3>4. \A n \in 1..Len(works) : works[n].owner # Self(t)
      BY <3>1, <3>3
    <3>5. ASSUME NEW p \in Places, In(stack, p).pushed = TRUE,
                 In(stack, p).owner = Self(t)
          PROVE  FALSE
      <4>1. counter[Self(t)] >= 1
        BY <3>5, <3>2
      <4> QED BY <4>1, <3>3
    <3> QED BY <3>4, <3>5
  <2>2. CASE Top(t).op \notin Counting
    <3>1. Self(t) \notin DOMAIN counter
      BY <2>2, <1>2, <1>3 DEF CountersNamed
    <3> QED BY <3>1, <1>3 DEF OwnersLive
  <2> QED BY <2>1, <2>2
<1>9. CountersNamed'
  <2>1. \A p \in Places' : p \in DOMAIN counter' <=> In(stack', p).op \in Counting
    BY <1>3, <1>4, <1>7 DEF CountersNamed
  <2>2. \A c \in DOMAIN counter' : c \in Places' \cup {Whole}
    BY <1>3, <1>4, <1>6 DEF CountersNamed
  <2> QED BY <2>1, <2>2, <1>4 DEF CountersNamed
<1>10. Exact'
  <2>1. ASSUME NEW c \in DOMAIN counter'
        PROVE  counter'[c] = Cardinality(WorksOf(works', c))
                               + Cardinality(FramesOf(stack', c))
    <3>1. counter[c] = Cardinality(WorksOf(works, c)) + Cardinality(FramesOf(stack, c))
      BY <1>3, <1>4 DEF Exact
    <3>2. /\ Cardinality(WorksOf(works, c)) \in Nat
          /\ Cardinality(FramesOf(stack, c)) \in Nat
          /\ IsFiniteSet(FramesOf(stack, c))
      BY FiniteSets DEF CInv
    <3>3. FramesOf(stack', c) = FramesOf(stack, c) \ {Self(t)}
      BY <1>1 DEF FramesOf
    <3>4. Self(t) \in FramesOf(stack, c) <=> Top(t).pushed = TRUE /\ c = Top(t).owner
      BY <1>2 DEF FramesOf, Owes, Places
    <3>5. Cardinality(FramesOf(stack', c)) =
            IF Top(t).pushed = TRUE /\ c = Top(t).owner
            THEN Cardinality(FramesOf(stack, c)) - 1
            ELSE Cardinality(FramesOf(stack, c))
      BY <3>2, <3>3, <3>4, FS_RemoveElement
    <3> QED BY <3>1, <3>2, <3>5, <1>4
  <2> QED BY <2>1 DEF Exact
<1>11. OwnersLive'
  <2>1. \A n \in 1..Len(works') : works'[n].owner \in DOMAIN counter'
    BY <1>3, <1>4, <1>8 DEF OwnersLive
  <2>2. ASSUME NEW p \in Places', In(stack, p).pushed = FALSE, In(stack, p).op = "divide"
        PROVE  SortAwaits(stack', p)
    <3>1. PICK m : LET q == <<p[1], m>> IN
              /\ p[2] = m + 1 /\ q \in PlacesIn(stack) /\ In(stack, p).owner = q
              /\ In(stack, q).op = "sort" /\ In(stack, q).at = "exec"
      BY <1>3, <1>7, <2>2 DEF OwnersLive, SortAwaits
    <3>2. <<p[1], m>> # Self(t)
      BY <3>1, <1>2
    <3>3. LET q == <<p[1], m>> IN
            /\ p[2] = m + 1 /\ q \in PlacesIn(stack') /\ In(stack', p).owner = q
            /\ In(stack', q).op = "sort" /\ In(stack', q).at = "exec"
      <4> DEFINE q == <<p[1], m>>
      <4>1. q \in Places'
        BY <3>1, <3>2, <1>6 DEF Places
      <4> HIDE DEF q
      <4>2. In(stack', q) = In(stack, q) /\ In(stack', p) = In(stack, p)
        BY <4>1, <1>7
      <4> QED BY <4>1, <4>2, <3>1 DEF q, Places
    <3> QED BY <3>3 DEF SortAwaits
  <2>3. ASSUME NEW p \in Places'
        PROVE  LET f == In(stack', p) IN
               /\ f.pushed \in BOOLEAN
               /\ f.pushed = TRUE => f.owner \in DOMAIN counter' /\ f.owner # p
               /\ f.pushed = FALSE /\ f.op # "divide" => f.owner = NoWork
               /\ f.pushed = FALSE /\ f.op = "divide" => SortAwaits(stack', p)
    BY <2>2, <1>3, <1>4, <1>7, <1>8 DEF OwnersLive
  <2> QED BY <2>1, <2>3 DEF OwnersLive
<1>12. Settled'
  <2>1. ASSUME NEW p \in Places', In(stack', p).op \in Counting, IsSettled(In(stack', p))
        PROVE  counter'[p] = 0
    <3>1. p \in DOMAIN counter /\ counter[p] = 0
      BY <2>1, <1>3, <1>7 DEF CountersNamed, Settled
    <3>2. ~(Top(t).pushed = TRUE /\ p = Top(t).owner)
      <4>1. Top(t).pushed = TRUE /\ p = Top(t).owner => counter[p] >= 1
        BY <3>1, <1>2, ChargedPositive DEF Owes
      <4> QED BY <4>1, <3>1
    <3> QED BY <3>1, <3>2, <1>4, <1>7
  <2> QED BY <2>1 DEF Settled
<1>13. WorksShape'
  BY <1>3, <1>4 DEF WorksShape
<1> QED BY <1>1, <1>9, <1>10, <1>11, <1>12, <1>13 DEF CInv

(* The second half becomes a work: what the function itself owed its counter
   from the start the work owes now. *)
LEMMA SplitPushing ==
  ASSUME CInv, NEW t \in AllThreads, SplitPush(t)
  PROVE  CInv'
<1> DEFINE new == In(stack', Self(t))
           w == PushedHalf(t, Mid(Arg(t)[1], Arg(t)[2]), Arg(t)[2])
<1>1. /\ Shape'
      /\ PlacesIn(stack') = PlacesIn(stack)
      /\ \A p \in PlacesIn(stack) \ {Self(t)} : In(stack', p) = In(stack, p)
      /\ new = [op |-> Top(t).op, arg |-> Top(t).arg, owner |-> Top(t).owner,
                pushed |-> Top(t).pushed, at |-> "first", i |-> Top(t).i]
  BY Moved DEF CInv, SplitPush, At, Goto
<1>2. /\ Self(t) \in Places /\ In(stack, Self(t)) = Top(t)
      /\ Self(t)[1] = t /\ Self(t)[2] = Len(stack[t]) /\ Len(stack[t]) \in Nat \ {0}
      /\ Top(t).at = "begin" /\ Top(t).op = "split" /\ Splits(Top(t))
  BY TopPlace DEF CInv, SplitPush, At, Places
<1> HIDE DEF new, w
<1>3. /\ new.op = Top(t).op /\ new.arg = Top(t).arg /\ new.owner = Top(t).owner
      /\ new.pushed = Top(t).pushed /\ new.at = "first"
  BY <1>1
<1>4. OwnersLive /\ CountersNamed /\ WorksShape /\ Exact /\ Settled
  BY DEF CInv
<1>5. works' = Append(works, w) /\ counter' = counter
  BY DEF SplitPush, w
<1>6. IsWork(w) /\ w.owner = Self(t)
  BY DEF w, PushedHalf, Pushed, IsWork
<1>7. /\ WorksShape'
      /\ Len(works') = Len(works) + 1
      /\ \A n \in 1..Len(works) : works'[n] = works[n]
      /\ works'[Len(works')] = w
      /\ \A c : Cardinality(WorksOf(works', c)) =
           Cardinality(WorksOf(works, c)) + (IF w.owner = c THEN 1 ELSE 0)
  BY <1>4, <1>5, <1>6, WorkAdded
<1>8. Places' = Places
  BY <1>1 DEF Places
<1>9. \A p \in Places :
        /\ In(stack', p).op = In(stack, p).op
        /\ In(stack', p).owner = In(stack, p).owner
        /\ In(stack', p).pushed = In(stack, p).pushed
        /\ p # Self(t) => In(stack', p) = In(stack, p)
  BY <1>1, <1>2, <1>3 DEF new, Places
<1>10. Self(t) \in DOMAIN counter
  BY <1>2, <1>4 DEF CountersNamed, Counting
<1>11. CountersNamed'
  BY <1>4, <1>5, <1>8, <1>9 DEF CountersNamed
<1>12. ASSUME NEW c
       PROVE  FramesOf(stack', c) = IF c = Self(t) THEN FramesOf(stack, c) \ {Self(t)}
                                    ELSE FramesOf(stack, c)
  <2>1. \A p \in PlacesIn(stack) \ {Self(t)} :
          Owes(In(stack', p), p, c) <=> Owes(In(stack, p), p, c)
    BY <1>1
  <2>2. Owes(new, Self(t), c) <=> Top(t).pushed = TRUE /\ Top(t).owner = c
    BY <1>3 DEF Owes
  <2>3. Owes(Top(t), Self(t), c)
          <=> (Top(t).pushed = TRUE /\ Top(t).owner = c) \/ Self(t) = c
    BY <1>2 DEF Owes
  <2>4. ~(Top(t).pushed = TRUE /\ Top(t).owner = Self(t))
    BY <1>2, <1>4 DEF OwnersLive
  <2>5. FramesOf(stack', c) = {p \in PlacesIn(stack) : Owes(In(stack', p), p, c)}
    BY <1>1 DEF FramesOf
  <2>6. CASE c = Self(t)
    <3>1. ~Owes(new, Self(t), c)
      BY <2>2, <2>4, <2>6
    <3> QED BY <2>1, <2>5, <2>6, <3>1 DEF FramesOf, new
  <2>7. CASE c # Self(t)
    <3>1. Owes(new, Self(t), c) <=> Owes(Top(t), Self(t), c)
      BY <2>2, <2>3, <2>7
    <3> QED BY <2>1, <2>5, <2>7, <3>1, <1>2 DEF FramesOf, new
  <2> QED BY <2>6, <2>7
<1>13. Exact'
  <2>1. ASSUME NEW c \in DOMAIN counter
        PROVE  counter[c] = Cardinality(WorksOf(works', c))
                              + Cardinality(FramesOf(stack', c))
    <3>1. counter[c] = Cardinality(WorksOf(works, c)) + Cardinality(FramesOf(stack, c))
      BY <1>4 DEF Exact
    <3>2. /\ Cardinality(WorksOf(works, c)) \in Nat
          /\ Cardinality(FramesOf(stack, c)) \in Nat
          /\ IsFiniteSet(FramesOf(stack, c))
      BY FiniteSets DEF CInv
    <3>3. CASE c = Self(t)
      <4>1. Self(t) \in FramesOf(stack, c)
        BY <3>3, <1>2 DEF FramesOf, Owes, Places
      <4>2. Cardinality(FramesOf(stack, c) \ {Self(t)})
              = Cardinality(FramesOf(stack, c)) - 1
        BY <3>2, <4>1, FS_RemoveElement
      <4>3. FramesOf(stack', c) = FramesOf(stack, c) \ {Self(t)}
        BY <3>3, <1>12
      <4>4. Cardinality(WorksOf(works', c)) = Cardinality(WorksOf(works, c)) + 1
        BY <3>3, <1>6, <1>7
      <4> QED BY <3>1, <3>2, <4>2, <4>3, <4>4
    <3>4. CASE c # Self(t)
      <4>1. FramesOf(stack', c) = FramesOf(stack, c)
        BY <3>4, <1>12
      <4>2. Cardinality(WorksOf(works', c)) = Cardinality(WorksOf(works, c)) + 0
        BY <3>4, <1>6, <1>7
      <4> QED BY <3>1, <3>2, <4>1, <4>2
    <3> QED BY <3>3, <3>4
  <2> QED BY <2>1, <1>5 DEF Exact
<1>14. OwnersLive'
  <2>1. ASSUME NEW n \in 1..Len(works') PROVE works'[n].owner \in DOMAIN counter
    <3>1. Len(works) \in Nat  BY <1>4 DEF WorksShape, IsSeq
    <3>2. CASE n = Len(works')
      BY <3>2, <1>6, <1>7, <1>10
    <3>3. CASE n \in 1..Len(works)
      BY <3>3, <1>7, <1>4 DEF OwnersLive
    <3> QED BY <3>1, <3>2, <3>3, <1>7
  <2>2. ASSUME NEW p \in Places, In(stack, p).pushed = FALSE, In(stack, p).op = "divide"
        PROVE  SortAwaits(stack', p)
    <3>1. PICK m : LET q == <<p[1], m>> IN
              /\ p[2] = m + 1 /\ q \in PlacesIn(stack) /\ In(stack, p).owner = q
              /\ In(stack, q).op = "sort" /\ In(stack, q).at = "exec"
      BY <1>4, <2>2 DEF OwnersLive, SortAwaits
    <3>2. <<p[1], m>> # Self(t)
      BY <3>1, <1>2
    <3>3. LET q == <<p[1], m>> IN
            /\ p[2] = m + 1 /\ q \in PlacesIn(stack') /\ In(stack', p).owner = q
            /\ In(stack', q).op = "sort" /\ In(stack', q).at = "exec"
      BY <3>1, <3>2, <1>1, <1>9 DEF Places
    <3> QED BY <3>3 DEF SortAwaits
  <2>3. ASSUME NEW p \in Places'
        PROVE  LET f == In(stack', p) IN
               /\ f.pushed \in BOOLEAN
               /\ f.pushed = TRUE => f.owner \in DOMAIN counter' /\ f.owner # p
               /\ f.pushed = FALSE /\ f.op # "divide" => f.owner = NoWork
               /\ f.pushed = FALSE /\ f.op = "divide" => SortAwaits(stack', p)
    BY <2>2, <1>4, <1>5, <1>8, <1>9 DEF OwnersLive
  <2> QED BY <2>1, <2>3, <1>5 DEF OwnersLive
<1>15. Settled'
  <2>1. ASSUME NEW p \in Places, In(stack', p).op \in Counting, IsSettled(In(stack', p))
        PROVE  counter[p] = 0
    <3>1. p # Self(t)
      BY <2>1, <1>2, <1>3 DEF IsSettled, Settles, new
    <3> QED BY <3>1, <2>1, <1>4, <1>9 DEF Settled
  <2> QED BY <2>1, <1>5, <1>8 DEF Settled
<1> QED BY <1>1, <1>7, <1>11, <1>13, <1>14, <1>15 DEF CInv

-----------------------------------------------------------------------------
(* The actions. *)

LEMMA Calling ==
  ASSUME CInv, NEW t \in AllThreads, NEW op, NEW from, At(t, op, from), NEW at, NEW w,
         Call(t, at, w),
         op # "split" \/ from # "begin", op # "split" \/ at # "begin",
         w.pushed = FALSE, w.op # "divide" => w.owner = NoWork,
         w.op = "divide" => w.owner = Self(t) /\ op = "sort" /\ at = "exec",
         op \in Counting =>
           \/ at = "exec" /\ op # "long"
           \/ IsSettled(Top(t))
  PROVE  CInv'
<1>1. Enter(t, at, w) /\ works' = works
  BY DEF Call
<1>2. stack[t] # <<>> /\ Top(t).op = op /\ Top(t).at = from
  BY DEF At
<1>3. /\ In(stack', Self(t)) =
           [op |-> Top(t).op, arg |-> Top(t).arg, owner |-> Top(t).owner,
            pushed |-> Top(t).pushed, at |-> at, i |-> Top(t).i]
  BY <1>1, <1>2, Entered DEF CInv
<1>4. Top(t).op \in Counting /\ IsSettled(In(stack', Self(t)))
        => counter[Self(t)] = 0
  <2>1. SUFFICES ASSUME Top(t).op \in Counting, IsSettled(In(stack', Self(t)))
                 PROVE  counter[Self(t)] = 0
    OBVIOUS
  <2>2. CASE at = "exec" /\ op # "long"
    BY <2>1, <2>2, <1>2, <1>3 DEF IsSettled, Settles
  <2>3. CASE IsSettled(Top(t))
    <3>1. Self(t) \in Places /\ In(stack, Self(t)) = Top(t)
      BY <1>2, TopPlace DEF CInv, Places
    <3> QED BY <3>1, <2>1, <2>3 DEF CInv, Settled
  <2> QED BY <1>2, <2>1, <2>2, <2>3
<1>5. ~(Splits(Top(t)) /\ Top(t).at = "begin") /\ ~(Splits(Top(t)) /\ at = "begin")
  BY <1>2 DEF Splits
<1> QED BY <1>1, <1>2, <1>4, <1>5, Entering

LEMMA CallingPlainly ==
  ASSUME CInv, NEW t \in AllThreads, stack[t] # <<>>, NEW at, NEW w, Call(t, at, w),
         Top(t).op # "split" \/ (Top(t).at # "begin" /\ at # "begin"),
         w.pushed = FALSE /\ w.op # "divide" /\ w.owner = NoWork,
         \/ Top(t).op \notin Counting \/ IsSettled(Top(t))
         \/ at = "exec" /\ Top(t).op # "long"
  PROVE  CInv'
<1>1. w.op # "divide" => w.owner = NoWork
  OBVIOUS
<1>2. w.op = "divide" => w.owner = Self(t) /\ Top(t).op = "sort" /\ at = "exec"
  OBVIOUS
<1>3. Top(t).op \in Counting => (at = "exec" /\ Top(t).op # "long") \/ IsSettled(Top(t))
  OBVIOUS
<1>4. At(t, Top(t).op, Top(t).at)
  BY DEF At
<1>5. /\ Top(t).op # "split" \/ Top(t).at # "begin"
      /\ Top(t).op # "split" \/ at # "begin"
  OBVIOUS
<1> QED BY <1>1, <1>2, <1>3, <1>4, <1>5, Calling

LEMMA Staying ==
  ASSUME CInv, NEW t \in AllThreads, stack[t] # <<>>, NEW at, NEW i,
         GotoWith(t, at, i), works' = works, counter' = counter,
         Top(t).op # "split" \/ (Top(t).at # "begin" /\ at # "begin"),
         Top(t).op \in Counting /\ Settles(Top(t).op, Top(t).arg, at) =>
           IsSettled(Top(t)) \/ counter[Self(t)] = 0
  PROVE  CInv'
<1>1. In(stack', Self(t)) =
        [op |-> Top(t).op, arg |-> Top(t).arg, owner |-> Top(t).owner,
         pushed |-> Top(t).pushed, at |-> at, i |-> i]
  BY Moved DEF CInv
<1>2. IsSettled(In(stack', Self(t))) <=> Settles(Top(t).op, Top(t).arg, at)
  BY <1>1 DEF IsSettled
<1>3. Top(t).op \in Counting /\ IsSettled(Top(t)) => counter[Self(t)] = 0
  <2>1. Self(t) \in Places /\ In(stack, Self(t)) = Top(t)
    BY TopPlace DEF CInv, Places
  <2> QED BY <2>1 DEF CInv, Settled
<1>4. ~(Splits(Top(t)) /\ Top(t).at = "begin") /\ ~(Splits(Top(t)) /\ at = "begin")
  BY DEF Splits
<1>5. Top(t).op \in Counting /\ IsSettled(In(stack', Self(t)))
        => counter[Self(t)] = 0
  BY <1>2, <1>3
<1> QED BY <1>4, <1>5, Going

LEMMA Pushing ==
  ASSUME CInv, NEW t \in AllThreads, stack[t] # <<>>, NEW at, NEW i,
         GotoWith(t, at, i), NEW w, IsWork(w), Push(w), Top(t).op # "split",
         \/ /\ w.owner = Self(t) /\ Top(t).op \in Counting
            /\ ~Settles(Top(t).op, Top(t).arg, at)
         \/ w.owner = Top(t).owner /\ Top(t).op = "divide"
  PROVE  CInv'
<1>1. /\ In(stack', Self(t)) =
           [op |-> Top(t).op, arg |-> Top(t).arg, owner |-> Top(t).owner,
            pushed |-> Top(t).pushed, at |-> at, i |-> i]
      /\ \A p \in Places \ {Self(t)} : In(stack', p) = In(stack, p)
  BY Moved DEF CInv, Places
<1>2. IsSettled(In(stack', Self(t))) <=> Settles(Top(t).op, Top(t).arg, at)
  BY <1>1 DEF IsSettled
<1>3. Self(t) \in Places /\ In(stack, Self(t)) = Top(t)
  BY TopPlace DEF CInv, Places
<1>4. ~(Splits(Top(t)) /\ Top(t).at = "begin") /\ ~(Splits(Top(t)) /\ at = "begin")
  BY DEF Splits
<1>5. CASE /\ w.owner = Self(t) /\ Top(t).op \in Counting
           /\ ~Settles(Top(t).op, Top(t).arg, at)
  <2>1. w.owner \in DOMAIN counter
    BY <1>3, <1>5 DEF CInv, CountersNamed
  <2>2. ~IsSettled(In(stack', w.owner))
    BY <1>2, <1>5
  <2>3. ~IsSettled(In(stack', Self(t)))
    BY <1>2, <1>5
  <2>4. \E v : /\ IsWork(v) /\ v.owner \in DOMAIN counter /\ Push(v)
               /\ v.owner \in Places => ~IsSettled(In(stack', v.owner))
    BY <2>1, <2>2
  <2>5. Top(t).op \in Counting /\ IsSettled(In(stack', Self(t)))
          => counter[Self(t)] = 0
    BY <2>3
  <2> QED BY <1>4, <2>4, <2>5, Going
<1>6. CASE w.owner = Top(t).owner /\ Top(t).op = "divide"
  <2>1. Top(t).op \notin Counting
    BY <1>6 DEF Counting
  <2>2. ASSUME Top(t).pushed = TRUE
        PROVE  /\ w.owner \in DOMAIN counter
               /\ w.owner \in Places => ~IsSettled(In(stack', w.owner))
    <3>1. w.owner \in DOMAIN counter /\ w.owner # Self(t)
      BY <2>2, <1>3, <1>6 DEF CInv, OwnersLive
    <3>2. Owes(Top(t), Self(t), w.owner)
      BY <2>2, <1>6 DEF Owes
    <3>3. counter[w.owner] >= 1
      BY <3>1, <3>2, <1>3, ChargedPositive
    <3>4. ASSUME w.owner \in Places, IsSettled(In(stack', w.owner)) PROVE FALSE
      <4>1. In(stack', w.owner) = In(stack, w.owner)
        BY <3>4, <3>1, <1>1
      <4>2. In(stack, w.owner).op \in Counting
        BY <3>1, <3>4 DEF CInv, CountersNamed
      <4>3. counter[w.owner] = 0
        BY <4>1, <4>2, <3>4 DEF CInv, Settled
      <4> QED BY <3>3, <4>3
    <3> QED BY <3>1, <3>4
  <2>3. ASSUME Top(t).pushed = FALSE
        PROVE  /\ w.owner \in DOMAIN counter
               /\ w.owner \in Places => ~IsSettled(In(stack', w.owner))
    <3>1. SortAwaits(stack, Self(t))
      BY <2>3, <1>3, <1>6 DEF CInv, OwnersLive
    <3>2. PICK m : LET q == <<Self(t)[1], m>> IN
            /\ Self(t)[2] = m + 1 /\ q \in PlacesIn(stack)
            /\ In(stack, Self(t)).owner = q
            /\ In(stack, q).op = "sort" /\ In(stack, q).at = "exec"
      BY <3>1 DEF SortAwaits
    <3>3. /\ w.owner \in Places /\ In(stack, w.owner).op = "sort"
          /\ In(stack, w.owner).at = "exec"
      BY <3>2, <1>3, <1>6 DEF Places
    <3>4. w.owner # Self(t)
      BY <3>3, <1>3, <1>6
    <3>5. In(stack', w.owner) = In(stack, w.owner)
      BY <3>3, <3>4, <1>1
    <3>6. w.owner \in DOMAIN counter
      BY <3>3 DEF CInv, CountersNamed, Counting
    <3> QED BY <3>3, <3>5, <3>6 DEF IsSettled, Settles
  <2>4. Top(t).pushed = TRUE \/ Top(t).pushed = FALSE
    BY <1>3 DEF CInv, OwnersLive
  <2>5. \E v : /\ IsWork(v) /\ v.owner \in DOMAIN counter /\ Push(v)
               /\ v.owner \in Places => ~IsSettled(In(stack', v.owner))
    BY <2>2, <2>3, <2>4
  <2>6. Top(t).op \in Counting /\ IsSettled(In(stack', Self(t)))
          => counter[Self(t)] = 0
    BY <2>1
  <2> QED BY <1>4, <2>5, <2>6, Going
<1> QED BY <1>5, <1>6


LEMMA ReturnKeeps ==
  ASSUME CInv, NEW t \in AllThreads, Return(t) \/ Test(t) \/ Pop(t) \/ Yield(t)
  PROVE  CInv'
<1>1. CASE Return(t)
  BY <1>1, Returning
<1>2. CASE Test(t)
  <2> DEFINE at == IF Finished(CounterOf(t)) THEN AfterExec(Top(t).op) ELSE "pop"
  <2>1. /\ stack[t] # <<>> /\ Top(t).at = "exec" /\ GotoWith(t, at, Top(t).i)
        /\ works' = works /\ counter' = counter
    BY <1>2 DEF Test, Goto
  <2>2. at # "begin"
    BY DEF AfterExec
  <2>3. ASSUME Top(t).op \in Counting, Settles(Top(t).op, Top(t).arg, at)
        PROVE  IsSettled(Top(t)) \/ counter[Self(t)] = 0
    <3>1. CASE Finished(CounterOf(t))
      <4>1. Top(t).op # "thread"
        BY <2>3 DEF Counting
      <4> QED BY <4>1, <3>1 DEF CounterOf, Finished
    <3>2. CASE ~Finished(CounterOf(t))
      BY <2>1, <2>3, <3>2 DEF IsSettled, Settles
    <3> QED BY <3>1, <3>2
  <2> HIDE DEF at
  <2> QED BY <2>1, <2>2, <2>3, Staying
<1>3. CASE Pop(t)
  <2> DEFINE w == works[Len(works)]
  <2>1. /\ stack[t] # <<>> /\ Top(t).at = "pop" /\ works # <<>>
        /\ Enter(t, "exec", w) /\ works' = SubSeq(works, 1, Len(works) - 1)
    BY <1>3 DEF Pop
  <2>2. In(stack', Self(t)) =
          [op |-> Top(t).op, arg |-> Top(t).arg, owner |-> Top(t).owner,
           pushed |-> Top(t).pushed, at |-> "exec", i |-> Top(t).i]
    BY <2>1, Entered DEF CInv
  <2>3. Top(t).op \in Counting /\ IsSettled(In(stack', Self(t))) => counter[Self(t)] = 0
    <3>1. IsSettled(In(stack', Self(t))) => IsSettled(Top(t))
      BY <2>1, <2>2 DEF IsSettled, Settles
    <3>2. Self(t) \in Places /\ In(stack, Self(t)) = Top(t)
      BY <2>1, TopPlace DEF CInv, Places
    <3> QED BY <3>1, <3>2 DEF CInv, Settled
  <2> HIDE DEF w
  <2>4. /\ works # <<>> /\ works' = SubSeq(works, 1, Len(works) - 1)
        /\ w = works[Len(works)]
    BY <2>1 DEF w
  <2>5. ~(Splits(Top(t)) /\ Top(t).at = "begin") /\ ~(Splits(Top(t)) /\ "exec" = "begin")
    BY <2>1
  <2> HIDE <1>3
  <2> QED BY <2>1, <2>3, <2>4, <2>5, Entering
<1>4. CASE Yield(t)
  <2>1. /\ stack[t] # <<>> /\ Top(t).at = "pop" /\ GotoWith(t, "exec", Top(t).i)
        /\ works' = works /\ counter' = counter
    BY <1>4 DEF Yield, Goto
  <2>2. Settles(Top(t).op, Top(t).arg, "exec") => IsSettled(Top(t))
    BY DEF IsSettled, Settles
  <2> QED BY <2>1, <2>2, Staying
<1> QED BY <1>1, <1>2, <1>3, <1>4

LEMMA StartKeeps ==
  ASSUME CInv, NEW t \in AllThreads, StartSort(t) \/ StartSplit(t) \/ StartMove(t)
  PROVE  CInv'
<1>1. "start" \notin Counting
  BY DEF Counting
<1>2. CASE StartSort(t)
  <2> DEFINE w == Called("sort", <<0, nelem>>, NoWork)
  <2>1. At(t, "start", "begin") /\ Call(t, "end", w)
    BY <1>2 DEF StartSort
  <2>2. w.pushed = FALSE /\ w.op # "divide" /\ w.owner = NoWork
    BY DEF Called
  <2> HIDE DEF w
  <2>4. /\ stack[t] # <<>> /\ Call(t, "end", w)
        /\ Top(t).op = "start"
    BY <2>1 DEF At
  <2> QED BY <1>1, <2>2, <2>4, CallingPlainly
<1>3. CASE StartSplit(t)
  <2> DEFINE w == Called("split", <<0, nblock, NBits(nthread - 1) - 2>>, NoWork)
  <2>1. At(t, "start", "begin") /\ Call(t, "move", w)
    BY <1>3 DEF StartSplit
  <2>2. w.pushed = FALSE /\ w.op # "divide" /\ w.owner = NoWork
    BY DEF Called
  <2> HIDE DEF w
  <2>4. /\ stack[t] # <<>> /\ Call(t, "move", w)
        /\ Top(t).op = "start"
    BY <2>1 DEF At
  <2> QED BY <1>1, <2>2, <2>4, CallingPlainly
<1>4. CASE StartMove(t)
  <2> DEFINE w == Called("blocks", <<>>, NoWork)
  <2>1. At(t, "start", "move") /\ Call(t, "end", w)
    BY <1>4 DEF StartMove
  <2>2. w.pushed = FALSE /\ w.op # "divide" /\ w.owner = NoWork
    BY DEF Called
  <2> HIDE DEF w
  <2>4. /\ stack[t] # <<>> /\ Call(t, "end", w)
        /\ Top(t).op = "start"
    BY <2>1 DEF At
  <2> QED BY <1>1, <2>2, <2>4, CallingPlainly
<1> QED BY <1>2, <1>3, <1>4

LEMMA SplitKeeps ==
  ASSUME CInv, NEW t \in AllThreads, SplitPush(t) \/ SplitFirst(t) \/ SplitMerge(t)
  PROVE  CInv'
<1>1. CASE SplitPush(t)
  BY <1>1, SplitPushing
<1>2. CASE SplitFirst(t)
  <2> DEFINE w == CalledHalf(t, Arg(t)[1], Mid(Arg(t)[1], Arg(t)[2]))
  <2>1. At(t, "split", "first") /\ Call(t, "exec", w)
    BY <1>2 DEF SplitFirst
  <2>2. w.pushed = FALSE /\ w.op # "divide" /\ w.owner = NoWork
    BY DEF CalledHalf, Called, Half
  <2> HIDE DEF w
  <2>4. /\ stack[t] # <<>> /\ Call(t, "exec", w)
        /\ Top(t).op = "split" /\ Top(t).at = "first"
    BY <2>1 DEF At
  <2> QED BY <2>2, <2>4, CallingPlainly
<1>3. CASE SplitMerge(t)
  <2> DEFINE w == Called("merge", <<Arg(t)[1], Mid(Arg(t)[1], Arg(t)[2]), Arg(t)[2]>>,
                         NoWork)
  <2>1. At(t, "split", "merge") /\ Call(t, "end", w)
    BY <1>3 DEF SplitMerge
  <2>2. w.pushed = FALSE /\ w.op # "divide" /\ w.owner = NoWork
    BY DEF Called
  <2>3. IsSettled(Top(t))
    BY <2>1 DEF At, IsSettled, Settles
  <2> HIDE DEF w
  <2>4. /\ stack[t] # <<>> /\ Call(t, "end", w)
        /\ Top(t).op = "split" /\ Top(t).at = "merge"
    BY <2>1 DEF At
  <2> QED BY <2>2, <2>3, <2>4, CallingPlainly
<1> QED BY <1>1, <1>2, <1>3

LEMMA SortKeeps ==
  ASSUME CInv, NEW t \in AllThreads, SortSmall(t) \/ SortDivide(t)
  PROVE  CInv'
<1>1. CASE SortSmall(t)
  <2>1. /\ stack[t] # <<>> /\ Top(t).op = "sort" /\ Top(t).at = "begin"
        /\ GotoWith(t, "end", Top(t).i) /\ works' = works /\ counter' = counter
    BY <1>1 DEF SortSmall, Goto, At
  <2>2. IsSettled(Top(t))
    BY <2>1 DEF IsSettled, Settles
  <2> QED BY <2>1, <2>2, Staying
<1>2. CASE SortDivide(t)
  <2> DEFINE w == Called("divide", <<Arg(t)[1], Arg(t)[2], level(Arg(t)[2] - Arg(t)[1])>>,
                         Self(t))
  <2>1. At(t, "sort", "begin") /\ Call(t, "exec", w)
    BY <1>2 DEF SortDivide
  <2>2. w.pushed = FALSE /\ w.op = "divide" /\ w.owner = Self(t)
    BY DEF Called
  <2> HIDE DEF w
  <2> QED BY <2>1, <2>2, Calling
<1> QED BY <1>1, <1>2

LEMMA DivideKeeps ==
  ASSUME CInv, NEW t \in AllThreads,
         DivideSort(t) \/ DividePartition(t) \/ DivideLeft(t)
  PROVE  CInv'
<1>1. stack[t] # <<>> /\ Top(t).op = "divide"
  BY DEF DivideSort, DividePartition, DivideLeft, At
<1>2. "divide" \notin Counting
  BY DEF Counting
<1>3. CASE DivideSort(t)
  <2>1. GotoWith(t, "end", Top(t).i) /\ works' = works /\ counter' = counter
    BY <1>3 DEF DivideSort, Goto
  <2> QED BY <1>1, <1>2, <2>1, Staying
<1>4. CASE DividePartition(t)
  <2>1. PICK k, m : /\ Push(Pushed("divide", <<Arg(t)[1] + m, Arg(t)[2], Arg(t)[3] - 1>>,
                                   Top(t).owner))
                    /\ GotoWith(t, "left", k)
    BY <1>4 DEF DividePartition
  <2> DEFINE w == Pushed("divide", <<Arg(t)[1] + m, Arg(t)[2], Arg(t)[3] - 1>>,
                         Top(t).owner)
  <2>2. IsWork(w) /\ w.owner = Top(t).owner
    BY DEF IsWork, Pushed
  <2>3. Push(w)
    BY <2>1
  <2> HIDE DEF w
  <2> QED BY <1>1, <2>1, <2>2, <2>3, Pushing
<1>5. CASE DivideLeft(t)
  <2> DEFINE w == Pushed("divide", <<Arg(t)[1], Arg(t)[1] + Top(t).i, Arg(t)[3] - 1>>,
                         Top(t).owner)
  <2>1. Push(w) /\ GotoWith(t, "end", Top(t).i)
    BY <1>5 DEF DivideLeft, Goto
  <2>2. IsWork(w) /\ w.owner = Top(t).owner
    BY DEF IsWork, Pushed
  <2> HIDE DEF w
  <2> QED BY <1>1, <2>1, <2>2, Pushing
<1> QED BY <1>3, <1>4, <1>5

LEMMA MergeKeeps ==
  ASSUME CInv, NEW t \in AllThreads, MergeIndex(t) \/ Extract(t) \/ Cut(t)
  PROVE  CInv'
<1>1. CASE MergeIndex(t)
  <2>1. /\ stack[t] # <<>> /\ Top(t).op = "merge" /\ GotoWith(t, "extract", Top(t).i)
        /\ works' = works /\ counter' = counter
    BY <1>1 DEF MergeIndex, At, Goto
  <2>2. ~Settles(Top(t).op, Top(t).arg, "extract")
    BY <2>1 DEF Settles
  <2> QED BY <2>1, <2>2, Staying
<1>2. ASSUME NEW op \in {"merge", "cut"}, stack[t] # <<>>, Top(t).op = op,
             NEW at \in {"exec", "extract", "begin"}, NEW i, GotoWith(t, at, i),
             NEW w, w.owner = Self(t), IsWork(w),
             Push(w) \/ UNCHANGED <<works, counter>>
      PROVE  CInv'
  <2>1. Top(t).op \in Counting /\ Top(t).op # "split"
    BY <1>2 DEF Counting
  <2>2. ~Settles(Top(t).op, Top(t).arg, at)
    BY <1>2 DEF Settles
  <2>3. CASE Push(w)
    BY <1>2, <2>1, <2>2, <2>3, Pushing
  <2>4. CASE UNCHANGED <<works, counter>>
    BY <1>2, <2>1, <2>2, <2>4, Staying
  <2> QED BY <1>2, <2>3, <2>4
<1>3. CASE Extract(t)
  <2> DEFINE first == Arg(t)[1] + Top(t).i
             last == RangeEnd(t)
             end == Overlapped(first, last)
             op == IF end - first > Group_size THEN "cut" ELSE "range"
             w == Pushed(op, <<first, end>>, Self(t))
             at == IF end = last THEN "exec" ELSE "extract"
  <2>1. /\ stack[t] # <<>> /\ Top(t).op = "merge"
        /\ IF end - first > 1 THEN Push(w) ELSE UNCHANGED <<works, counter>>
        /\ GotoWith(t, at, end - Arg(t)[1])
    BY <1>3 DEF Extract, At
  <2>2. w.owner = Self(t) /\ IsWork(w)
    BY DEF Pushed, IsWork
  <2>3. at \in {"exec", "extract", "begin"}
    OBVIOUS
  <2> HIDE DEF w, at, end, first
  <2> QED BY <1>2, <2>1, <2>2, <2>3
<1>4. CASE Cut(t)
  <2> DEFINE first == Arg(t)[1] + Top(t).i
             last == Arg(t)[2]
             end == PartEnd(first, last, SizePart(last - Arg(t)[1]))
             w == Pushed("range", <<first, end>>, Self(t))
             at == IF end = last THEN "exec" ELSE "begin"
  <2>1. /\ stack[t] # <<>> /\ Top(t).op = "cut"
        /\ IF end - first > 1 THEN Push(w) ELSE UNCHANGED <<works, counter>>
        /\ GotoWith(t, at, end - Arg(t)[1])
    BY <1>4 DEF Cut, At
  <2>2. w.owner = Self(t) /\ IsWork(w)
    BY DEF Pushed, IsWork
  <2>3. at \in {"exec", "extract", "begin"}
    OBVIOUS
  <2> HIDE DEF w, at, end, first
  <2> QED BY <1>2, <2>1, <2>2, <2>3
<1> QED BY <1>1, <1>3, <1>4

LEMMA RangeKeeps ==
  ASSUME CInv, NEW t \in AllThreads,
         \/ RangeLoad(t) \/ RangeFlow(t) \/ RangeStore(t)
         \/ MoveLoad(t) \/ MoveShift(t) \/ MoveStore(t)
  PROVE  CInv'
<1>1. ASSUME NEW op \in {"range", "move"}, stack[t] # <<>>, Top(t).op = op,
             NEW at, NEW i, GotoWith(t, at, i), UNCHANGED <<works, counter>>
      PROVE  CInv'
  <2>1. Top(t).op \notin Counting /\ Top(t).op # "split"
    BY <1>1 DEF Counting
  <2> QED BY <1>1, <2>1, Staying
<1>2. CASE RangeLoad(t)
  BY <1>1, <1>2 DEF RangeLoad, At
<1>3. CASE RangeFlow(t)
  BY <1>1, <1>3 DEF RangeFlow, At
<1>4. CASE RangeStore(t)
  BY <1>1, <1>4 DEF RangeStore, At, Goto
<1>5. CASE MoveLoad(t)
  BY <1>1, <1>5 DEF MoveLoad, At
<1>6. CASE MoveShift(t)
  BY <1>1, <1>6 DEF MoveShift, At
<1>7. CASE MoveStore(t)
  BY <1>1, <1>7 DEF MoveStore, At, Goto
<1> QED BY <1>2, <1>3, <1>4, <1>5, <1>6, <1>7

LEMMA CycleKeeps ==
  ASSUME CInv, NEW t \in AllThreads, MoveCycle(t) \/ MoveWait(t)
  PROVE  CInv'
<1>1. /\ stack[t] # <<>> /\ Top(t).op = "blocks"
  BY DEF MoveCycle, MoveWait, At
<1>2. Top(t).op \in Counting /\ Top(t).op # "split"
  BY <1>1 DEF Counting
<1>3. CASE MoveCycle(t)
  <2> DEFINE p == CHOOSE q \in Misplaced(t) : \A r \in Misplaced(t) : q <= r
             sequence == Cycle(p)
             op == IF Len(sequence) < Group_size THEN "move" ELSE "long"
             w == Pushed(op, sequence, Self(t))
  <2>1. Push(w) /\ GotoWith(t, "begin", p)
    BY <1>3 DEF MoveCycle
  <2>2. w.owner = Self(t) /\ IsWork(w)
    BY DEF Pushed, IsWork
  <2>3. ~Settles(Top(t).op, Top(t).arg, "begin")
    BY <1>1 DEF Settles
  <2> HIDE DEF w, p
  <2> QED BY <1>1, <1>2, <2>1, <2>2, <2>3, Pushing
<1>4. CASE MoveWait(t)
  <2>1. GotoWith(t, "exec", Top(t).i) /\ works' = works /\ counter' = counter
    BY <1>4 DEF MoveWait, Goto
  <2>2. ~Settles(Top(t).op, Top(t).arg, "exec")
    BY <1>1 DEF Settles
  <2> QED BY <1>1, <1>2, <2>1, <2>2, Staying
<1> QED BY <1>3, <1>4

LEMMA LongKeeps ==
  ASSUME CInv, NEW t \in AllThreads, LongShort(t) \/ LongPart(t) \/ LongAgain(t)
  PROVE  CInv'
<1>1. stack[t] # <<>> /\ Top(t).op = "long"
  BY DEF LongShort, LongPart, LongAgain, At
<1>2. CASE LongShort(t)
  <2> DEFINE w == Called("move", Arg(t), NoWork)
  <2>1. Len(Arg(t)) < Group_size /\ Call(t, "end", w)
    BY <1>2 DEF LongShort
  <2>2. w.pushed = FALSE /\ w.op # "divide" /\ w.owner = NoWork
    BY DEF Called
  <2>3. IsSettled(Top(t))
    BY <1>1, <2>1 DEF IsSettled, Settles, Arg
  <2> HIDE DEF w
  <2> QED BY <1>1, <2>1, <2>2, <2>3, CallingPlainly
<1>3. CASE LongPart(t)
  <2> DEFINE w == Pushed("move", PartOf(Arg(t), Top(t).i), Self(t))
             at == IF Top(t).i = NPart(Len(Arg(t))) - 1 THEN "exec" ELSE "begin"
  <2>1. ~(Len(Arg(t)) < Group_size) /\ Push(w) /\ GotoWith(t, at, Top(t).i + 1)
    BY <1>3 DEF LongPart
  <2>2. w.owner = Self(t) /\ IsWork(w)
    BY DEF Pushed, IsWork
  <2>3. ~Settles(Top(t).op, Top(t).arg, at)
    BY <1>1, <2>1 DEF Settles, Arg
  <2>4. Top(t).op \in Counting /\ Top(t).op # "split"
    BY <1>1 DEF Counting
  <2> HIDE DEF w, at
  <2> QED BY <1>1, <2>1, <2>2, <2>3, <2>4, Pushing
<1>4. CASE LongAgain(t)
  <2> DEFINE index_seq == [i \in 1..NPart(Len(Arg(t))) |->
                            LET part == PartOf(Arg(t), i - 1) IN part[Len(part)]]
             w == Called("long", index_seq, NoWork)
  <2>1. Top(t).at = "again" /\ Call(t, "end", w)
    BY <1>4 DEF LongAgain, At
  <2>2. w.pushed = FALSE /\ w.op # "divide" /\ w.owner = NoWork
    BY DEF Called
  <2>3. IsSettled(Top(t))
    BY <2>1 DEF IsSettled, Settles
  <2> HIDE DEF w
  <2> QED BY <1>1, <2>1, <2>2, <2>3, CallingPlainly
<1> QED BY <1>2, <1>3, <1>4

(* The constructor makes the threads and pushes the first work. *)
LEMMA Launching ==
  ASSUME Launch
  PROVE  CInv'
<1> DEFINE thread == [Frame(Called("thread", <<>>, NoWork)) EXCEPT !.at = "exec"]
           one == <<thread>>
           start == Pushed("start", <<>>, Whole)
<1>1. /\ counter' = [c \in {Whole} |-> 1] /\ works' = <<start>>
      /\ stack' = [t \in AllThreads |-> IF t \in 1..ThreadCount THEN one ELSE <<>>]
  BY DEF Launch
<1>2. /\ thread = [op |-> "thread", arg |-> <<>>, owner |-> NoWork,
                   pushed |-> FALSE, at |-> "exec", i |-> 0]
  <2>1. Frame(Called("thread", <<>>, NoWork)) =
          [op |-> "thread", arg |-> <<>>, owner |-> NoWork,
           pushed |-> FALSE, at |-> "begin", i |-> 0]
    BY DEF Frame, Called
  <2>2. IsFrame(Frame(Called("thread", <<>>, NoWork)))
    BY <2>1 DEF IsFrame
  <2>3. thread = [op |-> "thread", arg |-> <<>>, owner |-> NoWork,
                  pushed |-> FALSE, at |-> "exec", i |-> 0]
    <3> DEFINE f == Frame(Called("thread", <<>>, NoWork))
    <3>1. /\ f.op = "thread" /\ f.arg = <<>> /\ f.owner = NoWork
          /\ f.pushed = FALSE /\ f.i = 0 /\ IsFrame(f)
      BY <2>1, <2>2
    <3> HIDE DEF f
    <3>2. [f EXCEPT !.at = "exec"] =
            [op |-> "thread", arg |-> <<>>, owner |-> NoWork,
             pushed |-> FALSE, at |-> "exec", i |-> 0]
      BY <3>1, FramePlaced
    <3> QED BY <3>2 DEF f
  <2> QED BY <2>3
<1>3. IsWork(start) /\ start.owner = Whole
  BY DEF start, Pushed, IsWork
<1> HIDE DEF thread, start
<1>4. Len(one) = 1 /\ one[1] = thread /\ one = [n \in 1..1 |-> one[n]]
  OBVIOUS
<1> HIDE DEF one
<1>5. WorksShape' /\ Len(works') = 1 /\ works'[1] = start
  BY <1>1, <1>3 DEF WorksShape, IsSeq
<1>6. \A t \in AllThreads : stack'[t] = one \/ stack'[t] = <<>>
  BY <1>1
<1>7. IsFrame(thread)
  BY <1>2 DEF IsFrame
<1>8. Shape'
  <2>1. stack' = [t \in AllThreads |-> stack'[t]]
    BY <1>1
  <2>2. ASSUME NEW t \in AllThreads
        PROVE  /\ IsSeq(stack'[t])
               /\ \A n \in 1..Len(stack'[t]) : IsFrame(stack'[t][n])
    <3>1. CASE stack'[t] = one
      BY <3>1, <1>4, <1>7 DEF IsSeq
    <3>2. CASE stack'[t] = <<>>
      BY <3>2 DEF IsSeq
    <3> QED BY <3>1, <3>2, <1>6
  <2> QED BY <2>1, <2>2 DEF Shape
<1>9. ASSUME NEW p \in Places'
      PROVE  In(stack', p) = thread /\ p # Whole
  <2>1. p = <<p[1], p[2]>> /\ p[1] \in AllThreads /\ p[2] \in 1..Len(stack'[p[1]])
    BY PlacesDef DEF Places
  <2>2. stack'[p[1]] = one /\ p[2] = 1
    <3>1. CASE stack'[p[1]] = <<>>
      <4>1. 1..Len(stack'[p[1]]) = {}
        BY <3>1
      <4> QED BY <4>1, <2>1
    <3>2. CASE stack'[p[1]] = one
      BY <3>2, <2>1, <1>4
    <3> QED BY <3>1, <3>2, <2>1, <1>6
  <2>3. p # Whole
    BY <2>1, <2>2, FiniteThreads DEF Whole
  <2> QED BY <2>2, <2>3, <1>4 DEF In
<1>10. CountersNamed'
  <2>1. \A p \in Places' : p \notin DOMAIN counter' /\ In(stack', p).op \notin Counting
    BY <1>1, <1>2, <1>9 DEF Counting
  <2>2. DOMAIN counter' = {Whole} /\ counter' = [c \in DOMAIN counter' |-> counter'[c]]
    BY <1>1
  <2> QED BY <2>1, <2>2 DEF CountersNamed
<1>11. Exact'
  <2>1. WorksOf(works', Whole) = {1}
    BY <1>3, <1>5 DEF WorksOf
  <2>2. FramesOf(stack', Whole) = {}
    <3>1. ASSUME NEW p \in PlacesIn(stack') PROVE ~Owes(In(stack', p), p, Whole)
      <4>1. In(stack', p) = thread
        BY <1>9 DEF Places
      <4>2. thread.pushed # TRUE /\ ~Splits(thread)
        BY <1>2 DEF Splits
      <4> QED BY <4>1, <4>2 DEF Owes
    <3> QED BY <3>1 DEF FramesOf
  <2>3. Cardinality({1}) = 1 /\ Cardinality({}) = 0
    BY FS_Singleton, FS_EmptySet
  <2>4. DOMAIN counter' = {Whole} /\ counter'[Whole] = 1
    BY <1>1
  <2> HIDE <1>1
  <2> QED BY <2>1, <2>2, <2>3, <2>4 DEF Exact
<1>12. OwnersLive'
  <2>1. \A n \in 1..Len(works') : works'[n].owner \in DOMAIN counter'
    BY <1>1, <1>3, <1>5
  <2>2. thread.pushed = FALSE /\ thread.op # "divide" /\ thread.owner = NoWork
    BY <1>2
  <2> QED BY <2>1, <2>2, <1>9 DEF OwnersLive
<1>13. Settled'
  BY <1>2, <1>9 DEF Settled, Counting
<1> QED BY <1>5, <1>8, <1>10, <1>11, <1>12, <1>13 DEF CInv

LEMMA CInvInit == BInit => CInv
<1> SUFFICES ASSUME BInit PROVE CInv
  OBVIOUS
<1>1. /\ works = <<>> /\ counter = <<>> /\ stack = [t \in AllThreads |-> <<>>]
  BY DEF BInit
<1>2. Shape
  BY <1>1 DEF Shape, IsSeq
<1>3. WorksShape
  BY <1>1 DEF WorksShape, IsSeq
<1>4. Places = {}
  BY <1>1, PlacesDef DEF Places
<1>5. DOMAIN counter = {}
  BY <1>1
<1>6. CountersNamed
  BY <1>1, <1>4, <1>5 DEF CountersNamed
<1>7. Exact /\ OwnersLive /\ Settled
  BY <1>1, <1>4, <1>5 DEF Exact, OwnersLive, Settled
<1> QED BY <1>2, <1>3, <1>6, <1>7 DEF CInv

LEMMA CInvStep == CInv /\ [BNext]_sortVars => CInv'
<1> SUFFICES ASSUME CInv, [BNext]_sortVars PROVE CInv'
  OBVIOUS
<1>1. ASSUME UNCHANGED <<works, counter, stack>> PROVE CInv'
  BY <1>1 DEF CInv, Shape, WorksShape, CountersNamed, Exact, OwnersLive, Settled, Places
<1>2. CASE Launch
  BY <1>2, Launching
<1>3. CASE SortAlone
  BY <1>1, <1>3 DEF SortAlone
<1>4. CASE GetFutures
  BY <1>1, <1>4 DEF GetFutures
<1>5. CASE UNCHANGED sortVars
  BY <1>1, <1>5 DEF sortVars
<1>6. ASSUME NEW t \in AllThreads, Step(t) PROVE CInv'
  <2>1. CASE Return(t) \/ Test(t) \/ Pop(t) \/ Yield(t)
    BY <2>1, ReturnKeeps
  <2>2. CASE StartSort(t) \/ StartSplit(t) \/ StartMove(t)
    BY <2>2, StartKeeps
  <2>3. CASE SplitPush(t) \/ SplitFirst(t) \/ SplitMerge(t)
    BY <2>3, SplitKeeps
  <2>4. CASE SortSmall(t) \/ SortDivide(t)
    BY <2>4, SortKeeps
  <2>5. CASE DivideSort(t) \/ DividePartition(t) \/ DivideLeft(t)
    BY <2>5, DivideKeeps
  <2>6. CASE MergeIndex(t) \/ Extract(t) \/ Cut(t)
    BY <2>6, MergeKeeps
  <2>7. CASE \/ RangeLoad(t) \/ RangeFlow(t) \/ RangeStore(t)
             \/ MoveLoad(t) \/ MoveShift(t) \/ MoveStore(t)
    BY <2>7, RangeKeeps
  <2>8. CASE MoveCycle(t) \/ MoveWait(t)
    BY <2>8, CycleKeeps
  <2>9. CASE LongShort(t) \/ LongPart(t) \/ LongAgain(t)
    BY <2>9, LongKeeps
  <2> QED BY <1>6, <2>1, <2>2, <2>3, <2>4, <2>5, <2>6, <2>7, <2>8, <2>9 DEF Step
<1> QED BY <1>2, <1>3, <1>4, <1>5, <1>6 DEF BNext, BTerminated

(* CInv counts as CountersExact does. *)
LEMMA CInvExact == CInv => CountersExact
<1> SUFFICES ASSUME CInv PROVE CountersExact
  OBVIOUS
<1>1. Shape /\ WorksShape /\ OwnersLive /\ Exact
  BY DEF CInv
<1>2. \A t \in AllThreads : DOMAIN stack[t] = 1..Len(stack[t])
  BY <1>1 DEF Shape, IsSeq
<1>3. DOMAIN works = 1..Len(works)
  BY <1>1 DEF WorksShape, IsSeq
<1>4. UNION {{t} \X DOMAIN stack[t] : t \in AllThreads} = Places
  BY <1>2 DEF Places, PlacesIn
<1>5. \A p \in Places : (In(stack, p).pushed <=> In(stack, p).pushed = TRUE)
  <2>1. \A p \in Places : In(stack, p).pushed \in BOOLEAN
    BY <1>1 DEF OwnersLive
  <2> QED BY <2>1, Zenon
<1>6. ASSUME NEW c PROVE Charged(c) = Cardinality(WorksOf(works, c))
                                        + Cardinality(FramesOf(stack, c))
  <2>1. {n \in DOMAIN works : works[n].owner = c} = WorksOf(works, c)
    BY <1>3 DEF WorksOf
  <2>2. {tn \in UNION {{t} \X DOMAIN stack[t] : t \in AllThreads} :
           LET f == stack[tn[1]][tn[2]] IN
           \/ f.pushed /\ f.owner = c
           \/ Splits(f) /\ f.at = "begin" /\ tn = c} = FramesOf(stack, c)
    BY <1>4, <1>5 DEF FramesOf, Owes, In, Places
  <2> QED BY <2>1, <2>2 DEF Charged
<1>7. \A c \in DOMAIN counter : counter[c] = Charged(c)
  BY <1>1, <1>6 DEF Exact
<1>8. \A n \in DOMAIN works : works[n].owner \in DOMAIN counter
  BY <1>1, <1>3 DEF OwnersLive
<1>9. ASSUME NEW t \in AllThreads, NEW n \in DOMAIN stack[t], stack[t][n].owner # NoWork
      PROVE  stack[t][n].owner \in DOMAIN counter
  <2> DEFINE p == <<t, n>>
  <2>1. p \in Places /\ In(stack, p) = stack[t][n]
    BY <1>2, PlacesDef DEF Places, In
  <2> HIDE DEF p
  <2>2. CASE In(stack, p).pushed = TRUE
    BY <2>1, <2>2, <1>1 DEF OwnersLive
  <2>3. CASE In(stack, p).pushed = FALSE
    <3>1. SortAwaits(stack, p)
      BY <2>1, <2>3, <1>1, <1>9 DEF OwnersLive
    <3>2. PICK m : LET q == <<p[1], m>> IN
            /\ p[2] = m + 1 /\ q \in PlacesIn(stack) /\ In(stack, p).owner = q
            /\ In(stack, q).op = "sort" /\ In(stack, q).at = "exec"
      BY <3>1 DEF SortAwaits
    <3>3. In(stack, p).owner \in Places /\ In(stack, In(stack, p).owner).op = "sort"
      BY <3>2 DEF Places
    <3> QED BY <3>3, <2>1 DEF CInv, CountersNamed, Counting
  <2> QED BY <2>1, <2>2, <2>3, <1>1 DEF OwnersLive
<1> QED BY <1>7, <1>8, <1>9 DEF CountersExact

(* CountersExact for every input, every number of threads and every block and
   group size: a counter for which split_range, parallel_sort,
   merge_blocks, move_blocks and their parts wait in backbone::exec is, in every
   state of every thread, the number of works and functions that have yet to
   decrement it, and none of them refers to the counter of a function that has
   returned.  So exec never returns while a work it waits for is unfinished. *)
THEOREM CountersStayExact == BSpec => []CountersExact
<1>1. BSpec => []CInv
  BY CInvInit, CInvStep, PTL DEF BSpec
<1> QED BY <1>1, CInvExact, PTL

=============================================================================
