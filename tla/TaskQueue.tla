------------------------------ MODULE TaskQueue ------------------------------
(***************************************************************************)
(* ThreadPool::task_queue as the linked list it is (in ThreadPool it is a  *)
(* sequence).  Its operations run with queue_rwlock held, so each of them  *)
(* is a step.                                                              *)
(*                                                                         *)
(* next() deletes the first node and does not look at tail: after the last *)
(* node has gone, tail points to freed memory, which new may hand out      *)
(* again.  A write through a pointer to freed memory hits no node.         *)
(***************************************************************************)
EXTENDS Integers, Sequences, FiniteSets

CONSTANTS
  Addresses,  (* where new may place a node                                 *)
  Null,       (* nullptr                                                    *)
  QueueTasks, (* the tasks, which may be inserted again and again           *)
  Free        (* memory that holds no node                                  *)

ASSUME ListAssumption ==
  /\ Null \notin Addresses \cup QueueTasks
  /\ Free \notin [task : QueueTasks, next : Addresses \cup {Null}]

VARIABLES
  heap,    (* the node at each address                                      *)
  head,    (* task_queue::head                                              *)
  tail,    (* task_queue::tail                                              *)
  n_tasks, (* task_queue::n_tasks                                           *)
  taken,   (* what next() returned last                                     *)
  open,    (* whether the destructor has not been called                    *)
  nodes    (* history: the addresses of the nodes in the order of insertion *)

listVars == <<heap, head, tail, n_tasks, taken, open, nodes>>

Nodes == [task : QueueTasks, next : Addresses \cup {Null}]
Allocated == {a \in Addresses : heap[a] # Free}

(* new task_queue_node(task) *)
NewNode(t) == [task |-> t, next |-> Null]

(* p->next = a *)
Linked(node, a) == IF node = Free THEN Free ELSE [node EXCEPT !.next = a]

(* The test of insert (and one that relies on tail). *)
NoTail == tail = Null
Empty == n_tasks = 0

insert(t) ==
  /\ open
  /\ \E a \in Addresses \ Allocated :
       /\ IF Empty
          THEN /\ head' = a
               /\ heap' = [heap EXCEPT ![a] = NewNode(t)]
          ELSE /\ head' = head
               /\ heap' = [p \in Addresses |->
                             IF p = a THEN NewNode(t)
                             ELSE IF p = tail THEN Linked(heap[p], a)
                             ELSE heap[p]]
       /\ tail' = a
       /\ nodes' = Append(nodes, a)
  /\ n_tasks' = n_tasks + 1
  /\ UNCHANGED <<taken, open>>

(* The task next() returns (and the one inserted last). *)
Newest == heap[tail].task
Oldest == heap[head].task

(* What delete head leaves. *)
Deleted == [heap EXCEPT ![head] = Free]

NextOfNone ==
  /\ open /\ n_tasks = 0
  /\ taken' = Null
  /\ UNCHANGED <<heap, head, tail, n_tasks, open, nodes>>

next ==
  /\ open /\ n_tasks # 0
  /\ taken' = Oldest
  /\ head' = heap[head].next
  /\ heap' = Deleted
  /\ n_tasks' = n_tasks - 1
  /\ nodes' = Tail(nodes)
  /\ UNCHANGED <<tail, open>>

(* ~task_queue, and a turn of its loop. *)
DestroyQueue ==
  /\ open
  /\ open' = FALSE
  /\ UNCHANGED <<heap, head, tail, n_tasks, taken, nodes>>

DestroyNode ==
  /\ ~open /\ head # Null
  /\ head' = heap[head].next
  /\ heap' = Deleted
  /\ nodes' = Tail(nodes)
  /\ UNCHANGED <<tail, n_tasks, taken, open>>

LTerminated == ~open /\ head = Null /\ UNCHANGED listVars

LInit ==
  /\ heap = [a \in Addresses |-> Free]
  /\ head = Null /\ tail = Null /\ n_tasks = 0
  /\ taken = Null /\ open = TRUE /\ nodes = <<>>

LNext ==
  \/ \E t \in QueueTasks : insert(t)
  \/ NextOfNone \/ next \/ DestroyQueue \/ DestroyNode \/ LTerminated

LSpec == LInit /\ [][LNext]_listVars

(* Every variable has its type. *)
LTyped ==
  /\ heap \in [Addresses -> Nodes \cup {Free}]
  /\ head \in Addresses \cup {Null}
  /\ tail \in Addresses \cup {Null}
  /\ n_tasks \in Int
  /\ taken \in QueueTasks \cup {Null}
  /\ open \in BOOLEAN
  /\ nodes \in Seq(Addresses)

-----------------------------------------------------------------------------
(* Properties. *)

(* The nodes allocated are exactly the list from head on, each of them links to
   the one inserted after it, and while there is one and insert may be called,
   tail is the last of them: insert never writes through the tail that next has
   left dangling, and neither next nor the destructor leaks or misses a node. *)
ListIntact ==
  /\ \A i \in 1..Len(nodes) :
       /\ heap[nodes[i]] \in Nodes
       /\ heap[nodes[i]].next = IF i = Len(nodes) THEN Null ELSE nodes[i + 1]
  /\ \A i, j \in 1..Len(nodes) : nodes[i] = nodes[j] => i = j
  /\ head = IF nodes = <<>> THEN Null ELSE nodes[1]
  /\ nodes # <<>> => tail = nodes[Len(nodes)]
  /\ Allocated = {nodes[i] : i \in 1..Len(nodes)}
  /\ open => n_tasks = Len(nodes)

(* The list is a queue of tasks: first in, first out. *)
Fifo == INSTANCE TaskFifo
  WITH Tasks <- QueueTasks, None <- Null,
       queue <- [i \in 1..Len(nodes) |-> heap[nodes[i]].task]

ImplementsFifo == Fifo!FSpec

=============================================================================
