-------------------------------- MODULE Rtos --------------------------------
(***************************************************************************)
(* The cooperative FreeRTOS shim: esp32sim::Rtos (src/core/rtos.cpp) and   *)
(* the C API over it (src/platforms/arduino_esp32/freertos.cpp).  A task   *)
(* runs only when the test calls run_task_iteration, and then to its end,  *)
(* so each call of the API is one step; the test may run the tasks in any  *)
(* order.  A call that cannot proceed fails at once: timeouts are ignored. *)
(*                                                                         *)
(* A task lives in two tables: the registry of the core, by name, and a    *)
(* slot of the C API, which the TaskHandle_t encodes.  What it runs, fn and*)
(* arg, is the number of its creation.  A queue's or a semaphore's handle  *)
(* is its place in the core's vector.  A semaphore keeps a count and no    *)
(* owner: whoever finds it positive takes, and anyone gives, an ISR or the *)
(* test itself under a name of its own.                                    *)
(***************************************************************************)
EXTENDS Naturals, Sequences, SequencesExt, FiniteSets

CONSTANTS
  TaskNames,    \* the names given to xTaskCreate
  NoTask,       \* the name of a free slot
  MaxTasks,     \* kMaxTasks, 16 in the code
  Items,        \* the contents of queue items
  Lengths,      \* the lengths given to xQueueCreate
  MaxCounts,    \* the maxima given to xSemaphoreCreateCounting
  MaxCreated, MaxQueues, MaxSemaphores, \* bounds: how many are created between resets
  MaxSent,      \* bound: items sent through one queue
  MaxStray      \* bound: units given to one semaphore by who had none

ASSUME RtosAssumption ==
  /\ NoTask \notin TaskNames
  /\ MaxTasks \in Nat /\ Lengths \subseteq Nat /\ MaxCounts \subseteq Nat \ {0}
  /\ MaxCreated \in Nat /\ MaxQueues \in Nat /\ MaxSemaphores \in Nat
  /\ MaxSent \in Nat /\ MaxStray \in Nat

VARIABLES
  tasks,        \* tasks_: the creation each name is registered for, 0 without one
  slots,        \* task_slots[]: the name in each slot, or NoTask
  queues,       \* queues_, with the history of what was sent and received
  semaphores,   \* semaphores_, with the history of who took its units
  created,      \* history: the names of the tasks created since the last reset
  mine          \* history: the creation each slot holds, 0 for none of this test

taskVars == <<tasks, slots, created, mine>>
vars == <<taskVars, queues, semaphores>>

Slots == 1..MaxTasks

Queue     == [max : Nat, q : Seq(Items), sent : Seq(Items), received : Seq(Items)]

(* `holders` has a task once for each unit that it took and did not give   *)
(* back, `stray` counts the units given by tasks that had none.            *)
Semaphore == [count : Nat, max : Nat, initial : Nat, holders : Seq(TaskNames), stray : Nat]

TypeOK ==
  /\ tasks \in [TaskNames -> Nat]
  /\ slots \in [Slots -> TaskNames \cup {NoTask}]
  /\ queues \in Seq(Queue)
  /\ semaphores \in Seq(Semaphore)
  /\ created \in Seq(TaskNames)
  /\ mine \in [Slots -> Nat]

Init ==
  /\ tasks = [name \in TaskNames |-> 0]
  /\ slots = [i \in Slots |-> NoTask]
  /\ queues = <<>>
  /\ semaphores = <<>>
  /\ created = <<>>
  /\ mine = [i \in Slots |-> 0]

-----------------------------------------------------------------------------
(* Mutated forms of the operators below, used by no definition: a queue    *)
(* that serves the newest first, a give that does not look at the maximum, *)
(* a registry that keeps the task a name had first.                        *)

NewestFirst(q) == [q EXCEPT !.received = Append(@, Last(q.q)), !.q = Front(@)]

AlwaysGives(s) == TRUE

FirstCreated(name) == IF tasks[name] = 0 THEN Len(created) + 1 ELSE tasks[name]

-----------------------------------------------------------------------------
(* Tasks.                                                                  *)

Free == {i \in Slots : slots[i] = NoTask}

(* register_task replaces what a task of that name was to run.             *)
Registered(name) == Len(created) + 1

(* xTaskCreate takes the first free slot and registers the task; without a *)
(* slot it fails.                                                          *)
TaskCreate(name) ==
  /\ Len(created) < MaxCreated
  /\ \E i \in Free :
       /\ \A j \in Free : i <= j
       /\ slots' = [slots EXCEPT ![i] = name]
       /\ mine' = [mine EXCEPT ![i] = Len(created) + 1]
  /\ tasks' = [tasks EXCEPT ![name] = Registered(name)]
  /\ created' = Append(created, name)
  /\ UNCHANGED <<queues, semaphores>>

(* vTaskDelete frees the slot.  The core keeps the task.                   *)
TaskDelete(i) ==
  /\ slots[i] # NoTask
  /\ slots' = [slots EXCEPT ![i] = NoTask]
  /\ mine' = [mine EXCEPT ![i] = 0]
  /\ UNCHANGED <<tasks, created, queues, semaphores>>

-----------------------------------------------------------------------------
(* Queues.                                                                 *)

QueueCreate(length) ==
  /\ Len(queues) < MaxQueues
  /\ queues' = Append(queues, [max |-> length, q |-> <<>>, sent |-> <<>>, received |-> <<>>])
  /\ UNCHANGED <<taskVars, semaphores>>

HasRoom(q) == Len(q.q) < q.max

(* queue_send, which a full queue refuses.                                 *)
QueueSend(h, item) ==
  /\ HasRoom(queues[h])
  /\ Len(queues[h].sent) < MaxSent
  /\ queues' = [queues EXCEPT ![h].q = Append(@, item), ![h].sent = Append(@, item)]
  /\ UNCHANGED <<taskVars, semaphores>>

Serve(q) == [q EXCEPT !.received = Append(@, Head(q.q)), !.q = Tail(@)]

(* queue_receive, which an empty queue refuses.                            *)
QueueReceive(h) ==
  /\ queues[h].q # <<>>
  /\ queues' = [queues EXCEPT ![h] = Serve(@)]
  /\ UNCHANGED <<taskVars, semaphores>>

-----------------------------------------------------------------------------
(* Semaphores: binary (0 of 1), mutex (1 of 1), counting (any).            *)

SemaphoreCreate(initial, max) ==
  /\ Len(semaphores) < MaxSemaphores
  /\ semaphores' = Append(semaphores,
       [count |-> initial, max |-> max, initial |-> initial, holders |-> <<>>, stray |-> 0])
  /\ UNCHANGED <<taskVars, queues>>

(* semaphore_take, refused at 0, a holder's second take like any other.    *)
SemaphoreTake(h, task) ==
  /\ semaphores[h].count > 0
  /\ semaphores' = [semaphores EXCEPT ![h].count = @ - 1, ![h].holders = Append(@, task)]
  /\ UNCHANGED <<taskVars, queues>>

CanGive(s) == s.count < s.max

(* semaphore_give, refused at the maximum and from nobody else.            *)
GiveBack(h, task) ==
  /\ CanGive(semaphores[h])
  /\ \E i \in DOMAIN semaphores[h].holders :
       /\ semaphores[h].holders[i] = task
       /\ semaphores' = [semaphores EXCEPT ![h].count = @ + 1, ![h].holders = RemoveAt(@, i)]
  /\ UNCHANGED <<taskVars, queues>>

GiveStray(h, task) ==
  /\ CanGive(semaphores[h])
  /\ \A i \in DOMAIN semaphores[h].holders : semaphores[h].holders[i] # task
  /\ semaphores[h].stray < MaxStray
  /\ semaphores' = [semaphores EXCEPT ![h].count = @ + 1, ![h].stray = @ + 1]
  /\ UNCHANGED <<taskVars, queues>>

SemaphoreGive(h, task) == GiveBack(h, task) \/ GiveStray(h, task)

-----------------------------------------------------------------------------
(* Sim::reset, by Rtos::reset; the slots belong to the C API and stay.     *)
Reset ==
  /\ tasks' = [name \in TaskNames |-> 0]
  /\ queues' = <<>>
  /\ semaphores' = <<>>
  /\ created' = <<>>
  /\ mine' = [i \in Slots |-> 0]
  /\ UNCHANGED slots

Next ==
  \/ \E name \in TaskNames : TaskCreate(name)
  \/ \E i \in Slots : TaskDelete(i)
  \/ \E length \in Lengths : QueueCreate(length)
  \/ \E h \in DOMAIN queues :
       \/ \E item \in Items : QueueSend(h, item)
       \/ QueueReceive(h)
  \/ \E max \in MaxCounts : \E initial \in 0..max : SemaphoreCreate(initial, max)
  \/ \E h \in DOMAIN semaphores, task \in TaskNames :
       \/ SemaphoreTake(h, task)
       \/ SemaphoreGive(h, task)
  \/ Reset

Spec == Init /\ [][Next]_vars

-----------------------------------------------------------------------------
(* Properties.                                                             *)

(* What was received from a queue, followed by what is in it, is what was  *)
(* sent to it: nothing is lost, duplicated or overtaken, and no more than  *)
(* the length waits.                                                       *)
QueuesAreFifo ==
  \A h \in DOMAIN queues :
    /\ queues[h].received \o queues[h].q = queues[h].sent
    /\ Len(queues[h].q) <= queues[h].max

(* A semaphore admits as many holders as it had units to begin with and    *)
(* one more for each unit given by a task that held none: a mutex that only*)
(* its holders give admits one, a binary semaphore lets one taker through  *)
(* for each signal, and a give that the maximum refuses admits nobody,     *)
(* though the code keeps a count and no owner (rtos.cpp:63-83).            *)
HoldersBounded ==
  \A h \in DOMAIN semaphores :
    LET s == semaphores[h]
    IN  Len(s.holders) <= s.initial + s.stray /\ s.count <= s.max

(* run_task_iteration with the name of a task of this test that was not    *)
(* deleted runs that task, unless another was created under the name since,*)
(* and then one of those; deleting a task takes this from no other, of its *)
(* name or in a slot it had (freertos.cpp:33-67, rtos.cpp:18-28).          *)
LiveTasksRun ==
  \A i \in Slots : mine[i] # 0 =>
    LET run == tasks[slots[i]]
    IN  /\ run \in mine[i]..Len(created)
        /\ created[run] = slots[i]
        /\ (\A k \in (mine[i] + 1)..Len(created) : created[k] # slots[i]) => run = mine[i]

(* "Resets every piece of simulator state" (docs/user/reference/sim-api.md *)
(* line 11): xTaskCreate is refused only in a test that itself holds every *)
(* slot, whatever the tests before it left behind.                         *)
RefusedOnlyWhenFull == Free = {} => \A i \in Slots : mine[i] # 0
=============================================================================
