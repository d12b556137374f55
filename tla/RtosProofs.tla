------------------------------ MODULE RtosProofs ------------------------------
(***************************************************************************)
(* Theorems about the FreeRTOS shim, for any number of tasks, slots,       *)
(* queues and semaphores: queues are bounded FIFOs, a semaphore admits no  *)
(* more holders than it has units, and the name of a live task of a test   *)
(* runs it or a later one of that name.                                    *)
(***************************************************************************)
EXTENDS Rtos, SeqLemmas

(* What each step does to the queues, and to nothing else of this section. *)
LEMMA QueueSteps ==
  ASSUME [Next]_vars
  PROVE  \/ queues' = queues
         \/ queues' = <<>>
         \/ \E length \in Lengths : QueueCreate(length)
         \/ \E h \in DOMAIN queues, item \in Items : QueueSend(h, item)
         \/ \E h \in DOMAIN queues : QueueReceive(h)
BY DEF Next, vars, TaskCreate, TaskDelete, SemaphoreCreate, SemaphoreTake, SemaphoreGive,
       GiveBack, GiveStray, Reset

LEMMA SemaphoreSteps ==
  ASSUME [Next]_vars
  PROVE  \/ semaphores' = semaphores
         \/ semaphores' = <<>>
         \/ \E max \in MaxCounts : \E initial \in 0..max : SemaphoreCreate(initial, max)
         \/ \E h \in DOMAIN semaphores, task \in TaskNames : SemaphoreTake(h, task)
         \/ \E h \in DOMAIN semaphores, task \in TaskNames : SemaphoreGive(h, task)
BY DEF Next, vars, TaskCreate, TaskDelete, QueueCreate, QueueSend, QueueReceive, Reset

LEMMA TaskSteps ==
  ASSUME [Next]_vars
  PROVE  \/ UNCHANGED taskVars
         \/ \E name \in TaskNames : TaskCreate(name)
         \/ \E i \in Slots : TaskDelete(i)
         \/ Reset
BY DEF Next, vars, QueueCreate, QueueSend, QueueReceive,
       SemaphoreCreate, SemaphoreTake, SemaphoreGive, GiveBack, GiveStray

-----------------------------------------------------------------------------
(* Queues.                                                                 *)

QueueOK == queues \in Seq(Queue)

LEMMA QueueType == QueueOK /\ [Next]_vars => QueueOK'
<1> SUFFICES ASSUME QueueOK, [Next]_vars
             PROVE  QueueOK'
  OBVIOUS
<1> USE DEF QueueOK
<1>1. CASE queues' = queues \/ queues' = <<>>
  BY <1>1, EmptySeq
<1>2. ASSUME NEW length \in Lengths, QueueCreate(length)
      PROVE  queues' \in Seq(Queue)
  <2>1. [max |-> length, q |-> <<>>, sent |-> <<>>, received |-> <<>>] \in Queue
    BY RtosAssumption, EmptySeq DEF Queue
  <2> QED
    BY <1>2, <2>1, AppendProperties DEF QueueCreate
<1>3. ASSUME NEW h \in DOMAIN queues, NEW item \in Items, QueueSend(h, item)
      PROVE  queues' \in Seq(Queue)
  <2>1. h \in 1..Len(queues) /\ queues[h] \in Queue
    BY LenProperties, ElementOfSeq
  <2>2. DEFINE e == [queues[h] EXCEPT !.q = Append(@, item), !.sent = Append(@, item)]
  <2>3. e \in Queue
    BY <2>1, AppendProperties DEF Queue
  <2>4. queues' = [queues EXCEPT ![h] = e]
    BY <1>3, <2>1, LenProperties DEF QueueSend, Queue
  <2> HIDE DEF e
  <2> QED
    BY <2>1, <2>3, <2>4, ExceptSeq
<1>4. ASSUME NEW h \in DOMAIN queues, QueueReceive(h)
      PROVE  queues' \in Seq(Queue)
  <2>1. h \in 1..Len(queues) /\ queues[h] \in Queue
    BY LenProperties, ElementOfSeq
  <2>2. Serve(queues[h]) \in Queue
    BY <1>4, <2>1, HeadTailProperties, AppendProperties DEF Queue, Serve, QueueReceive
  <2>3. queues' = [queues EXCEPT ![h] = Serve(queues[h])]
    BY <1>4 DEF QueueReceive
  <2> QED
    BY <2>1, <2>2, <2>3, ExceptSeq
<1> QED
  BY <1>1, <1>2, <1>3, <1>4, QueueSteps

(* Each queue is a queue of its own: a step changes one and keeps the rest.*)
LEMMA FifoStep == QueueOK /\ QueuesAreFifo /\ [Next]_vars => QueuesAreFifo'
<1> SUFFICES ASSUME QueueOK, QueueOK', QueuesAreFifo, [Next]_vars,
                    NEW k \in DOMAIN queues'
             PROVE  /\ queues'[k].received \o queues'[k].q = queues'[k].sent
                    /\ Len(queues'[k].q) <= queues'[k].max
  BY QueueType DEF QueuesAreFifo
<1>0. \A h \in DOMAIN queues : queues[h] \in Queue
  BY LenProperties, ElementOfSeq DEF QueueOK
<1>1. CASE queues' = queues
  BY <1>1 DEF QueuesAreFifo
<1>2. CASE queues' = <<>>
  BY <1>2
<1>3. ASSUME NEW length \in Lengths, QueueCreate(length)
      PROVE  /\ queues'[k].received \o queues'[k].q = queues'[k].sent
             /\ Len(queues'[k].q) <= queues'[k].max
  <2> DEFINE new == [max |-> length, q |-> <<>>, sent |-> <<>>, received |-> <<>>]
  <2>1. new \in Queue
    BY RtosAssumption, EmptySeq DEF Queue
  <2>2. queues' = Append(queues, new) /\ k \in 1..(Len(queues) + 1)
    BY <1>3, <2>1, AppendProperties, LenProperties DEF QueueCreate, QueueOK
  <2>3. CASE k = Len(queues) + 1
    <3>1. queues'[k] = new
      BY <2>1, <2>2, <2>3, AppendProperties DEF QueueOK
    <3>2. <<>> \o <<>> = <<>> /\ Len(<<>>) <= length
      BY RtosAssumption, ConcatEmptySeq, EmptySeq
    <3> QED
      BY <3>1, <3>2
  <2>4. CASE k # Len(queues) + 1
    <3>1. k \in 1..Len(queues)
      BY <2>2, <2>4, LenProperties DEF QueueOK
    <3>2. queues'[k] = queues[k] /\ k \in DOMAIN queues
      BY <3>1, <2>1, <2>2, AppendProperties, LenProperties DEF QueueOK
    <3> QED
      BY <3>2 DEF QueuesAreFifo
  <2> QED
    BY <2>3, <2>4
<1>4. ASSUME NEW h \in DOMAIN queues, NEW item \in Items, QueueSend(h, item)
      PROVE  /\ queues'[k].received \o queues'[k].q = queues'[k].sent
             /\ Len(queues'[k].q) <= queues'[k].max
  <2>1. k \in DOMAIN queues /\ (k # h => queues'[k] = queues[k])
    BY <1>4 DEF QueueSend
  <2>2. CASE k # h
    BY <2>1, <2>2 DEF QueuesAreFifo
  <2>3. CASE k = h
    <3> DEFINE old == queues[h]
    <3>1. /\ old \in Queue
          /\ old.received \o old.q = old.sent
          /\ Len(old.q) < old.max
      BY <1>0, <1>4 DEF QueuesAreFifo, QueueSend, HasRoom
    <3>2. /\ queues'[k].q = Append(old.q, item)
          /\ queues'[k].sent = Append(old.sent, item)
          /\ queues'[k].received = old.received
          /\ queues'[k].max = old.max
      BY <1>4, <2>3, <3>1 DEF QueueSend, Queue
    <3> HIDE DEF old
    <3>3. old.received \o Append(old.q, item) = Append(old.sent, item)
      BY <3>1, ConcatAppend DEF Queue
    <3>4. Len(Append(old.q, item)) = Len(old.q) + 1 /\ Len(old.q) \in Nat /\ old.max \in Nat
      BY <3>1, AppendProperties, LenProperties DEF Queue
    <3>5. Len(Append(old.q, item)) <= old.max
      BY <3>1, <3>4
    <3> QED
      BY <3>2, <3>3, <3>5
  <2> QED
    BY <2>2, <2>3
<1>5. ASSUME NEW h \in DOMAIN queues, QueueReceive(h)
      PROVE  /\ queues'[k].received \o queues'[k].q = queues'[k].sent
             /\ Len(queues'[k].q) <= queues'[k].max
  <2>1. k \in DOMAIN queues /\ (k # h => queues'[k] = queues[k])
    BY <1>5 DEF QueueReceive
  <2>2. CASE k # h
    BY <2>1, <2>2 DEF QueuesAreFifo
  <2>3. CASE k = h
    <3> DEFINE old == queues[h]
    <3>1. /\ old \in Queue
          /\ old.received \o old.q = old.sent
          /\ Len(old.q) <= old.max
          /\ old.q # <<>>
      BY <1>0, <1>5 DEF QueuesAreFifo, QueueReceive
    <3>2. /\ queues'[k].q = Tail(old.q)
          /\ queues'[k].received = Append(old.received, Head(old.q))
          /\ queues'[k].sent = old.sent
          /\ queues'[k].max = old.max
      BY <1>5, <2>3, <3>1 DEF QueueReceive, Serve, Queue
    <3> HIDE DEF old
    <3>3. Append(old.received, Head(old.q)) \o Tail(old.q) = old.sent
      BY <3>1, ConcatHeadTail DEF Queue
    <3>4. Len(Tail(old.q)) = Len(old.q) - 1 /\ Len(old.q) \in Nat /\ old.max \in Nat
      BY <3>1, HeadTailProperties, LenProperties DEF Queue
    <3>5. Len(Tail(old.q)) <= old.max
      BY <3>1, <3>4
    <3> QED
      BY <3>2, <3>3, <3>5
  <2> QED
    BY <2>2, <2>3
<1> QED
  BY <1>1, <1>2, <1>3, <1>4, <1>5, QueueSteps

(* What was received from a queue and what waits in it make up what was    *)
(* sent, in order, and no more than its length waits (rtos.cpp:39-60).     *)
THEOREM Fifo == Spec => []QueuesAreFifo
<1>1. Init => QueueOK /\ QueuesAreFifo
  BY EmptySeq DEF Init, QueueOK, QueuesAreFifo
<1>2. QueueOK /\ QueuesAreFifo /\ [Next]_vars => (QueueOK /\ QueuesAreFifo)'
  BY QueueType, FifoStep
<1> QED
  BY <1>1, <1>2, PTL DEF Spec

-----------------------------------------------------------------------------
(* Semaphores.                                                             *)

SemaphoresOK == semaphores \in Seq(Semaphore)

(* Every unit that a semaphore had or was given from outside is free or    *)
(* held.                                                                   *)
UnitsKept(s) == s.count + Len(s.holders) = s.initial + s.stray /\ s.count <= s.max

SemaphoreInv == SemaphoresOK /\ \A h \in DOMAIN semaphores : UnitsKept(semaphores[h])

LEMMA SemaphoreStep == SemaphoreInv /\ [Next]_vars => SemaphoreInv'
<1> SUFFICES ASSUME SemaphoreInv, [Next]_vars
             PROVE  SemaphoreInv'
  OBVIOUS
<1> DEFINE Good(s) == s \in Semaphore /\ UnitsKept(s)
<1>0. /\ semaphores \in Seq(Semaphore)
      /\ DOMAIN semaphores = 1..Len(semaphores)
      /\ \A h \in DOMAIN semaphores : Good(semaphores[h])
  BY LenProperties, ElementOfSeq DEF SemaphoreInv, SemaphoresOK
(* It is enough that a new state of a semaphore is good.                   *)
<1>1. ASSUME NEW h \in DOMAIN semaphores, NEW s, Good(s),
             semaphores' = [semaphores EXCEPT ![h] = s]
      PROVE  SemaphoreInv'
  <2>1. semaphores' \in Seq(Semaphore) /\ DOMAIN semaphores' = DOMAIN semaphores
    BY <1>0, <1>1, ExceptSeq
  <2>2. \A k \in DOMAIN semaphores : Good(semaphores'[k])
    BY <1>0, <1>1
  <2> QED
    BY <2>1, <2>2 DEF SemaphoreInv, SemaphoresOK, UnitsKept
<1>2. CASE semaphores' = semaphores
  BY <1>2 DEF SemaphoreInv, SemaphoresOK, UnitsKept
<1>3. CASE semaphores' = <<>>
  BY <1>3, EmptySeq DEF SemaphoreInv, SemaphoresOK
<1>4. ASSUME NEW max \in MaxCounts, NEW initial \in 0..max, SemaphoreCreate(initial, max)
      PROVE  SemaphoreInv'
  <2> DEFINE new == [count |-> initial, max |-> max, initial |-> initial,
                     holders |-> <<>>, stray |-> 0]
  <2>1. Good(new)
    <3>1. new \in Semaphore
      BY RtosAssumption, EmptySeq DEF Semaphore
    <3>2. Len(<<>>) = 0
      BY EmptySeq
    <3> QED
      BY <3>1, <3>2, RtosAssumption DEF UnitsKept
  <2>2. semaphores' = Append(semaphores, new)
    BY <1>4 DEF SemaphoreCreate
  <2> HIDE DEF new
  <2>3. /\ semaphores' \in Seq(Semaphore)
        /\ DOMAIN semaphores' = 1..(Len(semaphores) + 1)
        /\ \A k \in DOMAIN semaphores : semaphores'[k] = semaphores[k]
        /\ semaphores'[Len(semaphores) + 1] = new
    BY <1>0, <2>1, <2>2, AppendProperties, LenProperties
  <2>4. \A k \in DOMAIN semaphores' : k \in DOMAIN semaphores \/ k = Len(semaphores) + 1
    BY <1>0, <2>3, LenProperties
  <2>5. \A k \in DOMAIN semaphores' : Good(semaphores'[k])
    BY <1>0, <2>1, <2>3, <2>4
  <2> QED
    BY <2>3, <2>5 DEF SemaphoreInv, SemaphoresOK, UnitsKept
<1>5. ASSUME NEW h \in DOMAIN semaphores, NEW task \in TaskNames, SemaphoreTake(h, task)
      PROVE  SemaphoreInv'
  <2> DEFINE s == semaphores[h]
             t == [s EXCEPT !.count = @ - 1, !.holders = Append(@, task)]
  <2>1. semaphores' = [semaphores EXCEPT ![h] = t] /\ s.count > 0
    BY <1>0, <1>5 DEF SemaphoreTake, Semaphore
  <2>2. s \in Semaphore /\ UnitsKept(s)
    BY <1>0
  <2> HIDE DEF s
  <2>3. Append(s.holders, task) \in Seq(TaskNames) /\ Len(Append(s.holders, task)) = Len(s.holders) + 1
    BY <2>2, AppendProperties DEF Semaphore
  <2>4. Len(s.holders) \in Nat
    BY <2>2, LenProperties DEF Semaphore
  <2>5. /\ t \in Semaphore
        /\ t.count = s.count - 1 /\ t.holders = Append(s.holders, task)
        /\ t.initial = s.initial /\ t.stray = s.stray /\ t.max = s.max
    <3>1. s.count \in Nat /\ s.count - 1 \in Nat
      BY <2>1, <2>2 DEF Semaphore
    <3> QED
      BY <2>2, <2>3, <3>1 DEF Semaphore
  <2> HIDE DEF t
  <2>6. UnitsKept(t)
    <3> DEFINE held == Len(s.holders)
    <3>1. /\ held \in Nat /\ Len(t.holders) = held + 1
          /\ s.count \in Nat /\ s.max \in Nat /\ s.initial \in Nat /\ s.stray \in Nat
      BY <2>2, <2>3, <2>4, <2>5 DEF Semaphore
    <3>2. s.count + held = s.initial + s.stray /\ s.count <= s.max
      BY <2>2 DEF UnitsKept
    <3> HIDE DEF held
    <3>3. /\ (s.count - 1) + (held + 1) = s.initial + s.stray
          /\ s.count - 1 <= s.max
      BY <3>1, <3>2
    <3> QED
      BY <2>5, <3>1, <3>3 DEF UnitsKept
  <2> QED
    BY <1>1, <2>1, <2>5, <2>6
<1>6. ASSUME NEW h \in DOMAIN semaphores, NEW task \in TaskNames, GiveBack(h, task)
      PROVE  SemaphoreInv'
  <2> DEFINE s == semaphores[h]
  <2>1. PICK i \in DOMAIN s.holders :
          semaphores' = [semaphores EXCEPT ![h].count = @ + 1, ![h].holders = RemoveAt(@, i)]
    BY <1>6 DEF GiveBack
  <2> DEFINE t == [s EXCEPT !.count = @ + 1, !.holders = RemoveAt(@, i)]
  <2>2. semaphores' = [semaphores EXCEPT ![h] = t] /\ s.count < s.max
    BY <1>0, <1>6, <2>1 DEF GiveBack, CanGive, Semaphore
  <2>3. s \in Semaphore /\ UnitsKept(s)
    BY <1>0
  <2> HIDE DEF s
  <2>4. /\ RemoveAt(s.holders, i) \in Seq(TaskNames)
        /\ Len(RemoveAt(s.holders, i)) = Len(s.holders) - 1
        /\ Len(s.holders) \in Nat
    BY <2>3, RemoveAtProperties, LenProperties DEF Semaphore
  <2>5. /\ t \in Semaphore
        /\ t.count = s.count + 1 /\ t.holders = RemoveAt(s.holders, i)
        /\ t.initial = s.initial /\ t.stray = s.stray /\ t.max = s.max
    <3>1. s.count \in Nat /\ s.count + 1 \in Nat
      BY <2>3 DEF Semaphore
    <3>2. /\ t.count = s.count + 1 /\ t.holders = RemoveAt(s.holders, i)
          /\ t.initial = s.initial /\ t.stray = s.stray /\ t.max = s.max
      BY <2>3 DEF Semaphore
    <3> DEFINE rest == RemoveAt(s.holders, i)
               more == s.count + 1
    <3>3. rest \in Seq(TaskNames) /\ more \in Nat
      BY <2>4, <3>1
    <3> HIDE DEF rest, more
    <3>4. [s EXCEPT !.count = more, !.holders = rest] \in Semaphore
      BY <2>3, <3>3 DEF Semaphore
    <3>5. t = [s EXCEPT !.count = more, !.holders = rest]
      BY <2>3 DEF Semaphore, more, rest
    <3> QED
      BY <3>2, <3>4, <3>5
  <2> HIDE DEF t
  <2>6. UnitsKept(t)
    <3> DEFINE held == Len(s.holders)
    <3>1. /\ held \in Nat /\ Len(t.holders) = held - 1
          /\ s.count \in Nat /\ s.max \in Nat /\ s.initial \in Nat /\ s.stray \in Nat
      BY <2>3, <2>4, <2>5 DEF Semaphore
    <3>2. s.count + held = s.initial + s.stray /\ s.count <= s.max
      BY <2>3 DEF UnitsKept
    <3> HIDE DEF held
    <3>3. /\ (s.count + 1) + (held - 1) = s.initial + s.stray
          /\ s.count + 1 <= s.max
      BY <2>2, <3>1, <3>2
    <3> QED
      BY <2>5, <3>1, <3>3 DEF UnitsKept
  <2> QED
    BY <1>1, <2>2, <2>5, <2>6
<1>7. ASSUME NEW h \in DOMAIN semaphores, NEW task \in TaskNames, GiveStray(h, task)
      PROVE  SemaphoreInv'
  <2> DEFINE s == semaphores[h]
             t == [s EXCEPT !.count = @ + 1, !.stray = @ + 1]
  <2>1. semaphores' = [semaphores EXCEPT ![h] = t] /\ s.count < s.max
    BY <1>0, <1>7 DEF GiveStray, CanGive, Semaphore
  <2>2. s \in Semaphore /\ UnitsKept(s) /\ Len(s.holders) \in Nat
    BY <1>0, LenProperties DEF Semaphore
  <2> HIDE DEF s
  <2>3. /\ t \in Semaphore
        /\ t.count = s.count + 1 /\ t.stray = s.stray + 1
        /\ t.initial = s.initial /\ t.holders = s.holders /\ t.max = s.max
    <3>1. s.count + 1 \in Nat /\ s.stray + 1 \in Nat
      BY <2>2 DEF Semaphore
    <3> QED
      BY <2>2, <3>1 DEF Semaphore
  <2> HIDE DEF t
  <2>4. UnitsKept(t)
    BY <2>1, <2>2, <2>3 DEF UnitsKept, Semaphore
  <2> QED
    BY <1>1, <2>1, <2>3, <2>4
<1> QED
  BY <1>2, <1>3, <1>4, <1>5, <1>6, <1>7, SemaphoreSteps DEF SemaphoreGive

(* A semaphore never has more holders than units to begin with and stray   *)
(* gives together, nor more free units than its maximum, whoever takes and *)
(* gives in whatever order: the code keeps no owner (rtos.cpp:63-83).      *)
THEOREM UnitsHeld == Spec => []HoldersBounded
<1>1. Init => SemaphoreInv
  BY EmptySeq DEF Init, SemaphoreInv, SemaphoresOK
<1>2. SemaphoreInv => HoldersBounded
  <2> SUFFICES ASSUME SemaphoreInv, NEW h \in DOMAIN semaphores
               PROVE  /\ Len(semaphores[h].holders) <= semaphores[h].initial + semaphores[h].stray
                      /\ semaphores[h].count <= semaphores[h].max
    BY DEF HoldersBounded
  <2>1. semaphores[h] \in Semaphore
    BY LenProperties, ElementOfSeq DEF SemaphoreInv, SemaphoresOK
  <2>2. /\ semaphores[h].count \in Nat /\ semaphores[h].initial \in Nat
        /\ semaphores[h].stray \in Nat /\ Len(semaphores[h].holders) \in Nat
    BY <2>1, LenProperties DEF Semaphore
  <2>3. UnitsKept(semaphores[h])
    BY DEF SemaphoreInv
  <2> QED
    BY <2>2, <2>3 DEF UnitsKept
<1> QED
  BY <1>1, <1>2, SemaphoreStep, PTL DEF Spec

-----------------------------------------------------------------------------
(* Tasks.                                                                  *)

TasksOK ==
  /\ tasks \in [TaskNames -> Nat]
  /\ slots \in [Slots -> TaskNames \cup {NoTask}]
  /\ created \in Seq(TaskNames)
  /\ mine \in [Slots -> Nat]

(* A name is registered for its last creation, and a slot of this test has *)
(* the name of the creation that took it.                                  *)
TaskInv ==
  /\ TasksOK
  /\ \A k \in 1..Len(created) : tasks[created[k]] \in k..Len(created)
  /\ \A name \in TaskNames : tasks[name] # 0 =>
       tasks[name] \in 1..Len(created) /\ created[tasks[name]] = name
  /\ \A i \in Slots : mine[i] # 0 =>
       mine[i] \in 1..Len(created) /\ created[mine[i]] = slots[i]

LEMMA TaskStep == TaskInv /\ [Next]_vars => TaskInv'
<1> SUFFICES ASSUME TaskInv, [Next]_vars
             PROVE  TaskInv'
  OBVIOUS
<1>0. Len(created) \in Nat /\ \A k \in 1..Len(created) : created[k] \in TaskNames
  BY LenProperties, ElementOfSeq DEF TaskInv, TasksOK
<1> USE DEF TaskInv, TasksOK
<1>1. CASE UNCHANGED taskVars
  BY <1>1 DEF taskVars
<1>2. ASSUME NEW name \in TaskNames, TaskCreate(name)
      PROVE  TaskInv'
  <2> DEFINE n == Len(created) + 1
  <2>1. PICK i \in Slots : /\ slots' = [slots EXCEPT ![i] = name]
                           /\ mine' = [mine EXCEPT ![i] = n]
    BY <1>2 DEF TaskCreate, Free
  <2>2. tasks' = [tasks EXCEPT ![name] = n] /\ created' = Append(created, name)
    BY <1>2 DEF TaskCreate, Registered
  <2>3. /\ created' \in Seq(TaskNames) /\ Len(created') = n
        /\ \A k \in 1..Len(created) : created'[k] = created[k]
        /\ created'[n] = name
    BY <2>2, AppendProperties, LenProperties
  <2>4. n \in Nat /\ Len(created) = n - 1 /\ n # 0
    BY <1>0
  <2>5. TasksOK'
    BY <2>1, <2>2, <2>3, <2>4
  <2> HIDE DEF n
  <2>6. \A k \in 1..n : tasks'[created'[k]] \in k..n
    <3> SUFFICES ASSUME NEW k \in 1..n
                 PROVE  tasks'[created'[k]] \in k..n
      OBVIOUS
    <3>1. CASE created'[k] = name
      BY <2>2, <2>4, <3>1
    <3>2. CASE created'[k] # name
      <4>1. k \in 1..Len(created) /\ created'[k] = created[k]
        BY <2>3, <2>4, <3>2
      <4>2. tasks'[created'[k]] = tasks[created[k]]
        BY <1>0, <2>2, <3>2, <4>1
      <4> QED
        BY <2>4, <4>1, <4>2
    <3> QED
      BY <3>1, <3>2
  <2>7. ASSUME NEW m \in TaskNames, tasks'[m] # 0
        PROVE  tasks'[m] \in 1..n /\ created'[tasks'[m]] = m
    <3>1. CASE m = name
      BY <2>2, <2>3, <2>4, <3>1
    <3>2. CASE m # name
      <4>1. tasks'[m] = tasks[m]
        BY <2>2, <3>2
      <4>2. tasks[m] \in 1..Len(created) /\ created[tasks[m]] = m
        BY <2>7, <4>1
      <4>3. tasks[m] \in 1..n
        BY <2>4, <4>2
      <4> QED
        BY <2>3, <4>1, <4>2, <4>3
    <3> QED
      BY <3>1, <3>2
  <2>8. ASSUME NEW j \in Slots, mine'[j] # 0
        PROVE  mine'[j] \in 1..n /\ created'[mine'[j]] = slots'[j]
    <3>1. CASE j = i
      BY <2>1, <2>3, <2>4, <3>1
    <3>2. CASE j # i
      <4>1. mine'[j] = mine[j] /\ slots'[j] = slots[j]
        BY <2>1, <3>2
      <4> QED
        BY <2>3, <2>4, <2>8, <4>1
    <3> QED
      BY <3>1, <3>2
  <2> QED
    BY <2>3, <2>5, <2>6, <2>7, <2>8
<1>3. ASSUME NEW i \in Slots, TaskDelete(i)
      PROVE  TaskInv'
  <2>1. /\ slots' = [slots EXCEPT ![i] = NoTask]
        /\ mine' = [mine EXCEPT ![i] = 0]
        /\ tasks' = tasks /\ created' = created
    BY <1>3 DEF TaskDelete
  <2>2. TasksOK'
    BY <2>1
  <2>3. ASSUME NEW j \in Slots, mine'[j] # 0
        PROVE  mine'[j] \in 1..Len(created) /\ created[mine'[j]] = slots'[j]
    BY <2>1, <2>3
  <2> QED
    BY <2>1, <2>2, <2>3
<1>4. CASE Reset
  <2>1. /\ tasks' = [name \in TaskNames |-> 0]
        /\ created' = <<>> /\ mine' = [i \in Slots |-> 0] /\ slots' = slots
    BY <1>4 DEF Reset
  <2>2. created' \in Seq(TaskNames) /\ Len(created') = 0
    BY <2>1, EmptySeq
  <2> QED
    BY <2>1, <2>2
<1> QED
  BY <1>1, <1>2, <1>3, <1>4, TaskSteps

(* The name of a task of this test that has not been deleted runs it, or a *)
(* later one of the name if there is any, whatever tasks were deleted      *)
(* meanwhile (freertos.cpp:33-69, rtos.cpp:14-30).                         *)
THEOREM LiveTasksCanRun == Spec => []LiveTasksRun
<1>1. Init => TaskInv
  BY EmptySeq DEF Init, TaskInv, TasksOK
<1>2. TaskInv => LiveTasksRun
  <2> SUFFICES ASSUME TaskInv, NEW i \in Slots, mine[i] # 0
               PROVE  LET run == tasks[slots[i]]
                      IN  /\ run \in mine[i]..Len(created)
                          /\ created[run] = slots[i]
                          /\ (\A k \in (mine[i] + 1)..Len(created) : created[k] # slots[i])
                               => run = mine[i]
    BY DEF LiveTasksRun
  <2> DEFINE run == tasks[slots[i]]
  <2>1. /\ Len(created) \in Nat
        /\ mine[i] \in 1..Len(created) /\ created[mine[i]] = slots[i]
        /\ slots[i] \in TaskNames
    BY LenProperties, ElementOfSeq DEF TaskInv, TasksOK
  <2>2. run \in mine[i]..Len(created)
    BY <2>1 DEF TaskInv
  <2>3. run # 0 /\ created[run] = slots[i]
    BY <2>1, <2>2 DEF TaskInv
  <2> HIDE DEF run
  <2>4. ASSUME \A k \in (mine[i] + 1)..Len(created) : created[k] # slots[i]
        PROVE  run = mine[i]
    BY <2>1, <2>2, <2>3, <2>4
  <2> QED
    BY <2>2, <2>3, <2>4 DEF run
<1> QED
  BY <1>1, <1>2, TaskStep, PTL DEF Spec

-----------------------------------------------------------------------------
(* The variables keep their types.                                         *)
THEOREM TypeCorrect == Spec => []TypeOK
<1>1. Init => TaskInv /\ QueueOK /\ SemaphoreInv
  BY EmptySeq DEF Init, TaskInv, TasksOK, QueueOK, SemaphoreInv, SemaphoresOK
<1>2. TaskInv /\ QueueOK /\ SemaphoreInv => TypeOK
  BY DEF TypeOK, TaskInv, TasksOK, QueueOK, SemaphoreInv, SemaphoresOK
<1> QED
  BY <1>1, <1>2, TaskStep, QueueType, SemaphoreStep, PTL DEF Spec

=============================================================================
