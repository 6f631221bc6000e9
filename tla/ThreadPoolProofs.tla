-------------------------- MODULE ThreadPoolProofs --------------------------
(***************************************************************************)
(* Proofs about ThreadPool, for any finite number of workers and tasks: no *)
(* wake-up is lost, and the destructor leaves no accepted task behind.     *)
(***************************************************************************)
EXTENDS ThreadPool, FiniteSetTheorems, TLAPS

\* The initial state has the type of the state.
LEMMA TypeInit == Init => TypeOK
<1> SUFFICES ASSUME Init PROVE TypeOK
  OBVIOUS
<1>1. tasks \in Seq(Tasks)
  BY DEF Init
<1>2. stop \in BOOLEAN
  BY DEF Init
<1> QED
  BY <1>1, <1>2 DEF Init, TypeOK, WorkersAt

\* The tail of a queue that is not empty: one shorter, every other element one
\* place nearer to the front.
LEMMA TailOfQueue ==
    ASSUME NEW q \in Seq(Tasks), q # <<>>
    PROVE  /\ Head(q) \in Tasks /\ Tail(q) \in Seq(Tasks)
           /\ Len(q) \in Nat \ {0} /\ Head(q) = q[1]
           /\ Len(Tail(q)) = Len(q) - 1
           /\ \A i \in 2 .. Len(q) : Tail(q)[i - 1] = q[i]
  OBVIOUS

\* A task at the back of a queue leaves the others where they are.
LEMMA AppendToQueue ==
    ASSUME NEW q \in Seq(Tasks), NEW t \in Tasks
    PROVE  /\ Append(q, t) \in Seq(Tasks)
           /\ Len(q) \in Nat /\ Len(Append(q, t)) = Len(q) + 1
           /\ Append(q, t)[Len(q) + 1] = t
           /\ \A i \in 1 .. Len(q) : Append(q, t)[i] = q[i]
  OBVIOUS

\* No step changes the type of the state.
LEMMA TypeNext == TypeOK /\ [Next]_vars => TypeOK'
<1> SUFFICES ASSUME TypeOK, [Next]_vars
             PROVE  TypeOK'
  OBVIOUS
<1> USE DEF TypeOK, WorkersAt
<1>1. ASSUME NEW w \in Workers, Wait(w) PROVE TypeOK'
  BY <1>1 DEF Wait
<1>2. ASSUME NEW w \in Workers, Spurious(w) PROVE TypeOK'
  BY <1>2 DEF Spurious
<1>3. ASSUME NEW w \in Workers, Take(w) PROVE TypeOK'
  <2>1. Head(tasks) \in Tasks /\ Tail(tasks) \in Seq(Tasks)
    BY <1>3, TailOfQueue DEF Take
  <2> QED
    BY <1>3, <2>1 DEF Take
<1>4. ASSUME NEW w \in Workers, Run(w) PROVE TypeOK'
  BY <1>4 DEF Run
<1>5. ASSUME NEW w \in Workers, Exit(w) PROVE TypeOK'
  BY <1>5 DEF Exit
<1>6. ASSUME NEW t \in Tasks, Enqueue(t) PROVE TypeOK'
  <2>1. Append(tasks, t) \in Seq(Tasks)
    BY AppendToQueue
  <2>2. tasks' \in Seq(Tasks) /\ stop' \in BOOLEAN
    BY <1>6, <2>1 DEF Enqueue
  <2>3. caller' \in [Tasks -> {"idle", "notify", "returned", "thrown"}]
    BY <1>6 DEF Enqueue
  <2> QED
    BY <1>6, <2>2, <2>3 DEF Enqueue
<1>7. ASSUME NEW t \in Tasks, NotifyOne(t) PROVE TypeOK'
  BY <1>7 DEF NotifyOne
<1>8. ASSUME NEW t \in Tasks, NotifyDestroyed(t) PROVE TypeOK'
  BY <1>8 DEF NotifyDestroyed
<1>9. CASE Stop
  BY <1>9 DEF Stop
<1>10. CASE NotifyAll
  BY <1>10 DEF NotifyAll
<1>11. CASE Join
  BY <1>11 DEF Join
<1>12. CASE UNCHANGED vars
  BY <1>12 DEF vars
<1> QED
  BY <1>1, <1>2, <1>3, <1>4, <1>5, <1>6, <1>7, <1>8, <1>9, <1>10, <1>11, <1>12 DEF Next, Work

\* Every reachable state has the type of the state.
THEOREM TypeCorrect == Spec => []TypeOK
  BY TypeInit, TypeNext, PTL DEF Spec

-----------------------------------------------------------------------------
(* The destructor.  A task that was accepted is in the queue, in the hands of *)
(* a worker or has been run; and the workers have left only when the queue of *)
(* a stopped pool was empty, to which nothing is added any more.              *)

Queued(t) == \E i \in 1 .. Len(tasks) : tasks[i] = t
InHand(t) == \E w \in Workers : worker[w] = "running" /\ task[w] = t

Accounted ==
    \A t \in Tasks : caller[t] \in {"notify", "returned"} => t \in ran \/ Queued(t) \/ InHand(t)

ExitedIsFinal == \A w \in Workers : worker[w] = "exited" => stop /\ tasks = <<>>

OwnerJoins ==
    /\ owner # "alive" => stop
    /\ owner \in {"destroyed", "undefined"} => \A w \in Workers : worker[w] = "exited"

DInv == TypeOK /\ Accounted /\ ExitedIsFinal /\ OwnerJoins

\* Initially nothing was accepted and nobody has left.
LEMMA DInvInit == Init => DInv
  BY TypeInit DEF Init, DInv, Accounted, ExitedIsFinal, OwnerJoins

\* A step neither loses an accepted task nor lets a worker leave too early.
LEMMA DInvNext == DInv /\ [Next]_vars => DInv'
<1> SUFFICES ASSUME DInv, [Next]_vars
             PROVE  Accounted' /\ ExitedIsFinal' /\ OwnerJoins'
  BY TypeNext DEF DInv
<1> USE WorkersAssumption DEF DInv, TypeOK, Accounted, ExitedIsFinal, OwnerJoins, Queued, InHand
<1>1. ASSUME NEW w \in Workers, Wait(w) PROVE Accounted' /\ ExitedIsFinal' /\ OwnerJoins'
  BY <1>1 DEF Wait
<1>2. ASSUME NEW w \in Workers, Spurious(w) PROVE Accounted' /\ ExitedIsFinal' /\ OwnerJoins'
  BY <1>2 DEF Spurious
<1>3. ASSUME NEW w \in Workers, Take(w) PROVE Accounted' /\ ExitedIsFinal' /\ OwnerJoins'
  <2>1. ExitedIsFinal' /\ OwnerJoins'
    BY <1>3 DEF Take
  <2>2. /\ Len(tasks) \in Nat \ {0} /\ Head(tasks) = tasks[1]
        /\ Len(Tail(tasks)) = Len(tasks) - 1
        /\ \A i \in 2 .. Len(tasks) : Tail(tasks)[i - 1] = tasks[i]
    BY <1>3, TailOfQueue DEF Take
  <2>3. ASSUME NEW t \in Tasks, Queued(t)
        PROVE  Queued(t)' \/ InHand(t)'
    <3>1. PICK i \in 1 .. Len(tasks) : tasks[i] = t
      BY <2>3
    <3>2. CASE i = 1
      BY <1>3, <2>2, <3>1, <3>2 DEF Take
    <3>3. CASE i # 1
      <4>1. i - 1 \in 1 .. Len(tasks') /\ tasks'[i - 1] = t
        BY <1>3, <2>2, <3>1, <3>3 DEF Take
      <4> QED
        BY <4>1
    <3> QED
      BY <3>2, <3>3
  <2>4. ASSUME NEW t \in Tasks, InHand(t)
        PROVE  InHand(t)'
    BY <1>3, <2>4 DEF Take
  <2>5. Accounted'
    BY <1>3, <2>3, <2>4 DEF Take
  <2> QED
    BY <2>1, <2>5
<1>4. ASSUME NEW w \in Workers, Run(w) PROVE Accounted' /\ ExitedIsFinal' /\ OwnerJoins'
  <2>1. ExitedIsFinal' /\ OwnerJoins'
    BY <1>4 DEF Run
  <2>2. ASSUME NEW t \in Tasks, InHand(t)
        PROVE  t \in ran' \/ InHand(t)'
    BY <1>4, <2>2 DEF Run
  <2>3. Accounted'
    BY <1>4, <2>2 DEF Run
  <2> QED
    BY <2>1, <2>3
<1>5. ASSUME NEW w \in Workers, Exit(w) PROVE Accounted' /\ ExitedIsFinal' /\ OwnerJoins'
  BY <1>5 DEF Exit
<1>6. ASSUME NEW t \in Tasks, Enqueue(t) PROVE Accounted' /\ ExitedIsFinal' /\ OwnerJoins'
  <2>1. CASE stop
    BY <1>6, <2>1 DEF Enqueue
  <2>2. CASE ~ stop
    <3>1. /\ tasks' = Append(tasks, t) /\ Len(tasks') = Len(tasks) + 1
          /\ Len(tasks) \in Nat /\ tasks'[Len(tasks) + 1] = t
          /\ \A i \in 1 .. Len(tasks) : tasks'[i] = tasks[i]
      <4>1. tasks \in Seq(Tasks)
        OBVIOUS
      <4>2. tasks' = Append(tasks, t)
        BY <1>6, <2>2 DEF Enqueue
      <4> QED
        BY <4>1, <4>2, AppendToQueue
    <3>2. Queued(t)'
      <4>1. Len(tasks) + 1 \in 1 .. Len(tasks')
        BY <3>1
      <4> QED
        BY <3>1, <4>1
    <3>3. ASSUME NEW u \in Tasks, Queued(u)
          PROVE  Queued(u)'
      <4>1. PICK i \in 1 .. Len(tasks) : tasks[i] = u
        BY <3>3
      <4>2. i \in 1 .. Len(tasks') /\ tasks'[i] = u
        BY <3>1, <4>1
      <4> QED
        BY <4>2
    <3>4. ASSUME NEW u \in Tasks, InHand(u)
          PROVE  InHand(u)'
      BY <1>6, <3>4 DEF Enqueue
    <3>5. Accounted'
      BY <1>6, <2>2, <3>2, <3>3, <3>4 DEF Enqueue
    <3> QED
      BY <1>6, <2>2, <3>5 DEF Enqueue
  <2> QED
    BY <2>1, <2>2
<1>7. ASSUME NEW t \in Tasks, NotifyOne(t) PROVE Accounted' /\ ExitedIsFinal' /\ OwnerJoins'
  BY <1>7 DEF NotifyOne, WorkersAt
<1>8. ASSUME NEW t \in Tasks, NotifyDestroyed(t) PROVE Accounted' /\ ExitedIsFinal' /\ OwnerJoins'
  BY <1>8 DEF NotifyDestroyed
<1>9. CASE Stop
  BY <1>9 DEF Stop
<1>10. CASE NotifyAll
  BY <1>10 DEF NotifyAll
<1>11. CASE Join
  BY <1>11 DEF Join
<1>12. CASE UNCHANGED vars
  BY <1>12 DEF vars
<1> QED
  BY <1>1, <1>2, <1>3, <1>4, <1>5, <1>6, <1>7, <1>8, <1>9, <1>10, <1>11, <1>12 DEF Next, Work

\* A destroyed pool has run every task it accepted.
LEMMA DInvDrains == DInv => DrainedWhenDestroyed
<1> SUFFICES ASSUME DInv, owner \in {"destroyed", "undefined"},
                    NEW t \in CallersAt("notify") \union CallersAt("returned")
             PROVE  t \in ran
  BY DEF DrainedWhenDestroyed
<1>1. PICK w \in Workers : TRUE
  BY WorkersAssumption
<1>2. \A v \in Workers : worker[v] = "exited"
  BY DEF DInv, OwnerJoins
<1>3. tasks = <<>>
  BY <1>1, <1>2 DEF DInv, ExitedIsFinal
<1>4. ~ Queued(t)
  BY <1>3 DEF Queued
<1>5. ~ InHand(t)
  BY <1>2 DEF InHand
<1> QED
  BY <1>4, <1>5 DEF DInv, Accounted, CallersAt

\* The destructor leaves no accepted task behind.
THEOREM Drained == Spec => []DrainedWhenDestroyed
<1>1. Spec => []DInv
  BY DInvInit, DInvNext, PTL DEF Spec
<1> QED
  BY <1>1, DInvDrains, PTL

-----------------------------------------------------------------------------
(* The condition variable. *)

\* What NoLostWakeup needs to be inductive: the pool is stopped as soon as the
\* destructor has begun, so that no worker goes to sleep after notify_all.
WInv == TypeOK /\ NoLostWakeup /\ (owner # "alive" => stop)

\* The two numbers that NoLostWakeup compares the queue with.
LEMMA AwakeAreCounted ==
    /\ IsFiniteSet(WorkersAt("lock")) /\ Cardinality(WorkersAt("lock")) \in Nat
    /\ IsFiniteSet(CallersAt("notify")) /\ Cardinality(CallersAt("notify")) \in Nat
<1>1. WorkersAt("lock") \in SUBSET Workers /\ CallersAt("notify") \in SUBSET Tasks
  BY DEF WorkersAt, CallersAt
<1> QED
  BY <1>1, WorkersAssumption, TasksAssumption, FS_Subset, FS_CardinalityType

\* A worker that comes to the mutex is one more that is awake.
LEMMA WorkerAwakes ==
    ASSUME TypeOK, NEW w \in Workers, worker[w] # "lock",
           worker' = [worker EXCEPT ![w] = "lock"]
    PROVE  /\ Cardinality(WorkersAt("lock")') = Cardinality(WorkersAt("lock")) + 1
           /\ WorkersAt("waiting")' \subseteq WorkersAt("waiting")
<1>1. WorkersAt("lock")' = WorkersAt("lock") \union {w} /\ w \notin WorkersAt("lock")
  BY DEF TypeOK, WorkersAt
<1>2. WorkersAt("waiting")' \subseteq WorkersAt("waiting")
  BY DEF TypeOK, WorkersAt
<1> QED
  BY <1>1, <1>2, AwakeAreCounted, FS_AddElement

\* A worker that takes a task is one less.
LEMMA WorkerTakes ==
    ASSUME TypeOK, NEW w \in Workers, worker[w] = "lock",
           worker' = [worker EXCEPT ![w] = "running"]
    PROVE  /\ Cardinality(WorkersAt("lock")') = Cardinality(WorkersAt("lock")) - 1
           /\ WorkersAt("waiting")' = WorkersAt("waiting")
<1>1. WorkersAt("lock")' = WorkersAt("lock") \ {w} /\ w \in WorkersAt("lock")
  BY DEF TypeOK, WorkersAt
<1>2. WorkersAt("waiting")' = WorkersAt("waiting")
  BY DEF TypeOK, WorkersAt
<1> QED
  BY <1>1, <1>2, AwakeAreCounted, FS_RemoveElement

\* Initially nobody sleeps.
LEMMA WInvInit == Init => WInv
  BY TypeInit DEF Init, WInv, NoLostWakeup, WorkersAt

\* No step loses a wake-up.
LEMMA WInvNext == WInv /\ [Next]_vars => WInv'
<1> SUFFICES ASSUME WInv, [Next]_vars
             PROVE  NoLostWakeup' /\ (owner # "alive" => stop)'
  BY TypeNext DEF WInv
<1>0. TypeOK /\ NoLostWakeup /\ (owner # "alive" => stop) /\ Len(tasks) \in Nat
  BY DEF WInv, TypeOK
<1>1. ASSUME NEW w \in Workers, Wait(w)
      PROVE  NoLostWakeup' /\ (owner # "alive" => stop)'
  <2>1. Len(tasks') = 0 /\ owner' = "alive"
    BY <1>0, <1>1 DEF Wait
  <2>2. Cardinality(WorkersAt("lock")') \in Nat /\ Cardinality(CallersAt("notify")') \in Nat
    <3>1. WorkersAt("lock")' \in SUBSET Workers /\ CallersAt("notify")' \in SUBSET Tasks
      BY DEF WorkersAt, CallersAt
    <3> QED
      BY <3>1, WorkersAssumption, TasksAssumption, FS_Subset, FS_CardinalityType
  <2> QED
    BY <2>1, <2>2 DEF NoLostWakeup
<1>2. ASSUME NEW w \in Workers, Spurious(w)
      PROVE  NoLostWakeup' /\ (owner # "alive" => stop)'
  <2>1. CallersAt("notify")' = CallersAt("notify") /\ tasks' = tasks /\ owner' = owner /\ stop' = stop
    BY <1>2 DEF Spurious, CallersAt
  <2>2. /\ Cardinality(WorkersAt("lock")') = Cardinality(WorkersAt("lock")) + 1
        /\ WorkersAt("waiting")' \subseteq WorkersAt("waiting")
    BY <1>0, <1>2, WorkerAwakes DEF Spurious
  <2> QED
    BY <1>0, <2>1, <2>2, AwakeAreCounted DEF NoLostWakeup
<1>3. ASSUME NEW w \in Workers, Take(w)
      PROVE  NoLostWakeup' /\ (owner # "alive" => stop)'
  <2>1. CallersAt("notify")' = CallersAt("notify") /\ owner' = owner /\ stop' = stop
    BY <1>3 DEF Take, CallersAt
  <2>2. Len(tasks') = Len(tasks) - 1
    BY <1>0, <1>3, TailOfQueue DEF Take, TypeOK
  <2>3. /\ Cardinality(WorkersAt("lock")') = Cardinality(WorkersAt("lock")) - 1
        /\ WorkersAt("waiting")' = WorkersAt("waiting")
    BY <1>0, <1>3, WorkerTakes DEF Take
  <2> QED
    BY <1>0, <2>1, <2>2, <2>3, AwakeAreCounted DEF NoLostWakeup
<1>4. ASSUME NEW w \in Workers, Run(w)
      PROVE  NoLostWakeup' /\ (owner # "alive" => stop)'
  <2>1. CallersAt("notify")' = CallersAt("notify") /\ tasks' = tasks /\ owner' = owner /\ stop' = stop
    BY <1>4 DEF Run, CallersAt
  <2>2. /\ Cardinality(WorkersAt("lock")') = Cardinality(WorkersAt("lock")) + 1
        /\ WorkersAt("waiting")' \subseteq WorkersAt("waiting")
    BY <1>0, <1>4, WorkerAwakes DEF Run
  <2> QED
    BY <1>0, <2>1, <2>2, AwakeAreCounted DEF NoLostWakeup
<1>5. ASSUME NEW w \in Workers, Exit(w)
      PROVE  NoLostWakeup' /\ (owner # "alive" => stop)'
  <2>1. Len(tasks') = 0 /\ owner' = owner /\ stop' = stop
    BY <1>5 DEF Exit
  <2>2. WorkersAt("waiting")' \subseteq WorkersAt("waiting")
    BY <1>0, <1>5 DEF Exit, WorkersAt, TypeOK
  <2>3. Cardinality(WorkersAt("lock")') \in Nat /\ Cardinality(CallersAt("notify")') \in Nat
    <3>1. WorkersAt("lock")' \in SUBSET Workers /\ CallersAt("notify")' \in SUBSET Tasks
      BY DEF WorkersAt, CallersAt
    <3> QED
      BY <3>1, WorkersAssumption, TasksAssumption, FS_Subset, FS_CardinalityType
  <2> QED
    BY <1>0, <2>1, <2>2, <2>3 DEF NoLostWakeup
<1>6. ASSUME NEW t \in Tasks, Enqueue(t)
      PROVE  NoLostWakeup' /\ (owner # "alive" => stop)'
  <2>1. /\ WorkersAt("lock")' = WorkersAt("lock") /\ WorkersAt("waiting")' = WorkersAt("waiting")
        /\ owner' = owner /\ stop' = stop
    BY <1>6 DEF Enqueue, WorkersAt
  <2>2. CASE stop
    <3>1. CallersAt("notify")' = CallersAt("notify") /\ tasks' = tasks
      BY <1>0, <1>6, <2>2 DEF Enqueue, CallersAt, TypeOK
    <3> QED
      BY <1>0, <2>1, <3>1 DEF NoLostWakeup
  <2>3. CASE ~ stop
    <3>1. CallersAt("notify")' = CallersAt("notify") \union {t} /\ t \notin CallersAt("notify")
      BY <1>0, <1>6, <2>3 DEF Enqueue, CallersAt, TypeOK
    <3>2. Cardinality(CallersAt("notify")') = Cardinality(CallersAt("notify")) + 1
      BY <3>1, AwakeAreCounted, FS_AddElement
    <3>3. Len(tasks') = Len(tasks) + 1
      BY <1>0, <1>6, <2>3, AppendToQueue DEF Enqueue, TypeOK
    <3> QED
      BY <1>0, <2>1, <3>2, <3>3, AwakeAreCounted DEF NoLostWakeup
  <2> QED
    BY <2>2, <2>3
<1>7. ASSUME NEW t \in Tasks, NotifyOne(t)
      PROVE  NoLostWakeup' /\ (owner # "alive" => stop)'
  <2>1. tasks' = tasks /\ owner' = owner /\ stop' = stop
    BY <1>7 DEF NotifyOne
  <2>2. CallersAt("notify")' = CallersAt("notify") \ {t} /\ t \in CallersAt("notify")
    BY <1>0, <1>7 DEF NotifyOne, CallersAt, TypeOK
  <2>3. Cardinality(CallersAt("notify")') = Cardinality(CallersAt("notify")) - 1
    BY <2>2, AwakeAreCounted, FS_RemoveElement
  <2>4. CASE WorkersAt("waiting") = {} /\ UNCHANGED worker
    <3>1. WorkersAt("waiting")' = {}
      BY <2>4 DEF WorkersAt
    <3> QED
      BY <1>0, <2>1, <3>1 DEF NoLostWakeup
  <2>5. CASE \E w \in WorkersAt("waiting") : worker' = [worker EXCEPT ![w] = "lock"]
    <3>1. PICK w \in WorkersAt("waiting") : worker' = [worker EXCEPT ![w] = "lock"]
      BY <2>5
    <3>2. w \in Workers /\ worker[w] # "lock"
      BY DEF WorkersAt
    <3>3. /\ Cardinality(WorkersAt("lock")') = Cardinality(WorkersAt("lock")) + 1
          /\ WorkersAt("waiting")' \subseteq WorkersAt("waiting")
      BY <1>0, <3>1, <3>2, WorkerAwakes
    <3> QED
      BY <1>0, <2>1, <2>3, <3>3, AwakeAreCounted DEF NoLostWakeup
  <2> QED
    BY <1>7, <2>4, <2>5 DEF NotifyOne
<1>8. ASSUME NEW t \in Tasks, NotifyDestroyed(t)
      PROVE  NoLostWakeup' /\ (owner # "alive" => stop)'
  BY <1>0, <1>8 DEF NotifyDestroyed, NoLostWakeup, WorkersAt, CallersAt
<1>9. CASE Stop
  BY <1>0, <1>9 DEF Stop, NoLostWakeup, WorkersAt, CallersAt
<1>10. CASE NotifyAll
  <2>1. WorkersAt("waiting")' = {}
    BY <1>0, <1>10 DEF NotifyAll, WorkersAt, TypeOK
  <2> QED
    BY <1>0, <1>10, <2>1 DEF NotifyAll, NoLostWakeup
<1>11. CASE Join
  BY <1>0, <1>11 DEF Join, NoLostWakeup, WorkersAt, CallersAt
<1>12. CASE UNCHANGED vars
  BY <1>0, <1>12 DEF vars, NoLostWakeup, WorkersAt, CallersAt
<1> QED
  BY <1>1, <1>2, <1>3, <1>4, <1>5, <1>6, <1>7, <1>8, <1>9, <1>10, <1>11, <1>12 DEF Next, Work

\* A worker never sleeps through a task that nobody else is about to take.
THEOREM WakeupsKept == Spec => []NoLostWakeup
<1>1. Spec => []WInv
  BY WInvInit, WInvNext, PTL DEF Spec
<1> QED
  BY <1>1, PTL DEF WInv

=============================================================================
