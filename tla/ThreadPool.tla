----------------------------- MODULE ThreadPool -----------------------------
(***************************************************************************)
(* The thread pool of server/utils/threadpool.h: a queue of tasks under a  *)
(* mutex, a condition variable on which idle workers wait, callers that    *)
(* enqueue from any thread, and a destructor that stops the workers and    *)
(* joins them.                                                             *)
(*                                                                         *)
(* What a thread does while it holds the mutex is one step.  The calls of  *)
(* notify_one and notify_all come after the mutex was released and are     *)
(* steps of their own; wait releases it and sleeps in one step, which is   *)
(* what a condition variable guarantees.                                   *)
(***************************************************************************)
EXTENDS Naturals, Sequences, FiniteSets

CONSTANTS Workers,      \* the threads of the pool
          Tasks,        \* the tasks, and the threads that enqueue them
          NoTask        \* no task at hand

\* AsyncTaskExecutor gives the pool hardware_concurrency() workers, which the
\* standard lets be 0: then no task ever runs.
ASSUME WorkersAssumption == Workers # {} /\ IsFiniteSet(Workers)
ASSUME TasksAssumption == IsFiniteSet(Tasks) /\ NoTask \notin Tasks

VARIABLES tasks,        \* the queue
          stop,         \* the destructor was entered
          worker,       \* where each worker is: "lock", "waiting", "running" or "exited"
          task,         \* the task a worker has taken
          caller,       \* where the call of enqueue is for each task
          owner,        \* where the owner of the pool is in the destructor
          ran           \* the tasks that have been run

vars == <<tasks, stop, worker, task, caller, owner, ran>>

WorkersAt(l) == {w \in Workers : worker[w] = l}
CallersAt(l) == {t \in Tasks : caller[t] = l}

-----------------------------------------------------------------------------
(* A worker. *)

\* condition.wait: there is nothing to do yet
Wait(w) ==
    /\ worker[w] = "lock"
    /\ ~ stop /\ tasks = <<>>
    /\ worker' = [worker EXCEPT ![w] = "waiting"]
    /\ UNCHANGED <<tasks, stop, task, caller, owner, ran>>

\* A condition variable may wake up for no reason
Spurious(w) ==
    /\ worker[w] = "waiting"
    /\ worker' = [worker EXCEPT ![w] = "lock"]
    /\ UNCHANGED <<tasks, stop, task, caller, owner, ran>>

\* Faulty: the front of the queue is popped and not moved
PopOnly(w) ==
    /\ worker[w] = "lock"
    /\ tasks # <<>>
    /\ tasks' = Tail(tasks)
    /\ worker' = [worker EXCEPT ![w] = "running"]
    /\ UNCHANGED <<stop, task, caller, owner, ran>>

\* The task at the front of the queue, whether the pool is stopped or not
Take(w) ==
    /\ worker[w] = "lock"
    /\ tasks # <<>>
    /\ task' = [task EXCEPT ![w] = Head(tasks)]
    /\ tasks' = Tail(tasks)
    /\ worker' = [worker EXCEPT ![w] = "running"]
    /\ UNCHANGED <<stop, caller, owner, ran>>

\* The task itself, outside the mutex: what it throws goes to its future
Run(w) ==
    /\ worker[w] = "running"
    /\ ran' = ran \union {task[w]}
    /\ task' = [task EXCEPT ![w] = NoTask]
    /\ worker' = [worker EXCEPT ![w] = "lock"]
    /\ UNCHANGED <<tasks, stop, caller, owner>>

\* Faulty: a worker that leaves as soon as the pool is stopped
ExitAtOnce(w) ==
    /\ worker[w] = "lock"
    /\ stop
    /\ worker' = [worker EXCEPT ![w] = "exited"]
    /\ UNCHANGED <<tasks, stop, task, caller, owner, ran>>

\* A worker leaves once the pool is stopped and its queue is empty
Exit(w) ==
    /\ worker[w] = "lock"
    /\ stop /\ tasks = <<>>
    /\ worker' = [worker EXCEPT ![w] = "exited"]
    /\ UNCHANGED <<tasks, stop, task, caller, owner, ran>>

-----------------------------------------------------------------------------
(* A call of enqueue. *)

\* A pool that was stopped throws
Enqueue(t) ==
    /\ caller[t] = "idle"
    /\ owner # "destroyed"
    /\ IF stop
       THEN caller' = [caller EXCEPT ![t] = "thrown"] /\ UNCHANGED tasks
       ELSE caller' = [caller EXCEPT ![t] = "notify"] /\ tasks' = Append(tasks, t)
    /\ UNCHANGED <<stop, worker, task, owner, ran>>

\* Faulty: the call returns without notify_one
ReturnAtOnce(t) ==
    /\ caller[t] = "notify"
    /\ caller' = [caller EXCEPT ![t] = "returned"]
    /\ UNCHANGED <<tasks, stop, worker, task, owner, ran>>

\* notify_one wakes one of the workers that wait, if there is any
NotifyOne(t) ==
    /\ caller[t] = "notify"
    /\ owner # "destroyed"
    /\ \/ WorkersAt("waiting") = {} /\ UNCHANGED worker
       \/ \E w \in WorkersAt("waiting") : worker' = [worker EXCEPT ![w] = "lock"]
    /\ caller' = [caller EXCEPT ![t] = "returned"]
    /\ UNCHANGED <<tasks, stop, task, owner, ran>>

\* The condition variable that a call is about to notify is gone
NotifyDestroyed(t) ==
    /\ caller[t] = "notify"
    /\ owner = "destroyed"
    /\ owner' = "undefined"
    /\ UNCHANGED <<tasks, stop, worker, task, caller, ran>>

-----------------------------------------------------------------------------
(* The destructor. *)

Stop ==
    /\ owner = "alive"
    /\ stop' = TRUE
    /\ owner' = "notify"
    /\ UNCHANGED <<tasks, worker, task, caller, ran>>

\* Faulty: notify_one in the place of notify_all
NotifyOneOnly ==
    /\ owner = "notify"
    /\ \/ WorkersAt("waiting") = {} /\ UNCHANGED worker
       \/ \E w \in WorkersAt("waiting") : worker' = [worker EXCEPT ![w] = "lock"]
    /\ owner' = "join"
    /\ UNCHANGED <<tasks, stop, task, caller, ran>>

NotifyAll ==
    /\ owner = "notify"
    /\ worker' = [w \in Workers |-> IF worker[w] = "waiting" THEN "lock" ELSE worker[w]]
    /\ owner' = "join"
    /\ UNCHANGED <<tasks, stop, task, caller, ran>>

\* join returns for every worker
Join ==
    /\ owner = "join"
    /\ \A w \in Workers : worker[w] = "exited"
    /\ owner' = "destroyed"
    /\ UNCHANGED <<tasks, stop, worker, task, caller, ran>>

-----------------------------------------------------------------------------
Init ==
    /\ tasks = <<>> /\ stop = FALSE /\ ran = {}
    /\ worker = [w \in Workers |-> "lock"]
    /\ task = [w \in Workers |-> NoTask]
    /\ caller = [t \in Tasks |-> "idle"]
    /\ owner = "alive"

Work(w) == Wait(w) \/ Take(w) \/ Run(w) \/ Exit(w)

Next ==
    \/ \E w \in Workers : Work(w) \/ Spurious(w)
    \/ \E t \in Tasks : Enqueue(t) \/ NotifyOne(t) \/ NotifyDestroyed(t)
    \/ Stop \/ NotifyAll \/ Join

Spec == Init /\ [][Next]_vars

(* Fairness: a thread that asks for the mutex gets it in the end, a task      *)
(* ends, and who has begun a call of enqueue or the destructor goes on.  No   *)
(* one is bound to call them, and nothing relies on spurious wake-ups.        *)
FairSpec ==
    /\ Spec
    /\ \A w \in Workers : WF_vars(Work(w))
    /\ \A t \in Tasks : WF_vars(NotifyOne(t))
    /\ WF_vars(NotifyAll \/ Join)

-----------------------------------------------------------------------------
\* The type of the state: the queue, the mutex's data and the three kinds of
\* threads.
TypeOK ==
    /\ tasks \in Seq(Tasks)
    /\ stop \in BOOLEAN
    /\ worker \in [Workers -> {"lock", "waiting", "running", "exited"}]
    /\ task \in [Workers -> Tasks \union {NoTask}]
    /\ \A w \in WorkersAt("running") : task[w] \in Tasks
    /\ caller \in [Tasks -> {"idle", "notify", "returned", "thrown"}]
    /\ owner \in {"alive", "notify", "join", "destroyed", "undefined"}
    /\ ran \subseteq Tasks

\* No wake-up is lost: while a worker sleeps, every task in the queue has a
\* worker that is awake to take it, or a call of enqueue about to wake one; and
\* once the destructor has called notify_all no worker sleeps.
NoLostWakeup ==
    /\ WorkersAt("waiting") # {} =>
          Len(tasks) <= Cardinality(WorkersAt("lock")) + Cardinality(CallersAt("notify"))
    /\ owner \notin {"alive", "notify"} => WorkersAt("waiting") = {}

\* When the destructor returns, every task that enqueue has accepted has been
\* run: no future is left without a result (threadpool.h:51, 96-97).
DrainedWhenDestroyed ==
    owner \in {"destroyed", "undefined"} =>
        \A t \in CallersAt("notify") \union CallersAt("returned") : t \in ran

\* A task that was accepted is run, whether the pool is stopped or not.
EveryTaskRuns == \A t \in Tasks : caller[t] = "notify" ~> t \in ran

\* The destructor returns: no worker is left asleep for join to wait for.
DestructorReturns == stop ~> owner \in {"destroyed", "undefined"}

=============================================================================
