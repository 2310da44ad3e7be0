-------------------------------- MODULE TaskQueue --------------------------------
(***************************************************************************)
(* One task queue with the calls that process it (scheduler-service.ts),   *)
(* the continuation plans its items resume (agent-continuity-service.ts)   *)
(* and the agent nodes of workflows (workflow-runner-service.ts), which    *)
(* share the resource locks.                                               *)
(*                                                                         *)
(* A call reads its list of items once and then marks, locks, executes and *)
(* finishes them one by one.  It lets others in only while an employee run *)
(* waits for the desktop (a child process); a worker in state "next" has   *)
(* not waited for anything since its last step and keeps the processor.    *)
(*                                                                         *)
(* Due time, priority and maxItems are free: the list of a call is any     *)
(* choice of queued items, in any order, within the concurrency limit.     *)
(***************************************************************************)
EXTENDS ResourceLocks, Sequences

CONSTANTS Call,        \* POST /task-queues/:id/process, tick, and due schedules
          Item,        \* rows of task_queue_items
          Plan,        \* rows of continuation_plans
          NoPlan,      \* the plan of an employee run
          Need,        \* the resources an item or an agent may ask for
          Limit,       \* concurrencyLimit of the queue
          MaxCrashes   \* bound: restarts of the server

ASSUME QueueAssumption ==
  /\ Call \subseteq Worker /\ Need \subseteq SUBSET Resource
  /\ IsFiniteSet(Item) /\ NoPlan \notin Plan /\ Limit \in Nat /\ MaxCrashes \in Nat

VARIABLES items,       \* the rows
          plans,       \* status of each plan
          job,         \* what each worker is doing
          crashes

vars == <<held, items, plans, job, crashes>>

Node == Worker \ Call  \* the agent nodes of workflow runs

ItemStatus == {"none", "queued", "running", "complete", "failed", "canceled"}
PlanStatus == {"open", "in_progress", "completed", "canceled"}

NoRow == [status |-> "none", plan |-> NoPlan, need |-> {}]
NoJob == [state |-> "idle", list |-> <<>>, need |-> {}, plan |-> NoPlan, late |-> FALSE]

Init ==
  /\ LockInit
  /\ items = [i \in Item |-> NoRow]
  /\ plans = [p \in Plan |-> "open"]
  /\ job = [w \in Worker |-> NoJob]
  /\ crashes = 0

Busy(w) == job[w].state = "busy"
Quiet == \A w \in Worker : job[w].state # "next"
With(status) == {i \in Item : items[i].status = status}
Mark(i, status) == [items EXCEPT ![i].status = status]
-------------------------------------------------------------------------------
(* What clients do to the rows.                                            *)
Queued(p, n) == [status |-> "queued", plan |-> p, need |-> n]

Enqueue(i, p, n) ==
  /\ Quiet /\ items[i] = NoRow
  /\ items' = [items EXCEPT ![i] = Queued(p, n)]
  /\ UNCHANGED <<held, plans, job, crashes>>

Pending(p) == \E i \in Item : items[i].plan = p /\ items[i].status \in {"queued", "running"}

(* enqueueDueContinuationPlans: an item for each plan that is due and not  *)
(* on its way; the items of the scan ask for no resource.                  *)
Scan(S) ==
  /\ Quiet
  /\ \A p \in S : plans[p] = "open" /\ ~Pending(p)
  /\ \E at \in [S -> {i \in Item : items[i] = NoRow}] :
       /\ \A p, q \in S : at[p] = at[q] => p = q
       /\ items' = [i \in Item |-> IF \E p \in S : at[p] = i
                                   THEN Queued(CHOOSE p \in S : at[p] = i, {}) ELSE items[i]]
  /\ UNCHANGED <<held, plans, job, crashes>>

(* cancelTaskQueueItem, also for an item that is being executed.           *)
Cancel(i) ==
  /\ Quiet /\ items[i].status \in {"queued", "running"}
  /\ items' = Mark(i, "canceled")
  /\ UNCHANGED <<held, plans, job, crashes>>

SetPlan(p, s) ==
  /\ Quiet
  /\ plans' = [plans EXCEPT ![p] = s]
  /\ UNCHANGED <<held, items, job, crashes>>
-------------------------------------------------------------------------------
(* processTaskQueue reads its list.                                        *)
Process(c) ==
  /\ Quiet /\ job[c] = NoJob
  /\ \E n \in 1..(Limit - Cardinality(With("running"))) :
       \E s \in [1..n -> With("queued")] :
         /\ \A x, y \in 1..n : s[x] = s[y] => x = y
         /\ job' = [job EXCEPT ![c] = [NoJob EXCEPT !.state = "next", !.list = s]]
  /\ UNCHANGED <<held, items, plans, crashes>>

Runnable(i) == \A p \in Plan : items[i].plan = p => plans[p] \in {"open", "in_progress"}

(* markTaskQueueItemRunning, the locks, and the item up to the wait of its *)
(* employee run.  Nothing looks at the row's status again.                 *)
Take(c, i) ==
  /\ Acquire(c, items[i].need)
  /\ Runnable(i)
  /\ items' = Mark(i, "running")
  /\ plans' = IF items[i].plan = NoPlan THEN plans
              ELSE [plans EXCEPT ![items[i].plan] = "in_progress"]
  /\ job' = [job EXCEPT ![c] = [@ EXCEPT !.state = "busy", !.need = items[i].need,
                                         !.plan = items[i].plan]]

(* The call goes on with the rest of its list.                             *)
Rest(c) ==
  [job EXCEPT ![c] = IF Len(job[c].list) = 1 THEN NoJob
                     ELSE [NoJob EXCEPT !.state = "next", !.list = Tail(job[c].list)]]

LeftRunning(i) == Mark(i, "running")      \* mutant: no catch around the locks
FailedRow(i) == Mark(i, "failed")

(* No lock, a plan that is over, or an employee run that cannot start (it  *)
(* throws before it waits: the plan has gone to in_progress and back).     *)
GivenBack(need) == ~Taken(need) /\ held' = IF need = {} THEN held ELSE Live

TakeFails(c, i) ==
  /\ \/ Refuse(c, items[i].need) /\ UNCHANGED plans
     \/ /\ GivenBack(items[i].need)
        /\ plans' = IF items[i].plan # NoPlan /\ Runnable(i)
                    THEN [plans EXCEPT ![items[i].plan] = "open"] ELSE plans
  /\ items' = FailedRow(i)
  /\ job' = Rest(c)

NextItem(c) ==
  /\ job[c].state = "next" /\ c \in Call
  /\ Take(c, Head(job[c].list)) \/ TakeFails(c, Head(job[c].list))
  /\ UNCHANGED crashes

PlanAfter(p, ok) ==
  IF p = NoPlan THEN plans ELSE [plans EXCEPT ![p] = IF ok THEN "completed" ELSE "open"]

(* The employee run is over: plan, locks and row, in this order, and never *)
(* a look at what the row says by now.                                     *)
Finish(c, ok) ==
  /\ Quiet /\ c \in Call /\ Busy(c)
  /\ Release(c)
  /\ plans' = PlanAfter(job[c].plan, ok)
  /\ items' = Mark(Head(job[c].list), IF ok THEN "complete" ELSE "failed")
  /\ job' = Rest(c)
  /\ UNCHANGED crashes
-------------------------------------------------------------------------------
(* An agent node of a workflow run: locks, employee run, release.  A node  *)
(* that gets no locks or cannot start its run has failed.                  *)
StartNode(w, n) ==
  /\ Quiet /\ job[w] = NoJob /\ n # {}
  /\ \/ Acquire(w, n) /\ job' = [job EXCEPT ![w] = [@ EXCEPT !.state = "busy", !.need = n]]
     \/ Refuse(w, n) /\ UNCHANGED job
  /\ UNCHANGED <<items, plans, crashes>>

EndNode(w) ==
  /\ Quiet /\ w \in Node /\ Busy(w)
  /\ Release(w)
  /\ job' = [job EXCEPT ![w] = NoJob]
  /\ UNCHANGED <<items, plans, crashes>>

(* A lock's time to live passes; if its worker is still at it, it is late. *)
Expire(l) ==
  /\ Quiet
  /\ Elapse(l)
  /\ job' = IF l.by = Nobody THEN job ELSE [job EXCEPT ![l.by].late = TRUE]
  /\ UNCHANGED <<items, plans, crashes>>

Crash ==
  /\ Quiet /\ crashes < MaxCrashes
  /\ Lose
  /\ job' = [w \in Worker |-> NoJob]
  /\ crashes' = crashes + 1
  /\ UNCHANGED <<items, plans>>

Next ==
  \/ \E i \in Item, p \in Plan \cup {NoPlan}, n \in Need : Enqueue(i, p, n)
  \/ \E S \in SUBSET Plan \ {{}} : Scan(S)
  \/ \E i \in Item : Cancel(i)
  \/ \E p \in Plan, s \in {"open", "canceled", "completed"} : SetPlan(p, s)
  \/ \E c \in Call : Process(c) \/ NextItem(c) \/ \E ok \in BOOLEAN : Finish(c, ok)
  \/ \E w \in Node : EndNode(w) \/ \E n \in Need : StartNode(w, n)
  \/ \E l \in held : Expire(l)
  \/ Crash

Spec == Init /\ [][Next]_vars
-------------------------------------------------------------------------------
(* Types.                                                                  *)
TypeOK ==
  /\ held \subseteq Row
  /\ items \in [Item -> [status : ItemStatus, plan : Plan \cup {NoPlan}, need : SUBSET Resource]]
  /\ plans \in [Plan -> PlanStatus]
  /\ job \in [Worker -> [state : {"idle", "next", "busy"}, list : Seq(Item),
                         need : SUBSET Resource, plan : Plan \cup {NoPlan}, late : BOOLEAN]]
  /\ crashes \in 0..MaxCrashes

(* Two workers that drive the same resource at once: then a lock ran out   *)
(* under one of them, which is told nothing of it.                         *)
ExecutionExclusive ==
  \A v, w \in Worker :
    v # w /\ Busy(v) /\ Busy(w) /\ job[v].need \cap job[w].need # {} => job[v].late \/ job[w].late

(* Every row of a lock, overdue or not, belongs to a worker that is        *)
(* executing and needs the resource, or to one that a restart took away.   *)
LocksReturned ==
  \A l \in held : l.by = Nobody \/ (Busy(l.by) /\ l.res \in job[l.by].need)

(* Until a restart, a row says "running" and a plan "in_progress" only     *)
(* while a call executes it, in spite of stale lists, refused locks,       *)
(* cancellations and runs that fail.                                       *)
RowsSettle ==
  crashes = 0 =>
    /\ \A i \in With("running") : \E c \in Call : Busy(c) /\ Head(job[c].list) = i
    /\ \A p \in Plan : plans[p] = "in_progress" => \E c \in Call : Busy(c) /\ job[c].plan = p
===============================================================================
