----------------------------- MODULE OrchestratorRun -----------------------------
(***************************************************************************)
(* executeOrchestratorRun of src/src/server/agent-runner.ts, inside        *)
(* executeRun: rounds of PLAN, REVIEW and EXECUTE, then AGGREGATE, then    *)
(* finalize.  The EXECUTE stage is here one step with the outcomes         *)
(* DispatchDag allows.                                                     *)
(* Continuations that run without an await in between are one step.        *)
(***************************************************************************)
EXTENDS PlanReview

CONSTANTS MaxRounds,    \* MAX_DISPATCH_ROUNDS
          NoPlan

Tasks == UNION {IdsOf(TasksIn(p)) : p \in RawPlan}

ASSUME RoundAssumption ==
  /\ MaxRounds \in Nat \ {0}
  /\ NoPlan \notin Plan

VARIABLES
  phase,      \* where the run is
  round,      \* the round of the for loop
  approved,   \* approvedPlan of the round, once there is one
  planned,    \* planItemsById: the tasks of all rounds
  results,    \* mergedResults: the statuses of all rounds so far
  status      \* what finalize writes as the status of the run

runVars == <<phase, round, approved, planned, results, status>>
vars == <<reviewVars, runVars>>

Phase == {"planning", "review", "replanning", "executing", "aggregating",
          "closing", "ended"}
EndStatus == {"complete", "failed", "aborted", "skipped"}

Init ==
  /\ ReviewInit
  /\ phase = [r \in Run |-> "planning"]
  /\ round = [r \in Run |-> 1]
  /\ approved = [r \in Run |-> NoPlan]
  /\ planned = [r \in Run |-> {}]
  /\ results = [r \in Run |-> [t \in Tasks |-> "none"]]
  /\ status = [r \in Run |-> "none"]

Goto(r, ph) == phase' = [phase EXCEPT ![r] = ph]

(* executeRun, when executeOrchestratorRun has returned ("complete") or    *)
(* thrown ("failed"): the signal decides first.                            *)
Close(r, s) ==
  /\ Goto(r, "closing")
  /\ status' = [status EXCEPT ![r] = IF r \in aborted THEN "aborted" ELSE s]

Aggregate(r) == Goto(r, "aggregating") /\ UNCHANGED status

(* The head of the round loop.                                             *)
EnterRound(r, n) ==
  /\ round' = [round EXCEPT ![r] = n]
  /\ \/ r \in aborted /\ Close(r, "failed")
     \/ r \notin aborted /\ Goto(r, "planning") /\ UNCHANGED status
-------------------------------------------------------------------------------
(* runPlanStage throws: the adapter failed or the plan is not valid.       *)
FailsInReview(r) ==                     \* mutant: a review is abandoned uncancelled
  /\ phase[r] \in {"planning", "replanning", "review"}
  /\ Close(r, "failed")
  /\ UNCHANGED <<reviewVars, round, approved, planned, results>>
PlanFails(r) ==
  /\ phase[r] \in {"planning", "replanning"}
  /\ Close(r, "failed")
  /\ UNCHANGED <<reviewVars, round, approved, planned, results>>

(* The model did not call plan_tasks.  In round 1 it answered the user;    *)
(* later it saw nothing left to remedy.  When the stage was a revision the *)
(* plan before it is put up for review again.                              *)
NoPlanInAnyRound(r) ==                  \* mutant: every answer to the user ends the run
  /\ phase[r] = "planning"
  /\ Close(r, "complete")
  /\ UNCHANGED <<reviewVars, round, approved, planned, results>>
NoPlanMade(r) ==
  /\ \/ /\ phase[r] = "planning"
        /\ IF round[r] = 1 THEN Close(r, "complete") ELSE Aggregate(r)
        /\ UNCHANGED reviewVars
     \/ /\ phase[r] = "replanning"
        /\ \E i \in Ids : IsLatest(i, r) /\ Register(r, reviews[i].plan)
        /\ Goto(r, "review")
        /\ UNCHANGED status
  /\ UNCHANGED <<round, approved, planned, results>>

(* The model called plan_tasks: compile, validate, register.               *)
RecordEarly(r, raw) ==                  \* mutant: planItemsById set before the review
  /\ phase[r] \in {"planning", "replanning"}
  /\ Valid(Compile(raw), planned[r])
  /\ Register(r, Compile(raw))
  /\ Goto(r, "review")
  /\ planned' = [planned EXCEPT ![r] = Merged(@, Compile(raw))]
  /\ UNCHANGED <<round, approved, results, status>>
PlanMade(r, raw) ==
  /\ phase[r] \in {"planning", "replanning"}
  /\ Valid(Compile(raw), planned[r])
  /\ Register(r, Compile(raw))
  /\ Goto(r, "review")
  /\ UNCHANGED <<round, approved, planned, results, status>>

(* The promise of waitForDispatchPlanReview has resolved with the verdict  *)
(* of the run's latest review, and with the recompiled plan if approved.   *)
LaunchRevised(r, i) ==                  \* mutant: a revised plan is taken as approved
  /\ reviews[i].verdict \in {"approve", "revise"}
  /\ approved' = [approved EXCEPT ![r] = Compile(reviews[i].plan)]
  /\ planned' = [planned EXCEPT ![r] = Merged(@, Compile(reviews[i].plan))]
  /\ Goto(r, "executing")
  /\ UNCHANGED status
Launch(r, i) ==
  /\ reviews[i].verdict = "approve"
  /\ approved' = [approved EXCEPT ![r] = Compile(reviews[i].plan)]
  /\ planned' = [planned EXCEPT ![r] = Merged(@, Compile(reviews[i].plan))]
  /\ Goto(r, "executing")
  /\ UNCHANGED status

ReplanNever(r, i) == FALSE              \* mutant: revise does not resolve the promise
Replan(r, i) ==
  /\ reviews[i].verdict = "revise"
  /\ Goto(r, "replanning")
  /\ UNCHANGED <<approved, planned, status>>

Decline(r, i) ==
  /\ reviews[i].verdict = "reject"
  /\ \/ r \in aborted /\ Close(r, "failed")
     \/ r \notin aborted /\ round[r] = 1 /\ Close(r, "complete")
     \/ r \notin aborted /\ round[r] > 1 /\ Aggregate(r)
  /\ UNCHANGED <<approved, planned>>

ReviewResolved(r) ==
  /\ phase[r] = "review"
  /\ \E i \in Ids : IsLatest(i, r) /\ (Launch(r, i) \/ Replan(r, i) \/ Decline(r, i))
  /\ UNCHANGED <<reviewVars, round, results>>

(* The results executeDag may return for plan p (see DispatchDag): only a  *)
(* task whose dependencies are all complete has run.  buildSubAgentPrompt  *)
(* collects the closure over the tasks of all rounds; if that has a cycle, *)
(* runChildTask throws.                                                    *)
StatusOf(r, p, res, d) == IF d \in IdsOf(TasksIn(p)) THEN res[d] ELSE results[r][d]
Outcomes(r, p) ==
  {res \in [IdsOf(TasksIn(p)) -> EndStatus] :
     \A t \in TasksIn(p) :
       /\ res[t.id] # "skipped" => \A d \in t.deps : StatusOf(r, p, res, d) = "complete"
       /\ res[t.id] \in {"skipped", "aborted"} \/ ClosureEnds(planned[r], t.id)}

(* executeDag returned: merge, then stop or remedy.  A file written with   *)
(* different contents by two tasks of a wave also asks for a remedy.       *)
MoreRounds(r) == round[r] < MaxRounds
ShouldReplan(res, conflict) == conflict \/ \E t \in DOMAIN res : res[t] # "complete"

ExecuteReturns(r) ==
  /\ phase[r] = "executing"
  /\ \E res \in Outcomes(r, approved[r]), conflict \in BOOLEAN :
       /\ results' = [results EXCEPT ![r] = [t \in Tasks |->
                        IF t \in DOMAIN res THEN res[t] ELSE @[t]]]
       /\ IF ShouldReplan(res, conflict) /\ MoreRounds(r)
          THEN EnterRound(r, round[r] + 1)
          ELSE Aggregate(r) /\ UNCHANGED round
  /\ approved' = [approved EXCEPT ![r] = NoPlan]
  /\ UNCHANGED <<reviewVars, planned>>

ExecuteThrows(r) ==
  /\ phase[r] = "executing"
  /\ Close(r, "failed")
  /\ approved' = [approved EXCEPT ![r] = NoPlan]
  /\ UNCHANGED <<reviewVars, round, planned, results>>

AggregateEnds(r) ==
  /\ phase[r] = "aggregating"
  /\ Close(r, "complete") \/ Close(r, "failed")
  /\ UNCHANGED <<reviewVars, round, approved, planned, results>>

(* finalize is done and the run leaves activeRuns.                         *)
RunEnds(r) ==
  /\ phase[r] = "closing"
  /\ Goto(r, "ended")
  /\ UNCHANGED <<reviewVars, round, approved, planned, results, status>>

AbortRun(r) ==
  /\ phase[r] # "ended"
  /\ Abort(r)
  /\ UNCHANGED runVars

RunStep(r) ==
  \/ PlanFails(r) \/ NoPlanMade(r) \/ \E raw \in RawPlan : PlanMade(r, raw)
  \/ ReviewResolved(r) \/ ExecuteReturns(r) \/ ExecuteThrows(r)
  \/ AggregateEnds(r) \/ RunEnds(r)

Over == (\A r \in Run : phase[r] = "ended") /\ UNCHANGED vars

Next ==
  \/ \E r \in Run : RunStep(r) \/ AbortRun(r)
  \/ Decide(planned) /\ UNCHANGED runVars
  \/ Over

(* The event loop runs what is due: the continuation of a decided review,  *)
(* and finalize.  The stages with a model end only once the signal is      *)
(* aborted, to which every wait in them listens; until then ask_user or an *)
(* approval in a child run may wait for a user without limit.  Nothing is  *)
(* assumed of the users.                                                   *)
Spec == Init /\ [][Next]_vars
Fairness ==
  \A r \in Run : /\ WF_vars(ReviewResolved(r)) /\ WF_vars(RunEnds(r))
                 /\ WF_vars(r \in aborted /\ RunStep(r))
-------------------------------------------------------------------------------
(* Types of the state of executeOrchestratorRun.                           *)
TypeOK ==
  /\ ReviewTypeOK
  /\ phase \in [Run -> Phase]
  /\ round \in [Run -> 1..MaxRounds]
  /\ approved \in [Run -> Plan \cup {NoPlan}]
  /\ \A r \in Run : planned[r] \subseteq UNION {TasksIn(p) : p \in Plan}
  /\ results \in [Run -> [Tasks -> EndStatus \cup {"none"}]]
  /\ status \in [Run -> {"none", "complete", "failed", "aborted"}]

(* A run has at most one review open, its latest one, while it waits for   *)
(* it and has not been aborted: no review outlives the stage that asked    *)
(* for it or the run's signal.                                             *)
ReviewsFollowRun ==
  \A r \in Run : \A i \in Open : reviews[i].run = r =>
    phase[r] = "review" /\ IsLatest(i, r) /\ r \notin aborted

(* Results and plans go together over all rounds: executeDag meets no      *)
(* dependency it knows nothing about, for every one has a result or is in  *)
(* the plan, and the aggregation has a result for every task planned.      *)
RoundsKnowAll ==
  \A r \in Run :
    /\ phase[r] = "executing" => \A t \in TasksIn(approved[r]) : \A d \in t.deps :
         d \in IdsOf(TasksIn(approved[r])) \/ results[r][d] # "none"
    /\ phase[r] = "aggregating" => \A t \in planned[r] : results[r][t.id] # "none"

(* Work that was done is reported: a run that executed a plan and ends as  *)
(* complete has been through AGGREGATE, even when a remedial round made no *)
(* plan.  The exception is a user who rejected the last plan: the code     *)
(* aggregates all the same, spec 17 line 77 says that a rejection does not.*)
Rejected(r) == \E i \in Ids : IsLatest(i, r) /\ reviews[i].verdict = "reject"
CompleteIsAggregated ==
  [][\A r \in Run : status'[r] = "complete" /\ status[r] # "complete" =>
       phase[r] = "aggregating" \/ planned[r] = {} \/ Rejected(r)]_vars

(* A decision reaches the run: outside the stages where a model or a child *)
(* run is at work, only an open review holds a run up.  No decision, of    *)
(* any client and however soon, leaves a run waiting for a review that     *)
(* nobody can decide any more.                                             *)
AtWork(r) == phase[r] \in {"planning", "replanning", "executing", "aggregating"}
DecisionsResumeRun == \A r \in Run : []<>(phase[r] = "ended" \/ AtWork(r) \/ UnderReview(r))

(* An aborted run ends, from every stage and out of an open review, and as *)
(* aborted unless executeRun had decided before the abort.                 *)
AbortEndsRun ==
  \A r \in Run : r \in aborted /\ status[r] = "none"
                 ~> phase[r] = "ended" /\ status[r] = "aborted"

(* Spec 17: the registered plan, which the user has read, executes as it   *)
(* is.                                                                     *)
LaunchedAsShown ==
  [][\A r \in Run : approved[r] = NoPlan /\ approved'[r] # NoPlan =>
       \E i \in Ids : IsLatest(i, r) /\ approved'[r] = reviews[i].plan]_vars

(* The rounds and the store together implement the plan gate, where the    *)
(* second compilation may make a plan stricter: the same tasks with more   *)
(* dependencies.                                                           *)
WithMoreDeps(p) ==
  {q \in Plan : /\ Len(q) = Len(p)
                /\ \A i \in 1..Len(p) : q[i].id = p[i].id /\ p[i].deps \subseteq q[i].deps}
OnTable(r) ==
  IF UnderReview(r) THEN reviews[CHOOSE i \in Open : reviews[i].run = r].plan ELSE NoPlan
Granted(r) ==
  IF phase[r] = "review" /\ \E i \in Ids : IsLatest(i, r) /\ reviews[i].verdict = "approve"
  THEN Compile(reviews[CHOOSE i \in Ids : IsLatest(i, r)].plan) ELSE NoPlan

Gate == INSTANCE PlanGate WITH
  Stricter <- [p \in Plan |-> WithMoreDeps(p)],
  shown    <- [r \in Run |-> OnTable(r)],
  granted  <- [r \in Run |-> Granted(r)],
  running  <- approved
GateSpec == Gate!Spec
===============================================================================
