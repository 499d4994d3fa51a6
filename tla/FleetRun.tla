------------------------------ MODULE FleetRun ------------------------------
(***************************************************************************)
(* A coordinator run and the subagents it delegates to: AgentRun composed  *)
(* with the fleet of packages/agent/src/subagents/fleet.ts, the delegation *)
(* tools of task-tool.ts and #runSubagent / beforeComplete of runtime.ts.  *)
(*                                                                         *)
(* The fleet posts a notification into the parent's steering queue when a  *)
(* child settles; the parent blocks on the fleet in its wait tools and     *)
(* before it completes.  Children run concurrently with the parent and     *)
(* outlive it when it fails.  A notification is the pair of the task's     *)
(* name and the number of the dispatch it reports on.                      *)
(***************************************************************************)
EXTENDS AgentRun, FiniteSets

CONSTANTS UserMessages,   \* what the user may say
          Redirections,   \* those of them that authorize a cancellation
          Tasks,          \* the names spawn may hand out
          MaxRounds,      \* bound: how often one task is dispatched
          MaxDispatches   \* options.maxDispatches of the subagent tool

Rounds == 1..MaxRounds

ASSUME FleetAssumption ==
  /\ Redirections \subseteq UserMessages
  /\ UserMessages \cap (Tasks \X Rounds) = {}
  /\ Messages = UserMessages \cup (Tasks \X Rounds)
  /\ MaxRounds \in Nat /\ MaxDispatches \in Nat

VARIABLES entry,      \* entry[t].status, "absent" before spawn
          round,      \* how many times t has been spawned or resumed
          child,      \* how #runSubagent stands: "none", "starting", "tracked"
          childRun,   \* t's own run: "none", "live", "stopping" or its status
          handle,     \* #cancel has t
          retain,     \* the dispatch asked to retain t's context
          retained,   \* entry[t].retained holds a context
          outbox,     \* #outbox
          licence,    \* #cancellationSteeringAvailable
          dispatches, \* dispatches of the subagent tool
          wait,       \* a pending waitForNews: "idle", "blocked" or its outcome
          waitAll,    \* the wait belongs to wait_all_subagents
          started,    \* auxiliary: dispatches that returned a task
          stops       \* auxiliary: cancellations the fleet carried out

taskVars == <<entry, round, child, childRun, handle, retain, retained>>
postVars == <<outbox, licence>>
waitVars == <<wait, waitAll>>
countVars == <<dispatches, started, stops>>
fleetVars == <<taskVars, postVars, waitVars, countVars>>
runVars == <<pc, loopVars, hostVars, resultVars>>
allVars == <<vars, fleetVars>>

FinalStatus == {"completed", "failed", "cancelled"}

-----------------------------------------------------------------------------
(* The fleet.                                                              *)

Outstanding == {t \in Tasks : entry[t] = "running"}
Terminal == {t \in Tasks : entry[t] \in FinalStatus}
Notifications == Tasks \X Rounds

ExternallySteered == \E i \in DOMAIN steering : steering[i] \notin Notifications

(* What a waiting waitForNews is resolved with; the first event wins.      *)
Wake(outcomeOfWait) == wait' = IF wait = "blocked" THEN outcomeOfWait ELSE wait

(* A mutated form: a cancelled control drops the post.                     *)
SettleUnheard(t, status) ==
  /\ entry' = [entry EXCEPT ![t] = status]
  /\ Wake("news")
  /\ IF aborted
     THEN UNCHANGED <<outbox, controlVars, messageVars>>
     ELSE Steer(<<t, round[t]>>) /\ UNCHANGED outbox

(* settle(): record the outcome, post it, flush the outbox into the        *)
(* parent's control and wake the waiters.  A cancelled control keeps the   *)
(* post in the outbox; a sealed one throws out of the flush, after the     *)
(* outbox was emptied.                                                     *)
Settle(t, status) ==
  /\ entry' = [entry EXCEPT ![t] = status]
  /\ IF aborted
     THEN /\ outbox' = Append(outbox, <<t, round[t]>>)
          /\ Wake("news")
          /\ UNCHANGED <<controlVars, messageVars>>
     ELSE IF accepting
     THEN /\ Steer(<<t, round[t]>>)
          /\ Wake("news")
          /\ UNCHANGED outbox
     ELSE /\ outbox' = <<>>
          /\ UNCHANGED <<wait, controlVars, messageVars>>

-----------------------------------------------------------------------------
(* #runSubagent and the child's own run.                                   *)

(* A mutated form: the ceiling is held against the dispatches that have    *)
(* returned, so that nothing is reserved across the await.                 *)
DispatchUnreserved(t) ==
  /\ pc = "tools"
  /\ started < MaxDispatches
  /\ \/ entry[t] = "absent" /\ round[t] < MaxRounds
     \/ entry[t] = "completed" /\ retained[t] /\ round[t] < MaxRounds
  /\ entry' = [entry EXCEPT ![t] = "running"]
  /\ round' = [round EXCEPT ![t] = @ + 1]
  /\ retained' = [retained EXCEPT ![t] = FALSE]
  /\ child' = [child EXCEPT ![t] = "starting"]
  /\ childRun' = [childRun EXCEPT ![t] = "live"]
  /\ \E r \in BOOLEAN : retain' = [retain EXCEPT ![t] = r]
  /\ dispatches' = dispatches + 1
  /\ UNCHANGED <<handle, postVars, waitVars, started, stops, vars>>

(* The subagent tool up to the await on emitProgress: reserve a dispatch,  *)
(* register the task (spawn) and start its run.                            *)
Dispatch(t) ==
  /\ pc = "tools"
  /\ dispatches < MaxDispatches
  /\ \/ entry[t] = "absent" /\ round[t] < MaxRounds
     \/ entry[t] = "completed" /\ retained[t] /\ round[t] < MaxRounds
  /\ entry' = [entry EXCEPT ![t] = "running"]
  /\ round' = [round EXCEPT ![t] = @ + 1]
  /\ retained' = [retained EXCEPT ![t] = FALSE]
  /\ child' = [child EXCEPT ![t] = "starting"]
  /\ childRun' = [childRun EXCEPT ![t] = "live"]
  /\ \E r \in BOOLEAN : retain' = [retain EXCEPT ![t] = r]
  /\ dispatches' = dispatches + 1
  /\ UNCHANGED <<handle, postVars, waitVars, started, stops, vars>>

(* emitProgress returned: track follows the run and keeps its cancel       *)
(* handle; the tool returns the task's name.                               *)
Track(t) ==
  /\ child[t] = "starting"
  /\ child' = [child EXCEPT ![t] = "tracked"]
  /\ handle' = [handle EXCEPT ![t] = TRUE]
  /\ started' = started + 1
  /\ UNCHANGED <<entry, round, childRun, retain, retained, postVars, waitVars,
                 dispatches, stops, vars>>

(* start or emitProgress threw: the entry is settled as failed and the     *)
(* reservation released; nobody follows the child.                         *)
DispatchThrows(t) ==
  /\ child[t] = "starting"
  /\ child' = [child EXCEPT ![t] = "none"]
  /\ childRun' = [childRun EXCEPT ![t] = "none"]
  /\ Settle(t, "failed")
  /\ dispatches' = dispatches - 1
  /\ UNCHANGED <<round, handle, retain, retained, licence, waitAll, started,
                 stops, runVars>>

(* The child's run ends.  Stopping it does not decide how: it may still    *)
(* complete, and a provider's "aborted" counts as cancelled too.           *)
ChildEnds(t) ==
  /\ childRun[t] \in {"live", "stopping"}
  /\ \E status \in FinalStatus : childRun' = [childRun EXCEPT ![t] = status]
  /\ UNCHANGED <<entry, round, child, handle, retain, retained, postVars,
                 waitVars, countVars, vars>>

(* A mutated form: tasks are followed only while the parent runs.          *)
ChildSettlesForParent(t) ==
  /\ child[t] = "tracked"
  /\ childRun[t] \in FinalStatus
  /\ pc # "done"
  /\ child' = [child EXCEPT ![t] = "none"]
  /\ handle' = [handle EXCEPT ![t] = FALSE]
  /\ retained' = [retained EXCEPT ![t] = retain[t]]
  /\ Settle(t, childRun[t])
  /\ UNCHANGED <<round, childRun, retain, licence, waitAll, countVars, runVars>>

(* track's reaction to the child's result.                                 *)
ChildSettles(t) ==
  /\ child[t] = "tracked"
  /\ childRun[t] \in FinalStatus
  /\ child' = [child EXCEPT ![t] = "none"]
  /\ handle' = [handle EXCEPT ![t] = FALSE]
  /\ retained' = [retained EXCEPT ![t] = retain[t]]
  /\ Settle(t, childRun[t])
  /\ UNCHANGED <<round, childRun, retain, licence, waitAll, countVars, runVars>>

(* A mutated form: one redirection stays a standing licence.               *)
CancelTasksAgain(names) ==
  /\ pc = "tools"
  /\ licence
  /\ stops' = stops + 1
  /\ handle' = [t \in Tasks |-> handle[t] /\ ~(t \in names /\ entry[t] = "running")]
  /\ childRun' = [t \in Tasks |->
       IF t \in names /\ entry[t] = "running" /\ handle[t] /\ childRun[t] = "live"
       THEN "stopping" ELSE childRun[t]]
  /\ UNCHANGED <<entry, round, child, retain, retained, outbox, licence, waitVars,
                 dispatches, started, vars>>

(* cancel_subagents: consumes the licence, then stops exactly the named    *)
(* tasks that run and have a handle.  Without a licence it refuses.        *)
CancelTasks(names) ==
  /\ pc = "tools"
  /\ licence
  /\ licence' = FALSE
  /\ stops' = stops + 1
  /\ handle' = [t \in Tasks |-> handle[t] /\ ~(t \in names /\ entry[t] = "running")]
  /\ childRun' = [t \in Tasks |->
       IF t \in names /\ entry[t] = "running" /\ handle[t] /\ childRun[t] = "live"
       THEN "stopping" ELSE childRun[t]]
  /\ UNCHANGED <<entry, round, child, retain, retained, outbox, waitVars,
                 dispatches, started, vars>>

-----------------------------------------------------------------------------
(* Waiting.                                                                *)

(* waitForNews called: it returns at once when nothing is outstanding or   *)
(* the user has already spoken, and blocks otherwise.                      *)
WaitWouldBlock == Outstanding # {} /\ ~ExternallySteered

(* wait_subagent and wait_all_subagents begin to block.                    *)
BeginWait(all) ==
  /\ pc = "tools"
  /\ wait = "idle"
  /\ WaitWouldBlock
  /\ all => ~Stopped
  /\ wait' = "blocked"
  /\ waitAll' = all
  /\ UNCHANGED <<taskVars, postVars, countVars, vars>>

(* beforeComplete blocks on the fleet: settleOutstandingOrSteered.         *)
HoldCompletion ==
  /\ pc = "beforeComplete"
  /\ wait = "idle"
  /\ ~Stopped
  /\ WaitWouldBlock
  /\ wait' = "blocked"
  /\ waitAll' = TRUE
  /\ UNCHANGED <<taskVars, postVars, countVars, vars>>

WaitTimesOut ==
  /\ wait = "blocked"
  /\ wait' = "timeout"
  /\ UNCHANGED <<waitAll, taskVars, postVars, countVars, vars>>

(* The wait resolved: the barrier waits again while tasks are out and      *)
(* neither the user, the timeout nor a cancellation interfered; the wait   *)
(* before completion outlasts its timeout as well.                         *)
WaitReturns ==
  /\ wait \in {"news", "timeout", "steered"}
  /\ wait' = IF /\ waitAll
                /\ wait = "news" \/ (wait = "timeout" /\ pc = "beforeComplete")
                /\ WaitWouldBlock
                /\ ~Stopped
             THEN "blocked" ELSE "idle"
  /\ UNCHANGED <<waitAll, taskVars, postVars, countVars, vars>>

-----------------------------------------------------------------------------
(* The parent's run, with the fleet in its tools and callbacks.            *)

(* The turns of the loop in which the fleet takes no part.                 *)
LoopStep ==
  /\ \/ Start \/ Announce \/ LoopHead \/ TransformContext \/ Attempt
     \/ StreamFails \/ StreamEmpty \/ StreamCalls \/ StreamText
     \/ ReviewRejects \/ ReviewAccepts \/ Seal \/ Finish \/ ToolsThrow
  /\ UNCHANGED fleetVars

(* All tool calls of the turn have returned.                               *)
ToolsReturn ==
  /\ wait = "idle"
  /\ \A t \in Tasks : child[t] # "starting"
  /\ ToolsDone
  /\ UNCHANGED fleetVars

(* A mutated form: completion takes the post without waiting for the tasks *)
(* still out.                                                              *)
CompletionImpatient == wait = "idle"

(* beforeComplete goes on once no task is out, the user spoke or the run   *)
(* was stopped.                                                            *)
CompletionMayProceed ==
  /\ wait = "idle"
  /\ Outstanding = {} \/ ExternallySteered \/ Stopped

(* takePost, then the completion check on at least two finished tasks.     *)
BeforeCompleteWithFleet ==
  /\ CompletionMayProceed
  /\ \/ TakePost(outbox) /\ outbox' = <<>>
     \/ /\ outbox = <<>>
        /\ Cardinality(Terminal) >= 2
        /\ RepairCompletion
        /\ UNCHANGED outbox
     \/ /\ outbox = <<>>
        /\ NothingOutstanding
        /\ UNCHANGED outbox
  /\ UNCHANGED <<taskVars, licence, waitVars, countVars>>

(* The user speaks: the fleet's listeners note a redirection and end a     *)
(* wait.                                                                   *)
UserSpeaks ==
  /\ pc \notin {"created", "done"}
  /\ \E m \in UserMessages \ Said :
       /\ Steer(m)
       /\ licence' = (licence \/ m \in Redirections)
  /\ Wake("steered")
  /\ UNCHANGED <<runVars, taskVars, outbox, waitAll, countVars>>

(* Stopping the run ends a wait through the abort listener.  No host gives *)
(* a coordinator a signal of its own, so Revoke plays no part here.        *)
Stop ==
  /\ Cancel
  /\ Wake("news")
  /\ UNCHANGED <<taskVars, postVars, waitAll, countVars>>

-----------------------------------------------------------------------------
(* A fleet starts with the retained tasks an earlier run of the same       *)
(* conversation left behind.                                               *)
FleetInit ==
  /\ Init
  /\ \E carried \in SUBSET Tasks :
       /\ entry = [t \in Tasks |-> IF t \in carried THEN "completed" ELSE "absent"]
       /\ retained = [t \in Tasks |-> t \in carried]
  /\ round = [t \in Tasks |-> 0]
  /\ child = [t \in Tasks |-> "none"]
  /\ childRun = [t \in Tasks |-> "none"]
  /\ handle = [t \in Tasks |-> FALSE]
  /\ retain = [t \in Tasks |-> FALSE]
  /\ outbox = <<>> /\ licence = FALSE
  /\ dispatches = 0 /\ started = 0 /\ stops = 0
  /\ wait = "idle" /\ waitAll = FALSE

ParentStep == LoopStep \/ ToolsReturn \/ BeforeCompleteWithFleet

WaitStep == WaitTimesOut \/ WaitReturns \/ HoldCompletion

TaskStep(t) == Track(t) \/ DispatchThrows(t) \/ ChildEnds(t) \/ ChildSettles(t)

ToolStep ==
  \/ \E t \in Tasks : Dispatch(t)
  \/ \E names \in SUBSET Tasks \ {{}} : CancelTasks(names)
  \/ \E all \in BOOLEAN : BeginWait(all)

FleetNext ==
  \/ ParentStep \/ WaitStep \/ ToolStep \/ UserSpeaks \/ Stop
  \/ \E t \in Tasks : TaskStep(t)

(* The parent's awaited calls settle, timers fire, and children end.       *)
FleetFairness ==
  /\ WF_allVars(ParentStep)
  /\ WF_allVars(WaitStep)
  /\ \A t \in Tasks : WF_allVars(TaskStep(t))

FleetSpec == FleetInit /\ [][FleetNext]_allVars /\ FleetFairness

-----------------------------------------------------------------------------
(* The fleet's variables have the shapes the code gives them.              *)
FleetTypeOK ==
  /\ TypeOK
  /\ entry \in [Tasks -> FinalStatus \cup {"absent", "running"}]
  /\ round \in [Tasks -> 0..MaxRounds]
  /\ child \in [Tasks -> {"none", "starting", "tracked"}]
  /\ childRun \in [Tasks -> FinalStatus \cup {"none", "live", "stopping"}]
  /\ handle \in [Tasks -> BOOLEAN]
  /\ retain \in [Tasks -> BOOLEAN] /\ retained \in [Tasks -> BOOLEAN]
  /\ outbox \in Seq(Notifications) /\ licence \in BOOLEAN
  /\ wait \in {"idle", "blocked", "news", "timeout", "steered"}
  /\ waitAll \in BOOLEAN
  /\ dispatches \in Nat /\ started \in Nat /\ stops \in Nat

Posted == accepted \o outbox

(* Every dispatch that reached an end is reported exactly once, and none   *)
(* before its end: settle's is-final guard, the flush into the control and *)
(* takePost together neither lose nor double a notification, also when the *)
(* parent is cancelled, has failed or has already ended.                   *)
PostConserved ==
  \A t \in Tasks, r \in Rounds :
    LET settled == r < round[t] \/ (r = round[t] /\ entry[t] # "running")
    IN  Cardinality({i \in DOMAIN Posted : Posted[i] = <<t, r>>})
          = IF settled THEN 1 ELSE 0

(* "The run cannot end while one of them is still out" (runtime.ts): a run *)
(* that completes without having been stopped has no task out and has put  *)
(* every task's report to the model.                                       *)
CompletedHeardEveryone ==
  outcome = "completed" /\ ~Stopped =>
    /\ Outstanding = {}
    /\ \A t \in Tasks : \A r \in 1..round[t] :
         \E i \in 1..answered : context[i] = <<t, r>>

(* A redirection is a licence for one cancellation (consumeExternalSteering *)
(* in fleet.ts): additive messages and the fleet's own post give none.     *)
CancellationsLicensed ==
  stops + (IF licence THEN 1 ELSE 0) <= Cardinality(Redirections \cap Said)

(* Parallel dispatches of one turn cannot race past maxDispatches          *)
(* (task-tool.ts, "Reserve before awaiting").                              *)
DispatchesBounded == started <= MaxDispatches

(* The fleet's books: every entry in its type, and the budget kept.        *)
FleetBooks == FleetTypeOK /\ DispatchesBounded

(* The coordinator ends: nothing it waits for can hold it for good.        *)
CoordinatorEnds == <>(pc = "done")

(* Every dispatched task is eventually reported, whatever became of the    *)
(* parent.                                                                 *)
TasksSettle == \A t \in Tasks : (entry[t] = "running") ~> (entry[t] \in FinalStatus)

(* Nobody waits for ever: neither the parent for its tasks nor the entry   *)
(* of a task for its child.                                                *)
EveryoneSettles == CoordinatorEnds /\ TasksSettle

(* The composed run is still an agent run: the fleet's post goes through   *)
(* the same contract as the user's words.                                  *)
ImplementsContractWithFleet == Contract!Spec
=============================================================================
