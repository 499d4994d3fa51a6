------------------------------ MODULE AgentRun ------------------------------
(***************************************************************************)
(* One agent run: the loop of AgentRunner (packages/core/src/runner.ts),   *)
(* the control it shares with its host (packages/core/src/control.ts) and  *)
(* the host's callbacks as packages/agent/src/runtime.ts supplies them.    *)
(*                                                                         *)
(* An action is a stretch of code between two awaits.  The user steers and *)
(* cancels between any two of them.  What a message says, what a tool does *)
(* and what the model writes is abstracted to the branch it makes the loop *)
(* take.                                                                   *)
(***************************************************************************)
EXTENDS Naturals, Sequences

CONSTANTS Messages,        \* steering messages, each said at most once
          MaxTurns,        \* request.maxTurns, 0 when there is no limit
          ToolTurnBudget,  \* request.toolTurnBudget.maximum, 0 when absent
          RepairTurns,     \* remainingRepairTurns at the start (3 in the code)
          InferenceAttempts, \* INFERENCE_MAX_ATTEMPTS (3 in the code)
          QualityRepairs,  \* answers reviewFinal may send back (2 in the code)
          ModelTurns       \* bound: without a limit the model goes on calling
                           \* tools only while fewer turns than this were taken

ASSUME LimitsAssumption ==
  /\ MaxTurns \in Nat /\ ToolTurnBudget \in Nat /\ ModelTurns \in Nat
  /\ RepairTurns \in Nat /\ QualityRepairs \in Nat
  /\ InferenceAttempts \in Nat \ {0}

VARIABLES steering,    \* AgentRunControl.#steering
          accepting,   \* AgentRunControl.#acceptingSteering
          aborted,     \* AgentRunControl.signal.aborted
          revoked      \* request.signal.aborted, the caller's own signal

controlVars == <<steering, accepting, aborted, revoked>>

VARIABLES pc,               \* the await the run is suspended at
          turns,            \* turns
          allowRepair,      \* allowRepairTurn
          repairs,          \* remainingRepairTurns
          toolTurns,        \* toolTurns
          attempt,          \* attempt
          emptyRepair,      \* emptyFinalRepairIssued
          qualityRepairs,   \* the host's finalQualityRepairs
          completionRepair, \* the host's completionRepairIssued
          outcome,          \* the status of the result, "none" before
          error             \* the code of the result's error, "none" without

loopVars == <<turns, allowRepair, repairs, toolTurns, attempt>>
hostVars == <<emptyRepair, qualityRepairs, completionRepair>>
resultVars == <<outcome, error>>

VARIABLES accepted,    \* auxiliary: every message steer took, in order
          context,     \* the steering messages among context.messages
          answered     \* auxiliary: how many of them the latest turn was given

messageVars == <<accepted, context, answered>>

vars == <<controlVars, pc, loopVars, hostVars, resultVars, messageVars>>

Points == {"created", "starting", "loop", "context", "attempt", "streaming",
           "review", "tools", "beforeComplete", "sealing", "finishing", "done"}

-----------------------------------------------------------------------------
(* The control.                                                            *)

Said == {accepted[i] : i \in DOMAIN accepted}

(* steer(message): refused once cancelled or sealed.                       *)
Steer(m) ==
  /\ ~aborted
  /\ accepting
  /\ steering' = Append(steering, m)
  /\ accepted' = Append(accepted, m)
  /\ UNCHANGED <<accepting, aborted, revoked, context, answered>>

(* cancel(): aborts once.                                                  *)
Cancel ==
  /\ pc \notin {"created", "done"}
  /\ ~aborted
  /\ aborted' = TRUE
  /\ UNCHANGED <<steering, accepting, revoked, pc, loopVars, hostVars, resultVars, messageVars>>

(* The caller's own signal fires, perhaps before the run even started; the *)
(* control does not learn of it.                                           *)
Revoke ==
  /\ pc # "done"
  /\ ~revoked
  /\ revoked' = TRUE
  /\ UNCHANGED <<steering, accepting, aborted, pc, loopVars, hostVars, resultVars, messageVars>>

(* The signal the loop listens to: AbortSignal.any of the two.             *)
Stopped == aborted \/ revoked

(* A mutated form: messages drained while the answer was being written are *)
(* announced but not pushed to the context.                                *)
DrainNowhere(post) ==
  /\ steering' = <<>>
  /\ context' = context \o post
  /\ accepted' = accepted \o post
  /\ UNCHANGED <<accepting, aborted, revoked, answered>>

(* drainSteering(), pushed to the context with what else the host posts.   *)
DrainInto(post) ==
  /\ steering' = <<>>
  /\ context' = context \o steering \o post
  /\ accepted' = accepted \o post
  /\ UNCHANGED <<accepting, aborted, revoked, answered>>

-----------------------------------------------------------------------------
(* The ways a stretch of the loop ends.                                    *)

(* The catch clause: whatever was thrown, an aborted signal wins, and a    *)
(* run whose error is "aborted" counts as cancelled.                       *)
Throw(code) ==
  /\ pc' = "done"
  /\ error' = IF Stopped THEN "aborted" ELSE code
  /\ outcome' = IF Stopped \/ code = "aborted" THEN "cancelled" ELSE "failed"

(* What a failed stream throws: the provider's error, which may call       *)
(* itself aborted, or an exception of the adapter.                         *)
StreamThrows == \E code \in {"inference", "aborted", "internal"} : Throw(code)

(* `allowRepairTurn = true; continue`                                      *)
ContinueForRepair ==
  /\ pc' = "loop"
  /\ allowRepair' = TRUE
  /\ UNCHANGED <<turns, repairs, toolTurns, attempt, resultVars>>

Goto(point) == pc' = point /\ UNCHANGED resultVars

(* Bound: without a turn limit the model stops making work at ModelTurns.  *)
ModelMayGoOn == MaxTurns > 0 \/ turns < ModelTurns

(* A mutated form: the tool budget is overrun by one turn.                 *)
SynthesisLate == ToolTurnBudget > 0 /\ toolTurns > ToolTurnBudget

(* The turn is offered no tools: the budget is spent.                      *)
SynthesisOnly == ToolTurnBudget > 0 /\ toolTurns >= ToolTurnBudget

-----------------------------------------------------------------------------
(* #execute                                                                *)

(* A mutated form: a run cancelled before it starts returns without a      *)
(* result.                                                                 *)
StartQuietly ==
  /\ pc = "created"
  /\ ~Stopped
  /\ Goto("starting")
  /\ UNCHANGED <<controlVars, loopVars, hostVars, messageVars>>

(* Up to the events that announce the run.                                 *)
Start ==
  /\ pc = "created"
  /\ IF Stopped THEN Throw("aborted") ELSE Goto("starting")
  /\ UNCHANGED <<controlVars, loopVars, hostVars, messageVars>>

Announce ==
  /\ pc = "starting"
  /\ Goto("loop")
  /\ UNCHANGED <<controlVars, loopVars, hostVars, messageVars>>

(* The loop condition.                                                     *)
TurnAllowed ==
  \/ MaxTurns = 0
  \/ turns < MaxTurns
  \/ allowRepair /\ repairs > 0

(* A mutated form: repair turns are not counted down.                      *)
LoopHeadFreeRepairs ==
  /\ pc = "loop"
  /\ UNCHANGED hostVars
  /\ \/ /\ ~TurnAllowed
        /\ Throw("max_turns")
        /\ UNCHANGED <<controlVars, loopVars, messageVars>>
     \/ /\ TurnAllowed
        /\ allowRepair' = FALSE
        /\ turns' = turns + 1
        /\ attempt' = 0
        /\ DrainInto(<<>>)
        /\ Goto("context")
        /\ UNCHANGED <<toolTurns, repairs>>

(* One pass of the loop up to the drain of the steering queue.             *)
LoopHead ==
  /\ pc = "loop"
  /\ UNCHANGED hostVars
  /\ \/ /\ ~TurnAllowed
        /\ Throw("max_turns")
        /\ UNCHANGED <<controlVars, loopVars, messageVars>>
     \/ /\ TurnAllowed /\ Stopped
        /\ Throw("aborted")
        /\ UNCHANGED <<controlVars, loopVars, messageVars>>
     \/ /\ TurnAllowed /\ ~Stopped
        /\ repairs' = IF MaxTurns > 0 /\ turns >= MaxTurns THEN repairs - 1
                                                           ELSE repairs
        /\ allowRepair' = FALSE
        /\ turns' = turns + 1
        /\ attempt' = 0
        /\ DrainInto(<<>>)
        /\ Goto("context")
        /\ UNCHANGED toolTurns

(* transformContext returns what the turn sends, or the compaction throws. *)
TransformContext ==
  /\ pc = "context"
  /\ \/ /\ answered' = Len(context)
        /\ Goto("attempt")
     \/ /\ Throw("internal")
        /\ UNCHANGED answered
  /\ UNCHANGED <<controlVars, loopVars, hostVars, accepted, context>>

(* A mutated form: the retry loop does not look at the signal.             *)
AttemptRegardless ==
  /\ pc = "attempt"
  /\ Goto("streaming")
  /\ attempt' = attempt + 1
  /\ UNCHANGED <<controlVars, turns, allowRepair, repairs, toolTurns, hostVars, messageVars>>

(* One pass of the retry loop up to the model call.                        *)
Attempt ==
  /\ pc = "attempt"
  /\ IF Stopped THEN Throw("aborted") /\ UNCHANGED attempt
                ELSE Goto("streaming") /\ attempt' = attempt + 1
  /\ UNCHANGED <<controlVars, turns, allowRepair, repairs, toolTurns, hostVars, messageVars>>

(* The stream fails: retried when the failure is retryable, nothing was    *)
(* shown yet and attempts remain; otherwise thrown.                        *)
StreamFails ==
  /\ pc = "streaming"
  /\ \/ attempt < InferenceAttempts /\ Goto("attempt")
     \/ StreamThrows
  /\ UNCHANGED <<controlVars, loopVars, hostVars, messageVars>>

(* The stream ends with neither text nor calls: asked again once.          *)
StreamEmpty ==
  /\ pc = "streaming"
  /\ emptyRepair' = TRUE
  /\ IF emptyRepair THEN Throw("inference") /\ UNCHANGED loopVars
                    ELSE ContinueForRepair
  /\ UNCHANGED <<controlVars, qualityRepairs, completionRepair, messageVars>>

(* The stream ends with tool calls: refused when the tool budget is spent. *)
StreamCalls ==
  /\ pc = "streaming"
  /\ ModelMayGoOn
  /\ IF SynthesisOnly THEN ContinueForRepair
                      ELSE Goto("tools") /\ UNCHANGED loopVars
  /\ UNCHANGED <<controlVars, hostVars, messageVars>>

(* The stream ends with a proposed answer.                                 *)
StreamText ==
  /\ pc = "streaming"
  /\ Goto("review")
  /\ UNCHANGED <<controlVars, loopVars, hostVars, messageVars>>

(* #executeTools: a failing, unknown or vetoed tool is a result like any   *)
(* other; only a cancelled run's tools throw.                              *)
ToolsDone ==
  /\ pc = "tools"
  /\ toolTurns' = toolTurns + 1
  /\ allowRepair' = (ToolTurnBudget > 0 /\ toolTurns + 1 >= ToolTurnBudget)
  /\ Goto("loop")
  /\ UNCHANGED <<controlVars, turns, repairs, attempt, hostVars, messageVars>>

ToolsThrow ==
  /\ pc = "tools"
  /\ Stopped
  /\ Throw("aborted")
  /\ UNCHANGED <<controlVars, loopVars, hostVars, messageVars>>

(* reviewFinal rejects the answer; the host gives up after two repairs.    *)
ReviewRejects ==
  /\ pc = "review"
  /\ IF qualityRepairs >= QualityRepairs
     THEN Throw("internal") /\ UNCHANGED <<loopVars, qualityRepairs>>
     ELSE ContinueForRepair /\ qualityRepairs' = qualityRepairs + 1
  /\ UNCHANGED <<controlVars, emptyRepair, completionRepair, messageVars>>

(* reviewFinal accepts the answer; the same stretch drains what was said   *)
(* while it was being written.                                             *)
ReviewAccepts ==
  /\ pc = "review"
  /\ IF steering # <<>>
     THEN DrainInto(<<>>) /\ ContinueForRepair
     ELSE Goto("beforeComplete") /\ UNCHANGED <<controlVars, messageVars, loopVars>>
  /\ UNCHANGED hostVars

(* beforeComplete, once the host has waited out its delegated work: the    *)
(* post it took, with the steering queue in front.                         *)
TakePost(post) ==
  /\ pc = "beforeComplete"
  /\ steering \o post # <<>>
  /\ DrainInto(post)
  /\ ContinueForRepair
  /\ UNCHANGED hostVars

(* beforeComplete finds an outcome missing from the answer: once per run.  *)
RepairCompletion ==
  /\ pc = "beforeComplete"
  /\ steering = <<>>
  /\ ~completionRepair
  /\ completionRepair' = TRUE
  /\ ContinueForRepair
  /\ UNCHANGED <<controlVars, emptyRepair, qualityRepairs, messageVars>>

(* beforeComplete has nothing to add.                                      *)
NothingOutstanding ==
  /\ pc = "beforeComplete"
  /\ steering = <<>>
  /\ Goto("sealing")
  /\ UNCHANGED <<controlVars, loopVars, hostVars, messageVars>>

(* A mutated form: the queue is not looked at when steering is sealed.     *)
SealAlways ==
  /\ pc = "sealing"
  /\ accepting' = FALSE
  /\ Goto("finishing")
  /\ UNCHANGED <<steering, aborted, revoked, loopVars, hostVars, messageVars>>

(* sealSteeringIfEmpty()                                                   *)
Seal ==
  /\ pc = "sealing"
  /\ IF steering # <<>>
     THEN ContinueForRepair /\ UNCHANGED accepting
     ELSE accepting' = FALSE /\ Goto("finishing") /\ UNCHANGED loopVars
  /\ UNCHANGED <<steering, aborted, revoked, hostVars, messageVars>>

(* The completed message and result.                                       *)
Finish ==
  /\ pc = "finishing"
  /\ pc' = "done"
  /\ outcome' = "completed"
  /\ UNCHANGED <<error, controlVars, loopVars, hostVars, messageVars>>

-----------------------------------------------------------------------------
Init ==
  /\ steering = <<>> /\ accepting = TRUE
  /\ aborted = FALSE /\ revoked = FALSE
  /\ pc = "created"
  /\ turns = 0 /\ allowRepair = FALSE /\ repairs = RepairTurns
  /\ toolTurns = 0 /\ attempt = 0
  /\ emptyRepair = FALSE /\ qualityRepairs = 0 /\ completionRepair = FALSE
  /\ outcome = "none" /\ error = "none"
  /\ accepted = <<>> /\ context = <<>> /\ answered = 0

(* The user speaks while the host has the run on its books.                *)
UserSteers ==
  /\ pc \notin {"created", "done"}
  /\ \E m \in Messages \ Said : Steer(m)
  /\ UNCHANGED <<pc, loopVars, hostVars, resultVars>>

BeforeComplete == TakePost(<<>>) \/ RepairCompletion \/ NothingOutstanding

(* Every step of the loop itself.                                          *)
RunnerStep ==
  \/ Start \/ Announce \/ LoopHead \/ TransformContext \/ Attempt
  \/ StreamFails \/ StreamEmpty \/ StreamCalls \/ StreamText
  \/ ToolsDone \/ ToolsThrow \/ ReviewRejects \/ ReviewAccepts
  \/ BeforeComplete \/ Seal \/ Finish

Next == RunnerStep \/ UserSteers \/ Cancel \/ Revoke

(* Every call the loop awaits settles: the model's stream ends, tools      *)
(* return, the host answers.                                               *)
Fairness == WF_vars(RunnerStep)

Spec == Init /\ [][Next]_vars /\ Fairness

-----------------------------------------------------------------------------
(* Every variable has the shape the code gives it; a turn never makes more *)
(* than InferenceAttempts model calls.                                     *)
TypeOK ==
  /\ steering \in Seq(Messages) /\ accepting \in BOOLEAN
  /\ aborted \in BOOLEAN /\ revoked \in BOOLEAN
  /\ pc \in Points
  /\ turns \in Nat /\ allowRepair \in BOOLEAN /\ repairs \in 0..RepairTurns
  /\ toolTurns \in Nat /\ attempt \in 0..InferenceAttempts
  /\ emptyRepair \in BOOLEAN /\ completionRepair \in BOOLEAN
  /\ qualityRepairs \in 0..QualityRepairs
  /\ outcome \in {"none", "completed", "failed", "cancelled"}
  /\ error \in {"none", "aborted", "inference", "max_turns", "internal"}
  /\ accepted \in Seq(Messages) /\ context \in Seq(Messages)
  /\ answered \in Nat

(* No message the control accepted is lost, doubled or reordered: each is  *)
(* in the context or still queued, in the order steer took them, whichever *)
(* of the three drains (turn start, late, takePost) moved it.              *)
SteeringConserved == accepted = context \o steering

(* "Seal and completion are one synchronous boundary" (runner.ts): when    *)
(* the control is sealed, every accepted message has been put to the model *)
(* in a turn, so none can be sitting in the context of a run that ended    *)
(* before reading it.                                                      *)
SealedAnswersAll ==
  ~accepting => steering = <<>> /\ answered = Len(accepted)

(* A limited run takes at most MaxTurns turns and RepairTurns repair turns *)
(* (remainingRepairTurns), however answers, tool budget and steering       *)
(* alternate.                                                              *)
TurnsBounded == MaxTurns > 0 => turns <= MaxTurns + RepairTurns

(* Tools run in at most ToolTurnBudget turns of a bounded task, also when  *)
(* repair turns follow the synthesis turn.                                 *)
ToolTurnsBounded == ToolTurnBudget > 0 => toolTurns <= ToolTurnBudget

(* A cancelled run starts no further turn and makes no further model call  *)
(* (throwIfAborted at the loop head and in the retry loop).                *)
NoTurnAfterCancel == [][Stopped => turns' = turns /\ attempt' = attempt]_vars

(* A run with a turn limit ends, whatever the model answers and whenever   *)
(* it is cancelled: the catch clause always produces a result.             *)
RunEnds == <>(pc = "done")

(* The promise to whoever steers the run.                                  *)
Contract == INSTANCE RunContract WITH open <- accepting
ImplementsRunContract == Contract!Spec
=============================================================================
