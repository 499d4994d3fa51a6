------------------------------ MODULE GoalLoop ------------------------------
(***************************************************************************)
(* The goal loop of one conversation: after a top-level run completes, a   *)
(* judge reads its closing message and the runtime starts the next run by  *)
(* itself until the objective is met, the judge asks for the user, or the  *)
(* turn budget is spent.  The pieces are GoalLoop.afterRun, the runtime's  *)
(* start and #driveGoal, the goal row in storage, and the desktop backend, *)
(* which adopts continuations so that a message of the user can preempt    *)
(* them.                                                                   *)
(*                                                                         *)
(* The judge is a model call: afterRun reads the budget and the goal       *)
(* before it and writes both after it, by conversation, so anything may    *)
(* have happened to either in between.  A user's message is answered in    *)
(* two steps as well: the continuation is preempted first, the run starts  *)
(* after the awaits that prepare it.                                       *)
(***************************************************************************)
EXTENDS Naturals, FiniteSets

CONSTANTS
  Runs,          \* run records; one is used again once its run is over
  NoRun,
  MaxTurns,      \* settings.maxTurns
  MaxMessages,   \* bound: messages the user sends
  MaxEdits       \* bound: goals the user creates, edits or clears

ASSUME GoalLoopAssumption ==
  /\ MaxTurns \in Nat \ {0} /\ MaxMessages \in Nat /\ MaxEdits \in Nat
  /\ NoRun \notin Runs
  /\ IsFiniteSet(Runs) /\ Cardinality(Runs) > MaxMessages

VARIABLES
  goal,       \* the goal row: its objective (a number, 0 for no row), its status
  spent,      \* GoalLoop.#spent
  run,        \* per run: who started it, how far it is, what the judge was given
  tracked,    \* #goalContinuations
  closing,    \* how far close() is
  sent,       \* messages sent so far
  edits,      \* objectives so far
  since,      \* continuations started since the budget last started over, up to
              \* one more than maxTurns
  newest,     \* the continuation started last
  lone        \* since then, nothing happened to the budget behind a judge's back

boundVars == <<sent, edits>>
vars == <<goal, spent, run, tracked, closing, boundVars, since, newest, lone>>

Status == {"none", "active", "paused", "completed"}
Free == [by |-> "nobody", at |-> "free", cancelled |-> FALSE, used |-> 0]

Running(r) == run[r].at = "running"
Judging(r) == run[r].at = "judging"
Continuation(r) == run[r].by = "loop"
Judges == {r \in Runs : Judging(r)}

TypeOK ==
  /\ goal \in [objective : 0..(MaxMessages + MaxEdits), status : Status]
  /\ (goal.objective = 0) = (goal.status = "none")
  /\ spent \in 0..MaxTurns
  /\ run \in [Runs -> [by : {"nobody", "user", "loop"},
                       at : {"free", "preparing", "running", "judging"},
                       cancelled : BOOLEAN,
                       used : 0..MaxTurns]]
  /\ tracked \in Runs \cup {NoRun}
  /\ closing \in {"open", "closing", "cancelled"}
  /\ sent \in 0..MaxMessages /\ edits \in 0..(MaxMessages + MaxEdits)
  /\ since \in 0..(MaxTurns + 1)
  /\ newest \in Runs \cup {NoRun}
  /\ lone \in BOOLEAN

Init ==
  /\ goal = [objective |-> 0, status |-> "none"]
  /\ spent = 0
  /\ run = [r \in Runs |-> Free]
  /\ tracked = NoRun
  /\ closing = "open"
  /\ sent = 0 /\ edits = 0
  /\ since = 0 /\ newest = NoRun /\ lone = TRUE

-----------------------------------------------------------------------------
(* The goal row.                                                           *)

SetStatus(status) ==
  goal' = IF goal.status = "none" THEN goal ELSE [goal EXCEPT !.status = status]

NewGoal ==
  /\ edits' = edits + 1
  /\ goal' = [objective |-> edits + 1, status |-> "active"]

(* The user's goal commands, while the window can still send them.         *)
GoalCommand ==
  /\ closing # "cancelled"
  /\ UNCHANGED <<spent, run, tracked, closing, sent, since, newest, lone>>

CreateGoal ==
  /\ GoalCommand
  /\ edits < MaxMessages + MaxEdits
  /\ goal.status \in {"none", "completed"}
  /\ NewGoal

EditGoal ==
  /\ GoalCommand
  /\ edits < MaxMessages + MaxEdits
  /\ goal.status # "none"
  /\ edits' = edits + 1
  /\ goal' = [goal EXCEPT !.objective = edits + 1]

ClearGoal ==
  /\ GoalCommand
  /\ goal.status # "none"
  /\ goal' = [objective |-> 0, status |-> "none"]
  /\ UNCHANGED edits

(* Pause and resume, by the user or by the agent's update_goal tool.       *)
PauseOrResume(status) ==
  /\ GoalCommand
  /\ goal.status \notin {"none", status}
  /\ SetStatus(status)
  /\ UNCHANGED edits

-----------------------------------------------------------------------------
(* The budget.                                                             *)

(* A mutated form: the counter is kept.                                    *)
ResetForgotten ==
  /\ spent' = spent
  /\ since' = 0

ResetBudget ==
  /\ spent' = 0
  /\ since' = 0

BudgetSpent == spent >= MaxTurns

-----------------------------------------------------------------------------
(* Runs the user starts.                                                   *)

(* #preemptGoalContinuation                                                *)
Preempted == [r \in Runs |-> IF r = tracked THEN [run[r] EXCEPT !.cancelled = TRUE] ELSE run[r]]

(* The first half of #startLocalRun.                                       *)
UserSends(r) ==
  /\ closing # "cancelled"
  /\ sent < MaxMessages
  /\ run[r] = Free
  /\ sent' = sent + 1
  /\ tracked' = NoRun
  /\ run' = [Preempted EXCEPT ![r] = [Free EXCEPT !.by = "user", !.at = "preparing"]]
  /\ UNCHANGED <<goal, spent, closing, edits, since, newest, lone>>

(* Preparing the run throws: no runtime, no computer.                      *)
PrepareFails(r) ==
  /\ run[r].at = "preparing"
  /\ run' = [run EXCEPT ![r] = Free]
  /\ UNCHANGED <<goal, spent, tracked, closing, boundVars, since, newest, lone>>

(* The second half of #startLocalRun and the runtime's start.  The message *)
(* may ask for a paused goal to be resumed, or be a goal itself, which     *)
(* replaces an unfinished one.                                             *)
RunStarts(r) ==
  /\ run[r].at = "preparing"
  /\ run' = [run EXCEPT ![r].at = "running"]
  /\ ResetBudget
  /\ lone' = (Judges = {})
  /\ \/ UNCHANGED <<goal, edits>>
     \/ goal.status = "paused" /\ SetStatus("active") /\ UNCHANGED edits
     \/ edits < MaxMessages + MaxEdits /\ NewGoal
  /\ UNCHANGED <<tracked, closing, sent, newest>>

(* The user stops one run.                                                 *)
CancelRun(r) ==
  /\ closing # "cancelled"
  /\ Running(r)
  /\ run' = [run EXCEPT ![r].cancelled = TRUE]
  /\ UNCHANGED <<goal, spent, tracked, closing, boundVars, since, newest, lone>>

-----------------------------------------------------------------------------
(* A run settles: #forwardEvents lets go of it, and #driveGoal looks at it *)
(* when it completed.                                                      *)

(* A mutated form: any run's end empties #goalContinuations.               *)
LetGoOfAny(r) == tracked' = NoRun

LetGo(r) == tracked' = IF tracked = r THEN NoRun ELSE tracked

(* Failed or cancelled: the loop stops here.                               *)
RunEnds(r) ==
  /\ Running(r)
  /\ run' = [run EXCEPT ![r] = Free]
  /\ LetGo(r)
  /\ UNCHANGED <<goal, spent, closing, boundVars, since, newest, lone>>

(* Completed, which a cancellation that comes after the last model call    *)
(* does not prevent: afterRun up to the call of the judge.                 *)
RunCompletes(r) ==
  /\ Running(r)
  /\ LetGo(r)
  /\ \/ /\ goal.status # "active"
        /\ run' = [run EXCEPT ![r] = Free]
        /\ UNCHANGED <<goal, lone>>
     \/ /\ goal.status = "active" /\ BudgetSpent
        /\ run' = [run EXCEPT ![r] = Free]
        /\ SetStatus("paused")
        /\ UNCHANGED lone
     \/ /\ goal.status = "active" /\ ~BudgetSpent
        /\ run' = [run EXCEPT ![r].at = "judging", ![r].used = spent]
        /\ lone' = (lone /\ Judges = {})
        /\ UNCHANGED goal
  /\ UNCHANGED <<spent, closing, boundVars, since, newest>>

-----------------------------------------------------------------------------
(* The judge answers.  Whatever it says is applied to the conversation's   *)
(* goal as it is now.                                                      *)

VerdictDone(r) ==
  /\ Judging(r)
  /\ SetStatus("completed")
  /\ ResetBudget
  /\ lone' = (Judges = {r})
  /\ run' = [run EXCEPT ![r] = Free]
  /\ UNCHANGED <<tracked, closing, boundVars, newest>>

(* The verdict of a judge that failed as well.  Pausing a goal that was    *)
(* cleared in the meantime throws, and the error is only logged.           *)
VerdictWait(r) ==
  /\ Judging(r)
  /\ SetStatus("paused")
  /\ run' = [run EXCEPT ![r] = Free]
  /\ UNCHANGED <<spent, tracked, closing, boundVars, since, newest, lone>>

(* #trackGoalContinuation: a continuation the host adopts, or cancels when *)
(* it is closing.                                                          *)
Adopted == [Free EXCEPT !.by = "loop", !.at = "running", !.cancelled = closing # "open"]

(* A mutated form: the continuation is not charged to the budget.          *)
ChargeNothing(r) == spent' = run[r].used

(* this.#spent.set: one more than what was spent before the judge.         *)
Charge(r) == spent' = run[r].used + 1

(* The next run c starts.  It takes no notice of what became of the goal.  *)
VerdictContinue(r, c) ==
  /\ Judging(r)
  /\ run[c] = Free
  /\ Charge(r)
  /\ run' = [run EXCEPT ![r] = Free, ![c] = Adopted]
  /\ tracked' = IF closing = "open" THEN c ELSE tracked
  /\ since' = IF since > MaxTurns THEN since ELSE since + 1
  /\ newest' = c
  /\ UNCHANGED <<goal, closing, boundVars, lone>>

-----------------------------------------------------------------------------
(* close(): first the flag, then, some awaits later, every run the host    *)
(* knows of is cancelled and the window's handlers are removed.            *)

CloseBegins ==
  /\ closing = "open"
  /\ closing' = "closing"
  /\ UNCHANGED <<goal, spent, run, tracked, boundVars, since, newest, lone>>

CloseCancels ==
  /\ closing = "closing"
  /\ closing' = "cancelled"
  /\ run' = [r \in Runs |-> IF Running(r) THEN [run[r] EXCEPT !.cancelled = TRUE] ELSE run[r]]
  /\ UNCHANGED <<goal, spent, tracked, boundVars, since, newest, lone>>

(* The process ends, in the course of close() or not, and is started       *)
(* again: the goal row is all that is left.                                *)
Restart ==
  /\ spent' = 0 /\ since' = 0 /\ lone' = TRUE
  /\ run' = [r \in Runs |-> Free]
  /\ tracked' = NoRun /\ newest' = NoRun
  /\ closing' = "open"
  /\ UNCHANGED <<goal, boundVars>>

-----------------------------------------------------------------------------
Prepared(r) == RunStarts(r) \/ PrepareFails(r)
Settles(r) == RunEnds(r) \/ RunCompletes(r)
Judged(r) ==
  \/ VerdictDone(r)
  \/ VerdictWait(r)
  \/ \E c \in Runs \ {r} : VerdictContinue(r, c)

Next ==
  \/ CreateGoal
  \/ EditGoal
  \/ ClearGoal
  \/ \E status \in {"active", "paused"} : PauseOrResume(status)
  \/ \E r \in Runs : UserSends(r) \/ CancelRun(r) \/ Prepared(r) \/ Settles(r) \/ Judged(r)
  \/ CloseBegins
  \/ CloseCancels
  \/ Restart

(* A run ends (AgentRun shows when), a judge answers, and what prepares a  *)
(* run settles.                                                            *)
Fairness ==
  \A r \in Runs : WF_vars(Prepared(r)) /\ WF_vars(Settles(r)) /\ WF_vars(Judged(r))

Spec == Init /\ [][Next]_vars /\ Fairness

-----------------------------------------------------------------------------
(* The budget is exact: unless a judge was at work while another run was   *)
(* handed to it or the budget started over, what is spent is the number of *)
(* continuations the loop started since, and never more than maxTurns.     *)
BudgetExact == lone => spent = since /\ since <= MaxTurns

(* What #goalContinuations names is a continuation that is still running,  *)
(* so a message of the user never cancels anything else.                   *)
TrackedIsLive == tracked # NoRun => Running(tracked) /\ Continuation(tracked)

(* The loop cannot run away from the user: the continuation it started     *)
(* last, while it runs and was not stopped, is the one the next message    *)
(* will preempt.                                                           *)
NewestIsTracked ==
  newest # NoRun /\ Running(newest) /\ Continuation(newest) /\ ~run[newest].cancelled
    => tracked = newest

(* Once close() has cancelled the runs it knew, no continuation is left    *)
(* that was not told to stop, although the judge may start one later.      *)
CloseReaches ==
  closing = "cancelled" => \A r \in Runs : Running(r) /\ Continuation(r) => run[r].cancelled

(* The host never loses sight of the loop: what the loop started last can  *)
(* be preempted by a message and is stopped by close().                    *)
LoopInHand == TypeOK /\ TrackedIsLive /\ NewestIsTracked /\ CloseReaches

(* The loop ends: when the user says nothing more, it does not go on for   *)
(* ever, whatever the judge answers and however often a goal is resumed.   *)
LoopEnds == <>[](\A r \in Runs : run[r] = Free)
=============================================================================
