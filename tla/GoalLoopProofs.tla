--------------------------- MODULE GoalLoopProofs ---------------------------
(***************************************************************************)
(* Proofs about the goal loop for every set of runs, every turn budget and *)
(* every number of messages and edits.  The turn budget is read before the *)
(* judge is asked and written after it, so that it is exact is an argument *)
(* about the judges at work: while nothing happened behind a judge's back  *)
(* there is one at most, and what it was given is what is still spent.     *)
(***************************************************************************)
EXTENDS GoalLoop, TLAPS

RunRecord == [by : {"nobody", "user", "loop"},
              at : {"free", "preparing", "running", "judging"},
              cancelled : BOOLEAN,
              used : 0..MaxTurns]

(* A judge is only asked while there is budget left.                       *)
JudgesHaveBudget == \A r \in Runs : Judging(r) => run[r].used < MaxTurns

(* Only a message of the user is prepared.                                 *)
PreparedForUser == \A r \in Runs : run[r].at = "preparing" => run[r].by = "user"

(* With nothing behind its back, a judge is alone and holds what is spent. *)
LoneJudge ==
  lone => /\ spent = since /\ since <= MaxTurns
          /\ \A r \in Runs : Judging(r) => run[r].used = spent
          /\ \A r, q \in Runs : Judging(r) /\ Judging(q) => r = q

IInv ==
  /\ TypeOK /\ JudgesHaveBudget /\ PreparedForUser /\ LoneJudge
  /\ TrackedIsLive /\ NewestIsTracked /\ CloseReaches

-----------------------------------------------------------------------------
(* What a record is, field by field.                                       *)
LEMMA RunFields ==
  ASSUME TypeOK, NEW r \in Runs
  PROVE  /\ run[r] \in RunRecord
         /\ run[r].by \in {"nobody", "user", "loop"}
         /\ run[r].at \in {"free", "preparing", "running", "judging"}
         /\ run[r].cancelled \in BOOLEAN
         /\ run[r].used \in 0..MaxTurns
BY DEF TypeOK, RunRecord

(* A free record is a well-formed record of nobody's run.                  *)
LEMMA FreeRecord ==
  /\ Free \in RunRecord /\ Free.by = "nobody" /\ Free.at = "free"
  /\ Free.cancelled = FALSE /\ Free.used = 0
BY GoalLoopAssumption DEF Free, RunRecord

(* The conversation as the host opens it satisfies the invariant.          *)
LEMMA InitIInv == Init => IInv
<1> SUFFICES ASSUME Init PROVE IInv
  OBVIOUS
<1> USE GoalLoopAssumption
<1>1. \A r \in Runs : run[r] = Free
  BY DEF Init
<1>2. TypeOK
  <2>1. run \in [Runs -> RunRecord]
    BY FreeRecord DEF Init
  <2> QED BY <2>1 DEF Init, TypeOK, RunRecord, Status
<1>3. \A r \in Runs : ~Running(r) /\ ~Judging(r) /\ run[r].at # "preparing"
  BY <1>1, FreeRecord DEF Running, Judging
<1> QED BY <1>2, <1>3
        DEF Init, IInv, JudgesHaveBudget, PreparedForUser, LoneJudge, TrackedIsLive,
            NewestIsTracked, CloseReaches

(* Steps that touch no run and no budget.                                  *)
LEMMA GoalStepKeeps ==
  ASSUME IInv, TypeOK', UNCHANGED <<spent, run, tracked, closing, since, newest, lone>>
  PROVE  IInv'
BY DEF IInv, JudgesHaveBudget, PreparedForUser, LoneJudge, TrackedIsLive, NewestIsTracked,
       CloseReaches, Judging, Running, Continuation

(* The goal commands of the user.                                          *)
LEMMA GoalCommandsKeep ==
  IInv /\ (CreateGoal \/ EditGoal \/ ClearGoal
             \/ \E status \in {"active", "paused"} : PauseOrResume(status)) => IInv'
<1> USE GoalLoopAssumption
<1>1. ASSUME IInv, CreateGoal PROVE IInv'
  <2>1. TypeOK'
    BY <1>1 DEF CreateGoal, GoalCommand, NewGoal, IInv, TypeOK, Status
  <2> QED BY <1>1, <2>1, GoalStepKeeps DEF CreateGoal, GoalCommand
<1>2. ASSUME IInv, EditGoal PROVE IInv'
  <2>1. TypeOK'
    BY <1>2 DEF EditGoal, GoalCommand, IInv, TypeOK, Status
  <2> QED BY <1>2, <2>1, GoalStepKeeps DEF EditGoal, GoalCommand
<1>3. ASSUME IInv, ClearGoal PROVE IInv'
  <2>1. TypeOK'
    BY <1>3 DEF ClearGoal, GoalCommand, IInv, TypeOK, Status
  <2> QED BY <1>3, <2>1, GoalStepKeeps DEF ClearGoal, GoalCommand
<1>4. ASSUME IInv, NEW status \in {"active", "paused"}, PauseOrResume(status) PROVE IInv'
  <2>1. TypeOK'
    BY <1>4 DEF PauseOrResume, SetStatus, GoalCommand, IInv, TypeOK, Status
  <2> QED BY <1>4, <2>1, GoalStepKeeps DEF PauseOrResume, GoalCommand
<1> QED BY <1>1, <1>2, <1>3, <1>4

(* Setting the status of whatever goal there is keeps the goal row sound.  *)
LEMMA StatusKept ==
  ASSUME TypeOK, NEW status \in Status \ {"none"}, SetStatus(status)
  PROVE  /\ goal' \in [objective : 0..(MaxMessages + MaxEdits), status : Status]
         /\ (goal'.objective = 0) = (goal'.status = "none")
BY DEF TypeOK, SetStatus, Status

-----------------------------------------------------------------------------
(* Runs the user starts and stops.                                         *)

(* A message, a cancellation and the end of a preparation keep it.         *)
LEMMA UserStepsKeep ==
  ASSUME IInv, NEW r \in Runs, UserSends(r) \/ CancelRun(r) \/ Prepared(r)
  PROVE  IInv'
<1> USE GoalLoopAssumption
<1>0. TypeOK /\ run \in [Runs -> RunRecord]
  BY DEF IInv, TypeOK, RunRecord
<1>1. CASE UserSends(r)
  <2> DEFINE new == [Free EXCEPT !.by = "user", !.at = "preparing"]
  <2>1. new \in RunRecord /\ new.by = "user" /\ new.at = "preparing"
    BY FreeRecord DEF RunRecord
  <2>2. run[r].at = "free"
    BY <1>1, FreeRecord DEF UserSends
  <2> HIDE DEF new
  <2>3. run' = [Preempted EXCEPT ![r] = new]
    BY <1>1 DEF UserSends, new
  <2>4. /\ Preempted \in [Runs -> RunRecord]
        /\ \A q \in Runs : /\ Preempted[q].by = run[q].by /\ Preempted[q].at = run[q].at
                           /\ Preempted[q].used = run[q].used
                           /\ run[q].cancelled => Preempted[q].cancelled
                           /\ q = tracked => Preempted[q].cancelled
    BY <1>0 DEF Preempted, RunRecord
  <2>5. /\ run' \in [Runs -> RunRecord]
        /\ run'[r].at = "preparing" /\ run'[r].by = "user"
        /\ \A q \in Runs : q # r => run'[q] = Preempted[q]
    BY <2>1, <2>3, <2>4
  <2>6. TypeOK'
    <3>1. sent' = sent + 1 /\ sent < MaxMessages /\ tracked' = NoRun
          /\ UNCHANGED <<goal, spent, closing, edits, since, newest, lone>>
      BY <1>1 DEF UserSends
    <3>2. sent' \in 0..MaxMessages
      BY <1>0, <3>1 DEF TypeOK
    <3> QED BY <1>0, <2>5, <3>1, <3>2 DEF TypeOK, RunRecord
  <2>7. \A q \in Runs :
           q # r => run'[q].by = run[q].by /\ run'[q].at = run[q].at /\ run'[q].used = run[q].used
    BY <2>4, <2>5
  <2>8. /\ \A q \in Runs : Judging(q)' => Judging(q) /\ run'[q].used = run[q].used
        /\ JudgesHaveBudget' /\ PreparedForUser'
    <3>1. \A q \in Runs : Judging(q)' => Judging(q) /\ run'[q].used = run[q].used
      BY <2>5, <2>7 DEF Judging
    <3>2. JudgesHaveBudget'
      BY <3>1 DEF IInv, JudgesHaveBudget
    <3>3. PreparedForUser'
      BY <2>5, <2>7 DEF IInv, PreparedForUser
    <3> QED BY <3>1, <3>2, <3>3
  <2>9. LoneJudge'
    BY <1>1, <2>8 DEF UserSends, IInv, LoneJudge
  <2>10. \A q \in Runs : Running(q)' /\ Continuation(q)' =>
             /\ Running(q) /\ Continuation(q) /\ q # r
             /\ run[q].cancelled => run'[q].cancelled
             /\ q = tracked => run'[q].cancelled
    BY <2>4, <2>5, <2>7 DEF Running, Continuation
  <2>11. TrackedIsLive' /\ NewestIsTracked' /\ CloseReaches'
    <3>1. tracked' = NoRun /\ newest' = newest /\ closing' = closing
      BY <1>1 DEF UserSends
    <3>2. newest \in Runs \cup {NoRun}
      BY <1>0 DEF TypeOK
    <3> QED BY <2>10, <3>1, <3>2 DEF IInv, TrackedIsLive, NewestIsTracked, CloseReaches
  <2> QED BY <2>6, <2>8, <2>9, <2>11 DEF IInv
<1>2. ASSUME run' \in [Runs -> RunRecord],
             \A q \in Runs : q # r => run'[q] = run[q],
             ~Judging(r)', PreparedForUser', TypeOK',
             Running(r)' /\ Continuation(r)' =>
                 Running(r) /\ Continuation(r) /\ (run[r].cancelled => run'[r].cancelled),
             tracked = r => Running(r)' /\ Continuation(r)',
             UNCHANGED <<tracked, closing, newest>>,
             UNCHANGED <<spent, since, lone>> \/ (spent' = 0 /\ since' = 0 /\ lone' = (Judges = {}))
      PROVE  IInv'
  <2>1. \A q \in Runs : Judging(q)' => Judging(q) /\ run'[q].used = run[q].used
    BY <1>2 DEF Judging
  <2>2. JudgesHaveBudget'
    BY <2>1 DEF IInv, JudgesHaveBudget
  <2>3. LoneJudge'
    <3>1. CASE UNCHANGED <<spent, since, lone>>
      BY <2>1, <3>1 DEF IInv, LoneJudge
    <3>2. CASE spent' = 0 /\ since' = 0 /\ lone' = (Judges = {})
      <4>1. lone' => \A q \in Runs : ~Judging(q)'
        BY <2>1, <3>2, Zenon DEF Judges
      <4> QED BY <3>2, <4>1 DEF LoneJudge
    <3> QED BY <1>2, <3>1, <3>2
  <2>4. tracked \in Runs \cup {NoRun} /\ newest \in Runs \cup {NoRun}
    BY <1>0 DEF TypeOK
  <2>5. TrackedIsLive'
    BY <1>2, <2>4 DEF IInv, TrackedIsLive, Running, Continuation
  <2>6. NewestIsTracked'
    BY <1>2, <2>4 DEF IInv, NewestIsTracked, Running, Continuation
  <2>7. CloseReaches'
    BY <1>2 DEF IInv, CloseReaches, Running, Continuation
  <2> QED BY <1>2, <2>2, <2>3, <2>5, <2>6, <2>7 DEF IInv
<1>3. CASE CancelRun(r)
  <2>1. /\ run' \in [Runs -> RunRecord] /\ \A q \in Runs : q # r => run'[q] = run[q]
        /\ run'[r].by = run[r].by /\ run'[r].at = "running" /\ run[r].at = "running"
        /\ run'[r].cancelled = TRUE
    BY <1>0, <1>3 DEF CancelRun, Running, RunRecord
  <2>2. TypeOK'
    BY <1>0, <1>3, <2>1 DEF CancelRun, TypeOK, RunRecord, boundVars
  <2>3. PreparedForUser'
    BY <2>1 DEF IInv, PreparedForUser
  <2>4. ~Judging(r)' /\ Running(r)' /\ Running(r) /\ (Continuation(r)' = Continuation(r))
    BY <2>1 DEF Judging, Running, Continuation
  <2>5. tracked = r => Continuation(r)
    BY <1>0, GoalLoopAssumption DEF IInv, TrackedIsLive
  <2> QED BY <1>2, <1>3, <2>1, <2>2, <2>3, <2>4, <2>5 DEF CancelRun
<1>4. CASE PrepareFails(r)
  <2>1. /\ run' \in [Runs -> RunRecord] /\ \A q \in Runs : q # r => run'[q] = run[q]
        /\ run'[r].at = "free" /\ run[r].at = "preparing"
    BY <1>0, <1>4, FreeRecord DEF PrepareFails
  <2>2. TypeOK'
    BY <1>0, <1>4, <2>1 DEF PrepareFails, TypeOK, RunRecord, boundVars
  <2>3. PreparedForUser' /\ ~Judging(r)' /\ ~Running(r)'
    BY <2>1 DEF IInv, PreparedForUser, Judging, Running
  <2>4. tracked # r
    BY <2>1 DEF IInv, TrackedIsLive, Running
  <2> QED BY <1>2, <1>4, <2>1, <2>2, <2>3, <2>4 DEF PrepareFails
<1>5. CASE RunStarts(r)
  <2>1. /\ run' \in [Runs -> RunRecord] /\ \A q \in Runs : q # r => run'[q] = run[q]
        /\ run'[r].at = "running" /\ run'[r].by = run[r].by /\ run[r].at = "preparing"
    BY <1>0, <1>5 DEF RunStarts, RunRecord
  <2>2. run[r].by = "user"
    BY <2>1 DEF IInv, PreparedForUser
  <2>3. /\ goal' \in [objective : 0..(MaxMessages + MaxEdits), status : Status]
        /\ (goal'.objective = 0) = (goal'.status = "none")
        /\ edits' \in 0..(MaxMessages + MaxEdits)
    <3>1. CASE UNCHANGED <<goal, edits>>
      BY <1>0, <3>1 DEF TypeOK
    <3>2. CASE SetStatus("active") /\ UNCHANGED edits
      BY <1>0, <3>2, StatusKept DEF TypeOK, Status
    <3>3. CASE edits < MaxMessages + MaxEdits /\ NewGoal
      BY <1>0, <3>3 DEF TypeOK, NewGoal, Status
    <3> QED BY <1>5, <3>1, <3>2, <3>3 DEF RunStarts
  <2>4. lone' \in BOOLEAN /\ spent' = 0 /\ since' = 0
    BY <1>5 DEF RunStarts, ResetBudget
  <2>5. TypeOK'
    BY <1>0, <1>5, <2>1, <2>3, <2>4 DEF RunStarts, TypeOK, RunRecord
  <2>6. PreparedForUser' /\ ~Judging(r)' /\ ~Continuation(r)'
    BY <2>1, <2>2 DEF IInv, PreparedForUser, Judging, Continuation
  <2>7. tracked # r
    BY <2>1 DEF IInv, TrackedIsLive, Running
  <2> QED BY <1>2, <1>5, <2>1, <2>4, <2>5, <2>6, <2>7 DEF RunStarts
<1> QED BY <1>1, <1>3, <1>4, <1>5 DEF Prepared

-----------------------------------------------------------------------------
(* A run settles.                                                          *)

(* A run that settles, handed over to the judge or not, keeps it.          *)
LEMMA SettlesKeep ==
  ASSUME IInv, NEW r \in Runs, Settles(r)
  PROVE  IInv'
<1> USE GoalLoopAssumption
<1>0. TypeOK /\ run \in [Runs -> RunRecord] /\ run[r].at = "running"
  BY DEF IInv, TypeOK, RunRecord, Settles, RunEnds, RunCompletes, Running
<1>1. /\ tracked' = IF tracked = r THEN NoRun ELSE tracked
      /\ UNCHANGED <<spent, closing, boundVars, since, newest>>
  BY DEF Settles, RunEnds, RunCompletes, LetGo
<1>2. ASSUME run' \in [Runs -> RunRecord],
             \A q \in Runs : q # r => run'[q] = run[q],
             ~Running(r)', run'[r].at # "preparing", TypeOK'
      PROVE  PreparedForUser' /\ TrackedIsLive' /\ NewestIsTracked' /\ CloseReaches'
  <2>1. tracked \in Runs \cup {NoRun} /\ newest \in Runs \cup {NoRun}
    BY <1>0 DEF TypeOK
  <2>2. PreparedForUser'
    BY <1>2 DEF IInv, PreparedForUser
  <2>3. TrackedIsLive'
    BY <1>1, <1>2, <2>1 DEF IInv, TrackedIsLive, Running, Continuation
  <2>4. NewestIsTracked'
    BY <1>1, <1>2, <2>1 DEF IInv, NewestIsTracked, Running, Continuation
  <2>5. CloseReaches'
    BY <1>1, <1>2 DEF IInv, CloseReaches, Running, Continuation
  <2> QED BY <2>2, <2>3, <2>4, <2>5
<1>3. ASSUME run' = [run EXCEPT ![r] = Free], UNCHANGED lone,
             UNCHANGED goal \/ SetStatus("paused")
      PROVE  IInv'
  <2>1. /\ run' \in [Runs -> RunRecord] /\ \A q \in Runs : q # r => run'[q] = run[q]
        /\ run'[r].at = "free"
    BY <1>0, <1>3, FreeRecord
  <2>2. /\ goal' \in [objective : 0..(MaxMessages + MaxEdits), status : Status]
        /\ (goal'.objective = 0) = (goal'.status = "none")
    BY <1>0, <1>3, StatusKept DEF TypeOK, Status
  <2>3. TypeOK'
    BY <1>0, <1>1, <1>3, <2>1, <2>2 DEF TypeOK, RunRecord, boundVars
  <2>4. \A q \in Runs : Judging(q)' => Judging(q) /\ run'[q].used = run[q].used
    BY <2>1 DEF Judging
  <2>5. JudgesHaveBudget' /\ LoneJudge'
    BY <1>1, <1>3, <2>4 DEF IInv, JudgesHaveBudget, LoneJudge
  <2> QED BY <1>2, <2>1, <2>3, <2>5 DEF IInv, Running
<1>4. ASSUME run' = [run EXCEPT ![r].at = "judging", ![r].used = spent],
             ~BudgetSpent, lone' = (lone /\ Judges = {}), UNCHANGED goal
      PROVE  IInv'
  <2>1. spent \in Nat /\ spent < MaxTurns /\ spent \in 0..MaxTurns
    BY <1>0, <1>4 DEF TypeOK, BudgetSpent
  <2>2. /\ run' \in [Runs -> RunRecord] /\ \A q \in Runs : q # r => run'[q] = run[q]
        /\ run'[r].at = "judging" /\ run'[r].used = spent
    BY <1>0, <1>4, <2>1 DEF RunRecord
  <2>3. lone' \in BOOLEAN
    BY <1>0, <1>4 DEF TypeOK
  <2>4. TypeOK'
    BY <1>0, <1>1, <1>4, <2>2, <2>3 DEF TypeOK, RunRecord, boundVars
  <2>5. JudgesHaveBudget'
    BY <2>1, <2>2 DEF IInv, JudgesHaveBudget, Judging
  <2>6. lone' => lone /\ \A q \in Runs : q # r => ~Judging(q)'
    <3>1. lone' => lone /\ \A q \in Runs : ~Judging(q)
      BY <1>4, Zenon DEF Judges
    <3> QED BY <2>2, <3>1 DEF Judging
  <2>7. LoneJudge'
    BY <1>1, <2>2, <2>6 DEF IInv, LoneJudge
  <2> QED BY <1>2, <2>2, <2>4, <2>5, <2>7 DEF IInv, Running
<1> QED BY <1>3, <1>4 DEF Settles, RunEnds, RunCompletes

-----------------------------------------------------------------------------
(* The judge answers.                                                      *)

(* The judge's answer, which may start a continuation, keeps it.           *)
LEMMA JudgedKeeps ==
  ASSUME IInv, NEW r \in Runs, Judged(r)
  PROVE  IInv'
<1> USE GoalLoopAssumption
<1>0. TypeOK /\ run \in [Runs -> RunRecord] /\ run[r].at = "judging"
  BY DEF IInv, TypeOK, RunRecord, Judged, VerdictDone, VerdictWait, VerdictContinue, Judging
<1>1. tracked # r /\ tracked \in Runs \cup {NoRun} /\ newest \in Runs \cup {NoRun}
  BY <1>0 DEF IInv, TrackedIsLive, Running, TypeOK
<1>2. ASSUME run' = [run EXCEPT ![r] = Free], UNCHANGED <<tracked, closing, newest>>, TypeOK'
      PROVE  /\ PreparedForUser' /\ TrackedIsLive' /\ NewestIsTracked' /\ CloseReaches'
             /\ JudgesHaveBudget'
             /\ \A q \in Runs : Judging(q)' => q # r /\ Judging(q) /\ run'[q].used = run[q].used
  <2>1. run'[r].at = "free" /\ \A q \in Runs : q # r => run'[q] = run[q]
    BY <1>0, <1>2, FreeRecord
  <2>2. PreparedForUser'
    BY <2>1 DEF IInv, PreparedForUser
  <2>3. TrackedIsLive'
    BY <1>1, <1>2, <2>1 DEF IInv, TrackedIsLive, Running, Continuation
  <2>4. NewestIsTracked'
    BY <1>1, <1>2, <2>1 DEF IInv, NewestIsTracked, Running, Continuation
  <2>5. CloseReaches'
    BY <1>2, <2>1 DEF IInv, CloseReaches, Running, Continuation
  <2>6. \A q \in Runs : Judging(q)' => q # r /\ Judging(q) /\ run'[q].used = run[q].used
    BY <2>1 DEF Judging
  <2> QED BY <2>2, <2>3, <2>4, <2>5, <2>6 DEF IInv, JudgesHaveBudget
<1>3. CASE VerdictDone(r)
  <2>1. /\ run' = [run EXCEPT ![r] = Free] /\ lone' = (Judges = {r})
        /\ spent' = 0 /\ since' = 0 /\ SetStatus("completed")
        /\ UNCHANGED <<tracked, closing, boundVars, newest>>
    BY <1>3 DEF VerdictDone, ResetBudget
  <2>2. /\ goal' \in [objective : 0..(MaxMessages + MaxEdits), status : Status]
        /\ (goal'.objective = 0) = (goal'.status = "none")
    BY <1>0, <2>1, StatusKept DEF Status
  <2>3. run' \in [Runs -> RunRecord]
    BY <1>0, <2>1, FreeRecord
  <2>4. TypeOK'
    BY <1>0, <2>1, <2>2, <2>3 DEF TypeOK, RunRecord, boundVars
  <2>5. lone' => \A q \in Runs : Judging(q) => q = r
    BY <2>1, Zenon DEF Judges
  <2>6. LoneJudge'
    BY <1>2, <2>1, <2>4, <2>5 DEF LoneJudge
  <2> QED BY <1>2, <2>1, <2>4, <2>6 DEF IInv
<1>4. CASE VerdictWait(r)
  <2>1. /\ run' = [run EXCEPT ![r] = Free] /\ SetStatus("paused")
        /\ UNCHANGED <<spent, tracked, closing, boundVars, since, newest, lone>>
    BY <1>4 DEF VerdictWait
  <2>2. /\ goal' \in [objective : 0..(MaxMessages + MaxEdits), status : Status]
        /\ (goal'.objective = 0) = (goal'.status = "none")
    BY <1>0, <2>1, StatusKept DEF Status
  <2>3. run' \in [Runs -> RunRecord]
    BY <1>0, <2>1, FreeRecord
  <2>4. TypeOK'
    BY <1>0, <2>1, <2>2, <2>3 DEF TypeOK, RunRecord, boundVars
  <2>5. LoneJudge'
    BY <1>2, <2>1, <2>4 DEF IInv, LoneJudge
  <2> QED BY <1>2, <2>1, <2>4, <2>5 DEF IInv
<1>5. ASSUME NEW c \in Runs \ {r}, VerdictContinue(r, c) PROVE IInv'
  <2>1. /\ run' = [run EXCEPT ![r] = Free, ![c] = Adopted]
        /\ tracked' = IF closing = "open" THEN c ELSE tracked
        /\ since' = IF since > MaxTurns THEN since ELSE since + 1
        /\ newest' = c /\ spent' = run[r].used + 1
        /\ UNCHANGED <<goal, closing, boundVars, lone>>
        /\ run[c] = Free
    BY <1>5 DEF VerdictContinue, Charge
  <2>2. /\ Adopted \in RunRecord /\ Adopted.by = "loop" /\ Adopted.at = "running"
        /\ closing # "open" => Adopted.cancelled
    BY FreeRecord DEF Adopted, RunRecord
  <2>3. /\ run' \in [Runs -> RunRecord] /\ run'[r].at = "free" /\ run'[c] = Adopted
        /\ \A q \in Runs : q \notin {r, c} => run'[q] = run[q]
    BY <1>0, <2>1, <2>2, FreeRecord
  <2>4. run[c].at = "free" /\ tracked # c
    BY <2>1, FreeRecord DEF IInv, TrackedIsLive, Running
  <2>5. run[r].used \in 0..MaxTurns /\ run[r].used < MaxTurns
    BY <1>0 DEF IInv, JudgesHaveBudget, Judging, RunRecord
  <2>6. TypeOK'
    <3>1. spent' \in 0..MaxTurns
      BY <2>1, <2>5
    <3>2. since' \in 0..(MaxTurns + 1)
      BY <1>0, <2>1 DEF TypeOK
    <3> QED BY <1>0, <2>1, <2>3, <3>1, <3>2 DEF TypeOK, RunRecord, boundVars
  <2>7. \A q \in Runs : Judging(q)' => q # r /\ Judging(q) /\ run'[q].used = run[q].used
    BY <2>2, <2>3 DEF Judging
  <2>8. JudgesHaveBudget' /\ PreparedForUser'
    <3>1. JudgesHaveBudget'
      BY <2>7 DEF IInv, JudgesHaveBudget
    <3>2. PreparedForUser'
      BY <2>2, <2>3 DEF IInv, PreparedForUser
    <3> QED BY <3>1, <3>2
  <2>9. LoneJudge'
    <3> SUFFICES ASSUME lone PROVE /\ spent' = since' /\ since' <= MaxTurns
                                   /\ \A q \in Runs : ~Judging(q)'
      BY <2>1 DEF LoneJudge
    <3>1. /\ spent = since /\ run[r].used = spent
          /\ \A q \in Runs : Judging(q) => q = r
      BY <1>0 DEF IInv, LoneJudge, Judging
    <3>2. spent' = since' /\ since' <= MaxTurns
      BY <1>0, <2>1, <2>5, <3>1 DEF TypeOK
    <3> QED BY <2>7, <3>1, <3>2
  <2>10. TrackedIsLive'
    BY <1>1, <2>1, <2>2, <2>3, <2>4 DEF IInv, TrackedIsLive, Running, Continuation
  <2>11. NewestIsTracked'
    BY <2>1, <2>2, <2>3 DEF NewestIsTracked
  <2>12. CloseReaches'
    BY <2>1, <2>2, <2>3 DEF IInv, CloseReaches, Running, Continuation
  <2> QED BY <2>6, <2>8, <2>9, <2>10, <2>11, <2>12 DEF IInv
<1> QED BY <1>3, <1>4, <1>5 DEF Judged

-----------------------------------------------------------------------------
(* close() and a new start of the process.                                 *)

(* Both halves of close() and the next start keep it.                      *)
LEMMA CloseAndRestartKeep ==
  IInv /\ (CloseBegins \/ CloseCancels \/ Restart) => IInv'
<1> SUFFICES ASSUME IInv, CloseBegins \/ CloseCancels \/ Restart PROVE IInv'
  OBVIOUS
<1> USE GoalLoopAssumption
<1>0. TypeOK /\ run \in [Runs -> RunRecord]
  BY DEF IInv, TypeOK, RunRecord
<1>1. CASE CloseBegins
  <2>1. TypeOK'
    BY <1>0, <1>1 DEF CloseBegins, TypeOK, boundVars
  <2> QED BY <1>1, <2>1 DEF CloseBegins, IInv, JudgesHaveBudget, PreparedForUser, LoneJudge,
             TrackedIsLive, NewestIsTracked, CloseReaches, Judging, Running, Continuation
<1>2. CASE CloseCancels
  <2>1. /\ run' \in [Runs -> RunRecord]
        /\ \A q \in Runs : run'[q].by = run[q].by
        /\ \A q \in Runs : run'[q].at = run[q].at
        /\ \A q \in Runs : run'[q].used = run[q].used
        /\ \A q \in Runs : run[q].at = "running" => run'[q].cancelled
    BY <1>0, <1>2 DEF CloseCancels, Running, RunRecord
  <2>2. UNCHANGED <<goal, spent, tracked, boundVars, since, newest, lone>> /\ closing' = "cancelled"
    BY <1>2 DEF CloseCancels
  <2>3. TypeOK'
    BY <1>0, <2>1, <2>2 DEF TypeOK, RunRecord, boundVars
  <2>4. JudgesHaveBudget' /\ PreparedForUser'
    BY <2>1 DEF IInv, JudgesHaveBudget, PreparedForUser, Judging
  <2>5. LoneJudge'
    BY <2>1, <2>2 DEF IInv, LoneJudge, Judging
  <2>6. tracked \in Runs \cup {NoRun} /\ newest \in Runs \cup {NoRun}
    BY <1>0 DEF TypeOK
  <2>7. TrackedIsLive'
    BY <2>1, <2>2, <2>6 DEF IInv, TrackedIsLive, Running, Continuation
  <2>8. NewestIsTracked' /\ CloseReaches'
    BY <2>1, <2>2, <2>6 DEF NewestIsTracked, CloseReaches, Running, Continuation
  <2> QED BY <2>3, <2>4, <2>5, <2>7, <2>8 DEF IInv
<1>3. CASE Restart
  <2>1. \A q \in Runs : run'[q] = Free
    BY <1>3 DEF Restart
  <2>2. run' \in [Runs -> RunRecord]
    BY <1>3, FreeRecord DEF Restart
  <2>3. TypeOK'
    BY <1>0, <1>3, <2>2 DEF Restart, TypeOK, RunRecord, boundVars
  <2>4. \A q \in Runs : ~Running(q)' /\ ~Judging(q)' /\ run'[q].at # "preparing"
    BY <2>1, FreeRecord DEF Running, Judging
  <2> QED BY <1>3, <2>3, <2>4 DEF Restart, IInv, JudgesHaveBudget, PreparedForUser, LoneJudge,
             TrackedIsLive, NewestIsTracked, CloseReaches
<1> QED BY <1>1, <1>2, <1>3

-----------------------------------------------------------------------------
(* The theorems.                                                           *)

(* Every step keeps the invariant.                                         *)
LEMMA NextIInv == IInv /\ [Next]_vars => IInv'
<1> SUFFICES ASSUME IInv, [Next]_vars PROVE IInv'
  OBVIOUS
<1>1. CASE UNCHANGED vars
  <2>1. TypeOK'
    BY <1>1 DEF vars, boundVars, IInv, TypeOK
  <2> QED BY <1>1, <2>1, GoalStepKeeps DEF vars
<1>2. CASE Next
  BY <1>2, GoalCommandsKeep, UserStepsKeep, SettlesKeep, JudgedKeeps, CloseAndRestartKeep DEF Next
<1> QED BY <1>1, <1>2

(* Hence it holds in every reachable state.                                *)
LEMMA SpecIInv == Spec => []IInv
<1>1. Init => IInv
  BY InitIInv
<1>2. IInv /\ [Next]_vars => IInv'
  BY NextIInv
<1> QED BY <1>1, <1>2, PTL DEF Spec

(* The turn budget is exact, for every maxTurns and any number of runs in  *)
(* parallel: as long as no judge was at work while another run was handed  *)
(* to one or the budget started over, what is spent is the number of runs  *)
(* the loop started since, and never more than maxTurns.                   *)
THEOREM BudgetIsExact == Spec => []BudgetExact
<1>1. IInv => BudgetExact
  BY DEF IInv, LoneJudge, BudgetExact
<1> QED BY <1>1, SpecIInv, PTL

(* The host never loses sight of the loop: #goalContinuations names a      *)
(* continuation that runs, the last one started is the one a message will  *)
(* preempt, and close() leaves none running that was not told to stop.     *)
THEOREM LoopStaysInHand == Spec => []LoopInHand
<1>1. IInv => LoopInHand
  BY DEF IInv, LoopInHand
<1> QED BY <1>1, SpecIInv, PTL
=============================================================================
