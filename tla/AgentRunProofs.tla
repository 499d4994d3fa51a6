--------------------------- MODULE AgentRunProofs ---------------------------
(***************************************************************************)
(* Proofs about AgentRun for every set of messages and every limit.  The   *)
(* inductive invariant adds to the properties what each await point knows: *)
(* from the moment a turn is sent until its answer is taken back, the turn *)
(* was given the whole context; repair turns are paid for out of a fixed   *)
(* purse; the retry loop is entered only with an attempt left; tools run   *)
(* only with budget left; and steering is closed only on the way out.      *)
(***************************************************************************)
EXTENDS AgentRun, TLAPS

(* A turn in flight, and all that follows it, was given the whole context. *)
AnsweredOK ==
  /\ answered <= Len(context)
  /\ pc \in {"attempt", "streaming", "review", "tools", "beforeComplete",
             "sealing", "finishing"}
       => answered = Len(context)

(* Turns taken and repair turns left never exceed the two limits together. *)
PurseOK == MaxTurns > 0 => turns + repairs <= MaxTurns + RepairTurns

(* A model call is only prepared while an attempt is left.                 *)
AttemptOK ==
  /\ pc = "context" => attempt = 0
  /\ pc = "attempt" => attempt < InferenceAttempts

(* Tools only run while the budget lasts.                                  *)
BudgetOK ==
  ToolTurnBudget > 0 =>
    /\ toolTurns <= ToolTurnBudget
    /\ pc = "tools" => toolTurns < ToolTurnBudget

(* Steering is closed exactly on the way from the seal to the result.      *)
SealOK ==
  /\ pc = "finishing" => ~accepting
  /\ ~accepting => /\ pc \in {"finishing", "done"}
                   /\ steering = <<>>
                   /\ answered = Len(context)

(* A result exists exactly when the run is done.                           *)
OutcomeOK == outcome = "none" <=> pc # "done"

IInv ==
  /\ TypeOK /\ SteeringConserved /\ AnsweredOK /\ PurseOK /\ AttemptOK
  /\ BudgetOK /\ SealOK /\ OutcomeOK

-----------------------------------------------------------------------------
(* Posting nothing changes nothing.                                        *)
LEMMA ConcatEmpty ==
  ASSUME NEW S, NEW s \in Seq(S)
  PROVE  s \o <<>> = s
  BY SMT

(* drainSteering with nothing else to post keeps every message in order.   *)
LEMMA DrainConserves ==
  ASSUME TypeOK, SteeringConserved, DrainInto(<<>>)
  PROVE  /\ accepted' = accepted /\ steering' = <<>>
         /\ context' = accepted /\ context' \in Seq(Messages)
         /\ SteeringConserved'
         /\ UNCHANGED <<accepting, aborted, revoked, answered>>
<1>1. context \o steering \in Seq(Messages)
  BY DEF TypeOK
<1>2. context' = context \o steering /\ accepted' = accepted
  BY <1>1, ConcatEmpty DEF DrainInto, TypeOK
<1> QED BY <1>1, <1>2, ConcatEmpty DEF DrainInto, SteeringConserved, TypeOK

(* The invariant holds when the run object is created.                     *)
LEMMA InitIInv == Init => IInv
<1> SUFFICES ASSUME Init PROVE IInv
  OBVIOUS
<1>1. <<>> \in Seq(Messages) /\ Len(<<>>) = 0 /\ <<>> \o <<>> = <<>>
  BY ConcatEmpty
<1>2. TypeOK
  <2>1. /\ steering \in Seq(Messages) /\ accepted \in Seq(Messages)
        /\ context \in Seq(Messages)
    BY <1>1 DEF Init
  <2>2. /\ turns \in Nat /\ repairs \in 0..RepairTurns /\ toolTurns \in Nat
        /\ attempt \in 0..InferenceAttempts /\ qualityRepairs \in 0..QualityRepairs
        /\ answered \in Nat
    BY LimitsAssumption DEF Init
  <2>3. /\ accepting \in BOOLEAN /\ aborted \in BOOLEAN /\ revoked \in BOOLEAN
        /\ allowRepair \in BOOLEAN /\ emptyRepair \in BOOLEAN
        /\ completionRepair \in BOOLEAN
    BY DEF Init
  <2>4. /\ pc \in Points
        /\ outcome \in {"none", "completed", "failed", "cancelled"}
        /\ error \in {"none", "aborted", "inference", "max_turns", "internal"}
    BY DEF Init, Points
  <2> QED BY <2>1, <2>2, <2>3, <2>4 DEF TypeOK
<1>3. SteeringConserved
  BY <1>1 DEF Init, SteeringConserved
<1>4. AnsweredOK /\ PurseOK /\ AttemptOK /\ BudgetOK /\ SealOK /\ OutcomeOK
  BY <1>1, LimitsAssumption
  DEF Init, AnsweredOK, PurseOK, AttemptOK, BudgetOK, SealOK, OutcomeOK
<1> QED BY <1>2, <1>3, <1>4 DEF IInv

(* The catch clause ends the run and moves nothing else, so it keeps the   *)
(* invariant from every point before the seal.                             *)
LEMMA ThrowIInv ==
  ASSUME IInv, pc \notin {"finishing", "done"},
         NEW code \in {"aborted", "inference", "max_turns", "internal"},
         Throw(code),
         UNCHANGED <<controlVars, loopVars, messageVars>>,
         emptyRepair' \in BOOLEAN, UNCHANGED <<qualityRepairs, completionRepair>>
  PROVE  IInv'
<1>1. /\ pc' = "done" /\ outcome' \in {"cancelled", "failed"}
      /\ error' \in {"aborted", code}
  BY DEF Throw
<1>2. UNCHANGED <<steering, accepting, aborted, revoked, turns, allowRepair,
                  repairs, toolTurns, attempt, accepted, context, answered>>
  BY DEF controlVars, loopVars, messageVars
<1>3. TypeOK'
  BY <1>1, <1>2 DEF IInv, TypeOK, Points
<1>4. SteeringConserved' /\ AnsweredOK' /\ PurseOK'
  BY <1>1, <1>2 DEF IInv, SteeringConserved, AnsweredOK, PurseOK
<1>5. AttemptOK' /\ BudgetOK' /\ SealOK' /\ OutcomeOK'
  BY <1>1, <1>2 DEF IInv, AttemptOK, BudgetOK, SealOK, OutcomeOK
<1> QED BY <1>3, <1>4, <1>5 DEF IInv

(* Going from one await to the next without touching queue or context.     *)
LEMMA GotoIInv ==
  ASSUME IInv, NEW point \in Points, Goto(point),
         pc \notin {"finishing", "done"},
         point \notin {"finishing", "done", "tools", "context", "attempt"},
         point \in {"streaming", "review", "beforeComplete", "sealing"}
           => answered = Len(context),
         turns' = turns /\ repairs' = repairs /\ toolTurns' = toolTurns,
         attempt' \in 0..InferenceAttempts, allowRepair' \in BOOLEAN,
         emptyRepair' \in BOOLEAN, completionRepair' \in BOOLEAN,
         qualityRepairs' \in 0..QualityRepairs,
         UNCHANGED <<controlVars, messageVars>>
  PROVE  IInv'
<1>1. pc' = point /\ UNCHANGED <<outcome, error>>
  BY DEF Goto, resultVars
<1>2. UNCHANGED <<steering, accepting, aborted, revoked, accepted, context, answered>>
  BY DEF controlVars, messageVars
<1>3. TypeOK'
  BY <1>1, <1>2 DEF IInv, TypeOK, Points
<1>4. SteeringConserved' /\ AnsweredOK' /\ PurseOK'
  BY <1>1, <1>2 DEF IInv, SteeringConserved, AnsweredOK, PurseOK, Points
<1>5. AttemptOK' /\ BudgetOK' /\ SealOK' /\ OutcomeOK'
  BY <1>1, <1>2 DEF IInv, AttemptOK, BudgetOK, SealOK, OutcomeOK, Points
<1> QED BY <1>3, <1>4, <1>5 DEF IInv

(* A drain that sends the run back to the loop for another turn.           *)
LEMMA DrainAgainIInv ==
  ASSUME IInv, pc \in {"review", "beforeComplete"},
         DrainInto(<<>>), ContinueForRepair, UNCHANGED hostVars
  PROVE  IInv'
<1>1. /\ accepted' = accepted /\ steering' = <<>>
      /\ context' = accepted /\ context' \in Seq(Messages)
      /\ SteeringConserved'
      /\ UNCHANGED <<accepting, aborted, revoked, answered>>
  BY DrainConserves DEF IInv
<1>2. /\ pc' = "loop" /\ allowRepair' = TRUE
      /\ UNCHANGED <<turns, repairs, toolTurns, attempt, outcome, error,
                     emptyRepair, qualityRepairs, completionRepair>>
  BY DEF ContinueForRepair, resultVars, hostVars
<1>3. TypeOK'
  BY <1>1, <1>2 DEF IInv, TypeOK, Points
<1>4. Len(context) <= Len(accepted)
  BY DEF IInv, TypeOK, SteeringConserved
<1>5. AnsweredOK'
  BY <1>1, <1>2, <1>4 DEF IInv, AnsweredOK, TypeOK
<1>6. PurseOK' /\ AttemptOK' /\ BudgetOK' /\ SealOK' /\ OutcomeOK'
  BY <1>1, <1>2 DEF IInv, PurseOK, AttemptOK, BudgetOK, SealOK, OutcomeOK
<1> QED BY <1>1, <1>3, <1>5, <1>6 DEF IInv

(* `continue` after asking for a repair turn.                              *)
LEMMA ContinueIInv ==
  ASSUME IInv, pc \notin {"finishing", "done"}, ContinueForRepair,
         emptyRepair' \in BOOLEAN, completionRepair' \in BOOLEAN,
         qualityRepairs' \in 0..QualityRepairs,
         UNCHANGED <<controlVars, messageVars>>
  PROVE  IInv'
<1>1. Goto("loop") /\ allowRepair' \in BOOLEAN
      /\ UNCHANGED <<turns, repairs, toolTurns, attempt>>
  BY DEF ContinueForRepair, Goto
<1>2. attempt' \in 0..InferenceAttempts /\ "loop" \in Points
  BY <1>1 DEF IInv, TypeOK, Points
<1> QED BY <1>1, <1>2, GotoIInv

-----------------------------------------------------------------------------
(* A pass through the loop head: the only place a turn is counted.         *)
LEMMA LoopHeadIInv == ASSUME IInv, LoopHead PROVE IInv'
<1>1. pc = "loop" /\ UNCHANGED <<emptyRepair, qualityRepairs, completionRepair>>
  BY DEF LoopHead, hostVars
<1>2. CASE /\ Throw("max_turns") \/ Throw("aborted")
           /\ UNCHANGED <<controlVars, loopVars, messageVars>>
  <2>1. emptyRepair' \in BOOLEAN
    BY <1>1 DEF IInv, TypeOK
  <2> QED BY <1>1, <1>2, <2>1, ThrowIInv
<1>3. CASE /\ TurnAllowed /\ ~Stopped
           /\ repairs' = IF MaxTurns > 0 /\ turns >= MaxTurns THEN repairs - 1
                                                              ELSE repairs
           /\ allowRepair' = FALSE
           /\ turns' = turns + 1
           /\ attempt' = 0
           /\ DrainInto(<<>>)
           /\ Goto("context")
           /\ UNCHANGED toolTurns
  <2>1. /\ accepted' = accepted /\ steering' = <<>>
        /\ context' = accepted /\ context' \in Seq(Messages)
        /\ SteeringConserved'
        /\ UNCHANGED <<accepting, aborted, revoked, answered>>
    BY <1>3, DrainConserves DEF IInv
  <2>2. pc' = "context" /\ UNCHANGED <<outcome, error>>
    BY <1>3 DEF Goto, resultVars
  <2>3. /\ turns' \in Nat /\ repairs' \in 0..RepairTurns
        /\ attempt' \in 0..InferenceAttempts
        /\ PurseOK'
    BY <1>3, LimitsAssumption DEF IInv, TypeOK, TurnAllowed, PurseOK
  <2>4. TypeOK'
    <3>1. allowRepair' \in BOOLEAN /\ toolTurns' = toolTurns /\ pc' \in Points
      BY <1>3, <2>2 DEF Points
    <3> QED BY <1>1, <2>1, <2>2, <2>3, <3>1 DEF IInv, TypeOK
  <2>5. Len(context) <= Len(accepted)
    BY DEF IInv, TypeOK, SteeringConserved
  <2>6. AnsweredOK'
    BY <2>1, <2>2, <2>5 DEF IInv, AnsweredOK, TypeOK
  <2>7. AttemptOK' /\ BudgetOK' /\ SealOK' /\ OutcomeOK'
    BY <1>1, <1>3, <2>1, <2>2 DEF IInv, AttemptOK, BudgetOK, SealOK, OutcomeOK
  <2> QED BY <2>1, <2>3, <2>4, <2>6, <2>7 DEF IInv
<1> QED BY <1>2, <1>3 DEF LoopHead

(* The turn is prepared: what it sends is the whole context.               *)
LEMMA TransformContextIInv == ASSUME IInv, TransformContext PROVE IInv'
<1>1. /\ pc = "context" /\ attempt = 0
      /\ UNCHANGED <<controlVars, loopVars, accepted, context, hostVars>>
  BY DEF TransformContext, IInv, AttemptOK
<1>2. CASE Throw("internal") /\ UNCHANGED answered
  <2>1. emptyRepair' \in BOOLEAN /\ UNCHANGED <<qualityRepairs, completionRepair>>
    BY <1>1 DEF IInv, TypeOK, hostVars
  <2> QED BY <1>1, <1>2, <2>1, ThrowIInv DEF messageVars
<1>3. CASE answered' = Len(context) /\ Goto("attempt")
  <2>1. /\ pc' = "attempt"
        /\ UNCHANGED <<steering, accepting, aborted, revoked, turns, allowRepair,
                       repairs, toolTurns, attempt, emptyRepair, qualityRepairs,
                       completionRepair, outcome, error, accepted, context>>
    BY <1>1, <1>3 DEF Goto, resultVars, controlVars, loopVars, hostVars
  <2>2. TypeOK'
    BY <1>3, <2>1 DEF IInv, TypeOK, Points
  <2>3. SteeringConserved' /\ AnsweredOK' /\ PurseOK'
    BY <1>3, <2>1 DEF IInv, TypeOK, SteeringConserved, AnsweredOK, PurseOK
  <2>4. AttemptOK' /\ BudgetOK' /\ SealOK' /\ OutcomeOK'
    BY <1>1, <1>3, <2>1, LimitsAssumption
    DEF IInv, AttemptOK, BudgetOK, SealOK, OutcomeOK
  <2> QED BY <2>2, <2>3, <2>4 DEF IInv
<1> QED BY <1>2, <1>3 DEF TransformContext

(* The retry loop and the model's stream.                                  *)
LEMMA StreamIInv ==
  ASSUME IInv,
         Attempt \/ StreamFails \/ StreamEmpty \/ StreamCalls \/ StreamText
  PROVE  IInv'
<1> USE DEF hostVars
<1>0. /\ emptyRepair \in BOOLEAN /\ completionRepair \in BOOLEAN
      /\ qualityRepairs \in 0..QualityRepairs /\ allowRepair \in BOOLEAN
      /\ attempt \in 0..InferenceAttempts
  BY DEF IInv, TypeOK
<1>00. "streaming" \in Points /\ "review" \in Points
  BY DEF Points
<1>1. CASE Attempt
  <2>1. pc = "attempt" /\ answered = Len(context) /\ attempt < InferenceAttempts
    BY <1>1 DEF Attempt, IInv, AnsweredOK, AttemptOK
  <2>2. CASE Stopped
    BY <1>0, <1>1, <2>1, <2>2, ThrowIInv DEF Attempt, loopVars
  <2>3. CASE ~Stopped
    <3>1. /\ attempt' = attempt + 1 /\ Goto("streaming")
          /\ UNCHANGED <<controlVars, turns, allowRepair, repairs, toolTurns,
                         hostVars, messageVars>>
      BY <1>1, <2>3 DEF Attempt
    <3>2. attempt' \in 0..InferenceAttempts
      BY <1>0, <2>1, <3>1, LimitsAssumption
    <3> QED BY <1>0, <1>00, <2>1, <3>1, <3>2, GotoIInv
  <2> QED BY <2>2, <2>3
<1>2. CASE StreamFails
  <2>1. pc = "streaming" /\ answered = Len(context)
    BY <1>2 DEF StreamFails, IInv, AnsweredOK
  <2>2. CASE StreamThrows
    BY <1>0, <1>2, <2>1, <2>2, ThrowIInv DEF StreamFails, StreamThrows
  <2>3. CASE attempt < InferenceAttempts /\ Goto("attempt")
    <3>1. /\ pc' = "attempt"
          /\ UNCHANGED <<steering, accepting, aborted, revoked, turns,
                         allowRepair, repairs, toolTurns, attempt, emptyRepair,
                         qualityRepairs, completionRepair, outcome, error,
                         accepted, context, answered>>
      BY <1>2, <2>3 DEF StreamFails, Goto, resultVars, controlVars, loopVars,
                        messageVars
    <3>2. TypeOK' /\ SteeringConserved' /\ AnsweredOK' /\ PurseOK'
      BY <2>1, <3>1
      DEF IInv, TypeOK, Points, SteeringConserved, AnsweredOK, PurseOK
    <3>3. AttemptOK' /\ BudgetOK' /\ SealOK' /\ OutcomeOK'
      BY <2>1, <2>3, <3>1 DEF IInv, AttemptOK, BudgetOK, SealOK, OutcomeOK
    <3> QED BY <3>2, <3>3 DEF IInv
  <2> QED BY <1>2, <2>2, <2>3 DEF StreamFails
<1>3. CASE StreamEmpty
  <2>1. pc = "streaming" /\ emptyRepair' \in BOOLEAN
        /\ UNCHANGED <<controlVars, qualityRepairs, completionRepair, messageVars>>
    BY <1>3 DEF StreamEmpty
  <2>2. CASE emptyRepair
    BY <1>3, <2>1, <2>2, ThrowIInv DEF StreamEmpty
  <2>3. CASE ~emptyRepair
    BY <1>0, <1>3, <2>1, <2>3, ContinueIInv DEF StreamEmpty
  <2> QED BY <2>2, <2>3
<1>4. CASE StreamCalls
  <2>1. pc = "streaming" /\ answered = Len(context)
        /\ UNCHANGED <<controlVars, hostVars, messageVars>>
    BY <1>4 DEF StreamCalls, IInv, AnsweredOK
  <2>2. CASE SynthesisOnly
    BY <1>0, <1>4, <2>1, <2>2, ContinueIInv DEF StreamCalls
  <2>3. CASE ~SynthesisOnly
    <3>1. /\ pc' = "tools"
          /\ UNCHANGED <<steering, accepting, aborted, revoked, turns,
                         allowRepair, repairs, toolTurns, attempt, emptyRepair,
                         qualityRepairs, completionRepair, outcome, error,
                         accepted, context, answered>>
      BY <1>4, <2>1, <2>3 DEF StreamCalls, Goto, resultVars, controlVars,
                              loopVars, messageVars
    <3>2. TypeOK' /\ SteeringConserved' /\ AnsweredOK' /\ PurseOK'
      BY <2>1, <3>1
      DEF IInv, TypeOK, Points, SteeringConserved, AnsweredOK, PurseOK
    <3>3. AttemptOK' /\ SealOK' /\ OutcomeOK'
      BY <2>1, <3>1 DEF IInv, AttemptOK, SealOK, OutcomeOK
    <3>4. BudgetOK'
      BY <2>3, <3>1, LimitsAssumption DEF IInv, TypeOK, BudgetOK, SynthesisOnly
    <3> QED BY <3>2, <3>3, <3>4 DEF IInv
  <2> QED BY <2>2, <2>3
<1>5. CASE StreamText
  <2>1. pc = "streaming" /\ answered = Len(context)
    BY <1>5 DEF StreamText, IInv, AnsweredOK
  <2> QED BY <1>0, <1>00, <1>5, <2>1, GotoIInv DEF StreamText, loopVars
<1> QED BY <1>1, <1>2, <1>3, <1>4, <1>5

(* Tools, the review of the answer and what beforeComplete asks for.       *)
LEMMA AnswerIInv ==
  ASSUME IInv,
         ToolsDone \/ ToolsThrow \/ ReviewRejects \/ ReviewAccepts \/ BeforeComplete
  PROVE  IInv'
<1> USE DEF hostVars
<1>0. /\ emptyRepair \in BOOLEAN /\ completionRepair \in BOOLEAN
      /\ qualityRepairs \in 0..QualityRepairs /\ allowRepair \in BOOLEAN
      /\ attempt \in 0..InferenceAttempts
  BY DEF IInv, TypeOK
<1>00. "beforeComplete" \in Points /\ "sealing" \in Points
  BY DEF Points
<1>1. CASE ToolsDone
  <2>1. /\ pc = "tools" /\ pc' = "loop" /\ toolTurns' = toolTurns + 1
        /\ allowRepair' \in BOOLEAN
        /\ UNCHANGED <<steering, accepting, aborted, revoked, turns, repairs,
                       attempt, emptyRepair, qualityRepairs, completionRepair,
                       outcome, error, accepted, context, answered>>
    BY <1>1 DEF ToolsDone, Goto, resultVars, controlVars, messageVars
  <2>2. TypeOK'
    BY <2>1 DEF IInv, TypeOK, Points
  <2>3. SteeringConserved' /\ AnsweredOK' /\ PurseOK'
    BY <2>1 DEF IInv, SteeringConserved, AnsweredOK, PurseOK
  <2>4. AttemptOK' /\ SealOK' /\ OutcomeOK'
    BY <2>1 DEF IInv, AttemptOK, SealOK, OutcomeOK
  <2>5. BudgetOK'
    BY <2>1, LimitsAssumption DEF IInv, TypeOK, BudgetOK
  <2> QED BY <2>2, <2>3, <2>4, <2>5 DEF IInv
<1>2. CASE ToolsThrow
  BY <1>0, <1>2, ThrowIInv DEF ToolsThrow
<1>3. CASE ReviewRejects
  <2>1. pc = "review"
        /\ UNCHANGED <<controlVars, emptyRepair, completionRepair, messageVars>>
    BY <1>3 DEF ReviewRejects
  <2>2. CASE qualityRepairs >= QualityRepairs
    BY <1>0, <1>3, <2>1, <2>2, ThrowIInv DEF ReviewRejects
  <2>3. CASE ~(qualityRepairs >= QualityRepairs)
    <3>1. qualityRepairs' \in 0..QualityRepairs /\ ContinueForRepair
      BY <1>0, <1>3, <2>3, LimitsAssumption DEF ReviewRejects
    <3> QED BY <1>0, <2>1, <3>1, ContinueIInv
  <2> QED BY <2>2, <2>3
<1>4. CASE ReviewAccepts
  <2>1. pc = "review" /\ answered = Len(context)
    BY <1>4 DEF ReviewAccepts, IInv, AnsweredOK
  <2>2. CASE steering # <<>>
    BY <1>4, <2>1, <2>2, DrainAgainIInv DEF ReviewAccepts
  <2>3. CASE steering = <<>>
    BY <1>0, <1>00, <1>4, <2>1, <2>3, GotoIInv DEF ReviewAccepts, loopVars
  <2> QED BY <2>2, <2>3
<1>5. CASE TakePost(<<>>)
  BY <1>5, DrainAgainIInv DEF TakePost
<1>6. CASE RepairCompletion
  BY <1>0, <1>6, ContinueIInv DEF RepairCompletion
<1>7. CASE NothingOutstanding
  <2>1. pc = "beforeComplete" /\ answered = Len(context)
    BY <1>7 DEF NothingOutstanding, IInv, AnsweredOK
  <2> QED BY <1>0, <1>00, <1>7, <2>1, GotoIInv DEF NothingOutstanding, loopVars
<1> QED BY <1>1, <1>2, <1>3, <1>4, <1>5, <1>6, <1>7 DEF BeforeComplete

(* The seal, and the result after it.                                      *)
LEMMA SealIInv == ASSUME IInv, Seal \/ Finish PROVE IInv'
<1>1. CASE Seal /\ steering # <<>>
  <2>1. /\ pc = "sealing" /\ ContinueForRepair
        /\ UNCHANGED <<controlVars, emptyRepair, qualityRepairs,
                       completionRepair, messageVars>>
    BY <1>1 DEF Seal, controlVars, hostVars
  <2> QED BY <2>1, ContinueIInv DEF IInv, TypeOK
<1>2. CASE Seal /\ steering = <<>>
  <2>1. /\ pc = "sealing" /\ pc' = "finishing" /\ accepting' = FALSE
        /\ UNCHANGED <<steering, aborted, revoked, turns, allowRepair, repairs,
                       toolTurns, attempt, emptyRepair, qualityRepairs,
                       completionRepair, outcome, error, accepted, context,
                       answered>>
    BY <1>2 DEF Seal, Goto, resultVars, loopVars, hostVars, messageVars
  <2>2. answered = Len(context) /\ accepting' \in BOOLEAN
    BY <2>1 DEF IInv, AnsweredOK
  <2>3. TypeOK'
    BY <2>1, <2>2 DEF IInv, TypeOK, Points
  <2>4. SteeringConserved' /\ AnsweredOK' /\ PurseOK' /\ AttemptOK' /\ BudgetOK'
    BY <2>1, <2>2
    DEF IInv, SteeringConserved, AnsweredOK, PurseOK, AttemptOK, BudgetOK
  <2>5. SealOK' /\ OutcomeOK'
    BY <1>2, <2>1, <2>2 DEF IInv, SealOK, OutcomeOK
  <2> QED BY <2>3, <2>4, <2>5 DEF IInv
<1>3. CASE Finish
  <2>1. /\ pc = "finishing" /\ pc' = "done" /\ outcome' = "completed"
        /\ UNCHANGED <<steering, accepting, aborted, revoked, turns,
                       allowRepair, repairs, toolTurns, attempt, emptyRepair,
                       qualityRepairs, completionRepair, error, accepted,
                       context, answered>>
    BY <1>3 DEF Finish, controlVars, loopVars, hostVars, messageVars
  <2>2. TypeOK'
    BY <2>1 DEF IInv, TypeOK, Points
  <2>3. SteeringConserved' /\ AnsweredOK' /\ PurseOK' /\ AttemptOK' /\ BudgetOK'
    BY <2>1
    DEF IInv, SteeringConserved, AnsweredOK, PurseOK, AttemptOK, BudgetOK
  <2>4. SealOK' /\ OutcomeOK'
    BY <2>1 DEF IInv, SealOK, OutcomeOK
  <2> QED BY <2>2, <2>3, <2>4 DEF IInv
<1> QED BY <1>1, <1>2, <1>3

(* A word that is taken goes to the end of the queue and of the record.    *)
LEMMA SteerIInv ==
  ASSUME IInv, NEW m \in Messages, Steer(m),
         UNCHANGED <<pc, loopVars, hostVars, resultVars>>
  PROVE  IInv'
<1>1. /\ accepting /\ steering' = Append(steering, m)
      /\ accepted' = Append(accepted, m)
      /\ UNCHANGED <<accepting, aborted, revoked, context, answered>>
  BY DEF Steer
<1>2. UNCHANGED <<pc, turns, allowRepair, repairs, toolTurns, attempt,
                  emptyRepair, qualityRepairs, completionRepair, outcome, error>>
  BY DEF loopVars, hostVars, resultVars
<1>3. TypeOK'
  BY <1>1, <1>2 DEF IInv, TypeOK
<1>4. SteeringConserved'
  <2>1. context \in Seq(Messages) /\ steering \in Seq(Messages)
    BY DEF IInv, TypeOK
  <2>2. accepted = context \o steering
    BY DEF IInv, SteeringConserved
  <2>3. Append(context \o steering, m) = context \o Append(steering, m)
    BY <2>1
  <2>4. accepted' = context' \o steering'
    BY <1>1, <2>2, <2>3
  <2> QED BY <2>4 DEF SteeringConserved
<1>5. AnsweredOK' /\ PurseOK' /\ AttemptOK' /\ BudgetOK' /\ SealOK' /\ OutcomeOK'
  BY <1>1, <1>2
  DEF IInv, AnsweredOK, PurseOK, AttemptOK, BudgetOK, SealOK, OutcomeOK
<1> QED BY <1>3, <1>4, <1>5 DEF IInv

(* What the user and the caller do between the run's own steps.            *)
LEMMA OutsideIInv == ASSUME IInv, UserSteers \/ Cancel \/ Revoke PROVE IInv'
<1>1. CASE UserSteers
  BY <1>1, SteerIInv DEF UserSteers
<1>2. CASE Cancel \/ Revoke
  <2>1. /\ aborted' \in BOOLEAN /\ revoked' \in BOOLEAN
        /\ UNCHANGED <<steering, accepting, pc, turns, allowRepair, repairs,
                       toolTurns, attempt, emptyRepair, qualityRepairs,
                       completionRepair, outcome, error, accepted, context,
                       answered>>
    BY <1>2 DEF Cancel, Revoke, IInv, TypeOK, loopVars, hostVars, resultVars,
                messageVars
  <2>2. TypeOK' /\ SteeringConserved'
    BY <2>1 DEF IInv, TypeOK, SteeringConserved
  <2>3. AnsweredOK' /\ PurseOK' /\ AttemptOK' /\ BudgetOK' /\ SealOK' /\ OutcomeOK'
    BY <2>1
    DEF IInv, AnsweredOK, PurseOK, AttemptOK, BudgetOK, SealOK, OutcomeOK
  <2> QED BY <2>2, <2>3 DEF IInv
<1> QED BY <1>1, <1>2

(* Every stretch of the loop and everything its host does keeps IInv.      *)
LEMMA NextIInv == IInv /\ [Next]_vars => IInv'
<1> SUFFICES ASSUME IInv, [Next]_vars PROVE IInv'
  OBVIOUS
<1>1. CASE Start \/ Announce
  <2>1. /\ pc \in {"created", "starting"}
        /\ Throw("aborted") \/ Goto("starting") \/ Goto("loop")
        /\ UNCHANGED <<controlVars, loopVars, hostVars, messageVars>>
    BY <1>1 DEF Start, Announce
  <2>2. UNCHANGED <<turns, allowRepair, repairs, toolTurns, attempt,
                    emptyRepair, qualityRepairs, completionRepair>>
    BY <2>1 DEF loopVars, hostVars
  <2>3. /\ emptyRepair \in BOOLEAN /\ completionRepair \in BOOLEAN
        /\ qualityRepairs \in 0..QualityRepairs /\ allowRepair \in BOOLEAN
        /\ attempt \in 0..InferenceAttempts
        /\ "starting" \in Points /\ "loop" \in Points
    BY DEF IInv, TypeOK, Points
  <2>4. CASE Throw("aborted")
    BY <2>1, <2>2, <2>3, <2>4, ThrowIInv
  <2>5. CASE Goto("starting")
    BY <2>1, <2>2, <2>3, <2>5, GotoIInv
  <2>6. CASE Goto("loop")
    BY <2>1, <2>2, <2>3, <2>6, GotoIInv
  <2> QED BY <2>1, <2>4, <2>5, <2>6
<1>2. CASE UNCHANGED vars
  BY <1>2 DEF vars, controlVars, loopVars, hostVars, resultVars, messageVars,
     IInv, TypeOK, SteeringConserved, AnsweredOK, PurseOK, AttemptOK, BudgetOK,
     SealOK, OutcomeOK
<1> QED
  BY <1>1, <1>2, LoopHeadIInv, TransformContextIInv, StreamIInv, AnswerIInv,
     SealIInv, OutsideIInv DEF Next, RunnerStep

(* The invariant holds in every reachable state.                           *)
LEMMA Invariance == Spec => []IInv
  BY InitIInv, NextIInv, PTL DEF Spec

-----------------------------------------------------------------------------
(* Every variable keeps its shape; in particular a turn never makes more   *)
(* than InferenceAttempts model calls (runner.ts, the retry loop).         *)
THEOREM TypeCorrect == Spec => []TypeOK
<1>1. IInv => TypeOK
  BY DEF IInv
<1> QED BY <1>1, Invariance, PTL

(* Accepted steering is never lost, doubled or reordered on its way from   *)
(* AgentRunControl.steer into the context, for any number of messages.     *)
THEOREM Conservation == Spec => []SteeringConserved
<1>1. IInv => SteeringConserved
  BY DEF IInv
<1> QED BY <1>1, Invariance, PTL

(* Whenever sealSteeringIfEmpty closed the control, every accepted message *)
(* had been put to the model.                                              *)
THEOREM SealHonest == Spec => []SealedAnswersAll
<1>1. IInv => SealedAnswersAll
  <2> SUFFICES ASSUME IInv, ~accepting
               PROVE  steering = <<>> /\ answered = Len(accepted)
    BY DEF SealedAnswersAll
  <2>1. steering = <<>> /\ answered = Len(context)
    BY DEF IInv, SealOK
  <2>2. accepted = context
    BY <2>1, ConcatEmpty DEF IInv, TypeOK, SteeringConserved
  <2> QED BY <2>1, <2>2
<1> QED BY <1>1, Invariance, PTL

(* A limited run takes at most MaxTurns + RepairTurns turns.               *)
THEOREM TurnLimit == Spec => []TurnsBounded
<1>1. IInv => TurnsBounded
  BY LimitsAssumption DEF IInv, TypeOK, PurseOK, TurnsBounded
<1> QED BY <1>1, Invariance, PTL

(* Tools run in at most ToolTurnBudget turns.                              *)
THEOREM ToolBudget == Spec => []ToolTurnsBounded
<1>1. IInv => ToolTurnsBounded
  BY DEF IInv, BudgetOK, ToolTurnsBounded
<1> QED BY <1>1, Invariance, PTL

(* Once cancelled, a run counts no further turn and makes no further model *)
(* call.                                                                   *)
THEOREM CancelStopsTurns == Spec => NoTurnAfterCancel
<1>1. [Next]_vars => [Stopped => turns' = turns /\ attempt' = attempt]_vars
  <2> SUFFICES ASSUME Next, Stopped PROVE turns' = turns /\ attempt' = attempt
    OBVIOUS
  <2> USE DEF loopVars, ContinueForRepair
  <2>1. CASE LoopHead
    BY <2>1 DEF LoopHead
  <2>2. CASE Attempt
    BY <2>2 DEF Attempt
  <2>3. CASE Start \/ Announce \/ TransformContext \/ StreamFails \/ StreamText
    BY <2>3 DEF Start, Announce, TransformContext, StreamFails, StreamText
  <2>4. CASE StreamEmpty \/ StreamCalls \/ ToolsDone \/ ToolsThrow
    BY <2>4 DEF StreamEmpty, StreamCalls, ToolsDone, ToolsThrow
  <2>5. CASE ReviewRejects \/ ReviewAccepts \/ BeforeComplete
    BY <2>5 DEF ReviewRejects, ReviewAccepts, BeforeComplete, TakePost,
                RepairCompletion, NothingOutstanding
  <2>6. CASE Seal \/ Finish \/ UserSteers \/ Cancel \/ Revoke
    BY <2>6 DEF Seal, Finish, UserSteers, Cancel, Revoke
  <2> QED BY <2>1, <2>2, <2>3, <2>4, <2>5, <2>6 DEF Next, RunnerStep
<1> QED BY <1>1, PTL DEF Spec, NoTurnAfterCancel

-----------------------------------------------------------------------------
(* A word the control takes is a word the contract accepts.                *)
LEMMA SteerAccepts ==
  ASSUME IInv, NEW m \in Messages, Steer(m), UNCHANGED outcome
  PROVE  Contract!Accept
<1>1. accepted \in Seq(Messages) /\ accepted' = Append(accepted, m)
  BY DEF IInv, TypeOK, Steer
<1>2. /\ accepted' \in Seq(Messages) /\ Len(accepted') > Len(accepted)
      /\ SubSeq(accepted', 1, Len(accepted)) = accepted
  BY <1>1
<1> QED BY <1>2 DEF Contract!Accept, Steer

(* Each stretch of the loop accepts a word, puts a prefix of the accepted  *)
(* words to the model, closes, ends or is a stutter of the contract.       *)
LEMMA ContractStep ==
  ASSUME IInv, [Next]_vars
  PROVE  [Contract!Next]_(Contract!contractVars)
<1> USE DEF Contract!contractVars
<1>0. ASSUME NEW code \in {"aborted", "inference", "max_turns", "internal"},
             Throw(code), pc # "done", UNCHANGED <<accepted, answered, accepting>>
      PROVE  Contract!Next
  <2>1. outcome = "none" /\ outcome' \in {"failed", "cancelled"}
    BY <1>0 DEF Throw, IInv, OutcomeOK
  <2> QED BY <1>0, <2>1 DEF Contract!Next, Contract!End
<1>1. CASE Start \/ Announce \/ StreamFails \/ StreamEmpty \/ StreamCalls
           \/ StreamText
  <2>1. /\ pc # "done" /\ UNCHANGED <<accepted, answered, accepting>>
        /\ \/ Throw("aborted") \/ Throw("inference") \/ Throw("internal")
           \/ UNCHANGED outcome
    BY <1>1 DEF StreamThrows, Start, Announce, StreamFails, StreamEmpty, StreamCalls,
       StreamText, Goto, ContinueForRepair, resultVars, controlVars, messageVars
  <2> QED BY <1>0, <2>1
<1>2. CASE LoopHead
  <2>1. CASE ~(TurnAllowed /\ ~Stopped)
    <3>1. /\ pc # "done" /\ UNCHANGED <<accepted, answered, accepting>>
          /\ Throw("aborted") \/ Throw("max_turns")
      BY <1>2, <2>1 DEF LoopHead, controlVars, messageVars
    <3> QED BY <1>0, <3>1
  <2>2. CASE TurnAllowed /\ ~Stopped
    <3>1. DrainInto(<<>>) /\ Goto("context")
      BY <1>2, <2>2 DEF LoopHead
    <3> QED BY <3>1, DrainConserves DEF Goto, resultVars, IInv
  <2> QED BY <2>1, <2>2
<1>3. CASE TransformContext
  <2>1. CASE Throw("internal") /\ UNCHANGED answered
    BY <1>0, <1>3, <2>1 DEF TransformContext, controlVars
  <2>2. CASE answered' = Len(context) /\ Goto("attempt")
    <3>1. /\ outcome = "none" /\ accepting
          /\ UNCHANGED <<accepted, accepting, outcome>>
      BY <1>3, <2>2 DEF TransformContext, Goto, resultVars, controlVars, IInv,
                        OutcomeOK, SealOK
    <3>2. answered' \in answered..Len(accepted)
      BY <2>2 DEF IInv, TypeOK, AnsweredOK, SteeringConserved
    <3> QED BY <3>1, <3>2 DEF Contract!Next, Contract!TakeTurn
  <2> QED BY <1>3, <2>1, <2>2 DEF TransformContext
<1>4. CASE Attempt \/ ToolsDone \/ ToolsThrow \/ ReviewRejects
  <2>1. /\ pc # "done" /\ UNCHANGED <<accepted, answered, accepting>>
        /\ Throw("aborted") \/ Throw("internal") \/ UNCHANGED outcome
    BY <1>4 DEF Attempt, ToolsDone, ToolsThrow, ReviewRejects, Goto,
       ContinueForRepair, resultVars, controlVars, messageVars
  <2> QED BY <1>0, <2>1
<1>5. CASE ReviewAccepts \/ BeforeComplete
  <2>1. CASE DrainInto(<<>>) /\ ContinueForRepair
    BY <2>1, DrainConserves DEF ContinueForRepair, resultVars, IInv
  <2>2. CASE UNCHANGED <<controlVars, messageVars, outcome>>
    BY <2>2 DEF controlVars, messageVars
  <2> QED BY <1>5, <2>1, <2>2 DEF ReviewAccepts, BeforeComplete, TakePost,
             RepairCompletion, NothingOutstanding, Goto, ContinueForRepair,
             resultVars
<1>6. CASE Seal
  <2>1. CASE steering # <<>>
    BY <1>6, <2>1 DEF Seal, ContinueForRepair, resultVars, messageVars
  <2>2. CASE steering = <<>>
    <3>1. /\ outcome = "none" /\ accepting /\ answered = Len(context)
          /\ accepting' = FALSE /\ UNCHANGED <<accepted, answered, outcome>>
      BY <1>6, <2>2 DEF Seal, Goto, resultVars, messageVars, IInv, OutcomeOK,
                        SealOK, AnsweredOK
    <3>2. accepted = context
      BY <2>2, ConcatEmpty DEF IInv, TypeOK, SteeringConserved
    <3> QED BY <3>1, <3>2 DEF Contract!Next, Contract!Close
  <2> QED BY <2>1, <2>2
<1>7. CASE Finish
  BY <1>7 DEF Finish, controlVars, messageVars, IInv, OutcomeOK, SealOK,
              Contract!Next, Contract!End
<1>8. CASE UserSteers
  <2>1. PICK m \in Messages : Steer(m)
    BY <1>8 DEF UserSteers
  <2> QED BY <1>8, <2>1, SteerAccepts DEF UserSteers, resultVars, Contract!Next
<1>9. CASE Cancel \/ Revoke \/ UNCHANGED vars
  BY <1>9 DEF Cancel, Revoke, vars, controlVars, resultVars, messageVars
<1> QED BY <1>1, <1>2, <1>3, <1>4, <1>5, <1>6, <1>7, <1>8, <1>9
        DEF Next, RunnerStep

(* The run loop implements RunContract: what it accepts is put to the      *)
(* model in order, and it completes only after closing.                    *)
THEOREM ContractRefinement == Spec => ImplementsRunContract
<1>1. Init => Contract!Init
  BY DEF Init, Contract!Init
<1>2. IInv /\ [Next]_vars => [Contract!Next]_(Contract!contractVars)
  BY ContractStep
<1> QED
  BY <1>1, <1>2, Invariance, PTL DEF Spec, ImplementsRunContract, Contract!Spec
=============================================================================
