--------------------------- MODULE FleetRunProofs ---------------------------
(***************************************************************************)
(* Proofs about a coordinator with its fleet, for every set of tasks and   *)
(* of messages and every limit.  The run's own invariant is that of        *)
(* AgentRunProofs: a step of the composition is a step of the run, or the  *)
(* fleet's post joining what the run was told.  What the fleet adds is a   *)
(* ledger: of the dispatches between their reservation and their return,   *)
(* of the licence to cancel, and of the reports, of which a sealed control *)
(* can lose none because nothing is out when it seals.                     *)
(***************************************************************************)
EXTENDS FleetRun, AgentRunProofs, SequenceTheorems, FiniteSetTheorems

(* A task is followed exactly while its entry says that it runs.           *)
Followed ==
  \A t \in Tasks : /\ child[t] # "none" <=> entry[t] = "running"
                   /\ entry[t] = "running" => round[t] \in Rounds

(* No host gives a coordinator a signal of its own, and only a cancelled   *)
(* control leaves a post in the outbox.                                    *)
OutboxOK == ~revoked /\ (outbox # <<>> => aborted)

(* Nothing is out when a run that was not cancelled seals its control, and *)
(* it completes only after that.                                           *)
QuietAtSeal ==
  /\ pc \in {"sealing", "finishing"} \/ ~accepting => Outstanding = {} \/ aborted
  /\ outcome = "completed" => ~accepting

(* A dispatch is reserved before it is started and counted when it         *)
(* returned; in between its task is starting.                              *)
Starting == {t \in Tasks : child[t] = "starting"}
Ledger ==
  /\ IsFiniteSet(Starting)
  /\ dispatches = started + Cardinality(Starting)
  /\ dispatches <= MaxDispatches

LicenceOK == IsFiniteSet(Redirections \cap Said) /\ CancellationsLicensed

(* Exactly the dispatches that ended are reported, and none twice.         *)
Ended(t, r) == r < round[t] \/ (r = round[t] /\ entry[t] # "running")
ReportedIffEnded ==
  \A t \in Tasks, r \in Rounds :
    (\E i \in DOMAIN Posted : Posted[i] = <<t, r>>) <=> Ended(t, r)
ReportedOnce ==
  \A i, j \in DOMAIN Posted : Posted[i] \in Notifications /\ Posted[i] = Posted[j] => i = j

FleetIInv ==
  /\ IInv /\ FleetTypeOK /\ Followed /\ OutboxOK /\ QuietAtSeal
  /\ Ledger /\ LicenceOK /\ ReportedIffEnded /\ ReportedOnce

-----------------------------------------------------------------------------
(* What is said, and what is posted.                                       *)

(* The fleet's reports and the user's words are messages, and disjoint.    *)
LEMMA Kinds ==
  /\ Notifications \subseteq Messages /\ UserMessages \subseteq Messages
  /\ UserMessages \cap Notifications = {} /\ Redirections \subseteq UserMessages
  /\ MaxRounds \in Nat /\ MaxDispatches \in Nat /\ Rounds = 1..MaxRounds
BY FleetAssumption DEF Notifications, Rounds

(* The reports on record, those still in the outbox included.              *)
LEMMA PostedTyped ==
  ASSUME FleetIInv
  PROVE  /\ accepted \in Seq(Messages) /\ outbox \in Seq(Messages) /\ Posted \in Seq(Messages)
         /\ ~aborted => outbox = <<>> /\ Posted = accepted
<1>1. accepted \in Seq(Messages) /\ outbox \in Seq(Notifications)
  BY DEF FleetIInv, FleetTypeOK, TypeOK
<1>2. outbox \in Seq(Messages)
  <2>1. Len(outbox) \in Nat /\ outbox \in [1..Len(outbox) -> Notifications]
    BY <1>1, LenProperties
  <2>2. outbox \in [1..Len(outbox) -> Messages]
    BY <2>1, Kinds
  <2> QED BY <2>1, <2>2
<1>3. Posted \in Seq(Messages)
  BY <1>1, <1>2, ConcatProperties DEF Posted
<1>4. ~aborted => outbox = <<>> /\ Posted = accepted
  BY <1>1, ConcatEmpty DEF FleetIInv, OutboxOK, Posted
<1> QED BY <1>1, <1>2, <1>3, <1>4

(* Appending an element adds it to what a sequence holds, and doubles none *)
(* that it did not hold.                                                   *)
LEMMA AppendHolds ==
  ASSUME NEW S, NEW s \in Seq(S), NEW e \in S
  PROVE  /\ \A n : (\E i \in DOMAIN Append(s, e) : Append(s, e)[i] = n)
                     <=> (\E i \in DOMAIN s : s[i] = n) \/ n = e
         /\ \A i, j \in DOMAIN Append(s, e) :
              Append(s, e)[i] = Append(s, e)[j] /\ i # j
                => \/ i \in DOMAIN s /\ j \in DOMAIN s /\ s[i] = s[j]
                   \/ Append(s, e)[i] = e /\ \E k \in DOMAIN s : s[k] = e
<1>1. /\ DOMAIN s = 1..Len(s) /\ Len(s) \in Nat
      /\ DOMAIN Append(s, e) = 1..(Len(s) + 1)
      /\ \A i \in 1..Len(s) : Append(s, e)[i] = s[i]
      /\ Append(s, e)[Len(s) + 1] = e
  BY AppendProperties, LenProperties
<1>2. \A i \in DOMAIN Append(s, e) : i \in DOMAIN s \/ i = Len(s) + 1
  BY <1>1
<1>3. DOMAIN s \subseteq DOMAIN Append(s, e) /\ Len(s) + 1 \in DOMAIN Append(s, e)
  BY <1>1
<1> QED BY <1>1, <1>2, <1>3

(* A cardinality the reports' invariants decide.                           *)
LEMMA ReportsCounted ==
  ASSUME ReportedIffEnded, ReportedOnce
  PROVE  PostConserved
<1> SUFFICES ASSUME NEW t \in Tasks, NEW r \in Rounds
             PROVE  Cardinality({i \in DOMAIN Posted : Posted[i] = <<t, r>>})
                      = IF Ended(t, r) THEN 1 ELSE 0
  BY DEF PostConserved, Ended
<1> DEFINE places == {i \in DOMAIN Posted : Posted[i] = <<t, r>>}
<1>1. CASE Ended(t, r)
  <2>1. PICK i \in DOMAIN Posted : Posted[i] = <<t, r>>
    BY <1>1 DEF ReportedIffEnded
  <2>2. <<t, r>> \in Notifications
    BY DEF Notifications
  <2>3. places = {i}
    BY <2>1, <2>2 DEF ReportedOnce
  <2> QED BY <1>1, <2>3, FS_Singleton
<1>2. CASE ~Ended(t, r)
  <2>1. places = {}
    BY <1>2 DEF ReportedIffEnded
  <2> QED BY <1>2, <2>1, FS_EmptySet
<1> QED BY <1>1, <1>2

(* A step that posts nothing and ends or starts no task keeps the reports. *)
LEMMA ReportsKept ==
  ASSUME FleetIInv, UNCHANGED <<entry, round>>, Posted' = Posted
  PROVE  ReportedIffEnded' /\ ReportedOnce'
BY DEF FleetIInv, ReportedIffEnded, ReportedOnce, Ended

(* A post that is taken joins what the run was told, in one go.            *)
LEMMA TakePostIInv ==
  ASSUME IInv, NEW post \in Seq(Messages), TakePost(post)
  PROVE  IInv' /\ [Contract!Next]_(Contract!contractVars)
<1>1. /\ pc = "beforeComplete" /\ pc' = "loop" /\ steering' = <<>>
      /\ context' = context \o steering \o post /\ accepted' = accepted \o post
      /\ allowRepair' = TRUE
      /\ UNCHANGED <<accepting, aborted, revoked, answered, turns, repairs, toolTurns,
                     attempt, outcome, error, emptyRepair, qualityRepairs, completionRepair>>
  BY DEF TakePost, DrainInto, ContinueForRepair, resultVars, hostVars
<1>2. /\ accepted \in Seq(Messages) /\ context \in Seq(Messages) /\ steering \in Seq(Messages)
      /\ accepted = context \o steering
  BY DEF IInv, TypeOK, SteeringConserved
<1>3. accepted' \in Seq(Messages) /\ Len(accepted') = Len(accepted) + Len(post)
  BY <1>1, <1>2, ConcatProperties
<1>4. context' = accepted' /\ Len(context) <= Len(accepted)
  BY <1>1, <1>2
<1>5. TypeOK'
  BY <1>1, <1>3, <1>4 DEF IInv, TypeOK, Points
<1>6. SteeringConserved'
  BY <1>1, <1>3, <1>4, ConcatEmpty DEF SteeringConserved
<1>7. AnsweredOK'
  <2>1. answered <= Len(context) /\ answered \in Nat
    BY DEF IInv, AnsweredOK, TypeOK
  <2>2. Len(context) \in Nat /\ Len(accepted) \in Nat /\ Len(post) \in Nat
    BY <1>2
  <2> QED BY <1>1, <1>3, <1>4, <2>1, <2>2 DEF AnsweredOK
<1>8. PurseOK' /\ AttemptOK' /\ BudgetOK' /\ SealOK' /\ OutcomeOK'
  BY <1>1 DEF IInv, PurseOK, AttemptOK, BudgetOK, SealOK, OutcomeOK
<1>9. [Contract!Next]_(Contract!contractVars)
  <2>1. accepting
    BY <1>1 DEF IInv, SealOK, TypeOK
  <2>2. CASE post = <<>>
    BY <1>1, <1>2, <2>2, ConcatEmpty DEF Contract!contractVars
  <2>3. CASE post # <<>>
    <3>1. Len(post) > 0 /\ Len(accepted') > Len(accepted)
      BY <1>2, <1>3, <2>3, EmptySeq
    <3>2. SubSeq(accepted', 1, Len(accepted)) = accepted
      BY <1>1, <1>2
    <3> QED BY <1>1, <1>3, <2>1, <3>1, <3>2 DEF Contract!Next, Contract!Accept
  <2> QED BY <2>2, <2>3
<1> QED BY <1>5, <1>6, <1>7, <1>8, <1>9 DEF IInv

-----------------------------------------------------------------------------
(* The run's own steps, seen from the fleet.                               *)

(* The run's variables are unchanged when their tuple is.                  *)
LEMMA SameRun ==
  ASSUME UNCHANGED vars
  PROVE  UNCHANGED <<steering, accepting, aborted, revoked, pc, turns, allowRepair, repairs,
                     toolTurns, attempt, emptyRepair, qualityRepairs, completionRepair,
                     outcome, error, accepted, context, answered>>
BY DEF vars, controlVars, loopVars, hostVars, resultVars, messageVars

(* The fleet's variables are unchanged when their tuple is.                *)
LEMMA SameFleet ==
  ASSUME UNCHANGED fleetVars
  PROVE  UNCHANGED <<entry, round, child, childRun, handle, retain, retained, outbox, licence,
                     wait, waitAll, dispatches, started, stops>>
BY DEF fleetVars, taskVars, postVars, waitVars, countVars

(* In its loop the run neither accepts a word nor hears of a cancellation, *)
(* and it gets nearer to the seal only from the seal.                      *)
LEMMA LoopDoes ==
  ASSUME IInv, LoopStep \/ ToolsReturn
  PROVE  /\ [Next]_vars /\ UNCHANGED <<aborted, revoked, accepted>>
         /\ pc' \in {"sealing", "finishing"} \/ ~accepting'
              => pc \in {"sealing", "finishing"} \/ ~accepting
         /\ outcome' = "completed" => ~accepting'
<1> USE DEF controlVars, messageVars, resultVars
<1>0. pc # "done" => outcome = "none"
  BY DEF IInv, OutcomeOK
<1>1. CASE ToolsReturn
  BY <1>0, <1>1 DEF ToolsReturn, ToolsDone, Goto, Next, RunnerStep
<1>2. CASE LoopStep
  <2>1. [Next]_vars
    BY <1>2 DEF LoopStep, Next, RunnerStep
  <2>2. CASE Start \/ Announce \/ TransformContext \/ Attempt \/ StreamFails \/ StreamText
    BY <1>0, <2>1, <2>2 DEF Start, Announce, TransformContext, Attempt, StreamFails,
       StreamText, StreamThrows, Throw, Goto
  <2>3. CASE StreamEmpty \/ StreamCalls \/ ReviewRejects \/ ToolsThrow
    BY <1>0, <2>1, <2>3 DEF StreamEmpty, StreamCalls, ReviewRejects, ToolsThrow, Throw,
       Goto, ContinueForRepair
  <2>4. CASE LoopHead
    <3>1. DrainInto(<<>>) => /\ accepted' = accepted
                             /\ UNCHANGED <<accepting, aborted, revoked>>
      BY DrainConserves DEF IInv
    <3> QED BY <1>0, <2>1, <2>4, <3>1 DEF LoopHead, Throw, Goto
  <2>5. CASE ReviewAccepts
    <3>1. DrainInto(<<>>) => /\ accepted' = accepted
                             /\ UNCHANGED <<accepting, aborted, revoked>>
      BY DrainConserves DEF IInv
    <3> QED BY <1>0, <2>1, <2>5, <3>1 DEF ReviewAccepts, ContinueForRepair, Goto
  <2>6. CASE Seal
    BY <1>0, <2>1, <2>6 DEF Seal, ContinueForRepair, Goto
  <2>7. CASE Finish
    BY <2>1, <2>7 DEF Finish, IInv, SealOK
  <2> QED BY <1>2, <2>2, <2>3, <2>4, <2>5, <2>6, <2>7 DEF LoopStep
<1> QED BY <1>1, <1>2

(* The fleet's part of the invariant.                                      *)
FleetPart ==
  /\ FleetTypeOK /\ Followed /\ OutboxOK /\ QuietAtSeal
  /\ Ledger /\ LicenceOK /\ ReportedIffEnded /\ ReportedOnce

(* A step of the loop leaves the fleet as it is.                           *)
LEMMA LoopKeeps ==
  ASSUME FleetIInv, IInv', LoopStep \/ ToolsReturn
  PROVE  FleetPart'
<1>1. /\ UNCHANGED <<aborted, revoked, accepted>>
      /\ pc' \in {"sealing", "finishing"} \/ ~accepting'
           => pc \in {"sealing", "finishing"} \/ ~accepting
      /\ outcome' = "completed" => ~accepting'
  BY LoopDoes DEF FleetIInv
<1>2. UNCHANGED <<entry, round, child, childRun, handle, retain, retained, outbox, licence,
                  wait, waitAll, dispatches, started, stops>>
  BY SameFleet DEF LoopStep, ToolsReturn
<1>3. FleetTypeOK'
  BY <1>2 DEF FleetIInv, IInv, FleetTypeOK
<1>4. Followed' /\ OutboxOK'
  BY <1>1, <1>2 DEF FleetIInv, Followed, OutboxOK
<1>5. QuietAtSeal'
  BY <1>1, <1>2 DEF FleetIInv, QuietAtSeal, Outstanding
<1>6. Ledger' /\ LicenceOK'
  BY <1>1, <1>2 DEF FleetIInv, Ledger, Starting, LicenceOK, CancellationsLicensed, Said
<1>7. ReportedIffEnded' /\ ReportedOnce'
  BY <1>1, <1>2, ReportsKept DEF Posted
<1> QED BY <1>3, <1>4, <1>5, <1>6, <1>7 DEF FleetPart

(* Before completion the outbox joins the accepted messages, unless there  *)
(* is nothing out and nothing to take, or the run was stopped.             *)
LEMMA BeforeCompleteKeeps ==
  ASSUME FleetIInv, IInv', BeforeCompleteWithFleet
  PROVE  FleetPart'
<1>1. UNCHANGED <<entry, round, child, childRun, handle, retain, retained, licence,
                  wait, waitAll, dispatches, started, stops>>
  BY DEF BeforeCompleteWithFleet, taskVars, waitVars, countVars
<1>2. /\ accepted \in Seq(Messages) /\ outbox \in Seq(Messages)
      /\ pc = "beforeComplete" /\ accepting
  BY PostedTyped DEF FleetIInv, IInv, SealOK, TypeOK, BeforeCompleteWithFleet, TakePost,
     RepairCompletion, NothingOutstanding
<1>3. /\ UNCHANGED <<accepting, aborted, revoked, outcome>>
      /\ outbox' = <<>> /\ accepted' = accepted \o outbox
      /\ \/ pc' = "loop"
         \/ pc' = "sealing" /\ steering = <<>>
  <2>1. CASE TakePost(outbox) /\ outbox' = <<>>
    BY <2>1 DEF TakePost, DrainInto, ContinueForRepair, resultVars
  <2>2. CASE outbox = <<>> /\ (RepairCompletion \/ NothingOutstanding) /\ UNCHANGED outbox
    <3>1. accepted' = accepted
      BY <2>2 DEF RepairCompletion, NothingOutstanding, messageVars
    <3>2. accepted' = accepted \o outbox
      BY <1>2, <2>2, <3>1, ConcatEmpty
    <3> QED BY <2>2, <3>2 DEF RepairCompletion, NothingOutstanding, ContinueForRepair, Goto,
               resultVars, controlVars
  <2> QED BY <2>1, <2>2 DEF BeforeCompleteWithFleet
<1>4. Posted' = Posted
  <2>1. accepted' \in Seq(Messages)
    BY <1>2, <1>3, ConcatProperties
  <2> QED BY <1>3, <2>1, ConcatEmpty DEF Posted
<1>5. FleetTypeOK'
  <2>1. outbox' \in Seq(Notifications)
    BY <1>3
  <2> QED BY <1>1, <2>1 DEF FleetIInv, IInv, FleetTypeOK
<1>6. Followed' /\ OutboxOK'
  BY <1>1, <1>3 DEF FleetIInv, Followed, OutboxOK
<1>7. QuietAtSeal'
  <2>1. steering = <<>> => ~ExternallySteered
    BY DEF ExternallySteered
  <2>2. Outstanding = {} \/ ExternallySteered \/ aborted
    BY DEF BeforeCompleteWithFleet, CompletionMayProceed, Stopped, FleetIInv, OutboxOK
  <2> QED BY <1>1, <1>2, <1>3, <2>1, <2>2 DEF FleetIInv, QuietAtSeal, Outstanding
<1>8. LicenceOK'
  <2>1. Redirections \cap Said' = Redirections \cap Said
    <3>1. \A i \in DOMAIN outbox : outbox[i] \in Notifications
      <4>1. outbox \in [1..Len(outbox) -> Notifications] /\ DOMAIN outbox = 1..Len(outbox)
        BY LenProperties DEF FleetIInv, FleetTypeOK
      <4> QED BY <4>1
    <3>2. ASSUME NEW m \in Redirections PROVE m \in Said' <=> m \in Said
      <4>1. m \notin Notifications
        BY Kinds
      <4>2. /\ DOMAIN accepted = 1..Len(accepted) /\ DOMAIN outbox = 1..Len(outbox)
            /\ Len(accepted) \in Nat /\ Len(outbox) \in Nat
            /\ DOMAIN accepted' = 1..(Len(accepted) + Len(outbox))
            /\ \A i \in 1..(Len(accepted) + Len(outbox)) :
                 accepted'[i] = IF i <= Len(accepted) THEN accepted[i]
                                ELSE outbox[i - Len(accepted)]
        BY <1>2, <1>3, ConcatProperties, LenProperties
      <4>3. ASSUME NEW i \in DOMAIN accepted', accepted'[i] = m
            PROVE  i \in DOMAIN accepted /\ accepted[i] = m
        <5>1. i <= Len(accepted)
          <6> SUFFICES ASSUME ~(i <= Len(accepted)) PROVE FALSE
            OBVIOUS
          <6>1. i - Len(accepted) \in DOMAIN outbox /\ accepted'[i] = outbox[i - Len(accepted)]
            BY <4>2
          <6> QED BY <3>1, <4>1, <4>3, <6>1
        <5> QED BY <4>2, <4>3, <5>1
      <4>4. ASSUME NEW i \in DOMAIN accepted, accepted[i] = m
            PROVE  i \in DOMAIN accepted' /\ accepted'[i] = m
        BY <4>2, <4>4
      <4> QED BY <4>3, <4>4 DEF Said
    <3> QED BY <3>2
  <2> QED BY <1>1, <2>1 DEF FleetIInv, LicenceOK, CancellationsLicensed
<1>9. Ledger'
  BY <1>1 DEF FleetIInv, Ledger, Starting
<1>10. ReportedIffEnded' /\ ReportedOnce'
  BY <1>1, <1>4, ReportsKept
<1> QED BY <1>5, <1>6, <1>7, <1>8, <1>9, <1>10 DEF FleetPart

-----------------------------------------------------------------------------
(* The fleet's own steps.                                                  *)

(* The waits move nothing but themselves.                                  *)
LEMMA WaitsKeep ==
  ASSUME FleetIInv, WaitStep \/ \E all \in BOOLEAN : BeginWait(all)
  PROVE  FleetPart' /\ UNCHANGED vars
<1>1. /\ UNCHANGED vars
      /\ UNCHANGED <<entry, round, child, childRun, handle, retain, retained, outbox, licence,
                     dispatches, started, stops>>
      /\ waitAll' \in BOOLEAN
      /\ wait' \in {"idle", "blocked", "news", "timeout", "steered"}
  BY DEF WaitStep, BeginWait, HoldCompletion, WaitTimesOut, WaitReturns, taskVars, postVars,
     countVars, FleetIInv, FleetTypeOK
<1>2. UNCHANGED <<steering, accepting, aborted, revoked, pc, turns, allowRepair, repairs,
                  toolTurns, attempt, emptyRepair, qualityRepairs, completionRepair,
                  outcome, error, accepted, context, answered>>
  BY <1>1, SameRun
<1>3. FleetTypeOK'
  BY <1>1, <1>2 DEF FleetIInv, FleetTypeOK, TypeOK
<1>4. Followed' /\ OutboxOK' /\ QuietAtSeal' /\ Ledger' /\ LicenceOK'
  BY <1>1, <1>2 DEF FleetIInv, Followed, OutboxOK, QuietAtSeal, Outstanding, Ledger, Starting,
     LicenceOK, CancellationsLicensed, Said
<1>5. ReportedIffEnded' /\ ReportedOnce'
  BY <1>1, <1>2, ReportsKept DEF Posted
<1> QED BY <1>1, <1>3, <1>4, <1>5 DEF FleetPart

(* Stopping the run ends a wait and leaves the tasks to themselves.        *)
LEMMA StopKeeps ==
  ASSUME FleetIInv, IInv', Stop
  PROVE  FleetPart'
<1>1. /\ aborted' = TRUE
      /\ UNCHANGED <<accepting, revoked, pc, outcome, accepted>>
      /\ UNCHANGED <<entry, round, child, childRun, handle, retain, retained, outbox, licence,
                     waitAll, dispatches, started, stops>>
      /\ wait' \in {"idle", "blocked", "news", "timeout", "steered"}
  BY DEF Stop, Cancel, Wake, taskVars, postVars, countVars, resultVars, messageVars,
     FleetIInv, FleetTypeOK
<1>2. FleetTypeOK'
  BY <1>1 DEF FleetIInv, FleetTypeOK, IInv
<1>3. Followed' /\ OutboxOK' /\ QuietAtSeal' /\ Ledger' /\ LicenceOK'
  BY <1>1 DEF FleetIInv, Followed, OutboxOK, QuietAtSeal, Outstanding, Ledger, Starting,
     LicenceOK, CancellationsLicensed, Said
<1>4. ReportedIffEnded' /\ ReportedOnce'
  BY <1>1, ReportsKept DEF Posted
<1> QED BY <1>2, <1>3, <1>4 DEF FleetPart

(* What is said when a message is appended to the accepted ones.           *)
LEMMA SaidGrows ==
  ASSUME FleetIInv, NEW m \in Messages, accepted' = Append(accepted, m)
  PROVE  Said' = Said \cup {m}
<1>1. accepted \in Seq(Messages)
  BY PostedTyped
<1>2. \A n : (\E i \in DOMAIN accepted' : accepted'[i] = n)
               <=> (\E i \in DOMAIN accepted : accepted[i] = n) \/ n = m
  BY <1>1, AppendHolds
<1>3. \A n : n \in Said' <=> n \in Said \cup {m}
  BY <1>2 DEF Said
<1> QED BY <1>3

(* The user's word is not a report, and a redirection adds one licence at  *)
(* most.                                                                   *)
LEMMA UserSpeaksKeeps ==
  ASSUME FleetIInv, IInv', UserSpeaks
  PROVE  FleetPart'
<1>1. PICK m \in UserMessages \ Said :
         Steer(m) /\ licence' = (licence \/ m \in Redirections)
  BY DEF UserSpeaks
<1>2. /\ UNCHANGED <<accepting, aborted, revoked, pc, outcome>>
      /\ accepted' = Append(accepted, m) /\ ~aborted
      /\ UNCHANGED <<entry, round, child, childRun, handle, retain, retained, outbox,
                     waitAll, dispatches, started, stops>>
      /\ wait' \in {"idle", "blocked", "news", "timeout", "steered"}
  BY <1>1 DEF UserSpeaks, Steer, Wake, taskVars, countVars, runVars, resultVars,
     FleetIInv, FleetTypeOK
<1>3. /\ m \in Messages /\ m \notin Notifications
      /\ accepted \in Seq(Messages) /\ outbox = <<>> /\ Posted = accepted
  BY <1>2, Kinds, PostedTyped
<1>4. FleetTypeOK'
  <2>1. licence' \in BOOLEAN
    BY <1>1 DEF FleetIInv, FleetTypeOK
  <2> QED BY <1>2, <2>1 DEF FleetIInv, FleetTypeOK, IInv
<1>5. Followed' /\ OutboxOK' /\ QuietAtSeal' /\ Ledger'
  BY <1>2 DEF FleetIInv, Followed, OutboxOK, QuietAtSeal, Outstanding, Ledger, Starting
<1>6. LicenceOK'
  <2> DEFINE old == Redirections \cap Said
  <2>1. Said' = Said \cup {m}
    BY <1>2, <1>3, SaidGrows
  <2>2. IsFiniteSet(old) /\ stops + (IF licence THEN 1 ELSE 0) <= Cardinality(old)
        /\ stops \in Nat /\ licence \in BOOLEAN
    BY DEF FleetIInv, LicenceOK, CancellationsLicensed, FleetTypeOK
  <2>3. CASE m \in Redirections
    <3>1. Redirections \cap Said' = old \cup {m} /\ m \notin old
      BY <1>1, <2>1, <2>3
    <3>2. /\ IsFiniteSet(old \cup {m}) /\ Cardinality(old \cup {m}) = Cardinality(old) + 1
          /\ Cardinality(old) \in Nat
      BY <2>2, <3>1, FS_AddElement, FS_CardinalityType
    <3>3. licence'
      BY <1>1, <2>3
    <3>4. stops + 1 <= Cardinality(old) + 1
      <4>1. (IF licence THEN 1 ELSE 0) \in 0..1
        OBVIOUS
      <4> HIDE DEF old
      <4> QED BY <2>2, <3>2, <4>1
    <3> QED BY <1>2, <3>1, <3>2, <3>3, <3>4 DEF LicenceOK, CancellationsLicensed
  <2>4. CASE m \notin Redirections
    <3>1. Redirections \cap Said' = old
      BY <2>1, <2>4
    <3>2. licence' = licence
      <4>1. CASE licence
        BY <1>1, <2>2, <4>1
      <4>2. CASE ~licence
        BY <1>1, <2>2, <2>4, <4>2
      <4> QED BY <4>1, <4>2
    <3> QED BY <1>2, <2>2, <3>1, <3>2 DEF LicenceOK, CancellationsLicensed
  <2> QED BY <2>3, <2>4
<1>7. ReportedIffEnded' /\ ReportedOnce'
  <2>1. Posted' = Append(Posted, m) /\ Posted \in Seq(Messages)
    <3>1. Append(accepted, m) \in Seq(Messages)
      BY <1>3
    <3> QED BY <1>2, <1>3, <3>1, ConcatEmpty DEF Posted
  <2>2. \A t \in Tasks, r \in Rounds : <<t, r>> # m
    BY <1>3 DEF Notifications
  <2>3. \A n : (\E i \in DOMAIN Posted' : Posted'[i] = n)
                 <=> (\E i \in DOMAIN Posted : Posted[i] = n) \/ n = m
    BY <1>3, <2>1, AppendHolds
  <2>4. ReportedIffEnded'
    BY <1>2, <2>2, <2>3 DEF FleetIInv, ReportedIffEnded, Ended
  <2>5. \A i, j \in DOMAIN Posted' :
          Posted'[i] = Posted'[j] /\ i # j
            => \/ i \in DOMAIN Posted /\ j \in DOMAIN Posted /\ Posted[i] = Posted[j]
               \/ Posted'[i] = m
    BY <1>3, <2>1, AppendHolds
  <2>6. \A i \in DOMAIN Posted : Posted'[i] = Posted[i]
    BY <1>3, <2>1, AppendProperties, LenProperties
  <2>7. ReportedOnce'
    BY <1>3, <2>5, <2>6 DEF FleetIInv, ReportedOnce
  <2> QED BY <2>4, <2>7
<1> QED BY <1>4, <1>5, <1>6, <1>7 DEF FleetPart

(* Settling a task that runs reports this dispatch of it, once: through    *)
(* the control, or in the outbox when the run was cancelled.  The control  *)
(* is not sealed, since a task is out.                                     *)
LEMMA SettleKeeps ==
  ASSUME FleetIInv, NEW t \in Tasks, entry[t] = "running", NEW status \in FinalStatus,
         Settle(t, status), child' = [child EXCEPT ![t] = "none"],
         UNCHANGED <<round, licence, stops, runVars>>
  PROVE  /\ IInv' /\ [Contract!Next]_(Contract!contractVars)
         /\ entry' \in [Tasks -> FinalStatus \cup {"absent", "running"}]
         /\ child' \in [Tasks -> {"none", "starting", "tracked"}]
         /\ outbox' \in Seq(Notifications)
         /\ wait' \in {"idle", "blocked", "news", "timeout", "steered"}
         /\ Followed' /\ OutboxOK' /\ QuietAtSeal' /\ LicenceOK'
         /\ ReportedIffEnded' /\ ReportedOnce'
<1> DEFINE n == <<t, round[t]>>
<1>1. /\ round[t] \in Rounds /\ n \in Notifications /\ n \in Messages
      /\ n \notin Redirections
  BY Kinds DEF FleetIInv, Followed, Notifications
<1>2. /\ accepted \in Seq(Messages) /\ outbox \in Seq(Messages) /\ Posted \in Seq(Messages)
      /\ ~aborted => outbox = <<>> /\ Posted = accepted
      /\ outbox \in Seq(Notifications)
  BY PostedTyped DEF FleetIInv, FleetTypeOK
<1>3. UNCHANGED <<pc, turns, allowRepair, repairs, toolTurns, attempt, emptyRepair,
                  qualityRepairs, completionRepair, outcome, error>>
  BY DEF runVars, loopVars, hostVars, resultVars
<1>4. entry' = [entry EXCEPT ![t] = status]
  BY DEF Settle
<1>5. ~aborted => accepting
  <2>1. t \in Outstanding
    BY DEF Outstanding
  <2> QED BY <2>1 DEF FleetIInv, QuietAtSeal
<1>6. /\ IInv' /\ [Contract!Next]_(Contract!contractVars)
      /\ UNCHANGED <<accepting, aborted, revoked>>
      /\ outbox' \in Seq(Notifications) /\ (outbox' # <<>> => aborted)
      /\ Posted' = Append(Posted, n)
      /\ Redirections \cap Said' = Redirections \cap Said
      /\ wait' \in {"idle", "blocked", "news", "timeout", "steered"}
  <2>0. wait \in {"idle", "blocked", "news", "timeout", "steered"}
    BY DEF FleetIInv, FleetTypeOK
  <2>1. CASE aborted
    <3>1. /\ outbox' = Append(outbox, n) /\ Wake("news")
          /\ UNCHANGED <<controlVars, messageVars>>
      BY <2>1 DEF Settle
    <3>2. UNCHANGED <<steering, accepting, aborted, revoked, accepted, context, answered>>
      BY <3>1 DEF controlVars, messageVars
    <3>3. UNCHANGED vars
      BY <3>1 DEF vars, runVars
    <3>4. IInv' /\ [Contract!Next]_(Contract!contractVars)
      BY <3>3, NextIInv, ContractStep DEF FleetIInv
    <3>5. Posted' = Append(Posted, n)
      BY <1>1, <1>2, <3>1, <3>2 DEF Posted
    <3>6. outbox' \in Seq(Notifications)
      BY <1>1, <1>2, <3>1
    <3>7. Said' = Said
      BY <3>2 DEF Said
    <3> QED BY <2>0, <2>1, <3>1, <3>2, <3>4, <3>5, <3>6, <3>7 DEF Wake
  <2>2. CASE ~aborted
    <3>1. Steer(n) /\ Wake("news") /\ outbox' = outbox
      BY <1>5, <2>2 DEF Settle
    <3>2. accepted' = Append(accepted, n) /\ UNCHANGED <<accepting, aborted, revoked>>
      BY <3>1 DEF Steer
    <3>3. IInv'
      BY <1>1, <3>1, SteerIInv DEF FleetIInv, runVars
    <3>4. [Contract!Next]_(Contract!contractVars)
      BY <1>1, <1>3, <3>1, SteerAccepts DEF FleetIInv, Contract!Next
    <3>5. Posted' = Append(Posted, n)
      <4>1. Append(accepted, n) \in Seq(Messages)
        BY <1>1, <1>2
      <4> QED BY <1>2, <2>2, <3>1, <3>2, <4>1, ConcatEmpty DEF Posted
    <3>6. Said' = Said \cup {n}
      BY <1>1, <3>2, SaidGrows
    <3> QED BY <1>1, <1>2, <2>0, <2>2, <3>1, <3>2, <3>3, <3>4, <3>5, <3>6 DEF Wake
  <2> QED BY <2>1, <2>2
<1>7. /\ entry' \in [Tasks -> FinalStatus \cup {"absent", "running"}]
      /\ child' \in [Tasks -> {"none", "starting", "tracked"}]
  BY <1>4 DEF FleetIInv, FleetTypeOK
<1>8. entry'[t] = status /\ status # "running" /\ child'[t] = "none"
      /\ \A u \in Tasks : u # t => entry'[u] = entry[u] /\ child'[u] = child[u]
  BY <1>4 DEF FleetIInv, FleetTypeOK, FinalStatus
<1>9. Followed' /\ OutboxOK'
  BY <1>6, <1>8 DEF FleetIInv, Followed, OutboxOK
<1>10. QuietAtSeal'
  <2>1. Outstanding' \subseteq Outstanding
    BY <1>8 DEF Outstanding
  <2> QED BY <1>3, <1>6, <2>1 DEF FleetIInv, QuietAtSeal
<1>11. LicenceOK'
  BY <1>6 DEF FleetIInv, LicenceOK, CancellationsLicensed
<1>12. ~Ended(t, round[t]) /\ \A i \in DOMAIN Posted : Posted[i] # n
  <2>1. round[t] \in Nat
    BY <1>1, Kinds
  <2>2. ~Ended(t, round[t])
    BY <2>1 DEF Ended
  <2> QED BY <1>1, <2>2 DEF FleetIInv, ReportedIffEnded
<1>13. ASSUME NEW u \in Tasks, NEW r \in Rounds
       PROVE  Ended(u, r)' <=> Ended(u, r) \/ <<u, r>> = n
  <2>1. CASE u = t
    BY <1>8, <2>1 DEF Ended
  <2>2. CASE u # t
    BY <1>8, <2>2 DEF Ended
  <2> QED BY <2>1, <2>2
<1> HIDE DEF n
<1>14. ReportedIffEnded'
  <2>1. \A m : (\E i \in DOMAIN Posted' : Posted'[i] = m)
                 <=> (\E i \in DOMAIN Posted : Posted[i] = m) \/ m = n
    <3>1. Posted' = Append(Posted, n) /\ Posted \in Seq(Messages) /\ n \in Messages
      BY <1>1, <1>2, <1>6
    <3> QED BY <3>1, AppendHolds
  <2> QED BY <1>13, <2>1 DEF FleetIInv, ReportedIffEnded
<1>15. ReportedOnce'
  <2>1. \A i, j \in DOMAIN Posted' :
          Posted'[i] = Posted'[j] /\ i # j
            => \/ i \in DOMAIN Posted /\ j \in DOMAIN Posted /\ Posted[i] = Posted[j]
               \/ \E k \in DOMAIN Posted : Posted[k] = n
    BY <1>1, <1>2, <1>6, AppendHolds
  <2>2. \A i \in DOMAIN Posted : Posted'[i] = Posted[i]
    BY <1>1, <1>2, <1>6, AppendProperties, LenProperties
  <2> QED BY <1>12, <2>1, <2>2 DEF FleetIInv, ReportedOnce
<1> QED BY <1>6, <1>7, <1>9, <1>10, <1>11, <1>14, <1>15

(* A task that is being started adds one to the ledger, and one that no    *)
(* longer is takes one away.                                               *)
LEMMA StartingChanges ==
  ASSUME FleetIInv, NEW t \in Tasks, NEW to \in {"none", "starting", "tracked"},
         child' = [child EXCEPT ![t] = to]
  PROVE  /\ Cardinality(Starting) \in Nat /\ Cardinality(Starting') \in Nat
         /\ IsFiniteSet(Starting')
         /\ to = "starting" /\ child[t] # "starting"
              => Cardinality(Starting') = Cardinality(Starting) + 1
         /\ to # "starting" /\ child[t] = "starting"
              => Cardinality(Starting') = Cardinality(Starting) - 1
         /\ to # "starting" /\ child[t] # "starting" => Starting' = Starting
<1>1. child \in [Tasks -> {"none", "starting", "tracked"}] /\ IsFiniteSet(Starting)
  BY DEF FleetIInv, FleetTypeOK, Ledger
<1>2. Starting' = IF to = "starting" THEN Starting \cup {t} ELSE Starting \ {t}
  BY <1>1 DEF Starting
<1>3. t \in Starting <=> child[t] = "starting"
  BY DEF Starting
<1>4. /\ Cardinality(Starting) \in Nat
      /\ IsFiniteSet(Starting \cup {t}) /\ IsFiniteSet(Starting \ {t})
      /\ t \notin Starting => Cardinality(Starting \cup {t}) = Cardinality(Starting) + 1
      /\ t \in Starting => Cardinality(Starting \ {t}) = Cardinality(Starting) - 1
  BY <1>1, FS_CardinalityType, FS_AddElement, FS_RemoveElement
<1>5. t \notin Starting => Starting \ {t} = Starting
  OBVIOUS
<1>6. IsFiniteSet(Starting') /\ Cardinality(Starting') \in Nat
  BY <1>2, <1>4, FS_CardinalityType
<1> QED BY <1>2, <1>3, <1>4, <1>5, <1>6

(* A dispatch is paid for before it starts; a retained task that is        *)
(* resumed has had its earlier dispatches reported.                        *)
LEMMA DispatchKeeps ==
  ASSUME FleetIInv, NEW t \in Tasks, Dispatch(t)
  PROVE  FleetPart' /\ UNCHANGED vars
<1>1. /\ UNCHANGED vars
      /\ UNCHANGED <<handle, outbox, licence, wait, waitAll, started, stops>>
      /\ pc = "tools" /\ dispatches < MaxDispatches /\ dispatches' = dispatches + 1
      /\ entry[t] # "running" /\ round[t] < MaxRounds
      /\ entry' = [entry EXCEPT ![t] = "running"]
      /\ round' = [round EXCEPT ![t] = @ + 1]
      /\ retained' = [retained EXCEPT ![t] = FALSE]
      /\ child' = [child EXCEPT ![t] = "starting"]
      /\ childRun' = [childRun EXCEPT ![t] = "live"]
      /\ \E r \in BOOLEAN : retain' = [retain EXCEPT ![t] = r]
  BY DEF Dispatch, postVars, waitVars
<1>2. UNCHANGED <<steering, accepting, aborted, revoked, pc, turns, allowRepair, repairs,
                  toolTurns, attempt, emptyRepair, qualityRepairs, completionRepair,
                  outcome, error, accepted, context, answered>>
  BY <1>1, SameRun
<1>3. /\ child[t] = "none" /\ round[t] \in Nat
      /\ dispatches \in Nat /\ MaxDispatches \in Nat /\ MaxRounds \in Nat
      /\ entry \in [Tasks -> FinalStatus \cup {"absent", "running"}]
      /\ round \in [Tasks -> 0..MaxRounds]
      /\ child \in [Tasks -> {"none", "starting", "tracked"}]
  BY <1>1, Kinds DEF FleetIInv, Followed, FleetTypeOK
<1>4. FleetTypeOK'
  <2>1. round' \in [Tasks -> 0..MaxRounds] /\ dispatches' \in Nat
    BY <1>1, <1>3
  <2>2. retain' \in [Tasks -> BOOLEAN] /\ retained' \in [Tasks -> BOOLEAN]
    BY <1>1 DEF FleetIInv, FleetTypeOK
  <2>3. TypeOK'
    BY <1>2 DEF FleetIInv, FleetTypeOK, TypeOK
  <2> QED BY <1>1, <2>1, <2>2, <2>3 DEF FleetIInv, FleetTypeOK
<1>5. Followed'
  BY <1>1, <1>3, Kinds DEF FleetIInv, Followed
<1>6. OutboxOK' /\ LicenceOK'
  BY <1>1, <1>2 DEF FleetIInv, OutboxOK, LicenceOK, CancellationsLicensed, Said
<1>7. QuietAtSeal'
  <2>1. accepting
    BY <1>1 DEF FleetIInv, IInv, SealOK, TypeOK
  <2> QED BY <1>1, <1>2, <2>1 DEF FleetIInv, QuietAtSeal
<1>8. Ledger'
  <2>1. /\ IsFiniteSet(Starting') /\ Cardinality(Starting') = Cardinality(Starting) + 1
        /\ Cardinality(Starting) \in Nat
    BY <1>1, <1>3, StartingChanges
  <2>2. dispatches = started + Cardinality(Starting) /\ started \in Nat
    BY DEF FleetIInv, Ledger, FleetTypeOK
  <2> QED BY <1>1, <1>3, <2>1, <2>2 DEF Ledger
<1>9. ReportedIffEnded' /\ ReportedOnce'
  <2>1. Posted' = Posted
    BY <1>1, <1>2 DEF Posted
  <2>2. ASSUME NEW u \in Tasks, NEW r \in Rounds PROVE Ended(u, r)' <=> Ended(u, r)
    <3>1. r \in Nat /\ round[u] \in Nat
      BY <1>3, Kinds
    <3>2. CASE u = t
      <4>1. round'[u] = round[u] + 1 /\ entry'[u] = "running" /\ entry[u] # "running"
        BY <1>1, <1>3, <3>2
      <4> QED BY <3>1, <4>1 DEF Ended
    <3>3. CASE u # t
      BY <1>1, <1>3, <3>3 DEF Ended
    <3> QED BY <3>2, <3>3
  <2> QED BY <2>1, <2>2 DEF FleetIInv, ReportedIffEnded, ReportedOnce
<1> QED BY <1>1, <1>4, <1>5, <1>6, <1>7, <1>8, <1>9 DEF FleetPart

(* A dispatch that returned is counted, and is not starting any more.      *)
LEMMA TrackKeeps ==
  ASSUME FleetIInv, NEW t \in Tasks, Track(t)
  PROVE  FleetPart' /\ UNCHANGED vars
<1>1. /\ UNCHANGED vars /\ child[t] = "starting"
      /\ UNCHANGED <<entry, round, childRun, retain, retained, outbox, licence, wait, waitAll,
                     dispatches, stops>>
      /\ child' = [child EXCEPT ![t] = "tracked"] /\ handle' = [handle EXCEPT ![t] = TRUE]
      /\ started' = started + 1
  BY DEF Track, postVars, waitVars
<1>2. UNCHANGED <<steering, accepting, aborted, revoked, pc, turns, allowRepair, repairs,
                  toolTurns, attempt, emptyRepair, qualityRepairs, completionRepair,
                  outcome, error, accepted, context, answered>>
  BY <1>1, SameRun
<1>3. FleetTypeOK'
  <2>1. TypeOK'
    BY <1>2 DEF FleetIInv, FleetTypeOK, TypeOK
  <2> QED BY <1>1, <2>1 DEF FleetIInv, FleetTypeOK
<1>4. Followed'
  BY <1>1 DEF FleetIInv, Followed, FleetTypeOK
<1>5. OutboxOK' /\ LicenceOK' /\ QuietAtSeal'
  BY <1>1, <1>2 DEF FleetIInv, OutboxOK, LicenceOK, CancellationsLicensed, Said, QuietAtSeal,
     Outstanding
<1>6. Ledger'
  <2>1. /\ IsFiniteSet(Starting') /\ Cardinality(Starting') = Cardinality(Starting) - 1
        /\ Cardinality(Starting) \in Nat
    BY <1>1, StartingChanges
  <2>2. /\ dispatches = started + Cardinality(Starting) /\ started \in Nat
        /\ dispatches <= MaxDispatches
    BY DEF FleetIInv, Ledger, FleetTypeOK
  <2> QED BY <1>1, <2>1, <2>2 DEF Ledger
<1>7. ReportedIffEnded' /\ ReportedOnce'
  BY <1>1, <1>2, ReportsKept DEF Posted
<1> QED BY <1>1, <1>3, <1>4, <1>5, <1>6, <1>7 DEF FleetPart

(* A dispatch that throws gives its reservation back and is reported as a  *)
(* failure.                                                                *)
LEMMA DispatchThrowsKeeps ==
  ASSUME FleetIInv, NEW t \in Tasks, DispatchThrows(t)
  PROVE  FleetPart' /\ IInv' /\ [Contract!Next]_(Contract!contractVars)
<1>1. /\ child[t] = "starting" /\ Settle(t, "failed")
      /\ child' = [child EXCEPT ![t] = "none"] /\ childRun' = [childRun EXCEPT ![t] = "none"]
      /\ dispatches' = dispatches - 1
      /\ UNCHANGED <<round, handle, retain, retained, licence, waitAll, started, stops, runVars>>
  BY DEF DispatchThrows
<1>2. entry[t] = "running" /\ "failed" \in FinalStatus
  BY <1>1 DEF FleetIInv, Followed, FinalStatus
<1>3. /\ IInv' /\ [Contract!Next]_(Contract!contractVars)
      /\ entry' \in [Tasks -> FinalStatus \cup {"absent", "running"}]
      /\ child' \in [Tasks -> {"none", "starting", "tracked"}]
      /\ outbox' \in Seq(Notifications)
      /\ wait' \in {"idle", "blocked", "news", "timeout", "steered"}
      /\ Followed' /\ OutboxOK' /\ QuietAtSeal' /\ LicenceOK'
      /\ ReportedIffEnded' /\ ReportedOnce'
  BY <1>1, <1>2, SettleKeeps
<1>4. Ledger' /\ dispatches' \in Nat
  <2>1. /\ IsFiniteSet(Starting') /\ Cardinality(Starting') = Cardinality(Starting) - 1
        /\ Cardinality(Starting) \in Nat /\ Cardinality(Starting') \in Nat
    BY <1>1, StartingChanges
  <2>2. /\ dispatches = started + Cardinality(Starting) /\ started \in Nat
        /\ dispatches <= MaxDispatches /\ MaxDispatches \in Nat
    BY Kinds DEF FleetIInv, Ledger, FleetTypeOK
  <2> QED BY <1>1, <2>1, <2>2 DEF Ledger
<1>5. FleetTypeOK'
  <2>1. childRun' \in [Tasks -> FinalStatus \cup {"none", "live", "stopping"}]
    BY <1>1 DEF FleetIInv, FleetTypeOK
  <2>2. TypeOK'
    BY <1>3 DEF IInv
  <2> QED BY <1>1, <1>3, <1>4, <2>1, <2>2 DEF FleetIInv, FleetTypeOK
<1> QED BY <1>3, <1>4, <1>5 DEF FleetPart

(* A child that ends, or is asked to stop, is not yet reported.            *)
LEMMA ChildrenKeep ==
  ASSUME FleetIInv,
         (\E t \in Tasks : ChildEnds(t)) \/ (\E names \in SUBSET Tasks : CancelTasks(names))
  PROVE  FleetPart' /\ UNCHANGED vars
<1> DEFINE Effect ==
             /\ UNCHANGED vars
             /\ UNCHANGED <<entry, round, child, retain, retained, outbox, wait, waitAll,
                            dispatches, started>>
             /\ childRun' \in [Tasks -> FinalStatus \cup {"none", "live", "stopping"}]
             /\ handle' \in [Tasks -> BOOLEAN]
             /\ \/ UNCHANGED <<licence, stops>>
                \/ licence = TRUE /\ licence' = FALSE /\ stops' = stops + 1
<1>1. Effect
  <2>1. /\ childRun \in [Tasks -> FinalStatus \cup {"none", "live", "stopping"}]
        /\ handle \in [Tasks -> BOOLEAN] /\ licence \in BOOLEAN
    BY DEF FleetIInv, FleetTypeOK
  <2>2. ASSUME NEW t \in Tasks, ChildEnds(t) PROVE Effect
    BY <2>1, <2>2 DEF ChildEnds, postVars, waitVars, countVars
  <2>3. ASSUME NEW names \in SUBSET Tasks, CancelTasks(names) PROVE Effect
    BY <2>1, <2>3 DEF CancelTasks, waitVars
  <2> QED BY <2>2, <2>3
<1>2. UNCHANGED <<steering, accepting, aborted, revoked, pc, turns, allowRepair, repairs,
                  toolTurns, attempt, emptyRepair, qualityRepairs, completionRepair,
                  outcome, error, accepted, context, answered>>
  BY <1>1, SameRun
<1>3. licence' \in BOOLEAN /\ stops' \in Nat
  <2>1. licence \in BOOLEAN /\ stops \in Nat
    BY DEF FleetIInv, FleetTypeOK
  <2>2. CASE UNCHANGED <<licence, stops>>
    BY <2>1, <2>2
  <2>3. CASE licence' = FALSE /\ stops' = stops + 1
    <3>1. licence' \in BOOLEAN
      BY <2>3, Zenon
    <3>2. stops' \in Nat
      BY <2>1, <2>3
    <3> QED BY <3>1, <3>2
  <2> QED BY <1>1, <2>2, <2>3
<1>4. FleetTypeOK'
  <2>1. TypeOK'
    BY <1>2 DEF FleetIInv, FleetTypeOK, TypeOK
  <2> QED BY <1>1, <1>3, <2>1 DEF FleetIInv, FleetTypeOK
<1>5. Followed' /\ OutboxOK' /\ QuietAtSeal' /\ Ledger'
  BY <1>1, <1>2 DEF FleetIInv, Followed, OutboxOK, QuietAtSeal, Outstanding, Ledger, Starting
<1>6. LicenceOK'
  <2>1. Said' = Said /\ stops \in Nat
    BY <1>2 DEF Said, FleetIInv, FleetTypeOK
  <2> QED BY <1>1, <2>1 DEF FleetIInv, LicenceOK, CancellationsLicensed
<1>7. ReportedIffEnded' /\ ReportedOnce'
  BY <1>1, <1>2, ReportsKept DEF Posted
<1> QED BY <1>1, <1>4, <1>5, <1>6, <1>7 DEF FleetPart

(* A child that ended is settled and reported by the fleet.                *)
LEMMA ChildSettlesKeeps ==
  ASSUME FleetIInv, NEW t \in Tasks, ChildSettles(t)
  PROVE  FleetPart' /\ IInv' /\ [Contract!Next]_(Contract!contractVars)
<1>1. /\ child[t] = "tracked" /\ childRun[t] \in FinalStatus /\ Settle(t, childRun[t])
      /\ child' = [child EXCEPT ![t] = "none"] /\ handle' = [handle EXCEPT ![t] = FALSE]
      /\ retained' = [retained EXCEPT ![t] = retain[t]]
      /\ UNCHANGED <<round, childRun, retain, licence, waitAll, dispatches, started, stops,
                     runVars>>
  BY DEF ChildSettles, countVars
<1>2. entry[t] = "running"
  BY <1>1 DEF FleetIInv, Followed
<1>3. /\ IInv' /\ [Contract!Next]_(Contract!contractVars)
      /\ entry' \in [Tasks -> FinalStatus \cup {"absent", "running"}]
      /\ child' \in [Tasks -> {"none", "starting", "tracked"}]
      /\ outbox' \in Seq(Notifications)
      /\ wait' \in {"idle", "blocked", "news", "timeout", "steered"}
      /\ Followed' /\ OutboxOK' /\ QuietAtSeal' /\ LicenceOK'
      /\ ReportedIffEnded' /\ ReportedOnce'
  BY <1>1, <1>2, SettleKeeps
<1>4. Ledger'
  <2>1. Starting' = Starting
    BY <1>1, StartingChanges
  <2> QED BY <1>1, <2>1 DEF FleetIInv, Ledger
<1>5. FleetTypeOK'
  <2>1. handle' \in [Tasks -> BOOLEAN] /\ retained' \in [Tasks -> BOOLEAN]
    BY <1>1 DEF FleetIInv, FleetTypeOK
  <2>2. TypeOK'
    BY <1>3 DEF IInv
  <2> QED BY <1>1, <1>3, <2>1, <2>2 DEF FleetIInv, FleetTypeOK
<1> QED BY <1>3, <1>4, <1>5 DEF FleetPart

-----------------------------------------------------------------------------
(* The invariant, and what follows from it.                                *)

(* A fleet that starts, with or without retained tasks, has nothing out    *)
(* and nothing posted.                                                     *)
LEMMA InitFleetIInv == FleetInit => FleetIInv
<1> SUFFICES ASSUME FleetInit PROVE FleetIInv
  OBVIOUS
<1>1. IInv
  BY InitIInv DEF FleetInit
<1>2. PICK carried \in SUBSET Tasks :
        /\ entry = [t \in Tasks |-> IF t \in carried THEN "completed" ELSE "absent"]
        /\ retained = [t \in Tasks |-> t \in carried]
  BY DEF FleetInit
<1>3. /\ round = [t \in Tasks |-> 0] /\ child = [t \in Tasks |-> "none"]
      /\ childRun = [t \in Tasks |-> "none"] /\ handle = [t \in Tasks |-> FALSE]
      /\ retain = [t \in Tasks |-> FALSE] /\ outbox = <<>> /\ licence = FALSE
      /\ dispatches = 0 /\ started = 0 /\ stops = 0 /\ wait = "idle" /\ waitAll = FALSE
      /\ accepted = <<>> /\ accepting = TRUE /\ revoked = FALSE /\ pc = "created"
      /\ outcome = "none"
  BY DEF FleetInit, Init
<1>4. FleetTypeOK
  <2>1. TypeOK
    BY <1>1 DEF IInv
  <2>2. /\ entry \in [Tasks -> FinalStatus \cup {"absent", "running"}]
        /\ child \in [Tasks -> {"none", "starting", "tracked"}]
        /\ childRun \in [Tasks -> FinalStatus \cup {"none", "live", "stopping"}]
        /\ wait \in {"idle", "blocked", "news", "timeout", "steered"}
    BY <1>2, <1>3 DEF FinalStatus
  <2>3. /\ handle \in [Tasks -> BOOLEAN] /\ retain \in [Tasks -> BOOLEAN]
        /\ retained \in [Tasks -> BOOLEAN] /\ licence \in BOOLEAN /\ waitAll \in BOOLEAN
    <3>1. handle \in [Tasks -> BOOLEAN] /\ retain \in [Tasks -> BOOLEAN]
      BY <1>3
    <3>2. retained \in [Tasks -> BOOLEAN]
      <4>1. \A t \in Tasks : (t \in carried) \in BOOLEAN
        OBVIOUS
      <4> QED BY <1>2, <4>1
    <3>3. licence \in BOOLEAN /\ waitAll \in BOOLEAN
      BY <1>3
    <3> QED BY <3>1, <3>2, <3>3
  <2>4. /\ round \in [Tasks -> 0..MaxRounds] /\ outbox \in Seq(Notifications)
        /\ dispatches \in Nat /\ started \in Nat /\ stops \in Nat
    BY <1>3, Kinds
  <2> QED BY <2>1, <2>2, <2>3, <2>4 DEF FleetTypeOK
<1>5. Followed /\ OutboxOK /\ QuietAtSeal
  BY <1>2, <1>3 DEF Followed, OutboxOK, QuietAtSeal
<1>6. Ledger
  <2>1. Starting = {}
    BY <1>3 DEF Starting
  <2> QED BY <1>3, <2>1, FS_EmptySet, Kinds DEF Ledger
<1>7. LicenceOK
  <2>1. Redirections \cap Said = {}
    BY <1>3 DEF Said
  <2> QED BY <1>3, <2>1, FS_EmptySet DEF LicenceOK, CancellationsLicensed
<1>8. ReportedIffEnded /\ ReportedOnce
  <2>1. Posted = <<>> /\ DOMAIN Posted = {}
    <3>1. <<>> \in Seq(Messages)
      OBVIOUS
    <3>2. Posted = <<>>
      BY <1>3, <3>1, ConcatEmpty DEF Posted
    <3> QED BY <3>2
  <2>2. \A t \in Tasks, r \in Rounds : ~Ended(t, r)
    BY <1>3, Kinds DEF Ended
  <2> QED BY <2>1, <2>2 DEF ReportedIffEnded, ReportedOnce
<1> QED BY <1>1, <1>4, <1>5, <1>6, <1>7, <1>8 DEF FleetIInv

(* Every step of the coordinator, its fleet and its user keeps both parts  *)
(* of the invariant and is a step of the contract or a stutter.            *)
LEMMA NextFleetIInv ==
  ASSUME FleetIInv, [FleetNext]_allVars
  PROVE  FleetIInv' /\ [Contract!Next]_(Contract!contractVars)
<1>0. IInv
  BY DEF FleetIInv
<1>a. ASSUME [Next]_vars PROVE IInv' /\ [Contract!Next]_(Contract!contractVars)
  BY <1>0, <1>a, NextIInv, ContractStep
<1>b. ASSUME FleetPart', IInv' PROVE FleetIInv'
  BY <1>b DEF FleetPart, FleetIInv
<1>1. CASE LoopStep \/ ToolsReturn
  BY <1>0, <1>1, <1>a, <1>b, LoopDoes, LoopKeeps
<1>2. CASE BeforeCompleteWithFleet
  <2>1. outbox \in Seq(Messages)
    BY PostedTyped
  <2>2. TakePost(outbox) \/ [Next]_vars
    BY <1>2 DEF BeforeCompleteWithFleet, Next, RunnerStep, BeforeComplete
  <2>3. IInv' /\ [Contract!Next]_(Contract!contractVars)
    BY <1>0, <1>a, <2>1, <2>2, TakePostIInv
  <2> QED BY <1>2, <1>b, <2>3, BeforeCompleteKeeps
<1>3. CASE WaitStep \/ \E all \in BOOLEAN : BeginWait(all)
  BY <1>3, <1>a, <1>b, WaitsKeep
<1>4. CASE UserSpeaks
  <2>1. UserSteers
    BY <1>4, Kinds DEF UserSpeaks, UserSteers, runVars
  <2>2. IInv' /\ [Contract!Next]_(Contract!contractVars)
    BY <1>a, <2>1 DEF Next
  <2> QED BY <1>4, <1>b, <2>2, UserSpeaksKeeps
<1>5. CASE Stop
  <2>1. IInv' /\ [Contract!Next]_(Contract!contractVars)
    BY <1>5, <1>a DEF Stop, Next
  <2> QED BY <1>5, <1>b, <2>1, StopKeeps
<1>6. CASE \E t \in Tasks : Dispatch(t) \/ Track(t)
  BY <1>6, <1>a, <1>b, DispatchKeeps, TrackKeeps
<1>7. CASE \/ \E t \in Tasks : ChildEnds(t)
           \/ \E names \in SUBSET Tasks \ {{}} : CancelTasks(names)
  <2>1. FleetPart' /\ UNCHANGED vars
    BY <1>7, ChildrenKeep
  <2> QED BY <1>a, <1>b, <2>1
<1>8. CASE \E t \in Tasks : DispatchThrows(t) \/ ChildSettles(t)
  BY <1>8, <1>b, DispatchThrowsKeeps, ChildSettlesKeeps
<1>9. CASE UNCHANGED allVars
  <2>1. UNCHANGED vars /\ UNCHANGED fleetVars
    BY <1>9 DEF allVars
  <2>2. UNCHANGED <<steering, accepting, aborted, revoked, pc, turns, allowRepair, repairs,
                    toolTurns, attempt, emptyRepair, qualityRepairs, completionRepair,
                    outcome, error, accepted, context, answered>>
    BY <2>1, SameRun
  <2>3. UNCHANGED <<entry, round, child, childRun, handle, retain, retained, outbox, licence,
                    wait, waitAll, dispatches, started, stops>>
    BY <2>1, SameFleet
  <2>4. FleetTypeOK' /\ Followed' /\ OutboxOK' /\ QuietAtSeal'
    BY <2>2, <2>3 DEF FleetIInv, FleetTypeOK, TypeOK, Followed, OutboxOK, QuietAtSeal,
       Outstanding
  <2>5. Ledger' /\ LicenceOK'
    BY <2>2, <2>3 DEF FleetIInv, Ledger, Starting, LicenceOK, CancellationsLicensed, Said
  <2>6. ReportedIffEnded' /\ ReportedOnce'
    BY <2>2, <2>3, ReportsKept DEF Posted
  <2> QED BY <1>a, <1>b, <2>1, <2>4, <2>5, <2>6 DEF FleetPart
<1> QED
  BY <1>1, <1>2, <1>3, <1>4, <1>5, <1>6, <1>7, <1>8, <1>9
  DEF FleetNext, ParentStep, ToolStep, TaskStep

(* The invariant holds in every reachable state.                           *)
LEMMA FleetInvariance == FleetSpec => []FleetIInv
<1>1. FleetIInv /\ [FleetNext]_allVars => FleetIInv'
  BY NextFleetIInv
<1> QED BY <1>1, InitFleetIInv, PTL DEF FleetSpec

(* Every dispatch that ended is reported exactly once and none before its  *)
(* end, whatever became of the parent: neither a cancelled control nor a   *)
(* sealed one loses or doubles a report.                                   *)
THEOREM EveryDispatchReported == FleetSpec => []PostConserved
<1>1. FleetIInv => PostConserved
  BY ReportsCounted DEF FleetIInv
<1> QED BY <1>1, FleetInvariance, PTL

(* A run that completes without having been stopped has no task out and    *)
(* has put the report of every dispatch to the model.                      *)
THEOREM CompletionHeardEveryone == FleetSpec => []CompletedHeardEveryone
<1>1. FleetIInv => CompletedHeardEveryone
  <2> SUFFICES ASSUME FleetIInv, outcome = "completed", ~Stopped
               PROVE  /\ Outstanding = {}
                      /\ \A t \in Tasks : \A r \in 1..round[t] :
                           \E i \in 1..answered : context[i] = <<t, r>>
    BY DEF CompletedHeardEveryone
  <2>1. ~accepting /\ ~aborted /\ Outstanding = {}
    BY DEF FleetIInv, QuietAtSeal, Stopped
  <2>2. steering = <<>> /\ answered = Len(context) /\ context \in Seq(Messages)
    BY <2>1 DEF FleetIInv, IInv, SealOK, TypeOK
  <2>3. Posted = context
    <3>1. Posted = accepted
      BY <2>1, PostedTyped
    <3>2. accepted = context
      BY <2>2, ConcatEmpty DEF FleetIInv, IInv, SteeringConserved
    <3> QED BY <3>1, <3>2
  <2>4. ASSUME NEW t \in Tasks, NEW r \in 1..round[t]
        PROVE  \E i \in 1..answered : context[i] = <<t, r>>
    <3>1. round[t] \in 0..MaxRounds /\ MaxRounds \in Nat /\ Rounds = 1..MaxRounds
      BY Kinds DEF FleetIInv, FleetTypeOK
    <3>2. r \in Rounds /\ (r < round[t] \/ r = round[t])
      BY <3>1
    <3>3. entry[t] # "running"
      BY <2>1 DEF Outstanding
    <3>4. Ended(t, r)
      BY <3>2, <3>3 DEF Ended
    <3>5. \E i \in DOMAIN Posted : Posted[i] = <<t, r>>
      BY <3>2, <3>4 DEF FleetIInv, ReportedIffEnded
    <3>6. DOMAIN Posted = 1..answered
      BY <2>2, <2>3, LenProperties
    <3> QED BY <2>3, <3>5, <3>6
  <2> QED BY <2>1, <2>4
<1> QED BY <1>1, FleetInvariance, PTL

(* The fleet's books are kept, and parallel dispatches of one turn do not  *)
(* race past maxDispatches: reservations and started dispatches together   *)
(* stay within it.                                                         *)
THEOREM BooksAreKept == FleetSpec => []FleetBooks
<1>1. FleetIInv => FleetBooks
  <2> SUFFICES ASSUME FleetIInv PROVE FleetBooks
    OBVIOUS
  <2>1. /\ dispatches = started + Cardinality(Starting) /\ dispatches <= MaxDispatches
        /\ started \in Nat /\ Cardinality(Starting) \in Nat /\ MaxDispatches \in Nat
    BY FS_CardinalityType, Kinds DEF FleetIInv, Ledger, FleetTypeOK
  <2>2. started <= MaxDispatches
    BY <2>1
  <2> QED BY <2>2 DEF FleetIInv, FleetBooks, DispatchesBounded
<1> QED BY <1>1, FleetInvariance, PTL

(* One redirection of the user licenses one cancellation.                  *)
THEOREM CancellationsAreLicensed == FleetSpec => []CancellationsLicensed
<1>1. FleetIInv => CancellationsLicensed
  BY DEF FleetIInv, LicenceOK
<1> QED BY <1>1, FleetInvariance, PTL

(* With a fleet the run still implements RunContract: reports are accepted *)
(* like the user's words, and a completed run has put them all to the      *)
(* model.                                                                  *)
THEOREM FleetContract == FleetSpec => ImplementsContractWithFleet
<1>1. FleetInit => Contract!Init
  BY DEF FleetInit, Init, Contract!Init
<1>2. FleetIInv /\ [FleetNext]_allVars => [Contract!Next]_(Contract!contractVars)
  BY NextFleetIInv
<1> QED
  BY <1>1, <1>2, FleetInvariance, PTL
  DEF FleetSpec, ImplementsContractWithFleet, Contract!Spec
=============================================================================
