---------------------------- MODULE RunContract ----------------------------
(***************************************************************************)
(* What an agent run promises whoever talks to it while it works: words it *)
(* accepts are put to the model in the order they were said, and a run     *)
(* that reports itself completed has put every one of them to the model.   *)
(* AgentRun (the run loop of packages/core/src/runner.ts with its control) *)
(* is shown to implement this specification.                               *)
(***************************************************************************)
EXTENDS Naturals, Sequences

CONSTANT Messages     \* what may be said to a run

VARIABLES accepted,   \* the words accepted so far, in order
          answered,   \* how many of them a model turn has been given
          open,       \* the run still takes words
          outcome     \* "none" while it works, then how it ended

contractVars == <<accepted, answered, open, outcome>>

Init ==
  /\ accepted = <<>>
  /\ answered = 0
  /\ open = TRUE
  /\ outcome = "none"

(* Words are added to those accepted, several of them when the run takes a *)
(* post in one go.                                                         *)
Accept ==
  /\ open
  /\ accepted' \in Seq(Messages)
  /\ Len(accepted') > Len(accepted)
  /\ SubSeq(accepted', 1, Len(accepted)) = accepted
  /\ UNCHANGED <<answered, open, outcome>>

(* A model turn starts with some prefix of what has been said.             *)
TakeTurn ==
  /\ outcome = "none" /\ open
  /\ answered' \in answered..Len(accepted)
  /\ UNCHANGED <<accepted, open, outcome>>

(* The run stops listening, having left nothing unheard.                   *)
Close ==
  /\ outcome = "none" /\ open
  /\ answered = Len(accepted)
  /\ open' = FALSE
  /\ UNCHANGED <<accepted, answered, outcome>>

(* A run ends once; only a run that stopped listening first is completed.  *)
End ==
  /\ outcome = "none"
  /\ outcome' \in {"failed", "cancelled"} \cup (IF open THEN {} ELSE {"completed"})
  /\ UNCHANGED <<accepted, answered, open>>

Next == Accept \/ TakeTurn \/ Close \/ End

Spec == Init /\ [][Next]_contractVars
=============================================================================
