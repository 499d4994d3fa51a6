----------------------------- MODULE KeyedLock -----------------------------
(***************************************************************************)
(* What KeyedMutex.run promises its callers (the doc comment of run in     *)
(* packages/core/src/locks.ts): work runs "once every earlier caller for   *)
(* key has finished".  No promises, no table: each call remembers the set  *)
(* of calls made on its key before it, and may enter when all of those     *)
(* have left.  KeyedMutex is shown to implement this specification.        *)
(***************************************************************************)

CONSTANTS Calls,    \* the calls of run that are ever made
          Keys,     \* the keys they name
          NoKey     \* the key of a call not made yet

VARIABLES phase,    \* phase[c]: where call c has got to
          onKey,    \* onKey[c]: the key c asked for, NoKey before it asks
          ahead     \* ahead[c]: the calls made on the same key before c

lockVars == <<phase, onKey, ahead>>

Asked(k) == {c \in Calls : onKey[c] = k}

MayEnter(earlier) == \A d \in earlier : phase[d] = "left"

Init ==
  /\ phase = [c \in Calls |-> "idle"]
  /\ onKey = [c \in Calls |-> NoKey]
  /\ ahead = [c \in Calls |-> {}]

(* A call takes its place in line; it may go straight in when nobody is    *)
(* ahead of it.                                                            *)
Ask(c, k) ==
  /\ phase[c] = "idle"
  /\ onKey' = [onKey EXCEPT ![c] = k]
  /\ ahead' = [ahead EXCEPT ![c] = Asked(k)]
  /\ \/ phase' = [phase EXCEPT ![c] = "waiting"]
     \/ /\ MayEnter(Asked(k))
        /\ phase' = [phase EXCEPT ![c] = "working"]

Enter(c) ==
  /\ phase[c] = "waiting"
  /\ MayEnter(ahead[c])
  /\ phase' = [phase EXCEPT ![c] = "working"]
  /\ UNCHANGED <<onKey, ahead>>

Leave(c) ==
  /\ phase[c] = "working"
  /\ phase' = [phase EXCEPT ![c] = "left"]
  /\ UNCHANGED <<onKey, ahead>>

Next ==
  \E c \in Calls : (\E k \in Keys : Ask(c, k)) \/ Enter(c) \/ Leave(c)

(* Nobody in line is overlooked, provided the work itself ends.            *)
Fairness == \A c \in Calls : WF_lockVars(Enter(c)) /\ WF_lockVars(Leave(c))

Spec == Init /\ [][Next]_lockVars /\ Fairness
=============================================================================
