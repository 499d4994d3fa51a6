----------------------------- MODULE KeyedMutex -----------------------------
(***************************************************************************)
(* The process-wide keyed mutex of packages/core/src/locks.ts.             *)
(*                                                                         *)
(* A call of run creates a promise `mine`, chains it behind the tail it    *)
(* finds in the table and installs the chained promise as the new tail.    *)
(* A tail is named by the call that installed it.  JavaScript runs each    *)
(* stretch between two awaits alone, so an action here is one such         *)
(* stretch; the order in which reactions to settled promises run is left   *)
(* open, which covers every order the microtask queue can produce.         *)
(***************************************************************************)

CONSTANTS Calls,      \* the calls of run that are ever made
          Keys,       \* the keys they name
          NoKey,      \* the key of a call not made yet
          NoTail      \* the table holds no entry

VARIABLES tails,      \* tails[k]: the call whose tail the table holds, or NoTail
          phase,      \* phase[c]: "idle", "waiting", "working" or "left"
          onKey,      \* onKey[c]: the key c was called with
          earlier,    \* earlier[c]: the tail c found when it was called
          tailDone,   \* tailDone[c]: the tail c installed has settled
          forgot,     \* forgot[c]: c's clean-up reaction has run
          ahead       \* auxiliary: the calls made on c's key before c

ASSUME NamesAssumption == NoTail \notin Calls /\ NoKey \notin Keys

vars == <<tails, phase, onKey, earlier, tailDone, forgot, ahead>>

-----------------------------------------------------------------------------
Asked(k) == {c \in Calls : onKey[c] = k}

(* Every promise a call waits for or is chained behind has settled.        *)
Settled(t) == t = NoTail \/ tailDone[t]

Init ==
  /\ tails = [k \in Keys |-> NoTail]
  /\ phase = [c \in Calls |-> "idle"]
  /\ onKey = [c \in Calls |-> NoKey]
  /\ earlier = [c \in Calls |-> NoTail]
  /\ tailDone = [c \in Calls |-> FALSE]
  /\ forgot = [c \in Calls |-> FALSE]
  /\ ahead = [c \in Calls |-> {}]

(* A mutated form: run does not await the tail it found.                   *)
RunWithoutWaiting(c, k) ==
  /\ phase[c] = "idle"
  /\ onKey' = [onKey EXCEPT ![c] = k]
  /\ earlier' = [earlier EXCEPT ![c] = tails[k]]
  /\ tails' = [tails EXCEPT ![k] = c]
  /\ phase' = [phase EXCEPT ![c] = "working"]
  /\ ahead' = [ahead EXCEPT ![c] = Asked(k)]
  /\ UNCHANGED <<tailDone, forgot>>

(* run up to its first await: a call that finds no tail starts its work at *)
(* once, any other waits.                                                  *)
Run(c, k) ==
  /\ phase[c] = "idle"
  /\ onKey' = [onKey EXCEPT ![c] = k]
  /\ earlier' = [earlier EXCEPT ![c] = tails[k]]
  /\ tails' = [tails EXCEPT ![k] = c]
  /\ phase' = [phase EXCEPT ![c] = IF tails[k] = NoTail THEN "working"
                                                        ELSE "waiting"]
  /\ ahead' = [ahead EXCEPT ![c] = Asked(k)]
  /\ UNCHANGED <<tailDone, forgot>>

(* `await earlier` resumes.                                                *)
Start(c) ==
  /\ phase[c] = "waiting"
  /\ Settled(earlier[c])
  /\ phase' = [phase EXCEPT ![c] = "working"]
  /\ UNCHANGED <<tails, onKey, earlier, tailDone, forgot, ahead>>

(* The work resolves or rejects; the finally block releases either way.    *)
(* A call that chained behind nothing installed `mine` itself as the tail, *)
(* so its tail settles with the release.                                   *)
Release(c) ==
  /\ phase[c] = "working"
  /\ phase' = [phase EXCEPT ![c] = "left"]
  /\ tailDone' = [tailDone EXCEPT ![c] = (earlier[c] = NoTail)]
  /\ UNCHANGED <<tails, onKey, earlier, forgot, ahead>>

(* `earlier.then(() => mine)` settles some microtasks after both have.     *)
SettleTail(c) ==
  /\ phase[c] = "left"
  /\ ~tailDone[c]
  /\ Settled(earlier[c])
  /\ tailDone' = [tailDone EXCEPT ![c] = TRUE]
  /\ UNCHANGED <<tails, phase, onKey, earlier, forgot, ahead>>

(* A mutated form: the clean-up deletes the key without comparing tails.   *)
ForgetAnyTail(c) ==
  /\ tailDone[c]
  /\ ~forgot[c]
  /\ forgot' = [forgot EXCEPT ![c] = TRUE]
  /\ tails' = [tails EXCEPT ![onKey[c]] = NoTail]
  /\ UNCHANGED <<phase, onKey, earlier, tailDone, ahead>>

(* A mutated form: the clean-up never deletes the key.                     *)
ForgetNothing(c) ==
  /\ tailDone[c]
  /\ ~forgot[c]
  /\ forgot' = [forgot EXCEPT ![c] = TRUE]
  /\ UNCHANGED <<tails, phase, onKey, earlier, tailDone, ahead>>

(* The clean-up reaction on the tail: the key is dropped only when the     *)
(* table still holds this very tail.                                       *)
Forget(c) ==
  /\ tailDone[c]
  /\ ~forgot[c]
  /\ forgot' = [forgot EXCEPT ![c] = TRUE]
  /\ tails' = IF tails[onKey[c]] = c
              THEN [tails EXCEPT ![onKey[c]] = NoTail]
              ELSE tails
  /\ UNCHANGED <<phase, onKey, earlier, tailDone, ahead>>

(* held(key)                                                               *)
Held(k) == tails[k] # NoTail

Next ==
  \E c \in Calls :
    \/ \E k \in Keys : Run(c, k)
    \/ Start(c)
    \/ Release(c)
    \/ SettleTail(c)
    \/ Forget(c)

(* Reactions to settled promises always run, and the callers' work ends:   *)
(* nothing obliges a caller to call.                                       *)
Fairness ==
  \A c \in Calls :
    /\ WF_vars(Start(c))
    /\ WF_vars(Release(c))
    /\ WF_vars(SettleTail(c))
    /\ WF_vars(Forget(c))

Spec == Init /\ [][Next]_vars /\ Fairness

-----------------------------------------------------------------------------
(* Every variable has the shape the code gives it.                         *)
TypeOK ==
  /\ tails \in [Keys -> Calls \cup {NoTail}]
  /\ phase \in [Calls -> {"idle", "waiting", "working", "left"}]
  /\ onKey \in [Calls -> Keys \cup {NoKey}]
  /\ earlier \in [Calls -> Calls \cup {NoTail}]
  /\ tailDone \in [Calls -> BOOLEAN]
  /\ forgot \in [Calls -> BOOLEAN]
  /\ ahead \in [Calls -> SUBSET Calls]

(* No two pieces of work on one key overlap (locks.ts, run): the span      *)
(* across an await is never shared, however late the clean-up reactions of *)
(* earlier calls run.                                                      *)
MutualExclusion ==
  \A c, d \in Calls :
    phase[c] = "working" /\ phase[d] = "working" /\ onKey[c] = onKey[d]
      => c = d

(* held(key) and the next caller both rely on the table: as long as a call *)
(* holds or waits for a key, the table has an entry for it, so no newcomer *)
(* can start beside it (the identity comparison in run's finally block).   *)
TableCoversWork ==
  \A c \in Calls : phase[c] \in {"waiting", "working"} => Held(onKey[c])

(* "A key nothing is waiting on is dropped" (class comment of KeyedMutex): *)
(* finitely many calls leave no entry behind, so the table always empties  *)
(* again.                                                                  *)
TableEmpties == \A k \in Keys : []<>(~Held(k))

(* Order and exclusion as the doc comment of run states them, with the     *)
(* promise that every queued call is eventually served.                    *)
Lock == INSTANCE KeyedLock
ImplementsKeyedLock == Lock!Spec
=============================================================================
