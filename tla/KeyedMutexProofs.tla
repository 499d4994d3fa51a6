-------------------------- MODULE KeyedMutexProofs --------------------------
(***************************************************************************)
(* Proofs about KeyedMutex for every set of calls and keys.  The inductive *)
(* invariant ties the promise chain (tails, earlier, tailDone) to the      *)
(* auxiliary order `ahead`: the table holds the last caller of a key, a    *)
(* call is chained directly behind the caller before it, and a tail that   *)
(* settled has only settled tails ahead of it.                             *)
(***************************************************************************)
EXTENDS KeyedMutex, TLAPS

(* A call has a key exactly when it has been made, and only calls on the   *)
(* same key are ahead of it.                                               *)
AheadOK ==
  /\ \A c \in Calls : phase[c] = "idle" <=> onKey[c] = NoKey
  /\ \A c, d \in Calls :
       d \in ahead[c] => onKey[c] \in Keys /\ onKey[d] = onKey[c] /\ d # c

(* Of two calls on one key, one is ahead of the other.                     *)
Ordered ==
  \A c, d \in Calls :
    onKey[c] = onKey[d] /\ onKey[c] \in Keys /\ c # d
      => c \in ahead[d] \/ d \in ahead[c]

(* The table holds the last caller of a key, or everyone has finished.     *)
TableOK ==
  \A k \in Keys :
    IF tails[k] = NoTail
    THEN \A c \in Asked(k) : tailDone[c]
    ELSE onKey[tails[k]] = k /\ ahead[tails[k]] = Asked(k) \ {tails[k]}

(* A call is chained behind the caller directly before it.                 *)
ChainOK ==
  \A c \in Calls :
    IF earlier[c] = NoTail
    THEN \A d \in ahead[c] : tailDone[d]
    ELSE ahead[c] = ahead[earlier[c]] \cup {earlier[c]}

(* Nobody works, leaves or settles before everyone ahead has settled.      *)
DoneOK ==
  \A c \in Calls :
    /\ tailDone[c] => phase[c] = "left"
    /\ phase[c] \in {"working", "left"} => \A d \in ahead[c] : tailDone[d]

IInv == TypeOK /\ AheadOK /\ Ordered /\ TableOK /\ ChainOK /\ DoneOK

-----------------------------------------------------------------------------
(* The invariant holds before any call is made.                            *)
LEMMA InitIInv == Init => IInv
  BY NamesAssumption
  DEF Init, IInv, TypeOK, AheadOK, Ordered, TableOK, ChainOK, DoneOK, Asked

(* Every stretch of run and of its reactions keeps the invariant.          *)
LEMMA NextIInv == IInv /\ [Next]_vars => IInv'
<1> SUFFICES ASSUME IInv, [Next]_vars PROVE IInv'
  OBVIOUS
<1> USE NamesAssumption
<1> USE DEF IInv
<1>1. ASSUME NEW c \in Calls, NEW k \in Keys, Run(c, k) PROVE IInv'
  <2> DEFINE e == tails[k]
  <2>0. /\ phase[c] = "idle" /\ onKey[c] = NoKey /\ c \notin Asked(k)
        /\ ahead[c] = {} /\ ~tailDone[c]
        /\ \A d \in Calls : c \notin ahead[d]
    BY <1>1 DEF Run, AheadOK, DoneOK, Asked, TypeOK
  <2>1. /\ onKey' = [onKey EXCEPT ![c] = k]
        /\ earlier' = [earlier EXCEPT ![c] = e]
        /\ tails' = [tails EXCEPT ![k] = c]
        /\ phase' = [phase EXCEPT ![c] = IF e = NoTail THEN "working"
                                                       ELSE "waiting"]
        /\ ahead' = [ahead EXCEPT ![c] = Asked(k)]
        /\ tailDone' = tailDone /\ forgot' = forgot
    BY <1>1 DEF Run
  <2>2. TypeOK'
    BY <2>1 DEF TypeOK, Asked
  <2>3. \A j \in Keys : Asked(j)' = IF j = k THEN Asked(j) \cup {c} ELSE Asked(j)
    BY <2>0, <2>1 DEF Asked, TypeOK
  <2>4. AheadOK'
    BY <2>0, <2>1 DEF AheadOK, TypeOK, Asked
  <2>5. Ordered'
    BY <2>0, <2>1 DEF Ordered, TypeOK, Asked
  <2>6. TableOK'
    <3> SUFFICES ASSUME NEW j \in Keys
                 PROVE (IF tails[j] = NoTail
                        THEN \A d \in Asked(j) : tailDone[d]
                        ELSE onKey[tails[j]] = j
                             /\ ahead[tails[j]] = Asked(j) \ {tails[j]})'
      BY DEF TableOK
    <3>1. CASE j = k
      BY <3>1, <2>0, <2>1, <2>3 DEF TypeOK
    <3>2. CASE j # k
      <4>1. tails'[j] = tails[j] /\ Asked(j)' = Asked(j) /\ tails[j] # c
        BY <3>2, <2>0, <2>1, <2>3 DEF TypeOK, TableOK
      <4>2. CASE tails[j] = NoTail
        BY <4>1, <4>2, <2>1 DEF TableOK
      <4>3. CASE tails[j] # NoTail
        BY <4>1, <4>3, <2>1 DEF TableOK, TypeOK
      <4> QED BY <4>2, <4>3
    <3> QED BY <3>1, <3>2
  <2>7. ChainOK'
    <3> SUFFICES ASSUME NEW d \in Calls
                 PROVE (IF earlier[d] = NoTail
                        THEN \A x \in ahead[d] : tailDone[x]
                        ELSE ahead[d] = ahead[earlier[d]] \cup {earlier[d]})'
      BY DEF ChainOK
    <3>1. CASE d = c
      <4>1. CASE e = NoTail
        BY <3>1, <4>1, <2>1 DEF TypeOK, TableOK
      <4>2. CASE e # NoTail
        <5>1. e \in Calls /\ e # c /\ ahead[e] = Asked(k) \ {e} /\ e \in Asked(k)
          BY <4>2, <2>0 DEF TypeOK, TableOK, Asked
        <5> QED BY <3>1, <4>2, <5>1, <2>1 DEF TypeOK
      <4> QED BY <4>1, <4>2
    <3>2. CASE d # c
      <4>1. earlier'[d] = earlier[d] /\ ahead'[d] = ahead[d] /\ earlier[d] # c
        BY <3>2, <2>0, <2>1 DEF TypeOK, ChainOK
      <4>2. CASE earlier[d] = NoTail
        BY <4>1, <4>2, <2>1 DEF ChainOK
      <4>3. CASE earlier[d] # NoTail
        BY <4>1, <4>3, <2>1 DEF ChainOK, TypeOK
      <4> QED BY <4>2, <4>3
    <3> QED BY <3>1, <3>2
  <2>8. DoneOK'
    BY <2>0, <2>1 DEF DoneOK, TypeOK, TableOK
  <2> QED BY <2>2, <2>4, <2>5, <2>6, <2>7, <2>8
<1>2. ASSUME NEW c \in Calls, Start(c) PROVE IInv'
  <2>1. phase' = [phase EXCEPT ![c] = "working"] /\ phase[c] = "waiting"
        /\ UNCHANGED <<tails, onKey, earlier, tailDone, forgot, ahead>>
        /\ Settled(earlier[c])
    BY <1>2 DEF Start
  <2>2. \A d \in ahead[c] : tailDone[d]
    <3>1. CASE earlier[c] = NoTail
      BY <3>1 DEF ChainOK
    <3>2. CASE earlier[c] # NoTail
      <4>1. earlier[c] \in Calls /\ tailDone[earlier[c]]
            /\ ahead[c] = ahead[earlier[c]] \cup {earlier[c]}
        BY <3>2, <2>1 DEF ChainOK, TypeOK, Settled
      <4> QED BY <4>1 DEF DoneOK
    <3> QED BY <3>1, <3>2
  <2>3. TypeOK' /\ AheadOK' /\ Ordered' /\ TableOK' /\ ChainOK'
    BY <2>1 DEF TypeOK, AheadOK, Ordered, TableOK, ChainOK, Asked
  <2>4. DoneOK'
    BY <2>1, <2>2 DEF DoneOK, TypeOK
  <2> QED BY <2>3, <2>4
<1>3. ASSUME NEW c \in Calls, Release(c) PROVE IInv'
  <2>1. /\ phase[c] = "working" /\ phase' = [phase EXCEPT ![c] = "left"]
        /\ tailDone' = [tailDone EXCEPT ![c] = (earlier[c] = NoTail)]
        /\ UNCHANGED <<tails, onKey, earlier, forgot, ahead>>
    BY <1>3 DEF Release
  <2>2. \A d \in Calls : tailDone[d] => tailDone'[d]
    BY <2>1 DEF DoneOK, TypeOK
  <2>3. TypeOK' /\ AheadOK' /\ Ordered'
    BY <2>1 DEF TypeOK, AheadOK, Ordered
  <2>4. TableOK' /\ ChainOK'
    BY <2>1, <2>2 DEF TypeOK, TableOK, ChainOK, Asked
  <2>5. DoneOK'
    BY <2>1, <2>2 DEF TypeOK, DoneOK
  <2> QED BY <2>3, <2>4, <2>5
<1>4. ASSUME NEW c \in Calls, SettleTail(c) PROVE IInv'
  <2>1. /\ phase[c] = "left" /\ tailDone' = [tailDone EXCEPT ![c] = TRUE]
        /\ UNCHANGED <<tails, phase, onKey, earlier, forgot, ahead>>
    BY <1>4 DEF SettleTail
  <2>2. \A d \in Calls : tailDone[d] => tailDone'[d]
    BY <2>1 DEF TypeOK
  <2>3. TypeOK' /\ AheadOK' /\ Ordered'
    BY <2>1 DEF TypeOK, AheadOK, Ordered
  <2>4. TableOK' /\ ChainOK'
    BY <2>1, <2>2 DEF TypeOK, TableOK, ChainOK, Asked
  <2>5. DoneOK'
    BY <2>1, <2>2 DEF TypeOK, DoneOK
  <2> QED BY <2>3, <2>4, <2>5
<1>5. ASSUME NEW c \in Calls, Forget(c) PROVE IInv'
  <2> DEFINE k == onKey[c]
  <2>1. /\ tailDone[c] /\ phase[c] = "left" /\ k \in Keys
        /\ forgot' = [forgot EXCEPT ![c] = TRUE]
        /\ tails' = IF tails[k] = c THEN [tails EXCEPT ![k] = NoTail] ELSE tails
        /\ UNCHANGED <<phase, onKey, earlier, tailDone, ahead>>
    BY <1>5 DEF Forget, DoneOK, AheadOK, TypeOK
  <2>2. TypeOK' /\ AheadOK' /\ Ordered' /\ ChainOK' /\ DoneOK'
    BY <2>1 DEF TypeOK, AheadOK, Ordered, ChainOK, DoneOK
  <2>3. TableOK'
    <3>1. CASE tails[k] = c
      <4>1. \A d \in Asked(k) : tailDone[d]
        BY <2>1, <3>1 DEF TableOK, DoneOK
      <4> QED BY <2>1, <3>1, <4>1 DEF TableOK, TypeOK, Asked
    <3>2. CASE tails[k] # c
      BY <2>1, <3>2 DEF TableOK, TypeOK, Asked
    <3> QED BY <3>1, <3>2
  <2> QED BY <2>2, <2>3
<1>6. CASE UNCHANGED vars
  BY <1>6 DEF vars, TypeOK, AheadOK, Ordered, TableOK, ChainOK, DoneOK, Asked
<1> QED BY <1>1, <1>2, <1>3, <1>4, <1>5, <1>6 DEF Next

(* Hence the invariant holds in every reachable state.                     *)
LEMMA Invariance == Spec => []IInv
  BY InitIInv, NextIInv, PTL DEF Spec

-----------------------------------------------------------------------------
(* The table, the phases and the chain keep their shapes.                  *)
THEOREM TypeCorrect == Spec => []TypeOK
<1>1. IInv => TypeOK
  BY DEF IInv
<1> QED BY <1>1, Invariance, PTL

(* Work on one key never overlaps, for any number of calls and keys and    *)
(* any order of promise reactions (locks.ts, KeyedMutex.run).              *)
THEOREM Exclusion == Spec => []MutualExclusion
<1>1. IInv => MutualExclusion
  <2> SUFFICES ASSUME IInv, NEW c \in Calls, NEW d \in Calls,
                      phase[c] = "working", phase[d] = "working",
                      onKey[c] = onKey[d], c # d
               PROVE FALSE
    BY DEF MutualExclusion
  <2>1. onKey[c] \in Keys
    BY DEF IInv, AheadOK, TypeOK
  <2>2. c \in ahead[d] \/ d \in ahead[c]
    BY <2>1 DEF IInv, Ordered
  <2> QED BY <2>2 DEF IInv, DoneOK
<1> QED BY <1>1, Invariance, PTL

(* The table never loses a key that is held or waited for, so held(key)    *)
(* is right and no newcomer starts beside the holder.                      *)
THEOREM Coverage == Spec => []TableCoversWork
<1>1. IInv => TableCoversWork
  <2> SUFFICES ASSUME IInv, NEW c \in Calls,
                      phase[c] \in {"waiting", "working"},
                      tails[onKey[c]] = NoTail
               PROVE FALSE
    BY DEF TableCoversWork, Held
  <2>1. onKey[c] \in Keys
    BY DEF IInv, AheadOK, TypeOK
  <2>2. tailDone[c]
    BY <2>1 DEF IInv, TableOK, Asked
  <2> QED BY <2>2 DEF IInv, DoneOK
<1> QED BY <1>1, Invariance, PTL

(* The promise chain implements the line of KeyedLock step by step (its    *)
(* fairness is model-checked only).                                        *)
THEOREM Refinement == Spec => Lock!Init /\ [][Lock!Next]_(Lock!lockVars)
<1>1. Init => Lock!Init
  BY DEF Init, Lock!Init
<1>2. IInv /\ [Next]_vars => [Lock!Next]_(Lock!lockVars)
  <2> SUFFICES ASSUME IInv, [Next]_vars PROVE [Lock!Next]_(Lock!lockVars)
    OBVIOUS
  <2>1. ASSUME NEW c \in Calls, NEW k \in Keys, Run(c, k) PROVE Lock!Next
    <3>1. tails[k] = NoTail => \A d \in Asked(k) : phase[d] = "left"
      BY DEF IInv, TableOK, DoneOK, Asked
    <3>2. Lock!Asked(k) = Asked(k)
      BY DEF Lock!Asked, Asked
    <3>3. Lock!Ask(c, k)
      BY <2>1, <3>1, <3>2 DEF Run, Lock!Ask, Lock!MayEnter
    <3> QED BY <3>3 DEF Lock!Next
  <2>2. ASSUME NEW c \in Calls, Start(c) PROVE Lock!Next
    <3>1. IInv'
      BY <2>2, NextIInv DEF Next
    <3>2. \A d \in ahead[c] : d \in Calls /\ tailDone[d]
      BY <2>2, <3>1 DEF Start, IInv, DoneOK, TypeOK
    <3>3. Lock!Enter(c)
      BY <2>2, <3>2 DEF Start, Lock!Enter, Lock!MayEnter, IInv, DoneOK
    <3> QED BY <3>3 DEF Lock!Next
  <2>3. ASSUME NEW c \in Calls, Release(c) PROVE Lock!Next
    BY <2>3 DEF Release, Lock!Leave, Lock!Next
  <2>4. ASSUME NEW c \in Calls, SettleTail(c) PROVE UNCHANGED Lock!lockVars
    BY <2>4 DEF SettleTail, Lock!lockVars
  <2>5. ASSUME NEW c \in Calls, Forget(c) PROVE UNCHANGED Lock!lockVars
    BY <2>5 DEF Forget, Lock!lockVars
  <2>6. CASE UNCHANGED vars
    BY <2>6 DEF vars, Lock!lockVars
  <2> QED BY <2>1, <2>2, <2>3, <2>4, <2>5, <2>6 DEF Next
<1> QED BY <1>1, <1>2, Invariance, PTL DEF Spec
=============================================================================
