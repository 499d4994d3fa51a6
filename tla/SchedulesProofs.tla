--------------------------- MODULE SchedulesProofs ---------------------------
(***************************************************************************)
(* Proofs about the scheduler for every set of schedules, every kind of    *)
(* frequency, every horizon, sleep and history limit.  Most of what must   *)
(* hold of a schedule is a property of its record alone (ItemOK), which    *)
(* the store has to satisfy as well, since a restart brings it back.  That *)
(* nothing waits too long is about the timer: a due schedule has waited    *)
(* for as long as the timer has slept since, at most.                      *)
(***************************************************************************)
EXTENDS Schedules, SequenceTheorems, WellFoundedInduction, TLAPS

Marks == {"running", "succeeded", "failed"}

(* A record is sound: a history within its limit that says "running" of    *)
(* the newest run only, and only if the status does; an active schedule    *)
(* has a next run.                                                         *)
ItemOK(it) ==
    /\ it \in Item
    /\ Len(it.history) <= HistoryLimit
    /\ \A k \in DOMAIN it.history : it.history[k] = "running" => k = 1 /\ it.status = "running"
    /\ it.status = "active" => it.next # Never

Basics ==
    /\ clock \in Instants /\ bootAt \in Instants /\ bootAt <= clock
    /\ mode \in {"up", "stopping", "down"}
    /\ running \subseteq used /\ inflight \in [Ids -> Nat] /\ timer \in Nat
    /\ owned \subseteq used /\ used \subseteq Ids
    /\ wish \subseteq used /\ overridden \subseteq used
    /\ waited \in [Ids -> Nat] /\ since \in [Ids -> Instants \cup {0}]

ItemsOK == Exists \subseteq used /\ \A i \in Exists : ItemOK(items[i])
StoreOK == DOMAIN stored \subseteq used /\ \A i \in DOMAIN stored : ItemOK(stored[i])

(* Nothing runs in a process that is not there.                            *)
DownOK == mode = "down" => /\ Exists = {} /\ running = {}
                           /\ \A i \in Ids : inflight[i] = 0 /\ waited[i] = 0

(* The store keeps what the user owns and paused.                          *)
StoreKeeps ==
    /\ owned \subseteq DOMAIN stored
    /\ mode # "down" => owned \subseteq Exists
    /\ \A i \in (wish \cap DOMAIN stored) \ overridden :
           stored[i].status = "paused" /\ stored[i].next = Never

(* Every next run was computed by this process.                            *)
SinceBoot == \A i \in Exists : items[i].next = Never \/ items[i].next >= bootAt

(* Only an overdue schedule has waited, and what a due one has waited and  *)
(* what the timer still sleeps are within MaxSleep together.               *)
WaitOK ==
    /\ \A i \in Ids \ used : waited[i] = 0
    /\ \A i \in Exists : ~Overdue(items[i]) => waited[i] = 0
    /\ mode = "up" =>
          /\ clock <= timer /\ timer <= clock + MaxSleep
          /\ \A i \in Exists : Due(items[i]) => waited[i] + (timer - clock) <= MaxSleep

IInv ==
    /\ Basics /\ ItemsOK /\ StoreOK /\ NoOverlap /\ DownOK /\ StoreKeeps /\ PauseHolds
    /\ NextIsEarliest /\ SinceBoot /\ WaitOK

-----------------------------------------------------------------------------
(* The least of a set of instants.                                         *)

(* EarliestOf returns a least element of a set that has elements.          *)
LEMMA EarliestIsLeast ==
  ASSUME NEW S \in SUBSET Nat, S # {}
  PROVE  EarliestOf(S) \in S /\ \A u \in S : EarliestOf(S) <= u
<1> DEFINE less == {ss \in Nat \X Nat : ss[1] < ss[2]}
<1>1. IsWellFoundedOn(less, Nat)
  BY NatLessThanWellFounded, Zenon DEF OpToRel
<1>2. \A y, x \in Nat : y < x => <<y, x>> \in less
  OBVIOUS
<1> HIDE DEF less
<1>3. PICK t \in S : \A u \in S : ~ (<<u, t>> \in less)
  BY <1>1, WFMin
<1>4. \A u \in S : t <= u
  <2> SUFFICES ASSUME NEW u \in S PROVE t <= u
    OBVIOUS
  <2>1. u \in Nat /\ t \in Nat /\ ~(u < t)
    BY <1>2, <1>3
  <2> QED BY <2>1
<1> QED BY <1>4 DEF EarliestOf

(* nextRunAfter is an instant of the frequency after the given one, and    *)
(* none between them is skipped; or there is none.                         *)
LEMMA NextRunIsNext ==
  ASSUME NEW freq \in Frequencies, NEW now \in Nat
  PROVE  \/ /\ NextRunAfter(freq, now) = Never
            /\ \A t \in freq.at : t <= now
         \/ /\ NextRunAfter(freq, now) \in freq.at /\ NextRunAfter(freq, now) \in Instants
            /\ NextRunAfter(freq, now) > now
            /\ \A t \in freq.at : t > now => NextRunAfter(freq, now) <= t
<1> DEFINE later == {t \in freq.at : t > now}
<1>1. freq.at \subseteq Instants /\ Instants \subseteq Nat
  BY SchedulesAssumption DEF Instants
<1>2. later \in SUBSET Nat /\ NextRunAfter(freq, now) = EarliestOf(later)
  BY <1>1 DEF NextRunAfter
<1>3. CASE later = {}
  <2>1. ASSUME NEW t \in freq.at PROVE t <= now
    <3>1. t \in Nat
      BY <1>1
    <3>2. ~(t > now)
      BY <1>3
    <3> QED BY <3>1, <3>2
  <2> QED BY <1>2, <1>3, <2>1 DEF EarliestOf
<1>4. CASE later # {}
  BY <1>1, <1>2, <1>4, EarliestIsLeast
<1> QED BY <1>3, <1>4

-----------------------------------------------------------------------------
(* What the handlers do to one record.                                     *)

(* A new run is written in front of a history which then still fits, and   *)
(* it is the only one under way.                                           *)
LEMMA RecordedOK ==
  ASSUME NEW h \in Seq(Marks), Len(h) <= HistoryLimit,
         \A k \in DOMAIN h : h[k] # "running"
  PROVE  /\ Recorded(h) \in Seq(Marks) /\ Len(Recorded(h)) <= HistoryLimit
         /\ \A k \in DOMAIN Recorded(h) : Recorded(h)[k] = "running" => k = 1
<1> DEFINE new == <<"running">> \o h
           n == IF Len(h) < HistoryLimit THEN Len(h) + 1 ELSE HistoryLimit
<1>1. <<"running">> \in Seq(Marks) /\ Len(<<"running">>) = 1
  BY DEF Marks
<1>2. new \in Seq(Marks) /\ Len(new) = 1 + Len(h)
  BY <1>1, ConcatProperties
<1>3. \A k \in 1 .. Len(new) : k # 1 => new[k] = h[k - 1]
  BY <1>1, ConcatProperties
<1>4. Len(h) \in Nat /\ DOMAIN h = 1 .. Len(h)
  BY LenProperties
<1>5. n \in 1 .. Len(new) /\ n <= HistoryLimit
  BY <1>2, <1>4, SchedulesAssumption
<1> HIDE DEF new, n
<1>6. /\ SubSeq(new, 1, n) \in Seq(Marks) /\ Len(SubSeq(new, 1, n)) = n
      /\ \A k \in 1 .. n : SubSeq(new, 1, n)[k] = new[k]
  <2>1. 1 \in 1 .. Len(new) + 1 /\ n \in 1 - 1 .. Len(new) /\ n - 1 + 1 = n
    BY <1>2, <1>4, <1>5
  <2> QED BY <1>2, <1>5, <2>1, SubSeqProperties
<1>7. ASSUME NEW k \in DOMAIN SubSeq(new, 1, n), SubSeq(new, 1, n)[k] = "running", k # 1
      PROVE  FALSE
  <2>1. k \in 1 .. n
    BY <1>6, LenProperties
  <2>2. new[k] = "running" /\ k - 1 \in DOMAIN h /\ k \in 1 .. Len(new)
    BY <1>2, <1>4, <1>5, <1>6, <1>7, <2>1
  <2> QED BY <1>3, <1>7, <2>2
<1> QED BY <1>5, <1>6, <1>7 DEF Recorded, new, n

(* Settling a schedule closes its open run and nothing else: the record is *)
(* sound, does not run any more and keeps its cadence.                     *)
LEMMA SettledOK ==
  ASSUME NEW it, ItemOK(it), NEW outcome \in {"succeeded", "failed"}
  PROVE  /\ ItemOK(Settled(it, outcome))
         /\ Settled(it, outcome).status \in {"active", "failed", "done"}
         /\ Settled(it, outcome).next = it.next /\ Settled(it, outcome).freq = it.freq
<1> DEFINE h == it.history
           nh == IF h # <<>> /\ Head(h) = "running" THEN <<outcome>> \o Tail(h) ELSE h
           st == IF outcome = "failed" THEN "failed"
                 ELSE IF it.next = Never THEN "done" ELSE "active"
           new == [it EXCEPT !.history = nh, !.status = st]
<1>1. it \in Item /\ h \in Seq(Marks) /\ Len(h) <= HistoryLimit
      /\ \A k \in DOMAIN h : h[k] = "running" => k = 1
  BY DEF ItemOK, Item, Marks
<1>2. nh \in Seq(Marks) /\ Len(nh) <= HistoryLimit /\ \A k \in DOMAIN nh : nh[k] # "running"
  <2>1. CASE h # <<>> /\ Head(h) = "running"
    <3>1. /\ Tail(h) \in Seq(Marks) /\ Len(Tail(h)) = Len(h) - 1
          /\ \A k \in 1 .. Len(h) - 1 : Tail(h)[k] = h[k + 1]
      BY <1>1, <2>1, HeadTailProperties
    <3>2. Len(h) \in Nat /\ DOMAIN h = 1 .. Len(h) /\ Len(h) # 0
      BY <1>1, <2>1, LenProperties, EmptySeq
    <3>3. <<outcome>> \in Seq(Marks) /\ Len(<<outcome>>) = 1 /\ <<outcome>>[1] = outcome
      BY DEF Marks
    <3>4. /\ nh \in Seq(Marks) /\ Len(nh) = 1 + (Len(h) - 1)
          /\ \A k \in 1 .. 1 + (Len(h) - 1) :
                nh[k] = IF k <= 1 THEN <<outcome>>[k] ELSE Tail(h)[k - 1]
      BY <2>1, <3>1, <3>3, ConcatProperties
    <3>5. DOMAIN nh = 1 .. Len(h) /\ Len(nh) = Len(h)
      BY <3>2, <3>4, LenProperties
    <3>6. ASSUME NEW k \in DOMAIN nh, nh[k] = "running" PROVE FALSE
      <4>1. CASE k = 1
        BY <3>2, <3>3, <3>4, <3>6, <4>1
      <4>2. CASE k # 1
        <5>1. k \in DOMAIN h /\ k - 1 \in 1 .. Len(h) - 1 /\ (k - 1) + 1 = k /\ ~(k <= 1)
              /\ k \in 1 .. 1 + (Len(h) - 1)
          BY <3>2, <3>5, <3>6, <4>2
        <5>2. nh[k] = h[k]
          BY <3>1, <3>4, <5>1
        <5> QED BY <1>1, <3>6, <4>2, <5>1, <5>2
      <4> QED BY <4>1, <4>2
    <3> QED BY <1>1, <3>4, <3>5, <3>6
  <2>2. CASE ~(h # <<>> /\ Head(h) = "running")
    <3>1. nh = h
      BY <2>2
    <3>2. \A k \in DOMAIN h : h[k] # "running"
      BY <1>1, <2>2
    <3> QED BY <1>1, <3>1, <3>2
  <2> QED BY <2>1, <2>2
<1>3. st \in {"active", "failed", "done"} /\ (st = "active" => it.next # Never)
  OBVIOUS
<1>4. Settled(it, outcome) = new
  BY DEF Settled
<1> HIDE DEF h, nh, st
<1>5. /\ new \in Item /\ new.history = nh /\ new.status = st /\ new.next = it.next
      /\ new.freq = it.freq
  BY <1>1, <1>2, <1>3 DEF Item, Statuses, Marks
<1> QED BY <1>2, <1>3, <1>4, <1>5 DEF ItemOK

(* A next run that is computed is an instant to come, or none.             *)
LEMMA NextRunTyped ==
  ASSUME NEW freq \in Frequencies, NEW now \in Nat
  PROVE  /\ NextRunAfter(freq, now) \in Instants \cup {Never}
         /\ NextRunAfter(freq, now) # Never => NextRunAfter(freq, now) > now
BY NextRunIsNext

(* Starting a schedule that does not run leaves a sound record that does,  *)
(* with the next run of its frequency.                                     *)
LEMMA StartedOK ==
  ASSUME NEW it, ItemOK(it), it.status # "running", clock \in Nat
  PROVE  /\ ItemOK(Started(it))
         /\ Started(it).status = "running" /\ Started(it).freq = it.freq
         /\ Started(it).next = NextRunAfter(it.freq, clock)
<1> DEFINE rec == Recorded(it.history)
           next == NextRunAfter(it.freq, clock)
<1>1. it \in Item /\ it.freq \in Frequencies /\ it.history \in Seq(Marks)
  BY DEF ItemOK, Item, Marks
<1>2. Len(it.history) <= HistoryLimit /\ \A k \in DOMAIN it.history : it.history[k] # "running"
  BY DEF ItemOK
<1>3. /\ rec \in Seq(Marks) /\ Len(rec) <= HistoryLimit
      /\ \A k \in DOMAIN rec : rec[k] = "running" => k = 1
  BY <1>1, <1>2, RecordedOK
<1>4. next \in Instants \cup {Never}
  BY <1>1, NextRunTyped
<1>5. Started(it) = [it EXCEPT !.status = "running", !.history = rec, !.next = next]
  BY DEF Started
<1> HIDE DEF rec, next
<1>6. /\ Started(it) \in Item /\ Started(it).history = rec /\ Started(it).freq = it.freq
      /\ Started(it).status = "running" /\ Started(it).next = next
  BY <1>1, <1>3, <1>4, <1>5 DEF Item, Statuses, Marks
<1> QED BY <1>3, <1>6 DEF ItemOK, next

(* A schedule that start() resumes is sound and does not run, a paused one *)
(* has no next run, and any other the next one from now.                   *)
LEMMA ResumedOK ==
  ASSUME NEW it, ItemOK(it), clock \in Nat
  PROVE  /\ ItemOK(Resumed(it))
         /\ Resumed(it).status # "running" /\ Resumed(it).freq = it.freq
         /\ it.status = "paused" => Resumed(it).status = "paused" /\ Resumed(it).next = Never
         /\ Resumed(it).status # "paused" => Resumed(it).next = NextRunAfter(it.freq, clock)
<1> DEFINE base == IF it.status = "running" THEN Settled(it, "failed") ELSE it
           next == ComputeNext(base)
           st == IF next # base.next /\ next = Never /\ base.status = "active"
                    THEN "done" ELSE base.status
<1>1. /\ ItemOK(base) /\ base.status # "running" /\ base.freq = it.freq
      /\ (it.status = "paused") = (base.status = "paused")
  BY SettledOK
<1>2. base \in Item /\ base.freq \in Frequencies /\ base.status \in Statuses
  BY <1>1 DEF ItemOK, Item
<1>3. /\ next \in Instants \cup {Never}
      /\ base.status = "paused" => next = Never
      /\ base.status # "paused" => next = NextRunAfter(it.freq, clock)
  BY <1>1, <1>2, NextRunTyped DEF ComputeNext
<1>4. Resumed(it) = [base EXCEPT !.next = next, !.status = st]
  BY DEF Resumed
<1>5. /\ st \in Statuses /\ st # "running" /\ (st = "active" => next # Never)
      /\ (st = "paused") = (base.status = "paused")
  BY <1>1, <1>2 DEF ItemOK, Statuses
<1> HIDE DEF base, next, st
<1>6. /\ Resumed(it) \in Item /\ Resumed(it).history = base.history
      /\ Resumed(it).freq = base.freq /\ Resumed(it).status = st /\ Resumed(it).next = next
  BY <1>2, <1>3, <1>4, <1>5 DEF Item
<1>7. ItemOK(Resumed(it))
  BY <1>1, <1>5, <1>6 DEF ItemOK
<1> QED BY <1>1, <1>3, <1>5, <1>6, <1>7

(* An edited schedule that runs stays sound, keeps running and keeps its   *)
(* next run.                                                               *)
LEMMA EditedWhileRunning ==
  ASSUME NEW it, ItemOK(it), it.status = "running", NEW base \in Item,
         base.next = it.next, base.history = it.history
  PROVE  /\ ItemOK([base EXCEPT !.status = "running"])
         /\ [base EXCEPT !.status = "running"].status = "running"
         /\ [base EXCEPT !.status = "running"].next = it.next
<1> DEFINE new == [base EXCEPT !.status = "running"]
<1>1. /\ new \in Item /\ new.status = "running" /\ new.next = it.next
      /\ new.history = it.history
  BY DEF Item, Statuses
<1>2. ItemOK(new)
  BY <1>1 DEF ItemOK
<1> QED BY <1>1, <1>2

(* An edited schedule that does not run stays sound, and is paused without *)
(* a next run, or has the next one from now.                               *)
LEMMA EditedWhileIdle ==
  ASSUME NEW it, ItemOK(it), clock \in Nat, it.status # "running", NEW base \in Item,
         base.next = it.next, base.history = it.history
  PROVE  /\ ItemOK(Edited(base, FALSE))
         /\ Edited(base, FALSE).status # "running"
         /\ base.status = "paused" => /\ Edited(base, FALSE).status = "paused"
                                      /\ Edited(base, FALSE).next = Never
         /\ base.status # "paused" => /\ Edited(base, FALSE).status # "paused"
                                      /\ Edited(base, FALSE).freq = base.freq
                                      /\ Edited(base, FALSE).next = NextRunAfter(base.freq, clock)
<1> DEFINE new == Edited(base, FALSE)
           next == NextRunAfter(base.freq, clock)
           st == IF next = Never THEN "done" ELSE "active"
<1>1. next \in Instants \cup {Never}
  BY NextRunTyped DEF Item
<1>2. CASE base.status = "paused"
  <2>1. new = [base EXCEPT !.next = Never]
    BY <1>2 DEF Edited
  <2>2. /\ new \in Item /\ new.status = "paused" /\ new.next = Never
        /\ new.history = it.history
    BY <1>2, <2>1 DEF Item
  <2>3. ItemOK(new)
    BY <2>2 DEF ItemOK
  <2> QED BY <1>2, <2>2, <2>3
<1>3. CASE base.status # "paused"
  <2>1. new = [base EXCEPT !.next = next, !.status = st]
    BY <1>3 DEF Edited
  <2>2. st \in {"done", "active"} /\ (st = "active" => next # Never)
    OBVIOUS
  <2> HIDE DEF next, st, new
  <2>3. /\ new \in Item /\ new.status = st /\ new.next = next /\ new.freq = base.freq
        /\ new.history = it.history
    BY <1>1, <2>1, <2>2 DEF Item, Statuses
  <2>4. ItemOK(new)
    BY <2>2, <2>3 DEF ItemOK
  <2> QED BY <1>3, <2>2, <2>3, <2>4 DEF next, new
<1> QED BY <1>2, <1>3

(* The timer is armed within MaxSleep, and at once when something is due.  *)
LEMMA ArmedOK ==
  ASSUME NEW its, \A i \in DOMAIN its : its[i].next \in Nat, clock \in Nat
  PROVE  /\ Armed(its) \in Nat /\ clock <= Armed(its) /\ Armed(its) <= clock + MaxSleep
         /\ \A i \in DOMAIN its : Due(its[i]) => Armed(its) = clock
<1> DEFINE due == {its[i].next : i \in {j \in DOMAIN its :
                                        its[j].status = "active" /\ its[j].next # Never}}
           soonest == EarliestOf(due)
           delay == IF due # {} /\ soonest <= clock THEN 0
                    ELSE IF due = {} \/ soonest - clock > MaxSleep THEN MaxSleep
                    ELSE soonest - clock
<1>1. Armed(its) = clock + delay
  BY DEF Armed
<1>2. due \in SUBSET Nat
  OBVIOUS
<1>3. MaxSleep \in Nat
  BY SchedulesAssumption
<1>4. ASSUME NEW i \in DOMAIN its, Due(its[i])
      PROVE  its[i].next \in due /\ its[i].next <= clock
  BY <1>4 DEF Due
<1> HIDE DEF due
<1>5. CASE due = {}
  <2>1. delay = MaxSleep
    BY <1>5
  <2> QED BY <1>1, <1>3, <1>4, <1>5, <2>1
<1>6. CASE due # {}
  <2>1. soonest \in Nat /\ \A u \in due : soonest <= u
    BY <1>2, <1>6, EarliestIsLeast
  <2> HIDE DEF soonest
  <2>2. CASE soonest <= clock
    <3>1. delay = 0
      BY <1>6, <2>2
    <3> QED BY <1>1, <1>3, <3>1
  <2>3. CASE ~(soonest <= clock)
    <3>1. delay = IF soonest - clock > MaxSleep THEN MaxSleep ELSE soonest - clock
      BY <1>6, <2>3
    <3>2. delay \in Nat /\ delay <= MaxSleep
      BY <1>3, <2>1, <2>3, <3>1
    <3>3. \A i \in DOMAIN its : ~Due(its[i])
      BY <1>2, <1>4, <2>1, <2>3
    <3> QED BY <1>1, <1>3, <3>2, <3>3
  <2> QED BY <2>2, <2>3
<1> QED BY <1>5, <1>6

-----------------------------------------------------------------------------
(* Every action keeps the invariant.                                       *)

(* Instants are numbers other than the one that stands for none.           *)
LEMMA Times == Instants \subseteq Nat /\ 0 \notin Instants /\ MaxSleep \in Nat
BY SchedulesAssumption DEF Instants

(* The fields of a sound record.                                           *)
LEMMA Typed ==
  ASSUME NEW it, ItemOK(it)
  PROVE  it.next \in Nat /\ it.freq \in Frequencies /\ it.status \in Statuses /\ it \in Item
BY SchedulesAssumption DEF ItemOK, Item, Instants, Never

(* A program that has not been started yet satisfies the invariant.        *)
LEMMA InitIInv == Init => IInv
<1> SUFFICES ASSUME Init PROVE IInv
  OBVIOUS
<1>1. Exists = {} /\ DOMAIN stored = {}
  BY DEF Init, Exists, None
<1>2. 1 \in Instants
  BY SchedulesAssumption DEF Instants
<1>3. Basics /\ DownOK
  BY <1>1, <1>2 DEF Basics, DownOK, Init, Never
<1>4. ItemsOK /\ StoreOK /\ NoOverlap /\ PauseHolds /\ NextIsEarliest /\ SinceBoot
  BY <1>1 DEF ItemsOK, StoreOK, NoOverlap, PauseHolds, NextIsEarliest, SinceBoot, Init
<1>5. StoreKeeps /\ WaitOK
  BY <1>1 DEF StoreKeeps, WaitOK, Init
<1> QED BY <1>3, <1>4, <1>5 DEF IInv

(* A start resumes what the store holds, and nothing runs or has waited.   *)
LEMMA BootKeeps ==
  ASSUME IInv, Boot
  PROVE  IInv'
<1> USE DEF IInv
<1> DEFINE loaded == Load(stored)
<1>1. /\ DOMAIN loaded = {i \in DOMAIN stored : stored[i].freq.kind # "cron"}
      /\ \A i \in DOMAIN loaded : loaded[i] = stored[i]
  BY DEF Load
<1>2. /\ Exists' = DOMAIN loaded
      /\ \A i \in Exists' : items'[i] = Resumed(stored[i]) /\ i \in DOMAIN stored
  BY <1>1 DEF Boot, Exists
<1>3. clock \in Nat /\ clock' = clock /\ bootAt' = clock /\ clock \in Instants
  BY Times DEF Boot, Basics
<1>4. /\ UNCHANGED <<running, inflight, used, wish, overridden, waited>>
      /\ mode = "down" /\ mode' = "up" /\ timer' = Armed(items')
      /\ since' = [i \in Ids |-> IF i \in Exists' THEN clock ELSE 0]
  BY DEF Boot, Exists
<1>5. /\ running = {}
      /\ \A i \in Ids : inflight[i] = 0 /\ waited[i] = 0
  BY <1>4 DEF DownOK
<1>6. ASSUME NEW i \in Exists'
      PROVE  /\ ItemOK(items'[i])
             /\ items'[i].status # "running"
             /\ stored[i].status = "paused" =>
                    items'[i].status = "paused" /\ items'[i].next = Never
             /\ items'[i].status # "paused" =>
                    items'[i].next = NextRunAfter(items'[i].freq, clock)
             /\ items'[i].next = Never \/ items'[i].next > clock
             /\ items'[i].next \in Nat
  <2>1. ItemOK(stored[i]) /\ items'[i] = Resumed(stored[i])
    BY <1>2 DEF StoreOK
  <2>2. /\ ItemOK(items'[i]) /\ items'[i].status # "running"
        /\ items'[i].freq = stored[i].freq
        /\ stored[i].status = "paused" =>
                    items'[i].status = "paused" /\ items'[i].next = Never
        /\ items'[i].status # "paused" =>
                    items'[i].next = NextRunAfter(items'[i].freq, clock)
    BY <1>3, <2>1, ResumedOK
  <2>3. items'[i].status = "paused" => items'[i].next = Never
    <3>1. SUFFICES ASSUME items'[i].status = "paused", stored[i].status # "paused"
                   PROVE  FALSE
      BY <2>2
    <3>2. CASE stored[i].status = "running"
      <4>1. Settled(stored[i], "failed").status # "paused"
        BY <2>1, SettledOK
      <4>2. Settled(stored[i], "failed") \in Item
        BY <2>1, SettledOK DEF ItemOK
      <4> QED BY <2>1, <3>1, <3>2, <4>1, <4>2 DEF Resumed, Item
    <3>3. CASE stored[i].status # "running"
      BY <2>1, <3>1, <3>3 DEF Resumed, ItemOK, Item
    <3> QED BY <3>2, <3>3
  <2>4. items'[i].freq \in Frequencies /\ items'[i].next \in Nat
    BY <2>2, Typed
  <2>5. items'[i].next = Never \/ items'[i].next > clock
    BY <1>3, <2>2, <2>3, <2>4, NextRunTyped
  <2> QED BY <2>2, <2>4, <2>5
<1>7. Basics'
  <2>1. timer' \in Nat
    BY <1>2, <1>3, <1>4, <1>6, ArmedOK DEF Exists
  <2>2. owned' \subseteq owned
    BY DEF Boot
  <2> QED BY <1>3, <1>4, <2>1, <2>2, Times DEF Basics
<1>8. ItemsOK'
  BY <1>2, <1>4, <1>6 DEF ItemsOK, StoreOK
<1>9. stored' = stored \/ stored' = items'
  BY DEF Boot
<1>10. StoreOK'
  BY <1>4, <1>8, <1>9 DEF StoreOK, ItemsOK, Exists
<1>11. NoOverlap'
  BY <1>2, <1>4, <1>5, <1>6 DEF NoOverlap
<1>12. PauseHolds'
  <2> SUFFICES ASSUME NEW i \in (wish \cap Exists') \ overridden
               PROVE  items'[i].status = "paused" /\ items'[i].next = Never
    BY <1>4 DEF PauseHolds
  <2>1. stored[i].status = "paused"
    BY <1>2 DEF StoreKeeps
  <2> QED BY <1>6, <2>1
<1>13. StoreKeeps'
  <2>1. owned' \subseteq Exists'
    BY <1>1, <1>2 DEF Boot, StoreKeeps
  <2>2. Exists' \subseteq DOMAIN stored'
    BY <1>2, <1>9 DEF Exists
  <2>3. ASSUME NEW i \in (wish \cap DOMAIN stored') \ overridden
        PROVE  stored'[i].status = "paused" /\ stored'[i].next = Never
    BY <1>4, <1>9, <1>12 DEF StoreKeeps, PauseHolds, Exists
  <2> QED BY <1>4, <2>1, <2>2, <2>3 DEF StoreKeeps
<1>14. NextIsEarliest' /\ SinceBoot'
  <2>1. \A i \in Exists' : since'[i] = clock
    BY <1>2, <1>4 DEF StoreOK, Basics
  <2> QED BY <1>3, <1>6, <2>1 DEF NextIsEarliest, SinceBoot
<1>15. WaitOK'
  <2>1. clock <= timer' /\ timer' <= clock + MaxSleep
    BY <1>2, <1>3, <1>4, <1>6, ArmedOK DEF Exists
  <2>2. \A i \in Exists' : waited[i] = 0
    BY <1>2, <1>5 DEF StoreOK, Basics
  <2>3. timer' \in Nat /\ MaxSleep \in Nat
    BY <1>7, Times DEF Basics
  <2>4. timer' - clock <= MaxSleep
    <3>1. \A t, c, m \in Nat : t <= c + m => t - c <= m
      OBVIOUS
    <3> QED BY <1>3, <2>1, <2>3, <3>1
  <2>5. \A i \in Ids \ used : waited[i] = 0
    BY <1>5
  <2> QED BY <1>3, <1>4, <2>1, <2>2, <2>3, <2>4, <2>5, Times DEF WaitOK
<1>16. DownOK'
  BY <1>4 DEF DownOK
<1> QED BY <1>7, <1>8, <1>10, <1>11, <1>12, <1>13, <1>14, <1>15, <1>16

(* stop() cancels the timer, and the end of the process leaves the store.  *)
LEMMA StopAndExitKeep ==
  ASSUME IInv, Stop \/ Exit
  PROVE  IInv'
<1> USE DEF IInv
<1>1. CASE Stop
  <2>1. /\ UNCHANGED <<clock, items, stored, running, inflight, owned, used, wish,
                       overridden, waited, since, bootAt>>
        /\ mode = "up" /\ mode' = "stopping" /\ timer' = 0
    BY <1>1 DEF Stop, aux, Never
  <2>2. Exists' = Exists
    BY <2>1 DEF Exists
  <2>3. Basics' /\ ItemsOK' /\ StoreOK' /\ NoOverlap' /\ DownOK'
    BY <2>1, <2>2 DEF Basics, ItemsOK, StoreOK, NoOverlap, DownOK
  <2>4. StoreKeeps' /\ PauseHolds' /\ SinceBoot' /\ NextIsEarliest'
    BY <2>1, <2>2 DEF StoreKeeps, PauseHolds, SinceBoot, NextIsEarliest
  <2>5. WaitOK'
    BY <2>1, <2>2 DEF WaitOK, Overdue
  <2> QED BY <2>3, <2>4, <2>5
<1>2. CASE Exit
  <2>1. /\ UNCHANGED <<clock, stored, owned, used, wish, overridden, bootAt>>
        /\ mode' = "down" /\ timer' = 0 /\ running' = {}
        /\ inflight' = [i \in Ids |-> 0] /\ waited' = [i \in Ids |-> 0]
        /\ since' = [i \in Ids |-> 0]
    BY <1>2 DEF Exit, Never
  <2>2. Exists' = {}
    BY <1>2 DEF Exit, Exists, None
  <2>3. Basics' /\ ItemsOK' /\ StoreOK' /\ NoOverlap' /\ DownOK'
    BY <2>1, <2>2 DEF Basics, ItemsOK, StoreOK, NoOverlap, DownOK
  <2>4. StoreKeeps' /\ PauseHolds' /\ SinceBoot' /\ NextIsEarliest'
    BY <2>1, <2>2 DEF StoreKeeps, PauseHolds, SinceBoot, NextIsEarliest
  <2>5. WaitOK'
    BY <2>1, <2>2 DEF WaitOK
  <2> QED BY <2>3, <2>4, <2>5
<1> QED BY <1>1, <1>2

(* While the process is there, what it commits is what it has.             *)
LEMMA CommitKeeps ==
  ASSUME ItemsOK', PauseHolds', stored' = items', owned' \subseteq Exists'
  PROVE  StoreOK' /\ StoreKeeps'
BY DEF ItemsOK, PauseHolds, StoreOK, StoreKeeps, Exists

(* A new schedule has not waited, and is armed for by the next sleep.      *)
LEMMA CreateKeeps ==
  ASSUME IInv, NEW i \in Ids, NEW freq \in Frequencies, Create(i, freq)
  PROVE  IInv'
<1> USE DEF IInv
<1> DEFINE next == NextRunAfter(freq, clock)
           st == IF next = Never THEN "done" ELSE "active"
           item == [freq |-> freq, next |-> next, history |-> <<>>, status |-> st]
<1>1. /\ UNCHANGED <<clock, mode, running, inflight, timer, wish, overridden, waited, bootAt>>
      /\ mode # "down" /\ i \notin used /\ used' = used \cup {i} /\ owned' = owned \cup {i}
      /\ stored' = items' /\ since' = [since EXCEPT ![i] = clock]
  BY DEF Create
<1>2. /\ Exists' = Exists \cup {i} /\ items'[i] = item
      /\ \A j \in Exists : items'[j] = items[j]
  <2>1. i \notin Exists
    BY <1>1 DEF ItemsOK
  <2>2. items' = [j \in Exists \cup {i} |-> IF j = i THEN item ELSE items[j]]
    BY DEF Create
  <2> QED BY <2>1, <2>2 DEF Exists
<1>3. clock \in Nat /\ bootAt \in Nat /\ bootAt <= clock
  BY Times DEF Basics
<1>4. next \in Instants \cup {Never} /\ (next # Never => next > clock)
  BY <1>3, NextRunTyped
<1>5. /\ ItemOK(item) /\ item.next = next /\ item.freq = freq
      /\ item.status = st /\ st \in {"active", "done"}
  <2>1. st \in {"active", "done"} /\ (st = "active" => next # Never)
    OBVIOUS
  <2>2. item \in Item
    <3> HIDE DEF next, st
    <3> QED BY <1>4, <2>1, EmptySeq DEF Item, Statuses
  <2>3. Len(item.history) = 0 /\ DOMAIN item.history = {} /\ 0 <= HistoryLimit
    BY SchedulesAssumption, EmptySeq
  <2> QED BY <2>1, <2>2, <2>3 DEF ItemOK
<1> HIDE DEF item, st, next
<1>6. next \in Nat
  BY <1>4, Times DEF Never
<1>7. Basics'
  BY <1>1 DEF Basics
<1>8. ItemsOK'
  BY <1>1, <1>2, <1>5 DEF ItemsOK
<1>9. NoOverlap'
  <2>1. i \notin running
    BY <1>1 DEF Basics
  <2> QED BY <1>1, <1>2, <1>5, <2>1 DEF NoOverlap
<1>10. PauseHolds'
  <2>1. i \notin wish
    BY <1>1 DEF Basics
  <2> QED BY <1>1, <1>2, <2>1 DEF PauseHolds
<1>11. StoreOK' /\ StoreKeeps'
  <2>1. owned' \subseteq Exists'
    BY <1>1, <1>2 DEF StoreKeeps
  <2> QED BY <1>1, <1>8, <1>10, <2>1, CommitKeeps
<1>12. NextIsEarliest'
  <2>1. since'[i] = clock /\ i \notin Exists
    BY <1>1 DEF Basics, ItemsOK
  <2>2. \A j \in Exists : since'[j] = since[j]
    BY <1>1, <2>1 DEF Basics, ItemsOK
  <2> QED BY <1>1, <1>2, <1>5, <2>1, <2>2 DEF NextIsEarliest, next
<1>13. SinceBoot'
  BY <1>1, <1>2, <1>3, <1>4, <1>5, <1>6 DEF SinceBoot
<1>14. WaitOK'
  <2>1. waited[i] = 0
    BY <1>1 DEF WaitOK
  <2>2. ~Due(item)
    BY <1>3, <1>4, <1>5, <1>6 DEF Due
  <2>3. \A j \in Exists' : Due(items[j])' => j \in Exists /\ Due(items[j])
    BY <1>1, <1>2, <2>2 DEF Due
  <2>4. \A j \in Exists : Overdue(items[j]) => Overdue(items[j])'
    BY <1>1, <1>2 DEF Overdue
  <2>5. \A j \in Exists' : j \in Exists \/ j = i
    BY <1>2
  <2> QED BY <1>1, <2>1, <2>3, <2>4, <2>5 DEF WaitOK
<1>15. DownOK'
  BY <1>1 DEF DownOK
<1> QED BY <1>7, <1>8, <1>9, <1>10, <1>11, <1>12, <1>13, <1>14, <1>15

(* An edit touches one schedule, and none that does not run is due after   *)
(* it.                                                                     *)
LEMMA UpdateKeeps ==
  ASSUME IInv, NEW i \in Ids, NEW status \in Statuses, NEW freq \in Frequencies,
         status = "running" => i \in running, Update(i, status, freq)
  PROVE  IInv'
<1> USE DEF IInv
<1>1. /\ UNCHANGED <<clock, mode, running, inflight, timer, owned, used, bootAt>>
      /\ mode # "down" /\ i \in Exists /\ stored' = items'
      /\ since' = [since EXCEPT ![i] = IF i \in running THEN @ ELSE clock]
      /\ waited' = [waited EXCEPT ![i] = 0]
      /\ i \in running => wish' = wish /\ overridden' = overridden \cup {i}
      /\ i \notin running => /\ overridden' = overridden \ {i}
                             /\ status = "paused" => wish' = wish \cup {i}
                             /\ status # "paused" => wish' = wish \ {i}
  BY DEF Update
<1>2. /\ Exists' = Exists
      /\ items'[i] = Edited([items[i] EXCEPT !.status = status, !.freq = freq], i \in running)
      /\ \A j \in Exists : j # i => items'[j] = items[j]
  BY <1>1 DEF Update, Exists
<1>3. clock \in Nat /\ bootAt \in Nat /\ bootAt <= clock
  BY Times DEF Basics
<1> DEFINE runs == i \in running
<1>4. /\ ItemOK(items'[i])
      /\ (items'[i].status = "running") = runs
      /\ ~runs /\ status = "paused" => items'[i].status = "paused" /\ items'[i].next = Never
      /\ ~runs /\ status # "paused" =>
             items'[i].status # "paused" /\ items'[i].next = NextRunAfter(items'[i].freq, clock)
      /\ runs => items'[i].next = items[i].next
  <2> DEFINE base == [items[i] EXCEPT !.status = status, !.freq = freq]
  <2>1. ItemOK(items[i]) /\ (items[i].status = "running") = runs /\ runs \in BOOLEAN
    BY <1>1 DEF ItemsOK, NoOverlap
  <2>2. /\ base \in Item /\ base.status = status /\ base.freq = freq
        /\ base.next = items[i].next /\ base.history = items[i].history
    BY <2>1 DEF ItemOK, Item
  <2>3. items'[i] = Edited(base, i \in running)
    BY <1>2
  <2> HIDE DEF base
  <2>4. CASE runs
    <3>1. items'[i] = [base EXCEPT !.status = "running"]
      BY <2>3, <2>4 DEF Edited
    <3> QED BY <2>1, <2>2, <2>4, <3>1, EditedWhileRunning
  <2>5. CASE ~runs
    <3>1. (i \in running) = FALSE
      BY <2>5
    <3>2. items'[i] = Edited(base, FALSE)
      BY <2>3, <3>1
    <3> QED BY <1>3, <2>1, <2>2, <2>5, <3>2, EditedWhileIdle
  <2> QED BY <2>4, <2>5
<1>5. /\ items'[i].next \in Nat
      /\ ~runs => items'[i].next = Never \/ items'[i].next > clock
  <2>1. items'[i].freq \in Frequencies /\ items'[i].next \in Nat
    BY <1>4, Typed
  <2> QED BY <1>3, <1>4, <2>1, NextRunTyped
<1>6. Basics'
  BY <1>1 DEF Basics, ItemsOK
<1>7. ItemsOK'
  BY <1>1, <1>2, <1>4 DEF ItemsOK
<1>8. NoOverlap'
  BY <1>1, <1>2, <1>4 DEF NoOverlap
<1>9. PauseHolds'
  BY <1>1, <1>2, <1>4 DEF PauseHolds
<1>10. StoreOK' /\ StoreKeeps'
  <2>1. owned' \subseteq Exists'
    BY <1>1, <1>2 DEF StoreKeeps
  <2> QED BY <1>1, <1>7, <1>9, <2>1, CommitKeeps
<1>11. NextIsEarliest'
  <2>1. i \notin running => since'[i] = clock
    BY <1>1 DEF Basics
  <2>2. \A j \in Exists : j # i => since'[j] = since[j]
    BY <1>1 DEF Basics, ItemsOK
  <2> QED BY <1>1, <1>2, <1>4, <2>1, <2>2 DEF NextIsEarliest
<1>12. SinceBoot'
  BY <1>1, <1>2, <1>3, <1>4, <1>5 DEF SinceBoot
<1>13. WaitOK'
  <2>1. ~Due(items'[i])
    BY <1>3, <1>4, <1>5 DEF Due
  <2>2. /\ waited'[i] = 0
        /\ \A j \in Ids : j # i => waited'[j] = waited[j]
    BY <1>1 DEF Basics
  <2>3. \A j \in Exists : Due(items[j])' => j # i /\ Due(items[j])
    BY <1>1, <1>2, <2>1 DEF Due
  <2>4. \A j \in Exists : j # i /\ Overdue(items[j]) => Overdue(items[j])'
    BY <1>1, <1>2 DEF Overdue
  <2>5. Exists \subseteq Ids
    BY DEF ItemsOK, Basics
  <2> QED BY <1>1, <1>2, <2>2, <2>3, <2>4, <2>5 DEF WaitOK
<1>14. DownOK'
  BY <1>1 DEF DownOK
<1> QED BY <1>6, <1>7, <1>8, <1>9, <1>10, <1>11, <1>12, <1>13, <1>14

(* The user's updates are edits of a status or a frequency.                *)
LEMMA UserUpdatesKeep ==
  ASSUME IInv, NEW i \in Ids, UserUpdates(i)
  PROVE  IInv'
<1>1. /\ i \in Exists /\ items[i].status \in Statuses /\ items[i].freq \in Frequencies
      /\ items[i].status = "running" => i \in running
  BY Typed DEF UserUpdates, IInv, ItemsOK, NoOverlap
<1>2. CASE Update(i, items[i].status, items[i].freq)
  BY <1>1, <1>2, UpdateKeeps
<1>3. ASSUME NEW status \in {"active", "paused"}, Update(i, status, items[i].freq)
      PROVE  IInv'
  <2>1. status \in Statuses /\ status # "running"
    BY DEF Statuses
  <2> QED BY <1>1, <1>3, <2>1, UpdateKeeps
<1>4. ASSUME NEW freq \in Frequencies, Update(i, items[i].status, freq)
      PROVE  IInv'
  BY <1>1, <1>4, UpdateKeeps
<1> QED BY <1>2, <1>3, <1>4 DEF UserUpdates

(* A removed schedule is gone from the store as well.                      *)
LEMMA RemoveKeeps ==
  ASSUME IInv, NEW i \in Ids, Remove(i)
  PROVE  IInv'
<1> USE DEF IInv
<1>1. /\ UNCHANGED <<clock, mode, running, inflight, timer, used, waited, bootAt>>
      /\ mode # "down" /\ i \in Exists /\ stored' = items'
      /\ since' = [since EXCEPT ![i] = 0]
      /\ owned' = owned \ {i} /\ wish' = wish \ {i} /\ overridden' = overridden \ {i}
  BY DEF Remove
<1>2. Exists' = Exists \ {i} /\ \A j \in Exists' : items'[j] = items[j]
  BY DEF Remove, Exists
<1>3. Basics' /\ ItemsOK' /\ NoOverlap' /\ PauseHolds'
  BY <1>1, <1>2 DEF Basics, ItemsOK, NoOverlap, PauseHolds
<1>4. StoreOK' /\ StoreKeeps'
  <2>1. owned' \subseteq Exists'
    BY <1>1, <1>2 DEF StoreKeeps
  <2> QED BY <1>1, <1>3, <2>1, CommitKeeps
<1>5. NextIsEarliest' /\ SinceBoot' /\ DownOK'
  <2>1. \A j \in Exists' : since'[j] = since[j]
    BY <1>1, <1>2 DEF Basics, ItemsOK
  <2> QED BY <1>1, <1>2, <2>1 DEF NextIsEarliest, SinceBoot, DownOK
<1>6. WaitOK'
  <2>1. \A j \in Exists' : j \in Exists /\ (Due(items[j])' => Due(items[j]))
    BY <1>1, <1>2 DEF Due
  <2>2. \A j \in Exists' : Overdue(items[j]) => Overdue(items[j])'
    BY <1>1, <1>2 DEF Overdue
  <2> QED BY <1>1, <2>1, <2>2 DEF WaitOK
<1> QED BY <1>3, <1>4, <1>5, <1>6

(* What Fire does: the schedules it starts run, have a next run from now   *)
(* and have not waited; the others are as they were.                       *)
LEMMA FireDoes ==
  ASSUME IInv, NEW S \in SUBSET Exists, Fire(S)
  PROVE  /\ Exists' = Exists /\ running' = running \cup (S \ running)
         /\ inflight' \in [Ids -> Nat] /\ waited' \in [Ids -> Nat]
         /\ \A i \in Ids \ (S \ running) : inflight'[i] = inflight[i] /\ waited'[i] = waited[i]
         /\ \A i \in S \ running : inflight'[i] = 1 /\ waited'[i] = 0
         /\ since' = [i \in Ids |-> IF i \in S \ running THEN clock ELSE since[i]]
         /\ \A i \in Exists \ (S \ running) : items'[i] = items[i]
         /\ \A i \in S \ running : /\ ItemOK(items'[i]) /\ items'[i].status = "running"
                                   /\ items'[i].next = NextRunAfter(items'[i].freq, clock)
         /\ stored' = items' \/ (S \subseteq running /\ stored' = stored)
<1> USE DEF IInv
<1> DEFINE fired == S \ running
<1>1. Exists \subseteq Ids /\ inflight \in [Ids -> Nat] /\ waited \in [Ids -> Nat]
  BY DEF ItemsOK, Basics
<1>2. /\ items' = [i \in Exists |-> IF i \in fired THEN Started(items[i]) ELSE items[i]]
      /\ running' = running \cup fired
      /\ inflight' = [i \in Ids |-> IF i \in fired THEN inflight[i] + 1 ELSE inflight[i]]
      /\ waited' = [i \in Ids |-> IF i \in fired THEN 0 ELSE waited[i]]
      /\ since' = [i \in Ids |-> IF i \in fired THEN clock ELSE since[i]]
      /\ stored' = IF fired = {} THEN stored ELSE items'
  BY DEF Fire
<1>3. Exists' = Exists
  BY <1>2 DEF Exists
<1>4. ASSUME NEW i \in fired
      PROVE  /\ ItemOK(items'[i]) /\ items'[i].status = "running"
             /\ items'[i].next = NextRunAfter(items'[i].freq, clock)
  <2>1. ItemOK(items[i]) /\ items[i].status # "running" /\ clock \in Nat
    BY <1>1, Times DEF ItemsOK, NoOverlap, Basics
  <2>2. items'[i] = Started(items[i])
    BY <1>2
  <2> QED BY <2>1, <2>2, StartedOK
<1>5. \A i \in fired : inflight[i] = 0
  BY <1>1 DEF NoOverlap
<1>6. inflight' \in [Ids -> Nat] /\ \A i \in fired : inflight'[i] = 1
  BY <1>1, <1>2, <1>5
<1> QED BY <1>1, <1>2, <1>3, <1>4, <1>6

(* What Fire keeps, of schedules that are not waiting for the user.        *)
LEMMA FireKeeps ==
  ASSUME IInv, NEW S \in SUBSET Exists, Fire(S), mode # "down", wish' \subseteq wish,
         \A i \in S : i \notin (wish' \cap Exists) \ overridden,
         UNCHANGED <<clock, mode, owned, used, overridden, bootAt>>
  PROVE  /\ running' \subseteq used /\ since' \in [Ids -> Instants \cup {0}]
         /\ ItemsOK' /\ StoreOK' /\ NoOverlap' /\ DownOK'
         /\ StoreKeeps' /\ PauseHolds' /\ NextIsEarliest' /\ SinceBoot'
<1> USE DEF IInv
<1> DEFINE fired == S \ running
<1>1. /\ Exists' = Exists /\ running' = running \cup fired
      /\ \A i \in Ids \ fired : inflight'[i] = inflight[i]
      /\ \A i \in fired : inflight'[i] = 1
      /\ \A i \in Exists \ fired : items'[i] = items[i]
      /\ \A i \in fired : /\ ItemOK(items'[i]) /\ items'[i].status = "running"
                          /\ items'[i].next = NextRunAfter(items'[i].freq, clock)
      /\ since' = [i \in Ids |-> IF i \in fired THEN clock ELSE since[i]]
      /\ stored' = items' \/ (fired = {} /\ stored' = stored)
  BY FireDoes
<1>2. Exists \subseteq used /\ used \subseteq Ids /\ fired \subseteq Exists
  BY DEF ItemsOK, Basics
<1> HIDE DEF fired
<1>3. running' \subseteq used /\ since' \in [Ids -> Instants \cup {0}]
  BY <1>1, <1>2 DEF Basics
<1>4. ItemsOK'
  BY <1>1, <1>2 DEF ItemsOK
<1>5. NoOverlap'
  BY <1>1, <1>2 DEF NoOverlap
<1>6. PauseHolds'
  BY <1>1, <1>2 DEF PauseHolds, fired
<1>7. owned' \subseteq Exists'
  BY <1>1 DEF StoreKeeps
<1>8. StoreOK' /\ StoreKeeps'
  <2>1. CASE stored' = items'
    BY <1>4, <1>6, <1>7, <2>1, CommitKeeps
  <2>2. CASE stored' = stored
    BY <1>1, <1>7, <2>2 DEF StoreOK, StoreKeeps
  <2> QED BY <1>1, <2>1, <2>2
<1>9. NextIsEarliest'
  <2>1. \A i \in Exists : since'[i] = IF i \in fired THEN clock ELSE since[i]
    BY <1>1, <1>2
  <2> QED BY <1>1, <1>2, <2>1 DEF NextIsEarliest
<1>10. SinceBoot'
  <2>1. clock \in Nat /\ bootAt \in Nat /\ bootAt <= clock
    BY Times DEF Basics
  <2>2. ASSUME NEW i \in fired
        PROVE  items'[i].next = Never \/ items'[i].next >= bootAt
    <3>1. items'[i].freq \in Frequencies /\ items'[i].next \in Nat
      BY <1>1, <2>2, Typed
    <3>2. items'[i].next = Never \/ items'[i].next > clock
      BY <1>1, <2>1, <2>2, <3>1, NextRunTyped
    <3> QED BY <2>1, <3>1, <3>2
  <2> QED BY <1>1, <1>2, <2>2 DEF SinceBoot
<1>11. DownOK'
  BY DEF DownOK
<1> QED BY <1>3, <1>4, <1>5, <1>6, <1>8, <1>9, <1>10, <1>11

(* A run on request: the schedule is not due any more and has not waited.  *)
LEMMA RunNowKeeps ==
  ASSUME IInv, NEW i \in Ids, RunNow(i)
  PROVE  IInv'
<1> USE DEF IInv
<1>1. /\ UNCHANGED <<clock, mode, timer, owned, used, overridden, bootAt>>
      /\ mode # "down" /\ i \in Exists /\ Fire({i}) /\ wish' = wish \ {i}
  BY DEF RunNow
<1>2. {i} \in SUBSET Exists
  BY <1>1
<1>3. /\ Exists' = Exists /\ inflight' \in [Ids -> Nat] /\ waited' \in [Ids -> Nat]
      /\ \A j \in Ids \ ({i} \ running) : waited'[j] = waited[j]
      /\ \A j \in {i} \ running : waited'[j] = 0
      /\ \A j \in Exists \ ({i} \ running) : items'[j] = items[j]
      /\ \A j \in {i} \ running : items'[j].status = "running"
  BY <1>1, <1>2, FireDoes
<1>4. /\ running' \subseteq used /\ since' \in [Ids -> Instants \cup {0}]
      /\ ItemsOK' /\ StoreOK' /\ NoOverlap' /\ DownOK'
      /\ StoreKeeps' /\ PauseHolds' /\ NextIsEarliest' /\ SinceBoot'
  BY <1>1, <1>2, FireKeeps
<1>5. Basics'
  BY <1>1, <1>3, <1>4 DEF Basics
<1>6. WaitOK'
  <2>1. \A j \in Exists : Due(items[j])' => j \notin {i} \ running /\ Due(items[j])
    BY <1>1, <1>3 DEF Due
  <2>2. \A j \in Exists : j \notin {i} \ running /\ Overdue(items[j]) => Overdue(items[j])'
    BY <1>1, <1>3 DEF Overdue
  <2>3. Exists \subseteq used /\ used \subseteq Ids
    BY DEF ItemsOK, Basics
  <2> QED BY <1>1, <1>3, <2>1, <2>2, <2>3 DEF WaitOK
<1> QED BY <1>4, <1>5, <1>6

(* A tick starts every schedule that is due, so that none is due after it. *)
LEMMA TickKeeps ==
  ASSUME IInv, Tick
  PROVE  IInv'
<1> USE DEF IInv
<1> DEFINE S == {i \in Exists : Due(items[i])}
<1>1. /\ UNCHANGED <<clock, mode, owned, used, wish, overridden, bootAt>>
      /\ mode = "up" /\ Fire(S) /\ timer' = Armed(items')
  BY DEF Tick
<1>2. /\ S \in SUBSET Exists /\ S \cap running = {}
      /\ \A i \in S : i \notin (wish \cap Exists) \ overridden
  BY DEF Due, NoOverlap, ItemsOK, Basics, PauseHolds
<1>3. /\ Exists' = Exists /\ inflight' \in [Ids -> Nat] /\ waited' \in [Ids -> Nat]
      /\ \A j \in Ids \ S : waited'[j] = waited[j]
      /\ \A j \in S : waited'[j] = 0
      /\ \A j \in Exists \ S : items'[j] = items[j]
      /\ \A j \in S : items'[j].status = "running"
  <2>1. S \ running = S
    BY <1>2
  <2> HIDE DEF S
  <2> QED BY <1>1, <1>2, <2>1, FireDoes
<1>4. /\ running' \subseteq used /\ since' \in [Ids -> Instants \cup {0}]
      /\ ItemsOK' /\ StoreOK' /\ NoOverlap' /\ DownOK'
      /\ StoreKeeps' /\ PauseHolds' /\ NextIsEarliest' /\ SinceBoot'
  <2> HIDE DEF S
  <2> QED BY <1>1, <1>2, FireKeeps
<1>5. /\ clock \in Nat /\ timer' \in Nat /\ clock <= timer' /\ timer' <= clock + MaxSleep
  <2>1. clock \in Nat /\ \A i \in DOMAIN items' : items'[i].next \in Nat
    BY <1>4, Times, Typed DEF Basics, ItemsOK, Exists
  <2> QED BY <1>1, <2>1, ArmedOK
<1>6. Basics'
  BY <1>1, <1>3, <1>4, <1>5 DEF Basics
<1>7. WaitOK'
  <2>1. \A j \in Exists : ~(Due(items[j])')
    BY <1>1, <1>3 DEF Due
  <2>2. \A j \in Exists : j \notin S /\ Overdue(items[j]) => Overdue(items[j])'
    BY <1>1, <1>3 DEF Overdue
  <2>3. Exists \subseteq used /\ used \subseteq Ids /\ S \subseteq Exists
    BY DEF ItemsOK, Basics
  <2> HIDE DEF S
  <2> QED BY <1>1, <1>3, <1>5, <2>1, <2>2, <2>3 DEF WaitOK
<1> QED BY <1>4, <1>6, <1>7

(* The end of a run settles its schedule, which had not waited while it    *)
(* ran; whatever is due then makes the timer fire at once.                 *)
LEMMA FinishKeeps ==
  ASSUME IInv, NEW i \in Ids, NEW outcome \in {"succeeded", "failed"}, Finish(i, outcome)
  PROVE  IInv'
<1> USE DEF IInv
<1>1. /\ UNCHANGED <<clock, mode, owned, used, wish, overridden, waited, since,
                     bootAt>>
      /\ mode \in {"up", "stopping"} /\ inflight[i] > 0
      /\ running' = running \ {i} /\ inflight' = [inflight EXCEPT ![i] = @ - 1]
      /\ stored' = items' /\ timer' = IF mode = "up" THEN Armed(items') ELSE timer
  BY DEF Finish, aux
<1>2. /\ Exists' = Exists
      /\ \A j \in Exists : j # i => items'[j] = items[j]
      /\ i \in Exists => items'[i] = Settled(items[i], outcome)
  BY DEF Finish, Exists
<1>3. inflight[i] = 1 /\ i \in running /\ (i \in Exists => items[i].status = "running")
  BY <1>1 DEF NoOverlap, Basics
<1>4. i \in Exists => /\ ItemOK(items'[i]) /\ items'[i].status \in {"active", "failed", "done"}
                      /\ items'[i].next = items[i].next /\ items'[i].freq = items[i].freq
  BY <1>2, SettledOK DEF ItemsOK
<1>5. ItemsOK'
  BY <1>1, <1>2, <1>4 DEF ItemsOK
<1>6. NoOverlap'
  BY <1>1, <1>2, <1>3, <1>4 DEF NoOverlap, Basics
<1>7. PauseHolds'
  BY <1>1, <1>2, <1>3 DEF PauseHolds
<1>8. StoreOK' /\ StoreKeeps'
  <2>1. owned' \subseteq Exists'
    BY <1>1, <1>2 DEF StoreKeeps
  <2> QED BY <1>1, <1>5, <1>7, <2>1, CommitKeeps
<1>9. NextIsEarliest' /\ SinceBoot' /\ DownOK'
  BY <1>1, <1>2, <1>3, <1>4 DEF NextIsEarliest, SinceBoot, DownOK
<1>10. /\ Armed(items') \in Nat /\ clock <= Armed(items') /\ Armed(items') <= clock + MaxSleep
       /\ \A j \in Exists : Due(items[j])' => Armed(items') = clock
       /\ clock \in Nat
  <2>1. clock \in Nat /\ \A j \in DOMAIN items' : items'[j].next \in Nat
    BY <1>5, Times, Typed DEF Basics, ItemsOK, Exists
  <2>2. /\ Armed(items') \in Nat /\ clock <= Armed(items') /\ Armed(items') <= clock + MaxSleep
        /\ \A j \in DOMAIN items' : Due(items'[j]) => Armed(items') = clock
    BY <2>1, ArmedOK
  <2>3. \A j \in Exists : Due(items[j])' => j \in DOMAIN items' /\ Due(items'[j])
    BY <1>1, <1>2 DEF Due, Exists
  <2> QED BY <2>1, <2>2, <2>3
<1>11. Basics'
  BY <1>1, <1>3, <1>10 DEF Basics
<1>12. WaitOK'
  <2>1. Exists \subseteq Ids /\ waited \in [Ids -> Nat] /\ timer \in Nat /\ MaxSleep \in Nat
    BY Times DEF ItemsOK, Basics
  <2>2. i \in Exists => waited[i] = 0
    BY <1>3 DEF WaitOK, Overdue
  <2>3. \A j \in Exists : j # i /\ Overdue(items[j]) => Overdue(items[j])'
    BY <1>1, <1>2 DEF Overdue
  <2>4. \A j \in Exists : ~(Overdue(items[j])') => waited[j] = 0
    BY <2>2, <2>3 DEF WaitOK
  <2>5. ASSUME mode = "up", NEW j \in Exists, Due(items[j])'
        PROVE  waited[j] + (timer' - clock) <= MaxSleep
    <3>1. timer' = clock
      BY <1>1, <1>10, <2>5
    <3>2. waited[j] <= MaxSleep
      <4>1. CASE j = i
        BY <2>1, <2>2, <4>1
      <4>2. CASE j # i
        <5>1. Due(items[j])
          BY <1>1, <1>2, <2>5, <4>2 DEF Due
        <5>2. waited[j] + (timer - clock) <= MaxSleep /\ clock <= timer
          BY <2>5, <5>1 DEF WaitOK
        <5>3. waited[j] \in Nat
          BY <2>1
        <5> QED BY <1>10, <2>1, <5>2, <5>3
      <4> QED BY <4>1, <4>2
    <3>3. waited[j] \in Nat
      BY <2>1
    <3> QED BY <1>10, <3>1, <3>2, <3>3
  <2>6. mode = "up" => clock <= timer' /\ timer' <= clock + MaxSleep
    BY <1>1, <1>10
  <2>7. \A j \in Ids \ used : waited[j] = 0
    BY DEF WaitOK
  <2> QED BY <1>1, <1>2, <2>4, <2>5, <2>6, <2>7 DEF WaitOK
<1> QED BY <1>5, <1>6, <1>7, <1>8, <1>9, <1>11, <1>12

(* As time passes, nothing but the clock changes what is next or due.      *)
LEMMA TimeKeeps ==
  ASSUME IInv, clock' \in Instants, clock <= clock', timer' \in Nat, waited' \in [Ids -> Nat],
         UNCHANGED <<mode, items, stored, running, inflight, owned, used, wish, overridden,
                     since, bootAt>>,
         mode = "down" => \A i \in Ids : waited'[i] = 0
  PROVE  /\ Basics' /\ ItemsOK' /\ StoreOK' /\ NoOverlap' /\ DownOK' /\ StoreKeeps'
         /\ PauseHolds' /\ NextIsEarliest' /\ SinceBoot' /\ Exists' = Exists
<1> USE DEF IInv
<1>1. Exists' = Exists
  BY DEF Exists
<1>2. clock \in Nat /\ clock' \in Nat /\ bootAt \in Nat /\ bootAt <= clock /\ 1 <= clock
  BY Times, SchedulesAssumption DEF Basics, Instants
<1>3. Basics'
  BY <1>2 DEF Basics
<1>4. ItemsOK' /\ StoreOK' /\ NoOverlap' /\ DownOK' /\ StoreKeeps' /\ PauseHolds' /\ SinceBoot'
  BY <1>1 DEF ItemsOK, StoreOK, NoOverlap, DownOK, StoreKeeps, PauseHolds, SinceBoot
<1>5. NextIsEarliest'
  BY <1>1 DEF NextIsEarliest
<1> QED BY <1>1, <1>3, <1>4, <1>5

(* An instant in which the timer does not fire is one the timer sleeps,    *)
(* and one that what is due waits.                                         *)
LEMMA PassKeeps ==
  ASSUME IInv, Pass
  PROVE  IInv'
<1> USE DEF IInv
<1>1. /\ UNCHANGED <<mode, items, stored, running, inflight, timer, owned, used, wish,
                     overridden, since, bootAt>>
      /\ clock' = clock + 1 /\ clock < MaxTime /\ ~(timer # Never /\ timer <= clock)
      /\ waited' = [i \in Ids |-> IF i \in Exists /\ Overdue(items[i]) THEN waited[i] + 1 ELSE 0]
  BY DEF Pass
<1>2. clock \in Nat /\ clock \in Instants /\ clock' \in Instants /\ 1 <= clock
  BY <1>1, SchedulesAssumption DEF Basics, Instants
<1>3. waited' \in [Ids -> Nat] /\ timer \in Nat /\ MaxSleep \in Nat /\ waited \in [Ids -> Nat]
  BY <1>1, Times DEF Basics
<1>4. mode = "down" => \A i \in Ids : waited'[i] = 0
  BY <1>1 DEF DownOK
<1>5. /\ Basics' /\ ItemsOK' /\ StoreOK' /\ NoOverlap' /\ DownOK' /\ StoreKeeps'
      /\ PauseHolds' /\ NextIsEarliest' /\ SinceBoot' /\ Exists' = Exists
  <2>1. clock <= clock'
    BY <1>1, <1>2
  <2> QED BY <1>1, <1>2, <1>3, <1>4, <2>1, TimeKeeps
<1>6. WaitOK'
  <2>1. Exists \subseteq used /\ used \subseteq Ids
    BY DEF ItemsOK, Basics
  <2>2. \A i \in Ids \ used : waited'[i] = 0
    BY <1>1, <2>1
  <2>3. ASSUME NEW i \in Exists
        PROVE  /\ items[i].next \in Nat
               /\ Overdue(items[i]) => Overdue(items[i])'
               /\ Due(items[i])' /\ Overdue(items[i]) => Due(items[i])
               /\ waited'[i] = IF Overdue(items[i]) THEN waited[i] + 1 ELSE 0
    <3>1. items[i].next \in Nat
      BY Typed DEF ItemsOK
    <3>2. waited'[i] = IF Overdue(items[i]) THEN waited[i] + 1 ELSE 0
      BY <1>1, <2>1
    <3> QED BY <1>1, <1>2, <3>1, <3>2 DEF Overdue, Due
  <2>4. \A i \in Exists : ~(Overdue(items[i])') => waited'[i] = 0
    BY <2>3
  <2>5. ASSUME mode = "up"
        PROVE  /\ clock' <= timer /\ timer <= clock' + MaxSleep
               /\ \A i \in Exists : Due(items[i])' => waited'[i] + (timer - clock') <= MaxSleep
    <3>1. clock <= timer /\ timer <= clock + MaxSleep
      BY <2>5 DEF WaitOK
    <3>2. clock < timer
      BY <1>1, <1>2, <1>3, <3>1 DEF Never
    <3>3. ASSUME NEW i \in Exists, Due(items[i])'
          PROVE  waited'[i] + (timer - clock') <= MaxSleep
      <4>1. CASE Overdue(items[i])
        <5>1. waited[i] + (timer - clock) <= MaxSleep
          BY <2>3, <2>5, <3>3, <4>1 DEF WaitOK
        <5>2. waited'[i] = waited[i] + 1 /\ waited[i] \in Nat
          BY <1>3, <2>1, <2>3, <4>1
        <5> QED BY <1>1, <1>2, <1>3, <5>1, <5>2
      <4>2. CASE ~Overdue(items[i])
        <5>1. waited'[i] = 0
          BY <2>3, <4>2
        <5> QED BY <1>1, <1>2, <1>3, <3>1, <5>1
      <4> QED BY <4>1, <4>2
    <3> QED BY <1>1, <1>2, <1>3, <3>1, <3>2, <3>3
  <2> QED BY <1>1, <1>5, <2>2, <2>4, <2>5 DEF WaitOK
<1> QED BY <1>5, <1>6

(* While the computer sleeps, what the timer still sleeps does not change, *)
(* and what falls due has not waited.                                      *)
LEMMA SuspendKeeps ==
  ASSUME IInv, NEW t \in Instants, Suspend(t)
  PROVE  IInv'
<1> USE DEF IInv
<1>1. /\ UNCHANGED <<mode, items, stored, running, inflight, owned, used, wish,
                     overridden, waited, since, bootAt>>
      /\ clock' = t /\ t > clock /\ mode = "up"
      /\ timer' = IF timer = Never THEN Never ELSE timer + (t - clock)
  BY DEF Suspend, aux
<1>2. clock \in Nat /\ t \in Nat /\ 1 <= clock
  BY Times, SchedulesAssumption DEF Basics, Instants
<1>3. waited \in [Ids -> Nat] /\ timer \in Nat /\ MaxSleep \in Nat
  BY Times DEF Basics
<1>4. clock <= timer /\ timer <= clock + MaxSleep
  BY <1>1 DEF WaitOK
<1>5. timer' = timer + (t - clock) /\ timer' \in Nat
  BY <1>1, <1>2, <1>3, <1>4 DEF Never
<1>6. /\ Basics' /\ ItemsOK' /\ StoreOK' /\ NoOverlap' /\ DownOK' /\ StoreKeeps'
      /\ PauseHolds' /\ NextIsEarliest' /\ SinceBoot' /\ Exists' = Exists
  <2>1. clock' \in Instants /\ clock <= clock' /\ waited' \in [Ids -> Nat]
    BY <1>1, <1>2, <1>3
  <2> QED BY <1>1, <1>5, <2>1, TimeKeeps
<1>7. WaitOK'
  <2>1. Exists \subseteq Ids
    BY DEF ItemsOK, Basics
  <2>2. ASSUME NEW i \in Exists
        PROVE  /\ Overdue(items[i]) => Overdue(items[i])'
               /\ Due(items[i])' /\ Overdue(items[i]) => Due(items[i])
    <3>1. items[i].next \in Nat
      BY Typed DEF ItemsOK
    <3> QED BY <1>1, <1>2, <3>1 DEF Overdue, Due
  <2>3. \A i \in Exists : ~(Overdue(items[i])') => waited[i] = 0
    BY <2>2 DEF WaitOK
  <2>4. clock' <= timer' /\ timer' <= clock' + MaxSleep /\ timer' - clock' = timer - clock
    BY <1>1, <1>2, <1>3, <1>4, <1>5
  <2>5. ASSUME NEW i \in Exists, Due(items[i])'
        PROVE  waited[i] + (timer' - clock') <= MaxSleep
    <3>1. waited[i] + (timer - clock) <= MaxSleep
      <4>1. CASE Overdue(items[i])
        BY <1>1, <2>2, <2>5, <4>1 DEF WaitOK
      <4>2. CASE ~Overdue(items[i])
        <5>1. waited[i] = 0
          BY <4>2 DEF WaitOK
        <5> QED BY <1>2, <1>3, <1>4, <5>1
      <4> QED BY <4>1, <4>2
    <3> QED BY <2>4, <3>1
  <2>6. \A i \in Ids \ used : waited[i] = 0
    BY DEF WaitOK
  <2> QED BY <1>1, <1>6, <2>3, <2>4, <2>5, <2>6 DEF WaitOK
<1> QED BY <1>6, <1>7

(* Every step keeps the invariant.                                         *)
LEMMA NextIInv == IInv /\ [Next]_vars => IInv'
<1> SUFFICES ASSUME IInv, [Next]_vars PROVE IInv'
  OBVIOUS
<1>1. CASE Boot
  BY <1>1, BootKeeps
<1>2. CASE Stop \/ Exit
  BY <1>2, StopAndExitKeep
<1>3. CASE UserStep
  BY <1>3, CreateKeeps, UserUpdatesKeep, RemoveKeeps, RunNowKeeps DEF UserStep
<1>4. CASE Tick
  BY <1>4, TickKeeps
<1>5. CASE Pass
  BY <1>5, PassKeeps
<1>6. CASE \E i \in Ids, outcome \in {"succeeded", "failed"} : Finish(i, outcome)
  BY <1>6, FinishKeeps
<1>7. CASE \E t \in Instants : Suspend(t)
  BY <1>7, SuspendKeeps
<1>8. CASE UNCHANGED vars
  <2>1. UNCHANGED <<clock, mode, items, stored, running, inflight, timer, owned, used, wish,
                    overridden, waited, since, bootAt>>
    BY <1>8 DEF vars
  <2>2. Exists' = Exists
    BY <2>1 DEF Exists
  <2>3. Basics' /\ ItemsOK' /\ StoreOK' /\ NoOverlap' /\ DownOK'
    BY <2>1, <2>2 DEF IInv, Basics, ItemsOK, StoreOK, NoOverlap, DownOK
  <2>4. StoreKeeps' /\ PauseHolds' /\ SinceBoot' /\ NextIsEarliest' /\ WaitOK'
    BY <2>1, <2>2 DEF IInv, StoreKeeps, PauseHolds, SinceBoot, NextIsEarliest, WaitOK,
                      Overdue, Due
  <2> QED BY <2>3, <2>4 DEF IInv
<1> QED BY <1>1, <1>2, <1>3, <1>4, <1>5, <1>6, <1>7, <1>8 DEF Next

(* The invariant holds in every reachable state.                           *)
THEOREM SpecIInv == Spec => []IInv
BY InitIInv, NextIInv, PTL DEF Spec

-----------------------------------------------------------------------------
(* The properties of the runs, for every value of the constants.           *)

(* At most one run of a schedule is under way, whatever the timer, runNow, *)
(* a removal and a restart do; it is the one the status and the history    *)
(* show as running.                                                        *)
THEOREM RunsAreAccounted == Spec => []RunsAccounted
<1>1. IInv => RunsAccounted
  <2> SUFFICES ASSUME IInv PROVE RunsAccounted
    OBVIOUS
  <2>1. TypeOK
    BY DEF IInv, Basics, ItemsOK, StoreOK, ItemOK, TypeOK
  <2>2. HistoryTruthful
    BY DEF IInv, Basics, ItemsOK, ItemOK, NoOverlap, HistoryTruthful
  <2> QED BY <2>1, <2>2 DEF IInv, RunsAccounted
<1> QED BY <1>1, SpecIInv, PTL

(* A schedule paused while idle stays paused, without a next run, through  *)
(* edits, ticks and restarts, until the user resumes or runs it.           *)
THEOREM PausesHold == Spec => []PauseHolds
<1>1. IInv => PauseHolds
  BY DEF IInv
<1> QED BY <1>1, SpecIInv, PTL

(* The next run is the first slot after the latest start of a run, however *)
(* long that run takes, and an active schedule that is due waits at most   *)
(* one longest sleep of the timer while the computer is awake.             *)
THEOREM CadenceIsKept == Spec => []CadenceKept
<1>1. IInv => CadenceKept
  <2> SUFFICES ASSUME IInv, NEW i \in Exists, mode = "up", Due(items[i])
               PROVE  waited[i] <= MaxSleep
    BY DEF CadenceKept, PromptFiring, IInv
  <2>1. /\ waited[i] + (timer - clock) <= MaxSleep /\ clock <= timer
        /\ i \in Ids
    BY DEF IInv, WaitOK, ItemsOK, Basics
  <2>2. waited[i] \in Nat /\ clock \in Nat /\ timer \in Nat /\ MaxSleep \in Nat
    BY <2>1, Times DEF IInv, Basics
  <2> QED BY <2>1, <2>2
<1> QED BY <1>1, SpecIInv, PTL

(* A restart brings back every schedule the user has, and a schedule is    *)
(* never fired for a slot from before the process started.                 *)
THEOREM RestartsAreHonest == Spec => RestartHonest
<1>1. IInv => NothingForgotten
  BY DEF IInv, StoreKeeps, NothingForgotten
<1>2. IInv /\ [Next]_vars =>
        [\A i \in Exists :
            (i \in running' \ running /\ items[i].status = "active" /\ items[i].next <= clock)
                => items[i].next >= bootAt]_vars
  BY DEF IInv, SinceBoot, ItemsOK, ItemOK
<1> QED BY <1>1, <1>2, SpecIInv, PTL DEF Spec, RestartHonest, NoReplay
=============================================================================
