------------------------- MODULE ManagerQueueProofs -------------------------
(***************************************************************************)
(* Proofs about the manager's queue for every set of jobs and chats, every *)
(* limit and any number of events.  A handler is a change of the pool or   *)
(* of the runs followed by a drain, so the argument is made about states s *)
(* as records: what each operator of the pool keeps, what one claim keeps, *)
(* and from that what a drain of one chat and of all chats keeps.          *)
(*                                                                         *)
(* Some promises of the queue only hold in histories without certain       *)
(* events (the README tells which and why); Never(k) says that events of   *)
(* kind k do not happen, and a part of the invariant starts with the ones  *)
(* it needs.                                                               *)
(***************************************************************************)
EXTENDS ManagerQueue, SequenceTheorems, FiniteSetTheorems, WellFoundedInduction, TLAPS

Never(k) == Allowed[k] = 0

(* Nobody changes jobs by hand or deletes a chat.                          *)
Untouched == Never("edit") /\ Never("claim") /\ Never("remove")

(* Untouched, and no job is cancelled while its run is under way.          *)
Orderly == Untouched /\ Never("cancel")

(* The history is long enough for every job.                               *)
Ample == IsFiniteSet(Jobs) /\ Cardinality(Jobs) <= HistoryLimit

-----------------------------------------------------------------------------
(* The pool.                                                               *)

Pools == [order  : Seq(Jobs),
          status : [Jobs -> Statuses \cup {"new", "gone"}],
          run    : [Jobs -> Runs \cup {NoRun, UserRun}],
          deps   : [Jobs -> SUBSET Jobs],
          prio   : [Jobs -> Nat]]

(* The array lists every job there is, once.                               *)
ArrayOK(p) ==
  /\ \A x \in 1 .. Len(p.order) : p.order[x] \in Present(p)
  /\ \A j \in Present(p) : \E x \in 1 .. Len(p.order) : p.order[x] = j
  /\ \A x, y \in 1 .. Len(p.order) : p.order[x] = p.order[y] => x = y

(* A running job has a run, a waiting one none; the run is one of its chat *)
(* and, unless agents claim cards, its own.                                *)
RunsOK(p) ==
  \A j \in Jobs :
    /\ p.status[j] = "running" => p.run[j] # NoRun
    /\ p.status[j] \in {"new", "gone", "queued"} => p.run[j] = NoRun
    /\ p.run[j] \in Runs => p.run[j].chat = ChatOf[j]
    /\ Never("claim") /\ p.run[j] \in Runs => p.run[j].job = j
    /\ Never("edit") => p.run[j] # UserRun

PoolOK(p) == p \in Pools /\ ArrayOK(p) /\ RunsOK(p)

DepsOK(p) ==
  \A j \in With(p, "queued") \cup With(p, "running") : \A d \in p.deps[j] :
    /\ d \in Present(p)
    /\ p.status[j] = "running" => p.status[d] = "completed"

-----------------------------------------------------------------------------
(* The state a stretch of code works on.                                   *)

States == [pool : Pools, saved : Pools, drain : [Chats -> Runs \cup {NoRun}],
           active : SUBSET Runs, claims : [Jobs -> Nat]]

LiveIn(s) == ({s.drain[c] : c \in Chats} \ {NoRun}) \cup {r \in s.active : r.job # NoJob}

(* The queue's active runs in a chat leave room for the start under way.   *)
InChat(s, c) == {r \in s.active : r.chat = c /\ r.job # NoJob}
ChatRoom(s) ==
  \A c \in Chats :
    Cardinality(InChat(s, c)) + (IF s.drain[c] = NoRun THEN 0 ELSE 1) <= ChatLimit

StartsOK(s) ==
  \A c \in Chats : s.drain[c] # NoRun => s.drain[c].chat = c /\ s.drain[c].job \in Jobs

(* A run id is new when it is made up, so no start is that of an active    *)
(* run.                                                                    *)
FreshOK(s) ==
  /\ \A r \in LiveIn(s) : r.n <= s.claims[r.job]
  /\ \A c \in Chats : s.drain[c] \notin s.active

Sound(s) ==
  /\ s \in States /\ PoolOK(s.pool) /\ PoolOK(s.saved)
  /\ IsFiniteSet(s.active) /\ StartsOK(s) /\ FreshOK(s) /\ ChatRoom(s)

Gated(s) == Untouched => DepsOK(s.pool) /\ DepsOK(s.saved)

Backed(s) ==
  Never("claim") =>
    \A j \in With(s.pool, "running") :
      s.pool.run[j] = UserRun \/ s.pool.run[j] \in LiveIn(s)

(* A run under way is that of a running job, so that its slot is counted.  *)
Counted(s) ==
  Orderly => \A r \in LiveIn(s) : s.pool.status[r.job] = "running" /\ s.pool.run[r.job] = r

(* A run under way is that of a job the pool still knows.                  *)
Known(s) ==
  Untouched /\ Ample => \A r \in LiveIn(s) : r.job \in Present(s.pool) /\ s.pool.run[r.job] = r

WorldRoom(s) ==
  Orderly => IsFiniteSet(LiveIn(s)) /\ Cardinality(LiveIn(s)) <= GlobalLimit

Alone(s) ==
  Orderly \/ (Untouched /\ Ample) =>
    \A r, q \in LiveIn(s) :
      r # q /\ r.chat = q.chat => ~RequiresExclusiveRun(s.pool, r.job)

Good(s) ==
  Sound(s) /\ Gated(s) /\ Backed(s) /\ Counted(s) /\ Known(s) /\ WorldRoom(s) /\ Alone(s)

(* With nothing under way, nothing is ready.                               *)
Still(s) == s.active = {} /\ \A c \in Chats : s.drain[c] = NoRun
Awake(s) ==
  Still(s) => ChatLimit = 0 \/ GlobalLimit = 0 \/ \A c \in Chats : Ready(s.pool, c) = {}

(* No start of a run fails, and nobody takes a job out of the queue's hand.*)
Undisturbed == Never("edit") /\ Never("claim") /\ Never("fail")

Lands(s) == Good(s) /\ (Undisturbed => Awake(s))

IInv == Lands(State) /\ aborted \subseteq active /\ spent \in [Kinds -> Nat]

-----------------------------------------------------------------------------
(* Recursion over positions.                                               *)

(* A set of numbers that has elements has a least one.                     *)
LEMMA LeastNumber ==
  ASSUME NEW S \in SUBSET Nat, S # {}
  PROVE  \E m \in S : \A u \in S : m <= u
<1> DEFINE less == {pq \in Nat \X Nat : pq[1] < pq[2]}
<1>1. IsWellFoundedOn(less, Nat)
  BY NatLessThanWellFounded, Zenon DEF OpToRel
<1>2. \A u, m \in Nat : u < m => <<u, m>> \in less
  OBVIOUS
<1> HIDE DEF less
<1>3. PICK m \in S : \A u \in S : ~(<<u, m>> \in less)
  BY <1>1, WFMin
<1>4. \A u \in S : m <= u
  <2> SUFFICES ASSUME NEW u \in S PROVE m <= u
    OBVIOUS
  <2>1. u \in Nat /\ m \in Nat /\ ~(u < m)
    BY <1>2, <1>3
  <2> QED BY <2>1
<1> QED BY <1>4

(* Induction, for a set of numbers in place of a predicate.                *)
LEMMA UpTo ==
  ASSUME NEW N \in Nat, NEW T, 0 \in T, \A n \in 1 .. N : n - 1 \in T => n \in T
  PROVE  \A n \in 0 .. N : n \in T
<1> SUFFICES ASSUME \E n \in 0 .. N : n \notin T PROVE FALSE
  OBVIOUS
<1> DEFINE S == {n \in 0 .. N : n \notin T}
<1>1. S \in SUBSET Nat /\ S # {}
  OBVIOUS
<1>2. PICK m \in S : \A u \in S : m <= u
  BY <1>1, LeastNumber
<1>3. m \in 1 .. N /\ m - 1 \in 0 .. N /\ m - 1 < m
  BY <1>2
<1>4. m - 1 \notin S
  BY <1>2, <1>3
<1> QED BY <1>2, <1>3, <1>4

(* N steps on a set S, and the states they lead through from b.            *)
Steps(N, S) == [1 .. N -> [S -> S]]
Trail(f, N, S, b, step) ==
  f \in [0 .. N -> S] /\ f[0] = b /\ \A n \in 1 .. N : f[n] = step[n][f[n - 1]]

(* Steps on a set can be taken one after the other.                        *)
LEMMA Repeated ==
  ASSUME NEW N \in Nat, NEW S, NEW b \in S, NEW step \in Steps(N, S)
  PROVE  \E f : Trail(f, N, S, b, step)
<1> USE DEF Steps
<1> DEFINE Follows(f, m) == f[0] = b /\ \A n \in 1 .. m : f[n] = step[n][f[n - 1]]
           T == {m \in 0 .. N : \E f \in [0 .. m -> S] : Follows(f, m)}
<1>1. 0 \in T
  <2> DEFINE f == [i \in 0 .. 0 |-> b]
  <2>1. f \in [0 .. 0 -> S] /\ Follows(f, 0)
    OBVIOUS
  <2> HIDE DEF Follows, f
  <2> QED BY <2>1
<1>2. ASSUME NEW m \in 1 .. N, m - 1 \in T PROVE m \in T
  <2>1. PICK f \in [0 .. m - 1 -> S] : Follows(f, m - 1)
    BY <1>2
  <2> DEFINE e == step[m][f[m - 1]]
             g == [i \in 0 .. m |-> IF i = m THEN e ELSE f[i]]
  <2>2. e \in S
    BY <2>1
  <2>3. g \in [0 .. m -> S]
    BY <2>2
  <2>4. g[0] = b
    BY <2>1
  <2>5. \A n \in 1 .. m : g[n] = step[n][g[n - 1]]
    <3> SUFFICES ASSUME NEW n \in 1 .. m PROVE g[n] = step[n][g[n - 1]]
      OBVIOUS
    <3>1. CASE n = m
      <4>1. n - 1 \in 0 .. m /\ n - 1 # m /\ n \in 0 .. m
        BY <3>1
      <4>2. g[n] = e /\ g[n - 1] = f[m - 1]
        BY <3>1, <4>1
      <4> QED BY <3>1, <4>2
    <3>2. CASE n # m
      <4>1. n \in 1 .. m - 1 /\ n \in 0 .. m /\ n - 1 \in 0 .. m /\ n - 1 # m
        BY <3>2
      <4>2. g[n] = f[n] /\ g[n - 1] = f[n - 1]
        BY <4>1, <3>2
      <4> QED BY <2>1, <4>1, <4>2
    <3> QED BY <3>1, <3>2
  <2>6. Follows(g, m)
    BY <2>4, <2>5
  <2> HIDE DEF Follows, g
  <2> QED BY <2>3, <2>6
<1> HIDE DEF T
<1>3. \A n \in 0 .. N : n \in T
  BY <1>1, <1>2, UpTo
<1>4. N \in T
  BY <1>3
<1> QED BY <1>4 DEF T, Trail

-----------------------------------------------------------------------------
(* The array.                                                              *)

Distinct(q) == \A x, y \in 1 .. Len(q) : q[x] = q[y] => x = y

(* k has the elements of an array that are not taken out, once.            *)
IsRest(k, order, out) ==
  /\ k \in Seq(Jobs) /\ Distinct(k)
  /\ \A x \in 1 .. Len(k) : \E m \in 1 .. Len(order) : k[x] = order[m] /\ order[m] \notin out
  /\ \A m \in 1 .. Len(order) : order[m] \notin out => \E x \in 1 .. Len(k) : k[x] = order[m]

(* Keep takes elements out and does nothing else to them.                  *)
LEMMA KeepProperties ==
  ASSUME NEW order \in Seq(Jobs), Distinct(order), NEW out
  PROVE  IsRest(Keep(order, out), order, out)
<1> DEFINE N == Len(order)
           Is(f) == f = [n \in 0 .. Len(order) |->
                          IF n = 0 THEN <<>>
                          ELSE IF order[n] \in out THEN f[n - 1] ELSE Append(f[n - 1], order[n])]
<1>0. N \in Nat /\ \A n \in 1 .. N : order[n] \in Jobs
  BY LenProperties, ElementOfSeq
<1>1. \E f : Is(f)
  <2> DEFINE step == [n \in 1 .. N |-> [q \in Seq(Jobs) |->
                        IF order[n] \in out THEN q ELSE Append(q, order[n])]]
  <2>1. step \in [1 .. N -> [Seq(Jobs) -> Seq(Jobs)]]
    BY <1>0
  <2>2. \A n \in 1 .. N, q \in Seq(Jobs) :
          step[n][q] = IF order[n] \in out THEN q ELSE Append(q, order[n])
    OBVIOUS
  <2> HIDE DEF step
  <2>3. PICK f \in [0 .. N -> Seq(Jobs)] :
          f[0] = <<>> /\ \A n \in 1 .. N : f[n] = step[n][f[n - 1]]
    <3>1. N \in Nat /\ <<>> \in Seq(Jobs) /\ step \in Steps(N, Seq(Jobs))
      BY <1>0, <2>1, EmptySeq DEF Steps
    <3>2. \E f : Trail(f, N, Seq(Jobs), <<>>, step)
      BY <3>1, Repeated
    <3> QED BY <3>2 DEF Trail
  <2>4. \A n \in 0 .. N :
          f[n] = IF n = 0 THEN <<>>
                 ELSE IF order[n] \in out THEN f[n - 1] ELSE Append(f[n - 1], order[n])
    <3> SUFFICES ASSUME NEW n \in 0 .. N, n # 0
                 PROVE  f[n] = IF order[n] \in out THEN f[n - 1] ELSE Append(f[n - 1], order[n])
      BY <2>3
    <3>1. n \in 1 .. N /\ n - 1 \in 0 .. N
      BY <1>0
    <3> QED BY <2>2, <2>3, <3>1
  <2> QED BY <2>3, <2>4
<1>2. PICK f : Is(f) /\ Keep(order, out) = f[Len(order)]
  BY <1>1, Zenon DEF Keep
<1>3. f[0] = <<>>
  BY <1>0, <1>2
<1>4. \A n \in 1 .. N :
        f[n] = IF order[n] \in out THEN f[n - 1] ELSE Append(f[n - 1], order[n])
  <2> SUFFICES ASSUME NEW n \in 1 .. N
               PROVE  f[n] = IF order[n] \in out THEN f[n - 1] ELSE Append(f[n - 1], order[n])
    OBVIOUS
  <2>1. n \in 0 .. N /\ n # 0
    BY <1>0
  <2> QED BY <1>2, <2>1
<1> HIDE DEF Is
<1> DEFINE Fine(n) ==
      /\ f[n] \in Seq(Jobs)
      /\ Distinct(f[n])
      /\ \A x \in 1 .. Len(f[n]) : \E m \in 1 .. n : f[n][x] = order[m] /\ order[m] \notin out
      /\ \A m \in 1 .. n : order[m] \notin out => \E x \in 1 .. Len(f[n]) : f[n][x] = order[m]
      T == {n \in 0 .. N : Fine(n)}
<1>5. 0 \in T
  <2>1. f[0] \in Seq(Jobs) /\ 1 .. Len(f[0]) = {} /\ 1 .. 0 = {}
    BY <1>3, EmptySeq
  <2>2. Fine(0)
    BY <2>1 DEF Distinct
  <2> HIDE DEF Fine
  <2> QED BY <1>0, <2>2
<1>6. ASSUME NEW n \in 1 .. N, n - 1 \in T PROVE n \in T
  <2>0. Fine(n - 1)
    <3> HIDE DEF Fine
    <3> QED BY <1>6
  <2>1. Fine(n - 1) /\ n - 1 \in Nat /\ n \in 0 .. N /\ order[n] \in Jobs
    <3> HIDE DEF Fine
    <3> QED BY <1>0, <2>0
  <2> SUFFICES Fine(n)
    <3> HIDE DEF Fine
    <3> QED BY <2>1
  <2>2. CASE order[n] \in out
    <3>1. f[n] = f[n - 1]
      BY <1>4, <2>2
    <3>2. \A m \in 1 .. n : order[m] \notin out => m \in 1 .. n - 1
      BY <2>1, <2>2
    <3>3. \A m \in 1 .. n - 1 : m \in 1 .. n
      BY <2>1
    <3> QED BY <2>1, <3>1, <3>2, <3>3
  <2>3. CASE order[n] \notin out
    <3> DEFINE q == f[n - 1]
    <3>1. f[n] = Append(q, order[n])
      BY <1>4, <2>3
    <3>2. /\ f[n] \in Seq(Jobs) /\ Len(q) \in Nat /\ Len(f[n]) = Len(q) + 1
          /\ f[n][Len(q) + 1] = order[n] /\ \A x \in 1 .. Len(q) : f[n][x] = q[x]
      BY <2>1, <3>1, AppendProperties, LenProperties
    <3>3. \A x \in 1 .. Len(q) : f[n][x] # order[n]
      <4> SUFFICES ASSUME NEW x \in 1 .. Len(q), f[n][x] = order[n] PROVE FALSE
        OBVIOUS
      <4>1. PICK m \in 1 .. n - 1 : q[x] = order[m]
        BY <2>1
      <4>2. m \in 1 .. N /\ m # n /\ order[m] = order[n]
        BY <1>0, <3>2, <4>1
      <4> QED BY <4>2 DEF Distinct
    <3>4. Distinct(f[n])
      <4> SUFFICES ASSUME NEW x \in 1 .. Len(q) + 1, NEW y \in 1 .. Len(q) + 1, f[n][x] = f[n][y]
                   PROVE  x = y
        BY <3>2 DEF Distinct
      <4>1. CASE x \in 1 .. Len(q) /\ y \in 1 .. Len(q)
        BY <2>1, <3>2, <4>1 DEF Distinct
      <4>2. CASE x = Len(q) + 1
        <5>1. y \notin 1 .. Len(q)
          BY <3>2, <3>3, <4>2
        <5> QED BY <3>2, <4>2, <5>1
      <4>3. CASE y = Len(q) + 1
        <5>1. x \notin 1 .. Len(q)
          BY <3>2, <3>3, <4>3
        <5> QED BY <3>2, <4>3, <5>1
      <4> QED BY <4>1, <4>2, <4>3, <3>2
    <3>5. \A x \in 1 .. Len(f[n]) : \E m \in 1 .. n : f[n][x] = order[m] /\ order[m] \notin out
      <4> SUFFICES ASSUME NEW x \in 1 .. Len(q) + 1
                   PROVE  \E m \in 1 .. n : f[n][x] = order[m] /\ order[m] \notin out
        BY <3>2
      <4>1. CASE x = Len(q) + 1
        BY <2>3, <3>2, <4>1
      <4>2. CASE x # Len(q) + 1
        <5>1. x \in 1 .. Len(q)
          BY <3>2, <4>2
        <5>2. PICK m \in 1 .. n - 1 : q[x] = order[m] /\ order[m] \notin out
          BY <2>1, <5>1
        <5>3. m \in 1 .. n
          BY <5>2
        <5> QED BY <3>2, <5>1, <5>2, <5>3
      <4> QED BY <4>1, <4>2
    <3>6. \A m \in 1 .. n : order[m] \notin out => \E x \in 1 .. Len(f[n]) : f[n][x] = order[m]
      <4> SUFFICES ASSUME NEW m \in 1 .. n, order[m] \notin out
                   PROVE  \E x \in 1 .. Len(q) + 1 : f[n][x] = order[m]
        BY <3>2
      <4>1. CASE m = n
        BY <3>2, <4>1
      <4>2. CASE m # n
        <5>1. m \in 1 .. n - 1
          BY <4>2
        <5>2. PICK x \in 1 .. Len(q) : q[x] = order[m]
          BY <2>1, <5>1
        <5> QED BY <3>2, <5>2
      <4> QED BY <4>1, <4>2
    <3> QED BY <2>1, <3>2, <3>4, <3>5, <3>6
  <2> QED BY <2>2, <2>3
<1> HIDE DEF T
<1>7. N \in T
  <2> HIDE DEF N, Fine
  <2>1. \A n \in 0 .. N : n \in T
    BY <1>0, <1>5, <1>6, UpTo
  <2> QED BY <1>0, <2>1
<1>8. Fine(N)
  <2> HIDE DEF Fine
  <2> QED BY <1>7 DEF T
<1> QED BY <1>2, <1>8 DEF IsRest

(* The array as TypeOK describes it.                                       *)
LEMMA ArrayCounts ==
  ASSUME NEW p, PoolOK(p)
  PROVE  /\ ToSet(p.order) = Present(p)
         /\ IsFiniteSet(Present(p)) /\ Len(p.order) = Cardinality(Present(p))
<1> DEFINE f == p.order
           N == Len(f)
<1>1. f \in Seq(Jobs) /\ N \in Nat /\ DOMAIN f = 1 .. N /\ f \in [1 .. N -> Jobs]
  BY LenProperties DEF PoolOK, Pools
<1>2. \A x \in 1 .. N : f[x] \in Present(p)
  BY DEF PoolOK, ArrayOK
<1>3. \A j \in Present(p) : \E x \in 1 .. N : f[x] = j
  BY DEF PoolOK, ArrayOK
<1>4. \A x, y \in 1 .. N : f[x] = f[y] => x = y
  BY DEF PoolOK, ArrayOK
<1> HIDE DEF f, N
<1>5. ToSet(f) = Present(p)
  BY <1>1, <1>2, <1>3 DEF ToSet
<1>6. f \in [1 .. N -> Present(p)]
  BY <1>1, <1>2
<1>7. f \in Bijection(1 .. N, Present(p))
  BY <1>3, <1>4, <1>6 DEF Bijection, Injection, Surjection, IsInjective
<1>8. ExistsBijection(1 .. N, Present(p))
  BY <1>7 DEF ExistsBijection
<1>9. Cardinality(Present(p)) = N
  BY <1>1, <1>8, FS_CountingElements
<1>10. IsFiniteSet(Present(p))
  BY <1>1, <1>8, FS_NatBijection
<1> QED BY <1>5, <1>9, <1>10 DEF f, N

(* Jobs with a status of a job that exists.                                *)
LEMMA Statuses3 ==
  ASSUME NEW p, NEW j \in Jobs
  PROVE  /\ j \in Present(p) <=> p.status[j] \in Statuses
         /\ \A st : j \in With(p, st) <=> p.status[j] = st
BY DEF Present, With

(* A refresh only blocks waiting jobs, and none that is ready.             *)
LEMMA RefreshFacts ==
  ASSUME NEW p, PoolOK(p), NEW q, q = RefreshBlocked(p)
  PROVE  /\ PoolOK(q)
         /\ q.order = p.order /\ q.run = p.run /\ q.deps = p.deps /\ q.prio = p.prio
         /\ \A j \in Jobs : \/ q.status[j] = p.status[j]
                            \/ p.status[j] = "queued" /\ q.status[j] = "blocked"
         /\ \A c : Ready(q, c) = Ready(p, c)
<1> DEFINE B == NewlyBlocked(p)
<1>1. B \subseteq With(p, "queued")
  BY DEF NewlyBlocked
<1>2. \A j \in B : \E d \in p.deps[j] : p.status[d] # "completed"
  BY DEF NewlyBlocked, With
<1> HIDE DEF B
<1>3. p \in Pools
  BY DEF PoolOK
<1>4. q = [p EXCEPT !.status = [j \in Jobs |-> IF j \in B THEN "blocked" ELSE p.status[j]]]
  BY DEF RefreshBlocked, B
<1>5. /\ q.order = p.order /\ q.run = p.run /\ q.deps = p.deps /\ q.prio = p.prio
      /\ q.status = [j \in Jobs |-> IF j \in B THEN "blocked" ELSE p.status[j]]
      /\ q \in Pools
  <2> DEFINE st == [j \in Jobs |-> IF j \in B THEN "blocked" ELSE p.status[j]]
  <2>1. st \in [Jobs -> Statuses \cup {"new", "gone"}]
    BY <1>3 DEF Pools, Statuses
  <2> HIDE DEF st
  <2>2. q = [p EXCEPT !.status = st]
    BY <1>4 DEF st
  <2>3. /\ q.order = p.order /\ q.run = p.run /\ q.deps = p.deps /\ q.prio = p.prio
        /\ q.status = st /\ q \in Pools
    BY <1>3, <2>1, <2>2 DEF Pools
  <2> QED BY <2>3 DEF st
<1>6. \A j \in Jobs : \/ j \notin B /\ q.status[j] = p.status[j]
                      \/ j \in B /\ p.status[j] = "queued" /\ q.status[j] = "blocked"
  BY <1>1, <1>5 DEF With
<1>7. Present(q) = Present(p)
  BY <1>6 DEF Present, Statuses
<1>8. ArrayOK(q)
  BY <1>5, <1>7 DEF PoolOK, ArrayOK
<1>9. RunsOK(q)
  BY <1>5, <1>6 DEF PoolOK, RunsOK
<1>10. ASSUME NEW c PROVE Ready(q, c) = Ready(p, c)
  <2>1. \A j \in Jobs : p.deps[j] \in SUBSET Jobs
    BY <1>3 DEF Pools
  <2>2. \A d \in Jobs : q.status[d] = "completed" <=> p.status[d] = "completed"
    BY <1>6
  <2>3. \A j \in Jobs : j \in Ready(p, c) => j \in Ready(q, c)
    BY <1>2, <1>5, <1>6, <2>1, <2>2 DEF Ready, With
  <2>4. \A j \in Jobs : j \in Ready(q, c) => j \in Ready(p, c)
    BY <1>5, <1>6, <2>1, <2>2 DEF Ready, With
  <2>5. Ready(p, c) \subseteq Jobs /\ Ready(q, c) \subseteq Jobs
    BY DEF Ready, With
  <2> QED BY <2>3, <2>4, <2>5
<1> QED BY <1>5, <1>6, <1>8, <1>9, <1>10 DEF PoolOK

(* Taking jobs out.                                                        *)
LEMMA WithoutFacts ==
  ASSUME NEW p, PoolOK(p), NEW out \in SUBSET Present(p), NEW q, q = Without(p, out)
  PROVE  /\ PoolOK(q)
         /\ \A j \in Jobs \ out : /\ q.status[j] = p.status[j] /\ q.run[j] = p.run[j]
                                  /\ q.deps[j] = p.deps[j] /\ q.prio[j] = p.prio[j]
         /\ \A j \in out : q.status[j] = "gone" /\ q.run[j] = NoRun /\ q.deps[j] = {}
<1>1. p \in Pools /\ p.order \in Seq(Jobs) /\ Distinct(p.order)
  BY DEF PoolOK, Pools, ArrayOK, Distinct
<1> DEFINE k == Keep(p.order, out)
<1>2. /\ k \in Seq(Jobs) /\ Distinct(k)
      /\ \A x \in 1 .. Len(k) :
           \E m \in 1 .. Len(p.order) : k[x] = p.order[m] /\ p.order[m] \notin out
      /\ \A m \in 1 .. Len(p.order) :
           p.order[m] \notin out => \E x \in 1 .. Len(k) : k[x] = p.order[m]
  <2>1. IsRest(k, p.order, out)
    BY <1>1, KeepProperties
  <2> HIDE DEF k
  <2> QED BY <2>1 DEF IsRest
<1>3. /\ q.order = k
      /\ q.status = [j \in Jobs |-> IF j \in out THEN "gone" ELSE p.status[j]]
      /\ q.run = [j \in Jobs |-> IF j \in out THEN NoRun ELSE p.run[j]]
      /\ q.deps = [j \in Jobs |-> IF j \in out THEN {} ELSE p.deps[j]]
      /\ q.prio = [j \in Jobs |-> IF j \in out THEN 0 ELSE p.prio[j]]
  BY DEF Without
<1>4. q = [order |-> q.order, status |-> q.status, run |-> q.run, deps |-> q.deps, prio |-> q.prio]
  BY DEF Without
<1> HIDE DEF k
<1>5. out \subseteq Jobs
  BY DEF Present
<1>6. /\ \A j \in Jobs \ out : /\ q.status[j] = p.status[j] /\ q.run[j] = p.run[j]
                               /\ q.deps[j] = p.deps[j] /\ q.prio[j] = p.prio[j]
      /\ \A j \in out : q.status[j] = "gone" /\ q.run[j] = NoRun /\ q.deps[j] = {}
  BY <1>3, <1>5
<1>7. q \in Pools
  <2>1. q.status \in [Jobs -> Statuses \cup {"new", "gone"}]
    BY <1>1, <1>3 DEF Pools
  <2>2. q.run \in [Jobs -> Runs \cup {NoRun, UserRun}]
    BY <1>1, <1>3 DEF Pools
  <2>3. q.deps \in [Jobs -> SUBSET Jobs] /\ q.prio \in [Jobs -> Nat]
    BY <1>1, <1>3 DEF Pools
  <2> QED BY <1>2, <1>3, <1>4, <2>1, <2>2, <2>3 DEF Pools
<1>8. Present(q) = Present(p) \ out
  BY <1>5, <1>6 DEF Present, Statuses, Ended
<1>9. ArrayOK(q)
  <2>1. \A x \in 1 .. Len(k) : k[x] \in Present(q)
    BY <1>2, <1>8 DEF PoolOK, ArrayOK
  <2>2. \A j \in Present(q) : \E x \in 1 .. Len(k) : k[x] = j
    <3> SUFFICES ASSUME NEW j \in Present(q) PROVE \E x \in 1 .. Len(k) : k[x] = j
      OBVIOUS
    <3>1. PICK m \in 1 .. Len(p.order) : p.order[m] = j
      BY <1>8 DEF PoolOK, ArrayOK
    <3> QED BY <1>2, <1>8, <3>1
  <2> QED BY <1>2, <1>3, <2>1, <2>2 DEF ArrayOK, Distinct
<1>10. RunsOK(q)
  <2> SUFFICES ASSUME NEW j \in Jobs
               PROVE  /\ q.status[j] = "running" => q.run[j] # NoRun
                      /\ q.status[j] \in {"new", "gone", "queued"} => q.run[j] = NoRun
                      /\ q.run[j] \in Runs => q.run[j].chat = ChatOf[j]
                      /\ Never("claim") /\ q.run[j] \in Runs => q.run[j].job = j
                      /\ Never("edit") => q.run[j] # UserRun
    BY DEF RunsOK
  <2>1. CASE j \in out
    BY <1>6, <2>1, QueueAssumption
  <2>2. CASE j \notin out
    BY <1>6, <2>2 DEF PoolOK, RunsOK
  <2> QED BY <2>1, <2>2
<1> QED BY <1>6, <1>7, <1>9, <1>10 DEF PoolOK

Open(p) == {j \in Jobs : p.status[j] \in {"queued", "running"}}

(* Pruning takes out finished jobs that no open job depends on, and none   *)
(* while the history has room for all.                                     *)
LEMMA PruneFacts ==
  ASSUME NEW p, PoolOK(p)
  PROVE  \E out \in SUBSET Present(p) :
           /\ Prune(p) = Without(p, out)
           /\ \A j \in out : j \notin Open(p) /\ \A k \in Open(p) : j \notin p.deps[k]
           /\ Ample => out = {}
<1> DEFINE open == With(p, "queued") \cup With(p, "running")
           past == Present(p) \ (open \cup UNION {p.deps[j] : j \in open})
           newer(j) == {k \in past : ChatOf[k] = ChatOf[j] /\ Before(p, j, k)}
           out == {j \in past : Cardinality(newer(j)) >= HistoryLimit}
<1>1. Prune(p) = Without(p, out)
  BY DEF Prune
<1>2. open = Open(p)
  BY DEF Open, With
<1>3. out \subseteq past
  OBVIOUS
<1>4. \A j \in past : j \in Present(p) /\ j \notin Open(p) /\ \A k \in Open(p) : j \notin p.deps[k]
  BY <1>2
<1>5. ASSUME Ample, NEW j \in out PROVE FALSE
  <2>1. newer(j) \subseteq Jobs \ {j}
    <3> SUFFICES ASSUME Before(p, j, j) PROVE FALSE
      BY DEF Present
    <3>1. DOMAIN p.order = 1 .. Len(p.order) /\ Len(p.order) \in Nat
      BY LenProperties DEF PoolOK, Pools
    <3>2. PICK x, y \in DOMAIN p.order : x < y /\ p.order[x] = j /\ p.order[y] = j
      BY DEF Before
    <3>3. x = y
      BY <3>1, <3>2 DEF PoolOK, ArrayOK
    <3> QED BY <3>1, <3>2, <3>3
  <2>2. j \in Jobs
    BY <1>4 DEF Present
  <2>3. IsFiniteSet(Jobs) /\ Cardinality(Jobs) <= HistoryLimit /\ HistoryLimit \in Nat
    BY <1>5, QueueAssumption DEF Ample
  <2>4. /\ IsFiniteSet(Jobs \ {j}) /\ Cardinality(Jobs \ {j}) = Cardinality(Jobs) - 1
        /\ Cardinality(Jobs) \in Nat
    BY <2>2, <2>3, FS_RemoveElement, FS_CardinalityType
  <2>5. IsFiniteSet(newer(j)) /\ Cardinality(newer(j)) <= Cardinality(Jobs \ {j})
    <3> DEFINE N == newer(j)
               J == Jobs \ {j}
    <3> HIDE DEF N, J
    <3>1. IsFiniteSet(J) /\ N \in SUBSET J
      BY <2>1, <2>4 DEF N, J
    <3>2. IsFiniteSet(N) /\ Cardinality(N) <= Cardinality(J)
      BY <3>1, FS_Subset
    <3> QED BY <3>2 DEF N, J
  <2>6. Cardinality(newer(j)) \in Nat
    BY <2>5, FS_CardinalityType
  <2>7. Cardinality(newer(j)) >= HistoryLimit
    OBVIOUS
  <2> HIDE DEF newer
  <2> QED BY <2>3, <2>4, <2>5, <2>6, <2>7
<1>6. Ample => out = {}
  BY <1>5
<1> HIDE DEF out, past
<1>7. \A j \in out : j \in Present(p) /\ j \notin Open(p) /\ \A k \in Open(p) : j \notin p.deps[k]
  BY <1>3, <1>4
<1>8. out \in SUBSET Present(p)
  BY <1>7
<1> QED BY <1>1, <1>6, <1>7, <1>8

(* What a refresh and a pruning leave of a pool: open jobs, what they wait *)
(* for, and who is ready.                                                  *)
Tidied(p, q) ==
  /\ PoolOK(q)
  /\ \A k \in Jobs : q.status[k] = "running" <=> p.status[k] = "running"
  /\ \A k \in Open(q) : k \in Open(p) /\ q.run[k] = p.run[k] /\ q.deps[k] = p.deps[k]
  /\ \A k \in Jobs : q.deps[k] \subseteq p.deps[k]
  /\ Ample => \A k \in Present(p) : k \in Present(q) /\ q.run[k] = p.run[k]
  /\ DepsOK(p) => DepsOK(q)
  /\ \A c : Ready(q, c) = Ready(p, c)

(* The end of #settle and of the constructor.                              *)
LEMMA Tidy ==
  ASSUME NEW p, PoolOK(p), NEW q, q = Prune(RefreshBlocked(p))
  PROVE  Tidied(p, q)
<1> DEFINE m == RefreshBlocked(p)
<1>1. /\ PoolOK(m) /\ m.run = p.run /\ m.deps = p.deps
      /\ \A j \in Jobs : \/ m.status[j] = p.status[j]
                         \/ p.status[j] = "queued" /\ m.status[j] = "blocked"
      /\ \A c : Ready(m, c) = Ready(p, c)
  BY RefreshFacts
<1> HIDE DEF m
<1>2. PICK out \in SUBSET Present(m) :
        /\ Prune(m) = Without(m, out)
        /\ \A j \in out : j \notin Open(m) /\ \A k \in Open(m) : j \notin m.deps[k]
        /\ Ample => out = {}
  BY <1>1, PruneFacts
<1>3. /\ PoolOK(q)
      /\ \A j \in Jobs \ out : /\ q.status[j] = m.status[j] /\ q.run[j] = m.run[j]
                               /\ q.deps[j] = m.deps[j] /\ q.prio[j] = m.prio[j]
      /\ \A j \in out : q.status[j] = "gone" /\ q.run[j] = NoRun /\ q.deps[j] = {}
  BY <1>1, <1>2, WithoutFacts DEF m
<1>4. out \subseteq Jobs
  BY <1>2 DEF Present
<1>5. \A k \in Jobs : q.status[k] = "running" <=> p.status[k] = "running"
  BY <1>1, <1>2, <1>3 DEF Open
<1>6. \A k \in Open(q) : k \in Open(m) /\ k \notin out
  BY <1>3, <1>4 DEF Open
<1>7. \A k \in Open(q) : k \in Open(p) /\ q.run[k] = p.run[k] /\ q.deps[k] = p.deps[k]
  BY <1>1, <1>3, <1>6 DEF Open
<1>8. \A k \in Jobs : q.deps[k] \subseteq p.deps[k]
  BY <1>1, <1>3
<1>9. Ample => \A k \in Present(p) : k \in Present(q) /\ q.run[k] = p.run[k]
  BY <1>1, <1>2, <1>3 DEF Present, Statuses
<1>10. \A k \in Open(q) : \A d \in q.deps[k] : d \in Jobs /\ d \notin out /\ q.status[d] = m.status[d]
  <2> SUFFICES ASSUME NEW k \in Open(q), NEW d \in q.deps[k]
               PROVE  d \in Jobs /\ d \notin out /\ q.status[d] = m.status[d]
    OBVIOUS
  <2>1. k \in Jobs /\ k \notin out /\ k \in Open(m) /\ q.deps[k] = m.deps[k]
    BY <1>3, <1>6 DEF Open
  <2>2. m.deps[k] \in SUBSET Jobs
    BY <1>1, <2>1 DEF PoolOK, Pools
  <2> QED BY <1>2, <1>3, <2>1, <2>2
<1>11. ASSUME DepsOK(p) PROVE DepsOK(q)
  <2> SUFFICES ASSUME NEW k \in Open(q), NEW d \in q.deps[k]
               PROVE  d \in Present(q) /\ (q.status[k] = "running" => q.status[d] = "completed")
    BY DEF DepsOK, Open, With
  <2>1. d \in Jobs /\ q.status[d] = m.status[d] /\ k \in Open(p) /\ d \in p.deps[k] /\ k \in Jobs
    BY <1>7, <1>10 DEF Open
  <2>2. d \in Present(p) /\ (p.status[k] = "running" => p.status[d] = "completed")
    BY <1>11, <2>1 DEF DepsOK, Open, With
  <2> QED BY <1>1, <1>5, <2>1, <2>2 DEF Present, Statuses
<1>12. ASSUME NEW c PROVE Ready(q, c) = Ready(p, c)
  <2>1. \A j \in Ready(q, c) : j \in Ready(m, c)
    <3> SUFFICES ASSUME NEW j \in Ready(q, c) PROVE j \in Ready(m, c)
      OBVIOUS
    <3>1. j \in Open(q) /\ j \in Jobs /\ j \notin out
      BY <1>6 DEF Ready, With, Open
    <3> QED BY <1>3, <1>10, <3>1 DEF Ready, With
  <2>2. \A j \in Ready(m, c) : j \in Ready(q, c)
    <3> SUFFICES ASSUME NEW j \in Ready(m, c) PROVE j \in Ready(q, c)
      OBVIOUS
    <3>1. j \in Open(m) /\ j \in Jobs /\ j \notin out
      BY <1>2 DEF Ready, With, Open
    <3>2. j \in Open(q)
      BY <1>3, <3>1 DEF Open
    <3> QED BY <1>3, <1>10, <3>1, <3>2 DEF Ready, With
  <2> QED BY <1>1, <2>1, <2>2
<1> QED BY <1>3, <1>5, <1>7, <1>8, <1>9, <1>11, <1>12 DEF Tidied

(* #settle: the job is over, and the others stay as they are.              *)
LEMMA SettleFacts ==
  ASSUME NEW p, PoolOK(p), NEW j \in Open(p), NEW st \in Ended, NEW q, q = Settle(p, j, st)
  PROVE  /\ PoolOK(q)
         /\ \A k \in Jobs : q.status[k] = "running" <=> k # j /\ p.status[k] = "running"
         /\ \A k \in Open(q) : k \in Open(p) /\ q.run[k] = p.run[k] /\ q.deps[k] = p.deps[k]
         /\ \A k \in Jobs : q.deps[k] \subseteq p.deps[k]
         /\ Ample => \A k \in Present(p) : k \in Present(q) /\ q.run[k] = p.run[k]
         /\ DepsOK(p) => DepsOK(q)
         /\ st # "completed" => \A c : Ready(q, c) \subseteq Ready(p, c)
<1> DEFINE m == [p EXCEPT !.status[j] = st]
<1>1. p \in Pools /\ j \in Jobs /\ st \in Statuses
  BY DEF PoolOK, Open, Statuses
<1>2. /\ m \in Pools /\ m.order = p.order /\ m.run = p.run /\ m.deps = p.deps /\ m.prio = p.prio
      /\ m.status = [p.status EXCEPT ![j] = st]
  <2> DEFINE sts == [p.status EXCEPT ![j] = st]
  <2>1. sts \in [Jobs -> Statuses \cup {"new", "gone"}]
    BY <1>1 DEF Pools
  <2> HIDE DEF sts
  <2>2. m = [p EXCEPT !.status = sts]
    BY <1>1 DEF sts, Pools
  <2> HIDE DEF m
  <2>3. /\ m \in Pools /\ m.order = p.order /\ m.run = p.run /\ m.deps = p.deps /\ m.prio = p.prio
        /\ m.status = sts
    BY <1>1, <2>1, <2>2 DEF Pools
  <2> QED BY <2>3 DEF sts
<1>3. q = Prune(RefreshBlocked(m))
  BY DEF Settle
<1> HIDE DEF m
<1>4. m.status[j] = st /\ \A k \in Jobs \ {j} : m.status[k] = p.status[k]
  BY <1>1, <1>2 DEF Pools
<1>5. Present(m) = Present(p)
  BY <1>1, <1>4 DEF Present, Open, Statuses
<1>6. ArrayOK(m)
  BY <1>2, <1>5 DEF PoolOK, ArrayOK
<1>7. RunsOK(m)
  BY <1>2, <1>4 DEF PoolOK, RunsOK, Ended
<1>8. Tidied(m, q)
  BY <1>2, <1>3, <1>6, <1>7, Tidy DEF PoolOK
<1>9. st \notin {"queued", "running"}
  BY DEF Ended
<1>10. ASSUME DepsOK(p) PROVE DepsOK(m)
  <2> SUFFICES ASSUME NEW k \in Open(m), NEW d \in m.deps[k]
               PROVE  d \in Present(m) /\ (m.status[k] = "running" => m.status[d] = "completed")
    BY DEF DepsOK, Open, With
  <2>1. k \in Jobs /\ k # j /\ k \in Open(p) /\ m.status[k] = p.status[k] /\ d \in p.deps[k]
    BY <1>2, <1>4, <1>9 DEF Open
  <2>2. d \in Present(p) /\ (p.status[k] = "running" => p.status[d] = "completed")
    BY <1>10, <2>1 DEF DepsOK, Open, With
  <2>3. d = j => p.status[k] # "running"
    BY <2>2 DEF Open
  <2>4. d \in Jobs
    BY <2>2 DEF Present
  <2> QED BY <1>4, <1>5, <2>1, <2>2, <2>3, <2>4
<1>11. ASSUME st # "completed", NEW c PROVE Ready(m, c) \subseteq Ready(p, c)
  <2>1. \A k \in Jobs : p.deps[k] \in SUBSET Jobs
    BY <1>1 DEF Pools
  <2> QED BY <1>2, <1>4, <1>9, <1>11, <2>1 DEF Ready, With
<1>12. \A k \in Jobs : m.status[k] = "running" <=> k # j /\ p.status[k] = "running"
  BY <1>4, <1>9
<1>13. \A k \in Open(m) : k \in Open(p)
  BY <1>4, <1>9 DEF Open
<1> QED BY <1>2, <1>5, <1>8, <1>10, <1>11, <1>12, <1>13 DEF Tidied, Open

(* The head of #ready: the drain's next job is one that is ready.          *)
LEMMA NextReadyFacts ==
  ASSUME NEW p, PoolOK(p), NEW c
  PROVE  IF Ready(p, c) = {} THEN NextReady(p, c) = NoJob ELSE NextReady(p, c) \in Ready(p, c)
<1> DEFINE R == Ready(p, c)
           N == Len(p.order)
           o == p.order
           Best(n, b) == /\ b \in 1 .. n /\ o[b] \in R
                         /\ \A m \in 1 .. n : o[m] \in R /\ m # b =>
                              \/ p.prio[o[b]] > p.prio[o[m]]
                              \/ p.prio[o[b]] = p.prio[o[m]] /\ b < m
           T == {n \in 0 .. N : (\E m \in 1 .. n : o[m] \in R) => \E b \in 1 .. n : Best(n, b)}
<1>1. CASE R = {}
  BY <1>1 DEF NextReady
<1>2. CASE R # {}
  <2>1. N \in Nat /\ DOMAIN o = 1 .. N
    BY LenProperties DEF PoolOK, Pools
  <2>2. R \subseteq Jobs /\ \A j \in R : j \in Present(p) /\ p.prio[j] \in Nat
    BY DEF Ready, With, Present, Statuses, PoolOK, Pools
  <2>3. \A j \in R : \E x \in 1 .. N : o[x] = j
    BY <2>2 DEF PoolOK, ArrayOK
  <2> HIDE DEF R, N, o
  <2>4. 0 \in T
    BY <2>1
  <2>5. ASSUME NEW n \in 1 .. N, n - 1 \in T PROVE n \in T
    <3>1. n \in 0 .. N /\ n - 1 \in 0 .. N
      BY <2>1
    <3> SUFFICES ASSUME NEW m \in 1 .. n, o[m] \in R PROVE \E b \in 1 .. n : Best(n, b)
      BY <3>1
    <3>2. CASE \E k \in 1 .. n - 1 : o[k] \in R
      <4>1. PICK b \in 1 .. n - 1 : Best(n - 1, b)
        BY <2>5, <3>2
      <4>2. b \in 1 .. n /\ \A k \in 1 .. n : k # n => k \in 1 .. n - 1
        BY <3>1, <4>1
      <4>3. CASE o[n] \in R /\ p.prio[o[n]] > p.prio[o[b]]
        <5>1. \A k \in 1 .. n : o[k] \in R /\ k # n => p.prio[o[n]] > p.prio[o[k]]
          <6> SUFFICES ASSUME NEW k \in 1 .. n, o[k] \in R, k # n PROVE p.prio[o[n]] > p.prio[o[k]]
            OBVIOUS
          <6>1. p.prio[o[n]] \in Nat /\ p.prio[o[b]] \in Nat /\ p.prio[o[k]] \in Nat
            BY <2>2, <4>1, <4>3
          <6>2. k = b \/ p.prio[o[b]] > p.prio[o[k]] \/ p.prio[o[b]] = p.prio[o[k]]
            BY <4>1, <4>2
          <6> QED BY <4>3, <6>1, <6>2
        <5>2. Best(n, n)
          BY <4>3, <5>1
        <5> QED BY <5>2
      <4>4. CASE ~(o[n] \in R /\ p.prio[o[n]] > p.prio[o[b]])
        <5>1. o[n] \in R => p.prio[o[b]] > p.prio[o[n]] \/ p.prio[o[b]] = p.prio[o[n]]
          BY <2>2, <4>1, <4>4
        <5>2. b < n
          BY <3>1, <4>1
        <5>3. Best(n, b)
          BY <4>1, <4>2, <5>1, <5>2
        <5> QED BY <4>2, <5>3
      <4> QED BY <4>3, <4>4
    <3>3. CASE ~ \E k \in 1 .. n - 1 : o[k] \in R
      <4>1. \A k \in 1 .. n : k # n => k \in 1 .. n - 1
        BY <3>1
      <4>2. m = n
        BY <3>3, <4>1
      <4>3. Best(n, n)
        BY <3>3, <4>1, <4>2
      <4> QED BY <4>3
    <3> QED BY <3>2, <3>3
  <2>6. N \in T
    <3> HIDE DEF T
    <3>1. \A n \in 0 .. N : n \in T
      BY <2>1, <2>4, <2>5, UpTo
    <3> QED BY <2>1, <3>1
  <2>7. PICK b \in 1 .. N : Best(N, b)
    BY <1>2, <2>3, <2>6
  <2>8. \A k \in R \ {o[b]} :
          p.prio[o[b]] > p.prio[k] \/ (p.prio[o[b]] = p.prio[k] /\ Before(p, o[b], k))
    <3> SUFFICES ASSUME NEW k \in R \ {o[b]}
                 PROVE p.prio[o[b]] > p.prio[k] \/ (p.prio[o[b]] = p.prio[k] /\ Before(p, o[b], k))
      OBVIOUS
    <3>1. PICK x \in 1 .. N : o[x] = k
      BY <2>3
    <3> QED BY <2>1, <2>7, <3>1 DEF Before, o
  <2>9. o[b] \in R
    BY <2>7
  <2> HIDE DEF Best, T
  <2> QED BY <1>2, <2>8, <2>9 DEF NextReady, R
<1> QED BY <1>1, <1>2

(* forRun finds a job with the run whenever there is one.                  *)
LEMMA ForRunFacts ==
  ASSUME NEW p, PoolOK(p), NEW r
  PROVE  IF \E j \in Present(p) : p.run[j] = r
         THEN ForRun(p, r) \in Present(p) /\ p.run[ForRun(p, r)] = r
         ELSE ForRun(p, r) = NoJob
<1> DEFINE mine == {j \in Present(p) : p.run[j] = r}
           N == Len(p.order)
           P == {x \in 1 .. N : p.order[x] \in mine}
<1>1. N \in Nat /\ DOMAIN p.order = 1 .. N
  BY LenProperties DEF PoolOK, Pools
<1>2. CASE mine = {}
  BY <1>2 DEF ForRun
<1>3. CASE mine # {}
  <2>1. \A j \in mine : \E x \in P : p.order[x] = j
    BY DEF PoolOK, ArrayOK
  <2>2. P \in SUBSET Nat /\ P # {}
    BY <1>1, <1>3, <2>1
  <2>3. PICK m \in P : \A u \in P : m <= u
    BY <2>2, LeastNumber
  <2>4. \A k \in mine \ {p.order[m]} : Before(p, p.order[m], k)
    <3> SUFFICES ASSUME NEW k \in mine, k # p.order[m] PROVE Before(p, p.order[m], k)
      OBVIOUS
    <3>1. PICK y \in P : p.order[y] = k
      BY <2>1
    <3>2. m <= y /\ m # y /\ m \in 1 .. N /\ y \in 1 .. N
      BY <2>3, <3>1
    <3>3. m < y
      BY <1>1, <3>2
    <3> QED BY <1>1, <3>1, <3>2, <3>3 DEF Before
  <2>5. p.order[m] \in mine
    BY <2>3
  <2> DEFINE j == ForRun(p, r)
  <2>6. j = CHOOSE i \in mine : \A k \in mine \ {i} : Before(p, i, k)
    BY <1>3 DEF ForRun
  <2> HIDE DEF mine, j
  <2>7. j \in mine
    BY <2>4, <2>5, <2>6
  <2> QED BY <2>7 DEF mine, j
<1> QED BY <1>2, <1>3

(* The jobs in out stop running; nothing else happens to runs under way,   *)
(* to what running jobs waited for, or to what there is in an ample        *)
(* history.                                                                *)
Calm(p, q, out) ==
  /\ PoolOK(q)
  /\ \A k \in Jobs : q.status[k] = "running" <=> k \notin out /\ p.status[k] = "running"
  /\ \A k \in Jobs : q.status[k] = "running" => q.run[k] = p.run[k]
  /\ \A k \in Present(p) : q.deps[k] \subseteq p.deps[k]
  /\ Ample => \A k \in Present(p) : k \in Present(q) /\ q.run[k] = p.run[k]
  /\ DepsOK(p) => DepsOK(q)

(* A refresh on its own.                                                   *)
LEMMA RefreshCalm ==
  ASSUME NEW p, PoolOK(p), NEW q, q = RefreshBlocked(p)
  PROVE  Calm(p, q, {})
<1>1. /\ PoolOK(q)
      /\ q.order = p.order /\ q.run = p.run /\ q.deps = p.deps /\ q.prio = p.prio
      /\ \A j \in Jobs : \/ q.status[j] = p.status[j]
                         \/ p.status[j] = "queued" /\ q.status[j] = "blocked"
  BY RefreshFacts
<1>2. Present(q) = Present(p)
  BY <1>1 DEF Present, Statuses
<1>3. ASSUME DepsOK(p) PROVE DepsOK(q)
  <2> SUFFICES ASSUME NEW k \in Open(q), NEW d \in q.deps[k]
               PROVE  d \in Present(q) /\ (q.status[k] = "running" => q.status[d] = "completed")
    BY DEF DepsOK, Open, With
  <2>1. k \in Open(p) /\ k \in Jobs /\ d \in p.deps[k]
    BY <1>1 DEF Open
  <2>2. d \in Present(p) /\ (p.status[k] = "running" => p.status[d] = "completed")
    BY <1>3, <2>1 DEF DepsOK, Open, With
  <2>3. d \in Jobs
    BY <2>2 DEF Present
  <2> QED BY <1>1, <1>2, <2>1, <2>2, <2>3
<1> QED BY <1>1, <1>2, <1>3 DEF Calm

(* #settle as a change of the pool.                                        *)
LEMMA SettleCalm ==
  ASSUME NEW p, PoolOK(p), NEW j \in Open(p), NEW st \in Ended, NEW q, q = Settle(p, j, st)
  PROVE  Calm(p, q, {j})
<1>1. \A k \in Present(p) : k \in Jobs
  BY DEF Present
<1>2. \A k \in Jobs : q.status[k] = "running" => k \in Open(q)
  BY DEF Open
<1> QED BY <1>1, <1>2, SettleFacts DEF Calm

(* enqueue: one more job waits.                                            *)
LEMMA PushFacts ==
  ASSUME NEW p, PoolOK(p), NEW j \in Jobs, p.status[j] = "new",
         NEW ds \in SUBSET Jobs, ds \subseteq Present(p), NEW pr \in Nat, NEW q, q = Push(p, j, ds, pr)
  PROVE  /\ Calm(p, q, {})
         /\ \A c \in Chats : c # ChatOf[j] => Ready(q, c) = Ready(p, c)
<1>1. p \in Pools /\ p.order \in Seq(Jobs) /\ p.deps \in [Jobs -> SUBSET Jobs]
  BY DEF PoolOK, Pools
<1>2. /\ q.order = Append(p.order, j) /\ q.status = [p.status EXCEPT ![j] = "queued"]
      /\ q.run = p.run /\ q.deps = [p.deps EXCEPT ![j] = ds] /\ q.prio = [p.prio EXCEPT ![j] = pr]
      /\ q = [order |-> q.order, status |-> q.status, run |-> q.run, deps |-> q.deps,
              prio |-> q.prio]
  BY DEF Push
<1>3. q \in Pools
  <2>1. q.order \in Seq(Jobs)
    BY <1>1, <1>2, AppendProperties
  <2>2. q.status \in [Jobs -> Statuses \cup {"new", "gone"}]
    BY <1>1, <1>2 DEF Pools, Statuses
  <2>3. q.run \in [Jobs -> Runs \cup {NoRun, UserRun}]
    BY <1>1, <1>2 DEF Pools
  <2>4. q.deps \in [Jobs -> SUBSET Jobs] /\ q.prio \in [Jobs -> Nat]
    BY <1>1, <1>2 DEF Pools
  <2> QED BY <1>2, <2>1, <2>2, <2>3, <2>4 DEF Pools
<1>4. /\ q.status[j] = "queued" /\ q.deps[j] = ds
      /\ \A k \in Jobs \ {j} : q.status[k] = p.status[k] /\ q.deps[k] = p.deps[k]
  BY <1>1, <1>2 DEF Pools
<1>5. j \notin Present(p) /\ Present(q) = Present(p) \cup {j}
  BY <1>4 DEF Present, Statuses, Ended
<1>6. ArrayOK(q)
  <2> DEFINE n == Len(p.order)
             o == q.order
  <2>1. /\ n \in Nat /\ Len(o) = n + 1 /\ o[n + 1] = j
        /\ \A x \in 1 .. n : o[x] = p.order[x] /\ o[x] \in Present(p) /\ o[x] # j
    BY <1>1, <1>2, <1>5, AppendProperties, LenProperties DEF PoolOK, ArrayOK
  <2>2. \A x, y \in 1 .. n : o[x] = o[y] => x = y
    BY <2>1 DEF PoolOK, ArrayOK
  <2>3. \A k \in Present(p) : \E x \in 1 .. n : o[x] = k
    BY <2>1 DEF PoolOK, ArrayOK
  <2> HIDE DEF n, o
  <2>4. \A x \in 1 .. n + 1 : x \in 1 .. n \/ x = n + 1
    BY <2>1
  <2>5. \A x \in 1 .. n : x \in 1 .. n + 1
    BY <2>1
  <2>6. n + 1 \in 1 .. n + 1
    BY <2>1
  <2>7. \A x \in 1 .. n + 1 : o[x] \in Present(q)
    BY <1>5, <2>1, <2>4
  <2>8. \A k \in Present(q) : \E x \in 1 .. n + 1 : o[x] = k
    BY <1>5, <2>1, <2>3, <2>5, <2>6
  <2>9. \A x, y \in 1 .. n + 1 : o[x] = o[y] => x = y
    BY <2>1, <2>2, <2>4
  <2> QED BY <2>1, <2>7, <2>8, <2>9 DEF ArrayOK, o
<1>7. RunsOK(q)
  BY <1>2, <1>4 DEF PoolOK, RunsOK
<1>8. ASSUME DepsOK(p) PROVE DepsOK(q)
  <2> SUFFICES ASSUME NEW k \in Open(q), NEW d \in q.deps[k]
               PROVE  d \in Present(q) /\ (q.status[k] = "running" => q.status[d] = "completed")
    BY DEF DepsOK, Open, With
  <2>1. CASE k = j
    BY <1>4, <1>5, <2>1
  <2>2. CASE k # j
    <3>1. k \in Open(p) /\ k \in Jobs /\ d \in p.deps[k] /\ q.status[k] = p.status[k]
      BY <1>4, <2>2 DEF Open
    <3>2. d \in Present(p) /\ (p.status[k] = "running" => p.status[d] = "completed")
      BY <1>8, <3>1 DEF DepsOK, Open, With
    <3>3. d \in Jobs /\ d # j
      BY <1>5, <3>2 DEF Present
    <3> QED BY <1>4, <1>5, <3>1, <3>2, <3>3
  <2> QED BY <2>1, <2>2
<1>9. Calm(p, q, {})
  <2>1. \A k \in Present(p) : k \in Jobs /\ k # j
    BY <1>5 DEF Present
  <2> QED BY <1>2, <1>3, <1>4, <1>5, <1>6, <1>7, <1>8, <2>1 DEF Calm, PoolOK
<1>10. ASSUME NEW c \in Chats, c # ChatOf[j] PROVE Ready(q, c) = Ready(p, c)
  <2>1. \A k \in Jobs : q.status[k] = "completed" <=> p.status[k] = "completed"
    BY <1>4
  <2>2. \A k \in Jobs : p.deps[k] \in SUBSET Jobs
    BY <1>1
  <2>3. \A k \in Jobs : k \in Ready(q, c) <=> k \in Ready(p, c)
    BY <1>4, <1>10, <2>1, <2>2 DEF Ready, With
  <2>4. Ready(q, c) \subseteq Jobs /\ Ready(p, c) \subseteq Jobs
    BY DEF Ready, With
  <2> QED BY <2>3, <2>4
<1> QED BY <1>9, <1>10

(* Jobs keep everything but their priorities or their order.               *)
LEMMA RearrangedCalm ==
  ASSUME NEW p, PoolOK(p), NEW q \in Pools, ArrayOK(q),
         q.status = p.status, q.run = p.run, q.deps = p.deps
  PROVE  Calm(p, q, {}) /\ \A c : Ready(q, c) = Ready(p, c)
<1>1. Present(q) = Present(p)
  BY DEF Present
<1>2. PoolOK(q)
  BY DEF PoolOK, RunsOK
<1>3. DepsOK(p) => DepsOK(q)
  BY <1>1 DEF DepsOK, With
<1>4. \A c : Ready(q, c) = Ready(p, c)
  BY DEF Ready, With
<1> QED BY <1>1, <1>2, <1>3, <1>4 DEF Calm

(* managerReprioritize                                                     *)
LEMMA PriorityFacts ==
  ASSUME NEW p, PoolOK(p), NEW j \in Jobs, NEW pr \in Nat, NEW q, q = [p EXCEPT !.prio[j] = pr]
  PROVE  Calm(p, q, {}) /\ \A c : Ready(q, c) = Ready(p, c)
<1>1. p \in Pools
  BY DEF PoolOK
<1> DEFINE f == [p.prio EXCEPT ![j] = pr]
<1>2. f \in [Jobs -> Nat] /\ q = [p EXCEPT !.prio = f]
  BY <1>1 DEF Pools
<1> HIDE DEF f
<1>3. q \in Pools /\ q.order = p.order /\ q.status = p.status /\ q.run = p.run /\ q.deps = p.deps
  BY <1>1, <1>2 DEF Pools
<1>4. ArrayOK(q)
  BY <1>3 DEF PoolOK, ArrayOK, Present
<1> QED BY <1>3, <1>4, RearrangedCalm

(* o is u with j at the position to, and what was there moved by one.      *)
IsInserted(o, u, to, j) ==
  /\ o \in Seq(Jobs) /\ Len(o) = Len(u) + 1
  /\ \A x \in 1 .. to - 1 : o[x] = u[x]
  /\ o[to] = j
  /\ \A x \in to .. Len(u) : o[x + 1] = u[x]
Places(u) == 1 .. Len(u) + 1

(* InsertAt moves the elements from a position on by one.                  *)
LEMMA InsertFacts ==
  ASSUME NEW u \in Seq(Jobs), NEW to \in Places(u), NEW j \in Jobs
  PROVE  IsInserted(InsertAt(u, to, j), u, to, j)
<1> USE DEF Places
<1> DEFINE o == InsertAt(u, to, j)
<1> DEFINE n == Len(u)
           h == SubSeq(u, 1, to - 1)
           w == SubSeq(u, to, n)
           e == <<j>>
<1>1. n \in Nat /\ to \in Int /\ to - 1 \in Int /\ n \in Int /\ to >= 1 /\ to <= n + 1
  BY LenProperties
<1>2. \A x \in 1 .. n : u[x] \in Jobs
  BY ElementOfSeq
<1>3. /\ h \in Seq(Jobs) /\ Len(h) = to - 1
      /\ \A x \in 1 .. to - 1 : h[x] = u[x]
  <2> HIDE DEF n
  <2>1. \A x \in 1 .. to - 1 : u[x] \in Jobs
    BY <1>1, <1>2
  <2>2. /\ h \in Seq(Jobs) /\ Len(h) = (IF 1 <= to - 1 THEN to - 1 - 1 + 1 ELSE 0)
        /\ \A x \in 1 .. to - 1 - 1 + 1 : h[x] = u[1 + x - 1]
    BY <1>1, <2>1, SubSeqProperties
  <2> HIDE DEF h
  <2> QED BY <1>1, <2>2
<1>4. /\ w \in Seq(Jobs) /\ Len(w) = n - to + 1
      /\ \A x \in 1 .. n - to + 1 : w[x] = u[to + x - 1]
  <2> HIDE DEF n
  <2>1. \A x \in to .. n : u[x] \in Jobs
    BY <1>1, <1>2
  <2>2. /\ w \in Seq(Jobs) /\ Len(w) = (IF to <= n THEN n - to + 1 ELSE 0)
        /\ \A x \in 1 .. n - to + 1 : w[x] = u[to + x - 1]
    BY <1>1, <2>1, SubSeqProperties
  <2> HIDE DEF w
  <2> QED BY <1>1, <2>2
<1>5. e \in Seq(Jobs) /\ Len(e) = 1 /\ e[1] = j
  OBVIOUS
<1>6. o = (h \o e) \o w
  BY DEF InsertAt
<1> HIDE DEF n, h, w, e, o
<1>7. /\ h \o e \in Seq(Jobs) /\ Len(h \o e) = to
      /\ \A x \in 1 .. to : (h \o e)[x] = IF x <= to - 1 THEN h[x] ELSE e[x - (to - 1)]
  <2>1. /\ h \o e \in Seq(Jobs) /\ Len(h \o e) = Len(h) + Len(e)
        /\ \A x \in 1 .. Len(h) + Len(e) : (h \o e)[x] = IF x <= Len(h) THEN h[x] ELSE e[x - Len(h)]
    BY <1>3, <1>5, ConcatProperties
  <2>2. Len(h) + Len(e) = to
    BY <1>1, <1>3, <1>5
  <2> QED BY <1>3, <2>1, <2>2
<1> DEFINE g == h \o e
<1>8. /\ o \in Seq(Jobs) /\ Len(o) = to + (n - to + 1)
      /\ \A x \in 1 .. to + (n - to + 1) : o[x] = IF x <= to THEN g[x] ELSE w[x - to]
  <2>1. g \in Seq(Jobs) /\ Len(g) = to /\ o = g \o w
    BY <1>6, <1>7
  <2> HIDE DEF g
  <2>2. /\ g \o w \in Seq(Jobs) /\ Len(g \o w) = Len(g) + Len(w)
        /\ \A x \in 1 .. Len(g) + Len(w) : (g \o w)[x] = IF x <= Len(g) THEN g[x] ELSE w[x - Len(g)]
    BY <1>4, <2>1, ConcatProperties
  <2> QED BY <1>4, <2>1, <2>2
<1>9. \A x \in 1 .. to : o[x] = g[x]
  <2> HIDE DEF g
  <2>1. \A x \in 1 .. to : x \in 1 .. to + (n - to + 1) /\ x <= to
    BY <1>1
  <2> QED BY <1>8, <2>1
<1>10. g[to] = j
  <2>1. to \in 1 .. to /\ ~(to <= to - 1) /\ to - (to - 1) = 1
    BY <1>1
  <2> QED BY <1>5, <1>7, <2>1
<1>11. \A x \in 1 .. to - 1 : g[x] = u[x]
  BY <1>1, <1>3, <1>7
<1>12. \A x \in to .. n : o[x + 1] = u[x]
  <2> SUFFICES ASSUME NEW x \in to .. n PROVE o[x + 1] = u[x]
    OBVIOUS
  <2>1. /\ x + 1 \in 1 .. to + (n - to + 1) /\ ~(x + 1 <= to) /\ x + 1 - to \in 1 .. n - to + 1
        /\ to + (x + 1 - to) - 1 = x
    BY <1>1
  <2> QED BY <1>4, <1>8, <2>1
<1>13. to + (n - to + 1) = n + 1 /\ to \in 1 .. to /\ \A x \in 1 .. to - 1 : x \in 1 .. to
  BY <1>1
<1> HIDE DEF g
<1>14. /\ o \in Seq(Jobs) /\ Len(o) = Len(u) + 1
       /\ \A x \in 1 .. to - 1 : o[x] = u[x]
       /\ o[to] = j
       /\ \A x \in to .. Len(u) : o[x + 1] = u[x]
  BY <1>8, <1>9, <1>10, <1>11, <1>12, <1>13 DEF n
<1>15. IsInserted(o, u, to, j)
  BY <1>14 DEF IsInserted
<1> QED BY <1>15 DEF o

(* The pool with j taken out of the array and put back at an index.        *)
PutAt(p, j, to) == [p EXCEPT !.order = InsertAt(Keep(p.order, {j}), to, j)]

(* managerReorder: the array still lists every job, once.                  *)
LEMMA ReorderFacts ==
  ASSUME NEW p, PoolOK(p), NEW j \in Present(p),
         NEW to \in 1 .. Len(p.order), NEW q, q = PutAt(p, j, to)
  PROVE  Calm(p, q, {}) /\ \A c : Ready(q, c) = Ready(p, c)
<1> DEFINE m == Without(p, {j})
           u == Keep(p.order, {j})
           o == InsertAt(u, to, j)
           P == Present(p)
           R == Present(m)
<1>1. p \in Pools /\ p.order \in Seq(Jobs) /\ j \in Jobs
  BY DEF PoolOK, Pools, Present
<1>2. /\ PoolOK(m)
      /\ \A i \in Jobs \ {j} : m.status[i] = p.status[i]
      /\ m.status[j] = "gone"
  BY <1>1, WithoutFacts
<1>3. m.order = u /\ o = InsertAt(u, to, j) /\ q = [p EXCEPT !.order = o]
  BY DEF Without, PutAt
<1> HIDE DEF u, m, o
<1>4. R = P \ {j}
  BY <1>2 DEF Present, Statuses, Ended
<1>5. IsFiniteSet(P) /\ Len(p.order) = Cardinality(P) /\ Len(u) = Cardinality(R)
  BY <1>2, <1>3, ArrayCounts
<1>6. Len(u) + 1 = Len(p.order)
  <2>0. j \in P
    OBVIOUS
  <2> HIDE DEF P, R
  <2>1. Cardinality(R) = Cardinality(P) - 1 /\ Cardinality(P) \in Nat
    BY <1>4, <1>5, <2>0, FS_RemoveElement, FS_CardinalityType
  <2> QED BY <1>5, <2>1
<1>7. to \in 1 .. Len(u) + 1
  BY <1>6
<1>8. u \in Seq(Jobs)
  BY <1>2, <1>3 DEF PoolOK, Pools
<1>9. /\ \A x \in 1 .. Len(u) : u[x] \in Present(p) /\ u[x] # j
      /\ \A i \in Present(p) : i # j => \E x \in 1 .. Len(u) : u[x] = i
      /\ \A x, y \in 1 .. Len(u) : u[x] = u[y] => x = y
  <2>1. ArrayOK(m)
    BY <1>2 DEF PoolOK
  <2>2. /\ \A x \in 1 .. Len(u) : u[x] \in R
        /\ \A i \in R : \E x \in 1 .. Len(u) : u[x] = i
        /\ \A x, y \in 1 .. Len(u) : u[x] = u[y] => x = y
    BY <1>3, <2>1 DEF ArrayOK
  <2> QED BY <1>4, <2>2
<1>10. /\ o \in Seq(Jobs) /\ Len(o) = Len(u) + 1
       /\ \A x \in 1 .. to - 1 : o[x] = u[x]
       /\ o[to] = j
       /\ \A x \in to .. Len(u) : o[x + 1] = u[x]
  <2>1. to \in Places(u)
    BY <1>7 DEF Places
  <2>2. IsInserted(o, u, to, j)
    BY <1>1, <1>3, <1>8, <2>1, InsertFacts
  <2> QED BY <2>2 DEF IsInserted
<1>12. /\ q \in Pools /\ q.order = o /\ q.status = p.status /\ q.run = p.run /\ q.deps = p.deps
  BY <1>1, <1>3, <1>10 DEF Pools
<1> DEFINE n == Len(u)
<1>13. n \in Nat /\ to \in 1 .. n + 1
  BY <1>7, <1>8, LenProperties
<1> HIDE DEF n
<1> DEFINE at(x) == IF x < to THEN x ELSE x - 1
<1> HIDE DEF P, R
<1>14. \A x \in 1 .. n + 1 : x # to => at(x) \in 1 .. n /\ o[x] = u[at(x)]
  <2> SUFFICES ASSUME NEW x \in 1 .. n + 1, x # to PROVE at(x) \in 1 .. n /\ o[x] = u[at(x)]
    OBVIOUS
  <2>1. CASE x < to
    <3>1. x \in 1 .. to - 1 /\ x \in 1 .. n
      BY <1>13, <2>1
    <3> QED BY <1>10, <2>1, <3>1
  <2>2. CASE ~(x < to)
    <3>1. x - 1 \in to .. n /\ x - 1 \in 1 .. n /\ (x - 1) + 1 = x
      BY <1>13, <2>2
    <3> QED BY <1>10, <2>2, <3>1 DEF n
  <2> QED BY <2>1, <2>2
<1>15. \A x, y \in 1 .. n + 1 : x # to /\ y # to /\ at(x) = at(y) => x = y
  BY <1>13
<1>16. \A y \in 1 .. n : \E x \in 1 .. n + 1 : x # to /\ o[x] = u[y]
  <2> SUFFICES ASSUME NEW y \in 1 .. n PROVE \E x \in 1 .. n + 1 : x # to /\ o[x] = u[y]
    OBVIOUS
  <2>1. CASE y < to
    <3>1. y \in 1 .. to - 1 /\ y \in 1 .. n + 1 /\ y # to
      BY <1>13, <2>1
    <3> QED BY <1>10, <3>1
  <2>2. CASE ~(y < to)
    <3>1. y \in to .. n /\ y + 1 \in 1 .. n + 1 /\ y + 1 # to
      BY <1>13, <2>2
    <3> QED BY <1>10, <3>1 DEF n
  <2> QED BY <2>1, <2>2
<1> HIDE DEF at
<1>17. \A x \in 1 .. n + 1 : o[x] \in Present(p)
  BY <1>9, <1>10, <1>14 DEF n
<1>18. \A i \in Present(p) : \E x \in 1 .. n + 1 : o[x] = i
  <2> SUFFICES ASSUME NEW i \in Present(p) PROVE \E x \in 1 .. n + 1 : o[x] = i
    OBVIOUS
  <2>1. CASE i = j
    BY <1>10, <1>13, <2>1
  <2>2. CASE i # j
    <3>1. PICK y \in 1 .. n : u[y] = i
      BY <1>9, <2>2 DEF n
    <3>2. PICK x \in 1 .. n + 1 : o[x] = u[y]
      BY <1>16
    <3> QED BY <3>1, <3>2
  <2> QED BY <2>1, <2>2
<1>19. \A x, y \in 1 .. n + 1 : o[x] = o[y] => x = y
  <2> SUFFICES ASSUME NEW x \in 1 .. n + 1, NEW y \in 1 .. n + 1, o[x] = o[y] PROVE x = y
    OBVIOUS
  <2>0. /\ \A z \in 1 .. n : u[z] # j
        /\ \A z, w \in 1 .. n : u[z] = u[w] => z = w
    BY <1>9 DEF n
  <2>1. \A z \in 1 .. n + 1 : z # to => o[z] # j
    BY <1>14, <2>0
  <2>2. x = to <=> y = to
    BY <1>10, <2>1
  <2>3. x # to /\ y # to => at(x) = at(y)
    BY <1>14, <2>0
  <2> QED BY <1>15, <2>2, <2>3
<1>20. Present(q) = Present(p)
  BY <1>12 DEF Present
<1>21. ArrayOK(q)
  <2>1. Len(q.order) = n + 1 /\ q.order = o
    BY <1>10, <1>12 DEF n
  <2>2. \A x \in 1 .. Len(q.order) : q.order[x] \in Present(q)
    BY <1>17, <1>20, <2>1
  <2>3. \A i \in Present(q) : \E x \in 1 .. Len(q.order) : q.order[x] = i
    BY <1>18, <1>20, <2>1
  <2>4. \A x, y \in 1 .. Len(q.order) : q.order[x] = q.order[y] => x = y
    <3> SUFFICES ASSUME NEW x \in 1 .. Len(q.order), NEW y \in 1 .. Len(q.order),
                        q.order[x] = q.order[y]
                 PROVE  x = y
      OBVIOUS
    <3>1. x \in 1 .. n + 1 /\ y \in 1 .. n + 1 /\ o[x] = o[y]
      BY <2>1
    <3> QED BY <1>19, <3>1
  <2> QED BY <2>2, <2>3, <2>4, Zenon DEF ArrayOK
<1> QED BY <1>12, <1>21, RearrangedCalm

(* What RunsOK asks of a job's status and run.                             *)
Fits(j, st, r) ==
  /\ st \in Statuses /\ r \in Runs \cup {NoRun, UserRun}
  /\ (st = "running" => r # NoRun) /\ (st = "queued" => r = NoRun)
  /\ r \in Runs => r.chat = ChatOf[j] /\ (Never("claim") => r.job = j)
  /\ Never("edit") => r # UserRun

(* A status and a run given to a job.                                      *)
Assigned(p, j, st, r) == [p EXCEPT !.status[j] = st, !.run[j] = r]

(* Assigned changes this and nothing else.                                 *)
LEMMA AssignFacts ==
  ASSUME NEW p, PoolOK(p), NEW j \in Present(p), NEW st, NEW r, Fits(j, st, r),
         NEW q, q = Assigned(p, j, st, r)
  PROVE  /\ PoolOK(q) /\ q.order = p.order /\ q.deps = p.deps /\ q.prio = p.prio
         /\ q.status[j] = st /\ q.run[j] = r
         /\ \A k \in Jobs \ {j} : q.status[k] = p.status[k] /\ q.run[k] = p.run[k]
         /\ Present(q) = Present(p)
<1>1. p \in Pools /\ j \in Jobs
  BY DEF PoolOK, Present
<1> USE DEF Fits
<1> DEFINE f == [p.status EXCEPT ![j] = st]
           g == [p.run EXCEPT ![j] = r]
<1>2. f \in [Jobs -> Statuses \cup {"new", "gone"}] /\ g \in [Jobs -> Runs \cup {NoRun, UserRun}]
  BY <1>1 DEF Pools
<1>3. q = [p EXCEPT !.status = f, !.run = g]
  BY <1>1 DEF Pools, Assigned
<1>4. /\ f[j] = st /\ g[j] = r
      /\ \A k \in Jobs \ {j} : f[k] = p.status[k] /\ g[k] = p.run[k]
  BY <1>1 DEF Pools
<1> HIDE DEF f, g
<1>5. q \in Pools /\ q.order = p.order /\ q.deps = p.deps /\ q.prio = p.prio /\ q.status = f /\ q.run = g
  BY <1>1, <1>2, <1>3 DEF Pools
<1>6. Present(q) = Present(p)
  BY <1>4, <1>5 DEF Present
<1>7. ArrayOK(q)
  BY <1>5, <1>6 DEF PoolOK, ArrayOK
<1>8. RunsOK(q)
  <2>1. st \notin {"new", "gone"}
    BY DEF Statuses, Ended
  <2> SUFFICES ASSUME NEW k \in Jobs
               PROVE  /\ q.status[k] = "running" => q.run[k] # NoRun
                      /\ q.status[k] \in {"new", "gone", "queued"} => q.run[k] = NoRun
                      /\ q.run[k] \in Runs => q.run[k].chat = ChatOf[k]
                      /\ Never("claim") /\ q.run[k] \in Runs => q.run[k].job = k
                      /\ Never("edit") => q.run[k] # UserRun
    BY DEF RunsOK
  <2>2. CASE k = j
    BY <1>4, <1>5, <2>1, <2>2
  <2>3. CASE k # j
    BY <1>4, <1>5, <2>3 DEF PoolOK, RunsOK
  <2> QED BY <2>2, <2>3
<1> QED BY <1>4, <1>5, <1>6, <1>7, <1>8 DEF PoolOK

(* #moveToCardStatus, by the user or by a run of the card's chat.          *)
LEMMA MovedFacts ==
  ASSUME NEW p, PoolOK(p), NEW j \in Present(p), NEW to \in {"todo", "in_progress", "done"},
         NEW owner \in Runs \cup {UserRun},
         owner = UserRun => ~Never("edit"),
         owner \in Runs => owner.chat = ChatOf[j] /\ (to = "in_progress" => ~Never("claim")),
         NEW q, q = Moved(p, j, to, owner)
  PROVE  /\ PoolOK(q)
         /\ q.status[j] = "running" => to = "in_progress" /\ q.run[j] = owner
         /\ \A k \in Jobs \ {j} : q.status[k] = p.status[k] /\ q.run[k] = p.run[k]
<1>1. NoRun \notin Runs /\ UserRun \notin Runs /\ NoRun # UserRun
  BY QueueAssumption
<1>2. CASE to = "todo"
  <2>1. q = Assigned(p, j, "queued", NoRun)
    BY <1>2 DEF Moved, Assigned
  <2>2. Fits(j, "queued", NoRun)
    BY <1>1 DEF Statuses, Fits
  <2>3. /\ PoolOK(q) /\ q.status[j] = "queued"
        /\ \A k \in Jobs \ {j} : q.status[k] = p.status[k] /\ q.run[k] = p.run[k]
    BY <2>1, <2>2, AssignFacts
  <2> QED BY <2>3
<1>3. CASE to = "in_progress"
  <2>1. q = Assigned(p, j, "running", owner)
    BY <1>3 DEF Moved, Assigned
  <2>2. Fits(j, "running", owner)
    BY <1>1, <1>3 DEF Statuses, Fits
  <2>3. /\ PoolOK(q) /\ q.run[j] = owner
        /\ \A k \in Jobs \ {j} : q.status[k] = p.status[k] /\ q.run[k] = p.run[k]
    BY <2>1, <2>2, AssignFacts
  <2> QED BY <1>3, <2>3
<1>4. CASE to = "done"
  <2>1. q = Assigned(p, j, "completed", NoRun)
    BY <1>4 DEF Moved, Assigned
  <2>2. Fits(j, "completed", NoRun)
    BY <1>1 DEF Statuses, Ended, Fits
  <2>3. /\ PoolOK(q) /\ q.status[j] = "completed"
        /\ \A k \in Jobs \ {j} : q.status[k] = p.status[k] /\ q.run[k] = p.run[k]
    BY <2>1, <2>2, AssignFacts
  <2> QED BY <2>3
<1> QED BY <1>2, <1>3, <1>4

(* The constructor: nothing runs, and open jobs keep what they wait for.   *)
LEMMA RecoverFacts ==
  ASSUME NEW p, PoolOK(p), NEW q, q = Recover(p)
  PROVE  /\ PoolOK(q) /\ With(q, "running") = {}
         /\ DepsOK(p) => DepsOK(q)
<1> DEFINE f == [j \in Jobs |-> IF p.status[j] = "running" THEN "queued" ELSE p.status[j]]
           g == [j \in Jobs |-> IF p.status[j] = "running" THEN NoRun ELSE p.run[j]]
           m == [p EXCEPT !.status = f, !.run = g]
<1>1. p \in Pools
  BY DEF PoolOK
<1>2. q = Prune(RefreshBlocked(m))
  BY DEF Recover
<1>3. f \in [Jobs -> Statuses \cup {"new", "gone"}] /\ g \in [Jobs -> Runs \cup {NoRun, UserRun}]
  BY <1>1 DEF Pools, Statuses
<1>4. \A j \in Jobs : /\ f[j] = IF p.status[j] = "running" THEN "queued" ELSE p.status[j]
                      /\ g[j] = IF p.status[j] = "running" THEN NoRun ELSE p.run[j]
  OBVIOUS
<1> HIDE DEF f, g
<1>5. m \in Pools /\ m.order = p.order /\ m.deps = p.deps /\ m.status = f /\ m.run = g
  BY <1>1, <1>3 DEF Pools
<1> HIDE DEF m
<1>6. Present(m) = Present(p)
  BY <1>4, <1>5 DEF Present, Statuses
<1>7. ArrayOK(m)
  BY <1>5, <1>6 DEF PoolOK, ArrayOK
<1>8. RunsOK(m)
  <2> SUFFICES ASSUME NEW k \in Jobs
               PROVE  /\ m.status[k] = "running" => m.run[k] # NoRun
                      /\ m.status[k] \in {"new", "gone", "queued"} => m.run[k] = NoRun
                      /\ m.run[k] \in Runs => m.run[k].chat = ChatOf[k]
                      /\ Never("claim") /\ m.run[k] \in Runs => m.run[k].job = k
                      /\ Never("edit") => m.run[k] # UserRun
    BY DEF RunsOK
  <2>1. CASE p.status[k] = "running"
    BY <1>4, <1>5, <2>1, QueueAssumption
  <2>2. CASE p.status[k] # "running"
    BY <1>4, <1>5, <2>2 DEF PoolOK, RunsOK
  <2> QED BY <2>1, <2>2
<1>9. Tidied(m, q)
  BY <1>2, <1>5, <1>7, <1>8, Tidy DEF PoolOK
<1>10. \A k \in Jobs : m.status[k] # "running"
  BY <1>4, <1>5
<1>11. ASSUME DepsOK(p) PROVE DepsOK(m)
  <2> SUFFICES ASSUME NEW k \in Open(m), NEW d \in m.deps[k]
               PROVE  d \in Present(m) /\ (m.status[k] = "running" => m.status[d] = "completed")
    BY DEF DepsOK, Open, With
  <2>1. k \in Open(p) /\ k \in Jobs /\ d \in p.deps[k]
    BY <1>4, <1>5 DEF Open
  <2>2. d \in Present(p)
    BY <1>11, <2>1 DEF DepsOK, Open, With
  <2> QED BY <1>6, <1>10, <2>1, <2>2
<1> QED BY <1>9, <1>10, <1>11 DEF Tidied, With

-----------------------------------------------------------------------------
(* Changes of the state.                                                   *)

(* Persist replaces the pool and its stored copy.                          *)
LEMMA PersistFacts ==
  ASSUME NEW s \in States, NEW q \in Pools, NEW t, t = Persist(s, q)
  PROVE  /\ t \in States /\ t.pool = q /\ t.saved = q
         /\ t.drain = s.drain /\ t.active = s.active /\ t.claims = s.claims
BY DEF Persist, States

(* A start under way and an active run are runs under way.                 *)
LEMMA LiveFacts ==
  ASSUME NEW s, Sound(s)
  PROVE  /\ \A r : r \in LiveIn(s) <=> \/ \E c \in Chats : s.drain[c] = r /\ r # NoRun
                                       \/ r \in s.active /\ r.job # NoJob
         /\ LiveIn(s) \subseteq Runs /\ NoRun \notin LiveIn(s)
         /\ \A r \in LiveIn(s) : r.job \in Jobs /\ r.chat \in Chats /\ r.n \in Nat
<1>1. s.drain \in [Chats -> Runs \cup {NoRun}] /\ s.active \subseteq Runs
  BY DEF Sound, States
<1>2. \A r : r \in LiveIn(s) <=> \/ \E c \in Chats : s.drain[c] = r /\ r # NoRun
                                 \/ r \in s.active /\ r.job # NoJob
  <2>1. NoRun \notin s.active
    BY <1>1, QueueAssumption
  <2> QED BY <2>1 DEF LiveIn
<1>3. LiveIn(s) \subseteq Runs /\ NoRun \notin LiveIn(s)
  BY <1>1, <1>2, QueueAssumption
<1>4. \A r \in LiveIn(s) : r.job # NoJob
  BY <1>2, QueueAssumption DEF Sound, StartsOK
<1> QED BY <1>2, <1>3, <1>4 DEF Runs

(* Another pool, the same runs.                                            *)
LEMMA SoundPool ==
  ASSUME NEW s, Sound(s), NEW t \in States, PoolOK(t.pool), PoolOK(t.saved),
         t.drain = s.drain, t.active = s.active, t.claims = s.claims
  PROVE  Sound(t) /\ LiveIn(t) = LiveIn(s)
<1>1. LiveIn(t) = LiveIn(s) /\ \A c : InChat(t, c) = InChat(s, c)
  BY DEF LiveIn, InChat
<1> QED BY <1>1 DEF Sound, StartsOK, FreshOK, ChatRoom

(* The same pool, fewer runs.                                              *)
LEMMA SoundFewer ==
  ASSUME NEW s, Sound(s), NEW t \in States, t.pool = s.pool, t.saved = s.saved, t.claims = s.claims,
         t.active \subseteq s.active, \A c \in Chats : t.drain[c] \in {s.drain[c], NoRun}
  PROVE  Sound(t) /\ LiveIn(t) \subseteq LiveIn(s)
<1>1. t.active \subseteq Runs /\ NoRun \notin s.active
  BY QueueAssumption DEF Sound, States
<1>2. LiveIn(t) \subseteq LiveIn(s)
  BY DEF LiveIn
<1>3. IsFiniteSet(s.active) /\ IsFiniteSet(t.active)
  BY FS_Subset DEF Sound
<1>4. StartsOK(t) /\ FreshOK(t)
  BY <1>1, <1>2 DEF Sound, StartsOK, FreshOK
<1>5. ChatRoom(t)
  <2> SUFFICES ASSUME NEW c \in Chats
               PROVE  Cardinality(InChat(t, c)) + (IF t.drain[c] = NoRun THEN 0 ELSE 1) <= ChatLimit
    BY DEF ChatRoom
  <2> DEFINE S == InChat(s, c)
             T == InChat(t, c)
  <2>1. T \in SUBSET S /\ S \in SUBSET s.active
    BY DEF InChat
  <2>2. Cardinality(S) + (IF s.drain[c] = NoRun THEN 0 ELSE 1) <= ChatLimit
    BY DEF Sound, ChatRoom
  <2> HIDE DEF S, T
  <2>3. IsFiniteSet(S)
    BY <1>3, <2>1, FS_Subset
  <2>4. /\ Cardinality(T) <= Cardinality(S) /\ Cardinality(S) \in Nat
        /\ Cardinality(T) \in Nat
    BY <2>1, <2>3, FS_Subset, FS_CardinalityType
  <2>5. ChatLimit \in Nat /\ (t.drain[c] # NoRun => s.drain[c] # NoRun)
    BY QueueAssumption
  <2>6. Cardinality(T) + (IF t.drain[c] = NoRun THEN 0 ELSE 1) <= ChatLimit
    BY <2>2, <2>4, <2>5
  <2> QED BY <2>6 DEF T
<1> QED BY <1>2, <1>3, <1>4, <1>5 DEF Sound

(* A calm change of the pool while runs under way end: a job keeps running *)
(* only with its run, and a run stays under way only with its job.         *)
CalmStep(s, t, out) ==
  /\ Calm(s.pool, t.pool, out)
  /\ t.saved = t.pool \/ t.saved = s.saved
  /\ LiveIn(t) \subseteq LiveIn(s)
  /\ Never("claim") =>
       \A k \in Jobs :
         k \notin out /\ s.pool.status[k] = "running" /\ s.pool.run[k] \in LiveIn(s)
           => s.pool.run[k] \in LiveIn(t)
  /\ Orderly => \A r \in LiveIn(t) : r.job \notin out

(* Such a change keeps the invariant.                                      *)
LEMMA GoodPool ==
  ASSUME NEW s, Good(s), NEW t, Sound(t), NEW out, CalmStep(s, t, out)
  PROVE  Good(t)
<1> USE DEF CalmStep
<1>1. \A r \in LiveIn(t) : r \in LiveIn(s) /\ r.job \in Jobs
  BY LiveFacts
<1>2. Gated(t)
  BY DEF Good, Gated, Calm
<1>3. Backed(t)
  <2> SUFFICES ASSUME Never("claim"), NEW j \in With(t.pool, "running")
               PROVE  t.pool.run[j] = UserRun \/ t.pool.run[j] \in LiveIn(t)
    BY DEF Backed
  <2>1. /\ j \in Jobs /\ j \notin out /\ s.pool.status[j] = "running"
        /\ t.pool.run[j] = s.pool.run[j]
    BY DEF With, Calm
  <2>2. s.pool.run[j] = UserRun \/ s.pool.run[j] \in LiveIn(s)
    BY <2>1 DEF Good, Backed, With
  <2> QED BY <2>1, <2>2
<1>4. Counted(t)
  <2> SUFFICES ASSUME Orderly, NEW r \in LiveIn(t)
               PROVE  t.pool.status[r.job] = "running" /\ t.pool.run[r.job] = r
    BY DEF Counted
  <2>1. /\ r.job \in Jobs /\ r.job \notin out
        /\ s.pool.status[r.job] = "running" /\ s.pool.run[r.job] = r
    BY <1>1 DEF Good, Counted
  <2> QED BY <2>1 DEF Calm
<1>5. Known(t)
  <2> SUFFICES ASSUME Untouched, Ample, NEW r \in LiveIn(t)
               PROVE  r.job \in Present(t.pool) /\ t.pool.run[r.job] = r
    BY DEF Known
  <2>1. r.job \in Present(s.pool) /\ s.pool.run[r.job] = r
    BY <1>1 DEF Good, Known
  <2> QED BY <2>1 DEF Calm
<1>6. WorldRoom(t)
  <2> SUFFICES ASSUME Orderly
               PROVE  IsFiniteSet(LiveIn(t)) /\ Cardinality(LiveIn(t)) <= GlobalLimit
    BY DEF WorldRoom
  <2> DEFINE S == LiveIn(s)
             T == LiveIn(t)
  <2>1. IsFiniteSet(S) /\ Cardinality(S) <= GlobalLimit /\ T \in SUBSET S
    BY DEF Good, WorldRoom
  <2> HIDE DEF S, T
  <2>2. IsFiniteSet(T) /\ Cardinality(T) <= Cardinality(S) /\ Cardinality(S) \in Nat
        /\ Cardinality(T) \in Nat /\ GlobalLimit \in Nat
    BY <2>1, FS_Subset, FS_CardinalityType, QueueAssumption
  <2>3. Cardinality(T) <= GlobalLimit
    BY <2>1, <2>2
  <2> QED BY <2>2, <2>3 DEF T
<1>7. Alone(t)
  <2> SUFFICES ASSUME Orderly \/ (Untouched /\ Ample), NEW r \in LiveIn(t), NEW q \in LiveIn(t),
                      r # q, r.chat = q.chat
               PROVE  ~RequiresExclusiveRun(t.pool, r.job)
    BY DEF Alone
  <2>1. r.job \in Jobs /\ ~RequiresExclusiveRun(s.pool, r.job)
    BY <1>1 DEF Good, Alone
  <2>2. r.job \in Present(s.pool)
    BY <1>1 DEF Good, Counted, Known, Present, Statuses
  <2>3. t.pool.deps[r.job] \subseteq s.pool.deps[r.job]
    BY <2>2 DEF Calm
  <2> QED BY <2>1, <2>3 DEF RequiresExclusiveRun
<1> QED BY <1>2, <1>3, <1>4, <1>5, <1>6, <1>7 DEF Good

(* A change by hand: what is left of the invariant then.                   *)
LEMMA GoodByHand ==
  ASSUME NEW t, Sound(t), Backed(t), ~Untouched
  PROVE  Good(t)
BY DEF Good, Gated, Counted, Known, WorldRoom, Alone, Orderly

(* The same pool and other runs, none of the queue's more or fewer.        *)
LEMMA GoodRuns ==
  ASSUME NEW s, Good(s), NEW t, Sound(t), t.pool = s.pool, t.saved = s.saved, LiveIn(t) = LiveIn(s)
  PROVE  Good(t)
BY DEF Good, Gated, Backed, Counted, Known, WorldRoom, Alone

(* #startRun resolved: the start under way becomes an active run.          *)
LEMMA StartedFacts ==
  ASSUME NEW s, Good(s), NEW c \in Chats, s.drain[c] # NoRun,
         NEW t, t = [s EXCEPT !.active = @ \cup {s.drain[c]}, !.drain[c] = NoRun]
  PROVE  Good(t) /\ t.active # {}
<1> DEFINE r == s.drain[c]
<1>1. s \in States /\ Sound(s) /\ r \in Runs /\ r.chat = c /\ r.job \in Jobs /\ r.job # NoJob
  BY QueueAssumption DEF Good, Sound, States, StartsOK
<1>2. /\ t \in States /\ t.pool = s.pool /\ t.saved = s.saved /\ t.claims = s.claims
      /\ t.active = s.active \cup {r} /\ t.drain = [s.drain EXCEPT ![c] = NoRun]
  <2> DEFINE a == s.active \cup {r}
             d == [s.drain EXCEPT ![c] = NoRun]
  <2>1. a \in SUBSET Runs /\ d \in [Chats -> Runs \cup {NoRun}]
    BY <1>1 DEF States
  <2>2. t = [s EXCEPT !.active = a, !.drain = d]
    BY <1>1 DEF States
  <2> HIDE DEF a, d
  <2>3. /\ t \in States /\ t.pool = s.pool /\ t.saved = s.saved /\ t.claims = s.claims
        /\ t.active = a /\ t.drain = d
    BY <1>1, <2>1, <2>2 DEF States
  <2> QED BY <2>3 DEF a, d
<1>3. t.drain[c] = NoRun /\ \A x \in Chats \ {c} : t.drain[x] = s.drain[x]
  BY <1>1, <1>2 DEF States
<1>4. NoRun \notin Runs
  BY QueueAssumption
<1>5. LiveIn(t) = LiveIn(s)
  <2>1. \A x : x \in {t.drain[y] : y \in Chats} \ {NoRun} => x \in {s.drain[y] : y \in Chats} \ {NoRun}
    BY <1>3
  <2>2. \A x : x \in {s.drain[y] : y \in Chats} \ {NoRun} => x \in {t.drain[y] : y \in Chats} \ {NoRun} \/ x = r
    BY <1>3
  <2>3. r \in {s.drain[y] : y \in Chats} \ {NoRun}
    OBVIOUS
  <2>4. \A x : x \in {y \in t.active : y.job # NoJob} <=> x = r \/ x \in {y \in s.active : y.job # NoJob}
    BY <1>1, <1>2
  <2> HIDE DEF r
  <2> QED BY <2>1, <2>2, <2>3, <2>4 DEF LiveIn
<1>6. StartsOK(t)
  BY <1>1, <1>3 DEF Sound, StartsOK
<1>7. FreshOK(t)
  <2>1. \A x \in Chats : t.drain[x] \notin t.active
    <3> SUFFICES ASSUME NEW x \in Chats, t.drain[x] \in t.active PROVE FALSE
      OBVIOUS
    <3>1. t.active \subseteq Runs
      BY <1>2 DEF States
    <3>2. x # c /\ t.drain[x] = s.drain[x] /\ s.drain[x] # NoRun
      BY <1>3, <1>4, <3>1
    <3>3. s.drain[x] \notin s.active /\ s.drain[x].chat = x
      BY <1>1, <3>2 DEF Sound, FreshOK, StartsOK
    <3> QED BY <1>1, <1>2, <3>2, <3>3
  <2> QED BY <1>1, <1>2, <1>5, <2>1 DEF Sound, FreshOK
<1>8. IsFiniteSet(t.active) /\ IsFiniteSet(s.active)
  <2> DEFINE a == s.active
  <2>1. IsFiniteSet(a)
    BY <1>1 DEF Sound
  <2> HIDE DEF a, r
  <2>2. IsFiniteSet(a \cup {r})
    BY <2>1, FS_AddElement
  <2> QED BY <1>2, <2>1, <2>2 DEF a
<1>9. ChatRoom(t)
  <2> SUFFICES ASSUME NEW x \in Chats
               PROVE  Cardinality(InChat(t, x)) + (IF t.drain[x] = NoRun THEN 0 ELSE 1) <= ChatLimit
    BY DEF ChatRoom
  <2> DEFINE S == InChat(s, x)
             T == InChat(t, x)
  <2>1. Cardinality(S) + (IF s.drain[x] = NoRun THEN 0 ELSE 1) <= ChatLimit
    BY <1>1 DEF Sound, ChatRoom
  <2>2. CASE x # c
    <3>1. T = S
      BY <1>1, <1>2, <2>2 DEF InChat
    <3> QED BY <1>3, <2>1, <2>2, <3>1
  <2>3. CASE x = c
    <3>1. T = S \cup {r} /\ S \in SUBSET s.active
      BY <1>1, <1>2, <2>3 DEF InChat
    <3>2. Cardinality(S) + 1 <= ChatLimit
      BY <2>1, <2>3
    <3> HIDE DEF S, T, r
    <3>3. IsFiniteSet(S)
      BY <1>8, <3>1, FS_Subset
    <3>4. Cardinality(T) <= Cardinality(S) + 1 /\ Cardinality(S) \in Nat /\ Cardinality(T) \in Nat
      <4>1. /\ IsFiniteSet(S \cup {r})
            /\ Cardinality(S \cup {r}) = IF r \in S THEN Cardinality(S) ELSE Cardinality(S) + 1
        BY <3>3, FS_AddElement
      <4>2. Cardinality(S) \in Nat
        BY <3>3, FS_CardinalityType
      <4> QED BY <3>1, <4>1, <4>2
    <3>5. ChatLimit \in Nat
      BY QueueAssumption
    <3>6. Cardinality(T) + 0 <= ChatLimit
      BY <3>2, <3>4, <3>5
    <3> QED BY <1>3, <2>3, <3>6 DEF T
  <2> QED BY <2>2, <2>3
<1>10. Sound(t)
  BY <1>1, <1>2, <1>6, <1>7, <1>8, <1>9 DEF Sound
<1>11. t.active # {}
  BY <1>2
<1> QED BY <1>2, <1>5, <1>10, <1>11, GoodRuns

(* A run beside the queue is none of the queue's.                          *)
LEMMA DirectFacts ==
  ASSUME NEW s, Good(s), NEW r \in Runs, r.job = NoJob, NEW t \in States,
         t.pool = s.pool, t.saved = s.saved, t.drain = s.drain, t.claims = s.claims,
         t.active = s.active \cup {r}
  PROVE  Good(t)
<1>1. Sound(s)
  BY DEF Good
<1>2. LiveIn(t) = LiveIn(s) /\ \A c : InChat(t, c) = InChat(s, c)
  <2>1. {x \in t.active : x.job # NoJob} = {x \in s.active : x.job # NoJob}
    OBVIOUS
  <2> QED BY <2>1 DEF LiveIn, InChat
<1>3. IsFiniteSet(t.active)
  <2> DEFINE a == s.active
  <2>1. IsFiniteSet(a)
    BY <1>1 DEF Sound
  <2> HIDE DEF a
  <2>2. IsFiniteSet(a \cup {r})
    BY <2>1, FS_AddElement
  <2> QED BY <2>2 DEF a
<1>4. \A c \in Chats : s.drain[c] # r
  BY <1>1, QueueAssumption DEF Sound, StartsOK
<1>5. StartsOK(t) /\ FreshOK(t) /\ ChatRoom(t)
  BY <1>1, <1>2, <1>4 DEF Sound, StartsOK, FreshOK, ChatRoom
<1>6. Sound(t)
  BY <1>1, <1>3, <1>5 DEF Sound
<1> QED BY <1>2, <1>6, GoodRuns

(* After a crash nothing is under way.                                     *)
LEMMA RestartFacts ==
  ASSUME NEW p, PoolOK(p), NEW v, PoolOK(v), With(p, "running") = {},
         Untouched => DepsOK(p) /\ DepsOK(v), NEW cl \in [Jobs -> Nat],
         NEW t, t = [pool |-> p, saved |-> v, drain |-> [c \in Chats |-> NoRun], active |-> {},
                     claims |-> cl]
  PROVE  Good(t)
<1>1. p \in Pools /\ v \in Pools
  BY DEF PoolOK
<1>2. /\ t \in States /\ t.pool = p /\ t.saved = v /\ t.active = {}
      /\ \A c \in Chats : t.drain[c] = NoRun
  <2> DEFINE d == [c \in Chats |-> NoRun]
  <2>1. d \in [Chats -> Runs \cup {NoRun}] /\ \A c \in Chats : d[c] = NoRun
    OBVIOUS
  <2> HIDE DEF d
  <2>2. t = [pool |-> p, saved |-> v, drain |-> d, active |-> {}, claims |-> cl]
    BY DEF d
  <2> QED BY <1>1, <2>1, <2>2 DEF States
<1>3. LiveIn(t) = {} /\ \A c : InChat(t, c) = {}
  BY <1>2 DEF LiveIn, InChat
<1>4. IsFiniteSet({}) /\ Cardinality({}) = 0 /\ ChatLimit \in Nat /\ GlobalLimit \in Nat
  BY FS_EmptySet, QueueAssumption
<1>5. StartsOK(t) /\ FreshOK(t)
  BY <1>2, <1>3 DEF StartsOK, FreshOK
<1>6. ChatRoom(t)
  BY <1>2, <1>3, <1>4 DEF ChatRoom
<1>7. Sound(t)
  BY <1>2, <1>4, <1>5, <1>6 DEF Sound
<1>8. Gated(t) /\ Backed(t)
  BY <1>2 DEF Gated, Backed
<1>9. Counted(t) /\ Known(t) /\ Alone(t)
  BY <1>3 DEF Counted, Known, Alone
<1>10. WorldRoom(t)
  BY <1>3, <1>4 DEF WorldRoom
<1> QED BY <1>7, <1>8, <1>9, <1>10 DEF Good

-----------------------------------------------------------------------------
(* One claim.                                                              *)

(* A set is no larger than one it is indexed by.                           *)
LEMMA Indexed ==
  ASSUME NEW K, IsFiniteSet(K), NEW f, NEW R, \A r \in R : \E k \in K : f[k] = r
  PROVE  IsFiniteSet(R) /\ Cardinality(R) <= Cardinality(K)
<1> DEFINE I == {f[k] : k \in K}
           g == [k \in K |-> f[k]]
<1>1. g \in Surjection(K, I)
  BY DEF Surjection
<1>2. R \in SUBSET I
  OBVIOUS
<1> HIDE DEF I, g
<1>3. IsFiniteSet(I) /\ Cardinality(I) <= Cardinality(K)
  BY <1>1, FS_Surjection
<1>4. IsFiniteSet(R) /\ Cardinality(R) <= Cardinality(I)
  BY <1>2, <1>3, FS_Subset
<1>5. Cardinality(R) \in Nat /\ Cardinality(I) \in Nat /\ Cardinality(K) \in Nat
  BY <1>3, <1>4, FS_CardinalityType
<1> QED BY <1>3, <1>4, <1>5

(* There is room for one more of the queue's runs in a chat, and no        *)
(* exclusive run is active there.                                          *)
Free(s, c) ==
  /\ ChatLimit # 0 /\ GlobalLimit # 0
  /\ Cardinality(InChat(s, c)) + 1 <= ChatLimit
  /\ Orderly => Cardinality(LiveIn(s)) + 1 <= GlobalLimit
  /\ \A j \in Present(s.pool) :
       ChatOf[j] = c /\ s.pool.run[j] \in s.active => ~RequiresExclusiveRun(s.pool, j)

(* managerRunCapacity(...) > 0 leaves room for one more run.               *)
LEMMA CapacityFacts ==
  ASSUME NEW s, Good(s), NEW c \in Chats, HasCapacity(s, c)
  PROVE  Free(s, c)
<1> DEFINE running == With(s.pool, "running")
           unmanaged == s.active \ {s.pool.run[j] : j \in running}
           inChat == {j \in running : ChatOf[j] = c}
           unmanagedInChat == {r \in unmanaged : r.chat = c}
<1>1. /\ Cardinality(running) + Cardinality(unmanaged) < GlobalLimit
      /\ Cardinality(inChat) + Cardinality(unmanagedInChat) < ChatLimit
      /\ \A j \in Present(s.pool) :
           ChatOf[j] = c /\ s.pool.run[j] \in s.active => ~RequiresExclusiveRun(s.pool, j)
  BY DEF HasCapacity
<1>2. Sound(s) /\ PoolOK(s.pool) /\ IsFiniteSet(s.active) /\ s.active \subseteq Runs
  BY DEF Good, Sound, States
<1>3. GlobalLimit \in Nat /\ ChatLimit \in Nat
  BY QueueAssumption
<1>4. running \subseteq Present(s.pool) /\ IsFiniteSet(Present(s.pool))
  BY <1>2, ArrayCounts DEF With, Present, Statuses
<1>5. IsFiniteSet(running) /\ Cardinality(running) \in Nat
  <2> DEFINE P == Present(s.pool)
  <2> HIDE DEF P, running
  <2>1. IsFiniteSet(running)
    BY <1>4, FS_Subset DEF P
  <2> QED BY <2>1, FS_CardinalityType
<1>6. IsFiniteSet(unmanaged) /\ Cardinality(unmanaged) \in Nat
  <2> DEFINE a == s.active
  <2>1. unmanaged \in SUBSET a /\ IsFiniteSet(a)
    BY <1>2
  <2> HIDE DEF a, unmanaged
  <2>2. IsFiniteSet(unmanaged)
    BY <2>1, FS_Subset
  <2> QED BY <2>2, FS_CardinalityType
<1>7. IsFiniteSet(inChat) /\ Cardinality(inChat) \in Nat
  <2>1. inChat \in SUBSET running
    OBVIOUS
  <2> HIDE DEF inChat, running
  <2>2. IsFiniteSet(inChat)
    BY <1>5, <2>1, FS_Subset
  <2> QED BY <2>2, FS_CardinalityType
<1>8. IsFiniteSet(unmanagedInChat) /\ Cardinality(unmanagedInChat) \in Nat
  <2>1. unmanagedInChat \in SUBSET unmanaged
    OBVIOUS
  <2> HIDE DEF unmanagedInChat, unmanaged
  <2>2. IsFiniteSet(unmanagedInChat)
    BY <1>6, <2>1, FS_Subset
  <2> QED BY <2>2, FS_CardinalityType
<1>9. Cardinality(InChat(s, c)) + 1 <= ChatLimit
  <2> DEFINE A == InChat(s, c)
             M == {r \in A : r \notin unmanagedInChat}
             U == unmanagedInChat
  <2>1. \A r \in M : \E j \in inChat : s.pool.run[j] = r
    <3> SUFFICES ASSUME NEW r \in M PROVE \E j \in inChat : s.pool.run[j] = r
      OBVIOUS
    <3>1. r \in s.active /\ r.chat = c /\ r \notin unmanaged
      BY DEF InChat
    <3>2. PICK j \in running : s.pool.run[j] = r
      BY <3>1
    <3>3. j \in Jobs /\ r \in Runs /\ r.chat = ChatOf[j]
      BY <1>2, <3>1, <3>2 DEF With, PoolOK, RunsOK
    <3> QED BY <3>1, <3>2, <3>3
  <2>2. A \in SUBSET (M \cup U)
    OBVIOUS
  <2> HIDE DEF A, M, U, unmanagedInChat, inChat
  <2>3. IsFiniteSet(M) /\ Cardinality(M) <= Cardinality(inChat)
    BY <1>7, <2>1, Indexed
  <2>4. IsFiniteSet(U) /\ Cardinality(U) \in Nat /\ Cardinality(U) = Cardinality(unmanagedInChat)
    BY <1>8 DEF U
  <2>5. /\ IsFiniteSet(M \cup U)
        /\ Cardinality(M \cup U) = Cardinality(M) + Cardinality(U) - Cardinality(M \cap U)
    BY <2>3, <2>4, FS_Union
  <2>6. IsFiniteSet(M \cap U)
    BY <2>3, FS_Intersection, FS_Subset
  <2>7. IsFiniteSet(A) /\ Cardinality(A) <= Cardinality(M \cup U)
    BY <2>2, <2>5, FS_Subset
  <2>8. Cardinality(M) \in Nat /\ Cardinality(M \cap U) \in Nat /\ Cardinality(A) \in Nat
    BY <2>3, <2>6, <2>7, FS_CardinalityType
  <2>9. Cardinality(A) + 1 <= ChatLimit
    BY <1>1, <1>3, <1>7, <2>3, <2>4, <2>5, <2>7, <2>8
  <2> QED BY <2>9 DEF A
<1>10. ASSUME Orderly PROVE Cardinality(LiveIn(s)) + 1 <= GlobalLimit
  <2> DEFINE L == LiveIn(s)
  <2>1. \A r \in L : \E j \in running : s.pool.run[j] = r
    BY <1>2, <1>10, LiveFacts DEF Good, Counted, With
  <2> HIDE DEF L, running, unmanaged
  <2>2. IsFiniteSet(L) /\ Cardinality(L) <= Cardinality(running)
    BY <1>5, <2>1, Indexed
  <2>3. Cardinality(L) \in Nat
    BY <2>2, FS_CardinalityType
  <2>4. Cardinality(L) + 1 <= GlobalLimit
    BY <1>1, <1>3, <1>5, <1>6, <2>2, <2>3
  <2> QED BY <2>4 DEF L
<1>11. ChatLimit # 0 /\ GlobalLimit # 0
  <2> HIDE DEF running, unmanaged, inChat, unmanagedInChat
  <2> QED BY <1>1, <1>3, <1>5, <1>6, <1>7, <1>8
<1> QED BY <1>1, <1>9, <1>10, <1>11 DEF Free

(* A claim takes a job that is ready, where there is room, and exclusively *)
(* if the job asks for it.                                                 *)
LEMMA ClaimFacts ==
  ASSUME NEW s, Good(s), NEW c \in Chats, s.drain[c] = NoRun, Free(s, c),
         NEW j \in Ready(s.pool, c), RequiresExclusiveRun(s.pool, j) => ~Occupied(s, c),
         NEW t, t = Claim(s, c, j)
  PROVE  Good(t) /\ t.active = s.active /\ t.drain[c] # NoRun
<1> DEFINE r == [chat |-> c, job |-> j, n |-> s.claims[j] + 1]
           m == RefreshBlocked(s.pool)
           q == Assigned(m, j, "running", r)
           p == s.pool
           d == [s.drain EXCEPT ![c] = r]
           cl == [s.claims EXCEPT ![j] = s.claims[j] + 1]
<1>1. /\ s \in States /\ Sound(s) /\ PoolOK(p) /\ j \in Jobs /\ p.status[j] = "queued"
      /\ ChatOf[j] = c /\ (\A k \in p.deps[j] : p.status[k] = "completed")
      /\ s.claims \in [Jobs -> Nat] /\ s.drain \in [Chats -> Runs \cup {NoRun}]
  BY DEF Good, Sound, Ready, With, States
<1>2. r \in Runs /\ r.chat = c /\ r.job = j /\ r.n = s.claims[j] + 1 /\ r # NoRun /\ r # UserRun
  BY <1>1, QueueAssumption DEF Runs
<1>3. d \in [Chats -> Runs \cup {NoRun}] /\ cl \in [Jobs -> Nat]
  BY <1>1, <1>2
<1>4. /\ d[c] = r /\ \A x \in Chats \ {c} : d[x] = s.drain[x]
      /\ \A k \in Jobs : cl[k] = IF k = j THEN s.claims[j] + 1 ELSE s.claims[k]
  BY <1>1
<1>5. t = [Persist(s, q) EXCEPT !.claims[j] = @ + 1, !.drain[c] = r]
  BY DEF Claim, Assigned
<1> HIDE DEF m, q, p
<1>6. /\ PoolOK(m) /\ m.run = p.run /\ m.deps = p.deps
      /\ \A k \in Jobs : \/ m.status[k] = p.status[k]
                         \/ p.status[k] = "queued" /\ m.status[k] = "blocked"
      /\ Ready(m, c) = Ready(p, c)
  BY <1>1, RefreshFacts DEF m, p
<1>7. m.status[j] = "queued" /\ j \in Present(m)
  BY <1>1, <1>6 DEF Ready, With, Present, Statuses, p
<1>8. Fits(j, "running", r)
  BY <1>1, <1>2 DEF Fits, Statuses
<1> HIDE DEF r, d, cl
<1>9. /\ PoolOK(q) /\ q.deps = m.deps /\ q.status[j] = "running" /\ q.run[j] = r
      /\ \A k \in Jobs \ {j} : q.status[k] = m.status[k] /\ q.run[k] = m.run[k]
      /\ Present(q) = Present(m)
  BY <1>6, <1>7, <1>8, AssignFacts DEF q
<1>10. /\ t \in States /\ t.pool = q /\ t.saved = q /\ t.active = s.active
       /\ t.drain = d /\ t.claims = cl
  <2> DEFINE w == Persist(s, q)
  <2>1. /\ w \in States /\ w.pool = q /\ w.saved = q
        /\ w.drain = s.drain /\ w.active = s.active /\ w.claims = s.claims
    BY <1>1, <1>9, PersistFacts DEF PoolOK
  <2>2. t = [w EXCEPT !.claims[j] = @ + 1, !.drain[c] = r]
    BY <1>5
  <2> HIDE DEF w
  <2>3. t = [w EXCEPT !.claims = cl, !.drain = d]
    BY <2>1, <2>2 DEF cl, d, States
  <2> QED BY <1>3, <2>1, <2>3 DEF States
<1>11. Present(m) = Present(p)
  BY <1>6 DEF Present, Statuses
<1>12. \A x : x \in LiveIn(t) <=> x \in LiveIn(s) \/ x = r
  <2>1. \A x : x \in LiveIn(t) <=> \/ \E y \in Chats : d[y] = x /\ x # NoRun
                                   \/ x \in s.active /\ x.job # NoJob
    <3>1. NoRun \notin s.active
      BY <1>1, QueueAssumption DEF States
    <3> QED BY <1>10, <3>1 DEF LiveIn
  <2>2. \A x : x \in LiveIn(s) <=> \/ \E y \in Chats : s.drain[y] = x /\ x # NoRun
                                   \/ x \in s.active /\ x.job # NoJob
    BY <1>1, LiveFacts
  <2> QED BY <1>2, <1>4, <2>1, <2>2
<1>13. \A x \in LiveIn(s) : x \in Runs /\ x.job \in Jobs /\ x.chat \in Chats /\ x.n \in Nat /\ x # NoRun
  BY <1>1, LiveFacts
<1>14. StartsOK(t)
  BY <1>1, <1>2, <1>4, <1>10 DEF Sound, StartsOK
<1>15. FreshOK(t)
  <2>1. \A x \in LiveIn(t) : x.n <= t.claims[x.job]
    <3> SUFFICES ASSUME NEW x \in LiveIn(t) PROVE x.n <= t.claims[x.job]
      OBVIOUS
    <3>1. CASE x = r
      BY <1>1, <1>2, <1>4, <1>10, <3>1
    <3>2. CASE x \in LiveIn(s)
      <4>1. x.n <= s.claims[x.job] /\ x.job \in Jobs /\ x.n \in Nat
        BY <1>1, <1>13, <3>2 DEF Sound, FreshOK
      <4> QED BY <1>1, <1>4, <1>10, <4>1
    <3> QED BY <1>12, <3>1, <3>2
  <2>2. r \notin s.active
    <3> SUFFICES ASSUME r \in s.active PROVE FALSE
      OBVIOUS
    <3>1. r \in LiveIn(s)
      BY <1>1, <1>2, LiveFacts, QueueAssumption
    <3>2. r.n <= s.claims[j]
      BY <1>1, <1>2, <3>1 DEF Sound, FreshOK
    <3> QED BY <1>1, <1>2, <3>2
  <2>3. \A x \in Chats : t.drain[x] \notin t.active
    BY <1>1, <1>4, <1>10, <2>2 DEF Sound, FreshOK
  <2> QED BY <2>1, <2>3 DEF FreshOK
<1>16. ChatRoom(t)
  <2> SUFFICES ASSUME NEW x \in Chats
               PROVE  Cardinality(InChat(t, x)) + (IF t.drain[x] = NoRun THEN 0 ELSE 1) <= ChatLimit
    BY DEF ChatRoom
  <2>1. InChat(t, x) = InChat(s, x)
    BY <1>10 DEF InChat
  <2>2. CASE x = c
    BY <1>2, <1>4, <1>10, <2>1, <2>2 DEF Free
  <2>3. CASE x # c
    BY <1>1, <1>4, <1>10, <2>1, <2>3 DEF Sound, ChatRoom
  <2> QED BY <2>2, <2>3
<1>17. Sound(t)
  BY <1>1, <1>9, <1>10, <1>14, <1>15, <1>16 DEF Sound
<1>18. ASSUME Untouched PROVE DepsOK(q)
  <2> SUFFICES ASSUME NEW k \in Open(q), NEW e \in q.deps[k]
               PROVE  e \in Present(q) /\ (q.status[k] = "running" => q.status[e] = "completed")
    BY DEF DepsOK, Open, With
  <2>1. k \in Jobs /\ k \in Open(p) /\ e \in p.deps[k]
    BY <1>1, <1>6, <1>9 DEF Open, p
  <2>2. e \in Present(p) /\ (p.status[k] = "running" => p.status[e] = "completed")
    BY <1>18, <2>1 DEF Good, Gated, DepsOK, Open, With, p
  <2>3. e \in Jobs
    BY <2>2 DEF Present
  <2>4. p.status[e] = "completed" => q.status[e] = "completed"
    BY <1>1, <1>6, <1>9, <2>3
  <2>5. q.status[k] = "running" => p.status[e] = "completed"
    BY <1>1, <1>6, <1>9, <2>1, <2>2
  <2> QED BY <1>9, <1>11, <2>2, <2>4, <2>5
<1>19. Gated(t)
  BY <1>10, <1>18 DEF Gated
<1>20. Backed(t)
  <2> SUFFICES ASSUME Never("claim"), NEW k \in With(q, "running")
               PROVE  q.run[k] = UserRun \/ q.run[k] \in LiveIn(t)
    BY <1>10 DEF Backed
  <2>1. CASE k = j
    BY <1>9, <1>12, <2>1
  <2>2. CASE k # j
    <3>1. k \in Jobs /\ p.status[k] = "running" /\ q.run[k] = p.run[k]
      BY <1>6, <1>9, <2>2 DEF With
    <3>2. p.run[k] = UserRun \/ p.run[k] \in LiveIn(s)
      BY <3>1 DEF Good, Backed, With, p
    <3> QED BY <1>12, <3>1, <3>2
  <2> QED BY <2>1, <2>2
<1>21. Counted(t)
  <2> SUFFICES ASSUME Orderly, NEW x \in LiveIn(t)
               PROVE  q.status[x.job] = "running" /\ q.run[x.job] = x
    BY <1>10 DEF Counted
  <2>1. CASE x = r
    BY <1>2, <1>9, <2>1
  <2>2. CASE x \in LiveIn(s)
    <3>1. x.job \in Jobs /\ p.status[x.job] = "running" /\ p.run[x.job] = x
      BY <1>13, <2>2 DEF Good, Counted, p
    <3>2. x.job # j
      BY <1>1, <3>1
    <3> QED BY <1>6, <1>9, <3>1, <3>2
  <2> QED BY <1>12, <2>1, <2>2
<1>22. Known(t)
  <2> SUFFICES ASSUME Untouched, Ample, NEW x \in LiveIn(t)
               PROVE  x.job \in Present(q) /\ q.run[x.job] = x
    BY <1>10 DEF Known
  <2>1. CASE x = r
    BY <1>2, <1>7, <1>9, <2>1
  <2>2. CASE x \in LiveIn(s)
    <3>1. x.job \in Jobs /\ x.job \in Present(p) /\ p.run[x.job] = x /\ x # NoRun
      BY <1>13, <2>2 DEF Good, Known, p
    <3>2. p.run[j] = NoRun
      BY <1>1 DEF PoolOK, RunsOK
    <3> QED BY <1>6, <1>9, <1>11, <3>1, <3>2
  <2> QED BY <1>12, <2>1, <2>2
<1>23. WorldRoom(t)
  <2> SUFFICES ASSUME Orderly
               PROVE  IsFiniteSet(LiveIn(t)) /\ Cardinality(LiveIn(t)) <= GlobalLimit
    BY DEF WorldRoom
  <2> DEFINE L == LiveIn(s)
  <2>1. IsFiniteSet(L) /\ Cardinality(L) + 1 <= GlobalLimit
    BY DEF Good, WorldRoom, Free
  <2>2. LiveIn(t) = L \cup {r}
    BY <1>12
  <2> HIDE DEF L
  <2>3. /\ IsFiniteSet(L \cup {r})
        /\ Cardinality(L \cup {r}) = IF r \in L THEN Cardinality(L) ELSE Cardinality(L) + 1
    BY <2>1, FS_AddElement
  <2>4. Cardinality(L) \in Nat /\ GlobalLimit \in Nat
    BY <2>1, FS_CardinalityType, QueueAssumption
  <2> QED BY <2>1, <2>2, <2>3, <2>4
<1>24. Alone(t)
  <2> SUFFICES ASSUME Orderly \/ (Untouched /\ Ample), NEW x \in LiveIn(t), NEW y \in LiveIn(t),
                      x # y, x.chat = y.chat
               PROVE  ~RequiresExclusiveRun(q, x.job)
    BY <1>10 DEF Alone
  <2>1. \A k \in Jobs : RequiresExclusiveRun(q, k) <=> RequiresExclusiveRun(p, k)
    BY <1>6, <1>9 DEF RequiresExclusiveRun
  <2>2. \A z \in LiveIn(s) : z.chat = c => z \in s.active
    <3> SUFFICES ASSUME NEW z \in LiveIn(s), z.chat = c, z \notin s.active PROVE FALSE
      OBVIOUS
    <3>1. PICK y1 \in Chats : s.drain[y1] = z /\ z # NoRun
      BY <1>1, LiveFacts
    <3> QED BY <1>1, <3>1 DEF Sound, StartsOK
  <2>3. CASE x \in LiveIn(s) /\ y \in LiveIn(s)
    BY <1>13, <2>1, <2>3 DEF Good, Alone, p
  <2>4. CASE x = r /\ y \in LiveIn(s)
    <3>1. y \in s.active /\ y.chat = c
      BY <1>2, <2>2, <2>4
    <3>2. ~RequiresExclusiveRun(p, j)
      BY <3>1 DEF Occupied, p
    <3> QED BY <1>1, <1>2, <2>1, <2>4, <3>2
  <2>5. CASE x \in LiveIn(s) /\ y = r
    <3>1. x \in s.active /\ x.chat = c /\ x.job \in Jobs /\ x \in Runs
      BY <1>2, <1>13, <2>2, <2>5
    <3>2. x.job \in Present(p) /\ p.run[x.job] = x
      BY <2>5, <3>1 DEF Good, Counted, Known, Present, Statuses, p
    <3>3. ChatOf[x.job] = c
      BY <1>1, <3>1, <3>2 DEF PoolOK, RunsOK
    <3>4. ~RequiresExclusiveRun(p, x.job)
      BY <3>1, <3>2, <3>3 DEF Free, p
    <3> QED BY <2>1, <3>1, <3>4
  <2> QED BY <1>12, <2>3, <2>4, <2>5
<1> QED BY <1>2, <1>4, <1>10, <1>17, <1>19, <1>20, <1>21, <1>22, <1>23, <1>24 DEF Good

-----------------------------------------------------------------------------
(* Drains.                                                                 *)

(* nextReady: the pool is refreshed, in memory only.                       *)
LEMMA SeenFacts ==
  ASSUME NEW s, Good(s), NEW t, t = [s EXCEPT !.pool = RefreshBlocked(@)]
  PROVE  /\ Good(t) /\ t.pool = RefreshBlocked(s.pool) /\ t.saved = s.saved
         /\ t.drain = s.drain /\ t.active = s.active /\ LiveIn(t) = LiveIn(s)
<1> DEFINE m == RefreshBlocked(s.pool)
<1>1. s \in States /\ Sound(s) /\ PoolOK(s.pool) /\ PoolOK(s.saved)
  BY DEF Good, Sound
<1>2. PoolOK(m) /\ Calm(s.pool, m, {})
  BY <1>1, RefreshCalm DEF Calm
<1>3. t = [s EXCEPT !.pool = m]
  OBVIOUS
<1> HIDE DEF m
<1>4. /\ t \in States /\ t.pool = m /\ t.saved = s.saved /\ t.drain = s.drain
      /\ t.active = s.active /\ t.claims = s.claims
  BY <1>1, <1>2, <1>3 DEF States, PoolOK
<1>5. Sound(t) /\ LiveIn(t) = LiveIn(s)
  BY <1>1, <1>2, <1>4, SoundPool
<1>6. CalmStep(s, t, {})
  BY <1>2, <1>4, <1>5 DEF CalmStep
<1>7. Good(t)
  BY <1>5, <1>6, GoodPool
<1> QED BY <1>4, <1>5, <1>7 DEF m

(* A drain of a chat goes on, claims a job or does nothing.                *)
LEMMA DrainFacts ==
  ASSUME NEW s, Good(s), NEW c \in Chats, NEW t, t = DrainChat(s, c)
  PROVE  /\ Good(t) /\ t.active = s.active
         /\ Still(t) => /\ Still(s) /\ Claimable(s, c) = NoJob
                        /\ \A x : Ready(t.pool, x) = Ready(s.pool, x)
<1> DEFINE seen == IF HasCapacity(s, c) THEN [s EXCEPT !.pool = RefreshBlocked(@)] ELSE s
           m == RefreshBlocked(s.pool)
           j == Claimable(s, c)
           w == [s EXCEPT !.pool = RefreshBlocked(@)]
<1>1. t = IF s.drain[c] # NoRun THEN s ELSE IF j = NoJob THEN seen ELSE Claim(seen, c, j)
  BY DEF DrainChat
<1>2. s \in States /\ Sound(s) /\ PoolOK(s.pool)
  BY DEF Good, Sound
<1>3. /\ Good(w) /\ w.pool = m /\ w.saved = s.saved
      /\ w.drain = s.drain /\ w.active = s.active /\ LiveIn(w) = LiveIn(s)
  BY SeenFacts
<1>4. /\ PoolOK(m) /\ m.run = s.pool.run /\ m.deps = s.pool.deps
      /\ \A k \in Jobs : \/ m.status[k] = s.pool.status[k]
                         \/ s.pool.status[k] = "queued" /\ m.status[k] = "blocked"
      /\ \A x : Ready(m, x) = Ready(s.pool, x)
  BY <1>2, RefreshFacts
<1>5. HasCapacity(s, c) => seen = w
  OBVIOUS
<1>6. ~HasCapacity(s, c) => seen = s
  OBVIOUS
<1>7. /\ j # NoJob => /\ HasCapacity(s, c) /\ j = NextReady(m, c)
                      /\ RequiresExclusiveRun(s.pool, j) => ~Occupied(s, c)
  BY DEF Claimable
<1> HIDE DEF seen, w, m, j
<1>8. Good(seen) /\ seen.active = s.active /\ seen.drain = s.drain
      /\ \A x : Ready(seen.pool, x) = Ready(s.pool, x)
  BY <1>3, <1>4, <1>5, <1>6
<1>9. CASE s.drain[c] # NoRun
  <2>1. t = s /\ ~Still(s)
    BY <1>1, <1>9 DEF Still
  <2> QED BY <2>1
<1>10. CASE s.drain[c] = NoRun /\ j = NoJob
  <2>1. t = seen
    BY <1>1, <1>10
  <2>2. Still(t) => Still(s)
    BY <1>8, <2>1 DEF Still
  <2> QED BY <1>8, <1>10, <2>1, <2>2 DEF j
<1>11. CASE s.drain[c] = NoRun /\ j # NoJob
  <2>1. t = Claim(w, c, j) /\ HasCapacity(s, c) /\ j = NextReady(m, c)
    BY <1>1, <1>5, <1>7, <1>11
  <2>2. j \in Ready(w.pool, c)
    BY <1>3, <1>4, <1>11, <2>1, NextReadyFacts
  <2>3. Free(s, c)
    BY <2>1, CapacityFacts
  <2>4. Present(w.pool) = Present(s.pool) /\ With(w.pool, "running") = With(s.pool, "running")
    BY <1>3, <1>4 DEF Present, With, Statuses
  <2>5. \A k : RequiresExclusiveRun(w.pool, k) = RequiresExclusiveRun(s.pool, k)
    BY <1>3, <1>4 DEF RequiresExclusiveRun
  <2>6. Free(w, c)
    <3>1. InChat(w, c) = InChat(s, c)
      BY <1>3 DEF InChat
    <3>2. w.pool.run = s.pool.run
      BY <1>3, <1>4
    <3> QED BY <1>3, <2>3, <2>4, <2>5, <3>1, <3>2 DEF Free
  <2>7. Occupied(w, c) => Occupied(s, c)
    BY <1>3, <2>4 DEF Occupied
  <2>8. RequiresExclusiveRun(w.pool, j) => ~Occupied(w, c)
    BY <1>7, <1>11, <2>5, <2>7
  <2>9. w.drain[c] = NoRun
    BY <1>3, <1>11
  <2>10. Good(t) /\ t.active = w.active /\ t.drain[c] # NoRun
    BY <1>3, <2>1, <2>2, <2>6, <2>8, <2>9, ClaimFacts
  <2>11. ~Still(t)
    BY <2>10 DEF Still
  <2> QED BY <1>3, <2>10, <2>11
<1> QED BY <1>9, <1>10, <1>11

(* With nothing under way, a drain can claim what is ready.                *)
LEMMA ClaimableFacts ==
  ASSUME NEW s, Good(s), NEW c \in Chats, Still(s)
  PROVE  /\ Never("edit") /\ Never("claim") /\ ChatLimit # 0 /\ GlobalLimit # 0
            /\ Claimable(s, c) = NoJob => Ready(s.pool, c) = {}
         /\ Ready(s.pool, c) = {} \/ ChatLimit = 0 \/ GlobalLimit = 0 => Claimable(s, c) = NoJob
<1> DEFINE m == RefreshBlocked(s.pool)
<1>1. s \in States /\ Sound(s) /\ PoolOK(s.pool) /\ s.active = {} /\ IsFiniteSet(s.active)
  BY DEF Good, Sound, Still
<1>2. PoolOK(m) /\ Ready(m, c) = Ready(s.pool, c)
  BY <1>1, RefreshFacts
<1>3. IF Ready(s.pool, c) = {} THEN NextReady(m, c) = NoJob ELSE NextReady(m, c) \in Ready(s.pool, c)
  BY <1>2, NextReadyFacts
<1>4. Ready(s.pool, c) \subseteq Jobs /\ NoJob \notin Jobs
  BY QueueAssumption DEF Ready, With
<1> HIDE DEF m
<1>5. LiveIn(s) = {}
  BY <1>1 DEF LiveIn, Still
<1>6. ASSUME Never("edit"), Never("claim"), ChatLimit # 0, GlobalLimit # 0, Claimable(s, c) = NoJob
      PROVE  Ready(s.pool, c) = {}
  <2>1. With(s.pool, "running") = {}
    <3> SUFFICES ASSUME NEW k \in With(s.pool, "running") PROVE FALSE
      OBVIOUS
    <3>1. k \in Jobs /\ s.pool.run[k] # UserRun
      BY <1>1, <1>6 DEF With, PoolOK, RunsOK
    <3> QED BY <1>5, <1>6, <3>1 DEF Good, Backed
  <2>2. ~Occupied(s, c)
    BY <1>1, <2>1 DEF Occupied
  <2>3. HasCapacity(s, c)
    <3> DEFINE running == With(s.pool, "running")
               unmanaged == s.active \ {s.pool.run[k] : k \in running}
    <3>1. /\ running = {} /\ unmanaged = {} /\ {k \in running : ChatOf[k] = c} = {}
          /\ {r \in unmanaged : r.chat = c} = {}
      BY <1>1, <2>1
    <3>2. Cardinality({}) = 0 /\ ChatLimit \in Nat /\ GlobalLimit \in Nat
      BY FS_EmptySet, QueueAssumption
    <3>3. Cardinality({}) + Cardinality({}) < GlobalLimit /\ Cardinality({}) + Cardinality({}) < ChatLimit
      BY <1>6, <3>2
    <3>4. ~ \E k \in Present(s.pool) : /\ ChatOf[k] = c /\ s.pool.run[k] \in s.active
                                       /\ RequiresExclusiveRun(s.pool, k)
      BY <1>1
    <3> QED BY <3>1, <3>3, <3>4 DEF HasCapacity
  <2>4. NextReady(m, c) = NoJob
    BY <1>6, <2>2, <2>3 DEF Claimable, m
  <2> QED BY <1>3, <1>4, <2>4
<1>7. ASSUME Ready(s.pool, c) = {} PROVE Claimable(s, c) = NoJob
  BY <1>3, <1>7 DEF Claimable, m
<1>8. ASSUME ChatLimit = 0 \/ GlobalLimit = 0 PROVE Claimable(s, c) = NoJob
  <2>1. ~HasCapacity(s, c)
    <3> SUFFICES ASSUME HasCapacity(s, c) PROVE FALSE
      OBVIOUS
    <3>1. ChatLimit # 0 /\ GlobalLimit # 0
      BY CapacityFacts DEF Free
    <3> QED BY <1>8, <3>1
  <2> QED BY <2>1 DEF Claimable
<1> QED BY <1>6, <1>7, <1>8

(* A chat with a job that is ready has a first job that waits.             *)
LEMMA LeadsFacts ==
  ASSUME NEW p, PoolOK(p), NEW c, Ready(p, c) # {}
  PROVE  \E n \in 1 .. Len(p.order) : Leads(p, n) /\ ChatOf[p.order[n]] = c
<1> DEFINE N == Len(p.order)
           P == {x \in 1 .. N : p.status[p.order[x]] = "queued" /\ ChatOf[p.order[x]] = c}
<1>1. N \in Nat
  BY LenProperties DEF PoolOK, Pools
<1>2. PICK j \in Jobs : p.status[j] = "queued" /\ ChatOf[j] = c
  BY DEF Ready, With
<1>3. j \in Present(p)
  BY <1>2 DEF Present, Statuses
<1>4. PICK x \in 1 .. N : p.order[x] = j
  BY <1>3 DEF PoolOK, ArrayOK
<1>5. P \in SUBSET Nat /\ P # {}
  BY <1>1, <1>2, <1>4
<1>6. PICK n \in P : \A u \in P : n <= u
  BY <1>5, LeastNumber
<1>7. n \in 1 .. N /\ p.status[p.order[n]] = "queued" /\ ChatOf[p.order[n]] = c
  BY <1>6
<1>8. ASSUME NEW k \in 1 .. n - 1, p.status[p.order[k]] = "queued", ChatOf[p.order[k]] = c PROVE FALSE
  <2>1. k \in 1 .. N /\ ~(n <= k)
    BY <1>1, <1>7
  <2>2. k \in P
    BY <1>8, <2>1
  <2> QED BY <1>6, <2>1, <2>2
<1>9. Leads(p, n)
  BY <1>7, <1>8 DEF Leads
<1> QED BY <1>7, <1>9

(* One step of #drainManagerQueues.                                        *)
Stride(p, n, x) == IF Leads(p, n) THEN DrainChat(x, ChatOf[p.order[n]]) ELSE x

(* Where draining all chats leads through.                                 *)
DrainPath(f, s) ==
  /\ f[0] = s
  /\ \A n \in 1 .. Len(s.pool.order) : f[n] = Stride(s.pool, n, f[n - 1])

(* #drainManagerQueues is its steps, one after the other.                  *)
LEMMA DrainPathExists ==
  ASSUME NEW s, Good(s)
  PROVE  \E f : DrainPath(f, s) /\ DrainAll(s) = f[Len(s.pool.order)]
<1> DEFINE N == Len(s.pool.order)
           G == {x \in States : Good(x)}
           Is(f) == f = [n \in 0 .. Len(s.pool.order) |->
                          IF n = 0 THEN s
                          ELSE IF Leads(s.pool, n) THEN DrainChat(f[n - 1], ChatOf[s.pool.order[n]])
                          ELSE f[n - 1]]
<1>0. N \in Nat /\ s \in G /\ \A n \in 1 .. N : ChatOf[s.pool.order[n]] \in Chats
  <2>1. s.pool.order \in Seq(Jobs) /\ s \in States
    BY DEF Good, Sound, PoolOK, Pools
  <2>2. \A n \in 1 .. N : s.pool.order[n] \in Jobs
    BY <2>1, ElementOfSeq
  <2> QED BY <2>1, <2>2, LenProperties, QueueAssumption
<1>1. ASSUME NEW n \in 1 .. N, NEW x \in G PROVE Stride(s.pool, n, x) \in G
  <2>1. CASE Leads(s.pool, n)
    <3> DEFINE t == DrainChat(x, ChatOf[s.pool.order[n]])
    <3>1. Good(t)
      BY <1>0, DrainFacts
    <3> HIDE DEF t
    <3>2. t \in States
      BY <3>1 DEF Good, Sound
    <3> QED BY <2>1, <3>1, <3>2 DEF Stride, t
  <2>2. CASE ~Leads(s.pool, n)
    BY <2>2 DEF Stride
  <2> QED BY <2>1, <2>2
<1> HIDE DEF G
<1>2. \E f : Is(f)
  <2> DEFINE step == [n \in 1 .. N |-> [x \in G |-> Stride(s.pool, n, x)]]
  <2>1. step \in Steps(N, G)
    BY <1>1 DEF Steps
  <2>2. \A n \in 1 .. N, x \in G : step[n][x] = Stride(s.pool, n, x)
    OBVIOUS
  <2> HIDE DEF step, N
  <2>3. PICK f : Trail(f, N, G, s, step)
    BY <1>0, <2>1, Repeated
  <2>4. f \in [0 .. N -> G] /\ f[0] = s /\ \A n \in 1 .. N : f[n] = step[n][f[n - 1]]
    BY <2>3 DEF Trail
  <2>5. \A n \in 1 .. N : f[n] = Stride(s.pool, n, f[n - 1])
    <3> SUFFICES ASSUME NEW n \in 1 .. N PROVE f[n] = Stride(s.pool, n, f[n - 1])
      OBVIOUS
    <3>1. n - 1 \in 0 .. N
      BY <1>0
    <3> QED BY <2>2, <2>4, <3>1
  <2>6. \A n \in 0 .. N :
          f[n] = IF n = 0 THEN s
                 ELSE IF Leads(s.pool, n) THEN DrainChat(f[n - 1], ChatOf[s.pool.order[n]])
                 ELSE f[n - 1]
    <3> SUFFICES ASSUME NEW n \in 0 .. N, n # 0
                 PROVE  f[n] = IF Leads(s.pool, n) THEN DrainChat(f[n - 1], ChatOf[s.pool.order[n]])
                               ELSE f[n - 1]
      BY <2>4
    <3>1. n \in 1 .. N
      BY <1>0
    <3> QED BY <2>5, <3>1 DEF Stride
  <2> QED BY <2>4, <2>6 DEF N
<1>3. PICK f : Is(f) /\ DrainAll(s) = f[Len(s.pool.order)]
  BY <1>2, Zenon DEF DrainAll
<1>4. f[0] = s
  BY <1>0, <1>3
<1>5. \A n \in 1 .. N : f[n] = Stride(s.pool, n, f[n - 1])
  <2> SUFFICES ASSUME NEW n \in 1 .. N PROVE f[n] = Stride(s.pool, n, f[n - 1])
    OBVIOUS
  <2>1. n \in 0 .. N /\ n # 0
    BY <1>0
  <2> QED BY <1>3, <2>1 DEF Stride
<1> HIDE DEF Is
<1> QED BY <1>3, <1>4, <1>5 DEF DrainPath

(* Draining all chats keeps the invariant, and leaves nothing ready with   *)
(* nothing under way.                                                      *)
LEMMA DrainAllFacts ==
  ASSUME NEW s, Good(s), NEW t, t = DrainAll(s)
  PROVE  /\ Good(t) /\ t.active = s.active
         /\ Never("edit") /\ Never("claim") => Awake(t)
<1> DEFINE p == s.pool
           N == Len(p.order)
           Hands == Never("edit") /\ Never("claim") /\ ChatLimit # 0 /\ GlobalLimit # 0
<1>1. PICK f : DrainPath(f, s) /\ t = f[N]
  BY DrainPathExists
<1>2. N \in Nat /\ PoolOK(p) /\ \A n \in 1 .. N : ChatOf[p.order[n]] \in Chats
  <2>1. p.order \in Seq(Jobs) /\ s \in States /\ PoolOK(p)
    BY DEF Good, Sound, PoolOK, Pools
  <2>2. \A n \in 1 .. N : p.order[n] \in Jobs
    BY <2>1, ElementOfSeq
  <2> QED BY <2>1, <2>2, LenProperties, QueueAssumption
<1>3. f[0] = s /\ \A n \in 1 .. N : f[n] = Stride(p, n, f[n - 1])
  BY <1>1 DEF DrainPath
<1> HIDE DEF p, N
<1> DEFINE Fine(n) ==
      /\ Good(f[n]) /\ f[n].active = s.active
      /\ Still(f[n]) => /\ \A x : Ready(f[n].pool, x) = Ready(p, x)
                        /\ Hands => \A k \in 1 .. n : Leads(p, k) => Ready(p, ChatOf[p.order[k]]) = {}
      T == {n \in 0 .. N : Fine(n)}
<1>4. 0 \in T
  <2>1. Fine(0)
    BY <1>3 DEF p
  <2> HIDE DEF Fine
  <2> QED BY <1>2, <2>1
<1>5. ASSUME NEW n \in 1 .. N, n - 1 \in T PROVE n \in T
  <2>1. Fine(n - 1) /\ n \in 0 .. N
    <3> HIDE DEF Fine
    <3> QED BY <1>2, <1>5
  <2>2. f[n] = Stride(p, n, f[n - 1])
    BY <1>3
  <2>3. \A k \in 1 .. n : k \in 1 .. n - 1 \/ k = n
    BY <1>2
  <2> DEFINE a == f[n - 1]
             b == f[n]
             c == ChatOf[p.order[n]]
  <2>4. CASE Leads(p, n)
    <3>1. b = DrainChat(a, c) /\ c \in Chats /\ Good(a)
      BY <1>2, <2>1, <2>2, <2>4 DEF Stride
    <3> HIDE DEF a, b, c
    <3>2. /\ Good(b) /\ b.active = a.active
          /\ Still(b) => /\ Still(a) /\ Claimable(a, c) = NoJob
                         /\ \A x : Ready(b.pool, x) = Ready(a.pool, x)
      BY <3>1, DrainFacts
    <3>3. Still(b) /\ Hands => Ready(a.pool, c) = {}
      BY <3>1, <3>2, ClaimableFacts
    <3>4. Still(b) => /\ \A x : Ready(b.pool, x) = Ready(p, x)
                      /\ Hands => Ready(p, c) = {}
      BY <2>1, <3>2, <3>3 DEF a
    <3>5. b.active = s.active
      BY <2>1, <3>2 DEF a
    <3>6. Still(b) /\ Hands => \A k \in 1 .. n : Leads(p, k) => Ready(p, ChatOf[p.order[k]]) = {}
      BY <2>1, <2>3, <3>2, <3>4 DEF a, c
    <3>7. Fine(n)
      BY <3>2, <3>4, <3>5, <3>6 DEF b
    <3> HIDE DEF Fine
    <3> QED BY <2>1, <3>7
  <2>5. CASE ~Leads(p, n)
    <3>1. f[n] = f[n - 1]
      BY <2>2, <2>5 DEF Stride
    <3>2. Fine(n)
      BY <2>1, <2>3, <2>5, <3>1
    <3> HIDE DEF Fine
    <3> QED BY <2>1, <3>2
  <2> QED BY <2>4, <2>5
<1>6. Fine(N)
  <2> HIDE DEF Fine
  <2>1. 0 \in T /\ \A n \in 1 .. N : n - 1 \in T => n \in T
    BY <1>4, <1>5
  <2> HIDE DEF T
  <2>2. \A n \in 0 .. N : n \in T
    BY <1>2, <2>1, UpTo
  <2>3. N \in T
    BY <1>2, <2>2
  <2> QED BY <2>3 DEF T
<1>7. ASSUME Never("edit"), Never("claim"), Still(t), ChatLimit # 0, GlobalLimit # 0, NEW c \in Chats
      PROVE  Ready(t.pool, c) = {}
  <2>1. Ready(t.pool, c) = Ready(p, c)
    BY <1>1, <1>6, <1>7
  <2> SUFFICES ASSUME Ready(p, c) # {} PROVE FALSE
    BY <2>1
  <2>2. PICK k \in 1 .. N : Leads(p, k) /\ ChatOf[p.order[k]] = c
    BY <1>2, LeadsFacts DEF N
  <2> QED BY <1>1, <1>6, <1>7, <2>2
<1>8. Good(t) /\ t.active = s.active
  BY <1>1, <1>6
<1> QED BY <1>7, <1>8 DEF Awake

-----------------------------------------------------------------------------
(* Runs that end.                                                          *)

(* What is left when the run r is no longer under way.                     *)
Left(s, l, r) ==
  /\ Sound(l) /\ l.pool = s.pool /\ l.saved = s.saved
  /\ \A x : x \in LiveIn(l) <=> x \in LiveIn(s) /\ x # r

(* Without claims by agents, the run r can only be behind the job j.       *)
Behind(p, r, j) ==
  Never("claim") => \A k \in Jobs : p.status[k] = "running" /\ p.run[k] = r => k = j

(* A run ends and no job was waiting for it.                               *)
LEMMA LeftAlone ==
  ASSUME NEW s, Good(s), NEW l, NEW r, Left(s, l, r), NEW j, Behind(s.pool, r, j),
         j \notin With(s.pool, "running")
  PROVE  Good(l)
<1>1. PoolOK(s.pool) /\ Sound(l)
  BY DEF Good, Sound, Left
<1>2. Calm(s.pool, l.pool, {})
  BY <1>1 DEF Calm, Left
<1>3. CalmStep(s, l, {})
  BY <1>2 DEF CalmStep, Left, Behind, With
<1> QED BY <1>1, <1>3, GoodPool

(* A run ends and its job is settled.                                      *)
LEMMA LeftSettled ==
  ASSUME NEW s, Good(s), NEW l, NEW r, Left(s, l, r), NEW j, Behind(s.pool, r, j),
         j \in With(s.pool, "running"), NEW st \in Ended,
         Orderly => s.pool.run[j] = r,
         NEW t, t = Persist(l, Settle(s.pool, j, st))
  PROVE  Good(t) /\ t.active = l.active /\ t.drain = l.drain /\ t.pool = Settle(s.pool, j, st)
<1> DEFINE q == Settle(s.pool, j, st)
<1>1. PoolOK(s.pool) /\ Sound(l) /\ l \in States /\ j \in Open(s.pool) /\ j \in Jobs
  BY DEF Good, Sound, Left, Open, With
<1>2. Calm(s.pool, q, {j})
  BY <1>1, SettleCalm
<1>3. PoolOK(q) /\ q \in Pools
  BY <1>2 DEF Calm, PoolOK
<1> HIDE DEF q
<1>4. /\ t \in States /\ t.pool = q /\ t.saved = q
      /\ t.drain = l.drain /\ t.active = l.active /\ t.claims = l.claims
  BY <1>1, <1>3, PersistFacts DEF q
<1>5. Sound(t) /\ LiveIn(t) = LiveIn(l)
  BY <1>1, <1>3, <1>4, SoundPool
<1>6. ASSUME Orderly, NEW x \in LiveIn(t) PROVE x.job \notin {j}
  <2>1. x \in LiveIn(s) /\ x # r
    BY <1>5 DEF Left
  <2>2. s.pool.run[x.job] = x
    BY <1>6, <2>1 DEF Good, Counted
  <2> QED BY <1>6, <2>1, <2>2
<1>7. CalmStep(s, t, {j})
  BY <1>2, <1>4, <1>5, <1>6 DEF CalmStep, Left, Behind
<1> QED BY <1>4, <1>5, <1>7, GoodPool DEF q

(* cancel: the job is over; a run it had goes on.                          *)
LEMMA CancelFacts ==
  ASSUME NEW s, Good(s), ~Never("cancel"), NEW j \in Open(s.pool),
         NEW t, t = Persist(s, Settle(s.pool, j, "cancelled"))
  PROVE  /\ Good(t) /\ t.active = s.active /\ t.drain = s.drain
         /\ \A c : Ready(t.pool, c) \subseteq Ready(s.pool, c)
<1> DEFINE q == Settle(s.pool, j, "cancelled")
<1>1. PoolOK(s.pool) /\ Sound(s) /\ s \in States /\ "cancelled" \in Ended
  BY DEF Good, Sound, Ended
<1>2. Calm(s.pool, q, {j})
  BY <1>1, SettleCalm
<1>3. PoolOK(q) /\ q \in Pools
  BY <1>2 DEF Calm, PoolOK
<1>4. \A c : Ready(q, c) \subseteq Ready(s.pool, c)
  BY <1>1, SettleFacts
<1> HIDE DEF q
<1>5. /\ t \in States /\ t.pool = q /\ t.saved = q
      /\ t.drain = s.drain /\ t.active = s.active /\ t.claims = s.claims
  BY <1>1, <1>3, PersistFacts DEF q
<1>6. Sound(t) /\ LiveIn(t) = LiveIn(s)
  BY <1>1, <1>3, <1>5, SoundPool
<1>7. CalmStep(s, t, {j})
  BY <1>2, <1>5, <1>6 DEF CalmStep, Orderly
<1> QED BY <1>4, <1>5, <1>6, <1>7, GoodPool

(* A calm change of the pool that is stored.                               *)
LEMMA StoredFacts ==
  ASSUME NEW s, Good(s), NEW q, Calm(s.pool, q, {}), NEW t, t = Persist(s, q)
  PROVE  Good(t) /\ t.active = s.active /\ t.drain = s.drain /\ t.pool = q
<1>1. Sound(s) /\ s \in States /\ PoolOK(q) /\ q \in Pools
  BY DEF Good, Sound, Calm, PoolOK
<1>2. /\ t \in States /\ t.pool = q /\ t.saved = q
      /\ t.drain = s.drain /\ t.active = s.active /\ t.claims = s.claims
  BY <1>1, PersistFacts
<1>3. Sound(t) /\ LiveIn(t) = LiveIn(s)
  BY <1>1, <1>2, SoundPool
<1>4. CalmStep(s, t, {})
  BY <1>2, <1>3 DEF CalmStep
<1> QED BY <1>2, <1>3, <1>4, GoodPool

(* A change by hand that is stored.  A job it makes run is one the user    *)
(* took.                                                                   *)
LEMMA HandFacts ==
  ASSUME NEW s, Good(s), ~Untouched, NEW q, PoolOK(q),
         Never("claim") => \A k \in Jobs : q.status[k] = "running" =>
           \/ q.run[k] = UserRun
           \/ s.pool.status[k] = "running" /\ q.run[k] = s.pool.run[k],
         NEW t, t = Persist(s, q)
  PROVE  Good(t) /\ t.active = s.active /\ t.drain = s.drain /\ t.pool = q
<1>1. Sound(s) /\ s \in States /\ q \in Pools
  BY DEF Good, Sound, PoolOK
<1>2. /\ t \in States /\ t.pool = q /\ t.saved = q
      /\ t.drain = s.drain /\ t.active = s.active /\ t.claims = s.claims
  BY <1>1, PersistFacts
<1>3. Sound(t) /\ LiveIn(t) = LiveIn(s)
  BY <1>1, <1>2, SoundPool
<1>4. Backed(t)
  BY <1>2, <1>3 DEF Good, Backed, With
<1> QED BY <1>2, <1>3, <1>4, GoodByHand

(* A drain of one chat wakes the queue if only that chat could be asleep.  *)
LEMMA DrainAwake ==
  ASSUME NEW s, Good(s), NEW c \in Chats, NEW t, t = DrainChat(s, c),
         Never("edit"), Never("claim"),
         Still(s) => \/ ChatLimit = 0 \/ GlobalLimit = 0
                     \/ \A x \in Chats \ {c} : Ready(s.pool, x) = {}
  PROVE  Awake(t)
<1>0. Still(t) => /\ Still(s) /\ Claimable(s, c) = NoJob
                  /\ \A x : Ready(t.pool, x) = Ready(s.pool, x)
  BY DrainFacts
<1> SUFFICES ASSUME Still(t), ChatLimit # 0, GlobalLimit # 0, NEW x \in Chats
             PROVE  Ready(t.pool, x) = {}
  BY DEF Awake
<1>1. Still(s) /\ Claimable(s, c) = NoJob /\ Ready(t.pool, x) = Ready(s.pool, x)
  BY <1>0
<1>2. Ready(s.pool, c) = {}
  BY <1>1, ClaimableFacts
<1> QED BY <1>1, <1>2

-----------------------------------------------------------------------------
(* The actions.                                                            *)

(* State gathers the variables of the pool and of the runs.                *)
LEMMA StateFields ==
  /\ State.pool = pool /\ State.saved = saved /\ State.drain = drain
  /\ State.active = active /\ State.claims = claims
BY DEF State

(* Become takes the variables to a state.                                  *)
LEMMA BecomeFacts ==
  ASSUME NEW t, Lands(t), Become(t)
  PROVE  Lands(State)' /\ active' = t.active
<1>1. t \in States
  BY DEF Lands, Good, Sound
<1>2. /\ pool' = t.pool /\ saved' = t.saved /\ drain' = t.drain
      /\ active' = t.active /\ claims' = t.claims
  BY DEF Become
<1>3. [pool |-> pool', saved |-> saved', drain |-> drain', active |-> active', claims |-> claims'] = t
  BY <1>1, <1>2 DEF States
<1>4. State' = t
  BY <1>3 DEF State
<1>5. Lands(State')
  BY <1>4
<1> QED BY <1>2, <1>5

(* An event of a kind that never happens does not happen.                  *)
LEMMA SpendFacts ==
  ASSUME spent \in [Kinds -> Nat], NEW k \in Kinds, Spend(k)
  PROVE  ~Never(k) /\ spent' \in [Kinds -> Nat]
<1>1. spent[k] \in Nat /\ Allowed[k] \in Nat /\ spent[k] < Allowed[k]
  BY QueueAssumption DEF Spend
<1>2. ~Never(k)
  BY <1>1 DEF Never
<1>3. spent' \in [Kinds -> Nat]
  BY <1>1 DEF Spend
<1> QED BY <1>2, <1>3

(* managerEnqueue                                                          *)
LEMMA EnqueueStep ==
  ASSUME Lands(State), NEW j \in Jobs, NEW ds \in SUBSET Jobs, NEW pr \in Priorities,
         Enqueue(j, ds, pr)
  PROVE  \E t : Lands(t) /\ Become(t) /\ t.active = active
<1> DEFINE s == State
           q == Push(pool, j, ds, pr)
           u == Persist(s, q)
           c == ChatOf[j]
           t == DrainChat(u, c)
<1>1. /\ Good(s) /\ s.pool = pool /\ s.active = active /\ PoolOK(pool) /\ c \in Chats /\ pr \in Nat
  BY StateFields, QueueAssumption DEF Lands, Good, Sound
<1>2. pool.status[j] = "new" /\ ds \subseteq Present(pool) /\ Become(t)
  BY DEF Enqueue
<1> HIDE DEF s
<1>3. Calm(pool, q, {}) /\ \A x \in Chats : x # c => Ready(q, x) = Ready(pool, x)
  BY <1>1, <1>2, PushFacts
<1> HIDE DEF q
<1>4. Good(u) /\ u.active = s.active /\ u.drain = s.drain /\ u.pool = q
  BY <1>1, <1>3, StoredFacts
<1> HIDE DEF u, c
<1>5. Good(t) /\ t.active = u.active
  BY <1>1, <1>4, DrainFacts
<1>6. ASSUME Undisturbed PROVE Awake(t)
  <2>1. Still(u) => \/ ChatLimit = 0 \/ GlobalLimit = 0
                    \/ \A x \in Chats \ {c} : Ready(u.pool, x) = {}
    <3> SUFFICES ASSUME Still(u), ChatLimit # 0, GlobalLimit # 0, NEW x \in Chats \ {c}
                 PROVE  Ready(u.pool, x) = {}
      OBVIOUS
    <3>1. Still(s)
      BY <1>4 DEF Still
    <3>2. Ready(pool, x) = {}
      BY <1>1, <1>6, <3>1 DEF Lands, Awake, s
    <3> QED BY <1>3, <1>4, <3>2
  <2> QED BY <1>1, <1>4, <1>6, <2>1, DrainAwake DEF Undisturbed
<1> HIDE DEF t
<1> QED BY <1>1, <1>2, <1>4, <1>5, <1>6 DEF Lands

(* managerCancel                                                           *)
LEMMA CancelStep ==
  ASSUME Lands(State), spent \in [Kinds -> Nat], NEW j \in Jobs, CancelJob(j)
  PROVE  \E t : Lands(t) /\ Become(t) /\ t.active = active
<1> DEFINE s == State
           u == IF pool.status[j] \in {"queued", "running"}
                THEN Persist(State, Settle(pool, j, "cancelled")) ELSE State
           c == ChatOf[j]
           t == DrainChat(u, c)
<1>1. /\ Good(s) /\ s.pool = pool /\ s.active = active /\ c \in Chats
  BY StateFields, QueueAssumption DEF Lands, Good, Sound
<1>2. ~Never("cancel") /\ Become(t)
  BY SpendFacts DEF CancelJob, Kinds
<1>3. /\ Good(u) /\ u.active = s.active /\ u.drain = s.drain
      /\ \A x : Ready(u.pool, x) \subseteq Ready(pool, x)
  <2>1. CASE pool.status[j] \in {"queued", "running"}
    <3>1. j \in Open(s.pool) /\ u = Persist(s, Settle(s.pool, j, "cancelled"))
      BY <1>1, <2>1 DEF Open
    <3> HIDE DEF s, u
    <3> QED BY <1>1, <1>2, <3>1, CancelFacts
  <2>2. CASE pool.status[j] \notin {"queued", "running"}
    <3>1. u = s
      BY <2>2
    <3> QED BY <1>1, <3>1
  <2> QED BY <2>1, <2>2
<1> HIDE DEF u, c
<1>4. Good(t) /\ t.active = u.active
  BY <1>1, <1>3, DrainFacts
<1>5. ASSUME Undisturbed PROVE Awake(t)
  <2>1. Still(u) => \/ ChatLimit = 0 \/ GlobalLimit = 0
                    \/ \A x \in Chats \ {c} : Ready(u.pool, x) = {}
    <3> SUFFICES ASSUME Still(u), ChatLimit # 0, GlobalLimit # 0, NEW x \in Chats \ {c}
                 PROVE  Ready(u.pool, x) = {}
      OBVIOUS
    <3>1. Still(s)
      BY <1>3 DEF Still
    <3>2. Ready(pool, x) = {}
      BY <1>1, <1>5, <3>1 DEF Lands, Awake
    <3> QED BY <1>3, <3>2
  <2> QED BY <1>1, <1>3, <1>5, <2>1, DrainAwake DEF Undisturbed
<1> HIDE DEF t
<1> QED BY <1>1, <1>2, <1>3, <1>4, <1>5 DEF Lands

(* Where nothing becomes ready, the queue stays awake.                     *)
LEMMA StaysAwake ==
  ASSUME NEW s, Awake(s), NEW t, t.active = s.active, t.drain = s.drain,
         \A c \in Chats : Ready(t.pool, c) \subseteq Ready(s.pool, c)
  PROVE  Awake(t)
<1>1. Still(t) => Still(s)
  BY DEF Still
<1> QED BY <1>1 DEF Awake

(* managerReprioritize                                                     *)
LEMMA ReprioritizeStep ==
  ASSUME Lands(State), NEW j \in Jobs, NEW pr \in Priorities, Reprioritize(j, pr)
  PROVE  \E t : Lands(t) /\ Become(t) /\ t.active = active
<1> DEFINE s == State
           q == [pool EXCEPT !.prio[j] = pr]
           t == Persist(s, q)
<1>1. Good(s) /\ s.pool = pool /\ s.active = active /\ PoolOK(pool) /\ pr \in Nat /\ Become(t)
  BY StateFields, QueueAssumption DEF Lands, Good, Sound, Reprioritize
<1>2. Calm(pool, q, {}) /\ \A c : Ready(q, c) = Ready(pool, c)
  BY <1>1, PriorityFacts
<1>3. Undisturbed => Awake(s)
  BY DEF Lands
<1> HIDE DEF q, s
<1>4. Good(t) /\ t.active = s.active /\ t.drain = s.drain /\ t.pool = q
  BY <1>1, <1>2, StoredFacts
<1> HIDE DEF t
<1>5. Undisturbed => Awake(t)
  BY <1>1, <1>2, <1>3, <1>4, StaysAwake
<1> QED BY <1>1, <1>4, <1>5 DEF Lands

(* managerReorder                                                          *)
LEMMA ReorderStep ==
  ASSUME Lands(State), NEW j \in Jobs, NEW k \in Jobs, Reorder(j, k)
  PROVE  \E t : Lands(t) /\ Become(t) /\ t.active = active
<1> DEFINE s == State
           to == CHOOSE x \in DOMAIN pool.order : pool.order[x] = k
           q == PutAt(pool, j, to)
           t == Persist(s, q)
<1>1. /\ Good(s) /\ s.pool = pool /\ s.active = active /\ PoolOK(pool) /\ Become(t)
      /\ j \in Present(pool) /\ k \in Present(pool)
  BY StateFields, QueueAssumption DEF Lands, Good, Sound, Reorder, Present, Statuses, PutAt
<1>2. to \in 1 .. Len(pool.order)
  <2>1. DOMAIN pool.order = 1 .. Len(pool.order)
    BY <1>1, LenProperties DEF PoolOK, Pools
  <2>2. \E x \in DOMAIN pool.order : pool.order[x] = k
    BY <1>1, <2>1 DEF PoolOK, ArrayOK
  <2> QED BY <2>1, <2>2
<1> HIDE DEF to
<1>3. Calm(pool, q, {}) /\ \A c : Ready(q, c) = Ready(pool, c)
  BY <1>1, <1>2, ReorderFacts
<1>4. Undisturbed => Awake(s)
  BY DEF Lands
<1> HIDE DEF q, s
<1>5. Good(t) /\ t.active = s.active /\ t.drain = s.drain /\ t.pool = q
  BY <1>1, <1>3, StoredFacts
<1> HIDE DEF t
<1>6. Undisturbed => Awake(t)
  BY <1>1, <1>3, <1>4, <1>5, StaysAwake
<1> QED BY <1>1, <1>5, <1>6 DEF Lands

(* A conversation is deleted.                                              *)
LEMMA RemoveChatStep ==
  ASSUME Lands(State), spent \in [Kinds -> Nat], NEW c \in Chats, RemoveChat(c)
  PROVE  \E t : Lands(t) /\ Become(t) /\ t.active = active
<1> DEFINE s == State
           out == {j \in Present(pool) : ChatOf[j] = c}
           q == Without(pool, out)
           t == Persist(s, q)
<1>1. /\ Good(s) /\ s.pool = pool /\ s.active = active /\ PoolOK(pool) /\ Become(t)
  BY StateFields DEF Lands, Good, Sound, RemoveChat
<1>2. ~Untouched
  BY SpendFacts DEF RemoveChat, Kinds, Untouched
<1>3. out \in SUBSET Present(pool) /\ out \subseteq Jobs
  BY DEF Present
<1> HIDE DEF out
<1>4. /\ PoolOK(q)
      /\ \A j \in Jobs \ out : /\ q.status[j] = pool.status[j] /\ q.run[j] = pool.run[j]
                               /\ q.deps[j] = pool.deps[j] /\ q.prio[j] = pool.prio[j]
      /\ \A j \in out : q.status[j] = "gone" /\ q.run[j] = NoRun /\ q.deps[j] = {}
  BY <1>1, <1>3, WithoutFacts
<1>5. Undisturbed => Awake(s)
  BY DEF Lands
<1> HIDE DEF q, s
<1>6. Never("claim") => \A k \in Jobs : q.status[k] = "running" =>
        \/ q.run[k] = UserRun
        \/ s.pool.status[k] = "running" /\ q.run[k] = s.pool.run[k]
  BY <1>1, <1>4
<1>7. Good(t) /\ t.active = s.active /\ t.drain = s.drain /\ t.pool = q
  BY <1>1, <1>2, <1>4, <1>6, HandFacts
<1>8. ASSUME NEW x \in Chats PROVE Ready(q, x) \subseteq Ready(pool, x)
  <2> SUFFICES ASSUME NEW j \in Ready(q, x) PROVE j \in Ready(pool, x)
    OBVIOUS
  <2>1. j \in Jobs /\ q.status[j] = "queued" /\ ChatOf[j] = x
        /\ \A d \in q.deps[j] : q.status[d] = "completed"
    BY DEF Ready, With
  <2>2. j \notin out
    BY <1>4, <2>1
  <2>3. pool.deps[j] \in SUBSET Jobs
    BY <1>1, <2>1 DEF PoolOK, Pools
  <2>4. \A d \in pool.deps[j] : pool.status[d] = "completed"
    BY <1>4, <2>1, <2>2, <2>3
  <2> QED BY <1>4, <2>1, <2>2, <2>4 DEF Ready, With
<1> HIDE DEF t
<1>9. Undisturbed => Awake(t)
  BY <1>1, <1>5, <1>7, <1>8, StaysAwake
<1> QED BY <1>1, <1>7, <1>9 DEF Lands

(* A run beside the queue.                                                 *)
LEMMA DirectStep ==
  ASSUME Lands(State), spent \in [Kinds -> Nat], NEW c \in Chats, DirectRun(c)
  PROVE  Lands(State)' /\ active \subseteq active'
<1> DEFINE s == State
           r == [chat |-> c, job |-> NoJob, n |-> spent["direct"] + 1]
           a == active \cup {r}
           t == [pool |-> pool, saved |-> saved, drain |-> drain, active |-> a, claims |-> claims]
<1>1. /\ Good(s) /\ s.pool = pool /\ s.saved = saved /\ s.drain = drain /\ s.active = active
      /\ s.claims = claims /\ s \in States
  BY StateFields DEF Lands, Good, Sound
<1>2. r \in Runs /\ r.job = NoJob
  BY DEF Runs, Kinds
<1>3. /\ pool' = pool /\ saved' = saved /\ drain' = drain /\ active' = a /\ claims' = claims
  BY DEF DirectRun
<1> HIDE DEF s, r
<1>4. a \in SUBSET Runs
  BY <1>1, <1>2 DEF States
<1> HIDE DEF a
<1>5. /\ t \in States /\ t.pool = pool /\ t.saved = saved /\ t.drain = drain /\ t.active = a
      /\ t.claims = claims
  BY <1>1, <1>4 DEF States
<1>6. Good(t)
  BY <1>1, <1>2, <1>5, DirectFacts DEF a
<1>7. ~Still(t)
  BY <1>5 DEF Still, a
<1>8. Lands(t)
  BY <1>6, <1>7 DEF Lands, Awake
<1>9. Become(t)
  BY <1>3, <1>5 DEF Become
<1> HIDE DEF t
<1>10. active \subseteq active'
  BY <1>3 DEF a
<1> QED BY <1>8, <1>9, <1>10, BecomeFacts

(* A change by hand lands: the queue promises less then.                   *)
LEMMA HandStep ==
  ASSUME Lands(State), ~Never("edit") \/ ~Never("claim"), NEW q, PoolOK(q),
         Never("claim") => \A k \in Jobs : q.status[k] = "running" =>
           \/ q.run[k] = UserRun
           \/ pool.status[k] = "running" /\ q.run[k] = pool.run[k],
         NEW t, t = Persist(State, q)
  PROVE  Lands(t) /\ t.active = active
<1>1. Good(State) /\ State.pool = pool /\ State.active = active
  BY StateFields DEF Lands
<1>2. ~Untouched /\ ~Undisturbed
  BY DEF Untouched, Undisturbed
<1>3. Never("claim") => \A k \in Jobs : q.status[k] = "running" =>
           \/ q.run[k] = UserRun
           \/ State.pool.status[k] = "running" /\ q.run[k] = State.pool.run[k]
  BY <1>1
<1>4. Good(t) /\ t.active = State.active
  BY <1>1, <1>2, <1>3, HandFacts
<1> QED BY <1>1, <1>2, <1>4 DEF Lands

(* The task board: the change is stored, and nothing is drained.           *)
LEMMA CardStep ==
  ASSUME Lands(State), spent \in [Kinds -> Nat], CardHandler
  PROVE  \E t : Lands(t) /\ Become(t) /\ t.active = active
<1>1. /\ PoolOK(pool) /\ active \subseteq Runs
      /\ NoRun \notin Runs /\ UserRun \notin Runs /\ NoRun # UserRun
  BY StateFields, QueueAssumption DEF Lands, Good, Sound, States
<1>2. {"edit", "claim"} \subseteq Kinds
  BY DEF Kinds
<1>3. ASSUME NEW j \in Jobs, CreateCard(j) PROVE \E t : Lands(t) /\ Become(t) /\ t.active = active
  <2> DEFINE q == Push(pool, j, {}, 1)
             t == Persist(State, q)
  <2>1. pool.status[j] = "new" /\ ~Never("edit") /\ Become(t)
    BY <1>2, <1>3, SpendFacts DEF CreateCard
  <2>2. Calm(pool, q, {})
    BY <1>1, <2>1, PushFacts
  <2> HIDE DEF q
  <2>3. /\ PoolOK(q) /\ \A k \in Jobs : q.status[k] = "running" =>
             pool.status[k] = "running" /\ q.run[k] = pool.run[k]
    BY <2>2 DEF Calm
  <2>4. Lands(t) /\ t.active = active
    BY <2>1, <2>3, HandStep
  <2> HIDE DEF t
  <2> QED BY <2>1, <2>4
<1>4. ASSUME NEW j \in Jobs, NEW to \in {"todo", "in_progress", "done"}, MoveCard(j, to)
      PROVE \E t : Lands(t) /\ Become(t) /\ t.active = active
  <2> DEFINE q == Moved(pool, j, to, UserRun)
             t == Persist(State, q)
  <2>1. j \in Present(pool) /\ ~Never("edit") /\ Become(t)
    BY <1>2, <1>4, SpendFacts DEF MoveCard
  <2>2. /\ PoolOK(q)
        /\ q.status[j] = "running" => to = "in_progress" /\ q.run[j] = UserRun
        /\ \A k \in Jobs \ {j} : q.status[k] = pool.status[k] /\ q.run[k] = pool.run[k]
    BY <1>1, <2>1, MovedFacts
  <2> HIDE DEF q
  <2>3. \A k \in Jobs : q.status[k] = "running" =>
           \/ q.run[k] = UserRun
           \/ pool.status[k] = "running" /\ q.run[k] = pool.run[k]
    BY <2>2
  <2>4. Lands(t) /\ t.active = active
    BY <2>1, <2>2, <2>3, HandStep
  <2> HIDE DEF t
  <2> QED BY <2>1, <2>4
<1>5. ASSUME NEW j \in Jobs, NEW r \in active, ClaimCard(j, r)
      PROVE \E t : Lands(t) /\ Become(t) /\ t.active = active
  <2> DEFINE q == Moved(pool, j, "in_progress", r)
             t == Persist(State, q)
  <2>1. j \in Present(pool) /\ ~Never("claim") /\ r.chat = ChatOf[j] /\ Become(t)
    BY <1>2, <1>5, SpendFacts DEF ClaimCard, Present, Statuses
  <2>2. PoolOK(q)
    BY <1>1, <2>1, MovedFacts
  <2> HIDE DEF q
  <2>3. Lands(t) /\ t.active = active
    BY <2>1, <2>2, HandStep
  <2> HIDE DEF t
  <2> QED BY <2>1, <2>3
<1>6. ASSUME NEW j \in Jobs, NEW r \in active, CompleteCard(j, r)
      PROVE \E t : Lands(t) /\ Become(t) /\ t.active = active
  <2> DEFINE q == Moved(pool, j, "done", r)
             t == Persist(State, q)
  <2>1. j \in Present(pool) /\ ~Never("edit") /\ r.chat = ChatOf[j] /\ Become(t)
    BY <1>2, <1>6, SpendFacts DEF CompleteCard
  <2>2. /\ PoolOK(q)
        /\ q.status[j] = "running" => "done" = "in_progress" /\ q.run[j] = r
        /\ \A k \in Jobs \ {j} : q.status[k] = pool.status[k] /\ q.run[k] = pool.run[k]
    BY <1>1, <2>1, MovedFacts
  <2> HIDE DEF q
  <2>3. \A k \in Jobs : q.status[k] = "running" =>
           \/ q.run[k] = UserRun
           \/ pool.status[k] = "running" /\ q.run[k] = pool.run[k]
    BY <2>2
  <2>4. Lands(t) /\ t.active = active
    BY <2>1, <2>2, <2>3, HandStep
  <2> HIDE DEF t
  <2> QED BY <2>1, <2>4
<1>7. ASSUME NEW j \in Jobs, RemoveCard(j) PROVE \E t : Lands(t) /\ Become(t) /\ t.active = active
  <2> DEFINE q == Without(pool, {j})
             t == Persist(State, q)
  <2>1. {j} \in SUBSET Present(pool) /\ ~Never("edit") /\ Become(t)
    BY <1>2, <1>7, SpendFacts DEF RemoveCard
  <2>2. /\ PoolOK(q)
        /\ \A k \in Jobs \ {j} : q.status[k] = pool.status[k] /\ q.run[k] = pool.run[k]
        /\ q.status[j] = "gone"
    BY <1>1, <2>1, WithoutFacts
  <2> HIDE DEF q
  <2>3. \A k \in Jobs : q.status[k] = "running" =>
           \/ q.run[k] = UserRun
           \/ pool.status[k] = "running" /\ q.run[k] = pool.run[k]
    BY <2>2
  <2>4. Lands(t) /\ t.active = active
    BY <2>1, <2>2, <2>3, HandStep
  <2> HIDE DEF t
  <2> QED BY <2>1, <2>4
<1> QED BY <1>3, <1>4, <1>5, <1>6, <1>7 DEF CardHandler

(* #startRun resolved.                                                     *)
LEMMA StartSucceedsStep ==
  ASSUME Lands(State), NEW c \in Chats, StartSucceeds(c)
  PROVE  \E t : Lands(t) /\ Become(t) /\ active \subseteq t.active
<1> DEFINE s == State
           u == [s EXCEPT !.active = @ \cup {s.drain[c]}, !.drain[c] = NoRun]
           t == DrainChat(u, c)
<1>1. Good(s) /\ s.active = active /\ s.drain = drain /\ drain[c] # NoRun
  BY StateFields DEF Lands, StartSucceeds
<1>2. Become(t)
  BY <1>1 DEF StartSucceeds
<1> HIDE DEF s
<1>3. Good(u) /\ u.active # {}
  BY <1>1, StartedFacts
<1>4. active \subseteq u.active
  <2>1. s \in States
    BY <1>1 DEF Good, Sound
  <2> QED BY <1>1, <2>1 DEF States
<1> HIDE DEF u
<1>5. Good(t) /\ t.active = u.active
  BY <1>3, DrainFacts
<1> HIDE DEF t
<1>6. Awake(t)
  BY <1>3, <1>5 DEF Awake, Still
<1> QED BY <1>2, <1>4, <1>5, <1>6 DEF Lands

(* Without claims by agents, a run has one job, the one it was made for.   *)
LEMMA RunBehind ==
  ASSUME NEW p, PoolOK(p), NEW r \in Runs
  PROVE  Behind(p, r, r.job)
BY DEF Behind, PoolOK, RunsOK

(* The run of a start that failed is no longer under way.                  *)
LEMMA StartLeft ==
  ASSUME NEW s, Good(s), NEW c \in Chats, s.drain[c] # NoRun,
         NEW l, l = [s EXCEPT !.drain[c] = NoRun]
  PROVE  Left(s, l, s.drain[c]) /\ l.active = s.active /\ l.drain[c] = NoRun
<1>1. s \in States /\ Sound(s) /\ s.drain \in [Chats -> Runs \cup {NoRun}]
  BY DEF Good, Sound, States
<1> DEFINE d == [s.drain EXCEPT ![c] = NoRun]
           r == s.drain[c]
<1>2. d \in [Chats -> Runs \cup {NoRun}] /\ l = [s EXCEPT !.drain = d]
  BY <1>1 DEF States
<1>3. d[c] = NoRun /\ \A x \in Chats \ {c} : d[x] = s.drain[x]
  BY <1>1
<1> HIDE DEF d
<1>4. /\ l \in States /\ l.pool = s.pool /\ l.saved = s.saved /\ l.claims = s.claims
      /\ l.active = s.active /\ l.drain = d
  BY <1>1, <1>2 DEF States
<1>5. Sound(l)
  <2>1. \A x \in Chats : l.drain[x] \in {s.drain[x], NoRun}
    BY <1>3, <1>4
  <2> QED BY <1>1, <1>4, <2>1, SoundFewer
<1>6. r \notin s.active /\ \A x \in Chats \ {c} : s.drain[x] # r
  <2>1. \A x \in Chats : s.drain[x] # NoRun => s.drain[x].chat = x
    BY <1>1 DEF Sound, StartsOK
  <2> QED BY <1>1, <2>1 DEF Sound, FreshOK
<1>7. \A x : x \in LiveIn(s) <=> \/ \E y \in Chats : s.drain[y] = x /\ x # NoRun
                                 \/ x \in s.active /\ x.job # NoJob
  BY <1>1, LiveFacts
<1>8. \A x : x \in LiveIn(l) <=> \/ \E y \in Chats : l.drain[y] = x /\ x # NoRun
                                 \/ x \in l.active /\ x.job # NoJob
  BY <1>5, LiveFacts
<1> HIDE DEF r
<1>9. \A x : x \in LiveIn(l) <=> x \in LiveIn(s) /\ x # r
  <2>1. \A y \in Chats : y # c => d[y] = s.drain[y] /\ s.drain[y] # r
    BY <1>3, <1>6
  <2>2. s.drain[c] = r /\ d[c] = NoRun
    BY <1>3 DEF r
  <2>3. ASSUME NEW x PROVE x \in LiveIn(l) => x \in LiveIn(s) /\ x # r
    <3>1. CASE \E y \in Chats : d[y] = x /\ x # NoRun
      BY <1>7, <2>1, <2>2, <3>1
    <3>2. CASE x \in s.active /\ x.job # NoJob
      BY <1>6, <1>7, <3>2
    <3> QED BY <1>4, <1>8, <3>1, <3>2
  <2>4. ASSUME NEW x, x # r PROVE x \in LiveIn(s) => x \in LiveIn(l)
    <3>1. CASE \E y \in Chats : s.drain[y] = x /\ x # NoRun
      BY <1>4, <1>8, <2>1, <2>2, <2>4, <3>1
    <3>2. CASE x \in s.active /\ x.job # NoJob
      BY <1>4, <1>8, <3>2
    <3> QED BY <1>7, <3>1, <3>2
  <2> QED BY <2>3, <2>4
<1> QED BY <1>3, <1>4, <1>5, <1>9 DEF Left, r

(* The run that ended is no longer under way.                              *)
LEMMA RunLeft ==
  ASSUME NEW s, Good(s), NEW r \in s.active, NEW l, l = [s EXCEPT !.active = @ \ {r}]
  PROVE  Left(s, l, r) /\ l.active = s.active \ {r}
<1>1. s \in States /\ Sound(s) /\ s.active \subseteq Runs
  BY DEF Good, Sound, States
<1> DEFINE a == s.active \ {r}
<1>2. a \in SUBSET Runs /\ a \subseteq s.active /\ l = [s EXCEPT !.active = a]
  BY <1>1 DEF States
<1>3. \A x : x \in a <=> x \in s.active /\ x # r
  OBVIOUS
<1> HIDE DEF a
<1>4. /\ l \in States /\ l.pool = s.pool /\ l.saved = s.saved /\ l.claims = s.claims
      /\ l.active = a /\ l.drain = s.drain
  BY <1>1, <1>2 DEF States
<1>5. Sound(l)
  <2>1. \A x \in Chats : l.drain[x] \in {s.drain[x], NoRun}
    BY <1>4
  <2> QED BY <1>1, <1>2, <1>4, <2>1, SoundFewer
<1>6. \A x \in Chats : s.drain[x] # r
  BY <1>1 DEF Sound, FreshOK
<1>7. \A x : x \in LiveIn(s) <=> \/ \E y \in Chats : s.drain[y] = x /\ x # NoRun
                                 \/ x \in s.active /\ x.job # NoJob
  BY <1>1, LiveFacts
<1>8. \A x : x \in LiveIn(l) <=> \/ \E y \in Chats : l.drain[y] = x /\ x # NoRun
                                 \/ x \in l.active /\ x.job # NoJob
  BY <1>5, LiveFacts
<1>9. \A x : x \in LiveIn(l) <=> x \in LiveIn(s) /\ x # r
  BY <1>3, <1>4, <1>6, <1>7, <1>8
<1> QED BY <1>4, <1>5, <1>9 DEF Left, a

(* #startRun rejected.                                                     *)
LEMMA StartFailsStep ==
  ASSUME Lands(State), spent \in [Kinds -> Nat], NEW c \in Chats, StartFails(c)
  PROVE  \E t : Lands(t) /\ Become(t) /\ t.active = active
<1> DEFINE s == State
           r == drain[c]
           j == drain[c].job
           l == [State EXCEPT !.drain[c] = NoRun]
           u == Persist(l, Settle(pool, j, "failed"))
           t == IF pool.status[j] = "running" THEN DrainChat(u, c) ELSE l
<1>1. /\ Good(s) /\ s.active = active /\ s.drain = drain /\ s.pool = pool /\ r # NoRun
      /\ PoolOK(pool) /\ Sound(s)
  BY StateFields DEF Lands, StartFails, Good, Sound
<1>2. ~Never("fail") /\ Become(t)
  BY SpendFacts DEF StartFails, Kinds
<1>3. r \in Runs /\ r \in LiveIn(s) /\ j \in Jobs
  <2>1. r \in LiveIn(s)
    BY <1>1, LiveFacts
  <2> QED BY <1>1, <2>1, LiveFacts
<1>4. Left(s, l, r) /\ l.active = active
  BY <1>1, StartLeft
<1>5. Behind(pool, r, j)
  BY <1>1, <1>3, RunBehind
<1>6. Orderly => pool.run[j] = r
  BY <1>1, <1>3 DEF Good, Counted
<1>7. "failed" \in Ended
  BY DEF Ended
<1>8. CASE pool.status[j] = "running"
  <2>1. j \in With(pool, "running") /\ t = DrainChat(u, c)
    BY <1>3, <1>8 DEF With
  <2> HIDE DEF s, l, r, j
  <2>2. Good(u) /\ u.active = l.active
    BY <1>1, <1>4, <1>5, <1>6, <1>7, <2>1, LeftSettled
  <2> HIDE DEF u, t
  <2>3. Good(t) /\ t.active = u.active
    BY <2>1, <2>2, DrainFacts
  <2> QED BY <1>2, <1>4, <2>2, <2>3 DEF Lands, Undisturbed
<1>9. CASE pool.status[j] # "running"
  <2>1. j \notin With(pool, "running") /\ t = l
    BY <1>9 DEF With
  <2> HIDE DEF s, l, r, j, u, t
  <2>2. Good(l)
    BY <1>1, <1>4, <1>5, <2>1, LeftAlone
  <2> QED BY <1>2, <1>4, <2>1, <2>2 DEF Lands, Undisturbed
<1> QED BY <1>8, <1>9

(* A run ends.                                                             *)
LEMMA RunEndsStep ==
  ASSUME Lands(State), NEW r \in active, RunEnds(r)
  PROVE  \E t : Lands(t) /\ Become(t) /\ t.active = active \ {r}
<1> PICK st \in Ended :
      LET left == [State EXCEPT !.active = @ \ {r}]
          j == ForRun(pool, r)
      IN  Become(DrainAll(IF j # NoJob /\ pool.status[j] = "running"
                          THEN Persist(left, Settle(pool, j, st)) ELSE left))
  BY DEF RunEnds
<1> DEFINE s == State
           l == [State EXCEPT !.active = @ \ {r}]
           j == ForRun(pool, r)
           w == Persist(l, Settle(pool, j, st))
           u == IF j # NoJob /\ pool.status[j] = "running" THEN w ELSE l
           t == DrainAll(u)
<1>1. /\ Good(s) /\ s.active = active /\ s.pool = pool /\ PoolOK(pool) /\ Sound(s) /\ r \in Runs
  BY StateFields DEF Lands, Good, Sound, States
<1>2. Become(t)
  OBVIOUS
<1>3. Left(s, l, r) /\ l.active = active \ {r}
  BY <1>1, RunLeft
<1>4. IF \E k \in Present(pool) : pool.run[k] = r
      THEN j \in Present(pool) /\ pool.run[j] = r ELSE j = NoJob
  BY <1>1, ForRunFacts
<1>5. Behind(pool, r, r.job)
  BY <1>1, RunBehind
<1>6. Behind(pool, r, j)
  <2> SUFFICES ASSUME Never("claim"), NEW k \in Jobs, pool.status[k] = "running", pool.run[k] = r
               PROVE  k = j
    BY DEF Behind
  <2>1. k \in Present(pool)
    BY DEF Present, Statuses
  <2>2. j \in Jobs /\ pool.run[j] = r
    BY <1>4, <2>1 DEF Present
  <2> QED BY <1>1, <2>2 DEF PoolOK, RunsOK
<1> HIDE DEF j, l, s
<1>7. Good(u) /\ u.active = active \ {r}
  <2>1. CASE j # NoJob /\ pool.status[j] = "running"
    <3>1. j \in With(pool, "running") /\ pool.run[j] = r
      BY <1>4, <2>1 DEF With, Present
    <3>2. Good(w) /\ w.active = l.active
      BY <1>1, <1>3, <1>6, <3>1, LeftSettled
    <3> QED BY <1>3, <2>1, <3>2
  <2>2. CASE ~(j # NoJob /\ pool.status[j] = "running")
    <3>1. j \notin With(pool, "running")
      BY <2>2, QueueAssumption DEF With
    <3>2. Good(l)
      BY <1>1, <1>3, <1>6, <3>1, LeftAlone
    <3> QED BY <1>3, <2>2, <3>2
  <2> QED BY <2>1, <2>2
<1> HIDE DEF u
<1>8. Good(t) /\ t.active = u.active /\ (Never("edit") /\ Never("claim") => Awake(t))
  BY <1>7, DrainAllFacts
<1> HIDE DEF t
<1> QED BY <1>2, <1>7, <1>8 DEF Lands, Undisturbed

(* The process dies and starts again.                                      *)
LEMMA CrashStep ==
  ASSUME Lands(State), Crash
  PROVE  \E t : Lands(t) /\ Become(t)
<1> DEFINE s == State
           p == Recover(saved)
           same == With(saved, "running") = {} /\ Present(p) = Present(saved)
           v == IF same THEN saved ELSE p
           u == [pool |-> p, saved |-> v, drain |-> [c \in Chats |-> NoRun], active |-> {},
                 claims |-> claims]
           t == DrainAll(u)
<1>1. /\ PoolOK(saved) /\ claims \in [Jobs -> Nat] /\ (Untouched => DepsOK(saved))
  BY StateFields DEF Lands, Good, Sound, States, Gated
<1>2. Become(t)
  BY DEF Crash
<1>3. PoolOK(p) /\ With(p, "running") = {} /\ (DepsOK(saved) => DepsOK(p))
  BY <1>1, RecoverFacts
<1> HIDE DEF p, same
<1>4. PoolOK(v) /\ (Untouched => DepsOK(p) /\ DepsOK(v))
  BY <1>1, <1>3
<1> HIDE DEF v
<1>5. Good(u)
  BY <1>1, <1>3, <1>4, RestartFacts
<1> HIDE DEF u
<1>6. Good(t) /\ (Never("edit") /\ Never("claim") => Awake(t))
  BY <1>5, DrainAllFacts
<1> HIDE DEF t
<1> QED BY <1>2, <1>6 DEF Lands, Undisturbed

-----------------------------------------------------------------------------
(* The invariant.                                                          *)

(* It holds of the empty queue.                                            *)
LEMMA InitIInv == Init => IInv
<1> SUFFICES ASSUME Init PROVE IInv
  OBVIOUS
<1> DEFINE p == EmptyPool
           cl == [j \in Jobs |-> 0]
           t == [pool |-> p, saved |-> p, drain |-> [c \in Chats |-> NoRun], active |-> {},
                 claims |-> cl]
<1>1. /\ p.order = <<>> /\ p.status = [j \in Jobs |-> "new"] /\ p.run = [j \in Jobs |-> NoRun]
      /\ p.deps = [j \in Jobs |-> {}] /\ p.prio = [j \in Jobs |-> 0]
      /\ p = [order |-> p.order, status |-> p.status, run |-> p.run, deps |-> p.deps,
              prio |-> p.prio]
  BY DEF EmptyPool
<1>2. State = t
  BY DEF Init, State
<1> HIDE DEF p
<1>3. p \in Pools
  <2>1. p.order \in Seq(Jobs)
    BY <1>1, EmptySeq
  <2>2. p.status \in [Jobs -> Statuses \cup {"new", "gone"}]
    BY <1>1
  <2>3. p.run \in [Jobs -> Runs \cup {NoRun, UserRun}]
    BY <1>1
  <2>4. p.deps \in [Jobs -> SUBSET Jobs] /\ p.prio \in [Jobs -> Nat]
    BY <1>1
  <2> QED BY <1>1, <2>1, <2>2, <2>3, <2>4 DEF Pools
<1>4. Present(p) = {} /\ \A st : st # "new" => With(p, st) = {}
  BY <1>1 DEF Present, With, Statuses, Ended
<1>5. ArrayOK(p)
  <2>1. Len(p.order) = 0
    BY <1>1, EmptySeq
  <2>2. 1 .. Len(p.order) = {}
    BY <2>1
  <2> QED BY <1>4, <2>2 DEF ArrayOK
<1>6. RunsOK(p)
  BY <1>1, QueueAssumption DEF RunsOK
<1>7. PoolOK(p) /\ With(p, "running") = {} /\ DepsOK(p)
  BY <1>3, <1>4, <1>5, <1>6 DEF PoolOK, DepsOK
<1>8. cl \in [Jobs -> Nat]
  OBVIOUS
<1> HIDE DEF cl
<1>9. Good(t)
  BY <1>7, <1>8, RestartFacts
<1>10. \A c : Ready(t.pool, c) = {}
  BY <1>4 DEF Ready
<1> HIDE DEF t
<1>11. Lands(State)
  BY <1>2, <1>9, <1>10 DEF Lands, Awake
<1>12. aborted \subseteq active /\ spent \in [Kinds -> Nat]
  BY DEF Init
<1> QED BY <1>11, <1>12 DEF IInv

(* Every step keeps it.                                                    *)
LEMMA NextIInv == IInv /\ [Next]_vars => IInv'
<1> SUFFICES ASSUME IInv, [Next]_vars PROVE IInv'
  OBVIOUS
<1>1. Lands(State) /\ aborted \subseteq active /\ spent \in [Kinds -> Nat]
  BY DEF IInv
<1>2. ASSUME \E t : Lands(t) /\ Become(t) /\ t.active = active,
             aborted' \subseteq active, spent' \in [Kinds -> Nat]
      PROVE  IInv'
  BY <1>2, BecomeFacts DEF IInv
<1>k. \A k \in Kinds : Spend(k) => spent' \in [Kinds -> Nat]
  BY <1>1, SpendFacts
<1>s. {"cancel", "fail", "edit", "claim", "reorder", "direct", "remove", "crash"} \subseteq Kinds
  BY DEF Kinds
<1>3. CASE Handler
  <2>1. ASSUME NEW j \in Jobs, NEW ds \in SUBSET Jobs, NEW pr \in Priorities, Enqueue(j, ds, pr)
        PROVE  IInv'
    <3>1. aborted' = aborted /\ spent' = spent
      BY <2>1 DEF Enqueue
    <3> QED BY <1>1, <1>2, <2>1, <3>1, EnqueueStep
  <2>2. ASSUME NEW j \in Jobs, CancelJob(j) PROVE IInv'
    <3>1. aborted' \subseteq active /\ spent' \in [Kinds -> Nat]
      BY <1>1, <1>k, <1>s, <2>2 DEF CancelJob
    <3> QED BY <1>1, <1>2, <2>2, <3>1, CancelStep
  <2>3. ASSUME NEW j \in Jobs, NEW pr \in Priorities, Reprioritize(j, pr) PROVE IInv'
    <3>1. aborted' = aborted /\ spent' \in [Kinds -> Nat]
      BY <1>k, <1>s, <2>3 DEF Reprioritize
    <3> QED BY <1>1, <1>2, <2>3, <3>1, ReprioritizeStep
  <2>4. ASSUME NEW j \in Jobs, NEW k \in Jobs, Reorder(j, k) PROVE IInv'
    <3>1. aborted' = aborted /\ spent' \in [Kinds -> Nat]
      BY <1>k, <1>s, <2>4 DEF Reorder
    <3> QED BY <1>1, <1>2, <2>4, <3>1, ReorderStep
  <2>5. ASSUME NEW c \in Chats, RemoveChat(c) PROVE IInv'
    <3>1. aborted' = aborted /\ spent' \in [Kinds -> Nat]
      BY <1>k, <1>s, <2>5 DEF RemoveChat
    <3> QED BY <1>1, <1>2, <2>5, <3>1, RemoveChatStep
  <2>6. ASSUME NEW c \in Chats, DirectRun(c) PROVE IInv'
    <3>1. aborted' = aborted /\ spent' \in [Kinds -> Nat]
      BY <1>k, <1>s, <2>6 DEF DirectRun
    <3>2. Lands(State)' /\ active \subseteq active'
      BY <1>1, <2>6, DirectStep
    <3> QED BY <1>1, <3>1, <3>2 DEF IInv
  <2> QED BY <1>3, <2>1, <2>2, <2>3, <2>4, <2>5, <2>6 DEF Handler
<1>4. CASE CardHandler
  <2>1. aborted' = aborted /\ spent' \in [Kinds -> Nat]
    BY <1>k, <1>s, <1>4 DEF CardHandler, CreateCard, MoveCard, ClaimCard, CompleteCard, RemoveCard
  <2> QED BY <1>1, <1>2, <1>4, <2>1, CardStep
<1>5. CASE Crash
  <2>1. aborted' = {} /\ spent' \in [Kinds -> Nat]
    BY <1>k, <1>s, <1>5 DEF Crash
  <2>2. Lands(State)'
    BY <1>1, <1>5, CrashStep, BecomeFacts
  <2> QED BY <2>1, <2>2 DEF IInv
<1>6. ASSUME NEW c \in Chats, StartReturns(c) PROVE IInv'
  <2>1. CASE StartSucceeds(c)
    <3>1. aborted' = aborted /\ spent' = spent
      BY <2>1 DEF StartSucceeds
    <3>2. PICK t : Lands(t) /\ Become(t) /\ active \subseteq t.active
      BY <1>1, <2>1, StartSucceedsStep
    <3>3. Lands(State)' /\ active' = t.active
      BY <3>2, BecomeFacts
    <3> QED BY <1>1, <3>1, <3>2, <3>3 DEF IInv
  <2>2. CASE StartFails(c)
    <3>1. aborted' = aborted /\ spent' \in [Kinds -> Nat]
      BY <1>k, <1>s, <2>2 DEF StartFails
    <3> QED BY <1>1, <1>2, <2>2, <3>1, StartFailsStep
  <2> QED BY <1>6, <2>1, <2>2 DEF StartReturns
<1>7. ASSUME NEW r \in active, RunEnds(r) PROVE IInv'
  <2>1. aborted' = aborted \ {r} /\ spent' = spent
    BY <1>7 DEF RunEnds
  <2>2. PICK t : Lands(t) /\ Become(t) /\ t.active = active \ {r}
    BY <1>1, <1>7, RunEndsStep
  <2>3. Lands(State)' /\ active' = t.active
    BY <2>2, BecomeFacts
  <2> QED BY <1>1, <2>1, <2>2, <2>3 DEF IInv
<1>8. CASE UNCHANGED vars
  <2>1. /\ pool' = pool /\ saved' = saved /\ drain' = drain /\ active' = active /\ claims' = claims
        /\ aborted' = aborted /\ spent' = spent
    BY <1>8 DEF vars
  <2>2. State' = State
    BY <2>1 DEF State
  <2>3. Lands(State')
    BY <1>1, <2>2
  <2> QED BY <1>1, <2>1, <2>3 DEF IInv
<1> QED BY <1>3, <1>4, <1>5, <1>6, <1>7, <1>8 DEF Next, SomeRunEnds

(* The inductive invariant holds in every state, in every history: the     *)
(* store and its copy are well-formed, every chat has room for the start   *)
(* it awaits, and the parts that need a quieter history hold in one.       *)
THEOREM InvariantHolds == Spec => []IInv
<1>1. Init => IInv
  BY InitIInv
<1>2. IInv /\ [Next]_vars => IInv'
  BY NextIInv
<1> QED BY <1>1, <1>2, PTL DEF Spec

-----------------------------------------------------------------------------
(* What it says.                                                           *)

(* Live is LiveIn of the variables.                                        *)
LEMMA LiveIsLiveIn == Live = LiveIn(State)
BY StateFields DEF Live, LiveIn

(* What TypeOK asks of a pool.                                             *)
LEMMA PoolTypes ==
  ASSUME NEW p, PoolOK(p)
  PROVE  /\ p.status \in [Jobs -> Statuses \cup {"new", "gone"}]
         /\ ToSet(p.order) = Present(p) /\ Len(p.order) = Cardinality(Present(p))
         /\ \A j \in Jobs : /\ p.run[j] \in Runs \cup {NoRun, UserRun}
                            /\ p.status[j] = "running" => p.run[j] # NoRun
                            /\ p.status[j] = "queued" => p.run[j] = NoRun
         /\ p.deps \in [Jobs -> SUBSET Jobs] /\ p.prio \in [Jobs -> Nat]
<1>1. ToSet(p.order) = Present(p) /\ Len(p.order) = Cardinality(Present(p))
  BY ArrayCounts
<1>2. p \in Pools /\ RunsOK(p)
  BY DEF PoolOK
<1> QED BY <1>1, <1>2 DEF Pools, RunsOK

(* The start under way and the active runs of a chat fit in its limit.     *)
LEMMA ChatRoomIsLimit == IInv => ChatLimitKept
<1> SUFFICES ASSUME IInv, NEW c \in Chats
             PROVE  Cardinality({r \in Live : r.chat = c}) <= ChatLimit
  BY DEF ChatLimitKept
<1> DEFINE s == State
           A == InChat(s, c)
           R == {r \in Live : r.chat = c}
           d == s.drain[c]
<1>1. Sound(s) /\ IsFiniteSet(s.active) /\ ChatLimit \in Nat
  BY QueueAssumption DEF IInv, Lands, Good, Sound
<1>2. Cardinality(A) + (IF d = NoRun THEN 0 ELSE 1) <= ChatLimit
  BY <1>1 DEF Sound, ChatRoom
<1>3. A \in SUBSET s.active
  BY DEF InChat
<1>4. \A r \in R : r \in A \/ (r = d /\ d # NoRun)
  <2> SUFFICES ASSUME NEW r \in R, r \notin A PROVE r = d /\ d # NoRun
    OBVIOUS
  <2>1. r \in LiveIn(s) /\ r.chat = c
    BY LiveIsLiveIn
  <2> HIDE DEF s
  <2>2. \/ \E y \in Chats : s.drain[y] = r /\ r # NoRun
        \/ r \in s.active /\ r.job # NoJob
    BY <1>1, <2>1, LiveFacts
  <2>3. PICK y \in Chats : s.drain[y] = r /\ r # NoRun
    BY <2>1, <2>2 DEF InChat
  <2>4. y = c
    BY <1>1, <2>1, <2>3 DEF Sound, StartsOK
  <2> QED BY <2>3, <2>4
<1> HIDE DEF A, R, d, s
<1>5. IsFiniteSet(A)
  BY <1>1, <1>3, FS_Subset
<1>6. Cardinality(A) \in Nat
  BY <1>5, FS_CardinalityType
<1>7. CASE d = NoRun
  <2>1. R \in SUBSET A
    BY <1>4, <1>7
  <2>2. IsFiniteSet(R) /\ Cardinality(R) <= Cardinality(A)
    BY <1>5, <2>1, FS_Subset
  <2>3. Cardinality(R) \in Nat
    BY <2>2, FS_CardinalityType
  <2>4. Cardinality(R) <= ChatLimit
    BY <1>1, <1>2, <1>6, <1>7, <2>2, <2>3
  <2> QED BY <2>4 DEF R
<1>8. CASE d # NoRun
  <2> DEFINE B == A \cup {d}
  <2>1. R \in SUBSET B
    BY <1>4
  <2>2. /\ IsFiniteSet(B)
        /\ Cardinality(B) = IF d \in A THEN Cardinality(A) ELSE Cardinality(A) + 1
    BY <1>5, FS_AddElement
  <2> HIDE DEF B
  <2>3. IsFiniteSet(R) /\ Cardinality(R) <= Cardinality(B)
    BY <2>1, <2>2, FS_Subset
  <2>4. Cardinality(R) \in Nat /\ Cardinality(B) \in Nat
    BY <2>2, <2>3, FS_CardinalityType
  <2>5. Cardinality(R) <= ChatLimit
    BY <1>1, <1>2, <1>6, <1>8, <2>2, <2>3, <2>4
  <2> QED BY <2>5 DEF R
<1> QED BY <1>7, <1>8

(* BoardInvariant: whatever users, agents and failures do to the queue and *)
(* to the board, and across crashes, the store and its copy stay           *)
(* well-formed and no chat has more of the queue's runs under way than     *)
(* MANAGER_CHAT_RUN_LIMIT.                                                 *)
THEOREM BoardSafe == Spec => []BoardInvariant
<1>1. IInv => BoardInvariant
  <2> SUFFICES ASSUME IInv PROVE BoardInvariant
    OBVIOUS
  <2>1. /\ PoolOK(pool) /\ PoolOK(saved) /\ drain \in [Chats -> Runs \cup {NoRun}]
        /\ active \subseteq Runs /\ claims \in [Jobs -> Nat]
    BY StateFields DEF IInv, Lands, Good, Sound, States
  <2>2. \A p \in {pool, saved} :
       /\ p.status \in [Jobs -> Statuses \cup {"new", "gone"}]
       /\ ToSet(p.order) = Present(p) /\ Len(p.order) = Cardinality(Present(p))
       /\ \A j \in Jobs : /\ p.run[j] \in Runs \cup {NoRun, UserRun}
                          /\ p.status[j] = "running" => p.run[j] # NoRun
                          /\ p.status[j] = "queued" => p.run[j] = NoRun
       /\ p.deps \in [Jobs -> SUBSET Jobs] /\ p.prio \in [Jobs -> Nat]
    BY <2>1, PoolTypes
  <2>3. TypeOK
    BY <2>1, <2>2 DEF TypeOK, IInv
  <2> QED BY <2>3, ChatRoomIsLimit DEF BoardInvariant
<1> QED BY <1>1, InvariantHolds, PTL

(* RunningHasRun: across crashes, failures, cancellations, moves by the    *)
(* user and deletions, a running job has a run under way or a user, unless *)
(* agents claim cards of the board.                                        *)
THEOREM RunningBacked ==
  ASSUME Never("claim")
  PROVE  Spec => []RunningHasRun
<1>1. IInv => RunningHasRun
  BY StateFields, LiveIsLiveIn DEF IInv, Lands, Good, Backed, RunningHasRun
<1> QED BY <1>1, InvariantHolds, PTL

(* DependenciesKept: while nobody edits jobs by hand, an open job's        *)
(* dependencies are never pruned, and are completed when it runs.          *)
THEOREM DependenciesGate ==
  ASSUME Untouched
  PROVE  Spec => []DependenciesKept
<1>1. IInv => DependenciesKept
  BY StateFields DEF IInv, Lands, Good, Gated, DepsOK, DependenciesKept
<1> QED BY <1>1, InvariantHolds, PTL

(* GlobalLimitKept: "closing the race between simultaneous drains in       *)
(* different chats": without cancellations and edits by hand, all chats    *)
(* together keep MANAGER_GLOBAL_RUN_LIMIT.                                 *)
THEOREM WorldSafe ==
  ASSUME Orderly
  PROVE  Spec => []GlobalLimitKept
<1>1. IInv => GlobalLimitKept
  BY LiveIsLiveIn DEF IInv, Lands, Good, WorldRoom, GlobalLimitKept
<1> QED BY <1>1, InvariantHolds, PTL

(* ExclusiveAlone: without edits by hand, and with either no cancellation  *)
(* or a history long enough to remember the cancelled jobs, an exclusive   *)
(* run shares its chat with no other run of the queue.                     *)
THEOREM ExclusiveSafe ==
  ASSUME Orderly \/ (Untouched /\ Ample)
  PROVE  Spec => []ExclusiveAlone
<1>1. IInv => ExclusiveAlone
  <2> SUFFICES ASSUME IInv, NEW r \in Live, NEW q \in Live, r # q, r.chat = q.chat
               PROVE  ~RequiresExclusiveRun(pool, r.job) /\ ~RequiresExclusiveRun(pool, q.job)
    BY DEF ExclusiveAlone
  <2>1. \A x, y \in Live : x # y /\ x.chat = y.chat => ~RequiresExclusiveRun(pool, x.job)
    BY StateFields, LiveIsLiveIn DEF IInv, Lands, Good, Alone
  <2> QED BY <2>1
<1> QED BY <1>1, InvariantHolds, PTL

(* NeverAsleep: unless jobs are taken from the queue by hand or a start    *)
(* fails, a queue with nothing under way has nothing it could claim.       *)
THEOREM QueueAwake ==
  ASSUME Undisturbed
  PROVE  Spec => []NeverAsleep
<1>1. IInv => NeverAsleep
  <2> SUFFICES ASSUME IInv, active = {}, \A x \in Chats : drain[x] = NoRun, NEW c \in Chats
               PROVE  Claimable(State, c) = NoJob
    BY DEF NeverAsleep
  <2>1. Good(State) /\ Awake(State) /\ Still(State)
    BY StateFields DEF IInv, Lands, Still
  <2>2. ChatLimit = 0 \/ GlobalLimit = 0 \/ Ready(State.pool, c) = {}
    BY <2>1 DEF Awake
  <2> QED BY <2>1, <2>2, ClaimableFacts
<1> QED BY <1>1, InvariantHolds, PTL
=============================================================================
