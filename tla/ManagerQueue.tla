---------------------------- MODULE ManagerQueue ----------------------------
(***************************************************************************)
(* The manager's work queue on the desktop: the durable pool of jobs       *)
(* (apps/desktop/src/main/agent/chat-pool.ts), the capacity rule           *)
(* (manager-scheduler.ts) and the handlers and drains of backend.ts that   *)
(* claim jobs, start their runs and settle them.                           *)
(*                                                                         *)
(* A drain claims a job and then awaits the start of its run; everything   *)
(* else runs in one stretch.  Runs are local.  A job is its identity, its  *)
(* place, its status and what gates it; texts, contexts and times are left *)
(* out.                                                                    *)
(***************************************************************************)
EXTENDS Naturals, Sequences, FiniteSets, SequencesExt

CONSTANTS Jobs,          \* the identities jobs may get
          Chats,
          ChatOf,        \* ChatOf[j]: the chat j belongs to
          Serial,        \* jobs whose text or goal asks for an exclusive run
          Priorities,    \* the priorities used, numbers as in PRIORITY
          ChatLimit,     \* MANAGER_CHAT_RUN_LIMIT (2 in the code)
          GlobalLimit,   \* MANAGER_GLOBAL_RUN_LIMIT (4 in the code)
          HistoryLimit,  \* terminalHistoryLimit (100 in the code)
          Allowed,       \* bound: how often each kind of event happens
          NoJob,         \* the job of a run the user started directly
          NoRun,         \* a job without a runId, a chat not being drained
          UserRun        \* the owner "user" of a card moved by hand

Kinds == {"cancel", "fail", "edit", "claim", "reorder", "direct", "remove", "crash"}

(* Run ids.                                                                *)
Runs == [chat : Chats, job : Jobs \cup {NoJob}, n : Nat]

ASSUME QueueAssumption ==
  /\ ChatOf \in [Jobs -> Chats] /\ Serial \subseteq Jobs
  /\ Priorities \subseteq Nat
  /\ {ChatLimit, GlobalLimit, HistoryLimit} \subseteq Nat
  /\ Allowed \in [Kinds -> Nat]
  /\ NoJob \notin Jobs
  /\ NoRun \notin Runs /\ UserRun \notin Runs /\ NoRun # UserRun

VARIABLES pool,     \* ChatPool.#jobs
          saved,    \* the value of its preference in the store
          drain,    \* drain[c]: the run the drain of c is starting, or NoRun
          active,   \* the runs of #activeRuns
          aborted,  \* the runs whose control was cancelled
          claims,   \* claims[j]: how many runs were made up for j
          spent     \* spent[k]: how many events of kind k have happened

vars == <<pool, saved, drain, active, aborted, claims, spent>>

Ended == {"completed", "cancelled", "failed"}
Statuses == Ended \cup {"queued", "running", "blocked"}

-----------------------------------------------------------------------------
(* The pool.  A job that was never enqueued is "new", one no longer in the *)
(* array "gone".                                                           *)

EmptyPool ==
  [order  |-> <<>>,
   status |-> [j \in Jobs |-> "new"],
   run    |-> [j \in Jobs |-> NoRun],
   deps   |-> [j \in Jobs |-> {}],
   prio   |-> [j \in Jobs |-> 0]]

Present(p) == {j \in Jobs : p.status[j] \in Statuses}
With(p, st) == {j \in Jobs : p.status[j] = st}

Before(p, j, k) ==
  \E x, y \in DOMAIN p.order : x < y /\ p.order[x] = j /\ p.order[y] = k

(* managerJobRequiresExclusiveRun                                          *)
RequiresExclusiveRun(p, j) == j \in Serial \/ p.deps[j] # {}

(* The array without some of its jobs.                                     *)
Keep(order, out) ==
  LET kept[n \in 0 .. Len(order)] ==
        IF n = 0 THEN <<>>
        ELSE IF order[n] \in out THEN kept[n - 1] ELSE Append(kept[n - 1], order[n])
  IN  kept[Len(order)]

(* #refreshBlockedJobs: one pass in array order, so a job blocked in this  *)
(* pass blocks those behind it and not those in front.                     *)
NewlyBlocked(p) ==
  UNION {B \in SUBSET With(p, "queued") :
           \A j \in B : \E d \in p.deps[j] :
             \/ p.status[d] \in {"cancelled", "failed", "blocked"}
             \/ d \in B /\ Before(p, d, j)}

(* A mutated form: failed dependencies block nothing.                      *)
RefreshNothing(p) == p

RefreshBlocked(p) ==
  LET B == NewlyBlocked(p)
  IN  [p EXCEPT !.status = [j \in Jobs |-> IF j \in B THEN "blocked" ELSE @[j]]]

Without(p, out) ==
  [order  |-> Keep(p.order, out),
   status |-> [j \in Jobs |-> IF j \in out THEN "gone" ELSE p.status[j]],
   run    |-> [j \in Jobs |-> IF j \in out THEN NoRun ELSE p.run[j]],
   deps   |-> [j \in Jobs |-> IF j \in out THEN {} ELSE p.deps[j]],
   prio   |-> [j \in Jobs |-> IF j \in out THEN 0 ELSE p.prio[j]]]

(* A mutated form: history is pruned without sparing what waiting jobs     *)
(* depend on.                                                              *)
PruneDependenciesToo(p) ==
  LET past == Present(p) \ (With(p, "queued") \cup With(p, "running"))
      newer(j) == {k \in past : ChatOf[k] = ChatOf[j] /\ Before(p, j, k)}
  IN  Without(p, {j \in past : Cardinality(newer(j)) >= HistoryLimit})

(* #pruneTerminalJobs: each chat keeps its latest HistoryLimit finished    *)
(* jobs, not counting those an open job depends on.                        *)
Prune(p) ==
  LET open == With(p, "queued") \cup With(p, "running")
      past == Present(p) \ (open \cup UNION {p.deps[j] : j \in open})
      newer(j) == {k \in past : ChatOf[k] = ChatOf[j] /\ Before(p, j, k)}
  IN  Without(p, {j \in past : Cardinality(newer(j)) >= HistoryLimit})

(* #settle                                                                 *)
Settle(p, j, st) == Prune(RefreshBlocked([p EXCEPT !.status[j] = st]))

(* enqueue                                                                 *)
Push(p, j, ds, pr) ==
  [order  |-> Append(p.order, j),
   status |-> [p.status EXCEPT ![j] = "queued"],
   run    |-> p.run,
   deps   |-> [p.deps EXCEPT ![j] = ds],
   prio   |-> [p.prio EXCEPT ![j] = pr]]

(* #ready                                                                  *)
Ready(p, c) ==
  {j \in With(p, "queued") :
     ChatOf[j] = c /\ \A d \in p.deps[j] : p.status[d] = "completed"}

(* The head of #ready: highest priority, then array order.                 *)
NextReady(p, c) ==
  IF Ready(p, c) = {} THEN NoJob
  ELSE CHOOSE j \in Ready(p, c) :
         \A k \in Ready(p, c) \ {j} :
           p.prio[j] > p.prio[k] \/ (p.prio[j] = p.prio[k] /\ Before(p, j, k))

(* forRun: the first job in the array with this runId, whatever its status.*)
ForRun(p, r) ==
  LET mine == {j \in Present(p) : p.run[j] = r}
  IN  IF mine = {} THEN NoJob
      ELSE CHOOSE j \in mine : \A k \in mine \ {j} : Before(p, j, k)

(* A mutated form: the claims of the dead process are kept.                *)
RecoverNothing(p) == Prune(RefreshBlocked(p))

(* The constructor: interrupted jobs are queued again.                     *)
Recover(p) ==
  Prune(RefreshBlocked(
    [p EXCEPT !.status = [j \in Jobs |-> IF @[j] = "running" THEN "queued" ELSE @[j]],
              !.run = [j \in Jobs |-> IF p.status[j] = "running" THEN NoRun ELSE @[j]]]))

(* #moveToCardStatus                                                       *)
Moved(p, j, to, owner) ==
  CASE to = "todo" -> [p EXCEPT !.status[j] = "queued", !.run[j] = NoRun]
    [] to = "in_progress" -> [p EXCEPT !.status[j] = "running", !.run[j] = owner]
    [] to = "done" -> [p EXCEPT !.status[j] = "completed", !.run[j] = NoRun]

-----------------------------------------------------------------------------
(* Capacity and drains.  s is the state a stretch of code works on.        *)

State == [pool |-> pool, saved |-> saved, drain |-> drain, active |-> active,
          claims |-> claims]

Become(next) ==
  \E s \in {next} :
    /\ pool' = s.pool /\ saved' = s.saved /\ drain' = s.drain
    /\ active' = s.active /\ claims' = s.claims

Persist(s, p) == [s EXCEPT !.pool = p, !.saved = p]

(* A mutated form: only durable claims are counted.                        *)
CapacityOfClaims(s, c) ==
  LET running == With(s.pool, "running")
      inChat == {j \in running : ChatOf[j] = c}
  IN  /\ Cardinality(running) < GlobalLimit
      /\ Cardinality(inChat) < ChatLimit
      /\ ~ \E j \in Present(s.pool) : /\ ChatOf[j] = c /\ s.pool.run[j] \in s.active
                                      /\ RequiresExclusiveRun(s.pool, j)

(* A mutated form: only active runs are counted, not the claims of starts  *)
(* under way.                                                              *)
CapacityOfActive(s, c) ==
  /\ Cardinality(s.active) < GlobalLimit
  /\ Cardinality({r \in s.active : r.chat = c}) < ChatLimit
  /\ ~ \E j \in Present(s.pool) : /\ ChatOf[j] = c /\ s.pool.run[j] \in s.active
                                  /\ RequiresExclusiveRun(s.pool, j)

(* A mutated form: exclusive runs do not close the lane.                   *)
CapacityShared(s, c) ==
  LET running == With(s.pool, "running")
      unmanaged == s.active \ {s.pool.run[j] : j \in running}
  IN  /\ Cardinality(running) + Cardinality(unmanaged) < GlobalLimit
      /\ Cardinality({j \in running : ChatOf[j] = c})
           + Cardinality({r \in unmanaged : r.chat = c}) < ChatLimit

(* managerRunCapacity(...) > 0                                             *)
HasCapacity(s, c) ==
  LET running == With(s.pool, "running")
      unmanaged == s.active \ {s.pool.run[j] : j \in running}
      inChat == {j \in running : ChatOf[j] = c}
      unmanagedInChat == {r \in unmanaged : r.chat = c}
  IN  /\ Cardinality(running) + Cardinality(unmanaged) < GlobalLimit
      /\ Cardinality(inChat) + Cardinality(unmanagedInChat) < ChatLimit
      /\ ~ \E j \in Present(s.pool) : /\ ChatOf[j] = c /\ s.pool.run[j] \in s.active
                                      /\ RequiresExclusiveRun(s.pool, j)

(* conversationOccupied                                                    *)
Occupied(s, c) ==
  \/ \E j \in With(s.pool, "running") : ChatOf[j] = c
  \/ \E r \in s.active : r.chat = c

(* The job a pass of the drain's loop would claim now.                     *)
Claimable(s, c) ==
  LET j == NextReady(RefreshBlocked(s.pool), c)
  IN  IF ~HasCapacity(s, c) \/ j = NoJob THEN NoJob
      ELSE IF RequiresExclusiveRun(s.pool, j) /\ Occupied(s, c) THEN NoJob
      ELSE j

(* claimNext with a new run id, then the await on #startRun.               *)
Claim(s, c, j) ==
  LET r == [chat |-> c, job |-> j, n |-> s.claims[j] + 1]
      p == RefreshBlocked(s.pool)
      q == [p EXCEPT !.status[j] = "running", !.run[j] = r]
  IN  [Persist(s, q) EXCEPT !.claims[j] = @ + 1, !.drain[c] = r]

(* #drainManagerConversation up to its first await: a chat being drained   *)
(* is left alone.  The refresh of nextReady is not persisted.              *)
DrainChat(s, c) ==
  LET seen == IF HasCapacity(s, c) THEN [s EXCEPT !.pool = RefreshBlocked(@)] ELSE s
      j == Claimable(s, c)
  IN  IF s.drain[c] # NoRun THEN s
      ELSE IF j = NoJob THEN seen
      ELSE Claim(seen, c, j)

(* The position at which a chat with queued jobs first appears.            *)
Leads(p, n) ==
  /\ p.status[p.order[n]] = "queued"
  /\ \A m \in 1 .. n - 1 :
       p.status[p.order[m]] = "queued" => ChatOf[p.order[m]] # ChatOf[p.order[n]]

(* #drainManagerQueues: the chats with queued jobs, by first appearance.   *)
DrainAll(s) ==
  LET drained[n \in 0 .. Len(s.pool.order)] ==
        IF n = 0 THEN s
        ELSE IF Leads(s.pool, n) THEN DrainChat(drained[n - 1], ChatOf[s.pool.order[n]])
        ELSE drained[n - 1]
  IN  drained[Len(s.pool.order)]

Spend(kind) ==
  /\ spent[kind] < Allowed[kind]
  /\ spent' = [spent EXCEPT ![kind] = @ + 1]

-----------------------------------------------------------------------------
(* The handlers.                                                           *)

(* managerEnqueue                                                          *)
Enqueue(j, ds, pr) ==
  /\ pool.status[j] = "new"
  /\ ds \subseteq Present(pool)
  /\ Become(DrainChat(Persist(State, Push(pool, j, ds, pr)), ChatOf[j]))
  /\ UNCHANGED <<aborted, spent>>

(* managerCancel: a finished job is left as it is, its run is told to stop *)
(* if it is active, and the chat is drained.                               *)
CancelJob(j) ==
  /\ j \in Present(pool)
  /\ Spend("cancel")
  /\ aborted' = aborted \cup ({pool.run[j]} \cap active)
  /\ Become(DrainChat(IF pool.status[j] \in {"queued", "running"}
                      THEN Persist(State, Settle(pool, j, "cancelled")) ELSE State,
                      ChatOf[j]))

(* managerReprioritize                                                     *)
Reprioritize(j, pr) ==
  /\ pool.status[j] = "queued"
  /\ Spend("reorder")
  /\ Become(Persist(State, [pool EXCEPT !.prio[j] = pr]))
  /\ UNCHANGED aborted

(* managerReorder: j is taken out and put at the index its target had.     *)
Reorder(j, k) ==
  /\ j # k
  /\ pool.status[j] = "queued" /\ pool.status[k] = "queued"
  /\ ChatOf[j] = ChatOf[k] /\ pool.prio[j] = pool.prio[k]
  /\ Spend("reorder")
  /\ LET rest == Keep(pool.order, {j})
         to == CHOOSE x \in DOMAIN pool.order : pool.order[x] = k
     IN  Become(Persist(State, [pool EXCEPT !.order = InsertAt(rest, to, j)]))
  /\ UNCHANGED aborted

(* The task board: a card is a job; none of its operations drains.         *)
CreateCard(j) ==
  /\ pool.status[j] = "new"
  /\ Spend("edit")
  /\ Become(Persist(State, Push(pool, j, {}, 1)))
  /\ UNCHANGED aborted

(* updateCard with a status, and recycleCard: any card, by the user.       *)
MoveCard(j, to) ==
  /\ j \in Present(pool)
  /\ Spend("edit")
  /\ Become(Persist(State, Moved(pool, j, to, UserRun)))
  /\ UNCHANGED aborted

(* claimCard by a run of the same chat.                                    *)
ClaimCard(j, r) ==
  /\ r \in active /\ r.chat = ChatOf[j]
  /\ pool.status[j] = "queued" \/ (pool.status[j] = "running" /\ pool.run[j] = r)
  /\ Spend("claim")
  /\ Become(Persist(State, Moved(pool, j, "in_progress", r)))
  /\ UNCHANGED aborted

(* completeCard by a run of the same chat, on a card nobody else owns.     *)
CompleteCard(j, r) ==
  /\ r \in active /\ r.chat = ChatOf[j]
  /\ j \in Present(pool) /\ pool.run[j] \in {NoRun, r}
  /\ Spend("edit")
  /\ Become(Persist(State, Moved(pool, j, "done", r)))
  /\ UNCHANGED aborted

RemoveCard(j) ==
  /\ j \in Present(pool) /\ pool.status[j] # "running"
  /\ Spend("edit")
  /\ Become(Persist(State, Without(pool, {j})))
  /\ UNCHANGED aborted

(* A conversation is archived or deleted once its active runs have settled.*)
RemoveChat(c) ==
  /\ ~ \E r \in active : r.chat = c
  /\ Spend("remove")
  /\ Become(Persist(State, Without(pool, {j \in Present(pool) : ChatOf[j] = c})))
  /\ UNCHANGED aborted

-----------------------------------------------------------------------------
(* Runs.                                                                   *)

(* #startRun resolved: the run is active and the loop goes on.             *)
StartSucceeds(c) ==
  /\ drain[c] # NoRun
  /\ Become(DrainChat([State EXCEPT !.active = @ \cup {drain[c]}, !.drain[c] = NoRun], c))
  /\ UNCHANGED <<aborted, spent>>

(* #startRun rejected: the job fails and the loop goes on; fail throws out *)
(* of the drain when the job is no longer running.                         *)
StartFails(c) ==
  /\ drain[c] # NoRun
  /\ Spend("fail")
  /\ LET j == drain[c].job
         idle == [State EXCEPT !.drain[c] = NoRun]
     IN  Become(IF pool.status[j] = "running"
                THEN DrainChat(Persist(idle, Settle(pool, j, "failed")), c)
                ELSE idle)
  /\ UNCHANGED aborted

(* A mutated form: only the chat of the run is drained when it ends.       *)
RunEndsInItsChat(r) ==
  /\ r \in active
  /\ \E st \in Ended :
       LET left == [State EXCEPT !.active = @ \ {r}]
           j == ForRun(pool, r)
       IN  Become(DrainChat(IF j # NoJob /\ pool.status[j] = "running"
                            THEN Persist(left, Settle(pool, j, st)) ELSE left, r.chat))
  /\ aborted' = aborted \ {r}
  /\ UNCHANGED spent

(* A run ends: #forwardEvents settles its job and drains every chat.       *)
RunEnds(r) ==
  /\ r \in active
  /\ \E st \in Ended :
       LET left == [State EXCEPT !.active = @ \ {r}]
           j == ForRun(pool, r)
       IN  Become(DrainAll(IF j # NoJob /\ pool.status[j] = "running"
                           THEN Persist(left, Settle(pool, j, st)) ELSE left))
  /\ aborted' = aborted \ {r}
  /\ UNCHANGED spent

(* The user or the goal loop starts a run beside the queue.                *)
DirectRun(c) ==
  /\ Spend("direct")
  /\ active' = active \cup {[chat |-> c, job |-> NoJob, n |-> spent["direct"] + 1]}
  /\ UNCHANGED <<pool, saved, drain, aborted, claims>>

(* The process dies and starts again from the store.  What the recovery    *)
(* only refreshed is not persisted.                                        *)
Crash ==
  /\ Spend("crash")
  /\ LET p == Recover(saved)
         same == With(saved, "running") = {} /\ Present(p) = Present(saved)
     IN  Become(DrainAll([pool |-> p, saved |-> IF same THEN saved ELSE p,
                          drain |-> [c \in Chats |-> NoRun], active |-> {},
                          claims |-> claims]))
  /\ aborted' = {}

-----------------------------------------------------------------------------
Init ==
  /\ pool = EmptyPool /\ saved = EmptyPool
  /\ drain = [c \in Chats |-> NoRun]
  /\ active = {} /\ aborted = {}
  /\ claims = [j \in Jobs |-> 0]
  /\ spent = [k \in Kinds |-> 0]

Handler ==
  \/ \E j \in Jobs, ds \in SUBSET Jobs, pr \in Priorities : Enqueue(j, ds, pr)
  \/ \E j \in Jobs : CancelJob(j)
  \/ \E j \in Jobs, pr \in Priorities : Reprioritize(j, pr)
  \/ \E j, k \in Jobs : Reorder(j, k)
  \/ \E c \in Chats : RemoveChat(c)
  \/ \E c \in Chats : DirectRun(c)

CardHandler ==
  \/ \E j \in Jobs : CreateCard(j)
  \/ \E j \in Jobs, to \in {"todo", "in_progress", "done"} : MoveCard(j, to)
  \/ \E j \in Jobs, r \in active : ClaimCard(j, r)
  \/ \E j \in Jobs, r \in active : CompleteCard(j, r)
  \/ \E j \in Jobs : RemoveCard(j)

StartReturns(c) == StartSucceeds(c) \/ StartFails(c)

SomeRunEnds == \E r \in active : RunEnds(r)

Next ==
  \/ Handler \/ CardHandler \/ Crash
  \/ \E c \in Chats : StartReturns(c)
  \/ SomeRunEnds

(* Starts return and runs end; nothing else has to happen.  This is weak   *)
(* fairness of the two, with their guards written out: StartReturns(c) is  *)
(* enabled while c has a start under way, SomeRunEnds while a run is       *)
(* active.                                                                 *)
Fairness ==
  /\ \A c \in Chats : []<>(drain[c] = NoRun) \/ []<><<StartReturns(c)>>_vars
  /\ []<>(active = {}) \/ []<><<SomeRunEnds>>_vars

Spec == Init /\ [][Next]_vars /\ Fairness

-----------------------------------------------------------------------------
(* The runs the queue started that are under way: being started or active. *)
Live == ({drain[c] : c \in Chats} \ {NoRun}) \cup {r \in active : r.job # NoJob}

(* Every variable has the shape the code gives it; the array and the       *)
(* statuses name the same jobs.                                            *)
TypeOK ==
  /\ \A p \in {pool, saved} :
       /\ p.status \in [Jobs -> Statuses \cup {"new", "gone"}]
       /\ ToSet(p.order) = Present(p) /\ Len(p.order) = Cardinality(Present(p))
       /\ \A j \in Jobs : /\ p.run[j] \in Runs \cup {NoRun, UserRun}
                          /\ p.status[j] = "running" => p.run[j] # NoRun
                          /\ p.status[j] = "queued" => p.run[j] = NoRun
       /\ p.deps \in [Jobs -> SUBSET Jobs] /\ p.prio \in [Jobs -> Nat]
  /\ \A c \in Chats : drain[c] \in Runs \cup {NoRun}
  /\ active \subseteq Runs /\ aborted \subseteq active
  /\ claims \in [Jobs -> Nat] /\ spent \in [Kinds -> Nat]

(* A chat never has more than ChatLimit of the queue's runs under way,     *)
(* also while starts are awaited, jobs are cancelled, cards moved and the  *)
(* user runs beside the queue (managerRunCapacity with the drain lock).    *)
ChatLimitKept ==
  \A c \in Chats : Cardinality({r \in Live : r.chat = c}) <= ChatLimit

(* While cards are moved and removed by hand, the store stays well-formed  *)
(* (one order over the jobs there are, a run for every running job and for *)
(* no queued one) and the chat's limit is kept.                            *)
BoardInvariant == TypeOK /\ ChatLimitKept

(* All chats together never have more than GlobalLimit: "running durable   *)
(* claims count before agent startup finishes, closing the race between    *)
(* simultaneous drains in different chats" (manager-scheduler.ts).         *)
GlobalLimitKept == Cardinality(Live) <= GlobalLimit

(* "Work which can observe or mutate a shared prior state stays            *)
(* serialized" (manager-scheduler.ts): a run of an exclusive job never     *)
(* overlaps another of the queue's runs in its chat, up to the moment the  *)
(* agent settles.                                                          *)
ExclusiveAlone ==
  \A r, s \in Live :
    r # s /\ r.chat = s.chat =>
      /\ ~RequiresExclusiveRun(pool, r.job)
      /\ ~RequiresExclusiveRun(pool, s.job)

(* A job marked running has a run behind it, being started or active, or a *)
(* user who took it: otherwise it holds a slot of its chat for good        *)
(* (#recoverInterruptedJobs, #forwardEvents).                              *)
RunningHasRun ==
  \A j \in With(pool, "running") : pool.run[j] = UserRun \/ pool.run[j] \in Live

(* Dependencies are completion gates, and the history kept is enough to    *)
(* decide them: an open job's dependencies are never pruned, and all are   *)
(* completed when it runs (claimNext, #pruneTerminalJobs).                 *)
DependenciesKept ==
  \A j \in With(pool, "queued") \cup With(pool, "running") : \A d \in pool.deps[j] :
    /\ d \in Present(pool)
    /\ pool.status[j] = "running" => pool.status[d] = "completed"

(* The queue never falls asleep: with no run under way and none to end,    *)
(* no job is left that a drain would claim.                                *)
NeverAsleep ==
  active = {} /\ (\A c \in Chats : drain[c] = NoRun)
    => \A c \in Chats : Claimable(State, c) = NoJob

(* Every queued job is eventually claimed, cancelled, blocked or removed,  *)
(* whatever the runs before it end with.                                   *)
QueueDrains == \A j \in Jobs : (pool.status[j] = "queued") ~> (pool.status[j] # "queued")
=============================================================================
