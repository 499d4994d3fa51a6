------------------------------ MODULE Schedules ------------------------------
(***************************************************************************)
(* The schedules of the desktop app (main/scheduler/index.ts): recurring   *)
(* and one-off requests, one timer that looks at the wall clock, runs that *)
(* outlive the step which started them, and a store that brings the        *)
(* schedules back after a restart.                                         *)
(*                                                                         *)
(* A frequency denotes the set of instants at which it fires, so that      *)
(* nextRunAfter (time.ts) is the least of them after a given instant; the  *)
(* calendar arithmetic that produces the set is left out.  Titles, prompts *)
(* and the unread mark are left out too.                                   *)
(***************************************************************************)
EXTENDS Naturals, Sequences, FiniteSets

CONSTANTS
    Ids,           \* the schedules that may be created
    Frequencies,   \* records [kind, at]: at is the set of firing instants
    MaxTime,       \* bound: the instants are 1 .. MaxTime
    MaxSleep,      \* MAX_SLEEP_MS, in instants
    HistoryLimit   \* HISTORY_LIMIT

Never == 0
Instants == 1 .. MaxTime
Kinds == {"once", "calendar", "cron"}

ASSUME SchedulesAssumption ==
    /\ MaxTime \in Nat \ {0} /\ MaxSleep \in Nat \ {0} /\ HistoryLimit \in Nat \ {0}
    /\ Frequencies \subseteq [kind : Kinds, at : SUBSET Instants]

VARIABLES
    clock,      \* the wall clock
    mode,       \* "up", "stopping" (stop() was called) or "down"
    items,      \* #items: a function on the ids that exist
    stored,     \* the "schedules" preference
    running,    \* #running
    inflight,   \* [Ids -> executions awaited by #fire]
    timer,      \* when the one timer fires, or Never
    owned,      \* auxiliary: schedules created and not removed, except those with
                \* a cron expression which a restart dropped
    used,       \* auxiliary: ids given out (randomUUID never repeats one)
    wish,       \* auxiliary: schedules the user paused and did not resume or run
    overridden, \* auxiliary: schedules updated while they ran
    waited,     \* auxiliary: [Ids -> instants a schedule has been overdue, awake]
    since,      \* auxiliary: [Ids -> when a schedule was created, edited while idle or
                \* last started, or the process started, whichever came last]
    bootAt      \* auxiliary: when the process started

vars == <<clock, mode, items, stored, running, inflight, timer,
          owned, used, wish, overridden, waited, since, bootAt>>
aux == <<owned, used, wish, overridden, waited, since, bootAt>>

Statuses == {"active", "paused", "running", "failed", "done"}
Item == [freq : Frequencies, status : Statuses, next : Instants \cup {Never},
         history : Seq({"running", "succeeded", "failed"})]
None == [i \in {} |-> Never]
Exists == DOMAIN items
EarliestOf(S) == IF S = {} THEN Never ELSE CHOOSE t \in S : \A u \in S : t <= u

-----------------------------------------------------------------------------
(* The operators the handlers are made of.                                 *)

\* nextRunAfter
NextRunAfter(freq, now) == EarliestOf({t \in freq.at : t > now})

\* #computeNext
ComputeNext(item) ==
    IF item.status = "paused" THEN Never ELSE NextRunAfter(item.freq, clock)

Due(item) == item.status = "active" /\ item.next # Never /\ item.next <= clock

\* A mutated form: the timer sleeps until the next run, however far off.
ArmedForLong(its) ==
    LET due == {its[i].next : i \in {j \in DOMAIN its :
                                        its[j].status = "active" /\ its[j].next # Never}}
        soonest == EarliestOf(due)
    IN  IF soonest > clock THEN soonest
        ELSE IF due = {} THEN Never ELSE clock

\* #arm: the time to the soonest run, and never more than MaxSleep.
Armed(its) ==
    LET due == {its[i].next : i \in {j \in DOMAIN its :
                                        its[j].status = "active" /\ its[j].next # Never}}
        soonest == EarliestOf(due)
        delay == IF due # {} /\ soonest <= clock THEN 0
                 ELSE IF due = {} \/ soonest - clock > MaxSleep THEN MaxSleep
                 ELSE soonest - clock
    IN  clock + delay

\* A mutated form: the next run is computed when the run ends.
SettledWithCadence(item, outcome) ==
    LET next == NextRunAfter(item.freq, clock)
    IN  [item EXCEPT
            !.history = IF @ # <<>> /\ Head(@) = "running" THEN <<outcome>> \o Tail(@) ELSE @,
            !.next = next,
            !.status = IF outcome = "failed" THEN "failed"
                       ELSE IF next = Never THEN "done" ELSE "active"]

\* #settle: closes the newest history entry and settles the status.
Settled(item, outcome) ==
    [item EXCEPT
        !.history = IF @ # <<>> /\ Head(@) = "running" THEN <<outcome>> \o Tail(@) ELSE @,
        !.status = IF outcome = "failed" THEN "failed"
                   ELSE IF item.next = Never THEN "done" ELSE "active"]

\* The history #fire writes: the new run first, the oldest dropped.
Recorded(history) ==
    SubSeq(<<"running">> \o history, 1,
           IF Len(history) < HistoryLimit THEN Len(history) + 1 ELSE HistoryLimit)

\* What #fire writes before it executes: a new history entry, the running
\* status, and the next run, which does not wait for this one to end.
Started(item) ==
    [item EXCEPT !.status = "running", !.history = Recorded(@),
                 !.next = NextRunAfter(item.freq, clock)]

\* A mutated form: a run is started although one of the schedule is under way.
FireAgain(S) ==
    /\ items' = [i \in Exists |-> IF i \in S THEN Started(items[i]) ELSE items[i]]
    /\ running' = running \cup S
    /\ inflight' = [i \in Ids |-> IF i \in S THEN inflight[i] + 1 ELSE inflight[i]]
    /\ waited' = [i \in Ids |-> IF i \in S THEN 0 ELSE waited[i]]
    /\ since' = [i \in Ids |-> IF i \in S THEN clock ELSE since[i]]
    /\ stored' = items'

\* #fire up to its await, for every schedule of S; the ones that run are left.
Fire(S) ==
    LET fired == S \ running
    IN  /\ items' = [i \in Exists |-> IF i \in fired THEN Started(items[i]) ELSE items[i]]
        /\ running' = running \cup fired
        /\ inflight' = [i \in Ids |-> IF i \in fired THEN inflight[i] + 1 ELSE inflight[i]]
        /\ waited' = [i \in Ids |-> IF i \in fired THEN 0 ELSE waited[i]]
        /\ since' = [i \in Ids |-> IF i \in fired THEN clock ELSE since[i]]
        /\ stored' = IF fired = {} THEN stored ELSE items'

-----------------------------------------------------------------------------
(* Start and end of the process.                                           *)

\* #load: what readSchedule accepts.  Its set of kinds has no "cron".
Load(rows) ==
    [i \in {j \in DOMAIN rows : rows[j].freq.kind # "cron"} |-> rows[i]]

\* A mutated form: what was due while the app was closed stays due.
ResumedWithBacklog(item) ==
    IF item.status = "running" THEN Settled(item, "failed") ELSE item

\* start(), for one schedule: a run the process died in has failed, and a missed
\* slot is skipped.
Resumed(item) ==
    LET it == IF item.status = "running" THEN Settled(item, "failed") ELSE item
        next == ComputeNext(it)
    IN  [it EXCEPT !.next = next,
             !.status = IF next # it.next /\ next = Never /\ @ = "active"
                           THEN "done" ELSE @]

\* The constructor and start(): the store is written only if a schedule changed.
Boot ==
    /\ mode = "down"
    /\ mode' = "up"
    /\ LET loaded == Load(stored)
       IN  /\ items' = [i \in DOMAIN loaded |-> Resumed(loaded[i])]
           /\ stored' = IF items' = loaded THEN stored ELSE items'
    /\ timer' = Armed(items')
    /\ bootAt' = clock
    /\ since' = [i \in Ids |-> IF i \in DOMAIN items' THEN clock ELSE 0]
    /\ owned' = {i \in owned : i \in DOMAIN stored => stored[i].freq.kind # "cron"}
    /\ UNCHANGED <<clock, running, inflight, used, wish, overridden, waited>>

\* stop(): the timer is cancelled; runs may still settle until the process ends.
Stop ==
    /\ mode = "up"
    /\ mode' = "stopping"
    /\ timer' = Never
    /\ UNCHANGED <<clock, items, stored, running, inflight, aux>>

\* The process ends, after stop() or without it.
Exit ==
    /\ mode # "down"
    /\ mode' = "down"
    /\ items' = None
    /\ running' = {}
    /\ inflight' = [i \in Ids |-> 0]
    /\ timer' = Never
    /\ waited' = [i \in Ids |-> 0]
    /\ since' = [i \in Ids |-> 0]
    /\ UNCHANGED <<clock, stored, owned, used, wish, overridden, bootAt>>

-----------------------------------------------------------------------------
(* The user's handlers, which work also after stop() for as long as the    *)
(* process lives.  #commit stores #items in every one of them.             *)

\* create; the timer is not armed anew.
Create(i, freq) ==
    /\ mode # "down"
    /\ i \notin used
    /\ LET next == NextRunAfter(freq, clock)
           item == [freq |-> freq, next |-> next, history |-> <<>>,
                    status |-> IF next = Never THEN "done" ELSE "active"]
       IN  items' = [j \in Exists \cup {i} |-> IF j = i THEN item ELSE items[j]]
    /\ stored' = items'
    /\ owned' = owned \cup {i}
    /\ used' = used \cup {i}
    /\ since' = [since EXCEPT ![i] = clock]
    /\ UNCHANGED <<clock, mode, running, inflight, timer, wish, overridden, waited, bootAt>>

\* A mutated form: an edit makes a paused schedule active again.
EditedActive(item, isRunning) ==
    IF isRunning THEN [item EXCEPT !.status = "running"]
    ELSE LET next == NextRunAfter(item.freq, clock)
         IN  [item EXCEPT !.next = next,
                          !.status = IF next = Never THEN "done" ELSE "active"]

\* The end of update: a schedule that runs keeps its running status and its next
\* run; a paused one has no next run; any other is computed anew.
Edited(item, isRunning) ==
    CASE isRunning -> [item EXCEPT !.status = "running"]
      [] ~isRunning /\ item.status = "paused" -> [item EXCEPT !.next = Never]
      [] OTHER ->
            LET next == NextRunAfter(item.freq, clock)
            IN  [item EXCEPT !.next = next,
                             !.status = IF next = Never THEN "done" ELSE "active"]

\* update with a status, a frequency, or neither (a title, a prompt).
Update(i, status, freq) ==
    /\ mode # "down"
    /\ i \in Exists
    /\ items' = [items EXCEPT ![i] =
                    Edited([@ EXCEPT !.status = status, !.freq = freq], i \in running)]
    /\ stored' = items'
    /\ IF i \in running
          THEN overridden' = overridden \cup {i} /\ UNCHANGED wish
          ELSE /\ overridden' = overridden \ {i}
               /\ wish' = IF status = "paused" THEN wish \cup {i} ELSE wish \ {i}
    /\ waited' = [waited EXCEPT ![i] = 0]
    /\ since' = [since EXCEPT ![i] = IF i \in running THEN @ ELSE clock]
    /\ UNCHANGED <<clock, mode, running, inflight, timer, owned, used, bootAt>>

UserUpdates(i) ==
    /\ i \in Exists
    /\ \/ Update(i, items[i].status, items[i].freq)
       \/ \E status \in {"active", "paused"} : Update(i, status, items[i].freq)
       \/ \E freq \in Frequencies : Update(i, items[i].status, freq)

\* remove; a run of the schedule goes on and settles an item nobody sees.
Remove(i) ==
    /\ mode # "down"
    /\ i \in Exists
    /\ items' = [j \in Exists \ {i} |-> items[j]]
    /\ stored' = items'
    /\ owned' = owned \ {i}
    /\ wish' = wish \ {i}
    /\ overridden' = overridden \ {i}
    /\ since' = [since EXCEPT ![i] = 0]
    /\ UNCHANGED <<clock, mode, running, inflight, timer, used, waited, bootAt>>

\* runNow
RunNow(i) ==
    /\ mode # "down"
    /\ i \in Exists
    /\ Fire({i})
    /\ wish' = wish \ {i}
    /\ UNCHANGED <<clock, mode, timer, owned, used, overridden, bootAt>>

-----------------------------------------------------------------------------
(* The clock, the timer and the runs.                                      *)

\* #tick: fires what is due by the wall clock and arms the timer again.
Tick ==
    /\ mode = "up"
    /\ timer # Never /\ timer <= clock
    /\ Fire({i \in Exists : Due(items[i])})
    /\ timer' = Armed(items')
    /\ UNCHANGED <<clock, mode, owned, used, wish, overridden, bootAt>>

\* #fire after its await: settle, commit, and arm unless stop() was called.
Finish(i, outcome) ==
    /\ mode \in {"up", "stopping"}
    /\ inflight[i] > 0
    /\ items' = [j \in Exists |-> IF j = i THEN Settled(items[j], outcome) ELSE items[j]]
    /\ running' = running \ {i}
    /\ inflight' = [inflight EXCEPT ![i] = @ - 1]
    /\ stored' = items'
    /\ timer' = IF mode = "up" THEN Armed(items') ELSE timer
    /\ UNCHANGED <<clock, mode, aux>>

Overdue(item) ==
    item.status \in {"active", "failed"} /\ item.next # Never /\ item.next <= clock

\* An instant passes; a timer that is due fires before the next instant does.
Pass ==
    /\ clock < MaxTime
    /\ ~(timer # Never /\ timer <= clock)
    /\ clock' = clock + 1
    /\ waited' = [i \in Ids |-> IF i \in Exists /\ Overdue(items[i])
                                   THEN waited[i] + 1 ELSE 0]
    /\ UNCHANGED <<mode, items, stored, running, inflight, timer, owned, used, wish,
                   overridden, since, bootAt>>

\* The computer sleeps: the wall clock goes on and the timer's does not.
Suspend(t) ==
    /\ mode = "up"
    /\ t > clock
    /\ clock' = t
    /\ timer' = IF timer = Never THEN Never ELSE timer + (t - clock)
    /\ UNCHANGED <<mode, items, stored, running, inflight, aux>>

Init ==
    /\ clock = 1
    /\ mode = "down"
    /\ items = None
    /\ stored = None
    /\ running = {}
    /\ inflight = [i \in Ids |-> 0]
    /\ timer = Never
    /\ owned = {} /\ used = {} /\ wish = {} /\ overridden = {}
    /\ waited = [i \in Ids |-> 0]
    /\ since = [i \in Ids |-> 0]
    /\ bootAt = 1

UserStep ==
    \/ \E i \in Ids, freq \in Frequencies : Create(i, freq)
    \/ \E i \in Ids : UserUpdates(i) \/ Remove(i) \/ RunNow(i)

Next ==
    \/ Boot \/ Stop \/ Exit \/ UserStep \/ Tick \/ Pass
    \/ \E i \in Ids, outcome \in {"succeeded", "failed"} : Finish(i, outcome)
    \/ \E t \in Instants : Suspend(t)

Spec == Init /\ [][Next]_vars
-----------------------------------------------------------------------------
(* Properties.                                                             *)

TypeOK ==
    /\ clock \in Instants
    /\ mode \in {"up", "stopping", "down"}
    /\ Exists \subseteq Ids /\ DOMAIN stored \subseteq Ids
    /\ \A i \in Exists : items[i] \in Item /\ Len(items[i].history) <= HistoryLimit
    /\ \A i \in DOMAIN stored : stored[i] \in Item
    /\ running \subseteq Ids
    /\ inflight \in [Ids -> Nat]
    /\ timer \in Nat
    /\ owned \subseteq used /\ used \subseteq Ids
    /\ wish \subseteq Ids /\ overridden \subseteq Ids
    /\ waited \in [Ids -> Nat]
    /\ since \in [Ids -> Instants \cup {0}]
    /\ bootAt \in Instants

\* "so a slow run is never started twice": at most one execution of a schedule is
\* under way, whatever the timer and runNow do, and the schedules shown as running
\* are the ones that have it.
NoOverlap ==
    \A i \in Ids : /\ inflight[i] <= 1
                   /\ (i \in running) = (inflight[i] = 1)
                   /\ i \in Exists => (items[i].status = "running") = (i \in running)

\* A history says "running" of one run only, its newest, and only while that run
\* is under way: a run the process died in is not left running.
HistoryTruthful ==
    \A i \in Exists : \A k \in DOMAIN items[i].history :
        items[i].history[k] = "running" => k = 1 /\ i \in running

\* The runs of a schedule are accounted for.
RunsAccounted == TypeOK /\ NoOverlap /\ HistoryTruthful

\* A schedule that is paused while it is idle stays paused, without a next run,
\* through edits, other schedules' runs and restarts, until it is resumed or run.
PauseHolds ==
    \A i \in (wish \cap Exists) \ overridden :
        items[i].status = "paused" /\ items[i].next = Never

\* An active due schedule waits at most MaxSleep instants while the computer is awake,
\* although neither create nor update arms the timer anew and the timer's clock
\* stops while the computer sleeps.
PromptFiring ==
    \A i \in Exists : mode = "up" /\ Due(items[i]) => waited[i] <= MaxSleep

\* "The cadence advances before the run rather than after it: a long run must not
\* push every later firing back by its own duration": the next run is the first slot
\* after the latest start of a run (or after the latest edit, creation or start of the
\* process), however long that run takes and also when the slot has passed meanwhile,
\* in a run or in a sleep of the computer; so runNow disturbs no cadence and the slots
\* that have passed are made up for by one run.  Edits made during a run are excepted.
NextIsEarliest ==
    \A i \in Exists \ overridden :
        items[i].status # "paused" => items[i].next = NextRunAfter(items[i].freq, since[i])

\* The cadence is kept: the next run is the first slot after the latest start, and an
\* active schedule whose next run is due waits at most one sleep of the timer.  It does
\* not say that every slot is run: those that pass in a sleep, in a run or while the app
\* is closed are not run one by one, and a failed schedule is not fired at all.
CadenceKept == NextIsEarliest /\ PromptFiring

\* Schedules survive restarts and crashes at any point, except that #load drops
\* those whose frequency is a cron expression.
NothingForgotten ==
    mode = "up" => owned \subseteq Exists

\* What fell due while the app was closed is not made up for: a due
\* schedule is fired only for a slot since the process started.
NoReplay ==
    [][\A i \in Exists :
          (i \in running' \ running /\ items[i].status = "active" /\ items[i].next <= clock)
              => items[i].next >= bootAt]_vars

\* What a restart leaves: every schedule, and no backlog.
RestartHonest == []NothingForgotten /\ NoReplay

\* "a failing run is recorded and does not stop the cadence": a schedule whose
\* latest run failed is fired like any other when its next run is due.
FailureKeepsCadence ==
    \A i \in Exists : mode = "up" /\ Overdue(items[i]) => waited[i] <= MaxSleep
=============================================================================
