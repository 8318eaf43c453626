--------------------------- MODULE ActionSupervisor ---------------------------
(***************************************************************************)
(* The action supervisor: interaction calls and session-title workers that *)
(* compete for the slots of their action and for the global slots, the     *)
(* debounce windows, the title cache and its shutdown                      *)
(* (lili-actions/src/execution/supervisor.rs, title_runtime.rs).           *)
(*                                                                         *)
(* Data is abstracted: a title is the session key it was resolved for, the *)
(* debounce deadlines are windows that an action closes, and the audit     *)
(* ring is only the step between the end of a title run and its answer.    *)
(* tokio's semaphores are fair, so waiters form queues.                    *)
(***************************************************************************)
EXTENDS Integers, Sequences, FiniteSets, SequencesExt

CONSTANTS
    Loads,              \* bounds on the calls of execute and of resolve_title
    Keys,               \* bound on the (provider, session) pairs asked for
    Context,            \* contexts of the interaction calls
    Runs,               \* how a spawned child may end
    Filters,            \* filters of the interaction action
    Mode,               \* concurrency mode per action: "reject" or "queue"
    MaxParallel,        \* max_parallel per action
    QueueCapacity,      \* queue_capacity per action
    GlobalConcurrency,  \* global_concurrency of the supervisor
    TitleCapacity       \* CAPACITY of the title runtime

VARIABLES
    load,         \* the bound of this behaviour
    jobs,         \* Job -> its progress
    asks,         \* Asker -> its progress
    slotQueue,    \* Action -> jobs waiting for ActionRuntime::running
    globalQueue,  \* jobs waiting for ActionSupervisor::global
    debounced,    \* interaction action: inside the window of last_accepted
    titles,       \* TitleState: cache, debounce, pending
    shutdown,     \* the shutdown flag and the progress of shutdown_titles
    awaited       \* workers shutdown_titles took out of pending

supervisorVars ==
    <<load, jobs, asks, slotQueue, globalQueue, debounced, titles, shutdown, awaited>>

Action == {"interaction", "session_title"}
Call == UNION {1 .. l.calls : l \in Loads}      \* numbered in the order they are made
Asker == UNION {1 .. l.askers : l \in Loads}
Key == 1 .. Keys                              \* numbered in the order they are first asked for
Worker == {-q : q \in Asker}                  \* the task that a resolve_title may spawn
Job == Call \cup Worker
NoWorker == 0
NoTitle == 0

ASSUME SupervisorAssumption ==
    /\ Loads \subseteq [calls : Nat, askers : Nat] /\ Keys \in Nat
    /\ GlobalConcurrency \in 1 .. 16 /\ TitleCapacity >= 1
    /\ \A a \in Action :
          /\ Mode[a] \in {"reject", "queue"}
          /\ MaxParallel[a] >= 1 /\ QueueCapacity[a] >= 0

-------------------------------------------------------------------------------
NewJob(action) ==
    [step |-> "new", action |-> action, key |-> NoTitle, outcome |-> "none", titled |-> FALSE]

\* matches_context: an empty filter admits everything; a filter without a
\* notification to test admits nothing.
MatchesContext(context) ==
    \/ Filters = [kinds |-> {}, providers |-> {}, projects |-> {}]
    \/ /\ context.notified
       /\ Filters.kinds = {} \/ context.kind \in Filters.kinds
       /\ Filters.providers = {} \/ context.provider \in Filters.providers
       /\ Filters.projects = {} \/ context.project \in Filters.projects

\* ActionRuntime::new: how many jobs of an action may be under way at once.
AdmissionCapacity(a) ==
    MaxParallel[a] + IF Mode[a] = "queue" THEN QueueCapacity[a] ELSE 0

\* Jobs that hold an admission permit, an action slot, a global slot.
Admitted(a) ==
    {j \in Job : /\ jobs[j].action = a
                 /\ \/ jobs[j].step \in {"admitted", "queued", "slotted", "running"}
                    \/ j \in Worker /\ jobs[j].step \in {"spawned", "ended", "finishing"}}
Slotted(a) ==
    {j \in Job : /\ jobs[j].action = a
                 /\ \/ jobs[j].step \in {"slotted", "running"}
                    \/ j \in Worker /\ jobs[j].step = "ended"}
Running ==
    {j \in Job : \/ jobs[j].step = "running"
                 \/ j \in Worker /\ jobs[j].step = "ended"}

Admits(a) == Cardinality(Admitted(a)) < AdmissionCapacity(a)

\* run_action_cancellable: the outcome of a run that was not cancelled.
Outcome(run) ==
    CASE run.timed_out -> "TimedOut"
      [] ~run.timed_out /\ run.io_failed -> "IoFailed"
      [] ~run.timed_out /\ ~run.io_failed /\ run.overflowed -> "OutputOverflow"
      [] OTHER -> IF run.success THEN "Succeeded" ELSE "NonZeroExit"
RunOutcomes == {"SpawnFailed"} \cup {Outcome(run) : run \in Runs}

-------------------------------------------------------------------------------
\* execute: unknown and unmatched actions are answered at once and not recorded.
Execute(c, known, context) ==
    /\ jobs[c].step = "new" /\ c <= load.calls /\ \A d \in 1 .. c - 1 : jobs[d].step # "new"
    /\ jobs' = [jobs EXCEPT ![c] =
          CASE ~known -> [@ EXCEPT !.step = "answered", !.outcome = "UnknownAction"]
            [] known /\ ~MatchesContext(context) ->
                 [@ EXCEPT !.step = "answered", !.outcome = "NotMatched"]
            [] known /\ MatchesContext(context) /\ ~Admits("interaction") ->
                 [@ EXCEPT !.step = "answered", !.outcome = "Saturated"]
            [] OTHER -> [@ EXCEPT !.step = "admitted"]]
    /\ UNCHANGED <<load, asks, slotQueue, globalQueue, debounced, titles, shutdown, awaited>>

\* accept_debounce: a refused call gives its admission back.
AcceptDebounce(c) ==
    /\ jobs[c].step = "admitted"
    /\ IF debounced
          THEN /\ jobs' = [jobs EXCEPT ![c] = [@ EXCEPT !.step = "answered", !.outcome = "Debounced"]]
               /\ UNCHANGED <<slotQueue, debounced>>
          ELSE /\ jobs' = [jobs EXCEPT ![c].step = "queued"]
               /\ slotQueue' = [slotQueue EXCEPT !["interaction"] = Append(@, c)]
               /\ debounced' = TRUE
    /\ UNCHANGED <<load, asks, globalQueue, titles, shutdown, awaited>>

DebounceElapses ==
    /\ debounced
    /\ debounced' = FALSE
    /\ UNCHANGED <<load, jobs, asks, slotQueue, globalQueue, titles, shutdown, awaited>>

\* A worker polls the shutdown flag before its slots (biased select), and once
\* more before it spawns.
Cancelled(j) == j \in Worker /\ shutdown # "off"

TakeActionSlot(a) ==
    /\ slotQueue[a] # <<>>
    /\ Cardinality(Slotted(a)) < MaxParallel[a]
    /\ LET j == Head(slotQueue[a]) IN
       /\ ~Cancelled(j)
       /\ jobs' = [jobs EXCEPT ![j].step = "slotted"]
       /\ slotQueue' = [slotQueue EXCEPT ![a] = Tail(@)]
       /\ globalQueue' = Append(globalQueue, j)
    /\ UNCHANGED <<load, asks, debounced, titles, shutdown, awaited>>

TakeGlobalSlot ==
    /\ globalQueue # <<>>
    /\ Cardinality(Running) < GlobalConcurrency
    /\ LET j == Head(globalQueue) IN
       /\ ~Cancelled(j)
       /\ jobs' = [jobs EXCEPT ![j].step = "running"]
       /\ globalQueue' = Tail(globalQueue)
    /\ UNCHANGED <<load, asks, slotQueue, debounced, titles, shutdown, awaited>>

\* The child exits, fails to spawn or is killed by its timeout.
EndRun(j, outcome) ==
    /\ jobs[j].step = "running" /\ ~Cancelled(j)
    /\ jobs' = [jobs EXCEPT ![j] =
          [@ EXCEPT !.step = IF j \in Worker THEN "ended" ELSE "answered", !.outcome = outcome]]
    /\ UNCHANGED <<load, asks, slotQueue, globalQueue, debounced, titles, shutdown, awaited>>

\* record_audit; then the response decodes to a title, or is null or malformed.
RecordTitle(w, titled) ==
    /\ jobs[w].step = "ended"
    /\ titled => jobs[w].outcome = "Succeeded"
    /\ jobs' = [jobs EXCEPT ![w] =
          [@ EXCEPT !.step = "finishing", !.outcome = "none", !.titled = titled]]
    /\ UNCHANGED <<load, asks, slotQueue, globalQueue, debounced, titles, shutdown, awaited>>

-------------------------------------------------------------------------------
Cached(k) == \E n \in DOMAIN titles.cache : titles.cache[n] = k
Without(s, k) == SelectSeq(s, LAMBDA x : x # k)
Pushed(s, x) == Append(IF Len(s) = TitleCapacity THEN Tail(s) ELSE s, x)

\* TitleState::cached and TitleState::insert, on the keys of the cache.
Promoted(k) == Append(Without(titles.cache, k), k)
Inserted(k) == Pushed(Without(titles.cache, k), k)

\* TitleState::accept: within the window of a key that is still remembered.
Refused(k) == \E n \in DOMAIN titles.debounce : titles.debounce[n] = [key |-> k, open |-> TRUE]
Remembered(k) ==
    Pushed(SelectSeq(titles.debounce, LAMBDA d : d.key # k), [key |-> k, open |-> TRUE])
WindowCloses(n) ==
    /\ n \in DOMAIN titles.debounce /\ titles.debounce[n].open
    /\ titles' = [titles EXCEPT !.debounce[n].open = FALSE]
    /\ UNCHANGED <<load, jobs, asks, slotQueue, globalQueue, debounced, shutdown, awaited>>

SpawnedBy(q) == -q

\* Mutant of PendingWorker: only a worker that already runs is joined.
PendingRunningWorker(k) ==
    IF titles.pending[k] # NoWorker /\ jobs[titles.pending[k]].step # "queued"
       THEN titles.pending[k] ELSE NoWorker

PendingWorker(k) == titles.pending[k]
PendingKeys == {k \in Key : titles.pending[k] # NoWorker}

\* resolve_title reads the flag first and takes the lock later.
AskTitle(q, k) ==
    /\ asks[q].step = "new" /\ q <= load.askers /\ \A r \in 1 .. q - 1 : asks[r].step # "new"
    /\ k > 1 => \E r \in Asker : asks[r].key = k - 1
    /\ asks' = [asks EXCEPT ![q] =
          IF shutdown # "off" THEN [@ EXCEPT !.step = "answered", !.key = k]
                              ELSE [@ EXCEPT !.step = "entered", !.key = k]]
    /\ UNCHANGED <<load, jobs, slotQueue, globalQueue, debounced, titles, shutdown, awaited>>

Answered(ask) == [ask EXCEPT !.step = "answered", !.worker = NoWorker]

ResolveCached(q) ==
    /\ asks[q].step = "entered" /\ Cached(asks[q].key)
    /\ titles' = [titles EXCEPT !.cache = Promoted(asks[q].key)]
    /\ asks' = [asks EXCEPT ![q] = Answered(@)]
    /\ UNCHANGED <<load, jobs, slotQueue, globalQueue, debounced, shutdown, awaited>>

JoinPending(q) ==
    /\ asks[q].step = "entered" /\ ~Cached(asks[q].key)
    /\ PendingWorker(asks[q].key) # NoWorker
    /\ asks' = [asks EXCEPT ![q] =
          [@ EXCEPT !.step = "waiting", !.worker = PendingWorker(asks[q].key)]]
    /\ UNCHANGED <<load, jobs, slotQueue, globalQueue, debounced, titles, shutdown, awaited>>

MaySpawn(k) ==
    /\ Cardinality(PendingKeys) < TitleCapacity
    /\ Admits("session_title")
    /\ ~Refused(k)

RefuseTitle(q) ==
    /\ asks[q].step = "entered" /\ ~Cached(asks[q].key)
    /\ PendingWorker(asks[q].key) = NoWorker /\ ~MaySpawn(asks[q].key)
    /\ asks' = [asks EXCEPT ![q] = Answered(@)]
    /\ UNCHANGED <<load, jobs, slotQueue, globalQueue, debounced, titles, shutdown, awaited>>

SpawnWorker(q) ==
    LET k == asks[q].key  w == SpawnedBy(q) IN
    /\ asks[q].step = "entered" /\ ~Cached(k)
    /\ PendingWorker(k) = NoWorker /\ MaySpawn(k)
    /\ jobs' = [jobs EXCEPT ![w] = [@ EXCEPT !.step = "spawned", !.key = k]]
    /\ titles' = [titles EXCEPT !.debounce = Remembered(k), !.pending[k] = w]
    /\ asks' = [asks EXCEPT ![q] = [@ EXCEPT !.step = "waiting", !.worker = w]]
    /\ UNCHANGED <<load, slotQueue, globalQueue, debounced, shutdown, awaited>>

\* The worker subscribes, checks the flag and asks for its slots.
StartWorker(w) ==
    /\ jobs[w].step = "spawned"
    /\ IF shutdown # "off"
          THEN /\ jobs' = [jobs EXCEPT ![w].step = "finishing"]
               /\ UNCHANGED slotQueue
          ELSE /\ jobs' = [jobs EXCEPT ![w].step = "queued"]
               /\ slotQueue' = [slotQueue EXCEPT !["session_title"] = Append(@, w)]
    /\ UNCHANGED <<load, asks, globalQueue, debounced, titles, shutdown, awaited>>

\* shutdown.changed(): a waiting worker leaves its queue, a running one kills
\* and reaps its process tree.
CancelWorker(w) ==
    /\ jobs[w].step \in {"queued", "slotted", "running"} /\ Cancelled(w)
    /\ jobs' = [jobs EXCEPT ![w].step = "finishing"]
    /\ slotQueue' = [slotQueue EXCEPT !["session_title"] = Without(@, w)]
    /\ globalQueue' = Without(globalQueue, w)
    /\ UNCHANGED <<load, asks, debounced, titles, shutdown, awaited>>

\* Under the lock of the titles: cache, answer every waiter, leave pending.
WaitersOf(w) == {q \in Asker : asks[q].step = "waiting" /\ asks[q].worker = w}
FinishWorkerWaking(w, woken) ==
    LET k == jobs[w].key IN
    /\ jobs[w].step = "finishing"
    /\ titles' = [titles EXCEPT
          !.cache = IF shutdown = "off" /\ jobs[w].titled THEN Inserted(k) ELSE @,
          !.pending[k] = NoWorker]
    /\ asks' = [q \in Asker |->
          IF q \in woken THEN Answered(asks[q]) ELSE asks[q]]
    /\ jobs' = [jobs EXCEPT ![w] = [NewJob("session_title") EXCEPT !.step = "done"]]
    /\ UNCHANGED <<load, slotQueue, globalQueue, debounced, shutdown, awaited>>

\* Mutant of FinishWorker: a null result wakes nobody.
FinishWorkerSilently(w) ==
    FinishWorkerWaking(w, IF jobs[w].titled THEN WaitersOf(w) ELSE {})

FinishWorker(w) == FinishWorkerWaking(w, WaitersOf(w))

-------------------------------------------------------------------------------
\* shutdown_titles: the flag, then the lock, then every worker it took.
BeginShutdown ==
    /\ shutdown = "off"
    /\ shutdown' = "set"
    /\ UNCHANGED <<load, jobs, asks, slotQueue, globalQueue, debounced, titles, awaited>>

TakePending ==
    /\ shutdown = "set"
    /\ shutdown' = "waiting"
    /\ awaited' = {titles.pending[k] : k \in PendingKeys}
    /\ titles' = [cache |-> <<>>, debounce |-> <<>>, pending |-> [k \in Key |-> NoWorker]]
    /\ UNCHANGED <<load, jobs, asks, slotQueue, globalQueue, debounced>>

ReturnShutdown ==
    /\ shutdown = "waiting" /\ \A w \in awaited : jobs[w].step = "done"
    /\ shutdown' = "returned"
    /\ UNCHANGED <<load, jobs, asks, slotQueue, globalQueue, debounced, titles, awaited>>

-------------------------------------------------------------------------------
SupervisorInit ==
    /\ load \in Loads
    /\ jobs = [j \in Job |-> NewJob(IF j \in Worker THEN "session_title" ELSE "interaction")]
    /\ asks = [q \in Asker |-> [step |-> "new", key |-> NoTitle, worker |-> NoWorker]]
    /\ slotQueue = [a \in Action |-> <<>>] /\ globalQueue = <<>>
    /\ debounced = FALSE
    /\ titles = [cache |-> <<>>, debounce |-> <<>>, pending |-> [k \in Key |-> NoWorker]]
    /\ shutdown = "off" /\ awaited = {}

\* What the supervisor does on its own once it was called; a child that does
\* not exit is killed by its timeout.
SupervisorProgress ==
    \/ \E c \in Call : AcceptDebounce(c)
    \/ \E a \in Action : TakeActionSlot(a)
    \/ TakeGlobalSlot
    \/ \E j \in Job, outcome \in RunOutcomes : EndRun(j, outcome)
    \/ \E w \in Worker, titled \in BOOLEAN : RecordTitle(w, titled)
    \/ \E q \in Asker : ResolveCached(q) \/ JoinPending(q) \/ RefuseTitle(q) \/ SpawnWorker(q)
    \/ \E w \in Worker : StartWorker(w) \/ CancelWorker(w) \/ FinishWorker(w)
    \/ TakePending
    \/ ReturnShutdown

SupervisorNext ==
    \/ SupervisorProgress
    \/ \E c \in Call, known \in BOOLEAN, context \in Context : Execute(c, known, context)
    \/ \E q \in Asker, k \in Key : AskTitle(q, k)
    \/ DebounceElapses
    \/ \E n \in 1 .. TitleCapacity : WindowCloses(n)
    \/ BeginShutdown

SupervisorSpec ==
    SupervisorInit /\ [][SupervisorNext]_supervisorVars /\ WF_supervisorVars(SupervisorProgress)

-------------------------------------------------------------------------------
(***************************************************************************)
(* What the supervisor promises.                                           *)
(***************************************************************************)
\* "Concurrent requests for the same provider and session share one query":
\* whatever joins, finishes or is cancelled, no two processes resolve one title
\* at once, also around a shutdown that empties pending under a waiting worker.
OneProcessPerKey ==
    \A v, w \in Worker :
        jobs[v].step = "running" /\ jobs[w].step = "running" /\ jobs[v].key = jobs[w].key
        => v = w

\* Every call gets an answer: no waiter of a title misses its worker's end, no
\* queued call is stranded behind a cancelled worker, and shutdown returns.  The
\* calls are finitely many, so it is enough that all are over at some later time.
UnderWay ==
    \/ \E c \in Call : jobs[c].step \notin {"new", "answered"}
    \/ \E q \in Asker : asks[q].step \notin {"new", "answered"}
    \/ shutdown \in {"set", "waiting"}
EveryCallAnswered == UnderWay ~> ~UnderWay

===============================================================================
