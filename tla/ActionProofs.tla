------------------------------ MODULE ActionProofs ------------------------------
(***************************************************************************)
(* Theorems about the actions.  Loading: whatever actions.toml holds, its  *)
(* valid entries are installed and the others are shown with their fault.  *)
(* Supervision, for any number of calls, keys and slots: a title is        *)
(* resolved by one process at a time.                                      *)
(***************************************************************************)
EXTENDS ActionSupervisor, ActionLoading, SequenceTheorems, FiniteSetTheorems, TLAPS

-------------------------------------------------------------------------------
(***************************************************************************)
(* What a supervisor looks like: jobs, requests and pending keep their     *)
(* shapes, and a request that may still spawn has its worker unused.       *)
(***************************************************************************)
JobStep == {"new", "admitted", "spawned", "queued", "slotted", "running", "ended", "finishing",
            "answered", "done"}
JobOutcome == RunOutcomes \cup {"none", "UnknownAction", "NotMatched", "Saturated", "Debounced"}
JobRecord == [step : JobStep, action : Action, key : {NoTitle} \cup Key, outcome : JobOutcome,
              titled : BOOLEAN]
AskRecord == [step : {"new", "entered", "waiting", "answered"}, key : {NoTitle} \cup Key,
              worker : {NoWorker} \cup Worker]

SupervisorTypeOK ==
    /\ load \in Loads
    /\ jobs \in [Job -> JobRecord]
    /\ asks \in [Asker -> AskRecord]
    /\ titles = [cache |-> titles.cache, debounce |-> titles.debounce, pending |-> titles.pending]
    /\ titles.pending \in [Key -> {NoWorker} \cup Worker]
    /\ slotQueue = [a \in Action |-> slotQueue[a]]
    /\ shutdown \in {"off", "set", "waiting", "returned"}

UnusedWorkers ==
    \A q \in Asker :
        /\ asks[q].step \in {"new", "entered"} => jobs[SpawnedBy(q)].step = "new"
        /\ asks[q].step = "entered" => asks[q].key \in Key

\* A worker from its spawn to its last step under the lock of the titles.
Live(w) ==
    jobs[w].step \in {"spawned", "queued", "slotted", "running", "ended", "finishing"}

\* Until a shutdown empties pending, a live worker is the pending one of its key.
LiveIsPending ==
    shutdown \in {"off", "set"} =>
        \A w \in Worker : Live(w) => jobs[w].key \in Key /\ titles.pending[jobs[w].key] = w

\* Until a shutdown begins, the queues hold each waiting job once and nothing else.
Distinct(queue) == \A m, n \in 1 .. Len(queue) : queue[m] = queue[n] => m = n
Among(queue) == {queue[n] : n \in 1 .. Len(queue)}
Holds(queue, jobset, step, table) ==
    /\ queue \in Seq(jobset) /\ Distinct(queue)
    /\ \A j \in Among(queue) : table[j].step = step
QueuesAreExact ==
    shutdown = "off" =>
        /\ Holds(slotQueue["interaction"], Call, "queued", jobs)
        /\ Holds(slotQueue["session_title"], Worker, "queued", jobs)
        /\ Holds(globalQueue, Job, "slotted", jobs)

SupervisorInv ==
    SupervisorTypeOK /\ UnusedWorkers /\ LiveIsPending /\ QueuesAreExact /\ OneProcessPerKey

\* Calls, requests and workers are told apart by their sign.
LEMMA Identities ==
    /\ Call \subseteq Nat \ {0} /\ Asker \subseteq Nat \ {0}
    /\ Worker \cap Call = {} /\ NoWorker \notin Worker
    /\ \A q \in Asker : SpawnedBy(q) \in Worker
    /\ \A q, r \in Asker : SpawnedBy(q) = SpawnedBy(r) => q = r
<1>1. \A l \in Loads : l.calls \in Nat /\ l.askers \in Nat
  BY SupervisorAssumption
<1>2. Call \subseteq Nat \ {0} /\ Asker \subseteq Nat \ {0}
  BY <1>1 DEF Call, Asker
<1> QED
  BY <1>2 DEF Worker, SpawnedBy, NoWorker

\* Every job the actions write is a job.
LEMMA NewJobs == \A a \in Action : NewJob(a) \in JobRecord
BY DEF NewJob, JobRecord, JobStep, JobOutcome, NoTitle

\* Every update of a job the actions make is one of these.
LEMMA JobUpdates ==
    \A r \in JobRecord, s \in JobStep, o \in JobOutcome, t \in BOOLEAN, k \in {NoTitle} \cup Key :
        /\ [r EXCEPT !.step = s] \in JobRecord
        /\ [r EXCEPT !.step = s, !.outcome = o] \in JobRecord
        /\ [r EXCEPT !.step = s, !.outcome = o, !.titled = t] \in JobRecord
        /\ [r EXCEPT !.step = s, !.key = k] \in JobRecord
BY DEF JobRecord

LEMMA JobsKeepShape ==
    ASSUME jobs \in [Job -> JobRecord], NEW j, NEW r \in JobRecord, jobs' = [jobs EXCEPT ![j] = r]
    PROVE  jobs' \in [Job -> JobRecord]
OBVIOUS

(* The state keeps its shape.  What becomes of the cached titles and of the
   debounce windows does not matter here: the library's SelectSeq is beyond the
   provers, and nothing below depends on it. *)
LEMMA SupervisorKeepsShape ==
    ASSUME SupervisorInv, SupervisorNext
    PROVE  SupervisorTypeOK'
<1> USE DEF SupervisorInv, SupervisorTypeOK, JobStep, JobOutcome
<1>0. "interaction" \in Action /\ "session_title" \in Action
  BY DEF Action
<1>1. ASSUME NEW c \in Call, NEW known \in BOOLEAN, NEW context \in Context,
             Execute(c, known, context)
      PROVE  SupervisorTypeOK'
  <2>1. PICK r \in JobRecord : jobs' = [jobs EXCEPT ![c] = r]
    <3>1. jobs[c] \in JobRecord
      BY DEF Job
    <3>2. PICK o \in JobOutcome : \/ jobs' = [jobs EXCEPT ![c].step = "admitted"]
                                  \/ jobs' = [jobs EXCEPT ![c] = [@ EXCEPT !.step = "answered", !.outcome = o]]
      BY <1>1 DEF Execute
    <3> QED
      BY <3>1, <3>2, JobUpdates
  <2> QED
    BY <1>1, <2>1, JobsKeepShape DEF Execute
<1>2. ASSUME NEW c \in Call, AcceptDebounce(c)
      PROVE  SupervisorTypeOK'
  <2>1. PICK r \in JobRecord : jobs' = [jobs EXCEPT ![c] = r]
    <3>1. jobs[c] \in JobRecord
      BY DEF Job
    <3> QED
      BY <1>2, <3>1, JobUpdates DEF AcceptDebounce
  <2> QED
    BY <1>2, <2>1, JobsKeepShape DEF AcceptDebounce
<1>3. ASSUME NEW a \in Action, TakeActionSlot(a)
      PROVE  SupervisorTypeOK'
  BY <1>3 DEF TakeActionSlot, JobRecord
<1>4. CASE TakeGlobalSlot
  BY <1>4 DEF TakeGlobalSlot, JobRecord
<1>5. ASSUME NEW j \in Job, NEW outcome \in RunOutcomes, EndRun(j, outcome)
      PROVE  SupervisorTypeOK'
  <2>1. PICK step \in JobStep :
            jobs' = [jobs EXCEPT ![j] = [@ EXCEPT !.step = step, !.outcome = outcome]]
    BY <1>5 DEF EndRun
  <2>2. [jobs[j] EXCEPT !.step = step, !.outcome = outcome] \in JobRecord
    BY JobUpdates
  <2> QED
    BY <1>5, <2>1, <2>2, JobsKeepShape DEF EndRun
<1>6. ASSUME NEW w \in Worker, NEW titled \in BOOLEAN, RecordTitle(w, titled)
      PROVE  SupervisorTypeOK'
  <2>1. [jobs[w] EXCEPT !.step = "finishing", !.outcome = "none", !.titled = titled] \in JobRecord
    BY JobUpdates DEF Job
  <2> QED
    BY <1>6, <2>1, JobsKeepShape DEF RecordTitle
<1>7. ASSUME NEW q \in Asker, ResolveCached(q) \/ JoinPending(q) \/ RefuseTitle(q)
      PROVE  SupervisorTypeOK'
  <2>1. CASE ResolveCached(q)
    BY <2>1 DEF ResolveCached, Answered, NoWorker, AskRecord
  <2>2. CASE JoinPending(q)
    <3>1. titles.pending[asks[q].key] \in {NoWorker} \cup Worker
      BY <2>2 DEF JoinPending, UnusedWorkers
    <3>2. [asks[q] EXCEPT !.step = "waiting", !.worker = titles.pending[asks[q].key]] \in AskRecord
      BY <3>1 DEF AskRecord
    <3> QED
      BY <2>2, <3>2 DEF JoinPending, PendingWorker
  <2>3. CASE RefuseTitle(q)
    BY <2>3 DEF RefuseTitle, Answered, NoWorker, AskRecord
  <2> QED
    BY <1>7, <2>1, <2>2, <2>3
<1>8. ASSUME NEW q \in Asker, SpawnWorker(q)
      PROVE  SupervisorTypeOK'
  <2>1. asks[q].key \in Key /\ SpawnedBy(q) \in Worker /\ SpawnedBy(q) \in Job
    BY <1>8, Identities DEF SpawnWorker, UnusedWorkers, Job
  <2>2. [jobs[SpawnedBy(q)] EXCEPT !.step = "spawned", !.key = asks[q].key] \in JobRecord
    BY <2>1, JobUpdates
  <2>3. [asks[q] EXCEPT !.step = "waiting", !.worker = SpawnedBy(q)] \in AskRecord
    BY <2>1 DEF AskRecord
  <2>4. titles' = [cache |-> titles.cache, debounce |-> Remembered(asks[q].key),
                   pending |-> [titles.pending EXCEPT ![asks[q].key] = SpawnedBy(q)]]
    BY <1>8 DEF SpawnWorker
  <2>5. jobs' \in [Job -> JobRecord] /\ asks' \in [Asker -> AskRecord]
    BY <1>8, <2>2, <2>3 DEF SpawnWorker
  <2>6. UNCHANGED <<load, slotQueue, shutdown>>
    BY <1>8 DEF SpawnWorker
  <2> QED
    BY <2>1, <2>4, <2>5, <2>6
<1>9. ASSUME NEW w \in Worker, StartWorker(w)
      PROVE  SupervisorTypeOK'
  <2>1. PICK step \in JobStep : jobs' = [jobs EXCEPT ![w].step = step]
    BY <1>9 DEF StartWorker
  <2>2. jobs' \in [Job -> JobRecord]
    BY <2>1, JobUpdates, JobsKeepShape DEF Job
  <2> QED
    BY <1>9, <2>2 DEF StartWorker
<1>10. ASSUME NEW w \in Worker, CancelWorker(w)
       PROVE  SupervisorTypeOK'
  <2>1. jobs' \in [Job -> JobRecord]
    BY <1>10, JobUpdates, JobsKeepShape DEF CancelWorker, Job
  <2>2. slotQueue' = [slotQueue EXCEPT !["session_title"] = Without(@, w)]
    BY <1>10 DEF CancelWorker
  <2> QED
    BY <1>10, <2>1, <2>2 DEF CancelWorker
<1>11. ASSUME NEW w \in Worker, FinishWorker(w)
       PROVE  SupervisorTypeOK'
  <2>1. [NewJob("session_title") EXCEPT !.step = "done"] \in JobRecord
    BY <1>0, NewJobs, JobUpdates
  <2>2. \A q \in Asker : Answered(asks[q]) \in AskRecord
    BY DEF Answered, AskRecord
  <2>3. jobs' \in [Job -> JobRecord]
    BY <1>11, <2>1, JobsKeepShape DEF FinishWorker, FinishWorkerWaking
  <2>4. asks' \in [Asker -> AskRecord]
    BY <1>11, <2>2 DEF FinishWorker, FinishWorkerWaking
  <2>5. titles' = [cache |-> titles'.cache, debounce |-> titles.debounce,
                   pending |-> [titles.pending EXCEPT ![jobs[w].key] = NoWorker]]
    BY <1>11 DEF FinishWorker, FinishWorkerWaking
  <2> QED
    BY <1>11, <2>3, <2>4, <2>5 DEF FinishWorker, FinishWorkerWaking
<1>12. ASSUME NEW q \in Asker, NEW k \in Key, AskTitle(q, k)
       PROVE  SupervisorTypeOK'
  <2>1. \A step \in {"entered", "answered"} :
            [asks[q] EXCEPT !.step = step, !.key = k] \in AskRecord
    BY DEF AskRecord
  <2>2. asks' \in [Asker -> AskRecord]
    BY <1>12, <2>1 DEF AskTitle
  <2> QED
    BY <1>12, <2>2 DEF AskTitle
<1>13. CASE DebounceElapses \/ BeginShutdown \/ ReturnShutdown
  BY <1>13 DEF DebounceElapses, BeginShutdown, ReturnShutdown
<1>14. ASSUME NEW n \in 1 .. TitleCapacity, WindowCloses(n)
       PROVE  SupervisorTypeOK'
  BY <1>14 DEF WindowCloses
<1>15. CASE TakePending
  BY <1>15 DEF TakePending
<1> QED
  BY <1>1, <1>2, <1>3, <1>4, <1>5, <1>6, <1>7, <1>8, <1>9, <1>10, <1>11, <1>12, <1>13, <1>14,
     <1>15 DEF SupervisorNext, SupervisorProgress

-------------------------------------------------------------------------------
(***************************************************************************)
(* Which workers a step changes.  Most steps leave every worker as live    *)
(* and every key as pending as it was; what remains is the spawn, the end  *)
(* of a worker and the shutdown.                                           *)
(***************************************************************************)
\* No worker becomes live, runs anew before its shutdown or changes its key.
WorkersGoOn ==
    /\ \A w \in Worker : Live(w)' => Live(w) /\ jobs'[w].key = jobs[w].key
    /\ \A w \in Worker : jobs[w].step = "new" => jobs'[w].step = "new"
    /\ shutdown # "off" =>
          \A w \in Worker : jobs'[w].step = "running" => jobs[w].step = "running"
    /\ titles'.pending = titles.pending

LEMMA CallsChangeNoWorker ==
    ASSUME \A w \in Worker : jobs'[w] = jobs[w], UNCHANGED titles
    PROVE  WorkersGoOn
BY DEF WorkersGoOn, Live

LEMMA MostStepsGoOn ==
    ASSUME SupervisorInv, SupervisorNext
    PROVE  \/ WorkersGoOn
           \/ \E q \in Asker : SpawnWorker(q)
           \/ \E w \in Worker : FinishWorker(w)
           \/ TakePending
<1> USE DEF SupervisorInv, SupervisorTypeOK
<1>0. \A j \in Job : jobs[j] \in JobRecord
  OBVIOUS
<1>1. ASSUME NEW c \in Call, NEW known \in BOOLEAN, NEW context \in Context,
             Execute(c, known, context)
      PROVE  WorkersGoOn
  BY <1>1, Identities, CallsChangeNoWorker DEF Execute, Job
<1>2. ASSUME NEW c \in Call, AcceptDebounce(c)
      PROVE  WorkersGoOn
  BY <1>2, Identities, CallsChangeNoWorker DEF AcceptDebounce, Job
<1>3. ASSUME NEW a \in Action, TakeActionSlot(a)
      PROVE  WorkersGoOn
  <2> DEFINE j == Head(slotQueue[a])
  <2>1. jobs' = [jobs EXCEPT ![j].step = "slotted"] /\ UNCHANGED <<titles, shutdown>> /\ ~Cancelled(j)
    BY <1>3 DEF TakeActionSlot
  <2>2. CASE j \notin Worker
    <3>1. \A w \in Worker : jobs'[w] = jobs[w]
      BY <2>1, <2>2 DEF Job
    <3> QED
      BY <2>1, <3>1, CallsChangeNoWorker
  <2>3. CASE j \in Worker
    <3>1. shutdown = "off"
      BY <2>1, <2>3 DEF Cancelled
    <3>2. Len(slotQueue[a]) > 0 /\ j = slotQueue[a][1]
      BY <1>3, <3>1 DEF TakeActionSlot, QueuesAreExact, Holds, Action
    <3>3. jobs[j].step = "queued"
      <4>1. /\ Len(slotQueue[a]) \in Nat
            /\ \A n \in 1 .. Len(slotQueue[a]) : jobs[slotQueue[a][n]].step = "queued"
        BY <3>1 DEF QueuesAreExact, Holds, Among, Action
      <4> HIDE DEF j
      <4> QED
        BY <3>2, <4>1
    <3>4. \A w \in Worker : w # j => jobs'[w] = jobs[w]
      BY <2>1 DEF Job
    <3>5. jobs'[j].step = "slotted" /\ jobs'[j].key = jobs[j].key
      BY <2>1, <2>3, <1>0 DEF Job, JobRecord
    <3> QED
      BY <2>1, <3>1, <3>3, <3>4, <3>5 DEF WorkersGoOn, Live
  <2> QED
    BY <2>2, <2>3
<1>4. ASSUME TakeGlobalSlot
      PROVE  WorkersGoOn
  <2> DEFINE j == Head(globalQueue)
  <2>1. jobs' = [jobs EXCEPT ![j].step = "running"] /\ UNCHANGED <<titles, shutdown>> /\ ~Cancelled(j)
    BY <1>4 DEF TakeGlobalSlot
  <2>2. CASE j \notin Worker
    <3>1. \A w \in Worker : jobs'[w] = jobs[w]
      BY <2>1, <2>2 DEF Job
    <3> QED
      BY <2>1, <3>1, CallsChangeNoWorker
  <2>3. CASE j \in Worker
    <3>1. shutdown = "off"
      BY <2>1, <2>3 DEF Cancelled
    <3>2. Len(globalQueue) > 0 /\ j = globalQueue[1]
      BY <1>4, <3>1 DEF TakeGlobalSlot, QueuesAreExact, Holds
    <3>3. jobs[j].step = "slotted"
      <4>1. /\ Len(globalQueue) \in Nat
            /\ \A n \in 1 .. Len(globalQueue) : jobs[globalQueue[n]].step = "slotted"
        BY <3>1 DEF QueuesAreExact, Holds, Among
      <4> HIDE DEF j
      <4> QED
        BY <3>2, <4>1
    <3>4. \A w \in Worker : w # j => jobs'[w] = jobs[w]
      BY <2>1 DEF Job
    <3>5. jobs'[j].step = "running" /\ jobs'[j].key = jobs[j].key
      BY <2>1, <2>3, <1>0 DEF Job, JobRecord
    <3> QED
      BY <2>1, <3>1, <3>3, <3>4, <3>5 DEF WorkersGoOn, Live
  <2> QED
    BY <2>2, <2>3
<1>5. ASSUME NEW j \in Job, NEW outcome \in RunOutcomes, EndRun(j, outcome)
      PROVE  WorkersGoOn
  <2>1. \A w \in Worker : w # j => jobs'[w] = jobs[w]
    BY <1>5 DEF EndRun, Job
  <2>2. j \in Worker => jobs'[j].step = "ended" /\ jobs'[j].key = jobs[j].key
    BY <1>0, <1>5 DEF EndRun, JobRecord
  <2> QED
    BY <1>5, <2>1, <2>2 DEF EndRun, WorkersGoOn, Live
<1>6. ASSUME NEW w \in Worker, NEW titled \in BOOLEAN, RecordTitle(w, titled)
      PROVE  WorkersGoOn
  <2>1. \A v \in Worker : v # w => jobs'[v] = jobs[v]
    BY <1>6 DEF RecordTitle, Job
  <2>2. jobs'[w].step = "finishing" /\ jobs'[w].key = jobs[w].key
    BY <1>0, <1>6 DEF RecordTitle, JobRecord, Job
  <2> QED
    BY <1>6, <2>1, <2>2 DEF RecordTitle, WorkersGoOn, Live
<1>7. ASSUME NEW q \in Asker, ResolveCached(q) \/ JoinPending(q) \/ RefuseTitle(q)
      PROVE  WorkersGoOn
  <2>1. UNCHANGED jobs /\ titles'.pending = titles.pending
    BY <1>7 DEF ResolveCached, JoinPending, RefuseTitle
  <2> QED
    BY <2>1 DEF WorkersGoOn, Live
<1>8. ASSUME NEW w \in Worker, StartWorker(w)
      PROVE  WorkersGoOn
  <2>1. \A v \in Worker : v # w => jobs'[v] = jobs[v]
    BY <1>8 DEF StartWorker, Job
  <2>2. jobs'[w].step \in {"queued", "finishing"} /\ jobs'[w].key = jobs[w].key
    BY <1>0, <1>8 DEF StartWorker, JobRecord, Job
  <2> QED
    BY <1>8, <2>1, <2>2 DEF StartWorker, WorkersGoOn, Live
<1>9. ASSUME NEW w \in Worker, CancelWorker(w)
      PROVE  WorkersGoOn
  <2>1. \A v \in Worker : v # w => jobs'[v] = jobs[v]
    BY <1>9 DEF CancelWorker, Job
  <2>2. jobs'[w].step = "finishing" /\ jobs'[w].key = jobs[w].key
    BY <1>0, <1>9 DEF CancelWorker, JobRecord, Job
  <2> QED
    BY <1>9, <2>1, <2>2 DEF CancelWorker, WorkersGoOn, Live
<1>10. ASSUME NEW q \in Asker, NEW k \in Key, AskTitle(q, k)
       PROVE  WorkersGoOn
  BY <1>10, CallsChangeNoWorker DEF AskTitle
<1>11. ASSUME DebounceElapses \/ BeginShutdown \/ ReturnShutdown
       PROVE  WorkersGoOn
  BY <1>11, CallsChangeNoWorker DEF DebounceElapses, BeginShutdown, ReturnShutdown
<1>12. ASSUME NEW n \in 1 .. TitleCapacity, WindowCloses(n)
       PROVE  WorkersGoOn
  <2>1. UNCHANGED jobs /\ titles'.pending = titles.pending
    BY <1>12 DEF WindowCloses
  <2> QED
    BY <2>1 DEF WorkersGoOn, Live
<1> QED
  BY <1>1, <1>2, <1>3, <1>4, <1>5, <1>6, <1>7, <1>8, <1>9, <1>10, <1>11, <1>12
     DEF SupervisorNext, SupervisorProgress

-------------------------------------------------------------------------------
(***************************************************************************)
(* The parts of the invariant, one lemma each.                             *)
(***************************************************************************)
\* A request spawns at most once, and nothing but its own spawn uses its worker.
LEMMA WorkersStayUnused ==
    ASSUME SupervisorInv, SupervisorNext
    PROVE  UnusedWorkers'
<1> USE DEF SupervisorInv, SupervisorTypeOK
<1>0. \A q \in Asker : SpawnedBy(q) \in Worker /\ SpawnedBy(q) \in Job
  BY Identities DEF Job
<1>1. CASE \A q \in Asker : asks'[q] = asks[q] \/ asks'[q].step \in {"waiting", "answered"}
  <2>1. CASE WorkersGoOn
    BY <1>0, <1>1, <2>1 DEF UnusedWorkers, WorkersGoOn
  <2>2. ASSUME NEW r \in Asker, SpawnWorker(r)
        PROVE  UnusedWorkers'
    <3>1. asks'[r].step = "waiting"
      BY <2>2 DEF SpawnWorker, AskRecord
    <3>2. \A w \in Worker : w # SpawnedBy(r) => jobs'[w] = jobs[w]
      BY <2>2 DEF SpawnWorker, Job
    <3>3. \A q \in Asker : q # r => SpawnedBy(q) # SpawnedBy(r)
      BY Identities
    <3> QED
      BY <1>0, <1>1, <3>1, <3>2, <3>3 DEF UnusedWorkers
  <2>3. ASSUME NEW w \in Worker, FinishWorker(w)
        PROVE  UnusedWorkers'
    <3>1. \A v \in Worker : v # w => jobs'[v] = jobs[v]
      BY <2>3 DEF FinishWorker, FinishWorkerWaking, Job
    <3>2. jobs[w].step # "new"
      BY <2>3 DEF FinishWorker, FinishWorkerWaking
    <3> QED
      BY <1>0, <1>1, <3>1, <3>2 DEF UnusedWorkers
  <2>4. CASE TakePending
    BY <1>0, <1>1, <2>4 DEF UnusedWorkers, TakePending
  <2> QED
    BY <2>1, <2>2, <2>3, <2>4, MostStepsGoOn
<1>2. ASSUME NEW q \in Asker, NEW k \in Key, AskTitle(q, k)
      PROVE  UnusedWorkers'
  <2>1. asks[q].step = "new" /\ asks'[q].key = k /\ UNCHANGED jobs
    BY <1>2 DEF AskTitle, AskRecord
  <2>2. \A r \in Asker : r # q => asks'[r] = asks[r]
    BY <1>2 DEF AskTitle
  <2> QED
    BY <2>1, <2>2 DEF UnusedWorkers
<1>3. ASSUME \A q \in Asker, k \in Key : ~AskTitle(q, k)
      PROVE  \A q \in Asker : asks'[q] = asks[q] \/ asks'[q].step \in {"waiting", "answered"}
  <2>1. ASSUME NEW q \in Asker, ResolveCached(q) \/ RefuseTitle(q)
        PROVE  \A r \in Asker : asks'[r] = asks[r] \/ asks'[r].step \in {"waiting", "answered"}
    BY <2>1 DEF ResolveCached, RefuseTitle, Answered, AskRecord
  <2>2. ASSUME NEW q \in Asker, JoinPending(q) \/ SpawnWorker(q)
        PROVE  \A r \in Asker : asks'[r] = asks[r] \/ asks'[r].step \in {"waiting", "answered"}
    <3>1. PICK w : asks' = [asks EXCEPT ![q] = [@ EXCEPT !.step = "waiting", !.worker = w]]
      BY <2>2 DEF JoinPending, SpawnWorker
    <3> QED
      BY <3>1 DEF AskRecord
  <2>3. ASSUME NEW w \in Worker, FinishWorker(w)
        PROVE  \A r \in Asker : asks'[r] = asks[r] \/ asks'[r].step \in {"waiting", "answered"}
    BY <2>3 DEF FinishWorker, FinishWorkerWaking, Answered, AskRecord
  <2>4. ASSUME UNCHANGED asks
        PROVE  \A r \in Asker : asks'[r] = asks[r] \/ asks'[r].step \in {"waiting", "answered"}
    BY <2>4
  <2> QED
    BY <1>3, <2>1, <2>2, <2>3, <2>4
       DEF SupervisorNext, SupervisorProgress, AcceptDebounce, TakeActionSlot, TakeGlobalSlot,
           EndRun, RecordTitle, StartWorker, CancelWorker, TakePending, ReturnShutdown, Execute,
           DebounceElapses, WindowCloses, BeginShutdown
<1> QED
  BY <1>1, <1>2, <1>3

\* A key gets a new worker only when no worker of it is live.
LEMMA LiveStaysPending ==
    ASSUME SupervisorInv, SupervisorNext
    PROVE  LiveIsPending'
<1> USE DEF SupervisorInv, SupervisorTypeOK
<1>0. shutdown' \in {"off", "set"} => shutdown \in {"off", "set"}
  BY DEF SupervisorNext, SupervisorProgress, AcceptDebounce, TakeActionSlot, TakeGlobalSlot,
         EndRun, RecordTitle, StartWorker, CancelWorker, TakePending, ReturnShutdown, Execute,
         DebounceElapses, WindowCloses, BeginShutdown, AskTitle, ResolveCached, JoinPending,
         RefuseTitle, SpawnWorker, FinishWorker, FinishWorkerWaking
<1>1. CASE WorkersGoOn
  BY <1>0, <1>1 DEF WorkersGoOn, LiveIsPending
<1>2. ASSUME NEW q \in Asker, SpawnWorker(q)
      PROVE  LiveIsPending'
  <2> DEFINE w == SpawnedBy(q)
             k == asks[q].key
  <2>1. w \in Worker /\ w \in Job /\ k \in Key
    BY <1>2, Identities DEF SpawnWorker, UnusedWorkers, Job
  <2>2. jobs' = [jobs EXCEPT ![w] = [@ EXCEPT !.step = "spawned", !.key = k]]
    BY <1>2 DEF SpawnWorker
  <2>3. titles'.pending = [titles.pending EXCEPT ![k] = w] /\ titles.pending[k] = NoWorker
    BY <1>2 DEF SpawnWorker, PendingWorker
  <2> HIDE DEF w, k
  <2>4. jobs'[w].key = k
    BY <2>1, <2>2 DEF JobRecord
  <2>5. \A v \in Worker : v # w => jobs'[v] = jobs[v]
    BY <2>2 DEF Job
  <2>6. titles'.pending[k] = w /\ \A l \in Key : l # k => titles'.pending[l] = titles.pending[l]
    BY <2>1, <2>3
  <2>7. NoWorker \notin Worker
    BY Identities
  <2> QED
    BY <1>0, <2>1, <2>3, <2>4, <2>5, <2>6, <2>7 DEF LiveIsPending, Live
<1>3. ASSUME NEW w \in Worker, FinishWorker(w)
      PROVE  LiveIsPending'
  <2> DEFINE k == jobs[w].key
  <2>1. \A v \in Worker : v # w => jobs'[v] = jobs[v]
    BY <1>3 DEF FinishWorker, FinishWorkerWaking, Job
  <2>2. jobs'[w] = [NewJob("session_title") EXCEPT !.step = "done"]
    BY <1>3 DEF FinishWorker, FinishWorkerWaking, Job
  <2>3. ~Live(w)'
    BY <2>2 DEF Live, NewJob
  <2>4. Live(w) /\ titles'.pending = [titles.pending EXCEPT ![k] = NoWorker]
    BY <1>3 DEF FinishWorker, FinishWorkerWaking, Live
  <2> HIDE DEF k
  <2>5. \A l \in Key : l # k => titles'.pending[l] = titles.pending[l]
    BY <2>4
  <2> QED
    BY <1>0, <2>1, <2>3, <2>4, <2>5 DEF LiveIsPending, Live, k
<1>4. CASE TakePending
  BY <1>4 DEF TakePending, LiveIsPending
<1> QED
  BY <1>1, <1>2, <1>3, <1>4, MostStepsGoOn

-------------------------------------------------------------------------------
(***************************************************************************)
(* The queues.                                                             *)
(***************************************************************************)
\* Who waits at the end of a queue for the first time waits in it once.
LEMMA AppendOnce ==
    ASSUME NEW S, NEW queue \in Seq(S), NEW j \in S, Distinct(queue), j \notin Among(queue)
    PROVE  /\ Append(queue, j) \in Seq(S) /\ Distinct(Append(queue, j))
           /\ Among(Append(queue, j)) = Among(queue) \cup {j}
<1> DEFINE longer == Append(queue, j)
<1>1. longer \in Seq(S) /\ Len(longer) = Len(queue) + 1 /\ Len(queue) \in Nat
  OBVIOUS
<1>2. \A n \in 1 .. Len(queue) : longer[n] = queue[n]
  OBVIOUS
<1>3. longer[Len(queue) + 1] = j
  OBVIOUS
<1> HIDE DEF longer
<1>4. Distinct(longer)
  BY <1>1, <1>2, <1>3 DEF Distinct, Among
<1>5. Among(longer) = Among(queue) \cup {j}
  BY <1>1, <1>2, <1>3 DEF Among
<1> QED
  BY <1>1, <1>4, <1>5 DEF longer

\* Who is first leaves, and does not wait a second time behind.
LEMMA TailOnce ==
    ASSUME NEW S, NEW queue \in Seq(S), Distinct(queue), queue # <<>>
    PROVE  /\ Tail(queue) \in Seq(S) /\ Distinct(Tail(queue))
           /\ Head(queue) \in Among(queue)
           /\ Among(Tail(queue)) = Among(queue) \ {Head(queue)}
<1> DEFINE shorter == Tail(queue)
<1>1. /\ shorter \in Seq(S) /\ Len(shorter) = Len(queue) - 1 /\ Len(queue) \in Nat \ {0}
      /\ Head(queue) = queue[1]
  OBVIOUS
<1>2. \A n \in 1 .. Len(queue) - 1 : shorter[n] = queue[n + 1]
  OBVIOUS
<1> HIDE DEF shorter
<1>3. Distinct(shorter)
  <2> SUFFICES ASSUME NEW m \in 1 .. Len(shorter), NEW n \in 1 .. Len(shorter),
                      shorter[m] = shorter[n]
               PROVE  m = n
    BY DEF Distinct
  <2>1. m + 1 \in 1 .. Len(queue) /\ n + 1 \in 1 .. Len(queue) /\ queue[m + 1] = queue[n + 1]
    BY <1>1, <1>2
  <2> QED
    BY <1>1, <2>1 DEF Distinct
<1>4. Among(shorter) = Among(queue) \ {Head(queue)}
  <2>1. ASSUME NEW x \in Among(shorter)
        PROVE  x \in Among(queue) \ {Head(queue)}
    <3>1. PICK n \in 1 .. Len(shorter) : x = queue[n + 1] /\ n + 1 \in 1 .. Len(queue)
      BY <1>1, <1>2 DEF Among
    <3>2. queue[n + 1] # queue[1]
      BY <1>1, <3>1 DEF Distinct
    <3> QED
      BY <1>1, <3>1, <3>2 DEF Among
  <2>2. ASSUME NEW x \in Among(queue) \ {Head(queue)}
        PROVE  x \in Among(shorter)
    <3>1. PICK n \in 1 .. Len(queue) : x = queue[n]
      BY DEF Among
    <3>2. n # 1 /\ n - 1 \in 1 .. Len(shorter)
      BY <1>1, <3>1
    <3>3. shorter[n - 1] = queue[n]
      BY <1>1, <1>2, <3>2
    <3> QED
      BY <3>1, <3>2, <3>3 DEF Among
  <2> QED
    BY <2>1, <2>2
<1>5. Head(queue) \in Among(queue)
  BY <1>1 DEF Among
<1> QED
  BY <1>1, <1>3, <1>4, <1>5 DEF shorter

\* What a step does to a queue: nothing, or somebody comes, or the first goes.
LEMMA QueueWaits ==
    ASSUME NEW queue, NEW S \in SUBSET Job, NEW step, Holds(queue, S, step, jobs),
           \A j \in Job : jobs[j].step = step => jobs'[j].step = step
    PROVE  Holds(queue, S, step, jobs')
<1>1. Among(queue) \subseteq S
  BY DEF Holds, Among
<1> QED
  BY <1>1 DEF Holds

LEMMA QueueGrows ==
    ASSUME NEW queue, NEW S \in SUBSET Job, NEW step, Holds(queue, S, step, jobs),
           NEW c \in S, jobs[c].step # step, jobs'[c].step = step,
           \A j \in Job : j # c => jobs'[j] = jobs[j]
    PROVE  Holds(Append(queue, c), S, step, jobs')
<1>1. c \notin Among(queue) /\ queue \in Seq(S) /\ Distinct(queue)
  BY DEF Holds
<1>2. /\ Append(queue, c) \in Seq(S) /\ Distinct(Append(queue, c))
      /\ Among(Append(queue, c)) = Among(queue) \cup {c}
  BY <1>1, AppendOnce
<1>3. Among(queue) \subseteq Job
  BY <1>1 DEF Among
<1> QED
  BY <1>2, <1>3 DEF Holds

LEMMA QueueMovesOn ==
    ASSUME NEW queue, NEW S \in SUBSET Job, NEW step, Holds(queue, S, step, jobs), queue # <<>>,
           \A j \in Job : j # Head(queue) => jobs'[j] = jobs[j]
    PROVE  /\ Holds(Tail(queue), S, step, jobs')
           /\ Head(queue) \in S /\ jobs[Head(queue)].step = step
<1>1. queue \in Seq(S) /\ Distinct(queue)
  BY DEF Holds
<1>2. /\ Tail(queue) \in Seq(S) /\ Distinct(Tail(queue))
      /\ Head(queue) \in Among(queue)
      /\ Among(Tail(queue)) = Among(queue) \ {Head(queue)}
  BY <1>1, TailOnce
<1>3. Among(queue) \subseteq S
  BY <1>1 DEF Among
<1> QED
  BY <1>2, <1>3 DEF Holds

\* A job whose step is neither that of one queue nor of the other disturbs none.
LEMMA QueuesWait ==
    ASSUME QueuesAreExact, shutdown = "off", UNCHANGED <<slotQueue, globalQueue>>,
           \A j \in Job : jobs[j].step \in {"queued", "slotted"} => jobs'[j].step = jobs[j].step
    PROVE  QueuesAreExact'
<1>1. Call \subseteq Job /\ Worker \subseteq Job
  BY DEF Job
<1>2. /\ Holds(slotQueue["interaction"], Call, "queued", jobs')
      /\ Holds(slotQueue["session_title"], Worker, "queued", jobs')
      /\ Holds(globalQueue, Job, "slotted", jobs')
  BY <1>1, QueueWaits DEF QueuesAreExact
<1> QED
  BY <1>2 DEF QueuesAreExact

LEMMA QueuesStayExact ==
    ASSUME SupervisorInv, SupervisorNext
    PROVE  QueuesAreExact'
<1> USE DEF SupervisorInv, SupervisorTypeOK
<1> SUFFICES ASSUME shutdown' = "off"
             PROVE  QueuesAreExact'
  BY DEF QueuesAreExact
<1>0. shutdown = "off"
  BY DEF SupervisorNext, SupervisorProgress, AcceptDebounce, TakeActionSlot, TakeGlobalSlot,
         EndRun, RecordTitle, StartWorker, CancelWorker, TakePending, ReturnShutdown, Execute,
         DebounceElapses, WindowCloses, BeginShutdown, AskTitle, ResolveCached, JoinPending,
         RefuseTitle, SpawnWorker, FinishWorker, FinishWorkerWaking
<1>a. Call \subseteq Job /\ Worker \subseteq Job /\ \A j \in Job : jobs[j] \in JobRecord
  BY DEF Job
<1>b. /\ Holds(slotQueue["interaction"], Call, "queued", jobs)
      /\ Holds(slotQueue["session_title"], Worker, "queued", jobs)
      /\ Holds(globalQueue, Job, "slotted", jobs)
  BY <1>0 DEF QueuesAreExact
<1>c. "interaction" \in Action /\ "session_title" \in Action /\ "interaction" # "session_title"
  BY DEF Action
<1>1. ASSUME NEW c \in Call, NEW known \in BOOLEAN, NEW context \in Context,
             Execute(c, known, context)
      PROVE  QueuesAreExact'
  <2>1. \A j \in Job : j # c => jobs'[j] = jobs[j]
    BY <1>1 DEF Execute
  <2>2. jobs[c].step = "new" /\ UNCHANGED <<slotQueue, globalQueue>>
    BY <1>1 DEF Execute
  <2> QED
    BY <1>0, <2>1, <2>2, QueuesWait
<1>2. ASSUME NEW c \in Call, AcceptDebounce(c)
      PROVE  QueuesAreExact'
  <2>1. \A j \in Job : j # c => jobs'[j] = jobs[j]
    BY <1>2 DEF AcceptDebounce
  <2>2. CASE debounced
    <3>1. jobs[c].step = "admitted" /\ UNCHANGED <<slotQueue, globalQueue>>
      BY <1>2, <2>2 DEF AcceptDebounce
    <3> QED
      BY <1>0, <2>1, <3>1, QueuesWait
  <2>3. CASE ~debounced
    <3>1. /\ jobs[c].step = "admitted" /\ jobs'[c].step = "queued" /\ globalQueue' = globalQueue
          /\ slotQueue' = [slotQueue EXCEPT !["interaction"] = Append(@, c)]
      <4>1. /\ jobs[c].step = "admitted" /\ globalQueue' = globalQueue
            /\ jobs' = [jobs EXCEPT ![c].step = "queued"]
            /\ slotQueue' = [slotQueue EXCEPT !["interaction"] = Append(@, c)]
        BY <1>2, <2>3 DEF AcceptDebounce
      <4>2. jobs'[c].step = "queued"
        BY <1>a, <4>1 DEF JobRecord
      <4> QED
        BY <4>1, <4>2
    <3>2. Holds(Append(slotQueue["interaction"], c), Call, "queued", jobs')
      BY <1>a, <1>b, <2>1, <3>1, QueueGrows
    <3>3. /\ Holds(slotQueue["session_title"], Worker, "queued", jobs')
          /\ Holds(globalQueue, Job, "slotted", jobs')
      BY <1>a, <1>b, <2>1, <3>1, QueueWaits
    <3>4. /\ slotQueue'["interaction"] = Append(slotQueue["interaction"], c)
          /\ slotQueue'["session_title"] = slotQueue["session_title"]
      BY <1>c, <3>1
    <3> QED
      BY <3>1, <3>2, <3>3, <3>4 DEF QueuesAreExact
  <2> QED
    BY <2>2, <2>3
<1>3. ASSUME NEW a \in Action, TakeActionSlot(a)
      PROVE  QueuesAreExact'
  <2> DEFINE queue == slotQueue[a]
             j == Head(queue)
             S == IF a = "interaction" THEN Call ELSE Worker
  <2>1. /\ jobs' = [jobs EXCEPT ![j].step = "slotted"] /\ queue # <<>>
        /\ slotQueue' = [slotQueue EXCEPT ![a] = Tail(queue)]
        /\ globalQueue' = Append(globalQueue, j)
    BY <1>3 DEF TakeActionSlot
  <2>2. \A i \in Job : i # j => jobs'[i] = jobs[i]
    BY <2>1
  <2>3. Holds(queue, S, "queued", jobs) /\ S \in SUBSET Job
    BY <1>a, <1>b DEF Action
  <2> HIDE DEF S, queue
  <2>4. Holds(Tail(queue), S, "queued", jobs') /\ j \in S /\ jobs[j].step = "queued"
    BY <2>1, <2>2, <2>3, QueueMovesOn
  <2> HIDE DEF j
  <2>5. j \in Job /\ jobs'[j].step = "slotted"
    BY <1>a, <2>1, <2>3, <2>4 DEF JobRecord
  <2>6. Holds(Append(globalQueue, j), Job, "slotted", jobs')
    BY <1>b, <2>2, <2>4, <2>5, QueueGrows
  <2>7. ASSUME NEW b \in Action, b # a
        PROVE  Holds(slotQueue[b], IF b = "interaction" THEN Call ELSE Worker, "queued", jobs')
    <3> DEFINE R == IF b = "interaction" THEN Call ELSE Worker
    <3>1. Holds(slotQueue[b], R, "queued", jobs) /\ R \in SUBSET Job
      BY <1>a, <1>b DEF Action
    <3>2. j \notin R
      BY <2>4, <2>7, Identities DEF S, Action
    <3>3. \A i \in Among(slotQueue[b]) : i \in R
      BY <3>1 DEF Holds, Among
    <3> HIDE DEF R
    <3>4. Holds(slotQueue[b], R, "queued", jobs')
      BY <2>2, <3>1, <3>2, <3>3 DEF Holds
    <3> QED
      BY <3>4 DEF R
  <2>8. slotQueue'[a] = Tail(queue) /\ \A b \in Action : b # a => slotQueue'[b] = slotQueue[b]
    BY <2>1
  <2>9. \A b \in Action : Holds(slotQueue'[b], IF b = "interaction" THEN Call ELSE Worker, "queued", jobs')
    BY <2>4, <2>7, <2>8 DEF S
  <2> QED
    BY <1>c, <2>1, <2>6, <2>9 DEF QueuesAreExact
<1>4. ASSUME TakeGlobalSlot
      PROVE  QueuesAreExact'
  <2> DEFINE j == Head(globalQueue)
  <2>1. /\ jobs' = [jobs EXCEPT ![j].step = "running"] /\ globalQueue # <<>>
        /\ globalQueue' = Tail(globalQueue) /\ slotQueue' = slotQueue
    BY <1>4 DEF TakeGlobalSlot
  <2>2. \A i \in Job : i # j => jobs'[i] = jobs[i]
    BY <2>1
  <2>3. Holds(Tail(globalQueue), Job, "slotted", jobs') /\ j \in Job /\ jobs[j].step = "slotted"
    BY <1>b, <2>1, <2>2, QueueMovesOn
  <2> HIDE DEF j
  <2>4. \A i \in Job : jobs[i].step = "queued" => jobs'[i].step = "queued"
    BY <2>2, <2>3
  <2>5. /\ Holds(slotQueue["interaction"], Call, "queued", jobs')
        /\ Holds(slotQueue["session_title"], Worker, "queued", jobs')
    BY <1>a, <1>b, <2>4, QueueWaits
  <2> QED
    BY <2>1, <2>3, <2>5 DEF QueuesAreExact
<1>5. ASSUME NEW j \in Job, NEW outcome \in RunOutcomes, EndRun(j, outcome)
      PROVE  QueuesAreExact'
  <2>1. /\ jobs[j].step = "running" /\ UNCHANGED <<slotQueue, globalQueue>>
        /\ \A i \in Job : i # j => jobs'[i] = jobs[i]
    BY <1>5 DEF EndRun
  <2> QED
    BY <1>0, <2>1, QueuesWait
<1>6. ASSUME NEW w \in Worker, NEW titled \in BOOLEAN, RecordTitle(w, titled)
      PROVE  QueuesAreExact'
  <2>1. /\ jobs[w].step = "ended" /\ UNCHANGED <<slotQueue, globalQueue>>
        /\ \A i \in Job : i # w => jobs'[i] = jobs[i]
    BY <1>6 DEF RecordTitle
  <2> QED
    BY <1>0, <2>1, QueuesWait
<1>7. ASSUME NEW q \in Asker, SpawnWorker(q)
      PROVE  QueuesAreExact'
  <2>1. /\ jobs[SpawnedBy(q)].step = "new" /\ UNCHANGED <<slotQueue, globalQueue>>
        /\ \A i \in Job : i # SpawnedBy(q) => jobs'[i] = jobs[i]
    BY <1>7 DEF SpawnWorker, UnusedWorkers
  <2> QED
    BY <1>0, <2>1, QueuesWait
<1>8. ASSUME NEW w \in Worker, StartWorker(w)
      PROVE  QueuesAreExact'
  <2>1. /\ jobs[w].step = "spawned" /\ jobs'[w].step = "queued" /\ globalQueue' = globalQueue
        /\ slotQueue' = [slotQueue EXCEPT !["session_title"] = Append(@, w)]
        /\ \A j \in Job : j # w => jobs'[j] = jobs[j]
    <3>1. /\ jobs[w].step = "spawned" /\ globalQueue' = globalQueue
          /\ jobs' = [jobs EXCEPT ![w].step = "queued"]
          /\ slotQueue' = [slotQueue EXCEPT !["session_title"] = Append(@, w)]
      BY <1>0, <1>8 DEF StartWorker
    <3>2. jobs'[w].step = "queued"
      BY <1>a, <3>1 DEF JobRecord
    <3> QED
      BY <3>1, <3>2
  <2>2. Holds(Append(slotQueue["session_title"], w), Worker, "queued", jobs')
    BY <1>a, <1>b, <2>1, QueueGrows
  <2>3. /\ Holds(slotQueue["interaction"], Call, "queued", jobs')
        /\ Holds(globalQueue, Job, "slotted", jobs')
    BY <1>a, <1>b, <2>1, QueueWaits
  <2>4. /\ slotQueue'["session_title"] = Append(slotQueue["session_title"], w)
        /\ slotQueue'["interaction"] = slotQueue["interaction"]
    BY <1>c, <2>1
  <2> QED
    BY <2>1, <2>2, <2>3, <2>4 DEF QueuesAreExact
<1>9. ASSUME NEW w \in Worker, FinishWorker(w)
      PROVE  QueuesAreExact'
  <2>1. /\ jobs[w].step = "finishing" /\ UNCHANGED <<slotQueue, globalQueue>>
        /\ \A i \in Job : i # w => jobs'[i] = jobs[i]
    BY <1>9 DEF FinishWorker, FinishWorkerWaking
  <2> QED
    BY <1>0, <2>1, QueuesWait
<1>10. ASSUME UNCHANGED <<jobs, slotQueue, globalQueue>>
       PROVE  QueuesAreExact'
  BY <1>0, <1>10, QueuesWait
<1>11. \A w \in Worker : ~CancelWorker(w)
  BY <1>0 DEF CancelWorker, Cancelled
<1> QED
  BY <1>1, <1>2, <1>3, <1>4, <1>5, <1>6, <1>7, <1>8, <1>9, <1>10, <1>11
     DEF SupervisorNext, SupervisorProgress, TakePending, ReturnShutdown, DebounceElapses,
         WindowCloses, BeginShutdown, AskTitle, ResolveCached, JoinPending, RefuseTitle

\* Two processes of a key would both be its pending worker; a shutdown starts none.
LEMMA OneProcessStays ==
    ASSUME SupervisorInv, SupervisorNext, LiveIsPending', SupervisorTypeOK'
    PROVE  OneProcessPerKey'
<1>1. CASE shutdown' \in {"off", "set"}
  BY <1>1 DEF LiveIsPending, OneProcessPerKey, Live
<1>2. CASE shutdown' \in {"waiting", "returned"}
  <2>1. OneProcessPerKey /\ (shutdown = "set" \/ shutdown \in {"waiting", "returned"})
    BY <1>2 DEF SupervisorInv, SupervisorTypeOK,
           SupervisorNext, SupervisorProgress, AcceptDebounce, TakeActionSlot, TakeGlobalSlot,
           EndRun, RecordTitle, StartWorker, CancelWorker, TakePending, ReturnShutdown, Execute,
           DebounceElapses, WindowCloses, BeginShutdown, AskTitle, ResolveCached, JoinPending,
           RefuseTitle, SpawnWorker, FinishWorker, FinishWorkerWaking
  <2>2. ASSUME NEW w \in Worker, jobs'[w].step = "running"
        PROVE  jobs[w].step = "running" /\ jobs'[w].key = jobs[w].key
    <3>1. CASE WorkersGoOn
      BY <2>1, <2>2, <3>1 DEF WorkersGoOn, Live
    <3>2. ASSUME NEW q \in Asker, SpawnWorker(q)
          PROVE  jobs'[w] = jobs[w]
      <4>1. SpawnedBy(q) \in Job /\ jobs[SpawnedBy(q)] \in JobRecord
        BY Identities DEF Job, SupervisorInv, SupervisorTypeOK
      <4>2. jobs'[SpawnedBy(q)].step = "spawned"
        BY <3>2, <4>1 DEF SpawnWorker, SupervisorInv, SupervisorTypeOK, JobRecord
      <4> QED
        BY <2>2, <3>2, <4>2 DEF SpawnWorker, SupervisorInv, SupervisorTypeOK, Job
    <3>3. ASSUME NEW v \in Worker, FinishWorker(v)
          PROVE  jobs'[w] = jobs[w]
      <4>1. jobs'[v].step = "done"
        BY <3>3 DEF FinishWorker, FinishWorkerWaking, SupervisorInv, SupervisorTypeOK, NewJob, Job
      <4> QED
        BY <2>2, <3>3, <4>1 DEF FinishWorker, FinishWorkerWaking, SupervisorInv, SupervisorTypeOK, Job
    <3>4. CASE TakePending
      BY <2>2, <3>4 DEF TakePending
    <3> QED
      BY <2>2, <3>1, <3>2, <3>3, <3>4, MostStepsGoOn
  <2> QED
    BY <2>1, <2>2 DEF OneProcessPerKey
<1> QED
  BY <1>1, <1>2 DEF SupervisorTypeOK

-------------------------------------------------------------------------------
LEMMA SupervisorStarts == SupervisorInit => SupervisorInv
<1> SUFFICES ASSUME SupervisorInit
             PROVE  SupervisorInv
  OBVIOUS
<1> USE DEF SupervisorInit
<1>1. \A j \in Job : jobs[j].step = "new"
  BY DEF NewJob
<1>2. jobs \in [Job -> JobRecord]
  BY NewJobs DEF Action
<1>3. SupervisorTypeOK
  BY <1>2 DEF SupervisorTypeOK, AskRecord, NoTitle, NoWorker
<1>4. UnusedWorkers
  BY <1>1, Identities DEF UnusedWorkers, Job
<1>5. LiveIsPending /\ OneProcessPerKey
  BY <1>1 DEF LiveIsPending, OneProcessPerKey, Live, Job
<1>6. slotQueue["interaction"] = <<>> /\ slotQueue["session_title"] = <<>> /\ globalQueue = <<>>
  BY DEF Action
<1>7. \A S : Holds(<<>>, S, "queued", jobs) /\ Holds(<<>>, S, "slotted", jobs)
  BY DEF Holds, Distinct, Among
<1> QED
  BY <1>3, <1>4, <1>5, <1>6, <1>7 DEF SupervisorInv, QueuesAreExact

(* "Concurrent requests for the same provider and session share one query": for
   any number of calls, requests, keys and slots, however the workers of titles
   are joined, cancelled and finished and whenever a shutdown empties pending, no
   two processes resolve the title of one key at the same time (resolve_title,
   shutdown_titles). *)
THEOREM OneProcessResolvesAKey == SupervisorSpec => []OneProcessPerKey
<1>1. SupervisorInv /\ [SupervisorNext]_supervisorVars => SupervisorInv'
  <2> SUFFICES ASSUME SupervisorInv, [SupervisorNext]_supervisorVars
               PROVE  SupervisorInv'
    OBVIOUS
  <2>1. CASE SupervisorNext
    <3>1. SupervisorTypeOK' /\ UnusedWorkers' /\ LiveIsPending' /\ QueuesAreExact'
      BY <2>1, SupervisorKeepsShape, WorkersStayUnused, LiveStaysPending, QueuesStayExact
    <3> QED
      BY <2>1, <3>1, OneProcessStays DEF SupervisorInv
  <2>2. CASE UNCHANGED supervisorVars
    BY <2>2 DEF supervisorVars, SupervisorInv, SupervisorTypeOK, UnusedWorkers, LiveIsPending,
                QueuesAreExact, OneProcessPerKey, Live, Holds
  <2> QED
    BY <2>1, <2>2
<1>2. SupervisorInv => OneProcessPerKey
  BY DEF SupervisorInv
<1> QED
  BY <1>1, <1>2, SupervisorStarts, PTL DEF SupervisorSpec

-------------------------------------------------------------------------------
(***************************************************************************)
(* Loading actions.  Every entry that was looked at has left one view, and *)
(* one diagnostic or one enabled action.                                   *)
(***************************************************************************)
IsSequence(s) == s \in Seq(Range(s))
IsLoader(l) ==
    /\ l = [step |-> l.step, entries |-> l.entries, seen |-> l.seen, enabled |-> l.enabled,
            views |-> l.views, faults |-> l.faults]
    /\ IsSequence(l.entries) /\ IsSequence(l.enabled) /\ IsSequence(l.views)
    /\ IsSequence(l.faults)
IsEntry(e) ==
    /\ e.queue \in Nat /\ e.mode \in {"queue", "reject"}
    /\ e.filter \in {"none", "providers", "kinds", "projects", "invalid"}

Looked == 1 .. Len(loader.views)
FaultsOf(i) == {f \in Range(loader.faults) : f.entry = i}

NamesAreTaken ==
    \A id \in loader.seen :
        \E i \in Looked : loader.entries[i].parses /\ loader.entries[i].id = id
SoundAreEnabled == \A i \in Looked : SoundAlone(i) => loader.entries[i] \in Range(loader.enabled)
FaultsAreShown ==
    /\ \A f \in Range(loader.faults) : f.entry \in 0 .. Len(loader.views)
    /\ \A i \in Looked : loader.views[i].enabled => FaultsOf(i) = {}
    /\ \A i \in Looked : ~loader.views[i].enabled => \E f : FaultsOf(i) = {f}
EnabledPass ==
    /\ \A e \in Range(loader.enabled) : IsEntry(e) /\ Passes(e) /\ e.id \in loader.seen
    /\ \A i, j \in 1 .. Len(loader.enabled) : loader.enabled[i].id = loader.enabled[j].id => i = j

\* Nothing was collected yet.
IsFresh(l) ==
    /\ l.entries = <<>> /\ l.seen = {} /\ l.enabled = <<>> /\ l.views = <<>>
    /\ \A f \in Range(l.faults) : f.entry = 0

LoaderInv ==
    /\ IsLoader(loader) /\ \A e \in Range(loader.entries) : IsEntry(e)
    /\ loader.step \in {"look", "read", "entries", "loaded", "done"}
    /\ loader.step \in {"look", "read"} => IsFresh(loader) /\ loader.faults = <<>>
    /\ Len(loader.views) <= Len(loader.entries)
    /\ loader.step \in {"loaded", "done"} => Len(loader.views) = Len(loader.entries)
    /\ NamesAreTaken /\ SoundAreEnabled /\ FaultsAreShown /\ EnabledPass

LoadingInv ==
    /\ LoaderInv /\ actionsFile \in File
    /\ loader.step = "done" => installed.enabled = loader.enabled

\* What Append does, whatever the elements are.
LEMMA Appended ==
    ASSUME NEW s, IsSequence(s), NEW x
    PROVE  /\ IsSequence(Append(s, x)) /\ Len(s) \in Nat /\ Len(Append(s, x)) = Len(s) + 1
           /\ \A i \in 1 .. Len(s) : Append(s, x)[i] = s[i]
           /\ Append(s, x)[Len(s) + 1] = x
           /\ Range(Append(s, x)) = Range(s) \cup {x}
           /\ Range(s) = {s[i] : i \in 1 .. Len(s)}
  <1> DEFINE T == Range(s) \cup {x}
  <1>1. s \in Seq(T)
    BY SeqMonotonic DEF IsSequence
  <1>2. Len(s) \in Nat /\ DOMAIN s = 1 .. Len(s)
    BY <1>1, LenProperties
  <1> HIDE DEF T
  <1>3. /\ Append(s, x) \in Seq(T \cup {x}) /\ Len(Append(s, x)) = Len(s) + 1
        /\ \A i \in 1 .. Len(s) : Append(s, x)[i] = s[i]
        /\ Append(s, x)[Len(s) + 1] = x
    BY <1>1, AppendProperties
  <1>4. DOMAIN Append(s, x) = 1 .. Len(s) + 1
    BY <1>3, LenProperties
  <1>5. Range(s) = {s[i] : i \in 1 .. Len(s)}
    BY <1>2 DEF Range
  <1>6. Range(Append(s, x)) = Range(s) \cup {x}
    BY <1>2, <1>3, <1>4, <1>5 DEF Range
  <1>7. IsSequence(Append(s, x))
    <2>1. T \cup {x} = Range(Append(s, x))
      BY <1>6 DEF T
    <2> QED
      BY <1>3, <2>1 DEF IsSequence
  <1> QED
    BY <1>2, <1>3, <1>5, <1>6, <1>7

LEMMA NoneAppended == IsSequence(<<>>) /\ Len(<<>>) = 0 /\ Range(<<>>) = {}
  <1>1. Range(<<>>) = {}
    BY DEF Range
  <1> QED
    BY <1>1, EmptySeq DEF IsSequence

LEMMA DisabledFields ==
    ASSUME IsLoader(loader), NEW e, NEW id, NEW shown, NEW code
    PROVE  Disabled(e, id, shown, code) =
             [step |-> loader.step, entries |-> loader.entries, seen |-> loader.seen,
              enabled |-> loader.enabled, views |-> Append(loader.views, View(e, id, shown, FALSE)),
              faults |-> Append(loader.faults,
                                [entry |-> Len(loader.views) + 1, id |-> id, code |-> code])]
  <1> DEFINE step == loader.step
             entries == loader.entries
             seen == loader.seen
             enabled == loader.enabled
             faults == loader.faults
             views == Append(loader.views, View(e, id, shown, FALSE))
             found == Append(faults, [entry |-> Len(loader.views) + 1, id |-> id, code |-> code])
             viewed == [step |-> step, entries |-> entries, seen |-> seen, enabled |-> enabled,
                        views |-> views, faults |-> faults]
  <1>1. loader = [step |-> step, entries |-> entries, seen |-> seen, enabled |-> enabled,
                  views |-> loader.views, faults |-> faults]
    BY DEF IsLoader
  <1>2. Disabled(e, id, shown, code) = [loader EXCEPT !.views = views, !.faults = found]
    BY DEF Disabled
  <1> HIDE DEF step, entries, seen, enabled, faults, views, found
  <1>3. [loader EXCEPT !.views = views] = viewed
    BY <1>1
  <1>4. [viewed EXCEPT !.faults = found] =
           [step |-> step, entries |-> entries, seen |-> seen, enabled |-> enabled,
            views |-> views, faults |-> found]
    OBVIOUS
  <1> HIDE DEF viewed
  <1>5. Disabled(e, id, shown, code) = [viewed EXCEPT !.faults = found]
    BY <1>2, <1>3
  <1> QED
    BY <1>4, <1>5 DEF step, entries, seen, enabled, faults, views, found

LEMMA EnabledFields ==
    ASSUME IsLoader(loader), NEW e
    PROVE  Enabled(e) =
             [step |-> loader.step, entries |-> loader.entries, seen |-> loader.seen,
              enabled |-> Append(loader.enabled, e),
              views |-> Append(loader.views, View(e, e.id, TRUE, TRUE)), faults |-> loader.faults]
  <1> DEFINE step == loader.step
             entries == loader.entries
             seen == loader.seen
             faults == loader.faults
             views == Append(loader.views, View(e, e.id, TRUE, TRUE))
             enabled == Append(loader.enabled, e)
             before == loader.enabled
             viewed == [step |-> step, entries |-> entries, seen |-> seen, enabled |-> before,
                        views |-> views, faults |-> faults]
  <1>1. loader = [step |-> step, entries |-> entries, seen |-> seen, enabled |-> before,
                  views |-> loader.views, faults |-> faults]
    BY DEF IsLoader
  <1>2. Enabled(e) = [loader EXCEPT !.views = views, !.enabled = enabled]
    BY DEF Enabled
  <1> HIDE DEF step, entries, seen, faults, views, enabled, before
  <1>3. [loader EXCEPT !.views = views] = viewed
    BY <1>1
  <1>4. [viewed EXCEPT !.enabled = enabled] =
           [step |-> step, entries |-> entries, seen |-> seen, enabled |-> enabled,
            views |-> views, faults |-> faults]
    OBVIOUS
  <1> HIDE DEF viewed
  <1>5. Enabled(e) = [viewed EXCEPT !.enabled = enabled]
    BY <1>2, <1>3
  <1> QED
    BY <1>4, <1>5 DEF step, entries, seen, faults, views, enabled

LEMMA ViewFields ==
    ASSUME NEW e, NEW id, NEW shown, NEW on
    PROVE  View(e, id, shown, on).enabled = on
  BY DEF View

\* What a diagnosed entry and an enabled one leave behind.
Diagnosed(e) ==
    /\ \E view, fault :
          /\ ~view.enabled /\ fault.entry = Len(loader.views) + 1
          /\ loader'.views = Append(loader.views, view)
          /\ loader'.faults = Append(loader.faults, fault)
    /\ loader'.enabled = loader.enabled
    /\ loader'.seen = loader.seen \/ (e.parses /\ loader'.seen = loader.seen \cup {e.id})
    /\ e.parses => e.id = NoId \/ e.id \in loader.seen \/ ~Passes(e)
Installed(e) ==
    /\ \E view : view.enabled /\ loader'.views = Append(loader.views, view)
    /\ loader'.faults = loader.faults /\ loader'.enabled = Append(loader.enabled, e)
    /\ loader'.seen = loader.seen \cup {e.id}
    /\ e.parses /\ e.id \notin loader.seen /\ Passes(e)
IsAtEntries(l) ==
    l = [step |-> "entries", entries |-> loader.entries, seen |-> l.seen, enabled |-> l.enabled,
         views |-> l.views, faults |-> l.faults]

LEMMA EntryOutcome ==
    ASSUME LoaderInv, LoadsEntry
    PROVE  LET e == loader.entries[Len(loader.views) + 1] IN
           IsAtEntries(loader') /\ (Diagnosed(e) \/ Installed(e))
  <1> DEFINE e == loader.entries[Len(loader.views) + 1]
  <1>1. IsLoader(loader) /\ loader.step = "entries" /\ NoId \notin loader.seen \ {NoId}
    BY DEF LoaderInv, LoadsEntry
  <1>2. loader' = CASE ~e.parses -> Disabled(e, e.id, FALSE, "malformed_entry")
                    [] e.parses /\ e.id = NoId -> Disabled(e, NoId, FALSE, "invalid_identifier")
                    [] e.parses /\ e.id \in loader.seen \ {NoId} ->
                          Disabled(e, e.id, TRUE, "duplicate_identifier")
                    [] OTHER -> Validated(e)
    BY DEF LoadsEntry
  <1> HIDE DEF e
  <1>3. ASSUME NEW id, NEW shown, NEW code, loader' = Disabled(e, id, shown, code),
               e.parses => e.id = NoId \/ e.id \in loader.seen \/ ~Passes(e)
        PROVE  IsAtEntries(loader') /\ Diagnosed(e)
    <2> DEFINE view == View(e, id, shown, FALSE)
               fault == [entry |-> Len(loader.views) + 1, id |-> id, code |-> code]
    <2>1. ~view.enabled
      BY ViewFields
    <2>2. fault.entry = Len(loader.views) + 1
      OBVIOUS
    <2>3. loader' = [step |-> loader.step, entries |-> loader.entries, seen |-> loader.seen,
                     enabled |-> loader.enabled, views |-> Append(loader.views, view),
                     faults |-> Append(loader.faults, fault)]
      BY <1>1, <1>3, DisabledFields
    <2> HIDE DEF view, fault
    <2> QED
      BY <1>1, <1>3, <2>1, <2>2, <2>3 DEF Diagnosed, IsAtEntries
  <1>4. ASSUME e.parses, e.id # NoId, e.id \notin loader.seen, loader' = Validated(e)
        PROVE  IsAtEntries(loader') /\ (Diagnosed(e) \/ Installed(e))
    <2>1. CASE Passes(e)
      <3> DEFINE view == View(e, e.id, TRUE, TRUE)
                 views == Append(loader.views, view)
                 enabled == Append(loader.enabled, e)
      <3>1. view.enabled
        BY ViewFields
      <3>2. Enabled(e) = [step |-> loader.step, entries |-> loader.entries, seen |-> loader.seen,
                          enabled |-> enabled, views |-> views, faults |-> loader.faults]
        BY <1>1, EnabledFields
      <3>3. loader' = [Enabled(e) EXCEPT !.seen = loader.seen \cup {e.id}]
        BY <1>4, <2>1 DEF Validated, Seen
      <3> HIDE DEF view
      <3>4. views = Append(loader.views, view) /\ enabled = Append(loader.enabled, e)
        OBVIOUS
      <3> HIDE DEF views, enabled
      <3>5. loader' = [step |-> loader.step, entries |-> loader.entries,
                       seen |-> loader.seen \cup {e.id},
                       enabled |-> enabled, views |-> views, faults |-> loader.faults]
        BY <3>2, <3>3
      <3> QED
        BY <1>1, <1>4, <2>1, <3>1, <3>4, <3>5 DEF Installed, IsAtEntries
    <2>2. CASE ~Passes(e)
      <3> DEFINE view == View(e, e.id, FALSE, FALSE)
                 fault == [entry |-> Len(loader.views) + 1, id |-> e.id, code |-> FirstFault(e)]
                 views == Append(loader.views, view)
                 faults == Append(loader.faults, fault)
      <3>1. ~view.enabled /\ fault.entry = Len(loader.views) + 1
        BY ViewFields
      <3>2. Disabled(e, e.id, FALSE, FirstFault(e)) =
               [step |-> loader.step, entries |-> loader.entries, seen |-> loader.seen,
                enabled |-> loader.enabled, views |-> views, faults |-> faults]
        BY <1>1, DisabledFields
      <3>3. loader' = [Disabled(e, e.id, FALSE, FirstFault(e)) EXCEPT
                          !.seen = loader.seen \cup {e.id}]
        BY <1>4, <2>2 DEF Validated, Seen
      <3> HIDE DEF view, fault
      <3>4. views = Append(loader.views, view) /\ faults = Append(loader.faults, fault)
        OBVIOUS
      <3> HIDE DEF views, faults
      <3> DEFINE before == Disabled(e, e.id, FALSE, FirstFault(e))
                 seen == loader.seen \cup {e.id}
                 step == loader.step
                 entries == loader.entries
                 enabled == loader.enabled
      <3>5. loader' = [before EXCEPT !.seen = seen]
        BY <3>3
      <3>6. before = [step |-> step, entries |-> entries, seen |-> loader.seen,
                      enabled |-> enabled, views |-> views, faults |-> faults]
        BY <3>2
      <3> HIDE DEF before, seen, step, entries, enabled
      <3>7. loader' = [step |-> step, entries |-> entries, seen |-> seen, enabled |-> enabled,
                       views |-> views, faults |-> faults]
        BY <3>5, <3>6
      <3> QED
        BY <1>1, <1>4, <2>2, <3>1, <3>4, <3>7
           DEF Diagnosed, IsAtEntries, seen, step, entries, enabled
    <2> QED
      BY <2>1, <2>2
  <1>5. CASE ~e.parses
    <2>1. loader' = Disabled(e, e.id, FALSE, "malformed_entry")
      BY <1>2, <1>5
    <2> QED
      BY <1>3, <1>5, <2>1 DEF e
  <1>6. CASE e.parses /\ e.id = NoId
    <2>1. loader' = Disabled(e, NoId, FALSE, "invalid_identifier")
      BY <1>2, <1>6
    <2> QED
      BY <1>3, <1>6, <2>1 DEF e
  <1>7. CASE e.parses /\ e.id # NoId /\ e.id \in loader.seen
    <2>1. loader' = Disabled(e, e.id, TRUE, "duplicate_identifier")
      BY <1>2, <1>7
    <2> QED
      BY <1>3, <1>7, <2>1 DEF e
  <1>8. CASE e.parses /\ e.id # NoId /\ e.id \notin loader.seen
    <2>1. loader' = Validated(e)
      BY <1>2, <1>8
    <2> QED
      BY <1>4, <1>8, <2>1 DEF e
  <1> QED
    BY <1>5, <1>6, <1>7, <1>8 DEF e

LEMMA EntryKeeps ==
    ASSUME LoaderInv, LoadsEntry
    PROVE  LoaderInv'
  <1> DEFINE n == Len(loader.views)
             e == loader.entries[n + 1]
  <1>1. /\ IsLoader(loader) /\ n < Len(loader.entries) /\ NamesAreTaken /\ SoundAreEnabled
        /\ FaultsAreShown /\ EnabledPass /\ \A f \in Range(loader.entries) : IsEntry(f)
    BY DEF LoaderInv, LoadsEntry
  <1>2. n \in Nat /\ Len(loader.entries) \in Nat
    BY <1>1, Appended DEF IsLoader
  <1>3. e \in Range(loader.entries)
    <2>1. Range(loader.entries) = {loader.entries[i] : i \in 1 .. Len(loader.entries)}
      BY <1>1, Appended DEF IsLoader
    <2> QED
      BY <1>1, <1>2, <2>1
  <1>4. IsAtEntries(loader') /\ (Diagnosed(e) \/ Installed(e))
    BY EntryOutcome
  <1>5. loader'.entries = loader.entries /\ loader'.step = "entries"
    BY <1>4 DEF IsAtEntries
  <1>6. DOMAIN loader.entries = 1 .. Len(loader.entries)
    BY <1>1, LenProperties DEF IsLoader, IsSequence
  <1>7. \A i : SoundAlone(i)' <=> SoundAlone(i)
    BY <1>5 DEF SoundAlone
  <1>8. ASSUME SoundAlone(n + 1)
        PROVE  e.parses /\ e.id # NoId /\ e.id \notin loader.seen /\ Passes(e)
    <2>1. e.parses /\ e.id # NoId /\ Passes(e)
      BY <1>8 DEF SoundAlone
    <2>2. \A i \in 1 .. n : ~(loader.entries[i].parses /\ loader.entries[i].id = e.id)
      BY <1>1, <1>2, <1>6, <1>8 DEF SoundAlone
    <2> QED
      BY <1>1, <2>1, <2>2 DEF NamesAreTaken, Looked
  <1> HIDE DEF e
  <1>9. ASSUME Diagnosed(e)
        PROVE  LoaderInv'
    <2>1. PICK view, fault :
             /\ ~view.enabled /\ fault.entry = n + 1
             /\ loader'.views = Append(loader.views, view)
             /\ loader'.faults = Append(loader.faults, fault)
      BY <1>9 DEF Diagnosed
    <2>2. /\ IsSequence(loader'.views) /\ Len(loader'.views) = n + 1
          /\ \A i \in 1 .. n : loader'.views[i] = loader.views[i]
          /\ loader'.views[n + 1] = view
      BY <1>1, <2>1, Appended DEF IsLoader
    <2>3. IsSequence(loader'.faults) /\ Range(loader'.faults) = Range(loader.faults) \cup {fault}
      BY <1>1, <2>1, Appended DEF IsLoader
    <2>4. loader'.enabled = loader.enabled /\ loader.seen \subseteq loader'.seen
      BY <1>9 DEF Diagnosed
    <2>5. IsLoader(loader)'
      BY <1>1, <1>4, <2>2, <2>3, <2>4 DEF IsLoader, IsAtEntries
    <2>6. NamesAreTaken'
      <3>1. \A id \in loader'.seen : id \in loader.seen \/ (e.parses /\ id = e.id)
        BY <1>9 DEF Diagnosed
      <3>2. e = loader.entries[n + 1]
        BY DEF e
      <3> QED
        BY <1>1, <1>2, <1>5, <2>2, <3>1, <3>2 DEF NamesAreTaken, Looked
    <2>7. SoundAreEnabled'
      <3>1. ~SoundAlone(n + 1)
        BY <1>8, <1>9 DEF Diagnosed
      <3> QED
        BY <1>1, <1>2, <1>5, <1>7, <2>2, <2>4, <3>1 DEF SoundAreEnabled, Looked
    <2>8. FaultsAreShown'
      <3>1. \A i \in 1 .. n : {f \in Range(loader'.faults) : f.entry = i} = FaultsOf(i)
        BY <1>2, <2>1, <2>3 DEF FaultsOf
      <3>2. {f \in Range(loader'.faults) : f.entry = n + 1} = {fault}
        BY <1>1, <1>2, <2>1, <2>3 DEF FaultsAreShown
      <3>3. \A f \in Range(loader'.faults) : f.entry \in 0 .. n + 1
        BY <1>1, <1>2, <2>1, <2>3 DEF FaultsAreShown
      <3>4. ASSUME NEW i \in 1 .. n + 1
            PROVE  /\ loader'.views[i].enabled => FaultsOf(i)' = {}
                   /\ ~loader'.views[i].enabled => \E f : FaultsOf(i)' = {f}
        <4>1. CASE i = n + 1
          BY <2>1, <2>2, <3>2, <4>1 DEF FaultsOf
        <4>2. CASE i \in 1 .. n
          <5>1. FaultsOf(i)' = FaultsOf(i) /\ loader'.views[i] = loader.views[i]
            BY <2>2, <3>1, <4>2 DEF FaultsOf
          <5> QED
            BY <1>1, <4>2, <5>1 DEF FaultsAreShown, Looked
        <4>3. i = n + 1 \/ i \in 1 .. n
          BY <1>2
        <4> QED
          BY <4>1, <4>2, <4>3
      <3> QED
        BY <2>2, <3>3, <3>4 DEF FaultsAreShown, Looked
    <2>9. EnabledPass'
      BY <1>1, <2>4 DEF EnabledPass
    <2> QED
      BY <1>1, <1>2, <1>5, <2>2, <2>5, <2>6, <2>7, <2>8, <2>9 DEF LoaderInv
  <1>10. ASSUME Installed(e)
         PROVE  LoaderInv'
    <2>1. PICK view : view.enabled /\ loader'.views = Append(loader.views, view)
      BY <1>10 DEF Installed
    <2>2. /\ IsSequence(loader'.views) /\ Len(loader'.views) = n + 1
          /\ \A i \in 1 .. n : loader'.views[i] = loader.views[i]
          /\ loader'.views[n + 1] = view
      BY <1>1, <2>1, Appended DEF IsLoader
    <2>3. /\ loader'.faults = loader.faults /\ loader'.enabled = Append(loader.enabled, e)
          /\ loader'.seen = loader.seen \cup {e.id}
          /\ e.parses /\ e.id \notin loader.seen /\ Passes(e)
      BY <1>10 DEF Installed
    <2>4. /\ IsSequence(loader'.enabled) /\ Len(loader'.enabled) = Len(loader.enabled) + 1
          /\ Len(loader.enabled) \in Nat
          /\ \A i \in 1 .. Len(loader.enabled) : loader'.enabled[i] = loader.enabled[i]
          /\ loader'.enabled[Len(loader.enabled) + 1] = e
          /\ Range(loader'.enabled) = Range(loader.enabled) \cup {e}
          /\ Range(loader.enabled) = {loader.enabled[i] : i \in 1 .. Len(loader.enabled)}
      BY <1>1, <2>3, Appended DEF IsLoader
    <2>5. IsLoader(loader)'
      BY <1>1, <1>4, <2>2, <2>3, <2>4 DEF IsLoader, IsAtEntries
    <2>6. NamesAreTaken'
      <3>1. \A id \in loader'.seen : id \in loader.seen \/ (e.parses /\ id = e.id)
        BY <2>3
      <3>2. e = loader.entries[n + 1]
        BY DEF e
      <3> QED
        BY <1>1, <1>2, <1>5, <2>2, <3>1, <3>2 DEF NamesAreTaken, Looked
    <2>7. SoundAreEnabled'
      <3>1. e = loader.entries[n + 1]
        BY DEF e
      <3> QED
        BY <1>1, <1>2, <1>5, <1>7, <2>2, <2>4, <3>1 DEF SoundAreEnabled, Looked
    <2>8. FaultsAreShown'
      <3>1. {f \in Range(loader.faults) : f.entry = n + 1} = {}
        BY <1>1, <1>2 DEF FaultsAreShown
      <3>2. \A f \in Range(loader.faults) : f.entry \in 0 .. n + 1
        BY <1>1, <1>2 DEF FaultsAreShown
      <3>3. ASSUME NEW i \in 1 .. n + 1
            PROVE  /\ loader'.views[i].enabled => FaultsOf(i)' = {}
                   /\ ~loader'.views[i].enabled => \E f : FaultsOf(i)' = {f}
        <4>1. FaultsOf(i)' = FaultsOf(i)
          BY <2>3 DEF FaultsOf
        <4>2. CASE i = n + 1
          BY <2>1, <2>2, <3>1, <4>1, <4>2 DEF FaultsOf
        <4>3. CASE i \in 1 .. n
          <5>1. loader'.views[i] = loader.views[i]
            BY <2>2, <4>3
          <5> QED
            BY <1>1, <4>1, <4>3, <5>1 DEF FaultsAreShown, Looked
        <4>4. i = n + 1 \/ i \in 1 .. n
          BY <1>2
        <4> QED
          BY <4>2, <4>3, <4>4
      <3> QED
        BY <2>2, <2>3, <3>2, <3>3 DEF FaultsAreShown, Looked
    <2>9. EnabledPass'
      <3>1. \A f \in Range(loader'.enabled) : IsEntry(f) /\ Passes(f) /\ f.id \in loader'.seen
        BY <1>1, <1>3, <2>3, <2>4 DEF EnabledPass
      <3>2. \A i \in 1 .. Len(loader.enabled) : loader'.enabled[i].id \in loader.seen
        BY <1>1, <2>4 DEF EnabledPass
      <3>3. \A i, j \in 1 .. Len(loader.enabled) + 1 :
               loader'.enabled[i].id = loader'.enabled[j].id => i = j
        BY <1>1, <2>3, <2>4, <3>2 DEF EnabledPass
      <3> QED
        BY <2>4, <3>1, <3>3 DEF EnabledPass
    <2> QED
      BY <1>1, <1>2, <1>5, <2>2, <2>5, <2>6, <2>7, <2>8, <2>9 DEF LoaderInv
  <1> QED
    BY <1>4, <1>9, <1>10

LEMMA NothingLoaded ==
    ASSUME IsLoader(loader'), IsFresh(loader'), loader'.step \in {"loaded", "look", "read"},
           loader'.step \in {"look", "read"} => loader'.faults = <<>>
    PROVE  LoaderInv'
  <1>1. Range(<<>>) = {} /\ Len(<<>>) = 0
    BY NoneAppended
  <1>2. NamesAreTaken' /\ SoundAreEnabled' /\ EnabledPass'
    BY <1>1 DEF NamesAreTaken, SoundAreEnabled, EnabledPass, Looked, IsFresh
  <1>3. FaultsAreShown'
    BY <1>1 DEF FaultsAreShown, Looked, IsFresh
  <1> QED
    BY <1>1, <1>2, <1>3 DEF LoaderInv, IsFresh

LEMMA FailedFields ==
    ASSUME NEW code
    PROVE  GlobalFailure(code) =
             [step |-> "loaded", entries |-> <<>>, seen |-> {}, enabled |-> <<>>, views |-> <<>>,
              faults |-> <<[entry |-> 0, id |-> NoId, code |-> code]>>]
  <1> DEFINE faults == <<[entry |-> 0, id |-> NoId, code |-> code]>>
             none == <<>>
             nobody == {}
             loaded == [step |-> "loaded", entries |-> none, seen |-> nobody, enabled |-> none,
                        views |-> none, faults |-> none]
  <1>1. NotLoaded = [step |-> "look", entries |-> none, seen |-> nobody, enabled |-> none,
                     views |-> none, faults |-> none]
    BY DEF NotLoaded
  <1>2. GlobalFailure(code) = [NotLoaded EXCEPT !.step = "loaded", !.faults = faults]
    BY DEF GlobalFailure
  <1> HIDE DEF faults, none, nobody
  <1>3. [NotLoaded EXCEPT !.step = "loaded"] = loaded
    BY <1>1
  <1>4. [loaded EXCEPT !.faults = faults] =
           [step |-> "loaded", entries |-> none, seen |-> nobody, enabled |-> none,
            views |-> none, faults |-> faults]
    OBVIOUS
  <1> HIDE DEF loaded
  <1>5. GlobalFailure(code) = [loaded EXCEPT !.faults = faults]
    BY <1>2, <1>3
  <1> QED
    BY <1>4, <1>5 DEF faults, none, nobody

LEMMA StepFields ==
    ASSUME IsLoader(loader), NEW step
    PROVE  [loader EXCEPT !.step = step] =
             [step |-> step, entries |-> loader.entries, seen |-> loader.seen,
              enabled |-> loader.enabled, views |-> loader.views, faults |-> loader.faults]
  <1> DEFINE last == loader.step
             entries == loader.entries
             seen == loader.seen
             enabled == loader.enabled
             views == loader.views
             faults == loader.faults
  <1>1. loader = [step |-> last, entries |-> entries, seen |-> seen, enabled |-> enabled,
                  views |-> views, faults |-> faults]
    BY DEF IsLoader
  <1> HIDE DEF last, entries, seen, enabled, views, faults
  <1>2. [loader EXCEPT !.step = step] =
           [step |-> step, entries |-> entries, seen |-> seen, enabled |-> enabled,
            views |-> views, faults |-> faults]
    BY <1>1
  <1> QED
    BY <1>2 DEF entries, seen, enabled, views, faults

LEMMA OpeningKeeps ==
    ASSUME LoadingInv, LooksAtFile \/ ReadsFile
    PROVE  LoaderInv' /\ loader'.step # "done"
  <1> DEFINE Goal == LoaderInv' /\ loader'.step # "done"
  <1>1. ASSUME NEW code, loader' = GlobalFailure(code)
        PROVE  Goal
    <2> DEFINE fault == [entry |-> 0, id |-> NoId, code |-> code]
               faults == <<fault>>
    <2>1. fault.entry = 0
      OBVIOUS
    <2>2. loader' = [step |-> "loaded", entries |-> <<>>, seen |-> {}, enabled |-> <<>>,
                     views |-> <<>>, faults |-> faults]
      BY <1>1, FailedFields
    <2>3. faults = Append(<<>>, fault)
      OBVIOUS
    <2> HIDE DEF fault, faults
    <2>4. IsSequence(faults) /\ Range(faults) = {fault}
      BY <2>3, NoneAppended, Appended
    <2>5. IsLoader(loader')
      BY <2>2, <2>4, NoneAppended DEF IsLoader
    <2>6. IsFresh(loader') /\ loader'.step = "loaded"
      BY <2>1, <2>2, <2>4 DEF IsFresh
    <2> QED
      BY <2>5, <2>6, NothingLoaded
  <1>2. /\ loader.step \in {"look", "read"} /\ IsLoader(loader) /\ IsFresh(loader)
        /\ loader.faults = <<>>
    BY DEF LoadingInv, LoaderInv, LooksAtFile, ReadsFile
  <1>4. ASSUME NEW step \in {"loaded", "read"}, loader' = [loader EXCEPT !.step = step]
        PROVE  Goal
    <2>1. loader' = [step |-> step, entries |-> loader.entries, seen |-> loader.seen,
                     enabled |-> loader.enabled, views |-> loader.views,
                     faults |-> loader.faults]
      BY <1>2, <1>4, StepFields
    <2>2. IsLoader(loader') /\ IsFresh(loader') /\ loader'.step = step /\ loader'.faults = <<>>
      BY <1>2, <2>1 DEF IsLoader, IsFresh
    <2> QED
      BY <2>2, NothingLoaded
  <1>5. ASSUME NEW text, text = actionsFile.document,
               loader' = [loader EXCEPT !.step = "entries", !.entries = text.entries]
        PROVE  Goal
    <2> DEFINE entries == text.entries
               last == loader.entries
               seen == loader.seen
               enabled == loader.enabled
               views == loader.views
               faults == loader.faults
               read == [step |-> "entries", entries |-> last, seen |-> seen, enabled |-> enabled,
                        views |-> views, faults |-> faults]
    <2>1. IsSequence(entries) /\ \A e \in Range(entries) : IsEntry(e)
      BY <1>5, LoadingAssumption DEF LoadingInv, IsSequence, IsEntry
    <2>2. [loader EXCEPT !.step = "entries"] = read
      BY <1>2, StepFields
    <2>3. last = <<>> /\ seen = {} /\ enabled = <<>> /\ views = <<>> /\ faults = <<>>
      BY <1>2 DEF IsFresh
    <2> HIDE DEF entries, last, seen, enabled, views, faults
    <2>4. [read EXCEPT !.entries = entries] =
             [step |-> "entries", entries |-> entries, seen |-> seen, enabled |-> enabled,
              views |-> views, faults |-> faults]
      OBVIOUS
    <2> HIDE DEF read
    <2>5. loader' = [step |-> "entries", entries |-> entries, seen |-> seen, enabled |-> enabled,
                     views |-> views, faults |-> faults]
      BY <1>5, <2>2, <2>4 DEF entries
    <2>6. IsLoader(loader') /\ Len(entries) \in Nat
      BY <2>1, <2>3, <2>5, NoneAppended, LenProperties DEF IsLoader, IsSequence
    <2>7. Range(<<>>) = {} /\ Len(<<>>) = 0
      BY NoneAppended
    <2>8. NamesAreTaken' /\ SoundAreEnabled' /\ EnabledPass' /\ FaultsAreShown'
      BY <2>3, <2>5, <2>7 DEF NamesAreTaken, SoundAreEnabled, EnabledPass, FaultsAreShown, Looked
    <2> QED
      BY <2>1, <2>3, <2>5, <2>6, <2>7, <2>8 DEF LoaderInv
  <1>6. CASE LooksAtFile
    BY <1>1, <1>4, <1>6 DEF LooksAtFile
  <1>7. CASE ReadsFile
    <2>1. \/ \E code : loader' = GlobalFailure(code)
          \/ loader' = [loader EXCEPT !.step = "entries",
                                      !.entries = actionsFile.document.entries]
      BY <1>7 DEF ReadsFile, Contents, Opened
    <2> QED
      BY <1>1, <1>5, <2>1
  <1> QED
    BY <1>6, <1>7

LEMMA ProceedingKeeps ==
    ASSUME LoaderInv, NEW step, loader' = [loader EXCEPT !.step = step],
           \/ step = "loaded" /\ Len(loader.views) = Len(loader.entries)
           \/ step = "done" /\ loader.step = "loaded"
    PROVE  LoaderInv' /\ loader'.step = step /\ loader'.enabled = loader.enabled
  <1>1. loader' = [step |-> step, entries |-> loader.entries, seen |-> loader.seen,
                   enabled |-> loader.enabled, views |-> loader.views, faults |-> loader.faults]
    BY StepFields DEF LoaderInv
  <1>2. \A i : SoundAlone(i)' <=> SoundAlone(i)
    BY <1>1 DEF SoundAlone
  <1>3. IsLoader(loader)'
    BY <1>1 DEF LoaderInv, IsLoader
  <1>4. NamesAreTaken'
    BY <1>1 DEF LoaderInv, NamesAreTaken, Looked
  <1>5. FaultsAreShown'
    <2>1. loader'.views = loader.views /\ loader'.faults = loader.faults
      BY <1>1
    <2>2. \A i : FaultsOf(i)' = FaultsOf(i)
      BY <2>1 DEF FaultsOf
    <2>3. FaultsAreShown
      BY DEF LoaderInv
    <2> QED
      BY <2>1, <2>2, <2>3 DEF FaultsAreShown, Looked
  <1>6. EnabledPass'
    <2>1. loader'.enabled = loader.enabled /\ loader'.seen = loader.seen
      BY <1>1
    <2> QED
      BY <2>1 DEF LoaderInv, EnabledPass
  <1>7. SoundAreEnabled'
    BY <1>1, <1>2 DEF LoaderInv, SoundAreEnabled, Looked
  <1> QED
    BY <1>1, <1>3, <1>4, <1>5, <1>6, <1>7 DEF LoaderInv

LEMMA LoadingStepKeeps ==
    ASSUME LoadingInv, LoadingNext
    PROVE  LoadingInv'
  <1>1. CASE LooksAtFile \/ ReadsFile
    <2>1. LoaderInv' /\ loader'.step # "done" /\ UNCHANGED <<actionsFile, installed>>
      BY <1>1, OpeningKeeps DEF LooksAtFile, ReadsFile
    <2> QED
      BY <2>1 DEF LoadingInv
  <1>2. CASE EditsFile
    <2>1. /\ actionsFile' \in File /\ UNCHANGED <<loader, installed>>
      BY <1>2 DEF EditsFile
    <2>2. LoaderInv'
      BY <2>1 DEF LoadingInv, LoaderInv, NamesAreTaken, SoundAreEnabled, SoundAlone,
                  FaultsAreShown, FaultsOf, EnabledPass, Looked
    <2> QED
      BY <2>1, <2>2 DEF LoadingInv
  <1>3. CASE LoadsEntry
    <2>1. LoaderInv' /\ UNCHANGED <<actionsFile, installed>>
      BY <1>3, EntryKeeps DEF LoadingInv, LoadsEntry
    <2>2. loader'.step = "entries"
      BY <1>3, EntryOutcome DEF LoadingInv, IsAtEntries
    <2> QED
      BY <2>1, <2>2 DEF LoadingInv
  <1>4. CASE EntriesEnd
    BY <1>4, ProceedingKeeps DEF EntriesEnd, LoadingInv
  <1>5. CASE ConfiguresActions
    <2>1. installed'.enabled = loader.enabled
      BY <1>5 DEF ConfiguresActions, Supervised
    <2> QED
      BY <1>5, <2>1, ProceedingKeeps DEF ConfiguresActions, LoadingInv
  <1> QED
    BY <1>1, <1>2, <1>3, <1>4, <1>5 DEF LoadingNext

\* Whatever the file holds and whenever the user's editor replaced it: a sound entry alone with
\* its name is installed, every other one is shown disabled with one diagnostic of its own, and
\* what is installed can be supervised (load_actions_file, load_actions_str, validate_action).
THEOREM ValidActionsAreInstalled == LoadingSpec => []ValidActionsRemain
  <1>1. LoadingInit => LoadingInv
    <2> SUFFICES ASSUME LoadingInit
                 PROVE  LoadingInv
      OBVIOUS
    <2>1. loader = [step |-> "look", entries |-> <<>>, seen |-> {}, enabled |-> <<>>,
                    views |-> <<>>, faults |-> <<>>] /\ actionsFile \in File
      BY DEF LoadingInit, NotLoaded
    <2>2. IsLoader(loader) /\ IsFresh(loader)
      BY <2>1, NoneAppended DEF IsLoader, IsFresh
    <2>3. Range(<<>>) = {} /\ Len(<<>>) = 0
      BY NoneAppended
    <2>4. NamesAreTaken /\ SoundAreEnabled /\ EnabledPass /\ FaultsAreShown
      BY <2>1, <2>3 DEF NamesAreTaken, SoundAreEnabled, EnabledPass, FaultsAreShown, Looked
    <2> QED
      BY <2>1, <2>2, <2>3, <2>4 DEF LoadingInv, LoaderInv
  <1>2. LoadingInv /\ [LoadingNext]_loadingVars => LoadingInv'
    <2>1. ASSUME LoadingInv, UNCHANGED loadingVars
          PROVE  LoadingInv'
      BY <2>1 DEF loadingVars, LoadingInv, LoaderInv, NamesAreTaken, SoundAreEnabled, SoundAlone,
                  FaultsAreShown, FaultsOf, EnabledPass, Looked
    <2> QED
      BY <2>1, LoadingStepKeeps
  <1>3. LoadingInv => ValidActionsRemain
    <2> SUFFICES ASSUME LoadingInv, loader.step = "done"
                 PROVE  ValidActionsRemain
      BY DEF ValidActionsRemain
    <2>1. /\ IsLoader(loader) /\ Len(loader.views) = Len(loader.entries)
          /\ SoundAreEnabled /\ FaultsAreShown /\ EnabledPass
          /\ installed.enabled = loader.enabled
      BY DEF LoadingInv, LoaderInv
    <2>2. DOMAIN loader.entries = Looked /\ DOMAIN loader.enabled = 1 .. Len(loader.enabled)
      BY <2>1, LenProperties DEF IsLoader, IsSequence, Looked
    <2>3. \A i \in DOMAIN loader.entries : SoundAlone(i) => loader.entries[i] \in Range(loader.enabled)
      BY <2>1, <2>2 DEF SoundAreEnabled
    <2>4. ASSUME NEW i \in DOMAIN loader.entries
          PROVE  Cardinality(FaultsOf(i)) = IF loader.views[i].enabled THEN 0 ELSE 1
      <3>1. CASE loader.views[i].enabled
        BY <2>1, <2>2, <3>1, FS_EmptySet DEF FaultsAreShown
      <3>2. CASE ~loader.views[i].enabled
        <4>1. PICK f : FaultsOf(i) = {f}
          BY <2>1, <2>2, <3>2 DEF FaultsAreShown
        <4>2. Cardinality({f}) = 1
          BY FS_Singleton
        <4> QED
          BY <3>2, <4>1, <4>2
      <3> QED
        BY <3>1, <3>2
    <2>5. IsInjective([i \in DOMAIN loader.enabled |-> loader.enabled[i].id])
      BY <2>1, <2>2 DEF EnabledPass, IsInjective
    <2>6. ASSUME NEW e \in Range(loader.enabled)
          PROVE  /\ 1 <= e.parallel /\ e.parallel <= MAX_GLOBAL_CONCURRENCY
                 /\ e.queue > 0 <=> e.mode = "queue"
                 /\ e.timeout > 0
                 /\ e.trigger = "session_title" => e.filter \in {"none", "providers"}
      <3>1. IsEntry(e) /\ Passes(e)
        BY <2>1 DEF EnabledPass
      <3>2. CapacityFits(e) /\ e.timeout \in 1 .. MAX_ACTION_TIMEOUT_MS /\ FilterFits(e)
        <4>1. /\ Checks(e)[4][2] = (e.timeout \in 1 .. MAX_ACTION_TIMEOUT_MS)
              /\ Checks(e)[6][2] = CapacityFits(e) /\ Checks(e)[9][2] = FilterFits(e)
              /\ DOMAIN Checks(e) = 1 .. 9
          BY DEF Checks
        <4>2. \A i \in 1 .. 9 : Checks(e)[i][2]
          BY <3>1, <4>1 DEF Passes, Range
        <4>3. Checks(e)[4][2] /\ Checks(e)[6][2] /\ Checks(e)[9][2]
          BY <4>2
        <4> QED
          BY <4>1, <4>3, Zenon
      <3>3. 1 <= e.parallel /\ e.parallel <= MAX_GLOBAL_CONCURRENCY
        BY <3>2 DEF CapacityFits, MAX_GLOBAL_CONCURRENCY
      <3>4. e.queue > 0 <=> e.mode = "queue"
        BY <3>1, <3>2 DEF IsEntry, CapacityFits
      <3>5. e.timeout > 0
        <4>1. MAX_ACTION_TIMEOUT_MS \in Nat
          BY DEF MAX_ACTION_TIMEOUT_MS
        <4> QED
          BY <3>2, <4>1
      <3>6. e.trigger = "session_title" => e.filter \in {"none", "providers"}
        BY <3>1, <3>2 DEF IsEntry, FilterFits
      <3> QED
        BY <3>3, <3>4, <3>5, <3>6
    <2> QED
      BY <2>1, <2>3, <2>4, <2>5, <2>6 DEF ValidActionsRemain, FaultsOf
  <1> QED
    BY <1>1, <1>2, <1>3, PTL DEF LoadingSpec

===============================================================================
