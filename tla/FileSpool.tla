------------------------------ MODULE FileSpool ------------------------------
(***************************************************************************)
(* The spool of one directory of files (lili-session/src/spool.rs), as the *)
(* processes that share it see it: a record is a file, its state is in the *)
(* file's name (<base>.staged, <base>.pending, <base>.claim-<pid>-<n>) and *)
(* every move is a rename.  Writers enqueue one record each; drainers      *)
(* recover, claim and commit or release.  The directory .lock guards the   *)
(* scans, but a lock older than 30 s is removed by whoever meets it, in a  *)
(* step apart from the look at its age: two processes can be inside.       *)
(*                                                                         *)
(* Abstractions: payloads, permissions and malformed records are left out  *)
(* (every file of the directory was written by this code); a scan reads    *)
(* the directory at once, or fails where the lock is broken.               *)
(***************************************************************************)
EXTENDS Integers, FiniteSets, FiniteSetsExt

CONSTANTS
    Writer,       \* the processes that enqueue, each one record: numbers, in the order of time
    Claimer,      \* the processes that claim
    Crews,        \* instances: sets of processes, the ones that take part in a behaviour
    Priority,     \* event_priority of each writer's record
    MaxFiles,     \* SpoolLimits::max_count
    MaxOldLocks,  \* bound: how often the lock outlives STALE_LOCK_AGE
    MaxDeaths,    \* bound: processes that crash
    MaxRecoveries \* bound: calls of recover_claims

VARIABLES
    files,     \* [base, state, record, by] of each file: what its name says and what it holds
    lock,      \* the directory .lock: absent, fresh or old
    process,   \* where each process is in its operation
    promised,  \* what each writer's enqueue returned
    aged,      \* records older than max_age_ms
    metricsFile,   \* the drops that metrics.json counts
    delivered, \* history: records that the ingestion accepted
    removed,   \* history: records removed for their age or for the limits
    spent      \* the bounded faults: locks, deaths and recoveries so far

fileVars == <<files, lock, process, promised, aged, metricsFile, delivered, removed, spent>>

Process == Writer \cup Claimer
None == 0

\* No base, no loaded count, no candidates: a process between operations.
Between(step) ==
    [step |-> step, op |-> "none", known |-> {}, counted |-> 0, claim |-> None, taken |-> FALSE]

FileInit ==
    /\ files = {} /\ lock = "absent" /\ aged = {} /\ metricsFile = 0
    /\ \E crew \in Crews :
          process = [p \in Process |-> Between(IF p \in crew THEN "rest" ELSE "done")]
    /\ promised = [w \in Writer |-> "nothing"]
    /\ delivered = {} /\ removed = {}
    /\ spent = [locks |-> 0, deaths |-> 0, recoveries |-> 0]

-------------------------------------------------------------------------------
\* Mutant of PendingFileName: the time alone, which two writers share.
PendingFileNameByTime(w) == 1

\* The time and sixteen random bytes: no two records share a base.
PendingFileName(w) == w

Staged(base, record) == [base |-> base, state |-> "staged", record |-> record, by |-> None]
ToPending(f) == [f EXCEPT !.state = "pending", !.by = None]
In(state) == {f \in files : f.state = state}
Taken(base, state) == \E f \in files : f.base = base /\ f.state = state

Older(f, g) == f.record < g.record
Lower(f, g) ==
    \/ Priority[f.record] < Priority[g.record]
    \/ Priority[f.record] = Priority[g.record] /\ Older(f, g)
Higher(f, g) ==
    \/ Priority[f.record] > Priority[g.record]
    \/ Priority[f.record] = Priority[g.record] /\ Older(f, g)
First(S, Precedes(_, _)) == CHOOSE f \in S : \A g \in S \ {f} : Precedes(f, g)

At(p, step) == process[p].step = step
Goto(p, step) == process' = [process EXCEPT ![p].step = step]
Alone(p) == \A q \in Process \ {p} : process[q].step \notin {"inside", "limits", "count", "rename"}

\* Leaving the critical section drops the SpoolLock: whatever lock is there goes.
LeaveTo(p, next) ==
    /\ lock' = "absent"
    /\ process' = [process EXCEPT ![p] = next]

-------------------------------------------------------------------------------
\* SpoolLock::acquire: create_dir, or look at the lock that is there.
Acquire(p) ==
    /\ At(p, "lock") /\ lock = "absent"
    /\ lock' = "fresh" /\ Goto(p, "inside")
    /\ UNCHANGED <<files, promised, aged, metricsFile, delivered, removed, spent>>

MeetsOldLock(p) ==
    /\ At(p, "lock") /\ lock = "old"
    /\ Goto(p, "meets")
    /\ UNCHANGED <<files, lock, promised, aged, metricsFile, delivered, removed, spent>>

\* An operation that fails before the critical section.  enqueue's guard removes its
\* staged file; a release that fails is tried once more by the claim's Drop, then left.
Fails(p) ==
    /\ IF p \in Writer
         THEN /\ files' = {f \in files : ~(f.base = PendingFileName(p) /\ f.state = "staged")}
              /\ promised' = [promised EXCEPT ![p] = "error"]
         ELSE UNCHANGED <<files, promised>>
    /\ process' = [process EXCEPT ![p] = Between(IF p \in Writer THEN "done" ELSE "rest")]

\* remove_dir of a lock that another contender removed first is an error of the operation.
RemovesOldLock(p) ==
    /\ At(p, "meets")
    /\ IF lock = "absent" THEN Fails(p) /\ UNCHANGED lock
       ELSE lock' = "absent" /\ Goto(p, "lock") /\ UNCHANGED <<files, promised>>
    /\ UNCHANGED <<aged, metricsFile, delivered, removed, spent>>

\* LOCK_RETRY_COUNT attempts met a lock: Busy.
GivesUp(p) ==
    /\ At(p, "lock") /\ lock # "absent"
    /\ Fails(p)
    /\ UNCHANGED <<lock, aged, metricsFile, delivered, removed, spent>>

-------------------------------------------------------------------------------
\* enqueue: the record is staged before the lock is asked for.
Stage(w) ==
    /\ At(w, "rest")
    /\ files' = {f \in files : ~(f.base = PendingFileName(w) /\ f.state = "staged")}
                    \cup {Staged(PendingFileName(w), w)}
    /\ process' = [process EXCEPT ![w] = [Between("lock") EXCEPT !.op = "enqueue"]]
    /\ UNCHANGED <<lock, promised, aged, metricsFile, delivered, removed, spent>>

\* promote_staged_record: a recovery may have promoted it already.  An error after the
\* promotion leaves the record pending though the caller hears of a failure.
Promote(w) ==
    /\ At(w, "inside") /\ process[w].op = "enqueue"
    /\ LET base == PendingFileName(w)
           IsOurs(f) == f.base = base /\ f.state = "staged"
           stuck == Taken(base, "staged") <=> Taken(base, "pending")
       IN IF stuck
            THEN /\ files' = {f \in files : ~IsOurs(f)}
                 /\ promised' = [promised EXCEPT ![w] = "error"]
                 /\ LeaveTo(w, Between("done"))
            ELSE /\ files' = {IF IsOurs(f) THEN ToPending(f) ELSE f : f \in files}
                 /\ Goto(w, "scan")
                 /\ UNCHANGED <<lock, promised>>
    /\ UNCHANGED <<aged, metricsFile, delivered, removed, spent>>

\* load_metrics_unlocked and collect_pending: expired records are removed and counted.
\* collect_pending of a writer measures ages at its own time, before its record aged.
Scan(p) ==
    /\ \/ At(p, "scan")
       \/ At(p, "inside") /\ process[p].op = "claim"
    /\ LET expired == {f \in In("pending") : f.record \in aged}
       IN /\ files' = files \ expired
          /\ removed' = removed \cup {f.record : f \in expired}
          /\ process' = [process EXCEPT ![p] = [@ EXCEPT
                 !.known = In("pending") \ expired,
                 !.counted = metricsFile + Cardinality(expired),
                 !.step = IF p \in Writer THEN "limits" ELSE "count"]]
    /\ UNCHANGED <<lock, promised, aged, metricsFile, delivered, spent>>

\* Under a broken lock a file goes between the listing and the look at it.
ScanFails(p) ==
    /\ \/ At(p, "scan")
       \/ At(p, "inside") /\ process[p].op = "claim"
    /\ ~Alone(p)
    /\ promised' = IF p \in Writer THEN [promised EXCEPT ![p] = "error"] ELSE promised
    /\ LeaveTo(p, Between(IF p \in Writer THEN "done" ELSE "rest"))
    /\ UNCHANGED <<files, aged, metricsFile, delivered, removed, spent>>

\* enforce_limits removes the record of the lowest priority, the oldest first, as long as
\* there are too many (of records or, in the same loop, of bytes).
EnforceFileLimits(w) ==
    /\ At(w, "limits")
    /\ LET known == process[w].known
           lowest == First(known, Lower)
       IN IF Cardinality(known) <= MaxFiles
            THEN Goto(w, "count") /\ UNCHANGED <<files, lock, promised, removed>>
          ELSE IF lowest \in files
            THEN /\ files' = files \ {lowest}
                 /\ removed' = removed \cup {lowest.record}
                 /\ process' = [process EXCEPT ![w] =
                         [@ EXCEPT !.known = known \ {lowest}, !.counted = process[w].counted + 1]]
                 /\ UNCHANGED <<lock, promised>>
            ELSE /\ promised' = [promised EXCEPT ![w] = "error"]
                 /\ LeaveTo(w, Between("done"))
                 /\ UNCHANGED <<files, removed>>
    /\ UNCHANGED <<aged, metricsFile, delivered, spent>>

\* save_metrics_if_changed; a writer is then done, a claimer goes on to its rename.
SaveMetrics(p) ==
    /\ At(p, "count")
    /\ metricsFile' = process[p].counted
    /\ IF p \in Writer
         THEN /\ promised' = [promised EXCEPT ![p] =
                     IF \E f \in process[p].known : f.base = PendingFileName(p)
                       THEN "stored" ELSE "dropped"]
              /\ LeaveTo(p, Between("done"))
         ELSE /\ IF process[p].known = {} THEN LeaveTo(p, Between("rest"))
                 ELSE Goto(p, "rename") /\ UNCHANGED lock
              /\ UNCHANGED promised
    /\ UNCHANGED <<files, aged, delivered, removed, spent>>

-------------------------------------------------------------------------------
Begin(d, op) ==
    /\ At(d, "rest")
    /\ process' = [process EXCEPT ![d] = [@ EXCEPT !.step = "lock", !.op = op]]

ClaimNext(d) ==
    /\ Begin(d, "claim") /\ In("pending") # {}
    /\ UNCHANGED <<files, lock, promised, aged, metricsFile, delivered, removed, spent>>

\* The claimed file's name holds the process and a sequence: nobody else has that name.
TakeClaim(d) ==
    /\ At(d, "rename")
    /\ LET best == First(process[d].known, Higher)
       IN IF best \in files
            THEN /\ files' = (files \ {best}) \cup {[best EXCEPT !.state = "claim", !.by = d]}
                 /\ LeaveTo(d, [Between("claimed") EXCEPT !.claim = best.base])
            ELSE LeaveTo(d, Between("rest")) /\ UNCHANGED files
    /\ UNCHANGED <<promised, aged, metricsFile, delivered, removed, spent>>

HeldFile(d) == {f \in In("claim") : f.base = process[d].claim /\ f.by = d}

\* The ingestion accepted the event, or refused it.
Accepts(d) ==
    /\ At(d, "claimed") /\ ~process[d].taken
    /\ delivered' = delivered \cup {process[d].claim}
    /\ process' = [process EXCEPT ![d].taken = TRUE]
    /\ UNCHANGED <<files, lock, promised, aged, metricsFile, removed, spent>>

Refuses(d) ==
    /\ At(d, "claimed") /\ ~process[d].taken
    /\ process' = [process EXCEPT ![d] = [@ EXCEPT !.step = "lock", !.op = "release"]]
    /\ UNCHANGED <<files, lock, promised, aged, metricsFile, delivered, removed, spent>>

\* commit takes no lock.  Where a recovery moved the file, remove_file fails and the
\* claim's Drop finds nothing to release.
CommitFile(d) ==
    /\ At(d, "claimed") /\ process[d].taken
    /\ files' = files \ HeldFile(d)
    /\ process' = [process EXCEPT ![d] = Between("rest")]
    /\ UNCHANGED <<lock, promised, aged, metricsFile, delivered, removed, spent>>

\* Back to <base>.pending; a base that is pending again takes a new name.
ReleaseInner(d) ==
    /\ At(d, "inside") /\ process[d].op = "release"
    /\ files' = (files \ HeldFile(d)) \cup {ToPending(f) : f \in HeldFile(d)}
    /\ LeaveTo(d, Between("rest"))
    /\ UNCHANGED <<promised, aged, metricsFile, delivered, removed, spent>>

StartRecovery(d) ==
    /\ spent.recoveries < MaxRecoveries
    /\ Begin(d, "recover")
    /\ spent' = [spent EXCEPT !.recoveries = @ + 1]
    /\ UNCHANGED <<files, lock, promised, aged, metricsFile, delivered, removed>>

\* Staged and claimed records go back to pending, live claims too.
RecoverFiles(d) ==
    /\ At(d, "inside") /\ process[d].op = "recover"
    /\ files' = {ToPending(f) : f \in files}
    /\ LeaveTo(d, Between("rest"))
    /\ UNCHANGED <<promised, aged, metricsFile, delivered, removed, spent>>

-------------------------------------------------------------------------------
LockAges ==
    /\ lock = "fresh" /\ spent.locks < MaxOldLocks
    /\ lock' = "old" /\ spent' = [spent EXCEPT !.locks = @ + 1]
    /\ UNCHANGED <<files, process, promised, aged, metricsFile, delivered, removed>>

Ages(w) ==
    /\ w \notin aged /\ promised[w] # "nothing"
    /\ aged' = aged \cup {w}
    /\ UNCHANGED <<files, lock, process, promised, metricsFile, delivered, removed, spent>>

\* A crash leaves the lock and the files; a claimer is started again, a writer is not.
Dies(p) ==
    /\ spent.deaths < MaxDeaths /\ process[p].step \notin {"rest", "done"}
    /\ spent' = [spent EXCEPT !.deaths = @ + 1]
    /\ process' = [process EXCEPT ![p] = Between(IF p \in Writer THEN "done" ELSE "rest")]
    /\ promised' = IF p \in Writer THEN [promised EXCEPT ![p] = "error"] ELSE promised
    /\ UNCHANGED <<files, lock, aged, metricsFile, delivered, removed>>

FileNext ==
    \/ \E p \in Process :
          \/ Acquire(p) \/ MeetsOldLock(p) \/ RemovesOldLock(p) \/ GivesUp(p)
          \/ Scan(p) \/ ScanFails(p) \/ SaveMetrics(p) \/ Dies(p)
    \/ \E w \in Writer : Stage(w) \/ Promote(w) \/ EnforceFileLimits(w) \/ Ages(w)
    \/ \E d \in Claimer :
          \/ ClaimNext(d) \/ TakeClaim(d) \/ Accepts(d) \/ Refuses(d) \/ CommitFile(d)
          \/ ReleaseInner(d) \/ StartRecovery(d) \/ RecoverFiles(d)
    \/ LockAges

FileSpec == FileInit /\ [][FileNext]_fileVars

-------------------------------------------------------------------------------
\* A record whose enqueue returned Stored is a file of the spool until the ingestion
\* accepted it or age or the limits removed it: whoever crashes, however the lock is
\* broken and whichever live claim a recovery takes back (promote, rename, release).
StoredIsKept ==
    \A w \in Writer : promised[w] = "stored" =>
        w \in delivered \cup removed \cup {f.record : f \in files}

===============================================================================
