----------------------------- MODULE DatabaseOpen -----------------------------
(***************************************************************************)
(* Processes that open the embedded database at the same time: the desktop *)
(* and the hook processes it may race with on the first start.  Each looks *)
(* for the file, connects, repairs the journal mode, compares the applied  *)
(* migrations with those its build embeds and applies what is missing.     *)
(* SQLite and the migration harness are external: a migration is one       *)
(* transaction that creates its tables and records its version, a second   *)
(* one fails because a table already exists, and a statement may find the  *)
(* database locked whenever another process is at work on it.              *)
(***************************************************************************)
EXTENDS Naturals

CONSTANTS
    Opener,     \* the processes
    Embedded,   \* the migrations of each process's build
    MaxFailures \* bound: deaths, and layouts that turn out wrong

ASSUME OpenAssumption == \A o \in Opener : Embedded[o] \subseteq Nat

VARIABLES
    file,    \* the database: exists, journal mode, table of versions, versions, tables
    opening, \* how far each process is
    bad      \* failures that happened

openVars == <<file, opening, bad>>

NoCause == "none"
Start == [step |-> "layout", late |-> FALSE, existed |-> FALSE, todo |-> {}, cause |-> NoCause]

OpenInit ==
    /\ \E installed \in {{}} \cup {Embedded[o] : o \in Opener} :
          file = [exists |-> installed # {}, wal |-> installed # {}, versions |-> installed # {},
                  applied |-> installed, tables |-> installed]
    /\ opening = [o \in Opener |-> Start]
    /\ bad = 0

Reached(o, step) == opening[o].step = step
GoTo(o, step) == opening' = [opening EXCEPT ![o].step = step]
Fail(o, cause) == opening' = [opening EXCEPT ![o] = [@ EXCEPT !.step = "failed", !.cause = cause]]

\* Another process is at work on the file.
Contended(o) ==
    \E other \in Opener \ {o} : opening[other].step \in {"configure", "compare", "migrate"}

-------------------------------------------------------------------------------
\* Mutant of Retryable: what another process created meanwhile ends the call.
RetryableLocked(cause) == cause = "locked"
\* is_retryable, and connect_with_options' loop: a retry until the deadline.
Retryable(cause) == cause \in {"locked", "already exists"}
AttemptFails(o, cause) ==
    IF Retryable(cause) /\ ~opening[o].late THEN GoTo(o, "connect") ELSE Fail(o, cause)

\* ensure_layout: before connecting and after it.
EnsureLayout(o) ==
    /\ opening[o].step \in {"layout", "harden"}
    /\ \/ GoTo(o, IF Reached(o, "layout") THEN "connect" ELSE "open") /\ UNCHANGED bad
       \/ bad < MaxFailures /\ bad' = bad + 1 /\ Fail(o, "layout")
    /\ UNCHANGED file

\* path.exists() is asked before the file is opened, and opening creates it.
LooksForFile(o) ==
    /\ Reached(o, "connect")
    /\ opening' = [opening EXCEPT ![o] = [@ EXCEPT !.step = "establish", !.existed = file.exists]]
    /\ UNCHANGED <<file, bad>>

Establishes(o) ==
    /\ Reached(o, "establish")
    /\ file' = [file EXCEPT !.exists = TRUE]
    /\ GoTo(o, "configure")
    /\ UNCHANGED bad

\* The journal mode of a file that existed is asked first, and left alone when it is
\* WAL or cannot be read.
ConfiguresJournal(o) ==
    /\ Reached(o, "configure")
    /\ \/ /\ opening[o].existed /\ (file.wal \/ Contended(o))
          /\ GoTo(o, "compare") /\ UNCHANGED file
       \/ /\ ~(opening[o].existed /\ file.wal)
          /\ file' = [file EXCEPT !.wal = TRUE] /\ GoTo(o, "compare")
       \/ Contended(o) /\ AttemptFails(o, "locked") /\ UNCHANGED file
    /\ UNCHANGED bad

\* apply_pending_migrations: without a table of versions, or when it cannot be read,
\* the harness runs; a version this build does not embed ends the attempt for good.
ComparesVersions(o) ==
    /\ Reached(o, "compare")
    /\ \/ (~file.versions \/ Contended(o)) /\ GoTo(o, "harness")
       \/ /\ file.versions
          /\ IF ~(file.applied \subseteq Embedded[o]) THEN Fail(o, "unsupported")
             ELSE GoTo(o, IF file.applied = Embedded[o] THEN "harden" ELSE "harness")
    /\ UNCHANGED <<file, bad>>

\* External: the harness creates its table and reads which migrations are pending.
StartsHarness(o) ==
    /\ Reached(o, "harness")
    /\ \/ /\ file' = [file EXCEPT !.versions = TRUE]
          /\ opening' = [opening EXCEPT ![o] =
                 [@ EXCEPT !.step = "migrate", !.todo = Embedded[o] \ file.applied]]
       \/ Contended(o) /\ AttemptFails(o, "locked") /\ UNCHANGED file
    /\ UNCHANGED bad

\* External: one migration in one transaction, the oldest first.
Migrates(o) ==
    /\ Reached(o, "migrate") /\ opening[o].todo # {}
    /\ LET next == CHOOSE v \in opening[o].todo : \A w \in opening[o].todo : v <= w IN
       \/ /\ next \notin file.tables
          /\ file' = [file EXCEPT !.tables = @ \cup {next}, !.applied = @ \cup {next}]
          /\ opening' = [opening EXCEPT ![o].todo = @ \ {next}]
       \/ next \in file.tables /\ AttemptFails(o, "already exists") /\ UNCHANGED file
       \/ Contended(o) /\ AttemptFails(o, "locked") /\ UNCHANGED file
    /\ UNCHANGED bad

Migrated(o) ==
    /\ Reached(o, "migrate") /\ opening[o].todo = {}
    /\ GoTo(o, "harden")
    /\ UNCHANGED <<file, bad>>

\* The deadline that all attempts of one call share.
DeadlinePasses(o) ==
    /\ ~opening[o].late /\ opening[o].step \notin {"open", "failed", "gone"}
    /\ opening' = [opening EXCEPT ![o].late = TRUE]
    /\ UNCHANGED <<file, bad>>

\* The process dies; its transaction is rolled back.
OpenerDies(o) ==
    /\ bad < MaxFailures /\ opening[o].step \notin {"open", "failed", "gone"}
    /\ bad' = bad + 1
    /\ GoTo(o, "gone")
    /\ UNCHANGED file

OpenNext ==
    \E o \in Opener :
        \/ EnsureLayout(o) \/ LooksForFile(o) \/ Establishes(o) \/ ConfiguresJournal(o)
        \/ ComparesVersions(o) \/ StartsHarness(o) \/ Migrates(o) \/ Migrated(o)
        \/ DeadlinePasses(o) \/ OpenerDies(o)

OpenSpec == OpenInit /\ [][OpenNext]_openVars

-------------------------------------------------------------------------------
(* A type invariant of the openers. *)
OpenTypeOK ==
    /\ \A o \in Opener : opening[o].todo \subseteq Embedded[o] /\ opening[o].late \in BOOLEAN
    /\ bad \in 0..MaxFailures

(* Opening a database while others create it is no reason to fail: before the
   deadline only a wrong layout or a version the build does not know ends the call
   (connect_with_options retries what the race produces), and an open connection
   sees every migration of its build, applied once and completely. *)
OpensInTime ==
    /\ \A o \in Opener : opening[o].step \in {"open", "harden"} => Embedded[o] \subseteq file.applied
    /\ \A o \in Opener :
          Reached(o, "failed") =>
              \/ opening[o].late \/ opening[o].cause = "layout"
              \/ opening[o].cause = "unsupported" /\ ~(file.applied \subseteq Embedded[o])
    /\ file.applied = file.tables

===============================================================================
