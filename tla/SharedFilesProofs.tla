--------------------------- MODULE SharedFilesProofs ---------------------------
(***************************************************************************)
(* Theorems about what hook processes and desktops have in common: the     *)
(* files they share without a common lock (the database while it is        *)
(* opened, the directory of the file spool, the path of the socket), and   *)
(* the identities of events.  They hold for any number of processes,       *)
(* whatever their builds embed and however often they die, and for any     *)
(* payloads.                                                               *)
(***************************************************************************)
EXTENDS DatabaseOpen, FileSpool, ForwardingEndpoint, CodexEvents, SequenceTheorems, TLAPS

-------------------------------------------------------------------------------
(***************************************************************************)
(* Opening the database.  Records grow only by what is assigned; what a    *)
(* process that migrates still has to do, and what is applied, make up its *)
(* build together.                                                         *)
(***************************************************************************)
OpenStep == {"layout", "connect", "establish", "configure", "compare", "harness", "migrate",
             "harden", "open", "failed", "gone"}
OpenCause == {NoCause, "layout", "locked", "already exists", "unsupported"}

OpenerRecord == [step : OpenStep, late : BOOLEAN, existed : BOOLEAN, todo : SUBSET Nat,
                 cause : OpenCause]

IsDatabase(f) ==
    /\ f = [exists |-> f.exists, wal |-> f.wal, versions |-> f.versions,
            applied |-> f.applied, tables |-> f.tables]
    /\ f.exists \in BOOLEAN

OpenShape == IsDatabase(file) /\ opening \in [Opener -> OpenerRecord]

TodoIsTheRest ==
    \A o \in Opener :
        Reached(o, "migrate") => Embedded[o] \subseteq opening[o].todo \cup file.applied

OpenInv == OpenShape /\ TodoIsTheRest /\ OpensInTime

\* The table of the openers after a step of one of them.
LEMMA OpenerMoves ==
    ASSUME OpenShape, NEW o \in Opener, NEW r \in OpenerRecord,
           opening' = [opening EXCEPT ![o] = r]
    PROVE  /\ opening' \in [Opener -> OpenerRecord]
           /\ opening'[o] = r
           /\ \A p \in Opener : p # o => opening'[p] = opening[p]
  BY DEF OpenShape

LEMMA UnchangedDatabase ==
    ASSUME OpenInv, UNCHANGED file
    PROVE  /\ IsDatabase(file')
           /\ file'.applied = file.applied /\ file'.tables = file.tables
  BY DEF OpenInv, OpenShape, IsDatabase

\* What a step has to show when it only moves one opener and lets the database grow.
LEMMA OpenerStepKeeps ==
    ASSUME OpenInv, NEW o \in Opener, NEW step \in OpenStep \ {"failed"},
           opening' = [opening EXCEPT ![o].step = step],
           IsDatabase(file'),
           file'.applied = file.applied, file'.tables = file.tables,
           step \in {"open", "harden"} => Embedded[o] \subseteq file.applied,
           step # "migrate"
    PROVE  OpenInv'
  <1>1. OpenShape /\ TodoIsTheRest /\ OpensInTime
    BY DEF OpenInv
  <1>2. /\ OpenShape'
        /\ opening'[o].step = step
        /\ \A p \in Opener : p # o => opening'[p] = opening[p]
        /\ \A p \in Opener : /\ opening'[p].todo = opening[p].todo
                             /\ opening'[p].late = opening[p].late
                             /\ opening'[p].cause = opening[p].cause
    <2> DEFINE r == [opening[o] EXCEPT !.step = step]
    <2>1. opening[o] \in OpenerRecord
      BY <1>1 DEF OpenShape
    <2>2. /\ r \in OpenerRecord
          /\ r.step = step
          /\ r.todo = opening[o].todo /\ r.late = opening[o].late /\ r.cause = opening[o].cause
      BY <2>1 DEF OpenerRecord
    <2>3. opening' = [opening EXCEPT ![o] = r]
      BY <1>1
    <2> HIDE DEF r
    <2> QED
      BY <1>1, <2>2, <2>3, OpenerMoves DEF OpenShape
  <1>3. TodoIsTheRest'
    BY <1>1, <1>2 DEF TodoIsTheRest, Reached
  <1>4. OpensInTime'
    BY <1>1, <1>2 DEF OpensInTime, Reached
  <1> QED
    BY <1>2, <1>3, <1>4 DEF OpenInv

\* A call that ends in an error: after the deadline, or for a reason that a race is not.
LEMMA OpenerFailureKeeps ==
    ASSUME OpenInv, NEW o \in Opener, NEW cause \in OpenCause, Fail(o, cause), UNCHANGED file,
           \/ opening[o].late \/ cause = "layout"
           \/ cause = "unsupported" /\ ~(file.applied \subseteq Embedded[o])
    PROVE  OpenInv'
  <1>1. OpenShape /\ TodoIsTheRest /\ OpensInTime
    BY DEF OpenInv
  <1>2. /\ OpenShape'
        /\ opening'[o].step = "failed" /\ opening'[o].cause = cause
        /\ opening'[o].late = opening[o].late
        /\ \A p \in Opener : p # o => opening'[p] = opening[p]
    <2> DEFINE r == [opening[o] EXCEPT !.step = "failed", !.cause = cause]
    <2>1. opening[o] \in OpenerRecord
      BY <1>1 DEF OpenShape
    <2>2. r \in OpenerRecord /\ r.step = "failed" /\ r.cause = cause /\ r.late = opening[o].late
      BY <2>1 DEF OpenerRecord, OpenStep
    <2>3. opening' = [opening EXCEPT ![o] = r]
      BY DEF Fail
    <2> HIDE DEF r
    <2> QED
      BY <1>1, <2>2, <2>3, OpenerMoves, UnchangedDatabase DEF OpenShape
  <1>3. TodoIsTheRest' /\ OpensInTime'
    BY <1>1, <1>2 DEF TodoIsTheRest, OpensInTime, Reached
  <1> QED
    BY <1>2, <1>3 DEF OpenInv

\* What the race produces is tried again until the deadline.
LEMMA AttemptKeeps ==
    ASSUME OpenInv, NEW o \in Opener, NEW cause \in {"locked", "already exists"},
           AttemptFails(o, cause), UNCHANGED file
    PROVE  OpenInv'
  <1>1. CASE opening[o].late
    <2>1. Fail(o, cause)
      BY <1>1, Zenon DEF AttemptFails
    <2> QED
      BY <1>1, <2>1, OpenerFailureKeeps DEF OpenCause
  <1>2. CASE ~opening[o].late
    <2>1. opening' = [opening EXCEPT ![o].step = "connect"]
      BY <1>2, Zenon DEF AttemptFails, Retryable, GoTo
    <2> QED
      BY <2>1, UnchangedDatabase, OpenerStepKeeps DEF OpenStep
  <1> QED
    BY <1>1, <1>2

\* The first states: nobody has begun, and the file is empty or of one build.
LEMMA OpenInitKeeps == OpenInit => OpenInv
  BY DEF OpenInit, OpenInv, OpenShape, IsDatabase, TodoIsTheRest, OpensInTime, Reached, Start,
         OpenerRecord, OpenStep, OpenCause

\* One step per action, by the lemmas above; a migration is the one that does more.
LEMMA OpenNextKeeps == OpenInv /\ [OpenNext]_openVars => OpenInv'
  <1> SUFFICES ASSUME OpenInv, [OpenNext]_openVars PROVE OpenInv'
    OBVIOUS
  <1>0. OpenShape /\ TodoIsTheRest /\ OpensInTime
    BY DEF OpenInv
  <1>1. ASSUME NEW o \in Opener, EnsureLayout(o) PROVE OpenInv'
    <2>1. CASE GoTo(o, IF Reached(o, "layout") THEN "connect" ELSE "open")
      <3>1. opening[o].step = "harden" => Embedded[o] \subseteq file.applied
        BY <1>0 DEF OpensInTime
      <3> QED
        BY <1>0, <1>1, <2>1, <3>1, OpenerStepKeeps
           DEF EnsureLayout, GoTo, Reached, OpenShape, IsDatabase, OpenStep
    <2>2. CASE Fail(o, "layout")
      BY <1>1, <2>2, OpenerFailureKeeps DEF EnsureLayout, OpenCause
    <2> QED
      BY <1>1, <2>1, <2>2 DEF EnsureLayout
  <1>2. ASSUME NEW o \in Opener, LooksForFile(o) PROVE OpenInv'
    <2>0. UNCHANGED file
      BY <1>2 DEF LooksForFile
    <2>1. /\ OpenShape'
          /\ opening'[o].step = "establish"
          /\ \A p \in Opener : p # o => opening'[p] = opening[p]
      <3> DEFINE r == [opening[o] EXCEPT !.step = "establish", !.existed = file.exists]
      <3>1. opening[o] \in OpenerRecord /\ file.exists \in BOOLEAN
        BY <1>0 DEF OpenShape, IsDatabase
      <3>2. r \in OpenerRecord /\ r.step = "establish"
        BY <3>1 DEF OpenerRecord, OpenStep
      <3>3. opening' = [opening EXCEPT ![o] = r]
        BY <1>2 DEF LooksForFile
      <3> HIDE DEF r
      <3> QED
        BY <1>0, <2>0, <3>2, <3>3, OpenerMoves, UnchangedDatabase DEF OpenShape
    <2>3. TodoIsTheRest' /\ OpensInTime'
      BY <1>0, <2>0, <2>1 DEF TodoIsTheRest, OpensInTime, Reached
    <2> QED
      BY <2>1, <2>3 DEF OpenInv
  <1>3. ASSUME NEW o \in Opener, Establishes(o) PROVE OpenInv'
    BY <1>0, <1>3, OpenerStepKeeps DEF Establishes, GoTo, OpenShape, IsDatabase, OpenStep
  <1>4. ASSUME NEW o \in Opener, ConfiguresJournal(o) PROVE OpenInv'
    <2>1. CASE GoTo(o, "compare")
      BY <1>0, <1>4, <2>1, OpenerStepKeeps
         DEF ConfiguresJournal, GoTo, OpenShape, IsDatabase, OpenStep
    <2>2. CASE AttemptFails(o, "locked") /\ UNCHANGED file
      BY <2>2, AttemptKeeps
    <2> QED
      BY <1>4, <2>1, <2>2 DEF ConfiguresJournal
  <1>5. ASSUME NEW o \in Opener, ComparesVersions(o) PROVE OpenInv'
    <2>1. UNCHANGED file
      BY <1>5 DEF ComparesVersions
    <2>2. CASE GoTo(o, "harness")
      BY <1>0, <2>1, <2>2, OpenerStepKeeps DEF GoTo, OpenShape, IsDatabase, OpenStep
    <2>3. CASE ~(file.applied \subseteq Embedded[o]) /\ Fail(o, "unsupported")
      BY <2>1, <2>3, OpenerFailureKeeps DEF OpenCause
    <2>4. CASE file.applied = Embedded[o] /\ GoTo(o, "harden")
      BY <1>0, <2>1, <2>4, OpenerStepKeeps DEF GoTo, OpenShape, IsDatabase, OpenStep
    <2> QED
      BY <1>5, <2>2, <2>3, <2>4 DEF ComparesVersions
  <1>6. ASSUME NEW o \in Opener, StartsHarness(o) PROVE OpenInv'
    <2>1. CASE AttemptFails(o, "locked") /\ UNCHANGED file
      BY <2>1, AttemptKeeps
    <2>2. CASE /\ file' = [file EXCEPT !.versions = TRUE]
               /\ opening' = [opening EXCEPT ![o] =
                     [@ EXCEPT !.step = "migrate", !.todo = Embedded[o] \ file.applied]]
      <3>1. /\ OpenShape' /\ file'.applied = file.applied /\ file'.tables = file.tables
            /\ opening'[o].step = "migrate" /\ opening'[o].todo = Embedded[o] \ file.applied
            /\ \A p \in Opener : p # o => opening'[p] = opening[p]
        <4> DEFINE r == [opening[o] EXCEPT !.step = "migrate", !.todo = Embedded[o] \ file.applied]
        <4>1. opening[o] \in OpenerRecord /\ Embedded[o] \ file.applied \in SUBSET Nat
          BY <1>0, OpenAssumption DEF OpenShape
        <4>2. r \in OpenerRecord /\ r.step = "migrate" /\ r.todo = Embedded[o] \ file.applied
          BY <4>1 DEF OpenerRecord, OpenStep
        <4>3. opening' = [opening EXCEPT ![o] = r]
          BY <2>2
        <4>4. IsDatabase(file') /\ file'.applied = file.applied /\ file'.tables = file.tables
          BY <1>0, <2>2 DEF OpenShape, IsDatabase
        <4> HIDE DEF r
        <4> QED
          BY <1>0, <4>2, <4>3, <4>4, OpenerMoves DEF OpenShape
      <3> QED
        BY <1>0, <3>1 DEF OpenInv, TodoIsTheRest, OpensInTime, Reached
    <2> QED
      BY <1>6, <2>1, <2>2 DEF StartsHarness
  <1>7. ASSUME NEW o \in Opener, Migrates(o) PROVE OpenInv'
    <2>1. PICK next :
              \/ /\ next \notin file.tables
                 /\ file' = [file EXCEPT !.tables = @ \cup {next}, !.applied = @ \cup {next}]
                 /\ opening' = [opening EXCEPT ![o].todo = @ \ {next}]
              \/ AttemptFails(o, "already exists") /\ UNCHANGED file
              \/ AttemptFails(o, "locked") /\ UNCHANGED file
      BY <1>7 DEF Migrates
    <2>2. CASE /\ file' = [file EXCEPT !.tables = @ \cup {next}, !.applied = @ \cup {next}]
               /\ opening' = [opening EXCEPT ![o].todo = @ \ {next}]
      <3>1. /\ OpenShape'
            /\ file'.applied = file.applied \cup {next} /\ file'.tables = file.tables \cup {next}
            /\ opening'[o].step = "migrate" /\ opening'[o].todo = opening[o].todo \ {next}
            /\ \A p \in Opener : p # o => opening'[p] = opening[p]
        <4> DEFINE r == [opening[o] EXCEPT !.todo = opening[o].todo \ {next}]
        <4>0. opening[o].step = "migrate"
          BY <1>7, Zenon DEF Migrates, Reached
        <4>1. opening[o] \in OpenerRecord
          BY <1>0 DEF OpenShape
        <4>2. r \in OpenerRecord /\ r.step = "migrate" /\ r.todo = opening[o].todo \ {next}
          BY <4>0, <4>1 DEF OpenerRecord
        <4>3. opening' = [opening EXCEPT ![o] = r]
          BY <2>2
        <4>4. /\ IsDatabase(file')
              /\ file'.applied = file.applied \cup {next} /\ file'.tables = file.tables \cup {next}
          BY <1>0, <2>2 DEF OpenShape, IsDatabase
        <4> HIDE DEF r
        <4> QED
          BY <1>0, <4>2, <4>3, <4>4, OpenerMoves DEF OpenShape
      <3>2. opening[o].step = "migrate"
        BY <1>7, Zenon DEF Migrates, Reached
      <3>3. TodoIsTheRest' /\ OpensInTime'
        BY <1>0, <3>1, <3>2 DEF TodoIsTheRest, OpensInTime, Reached
      <3> QED
        BY <3>1, <3>3 DEF OpenInv
    <2> QED
      BY <2>1, <2>2, AttemptKeeps
  <1>8. ASSUME NEW o \in Opener, Migrated(o) PROVE OpenInv'
    <2>1. Embedded[o] \subseteq file.applied
      BY <1>0, <1>8 DEF Migrated, TodoIsTheRest
    <2> QED
      BY <1>0, <1>8, <2>1, OpenerStepKeeps DEF Migrated, GoTo, OpenShape, IsDatabase, OpenStep
  <1>9. ASSUME NEW o \in Opener, DeadlinePasses(o) PROVE OpenInv'
    <2>0. UNCHANGED file
      BY <1>9 DEF DeadlinePasses
    <2>1. /\ OpenShape'
          /\ \A p \in Opener : /\ opening'[p].step = opening[p].step
                               /\ opening'[p].todo = opening[p].todo
                               /\ opening'[p].cause = opening[p].cause
                               /\ opening[p].late => opening'[p].late
      <3> DEFINE r == [opening[o] EXCEPT !.late = TRUE]
      <3>1. opening[o] \in OpenerRecord
        BY <1>0 DEF OpenShape
      <3>2. /\ r \in OpenerRecord /\ r.step = opening[o].step /\ r.todo = opening[o].todo
            /\ r.cause = opening[o].cause /\ r.late
        BY <3>1 DEF OpenerRecord
      <3>3. opening' = [opening EXCEPT ![o] = r]
        BY <1>9 DEF DeadlinePasses
      <3> HIDE DEF r
      <3> QED
        BY <1>0, <2>0, <3>2, <3>3, OpenerMoves, UnchangedDatabase DEF OpenShape
    <2>3. TodoIsTheRest' /\ OpensInTime'
      BY <1>0, <2>0, <2>1 DEF TodoIsTheRest, OpensInTime, Reached
    <2> QED
      BY <2>1, <2>3 DEF OpenInv
  <1>10. ASSUME NEW o \in Opener, OpenerDies(o) PROVE OpenInv'
    BY <1>0, <1>10, OpenerStepKeeps DEF OpenerDies, GoTo, OpenShape, IsDatabase, OpenStep
  <1>11. CASE UNCHANGED openVars
    BY <1>0, <1>11 DEF openVars, OpenInv, OpenShape, IsDatabase, TodoIsTheRest, OpensInTime, Reached
  <1> QED
    BY <1>1, <1>2, <1>3, <1>4, <1>5, <1>6, <1>7, <1>8, <1>9, <1>10, <1>11 DEF OpenNext

(* Opening a database while others create it is no reason to fail: before the deadline
   only a wrong layout or a version of a later build ends the call, and an open
   connection sees every migration of its build, whatever the builds embed
   (connect_with_options, apply_pending_migrations). *)
THEOREM RacesDoNotFailOpening == OpenSpec => []OpensInTime
  <1>1. OpenInv => OpensInTime
    BY DEF OpenInv
  <1> QED
    BY <1>1, OpenInitKeeps, OpenNextKeeps, PTL DEF OpenSpec
-------------------------------------------------------------------------------
(***************************************************************************)
(* The file spool.  A record is accounted for once the ingestion accepted  *)
(* it, age or the limits removed it, or a file past its staging holds it.  *)
(* A file that is only staged accounts for nothing: its writer may remove  *)
(* it.  Everything a scan found is accounted for, whatever happened to the *)
(* directory since, and that is what a writer looks at last.               *)
(***************************************************************************)
FileState == {"staged", "pending", "claim"}

IsFile(f) ==
    /\ f = [base |-> f.base, state |-> f.state, record |-> f.record, by |-> f.by]
    /\ f.base = f.record /\ f.state \in FileState

Accounted(record) ==
    \/ record \in delivered \cup removed
    \/ \E f \in files : f.record = record /\ f.state # "staged"

IsProcess(q) ==
    /\ q = [step |-> q.step, op |-> q.op, known |-> q.known, counted |-> q.counted,
            claim |-> q.claim, taken |-> q.taken]
    /\ \A f \in q.known : IsFile(f)
    /\ q.taken \in BOOLEAN

FileShape ==
    /\ \A f \in files : IsFile(f)
    /\ DOMAIN process = Process /\ process = [p \in Process |-> process[p]]
    /\ \A p \in Process : IsProcess(process[p])
    /\ promised = [w \in Writer |-> promised[w]]

KnownAreAccounted == \A p \in Process : \A f \in process[p].known : Accounted(f.record)
TakenAreDelivered == \A p \in Process : process[p].taken => process[p].claim \in delivered
StoredAreAccounted == \A w \in Writer : promised[w] = "stored" => Accounted(w)

FileInv == FileShape /\ KnownAreAccounted /\ TakenAreDelivered /\ StoredAreAccounted

\* What a step has to show: nothing that was accounted for is lost, and what the one
\* process that moves knows, holds and promised is accounted for.
LEMMA FileStepKeeps ==
    ASSUME FileInv, NEW p \in Process, NEW q, IsProcess(q),
           process' = [process EXCEPT ![p] = q],
           \A f \in files' : IsFile(f),
           \A r : Accounted(r) => Accounted(r)',
           \A f \in q.known : Accounted(f.record)',
           q.taken => q.claim \in delivered',
           delivered \subseteq delivered',
           promised' = [w \in Writer |-> promised'[w]],
           \A w \in Writer : promised'[w] = "stored" => promised[w] = "stored" \/ Accounted(w)'
    PROVE  FileInv'
  <1>1. FileShape /\ KnownAreAccounted /\ TakenAreDelivered /\ StoredAreAccounted
    BY DEF FileInv
  <1>2. /\ DOMAIN process' = Process /\ process' = [o \in Process |-> process'[o]]
        /\ process'[p] = q
        /\ \A o \in Process : o # p => process'[o] = process[o]
    BY <1>1 DEF FileShape
  <1>3. \A o \in Process : IsProcess(process'[o])
    BY <1>1, <1>2 DEF FileShape
  <1>4. FileShape'
    BY <1>2, <1>3 DEF FileShape
  <1>5. KnownAreAccounted'
    BY <1>1, <1>2 DEF KnownAreAccounted
  <1>6. TakenAreDelivered'
    BY <1>1, <1>2 DEF TakenAreDelivered
  <1>7. StoredAreAccounted'
    BY <1>1 DEF StoredAreAccounted
  <1> QED
    BY <1>4, <1>5, <1>6, <1>7 DEF FileInv

\* The files stay, or only staged ones go.
LEMMA OnlyStagedGo ==
    ASSUME \A f \in files : f \in files' \/ f.state = "staged",
           delivered \subseteq delivered', removed \subseteq removed'
    PROVE  \A r : Accounted(r) => Accounted(r)'
  BY DEF Accounted

\* Files that are renamed hold what they held.
LEMMA RenamedFiles ==
    ASSUME NEW f, IsFile(f), NEW state \in FileState, NEW by
    PROVE  /\ IsFile([f EXCEPT !.state = state, !.by = by])
           /\ [f EXCEPT !.state = state, !.by = by].record = f.record
           /\ [f EXCEPT !.state = state, !.by = by].state = state
  <1> DEFINE g == [f EXCEPT !.state = state]
  <1>1. IsFile(g) /\ g.record = f.record /\ g.state = state
    BY DEF IsFile
  <1> HIDE DEF g
  <1> DEFINE h == [g EXCEPT !.by = by]
  <1>2. IsFile(h) /\ h.record = f.record /\ h.state = state
    BY <1>1 DEF IsFile
  <1>3. h = [f EXCEPT !.state = state, !.by = by]
    BY DEF h, g
  <1> QED
    BY <1>2, <1>3

LEMMA PendingFiles ==
    ASSUME NEW f, IsFile(f)
    PROVE  /\ IsFile(ToPending(f)) /\ ToPending(f).record = f.record
           /\ ToPending(f).state = "pending"
  BY RenamedFiles DEF ToPending, FileState

\* A process between two operations knows and holds nothing.
LEMMA BetweenIsProcess ==
    ASSUME NEW step
    PROVE  IsProcess(Between(step)) /\ Between(step).known = {} /\ ~Between(step).taken
  BY DEF Between, IsProcess

LEMMA MovedProcess ==
    ASSUME NEW q, IsProcess(q), NEW step
    PROVE  LET moved == [q EXCEPT !.step = step]
           IN IsProcess(moved) /\ moved.known = q.known /\ moved.taken = q.taken
              /\ moved.claim = q.claim
  BY DEF IsProcess

\* A process that moves to another operation knows and holds what it did.
Redirected(q, step, op) == [q EXCEPT !.step = step, !.op = op]
LEMMA RedirectedProcess ==
    ASSUME NEW q, IsProcess(q), NEW step, NEW op
    PROVE  /\ IsProcess(Redirected(q, step, op))
           /\ Redirected(q, step, op).known = q.known
           /\ Redirected(q, step, op).taken = q.taken
           /\ Redirected(q, step, op).claim = q.claim
  <1> DEFINE m == [q EXCEPT !.step = step]
  <1>1. IsProcess(m) /\ m.known = q.known /\ m.taken = q.taken /\ m.claim = q.claim
    BY MovedProcess
  <1> HIDE DEF m
  <1> DEFINE n == [m EXCEPT !.op = op]
  <1>2. IsProcess(n) /\ n.known = q.known /\ n.taken = q.taken /\ n.claim = q.claim
    BY <1>1 DEF IsProcess
  <1>3. n = Redirected(q, step, op)
    BY DEF n, m, Redirected
  <1> QED
    BY <1>2, <1>3

\* A process that learns from the directory.
Learnt(q, known, counted) == [q EXCEPT !.known = known, !.counted = counted]
LEMMA LearntProcess ==
    ASSUME NEW q, IsProcess(q), NEW known, NEW counted, \A f \in known : IsFile(f)
    PROVE  /\ IsProcess(Learnt(q, known, counted))
           /\ Learnt(q, known, counted).known = known
           /\ Learnt(q, known, counted).taken = q.taken
           /\ Learnt(q, known, counted).claim = q.claim
  <1> DEFINE m == [q EXCEPT !.known = known]
  <1>1. IsProcess(m) /\ m.known = known /\ m.taken = q.taken /\ m.claim = q.claim
    BY DEF IsProcess
  <1> HIDE DEF m
  <1> DEFINE n == [m EXCEPT !.counted = counted]
  <1>2. IsProcess(n) /\ n.known = known /\ n.taken = q.taken /\ n.claim = q.claim
    BY <1>1 DEF IsProcess
  <1>3. n = Learnt(q, known, counted)
    BY DEF n, m, Learnt
  <1> QED
    BY <1>2, <1>3

\* A promise that is no Stored.
LEMMA NotStored ==
    ASSUME FileShape,
           \/ UNCHANGED promised
           \/ \E w \in Writer, told \in {"error", "dropped"} :
                 promised' = [promised EXCEPT ![w] = told]
    PROVE  /\ promised' = [w \in Writer |-> promised'[w]]
           /\ \A w \in Writer : promised'[w] = "stored" => promised[w] = "stored"
  BY DEF FileShape

\* Steps of a process that learns and takes nothing new.
LEMMA SteadyStepKeeps ==
    ASSUME FileInv, NEW p \in Process, NEW q, IsProcess(q),
           process' = [process EXCEPT ![p] = q],
           q.known \subseteq process[p].known,
           q.taken => process[p].taken /\ q.claim = process[p].claim,
           \A f \in files' : IsFile(f),
           \A r : Accounted(r) => Accounted(r)',
           delivered \subseteq delivered',
           promised' = [w \in Writer |-> promised'[w]],
           \A w \in Writer : promised'[w] = "stored" => promised[w] = "stored"
    PROVE  FileInv'
  <1>1. KnownAreAccounted /\ TakenAreDelivered
    BY DEF FileInv
  <1>2. \A f \in q.known : Accounted(f.record)'
    BY <1>1 DEF KnownAreAccounted
  <1>3. q.taken => q.claim \in delivered'
    BY <1>1 DEF TakenAreDelivered
  <1> QED
    BY <1>2, <1>3, FileStepKeeps

\* Steps that leave the directory and the history alone.
LEMMA QuietStepKeeps ==
    ASSUME FileInv, NEW p \in Process, NEW q, IsProcess(q),
           process' = [process EXCEPT ![p] = q],
           q.known \subseteq process[p].known,
           q.taken => process[p].taken /\ q.claim = process[p].claim,
           UNCHANGED <<files, delivered, removed>>,
           promised' = [w \in Writer |-> promised'[w]],
           \A w \in Writer : promised'[w] = "stored" => promised[w] = "stored"
    PROVE  FileInv'
  <1>1. \A f \in files' : IsFile(f)
    BY DEF FileInv, FileShape
  <1>2. \A r : Accounted(r) => Accounted(r)'
    BY DEF Accounted
  <1> QED
    BY <1>1, <1>2, SteadyStepKeeps

LEMMA GotoKeeps ==
    ASSUME FileInv, NEW p \in Process, NEW step, Goto(p, step),
           UNCHANGED <<files, delivered, removed, promised>>
    PROVE  FileInv'
  <1> DEFINE q == [process[p] EXCEPT !.step = step]
  <1>1. FileShape /\ IsProcess(process[p])
    BY DEF FileInv, FileShape
  <1>2. IsProcess(q) /\ q.known = process[p].known /\ q.taken = process[p].taken
        /\ q.claim = process[p].claim
    BY <1>1, MovedProcess
  <1>3. process' = [process EXCEPT ![p] = q]
    BY DEF Goto
  <1>4. /\ promised' = [w \in Writer |-> promised'[w]]
        /\ \A w \in Writer : promised'[w] = "stored" => promised[w] = "stored"
    BY <1>1, NotStored
  <1> HIDE DEF q
  <1> QED
    BY <1>2, <1>3, <1>4, QuietStepKeeps

LEMMA BeginKeeps ==
    ASSUME FileInv, NEW p \in Process, NEW op,
           process' = [process EXCEPT ![p] = [@ EXCEPT !.step = "lock", !.op = op]],
           UNCHANGED <<files, delivered, removed, promised>>
    PROVE  FileInv'
  <1> DEFINE q == Redirected(process[p], "lock", op)
  <1>1. FileShape /\ IsProcess(process[p])
    BY DEF FileInv, FileShape
  <1>2. IsProcess(q) /\ q.known = process[p].known /\ q.taken = process[p].taken
        /\ q.claim = process[p].claim
    BY <1>1, RedirectedProcess
  <1>3. process' = [process EXCEPT ![p] = q]
    BY DEF Redirected
  <1>4. /\ promised' = [w \in Writer |-> promised'[w]]
        /\ \A w \in Writer : promised'[w] = "stored" => promised[w] = "stored"
    BY <1>1, NotStored
  <1> HIDE DEF q
  <1> QED
    BY <1>2, <1>3, <1>4, QuietStepKeeps

\* An operation that ends and promises nothing: what it removed was only staged.
LEMMA EndsKeeps ==
    ASSUME FileInv, NEW p \in Process, NEW step,
           process' = [process EXCEPT ![p] = Between(step)],
           files' \subseteq files, \A f \in files : f \in files' \/ f.state = "staged",
           UNCHANGED <<delivered, removed>>,
           \/ UNCHANGED promised
           \/ \E w \in Writer, told \in {"error", "dropped"} :
                 promised' = [promised EXCEPT ![w] = told]
    PROVE  FileInv'
  <1> DEFINE q == Between(step)
  <1>1. IsProcess(q) /\ q.known = {} /\ ~q.taken
    BY BetweenIsProcess
  <1>2. FileShape
    BY DEF FileInv
  <1>3. \A f \in files' : IsFile(f)
    BY <1>2 DEF FileShape
  <1>4. \A r : Accounted(r) => Accounted(r)'
    BY OnlyStagedGo
  <1>5. /\ promised' = [w \in Writer |-> promised'[w]]
        /\ \A w \in Writer : promised'[w] = "stored" => promised[w] = "stored"
    BY <1>2, NotStored
  <1>6. process' = [process EXCEPT ![p] = q]
    OBVIOUS
  <1> HIDE DEF q
  <1> QED
    BY <1>1, <1>3, <1>4, <1>5, <1>6, FileStepKeeps

LEMMA FailsKeeps ==
    ASSUME FileInv, NEW p \in Process, Fails(p), UNCHANGED <<delivered, removed>>
    PROVE  FileInv'
  <1>1. process' = [process EXCEPT ![p] = Between(IF p \in Writer THEN "done" ELSE "rest")]
    BY DEF Fails
  <1>2. CASE p \in Writer
    BY <1>1, <1>2, EndsKeeps DEF Fails
  <1>3. CASE p \notin Writer
    BY <1>1, <1>3, EndsKeeps DEF Fails
  <1> QED
    BY <1>2, <1>3

\* Every file is still there, under its name or under another that is no staged one.
LEMMA RenamedStayAccounted ==
    ASSUME \A f \in files : \E g \in files' :
               g.record = f.record /\ (f.state # "staged" => g.state # "staged"),
           delivered \subseteq delivered', removed \subseteq removed'
    PROVE  \A r : Accounted(r) => Accounted(r)'
  BY DEF Accounted

LEMMA StageKeeps == ASSUME FileInv, NEW w \in Writer, Stage(w) PROVE FileInv'
  <1> DEFINE q == [Between("lock") EXCEPT !.op = "enqueue"]
             new == Staged(PendingFileName(w), w)
  <1>1. FileShape
    BY DEF FileInv
  <1>2. w \in Process
    BY DEF Process
  <1>3. IsProcess(q) /\ q.known = {} /\ ~q.taken
    <2> DEFINE r == Between("lock")
    <2>1. IsProcess(r) /\ r.known = {} /\ ~r.taken
      BY BetweenIsProcess
    <2>2. q = [r EXCEPT !.op = "enqueue"]
      OBVIOUS
    <2> HIDE DEF r, q
    <2>3. IsProcess(q) /\ q.known = r.known /\ q.taken = r.taken
      BY <2>1, <2>2 DEF IsProcess
    <2> QED
      BY <2>1, <2>3
  <1>4. process' = [process EXCEPT ![w] = q] /\ UNCHANGED <<delivered, removed, promised>>
    BY DEF Stage
  <1>5. IsFile(new)
    BY DEF Staged, PendingFileName, IsFile, FileState, None
  <1>6. files' = {f \in files : ~(f.base = PendingFileName(w) /\ f.state = "staged")} \cup {new}
    BY DEF Stage
  <1> HIDE DEF q, new
  <1>7. \A f \in files' : IsFile(f)
    BY <1>1, <1>5, <1>6 DEF FileShape
  <1>8. \A f \in files : f \in files' \/ f.state = "staged"
    BY <1>6
  <1>9. \A r : Accounted(r) => Accounted(r)'
    BY <1>4, <1>8, OnlyStagedGo
  <1>10. /\ promised' = [v \in Writer |-> promised'[v]]
         /\ \A v \in Writer : promised'[v] = "stored" => promised[v] = "stored"
    BY <1>1, <1>4, NotStored
  <1> QED
    BY <1>2, <1>3, <1>4, <1>7, <1>9, <1>10, SteadyStepKeeps

LEMMA PromoteKeeps == ASSUME FileInv, NEW w \in Writer, Promote(w) PROVE FileInv'
  <1> DEFINE base == PendingFileName(w)
             ours == {f \in files : f.base = base /\ f.state = "staged"}
             q == [process[w] EXCEPT !.step = "scan"]
  <1>1. FileShape /\ w \in Process
    BY DEF FileInv, Process
  <1>2. \/ /\ files' = files \ ours /\ promised' = [promised EXCEPT ![w] = "error"]
           /\ LeaveTo(w, Between("done"))
        \/ /\ files' = {IF f \in ours THEN ToPending(f) ELSE f : f \in files}
           /\ Goto(w, "scan") /\ UNCHANGED promised
    BY DEF Promote
  <1>3. UNCHANGED <<delivered, removed>>
    BY DEF Promote
  <1>4. CASE /\ files' = files \ ours /\ promised' = [promised EXCEPT ![w] = "error"]
             /\ LeaveTo(w, Between("done"))
    <2>1. process' = [process EXCEPT ![w] = Between("done")]
      BY <1>4 DEF LeaveTo
    <2>2. files' \subseteq files /\ \A f \in files : f \in files' \/ f.state = "staged"
      BY <1>4
    <2> QED
      BY <1>1, <1>3, <1>4, <2>1, <2>2, EndsKeeps
  <1>5. CASE /\ files' = {IF f \in ours THEN ToPending(f) ELSE f : f \in files}
             /\ Goto(w, "scan") /\ UNCHANGED promised
    <2> DEFINE moved(f) == IF f \in ours THEN ToPending(f) ELSE f
    <2>1. \A f \in files : /\ IsFile(moved(f)) /\ moved(f).record = f.record
                           /\ f.state # "staged" => moved(f).state # "staged"
      BY <1>1, PendingFiles DEF FileShape
    <2>2. files' = {moved(f) : f \in files}
      BY <1>5
    <2> HIDE DEF moved
    <2>3. \A f \in files' : IsFile(f)
      BY <2>1, <2>2
    <2>4. \A r : Accounted(r) => Accounted(r)'
      BY <1>3, <2>1, <2>2, RenamedStayAccounted
    <2>5. IsProcess(q) /\ q.known = process[w].known /\ q.taken = process[w].taken
          /\ q.claim = process[w].claim
      BY <1>1, MovedProcess DEF FileShape
    <2>6. process' = [process EXCEPT ![w] = q]
      BY <1>5 DEF Goto
    <2>7. /\ promised' = [v \in Writer |-> promised'[v]]
          /\ \A v \in Writer : promised'[v] = "stored" => promised[v] = "stored"
      BY <1>1, <1>5, NotStored
    <2> HIDE DEF q
    <2> QED
      BY <1>1, <1>3, <2>3, <2>4, <2>5, <2>6, <2>7, SteadyStepKeeps
  <1> QED
    BY <1>2, <1>4, <1>5

\* What is expired is removed and counted, and the scanner knows the rest.
LEMMA ScanKeeps == ASSUME FileInv, NEW p \in Process, Scan(p) PROVE FileInv'
  <1> DEFINE expired == {f \in In("pending") : f.record \in aged}
             known == In("pending") \ expired
             counted == metricsFile + Cardinality(expired)
             next == IF p \in Writer THEN "limits" ELSE "count"
             r == Learnt(process[p], known, counted)
             q == [r EXCEPT !.step = next]
  <1>1. FileShape /\ IsProcess(process[p])
    BY DEF FileInv, FileShape
  <1>2. /\ files' = files \ expired
        /\ removed' = removed \cup {f.record : f \in expired}
        /\ process' = [process EXCEPT ![p] =
               [@ EXCEPT !.known = known, !.counted = counted, !.step = next]]
        /\ UNCHANGED <<promised, delivered>>
    BY DEF Scan
  <1>3. known \subseteq files' /\ \A f \in known : f.state = "pending" /\ IsFile(f)
    BY <1>1, <1>2 DEF In, FileShape
  <1> HIDE DEF known, counted, next
  <1>4. process' = [process EXCEPT ![p] = q]
    BY <1>2 DEF Learnt
  <1>5. IsProcess(r) /\ r.known = known /\ r.taken = process[p].taken /\ r.claim = process[p].claim
    BY <1>1, <1>3, LearntProcess
  <1> HIDE DEF r
  <1>6. IsProcess(q) /\ q.known = known /\ q.taken = process[p].taken /\ q.claim = process[p].claim
    BY <1>5, MovedProcess
  <1> HIDE DEF q
  <1>7. \A f \in files' : IsFile(f)
    BY <1>1, <1>2 DEF FileShape
  <1>8. ASSUME NEW record, Accounted(record) PROVE Accounted(record)'
    <2>1. CASE record \in delivered \cup removed
      BY <1>2, <2>1 DEF Accounted
    <2>2. CASE \E f \in files : f.record = record /\ f.state # "staged"
      BY <1>2, <2>2 DEF Accounted
    <2> QED
      BY <1>8, <2>1, <2>2 DEF Accounted
  <1>9. \A f \in q.known : Accounted(f.record)'
    BY <1>3, <1>6 DEF Accounted
  <1>10. q.taken => q.claim \in delivered'
    BY <1>2, <1>6 DEF FileInv, TakenAreDelivered
  <1>11. /\ promised' = [v \in Writer |-> promised'[v]]
         /\ \A v \in Writer : promised'[v] = "stored" => promised[v] = "stored"
    BY <1>1, <1>2, NotStored
  <1> QED
    BY <1>2, <1>4, <1>6, <1>7, <1>8, <1>9, <1>10, <1>11, FileStepKeeps

LEMMA ScanFailsKeeps == ASSUME FileInv, NEW p \in Process, ScanFails(p) PROVE FileInv'
  <1>1. /\ process' = [process EXCEPT ![p] = Between(IF p \in Writer THEN "done" ELSE "rest")]
        /\ UNCHANGED <<files, delivered, removed>>
    BY DEF ScanFails, LeaveTo
  <1>2. \/ UNCHANGED promised
        \/ p \in Writer /\ promised' = [promised EXCEPT ![p] = "error"]
    BY DEF ScanFails
  <1> QED
    BY <1>1, <1>2, EndsKeeps

\* The record of the lowest priority leaves the directory and is counted as removed.
LEMMA EnforceKeeps == ASSUME FileInv, NEW w \in Writer, EnforceFileLimits(w) PROVE FileInv'
  <1>1. FileShape /\ w \in Process /\ IsProcess(process[w])
    BY DEF FileInv, FileShape, Process
  <1>2. UNCHANGED delivered
    BY DEF EnforceFileLimits
  <1>3. PICK lowest :
           \/ Goto(w, "count") /\ UNCHANGED <<files, promised, removed>>
           \/ /\ lowest \in files /\ files' = files \ {lowest}
              /\ removed' = removed \cup {lowest.record}
              /\ process' = [process EXCEPT ![w] = [@ EXCEPT
                     !.known = process[w].known \ {lowest}, !.counted = process[w].counted + 1]]
              /\ UNCHANGED promised
           \/ /\ promised' = [promised EXCEPT ![w] = "error"]
              /\ LeaveTo(w, Between("done"))
              /\ UNCHANGED <<files, removed>>
    BY Zenon DEF EnforceFileLimits
  <1>4. CASE Goto(w, "count") /\ UNCHANGED <<files, promised, removed>>
    BY <1>1, <1>2, <1>4, GotoKeeps
  <1>5. CASE /\ lowest \in files /\ files' = files \ {lowest}
             /\ removed' = removed \cup {lowest.record}
             /\ process' = [process EXCEPT ![w] = [@ EXCEPT
                    !.known = process[w].known \ {lowest}, !.counted = process[w].counted + 1]]
             /\ UNCHANGED promised
    <2> DEFINE known == process[w].known \ {lowest}
               counted == process[w].counted + 1
               q == Learnt(process[w], known, counted)
    <2>1. process' = [process EXCEPT ![w] = q]
      BY <1>5 DEF Learnt
    <2>2. \A f \in known : IsFile(f)
      BY <1>1 DEF IsProcess
    <2>3. known \subseteq process[w].known
      OBVIOUS
    <2> HIDE DEF known, counted
    <2>4. IsProcess(q) /\ q.known = known /\ q.taken = process[w].taken
          /\ q.claim = process[w].claim
      BY <1>1, <2>2, LearntProcess
    <2> HIDE DEF q
    <2>5. \A f \in files' : IsFile(f)
      BY <1>1, <1>5 DEF FileShape
    <2>6. \A r : Accounted(r) => Accounted(r)'
      BY <1>2, <1>5 DEF Accounted
    <2>7. /\ promised' = [v \in Writer |-> promised'[v]]
          /\ \A v \in Writer : promised'[v] = "stored" => promised[v] = "stored"
      BY <1>1, <1>5, NotStored
    <2> QED
      BY <1>1, <1>2, <2>1, <2>3, <2>4, <2>5, <2>6, <2>7, SteadyStepKeeps
  <1>6. CASE /\ promised' = [promised EXCEPT ![w] = "error"]
             /\ LeaveTo(w, Between("done"))
             /\ UNCHANGED <<files, removed>>
    BY <1>1, <1>2, <1>6, EndsKeeps DEF LeaveTo
  <1> QED
    BY <1>3, <1>4, <1>5, <1>6

\* A writer promises what it knows, and what it knows is accounted for.
LEMMA SaveMetricsKeeps == ASSUME FileInv, NEW p \in Process, SaveMetrics(p) PROVE FileInv'
  <1>1. FileShape /\ KnownAreAccounted
    BY DEF FileInv
  <1>2. UNCHANGED <<files, delivered, removed>>
    BY DEF SaveMetrics
  <1>3. CASE p \in Writer /\ \E f \in process[p].known : f.base = PendingFileName(p)
    <2> DEFINE q == Between("done")
    <2>1. promised' = [promised EXCEPT ![p] = "stored"] /\ process' = [process EXCEPT ![p] = q]
      BY <1>3 DEF SaveMetrics, LeaveTo
    <2>2. Accounted(p)
      BY <1>1, <1>3 DEF KnownAreAccounted, PendingFileName, FileShape, IsProcess, IsFile
    <2>3. \A r : Accounted(r) => Accounted(r)'
      BY <1>2 DEF Accounted
    <2>4. /\ promised' = [v \in Writer |-> promised'[v]]
          /\ \A v \in Writer : promised'[v] = "stored" => promised[v] = "stored" \/ v = p
      BY <1>1, <2>1 DEF FileShape
    <2>5. IsProcess(q) /\ q.known = {} /\ ~q.taken
      BY BetweenIsProcess
    <2>6. \A f \in files' : IsFile(f)
      BY <1>1, <1>2 DEF FileShape
    <2> HIDE DEF q
    <2> QED
      BY <1>2, <2>1, <2>2, <2>3, <2>4, <2>5, <2>6, FileStepKeeps
  <1>4. CASE p \in Writer /\ ~\E f \in process[p].known : f.base = PendingFileName(p)
    BY <1>2, <1>4, EndsKeeps DEF SaveMetrics, LeaveTo
  <1>5. CASE p \notin Writer
    <2>1. UNCHANGED promised
      BY <1>5 DEF SaveMetrics
    <2>2. CASE LeaveTo(p, Between("rest"))
      BY <1>2, <2>1, <2>2, EndsKeeps DEF LeaveTo
    <2>3. CASE Goto(p, "rename")
      BY <1>2, <2>1, <2>3, GotoKeeps
    <2> QED
      BY <1>5, <2>2, <2>3 DEF SaveMetrics
  <1> QED
    BY <1>3, <1>4, <1>5

\* The best record is renamed if it is still there.
LEMMA TakeClaimKeeps == ASSUME FileInv, NEW d \in Process, TakeClaim(d) PROVE FileInv'
  <1>1. FileShape
    BY DEF FileInv
  <1>2. UNCHANGED <<delivered, removed, promised>>
    BY DEF TakeClaim
  <1>3. PICK best :
           \/ /\ best \in files
              /\ files' = (files \ {best}) \cup {[best EXCEPT !.state = "claim", !.by = d]}
              /\ LeaveTo(d, [Between("claimed") EXCEPT !.claim = best.base])
           \/ LeaveTo(d, Between("rest")) /\ UNCHANGED files
    BY Zenon DEF TakeClaim
  <1>4. CASE /\ best \in files
             /\ files' = (files \ {best}) \cup {[best EXCEPT !.state = "claim", !.by = d]}
             /\ LeaveTo(d, [Between("claimed") EXCEPT !.claim = best.base])
    <2> DEFINE mine == [best EXCEPT !.state = "claim", !.by = d]
               r == Between("claimed")
               q == [r EXCEPT !.claim = best.base]
    <2>1. IsFile(mine) /\ mine.record = best.record /\ mine.state = "claim"
      BY <1>1, <1>4, RenamedFiles DEF FileShape, FileState
    <2>2. files' = (files \ {best}) \cup {mine} /\ process' = [process EXCEPT ![d] = q]
      BY <1>4 DEF LeaveTo
    <2>3. IsProcess(r) /\ r.known = {} /\ ~r.taken
      BY BetweenIsProcess
    <2> HIDE DEF mine, r
    <2>4. IsProcess(q) /\ q.known = {} /\ ~q.taken
      BY <2>3 DEF IsProcess
    <2> HIDE DEF q
    <2>5. \A f \in files' : IsFile(f)
      BY <1>1, <2>1, <2>2 DEF FileShape
    <2>6. \A s : Accounted(s) => Accounted(s)'
      BY <1>2, <1>4, <2>1, <2>2 DEF Accounted
    <2>7. /\ promised' = [v \in Writer |-> promised'[v]]
          /\ \A v \in Writer : promised'[v] = "stored" => promised[v] = "stored"
      BY <1>1, <1>2, NotStored
    <2> QED
      BY <1>2, <2>2, <2>4, <2>5, <2>6, <2>7, SteadyStepKeeps
  <1>5. CASE LeaveTo(d, Between("rest")) /\ UNCHANGED files
    BY <1>2, <1>5, EndsKeeps DEF LeaveTo
  <1> QED
    BY <1>3, <1>4, <1>5

LEMMA AcceptsKeeps == ASSUME FileInv, NEW d \in Process, Accepts(d) PROVE FileInv'
  <1> DEFINE q == [process[d] EXCEPT !.taken = TRUE]
  <1>1. FileShape /\ IsProcess(process[d])
    BY DEF FileInv, FileShape
  <1>2. /\ delivered' = delivered \cup {process[d].claim}
        /\ process' = [process EXCEPT ![d] = q]
        /\ UNCHANGED <<files, promised, removed>>
    BY DEF Accepts
  <1>3. IsProcess(q) /\ q.known = process[d].known /\ q.claim = process[d].claim
    <2> DEFINE old == process[d]
               truth == TRUE
    <2>1. IsProcess(old) /\ truth \in BOOLEAN /\ q = [old EXCEPT !.taken = truth]
      BY <1>1
    <2> HIDE DEF old, truth, q
    <2>2. IsProcess(q) /\ q.known = old.known /\ q.claim = old.claim
      BY <2>1 DEF IsProcess
    <2> QED
      BY <2>2 DEF old
  <1> HIDE DEF q
  <1>4. \A f \in files' : IsFile(f)
    BY <1>1, <1>2 DEF FileShape
  <1>5. \A r : Accounted(r) => Accounted(r)'
    BY <1>2 DEF Accounted
  <1>6. \A f \in q.known : Accounted(f.record)'
    BY <1>3, <1>5 DEF FileInv, KnownAreAccounted
  <1>7. /\ promised' = [v \in Writer |-> promised'[v]]
        /\ \A v \in Writer : promised'[v] = "stored" => promised[v] = "stored"
    BY <1>1, <1>2, NotStored
  <1> QED
    BY <1>2, <1>3, <1>4, <1>5, <1>6, <1>7, FileStepKeeps

\* A claim that commits was accepted: its file may go.
LEMMA CommitFileKeeps == ASSUME FileInv, NEW d \in Process, CommitFile(d) PROVE FileInv'
  <1> DEFINE q == Between("rest")
  <1>1. FileShape
    BY DEF FileInv
  <1>2. /\ files' = files \ HeldFile(d)
        /\ process' = [process EXCEPT ![d] = q]
        /\ UNCHANGED <<promised, delivered, removed>>
    BY DEF CommitFile
  <1>3. process[d].claim \in delivered
    BY DEF CommitFile, FileInv, TakenAreDelivered
  <1>4. \A f \in HeldFile(d) : f.record \in delivered
    BY <1>1, <1>3 DEF HeldFile, In, FileShape, IsFile
  <1>5. \A r : Accounted(r) => Accounted(r)'
    BY <1>2, <1>4 DEF Accounted
  <1>6. \A f \in files' : IsFile(f)
    BY <1>1, <1>2 DEF FileShape
  <1>7. IsProcess(q) /\ q.known = {} /\ ~q.taken
    BY BetweenIsProcess
  <1>8. /\ promised' = [v \in Writer |-> promised'[v]]
        /\ \A v \in Writer : promised'[v] = "stored" => promised[v] = "stored"
    BY <1>1, <1>2, NotStored
  <1> HIDE DEF q
  <1> QED
    BY <1>2, <1>5, <1>6, <1>7, <1>8, SteadyStepKeeps

\* A release and a recovery rename what they find to pending.
LEMMA ToPendingKeeps ==
    ASSUME FileInv, NEW d \in Process, NEW S \in SUBSET files,
           files' = (files \ S) \cup {ToPending(f) : f \in S},
           LeaveTo(d, Between("rest")), UNCHANGED <<promised, delivered, removed>>
    PROVE  FileInv'
  <1> DEFINE q == Between("rest")
  <1>1. FileShape
    BY DEF FileInv
  <1>2. \A f \in S : /\ IsFile(ToPending(f)) /\ ToPending(f).record = f.record
                     /\ ToPending(f).state = "pending"
    BY <1>1, PendingFiles DEF FileShape
  <1>3. \A f \in files' : IsFile(f)
    BY <1>1, <1>2 DEF FileShape
  <1>4. \A f \in files : \E g \in files' :
            g.record = f.record /\ (f.state # "staged" => g.state # "staged")
    BY <1>2
  <1>5. \A r : Accounted(r) => Accounted(r)'
    BY <1>4, RenamedStayAccounted
  <1>6. IsProcess(q) /\ q.known = {} /\ ~q.taken
    BY BetweenIsProcess
  <1>7. /\ promised' = [v \in Writer |-> promised'[v]]
        /\ \A v \in Writer : promised'[v] = "stored" => promised[v] = "stored"
    BY <1>1, NotStored
  <1>8. process' = [process EXCEPT ![d] = q]
    BY DEF LeaveTo
  <1> HIDE DEF q
  <1> QED
    BY <1>3, <1>5, <1>6, <1>7, <1>8, SteadyStepKeeps

LEMMA FileInitKeeps == FileInit => FileInv
  <1> SUFFICES ASSUME FileInit PROVE FileInv
    OBVIOUS
  <1>1. PICK crew \in Crews :
            process = [p \in Process |-> Between(IF p \in crew THEN "rest" ELSE "done")]
    BY DEF FileInit
  <1>2. \A p \in Process : IsProcess(process[p]) /\ process[p].known = {} /\ ~process[p].taken
    BY <1>1, BetweenIsProcess
  <1>3. FileShape
    BY <1>1, <1>2 DEF FileInit, FileShape
  <1> QED
    BY <1>2, <1>3
       DEF FileInit, FileInv, KnownAreAccounted, TakenAreDelivered, StoredAreAccounted

LEMMA FileNextKeeps == FileInv /\ [FileNext]_fileVars => FileInv'
  <1> SUFFICES ASSUME FileInv, [FileNext]_fileVars PROVE FileInv'
    OBVIOUS
  <1>1. \A w \in Writer : w \in Process
    BY DEF Process
  <1>2. \A d \in Claimer : d \in Process
    BY DEF Process
  <1>3. ASSUME NEW p \in Process,
               \/ Acquire(p) \/ MeetsOldLock(p) \/ RemovesOldLock(p) \/ GivesUp(p)
               \/ Scan(p) \/ ScanFails(p) \/ SaveMetrics(p) \/ Dies(p)
        PROVE  FileInv'
    <2>1. CASE Acquire(p)
      BY <2>1, GotoKeeps DEF Acquire
    <2>2. CASE MeetsOldLock(p)
      BY <2>2, GotoKeeps DEF MeetsOldLock
    <2>3. CASE RemovesOldLock(p)
      <3>1. UNCHANGED <<delivered, removed>>
        BY <2>3 DEF RemovesOldLock
      <3>2. Fails(p) \/ (Goto(p, "lock") /\ UNCHANGED <<files, promised>>)
        BY <2>3 DEF RemovesOldLock
      <3> QED
        BY <3>1, <3>2, FailsKeeps, GotoKeeps
    <2>4. CASE GivesUp(p)
      BY <2>4, FailsKeeps DEF GivesUp
    <2>5. CASE Dies(p)
      <3>1. /\ process' = [process EXCEPT ![p] = Between(IF p \in Writer THEN "done" ELSE "rest")]
            /\ UNCHANGED <<files, delivered, removed>>
        BY <2>5 DEF Dies
      <3>2. \/ UNCHANGED promised
            \/ p \in Writer /\ promised' = [promised EXCEPT ![p] = "error"]
        BY <2>5 DEF Dies
      <3> QED
        BY <3>1, <3>2, EndsKeeps
    <2> QED
      BY <1>3, <2>1, <2>2, <2>3, <2>4, <2>5, ScanKeeps, ScanFailsKeeps, SaveMetricsKeeps
  <1>4. ASSUME NEW d \in Claimer, ClaimNext(d) PROVE FileInv'
    BY <1>2, <1>4, BeginKeeps DEF ClaimNext, Begin
  <1>5. ASSUME NEW d \in Claimer, StartRecovery(d) PROVE FileInv'
    BY <1>2, <1>5, BeginKeeps DEF StartRecovery, Begin
  <1>6. ASSUME NEW d \in Claimer, Refuses(d) PROVE FileInv'
    BY <1>2, <1>6, BeginKeeps DEF Refuses
  <1>7. ASSUME NEW d \in Claimer, ReleaseInner(d) PROVE FileInv'
    <2>1. HeldFile(d) \in SUBSET files
      BY DEF HeldFile, In
    <2> QED
      BY <1>2, <1>7, <2>1, ToPendingKeeps DEF ReleaseInner
  <1>8. ASSUME NEW d \in Claimer, RecoverFiles(d) PROVE FileInv'
    <2>1. files' = (files \ files) \cup {ToPending(f) : f \in files}
      BY <1>8 DEF RecoverFiles
    <2>2. LeaveTo(d, Between("rest")) /\ UNCHANGED <<promised, delivered, removed>>
      BY <1>8 DEF RecoverFiles
    <2> QED
      BY <1>2, <2>1, <2>2, ToPendingKeeps
  <1>9. ASSUME UNCHANGED <<files, process, promised, delivered, removed>> PROVE FileInv'
    BY <1>9 DEF FileInv, FileShape, KnownAreAccounted, TakenAreDelivered, StoredAreAccounted,
                Accounted
  <1>10. ASSUME NEW w \in Writer, Ages(w) PROVE FileInv'
    BY <1>9, <1>10 DEF Ages
  <1>11. CASE LockAges
    BY <1>9, <1>11 DEF LockAges
  <1>12. CASE UNCHANGED fileVars
    BY <1>9, <1>12 DEF fileVars
  <1>13. ASSUME NEW w \in Writer, Stage(w) \/ Promote(w) \/ EnforceFileLimits(w) \/ Ages(w)
         PROVE  FileInv'
    BY <1>10, <1>13, StageKeeps, PromoteKeeps, EnforceKeeps
  <1>14. ASSUME NEW d \in Claimer,
                \/ ClaimNext(d) \/ TakeClaim(d) \/ Accepts(d) \/ Refuses(d) \/ CommitFile(d)
                \/ ReleaseInner(d) \/ StartRecovery(d) \/ RecoverFiles(d)
         PROVE  FileInv'
    BY <1>2, <1>4, <1>5, <1>6, <1>7, <1>8, <1>14, TakeClaimKeeps, AcceptsKeeps, CommitFileKeeps
  <1> QED
    BY <1>3, <1>11, <1>12, <1>13, <1>14 DEF FileNext

(* A record whose enqueue returned Stored is in the directory, past its staging, until
   the ingestion accepted it or age or the limits removed it: however many writers and
   claimers there are, whoever crashes, however often the lock is broken and whichever
   live claim a recovery takes back (enqueue, claim_next, recover_claims). *)
THEOREM StoredFilesAreKept == FileSpec => []StoredIsKept
  <1>1. FileInv => StoredIsKept
    BY DEF FileInv, StoredAreAccounted, Accounted, StoredIsKept
  <1> QED
    BY <1>1, FileInitKeeps, FileNextKeeps, PTL DEF FileSpec

-------------------------------------------------------------------------------
(***************************************************************************)
(* The path of the socket.  As long as no two starts overlapped, whoever   *)
(* bound the path and has not removed it holds it, so a start that goes on *)
(* to remove a stale socket meets nobody, and credentials name a desktop   *)
(* that has published them.  A hook knows only instances it read there.    *)
(***************************************************************************)
DeskStep == Starting \cup {"off", "draining", "serving", "drops", "closes", "without", "gone"}
CallerStep == {"off", "signed", "offline", "connected", "unreachable", "waiting", "late",
               "delivered", "refused", "failed"}
Holding == {"hardens", "publishes", "draining", "serving", "drops"}
Published == {"draining", "serving", "drops", "closes", "gone"}
Instance == Desk \cup {Nobody, Former}

CallerRecord == [at : CallerStep, for : Instance, to : Instance]
Wire == [by : Desk \cup Caller, to : Instance, frame : BOOLEAN]

EndpointShape ==
    /\ path \in Instance /\ credential \in Instance /\ listening \in SUBSET Desk
    /\ desk \in [Desk -> DeskStep]
    /\ caller \in [Caller -> CallerRecord]
    /\ wires \in SUBSET Wire
    /\ inbox \in [Desk -> Seq(Caller)]
    /\ answer \in [Caller -> {"none", "acknowledged", "refused", "closed"}]

\* The desktops, as long as their starts did not overlap.
OneStart == \A d, e \in Desk : desk[d] \in Starting /\ desk[e] \in Starting => d = e
HoldersHold == \A d \in Desk : desk[d] \in Holding => path = d /\ d \in listening
UpArePublished == \A d \in Desk : Up(d) => credential = d
StaleIsStale ==
    \A d \in Desk : /\ desk[d] = "removes" => path \notin listening
                    /\ desk[d] = "binds" => path = Nobody
DesksInOrder == OneStart /\ HoldersHold /\ UpArePublished /\ StaleIsStale

\* Who is named by the credentials has published them, and does not start again.
NamedHasPublished(i) == i \in Desk => desk[i] \in Published
NamedArePublished ==
    NamedHasPublished(credential) /\ \A h \in Caller : NamedHasPublished(caller[h].for)

\* Only a hook that has signed speaks to a desktop.
SignedFirst ==
    \A h \in Caller : caller[h].at = "off" =>
        /\ answer[h] = "none" /\ caller[h].to = Nobody
        /\ \A w \in wires : w.frame => w.by # h
        /\ \A d \in Desk : \A n \in 1 .. Len(inbox[d]) : inbox[d][n] # h
FramesAreOfHooks == \A w \in wires : w.frame => w.by \in Caller

RefusedAreLate ==
    \A h \in Caller :
        answer[h] = "refused" \/ caller[h].at \in {"unreachable", "refused"} => ~Up(caller[h].for)

EndpointInv ==
    /\ EndpointShape /\ NamedArePublished /\ SignedFirst /\ FramesAreOfHooks
    /\ overlapped \/ (DesksInOrder /\ RefusedAreLate)

LEMMA Instances == Nobody \notin Desk /\ Former \notin Desk /\ Nobody # Former
  BY EndpointAssumption DEF Nobody, Former

LEMMA DeskMoves ==
    ASSUME EndpointShape, NEW d \in Desk, NEW to \in DeskStep, desk' = [desk EXCEPT ![d] = to]
    PROVE  /\ desk' \in [Desk -> DeskStep] /\ desk'[d] = to
           /\ \A e \in Desk : e # d => desk'[e] = desk[e]
  BY DEF EndpointShape

\* A desktop that moves on: what is published stays published, and hooks that signed for
\* a desktop that has gone do not find it again.
LEMMA DeskStepKeeps ==
    ASSUME EndpointInv, EndpointShape', NEW d \in Desk, NEW to \in DeskStep,
           desk' = [desk EXCEPT ![d] = to],
           desk[d] \in Published => to \in Published,
           desk[d] \in {"drops", "closes", "gone"} => to \notin {"draining", "serving"},
           credential' = credential \/ (credential' = d /\ to \in Published),
           UNCHANGED caller,
           \A h \in Caller : \/ answer'[h] = answer[h]
                             \/ answer'[h] = "closed" /\ caller[h].to \in Desk,
           \A w \in wires' : w.frame => w \in wires,
           \A e \in Desk : inbox'[e] = inbox[e] \/ inbox'[e] = <<>>,
           overlapped => overlapped',
           overlapped' \/ DesksInOrder'
    PROVE  EndpointInv'
  <1>1. EndpointShape /\ NamedArePublished /\ SignedFirst /\ FramesAreOfHooks
    BY DEF EndpointInv
  <1>2. overlapped' \/ (DesksInOrder' /\ RefusedAreLate)
    BY DEF EndpointInv
  <1>3. /\ desk'[d] = to
        /\ \A e \in Desk : e # d => desk'[e] = desk[e]
    BY <1>1, DeskMoves
  <1>4. ASSUME NEW i \in Desk, desk[i] \in Published
        PROVE  /\ desk'[i] \in Published
               /\ desk[i] \notin {"draining", "serving"} => desk'[i] \notin {"draining", "serving"}
    BY <1>3, <1>4 DEF Published
  <1>5. NamedArePublished'
    BY <1>1, <1>3, <1>4 DEF NamedArePublished, NamedHasPublished
  <1>6. SignedFirst'
    <2> SUFFICES ASSUME NEW h \in Caller, caller[h].at = "off"
                 PROVE  /\ answer'[h] = "none" /\ caller[h].to = Nobody
                        /\ \A w \in wires' : w.frame => w.by # h
                        /\ \A e \in Desk : \A n \in 1 .. Len(inbox'[e]) : inbox'[e][n] # h
      BY DEF SignedFirst
    <2>1. /\ answer[h] = "none" /\ caller[h].to = Nobody
          /\ \A w \in wires : w.frame => w.by # h
          /\ \A e \in Desk : \A n \in 1 .. Len(inbox[e]) : inbox[e][n] # h
      BY <1>1 DEF SignedFirst
    <2>2. \A e \in Desk : \A n \in 1 .. Len(inbox'[e]) : inbox'[e][n] # h
      BY <2>1
    <2> QED
      BY <2>1, <2>2, Instances
  <1>7. FramesAreOfHooks'
    BY <1>1 DEF FramesAreOfHooks
  <1>8. ASSUME RefusedAreLate PROVE RefusedAreLate'
    BY <1>1, <1>4, <1>8 DEF RefusedAreLate, NamedArePublished, NamedHasPublished, Up
  <1> QED
    BY <1>2, <1>5, <1>6, <1>7, <1>8 DEF EndpointInv

\* The same for a step that leaves the connections alone.
LEMMA LinesRest ==
    ASSUME EndpointInv, NEW d \in Desk, NEW to \in DeskStep,
           desk' = [desk EXCEPT ![d] = to],
           path' \in Instance, listening' \in SUBSET Desk,
           desk[d] \in Published => to \in Published,
           desk[d] \in {"drops", "closes", "gone"} => to \notin {"draining", "serving"},
           credential' = credential \/ (credential' = d /\ to \in Published),
           UNCHANGED <<caller, lineVars>>,
           overlapped => overlapped',
           DesksInOrder /\ ~overlapped' => DesksInOrder'
    PROVE  EndpointInv'
  <1>1. EndpointShape /\ (overlapped \/ DesksInOrder)
    BY DEF EndpointInv
  <1>2. UNCHANGED <<wires, inbox, answer>>
    BY DEF lineVars
  <1>3. desk' \in [Desk -> DeskStep]
    BY <1>1, DeskMoves
  <1>4. EndpointShape'
    BY <1>1, <1>2, <1>3 DEF EndpointShape, Instance
  <1>5. overlapped' \/ DesksInOrder'
    BY <1>1
  <1> QED
    BY <1>2, <1>4, <1>5, DeskStepKeeps

LEMMA WireMade ==
    ASSUME NEW by \in Desk \cup Caller, NEW to \in Instance, NEW frame \in BOOLEAN
    PROVE  [by |-> by, to |-> to, frame |-> frame] \in Wire
  BY DEF Wire

\* How the desktops stand to each other after one of them moved: nobody else holds the
\* path while a start goes on, and nobody starts beside one who does.
LEMMA Moved ==
    ASSUME EndpointShape, DesksInOrder, NEW d \in Desk, NEW to \in DeskStep,
           desk' = [desk EXCEPT ![d] = to]
    PROVE  /\ desk'[d] = to /\ \A e \in Desk : e # d => desk'[e] = desk[e]
           /\ \A e \in Desk : desk[e] \in Holding => path = e /\ e \in listening
           /\ \A e \in Desk : desk[e] \in {"draining", "serving"} => credential = e
           /\ \A e \in Desk : desk[e] = "removes" => path \notin listening
           /\ \A e \in Desk : desk[e] = "binds" => path = Nobody
           /\ \A e \in Desk : e # d => ~(desk[d] \in Starting /\ desk[e] \in Starting)
  BY DeskMoves DEF DesksInOrder, OneStart, HoldersHold, UpArePublished, StaleIsStale, Up

\* What the desktops have to show after such a step.
LEMMA InOrder ==
    ASSUME EndpointShape, DesksInOrder, NEW d \in Desk, NEW to \in DeskStep,
           desk' = [desk EXCEPT ![d] = to],
           to \in Starting =>
               desk[d] \in Starting \/ \A e \in Desk : desk[e] \notin Starting,
           to \in Holding => path' = d /\ d \in listening',
           to \in {"draining", "serving"} => credential' = d,
           to = "removes" => path' \notin listening',
           to = "binds" => path' = Nobody,
           \A e \in Desk : e # d /\ desk[e] \in Holding =>
               path' = path /\ e \in listening' /\ credential' = credential,
           \A e \in Desk : e # d /\ desk[e] = "removes" =>
               path' = path /\ listening' \subseteq listening,
           \A e \in Desk : e # d /\ desk[e] = "binds" => path' = path \/ path' = Nobody
    PROVE  DesksInOrder'
  <1>1. /\ desk'[d] = to /\ \A e \in Desk : e # d => desk'[e] = desk[e]
        /\ \A e \in Desk : desk[e] \in Holding => path = e /\ e \in listening
        /\ \A e \in Desk : desk[e] \in {"draining", "serving"} => credential = e
        /\ \A e \in Desk : desk[e] = "removes" => path \notin listening
        /\ \A e \in Desk : desk[e] = "binds" => path = Nobody
    BY Moved
  <1>2. OneStart'
    BY <1>1 DEF DesksInOrder, OneStart
  <1>3. HoldersHold'
    BY <1>1 DEF HoldersHold
  <1>4. UpArePublished'
    BY <1>1 DEF UpArePublished, Up, Holding
  <1>5. StaleIsStale'
    BY <1>1 DEF StaleIsStale
  <1> QED
    BY <1>2, <1>3, <1>4, <1>5 DEF DesksInOrder

\* PlatformListener::bind and bind_inner, one step after the other.
LEMMA StartsKeeps == ASSUME EndpointInv, NEW d \in Desk, StartsEndpoint(d) PROVE EndpointInv'
  <1>1. EndpointShape
    BY DEF EndpointInv
  <1>2. /\ desk[d] = "off" /\ desk' = [desk EXCEPT ![d] = "looks"]
        /\ overlapped' = (overlapped \/ \E o \in Desk : desk[o] \in Starting)
        /\ UNCHANGED <<path, listening, credential, caller, lineVars>>
    BY DEF StartsEndpoint, Step
  <1>3. "looks" \in DeskStep /\ "looks" \notin Holding \cup Published /\ desk[d] \notin Published
    BY <1>2 DEF DeskStep, Starting, Holding, Published
  <1>4. path' \in Instance /\ listening' \in SUBSET Desk
    BY <1>1, <1>2 DEF EndpointShape
  <1>5. ASSUME DesksInOrder, ~overlapped' PROVE DesksInOrder'
    <2>1. \A e \in Desk : desk[e] \in Holding => path = e /\ e \in listening
      BY <1>5 DEF DesksInOrder, HoldersHold
    <2> QED
      BY <1>1, <1>2, <1>3, <1>5, <2>1, InOrder
  <1> QED
    BY <1>2, <1>3, <1>4, <1>5, LinesRest

LEMMA LooksKeeps == ASSUME EndpointInv, NEW d \in Desk, LooksAtPath(d) PROVE EndpointInv'
  <1> DEFINE to == IF path = Nobody THEN "binds" ELSE "probes"
  <1>1. EndpointShape
    BY DEF EndpointInv
  <1>2. /\ desk[d] = "looks" /\ desk' = [desk EXCEPT ![d] = to]
        /\ UNCHANGED <<path, listening, credential, overlapped, caller, lineVars>>
    BY DEF LooksAtPath, Step, deskVars
  <1>3. /\ to \in DeskStep /\ to \notin Holding \cup Published /\ to # "removes"
        /\ to = "binds" => path = Nobody
        /\ desk[d] \notin Published /\ desk[d] \in Starting
    BY <1>2 DEF DeskStep, Starting, Holding, Published
  <1> HIDE DEF to
  <1>4. path' \in Instance /\ listening' \in SUBSET Desk
    BY <1>1, <1>2 DEF EndpointShape
  <1>5. ASSUME DesksInOrder, ~overlapped' PROVE DesksInOrder'
    <2>1. \A e \in Desk : desk[e] \in Holding => path = e /\ e \in listening
      BY <1>5 DEF DesksInOrder, HoldersHold
    <2>2. to \notin {"draining", "serving"}
      BY <1>3 DEF Holding
    <2> QED
      BY <1>1, <1>2, <1>3, <1>5, <2>1, <2>2, InOrder
  <1> QED
    BY <1>2, <1>3, <1>4, <1>5, LinesRest

\* A probe finds a live desktop and gives way, or it finds the socket stale.
LEMMA ProbesKeeps == ASSUME EndpointInv, NEW d \in Desk, Probes(d) PROVE EndpointInv'
  <1>1. EndpointShape
    BY DEF EndpointInv
  <1>2. desk[d] = "probes" /\ UNCHANGED <<path, listening, credential, overlapped, caller>>
    BY DEF Probes, Step, deskVars
  <1>3. desk[d] \notin Published /\ desk[d] \in Starting
    BY <1>2 DEF Starting, Published
  <1>4. path' \in Instance /\ listening' \in SUBSET Desk
    BY <1>1, <1>2 DEF EndpointShape
  <1>5. ASSUME DesksInOrder
        PROVE  \A e \in Desk : desk[e] \in Holding => path = e /\ e \in listening
    BY <1>5 DEF DesksInOrder, HoldersHold
  <1>6. CASE path \in listening
    <2> DEFINE to == "without"
    <2>1. /\ desk' = [desk EXCEPT ![d] = to]
          /\ wires' = wires \cup {[by |-> d, to |-> path, frame |-> FALSE]}
          /\ UNCHANGED <<inbox, answer>>
      BY <1>6 DEF Probes, Step
    <2>2. /\ to \in DeskStep
          /\ to \notin Holding \cup Published \cup Starting \cup {"removes", "binds"}
      BY DEF DeskStep, Starting, Holding, Published
    <2>3. to \notin {"draining", "serving"}
      OBVIOUS
    <2> HIDE DEF to
    <2>4. wires' \in SUBSET Wire
      <3> DEFINE made == [by |-> d, to |-> path, frame |-> FALSE]
      <3>1. made \in Wire
        BY <1>1, WireMade, Zenon DEF EndpointShape
      <3>2. wires' = wires \cup {made} /\ wires \in SUBSET Wire
        BY <1>1, <2>1 DEF EndpointShape
      <3> HIDE DEF made
      <3> QED
        BY <3>1, <3>2
    <2>5. EndpointShape'
      BY <1>1, <1>2, <1>4, <2>1, <2>2, <2>4, DeskMoves DEF EndpointShape
    <2>6. \A w \in wires' : w.frame => w \in wires
      BY <2>1
    <2>7. ASSUME DesksInOrder PROVE DesksInOrder'
      BY <1>1, <1>2, <1>5, <2>1, <2>2, <2>3, <2>7, InOrder
    <2>8. overlapped' \/ DesksInOrder'
      BY <1>2, <2>7 DEF EndpointInv
    <2> QED
      BY <1>2, <1>3, <2>1, <2>2, <2>3, <2>5, <2>6, <2>8, DeskStepKeeps
  <1>7. CASE path \notin listening
    <2> DEFINE to == "removes"
    <2>1. desk' = [desk EXCEPT ![d] = to] /\ UNCHANGED <<lineVars>>
      BY <1>7 DEF Probes, Step, lineVars
    <2>2. to \in DeskStep /\ to \notin Holding \cup Published /\ to # "binds"
      BY DEF DeskStep, Starting, Holding, Published
    <2>3. to \notin {"draining", "serving"}
      OBVIOUS
    <2> HIDE DEF to
    <2>4. ASSUME DesksInOrder, ~overlapped' PROVE DesksInOrder'
      BY <1>1, <1>2, <1>3, <1>5, <1>7, <2>1, <2>2, <2>3, <2>4, InOrder
    <2> QED
      BY <1>2, <1>3, <1>4, <2>1, <2>2, <2>3, <2>4, LinesRest
  <1> QED
    BY <1>6, <1>7

\* A stale socket is removed: nobody holds it.
LEMMA RemovesKeeps == ASSUME EndpointInv, NEW d \in Desk, RemovesStale(d) PROVE EndpointInv'
  <1> DEFINE to == IF path = Nobody THEN "without" ELSE "binds"
  <1>1. EndpointShape
    BY DEF EndpointInv
  <1>2. /\ desk[d] = "removes" /\ desk' = [desk EXCEPT ![d] = to]
        /\ path' = Nobody
        /\ UNCHANGED <<listening, credential, overlapped, caller, lineVars>>
    BY DEF RemovesStale, Step
  <1>3. /\ to \in DeskStep
        /\ to \notin Holding \cup Published \cup {"draining", "serving", "removes"}
        /\ desk[d] \notin Published /\ desk[d] \in Starting
    BY <1>2 DEF DeskStep, Starting, Holding, Published
  <1> HIDE DEF to
  <1>4. path' \in Instance /\ listening' \in SUBSET Desk
    BY <1>1, <1>2 DEF EndpointShape, Instance
  <1>5. ASSUME DesksInOrder, ~overlapped' PROVE DesksInOrder'
    <2>1. /\ \A e \in Desk : desk[e] \in Holding => path = e /\ e \in listening
          /\ path \notin listening
          /\ \A e \in Desk : desk[e] \in Starting => e = d
      BY <1>2, <1>3, <1>5 DEF DesksInOrder, HoldersHold, StaleIsStale, OneStart
    <2>2. \A e \in Desk : desk[e] \notin Holding
      BY <2>1
    <2>3. \A e \in Desk : desk[e] = "removes" => e = d
      BY <2>1 DEF Starting
    <2> QED
      BY <1>1, <1>2, <1>3, <1>5, <2>2, <2>3, InOrder
  <1> QED
    BY <1>2, <1>3, <1>4, <1>5, LinesRest

\* The path is bound where there is none, so nobody held it.
LEMMA BindsKeeps == ASSUME EndpointInv, NEW d \in Desk, BindsPath(d) PROVE EndpointInv'
  <1>1. EndpointShape
    BY DEF EndpointInv
  <1>2. desk[d] = "binds" /\ UNCHANGED <<credential, overlapped, caller, lineVars>>
    BY DEF BindsPath, Step
  <1>3. desk[d] \notin Published /\ desk[d] \in Starting
    BY <1>2 DEF Starting, Published
  <1>4. ASSUME DesksInOrder
        PROVE  /\ \A e \in Desk : desk[e] \in Holding => path = e /\ e \in listening
               /\ \A e \in Desk : desk[e] \in Starting => e = d
    BY <1>3, <1>4 DEF DesksInOrder, HoldersHold, OneStart
  <1>5. CASE path = Nobody
    <2> DEFINE to == "hardens"
    <2>1. desk' = [desk EXCEPT ![d] = to] /\ path' = d /\ listening' = listening \cup {d}
      BY <1>5 DEF BindsPath, Step
    <2>2. to \in DeskStep /\ to \notin Published \cup {"draining", "serving", "removes", "binds"}
      BY DEF DeskStep, Starting, Published
    <2> HIDE DEF to
    <2>3. path' \in Instance /\ listening' \in SUBSET Desk
      BY <1>1, <2>1 DEF EndpointShape, Instance
    <2>4. ASSUME DesksInOrder, ~overlapped' PROVE DesksInOrder'
      <3>1. \A e \in Desk : desk[e] \notin Holding
        BY <1>4, <1>5, <2>4, Instances
      <3>2. \A e \in Desk : desk[e] \in {"removes", "binds"} => e = d
        BY <1>4, <2>4 DEF Starting
      <3> QED
        BY <1>1, <1>2, <1>3, <2>1, <2>2, <2>4, <3>1, <3>2, InOrder
    <2> QED
      BY <1>2, <1>3, <2>1, <2>2, <2>3, <2>4, LinesRest
  <1>6. CASE path # Nobody
    <2> DEFINE to == "without"
    <2>1. desk' = [desk EXCEPT ![d] = to] /\ UNCHANGED <<path, listening>>
      BY <1>6 DEF BindsPath, Step
    <2>2. /\ to \in DeskStep
          /\ to \notin Published \cup Holding \cup Starting
          /\ to \notin {"draining", "serving", "removes", "binds"}
      BY DEF DeskStep, Starting, Holding, Published
    <2> HIDE DEF to
    <2>3. path' \in Instance /\ listening' \in SUBSET Desk
      BY <1>1, <2>1 DEF EndpointShape
    <2>4. ASSUME DesksInOrder, ~overlapped' PROVE DesksInOrder'
      BY <1>1, <1>2, <1>4, <2>1, <2>2, <2>4, InOrder
    <2> QED
      BY <1>2, <1>3, <2>1, <2>2, <2>3, <2>4, LinesRest
  <1> QED
    BY <1>5, <1>6

\* The path is there as long as its holder hardens it.
LEMMA HardensKeeps == ASSUME EndpointInv, NEW d \in Desk, HardensPath(d) PROVE EndpointInv'
  <1>1. EndpointShape
    BY DEF EndpointInv
  <1>2. desk[d] = "hardens" /\ UNCHANGED <<path, credential, overlapped, caller, lineVars>>
    BY DEF HardensPath, Step
  <1>3. desk[d] \notin Published /\ desk[d] \in Starting /\ desk[d] \in Holding
    BY <1>2 DEF Starting, Published, Holding
  <1>4. ASSUME DesksInOrder
        PROVE  /\ \A e \in Desk : desk[e] \in Holding => path = e /\ e \in listening
               /\ path = d /\ d \in listening
    BY <1>3, <1>4 DEF DesksInOrder, HoldersHold
  <1>5. CASE path # Nobody
    <2> DEFINE to == "publishes"
    <2>1. desk' = [desk EXCEPT ![d] = to] /\ UNCHANGED listening
      BY <1>5 DEF HardensPath, Step
    <2>2. to \in DeskStep /\ to \notin Published \cup {"draining", "serving", "removes", "binds"}
      BY DEF DeskStep, Starting, Published
    <2> HIDE DEF to
    <2>3. path' \in Instance /\ listening' \in SUBSET Desk
      BY <1>1, <1>2, <2>1 DEF EndpointShape
    <2>4. ASSUME DesksInOrder, ~overlapped' PROVE DesksInOrder'
      BY <1>1, <1>2, <1>3, <1>4, <2>1, <2>2, <2>4, InOrder
    <2> QED
      BY <1>2, <1>3, <2>1, <2>2, <2>3, <2>4, LinesRest
  <1>6. CASE path = Nobody
    <2> DEFINE to == "without"
    <2>1. desk' = [desk EXCEPT ![d] = to] /\ listening' = listening \ {d}
      BY <1>6 DEF HardensPath, Step
    <2>2. to \in DeskStep /\ to \notin Published \cup {"draining", "serving"}
      BY DEF DeskStep, Starting, Published
    <2> HIDE DEF to
    <2>3. path' \in Instance /\ listening' \in SUBSET Desk
      BY <1>1, <1>2, <2>1 DEF EndpointShape
    <2>4. ASSUME DesksInOrder, ~overlapped' PROVE DesksInOrder'
      BY <1>4, <1>6, <2>4, Instances
    <2> QED
      BY <1>2, <1>3, <2>1, <2>2, <2>3, <2>4, LinesRest
  <1> QED
    BY <1>5, <1>6

\* Credentials are replaced by the holder of the path alone.
LEMMA PublishesKeeps ==
    ASSUME EndpointInv, NEW d \in Desk, PublishesCredentials(d) PROVE EndpointInv'
  <1>1. EndpointShape
    BY DEF EndpointInv
  <1>2. desk[d] = "publishes" /\ UNCHANGED <<path, listening, overlapped, caller, lineVars>>
    BY DEF PublishesCredentials, Step
  <1>3. PICK to \in {"draining", "drops"} :
            /\ desk' = [desk EXCEPT ![d] = to]
            /\ credential' = credential \/ credential' = d
            /\ to = "draining" => credential' = d
    BY DEF PublishesCredentials, Step
  <1>4. /\ to \in DeskStep /\ to \in Published /\ to \in Holding
        /\ to \notin Starting \cup {"removes", "binds", "serving"}
        /\ desk[d] \notin Published /\ desk[d] \in Holding
    BY <1>2 DEF DeskStep, Starting, Holding, Published
  <1>5. path' \in Instance /\ listening' \in SUBSET Desk
    BY <1>1, <1>2 DEF EndpointShape
  <1>6. ASSUME DesksInOrder, ~overlapped' PROVE DesksInOrder'
    <2>1. \A e \in Desk : desk[e] \in Holding => path = e /\ e \in listening
      BY <1>6 DEF DesksInOrder, HoldersHold
    <2>2. path = d /\ d \in listening /\ \A e \in Desk : desk[e] \in Holding => e = d
      BY <1>4, <2>1
    <2>3. to \in {"draining", "serving"} => credential' = d
      BY <1>3, <1>4
    <2> QED
      BY <1>1, <1>2, <1>3, <1>4, <1>6, <2>2, <2>3, InOrder
  <1>7. desk[d] \notin {"drops", "closes", "gone"}
    BY <1>2
  <1> QED
    BY <1>2, <1>3, <1>4, <1>5, <1>6, <1>7, LinesRest

\* Steps of a desktop that is up: it goes on, or it begins to leave.
LEMMA GoesOnKeeps ==
    ASSUME EndpointInv, NEW d \in Desk, FirstDrainEnds(d) \/ Leaves(d) PROVE EndpointInv'
  <1>1. EndpointShape
    BY DEF EndpointInv
  <1>2. PICK to \in {"serving", "drops"} :
            /\ desk' = [desk EXCEPT ![d] = to]
            /\ desk[d] \in {"draining", "serving"}
            /\ UNCHANGED <<path, listening, credential, overlapped, caller, lineVars>>
    BY DEF FirstDrainEnds, Leaves, Step, deskVars
  <1>3. /\ to \in DeskStep /\ to \in Published /\ to \in Holding
        /\ to \notin Starting \cup {"removes", "binds"}
        /\ desk[d] \in Holding
    BY <1>2 DEF DeskStep, Starting, Holding, Published
  <1>4. path' \in Instance /\ listening' \in SUBSET Desk
    BY <1>1, <1>2 DEF EndpointShape
  <1>5. ASSUME DesksInOrder, ~overlapped' PROVE DesksInOrder'
    <2>1. \A e \in Desk : desk[e] \in Holding => path = e /\ e \in listening
      BY <1>5 DEF DesksInOrder, HoldersHold
    <2>2. credential = d
      BY <1>2, <1>5 DEF DesksInOrder, UpArePublished, Up
    <2> QED
      BY <1>1, <1>2, <1>3, <1>5, <2>1, <2>2, InOrder
  <1>6. desk[d] \notin {"drops", "closes", "gone"}
    BY <1>2
  <1> QED
    BY <1>2, <1>3, <1>4, <1>5, <1>6, LinesRest

\* What a dying desktop removes is its own.
LEMMA DropsKeeps == ASSUME EndpointInv, NEW d \in Desk, DropsPath(d) PROVE EndpointInv'
  <1> DEFINE to == "closes"
  <1>1. EndpointShape
    BY DEF EndpointInv
  <1>2. /\ desk[d] = "drops" /\ desk' = [desk EXCEPT ![d] = to] /\ path' = Nobody
        /\ UNCHANGED <<listening, credential, overlapped, caller, lineVars>>
    BY DEF DropsPath, Step
  <1>3. /\ to \in DeskStep /\ to \in Published
        /\ to \notin Starting \cup Holding \cup {"removes", "binds", "draining", "serving"}
        /\ desk[d] \in Holding
    BY <1>2 DEF DeskStep, Starting, Holding, Published
  <1> HIDE DEF to
  <1>4. path' \in Instance /\ listening' \in SUBSET Desk
    BY <1>1, <1>2 DEF EndpointShape, Instance
  <1>5. ASSUME DesksInOrder, ~overlapped' PROVE DesksInOrder'
    <2>1. \A e \in Desk : desk[e] \in Holding => path = e /\ e \in listening
      BY <1>5 DEF DesksInOrder, HoldersHold
    <2>2. path = d /\ d \in listening /\ \A e \in Desk : desk[e] \in Holding => e = d
      BY <1>3, <2>1
    <2>3. \A e \in Desk : desk[e] # "removes"
      BY <1>5, <2>2 DEF DesksInOrder, StaleIsStale
    <2> QED
      BY <1>1, <1>2, <1>3, <1>5, <2>2, <2>3, InOrder
  <1> QED
    BY <1>2, <1>3, <1>4, <1>5, LinesRest

\* A descriptor that closes takes the connections with it, and nothing else.
LEMMA EndKeeps ==
    ASSUME EndpointInv, NEW d \in Desk, ClosesListener(d) \/ DiesUnclean(d) PROVE EndpointInv'
  <1> DEFINE to == "gone"
  <1>1. EndpointShape
    BY DEF EndpointInv
  <1>2. /\ desk' = [desk EXCEPT ![d] = to]
        /\ listening' = listening \ {d}
        /\ wires' = {w \in wires : w.to # d} /\ inbox' = [inbox EXCEPT ![d] = <<>>]
        /\ answer' = Closed(d)
        /\ UNCHANGED <<path, credential, overlapped, caller, diagnostics>>
    BY DEF ClosesListener, DiesUnclean, Step
  <1>3. /\ to \in DeskStep /\ to \in Published
        /\ to \notin Starting \cup Holding \cup {"removes", "binds", "draining", "serving"}
    BY DEF DeskStep, Starting, Holding, Published
  <1> HIDE DEF to
  <1>4. /\ answer' \in [Caller -> {"none", "acknowledged", "refused", "closed"}]
        /\ \A h \in Caller : \/ answer'[h] = answer[h]
                             \/ answer'[h] = "closed" /\ caller[h].to \in Desk
    BY <1>1, <1>2 DEF Closed, EndpointShape
  <1>5. inbox' \in [Desk -> Seq(Caller)] /\ \A e \in Desk : inbox'[e] = inbox[e] \/ inbox'[e] = <<>>
    BY <1>1, <1>2 DEF EndpointShape
  <1>6. EndpointShape'
    BY <1>1, <1>2, <1>3, <1>4, <1>5, DeskMoves DEF EndpointShape
  <1>7. ASSUME DesksInOrder PROVE DesksInOrder'
    <2>1. \A e \in Desk : desk[e] \in Holding => path = e /\ e \in listening
      BY <1>7 DEF DesksInOrder, HoldersHold
    <2> QED
      BY <1>1, <1>2, <1>3, <1>7, <2>1, InOrder
  <1>8. overlapped' \/ DesksInOrder'
    BY <1>2, <1>7 DEF EndpointInv
  <1>9. \A w \in wires' : w.frame => w \in wires
    BY <1>2
  <1> QED
    BY <1>2, <1>3, <1>4, <1>5, <1>6, <1>8, <1>9, DeskStepKeeps

\* A hook that moves on: it has signed, and for a desktop that had published.
LEMMA CallerStepKeeps ==
    ASSUME EndpointInv, NEW h \in Caller, NEW q \in CallerRecord,
           caller' = [caller EXCEPT ![h] = q],
           q.at # "off", NamedHasPublished(q.for),
           UNCHANGED <<deskVars, desk, inbox, answer>>,
           wires' \in SUBSET Wire,
           \A w \in wires' : w.frame => w \in wires \/ w.by = h,
           ~overlapped =>
               (answer[h] = "refused" \/ q.at \in {"unreachable", "refused"} => ~Up(q.for))
    PROVE  EndpointInv'
  <1>1. EndpointShape /\ NamedArePublished /\ SignedFirst /\ FramesAreOfHooks
    BY DEF EndpointInv
  <1>2. /\ caller' \in [Caller -> CallerRecord] /\ caller'[h] = q
        /\ \A g \in Caller : g # h => caller'[g] = caller[g]
    BY <1>1 DEF EndpointShape
  <1>3. UNCHANGED <<path, listening, credential, overlapped, desk, inbox, answer>>
    BY DEF deskVars
  <1>4. EndpointShape'
    BY <1>1, <1>2, <1>3 DEF EndpointShape, Instance
  <1>5. NamedArePublished'
    BY <1>1, <1>2, <1>3 DEF NamedArePublished, NamedHasPublished
  <1>6. SignedFirst'
    BY <1>1, <1>2, <1>3 DEF SignedFirst
  <1>7. FramesAreOfHooks'
    BY <1>1 DEF FramesAreOfHooks
  <1>8. overlapped \/ DesksInOrder'
    BY <1>3 DEF EndpointInv, DesksInOrder, OneStart, HoldersHold, UpArePublished, StaleIsStale, Up
  <1>9. overlapped \/ RefusedAreLate'
    BY <1>2, <1>3 DEF EndpointInv, RefusedAreLate, Up
  <1> QED
    BY <1>3, <1>4, <1>5, <1>6, <1>7, <1>8, <1>9 DEF EndpointInv

\* A hook that only notes where it is.
LEMMA MovesKeeps ==
    ASSUME EndpointInv, NEW h \in Caller, NEW from \in CallerStep, NEW to \in CallerStep \ {"off"},
           Moves(h, from, to), UNCHANGED <<deskVars, desk, inbox, answer>>,
           wires' \in SUBSET Wire,
           \A w \in wires' : w.frame => w \in wires \/ w.by = h,
           ~overlapped => (to = "unreachable" => ~Up(caller[h].for)),
           to = "refused" => answer[h] = "refused"
    PROVE  EndpointInv'
  <1> DEFINE q == [caller[h] EXCEPT !.at = to]
  <1>1. EndpointShape /\ NamedArePublished
    BY DEF EndpointInv
  <1>2. caller[h] \in CallerRecord
    BY <1>1 DEF EndpointShape
  <1>3. q \in CallerRecord /\ q.at = to /\ q.for = caller[h].for
    BY <1>2 DEF CallerRecord
  <1>4. caller' = [caller EXCEPT ![h] = q]
    BY DEF Moves
  <1> HIDE DEF q
  <1>5. NamedHasPublished(q.for)
    BY <1>1, <1>3 DEF NamedArePublished
  <1>6. ~overlapped =>
            (answer[h] = "refused" \/ q.at \in {"unreachable", "refused"} => ~Up(q.for))
    BY <1>3 DEF EndpointInv, RefusedAreLate
  <1> QED
    BY <1>3, <1>4, <1>5, <1>6, CallerStepKeeps

LEMMA ReadsCredentialsKeeps ==
    ASSUME EndpointInv, NEW h \in Caller, ReadsCredentials(h) PROVE EndpointInv'
  <1>1. EndpointShape /\ NamedArePublished /\ SignedFirst
    BY DEF EndpointInv
  <1>2. PICK at \in {"signed", "offline"} :
            caller' = [caller EXCEPT ![h] = [@ EXCEPT !.at = at, !.for = credential]]
    BY DEF ReadsCredentials
  <1> DEFINE r == [caller[h] EXCEPT !.at = at]
             q == [r EXCEPT !.for = credential]
  <1>3. caller' = [caller EXCEPT ![h] = q]
    BY <1>2
  <1>4. r \in CallerRecord /\ r.at = at
    BY <1>1 DEF EndpointShape, CallerRecord, CallerStep
  <1> HIDE DEF r
  <1>5. q \in CallerRecord /\ q.at = at /\ q.for = credential
    BY <1>1, <1>4 DEF EndpointShape, CallerRecord
  <1> HIDE DEF q
  <1>6. answer[h] = "none" /\ UNCHANGED <<deskVars, desk, lineVars>>
    BY <1>1 DEF ReadsCredentials, SignedFirst
  <1>7. UNCHANGED <<inbox, answer>> /\ wires' = wires
    BY <1>6 DEF lineVars
  <1>8. wires' \in SUBSET Wire /\ \A w \in wires' : w \in wires
    BY <1>1, <1>7 DEF EndpointShape
  <1>9. NamedHasPublished(q.for) /\ q.at # "off" /\ q.at \notin {"unreachable", "refused"}
    BY <1>1, <1>5 DEF NamedArePublished
  <1> QED
    BY <1>3, <1>5, <1>6, <1>7, <1>8, <1>9, CallerStepKeeps

\* Nobody listens at the path of a desktop that is up: not before it has gone.
LEMMA ConnectsKeeps == ASSUME EndpointInv, NEW h \in Caller, Connects(h) PROVE EndpointInv'
  <1>1. EndpointShape /\ NamedArePublished /\ SignedFirst
    BY DEF EndpointInv
  <1>2. UNCHANGED <<deskVars, desk, lineVars>>
    BY DEF Connects
  <1>3. UNCHANGED <<inbox, answer>> /\ wires' = wires
    BY <1>2 DEF lineVars
  <1>4. wires' \in SUBSET Wire /\ \A w \in wires' : w \in wires
    BY <1>1, <1>3 DEF EndpointShape
  <1>5. CASE path \in listening
    <2> DEFINE r == [caller[h] EXCEPT !.at = "connected"]
               q == [r EXCEPT !.to = path]
    <2>1. caller' = [caller EXCEPT ![h] = q]
      BY <1>5 DEF Connects
    <2>2. r \in CallerRecord /\ r.at = "connected" /\ r.for = caller[h].for
      BY <1>1 DEF EndpointShape, CallerRecord, CallerStep
    <2> HIDE DEF r
    <2>3. q \in CallerRecord /\ q.at = "connected" /\ q.for = caller[h].for
      BY <1>1, <2>2 DEF EndpointShape, CallerRecord
    <2> HIDE DEF q
    <2>4. NamedHasPublished(q.for) /\ q.at # "off" /\ q.at \notin {"unreachable", "refused"}
      BY <1>1, <2>3 DEF NamedArePublished
    <2>5. ~overlapped => (answer[h] = "refused" => ~Up(q.for))
      BY <2>3 DEF EndpointInv, RefusedAreLate
    <2> QED
      BY <1>2, <1>3, <1>4, <2>1, <2>3, <2>4, <2>5, CallerStepKeeps
  <1>6. CASE path \notin listening
    <2>1. Moves(h, "signed", "unreachable")
      BY <1>6 DEF Connects
    <2>2. ~overlapped => ~Up(caller[h].for)
      BY <1>6 DEF EndpointInv, DesksInOrder, HoldersHold, Up, Holding
    <2>3. "signed" \in CallerStep /\ "unreachable" \in CallerStep \ {"off"}
      BY DEF CallerStep
    <2> QED
      BY <1>2, <1>3, <1>4, <2>1, <2>2, <2>3, MovesKeeps
  <1> QED
    BY <1>5, <1>6

\* A connection of a hook: with a frame, or dropped without one.
LEMMA WireAdded ==
    ASSUME EndpointShape, NEW h \in Caller, NEW frame \in BOOLEAN
    PROVE  LET made == [by |-> h, to |-> caller[h].to, frame |-> frame]
           IN made \in Wire /\ made.by = h
  <1>1. caller[h].to \in Instance /\ h \in Desk \cup Caller
    BY DEF EndpointShape, CallerRecord
  <1> QED
    BY <1>1, WireMade

LEMMA WritesFrameKeeps == ASSUME EndpointInv, NEW h \in Caller, WritesFrame(h) PROVE EndpointInv'
  <1> DEFINE made == [by |-> h, to |-> caller[h].to, frame |-> TRUE]
  <1>1. EndpointShape
    BY DEF EndpointInv
  <1>2. made \in Wire /\ made.by = h
    BY <1>1, WireAdded, Zenon
  <1>3. wires' = wires \cup {made} /\ Moves(h, "connected", "waiting")
        /\ UNCHANGED <<deskVars, desk, inbox, answer>>
    BY DEF WritesFrame
  <1> HIDE DEF made
  <1>4. wires' \in SUBSET Wire /\ \A w \in wires' : w \in wires \/ w.by = h
    BY <1>1, <1>2, <1>3 DEF EndpointShape
  <1>5. "connected" \in CallerStep /\ "waiting" \in CallerStep \ {"off"}
    BY DEF CallerStep
  <1> QED
    BY <1>3, <1>4, <1>5, MovesKeeps

LEMMA TimesOutKeeps == ASSUME EndpointInv, NEW h \in Caller, TimesOut(h) PROVE EndpointInv'
  <1> DEFINE made == [by |-> h, to |-> caller[h].to, frame |-> FALSE]
  <1>1. EndpointShape
    BY DEF EndpointInv
  <1>2. made \in Wire /\ made.by = h
    BY <1>1, WireAdded, Zenon
  <1>3. PICK at \in {"signed", "connected", "waiting"} : Moves(h, at, "late")
    BY DEF TimesOut
  <1>4. /\ wires' = wires \/ wires' = wires \cup {made}
        /\ UNCHANGED <<deskVars, desk, inbox, answer>>
    BY DEF TimesOut
  <1> HIDE DEF made
  <1>5. wires' \in SUBSET Wire /\ \A w \in wires' : w \in wires \/ w.by = h
    BY <1>1, <1>2, <1>4 DEF EndpointShape
  <1>6. at \in CallerStep /\ "late" \in CallerStep \ {"off"}
    BY DEF CallerStep
  <1> QED
    BY <1>3, <1>4, <1>5, <1>6, MovesKeeps

LEMMA ReadsAnswerKeeps == ASSUME EndpointInv, NEW h \in Caller, ReadsAnswer(h) PROVE EndpointInv'
  <1>1. EndpointShape
    BY DEF EndpointInv
  <1>2. PICK at \in {"connected", "waiting"}, to \in {"delivered", "refused", "failed"} :
            Moves(h, at, to) /\ (to = "refused" => answer[h] = "refused")
    BY DEF ReadsAnswer
  <1>3. UNCHANGED <<deskVars, desk, lineVars>>
    BY DEF ReadsAnswer
  <1>4. UNCHANGED <<inbox, answer>> /\ wires' \in SUBSET Wire /\ \A w \in wires' : w \in wires
    BY <1>1, <1>3 DEF lineVars, EndpointShape
  <1>5. at \in CallerStep /\ to \in CallerStep \ {"off"} /\ to # "unreachable"
    BY DEF CallerStep
  <1> QED
    BY <1>2, <1>3, <1>4, <1>5, MovesKeeps

\* What the desktops do with the connections: frames go from the socket to the actor's
\* mailbox, and the actor refuses what was signed for another instance.
LEMMA LineStepKeeps ==
    ASSUME EndpointInv, EndpointShape', UNCHANGED <<deskVars, desk, caller>>,
           \A w \in wires' : w \in wires,
           \A h \in Caller : caller[h].at = "off" =>
               /\ answer'[h] = answer[h]
               /\ \A d \in Desk : \A n \in 1 .. Len(inbox'[d]) : inbox'[d][n] # h,
           ~overlapped => \A h \in Caller :
               answer'[h] = "refused" => answer[h] = "refused" \/ ~Up(caller[h].for)
    PROVE  EndpointInv'
  <1>1. NamedArePublished /\ SignedFirst /\ FramesAreOfHooks
    BY DEF EndpointInv
  <1>2. UNCHANGED <<path, listening, credential, overlapped>>
    BY DEF deskVars
  <1>3. NamedArePublished'
    BY <1>1, <1>2 DEF NamedArePublished, NamedHasPublished
  <1>4. SignedFirst' /\ FramesAreOfHooks'
    BY <1>1 DEF SignedFirst, FramesAreOfHooks
  <1>5. overlapped \/ DesksInOrder'
    BY <1>2 DEF EndpointInv, DesksInOrder, OneStart, HoldersHold, UpArePublished, StaleIsStale, Up
  <1>6. overlapped \/ RefusedAreLate'
    BY DEF EndpointInv, RefusedAreLate, Up
  <1> QED
    BY <1>2, <1>3, <1>4, <1>5, <1>6 DEF EndpointInv

LEMMA FrameMissingKeeps ==
    ASSUME EndpointInv, NEW w \in wires, FrameMissing(w) PROVE EndpointInv'
  <1>1. EndpointShape /\ SignedFirst
    BY DEF EndpointInv
  <1>2. wires' = wires \ {w} /\ UNCHANGED <<deskVars, desk, caller, inbox, answer>>
    BY DEF FrameMissing
  <1>3. EndpointShape'
    BY <1>1, <1>2 DEF EndpointShape, deskVars, Instance
  <1> QED
    BY <1>1, <1>2, <1>3, LineStepKeeps DEF SignedFirst

LEMMA FrameReadKeeps ==
    ASSUME EndpointInv, NEW w \in wires, FrameRead(w) PROVE EndpointInv'
  <1>1. EndpointShape /\ SignedFirst /\ FramesAreOfHooks
    BY DEF EndpointInv
  <1>2. /\ wires' = wires \ {w} /\ inbox' = [inbox EXCEPT ![w.to] = Append(@, w.by)]
        /\ UNCHANGED <<deskVars, desk, caller, answer>>
    BY DEF FrameRead
  <1>3. w.by \in Caller /\ caller[w.by].at # "off"
    BY <1>1 DEF FrameRead, FramesAreOfHooks, SignedFirst
  <1>4. ASSUME NEW d \in Desk
        PROVE  /\ inbox'[d] \in Seq(Caller)
               /\ \A n \in 1 .. Len(inbox'[d]) :
                      \/ inbox'[d][n] = w.by
                      \/ \E m \in 1 .. Len(inbox[d]) : inbox'[d][n] = inbox[d][m]
    <2>1. inbox[d] \in Seq(Caller)
      BY <1>1 DEF EndpointShape
    <2>2. inbox'[d] = inbox[d] \/ inbox'[d] = Append(inbox[d], w.by)
      BY <1>1, <1>2 DEF EndpointShape
    <2> QED
      BY <1>3, <2>1, <2>2
  <1>5. EndpointShape'
    <2>1. inbox' \in [Desk -> Seq(Caller)]
      BY <1>1, <1>2, <1>4 DEF EndpointShape
    <2> QED
      BY <1>1, <1>2, <2>1 DEF EndpointShape, deskVars, Instance
  <1>6. ASSUME NEW h \in Caller, caller[h].at = "off", NEW d \in Desk,
               NEW n \in 1 .. Len(inbox'[d])
        PROVE  inbox'[d][n] # h
    BY <1>1, <1>3, <1>4, <1>6 DEF SignedFirst
  <1> QED
    BY <1>2, <1>5, <1>6, LineStepKeeps

LEMMA ActorIngestsKeeps ==
    ASSUME EndpointInv, NEW d \in Desk, ActorIngests(d) PROVE EndpointInv'
  <1>1. EndpointShape /\ SignedFirst
    BY DEF EndpointInv
  <1> DEFINE h == Head(inbox[d])
  <1>2. /\ Up(d) /\ inbox[d] # <<>> /\ inbox' = [inbox EXCEPT ![d] = Tail(@)]
        /\ UNCHANGED <<deskVars, desk, caller, wires>>
    BY DEF ActorIngests
  <1>3. \/ caller[h].for # d /\ answer' = [answer EXCEPT ![h] = "refused"]
        \/ answer' = [answer EXCEPT ![h] = "acknowledged"]
        \/ answer' = [answer EXCEPT ![h] = "closed"]
    BY DEF ActorIngests, SignedFor
  <1>4. inbox[d] \in Seq(Caller) /\ Tail(inbox[d]) \in Seq(Caller)
    BY <1>1, <1>2 DEF EndpointShape
  <1>5. h = inbox[d][1] /\ 1 \in 1 .. Len(inbox[d])
    BY <1>2, <1>4
  <1>6. h \in Caller /\ caller[h].at # "off"
    BY <1>1, <1>4, <1>5 DEF SignedFirst
  <1> HIDE DEF h
  <1>7. /\ answer' \in [Caller -> {"none", "acknowledged", "refused", "closed"}]
        /\ \A g \in Caller : g # h => answer'[g] = answer[g]
    BY <1>1, <1>3, <1>6 DEF EndpointShape
  <1>8. EndpointShape'
    <2>1. inbox' \in [Desk -> Seq(Caller)]
      BY <1>1, <1>2, <1>4 DEF EndpointShape
    <2> QED
      BY <1>1, <1>2, <1>7, <2>1 DEF EndpointShape, deskVars, Instance
  <1>9. ASSUME NEW g \in Caller, caller[g].at = "off", NEW e \in Desk,
               NEW n \in 1 .. Len(inbox'[e])
        PROVE  inbox'[e][n] # g
    <2>1. CASE e = d
      <3>1. inbox'[e] = Tail(inbox[d])
        BY <1>1, <1>2, <2>1 DEF EndpointShape
      <3>2. n + 1 \in 1 .. Len(inbox[d]) /\ inbox'[e][n] = inbox[d][n + 1]
        <4> DEFINE s == inbox[d]
                   t == inbox'[e]
        <4>1. s \in Seq(Caller) /\ s # <<>> /\ t = Tail(s) /\ n \in 1 .. Len(t)
          BY <1>2, <1>4, <1>9, <3>1
        <4> HIDE DEF s, t
        <4>2. n + 1 \in 1 .. Len(s) /\ t[n] = s[n + 1]
          BY <4>1
        <4> QED
          BY <4>2 DEF s, t
      <3> QED
        BY <1>1, <1>9, <3>2 DEF SignedFirst
    <2>2. CASE e # d
      BY <1>1, <1>2, <1>9, <2>2 DEF SignedFirst, EndpointShape
    <2> QED
      BY <2>1, <2>2
  <1>10. ASSUME ~overlapped, NEW g \in Caller, answer'[g] = "refused"
         PROVE  answer[g] = "refused" \/ ~Up(caller[g].for)
    <2>1. CASE g # h
      BY <1>7, <1>10, <2>1
    <2>2. CASE g = h
      <3>1. caller[h].for # d
        <4>1. answer'[h] = "refused"
          BY <1>10, <2>2
        <4>2. answer' = [answer EXCEPT ![h] = "acknowledged"] => answer'[h] = "acknowledged"
          BY <1>1, <1>6 DEF EndpointShape
        <4>3. answer' = [answer EXCEPT ![h] = "closed"] => answer'[h] = "closed"
          BY <1>1, <1>6 DEF EndpointShape
        <4> QED
          BY <1>3, <4>1, <4>2, <4>3
      <3>2. ASSUME Up(caller[h].for) PROVE FALSE
        <4>1. path = d /\ path = caller[h].for
          BY <1>2, <1>10, <3>2 DEF EndpointInv, DesksInOrder, HoldersHold, Up, Holding
        <4> QED
          BY <3>1, <4>1
      <3> QED
        BY <2>2, <3>2
    <2> QED
      BY <2>1, <2>2
  <1> QED
    BY <1>2, <1>6, <1>7, <1>8, <1>9, <1>10, LineStepKeeps

LEMMA EndpointInitKeeps == EndpointInit => EndpointInv
  <1> SUFFICES ASSUME EndpointInit PROVE EndpointInv
    OBVIOUS
  <1>1. EndpointShape
    <2>1. <<>> \in Seq(Caller)
      OBVIOUS
    <2>2. inbox \in [Desk -> Seq(Caller)]
      BY <2>1 DEF EndpointInit
    <2>3. caller \in [Caller -> CallerRecord]
      BY DEF EndpointInit, CallerRecord, CallerStep, Instance
    <2> QED
      BY <2>2, <2>3 DEF EndpointInit, EndpointShape, Instance, DeskStep
  <1>2. SignedFirst /\ FramesAreOfHooks
    BY DEF EndpointInit, SignedFirst, FramesAreOfHooks
  <1>3. NamedArePublished
    BY Instances DEF EndpointInit, NamedArePublished, NamedHasPublished
  <1>4. DesksInOrder
    BY DEF EndpointInit, DesksInOrder, OneStart, HoldersHold, UpArePublished, StaleIsStale, Up,
           Starting, Holding
  <1>5. RefusedAreLate
    BY DEF EndpointInit, RefusedAreLate
  <1> QED
    BY <1>1, <1>2, <1>3, <1>4, <1>5 DEF EndpointInv

LEMMA EndpointNextKeeps == EndpointInv /\ [EndpointNext]_endpointVars => EndpointInv'
  <1> SUFFICES ASSUME EndpointInv, [EndpointNext]_endpointVars PROVE EndpointInv'
    OBVIOUS
  <1>1. ASSUME NEW d \in Desk,
               \/ StartsEndpoint(d) \/ LooksAtPath(d) \/ Probes(d) \/ RemovesStale(d)
               \/ BindsPath(d) \/ HardensPath(d) \/ PublishesCredentials(d) \/ FirstDrainEnds(d)
               \/ Leaves(d) \/ DropsPath(d) \/ ClosesListener(d) \/ DiesUnclean(d)
               \/ ActorIngests(d)
        PROVE  EndpointInv'
    BY <1>1, StartsKeeps, LooksKeeps, ProbesKeeps, RemovesKeeps, BindsKeeps, HardensKeeps,
       PublishesKeeps, GoesOnKeeps, DropsKeeps, EndKeeps, ActorIngestsKeeps
  <1>2. ASSUME NEW h \in Caller,
               ReadsCredentials(h) \/ Connects(h) \/ WritesFrame(h) \/ TimesOut(h) \/ ReadsAnswer(h)
        PROVE  EndpointInv'
    BY <1>2, ReadsCredentialsKeeps, ConnectsKeeps, WritesFrameKeeps, TimesOutKeeps, ReadsAnswerKeeps
  <1>3. ASSUME NEW w \in wires, FrameMissing(w) \/ FrameRead(w) PROVE EndpointInv'
    BY <1>3, FrameMissingKeeps, FrameReadKeeps
  <1>4. CASE UNCHANGED endpointVars
    BY <1>4 DEF endpointVars, EndpointInv, EndpointShape, Instance, NamedArePublished,
                NamedHasPublished, SignedFirst, FramesAreOfHooks, DesksInOrder, OneStart,
                HoldersHold, UpArePublished, StaleIsStale, RefusedAreLate, Up
  <1> QED
    BY <1>1, <1>2, <1>3, <1>4 DEF EndpointNext

(* Unless two starts overlapped, a running desktop owns the socket's path and the
   credentials, and a hook that signed for it finds nobody there, or somebody who
   refuses the signature, only once it has gone: for any number of desktops that start,
   fail, leave or die in any order, and any number of hooks
   (PlatformListener::bind, drop, bind_inner, deliver_forwarding_message). *)
THEOREM RunningDesktopsAreReached == EndpointSpec => []LiveDesktopIsReached
  <1>1. EndpointInv => LiveDesktopIsReached
    BY DEF EndpointInv, DesksInOrder, HoldersHold, UpArePublished, RefusedAreLate,
           LiveDesktopIsReached, Up, Holding
  <1> QED
    BY <1>1, EndpointInitKeeps, EndpointNextKeeps, PTL DEF EndpointSpec

-------------------------------------------------------------------------------
(***************************************************************************)
(* The identities of hooks.  Fields are compared as they stand in the      *)
(* tuple that is hashed; the first one tells the kinds apart.              *)
(***************************************************************************)
HookName == DOMAIN EventType \cup {NOTIFY}
Identifiable(p) == p.hook # PERMISSION \/ p.input # Absent
Identity(p) == IF p.hook = NOTIFY THEN <<NOTIFY, p.session, p.turn>> ELSE IdentityFields(p)
SourceOf(p) == IF p.hook = NOTIFY THEN <<"notify">> ELSE LifecycleSource(p)

\* The event is of this hook.
IsEventOf(event, p) ==
    /\ p.hook \in HookName /\ event.session = p.session
    /\ event.id = IF Identifiable(p) THEN Identity(p)
                  ELSE Fallback("attention_required", p.session, event.turn, SourceOf(p), event.time)

\* The desktop reads the hook and the home back.
TellsOrigin(source, p, home) == Surface(source) = p.hook /\ HomeOf(source) = home

EventsInv ==
    /\ ran \in Seq(HookInput)
    /\ \A d \in deliveries : d.hook \in 1 .. Len(ran) /\ (d.route # "plugin" => d.home = NoHome)
    /\ \A e \in events :
          /\ e.hook \in 1 .. Len(ran)
          /\ IsEventOf(e.event, ran[e.hook])
          /\ TellsOrigin(e.event.source, ran[e.hook], e.home)

LEMMA HookNames == HookName = {SESSION_START, USER_PROMPT, PERMISSION, STOP, SESSION_END, NOTIFY}
  BY DEF HookName, EventType

LEMMA FirstFields ==
    ASSUME NEW p
    PROVE  Identity(p)[1] = IF p.hook = PERMISSION /\ p.use = Absent THEN "native" ELSE p.hook
  BY DEF Identity, IdentityFields, SESSION_START, USER_PROMPT, PERMISSION, STOP, SESSION_END, NOTIFY

\* Equal identities are of hooks that nobody can tell apart.
LEMMA IdentityTells ==
    ASSUME NEW p, NEW q, p.hook \in HookName, q.hook \in HookName, Identity(p) = Identity(q)
    PROVE  SameMoment(p, q)
  <1> USE DEF SESSION_START, USER_PROMPT, PERMISSION, STOP, SESSION_END, NOTIFY
  <1>1. p.hook = q.hook /\ (p.hook = PERMISSION => (p.use = Absent <=> q.use = Absent))
    BY FirstFields, HookNames
  <1>2. CASE p.hook = NOTIFY
    BY <1>1, <1>2 DEF Identity, SameMoment
  <1>3. CASE p.hook \in {USER_PROMPT, STOP}
    BY <1>1, <1>3 DEF Identity, IdentityFields, SameMoment
  <1>4. CASE p.hook = SESSION_START
    BY <1>1, <1>4 DEF Identity, IdentityFields, SameMoment
  <1>5. CASE p.hook = SESSION_END
    BY <1>1, <1>5 DEF Identity, IdentityFields, SameMoment
  <1>6. CASE p.hook = PERMISSION /\ p.use = Absent
    BY <1>1, <1>6 DEF Identity, IdentityFields, SameMoment
  <1>7. CASE p.hook = PERMISSION /\ p.use # Absent
    BY <1>1, <1>7 DEF Identity, IdentityFields, SameMoment
  <1> QED
    BY <1>2, <1>3, <1>4, <1>5, <1>6, <1>7, HookNames

LEMMA SourceFields ==
    ASSUME NEW p, p.hook # NOTIFY
    PROVE  \E S : /\ SourceOf(p) \in Seq(S) /\ Len(SourceOf(p)) \in {2, 3}
                  /\ SourceOf(p)[1] = "hook" /\ SourceOf(p)[2] = p.hook
  <1> DEFINE S == {"hook", p.hook, p.start}
  <1>1. /\ <<"hook", p.hook>> \in Seq(S) /\ Len(<<"hook", p.hook>>) = 2
        /\ <<"hook", p.hook>>[1] = "hook" /\ <<"hook", p.hook>>[2] = p.hook
    OBVIOUS
  <1>2. /\ <<"hook", p.hook, p.start>> \in Seq(S) /\ Len(<<"hook", p.hook, p.start>>) = 3
        /\ <<"hook", p.hook, p.start>>[1] = "hook" /\ <<"hook", p.hook, p.start>>[2] = p.hook
    OBVIOUS
  <1>3. SourceOf(p) \in {<<"hook", p.hook>>, <<"hook", p.hook, p.start>>}
    BY DEF SourceOf, LifecycleSource
  <1> HIDE DEF S
  <1> QED
    BY <1>1, <1>2, <1>3

\* What comes after the plugin's own parts is the source it marked.
LEMMA MarkedReads ==
    ASSUME NEW S, NEW source \in Seq(S), Len(source) \in {2, 3}, source[1] = "hook", NEW home
    PROVE  Surface(Marked(source, home)) = source[2] /\ HomeOf(Marked(source, home)) = home
  <1> DEFINE T == S \cup {"plugin", PluginId, InstalledVersion, "home", home}
             short == <<"plugin", PluginId, InstalledVersion>>
             long == <<"plugin", PluginId, InstalledVersion, "home", home>>
             marked == Marked(source, home)
  <1>1. source \in Seq(T)
    BY SeqMonotonic
  <1>2. short \in Seq(T) /\ Len(short) = 3 /\ short[1] = "plugin"
    OBVIOUS
  <1>3. /\ long \in Seq(T) /\ Len(long) = 5 /\ long[1] = "plugin"
        /\ long[4] = "home" /\ long[5] = home
    OBVIOUS
  <1>4. CASE home = NoHome
    <2>1. marked = short \o source
      BY <1>4 DEF Marked
    <2> HIDE DEF T, short, long, marked
    <2>a. /\ marked \in Seq(T) /\ Len(marked) = 3 + Len(source)
          /\ \A i \in 1 .. 3 + Len(source) : marked[i] = IF i <= 3 THEN short[i] ELSE source[i - 3]
      <3>1. /\ short \o source \in Seq(T) /\ Len(short \o source) = Len(short) + Len(source)
            /\ \A i \in 1 .. Len(short) + Len(source) :
                  (short \o source)[i] = IF i <= Len(short) THEN short[i] ELSE source[i - Len(short)]
        BY <1>1, <1>2, ConcatProperties
      <3> QED
        BY <1>2, <2>1, <3>1
    <2>2. /\ marked \in Seq(T) /\ Len(marked) = 3 + Len(source) /\ marked[1] = "plugin"
          /\ marked[4] = "hook" /\ marked[5] = source[2]
      BY <1>2, <2>a
    <2>3. \A i \in 4 .. Len(marked) : marked[i] \in T
      BY <2>2, ElementOfSeq
    <2>4. SubSeq(marked, 4, Len(marked))[2] = source[2]
      BY <2>2, <2>3, SubSeqProperties
    <2>5. IsPluginSource(marked) /\ Nested(marked) = SubSeq(marked, 4, Len(marked))
      BY <2>2 DEF Nested, IsPluginSource
    <2>6. Surface(marked) = source[2] /\ HomeOf(marked) = home
      BY <1>4, <2>2, <2>4, <2>5 DEF Surface, HomeOf
    <2> QED
      BY <2>6 DEF marked
  <1>5. CASE home # NoHome
    <2>1. marked = long \o source
      BY <1>5 DEF Marked
    <2> HIDE DEF T, short, long, marked
    <2>a. /\ marked \in Seq(T) /\ Len(marked) = 5 + Len(source)
          /\ \A i \in 1 .. 5 + Len(source) : marked[i] = IF i <= 5 THEN long[i] ELSE source[i - 5]
      <3>1. /\ long \o source \in Seq(T) /\ Len(long \o source) = Len(long) + Len(source)
            /\ \A i \in 1 .. Len(long) + Len(source) :
                  (long \o source)[i] = IF i <= Len(long) THEN long[i] ELSE source[i - Len(long)]
        BY <1>1, <1>3, ConcatProperties
      <3> QED
        BY <1>3, <2>1, <3>1
    <2>2. /\ marked \in Seq(T) /\ Len(marked) = 5 + Len(source) /\ marked[1] = "plugin"
          /\ marked[4] = "home" /\ marked[5] = home /\ marked[7] = source[2]
      BY <1>3, <2>a
    <2>3. \A i \in 6 .. Len(marked) : marked[i] \in T
      BY <2>2, ElementOfSeq
    <2>4. SubSeq(marked, 6, Len(marked))[2] = source[2]
      BY <2>2, <2>3, SubSeqProperties
    <2>5. IsPluginSource(marked) /\ Nested(marked) = SubSeq(marked, 6, Len(marked))
      BY <2>2 DEF Nested, IsPluginSource
    <2>6. Surface(marked) = source[2] /\ HomeOf(marked) = home
      BY <2>2, <2>4, <2>5 DEF Surface, HomeOf
    <2> QED
      BY <2>6 DEF marked
  <1> QED
    BY <1>4, <1>5

\* What a payload becomes, if it is not refused.
LEMMA RefusedIsRefused == \A reason : Refused(reason).accepted = FALSE
  BY DEF Refused

EventOf(type, session, turn, source, time, id) ==
    [accepted |-> TRUE, type |-> type, session |-> session, turn |-> turn, source |-> source,
     time |-> time, id |-> id]

LEMMA EventFields ==
    ASSUME NEW type, NEW session, NEW turn, NEW source, NEW time, NEW id
    PROVE  LET event == EventOf(type, session, turn, source, time, id) IN
           /\ event.session = session /\ event.turn = turn /\ event.source = source
           /\ event.time = time /\ event.id = id
           /\ \A other : [event EXCEPT !.source = other] =
                            EventOf(type, session, turn, other, time, id)
  <1> DEFINE yes == TRUE
  <1>1. \A other : EventOf(type, session, turn, other, time, id) =
           [accepted |-> yes, type |-> type, session |-> session, turn |-> turn, source |-> other,
            time |-> time, id |-> id]
    BY DEF EventOf
  <1> HIDE DEF yes
  <1> QED
    BY <1>1

LEMMA NormalisedFields ==
    ASSUME NEW id, NEW type, NEW session, NEW turn, NEW source, NEW time,
           Normalised(id, type, session, turn, source, time).accepted
    PROVE  /\ session # Absent /\ (IsTurnScoped(type) => turn # Absent)
           /\ Normalised(id, type, session, turn, source, time) =
                EventOf(type, session, turn, source, time,
                        IF id = <<>> THEN Fallback(type, session, turn, source, time) ELSE id)
  BY RefusedIsRefused DEF Normalised, EventOf

LEMMA AcceptedHook ==
    ASSUME NEW p \in HookInput, NEW time, Normalise(p, time).accepted
    PROVE  /\ IsEventOf(Normalise(p, time), p)
           /\ Normalise(p, time).source = SourceOf(p)
           /\ \E type, turn, id :
                 Normalise(p, time) = EventOf(type, p.session, turn, SourceOf(p), time, id)
  <1>1. p.form = "json"
    BY RefusedIsRefused, HookAssumption DEF Normalise
  <1>2. CASE p.hook = NOTIFY
    <2> DEFINE id == IF p.session # Absent /\ p.turn # Absent
                     THEN <<NOTIFY, p.session, p.turn>> ELSE <<>>
               event == Normalised(id, "turn_completed", p.session, p.turn, <<"notify">>, time)
    <2>1. Normalise(p, time) = event
      BY <1>1, <1>2 DEF Normalise, NormaliseNotify
    <2>2. p.session # Absent /\ p.turn # Absent
      BY <2>1, NormalisedFields DEF IsTurnScoped
    <2>3. id = <<NOTIFY, p.session, p.turn>> /\ id # <<>>
      BY <2>2
    <2> HIDE DEF id
    <2>4. event = EventOf("turn_completed", p.session, p.turn, <<"notify">>, time, id)
      BY <2>1, <2>3, NormalisedFields
    <2>5. id = Identity(p) /\ SourceOf(p) = <<"notify">> /\ Identifiable(p) /\ p.hook \in HookName
      BY <1>2, <2>3 DEF Identity, SourceOf, Identifiable, NOTIFY, PERMISSION, HookName
    <2> HIDE DEF event
    <2> QED
      BY <2>1, <2>4, <2>5, EventFields DEF IsEventOf
  <1>3. CASE p.hook # NOTIFY
    <2> DEFINE id == IF Identified(p) THEN IdentityFields(p) ELSE <<>>
               turn == IF p.hook \in {SESSION_START, SESSION_END} THEN Absent ELSE p.turn
               event == Normalised(id, EventType[p.hook], p.session, turn, LifecycleSource(p), time)
    <2>1. Normalise(p, time) = event /\ p.hook \in DOMAIN EventType
      BY <1>1, <1>3, RefusedIsRefused DEF Normalise, NormaliseLifecycle
    <2>2. p.session # Absent /\ (IsTurnScoped(EventType[p.hook]) => turn # Absent)
      <3> HIDE DEF id, turn
      <3> QED
        BY <2>1, NormalisedFields
    <2>3. p.hook \in {USER_PROMPT, STOP, PERMISSION} => IsTurnScoped(EventType[p.hook])
      BY DEF IsTurnScoped, EventType, SESSION_START, USER_PROMPT, PERMISSION, STOP, SESSION_END
    <2>4. Identified(p) <=> Identifiable(p)
      BY <2>2, <2>3
         DEF Identified, Identifiable, SESSION_START, USER_PROMPT, PERMISSION, STOP, SESSION_END
    <2>5. /\ IdentityFields(p) # <<>> /\ Identity(p) = IdentityFields(p)
          /\ SourceOf(p) = LifecycleSource(p)
      BY <1>3 DEF IdentityFields, Identity, SourceOf
    <2>6. ~Identifiable(p) => EventType[p.hook] = "attention_required"
      BY DEF Identifiable, EventType, SESSION_START, USER_PROMPT, PERMISSION, STOP, SESSION_END
    <2>7. id = (IF Identifiable(p) THEN Identity(p) ELSE <<>>) /\ (id = <<>> <=> ~Identifiable(p))
      BY <2>4, <2>5
    <2>8. p.hook \in HookName
      BY <2>1 DEF HookName
    <2> HIDE DEF id, turn
    <2>9. event = EventOf(EventType[p.hook], p.session, turn, SourceOf(p), time,
                          IF Identifiable(p) THEN Identity(p)
                          ELSE Fallback("attention_required", p.session, turn, SourceOf(p), time))
      <3>1. event = EventOf(EventType[p.hook], p.session, turn, SourceOf(p), time,
                            IF id = <<>>
                            THEN Fallback(EventType[p.hook], p.session, turn, SourceOf(p), time)
                            ELSE id)
        BY <2>1, <2>5, NormalisedFields
      <3> QED
        BY <2>6, <2>7, <3>1
    <2> HIDE DEF event
    <2> QED
      BY <2>1, <2>8, <2>9, EventFields DEF IsEventOf
  <1> QED
    BY <1>2, <1>3

LEMMA ProcessedHook ==
    ASSUME NEW d, NEW p \in HookInput, p = ran[d.hook], d.route # "plugin" => d.home = NoHome,
           Processed(d).accepted
    PROVE  IsEventOf(Processed(d), p) /\ TellsOrigin(Processed(d).source, p, d.home)
  <1> DEFINE event == Normalise(p, hookClock)
  <1>1. Processed(d) = IF d.route = "plugin" THEN Marks(event, d.home) ELSE event
    BY DEF Processed
  <1>2. event.accepted
    BY <1>1, RefusedIsRefused DEF Marks
  <1>3. IsEventOf(event, p) /\ event.source = SourceOf(p)
    BY <1>2, AcceptedHook
  <1>4. PICK type, turn, id : event = EventOf(type, p.session, turn, SourceOf(p), hookClock, id)
    BY <1>2, AcceptedHook
  <1> HIDE DEF event
  <1>5. CASE d.route = "plugin"
    <2>1. SourceOf(p)[1] = "hook" /\ Processed(d) = [event EXCEPT !.source = Marked(@, d.home)]
      BY <1>1, <1>2, <1>3, <1>5, RefusedIsRefused DEF Marks
    <2>2. p.hook # NOTIFY
      BY <2>1 DEF SourceOf
    <2>3. Processed(d) = EventOf(type, p.session, turn, Marked(SourceOf(p), d.home), hookClock, id)
      BY <1>3, <1>4, <2>1, EventFields
    <2>4. TellsOrigin(Marked(SourceOf(p), d.home), p, d.home)
      BY <2>2, SourceFields, MarkedReads DEF TellsOrigin
    <2> QED
      BY <1>3, <1>4, <2>3, <2>4, EventFields DEF IsEventOf
  <1>6. CASE d.route # "plugin"
    <2>1. Processed(d) = event /\ d.home = NoHome
      BY <1>1, <1>6
    <2>2. CASE p.hook = NOTIFY
      BY <1>3, <2>1, <2>2 DEF TellsOrigin, SourceOf, Surface, HomeOf, IsPluginSource
    <2>3. CASE p.hook # NOTIFY
      <3>1. /\ event.source[1] = "hook" /\ event.source[2] = p.hook
        BY <1>3, <2>3, SourceFields
      <3>2. ~IsPluginSource(event.source) /\ event.source[1] # "notify"
        BY <3>1 DEF IsPluginSource
      <3> QED
        BY <1>3, <2>1, <3>1, <3>2 DEF TellsOrigin, Surface, HomeOf, Nested
    <2> QED
      BY <1>3, <2>1, <2>2, <2>3
  <1> QED
    BY <1>5, <1>6

LEMMA EventsStepKeeps ==
    ASSUME EventsInv, EventsNext
    PROVE  EventsInv'
  <1>1. ASSUME NEW p \in HookInput, NEW routes, Runs(p, routes)
        PROVE  EventsInv'
    <2>1. /\ ran \in Seq(HookInput) /\ ran' = Append(ran, p) /\ events' = events
          /\ \E home \in Homes : deliveries' = deliveries \cup
                {[hook |-> Len(ran) + 1, route |-> r, home |-> IF r = "plugin" THEN home ELSE NoHome] :
                    r \in routes}
      BY <1>1 DEF Runs, EventsInv
    <2>2. /\ ran' \in Seq(HookInput) /\ Len(ran') = Len(ran) + 1 /\ Len(ran) \in Nat
          /\ \A i \in 1 .. Len(ran) : ran'[i] = ran[i]
      BY <2>1
    <2>3. \A d \in deliveries' :
             \/ d \in deliveries
             \/ d.hook = Len(ran) + 1 /\ (d.route # "plugin" => d.home = NoHome)
      BY <2>1
    <2>4. \A d \in deliveries' :
             d.hook \in 1 .. Len(ran') /\ (d.route # "plugin" => d.home = NoHome)
      BY <2>2, <2>3 DEF EventsInv
    <2>5. \A e \in events' :
             e.hook \in 1 .. Len(ran') /\ ran'[e.hook] = ran[e.hook] /\ e \in events
      BY <2>1, <2>2 DEF EventsInv
    <2> QED
      BY <2>2, <2>4, <2>5 DEF EventsInv
  <1>2. ASSUME NEW d \in deliveries, HookProcess(d)
        PROVE  EventsInv'
    <2> DEFINE made == [hook |-> d.hook, home |-> d.home, event |-> Processed(d)]
    <2>1. /\ ran \in Seq(HookInput) /\ d.hook \in 1 .. Len(ran)
          /\ d.route # "plugin" => d.home = NoHome
      BY DEF EventsInv
    <2>2. ran[d.hook] \in HookInput
      BY <2>1, ElementOfSeq
    <2>3. /\ UNCHANGED ran /\ deliveries' = deliveries \ {d}
          /\ events' = IF Processed(d).accepted THEN events \cup {made} ELSE events
      BY <1>2 DEF HookProcess
    <2>4. Processed(d).accepted =>
             /\ IsEventOf(made.event, ran[made.hook])
             /\ TellsOrigin(made.event.source, ran[made.hook], made.home)
      BY <2>1, <2>2, ProcessedHook
    <2>5. made.hook \in 1 .. Len(ran)
      BY <2>1
    <2> HIDE DEF made
    <2> QED
      BY <2>3, <2>4, <2>5 DEF EventsInv
  <1>3. CASE TimePasses
    BY <1>3 DEF TimePasses, EventsInv
  <1> QED
    BY <1>1, <1>2, <1>3 DEF EventsNext

LEMMA FallbackFields ==
    ASSUME NEW type, NEW session, NEW turn, NEW source, NEW time
    PROVE  LET id == Fallback(type, session, turn, source, time) IN
           id[1] = "fallback" /\ id[3] = session /\ id[4] = turn /\ id[6] = time
  BY DEF Fallback

\* One identity for one hook and one hook for one identity, for any payloads that Codex may
\* hand over and any processes that handle them at any time (lifecycle_event_id,
\* fallback_event_id, normalize_hook_json); the desktop reads the hook and the plugin's home
\* back from the source (mark_plugin_hook_event_with_home, plugin_source_parts).
THEOREM HooksAreIdentified == EventsSpec => []OneIdentityPerHook
  <1>1. EventsInit => EventsInv
    BY DEF EventsInit, EventsInv
  <1>2. EventsInv /\ [EventsNext]_eventVars => EventsInv'
    BY EventsStepKeeps DEF eventVars, EventsInv
  <1>3. EventsInv => OneIdentityPerHook
    <2> SUFFICES ASSUME EventsInv, NEW e \in events, NEW f \in events
                 PROVE  LET p == ran[e.hook]
                            q == ran[f.hook] IN
                        /\ e.hook = f.hook /\ Identifiable(p) => e.event.id = f.event.id
                        /\ e.event.id = f.event.id =>
                              \/ SameMoment(p, q)
                              \/ ~Identifiable(p) /\ ~Identifiable(q) /\ e.event.time = f.event.time
                                 /\ e.event.session = f.event.session /\ e.event.turn = f.event.turn
                        /\ Surface(e.event.source) = p.hook
                        /\ HomeOf(e.event.source) = e.home
      BY DEF OneIdentityPerHook, Identifiable
    <2> DEFINE p == ran[e.hook]
               q == ran[f.hook]
    <2>1. IsEventOf(e.event, p) /\ TellsOrigin(e.event.source, p, e.home) /\ IsEventOf(f.event, q)
      BY DEF EventsInv
    <2>2. e.hook = f.hook /\ Identifiable(p) => e.event.id = f.event.id
      BY <2>1 DEF IsEventOf
    <2> HIDE DEF p, q
    <2>3. ASSUME e.event.id = f.event.id, Identifiable(p), Identifiable(q)
          PROVE  SameMoment(p, q)
      BY <2>1, <2>3, IdentityTells DEF IsEventOf
    <2>4. ASSUME e.event.id = f.event.id, ~Identifiable(p), ~Identifiable(q)
          PROVE  /\ e.event.time = f.event.time /\ e.event.session = f.event.session
                 /\ e.event.turn = f.event.turn
      BY <2>1, <2>4, FallbackFields DEF IsEventOf
    <2>5. ASSUME NEW r, NEW s, NEW turn, NEW time, r.hook \in HookName,
                 Identity(r) = Fallback("attention_required", s.session, turn, SourceOf(s), time)
          PROVE  FALSE
      BY <2>5, FirstFields, FallbackFields, HookNames
         DEF SESSION_START, USER_PROMPT, PERMISSION, STOP, SESSION_END, NOTIFY
    <2>6. e.event.id = f.event.id => (Identifiable(p) <=> Identifiable(q))
      BY <2>1, <2>5 DEF IsEventOf
    <2> QED
      BY <2>1, <2>2, <2>3, <2>4, <2>6 DEF TellsOrigin, p, q
  <1> QED
    BY <1>1, <1>2, <1>3, PTL DEF EventsSpec

===============================================================================
