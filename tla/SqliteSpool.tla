----------------------------- MODULE SqliteSpool -----------------------------
(***************************************************************************)
(* The offline spool: the inbound_spool table (lili-storage) and the store *)
(* around it (lili-session/src/sqlite_spool.rs).  Hooks of the agent       *)
(* insert events in one transaction of their own process; desktops drain   *)
(* the table, one record at a time: recover expired claims, apply          *)
(* retention, claim, ingest, commit or release.  The socket of Unix keeps  *)
(* a second desktop from it, the pipes of Windows (named by instance) do   *)
(* not.  Each statement or transaction is one action, so everything in     *)
(* between interleaves.                                                    *)
(***************************************************************************)
EXTENDS Naturals, FiniteSets

CONSTANTS
    Payload,    \* what hooks insert: records with key, priority, size and valid
    Drainer,    \* the desktop processes
    Token,      \* claim tokens (fresh UUIDs: one that nobody holds is as new)
    NoToken,
    MaxCount,   \* SpoolLimits: records
    MaxBytes,   \* SpoolLimits: bytes
    MaxAge,     \* SpoolLimits: age of a pending record
    Lease,      \* CLAIM_LEASE_MS
    MaxDelay,   \* bound: time from the start of a hook to its insert
    MaxClock,   \* bound: the clock stops here
    MaxInserts  \* bound: calls of enqueue

\* key stands for (provider, event id), the primary key; a payload that is not
\* valid is one this version cannot read.
ASSUME SpoolAssumption ==
    /\ \A p \in Payload :
          /\ p.priority \in Nat /\ p.size \in Nat /\ p.valid \in BOOLEAN
          /\ p.size <= MaxBytes
    /\ NoToken \notin Token
    /\ {MaxCount, MaxBytes, MaxAge, Lease, MaxDelay, MaxClock, MaxInserts} \subseteq Nat
    /\ MaxCount > 0

VARIABLES
    rows,      \* the table inbound_spool
    metrics,   \* the drop counters of app_state
    clock,     \* unix_time_ms()
    drainer,   \* where each desktop is in claim_next and ingest_sqlite_spool_claim
    inserts,   \* history: rows inserted
    commits,   \* history: rows deleted by commit
    owed       \* history: keys inserted and neither ingested nor dropped since

spoolVars == <<rows, metrics, clock, drainer, inserts, commits, owed>>

Row == [payload : Payload, inserted : Nat, status : {"pending", "claimed"},
        token : Token \cup {NoToken}, lease : Nat]

Keys(rs) == {r.payload.key : r \in rs}
Pending(rs) == {r \in rs : r.status = "pending"}
\* The sizes added up: every byte of every record, counted.
Bytes(rs) == Cardinality(UNION {{r} \X (1 .. r.payload.size) : r \in rs})

\* Mutants of Fits: off by one; the bytes are not counted.
FitsOneMore(rs) == Cardinality(rs) <= MaxCount + 1 /\ Bytes(rs) <= MaxBytes
FitsAnySize(rs) == Cardinality(rs) <= MaxCount

Fits(rs) == Cardinality(rs) <= MaxCount /\ Bytes(rs) <= MaxBytes

\* The order in which pending records are given up.
DropsBefore(r, s) ==
    \/ r.payload.priority < s.payload.priority
    \/ r.payload.priority = s.payload.priority /\ r.inserted < s.inserted

\* The order in which they are claimed.
ClaimedBefore(r, s) ==
    \/ r.payload.priority > s.payload.priority
    \/ r.payload.priority = s.payload.priority /\ r.inserted < s.inserted

\* Mutant of Expired: claimed records age as well.
ExpiredEvenClaimed(rs, now) == {r \in rs : r.inserted + MaxAge < now}

Expired(rs, now) == {r \in Pending(rs) : r.inserted + MaxAge < now}

\* The records that go when rs exceeds a limit: pending ones in their order, no
\* more than it takes.  Ties fall either way.
Excess(rs) ==
    {dropped \in SUBSET Pending(rs) :
        /\ \A r \in dropped, s \in Pending(rs) \ dropped : ~DropsBefore(s, r)
        /\ Fits(rs \ dropped) \/ dropped = Pending(rs)
        /\ dropped = {} \/ \E r \in dropped :
              /\ \A s \in dropped : ~DropsBefore(r, s)
              /\ ~Fits((rs \ dropped) \cup {r})}

Counted(expired, limit) ==
    [expired |-> metrics.expired + Cardinality(expired),
     limit |-> metrics.limit + Cardinality(limit),
     malformed |-> metrics.malformed]

Unclaimed(r) == [r EXCEPT !.status = "pending", !.token = NoToken, !.lease = 0]

ClaimedFor(r, token, lease) ==
    [r EXCEPT !.status = "claimed", !.token = token, !.lease = lease]

\* Mutant of Held: the claim token is not compared.
HeldByAnyone(d) ==
    {r \in rows : r.status = "claimed" /\ r.payload.key = drainer[d].payload.key}

\* The row the holder of a claim can still delete or release.
Held(d) ==
    {r \in rows : /\ r.status = "claimed"
                  /\ r.payload.key = drainer[d].payload.key
                  /\ r.token = drainer[d].token}

\* What a desktop that holds no claim is doing.
Resting(at, now) == [at |-> at, now |-> now, token |-> NoToken]

Init ==
    /\ rows = {}
    /\ metrics = [expired |-> 0, limit |-> 0, malformed |-> 0]
    /\ clock = 0
    /\ drainer = [d \in Drainer |-> Resting("idle", 0)]
    /\ inserts = 0
    /\ commits = 0
    /\ owed = {}

-----------------------------------------------------------------------------
(***************************************************************************)
(* SqliteSpoolStore::enqueue as a hook calls it, with the time its process *)
(* started: one transaction with the expiry of pending records, the insert *)
(* and the retention triggers, which fire only if a row was inserted.      *)
(***************************************************************************)
NewRow(p, now) ==
    [payload |-> p, inserted |-> now, status |-> "pending", token |-> NoToken, lease |-> 0]

\* Mutant of Enqueue: the triggers count no drop.
EnqueueUncounted(p, now) ==
    LET expired == Expired(rows, now)
        kept == rows \ expired
    IN  /\ p.key \notin Keys(kept)
        /\ \E dropped \in Excess(kept \cup {NewRow(p, now)}) :
              /\ rows' = (kept \cup {NewRow(p, now)}) \ dropped
              /\ metrics' = Counted(expired, {})
              /\ owed' = ((owed \ Keys(expired)) \cup {p.key}) \ Keys(dropped)
        /\ inserts' = inserts + 1

Enqueue(p, now) ==
    LET expired == Expired(rows, now)
        kept == rows \ expired
    IN  \/ /\ p.key \in Keys(kept)
           /\ rows' = kept
           /\ metrics' = Counted(expired, {})
           /\ owed' = owed \ Keys(expired)
           /\ UNCHANGED inserts
        \/ /\ p.key \notin Keys(kept)
           /\ \E dropped \in Excess(kept \cup {NewRow(p, now)}) :
                 /\ rows' = (kept \cup {NewRow(p, now)}) \ dropped
                 /\ metrics' = Counted(expired, dropped)
                 /\ owed' = ((owed \ Keys(expired)) \cup {p.key}) \ Keys(dropped)
           /\ inserts' = inserts + 1

HookEnqueue(p, now) ==
    /\ inserts < MaxInserts
    /\ now <= clock /\ clock <= now + MaxDelay
    /\ Enqueue(p, now)
    /\ UNCHANGED <<clock, drainer, commits>>

-----------------------------------------------------------------------------
(***************************************************************************)
(* claim_next reads the clock once and runs three steps with that time.    *)
(***************************************************************************)
\* Mutants of Lapsed: a desktop takes over every claim it finds; or none.
LapsedAtOnce(now) == {r \in rows : r.status = "claimed"}
LapsedNever(now) == {}

Lapsed(now) == {r \in rows : r.status = "claimed" /\ r.lease <= now}

\* recover_expired_inbound_spool_claims, also called when a desktop starts.
RecoverClaims(d) ==
    /\ drainer[d].at = "idle"
    /\ rows' = (rows \ Lapsed(clock)) \cup {Unclaimed(r) : r \in Lapsed(clock)}
    /\ drainer' = [drainer EXCEPT ![d] = Resting("recovered", clock)]
    /\ UNCHANGED <<metrics, clock, inserts, commits, owed>>

EnforceLimits(d) ==
    LET expired == Expired(rows, drainer[d].now) IN
    /\ drainer[d].at = "recovered"
    /\ \E dropped \in Excess(rows \ expired) :
          /\ rows' = rows \ (expired \cup dropped)
          /\ metrics' = Counted(expired, dropped)
          /\ owed' = owed \ Keys(expired \cup dropped)
    /\ drainer' = [drainer EXCEPT ![d].at = "enforced"]
    /\ UNCHANGED <<clock, inserts, commits>>

InUse == {r.token : r \in rows} \cup {drainer[d].token : d \in Drainer}

Claim(d) ==
    LET token == CHOOSE t \in Token : t \notin InUse IN
    /\ drainer[d].at = "enforced"
    /\ ~ Token \subseteq InUse
    /\ \E r \in Pending(rows) :
          /\ \A s \in Pending(rows) : ~ClaimedBefore(s, r)
          /\ rows' = (rows \ {r}) \cup {ClaimedFor(r, token, drainer[d].now + Lease)}
          /\ drainer' = [drainer EXCEPT ![d] =
                [at |-> IF r.payload.valid THEN "claimed" ELSE "malformed",
                 now |-> drainer[d].now, token |-> token, payload |-> r.payload]]
    /\ UNCHANGED <<metrics, clock, inserts, commits, owed>>

\* Nothing is pending: drain_sqlite_spool ends.
ClaimNothing(d) ==
    /\ drainer[d].at = "enforced"
    /\ Pending(rows) = {}
    /\ drainer' = [drainer EXCEPT ![d] = Resting("idle", 0)]
    /\ UNCHANGED <<rows, metrics, clock, inserts, commits, owed>>

\* A record that cannot be read is deleted if the claim still holds, counted
\* either way (bound: up to MaxInserts), and the loop claims the next one.
DropMalformed(d) ==
    /\ drainer[d].at = "malformed"
    /\ rows' = rows \ Held(d)
    /\ metrics' = [metrics EXCEPT !.malformed = IF @ < MaxInserts THEN @ + 1 ELSE @]
    /\ owed' = owed \ Keys(Held(d))
    /\ drainer' = [drainer EXCEPT ![d] = Resting("enforced", drainer[d].now)]
    /\ UNCHANGED <<clock, inserts, commits>>

-----------------------------------------------------------------------------
(***************************************************************************)
(* ingest_sqlite_spool_claim: the actor answers, then the claim is         *)
(* committed or released.                                                  *)
(***************************************************************************)
Ingest(d, accepted) ==
    /\ drainer[d].at = "claimed"
    /\ drainer' = [drainer EXCEPT ![d].at = IF accepted THEN "ingested" ELSE "refused"]
    /\ owed' = IF accepted THEN owed \ {drainer[d].payload.key} ELSE owed
    /\ UNCHANGED <<rows, metrics, clock, inserts, commits>>

\* commit deletes the row if the token still matches; otherwise it reports an
\* error and the drain ends.
Commit(d) ==
    /\ drainer[d].at = "ingested"
    /\ rows' = rows \ Held(d)
    /\ commits' = commits + Cardinality(Held(d))
    /\ drainer' = [drainer EXCEPT ![d] = Resting("idle", 0)]
    /\ UNCHANGED <<metrics, clock, inserts, owed>>

\* release, and Drop for a claim whose commit failed.
Release(d) ==
    /\ drainer[d].at \in {"refused", "ingested"}
    /\ rows' = (rows \ Held(d)) \cup {Unclaimed(r) : r \in Held(d)}
    /\ drainer' = [drainer EXCEPT ![d] = Resting("idle", 0)]
    /\ UNCHANGED <<metrics, clock, inserts, commits, owed>>

\* The database reports an error or the process dies: the table keeps what the
\* last transaction left, a claim included.
Abandon(d) ==
    /\ clock + Lease <= MaxClock
    /\ drainer[d].at # "idle"
    /\ drainer' = [drainer EXCEPT ![d] = Resting("idle", 0)]
    /\ UNCHANGED <<rows, metrics, clock, inserts, commits, owed>>

Tick ==
    /\ clock < MaxClock
    /\ clock' = clock + 1
    /\ UNCHANGED <<rows, metrics, drainer, inserts, commits, owed>>

DrainStep(d) ==
    \/ RecoverClaims(d)
    \/ EnforceLimits(d)
    \/ Claim(d)
    \/ ClaimNothing(d)
    \/ DropMalformed(d)
    \/ \E accepted \in BOOLEAN : Ingest(d, accepted)
    \/ Commit(d)
    \/ Release(d)

Next ==
    \/ \E p \in Payload, now \in 0..clock : HookEnqueue(p, now)
    \/ \E d \in Drainer : DrainStep(d) \/ Abandon(d)
    \/ Tick

Spec == Init /\ [][Next]_spoolVars

-----------------------------------------------------------------------------
(***************************************************************************)
(* What the spool promises.                                                *)
(***************************************************************************)
RestingState ==
    [at : {"idle", "recovered", "enforced"}, now : Nat, token : {NoToken}]
WorkingState ==
    [at : {"claimed", "malformed", "ingested", "refused"},
     now : Nat, token : Token, payload : Payload]

\* Every variable has its type; a row is claimed exactly if it has a token.
TypeOK ==
    /\ rows \in SUBSET Row
    /\ \A r \in rows : r.status = "claimed" <=> r.token # NoToken
    /\ metrics \in [expired : Nat, limit : Nat, malformed : Nat]
    /\ clock \in Nat /\ inserts \in Nat /\ commits \in Nat
    /\ drainer \in [Drainer -> RestingState \cup WorkingState]

\* "unique spool event identities" and "never allows pending data to grow without
\* a bound" (desktop-storage-isolation/spec.md:90 and 130): the triggers bound all
\* rows together, although they spare the claimed ones.
RowsBounded ==
    /\ \A r, s \in rows : r.payload.key = s.payload.key => r = s
    /\ Cardinality(rows) <= MaxCount

\* A record leaves the spool only after the reducer accepted it or retention
\* dropped and counted it: "removes them only after reducer acceptance"
\* (add-session-aware-desktop-pet/design.md:97), whoever claims it when.
NothingVanishes == owed \subseteq Keys(rows)

\* The bytes are bounded like the records: neither a row that fills them alone nor
\* claimed rows, which retention may not touch, lead beyond the limit.  And every
\* removal is a commit or counted as a drop, across both implementations of
\* retention, the triggers and enforce_limits.
SpoolAccounted ==
    /\ Bytes(rows) <= MaxBytes
    /\ inserts <= Cardinality(rows) + commits
                  + metrics.expired + metrics.limit + metrics.malformed

Working(d) == drainer[d].at \in {"claimed", "malformed", "ingested", "refused"}

\* "exactly one claim succeeds" (desktop-storage-isolation/spec.md:83-86): as long
\* as the claim of one desktop is within its lease nobody else works on its record.
ClaimIsExclusive ==
    \A d, e \in Drainer :
        /\ d # e /\ Working(d) /\ Working(e)
        /\ drainer[d].payload.key = drainer[e].payload.key
        => \E f \in {d, e} : drainer[f].now + Lease <= clock

\* "preserves claimed rows for lease recovery" (spec.md:130): a claimed row leaves
\* only through its own holder, and becomes pending again only through its holder
\* or at the end of its lease.
ClaimedIsKept ==
    [][\A r \in rows : r.status = "claimed" /\ r \notin rows' =>
          \/ \E d \in Drainer :
                Working(d) /\ r \in Held(d) /\ drainer'[d].at # drainer[d].at
          \/ Unclaimed(r) \in rows' /\ r.lease <= clock]_spoolVars

=============================================================================
