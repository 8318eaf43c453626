-------------------------- MODULE SqliteSpoolProofs --------------------------
(***************************************************************************)
(* Theorems about the spool, for every number of desktops, every set of    *)
(* payloads and every limit.                                               *)
(***************************************************************************)
EXTENDS SqliteSpool, FiniteSetTheorems, TLAPS

UniqueKeys(rs) == \A r, s \in rs : r.payload.key = s.payload.key => r = s

\* Nobody owes the event of a record that is only waiting to be deleted.
IngestedIsSettled ==
    \A d \in Drainer : drainer[d].at = "ingested" =>
        \A r \in Held(d) : r.payload.key \notin owed

TokensDiffer ==
    \A d, e \in Drainer :
        d # e /\ Working(d) /\ Working(e) => drainer[d].token # drainer[e].token

\* Within its lease a claim still has its row.
ClaimHolds ==
    \A d \in Drainer :
        Working(d) /\ clock < drainer[d].now + Lease =>
            \E r \in Held(d) : r.lease = drainer[d].now + Lease

\* The types and the bounds.
RowsInv == TypeOK /\ IsFiniteSet(rows) /\ RowsBounded

\* The claims and what is owed.
ClaimsInv == NothingVanishes /\ IngestedIsSettled /\ TokensDiffer /\ ClaimHolds

\* The inductive invariant.
SpoolInv == RowsInv /\ ClaimsInv

-----------------------------------------------------------------------------
\* The bytes of some records, which Bytes counts.
ByteSet(rs) == UNION {{r} \X (1 .. r.payload.size) : r \in rs}

LEMMA BytesAreFinite ==
    ASSUME NEW rs \in SUBSET Row, IsFiniteSet(rs)
    PROVE  IsFiniteSet(ByteSet(rs)) /\ Bytes(rs) \in Nat /\ Bytes(rs) = Cardinality(ByteSet(rs))
<1> DEFINE f == [r \in rs |-> {r} \X (1 .. r.payload.size)]
           blocks == {f[r] : r \in rs}
<1>1. f \in Surjection(rs, blocks)
  BY DEF Surjection
<1>2. IsFiniteSet(blocks)
  <2> HIDE DEF f, blocks
  <2> QED
    BY <1>1, FS_Surjection
<1>3. ASSUME NEW b \in blocks PROVE IsFiniteSet(b)
  <2>1. PICK r \in rs : b = {r} \X (1 .. r.payload.size)
    BY <1>3
  <2>2. r.payload.size \in Int /\ 1 \in Int
    BY SpoolAssumption DEF Row
  <2>3. IsFiniteSet({r})
    BY FS_Singleton
  <2>4. IsFiniteSet(1 .. r.payload.size)
    BY ONLY <2>2, FS_Interval
  <2> QED
    BY <2>1, <2>3, <2>4, FS_Product
<1>4. ByteSet(rs) = UNION blocks
  BY DEF ByteSet
<1>5. IsFiniteSet(ByteSet(rs))
  <2> HIDE DEF blocks
  <2> QED
    BY <1>2, <1>3, <1>4, FS_UNION
<1>6. QED
  BY <1>5, FS_CardinalityType DEF Bytes, ByteSet

\* Fewer records are no more bytes.
LEMMA BytesShrink ==
    ASSUME NEW rs \in SUBSET Row, IsFiniteSet(rs), NEW xs \in SUBSET rs
    PROVE  Bytes(xs) \in Nat /\ Bytes(xs) <= Bytes(rs)
<1>1. IsFiniteSet(xs) /\ xs \in SUBSET Row
  BY FS_Subset
<1>2. ByteSet(xs) \subseteq ByteSet(rs)
  BY DEF ByteSet
<1>3. QED
  BY <1>1, <1>2, BytesAreFinite, FS_Subset

\* A table whose rows are rewritten under their payloads keeps its size, bytes and keys.
LEMMA Rewritten ==
    ASSUME NEW rs \in SUBSET Row, IsFiniteSet(rs), UniqueKeys(rs),
           NEW f \in [rs -> Row], \A r \in rs : f[r].payload = r.payload
    PROVE  LET new == {f[r] : r \in rs}
           IN  /\ new \in SUBSET Row
               /\ IsFiniteSet(new)
               /\ Cardinality(new) = Cardinality(rs)
               /\ Bytes(new) <= Bytes(rs)
               /\ Keys(new) = Keys(rs)
               /\ UniqueKeys(new)
<1> DEFINE new == {f[r] : r \in rs}
<1>1. f \in Surjection(rs, new) /\ f \in Injection(rs, new)
  <2>1. f \in Surjection(rs, new)
    BY DEF Surjection
  <2>2. \A r, s \in rs : f[r] = f[s] => r = s
    BY DEF UniqueKeys
  <2> QED
    BY <2>1, <2>2 DEF Surjection, Injection, IsInjective
<1>2. IsFiniteSet(new) /\ Cardinality(new) = Cardinality(rs)
  <2> HIDE DEF new
  <2> QED
    BY <1>1, FS_Surjection
<1>3. Keys(new) = Keys(rs)
  BY DEF Keys
<1>4. UniqueKeys(new)
  BY DEF UniqueKeys
<1>5. Bytes(new) <= Bytes(rs)
  <2> DEFINE g == [b \in ByteSet(rs) |-> <<f[b[1]], b[2]>>]
  <2>1. ASSUME NEW b \in ByteSet(rs) PROVE g[b] \in ByteSet(new)
    <3>1. PICK r \in rs, i \in Nat : i \in 1 .. r.payload.size /\ b = <<r, i>>
      BY DEF ByteSet
    <3>2. g[b] = <<f[r], i>>
      BY <3>1
    <3>3. i \in 1 .. f[r].payload.size /\ f[r] \in new
      BY <3>1
    <3> HIDE DEF new, g
    <3> QED
      BY <3>2, <3>3 DEF ByteSet
  <2>2. ASSUME NEW c \in ByteSet(new) PROVE \E b \in ByteSet(rs) : g[b] = c
    <3>1. PICK s \in new, i \in Nat : i \in 1 .. s.payload.size /\ c = <<s, i>>
      BY DEF ByteSet
    <3>2. PICK r \in rs : s = f[r]
      OBVIOUS
    <3>3. i \in 1 .. r.payload.size
      BY <3>1, <3>2
    <3>4. <<r, i>> \in ByteSet(rs)
      BY <3>3 DEF ByteSet
    <3>5. g[<<r, i>>] = c
      BY <3>1, <3>2, <3>4
    <3> QED
      BY <3>4, <3>5
  <2>3. g \in Surjection(ByteSet(rs), ByteSet(new))
    BY <2>1, <2>2 DEF Surjection
  <2>4. Cardinality(ByteSet(new)) <= Cardinality(ByteSet(rs))
    <3> HIDE DEF g, new
    <3> QED
      BY <2>3, BytesAreFinite, FS_Surjection
  <2> HIDE DEF g, new
  <2> QED
    BY <2>4 DEF Bytes, ByteSet
<1>6. QED
  BY <1>2, <1>3, <1>4, <1>5

\* What retention drops was pending, and it ends within the limits or with no
\* pending record.
LEMMA ExcessIsPending ==
    ASSUME NEW rs, NEW dropped \in Excess(rs)
    PROVE  /\ dropped \subseteq Pending(rs)
           /\ Fits(rs \ dropped) \/ dropped = Pending(rs)
BY DEF Excess

\* Releasing some claims rewrites the table.
LEMMA Released ==
    ASSUME RowsInv, NEW xs \in SUBSET rows
    PROVE  LET new == (rows \ xs) \cup {Unclaimed(r) : r \in xs}
           IN  /\ new \in SUBSET Row
               /\ \A r \in new : r.status = "claimed" <=> r.token # NoToken
               /\ IsFiniteSet(new)
               /\ Cardinality(new) <= MaxCount
               /\ Cardinality(new) = Cardinality(rows) /\ Bytes(new) <= Bytes(rows)
               /\ Keys(new) = Keys(rows)
               /\ UniqueKeys(new)
<1> DEFINE new == (rows \ xs) \cup {Unclaimed(r) : r \in xs}
           f == [r \in rows |-> IF r \in xs THEN Unclaimed(r) ELSE r]
<1>1. rows \in SUBSET Row /\ IsFiniteSet(rows) /\ UniqueKeys(rows)
      /\ Cardinality(rows) <= MaxCount
  BY DEF RowsInv, TypeOK, RowsBounded, UniqueKeys
<1>2. ASSUME NEW r \in rows
      PROVE  /\ Unclaimed(r) \in Row
             /\ Unclaimed(r).payload = r.payload
             /\ Unclaimed(r).status = "pending" /\ Unclaimed(r).token = NoToken
  BY <1>1 DEF Row, Unclaimed
<1>3. f \in [rows -> Row] /\ \A r \in rows : f[r].payload = r.payload
  BY <1>1, <1>2
<1>4. new = {f[r] : r \in rows}
  OBVIOUS
<1>5. /\ new \in SUBSET Row
      /\ IsFiniteSet(new)
      /\ Cardinality(new) = Cardinality(rows) /\ Bytes(new) <= Bytes(rows)
      /\ Keys(new) = Keys(rows)
      /\ UniqueKeys(new)
  <2> HIDE DEF f, new
  <2> QED
    BY <1>1, <1>3, <1>4, Rewritten
<1>6. \A r \in new : r.status = "claimed" <=> r.token # NoToken
  BY <1>2 DEF RowsInv, TypeOK
<1>7. Cardinality(new) <= MaxCount
  <2>1. Cardinality(new) \in Nat /\ Cardinality(rows) \in Nat
    <3> HIDE DEF f, new
    <3> QED
      BY <1>1, <1>5, FS_CardinalityType
  <2> QED
    BY <1>1, <1>5, <2>1, SpoolAssumption
<1>8. QED
  BY <1>5, <1>6, <1>7

\* Rows only go.
LEMMA Removed ==
    ASSUME RowsInv, NEW new \in SUBSET rows
    PROVE  /\ new \in SUBSET Row
           /\ \A r \in new : r.status = "claimed" <=> r.token # NoToken
           /\ IsFiniteSet(new)
           /\ Cardinality(new) <= MaxCount
           /\ UniqueKeys(new)
<1>1. rows \in SUBSET Row /\ IsFiniteSet(rows) /\ Cardinality(rows) <= MaxCount
  BY DEF RowsInv, TypeOK, RowsBounded
<1>2. IsFiniteSet(new) /\ Cardinality(new) <= Cardinality(rows)
  BY <1>1, FS_Subset
<1>3. Cardinality(new) \in Nat /\ Cardinality(rows) \in Nat
  BY <1>1, <1>2, FS_CardinalityType
<1>4. Cardinality(new) <= MaxCount
  BY <1>1, <1>2, <1>3, SpoolAssumption
<1>5. QED
  BY <1>1, <1>2, <1>4 DEF RowsInv, TypeOK, RowsBounded, UniqueKeys

\* One row is added under a new key, and retention runs.
LEMMA Inserted ==
    ASSUME RowsInv, NEW p \in Payload, NEW t \in Nat,
           NEW kept \in SUBSET rows, p.key \notin Keys(kept),
           NEW dropped \in Excess(kept \cup {NewRow(p, t)})
    PROVE  LET new == (kept \cup {NewRow(p, t)}) \ dropped
           IN  /\ new \in SUBSET Row
               /\ \A r \in new : r.status = "claimed" <=> r.token # NoToken
               /\ IsFiniteSet(new)
               /\ Cardinality(new) <= MaxCount
               /\ UniqueKeys(new)
<1> DEFINE full == kept \cup {NewRow(p, t)}
           new == full \ dropped
<1>1. rows \in SUBSET Row /\ IsFiniteSet(rows) /\ UniqueKeys(rows)
  BY DEF RowsInv, TypeOK, RowsBounded, UniqueKeys
<1>2. /\ NewRow(p, t) \in Row
      /\ NewRow(p, t).payload = p
      /\ NewRow(p, t).status = "pending" /\ NewRow(p, t).token = NoToken
  BY DEF Row, NewRow
<1>3. IsFiniteSet(full)
  BY <1>1, FS_Subset, FS_AddElement
<1>4. new \in SUBSET Row /\ IsFiniteSet(new)
  BY <1>1, <1>2, <1>3, FS_Subset
<1>5. UniqueKeys(new)
  <2>1. \A r \in kept : r.payload.key # NewRow(p, t).payload.key
    BY <1>2 DEF Keys
  <2>2. UniqueKeys(full)
    BY <1>1, <2>1 DEF UniqueKeys
  <2> QED
    BY <2>2 DEF UniqueKeys
<1>6. Cardinality(new) <= MaxCount
  <2>1. CASE Fits(full \ dropped)
    BY <2>1 DEF Fits
  <2>2. CASE dropped = Pending(full)
    <3>1. new \subseteq rows
      BY <1>2, <2>2 DEF Pending
    <3> QED
      BY <3>1, Removed
  <2> QED
    BY <2>1, <2>2, ExcessIsPending
<1>7. \A r \in new : r.status = "claimed" <=> r.token # NoToken
  BY <1>2 DEF RowsInv, TypeOK
<1>8. QED
  BY <1>4, <1>5, <1>6, <1>7

\* A finite number of dropped rows is counted.
LEMMA CountedType ==
    ASSUME TypeOK, NEW expired, NEW limit, IsFiniteSet(expired), IsFiniteSet(limit)
    PROVE  Counted(expired, limit) \in [expired : Nat, limit : Nat, malformed : Nat]
<1>1. Cardinality(expired) \in Nat /\ Cardinality(limit) \in Nat
  BY FS_CardinalityType
<1>2. metrics.expired \in Nat /\ metrics.limit \in Nat /\ metrics.malformed \in Nat
  BY DEF TypeOK
<1>3. /\ metrics.expired + Cardinality(expired) \in Nat
      /\ metrics.limit + Cardinality(limit) \in Nat
  BY <1>1, <1>2
<1>4. QED
  BY <1>2, <1>3 DEF Counted

LEMMA EnqueueKeepsRows ==
    ASSUME RowsInv, NEW p \in Payload, NEW t \in Nat, Enqueue(p, t)
    PROVE  /\ rows' \in SUBSET Row
           /\ \A r \in rows' : r.status = "claimed" <=> r.token # NoToken
           /\ IsFiniteSet(rows')
           /\ Cardinality(rows') <= MaxCount
           /\ UniqueKeys(rows')
           /\ metrics' \in [expired : Nat, limit : Nat, malformed : Nat]
           /\ inserts' \in Nat
<1> DEFINE kept == rows \ Expired(rows, t)
<1>1. IsFiniteSet(rows) /\ TypeOK
  BY DEF RowsInv
<1>2. IsFiniteSet(Expired(rows, t)) /\ IsFiniteSet(kept)
  BY <1>1, FS_Subset DEF Expired, Pending
<1>3. CASE p.key \in Keys(kept) /\ rows' = kept /\ metrics' = Counted(Expired(rows, t), {})
           /\ inserts' = inserts
  <2>1. metrics' \in [expired : Nat, limit : Nat, malformed : Nat]
    BY <1>1, <1>2, <1>3, CountedType, FS_EmptySet
  <2> QED
    BY <1>1, <1>3, <2>1, Removed DEF TypeOK
<1>4. CASE /\ p.key \notin Keys(kept)
           /\ inserts' = inserts + 1
           /\ \E dropped \in Excess(kept \cup {NewRow(p, t)}) :
                 /\ rows' = (kept \cup {NewRow(p, t)}) \ dropped
                 /\ metrics' = Counted(Expired(rows, t), dropped)
  <2>1. PICK dropped \in Excess(kept \cup {NewRow(p, t)}) :
                 /\ rows' = (kept \cup {NewRow(p, t)}) \ dropped
                 /\ metrics' = Counted(Expired(rows, t), dropped)
    BY <1>4
  <2>2. dropped \subseteq kept \cup {NewRow(p, t)}
    BY ExcessIsPending DEF Pending
  <2>3. IsFiniteSet(kept \cup {NewRow(p, t)})
    BY <1>2, FS_AddElement
  <2>4. IsFiniteSet(dropped)
    BY <2>2, <2>3, FS_Subset
  <2>5. metrics' \in [expired : Nat, limit : Nat, malformed : Nat]
    BY <1>1, <1>2, <2>1, <2>4, CountedType
  <2>6. inserts' \in Nat
    BY <1>1, <1>4 DEF TypeOK
  <2>7. kept \in SUBSET rows /\ p.key \notin Keys(kept)
    BY <1>4
  <2> QED
    BY <2>1, <2>5, <2>6, <2>7, Inserted
<1>5. QED
  BY <1>3, <1>4 DEF Enqueue

-----------------------------------------------------------------------------
\* What a desktop can be doing.
LEMMA DrainerStates ==
    ASSUME TypeOK, NEW d \in Drainer
    PROVE  /\ drainer[d].now \in Nat
           /\ drainer[d].token \in Token \cup {NoToken}
           /\ drainer[d].at \in {"idle", "recovered", "enforced"}
                 => drainer[d] \in RestingState
           /\ Working(d) <=> drainer[d] \in WorkingState
           /\ Working(d) => drainer[d].token \in Token /\ drainer[d].payload \in Payload
<1>1. drainer[d] \in RestingState \cup WorkingState
  BY DEF TypeOK
<1>2. QED
  BY <1>1 DEF RestingState, WorkingState, Working

\* Every action moves at most one desktop.
LEMMA DrainerMoves ==
    ASSUME TypeOK, NEW d \in Drainer, NEW state \in RestingState \cup WorkingState,
           drainer' = [drainer EXCEPT ![d] = state]
    PROVE  /\ drainer' \in [Drainer -> RestingState \cup WorkingState]
           /\ drainer'[d] = state
           /\ \A e \in Drainer : e # d => drainer'[e] = drainer[e]
BY DEF TypeOK

LEMMA Rests ==
    ASSUME NEW at \in {"idle", "recovered", "enforced"}, NEW t \in Nat
    PROVE  Resting(at, t) \in RestingState /\ Resting(at, t).at = at
BY DEF Resting, RestingState

\* Held rows are rows.
LEMMA HeldRows ==
    ASSUME RowsInv, NEW d \in Drainer
    PROVE  Held(d) \in SUBSET rows /\ IsFiniteSet(Held(d)) /\ Cardinality(Held(d)) \in Nat
<1>1. Held(d) \in SUBSET rows
  BY DEF Held
<1>2. IsFiniteSet(Held(d))
  BY <1>1, FS_Subset DEF RowsInv
<1>3. QED
  BY <1>1, <1>2, FS_CardinalityType

\* The token a claim takes is new.
LEMMA FreshToken ==
    ASSUME ~ Token \subseteq InUse
    PROVE  LET token == CHOOSE t \in Token : t \notin InUse
           IN  token \in Token /\ token \notin InUse
OBVIOUS

\* A claim changes one row for one: as many as before, and not a byte more.
LEMMA ClaimCounts ==
    ASSUME RowsInv, NEW r \in Pending(rows), NEW token \in Token, NEW t \in Nat
    PROVE  LET new == (rows \ {r}) \cup {ClaimedFor(r, token, t)}
           IN  Cardinality(new) = Cardinality(rows) /\ Bytes(new) <= Bytes(rows)
<1> DEFINE claimed == ClaimedFor(r, token, t)
           f == [s \in rows |-> IF s = r THEN claimed ELSE s]
<1>1. rows \in SUBSET Row /\ IsFiniteSet(rows) /\ UniqueKeys(rows)
  BY DEF RowsInv, TypeOK, RowsBounded, UniqueKeys
<1>2. r \in rows /\ r \in Row
  BY <1>1 DEF Pending
<1>3. claimed \in Row /\ claimed.payload = r.payload
  BY <1>2 DEF Row, ClaimedFor
<1>4. f \in [rows -> Row] /\ \A s \in rows : f[s].payload = s.payload
  BY <1>1, <1>3
<1>5. (rows \ {r}) \cup {claimed} = {f[s] : s \in rows}
  BY <1>2
<1> HIDE DEF f
<1>6. /\ Cardinality({f[s] : s \in rows}) = Cardinality(rows)
      /\ Bytes({f[s] : s \in rows}) <= Bytes(rows)
  BY <1>1, <1>4, Rewritten
<1> QED
  BY <1>5, <1>6

\* A claim rewrites one row.
LEMMA ClaimKeepsRows ==
    ASSUME RowsInv, NEW r \in Pending(rows), NEW token \in Token, NEW t \in Nat
    PROVE  LET claimed == ClaimedFor(r, token, t)
               new == (rows \ {r}) \cup {claimed}
           IN  /\ new \in SUBSET Row
               /\ \A s \in new : s.status = "claimed" <=> s.token # NoToken
               /\ IsFiniteSet(new)
               /\ Cardinality(new) <= MaxCount
               /\ Keys(new) = Keys(rows)
               /\ UniqueKeys(new)
               /\ claimed.payload = r.payload /\ claimed.status = "claimed"
               /\ claimed.token = token /\ claimed.lease = t
<1> DEFINE claimed == ClaimedFor(r, token, t)
           new == (rows \ {r}) \cup {claimed}
           f == [s \in rows |-> IF s = r THEN claimed ELSE s]
<1>1. rows \in SUBSET Row /\ IsFiniteSet(rows) /\ UniqueKeys(rows)
      /\ Cardinality(rows) <= MaxCount
  BY DEF RowsInv, TypeOK, RowsBounded, UniqueKeys
<1>2. r \in rows /\ r \in Row
  BY <1>1 DEF Pending
<1>3. r = [payload |-> r.payload, inserted |-> r.inserted, status |-> r.status,
           token |-> r.token, lease |-> r.lease]
  BY <1>2 DEF Row
<1>4. claimed \in Row
  BY <1>2 DEF Row, ClaimedFor
<1>5. claimed.payload = r.payload /\ claimed.status = "claimed"
      /\ claimed.token = token /\ claimed.lease = t
  BY <1>2, <1>3 DEF Row, ClaimedFor
<1>6. f \in [rows -> Row] /\ \A s \in rows : f[s].payload = s.payload
  BY <1>1, <1>4, <1>5
<1>7. new = {f[s] : s \in rows}
  BY <1>2
<1>8. /\ new \in SUBSET Row
      /\ IsFiniteSet(new)
      /\ Cardinality(new) = Cardinality(rows) /\ Bytes(new) <= Bytes(rows)
      /\ Keys(new) = Keys(rows)
      /\ UniqueKeys(new)
  <2> HIDE DEF f, new
  <2> QED
    BY <1>1, <1>6, <1>7, Rewritten
<1>9. Cardinality(new) <= MaxCount
  <2>1. Cardinality(new) \in Nat /\ Cardinality(rows) \in Nat
    <3> HIDE DEF f, new
    <3> QED
      BY <1>1, <1>8, FS_CardinalityType
  <2> QED
    BY <1>1, <1>8, <2>1, SpoolAssumption
<1>10. \A s \in new : s.status = "claimed" <=> s.token # NoToken
  <2>1. token # NoToken
    BY SpoolAssumption
  <2> QED
    BY <1>5, <2>1 DEF RowsInv, TypeOK
<1>11. QED
  BY <1>5, <1>8, <1>9, <1>10

-----------------------------------------------------------------------------
(***************************************************************************)
(* The types and the bounds.                                               *)
(***************************************************************************)
RowsGood(rs) ==
    /\ rs \in SUBSET Row
    /\ \A r \in rs : r.status = "claimed" <=> r.token # NoToken
    /\ IsFiniteSet(rs)
    /\ Cardinality(rs) <= MaxCount
    /\ UniqueKeys(rs)

\* RowsInv of the next state, from its parts.
LEMMA RowsInvNext ==
    ASSUME RowsGood(rows'),
           metrics' \in [expired : Nat, limit : Nat, malformed : Nat],
           clock' \in Nat, inserts' \in Nat, commits' \in Nat,
           drainer' \in [Drainer -> RestingState \cup WorkingState]
    PROVE  RowsInv'
BY DEF RowsInv, RowsGood, TypeOK, RowsBounded, UniqueKeys

LEMMA RowsStart ==
    Init => RowsInv
<1> SUFFICES ASSUME Init PROVE RowsInv
  OBVIOUS
<1>1. IsFiniteSet(rows) /\ Cardinality(rows) = 0
  BY FS_EmptySet DEF Init
<1>2. RowsBounded
  BY <1>1, SpoolAssumption DEF Init, RowsBounded
<1>3. drainer \in [Drainer -> RestingState \cup WorkingState]
  BY DEF Init, Resting, RestingState
<1>4. metrics \in [expired : Nat, limit : Nat, malformed : Nat]
  BY DEF Init
<1>5. QED
  BY <1>1, <1>2, <1>3, <1>4 DEF Init, RowsInv, TypeOK

LEMMA RowsStep ==
    RowsInv /\ [Next]_spoolVars => RowsInv'
<1> SUFFICES ASSUME RowsInv, [Next]_spoolVars PROVE RowsInv'
  OBVIOUS
<1>1. TypeOK /\ IsFiniteSet(rows) /\ RowsGood(rows)
  BY DEF RowsInv, TypeOK, RowsBounded, RowsGood, UniqueKeys
<1>2. /\ metrics \in [expired : Nat, limit : Nat, malformed : Nat]
      /\ clock \in Nat /\ inserts \in Nat /\ commits \in Nat
      /\ drainer \in [Drainer -> RestingState \cup WorkingState]
  BY <1>1 DEF TypeOK
<1>3. ASSUME NEW new \in SUBSET rows PROVE RowsGood(new)
  BY Removed DEF RowsGood
<1>4. ASSUME NEW xs \in SUBSET rows
      PROVE  RowsGood((rows \ xs) \cup {Unclaimed(r) : r \in xs})
  BY Released DEF RowsGood
<1>5. ASSUME NEW p \in Payload, NEW now \in 0..clock, HookEnqueue(p, now) PROVE RowsInv'
  <2>1. now \in Nat
    BY <1>2
  <2>2. RowsGood(rows') /\ inserts' \in Nat
        /\ metrics' \in [expired : Nat, limit : Nat, malformed : Nat]
    BY <1>5, <2>1, EnqueueKeepsRows DEF HookEnqueue, RowsGood
  <2> QED
    BY <1>2, <1>5, <2>2, RowsInvNext DEF HookEnqueue
<1>6. ASSUME NEW d \in Drainer, RecoverClaims(d) PROVE RowsInv'
  <2>1. RowsGood(rows')
    BY <1>4, <1>6 DEF RecoverClaims, Lapsed
  <2>2. drainer' \in [Drainer -> RestingState \cup WorkingState]
    BY <1>1, <1>2, <1>6, Rests, DrainerMoves DEF RecoverClaims
  <2> QED
    BY <1>2, <1>6, <2>1, <2>2, RowsInvNext DEF RecoverClaims
<1>7. ASSUME NEW d \in Drainer, EnforceLimits(d) PROVE RowsInv'
  <2> DEFINE expired == Expired(rows, drainer[d].now)
  <2>1. PICK dropped \in Excess(rows \ expired) :
              /\ rows' = rows \ (expired \cup dropped)
              /\ metrics' = Counted(expired, dropped)
    BY <1>7 DEF EnforceLimits
  <2>2. expired \in SUBSET rows /\ dropped \in SUBSET rows
    <3>1. expired \in SUBSET rows
      BY DEF Expired, Pending
    <3>2. dropped \subseteq Pending(rows \ expired)
      <4> HIDE DEF expired
      <4> QED
        BY <2>1, ExcessIsPending
    <3> QED
      BY <3>1, <3>2 DEF Pending
  <2>3. RowsGood(rows')
    BY <1>3, <2>1, <2>2
  <2>4. IsFiniteSet(expired) /\ IsFiniteSet(dropped)
    BY <1>1, <2>2, FS_Subset
  <2>5. metrics' \in [expired : Nat, limit : Nat, malformed : Nat]
    BY <1>1, <2>1, <2>4, CountedType
  <2>6. drainer' \in [Drainer -> RestingState \cup WorkingState]
    <3>1. drainer[d].at = "recovered" /\ drainer[d] \in RestingState
      BY <1>1, <1>7, DrainerStates DEF EnforceLimits
    <3>2. [drainer[d] EXCEPT !.at = "enforced"] \in RestingState
      BY <3>1 DEF RestingState
    <3> QED
      BY <1>2, <1>7, <3>2 DEF EnforceLimits
  <2> QED
    BY <1>2, <1>7, <2>3, <2>5, <2>6, RowsInvNext DEF EnforceLimits
<1>8. ASSUME NEW d \in Drainer, Claim(d) PROVE RowsInv'
  <2> DEFINE token == CHOOSE t \in Token : t \notin InUse
  <2>1. token \in Token /\ drainer[d].now \in Nat /\ drainer[d].now + Lease \in Nat
    <3>1. drainer[d].now \in Nat
      BY <1>1, DrainerStates
    <3>2. token \in Token
      <4>1. ~ Token \subseteq InUse
        BY <1>8 DEF Claim
      <4> QED
        BY <4>1, FreshToken
    <3> HIDE DEF token
    <3> QED
      BY <3>1, <3>2, SpoolAssumption
  <2>2. PICK r \in Pending(rows) :
          /\ rows' = (rows \ {r}) \cup {ClaimedFor(r, token, drainer[d].now + Lease)}
          /\ drainer' = [drainer EXCEPT ![d] =
                [at |-> IF r.payload.valid THEN "claimed" ELSE "malformed",
                 now |-> drainer[d].now, token |-> token, payload |-> r.payload]]
    BY <1>8 DEF Claim
  <2>3. RowsGood(rows')
    <3> DEFINE lease == drainer[d].now + Lease
    <3>1. /\ token \in Token /\ lease \in Nat
          /\ rows' = (rows \ {r}) \cup {ClaimedFor(r, token, lease)}
      BY <2>1, <2>2
    <3> HIDE DEF token, lease
    <3> QED
      BY <3>1, ClaimKeepsRows DEF RowsGood
  <2>4. r.payload \in Payload
    BY <1>1 DEF RowsGood, Row, Pending
  <2>5. drainer' \in [Drainer -> RestingState \cup WorkingState]
    <3> HIDE DEF token
    <3>1. [at |-> IF r.payload.valid THEN "claimed" ELSE "malformed",
           now |-> drainer[d].now, token |-> token, payload |-> r.payload] \in WorkingState
      BY <2>1, <2>4 DEF WorkingState
    <3> QED
      BY <1>2, <2>2, <3>1
  <2> QED
    BY <1>2, <1>8, <2>3, <2>5, RowsInvNext DEF Claim
<1>9. ASSUME NEW d \in Drainer, ClaimNothing(d) PROVE RowsInv'
  <2>1. drainer' \in [Drainer -> RestingState \cup WorkingState]
    BY <1>1, <1>9, Rests, DrainerMoves DEF ClaimNothing
  <2> QED
    BY <1>1, <1>2, <1>9, <2>1, RowsInvNext DEF ClaimNothing
<1>10. ASSUME NEW d \in Drainer, DropMalformed(d) PROVE RowsInv'
  <2>1. RowsGood(rows')
    BY <1>3, <1>10 DEF DropMalformed
  <2>2. metrics' \in [expired : Nat, limit : Nat, malformed : Nat]
    BY <1>2, <1>10 DEF DropMalformed
  <2>3. drainer' \in [Drainer -> RestingState \cup WorkingState]
    BY <1>1, <1>10, DrainerStates, Rests, DrainerMoves DEF DropMalformed
  <2> QED
    BY <1>2, <1>10, <2>1, <2>2, <2>3, RowsInvNext DEF DropMalformed
<1>11. ASSUME NEW d \in Drainer, NEW accepted \in BOOLEAN, Ingest(d, accepted) PROVE RowsInv'
  <2>1. drainer[d] \in WorkingState
    BY <1>1, <1>11, DrainerStates DEF Ingest, Working
  <2>2. [drainer[d] EXCEPT !.at = IF accepted THEN "ingested" ELSE "refused"] \in WorkingState
    BY <2>1 DEF WorkingState
  <2>3. drainer' \in [Drainer -> RestingState \cup WorkingState]
    BY <1>2, <1>11, <2>2 DEF Ingest
  <2> QED
    BY <1>1, <1>2, <1>11, <2>3, RowsInvNext DEF Ingest
<1>12. ASSUME NEW d \in Drainer, Commit(d) PROVE RowsInv'
  <2>1. RowsGood(rows')
    BY <1>3, <1>12 DEF Commit
  <2>2. commits' \in Nat
    BY <1>2, <1>12, HeldRows DEF Commit
  <2>3. drainer' \in [Drainer -> RestingState \cup WorkingState]
    BY <1>1, <1>12, Rests, DrainerMoves DEF Commit
  <2> QED
    BY <1>2, <1>12, <2>1, <2>2, <2>3, RowsInvNext DEF Commit
<1>13. ASSUME NEW d \in Drainer, Release(d) PROVE RowsInv'
  <2>1. RowsGood(rows')
    BY <1>4, <1>13, HeldRows DEF Release
  <2>2. drainer' \in [Drainer -> RestingState \cup WorkingState]
    BY <1>1, <1>13, Rests, DrainerMoves DEF Release
  <2> QED
    BY <1>2, <1>13, <2>1, <2>2, RowsInvNext DEF Release
<1>14. ASSUME NEW d \in Drainer, Abandon(d) PROVE RowsInv'
  <2>1. drainer' \in [Drainer -> RestingState \cup WorkingState]
    BY <1>1, <1>14, Rests, DrainerMoves DEF Abandon
  <2> QED
    BY <1>1, <1>2, <1>14, <2>1, RowsInvNext DEF Abandon
<1>15. ASSUME Tick PROVE RowsInv'
  BY <1>1, <1>2, <1>15, RowsInvNext DEF Tick
<1>16. ASSUME UNCHANGED spoolVars PROVE RowsInv'
  BY <1>1, <1>2, <1>16, RowsInvNext DEF spoolVars
<1>17. QED
  BY <1>5, <1>6, <1>7, <1>8, <1>9, <1>10, <1>11, <1>12, <1>13, <1>14, <1>15, <1>16
     DEF Next, DrainStep

\* The variables keep their types.
THEOREM SpoolTypeCorrect == Spec => []TypeOK
<1>1. RowsInv => TypeOK
  BY DEF RowsInv
<1>2. QED
  BY <1>1, RowsStart, RowsStep, PTL DEF Spec

\* However hooks and desktops interleave, the table never holds an identity twice
\* or more than MaxCount records, claimed ones included.
THEOREM RowsAreBounded == Spec => []RowsBounded
<1>1. RowsInv => RowsBounded
  BY DEF RowsInv
<1>2. QED
  BY <1>1, RowsStart, RowsStep, PTL DEF Spec

-----------------------------------------------------------------------------
(***************************************************************************)
(* The bytes, and where every record that was inserted has gone.           *)
(***************************************************************************)
AccountInv == SpoolAccounted /\ inserts <= MaxInserts

\* What a step does to the account: rows leave the table as commits or as counted
\* drops, at most as many as are counted.
LEMMA AccountFrame ==
    ASSUME RowsInv, RowsInv', AccountInv, Bytes(rows') <= MaxBytes, inserts' <= MaxInserts,
           \/ inserts' <= metrics'.malformed
           \/ inserts' - inserts <=
                 (Cardinality(rows') + commits' + metrics'.expired + metrics'.limit
                    + metrics'.malformed)
                 - (Cardinality(rows) + commits + metrics.expired + metrics.limit
                      + metrics.malformed)
    PROVE  AccountInv'
<1>1. /\ Cardinality(rows) \in Nat /\ Cardinality(rows') \in Nat
      /\ Cardinality(rows)' = Cardinality(rows') /\ Bytes(rows)' = Bytes(rows')
  BY FS_CardinalityType DEF RowsInv, Bytes
<1>2. /\ metrics \in [expired : Nat, limit : Nat, malformed : Nat]
      /\ metrics' \in [expired : Nat, limit : Nat, malformed : Nat]
      /\ commits \in Nat /\ commits' \in Nat /\ inserts \in Nat /\ inserts' \in Nat
  BY DEF RowsInv, TypeOK
<1>3. QED
  BY <1>1, <1>2 DEF AccountInv, SpoolAccounted

\* The counters of a transaction that expired some rows and dropped others.
LEMMA CountedFields ==
    ASSUME NEW expired, NEW limit, metrics' = Counted(expired, limit)
    PROVE  /\ metrics'.expired = metrics.expired + Cardinality(expired)
           /\ metrics'.limit = metrics.limit + Cardinality(limit)
           /\ metrics'.malformed = metrics.malformed
BY DEF Counted

\* Rows that go one after the other are as many as they are.
LEMMA DifferenceIsCounted ==
    ASSUME NEW rs, IsFiniteSet(rs), NEW xs \in SUBSET rs
    PROVE  /\ IsFiniteSet(rs \ xs)
           /\ Cardinality(rs) \in Nat /\ Cardinality(xs) \in Nat /\ Cardinality(rs \ xs) \in Nat
           /\ Cardinality(rs \ xs) = Cardinality(rs) - Cardinality(xs)
<1>1. IsFiniteSet(xs) /\ rs \cap xs = xs
  BY FS_Subset
<1>2. IsFiniteSet(rs \ xs) /\ Cardinality(rs \ xs) = Cardinality(rs) - Cardinality(rs \cap xs)
  BY FS_Difference
<1>3. QED
  BY <1>1, <1>2, FS_CardinalityType

LEMMA EnqueueIsAccounted ==
    ASSUME RowsInv, RowsInv', AccountInv, NEW p \in Payload, NEW t \in Nat, Enqueue(p, t),
           inserts < MaxInserts, commits' = commits
    PROVE  AccountInv'
<1> DEFINE expired == Expired(rows, t)
           kept == rows \ expired
           full == kept \cup {NewRow(p, t)}
<1>1. TypeOK /\ IsFiniteSet(rows) /\ rows \in SUBSET Row
      /\ inserts \in Nat /\ MaxInserts \in Nat /\ Bytes(rows) <= MaxBytes /\ commits \in Nat
      /\ metrics.expired \in Nat /\ metrics.limit \in Nat /\ metrics.malformed \in Nat
  BY SpoolAssumption DEF RowsInv, TypeOK, AccountInv, SpoolAccounted
<1>2. expired \in SUBSET rows /\ kept \in SUBSET rows
  BY DEF Expired, Pending
<1> HIDE DEF expired
<1>3. /\ IsFiniteSet(kept) /\ Cardinality(rows) \in Nat /\ Cardinality(expired) \in Nat
      /\ Cardinality(kept) \in Nat
      /\ Cardinality(kept) = Cardinality(rows) - Cardinality(expired)
  BY <1>1, <1>2, DifferenceIsCounted
<1>4. Bytes(kept) \in Nat /\ Bytes(kept) <= Bytes(rows) /\ Bytes(rows) \in Nat /\ MaxBytes \in Nat
  BY <1>1, <1>2, BytesShrink, BytesAreFinite, SpoolAssumption
<1>5. CASE rows' = kept /\ metrics' = Counted(expired, {}) /\ inserts' = inserts
  <2>1. /\ metrics'.expired = metrics.expired + Cardinality(expired)
        /\ metrics'.limit = metrics.limit + 0
        /\ metrics'.malformed = metrics.malformed
    BY <1>5, CountedFields, FS_EmptySet
  <2>2. Bytes(rows') <= MaxBytes
    BY <1>1, <1>4, <1>5
  <2>3. Cardinality(rows') = Cardinality(rows) - Cardinality(expired)
    BY <1>3, <1>5
  <2> QED
    BY <1>1, <1>3, <1>5, <2>1, <2>2, <2>3, AccountFrame
<1>6. ASSUME NEW dropped \in Excess(full), p.key \notin Keys(kept), rows' = full \ dropped,
             metrics' = Counted(expired, dropped), inserts' = inserts + 1
      PROVE  AccountInv'
  <2>1. NewRow(p, t).payload = p /\ NewRow(p, t).status = "pending" /\ NewRow(p, t) \notin kept
    BY <1>6 DEF NewRow, Keys
  <2>2. IsFiniteSet(full) /\ Cardinality(full) = Cardinality(kept) + 1
    BY <1>3, <2>1, FS_AddElement
  <2>3. dropped \in SUBSET full /\ (Fits(full \ dropped) \/ dropped = Pending(full))
    BY ExcessIsPending DEF Pending
  <2>4. /\ Cardinality(dropped) \in Nat /\ Cardinality(rows') \in Nat
        /\ Cardinality(rows') = Cardinality(full) - Cardinality(dropped)
    BY <1>6, <2>2, <2>3, DifferenceIsCounted
  <2>5. Bytes(rows') <= MaxBytes
    <3>1. CASE Fits(full \ dropped)
      BY <1>6, <3>1 DEF Fits
    <3>2. CASE dropped = Pending(full)
      <4>1. rows' \in SUBSET rows
        BY <1>6, <2>1, <3>2 DEF Pending
      <4>2. Bytes(rows') \in Nat /\ Bytes(rows') <= Bytes(rows)
        BY <1>1, <4>1, BytesShrink
      <4> QED
        BY <1>1, <1>4, <4>2
    <3> QED
      BY <2>3, <3>1, <3>2
  <2>6. /\ metrics'.expired = metrics.expired + Cardinality(expired)
        /\ metrics'.limit = metrics.limit + Cardinality(dropped)
        /\ metrics'.malformed = metrics.malformed
    BY <1>6, CountedFields
  <2>7. inserts' <= MaxInserts /\ inserts' - inserts = 1
    BY <1>1, <1>6
  <2>8. Cardinality(rows') = Cardinality(rows) - Cardinality(expired) + 1 - Cardinality(dropped)
    BY <1>3, <2>2, <2>4
  <2>9. inserts' - inserts <=
                 (Cardinality(rows') + commits' + metrics'.expired + metrics'.limit
                    + metrics'.malformed)
                 - (Cardinality(rows) + commits + metrics.expired + metrics.limit
                      + metrics.malformed)
    <3> HIDE DEF kept, full
    <3> QED
      BY <1>1, <1>3, <2>4, <2>6, <2>7, <2>8
  <2> QED
    BY <2>5, <2>7, <2>9, AccountFrame
<1>7. QED
  BY <1>1, <1>5, <1>6 DEF Enqueue, expired

\* Steps that leave the table as it is, or rewrite its rows, are counted as nothing.
LEMMA RewritingIsAccounted ==
    ASSUME RowsInv, RowsInv', AccountInv, Cardinality(rows') = Cardinality(rows),
           Bytes(rows') <= Bytes(rows), UNCHANGED <<metrics, inserts, commits>>
    PROVE  AccountInv'
<1>1. Bytes(rows) \in Nat /\ Bytes(rows') \in Nat /\ MaxBytes \in Nat /\ Bytes(rows) <= MaxBytes
  BY BytesAreFinite, SpoolAssumption DEF RowsInv, TypeOK, AccountInv, SpoolAccounted
<1>2. /\ Cardinality(rows) \in Nat /\ inserts \in Nat /\ commits \in Nat
      /\ metrics \in [expired : Nat, limit : Nat, malformed : Nat]
  BY FS_CardinalityType DEF RowsInv, TypeOK
<1>3. Bytes(rows') <= MaxBytes /\ inserts' <= MaxInserts
  BY <1>1 DEF AccountInv
<1>4. inserts' - inserts <=
                 (Cardinality(rows') + commits' + metrics'.expired + metrics'.limit
                    + metrics'.malformed)
                 - (Cardinality(rows) + commits + metrics.expired + metrics.limit
                      + metrics.malformed)
  BY <1>2
<1>5. QED
  BY <1>3, <1>4, AccountFrame

\* A desktop holds one row at most, because keys are unique.
LEMMA HeldIsOne ==
    ASSUME RowsInv, NEW d \in Drainer
    PROVE  Cardinality(Held(d)) <= 1
<1>1. CASE Held(d) = {}
  BY <1>1, FS_EmptySet
<1>2. CASE Held(d) # {}
  <2>1. PICK r \in Held(d) : TRUE
    BY <1>2
  <2>2. Held(d) = {r}
    BY <2>1 DEF Held, RowsInv, RowsBounded
  <2> QED
    BY <2>2, FS_Singleton
<1>3. QED
  BY <1>1, <1>2

LEMMA AccountStep ==
    ASSUME RowsInv, RowsInv', AccountInv, [Next]_spoolVars
    PROVE  AccountInv'
<1>1. /\ TypeOK /\ IsFiniteSet(rows) /\ rows \in SUBSET Row
      /\ inserts \in Nat /\ MaxInserts \in Nat /\ commits \in Nat
      /\ metrics.expired \in Nat /\ metrics.limit \in Nat /\ metrics.malformed \in Nat
      /\ Cardinality(rows) \in Nat
  BY FS_CardinalityType, SpoolAssumption DEF RowsInv, TypeOK
<1>2. Bytes(rows) \in Nat /\ MaxBytes \in Nat /\ Bytes(rows) <= MaxBytes /\ inserts <= MaxInserts
  BY <1>1, BytesAreFinite, SpoolAssumption DEF AccountInv, SpoolAccounted
<1>3. ASSUME NEW xs \in SUBSET rows, rows' = (rows \ xs) \cup {Unclaimed(r) : r \in xs}
      PROVE  Cardinality(rows') = Cardinality(rows) /\ Bytes(rows') <= Bytes(rows)
  BY <1>3, Released
<1>4. ASSUME NEW xs \in SUBSET rows, rows' = rows \ xs
      PROVE  /\ Cardinality(xs) \in Nat /\ Cardinality(rows') \in Nat
             /\ Cardinality(rows') = Cardinality(rows) - Cardinality(xs)
             /\ Bytes(rows') <= MaxBytes
  <2>1. rows' \in SUBSET rows
    BY <1>4
  <2>2. Bytes(rows') \in Nat /\ Bytes(rows') <= Bytes(rows)
    BY <1>1, <2>1, BytesShrink
  <2>3. Bytes(rows') <= MaxBytes
    BY <1>2, <2>2
  <2> QED
    BY <1>1, <1>4, <2>3, DifferenceIsCounted
<1>5. ASSUME NEW p \in Payload, NEW now \in 0..clock, HookEnqueue(p, now) PROVE AccountInv'
  <2>1. now \in Nat
    BY <1>1 DEF TypeOK
  <2> QED
    BY <1>5, <2>1, EnqueueIsAccounted DEF HookEnqueue
<1>6. ASSUME NEW d \in Drainer, RecoverClaims(d) PROVE AccountInv'
  <2>1. Lapsed(clock) \in SUBSET rows
    BY DEF Lapsed
  <2> QED
    BY <1>3, <1>6, <2>1, RewritingIsAccounted DEF RecoverClaims
<1>7. ASSUME NEW d \in Drainer, EnforceLimits(d) PROVE AccountInv'
  <2> DEFINE expired == Expired(rows, drainer[d].now)
  <2>1. expired \in SUBSET rows
    BY DEF Expired, Pending
  <2> HIDE DEF expired
  <2>2. PICK dropped \in Excess(rows \ expired) :
              /\ rows' = rows \ (expired \cup dropped)
              /\ metrics' = Counted(expired, dropped)
    BY <1>7 DEF EnforceLimits, expired
  <2>3. dropped \in SUBSET (rows \ expired)
    BY ExcessIsPending DEF Pending
  <2>4. rows' = (rows \ expired) \ dropped
    BY <2>2
  <2>5. /\ IsFiniteSet(rows \ expired) /\ Cardinality(expired) \in Nat
        /\ Cardinality(rows \ expired) \in Nat
        /\ Cardinality(rows \ expired) = Cardinality(rows) - Cardinality(expired)
    BY <1>1, <2>1, DifferenceIsCounted
  <2>6. /\ Cardinality(dropped) \in Nat /\ Cardinality(rows') \in Nat
        /\ Cardinality(rows') = Cardinality(rows) - Cardinality(expired) - Cardinality(dropped)
    BY <2>3, <2>4, <2>5, DifferenceIsCounted
  <2>7. /\ metrics'.expired = metrics.expired + Cardinality(expired)
        /\ metrics'.limit = metrics.limit + Cardinality(dropped)
        /\ metrics'.malformed = metrics.malformed
    BY <2>2, CountedFields
  <2>8. inserts' = inserts /\ commits' = commits
    BY <1>7 DEF EnforceLimits
  <2>9. Bytes(rows') <= MaxBytes
    <3>1. expired \cup dropped \in SUBSET rows
      BY <2>1, <2>3
    <3> QED
      BY <1>4, <2>2, <3>1
  <2>10. inserts' - inserts <=
                 (Cardinality(rows') + commits' + metrics'.expired + metrics'.limit
                    + metrics'.malformed)
                 - (Cardinality(rows) + commits + metrics.expired + metrics.limit
                      + metrics.malformed)
    BY <1>1, <2>5, <2>6, <2>7, <2>8
  <2> QED
    BY <1>2, <2>8, <2>9, <2>10, AccountFrame
<1>8. ASSUME NEW d \in Drainer, Claim(d) PROVE AccountInv'
  <2> DEFINE token == CHOOSE t \in Token : t \notin InUse
             lease == drainer[d].now + Lease
  <2>1. token \in Token
    BY <1>8, FreshToken DEF Claim
  <2>2. lease \in Nat
    BY <1>1, DrainerStates, SpoolAssumption
  <2>3. PICK r \in Pending(rows) : rows' = (rows \ {r}) \cup {ClaimedFor(r, token, lease)}
    BY <1>8 DEF Claim
  <2> HIDE DEF token, lease
  <2>4. Cardinality(rows') = Cardinality(rows) /\ Bytes(rows') <= Bytes(rows)
    BY <2>1, <2>2, <2>3, ClaimCounts
  <2> QED
    BY <1>8, <2>4, RewritingIsAccounted DEF Claim
<1>9. ASSUME NEW d \in Drainer, DropMalformed(d) PROVE AccountInv'
  <2>1. /\ Held(d) \in SUBSET rows /\ Cardinality(Held(d)) <= 1
        /\ rows' = rows \ Held(d) /\ inserts' = inserts /\ commits' = commits
    BY <1>9, HeldRows, HeldIsOne DEF DropMalformed
  <2>2. /\ metrics'.expired = metrics.expired /\ metrics'.limit = metrics.limit
        /\ metrics'.malformed = IF metrics.malformed < MaxInserts THEN metrics.malformed + 1
                                                                 ELSE metrics.malformed
    BY <1>1, <1>9 DEF DropMalformed, TypeOK
  <2>3. /\ Cardinality(Held(d)) \in Nat /\ Cardinality(rows') \in Nat
        /\ Cardinality(rows') = Cardinality(rows) - Cardinality(Held(d))
        /\ Bytes(rows') <= MaxBytes
    BY <1>4, <2>1
  <2>4. CASE metrics.malformed < MaxInserts
    <3>1. inserts' - inserts <=
                 (Cardinality(rows') + commits' + metrics'.expired + metrics'.limit
                    + metrics'.malformed)
                 - (Cardinality(rows) + commits + metrics.expired + metrics.limit
                      + metrics.malformed)
      BY <1>1, <2>1, <2>2, <2>3, <2>4
    <3> QED
      BY <1>2, <2>1, <2>3, <3>1, AccountFrame
  <2>5. CASE ~ metrics.malformed < MaxInserts
    <3>1. inserts' <= metrics'.malformed
      BY <1>1, <1>2, <2>1, <2>2, <2>5
    <3> QED
      BY <1>2, <2>1, <2>3, <3>1, AccountFrame
  <2> QED
    BY <2>4, <2>5
<1>10. ASSUME NEW d \in Drainer, Commit(d) PROVE AccountInv'
  <2>1. /\ Held(d) \in SUBSET rows /\ rows' = rows \ Held(d) /\ inserts' = inserts
        /\ commits' = commits + Cardinality(Held(d)) /\ metrics' = metrics
    BY <1>10, HeldRows DEF Commit
  <2>2. /\ Cardinality(Held(d)) \in Nat /\ Cardinality(rows') \in Nat
        /\ Cardinality(rows') = Cardinality(rows) - Cardinality(Held(d))
        /\ Bytes(rows') <= MaxBytes
    BY <1>4, <2>1
  <2>3. inserts' - inserts <=
                 (Cardinality(rows') + commits' + metrics'.expired + metrics'.limit
                    + metrics'.malformed)
                 - (Cardinality(rows) + commits + metrics.expired + metrics.limit
                      + metrics.malformed)
    BY <1>1, <2>1, <2>2
  <2> QED
    BY <1>2, <2>1, <2>2, <2>3, AccountFrame
<1>11. ASSUME NEW d \in Drainer, Release(d) PROVE AccountInv'
  BY <1>3, <1>11, HeldRows, RewritingIsAccounted DEF Release
<1>12. ASSUME rows' = rows, UNCHANGED <<metrics, inserts, commits>> PROVE AccountInv'
  BY <1>2, <1>12, RewritingIsAccounted
<1>13. ASSUME NEW d \in Drainer,
              ClaimNothing(d) \/ (\E accepted \in BOOLEAN : Ingest(d, accepted)) \/ Abandon(d)
       PROVE  AccountInv'
  BY <1>12, <1>13 DEF ClaimNothing, Ingest, Abandon
<1>14. CASE Tick \/ UNCHANGED spoolVars
  BY <1>12, <1>14 DEF Tick, spoolVars
<1>15. QED
  BY <1>5, <1>6, <1>7, <1>8, <1>9, <1>10, <1>11, <1>13, <1>14 DEF Next, DrainStep

\* Neither a record that fills the table alone nor claimed ones lead beyond the bytes,
\* and whatever was inserted is in the table, committed, or counted as a drop by the
\* triggers, the expiry or the desktop that could not read it.
THEOREM RecordsAreAccounted == Spec => []SpoolAccounted
<1>1. Init => AccountInv
  <2> SUFFICES ASSUME Init PROVE AccountInv
    OBVIOUS
  <2>1. ByteSet({}) = {}
    BY DEF ByteSet
  <2>2. Bytes({}) = 0 /\ Cardinality({}) = 0
    BY <2>1, FS_EmptySet DEF Bytes, ByteSet
  <2> QED
    BY <2>2, SpoolAssumption DEF Init, AccountInv, SpoolAccounted
<1>2. AccountInv => SpoolAccounted
  BY DEF AccountInv
<1>3. QED
  BY <1>1, <1>2, RowsStart, RowsStep, AccountStep, PTL DEF Spec

-----------------------------------------------------------------------------
(***************************************************************************)
(* What every step does to the claims of the desktops and to what is owed. *)
(***************************************************************************)
\* A step that begins no claim: whoever still works holds what it held, a row whose
\* lease runs included, and what it ingested stays settled.
NoNewClaim ==
    \A e \in Drainer : drainer'[e] \in WorkingState =>
        /\ drainer[e] \in WorkingState
        /\ drainer'[e].token = drainer[e].token
        /\ drainer'[e].now = drainer[e].now
        /\ Held(e)' \subseteq Held(e)
        /\ \A r \in Held(e) : clock < r.lease => r \in Held(e)'
        /\ drainer'[e].at = "ingested" => \A r \in Held(e)' : r.payload.key \notin owed'

LEMMA ClaimsFrame ==
    ASSUME RowsInv, RowsInv', ClaimsInv, clock <= clock',
           NoNewClaim, owed' \subseteq Keys(rows')
    PROVE  ClaimsInv'
<1>1. TypeOK /\ TypeOK'
  BY DEF RowsInv
<1>2. \A e \in Drainer : Working(e) <=> drainer[e] \in WorkingState
  BY <1>1, DrainerStates
<1>3. \A e \in Drainer : Working(e)' <=> drainer'[e] \in WorkingState
  <2>1. \A e \in Drainer : drainer'[e] \in RestingState \cup WorkingState
    BY <1>1 DEF TypeOK
  <2> QED
    BY <2>1 DEF RestingState, WorkingState, Working
<1>4. NothingVanishes'
  BY DEF NothingVanishes
<1>5. TokensDiffer'
  <2>1. \A e \in Drainer : Working(e)' => Working(e) /\ drainer'[e].token = drainer[e].token
    BY <1>2, <1>3 DEF NoNewClaim
  <2> QED
    BY <2>1 DEF TokensDiffer, ClaimsInv
<1>6. IngestedIsSettled'
  <2> SUFFICES ASSUME NEW d \in Drainer, drainer'[d].at = "ingested"
               PROVE  \A r \in Held(d)' : r.payload.key \notin owed'
    BY DEF IngestedIsSettled
  <2>1. drainer'[d] \in WorkingState
    BY <1>3 DEF Working
  <2> QED
    BY <2>1 DEF NoNewClaim
<1>7. ClaimHolds'
  <2> SUFFICES ASSUME NEW d \in Drainer, Working(d)', clock' < drainer'[d].now + Lease
               PROVE  \E r \in Held(d)' : r.lease = drainer'[d].now + Lease
    BY DEF ClaimHolds
  <2>1. /\ Working(d) /\ drainer'[d].now = drainer[d].now
        /\ \A r \in Held(d) : clock < r.lease => r \in Held(d)'
    BY <1>2, <1>3 DEF NoNewClaim
  <2>2. clock \in Nat /\ clock' \in Nat /\ drainer[d].now + Lease \in Nat
    <3>1. drainer[d].now \in Nat
      BY <1>1, DrainerStates
    <3> QED
      BY <1>1, <3>1, SpoolAssumption DEF TypeOK
  <2>3. clock < drainer[d].now + Lease
    BY <2>1, <2>2
  <2>4. PICK r \in Held(d) : r.lease = drainer[d].now + Lease
    BY <2>1, <2>3 DEF ClaimsInv, ClaimHolds
  <2> QED
    BY <2>1, <2>3, <2>4
<1>8. QED
  BY <1>4, <1>5, <1>6, <1>7 DEF ClaimsInv

\* A desktop that comes to rest leaves the others as they were.
LEMMA ComesToRest ==
    ASSUME TypeOK, NEW d \in Drainer, NEW state \in RestingState,
           drainer' = [drainer EXCEPT ![d] = state], NEW e \in Drainer,
           drainer'[e] \in WorkingState
    PROVE  e # d /\ drainer'[e] = drainer[e]
<1>1. drainer'[d] = state /\ (e # d => drainer'[e] = drainer[e])
  BY DEF TypeOK
<1>2. state \notin WorkingState
  BY DEF RestingState, WorkingState
<1>3. QED
  BY <1>1, <1>2

\* No row is held by two.
LEMMA HeldByOne ==
    ASSUME RowsInv, TokensDiffer, NEW d \in Drainer, NEW e \in Drainer, d # e,
           Working(d), drainer[e] \in WorkingState, NEW r \in Held(e)
    PROVE  r \notin Held(d)
<1>1. Working(e)
  BY DEF Working, WorkingState
<1>2. drainer[d].token # drainer[e].token
  BY <1>1 DEF TokensDiffer
<1>3. QED
  BY <1>2 DEF Held

\* A hook takes no claimed row away, adds none, and revives no event that a desktop
\* has ingested and not deleted yet: its row still has the key.
LEMMA EnqueueSparesClaims ==
    ASSUME RowsInv, NothingVanishes, NEW p \in Payload, NEW t \in Nat, Enqueue(p, t)
    PROVE  /\ \A r \in rows : r.status = "claimed" => r \in rows'
           /\ \A r \in rows' : r.status = "claimed" => r \in rows
           /\ \A r \in rows : r.status = "claimed" /\ r.payload.key \notin owed
                                => r.payload.key \notin owed'
           /\ owed' \subseteq Keys(rows')
<1> DEFINE expired == Expired(rows, t)
           kept == rows \ expired
<1>1. \A r \in rows : r.status = "claimed" => r \in kept
  BY DEF Expired, Pending
<1>2. owed \ Keys(expired) \subseteq Keys(kept)
  BY DEF NothingVanishes, Keys
<1>3. CASE p.key \in Keys(kept) /\ rows' = kept /\ owed' = owed \ Keys(expired)
  <2> HIDE DEF expired
  <2> QED
    BY <1>1, <1>2, <1>3
<1>4. CASE /\ p.key \notin Keys(kept)
           /\ \E dropped \in Excess(kept \cup {NewRow(p, t)}) :
                 /\ rows' = (kept \cup {NewRow(p, t)}) \ dropped
                 /\ owed' = ((owed \ Keys(expired)) \cup {p.key}) \ Keys(dropped)
  <2>1. PICK dropped \in Excess(kept \cup {NewRow(p, t)}) :
                 /\ rows' = (kept \cup {NewRow(p, t)}) \ dropped
                 /\ owed' = ((owed \ Keys(expired)) \cup {p.key}) \ Keys(dropped)
    BY <1>4
  <2>2. dropped \subseteq Pending(kept \cup {NewRow(p, t)})
    <3> HIDE DEF kept
    <3> QED
      BY ExcessIsPending
  <2>3. NewRow(p, t).status = "pending" /\ NewRow(p, t).payload = p
    BY DEF NewRow
  <2>4. \A r \in rows : r.status = "claimed" => r \in rows'
    <3> HIDE DEF kept
    <3> QED
      BY <1>1, <2>1, <2>2 DEF Pending
  <2>5. \A r \in rows' : r.status = "claimed" => r \in rows
    BY <2>1, <2>3
  <2>6. \A r \in rows : r.status = "claimed" /\ r.payload.key \notin owed
                          => r.payload.key \notin owed'
    <3>1. \A r \in kept : r.payload.key # p.key
      BY <1>4 DEF Keys
    <3> HIDE DEF kept
    <3> QED
      BY <1>1, <2>1, <3>1
  <2>7. owed' \subseteq Keys(rows')
    <3> HIDE DEF kept, expired
    <3>1. (owed \ Keys(expired)) \cup {p.key} \subseteq Keys(kept \cup {NewRow(p, t)})
      BY <1>2, <2>3 DEF Keys
    <3> QED
      BY <2>1, <3>1 DEF Keys
  <2> QED
    BY <2>4, <2>5, <2>6, <2>7
<1>5. QED
  BY <1>3, <1>4 DEF Enqueue

\* A step that leaves the clock and the claims of the desktops that go on working.
LEMMA RestingStep ==
    ASSUME RowsInv, RowsInv', ClaimsInv, NEW d \in Drainer, NEW state \in RestingState,
           drainer' = [drainer EXCEPT ![d] = state], UNCHANGED clock,
           \A e \in Drainer : e # d /\ drainer[e] \in WorkingState =>
               \A r \in Held(e) : clock < r.lease => r \in rows',
           \A r \in rows' : r.status = "claimed" => r \in rows,
           owed' \subseteq owed, owed' \subseteq Keys(rows')
    PROVE  ClaimsInv'
<1>1. TypeOK /\ clock \in Nat
  BY DEF RowsInv, TypeOK
<1>2. ASSUME NEW e \in Drainer, drainer'[e] \in WorkingState
      PROVE  /\ drainer[e] \in WorkingState
             /\ drainer'[e] = drainer[e]
             /\ Held(e)' \subseteq Held(e)
             /\ \A r \in Held(e) : clock < r.lease => r \in Held(e)'
             /\ drainer'[e].at = "ingested" => \A r \in Held(e)' : r.payload.key \notin owed'
  <2>1. e # d /\ drainer'[e] = drainer[e]
    BY <1>1, <1>2, ComesToRest
  <2>2. Held(e)' \subseteq Held(e)
    BY <2>1 DEF Held
  <2>3. \A r \in Held(e) : clock < r.lease => r \in Held(e)'
    BY <1>2, <2>1 DEF Held
  <2>4. drainer[e].at = "ingested" => \A r \in Held(e) : r.payload.key \notin owed
    BY DEF ClaimsInv, IngestedIsSettled
  <2> QED
    BY <1>2, <2>1, <2>2, <2>3, <2>4
<1>3. NoNewClaim
  BY <1>2 DEF NoNewClaim
<1>4. clock <= clock'
  BY <1>1
<1>5. QED
  BY <1>3, <1>4, ClaimsFrame

\* A claim under a new token.
LEMMA ClaimStep ==
    ASSUME RowsInv, RowsInv', ClaimsInv, NEW d \in Drainer, Claim(d)
    PROVE  ClaimsInv'
<1> DEFINE token == CHOOSE t \in Token : t \notin InUse
           lease == drainer[d].now + Lease
<1>1. token \in Token /\ token \notin InUse
  BY FreshToken DEF Claim
<1>2. TypeOK /\ TypeOK' /\ drainer[d].now \in Nat /\ lease \in Nat
  <2>1. TypeOK /\ TypeOK'
    BY DEF RowsInv
  <2>2. drainer[d].now \in Nat
    BY <2>1, DrainerStates
  <2> QED
    BY <2>1, <2>2, SpoolAssumption
<1>3. PICK r \in Pending(rows) :
          /\ rows' = (rows \ {r}) \cup {ClaimedFor(r, token, lease)}
          /\ drainer' = [drainer EXCEPT ![d] =
                [at |-> IF r.payload.valid THEN "claimed" ELSE "malformed",
                 now |-> drainer[d].now, token |-> token, payload |-> r.payload]]
  BY DEF Claim
<1> HIDE DEF token, lease
<1> DEFINE claimed == ClaimedFor(r, token, lease)
<1>4. /\ Keys(rows') = Keys(rows)
      /\ claimed.payload = r.payload /\ claimed.status = "claimed"
      /\ claimed.token = token /\ claimed.lease = lease
  BY <1>1, <1>2, <1>3, ClaimKeepsRows
<1>5. /\ drainer'[d].token = token /\ drainer'[d].now = drainer[d].now
      /\ drainer'[d].payload = r.payload
      /\ drainer'[d].at # "ingested"
      /\ \A e \in Drainer : e # d => drainer'[e] = drainer[e]
  BY <1>2, <1>3 DEF TypeOK
<1>6. \A e \in Drainer : drainer[e].token # token
  BY <1>1 DEF InUse
<1>7. ASSUME NEW e \in Drainer, e # d
      PROVE  Held(e)' = Held(e)
  <2>1. drainer'[e] = drainer[e] /\ drainer[e].token # token
    BY <1>5, <1>6, <1>7
  <2>2. r.status = "pending"
    BY DEF Pending
  <2> HIDE DEF claimed
  <2>3. rows' = (rows \ {r}) \cup {claimed}
    BY <1>3 DEF claimed
  <2> QED
    BY <1>4, <2>1, <2>2, <2>3 DEF Held
<1>8. UNCHANGED <<clock, owed>>
  BY DEF Claim
<1>9. NothingVanishes'
  BY <1>4, <1>8 DEF ClaimsInv, NothingVanishes
<1>10. IngestedIsSettled'
  BY <1>5, <1>7, <1>8 DEF ClaimsInv, IngestedIsSettled
<1>11. TokensDiffer'
  BY <1>5, <1>6 DEF ClaimsInv, TokensDiffer, Working
<1>12. ClaimHolds'
  <2> SUFFICES ASSUME NEW e \in Drainer, Working(e)', clock' < drainer'[e].now + Lease
               PROVE  \E s \in Held(e)' : s.lease = drainer'[e].now + Lease
    BY DEF ClaimHolds
  <2>1. CASE e = d
    <3>1. claimed \in rows' /\ claimed.lease = drainer'[d].now + Lease
      BY <1>3, <1>4, <1>5 DEF lease
    <3> HIDE DEF claimed
    <3>2. claimed \in Held(d)'
      BY <1>4, <1>5, <3>1 DEF Held
    <3> QED
      BY <2>1, <3>1, <3>2
  <2>2. CASE e # d
    BY <1>5, <1>7, <1>8, <2>2 DEF ClaimsInv, ClaimHolds, Working
  <2> QED
    BY <2>1, <2>2
<1>13. QED
  BY <1>9, <1>10, <1>11, <1>12 DEF ClaimsInv

LEMMA ClaimsStart ==
    Init => ClaimsInv
<1> SUFFICES ASSUME Init PROVE ClaimsInv
  OBVIOUS
<1>1. \A d \in Drainer : drainer[d].at = "idle" /\ ~ Working(d)
  BY DEF Init, Resting, Working
<1>2. NothingVanishes
  BY DEF Init, NothingVanishes
<1>3. QED
  BY <1>1, <1>2 DEF ClaimsInv, IngestedIsSettled, TokensDiffer, ClaimHolds

LEMMA ClaimsStep ==
    RowsInv /\ RowsInv' /\ ClaimsInv /\ [Next]_spoolVars => ClaimsInv'
<1> SUFFICES ASSUME RowsInv, RowsInv', ClaimsInv, [Next]_spoolVars PROVE ClaimsInv'
  OBVIOUS
<1>1. TypeOK /\ clock \in Nat /\ NothingVanishes
  BY DEF RowsInv, TypeOK, ClaimsInv
<1>2. \A e \in Drainer : drainer[e].at = "ingested" =>
          \A r \in Held(e) : r.payload.key \notin owed
  BY DEF ClaimsInv, IngestedIsSettled
<1>3. ASSUME NEW p \in Payload, NEW now \in 0..clock, HookEnqueue(p, now) PROVE ClaimsInv'
  <2>1. now \in Nat /\ Enqueue(p, now) /\ UNCHANGED <<clock, drainer>>
    BY <1>1, <1>3 DEF HookEnqueue
  <2>2. /\ \A r \in rows : r.status = "claimed" => r \in rows'
        /\ \A r \in rows' : r.status = "claimed" => r \in rows
        /\ \A r \in rows : r.status = "claimed" /\ r.payload.key \notin owed
                             => r.payload.key \notin owed'
        /\ owed' \subseteq Keys(rows')
    BY <1>1, <2>1, EnqueueSparesClaims
  <2>3. \A e \in Drainer : Held(e)' = Held(e)
    BY <2>1, <2>2 DEF Held
  <2>4. \A e \in Drainer : \A r \in Held(e) : r \in rows /\ r.status = "claimed"
    BY DEF Held
  <2>5. NoNewClaim
    BY <1>2, <2>1, <2>2, <2>3, <2>4 DEF NoNewClaim
  <2> QED
    BY <1>1, <2>1, <2>2, <2>5, ClaimsFrame
<1>4. ASSUME NEW d \in Drainer, RecoverClaims(d) PROVE ClaimsInv'
  <2>1. Resting("recovered", clock) \in RestingState
    BY <1>1, Rests
  <2>2. Keys(rows') = Keys(rows)
    BY <1>4, Released DEF RecoverClaims, Lapsed
  <2>3. \A r \in rows' : r.status = "claimed" => r \in rows
    BY <1>4 DEF RecoverClaims, Unclaimed, Lapsed, RowsInv, TypeOK, Row
  <2>4. \A e \in Drainer : \A r \in Held(e) : clock < r.lease => r \in rows'
    <3>1. \A r \in rows : r.lease \in Nat
      BY <1>1 DEF TypeOK, Row
    <3>2. \A r \in rows : clock < r.lease => r \notin Lapsed(clock)
      BY <1>1, <3>1 DEF Lapsed
    <3> QED
      BY <1>4, <3>2 DEF RecoverClaims, Held
  <2> QED
    BY <1>1, <1>4, <2>1, <2>2, <2>3, <2>4, RestingStep DEF RecoverClaims, NothingVanishes
<1>5. ASSUME NEW d \in Drainer, EnforceLimits(d) PROVE ClaimsInv'
  <2> DEFINE expired == Expired(rows, drainer[d].now)
  <2>1. PICK dropped \in Excess(rows \ expired) :
              /\ rows' = rows \ (expired \cup dropped)
              /\ owed' = owed \ Keys(expired \cup dropped)
    BY <1>5 DEF EnforceLimits
  <2>2. dropped \subseteq Pending(rows \ expired)
    <3> HIDE DEF expired
    <3> QED
      BY ExcessIsPending
  <2>3. \A r \in rows : r.status = "claimed" => r \in rows'
    BY <2>1, <2>2 DEF Expired, Pending
  <2> HIDE DEF expired
  <2>4. owed' \subseteq Keys(rows')
    BY <1>1, <2>1 DEF NothingVanishes, Keys
  <2> DEFINE state == [drainer[d] EXCEPT !.at = "enforced"]
  <2>5. state \in RestingState
    <3>1. drainer[d] \in RestingState
      BY <1>1, <1>5, DrainerStates DEF EnforceLimits
    <3> QED
      BY <3>1 DEF RestingState
  <2>6. drainer' = [drainer EXCEPT ![d] = state] /\ UNCHANGED clock
    BY <1>5 DEF EnforceLimits
  <2>7. /\ \A e \in Drainer : \A r \in Held(e) : r \in rows'
        /\ \A r \in rows' : r.status = "claimed" => r \in rows
        /\ owed' \subseteq owed
    BY <2>1, <2>3 DEF Held
  <2> HIDE DEF state
  <2> QED
    BY <2>4, <2>5, <2>6, <2>7, RestingStep
<1>6. ASSUME NEW d \in Drainer, Claim(d) PROVE ClaimsInv'
  BY <1>6, ClaimStep
<1>7. ASSUME NEW d \in Drainer, ClaimNothing(d) \/ Abandon(d) PROVE ClaimsInv'
  <2>1. Resting("idle", 0) \in RestingState
    BY Rests
  <2>2. \A e \in Drainer : \A r \in Held(e) : r \in rows
    BY DEF Held
  <2> QED
    BY <1>1, <1>7, <2>1, <2>2, RestingStep DEF ClaimNothing, Abandon, NothingVanishes
<1>8. ASSUME NEW d \in Drainer, DropMalformed(d) PROVE ClaimsInv'
  <2>1. Working(d)
    BY <1>8 DEF DropMalformed, Working
  <2>2. Resting("enforced", drainer[d].now) \in RestingState
    BY <1>1, DrainerStates, Rests
  <2>3. \A e \in Drainer : e # d /\ drainer[e] \in WorkingState =>
            \A r \in Held(e) : r \in rows'
    BY <1>8, <2>1, HeldByOne DEF DropMalformed, Held, ClaimsInv
  <2>4. owed' \subseteq Keys(rows')
    BY <1>1, <1>8 DEF DropMalformed, NothingVanishes, Keys
  <2>5. /\ drainer' = [drainer EXCEPT ![d] = Resting("enforced", drainer[d].now)]
        /\ UNCHANGED clock
        /\ \A r \in rows' : r.status = "claimed" => r \in rows
        /\ owed' \subseteq owed
    BY <1>8 DEF DropMalformed
  <2> QED
    BY <2>2, <2>3, <2>4, <2>5, RestingStep
<1>9. ASSUME NEW d \in Drainer, NEW accepted \in BOOLEAN, Ingest(d, accepted) PROVE ClaimsInv'
  <2> DEFINE at == IF accepted THEN "ingested" ELSE "refused"
  <2>1. drainer[d] \in WorkingState
    BY <1>1, <1>9, DrainerStates DEF Ingest, Working
  <2>2. /\ drainer'[d].at = at /\ drainer'[d].token = drainer[d].token
        /\ drainer'[d].now = drainer[d].now /\ drainer'[d].payload = drainer[d].payload
        /\ \A e \in Drainer : e # d => drainer'[e] = drainer[e]
    BY <1>1, <1>9, <2>1 DEF Ingest, TypeOK, WorkingState
  <2>3. \A e \in Drainer : Held(e)' = Held(e)
    BY <1>9, <2>2 DEF Ingest, Held
  <2>4. owed' \subseteq owed /\ (accepted => drainer[d].payload.key \notin owed')
    BY <1>9 DEF Ingest
  <2>5. \A r \in Held(d) : r.payload.key = drainer[d].payload.key
    BY DEF Held
  <2>6. \A e \in Drainer : drainer'[e].at = "ingested" =>
            \A r \in Held(e)' : r.payload.key \notin owed'
    BY <1>2, <2>2, <2>3, <2>4, <2>5
  <2>7. NoNewClaim
    BY <2>1, <2>2, <2>3, <2>6 DEF NoNewClaim
  <2>8. owed' \subseteq Keys(rows')
    BY <1>1, <1>9, <2>4 DEF Ingest, NothingVanishes
  <2> QED
    BY <1>1, <1>9, <2>7, <2>8, ClaimsFrame DEF Ingest
<1>10. ASSUME NEW d \in Drainer, Commit(d) PROVE ClaimsInv'
  <2>1. Working(d)
    BY <1>10 DEF Commit, Working
  <2>2. Resting("idle", 0) \in RestingState
    BY Rests
  <2>3. \A e \in Drainer : e # d /\ drainer[e] \in WorkingState =>
            \A r \in Held(e) : r \in rows'
    BY <1>10, <2>1, HeldByOne DEF Commit, Held, ClaimsInv
  <2>4. owed' \subseteq Keys(rows')
    BY <1>1, <1>2, <1>10 DEF Commit, NothingVanishes, Keys
  <2> QED
    BY <1>10, <2>2, <2>3, <2>4, RestingStep DEF Commit
<1>11. ASSUME NEW d \in Drainer, Release(d) PROVE ClaimsInv'
  <2>1. Working(d)
    BY <1>11 DEF Release, Working
  <2>2. Resting("idle", 0) \in RestingState
    BY Rests
  <2>3. \A e \in Drainer : e # d /\ drainer[e] \in WorkingState =>
            \A r \in Held(e) : r \in rows'
    BY <1>11, <2>1, HeldByOne DEF Release, Held, ClaimsInv
  <2>4. Keys(rows') = Keys(rows)
    BY <1>11, HeldRows, Released DEF Release
  <2>5. \A r \in rows' : r.status = "claimed" => r \in rows
    BY <1>11 DEF Release, Unclaimed, Held, RowsInv, TypeOK, Row
  <2> QED
    BY <1>1, <1>11, <2>2, <2>3, <2>4, <2>5, RestingStep DEF Release, NothingVanishes
<1>12. ASSUME Tick PROVE ClaimsInv'
  <2>1. NoNewClaim
    <3>1. \A e \in Drainer : Held(e)' = Held(e)
      BY <1>12 DEF Tick, Held
    <3> QED
      BY <1>2, <1>12, <3>1 DEF Tick, NoNewClaim
  <2>2. clock <= clock' /\ owed' \subseteq Keys(rows')
    BY <1>1, <1>12 DEF Tick, NothingVanishes
  <2> QED
    BY <2>1, <2>2, ClaimsFrame
<1>13. ASSUME UNCHANGED spoolVars PROVE ClaimsInv'
  BY <1>13 DEF spoolVars, ClaimsInv, NothingVanishes, IngestedIsSettled, TokensDiffer,
               ClaimHolds, Working, Held
<1>14. QED
  BY <1>3, <1>4, <1>5, <1>6, <1>7, <1>8, <1>9, <1>10, <1>11, <1>12, <1>13
     DEF Next, DrainStep

LEMMA SpoolInvariance ==
    Spec => []SpoolInv
<1>1. Init => SpoolInv
  BY RowsStart, ClaimsStart DEF SpoolInv
<1>2. SpoolInv /\ [Next]_spoolVars => SpoolInv'
  BY RowsStep, ClaimsStep DEF SpoolInv
<1>3. QED
  BY <1>1, <1>2, PTL DEF Spec

\* Two desktops whose leases run never work on the same record.
LEMMA ExclusiveFromClaims ==
    ASSUME SpoolInv PROVE ClaimIsExclusive
<1> SUFFICES ASSUME NEW d \in Drainer, NEW e \in Drainer,
                    d # e, Working(d), Working(e),
                    drainer[d].payload.key = drainer[e].payload.key,
                    ~ (drainer[d].now + Lease <= clock),
                    ~ (drainer[e].now + Lease <= clock)
             PROVE  FALSE
  BY DEF ClaimIsExclusive
<1>1. TypeOK /\ RowsBounded
  BY DEF SpoolInv, RowsInv
<1>2. clock < drainer[d].now + Lease /\ clock < drainer[e].now + Lease
  <2>1. clock \in Nat /\ drainer[d].now \in Nat /\ drainer[e].now \in Nat
    BY <1>1, DrainerStates DEF TypeOK
  <2> QED
    BY <2>1, SpoolAssumption
<1>3. PICK r \in Held(d) : TRUE
  BY <1>2 DEF SpoolInv, ClaimsInv, ClaimHolds
<1>4. PICK s \in Held(e) : TRUE
  BY <1>2 DEF SpoolInv, ClaimsInv, ClaimHolds
<1>5. r = s
  BY <1>1 DEF RowsBounded, Held
<1>6. drainer[d].token = drainer[e].token
  BY <1>5 DEF Held
<1>7. QED
  BY <1>6 DEF SpoolInv, ClaimsInv, TokensDiffer

\* Every action that takes a claimed row away is its holder's, or recovery after
\* the lease.
LEMMA ClaimedStep ==
    ASSUME SpoolInv, [Next]_spoolVars,
           NEW r \in rows, r.status = "claimed", r \notin rows'
    PROVE  \/ \E d \in Drainer :
                 Working(d) /\ r \in Held(d) /\ drainer'[d].at # drainer[d].at
           \/ Unclaimed(r) \in rows' /\ r.lease <= clock
<1>1. TypeOK /\ NothingVanishes /\ RowsInv /\ clock \in Nat
  BY DEF SpoolInv, RowsInv, ClaimsInv, TypeOK
<1>2. ASSUME NEW p \in Payload, NEW now \in 0..clock, HookEnqueue(p, now) PROVE FALSE
  <2>1. now \in Nat
    BY <1>1
  <2> QED
    BY <1>1, <1>2, <2>1, EnqueueSparesClaims DEF HookEnqueue
<1>3. ASSUME NEW d \in Drainer, RecoverClaims(d)
      PROVE  Unclaimed(r) \in rows' /\ r.lease <= clock
  BY <1>3 DEF RecoverClaims, Lapsed
<1>4. ASSUME NEW d \in Drainer, EnforceLimits(d) PROVE FALSE
  <2> DEFINE expired == Expired(rows, drainer[d].now)
  <2>1. PICK dropped \in Excess(rows \ expired) : rows' = rows \ (expired \cup dropped)
    BY <1>4 DEF EnforceLimits
  <2>2. dropped \subseteq Pending(rows \ expired)
    <3> HIDE DEF expired
    <3> QED
      BY ExcessIsPending
  <2> QED
    BY <2>1, <2>2 DEF Expired, Pending
<1>5. ASSUME NEW d \in Drainer, Claim(d) PROVE FALSE
  BY <1>5 DEF Claim, Pending
<1>6. ASSUME NEW d \in Drainer, Commit(d) \/ Release(d) \/ DropMalformed(d)
      PROVE  Working(d) /\ r \in Held(d) /\ drainer'[d].at # drainer[d].at
  <2>1. Working(d)
    BY <1>6 DEF Commit, Release, DropMalformed, Working
  <2>2. r \in Held(d)
    BY <1>6 DEF Commit, Release, DropMalformed
  <2>3. drainer'[d].at \in {"idle", "enforced"}
    BY <1>1, <1>6 DEF Commit, Release, DropMalformed, TypeOK, Resting
  <2> QED
    BY <2>1, <2>2, <2>3 DEF Working
<1>7. ASSUME UNCHANGED rows PROVE FALSE
  BY <1>7
<1>8. QED
  BY <1>2, <1>3, <1>4, <1>5, <1>6, <1>7
     DEF Next, DrainStep, ClaimNothing, Ingest, Abandon, Tick, spoolVars

\* A record leaves the spool only when the reducer has accepted its event or when
\* retention drops it: no interleaving of hooks, claims, late commits, releases,
\* lapsed leases and deaths loses one.
THEOREM NothingIsLost == Spec => []NothingVanishes
<1>1. SpoolInv => NothingVanishes
  BY DEF SpoolInv, ClaimsInv
<1>2. QED
  BY <1>1, SpoolInvariance, PTL

\* While the lease of a claim runs nobody else works on its record.
THEOREM ClaimsAreExclusive == Spec => []ClaimIsExclusive
<1>1. SpoolInv => ClaimIsExclusive
  BY ExclusiveFromClaims
<1>2. QED
  BY <1>1, SpoolInvariance, PTL

\* Retention spares claimed rows, and only the holder or the end of the lease
\* ends a claim.
THEOREM ClaimsAreKept == Spec => ClaimedIsKept
<1>1. SpoolInv /\ [Next]_spoolVars =>
        [\A r \in rows : r.status = "claimed" /\ r \notin rows' =>
          \/ \E d \in Drainer :
                Working(d) /\ r \in Held(d) /\ drainer'[d].at # drainer[d].at
          \/ Unclaimed(r) \in rows' /\ r.lease <= clock]_spoolVars
  BY ClaimedStep
<1>2. QED
  BY <1>1, SpoolInvariance, PTL DEF Spec, ClaimedIsKept

=============================================================================
