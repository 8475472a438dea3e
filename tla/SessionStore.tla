---------------------------- MODULE SessionStore ----------------------------
(***************************************************************************)
(* The two tables of sessions.py: the messages of a conversation, ordered  *)
(* by the monotonic clock, and the processed events that make a run        *)
(* idempotent, pruned by age.  Every transaction is made under the store's *)
(* lock, hence one action; append takes its stamp before it waits for the  *)
(* lock, so the threads' appends overlap.  The kinds of dedupe record      *)
(* (idem, msg, content) differ in their TTL: TtlOf gives it for a key.     *)
(***************************************************************************)
EXTENDS Integers, FiniteSets, Sequences

CONSTANTS Keys,      \* event keys
          TtlOf,     \* the TTL of a key's kind
          Floor,     \* 86400: rows younger than this are never pruned
          MaxTime, MaxStamps, MaxReboots,   \* bounds of the runs
          Limit,     \* the limit given to load_recent
          Never

ASSUME StoreAssumption ==
    /\ TtlOf \in [Keys -> Nat]
    /\ Floor \in Nat
    /\ {MaxTime, MaxStamps, MaxReboots} \subseteq Nat
    /\ Limit \in Nat \ {0}
    /\ Never \notin Int

VARIABLES now,        \* int(time.time())
          processed,  \* multitenancy_processed_events: event_key -> ts
          accepted,   \* when a key was last accepted
          mono,       \* time.monotonic_ns()
          rows,       \* multitenancy_sessions of one user, in the order of the inserts
          stamped,    \* appends that have their stamp and wait for the lock
          reboots

dedupeVars == <<processed, accepted>>
rowVars == <<mono, rows, stamped>>
vars == <<now, processed, accepted, mono, rows, stamped, reboots>>

\* A message: its ts, and (history) the stamps stored when it took its own.
Message == [ts : Nat, after : SUBSET Nat]

TypeOK ==
    /\ now \in 0..MaxTime
    /\ processed \in [Keys -> Int \cup {Never}]
    /\ accepted \in [Keys -> Int \cup {Never}]
    /\ mono \in Nat
    /\ rows \in Seq(Message)
    /\ stamped \subseteq Message
    /\ reboots \in 0..MaxReboots

Init ==
    /\ now = 0
    /\ processed = [k \in Keys |-> Never]
    /\ accepted = [k \in Keys |-> Never]
    /\ mono = 0
    /\ rows = <<>>
    /\ stamped = {}
    /\ reboots = 0

-----------------------------------------------------------------------------
(* Processed events. *)

\* The ON CONFLICT clause: insert, or refresh a row older than the TTL.
Accepts(k) == processed[k] = Never \/ processed[k] < now - TtlOf[k]

\* Mutant: the rows are pruned by the TTL of the new row alone.
PrunedByTtl(k, table) ==
    [r \in Keys |-> IF table[r] # Never /\ table[r] < now - TtlOf[k] THEN Never ELSE table[r]]

\* The DELETE after an accepted row: everything older than its TTL or a day.
Pruned(k, table) ==
    LET keep == IF TtlOf[k] > Floor THEN TtlOf[k] ELSE Floor
    IN  [r \in Keys |-> IF table[r] # Never /\ table[r] < now - keep THEN Never ELSE table[r]]

\* mark_event_processed.
MarkEventProcessed(k) ==
    /\ IF Accepts(k)
       THEN /\ processed' = Pruned(k, [processed EXCEPT ![k] = now])
            /\ accepted' = [accepted EXCEPT ![k] = now]
       ELSE UNCHANGED dedupeVars
    /\ UNCHANGED <<now, rowVars, reboots>>

-----------------------------------------------------------------------------
(* Messages. *)

Stamps == {rows[i].ts : i \in DOMAIN rows}

\* append takes time.monotonic_ns(), which has moved on, before the lock.
StampMessage ==
    /\ mono < MaxStamps
    /\ mono' = mono + 1
    /\ stamped' = stamped \cup {[ts |-> mono + 1, after |-> Stamps]}
    /\ UNCHANGED <<now, dedupeVars, rows, reboots>>

\* The INSERT OR IGNORE under the lock: messages of one role, so the stamp is the key.
InsertRow(m) ==
    /\ m \in stamped
    /\ stamped' = stamped \ {m}
    /\ rows' = IF m.ts \in Stamps THEN rows ELSE Append(rows, m)
    /\ UNCHANGED <<now, dedupeVars, mono, reboots>>

\* Mutant: the oldest rows are selected.
LoadRecentOldest ==
    {i \in DOMAIN rows : Cardinality({j \in DOMAIN rows : rows[j].ts < rows[i].ts}) < Limit}

\* load_recent: the rows with the highest stamps, returned in the order of stamps.
LoadRecent ==
    {i \in DOMAIN rows : Cardinality({j \in DOMAIN rows : rows[j].ts > rows[i].ts}) < Limit}

Clear ==
    /\ rows # <<>>
    /\ rows' = <<>>
    /\ UNCHANGED <<now, dedupeVars, mono, stamped, reboots>>

\* The host restarts: the monotonic clock starts again, some time into its life.
Reboot ==
    /\ reboots < MaxReboots
    /\ reboots' = reboots + 1
    /\ mono' \in 0..mono
    /\ stamped' = {}
    /\ UNCHANGED <<now, dedupeVars, rows>>

Tick ==
    /\ now < MaxTime
    /\ now' = now + 1
    /\ UNCHANGED <<dedupeVars, rowVars, reboots>>

\* The two tables share nothing but the lock.
EventStep == Tick \/ \E k \in Keys : MarkEventProcessed(k)
MessageStep == StampMessage \/ (\E m \in stamped : InsertRow(m)) \/ Clear \/ Reboot

Next == EventStep \/ MessageStep

Spec == Init /\ [][Next]_vars

-----------------------------------------------------------------------------
(* Properties. *)

\* A key is accepted again only after its TTL has passed, whatever other keys,
\* with other TTLs, were marked and pruned in between.
AcceptedOncePerTtl ==
    [][\A k \in Keys :
          accepted'[k] # accepted[k] /\ accepted[k] # Never =>
              now - accepted[k] > TtlOf[k]]_vars

\* The appends that did not overlap, in the order they were made.
OneAfterTheOther == \A i, j \in DOMAIN rows : i < j => rows[i].ts \in rows[j].after

\* Until the host restarts load_recent returns the end of the conversation, although
\* append stamps a message before it waits for the lock: with a message it returns every
\* one whose append began after that message was stored, and later; and when no appends
\* overlapped, exactly the last ones, whatever was cleared before.
RecentIsLatest ==
    reboots = 0 =>
    /\ \A i \in LoadRecent, j \in DOMAIN rows :
          rows[i].ts \in rows[j].after => j \in LoadRecent /\ rows[i].ts < rows[j].ts
    /\ OneAfterTheOther => LoadRecent = {i \in DOMAIN rows : i > Len(rows) - Limit}
=============================================================================
