------------------------------- MODULE Ingest -------------------------------
(***************************************************************************)
(* The machine API of webui_broker_server.py: handle_ingest (one answer    *)
(* over HTTP) and handle_ingest_async (a job that is polled), submitted    *)
(* with one Bearer scope, profile and idempotency key.                     *)
(*                                                                         *)
(* A submission may carry secrets, staged as a directory for the run.      *)
(* Submissions with one key share one entry of the run broker, so a claim  *)
(* ties the key to a secret fingerprint before the first await.  The two   *)
(* handlers share the broker and not the claims: each has its own table.   *)
(* An entry, a claim, a job and a directory are named after the request    *)
(* that created them.                                                      *)
(*                                                                         *)
(* The broker is modelled by what RunBroker shows of it: an entry is       *)
(* prepared (billing, an await), then staged, marked and committed in one  *)
(* step, and executed by a stable child; the last waiter to leave cancels  *)
(* an uncommitted entry.  Jobs and claims of other keys appear only in     *)
(* that they can take up the capacity or crowd out a finished job.         *)
(***************************************************************************)
EXTENDS Integers, FiniteSets

CONSTANTS Requests,   \* HTTP requests
          Secrets,    \* secret fingerprints; "no secrets" has one as well
          Nobody      \* no request

ASSUME IngestAssumption == IsFiniteSet(Requests) /\ Nobody \notin Requests \cup Secrets

VARIABLES
    req,        \* a request: idle, waiting on the broker, or its answer
    kind,       \* sync or async
    secret,     \* the fingerprint it carries
    served,     \* the run its answer speaks of
    on,         \* the entry it waits on
    entry,      \* the shared entry it leads
    given,      \* entry.delivered: one waiter has the result
    current,    \* the broker's inflight entry for the key
    marked,     \* the durable idempotency mark
    child,      \* the entry's stable child: _execute_sync or _handoff
    dir,        \* the staged secret directory; without secrets it is empty
    task,       \* the job task, parked behind job_start_gate
    job,        \* the job of an async request, none before it is registered
    aClaim,     \* _ingest_async_secret_fingerprints: the claim in force
    aOwned,     \* claim.job_owned
    sClaim,     \* _ingest_sync_secret_claims: the claim in force
    sCommit,    \* claim.committed
    refs,       \* request_refs of a claim
    claim,      \* the claim a request took a reference to
    held,       \* requests that have not given that reference back
    print,      \* _ingest_secret_fingerprints: the committed fingerprint
    results     \* _ingest_results: fingerprints with a cached answer, and whose run it is

reqVars   == <<req, kind, secret, served, on>>
entryVars == <<entry, given, current, marked>>
runVars   == <<child, dir, task, job>>
claimVars == <<aClaim, aOwned, sClaim, sCommit, refs, claim, held, print>>
ingestVars == <<reqVars, entryVars, runVars, claimVars, results>>

Answers == {"mismatch", "accepted", "full", "pending", "failed", "missing",
            "result", "replay", "needs", "timeout", "gone"}

Ended == {"result", "duplicate", "error", "cancelled"}

\* The requests that wait on entry e.
Peers(e) == {r \in Requests : req[r] = "waiting" /\ on[r] = e}

\* _ingest_async_by_cache and _ingest_async_jobs: the jobs a submission with
\* fingerprint s finds.
Known(s) == {j \in Requests : job[j] \in {"pending", "running", "ended"} /\ secret[j] = s}

IngestTypeOK ==
    /\ req \in [Requests -> {"idle", "waiting"} \cup Answers]
    /\ kind \in [Requests -> {"none", "sync", "async"}]
    /\ secret \in [Requests -> Secrets \cup {Nobody}]
    /\ served \in [Requests -> Requests \cup {Nobody}]
    /\ on \in [Requests -> Requests \cup {Nobody}]
    /\ entry \in [Requests -> {"none", "preparing", "cancelling", "committed"} \cup Ended]
    /\ given \in [Requests -> BOOLEAN]
    /\ current \in Requests \cup {Nobody}
    /\ marked \in BOOLEAN
    /\ child \in [Requests -> {"none", "ready", "running", "over"}]
    /\ dir \in [Requests -> {"none", "staged", "gone"}]
    /\ task \in [Requests -> {"none", "parked", "over"}]
    /\ job \in [Requests -> {"none", "pending", "running", "ended", "removed"}]
    /\ {aClaim, sClaim} \subseteq Requests \cup {Nobody}
    /\ aOwned \in [Requests -> BOOLEAN]
    /\ sCommit \in [Requests -> BOOLEAN]
    /\ refs \in [Requests -> Int]
    /\ claim \in [Requests -> Requests \cup {Nobody}]
    /\ held \in SUBSET Requests
    /\ print \in Secrets \cup {Nobody}
    /\ results \in [Secrets -> Requests \cup {Nobody}]

IngestInit ==
    /\ req = [r \in Requests |-> "idle"]
    /\ kind = [r \in Requests |-> "none"]
    /\ secret = [r \in Requests |-> Nobody]
    /\ served = [r \in Requests |-> Nobody]
    /\ on = [r \in Requests |-> Nobody]
    /\ entry = [r \in Requests |-> "none"]
    /\ given = [r \in Requests |-> FALSE]
    /\ current = Nobody
    /\ marked = FALSE
    /\ child = [r \in Requests |-> "none"]
    /\ dir = [r \in Requests |-> "none"]
    /\ task = [r \in Requests |-> "none"]
    /\ job = [r \in Requests |-> "none"]
    /\ aClaim = Nobody
    /\ aOwned = [r \in Requests |-> FALSE]
    /\ sClaim = Nobody
    /\ sCommit = [r \in Requests |-> FALSE]
    /\ refs = [r \in Requests |-> 0]
    /\ claim = [r \in Requests |-> Nobody]
    /\ held = {}
    /\ print = Nobody
    /\ results = [s \in Secrets |-> Nobody]

-----------------------------------------------------------------------------
(* Answers and claims. *)

Answer(r, a, run) ==
    /\ req' = [req EXCEPT ![r] = a]
    /\ served' = [served EXCEPT ![r] = run]

\* Take a reference to the claim in force, or make one: what both handlers do
\* before they call the broker.
TakeClaim(r, inForce) ==
    LET c == IF inForce = Nobody THEN r ELSE inForce IN
    /\ claim' = [claim EXCEPT ![r] = c]
    /\ refs' = [refs EXCEPT ![c] = @ + 1]
    /\ held' = held \cup {r}

GiveBack(r) == refs' = [refs EXCEPT ![claim[r]] = @ - 1] /\ held' = held \ {r}

\* _release_fingerprint_claim_ref.
ReleaseAsyncClaim(r) ==
    LET c == claim[r] IN
    /\ GiveBack(r)
    /\ aClaim' = IF refs[c] = 1 /\ ~aOwned[c] /\ aClaim = c THEN Nobody ELSE aClaim

\* _commit_sync_secret_claim of request r's handler.
CommitSyncClaim(r) ==
    LET c == claim[r] IN
    IF sCommit[c]
    THEN UNCHANGED <<sCommit, print>>
    ELSE /\ sCommit' = [sCommit EXCEPT ![c] = TRUE]
         /\ print' = IF sClaim = c THEN secret[c] ELSE print

\* Mutant: the first request to leave drops the claim, whoever else holds it.
ReleaseSyncClaimFirst(r) ==
    IF r \notin held
    THEN UNCHANGED <<refs, held, sClaim>>
    ELSE GiveBack(r) /\ sClaim' = IF sClaim = claim[r] THEN Nobody ELSE sClaim

\* _release_sync_secret_claim_ref: once per request.
ReleaseSyncClaim(r) ==
    LET c == claim[r] IN
    IF r \notin held
    THEN UNCHANGED <<refs, held, sClaim>>
    ELSE /\ GiveBack(r)
         /\ sClaim' = IF refs[c] = 1 /\ sClaim = c THEN Nobody ELSE sClaim

-----------------------------------------------------------------------------
(* Submission, up to the await on the broker.  Failed authentication, parsing,
   ownership or policy answers before anything is touched. *)

\* prepare_and_execute: lead a new entry or wait on the one in flight.
Enter(r) ==
    /\ req' = [req EXCEPT ![r] = "waiting"]
    /\ IF current = Nobody
       THEN /\ current' = r
            /\ on' = [on EXCEPT ![r] = r]
            /\ entry' = [entry EXCEPT ![r] = "preparing"]
       ELSE /\ on' = [on EXCEPT ![r] = current]
            /\ UNCHANGED <<current, entry>>

\* The entry in flight is committed and nobody waits on it.
Unobserved == current # Nobody /\ entry[current] = "committed" /\ Peers(current) = {}

\* The key is claimed with another fingerprint, async table.
AsyncMismatch(s) == aClaim # Nobody /\ secret[aClaim] # s

\* The key is claimed or committed with another fingerprint, sync tables.
SyncMismatch(s) ==
    \/ print # Nobody /\ print # s
    \/ sClaim # Nobody /\ secret[sClaim] # s

\* handle_ingest_async.  A duplicate told by the broker at once takes and gives
\* back its reference in the same step.
SubmitAsync(r, s) ==
    /\ req[r] = "idle"
    /\ kind' = [kind EXCEPT ![r] = "async"]
    /\ secret' = [secret EXCEPT ![r] = s]
    /\ UNCHANGED <<given, marked, child, dir, job, aOwned, sClaim, sCommit, print, results>>
    /\ \/ /\ AsyncMismatch(s)
          /\ Answer(r, "mismatch", Nobody)
          /\ UNCHANGED <<on, entry, current, task, aClaim, refs, claim, held>>
       \/ /\ ~AsyncMismatch(s)
          /\ \E j \in Known(s) : Answer(r, "accepted", j)
          /\ UNCHANGED <<on, entry, current, task, aClaim, refs, claim, held>>
       \/ /\ ~AsyncMismatch(s) /\ Known(s) = {}
          /\ Answer(r, "full", Nobody)          \* _ingest_async_make_room is false
          /\ UNCHANGED <<on, entry, current, task, aClaim, refs, claim, held>>
       \/ /\ ~AsyncMismatch(s) /\ Known(s) = {}
          /\ Unobserved
          /\ Answer(r, "pending", Nobody)
          /\ UNCHANGED <<on, entry, current, task, aClaim, refs, claim, held>>
       \/ /\ ~AsyncMismatch(s) /\ Known(s) = {}
          /\ ~Unobserved
          /\ TakeClaim(r, aClaim)
          /\ aClaim' = claim'[r]
          /\ task' = [task EXCEPT ![r] = "parked"]
          /\ Enter(r)
          /\ UNCHANGED served

\* handle_ingest.
SubmitSync(r, s) ==
    /\ req[r] = "idle"
    /\ kind' = [kind EXCEPT ![r] = "sync"]
    /\ secret' = [secret EXCEPT ![r] = s]
    /\ UNCHANGED <<given, marked, runVars, aClaim, aOwned, sCommit, print, results>>
    /\ \/ /\ SyncMismatch(s)
          /\ Answer(r, "mismatch", Nobody)
          /\ UNCHANGED <<on, entry, current, sClaim, refs, claim, held>>
       \/ /\ ~SyncMismatch(s) /\ Unobserved
          /\ IF results[s] = Nobody THEN Answer(r, "pending", Nobody)
                                    ELSE Answer(r, "replay", results[s])
          /\ UNCHANGED <<on, entry, current, sClaim, refs, claim, held>>
       \/ /\ ~SyncMismatch(s) /\ ~Unobserved
          /\ TakeClaim(r, sClaim)
          /\ sClaim' = claim'[r]
          /\ Enter(r)
          /\ UNCHANGED served

-----------------------------------------------------------------------------
(* The shared entry. *)

\* on_abandon of the leader's handler: _abandon_staged_resources or
\* _abandon_sync_resources.  What was staged in the same step is gone with it.
Abandon(e) ==
    IF kind[e] = "async"
    THEN task' = [task EXCEPT ![e] = "over"] /\ UNCHANGED <<refs, held, sClaim>>
    ELSE UNCHANGED task /\ ReleaseSyncClaim(e)

EndEntry(e, how) ==
    /\ entry' = [entry EXCEPT ![e] = how]
    /\ current' = IF current = e THEN Nobody ELSE current

\* Billing or staging fails, or before_admit finds the job task gone; the last
\* waiter's cancellation reaches the entry's task; or the mark is refused, before
\* preparation or after it.
EndUncommitted(e, how) ==
    /\ \/ entry[e] = "preparing" /\ how = "error"
       \/ entry[e] = "cancelling" /\ how = "cancelled"
       \/ entry[e] = "preparing" /\ how = "duplicate" /\ marked
    /\ EndEntry(e, how)
    /\ Abandon(e)
    /\ UNCHANGED <<reqVars, given, marked, child, dir, job, aClaim, aOwned, sCommit, claim,
                   print, results>>

\* _stage_secret, before_admit, the mark and the commit: one step after billing.
CommitEntry(e) ==
    /\ entry[e] = "preparing"
    /\ ~marked
    /\ kind[e] = "async" => task[e] = "parked"
    /\ entry' = [entry EXCEPT ![e] = "committed"]
    /\ marked' = TRUE
    /\ dir' = [dir EXCEPT ![e] = "staged"]
    /\ child' = [child EXCEPT ![e] = "ready"]
    /\ UNCHANGED <<reqVars, given, current, task, job, claimVars, results>>

\* The assignments of _handoff; the job starts out with the given status.
HandedOff(e, status) ==
    /\ child[e] = "ready"
    /\ kind[e] = "async"
    /\ aClaim' = claim[e]
    /\ aOwned' = [aOwned EXCEPT ![claim[e]] = TRUE]
    /\ job' = [job EXCEPT ![e] = status]
    /\ dir' = IF status = "ended" THEN [dir EXCEPT ![e] = "gone"] ELSE dir
    /\ child' = [child EXCEPT ![e] = "over"]
    /\ EndEntry(e, "result")
    /\ UNCHANGED <<reqVars, given, marked, task, sClaim, sCommit, refs, claim, held, print,
                   results>>

\* Mutant: _handoff does not look whether the job task is still there.
HandoffUnchecked(e) == HandedOff(e, "pending")

\* _handoff: register the job and open its gate, or fail it if its task has gone.
Handoff(e) == HandedOff(e, IF task[e] = "parked" THEN "pending" ELSE "ended")

\* _execute_sync: commit the claim, then run the agent.
StartSync(e) ==
    /\ child[e] = "ready"
    /\ kind[e] = "sync"
    /\ child' = [child EXCEPT ![e] = "running"]
    /\ CommitSyncClaim(e)
    /\ UNCHANGED <<reqVars, entryVars, dir, task, job, aClaim, aOwned, sClaim, refs, claim, held,
                   results>>

\* The run ends, or the child is cancelled, perhaps before its first step:
\* _finalize_sync_execution, then the entry's own end.
FinishSync(e, how) ==
    /\ kind[e] = "sync"
    /\ \/ child[e] = "running" /\ how \in {"result", "error", "cancelled"}
       \/ child[e] = "ready" /\ how = "cancelled"
    /\ child' = [child EXCEPT ![e] = "over"]
    /\ dir' = [dir EXCEPT ![e] = "gone"]
    /\ CommitSyncClaim(e)
    /\ ReleaseSyncClaim(e)
    /\ EndEntry(e, how)
    /\ UNCHANGED <<reqVars, given, marked, task, job, aClaim, aOwned, claim, results>>

-----------------------------------------------------------------------------
(* The job of an async submission. *)

\* Behind the open gate: _run_ingest_async_job.
StartJob(e) ==
    /\ job[e] = "pending"
    /\ task[e] = "parked"
    /\ job' = [job EXCEPT ![e] = "running"]
    /\ UNCHANGED <<reqVars, entryVars, child, dir, task, claimVars, results>>

\* Success, failure, timeout or a question to a human: _ingest_async_touch with
\* a terminal status removes the directory.
EndJob(e) ==
    /\ job[e] = "running"
    /\ job' = [job EXCEPT ![e] = "ended"]
    /\ task' = [task EXCEPT ![e] = "over"]
    /\ dir' = [dir EXCEPT ![e] = "gone"]
    /\ UNCHANGED <<reqVars, entryVars, child, claimVars, results>>

\* The job task is cancelled from outside; _finalize_job_task, its done callback,
\* fails a registered job that is still active.
KillTask(e) ==
    /\ task[e] = "parked"
    /\ task' = [task EXCEPT ![e] = "over"]
    /\ IF job[e] \in {"pending", "running"}
       THEN /\ job' = [job EXCEPT ![e] = "ended"]
            /\ dir' = [dir EXCEPT ![e] = "gone"]
       ELSE UNCHANGED <<job, dir>>
    /\ UNCHANGED <<reqVars, entryVars, child, claimVars, results>>

\* _ingest_async_prune or _ingest_async_make_room of any later request removes a
\* job that is no longer active, and with it the claim nobody else refers to.
RemoveJob(e) ==
    /\ job[e] = "ended"
    /\ job' = [job EXCEPT ![e] = "removed"]
    /\ IF aClaim = Nobody
       THEN UNCHANGED <<aClaim, aOwned>>
       ELSE /\ aOwned' = [aOwned EXCEPT ![aClaim] = FALSE]
            /\ aClaim' = IF refs[aClaim] = 0 THEN Nobody ELSE aClaim
    /\ UNCHANGED <<reqVars, entryVars, child, dir, task, sClaim, sCommit, refs, claim, held, print,
                   results>>

-----------------------------------------------------------------------------
(* After the await on the broker. *)

\* shared_entry_owned and execution_owned of request r.
Leads(r) == on[r] = r
OwnsExecution(r) == Leads(r) /\ child[r] # "none"

\* The finally blocks of the two handlers.
Finally(r) ==
    IF kind[r] = "async"
    THEN /\ ReleaseAsyncClaim(r)
         /\ task' = IF Leads(r) THEN task ELSE [task EXCEPT ![r] = "over"]
         /\ UNCHANGED <<sClaim, sCommit, print>>
    ELSE /\ IF OwnsExecution(r) THEN CommitSyncClaim(r) ELSE UNCHANGED <<sCommit, print>>
         /\ IF Leads(r) /\ ~OwnsExecution(r)
            THEN UNCHANGED <<refs, held, sClaim>>
            ELSE ReleaseSyncClaim(r)
         /\ UNCHANGED <<aClaim, task>>

\* The waiter of r is cancelled; the last one cancels an uncommitted entry.
StopWaiting(r) ==
    LET e    == on[r]
        last == Peers(e) = {r} /\ entry[e] = "preparing"
    IN  /\ entry' = IF last THEN [entry EXCEPT ![e] = "cancelling"] ELSE entry
        /\ current' = IF last /\ current = e THEN Nobody ELSE current

\* The client disconnects, a sync answer times out, or the run of an interactive
\* sync leader asks a human: its answer is cached like a result.
Leave(r, a) ==
    /\ req[r] = "waiting"
    /\ \/ a = "gone"
       \/ a = "timeout" /\ kind[r] = "sync"
       \/ a = "needs" /\ kind[r] = "sync" /\ Leads(r) /\ child[r] = "running"
    /\ Answer(r, a, IF a = "needs" THEN r ELSE Nobody)
    /\ results' = IF a = "needs" THEN [results EXCEPT ![secret[r]] = r] ELSE results
    /\ StopWaiting(r)
    /\ Finally(r)
    /\ UNCHANGED <<kind, secret, on, given, marked, child, dir, job, aOwned, claim>>

\* What the broker's duplicate or result means to an async handler.
AsyncAnswer(r, duplicate) ==
    IF OwnsExecution(r) THEN Answer(r, "accepted", r)
    ELSE IF Known(secret[r]) # {} THEN \E j \in Known(secret[r]) : Answer(r, "accepted", j)
    ELSE Answer(r, IF duplicate THEN "pending" ELSE "missing", Nobody)

\* And to a sync handler.
SyncAnswer(r, duplicate) ==
    IF ~duplicate THEN Answer(r, "result", on[r])
    ELSE IF results[secret[r]] # Nobody THEN Answer(r, "replay", results[secret[r]])
    ELSE Answer(r, "pending", Nobody)

\* The shared entry ended: the handler runs on to its answer.
Wake(r) ==
    LET e   == on[r]
        dup == entry[e] = "duplicate" \/ given[e]
    IN  /\ req[r] = "waiting"
        /\ entry[e] \in Ended
        /\ Finally(r)
        /\ CASE entry[e] = "error"     -> Answer(r, "failed", Nobody)
             [] entry[e] = "cancelled" -> Answer(r, "gone", Nobody)
             [] OTHER -> IF kind[r] = "async" THEN AsyncAnswer(r, dup) ELSE SyncAnswer(r, dup)
        /\ given' = IF entry[e] = "result" THEN [given EXCEPT ![e] = TRUE] ELSE given
        /\ results' = IF entry[e] = "result" /\ ~dup /\ kind[r] = "sync"
                      THEN [results EXCEPT ![secret[r]] = e] ELSE results
        /\ UNCHANGED <<kind, secret, on, entry, current, marked, child, dir, job, aOwned, claim>>

\* TTLs of an hour: the committed fingerprint and the cached answers.
ForgetPrint ==
    /\ print # Nobody
    /\ print' = Nobody
    /\ UNCHANGED <<reqVars, entryVars, runVars, aClaim, aOwned, sClaim, sCommit, refs, claim, held,
                   results>>

ForgetResult(s) ==
    /\ results[s] # Nobody
    /\ results' = [results EXCEPT ![s] = Nobody]
    /\ UNCHANGED <<reqVars, entryVars, runVars, claimVars>>

-----------------------------------------------------------------------------
Submit(r) == \E s \in Secrets : SubmitAsync(r, s) \/ SubmitSync(r, s)

EntryStep(e) ==
    \/ \E how \in Ended : EndUncommitted(e, how) \/ FinishSync(e, how)
    \/ CommitEntry(e) \/ Handoff(e) \/ StartSync(e)

JobStep(e) == StartJob(e) \/ EndJob(e)

IngestNext ==
    \/ \E r \in Requests :
          \/ Submit(r) \/ Wake(r) \/ EntryStep(r) \/ JobStep(r)
          \/ \E a \in {"gone", "timeout", "needs"} : Leave(r, a)
          \/ KillTask(r) \/ RemoveJob(r)
    \/ ForgetPrint
    \/ \E s \in Secrets : ForgetResult(s)

IngestSpec == IngestInit /\ [][IngestNext]_ingestVars

-----------------------------------------------------------------------------
\* The submissions of the key keep to one of the two handlers, which do not look at
\* each other's claims.
OneHandler == \A r, q \in Requests : {kind[r], kind[q]} # {"sync", "async"}

\* An answer that speaks of a run speaks of one that had the caller's secrets: a
\* submission with another fingerprint never joins the entry, the job or the cached
\* answer of this one, whichever of the waiters leaves in between.
AnswersOwnSecrets ==
    \A r \in Requests : served[r] # Nobody => secret[served[r]] = secret[r]

\* Nobody waits on an entry of other secrets: while an entry is on its way to
\* admission the claim in force is one of its secrets.
EntriesClaimed ==
    \A e \in Requests :
        entry[e] = "preparing" =>
            LET inForce == IF kind[e] = "async" THEN aClaim ELSE sClaim
            IN  /\ inForce # Nobody /\ secret[inForce] = secret[e]
                /\ \A r \in Peers(e) : secret[r] = secret[e]

\* A claim counts exactly the requests that hold it, and one that is in force has a
\* holder, or a job: none is left behind to refuse the key for ever.
ClaimsCounted ==
    /\ \A c \in Requests : refs[c] = Cardinality({r \in held : claim[r] = c})
    /\ aClaim # Nobody => refs[aClaim] > 0 \/ aOwned[aClaim]
    /\ sClaim # Nobody => refs[sClaim] > 0
    /\ \A c \in Requests : aOwned[c] => \E j \in Requests : job[j] \notin {"none", "removed"}

\* Secrets of different submissions of one key stay apart, and the claims that keep
\* them apart go when their holders have gone.
SecretsApart == IngestTypeOK /\ ClaimsCounted /\ (OneHandler => AnswersOwnSecrets /\ EntriesClaimed)

\* The directory with the secrets is there for as long as the run it was staged for
\* can use it, and no longer; and an active job has a task that will end it.
DirsOwned ==
    \A e \in Requests :
        /\ dir[e] = "staged" <=>
              child[e] \in {"ready", "running"} \/ job[e] \in {"pending", "running"}
        /\ job[e] \in {"pending", "running"} => task[e] = "parked"

\* Submissions share a run only if they share its secrets, which last as long as the run.
SubmissionsApart == SecretsApart /\ DirsOwned
=============================================================================
