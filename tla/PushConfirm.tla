---------------------------- MODULE PushConfirm ----------------------------
(***************************************************************************)
(* The confirm half of the push-card loop: replies fill a card's form      *)
(* (push_card_matcher.py), clicks confirm it and write it to a backend     *)
(* (push_card_confirm.py), and two sweeps expire and reconcile rows        *)
(* (push_card_workers.py), all over the rows of push_registry.py.          *)
(*                                                                         *)
(* Every click runs in a thread of its own and the sweeps in another: a    *)
(* row read is stale when used, and only the status test of one UPDATE     *)
(* (advance_status) is atomic.  A click is split at the points where       *)
(* another thread can come in: after it read the row, after it claimed it, *)
(* and around the HTTP write, which may land without an answer, or late.   *)
(***************************************************************************)
EXTENDS Integers, FiniteSets

CONSTANTS Pushes, Clicks, Values, NoValue,
          MaxSubmits   \* behaviors.max_submits of a scene without submit_once

ASSUME ConfirmAssumption ==
    /\ MaxSubmits \in Nat
    /\ NoValue \notin Values \cup Pushes
    /\ NoValue \notin {"committed", "reauth", "failed", "reject", "noop", "retry"}

VARIABLES
    once, editable,                        \* the scene of a row: behaviors.submit_once and
                                           \* allow_resubmit_before_commit
    pushStatus, submission, nonce, attempts,   \* columns of a row
    pastDue,                                   \* the row is past expires_at
    record,                                \* external: what the backend holds under the row's key
    flight,                                \* writes on their way to the backend: clicks
    clickAt, clickRow, values, sawStatus, clickAnswer,    \* a click: where, which row, what it read, what it said
    landed,                                \* the click's own write reached the backend
    sweep,                                 \* expiry: the row and status it read, or NoValue
    found                                  \* reconcile: the row it found a record for, or NoValue

pushVars == <<pushStatus, submission, nonce, attempts, pastDue>>
clickVars == <<clickAt, clickRow, values, sawStatus, clickAnswer>>
scene == <<once, editable>>
confirmVars == <<scene, pushVars, record, flight, clickVars, landed, sweep, found>>

Open == {"pending", "clarifying"}
Statuses == Open \cup {"confirmed", "committed", "expired"}
Answers == {NoValue, "committed", "reauth", "failed", "reject", "noop", "retry"}

ConfirmTypeOK ==
    /\ once \in [Pushes -> BOOLEAN] /\ editable \in [Pushes -> BOOLEAN]
    /\ pushStatus \in [Pushes -> Statuses]
    /\ submission \in [Pushes -> Values \cup {NoValue}]
    /\ nonce \in [Pushes -> BOOLEAN]
    /\ attempts \in [Pushes -> 0..Cardinality(Clicks)]
    /\ pastDue \in [Pushes -> BOOLEAN]
    /\ record \in [Pushes -> Values \cup {NoValue}]
    /\ flight \subseteq Clicks
    /\ clickAt \in [Clicks -> {"new", "read", "write", "sent", "ok", "over"}]
    /\ clickRow \in [Clicks -> Pushes \cup {NoValue}]
    /\ values \in [Clicks -> Values \cup {NoValue}]
    /\ sawStatus \in [Clicks -> Statuses \cup {NoValue}]
    /\ clickAnswer \in [Clicks -> Answers]
    /\ landed \subseteq Clicks
    /\ sweep \in (Pushes \X Statuses) \cup {NoValue}
    /\ found \in Pushes \cup {NoValue}

\* Rows that were delivered, of any scene.
ConfirmInit ==
    /\ once \in [Pushes -> BOOLEAN] /\ editable \in [Pushes -> BOOLEAN]
    /\ pushStatus = [r \in Pushes |-> "pending"]
    /\ submission = [r \in Pushes |-> NoValue]
    /\ nonce = [r \in Pushes |-> TRUE]
    /\ attempts = [r \in Pushes |-> 0]
    /\ pastDue = [r \in Pushes |-> FALSE]
    /\ record = [r \in Pushes |-> NoValue]
    /\ flight = {}
    /\ clickAt = [c \in Clicks |-> "new"]
    /\ clickRow = [c \in Clicks |-> NoValue]
    /\ values = [c \in Clicks |-> NoValue]
    /\ sawStatus = [c \in Clicks |-> NoValue]
    /\ clickAnswer = [c \in Clicks |-> NoValue]
    /\ landed = {}
    /\ sweep = NoValue
    /\ found = NoValue

-----------------------------------------------------------------------------
(* Replies. *)

\* _drive_fill_step: from the read of the row to the CAS there is no await.  A quoted
\* reply is routed by status alone, an unquoted one only before expires_at.
Fill(r, v) ==
    /\ pushStatus[r] \in Open
    /\ pushStatus' = [pushStatus EXCEPT ![r] = "clarifying"]
    /\ submission' = [submission EXCEPT ![r] = v]
    /\ UNCHANGED <<nonce, attempts, pastDue, record, flight, clickVars, landed, sweep, found>>

\* handle_message_recall.
Recall(r) ==
    /\ pushStatus[r] \in Open
    /\ ~pastDue[r]
    /\ submission[r] # NoValue
    /\ submission' = [submission EXCEPT ![r] = NoValue]
    /\ UNCHANGED <<pushStatus, nonce, attempts, pastDue, record, flight, clickVars, landed, sweep, found>>

-----------------------------------------------------------------------------
(* A click. *)

Say(c, a) ==
    /\ clickAt' = [clickAt EXCEPT ![c] = "over"]
    /\ clickAnswer' = [clickAnswer EXCEPT ![c] = a]

\* What is submitted: the form, or for a plain retry button what was confirmed before.
Payload(r, form) ==
    IF form # NoValue THEN form
    ELSE IF pushStatus[r] \in {"confirmed", "committed"} THEN submission[r] ELSE NoValue

\* The early returns of handle_confirm, in their order but for the answers' wording.
Answered(r, form) ==
    CASE pushStatus[r] = "committed" /\ once[r] -> "noop"
      [] pushStatus[r] \in {"expired", "pending"} -> "reject"
      [] ~nonce[r] -> "reject"
      [] pushStatus[r] = "confirmed" /\ form # NoValue /\ ~editable[r] -> "reject"
      [] Payload(r, form) = NoValue -> "reject"
      [] pushStatus[r] = "committed" /\ attempts[r] >= MaxSubmits -> "reject"
      [] OTHER -> NoValue

\* handle_confirm reads the row and decides whether to go on.
Click(c, r, form) ==
    /\ clickAt[c] = "new"
    /\ clickRow' = [clickRow EXCEPT ![c] = r]
    /\ sawStatus' = [sawStatus EXCEPT ![c] = pushStatus[r]]
    /\ values' = [values EXCEPT ![c] = Payload(r, form)]
    /\ IF Answered(r, form) # NoValue THEN Say(c, Answered(r, form))
       ELSE /\ clickAt' = [clickAt EXCEPT ![c] = IF pushStatus[r] = "clarifying" THEN "read" ELSE "write"]
            /\ UNCHANGED clickAnswer
    /\ UNCHANGED <<pushVars, record, flight, landed, sweep, found>>

\* The nonce-gated claim.  Who loses it never writes.
Claim(c) ==
    LET r == clickRow[c] IN
    /\ clickAt[c] = "read"
    /\ IF pushStatus[r] = "clarifying" /\ nonce[r]
       THEN /\ pushStatus' = [pushStatus EXCEPT ![r] = "confirmed"]
            /\ submission' = [submission EXCEPT ![r] = values[c]]
            /\ clickAt' = [clickAt EXCEPT ![c] = "write"]
            /\ UNCHANGED clickAnswer
       ELSE /\ Say(c, CASE pushStatus[r] = "committed" -> "noop"
                        [] pushStatus[r] = "confirmed" -> "retry"
                        [] OTHER -> "reject")
            /\ UNCHANGED <<pushStatus, submission>>
    /\ UNCHANGED <<nonce, attempts, pastDue, record, flight, clickRow, values, sawStatus, landed, sweep, found>>

\* The HTTP request leaves.
SendWrite(c) ==
    /\ clickAt[c] = "write"
    /\ clickAt' = [clickAt EXCEPT ![c] = "sent"]
    /\ flight' = flight \cup {c}
    /\ UNCHANGED <<pushVars, record, clickRow, values, sawStatus, clickAnswer, landed, sweep, found>>

\* External: the backend keeps the first record of a key, a later one is a duplicate.
Land(c) ==
    /\ c \in flight
    /\ flight' = flight \ {c}
    /\ record' = [record EXCEPT ![clickRow[c]] = IF @ = NoValue THEN values[c] ELSE @]
    /\ landed' = landed \cup {c}
    /\ UNCHANGED <<pushVars, clickVars, sweep, found>>

WriteOk(c) ==
    /\ clickAt[c] = "sent"
    /\ c \in landed
    /\ clickAt' = [clickAt EXCEPT ![c] = "ok"]
    /\ UNCHANGED <<pushVars, record, flight, clickRow, values, sawStatus, clickAnswer, landed, sweep, found>>

\* No answer in time, or a bad one: the write may still land.
WriteFails(c) ==
    /\ clickAt[c] = "sent"
    /\ Say(c, "failed")
    /\ UNCHANGED <<pushVars, record, flight, clickRow, values, sawStatus, landed, sweep, found>>

\* 401 or 403: nothing is written.
WriteRefused(c) ==
    /\ clickAt[c] = "sent"
    /\ c \in flight
    /\ flight' = flight \ {c}
    /\ Say(c, "reauth")
    /\ UNCHANGED <<pushVars, record, clickRow, values, sawStatus, landed, sweep, found>>

\* The commit, whose result decides what the user is told.  An amendment of a
\* committed row (_resubmit_committed) always says committed.
Commit(c) ==
    LET r == clickRow[c]
        from == IF sawStatus[c] = "committed" THEN "committed" ELSE "confirmed"
    IN
    /\ clickAt[c] = "ok"
    /\ IF pushStatus[r] = from
       THEN /\ pushStatus' = [pushStatus EXCEPT ![r] = "committed"]
            /\ submission' = [submission EXCEPT ![r] = values[c]]
            /\ nonce' = [nonce EXCEPT ![r] = @ /\ ~(once[r] /\ from = "confirmed")]
            /\ attempts' = [attempts EXCEPT ![r] = @ + 1]
            /\ Say(c, "committed")
       ELSE /\ UNCHANGED <<pushStatus, submission, nonce, attempts>>
            /\ Say(c, IF pushStatus[r] = "committed" THEN "noop" ELSE "retry")
    /\ UNCHANGED <<pastDue, record, flight, clickRow, values, sawStatus, landed, sweep, found>>

-----------------------------------------------------------------------------
(* Time, the sweeps and restarts. *)

BecomeDue(r) ==
    /\ ~pastDue[r]
    /\ pastDue' = [pastDue EXCEPT ![r] = TRUE]
    /\ UNCHANGED <<pushStatus, submission, nonce, attempts, record, flight, clickVars, landed, sweep, found>>

\* run_expiry_sweep reads a due row and renders its card.
ExpiryRead(r) ==
    /\ sweep = NoValue
    /\ pastDue[r]
    /\ pushStatus[r] \in Open
    /\ sweep' = <<r, pushStatus[r]>>
    /\ UNCHANGED <<pushVars, record, flight, clickVars, landed, found>>

\* Mutant: the flip does not compare the status.
ExpiryFlipBlind ==
    /\ sweep # NoValue
    /\ pushStatus' = [pushStatus EXCEPT ![sweep[1]] = "expired"]
    /\ sweep' = NoValue
    /\ UNCHANGED <<submission, nonce, attempts, pastDue, record, flight, clickVars, landed, found>>

\* Then it flips the row, if its status is still what it read.
ExpiryFlip ==
    /\ sweep # NoValue
    /\ pushStatus' = IF pushStatus[sweep[1]] = sweep[2] THEN [pushStatus EXCEPT ![sweep[1]] = "expired"]
                 ELSE pushStatus
    /\ sweep' = NoValue
    /\ UNCHANGED <<submission, nonce, attempts, pastDue, record, flight, clickVars, landed, found>>

\* run_reconcile_sweep asks the backend for the record of a confirmed row.
ReconcileRead(r) ==
    /\ found = NoValue
    /\ pushStatus[r] = "confirmed"
    /\ record[r] # NoValue
    /\ found' = r
    /\ UNCHANGED <<pushVars, record, flight, clickVars, landed, sweep>>

\* Mutant: the record is found but the row is left to the user.
ReconcileCommitNothing ==
    /\ found # NoValue
    /\ found' = NoValue
    /\ UNCHANGED <<pushVars, record, flight, clickVars, landed, sweep>>

\* It then commits the row with what the backend holds; the nonce stays.
ReconcileCommit ==
    /\ found # NoValue
    /\ IF pushStatus[found] = "confirmed"
       THEN /\ pushStatus' = [pushStatus EXCEPT ![found] = "committed"]
            /\ submission' = [submission EXCEPT ![found] = record[found]]
       ELSE UNCHANGED <<pushStatus, submission>>
    /\ found' = NoValue
    /\ UNCHANGED <<nonce, attempts, pastDue, record, flight, clickVars, landed, sweep>>

\* The process restarts: clicks and sweeps under way are gone, requests that left are not.
ConfirmDies ==
    /\ \/ \E c \in Clicks : clickAt[c] \notin {"new", "over"}
       \/ sweep # NoValue \/ found # NoValue
    /\ clickAt' = [c \in Clicks |-> IF clickAt[c] = "new" THEN "new" ELSE "over"]
    /\ sweep' = NoValue
    /\ found' = NoValue
    /\ UNCHANGED <<pushVars, record, flight, clickRow, values, sawStatus, clickAnswer, landed>>

-----------------------------------------------------------------------------
Step ==
    \/ \E r \in Pushes :
          \/ \E v \in Values : Fill(r, v)
          \/ Recall(r) \/ BecomeDue(r) \/ ExpiryRead(r) \/ ReconcileRead(r)
          \/ \E c \in Clicks, form \in Values \cup {NoValue} : Click(c, r, form)
    \/ \E c \in Clicks :
          \/ Claim(c) \/ SendWrite(c) \/ Land(c)
          \/ WriteOk(c) \/ WriteFails(c) \/ WriteRefused(c) \/ Commit(c)
    \/ ExpiryFlip \/ ReconcileCommit \/ ConfirmDies

\* The scene of a row stays what it is.
ConfirmNext == Step /\ UNCHANGED scene

ConfirmSpec == ConfirmInit /\ [][ConfirmNext]_confirmVars

\* The sweep thread runs every minute for as long as the gateway is up; a gateway
\* that restarts for ever, without time for a sweep, is left out by the strong
\* fairness.
ConfirmFairness ==
    /\ \A r \in Pushes : SF_confirmVars(ReconcileRead(r) /\ UNCHANGED scene)
    /\ SF_confirmVars(ReconcileCommit /\ UNCHANGED scene)

-----------------------------------------------------------------------------
(* Properties. *)

\* A row is committed only when the backend holds its record.
CommittedIsRecorded == \A r \in Pushes : pushStatus[r] = "committed" => record[r] # NoValue

\* A submission the backend accepted is never lost again: its row is neither expired
\* nor open, whatever the expiry sweep read before the claim.
RecordedStaysClaimed ==
    \A r \in Pushes : record[r] # NoValue => pushStatus[r] \in {"confirmed", "committed"}

\* What a committed row says was submitted is what the backend holds, if the scene lets
\* nobody edit a row that was confirmed.
SubmissionIsRecord ==
    \A r \in Pushes : pushStatus[r] = "committed" /\ once[r] /\ ~editable[r] => submission[r] = record[r]

\* Of all the clicks on a row that can be submitted once, one at most is told that
\* it was recorded by it.
OneGreenCard ==
    \A c, d \in Clicks :
        /\ clickAnswer[c] = "committed" /\ clickAnswer[d] = "committed"
        /\ clickRow[c] = clickRow[d] /\ once[clickRow[c]]
        => c = d

\* Not kept by the code, and in no configuration (README, section 5): max_submits bounds
\* the submissions accepted for a row.
SubmitsCapped == \A r \in Pushes : ~once[r] => attempts[r] <= MaxSubmits

\* What a row and its card say was recorded is what the backend holds, and no row the
\* backend has a record for is given up.
RowMatchesRecord ==
    CommittedIsRecorded /\ RecordedStaysClaimed /\ SubmissionIsRecord /\ OneGreenCard

\* What reached the backend is committed in the end, whoever crashed in between.
RecordedSettles == \A r \in Pushes : record[r] # NoValue ~> pushStatus[r] = "committed"
=============================================================================
