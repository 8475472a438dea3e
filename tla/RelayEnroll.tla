----------------------------- MODULE RelayEnroll -----------------------------
(***************************************************************************)
(* How a client of the local-agent relay gets its token (agent_relay.py,   *)
(* agent_relay_store.py): it opens an enrolment, the user's browser comes  *)
(* back from the OAuth page, perhaps more than once, and the client polls  *)
(* until a poll hands it the token.  The store's calls are atomic; the     *)
(* exchange of the code is awaited, and the process may stop in it.        *)
(***************************************************************************)
EXTENDS Integers

CONSTANTS Enrolls, Callbacks, None

ASSUME EnrollAssumption == None \notin Enrolls

VARIABLES
    row,        \* relay_enrollments: the status of each row
    due,        \* rows whose 600 seconds are over
    stale,      \* rows that have been due for ENROLLMENT_STALE_GRACE_MS
    aged,       \* rows completed ENROLLMENT_COMPLETED_RETENTION_MS ago
    tokens,     \* how many tokens were issued for an enrolment
    revoked,    \* enrolments whose token was revoked
    handed,     \* how many polls were answered with the token
    holders,    \* enrolments whose client received the token
    answer,     \* the status in the last answer to a poll
    callback    \* the GETs of /v1/enroll/callback

vars == <<row, due, stale, aged, tokens, revoked, handed, holders, answer, callback>>

Waiting == {"pending", "authorizing"}
Rows == Waiting \cup {"completed", "claimed", "failed", "expired"}

TypeOK ==
    /\ row \in [Enrolls -> Rows \cup {"none", "gone"}]
    /\ due \subseteq Enrolls /\ stale \subseteq due /\ aged \subseteq Enrolls
    /\ tokens \in [Enrolls -> Nat] /\ handed \in [Enrolls -> Nat]
    /\ revoked \subseteq Enrolls /\ holders \subseteq Enrolls
    /\ answer \in [Enrolls -> Rows \cup {"gone", None}]
    /\ callback \in [Callbacks -> [at : {"idle", "exchanging", "over"}, enroll : Enrolls \cup {None}]]

Init ==
    /\ row = [e \in Enrolls |-> "none"]
    /\ due = {} /\ stale = {} /\ aged = {}
    /\ tokens = [e \in Enrolls |-> 0]
    /\ revoked = {} /\ holders = {}
    /\ handed = [e \in Enrolls |-> 0]
    /\ answer = [e \in Enrolls |-> None]
    /\ callback = [k \in Callbacks |-> [at |-> "idle", enroll |-> None]]

\* create_enrollment.
CreateEnrollment(e) ==
    /\ row[e] = "none"
    /\ row' = [row EXCEPT ![e] = "pending"]
    /\ UNCHANGED <<due, stale, aged, tokens, revoked, handed, holders, answer, callback>>

\* begin_enrollment's guard.
Begins(e) == row[e] = "pending" /\ e \notin due

\* The browser comes back with a state and a code.
OauthCallback(k, e) ==
    /\ callback[k].at = "idle"
    /\ row[e] # "none"
    /\ row' = [row EXCEPT ![e] = IF Begins(e) THEN "authorizing" ELSE @]
    /\ callback' = [callback EXCEPT ![k] = [at |-> IF Begins(e) THEN "exchanging" ELSE "over", enroll |-> e]]
    /\ UNCHANGED <<due, stale, aged, tokens, revoked, handed, holders, answer>>

\* fail_enrollment.
FailEnrollment(e) == row' = [row EXCEPT ![e] = IF @ = "authorizing" THEN "failed" ELSE @]

\* The exchange fails or names no identity.
ExchangeFails(k) ==
    /\ callback[k].at = "exchanging"
    /\ callback' = [callback EXCEPT ![k].at = "over"]
    /\ FailEnrollment(callback[k].enroll)
    /\ UNCHANGED <<due, stale, aged, tokens, revoked, handed, holders, answer>>

\* complete_enrollment's guard.
Completes(e) == row[e] = "authorizing" /\ e \notin due

\* The exchange names the user: complete_enrollment, or fail_enrollment.
ExchangeSucceeds(k) ==
    LET e == callback[k].enroll IN
    /\ callback[k].at = "exchanging"
    /\ callback' = [callback EXCEPT ![k].at = "over"]
    /\ IF Completes(e)
       THEN /\ row' = [row EXCEPT ![e] = "completed"]
            /\ tokens' = [tokens EXCEPT ![e] = @ + 1]
       ELSE FailEnrollment(e) /\ UNCHANGED tokens
    /\ UNCHANGED <<due, stale, aged, revoked, handed, holders, answer>>

\* The relay restarts; its rows stay.
Crash ==
    /\ \E k \in Callbacks : callback[k].at = "exchanging"
    /\ callback' = [k \in Callbacks |-> IF callback[k].at = "exchanging" THEN [callback[k] EXCEPT !.at = "over"] ELSE callback[k]]
    /\ UNCHANGED <<row, due, stale, aged, tokens, revoked, handed, holders, answer>>

-----------------------------------------------------------------------------
\* Mutant: the row is left as it was.
AfterPollKept(e) == IF row[e] = "pending" /\ e \in due THEN "expired" ELSE row[e]

\* What claim_enrollment makes of a row.
AfterPoll(e) ==
    CASE row[e] = "pending" /\ e \in due -> "expired"
      [] row[e] = "completed" -> "claimed"
      [] OTHER -> row[e]

\* GET /v1/enroll/sessions/{enroll_id}; the answer may be lost.
PollEnrollment(e) ==
    /\ row[e] # "none"
    /\ row' = [row EXCEPT ![e] = AfterPoll(e)]
    /\ answer' = [answer EXCEPT ![e] = IF row[e] = "completed" THEN "completed" ELSE AfterPoll(e)]
    /\ IF row[e] = "completed"
       THEN handed' = [handed EXCEPT ![e] = @ + 1] /\ holders' \in {holders, holders \cup {e}}
       ELSE UNCHANGED <<handed, holders>>
    /\ UNCHANGED <<due, stale, aged, tokens, revoked, callback>>

\* revoke_token, by the client that holds it.
RevokeToken(e) ==
    /\ e \in holders \ revoked
    /\ revoked' = revoked \cup {e}
    /\ UNCHANGED <<row, due, stale, aged, tokens, handed, holders, answer, callback>>

-----------------------------------------------------------------------------
TimePasses(e) ==
    /\ row[e] \notin {"none", "gone"}
    /\ \/ e \notin due /\ due' = due \cup {e} /\ UNCHANGED <<stale, aged>>
       \/ e \in due \ stale /\ stale' = stale \cup {e} /\ UNCHANGED <<due, aged>>
       \/ e \in stale \ aged /\ row[e] = "completed" /\ aged' = aged \cup {e} /\ UNCHANGED <<due, stale>>
    /\ UNCHANGED <<row, tokens, revoked, handed, holders, answer, callback>>

\* The rows that prune deletes.
Prunable(e) ==
    \/ row[e] \in Rows \ {"completed"} /\ e \in stale
    \/ row[e] = "completed" /\ e \in aged

\* prune.
Prune ==
    /\ \E e \in Enrolls : Prunable(e)
    /\ row' = [e \in Enrolls |-> IF Prunable(e) THEN "gone" ELSE row[e]]
    /\ UNCHANGED <<due, stale, aged, tokens, revoked, handed, holders, answer, callback>>

-----------------------------------------------------------------------------
Next ==
    \/ \E e \in Enrolls : CreateEnrollment(e) \/ PollEnrollment(e) \/ RevokeToken(e) \/ TimePasses(e)
    \/ \E k \in Callbacks :
          \/ \E e \in Enrolls : OauthCallback(k, e)
          \/ ExchangeFails(k) \/ ExchangeSucceeds(k)
    \/ Crash \/ Prune

Spec == Init /\ [][Next]_vars

-----------------------------------------------------------------------------
(* Properties. *)

\* However often the browser repeats the callback and the client polls, an enrolment gives
\* one token, and gives it away once.
TokenOnce == \A e \in Enrolls : handed[e] <= tokens[e] /\ tokens[e] <= 1

\* A token that was issued waits in its row until a poll takes it or its retention is over:
\* no failed callback, expiry or pruning loses it.
TokenKept == \A e \in Enrolls : tokens[e] > handed[e] => row[e] = "completed" \/ (row[e] = "gone" /\ e \in aged)

\* An enrolment gives one token to one poll, and loses none.
TokenSafe == TokenOnce /\ TokenKept

\* An enrolment that came to an end does not come back, whatever callback still runs.
EndIsFinal == [][\A e \in Enrolls : row[e] \in {"claimed", "failed", "expired", "gone"} => row'[e] \in {row[e], "gone"}]_row

\* Not kept by the code, and in no configuration (README, section 5): a client that polls
\* after the 600 seconds is not told to go on polling, unless a callback is at work.
ExpiryTold ==
    [][\A e \in Enrolls :
          (answer'[e] # answer[e] /\ e \in due /\ \A k \in Callbacks : callback[k].enroll = e => callback[k].at # "exchanging")
              => answer'[e] \notin Waiting]_answer

-----------------------------------------------------------------------------
(* The inductive invariant. *)

\* What the row says of the token.
RowCounts ==
    \A e \in Enrolls :
        /\ row[e] \in {"none", "pending", "authorizing", "failed", "expired"} => tokens[e] = 0 /\ handed[e] = 0
        /\ row[e] = "completed" => tokens[e] = 1 /\ handed[e] = 0
        /\ row[e] = "claimed" => tokens[e] = 1 /\ handed[e] = 1
        /\ row[e] = "gone" => (tokens[e] = handed[e] /\ tokens[e] <= 1) \/ (tokens[e] = 1 /\ handed[e] = 0 /\ e \in aged)

IInv == TypeOK /\ RowCounts
=============================================================================
