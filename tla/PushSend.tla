------------------------------ MODULE PushSend ------------------------------
(***************************************************************************)
(* The send half of the push-card loop: notify-card creates a row,         *)
(* PushSendQueue.process sends its card unless it is quiet or the user's   *)
(* daily cap is reached, and the re-drive sweep runs process again for     *)
(* rows that were parked.  All rows are for one user.                      *)
(***************************************************************************)
EXTENDS Integers, FiniteSets

CONSTANTS Queued,
          Tasks,         \* runs of process under way at one time: the sweep's one
          Cap,           \* daily_cap; 0 is off
          MaxRetries,
          MaxDay,        \* bounds of the runs
          MaxLosses,
          MaxRestarts,
          NoRow

ASSUME SendAssumption ==
    /\ {Cap, MaxDay, MaxLosses, MaxRestarts} \subseteq Nat /\ MaxRetries \in Nat \ {0}
    /\ NoRow \notin Queued /\ \A t, u \in Tasks : t = u

VARIABLES
    day, quiet,
    ready,        \* a live adapter was captured
    sendStatus, created,
    parked,       \* updated_at is older than SEND_REDRIVE_AFTER_S
    sendAt, sendRow, tries,
    cards,        \* cards of a row the user got
    sendShown,        \* cards the user got on a day
    losses,       \* how often a row's card went out and the sender did not learn of it
    restarts

clockVars == <<day, quiet, ready>>
queueVars == <<sendStatus, created, parked>>
taskVars == <<sendAt, sendRow, tries>>
userVars == <<cards, sendShown, losses, restarts>>
sendVars == <<clockVars, queueVars, taskVars, userVars>>

SendTypeOK ==
    /\ day \in 0..MaxDay /\ quiet \in BOOLEAN /\ ready \in BOOLEAN
    /\ sendStatus \in [Queued -> {"free", "sending", "pending", "failed", "expired"}]
    /\ created \in [Queued -> 0..MaxDay]
    /\ parked \in [Queued -> BOOLEAN]
    /\ sendAt \in [Tasks -> {"idle", "attempt", "mark"}]
    /\ sendRow \in [Tasks -> Queued \cup {NoRow}]
    /\ tries \in [Tasks -> 0..MaxRetries]
    /\ cards \in [Queued -> Nat]
    /\ sendShown \in [0..MaxDay -> Nat]
    /\ losses \in [Queued -> 0..MaxLosses]
    /\ restarts \in 0..MaxRestarts

SendInit ==
    /\ day = 0 /\ quiet \in BOOLEAN /\ ready = FALSE
    /\ sendStatus = [r \in Queued |-> "free"]
    /\ created = [r \in Queued |-> 0]
    /\ parked = [r \in Queued |-> FALSE]
    /\ sendAt = [t \in Tasks |-> "idle"]
    /\ sendRow = [t \in Tasks |-> NoRow]
    /\ tries = [t \in Tasks |-> 0]
    /\ cards = [r \in Queued |-> 0]
    /\ sendShown = [d \in 0..MaxDay |-> 0]
    /\ losses = [r \in Queued |-> 0]
    /\ restarts = 0

\* handle_notify_card: the row is created.  The dispatch runs process in the broker, which
\* has no sender: whatever it meets, it defers the row to the sweep.
Notify(r) ==
    /\ sendStatus[r] = "free"
    /\ sendStatus' = [sendStatus EXCEPT ![r] = "sending"]
    /\ created' = [created EXCEPT ![r] = day]
    /\ UNCHANGED <<clockVars, parked, taskVars, userVars>>

\* A minute passes without an update of the row.
Park(r) ==
    /\ sendStatus[r] = "sending"
    /\ ~parked[r]
    /\ parked' = [parked EXCEPT ![r] = TRUE]
    /\ UNCHANGED <<clockVars, sendStatus, created, taskVars, userVars>>

\* count_pushes_today.
PushesToday ==
    Cardinality({r \in Queued : created[r] >= day /\ sendStatus[r] \notin {"free", "sending", "failed", "expired"}})

Defers == quiet \/ (Cap > 0 /\ PushesToday >= Cap)

\* process goes on to send.
SendBegins(r) == sendStatus[r] = "sending" /\ ~Defers

\* process up to its first send.  A row that is deferred stays as it is.
Take(t, r) ==
    /\ sendAt[t] = "idle"
    /\ IF SendBegins(r)
       THEN /\ sendAt' = [sendAt EXCEPT ![t] = "attempt"]
            /\ sendRow' = [sendRow EXCEPT ![t] = r]
            /\ tries' = [tries EXCEPT ![t] = 0]
       ELSE UNCHANGED taskVars
    /\ UNCHANGED <<clockVars, sendStatus, created, parked, userVars>>

\* Mutant: the sweep drives only what was just created.
RedriveFresh(t, r) ==
    sendStatus[r] = "sending" /\ ~parked[r] /\ (\A u \in Tasks : sendRow[u] # r) /\ Take(t, r)

\* run_send_redrive_sweep: one thread, row after row.
Redrive(t, r) == sendStatus[r] = "sending" /\ parked[r] /\ Take(t, r)

Free(t) ==
    /\ sendAt' = [sendAt EXCEPT ![t] = "idle"]
    /\ sendRow' = [sendRow EXCEPT ![t] = NoRow]

Show(r) ==
    /\ cards' = [cards EXCEPT ![r] = @ + 1]
    /\ sendShown' = [sendShown EXCEPT ![day] = @ + 1]

\* No adapter: the row is left to the sweep.
NotReady(t) ==
    /\ sendAt[t] = "attempt"
    /\ ~ready
    /\ Free(t)
    /\ UNCHANGED <<clockVars, queueVars, tries, userVars>>

\* The card is delivered and the sender knows.
Delivered(t) ==
    /\ sendAt[t] = "attempt"
    /\ ready
    /\ Show(sendRow[t])
    /\ sendAt' = [sendAt EXCEPT ![t] = "mark"]
    /\ UNCHANGED <<clockVars, queueVars, sendRow, tries, losses, restarts>>

\* range(max_retries).
LastTry(t) == tries[t] + 1 >= MaxRetries

\* The send raises, be the card delivered or not: note_send_attempt, then again, or
\* failed once the retries are spent.
SendRaises(t, reached) ==
    LET r == sendRow[t] IN
    /\ sendAt[t] = "attempt"
    /\ ready
    /\ IF reached
       THEN /\ losses[r] < MaxLosses
            /\ losses' = [losses EXCEPT ![r] = @ + 1]
            /\ Show(r)
       ELSE UNCHANGED <<cards, sendShown, losses>>
    /\ parked' = [parked EXCEPT ![r] = FALSE]
    /\ tries' = [tries EXCEPT ![t] = @ + 1]
    /\ IF ~LastTry(t)
       THEN UNCHANGED <<sendStatus, sendAt, sendRow>>
       ELSE /\ sendStatus' = IF sendStatus[r] = "sending" THEN [sendStatus EXCEPT ![r] = "failed"] ELSE sendStatus
            /\ Free(t)
    /\ UNCHANGED <<clockVars, created, restarts>>

\* Mutant: the update is not committed.
MarkSentUncommitted(t) ==
    /\ sendAt[t] = "mark"
    /\ Free(t)
    /\ UNCHANGED <<clockVars, queueVars, tries, userVars>>

\* mark_sent.
MarkSent(t) ==
    LET r == sendRow[t] IN
    /\ sendAt[t] = "mark"
    /\ sendStatus' = IF sendStatus[r] = "sending" THEN [sendStatus EXCEPT ![r] = "pending"] ELSE sendStatus
    /\ Free(t)
    /\ UNCHANGED <<clockVars, created, parked, tries, userVars>>

\* run_expiry_sweep, which the thread of the re-drive sweep runs before it.
Expire(r) ==
    /\ \A t \in Tasks : sendAt[t] = "idle"
    /\ sendStatus[r] \in {"sending", "pending"}
    /\ sendStatus' = [sendStatus EXCEPT ![r] = "expired"]
    /\ UNCHANGED <<clockVars, created, parked, taskVars, userVars>>

\* A restart: the sweep's task is gone; a card that went out unmarked is a loss.
SenderDies ==
    LET unmarked == {sendRow[t] : t \in {u \in Tasks : sendAt[u] = "mark"}} IN
    /\ \A r \in unmarked : losses[r] < MaxLosses
    /\ restarts < MaxRestarts
    /\ restarts' = restarts + 1
    /\ losses' = [r \in Queued |-> IF r \in unmarked THEN losses[r] + 1 ELSE losses[r]]
    /\ ready' = FALSE
    /\ sendAt' = [t \in Tasks |-> "idle"]
    /\ sendRow' = [t \in Tasks |-> NoRow]
    /\ UNCHANGED <<day, quiet, sendStatus, created, parked, tries, cards, sendShown>>

Capture == ~ready /\ ready' = TRUE /\ UNCHANGED <<day, quiet, queueVars, taskVars, userVars>>
Toggle == quiet' = ~quiet /\ UNCHANGED <<day, ready, queueVars, taskVars, userVars>>
NextDay == day < MaxDay /\ day' = day + 1 /\ UNCHANGED <<quiet, ready, queueVars, taskVars, userVars>>

-----------------------------------------------------------------------------
Working(t) ==
    \/ \E r \in Queued : Redrive(t, r)
    \/ NotReady(t) \/ Delivered(t) \/ MarkSent(t)
    \/ \E reached \in BOOLEAN : SendRaises(t, reached)

SendNext ==
    \/ \E r \in Queued : Notify(r) \/ Park(r) \/ Expire(r)
    \/ \E t \in Tasks : Working(t)
    \/ SenderDies \/ Capture \/ Toggle \/ NextDay

SendSpec == SendInit /\ [][SendNext]_sendVars

\* Time passes, the adapter is captured, the sweep comes round, a send ends, and the
\* restarts are finitely many (MaxRestarts).  The sweep meets a row that is parked outside
\* quiet hours again and again (SF).
SendFairness ==
    /\ WF_sendVars(Capture) /\ WF_sendVars(Toggle) /\ WF_sendVars(NextDay)
    /\ \A r \in Queued :
          /\ WF_sendVars(Park(r))
          /\ \A t \in Tasks : SF_sendVars(Redrive(t, r) /\ SendBegins(r))
    /\ \A t \in Tasks :
          /\ SF_sendVars(Delivered(t) \/ SendRaises(t, FALSE))
          /\ SF_sendVars(MarkSent(t))

-----------------------------------------------------------------------------
(* Properties. *)

\* A user gets a second card of a row only if the first went out unnoticed.
CardsExplained == \A r \in Queued : cards[r] <= 1 + losses[r]

\* Not kept by the code, and in no configuration (README, section 5): the user gets at
\* most the cap of cards on a day.
CapHolds == Cap > 0 => \A d \in 0..MaxDay : sendShown[d] <= Cap

\* A row does not stay in sending, whatever parked it: quiet hours, a missing adapter, a
\* restart, a used-up cap.  Only the cap of the last day of the run may hold it.
LeavesSending ==
    \A r \in Queued :
        sendStatus[r] = "sending" ~>
            sendStatus[r] # "sending" \/ (day = MaxDay /\ Cap > 0 /\ PushesToday >= Cap)
=============================================================================
