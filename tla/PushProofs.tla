----------------------------- MODULE PushProofs -----------------------------
(***************************************************************************)
(* Theorems about push cards: the queue that sends them (PushSend) and the *)
(* confirm loop of what was sent (PushConfirm).                            *)
(***************************************************************************)
EXTENDS PushSend, PushConfirm, TLAPS

-----------------------------------------------------------------------------
(* The queue. *)

\* The row a task works on is in sending for as long as the task has it.
RowsTaken ==
    /\ sendStatus \in [Queued -> {"free", "sending", "pending", "failed", "expired"}]
    /\ sendAt \in [Tasks -> {"idle", "attempt", "mark"}]
    /\ sendRow \in [Tasks -> Queued \cup {NoRow}]
    /\ cards \in [Queued -> Nat] /\ losses \in [Queued -> Nat]
    /\ \A t \in Tasks : sendAt[t] # "idle" =>
          sendRow[t] \in Queued /\ sendStatus[sendRow[t]] = "sending"

Marking(r) == \E t \in Tasks : sendAt[t] = "mark" /\ sendRow[t] = r

\* A card is counted once more than the losses only by a row that is past sending, or
\* by a task about to mark it sent.
CardsCounted ==
    \A r \in Queued :
        /\ cards[r] <= 1 + losses[r]
        /\ sendStatus[r] \in {"free", "sending"} /\ ~ Marking(r) => cards[r] <= losses[r]

\* Inductive.
SendInv == RowsTaken /\ CardsCounted

LEMMA SendStarts == SendInit => SendInv
  BY DEF SendInit, SendInv, RowsTaken, CardsCounted

LEMMA SendInductive == SendInv /\ [SendNext]_sendVars => SendInv'
<1> SUFFICES ASSUME SendInv, [SendNext]_sendVars PROVE SendInv'
  OBVIOUS
<1> USE SendAssumption DEF SendInv, RowsTaken, CardsCounted, Marking
<1>1. CASE UNCHANGED <<sendStatus, sendAt, sendRow, cards, losses>>
  BY <1>1
<1>2. ASSUME NEW r \in Queued, Notify(r) PROVE SendInv'
  BY <1>2 DEF Notify, taskVars, userVars
<1>3. ASSUME NEW r \in Queued, Expire(r) PROVE SendInv'
  BY <1>3 DEF Expire, taskVars, userVars
<1>4. ASSUME NEW t \in Tasks, NEW r \in Queued, Redrive(t, r) PROVE SendInv'
  BY <1>4 DEF Redrive, Take, SendBegins, taskVars, userVars
<1>5. ASSUME NEW t \in Tasks, NotReady(t) PROVE SendInv'
  BY <1>5 DEF NotReady, Free, queueVars, userVars
<1>6. ASSUME NEW t \in Tasks, Delivered(t) PROVE SendInv'
  BY <1>6 DEF Delivered, Show, queueVars
<1>7. ASSUME NEW t \in Tasks, NEW reached \in BOOLEAN, SendRaises(t, reached) PROVE SendInv'
  <2> DEFINE r == sendRow[t]
  <2>1. r \in Queued /\ sendStatus[r] = "sending" /\ sendAt[t] = "attempt"
    BY <1>7 DEF SendRaises
  <2>2. \/ UNCHANGED <<cards, losses>>
        \/ /\ cards' = [cards EXCEPT ![r] = @ + 1]
           /\ losses' = [losses EXCEPT ![r] = @ + 1]
    BY <1>7 DEF SendRaises, Show
  <2>3. \/ UNCHANGED <<sendStatus, sendAt, sendRow>>
        \/ /\ sendStatus' = [sendStatus EXCEPT ![r] = "failed"]
           /\ Free(t)
    BY <1>7, <2>1 DEF SendRaises
  <2>4. \A u \in Tasks : u = t
    OBVIOUS
  <2>5. cards[r] <= losses[r]
    BY <2>1, <2>4
  <2>6. /\ cards' \in [Queued -> Nat] /\ losses' \in [Queued -> Nat]
        /\ \A q \in Queued : cards[q] <= 1 + losses[q] => cards'[q] <= 1 + losses'[q]
        /\ \A q \in Queued : cards[q] <= losses[q] => cards'[q] <= losses'[q]
    BY <2>1, <2>2
  <2> QED BY <2>1, <2>3, <2>4, <2>5, <2>6 DEF Free
<1>8. ASSUME NEW t \in Tasks, MarkSent(t) PROVE SendInv'
  BY <1>8 DEF MarkSent, Free, userVars
<1>9. CASE SenderDies
  <2> DEFINE unmarked == {sendRow[t] : t \in {u \in Tasks : sendAt[u] = "mark"}}
  <2>1. /\ UNCHANGED <<sendStatus, cards>>
        /\ losses' = [r \in Queued |-> IF r \in unmarked THEN losses[r] + 1 ELSE losses[r]]
        /\ sendAt' = [t \in Tasks |-> "idle"] /\ sendRow' = [t \in Tasks |-> NoRow]
    BY <1>9 DEF SenderDies
  <2>2. \A r \in Queued : r \in unmarked <=> Marking(r)
    OBVIOUS
  <2>3. \A r \in Queued : losses'[r] = IF Marking(r) THEN losses[r] + 1 ELSE losses[r]
    BY <2>1, <2>2
  <2>4. losses' \in [Queued -> Nat]
    BY <2>1
  <2> HIDE DEF unmarked
  <2> QED BY <2>1, <2>3, <2>4
<1> QED BY <1>1, <1>2, <1>3, <1>4, <1>5, <1>6, <1>7, <1>8, <1>9
     DEF SendNext, Working, sendVars, taskVars, userVars, queueVars, clockVars, Park, Capture, Toggle, NextDay

\* However many sends are retried, restarted and re-driven, a second card of a row is
\* explained by one that went out unnoticed (PushSendQueue.process, mark_sent).
THEOREM CardsStayExplained == SendSpec => []CardsExplained
<1>1. SendInv => CardsExplained
  BY DEF SendInv, CardsCounted, CardsExplained
<1> QED BY <1>1, SendStarts, SendInductive, PTL DEF SendSpec

-----------------------------------------------------------------------------
(* The confirm loop. *)

Claimed == {"confirmed", "committed"}

\* A click whose write may have left, be its handler alive or not.
Writing(c) == clickAt[c] \in {"write", "sent", "ok"} \/ c \in flight \/ c \in landed

\* What clicks, sweeps and rows are made of.
ClicksTyped ==
    /\ once \in [Pushes -> BOOLEAN] /\ editable \in [Pushes -> BOOLEAN]
    /\ pushStatus \in [Pushes -> Statuses]
    /\ submission \in [Pushes -> Values \cup {NoValue}]
    /\ record \in [Pushes -> Values \cup {NoValue}]
    /\ clickAt \in [Clicks -> {"new", "read", "write", "sent", "ok", "over"}]
    /\ clickRow \in [Clicks -> Pushes \cup {NoValue}]
    /\ values \in [Clicks -> Values \cup {NoValue}]
    /\ sawStatus \in [Clicks -> Statuses \cup {NoValue}]
    /\ clickAnswer \in [Clicks -> Answers]
    /\ sweep \in (Pushes \X Open) \cup {NoValue}
    /\ found \in Pushes \cup {NoValue}
    /\ flight \subseteq Clicks /\ landed \subseteq Clicks

\* A write is one of a claimed row and carries a form; what landed is recorded.
WritesClaimed ==
    /\ \A c \in Clicks :
          /\ clickAt[c] = "new" => ~ Writing(c) /\ clickAnswer[c] = NoValue
          /\ clickAt[c] # "new" => clickRow[c] \in Pushes
          /\ clickAt[c] = "read" => ~ Writing(c) /\ values[c] # NoValue /\ sawStatus[c] = "clarifying"
          /\ Writing(c) => /\ clickRow[c] \in Pushes /\ values[c] # NoValue
                           /\ pushStatus[clickRow[c]] \in Claimed
          /\ c \in landed => record[clickRow[c]] # NoValue
          /\ clickAt[c] = "ok" => c \in landed
    /\ found # NoValue => record[found] # NoValue

\* On a row that nobody may edit once it was confirmed, all writes are of its submission.
OneForm ==
    \A r \in Pushes : once[r] /\ ~ editable[r] =>
        /\ pushStatus[r] \in Claimed => record[r] \in {NoValue, submission[r]}
        /\ \A c \in Clicks : Writing(c) /\ clickRow[c] = r => values[c] = submission[r]

\* Of a row that is submitted once, the click that was told so has committed it; the
\* others that go on found it uncommitted.
OneCommit ==
    \A c \in Clicks : clickAt[c] # "new" /\ once[clickRow[c]] =>
        /\ clickAt[c] # "over" => sawStatus[c] # "committed"
        /\ clickAnswer[c] = "committed" =>
              /\ clickAt[c] = "over" /\ pushStatus[clickRow[c]] = "committed"
              /\ \A d \in Clicks : clickRow[d] = clickRow[c] /\ clickAnswer[d] = "committed" => c = d

\* Inductive.
ConfirmInv ==
    /\ ClicksTyped /\ WritesClaimed /\ OneForm /\ OneCommit
    /\ CommittedIsRecorded /\ RecordedStaysClaimed

LEMMA ConfirmStarts == ConfirmInit => ConfirmInv
<1> SUFFICES ASSUME ConfirmInit PROVE ConfirmInv
  OBVIOUS
<1> USE ConfirmAssumption DEF ConfirmInit
<1>1. ClicksTyped
  BY DEF ClicksTyped, Statuses, Open, Answers
<1>2. WritesClaimed /\ OneForm /\ OneCommit
  BY DEF WritesClaimed, OneForm, OneCommit, Writing, Claimed
<1>3. CommittedIsRecorded /\ RecordedStaysClaimed
  BY DEF CommittedIsRecorded, RecordedStaysClaimed
<1> QED BY <1>1, <1>2, <1>3 DEF ConfirmInv

\* Who goes on after its read has a form, and found the row open or, if it may be edited
\* or resubmitted, claimed.
LEMMA GoesOn ==
    ASSUME ClicksTyped, NEW r \in Pushes, NEW form \in Values \cup {NoValue}, Answered(r, form) = NoValue
    PROVE  /\ Payload(r, form) \in Values
           /\ pushStatus[r] \in {"clarifying", "confirmed", "committed"}
           /\ once[r] => pushStatus[r] # "committed"
           /\ once[r] /\ ~ editable[r] /\ pushStatus[r] = "confirmed" => Payload(r, form) = submission[r]
<1> USE ConfirmAssumption DEF ClicksTyped
<1>1. NoValue # "noop" /\ NoValue # "reject"
  OBVIOUS
<1> QED BY <1>1 DEF Answered, Payload, Statuses, Open

LEMMA ConfirmInductive == ConfirmInv /\ [ConfirmNext]_confirmVars => ConfirmInv'
<1> SUFFICES ASSUME ConfirmInv, [ConfirmNext]_confirmVars PROVE ConfirmInv'
  OBVIOUS
<1> USE ConfirmAssumption DEF ConfirmInv, scene
<1>1. UNCHANGED <<once, editable>>
  BY DEF ConfirmNext, confirmVars
<1> DEFINE Inv == ConfirmInv'
<1> USE DEF CommittedIsRecorded, RecordedStaysClaimed, Claimed
<1>2. CASE UNCHANGED confirmVars
  BY <1>2 DEF confirmVars, pushVars, clickVars, ClicksTyped, WritesClaimed, OneForm, OneCommit, Writing
<1>3. ASSUME NEW r \in Pushes, NEW v \in Values, Fill(r, v) PROVE Inv
  BY <1>3, <1>1 DEF Fill, clickVars, ClicksTyped, WritesClaimed, OneForm, OneCommit, Writing, Statuses, Open
<1>4. ASSUME NEW r \in Pushes, Recall(r) PROVE Inv
  BY <1>4, <1>1 DEF Recall, clickVars, ClicksTyped, WritesClaimed, OneForm, OneCommit, Writing, Statuses, Open
<1>5. ASSUME NEW r \in Pushes, BecomeDue(r) \/ ExpiryRead(r) \/ ReconcileRead(r) PROVE Inv
  BY <1>5, <1>1 DEF BecomeDue, ExpiryRead, ReconcileRead, pushVars, clickVars, ClicksTyped, WritesClaimed,
       OneForm, OneCommit, Writing
<1>6. ASSUME NEW c \in Clicks, NEW r \in Pushes, NEW form \in Values \cup {NoValue}, Click(c, r, form) PROVE Inv
  <2> UNCHANGED <<pushVars, record, flight, landed, sweep, found>> /\ clickAt[c] = "new"
    BY <1>6 DEF Click
  <2>1. CASE Answered(r, form) = NoValue
    <3>1. /\ Payload(r, form) \in Values
          /\ pushStatus[r] \in {"clarifying", "confirmed", "committed"}
          /\ once[r] => pushStatus[r] # "committed"
          /\ once[r] /\ ~ editable[r] /\ pushStatus[r] = "confirmed" => Payload(r, form) = submission[r]
      BY <2>1, GoesOn
    <3>2. PICK v \in Values : v = Payload(r, form)
      BY <3>1
    <3>3. /\ clickRow' = [clickRow EXCEPT ![c] = r]
          /\ sawStatus' = [sawStatus EXCEPT ![c] = pushStatus[r]]
          /\ values' = [values EXCEPT ![c] = v]
          /\ clickAt' = [clickAt EXCEPT ![c] = IF pushStatus[r] = "clarifying" THEN "read" ELSE "write"]
          /\ UNCHANGED clickAnswer
      BY <1>6, <2>1, <3>2 DEF Click
    <3>4. ClicksTyped'
      BY <1>1, <3>3 DEF ClicksTyped, pushVars, Statuses
    <3>5. WritesClaimed'
      BY <3>1, <3>2, <3>3 DEF ClicksTyped, WritesClaimed, Writing, pushVars
    <3>6. OneForm'
      BY <1>1, <3>1, <3>2, <3>3 DEF ClicksTyped, WritesClaimed, OneForm, Writing, pushVars
    <3>7. OneCommit'
      BY <1>1, <3>1, <3>2, <3>3 DEF ClicksTyped, WritesClaimed, OneCommit, pushVars
    <3> QED BY <3>4, <3>5, <3>6, <3>7 DEF pushVars
  <2>2. CASE Answered(r, form) # NoValue
    <3>1. PICK v \in Values \cup {NoValue} : v = Payload(r, form)
      BY DEF Payload, ClicksTyped
    <3>2. PICK a \in {"noop", "reject"} : a = Answered(r, form)
      BY <2>2 DEF Answered
    <3>3. /\ clickRow' = [clickRow EXCEPT ![c] = r]
          /\ sawStatus' = [sawStatus EXCEPT ![c] = pushStatus[r]]
          /\ values' = [values EXCEPT ![c] = v]
          /\ clickAt' = [clickAt EXCEPT ![c] = "over"]
          /\ clickAnswer' = [clickAnswer EXCEPT ![c] = a]
      BY <1>6, <2>2, <3>1, <3>2 DEF Click, Say
    <3>4. ClicksTyped'
      BY <1>1, <3>3 DEF ClicksTyped, pushVars, Statuses, Answers
    <3>5. WritesClaimed'
      BY <3>3 DEF ClicksTyped, WritesClaimed, Writing, pushVars
    <3>6. OneForm'
      BY <1>1, <3>3 DEF ClicksTyped, WritesClaimed, OneForm, Writing, pushVars
    <3>7. OneCommit'
      BY <1>1, <3>3 DEF ClicksTyped, WritesClaimed, OneCommit, pushVars
    <3> QED BY <3>4, <3>5, <3>6, <3>7 DEF pushVars
  <2> QED BY <2>1, <2>2
<1>7. ASSUME NEW c \in Clicks, Claim(c) PROVE Inv
  <2> DEFINE r == clickRow[c]
  <2>1. /\ clickAt[c] = "read" /\ r \in Pushes /\ values[c] \in Values /\ sawStatus[c] = "clarifying"
        /\ UNCHANGED <<record, flight, landed, clickRow, values, sawStatus, sweep, found>>
    BY <1>7 DEF Claim, WritesClaimed, ClicksTyped
  <2>2. CASE /\ pushStatus[r] = "clarifying"
             /\ pushStatus' = [pushStatus EXCEPT ![r] = "confirmed"]
             /\ submission' = [submission EXCEPT ![r] = values[c]]
             /\ clickAt' = [clickAt EXCEPT ![c] = "write"]
             /\ UNCHANGED clickAnswer
    <3>1. record[r] = NoValue
      BY <2>1, <2>2 DEF ClicksTyped
    <3>2. ClicksTyped'
      BY <1>1, <2>1, <2>2 DEF ClicksTyped, Statuses
    <3>3. WritesClaimed'
      BY <2>1, <2>2 DEF ClicksTyped, WritesClaimed, Writing
    <3>4. OneForm'
      BY <1>1, <2>1, <2>2, <3>1 DEF ClicksTyped, WritesClaimed, OneForm, Writing
    <3>5. OneCommit'
      BY <1>1, <2>1, <2>2 DEF ClicksTyped, WritesClaimed, OneCommit
    <3> QED BY <2>1, <2>2, <3>1, <3>2, <3>3, <3>4, <3>5 DEF ClicksTyped
  <2>3. CASE UNCHANGED <<pushStatus, submission>> /\ \E a \in {"noop", "retry", "reject"} : Say(c, a)
    <3>1. ClicksTyped'
      BY <1>1, <2>1, <2>3 DEF ClicksTyped, Say, Answers
    <3>2. WritesClaimed' /\ OneForm' /\ OneCommit'
      BY <1>1, <2>1, <2>3 DEF ClicksTyped, WritesClaimed, OneForm, OneCommit, Writing, Say
    <3> QED BY <2>1, <2>3, <3>1, <3>2
  <2> QED BY <1>7, <2>2, <2>3 DEF Claim
<1>8. ASSUME NEW c \in Clicks, SendWrite(c) \/ WriteOk(c) PROVE Inv
  BY <1>8, <1>1 DEF SendWrite, WriteOk, pushVars, ClicksTyped, WritesClaimed, OneForm, OneCommit, Writing
<1>9. ASSUME NEW c \in Clicks, Land(c) PROVE Inv
  <2>1. /\ c \in flight /\ landed' = landed \cup {c} /\ flight' = flight \ {c}
        /\ record' = [record EXCEPT ![clickRow[c]] = IF @ = NoValue THEN values[c] ELSE @]
        /\ UNCHANGED <<pushVars, clickVars, sweep, found>>
    BY <1>9 DEF Land
  <2>2. /\ clickRow[c] \in Pushes /\ values[c] \in Values /\ pushStatus[clickRow[c]] \in Claimed
    BY <2>1 DEF WritesClaimed, Writing, ClicksTyped
  <2>3. ClicksTyped'
    BY <1>1, <2>1, <2>2 DEF ClicksTyped, pushVars, clickVars
  <2>4. WritesClaimed'
    BY <2>1, <2>2 DEF ClicksTyped, WritesClaimed, Writing, pushVars, clickVars
  <2>5. OneForm'
    BY <1>1, <2>1, <2>2 DEF ClicksTyped, OneForm, Writing, pushVars, clickVars
  <2>6. OneCommit'
    BY <1>1, <2>1 DEF OneCommit, pushVars, clickVars
  <2> QED BY <2>1, <2>2, <2>3, <2>4, <2>5, <2>6 DEF pushVars, ClicksTyped
<1>10. ASSUME NEW c \in Clicks, WriteFails(c) \/ WriteRefused(c) PROVE Inv
  BY <1>10, <1>1 DEF WriteFails, WriteRefused, Say, pushVars, ClicksTyped, WritesClaimed, OneForm, OneCommit,
       Writing, Answers
<1>11. ASSUME NEW c \in Clicks, Commit(c) PROVE Inv
  <2> DEFINE r == clickRow[c]
             from == IF sawStatus[c] = "committed" THEN "committed" ELSE "confirmed"
  <2>1. /\ clickAt[c] = "ok" /\ r \in Pushes /\ values[c] \in Values /\ c \in landed
        /\ record[r] # NoValue /\ pushStatus[r] \in Claimed
        /\ once[r] => from = "confirmed"
        /\ UNCHANGED <<record, flight, landed, clickRow, values, sawStatus, sweep, found>>
    BY <1>11 DEF Commit, WritesClaimed, ClicksTyped, Writing, OneCommit
  <2>2. CASE /\ pushStatus[r] = from
             /\ pushStatus' = [pushStatus EXCEPT ![r] = "committed"]
             /\ submission' = [submission EXCEPT ![r] = values[c]]
             /\ Say(c, "committed")
    <3>1. ClicksTyped'
      BY <1>1, <2>1, <2>2 DEF ClicksTyped, Statuses, Say, Answers
    <3>2. WritesClaimed'
      BY <2>1, <2>2 DEF ClicksTyped, WritesClaimed, Writing, Say
    <3>3. OneForm'
      BY <1>1, <2>1, <2>2 DEF ClicksTyped, OneForm, Writing, Say
    <3>4. OneCommit'
      BY <1>1, <2>1, <2>2 DEF ClicksTyped, WritesClaimed, OneCommit, Say
    <3> QED BY <2>1, <2>2, <3>1, <3>2, <3>3, <3>4 DEF ClicksTyped
  <2>3. CASE UNCHANGED <<pushStatus, submission>> /\ \E a \in {"noop", "retry"} : Say(c, a)
    <3>1. ClicksTyped'
      BY <1>1, <2>1, <2>3 DEF ClicksTyped, Say, Answers
    <3>2. WritesClaimed' /\ OneForm' /\ OneCommit'
      BY <1>1, <2>1, <2>3 DEF ClicksTyped, WritesClaimed, OneForm, OneCommit, Writing, Say
    <3> QED BY <2>1, <2>3, <3>1, <3>2
  <2> QED BY <1>11, <2>2, <2>3 DEF Commit
<1>12. CASE ExpiryFlip
  <2>1. PICK r \in Pushes, st \in Open : sweep = <<r, st>>
    BY <1>12 DEF ExpiryFlip, ClicksTyped
  <2>2. /\ \/ UNCHANGED pushStatus
           \/ pushStatus[r] \in Open /\ pushStatus' = [pushStatus EXCEPT ![r] = "expired"]
        /\ sweep' = NoValue
        /\ UNCHANGED <<submission, record, flight, clickVars, landed, found>>
    BY <1>12, <2>1 DEF ExpiryFlip
  <2>3. ClicksTyped'
    BY <1>1, <2>2 DEF ClicksTyped, clickVars, Statuses
  <2>4. WritesClaimed' /\ OneForm' /\ OneCommit'
    BY <1>1, <2>2 DEF ClicksTyped, WritesClaimed, OneForm, OneCommit, Writing, clickVars, Open
  <2> QED BY <2>2, <2>3, <2>4 DEF Open, ClicksTyped
<1>13. CASE ReconcileCommit
  <2>1. found \in Pushes /\ record[found] # NoValue
    BY <1>13 DEF ReconcileCommit, ClicksTyped, WritesClaimed
  <2>2. /\ \/ UNCHANGED <<pushStatus, submission>>
           \/ /\ pushStatus[found] = "confirmed" /\ pushStatus' = [pushStatus EXCEPT ![found] = "committed"]
              /\ submission' = [submission EXCEPT ![found] = record[found]]
        /\ found' = NoValue
        /\ UNCHANGED <<record, flight, clickVars, landed, sweep>>
    BY <1>13 DEF ReconcileCommit
  <2>3. ClicksTyped'
    BY <1>1, <2>1, <2>2 DEF ClicksTyped, clickVars, Statuses
  <2>4. WritesClaimed' /\ OneForm'
    BY <1>1, <2>1, <2>2 DEF ClicksTyped, WritesClaimed, OneForm, Writing, clickVars
  <2>5. OneCommit'
    BY <1>1, <2>1, <2>2 DEF ClicksTyped, WritesClaimed, OneCommit, clickVars
  <2> QED BY <2>1, <2>2, <2>3, <2>4, <2>5 DEF ClicksTyped
<1>14. CASE ConfirmDies
  BY <1>14, <1>1 DEF ConfirmDies, pushVars, ClicksTyped, WritesClaimed, OneForm, OneCommit, Writing
<1> QED BY <1>2, <1>3, <1>4, <1>5, <1>6, <1>7, <1>8, <1>9, <1>10, <1>11, <1>12, <1>13, <1>14
     DEF ConfirmNext, Step

\* Whatever clicks, late answers, sweeps and restarts do, a row says what the backend
\* holds, none the backend has is given up, and one click is told it was recorded
\* (handle_confirm, advance_status, run_expiry_sweep, run_reconcile_sweep).
THEOREM RowsMatchRecords == ConfirmSpec => []RowMatchesRecord
<1>1. ConfirmInv => RowMatchesRecord
  <2> SUFFICES ASSUME ConfirmInv PROVE SubmissionIsRecord /\ OneGreenCard
    BY DEF ConfirmInv, RowMatchesRecord
  <2> USE ConfirmAssumption DEF ConfirmInv
  <2>1. SubmissionIsRecord
    BY DEF SubmissionIsRecord, OneForm, CommittedIsRecorded, Claimed
  <2>2. OneGreenCard
    BY DEF OneGreenCard, OneCommit, WritesClaimed
  <2> QED BY <2>1, <2>2
<1> QED BY <1>1, ConfirmStarts, ConfirmInductive, PTL DEF ConfirmSpec

-----------------------------------------------------------------------------
(* A row only moves on.                                                        *)

\* Where a row may be one step later.
Later(s) ==
    CASE s = "pending" -> {"pending", "clarifying", "expired"}
      [] s = "clarifying" -> {"clarifying", "confirmed", "expired"}
      [] s = "confirmed" -> {"confirmed", "committed"}
      [] OTHER -> {s}

\* A row is never opened again: a claim is not taken back, a commit and an expiry are final.
\* The backend's record stays, and so does what a committed row that is submitted once and
\* not edited says was submitted.
Advances ==
    \A r \in Pushes :
        /\ pushStatus'[r] \in Later(pushStatus[r])
        /\ record[r] # NoValue => record'[r] = record[r]
        /\ pushStatus[r] = "committed" /\ once[r] /\ ~editable[r] => submission'[r] = submission[r]

RowsOnlyAdvance == [][Advances]_confirmVars

\* Each step moves a row on or leaves it; a click that commits writes what was claimed.
LEMMA StepAdvances == ASSUME ConfirmInv, ConfirmNext PROVE Advances
<1> USE ConfirmAssumption DEF ConfirmInv, ClicksTyped, Advances, Later, Statuses, Open
<1>1. ASSUME UNCHANGED <<pushStatus, submission, record>> PROVE Advances
  BY <1>1
<1>2. ASSUME NEW r \in Pushes, NEW v \in Values, Fill(r, v) PROVE Advances
  BY <1>2 DEF Fill
<1>3. ASSUME NEW r \in Pushes, Recall(r) PROVE Advances
  BY <1>3 DEF Recall
<1>4. ASSUME NEW c \in Clicks, Claim(c) PROVE Advances
  <2>1. /\ record' = record
        /\ \A r \in Pushes :
              \/ pushStatus'[r] = pushStatus[r] /\ submission'[r] = submission[r]
              \/ pushStatus[r] = "clarifying" /\ pushStatus'[r] = "confirmed"
    BY <1>4 DEF Claim
  <2> QED
    BY <2>1
<1>5. ASSUME NEW c \in Clicks, Land(c) PROVE Advances
  <2>1. /\ UNCHANGED <<pushStatus, submission>>
        /\ \A r \in Pushes : record[r] # NoValue => record'[r] = record[r]
    BY <1>5 DEF Land, pushVars
  <2> QED
    BY <2>1
<1>6. ASSUME NEW c \in Clicks, Commit(c) PROVE Advances
  <2> DEFINE r == clickRow[c]
  <2>1. r \in Pushes /\ (once[r] /\ ~editable[r] => values[c] = submission[r]) /\ record' = record
    BY <1>6 DEF Commit, WritesClaimed, OneForm, Writing
  <2>2. \/ UNCHANGED <<pushStatus, submission>>
        \/ /\ pushStatus[r] \in Claimed
           /\ pushStatus' = [pushStatus EXCEPT ![r] = "committed"]
           /\ submission' = [submission EXCEPT ![r] = values[c]]
    BY <1>6 DEF Commit, Claimed
  <2> HIDE DEF r
  <2> QED
    BY <2>1, <2>2 DEF Claimed
<1>7. CASE ExpiryFlip
  <2>1. /\ UNCHANGED <<submission, record>>
        /\ \A r \in Pushes : \/ pushStatus'[r] = pushStatus[r]
                             \/ pushStatus[r] \in Open /\ pushStatus'[r] = "expired"
    <3>1. sweep \in Pushes \X Open
      BY <1>7 DEF ExpiryFlip
    <3>2. sweep[1] \in Pushes /\ sweep[2] \in Open
      BY <3>1
    <3> QED
      BY <1>7, <3>2 DEF ExpiryFlip
  <2> QED
    BY <2>1
<1>8. CASE ReconcileCommit
  BY <1>8 DEF ReconcileCommit
<1>9. CASE ConfirmDies
  BY <1>9, <1>1 DEF ConfirmDies, pushVars
<1>10. ASSUME NEW r \in Pushes,
              \/ BecomeDue(r) \/ ExpiryRead(r) \/ ReconcileRead(r)
              \/ \E c \in Clicks, form \in Values \cup {NoValue} : Click(c, r, form)
       PROVE  Advances
  <2>1. UNCHANGED <<pushStatus, submission, record>>
    BY <1>10 DEF BecomeDue, ExpiryRead, ReconcileRead, Click, pushVars
  <2> QED
    BY <2>1, <1>1
<1>11. ASSUME NEW c \in Clicks, SendWrite(c) \/ WriteOk(c) \/ WriteFails(c) \/ WriteRefused(c)
       PROVE  Advances
  <2>1. UNCHANGED <<pushStatus, submission, record>>
    BY <1>11 DEF SendWrite, WriteOk, WriteFails, WriteRefused, pushVars
  <2> QED
    BY <2>1, <1>1
<1> HIDE DEF Advances
<1> QED BY <1>2, <1>3, <1>4, <1>5, <1>6, <1>7, <1>8, <1>9, <1>10, <1>11 DEF ConfirmNext, Step

\* No click, late answer, sweep or restart takes a row back (advance_status compares the
\* status it read; the backend keeps the first record), for any cards and clicks.
THEOREM RowsNeverGoBack == ConfirmSpec => RowsOnlyAdvance
<1>1. ConfirmInv /\ [ConfirmNext]_confirmVars => [Advances]_confirmVars
  BY StepAdvances
<1> QED BY <1>1, ConfirmStarts, ConfirmInductive, PTL DEF ConfirmSpec, RowsOnlyAdvance
=============================================================================
