---------------------------- MODULE StreamCard ----------------------------
(***************************************************************************)
(* The streaming card of one reply (card/streaming_controller.py and       *)
(* card/flush_controller.py).                                              *)
(*                                                                         *)
(* Coroutines that report content, tools or the end of the reply share the *)
(* card's state.  Content goes through a FlushController, which coalesces  *)
(* frames and promises the trailing one; tool and status frames are        *)
(* written at once.  Every write to Feishu carries the next sequence       *)
(* number and is made under the card's write lock; the final delivery      *)
(* falls back from the CardKit card to an IM patch and then to plain text. *)
(* A call is made in a thread (asyncio.to_thread): a coroutine that is     *)
(* cancelled gives the lock up while its call is still on the wire.        *)
(* A frame is abstracted to the version of the content it renders.         *)
(***************************************************************************)
EXTENDS Naturals

CONSTANTS Tasks,      \* coroutines and the flush tasks they leave behind
          Nobody,
          MaxVersion, \* BOUND: content updates of the reply
          MaxSide,    \* BOUND: tool and status updates
          MaxFaults,  \* BOUND: calls that Feishu refuses
          MaxCancels  \* BOUND: coroutines that are cancelled

ASSUME StreamAssumption ==
  /\ MaxVersion \in Nat \ {0} /\ MaxSide \in Nat /\ MaxFaults \in Nat
  /\ MaxCancels \in Nat
  /\ Nobody \notin Tasks

VARIABLES
  stage,      \* "none", "streaming" or "failed" (the card was not created)
  hasCard,    \* original_card_id: the card is a CardKit card
  cardId,     \* card_id is still set
  ended,      \* "no", or how the state became terminal
  unavail,    \* the UnavailableGuard has marked the message
  version,    \* the content of the state
  side,       \* tool and status updates so far
  flushed,    \* last_flushed_text, 0 when missing
  sequence,   \* the last sequence number handed out
  accepted,   \* the highest sequence number Feishu has seen
  shownV,     \* the version the user sees
  delivered,  \* "no", or what brought the final content: "card", "patch" or "text"
  lock,       \* who holds the card's write lock
  task,       \* a coroutine's place and the version it renders
  ctl,        \* the FlushController: in flight, needs_reflush, timer, last update, and
              \* (history) whether a frame was lost since the last flush began
  stray,      \* (history) of cancelled coroutines: their calls on the wire, whether the
              \* final delivery was among them, how many there were
  faults

streamVars == <<stage, hasCard, cardId, ended, unavail, version, side, flushed,
                sequence, accepted, shownV, delivered, lock, task, ctl, stray, faults>>

Kinds == {"content", "side", "finalize", "abort", "fail"}
Endings == {"finalize", "abort", "fail"}
Places == {"idle", "again", "write", "frame", "writing", "framing", "reopen",
           "retry", "reopenSide", "retrySide", "patch", "patching", "final",
           "fstream", "freopen", "fretry", "fclose", "fupdate", "fpatch", "ftext"}
IdleTask == [pc |-> "idle", v |-> 0]

\* The places where a call is on the wire; those of calls with a sequence number; those
\* whose call shows the version it renders.
Calling == {"writing", "framing", "reopen", "retry", "reopenSide", "retrySide",
            "fstream", "freopen", "fretry", "fclose", "fupdate"}
OnWire == Calling \cup {"patching", "fpatch", "ftext"}
Showing == {"writing", "retry", "fstream", "fretry", "fupdate", "patching", "fpatch"}

TaskSet == [pc : Places, v : 0 .. MaxVersion + 1]
Controllers == [busy : BOOLEAN, reflush : BOOLEAN, timer : BOOLEAN, fresh : BOOLEAN,
                lost : BOOLEAN]
Strays == [calls : SUBSET [pc : OnWire, seq : Nat, v : 0 .. MaxVersion + 1],
           final : BOOLEAN, count : 0 .. MaxCancels]

StreamTypeOK ==
  /\ stage \in {"none", "streaming", "failed"}
  /\ hasCard \in BOOLEAN /\ cardId \in BOOLEAN /\ unavail \in BOOLEAN
  /\ ended \in {"no"} \cup Endings
  /\ version \in 0 .. MaxVersion + 1 /\ side \in 0 .. MaxSide
  /\ flushed \in 0 .. MaxVersion + 1
  /\ sequence \in Nat /\ accepted \in Nat
  /\ shownV \in 0 .. MaxVersion + 1
  /\ delivered \in {"no", "card", "patch", "text"}
  /\ lock \in Tasks \cup {Nobody}
  /\ task \in [Tasks -> TaskSet]
  /\ ctl \in Controllers /\ stray \in Strays
  /\ faults \in 0 .. MaxFaults

StreamInit ==
  /\ stage = "none" /\ ended = "no" /\ delivered = "no"
  /\ hasCard = FALSE /\ cardId = FALSE /\ unavail = FALSE
  /\ version = 0 /\ side = 0 /\ flushed = 0 /\ shownV = 0 /\ faults = 0
  /\ sequence = 0 /\ accepted = 0
  /\ lock = Nobody
  /\ task = [t \in Tasks |-> IdleTask]
  /\ ctl = [busy |-> FALSE, reflush |-> FALSE, timer |-> FALSE, fresh |-> TRUE,
            lost |-> FALSE]
  /\ stray = [calls |-> {}, final |-> FALSE, count |-> 0]

\* _is_terminal_state, also of a message that is a tombstone.
TerminalState == ended # "no"

At(t, pc) == task[t].pc = pc
Go(t, pc) == task' = [task EXCEPT ![t].pc = pc]
Rest(t) == task' = [task EXCEPT ![t] = IdleTask]

-----------------------------------------------------------------------------
\* _start_streaming_card: a CardKit card, the IM fallback, or no card.
StartCard(kit) ==
  /\ stage = "none"
  /\ stage' = "streaming"
  /\ hasCard' = kit /\ cardId' = kit
  /\ sequence' = IF kit THEN 1 ELSE 0
  /\ accepted' = sequence'
  /\ UNCHANGED <<ended, unavail, version, side, flushed, shownV, delivered, lock,
                 task, ctl, faults, stray>>

StartFails ==
  /\ stage = "none"
  /\ stage' = "failed"
  /\ UNCHANGED <<hasCard, cardId, ended, unavail, version, side, flushed, sequence,
                 accepted, shownV, delivered, lock, task, ctl, faults, stray>>

-----------------------------------------------------------------------------
\* Mutant: a flush that finds another in flight leaves no note.
FlushForgetting(t, v, c) ==
  IF ctl.busy THEN Rest(t) /\ UNCHANGED ctl
  ELSE IF TerminalState \/ (hasCard /\ (~c \/ v = flushed)) THEN Rest(t) /\ UNCHANGED ctl
  ELSE /\ ctl' = [ctl EXCEPT !.busy = TRUE, !.fresh = FALSE, !.lost = FALSE]
       /\ task' = [task EXCEPT ![t] = [pc |-> IF hasCard THEN "write" ELSE "patch", v |-> v]]

(* FlushController.flush: the body of _flush_state, or a note that the     *)
(* holder must run again.  v is the version of the state it renders, and c *)
(* says whether the card id is still set.                                  *)
Flush(t, v, c) ==
  \/ /\ ctl.busy
     /\ ctl' = [ctl EXCEPT !.reflush = TRUE]
     /\ Rest(t)
  \/ /\ ~ctl.busy
     /\ \/ /\ TerminalState \/ (hasCard /\ (~c \/ v = flushed))
           /\ ctl' = [ctl EXCEPT !.fresh = FALSE, !.lost = FALSE]
           /\ Rest(t)
        \/ /\ ~TerminalState
           /\ hasCard => c /\ v # flushed
           /\ ctl' = [ctl EXCEPT !.busy = TRUE, !.fresh = FALSE, !.lost = FALSE]
           /\ task' = [task EXCEPT ![t] =
                         [pc |-> IF hasCard THEN "write" ELSE "patch", v |-> v]]

(* FlushController.throttled_update: flush the first frame and those that  *)
(* come after the throttle window; otherwise one timer, armed here or      *)
(* already, will render the latest state.                                  *)
Throttled(t, v, c) ==
  \/ ~ctl.timer /\ Flush(t, v, c)
  \/ /\ ctl.timer \/ ~ctl.fresh
     /\ ctl' = [ctl EXCEPT !.timer = TRUE]
     /\ Rest(t)

\* _fire_pending.
TimerFires(t) ==
  /\ ctl.timer /\ At(t, "idle")
  /\ ctl' = [ctl EXCEPT !.timer = FALSE]
  /\ Go(t, "again")
  /\ UNCHANGED <<stage, hasCard, cardId, ended, unavail, version, side, flushed,
                 sequence, accepted, shownV, delivered, lock, faults, stray>>

\* The task of a fired timer, or of a reflush, enters flush.
FlushTask(t) ==
  /\ At(t, "again")
  /\ Flush(t, version, cardId)
  /\ UNCHANGED <<stage, hasCard, cardId, ended, unavail, version, side, flushed,
                 sequence, accepted, shownV, delivered, lock, faults, stray>>

\* flush returns: a follow-up task is created when one was asked for.
FlushReturns(t) ==
  /\ ctl' = [ctl EXCEPT !.busy = FALSE, !.reflush = FALSE]
  /\ task' = [task EXCEPT ![t] = [pc |-> IF ctl.reflush THEN "again" ELSE "idle", v |-> 0]]

-----------------------------------------------------------------------------
(* An update of the state is made under the write lock and dropped when    *)
(* the state is terminal or the message unavailable.                       *)
Open == stage = "streaming" /\ ~unavail /\ ~TerminalState

NewContent(t) ==
  /\ Open /\ At(t, "idle") /\ lock = Nobody
  /\ version < MaxVersion
  /\ version' = version + 1
  /\ Throttled(t, version + 1, cardId)
  /\ UNCHANGED <<stage, hasCard, cardId, ended, unavail, side, flushed, sequence,
                 accepted, shownV, delivered, lock, faults, stray>>

UpdateCard(t) == NewContent(t)
UpdateReasoning(t) == NewContent(t)

\* Tools and the status have a frame of their own while the CardKit card is usable.
NewSide(t) ==
  /\ Open /\ At(t, "idle") /\ lock = Nobody
  /\ side < MaxSide
  /\ side' = side + 1
  /\ \/ cardId /\ Go(t, "frame") /\ UNCHANGED ctl
     \/ ~cardId /\ Throttled(t, version, cardId)
  /\ UNCHANGED <<stage, hasCard, cardId, ended, unavail, version, flushed, sequence,
                 accepted, shownV, delivered, lock, faults, stray>>

ToolStarted(t) == NewSide(t)
ToolCompleted(t) == NewSide(t)
StatusUpdate(t) == NewSide(t)

(* The end of the reply.  The final content is a version of its own, and   *)
(* an armed timer is cancelled.                                            *)
EndCard(t, how) ==
  /\ Open /\ At(t, "idle") /\ lock = Nobody
  /\ ended' = how
  /\ version' = version + 1
  /\ ctl' = [ctl EXCEPT !.timer = FALSE]
  /\ task' = [task EXCEPT ![t] = [pc |-> "final", v |-> version + 1]]
  /\ UNCHANGED <<stage, hasCard, cardId, unavail, side, flushed, sequence, accepted,
                 shownV, delivered, lock, faults, stray>>

FinalizeCard(t) == EndCard(t, "finalize")
AbortCard(t) == EndCard(t, "abort")
FailCard(t) == EndCard(t, "fail")

-----------------------------------------------------------------------------
\* A call to Feishu with the next sequence number.
Call(t, pc) ==
  /\ sequence' = sequence + 1
  /\ Go(t, pc)
NoCall == UNCHANGED sequence

\* Mutant: a frame does not wait for the lock.
TakeWriteLockUnlocked(t) ==
  /\ task[t].pc \in {"write", "frame"} /\ ~TerminalState /\ cardId
  /\ Call(t, IF At(t, "write") THEN "writing" ELSE "framing")
  /\ UNCHANGED <<stage, hasCard, cardId, ended, unavail, version, side, flushed,
                 accepted, shownV, delivered, lock, ctl, faults, stray>>

\* Mutant: the state is not looked at again under the lock.
TakeWriteLockBlind(t) ==
  /\ task[t].pc \in {"write", "frame"} /\ lock = Nobody
  /\ lock' = t
  /\ Call(t, IF At(t, "write") THEN "writing" ELSE "framing")
  /\ UNCHANGED <<stage, hasCard, cardId, ended, unavail, version, side, flushed,
                 accepted, shownV, delivered, ctl, faults, stray>>

(* _write_cardkit_frame: under the lock the state is looked at again.  A   *)
(* frame that finds it terminal counts as written.                         *)
TakeWriteLock(t) ==
  /\ task[t].pc \in {"write", "frame"} /\ lock = Nobody
  /\ \/ /\ TerminalState
        /\ flushed' = IF At(t, "write") THEN task[t].v ELSE flushed
        /\ IF At(t, "write") THEN FlushReturns(t) ELSE Rest(t) /\ UNCHANGED ctl
        /\ UNCHANGED <<lock, sequence>>
     \/ /\ ~TerminalState /\ ~cardId
        /\ IF At(t, "write") THEN FlushReturns(t) ELSE Throttled(t, version, cardId)
        /\ UNCHANGED <<lock, sequence, flushed>>
     \/ /\ ~TerminalState /\ cardId
        /\ lock' = t
        /\ Call(t, IF At(t, "write") THEN "writing" ELSE "framing")
        /\ UNCHANGED <<flushed, ctl>>
  /\ UNCHANGED <<stage, hasCard, cardId, ended, unavail, version, side, accepted,
                 shownV, delivered, faults, stray>>

IsContent(t) == task[t].pc \in {"writing", "reopen", "retry"}

\* Feishu takes a frame, or the request to reopen the stream.
FrameAccepted(t) ==
  /\ task[t].pc \in {"writing", "framing", "retry", "retrySide"}
  /\ accepted' = sequence
  /\ lock' = Nobody
  /\ IF IsContent(t)
     THEN shownV' = task[t].v /\ flushed' = task[t].v /\ FlushReturns(t)
     ELSE Rest(t) /\ UNCHANGED <<shownV, flushed, ctl>>
  /\ NoCall
  /\ UNCHANGED <<stage, hasCard, cardId, ended, unavail, version, side, delivered, faults, stray>>

Reopened(t) ==
  /\ task[t].pc \in {"reopen", "reopenSide"}
  /\ accepted' = sequence
  /\ Call(t, IF IsContent(t) THEN "retry" ELSE "retrySide")
  /\ UNCHANGED <<stage, hasCard, cardId, ended, unavail, version, side, flushed,
                 shownV, delivered, lock, ctl, faults, stray>>

Fault == faults < MaxFaults /\ faults' = faults + 1

\* Feishu has closed the stream: _recover_closed_stream reopens it once.
StreamClosed(t) ==
  /\ task[t].pc \in {"writing", "framing"}
  /\ Fault
  /\ Call(t, IF IsContent(t) THEN "reopen" ELSE "reopenSide")
  /\ UNCHANGED <<stage, hasCard, cardId, ended, unavail, version, side, flushed,
                 accepted, shownV, delivered, lock, ctl, stray>>

(* _handle_cardkit_exc: a rate limit skips the frame, an unavailable       *)
(* message is marked, and any other error gives the CardKit card up.  The  *)
(* frame of a tool or a status then goes through the flush controller.     *)
FrameRefused(t, why) ==
  /\ task[t].pc \in {"writing", "framing", "reopen", "reopenSide", "retry", "retrySide"}
  /\ Fault
  /\ lock' = Nobody
  /\ unavail' = (unavail \/ why = "unavailable")
  /\ cardId' = (cardId /\ why # "other")
  /\ IF IsContent(t) THEN FlushReturns(t)
     ELSE IF why = "other" THEN Throttled(t, version, FALSE)
     ELSE Rest(t) /\ UNCHANGED ctl
  /\ UNCHANGED <<stage, hasCard, ended, version, side, flushed, sequence, accepted,
                 shownV, delivered, stray>>

\* The IM fallback of a card without CardKit: _patch_interactive_state.
TakePatchLock(t) ==
  /\ At(t, "patch") /\ lock = Nobody
  /\ \/ /\ TerminalState
        /\ FlushReturns(t)
        /\ UNCHANGED lock
     \/ /\ ~TerminalState
        /\ lock' = t
        /\ task' = [task EXCEPT ![t] = [pc |-> "patching", v |-> version]]
        /\ UNCHANGED ctl
  /\ UNCHANGED <<stage, hasCard, cardId, ended, unavail, version, side, flushed,
                 sequence, accepted, shownV, delivered, faults, stray>>

Patched(t, ok) ==
  /\ At(t, "patching")
  /\ lock' = Nobody
  /\ FlushReturns(t)
  /\ \/ ok /\ shownV' = task[t].v /\ UNCHANGED faults
     \/ ~ok /\ Fault /\ UNCHANGED shownV
  /\ UNCHANGED <<stage, hasCard, cardId, ended, unavail, version, side, flushed,
                 sequence, accepted, delivered, stray>>

-----------------------------------------------------------------------------
FinalPlaces == {"final", "fstream", "freopen", "fretry", "fclose", "fupdate", "fpatch",
                "ftext"}

\* _deliver_final_card, under the lock: one call after the other.
TakeFinalLock(t) ==
  /\ At(t, "final") /\ lock = Nobody
  /\ lock' = t
  /\ \/ cardId /\ Call(t, "fstream")
     \/ ~cardId /\ hasCard /\ Call(t, "fclose")
     \/ ~hasCard /\ Go(t, "fpatch") /\ NoCall
  /\ UNCHANGED <<stage, hasCard, cardId, ended, unavail, version, side, flushed,
                 accepted, shownV, delivered, ctl, faults, stray>>

\* The place that follows an accepted call of the final delivery.
FinalNext(pc) ==
  CASE pc = "fstream" -> "fclose"
    [] pc = "freopen" -> "fretry"
    [] pc = "fretry"  -> "fclose"
    [] pc = "fclose"  -> "fupdate"

FinalAccepted(t) ==
  /\ task[t].pc \in {"fstream", "freopen", "fretry", "fclose"}
  /\ accepted' = sequence
  /\ shownV' = IF task[t].pc \in {"fstream", "fretry"} THEN version ELSE shownV
  /\ Call(t, FinalNext(task[t].pc))
  /\ UNCHANGED <<stage, hasCard, cardId, ended, unavail, version, side, flushed,
                 delivered, lock, ctl, faults, stray>>

\* A refused call: the stream is reopened once, and what fails falls back.
FinalFallback(pc, why) ==
  CASE pc = "fstream" /\ why = "closed"                  -> "freopen"
    [] pc \in {"fstream", "freopen", "fretry"} /\ ~(pc = "fstream" /\ why = "closed") -> "fclose"
    [] pc \in {"fclose", "fupdate"}                      -> "fpatch"
    [] pc = "fpatch"                                     -> "ftext"

FinalRefused(t, why) ==
  LET pc == task[t].pc
      next == FinalFallback(pc, why) IN
  /\ pc \in {"fstream", "freopen", "fretry", "fclose", "fupdate", "fpatch"}
  /\ Fault
  /\ unavail' = (unavail \/ (why = "unavailable" /\ pc # "fpatch"))
  /\ cardId' = (cardId /\ ~(pc \in {"fstream", "freopen", "fretry"} /\ next = "fclose"
                            /\ why \in {"closed", "other"}))
  /\ IF next \in {"freopen", "fclose"} THEN Call(t, next) ELSE Go(t, next) /\ NoCall
  /\ UNCHANGED <<stage, hasCard, ended, version, side, flushed, accepted, shownV,
                 delivered, lock, ctl, stray>>

\* What a call of the final delivery brings to the reader.
Brings(pc) ==
  CASE pc = "fupdate" -> "card" [] pc = "fpatch" -> "patch" [] pc = "ftext" -> "text"
    [] OTHER -> delivered

\* The delivery ends: the final card, the patch or the text was taken, or
\* nothing was.  A delivered message becomes a tombstone.
FinalEnds(t, ok) ==
  LET pc == task[t].pc IN
  /\ pc \in {"fupdate", "fpatch", "ftext"}
  /\ ok \/ pc = "ftext"
  /\ lock' = Nobody
  /\ Rest(t)
  /\ accepted' = IF pc = "fupdate" THEN sequence ELSE accepted
  /\ \/ ok /\ delivered' = Brings(pc) /\ UNCHANGED faults
        /\ shownV' = IF pc \in Showing THEN version ELSE shownV
     \/ ~ok /\ Fault /\ UNCHANGED <<delivered, shownV>>
  /\ UNCHANGED <<stage, hasCard, cardId, ended, unavail, version, side, flushed,
                 sequence, ctl, stray>>

-----------------------------------------------------------------------------
InFlush(t) == task[t].pc \in {"write", "patch", "patching"} \/ IsContent(t)

(* A coroutine is cancelled where it awaits: the heartbeat at the end of   *)
(* its stream, the turn and what it awaits by /stop, every task when the   *)
(* gateway shuts down.  Its locks are released and flush is not in flight  *)
(* any more; a note stays, and nobody is created to follow it up.  The     *)
(* thread goes on with the call.                                           *)
CancelTask(t) ==
  LET pc == task[t].pc IN
  /\ pc # "idle" /\ stray.count < MaxCancels
  /\ Rest(t)
  /\ lock' = IF lock = t THEN Nobody ELSE lock
  /\ ctl' = [ctl EXCEPT !.busy = @ /\ ~InFlush(t), !.lost = @ \/ InFlush(t) \/ pc = "again"]
  /\ stray' = [calls |-> stray.calls \cup [pc : OnWire \cap {pc}, seq : {sequence}, v : {task[t].v}],
               final |-> stray.final \/ pc \in FinalPlaces,
               count |-> stray.count + 1]
  /\ UNCHANGED <<stage, hasCard, cardId, ended, unavail, version, side, flushed,
                 sequence, accepted, shownV, delivered, faults>>

(* The call of a cancelled coroutine arrives.  Feishu refuses a number     *)
(* that is not above those it has seen; a patch and a text have none.      *)
LateCall(c) ==
  /\ c \in stray.calls
  /\ stray' = [stray EXCEPT !.calls = @ \ {c}]
  /\ \/ c.pc \in Calling /\ c.seq <= accepted
        /\ UNCHANGED <<accepted, shownV, delivered, ctl>>
     \/ /\ c.pc \in Calling => c.seq > accepted
        /\ accepted' = IF c.pc \in Calling THEN c.seq ELSE accepted
        /\ shownV' = IF c.pc \in Showing THEN c.v ELSE shownV
        /\ delivered' = Brings(c.pc)
        /\ ctl' = [ctl EXCEPT !.lost = @ \/ c.pc = "patching"]
  /\ UNCHANGED <<stage, hasCard, cardId, ended, unavail, version, side, flushed,
                 sequence, lock, task, faults>>

Reasons == {"rate", "unavailable", "other"}

StreamTask(t) ==
  \/ TimerFires(t) \/ FlushTask(t) \/ TakeWriteLock(t) \/ FrameAccepted(t)
  \/ Reopened(t) \/ TakePatchLock(t) \/ Patched(t, TRUE) \/ TakeFinalLock(t)
  \/ FinalAccepted(t) \/ FinalEnds(t, TRUE)

StreamFault(t) ==
  \/ StreamClosed(t) \/ Patched(t, FALSE) \/ FinalEnds(t, FALSE)
  \/ \E why \in Reasons : FrameRefused(t, why)
  \/ \E why \in Reasons \cup {"closed"} : FinalRefused(t, why)

StreamNext ==
  \/ \E kit \in BOOLEAN : StartCard(kit)
  \/ StartFails
  \/ \E t \in Tasks :
       \/ UpdateCard(t) \/ UpdateReasoning(t)
       \/ ToolStarted(t) \/ ToolCompleted(t) \/ StatusUpdate(t)
       \/ FinalizeCard(t) \/ AbortCard(t) \/ FailCard(t)
       \/ StreamTask(t)
       \/ StreamFault(t)
       \/ CancelTask(t)
  \/ \E c \in stray.calls : LateCall(c)

StreamFairness == \A t \in Tasks : WF_streamVars(StreamTask(t))

StreamSpec == StreamInit /\ [][StreamNext]_streamVars /\ StreamFairness

-----------------------------------------------------------------------------
(* Calls of frames and of the final delivery overlap at their awaits, and  *)
(* those of cancelled coroutines with the next ones.  Yet one call at a    *)
(* time has somebody waiting for it, and its number is above all those     *)
(* Feishu has seen or may still see: it is not refused for its number      *)
(* (_card_write_lock, _next_sequence).                                     *)
SequencesRise ==
  /\ StreamTypeOK
  /\ \A t, u \in Tasks : task[t].pc \in Calling /\ task[u].pc \in Calling => t = u
  /\ (\E t \in Tasks : task[t].pc \in Calling) =>
        accepted < sequence /\ \A c \in stray.calls : c.pc \in Calling => c.seq < sequence

(* After the end only the final content is shown, but for the call of a    *)
(* cancelled coroutine; a reply is delivered once; and the final CardKit   *)
(* card stands: nothing that was rendered, queued, retried or cancelled    *)
(* before lands on it.  A final patch, which has no number, can be         *)
(* overtaken by the call of a cancelled coroutine and by no other          *)
(* (_write_cardkit_frame, the cancelled timer of _flush_state).            *)
FinalStands ==
  [][/\ ended # "no" /\ shownV' # shownV => shownV' = version' \/ stray'.calls # stray.calls
     /\ delivered # "no" => UNCHANGED delivered
     /\ delivered # "no" /\ stray'.calls = stray.calls => UNCHANGED <<shownV, accepted>>
     /\ delivered = "card" => UNCHANGED <<shownV, accepted>>]_streamVars

(* What Feishu is sent arrives in order and is not overtaken.              *)
CardInOrder == []SequencesRise /\ FinalStands

(* While nothing is refused and the reply goes on, the card catches up     *)
(* with the state: the trailing frame is neither coalesced away nor lost   *)
(* behind a call in flight (FlushController).  A cancelled flush, and a    *)
(* cancelled patch that lands late, leave the card behind until the next   *)
(* flush begins, and no longer.  And a reply that has ended reaches its    *)
(* reader, by the card or by plain text, whenever fewer calls are refused  *)
(* than the fallback has tiers and its delivery is not cancelled           *)
(* (_deliver_final_card).                                                  *)
TrailingLands ==
  /\ []<>(shownV = version \/ faults > 0 \/ ended # "no" \/ stage # "streaming" \/ ctl.lost)
  /\ ended # "no" ~> (delivered # "no" \/ faults >= (IF hasCard THEN 3 ELSE 2) \/ stray.final)
=============================================================================
