--------------------------- MODULE DeliveryProofs ---------------------------
(***************************************************************************)
(* Theorems about what is delivered: a streaming card that shows what its  *)
(* task said last, and cron runs of which every claim is accounted for.    *)
(***************************************************************************)
EXTENDS StreamCard, CronRuns, FiniteSetTheorems, TLAPS

-----------------------------------------------------------------------------
(* The streaming card. *)

FrameLocked == {"writing", "framing", "reopen", "retry", "reopenSide", "retrySide", "patching"}
FinalLocked == {"fstream", "freopen", "fretry", "fclose", "fupdate", "fpatch", "ftext"}

\* A call is made under the write lock and with a number Feishu has not seen.
CallsLocked ==
    \A t \in Tasks : /\ task[t].pc \in FrameLocked \cup FinalLocked => lock = t
                     /\ task[t].pc \in Calling => accepted < sequence

\* Once the reply has ended no frame is in flight, one task delivers the final card, and
\* nobody does after it was delivered.
EndsOnce ==
    /\ \A t \in Tasks : task[t].pc \in FrameLocked => ended = "no"
    /\ \A t \in Tasks : task[t].pc \in FinalPlaces => ended # "no" /\ delivered = "no"
    /\ \A t, u \in Tasks : task[t].pc \in FinalPlaces /\ task[u].pc \in FinalPlaces => t = u
    /\ delivered # "no" => ended # "no"
    /\ ended = "no" => version <= MaxVersion

\* Before the card there is nothing to flush.
StartsIdle ==
    stage # "streaming" => /\ ended = "no" /\ delivered = "no" /\ ~ctl.timer
                           /\ \A t \in Tasks : task[t].pc = "idle"

\* Inductive.
StreamInv == StreamTypeOK /\ accepted <= sequence /\ CallsLocked /\ EndsOnce /\ StartsIdle

\* Places that hold nothing.
Loose == {"idle", "again", "write", "patch", "frame"}
Lands(t, n) == task' = [task EXCEPT ![t] = n] /\ n.pc \in Loose /\ ctl' \in Controllers

LEMMA ControllerTypes ==
    ASSUME StreamTypeOK
    PROVE  /\ ctl \in Controllers
           /\ [ctl EXCEPT !.reflush = TRUE] \in Controllers /\ [ctl EXCEPT !.fresh = FALSE, !.lost = FALSE] \in Controllers
           /\ [ctl EXCEPT !.busy = TRUE, !.fresh = FALSE, !.lost = FALSE] \in Controllers
           /\ [ctl EXCEPT !.timer = TRUE] \in Controllers
           /\ [ctl EXCEPT !.busy = FALSE, !.reflush = FALSE] \in Controllers
           /\ [ctl EXCEPT !.timer = FALSE] \in Controllers /\ [ctl EXCEPT !.timer = FALSE].timer = FALSE
<1>1. ctl \in Controllers
  BY DEF StreamTypeOK
<1> QED BY <1>1 DEF Controllers

LEMMA RestLands ==
    ASSUME StreamTypeOK, NEW t \in Tasks, Rest(t), ctl' \in Controllers
    PROVE  \E n \in TaskSet : Lands(t, n)
<1>1. IdleTask \in TaskSet /\ IdleTask.pc \in Loose
  BY StreamAssumption DEF IdleTask, TaskSet, Places, Loose
<1> QED BY <1>1 DEF Rest, Lands

LEMMA FlushLands ==
    ASSUME StreamTypeOK, NEW t \in Tasks, NEW v \in 0 .. MaxVersion + 1, NEW c, Flush(t, v, c)
    PROVE  \E n \in TaskSet : Lands(t, n)
<1>1. ASSUME Rest(t), ctl' \in Controllers PROVE \E n \in TaskSet : Lands(t, n)
  BY <1>1, RestLands
<1>2. PICK m : m = [pc |-> IF hasCard THEN "write" ELSE "patch", v |-> v]
  OBVIOUS
<1>3. m \in TaskSet /\ m.pc \in Loose
  BY <1>2 DEF TaskSet, Places, Loose
<1>4. \/ Rest(t) /\ ctl' \in Controllers
      \/ task' = [task EXCEPT ![t] = m] /\ ctl' \in Controllers
  BY <1>2, ControllerTypes DEF Flush
<1> QED BY <1>1, <1>3, <1>4 DEF Lands

LEMMA ThrottledLands ==
    ASSUME StreamTypeOK, NEW t \in Tasks, NEW v \in 0 .. MaxVersion + 1, NEW c, Throttled(t, v, c)
    PROVE  \E n \in TaskSet : Lands(t, n)
<1>1. Flush(t, v, c) \/ (Rest(t) /\ ctl' \in Controllers)
  BY ControllerTypes DEF Throttled
<1> QED BY <1>1, FlushLands, RestLands

LEMMA ReturnLands ==
    ASSUME StreamTypeOK, NEW t \in Tasks, FlushReturns(t)
    PROVE  \E n \in TaskSet : Lands(t, n)
<1>1. PICK m : m = [pc |-> IF ctl.reflush THEN "again" ELSE "idle", v |-> 0]
  OBVIOUS
<1>2. m \in TaskSet /\ m.pc \in Loose
  BY <1>1, StreamAssumption DEF TaskSet, Places, Loose
<1>3. task' = [task EXCEPT ![t] = m] /\ ctl' \in Controllers
  BY <1>1, ControllerTypes DEF FlushReturns
<1> QED BY <1>2, <1>3 DEF Lands

\* A task whose call is over, or that had none, gives up at most its own lock.
LEMMA Landed ==
    ASSUME StreamInv, NEW t \in Tasks, NEW n \in TaskSet, Lands(t, n), stage = "streaming",
           UNCHANGED <<stage, ended, sequence>>,
           lock' = lock \/ (lock = t /\ lock' = Nobody),
           accepted' = accepted \/ (accepted' = sequence /\ lock = t),
           delivered' = delivered \/ (task[t].pc \in FinalPlaces /\ delivered' # "no"),
           version' \in Nat, ended = "no" => version' <= MaxVersion
    PROVE  accepted' <= sequence' /\ CallsLocked' /\ EndsOnce' /\ StartsIdle'
<1> USE StreamAssumption DEF StreamInv
<1>1. /\ task'[t] = n /\ \A u \in Tasks : u # t => task'[u] = task[u]
      /\ n.pc \in Loose
  BY DEF Lands, StreamTypeOK
<1>2. n.pc \notin FrameLocked \cup FinalLocked \cup Calling /\ n.pc \notin FinalPlaces
  BY <1>1 DEF Loose, FrameLocked, FinalLocked, FinalPlaces, Calling
<1>3. accepted \in Nat /\ sequence \in Nat
  BY DEF StreamTypeOK
<1>4. Calling \subseteq FrameLocked \cup FinalLocked
  BY DEF Calling, FrameLocked, FinalLocked
<1>5. CallsLocked'
  <2>1. ASSUME NEW u \in Tasks, u # t, task[u].pc \in FrameLocked \cup FinalLocked PROVE lock' = u /\ accepted' = accepted
    BY <2>1 DEF CallsLocked
  <2> QED BY <1>1, <1>2, <1>4, <2>1 DEF CallsLocked
<1>6. EndsOnce'
  <2>1. /\ \A u \in Tasks : task'[u].pc \in FrameLocked => ended' = "no"
        /\ \A u \in Tasks : task'[u].pc \in FinalPlaces => u # t /\ ended' # "no" /\ delivered' = "no"
    BY <1>1, <1>2 DEF EndsOnce
  <2>2. \A u, w \in Tasks : task'[u].pc \in FinalPlaces /\ task'[w].pc \in FinalPlaces => u = w
    BY <1>1, <1>2 DEF EndsOnce
  <2>3. delivered' # "no" => ended' # "no"
    BY DEF EndsOnce
  <2> QED BY <2>1, <2>2, <2>3 DEF EndsOnce
<1> QED BY <1>3, <1>5, <1>6 DEF StartsIdle

\* A task that holds the lock makes a call, or its next one.
LEMMA Called ==
    ASSUME StreamInv, NEW t \in Tasks, NEW n \in TaskSet, task' = [task EXCEPT ![t] = n], stage = "streaming",
           UNCHANGED <<stage, ended, delivered, version>>, lock \in {Nobody, t}, lock' = t,
           n.pc \in FrameLocked => ended = "no",
           n.pc \in FinalPlaces => task[t].pc \in FinalPlaces,
           accepted' <= sequence', n.pc \in Calling => accepted' < sequence'
    PROVE  CallsLocked' /\ EndsOnce' /\ StartsIdle'
<1> USE StreamAssumption DEF StreamInv
<1>1. task'[t] = n /\ \A u \in Tasks : u # t => task'[u] = task[u]
  BY DEF StreamTypeOK
<1>2. Calling \subseteq FrameLocked \cup FinalLocked
  BY DEF Calling, FrameLocked, FinalLocked
<1>3. \A u \in Tasks : u # t => task[u].pc \notin FrameLocked \cup FinalLocked
  BY DEF CallsLocked
<1>4. CallsLocked'
  BY <1>1, <1>2, <1>3 DEF CallsLocked
<1>5. EndsOnce'
  BY <1>1 DEF EndsOnce
<1> QED BY <1>4, <1>5 DEF StartsIdle

LEMMA Goes ==
    ASSUME StreamTypeOK, NEW t \in Tasks, NEW p \in Places, Go(t, p)
    PROVE  \E n \in TaskSet : task' = [task EXCEPT ![t] = n] /\ n.pc = p /\ n.v = task[t].v
<1>1. task[t] \in TaskSet
  BY DEF StreamTypeOK
<1>2. PICK n : n = [task[t] EXCEPT !.pc = p]
  OBVIOUS
<1>3. n \in TaskSet /\ n.pc = p /\ n.v = task[t].v
  BY <1>1, <1>2 DEF TaskSet
<1>4. task' = [task EXCEPT ![t] = n]
  BY <1>2 DEF Go, StreamTypeOK
<1> QED BY <1>3, <1>4

LEMMA StreamStarts == StreamInit => StreamInv
<1> SUFFICES ASSUME StreamInit PROVE StreamInv
  OBVIOUS
<1>1. StreamTypeOK
  <2>1. /\ IdleTask \in TaskSet
        /\ [busy |-> FALSE, reflush |-> FALSE, timer |-> FALSE, fresh |-> TRUE, lost |-> FALSE] \in Controllers
        /\ [calls |-> {}, final |-> FALSE, count |-> 0] \in Strays
    BY StreamAssumption DEF IdleTask, TaskSet, Places, Controllers, Strays
  <2>2. 0 \in 0 .. MaxVersion + 1 /\ 0 \in 0 .. MaxSide /\ 0 \in 0 .. MaxFaults
    BY StreamAssumption
  <2>3. task \in [Tasks -> TaskSet] /\ ctl \in Controllers /\ stray \in Strays
    BY <2>1 DEF StreamInit
  <2> QED BY <2>2, <2>3 DEF StreamInit, StreamTypeOK
<1>2. CallsLocked /\ EndsOnce /\ StartsIdle /\ accepted <= sequence
  BY StreamAssumption DEF StreamInit, IdleTask, CallsLocked, EndsOnce, StartsIdle, FrameLocked, FinalLocked, FinalPlaces, Calling
<1> QED BY <1>1, <1>2 DEF StreamInv

LEMMA StartKeeps ==
    ASSUME StreamInv, NEW kit \in BOOLEAN, StartCard(kit) \/ StartFails
    PROVE  StreamInv'
<1> USE StreamAssumption DEF StreamInv
<1>1. stage = "none" /\ UNCHANGED <<ended, unavail, version, side, flushed, shownV, delivered, lock, task, ctl, faults, stray>>
  BY DEF StartCard, StartFails
<1>2. \A t \in Tasks : task[t].pc = "idle"
  BY <1>1 DEF StartsIdle
<1>3. StreamTypeOK' /\ accepted' <= sequence'
  BY <1>1 DEF StartCard, StartFails, StreamTypeOK
<1>4. CallsLocked' /\ EndsOnce' /\ StartsIdle'
  BY <1>1, <1>2 DEF StartCard, StartFails, CallsLocked, EndsOnce, StartsIdle, FrameLocked, FinalLocked, FinalPlaces, Calling
<1> QED BY <1>3, <1>4

\* A task that is somewhere has a card.
LEMMA Streaming ==
    ASSUME StreamInv, NEW t \in Tasks, task[t].pc # "idle" \/ ctl.timer \/ ended # "no"
    PROVE  stage = "streaming"
  BY DEF StreamInv, StartsIdle

\* A task that was idle, or was asked to flush, comes to a place that holds nothing.
LEMMA QuietLands ==
    ASSUME StreamInv, NEW t \in Tasks, TimerFires(t) \/ FlushTask(t) \/ NewContent(t) \/ NewSide(t)
    PROVE  \E n \in TaskSet : Lands(t, n)
<1> USE StreamAssumption
<1>1. StreamTypeOK /\ version \in 0 .. MaxVersion + 1 /\ ctl \in Controllers
  BY DEF StreamInv, StreamTypeOK
<1>2. CASE TimerFires(t)
  <2>1. Go(t, "again") /\ ctl' \in Controllers
    BY <1>1, <1>2, ControllerTypes DEF TimerFires
  <2> QED BY <1>1, <2>1, Goes DEF Lands, Places, Loose
<1>3. CASE FlushTask(t)
  BY <1>1, <1>3, FlushLands DEF FlushTask
<1>4. CASE NewContent(t)
  <2>1. version + 1 \in 0 .. MaxVersion + 1 /\ Throttled(t, version + 1, cardId)
    BY <1>1, <1>4 DEF NewContent
  <2> QED BY <1>1, <2>1, ThrottledLands
<1>5. CASE NewSide(t)
  <2>1. (Go(t, "frame") /\ ctl' \in Controllers) \/ Throttled(t, version, cardId)
    BY <1>1, <1>5 DEF NewSide
  <2> QED BY <1>1, <2>1, ThrottledLands, Goes DEF Lands, Places, Loose
<1> QED BY <1>2, <1>3, <1>4, <1>5

\* Steps that leave the card, its locks and its numbers alone.
LEMMA QuietKeeps ==
    ASSUME StreamInv, NEW t \in Tasks, TimerFires(t) \/ FlushTask(t) \/ NewContent(t) \/ NewSide(t)
    PROVE  StreamInv'
<1> USE StreamAssumption DEF StreamInv
<1>1. /\ UNCHANGED <<stage, hasCard, cardId, ended, unavail, flushed, sequence, accepted, shownV, delivered, lock, faults, stray>>
      /\ stage = "streaming"
  BY Streaming DEF TimerFires, FlushTask, NewContent, NewSide, Open, At
<1>2. /\ version' \in 0 .. MaxVersion + 1 /\ (ended = "no" => version' <= MaxVersion) /\ side' \in 0 .. MaxSide
  BY DEF TimerFires, FlushTask, NewContent, NewSide, StreamTypeOK, EndsOnce
<1>3. \E n \in TaskSet : Lands(t, n)
  BY QuietLands
<1>4. PICK n \in TaskSet : Lands(t, n)
  BY <1>3
<1>5. accepted' <= sequence' /\ CallsLocked' /\ EndsOnce' /\ StartsIdle'
  BY <1>1, <1>2, <1>4, Landed
<1>6. StreamTypeOK'
  BY <1>1, <1>2, <1>4 DEF StreamTypeOK, Lands
<1> QED BY <1>5, <1>6

LEMMA EndCardKeeps ==
    ASSUME StreamInv, NEW t \in Tasks, NEW how \in Endings, EndCard(t, how)
    PROVE  StreamInv'
<1> USE StreamAssumption DEF StreamInv
<1>1. /\ stage = "streaming" /\ ended = "no" /\ lock = Nobody /\ ended' = how /\ version' = version + 1
      /\ ctl' = [ctl EXCEPT !.timer = FALSE]
      /\ UNCHANGED <<stage, hasCard, cardId, unavail, side, flushed, sequence, accepted, shownV, delivered, lock, faults, stray>>
  BY DEF EndCard, Open, TerminalState
<1>2. PICK n \in TaskSet : task' = [task EXCEPT ![t] = n] /\ n.pc = "final"
  <2>1. PICK m : m = [pc |-> "final", v |-> version + 1]
    OBVIOUS
  <2>2. m \in TaskSet /\ m.pc = "final"
    BY <1>1, <2>1 DEF TaskSet, Places, StreamTypeOK, EndsOnce
  <2> QED BY <2>1, <2>2 DEF EndCard
<1>3. task'[t] = n /\ \A u \in Tasks : u # t => task'[u] = task[u]
  BY <1>2 DEF StreamTypeOK
<1>4. \A u \in Tasks : task[u].pc \notin FrameLocked \cup FinalLocked /\ task[u].pc \notin FinalPlaces
  BY <1>1 DEF CallsLocked, EndsOnce
<1>5. StreamTypeOK'
  <2>1. version' \in 0 .. MaxVersion + 1 /\ ctl' \in Controllers
    BY <1>1, ControllerTypes DEF StreamTypeOK, EndsOnce
  <2> QED BY <1>1, <1>2, <2>1 DEF StreamTypeOK, Endings
<1>6. CallsLocked' /\ accepted' <= sequence'
  BY <1>1, <1>2, <1>3, <1>4 DEF CallsLocked, FrameLocked, FinalLocked, Calling
<1>7. EndsOnce'
  BY <1>1, <1>2, <1>3, <1>4 DEF EndsOnce, FrameLocked, FinalPlaces, FinalLocked, Endings
<1> QED BY <1>1, <1>5, <1>6, <1>7 DEF StartsIdle

LEMMA TakeWriteLockKeeps ==
    ASSUME StreamInv, NEW t \in Tasks, TakeWriteLock(t)
    PROVE  StreamInv'
<1> USE StreamAssumption DEF StreamInv
<1>1. /\ task[t].pc \in {"write", "frame"} /\ lock = Nobody /\ stage = "streaming"
      /\ UNCHANGED <<stage, hasCard, cardId, ended, unavail, version, side, accepted, shownV, delivered, faults, stray>>
      /\ task[t].v \in 0 .. MaxVersion + 1 /\ ctl \in Controllers
      /\ accepted \in Nat /\ sequence \in Nat /\ version \in 0 .. MaxVersion + 1 /\ flushed \in 0 .. MaxVersion + 1
  BY Streaming DEF TakeWriteLock, StreamTypeOK, TaskSet
<1>2. ASSUME NEW n \in TaskSet, Lands(t, n), lock' = lock, sequence' = sequence, flushed' \in 0 .. MaxVersion + 1
      PROVE  StreamInv'
  <2>1. accepted' <= sequence' /\ CallsLocked' /\ EndsOnce' /\ StartsIdle'
    BY <1>1, <1>2, Landed DEF EndsOnce
  <2>2. StreamTypeOK'
    BY <1>1, <1>2 DEF StreamTypeOK, Lands
  <2> QED BY <2>1, <2>2
<1>3. ASSUME FlushReturns(t) \/ (Rest(t) /\ UNCHANGED ctl) \/ Throttled(t, version, cardId)
      PROVE  \E n \in TaskSet : Lands(t, n)
  BY <1>3, <1>1, ReturnLands, RestLands, ThrottledLands
<1>4. CASE TerminalState
  <2>1. FlushReturns(t) \/ (Rest(t) /\ UNCHANGED ctl)
    BY <1>4 DEF TakeWriteLock
  <2>2. lock' = lock /\ sequence' = sequence /\ flushed' \in 0 .. MaxVersion + 1
    BY <1>1, <1>4 DEF TakeWriteLock
  <2> QED BY <2>1, <2>2, <1>2, <1>3
<1>5. CASE ~TerminalState /\ ~cardId
  <2>1. FlushReturns(t) \/ Throttled(t, version, cardId)
    BY <1>5 DEF TakeWriteLock
  <2>2. lock' = lock /\ sequence' = sequence /\ flushed' = flushed
    BY <1>5 DEF TakeWriteLock
  <2> QED BY <2>1, <2>2, <1>1, <1>2, <1>3
<1>6. CASE ~TerminalState /\ cardId
  <2>1. lock' = t /\ sequence' = sequence + 1 /\ UNCHANGED <<flushed, ctl>> /\ (Go(t, "writing") \/ Go(t, "framing"))
    BY <1>6 DEF TakeWriteLock, Call
  <2>2. PICK n \in TaskSet : task' = [task EXCEPT ![t] = n] /\ n.pc \in {"writing", "framing"}
    BY <2>1, Goes DEF Places
  <2>3. n.pc \in FrameLocked /\ n.pc \notin FinalPlaces
    BY <2>2 DEF FrameLocked, FinalPlaces, FinalLocked
  <2>4. CallsLocked' /\ EndsOnce' /\ StartsIdle'
    <3>1. ended = "no" /\ accepted' < sequence' /\ accepted' <= sequence' /\ lock \in {Nobody, t}
      BY <1>1, <1>6, <2>1 DEF TerminalState
    <3>2. UNCHANGED <<stage, ended, delivered, version>> /\ lock' = t /\ stage = "streaming"
      BY <1>1, <2>1
    <3> QED BY <3>1, <3>2, <2>2, <2>3, Called
  <2>5. StreamTypeOK'
    BY <1>1, <2>1, <2>2 DEF StreamTypeOK
  <2> QED BY <1>1, <2>1, <2>4, <2>5
<1> QED BY <1>4, <1>5, <1>6

LEMMA FrameAcceptedKeeps ==
    ASSUME StreamInv, NEW t \in Tasks, FrameAccepted(t)
    PROVE  StreamInv'
<1> USE StreamAssumption DEF StreamInv
<1>1. /\ task[t].pc \in {"writing", "framing", "retry", "retrySide"} /\ accepted' = sequence /\ lock' = Nobody
      /\ UNCHANGED <<stage, hasCard, cardId, ended, unavail, version, side, delivered, faults, sequence, stray>>
      /\ task[t].v \in 0 .. MaxVersion + 1
      /\ shownV' \in 0 .. MaxVersion + 1 /\ flushed' \in 0 .. MaxVersion + 1 /\ version \in 0 .. MaxVersion + 1
  BY DEF FrameAccepted, NoCall, StreamTypeOK, TaskSet
<1>2. stage = "streaming" /\ lock = t
  BY <1>1, Streaming DEF CallsLocked, FrameLocked
<1>3. FlushReturns(t) \/ (Rest(t) /\ ctl' \in Controllers)
  BY ControllerTypes DEF FrameAccepted
<1>4. PICK n \in TaskSet : Lands(t, n)
  BY <1>3, ReturnLands, RestLands
<1>5. accepted' <= sequence' /\ CallsLocked' /\ EndsOnce' /\ StartsIdle'
  BY <1>1, <1>2, <1>4, Landed DEF EndsOnce
<1>6. StreamTypeOK'
  BY <1>1, <1>4 DEF StreamTypeOK, Lands
<1> QED BY <1>5, <1>6

LEMMA FrameRefusedKeeps ==
    ASSUME StreamInv, NEW t \in Tasks, NEW why \in Reasons, FrameRefused(t, why)
    PROVE  StreamInv'
<1> USE StreamAssumption DEF StreamInv
<1>1. /\ task[t].pc \in FrameLocked /\ lock' = Nobody /\ faults' \in 0 .. MaxFaults
      /\ UNCHANGED <<stage, hasCard, ended, version, side, flushed, sequence, accepted, shownV, delivered, stray>>
      /\ cardId' \in BOOLEAN /\ unavail' \in BOOLEAN /\ version \in 0 .. MaxVersion + 1
  BY DEF FrameRefused, Fault, StreamTypeOK, FrameLocked
<1>2. stage = "streaming" /\ lock = t
  BY <1>1, Streaming DEF CallsLocked, FrameLocked
<1>3. FlushReturns(t) \/ Throttled(t, version, FALSE) \/ (Rest(t) /\ ctl' \in Controllers)
  BY ControllerTypes DEF FrameRefused
<1>4. PICK n \in TaskSet : Lands(t, n)
  BY <1>1, <1>3, ReturnLands, RestLands, ThrottledLands
<1>5. accepted' <= sequence' /\ CallsLocked' /\ EndsOnce' /\ StartsIdle'
  BY <1>1, <1>2, <1>4, Landed DEF EndsOnce
<1>6. StreamTypeOK'
  BY <1>1, <1>4 DEF StreamTypeOK, Lands
<1> QED BY <1>5, <1>6

\* The stream is reopened, or the frame sent once more.
LEMMA RecoveryKeeps ==
    ASSUME StreamInv, NEW t \in Tasks, Reopened(t) \/ StreamClosed(t)
    PROVE  StreamInv'
<1> USE StreamAssumption DEF StreamInv
<1>1. /\ task[t].pc \in FrameLocked /\ sequence' = sequence + 1 /\ accepted' \in {accepted, sequence}
      /\ faults' \in 0 .. MaxFaults
      /\ UNCHANGED <<stage, hasCard, cardId, ended, unavail, version, side, flushed, shownV, delivered, lock, ctl, stray>>
      /\ \E p \in {"reopen", "reopenSide", "retry", "retrySide"} : Go(t, p)
  BY DEF Reopened, StreamClosed, Call, Fault, StreamTypeOK, FrameLocked
<1>2. PICK n \in TaskSet : task' = [task EXCEPT ![t] = n] /\ n.pc \in {"reopen", "reopenSide", "retry", "retrySide"}
  BY <1>1, Goes DEF Places
<1>3. stage = "streaming" /\ lock = t /\ ended = "no" /\ accepted \in Nat /\ sequence \in Nat
  BY <1>1, Streaming DEF CallsLocked, EndsOnce, FrameLocked, StreamTypeOK
<1>4. n.pc \in FrameLocked /\ n.pc \notin FinalPlaces
  BY <1>2 DEF FrameLocked, FinalPlaces, FinalLocked
<1>5. accepted' < sequence' /\ accepted' <= sequence'
  BY <1>1, <1>3
<1>6. CallsLocked' /\ EndsOnce' /\ StartsIdle'
  BY <1>1, <1>2, <1>3, <1>4, <1>5, Called
<1>7. StreamTypeOK'
  BY <1>1, <1>2, <1>3 DEF StreamTypeOK
<1> QED BY <1>5, <1>6, <1>7

LEMMA PatchKeeps ==
    ASSUME StreamInv, NEW t \in Tasks, TakePatchLock(t) \/ \E ok \in BOOLEAN : Patched(t, ok)
    PROVE  StreamInv'
<1> USE StreamAssumption DEF StreamInv
<1>1. /\ task[t].pc \in {"patch", "patching"}
      /\ UNCHANGED <<stage, hasCard, cardId, ended, unavail, version, side, flushed, sequence, accepted, delivered, stray>>
      /\ shownV' \in 0 .. MaxVersion + 1 /\ faults' \in 0 .. MaxFaults /\ version \in 0 .. MaxVersion + 1
  BY DEF TakePatchLock, Patched, At, Fault, StreamTypeOK, TaskSet
<1>2. stage = "streaming" /\ ctl \in Controllers
  BY <1>1, Streaming DEF StreamTypeOK
<1>3. CASE FlushReturns(t) /\ (lock' = lock \/ (task[t].pc = "patching" /\ lock' = Nobody))
  <2>1. PICK n \in TaskSet : Lands(t, n)
    BY <1>3, ReturnLands
  <2>2. lock' = lock \/ (lock = t /\ lock' = Nobody)
    BY <1>3 DEF CallsLocked, FrameLocked
  <2>3. accepted' <= sequence' /\ CallsLocked' /\ EndsOnce' /\ StartsIdle'
    BY <1>1, <1>2, <2>1, <2>2, Landed DEF EndsOnce
  <2>4. StreamTypeOK'
    BY <1>1, <2>1, <2>2 DEF StreamTypeOK, Lands
  <2> QED BY <2>3, <2>4
<1>4. CASE /\ ~TerminalState /\ lock = Nobody /\ lock' = t /\ UNCHANGED ctl
           /\ task' = [task EXCEPT ![t] = [pc |-> "patching", v |-> version]]
  <2>1. PICK n : n = [pc |-> "patching", v |-> version]
    OBVIOUS
  <2>2. n \in TaskSet /\ n.pc \in FrameLocked /\ n.pc \notin FinalPlaces /\ n.pc \notin Calling
    BY <1>1, <2>1 DEF TaskSet, Places, FrameLocked, FinalPlaces, FinalLocked, Calling
  <2>3. CallsLocked' /\ EndsOnce' /\ StartsIdle'
    BY <1>1, <1>2, <1>4, <2>1, <2>2, Called DEF TerminalState
  <2>4. StreamTypeOK'
    BY <1>1, <1>4, <2>1, <2>2 DEF StreamTypeOK
  <2> QED BY <1>1, <2>3, <2>4
<1> QED BY <1>3, <1>4 DEF TakePatchLock, Patched, At

LEMMA TakeFinalLockKeeps ==
    ASSUME StreamInv, NEW t \in Tasks, TakeFinalLock(t)
    PROVE  StreamInv'
<1> USE StreamAssumption DEF StreamInv
<1>1. /\ task[t].pc = "final" /\ lock = Nobody /\ lock' = t
      /\ UNCHANGED <<stage, hasCard, cardId, ended, unavail, version, side, flushed, accepted, shownV, delivered, ctl, faults, stray>>
      /\ accepted \in Nat /\ sequence \in Nat
  BY DEF TakeFinalLock, At, StreamTypeOK
<1>2. \/ sequence' = sequence + 1 /\ \E p \in {"fstream", "fclose"} : Go(t, p)
      \/ sequence' = sequence /\ Go(t, "fpatch")
  BY DEF TakeFinalLock, Call, NoCall
<1>3. PICK n \in TaskSet : /\ task' = [task EXCEPT ![t] = n] /\ n.pc \in FinalLocked
                           /\ sequence' = sequence + 1 \/ (sequence' = sequence /\ n.pc = "fpatch")
  BY <1>2, Goes DEF Places, FinalLocked
<1>4. stage = "streaming" /\ task[t].pc \in FinalPlaces /\ n.pc \notin FrameLocked
  BY <1>1, <1>3, Streaming DEF FinalPlaces, FinalLocked, FrameLocked
<1>5. accepted' <= sequence' /\ (n.pc \in Calling => accepted' < sequence')
  BY <1>1, <1>3 DEF Calling
<1>6. CallsLocked' /\ EndsOnce' /\ StartsIdle'
  BY <1>1, <1>3, <1>4, <1>5, Called
<1>7. StreamTypeOK'
  BY <1>1, <1>3 DEF StreamTypeOK
<1> QED BY <1>5, <1>6, <1>7

\* The next call of the final delivery, after the last one was taken or refused.
LEMMA FinalCallsKeep ==
    ASSUME StreamInv, NEW t \in Tasks, FinalAccepted(t) \/ \E why \in Reasons \cup {"closed"} : FinalRefused(t, why)
    PROVE  StreamInv'
<1> USE StreamAssumption DEF StreamInv
<1>1. /\ task[t].pc \in FinalLocked /\ accepted' \in {accepted, sequence} /\ accepted \in Nat /\ sequence \in Nat
      /\ UNCHANGED <<stage, hasCard, ended, version, side, flushed, delivered, lock, ctl, stray>>
      /\ cardId' \in BOOLEAN /\ unavail' \in BOOLEAN /\ shownV' \in 0 .. MaxVersion + 1 /\ faults' \in 0 .. MaxFaults
  <2>1. CASE FinalAccepted(t)
    BY <2>1 DEF FinalAccepted, StreamTypeOK, FinalLocked
  <2>2. ASSUME NEW why \in Reasons \cup {"closed"}, FinalRefused(t, why)
        PROVE  /\ task[t].pc \in FinalLocked /\ accepted' = accepted
               /\ UNCHANGED <<stage, hasCard, ended, version, side, flushed, shownV, delivered, lock, ctl, stray>>
               /\ cardId' \in BOOLEAN /\ unavail' \in BOOLEAN /\ faults' \in 0 .. MaxFaults
    BY <2>2 DEF FinalRefused, Fault, StreamTypeOK, FinalLocked
  <2> QED BY <2>1, <2>2 DEF StreamTypeOK
<1>2. PICK p \in FinalLocked : /\ Go(t, p)
                               /\ \/ sequence' = sequence + 1
                                  \/ sequence' = sequence /\ accepted' = accepted /\ p \notin Calling
  <2>1. CASE FinalAccepted(t)
    <3>1. FinalNext(task[t].pc) \in FinalLocked
      BY <2>1 DEF FinalAccepted, FinalNext, FinalLocked
    <3> QED BY <2>1, <3>1 DEF FinalAccepted, Call
  <2>2. ASSUME NEW why \in Reasons \cup {"closed"}, FinalRefused(t, why)
        PROVE  \E p \in FinalLocked : /\ Go(t, p)
                                      /\ \/ sequence' = sequence + 1
                                         \/ sequence' = sequence /\ accepted' = accepted /\ p \notin Calling
    <3>1. FinalFallback(task[t].pc, why) \in {"freopen", "fclose", "fpatch", "ftext"}
      <4>1. task[t].pc \in {"fstream", "freopen", "fretry", "fclose", "fupdate", "fpatch"}
        BY <2>2 DEF FinalRefused
      <4> QED BY <4>1 DEF FinalFallback
    <3>2. PICK p : p = FinalFallback(task[t].pc, why)
      OBVIOUS
    <3>3. IF p \in {"freopen", "fclose"} THEN Call(t, p) ELSE Go(t, p) /\ NoCall
      BY <2>2, <3>2 DEF FinalRefused
    <3>4. accepted' = accepted
      BY <2>2 DEF FinalRefused
    <3> QED BY <3>1, <3>2, <3>3, <3>4 DEF Call, NoCall, FinalLocked, Calling
  <2> QED BY <2>1, <2>2
<1>3. PICK n \in TaskSet : task' = [task EXCEPT ![t] = n] /\ n.pc = p
  BY <1>2, Goes DEF Places, FinalLocked
<1>4. /\ stage = "streaming" /\ task[t].pc \in FinalPlaces /\ n.pc \notin FrameLocked /\ lock = t /\ lock' = t
  BY <1>1, <1>2, <1>3, Streaming DEF CallsLocked, FinalPlaces, FinalLocked, FrameLocked
<1>5. accepted' <= sequence' /\ (n.pc \in Calling => accepted' < sequence')
  BY <1>1, <1>2, <1>3
<1>6. CallsLocked' /\ EndsOnce' /\ StartsIdle'
  BY <1>1, <1>3, <1>4, <1>5, Called
<1>7. StreamTypeOK'
  BY <1>1, <1>2, <1>3 DEF StreamTypeOK
<1> QED BY <1>5, <1>6, <1>7

LEMMA FinalEndsKeeps ==
    ASSUME StreamInv, NEW t \in Tasks, NEW ok \in BOOLEAN, FinalEnds(t, ok)
    PROVE  StreamInv'
<1> USE StreamAssumption DEF StreamInv
<1>1. /\ task[t].pc \in {"fupdate", "fpatch", "ftext"} /\ lock' = Nobody /\ Rest(t) /\ accepted' \in {accepted, sequence}
      /\ UNCHANGED <<stage, hasCard, cardId, ended, unavail, version, side, flushed, sequence, ctl, stray>>
      /\ shownV' \in 0 .. MaxVersion + 1 /\ faults' \in 0 .. MaxFaults /\ delivered' \in {delivered, "card", "patch", "text"}
  BY DEF FinalEnds, Brings, Fault, StreamTypeOK
<1>2. /\ stage = "streaming" /\ lock = t /\ task[t].pc \in FinalPlaces /\ ctl' \in Controllers
      /\ version \in 0 .. MaxVersion + 1
  BY <1>1, Streaming DEF CallsLocked, FinalPlaces, FinalLocked, StreamTypeOK
<1>3. PICK n \in TaskSet : Lands(t, n)
  BY <1>1, <1>2, RestLands
<1>4. accepted' <= sequence' /\ CallsLocked' /\ EndsOnce' /\ StartsIdle'
  BY <1>1, <1>2, <1>3, Landed DEF EndsOnce
<1>5. StreamTypeOK'
  BY <1>1, <1>2, <1>3 DEF StreamTypeOK, Lands
<1> QED BY <1>4, <1>5

-----------------------------------------------------------------------------
(* Coroutines that are cancelled, and the calls they leave on the wire. *)

KitFinal == {"fstream", "freopen", "fretry", "fclose", "fupdate"}

\* No abandoned call has a number that was not handed out, nor one that a waiting coroutine
\* has; a final delivery was abandoned at most once and by the only task that delivers, and
\* its call has the last number.
Abandoned ==
    /\ \A c \in stray.calls : c.pc \in Calling =>
          c.seq <= sequence /\ \A t \in Tasks : task[t].pc \in Calling => c.seq < sequence
    /\ stray.final => ended # "no" /\ \A t \in Tasks : task[t].pc \notin FinalPlaces
    /\ \A c \in stray.calls : c.pc \in FinalLocked =>
          stray.final /\ delivered = "no" /\ (c.pc \in Calling => c.seq = sequence)
    /\ \A c, d \in stray.calls : c.pc \in FinalLocked /\ d.pc \in FinalLocked => c = d
    /\ stage # "streaming" => stray.calls = {} /\ ~stray.final

\* CardKit cards are not patched while the reply goes on, and only they are updated at its
\* end; a delivered card has the last number.
KitApart ==
    /\ cardId => hasCard
    /\ \A t \in Tasks : /\ task[t].pc \in {"patch", "patching"} => ~hasCard
                        /\ task[t].pc \in KitFinal => hasCard
    /\ \A c \in stray.calls : /\ c.pc = "patching" => ~hasCard
                              /\ c.pc \in KitFinal => hasCard
    /\ delivered = "card" => hasCard /\ accepted = sequence

\* Inductive with StreamInv.
StrayInv == Abandoned /\ KitApart

\* What the step of a coroutine that is not cancelled may do to them.
Moves(t, n) ==
    /\ task' = [task EXCEPT ![t] = n] /\ stage = "streaming"
    /\ UNCHANGED <<stray, stage, hasCard>> /\ (cardId' => cardId)
    /\ \/ sequence' = sequence /\ n.pc \notin Calling
       \/ sequence' = sequence + 1 /\ (ended = "no" \/ task[t].pc \in FinalPlaces)
    /\ n.pc \in FinalPlaces => task[t].pc \in FinalPlaces \/ ended = "no"
    /\ ended' = ended \/ (ended = "no" /\ ended' # "no")
    /\ \/ UNCHANGED <<delivered, accepted>>
       \/ delivered' = delivered /\ task[t].pc \in FrameLocked \cup FinalPlaces
       \/ task[t].pc \in FinalPlaces /\ (delivered' = "card" => hasCard /\ accepted' = sequence')
    /\ n.pc \in {"patch", "patching"} => ~hasCard
    /\ n.pc \in KitFinal => hasCard

LEMMA Moved ==
    ASSUME StreamInv, StrayInv, NEW t \in Tasks, NEW n, Moves(t, n)
    PROVE  StrayInv'
<1> USE DEF StrayInv
<1>1. /\ task'[t] = n /\ \A u \in Tasks : u # t => task'[u] = task[u]
      /\ sequence \in Nat /\ accepted \in Nat
      /\ \A c \in stray.calls : c.seq \in Nat
  BY DEF Moves, StreamInv, StreamTypeOK, Strays
<1>2. /\ stray' = stray /\ hasCard' = hasCard /\ (cardId' => cardId) /\ stage' = "streaming"
      /\ task[t].pc \in FinalPlaces => ended # "no" /\ delivered = "no" /\ ~stray.final
      /\ task[t].pc \in FrameLocked => ended = "no" /\ delivered = "no"
      /\ ended = "no" => delivered = "no" /\ ~stray.final
  BY DEF Moves, StreamInv, EndsOnce, Abandoned
<1>3. Abandoned'
  <2>1. ASSUME NEW c \in stray.calls, c.pc \in Calling
        PROVE  c.seq <= sequence' /\ \A u \in Tasks : task'[u].pc \in Calling => c.seq < sequence'
    BY <1>1, <2>1 DEF Moves, Abandoned
  <2>2. stray.final => ended' # "no" /\ \A u \in Tasks : task'[u].pc \notin FinalPlaces
    BY <1>1, <1>2 DEF Moves, Abandoned
  <2>3. ASSUME NEW c \in stray.calls, c.pc \in FinalLocked
        PROVE  stray.final /\ delivered' = "no" /\ (c.pc \in Calling => c.seq = sequence')
    BY <1>2, <2>3 DEF Moves, Abandoned
  <2> QED BY <1>2, <2>1, <2>2, <2>3 DEF Abandoned
<1>4. KitApart'
  <2>1. \A u \in Tasks : /\ task'[u].pc \in {"patch", "patching"} => ~hasCard
                         /\ task'[u].pc \in KitFinal => hasCard
    BY <1>1 DEF Moves, KitApart
  <2>2. delivered' = "card" => hasCard /\ accepted' = sequence'
    <3>1. ASSUME delivered' = "card", delivered = "card" PROVE hasCard /\ accepted' = sequence'
      BY <1>2, <3>1 DEF Moves, KitApart
    <3>2. ASSUME delivered' = "card", delivered # "card" PROVE hasCard /\ accepted' = sequence'
      BY <3>2 DEF Moves
    <3> QED BY <3>1, <3>2
  <2> QED BY <1>2, <2>1, <2>2 DEF KitApart
<1> QED BY <1>3, <1>4

\* A flush begins with a write of a CardKit card and a patch of any other.
LEMMA FlushApart ==
    ASSUME StreamTypeOK, NEW t \in Tasks, NEW v \in 0 .. MaxVersion + 1, NEW c,
           Flush(t, v, c) \/ Throttled(t, v, c) \/ FlushReturns(t) \/ Rest(t)
    PROVE  \E n \in TaskSet : /\ task' = [task EXCEPT ![t] = n] /\ n.pc \in Loose
                              /\ n.pc = "patch" => ~hasCard
<1>1. IdleTask \in TaskSet /\ IdleTask.pc = "idle"
  BY StreamAssumption DEF IdleTask, TaskSet, Places
<1>2. PICK m : m = [pc |-> IF hasCard THEN "write" ELSE "patch", v |-> v]
  OBVIOUS
<1>3. m \in TaskSet /\ m.pc \in Loose /\ (m.pc = "patch" => ~hasCard)
  BY <1>2 DEF TaskSet, Places, Loose
<1>4. PICK r : r = [pc |-> IF ctl.reflush THEN "again" ELSE "idle", v |-> 0]
  OBVIOUS
<1>5. r \in TaskSet /\ r.pc \in Loose /\ r.pc # "patch"
  BY <1>4, StreamAssumption DEF TaskSet, Places, Loose
<1>6. \/ task' = [task EXCEPT ![t] = IdleTask] \/ task' = [task EXCEPT ![t] = m] \/ task' = [task EXCEPT ![t] = r]
  BY <1>2, <1>4 DEF Flush, Throttled, FlushReturns, Rest
<1> QED BY <1>1, <1>3, <1>5, <1>6 DEF Loose

\* Steps between calls.
LEMMA QuietMoves ==
    ASSUME StreamInv, StrayInv, NEW t \in Tasks,
           \/ TimerFires(t) \/ FlushTask(t) \/ NewContent(t) \/ NewSide(t)
           \/ \E how \in Endings : EndCard(t, how)
    PROVE  \E n : Moves(t, n)
<1> USE StreamAssumption
<1>1. /\ StreamTypeOK /\ version \in 0 .. MaxVersion + 1 /\ (ended = "no" => version + 1 \in 0 .. MaxVersion + 1)
      /\ stage = "streaming"
  BY Streaming DEF StreamInv, StreamTypeOK, EndsOnce, TimerFires, FlushTask, NewContent, NewSide, EndCard, Open, At
<1>2. CASE TimerFires(t) \/ FlushTask(t) \/ NewContent(t) \/ NewSide(t)
  <2>1. UNCHANGED <<stray, stage, hasCard, cardId, sequence, ended, delivered, accepted>>
    BY <1>2 DEF TimerFires, FlushTask, NewContent, NewSide
  <2>2. \/ Go(t, "again") \/ Go(t, "frame")
        \/ \E v \in 0 .. MaxVersion + 1 : Flush(t, v, cardId) \/ Throttled(t, v, cardId)
    BY <1>1, <1>2 DEF TimerFires, FlushTask, NewContent, NewSide, Open, TerminalState
  <2>3. PICK n \in TaskSet : task' = [task EXCEPT ![t] = n] /\ n.pc \in Loose /\ (n.pc = "patch" => ~hasCard)
    <3>1. ASSUME Go(t, "again") \/ Go(t, "frame")
          PROVE  \E n \in TaskSet : task' = [task EXCEPT ![t] = n] /\ n.pc \in {"again", "frame"}
      BY <1>1, <3>1, Goes DEF Places
    <3>2. {"again", "frame"} \subseteq Loose \ {"patch"}
      BY DEF Loose
    <3> QED BY <1>1, <2>2, <3>1, <3>2, FlushApart
  <2>4. n.pc \notin Calling \cup FinalPlaces \cup KitFinal \cup {"patching"}
    BY <2>3 DEF Loose, Calling, FinalPlaces, KitFinal
  <2>9. Moves(t, n)
    BY <1>1, <2>1, <2>3, <2>4 DEF Moves
  <2> QED BY <2>9
<1>3. ASSUME NEW how \in Endings, EndCard(t, how) PROVE \E n : Moves(t, n)
  <2>1. /\ UNCHANGED <<stray, stage, hasCard, cardId, sequence, delivered, accepted>>
        /\ ended = "no" /\ ended' # "no"
    BY <1>3 DEF EndCard, Open, TerminalState, Endings
  <2>2. PICK n : n = [pc |-> "final", v |-> version + 1]
    OBVIOUS
  <2>3. task' = [task EXCEPT ![t] = n] /\ n.pc = "final"
    BY <1>3, <2>2 DEF EndCard
  <2>4. n.pc \notin Calling \cup KitFinal \cup {"patch", "patching"}
    BY <2>3 DEF Calling, KitFinal
  <2> QED BY <1>1, <2>1, <2>3, <2>4 DEF Moves
<1> QED BY <1>2, <1>3

\* A frame waits for the lock, is called, taken or refused.
LEMMA FrameMoves ==
    ASSUME StreamInv, StrayInv, NEW t \in Tasks,
           \/ TakeWriteLock(t) \/ FrameAccepted(t) \/ Reopened(t) \/ StreamClosed(t)
           \/ TakePatchLock(t) \/ (\E ok \in BOOLEAN : Patched(t, ok))
           \/ \E why \in Reasons : FrameRefused(t, why)
    PROVE  \E n : Moves(t, n)
<1> USE StreamAssumption
<1>1. /\ StreamTypeOK /\ version \in 0 .. MaxVersion + 1 /\ task \in [Tasks -> TaskSet]
      /\ task[t].pc \in {"write", "frame", "patch"} \cup FrameLocked
      /\ UNCHANGED <<stray, stage, hasCard, ended, delivered>> /\ (cardId' => cardId)
      /\ accepted' = accepted \/ task[t].pc \in FrameLocked
  <2>1. CASE TakeWriteLock(t) \/ TakePatchLock(t)
    BY <2>1 DEF StreamInv, StreamTypeOK, TakeWriteLock, TakePatchLock, At
  <2>2. CASE FrameAccepted(t) \/ Reopened(t) \/ StreamClosed(t)
    BY <2>2 DEF StreamInv, StreamTypeOK, FrameAccepted, Reopened, StreamClosed, FrameLocked
  <2>3. CASE \E ok \in BOOLEAN : Patched(t, ok)
    BY <2>3 DEF StreamInv, StreamTypeOK, Patched, At, FrameLocked
  <2>4. CASE \E why \in Reasons : FrameRefused(t, why)
    BY <2>4 DEF StreamInv, StreamTypeOK, FrameRefused, FrameLocked
  <2> QED BY <2>1, <2>2, <2>3, <2>4
<1>2. stage = "streaming"
  BY <1>1, Streaming DEF FrameLocked
<1>3. ASSUME sequence' = sequence, FlushReturns(t) \/ Rest(t) \/ \E c : Throttled(t, version, c)
      PROVE  \E n : Moves(t, n)
  <2>1. PICK n \in TaskSet : task' = [task EXCEPT ![t] = n] /\ n.pc \in Loose /\ (n.pc = "patch" => ~hasCard)
    BY <1>1, <1>3, FlushApart
  <2>2. n.pc \notin Calling \cup FinalPlaces \cup KitFinal \cup {"patching"}
    BY <2>1 DEF Loose, Calling, FinalPlaces, KitFinal
  <2>9. Moves(t, n)
    BY <1>1, <1>2, <1>3, <2>1, <2>2 DEF Moves
  <2> QED BY <2>9
<1>4. ASSUME sequence' = sequence + 1, ended = "no",
             NEW p \in {"writing", "framing", "reopen", "reopenSide", "retry", "retrySide"}, Go(t, p)
      PROVE  \E n : Moves(t, n)
  <2>1. PICK n \in TaskSet : task' = [task EXCEPT ![t] = n] /\ n.pc = p
    BY <1>1, <1>4, Goes DEF Places
  <2>2. n.pc \notin FinalPlaces \cup KitFinal \cup {"patch", "patching"}
    BY <2>1 DEF FinalPlaces, KitFinal
  <2>9. Moves(t, n)
    BY <1>1, <1>2, <1>4, <2>1, <2>2 DEF Moves
  <2> QED BY <2>9
<1>5. task[t].pc \in FrameLocked => ended = "no"
  BY DEF StreamInv, EndsOnce
<1>6. CASE TakeWriteLock(t)
  <2>1. CASE ~TerminalState /\ cardId
    BY <1>4, <1>6, <2>1 DEF TakeWriteLock, Call, TerminalState
  <2>2. CASE ~(~TerminalState /\ cardId)
    BY <1>3, <1>6, <2>2 DEF TakeWriteLock
  <2> QED BY <2>1, <2>2
<1>7. CASE FrameAccepted(t) \/ \E why \in Reasons : FrameRefused(t, why)
  BY <1>3, <1>7 DEF FrameAccepted, FrameRefused, NoCall
<1>8. CASE Reopened(t) \/ StreamClosed(t)
  <2>1. task[t].pc \in FrameLocked
    BY <1>8 DEF Reopened, StreamClosed, FrameLocked
  <2> QED BY <1>4, <1>5, <1>8, <2>1 DEF Reopened, StreamClosed, Call
<1>9. CASE TakePatchLock(t)
  <2>1. CASE TerminalState
    BY <1>3, <1>9, <2>1 DEF TakePatchLock
  <2>2. CASE ~TerminalState
    <3>1. PICK n : n = [pc |-> "patching", v |-> version]
      OBVIOUS
    <3>2. task' = [task EXCEPT ![t] = n] /\ n.pc = "patching" /\ ~hasCard /\ UNCHANGED <<sequence, accepted>>
      BY <1>9, <2>2, <3>1 DEF TakePatchLock, At, StrayInv, KitApart
    <3>3. n.pc \notin Calling \cup FinalPlaces \cup KitFinal
      BY <3>2 DEF Calling, FinalPlaces, KitFinal
    <3>9. Moves(t, n)
      BY <1>1, <1>2, <3>2, <3>3 DEF Moves
    <3> QED BY <3>9
  <2> QED BY <2>1, <2>2
<1>10. CASE \E ok \in BOOLEAN : Patched(t, ok)
  BY <1>3, <1>10 DEF Patched
<1> QED BY <1>6, <1>7, <1>8, <1>9, <1>10

\* The final delivery goes from call to call.
LEMMA FinalMoves ==
    ASSUME StreamInv, StrayInv, NEW t \in Tasks,
           \/ TakeFinalLock(t) \/ FinalAccepted(t) \/ (\E ok \in BOOLEAN : FinalEnds(t, ok))
           \/ \E why \in Reasons \cup {"closed"} : FinalRefused(t, why)
    PROVE  \E n : Moves(t, n)
<1> USE StreamAssumption
<1>1. /\ StreamTypeOK /\ task \in [Tasks -> TaskSet] /\ task[t].pc \in FinalPlaces
      /\ UNCHANGED <<stray, stage, hasCard, ended>> /\ (cardId' => cardId) /\ (cardId => hasCard)
      /\ task[t].pc \in KitFinal => hasCard
  BY DEF StreamInv, StreamTypeOK, TakeFinalLock, FinalAccepted, FinalEnds, FinalRefused, At, FinalPlaces, StrayInv, KitApart
<1>2. stage = "streaming"
  BY <1>1, Streaming DEF FinalPlaces
<1>3. ASSUME NEW p \in FinalLocked, Go(t, p), p \in KitFinal => hasCard, delivered' = delivered,
             sequence' = sequence + 1 \/ (sequence' = sequence /\ p \notin Calling)
      PROVE  \E n : Moves(t, n)
  <2>1. PICK n \in TaskSet : task' = [task EXCEPT ![t] = n] /\ n.pc = p
    BY <1>1, <1>3, Goes DEF Places, FinalLocked
  <2>2. n.pc \notin {"patch", "patching"}
    BY <2>1 DEF FinalLocked
  <2>9. Moves(t, n)
    BY <1>1, <1>2, <1>3, <2>1, <2>2 DEF Moves
  <2> QED BY <2>9
<1>4. CASE TakeFinalLock(t)
  BY <1>1, <1>3, <1>4 DEF TakeFinalLock, Call, NoCall, FinalLocked, KitFinal, Calling
<1>5. CASE FinalAccepted(t)
  <2>1. PICK p : p = FinalNext(task[t].pc)
    OBVIOUS
  <2>2. task[t].pc \in KitFinal /\ p \in {"fclose", "fretry", "fupdate"}
    BY <1>5, <2>1 DEF FinalAccepted, FinalNext, KitFinal
  <2> QED BY <1>1, <1>3, <1>5, <2>1, <2>2 DEF FinalAccepted, Call, FinalLocked
<1>6. ASSUME NEW why \in Reasons \cup {"closed"}, FinalRefused(t, why) PROVE \E n : Moves(t, n)
  <2>1. PICK p : p = FinalFallback(task[t].pc, why)
    OBVIOUS
  <2>2. task[t].pc \in {"fstream", "freopen", "fretry", "fclose", "fupdate", "fpatch"}
    BY <1>6 DEF FinalRefused
  <2>3. p \in {"freopen", "fclose", "fpatch", "ftext"} /\ (p \in {"freopen", "fclose"} => task[t].pc \in KitFinal)
    BY <2>1, <2>2 DEF FinalFallback, KitFinal
  <2>4. IF p \in {"freopen", "fclose"} THEN Call(t, p) ELSE Go(t, p) /\ NoCall
    BY <1>6, <2>1 DEF FinalRefused
  <2>5. delivered' = delivered
    BY <1>6 DEF FinalRefused
  <2> QED BY <1>1, <1>3, <2>3, <2>4, <2>5 DEF Call, NoCall, FinalLocked, KitFinal, Calling
<1>7. ASSUME NEW ok \in BOOLEAN, FinalEnds(t, ok) PROVE \E n : Moves(t, n)
  <2>1. /\ task' = [task EXCEPT ![t] = IdleTask] /\ IdleTask.pc = "idle" /\ sequence' = sequence
        /\ delivered' = "card" => delivered = "card" \/ (task[t].pc = "fupdate" /\ accepted' = sequence)
    BY <1>7 DEF FinalEnds, Rest, IdleTask, Brings
  <2>2. delivered = "no"
    BY <1>1 DEF StreamInv, EndsOnce
  <2>3. IdleTask.pc \notin Calling \cup FinalPlaces \cup KitFinal \cup {"patch", "patching"}
    BY <2>1 DEF Calling, FinalPlaces, KitFinal
  <2>9. Moves(t, IdleTask)
    BY <1>1, <1>2, <2>1, <2>2, <2>3 DEF Moves, KitFinal
  <2> QED BY <2>9
<1> QED BY <1>4, <1>5, <1>6, <1>7

\* What the cancelled coroutine leaves on the wire.
Left(t) == [pc : OnWire \cap {task[t].pc}, seq : {sequence}, v : {task[t].v}]

LEMMA LeftBehind ==
    ASSUME StreamInv, NEW t \in Tasks
    PROVE  /\ Left(t) \subseteq [pc : OnWire, seq : Nat, v : 0 .. MaxVersion + 1]
           /\ \A c \in Left(t) : c.pc = task[t].pc /\ c.seq = sequence /\ c.v = task[t].v
           /\ task[t].pc \notin OnWire => Left(t) = {}
           /\ \A c, d \in Left(t) : c = d
<1>1. task[t].v \in 0 .. MaxVersion + 1 /\ sequence \in Nat
  BY DEF StreamInv, StreamTypeOK, TaskSet
<1> QED BY <1>1 DEF Left

LEMMA CancelKeeps ==
    ASSUME StreamInv, StrayInv, NEW t \in Tasks, CancelTask(t)
    PROVE  StreamInv' /\ StrayInv'
<1> USE StreamAssumption DEF StreamInv, StrayInv
<1>1. /\ task[t].pc # "idle" /\ task' = [task EXCEPT ![t] = IdleTask] /\ stray.count < MaxCancels
      /\ lock' = IF lock = t THEN Nobody ELSE lock
      /\ stray'.calls = stray.calls \cup Left(t) /\ (stray'.final <=> stray.final \/ task[t].pc \in FinalPlaces)
      /\ stray'.count = stray.count + 1
      /\ UNCHANGED <<stage, hasCard, cardId, ended, unavail, version, side, flushed, sequence, accepted, shownV,
                     delivered, faults>>
  BY DEF CancelTask, Rest, Left
<1>2. /\ task \in [Tasks -> TaskSet] /\ ctl \in Controllers /\ stray \in Strays /\ stage = "streaming"
      /\ sequence \in Nat /\ accepted \in Nat
  BY <1>1, Streaming DEF StreamTypeOK
<1>3. /\ IdleTask \in TaskSet /\ IdleTask.pc = "idle"
      /\ "idle" \notin FrameLocked \cup FinalLocked \cup FinalPlaces \cup Calling \cup KitFinal \cup {"patch", "patching"}
  BY DEF IdleTask, TaskSet, Places, FrameLocked, FinalLocked, FinalPlaces, Calling, KitFinal
<1>4. task'[t].pc = "idle" /\ \A u \in Tasks : u # t => task'[u] = task[u]
  BY <1>1, <1>2, <1>3
<1>5. StreamTypeOK'
  <2>1. ctl' \in Controllers
    <3>1. ctl' = [ctl EXCEPT !.busy = @ /\ ~InFlush(t), !.lost = @ \/ InFlush(t) \/ task[t].pc = "again"]
      BY DEF CancelTask
    <3>2. InFlush(t) \in BOOLEAN
      BY DEF InFlush, IsContent
    <3> QED BY <1>2, <3>1, <3>2 DEF Controllers
  <2>2. stray' \in Strays
    <3>1. stray' = [calls |-> stray.calls \cup Left(t), final |-> stray.final \/ task[t].pc \in FinalPlaces,
                    count |-> stray.count + 1]
      BY DEF CancelTask, Left
    <3>2. /\ stray.calls \cup Left(t) \in SUBSET [pc : OnWire, seq : Nat, v : 0 .. MaxVersion + 1]
          /\ (stray.final \/ task[t].pc \in FinalPlaces) \in BOOLEAN
          /\ stray.count + 1 \in 0 .. MaxCancels
      BY <1>1, <1>2, LeftBehind DEF Strays
    <3> QED BY <3>1, <3>2 DEF Strays
  <2>3. task' \in [Tasks -> TaskSet] /\ lock' \in Tasks \cup {Nobody}
    BY <1>1, <1>2, <1>3 DEF StreamTypeOK
  <2> QED BY <1>1, <2>1, <2>2, <2>3 DEF StreamTypeOK
<1>6. CallsLocked'
  <2>1. ASSUME NEW u \in Tasks, u # t, task[u].pc \in FrameLocked \cup FinalLocked PROVE lock' = u
    BY <1>1, <2>1 DEF CallsLocked
  <2> QED BY <1>1, <1>3, <1>4, <2>1 DEF CallsLocked
<1>7. EndsOnce' /\ StartsIdle'
  BY <1>1, <1>2, <1>3, <1>4 DEF EndsOnce, StartsIdle
<1>8. /\ Calling \subseteq FrameLocked \cup FinalLocked /\ FinalLocked \subseteq FinalPlaces
      /\ KitFinal \subseteq FinalLocked
  BY DEF Calling, FrameLocked, FinalLocked, FinalPlaces, KitFinal
<1>9. Abandoned'
  <2>1. ASSUME NEW c \in stray'.calls, c.pc \in Calling
        PROVE  c.seq <= sequence /\ \A u \in Tasks : task'[u].pc \in Calling => c.seq < sequence
    <3>1. CASE c \in stray.calls
      BY <1>3, <1>4, <2>1, <3>1 DEF Abandoned
    <3>2. CASE c \in Left(t)
      <4>1. c.seq = sequence /\ task[t].pc \in Calling
        BY <2>1, <3>2, LeftBehind
      <4>2. \A u \in Tasks : u # t => task[u].pc \notin Calling
        BY <1>8, <4>1 DEF CallsLocked
      <4> QED BY <1>2, <1>3, <1>4, <4>1, <4>2
    <3> QED BY <1>1, <2>1, <3>1, <3>2
  <2>2. stray'.final => ended # "no" /\ \A u \in Tasks : task'[u].pc \notin FinalPlaces
    <3>1. CASE stray.final
      BY <1>3, <1>4, <3>1 DEF Abandoned
    <3>2. CASE task[t].pc \in FinalPlaces
      BY <1>3, <1>4, <3>2 DEF EndsOnce
    <3> QED BY <1>1, <3>1, <3>2
  <2>3. ASSUME NEW c \in stray'.calls, c.pc \in FinalLocked
        PROVE  stray'.final /\ delivered = "no" /\ (c.pc \in Calling => c.seq = sequence)
    <3>1. CASE c \in stray.calls
      BY <1>1, <2>3, <3>1 DEF Abandoned
    <3>2. CASE c \in Left(t)
      BY <1>1, <1>8, <2>3, <3>2, LeftBehind DEF EndsOnce
    <3> QED BY <1>1, <2>3, <3>1, <3>2
  <2>4. ASSUME NEW c \in stray'.calls, NEW d \in stray'.calls, c.pc \in FinalLocked, d.pc \in FinalLocked PROVE c = d
    <3>1. CASE stray.final
      <4>1. task[t].pc \notin FinalLocked
        BY <1>8, <3>1 DEF Abandoned
      <4> QED BY <1>1, <2>4, <4>1, LeftBehind DEF Abandoned
    <3>2. CASE ~stray.final
      <4>1. c \in Left(t) /\ d \in Left(t)
        BY <1>1, <2>4, <3>2 DEF Abandoned
      <4> QED BY <4>1, LeftBehind
    <3> QED BY <3>1, <3>2
  <2> QED BY <1>1, <1>2, <2>1, <2>2, <2>3, <2>4 DEF Abandoned
<1>10. KitApart'
  <2>1. \A c \in Left(t) : /\ c.pc = "patching" => ~hasCard
                           /\ c.pc \in KitFinal => hasCard
    BY LeftBehind DEF KitApart
  <2> QED BY <1>1, <1>3, <1>4, <2>1 DEF KitApart
<1> QED BY <1>1, <1>5, <1>6, <1>7, <1>9, <1>10

LEMMA LateKeeps ==
    ASSUME StreamInv, StrayInv, NEW c \in stray.calls, LateCall(c)
    PROVE  StreamInv' /\ StrayInv'
<1> USE StreamAssumption DEF StreamInv, StrayInv
<1>1. /\ stray' = [stray EXCEPT !.calls = @ \ {c}]
      /\ UNCHANGED <<stage, hasCard, cardId, ended, unavail, version, side, flushed, sequence, lock, task, faults>>
      /\ accepted' = accepted \/ (c.pc \in Calling /\ accepted' = c.seq)
      /\ delivered' \in {delivered, Brings(c.pc)} /\ shownV' \in {shownV, c.v}
      /\ ctl' = ctl \/ ctl' = [ctl EXCEPT !.lost = @ \/ c.pc = "patching"]
      /\ c.pc \in Calling /\ accepted' = accepted => delivered' = delivered
  <2>1. c.pc \in Calling /\ c.seq > accepted => c.seq # accepted
    BY DEF StreamTypeOK, Strays
  <2> QED BY <2>1 DEF LateCall
<1>2. /\ ctl \in Controllers /\ stray \in Strays /\ sequence \in Nat /\ accepted \in Nat
      /\ c.pc \in OnWire /\ c.seq \in Nat /\ c.v \in 0 .. MaxVersion + 1 /\ stage = "streaming"
  <2>1. stray \in Strays /\ ctl \in Controllers /\ sequence \in Nat /\ accepted \in Nat /\ stage = "streaming"
    BY DEF StreamTypeOK, Abandoned
  <2>2. c \in [pc : OnWire, seq : Nat, v : 0 .. MaxVersion + 1]
    BY <2>1 DEF Strays
  <2> QED BY <2>1, <2>2
<1>3. /\ stray'.calls = stray.calls \ {c} /\ stray'.final = stray.final /\ stray' \in Strays /\ ctl' \in Controllers
      /\ ctl'.timer = ctl.timer
  BY <1>1, <1>2 DEF Strays, Controllers
<1>4. accepted' <= sequence /\ \A t \in Tasks : task[t].pc \in Calling => accepted' < sequence
  BY <1>1, <1>2 DEF Abandoned, CallsLocked
<1>5. delivered' = delivered \/ (c.pc \in FinalLocked /\ stray.final /\ delivered = "no" /\ delivered' \in {"card", "patch", "text"})
  BY <1>1 DEF Brings, FinalLocked, Abandoned
<1>6. StreamTypeOK'
  BY <1>1, <1>2, <1>3, <1>5 DEF StreamTypeOK
<1>7. CallsLocked' /\ EndsOnce' /\ StartsIdle'
  BY <1>1, <1>2, <1>4, <1>5 DEF CallsLocked, EndsOnce, StartsIdle, Abandoned
<1>8. Abandoned'
  <2>1. ASSUME NEW d \in stray'.calls, d.pc \in FinalLocked PROVE delivered' = "no"
    BY <1>3, <1>5, <2>1 DEF Abandoned
  <2> QED BY <1>1, <1>3, <2>1 DEF Abandoned
<1>9. KitApart'
  <2>1. ASSUME delivered' = "card" PROVE hasCard /\ accepted' = sequence
    <3>1. CASE delivered = "card"
      <4>1. accepted = sequence /\ hasCard
        BY <3>1 DEF KitApart
      <4>2. c.pc \in Calling => c.seq <= sequence
        BY DEF Abandoned
      <4>3. c.pc \in Calling => ~(c.seq > accepted)
        BY <1>2, <4>1, <4>2
      <4> QED BY <4>1, <4>3 DEF LateCall
    <3>2. CASE delivered # "card"
      <4>1. c.pc = "fupdate" /\ delivered' # delivered
        BY <1>1, <2>1, <3>2 DEF Brings
      <4>2. accepted' = c.seq /\ c.seq = sequence
        BY <1>1, <4>1 DEF Abandoned, FinalLocked, Calling
      <4> QED BY <4>1, <4>2 DEF KitApart, KitFinal
    <3> QED BY <3>1, <3>2
  <2> QED BY <1>1, <1>3, <2>1 DEF KitApart
<1> QED BY <1>1, <1>4, <1>6, <1>7, <1>8, <1>9

LEMMA StartsApart ==
    ASSUME StreamInv, StrayInv, NEW kit \in BOOLEAN, StartCard(kit) \/ StartFails
    PROVE  StrayInv'
<1>1. /\ stage = "none" /\ stage' # "none" /\ UNCHANGED <<ended, delivered, task, stray>> /\ (cardId' => hasCard' \/ cardId)
      /\ StartFails => cardId' = cardId /\ hasCard' = hasCard
  BY DEF StartCard, StartFails
<1>2. /\ \A t \in Tasks : task[t].pc = "idle" /\ delivered = "no" /\ stray.calls = {} /\ ~stray.final
      /\ delivered = "no"
  BY <1>1 DEF StreamInv, StartsIdle, StrayInv, Abandoned
<1>3. cardId' => hasCard'
  BY DEF StartCard, StartFails, StrayInv, KitApart
<1> QED BY <1>1, <1>2, <1>3 DEF StrayInv, Abandoned, KitApart, Calling, FinalPlaces, FinalLocked, KitFinal

\* The steps of coroutines that are not cancelled.
LiveStep(t) ==
    \/ StreamTask(t) \/ StreamFault(t)
    \/ UpdateCard(t) \/ UpdateReasoning(t) \/ ToolStarted(t) \/ ToolCompleted(t) \/ StatusUpdate(t)
    \/ FinalizeCard(t) \/ AbortCard(t) \/ FailCard(t)

LEMMA StreamInductive == StreamInv /\ StrayInv /\ [StreamNext]_streamVars => StreamInv' /\ StrayInv'
<1> SUFFICES ASSUME StreamInv, StrayInv, [StreamNext]_streamVars PROVE StreamInv' /\ StrayInv'
  OBVIOUS
<1>1. CASE UNCHANGED streamVars
  BY <1>1 DEF streamVars, StreamInv, StreamTypeOK, CallsLocked, EndsOnce, StartsIdle, StrayInv, Abandoned, KitApart
<1>2. ASSUME NEW t \in Tasks, StreamTask(t) PROVE StreamInv' /\ \E n : Moves(t, n)
  BY <1>2, QuietKeeps, TakeWriteLockKeeps, FrameAcceptedKeeps, RecoveryKeeps, PatchKeeps, TakeFinalLockKeeps,
     FinalCallsKeep, FinalEndsKeeps, QuietMoves, FrameMoves, FinalMoves DEF StreamTask
<1>3. ASSUME NEW t \in Tasks, StreamFault(t) PROVE StreamInv' /\ \E n : Moves(t, n)
  BY <1>3, RecoveryKeeps, PatchKeeps, FinalCallsKeep, FinalEndsKeeps, FrameRefusedKeeps,
     FrameMoves, FinalMoves DEF StreamFault
<1>4. ASSUME NEW t \in Tasks, LiveStep(t) PROVE StreamInv' /\ \E n : Moves(t, n)
  BY <1>2, <1>3, <1>4, QuietKeeps, EndCardKeeps, QuietMoves DEF LiveStep, UpdateCard, UpdateReasoning, ToolStarted,
     ToolCompleted, StatusUpdate, FinalizeCard, AbortCard, FailCard, Endings
<1>5. ASSUME StartFails \/ \E kit \in BOOLEAN : StartCard(kit) PROVE StreamInv' /\ StrayInv'
  BY <1>5, StartKeeps, StartsApart
<1> QED BY <1>1, <1>4, <1>5, Moved, CancelKeeps, LateKeeps DEF StreamNext, LiveStep

LEMMA StreamInvariant == StreamSpec => [](StreamInv /\ StrayInv)
<1>1. StreamInit => StreamInv /\ StrayInv
  <2> SUFFICES ASSUME StreamInit PROVE StreamInv /\ StrayInv
    OBVIOUS
  <2>1. StreamInv
    BY StreamStarts
  <2>2. /\ stage = "none" /\ delivered = "no" /\ stray.calls = {} /\ ~stray.final /\ ~cardId
        /\ \A t \in Tasks : task[t].pc = "idle"
    BY DEF StreamInit, IdleTask
  <2> QED BY <2>1, <2>2 DEF StrayInv, Abandoned, KitApart, KitFinal
<1> QED BY <1>1, StreamInductive, PTL DEF StreamSpec

\* After the end of the reply only the final delivery and abandoned calls show anything, and
\* the delivery shows the final content; after it only abandoned calls reach the card, and
\* none a CardKit card.
FinalKept ==
    /\ ended # "no" /\ shownV' # shownV => shownV' = version' \/ stray'.calls # stray.calls
    /\ delivered # "no" => UNCHANGED delivered
    /\ delivered # "no" /\ stray'.calls = stray.calls => UNCHANGED <<shownV, accepted>>
    /\ delivered = "card" => UNCHANGED <<shownV, accepted>>

LEMMA FinalStays ==
    ASSUME StreamInv, StrayInv, [StreamNext]_streamVars
    PROVE  FinalKept
<1> SUFFICES ASSUME ended # "no" PROVE FinalKept
  BY DEF StreamInv, EndsOnce, FinalKept
<1>1. \A t \in Tasks : /\ task[t].pc \notin FrameLocked
                       /\ delivered # "no" => task[t].pc \notin FinalPlaces
  BY DEF StreamInv, EndsOnce
<1>2. ASSUME NEW t \in Tasks, FinalAccepted(t) \/ (\E ok \in BOOLEAN : FinalEnds(t, ok))
                              \/ \E why \in Reasons \cup {"closed"} : FinalRefused(t, why)
      PROVE  FinalKept
  <2>1. task[t].pc \in FinalPlaces
    BY <1>2 DEF FinalAccepted, FinalEnds, FinalRefused, FinalPlaces
  <2> QED BY <1>1, <1>2, <2>1 DEF FinalAccepted, FinalEnds, FinalRefused, FinalKept
<1>3. ASSUME NEW t \in Tasks, FrameAccepted(t) \/ Reopened(t) \/ StreamClosed(t) \/ (\E ok \in BOOLEAN : Patched(t, ok))
                              \/ \E why \in Reasons : FrameRefused(t, why)
      PROVE  FALSE
  BY <1>1, <1>3 DEF FrameAccepted, Reopened, StreamClosed, Patched, FrameRefused, At, FrameLocked
<1>4. ASSUME NEW t \in Tasks, TimerFires(t) \/ FlushTask(t) \/ TakeWriteLock(t) \/ TakePatchLock(t) \/ TakeFinalLock(t)
                              \/ NewContent(t) \/ NewSide(t) \/ (\E how \in Endings : EndCard(t, how)) \/ CancelTask(t)
      PROVE  UNCHANGED <<shownV, accepted, delivered>>
  BY <1>4 DEF TimerFires, FlushTask, TakeWriteLock, TakePatchLock, TakeFinalLock, NewContent, NewSide, EndCard, CancelTask
<1>5. ASSUME NEW kit, StartCard(kit) \/ StartFails PROVE FALSE
  BY <1>5 DEF StartCard, StartFails, StreamInv, StartsIdle
<1>6. UNCHANGED <<shownV, accepted, delivered>> => FinalKept
  BY DEF FinalKept
<1>7. CASE UNCHANGED streamVars
  BY <1>6, <1>7 DEF streamVars
<1>8. ASSUME NEW t \in Tasks, StreamTask(t) \/ StreamFault(t) PROVE FinalKept
  BY <1>2, <1>3, <1>4, <1>6, <1>8 DEF StreamTask, StreamFault
<1>9. ASSUME NEW t \in Tasks, LiveStep(t) PROVE FinalKept
  BY <1>4, <1>6, <1>8, <1>9 DEF LiveStep, UpdateCard, UpdateReasoning, ToolStarted, ToolCompleted, StatusUpdate,
       FinalizeCard, AbortCard, FailCard, Endings
<1>10. ASSUME NEW c \in stray.calls, LateCall(c) PROVE FinalKept
  <2>1. stray'.calls # stray.calls
    BY <1>10 DEF LateCall, StreamInv, StreamTypeOK, Strays
  <2>2. ASSUME delivered # "no" PROVE UNCHANGED delivered
    <3>1. c.pc \notin FinalLocked
      BY <2>2 DEF StrayInv, Abandoned
    <3> QED BY <1>10, <3>1 DEF LateCall, Brings, FinalLocked
  <2>3. ASSUME delivered = "card" PROVE UNCHANGED <<shownV, accepted>>
    <3>1. c.pc \in OnWire /\ c.seq \in Nat /\ accepted \in Nat /\ sequence \in Nat
      <4>1. stray \in Strays /\ accepted \in Nat /\ sequence \in Nat
        BY DEF StreamInv, StreamTypeOK
      <4>2. c \in [pc : OnWire, seq : Nat, v : 0 .. MaxVersion + 1]
        BY <4>1 DEF Strays
      <4> QED BY <4>1, <4>2
    <3>2. c.pc \notin {"patching", "fpatch", "ftext"}
      BY <2>3 DEF StrayInv, Abandoned, KitApart, FinalLocked
    <3>3. c.pc \in Calling /\ c.seq <= accepted
      BY <2>3, <3>1, <3>2 DEF OnWire, StrayInv, Abandoned, KitApart
    <3>4. ~(c.seq > accepted)
      BY <3>1, <3>3
    <3> QED BY <1>10, <3>3, <3>4 DEF LateCall
  <2> QED BY <2>1, <2>2, <2>3 DEF FinalKept
<1> QED BY <1>4, <1>5, <1>6, <1>7, <1>9, <1>10 DEF StreamNext, LiveStep

\* The call a coroutine waits for is the only one with somebody waiting and has a number
\* above all others, and the final card is not overwritten, for any number of tasks, updates,
\* refused calls and cancelled coroutines, whose calls may land at any time
\* (streaming_controller.py, flush_controller.py, cardkit_client.py).
THEOREM CardStaysInOrder == StreamSpec => CardInOrder
<1>1. StreamInv /\ StrayInv => SequencesRise
  <2> SUFFICES ASSUME StreamInv, StrayInv PROVE SequencesRise
    OBVIOUS
  <2>1. Calling \subseteq FrameLocked \cup FinalLocked
    BY DEF Calling, FrameLocked, FinalLocked
  <2> QED BY <2>1 DEF StreamInv, CallsLocked, StrayInv, Abandoned, SequencesRise
<1>2. StreamInv /\ StrayInv /\ [StreamNext]_streamVars => [FinalKept]_streamVars
  BY FinalStays
<1>3. StreamSpec => [][FinalKept]_streamVars
  BY <1>2, StreamInvariant, PTL DEF StreamSpec
<1>4. [][FinalKept]_streamVars => FinalStands
  BY PTL DEF FinalKept, FinalStands
<1> QED BY <1>1, <1>3, <1>4, StreamInvariant, PTL DEF CardInOrder

-----------------------------------------------------------------------------
(* What the card still owes its reader. *)

\* A flush that will render something, or its successor will.
Flushing == {"write", "writing", "patch", "patching"}
Recovering == {"reopen", "retry", "reopenSide", "retrySide"}
Undisturbed == faults = 0 /\ ended = "no"

\* Another flush comes: of the timer, of a task about to flush, or after the one under way.
FlushComes ==
    \/ ctl.timer
    \/ \E t \in Tasks : task[t].pc = "again" \/ (ctl.reflush /\ task[t].pc \in Flushing)

\* The abandoned calls that show content and whose number Feishu still takes.
Landing == {c \in stray.calls : c.pc = "writing" /\ accepted < c.seq}

\* A card behind the state has a flush under way or coming; one that renders an old state
\* will be followed by another; and so will an abandoned call that renders one.  A cancelled
\* flush, and a cancelled patch that lands late, are excepted until the next flush begins.
TrailingOwed ==
    Undisturbed /\ ~ctl.lost =>
        /\ shownV # version => FlushComes \/ \E t \in Tasks : task[t].pc \in Flushing
        /\ \A t \in Tasks : task[t].pc \in {"write", "writing", "patching"} /\ task[t].v # version
                               => FlushComes
        /\ \A c \in Landing : c.v # version => FlushComes \/ \E t \in Tasks : task[t].pc \in Flushing

\* The final delivery is under way until the card or the text was taken or every way was
\* refused (close and update of the card, the patch, the text), or it is cancelled.
Tiers == IF hasCard THEN 3 ELSE 2
FinalOwed ==
    ended # "no" /\ delivered = "no" =>
        faults >= Tiers \/ stray.final \/ \E t \in Tasks : task[t].pc \in FinalPlaces

\* The controller is busy for the one flush under way; a note may be left by one that was
\* cancelled.
OneFlush ==
    /\ \A t \in Tasks : task[t].pc \in Flushing => ctl.busy
    /\ \A t, u \in Tasks : task[t].pc \in Flushing /\ task[u].pc \in Flushing => t = u
    /\ ctl.busy => \E t \in Tasks : task[t].pc \in Flushing

\* What is remembered as flushed is behind what the card shows, what is being written and
\* what abandoned calls can still show, and these never ahead of the state.
Followed ==
    /\ hasCard = cardId /\ (hasCard => flushed <= shownV)
    /\ shownV <= version
    /\ \A t \in Tasks : /\ task[t].pc \notin Recovering
                        /\ task[t].pc \in {"write", "writing", "frame", "framing"} => hasCard
                        /\ task[t].pc \in {"patch", "patching"} => ~hasCard
                        /\ task[t].pc \in {"write", "writing", "patching"} => task[t].v <= version
                        /\ task[t].pc \in {"write", "writing"} => flushed <= task[t].v
    /\ \A c \in stray.calls : /\ c.pc \in {"writing", "framing", "patching"}
                              /\ c.pc \in {"writing", "patching"} => c.v <= version
                              /\ c.pc \in {"writing", "framing"} => hasCard
                              /\ c.pc = "patching" => ~hasCard
    /\ \A c \in Landing : flushed <= c.v
    /\ stage # "streaming" => /\ version = 0 /\ shownV = 0 /\ flushed = 0
                              /\ ~ctl.busy /\ ~ctl.reflush

\* Inductive with StreamInv, while nothing is refused and the reply goes on.
CatchingUp == Undisturbed => OneFlush /\ Followed /\ TrailingOwed

\* The tiers that were refused before a place of the final delivery.
TierReached ==
    \A t \in Tasks : /\ task[t].pc = "fpatch" => faults >= Tiers - 2
                     /\ task[t].pc = "ftext" => faults >= Tiers - 1

LEMMA CardNumbers ==
    ASSUME StreamInv
    PROVE  /\ ctl \in Controllers /\ task \in [Tasks -> TaskSet] /\ stray \in Strays
           /\ version \in Nat /\ shownV \in Nat /\ flushed \in Nat /\ accepted \in Nat /\ sequence \in Nat
           /\ \A t \in Tasks : task[t].v \in Nat
           /\ \A c \in stray.calls : c.v \in Nat /\ c.seq \in Nat
<1>1. StreamTypeOK /\ task \in [Tasks -> TaskSet] /\ stray \in Strays
  BY DEF StreamInv, StreamTypeOK
<1>2. ASSUME NEW c \in stray.calls PROVE c.v \in Nat /\ c.seq \in Nat
  <2>1. c \in [pc : OnWire, seq : Nat, v : 0 .. MaxVersion + 1]
    BY <1>1 DEF Strays
  <2> QED BY <2>1
<1>3. \A t \in Tasks : task[t].v \in Nat
  BY <1>1 DEF TaskSet
<1> QED BY <1>1, <1>2, <1>3 DEF StreamTypeOK

\* The note of a busy controller keeps the new state owed; a free one starts to flush it
\* unless it is shown.
LEMMA FlushOwes ==
    ASSUME StreamInv, CatchingUp, Undisturbed, stage = "streaming", NEW t \in Tasks,
           task[t].pc \in {"idle", "again", "frame"},
           version' \in Nat, version <= version', Flush(t, version', cardId),
           UNCHANGED <<stage, hasCard, cardId, ended, flushed, accepted, shownV, faults, stray>>
    PROVE  CatchingUp'
<1> USE StreamAssumption DEF CatchingUp
<1>1. /\ ctl \in Controllers /\ task \in [Tasks -> TaskSet] /\ version \in Nat /\ shownV \in Nat
      /\ flushed \in Nat /\ accepted \in Nat
      /\ \A c \in stray.calls : c.v \in Nat /\ c.seq \in Nat
  BY CardNumbers
<1>2. task[t].pc \notin Flushing
  BY DEF Flushing
<1>3. \A u \in Tasks : u # t => task'[u] = task[u]
  BY <1>1 DEF Flush, Rest
<1>4. CASE ctl.busy /\ ctl' = [ctl EXCEPT !.reflush = TRUE] /\ Rest(t)
  <2>1. task'[t].pc = "idle" /\ ctl'.busy = ctl.busy /\ ctl'.reflush /\ ctl'.lost = ctl.lost
    BY <1>1, <1>4 DEF Rest, IdleTask, Controllers
  <2>2. PICK u \in Tasks : task[u].pc \in Flushing
    BY <1>4 DEF OneFlush
  <2>3. u # t /\ task'[u] = task[u]
    BY <1>2, <1>3, <2>2
  <2>4. TrailingOwed'
    BY <2>1, <2>2, <2>3 DEF TrailingOwed, FlushComes
  <2>5. OneFlush'
    BY <1>3, <1>4, <2>1, <2>2, <2>3 DEF OneFlush, Flushing
  <2>6. Followed'
    <3>1. \A w \in Tasks : task[w].pc \in {"write", "writing", "patching"} => task[w].v \in Nat
      BY <1>1 DEF TaskSet
    <3> QED BY <1>1, <1>3, <2>1, <3>1 DEF Followed, Recovering, Landing
  <2> QED BY <2>4, <2>5, <2>6
<1>5. CASE ~ctl.busy
  <2>1. \A u \in Tasks : task[u].pc \notin Flushing
    BY <1>5 DEF OneFlush
  <2>2. CASE hasCard /\ version' = flushed /\ ctl' = [ctl EXCEPT !.fresh = FALSE, !.lost = FALSE] /\ Rest(t)
    <3>1. task'[t].pc = "idle" /\ ~ctl'.busy /\ ctl'.reflush = ctl.reflush
      BY <1>1, <1>5, <2>2 DEF Rest, IdleTask, Controllers
    <3>2. shownV' = version' /\ version' = version
      BY <1>1, <2>2 DEF Followed
    <3>3. TrailingOwed' /\ OneFlush'
      <4>1. \A c \in Landing' : c.v = version'
        BY <1>1, <2>2, <3>2 DEF Followed, Landing
      <4> QED BY <1>3, <2>1, <3>1, <3>2, <4>1 DEF TrailingOwed, FlushComes, OneFlush, Flushing
    <3>4. Followed'
      BY <1>1, <1>3, <3>1, <3>2 DEF Followed, Recovering, Landing
    <3> QED BY <3>3, <3>4
  <2>3. CASE /\ ctl' = [ctl EXCEPT !.busy = TRUE, !.fresh = FALSE, !.lost = FALSE]
             /\ task' = [task EXCEPT ![t] = [pc |-> IF hasCard THEN "write" ELSE "patch", v |-> version']]
    <3>1. /\ task'[t].pc = IF hasCard THEN "write" ELSE "patch"
          /\ task'[t].v = version' /\ ctl'.busy /\ ctl'.reflush = ctl.reflush
      BY <1>1, <2>3 DEF Controllers
    <3>2. TrailingOwed' /\ OneFlush'
      BY <1>3, <2>1, <3>1 DEF TrailingOwed, FlushComes, OneFlush, Flushing
    <3>3. Followed'
      <4>1. \A w \in Tasks : task[w].pc \in {"write", "writing", "patching"} => task[w].v \in Nat
        BY <1>1 DEF TaskSet
      <4> QED BY <1>1, <1>3, <3>1, <4>1 DEF Followed, Recovering, Landing
    <3> QED BY <3>2, <3>3
  <2> QED
    BY <1>5, <2>2, <2>3 DEF Flush, Undisturbed, TerminalState, Followed
<1> QED BY <1>4, <1>5 DEF Flush

LEMMA ThrottledOwes ==
    ASSUME StreamInv, CatchingUp, Undisturbed, stage = "streaming", NEW t \in Tasks,
           task[t].pc \in {"idle", "again", "frame"},
           version' \in Nat, version <= version', Throttled(t, version', cardId),
           UNCHANGED <<stage, hasCard, cardId, ended, flushed, accepted, shownV, faults, stray>>
    PROVE  CatchingUp'
<1> USE StreamAssumption
<1>1. CASE ctl' = [ctl EXCEPT !.timer = TRUE] /\ Rest(t)
  <2>1. /\ ctl \in Controllers /\ task \in [Tasks -> TaskSet] /\ version \in Nat /\ shownV \in Nat
        /\ flushed \in Nat /\ accepted \in Nat
        /\ \A c \in stray.calls : c.v \in Nat /\ c.seq \in Nat
    BY CardNumbers
  <2>2. ctl'.timer /\ ctl'.busy = ctl.busy /\ ctl'.reflush = ctl.reflush /\ task'[t].pc = "idle"
    BY <1>1, <2>1 DEF Controllers, Rest, IdleTask
  <2>3. \A u \in Tasks : u # t => task'[u] = task[u]
    BY <1>1, <2>1 DEF Rest
  <2>4. OneFlush' /\ TrailingOwed'
    BY <2>2, <2>3 DEF CatchingUp, OneFlush, TrailingOwed, FlushComes, Flushing
  <2>5. Followed'
    <3>1. \A w \in Tasks : task[w].pc \in {"write", "writing", "patching"} => task[w].v \in Nat
      BY <2>1 DEF TaskSet
    <3> QED BY <2>1, <2>2, <2>3, <3>1 DEF CatchingUp, Followed, Recovering, Landing
  <2> QED BY <2>4, <2>5 DEF CatchingUp
<1> QED BY <1>1, FlushOwes DEF Throttled

\* The holder returns with what it showed; a note becomes a task of its own.
LEMMA ReturnOwes ==
    ASSUME StreamInv, StrayInv, CatchingUp, Undisturbed, stage = "streaming", NEW t \in Tasks,
           task[t].pc \in {"writing", "patching"}, FlushReturns(t), shownV' = task[t].v,
           flushed' = IF hasCard THEN task[t].v ELSE flushed,
           hasCard => accepted' = sequence,
           UNCHANGED <<stage, hasCard, cardId, ended, version, faults, stray>>
    PROVE  CatchingUp'
<1> USE StreamAssumption
<1>1. /\ ctl \in Controllers /\ task \in [Tasks -> TaskSet] /\ version \in Nat /\ shownV \in Nat
      /\ task[t].v \in Nat /\ flushed \in Nat
  BY CardNumbers DEF TaskSet
<1>2. \A u \in Tasks : u # t => task'[u] = task[u] /\ task[u].pc \notin Flushing
  BY <1>1 DEF FlushReturns, CatchingUp, OneFlush, Flushing
<1>3. /\ task'[t].pc = IF ctl.reflush THEN "again" ELSE "idle"
      /\ ~ctl'.busy /\ ~ctl'.reflush /\ ctl'.timer = ctl.timer /\ ctl'.lost = ctl.lost
  BY <1>1 DEF FlushReturns, Controllers
<1>4. OneFlush'
  BY <1>2, <1>3 DEF OneFlush, Flushing
<1>5. Landing' = {}
  <2>1. ASSUME NEW c \in stray.calls, c.pc = "writing" PROVE hasCard /\ ~(sequence < c.seq)
    BY <2>1, CardNumbers DEF CatchingUp, Followed, StrayInv, Abandoned, Calling
  <2> QED BY <2>1 DEF Landing
<1>6. Followed'
  BY <1>1, <1>2, <1>3, <1>5 DEF CatchingUp, Followed, Recovering, Flushing
<1>7. TrailingOwed'
  BY <1>2, <1>3, <1>5 DEF CatchingUp, TrailingOwed, FlushComes, Flushing
<1> QED BY <1>4, <1>6, <1>7 DEF CatchingUp

\* A task goes on to a place that renders the same, or to none from a side frame.
LEMMA GoOwes ==
    ASSUME StreamInv, CatchingUp, Undisturbed, NEW t \in Tasks,
           task \in [Tasks -> TaskSet], NEW n \in TaskSet, task' = [task EXCEPT ![t] = n],
           \/ task[t].pc = "idle" /\ ctl.timer /\ n.pc = "again" /\ ctl'.timer = FALSE
           \/ /\ ctl'.timer = ctl.timer
              /\ \/ task[t].pc = "idle" /\ n.pc = "frame" /\ hasCard
                 \/ task[t].pc = "frame" /\ n.pc = "framing"
                 \/ task[t].pc = "framing" /\ n.pc = "idle"
                 \/ task[t].pc = "write" /\ n.pc = "writing" /\ n.v = task[t].v
                 \/ task[t].pc = "patch" /\ n.pc = "patching" /\ n.v = version,
           ctl'.busy = ctl.busy, ctl'.reflush = ctl.reflush, ctl'.lost = ctl.lost,
           accepted' = accepted \/ accepted' = sequence,
           UNCHANGED <<stage, hasCard, cardId, ended, version, flushed, shownV, faults, stray>>
    PROVE  CatchingUp'
<1>1. task'[t] = n /\ \A u \in Tasks : u # t => task'[u] = task[u]
  OBVIOUS
<1>2. \A u \in Tasks : task'[u].pc \in Flushing <=> task[u].pc \in Flushing
  BY <1>1 DEF Flushing
<1>3. OneFlush'
  BY <1>2 DEF CatchingUp, OneFlush
<1>4. Landing' \subseteq Landing
  BY CardNumbers DEF Landing, StreamInv
<1>5. Followed'
  BY <1>1, <1>4, CardNumbers DEF CatchingUp, Followed, Recovering
<1>6. TrailingOwed'
  <2>1. FlushComes => FlushComes'
    <3>1. ASSUME ctl.timer PROVE FlushComes'
      BY <1>1, <3>1 DEF FlushComes
    <3>2. ASSUME NEW u \in Tasks, task[u].pc = "again" PROVE FlushComes'
      BY <1>1, <3>2 DEF FlushComes
    <3>3. ASSUME ctl.reflush, NEW u \in Tasks, task[u].pc \in Flushing PROVE FlushComes'
      BY <1>2, <3>3 DEF FlushComes
    <3> QED BY <3>1, <3>2, <3>3 DEF FlushComes
  <2>2. \A u \in Tasks : task'[u].pc \in {"write", "writing", "patching"} /\ task'[u].v # version
                            => task[u].pc \in {"write", "writing", "patching"} /\ task[u].v # version
    BY <1>1
  <2> QED BY <1>2, <1>4, <2>1, <2>2 DEF CatchingUp, TrailingOwed
<1> QED BY <1>3, <1>5, <1>6 DEF CatchingUp

\* A cancelled flush leaves its frame to the next one.
LEMMA CancelOwes ==
    ASSUME StreamInv, StrayInv, CatchingUp, Undisturbed', NEW t \in Tasks, CancelTask(t)
    PROVE  CatchingUp'
<1> USE StreamAssumption
<1>1. /\ task[t].pc # "idle" /\ task' = [task EXCEPT ![t] = IdleTask]
      /\ stray'.calls = stray.calls \cup Left(t)
      /\ ctl' = [ctl EXCEPT !.busy = @ /\ ~InFlush(t), !.lost = @ \/ InFlush(t) \/ task[t].pc = "again"]
      /\ UNCHANGED <<stage, hasCard, cardId, ended, version, flushed, sequence, accepted, shownV, faults>>
  BY DEF CancelTask, Rest, Left
<1>2. /\ Undisturbed /\ stage = "streaming" /\ task'[t].pc = "idle" /\ \A u \in Tasks : u # t => task'[u] = task[u]
  BY <1>1, CardNumbers, Streaming DEF Undisturbed, IdleTask
<1>3. OneFlush /\ Followed /\ TrailingOwed
  BY <1>2 DEF CatchingUp
<1>4. InFlush(t) <=> task[t].pc \in Flushing
  BY <1>3 DEF InFlush, IsContent, Flushing, Followed, Recovering
<1>5. /\ ctl'.busy <=> ctl.busy /\ task[t].pc \notin Flushing
      /\ ctl'.lost <=> ctl.lost \/ task[t].pc \in Flushing \cup {"again"}
      /\ ctl'.reflush = ctl.reflush /\ ctl'.timer = ctl.timer
  BY <1>1, <1>4, CardNumbers DEF Controllers
<1>6. \A u \in Tasks : task'[u].pc \in Flushing <=> task[u].pc \in Flushing /\ u # t
  BY <1>2 DEF Flushing
<1>7. OneFlush'
  BY <1>3, <1>5, <1>6 DEF OneFlush
<1>8. task[t].pc \in OnWire => task[t].pc \in {"writing", "framing", "patching"}
  <2>1. task[t].pc \notin FinalPlaces /\ task[t].pc \notin Recovering
    BY <1>2, <1>3 DEF StreamInv, EndsOnce, Undisturbed, Followed
  <2> QED BY <2>1 DEF OnWire, Calling, FinalPlaces, Recovering
<1>9. Followed'
  <2>1. ASSUME NEW c \in Left(t)
        PROVE  /\ c.pc \in {"writing", "framing", "patching"}
               /\ c.pc \in {"writing", "patching"} => c.v <= version
               /\ c.pc \in {"writing", "framing"} => hasCard
               /\ c.pc = "patching" => ~hasCard
               /\ c.pc = "writing" => flushed <= c.v
    BY <1>3, <1>8, <2>1, LeftBehind DEF Followed
  <2> QED BY <1>1, <1>2, <1>3, <2>1 DEF Followed, Landing, Recovering
<1>10. ASSUME ~ctl'.lost PROVE TrailingOwed'
  <2>1. ~ctl.lost /\ task[t].pc \notin Flushing \cup {"again"} /\ task[t].pc # "writing"
    BY <1>5, <1>10 DEF Flushing
  <2>2. /\ \A u \in Tasks : task'[u].pc \in Flushing <=> task[u].pc \in Flushing
        /\ \A u \in Tasks : task[u].pc = "again" => task'[u].pc = "again"
    BY <1>2, <1>6, <2>1
  <2>3. FlushComes => FlushComes'
    BY <1>5, <2>2 DEF FlushComes
  <2>4. Landing' \subseteq Landing
    BY <1>1, <2>1, LeftBehind DEF Landing
  <2>5. \A u \in Tasks : task'[u].pc \in {"write", "writing", "patching"} => u # t
    BY <1>2
  <2> QED BY <1>1, <1>2, <1>3, <2>1, <2>2, <2>3, <2>4, <2>5 DEF TrailingOwed
<1> QED BY <1>7, <1>9, <1>10 DEF CatchingUp, TrailingOwed

\* An abandoned call shows what the card shows, or what another flush will replace.
LEMMA LateOwes ==
    ASSUME StreamInv, StrayInv, CatchingUp, Undisturbed', NEW c \in stray.calls, LateCall(c)
    PROVE  CatchingUp'
<1> USE StreamAssumption
<1>1. /\ stray'.calls = stray.calls \ {c}
      /\ UNCHANGED <<stage, hasCard, cardId, ended, version, flushed, sequence, task, faults>>
  BY CardNumbers DEF LateCall, Strays
<1>2. /\ Undisturbed /\ stage = "streaming" /\ c.v \in Nat /\ c.seq \in Nat /\ (c.pc # "framing" => c.v <= version)
      /\ c.pc \in {"writing", "framing", "patching"}
  BY <1>1, CardNumbers DEF Undisturbed, StrayInv, Abandoned, CatchingUp, Followed
<1>3. OneFlush /\ Followed /\ TrailingOwed
  BY <1>2 DEF CatchingUp
<1>4. /\ UNCHANGED <<accepted, shownV, ctl>> \/ c.pc = "patching"
         \/ (accepted < c.seq /\ accepted' = c.seq /\ ctl' = ctl)
      /\ c.pc = "patching" => accepted' = accepted /\ ctl' = [ctl EXCEPT !.lost = TRUE]
      /\ shownV' = shownV \/ (c.pc = "patching" /\ shownV' = c.v) \/ (c \in Landing /\ shownV' = c.v)
  <2>1. CASE c.pc = "patching"
    BY <2>1, CardNumbers DEF LateCall, Calling, Showing
  <2>2. CASE c.pc # "patching"
    <3>1. c.pc \in Calling /\ (c.pc \in Showing <=> c.pc = "writing")
      BY <1>2, <2>2 DEF Calling, Showing
    <3>2. \/ UNCHANGED <<accepted, shownV, ctl>>
          \/ /\ accepted < c.seq /\ accepted' = c.seq /\ ctl' = [ctl EXCEPT !.lost = @ \/ c.pc = "patching"]
             /\ shownV' = IF c.pc = "writing" THEN c.v ELSE shownV
      BY <3>1 DEF LateCall
    <3>3. [ctl EXCEPT !.lost = @ \/ c.pc = "patching"] = ctl
      BY <2>2, CardNumbers DEF Controllers
    <3> QED BY <2>2, <3>2, <3>3 DEF Landing
  <2> QED BY <2>1, <2>2
<1>5. ctl'.busy = ctl.busy /\ ctl'.reflush = ctl.reflush /\ ctl'.timer = ctl.timer /\ (ctl'.lost \/ ctl' = ctl)
  BY <1>4, CardNumbers DEF Controllers
<1>6. OneFlush'
  BY <1>1, <1>3, <1>5 DEF OneFlush
<1>7. Landing' \subseteq Landing
  BY <1>1, <1>4, CardNumbers DEF Landing
<1>8. Followed'
  <2>1. shownV' <= version /\ (hasCard => flushed <= shownV')
    BY <1>2, <1>3, <1>4 DEF Followed, Landing
  <2> QED BY <1>1, <1>2, <1>3, <1>7, <2>1 DEF Followed
<1>9. ASSUME ~ctl'.lost PROVE TrailingOwed'
  <2>1. ctl' = ctl /\ ~ctl.lost /\ c.pc # "patching"
    BY <1>4, <1>5, <1>9, CardNumbers DEF Controllers
  <2>2. FlushComes' <=> FlushComes
    BY <1>1, <2>1 DEF FlushComes
  <2>3. shownV' = shownV \/ (c \in Landing /\ shownV' = c.v)
    BY <1>4, <2>1
  <2> QED BY <1>1, <1>2, <1>3, <1>7, <2>1, <2>2, <2>3 DEF TrailingOwed
<1> QED BY <1>6, <1>8, <1>9 DEF CatchingUp, TrailingOwed

LEMMA StepOwes ==
    ASSUME StreamInv, StrayInv, CatchingUp, [StreamNext]_streamVars
    PROVE  CatchingUp'
<1> SUFFICES ASSUME Undisturbed' PROVE CatchingUp'
  BY DEF CatchingUp
<1> USE StreamAssumption
<1>1. /\ StreamTypeOK /\ task \in [Tasks -> TaskSet] /\ ctl \in Controllers
      /\ version \in Nat /\ shownV \in Nat /\ faults \in Nat
  BY DEF StreamInv, StreamTypeOK
<1>2. CASE UNCHANGED streamVars
  BY <1>2 DEF streamVars, CatchingUp, Undisturbed, OneFlush, Followed, TrailingOwed, FlushComes, Landing
<1>3. ASSUME StartFails \/ \E kit \in BOOLEAN : StartCard(kit) PROVE CatchingUp'
  <2>1. /\ stage = "none" /\ UNCHANGED <<ended, version, flushed, shownV, task, ctl, faults, stray>>
        /\ hasCard' = cardId' \/ (hasCard' = hasCard /\ cardId' = cardId)
    BY <1>3 DEF StartCard, StartFails
  <2>2. Undisturbed /\ (\A t \in Tasks : task[t].pc = "idle") /\ stray.calls = {}
    BY <2>1 DEF Undisturbed, StreamInv, StartsIdle, StrayInv, Abandoned
  <2>3. OneFlush' /\ TrailingOwed'
    BY <2>1, <2>2 DEF CatchingUp, OneFlush, Followed, TrailingOwed, FlushComes, Flushing, Landing
  <2>4. Followed'
    BY <2>1, <2>2 DEF CatchingUp, Followed, Recovering, Landing
  <2> QED BY <2>3, <2>4 DEF CatchingUp
<1>4. ASSUME NEW t \in Tasks, TimerFires(t) \/ FlushTask(t) \/ NewContent(t) \/ NewSide(t) PROVE CatchingUp'
  <2>1. /\ stage = "streaming" /\ Undisturbed
        /\ UNCHANGED <<stage, hasCard, cardId, ended, flushed, accepted, shownV, faults, stray>>
    BY <1>1, <1>4, Streaming DEF TimerFires, FlushTask, NewContent, NewSide, Open, At, Undisturbed
  <2>2. CASE TimerFires(t)
    <3>1. PICK n \in TaskSet : task' = [task EXCEPT ![t] = n] /\ n.pc = "again"
      BY <1>1, <2>2, Goes DEF TimerFires, Places
    <3>2. /\ ctl.timer /\ task[t].pc = "idle" /\ version' = version
          /\ ctl'.timer = FALSE /\ ctl'.busy = ctl.busy /\ ctl'.reflush = ctl.reflush /\ ctl'.lost = ctl.lost
      BY <1>1, <2>2 DEF TimerFires, At, Controllers
    <3> QED BY <1>1, <2>1, <3>1, <3>2, GoOwes
  <2>3. CASE FlushTask(t)
    BY <1>1, <2>1, <2>3, FlushOwes DEF FlushTask, At
  <2>4. CASE NewContent(t)
    BY <1>1, <2>1, <2>4, ThrottledOwes DEF NewContent, At
  <2>5. CASE NewSide(t)
    <3>1. task[t].pc = "idle" /\ version' = version
      BY <2>5 DEF NewSide, At
    <3>2. CASE cardId /\ Go(t, "frame") /\ UNCHANGED ctl
      <4>1. PICK n \in TaskSet : task' = [task EXCEPT ![t] = n] /\ n.pc = "frame"
        BY <1>1, <3>2, Goes DEF Places
      <4>2. hasCard
        BY <2>1, <3>2 DEF CatchingUp, Followed
      <4> QED BY <1>1, <2>1, <3>1, <3>2, <4>1, <4>2, GoOwes
    <3>3. CASE Throttled(t, version, cardId)
      BY <1>1, <2>1, <3>1, <3>3, ThrottledOwes
    <3> QED BY <2>5, <3>2, <3>3 DEF NewSide
  <2> QED BY <1>4, <2>2, <2>3, <2>4, <2>5
<1>5. ASSUME NEW t \in Tasks, TakeWriteLock(t) PROVE CatchingUp'
  <2>1. /\ task[t].pc \in {"write", "frame"} /\ stage = "streaming" /\ Undisturbed
        /\ UNCHANGED <<stage, hasCard, cardId, ended, version, accepted, shownV, faults, stray>>
    BY <1>5, Streaming DEF TakeWriteLock, Undisturbed
  <2>2. cardId /\ ~TerminalState
    BY <2>1 DEF CatchingUp, Followed, Undisturbed, TerminalState
  <2>3. Go(t, IF task[t].pc = "write" THEN "writing" ELSE "framing") /\ UNCHANGED <<flushed, ctl>>
    BY <1>5, <2>2 DEF TakeWriteLock, Call, At
  <2>4. PICK n \in TaskSet : /\ task' = [task EXCEPT ![t] = n] /\ n.v = task[t].v
                             /\ n.pc = IF task[t].pc = "write" THEN "writing" ELSE "framing"
    BY <1>1, <2>3, Goes DEF Places
  <2> QED BY <1>1, <2>1, <2>3, <2>4, GoOwes
<1>6. ASSUME NEW t \in Tasks, FrameAccepted(t) PROVE CatchingUp'
  <2>1. /\ task[t].pc \in {"writing", "framing", "retry", "retrySide"} /\ stage = "streaming" /\ Undisturbed
        /\ UNCHANGED <<stage, hasCard, cardId, ended, version, faults, stray>> /\ accepted' = sequence
    BY <1>6, Streaming DEF FrameAccepted, Undisturbed
  <2>2. task[t].pc \in {"writing", "framing"} /\ hasCard
    BY <2>1 DEF CatchingUp, Followed, Recovering
  <2>3. CASE task[t].pc = "writing"
    BY <1>6, <2>1, <2>2, <2>3, ReturnOwes DEF FrameAccepted, IsContent
  <2>4. CASE task[t].pc = "framing"
    <3>1. Rest(t) /\ UNCHANGED <<shownV, flushed, ctl>>
      BY <1>6, <2>4 DEF FrameAccepted, IsContent
    <3>2. IdleTask \in TaskSet /\ IdleTask.pc = "idle"
      BY DEF IdleTask, TaskSet, Places
    <3> QED BY <1>1, <2>1, <2>4, <3>1, <3>2, GoOwes DEF Rest
  <2> QED BY <2>2, <2>3, <2>4
<1>7. ASSUME NEW t \in Tasks, TakePatchLock(t) \/ \E ok \in BOOLEAN : Patched(t, ok) PROVE CatchingUp'
  <2>1. /\ task[t].pc \in {"patch", "patching"} /\ stage = "streaming"
        /\ UNCHANGED <<stage, hasCard, cardId, ended, version, flushed, accepted, stray>>
    BY <1>7, Streaming DEF TakePatchLock, Patched, At
  <2>2. Undisturbed /\ faults' = faults
    BY <1>1, <1>7, <2>1 DEF TakePatchLock, Patched, Fault, Undisturbed
  <2>3. CASE TakePatchLock(t)
    <3>1. task[t].pc = "patch" /\ task' = [task EXCEPT ![t] = [pc |-> "patching", v |-> version]] /\ UNCHANGED <<ctl, shownV>>
      BY <2>2, <2>3 DEF TakePatchLock, At, TerminalState, Undisturbed
    <3>2. PICK n : n = [pc |-> "patching", v |-> version]
      OBVIOUS
    <3>3. n \in TaskSet /\ n.pc = "patching" /\ n.v = version
      BY <1>1, <3>2 DEF TaskSet, Places, StreamTypeOK
    <3> QED BY <1>1, <2>1, <2>2, <3>1, <3>2, <3>3, GoOwes
  <2>4. ASSUME NEW ok \in BOOLEAN, Patched(t, ok) PROVE CatchingUp'
    <3>1. task[t].pc = "patching" /\ FlushReturns(t) /\ shownV' = task[t].v
      BY <1>1, <2>2, <2>4 DEF Patched, At, Fault
    <3>2. ~hasCard
      BY <2>2, <3>1 DEF CatchingUp, Followed
    <3> QED BY <2>1, <2>2, <3>1, <3>2, ReturnOwes
  <2> QED BY <1>7, <2>3, <2>4
<1>8. ASSUME NEW t \in Tasks,
             \/ Reopened(t) \/ StreamClosed(t) \/ (\E why \in Reasons : FrameRefused(t, why))
             \/ TakeFinalLock(t) \/ FinalAccepted(t) \/ (\E ok \in BOOLEAN : FinalEnds(t, ok))
             \/ (\E why \in Reasons \cup {"closed"} : FinalRefused(t, why)) \/ \E how \in Endings : EndCard(t, how)
      PROVE  FALSE
  <2>1. CASE Reopened(t)
    <3>1. task[t].pc \in Recovering /\ Undisturbed
      BY <2>1 DEF Reopened, Recovering, Undisturbed
    <3> QED BY <3>1 DEF CatchingUp, Followed
  <2>2. CASE \/ StreamClosed(t) \/ (\E why \in Reasons : FrameRefused(t, why))
             \/ \E why \in Reasons \cup {"closed"} : FinalRefused(t, why)
    <3>1. Fault
      BY <2>2 DEF StreamClosed, FrameRefused, FinalRefused
    <3> QED BY <1>1, <3>1 DEF Fault, Undisturbed
  <2>3. CASE TakeFinalLock(t) \/ FinalAccepted(t) \/ \E ok \in BOOLEAN : FinalEnds(t, ok)
    <3>1. task[t].pc \in FinalPlaces /\ ended = "no"
      BY <2>3 DEF TakeFinalLock, FinalAccepted, FinalEnds, FinalPlaces, Undisturbed, At
    <3> QED BY <3>1 DEF StreamInv, EndsOnce
  <2>4. CASE \E how \in Endings : EndCard(t, how)
    BY <2>4 DEF EndCard, Undisturbed, Endings
  <2> QED BY <1>8, <2>1, <2>2, <2>3, <2>4
<1>9. ASSUME NEW t \in Tasks, StreamTask(t) \/ StreamFault(t) PROVE CatchingUp'
  BY <1>4, <1>5, <1>6, <1>7, <1>8, <1>9 DEF StreamTask, StreamFault
<1>10. ASSUME NEW t \in Tasks,
              \/ UpdateCard(t) \/ UpdateReasoning(t) \/ ToolStarted(t) \/ ToolCompleted(t) \/ StatusUpdate(t)
              \/ FinalizeCard(t) \/ AbortCard(t) \/ FailCard(t)
       PROVE  CatchingUp'
  BY <1>4, <1>8, <1>10 DEF UpdateCard, UpdateReasoning, ToolStarted, ToolCompleted, StatusUpdate,
       FinalizeCard, AbortCard, FailCard, Endings
<1> QED BY <1>2, <1>3, <1>9, <1>10, CancelOwes, LateOwes DEF StreamNext

\* Only the end of a reply, refused calls and the place of a task decide what the final
\* delivery owes.
LEMMA StepDelivers ==
    ASSUME StreamInv, StrayInv, FinalOwed, TierReached, [StreamNext]_streamVars
    PROVE  FinalOwed' /\ TierReached'
<1> USE StreamAssumption
<1>1. /\ StreamTypeOK /\ task \in [Tasks -> TaskSet] /\ faults \in Nat /\ Tiers \in {2, 3}
  BY DEF StreamInv, StreamTypeOK, Tiers
<1>2. CASE UNCHANGED streamVars
  BY <1>2 DEF streamVars, FinalOwed, TierReached, Tiers
<1>3. ASSUME StartFails \/ \E kit \in BOOLEAN : StartCard(kit) PROVE FinalOwed' /\ TierReached'
  <2>1. stage = "none" /\ UNCHANGED <<ended, task>>
    BY <1>3 DEF StartCard, StartFails
  <2>2. ended = "no" /\ \A t \in Tasks : task[t].pc = "idle"
    BY <2>1 DEF StreamInv, StartsIdle
  <2> QED BY <2>1, <2>2 DEF FinalOwed, TierReached
\* Steps of tasks that deliver nothing.
<1>4. ASSUME NEW t \in Tasks, NEW n \in TaskSet, task' = [task EXCEPT ![t] = n],
             task[t].pc \notin FinalPlaces, n.pc \notin FinalLocked, faults' \in {faults, faults + 1},
             UNCHANGED <<hasCard, ended, delivered, stray>>
      PROVE  FinalOwed' /\ TierReached'
  <2>1. task'[t] = n /\ (\A u \in Tasks : u # t => task'[u] = task[u]) /\ Tiers' = Tiers
    BY <1>1, <1>4 DEF Tiers
  <2>2. TierReached'
    BY <1>1, <1>4, <2>1 DEF TierReached, FinalLocked
  <2>3. FinalOwed'
    BY <1>1, <1>4, <2>1 DEF FinalOwed
  <2> QED BY <2>2, <2>3
<1>5. ASSUME NEW t \in Tasks, TimerFires(t) \/ FlushTask(t) \/ NewContent(t) \/ NewSide(t) PROVE FinalOwed' /\ TierReached'
  <2>1. task[t].pc \in {"idle", "again"} /\ UNCHANGED <<hasCard, ended, delivered, faults, stray>>
    BY <1>5 DEF TimerFires, FlushTask, NewContent, NewSide, At
  <2>2. \E n \in TaskSet : task' = [task EXCEPT ![t] = n] /\ n.pc \in Loose
    BY <1>1, <1>5, QuietLands DEF Lands
  <2> QED BY <1>1, <1>4, <2>1, <2>2 DEF FinalPlaces, FinalLocked, Loose
<1>6. ASSUME NEW t \in Tasks, TakeWriteLock(t) PROVE FinalOwed' /\ TierReached'
  <2>1. task[t].pc \in {"write", "frame"} /\ UNCHANGED <<hasCard, ended, delivered, faults, stray>>
    BY <1>6 DEF TakeWriteLock
  <2>2. \/ FlushReturns(t) \/ (Rest(t) /\ UNCHANGED ctl) \/ Throttled(t, version, cardId)
        \/ Go(t, "writing") \/ Go(t, "framing")
    BY <1>6 DEF TakeWriteLock, Call
  <2>3. ctl \in Controllers /\ version \in 0 .. MaxVersion + 1
    BY <1>1 DEF StreamTypeOK
  <2>4. \E n \in TaskSet : task' = [task EXCEPT ![t] = n] /\ n.pc \in Loose \cup {"writing", "framing"}
    <3>1. ASSUME Go(t, "writing") \/ Go(t, "framing")
          PROVE \E n \in TaskSet : task' = [task EXCEPT ![t] = n] /\ n.pc \in Loose \cup {"writing", "framing"}
      BY <1>1, <3>1, Goes DEF Places
    <3>2. ASSUME FlushReturns(t) \/ (Rest(t) /\ UNCHANGED ctl) \/ Throttled(t, version, cardId)
          PROVE \E n \in TaskSet : task' = [task EXCEPT ![t] = n] /\ n.pc \in Loose
      BY <1>1, <2>3, <3>2, ReturnLands, RestLands, ThrottledLands DEF Lands
    <3> QED BY <2>2, <3>1, <3>2
  <2> QED BY <1>1, <1>4, <2>1, <2>4 DEF FinalPlaces, FinalLocked, Loose
<1>7. ASSUME NEW t \in Tasks, \/ FrameAccepted(t) \/ Reopened(t) \/ StreamClosed(t)
                              \/ (\E why \in Reasons : FrameRefused(t, why))
      PROVE  FinalOwed' /\ TierReached'
  <2>1. /\ task[t].pc \in FrameLocked /\ UNCHANGED <<hasCard, ended, delivered, stray>> /\ faults' \in {faults, faults + 1}
        /\ \/ FlushReturns(t) \/ (Rest(t) /\ UNCHANGED ctl) \/ Throttled(t, version, FALSE)
           \/ \E p \in FrameLocked : Go(t, p)
    <3>1. CASE FrameAccepted(t)
      BY <3>1 DEF FrameAccepted, FrameLocked
    <3>2. CASE Reopened(t) \/ StreamClosed(t)
      BY <3>2 DEF Reopened, StreamClosed, Fault, Call, FrameLocked
    <3>3. CASE \E why \in Reasons : FrameRefused(t, why)
      BY <3>3 DEF FrameRefused, Fault, FrameLocked
    <3> QED BY <1>7, <3>1, <3>2, <3>3
  <2>2. ctl \in Controllers /\ version \in 0 .. MaxVersion + 1
    BY <1>1 DEF StreamTypeOK
  <2>3. \E n \in TaskSet : task' = [task EXCEPT ![t] = n] /\ n.pc \in Loose \cup FrameLocked
    <3>1. ASSUME NEW p \in FrameLocked, Go(t, p)
          PROVE \E n \in TaskSet : task' = [task EXCEPT ![t] = n] /\ n.pc \in Loose \cup FrameLocked
      BY <1>1, <3>1, Goes DEF Places, FrameLocked
    <3>2. ASSUME FlushReturns(t) \/ (Rest(t) /\ UNCHANGED ctl) \/ Throttled(t, version, FALSE)
          PROVE \E n \in TaskSet : task' = [task EXCEPT ![t] = n] /\ n.pc \in Loose
      BY <1>1, <2>2, <3>2, ReturnLands, RestLands, ThrottledLands DEF Lands
    <3> QED BY <2>1, <3>1, <3>2
  <2> QED BY <1>1, <1>4, <2>1, <2>3 DEF FinalPlaces, FinalLocked, FrameLocked, Loose
<1>8. ASSUME NEW t \in Tasks, TakePatchLock(t) \/ \E ok \in BOOLEAN : Patched(t, ok) PROVE FinalOwed' /\ TierReached'
  <2>1. /\ task[t].pc \in {"patch", "patching"} /\ UNCHANGED <<hasCard, ended, delivered, stray>> /\ faults' \in {faults, faults + 1}
        /\ FlushReturns(t) \/ task' = [task EXCEPT ![t] = [pc |-> "patching", v |-> version]]
    BY <1>8 DEF TakePatchLock, Patched, Fault, At
  <2>2. PICK m : m = [pc |-> "patching", v |-> version]
    OBVIOUS
  <2>3. m \in TaskSet /\ m.pc = "patching"
    BY <1>1, <2>2 DEF TaskSet, Places, StreamTypeOK
  <2>4. FlushReturns(t) => \E n \in TaskSet : task' = [task EXCEPT ![t] = n] /\ n.pc \in Loose
    BY <1>1, ReturnLands DEF Lands
  <2> QED BY <1>1, <1>4, <2>1, <2>2, <2>3, <2>4 DEF FinalPlaces, FinalLocked, Loose
<1>9. ASSUME NEW t \in Tasks, NEW how \in Endings, EndCard(t, how) PROVE FinalOwed' /\ TierReached'
  <2>3. PICK m : m = [pc |-> "final", v |-> version + 1]
    OBVIOUS
  <2>4. m \in TaskSet /\ m.pc = "final"
    BY <1>1, <1>9, <2>3 DEF EndCard, Open, TerminalState, StreamInv, EndsOnce, TaskSet, Places, StreamTypeOK
  <2>1. PICK n \in TaskSet : task' = [task EXCEPT ![t] = n] /\ n.pc = "final"
    BY <1>9, <2>3, <2>4 DEF EndCard
  <2>2. task'[t] = n /\ (\A u \in Tasks : u # t => task'[u] = task[u]) /\ UNCHANGED <<hasCard, faults, stray>>
    BY <1>1, <1>9, <2>1 DEF EndCard
  <2> QED BY <2>1, <2>2 DEF FinalOwed, TierReached, Tiers, FinalPlaces
\* The next place of the final delivery.
<1>10. ASSUME NEW t \in Tasks, NEW n \in TaskSet, task' = [task EXCEPT ![t] = n], n.pc \in FinalPlaces,
              faults' \in {faults, faults + 1}, UNCHANGED hasCard,
              n.pc = "fpatch" => faults' >= Tiers - 2, n.pc = "ftext" => faults' >= Tiers - 1
       PROVE  FinalOwed' /\ TierReached'
  <2>1. task'[t] = n /\ (\A u \in Tasks : u # t => task'[u] = task[u]) /\ Tiers' = Tiers
    BY <1>1, <1>10 DEF Tiers
  <2> QED BY <1>1, <1>10, <2>1 DEF FinalOwed, TierReached
<1>11. ASSUME NEW t \in Tasks, TakeFinalLock(t) PROVE FinalOwed' /\ TierReached'
  <2>1. UNCHANGED <<hasCard, faults, stray>> /\ (Go(t, "fstream") \/ Go(t, "fclose") \/ (~hasCard /\ Go(t, "fpatch")))
    BY <1>11 DEF TakeFinalLock, Call
  <2>2. \E n \in TaskSet : /\ task' = [task EXCEPT ![t] = n] /\ n.pc \in FinalPlaces /\ n.pc # "ftext"
                           /\ n.pc = "fpatch" => Tiers = 2
    BY <1>1, <2>1, Goes DEF Places, FinalPlaces, FinalLocked, Tiers
  <2>3. faults' \in {faults, faults + 1} /\ UNCHANGED hasCard /\ (Tiers = 2 => faults' >= Tiers - 2)
    BY <1>1, <2>1
  <2> QED BY <1>10, <2>2, <2>3
<1>12. ASSUME NEW t \in Tasks, FinalAccepted(t) PROVE FinalOwed' /\ TierReached'
  <2>1. UNCHANGED <<hasCard, faults, stray>> /\ Go(t, FinalNext(task[t].pc))
        /\ FinalNext(task[t].pc) \in {"fclose", "fretry", "fupdate"}
    BY <1>12 DEF FinalAccepted, Call, FinalNext
  <2>2. \E n \in TaskSet : task' = [task EXCEPT ![t] = n] /\ n.pc \in {"fclose", "fretry", "fupdate"}
    BY <1>1, <2>1, Goes DEF Places
  <2> QED BY <1>1, <1>10, <2>1, <2>2 DEF FinalPlaces, FinalLocked
<1>13. ASSUME NEW t \in Tasks, NEW why \in Reasons \cup {"closed"}, FinalRefused(t, why) PROVE FinalOwed' /\ TierReached'
  <2>1. /\ task[t].pc \in {"fstream", "freopen", "fretry", "fclose", "fupdate", "fpatch"}
        /\ faults' = faults + 1 /\ UNCHANGED hasCard
    BY <1>13 DEF FinalRefused, Fault
  <2>2. PICK p : p = FinalFallback(task[t].pc, why)
    OBVIOUS
  <2>3. /\ p \in {"freopen", "fclose", "fpatch", "ftext"} /\ (p = "ftext" => task[t].pc = "fpatch")
    BY <2>1, <2>2 DEF FinalFallback
  <2>4. Go(t, p)
    BY <1>13, <2>2 DEF FinalRefused, Call
  <2>5. PICK n \in TaskSet : task' = [task EXCEPT ![t] = n] /\ n.pc = p
    BY <1>1, <2>3, <2>4, Goes DEF Places
  <2>6. (p = "fpatch" => faults' >= Tiers - 2) /\ (p = "ftext" => faults' >= Tiers - 1)
    BY <1>1, <2>1, <2>3 DEF TierReached
  <2>7. p \in FinalPlaces
    BY <2>3 DEF FinalPlaces, FinalLocked
  <2> QED BY <1>10, <2>1, <2>5, <2>6, <2>7
<1>14. ASSUME NEW t \in Tasks, NEW ok \in BOOLEAN, FinalEnds(t, ok) PROVE FinalOwed' /\ TierReached'
  <2>1. /\ task' = [task EXCEPT ![t] = IdleTask] /\ UNCHANGED hasCard /\ faults' \in {faults, faults + 1}
        /\ delivered' # "no" \/ (task[t].pc = "ftext" /\ faults' = faults + 1)
    BY <1>14 DEF FinalEnds, Brings, Rest, Fault
  <2>2. task'[t].pc = "idle" /\ (\A u \in Tasks : u # t => task'[u] = task[u]) /\ Tiers' = Tiers
    BY <1>1, <2>1 DEF IdleTask, Tiers
  <2>3. TierReached'
    BY <1>1, <2>1, <2>2 DEF TierReached
  <2>4. FinalOwed'
    BY <1>1, <2>1, <2>2 DEF FinalOwed, TierReached
  <2> QED BY <2>3, <2>4
<1>15. ASSUME NEW t \in Tasks, StreamTask(t) \/ StreamFault(t) PROVE FinalOwed' /\ TierReached'
  BY <1>5, <1>6, <1>7, <1>8, <1>11, <1>12, <1>13, <1>14, <1>15 DEF StreamTask, StreamFault
<1>16. ASSUME NEW t \in Tasks,
              \/ UpdateCard(t) \/ UpdateReasoning(t) \/ ToolStarted(t) \/ ToolCompleted(t) \/ StatusUpdate(t)
              \/ FinalizeCard(t) \/ AbortCard(t) \/ FailCard(t)
       PROVE  FinalOwed' /\ TierReached'
  BY <1>5, <1>9, <1>16 DEF UpdateCard, UpdateReasoning, ToolStarted, ToolCompleted, StatusUpdate,
       FinalizeCard, AbortCard, FailCard, Endings
\* A cancelled delivery is not owed any more; an abandoned call may still deliver.
<1>17. ASSUME NEW t \in Tasks, CancelTask(t) PROVE FinalOwed' /\ TierReached'
  <2>1. /\ task' = [task EXCEPT ![t] = IdleTask] /\ IdleTask.pc = "idle"
        /\ stray'.final <=> stray.final \/ task[t].pc \in FinalPlaces
        /\ UNCHANGED <<hasCard, ended, delivered, faults>>
    BY <1>17 DEF CancelTask, Rest, IdleTask
  <2>2. task'[t].pc = "idle" /\ (\A u \in Tasks : u # t => task'[u] = task[u]) /\ Tiers' = Tiers
    BY <1>1, <2>1 DEF Tiers
  <2> QED BY <2>1, <2>2 DEF FinalOwed, TierReached
<1>18. ASSUME NEW c \in stray.calls, LateCall(c) PROVE FinalOwed' /\ TierReached'
  <2>1. UNCHANGED <<hasCard, ended, task, faults>> /\ stray'.final = stray.final /\ Tiers' = Tiers
        /\ delivered' \in {delivered, Brings(c.pc)}
    BY <1>18, CardNumbers DEF LateCall, Strays, Tiers
  <2>2. delivered' = "no" => delivered = "no"
    BY <2>1 DEF Brings
  <2> QED BY <2>1, <2>2 DEF FinalOwed, TierReached
<1> QED BY <1>2, <1>3, <1>15, <1>16, <1>17, <1>18 DEF StreamNext

\* The safety half of what a reader is promised: while nothing is refused a card behind the
\* state has a flush under way or coming, so the trailing frame is not coalesced away, or
\* it waits for the next flush because one was cancelled; and a reply that ended was
\* delivered, is being delivered, had every tier refused or had its delivery cancelled
\* (flush_controller.py, _deliver_final_card).
THEOREM NothingForgotten == StreamSpec => [](TrailingOwed /\ FinalOwed)
<1>1. StreamInit => CatchingUp /\ FinalOwed /\ TierReached
  <2> SUFFICES ASSUME StreamInit PROVE CatchingUp /\ FinalOwed /\ TierReached
    OBVIOUS
  <2>1. /\ \A t \in Tasks : task[t].pc = "idle"
        /\ ~ctl.busy /\ ~ctl.reflush
        /\ stage = "none" /\ ended = "no" /\ hasCard = FALSE /\ cardId = FALSE
        /\ version = 0 /\ shownV = 0 /\ flushed = 0 /\ stray.calls = {}
    BY DEF StreamInit, IdleTask
  <2>2. OneFlush /\ Followed /\ TrailingOwed
    <3>1. OneFlush /\ TrailingOwed
      BY <2>1 DEF OneFlush, TrailingOwed, Flushing, Landing
    <3>2. Followed
      <4>1. shownV <= version
        BY <2>1
      <4>2. hasCard = cardId /\ ~hasCard
        BY <2>1, Zenon
      <4> QED BY <2>1, <4>1, <4>2 DEF Followed, Recovering, Landing
    <3> QED BY <3>1, <3>2
  <2>3. FinalOwed /\ TierReached
    BY <2>1 DEF FinalOwed, TierReached
  <2> QED BY <2>2, <2>3 DEF CatchingUp
<1>2. StreamInv /\ StrayInv /\ CatchingUp /\ [StreamNext]_streamVars => CatchingUp'
  BY StepOwes
<1>3. StreamInv /\ StrayInv /\ FinalOwed /\ TierReached /\ [StreamNext]_streamVars => FinalOwed' /\ TierReached'
  BY StepDelivers
<1>4. CatchingUp => TrailingOwed
  BY DEF CatchingUp, TrailingOwed
<1> QED BY <1>1, <1>2, <1>3, <1>4, StreamInvariant, PTL DEF StreamSpec

-----------------------------------------------------------------------------
(* Cron. *)

Finalising == {"deliver", "record", "unlock"}

\* A gateway that scans a profile holds its tick lock; until it leaves the context it holds
\* the patch lock too, and the jobs it still has to look at are due.
ScansHold ==
    \A g \in Gateways :
        /\ scan[g].pc # "idle" => /\ scan[g].profile \in Profiles /\ tick[scan[g].profile] = g
                                  /\ tickClaim[g][scan[g].profile].open
        /\ patch[g] = Scanning <=> scan[g].pc \in {"jobs", "submit"}
        /\ scan[g].todo # {} => scan[g].pc \in {"jobs", "submit"}
        /\ \A j \in scan[g].todo : ProfileOf[j] = scan[g].profile /\ (j \in due \/ j \in OneShots)
        /\ scan[g].pc = "submit" => /\ scan[g].job \in inFlight[g]
                                    /\ future[g][scan[g].job].pc = "none"
                                    /\ ProfileOf[scan[g].job] = scan[g].profile

\* A future keeps the tick lock of its profile, its finaliser the patch lock.
FuturesHold ==
    \A g \in Gateways, j \in Jobs :
        /\ future[g][j].pc # "none" => tick[ProfileOf[j]] = g /\ j \in inFlight[g]
        /\ future[g][j].pc \in Finalising => patch[g] = j /\ paths[g] = ProfileOf[j]
        /\ future[g][j].pc = "unlock" => runClaim[j] = NoOne

\* The tick claim counts the futures of its profile.
Pending(g, p) == {j \in Jobs : ProfileOf[j] = p /\ future[g][j].pc # "none"}
FuturesCounted == \A g \in Gateways, p \in Profiles : tickClaim[g][p].left = Cardinality(Pending(g, p))

\* Occurrences of a job that are due or about to be started, which are yet to be counted.
Submitting(j) == \E g \in Gateways : scan[g].pc = "submit" /\ scan[g].job = j
Owed(j) == (IF j \in due THEN 1 ELSE 0) + (IF Submitting(j) THEN 1 ELSE 0)
StartsOwed == \A j \in Jobs \ OneShots : started[j] + Owed(j) <= times[j]

\* A finaliser that is to tell the owner names a marker; if that is early, a failure is to
\* blame; once told, it is the last notice the owner heard.
Noticing == {"deliver", "record"}
FutureNotice(g, j) ==
    LET f == future[g][j]
        p == ProfileOf[j] IN
    f.pc \in Noticing /\ f.notice =>
        /\ f.result \in Markers
        /\ f.pc = "record" => told[p].last = f.result
        /\ f.pc = "deliver" /\ Early(p, f.result) => told[p].early + 1 <= crashes

\* What the owner was told last is on record, is about to be, or a process or a file failed
\* that no early notice is charged to yet.
Telling(p) == \E g \in Gateways, j \in Jobs :
                 ProfileOf[j] = p /\ future[g][j].pc = "record" /\ future[g][j].notice
Unrecorded(p) == told[p].last # NoOne /\ ~(notice[p].key = told[p].last /\ notice[p].at >= told[p].at)
OwnerNotice(p) ==
    /\ notice[p].at <= now /\ told[p].at <= now
    /\ {notice[p].key, told[p].last} \subseteq told[p].keys \cup {NoOne}
    /\ told[p].early <= crashes
    /\ Unrecorded(p) /\ ~Telling(p) => told[p].early + 1 <= crashes
NoticesKept ==
    /\ \A g \in Gateways, j \in Jobs : FutureNotice(g, j)
    /\ \A p \in Profiles : OwnerNotice(p)

\* Inductive.
CronInv == CronTypeOK /\ ScansHold /\ FuturesHold /\ FuturesCounted /\ StartsOwed /\ NoticesKept /\ ClaimsAccounted

LEMMA CronStarts == CronInit => CronInv
<1> SUFFICES ASSUME CronInit PROVE CronInv
  OBVIOUS
<1> USE CronAssumption
<1>1. CronTypeOK
  BY DEF CronInit, CronTypeOK, Scans, TickClaims, Futures, IdleScan, NoFuture, FuturePlaces, Results,
     Notices, Hearings, NoNotice, NothingTold
<1>2. ScansHold /\ FuturesHold /\ ClaimsAccounted
  BY DEF CronInit, ScansHold, FuturesHold, ClaimsAccounted, IdleScan, NoFuture, Finalising, Scanning
<1>3. FuturesCounted
  <2>1. \A g \in Gateways, p \in Profiles : Pending(g, p) = {}
    BY DEF CronInit, Pending, NoFuture
  <2>2. Cardinality({}) = 0
    BY FS_EmptySet, Zenon
  <2> QED BY <2>1, <2>2 DEF CronInit, FuturesCounted
<1>4. StartsOwed
  BY DEF CronInit, StartsOwed, Owed, Submitting, IdleScan
<1>5. NoticesKept
  BY DEF CronInit, NoticesKept, FutureNotice, OwnerNotice, Unrecorded, Noticing, NoFuture, NoNotice, NothingTold
<1> QED BY <1>1, <1>2, <1>3, <1>4, <1>5 DEF CronInv

LEMMA PendingFinite == \A g, p : IsFiniteSet(Pending(g, p)) /\ Cardinality(Pending(g, p)) \in Nat
  BY CronAssumption, FS_Subset, FS_CardinalityType DEF Pending

\* A step that leaves open which futures there are, what is patched and what is claimed.
LEMMA SameCounts ==
    ASSUME FuturesCounted, UNCHANGED tickClaim,
           \A g \in Gateways, j \in Jobs : future'[g][j].pc = "none" <=> future[g][j].pc = "none"
    PROVE  FuturesCounted'
<1>1. ASSUME NEW g \in Gateways, NEW p \in Profiles PROVE Pending(g, p)' = Pending(g, p)
  BY DEF Pending
<1> QED BY <1>1 DEF FuturesCounted

\* A step that leaves the notices and the finalisers that deliver or record alone.
LEMMA SameNotices ==
    ASSUME NoticesKept, CronTypeOK, UNCHANGED <<now, notice, told>>, crashes' \in Nat, crashes' >= crashes,
           \A g \in Gateways, j \in Jobs :
               future[g][j].pc \in Noticing \/ future'[g][j].pc \in Noticing =>
                   /\ future'[g][j].pc = future[g][j].pc /\ future'[g][j].notice = future[g][j].notice
                   /\ future'[g][j].result = future[g][j].result
    PROVE  NoticesKept'
<1> USE CronAssumption
<1>1. \A p \in Profiles : told[p].early \in Nat /\ crashes \in Nat
  BY DEF CronTypeOK, Hearings
<1>2. ASSUME NEW g \in Gateways, NEW j \in Jobs PROVE FutureNotice(g, j)'
  <2>1. ProfileOf[j] \in Profiles /\ told[ProfileOf[j]].early \in Nat /\ crashes \in Nat
    BY <1>1
  <2>2. FutureNotice(g, j)
    BY DEF NoticesKept
  <2> QED BY <2>1, <2>2 DEF FutureNotice, Early
<1>3. ASSUME NEW p \in Profiles PROVE OwnerNotice(p)'
  <2>1. Telling(p)' <=> Telling(p)
    BY DEF Telling, Noticing
  <2>2. Unrecorded(p)' <=> Unrecorded(p)
    BY DEF Unrecorded
  <2> QED BY <1>1, <2>1, <2>2 DEF OwnerNotice, NoticesKept
<1> QED BY <1>2, <1>3 DEF NoticesKept

LEMMA JobsKeep ==
    ASSUME CronInv, NEW j \in Jobs, JobDue(j) \/ ClaimExpires(j)
    PROVE  CronInv'
<1> USE CronAssumption DEF CronInv
<1>1. /\ UNCHANGED <<expert, now, tick, patch, paths, scan, tickClaim, inFlight, future, notice, told, started, crashes>>
      /\ due' \in SUBSET Jobs /\ times' \in [Jobs -> 0 .. MaxDue] /\ runClaim' \in [Jobs -> Gateways \cup {NoOne}]
      /\ due \subseteq due' /\ \A q \in Jobs : runClaim'[q] \in {runClaim[q], NoOne}
      /\ \A q \in Jobs : \/ times'[q] = times[q] /\ (q \in due' <=> q \in due)
                         \/ times'[q] = times[q] + 1 /\ q \notin due /\ q \in due'
  <2>1. CASE JobDue(j)
    <3>1. times[j] < MaxDue \/ times[j] = 0
      BY <2>1 DEF JobDue, CronTypeOK
    <3>2. times' = [times EXCEPT ![j] = times[j] + 1] /\ times[j] + 1 \in 0 .. MaxDue
      BY <2>1, <3>1 DEF JobDue, CronTypeOK
    <3> QED BY <2>1, <3>2 DEF JobDue, CronTypeOK
  <2>2. CASE ClaimExpires(j)
    BY <2>2 DEF ClaimExpires, CronTypeOK
  <2> QED BY <2>1, <2>2
<1>2. CronTypeOK' /\ ScansHold'
  BY <1>1 DEF CronTypeOK, ScansHold
<1>3. FuturesHold'
  BY <1>1 DEF FuturesHold
<1>4. FuturesCounted'
  BY <1>1, SameCounts
<1>5. StartsOwed'
  <2>1. \A q : Submitting(q)' = Submitting(q)
    BY <1>1 DEF Submitting
  <2> QED BY <1>1, <2>1 DEF StartsOwed, Owed, CronTypeOK
<1>6. NoticesKept'
  BY <1>1, SameNotices DEF CronTypeOK
<1>7. ClaimsAccounted'
  BY <1>1 DEF ClaimsAccounted
<1> QED BY <1>2, <1>3, <1>4, <1>5, <1>6, <1>7

LEMMA Names == Scanning \notin Jobs /\ Scanning # NoOne /\ NoOne \notin Jobs /\ NoOne \notin Gateways /\ NoOne \notin Profiles
  BY CronAssumption DEF Scanning

LEMMA ScanProfileKeeps ==
    ASSUME CronInv, NEW g \in Gateways, NEW p \in Profiles, ScanProfile(g, p)
    PROVE  CronInv'
<1> USE CronAssumption, Names DEF CronInv
<1> DEFINE n == [IdleScan EXCEPT !.pc = "jobs", !.profile = p, !.todo = DueIn(p)]
<1>1. /\ scan[g].pc = "idle" /\ patch[g] = NoOne /\ tick[p] = NoOne
      /\ patch' = [patch EXCEPT ![g] = Scanning] /\ paths' = [paths EXCEPT ![g] = p]
      /\ tick' = [tick EXCEPT ![p] = g]
      /\ tickClaim' = [tickClaim EXCEPT ![g][p] = [open |-> TRUE, left |-> 0]]
      /\ scan' = [scan EXCEPT ![g] = n]
      /\ runClaim' = [j \in Jobs |-> IF j \in DueIn(p) \cap OneShots THEN g ELSE runClaim[j]]
      /\ UNCHANGED <<expert, now, due, times, inFlight, future, notice, told, started, crashes>>
  BY DEF ScanProfile
<1>2. /\ n \in Scans /\ n.pc = "jobs" /\ n.profile = p /\ n.todo = DueIn(p) /\ n.job = NoOne
      /\ DueIn(p) \subseteq {j \in due : ProfileOf[j] = p} /\ due \subseteq Jobs
  BY DEF IdleScan, Scans, DueIn, CronTypeOK
<1> HIDE DEF n
<1>3. \A j \in Jobs, h \in Gateways : future[h][j].pc # "none" => ProfileOf[j] # p /\ tick'[ProfileOf[j]] = h
  BY <1>1 DEF FuturesHold, CronTypeOK
<1>4. CronTypeOK'
  <2>1. tickClaim' \in [Gateways -> [Profiles -> TickClaims]]
    BY <1>1 DEF CronTypeOK, TickClaims
  <2>2. scan' \in [Gateways -> Scans]
    BY <1>1, <1>2 DEF CronTypeOK
  <2> QED BY <1>1, <2>1, <2>2 DEF CronTypeOK
<1>5. ScansHold'
  <2>1. \A h \in Gateways : h # g /\ scan[h].pc # "idle" => scan[h].profile # p
    BY <1>1 DEF ScansHold
  <2>2. ASSUME NEW h \in Gateways, h # g
        PROVE  scan'[h] = scan[h] /\ patch'[h] = patch[h] /\ tickClaim'[h] = tickClaim[h]
    BY <1>1, <2>2 DEF CronTypeOK
  <2>3. scan'[g] = n /\ patch'[g] = Scanning /\ tick'[p] = g /\ tickClaim'[g][p].open
    BY <1>1 DEF CronTypeOK
  <2>4. \A q \in Profiles : q # p => tick'[q] = tick[q]
    BY <1>1 DEF CronTypeOK
  <2> QED BY <1>1, <1>2, <2>1, <2>2, <2>3, <2>4 DEF ScansHold
<1>6. FuturesHold'
  <2>1. \A j \in Jobs : future[g][j].pc \notin Finalising
    BY <1>1 DEF FuturesHold
  <2>2. \A h \in Gateways : h # g => patch'[h] = patch[h] /\ paths'[h] = paths[h]
    BY <1>1 DEF CronTypeOK
  <2>3. ASSUME NEW j \in Jobs, NEW h \in Gateways, future[h][j].pc = "unlock"
        PROVE  runClaim'[j] = NoOne
    <3>1. ProfileOf[j] # p
      BY <1>3, <2>3
    <3>2. j \notin DueIn(p)
      BY <3>1 DEF DueIn
    <3> QED BY <1>1, <2>3, <3>2 DEF FuturesHold
  <2> QED BY <1>1, <1>3, <2>1, <2>2, <2>3 DEF FuturesHold
<1>7. FuturesCounted'
  <2>1. Pending(g, p) = {}
    BY <1>3 DEF Pending
  <2>2. Cardinality({}) = 0
    BY FS_EmptySet, Zenon
  <2>3. \A h \in Gateways, q \in Profiles : Pending(h, q)' = Pending(h, q)
    BY <1>1 DEF Pending
  <2>4. tickClaim'[g][p].left = 0 /\ \A h \in Gateways, q \in Profiles : h # g \/ q # p => tickClaim'[h][q] = tickClaim[h][q]
    BY <1>1 DEF CronTypeOK
  <2>5. ASSUME NEW h \in Gateways, NEW q \in Profiles PROVE tickClaim'[h][q].left = Cardinality(Pending(h, q)')
    <3>1. CASE h = g /\ q = p
      BY <3>1, <2>1, <2>2, <2>3, <2>4
    <3>2. CASE h # g \/ q # p
      BY <3>2, <2>3, <2>4 DEF FuturesCounted
    <3> QED BY <3>1, <3>2
  <2> QED BY <2>5 DEF FuturesCounted
<1>8. StartsOwed'
  <2>1. ASSUME NEW q \in Jobs PROVE Submitting(q)' <=> Submitting(q)
    BY <1>1, <1>2 DEF Submitting, CronTypeOK
  <2> QED BY <1>1, <2>1 DEF StartsOwed, Owed
<1>9. NoticesKept'
  BY <1>1, SameNotices DEF CronTypeOK
<1>10. ClaimsAccounted'
  <2>1. ASSUME NEW j \in Jobs, runClaim'[j] # NoOne, crashes = 0 PROVE j \in scan'[runClaim'[j]].todo \cup inFlight[runClaim'[j]]
    <3>1. CASE j \in DueIn(p) \cap OneShots
      BY <3>1, <1>1, <1>2 DEF CronTypeOK
    <3>2. CASE j \notin DueIn(p) \cap OneShots
      <4>1. runClaim'[j] = runClaim[j] /\ runClaim[j] \in Gateways
        BY <3>2, <2>1, <1>1 DEF CronTypeOK
      <4>2. j \in scan[runClaim[j]].todo \cup inFlight[runClaim[j]]
        BY <2>1, <4>1 DEF ClaimsAccounted
      <4>3. scan[g].todo = {}
        BY <1>1 DEF ScansHold
      <4>4. runClaim[j] # g => scan'[runClaim[j]] = scan[runClaim[j]]
        BY <4>1, <1>1 DEF CronTypeOK
      <4> QED BY <4>1, <4>2, <4>3, <4>4
    <3> QED BY <3>1, <3>2
  <2>2. crashes \in Nat /\ crashes' = crashes
    BY <1>1 DEF CronTypeOK
  <2> QED BY <2>1, <2>2, <1>1 DEF ClaimsAccounted
<1> QED BY <1>4, <1>5, <1>6, <1>7, <1>8, <1>9, <1>10

\* A step of a gateway's scan that moves only its place and the jobs it looks at.
LEMMA ScanMoves ==
    ASSUME CronInv, NEW g \in Gateways, NEW n \in Scans, scan' = [scan EXCEPT ![g] = n],
           n.profile = scan[g].profile, n.pc = "idle" <=> scan[g].pc = "idle",
           n.todo \subseteq scan[g].todo, n.pc \notin {"jobs", "submit"} => n.todo = {},
           n.pc = "submit" => /\ n.job \in inFlight'[g] /\ future'[g][n.job].pc = "none"
                              /\ ProfileOf[n.job] = n.profile,
           \A h \in Gateways : patch'[h] = Scanning <=>
                                  (IF h = g THEN n.pc \in {"jobs", "submit"} ELSE patch[h] = Scanning),
           \A h \in Gateways : scan[h].pc = "submit" /\ h # g => /\ scan[h].job \in inFlight'[h]
                                                        /\ future'[h][scan[h].job].pc = "none",
           \A j \in Jobs : j \in due => j \in due' \/ j \in OneShots,
           UNCHANGED <<tick, tickClaim>>
    PROVE  ScansHold'
<1> USE CronAssumption, Names DEF CronInv
<1>1. scan'[g] = n /\ \A h \in Gateways : h # g => scan'[h] = scan[h]
  BY DEF CronTypeOK
<1>2. scan[g].todo \subseteq Jobs /\ n.pc \in {"idle", "jobs", "submit", "attach"}
  BY DEF CronTypeOK, Scans
<1>3. ASSUME NEW h \in Gateways
      PROVE  /\ scan'[h].pc # "idle" => /\ scan'[h].profile \in Profiles /\ tick'[scan'[h].profile] = h
                                        /\ tickClaim'[h][scan'[h].profile].open
             /\ scan'[h].todo # {} => scan'[h].pc \in {"jobs", "submit"}
             /\ \A j \in scan'[h].todo : ProfileOf[j] = scan'[h].profile /\ (j \in due' \/ j \in OneShots)
  <2>1. scan[h].todo \subseteq Jobs
    BY DEF CronTypeOK, Scans
  <2>2. CASE h = g
    BY <2>2, <1>1, <1>2 DEF ScansHold
  <2>3. CASE h # g
    BY <2>1, <2>3, <1>1 DEF ScansHold
  <2> QED BY <2>2, <2>3
<1>4. ASSUME NEW h \in Gateways
      PROVE  /\ patch'[h] = Scanning <=> scan'[h].pc \in {"jobs", "submit"}
             /\ scan'[h].pc = "submit" => /\ scan'[h].job \in inFlight'[h]
                                          /\ future'[h][scan'[h].job].pc = "none"
                                          /\ ProfileOf[scan'[h].job] = scan'[h].profile
  BY <1>1, <1>2 DEF ScansHold
<1> QED BY <1>3, <1>4 DEF ScansHold

LEMMA DeclineKeeps ==
    ASSUME CronInv, NEW g \in Gateways, NEW j \in Jobs, Decline(g, j)
    PROVE  CronInv'
<1> USE CronAssumption, Names DEF CronInv
<1> DEFINE n == [scan[g] EXCEPT !.todo = @ \ {j}]
<1>1. /\ scan[g].pc = "jobs" /\ j \in scan[g].todo /\ (~Belongs(g, j) \/ j \in inFlight[g])
      /\ scan' = [scan EXCEPT ![g] = n]
      /\ crashes' \in {crashes, crashes + 1} /\ crashes' \in 0 .. MaxCrashes
      /\ crashes' = crashes => runClaim' = IF ~Belongs(g, j) /\ runClaim[j] = g
                                           THEN [runClaim EXCEPT ![j] = NoOne] ELSE runClaim
      /\ runClaim' \in {runClaim, [runClaim EXCEPT ![j] = NoOne]}
      /\ UNCHANGED <<expert, now, due, times, tick, patch, paths, tickClaim, inFlight, future, notice, told, started>>
  BY DEF Decline, CronTypeOK
<1>2. /\ n \in Scans /\ n.pc = scan[g].pc /\ n.profile = scan[g].profile /\ n.todo = scan[g].todo \ {j}
      /\ n.job = scan[g].job
  <2>1. scan[g] \in Scans
    BY DEF CronTypeOK
  <2> QED BY <2>1 DEF Scans
<1> HIDE DEF n
<1>3. CronTypeOK'
  BY <1>1, <1>2 DEF CronTypeOK
<1>4. ScansHold'
  BY <1>1, <1>2, ScanMoves DEF ScansHold
<1>5. FuturesHold'
  BY <1>1 DEF FuturesHold, CronTypeOK
<1>6. FuturesCounted'
  BY <1>1, SameCounts
<1>7. StartsOwed'
  <2>1. ASSUME NEW q \in Jobs PROVE Submitting(q)' <=> Submitting(q)
    BY <1>1, <1>2 DEF Submitting, CronTypeOK
  <2> QED BY <1>1, <2>1 DEF StartsOwed, Owed
<1>8. NoticesKept'
  BY <1>1, SameNotices DEF CronTypeOK
<1>9. ClaimsAccounted'
  <2>1. CASE crashes' = crashes
    <3>1. \A h \in Gateways : h # g => scan'[h] = scan[h]
      BY <1>1 DEF CronTypeOK
    <3>2. scan'[g] = n
      BY <1>1 DEF CronTypeOK
    <3>3. ASSUME NEW q \in Jobs, runClaim'[q] # NoOne, crashes = 0
          PROVE  q \in scan'[runClaim'[q]].todo \cup inFlight'[runClaim'[q]]
      <4>1. runClaim[q] = runClaim'[q] /\ runClaim[q] \in Gateways
        BY <2>1, <3>3, <1>1 DEF CronTypeOK
      <4>2. q \in scan[runClaim[q]].todo \cup inFlight[runClaim[q]]
        BY <3>3, <4>1 DEF ClaimsAccounted
      <4>3. CASE runClaim[q] = g /\ q = j
        BY <4>1, <4>2, <4>3, <3>3, <2>1, <1>1 DEF CronTypeOK
      <4>4. CASE runClaim[q] # g \/ q # j
        BY <4>1, <4>2, <4>4, <3>1, <3>2, <1>1, <1>2
      <4> QED BY <4>3, <4>4
    <3> QED BY <3>3, <2>1, <1>1 DEF ClaimsAccounted, CronTypeOK
  <2>2. CASE crashes' # crashes
    BY <2>2, <1>1 DEF ClaimsAccounted, CronTypeOK
  <2> QED BY <2>1, <2>2
<1> QED BY <1>3, <1>4, <1>5, <1>6, <1>7, <1>8, <1>9

LEMMA AdvanceKeeps ==
    ASSUME CronInv, NEW g \in Gateways, NEW j \in Jobs, Advance(g, j)
    PROVE  CronInv'
<1> USE CronAssumption, Names DEF CronInv
<1> DEFINE n == [scan[g] EXCEPT !.todo = @ \ {j}, !.pc = "submit", !.job = j]
<1>1. /\ scan[g].pc = "jobs" /\ j \in scan[g].todo /\ j \notin inFlight[g]
      /\ inFlight' = [inFlight EXCEPT ![g] = @ \cup {j}]
      /\ due' = IF j \in OneShots THEN due ELSE due \ {j}
      /\ UNCHANGED <<expert, now, times, runClaim, tick, patch, paths, tickClaim, future, notice, told, started, crashes>>
  BY DEF Advance
<1>2. scan' = [scan EXCEPT ![g] = n]
  BY DEF Advance, CronTypeOK
<1>3. /\ n \in Scans /\ n.pc = "submit" /\ n.profile = scan[g].profile /\ n.todo = scan[g].todo \ {j} /\ n.job = j
  <2>1. scan[g] \in Scans
    BY DEF CronTypeOK
  <2> QED BY <2>1 DEF Scans
<1> HIDE DEF n
<1>4. inFlight' \in [Gateways -> SUBSET Jobs] /\ j \in inFlight'[g] /\ \A h \in Gateways : inFlight[h] \subseteq inFlight'[h]
  BY <1>1 DEF CronTypeOK
<1>5. ProfileOf[j] = scan[g].profile /\ (j \in due \/ j \in OneShots) /\ future[g][j].pc = "none"
      /\ tick[ProfileOf[j]] = g
  BY <1>1 DEF ScansHold, FuturesHold
<1>6. \A h \in Gateways : h # g => scan'[h] = scan[h]
  BY <1>2 DEF CronTypeOK
<1>7. scan'[g] = n
  BY <1>2 DEF CronTypeOK
<1>8. CronTypeOK'
  BY <1>1, <1>2, <1>3, <1>4 DEF CronTypeOK
<1>9. ScansHold'
  <2>1. \A h \in Gateways : h # g => \A q \in scan[h].todo : ProfileOf[q] # ProfileOf[j]
    BY <1>5 DEF ScansHold
  <2>2. ASSUME NEW h \in Gateways
        PROVE  /\ scan'[h].pc # "idle" => /\ scan'[h].profile \in Profiles /\ tick'[scan'[h].profile] = h
                                          /\ tickClaim'[h][scan'[h].profile].open
               /\ patch'[h] = Scanning <=> scan'[h].pc \in {"jobs", "submit"}
               /\ scan'[h].todo # {} => scan'[h].pc \in {"jobs", "submit"}
               /\ \A q \in scan'[h].todo : ProfileOf[q] = scan'[h].profile /\ (q \in due' \/ q \in OneShots)
               /\ scan'[h].pc = "submit" => /\ scan'[h].job \in inFlight'[h]
                                            /\ future'[h][scan'[h].job].pc = "none"
                                            /\ ProfileOf[scan'[h].job] = scan'[h].profile
    <3>1. CASE h = g
      BY <3>1, <1>1, <1>3, <1>4, <1>5, <1>7 DEF ScansHold
    <3>2. CASE h # g
      BY <3>2, <1>1, <1>4, <1>6, <2>1 DEF ScansHold
    <3> QED BY <3>1, <3>2
  <2> QED BY <2>2 DEF ScansHold
<1>10. FuturesHold'
  BY <1>1, <1>4 DEF FuturesHold
<1>11. FuturesCounted'
  BY <1>1, SameCounts
<1>12. StartsOwed'
  <2>1. ASSUME NEW q \in Jobs \ OneShots PROVE started'[q] + Owed(q)' <= times'[q]
    <3>1. CASE q = j
      <4>1. ~Submitting(j)
        BY <1>1, <1>5 DEF Submitting, ScansHold
      <4>2. j \in due /\ j \notin due'
        BY <3>1, <1>1, <1>5
      <4>3. Owed(j) = 1 /\ Owed(j)' \in {0, 1}
        BY <4>1, <4>2 DEF Owed
      <4>4. started[j] \in Nat /\ times[j] \in Nat /\ started[j] + Owed(j) <= times[j]
        BY <3>1 DEF StartsOwed, CronTypeOK
      <4> QED BY <3>1, <4>3, <4>4, <1>1
    <3>2. CASE q # j
      <4>1. Submitting(q)' <=> Submitting(q)
        BY <3>2, <1>1, <1>3, <1>6, <1>7 DEF Submitting
      <4>2. q \in due' <=> q \in due
        BY <3>2, <1>1
      <4> QED BY <4>1, <4>2, <1>1 DEF StartsOwed, Owed
    <3> QED BY <3>1, <3>2
  <2> QED BY <2>1 DEF StartsOwed
<1>13. NoticesKept'
  BY <1>1, SameNotices DEF CronTypeOK
<1>14. ClaimsAccounted'
  <2>1. ASSUME NEW q \in Jobs, NEW h \in Gateways, q \in scan[h].todo \cup inFlight[h]
        PROVE  q \in scan'[h].todo \cup inFlight'[h]
    BY <2>1, <1>3, <1>4, <1>6, <1>7
  <2>2. \A q \in Jobs : runClaim[q] \in Gateways \cup {NoOne}
    BY DEF CronTypeOK
  <2> QED BY <1>1, <2>1, <2>2 DEF ClaimsAccounted
<1> QED BY <1>8, <1>9, <1>10, <1>11, <1>12, <1>13, <1>14

LEMMA SubmitKeeps ==
    ASSUME CronInv, NEW g \in Gateways, Submit(g)
    PROVE  CronInv'
<1> USE CronAssumption, Names DEF CronInv
<1>0. PICK j \in Jobs : j = scan[g].job
  <2>1. scan[g] \in Scans /\ inFlight[g] \subseteq Jobs /\ scan[g].job \in inFlight[g]
    BY DEF CronTypeOK, ScansHold, Submit
  <2> QED BY <2>1
<1> DEFINE n == [scan[g] EXCEPT !.pc = "jobs", !.job = NoOne, !.specs = @ \cup {j}]
<1> DEFINE f == [NoFuture EXCEPT !.pc = "queued"]
<1>1. /\ scan[g].pc = "submit" /\ scan' = [scan EXCEPT ![g] = n]
      /\ future' = [future EXCEPT ![g][j] = f]
      /\ tickClaim' = [tickClaim EXCEPT ![g][ProfileOf[j]].left = @ + 1]
      /\ started' = [started EXCEPT ![j] = @ + 1]
      /\ UNCHANGED <<expert, now, due, times, runClaim, tick, patch, paths, inFlight, notice, told, crashes>>
  BY <1>0 DEF Submit, CronTypeOK
<1>2. /\ n \in Scans /\ n.pc = "jobs" /\ n.profile = scan[g].profile /\ n.todo = scan[g].todo
      /\ f \in Futures /\ f.pc = "queued" /\ f.notice = FALSE
  <2>1. scan[g] \in Scans
    BY DEF CronTypeOK
  <2> QED BY <2>1 DEF Scans, NoFuture, Futures, FuturePlaces, Results
<1> HIDE DEF n, f
<1>3. /\ ProfileOf[j] = scan[g].profile /\ tick[ProfileOf[j]] = g /\ j \in inFlight[g] /\ future[g][j].pc = "none"
      /\ patch[g] = Scanning
  BY <1>0, <1>1 DEF ScansHold
<1>4. /\ scan'[g] = n /\ \A h \in Gateways : h # g => scan'[h] = scan[h]
      /\ future'[g][j] = f /\ \A h \in Gateways, q \in Jobs : h # g \/ q # j => future'[h][q] = future[h][q]
      /\ future' \in [Gateways -> [Jobs -> Futures]]
  BY <1>1, <1>2 DEF CronTypeOK
<1>5. /\ tickClaim' \in [Gateways -> [Profiles -> TickClaims]]
      /\ \A h \in Gateways, p \in Profiles : tickClaim'[h][p].open = tickClaim[h][p].open
      /\ tickClaim'[g][ProfileOf[j]].left = tickClaim[g][ProfileOf[j]].left + 1
      /\ \A h \in Gateways, p \in Profiles : h # g \/ p # ProfileOf[j] => tickClaim'[h][p].left = tickClaim[h][p].left
  <2> DEFINE p == ProfileOf[j]
  <2>1. p \in Profiles /\ tickClaim[g][p] \in TickClaims
    BY DEF CronTypeOK
  <2>2. PICK c : c = [tickClaim[g][p] EXCEPT !.left = @ + 1]
    OBVIOUS
  <2>3. c \in TickClaims /\ c.open = tickClaim[g][p].open /\ c.left = tickClaim[g][p].left + 1
    BY <2>1, <2>2 DEF TickClaims
  <2>4. tickClaim' = [tickClaim EXCEPT ![g][p] = c]
    BY <1>1, <2>1, <2>2 DEF CronTypeOK
  <2> HIDE DEF p
  <2>5. tickClaim' \in [Gateways -> [Profiles -> TickClaims]] /\ tickClaim'[g][p] = c
        /\ \A h \in Gateways, q \in Profiles : h # g \/ q # p => tickClaim'[h][q] = tickClaim[h][q]
    BY <2>1, <2>3, <2>4 DEF CronTypeOK
  <2> QED BY <2>3, <2>5 DEF p
<1>6. CronTypeOK'
  BY <1>1, <1>2, <1>4, <1>5 DEF CronTypeOK
<1>7. ScansHold'
  <2>1. ASSUME NEW h \in Gateways
        PROVE  /\ scan'[h].pc # "idle" => /\ scan'[h].profile \in Profiles /\ tick'[scan'[h].profile] = h
                                          /\ tickClaim'[h][scan'[h].profile].open
               /\ patch'[h] = Scanning <=> scan'[h].pc \in {"jobs", "submit"}
               /\ scan'[h].todo # {} => scan'[h].pc \in {"jobs", "submit"}
               /\ \A q \in scan'[h].todo : ProfileOf[q] = scan'[h].profile /\ (q \in due' \/ q \in OneShots)
               /\ scan'[h].pc = "submit" => /\ scan'[h].job \in inFlight'[h]
                                            /\ future'[h][scan'[h].job].pc = "none"
                                            /\ ProfileOf[scan'[h].job] = scan'[h].profile
    <3>1. CASE h = g
      BY <3>1, <1>1, <1>2, <1>3, <1>4, <1>5 DEF ScansHold
    <3>2. CASE h # g
      <4>1. inFlight[h] \subseteq Jobs
        BY DEF CronTypeOK
      <4> QED BY <4>1, <3>2, <1>1, <1>4, <1>5 DEF ScansHold
    <3> QED BY <3>1, <3>2
  <2> QED BY <2>1 DEF ScansHold
<1>8. FuturesHold'
  BY <1>1, <1>2, <1>3, <1>4 DEF FuturesHold, Finalising
<1>9. FuturesCounted'
  <2>1. ASSUME NEW h \in Gateways, NEW p \in Profiles, h # g \/ p # ProfileOf[j] PROVE Pending(h, p)' = Pending(h, p)
    BY <2>1, <1>4 DEF Pending
  <2>2. Pending(g, ProfileOf[j])' = Pending(g, ProfileOf[j]) \cup {j} /\ j \notin Pending(g, ProfileOf[j])
    BY <1>2, <1>3, <1>4 DEF Pending
  <2>3. Cardinality(Pending(g, ProfileOf[j]) \cup {j}) = Cardinality(Pending(g, ProfileOf[j])) + 1
    BY <2>2, PendingFinite, FS_AddElement
  <2>4. ASSUME NEW h \in Gateways, NEW p \in Profiles PROVE tickClaim'[h][p].left = Cardinality(Pending(h, p)')
    <3>1. CASE h = g /\ p = ProfileOf[j]
      BY <3>1, <2>2, <2>3, <1>5 DEF FuturesCounted
    <3>2. CASE h # g \/ p # ProfileOf[j]
      BY <3>2, <2>1, <1>5 DEF FuturesCounted
    <3> QED BY <3>1, <3>2
  <2> QED BY <2>4 DEF FuturesCounted
<1>10. StartsOwed'
  <2>1. ASSUME NEW q \in Jobs \ OneShots PROVE started'[q] + Owed(q)' <= times'[q]
    <3>0. started[q] \in Nat /\ times[q] \in Nat /\ started[q] + Owed(q) <= times[q]
      BY DEF StartsOwed, CronTypeOK
    <3>1. CASE q = j
      <4>1. Submitting(j)
        BY <1>0, <1>1 DEF Submitting
      <4>2. \A h \in Gateways : h # g /\ scan[h].pc = "submit" => scan[h].job # j
        BY <1>3 DEF ScansHold
      <4>3. ~Submitting(j)'
        BY <4>2, <1>2, <1>4 DEF Submitting
      <4>4. Owed(j)' = Owed(j) - 1
        BY <4>1, <4>3, <1>1 DEF Owed
      <4>5. started'[j] = started[j] + 1
        BY <1>1 DEF CronTypeOK
      <4> QED BY <3>0, <3>1, <4>4, <4>5, <1>1 DEF Owed
    <3>2. CASE q # j
      <4>1. Submitting(q)' <=> Submitting(q)
        BY <3>2, <1>0, <1>1, <1>2, <1>4 DEF Submitting
      <4>2. started'[q] = started[q]
        BY <3>2, <1>1 DEF CronTypeOK
      <4> QED BY <3>0, <4>1, <4>2, <1>1 DEF Owed
    <3> QED BY <3>1, <3>2
  <2> QED BY <2>1 DEF StartsOwed
<1>11. NoticesKept'
  <2>1. crashes' \in Nat /\ crashes' >= crashes
    BY <1>1 DEF CronTypeOK
  <2> QED BY <2>1, <1>1, <1>2, <1>3, <1>4, SameNotices DEF Noticing
<1>12. ClaimsAccounted'
  <2>1. \A h \in Gateways : scan'[h].todo = scan[h].todo
    BY <1>2, <1>4
  <2>2. \A q \in Jobs : runClaim[q] \in Gateways \cup {NoOne}
    BY DEF CronTypeOK
  <2> QED BY <1>1, <2>1, <2>2 DEF ClaimsAccounted
<1> QED BY <1>6, <1>7, <1>8, <1>9, <1>10, <1>11, <1>12

LEMMA SubmitFailsKeeps ==
    ASSUME CronInv, NEW g \in Gateways, SubmitFails(g)
    PROVE  CronInv'
<1> USE CronAssumption, Names DEF CronInv
<1>0. PICK j \in Jobs : j = scan[g].job
  <2>1. scan[g] \in Scans /\ inFlight[g] \subseteq Jobs /\ scan[g].job \in inFlight[g]
    BY DEF CronTypeOK, ScansHold, SubmitFails
  <2> QED BY <2>1
<1> DEFINE n == [scan[g] EXCEPT !.pc = "jobs", !.job = NoOne]
<1>1. /\ scan[g].pc = "submit" /\ crashes < MaxCrashes /\ crashes' = crashes + 1
      /\ scan' = [scan EXCEPT ![g] = n]
      /\ inFlight' = [inFlight EXCEPT ![g] = @ \ {j}]
      /\ due' = (IF j \in OneShots THEN due \ {j} ELSE due) /\ runClaim' = [runClaim EXCEPT ![j] = NoOne]
      /\ UNCHANGED <<expert, now, times, tick, patch, paths, tickClaim, future, notice, told, started>>
  BY <1>0 DEF SubmitFails, MarkRun, CronTypeOK
<1>2. n \in Scans /\ n.pc = "jobs" /\ n.profile = scan[g].profile /\ n.todo = scan[g].todo
  <2>1. scan[g] \in Scans
    BY DEF CronTypeOK
  <2> QED BY <2>1 DEF Scans
<1> HIDE DEF n
<1>3. future[g][j].pc = "none" /\ patch[g] = Scanning
  BY <1>0, <1>1 DEF ScansHold
<1>4. /\ inFlight'[g] = inFlight[g] \ {j} /\ inFlight' \in [Gateways -> SUBSET Jobs]
      /\ \A h \in Gateways : h # g => inFlight'[h] = inFlight[h]
  BY <1>1 DEF CronTypeOK
<1>5. crashes' \in 0 .. MaxCrashes /\ crashes' >= crashes /\ crashes' > 0
  BY <1>1 DEF CronTypeOK
<1>6. CronTypeOK'
  BY <1>1, <1>2, <1>4, <1>5 DEF CronTypeOK
<1>7. ScansHold'
  <2>1. \A h \in Gateways : patch'[h] = Scanning <=>
                               (IF h = g THEN n.pc \in {"jobs", "submit"} ELSE patch[h] = Scanning)
    BY <1>1, <1>2, <1>3
  <2>2. \A h \in Gateways : scan[h].pc = "submit" /\ h # g => /\ scan[h].job \in inFlight'[h]
                                                             /\ future'[h][scan[h].job].pc = "none"
    BY <1>1, <1>4 DEF ScansHold
  <2>3. \A q \in Jobs : q \in due => q \in due' \/ q \in OneShots
    BY <1>1
  <2>4. n.pc \notin {"jobs", "submit"} => n.todo = {}
    BY <1>2
  <2> QED BY <1>1, <1>2, <2>1, <2>2, <2>3, <2>4, ScanMoves
<1>8. FuturesHold'
  BY <1>1, <1>3, <1>4 DEF FuturesHold, CronTypeOK
<1>9. FuturesCounted'
  BY <1>1, SameCounts
<1>10. StartsOwed'
  <2>1. ASSUME NEW q \in Jobs \ OneShots PROVE started'[q] + Owed(q)' <= times'[q]
    <3>0. started[q] \in Nat /\ times[q] \in Nat /\ started[q] + Owed(q) <= times[q]
      BY DEF StartsOwed, CronTypeOK
    <3>1. Submitting(q)' => Submitting(q)
      BY <1>1, <1>2 DEF Submitting, CronTypeOK
    <3>2. q \in due' <=> q \in due
      BY <1>1
    <3> QED BY <3>0, <3>1, <3>2, <1>1 DEF Owed
  <2> QED BY <2>1 DEF StartsOwed
<1>11. NoticesKept'
  BY <1>1, <1>5, SameNotices
<1>12. ClaimsAccounted'
  BY <1>5 DEF ClaimsAccounted
<1> QED BY <1>6, <1>7, <1>8, <1>9, <1>10, <1>11, <1>12

LEMMA LeaveContextKeeps ==
    ASSUME CronInv, NEW g \in Gateways, LeaveContext(g)
    PROVE  CronInv'
<1> USE CronAssumption, Names DEF CronInv
<1> DEFINE n == [scan[g] EXCEPT !.pc = "attach"]
<1>1. /\ scan[g].pc = "jobs" /\ scan[g].todo = {} /\ scan' = [scan EXCEPT ![g] = n]
      /\ patch' = [patch EXCEPT ![g] = NoOne] /\ paths' = [paths EXCEPT ![g] = NoOne]
      /\ UNCHANGED <<expert, now, due, times, runClaim, tick, tickClaim, inFlight, future, notice, told, started, crashes>>
  BY DEF LeaveContext, CronTypeOK
<1>2. n \in Scans /\ n.pc = "attach" /\ n.profile = scan[g].profile /\ n.todo = {}
  <2>1. scan[g] \in Scans
    BY DEF CronTypeOK
  <2> QED BY <1>1, <2>1 DEF Scans
<1> HIDE DEF n
<1>3. /\ patch[g] = Scanning /\ patch'[g] = NoOne
      /\ \A h \in Gateways : h # g => patch'[h] = patch[h] /\ paths'[h] = paths[h] /\ scan'[h] = scan[h]
      /\ scan'[g] = n
  BY <1>1 DEF ScansHold, CronTypeOK
<1>4. CronTypeOK'
  BY <1>1, <1>2 DEF CronTypeOK
<1>5. ScansHold'
  <2>1. \A h \in Gateways : patch'[h] = Scanning <=>
                               (IF h = g THEN n.pc \in {"jobs", "submit"} ELSE patch[h] = Scanning)
    BY <1>2, <1>3
  <2>2. \A h \in Gateways : scan[h].pc = "submit" /\ h # g => /\ scan[h].job \in inFlight'[h]
                                                             /\ future'[h][scan[h].job].pc = "none"
    BY <1>1 DEF ScansHold
  <2> QED BY <1>1, <1>2, <2>1, <2>2, ScanMoves
<1>6. FuturesHold'
  BY <1>1, <1>3 DEF FuturesHold
<1>7. FuturesCounted'
  BY <1>1, SameCounts
<1>8. StartsOwed'
  <2>1. ASSUME NEW q \in Jobs PROVE Submitting(q)' <=> Submitting(q)
    BY <1>1, <1>2, <1>3 DEF Submitting
  <2> QED BY <1>1, <2>1 DEF StartsOwed, Owed
<1>9. NoticesKept'
  BY <1>1, SameNotices DEF CronTypeOK
<1>10. ClaimsAccounted'
  <2>1. \A h \in Gateways : scan'[h].todo = scan[h].todo
    BY <1>1, <1>2, <1>3
  <2>2. \A q \in Jobs : runClaim[q] \in Gateways \cup {NoOne}
    BY DEF CronTypeOK
  <2> QED BY <1>1, <2>1, <2>2 DEF ClaimsAccounted
<1> QED BY <1>4, <1>5, <1>6, <1>7, <1>8, <1>9, <1>10

LEMMA AttachKeeps ==
    ASSUME CronInv, NEW g \in Gateways, NEW j \in Jobs, Attach(g, j)
    PROVE  CronInv'
<1> USE CronAssumption, Names DEF CronInv
<1>1. PICK n, f : /\ scan' = [scan EXCEPT ![g] = n] /\ n = [scan[g] EXCEPT !.specs = @ \ {j}]
                  /\ future' = [future EXCEPT ![g][j] = f]
                  /\ f = IF future[g][j].pc = "finished" THEN [future[g][j] EXCEPT !.pc = "complete", !.inScan = TRUE]
                         ELSE [future[g][j] EXCEPT !.called = TRUE]
  BY DEF Attach, CronTypeOK
<1>2. /\ scan[g].pc = "attach"
      /\ UNCHANGED <<expert, now, due, times, runClaim, tick, patch, paths, tickClaim, inFlight, notice, told, started, crashes>>
  BY DEF Attach
<1>3. /\ n \in Scans /\ n.pc = "attach" /\ n.profile = scan[g].profile /\ n.todo = scan[g].todo /\ n.job = scan[g].job
      /\ f \in Futures /\ (f.pc = "none" <=> future[g][j].pc = "none") /\ f.notice = future[g][j].notice
      /\ f.result = future[g][j].result
      /\ f.pc = future[g][j].pc \/ (f.pc = "complete" /\ future[g][j].pc = "finished")
  <2>1. scan[g] \in Scans /\ future[g][j] \in Futures
    BY DEF CronTypeOK
  <2>2. n \in Scans /\ n.pc = "attach" /\ n.profile = scan[g].profile /\ n.todo = scan[g].todo /\ n.job = scan[g].job
    BY <1>1, <1>2, <2>1 DEF Scans
  <2> QED BY <1>1, <2>1, <2>2 DEF Futures, FuturePlaces
<1>4. /\ scan'[g] = n /\ \A h \in Gateways : h # g => scan'[h] = scan[h]
      /\ future'[g][j] = f /\ \A h \in Gateways, q \in Jobs : h # g \/ q # j => future'[h][q] = future[h][q]
      /\ future' \in [Gateways -> [Jobs -> Futures]]
  BY <1>1, <1>3 DEF CronTypeOK
<1>5. CronTypeOK'
  BY <1>1, <1>2, <1>3, <1>4 DEF CronTypeOK
<1>6. ScansHold'
  <2>1. \A h \in Gateways : patch'[h] = Scanning <=>
                               (IF h = g THEN n.pc \in {"jobs", "submit"} ELSE patch[h] = Scanning)
    BY <1>2, <1>3 DEF ScansHold
  <2>2. ASSUME NEW h \in Gateways, scan[h].pc = "submit", h # g
        PROVE  scan[h].job \in inFlight'[h] /\ future'[h][scan[h].job].pc = "none"
    <3>1. inFlight[h] \subseteq Jobs
      BY DEF CronTypeOK
    <3> QED BY <2>2, <3>1, <1>2, <1>4 DEF ScansHold
  <2>3. scan[g].todo = {}
    BY <1>2 DEF ScansHold
  <2> QED BY <1>1, <1>2, <1>3, <2>1, <2>2, <2>3, ScanMoves
<1>7. FuturesHold'
  BY <1>2, <1>3, <1>4 DEF FuturesHold, Finalising
<1>8. FuturesCounted'
  BY <1>2, <1>3, <1>4, SameCounts
<1>9. StartsOwed'
  <2>1. ASSUME NEW q \in Jobs PROVE Submitting(q)' <=> Submitting(q)
    BY <1>2, <1>3, <1>4 DEF Submitting
  <2> QED BY <1>2, <2>1 DEF StartsOwed, Owed
<1>10. NoticesKept'
  <2>1. crashes' \in Nat /\ crashes' >= crashes
    BY <1>2 DEF CronTypeOK
  <2>2. f.pc \in Noticing \/ future[g][j].pc \in Noticing => f.pc = future[g][j].pc /\ f.result = future[g][j].result
    BY <1>3, <1>5 DEF Noticing
  <2> QED BY <2>1, <2>2, <1>2, <1>3, <1>4, SameNotices
<1>11. ClaimsAccounted'
  <2>1. \A h \in Gateways : scan'[h].todo = scan[h].todo
    BY <1>3, <1>4
  <2>2. \A q \in Jobs : runClaim[q] \in Gateways \cup {NoOne}
    BY DEF CronTypeOK
  <2> QED BY <1>2, <2>1, <2>2 DEF ClaimsAccounted
<1> QED BY <1>5, <1>6, <1>7, <1>8, <1>9, <1>10, <1>11

LEMMA CloseKeeps ==
    ASSUME CronInv, NEW g \in Gateways, CloseSubmissions(g)
    PROVE  CronInv'
<1> USE CronAssumption, Names DEF CronInv
<1>0. PICK p \in Profiles : p = scan[g].profile
  BY DEF CloseSubmissions, ScansHold
<1>1. PICK c : /\ c = [tickClaim[g][p] EXCEPT !.open = FALSE]
               /\ tickClaim' = [tickClaim EXCEPT ![g][p] = c] /\ tick' = ReleaseIfReady(p, c)
  BY <1>0 DEF CloseSubmissions
<1>2. /\ scan[g].pc = "attach" /\ scan' = [scan EXCEPT ![g] = IdleScan]
      /\ UNCHANGED <<expert, now, due, times, runClaim, patch, paths, inFlight, future, notice, told, started, crashes>>
  BY DEF CloseSubmissions
<1>3. c \in TickClaims /\ c.open = FALSE /\ c.left = tickClaim[g][p].left
  <2>1. tickClaim[g][p] \in TickClaims
    BY DEF CronTypeOK
  <2> QED BY <1>1, <2>1 DEF TickClaims
<1>4. /\ tickClaim' \in [Gateways -> [Profiles -> TickClaims]] /\ tickClaim'[g][p] = c
      /\ \A h \in Gateways, q \in Profiles : h # g \/ q # p => tickClaim'[h][q] = tickClaim[h][q]
  BY <1>1, <1>3 DEF CronTypeOK
<1>5. tick[p] = g /\ patch[g] # Scanning
  BY <1>0, <1>2 DEF ScansHold
<1>6. /\ tick' \in [Profiles -> Gateways \cup {NoOne}] /\ \A q \in Profiles : q # p => tick'[q] = tick[q]
      /\ tick'[p] = g \/ c.left = 0
  BY <1>1, <1>3, <1>5 DEF ReleaseIfReady, CronTypeOK, TickClaims
<1>7. /\ scan'[g] = IdleScan /\ \A h \in Gateways : h # g => scan'[h] = scan[h]
      /\ IdleScan \in Scans /\ IdleScan.pc = "idle" /\ IdleScan.todo = {}
  BY <1>2 DEF CronTypeOK, IdleScan, Scans
<1>8. CronTypeOK'
  BY <1>2, <1>4, <1>6, <1>7 DEF CronTypeOK
<1>9. ScansHold'
  <2>1. ASSUME NEW h \in Gateways
        PROVE  /\ scan'[h].pc # "idle" => /\ scan'[h].profile \in Profiles /\ tick'[scan'[h].profile] = h
                                          /\ tickClaim'[h][scan'[h].profile].open
               /\ patch'[h] = Scanning <=> scan'[h].pc \in {"jobs", "submit"}
               /\ scan'[h].todo # {} => scan'[h].pc \in {"jobs", "submit"}
               /\ \A q \in scan'[h].todo : ProfileOf[q] = scan'[h].profile /\ (q \in due' \/ q \in OneShots)
               /\ scan'[h].pc = "submit" => /\ scan'[h].job \in inFlight'[h]
                                            /\ future'[h][scan'[h].job].pc = "none"
                                            /\ ProfileOf[scan'[h].job] = scan'[h].profile
    <3>1. CASE h = g
      BY <3>1, <1>2, <1>5, <1>7
    <3>2. CASE h # g
      BY <3>2, <1>2, <1>4, <1>5, <1>6, <1>7 DEF ScansHold
    <3> QED BY <3>1, <3>2
  <2> QED BY <2>1 DEF ScansHold
<1>10. ASSUME c.left = 0, NEW j \in Jobs, NEW h \in Gateways, future[h][j].pc # "none" PROVE ProfileOf[j] # p
  <2>1. Cardinality(Pending(g, p)) = 0
    BY <1>10, <1>3 DEF FuturesCounted
  <2>2. Pending(g, p) = {}
    BY <2>1, PendingFinite, FS_EmptySet
  <2> QED BY <2>2, <1>5, <1>10 DEF Pending, FuturesHold
<1>11. FuturesHold'
  BY <1>2, <1>5, <1>6, <1>10 DEF FuturesHold
<1>12. FuturesCounted'
  <2>1. \A h, q : Pending(h, q)' = Pending(h, q)
    BY <1>2 DEF Pending
  <2>2. \A h \in Gateways, q \in Profiles : tickClaim'[h][q].left = tickClaim[h][q].left
    BY <1>3, <1>4
  <2> QED BY <2>1, <2>2 DEF FuturesCounted
<1>13. StartsOwed'
  <2>1. ASSUME NEW q \in Jobs PROVE Submitting(q)' <=> Submitting(q)
    BY <1>2, <1>7 DEF Submitting
  <2> QED BY <1>2, <2>1 DEF StartsOwed, Owed
<1>14. NoticesKept'
  BY <1>2, SameNotices DEF CronTypeOK
<1>15. ClaimsAccounted'
  <2>1. scan[g].todo = {}
    BY <1>2 DEF ScansHold
  <2>2. \A h \in Gateways : scan'[h].todo = scan[h].todo
    BY <1>7, <2>1
  <2>3. \A q \in Jobs : runClaim[q] \in Gateways \cup {NoOne}
    BY DEF CronTypeOK
  <2> QED BY <1>2, <2>2, <2>3 DEF ClaimsAccounted
<1> QED BY <1>8, <1>9, <1>11, <1>12, <1>13, <1>14, <1>15

\* What a step of a run leaves alone.
LEMMA ScansStay ==
    ASSUME CronInv, UNCHANGED <<scan, tick, tickClaim, inFlight, times, started>>,
           \A h \in Gateways, q \in Jobs : future'[h][q].pc = "none" <=> future[h][q].pc = "none",
           \A q \in Jobs : q \notin OneShots => (q \in due' <=> q \in due),
           \A h \in Gateways : patch'[h] = Scanning <=> patch[h] = Scanning
    PROVE  ScansHold' /\ FuturesCounted' /\ StartsOwed'
<1> USE CronAssumption, Names DEF CronInv
<1>1. ScansHold'
  <2>1. ASSUME NEW h \in Gateways
        PROVE  /\ scan'[h].pc # "idle" => /\ scan'[h].profile \in Profiles /\ tick'[scan'[h].profile] = h
                                          /\ tickClaim'[h][scan'[h].profile].open
               /\ patch'[h] = Scanning <=> scan'[h].pc \in {"jobs", "submit"}
               /\ scan'[h].todo # {} => scan'[h].pc \in {"jobs", "submit"}
               /\ \A q \in scan'[h].todo : ProfileOf[q] = scan'[h].profile /\ (q \in due' \/ q \in OneShots)
               /\ scan'[h].pc = "submit" => /\ scan'[h].job \in inFlight'[h]
                                            /\ future'[h][scan'[h].job].pc = "none"
                                            /\ ProfileOf[scan'[h].job] = scan'[h].profile
    <3>1. scan[h] \in Scans /\ scan[h].todo \subseteq Jobs /\ inFlight[h] \subseteq Jobs
      BY DEF CronTypeOK, Scans
    <3> QED BY <3>1 DEF ScansHold
  <2> QED BY <2>1 DEF ScansHold
<1>2. FuturesCounted'
  BY SameCounts
<1>3. StartsOwed'
  <2>1. ASSUME NEW q \in Jobs PROVE Submitting(q)' <=> Submitting(q)
    BY DEF Submitting
  <2> QED BY <2>1 DEF StartsOwed, Owed
<1> QED BY <1>1, <1>2, <1>3

\* A gateway finalises one job at a time, and one gateway a profile's.
LEMMA OneFinaliser ==
    ASSUME CronInv, NEW g \in Gateways, NEW j \in Jobs, NEW h \in Gateways, NEW q \in Jobs,
           future[g][j].pc \in Finalising, future[h][q].pc \in Finalising, ProfileOf[q] = ProfileOf[j]
    PROVE  h = g /\ q = j
<1>1. tick[ProfileOf[j]] = g /\ tick[ProfileOf[q]] = h
  BY DEF CronInv, FuturesHold, Finalising
<1> QED BY <1>1 DEF CronInv, FuturesHold

\* A finaliser's step disturbs the notices of its own profile only.
LEMMA OthersNotices ==
    ASSUME NoticesKept, CronTypeOK, NEW g \in Gateways, NEW j \in Jobs, NEW p \in Profiles, p = ProfileOf[j],
           \A h \in Gateways, q \in Jobs : h # g \/ q # j => future'[h][q] = future[h][q],
           \A h \in Gateways, q \in Jobs : ProfileOf[q] = p /\ future[h][q].pc \in Noticing => h = g /\ q = j,
           \A q \in Profiles : q # p => told'[q] = told[q] /\ notice'[q] = notice[q],
           UNCHANGED now, crashes' \in Nat, crashes' >= crashes, OwnerNotice(p)', FutureNotice(g, j)'
    PROVE  NoticesKept'
<1> USE CronAssumption
<1>1. \A q \in Profiles : told[q].early \in Nat /\ crashes \in Nat
  BY DEF CronTypeOK, Hearings
<1>2. ASSUME NEW h \in Gateways, NEW q \in Jobs, h # g \/ q # j PROVE FutureNotice(h, q)'
  <2>1. FutureNotice(h, q) /\ future'[h][q] = future[h][q] /\ ProfileOf[q] \in Profiles
    BY <1>2 DEF NoticesKept
  <2>2. CASE ProfileOf[q] = p
    BY <2>1, <2>2, <1>2 DEF FutureNotice
  <2>3. CASE ProfileOf[q] # p
    <3>1. told'[ProfileOf[q]] = told[ProfileOf[q]] /\ told[ProfileOf[q]].early \in Nat /\ crashes \in Nat
      BY <2>1, <2>3, <1>1
    <3> QED BY <3>1, <2>1 DEF FutureNotice, Early
  <2> QED BY <2>2, <2>3
<1>3. ASSUME NEW q \in Profiles, q # p PROVE OwnerNotice(q)'
  <2>1. Telling(q)' <=> Telling(q)
    BY <1>3 DEF Telling
  <2>2. told'[q] = told[q] /\ notice'[q] = notice[q] /\ told[q].early \in Nat /\ crashes \in Nat /\ OwnerNotice(q)
    BY <1>1, <1>3 DEF NoticesKept
  <2>3. Unrecorded(q)' <=> Unrecorded(q)
    BY <2>2 DEF Unrecorded
  <2> QED BY <2>1, <2>2, <2>3 DEF OwnerNotice
<1> QED BY <1>2, <1>3 DEF NoticesKept

LEMMA RunMovesKeep ==
    ASSUME CronInv, NEW g \in Gateways, NEW j \in Jobs,
           StartRun(g, j) \/ \E r \in Results : EndRun(g, j, r)
    PROVE  CronInv'
<1> USE CronAssumption, Names DEF CronInv
<1>1. PICK n \in Futures : /\ future' = [future EXCEPT ![g][j] = n]
                           /\ n.pc \in {"running", "complete", "finished"} /\ future[g][j].pc \in {"queued", "running"}
  <2>1. future[g][j] \in Futures
    BY DEF CronTypeOK
  <2>2. CASE StartRun(g, j)
    <3>1. [future[g][j] EXCEPT !.pc = "running"] \in Futures
      BY <2>1 DEF Futures, FuturePlaces
    <3>2. future' = [future EXCEPT ![g][j] = [future[g][j] EXCEPT !.pc = "running"]]
      BY <2>2 DEF StartRun, CronTypeOK
    <3> QED BY <2>1, <2>2, <3>1, <3>2 DEF StartRun, Futures
  <2>3. ASSUME NEW r \in Results, EndRun(g, j, r)
        PROVE  \E n \in Futures : /\ future' = [future EXCEPT ![g][j] = n]
                                  /\ n.pc \in {"running", "complete", "finished"} /\ future[g][j].pc \in {"queued", "running"}
    <3>1. PICK n : n = [future[g][j] EXCEPT !.result = r, !.pc = IF future[g][j].called THEN "complete" ELSE "finished"]
      OBVIOUS
    <3>2. n \in Futures /\ n.pc \in {"complete", "finished"}
      BY <2>1, <3>1 DEF Futures, FuturePlaces
    <3>3. future' = [future EXCEPT ![g][j] = n]
      BY <2>3, <3>1 DEF EndRun, CronTypeOK
    <3> QED BY <2>3, <3>2, <3>3 DEF EndRun
  <2> QED BY <2>2, <2>3
<1>2. UNCHANGED <<expert, now, due, times, runClaim, tick, patch, paths, scan, tickClaim, inFlight, notice, told, started, crashes>>
  BY DEF StartRun, EndRun
<1>3. /\ future'[g][j] = n /\ \A h \in Gateways, q \in Jobs : h # g \/ q # j => future'[h][q] = future[h][q]
      /\ future' \in [Gateways -> [Jobs -> Futures]]
  BY <1>1 DEF CronTypeOK
<1>4. CronTypeOK'
  BY <1>2, <1>3 DEF CronTypeOK
<1>5. ScansHold' /\ FuturesCounted' /\ StartsOwed'
  BY <1>1, <1>2, <1>3, ScansStay
<1>6. FuturesHold'
  BY <1>1, <1>2, <1>3 DEF FuturesHold, Finalising
<1>7. NoticesKept'
  <2>1. crashes' \in Nat /\ crashes' >= crashes
    BY <1>2 DEF CronTypeOK
  <2> QED BY <2>1, <1>1, <1>2, <1>3, SameNotices DEF Noticing
<1>8. ClaimsAccounted'
  BY <1>2 DEF ClaimsAccounted
<1> QED BY <1>4, <1>5, <1>6, <1>7, <1>8

LEMMA FinalizeKeeps ==
    ASSUME CronInv, NEW g \in Gateways, NEW j \in Jobs, Finalize(g, j)
    PROVE  CronInv'
<1> USE CronAssumption, Names DEF CronInv
<1> DEFINE p == ProfileOf[j]
<1>0. future[g][j] \in Futures /\ p \in Profiles
  BY DEF CronTypeOK
<1>1. PICK tell \in BOOLEAN :
          /\ future' = [future EXCEPT ![g][j] = [future[g][j] EXCEPT !.pc = "deliver", !.notice = tell]]
          /\ \/ tell = (future[g][j].result \in Markers /\ NoticeDue(p, future[g][j].result)) /\ UNCHANGED crashes
             \/ tell /\ future[g][j].result \in Markers /\ crashes < MaxCrashes /\ crashes' = crashes + 1
  BY DEF Finalize
<1>2. /\ future[g][j].pc = "complete" /\ patch[g] = NoOne
      /\ patch' = [patch EXCEPT ![g] = j] /\ paths' = [paths EXCEPT ![g] = p]
      /\ UNCHANGED <<expert, now, due, times, runClaim, tick, scan, tickClaim, inFlight, notice, told, started>>
  BY DEF Finalize
<1>a. PICK n : n = [future[g][j] EXCEPT !.pc = "deliver", !.notice = tell]
  OBVIOUS
<1>3. n \in Futures /\ n.pc = "deliver" /\ n.notice = tell /\ n.result = future[g][j].result
  BY <1>0, <1>a DEF Futures, FuturePlaces
<1>4. /\ future' = [future EXCEPT ![g][j] = n]
      /\ future'[g][j] = n /\ \A h \in Gateways, q \in Jobs : h # g \/ q # j => future'[h][q] = future[h][q]
      /\ future' \in [Gateways -> [Jobs -> Futures]]
      /\ patch'[g] = j /\ paths'[g] = p
      /\ \A h \in Gateways : h # g => patch'[h] = patch[h] /\ paths'[h] = paths[h]
  BY <1>1, <1>2, <1>3, <1>a DEF CronTypeOK
<1>5. crashes \in Nat /\ crashes' \in 0 .. MaxCrashes /\ crashes' \in Nat /\ crashes' >= crashes
  BY <1>1 DEF CronTypeOK
<1>6. CronTypeOK'
  BY <1>2, <1>4, <1>5 DEF CronTypeOK
<1>7. ScansHold' /\ FuturesCounted' /\ StartsOwed'
  BY <1>2, <1>3, <1>4, ScansStay
<1>8. \A h \in Gateways, q \in Jobs : ProfileOf[q] = p => future[h][q].pc \notin Finalising
  BY <1>2 DEF FuturesHold, Finalising
<1>9. FuturesHold'
  <2>1. \A q \in Jobs : future[g][q].pc \notin Finalising
    BY <1>2 DEF FuturesHold
  <2> QED BY <2>1, <1>2, <1>3, <1>4 DEF FuturesHold, Finalising
<1>10. NoticesKept'
  <2>1. OwnerNotice(p) /\ ~Telling(p) /\ told[p].early \in Nat /\ told[p].at \in Nat /\ notice[p].at \in Nat /\ now \in Nat
    BY <1>0, <1>8 DEF NoticesKept, Telling, Finalising, CronTypeOK, Hearings, Notices
  <2>2. tell => n.result \in Markers
    BY <1>1, <1>3
  <2>3. tell /\ Early(p, n.result) => told[p].early + 1 <= crashes'
    <3>1. CASE tell /\ Early(p, n.result) /\ crashes' = crashes
      <4>a. crashes' # crashes + 1
        BY <3>1, <1>5
      <4>0. tell = (future[g][j].result \in Markers /\ NoticeDue(p, future[g][j].result))
        BY <4>a, <1>1, Zenon
      <4>1. NoticeDue(p, n.result) /\ n.result \in Markers
        BY <4>0, <3>1, <1>3, Zenon
      <4>2. Unrecorded(p)
        BY <3>1, <4>1, <2>1 DEF NoticeDue, Early, Unrecorded
      <4> QED BY <4>2, <3>1, <2>1 DEF OwnerNotice
    <3>2. CASE crashes' = crashes + 1
      BY <3>2, <2>1, <1>5 DEF OwnerNotice
    <3> QED BY <3>1, <3>2, <1>1
  <2>4. FutureNotice(g, j)'
    BY <2>2, <2>3, <1>2, <1>3, <1>4 DEF FutureNotice, Early
  <2>5. ASSUME NEW h \in Gateways, NEW q \in Jobs, h # g \/ q # j PROVE FutureNotice(h, q)'
    <3>1. told[ProfileOf[q]].early \in Nat
      BY DEF CronTypeOK, Hearings
    <3>2. future'[h][q] = future[h][q] /\ told' = told /\ now' = now
      BY <2>5, <1>2, <1>4
    <3>3. FutureNotice(h, q)
      BY DEF NoticesKept
    <3> QED BY <3>1, <3>2, <3>3, <1>5 DEF FutureNotice, Early
  <2>6. ASSUME NEW r \in Profiles PROVE OwnerNotice(r)'
    <3>1. Telling(r)' <=> Telling(r)
      BY <1>2, <1>3, <1>4 DEF Telling
    <3>2. Unrecorded(r)' <=> Unrecorded(r)
      BY <1>2 DEF Unrecorded
    <3>3. told[r].early \in Nat /\ OwnerNotice(r)
      BY DEF NoticesKept, CronTypeOK, Hearings
    <3> QED BY <3>1, <3>2, <3>3, <1>2, <1>5 DEF OwnerNotice
  <2> QED BY <2>4, <2>5, <2>6 DEF NoticesKept
<1>11. ClaimsAccounted'
  BY <1>2, <1>5 DEF ClaimsAccounted
<1> QED BY <1>6, <1>7, <1>9, <1>10, <1>11

LEMMA DeliverKeeps ==
    ASSUME CronInv, NEW g \in Gateways, NEW j \in Jobs, Deliver(g, j)
    PROVE  CronInv'
<1> USE CronAssumption, Names DEF CronInv
<1> DEFINE p == ProfileOf[j]
<1> DEFINE r == future[g][j].result
<1>0. future[g][j].pc = "deliver" /\ future[g][j] \in Futures /\ p \in Profiles
  BY DEF Deliver, CronTypeOK
<1>1. PICK n \in Futures :
          /\ n.pc = "record" /\ n.result = r /\ future' = [future EXCEPT ![g][j] = n]
          /\ \/ /\ n.notice = future[g][j].notice /\ crashes' = crashes
                /\ told' = IF n.notice THEN [told EXCEPT ![p] = Hear(p, r)] ELSE told
             \/ ~n.notice /\ crashes < MaxCrashes /\ crashes' = crashes + 1 /\ told' = told
  <2>1. PICK n : n = [future[g][j] EXCEPT !.pc = "record"]
    OBVIOUS
  <2>2. PICK m : m = [future[g][j] EXCEPT !.pc = "record", !.notice = FALSE]
    OBVIOUS
  <2>3. /\ n \in Futures /\ n.pc = "record" /\ n.notice = future[g][j].notice /\ n.result = r
        /\ m \in Futures /\ m.pc = "record" /\ ~m.notice /\ m.result = r
    BY <1>0, <2>1, <2>2 DEF Futures, FuturePlaces
  <2>4. \/ /\ future' = [future EXCEPT ![g][j] = n] /\ crashes' = crashes
           /\ told' = IF future[g][j].notice THEN [told EXCEPT ![p] = Hear(p, r)] ELSE told
        \/ future' = [future EXCEPT ![g][j] = m] /\ crashes < MaxCrashes /\ crashes' = crashes + 1 /\ told' = told
    BY <2>1, <2>2 DEF Deliver, CronTypeOK
  <2> QED BY <2>3, <2>4
<1>2. UNCHANGED <<expert, now, due, times, runClaim, tick, patch, paths, scan, tickClaim, inFlight, notice, started>>
  BY DEF Deliver
<1>3. /\ future'[g][j] = n /\ \A h \in Gateways, q \in Jobs : h # g \/ q # j => future'[h][q] = future[h][q]
      /\ future' \in [Gateways -> [Jobs -> Futures]]
  BY <1>1 DEF CronTypeOK
<1>4. /\ crashes \in Nat /\ crashes' \in Nat /\ crashes' >= crashes /\ crashes' \in 0 .. MaxCrashes
      /\ told \in [Profiles -> Hearings] /\ now \in Nat
  BY <1>1 DEF CronTypeOK
<1>5. n.notice => n.notice = future[g][j].notice /\ r \in Markers /\ Hear(p, r) \in Hearings
                  /\ crashes' = crashes /\ told' = [told EXCEPT ![p] = Hear(p, r)]
  <2>1. n.notice => future[g][j].notice /\ crashes' = crashes /\ told' = [told EXCEPT ![p] = Hear(p, r)]
    BY <1>1
  <2>2. FutureNotice(g, j)
    BY DEF NoticesKept
  <2>3. future[g][j].notice => r \in Markers
    BY <2>2, <1>0 DEF FutureNotice, Noticing
  <2>4. told[p].keys \subseteq Markers /\ told[p].early \in Nat
    BY <1>0, <1>4 DEF Hearings
  <2>5. r \in Markers => Hear(p, r) \in Hearings
    BY <2>4, <1>4 DEF Hear, Hearings
  <2> QED BY <2>1, <2>3, <2>5
<1>6. told' \in [Profiles -> Hearings] /\ \A q \in Profiles : q # p => told'[q] = told[q]
  BY <1>0, <1>1, <1>4, <1>5
<1>7. CronTypeOK'
  BY <1>2, <1>3, <1>4, <1>6 DEF CronTypeOK
<1>8. ScansHold' /\ FuturesCounted' /\ StartsOwed'
  BY <1>0, <1>1, <1>2, <1>3, ScansStay
<1>9. FuturesHold'
  BY <1>0, <1>1, <1>2, <1>3 DEF FuturesHold, Finalising
<1>10. \A h \in Gateways, q \in Jobs : ProfileOf[q] = p /\ future[h][q].pc \in Finalising => h = g /\ q = j
  BY <1>0, OneFinaliser DEF Finalising
<1>11. NoticesKept'
  <2>1. FutureNotice(g, j) /\ OwnerNotice(p) /\ told[p].early \in Nat
    BY <1>0, <1>4 DEF NoticesKept, Hearings
  <2>2. ~Telling(p) /\ (Telling(p)' <=> n.notice)
    BY <1>0, <1>1, <1>3, <1>10 DEF Telling, Finalising
  <2>3. CASE n.notice
    <3>1. /\ told'[p] = Hear(p, r) /\ crashes' = crashes /\ r \in Markers /\ future[g][j].notice
      BY <2>3, <1>0, <1>4, <1>5
    <3>2. told'[p].last = r /\ told'[p].at = now /\ told'[p].keys = told[p].keys \cup {r}
          /\ told'[p].early \in Nat /\ told'[p].early <= crashes'
      <4>1. CASE Early(p, r)
        <5>1. told[p].early + 1 <= crashes
          BY <4>1, <3>1, <2>1, <1>0 DEF FutureNotice, Noticing
        <5> QED BY <5>1, <4>1, <3>1, <2>1, <1>4 DEF Hear
      <4>2. CASE ~Early(p, r)
        BY <4>2, <3>1, <2>1, <1>4 DEF Hear, OwnerNotice
      <4> QED BY <4>1, <4>2
    <3>3. OwnerNotice(p)'
      BY <3>1, <3>2, <2>1, <2>2, <2>3, <1>2, <1>4 DEF OwnerNotice
    <3>4. FutureNotice(g, j)'
      BY <3>1, <3>2, <1>1, <1>3 DEF FutureNotice
    <3> QED BY <3>3, <3>4, <1>0, <1>2, <1>3, <1>4, <1>6, <1>10, OthersNotices DEF Finalising, Noticing
  <2>4. CASE ~n.notice
    <3>1. told' = told
      BY <2>4, <1>1
    <3>2. Unrecorded(p)' <=> Unrecorded(p)
      BY <3>1, <1>2 DEF Unrecorded
    <3>3. OwnerNotice(p)'
      BY <3>1, <3>2, <2>1, <2>2, <1>2, <1>4 DEF OwnerNotice
    <3>4. FutureNotice(g, j)'
      BY <2>4, <1>3 DEF FutureNotice
    <3> QED BY <3>3, <3>4, <1>0, <1>2, <1>3, <1>4, <1>6, <1>10, OthersNotices DEF Finalising, Noticing
  <2> QED BY <2>3, <2>4
<1>12. ClaimsAccounted'
  <2>1. crashes' = 0 => crashes = 0
    BY <1>4
  <2> QED BY <1>2, <1>4, <2>1 DEF ClaimsAccounted
<1> QED BY <1>7, <1>8, <1>9, <1>11, <1>12

LEMMA RecordKeeps ==
    ASSUME CronInv, NEW g \in Gateways, NEW j \in Jobs, Record(g, j)
    PROVE  CronInv'
<1> USE CronAssumption, Names DEF CronInv
<1> DEFINE p == ProfileOf[j]
<1>0. future[g][j].pc = "record" /\ future[g][j] \in Futures /\ p \in Profiles
  BY DEF Record, CronTypeOK
<1>1. PICK n \in Futures : n.pc = "unlock" /\ future' = [future EXCEPT ![g][j] = n]
  <2>1. PICK n : n = [future[g][j] EXCEPT !.pc = "unlock"]
    OBVIOUS
  <2>2. n \in Futures /\ n.pc = "unlock"
    BY <1>0, <2>1 DEF Futures, FuturePlaces
  <2>3. future' = [future EXCEPT ![g][j] = n]
    BY <2>1 DEF Record, CronTypeOK
  <2> QED BY <2>2, <2>3
<1>2. /\ \/ notice' = (IF future[g][j].notice THEN [notice EXCEPT ![p] = [key |-> future[g][j].result, at |-> now]]
                          ELSE notice) /\ crashes' = crashes
         \/ future[g][j].notice /\ crashes < MaxCrashes /\ crashes' = crashes + 1 /\ notice' = notice
      /\ due' = (IF j \in OneShots THEN due \ {j} ELSE due) /\ runClaim' = [runClaim EXCEPT ![j] = NoOne]
      /\ UNCHANGED <<expert, now, times, tick, patch, paths, scan, tickClaim, inFlight, told, started>>
  BY DEF Record, MarkRun
<1>3. /\ future'[g][j] = n /\ \A h \in Gateways, q \in Jobs : h # g \/ q # j => future'[h][q] = future[h][q]
      /\ future' \in [Gateways -> [Jobs -> Futures]]
      /\ runClaim'[j] = NoOne /\ \A q \in Jobs : q # j => runClaim'[q] = runClaim[q]
      /\ runClaim' \in [Jobs -> Gateways \cup {NoOne}]
  BY <1>1, <1>2 DEF CronTypeOK
<1>4. /\ FutureNotice(g, j) /\ OwnerNotice(p) /\ now \in Nat
      /\ told[p].early \in Nat /\ told[p].at \in Nat
      /\ crashes \in Nat /\ crashes' \in Nat /\ crashes' >= crashes /\ crashes' \in 0 .. MaxCrashes
  BY <1>0, <1>2 DEF NoticesKept, CronTypeOK, Hearings
<1>5. future[g][j].notice => /\ future[g][j].result \in Markers /\ told[p].last = future[g][j].result
                             /\ [key |-> future[g][j].result, at |-> now] \in Notices
  BY <1>0, <1>4 DEF FutureNotice, Noticing, Notices
<1>6. notice' \in [Profiles -> Notices] /\ \A q \in Profiles : q # p => notice'[q] = notice[q]
  BY <1>0, <1>2, <1>5 DEF CronTypeOK
<1>7. CronTypeOK'
  BY <1>2, <1>3, <1>4, <1>6 DEF CronTypeOK
<1>8. ScansHold' /\ FuturesCounted' /\ StartsOwed'
  BY <1>0, <1>1, <1>2, <1>3, ScansStay
<1>9. FuturesHold'
  BY <1>0, <1>1, <1>2, <1>3 DEF FuturesHold, Finalising
<1>10. \A h \in Gateways, q \in Jobs : ProfileOf[q] = p /\ future[h][q].pc \in Finalising => h = g /\ q = j
  BY <1>0, OneFinaliser DEF Finalising
<1>11. NoticesKept'
  <2>1. Telling(p) <=> future[g][j].notice
    BY <1>0, <1>10 DEF Telling, Finalising
  <2>2. ~Telling(p)'
    BY <1>0, <1>1, <1>3, <1>10 DEF Telling, Finalising
  <2>3. FutureNotice(g, j)'
    BY <1>1, <1>3 DEF FutureNotice, Noticing
  <2>4. OwnerNotice(p)'
    <3>1. CASE future[g][j].notice /\ notice' = [notice EXCEPT ![p] = [key |-> future[g][j].result, at |-> now]]
               /\ crashes' = crashes
      <4>1. notice'[p] = [key |-> future[g][j].result, at |-> now]
        BY <3>1, <1>0 DEF CronTypeOK
      <4>2. ~Unrecorded(p)'
        BY <4>1, <3>1, <1>2, <1>4, <1>5 DEF Unrecorded, OwnerNotice
      <4> QED BY <4>1, <4>2, <3>1, <1>2, <1>4, <1>5 DEF OwnerNotice
    <3>2. CASE ~future[g][j].notice /\ notice' = notice /\ crashes' = crashes
      <4>1. Unrecorded(p)' <=> Unrecorded(p)
        BY <3>2, <1>2 DEF Unrecorded
      <4> QED BY <4>1, <2>1, <2>2, <3>2, <1>2, <1>4 DEF OwnerNotice
    <3>3. CASE notice' = notice /\ crashes' = crashes + 1
      BY <3>3, <1>2, <1>4 DEF OwnerNotice
    <3> QED BY <3>1, <3>2, <3>3, <1>2
  <2> QED BY <2>3, <2>4, <1>0, <1>2, <1>3, <1>4, <1>6, <1>10, OthersNotices DEF Finalising, Noticing
<1>12. ClaimsAccounted'
  BY <1>2, <1>3, <1>4 DEF ClaimsAccounted
<1> QED BY <1>7, <1>8, <1>9, <1>11, <1>12

LEMMA CompleteKeeps ==
    ASSUME CronInv, NEW g \in Gateways, NEW j \in Jobs, Complete(g, j)
    PROVE  CronInv'
<1> USE CronAssumption, Names DEF CronInv
<1>0. PICK p \in Profiles : p = ProfileOf[j]
  OBVIOUS
<1>1. PICK c : /\ c = [tickClaim[g][p] EXCEPT !.left = IF @ > 0 THEN @ - 1 ELSE 0]
               /\ tickClaim' = [tickClaim EXCEPT ![g][p] = c] /\ tick' = ReleaseIfReady(p, c)
  BY <1>0 DEF Complete
<1>2. /\ future[g][j].pc = "unlock"
      /\ patch' = [patch EXCEPT ![g] = NoOne] /\ paths' = [paths EXCEPT ![g] = NoOne]
      /\ future' = [future EXCEPT ![g][j] = NoFuture]
      /\ inFlight' = [inFlight EXCEPT ![g] = @ \ {j}]
      /\ UNCHANGED <<expert, now, due, times, runClaim, scan, notice, told, started, crashes>>
  BY DEF Complete
<1>3. /\ tick[p] = g /\ patch[g] = j /\ runClaim[j] = NoOne /\ scan[g].pc \notin {"jobs", "submit"}
      /\ patch[g] # Scanning
  BY <1>0, <1>2 DEF FuturesHold, Finalising, ScansHold
<1>4. /\ future'[g][j].pc = "none" /\ ~future'[g][j].notice
      /\ \A h \in Gateways, q \in Jobs : h # g \/ q # j => future'[h][q] = future[h][q]
      /\ future' \in [Gateways -> [Jobs -> Futures]]
  BY <1>2 DEF CronTypeOK, NoFuture, Futures, FuturePlaces, Results
<1>5. Pending(g, p)' = Pending(g, p) \ {j} /\ j \in Pending(g, p)
  BY <1>0, <1>2, <1>4 DEF Pending
<1>6. Cardinality(Pending(g, p)') = Cardinality(Pending(g, p)) - 1 /\ Cardinality(Pending(g, p)') \in Nat
      /\ IsFiniteSet(Pending(g, p)')
  <2>1. PICK S : S = Pending(g, p)
    OBVIOUS
  <2>2. IsFiniteSet(S) /\ j \in S
    BY <2>1, <1>5, PendingFinite
  <2>3. Cardinality(S \ {j}) = Cardinality(S) - 1 /\ IsFiniteSet(S \ {j})
    BY <2>2, FS_RemoveElement
  <2> QED BY <1>5, <2>1, <2>3, FS_CardinalityType
<1>7. /\ c \in TickClaims /\ c.open = tickClaim[g][p].open /\ c.left = Cardinality(Pending(g, p)')
  <2>1. tickClaim[g][p] \in TickClaims /\ tickClaim[g][p].left = Cardinality(Pending(g, p))
    BY DEF CronTypeOK, FuturesCounted
  <2>2. tickClaim[g][p].left \in Nat /\ tickClaim[g][p].left > 0
    BY <2>1, <1>6 DEF TickClaims
  <2> QED BY <1>1, <1>6, <2>1, <2>2 DEF TickClaims
<1>8. /\ tickClaim' \in [Gateways -> [Profiles -> TickClaims]] /\ tickClaim'[g][p] = c
      /\ \A h \in Gateways, q \in Profiles : h # g \/ q # p => tickClaim'[h][q] = tickClaim[h][q]
  BY <1>1, <1>7 DEF CronTypeOK
<1>9. /\ tick' \in [Profiles -> Gateways \cup {NoOne}] /\ \A q \in Profiles : q # p => tick'[q] = tick[q]
      /\ tick'[p] = g \/ (c.left = 0 /\ ~c.open)
  BY <1>1, <1>3, <1>7 DEF ReleaseIfReady, CronTypeOK, TickClaims
<1>10. /\ patch'[g] = NoOne /\ inFlight'[g] = inFlight[g] \ {j}
       /\ \A h \in Gateways : h # g => patch'[h] = patch[h] /\ paths'[h] = paths[h] /\ inFlight'[h] = inFlight[h]
       /\ inFlight' \in [Gateways -> SUBSET Jobs]
  BY <1>2 DEF CronTypeOK
<1>11. CronTypeOK'
  BY <1>2, <1>4, <1>8, <1>9, <1>10 DEF CronTypeOK
<1>12. ScansHold'
  <2>1. ASSUME NEW h \in Gateways
        PROVE  /\ scan'[h].pc # "idle" => /\ scan'[h].profile \in Profiles /\ tick'[scan'[h].profile] = h
                                          /\ tickClaim'[h][scan'[h].profile].open
               /\ patch'[h] = Scanning <=> scan'[h].pc \in {"jobs", "submit"}
               /\ scan'[h].todo # {} => scan'[h].pc \in {"jobs", "submit"}
               /\ \A q \in scan'[h].todo : ProfileOf[q] = scan'[h].profile /\ (q \in due' \/ q \in OneShots)
               /\ scan'[h].pc = "submit" => /\ scan'[h].job \in inFlight'[h]
                                            /\ future'[h][scan'[h].job].pc = "none"
                                            /\ ProfileOf[scan'[h].job] = scan'[h].profile
    <3>1. CASE h = g
      <4>1. scan[g].pc # "idle" => /\ scan[g].profile \in Profiles /\ tick'[scan[g].profile] = g
                                   /\ tickClaim'[g][scan[g].profile].open
        BY <1>7, <1>8, <1>9 DEF ScansHold
      <4> QED BY <3>1, <4>1, <1>2, <1>3, <1>10 DEF ScansHold
    <3>2. CASE h # g
      <4>1. inFlight[h] \subseteq Jobs
        BY DEF CronTypeOK
      <4>2. scan[h].pc # "idle" => /\ scan[h].profile \in Profiles /\ tick'[scan[h].profile] = h
                                   /\ tickClaim'[h][scan[h].profile].open
        BY <3>2, <1>3, <1>8, <1>9 DEF ScansHold
      <4>3. scan[h].pc = "submit" => /\ scan[h].job \in inFlight'[h]
                                     /\ future'[h][scan[h].job].pc = "none"
                                     /\ ProfileOf[scan[h].job] = scan[h].profile
        BY <4>1, <3>2, <1>4, <1>10 DEF ScansHold
      <4> QED BY <4>2, <4>3, <3>2, <1>2, <1>10 DEF ScansHold
    <3> QED BY <3>1, <3>2
  <2> QED BY <2>1 DEF ScansHold
<1>13. FuturesHold'
  <2>1. ASSUME NEW h \in Gateways, NEW q \in Jobs, future'[h][q].pc # "none"
        PROVE  /\ tick'[ProfileOf[q]] = h /\ q \in inFlight'[h]
               /\ future'[h][q].pc \in Finalising => patch'[h] = q /\ paths'[h] = ProfileOf[q]
               /\ future'[h][q].pc = "unlock" => runClaim'[q] = NoOne
    <3>1. (h # g \/ q # j) /\ future'[h][q] = future[h][q]
      BY <2>1, <1>4
    <3>2. tick[ProfileOf[q]] = h /\ q \in inFlight[h] /\ ProfileOf[q] \in Profiles
      BY <2>1, <3>1 DEF FuturesHold
    <3>3. tick'[ProfileOf[q]] = h
      <4>1. CASE ProfileOf[q] # p
        BY <4>1, <3>2, <1>9
      <4>2. CASE ProfileOf[q] = p
        <5>1. q \in Pending(g, p)'
          BY <4>2, <3>2, <1>3, <2>1 DEF Pending
        <5>2. c.left # 0
          BY <5>1, <1>6, <1>7, FS_EmptySet
        <5> QED BY <4>2, <5>2, <3>2, <1>3, <1>9
      <4> QED BY <4>1, <4>2
    <3>4. h = g => future[h][q].pc \notin Finalising
      BY <3>1, <1>3 DEF FuturesHold
    <3> QED BY <3>1, <3>2, <3>3, <3>4, <1>2, <1>10 DEF FuturesHold, Finalising
  <2>2. \A h \in Gateways, q \in Jobs : future'[h][q].pc = "none" => future'[h][q].pc \notin Finalising
    BY DEF Finalising
  <2> QED BY <2>1, <2>2 DEF FuturesHold
<1>14. FuturesCounted'
  <2>1. ASSUME NEW h \in Gateways, NEW r \in Profiles PROVE tickClaim'[h][r].left = Cardinality(Pending(h, r)')
    <3>1. CASE h = g /\ r = p
      BY <3>1, <1>7, <1>8
    <3>2. CASE h # g \/ r # p
      <4>1. Pending(h, r)' = Pending(h, r)
        BY <3>2, <1>0, <1>4 DEF Pending
      <4> QED BY <3>2, <4>1, <1>8 DEF FuturesCounted
    <3> QED BY <3>1, <3>2
  <2> QED BY <2>1 DEF FuturesCounted
<1>15. StartsOwed'
  BY <1>2 DEF StartsOwed, Owed, Submitting
<1>16. NoticesKept'
  <2>1. crashes' \in Nat /\ crashes' >= crashes
    BY <1>2 DEF CronTypeOK
  <2> QED BY <2>1, <1>2, <1>4, SameNotices DEF Noticing
<1>17. ClaimsAccounted'
  BY <1>2, <1>3, <1>10 DEF ClaimsAccounted, CronTypeOK
<1> QED BY <1>11, <1>12, <1>13, <1>14, <1>15, <1>16, <1>17

LEMMA CronCrashKeeps ==
    ASSUME CronInv, NEW g \in Gateways, Crash(g)
    PROVE  CronInv'
<1> USE CronAssumption, Names DEF CronInv
<1>1. /\ crashes < MaxCrashes /\ crashes' = crashes + 1
      /\ tick' = [p \in Profiles |-> IF tick[p] = g THEN NoOne ELSE tick[p]]
      /\ UNCHANGED <<expert, now, due, times, runClaim, notice, told, started>>
  BY DEF Crash
<1>2. /\ patch'[g] = NoOne /\ scan'[g] = IdleScan /\ IdleScan \in Scans /\ IdleScan.pc = "idle" /\ IdleScan.todo = {}
      /\ \A p \in Profiles : tickClaim'[g][p].left = 0
      /\ \A j \in Jobs : future'[g][j].pc = "none"
      /\ \A h \in Gateways : h # g => /\ patch'[h] = patch[h] /\ paths'[h] = paths[h] /\ scan'[h] = scan[h]
                                      /\ tickClaim'[h] = tickClaim[h] /\ inFlight'[h] = inFlight[h]
                                      /\ future'[h] = future[h]
  BY DEF Crash, CronTypeOK, IdleScan, Scans, NoFuture
<1>3. /\ patch' \in [Gateways -> Jobs \cup {Scanning, NoOne}] /\ paths' \in [Gateways -> Profiles \cup {NoOne}]
      /\ scan' \in [Gateways -> Scans] /\ inFlight' \in [Gateways -> SUBSET Jobs]
      /\ future' \in [Gateways -> [Jobs -> Futures]] /\ tick' \in [Profiles -> Gateways \cup {NoOne}]
      /\ tickClaim' \in [Gateways -> [Profiles -> TickClaims]]
  <2>1. NoFuture \in Futures /\ [open |-> FALSE, left |-> 0] \in TickClaims
    BY DEF NoFuture, Futures, FuturePlaces, Results, TickClaims
  <2> QED BY <1>1, <1>2, <2>1 DEF Crash, CronTypeOK
<1>4. crashes \in Nat /\ crashes' \in 0 .. MaxCrashes /\ told \in [Profiles -> Hearings]
  BY <1>1 DEF CronTypeOK
<1>5. CronTypeOK'
  BY <1>1, <1>3, <1>4 DEF CronTypeOK
<1>6. \A h \in Gateways, p \in Profiles : h # g => (tick'[p] = h <=> tick[p] = h)
  BY <1>1
<1>7. ScansHold'
  <2>1. ASSUME NEW h \in Gateways
        PROVE  /\ scan'[h].pc # "idle" => /\ scan'[h].profile \in Profiles /\ tick'[scan'[h].profile] = h
                                          /\ tickClaim'[h][scan'[h].profile].open
               /\ patch'[h] = Scanning <=> scan'[h].pc \in {"jobs", "submit"}
               /\ scan'[h].todo # {} => scan'[h].pc \in {"jobs", "submit"}
               /\ \A q \in scan'[h].todo : ProfileOf[q] = scan'[h].profile /\ (q \in due' \/ q \in OneShots)
               /\ scan'[h].pc = "submit" => /\ scan'[h].job \in inFlight'[h]
                                            /\ future'[h][scan'[h].job].pc = "none"
                                            /\ ProfileOf[scan'[h].job] = scan'[h].profile
    <3>1. CASE h = g
      BY <3>1, <1>2
    <3>2. CASE h # g
      BY <3>2, <1>1, <1>2, <1>6 DEF ScansHold
    <3> QED BY <3>1, <3>2
  <2> QED BY <2>1 DEF ScansHold
<1>8. FuturesHold'
  BY <1>1, <1>2, <1>6 DEF FuturesHold, Finalising
<1>9. FuturesCounted'
  <2>1. ASSUME NEW h \in Gateways, NEW p \in Profiles PROVE tickClaim'[h][p].left = Cardinality(Pending(h, p)')
    <3>1. CASE h = g
      <4>1. Pending(g, p)' = {}
        BY <1>2 DEF Pending
      <4>2. Cardinality({}) = 0
        BY FS_EmptySet, Zenon
      <4> QED BY <3>1, <4>1, <4>2, <1>2
    <3>2. CASE h # g
      <4>1. Pending(h, p)' = Pending(h, p)
        BY <3>2, <1>2 DEF Pending
      <4> QED BY <3>2, <4>1, <1>2 DEF FuturesCounted
    <3> QED BY <3>1, <3>2
  <2> QED BY <2>1 DEF FuturesCounted
<1>10. StartsOwed'
  <2>1. ASSUME NEW q \in Jobs \ OneShots PROVE started'[q] + Owed(q)' <= times'[q]
    <3>0. started[q] \in Nat /\ times[q] \in Nat /\ started[q] + Owed(q) <= times[q]
      BY DEF StartsOwed, CronTypeOK
    <3>1. Submitting(q)' => Submitting(q)
      BY <1>2 DEF Submitting
    <3> QED BY <3>0, <3>1, <1>1 DEF Owed
  <2> QED BY <2>1 DEF StartsOwed
<1>11. NoticesKept'
  <2>1. ASSUME NEW p \in Profiles PROVE OwnerNotice(p)'
    <3>1. OwnerNotice(p) /\ told[p].early \in Nat
      BY <1>4 DEF NoticesKept, Hearings
    <3> QED BY <3>1, <1>1, <1>4 DEF OwnerNotice
  <2>2. ASSUME NEW h \in Gateways, NEW j \in Jobs PROVE FutureNotice(h, j)'
    <3>1. CASE h = g
      BY <3>1, <1>2 DEF FutureNotice, Noticing
    <3>2. CASE h # g
      <4>1. FutureNotice(h, j) /\ told[ProfileOf[j]].early \in Nat
        BY <1>4 DEF NoticesKept, Hearings
      <4> QED BY <4>1, <3>2, <1>1, <1>2, <1>4 DEF FutureNotice, Early
    <3> QED BY <3>1, <3>2
  <2> QED BY <2>1, <2>2 DEF NoticesKept
<1>12. ClaimsAccounted'
  BY <1>1, <1>4 DEF ClaimsAccounted
<1> QED BY <1>5, <1>7, <1>8, <1>9, <1>10, <1>11, <1>12

LEMMA TickKeeps ==
    ASSUME CronInv, Tick
    PROVE  CronInv'
<1> USE CronAssumption DEF CronInv
<1>1. /\ now < MaxTime /\ now' = now + 1 /\ now \in Nat
      /\ UNCHANGED <<expert, due, times, runClaim, tick, patch, paths, scan, tickClaim, inFlight, future, notice, told,
                     started, crashes>>
  BY DEF Tick, CronTypeOK
<1>2. CronTypeOK' /\ ScansHold' /\ FuturesHold' /\ FuturesCounted' /\ ClaimsAccounted'
  BY <1>1 DEF CronTypeOK, ScansHold, FuturesHold, FuturesCounted, Pending, ClaimsAccounted
<1>3. StartsOwed'
  BY <1>1 DEF StartsOwed, Owed, Submitting
<1>4. ASSUME NEW p \in Profiles, NEW k, Early(p, k)' PROVE Early(p, k)
  <2>1. told[p].at \in Nat
    BY DEF CronTypeOK, Hearings
  <2> QED BY <1>1, <1>4, <2>1 DEF Early
<1>5. ASSUME NEW g \in Gateways, NEW j \in Jobs PROVE FutureNotice(g, j)'
  BY <1>1, <1>4 DEF FutureNotice, NoticesKept
<1>6. ASSUME NEW p \in Profiles PROVE OwnerNotice(p)'
  <2>1. OwnerNotice(p) /\ told[p].at \in Nat /\ notice[p].at \in Nat
    BY DEF NoticesKept, CronTypeOK, Hearings, Notices
  <2>2. Telling(p)' <=> Telling(p)
    BY <1>1 DEF Telling
  <2>3. Unrecorded(p)' <=> Unrecorded(p)
    BY <1>1 DEF Unrecorded
  <2> QED BY <1>1, <2>1, <2>2, <2>3 DEF OwnerNotice
<1> QED BY <1>2, <1>3, <1>5, <1>6 DEF NoticesKept

LEMMA CronInductive == CronInv /\ [CronNext]_cronVars => CronInv'
<1> SUFFICES ASSUME CronInv, [CronNext]_cronVars PROVE CronInv'
  OBVIOUS
<1>1. CASE UNCHANGED cronVars
  BY <1>1 DEF cronVars, CronInv, CronTypeOK, ScansHold, FuturesHold, FuturesCounted, Pending, StartsOwed, Owed,
       Submitting, NoticesKept, FutureNotice, OwnerNotice, Early, Unrecorded, Telling, ClaimsAccounted
<1>2. ASSUME NEW g \in Gateways, ScanStep(g) \/ Crash(g) PROVE CronInv'
  BY <1>2, DeclineKeeps, AdvanceKeeps, AttachKeeps, SubmitKeeps, SubmitFailsKeeps, LeaveContextKeeps, CloseKeeps,
       CronCrashKeeps DEF ScanStep
<1>3. ASSUME NEW g \in Gateways, NEW j \in Jobs, RunStep(g, j) \/ Finalize(g, j) PROVE CronInv'
  BY <1>3, RunMovesKeep, DeliverKeeps, RecordKeeps, CompleteKeeps, FinalizeKeeps DEF RunStep
<1> QED BY <1>1, <1>2, <1>3, JobsKeep, ScanProfileKeeps, TickKeeps DEF CronNext

\* Every occurrence, run claim and notice is accounted for, whichever of any number of
\* gateways scans, runs, finalises or dies (orchestrator.py, execution.py, reauth.py).
THEOREM RunsStayAccounted == CronSpec => []RunsAccounted
<1>1. ASSUME CronInv PROVE RunsAccounted
  <2> USE <1>1, CronAssumption DEF CronInv
  <2>1. RunsApart
    BY DEF RunsApart, FuturesHold, Finalising
  <2>2. StartedOnce
    <3>1. ASSUME NEW j \in Jobs \ OneShots PROVE started[j] <= times[j]
      <4>1. started[j] + Owed(j) <= times[j] /\ Owed(j) \in {0, 1, 2} /\ started[j] \in Nat /\ times[j] \in Nat
        BY DEF StartsOwed, Owed, CronTypeOK
      <4> QED BY <4>1
    <3> QED BY <3>1 DEF StartedOnce
  <2>3. NoticeExact
    BY DEF NoticeExact, NoticesKept, OwnerNotice
  <2> QED BY <2>1, <2>2, <2>3 DEF RunsAccounted
<1> QED BY <1>1, CronStarts, CronInductive, PTL DEF CronSpec

-----------------------------------------------------------------------------
(* No gateway stands still. *)

\* The guards of a gateway's steps: its scan goes on (Decline, Advance, LeaveContext, Submit;
\* Attach, CloseSubmissions), and so does a run (EndRun, Deliver, Record, Complete; StartRun;
\* Finalize).
CanGo(g) ==
    \/ scan[g].pc \in {"jobs", "submit"}
    \/ scan[g].pc = "attach" /\ ~InCallback(g)
    \/ \E j \in Jobs : \/ future[g][j].pc \in {"running"} \cup Finalising
                       \/ future[g][j].pc = "queued" /\ Cardinality(Busy(g)) < MaxWorkers
                       \/ future[g][j].pc = "complete" /\ patch[g] = NoOne

\* Whoever holds a tick lock can take a step.
NoStandstill == \A p \in Profiles : tick[p] # NoOne => CanGo(tick[p])

\* The patch lock is with a finaliser that is past it or with the scan; a future that is
\* done was called back, is called back, or is yet to get its callback from the scan.
CallbacksDue ==
    \A g \in Gateways :
        /\ patch[g] \in Jobs => future[g][patch[g]].pc \in Finalising
        /\ scan[g].pc = "idle" => scan[g].specs = {}
        /\ \A j \in Jobs :
              /\ future[g][j].inScan => future[g][j].pc \in {"complete"} \cup Finalising
              /\ future[g][j].pc = "finished" => ~future[g][j].called
              /\ future[g][j].pc # "none" =>
                     future[g][j].called \/ future[g][j].inScan \/ j \in scan[g].specs
              /\ j \in scan[g].specs => ~future[g][j].inScan

\* A tick lock is held for the scan of the profile or for a future of it, and submissions
\* are open only during the scan.
Lingers(g, p) ==
    \/ scan[g].pc # "idle" /\ scan[g].profile = p
    \/ \E j \in Jobs : ProfileOf[j] = p /\ future[g][j].pc # "none"
ClaimsHeld ==
    \A g \in Gateways, p \in Profiles :
        /\ tick[p] = g => Lingers(g, p)
        /\ tickClaim[g][p].open => scan[g].pc # "idle" /\ scan[g].profile = p

\* Inductive with CronInv.
StandInv == CallbacksDue /\ ClaimsHeld

\* A step of gateway g: what it leaves of a future and its callback is in order, and what
\* it changes comes to be.
LEMMA CallbacksStep ==
    ASSUME CallbacksDue, NEW g \in Gateways,
           \A h \in Gateways : h # g => /\ scan'[h] = scan[h] /\ patch'[h] = patch[h]
                                        /\ future'[h] = future[h],
           patch'[g] \in Jobs => future'[g][patch'[g]].pc \in Finalising,
           scan'[g].pc = "idle" => scan'[g].specs = {},
           \A j \in Jobs :
               \/ future'[g][j] = future[g][j] /\ (j \in scan'[g].specs <=> j \in scan[g].specs)
               \/ /\ future'[g][j].inScan => future'[g][j].pc \in {"complete"} \cup Finalising
                  /\ future'[g][j].pc = "finished" => ~future'[g][j].called
                  /\ future'[g][j].pc # "none" =>
                         future'[g][j].called \/ future'[g][j].inScan \/ j \in scan'[g].specs
                  /\ j \in scan'[g].specs => ~future'[g][j].inScan
    PROVE  CallbacksDue'
<1> SUFFICES ASSUME NEW h \in Gateways
             PROVE  /\ patch'[h] \in Jobs => future'[h][patch'[h]].pc \in Finalising
                    /\ scan'[h].pc = "idle" => scan'[h].specs = {}
                    /\ \A j \in Jobs :
                          /\ future'[h][j].inScan => future'[h][j].pc \in {"complete"} \cup Finalising
                          /\ future'[h][j].pc = "finished" => ~future'[h][j].called
                          /\ future'[h][j].pc # "none" =>
                                 future'[h][j].called \/ future'[h][j].inScan \/ j \in scan'[h].specs
                          /\ j \in scan'[h].specs => ~future'[h][j].inScan
  BY DEF CallbacksDue
<1>1. CASE h # g
  BY <1>1 DEF CallbacksDue
<1>2. CASE h = g
  <2>1. ASSUME NEW j \in Jobs
        PROVE  /\ future'[g][j].inScan => future'[g][j].pc \in {"complete"} \cup Finalising
               /\ future'[g][j].pc = "finished" => ~future'[g][j].called
               /\ future'[g][j].pc # "none" =>
                      future'[g][j].called \/ future'[g][j].inScan \/ j \in scan'[g].specs
               /\ j \in scan'[g].specs => ~future'[g][j].inScan
    BY DEF CallbacksDue
  <2> QED BY <1>2, <2>1
<1> QED BY <1>1, <1>2

\* A step that gives no lock back, ends no scan and forgets no future.
LEMMA LingersOn ==
    ASSUME ClaimsHeld, UNCHANGED tick,
           \A h \in Gateways, p \in Profiles : tickClaim'[h][p].open <=> tickClaim[h][p].open,
           \A h \in Gateways : /\ scan'[h].pc = "idle" <=> scan[h].pc = "idle"
                               /\ scan'[h].profile = scan[h].profile,
           \A h \in Gateways, j \in Jobs : future[h][j].pc # "none" => future'[h][j].pc # "none"
    PROVE  ClaimsHeld'
<1>1. ASSUME NEW h \in Gateways, NEW p \in Profiles PROVE Lingers(h, p) => Lingers(h, p)'
  BY DEF Lingers
<1> QED BY <1>1 DEF ClaimsHeld

\* What counts to more than none has an element.
LEMMA SomeCounted == \A S : Cardinality(S) > 0 => S # {}
<1>1. Cardinality({}) = 0
  BY FS_EmptySet, Zenon
<1> QED BY <1>1

LEMMA ScanProfileStands ==
    ASSUME CronInv, StandInv, NEW g \in Gateways, NEW p \in Profiles, ScanProfile(g, p)
    PROVE  StandInv'
<1> USE CronAssumption, Names DEF CronInv, StandInv
<1> DEFINE n == [IdleScan EXCEPT !.pc = "jobs", !.profile = p, !.todo = DueIn(p)]
<1>1. /\ scan[g].pc = "idle" /\ patch' = [patch EXCEPT ![g] = Scanning] /\ tick' = [tick EXCEPT ![p] = g]
      /\ tickClaim' = [tickClaim EXCEPT ![g][p] = [open |-> TRUE, left |-> 0]]
      /\ scan' = [scan EXCEPT ![g] = n] /\ UNCHANGED future
  BY DEF ScanProfile
<1>2. n.pc = "jobs" /\ n.profile = p /\ n.specs = {}
  BY DEF IdleScan
<1> HIDE DEF n
<1>3. /\ scan'[g] = n /\ patch'[g] = Scanning /\ tick'[p] = g
      /\ \A h \in Gateways : h # g => scan'[h] = scan[h] /\ patch'[h] = patch[h] /\ tickClaim'[h] = tickClaim[h]
      /\ \A q \in Profiles : q # p => tick'[q] = tick[q] /\ tickClaim'[g][q] = tickClaim[g][q]
  BY <1>1 DEF CronTypeOK
<1>4. CallbacksDue'
  <2>1. scan[g].specs = {}
    BY <1>1 DEF CallbacksDue
  <2> QED BY <1>1, <1>2, <1>3, <2>1, CallbacksStep
<1>5. ClaimsHeld'
  <2>1. ASSUME NEW h \in Gateways, NEW q \in Profiles, tick'[q] = h PROVE Lingers(h, q)'
    <3>1. CASE q = p
      BY <2>1, <3>1, <1>2, <1>3 DEF Lingers
    <3>2. CASE q # p
      <4>1. Lingers(h, q)
        BY <2>1, <3>2, <1>3 DEF ClaimsHeld
      <4> QED BY <4>1, <3>2, <1>1, <1>3 DEF Lingers
    <3> QED BY <3>1, <3>2
  <2>2. ASSUME NEW h \in Gateways, NEW q \in Profiles, tickClaim'[h][q].open
        PROVE  scan'[h].pc # "idle" /\ scan'[h].profile = q
    <3>1. CASE h = g /\ q = p
      BY <3>1, <1>2, <1>3
    <3>2. CASE h # g \/ q # p
      BY <2>2, <3>2, <1>1, <1>3 DEF ClaimsHeld
    <3> QED BY <3>1, <3>2
  <2> QED BY <2>1, <2>2 DEF ClaimsHeld
<1> QED BY <1>4, <1>5

\* The scan goes on, looks at a job, submits it or leaves the context.
LEMMA ScanStands ==
    ASSUME CronInv, StandInv, NEW g \in Gateways,
           (\E j \in Jobs : Decline(g, j) \/ Advance(g, j)) \/ SubmitFails(g) \/ LeaveContext(g)
    PROVE  StandInv'
<1> USE CronAssumption, Names DEF CronInv, StandInv
<1>1. /\ scan[g].pc \in {"jobs", "submit"} /\ UNCHANGED <<tick, tickClaim, future>>
      /\ patch' = patch \/ patch' = [patch EXCEPT ![g] = NoOne]
  BY DEF Decline, Advance, SubmitFails, LeaveContext
<1>2. /\ scan'[g].pc \in {"jobs", "submit", "attach"}
      /\ scan'[g].profile = scan[g].profile /\ scan'[g].specs = scan[g].specs
      /\ \A h \in Gateways : h # g => scan'[h] = scan[h]
  <2>1. scan \in [Gateways -> Scans]
    BY DEF CronTypeOK
  <2>2. CASE \E j \in Jobs : Decline(g, j)
    BY <2>1, <2>2 DEF Decline, Scans
  <2>3. ASSUME NEW j \in Jobs, Advance(g, j)
        PROVE  /\ scan'[g].pc = "submit" /\ scan'[g].profile = scan[g].profile /\ scan'[g].specs = scan[g].specs
               /\ \A h \in Gateways : h # g => scan'[h] = scan[h]
    <3>1. scan' = [scan EXCEPT ![g].todo = @ \ {j}, ![g].pc = "submit", ![g].job = j]
      BY <2>3 DEF Advance
    <3> QED BY <2>1, <3>1 DEF Scans
  <2>4. CASE SubmitFails(g)
    BY <2>1, <2>4 DEF SubmitFails, Scans
  <2>5. CASE LeaveContext(g)
    BY <2>1, <2>5 DEF LeaveContext, Scans
  <2> QED BY <2>2, <2>3, <2>4, <2>5
<1>3. patch'[g] \notin Jobs /\ \A h \in Gateways : h # g => patch'[h] = patch[h]
  BY <1>1 DEF CronTypeOK, ScansHold
<1>4. CallbacksDue'
  BY <1>1, <1>2, <1>3, CallbacksStep
<1>5. ClaimsHeld'
  BY <1>1, <1>2, LingersOn
<1> QED BY <1>4, <1>5

LEMMA SubmitStands ==
    ASSUME CronInv, StandInv, NEW g \in Gateways, Submit(g)
    PROVE  StandInv'
<1> USE CronAssumption, Names DEF CronInv, StandInv
<1>1. PICK j \in Jobs : j = scan[g].job
  BY DEF Submit, ScansHold, CronTypeOK
<1>2. /\ scan[g].pc = "submit" /\ UNCHANGED <<tick, patch>>
      /\ scan' = [scan EXCEPT ![g].pc = "jobs", ![g].job = NoOne, ![g].specs = @ \cup {j}]
      /\ future' = [future EXCEPT ![g][j] = [NoFuture EXCEPT !.pc = "queued"]]
      /\ tickClaim' = [tickClaim EXCEPT ![g][ProfileOf[j]].left = @ + 1]
  BY <1>1 DEF Submit
<1>3. /\ scan'[g].pc = "jobs" /\ scan'[g].profile = scan[g].profile /\ scan'[g].specs = scan[g].specs \cup {j}
      /\ \A h \in Gateways : h # g => scan'[h] = scan[h]
  BY <1>2 DEF CronTypeOK, Scans
<1>4. /\ future'[g][j].pc = "queued" /\ ~future'[g][j].called /\ ~future'[g][j].inScan
      /\ \A h \in Gateways : h # g => future'[h] = future[h]
      /\ \A q \in Jobs : q # j => future'[g][q] = future[g][q]
  BY <1>2 DEF CronTypeOK, NoFuture
<1>5. \A h \in Gateways, p \in Profiles : tickClaim'[h][p].open <=> tickClaim[h][p].open
  BY <1>2 DEF CronTypeOK, TickClaims
<1>6. CallbacksDue'
  <2>1. patch'[g] \notin Jobs
    BY <1>2 DEF ScansHold
  <2>2. ASSUME NEW q \in Jobs
        PROVE  \/ future'[g][q] = future[g][q] /\ (q \in scan'[g].specs <=> q \in scan[g].specs)
               \/ q = j
    BY <1>3, <1>4
  <2>3. scan'[g].pc # "idle" /\ j \in scan'[g].specs
    BY <1>3
  <2>4. \A h \in Gateways : h # g => scan'[h] = scan[h] /\ patch'[h] = patch[h] /\ future'[h] = future[h]
    BY <1>2, <1>3, <1>4
  <2> QED BY <1>4, <2>1, <2>2, <2>3, <2>4, CallbacksStep
<1>7. ClaimsHeld'
  <2>1. \A h \in Gateways, q \in Jobs : future[h][q].pc # "none" => future'[h][q].pc # "none"
    BY <1>4
  <2>2. \A h \in Gateways : /\ scan'[h].pc = "idle" <=> scan[h].pc = "idle"
                            /\ scan'[h].profile = scan[h].profile
    BY <1>2, <1>3
  <2> QED BY <1>2, <1>5, <2>1, <2>2, LingersOn
<1> QED BY <1>6, <1>7

LEMMA AttachStands ==
    ASSUME CronInv, StandInv, NEW g \in Gateways, NEW j \in Jobs, Attach(g, j)
    PROVE  StandInv'
<1> USE CronAssumption, Names DEF CronInv, StandInv
<1>1. /\ scan[g].pc = "attach" /\ j \in scan[g].specs /\ UNCHANGED <<tick, tickClaim, patch>>
      /\ scan' = [scan EXCEPT ![g].specs = @ \ {j}]
      /\ future' = [future EXCEPT ![g][j] =
           IF @.pc = "finished" THEN [@ EXCEPT !.pc = "complete", !.inScan = TRUE]
           ELSE [@ EXCEPT !.called = TRUE]]
  BY DEF Attach
<1>2. /\ scan'[g].pc = "attach" /\ scan'[g].profile = scan[g].profile /\ scan'[g].specs = scan[g].specs \ {j}
      /\ \A h \in Gateways : h # g => scan'[h] = scan[h]
  BY <1>1 DEF CronTypeOK, Scans
<1>3. /\ \A h \in Gateways : h # g => future'[h] = future[h]
      /\ \A q \in Jobs : q # j => future'[g][q] = future[g][q]
      /\ \/ /\ future[g][j].pc = "finished" /\ future'[g][j].pc = "complete" /\ future'[g][j].inScan
         \/ /\ future[g][j].pc # "finished" /\ future'[g][j].pc = future[g][j].pc
            /\ future'[g][j].called /\ (future'[g][j].inScan <=> future[g][j].inScan)
  <2>1. future \in [Gateways -> [Jobs -> Futures]] /\ future[g][j] \in Futures
    BY DEF CronTypeOK
  <2>2. PICK f : f = IF future[g][j].pc = "finished" THEN [future[g][j] EXCEPT !.pc = "complete", !.inScan = TRUE]
                     ELSE [future[g][j] EXCEPT !.called = TRUE]
    OBVIOUS
  <2>3. \/ future[g][j].pc = "finished" /\ f.pc = "complete" /\ f.inScan
        \/ /\ future[g][j].pc # "finished" /\ f.pc = future[g][j].pc
           /\ f.called /\ (f.inScan <=> future[g][j].inScan)
    BY <2>1, <2>2 DEF Futures
  <2>4. future' = [future EXCEPT ![g][j] = f]
    BY <1>1, <2>2
  <2>5. future'[g][j] = f
    BY <2>1, <2>4
  <2> QED BY <2>1, <2>3, <2>4, <2>5
<1>4. ~future[g][j].inScan
  BY <1>1 DEF CallbacksDue
<1>5. patch'[g] \in Jobs => future'[g][patch'[g]].pc \in Finalising
  <2>1. patch[g] \in Jobs => future[g][patch[g]].pc \in Finalising
    BY DEF CallbacksDue
  <2> QED BY <1>1, <1>3, <2>1 DEF Finalising
<1>6. CallbacksDue'
  <2>1. /\ future'[g][j].inScan => future'[g][j].pc = "complete"
        /\ future'[g][j].pc = "finished" => ~future'[g][j].called
        /\ future'[g][j].called \/ future'[g][j].inScan
        /\ j \notin scan'[g].specs
    BY <1>2, <1>3, <1>4
  <2>2. \A q \in Jobs : q # j => future'[g][q] = future[g][q] /\ (q \in scan'[g].specs <=> q \in scan[g].specs)
    BY <1>2, <1>3
  <2> QED BY <1>1, <1>2, <1>3, <1>5, <2>1, <2>2, CallbacksStep
<1>7. ClaimsHeld'
  <2>1. \A h \in Gateways, q \in Jobs : future[h][q].pc # "none" => future'[h][q].pc # "none"
    BY <1>3
  <2> QED BY <1>1, <1>2, <2>1, LingersOn
<1> QED BY <1>6, <1>7

LEMMA CloseStands ==
    ASSUME CronInv, CronInv', StandInv, NEW g \in Gateways, CloseSubmissions(g)
    PROVE  StandInv'
<1> USE CronAssumption, Names DEF CronInv, StandInv
<1>1. PICK p \in Profiles : p = scan[g].profile
  BY DEF CloseSubmissions, ScansHold
<1>2. PICK c \in TickClaims : c = [tickClaim[g][p] EXCEPT !.open = FALSE]
  <2>1. tickClaim[g][p] \in TickClaims
    BY DEF CronTypeOK
  <2>2. PICK c : c = [tickClaim[g][p] EXCEPT !.open = FALSE]
    OBVIOUS
  <2>3. c \in TickClaims
    BY <2>1, <2>2 DEF TickClaims
  <2> QED BY <2>2, <2>3
<1>3. /\ scan[g].pc = "attach" /\ scan[g].specs = {} /\ scan' = [scan EXCEPT ![g] = IdleScan]
      /\ tickClaim' = [tickClaim EXCEPT ![g][p] = c] /\ tick' = ReleaseIfReady(p, c)
      /\ UNCHANGED <<patch, future>>
  BY <1>1, <1>2 DEF CloseSubmissions
<1>4. /\ scan'[g].pc = "idle" /\ scan'[g].specs = {} /\ ~c.open
      /\ \A h \in Gateways : h # g => scan'[h] = scan[h] /\ tickClaim'[h] = tickClaim[h]
      /\ tickClaim'[g][p] = c /\ \A q \in Profiles : q # p => tickClaim'[g][q] = tickClaim[g][q]
  BY <1>2, <1>3 DEF CronTypeOK, TickClaims, IdleScan
<1>5. CallbacksDue'
  <2>1. patch[g] \in Jobs => future[g][patch[g]].pc \in Finalising
    BY DEF CallbacksDue
  <2> QED BY <1>3, <1>4, <2>1, CallbacksStep
<1>6. ASSUME NEW h \in Gateways, NEW q \in Profiles, tick'[q] = h PROVE Lingers(h, q)'
  <2>1. tick'[q] = tick[q] /\ (q = p => c.left > 0)
    BY <1>3, <1>4, <1>6 DEF ReleaseIfReady, CronTypeOK
  <2>2. CASE h = g /\ q = p
    <3>1. \E j \in Jobs : ProfileOf[j] = p /\ future[g][j].pc # "none"
      <4>1. tickClaim[g][p].left > 0
        BY <2>1, <2>2, <1>2 DEF CronTypeOK, TickClaims
      <4>2. Cardinality(Pending(g, p)) > 0
        BY <4>1 DEF FuturesCounted
      <4> QED BY <4>2, SomeCounted DEF Pending
    <3> QED BY <2>2, <3>1, <1>3 DEF Lingers
  <2>3. CASE h # g \/ q # p
    <3>1. Lingers(h, q)
      BY <2>1, <1>6 DEF ClaimsHeld
    <3> QED BY <2>3, <3>1, <1>1, <1>3, <1>4 DEF Lingers
  <2> QED BY <2>2, <2>3
<1>7. ASSUME NEW h \in Gateways, NEW q \in Profiles, tickClaim'[h][q].open
      PROVE  scan'[h].pc # "idle" /\ scan'[h].profile = q
  <2>1. tickClaim[h][q].open /\ (h # g \/ q # p)
    BY <1>4, <1>7
  <2>2. scan[h].profile = q
    BY <2>1 DEF ClaimsHeld
  <2>3. h # g
    BY <1>1, <2>1, <2>2
  <2> QED BY <1>4, <2>1, <2>3 DEF ClaimsHeld
<1> QED BY <1>5, <1>6, <1>7 DEF ClaimsHeld

\* A run starts, ends, is finalised: one future goes on to its next place.
LEMMA RunStands ==
    ASSUME CronInv, StandInv, NEW g \in Gateways, NEW j \in Jobs,
           \/ StartRun(g, j) \/ (\E r \in Results : EndRun(g, j, r))
           \/ Finalize(g, j) \/ Deliver(g, j) \/ Record(g, j)
    PROVE  StandInv'
<1> USE CronAssumption, Names DEF CronInv, StandInv
<1>1. UNCHANGED <<scan, tick, tickClaim>> /\ (patch' = patch \/ (patch' = [patch EXCEPT ![g] = j] /\ Finalize(g, j)))
  BY DEF StartRun, EndRun, Finalize, Deliver, Record
<1>2. PICK f \in Futures : future' = [future EXCEPT ![g][j] = f]
                           /\ f.called = future[g][j].called /\ f.inScan = future[g][j].inScan
                           /\ \/ future[g][j].pc = "queued" /\ f.pc = "running"
                              \/ /\ future[g][j].pc = "running"
                                 /\ f.pc = IF future[g][j].called THEN "complete" ELSE "finished"
                              \/ Finalize(g, j) /\ future[g][j].pc = "complete" /\ f.pc = "deliver"
                              \/ future[g][j].pc \in Finalising /\ f.pc \in Finalising
  <2>1. future[g][j] \in Futures /\ future \in [Gateways -> [Jobs -> Futures]]
    BY DEF CronTypeOK
  <2> DEFINE m(f) == /\ future' = [future EXCEPT ![g][j] = f]
                     /\ f.called = future[g][j].called /\ f.inScan = future[g][j].inScan
  <2>2. CASE StartRun(g, j)
    <3>1. PICK f : f = [future[g][j] EXCEPT !.pc = "running"]
      OBVIOUS
    <3>2. f \in Futures /\ f.pc = "running" /\ m(f)
      BY <2>1, <2>2, <3>1 DEF StartRun, Futures, FuturePlaces
    <3> QED BY <2>2, <3>2 DEF StartRun
  <2>3. ASSUME NEW r \in Results, EndRun(g, j, r)
        PROVE  \E f \in Futures : /\ m(f) /\ future[g][j].pc = "running"
                                  /\ f.pc = IF future[g][j].called THEN "complete" ELSE "finished"
    <3>1. PICK f : f = [future[g][j] EXCEPT !.result = r,
                           !.pc = IF future[g][j].called THEN "complete" ELSE "finished"]
      OBVIOUS
    <3>2. f \in Futures /\ m(f) /\ f.pc = IF future[g][j].called THEN "complete" ELSE "finished"
      BY <2>1, <2>3, <3>1 DEF EndRun, Futures, FuturePlaces
    <3> QED BY <2>3, <3>2 DEF EndRun
  <2>4. CASE Finalize(g, j)
    <3>0. PICK tell \in BOOLEAN :
            future' = [future EXCEPT ![g][j] = [future[g][j] EXCEPT !.pc = "deliver", !.notice = tell]]
      BY <2>4 DEF Finalize
    <3>1. PICK f : f = [future[g][j] EXCEPT !.pc = "deliver", !.notice = tell]
      OBVIOUS
    <3>2. f \in Futures /\ m(f) /\ f.pc = "deliver"
      BY <2>1, <3>0, <3>1 DEF Futures, FuturePlaces
    <3> QED BY <2>4, <3>2 DEF Finalize
  <2>5. CASE Deliver(g, j)
    <3>1. \E b \in BOOLEAN : future' = [future EXCEPT ![g][j] = [future[g][j] EXCEPT !.pc = "record", !.notice = b]]
      <4>1. CASE future' = [future EXCEPT ![g][j].pc = "record"]
        <5>1. PICK b : b = future[g][j].notice
          OBVIOUS
        <5>2. b \in BOOLEAN /\ [future[g][j] EXCEPT !.pc = "record"] = [future[g][j] EXCEPT !.pc = "record", !.notice = b]
          BY <2>1, <5>1 DEF Futures
        <5> QED BY <4>1, <5>2
      <4> QED BY <2>5, <4>1 DEF Deliver
    <3>2. PICK b \in BOOLEAN : future' = [future EXCEPT ![g][j] = [future[g][j] EXCEPT !.pc = "record", !.notice = b]]
      BY <3>1
    <3>3. PICK f : f = [future[g][j] EXCEPT !.pc = "record", !.notice = b]
      OBVIOUS
    <3>4. f \in Futures /\ m(f) /\ f.pc = "record"
      BY <2>1, <3>2, <3>3 DEF Futures, FuturePlaces
    <3> QED BY <2>5, <3>4 DEF Deliver, Finalising
  <2>6. CASE Record(g, j)
    <3>1. PICK f : f = [future[g][j] EXCEPT !.pc = "unlock"]
      OBVIOUS
    <3>2. f \in Futures /\ f.pc = "unlock" /\ m(f)
      BY <2>1, <2>6, <3>1 DEF Record, Futures, FuturePlaces
    <3> QED BY <2>6, <3>2 DEF Record, Finalising
  <2> QED BY <2>2, <2>3, <2>4, <2>5, <2>6
<1>3. /\ future'[g][j] = f /\ \A q \in Jobs : q # j => future'[g][q] = future[g][q]
      /\ \A h \in Gateways : h # g => future'[h] = future[h] /\ patch'[h] = patch[h]
  BY <1>1, <1>2 DEF CronTypeOK
<1>4. patch'[g] \in Jobs => future'[g][patch'[g]].pc \in Finalising
  <2>1. patch[g] \in Jobs => future[g][patch[g]].pc \in Finalising
    BY DEF CallbacksDue
  <2>2. CASE Finalize(g, j)
    <3>1. patch' = [patch EXCEPT ![g] = j] /\ future[g][j].pc = "complete"
      BY <2>2 DEF Finalize
    <3> QED BY <1>2, <1>3, <3>1 DEF Finalising, CronTypeOK
  <2>3. CASE ~Finalize(g, j)
    BY <1>1, <1>2, <1>3, <2>1, <2>3 DEF Finalising
  <2> QED BY <2>2, <2>3
<1>5. CallbacksDue'
  <2>1. /\ future[g][j].inScan => future[g][j].pc \in {"complete"} \cup Finalising
        /\ future[g][j].pc # "none" => future[g][j].called \/ future[g][j].inScan \/ j \in scan[g].specs
        /\ j \in scan[g].specs => ~future[g][j].inScan
        /\ scan[g].pc = "idle" => scan[g].specs = {}
    BY DEF CallbacksDue
  <2>2. /\ f.inScan => f.pc \in {"complete"} \cup Finalising
        /\ f.pc = "finished" => ~f.called
        /\ f.called \/ f.inScan \/ j \in scan[g].specs
        /\ j \in scan[g].specs => ~f.inScan
    BY <1>2, <2>1 DEF Finalising
  <2> QED BY <1>1, <1>3, <1>4, <2>1, <2>2, CallbacksStep
<1>6. ClaimsHeld'
  <2>1. f.pc # "none"
    BY <1>2 DEF Finalising
  <2>2. \A h \in Gateways, q \in Jobs : future[h][q].pc # "none" => future'[h][q].pc # "none"
    BY <1>3, <2>1
  <2> QED BY <1>1, <2>2, LingersOn
<1> QED BY <1>5, <1>6

LEMMA CompleteStands ==
    ASSUME CronInv, CronInv', StandInv, NEW g \in Gateways, NEW j \in Jobs, Complete(g, j)
    PROVE  StandInv'
<1> USE CronAssumption, Names DEF CronInv, StandInv
<1>1. PICK p \in Profiles : p = ProfileOf[j]
  OBVIOUS
<1>2. PICK c \in TickClaims : c = [tickClaim[g][p] EXCEPT !.left = IF @ > 0 THEN @ - 1 ELSE 0]
  <2>1. tickClaim[g][p] \in TickClaims
    BY DEF CronTypeOK
  <2>2. PICK c : c = [tickClaim[g][p] EXCEPT !.left = IF @ > 0 THEN @ - 1 ELSE 0]
    OBVIOUS
  <2>3. c \in TickClaims
    BY <2>1, <2>2 DEF TickClaims
  <2> QED BY <2>2, <2>3
<1>3. /\ future[g][j].pc = "unlock" /\ patch' = [patch EXCEPT ![g] = NoOne]
      /\ future' = [future EXCEPT ![g][j] = NoFuture]
      /\ tickClaim' = [tickClaim EXCEPT ![g][p] = c] /\ tick' = ReleaseIfReady(p, c)
      /\ UNCHANGED scan
  BY <1>1, <1>2 DEF Complete
<1>4. /\ future'[g][j].pc = "none" /\ ~future'[g][j].inScan /\ patch'[g] = NoOne /\ tickClaim'[g][p] = c
      /\ \A q \in Jobs : q # j => future'[g][q] = future[g][q]
      /\ \A h \in Gateways : h # g => future'[h] = future[h] /\ patch'[h] = patch[h] /\ tickClaim'[h] = tickClaim[h]
      /\ \A q \in Profiles : q # p => tickClaim'[g][q] = tickClaim[g][q]
      /\ c.open = tickClaim[g][p].open
  BY <1>2, <1>3 DEF CronTypeOK, NoFuture, TickClaims
<1>5. CallbacksDue'
  <2>1. scan[g].pc = "idle" => scan[g].specs = {}
    BY DEF CallbacksDue
  <2> QED BY <1>3, <1>4, <2>1, CallbacksStep
<1>6. ASSUME NEW h \in Gateways, NEW q \in Profiles, tickClaim'[h][q].open
      PROVE  scan'[h].pc # "idle" /\ scan'[h].profile = q
  <2>1. tickClaim[h][q].open
    BY <1>4, <1>6
  <2> QED BY <1>3, <2>1 DEF ClaimsHeld
<1>7. ASSUME NEW h \in Gateways, NEW q \in Profiles, tick'[q] = h PROVE Lingers(h, q)'
  <2>1. tick'[q] = tick[q] /\ (q = p => c.open \/ c.left > 0)
    BY <1>3, <1>7 DEF ReleaseIfReady, CronTypeOK
  <2>2. CASE h = g /\ q = p /\ c.open
    BY <1>4, <1>6, <2>2 DEF Lingers
  <2>3. CASE h = g /\ q = p /\ c.left > 0
    <3>1. tickClaim'[g][p].left > 0 /\ FuturesCounted'
      BY <1>4, <2>3
    <3>2. Cardinality(Pending(g, p)') > 0
      BY <3>1 DEF FuturesCounted
    <3>3. (\E i \in Jobs : ProfileOf[i] = p /\ future[g][i].pc # "none")'
      BY <3>2, SomeCounted DEF Pending
    <3> QED BY <2>3, <3>3 DEF Lingers
  <2>4. CASE h # g \/ q # p
    <3>1. Lingers(h, q)
      BY <2>1, <1>7 DEF ClaimsHeld
    <3>2. \A i \in Jobs : ProfileOf[i] = q => future'[h][i] = future[h][i]
      BY <1>1, <1>4, <2>4
    <3> QED BY <1>3, <3>1, <3>2 DEF Lingers
  <2> QED BY <2>1, <2>2, <2>3, <2>4
<1> QED BY <1>5, <1>6, <1>7 DEF ClaimsHeld

LEMMA CrashStands ==
    ASSUME CronInv, StandInv, NEW g \in Gateways, Crash(g)
    PROVE  StandInv'
<1> USE CronAssumption, Names DEF CronInv, StandInv
<1>1. /\ tick' = [p \in Profiles |-> IF tick[p] = g THEN NoOne ELSE tick[p]]
      /\ patch' = [patch EXCEPT ![g] = NoOne] /\ scan' = [scan EXCEPT ![g] = IdleScan]
      /\ tickClaim' = [tickClaim EXCEPT ![g] = [p \in Profiles |-> [open |-> FALSE, left |-> 0]]]
      /\ future' = [future EXCEPT ![g] = [j \in Jobs |-> NoFuture]]
  BY DEF Crash
<1>2. /\ patch'[g] = NoOne /\ scan'[g].pc = "idle" /\ scan'[g].specs = {}
      /\ \A j \in Jobs : future'[g][j].pc = "none" /\ ~future'[g][j].inScan
      /\ \A p \in Profiles : ~tickClaim'[g][p].open
      /\ \A h \in Gateways : h # g => /\ scan'[h] = scan[h] /\ patch'[h] = patch[h]
                                      /\ future'[h] = future[h] /\ tickClaim'[h] = tickClaim[h]
      /\ \A p \in Profiles, h \in Gateways : tick'[p] = h => h # g /\ tick[p] = h
  BY <1>1 DEF CronTypeOK, IdleScan, NoFuture
<1>3. CallbacksDue'
  BY <1>2, CallbacksStep
<1>4. ClaimsHeld'
  <2>1. ASSUME NEW h \in Gateways, NEW q \in Profiles, tick'[q] = h PROVE Lingers(h, q)'
    <3>1. Lingers(h, q) /\ h # g
      BY <2>1, <1>2 DEF ClaimsHeld
    <3> QED BY <3>1, <1>2 DEF Lingers
  <2>2. ASSUME NEW h \in Gateways, NEW q \in Profiles, tickClaim'[h][q].open
        PROVE  scan'[h].pc # "idle" /\ scan'[h].profile = q
    <3>1. h # g /\ tickClaim[h][q].open
      BY <2>2, <1>2
    <3> QED BY <3>1, <1>2 DEF ClaimsHeld
  <2> QED BY <2>1, <2>2 DEF ClaimsHeld
<1> QED BY <1>3, <1>4

LEMMA StandInductive == CronInv /\ CronInv' /\ StandInv /\ [CronNext]_cronVars => StandInv'
<1> SUFFICES ASSUME CronInv, CronInv', StandInv, [CronNext]_cronVars PROVE StandInv'
  OBVIOUS
<1>1. CASE UNCHANGED <<tick, patch, scan, tickClaim, future>>
  BY <1>1 DEF StandInv, CallbacksDue, ClaimsHeld, Lingers
<1>2. CASE UNCHANGED cronVars
  BY <1>1, <1>2 DEF cronVars
<1>3. ASSUME NEW j \in Jobs, JobDue(j) \/ ClaimExpires(j) PROVE StandInv'
  BY <1>1, <1>3 DEF JobDue, ClaimExpires
<1>4. ASSUME NEW g \in Gateways, ScanStep(g) \/ Crash(g) PROVE StandInv'
  BY <1>4, ScanStands, SubmitStands, AttachStands, CloseStands, CrashStands DEF ScanStep
<1>5. ASSUME NEW g \in Gateways, NEW j \in Jobs, RunStep(g, j) \/ Finalize(g, j) PROVE StandInv'
  BY <1>5, RunStands, CompleteStands DEF RunStep
<1>6. CASE Tick
  BY <1>1, <1>6 DEF Tick
<1> QED BY <1>2, <1>3, <1>4, <1>5, <1>6, ScanProfileStands DEF CronNext

\* The one that is in the way can go on.
LEMMA SomeoneGoes ==
    ASSUME CronInv, StandInv, NEW g \in Gateways, NEW p \in Profiles, tick[p] = g
    PROVE  CanGo(g)
<1> USE CronAssumption, Names DEF CronInv, StandInv
\* A run past the pool's queue goes on, or waits for a finaliser or a scan that does.
<1>1. ASSUME NEW j \in Jobs, future[g][j].pc \notin {"none", "queued", "finished"} PROVE CanGo(g)
  <2>1. future[g][j].pc \in FuturePlaces
    BY DEF CronTypeOK, Futures
  <2>2. CASE future[g][j].pc # "complete"
    BY <1>1, <2>1, <2>2 DEF CanGo, FuturePlaces, Finalising
  <2>3. CASE future[g][j].pc = "complete" /\ patch[g] = NoOne
    BY <2>3 DEF CanGo
  <2>4. CASE patch[g] = Scanning
    BY <2>4 DEF ScansHold, CanGo
  <2>5. CASE patch[g] \in Jobs
    <3>1. future[g][patch[g]].pc \in Finalising
      BY <2>5 DEF CallbacksDue
    <3> QED BY <2>5, <3>1 DEF CanGo
  <2> QED BY <2>2, <2>3, <2>4, <2>5 DEF CronTypeOK
<1>2. CASE scan[g].pc \in {"jobs", "submit"}
  BY <1>2 DEF CanGo
<1>3. CASE scan[g].pc = "attach"
  <2>1. CASE ~InCallback(g)
    BY <1>3, <2>1 DEF CanGo
  <2>2. CASE InCallback(g)
    <3>1. PICK j \in Jobs : future[g][j].inScan
      BY <2>2 DEF InCallback
    <3>2. future[g][j].pc \in {"complete"} \cup Finalising
      BY <3>1 DEF CallbacksDue
    <3> QED BY <1>1, <3>2 DEF Finalising
  <2> QED BY <2>1, <2>2
<1>4. CASE scan[g].pc = "idle"
  <2>1. PICK j \in Jobs : future[g][j].pc # "none"
    BY <1>4 DEF ClaimsHeld, Lingers
  <2>2. future[g][j].pc # "finished"
    BY <1>4, <2>1 DEF CallbacksDue, Finalising
  <2>3. CASE future[g][j].pc = "queued"
    <3>1. CASE Cardinality(Busy(g)) < MaxWorkers
      BY <2>3, <3>1 DEF CanGo
    <3>2. CASE ~(Cardinality(Busy(g)) < MaxWorkers)
      <4>1. IsFiniteSet(Busy(g)) /\ Cardinality(Busy(g)) \in Nat
        BY FS_Subset, FS_CardinalityType DEF Busy
      <4>2. Busy(g) # {}
        BY <3>2, <4>1, SomeCounted
      <4> QED BY <1>1, <4>2 DEF Busy
    <3> QED BY <3>1, <3>2
  <2> QED BY <1>1, <2>1, <2>2, <2>3
<1> QED BY <1>2, <1>3, <1>4 DEF CronTypeOK, Scans

\* The safety half of what is promised of tick locks: scan, pool, callbacks and patch lock
\* never wait for one another in a circle, for any number of gateways, profiles, jobs and
\* threads, whoever dies (orchestrator.py).
THEOREM NobodyStandsStill == CronSpec => []NoStandstill
<1>1. CronInit => StandInv
  BY Names DEF CronInit, StandInv, CallbacksDue, ClaimsHeld, IdleScan, NoFuture
<1>2. CronInv /\ StandInv => NoStandstill
  <2> SUFFICES ASSUME CronInv, StandInv, NEW p \in Profiles, tick[p] # NoOne PROVE CanGo(tick[p])
    BY DEF NoStandstill
  <2>1. tick[p] \in Gateways
    BY DEF CronInv, CronTypeOK
  <2> QED BY <2>1, SomeoneGoes
<1> QED BY <1>1, <1>2, CronStarts, CronInductive, StandInductive, PTL DEF CronSpec
=============================================================================
