------------------------------ MODULE LarkWrite ------------------------------
(***************************************************************************)
(* Durable lark-cli writes (lark_cli_tool.py, operation_checkpoint.py,     *)
(* resume_pending_lark_cli_step of agent_real/_core.py).                   *)
(*                                                                         *)
(* In the strict runtime a message write is an operation of one tool call. *)
(* Its handler claims the operation's row in the checkpoint store, runs    *)
(* lark-cli, reads the message back, and leaves the outcome to the post    *)
(* hook.  The worker may die anywhere in between and the call may be made  *)
(* again, also at the same time by a second worker.  A write that failed   *)
(* for want of authorization is closed when the user comes back, who is    *)
(* told to send it again.                                                  *)
(***************************************************************************)
EXTENDS Naturals, FiniteSets

CONSTANTS Calls,      \* tool calls: session and tool_call_id
          Attempts,   \* executions of the handler
          Resumes,    \* recoveries after an authorization
          Blank       \* no call yet

ASSUME WriteAssumption == Blank \notin Calls

VARIABLES op,       \* the state of an operation's row, "none" without a row
          attempt,  \* an execution of the handler
          resume,   \* a recovery
          executed, \* lark-cli runs of a call
          landed,   \* the message is in the chat
          resends   \* times the user was told to send the message again

writeVars == <<op, attempt, resume, executed, landed, resends>>

OpStates == {"none", "running", "waiting_auth", "uncertain", "confirmed", "failed"}
Outcomes == {"message", "no_receipt", "auth", "error", "timeout"}
NoAttempt == [pc |-> "none", call |-> Blank, out |-> "error",
              told |-> "nothing"]
NoResume == [pc |-> "none", call |-> Blank, seen |-> "none"]

WriteTypeOK ==
  /\ op \in [Calls -> OpStates]
  /\ attempt \in [Attempts ->
       [pc : {"none", "checked", "claimed", "ran", "read", "returned", "done"},
        call : Calls \cup {Blank}, out : Outcomes \cup {"confirmed"},
        told : {"nothing", "refused", "ok", "blocked", "failed"}]]
  /\ resume \in [Resumes -> [pc : {"none", "found", "done"}, call : Calls \cup {Blank}, seen : OpStates]]
  /\ executed \in [Calls -> Nat] /\ landed \in [Calls -> BOOLEAN]
  /\ resends \in [Calls -> Nat]

WriteInit ==
  /\ op = [c \in Calls |-> "none"] /\ attempt = [a \in Attempts |-> NoAttempt]
  /\ resume = [k \in Resumes |-> NoResume]
  /\ executed = [c \in Calls |-> 0] /\ resends = [c \in Calls |-> 0]
  /\ landed = [c \in Calls |-> FALSE]

-----------------------------------------------------------------------------
(* The handler. *)

\* _handle_lark_cli_execute up to the claim: arguments, policy, identity and
\* runtime are checked, and only a typed message write passes.
Call(a, c) ==
  /\ attempt[a].pc = "none"
  /\ \E ok \in BOOLEAN :
       attempt' = [attempt EXCEPT ![a] = [NoAttempt EXCEPT !.call = c,
                     !.pc = IF ok THEN "checked" ELSE "done",
                     !.told = IF ok THEN "nothing" ELSE "refused"]]
  /\ UNCHANGED <<op, resume, executed, landed, resends>>

\* Mutant: a row whose outcome is unknown is claimed again.
ClaimAgain(c) == op[c] \in {"none", "running", "uncertain"}

\* claim: INSERT OR IGNORE, and the row's count says whose it is.
Claimable(c) == op[c] = "none"

\* _begin_lark_cli_operation: a confirmed operation is answered from its row, any
\* other one that exists blocks the replay.
ClaimOperation(a) ==
  LET c == attempt[a].call IN
  /\ attempt[a].pc = "checked"
  /\ IF Claimable(c)
     THEN /\ op' = [op EXCEPT ![c] = "running"]
          /\ attempt' = [attempt EXCEPT ![a].pc = "claimed"]
     ELSE /\ attempt' = [attempt EXCEPT ![a].pc = "done",
                           ![a].told = IF op[c] = "confirmed" THEN "ok" ELSE "blocked"]
          /\ UNCHANGED op
  /\ UNCHANGED <<resume, executed, landed, resends>>

\* lark-cli runs.  A message id means the message is there and a refusal for want
\* of authorization that it is not; otherwise it may have landed.
RunCli(a, out) ==
  LET c == attempt[a].call IN
  /\ attempt[a].pc = "claimed"
  /\ executed' = [executed EXCEPT ![c] = @ + 1]
  /\ \E here \in BOOLEAN : /\ out = "message" => here
                           /\ out = "auth" => ~here
                           /\ landed' = [landed EXCEPT ![c] = @ \/ here]
  /\ attempt' = [attempt EXCEPT ![a].out = out,
                   ![a].pc = IF out = "message" THEN "ran" ELSE "read"]
  /\ UNCHANGED <<op, resume, resends>>

\* _readback_resumable_message: the message is fetched and compared; a failure
\* leaves the outcome uncertain.
Readback(a) ==
  /\ attempt[a].pc = "ran"
  /\ \E same \in BOOLEAN :
       attempt' = [attempt EXCEPT ![a].pc = "read",
                     ![a].out = IF same THEN "confirmed" ELSE "error"]
  /\ UNCHANGED <<op, resume, executed, landed, resends>>

\* The operation's state as the handler reports it.
Receipt(out) ==
  CASE out = "confirmed" -> "confirmed"
    [] out = "auth" -> "waiting_auth"
    [] OTHER -> "uncertain"

\* The handler returns, the receipt riding on the tool result.
Return(a) ==
  /\ attempt[a].pc = "read"
  /\ attempt' = [attempt EXCEPT ![a].pc = "returned"]
  /\ UNCHANGED <<op, resume, executed, landed, resends>>

\* post_lark_cli_operation: a transition of a row that is still running; then the
\* model sees the result without the receipt.
PostHook(a) ==
  LET c == attempt[a].call
      state == Receipt(attempt[a].out) IN
  /\ attempt[a].pc = "returned"
  /\ op' = IF op[c] = "running" THEN [op EXCEPT ![c] = state] ELSE op
  /\ attempt' = [attempt EXCEPT ![a].pc = "done", ![a].out = NoAttempt.out,
                   ![a].told = IF state = "confirmed" THEN "ok" ELSE "failed"]
  /\ UNCHANGED <<resume, executed, landed, resends>>

\* The worker dies: the row stays as it is.
WorkerDies(a) ==
  /\ attempt[a].pc \notin {"none", "done"}
  /\ attempt' = [attempt EXCEPT ![a].pc = "done", ![a].out = NoAttempt.out]
  /\ UNCHANGED <<op, resume, executed, landed, resends>>

-----------------------------------------------------------------------------
(* resume_pending_lark_cli_step: the user authorized and the turn is resumed. *)

\* find_pending: the row of the exact call (or the only one that waits).
FindPending(k, c) ==
  /\ resume[k].pc = "none"
  /\ op[c] \in {"running", "waiting_auth", "uncertain"}
  /\ resume' = [resume EXCEPT ![k] = [pc |-> "found", call |-> c, seen |-> op[c]]]
  /\ UNCHANGED <<op, attempt, executed, landed, resends>>

\* The row is closed only while it waits for authorization.
Closes(k) == op[resume[k].call] = "waiting_auth"

CloseWaiting(k) ==
  LET c == resume[k].call IN
  /\ resume[k].pc = "found"
  /\ resume' = [resume EXCEPT ![k] = [NoResume EXCEPT !.pc = "done"]]
  /\ IF Closes(k) THEN /\ op' = [op EXCEPT ![c] = "failed"]
                       /\ resends' = [resends EXCEPT ![c] = @ + 1]
                  ELSE UNCHANGED <<op, resends>>
  /\ UNCHANGED <<attempt, executed, landed>>

WriteNext ==
  \/ \E a \in Attempts : \/ ClaimOperation(a) \/ Readback(a) \/ Return(a)
                         \/ PostHook(a) \/ WorkerDies(a)
                         \/ \E c \in Calls : Call(a, c)
                         \/ \E out \in Outcomes : RunCli(a, out)
  \/ \E k \in Resumes : CloseWaiting(k) \/ \E c \in Calls : FindPending(k, c)

WriteSpec == WriteInit /\ [][WriteNext]_writeVars

-----------------------------------------------------------------------------
(* What must hold. *)

\* A tool call writes at most once, however often and by however many workers it
\* is made, and the model hears "ok" only of a message that is in the chat.
WritesOnce ==
  /\ \A c \in Calls : executed[c] <= 1
  /\ \A a \in Attempts : attempt[a].told = "ok" => landed[attempt[a].call]

\* The user is told to send a message again at most once, and only a message that
\* did not land; a write of unknown outcome is never offered again.
ResendSafe == \A c \in Calls : resends[c] <= 1 /\ (resends[c] > 0 => ~landed[c])

\* A message reaches the chat once: no repeated call, crash or resumed turn doubles it.
WrittenOnce == WriteTypeOK /\ WritesOnce /\ ResendSafe
=============================================================================
