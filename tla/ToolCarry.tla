----------------------------- MODULE ToolCarry -----------------------------
(***************************************************************************)
(* turn_tool_context.py: the tool calls of earlier turns, kept in memory   *)
(* per (actor, profile, session) and carried into the next turn.  A run    *)
(* takes a snapshot of its key when it is bound, buffers the tool frames   *)
(* of its current attempt, and commits them at the end, unless the key's   *)
(* generation moved on because of a reset.  Each store operation holds the *)
(* store's lock, hence is one action.                                      *)
(***************************************************************************)
EXTENDS Integers, Sequences, FiniteSets

CONSTANTS CarryKeys, Runs, Prompts, Calls,
          MaxKeys,      \* MAX_KEYS
          MaxTurns,     \* MAX_TURNS_PER_KEY
          MaxEntries,   \* MAX_ENTRIES_PER_TURN
          IdleTtl,      \* IDLE_TTL_SECONDS, in ticks
          MaxAttempts, MaxResets, MaxAge,   \* bounds of the runs
          None

ASSUME CarryAssumption ==
    /\ {MaxKeys, MaxTurns, MaxEntries, MaxAttempts} \subseteq Nat \ {0}
    /\ {IdleTtl, MaxResets, MaxAge} \subseteq Nat
    /\ None \notin CarryKeys \cup Prompts

VARIABLES
    clock,
    lru,         \* _keys, the least recently used first
    generation,  \* of a key in lru
    turns,       \* the committed turns of a key in lru
    touched,
    pc,          \* a run: new, bound, over
    key, bornGen, prompt,
    carried,     \* the runs whose turns it carries
    attempt,     \* carry.attempt_id: the number of the current attempt
    entries,     \* the frames buffered: <<attempt, call>>, in order
    truncated,   \* the last entry says that frames were dropped
    sawDone,
    resets,      \* resets of a key so far
    bornResets,  \* resets of its key when a run was bound
    forgotten    \* keys the store dropped, idle or for want of room

storeVars == <<lru, generation, turns, touched, forgotten>>
runVars   == <<pc, key, bornGen, prompt, carried, attempt, entries, truncated, sawDone>>
carryVars == <<clock, storeVars, runVars, resets, bornResets>>

Elems(s) == {s[i] : i \in DOMAIN s}
Turn == [prompt : Prompts, run : Runs, entries : Seq((1..MaxAttempts) \X Calls), cut : BOOLEAN]

CarryTypeOK ==
    /\ clock \in 0..MaxAge
    /\ lru \in Seq(CarryKeys)
    /\ Len(lru) = Cardinality(Elems(lru))
    /\ generation \in [CarryKeys -> 0..MaxResets]
    /\ turns \in [CarryKeys -> Seq(Turn)]
    /\ \A k \in CarryKeys : Len(turns[k]) <= MaxTurns
    /\ \A r \in Runs : Len(entries[r]) <= MaxEntries
    /\ forgotten \subseteq CarryKeys
    /\ touched \in [CarryKeys -> 0..MaxAge]
    /\ pc \in [Runs -> {"new", "bound", "over"}]
    /\ key \in [Runs -> CarryKeys \cup {None}]
    /\ bornGen \in [Runs -> 0..MaxResets]
    /\ prompt \in [Runs -> Prompts \cup {None}]
    /\ carried \in [Runs -> SUBSET Runs]
    /\ attempt \in [Runs -> 0..MaxAttempts]
    /\ entries \in [Runs -> Seq((1..MaxAttempts) \X Calls)]
    /\ truncated \in [Runs -> BOOLEAN]
    /\ sawDone \in [Runs -> BOOLEAN]
    /\ resets \in [CarryKeys -> 0..MaxResets]
    /\ bornResets \in [Runs -> 0..MaxResets]

CarryInit ==
    /\ clock = 0
    /\ lru = <<>>
    /\ generation = [k \in CarryKeys |-> 0]
    /\ turns = [k \in CarryKeys |-> <<>>]
    /\ touched = [k \in CarryKeys |-> 0]
    /\ pc = [r \in Runs |-> "new"]
    /\ key = [r \in Runs |-> None]
    /\ bornGen = [r \in Runs |-> 0]
    /\ prompt = [r \in Runs |-> None]
    /\ carried = [r \in Runs |-> {}]
    /\ attempt = [r \in Runs |-> 0]
    /\ entries = [r \in Runs |-> <<>>]
    /\ truncated = [r \in Runs |-> FALSE]
    /\ sawDone = [r \in Runs |-> FALSE]
    /\ resets = [k \in CarryKeys |-> 0]
    /\ bornResets = [r \in Runs |-> 0]
    /\ forgotten = {}

-----------------------------------------------------------------------------
(* The store. *)

LastN(s, n) == IF Len(s) <= n THEN s ELSE SubSeq(s, Len(s) - n + 1, Len(s))

\* The elements of s at the positions ps, in their order.
AtPositions(s, ps) ==
    [n \in 1..Cardinality(ps) |-> s[CHOOSE i \in ps : Cardinality({j \in ps : j <= i}) = n]]
Without(s, k) == AtPositions(s, {i \in DOMAIN s : s[i] # k})

\* _prune_locked: drop the idle keys, then the least recently used.
Kept == LastN(AtPositions(lru, {i \in DOMAIN lru : clock - touched[lru[i]] <= IdleTtl}), MaxKeys)

\* The keys that are left have their state, the others none.
Keep(ks) ==
    /\ lru' = ks
    /\ forgotten' = forgotten \cup (Elems(lru) \ Elems(ks))
    /\ generation' = [k \in CarryKeys |-> IF k \in Elems(ks) THEN generation[k] ELSE 0]
    /\ turns' = [k \in CarryKeys |-> IF k \in Elems(ks) THEN turns[k] ELSE <<>>]

\* align: the turns whose prompt is answered exactly once in the conversation.
Align(ts, answered) == {t \in Elems(ts) : answered[t.prompt] = 1}

\* bind: snapshot the key.  answered counts the earlier prompts of the
\* conversation the client sent along.
Bind(r, k, p, answered) ==
    LET known == k \in Elems(Kept) IN
    /\ pc[r] = "new"
    /\ pc' = [pc EXCEPT ![r] = "bound"]
    /\ Keep(IF known THEN Append(Without(Kept, k), k) ELSE Kept)
    /\ touched' = IF known THEN [touched EXCEPT ![k] = clock] ELSE touched
    /\ key' = [key EXCEPT ![r] = k]
    /\ prompt' = [prompt EXCEPT ![r] = p]
    /\ bornGen' = [bornGen EXCEPT ![r] = IF known THEN generation[k] ELSE 0]
    /\ carried' = [carried EXCEPT
                      ![r] = IF known THEN {t.run : t \in Align(turns[k], answered)} ELSE {}]
    /\ bornResets' = [bornResets EXCEPT ![r] = resets[k]]
    /\ UNCHANGED <<clock, attempt, entries, truncated, sawDone, resets>>

\* begin_attempt: a new id, an empty buffer.
BeginAttempt(r) ==
    /\ pc[r] = "bound"
    /\ attempt[r] < MaxAttempts
    /\ attempt' = [attempt EXCEPT ![r] = @ + 1]
    /\ entries' = [entries EXCEPT ![r] = <<>>]
    /\ truncated' = [truncated EXCEPT ![r] = FALSE]
    /\ sawDone' = [sawDone EXCEPT ![r] = FALSE]
    /\ UNCHANGED <<clock, storeVars, pc, key, bornGen, prompt, carried, resets, bornResets>>

\* record_transcript: a frame of attempt a arrives, possibly late or once more.
\* Frames of other attempts and replayed frames are ignored; past the budget the
\* last entry takes note of what is dropped.  MaxEntries stands for both budgets
\* of a turn, MAX_ENTRIES_PER_TURN and MAX_TURN_BYTES.
Record(r, a, c) ==
    /\ pc[r] = "bound"
    /\ a = attempt[r]
    /\ <<a, c>> \notin Elems(entries[r])
    /\ IF Len(entries[r]) >= MaxEntries
       THEN truncated' = [truncated EXCEPT ![r] = TRUE] /\ entries' = entries
       ELSE entries' = [entries EXCEPT ![r] = Append(@, <<a, c>>)] /\ truncated' = truncated
    /\ UNCHANGED <<clock, storeVars, pc, key, bornGen, prompt, carried, attempt, sawDone,
                   resets, bornResets>>

\* mark_done.
MarkDone(r) ==
    /\ pc[r] = "bound"
    /\ attempt[r] > 0
    /\ ~sawDone[r]
    /\ sawDone' = [sawDone EXCEPT ![r] = TRUE]
    /\ UNCHANGED <<clock, storeVars, pc, key, bornGen, prompt, carried, attempt, entries, truncated,
                   resets, bornResets>>

\* The generation check of _Store.commit.
Stale(r) ==
    IF key[r] \in Elems(Kept) THEN generation[key[r]] # bornGen[r] ELSE bornGen[r] # 0

\* One turn per prompt, the newest last, the oldest dropped.
Appended(ts, t) ==
    LastN(Append(AtPositions(ts, {i \in DOMAIN ts : ts[i].prompt # t.prompt}), t), MaxTurns)

\* commit_turn: only after the child's done and with entries.
CommitTurn(r) ==
    LET k == key[r]
        ready == sawDone[r] /\ entries[r] # <<>>
        base == IF k \in Elems(Kept) THEN turns[k] ELSE <<>>
        order == LastN(Append(Without(Kept, k), k), MaxKeys)
        turn == [prompt |-> prompt[r], run |-> r, entries |-> entries[r], cut |-> truncated[r]]
    IN  /\ pc[r] = "bound"
        /\ attempt[r] > 0
        /\ pc' = [pc EXCEPT ![r] = "over"]
        /\ IF ready /\ ~Stale(r)
           THEN /\ lru' = order
                /\ forgotten' = forgotten \cup (Elems(lru) \ (Elems(order) \cap Elems(Kept)))
                /\ generation' = [q \in CarryKeys |->
                                     IF q \in Elems(order) \cap Elems(Kept) THEN generation[q] ELSE 0]
                /\ turns' = [q \in CarryKeys |-> IF q = k THEN Appended(base, turn)
                                            ELSE IF q \in Elems(order) THEN turns[q] ELSE <<>>]
                /\ touched' = [touched EXCEPT ![k] = clock]
           ELSE IF ready THEN Keep(Kept) /\ UNCHANGED touched ELSE UNCHANGED storeVars
        /\ UNCHANGED <<clock, key, bornGen, prompt, carried, attempt, entries, truncated, sawDone,
                       resets, bornResets>>

\* The run fails, is cancelled or rejected: nothing is committed.
Abort(r) ==
    /\ pc[r] = "bound"
    /\ pc' = [pc EXCEPT ![r] = "over"]
    /\ UNCHANGED <<clock, storeVars, key, bornGen, prompt, carried, attempt, entries, truncated,
                   sawDone, resets, bornResets>>

\* Mutant: only a key that holds something gets its generation bumped.
InvalidateKnown(k) ==
    /\ resets[k] < MaxResets
    /\ resets' = [resets EXCEPT ![k] = @ + 1]
    /\ IF k \in Elems(lru)
       THEN /\ lru' = Append(Without(lru, k), k)
            /\ generation' = [generation EXCEPT ![k] = @ + 1]
            /\ turns' = [turns EXCEPT ![k] = <<>>]
            /\ touched' = [touched EXCEPT ![k] = clock]
            /\ UNCHANGED forgotten
       ELSE UNCHANGED storeVars
    /\ UNCHANGED <<clock, runVars, bornResets>>

\* _Store.invalidate: the turns are dropped and the generation bumped, of a key
\* that was never committed as well.
Invalidate(k) ==
    /\ resets[k] < MaxResets
    /\ resets' = [resets EXCEPT ![k] = @ + 1]
    /\ lru' = Append(Without(lru, k), k)
    /\ generation' = [generation EXCEPT ![k] = @ + 1]
    /\ turns' = [turns EXCEPT ![k] = <<>>]
    /\ touched' = [touched EXCEPT ![k] = clock]
    /\ UNCHANGED <<clock, forgotten, runVars, bornResets>>

Age ==
    /\ clock < MaxAge
    /\ clock' = clock + 1
    /\ UNCHANGED <<storeVars, runVars, resets, bornResets>>

-----------------------------------------------------------------------------
CarryNext ==
    \/ \E r \in Runs :
          \/ \E k \in CarryKeys, p \in Prompts, answered \in [Prompts -> 0..2] : Bind(r, k, p, answered)
          \/ BeginAttempt(r)
          \/ \E a \in 1..MaxAttempts, c \in Calls : Record(r, a, c)
          \/ MarkDone(r) \/ CommitTurn(r) \/ Abort(r)
    \/ \E k \in CarryKeys : Invalidate(k)
    \/ Age

CarrySpec == CarryInit /\ [][CarryNext]_carryVars

-----------------------------------------------------------------------------
(* Properties. *)

\* A turn that was in flight when its session was reset never lands in the
\* session afterwards: not on a key that had never been written either.  This relies on
\* the store keeping the key.
NoResurrection ==
    \A k \in CarryKeys \ forgotten : \A t \in Elems(turns[k]) : bornResets[t.run] = resets[k]

\* A committed turn holds the frames of one attempt, each call once: what a
\* superseded attempt buffered, or what arrives late from it, is not in it.
OneAttemptPerTurn ==
    \A k \in CarryKeys : \A t \in Elems(turns[k]) :
        /\ \A e \in Elems(t.entries) : e[1] = attempt[t.run]
        /\ Cardinality(Elems(t.entries)) = Len(t.entries)

\* A prompt names at most one turn of a session: alignment is unambiguous.
OneTurnPerPrompt ==
    \A k \in CarryKeys : \A i, j \in DOMAIN turns[k] :
        turns[k][i].prompt = turns[k][j].prompt => i = j

\* A run never carries a turn from before the last reset of its session, nor one
\* of another session, however keys are dropped and come back.
CarriesOwnSession ==
    \A r \in Runs : \A s \in carried[r] :
        key[s] = key[r] /\ (key[r] \notin forgotten => bornResets[s] = bornResets[r])

\* A reset divides sessions for the store and for the runs that read from it, and a
\* committed turn is one attempt at one prompt.
SessionsApart ==
    NoResurrection /\ CarriesOwnSession /\ OneAttemptPerTurn /\ OneTurnPerPrompt
=============================================================================
