--------------------------- MODULE HistoryProofs ----------------------------
(***************************************************************************)
(* What a profile keeps from one turn to the next, proved: the chat        *)
(* history of a user, the two tables of the session store, and the         *)
(* carryover of tool calls.  The history is judged row by row: a row names *)
(* its turn, a request is followed by something else unless its turn still *)
(* holds its place, and a marker stands for a turn that lost it (Upheld).  *)
(* The store accepts a key once per TTL provided that no TTL exceeds the   *)
(* pruning floor, and its stamps rise.  The carryover store knows, of a    *)
(* key it never dropped, every reset.  Last, the skills and the plugin the *)
(* profile is given: what is broken in its files is owed by an event that  *)
(* was cut short and that will mend it (WholeOrCut, LostAreCut).  At the   *)
(* end, the rendering of what is carried: a lone turn that its passes have *)
(* cut to the floor fits by FloorAssumption.                               *)
(***************************************************************************)
EXTENDS FeishuTurn, SessionStore, ToolCarry, CarryBudget, SkillHub, FiniteSetTheorems, SequenceTheorems, TLAPS

-----------------------------------------------------------------------------
(* The history of a user: what Recent, Load, Persist and Mark do to it. *)

Books == [cache : Seq(Rows), loaded : BOOLEAN, store : Seq(Rows)]

\* Appending to the recent rows is appending to all of them.
LEMMA RecentRows ==
    ASSUME NEW s \in Seq(Rows)
    PROVE  /\ Recent(s) \in Seq(Rows)
           /\ Len(Recent(s)) <= MaxHist
           /\ s # <<>> => Recent(s) # <<>> /\ Recent(s)[Len(Recent(s))] = s[Len(s)]
           /\ s = <<>> => Recent(s) = <<>>
<1>1. MaxHist \in Nat /\ MaxHist > 0 /\ Len(s) \in Nat /\ DOMAIN s = 1..Len(s)
  BY TurnAssumption
<1>2. CASE Len(s) <= MaxHist
  <2>1. Recent(s) = s
    BY <1>2 DEF Recent
  <2> QED  BY <2>1, <1>1, <1>2
<1>3. CASE Len(s) > MaxHist
  <2> DEFINE m == Len(s) - MaxHist + 1
  <2>1. Recent(s) = SubSeq(s, m, Len(s))
    BY <1>1, <1>3 DEF Recent
  <2>2. m \in Int /\ m >= 1 /\ m <= Len(s) /\ Len(s) \in Int
    BY <1>1, <1>3
  <2>3. \A i \in m..Len(s) : s[i] \in Rows
    BY <2>2, ElementOfSeq
  <2> HIDE DEF m
  <2>4. /\ SubSeq(s, m, Len(s)) \in Seq(Rows)
        /\ Len(SubSeq(s, m, Len(s))) = Len(s) - m + 1
        /\ \A i \in 1..(Len(s) - m + 1) : SubSeq(s, m, Len(s))[i] = s[m + i - 1]
    BY <2>2, <2>3, SubSeqProperties
  <2>5. Len(s) - m + 1 = MaxHist
    BY <1>1 DEF m
  <2>6. Len(Recent(s)) = MaxHist /\ Recent(s)[MaxHist] = s[Len(s)]
    <3>1. Recent(s)[MaxHist] = s[m + MaxHist - 1]
      BY <2>1, <2>4, <2>5, <1>1
    <3>2. m + MaxHist - 1 = Len(s)
      BY <1>1 DEF m
    <3> QED  BY <3>1, <3>2, <2>1, <2>4, <2>5
  <2>7. s # <<>> /\ Recent(s) # <<>>
    BY <2>6, <1>1, <1>3
  <2> QED  BY <2>1, <2>4, <2>6, <2>7, <1>1
<1> QED  BY <1>1, <1>2, <1>3

LEMMA RecentAppends ==
    ASSUME NEW s \in Seq(Rows), NEW row \in Rows
    PROVE  Recent(Append(Recent(s), row)) = Recent(Append(s, row))
<1>1. MaxHist \in Nat /\ MaxHist > 0 /\ Len(s) \in Nat
  BY TurnAssumption
<1>2. CASE Len(s) <= MaxHist
  BY <1>2 DEF Recent
<1>3. CASE Len(s) > MaxHist
  <2> DEFINE r == Recent(s)
             x == Append(r, row)
             y == Append(s, row)
             m == Len(s) - MaxHist + 1
  <2>1. r \in Seq(Rows) /\ r = SubSeq(s, m, Len(s))
    BY <1>1, <1>3, RecentRows DEF Recent
  <2>2. m \in Int /\ m >= 1 /\ m <= Len(s) /\ Len(s) \in Int
    BY <1>1, <1>3
  <2>3. \A i \in m..Len(s) : s[i] \in Rows
    BY <2>2, ElementOfSeq
  <2>4. Len(s) - m + 1 = MaxHist
    BY <1>1
  <2>5. Len(r) = MaxHist /\ \A i \in 1..MaxHist : r[i] = s[m + i - 1]
    <3> HIDE DEF m
    <3>1. /\ Len(SubSeq(s, m, Len(s))) = Len(s) - m + 1
          /\ \A i \in 1..(Len(s) - m + 1) : SubSeq(s, m, Len(s))[i] = s[m + i - 1]
      BY <2>2, <2>3, SubSeqProperties
    <3> HIDE DEF r
    <3> QED  BY <3>1, <2>1, <2>4
  <2>6. /\ x \in Seq(Rows) /\ Len(x) = MaxHist + 1
        /\ \A i \in 1..MaxHist : x[i] = r[i]
        /\ x[MaxHist + 1] = row
    <3> HIDE DEF r
    <3> QED  BY <2>1, <2>5, AppendProperties
  <2>7. /\ y \in Seq(Rows) /\ Len(y) = Len(s) + 1
        /\ \A i \in 1..Len(s) : y[i] = s[i]
        /\ y[Len(s) + 1] = row
    BY AppendProperties
  <2>8. \A i \in 1..(MaxHist + 1) : x[i] = y[m + i - 1]
    <3> SUFFICES ASSUME NEW i \in 1..(MaxHist + 1)  PROVE x[i] = y[m + i - 1]
      OBVIOUS
    <3>1. CASE i = MaxHist + 1
      <4>1. m + i - 1 = Len(s) + 1
        BY <3>1, <1>1
      <4> QED  BY <4>1, <3>1, <2>6, <2>7
    <3>2. CASE i # MaxHist + 1
      <4>1. i \in 1..MaxHist /\ m + i - 1 \in 1..Len(s)
        BY <3>2, <1>1, <1>3
      <4> HIDE DEF m, r, x, y
      <4> QED  BY <4>1, <2>5, <2>6, <2>7
    <3> QED  BY <3>1, <3>2
  <2>9. Recent(x) = SubSeq(x, 2, MaxHist + 1)
    <3>1. Len(x) > MaxHist /\ Len(x) - MaxHist + 1 = 2
      BY <2>6, <1>1
    <3> HIDE DEF r, x
    <3> QED  BY <3>1, <2>6, <1>1 DEF Recent
  <2>10. Recent(y) = SubSeq(y, m + 1, Len(s) + 1)
    <3>1. Len(y) > MaxHist /\ Len(y) - MaxHist + 1 = m + 1
      BY <2>7, <1>1, <1>3
    <3> HIDE DEF m, r, x, y
    <3>2. ~(Len(y) <= MaxHist)
      BY <3>1, <2>7, <1>1
    <3> QED  BY <3>1, <3>2, <2>7 DEF Recent
  <2> HIDE DEF r, x, y
  <2>11. /\ Len(Recent(x)) = MaxHist /\ Recent(x) \in Seq(Rows)
         /\ \A i \in 1..MaxHist : Recent(x)[i] = x[i + 1]
    <3>1. \A i \in 2..(MaxHist + 1) : x[i] \in Rows
      BY <2>6, <1>1, ElementOfSeq
    <3>2. /\ SubSeq(x, 2, MaxHist + 1) \in Seq(Rows)
          /\ Len(SubSeq(x, 2, MaxHist + 1)) = IF 2 <= MaxHist + 1 THEN MaxHist + 1 - 2 + 1 ELSE 0
          /\ \A i \in 1..(MaxHist + 1 - 2 + 1) : SubSeq(x, 2, MaxHist + 1)[i] = x[2 + i - 1]
      BY <3>1, <1>1, SubSeqProperties
    <3>3. MaxHist + 1 - 2 + 1 = MaxHist /\ 2 <= MaxHist + 1 /\ \A i \in 1..MaxHist : 2 + i - 1 = i + 1
      BY <1>1
    <3> QED  BY <3>2, <3>3, <2>9
  <2>12. /\ Len(Recent(y)) = MaxHist /\ Recent(y) \in Seq(Rows)
         /\ \A i \in 1..MaxHist : Recent(y)[i] = y[m + i]
    <3>0. m + 1 \in Int /\ Len(s) + 1 \in Int /\ m + 1 <= Len(s) + 1 /\ Len(s) + 1 - (m + 1) + 1 = MaxHist
      BY <1>1, <1>3
    <3>1. \A i \in (m + 1)..(Len(s) + 1) : y[i] \in Rows
      BY <2>7, <2>2, ElementOfSeq
    <3>2. \A i \in 1..MaxHist : m + 1 + i - 1 = m + i
      BY <1>1
    <3> HIDE DEF m
    <3>3. /\ SubSeq(y, m + 1, Len(s) + 1) \in Seq(Rows)
          /\ Len(SubSeq(y, m + 1, Len(s) + 1)) = Len(s) + 1 - (m + 1) + 1
          /\ \A i \in 1..(Len(s) + 1 - (m + 1) + 1) : SubSeq(y, m + 1, Len(s) + 1)[i] = y[m + 1 + i - 1]
      BY <3>0, <3>1, SubSeqProperties
    <3> QED  BY <3>0, <3>2, <3>3, <2>10
  <2>13. \A i \in 1..MaxHist : Recent(x)[i] = Recent(y)[i]
    <3> SUFFICES ASSUME NEW i \in 1..MaxHist  PROVE Recent(x)[i] = Recent(y)[i]
      OBVIOUS
    <3>1. i + 1 \in 1..(MaxHist + 1) /\ m + (i + 1) - 1 = m + i
      BY <1>1
    <3> HIDE DEF m
    <3>2. x[i + 1] = y[m + (i + 1) - 1]
      BY <3>1, <2>8
    <3> QED  BY <3>1, <3>2, <2>11, <2>12
  <2>14. Recent(x) = Recent(y)
    BY <2>11, <2>12, <2>13, SeqEqual
  <2> QED  BY <2>14 DEF x, y, r
<1> QED  BY <1>1, <1>2, <1>3

-----------------------------------------------------------------------------
\* A book of rows: the cache is what was appended last, and once it is loaded it is the
\* end of the store.
Sound(h) ==
    /\ h \in Books
    /\ Len(h.cache) <= MaxHist
    /\ h.store = <<>> => h.cache = <<>>
    /\ h.cache # <<>> => h.cache[Len(h.cache)] = h.store[Len(h.store)]
    /\ h.loaded => h.cache = Recent(h.store)

LEMMA LoadSound ==
    ASSUME NEW h, Sound(h)
    PROVE  Sound(Load(h)) /\ Load(h).store = h.store /\ Load(h).loaded
<1>1. h.store \in Seq(Rows) /\ h.cache \in Seq(Rows) /\ h.loaded \in BOOLEAN
  BY DEF Sound, Books
<1>2. CASE h.loaded
  BY <1>2 DEF Load, Sound
<1>3. CASE ~h.loaded
  <2> DEFINE c == IF h.store = <<>> THEN h.cache ELSE Recent(h.store)
  <2>1. Load(h) = [cache |-> c, loaded |-> TRUE, store |-> h.store]
    BY <1>3 DEF Load, Sound, Books
  <2>2. c = Recent(h.store)
    BY <1>1, RecentRows DEF Sound
  <2> HIDE DEF c
  <2>3. /\ c \in Seq(Rows) /\ Len(c) <= MaxHist
        /\ h.store # <<>> => c # <<>> /\ c[Len(c)] = h.store[Len(h.store)]
        /\ h.store = <<>> => c = <<>>
    BY <2>2, <1>1, RecentRows
  <2>4. Load(h) \in Books
    BY <2>1, <2>3, <1>1 DEF Books
  <2> QED  BY <2>1, <2>2, <2>3, <2>4, <1>1 DEF Sound
<1> QED  BY <1>1, <1>2, <1>3

LEMMA PersistSound ==
    ASSUME NEW h, Sound(h), NEW row \in Rows
    PROVE  Sound(Persist(h, row)) /\ Persist(h, row).store = Append(h.store, row)
<1>1. h.store \in Seq(Rows) /\ h.cache \in Seq(Rows) /\ h.loaded \in BOOLEAN
  BY DEF Sound, Books
<1> DEFINE c == Recent(Append(h.cache, row))
           s == Append(h.store, row)
<1>2. Persist(h, row) = [cache |-> c, loaded |-> h.loaded, store |-> s]
  <2>1. h \in Books
    BY DEF Sound
  <2> HIDE DEF c, s
  <2>2. Persist(h, row) = [h EXCEPT !.cache = c, !.store = s]
    BY DEF Persist, c, s
  <2> QED  BY <2>1, <2>2 DEF Books
<1>3. /\ s \in Seq(Rows) /\ s # <<>> /\ Len(s) = Len(h.store) + 1 /\ s[Len(s)] = row
      /\ Append(h.cache, row) \in Seq(Rows) /\ Append(h.cache, row) # <<>>
      /\ Append(h.cache, row)[Len(Append(h.cache, row))] = row
  BY <1>1, AppendProperties
<1>4. c \in Seq(Rows) /\ Len(c) <= MaxHist /\ c[Len(c)] = row
  BY <1>3, RecentRows
<1>5. h.loaded => c = Recent(s)
  <2> SUFFICES ASSUME h.loaded  PROVE c = Recent(s)
    OBVIOUS
  <2>1. h.cache = Recent(h.store)
    BY DEF Sound
  <2> QED  BY <2>1, <1>1, RecentAppends
<1> HIDE DEF c, s
<1>6. Persist(h, row) \in Books
  BY <1>1, <1>2, <1>3, <1>4 DEF Books
<1>7. Sound(Persist(h, row))
  BY <1>2, <1>3, <1>4, <1>5, <1>6 DEF Sound
<1> QED  BY <1>2, <1>7 DEF s

LEMMA MarkSound ==
    ASSUME NEW h, Sound(h), NEW kind \in RowKinds, NEW t \in Turns
    PROVE  /\ Sound(Mark(h, kind, t))
           /\ \/ /\ Mark(h, kind, t).store = Append(h.store, Row(kind, t))
              \/ /\ Mark(h, kind, t).store = h.store
                 /\ h.store # <<>> /\ h.store[Len(h.store)].kind = kind
<1>1. Row(kind, t) \in Rows
  BY DEF Row, Rows
<1>2. CASE h.cache # <<>> /\ h.cache[Len(h.cache)].kind = kind
  <2>1. Mark(h, kind, t) = h
    BY <1>2 DEF Mark
  <2> QED  BY <2>1, <1>2 DEF Sound
<1>3. CASE ~(h.cache # <<>> /\ h.cache[Len(h.cache)].kind = kind)
  <2>1. Mark(h, kind, t) = Persist(h, Row(kind, t))
    BY <1>3 DEF Mark
  <2> QED  BY <2>1, <1>1, PersistSound
<1> QED  BY <1>2, <1>3

LEMMA ClearedSound == Sound(Cleared) /\ Cleared.store = <<>>
<1>1. <<>> \in Seq(Rows) /\ Len(<<>>) = 0 /\ Recent(<<>>) = <<>>
  BY EmptySeq, RecentRows, TurnAssumption
<1> QED  BY <1>1, TurnAssumption DEF Cleared, Sound, Books

\* What a restart leaves of a book.
LEMMA RestartSound ==
    ASSUME NEW h, Sound(h), NEW g, g = [cache |-> <<>>, loaded |-> FALSE, store |-> h.store]
    PROVE  Sound(g) /\ g.store = h.store
<1>1. h.store \in Seq(Rows) /\ <<>> \in Seq(Rows) /\ Len(<<>>) = 0 /\ MaxHist \in Nat
  BY TurnAssumption, EmptySeq DEF Sound, Books
<1>2. g \in Books
  BY <1>1 DEF Books
<1> QED  BY <1>1, <1>2 DEF Sound

-----------------------------------------------------------------------------
\* What the rows of a history are judged by.
World == [at |-> turnAt, ch |-> chat, infl |-> inflight, supp |-> suppress, can |-> cancel,
          home |-> [c \in Chats |-> HistOf(c)]]

\* Every row is in the history of its turn's chat, and a request is there once its turn runs.
Placed(row, k, w) ==
    row.kind # "mirror" =>
        /\ row.of \in Turns /\ w.at[row.of] # "new" /\ w.ch[row.of] \in Chats
        /\ w.home[w.ch[row.of]] = k
        /\ row.kind = "user" => w.at[row.of] # "starting"

\* A turn whose interruption is marked has lost its place and will not write again.
Marked(row, w) ==
    row.kind = "interrupted" =>
        /\ w.infl[w.ch[row.of]] # row.of
        /\ w.at[row.of] \in Live => row.of \in w.supp /\ w.can[row.of] # "no"

\* A request is followed by something else, or its turn is the one of its chat, or ended
\* without a word; the turns in X are just losing their place.
Followed(s, i, w, X) ==
    \/ s[i].of \in X
    \/ \E m \in DOMAIN s : i < m /\ s[m].kind # "user"
    \/ w.at[s[i].of] \in {"silent", "dead"}
    \/ w.at[s[i].of] \in Live /\ w.infl[w.ch[s[i].of]] = s[i].of

Upheld(s, k, w, X) ==
    /\ \A i \in DOMAIN s : Placed(s[i], k, w) /\ Marked(s[i], w)
    /\ \A i, j \in DOMAIN s :
          s[i].kind = "interrupted" /\ s[j].kind = "interrupted" /\ s[i].of = s[j].of => i = j
    /\ \A i \in DOMAIN s : s[i].kind = "user" => Followed(s, i, w, X)
    /\ \A i, j \in DOMAIN s :
          /\ i < j /\ s[i].kind = "user" /\ s[j].kind = "user"
          /\ w.ch[s[i].of] = w.ch[s[j].of]
          /\ w.at[s[i].of] \notin {"silent", "dead"} /\ w.at[s[j].of] # "blocked"
          => \E m \in i..j : s[m].kind # "user"

\* How a turn may change between two states in which the rows are the same.
Moves(w, v, X) ==
    /\ v.home = w.home
    /\ \A t \in Turns :
          w.at[t] # "new" =>
              /\ v.at[t] # "new" /\ v.ch[t] = w.ch[t]
              /\ v.at[t] = "starting" => w.at[t] = "starting"
              /\ w.infl[w.ch[t]] # t => v.infl[w.ch[t]] # t
              /\ v.at[t] \in Live => /\ w.at[t] \in Live
                                     /\ t \in w.supp => t \in v.supp
                                     /\ w.can[t] # "no" => v.can[t] # "no"
              /\ w.at[t] \in {"silent", "dead", "blocked"} => v.at[t] = w.at[t]
              /\ w.at[t] \in Live \ {"starting"} /\ w.infl[w.ch[t]] = t /\ t \notin X =>
                    \/ v.at[t] \in Live /\ v.infl[w.ch[t]] = t
                    \/ v.at[t] \in {"silent", "dead"}

LEMMA UpheldMoves ==
    ASSUME NEW s \in Seq(Rows), NEW k, NEW w, NEW v, NEW X, Upheld(s, k, w, {}), Moves(w, v, X)
    PROVE  Upheld(s, k, v, X)
<1>1. \A i \in DOMAIN s : s[i] \in Rows
  BY ElementOfSeq
<1>2. \A i \in DOMAIN s : s[i].kind # "mirror" => s[i].of \in Turns /\ w.at[s[i].of] # "new"
  BY DEF Upheld, Placed
<1>3. ASSUME NEW i \in DOMAIN s  PROVE Placed(s[i], k, v) /\ Marked(s[i], v)
  <2>1. Placed(s[i], k, w) /\ Marked(s[i], w)
    BY DEF Upheld
  <2> QED  BY <2>1 DEF Placed, Marked, Moves
<1>4. ASSUME NEW i \in DOMAIN s, s[i].kind = "user"  PROVE Followed(s, i, v, X)
  <2>1. Followed(s, i, w, {}) /\ Placed(s[i], k, w)
    BY <1>4 DEF Upheld
  <2> QED  BY <2>1, <1>2, <1>4 DEF Followed, Placed, Moves
<1>5. ASSUME NEW i \in DOMAIN s, NEW j \in DOMAIN s, i < j, s[i].kind = "user", s[j].kind = "user",
             v.ch[s[i].of] = v.ch[s[j].of],
             v.at[s[i].of] \notin {"silent", "dead"}, v.at[s[j].of] # "blocked"
      PROVE  \E m \in i..j : s[m].kind # "user"
  <2>1. w.ch[s[i].of] = w.ch[s[j].of] /\ w.at[s[i].of] \notin {"silent", "dead"} /\ w.at[s[j].of] # "blocked"
    BY <1>2, <1>5 DEF Moves
  <2> QED  BY <2>1, <1>5 DEF Upheld
<1> QED  BY <1>3, <1>4, <1>5 DEF Upheld

LEMMA UpheldAppends ==
    ASSUME NEW s \in Seq(Rows), NEW k, NEW v, NEW X, NEW row \in Rows, Upheld(s, k, v, X),
           row.kind # "user", Placed(row, k, v), Marked(row, v),
           row.kind = "interrupted" =>
               \A i \in DOMAIN s : s[i].kind = "interrupted" => s[i].of # row.of
    PROVE  Upheld(Append(s, row), k, v, {})
<1> DEFINE y == Append(s, row)
           n == Len(s) + 1
<1>1. /\ y \in Seq(Rows) /\ Len(y) = n /\ \A i \in 1..Len(s) : y[i] = s[i]
      /\ y[n] = row /\ DOMAIN s = 1..Len(s) /\ DOMAIN y = 1..n /\ Len(s) \in Nat
  BY AppendProperties
<1>2. \A i \in DOMAIN y : i \in DOMAIN s \/ i = n
  BY <1>1
<1> HIDE DEF y
<1>3. \A i \in DOMAIN y : Placed(y[i], k, v) /\ Marked(y[i], v)
  BY <1>1, <1>2 DEF Upheld
<1>4. \A i, j \in DOMAIN y :
        y[i].kind = "interrupted" /\ y[j].kind = "interrupted" /\ y[i].of = y[j].of => i = j
  BY <1>1, <1>2 DEF Upheld
<1>5. ASSUME NEW i \in DOMAIN y, y[i].kind = "user"  PROVE Followed(y, i, v, {})
  <2>1. n \in DOMAIN y /\ i < n /\ y[n].kind # "user"
    BY <1>1, <1>5
  <2> QED  BY <2>1 DEF Followed
<1>6. ASSUME NEW i \in DOMAIN y, NEW j \in DOMAIN y, i < j, y[i].kind = "user", y[j].kind = "user",
             v.ch[y[i].of] = v.ch[y[j].of],
             v.at[y[i].of] \notin {"silent", "dead"}, v.at[y[j].of] # "blocked"
      PROVE  \E m \in i..j : y[m].kind # "user"
  <2>1. i \in DOMAIN s /\ j \in DOMAIN s /\ y[i] = s[i] /\ y[j] = s[j]
    BY <1>1, <1>2, <1>6
  <2>2. \E m \in i..j : s[m].kind # "user"
    BY <2>1, <1>6 DEF Upheld
  <2>3. \A m \in i..j : m \in 1..Len(s)
    BY <2>1, <1>1
  <2> QED  BY <2>2, <2>3, <1>1
<1> QED  BY <1>3, <1>4, <1>5, <1>6 DEF Upheld, y

LEMMA UpheldRequest ==
    ASSUME NEW s \in Seq(Rows), NEW k, NEW v, NEW X, NEW u \in Turns, Upheld(s, k, v, {}),
           Placed(Row("user", u), k, v),
           \A i \in DOMAIN s : s[i].kind = "user" => s[i].of # u,
           \/ X = {} /\ v.at[u] \in Live /\ v.infl[v.ch[u]] = u
           \/ X = {u} /\ v.at[u] = "blocked"
    PROVE  Upheld(Append(s, Row("user", u)), k, v, X)
<1> DEFINE row == Row("user", u)
           y == Append(s, row)
           n == Len(s) + 1
<1>0. row \in Rows /\ row.kind = "user" /\ row.of = u
  BY DEF Row, Rows, RowKinds
<1> HIDE DEF row
<1>1. /\ y \in Seq(Rows) /\ Len(y) = n /\ \A i \in 1..Len(s) : y[i] = s[i]
      /\ y[n] = row /\ DOMAIN s = 1..Len(s) /\ DOMAIN y = 1..n /\ Len(s) \in Nat
  BY <1>0, AppendProperties
<1>2. \A i \in DOMAIN y : i \in DOMAIN s \/ i = n
  BY <1>1
<1> HIDE DEF y
<1>3. \A i \in DOMAIN y : Placed(y[i], k, v) /\ Marked(y[i], v)
  <2>1. Placed(row, k, v) /\ Marked(row, v)
    BY <1>0 DEF Marked, row
  <2> QED  BY <2>1, <1>1, <1>2 DEF Upheld
<1>4. \A i, j \in DOMAIN y :
        y[i].kind = "interrupted" /\ y[j].kind = "interrupted" /\ y[i].of = y[j].of => i = j
  BY <1>0, <1>1, <1>2 DEF Upheld
<1>5. ASSUME NEW i \in DOMAIN y, y[i].kind = "user"  PROVE Followed(y, i, v, X)
  <2>1. CASE i = n
    BY <2>1, <1>0, <1>1 DEF Followed
  <2>2. CASE i # n
    <3>1. i \in DOMAIN s /\ y[i] = s[i] /\ Followed(s, i, v, {})
      BY <2>2, <1>1, <1>2, <1>5 DEF Upheld
    <3>2. \A m \in DOMAIN s : m \in DOMAIN y /\ y[m] = s[m]
      BY <1>1
    <3> QED  BY <3>1, <3>2 DEF Followed
  <2> QED  BY <2>1, <2>2
<1>6. ASSUME NEW i \in DOMAIN y, NEW j \in DOMAIN y, i < j, y[i].kind = "user", y[j].kind = "user",
             v.ch[y[i].of] = v.ch[y[j].of],
             v.at[y[i].of] \notin {"silent", "dead"}, v.at[y[j].of] # "blocked"
      PROVE  \E m \in i..j : y[m].kind # "user"
  <2>0. i \in DOMAIN s /\ y[i] = s[i] /\ i \in Nat /\ j \in Nat
    BY <1>1, <1>2, <1>6
  <2>1. CASE j = n
    <3>1. s[i].of # u /\ Followed(s, i, v, {}) /\ v.ch[s[i].of] = v.ch[u]
          /\ v.at[s[i].of] \notin {"silent", "dead"} /\ v.infl[v.ch[u]] = u
      BY <2>0, <2>1, <1>0, <1>1, <1>6 DEF Upheld
    <3>2. PICK m \in DOMAIN s : i < m /\ s[m].kind # "user"
      BY <3>1 DEF Followed
    <3>3. m \in i..j /\ y[m] = s[m]
      BY <3>2, <2>0, <2>1, <1>1
    <3> QED  BY <3>2, <3>3
  <2>2. CASE j # n
    <3>1. j \in DOMAIN s /\ y[j] = s[j]
      BY <2>2, <1>1, <1>2
    <3>2. \E m \in i..j : s[m].kind # "user"
      BY <2>0, <3>1, <1>6 DEF Upheld
    <3>3. \A m \in i..j : m \in 1..Len(s)
      BY <2>0, <3>1, <1>1
    <3> QED  BY <3>2, <3>3, <1>1
  <2> QED  BY <2>1, <2>2
<1> QED  BY <1>3, <1>4, <1>5, <1>6 DEF Upheld, y, row

LEMMA UpheldLast ==
    ASSUME NEW s \in Seq(Rows), NEW k, NEW v, NEW X, Upheld(s, k, v, X),
           s # <<>>, s[Len(s)].kind # "user"
    PROVE  Upheld(s, k, v, {})
<1>1. Len(s) \in DOMAIN s /\ DOMAIN s = 1..Len(s) /\ Len(s) \in Nat
  BY EmptySeq, LenProperties
<1>2. ASSUME NEW i \in DOMAIN s, s[i].kind = "user"  PROVE Followed(s, i, v, {})
  <2>1. i # Len(s) /\ i < Len(s)
    BY <1>1, <1>2
  <2> QED  BY <2>1, <1>1 DEF Followed
<1> QED  BY <1>2 DEF Upheld

LEMMA UpheldEmpty == ASSUME NEW k, NEW v  PROVE Upheld(<<>>, k, v, {})
<1>1. DOMAIN <<>> = {}
  OBVIOUS
<1> QED  BY <1>1 DEF Upheld

\* A marker is written for a turn that has lost its place, or one like it is the last row.
LEMMA UpheldMark ==
    ASSUME NEW h, Sound(h), NEW k, NEW v, NEW X, Upheld(h.store, k, v, X),
           NEW kind \in {"interrupted", "failed"}, NEW t \in Turns,
           Placed(Row(kind, t), k, v), Marked(Row(kind, t), v),
           kind = "interrupted" =>
               \A i \in DOMAIN h.store : h.store[i].kind = "interrupted" => h.store[i].of # t
    PROVE  Upheld(Mark(h, kind, t).store, k, v, {})
<1>1. h.store \in Seq(Rows) /\ kind \in RowKinds
  BY DEF Sound, Books, RowKinds
<1>2. Row(kind, t) \in Rows /\ Row(kind, t).kind = kind /\ Row(kind, t).of = t
  BY <1>1 DEF Row, Rows
<1>3. CASE Mark(h, kind, t).store = Append(h.store, Row(kind, t))
  BY <1>1, <1>2, <1>3, UpheldAppends
<1>4. CASE /\ Mark(h, kind, t).store = h.store
           /\ h.store # <<>> /\ h.store[Len(h.store)].kind = kind
  BY <1>1, <1>4, UpheldLast
<1> QED  BY <1>1, <1>3, <1>4, MarkSound

-----------------------------------------------------------------------------
TaskTypes ==
    /\ turnAt \in [Turns -> {"new", "dead"} \cup Live \cup Ended]
    /\ chat \in [Turns -> Chats \cup {NoTurn}]
    /\ cancel \in [Turns -> {"no", "pending", "swallowed"}]
    /\ inflight \in [Chats -> Turns \cup {NoTurn}]
    /\ keyed \in [Chats -> BOOLEAN]
    /\ suppress \subseteq Turns
    /\ {strict, streaming} \subseteq BOOLEAN

\* A live turn is the one of its chat, or it was told to stop by whoever took its place,
\* who wrote the marker.
PlacesHeld ==
    /\ \A c \in Chats : inflight[c] # NoTurn => chat[inflight[c]] = c /\ turnAt[inflight[c]] # "new"
    /\ \A t \in Turns : turnAt[t] # "new" => chat[t] \in Chats
    /\ \A t \in Turns : turnAt[t] \in Live => inflight[chat[t]] = t \/ (t \in suppress /\ cancel[t] # "no")
    /\ \A t \in suppress : turnAt[t] # "new" /\ inflight[chat[t]] # t
    /\ \A t \in Turns : turnAt[t] \in Live \ {"starting"} /\ inflight[chat[t]] = t => keyed[chat[t]]

\* Without the streaming card no cancellation is swallowed.
PlainStops ==
    ~streaming => \A t \in Turns : /\ turnAt[t] \notin {"starting", "winding"}
                                   /\ cancel[t] # "swallowed"
                                   /\ turnAt[t] = "answered" => cancel[t] = "no"

TasksInv == TaskTypes /\ PlacesHeld /\ PlainStops

LEMMA TasksStart == TurnInit => TasksInv
<1> QED  BY TurnAssumption DEF TurnInit, TasksInv, TaskTypes, PlacesHeld, PlainStops, Live, Ended

LEMMA ReplacedTurns ==
    ASSUME TasksInv, NEW c \in Chats
    PROVE  /\ Replaced(c) \subseteq Turns
           /\ \A r \in Replaced(c) : r = inflight[c] /\ turnAt[r] \in Live /\ chat[r] = c
           /\ inflight[c] # NoTurn /\ turnAt[inflight[c]] \in Live => Replaced(c) = {inflight[c]}
<1> QED  BY DEF TasksInv, TaskTypes, PlacesHeld, Replaced

LEMMA ArriveTasks ==
    ASSUME TasksInv, NEW t \in Turns, NEW c \in Chats, Arrive(t, c)
    PROVE  TasksInv'
<1>1. /\ turnAt[t] = "new" /\ chat' = [chat EXCEPT ![t] = c]
      /\ cancel' = [r \in Turns |-> IF r \in Replaced(c) THEN "pending" ELSE cancel[r]]
      /\ suppress' = suppress \cup Replaced(c) /\ inflight' = [inflight EXCEPT ![c] = t]
      /\ turnAt' = [turnAt EXCEPT ![t] = IF streaming THEN "starting" ELSE "running"]
      /\ keyed' = (IF streaming THEN keyed ELSE [keyed EXCEPT ![c] = TRUE])
      /\ UNCHANGED switches
  <2>1. CASE streaming
    BY <2>1 DEF Arrive
  <2>2. CASE ~streaming
    <3>1. turnAt' = [turnAt EXCEPT ![t] = "running"] /\ keyed' = [keyed EXCEPT ![c] = @ \/ TRUE]
      BY <2>2 DEF Arrive, Begun
    <3>2. [keyed EXCEPT ![c] = @ \/ TRUE] = [keyed EXCEPT ![c] = TRUE]
      BY DEF TasksInv, TaskTypes
    <3> QED  BY <2>2, <3>1, <3>2 DEF Arrive
  <2> QED  BY <2>1, <2>2
<1>2. PICK R : R = Replaced(c)
  OBVIOUS
<1>3. /\ R \subseteq Turns /\ \A r \in R : r = inflight[c] /\ turnAt[r] \in Live /\ chat[r] = c
      /\ inflight[c] # NoTurn /\ turnAt[inflight[c]] \in Live => R = {inflight[c]}
  BY <1>2, ReplacedTurns
<1>4. TaskTypes'
  BY <1>1, <1>2, <1>3 DEF TasksInv, TaskTypes, switches, Live
<1>5. t \notin suppress /\ inflight[c] # t /\ \A d \in Chats : inflight[d] # t
  BY <1>1, TurnAssumption DEF TasksInv, TaskTypes, PlacesHeld
<1>6. PlacesHeld'
  BY <1>1, <1>2, <1>3, <1>5, TurnAssumption DEF TasksInv, TaskTypes, PlacesHeld, switches, Live
<1>7. PlainStops'
  BY <1>1, <1>2, <1>3 DEF TasksInv, TaskTypes, PlainStops, switches, Live
<1> QED  BY <1>4, <1>6, <1>7 DEF TasksInv

LEMMA CancelTasks ==
    ASSUME TasksInv, NEW c \in Chats, CancelInflight(c), UNCHANGED <<turnAt, chat, switches>>
    PROVE  TasksInv'
<1>2. PICK R : R = Replaced(c)
  OBVIOUS
<1>3. /\ R \subseteq Turns /\ \A r \in R : r = inflight[c] /\ turnAt[r] \in Live /\ chat[r] = c
      /\ inflight[c] # NoTurn /\ turnAt[inflight[c]] \in Live => R = {inflight[c]}
  BY <1>2, ReplacedTurns
<1>4. TaskTypes'
  BY <1>2, <1>3 DEF TasksInv, TaskTypes, CancelInflight, switches
<1>6. PlacesHeld'
  BY <1>2, <1>3, TurnAssumption DEF TasksInv, TaskTypes, PlacesHeld, CancelInflight, switches, Live
<1>7. PlainStops'
  BY <1>2, <1>3 DEF TasksInv, TaskTypes, PlainStops, CancelInflight, switches, Live
<1> QED  BY <1>4, <1>6, <1>7 DEF TasksInv

LEMMA EndTasks ==
    ASSUME TasksInv, NEW t \in Turns, NEW e \in Ended, turnAt[t] \in Live,
           e = "answered" => cancel[t] # "pending",
           turnAt' = [turnAt EXCEPT ![t] = e], Finally(t), UNCHANGED <<chat, cancel, switches>>
    PROVE  TasksInv'
<1>1. chat[t] \in Chats
  BY DEF TasksInv, PlacesHeld, Live
<1>2. TaskTypes'
  BY <1>1 DEF TasksInv, TaskTypes, Finally, switches
<1>3. PlacesHeld'
  BY <1>1, TurnAssumption DEF TasksInv, TaskTypes, PlacesHeld, Finally, switches, Live, Ended
<1>4. PlainStops'
  BY DEF TasksInv, TaskTypes, PlainStops, switches, Live, Ended
<1> QED  BY <1>2, <1>3, <1>4 DEF TasksInv

LEMMA TasksInductive == TasksInv /\ [TurnNext]_turnVars => TasksInv'
<1> SUFFICES ASSUME TasksInv, [TurnNext]_turnVars  PROVE TasksInv'
  OBVIOUS
<1>1. ASSUME NEW t \in Turns, NEW c \in Chats, Arrive(t, c)  PROVE TasksInv'
  BY <1>1, ArriveTasks
<1>2. ASSUME NEW t \in Turns, NEW c \in Chats, VisionBlocked(t, c)  PROVE TasksInv'
  <2>1. /\ turnAt[t] = "new" /\ chat' = [chat EXCEPT ![t] = c]
        /\ turnAt' = [turnAt EXCEPT ![t] = "blocked"] /\ UNCHANGED <<cancel, mapVars, switches>>
    BY <1>2 DEF VisionBlocked
  <2> QED  BY <2>1, TurnAssumption DEF TasksInv, TaskTypes, PlacesHeld, PlainStops, mapVars, switches, Live, Ended
<1>3. ASSUME NEW t \in Turns, Started(t)  PROVE TasksInv'
  <2>1. /\ turnAt[t] = "starting" /\ cancel[t] = "no"
        /\ turnAt' = [turnAt EXCEPT ![t] = "running"]
        /\ keyed' = [keyed EXCEPT ![chat[t]] = @ \/ inflight[chat[t]] = t]
        /\ UNCHANGED <<chat, cancel, inflight, suppress, switches>>
    BY <1>3 DEF Started, Begun
  <2>2. chat[t] \in Chats /\ inflight[chat[t]] = t
    BY <2>1 DEF TasksInv, PlacesHeld, Live
  <2>3. keyed' = [keyed EXCEPT ![chat[t]] = TRUE]
    BY <2>1, <2>2 DEF TasksInv, TaskTypes
  <2>4. TaskTypes' /\ PlacesHeld'
    BY <2>1, <2>2, <2>3 DEF TasksInv, TaskTypes, PlacesHeld, switches, Live
  <2>5. PlainStops'
    BY <2>1 DEF TasksInv, TaskTypes, PlainStops, switches
  <2> QED  BY <2>4, <2>5 DEF TasksInv
<1>4. ASSUME NEW t \in Turns, StartCancelled(t)  PROVE TasksInv'
  BY <1>4 DEF StartCancelled, TasksInv, TaskTypes, PlacesHeld, PlainStops, mapVars, switches, Live, Ended
<1>5. ASSUME NEW t \in Turns, AgentEnds(t)  PROVE TasksInv'
  BY <1>5 DEF AgentEnds, TasksInv, TaskTypes, PlacesHeld, PlainStops, mapVars, switches, Live, Ended
<1>6. ASSUME NEW t \in Turns, HeartbeatStopped(t)  PROVE TasksInv'
  BY <1>6 DEF HeartbeatStopped, TasksInv, TaskTypes, PlacesHeld, PlainStops, mapVars, switches, Live, Ended
<1>7. ASSUME NEW t \in Turns, NEW silent \in BOOLEAN, Answer(t, silent)  PROVE TasksInv'
  <2>1. PICK e \in Ended : /\ e = (IF silent THEN "silent" ELSE "answered")
                           /\ turnAt' = [turnAt EXCEPT ![t] = e]
    BY <1>7 DEF Answer, Ended
  <2> QED  BY <2>1, <1>7, EndTasks DEF Answer, Live
<1>8. ASSUME NEW t \in Turns, Cancelled(t) \/ Rejected(t) \/ Failed(t)  PROVE TasksInv'
  <2>1. PICK e \in Ended : e # "answered" /\ turnAt' = [turnAt EXCEPT ![t] = e]
    BY <1>8 DEF Cancelled, Rejected, Failed, Ended
  <2> QED  BY <2>1, <1>8, EndTasks DEF Cancelled, Rejected, Failed, Live
<1>9. ASSUME NEW t \in Turns, Shutdown(t)  PROVE TasksInv'
  BY <1>9 DEF Shutdown, TasksInv, TaskTypes, PlacesHeld, PlainStops, mapVars, switches, Live, Ended
<1>10. ASSUME NEW c \in Chats, Stop(c) \/ New(c)  PROVE TasksInv'
  BY <1>10, CancelTasks DEF Stop, New
<1>11. CASE WebNew \/ Mirror \/ UNCHANGED turnVars
  BY <1>11 DEF WebNew, Mirror, turnVars, TasksInv, TaskTypes, PlacesHeld, PlainStops, taskVars, mapVars, switches
<1>12. CASE Crash
  <2>1. TaskTypes' /\ PlacesHeld'
    BY <1>12, TurnAssumption DEF Crash, TasksInv, TaskTypes, PlacesHeld, switches, Live, Ended
  <2>2. PlainStops'
    BY <1>12 DEF Crash, TasksInv, TaskTypes, PlainStops, switches, Live
  <2> QED  BY <2>1, <2>2 DEF TasksInv
<1> QED  BY <1>1, <1>2, <1>3, <1>4, <1>5, <1>6, <1>7, <1>8, <1>9, <1>10, <1>11, <1>12 DEF TurnNext, TurnStep

-----------------------------------------------------------------------------
\* The histories, whatever the place of their turns.
BooksKept == \A k \in Hists : Sound(hist[k]) /\ Upheld(hist[k].store, k, World, {})

TurnInv == TasksInv /\ hist \in [Hists -> Books] /\ BooksKept

LEMMA WorldIs ==
    /\ World.at = turnAt /\ World.ch = chat /\ World.infl = inflight
    /\ World.supp = suppress /\ World.can = cancel
    /\ \A c \in Chats : World.home[c] = HistOf(c)
<1> QED  BY DEF World

LEMMA WorldIsNext ==
    /\ World'.at = turnAt' /\ World'.ch = chat' /\ World'.infl = inflight'
    /\ World'.supp = suppress' /\ World'.can = cancel'
    /\ \A c \in Chats : World'.home[c] = HistOf(c)'
<1> QED  BY DEF World

LEMMA HistPlaces == \A c \in Chats : HistOf(c) \in Hists
<1> QED  BY TurnAssumption DEF HistOf

LEMMA SameHomes ==
    ASSUME UNCHANGED switches
    PROVE  World'.home = World.home /\ \A c \in Chats : HistOf(c)' = HistOf(c)
<1>1. \A c \in Chats : HistOf(c)' = HistOf(c)
  BY DEF HistOf, switches
<1>2. World'.home = [c \in Chats |-> HistOf(c)'] /\ World.home = [c \in Chats |-> HistOf(c)]
  BY DEF World
<1> QED  BY <1>1, <1>2

\* What stays of the histories when turns move; X lost their places, in the histories Y.
LEMMA BooksMove ==
    ASSUME TurnInv, NEW X, Moves(World, World', X), NEW k \in Hists
    PROVE  /\ Sound(hist[k]) /\ Upheld(hist[k].store, k, World', X)
           /\ (\A x \in X : World'.home[World'.ch[x]] # k) => Upheld(hist[k].store, k, World', {})
<1>1. PICK s, w, v : s = hist[k].store /\ w = World /\ v = World'
  OBVIOUS
<1>2. Sound(hist[k]) /\ Upheld(s, k, w, {}) /\ s \in Seq(Rows) /\ Moves(w, v, X)
  BY <1>1 DEF TurnInv, BooksKept, Sound, Books
<1>3. Upheld(s, k, v, X)
  BY <1>2, UpheldMoves
<1>4. ASSUME \A x \in X : v.home[v.ch[x]] # k  PROVE Upheld(s, k, v, {})
  <2>1. ASSUME NEW i \in DOMAIN s, s[i].kind = "user"  PROVE Followed(s, i, v, {})
    <3>1. Placed(s[i], k, v) /\ Followed(s, i, v, X)
      BY <1>3, <2>1 DEF Upheld
    <3>2. s[i].of \notin X
      BY <3>1, <2>1, <1>4 DEF Placed
    <3> QED  BY <3>1, <3>2 DEF Followed
  <2> QED  BY <1>3, <2>1 DEF Upheld
<1> QED  BY <1>1, <1>2, <1>3, <1>4

\* One history changes; the others keep their rows.
LEMMA OneBook ==
    ASSUME TurnInv, TasksInv', NEW X, Moves(World, World', X), NEW k \in Hists, NEW g,
           \A x \in X : World'.home[World'.ch[x]] = k,
           \A j \in Hists : hist'[j] = IF j = k THEN g ELSE hist[j],
           hist' \in [Hists -> Books], Sound(g), Upheld(g.store, k, World', {})
    PROVE  TurnInv'
<1>2. ASSUME NEW j \in Hists  PROVE Sound(hist'[j]) /\ Upheld(hist'[j].store, j, World', {})
  <2>1. CASE j = k
    BY <2>1
  <2>2. CASE j # k
    BY <2>2, BooksMove
  <2> QED  BY <2>1, <2>2
<1>3. BooksKept'
  BY <1>2 DEF BooksKept
<1> QED  BY <1>3 DEF TurnInv

LEMMA BookChanges ==
    ASSUME NEW f \in [Hists -> Books], NEW k \in Hists, NEW g, Sound(g)
    PROVE  /\ [f EXCEPT ![k] = g] \in [Hists -> Books]
           /\ \A j \in Hists : [f EXCEPT ![k] = g][j] = IF j = k THEN g ELSE f[j]
<1> QED  BY DEF Sound

\* No history changes and nobody loses a place that matters.
LEMMA NoBook ==
    ASSUME TurnInv, TasksInv', Moves(World, World', {}), hist' = hist
    PROVE  TurnInv'
<1>1. ASSUME NEW j \in Hists  PROVE Sound(hist'[j]) /\ Upheld(hist'[j].store, j, World', {})
  BY BooksMove
<1>2. BooksKept'
  BY <1>1 DEF BooksKept
<1> QED  BY <1>2 DEF TurnInv

LEMMA RowIs ==
    \A kind \in RowKinds, t \in Turns \cup {NoTurn} :
        Row(kind, t) \in Rows /\ Row(kind, t).kind = kind /\ Row(kind, t).of = t
<1> QED  BY DEF Row, Rows

LEMMA TurnStarts == TurnInit => TurnInv
<1> SUFFICES ASSUME TurnInit  PROVE TurnInv
  OBVIOUS
<1>1. hist = [k \in Hists |-> Cleared]
  BY DEF TurnInit
<1>2. PICK w : w = World
  OBVIOUS
<1>3. Cleared \in Books
  BY ClearedSound DEF Sound
<1>4. \A k \in Hists : Sound(hist[k]) /\ Upheld(hist[k].store, k, w, {})
  BY <1>1, ClearedSound, UpheldEmpty
<1> QED  BY <1>1, <1>2, <1>3, <1>4, TasksStart DEF TurnInv, BooksKept

-----------------------------------------------------------------------------
\* A turn leaves its live states; the exempt one of them is t itself.
LEMMA EndMoves ==
    ASSUME TurnInv, NEW t \in Turns, NEW e \in Ended, turnAt[t] \in Live,
           turnAt' = [turnAt EXCEPT ![t] = e], Finally(t), UNCHANGED <<chat, cancel, switches>>
    PROVE  /\ Moves(World, World', {t})
           /\ e = "silent" \/ turnAt[t] = "starting" \/ t \in suppress => Moves(World, World', {})
<1> USE DEF TurnInv, TasksInv
<1>1. chat[t] \in Chats /\ (t \in suppress => inflight[chat[t]] # t)
  BY DEF PlacesHeld, Live
<1>2. /\ \A u \in Turns : turnAt'[u] = IF u = t THEN e ELSE turnAt[u]
      /\ chat' = chat /\ cancel' = cancel
      /\ \A u \in suppress : u # t => u \in suppress'
      /\ \A c \in Chats : inflight'[c] = inflight[c] \/ (inflight[c] = t /\ inflight'[c] = NoTurn)
  BY <1>1 DEF TaskTypes, Finally
<1>3. \A u \in Turns : turnAt[u] # "new" => chat[u] \in Chats
  BY DEF PlacesHeld
<1>4. e \notin Live /\ e \notin {"new", "starting", "dead"} /\ turnAt[t] \notin {"silent", "dead", "blocked", "new"}
  BY DEF Ended, Live
<1>5. NoTurn \notin Turns
  BY TurnAssumption
<1>6. Moves(World, World', {t})
  BY <1>1, <1>2, <1>3, <1>4, <1>5, WorldIs, WorldIsNext, SameHomes DEF Moves
<1>7. ASSUME e = "silent" \/ turnAt[t] = "starting" \/ t \in suppress  PROVE Moves(World, World', {})
  BY <1>1, <1>2, <1>3, <1>4, <1>5, <1>7, WorldIs, WorldIsNext, SameHomes DEF Moves
<1> QED  BY <1>6, <1>7

LEMMA AnswerKeeps ==
    ASSUME TurnInv, TasksInv', NEW t \in Turns, NEW silent \in BOOLEAN, Answer(t, silent)
    PROVE  TurnInv'
<1>1. PICK e \in Ended : /\ e = (IF silent THEN "silent" ELSE "answered")
                         /\ turnAt' = [turnAt EXCEPT ![t] = e]
  BY DEF Answer, Ended
<1>2. turnAt[t] \in Live /\ Finally(t) /\ UNCHANGED <<chat, cancel, switches>>
  BY DEF Answer, Live
<1>3. CASE silent
  <2>1. hist' = hist /\ e = "silent"
    BY <1>1, <1>3 DEF Answer
  <2> QED  BY <2>1, <1>1, <1>2, EndMoves, NoBook
<1>4. CASE ~silent
  <2>1. Moves(World, World', {t})
    BY <1>1, <1>2, EndMoves
  <2>2. chat[t] \in Chats /\ turnAt[t] # "new"
    BY <1>2 DEF TurnInv, TasksInv, PlacesHeld, Live
  <2>3. PICK k \in Hists : k = HistOf(chat[t])
    BY <2>2, HistPlaces
  <2>4. PICK row \in Rows : row = Row("answer", t) /\ row.kind = "answer" /\ row.of = t
    BY RowIs DEF RowKinds
  <2>5. PICK g : g = Persist(hist[k], row) /\ hist' = [hist EXCEPT ![k] = g]
    BY <1>4, <2>3, <2>4 DEF Answer
  <2>6. PICK h : h = hist[k]
    OBVIOUS
  <2>7. PICK v : v = World'
    OBVIOUS
  <2>8. Sound(h) /\ Upheld(h.store, k, v, {t}) /\ h.store \in Seq(Rows)
    BY <2>1, <2>6, <2>7, BooksMove DEF Sound, Books
  <2>9. v.home[v.ch[t]] = k /\ v.at[t] = e /\ v.ch[t] \in Chats
    BY <2>2, <2>3, <2>7, <1>1, <1>2, WorldIsNext, SameHomes DEF TurnInv, TasksInv, TaskTypes
  <2>10. Placed(row, k, v) /\ Marked(row, v)
    BY <2>4, <2>9, <1>1 DEF Placed, Marked, Ended
  <2>11. Sound(g) /\ g.store = Append(h.store, row)
    BY <2>5, <2>6, <2>8, PersistSound
  <2>12. Upheld(g.store, k, v, {})
    BY <2>4, <2>8, <2>10, <2>11, UpheldAppends
  <2>13. \A x \in {t} : World'.home[World'.ch[x]] = k
    BY <2>7, <2>9
  <2>14. Upheld(g.store, k, World', {})
    BY <2>7, <2>12
  <2>15. hist' \in [Hists -> Books] /\ \A j \in Hists : hist'[j] = IF j = k THEN g ELSE hist[j]
    BY <2>5, <2>11, BookChanges DEF TurnInv
  <2>16. PICK X : X = {t}
    OBVIOUS
  <2>17. Moves(World, World', X) /\ \A x \in X : World'.home[World'.ch[x]] = k
    BY <2>1, <2>13, <2>16
  <2> HIDE DEF TurnInv
  <2>18. \A j \in Hists : hist'[j] = IF j = k THEN g ELSE hist[j]
    BY <2>15
  <2>19. hist' \in [Hists -> Books]
    BY <2>15
  <2>20. Sound(g)
    BY <2>11
  <2> QED  BY ONLY <2>17, <2>18, <2>19, <2>20, <2>14, OneBook, TurnInv, TasksInv', k \in Hists
<1> QED  BY <1>3, <1>4

-----------------------------------------------------------------------------
\* A turn that ends: its history, and a row of it there.
LEMMA EndingTurn ==
    ASSUME TurnInv, NEW t \in Turns, NEW e \in Ended, turnAt[t] \in Live,
           turnAt' = [turnAt EXCEPT ![t] = e], Finally(t), UNCHANGED <<chat, cancel, switches>>
    PROVE  /\ chat[t] \in Chats /\ HistOf(chat[t]) \in Hists
           /\ World'.home[World'.ch[t]] = HistOf(chat[t])
           /\ World'.infl[World'.ch[t]] # t /\ World'.at[t] = e /\ World'.ch[t] \in Chats
<1>1. chat[t] \in Chats
  BY DEF TurnInv, TasksInv, PlacesHeld, Live
<1>2. inflight'[chat[t]] # t
  BY <1>1, TurnAssumption DEF TurnInv, TasksInv, TaskTypes, Finally
<1> QED  BY <1>1, <1>2, HistPlaces, WorldIsNext, SameHomes DEF TurnInv, TasksInv, TaskTypes

\* It leaves a marker unless it was replaced, whose marker others wrote.
LEMMA MarkEnds ==
    ASSUME TurnInv, NEW t \in Turns, NEW e \in Ended, turnAt[t] \in Live,
           turnAt' = [turnAt EXCEPT ![t] = e], Finally(t), UNCHANGED <<chat, cancel, switches>>,
           NEW kind \in {"interrupted", "failed"}, kind = "interrupted" => t \notin suppress,
           NEW k \in Hists, k = HistOf(chat[t])
    PROVE  /\ Sound(Mark(hist[k], kind, t))
           /\ Upheld(Mark(hist[k], kind, t).store, k, World', {})
<1>1. PICK h, v, X : h = hist[k] /\ v = World' /\ X = {t}
  OBVIOUS
<1>2. Moves(World, World', {t})
  BY EndMoves
<1>3. Sound(h) /\ Upheld(h.store, k, v, X)
  <2>1. Moves(World, World', X)
    BY <1>1, <1>2
  <2> QED  BY <1>1, <2>1, BooksMove
<1>4. v.home[v.ch[t]] = k /\ v.infl[v.ch[t]] # t /\ v.at[t] = e /\ v.ch[t] \in Chats
  BY <1>1, EndingTurn
<1>5. Row(kind, t).kind = kind /\ Row(kind, t).of = t /\ kind \in RowKinds
  BY RowIs DEF RowKinds
<1>6. Placed(Row(kind, t), k, v) /\ Marked(Row(kind, t), v)
  <2>1. e \notin Live /\ e # "new"
    BY DEF Ended, Live
  <2> QED  BY <2>1, <1>4, <1>5 DEF Placed, Marked
<1>7. kind = "interrupted" =>
        \A i \in DOMAIN h.store : h.store[i].kind = "interrupted" => h.store[i].of # t
  <2>1. PICK w : w = World
    OBVIOUS
  <2>2. Upheld(h.store, k, w, {}) /\ w.at = turnAt /\ w.supp = suppress
    BY <1>1, <2>1, WorldIs DEF TurnInv, BooksKept
  <2> QED  BY <2>2 DEF Upheld, Marked
<1>8. Upheld(Mark(h, kind, t).store, k, v, {})
  BY ONLY <1>3, <1>6, <1>7, UpheldMark, k \in Hists, t \in Turns, kind \in {"interrupted", "failed"}
<1>9. Sound(Mark(h, kind, t))
  BY <1>3, <1>5, MarkSound
<1> QED  BY <1>1, <1>8, <1>9

\* A turn ends and its history changes.
LEMMA EndBook ==
    ASSUME TurnInv, TasksInv', NEW t \in Turns, NEW e \in Ended, turnAt[t] \in Live,
           turnAt' = [turnAt EXCEPT ![t] = e], Finally(t), UNCHANGED <<chat, cancel, switches>>,
           NEW k \in Hists, k = HistOf(chat[t]), NEW g, Sound(g), Upheld(g.store, k, World', {}),
           hist' \in [Hists -> Books], \A j \in Hists : hist'[j] = IF j = k THEN g ELSE hist[j]
    PROVE  TurnInv'
<1>1. PICK X : X = {t}
  OBVIOUS
<1>2. Moves(World, World', {t}) /\ World'.home[World'.ch[t]] = k
  BY EndMoves, EndingTurn
<1>3. Moves(World, World', X) /\ \A x \in X : World'.home[World'.ch[x]] = k
  BY <1>1, <1>2
<1> QED  BY ONLY <1>3, OneBook, TurnInv, TasksInv', k \in Hists, Sound(g), Upheld(g.store, k, World', {}),
                hist' \in [Hists -> Books], \A j \in Hists : hist'[j] = IF j = k THEN g ELSE hist[j]

LEMMA CancelledKeeps ==
    ASSUME TurnInv, TasksInv', NEW t \in Turns, Cancelled(t)
    PROVE  TurnInv'
<1>1. PICK e \in Ended : e = "interrupted" /\ turnAt' = [turnAt EXCEPT ![t] = e]
  BY DEF Cancelled, Ended
<1>2. turnAt[t] \in Live /\ Finally(t) /\ UNCHANGED <<chat, cancel, switches>>
  BY DEF Cancelled, Live
<1>3. CASE t \in suppress
  <2>1. hist' = hist
    BY <1>3 DEF Cancelled
  <2> QED  BY <2>1, <1>1, <1>2, <1>3, EndMoves, NoBook
<1>4. CASE t \notin suppress
  <2>1. PICK k \in Hists : k = HistOf(chat[t])
    BY <1>1, <1>2, EndingTurn
  <2>2. PICK g : g = Mark(hist[k], "interrupted", t) /\ hist' = [hist EXCEPT ![k] = g]
    BY <1>4, <2>1 DEF Cancelled
  <2>3. Sound(g) /\ Upheld(g.store, k, World', {})
    BY <1>1, <1>2, <1>4, <2>1, <2>2, MarkEnds
  <2>4. hist' \in [Hists -> Books] /\ \A j \in Hists : hist'[j] = IF j = k THEN g ELSE hist[j]
    BY <2>2, <2>3, BookChanges DEF TurnInv
  <2> QED  BY <1>1, <1>2, <2>1, <2>3, <2>4, EndBook
<1> QED  BY <1>3, <1>4

LEMMA FailedKeeps ==
    ASSUME TurnInv, TasksInv', NEW t \in Turns, Failed(t) \/ Rejected(t)
    PROVE  TurnInv'
<1>1. PICK e \in Ended : e = "failed" /\ turnAt' = [turnAt EXCEPT ![t] = e]
  BY DEF Failed, Rejected, Ended
<1>2. turnAt[t] \in Live /\ Finally(t) /\ UNCHANGED <<chat, cancel, switches>>
  BY DEF Failed, Rejected, Live
<1>3. PICK k \in Hists : k = HistOf(chat[t])
  BY <1>1, <1>2, EndingTurn
<1>4. PICK m : m = Mark(hist[k], "failed", t)
  OBVIOUS
<1>5. Sound(m) /\ Upheld(m.store, k, World', {})
  BY <1>1, <1>2, <1>3, <1>4, MarkEnds
<1>6. CASE Failed(t)
  <2>1. hist' = [hist EXCEPT ![k] = m]
    BY <1>3, <1>4, <1>6 DEF Failed
  <2>2. hist' \in [Hists -> Books] /\ \A j \in Hists : hist'[j] = IF j = k THEN m ELSE hist[j]
    BY <2>1, <1>5, BookChanges DEF TurnInv
  <2> QED  BY <1>1, <1>2, <1>3, <1>5, <2>2, EndBook
<1>7. CASE Rejected(t)
  <2>1. PICK row \in Rows : row = Row("retry", t) /\ row.kind = "retry" /\ row.of = t
    BY RowIs DEF RowKinds
  <2>2. PICK g : g = Persist(m, row) /\ hist' = [hist EXCEPT ![k] = g]
    BY <1>3, <1>4, <1>7, <2>1 DEF Rejected
  <2>3. Sound(g) /\ g.store = Append(m.store, row)
    BY <1>5, <2>2, PersistSound
  <2>4. PICK v : v = World'
    OBVIOUS
  <2>5. v.home[v.ch[t]] = k /\ v.at[t] = e /\ v.ch[t] \in Chats
    BY <1>1, <1>2, <1>3, <2>4, EndingTurn
  <2>6. Placed(row, k, v) /\ Marked(row, v) /\ m.store \in Seq(Rows)
    BY <1>1, <1>5, <2>1, <2>5 DEF Placed, Marked, Sound, Books
  <2>7. Upheld(g.store, k, World', {})
    BY <1>5, <2>1, <2>3, <2>4, <2>6, UpheldAppends
  <2>8. hist' \in [Hists -> Books] /\ \A j \in Hists : hist'[j] = IF j = k THEN g ELSE hist[j]
    BY <2>2, <2>3, BookChanges DEF TurnInv
  <2> QED  BY <1>1, <1>2, <1>3, <2>3, <2>7, <2>8, EndBook
<1> QED  BY <1>6, <1>7

-----------------------------------------------------------------------------
\* A turn begins on a history that has no request of it yet.
LEMMA Begins ==
    ASSUME NEW h, Sound(h), NEW k, NEW v, NEW t \in Turns, Upheld(h.store, k, v, {}),
           v.at[t] = "running", v.infl[v.ch[t]] = t, v.ch[t] \in Chats, v.home[v.ch[t]] = k,
           \A i \in DOMAIN h.store : h.store[i].kind = "user" => h.store[i].of # t
    PROVE  LET g == Persist(Load(h), Row("user", t)) IN Sound(g) /\ Upheld(g.store, k, v, {})
<1>1. PICK row \in Rows : row = Row("user", t) /\ row.kind = "user" /\ row.of = t
  BY RowIs DEF RowKinds
<1>2. Sound(Load(h)) /\ Load(h).store = h.store /\ h.store \in Seq(Rows)
  BY LoadSound DEF Sound, Books
<1>3. PICK g : g = Persist(Load(h), row)
  OBVIOUS
<1>4. Sound(g) /\ g.store = Append(h.store, row)
  BY <1>2, <1>3, PersistSound
<1>5. Placed(row, k, v) /\ v.at[t] \in Live
  BY <1>1 DEF Placed, Live
<1>6. Upheld(g.store, k, v, {})
  BY <1>1, <1>2, <1>4, <1>5, UpheldRequest
<1> QED  BY <1>1, <1>3, <1>4, <1>6

\* Before it runs a turn has no request in any history.
LEMMA NoRequestYet ==
    ASSUME TurnInv, NEW t \in Turns, turnAt[t] \in {"new", "starting"}, NEW k \in Hists
    PROVE  \A i \in DOMAIN hist[k].store : hist[k].store[i].kind = "user" => hist[k].store[i].of # t
<1>1. PICK w : w = World
  OBVIOUS
<1>2. Upheld(hist[k].store, k, w, {}) /\ w.at = turnAt
  BY <1>1, WorldIs DEF TurnInv, BooksKept
<1> QED  BY <1>2 DEF Upheld, Placed

LEMMA ArriveMoves ==
    ASSUME TurnInv, NEW t \in Turns, NEW c \in Chats, Arrive(t, c), NEW X,
           X = IF keyed[c] THEN Replaced(c) ELSE {}
    PROVE  /\ Moves(World, World', X)
           /\ \A x \in X : x \in Turns /\ World'.home[World'.ch[x]] = HistOf(c)
           /\ World'.at[t] = (IF streaming THEN "starting" ELSE "running")
           /\ World'.ch[t] = c /\ World'.infl[c] = t /\ World'.home[c] = HistOf(c)
<1> USE DEF TurnInv, TasksInv
<1>1. /\ turnAt[t] = "new" /\ chat' = [chat EXCEPT ![t] = c]
      /\ cancel' = [r \in Turns |-> IF r \in Replaced(c) THEN "pending" ELSE cancel[r]]
      /\ suppress' = suppress \cup Replaced(c) /\ inflight' = [inflight EXCEPT ![c] = t]
      /\ UNCHANGED switches
  BY DEF Arrive
<1>2. turnAt' = [turnAt EXCEPT ![t] = IF streaming THEN "starting" ELSE "running"]
  BY DEF Arrive, Begun
<1>3. PICK R : R = Replaced(c)
  OBVIOUS
<1>4. /\ R \subseteq Turns /\ \A r \in R : r = inflight[c] /\ turnAt[r] \in Live /\ chat[r] = c
      /\ inflight[c] # NoTurn /\ turnAt[inflight[c]] \in Live => R = {inflight[c]}
  BY <1>3, ReplacedTurns
<1>5. \A u \in Turns : turnAt[u] # "new" => chat[u] \in Chats
  BY DEF PlacesHeld
<1>6. /\ \A u \in Turns : u # t => turnAt'[u] = turnAt[u] /\ chat'[u] = chat[u]
      /\ \A u \in Turns : cancel'[u] = IF u \in R THEN "pending" ELSE cancel[u]
      /\ \A d \in Chats : inflight'[d] = IF d = c THEN t ELSE inflight[d]
      /\ turnAt'[t] = (IF streaming THEN "starting" ELSE "running") /\ chat'[t] = c
  BY <1>1, <1>2, <1>3 DEF TaskTypes
<1>7. \A u \in Turns : turnAt[u] \in Live \ {"starting"} /\ inflight[c] = u /\ chat[u] = c => u \in X
  <2>1. \A u \in Turns : turnAt[u] \in Live \ {"starting"} /\ inflight[c] = u /\ chat[u] = c => keyed[c]
    BY DEF PlacesHeld
  <2> QED  BY <1>3, <1>4, <2>1, TurnAssumption
<1>8. X \subseteq R
  BY <1>3
<1>9. Moves(World, World', X)
  BY <1>1, <1>3, <1>5, <1>6, <1>7, WorldIs, WorldIsNext, SameHomes DEF Moves
<1>10. \A x \in X : x \in Turns /\ World'.home[World'.ch[x]] = HistOf(c)
  BY <1>1, <1>4, <1>6, <1>8, WorldIsNext, SameHomes
<1> QED  BY <1>1, <1>6, <1>9, <1>10, WorldIsNext, SameHomes

\* The history after the marker of the turn that was replaced.
LEMMA ArriveMarks ==
    ASSUME TurnInv, NEW t \in Turns, NEW c \in Chats, Arrive(t, c), NEW k \in Hists, k = HistOf(c),
           NEW h, h = IF Replaced(c) # {} /\ keyed[c] THEN Mark(hist[k], "interrupted", inflight[c]) ELSE hist[k]
    PROVE  /\ Sound(h) /\ Upheld(h.store, k, World', {})
           /\ \A i \in DOMAIN h.store : h.store[i].kind = "user" => h.store[i].of # t
<1>1. PICK X, v, w, b : /\ X = (IF keyed[c] THEN Replaced(c) ELSE {})
                        /\ v = World' /\ w = World /\ b = hist[k]
  OBVIOUS
<1>2. Moves(World, World', X) /\ \A x \in X : x \in Turns /\ v.home[v.ch[x]] = k
  BY <1>1, ArriveMoves
<1>3. Sound(b) /\ Upheld(b.store, k, v, X) /\ Upheld(b.store, k, w, {}) /\ b.store \in Seq(Rows)
  BY <1>1, <1>2, BooksMove DEF TurnInv, BooksKept, Sound, Books
<1>4. \A i \in DOMAIN b.store : b.store[i].kind = "user" => b.store[i].of # t
  <2>1. turnAt[t] \in {"new", "starting"}
    BY DEF Arrive
  <2> QED  BY <1>1, <2>1, NoRequestYet
<1>5. CASE ~(Replaced(c) # {} /\ keyed[c])
  <2>1. X = {} /\ h = b
    BY <1>1, <1>5
  <2> QED  BY <1>1, <1>3, <1>4, <2>1
<1>6. CASE Replaced(c) # {} /\ keyed[c]
  <2>1. PICK p \in Turns : p = inflight[c] /\ turnAt[p] \in Live /\ chat[p] = c /\ p \in Replaced(c)
    BY <1>6, ReplacedTurns DEF TurnInv
  <2>2. h = Mark(b, "interrupted", p) /\ p \in X
    BY <1>1, <1>6, <2>1
  <2>3. /\ turnAt[t] = "new" /\ chat'[p] = chat[p] /\ p \in suppress' /\ cancel'[p] = "pending"
        /\ inflight'[c] = t /\ p # t /\ turnAt'[p] = turnAt[p]
    <3>1. p # t
      BY <2>1 DEF Arrive, Live
    <3> QED  BY <2>1, <3>1 DEF Arrive, Begun, TurnInv, TasksInv, TaskTypes
  <2>4. v.at[p] # "new" /\ v.ch[p] = c /\ v.infl[c] # p /\ p \in v.supp /\ v.can[p] # "no" /\ v.home[c] = k
    BY <1>1, <1>2, <2>1, <2>2, <2>3, WorldIsNext DEF Live
  <2>5. PICK row \in Rows : row = Row("interrupted", p) /\ row.kind = "interrupted" /\ row.of = p
    BY RowIs DEF RowKinds
  <2>6. Placed(row, k, v) /\ Marked(row, v)
    BY <2>4, <2>5 DEF Placed, Marked
  <2>7. \A i \in DOMAIN b.store : b.store[i].kind = "interrupted" => b.store[i].of # p
    <3>1. w.infl[w.ch[p]] = p
      BY <1>1, <2>1, WorldIs
    <3> QED  BY <1>3, <3>1 DEF Upheld, Marked
  <2>8. Upheld(h.store, k, v, {})
    BY ONLY <1>3, <2>2, <2>5, <2>6, <2>7, UpheldMark, k \in Hists, p \in Turns
  <2>9. "interrupted" \in RowKinds
    BY DEF RowKinds
  <2>10. Sound(h) /\ (h.store = b.store \/ h.store = Append(b.store, row))
    BY <1>3, <2>2, <2>5, <2>9, MarkSound
  <2>11. \A i \in DOMAIN h.store : h.store[i].kind = "user" => h.store[i].of # t
    <3>1. CASE h.store = Append(b.store, row)
      <4>1. /\ Append(b.store, row) \in Seq(Rows) /\ Len(Append(b.store, row)) = Len(b.store) + 1
            /\ \A i \in 1..Len(b.store) : Append(b.store, row)[i] = b.store[i]
            /\ Append(b.store, row)[Len(b.store) + 1] = row
        BY <1>3, AppendProperties
      <4>2. DOMAIN h.store = 1..(Len(b.store) + 1) /\ DOMAIN b.store = 1..Len(b.store) /\ Len(b.store) \in Nat
        BY <1>3, <3>1, <4>1
      <4>3. ASSUME NEW i \in DOMAIN h.store, h.store[i].kind = "user"  PROVE h.store[i].of # t
        <5>1. i # Len(b.store) + 1
          BY <2>5, <3>1, <4>1, <4>3
        <5>2. i \in 1..Len(b.store)
          BY <5>1, <4>2, <4>3
        <5>3. h.store[i] = b.store[i] /\ i \in DOMAIN b.store
          BY <3>1, <4>1, <4>2, <5>2
        <5> QED  BY <1>4, <4>3, <5>3
      <4> QED  BY <4>3
    <3> QED  BY <1>4, <2>10, <3>1
  <2> QED  BY <1>1, <2>8, <2>10, <2>11
<1> QED  BY <1>5, <1>6

LEMMA ArriveKeeps ==
    ASSUME TurnInv, TasksInv', NEW t \in Turns, NEW c \in Chats, Arrive(t, c)
    PROVE  TurnInv'
<1>1. PICK k \in Hists : k = HistOf(c)
  BY HistPlaces
<1>2. PICK h : h = IF Replaced(c) # {} /\ keyed[c] THEN Mark(hist[k], "interrupted", inflight[c]) ELSE hist[k]
  OBVIOUS
<1>3. /\ Sound(h) /\ Upheld(h.store, k, World', {})
      /\ \A i \in DOMAIN h.store : h.store[i].kind = "user" => h.store[i].of # t
  BY <1>1, <1>2, ArriveMarks
<1>4. PICK X : X = IF keyed[c] THEN Replaced(c) ELSE {}
  OBVIOUS
<1>5. /\ Moves(World, World', X) /\ \A x \in X : World'.home[World'.ch[x]] = k
      /\ World'.at[t] = (IF streaming THEN "starting" ELSE "running")
      /\ World'.ch[t] = c /\ World'.infl[c] = t /\ World'.home[c] = k
  BY <1>1, <1>4, ArriveMoves
<1>6. PICK g : /\ hist' = [hist EXCEPT ![k] = g]
               /\ g = IF streaming THEN h ELSE Persist(Load(h), Row("user", t))
  BY <1>1, <1>2 DEF Arrive, Begun
<1>7. Sound(g) /\ Upheld(g.store, k, World', {})
  <2>1. CASE streaming
    BY <1>3, <1>6, <2>1
  <2>2. CASE ~streaming
    <3>1. PICK v : v = World'
      OBVIOUS
    <3> QED  BY <1>3, <1>5, <1>6, <2>2, <3>1, Begins
  <2> QED  BY <2>1, <2>2
<1>8. hist' \in [Hists -> Books] /\ \A j \in Hists : hist'[j] = IF j = k THEN g ELSE hist[j]
  BY <1>6, <1>7, BookChanges DEF TurnInv
<1> QED  BY ONLY <1>5, <1>7, <1>8, OneBook, TurnInv, TasksInv', k \in Hists

-----------------------------------------------------------------------------
LEMMA VisionKeeps ==
    ASSUME TurnInv, TasksInv', NEW t \in Turns, NEW c \in Chats, VisionBlocked(t, c)
    PROVE  TurnInv'
<1> USE DEF TurnInv
<1>1. PICK k \in Hists : k = HistOf(c)
  BY HistPlaces
<1>2. PICK r, a \in Rows : /\ r = Row("user", t) /\ a = Row("answer", t)
                           /\ r.kind = "user" /\ a.kind = "answer" /\ a.of = t /\ r.of = t
  BY RowIs DEF RowKinds
<1>3. PICK m, g : m = Persist(hist[k], r) /\ g = Persist(m, a) /\ hist' = [hist EXCEPT ![k] = g]
  BY <1>1, <1>2 DEF VisionBlocked
<1>4. /\ turnAt[t] = "new" /\ chat' = [chat EXCEPT ![t] = c]
      /\ turnAt' = [turnAt EXCEPT ![t] = "blocked"] /\ UNCHANGED <<cancel, mapVars, switches>>
  BY DEF VisionBlocked
<1>5. /\ \A u \in Turns : u # t => turnAt'[u] = turnAt[u] /\ chat'[u] = chat[u]
      /\ turnAt'[t] = "blocked" /\ chat'[t] = c /\ cancel' = cancel
      /\ inflight' = inflight /\ suppress' = suppress
  BY <1>4 DEF TasksInv, TaskTypes, mapVars
<1>6. Moves(World, World', {})
  BY <1>4, <1>5, WorldIs, WorldIsNext, SameHomes DEF Moves
<1>7. PICK v, s, X : v = World' /\ s = hist[k].store /\ X = {t}
  OBVIOUS
<1>8. Sound(hist[k]) /\ Upheld(s, k, v, {}) /\ s \in Seq(Rows)
  BY <1>6, <1>7, BooksMove DEF Sound, Books
<1>9. v.at[t] = "blocked" /\ v.ch[t] = c /\ v.home[c] = k
  BY <1>1, <1>4, <1>5, <1>7, WorldIsNext, SameHomes
<1>10. \A i \in DOMAIN s : s[i].kind = "user" => s[i].of # t
  <2>1. turnAt[t] \in {"new", "starting"}
    BY <1>4
  <2> QED  BY <1>7, <2>1, NoRequestYet
<1>11. Placed(r, k, v) /\ Placed(a, k, v) /\ Marked(a, v)
  BY <1>2, <1>9 DEF Placed, Marked
<1>12. Sound(m) /\ m.store = Append(s, r) /\ m.store \in Seq(Rows)
  <2>1. PICK h : h = hist[k]
    OBVIOUS
  <2>2. Sound(m) /\ m.store = Append(h.store, r)
    BY <1>3, <1>8, <2>1, PersistSound
  <2> QED  BY <1>7, <2>1, <2>2 DEF Sound, Books
<1>13. Upheld(m.store, k, v, X)
  BY <1>2, <1>7, <1>8, <1>9, <1>10, <1>11, <1>12, UpheldRequest
<1>14. Sound(g) /\ g.store = Append(m.store, a)
  BY <1>2, <1>3, <1>12, PersistSound
<1>15. Upheld(g.store, k, v, {})
  BY <1>2, <1>11, <1>12, <1>13, <1>14, UpheldAppends
<1>16. hist' \in [Hists -> Books] /\ \A j \in Hists : hist'[j] = IF j = k THEN g ELSE hist[j]
  BY <1>3, <1>14, BookChanges
<1>17. PICK Y : Y = {}
  OBVIOUS
<1>18. Moves(World, World', Y) /\ (\A x \in Y : World'.home[World'.ch[x]] = k) /\ Upheld(g.store, k, World', {})
  BY <1>6, <1>7, <1>15, <1>17
<1> HIDE DEF TurnInv
<1> QED  BY ONLY <1>14, <1>16, <1>18, OneBook, TurnInv, TasksInv', k \in Hists

LEMMA StartedKeeps ==
    ASSUME TurnInv, TasksInv', NEW t \in Turns, Started(t)
    PROVE  TurnInv'
<1> USE DEF TurnInv
<1>0. /\ turnAt[t] = "starting" /\ cancel[t] = "no"
      /\ turnAt' = [turnAt EXCEPT ![t] = "running"]
      /\ UNCHANGED <<chat, cancel, inflight, suppress, switches>>
  BY DEF Started, Begun
<1>1. chat[t] \in Chats /\ inflight[chat[t]] = t
  BY <1>0 DEF TasksInv, PlacesHeld, Live
<1>2. PICK k \in Hists : k = HistOf(chat[t])
  BY <1>1, HistPlaces
<1>3. PICK g : g = Persist(Load(hist[k]), Row("user", t)) /\ hist' = [hist EXCEPT ![k] = g]
  BY <1>2 DEF Started, Begun
<1>5. \A u \in Turns : turnAt'[u] = IF u = t THEN "running" ELSE turnAt[u]
  BY <1>0 DEF TasksInv, TaskTypes
<1>6. Moves(World, World', {})
  BY <1>0, <1>1, <1>5, WorldIs, WorldIsNext, SameHomes DEF Moves, Live
<1>7. PICK v, h : v = World' /\ h = hist[k]
  OBVIOUS
<1>8. Sound(h) /\ Upheld(h.store, k, v, {})
  BY <1>6, <1>7, BooksMove
<1>9. v.at[t] = "running" /\ v.ch[t] = chat[t] /\ v.infl[v.ch[t]] = t /\ v.home[v.ch[t]] = k /\ v.ch[t] \in Chats
  BY <1>0, <1>1, <1>2, <1>5, <1>7, WorldIsNext, SameHomes
<1>10. \A i \in DOMAIN h.store : h.store[i].kind = "user" => h.store[i].of # t
  <2>1. turnAt[t] \in {"new", "starting"}
    BY <1>0
  <2> QED  BY <1>7, <2>1, NoRequestYet
<1>11. Sound(g) /\ Upheld(g.store, k, v, {})
  BY <1>3, <1>7, <1>8, <1>9, <1>10, Begins
<1>16. hist' \in [Hists -> Books] /\ \A j \in Hists : hist'[j] = IF j = k THEN g ELSE hist[j]
  BY <1>3, <1>11, BookChanges
<1>17. PICK Y : Y = {}
  OBVIOUS
<1>18. Moves(World, World', Y) /\ (\A x \in Y : World'.home[World'.ch[x]] = k) /\ Upheld(g.store, k, World', {})
  BY <1>6, <1>7, <1>11, <1>17
<1> HIDE DEF TurnInv
<1> QED  BY ONLY <1>11, <1>16, <1>18, OneBook, TurnInv, TasksInv', k \in Hists

\* Steps of one turn that write nothing.
LEMMA QuietKeeps ==
    ASSUME TurnInv, TasksInv', NEW t \in Turns,
           StartCancelled(t) \/ AgentEnds(t) \/ HeartbeatStopped(t) \/ Shutdown(t)
    PROVE  TurnInv'
<1> USE DEF TurnInv
<1>1. /\ chat' = chat /\ inflight' = inflight /\ suppress' = suppress /\ UNCHANGED switches /\ hist' = hist
      /\ turnAt[t] \in Live
      /\ \A u \in Turns : u # t => turnAt'[u] = turnAt[u] /\ cancel'[u] = cancel[u]
      /\ cancel[t] # "no" => cancel'[t] # "no"
      /\ turnAt'[t] = "starting" => turnAt[t] = "starting"
      /\ turnAt'[t] \in Live \/ (turnAt[t] = "starting" /\ turnAt'[t] = "interrupted")
  <2>0. turnAt \in [Turns -> {"new", "dead"} \cup Live \cup Ended] /\ cancel \in [Turns -> {"no", "pending", "swallowed"}]
    BY DEF TasksInv, TaskTypes
  <2>1. CASE StartCancelled(t)
    BY <2>0, <2>1 DEF StartCancelled, mapVars, Live
  <2>2. CASE AgentEnds(t)
    <3>1. PICK e \in {"winding", "delivering"} : turnAt' = [turnAt EXCEPT ![t] = e]
      BY <2>2 DEF AgentEnds
    <3> QED  BY <2>0, <2>2, <3>1 DEF AgentEnds, mapVars, Live
  <2>3. CASE HeartbeatStopped(t)
    <3>1. PICK e \in {"no", "pending", "swallowed"} : /\ cancel' = [cancel EXCEPT ![t] = e]
                                                      /\ cancel[t] # "no" => e # "no"
      BY <2>0, <2>3 DEF HeartbeatStopped
    <3> QED  BY <2>0, <2>3, <3>1 DEF HeartbeatStopped, mapVars, Live
  <2>4. CASE Shutdown(t)
    BY <2>0, <2>4 DEF Shutdown, mapVars
  <2> QED  BY <2>1, <2>2, <2>3, <2>4
<1>2. Moves(World, World', {})
  BY <1>1, WorldIs, WorldIsNext, SameHomes DEF Moves, Live
<1> HIDE DEF TurnInv
<1> QED  BY <1>1, <1>2, NoBook

\* The turn of a chat is cancelled.
LEMMA CancelMoves ==
    ASSUME TurnInv, NEW c \in Chats, CancelInflight(c), UNCHANGED <<turnAt, chat, switches>>, NEW X,
           X = IF keyed[c] THEN Replaced(c) ELSE {}
    PROVE  /\ Moves(World, World', X)
           /\ \A x \in X : x \in Turns /\ World'.home[World'.ch[x]] = HistOf(c)
           /\ World'.infl[c] = NoTurn /\ World'.home[c] = HistOf(c)
<1> USE DEF TurnInv, TasksInv
<1>3. PICK R : R = Replaced(c)
  OBVIOUS
<1>4. /\ R \subseteq Turns /\ \A r \in R : r = inflight[c] /\ turnAt[r] \in Live /\ chat[r] = c
      /\ inflight[c] # NoTurn /\ turnAt[inflight[c]] \in Live => R = {inflight[c]}
  BY <1>3, ReplacedTurns
<1>5. \A u \in Turns : turnAt[u] # "new" => chat[u] \in Chats
  BY DEF PlacesHeld
<1>6. /\ \A u \in Turns : cancel'[u] = IF u \in R THEN "pending" ELSE cancel[u]
      /\ \A d \in Chats : inflight'[d] = IF d = c THEN NoTurn ELSE inflight[d]
      /\ suppress' = suppress \cup R
  BY <1>3 DEF TaskTypes, CancelInflight
<1>7. \A u \in Turns : turnAt[u] \in Live \ {"starting"} /\ inflight[c] = u /\ chat[u] = c => u \in X
  <2>1. \A u \in Turns : turnAt[u] \in Live \ {"starting"} /\ inflight[c] = u /\ chat[u] = c => keyed[c]
    BY DEF PlacesHeld
  <2> QED  BY <1>3, <1>4, <2>1, TurnAssumption
<1>8. X \subseteq R
  BY <1>3
<1>9. Moves(World, World', X)
  BY <1>5, <1>6, <1>7, WorldIs, WorldIsNext, SameHomes, TurnAssumption DEF Moves
<1>10. \A x \in X : x \in Turns /\ World'.home[World'.ch[x]] = HistOf(c)
  BY <1>4, <1>8, WorldIsNext, SameHomes
<1> QED  BY <1>6, <1>9, <1>10, WorldIsNext, SameHomes

-----------------------------------------------------------------------------
\* The marker /stop writes for the turn it cancels.
LEMMA StopMarks ==
    ASSUME TurnInv, NEW c \in Chats, CancelInflight(c), UNCHANGED <<turnAt, chat, switches>>,
           Replaced(c) # {}, keyed[c], NEW k \in Hists, k = HistOf(c),
           NEW g, g = Mark(hist[k], "interrupted", inflight[c])
    PROVE  Sound(g) /\ Upheld(g.store, k, World', {})
<1>1. PICK X, v, w, b : X = Replaced(c) /\ v = World' /\ w = World /\ b = hist[k]
  OBVIOUS
<1>2. Moves(World, World', X) /\ v.infl[c] = NoTurn /\ v.home[c] = k
  BY <1>1, CancelMoves
<1>3. Sound(b) /\ Upheld(b.store, k, v, X) /\ Upheld(b.store, k, w, {})
  BY <1>1, <1>2, BooksMove DEF TurnInv, BooksKept
<1>4. PICK p \in Turns : p = inflight[c] /\ turnAt[p] \in Live /\ chat[p] = c /\ p \in Replaced(c)
  BY ReplacedTurns DEF TurnInv
<1>5. g = Mark(b, "interrupted", p)
  BY <1>1, <1>4
<1>6. p \in suppress' /\ cancel'[p] = "pending" /\ turnAt'[p] = turnAt[p] /\ chat'[p] = c
  BY <1>4 DEF CancelInflight
<1>7. v.at[p] # "new" /\ v.ch[p] = c /\ v.infl[c] # p /\ p \in v.supp /\ v.can[p] # "no"
  BY <1>1, <1>2, <1>4, <1>6, TurnAssumption, WorldIsNext DEF Live
<1>8. PICK row \in Rows : row = Row("interrupted", p) /\ row.kind = "interrupted" /\ row.of = p
  BY RowIs DEF RowKinds
<1>9. Placed(row, k, v) /\ Marked(row, v)
  BY <1>2, <1>7, <1>8 DEF Placed, Marked
<1>10. \A i \in DOMAIN b.store : b.store[i].kind = "interrupted" => b.store[i].of # p
  <2>1. w.infl[w.ch[p]] = p
    BY <1>1, <1>4, WorldIs
  <2> QED  BY <1>3, <2>1 DEF Upheld, Marked
<1>11. Upheld(g.store, k, v, {})
  BY ONLY <1>3, <1>5, <1>8, <1>9, <1>10, UpheldMark, k \in Hists, p \in Turns
<1>12. "interrupted" \in RowKinds
  BY DEF RowKinds
<1>13. Sound(g)
  BY <1>3, <1>5, <1>12, MarkSound
<1> QED  BY <1>1, <1>11, <1>13

LEMMA StopKeeps ==
    ASSUME TurnInv, TasksInv', NEW c \in Chats, Stop(c)
    PROVE  TurnInv'
<1>1. PICK k \in Hists : k = HistOf(c)
  BY HistPlaces
<1>2. CancelInflight(c) /\ UNCHANGED <<turnAt, chat, switches>>
  BY DEF Stop
<1>3. PICK X : X = IF keyed[c] THEN Replaced(c) ELSE {}
  OBVIOUS
<1>4. Moves(World, World', X) /\ \A x \in X : World'.home[World'.ch[x]] = k
  BY <1>1, <1>2, <1>3, CancelMoves
<1>5. CASE Replaced(c) # {} /\ keyed[c]
  <2>1. PICK g : g = Mark(hist[k], "interrupted", inflight[c]) /\ hist' = [hist EXCEPT ![k] = g]
    BY <1>1, <1>5 DEF Stop
  <2>2. Sound(g) /\ Upheld(g.store, k, World', {})
    BY <1>1, <1>2, <1>5, <2>1, StopMarks
  <2>3. hist' \in [Hists -> Books] /\ \A j \in Hists : hist'[j] = IF j = k THEN g ELSE hist[j]
    BY <2>1, <2>2, BookChanges DEF TurnInv
  <2> QED  BY ONLY <1>4, <2>2, <2>3, OneBook, TurnInv, TasksInv', k \in Hists
<1>6. CASE ~(Replaced(c) # {} /\ keyed[c])
  <2>1. hist' = hist /\ X = {}
    BY <1>3, <1>6 DEF Stop
  <2> QED  BY <1>4, <2>1, NoBook
<1> QED  BY <1>5, <1>6

LEMMA NewKeeps ==
    ASSUME TurnInv, TasksInv', NEW c \in Chats, New(c)
    PROVE  TurnInv'
<1>1. PICK k \in Hists : k = HistOf(c)
  BY HistPlaces
<1>2. CancelInflight(c) /\ UNCHANGED <<turnAt, chat, switches>>
  BY DEF New
<1>3. PICK X : X = IF keyed[c] THEN Replaced(c) ELSE {}
  OBVIOUS
<1>4. Moves(World, World', X) /\ \A x \in X : World'.home[World'.ch[x]] = k
  BY <1>1, <1>2, <1>3, CancelMoves
<1>5. PICK g, v : g = Cleared /\ v = World'
  OBVIOUS
<1>6. Sound(g) /\ Upheld(g.store, k, v, {})
  BY <1>5, ClearedSound, UpheldEmpty
<1>7. hist' = [hist EXCEPT ![k] = g]
  BY <1>1, <1>5 DEF New
<1>8. hist' \in [Hists -> Books] /\ \A j \in Hists : hist'[j] = IF j = k THEN g ELSE hist[j]
  BY <1>6, <1>7, BookChanges DEF TurnInv
<1>9. Upheld(g.store, k, World', {})
  BY <1>5, <1>6
<1> QED  BY ONLY <1>4, <1>6, <1>8, <1>9, OneBook, TurnInv, TasksInv', k \in Hists

\* A step of another surface.
LEMMA SideMoves ==
    ASSUME TurnInv, UNCHANGED <<taskVars, mapVars, switches>>
    PROVE  Moves(World, World', {})
<1>1. UNCHANGED <<turnAt, chat, cancel, inflight, suppress>> /\ UNCHANGED switches
  BY DEF taskVars, mapVars
<1>2. \A t \in Turns : turnAt[t] # "new" => chat[t] \in Chats
  BY DEF TurnInv, TasksInv, PlacesHeld
<1> QED  BY <1>1, <1>2, WorldIs, WorldIsNext, SameHomes DEF Moves

LEMMA SideBook ==
    ASSUME TurnInv, TasksInv', Moves(World, World', {}), NEW k \in Hists, NEW g, Sound(g),
           Upheld(g.store, k, World', {}), hist' \in [Hists -> Books],
           \A j \in Hists : hist'[j] = IF j = k THEN g ELSE hist[j]
    PROVE  TurnInv'
<1>1. PICK X : X = {}
  OBVIOUS
<1>2. Moves(World, World', X) /\ \A x \in X : World'.home[World'.ch[x]] = k
  BY <1>1
<1> QED  BY ONLY <1>2, OneBook, TurnInv, TasksInv', k \in Hists, Sound(g), Upheld(g.store, k, World', {}),
                hist' \in [Hists -> Books], \A j \in Hists : hist'[j] = IF j = k THEN g ELSE hist[j]

LEMMA SidePlaces == \A k \in Hists : SideHist(k) \in Hists
<1> QED  BY TurnAssumption DEF SideHist

LEMMA WebNewKeeps == ASSUME TurnInv, TasksInv', WebNew  PROVE TurnInv'
<1>1. PICK k \in Hists : k = SideHist(Web)
  BY SidePlaces, TurnAssumption
<1>2. Moves(World, World', {})
  BY SideMoves DEF WebNew
<1>3. PICK g, v : g = Cleared /\ v = World'
  OBVIOUS
<1>4. Sound(g) /\ Upheld(g.store, k, v, {})
  BY <1>3, ClearedSound, UpheldEmpty
<1>5. hist' = [hist EXCEPT ![k] = g]
  BY <1>1, <1>3 DEF WebNew
<1>6. hist' \in [Hists -> Books] /\ \A j \in Hists : hist'[j] = IF j = k THEN g ELSE hist[j]
  BY <1>4, <1>5, BookChanges DEF TurnInv
<1> QED  BY <1>2, <1>3, <1>4, <1>6, SideBook

LEMMA MirrorKeeps == ASSUME TurnInv, TasksInv', Mirror  PROVE TurnInv'
<1>1. PICK k \in Hists : k = SideHist(Cron)
  BY SidePlaces, TurnAssumption
<1>2. Moves(World, World', {})
  BY SideMoves DEF Mirror
<1>3. PICK row \in Rows : row = Row("mirror", NoTurn) /\ row.kind = "mirror"
  BY RowIs DEF RowKinds
<1>4. PICK h, v : h = hist[k] /\ v = World'
  OBVIOUS
<1>5. PICK g : g = Persist(h, row) /\ hist' = [hist EXCEPT ![k] = g]
  BY <1>1, <1>3, <1>4 DEF Mirror
<1>6. Sound(h) /\ Upheld(h.store, k, v, {}) /\ h.store \in Seq(Rows)
  BY <1>2, <1>4, BooksMove DEF Sound, Books
<1>7. Placed(row, k, v) /\ Marked(row, v)
  BY <1>3 DEF Placed, Marked
<1>8. Sound(g) /\ g.store = Append(h.store, row)
  BY <1>5, <1>6, PersistSound
<1>9. Upheld(g.store, k, v, {})
  BY <1>3, <1>6, <1>7, <1>8, UpheldAppends
<1>10. hist' \in [Hists -> Books] /\ \A j \in Hists : hist'[j] = IF j = k THEN g ELSE hist[j]
  BY <1>5, <1>8, BookChanges DEF TurnInv
<1> QED  BY <1>2, <1>4, <1>8, <1>9, <1>10, SideBook

LEMMA CrashKeeps == ASSUME TurnInv, TasksInv', Crash  PROVE TurnInv'
<1>1. /\ \A u \in Turns : turnAt'[u] = IF turnAt[u] \in Live THEN "dead" ELSE turnAt[u]
      /\ \A c \in Chats : inflight'[c] = NoTurn
      /\ chat' = chat /\ cancel' = cancel /\ UNCHANGED switches
  BY DEF Crash
<1>2. \A t \in Turns : turnAt[t] # "new" => chat[t] \in Chats
  BY DEF TurnInv, TasksInv, PlacesHeld
<1>3. Moves(World, World', {})
  BY <1>1, <1>2, WorldIs, WorldIsNext, SameHomes, TurnAssumption DEF Moves, Live
<1>4. PICK v, f : v = World' /\ f = hist'
  OBVIOUS
<1>5. ASSUME NEW j \in Hists
      PROVE  f[j] \in Books /\ Sound(f[j]) /\ Upheld(f[j].store, j, v, {})
  <2>1. PICK h : h = hist[j]
    OBVIOUS
  <2>2. Sound(h) /\ Upheld(h.store, j, v, {})
    BY <1>3, <1>4, <2>1, BooksMove
  <2>3. PICK g : g = [cache |-> <<>>, loaded |-> FALSE, store |-> h.store]
    OBVIOUS
  <2>4. f[j] = g
    BY <1>4, <2>1, <2>3 DEF Crash
  <2>5. Sound(g) /\ g.store = h.store
    BY <2>2, <2>3, RestartSound
  <2> QED  BY <2>2, <2>4, <2>5 DEF Sound
<1>6. f \in [Hists -> Books]
  <2>1. f = [k \in Hists |-> f[k]]
    BY <1>4 DEF Crash
  <2> QED  BY <1>5, <2>1
<1> QED  BY <1>4, <1>5, <1>6 DEF TurnInv, BooksKept

LEMMA TurnInductive == TurnInv /\ [TurnNext]_turnVars => TurnInv'
<1> SUFFICES ASSUME TurnInv, [TurnNext]_turnVars  PROVE TurnInv'
  OBVIOUS
<1>0. TasksInv'
  BY TasksInductive DEF TurnInv
<1>1. ASSUME NEW t \in Turns, NEW c \in Chats, Arrive(t, c) \/ VisionBlocked(t, c)  PROVE TurnInv'
  BY <1>0, <1>1, ArriveKeeps, VisionKeeps
<1>2. ASSUME NEW t \in Turns, TurnStep(t)  PROVE TurnInv'
  BY <1>0, <1>2, StartedKeeps, QuietKeeps, AnswerKeeps, CancelledKeeps, FailedKeeps DEF TurnStep
<1>3. ASSUME NEW c \in Chats, Stop(c) \/ New(c)  PROVE TurnInv'
  BY <1>0, <1>3, StopKeeps, NewKeeps
<1>4. CASE WebNew \/ Mirror \/ Crash
  BY <1>0, <1>4, WebNewKeeps, MirrorKeeps, CrashKeeps
<1>5. CASE UNCHANGED turnVars
  <2>1. hist' = hist /\ UNCHANGED <<taskVars, mapVars, switches>>
    BY <1>5 DEF turnVars
  <2> QED  BY <1>0, <2>1, SideMoves, NoBook
<1> QED  BY <1>1, <1>2, <1>3, <1>4, <1>5 DEF TurnNext

LEMMA TurnInvariant == TurnSpec => []TurnInv
<1> QED  BY TurnStarts, TurnInductive, PTL DEF TurnSpec

\* FeishuTurn.HistoryKept: what the agent is told of earlier turns is what happened. A
\* loaded cache is the end of the store, a turn nobody stopped is the one its chat names, a
\* stopped one answers no more (without the streaming card) and leaves one marker, and
\* between the requests of two turns of a chat there is always something else.
THEOREM HistoryStaysKept == TurnSpec => []HistoryKept
<1>1. ASSUME TurnInv  PROVE HistoryKept
  <2> USE <1>1 DEF TurnInv
  <2>1. CacheMatchesStore
    BY DEF CacheMatchesStore, BooksKept, Sound
  <2>2. InflightReachable
    BY DEF InflightReachable, TasksInv, PlacesHeld
  <2>3. StoppedNeverAnswers
    BY DEF StoppedNeverAnswers, TasksInv, PlainStops
  <2>4. OneMarkerPerTurn
    <3> SUFFICES ASSUME NEW k \in Hists, NEW t \in Turns
                 PROVE  Cardinality({i \in DOMAIN hist[k].store : hist[k].store[i] = Row("interrupted", t)}) <= 1
      BY DEF OneMarkerPerTurn
    <3>1. PICK s, w, S : /\ s = hist[k].store /\ w = World
                         /\ S = {i \in DOMAIN hist[k].store : hist[k].store[i] = Row("interrupted", t)}
      OBVIOUS
    <3>2. Upheld(s, k, w, {})
      BY <3>1 DEF BooksKept
    <3>3. Row("interrupted", t).kind = "interrupted" /\ Row("interrupted", t).of = t
      BY RowIs DEF RowKinds
    <3>4. \A i, j \in S : i = j
      BY <3>1, <3>2, <3>3 DEF Upheld
    <3>5. CASE S = {}
      <4>1. Cardinality(S) = 0
        BY <3>5, FS_EmptySet
      <4> QED  BY <3>1, <4>1
    <3>6. CASE S # {}
      <4>1. PICK i : S = {i}
        BY <3>4, <3>6
      <4>2. Cardinality(S) = 1
        BY <4>1, FS_Singleton
      <4> QED  BY <3>1, <4>2
    <3> QED  BY <3>5, <3>6
  <2>5. NoDanglingRequest
    <3> SUFFICES ASSUME NEW k \in Hists, NEW i \in DOMAIN hist[k].store, NEW j \in DOMAIN hist[k].store,
                        i < j, hist[k].store[i].kind = "user", hist[k].store[j].kind = "user",
                        chat[hist[k].store[i].of] = chat[hist[k].store[j].of],
                        turnAt[hist[k].store[i].of] \notin {"silent", "dead"},
                        turnAt[hist[k].store[j].of] # "blocked"
                 PROVE  \E m \in i..j : hist[k].store[m].kind # "user"
      BY DEF NoDanglingRequest
    <3>1. PICK s, w : s = hist[k].store /\ w = World
      OBVIOUS
    <3>2. Upheld(s, k, w, {}) /\ w.ch = chat /\ w.at = turnAt
      BY <3>1, WorldIs DEF BooksKept
    <3> QED  BY <3>1, <3>2 DEF Upheld
  <2> QED  BY <2>1, <2>2, <2>3, <2>4, <2>5 DEF HistoryKept, InterruptionMarked
<1> QED  BY <1>1, TurnInvariant, PTL

-----------------------------------------------------------------------------
\* With STRICT_CONTEXT and without the streaming card: a history that was reset and not
\* begun on since is empty, and whatever turn of its chat still lives was told to stop
\* and will not write.
ResetHolds ==
    strict /\ ~streaming =>
        \A c \in Chats : Own[c] \in pristine =>
            /\ hist[Own[c]].store = <<>>
            /\ \A t \in Turns : turnAt[t] \in Live /\ chat[t] = c => t \in suppress /\ cancel[t] = "pending"

\* Mark, Persist and the like touch the history of the acting turn's chat only.
LEMMA ResetStays ==
    ASSUME TurnInv, ResetHolds, UNCHANGED switches, strict, ~streaming, NEW d \in Chats,
           pristine' \subseteq pristine \cup (Hists \ {Own[d]}), Own[d] \in pristine',
           hist'[Own[d]].store = hist[Own[d]].store,
           \A t \in Turns : turnAt'[t] \in Live /\ chat'[t] = d =>
               /\ turnAt[t] \in Live /\ chat[t] = d
               /\ t \in suppress => t \in suppress'
               /\ cancel[t] = "pending" => cancel'[t] = "pending"
    PROVE  /\ hist'[Own[d]].store = <<>>
           /\ \A t \in Turns : turnAt'[t] \in Live /\ chat'[t] = d => t \in suppress' /\ cancel'[t] = "pending"
<1>1. Own[d] \in pristine
  OBVIOUS
<1> QED  BY <1>1 DEF ResetHolds

LEMMA ResetInductive == TurnInv /\ TurnInv' /\ ResetHolds /\ [TurnNext]_turnVars => ResetHolds'
<1> SUFFICES ASSUME TurnInv, TurnInv', ResetHolds, [TurnNext]_turnVars, strict', ~streaming',
                    NEW d \in Chats, Own[d] \in pristine'
             PROVE  /\ hist'[Own[d]].store = <<>>
                    /\ \A t \in Turns : turnAt'[t] \in Live /\ chat'[t] = d => t \in suppress' /\ cancel'[t] = "pending"
  BY DEF ResetHolds
<1> DEFINE Goal == /\ hist'[Own[d]].store = <<>>
                   /\ \A t \in Turns : turnAt'[t] \in Live /\ chat'[t] = d => t \in suppress' /\ cancel'[t] = "pending"
           Same == hist'[Own[d]].store = hist[Own[d]].store
           Lives == \A t \in Turns : turnAt'[t] \in Live /\ chat'[t] = d =>
                       /\ turnAt[t] \in Live /\ chat[t] = d
                       /\ t \in suppress => t \in suppress'
                       /\ cancel[t] = "pending" => cancel'[t] = "pending"
<1> Own[d] \in Hists /\ \A c \in Chats : Own[c] \in Hists
  BY TurnAssumption
<1>0. UNCHANGED switches
  BY DEF TurnNext, TurnStep, Arrive, VisionBlocked, Started, StartCancelled, AgentEnds, HeartbeatStopped, Answer,
         Cancelled, Rejected, Failed, Shutdown, Stop, New, WebNew, Mirror, Crash, turnVars
<1> strict /\ ~streaming /\ \A c \in Chats : HistOf(c) = Own[c]
  BY <1>0 DEF switches, HistOf
<1>a. /\ turnAt \in [Turns -> {"new", "dead"} \cup Live \cup Ended]
      /\ chat \in [Turns -> Chats \cup {NoTurn}]
      /\ cancel \in [Turns -> {"no", "pending", "swallowed"}]
      /\ hist \in [Hists -> Books]
      /\ \A t \in Turns : turnAt[t] \notin {"starting", "winding"} /\ cancel[t] # "swallowed"
      /\ \A t \in Turns : turnAt[t] # "new" => chat[t] \in Chats
  BY DEF TurnInv, TasksInv, TaskTypes, PlacesHeld, PlainStops
<1>b. ASSUME Same, Lives, pristine' \subseteq pristine \cup (Hists \ {Own[d]})  PROVE Goal
  BY <1>0, <1>b, ResetStays
<1>c. \A c \in Chats : Own[c] \in pristine =>
        \A t \in Turns : turnAt[t] \in Live /\ chat[t] = c => t \in suppress /\ cancel[t] = "pending"
  BY DEF ResetHolds
<1> HIDE DEF Goal
<1>1. ASSUME NEW t \in Turns, NEW c \in Chats, Arrive(t, c)  PROVE Goal
  <2>1. /\ turnAt[t] = "new" /\ chat' = [chat EXCEPT ![t] = c]
        /\ cancel' = [r \in Turns |-> IF r \in Replaced(c) THEN "pending" ELSE cancel[r]]
        /\ suppress' = suppress \cup Replaced(c) /\ pristine' = pristine \ {Own[c]}
        /\ turnAt' = [turnAt EXCEPT ![t] = "running"]
        /\ \A j \in Hists : j # Own[c] => hist'[j] = hist[j]
    BY <1>1, <1>a DEF Arrive, Begun
  <2>2. d # c
    BY <2>1
  <2>3. Own[d] # Own[c]
    BY <2>2, OwnAssumption
  <2>4. Same
    BY <2>1, <2>3
  <2>5. Lives
    BY <2>1, <2>2, <1>a DEF Live
  <2> QED  BY <1>b, <2>1, <2>4, <2>5
<1>2. ASSUME NEW t \in Turns, NEW c \in Chats, VisionBlocked(t, c)  PROVE Goal
  <2>1. /\ turnAt[t] = "new" /\ chat' = [chat EXCEPT ![t] = c] /\ cancel' = cancel
        /\ suppress' = suppress /\ pristine' = pristine \ {Own[c]}
        /\ turnAt' = [turnAt EXCEPT ![t] = "blocked"]
        /\ \A j \in Hists : j # Own[c] => hist'[j] = hist[j]
    BY <1>2, <1>a DEF VisionBlocked, mapVars
  <2>2. d # c
    BY <2>1
  <2>3. Own[d] # Own[c]
    BY <2>2, OwnAssumption
  <2>4. Same
    BY <2>1, <2>3
  <2>5. Lives
    BY <2>1, <1>a DEF Live
  <2> QED  BY <1>b, <2>1, <2>4, <2>5
\* A turn that was not told to stop writes into a history that is not pristine.
<1>d. ASSUME NEW t \in Turns, turnAt[t] \in Live, cancel[t] # "pending" \/ t \notin suppress
      PROVE  chat[t] \in Chats /\ Own[chat[t]] \notin pristine
  BY <1>a, <1>c, <1>d DEF Live
<1>3. ASSUME NEW t \in Turns, TurnStep(t)  PROVE Goal
  <2>1. CASE Started(t) \/ StartCancelled(t) \/ HeartbeatStopped(t)
    BY <2>1, <1>a DEF Started, StartCancelled, HeartbeatStopped
  <2>2. CASE AgentEnds(t)
    <3>1. /\ turnAt[t] \in Live /\ UNCHANGED <<chat, cancel, suppress, hist, pristine>>
          /\ \A u \in Turns : u # t => turnAt'[u] = turnAt[u]
      BY <2>2, <1>a DEF AgentEnds, mapVars, Live
    <3> QED  BY <1>b, <3>1
  <2>3. CASE Shutdown(t)
    <3>1. /\ UNCHANGED <<turnAt, chat, suppress, hist, pristine>>
          /\ cancel[t] = "no" /\ \A u \in Turns : u # t => cancel'[u] = cancel[u]
      BY <2>3, <1>a DEF Shutdown, mapVars
    <3> QED  BY <1>b, <3>1
  <2>4. ASSUME NEW e \in Ended, turnAt[t] \in Live, turnAt' = [turnAt EXCEPT ![t] = e], Finally(t),
               UNCHANGED <<chat, cancel, pristine, switches>>,
               hist' = hist \/ ( /\ cancel[t] # "pending" \/ t \notin suppress
                                 /\ \A j \in Hists : j # Own[chat[t]] => hist'[j] = hist[j])
        PROVE  Goal
    <3>1. Own[d] \in pristine
      BY <2>4
    <3>2. Same
      BY <2>4, <3>1, <1>d
    <3>3. /\ suppress' = suppress \ {t} /\ e \notin Live
          /\ \A u \in Turns : turnAt'[u] = IF u = t THEN e ELSE turnAt[u]
      BY <2>4, <1>a DEF Finally, Ended, Live
    <3>4. Lives
      BY <2>4, <3>3
    <3> QED  BY <1>b, <2>4, <3>2, <3>4
  <2>5. ASSUME NEW silent \in BOOLEAN, Answer(t, silent)  PROVE Goal
    <3>1. PICK e \in Ended : turnAt' = [turnAt EXCEPT ![t] = e]
      BY <2>5 DEF Answer, Ended
    <3>2. /\ turnAt[t] \in Live /\ Finally(t) /\ UNCHANGED <<chat, cancel, pristine, switches>>
          /\ cancel[t] # "pending"
      BY <2>5 DEF Answer, Live
    <3>3. chat[t] \in Chats
      BY <3>2, <1>d
    <3>4. hist' = hist \/ \A j \in Hists : j # Own[chat[t]] => hist'[j] = hist[j]
      BY <2>5, <3>3, <1>a DEF Answer
    <3> QED  BY <3>1, <3>2, <3>4, <2>4
  <2>6. CASE Cancelled(t)
    <3>1. PICK e \in Ended : turnAt' = [turnAt EXCEPT ![t] = e]
      BY <2>6 DEF Cancelled, Ended
    <3>2. turnAt[t] \in Live /\ Finally(t) /\ UNCHANGED <<chat, cancel, pristine, switches>>
      BY <2>6 DEF Cancelled, Live
    <3>3. chat[t] \in Chats
      BY <3>2, <1>a DEF Live
    <3>4. hist' = hist \/ (t \notin suppress /\ \A j \in Hists : j # Own[chat[t]] => hist'[j] = hist[j])
      BY <2>6, <3>3, <1>a DEF Cancelled
    <3> QED  BY <3>1, <3>2, <3>4, <2>4
  <2>7. CASE Rejected(t) \/ Failed(t)
    <3>1. PICK e \in Ended : turnAt' = [turnAt EXCEPT ![t] = e]
      BY <2>7 DEF Rejected, Failed, Ended
    <3>2. /\ turnAt[t] \in Live /\ Finally(t) /\ UNCHANGED <<chat, cancel, pristine, switches>>
          /\ cancel[t] # "pending"
      BY <2>7 DEF Rejected, Failed, Live
    <3>3. chat[t] \in Chats
      BY <3>2, <1>d
    <3>4. \A j \in Hists : j # Own[chat[t]] => hist'[j] = hist[j]
      BY <2>7, <3>3, <1>a DEF Rejected, Failed
    <3> QED  BY <3>1, <3>2, <3>4, <2>4
  <2> QED  BY <1>3, <2>1, <2>2, <2>3, <2>5, <2>6, <2>7 DEF TurnStep
<1>4. ASSUME NEW c \in Chats, Stop(c)  PROVE Goal
  <2>1. /\ UNCHANGED <<turnAt, chat, pristine>> /\ suppress' = suppress \cup Replaced(c)
        /\ cancel' = [r \in Turns |-> IF r \in Replaced(c) THEN "pending" ELSE cancel[r]]
        /\ hist' = hist \/ (Replaced(c) # {} /\ \A j \in Hists : j # Own[c] => hist'[j] = hist[j])
    BY <1>4, <1>a DEF Stop, CancelInflight
  <2>2. \A r \in Replaced(c) : r \in Turns /\ turnAt[r] \in Live /\ chat[r] = c /\ r \notin suppress
    <3>1. TasksInv
      BY DEF TurnInv
    <3>2. \A r \in Replaced(c) : r \in Turns /\ r = inflight[c] /\ turnAt[r] \in Live /\ chat[r] = c
      BY <3>1, ReplacedTurns
    <3> QED  BY <3>1, <3>2 DEF TasksInv, PlacesHeld
  <2>3. Same
    BY <2>1, <2>2, <1>d
  <2>4. Lives
    BY <2>1
  <2> QED  BY <1>b, <2>1, <2>3, <2>4
<1>5. ASSUME NEW c \in Chats, New(c)  PROVE Goal
  <2>1. /\ UNCHANGED <<turnAt, chat>> /\ suppress' = suppress \cup Replaced(c)
        /\ cancel' = [r \in Turns |-> IF r \in Replaced(c) THEN "pending" ELSE cancel[r]]
        /\ hist' = [hist EXCEPT ![Own[c]] = Cleared] /\ pristine' = pristine \cup {Own[c]}
    BY <1>5 DEF New, CancelInflight
  <2>2. CASE d = c
    <3>1. hist'[Own[d]].store = <<>>
      BY <2>1, <2>2, <1>a DEF Cleared
    <3>2. ASSUME NEW t \in Turns, turnAt'[t] \in Live, chat'[t] = d
          PROVE  t \in suppress' /\ cancel'[t] = "pending"
      <4>1. TasksInv /\ turnAt[t] \in Live /\ chat[t] = c
        BY <2>1, <2>2, <3>2 DEF TurnInv
      <4>2. CASE inflight[c] = t
        <5>1. t \in Replaced(c)
          BY <4>1, <4>2, TurnAssumption DEF Replaced
        <5> QED  BY <2>1, <5>1
      <4>3. CASE inflight[c] # t
        <5>1. t \in suppress /\ cancel[t] = "pending"
          BY <4>1, <4>3, <1>a DEF TasksInv, PlacesHeld
        <5> QED  BY <2>1, <5>1
      <4> QED  BY <4>2, <4>3
    <3> QED  BY <3>1, <3>2 DEF Goal
  <2>3. CASE d # c
    <3>1. Own[d] # Own[c]
      BY <2>3, OwnAssumption
    <3>2. Same
      BY <2>1, <3>1, <1>a
    <3>3. Lives
      BY <2>1
    <3> QED  BY <1>b, <2>1, <3>1, <3>2, <3>3
  <2> QED  BY <2>2, <2>3
<1>6. CASE WebNew \/ Mirror
  <2>1. Own[d] # Web /\ Own[d] # Cron /\ SideHist(Web) = Web /\ SideHist(Cron) = Cron
    BY OwnAssumption DEF SideHist
  <2>2. UNCHANGED <<turnAt, chat, cancel, suppress>> /\ pristine' \subseteq pristine \cup {Web}
    BY <1>6, <2>1 DEF WebNew, Mirror, taskVars, mapVars
  <2>3. Same
    BY <1>6, <2>1, <1>a DEF WebNew, Mirror
  <2>4. Lives
    BY <2>2
  <2>5. pristine' \subseteq pristine \cup (Hists \ {Own[d]})
    BY <2>1, <2>2, TurnAssumption
  <2> QED  BY <1>b, <2>3, <2>4, <2>5 DEF Goal
<1>7. CASE Crash
  <2>1. \A t \in Turns : turnAt'[t] \notin Live
    BY <1>7 DEF Crash, Live
  <2>2. Same /\ pristine' \subseteq pristine \cup (Hists \ {Own[d]})
    BY <1>7 DEF Crash
  <2>3. Lives
    BY <2>1
  <2> QED  BY <1>b, <2>2, <2>3 DEF Goal
<1>8. CASE UNCHANGED turnVars
  <2>1. Same /\ pristine' \subseteq pristine \cup (Hists \ {Own[d]})
    BY <1>8 DEF turnVars
  <2>2. Lives
    BY <1>8 DEF turnVars, taskVars, mapVars
  <2> QED  BY <1>b, <2>1, <2>2 DEF Goal
<1> QED  BY <1>1, <1>2, <1>3, <1>4, <1>5, <1>6, <1>7, <1>8 DEF TurnNext, Goal

-----------------------------------------------------------------------------
\* What an agent is handed fits the limit.
PriorInv ==
    /\ prior \in [Turns -> Seq(Rows)] /\ \A t \in Turns : Len(prior[t]) <= MaxHist
    /\ pristine \subseteq Hists
    /\ <<news, mirrors, crashes>> \in (0..MaxNews) \X (0..MaxMirrors) \X (0..MaxCrashes)

LEMMA PriorBegins ==
    ASSUME PriorInv, NEW t \in Turns, NEW h, Sound(h), prior' = [prior EXCEPT ![t] = Load(h).cache]
    PROVE  prior' \in [Turns -> Seq(Rows)] /\ \A u \in Turns : Len(prior'[u]) <= MaxHist
<1>1. PICK c : c = Load(h).cache
  OBVIOUS
<1>2. c \in Seq(Rows) /\ Len(c) <= MaxHist
  <2>1. Sound(Load(h))
    BY LoadSound
  <2> QED  BY <1>1, <2>1 DEF Sound, Books
<1>3. prior' = [prior EXCEPT ![t] = c]
  BY <1>1
<1> QED  BY <1>2, <1>3 DEF PriorInv

LEMMA PriorInductive == TurnInv /\ PriorInv /\ [TurnNext]_turnVars => PriorInv'
<1> SUFFICES ASSUME TurnInv, PriorInv, [TurnNext]_turnVars  PROVE PriorInv'
  OBVIOUS
<1> DEFINE Handed == prior' \in [Turns -> Seq(Rows)] /\ \A u \in Turns : Len(prior'[u]) <= MaxHist
<1>0. prior' = prior => Handed
  BY DEF PriorInv
<1>1. ASSUME NEW t \in Turns, NEW c \in Chats, Arrive(t, c)  PROVE PriorInv'
  <2>1. PICK k \in Hists : k = HistOf(c)
    BY HistPlaces
  <2>2. PICK h : h = IF Replaced(c) # {} /\ keyed[c] THEN Mark(hist[k], "interrupted", inflight[c]) ELSE hist[k]
    OBVIOUS
  <2>3. Sound(h)
    BY <1>1, <2>1, <2>2, ArriveMarks
  <2>4. prior' = prior \/ prior' = [prior EXCEPT ![t] = Load(h).cache]
    BY <1>1, <2>1, <2>2 DEF Arrive, Begun
  <2>5. Handed
    BY <1>0, <2>3, <2>4, PriorBegins
  <2>6. pristine' \subseteq pristine /\ UNCHANGED counters
    BY <1>1 DEF Arrive, Begun
  <2> QED  BY <2>5, <2>6 DEF PriorInv, counters
<1>2. ASSUME NEW t \in Turns, Started(t)  PROVE PriorInv'
  <2>1. HistOf(chat[t]) \in Hists
    BY <1>2, HistPlaces DEF Started, TurnInv, TasksInv, PlacesHeld
  <2>2. PICK h : h = hist[HistOf(chat[t])]
    OBVIOUS
  <2>3. Sound(h)
    BY <2>1, <2>2 DEF TurnInv, BooksKept
  <2>4. prior' = [prior EXCEPT ![t] = Load(h).cache]
    BY <1>2, <2>2 DEF Started, Begun
  <2>5. Handed
    BY <2>3, <2>4, PriorBegins
  <2>6. pristine' \subseteq pristine /\ UNCHANGED counters
    BY <1>2 DEF Started, Begun
  <2> QED  BY <2>5, <2>6 DEF PriorInv, counters
<1>3. ASSUME NEW t \in Turns, TurnStep(t), ~Started(t)  PROVE PriorInv'
  <2>1. UNCHANGED <<prior, pristine, counters>>
    BY <1>3 DEF TurnStep, StartCancelled, AgentEnds, HeartbeatStopped, Answer, Cancelled, Rejected, Failed, Shutdown
  <2> QED  BY <2>1 DEF PriorInv, counters
<1>4. ASSUME NEW t \in Turns, NEW c \in Chats, VisionBlocked(t, c)  PROVE PriorInv'
  <2>1. prior' = prior /\ pristine' \subseteq pristine /\ UNCHANGED counters
    BY <1>4 DEF VisionBlocked
  <2> QED  BY <2>1, <1>0 DEF PriorInv, counters
<1>5. ASSUME NEW c \in Chats, Stop(c) \/ New(c)  PROVE PriorInv'
  <2>1. prior' = prior /\ mirrors' = mirrors /\ crashes' = crashes
    BY <1>5 DEF Stop, New, counters
  <2>2. pristine' \subseteq Hists
    BY <1>5, HistPlaces DEF Stop, New, PriorInv
  <2>3. news' = news \/ (news < MaxNews /\ news' = news + 1)
    BY <1>5 DEF Stop, New, counters
  <2> QED  BY <2>1, <2>2, <2>3, <1>0, TurnAssumption DEF PriorInv
<1>6. CASE WebNew \/ Mirror \/ Crash \/ UNCHANGED turnVars
  <2>1. prior' = prior
    BY <1>6 DEF WebNew, Mirror, Crash, turnVars, taskVars
  <2>2. pristine' \subseteq Hists
    BY <1>6, SidePlaces, TurnAssumption DEF WebNew, Mirror, Crash, turnVars, PriorInv
  <2>3. /\ news' = news \/ (news < MaxNews /\ news' = news + 1)
        /\ mirrors' = mirrors \/ (mirrors < MaxMirrors /\ mirrors' = mirrors + 1)
        /\ crashes' = crashes \/ (crashes < MaxCrashes /\ crashes' = crashes + 1)
    BY <1>6 DEF WebNew, Mirror, Crash, turnVars, counters
  <2> QED  BY <2>1, <2>2, <2>3, <1>0, TurnAssumption DEF PriorInv
<1> QED  BY <1>1, <1>2, <1>3, <1>4, <1>5, <1>6 DEF TurnNext

FreshInv == TurnInv /\ PriorInv /\ ResetHolds

LEMMA FreshInvariant == TurnSpec => []FreshInv
<1>1. TurnInit => FreshInv
  <2>1. TurnInit => PriorInv /\ ResetHolds
    BY TurnAssumption, EmptySeq DEF TurnInit, PriorInv, ResetHolds
  <2> QED  BY <2>1, TurnStarts DEF FreshInv
<1>2. FreshInv /\ [TurnNext]_turnVars => FreshInv'
  BY TurnInductive, PriorInductive, ResetInductive DEF FreshInv
<1> QED  BY <1>1, <1>2, PTL DEF TurnSpec

\* FeishuTurn.TurnTypeOK: what an agent is handed of the history fits _SESSION_HISTORY_MAX.
THEOREM TurnTypesHold == TurnSpec => []TurnTypeOK
<1>1. FreshInv => TurnTypeOK
  BY DEF FreshInv, TurnInv, TasksInv, TaskTypes, PriorInv, TurnTypeOK, Books
<1> QED  BY <1>1, FreshInvariant, PTL

\* FeishuTurn.FreshAfterReset, for any number of turns, chats and histories: with
\* STRICT_CONTEXT and without the streaming card, the first turn after a /new is told
\* nothing of what came before it.
THEOREM FreshStays == TurnSpec => FreshAfterReset
<1>1. ASSUME FreshInv, [TurnNext]_turnVars, NEW t \in Turns, strict, ~streaming,
             turnAt[t] # "running", turnAt'[t] = "running", HistOf(chat'[t]) \in pristine
      PROVE  prior'[t] = <<>>
  <2>0. TurnInv /\ ResetHolds /\ prior \in [Turns -> Seq(Rows)]
    BY <1>1 DEF FreshInv, PriorInv
  <2>1. /\ turnAt \in [Turns -> {"new", "dead"} \cup Live \cup Ended]
        /\ turnAt[t] # "starting" /\ chat \in [Turns -> Chats \cup {NoTurn}]
    BY <1>1, <2>0 DEF TurnInv, TasksInv, TaskTypes, PlainStops
  <2>2. PICK c \in Chats : Arrive(t, c)
    <3>1. ASSUME NEW u \in Turns, TurnStep(u)  PROVE FALSE
      <4>1. CASE Started(u)
        BY <1>1, <2>0, <2>1, <4>1 DEF TurnInv, TasksInv, PlainStops, Started
      <4>2. CASE ~Started(u)
        BY <1>1, <2>0, <2>1, <3>1, <4>2 DEF TurnStep, StartCancelled, AgentEnds, HeartbeatStopped, Answer,
           Cancelled, Rejected, Failed, Shutdown
      <4> QED  BY <4>1, <4>2
    <3>2. ASSUME NEW u \in Turns, NEW c \in Chats, Arrive(u, c) \/ VisionBlocked(u, c)
          PROVE  u = t /\ Arrive(u, c)
      BY <1>1, <2>0, <2>1, <3>2 DEF Arrive, Begun, VisionBlocked
    <3>3. ASSUME NEW c \in Chats, Stop(c) \/ New(c)  PROVE FALSE
      BY <1>1, <2>0, <3>3 DEF Stop, New
    <3>4. CASE WebNew \/ Mirror \/ Crash \/ UNCHANGED turnVars
      BY <1>1, <2>0, <2>1, <3>4 DEF WebNew, Mirror, Crash, turnVars, taskVars
    <3> QED  BY <1>1, <2>0, <3>1, <3>2, <3>3, <3>4 DEF TurnNext
  <2>3. chat'[t] = c /\ HistOf(c) = Own[c] /\ Own[c] \in Hists /\ Own[c] \in pristine
    BY <1>1, <2>0, <2>1, <2>2, TurnAssumption DEF Arrive, HistOf
  <2>4. Replaced(c) = {}
    <3>1. TasksInv
      BY <1>1, <2>0 DEF TurnInv
    <3>2. \A r \in Replaced(c) : r \in Turns /\ turnAt[r] \in Live /\ chat[r] = c /\ r = inflight[c] /\ r \in suppress
      BY <1>1, <2>0, <2>3, <3>1, ReplacedTurns DEF ResetHolds
    <3> QED  BY <3>1, <3>2 DEF TasksInv, PlacesHeld
  <2>5. PICK h : h = hist[Own[c]]
    OBVIOUS
  <2>6. Sound(h) /\ h.store = <<>>
    BY <1>1, <2>0, <2>3, <2>5 DEF TurnInv, BooksKept, ResetHolds
  <2>7. Load(h).cache = <<>>
    <3>1. Sound(Load(h)) /\ Load(h).store = <<>>
      BY <2>6, LoadSound
    <3> QED  BY <3>1 DEF Sound
  <2>8. Load(hist[HistOf(c)]).cache = <<>>
    BY <2>3, <2>5, <2>7
  <2>9. prior' = [prior EXCEPT ![t] = Load(hist[HistOf(c)]).cache]
    BY <1>1, <2>0, <2>2, <2>4 DEF Arrive, Begun
  <2> QED  BY <2>0, <2>8, <2>9
<1>2. FreshInv /\ [TurnNext]_turnVars => [\A t \in Turns :
          strict /\ ~streaming /\ turnAt[t] # "running" /\ turnAt'[t] = "running" /\ HistOf(chat'[t]) \in pristine
              => prior'[t] = <<>>]_turnVars
  BY <1>1
<1> QED  BY <1>2, FreshInvariant, PTL DEF TurnSpec, FreshAfterReset

\* The configuration the pruning is right for.
TtlsWithinFloor == \A k \in Keys : TtlOf[k] <= Floor

DedupeTypes ==
    /\ now \in Int
    /\ processed \in [Keys -> Int \cup {Never}]
    /\ accepted \in [Keys -> Int \cup {Never}]

RowsKept ==
    \A k \in Keys :
        \/ accepted[k] = Never /\ processed[k] = Never
        \/ accepted[k] # Never /\ processed[k] = accepted[k]
        \/ accepted[k] # Never /\ processed[k] = Never /\ accepted[k] < now - Floor

DedupeInv == DedupeTypes /\ RowsKept

\* What the DELETE leaves of a row.
LEMMA PrunedRow ==
    ASSUME NEW k \in Keys, NEW table \in [Keys -> Int \cup {Never}], NEW r \in Keys,
           now \in Int, TtlsWithinFloor
    PROVE  /\ Pruned(k, table) \in [Keys -> Int \cup {Never}]
           /\ \/ Pruned(k, table)[r] = table[r]
              \/ Pruned(k, table)[r] = Never /\ table[r] # Never /\ table[r] < now - Floor
<1>1. TtlOf[k] \in Nat /\ Floor \in Nat /\ TtlOf[k] <= Floor
  BY StoreAssumption DEF TtlsWithinFloor
<1>2. (IF TtlOf[k] > Floor THEN TtlOf[k] ELSE Floor) = Floor
  BY <1>1
<1>3. Pruned(k, table) = [s \in Keys |-> IF table[s] # Never /\ table[s] < now - Floor
                                         THEN Never ELSE table[s]]
  BY <1>2 DEF Pruned
<1> QED  BY <1>3

LEMMA DedupeStarts == Init => DedupeInv
<1> QED  BY StoreAssumption DEF Init, DedupeInv, DedupeTypes, RowsKept

LEMMA MarkKeeps ==
    ASSUME DedupeInv, TtlsWithinFloor, NEW k \in Keys, MarkEventProcessed(k)
    PROVE  DedupeInv'
<1> USE DEF DedupeInv, DedupeTypes
<1>1. CASE ~Accepts(k)
  BY <1>1 DEF MarkEventProcessed, RowsKept, dedupeVars
<1>2. CASE Accepts(k)
  <2> DEFINE table == [processed EXCEPT ![k] = now]
  <2>1. /\ processed' = Pruned(k, table)
        /\ accepted' = [accepted EXCEPT ![k] = now]
        /\ now' = now
    BY <1>2 DEF MarkEventProcessed
  <2>2. table \in [Keys -> Int \cup {Never}]
    OBVIOUS
  <2>3. DedupeTypes'
    BY <2>1, <2>2, PrunedRow
  <2>4. ASSUME NEW r \in Keys
        PROVE  \/ accepted'[r] = Never /\ processed'[r] = Never
               \/ accepted'[r] # Never /\ processed'[r] = accepted'[r]
               \/ accepted'[r] # Never /\ processed'[r] = Never /\ accepted'[r] < now' - Floor
    <3>1. \/ processed'[r] = table[r]
          \/ processed'[r] = Never /\ table[r] # Never /\ table[r] < now - Floor
      BY <2>1, <2>2, PrunedRow
    <3>2. Floor \in Nat /\ Never \notin Int
      BY StoreAssumption
    <3>3. CASE r = k
      BY <3>1, <3>2, <3>3, <2>1
    <3>4. CASE r # k
      <4>1. table[r] = processed[r] /\ accepted'[r] = accepted[r]
        BY <3>4, <2>1
      <4> QED  BY <4>1, <3>1, <3>2, <2>1 DEF RowsKept
    <3> QED  BY <3>3, <3>4
  <2> QED  BY <2>3, <2>4 DEF RowsKept
<1> QED  BY <1>1, <1>2

LEMMA DedupeInductive ==
    ASSUME DedupeInv, TtlsWithinFloor, [Next]_vars
    PROVE  DedupeInv'
<1>1. ASSUME NEW k \in Keys, MarkEventProcessed(k) PROVE DedupeInv'
  BY <1>1, MarkKeeps
<1>2. CASE MessageStep \/ UNCHANGED vars
  BY <1>2 DEF MessageStep, StampMessage, InsertRow, Clear, Reboot, vars, dedupeVars, DedupeInv, DedupeTypes, RowsKept
<1>3. CASE Tick
  BY <1>3, StoreAssumption DEF Tick, dedupeVars, DedupeInv, DedupeTypes, RowsKept
<1> QED  BY <1>1, <1>2, <1>3 DEF Next, EventStep

\* mark_event_processed accepts a key again only after its TTL: the pruning of
\* other rows never makes it forget one that still counts.
THEOREM OncePerTtl == ASSUME TtlsWithinFloor PROVE Spec => AcceptedOncePerTtl
<1> DEFINE Step == \A k \in Keys :
                      accepted'[k] # accepted[k] /\ accepted[k] # Never =>
                          now - accepted[k] > TtlOf[k]
<1>1. DedupeInv /\ [Next]_vars => [Step]_vars
  <2> SUFFICES ASSUME DedupeInv, Next, NEW k \in Keys,
                      accepted'[k] # accepted[k], accepted[k] # Never
               PROVE  now - accepted[k] > TtlOf[k]
    OBVIOUS
  <2>1. MarkEventProcessed(k) /\ Accepts(k)
    <3>1. PICK q \in Keys : MarkEventProcessed(q)
      BY DEF Next, EventStep, MessageStep, StampMessage, InsertRow, Clear, Reboot, Tick, dedupeVars
    <3>2. Accepts(q) /\ accepted' = [accepted EXCEPT ![q] = now]
      BY <3>1 DEF MarkEventProcessed, dedupeVars
    <3> QED  BY <3>1, <3>2 DEF DedupeInv, DedupeTypes
  <2>2. /\ TtlOf[k] \in Nat /\ Floor \in Nat /\ TtlOf[k] <= Floor
        /\ now \in Int /\ accepted[k] \in Int
    BY StoreAssumption DEF TtlsWithinFloor, DedupeInv, DedupeTypes
  <2>3. CASE processed[k] = Never
    BY <2>2, <2>3 DEF DedupeInv, RowsKept
  <2>4. CASE processed[k] # Never
    BY <2>1, <2>2, <2>4 DEF DedupeInv, RowsKept, Accepts
  <2> QED  BY <2>3, <2>4
<1> QED  BY <1>1, DedupeStarts, DedupeInductive, PTL DEF Spec, AcceptedOncePerTtl

-----------------------------------------------------------------------------
\* Until the host restarts a stamp is no later than the clock and later than those that
\* were stored when it was taken.
Stamped(m) == m.ts <= mono /\ \A s \in m.after : s < m.ts

RowsInv ==
    /\ rows \in Seq(Message) /\ stamped \subseteq Message /\ mono \in Nat /\ reboots \in Nat
    /\ reboots = 0 => (\A i \in DOMAIN rows : Stamped(rows[i])) /\ \A m \in stamped : Stamped(m)

\* A row that is added comes last.
LEMMA AppendedRow ==
    ASSUME RowsInv, NEW m \in Message
    PROVE  LET s == Append(rows, m)
               l == Len(rows) + 1 IN
           /\ s \in Seq(Message) /\ DOMAIN s = 1..l /\ DOMAIN rows = 1..Len(rows) /\ Len(rows) \in Nat
           /\ s[l] = m /\ \A i \in 1..Len(rows) : s[i] = rows[i]
<1> QED  BY AppendProperties DEF RowsInv

LEMMA RowsInductive == RowsInv /\ [Next]_vars => RowsInv'
<1> SUFFICES ASSUME RowsInv, [Next]_vars  PROVE RowsInv'
  OBVIOUS
<1>1. CASE StampMessage
  <2>1. PICK m : m = [ts |-> mono + 1, after |-> Stamps]
    OBVIOUS
  <2>2. UNCHANGED <<rows, reboots>> /\ mono' = mono + 1 /\ stamped' = stamped \cup {m}
    BY <1>1, <2>1 DEF StampMessage
  <2>3. \A i \in DOMAIN rows : rows[i] \in Message
    BY ElementOfSeq DEF RowsInv
  <2>4. m \in Message /\ m.ts = mono + 1 /\ m.after = Stamps
    BY <2>1, <2>3 DEF RowsInv, Stamps, Message
  <2>5. ASSUME reboots = 0  PROVE m.ts <= mono' /\ \A s \in m.after : s < m.ts
    BY <2>2, <2>3, <2>4, <2>5 DEF RowsInv, Stamps, Stamped, Message
  <2>6. ASSUME reboots = 0, NEW n \in Message, Stamped(n)  PROVE Stamped(n)'
    BY <2>2, <2>6 DEF RowsInv, Stamped, Message
  <2>7. Stamped(m)' <=> m.ts <= mono' /\ \A s \in m.after : s < m.ts
    BY DEF Stamped
  <2> QED  BY <2>2, <2>3, <2>4, <2>5, <2>6, <2>7 DEF RowsInv
<1>2. ASSUME NEW m \in stamped, InsertRow(m)  PROVE RowsInv'
  <2>1. UNCHANGED <<mono, reboots>> /\ stamped' \subseteq stamped /\ m \in Message
    BY <1>2 DEF InsertRow, RowsInv
  <2>2. CASE rows' = rows
    BY <2>1, <2>2 DEF RowsInv, Stamped
  <2>3. CASE rows' = Append(rows, m)
    <3>1. PICK s, l : s = rows' /\ l = Len(rows) + 1
      OBVIOUS
    <3>2. /\ s \in Seq(Message) /\ DOMAIN s = 1..l /\ DOMAIN rows = 1..Len(rows) /\ Len(rows) \in Nat
          /\ s[l] = m /\ \A i \in 1..Len(rows) : s[i] = rows[i]
      BY <2>1, <2>3, <3>1, AppendedRow
    <3>3. \A i \in DOMAIN s : (i \in DOMAIN rows /\ s[i] = rows[i]) \/ s[i] = m
      BY <3>1, <3>2
    <3>4. reboots = 0 => \A i \in DOMAIN s : Stamped(s[i])
      BY <1>2, <3>3 DEF RowsInv
    <3>5. reboots = 0 => \A i \in DOMAIN rows' : Stamped(rows[i])'
      BY <2>1, <3>1, <3>4 DEF Stamped
    <3> QED  BY <2>1, <3>1, <3>2, <3>5 DEF RowsInv, Stamped
  <2> QED  BY <1>2, <2>2, <2>3 DEF InsertRow
<1>3. CASE Clear
  <2>1. rows' = <<>> /\ UNCHANGED <<mono, stamped, reboots>> /\ <<>> \in Seq(Message) /\ DOMAIN <<>> = {}
    BY <1>3, EmptySeq DEF Clear
  <2> QED  BY <2>1 DEF RowsInv, Stamped
<1>4. CASE Reboot
  BY <1>4 DEF Reboot, RowsInv
<1>5. CASE EventStep \/ UNCHANGED vars
  BY <1>5 DEF EventStep, Tick, MarkEventProcessed, rowVars, vars, RowsInv, Stamped
<1> QED  BY <1>1, <1>2, <1>3, <1>4, <1>5 DEF Next, MessageStep

(* SessionStore.RecentIsLatest, for any limit, clock and number of threads: *)
(* until the host restarts load_recent returns with a message every later   *)
(* one, after it, and without overlapping appends exactly the last ones.    *)
THEOREM LatestIsRecent == Spec => []RecentIsLatest
<1>1. Init => RowsInv
  <2>1. <<>> \in Seq(Message) /\ DOMAIN <<>> = {}
    BY EmptySeq
  <2> QED  BY <2>1 DEF Init, RowsInv
<1>2. ASSUME RowsInv, reboots = 0
      PROVE  /\ \A i \in LoadRecent, j \in DOMAIN rows :
                   rows[i].ts \in rows[j].after => j \in LoadRecent /\ rows[i].ts < rows[j].ts
             /\ OneAfterTheOther => LoadRecent = {i \in DOMAIN rows : i > Len(rows) - Limit}
  <2> DEFINE Above(i) == {j \in DOMAIN rows : rows[j].ts > rows[i].ts}
  <2>1. DOMAIN rows = 1..Len(rows) /\ Len(rows) \in Nat /\ Limit \in Nat
    BY <1>2, StoreAssumption DEF RowsInv
  <2>2. \A i \in DOMAIN rows : rows[i].ts \in Nat
    <3>1. \A i \in DOMAIN rows : rows[i] \in Message
      BY <1>2, ElementOfSeq DEF RowsInv
    <3> QED  BY <3>1 DEF Message
  <2>3. \A i, j \in DOMAIN rows : rows[i].ts \in rows[j].after => rows[i].ts < rows[j].ts
    BY <1>2 DEF RowsInv, Stamped
  <2>4. LoadRecent = {i \in DOMAIN rows : Cardinality(Above(i)) < Limit}
    BY DEF LoadRecent
  <2>5. ASSUME NEW i \in LoadRecent, NEW j \in DOMAIN rows, rows[i].ts \in rows[j].after
        PROVE  j \in LoadRecent /\ rows[i].ts < rows[j].ts
    <3>1. i \in DOMAIN rows /\ Cardinality(Above(i)) < Limit
      BY <2>4, <2>5
    <3>2. rows[i].ts < rows[j].ts
      BY <2>3, <2>5, <3>1
    <3>3. Above(j) \subseteq Above(i)
      BY <2>2, <3>1, <3>2
    <3>4. IsFiniteSet(Above(i))
      <4>1. IsFiniteSet(1..Len(rows))
        BY <2>1, FS_Interval
      <4>2. Above(i) \subseteq 1..Len(rows)
        BY <2>1
      <4> QED  BY <4>1, <4>2, FS_Subset
    <3>5. Cardinality(Above(j)) <= Cardinality(Above(i)) /\ Cardinality(Above(j)) \in Nat
          /\ Cardinality(Above(i)) \in Nat
      <4>1. IsFiniteSet(Above(j)) /\ Cardinality(Above(j)) <= Cardinality(Above(i))
        BY <3>3, <3>4, FS_Subset
      <4> QED  BY <3>4, <4>1, FS_CardinalityType
    <3>6. Cardinality(Above(j)) < Limit
      BY <2>1, <3>1, <3>5
    <3> QED  BY <2>4, <3>2, <3>6
  <2>6. ASSUME OneAfterTheOther
        PROVE  LoadRecent = {i \in DOMAIN rows : i > Len(rows) - Limit}
    <3>1. ASSUME NEW i \in DOMAIN rows
          PROVE  Cardinality(Above(i)) = Len(rows) - i
      <4>1. \A j \in DOMAIN rows : rows[j].ts > rows[i].ts <=> j > i
        <5>1. \A j \in DOMAIN rows : j < i \/ j = i \/ j > i
          BY <2>1
        <5>2. \A j \in DOMAIN rows : j < i => rows[j].ts < rows[i].ts
          BY <2>3, <2>6 DEF OneAfterTheOther
        <5>3. \A j \in DOMAIN rows : j > i => rows[i].ts < rows[j].ts
          BY <2>1, <2>3, <2>6 DEF OneAfterTheOther
        <5> QED  BY <2>1, <2>2, <5>1, <5>2, <5>3
      <4>2. Above(i) = (i + 1)..Len(rows)
        BY <2>1, <3>1, <4>1
      <4>3. i + 1 \in Int /\ Len(rows) \in Int /\ i <= Len(rows) /\ i \in Int
        BY <2>1, <3>1
      <4>4. Cardinality((i + 1)..Len(rows)) = IF i + 1 > Len(rows) THEN 0 ELSE Len(rows) - (i + 1) + 1
        BY <4>3, FS_Interval
      <4>5. (IF i + 1 > Len(rows) THEN 0 ELSE Len(rows) - (i + 1) + 1) = Len(rows) - i
        BY <4>3
      <4> QED  BY <4>2, <4>4, <4>5
    <3>2. LoadRecent = {i \in DOMAIN rows : Len(rows) - i < Limit}
      BY <2>4, <3>1
    <3>3. \A i \in DOMAIN rows : Len(rows) - i < Limit <=> i > Len(rows) - Limit
      BY <2>1
    <3> QED  BY <3>2, <3>3
  <2> QED  BY <2>5, <2>6
<1>3. RowsInv => RecentIsLatest
  BY <1>2 DEF RecentIsLatest
<1> QED  BY <1>1, <1>3, RowsInductive, PTL DEF Spec

-----------------------------------------------------------------------------
(* Parts of a sequence. *)

\* f holds elements of s, each position of it another one.
PartOf(f, s) ==
    \E pos \in [DOMAIN f -> DOMAIN s] :
        \A m, n \in DOMAIN f : /\ f[n] = s[pos[n]]
                               /\ pos[m] = pos[n] => m = n

Distinct(s) == \A i, j \in DOMAIN s : s[i] = s[j] => i = j

\* How many of the positions are not after one of them numbers them.
LEMMA PositionsNumbered ==
    ASSUME NEW l \in Nat, NEW ps \in SUBSET (1..l)
    PROVE  /\ Cardinality(ps) \in Nat
           /\ \A n \in 1..Cardinality(ps) : \E i \in ps : Cardinality({j \in ps : j <= i}) = n
<1>1. IsFiniteSet(ps) /\ Cardinality(ps) \in Nat
  <2>1. IsFiniteSet(1..l)
    BY FS_Interval
  <2> QED  BY <2>1, FS_Subset, FS_CardinalityType
<1> DEFINE Upto(i) == {j \in ps : j <= i}
           f == [i \in ps |-> Cardinality(Upto(i))]
           c == Cardinality(ps)
<1>2. ASSUME NEW i \in ps  PROVE IsFiniteSet(Upto(i)) /\ Cardinality(Upto(i)) \in 1..c
  <2>1. Upto(i) \in SUBSET ps /\ i \in Upto(i)
    OBVIOUS
  <2>2. IsFiniteSet(Upto(i)) /\ Cardinality(Upto(i)) <= c /\ Cardinality(Upto(i)) \in Nat
    BY <1>1, <2>1, FS_Subset, FS_CardinalityType
  <2>3. {i} \in SUBSET Upto(i) /\ Cardinality({i}) = 1
    BY <2>1, FS_Singleton
  <2>4. 1 <= Cardinality(Upto(i))
    BY <2>2, <2>3, FS_Subset
  <2> QED  BY <2>2, <2>4, <1>1
<1>3. ASSUME NEW i \in ps, NEW j \in ps, i < j  PROVE f[i] # f[j]
  <2>0. \A u \in ps : u \in Int
    OBVIOUS
  <2>1. Upto(i) \in SUBSET Upto(j) /\ j \in Upto(j) /\ j \notin Upto(i)
    <3>1. \A u \in ps : u <= i => u <= j
      BY <1>3, <2>0
    <3>2. j <= j /\ ~(j <= i)
      BY <1>3, <2>0
    <3> QED  BY <3>1, <3>2
  <2>2. IsFiniteSet(Upto(j))
    BY <1>2
  <2>3. Cardinality(Upto(i)) # Cardinality(Upto(j))
    BY <2>1, <2>2, FS_Subset
  <2> QED  BY <2>3
<1>4. f \in Injection(ps, 1..c)
  <2>1. f \in [ps -> 1..c]
    <3>1. \A i \in ps : Cardinality(Upto(i)) \in 1..c
      BY <1>2
    <3> HIDE DEF Upto, c
    <3> QED  BY <3>1
  <2>2. \A i, j \in ps : f[i] = f[j] => i = j
    <3>1. \A i, j \in ps : i < j \/ j < i \/ i = j
      OBVIOUS
    <3> HIDE DEF f
    <3> QED  BY <1>3, <3>1
  <2> HIDE DEF f
  <2> QED  BY <2>1, <2>2 DEF Injection, IsInjective
<1>5. IsFiniteSet(1..c) /\ Cardinality(1..c) = c
  BY <1>1, FS_Interval
<1>6. f \in Surjection(ps, 1..c)
  <2> HIDE DEF f, c
  <2> QED  BY <1>4, <1>5, FS_Injection DEF c
<1>7. \A n \in 1..c : \E i \in ps : f[i] = n
  BY <1>6 DEF Surjection
<1> QED  BY <1>1, <1>7

\* ToolCarry.AtPositions is the part of s at these positions.
LEMMA AtPositionsPart ==
    ASSUME NEW S, NEW s \in Seq(S), NEW ps \in SUBSET DOMAIN s
    PROVE  LET f == AtPositions(s, ps) IN
           /\ f \in Seq(S) /\ PartOf(f, s)
           /\ \A n \in DOMAIN f : \E i \in ps : f[n] = s[i]
           /\ \A i \in ps : \E n \in DOMAIN f : f[n] = s[i]
<1> DEFINE Place(i) == Cardinality({j \in ps : j <= i})
           c == Cardinality(ps)
           pos == [n \in 1..c |-> CHOOSE i \in ps : Place(i) = n]
           f == AtPositions(s, ps)
<1>1. DOMAIN s = 1..Len(s) /\ Len(s) \in Nat /\ ps \in SUBSET (1..Len(s))
  OBVIOUS
<1>2. c \in Nat /\ \A n \in 1..c : \E i \in ps : Place(i) = n
  BY <1>1, PositionsNumbered
<1>3. \A n \in 1..c : pos[n] \in ps /\ Place(pos[n]) = n
  <2> SUFFICES ASSUME NEW n \in 1..c  PROVE pos[n] \in ps /\ Place(pos[n]) = n
    OBVIOUS
  <2>1. \E i \in ps : Place(i) = n
    BY <1>2
  <2>2. pos[n] = CHOOSE i \in ps : Place(i) = n
    OBVIOUS
  <2> HIDE DEF Place, pos
  <2> QED  BY <2>1, <2>2
<1>4. f = [n \in 1..c |-> s[pos[n]]]
  BY DEF AtPositions
<1>5. \A m, n \in 1..c : pos[m] = pos[n] => m = n
  <2> HIDE DEF pos, Place
  <2> QED  BY <1>3
<1>6. ASSUME NEW i \in ps  PROVE \E n \in 1..c : pos[n] = i
  <2> DEFINE Ord == [n \in 1..c |-> pos[n]]
  <2>1. IsFiniteSet(ps) /\ IsFiniteSet(1..c) /\ Cardinality(1..c) = c
    <3>1. IsFiniteSet(1..Len(s))
      BY <1>1, FS_Interval
    <3>2. IsFiniteSet(ps)
      BY <1>1, <3>1, FS_Subset
    <3>3. IsFiniteSet(1..c) /\ Cardinality(1..c) = c
      <4> HIDE DEF c
      <4> QED  BY <1>2, FS_Interval
    <3> QED  BY <3>2, <3>3
  <2>2. pos \in Injection(1..c, ps)
    <3>1. pos \in [1..c -> ps]
      BY <1>3
    <3> HIDE DEF pos, c
    <3> QED  BY <3>1, <1>5 DEF Injection, IsInjective
  <2>3. pos \in Surjection(1..c, ps)
    <3> HIDE DEF pos
    <3> QED  BY <2>1, <2>2, FS_Injection
  <2> HIDE DEF pos, c
  <2> QED  BY <2>3 DEF Surjection
<1> HIDE DEF pos, c, Place
<1>7. f \in Seq(S) /\ DOMAIN f = 1..c
  <2>1. \A n \in 1..c : s[pos[n]] \in S
    BY <1>1, <1>3, ElementOfSeq
  <2> HIDE DEF f
  <2> QED  BY <1>2, <1>4, <2>1, IsASeq
<1> HIDE DEF f
<1>8. PartOf(f, s)
  <2> DEFINE p == [n \in 1..c |-> pos[n]]
  <2>1. p \in [DOMAIN f -> DOMAIN s]
    BY <1>1, <1>3, <1>7
  <2>2. \A m, n \in DOMAIN f : f[n] = s[p[n]] /\ (p[m] = p[n] => m = n)
    BY <1>4, <1>5, <1>7
  <2> QED  BY <2>1, <2>2 DEF PartOf
<1>9. \A n \in DOMAIN f : \E i \in ps : f[n] = s[i]
  BY <1>3, <1>4, <1>7
<1>10. \A i \in ps : \E n \in DOMAIN f : f[n] = s[i]
  BY <1>4, <1>6, <1>7
<1> QED  BY <1>7, <1>8, <1>9, <1>10 DEF f

LEMMA LastNPart ==
    ASSUME NEW S, NEW s \in Seq(S), NEW n \in Nat \ {0}
    PROVE  LastN(s, n) \in Seq(S) /\ PartOf(LastN(s, n), s) /\ Len(LastN(s, n)) <= n
<1>0. DOMAIN s = 1..Len(s) /\ Len(s) \in Nat /\ n \in Nat
  OBVIOUS
<1>1. CASE Len(s) <= n
  <2>1. LastN(s, n) = s
    BY <1>1 DEF LastN
  <2>2. [i \in DOMAIN s |-> i] \in [DOMAIN s -> DOMAIN s]
    OBVIOUS
  <2>3. PartOf(s, s)
    BY <2>2 DEF PartOf
  <2> QED  BY <1>1, <2>1, <2>3
<1>2. CASE Len(s) > n
  <2> DEFINE m == Len(s) - n + 1
             f == SubSeq(s, m, Len(s))
  <2>1. LastN(s, n) = f
    BY <1>0, <1>2 DEF LastN
  <2>2. m \in Int /\ m >= 1 /\ m <= Len(s) /\ Len(s) \in Int /\ Len(s) - m + 1 = n
    BY <1>0, <1>2
  <2> HIDE DEF m
  <2>3. \A i \in m..Len(s) : s[i] \in S
    BY <2>2, ElementOfSeq
  <2>4. f \in Seq(S) /\ Len(f) = n /\ \A i \in 1..n : f[i] = s[m + i - 1]
    <3>1. /\ SubSeq(s, m, Len(s)) \in Seq(S)
          /\ Len(SubSeq(s, m, Len(s))) = Len(s) - m + 1
          /\ \A i \in 1..(Len(s) - m + 1) : SubSeq(s, m, Len(s))[i] = s[m + i - 1]
      BY <2>2, <2>3, SubSeqProperties
    <3> QED  BY <3>1, <2>2
  <2> HIDE DEF f
  <2>5. DOMAIN f = 1..n
    BY <2>4
  <2> DEFINE p == [i \in 1..n |-> m + i - 1]
  <2>6. p \in [DOMAIN f -> DOMAIN s]
    BY <2>2, <2>5, <1>0
  <2>7. \A i, j \in DOMAIN f : f[j] = s[p[j]] /\ (p[i] = p[j] => i = j)
    BY <2>2, <2>4, <2>5
  <2>8. PartOf(f, s)
    BY <2>6, <2>7 DEF PartOf
  <2> QED  BY <2>1, <2>4, <2>8, <1>0
<1> QED  BY <1>0, <1>1, <1>2

\* What holds of s holds of its parts.
LEMMA PartsKeep ==
    ASSUME NEW f, NEW s, PartOf(f, s)
    PROVE  /\ Elems(f) \subseteq Elems(s)
           /\ Distinct(s) => Distinct(f)
           /\ (\A i, j \in DOMAIN s : s[i].prompt = s[j].prompt => i = j)
                => \A i, j \in DOMAIN f : f[i].prompt = f[j].prompt => i = j
<1>1. PICK pos \in [DOMAIN f -> DOMAIN s] :
        \A m, n \in DOMAIN f : f[n] = s[pos[n]] /\ (pos[m] = pos[n] => m = n)
  BY DEF PartOf
<1>2. Elems(f) \subseteq Elems(s)
  BY <1>1 DEF Elems
<1>3. Distinct(s) => Distinct(f)
  BY <1>1 DEF Distinct
<1> QED  BY <1>1, <1>2, <1>3

LEMMA AppendedElems ==
    ASSUME NEW S, NEW s \in Seq(S), NEW x \in S
    PROVE  /\ Append(s, x) \in Seq(S) /\ Elems(Append(s, x)) = Elems(s) \cup {x}
           /\ Len(Append(s, x)) = Len(s) + 1
           /\ Distinct(s) /\ x \notin Elems(s) => Distinct(Append(s, x))
           /\ (\A i, j \in DOMAIN s : s[i].prompt = s[j].prompt => i = j) /\ (\A e \in Elems(s) : e.prompt # x.prompt)
                => \A i, j \in DOMAIN Append(s, x) : Append(s, x)[i].prompt = Append(s, x)[j].prompt => i = j
<1> DEFINE y == Append(s, x)
           n == Len(s) + 1
<1>1. /\ y \in Seq(S) /\ Len(y) = n /\ \A i \in 1..Len(s) : y[i] = s[i]
      /\ y[n] = x /\ DOMAIN s = 1..Len(s) /\ DOMAIN y = 1..n /\ Len(s) \in Nat
  BY AppendProperties
<1>2. \A i \in DOMAIN y : i \in DOMAIN s \/ i = n
  BY <1>1
<1> HIDE DEF y
<1>3. Elems(y) = Elems(s) \cup {x}
  <2>1. \A e \in Elems(y) : e \in Elems(s) \cup {x}
    BY <1>1, <1>2 DEF Elems
  <2>2. \A e \in Elems(s) \cup {x} : e \in Elems(y)
    BY <1>1, <1>2 DEF Elems
  <2> QED  BY <2>1, <2>2
<1>4. Distinct(s) /\ x \notin Elems(s) => Distinct(y)
  BY <1>1, <1>2 DEF Elems, Distinct
<1>5. (\A i, j \in DOMAIN s : s[i].prompt = s[j].prompt => i = j) /\ (\A e \in Elems(s) : e.prompt # x.prompt)
        => \A i, j \in DOMAIN y : y[i].prompt = y[j].prompt => i = j
  BY <1>1, <1>2 DEF Elems
<1> QED  BY <1>1, <1>3, <1>4, <1>5 DEF y

\* A sequence whose elements differ has as many of them as positions.
LEMMA DistinctCounts ==
    ASSUME NEW S, NEW s \in Seq(S), Distinct(s)
    PROVE  Cardinality(Elems(s)) = Len(s)
<1> DEFINE l == Len(s)
           f == [i \in 1..l |-> s[i]]
<1>1. DOMAIN s = 1..l /\ l \in Nat
  OBVIOUS
<1>2. IsFiniteSet(1..l) /\ Cardinality(1..l) = l
  BY <1>1, FS_Interval
<1>3. f \in [1..l -> Elems(s)] /\ \A e \in Elems(s) : \E i \in 1..l : f[i] = e
  BY <1>1 DEF Elems
<1>4. \A i, j \in 1..l : f[i] = f[j] => i = j
  BY <1>1 DEF Distinct
<1> HIDE DEF f, l
<1>5. f \in Bijection(1..l, Elems(s))
  BY <1>3, <1>4 DEF Bijection, Injection, IsInjective, Surjection
<1>6. ExistsBijection(1..l, Elems(s))
  BY <1>5 DEF ExistsBijection
<1> QED  BY <1>2, <1>6, FS_Bijection DEF l

-----------------------------------------------------------------------------
(* The carryover store. *)

Frames == (1..MaxAttempts) \X Calls
TurnLists == Seq(Turn)
PromptsApart(ts) == \A i, j \in DOMAIN ts : ts[i].prompt = ts[j].prompt => i = j

StoreTypes ==
    /\ lru \in Seq(CarryKeys) /\ forgotten \subseteq CarryKeys
    /\ generation \in [CarryKeys -> Nat] /\ resets \in [CarryKeys -> Nat]
    /\ turns \in [CarryKeys -> TurnLists]

RunTypes ==
    /\ pc \in [Runs -> {"new", "bound", "over"}]
    /\ key \in [Runs -> CarryKeys \cup {None}] /\ prompt \in [Runs -> Prompts \cup {None}]
    /\ bornGen \in [Runs -> Nat] /\ bornResets \in [Runs -> Nat]
    /\ carried \in [Runs -> SUBSET Runs]
    /\ attempt \in [Runs -> Nat] /\ entries \in [Runs -> Seq(Frames)]
    /\ truncated \in [Runs -> BOOLEAN] /\ sawDone \in [Runs -> BOOLEAN]

\* A key the store does not hold has no state; one it never dropped has seen every reset.
StoreHeld ==
    /\ \A k \in CarryKeys \ Elems(lru) : generation[k] = 0 /\ turns[k] = <<>>
    /\ \A k \in CarryKeys \ forgotten : generation[k] = resets[k]

\* A turn of the store is what its run, which is over, left.
TurnsHeld ==
    \A k \in CarryKeys :
        /\ PromptsApart(turns[k])
        /\ \A t \in Elems(turns[k]) :
              /\ pc[t.run] = "over" /\ key[t.run] = k /\ t.entries = entries[t.run]
              /\ k \notin forgotten => bornResets[t.run] = resets[k]

\* A run knows the generation its key had, and buffers the frames of one attempt.
RunsHeld ==
    \A r \in Runs :
        /\ pc[r] # "new" => /\ key[r] \in CarryKeys /\ prompt[r] \in Prompts
                            /\ key[r] \notin forgotten => bornGen[r] = bornResets[r]
        /\ pc[r] = "new" => carried[r] = {}
        /\ Distinct(entries[r]) /\ \A e \in Elems(entries[r]) : e[1] = attempt[r]
        /\ \A s \in carried[r] : /\ pc[s] = "over" /\ key[s] = key[r]
                                 /\ key[r] \notin forgotten => bornResets[s] = bornResets[r]

CarryInv == StoreTypes /\ RunTypes /\ StoreHeld /\ TurnsHeld /\ RunsHeld

LEMMA CarryStarts == CarryInit => CarryInv
<1> SUFFICES ASSUME CarryInit  PROVE CarryInv
  OBVIOUS
<1>1. <<>> \in Seq(CarryKeys) /\ <<>> \in TurnLists /\ <<>> \in Seq(Frames) /\ DOMAIN <<>> = {}
  BY EmptySeq DEF TurnLists
<1>2. Elems(<<>>) = {} /\ Distinct(<<>>) /\ PromptsApart(<<>>)
  BY <1>1 DEF Elems, Distinct, PromptsApart
<1>3. StoreTypes /\ RunTypes
  BY <1>1 DEF CarryInit, StoreTypes, RunTypes
<1>4. StoreHeld /\ TurnsHeld
  BY <1>2 DEF CarryInit, StoreHeld, TurnsHeld
<1>5. RunsHeld
  BY <1>2 DEF CarryInit, RunsHeld
<1> QED  BY <1>3, <1>4, <1>5 DEF CarryInv

LEMMA KeptKeys ==
    ASSUME lru \in Seq(CarryKeys)
    PROVE  Kept \in Seq(CarryKeys) /\ Elems(Kept) \subseteq Elems(lru)
<1>1. PICK ps \in SUBSET DOMAIN lru : ps = {i \in DOMAIN lru : clock - touched[lru[i]] <= IdleTtl}
  OBVIOUS
<1>2. PICK f : f = AtPositions(lru, ps)
  OBVIOUS
<1>3. f \in Seq(CarryKeys) /\ PartOf(f, lru)
  BY <1>2, AtPositionsPart
<1>4. Kept = LastN(f, MaxKeys) /\ MaxKeys \in Nat \ {0}
  BY <1>1, <1>2, CarryAssumption DEF Kept
<1>5. Kept \in Seq(CarryKeys) /\ PartOf(Kept, f)
  BY <1>3, <1>4, LastNPart
<1>6. Elems(Kept) \subseteq Elems(f) /\ Elems(f) \subseteq Elems(lru)
  BY <1>3, <1>5, PartsKeep
<1> QED  BY <1>5, <1>6

\* A key becomes the most recently used one.
LEMMA MovedLast ==
    ASSUME NEW s \in Seq(CarryKeys), NEW k \in CarryKeys
    PROVE  /\ Append(Without(s, k), k) \in Seq(CarryKeys)
           /\ Elems(Append(Without(s, k), k)) = Elems(s) \cup {k}
<1>1. PICK ps \in SUBSET DOMAIN s : ps = {i \in DOMAIN s : s[i] # k}
  OBVIOUS
<1>2. PICK f : f = Without(s, k) /\ f = AtPositions(s, ps)
  BY <1>1 DEF Without
<1>3. /\ f \in Seq(CarryKeys) /\ \A n \in DOMAIN f : \E i \in ps : f[n] = s[i]
      /\ \A i \in ps : \E n \in DOMAIN f : f[n] = s[i]
  BY <1>2, AtPositionsPart
<1>4. Elems(f) = Elems(s) \ {k}
  BY <1>1, <1>3 DEF Elems
<1>5. Append(f, k) \in Seq(CarryKeys) /\ Elems(Append(f, k)) = Elems(f) \cup {k}
  BY <1>3, AppendedElems
<1> QED  BY <1>2, <1>4, <1>5

LEMMA LastStays ==
    ASSUME NEW S, NEW s \in Seq(S), NEW x \in S, NEW n \in Nat \ {0}
    PROVE  x \in Elems(LastN(Append(s, x), n))
<1>1. PICK y : y = Append(s, x)
  OBVIOUS
<1>2. y \in Seq(S) /\ Len(y) = Len(s) + 1 /\ y[Len(y)] = x /\ Len(s) \in Nat /\ DOMAIN y = 1..Len(y)
  BY <1>1, AppendProperties
<1>3. CASE Len(y) <= n
  BY <1>1, <1>2, <1>3 DEF LastN, Elems
<1>4. CASE Len(y) > n
  <2>1. PICK m : m = Len(y) - n + 1
    OBVIOUS
  <2>2. m \in Int /\ m >= 1 /\ m <= Len(y) /\ Len(y) - m + 1 = n /\ Len(y) \in Int /\ n >= 1 /\ n \in Nat
    BY <1>2, <1>4, <2>1
  <2>3. \A i \in m..Len(y) : y[i] \in S
    BY <1>2, <2>2, ElementOfSeq
  <2>4. PICK f : f = SubSeq(y, m, Len(y))
    OBVIOUS
  <2>5. f \in Seq(S) /\ Len(f) = n /\ f[n] = y[m + n - 1]
    <3>1. /\ SubSeq(y, m, Len(y)) \in Seq(S)
          /\ Len(SubSeq(y, m, Len(y))) = Len(y) - m + 1
          /\ \A i \in 1..(Len(y) - m + 1) : SubSeq(y, m, Len(y))[i] = y[m + i - 1]
      BY <2>2, <2>3, SubSeqProperties
    <3> QED  BY <3>1, <2>2, <2>4
  <2>6. m + n - 1 = Len(y) /\ n \in DOMAIN f
    BY <2>2, <2>5
  <2>7. LastN(Append(s, x), n) = f
    <3>1. LastN(y, n) = IF Len(y) <= n THEN y ELSE SubSeq(y, Len(y) - n + 1, Len(y))
      BY DEF LastN
    <3>2. ~(Len(y) <= n)
      BY <1>4, <2>2
    <3> QED  BY <1>1, <2>1, <2>4, <3>1, <3>2
  <2> QED  BY <1>2, <2>5, <2>6, <2>7 DEF Elems
<1> QED  BY <1>2, <1>3, <1>4

\* ToolCarry.Appended: one turn per prompt.
LEMMA TurnAppended ==
    ASSUME NEW ts \in TurnLists, PromptsApart(ts), NEW t \in Turn
    PROVE  /\ Appended(ts, t) \in TurnLists /\ PromptsApart(Appended(ts, t))
           /\ Elems(Appended(ts, t)) \subseteq Elems(ts) \cup {t}
<1>0. ts \in Seq(Turn)
  BY DEF TurnLists
<1>1. PICK ps \in SUBSET DOMAIN ts : ps = {i \in DOMAIN ts : ts[i].prompt # t.prompt}
  OBVIOUS
<1>2. PICK f : f = AtPositions(ts, ps)
  OBVIOUS
<1>3. f \in Seq(Turn) /\ PartOf(f, ts) /\ \A n \in DOMAIN f : \E i \in ps : f[n] = ts[i]
  BY <1>0, <1>2, AtPositionsPart
<1>4. PromptsApart(f) /\ Elems(f) \subseteq Elems(ts)
  BY <1>3, PartsKeep DEF PromptsApart
<1>5. \A e \in Elems(f) : e.prompt # t.prompt
  BY <1>1, <1>3 DEF Elems
<1>6. PICK g : g = Append(f, t)
  OBVIOUS
<1>7. g \in Seq(Turn) /\ Elems(g) = Elems(f) \cup {t} /\ PromptsApart(g)
  BY <1>3, <1>4, <1>5, <1>6, AppendedElems DEF PromptsApart
<1>8. Appended(ts, t) = LastN(g, MaxTurns) /\ MaxTurns \in Nat \ {0}
  BY <1>1, <1>2, <1>6, CarryAssumption DEF Appended
<1>9. Appended(ts, t) \in Seq(Turn) /\ PartOf(Appended(ts, t), g)
  BY <1>7, <1>8, LastNPart
<1>10. PromptsApart(Appended(ts, t)) /\ Elems(Appended(ts, t)) \subseteq Elems(g)
  BY <1>7, <1>9, PartsKeep DEF PromptsApart
<1> QED  BY <1>4, <1>7, <1>9, <1>10 DEF TurnLists

-----------------------------------------------------------------------------
\* Keys are dropped, with their turns; the others stay as they are.
LEMMA Keeps ==
    ASSUME CarryInv, NEW ks \in Seq(CarryKeys), Keep(ks), UNCHANGED resets
    PROVE  /\ StoreTypes' /\ StoreHeld'
           /\ forgotten \subseteq forgotten' /\ \A k \in CarryKeys : turns'[k] \in {turns[k], <<>>}
<1> USE DEF CarryInv, StoreTypes
<1>1. /\ lru' = ks /\ forgotten' = forgotten \cup (Elems(lru) \ Elems(ks))
      /\ generation' = [k \in CarryKeys |-> IF k \in Elems(ks) THEN generation[k] ELSE 0]
      /\ turns' = [k \in CarryKeys |-> IF k \in Elems(ks) THEN turns[k] ELSE <<>>]
  BY DEF Keep
<1>2. <<>> \in TurnLists /\ Elems(lru) \subseteq CarryKeys
  <2>1. \A i \in DOMAIN lru : lru[i] \in CarryKeys
    BY ElementOfSeq
  <2> QED  BY <2>1, EmptySeq DEF TurnLists, Elems
<1>3. StoreTypes'
  BY <1>1, <1>2
<1>4. StoreHeld'
  BY <1>1 DEF StoreHeld
<1> QED  BY <1>1, <1>3, <1>4

\* What the turns and the runs are judged by has not changed, but for dropped keys.
LEMMA TurnsStay ==
    ASSUME TurnsHeld, forgotten \subseteq forgotten', UNCHANGED resets,
           \A k \in CarryKeys : turns'[k] \in {turns[k], <<>>},
           \A r \in Runs : pc[r] = "over" =>
               pc'[r] = "over" /\ key'[r] = key[r] /\ entries'[r] = entries[r] /\ bornResets'[r] = bornResets[r],
           turns \in [CarryKeys -> TurnLists]
    PROVE  TurnsHeld'
<1>1. Elems(<<>>) = {} /\ PromptsApart(<<>>)
  <2>1. DOMAIN <<>> = {}
    OBVIOUS
  <2> QED  BY <2>1 DEF Elems, PromptsApart
<1>2. ASSUME NEW k \in CarryKeys, NEW t \in Elems(turns[k])  PROVE t.run \in Runs
  <2>1. turns[k] \in Seq(Turn)
    BY DEF TurnLists
  <2>2. t \in Turn
    BY <1>2, <2>1, ElementOfSeq DEF Elems
  <2> QED  BY <2>2 DEF Turn
<1>3. ASSUME NEW k \in CarryKeys
      PROVE  /\ PromptsApart(turns'[k])
             /\ \A t \in Elems(turns'[k]) :
                   /\ pc'[t.run] = "over" /\ key'[t.run] = k /\ t.entries = entries'[t.run]
                   /\ k \notin forgotten' => bornResets'[t.run] = resets'[k]
  <2>1. CASE turns'[k] = <<>>
    BY <1>1, <2>1
  <2>2. CASE turns'[k] = turns[k]
    BY <1>2, <2>2 DEF TurnsHeld
  <2> QED  BY <2>1, <2>2
<1> QED  BY <1>3 DEF TurnsHeld, PromptsApart

LEMMA BindKeeps ==
    ASSUME CarryInv, NEW r \in Runs, NEW k \in CarryKeys, NEW p \in Prompts, NEW answered, Bind(r, k, p, answered)
    PROVE  CarryInv'
<1> USE DEF CarryInv
<1>1. Kept \in Seq(CarryKeys) /\ Elems(Kept) \subseteq Elems(lru)
  BY KeptKeys DEF StoreTypes
<1> DEFINE known == k \in Elems(Kept)
<1>2. Append(Without(Kept, k), k) \in Seq(CarryKeys) /\ Elems(Append(Without(Kept, k), k)) = Elems(Kept) \cup {k}
  BY <1>1, MovedLast
<1>3. PICK ks : /\ ks = (IF known THEN Append(Without(Kept, k), k) ELSE Kept) /\ Keep(ks)
                /\ ks \in Seq(CarryKeys) /\ Elems(ks) = Elems(Kept)
  <2>1. CASE known
    BY <1>1, <1>2, <2>1 DEF Bind
  <2>2. CASE ~known
    BY <1>1, <2>2 DEF Bind
  <2> QED  BY <2>1, <2>2
<1>4. /\ pc[r] = "new" /\ pc' = [pc EXCEPT ![r] = "bound"]
      /\ key' = [key EXCEPT ![r] = k] /\ prompt' = [prompt EXCEPT ![r] = p]
      /\ UNCHANGED <<clock, attempt, entries, truncated, sawDone, resets>>
      /\ bornResets' = [bornResets EXCEPT ![r] = resets[k]]
  BY DEF Bind
<1>5. PICK g : g = (IF known THEN generation[k] ELSE 0) /\ bornGen' = [bornGen EXCEPT ![r] = g]
  BY <1>2 DEF Bind
<1>6. PICK c : /\ c = (IF known THEN {t.run : t \in Align(turns[k], answered)} ELSE {})
               /\ carried' = [carried EXCEPT ![r] = c]
  BY <1>2 DEF Bind
<1>7. /\ StoreTypes' /\ StoreHeld' /\ forgotten \subseteq forgotten'
      /\ \A q \in CarryKeys : turns'[q] \in {turns[q], <<>>}
  BY <1>3, <1>4, Keeps
<1>8. \A t \in Elems(turns[k]) : t.run \in Runs
  <2>1. turns[k] \in Seq(Turn)
    BY DEF StoreTypes, TurnLists
  <2>2. \A t \in Elems(turns[k]) : t \in Turn
    BY <2>1, ElementOfSeq DEF Elems
  <2> QED  BY <2>2 DEF Turn
<1>9. c \in SUBSET Runs /\ \A s \in c : \E t \in Elems(turns[k]) : s = t.run
  BY <1>6, <1>8 DEF Align
<1>10. g \in Nat
  BY <1>5 DEF StoreTypes
<1>11. RunTypes'
  BY <1>4, <1>5, <1>6, <1>9, <1>10 DEF RunTypes, StoreTypes
<1>12. TurnsHeld'
  <2>1. \A q \in Runs : pc[q] = "over" =>
          pc'[q] = "over" /\ key'[q] = key[q] /\ entries'[q] = entries[q] /\ bornResets'[q] = bornResets[q]
    BY <1>4 DEF RunTypes
  <2> QED  BY <1>4, <1>7, <2>1, TurnsStay DEF StoreTypes
\* A key that was never dropped and is not known has no generation yet.
<1>13. k \notin forgotten' => g = resets[k] /\ k \notin forgotten
  <2>1. k \notin Elems(ks) /\ k \notin forgotten' => k \notin Elems(lru) /\ k \notin forgotten
    BY <1>3 DEF Keep
  <2> QED  BY <1>2, <1>3, <1>5, <1>7, <2>1 DEF StoreHeld
<1>14. \A s \in c : /\ pc[s] = "over" /\ key[s] = k /\ s \in Runs /\ s # r
                    /\ k \notin forgotten => bornResets[s] = resets[k]
  BY <1>4, <1>8, <1>9 DEF TurnsHeld
<1>15. ASSUME NEW q \in Runs
       PROVE  /\ pc'[q] # "new" => /\ key'[q] \in CarryKeys /\ prompt'[q] \in Prompts
                                   /\ key'[q] \notin forgotten' => bornGen'[q] = bornResets'[q]
              /\ pc'[q] = "new" => carried'[q] = {}
              /\ Distinct(entries'[q]) /\ \A e \in Elems(entries'[q]) : e[1] = attempt'[q]
              /\ \A s \in carried'[q] : /\ pc'[s] = "over" /\ key'[s] = key'[q]
                                        /\ key'[q] \notin forgotten' => bornResets'[s] = bornResets'[q]
  <2>1. CASE q = r
    <3>1. /\ pc'[q] = "bound" /\ key'[q] = k /\ prompt'[q] = p /\ bornGen'[q] = g /\ bornResets'[q] = resets[k]
          /\ carried'[q] = c /\ entries' = entries /\ attempt' = attempt
      BY <1>4, <1>5, <1>6, <2>1 DEF RunTypes
    <3>2. \A s \in c : pc'[s] = pc[s] /\ key'[s] = key[s] /\ bornResets'[s] = bornResets[s]
      BY <1>4, <1>14 DEF RunTypes
    <3> QED  BY <1>13, <1>14, <3>1, <3>2, <2>1 DEF RunsHeld
  <2>2. CASE q # r
    <3>1. /\ pc'[q] = pc[q] /\ key'[q] = key[q] /\ prompt'[q] = prompt[q] /\ bornGen'[q] = bornGen[q]
          /\ bornResets'[q] = bornResets[q] /\ carried'[q] = carried[q] /\ entries' = entries /\ attempt' = attempt
      BY <1>4, <1>5, <1>6, <2>2 DEF RunTypes
    <3>2. \A s \in carried[q] : s \in Runs /\ s # r /\ pc[s] = "over"
      BY <1>4 DEF RunsHeld, RunTypes
    <3>3. \A s \in carried[q] : pc'[s] = pc[s] /\ key'[s] = key[s] /\ bornResets'[s] = bornResets[s]
      BY <1>4, <3>2 DEF RunTypes
    <3> QED  BY <1>7, <3>1, <3>3 DEF RunsHeld
  <2> QED  BY <2>1, <2>2
<1>16. RunsHeld'
  BY <1>15 DEF RunsHeld, Distinct
<1> QED  BY <1>7, <1>11, <1>12, <1>16

LEMMA StoreSame ==
    ASSUME CarryInv, UNCHANGED <<storeVars, resets>>
    PROVE  StoreTypes' /\ StoreHeld' /\ forgotten \subseteq forgotten' /\ turns' = turns
<1> QED  BY DEF storeVars, CarryInv, StoreTypes, StoreHeld

\* A run that is bound buffers frames, and nothing else changes.
LEMMA BufferKeeps ==
    ASSUME CarryInv, NEW r \in Runs, UNCHANGED <<storeVars, resets, pc, key, bornGen, prompt, carried, bornResets>>,
           pc[r] = "bound", RunTypes',
           \A q \in Runs : q # r => entries'[q] = entries[q] /\ attempt'[q] = attempt[q],
           Distinct(entries'[r]), \A e \in Elems(entries'[r]) : e[1] = attempt'[r]
    PROVE  CarryInv'
<1> USE DEF CarryInv
<1>1. StoreTypes' /\ StoreHeld' /\ forgotten \subseteq forgotten' /\ turns' = turns /\ forgotten' = forgotten
  BY StoreSame DEF storeVars
<1>2. TurnsHeld'
  <2>1. \A k \in CarryKeys : turns'[k] \in {turns[k], <<>>}
    BY <1>1
  <2>2. \A q \in Runs : pc[q] = "over" =>
          pc'[q] = "over" /\ key'[q] = key[q] /\ entries'[q] = entries[q] /\ bornResets'[q] = bornResets[q]
    OBVIOUS
  <2>3. turns \in [CarryKeys -> TurnLists] /\ TurnsHeld
    BY DEF StoreTypes
  <2> QED  BY <1>1, <2>1, <2>2, <2>3, TurnsStay
<1>3. RunsHeld'
  <2>1. \A q \in Runs : Distinct(entries'[q]) /\ \A e \in Elems(entries'[q]) : e[1] = attempt'[q]
    BY DEF RunsHeld
  <2> QED  BY <1>1, <2>1 DEF RunsHeld, Distinct
<1> QED  BY <1>1, <1>2, <1>3

LEMMA AttemptKeeps ==
    ASSUME CarryInv, NEW r \in Runs, BeginAttempt(r)
    PROVE  CarryInv'
<1>1. /\ pc[r] = "bound" /\ UNCHANGED <<storeVars, resets, pc, key, bornGen, prompt, carried, bornResets>>
      /\ attempt' = [attempt EXCEPT ![r] = @ + 1] /\ entries' = [entries EXCEPT ![r] = <<>>]
      /\ truncated' = [truncated EXCEPT ![r] = FALSE] /\ sawDone' = [sawDone EXCEPT ![r] = FALSE]
  BY DEF BeginAttempt
<1>2. <<>> \in Seq(Frames) /\ Distinct(<<>>) /\ Elems(<<>>) = {}
  <2>1. DOMAIN <<>> = {}
    OBVIOUS
  <2> QED  BY <2>1, EmptySeq DEF Distinct, Elems
<1>3. RunTypes'
  BY <1>1, <1>2 DEF CarryInv, RunTypes
<1>4. entries'[r] = <<>> /\ \A q \in Runs : q # r => entries'[q] = entries[q] /\ attempt'[q] = attempt[q]
  BY <1>1 DEF CarryInv, RunTypes
<1> QED  BY <1>1, <1>2, <1>3, <1>4, BufferKeeps

LEMMA RecordKeeps ==
    ASSUME CarryInv, NEW r \in Runs, NEW a \in 1..MaxAttempts, NEW c \in Calls, Record(r, a, c)
    PROVE  CarryInv'
<1>1. /\ pc[r] = "bound" /\ UNCHANGED <<storeVars, resets, pc, key, bornGen, prompt, carried, bornResets>>
      /\ UNCHANGED <<attempt, sawDone>> /\ a = attempt[r] /\ <<a, c>> \notin Elems(entries[r])
  BY DEF Record
<1>2. PICK x, s : x = <<a, c>> /\ s = entries[r]
  OBVIOUS
<1>3. x \in Frames /\ s \in Seq(Frames) /\ x[1] = a /\ Distinct(s) /\ (\A e \in Elems(s) : e[1] = a) /\ x \notin Elems(s)
  BY <1>1, <1>2 DEF CarryInv, RunTypes, RunsHeld, Frames
<1>4. Append(s, x) \in Seq(Frames) /\ Elems(Append(s, x)) = Elems(s) \cup {x} /\ Distinct(Append(s, x))
  BY <1>3, AppendedElems
<1>5. PICK y : y \in Seq(Frames) /\ Distinct(y) /\ (\A e \in Elems(y) : e[1] = a) /\ entries' = [entries EXCEPT ![r] = y]
  <2>1. CASE Len(entries[r]) >= MaxEntries
    <3>1. entries' = [entries EXCEPT ![r] = s]
      BY <1>2, <2>1 DEF Record, CarryInv, RunTypes
    <3> QED  BY <1>3, <3>1
  <2>2. CASE ~(Len(entries[r]) >= MaxEntries)
    <3>1. entries' = [entries EXCEPT ![r] = Append(s, x)]
      BY <1>2, <2>2 DEF Record
    <3> QED  BY <1>3, <1>4, <3>1
  <2> QED  BY <2>1, <2>2
<1>6. truncated' \in [Runs -> BOOLEAN]
  BY DEF Record, CarryInv, RunTypes
<1>7. RunTypes'
  BY <1>1, <1>5, <1>6 DEF CarryInv, RunTypes
<1>8. entries'[r] = y /\ attempt'[r] = a /\ \A q \in Runs : q # r => entries'[q] = entries[q] /\ attempt'[q] = attempt[q]
  BY <1>1, <1>5 DEF CarryInv, RunTypes
<1> QED  BY <1>1, <1>5, <1>7, <1>8, BufferKeeps

LEMMA DoneKeeps ==
    ASSUME CarryInv, NEW r \in Runs, MarkDone(r)
    PROVE  CarryInv'
<1>1. /\ pc[r] = "bound" /\ UNCHANGED <<storeVars, resets, pc, key, bornGen, prompt, carried, bornResets>>
      /\ UNCHANGED <<attempt, entries, truncated>> /\ sawDone' = [sawDone EXCEPT ![r] = TRUE]
  BY DEF MarkDone
<1>2. RunTypes'
  BY <1>1 DEF CarryInv, RunTypes
<1>3. Distinct(entries'[r]) /\ \A e \in Elems(entries'[r]) : e[1] = attempt'[r]
  BY <1>1 DEF CarryInv, RunsHeld
<1>4. \A q \in Runs : q # r => entries'[q] = entries[q] /\ attempt'[q] = attempt[q]
  BY <1>1
<1> QED  BY <1>1, <1>2, <1>3, <1>4, BufferKeeps

-----------------------------------------------------------------------------
RunEnded(r) ==
    /\ pc[r] = "bound" /\ pc' = [pc EXCEPT ![r] = "over"]
    /\ UNCHANGED <<key, bornGen, prompt, carried, attempt, entries, truncated, sawDone, resets, bornResets>>

LEMMA EndsRun ==
    ASSUME CarryInv, NEW r \in Runs, RunEnded(r), StoreTypes', StoreHeld', TurnsHeld', forgotten \subseteq forgotten'
    PROVE  CarryInv'
<1> USE DEF CarryInv
<1>1. RunTypes'
  BY DEF RunTypes, RunEnded
<1>2. \A q \in Runs : (pc'[q] = "new" <=> pc[q] = "new") /\ (pc[q] = "over" => pc'[q] = "over")
  BY DEF RunTypes, RunEnded
<1>3. RunsHeld'
  <2>1. \A q \in Runs : carried[q] \subseteq Runs
    BY DEF RunTypes
  <2> QED  BY <1>2, <2>1 DEF RunsHeld, RunEnded, Distinct
<1> QED  BY <1>1, <1>3

\* Without a commit the turns are the ones there were, but for dropped keys.
LEMMA EndsQuietly ==
    ASSUME CarryInv, NEW r \in Runs, RunEnded(r), UNCHANGED storeVars \/ Keep(Kept)
    PROVE  CarryInv'
<1> USE DEF CarryInv
<1>1. /\ StoreTypes' /\ StoreHeld' /\ forgotten \subseteq forgotten'
      /\ \A k \in CarryKeys : turns'[k] \in {turns[k], <<>>}
  <2>1. UNCHANGED resets
    BY DEF RunEnded
  <2>2. CASE UNCHANGED storeVars
    BY <2>1, <2>2, StoreSame DEF storeVars
  <2>3. CASE Keep(Kept)
    <3>1. PICK ks : ks = Kept /\ ks \in Seq(CarryKeys) /\ Keep(ks)
      BY <2>3, KeptKeys DEF StoreTypes
    <3> QED  BY <2>1, <3>1, Keeps
  <2> QED  BY <2>2, <2>3
<1>2. TurnsHeld'
  <2>1. \A q \in Runs : pc[q] = "over" =>
          pc'[q] = "over" /\ key'[q] = key[q] /\ entries'[q] = entries[q] /\ bornResets'[q] = bornResets[q]
    BY DEF RunTypes, RunEnded
  <2>2. UNCHANGED resets /\ turns \in [CarryKeys -> TurnLists]
    BY DEF RunEnded, StoreTypes
  <2> QED  BY <1>1, <2>1, <2>2, TurnsStay
<1> QED  BY <1>1, <1>2, EndsRun

LEMMA CommitKeeps ==
    ASSUME CarryInv, NEW r \in Runs, CommitTurn(r), sawDone[r], entries[r] # <<>>, ~Stale(r)
    PROVE  CarryInv'
<1> USE DEF CarryInv
<1>1. RunEnded(r)
  BY DEF CommitTurn, RunEnded
<1>2. PICK k \in CarryKeys : k = key[r]
  BY <1>1 DEF RunEnded, RunsHeld
<1>3. Kept \in Seq(CarryKeys) /\ Elems(Kept) \subseteq Elems(lru)
  BY KeptKeys DEF StoreTypes
<1>4. PICK order : order = LastN(Append(Without(Kept, k), k), MaxKeys)
  OBVIOUS
<1>5. order \in Seq(CarryKeys) /\ Elems(order) \subseteq Elems(Kept) \cup {k} /\ k \in Elems(order)
  <2>1. PICK x : x = Without(Kept, k)
    OBVIOUS
  <2>2. PICK y : y = Append(x, k)
    OBVIOUS
  <2>3. y \in Seq(CarryKeys) /\ Elems(y) = Elems(Kept) \cup {k}
    BY <1>3, <2>1, <2>2, MovedLast
  <2>4. x \in Seq(CarryKeys)
    <3>1. PICK ps \in SUBSET DOMAIN Kept : ps = {i \in DOMAIN Kept : Kept[i] # k}
      OBVIOUS
    <3>2. x = AtPositions(Kept, ps)
      BY <2>1, <3>1 DEF Without
    <3> QED  BY <1>3, <3>2, AtPositionsPart
  <2>5. order = LastN(y, MaxKeys) /\ MaxKeys \in Nat \ {0}
    BY <1>4, <2>1, <2>2, CarryAssumption
  <2>6. order \in Seq(CarryKeys) /\ PartOf(order, y)
    BY <2>3, <2>5, LastNPart
  <2>7. Elems(order) \subseteq Elems(y)
    BY <2>6, PartsKeep
  <2>8. k \in Elems(LastN(Append(x, k), MaxKeys))
    BY <2>4, <2>5, LastStays
  <2> QED  BY <2>2, <2>3, <2>5, <2>6, <2>7, <2>8
<1>6. PICK base : base = IF k \in Elems(Kept) THEN turns[k] ELSE <<>>
  OBVIOUS
<1>7. PICK turn : turn = [prompt |-> prompt[r], run |-> r, entries |-> entries[r], cut |-> truncated[r]]
  OBVIOUS
<1>8. PICK ts : ts = Appended(base, turn)
  OBVIOUS
<1>9. /\ lru' = order
      /\ forgotten' = forgotten \cup (Elems(lru) \ (Elems(order) \cap Elems(Kept)))
      /\ generation' = [q \in CarryKeys |-> IF q \in Elems(order) \cap Elems(Kept) THEN generation[q] ELSE 0]
      /\ turns' = [q \in CarryKeys |-> IF q = k THEN ts ELSE IF q \in Elems(order) THEN turns[q] ELSE <<>>]
  <2>1. PICK ready \in BOOLEAN : ready <=> sawDone[r] /\ entries[r] # <<>>
    OBVIOUS
  <2> QED  BY <1>2, <1>4, <1>6, <1>7, <1>8 DEF CommitTurn
<1>10. turn \in Turn /\ turn.run = r /\ turn.entries = entries[r]
  BY <1>1, <1>7 DEF Turn, RunTypes, RunsHeld, RunEnded, Frames
<1>11. <<>> \in TurnLists /\ Elems(<<>>) = {} /\ PromptsApart(<<>>)
  <2>1. DOMAIN <<>> = {}
    OBVIOUS
  <2> QED  BY <2>1, EmptySeq DEF TurnLists, Elems, PromptsApart
<1>12. base \in TurnLists /\ PromptsApart(base) /\ Elems(base) \subseteq Elems(turns[k])
  BY <1>6, <1>11 DEF StoreTypes, TurnsHeld
<1>13. ts \in TurnLists /\ PromptsApart(ts) /\ Elems(ts) \subseteq Elems(base) \cup {turn}
  BY <1>8, <1>10, <1>12, TurnAppended
<1>14. Elems(lru) \subseteq CarryKeys
  <2>1. \A i \in DOMAIN lru : lru[i] \in CarryKeys
    BY ElementOfSeq DEF StoreTypes
  <2> QED  BY <2>1 DEF Elems
<1>15. StoreTypes' /\ forgotten \subseteq forgotten'
  BY <1>1, <1>5, <1>9, <1>11, <1>13, <1>14 DEF StoreTypes, RunEnded
<1>16. StoreHeld'
  <2>1. \A q \in CarryKeys \ Elems(order) : generation'[q] = 0 /\ turns'[q] = <<>>
    BY <1>5, <1>9
  <2>2. \A q \in CarryKeys \ forgotten' : generation'[q] = resets[q]
    BY <1>5, <1>9 DEF StoreHeld
  <2> QED  BY <1>1, <1>9, <2>1, <2>2 DEF StoreHeld, RunEnded
\* The run was bound after the last reset of a key that was never dropped.
<1>17. k \notin forgotten' => bornResets[r] = resets[k]
  <2> SUFFICES ASSUME k \notin forgotten'  PROVE bornResets[r] = resets[k]
    OBVIOUS
  <2>1. k \notin forgotten /\ bornGen[r] = bornResets[r] /\ generation[k] = resets[k]
    BY <1>1, <1>2, <1>15 DEF RunsHeld, StoreHeld, RunEnded
  <2>2. CASE k \in Elems(Kept)
    BY <1>2, <2>1, <2>2 DEF Stale
  <2>3. CASE k \notin Elems(Kept)
    <3>1. k \notin Elems(lru)
      BY <1>9, <2>3
    <3>2. generation[k] = 0 /\ bornGen[r] = 0
      BY <1>2, <2>3, <3>1 DEF StoreHeld, Stale
    <3> QED  BY <2>1, <3>2
  <2> QED  BY <2>2, <2>3
<1>18. \A t \in Elems(turns[k]) : t.run \in Runs
  <2>1. turns[k] \in Seq(Turn)
    BY DEF StoreTypes, TurnLists
  <2>2. \A t \in Elems(turns[k]) : t \in Turn
    BY <2>1, ElementOfSeq DEF Elems
  <2> QED  BY <2>2 DEF Turn
<1>19. ASSUME NEW q \in CarryKeys
       PROVE  /\ PromptsApart(turns'[q])
              /\ \A t \in Elems(turns'[q]) :
                    /\ pc'[t.run] = "over" /\ key'[t.run] = q /\ t.entries = entries'[t.run]
                    /\ q \notin forgotten' => bornResets'[t.run] = resets'[q]
  <2>1. \A s \in Runs : pc[s] = "over" => pc'[s] = "over"
    BY <1>1 DEF RunTypes, RunEnded
  <2>2. UNCHANGED <<key, entries, bornResets, resets>> /\ pc'[r] = "over"
    BY <1>1 DEF RunEnded, RunTypes
  <2>3. CASE q = k
    <3>1. turns'[q] = ts
      BY <1>9, <2>3
    <3>2. \A t \in Elems(ts) : t = turn \/ t \in Elems(turns[k])
      BY <1>12, <1>13
    <3>3. \A t \in Elems(turns[k]) :
            /\ pc'[t.run] = "over" /\ key[t.run] = k /\ t.entries = entries[t.run]
            /\ k \notin forgotten' => bornResets[t.run] = resets[k]
      BY <1>15, <1>18, <2>1 DEF TurnsHeld
    <3> QED  BY <1>2, <1>10, <1>13, <1>17, <2>2, <2>3, <3>1, <3>2, <3>3
  <2>4. CASE q # k
    <3>1. turns'[q] = turns[q] \/ turns'[q] = <<>>
      BY <1>9, <2>4
    <3>2. \A t \in Elems(turns[q]) : t.run \in Runs
      <4>1. turns[q] \in Seq(Turn)
        BY DEF StoreTypes, TurnLists
      <4>2. \A t \in Elems(turns[q]) : t \in Turn
        BY <4>1, ElementOfSeq DEF Elems
      <4> QED  BY <4>2 DEF Turn
    <3> QED  BY <1>11, <1>15, <2>1, <2>2, <3>1, <3>2 DEF TurnsHeld
  <2> QED  BY <2>3, <2>4
<1>20. TurnsHeld'
  BY <1>19 DEF TurnsHeld, PromptsApart
<1> QED  BY <1>1, <1>15, <1>16, <1>20, EndsRun

LEMMA ResetKeeps ==
    ASSUME CarryInv, NEW k \in CarryKeys, Invalidate(k)
    PROVE  CarryInv'
<1> USE DEF CarryInv
<1>1. /\ resets' = [resets EXCEPT ![k] = @ + 1] /\ lru' = Append(Without(lru, k), k)
      /\ generation' = [generation EXCEPT ![k] = @ + 1] /\ turns' = [turns EXCEPT ![k] = <<>>]
      /\ UNCHANGED <<forgotten, runVars, bornResets>>
  BY DEF Invalidate
<1>2. lru' \in Seq(CarryKeys) /\ Elems(lru') = Elems(lru) \cup {k}
  BY <1>1, MovedLast DEF StoreTypes
<1>3. <<>> \in TurnLists /\ Elems(<<>>) = {} /\ PromptsApart(<<>>)
  <2>1. DOMAIN <<>> = {}
    OBVIOUS
  <2> QED  BY <2>1, EmptySeq DEF TurnLists, Elems, PromptsApart
<1>4. StoreTypes'
  BY <1>1, <1>2, <1>3 DEF StoreTypes
<1>5. StoreHeld'
  BY <1>1, <1>2 DEF StoreHeld, StoreTypes
<1>6. RunTypes'
  BY <1>1 DEF RunTypes, runVars
<1>7. ASSUME NEW q \in CarryKeys
      PROVE  /\ PromptsApart(turns'[q])
             /\ \A t \in Elems(turns'[q]) :
                   /\ pc'[t.run] = "over" /\ key'[t.run] = q /\ t.entries = entries'[t.run]
                   /\ q \notin forgotten' => bornResets'[t.run] = resets'[q]
  <2>1. CASE q = k
    <3>1. turns'[q] = <<>>
      BY <1>1, <2>1 DEF StoreTypes
    <3> QED  BY <1>3, <3>1
  <2>2. CASE q # k
    <3>1. turns'[q] = turns[q] /\ resets'[q] = resets[q]
      BY <1>1, <2>2 DEF StoreTypes
    <3>2. UNCHANGED <<pc, key, entries, bornResets, forgotten>>
      BY <1>1 DEF runVars
    <3> QED  BY <3>1, <3>2 DEF TurnsHeld
  <2> QED  BY <2>1, <2>2
<1>8. TurnsHeld'
  BY <1>7 DEF TurnsHeld, PromptsApart
<1>9. RunsHeld'
  BY <1>1 DEF RunsHeld, runVars, Distinct
<1> QED  BY <1>4, <1>5, <1>6, <1>8, <1>9

LEMMA CarryInductive == CarryInv /\ [CarryNext]_carryVars => CarryInv'
<1> SUFFICES ASSUME CarryInv, [CarryNext]_carryVars  PROVE CarryInv'
  OBVIOUS
<1>1. ASSUME NEW r \in Runs, NEW k \in CarryKeys, NEW p \in Prompts, NEW answered \in [Prompts -> 0..2],
             Bind(r, k, p, answered)
      PROVE  CarryInv'
  BY <1>1, BindKeeps
<1>2. ASSUME NEW r \in Runs, BeginAttempt(r) \/ MarkDone(r)  PROVE CarryInv'
  BY <1>2, AttemptKeeps, DoneKeeps
<1>3. ASSUME NEW r \in Runs, NEW a \in 1..MaxAttempts, NEW c \in Calls, Record(r, a, c)  PROVE CarryInv'
  BY <1>3, RecordKeeps
<1>4. ASSUME NEW r \in Runs, CommitTurn(r)  PROVE CarryInv'
  <2>1. CASE sawDone[r] /\ entries[r] # <<>> /\ ~Stale(r)
    BY <1>4, <2>1, CommitKeeps
  <2>2. CASE ~(sawDone[r] /\ entries[r] # <<>> /\ ~Stale(r))
    <3>1. RunEnded(r)
      BY <1>4 DEF CommitTurn, RunEnded
    <3>2. UNCHANGED storeVars \/ Keep(Kept)
      BY <1>4, <2>2 DEF CommitTurn
    <3> QED  BY <3>1, <3>2, EndsQuietly
  <2> QED  BY <2>1, <2>2
<1>5. ASSUME NEW r \in Runs, Abort(r)  PROVE CarryInv'
  <2>1. RunEnded(r) /\ UNCHANGED storeVars
    BY <1>5 DEF Abort, RunEnded
  <2> QED  BY <2>1, EndsQuietly
<1>6. ASSUME NEW k \in CarryKeys, Invalidate(k)  PROVE CarryInv'
  BY <1>6, ResetKeeps
<1>7. CASE Age \/ UNCHANGED carryVars
  <2>1. UNCHANGED <<storeVars, runVars, resets, bornResets>>
    BY <1>7 DEF Age, carryVars
  <2> QED  BY <2>1 DEF storeVars, runVars, CarryInv, StoreTypes, RunTypes, StoreHeld, TurnsHeld, RunsHeld, PromptsApart,
              Distinct
<1> QED  BY <1>1, <1>2, <1>3, <1>4, <1>5, <1>6, <1>7 DEF CarryNext

LEMMA CarryInvariant == CarrySpec => []CarryInv
<1> QED  BY CarryStarts, CarryInductive, PTL DEF CarrySpec

\* ToolCarry.SessionsApart, for any keys, runs, prompts and limits: a turn that was in
\* flight when its session was reset never lands in it, a run carries turns of its own
\* session only, a committed turn is one attempt at one prompt, each call once.
THEOREM SessionsStayApart == CarrySpec => []SessionsApart
<1>1. ASSUME CarryInv  PROVE SessionsApart
  <2> USE <1>1 DEF CarryInv
  <2>1. NoResurrection
    BY DEF NoResurrection, TurnsHeld
  <2>2. CarriesOwnSession
    BY DEF CarriesOwnSession, RunsHeld
  <2>3. OneTurnPerPrompt
    BY DEF OneTurnPerPrompt, TurnsHeld, PromptsApart
  <2>4. OneAttemptPerTurn
    <3> SUFFICES ASSUME NEW k \in CarryKeys, NEW t \in Elems(turns[k])
                 PROVE  /\ \A e \in Elems(t.entries) : e[1] = attempt[t.run]
                        /\ Cardinality(Elems(t.entries)) = Len(t.entries)
      BY DEF OneAttemptPerTurn
    <3>1. turns[k] \in Seq(Turn)
      BY DEF StoreTypes, TurnLists
    <3>2. t \in Turn
      BY <3>1, ElementOfSeq DEF Elems
    <3>3. t.run \in Runs /\ t.entries = entries[t.run]
      BY <3>2 DEF Turn, TurnsHeld
    <3>4. PICK s : s = t.entries
      OBVIOUS
    <3>5. s \in Seq(Frames) /\ Distinct(s) /\ \A e \in Elems(s) : e[1] = attempt[t.run]
      BY <3>3, <3>4 DEF RunTypes, RunsHeld
    <3>6. Cardinality(Elems(s)) = Len(s)
      BY <3>5, DistinctCounts
    <3> QED  BY <3>4, <3>5, <3>6
  <2> QED  BY <2>1, <2>2, <2>3, <2>4 DEF SessionsApart
<1> QED  BY <1>1, CarryInvariant, PTL

-----------------------------------------------------------------------------
(* The skills and the plugin of the profiles. *)

HubMans == [st : {"none", "active", "inactive"}, aud : SUBSET Homes, owned : SUBSET Homes]
HubSpots == [Homes -> {"none", "own", "plugin", "skill"}]
HubLedgers == [Homes -> {"none", "own", "plugin"}]
HubFiles == HubMans \X HubSpots \X HubLedgers \X SUBSET Homes
HubJobs ==
    [of : SUBSET Hooks, at : Skilled \cup Plugged \cup {"none", "done", "failed"},
     todo : SUBSET Homes, target : SUBSET Homes, owned : SUBSET Homes, here : SUBSET Homes,
     activate : BOOLEAN, saved : {<<>>} \cup {<<f>> : f \in HubFiles}]

HubTypes ==
    /\ hook \in [Hooks -> [st : {"none", "done", "failed"}] \cup [st : {"queued"}, body : Payloads]]
    /\ unwoken \subseteq Hooks /\ listed \subseteq Hooks /\ cut \subseteq Hooks
    /\ lane \in [at : {"off", "down", "list", "empty", "rows", "work"}, asked : BOOLEAN]
    /\ job \in HubJobs
    /\ man \in HubMans /\ spot \in HubSpots /\ ledger \in HubLedgers /\ managed \subseteq Homes
    /\ refusals \in Nat

\* The log and the lane: rows that are listed or in hand are queued, the rows of a job differ
\* in their users only, and what was cut short had been recorded.
RowsHeld ==
    /\ job.of \subseteq Queued /\ listed \subseteq Queued /\ job.of \cap listed = {}
    /\ \A e \in cut : hook[e].st # "none"
    /\ lane.at = "work" <=> job.of # {}
    /\ job.at = "none" <=> job.of = {}
    /\ \A e, f \in job.of :
          /\ Body(e).item = Body(f).item /\ Body(e).type = Body(f).type
          /\ Body(e).status = Body(f).status /\ Body(e).explicit = Body(f).explicit
          /\ Body(e).pkg = Body(f).pkg

\* A pass that has found nothing is told of every row that came since.
WakesHeld ==
    refusals = 0 /\ lane.at \in {"off", "empty"} =>
        \A e \in Queued : \/ Body(e).type = "unknown" \/ e \in unwoken
                          \/ lane.at = "empty" /\ lane.asked

\* What is true of a manifest m and the entries g of the standalone skill at any moment.
FilesSound(m, g) ==
    /\ m.owned \subseteq m.aud
    /\ m.st = "none" => m.aud = {}
    /\ m.st = "active" => m.aud \cap g = {}

WholeIn(m, s, l, g) ==
    m.st = "active" =>
        \A p \in m.aud : /\ p \notin g
                         /\ IF p \in m.owned THEN s[p] = "plugin" /\ l[p] = "plugin" ELSE l[p] = "own"

\* The homes that have an entry of the standalone skill and not the skill.
Lost(s, g) == {p \in g : s[p] \notin {"skill", "plugin"}}

\* The homes an event of the plugin brings it to, whatever the manifest says.
Reach(b) == b.users \cup Always \cup (IF b.type \in Full THEN Sticky ELSE {})

\* The row e of the log h is, if it can still be done again, one of the plugin; and one that
\* would bring it to the home p.
MendsPlugin(h, e) == h[e].st = "queued" => h[e].body.item = "plugin"
Mends(h, e, p, m) ==
    h[e].st = "queued" =>
        /\ h[e].body.item = "plugin" /\ h[e].body.status = "active"
        /\ p \in Reach(h[e].body) \/ (m.st = "inactive" /\ p \in m.aud /\ h[e].body.explicit)

\* What is broken in the files will be mended by an event of c, if by any.
WholeOrCut(h, c, m, s, l, g) == WholeIn(m, s, l, g) \/ \E e \in c : MendsPlugin(h, e)
LostAreCut(h, c, m, lost) == \A p \in lost : \E e \in c : Mends(h, e, p, m)

Installing == {"install", "displaced", "linked"}
Preparing == {"reconcile", "ingest"} \cup Installing

\* What a failure restores: the files of before, or, of a plugin that is not active, the
\* displaced skill.
SavedHeld ==
    /\ job.saved # <<>> =>
          /\ job.at \in Preparing \cup {"health", "done", "failed"}
          /\ FilesSound(job.saved[1][1], job.saved[1][4])
          /\ WholeOrCut(hook, cut, job.saved[1][1], job.saved[1][2], job.saved[1][3], job.saved[1][4])
          /\ LostAreCut(hook, cut, job.saved[1][1], Lost(job.saved[1][2], job.saved[1][4]))
    /\ job.saved = <<>> /\ job.at \in Preparing => man.st # "active"
    /\ job.at = "health" => job.saved # <<>>

FilesHeld ==
    /\ FilesSound(man, managed)
    /\ job.at \notin Preparing => WholeOrCut(hook, cut, man, spot, ledger, managed)
    /\ LostAreCut(hook, cut, man, Lost(spot, managed) \ (IF job.at = "displaced" THEN job.here ELSE {}))

\* The plugin, or an employee's own skill, is in the home p.
Visit(p) ==
    /\ p \notin managed
    /\ IF p \in job.owned THEN spot[p] = "plugin" /\ ledger[p] = "plugin" ELSE ledger[p] = "own"

\* What a job of the plugin has done when it is done.
Mended ==
    /\ WholeIn(man, spot, ledger, managed)
    /\ \A e \in job.of : Body(e).status = "active" =>
          man.st = "active" /\ Reach(Body(e)) \cap managed = {}

\* An update of the plugin, up to the commit of its manifest.
TargetHeld ==
    job.at \in Preparing =>
        /\ \A e \in job.of : Reach(Body(e)) \subseteq job.target
        /\ \A p \in job.target \cap managed : \E e \in job.of :
              p \in Reach(Body(e)) \/ (Body(e).explicit /\ man.st = "inactive" /\ p \in man.aud)

UpdateHeld ==
    /\ TargetHeld
    /\ job.at = "reconcile" => man.st = "active"
    /\ job.at = "ingest" /\ man.st = "inactive" =>
          man.aud \subseteq job.target /\ \A e \in job.of : Body(e).explicit
    /\ job.at \in Installing =>
          /\ man.st # "none" /\ job.activate
          /\ man.st = "inactive" => man.aud = job.target
          /\ job.todo \subseteq job.target /\ job.owned \subseteq job.target \ job.todo
          /\ job.here \subseteq job.todo \cap managed
          /\ \A p, q \in job.here : p = q
          /\ \A p \in job.target \ job.todo : Visit(p)
    /\ job.at \in {"begun", "reconcile", "ingest"} => job.owned = {}
    /\ job.at \in {"begun", "reconcile", "ingest", "install"} => job.here = {}
    /\ job.at = "linked" => \A p \in job.here : spot[p] = "plugin" /\ ledger[p] = "plugin"
    /\ job.at = "health" => Mended

JobHeld ==
    /\ \A e \in job.of :
          /\ job.at \in Plugged => Body(e).item = "plugin"
          /\ job.at \in Preparing \cup {"health"} => Body(e).status = "active"
          /\ job.at = "revoke" => Body(e).status = "inactive"
          /\ job.at \in {"remove", "put"} => Body(e).item = "skill"
    /\ job.at = "revoke" => man.st = "inactive"
    /\ job.at = "remove" => job.todo \subseteq managed
    /\ job.at = "done" => Skippable \/ Mended \/ \A e \in job.of : Body(e).item = "skill"

HubInv == HubTypes /\ RowsHeld /\ WakesHeld /\ SavedHeld /\ FilesHeld /\ UpdateHeld /\ JobHeld

\* A plugin event that says "active" for itself keeps the homes of a plugin that was
\* switched off.
StatusesKeepHomes ==
    \A b \in Payloads :
        b.item = "plugin" /\ b.explicit /\ b.status = "active" => b.type \in Full \cup {"grant"}

-----------------------------------------------------------------------------
(* The log of events and the lane that works it off. *)

\* Before the first event nothing is in hand and nothing is broken.
LEMMA HubStarts == HubInit => HubInv
<1> SUFFICES ASSUME HubInit  PROVE HubInv
  OBVIOUS
<1> USE DEF HubInit
<1>1. HubTypes
  <2>1. job \in HubJobs
    BY DEF HubJobs, NoJob, JobOf
  <2>2. hook \in [Hooks -> [st : {"none", "done", "failed"}] \cup [st : {"queued"}, body : Payloads]]
    OBVIOUS
  <2>3. man \in HubMans /\ spot \in HubSpots /\ ledger \in HubLedgers
    BY DEF HubMans, HubSpots, HubLedgers, NoMan
  <2> QED  BY <2>1, <2>2, <2>3 DEF HubTypes
<1>2. Queued = {}
  BY DEF Queued
<1>3. job.of = {} /\ job.at = "none" /\ job.saved = <<>>
  BY DEF NoJob, JobOf
<1>4. RowsHeld /\ WakesHeld
  BY <1>2, <1>3 DEF RowsHeld, WakesHeld
<1>5. man.st = "none" /\ man.aud = {} /\ man.owned = {}
  BY DEF NoMan
<1>6. FilesHeld
  BY <1>3, <1>5 DEF FilesHeld, FilesSound, WholeOrCut, WholeIn, LostAreCut, Lost
<1>7. SavedHeld /\ UpdateHeld /\ JobHeld
  BY <1>3 DEF SavedHeld, UpdateHeld, TargetHeld, JobHeld, Preparing, Installing, Plugged
<1> QED  BY <1>1, <1>4, <1>6, <1>7 DEF HubInv

\* What a job says is what each of its rows says, and its users are theirs.
LEMMA WorkIs ==
    ASSUME HubInv, job.of # {}
    PROVE  /\ \A e \in job.of : /\ Body(e) \in PayloadSpace
                                /\ Work.item = Body(e).item /\ Work.type = Body(e).type
                                /\ Work.status = Body(e).status /\ Work.pkg = Body(e).pkg
                                /\ Work.explicit = Body(e).explicit
                                /\ Body(e).users \subseteq Work.users
           /\ \A p \in Work.users : \E e \in job.of : p \in Body(e).users
           /\ Work.users \subseteq Homes
<1> DEFINE c == CHOOSE e \in job.of : TRUE
           u == UNION {Body(e).users : e \in job.of}
<1>1. c \in job.of
  OBVIOUS
<1>2. \A e \in job.of : Body(e) \in PayloadSpace
  BY SkillHubAssumption DEF HubInv, RowsHeld, HubTypes, Queued, Body
<1>3. Work = [Body(c) EXCEPT !.users = u]
  BY DEF Work
<1>4. u \subseteq Homes
  BY <1>2 DEF PayloadSpace
<1> HIDE DEF c, u
<1>5. Body(c) \in PayloadSpace
  BY <1>1, <1>2
<1>6. /\ Work.item = Body(c).item /\ Work.type = Body(c).type /\ Work.status = Body(c).status
      /\ Work.pkg = Body(c).pkg /\ Work.explicit = Body(c).explicit /\ Work.users = u
  BY <1>3, <1>5 DEF PayloadSpace
<1>7. \A e \in job.of : Body(e).users \subseteq u
  BY DEF u
<1>8. \A p \in u : \E e \in job.of : p \in Body(e).users
  BY DEF u
<1> QED  BY <1>1, <1>2, <1>4, <1>6, <1>7, <1>8 DEF HubInv, RowsHeld

-----------------------------------------------------------------------------
(* The lane. *)

\* A step that leaves the files, the job and the events it knows alone.
LEMMA LaneMoves ==
    ASSUME HubInv, job' = job, UNCHANGED files, cut' = cut,
           \A e \in Hooks : hook[e].st # "none" => hook'[e] = hook[e]
    PROVE  SavedHeld' /\ FilesHeld' /\ UpdateHeld' /\ JobHeld'
<1>1. job.of \subseteq Hooks /\ \A e \in job.of : hook'[e] = hook[e]
  BY DEF HubInv, RowsHeld, HubTypes, Queued
<1>2. \A e \in job.of : Body(e)' = Body(e)
  BY <1>1 DEF Body
<1>3. \A e \in cut : hook'[e] = hook[e]
  BY DEF HubInv, RowsHeld, HubTypes
<1>4. \A e \in cut : MendsPlugin(hook', e) <=> MendsPlugin(hook, e)
  BY <1>3 DEF MendsPlugin
<1>5. \A m, p : \A e \in cut : Mends(hook', e, p, m) <=> Mends(hook, e, p, m)
  BY <1>3 DEF Mends
<1>6. \A m, s, l, g : WholeOrCut(hook', cut', m, s, l, g) <=> WholeOrCut(hook, cut, m, s, l, g)
  BY <1>4 DEF WholeOrCut
<1>7. \A m, ps : LostAreCut(hook', cut', m, ps) <=> LostAreCut(hook, cut, m, ps)
  BY <1>5 DEF LostAreCut
<1>8. SavedHeld'
  BY <1>6, <1>7 DEF HubInv, SavedHeld, files
<1>9. FilesHeld'
  BY <1>6, <1>7 DEF HubInv, FilesHeld, files
<1>10. Mended' <=> Mended
  BY <1>2 DEF Mended, files
<1>11. UpdateHeld'
  BY <1>2, <1>10 DEF HubInv, UpdateHeld, TargetHeld, Visit, files
<1>12. JobHeld'
  <2>1. CASE job.of = {}
    <3>1. job.at = "none"
      BY <2>1 DEF HubInv, RowsHeld
    <3> QED  BY <2>1, <3>1 DEF JobHeld
  <2>2. CASE job.of # {}
    <3>1. Work' = Work
      <4>1. (CHOOSE e \in job'.of : TRUE) = (CHOOSE e \in job.of : TRUE)
        OBVIOUS
      <4>2. UNION {Body(e)' : e \in job.of} = UNION {Body(e) : e \in job.of}
        BY <1>2
      <4>3. {Body(e).users' : e \in job.of} = {Body(e).users : e \in job.of}
        BY <1>2
      <4> QED  BY <1>2, <2>2, <4>3 DEF Work
    <3>2. Skippable' <=> Skippable
      BY <3>1 DEF Skippable, Target, files
    <3> QED  BY <1>2, <1>10, <3>2 DEF HubInv, JobHeld, files
  <2> QED  BY <2>1, <2>2
<1> QED  BY <1>8, <1>9, <1>11, <1>12

\* A webhook writes the row of an event.
LEMMA HubRecordKeeps ==
    ASSUME HubInv, NEW e \in Hooks, NEW body \in Payloads, RecordEvent(e, body)
    PROVE  HubInv'
<1> USE DEF RecordEvent
<1>1. \A f \in Hooks \ {e} : hook'[f] = hook[f]
  BY DEF HubInv, HubTypes
<1>2. hook'[e] = [st |-> "queued", body |-> body] /\ hook[e].st = "none"
  BY DEF HubInv, HubTypes
<1>3. SavedHeld' /\ FilesHeld' /\ UpdateHeld' /\ JobHeld'
  BY <1>1, <1>2, LaneMoves
<1>4. HubTypes'
  BY DEF HubInv, HubTypes, files
<1>5. Queued' = Queued \cup {e} /\ e \notin Queued
  BY <1>1, <1>2 DEF Queued
<1>6. \A f \in Queued : Body(f)' = Body(f)
  BY <1>1, <1>5 DEF Body, Queued
<1>7. Body(e)' = body
  BY <1>2 DEF Body
<1>8. RowsHeld'
  BY <1>1, <1>2, <1>5, <1>6 DEF HubInv, RowsHeld, HubTypes
<1>9. WakesHeld'
  BY <1>5, <1>6, <1>7 DEF HubInv, WakesHeld
<1> QED  BY <1>3, <1>4, <1>8, <1>9 DEF HubInv

\* A webhook, the pass over the log or the start of the process wakes or leaves the lane.
LEMMA WakeKeeps ==
    ASSUME HubInv,
           (\E e \in Hooks : ScheduleDrain(e)) \/ ListQueued \/ LeaveLane \/ ProcessStarts
    PROVE  HubInv'
<1>1. UNCHANGED <<hook, job, files, cut, refusals>>
  BY DEF ScheduleDrain, ListQueued, LeaveLane, ProcessStarts
<1>2. SavedHeld' /\ FilesHeld' /\ UpdateHeld' /\ JobHeld'
  BY <1>1, LaneMoves
<1>3. Queued' = Queued /\ \A e : Body(e)' = Body(e)
  BY <1>1 DEF Queued, Body
<1>4. Queued \subseteq Hooks
  BY DEF Queued
<1>5. HubTypes' /\ RowsHeld' /\ WakesHeld'
  <2> USE <1>1, <1>3, <1>4 DEF HubInv, HubTypes, RowsHeld, WakesHeld, files
  <2>1. CASE \E e \in Hooks : ScheduleDrain(e)
    <3>1. PICK e \in Hooks : ScheduleDrain(e)
      BY <2>1
    <3>2. CASE lane.at = "off"
      BY <3>1, <3>2 DEF ScheduleDrain
    <3>3. CASE lane.at # "off"
      <4>1. lane' = [lane EXCEPT !.asked = TRUE] /\ lane'.at = lane.at /\ lane'.asked
        BY <3>1, <3>3 DEF ScheduleDrain
      <4> QED  BY <3>1, <3>3, <4>1 DEF ScheduleDrain
    <3> QED  BY <3>2, <3>3
  <2>2. CASE ListQueued
    BY <2>2 DEF ListQueued
  <2>3. CASE LeaveLane
    BY <2>3 DEF LeaveLane
  <2>4. CASE ProcessStarts
    BY <2>4 DEF ProcessStarts
  <2> QED  BY <2>1, <2>2, <2>3, <2>4
<1> QED  BY <1>2, <1>5 DEF HubInv

\* The lane takes a row, or the grants it merges into one.
LEMMA TakeKeeps ==
    ASSUME HubInv, NEW evs \in SUBSET listed, TakeRows(evs)
    PROVE  HubInv'
<1> USE DEF TakeRows
<1>1. job' = JobOf(evs, "begun") /\ job.of = {} /\ job.at = "none"
  BY DEF HubInv, RowsHeld
<1>2. /\ job'.of = evs /\ job'.at = "begun" /\ job'.saved = <<>> /\ job'.owned = {} /\ job'.here = {}
      /\ job'.todo = {} /\ job'.target = {} /\ job' \in HubJobs
  <2>1. evs \subseteq Hooks
    BY DEF HubInv, HubTypes
  <2> QED  BY <1>1, <2>1 DEF JobOf, HubJobs, Skilled
<1>3. Queued' = Queued /\ \A e : Body(e)' = Body(e)
  BY DEF Queued, Body
<1>4. HubTypes'
  BY <1>2 DEF HubInv, HubTypes, files
<1>5. \A e, f \in evs :
          /\ Body(e).item = Body(f).item /\ Body(e).type = Body(f).type
          /\ Body(e).status = Body(f).status /\ Body(e).explicit = Body(f).explicit
          /\ Body(e).pkg = Body(f).pkg
  <2>1. CASE \E e \in evs : evs = {e}
    BY <2>1
  <2>2. CASE \A e, f \in evs : /\ Body(e).item = "plugin" /\ Body(e).type = "grant"
                               /\ [Body(e) EXCEPT !.users = {}] = [Body(f) EXCEPT !.users = {}]
    <3>1. \A e \in evs : Body(e) \in PayloadSpace
      BY SkillHubAssumption DEF HubInv, RowsHeld, HubTypes, Queued, Body
    <3>2. SUFFICES ASSUME NEW e \in evs, NEW f \in evs
          PROVE  /\ Body(e).item = Body(f).item /\ Body(e).type = Body(f).type
                 /\ Body(e).status = Body(f).status /\ Body(e).explicit = Body(f).explicit
                 /\ Body(e).pkg = Body(f).pkg
      OBVIOUS
    <3>3. Body(e) \in PayloadSpace /\ Body(f) \in PayloadSpace
      BY <3>1
    <3>4. [Body(e) EXCEPT !.users = {}] = [Body(f) EXCEPT !.users = {}]
      BY <2>2
    <3> HIDE DEF Body
    <3>5. \A b, d \in PayloadSpace : [b EXCEPT !.users = {}] = [d EXCEPT !.users = {}] =>
              b.item = d.item /\ b.type = d.type /\ b.status = d.status /\ b.explicit = d.explicit /\ b.pkg = d.pkg
      <4> TAKE b, d \in PayloadSpace
      <4> HAVE [b EXCEPT !.users = {}] = [d EXCEPT !.users = {}]
      <4> DEFINE x == [b EXCEPT !.users = {}]  y == [d EXCEPT !.users = {}]
      <4>1. x.item = b.item /\ x.type = b.type /\ x.status = b.status /\ x.explicit = b.explicit /\ x.pkg = b.pkg
        BY DEF PayloadSpace
      <4>2. y.item = d.item /\ y.type = d.type /\ y.status = d.status /\ y.explicit = d.explicit /\ y.pkg = d.pkg
        BY DEF PayloadSpace
      <4> QED  BY <4>1, <4>2
    <3> QED  BY <3>3, <3>4, <3>5
  <2> QED  BY <2>1, <2>2 DEF Mergeable
<1>6. RowsHeld'
  BY <1>2, <1>3, <1>5 DEF HubInv, RowsHeld
<1>7. WakesHeld'
  BY DEF HubInv, WakesHeld
<1>8. SavedHeld'
  BY <1>2 DEF SavedHeld, Preparing, Installing
<1>9. FilesHeld'
  BY <1>1, <1>2 DEF HubInv, FilesHeld, files, Preparing, Installing
<1>10. UpdateHeld' /\ JobHeld'
  BY <1>2 DEF UpdateHeld, JobHeld, TargetHeld, Preparing, Installing, Plugged
<1> QED  BY <1>4, <1>6, <1>7, <1>8, <1>9, <1>10 DEF HubInv

\* Facts about a step that ends the job or the process: nothing is in hand any more.
LEMMA NothingInHand ==
    ASSUME job' = NoJob, hook' \in [Hooks -> [st : {"none", "done", "failed"}] \cup [st : {"queued"}, body : Payloads]]
    PROVE  /\ job' \in HubJobs /\ job'.of = {} /\ job'.at = "none" /\ job'.saved = <<>>
           /\ SavedHeld' /\ UpdateHeld' /\ JobHeld'
<1>1. job' \in HubJobs /\ job'.of = {} /\ job'.at = "none" /\ job'.saved = <<>>
  BY DEF NoJob, JobOf, HubJobs
<1> QED  BY <1>1 DEF SavedHeld, UpdateHeld, TargetHeld, JobHeld, Preparing, Installing, Plugged

\* The rows of a job are marked: an event that is marked done has mended what it could.
LEMMA HubMarkKeeps ==
    ASSUME HubInv, NEW outcome \in {"done", "failed"}, MarkRows(outcome)
    PROVE  HubInv'
<1> USE DEF MarkRows
<1>1. job.of # {} /\ job.of \subseteq Queued /\ job.of \subseteq Hooks
  BY DEF HubInv, RowsHeld, Queued
<1>2. /\ \A e \in job.of : hook'[e] = [st |-> outcome]
      /\ \A e \in Hooks \ job.of : hook'[e] = hook[e]
  <2>1. hook' = [e \in Hooks |-> IF e \in job.of THEN [st |-> outcome] ELSE hook[e]]
    OBVIOUS
  <2> QED  BY ONLY <1>1, <2>1
<1>3. hook' \in [Hooks -> [st : {"none", "done", "failed"}] \cup [st : {"queued"}, body : Payloads]]
  BY DEF HubInv, HubTypes
<1>4. /\ job' \in HubJobs /\ job'.of = {} /\ job'.at = "none"
      /\ SavedHeld' /\ UpdateHeld' /\ JobHeld'
  BY <1>3, NothingInHand
<1>5. Queued' = Queued \ job.of
  BY <1>1, <1>2 DEF Queued
<1>6. \A e \in Queued' : Body(e)' = Body(e)
  BY <1>2, <1>5 DEF Body, Queued
<1>7. cut' \subseteq cut /\ (cut' = cut \/ cut' = cut \ job.of)
  OBVIOUS
<1>8. lane' \in [at : {"off", "down", "list", "empty", "rows", "work"}, asked : BOOLEAN] /\ lane'.at \in {"list", "rows"}
  <2>1. lane \in [at : {"off", "down", "list", "empty", "rows", "work"}, asked : BOOLEAN]
    BY DEF HubInv, HubTypes
  <2>2. CASE listed = {}
    <3>1. lane' = [lane EXCEPT !.at = "list"]
      BY <2>2
    <3> QED  BY <2>1, <3>1
  <2>3. CASE listed # {}
    <3>1. lane' = [lane EXCEPT !.at = "rows"]
      BY <2>3
    <3> QED  BY <2>1, <3>1
  <2> QED  BY <2>2, <2>3
<1>9. HubTypes'
  BY <1>3, <1>4, <1>7, <1>8 DEF HubInv, HubTypes, files
<1>10. RowsHeld'
  <2>1. \A e \in cut' : hook'[e].st # "none"
    BY <1>2, <1>7 DEF HubInv, RowsHeld, HubTypes
  <2> QED  BY <1>1, <1>4, <1>5, <1>6, <1>8, <2>1 DEF HubInv, RowsHeld
<1>11. WakesHeld'
  BY <1>8 DEF WakesHeld
<1>12. FilesHeld'
  <2> USE DEF HubInv, FilesHeld, Preparing, Installing
  <2>1. FilesSound(man', managed')
    BY DEF files
  <2>2. WholeOrCut(hook, cut, man, spot, ledger, managed) /\ LostAreCut(hook, cut, man, Lost(spot, managed))
    OBVIOUS
  <2>3. \A e \in cut : MendsPlugin(hook, e) => MendsPlugin(hook', e)
    BY <1>2 DEF MendsPlugin, HubTypes
  <2>4. \A p : \A e \in cut : Mends(hook, e, p, man) => Mends(hook', e, p, man)
    BY <1>2 DEF Mends, HubTypes
  <2>5. CASE cut' = cut
    <3>1. WholeOrCut(hook', cut', man, spot, ledger, managed)
      BY <2>2, <2>3, <2>5 DEF WholeOrCut
    <3>2. LostAreCut(hook', cut', man, Lost(spot, managed))
      BY <2>2, <2>4, <2>5 DEF LostAreCut
    <3> QED  BY <2>1, <3>1, <3>2, <1>4 DEF files
  <2>6. CASE cut' = cut \ job.of /\ job.at = "done" /\ ~Skippable
    <3>1. Mended \/ \A e \in job.of : Body(e).item = "skill"
      BY <2>6 DEF JobHeld
    <3>2. \A e \in cut \cap job.of : hook[e].st = "queued" /\ hook[e].body = Body(e)
      BY <1>1 DEF Queued, Body
    <3>3. WholeOrCut(hook', cut', man, spot, ledger, managed)
      <4>1. CASE Mended
        BY <4>1 DEF Mended, WholeOrCut
      <4>2. CASE \A e \in job.of : Body(e).item = "skill"
        <5>1. \A e \in cut \cap job.of : ~MendsPlugin(hook, e)
          BY <3>2, <4>2 DEF MendsPlugin
        <5> QED  BY <5>1, <2>2, <2>3, <2>6 DEF WholeOrCut
      <4> QED  BY <3>1, <4>1, <4>2
    <3>4. \A p \in Lost(spot, managed) : \A e \in cut \cap job.of : ~Mends(hook, e, p, man)
      <4> SUFFICES ASSUME NEW p \in Lost(spot, managed), NEW e \in cut \cap job.of, Mends(hook, e, p, man)
                   PROVE  FALSE
        OBVIOUS
      <4>1. /\ Body(e).item = "plugin" /\ Body(e).status = "active"
            /\ p \in Reach(Body(e)) \/ man.st = "inactive"
        BY <3>2 DEF Mends
      <4>2. p \in managed
        BY DEF Lost
      <4>3. Mended
        BY <3>1, <4>1
      <4> QED  BY <4>1, <4>2, <4>3 DEF Mended
    <3>5. LostAreCut(hook', cut', man, Lost(spot, managed))
      BY <3>4, <2>2, <2>4, <2>6 DEF LostAreCut
    <3> QED  BY <2>1, <3>3, <3>5, <1>4 DEF files
  <2> QED  BY <2>5, <2>6
<1> QED  BY <1>4, <1>9, <1>10, <1>11, <1>12 DEF HubInv

\* The log refuses the lane, which goes down with the job in hand.
LEMMA DrainFailsKeeps ==
    ASSUME HubInv, DrainFails
    PROVE  HubInv'
<1> USE DEF DrainFails
<1>1. hook' \in [Hooks -> [st : {"none", "done", "failed"}] \cup [st : {"queued"}, body : Payloads]]
  BY DEF HubInv, HubTypes
<1>2. /\ job' \in HubJobs /\ job'.of = {} /\ job'.at = "none"
      /\ SavedHeld' /\ UpdateHeld' /\ JobHeld'
  BY <1>1, NothingInHand
<1>3. HubTypes'
  BY <1>2 DEF HubInv, HubTypes, files
<1>4. RowsHeld'
  BY <1>2 DEF HubInv, RowsHeld
<1>5. WakesHeld'
  BY DEF WakesHeld, HubInv, HubTypes
<1>6. job.at \notin Preparing
  <2>1. CASE lane.at = "list"
    BY <2>1 DEF HubInv, RowsHeld, Preparing, Installing
  <2>2. CASE job.at \in {"done", "failed"}
    BY <2>2 DEF Preparing, Installing
  <2> QED  BY <2>1, <2>2
<1>7. FilesHeld'
  BY <1>2, <1>6 DEF HubInv, FilesHeld, files, Preparing, Installing
<1> QED  BY <1>2, <1>3, <1>4, <1>5, <1>7 DEF HubInv

\* The process ends: what the job leaves broken is owed by the events it was cut from.
LEMMA HubStopKeeps ==
    ASSUME HubInv, ProcessStops
    PROVE  HubInv'
<1> USE DEF ProcessStops
<1>1. hook' \in [Hooks -> [st : {"none", "done", "failed"}] \cup [st : {"queued"}, body : Payloads]]
  BY DEF HubInv, HubTypes
<1>2. /\ job' \in HubJobs /\ job'.of = {} /\ job'.at = "none"
      /\ SavedHeld' /\ UpdateHeld' /\ JobHeld'
  BY <1>1, NothingInHand
<1>3. job.of \subseteq Queued /\ job.of \subseteq Hooks /\ cut \subseteq cut' /\ cut' \subseteq cut \cup job.of
  BY DEF HubInv, RowsHeld, Queued
<1>4. HubTypes'
  BY <1>2, <1>3 DEF HubInv, HubTypes, files
<1>5. RowsHeld'
  BY <1>2, <1>3 DEF HubInv, RowsHeld, Queued
<1>6. WakesHeld'
  BY DEF WakesHeld
<1>7. FilesHeld'
  <2> USE DEF HubInv, FilesHeld
  <2>1. job.at \in Preparing => job.of # {} /\ cut' = cut \cup job.of
    BY DEF RowsHeld, Preparing, Installing
  <2>2. WholeOrCut(hook, cut', man, spot, ledger, managed)
    <3>1. CASE job.at \notin Preparing
      BY <3>1, <1>3 DEF WholeOrCut
    <3>2. CASE job.at \in Preparing
      <4>1. PICK e \in job.of : TRUE
        BY <2>1, <3>2
      <4>2. MendsPlugin(hook, e)
        BY <3>2 DEF JobHeld, MendsPlugin, Preparing, Installing, Plugged, Body
      <4> QED  BY <4>1, <4>2, <2>1, <3>2 DEF WholeOrCut
    <3> QED  BY <3>1, <3>2
  <2>3. LostAreCut(hook, cut', man, Lost(spot, managed))
    <3> SUFFICES ASSUME NEW p \in Lost(spot, managed)
                 PROVE  \E e \in cut' : Mends(hook, e, p, man)
      BY DEF LostAreCut
    <3>1. CASE job.at = "displaced" /\ p \in job.here
      <4>1. p \in managed /\ p \in job.target
        BY <3>1 DEF Lost, UpdateHeld, Installing
      <4>2. PICK e \in job.of : p \in Reach(Body(e)) \/ (Body(e).explicit /\ man.st = "inactive" /\ p \in man.aud)
        BY <3>1, <4>1 DEF UpdateHeld, TargetHeld, Preparing, Installing
      <4>3. Body(e).item = "plugin" /\ Body(e).status = "active"
        BY <3>1 DEF JobHeld, Plugged, Preparing, Installing
      <4>4. Mends(hook, e, p, man)
        BY <4>2, <4>3 DEF Mends, Body
      <4>5. e \in cut'
        BY <2>1, <3>1 DEF Preparing, Installing
      <4> QED  BY <4>4, <4>5
    <3>2. CASE ~(job.at = "displaced" /\ p \in job.here)
      BY <3>2, <1>3 DEF LostAreCut
    <3> QED  BY <3>1, <3>2
  <2> QED  BY <1>2, <2>2, <2>3 DEF files
<1> QED  BY <1>2, <1>4, <1>5, <1>6, <1>7 DEF HubInv

-----------------------------------------------------------------------------
(* The steps of a job. *)

\* A step of the job leaves the log and the lane alone.
LEMMA JobMoves ==
    ASSUME HubInv, UNCHANGED laneVars, job.at # "none",
           job' \in HubJobs, job'.of = job.of, job'.at # "none",
           man' \in HubMans, spot' \in HubSpots, ledger' \in HubLedgers, managed' \subseteq Homes
    PROVE  /\ HubTypes' /\ RowsHeld' /\ WakesHeld'
           /\ Work' = Work /\ (\A e : Body(e)' = Body(e)) /\ job.of # {}
<1> USE DEF laneVars
<1>1. Queued' = Queued /\ (\A e : Body(e)' = Body(e)) /\ job.of # {}
  BY DEF Queued, Body, HubInv, RowsHeld
<1>2. HubTypes'
  BY DEF HubInv, HubTypes
<1>3. RowsHeld'
  BY <1>1 DEF HubInv, RowsHeld
<1>4. WakesHeld'
  BY <1>1 DEF HubInv, WakesHeld
<1>5. Work' = Work
  BY <1>1 DEF Work, Body
<1> QED  BY <1>1, <1>2, <1>3, <1>4, <1>5

\* What is saved is not touched while the job goes on.
LEMMA SavedStays ==
    ASSUME HubInv, UNCHANGED <<hook, cut>>, job'.saved = job.saved,
           job.saved # <<>> => job'.at \in Preparing \cup {"health", "done", "failed"},
           job.saved = <<>> => job'.at # "health",
           job.saved = <<>> /\ job'.at \in Preparing => man'.st # "active"
    PROVE  SavedHeld'
<1> QED  BY DEF HubInv, SavedHeld

\* A home loses the plugin and nothing else.
LEMMA UninstallIs ==
    ASSUME HubInv, NEW p \in Homes, Uninstalled(p), managed' = managed
    PROVE  /\ spot' \in HubSpots /\ ledger' \in HubLedgers
           /\ \A q \in Homes \ {p} : spot'[q] = spot[q] /\ ledger'[q] = ledger[q]
           /\ Lost(spot', managed') = Lost(spot, managed)
<1> USE DEF Uninstalled
<1>1. spot \in HubSpots /\ ledger \in HubLedgers
  BY DEF HubInv, HubTypes
<1>2. spot' \in HubSpots /\ ledger' \in HubLedgers
  BY <1>1 DEF HubSpots, HubLedgers
<1>3. \A q \in Homes \ {p} : spot'[q] = spot[q] /\ ledger'[q] = ledger[q]
  BY <1>1 DEF HubSpots, HubLedgers
<1>4. \A q \in managed : spot'[q] = spot[q]
  BY <1>1 DEF HubSpots, HubLedgers, HubInv, HubTypes
<1>5. Lost(spot', managed') = Lost(spot, managed)
  BY <1>4 DEF Lost
<1> QED  BY <1>2, <1>3, <1>5

\* An event that says nothing new is done at once.
LEMMA SkipKeeps == ASSUME HubInv, SkipEvent PROVE HubInv'
<1> USE DEF SkipEvent, Goes, files
<1>1. job' \in HubJobs /\ job'.of = job.of /\ job'.at = "done" /\ job'.saved = job.saved /\ job.at = "begun"
  BY DEF HubInv, HubTypes, HubJobs
<1>2. HubTypes' /\ RowsHeld' /\ WakesHeld' /\ Work' = Work /\ \A e : Body(e)' = Body(e)
  BY <1>1, JobMoves DEF HubInv, HubTypes
<1>3. SavedHeld'
  BY <1>1, SavedStays DEF laneVars, Preparing, Installing
<1>4. FilesHeld'
  BY <1>1 DEF HubInv, FilesHeld, laneVars, Preparing, Installing
<1>5. UpdateHeld'
  BY <1>1 DEF UpdateHeld, TargetHeld, Preparing, Installing
<1>6. Skippable'
  BY <1>2 DEF Skippable, Target
<1>7. JobHeld'
  BY <1>1, <1>6 DEF JobHeld, Preparing, Installing, Plugged
<1> QED  BY <1>2, <1>3, <1>4, <1>5, <1>7 DEF HubInv

\* A job fails, and puts back what it saved.
LEMMA FailKeeps == ASSUME HubInv, EventFails PROVE HubInv'
<1> USE DEF EventFails, Goes
<1>1. /\ job' \in HubJobs /\ job'.of = job.of /\ job'.at = "failed" /\ job'.saved = job.saved
      /\ job.at \in Skilled \cup Plugged /\ job.at # "none"
  BY DEF HubInv, HubTypes, HubJobs
<1>2. /\ man' \in HubMans /\ spot' \in HubSpots /\ ledger' \in HubLedgers /\ managed' \subseteq Homes
      /\ FilesHeld'
  <2>1. CASE job.saved # <<>>
    <3>1. PICK f \in HubFiles : job.saved = <<f>>
      BY <2>1 DEF HubInv, HubTypes, HubJobs
    <3>2. man' = f[1] /\ spot' = f[2] /\ ledger' = f[3] /\ managed' = f[4]
      BY <2>1, <3>1 DEF Restore
    <3>3. f[1] \in HubMans /\ f[2] \in HubSpots /\ f[3] \in HubLedgers /\ f[4] \subseteq Homes
      BY <3>1 DEF HubFiles
    <3>4. /\ FilesSound(f[1], f[4]) /\ WholeOrCut(hook, cut, f[1], f[2], f[3], f[4])
          /\ LostAreCut(hook, cut, f[1], Lost(f[2], f[4]))
      BY <2>1, <3>1 DEF HubInv, SavedHeld
    <3>5. FilesHeld'
      BY <1>1, <3>2, <3>4 DEF FilesHeld, laneVars
    <3> QED  BY <3>2, <3>3, <3>5
  <2>2. CASE job.saved = <<>>
    <3>1. /\ UNCHANGED <<man, ledger, managed>>
          /\ spot' = [p \in Homes |-> IF p \in job.here /\ job.at = "displaced" THEN "skill" ELSE spot[p]]
      BY <2>2 DEF Restore
    <3>2. man' \in HubMans /\ spot' \in HubSpots /\ ledger' \in HubLedgers /\ managed' \subseteq Homes
      BY <3>1 DEF HubInv, HubTypes, HubSpots
    <3>3. FilesSound(man', managed')
      BY <3>1 DEF HubInv, FilesHeld
    <3>4. WholeOrCut(hook', cut', man', spot', ledger', managed')
      <4>1. CASE job.at \in Preparing
        BY <4>1, <2>2, <3>1 DEF HubInv, SavedHeld, WholeOrCut, WholeIn
      <4>2. CASE job.at \notin Preparing
        <5>1. job.at # "displaced"
          BY <4>2 DEF Preparing, Installing
        <5>2. spot' = spot
          BY <5>1, <3>1 DEF HubInv, HubTypes, HubSpots
        <5> QED  BY <4>2, <5>2, <3>1 DEF HubInv, FilesHeld, laneVars
      <4> QED  BY <4>1, <4>2
    <3>5. LostAreCut(hook', cut', man', Lost(spot', managed'))
      <4>1. Lost(spot', managed') \subseteq
                Lost(spot, managed) \ (IF job.at = "displaced" THEN job.here ELSE {})
        BY <3>1 DEF Lost, HubInv, HubTypes
      <4> QED  BY <4>1, <3>1 DEF HubInv, FilesHeld, LostAreCut, laneVars
    <3> QED  BY <1>1, <3>2, <3>3, <3>4, <3>5 DEF FilesHeld
  <2> QED  BY <2>1, <2>2
<1>3. HubTypes' /\ RowsHeld' /\ WakesHeld'
  BY <1>1, <1>2, JobMoves
<1>4. SavedHeld'
  BY <1>1, SavedStays DEF laneVars, Preparing, Installing
<1>5. UpdateHeld' /\ JobHeld'
  BY <1>1 DEF UpdateHeld, TargetHeld, JobHeld, Preparing, Installing, Plugged
<1> QED  BY <1>2, <1>3, <1>4, <1>5 DEF HubInv

\* The plugin is switched off, home by home.
LEMMA RevokeKeeps ==
    ASSUME HubInv, Deactivate \/ Revoked \/ (\E p \in Homes : RevokeHome(p))
    PROVE  HubInv'
<1>0. HubTypes
  BY DEF HubInv
<1>1. CASE Deactivate
  <2> USE <1>1 DEF Deactivate, GoesFor, Opens
  <2>1. /\ job' \in HubJobs /\ job'.of = job.of /\ job'.at = "revoke" /\ job'.saved = job.saved
        /\ job'.here = job.here /\ job.at = "begun"
    <3>1. Entries \subseteq Homes
      BY <1>0 DEF Entries, HubTypes, HubMans
    <3> QED  BY <1>0, <3>1 DEF HubTypes, HubJobs, Plugged
  <2>2. /\ man' \in HubMans /\ man'.st = "inactive" /\ man'.aud = man.aud /\ man'.owned = man.owned
    BY <1>0 DEF HubTypes, HubMans
  <2>3. HubTypes' /\ RowsHeld' /\ WakesHeld' /\ Work' = Work /\ (\A e : Body(e)' = Body(e)) /\ job.of # {}
    BY <1>0, <2>1, <2>2, JobMoves DEF HubTypes
  <2>4. SavedHeld'
    BY <2>1, SavedStays DEF laneVars, Preparing, Installing, HubInv, SavedHeld
  <2>5. FilesHeld'
    <3>1. FilesSound(man', managed')
      BY <2>2 DEF HubInv, FilesHeld, FilesSound
    <3>2. WholeOrCut(hook', cut', man', spot', ledger', managed')
      BY <2>2 DEF WholeOrCut, WholeIn
    <3>3. \A e, p : Mends(hook, e, p, man) => Mends(hook, e, p, man')
      BY <2>2 DEF Mends
    <3>4. LostAreCut(hook', cut', man', Lost(spot', managed'))
      BY <3>3, <2>1 DEF HubInv, FilesHeld, LostAreCut, laneVars
    <3> QED  BY <2>1, <3>1, <3>2, <3>4 DEF FilesHeld
  <2>6. UpdateHeld'
    BY <2>1 DEF UpdateHeld, TargetHeld, Preparing, Installing
  <2>7. \A e \in job.of : Body(e).item = "plugin" /\ Body(e).status = "inactive"
    BY <2>3, WorkIs
  <2>8. JobHeld'
    BY <2>1, <2>2, <2>3, <2>7 DEF JobHeld, Preparing, Installing
  <2> QED  BY <2>3, <2>4, <2>5, <2>6, <2>8 DEF HubInv
<1>2. CASE Revoked
  <2> USE <1>2 DEF Revoked, Goes, files
  <2>1. job' \in HubJobs /\ job'.of = job.of /\ job'.at = "done" /\ job'.saved = job.saved /\ job.at = "revoke"
    BY <1>0 DEF HubTypes, HubJobs
  <2>2. HubTypes' /\ RowsHeld' /\ WakesHeld' /\ Work' = Work /\ \A e : Body(e)' = Body(e)
    BY <1>0, <2>1, JobMoves DEF HubTypes
  <2>3. SavedHeld'
    BY <2>1, SavedStays DEF laneVars, Preparing, Installing
  <2>4. FilesHeld'
    BY <2>1 DEF HubInv, FilesHeld, laneVars, Preparing, Installing
  <2>5. UpdateHeld'
    BY <2>1 DEF UpdateHeld, TargetHeld, Preparing, Installing
  <2>6. Mended'
    BY <2>1, <2>2 DEF Mended, WholeIn, HubInv, JobHeld
  <2>7. JobHeld'
    BY <2>1, <2>6 DEF JobHeld, Preparing, Installing, Plugged
  <2> QED  BY <2>2, <2>3, <2>4, <2>5, <2>7 DEF HubInv
<1>3. ASSUME NEW p \in Homes, RevokeHome(p) PROVE HubInv'
  <2> USE <1>3 DEF RevokeHome, Visited
  <2>1. /\ job' \in HubJobs /\ job'.of = job.of /\ job'.at = "revoke" /\ job'.saved = job.saved
        /\ job'.here = job.here /\ job.at = "revoke"
    BY <1>0 DEF HubTypes, HubJobs
  <2>2. spot' \in HubSpots /\ ledger' \in HubLedgers /\ Lost(spot', managed') = Lost(spot, managed)
    BY UninstallIs
  <2>3. HubTypes' /\ RowsHeld' /\ WakesHeld' /\ Work' = Work /\ \A e : Body(e)' = Body(e)
    BY <1>0, <2>1, <2>2, JobMoves DEF HubTypes
  <2>4. SavedHeld'
    BY <2>1, SavedStays DEF laneVars, Preparing, Installing, HubInv, SavedHeld
  <2>5. FilesHeld'
    <3>1. man.st = "inactive"
      BY <2>1 DEF HubInv, JobHeld
    <3>2. WholeOrCut(hook', cut', man', spot', ledger', managed')
      BY <3>1 DEF WholeOrCut, WholeIn
    <3> QED  BY <2>1, <2>2, <3>2 DEF HubInv, FilesHeld, laneVars
  <2>6. UpdateHeld'
    BY <2>1 DEF UpdateHeld, TargetHeld, Preparing, Installing
  <2>7. JobHeld'
    BY <2>1, <2>3 DEF HubInv, JobHeld, Preparing, Installing
  <2> QED  BY <2>3, <2>4, <2>5, <2>6, <2>7 DEF HubInv
<1> QED  BY <1>1, <1>2, <1>3

\* An update of the plugin settles its target and saves the files of an active one.
LEMMA BeginUpdateKeeps == ASSUME HubInv, StatusesKeepHomes, BeginUpdate PROVE HubInv'
<1> USE DEF BeginUpdate, Opens
<1>0. HubTypes /\ job.at = "begun" /\ job.at # "none" /\ job.of # {}
  BY DEF HubInv, RowsHeld
<1>1. /\ \A e \in job.of : /\ Body(e) \in PayloadSpace /\ Body(e) \in Payloads
                            /\ Body(e).item = "plugin" /\ Body(e).status = "active"
                            /\ Body(e).type = Work.type /\ Body(e).explicit = Work.explicit
                            /\ Body(e).users \subseteq Work.users
      /\ \A p \in Work.users : \E e \in job.of : p \in Body(e).users
      /\ Work.users \subseteq Homes
  BY <1>0, WorkIs DEF HubInv, RowsHeld, HubTypes, Queued, Body
<1>2. FilesSound(man, managed) /\ man \in HubMans
  BY <1>0 DEF HubInv, FilesHeld, HubTypes
<1>3. man.st = "inactive" => \A e \in job.of : Body(e).explicit
  BY <1>1 DEF Skippable
<1>4. man.st = "inactive" => man.aud \subseteq Target
  <2> SUFFICES ASSUME man.st = "inactive" PROVE man.aud \subseteq Target
    OBVIOUS
  <2>1. Work.type \in Full \cup {"grant"}
    BY <1>0, <1>1, <1>3 DEF StatusesKeepHomes
  <2> QED  BY <2>1 DEF Target
<1>5. Target \subseteq Homes
  BY <1>1, <1>2, SkillHubAssumption DEF Target, HubMans
<1>6. \A e \in job.of : Reach(Body(e)) \subseteq Target
  BY <1>1 DEF Reach, Target
<1>7. \A p \in Target \cap managed : \E e \in job.of :
          p \in Reach(Body(e)) \/ (Body(e).explicit /\ man.st = "inactive" /\ p \in man.aud)
  <2> SUFFICES ASSUME NEW p \in Target \cap managed
               PROVE  \E e \in job.of :
                        p \in Reach(Body(e)) \/ (Body(e).explicit /\ man.st = "inactive" /\ p \in man.aud)
    OBVIOUS
  <2>1. CASE p \in Work.users
    BY <2>1, <1>1 DEF Reach
  <2>2. CASE p \in Always \/ (Work.type \in Full /\ p \in Sticky)
    BY <2>2, <1>0, <1>1 DEF Reach
  <2>3. CASE p \in man.aud
    <3>1. man.st = "inactive"
      BY <2>3, <1>2 DEF FilesSound, HubMans
    <3> QED  BY <3>1, <2>3, <1>0, <1>3
  <2> QED  BY <2>1, <2>2, <2>3 DEF Target
<1> DEFINE unwanted == IF Work.type \in Full THEN man.aud \ Target ELSE {}
<1>8. unwanted # {} => man.st = "active"
  BY <1>2, <1>4 DEF FilesSound, HubMans
<1>9. /\ job' \in HubJobs /\ job'.of = job.of /\ job'.target = Target
      /\ job'.at \in {"reconcile", "ingest"} /\ (job'.at = "reconcile" => unwanted # {})
      /\ job'.saved = IF man.st = "active" THEN <<files>> ELSE <<>>
      /\ job'.owned = job.owned /\ job'.here = job.here
  <2>1. job \in HubJobs
    BY <1>0 DEF HubTypes
  <2>2. files \in HubFiles
    BY <1>0 DEF HubTypes, HubFiles, files
  <2>3. unwanted \cap Entries \subseteq Homes
    BY <1>2 DEF HubMans
  <2> QED  BY <2>1, <2>2, <2>3, <1>5 DEF HubJobs, Plugged
<1> HIDE DEF unwanted
<1>10. job.owned = {} /\ job.here = {}
  BY <1>0 DEF HubInv, UpdateHeld
<1>11. HubTypes' /\ RowsHeld' /\ WakesHeld' /\ Work' = Work /\ \A e : Body(e)' = Body(e)
  BY <1>0, <1>9, JobMoves DEF HubTypes, files
<1>12. SavedHeld'
  <2>1. WholeOrCut(hook, cut, man, spot, ledger, managed) /\ LostAreCut(hook, cut, man, Lost(spot, managed))
    BY <1>0 DEF HubInv, FilesHeld, Preparing, Installing
  <2>2. CASE man.st = "active"
    <3>1. /\ job'.saved # <<>> /\ job'.saved[1][1] = man /\ job'.saved[1][2] = spot
          /\ job'.saved[1][3] = ledger /\ job'.saved[1][4] = managed
      BY <2>2, <1>9 DEF files
    <3> QED  BY <3>1, <2>1, <1>2, <1>9 DEF SavedHeld, laneVars, Preparing
  <2>3. CASE man.st # "active"
    BY <2>3, <1>9 DEF SavedHeld, files
  <2> QED  BY <2>2, <2>3
<1>13. FilesHeld'
  BY <1>0, <1>9 DEF HubInv, FilesHeld, laneVars, files, Preparing, Installing
<1>14. UpdateHeld'
  BY <1>3, <1>4, <1>6, <1>7, <1>8, <1>9, <1>10, <1>11 DEF UpdateHeld, TargetHeld, files, Preparing, Installing
<1>15. JobHeld'
  BY <1>1, <1>9, <1>11 DEF JobHeld, Preparing, Installing, Plugged
<1> QED  BY <1>11, <1>12, <1>13, <1>14, <1>15 DEF HubInv

\* The plugin leaves a home that is no target any more.
LEMMA DropKeeps == ASSUME HubInv, NEW p \in Homes, DropHome(p) PROVE HubInv'
<1> USE DEF DropHome, Visited
<1>0. HubTypes
  BY DEF HubInv
<1>1. /\ job' \in HubJobs /\ job'.of = job.of /\ job'.at = "reconcile" /\ job'.saved = job.saved
      /\ job'.here = job.here /\ job'.owned = job.owned /\ job'.target = job.target /\ job.at = "reconcile"
  BY <1>0 DEF HubTypes, HubJobs
<1>2. spot' \in HubSpots /\ ledger' \in HubLedgers /\ Lost(spot', managed') = Lost(spot, managed)
  BY UninstallIs
<1>3. HubTypes' /\ RowsHeld' /\ WakesHeld' /\ Work' = Work /\ \A e : Body(e)' = Body(e)
  BY <1>0, <1>1, <1>2, JobMoves DEF HubTypes
<1>4. SavedHeld'
  BY <1>1, SavedStays DEF laneVars, Preparing, Installing, HubInv, SavedHeld
<1>5. FilesHeld'
  BY <1>1, <1>2 DEF HubInv, FilesHeld, laneVars, Preparing
<1>6. UpdateHeld'
  BY <1>1, <1>3 DEF HubInv, UpdateHeld, TargetHeld, Preparing, Installing
<1>7. JobHeld'
  BY <1>1, <1>3 DEF HubInv, JobHeld, Preparing, Installing
<1> QED  BY <1>3, <1>4, <1>5, <1>6, <1>7 DEF HubInv

\* The homes that are no target any more have all been left.
LEMMA ReconciledKeeps == ASSUME HubInv, Reconciled PROVE HubInv'
<1> USE DEF Reconciled, Goes
<1>0. HubTypes /\ man \in HubMans /\ man.st = "active" /\ job.at = "reconcile"
  BY DEF HubInv, UpdateHeld, HubTypes
<1>1. /\ job' \in HubJobs /\ job'.of = job.of /\ job'.at = "ingest" /\ job'.saved = job.saved
      /\ job'.here = job.here /\ job'.owned = job.owned /\ job'.target = job.target
  BY <1>0 DEF HubTypes, HubJobs, Plugged
<1>2. FilesSound(man, managed)
  BY DEF HubInv, FilesHeld
<1>3. /\ man' \in HubMans /\ man'.st # "inactive" /\ man'.aud \subseteq man.aud
      /\ man'.owned \subseteq man'.aud /\ (man'.st = "none" => man'.aud = {})
  <2>1. CASE Entries \subseteq man.aud \ job.target
    BY <2>1 DEF NoMan, HubMans
  <2>2. CASE ~(Entries \subseteq man.aud \ job.target)
    <3>1. Entries \subseteq man.aud
      BY <1>2 DEF Entries, FilesSound
    <3>2. man' = [man EXCEPT !.aud = @ \cap job.target, !.owned = Entries \cap job.target]
      BY <2>2
    <3>3. man'.st = man.st /\ man'.aud = man.aud \cap job.target /\ man'.owned = Entries \cap job.target /\ man' \in HubMans
      BY <3>1, <3>2, <1>0 DEF HubMans
    <3> QED  BY <3>1, <3>3, <1>0
  <2> QED  BY <2>1, <2>2
<1>4. HubTypes' /\ RowsHeld' /\ WakesHeld' /\ Work' = Work /\ \A e : Body(e)' = Body(e)
  BY <1>0, <1>1, <1>3, JobMoves DEF HubTypes
<1>5. job.saved # <<>>
  BY <1>0 DEF HubInv, SavedHeld, Preparing
<1>6. SavedHeld'
  BY <1>1, <1>5, SavedStays DEF laneVars, Preparing
<1>7. FilesHeld'
  <2>1. FilesSound(man', managed')
    BY <1>0, <1>2, <1>3 DEF FilesSound
  <2>2. \A e, p : Mends(hook, e, p, man) => Mends(hook, e, p, man')
    BY <1>0 DEF Mends
  <2>3. LostAreCut(hook', cut', man', Lost(spot', managed'))
    BY <1>0, <2>2 DEF HubInv, FilesHeld, LostAreCut, laneVars
  <2> QED  BY <1>1, <2>1, <2>3 DEF FilesHeld, Preparing
<1>8. UpdateHeld'
  BY <1>0, <1>1, <1>3, <1>4 DEF HubInv, UpdateHeld, TargetHeld, Preparing, Installing
<1>9. JobHeld'
  BY <1>0, <1>1, <1>4 DEF HubInv, JobHeld, Preparing, Installing, Plugged
<1> QED  BY <1>4, <1>6, <1>7, <1>8, <1>9 DEF HubInv

\* The ingest begins, with a provisional manifest if there was none.
LEMMA BeginIngestKeeps == ASSUME HubInv, BeginIngest PROVE HubInv'
<1> USE DEF BeginIngest
<1>0. HubTypes /\ man \in HubMans /\ job \in HubJobs /\ job.at = "ingest" /\ job.of # {}
  BY DEF HubInv, RowsHeld, HubTypes
<1>1. man.st = "inactive" => man.aud \subseteq job.target /\ Work.explicit
  BY <1>0, WorkIs DEF HubInv, UpdateHeld
<1>2. /\ job' \in HubJobs /\ job'.of = job.of /\ job'.at = "install" /\ job'.saved = job.saved
      /\ job'.here = job.here /\ job'.owned = job.owned /\ job'.target = job.target
      /\ job'.todo = job.target /\ job'.activate
  <2>1. (Work.explicit \/ man.st # "inactive") = TRUE
    BY <1>1
  <2>2. job' = [job EXCEPT !.at = "install", !.todo = job.target, !.activate = TRUE]
    BY <2>1
  <2> QED  BY <1>0, <2>2 DEF HubJobs, Plugged
<1>3. /\ man' \in HubMans /\ man'.st # "none"
      /\ man.st = "active" => man' = man
      /\ man.st # "active" => man'.st = "inactive" /\ man'.aud = job.target /\ man'.owned = {}
  BY <1>0 DEF HubMans, HubJobs
<1>4. HubTypes' /\ RowsHeld' /\ WakesHeld' /\ Work' = Work /\ \A e : Body(e)' = Body(e)
  BY <1>0, <1>2, <1>3, JobMoves DEF HubTypes
<1>5. SavedHeld'
  BY <1>0, <1>2, <1>3, SavedStays DEF laneVars, Preparing, Installing, HubInv, SavedHeld
<1>6. FilesHeld'
  <2>1. FilesSound(man', managed')
    BY <1>3 DEF HubInv, FilesHeld, FilesSound
  <2>2. \A e, p : Mends(hook, e, p, man) => Mends(hook, e, p, man')
    BY <1>1, <1>3 DEF Mends
  <2>3. LostAreCut(hook', cut', man', Lost(spot', managed'))
    BY <1>0, <2>2 DEF HubInv, FilesHeld, LostAreCut, laneVars
  <2> QED  BY <1>2, <2>1, <2>3 DEF FilesHeld, Preparing, Installing
<1>7. job.owned = {} /\ job.here = {}
  BY <1>0 DEF HubInv, UpdateHeld
<1>8. UpdateHeld'
  <2>1. TargetHeld'
    BY <1>0, <1>1, <1>2, <1>3, <1>4 DEF HubInv, UpdateHeld, TargetHeld, Preparing
  <2> QED  BY <2>1, <1>0, <1>2, <1>3, <1>7 DEF UpdateHeld, Installing
<1>9. JobHeld'
  BY <1>0, <1>2, <1>4 DEF HubInv, JobHeld, Preparing, Installing, Plugged
<1> QED  BY <1>4, <1>5, <1>6, <1>8, <1>9 DEF HubInv

\* The plugin comes to a home, unless an employee has a skill of that name.
LEMMA InstallKeeps == ASSUME HubInv, NEW p \in Homes, InstallHome(p) PROVE HubInv'
<1> USE DEF InstallHome, Visited
<1>0. /\ HubTypes /\ job \in HubJobs /\ job.at = "install" /\ p \in job.todo
      /\ spot \in HubSpots /\ ledger \in HubLedgers /\ managed \subseteq Homes
  BY DEF HubInv, HubTypes
<1>u. /\ man.st # "none" /\ job.activate /\ (man.st = "inactive" => man.aud = job.target)
      /\ job.todo \subseteq job.target /\ job.owned \subseteq job.target \ job.todo /\ job.here = {}
      /\ \A q \in job.target \ job.todo : Visit(q)
  BY <1>0 DEF HubInv, UpdateHeld, Installing
<1>1. /\ job' \in HubJobs /\ job'.of = job.of /\ job'.at \in {"install", "displaced"} /\ job'.saved = job.saved
      /\ job'.target = job.target /\ job'.activate = job.activate
      /\ spot' \in HubSpots /\ ledger' \in HubLedgers
      /\ \A q \in Homes \ {p} : spot'[q] = spot[q] /\ ledger'[q] = ledger[q]
      /\ job'.at = "displaced" => /\ p \in managed /\ job'.here = {p} /\ job'.todo = job.todo
                                  /\ job'.owned = job.owned
      /\ job'.at = "install" => /\ p \notin managed /\ job'.here = {} /\ job'.todo = job.todo \ {p}
                                /\ \/ job'.owned = job.owned /\ ledger'[p] = "own"
                                   \/ /\ job'.owned = job.owned \cup {p}
                                      /\ spot'[p] = "plugin" /\ ledger'[p] = "plugin"
  <2>1. CASE p \in managed
    <3>1. job' = [job EXCEPT !.at = "displaced", !.here = {p}] /\ spot' = [spot EXCEPT ![p] = "none"] /\ ledger' = ledger
      BY <2>1
    <3>2. job' \in HubJobs
      BY <3>1, <1>0 DEF HubJobs, Plugged
    <3> QED  BY <3>1, <3>2, <2>1, <1>0 DEF HubJobs, HubSpots
  <2>2. CASE p \notin managed /\ ledger[p] = "own"
    <3>1. job' = [job EXCEPT !.todo = job.todo \ {p}] /\ spot' = spot /\ ledger' = ledger
      BY <2>2
    <3> QED  BY <3>1, <2>2, <1>0, <1>u DEF HubJobs
  <2>3. CASE p \notin managed /\ ledger[p] # "own"
    <3>1. /\ job' = [job EXCEPT !.todo = job.todo \ {p}, !.owned = job.owned \cup {p}]
          /\ spot' = [spot EXCEPT ![p] = "plugin"] /\ ledger' = [ledger EXCEPT ![p] = "plugin"]
      BY <2>3
    <3> QED  BY <3>1, <2>3, <1>0, <1>u DEF HubJobs, HubSpots, HubLedgers
  <2> QED  BY <2>1, <2>2, <2>3
<1>2. HubTypes' /\ RowsHeld' /\ WakesHeld' /\ Work' = Work /\ \A e : Body(e)' = Body(e)
  BY <1>0, <1>1, JobMoves DEF HubTypes
<1>3. SavedHeld'
  BY <1>0, <1>1, SavedStays DEF laneVars, Preparing, Installing, HubInv, SavedHeld
<1>4. FilesHeld'
  <2>1. FilesSound(man', managed')
    BY DEF HubInv, FilesHeld
  <2>2. Lost(spot', managed') \ (IF job'.at = "displaced" THEN job'.here ELSE {}) \subseteq Lost(spot, managed)
    BY <1>0, <1>1 DEF Lost
  <2>3. LostAreCut(hook', cut', man', Lost(spot', managed') \ (IF job'.at = "displaced" THEN job'.here ELSE {}))
    BY <1>0, <2>2 DEF HubInv, FilesHeld, LostAreCut, laneVars
  <2> QED  BY <1>1, <2>1, <2>3 DEF FilesHeld, Preparing, Installing
<1>5. TargetHeld'
  BY <1>0, <1>1, <1>2 DEF HubInv, UpdateHeld, TargetHeld, Preparing, Installing
<1>6. \A q \in job'.target \ job'.todo : Visit(q)'
  <2> SUFFICES ASSUME NEW q \in job'.target \ job'.todo PROVE Visit(q)'
    OBVIOUS
  <2>1. q \in Homes
    BY <1>1 DEF HubJobs
  <2>2. CASE q # p
    BY <1>1, <1>u, <2>1, <2>2 DEF Visit
  <2>3. CASE q = p
    BY <1>0, <1>1, <1>u, <2>3 DEF Visit
  <2> QED  BY <2>2, <2>3
<1>7. UpdateHeld'
  BY <1>0, <1>1, <1>5, <1>6, <1>u DEF UpdateHeld, Installing
<1>8. JobHeld'
  BY <1>0, <1>1, <1>2 DEF HubInv, JobHeld, Preparing, Installing, Plugged
<1> QED  BY <1>2, <1>3, <1>4, <1>7, <1>8 DEF HubInv

\* The plugin displaces the standalone skill of a home: files first, then its entry.
LEMMA TakeOverKeeps == ASSUME HubInv, TakeOverHome \/ DropOwnership PROVE HubInv'
<1>0. /\ HubTypes /\ job \in HubJobs /\ spot \in HubSpots /\ ledger \in HubLedgers /\ managed \subseteq Homes
      /\ job.at \in {"displaced", "linked"}
  BY DEF HubInv, HubTypes, TakeOverHome, DropOwnership
<1>u. /\ man.st # "none" /\ job.activate /\ (man.st = "inactive" => man.aud = job.target)
      /\ job.todo \subseteq job.target /\ job.owned \subseteq job.target \ job.todo
      /\ job.here \subseteq job.todo \cap managed /\ (\A p, q \in job.here : p = q)
      /\ \A q \in job.target \ job.todo : Visit(q)
  BY <1>0 DEF HubInv, UpdateHeld, Installing
<1>1. CASE TakeOverHome
  <2> USE <1>1 DEF TakeOverHome, Goes
  <2>1. PICK p \in job.here : /\ spot' = [spot EXCEPT ![p] = "plugin"]
                              /\ ledger' = [ledger EXCEPT ![p] = "plugin"]
    OBVIOUS
  <2>2. p \in Homes /\ job.here = {p} /\ p \in job.todo
    BY <1>0, <1>u DEF HubJobs
  <2>3. /\ job' \in HubJobs /\ job'.of = job.of /\ job'.at = "linked" /\ job'.saved = job.saved
        /\ job'.here = job.here /\ job'.owned = job.owned /\ job'.target = job.target
        /\ job'.todo = job.todo /\ job'.activate = job.activate /\ job.at = "displaced"
    BY <1>0 DEF HubJobs, Plugged
  <2>4. /\ spot' \in HubSpots /\ ledger' \in HubLedgers /\ spot'[p] = "plugin" /\ ledger'[p] = "plugin"
        /\ \A q \in Homes \ {p} : spot'[q] = spot[q] /\ ledger'[q] = ledger[q]
    BY <1>0, <2>1, <2>2 DEF HubSpots, HubLedgers
  <2>5. HubTypes' /\ RowsHeld' /\ WakesHeld' /\ Work' = Work /\ \A e : Body(e)' = Body(e)
    BY <1>0, <2>3, <2>4, JobMoves DEF HubTypes
  <2>6. SavedHeld'
    BY <2>3, SavedStays DEF laneVars, Preparing, Installing, HubInv, SavedHeld
  <2>7. FilesHeld'
    <3>1. Lost(spot', managed') \subseteq Lost(spot, managed) \ job.here
      BY <1>0, <2>2, <2>4 DEF Lost
    <3>2. LostAreCut(hook', cut', man', Lost(spot', managed'))
      BY <2>3, <3>1 DEF HubInv, FilesHeld, LostAreCut, laneVars
    <3> QED  BY <2>3, <3>2 DEF HubInv, FilesHeld, Preparing, Installing
  <2>8. TargetHeld'
    BY <2>3, <2>5 DEF HubInv, UpdateHeld, TargetHeld, Preparing, Installing
  <2>9. \A q \in job'.target \ job'.todo : Visit(q)'
    BY <1>0, <1>u, <2>2, <2>3, <2>4 DEF Visit, HubJobs
  <2>10. UpdateHeld'
    BY <1>u, <2>2, <2>3, <2>4, <2>8, <2>9 DEF UpdateHeld, Installing
  <2>11. JobHeld'
    BY <2>3, <2>5 DEF HubInv, JobHeld, Preparing, Installing, Plugged
  <2> QED  BY <2>5, <2>6, <2>7, <2>10, <2>11 DEF HubInv
<1>2. CASE DropOwnership
  <2> USE <1>2 DEF DropOwnership
  <2>3. /\ job' \in HubJobs /\ job'.of = job.of /\ job'.at = "install" /\ job'.saved = job.saved
        /\ job'.here = {} /\ job'.owned = job.owned \cup job.here /\ job'.target = job.target
        /\ job'.todo = job.todo \ job.here /\ job'.activate = job.activate /\ job.at = "linked"
    BY <1>0 DEF HubJobs, Plugged
  <2>4. \A p \in job.here : spot[p] = "plugin" /\ ledger[p] = "plugin"
    BY <2>3 DEF HubInv, UpdateHeld
  <2>5. HubTypes' /\ RowsHeld' /\ WakesHeld' /\ Work' = Work /\ \A e : Body(e)' = Body(e)
    BY <1>0, <2>3, JobMoves DEF HubTypes
  <2>6. SavedHeld'
    BY <2>3, SavedStays DEF laneVars, Preparing, Installing, HubInv, SavedHeld
  <2>7. FilesHeld'
    <3>1. Lost(spot', managed') \subseteq Lost(spot, managed)
      BY DEF Lost
    <3>2. LostAreCut(hook', cut', man', Lost(spot', managed'))
      BY <2>3, <3>1 DEF HubInv, FilesHeld, LostAreCut, laneVars
    <3>3. FilesSound(man', managed')
      BY DEF HubInv, FilesHeld, FilesSound
    <3> QED  BY <2>3, <3>2, <3>3 DEF FilesHeld, Preparing, Installing
  <2>8. TargetHeld'
    <3>1. job'.target \cap managed' \subseteq job.target \cap managed
      BY <2>3
    <3> QED  BY <2>3, <2>5, <3>1 DEF HubInv, UpdateHeld, TargetHeld, Preparing, Installing
  <2>9. \A q \in job'.target \ job'.todo : Visit(q)'
    BY <1>u, <2>3, <2>4 DEF Visit
  <2>10. UpdateHeld'
    BY <1>u, <2>3, <2>8, <2>9 DEF UpdateHeld, Installing
  <2>11. JobHeld'
    BY <2>3, <2>5 DEF HubInv, JobHeld, Preparing, Installing, Plugged
  <2> QED  BY <2>5, <2>6, <2>7, <2>10, <2>11 DEF HubInv
<1> QED  BY <1>1, <1>2

\* The manifest is committed.
LEMMA ManifestKeeps == ASSUME HubInv, CommitManifest PROVE HubInv'
<1> USE DEF CommitManifest, Goes
<1>0. /\ HubTypes /\ job \in HubJobs /\ man \in HubMans /\ managed \subseteq Homes
      /\ job.at = "install" /\ job.todo = {} /\ job.of # {}
  BY DEF HubInv, HubTypes, RowsHeld
<1>u. /\ man.st # "none" /\ job.activate /\ (man.st = "inactive" => man.aud = job.target)
      /\ job.owned \subseteq job.target /\ \A q \in job.target : Visit(q)
  BY <1>0 DEF HubInv, UpdateHeld, Installing
<1>1. /\ job' \in HubJobs /\ job'.of = job.of /\ job'.saved = job.saved
      /\ job'.at = IF job.saved = <<>> THEN "done" ELSE "health"
  BY <1>0 DEF HubJobs, Plugged
<1>2. /\ man' \in HubMans /\ man'.st = "active" /\ man'.aud = job.target /\ man'.owned = job.owned
  BY <1>0, <1>u DEF HubMans, HubJobs
<1>3. HubTypes' /\ RowsHeld' /\ WakesHeld' /\ Work' = Work /\ \A e : Body(e)' = Body(e)
  BY <1>0, <1>1, <1>2, JobMoves DEF HubTypes
<1>4. SavedHeld'
  BY <1>1, SavedStays DEF laneVars, Preparing, Installing
<1>5. WholeIn(man', spot', ledger', managed') /\ job.target \cap managed = {}
  BY <1>2, <1>u DEF WholeIn, Visit
<1>6. FilesHeld'
  <2>1. FilesSound(man', managed')
    BY <1>2, <1>5, <1>u DEF FilesSound
  <2>2. \A p \in managed : \A e : Mends(hook, e, p, man) => Mends(hook, e, p, man')
    BY <1>2, <1>5, <1>u DEF Mends
  <2>3. LostAreCut(hook', cut', man', Lost(spot', managed'))
    BY <1>0, <2>2 DEF HubInv, FilesHeld, LostAreCut, laneVars, Lost
  <2> QED  BY <1>1, <1>5, <2>1, <2>3 DEF FilesHeld, WholeOrCut
<1>7. Mended'
  <2>1. \A e \in job.of : Reach(Body(e)) \subseteq job.target
    BY <1>0 DEF HubInv, UpdateHeld, TargetHeld, Preparing, Installing
  <2> QED  BY <1>1, <1>2, <1>3, <1>5, <2>1 DEF Mended
<1>8. UpdateHeld'
  BY <1>1, <1>7 DEF UpdateHeld, TargetHeld, Preparing, Installing
<1>9. JobHeld'
  BY <1>0, <1>1, <1>3, <1>7 DEF HubInv, JobHeld, Preparing, Installing, Plugged
<1> QED  BY <1>3, <1>4, <1>6, <1>8, <1>9 DEF HubInv

\* The job ends after the check of what it installed.
LEMMA HealthyKeeps == ASSUME HubInv, Healthy PROVE HubInv'
<1> USE DEF Healthy, Goes, files
<1>0. HubTypes /\ job \in HubJobs /\ job.at = "health"
  BY DEF HubInv, HubTypes
<1>1. job' \in HubJobs /\ job'.of = job.of /\ job'.saved = job.saved /\ job'.at = "done"
  BY <1>0 DEF HubJobs
<1>2. HubTypes' /\ RowsHeld' /\ WakesHeld' /\ Work' = Work /\ \A e : Body(e)' = Body(e)
  BY <1>0, <1>1, JobMoves DEF HubTypes
<1>3. SavedHeld'
  BY <1>1, SavedStays DEF laneVars, Preparing, Installing
<1>4. FilesHeld'
  BY <1>0, <1>1 DEF HubInv, FilesHeld, laneVars, Preparing, Installing
<1>5. UpdateHeld'
  BY <1>1 DEF UpdateHeld, TargetHeld, Preparing, Installing
<1>6. Mended'
  BY <1>0, <1>1, <1>2 DEF HubInv, UpdateHeld, Mended
<1>7. JobHeld'
  BY <1>1, <1>6 DEF JobHeld, Preparing, Installing, Plugged
<1> QED  BY <1>2, <1>3, <1>4, <1>5, <1>7 DEF HubInv

\* The standalone skill is put into a home or removed from it.
LEMMA SkillKeeps ==
    ASSUME HubInv, BeginSkill \/ Removed \/ PutDone \/ (\E p \in Homes : RemoveHome(p) \/ PutHome(p))
    PROVE  HubInv'
<1>0. /\ HubTypes /\ job \in HubJobs /\ spot \in HubSpots /\ managed \subseteq Homes
      /\ FilesSound(man, managed)
  BY DEF HubInv, HubTypes, FilesHeld
<1>1. CASE BeginSkill
  <2> USE <1>1 DEF BeginSkill, Opens, files
  <2>1. job.at = "begun" /\ job.of # {} /\ Work.item = "skill"
    BY DEF HubInv, RowsHeld
  <2>2. /\ job' \in HubJobs /\ job'.of = job.of /\ job'.at = "remove" /\ job'.saved = job.saved
        /\ job'.todo \subseteq managed
    <3> DEFINE off == Work.type = "status" /\ Work.status = "inactive"
               gone == IF off THEN managed
                       ELSE IF Work.pkg /\ Work.type \in Full THEN managed \ Work.users ELSE {}
               kept == IF off THEN {} ELSE Work.users
    <3>1. job' = [job EXCEPT !.at = "remove", !.todo = gone, !.target = kept]
      OBVIOUS
    <3>2. gone \subseteq managed /\ kept \subseteq Homes
      BY <2>1, WorkIs
    <3> HIDE DEF gone, kept
    <3> QED  BY <1>0, <3>1, <3>2 DEF HubJobs, Skilled
  <2>3. HubTypes' /\ RowsHeld' /\ WakesHeld' /\ Work' = Work /\ \A e : Body(e)' = Body(e)
    BY <1>0, <2>1, <2>2, JobMoves DEF HubTypes
  <2>4. SavedHeld'
    BY <2>1, <2>2, SavedStays DEF laneVars, Preparing, Installing, HubInv, SavedHeld
  <2>5. FilesHeld'
    BY <2>1, <2>2 DEF HubInv, FilesHeld, laneVars, Preparing, Installing
  <2>6. UpdateHeld'
    BY <2>2 DEF UpdateHeld, TargetHeld, Preparing, Installing
  <2>7. \A e \in job.of : Body(e).item = "skill"
    BY <2>1, WorkIs
  <2>8. JobHeld'
    BY <2>2, <2>3, <2>7 DEF JobHeld, Preparing, Installing, Plugged
  <2> QED  BY <2>3, <2>4, <2>5, <2>6, <2>8 DEF HubInv
<1>2. CASE Removed \/ PutDone
  <2> USE <1>2 DEF Removed, PutDone, Goes, GoesFor, files
  <2>1. job.at \in {"remove", "put"}
    OBVIOUS
  <2>2. /\ job' \in HubJobs /\ job'.of = job.of /\ job'.at \in {"put", "done"} /\ job'.saved = job.saved
    BY <1>0 DEF HubJobs, Skilled
  <2>3. HubTypes' /\ RowsHeld' /\ WakesHeld' /\ Work' = Work /\ \A e : Body(e)' = Body(e)
    BY <1>0, <2>1, <2>2, JobMoves DEF HubTypes
  <2>4. SavedHeld'
    BY <2>1, <2>2, SavedStays DEF laneVars, Preparing, Installing, HubInv, SavedHeld
  <2>5. FilesHeld'
    BY <2>1, <2>2 DEF HubInv, FilesHeld, laneVars, Preparing, Installing
  <2>6. UpdateHeld'
    BY <2>2 DEF UpdateHeld, TargetHeld, Preparing, Installing
  <2>7. \A e \in job.of : Body(e).item = "skill"
    BY <2>1 DEF HubInv, JobHeld
  <2>8. JobHeld'
    BY <2>2, <2>3, <2>7 DEF JobHeld, Preparing, Installing, Plugged
  <2> QED  BY <2>3, <2>4, <2>5, <2>6, <2>8 DEF HubInv
<1>3. ASSUME NEW p \in Homes, RemoveHome(p) \/ PutHome(p)  PROVE HubInv'
  <2> USE <1>3 DEF RemoveHome, PutHome, Visited
  <2>1. job.at \in {"remove", "put"} /\ p \in job.todo
    OBVIOUS
  <2>2. /\ job' \in HubJobs /\ job'.of = job.of /\ job'.at = job.at /\ job'.saved = job.saved
        /\ job'.todo = job.todo \ {p}
    BY <1>0 DEF HubJobs, Skilled
  <2>3. RemoveHome(p) => p \in managed
    BY DEF HubInv, JobHeld
  <2>4. /\ spot' \in HubSpots /\ managed' \subseteq Homes
        /\ \A q \in Homes \ {p} : spot'[q] = spot[q] /\ (q \in managed' <=> q \in managed)
        /\ p \in managed' => spot'[p] = "skill" \/ (spot'[p] = spot[p] /\ p \in managed)
        /\ \/ spot' = spot /\ managed' = managed
           \/ man.st = "active" => p \notin man.aud
    <3>1. CASE RemoveHome(p)
      BY <1>0, <2>3, <3>1 DEF HubSpots, FilesSound
    <3>2. CASE PutHome(p)
      BY <1>0, <3>2 DEF HubSpots
    <3> QED  BY <3>1, <3>2
  <2>5. HubTypes' /\ RowsHeld' /\ WakesHeld' /\ Work' = Work /\ \A e : Body(e)' = Body(e)
    BY <1>0, <2>1, <2>2, <2>4, JobMoves DEF HubTypes
  <2>6. SavedHeld'
    BY <2>1, <2>2, SavedStays DEF laneVars, Preparing, Installing, HubInv, SavedHeld
  <2>7. FilesHeld'
    <3>1. man.aud \subseteq Homes
      BY <1>0 DEF HubTypes, HubMans
    <3>2. FilesSound(man', managed')
      BY <1>0, <2>4, <3>1 DEF FilesSound
    <3>3. WholeIn(man, spot, ledger, managed) => WholeIn(man', spot', ledger', managed')
      BY <2>4, <3>1 DEF WholeIn
    <3>4. WholeOrCut(hook', cut', man', spot', ledger', managed')
      BY <2>1, <3>3 DEF HubInv, FilesHeld, WholeOrCut, laneVars, Preparing, Installing
    <3>5. Lost(spot', managed') \subseteq Lost(spot, managed)
      BY <1>0, <2>4 DEF Lost
    <3>6. LostAreCut(hook', cut', man', Lost(spot', managed'))
      BY <2>1, <3>5 DEF HubInv, FilesHeld, LostAreCut, laneVars
    <3> QED  BY <2>1, <2>2, <3>2, <3>4, <3>6 DEF FilesHeld
  <2>8. UpdateHeld'
    BY <2>1, <2>2 DEF UpdateHeld, TargetHeld, Preparing, Installing
  <2>9. job'.at = "remove" => job'.todo \subseteq managed'
    BY <2>2, <2>4 DEF HubInv, JobHeld, HubJobs
  <2>10. JobHeld'
    BY <2>1, <2>2, <2>5, <2>9 DEF HubInv, JobHeld, Preparing, Installing, Plugged
  <2> QED  BY <2>5, <2>6, <2>7, <2>8, <2>10 DEF HubInv
<1> QED  BY <1>1, <1>2, <1>3

\* Nothing happens.
LEMMA HubStutters == ASSUME HubInv, UNCHANGED hubVars PROVE HubInv'
<1> USE DEF hubVars, files
<1>1. Queued' = Queued /\ (\A e : Body(e)' = Body(e))
  BY DEF Queued, Body
<1>2. SavedHeld' /\ FilesHeld' /\ UpdateHeld' /\ JobHeld'
  BY LaneMoves
<1> QED  BY <1>1, <1>2 DEF HubInv, HubTypes, RowsHeld, WakesHeld

\* Every step keeps the invariant.
LEMMA HubInductive == ASSUME HubInv, StatusesKeepHomes, [HubNext]_hubVars PROVE HubInv'
<1>1. CASE \E e \in Hooks : ScheduleDrain(e) \/ \E body \in Payloads : RecordEvent(e, body)
  BY <1>1, WakeKeeps, HubRecordKeeps
<1>2. CASE ListQueued \/ LeaveLane \/ ProcessStarts
  BY <1>2, WakeKeeps
<1>3. CASE DrainFails \/ ProcessStops
  BY <1>3, DrainFailsKeeps, HubStopKeeps
<1>4. CASE \E evs \in SUBSET listed : TakeRows(evs)
  BY <1>4, TakeKeeps
<1>5. CASE \E outcome \in {"done", "failed"} : MarkRows(outcome)
  BY <1>5, HubMarkKeeps
<1>6. CASE SkipEvent \/ EventFails
  BY <1>6, SkipKeeps, FailKeeps
<1>7. CASE Deactivate \/ Revoked \/ \E p \in Homes : RevokeHome(p)
  BY <1>7, RevokeKeeps
<1>8. CASE BeginUpdate \/ Reconciled \/ BeginIngest \/ \E p \in Homes : DropHome(p)
  BY <1>8, BeginUpdateKeeps, ReconciledKeeps, BeginIngestKeeps, DropKeeps
<1>9. CASE TakeOverHome \/ DropOwnership \/ CommitManifest \/ Healthy \/ \E p \in Homes : InstallHome(p)
  BY <1>9, TakeOverKeeps, ManifestKeeps, HealthyKeeps, InstallKeeps
<1>10. CASE BeginSkill \/ Removed \/ PutDone \/ \E p \in Homes : RemoveHome(p) \/ PutHome(p)
  BY <1>10, SkillKeeps
<1>11. CASE UNCHANGED hubVars
  BY <1>11, HubStutters
<1> QED  BY <1>1, <1>2, <1>3, <1>4, <1>5, <1>6, <1>7, <1>8, <1>9, <1>10, <1>11 DEF HubNext, LaneStep

\* SkillHub.SkillsKept, for any profiles, events, failures and ends of the process: between
\* jobs every home of an active plugin has it and no home has lost the standalone skill it
\* is said to have, unless an event was cut short and not done again; and a wake of the lane
\* is not lost.
THEOREM SkillsStayKept == ASSUME StatusesKeepHomes PROVE HubSpec => []SkillsKept
<1>1. HubInv => SkillsKept
  <2> SUFFICES ASSUME HubInv PROVE SkillsKept
    OBVIOUS
  <2> USE DEF HubInv
  <2>1. HubTypeOK
    BY DEF HubTypes, HubJobs, HubMans, HubSpots, HubLedgers, RowsHeld, FilesHeld, FilesSound, HubTypeOK
  <2>2. ProfilesWhole
    <3> SUFFICES ASSUME job.of = {}, cut = {} PROVE PluginWhole /\ NeverSkillLess
      BY DEF ProfilesWhole
    <3>1. job.at = "none"
      BY DEF RowsHeld
    <3>2. WholeIn(man, spot, ledger, managed)
      BY <3>1 DEF FilesHeld, WholeOrCut, Preparing, Installing
    <3>3. Lost(spot, managed) = {}
      BY <3>1 DEF FilesHeld, LostAreCut
    <3> QED  BY <3>2, <3>3 DEF PluginWhole, WholeIn, NeverSkillLess, Lost
  <2>3. WakesKept
    BY DEF WakesHeld, WakesKept
  <2> QED  BY <2>1, <2>2, <2>3 DEF SkillsKept
<1>2. HubInv /\ [HubNext]_hubVars => HubInv'
  BY HubInductive
<1> QED  BY <1>1, <1>2, HubStarts, PTL DEF HubSpec

-----------------------------------------------------------------------------
(* The budget of what is carried.  Sums are recursive functions, but where *)
(* their value matters only one turn is left to add up.                    *)

\* A sum of one.  The recursive function it is made of is given outright.
LEMMA TotalOfOne == ASSUME NEW f, f[1] \in Int PROVE Total(f, 1) = f[1]
<1> DEFINE Upto(u) == u = [i \in 0 .. 1 |-> IF i = 0 THEN 0 ELSE u[i - 1] + f[i]]
           w == [i \in 0 .. 1 |-> IF i = 0 THEN 0 ELSE f[1]]
<1>1. Upto(w)
  <2>1. ASSUME NEW i \in 0 .. 1 PROVE w[i] = IF i = 0 THEN 0 ELSE w[i - 1] + f[i]
    <3>1. CASE i = 0
      BY <3>1
    <3>2. CASE i = 1
      BY <3>2
    <3> QED  BY <3>1, <3>2
  <2> QED  BY <2>1
<1>2. Upto(CHOOSE u : Upto(u))
  <2> HIDE DEF Upto
  <2> QED  BY <1>1
<1>3. Total(f, 1) = (CHOOSE u : Upto(u))[1]
  BY DEF Total
<1>4. \A u : Upto(u) => u[1] = f[1]
  <2> SUFFICES ASSUME NEW u, Upto(u) PROVE u[1] = f[1]
    OBVIOUS
  <2>1. u[0] = 0
    OBVIOUS
  <2>2. u[1] = u[0] + f[1]
    OBVIOUS
  <2> QED  BY <2>1, <2>2
<1> HIDE DEF Upto
<1> QED  BY <1>2, <1>3, <1>4

\* An entry costs something.
LEMMA EntryCosts ==
    ASSUME NEW t \in TurnOf
    PROVE  EntryWide(t) \in Nat /\ EntryAscii(t) \in Nat
BY DEF TurnOf, EntryWide, EntryAscii, Wide, Ascii, Lines, Digits

\* The estimate for a lone turn.
LEMMA TokensOfOne ==
    ASSUME NEW ts, Len(ts) = 1, DOMAIN ts = 1 .. 1, ts[1] \in TurnOf
    PROVE  Tokens(ts) = 172 + (6 + ts[1].n * EntryWide(ts[1])) + Ceil4(171 + (6 + ts[1].n * EntryAscii(ts[1])))
<1> DEFINE wide == [i \in DOMAIN ts |-> 6 + ts[i].n * EntryWide(ts[i])]
           ascii == [i \in DOMAIN ts |-> 6 + ts[i].n * EntryAscii(ts[i])]
<1>1. EntryWide(ts[1]) \in Nat /\ EntryAscii(ts[1]) \in Nat /\ ts[1].n \in Nat
  BY EntryCosts DEF TurnOf
<1>2. wide[1] = 6 + ts[1].n * EntryWide(ts[1]) /\ ascii[1] = 6 + ts[1].n * EntryAscii(ts[1])
  OBVIOUS
<1>3. wide[1] \in Int /\ ascii[1] \in Int
  BY <1>1, <1>2
<1>4. Tokens(ts) = 172 + Total(wide, 1) + Ceil4(171 + Total(ascii, 1))
  BY DEF Tokens
<1> HIDE DEF wide, ascii
<1>5. Total(wide, 1) = wide[1] /\ Total(ascii, 1) = ascii[1]
  BY <1>3, TotalOfOne
<1> QED  BY <1>2, <1>4, <1>5

Ranks == {"A", "B", "C"}
Carried == [tier : Ranks, turn : TurnOf, id : Nat]

\* A cut turn is no longer than it was, and its note states what is missing.
LEMMA ThinIs ==
    ASSUME NEW t \in TurnOf, NEW o \in Nat, NEW g \in Nat
    PROVE  /\ Thin(t, o, g) \in TurnOf
           /\ Thin(t, o, g).n = t.n
           /\ Thin(t, o, g).out <= o /\ Thin(t, o, g).out <= t.out
           /\ Thin(t, o, g).arg <= g /\ Thin(t, o, g).arg <= t.arg
           /\ Thin(t, o, g).out + Thin(t, o, g).cut = t.out + t.cut
<1> DEFINE low == Lower(t.out, o)
           u == Thin(t, o, g)
<1>1. low \in Nat /\ low <= o /\ low <= t.out /\ t.out - low \in Nat
  BY DEF Lower, TurnOf
<1>2. Lower(t.arg, g) \in Nat /\ Lower(t.arg, g) <= g /\ Lower(t.arg, g) <= t.arg
  BY DEF Lower, TurnOf
<1>3. u = [t EXCEPT !.out = low, !.arg = Lower(t.arg, g), !.cut = t.cut + (t.out - low)]
  BY DEF Thin
<1> HIDE DEF low, u
<1>4. /\ u.n = t.n /\ u.out = low /\ u.arg = Lower(t.arg, g) /\ u.cut = t.cut + (t.out - low)
  BY <1>3 DEF TurnOf
<1>5. u \in TurnOf
  <2>1. [t EXCEPT !.out = low] \in TurnOf
    BY <1>1 DEF TurnOf
  <2>2. [t EXCEPT !.out = low, !.arg = Lower(t.arg, g)] \in TurnOf
    BY <1>1, <1>2 DEF TurnOf
  <2>3. t.cut + (t.out - low) \in Nat
    BY <1>1 DEF TurnOf
  <2>4. \A x, y, z \in Nat : [t EXCEPT !.out = x, !.arg = y, !.cut = z] \in TurnOf
    BY DEF TurnOf
  <2> QED  BY <1>1, <1>2, <1>3, <2>3, <2>4
<1>6. u.out + u.cut = t.out + t.cut
  BY <1>1, <1>4 DEF TurnOf
<1> QED  BY <1>1, <1>2, <1>4, <1>5, <1>6 DEF u

\* So is a turn that is put into a tier.
LEMMA TierIs ==
    ASSUME NEW t \in TurnOf, NEW tier \in Ranks, NEW id \in Nat
    PROVE  /\ Item(tier, t, id) \in Carried
           /\ Item(tier, t, id).tier = tier /\ Item(tier, t, id).id = id
           /\ Item(tier, t, id).turn.out <= t.out
           /\ Item(tier, t, id).turn.out + Item(tier, t, id).turn.cut = t.out + t.cut
<1>1. TierBChars \in Nat /\ TierCChars \in Nat /\ TierCArgs \in Nat /\ t.arg \in Nat /\ t.out \in Nat
  BY BudgetAssumption DEF TurnOf
<1>2. /\ ApplyTier(t, tier) \in TurnOf
      /\ ApplyTier(t, tier).out <= t.out
      /\ ApplyTier(t, tier).out + ApplyTier(t, tier).cut = t.out + t.cut
  <2>1. CASE tier = "A"
    BY <1>1, <2>1 DEF ApplyTier
  <2>2. CASE tier = "B"
    <3>1. ApplyTier(t, tier) = Thin(t, TierBChars, t.arg)
      BY <2>2 DEF ApplyTier
    <3>2. Thin(t, TierBChars, t.arg) \in TurnOf /\ Thin(t, TierBChars, t.arg).out <= t.out /\ Thin(t, TierBChars, t.arg).out + Thin(t, TierBChars, t.arg).cut = t.out + t.cut
      BY <1>1, ThinIs
    <3> QED  BY <3>1, <3>2
  <2>3. CASE tier = "C"
    <3>1. ApplyTier(t, tier) = Thin(t, TierCChars, TierCArgs)
      BY <2>3 DEF ApplyTier
    <3>2. Thin(t, TierCChars, TierCArgs) \in TurnOf /\ Thin(t, TierCChars, TierCArgs).out <= t.out /\ Thin(t, TierCChars, TierCArgs).out + Thin(t, TierCChars, TierCArgs).cut = t.out + t.cut
      BY <1>1, ThinIs
    <3> QED  BY <3>1, <3>2
  <2> QED  BY <2>1, <2>2, <2>3 DEF Ranks
<1> QED  BY <1>2 DEF Item, Carried

\* A turn cut to the floor costs no more than the largest that SafeEntries allows.
LEMMA FloorFits ==
    ASSUME NEW t \in TurnOf, t.n <= SafeEntries, t.name <= MaxName, t.out <= TierCChars, t.arg <= TierCArgs,
           NEW ts, Len(ts) = 1, DOMAIN ts = 1 .. 1, ts[1] = t
    PROVE  Tokens(ts) <= Budget
<1> DEFINE w == AtFloor(SafeEntries, t.kind, t.argKind)
<1>1. {TierCChars, TierCArgs, SafeEntries, MaxName, Budget} \subseteq Nat
  BY BudgetAssumption
<1>2. /\ w \in TurnOf /\ w.n = SafeEntries /\ w.kind = t.kind /\ w.argKind = t.argKind
      /\ w.name = MaxName /\ w.out = TierCChars /\ w.arg = TierCArgs /\ w.cut = 10000
  BY <1>1 DEF AtFloor, TurnOf
<1>3. /\ t.kind \in Kinds /\ t.argKind \in Kinds /\ {t.n, t.name, t.out, t.arg, t.cut} \subseteq Nat
  BY DEF TurnOf
<1>4. Tokens(<<w>>) <= Budget
  BY <1>3, FloorAssumption
<1> HIDE DEF w
<1>5. \A x, y \in Nat : x <= y => Digits(x) <= Digits(y) /\ Digits(x) \in 1 .. 5
  BY DEF Digits
<1>6. \A x, y \in Nat, k \in Kinds :
          x <= y => /\ Wide(k, x) <= Wide(k, y) /\ Ascii(k, x) <= Ascii(k, y) /\ Lines(k, x) <= Lines(k, y)
                    /\ {Wide(k, x), Wide(k, y), Ascii(k, x), Ascii(k, y), Lines(k, x), Lines(k, y)} \subseteq Nat
  BY DEF Wide, Ascii, Lines
<1>17. /\ Wide(t.argKind, t.arg) <= Wide(t.argKind, TierCArgs) /\ Wide(t.argKind, t.arg) \in Nat
       /\ Ascii(t.argKind, t.arg) <= Ascii(t.argKind, TierCArgs) /\ Ascii(t.argKind, t.arg) \in Nat
       /\ Wide(t.argKind, TierCArgs) \in Nat /\ Ascii(t.argKind, TierCArgs) \in Nat
  BY <1>1, <1>3, <1>6
<1>18. /\ Wide(t.kind, t.out) <= Wide(t.kind, TierCChars) /\ Wide(t.kind, t.out) \in Nat
       /\ Ascii(t.kind, t.out) <= Ascii(t.kind, TierCChars) /\ Ascii(t.kind, t.out) \in Nat
       /\ Lines(t.kind, t.out) <= Lines(t.kind, TierCChars) /\ Lines(t.kind, t.out) \in Nat
       /\ Wide(t.kind, TierCChars) \in Nat /\ Ascii(t.kind, TierCChars) \in Nat
       /\ Lines(t.kind, TierCChars) \in Nat
  BY <1>1, <1>3, <1>6
<1>7. EntryWide(t) <= EntryWide(w)
  BY <1>2, <1>3, <1>17, <1>18 DEF EntryWide
<1>8. Digits(10000) = 5 /\ Digits(t.cut) <= 5 /\ Digits(t.cut) \in Nat
  BY <1>3, <1>5 DEF Digits
<1>9. Digits(t.out) <= Digits(w.out) /\ Digits(t.out) \in Nat /\ Digits(w.out) \in Nat
  BY <1>1, <1>2, <1>3, <1>5
<1>10. EntryAscii(t) <= EntryAscii(w)
  <2>1. t.name <= w.name /\ {t.name, w.name} \subseteq Nat
    BY <1>1, <1>2, <1>3
  <2> QED  BY <1>2, <1>3, <1>8, <1>9, <1>17, <1>18, <2>1 DEF EntryAscii
<1>11. {EntryWide(t), EntryWide(w), EntryAscii(t), EntryAscii(w)} \subseteq Nat
  BY <1>2, EntryCosts
<1>12. \A m, n, x, y \in Nat : m <= n /\ x <= y => m * x <= n * y
  <2> SUFFICES ASSUME NEW m \in Nat, NEW n \in Nat, NEW x \in Nat, NEW y \in Nat, m <= n, x <= y
               PROVE  m * x <= n * y
    OBVIOUS
  <2>1. m * x <= m * y
    OBVIOUS
  <2>2. m * y <= n * y
    OBVIOUS
  <2> QED  BY <2>1, <2>2
<1>13. /\ t.n * EntryWide(t) <= w.n * EntryWide(w)
       /\ t.n * EntryAscii(t) <= w.n * EntryAscii(w)
  BY <1>1, <1>2, <1>3, <1>7, <1>10, <1>11, <1>12
<1>14. {t.n * EntryWide(t), w.n * EntryWide(w), t.n * EntryAscii(t), w.n * EntryAscii(w)} \subseteq Nat
  BY <1>1, <1>2, <1>3, <1>11
<1>15. Tokens(ts) = 172 + (6 + t.n * EntryWide(t)) + Ceil4(171 + (6 + t.n * EntryAscii(t)))
  BY TokensOfOne
<1>16. Tokens(<<w>>) = 172 + (6 + w.n * EntryWide(w)) + Ceil4(171 + (6 + w.n * EntryAscii(w)))
  BY <1>2, TokensOfOne
<1> QED
  <2> DEFINE a == t.n * EntryWide(t)
             b == w.n * EntryWide(w)
             c == t.n * EntryAscii(t)
             d == w.n * EntryAscii(w)
  <2>1. a \in Nat /\ b \in Nat /\ c \in Nat /\ d \in Nat /\ a <= b /\ c <= d
    BY <1>13, <1>14
  <2>2. Tokens(ts) = 172 + (6 + a) + Ceil4(171 + (6 + c))
    BY <1>15
  <2>3. Tokens(<<w>>) = 172 + (6 + b) + Ceil4(171 + (6 + d))
    BY <1>16
  <2> HIDE DEF a, b, c, d
  <2> QED  BY <1>1, <1>4, <2>1, <2>2, <2>3 DEF Ceil4

\* What a lone turn that is being fitted has been cut to.
LoneCut ==
    stage = "fitting" =>
        Len(items) = 1 /\ items[1].turn.arg <= TierCArgs /\ items[1].turn.out <= cap

\* The types, the four parts of CarriedFaithfully, and what makes the last pass enough.
BudgetInv ==
    /\ input \in Seq(TurnOf) /\ Len(input) <= MaxLoad
    /\ items \in Seq(Carried) /\ stage \in {"ladder", "fitting", "done"}
    /\ cap \in 0 .. MaxOutput /\ dropped \in 0 .. MaxLoad
    /\ \A i \in DOMAIN items : items[i].turn.out <= MaxOutput
    /\ NewestSuffix /\ TiersMonotonic /\ NoteIsTrue /\ LoneCut /\ BudgetHolds

\* Grading puts no turn above a newer one.
LEMMA BudgetStarts == BudgetInit => BudgetInv
<1> SUFFICES ASSUME BudgetInit PROVE BudgetInv
  OBVIOUS
<1>1. PICK len \in 1 .. MaxLoad, s \in Shapes, o \in Shapes :
          input = [i \in 1 .. len |-> IF i = len THEN s ELSE o] /\ Storable(input)
  BY DEF BudgetInit, Loads
<1>2. MaxLoad \in Nat /\ Shapes \subseteq TurnOf /\ len \in Nat /\ len >= 1 /\ len <= MaxLoad
  BY BudgetAssumption
<1>3. input \in Seq(TurnOf) /\ Len(input) = len /\ DOMAIN input = 1 .. len
  BY <1>1, <1>2
<1>4. items = [i \in 1 .. len |-> Item(TierOf(i, len), input[i], i)]
  BY <1>3 DEF BudgetInit, Grade
<1>5. \A i \in 1 .. len : TierOf(i, len) \in Ranks /\ input[i] \in TurnOf /\ i \in Nat
  BY <1>2, <1>3 DEF TierOf, Ranks
<1>6. /\ \A i \in 1 .. len : items[i] \in Carried /\ items[i].tier = TierOf(i, len) /\ items[i].id = i
                          /\ items[i].turn.out <= input[i].out
                          /\ items[i].turn.out + items[i].turn.cut = input[i].out + input[i].cut
  BY <1>4, <1>5, TierIs
<1>7. items \in Seq(Carried) /\ Len(items) = len /\ DOMAIN items = 1 .. len
  <2>1. items \in [1 .. len -> Carried]
    BY <1>4, <1>6
  <2> QED  BY <1>2, <2>1
<1>8. \A i \in DOMAIN items : items[i].turn.out <= MaxOutput
  <2> SUFFICES ASSUME NEW i \in 1 .. len PROVE items[i].turn.out <= MaxOutput
    BY <1>7
  <2>1. input[i].out <= MaxOutput
    BY <1>1, <1>3 DEF Storable
  <2>2. items[i].turn.out \in Nat /\ input[i].out \in Nat /\ MaxOutput \in Nat
    BY <1>5, <1>6, BudgetAssumption DEF Carried, TurnOf
  <2> QED  BY <1>6, <2>1, <2>2
<1>9. NewestSuffix
  BY <1>2, <1>3, <1>6, <1>7 DEF NewestSuffix, BudgetInit
<1>10. TiersMonotonic
  <2>1. ASSUME NEW i \in 1 .. len, NEW j \in 1 .. len, i < j
        PROVE  Rank(TierOf(i, len)) >= Rank(TierOf(j, len))
    BY <1>2, <2>1, BudgetAssumption DEF Rank, TierOf
  <2> QED  BY <1>6, <1>7, <2>1 DEF TiersMonotonic
<1>11. NoteIsTrue
  BY <1>6, <1>7 DEF NoteIsTrue
<1>12. /\ stage = "ladder" /\ cap \in 0 .. MaxOutput /\ dropped \in 0 .. MaxLoad
  BY BudgetAssumption DEF BudgetInit
<1> QED  BY <1>2, <1>3, <1>7, <1>8, <1>9, <1>10, <1>11, <1>12 DEF BudgetInv, LoneCut, BudgetHolds

\* The first item is replaced by one no richer, of the same turn and cut further at most.
LEMMA FirstCut ==
    ASSUME BudgetInv, NEW new \in Carried, new.id = items[1].id, Rank(new.tier) >= Rank(items[1].tier),
           items' = [items EXCEPT ![1] = new], new.turn.out <= items[1].turn.out,
           new.turn.out + new.turn.cut = items[1].turn.out + items[1].turn.cut,
           UNCHANGED <<input, dropped>>
    PROVE  /\ items' \in Seq(Carried) /\ Len(items') = Len(items) /\ items'[1] = new
           /\ \A i \in DOMAIN items' : items'[i].turn.out <= MaxOutput
           /\ NewestSuffix' /\ TiersMonotonic' /\ NoteIsTrue'
<1>1. /\ items \in Seq(Carried) /\ items # <<>> /\ MaxOutput \in Nat
  BY BudgetAssumption DEF BudgetInv, NewestSuffix
<1>2. /\ items' \in Seq(Carried) /\ Len(items') = Len(items) /\ DOMAIN items' = DOMAIN items
      /\ items'[1] = new /\ 1 \in DOMAIN items /\ Len(items) \in Nat /\ DOMAIN items = 1 .. Len(items)
      /\ \A i \in DOMAIN items : i # 1 => items'[i] = items[i]
  BY <1>1
<1>3. \A i \in DOMAIN items' : items'[i].turn.out <= MaxOutput
  <2>1. new.turn.out \in Nat /\ items[1].turn.out \in Nat /\ items[1].turn.out <= MaxOutput
    <3>1. items[1] \in Carried /\ items[1].turn.out <= MaxOutput
      BY <1>1, <1>2 DEF BudgetInv
    <3> QED  BY <3>1 DEF Carried, TurnOf
  <2> QED  BY <1>1, <1>2, <2>1 DEF BudgetInv
<1>4. NewestSuffix'
  BY <1>1, <1>2 DEF BudgetInv, NewestSuffix
<1>5. TiersMonotonic'
  <2>1. \A i \in DOMAIN items : items[i].tier \in Ranks /\ Rank(items[i].tier) \in Nat
    <3>1. \A i \in DOMAIN items : items[i] \in Carried
      BY <1>1
    <3>2. \A x \in Carried : x.tier \in Ranks
      BY DEF Carried
    <3>3. \A x \in Ranks : Rank(x) \in Nat
      BY DEF Ranks, Rank
    <3> QED  BY <3>1, <3>2, <3>3
  <2>2. Rank(new.tier) \in Nat
    BY DEF Carried, Ranks, Rank
  <2> SUFFICES ASSUME NEW i \in DOMAIN items, NEW j \in DOMAIN items, i < j
               PROVE  Rank(items'[i].tier) >= Rank(items'[j].tier)
    BY <1>2 DEF TiersMonotonic
  <2>3. j # 1 /\ items'[j] = items[j]
    BY <1>2
  <2>4. Rank(items[i].tier) >= Rank(items[j].tier)
    BY DEF BudgetInv, TiersMonotonic
  <2>5. CASE i = 1
    BY <1>2, <2>1, <2>2, <2>3, <2>4, <2>5
  <2>6. CASE i # 1
    BY <1>2, <2>3, <2>4, <2>6
  <2> QED  BY <2>5, <2>6
<1>6. NoteIsTrue'
  BY <1>2 DEF BudgetInv, NoteIsTrue
<1> QED  BY <1>2, <1>3, <1>4, <1>5, <1>6

\* Every pass of the two loops keeps the invariant.
LEMMA BudgetMoves == ASSUME BudgetInv, [BudgetNext]_budgetVars PROVE BudgetInv'
<1>0. /\ items \in Seq(Carried) /\ items # <<>> /\ Len(items) \in Nat /\ Len(items) >= 1
      /\ items[1] \in Carried /\ items[1].turn \in TurnOf /\ items[1].tier \in Ranks
      /\ MaxOutput \in Nat /\ TierCChars \in Nat /\ TierCArgs \in Nat /\ Budget \in Nat
  <2>1. items \in Seq(Carried) /\ items # <<>>
    BY DEF BudgetInv, NewestSuffix
  <2>2. Len(items) \in Nat /\ Len(items) >= 1 /\ items[1] \in Carried
    BY <2>1
  <2> QED  BY <2>1, <2>2, BudgetAssumption DEF Carried
<1>1. CASE Fits
  BY <1>1 DEF Fits, BudgetInv, NewestSuffix, TiersMonotonic, NoteIsTrue, LoneCut, BudgetHolds, Over
<1>2. CASE Demote
  <2> DEFINE new == Item(Below(items[1].tier), items[1].turn, items[1].id)
  <2>1. /\ items' = [items EXCEPT ![1] = new] /\ stage = "ladder" /\ items[1].tier # "C"
        /\ UNCHANGED <<input, dropped, stage, cap>>
    BY <1>2, <1>0 DEF Demote
  <2>2. Below(items[1].tier) \in Ranks /\ Rank(Below(items[1].tier)) >= Rank(items[1].tier)
    BY <1>0, <2>1 DEF Below, Ranks, Rank
  <2>3. items[1].id \in Nat
    BY <1>0 DEF Carried
  <2>4. /\ new \in Carried /\ new.tier = Below(items[1].tier) /\ new.id = items[1].id
        /\ new.turn.out <= items[1].turn.out
        /\ new.turn.out + new.turn.cut = items[1].turn.out + items[1].turn.cut
    BY <1>0, <2>2, <2>3, TierIs
  <2> HIDE DEF new
  <2>5. /\ items' \in Seq(Carried) /\ \A i \in DOMAIN items' : items'[i].turn.out <= MaxOutput
        /\ NewestSuffix' /\ TiersMonotonic' /\ NoteIsTrue'
    BY <2>1, <2>2, <2>4, FirstCut
  <2> QED  BY <2>1, <2>5 DEF BudgetInv, LoneCut, BudgetHolds
<1>3. CASE Drop
  <2>1. /\ items' = Tail(items) /\ stage = "ladder" /\ Len(items) > 1 /\ dropped' = dropped + 1
        /\ UNCHANGED <<input, stage, cap>>
    BY <1>3 DEF Drop
  <2>2. /\ items' \in Seq(Carried) /\ Len(items') = Len(items) - 1 /\ DOMAIN items' = 1 .. (Len(items) - 1)
        /\ \A i \in 1 .. (Len(items) - 1) : items'[i] = items[i + 1] /\ i + 1 \in DOMAIN items
    BY <1>0, <2>1
  <2>3. /\ Len(input) \in Nat /\ Len(input) <= MaxLoad /\ MaxLoad \in Nat /\ dropped = Len(input) - Len(items)
    BY BudgetAssumption DEF BudgetInv, NewestSuffix
  <2>4. NewestSuffix' /\ dropped' \in 0 .. MaxLoad
    <3>1. items' # <<>>
      <4>1. Len(items') >= 1
        BY <1>0, <2>1, <2>2
      <4> QED  BY <4>1
    <3>2. dropped' = Len(input) - Len(items')
      BY <1>0, <2>1, <2>2, <2>3
    <3>3. ASSUME NEW i \in DOMAIN items' PROVE items'[i].id = Len(input) - Len(items') + i
      <4>1. items[i + 1].id = Len(input) - Len(items) + (i + 1)
        BY <2>2 DEF BudgetInv, NewestSuffix
      <4> QED  BY <1>0, <2>2, <2>3, <4>1
    <3>4. dropped \in Nat
      BY DEF BudgetInv
    <3>5. Len(items') \in Nat
      BY <2>2
    <3>6. dropped' \in 0 .. MaxLoad
      BY <2>1, <2>3, <3>2, <3>4, <3>5
    <3>7. NewestSuffix'
      BY <2>1, <3>1, <3>2, <3>3 DEF NewestSuffix
    <3> QED  BY <3>6, <3>7
  <2>5. TiersMonotonic'
    <3> SUFFICES ASSUME NEW i \in DOMAIN items', NEW j \in DOMAIN items', i < j
                 PROVE  Rank(items'[i].tier) >= Rank(items'[j].tier)
      BY DEF TiersMonotonic
    <3>1. i + 1 < j + 1
      BY <2>2
    <3> QED  BY <2>2, <3>1 DEF BudgetInv, TiersMonotonic
  <2>6. NoteIsTrue'
    BY <2>1, <2>2 DEF BudgetInv, NoteIsTrue
  <2>7. \A i \in DOMAIN items' : items'[i].turn.out <= MaxOutput
    BY <2>2 DEF BudgetInv
  <2> QED  BY <2>1, <2>2, <2>4, <2>5, <2>6, <2>7 DEF BudgetInv, LoneCut, BudgetHolds
<1>4. CASE Alone
  <2> DEFINE t == items[1].turn
             cutTurn == Thin(t, MaxOutput, TierCArgs)
             new == [items[1] EXCEPT !.turn = cutTurn]
  <2>1. /\ items' = [items EXCEPT ![1] = new] /\ Len(items) = 1 /\ cap' = t.out /\ stage' = "fitting"
        /\ UNCHANGED <<input, dropped>>
    BY <1>4, <1>0 DEF Alone
  <2>2. /\ cutTurn \in TurnOf /\ cutTurn.out <= t.out /\ cutTurn.arg <= TierCArgs
        /\ cutTurn.out + cutTurn.cut = t.out + t.cut
    BY <1>0, ThinIs
  <2> HIDE DEF cutTurn
  <2>3. new \in Carried /\ new.id = items[1].id /\ new.tier = items[1].tier /\ new.turn = cutTurn
    BY <1>0, <2>2 DEF Carried
  <2>4. Rank(new.tier) >= Rank(items[1].tier)
    BY <1>0, <2>3 DEF Rank, Ranks
  <2> HIDE DEF new
  <2>5. /\ items' \in Seq(Carried) /\ \A i \in DOMAIN items' : items'[i].turn.out <= MaxOutput
        /\ NewestSuffix' /\ TiersMonotonic' /\ NoteIsTrue' /\ Len(items') = 1 /\ items'[1] = new
    BY <2>1, <2>2, <2>3, <2>4, FirstCut
  <2>6. cap' \in 0 .. MaxOutput
    BY <1>0, <2>1 DEF BudgetInv, TurnOf
  <2> QED  BY <2>1, <2>2, <2>3, <2>5, <2>6 DEF BudgetInv, LoneCut, BudgetHolds
<1>5. CASE Shrink
  <2> DEFINE t == items[1].turn
             low == NextCap
             cutTurn == Thin(t, low, t.arg)
             new == [items[1] EXCEPT !.turn = cutTurn]
  <2>1. /\ items' = [items EXCEPT ![1] = new] /\ stage = "fitting" /\ cap' = low /\ cap > TierCChars
        /\ UNCHANGED <<input, dropped, stage>>
    BY <1>5, <1>0 DEF Shrink
  <2>2. Len(items) = 1 /\ t.arg <= TierCArgs /\ t.out <= cap /\ cap \in 0 .. MaxOutput
    BY <2>1 DEF BudgetInv, LoneCut
  <2>3. low \in Nat /\ low <= MaxOutput
    <3> DEFINE k == Tokens(TurnsOf(items))
               q == (cap * Budget) \div k
    <3>1. k \in Nat /\ k > 0
      <4>1. /\ Len(TurnsOf(items)) = 1 /\ DOMAIN TurnsOf(items) = 1 .. 1 /\ TurnsOf(items)[1] = t
        BY <1>0, <2>2 DEF TurnsOf
      <4>2. k = 172 + (6 + t.n * EntryWide(t)) + Ceil4(171 + (6 + t.n * EntryAscii(t)))
        BY <1>0, <4>1, TokensOfOne
      <4>3. t.n * EntryWide(t) \in Nat /\ t.n * EntryAscii(t) \in Nat
        <5>1. t.n \in Nat /\ EntryWide(t) \in Nat /\ EntryAscii(t) \in Nat
          BY <1>0, EntryCosts DEF TurnOf
        <5> QED  BY <5>1
      <4>4. \A x, y \in Nat : 172 + (6 + x) + Ceil4(171 + (6 + y)) \in Nat \ {0}
        BY DEF Ceil4
      <4> QED  BY <4>2, <4>3, <4>4
    <3>2. q \in Int
      BY <1>0, <2>2, <3>1
    <3>3. low = Higher(TierCChars, Lower(cap - 1, q))
      BY DEF NextCap
    <3> HIDE DEF q, low
    <3> QED  BY <1>0, <2>1, <2>2, <3>2, <3>3 DEF Higher, Lower
  <2> HIDE DEF low
  <2>4. t.arg \in Nat
    BY <1>0 DEF TurnOf
  <2>5. /\ cutTurn \in TurnOf /\ cutTurn.out <= t.out /\ cutTurn.arg <= t.arg /\ cutTurn.out <= low
        /\ cutTurn.out + cutTurn.cut = t.out + t.cut
    BY <1>0, <2>3, <2>4, ThinIs
  <2> HIDE DEF cutTurn
  <2>6. new \in Carried /\ new.id = items[1].id /\ new.tier = items[1].tier /\ new.turn = cutTurn
    BY <1>0, <2>5 DEF Carried
  <2>7. Rank(new.tier) >= Rank(items[1].tier)
    BY <1>0, <2>6 DEF Rank, Ranks
  <2> HIDE DEF new
  <2>8. /\ items' \in Seq(Carried) /\ \A i \in DOMAIN items' : items'[i].turn.out <= MaxOutput
        /\ NewestSuffix' /\ TiersMonotonic' /\ NoteIsTrue' /\ Len(items') = 1 /\ items'[1] = new
    BY <2>1, <2>2, <2>5, <2>6, <2>7, FirstCut
  <2>9. new.turn.arg <= TierCArgs
    BY <1>0, <2>2, <2>4, <2>5, <2>6 DEF TurnOf
  <2>10. cap' \in 0 .. MaxOutput
    BY <1>0, <2>1, <2>3
  <2> QED  BY <2>1, <2>5, <2>6, <2>8, <2>9, <2>10 DEF BudgetInv, LoneCut, BudgetHolds
<1>6. CASE Settle
  <2>1. /\ stage = "fitting" /\ stage' = "done" /\ UNCHANGED <<input, items, dropped, cap>>
        /\ ~Over \/ cap <= TierCChars
    BY <1>6 DEF Settle
  <2>2. Len(items) = 1 /\ items[1].turn.arg <= TierCArgs /\ items[1].turn.out <= cap /\ cap \in 0 .. MaxOutput
    BY <2>1 DEF BudgetInv, LoneCut
  <2>3. ASSUME Over, ~(items[1].turn.n > SafeEntries), ~(items[1].turn.name > MaxName)  PROVE FALSE
    <3>1. /\ Len(TurnsOf(items)) = 1 /\ DOMAIN TurnsOf(items) = 1 .. 1 /\ TurnsOf(items)[1] = items[1].turn
      BY <1>0, <2>2 DEF TurnsOf
    <3>2. /\ items[1].turn.out <= TierCChars /\ items[1].turn.n <= SafeEntries
          /\ items[1].turn.name <= MaxName
      <4>1. /\ {items[1].turn.n, items[1].turn.name, items[1].turn.out} \subseteq Nat
            /\ {SafeEntries, MaxName, TierCChars, MaxOutput} \subseteq Nat
        BY <1>0, <2>2, BudgetAssumption DEF TurnOf
      <4>2. items[1].turn.out <= TierCChars
        BY <2>1, <2>2, <2>3, <4>1
      <4> QED  BY <2>3, <4>1, <4>2
    <3>3. Tokens(TurnsOf(items)) <= Budget
      BY <1>0, <2>2, <3>1, <3>2, FloorFits
    <3>4. Tokens(TurnsOf(items)) \in Nat
      <4>1. Tokens(TurnsOf(items)) = 172 + (6 + items[1].turn.n * EntryWide(items[1].turn))
                                        + Ceil4(171 + (6 + items[1].turn.n * EntryAscii(items[1].turn)))
        BY <1>0, <3>1, TokensOfOne
      <4>2. items[1].turn.n * EntryWide(items[1].turn) \in Nat /\ items[1].turn.n * EntryAscii(items[1].turn) \in Nat
        <5>1. items[1].turn.n \in Nat /\ EntryWide(items[1].turn) \in Nat /\ EntryAscii(items[1].turn) \in Nat
          BY <1>0, EntryCosts DEF TurnOf
        <5> QED  BY <5>1
      <4>3. \A x, y \in Nat : 172 + (6 + x) + Ceil4(171 + (6 + y)) \in Nat
        BY DEF Ceil4
      <4> QED  BY <4>1, <4>2, <4>3
    <3> QED  BY <1>0, <2>3, <3>3, <3>4 DEF Over
  <2>4. Over' <=> Over
    BY <2>1 DEF Over
  <2>5. BudgetHolds'
    BY <2>1, <2>2, <2>3, <2>4 DEF BudgetHolds
  <2> QED  BY <2>1, <2>5 DEF BudgetInv, NewestSuffix, TiersMonotonic, NoteIsTrue, LoneCut
<1>7. CASE UNCHANGED budgetVars
  BY <1>7 DEF budgetVars, BudgetInv, NewestSuffix, TiersMonotonic, NoteIsTrue, LoneCut, BudgetHolds, Over
<1> QED  BY <1>1, <1>2, <1>3, <1>4, <1>5, <1>6, <1>7 DEF BudgetNext

(* What is carried fits the budget, unless it is a lone turn of more than  *)
(* SafeEntries entries or with a name longer than MaxName, and is the end  *)
(* of the session, graded by age, with true notes.                         *)
THEOREM CarriedStaysFaithful == BudgetSpec => []CarriedFaithfully
<1>1. BudgetInit => BudgetInv
  BY BudgetStarts
<1>2. BudgetInv /\ [BudgetNext]_budgetVars => BudgetInv'
  BY BudgetMoves
<1>3. BudgetInv => CarriedFaithfully
  BY DEF BudgetInv, CarriedFaithfully
<1> QED  BY <1>1, <1>2, <1>3, PTL DEF BudgetSpec
=============================================================================
