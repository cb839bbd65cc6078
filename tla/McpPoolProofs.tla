--------------------------- MODULE McpPoolProofs ---------------------------
(***************************************************************************)
(* Proofs about McpPool, for any number of calls, processes and unasked    *)
(* messages: its type invariant, that no process runs outside the pool but *)
(* by a race of two starts, and that a call returns the answer to its own  *)
(* request as long as its session has not fallen behind.                   *)
(*                                                                         *)
(* The lemmas are about one session r and the calls C before a step, and   *)
(* the session q and the calls D after it.                                 *)
(***************************************************************************)
EXTENDS McpPool, SequenceTheorems, FiniteSetTheorems, TLAPS

-----------------------------------------------------------------------------
(* Sequences, messages and waiting lines *)

\* A sequence without its i-th element.
LEMMA RemoveFacts ==
  ASSUME NEW X, NEW u \in Seq(X), NEW i \in 1 .. Len(u)
  PROVE  /\ RemoveAt(u, i) \in Seq(X) /\ Len(RemoveAt(u, i)) = Len(u) - 1
         /\ \A j \in 1 .. Len(u) - 1 :
              RemoveAt(u, i)[j] = IF j < i THEN u[j] ELSE u[j + 1]
<1> DEFINE a == SubSeq(u, 1, i - 1)
           b == SubSeq(u, i + 1, Len(u))
<1>1. Len(u) \in Nat /\ i \in Nat OBVIOUS
<1>2. \A j \in 1 .. Len(u) : u[j] \in X OBVIOUS
<1>3. a \in Seq(X) /\ Len(a) = i - 1 /\ \A j \in 1 .. i - 1 : a[j] = u[j]
  BY <1>1, <1>2, SubSeqProperties
<1>4. b \in Seq(X) /\ Len(b) = Len(u) - i /\ \A j \in 1 .. Len(u) - i : b[j] = u[i + j]
  BY <1>1, <1>2, SubSeqProperties
<1>5. RemoveAt(u, i) = a \o b BY DEF RemoveAt
<1> HIDE DEF a, b
<1>6. /\ a \o b \in Seq(X) /\ Len(a \o b) = Len(a) + Len(b)
      /\ \A j \in 1 .. Len(a) + Len(b) :
           (a \o b)[j] = IF j <= Len(a) THEN a[j] ELSE b[j - Len(a)]
  BY <1>3, <1>4, ConcatProperties
<1>7. Len(a) + Len(b) = Len(u) - 1 BY <1>1, <1>3, <1>4
<1>8. ASSUME NEW j \in 1 .. Len(u) - 1
      PROVE  (a \o b)[j] = IF j < i THEN u[j] ELSE u[j + 1]
  <2>1. (a \o b)[j] = IF j <= i - 1 THEN a[j] ELSE b[j - (i - 1)]
    BY <1>3, <1>6, <1>7
  <2>2. CASE j < i BY <1>1, <1>3, <2>1, <2>2
  <2>3. CASE ~(j < i)
    <3>1. j - (i - 1) \in 1 .. Len(u) - i /\ i + (j - (i - 1)) = j + 1 BY <1>1, <2>3
    <3>2. QED BY <1>1, <1>4, <2>1, <2>3, <3>1
  <2>4. QED BY <2>2, <2>3
<1>9. QED BY <1>5, <1>6, <1>7, <1>8

WaitingAt == {"initialize", "tools/call"}
AskingAt == {"drain initialize", "drain tools/call", "initializing", "calling"}
NotifyAt == {"notify", "drain notify"}

\* The request of call c when it is at that place.
Asks(c, place) == <<c, Method(place)>>

LEMMA MessageFacts ==
  ASSUME NEW c \in Calls
  PROVE  /\ \A place \in Places : Asks(c, place) \in Message
         /\ Stray \in Message /\ Error \in Message /\ Nothing \in Message
  BY DEF Message, Asks, Method, Stray, Error, Nothing

\* A line of session k: nobody stands in it twice, who stands in it waits, and
\* only its head has asked.
LineOk(k, r, C) ==
  /\ \A i, j \in 1 .. Len(r.line) : r.line[i] = r.line[j] => i = j
  /\ \A i \in 1 .. Len(r.line) :
       /\ C[r.line[i]].on = k
       /\ C[r.line[i]].at \in WaitingAt \cup AskingAt
       /\ C[r.line[i]].at \in AskingAt => i = 1

\* The head of the line has sent its request.
HeadAsks(r, C) == r.line # <<>> /\ C[r.line[1]].at \in AskingAt

\* What is on the way: the request or the answer of the head and nothing else,
\* unless the session is behind.
PipeOk(r, C) ==
  ~r.torn =>
    /\ r.alive => Len(r.stdin) + Len(r.stdout) + r.skipped
                    = r.behind + (IF HeadAsks(r, C) THEN 1 ELSE 0)
    /\ r.behind = 0 =>
         \/ r.stdin = <<>> /\ r.stdout = <<>>
         \/ /\ HeadAsks(r, C)
            /\ LET m == <<Asks(r.line[1], C[r.line[1]].at)>> IN
                 <<r.stdin, r.stdout>> \in {<<m, <<>>>>, <<<<>>, m>>}

\* A dead process reads no more.
SessionOk(k, r, C) ==
  LineOk(k, r, C) /\ PipeOk(r, C) /\ (~r.alive => r.stdin = <<>>)

LEMMA FieldFacts ==
  ASSUME NEW r \in Session
  PROVE  /\ r.line \in Seq(Calls) /\ r.stdin \in Seq(Message) /\ r.stdout \in Seq(Message)
         /\ Len(r.line) \in Nat /\ Len(r.stdin) \in Nat /\ Len(r.stdout) \in Nat
         /\ r.behind \in Nat /\ r.skipped \in Nat /\ r.alive \in BOOLEAN /\ r.torn \in BOOLEAN
         /\ r.line # <<>> => 1 \in 1 .. Len(r.line) /\ Head(r.line) = r.line[1]
  BY DEF Session

-----------------------------------------------------------------------------
(* What an action does to one session *)

\* A session keeps its line and what its members do.
LEMMA SameLine ==
  ASSUME NEW k, NEW r \in Session, NEW q \in Session, NEW C, NEW D, LineOk(k, r, C),
         q.line = r.line, \A i \in 1 .. Len(r.line) : D[r.line[i]] = C[r.line[i]]
  PROVE  LineOk(k, q, D) /\ (HeadAsks(q, D) <=> HeadAsks(r, C))
<1>1. LineOk(k, q, D) BY DEF LineOk
<1>2. QED BY <1>1, FieldFacts DEF HeadAsks

LEMMA Untouched ==
  ASSUME NEW k, NEW r \in Session, NEW C, NEW D, SessionOk(k, r, C),
         \A i \in 1 .. Len(r.line) : D[r.line[i]] = C[r.line[i]]
  PROVE  SessionOk(k, r, D)
<1>1. LineOk(k, r, D) /\ (HeadAsks(r, D) <=> HeadAsks(r, C))
  BY SameLine DEF SessionOk
<1>2. HeadAsks(r, C) => D[r.line[1]] = C[r.line[1]] BY FieldFacts DEF HeadAsks
<1>3. QED BY <1>1, <1>2 DEF SessionOk, PipeOk

\* A call joins the end of a line it does not stand in.
Joined(k, r, q, C, D, c) ==
  /\ SessionOk(k, r, C) /\ q.line = Append(r.line, c)
  /\ q.stdin = r.stdin /\ q.stdout = r.stdout /\ q.torn = r.torn /\ q.alive = r.alive
  /\ q.skipped = r.skipped
  /\ q.behind = r.behind
  /\ C[c].at \notin WaitingAt \cup AskingAt /\ D[c].on = k /\ D[c].at \in WaitingAt
  /\ \A e \in Calls \ {c} : D[e] = C[e]

LEMMA Joins ==
  ASSUME NEW k, NEW r \in Session, NEW q \in Session, NEW C, NEW D, NEW c \in Calls,
         Joined(k, r, q, C, D, c)
  PROVE  SessionOk(k, q, D)
<1> USE DEF Joined
<1>1. /\ q.line = Append(r.line, c) /\ q.stdin = r.stdin /\ q.stdout = r.stdout
      /\ q.torn = r.torn /\ q.alive = r.alive /\ q.behind = r.behind
      /\ q.skipped = r.skipped
  OBVIOUS
<1>2. /\ Len(q.line) = Len(r.line) + 1 /\ q.line[Len(r.line) + 1] = c /\ q.line # <<>>
      /\ \A i \in 1 .. Len(r.line) : q.line[i] = r.line[i]
  BY <1>1, FieldFacts, AppendProperties
<1>3. \A i \in 1 .. Len(r.line) :
         r.line[i] \in Calls /\ r.line[i] # c /\ D[r.line[i]] = C[r.line[i]]
  BY FieldFacts DEF SessionOk, LineOk
<1>4. WaitingAt \cap AskingAt = {} BY DEF WaitingAt, AskingAt
<1>5. LineOk(k, q, D)
  <2>1. \A i \in 1 .. Len(q.line) : i \in 1 .. Len(r.line) \/ i = Len(r.line) + 1
    BY <1>2, FieldFacts
  <2>2. \A i, j \in 1 .. Len(q.line) : q.line[i] = q.line[j] => i = j
    BY <1>2, <1>3, <2>1 DEF SessionOk, LineOk
  <2>3. \A i \in 1 .. Len(q.line) :
          /\ D[q.line[i]].on = k
          /\ D[q.line[i]].at \in WaitingAt \cup AskingAt
          /\ D[q.line[i]].at \in AskingAt => i = 1
    BY <1>2, <1>3, <1>4, <2>1 DEF SessionOk, LineOk
  <2>4. QED BY <2>2, <2>3 DEF LineOk
<1>6. HeadAsks(q, D) <=> HeadAsks(r, C)
  <2>1. CASE r.line = <<>>
    <3>1. q.line[1] = c BY <1>2, <2>1
    <3>2. QED BY <1>4, <2>1, <3>1 DEF HeadAsks
  <2>2. CASE r.line # <<>>
    <3>1. q.line[1] = r.line[1] /\ D[r.line[1]] = C[r.line[1]]
      BY <1>2, <1>3, <2>2, FieldFacts
    <3>2. QED BY <1>2, <2>2, <3>1 DEF HeadAsks
  <2>3. QED BY <2>1, <2>2
<1>7. HeadAsks(r, C) => q.line[1] = r.line[1] /\ D[r.line[1]] = C[r.line[1]]
  BY <1>2, <1>3, FieldFacts DEF HeadAsks
<1>8. PipeOk(q, D) BY <1>1, <1>6, <1>7 DEF SessionOk, PipeOk
<1>9. QED BY <1>5, <1>8 DEF SessionOk

\* The head of a line leaves it: nobody reads then.
LEMMA HeadLeaves ==
  ASSUME NEW k, NEW r \in Session, NEW q \in Session, NEW C, NEW D, NEW c \in Calls,
         LineOk(k, r, C), r.line # <<>>, r.line[1] = c, q.line = Tail(r.line),
         \A e \in Calls \ {c} : D[e] = C[e]
  PROVE  LineOk(k, q, D) /\ ~HeadAsks(q, D)
<1>1. /\ Len(q.line) = Len(r.line) - 1
      /\ \A i \in 1 .. Len(q.line) : q.line[i] = r.line[i + 1]
  BY FieldFacts, HeadTailProperties
<1>2. \A i \in 1 .. Len(q.line) : i + 1 \in 1 .. Len(r.line) /\ i + 1 # 1
  BY <1>1, FieldFacts
<1>3. 1 \in 1 .. Len(r.line) BY FieldFacts
<1>4. \A i \in 1 .. Len(q.line) : q.line[i] \in Calls \ {c}
  <2> TAKE i \in 1 .. Len(q.line)
  <2>1. q.line[i] \in Calls BY FieldFacts
  <2>2. q.line[i] # c BY <1>1, <1>2, <1>3 DEF LineOk
  <2>3. QED BY <2>1, <2>2
<1>5. \A i, j \in 1 .. Len(q.line) : q.line[i] = q.line[j] => i = j
  <2> TAKE i, j \in 1 .. Len(q.line)
  <2>1. q.line[i] = q.line[j] => i + 1 = j + 1 BY <1>1, <1>2 DEF LineOk
  <2>2. QED BY <2>1
<1>6. \A i \in 1 .. Len(q.line) :
        /\ D[q.line[i]] = C[r.line[i + 1]]
        /\ D[q.line[i]].on = k
        /\ D[q.line[i]].at \in WaitingAt \cup AskingAt
        /\ D[q.line[i]].at \notin AskingAt
  BY <1>1, <1>2, <1>4 DEF LineOk
<1>7. QED BY <1>5, <1>6, FieldFacts DEF LineOk, HeadAsks

\* A reader has its answer, or gives up, and hands the lock on.
Left(k, r, q, C, D, c) ==
  /\ SessionOk(k, r, C) /\ r.line # <<>> /\ r.line[1] = c /\ C[c].at \in AskingAt
  /\ q.line = Tail(r.line) /\ q.alive = r.alive /\ (~q.alive => q.stdin = <<>>)
  /\ q.skipped = r.skipped
  /\ \A e \in Calls \ {c} : D[e] = C[e]
  /\ \/ q.torn
     \/ /\ q.torn = r.torn /\ q.behind = r.behind
        /\ r.stdout # <<>> /\ q.stdout = Tail(r.stdout) /\ q.stdin = r.stdin
     \/ /\ q.torn = r.torn /\ q.behind = r.behind
        /\ r.stdout = <<>> /\ ~r.alive /\ q.stdout = r.stdout /\ q.stdin = r.stdin
        /\ q.stdin = <<>>
     \/ /\ q.torn = r.torn /\ q.behind = r.behind + 1
        /\ Len(q.stdin) = Len(r.stdin) /\ Len(q.stdout) = Len(r.stdout)

LEMMA ReaderLeaves ==
  ASSUME NEW k, NEW r \in Session, NEW q \in Session, NEW C, NEW D, NEW c \in Calls,
         Left(k, r, q, C, D, c)
  PROVE  SessionOk(k, q, D)
<1> USE DEF Left
<1>1. LineOk(k, q, D) /\ ~HeadAsks(q, D) BY HeadLeaves DEF SessionOk
<1>2. HeadAsks(r, C) BY DEF HeadAsks
<1>3. CASE q.torn BY <1>1, <1>3 DEF SessionOk, PipeOk
<1>4. ASSUME q.torn = r.torn, q.behind = r.behind + 1, ~q.torn,
             Len(q.stdin) = Len(r.stdin), Len(q.stdout) = Len(r.stdout)
      PROVE  PipeOk(q, D)
  <2>1. q.behind # 0 BY <1>4, FieldFacts
  <2>2. r.alive => Len(r.stdin) + Len(r.stdout) + r.skipped = r.behind + 1
    BY <1>2, <1>4 DEF SessionOk, PipeOk
  <2>3. QED BY <1>1, <1>4, <2>1, <2>2, FieldFacts DEF PipeOk, Session
<1>5. ASSUME q.torn = r.torn, q.behind = r.behind, ~q.torn,
             r.stdout # <<>>, q.stdout = Tail(r.stdout), q.stdin = r.stdin
      PROVE  PipeOk(q, D)
  <2>1. Len(q.stdout) = Len(r.stdout) - 1 BY <1>5, FieldFacts, HeadTailProperties
  <2>2. r.alive => Len(r.stdin) + Len(r.stdout) + r.skipped = r.behind + 1
    BY <1>2, <1>5 DEF SessionOk, PipeOk
  <2>3. r.behind = 0 => \E m : r.stdin = <<>> /\ r.stdout = <<m>>
    BY <1>5 DEF SessionOk, PipeOk
  <2>4. ASSUME r.behind = 0 PROVE q.stdin = <<>> /\ q.stdout = <<>>
    <3>1. PICK m : r.stdin = <<>> /\ r.stdout = <<m>> BY <2>3, <2>4
    <3>2. QED BY <1>5, <3>1
  <2>5. QED BY <1>1, <1>5, <2>1, <2>2, <2>4, FieldFacts DEF PipeOk, Session
<1>6. ASSUME q.torn = r.torn, q.behind = r.behind, ~r.alive, q.stdin = <<>>,
             r.stdout = <<>>, q.stdout = r.stdout
      PROVE  PipeOk(q, D)
  BY <1>6 DEF PipeOk
<1>7. QED BY <1>1, <1>3, <1>4, <1>5, <1>6 DEF SessionOk

\* A call that waits for the lock is cancelled.
Removed(k, r, q, C, D, c, n) ==
  /\ SessionOk(k, r, C) /\ r.line[n] = c /\ C[c].at \in WaitingAt
  /\ q.line = RemoveAt(r.line, n)
  /\ q.stdin = r.stdin /\ q.stdout = r.stdout /\ q.torn = r.torn /\ q.alive = r.alive
  /\ q.skipped = r.skipped
  /\ q.behind = r.behind
  /\ \A e \in Calls \ {c} : D[e] = C[e]

LEMMA WaiterLeaves ==
  ASSUME NEW k, NEW r \in Session, NEW q \in Session, NEW C, NEW D, NEW c \in Calls,
         NEW n \in 1 .. Len(r.line),
         Removed(k, r, q, C, D, c, n)
  PROVE  SessionOk(k, q, D)
<1> USE DEF Removed
<1>1. /\ q.line = RemoveAt(r.line, n) /\ q.stdin = r.stdin /\ q.stdout = r.stdout
      /\ q.torn = r.torn /\ q.alive = r.alive /\ q.behind = r.behind
      /\ q.skipped = r.skipped
  OBVIOUS
<1> DEFINE old(i) == IF i < n THEN i ELSE i + 1
<1>2. Len(q.line) = Len(r.line) - 1 /\ \A i \in 1 .. Len(q.line) : q.line[i] = r.line[old(i)]
  <2>1. r.line \in Seq(Calls) BY FieldFacts
  <2> HIDE DEF Removed
  <2>2. /\ Len(RemoveAt(r.line, n)) = Len(r.line) - 1
        /\ \A i \in 1 .. Len(r.line) - 1 :
             RemoveAt(r.line, n)[i] = IF i < n THEN r.line[i] ELSE r.line[i + 1]
    BY <2>1, RemoveFacts
  <2>3. QED BY <1>1, <2>2
<1>3. /\ \A i \in 1 .. Len(q.line) : old(i) \in 1 .. Len(r.line) /\ old(i) # n
      /\ \A i \in 1 .. Len(q.line) : old(i) = 1 => i = 1
      /\ \A i, j \in 1 .. Len(q.line) : old(i) = old(j) => i = j
  BY <1>2, FieldFacts
<1> HIDE DEF old
<1>4. \A i \in 1 .. Len(q.line) : r.line[old(i)] # c /\ D[q.line[i]] = C[r.line[old(i)]]
  <2> TAKE i \in 1 .. Len(q.line)
  <2>1. r.line[old(i)] # c BY <1>3 DEF SessionOk, LineOk
  <2>2. r.line[old(i)] \in Calls BY <1>3, FieldFacts
  <2>3. QED BY <1>2, <2>1, <2>2
<1>5. LineOk(k, q, D)
  <2>1. \A i, j \in 1 .. Len(q.line) : q.line[i] = q.line[j] => i = j
    <3> TAKE i, j \in 1 .. Len(q.line)
    <3>1. old(i) \in 1 .. Len(r.line) /\ old(j) \in 1 .. Len(r.line) BY <1>3
    <3>2. r.line[old(i)] = r.line[old(j)] => old(i) = old(j)
      BY <3>1 DEF SessionOk, LineOk
    <3>3. QED BY <1>2, <1>3, <3>2
  <2>2. \A i \in 1 .. Len(q.line) :
          /\ D[q.line[i]].on = k
          /\ D[q.line[i]].at \in WaitingAt \cup AskingAt
          /\ D[q.line[i]].at \in AskingAt => i = 1
    BY <1>3, <1>4 DEF SessionOk, LineOk
  <2>3. QED BY <2>1, <2>2 DEF LineOk
<1>6. WaitingAt \cap AskingAt = {} BY DEF WaitingAt, AskingAt
<1>7. HeadAsks(r, C) => n # 1 BY <1>6 DEF HeadAsks
<1>8. n # 1 => old(1) = 1 /\ 1 \in 1 .. Len(q.line) BY <1>2, FieldFacts DEF old
<1>9. HeadAsks(r, C) => /\ q.line # <<>> /\ q.line[1] = r.line[1]
                         /\ D[r.line[1]] = C[r.line[1]]
  BY <1>2, <1>4, <1>7, <1>8
<1>10. HeadAsks(q, D) => HeadAsks(r, C)
  <2> SUFFICES ASSUME HeadAsks(q, D) PROVE HeadAsks(r, C) OBVIOUS
  <2>1. 1 \in 1 .. Len(q.line) BY FieldFacts DEF HeadAsks
  <2>2. C[r.line[old(1)]].at \in AskingAt BY <1>4, <2>1 DEF HeadAsks
  <2>3. old(1) = 1 BY <1>3, <2>1, <2>2 DEF SessionOk, LineOk
  <2>4. 1 \in 1 .. Len(r.line) BY <1>3, <2>1, <2>3
  <2>5. QED BY <2>2, <2>3, <2>4, FieldFacts DEF HeadAsks
<1>11. HeadAsks(q, D) <=> HeadAsks(r, C) BY <1>9, <1>10 DEF HeadAsks
<1>12. PipeOk(q, D) BY <1>1, <1>9, <1>11 DEF SessionOk, PipeOk
<1>13. QED BY <1>5, <1>12 DEF SessionOk

\* The head of the line sends its request and reads.
Asked(k, r, q, C, D, c) ==
  /\ SessionOk(k, r, C) /\ r.line # <<>> /\ r.line[1] = c /\ C[c].at \in WaitingAt
  /\ r.alive /\ q.stdin = Append(r.stdin, Asks(c, C[c].at)) /\ Asks(c, C[c].at) \in Message
  /\ q.line = r.line /\ q.stdout = r.stdout /\ q.torn = r.torn /\ q.alive = r.alive
  /\ q.skipped = r.skipped
  /\ q.behind = r.behind
  /\ D[c].on = C[c].on /\ D[c].at \in AskingAt /\ Asks(c, D[c].at) = Asks(c, C[c].at)
  /\ \A e \in Calls \ {c} : D[e] = C[e]

LEMMA HeadSends ==
  ASSUME NEW k, NEW r \in Session, NEW q \in Session, NEW C, NEW D, NEW c \in Calls,
         Asked(k, r, q, C, D, c)
  PROVE  SessionOk(k, q, D)
<1> USE DEF Asked
<1>1. /\ q.line = r.line /\ q.stdin = Append(r.stdin, Asks(c, C[c].at))
      /\ q.stdout = r.stdout
      /\ q.torn = r.torn /\ q.alive = r.alive /\ q.behind = r.behind
      /\ q.skipped = r.skipped
  OBVIOUS
<1>2. ~HeadAsks(r, C) BY DEF HeadAsks, WaitingAt, AskingAt
<1>3. HeadAsks(q, D) BY <1>1 DEF HeadAsks
<1>4. LineOk(k, q, D)
  <2>1. \A i \in 1 .. Len(r.line) : r.line[i] \in Calls /\ (r.line[i] = c => i = 1)
    BY FieldFacts DEF SessionOk, LineOk
  <2>2. QED BY <1>1, <2>1 DEF SessionOk, LineOk
<1>5. Len(q.stdin) = Len(r.stdin) + 1 BY <1>1, FieldFacts, AppendProperties
<1>6. r.stdin = <<>> => q.stdin = <<Asks(c, D[c].at)>> BY <1>1
<1>7. PipeOk(q, D)
  <2> SUFFICES ASSUME ~r.torn PROVE PipeOk(q, D) BY <1>1 DEF PipeOk
  <2>1. r.alive => Len(r.stdin) + Len(r.stdout) + r.skipped = r.behind
    BY <1>2, FieldFacts DEF SessionOk, PipeOk, Session
  <2>2. r.behind = 0 => r.stdin = <<>> /\ r.stdout = <<>> BY <1>2 DEF SessionOk, PipeOk
  <2>3. r.alive => Len(q.stdin) + Len(q.stdout) + q.skipped = q.behind + 1
    BY <1>1, <1>5, <2>1, FieldFacts DEF Session
  <2>4. q.line[1] = c BY <1>1
  <2>5. QED BY <1>1, <1>3, <1>6, <2>2, <2>3, <2>4 DEF PipeOk, Session
<1>8. QED BY <1>4, <1>7 DEF SessionOk

\* The server answers, skips a request, speaks unasked or dies.
Served(k, r, q, C) ==
  /\ SessionOk(k, r, C) /\ q.line = r.line /\ q.torn = r.torn
  /\ \/ /\ r.stdin # <<>> /\ q.stdin = Tail(r.stdin) /\ q.alive = r.alive
        /\ q.skipped = r.skipped
        /\ q.stdout = Append(r.stdout, Head(r.stdin)) /\ q.behind = r.behind
     \/ /\ q.stdin = r.stdin /\ Len(q.stdout) = Len(r.stdout) + 1
        /\ q.behind = r.behind + 1 /\ q.alive = r.alive /\ q.skipped = r.skipped
     \/ /\ r.stdin # <<>> /\ q.stdin = Tail(r.stdin) /\ q.stdout = r.stdout
        /\ q.alive = r.alive /\ q.skipped = r.skipped + 1 /\ q.behind = r.behind
     \/ ~q.alive /\ q.stdin = <<>> /\ q.stdout = r.stdout /\ q.behind = r.behind

LEMMA ServerActs ==
  ASSUME NEW k, NEW r \in Session, NEW q \in Session, NEW C,
         Served(k, r, q, C)
  PROVE  SessionOk(k, q, C)
<1> USE DEF Served
<1>1. LineOk(k, q, C) /\ (HeadAsks(q, C) <=> HeadAsks(r, C))
  BY SameLine DEF SessionOk
<1>2. CASE /\ r.stdin # <<>> /\ q.stdin = Tail(r.stdin) /\ q.alive = r.alive
           /\ q.skipped = r.skipped
           /\ q.stdout = Append(r.stdout, Head(r.stdin)) /\ q.behind = r.behind
  <2>1. Head(r.stdin) \in Message /\ Len(q.stdin) = Len(r.stdin) - 1
    BY <1>2, FieldFacts, HeadTailProperties
  <2>2. Len(q.stdout) = Len(r.stdout) + 1 BY <1>2, <2>1, FieldFacts, AppendProperties
  <2>3. Len(q.stdin) + Len(q.stdout) = Len(r.stdin) + Len(r.stdout)
    BY <2>1, <2>2, FieldFacts DEF Session
  <2>4. ASSUME r.behind = 0, ~r.torn
        PROVE  /\ HeadAsks(r, C) /\ q.stdin = <<>>
               /\ q.stdout = <<Asks(r.line[1], C[r.line[1]].at)>>
    <3>1. /\ HeadAsks(r, C) /\ r.stdout = <<>>
          /\ r.stdin = <<Asks(r.line[1], C[r.line[1]].at)>>
      BY <1>2, <2>4 DEF SessionOk, PipeOk
    <3>2. QED BY <1>2, <3>1
  <2>5. QED BY <1>1, <1>2, <2>3, <2>4 DEF SessionOk, PipeOk
<1>3. CASE /\ q.stdin = r.stdin /\ Len(q.stdout) = Len(r.stdout) + 1
           /\ q.behind = r.behind + 1 /\ q.alive = r.alive /\ q.skipped = r.skipped
  <2>1. q.behind # 0 BY <1>3, FieldFacts
  <2>2. Len(q.stdin) + Len(q.stdout) = Len(r.stdin) + Len(r.stdout) + 1
    BY <1>3, FieldFacts DEF Session
  <2>3. QED BY <1>1, <1>3, <2>1, <2>2, FieldFacts DEF SessionOk, PipeOk, Session
<1>4. CASE ~q.alive /\ q.stdin = <<>> /\ q.stdout = r.stdout /\ q.behind = r.behind
  BY <1>1, <1>4 DEF SessionOk, PipeOk
<1>5. CASE /\ r.stdin # <<>> /\ q.stdin = Tail(r.stdin) /\ q.stdout = r.stdout
           /\ q.alive = r.alive /\ q.skipped = r.skipped + 1 /\ q.behind = r.behind
  <2>1. Len(q.stdin) = Len(r.stdin) - 1 BY <1>5, FieldFacts, HeadTailProperties
  <2>2. Len(q.stdin) + Len(q.stdout) + q.skipped = Len(r.stdin) + Len(r.stdout) + r.skipped
    BY <1>5, <2>1, FieldFacts DEF Session
  <2>3. ASSUME r.behind = 0, ~r.torn PROVE q.stdin = <<>> /\ q.stdout = <<>>
    <3>1. r.stdout = <<>> /\ r.stdin = <<Asks(r.line[1], C[r.line[1]].at)>>
      BY <1>5, <2>3 DEF SessionOk, PipeOk
    <3>2. QED BY <1>5, <3>1
  <2>4. QED BY <1>1, <1>5, <2>2, <2>3 DEF SessionOk, PipeOk
<1>6. QED BY <1>2, <1>3, <1>4, <1>5

-----------------------------------------------------------------------------
(* All sessions and all calls *)

Answers(e) == {Nothing, Error, <<e, "tools/call">>}

PlaceOk(e, u, C) ==
  /\ C[e].at \in WaitingAt \cup AskingAt =>
       /\ C[e].on \in DOMAIN u
       /\ \E i \in 1 .. Len(u[C[e].on].line) : u[C[e].on].line[i] = e
  /\ C[e].at \in NotifyAt => C[e].on \in DOMAIN u
  /\ C[e].at # "done" => C[e].got = Nothing
  /\ C[e].got \in Answers(e) \/ (C[e].on \in DOMAIN u /\ u[C[e].on].behind > 0)

Sound(u, C) ==
  /\ \A k \in DOMAIN u : SessionOk(k, u[k], C)
  /\ \A e \in Calls : PlaceOk(e, u, C)

\* A step of the calls A that touches the sessions K.
Changes(u, v, C, D, K, A) ==
  /\ DOMAIN u \subseteq DOMAIN v
  /\ \A j \in DOMAIN v \ K : j \in DOMAIN u /\ v[j] = u[j]
  /\ \A k \in K \cap DOMAIN v : SessionOk(k, v[k], D)
  /\ \A k \in K \cap DOMAIN u :
       /\ v[k].behind >= u[k].behind
       /\ \A i \in 1 .. Len(u[k].line) :
            u[k].line[i] \notin A =>
              \E j \in 1 .. Len(v[k].line) : v[k].line[j] = u[k].line[i]
  /\ \A e \in Calls \ A : D[e] = C[e]
  /\ \A c \in A : C[c].at \in WaitingAt \cup AskingAt => C[c].on \in K
  /\ \A c \in A : PlaceOk(c, v, D)

LEMMA Change ==
  ASSUME NEW u \in Seq(Session), NEW v \in Seq(Session), NEW C, NEW D, NEW K, NEW A,
         Sound(u, C), Changes(u, v, C, D, K, A)
  PROVE  Sound(v, D)
<1> USE DEF Changes
<1>1. \A j \in DOMAIN u : u[j] \in Session /\ u[j].behind \in Nat
  <2> TAKE j \in DOMAIN u
  <2>1. u[j] \in Session OBVIOUS
  <2>2. QED BY <2>1, FieldFacts
<1>2. \A j \in DOMAIN v : v[j] \in Session /\ v[j].behind \in Nat
  <2> TAKE j \in DOMAIN v
  <2>1. v[j] \in Session OBVIOUS
  <2>2. QED BY <2>1, FieldFacts
<1>3. ASSUME NEW k \in DOMAIN v PROVE SessionOk(k, v[k], D)
  <2>1. CASE k \in K BY <2>1
  <2>2. CASE k \notin K
    <3>1. k \in DOMAIN u /\ v[k] = u[k] /\ u[k] \in Session BY <1>1, <2>2
    <3>2. SessionOk(k, u[k], C) BY <3>1 DEF Sound
    <3>3. ASSUME NEW i \in 1 .. Len(u[k].line)
          PROVE  D[u[k].line[i]] = C[u[k].line[i]]
      <4>1. u[k].line[i] \in Calls BY <3>1, FieldFacts
      <4>2. /\ C[u[k].line[i]].on = k
            /\ C[u[k].line[i]].at \in WaitingAt \cup AskingAt
        BY <3>2 DEF SessionOk, LineOk
      <4>3. u[k].line[i] \notin A BY <2>2, <4>2
      <4>4. QED BY <4>1, <4>3
    <3>4. QED BY <3>1, <3>2, <3>3, Untouched
  <2>3. QED BY <2>1, <2>2
<1>4. ASSUME NEW e \in Calls PROVE PlaceOk(e, v, D)
  <2>1. CASE e \in A BY <2>1
  <2>2. CASE e \notin A
    <3>1. D[e] = C[e] /\ PlaceOk(e, u, C) BY <2>2 DEF Sound
    <3>2. ASSUME C[e].on \in DOMAIN u, u[C[e].on].behind > 0
          PROVE  C[e].on \in DOMAIN v /\ v[C[e].on].behind > 0
      <4>1. C[e].on \in DOMAIN v BY <3>2
      <4>2. CASE C[e].on \in K
        <5>1. v[C[e].on].behind >= u[C[e].on].behind BY <3>2, <4>2
        <5>2. QED BY <1>1, <1>2, <3>2, <4>1, <5>1
      <4>3. CASE C[e].on \notin K BY <3>2, <4>1, <4>3
      <4>4. QED BY <4>2, <4>3
    <3>3. ASSUME C[e].at \in WaitingAt \cup AskingAt
          PROVE  /\ C[e].on \in DOMAIN v
                 /\ \E i \in 1 .. Len(v[C[e].on].line) : v[C[e].on].line[i] = e
      <4>1. /\ C[e].on \in DOMAIN u
            /\ \E i \in 1 .. Len(u[C[e].on].line) : u[C[e].on].line[i] = e
        BY <3>1, <3>3 DEF PlaceOk
      <4>2. C[e].on \in DOMAIN v BY <4>1
      <4>3. CASE C[e].on \in K BY <2>2, <4>1, <4>2, <4>3
      <4>4. CASE C[e].on \notin K BY <4>1, <4>2, <4>4
      <4>5. QED BY <4>2, <4>3, <4>4
    <3>4. QED BY <3>1, <3>2, <3>3 DEF PlaceOk
  <2>3. QED BY <2>1, <2>2
<1>5. QED BY <1>3, <1>4 DEF Sound

-----------------------------------------------------------------------------
(* Types *)

\* What the type invariant says of one call.
LEMMA CallFacts ==
  ASSUME TypeOK, NEW c \in Calls
  PROVE  /\ call[c].at \in Places /\ call[c].on \in 0 .. Len(sessions)
         /\ call[c].got \in Message /\ Len(sessions) \in Nat
         /\ DOMAIN sessions = 1 .. Len(sessions)
         /\ call[c].on # 0 => call[c].on \in DOMAIN sessions /\ S(c) \in Session
         /\ Waiting(c) <=> call[c].at \in WaitingAt
         /\ Asking(c) <=> call[c].at \in AskingAt
         /\ Request(c) = Asks(c, call[c].at)
<1>1. /\ call[c] \in [at : Places, on : 0 .. Len(sessions), got : Message]
      /\ sessions \in Seq(Session)
  BY DEF TypeOK
<1>2. Waiting(c) <=> call[c].at \in WaitingAt BY DEF Waiting, WaitingAt
<1>3. Asking(c) <=> call[c].at \in AskingAt BY DEF Asking, Draining, Reading, AskingAt
<1>4. Request(c) = Asks(c, call[c].at) BY DEF Request, Asks
<1>5. call[c].on # 0 => call[c].on \in DOMAIN sessions BY <1>1
<1>6. call[c].on # 0 => S(c) \in Session BY <1>1, <1>5 DEF S
<1>7. QED BY <1>1, <1>2, <1>3, <1>4, <1>5, <1>6

PoolInv == TypeOK /\ Sound(sessions, call)

LEMMA ChangedSession ==
  ASSUME NEW u \in Seq(Session), NEW k \in DOMAIN u, NEW q \in Session
  PROVE  /\ [u EXCEPT ![k] = q] \in Seq(Session)
         /\ Len([u EXCEPT ![k] = q]) = Len(u)
         /\ DOMAIN [u EXCEPT ![k] = q] = DOMAIN u
         /\ [u EXCEPT ![k] = q][k] = q
         /\ \A j \in DOMAIN u \ {k} : [u EXCEPT ![k] = q][j] = u[j]
<1>1. u \in [1 .. Len(u) -> Session] /\ DOMAIN u = 1 .. Len(u) OBVIOUS
<1> DEFINE v == [u EXCEPT ![k] = q]
<1>2. v \in [1 .. Len(u) -> Session] BY <1>1
<1>3. v \in Seq(Session) /\ Len(v) = Len(u) BY <1>2
<1>4. QED BY <1>1, <1>3

LEMMA CallType ==
  ASSUME NEW C, NEW n \in Nat, NEW m \in Nat, NEW c \in Calls, NEW x,
         C \in [Calls -> [at : Places, on : 0 .. n, got : Message]], n <= m,
         x \in [at : Places, on : 0 .. m, got : Message]
  PROVE  [C EXCEPT ![c] = x] \in [Calls -> [at : Places, on : 0 .. m, got : Message]]
<1>1. [at : Places, on : 0 .. n, got : Message] \subseteq [at : Places, on : 0 .. m, got : Message]
  OBVIOUS
<1>2. QED BY <1>1

\* A step of one call c, to x, on one session k, to q.
LEMMA OneCall ==
  ASSUME PoolInv, NEW c \in Calls, NEW k \in DOMAIN sessions, NEW q \in Session, NEW x,
         sessions' = [sessions EXCEPT ![k] = q], call' = [call EXCEPT ![c] = x],
         x \in [at : Places, on : 0 .. Len(sessions), got : Message],
         SessionOk(k, q, call'), q.behind >= sessions[k].behind,
         \A i \in 1 .. Len(sessions[k].line) : sessions[k].line[i] # c =>
           \E j \in 1 .. Len(q.line) : q.line[j] = sessions[k].line[i],
         call[c].at \in WaitingAt \cup AskingAt => call[c].on = k,
         x.at \in WaitingAt \cup AskingAt =>
           x.on = k /\ \E j \in 1 .. Len(q.line) : q.line[j] = c,
         x.at \in NotifyAt => x.on = k,
         x.at # "done" => x.got = Nothing,
         x.got \in Answers(c) \/ (x.on = k /\ q.behind > 0),
         pool' = pool, notes' = notes, raced' = raced
  PROVE  PoolInv'
<1>1. /\ sessions' \in Seq(Session) /\ Len(sessions') = Len(sessions)
      /\ DOMAIN sessions' = DOMAIN sessions /\ sessions'[k] = q
      /\ \A j \in DOMAIN sessions \ {k} : sessions'[j] = sessions[j]
  BY ChangedSession DEF PoolInv, TypeOK
<1>2. /\ call'[c] = x /\ \A e \in Calls \ {c} : call'[e] = call[e]
      /\ call' \in [Calls -> [at : Places, on : 0 .. Len(sessions), got : Message]]
  <2>1. call \in [Calls -> [at : Places, on : 0 .. Len(sessions), got : Message]]
    BY DEF PoolInv, TypeOK
  <2>2. Len(sessions) \in Nat BY DEF PoolInv, TypeOK
  <2>3. QED BY <2>1, <2>2, CallType
<1>3. TypeOK' BY <1>1, <1>2 DEF PoolInv, TypeOK
<1>4. PlaceOk(c, sessions', call') BY <1>1, <1>2 DEF PlaceOk
<1>5. Sound(sessions', call')
  <2>1. \A j \in DOMAIN sessions' \ {k} : j \in DOMAIN sessions /\ sessions'[j] = sessions[j]
    BY <1>1
  <2>2. sessions \in Seq(Session) BY DEF PoolInv, TypeOK
  <2>3. Sound(sessions, call) BY DEF PoolInv
  <2>4. \A j \in {k} \cap DOMAIN sessions' : SessionOk(j, sessions'[j], call') BY <1>1
  <2>5. \A j \in {k} \cap DOMAIN sessions :
           /\ sessions'[j].behind >= sessions[j].behind
           /\ \A i \in 1 .. Len(sessions[j].line) :
                sessions[j].line[i] \notin {c} =>
                  \E n \in 1 .. Len(sessions'[j].line) :
                    sessions'[j].line[n] = sessions[j].line[i]
    BY <1>1
  <2>6. \A e \in {c} : call[e].at \in WaitingAt \cup AskingAt => call[e].on \in {k}
    OBVIOUS
  <2>7. \A e \in {c} : PlaceOk(e, sessions', call') BY <1>4
  <2>8. Changes(sessions, sessions', call, call', {k}, {c})
    BY <1>1, <1>2, <2>1, <2>4, <2>5, <2>6, <2>7 DEF Changes
  <2>9. QED BY <1>1, <2>2, <2>3, <2>8, Change
<1>6. QED BY <1>3, <1>5 DEF PoolInv

\* A step of one call c, to x, that touches no session.
LEMMA NoSession ==
  ASSUME PoolInv, NEW c \in Calls, NEW x,
         sessions' = sessions, call' = [call EXCEPT ![c] = x],
         x \in [at : Places, on : 0 .. Len(sessions), got : Message],
         call[c].at \notin WaitingAt \cup AskingAt,
         x.at \in {"starting", "done"},
         x.at # "done" => x.got = Nothing, x.got \in Answers(c),
         pool' \in {0, pool}, notes' = notes, raced' = raced
  PROVE  PoolInv'
<1>1. sessions \in Seq(Session) BY DEF PoolInv, TypeOK
<1>2. /\ call'[c] = x /\ \A e \in Calls \ {c} : call'[e] = call[e]
      /\ call' \in [Calls -> [at : Places, on : 0 .. Len(sessions), got : Message]]
  <2>1. call \in [Calls -> [at : Places, on : 0 .. Len(sessions), got : Message]]
    BY DEF PoolInv, TypeOK
  <2>2. Len(sessions) \in Nat BY DEF PoolInv, TypeOK
  <2>3. QED BY <2>1, <2>2, CallType
<1>3. TypeOK' BY <1>1, <1>2 DEF PoolInv, TypeOK
<1>4. PlaceOk(c, sessions', call')
  BY <1>1, <1>2 DEF PlaceOk, WaitingAt, AskingAt, NotifyAt
<1>5. Sound(sessions', call')
  <2>1. Sound(sessions, call) BY DEF PoolInv
  <2>2. \A e \in {c} : call[e].at \in WaitingAt \cup AskingAt => call[e].on \in {}
    OBVIOUS
  <2>3. \A e \in {c} : PlaceOk(e, sessions', call') BY <1>4
  <2>4. \A j \in {} \cap DOMAIN sessions' : SessionOk(j, sessions'[j], call') OBVIOUS
  <2>5. \A j \in {} \cap DOMAIN sessions :
           /\ sessions'[j].behind >= sessions[j].behind
           /\ \A i \in 1 .. Len(sessions[j].line) :
                sessions[j].line[i] \notin {c} =>
                  \E n \in 1 .. Len(sessions'[j].line) :
                    sessions'[j].line[n] = sessions[j].line[i]
    OBVIOUS
  <2>6. \A j \in DOMAIN sessions' \ {} : j \in DOMAIN sessions /\ sessions'[j] = sessions[j]
    OBVIOUS
  <2>7. sessions' \in Seq(Session) /\ DOMAIN sessions \subseteq DOMAIN sessions' BY <1>1
  <2>8. Changes(sessions, sessions', call, call', {}, {c})
    BY <1>2, <2>2, <2>3, <2>4, <2>5, <2>6, <2>7 DEF Changes
  <2>9. QED BY <1>1, <2>1, <2>7, <2>8, Change
<1>6. QED BY <1>3, <1>5 DEF PoolInv

\* A step of the server on session k.
LEMMA NoCall ==
  ASSUME PoolInv, NEW k \in DOMAIN sessions, NEW q \in Session,
         sessions' = [sessions EXCEPT ![k] = q], call' = call,
         SessionOk(k, q, call), q.behind >= sessions[k].behind, q.line = sessions[k].line,
         pool' = pool, notes' \in 0 .. MaxNotes, raced' = raced
  PROVE  PoolInv'
<1>1. /\ sessions' \in Seq(Session) /\ Len(sessions') = Len(sessions)
      /\ DOMAIN sessions' = DOMAIN sessions /\ sessions'[k] = q
      /\ \A j \in DOMAIN sessions \ {k} : sessions'[j] = sessions[j]
  BY ChangedSession DEF PoolInv, TypeOK
<1>2. TypeOK' BY <1>1 DEF PoolInv, TypeOK
<1>3. Sound(sessions', call')
  <2>1. \A j \in DOMAIN sessions' \ {k} : j \in DOMAIN sessions /\ sessions'[j] = sessions[j]
    BY <1>1
  <2>2. sessions \in Seq(Session) BY DEF PoolInv, TypeOK
  <2>3. Sound(sessions, call) BY DEF PoolInv
  <2>4. \A j \in {k} \cap DOMAIN sessions' : SessionOk(j, sessions'[j], call') BY <1>1
  <2>5. \A j \in {k} \cap DOMAIN sessions :
           /\ sessions'[j].behind >= sessions[j].behind
           /\ \A i \in 1 .. Len(sessions[j].line) :
                sessions[j].line[i] \notin {} =>
                  \E n \in 1 .. Len(sessions'[j].line) :
                    sessions'[j].line[n] = sessions[j].line[i]
    BY <1>1
  <2>6. /\ \A e \in {} : call[e].at \in WaitingAt \cup AskingAt => call[e].on \in {k}
        /\ \A e \in {} : PlaceOk(e, sessions', call')
        /\ \A e \in Calls \ {} : call'[e] = call[e]
    OBVIOUS
  <2>7. Changes(sessions, sessions', call, call', {k}, {})
    BY <1>1, <2>1, <2>4, <2>5, <2>6 DEF Changes
  <2>8. QED BY <1>1, <2>2, <2>3, <2>7, Change
<1>4. QED BY <1>2, <1>3 DEF PoolInv

-----------------------------------------------------------------------------
(* The steps *)

LEMMA PoolStart == Init => PoolInv
<1> SUFFICES ASSUME Init PROVE PoolInv OBVIOUS
<1>1. TypeOK BY McpAssumption DEF Init, TypeOK, Places, Message, Nothing
<1>2. sessions = <<>> /\ DOMAIN sessions = {} BY DEF Init
<1>3. ASSUME NEW c \in Calls PROVE PlaceOk(c, sessions, call)
  BY DEF Init, PlaceOk, Answers, WaitingAt, AskingAt, NotifyAt
<1>4. QED BY <1>1, <1>2, <1>3 DEF PoolInv, Sound

\* Whoever waits or has asked stands in the line of its session; who asked, first.
LEMMA InLine ==
  ASSUME PoolInv, NEW c \in Calls, Waiting(c) \/ Asking(c)
  PROVE  /\ call[c].on \in DOMAIN sessions /\ S(c) \in Session
         /\ SessionOk(call[c].on, S(c), call)
         /\ \E i \in 1 .. Len(S(c).line) : S(c).line[i] = c
         /\ S(c).line # <<>>
         /\ Asking(c) => S(c).line[1] = c
<1>1. PlaceOk(c, sessions, call) /\ TypeOK BY DEF PoolInv, Sound
<1>2. /\ call[c].on \in DOMAIN sessions
      /\ \E i \in 1 .. Len(S(c).line) : S(c).line[i] = c
  BY <1>1, CallFacts DEF PlaceOk, S
<1>3. S(c) \in Session /\ SessionOk(call[c].on, S(c), call)
  BY <1>1, <1>2 DEF PoolInv, Sound, TypeOK, S
<1>4. S(c).line # <<>> BY <1>2
<1>5. Asking(c) => S(c).line[1] = c
  BY <1>1, <1>2, <1>3, CallFacts DEF SessionOk, LineOk
<1>6. QED BY <1>2, <1>3, <1>4, <1>5

\* What is left of a line that its head or another member has left.
LEMMA TailKeeps ==
  ASSUME NEW u \in Seq(Calls), u # <<>>, NEW c, u[1] = c
  PROVE  \A i \in 1 .. Len(u) : u[i] # c => \E j \in 1 .. Len(Tail(u)) : Tail(u)[j] = u[i]
<1> SUFFICES ASSUME NEW i \in 1 .. Len(u), u[i] # c
             PROVE  \E j \in 1 .. Len(Tail(u)) : Tail(u)[j] = u[i]
  OBVIOUS
<1>1. Len(u) \in Nat /\ i # 1 OBVIOUS
<1>2. /\ Len(Tail(u)) = Len(u) - 1
      /\ \A j \in 1 .. Len(Tail(u)) : Tail(u)[j] = u[j + 1]
  BY HeadTailProperties
<1>3. i - 1 \in 1 .. Len(Tail(u)) /\ (i - 1) + 1 = i BY <1>1, <1>2
<1>4. QED BY <1>2, <1>3

LEMMA RemoveKeeps ==
  ASSUME NEW u \in Seq(Calls), NEW n \in 1 .. Len(u), NEW c, u[n] = c
  PROVE  \A i \in 1 .. Len(u) : u[i] # c =>
            \E j \in 1 .. Len(RemoveAt(u, n)) : RemoveAt(u, n)[j] = u[i]
<1> SUFFICES ASSUME NEW i \in 1 .. Len(u), u[i] # c
             PROVE  \E j \in 1 .. Len(RemoveAt(u, n)) : RemoveAt(u, n)[j] = u[i]
  OBVIOUS
<1>1. Len(u) \in Nat /\ i # n OBVIOUS
<1>2. /\ Len(RemoveAt(u, n)) = Len(u) - 1
      /\ \A j \in 1 .. Len(u) - 1 : RemoveAt(u, n)[j] = IF j < n THEN u[j] ELSE u[j + 1]
  BY RemoveFacts
<1>3. CASE i < n
  <2>1. i \in 1 .. Len(RemoveAt(u, n)) BY <1>1, <1>2, <1>3
  <2>2. QED BY <1>2, <1>3, <2>1
<1>4. CASE ~(i < n)
  <2>1. i - 1 \in 1 .. Len(u) - 1 /\ ~(i - 1 < n) /\ (i - 1) + 1 = i BY <1>1, <1>4
  <2>2. QED BY <1>2, <2>1
<1>5. QED BY <1>3, <1>4

LEMMA StepUsePooled == ASSUME PoolInv, NEW c \in Calls, UsePooled(c) PROVE PoolInv'
<1>1. PICK k : k = pool OBVIOUS
<1>2. k \in DOMAIN sessions BY <1>1 DEF UsePooled, PoolInv, TypeOK
<1>3. PICK r \in Session : r = sessions[k] BY <1>2 DEF PoolInv, TypeOK
<1>4. PICK q : q = [r EXCEPT !.line = Append(@, c)] OBVIOUS
<1>5. q \in Session
  <2>1. Append(r.line, c) \in Seq(Calls) BY FieldFacts, AppendProperties
  <2>2. QED BY <1>4, <2>1 DEF Session
<1>6. sessions' = [sessions EXCEPT ![k] = q]
  BY <1>1, <1>3, <1>4 DEF UsePooled, Session
<1> DEFINE x == [call[c] EXCEPT !.on = k,
                   !.at = IF r.initialized THEN "tools/call" ELSE "initialize"]
<1>7. /\ call' = [call EXCEPT ![c] = x] /\ call[c].at = "idle"
      /\ UNCHANGED <<pool, notes, raced>>
  BY <1>1, <1>3 DEF UsePooled, Join, PoolInv, TypeOK
<1>8. /\ x \in [at : Places, on : 0 .. Len(sessions), got : Message]
      /\ x.at \in WaitingAt /\ x.on = k /\ x.got = call[c].got
  <2>1. call[c] \in [at : Places, on : 0 .. Len(sessions), got : Message]
    BY DEF PoolInv, TypeOK
  <2>2. k \in 0 .. Len(sessions) BY <1>2 DEF PoolInv, TypeOK
  <2>3. QED BY <2>1, <2>2 DEF Places, WaitingAt
<1>9. call[c].got = Nothing BY <1>7 DEF PoolInv, Sound, PlaceOk
<1>10. call'[c] = x /\ \A e \in Calls \ {c} : call'[e] = call[e]
  BY <1>7 DEF PoolInv, TypeOK
<1> HIDE DEF x
<1>11. call[c].at \notin WaitingAt \cup AskingAt BY <1>7 DEF WaitingAt, AskingAt
<1>12. SessionOk(k, r, call) BY <1>2, <1>3 DEF PoolInv, Sound
<1>13. /\ q.line = Append(r.line, c) /\ q.stdin = r.stdin /\ q.stdout = r.stdout
       /\ q.torn = r.torn /\ q.alive = r.alive /\ q.behind = r.behind
       /\ q.skipped = r.skipped
  BY <1>4 DEF Session
<1>14. SessionOk(k, q, call')
  <2>1. call'[c].on = k /\ call'[c].at \in WaitingAt BY <1>8, <1>10
  <2>2. Joined(k, r, q, call, call', c)
    BY <1>10, <1>11, <1>12, <1>13, <2>1 DEF Joined
  <2>3. QED BY <1>5, <2>2, Joins
<1>15. /\ \A i \in 1 .. Len(r.line) : \E j \in 1 .. Len(q.line) : q.line[j] = r.line[i]
       /\ \E j \in 1 .. Len(q.line) : q.line[j] = c
  <2>1. Len(q.line) = Len(r.line) + 1 /\ q.line[Len(r.line) + 1] = c
        /\ \A i \in 1 .. Len(r.line) : q.line[i] = r.line[i]
    BY <1>13, FieldFacts, AppendProperties
  <2>2. 1 .. Len(r.line) \subseteq 1 .. Len(q.line) /\ Len(r.line) + 1 \in 1 .. Len(q.line)
    BY <2>1, FieldFacts
  <2>3. QED BY <2>1, <2>2
<1>16. q.behind >= r.behind BY <1>13, FieldFacts
<1>17. x.at \notin NotifyAt /\ x.got \in Answers(c)
  BY <1>8, <1>9 DEF WaitingAt, NotifyAt, Answers
<1>18. QED
  BY <1>2, <1>3, <1>5, <1>6, <1>7, <1>8, <1>9, <1>11, <1>14, <1>15, <1>16, <1>17, OneCall

\* A call that fails, and a call that goes on to another place.
LEMMA FailType ==
  ASSUME NEW c \in Calls, NEW n \in Nat
  PROVE  [at |-> "done", on |-> 0, got |-> Error]
           \in [at : Places, on : 0 .. n, got : Message]
<1>1. "done" \in Places BY DEF Places
<1>2. Error \in Message BY MessageFacts
<1>3. QED BY <1>1, <1>2

LEMMA MoveType ==
  ASSUME TypeOK, NEW c \in Calls, NEW at \in Places
  PROVE  /\ [call[c] EXCEPT !.at = at] \in [at : Places, on : 0 .. Len(sessions), got : Message]
         /\ [call[c] EXCEPT !.at = at].at = at
         /\ [call[c] EXCEPT !.at = at].on = call[c].on
         /\ [call[c] EXCEPT !.at = at].got = call[c].got
  BY DEF TypeOK

LEMMA CallSet ==
  ASSUME TypeOK, NEW c \in Calls, NEW x, call' = [call EXCEPT ![c] = x]
  PROVE  call'[c] = x /\ \A e \in Calls \ {c} : call'[e] = call[e]
  BY DEF TypeOK

LEMMA StepBeginStart == ASSUME PoolInv, NEW c \in Calls, BeginStart(c) PROVE PoolInv'
<1> DEFINE x == [call[c] EXCEPT !.at = "starting"]
<1>1. TypeOK /\ PlaceOk(c, sessions, call) BY DEF PoolInv, Sound
<1>2. "starting" \in Places BY DEF Places
<1>3. /\ x \in [at : Places, on : 0 .. Len(sessions), got : Message]
      /\ x.at = "starting" /\ x.got = call[c].got
  BY <1>1, <1>2, MoveType
<1>4. call[c].at = "idle" /\ call[c].got = Nothing BY <1>1 DEF BeginStart, PlaceOk
<1>5. /\ call' = [call EXCEPT ![c] = x] /\ pool' = 0 /\ UNCHANGED <<sessions, notes, raced>>
  BY <1>1 DEF BeginStart, TypeOK
<1> HIDE DEF x
<1>6. /\ call[c].at \notin WaitingAt \cup AskingAt /\ x.got \in Answers(c)
      /\ x.at \in {"starting", "done"}
  BY <1>3, <1>4 DEF WaitingAt, AskingAt, Answers
<1>7. QED BY <1>3, <1>4, <1>5, <1>6, NoSession

LEMMA StepStartFails == ASSUME PoolInv, NEW c \in Calls, StartFails(c) PROVE PoolInv'
<1> DEFINE x == [at |-> "done", on |-> 0, got |-> Error]
<1>1. x \in [at : Places, on : 0 .. Len(sessions), got : Message]
  BY FailType DEF PoolInv, TypeOK
<1>2. /\ call' = [call EXCEPT ![c] = x] /\ UNCHANGED <<pool, sessions, notes, raced>>
      /\ call[c].at \notin WaitingAt \cup AskingAt
  BY DEF StartFails, Fails, WaitingAt, AskingAt
<1>3. x.at = "done" /\ x.got \in Answers(c) BY DEF Answers
<1> HIDE DEF x
<1>4. QED BY <1>1, <1>2, <1>3, NoSession

LEMMA StepStarted == ASSUME PoolInv, NEW c \in Calls, Started(c) PROVE PoolInv'
<1>1. TypeOK /\ Sound(sessions, call) /\ PlaceOk(c, sessions, call) BY DEF PoolInv, Sound
<1>2. PICK k : k = Len(sessions) + 1 OBVIOUS
<1> DEFINE q == New(<<c>>)
           x == [call[c] EXCEPT !.on = k, !.at = "initialize"]
<1>3. /\ q \in Session /\ q.line = <<c>> /\ q.stdin = <<>> /\ q.stdout = <<>>
      /\ q.alive = TRUE /\ q.torn = FALSE /\ q.behind = 0 /\ q.skipped = 0
  <2>1. <<c>> \in Seq(Calls) /\ <<>> \in Seq(Message) OBVIOUS
  <2>2. QED BY <2>1 DEF New, Session
<1>4. /\ sessions' = Append(sessions, q) /\ Len(sessions') = k
      /\ pool' = k /\ notes' = notes
      /\ raced' \in {raced, raced \cup {pool}} /\ (pool = 0 => raced' = raced)
      /\ call[c].at = "starting" /\ call' = [call EXCEPT ![c] = x]
  <2> HIDE DEF q
  <2>1. Len(Append(sessions, q)) = k BY <1>1, <1>2, <1>3, AppendProperties DEF TypeOK
  <2>2. QED BY <1>1, <2>1 DEF Started, q, Join, New, TypeOK
<1> HIDE DEF q
<1>5. /\ sessions' \in Seq(Session) /\ k \in Nat \ {0} /\ Len(sessions) \in Nat
      /\ DOMAIN sessions = 1 .. Len(sessions) /\ DOMAIN sessions' = 1 .. k
      /\ sessions'[k] = q /\ \A j \in 1 .. Len(sessions) : sessions'[j] = sessions[j]
  BY <1>1, <1>2, <1>3, <1>4, AppendProperties DEF TypeOK
<1>6. DOMAIN sessions' \ {k} = DOMAIN sessions BY <1>2, <1>5
<1>7. /\ x \in [at : Places, on : 0 .. k, got : Message]
      /\ x.at = "initialize" /\ x.on = k /\ x.got = Nothing
  <2>1. call[c] \in [at : Places, on : 0 .. Len(sessions), got : Message]
    BY <1>1 DEF TypeOK
  <2>2. call[c].got = Nothing BY <1>1, <1>4 DEF PlaceOk
  <2>3. k \in 0 .. k /\ "initialize" \in Places BY <1>5 DEF Places
  <2>4. QED BY <2>1, <2>2, <2>3
<1>8. call'[c] = x /\ \A e \in Calls \ {c} : call'[e] = call[e] BY <1>1, <1>4, CallSet
<1>9. call' \in [Calls -> [at : Places, on : 0 .. k, got : Message]]
  <2>1. call \in [Calls -> [at : Places, on : 0 .. Len(sessions), got : Message]]
    BY <1>1 DEF TypeOK
  <2>2. Len(sessions) <= k BY <1>2, <1>5
  <2> HIDE DEF x
  <2>3. QED BY <1>4, <1>5, <1>7, <2>1, <2>2, CallType
<1> HIDE DEF x
<1>10. TypeOK'
  <2>1. pool # 0 => pool \in DOMAIN sessions BY <1>1, <1>5 DEF TypeOK
  <2>2. raced' \subseteq DOMAIN sessions' BY <1>1, <1>4, <1>6, <2>1 DEF TypeOK
  <2>3. pool' \in 0 .. Len(sessions') BY <1>4, <1>5
  <2>4. QED BY <1>1, <1>4, <1>5, <1>9, <2>2, <2>3 DEF TypeOK
<1>11. SessionOk(k, q, call')
  <2>0. /\ Len(q.line) = 1 /\ q.line[1] = c /\ call'[c].on = k
        /\ call'[c].at \in WaitingAt /\ call'[c].at \notin AskingAt
    <3>1. Len(q.line) = 1 /\ q.line[1] = c BY <1>3
    <3>2. call'[c].on = k /\ call'[c].at = "initialize" BY <1>7, <1>8
    <3>3. QED BY <3>1, <3>2 DEF WaitingAt, AskingAt
  <2>1. LineOk(k, q, call') BY <2>0 DEF LineOk
  <2>2. ~HeadAsks(q, call') BY <2>0 DEF HeadAsks
  <2>3. QED BY <1>3, <2>1, <2>2 DEF SessionOk, PipeOk
<1>12. PlaceOk(c, sessions', call')
  <2>1. k \in DOMAIN sessions' /\ Len(q.line) = 1 /\ q.line[1] = c BY <1>3, <1>5
  <2>2. QED BY <1>5, <1>7, <1>8, <2>1 DEF PlaceOk, Answers
<1>13. Changes(sessions, sessions', call, call', {k}, {c})
  <2>1. {k} \cap DOMAIN sessions = {} BY <1>2, <1>5
  <2>2. call[c].at \notin WaitingAt \cup AskingAt BY <1>4 DEF WaitingAt, AskingAt
  <2>3. \A j \in DOMAIN sessions' \ {k} : j \in DOMAIN sessions /\ sessions'[j] = sessions[j]
    BY <1>5, <1>6
  <2>4. DOMAIN sessions \subseteq DOMAIN sessions' BY <1>6
  <2>5. \A j \in {k} \cap DOMAIN sessions' : SessionOk(j, sessions'[j], call')
    BY <1>5, <1>11
  <2>6. QED BY <1>8, <1>12, <2>1, <2>2, <2>3, <2>4, <2>5 DEF Changes
<1>14. sessions \in Seq(Session) BY <1>1 DEF TypeOK
<1>15. Sound(sessions', call') BY <1>1, <1>5, <1>13, <1>14, Change
<1>16. QED BY <1>10, <1>15 DEF PoolInv

\* Call c stands in the line of session k, whose record is r.
At(c, k, r) ==
  /\ k = call[c].on /\ r = sessions[k] /\ r = S(c)
  /\ SessionOk(k, r, call) /\ r.line # <<>> /\ r.line \in Seq(Calls)
  /\ \E i \in 1 .. Len(r.line) : r.line[i] = c
  /\ Asking(c) => r.line[1] = c
  /\ Head(r.line) = r.line[1] /\ r.behind \in Nat
  /\ call[c].got = Nothing /\ call[c].at \in Places /\ k # 0
  /\ Waiting(c) => call[c].at \in WaitingAt
  /\ Asking(c) => call[c].at \in AskingAt
  /\ Request(c) = Asks(c, call[c].at)

LEMMA Within ==
  ASSUME PoolInv, NEW c \in Calls, Waiting(c) \/ Asking(c)
  PROVE  \E k \in DOMAIN sessions, r \in Session : At(c, k, r)
<1>1. TypeOK /\ PlaceOk(c, sessions, call) BY DEF PoolInv, Sound
<1>2. /\ call[c].on \in DOMAIN sessions /\ S(c) \in Session
      /\ SessionOk(call[c].on, S(c), call)
      /\ \E i \in 1 .. Len(S(c).line) : S(c).line[i] = c
      /\ S(c).line # <<>>
      /\ Asking(c) => S(c).line[1] = c
  BY InLine
<1>3. S(c) = sessions[call[c].on] BY DEF S
<1>4. S(c).line \in Seq(Calls) /\ Head(S(c).line) = S(c).line[1] /\ S(c).behind \in Nat
  BY <1>2, FieldFacts
<1>5. /\ call[c].at \in Places /\ (Waiting(c) => call[c].at \in WaitingAt)
      /\ (Asking(c) => call[c].at \in AskingAt) /\ Request(c) = Asks(c, call[c].at)
  BY <1>1, CallFacts
<1>6. call[c].got = Nothing
  <2>1. call[c].at # "done" BY <1>5 DEF WaitingAt, AskingAt
  <2>2. QED BY <1>1, <2>1 DEF PlaceOk
<1>7. call[c].on # 0 BY <1>1, <1>2 DEF TypeOK
<1>8. At(c, call[c].on, S(c)) BY <1>2, <1>3, <1>4, <1>5, <1>6, <1>7 DEF At
<1>9. QED BY <1>2, <1>8

\* A call that has asked leaves its session, which is q then, and goes on to x.
LEMMA ReaderStep ==
  ASSUME PoolInv, NEW c \in Calls, Asking(c),
         NEW k \in DOMAIN sessions, NEW r \in Session, k = call[c].on, r = sessions[k],
         NEW q \in Session, NEW x, sessions' = [sessions EXCEPT ![k] = q],
         call' = [call EXCEPT ![c] = x], UNCHANGED <<pool, notes, raced>>,
         Left(k, r, q, call, [call EXCEPT ![c] = x], c), q.behind >= r.behind,
         x \in [at : Places, on : 0 .. Len(sessions), got : Message],
         x.at \in {"notify", "done"}, x.at = "notify" => x.on = k /\ x.got = Nothing,
         x.got \in Answers(c) \/ (x.on = k /\ q.behind > 0)
  PROVE  PoolInv'
<1>1. SessionOk(k, q, call') BY ReaderLeaves
<1>2. r.line \in Seq(Calls) BY FieldFacts
<1>3. \A i \in 1 .. Len(r.line) : r.line[i] # c =>
         \E j \in 1 .. Len(q.line) : q.line[j] = r.line[i]
  BY <1>2, TailKeeps DEF Left
<1>4. x.at \notin WaitingAt \cup AskingAt BY DEF WaitingAt, AskingAt
<1>5. x.at # "done" => x.got = Nothing OBVIOUS
<1>6. x.at \in NotifyAt => x.on = k BY DEF NotifyAt
<1>7. QED BY <1>1, <1>3, <1>4, <1>5, <1>6, OneCall

\* The message a session gives to its reader is the reader's own.
LEMMA OwnMessage ==
  ASSUME NEW k, NEW r \in Session, NEW C, NEW c, SessionOk(k, r, C), ~r.torn,
         r.line # <<>>, r.line[1] = c, r.stdout # <<>>
  PROVE  r.behind > 0 \/ Head(r.stdout) = Asks(c, C[c].at)
<1>1. CASE r.behind = 0
  <2>1. r.stdout = <<Asks(c, C[c].at)>> BY <1>1 DEF SessionOk, PipeOk
  <2>2. QED BY <2>1
<1>2. CASE r.behind # 0 BY <1>2, FieldFacts
<1>3. QED BY <1>1, <1>2

LEMMA StepReceive == ASSUME PoolInv, NEW c \in Calls, Receive(c) PROVE PoolInv'
<1>1. Reading(c) /\ Asking(c) /\ TypeOK BY DEF Receive, PoolInv, Asking
<1>2. PICK k \in DOMAIN sessions, r \in Session : At(c, k, r) BY <1>1, Within
<1>3. /\ k = call[c].on /\ r = sessions[k] /\ r = S(c)
      /\ SessionOk(k, r, call) /\ r.line # <<>> /\ r.line \in Seq(Calls)
      /\ r.line[1] = c /\ r.behind \in Nat
      /\ call[c].got = Nothing /\ call[c].at \in AskingAt /\ call[c].at \in Places
  BY <1>1, <1>2 DEF At
<1>4. ~r.torn /\ r.stdout # <<>> BY <1>3 DEF Receive
<1>5. PICK q : q = [r EXCEPT !.stdout = Tail(@), !.line = Tail(@)] OBVIOUS
<1>6. /\ q \in Session /\ q.line = Tail(r.line) /\ q.stdout = Tail(r.stdout)
      /\ q.stdin = r.stdin /\ q.alive = r.alive /\ q.torn = r.torn /\ q.behind = r.behind
      /\ q.skipped = r.skipped
  <2>1. Tail(r.line) \in Seq(Calls) /\ Tail(r.stdout) \in Seq(Message)
    BY <1>3, <1>4, FieldFacts, HeadTailProperties
  <2>2. QED BY <1>5, <2>1 DEF Session
<1>7. sessions' = [sessions EXCEPT ![k] = q] /\ UNCHANGED <<pool, notes, raced>>
  BY <1>3, <1>5 DEF Receive, Set
<1>8. Head(r.stdout) \in Message BY <1>4, FieldFacts, HeadTailProperties
<1>9. PICK x : x = IF call[c].at = "initializing" THEN [call[c] EXCEPT !.at = "notify"]
                   ELSE [call[c] EXCEPT !.at = "done", !.got = Head(r.stdout)]
  OBVIOUS
<1>10. call' = [call EXCEPT ![c] = x] BY <1>1, <1>3, <1>9 DEF Receive, TypeOK
<1>11. call[c] \in [at : Places, on : 0 .. Len(sessions), got : Message]
  BY <1>1 DEF TypeOK
<1>12. /\ x \in [at : Places, on : 0 .. Len(sessions), got : Message] /\ x.on = k
       /\ IF call[c].at = "initializing" THEN x.at = "notify" /\ x.got = Nothing
          ELSE x.at = "done" /\ x.got = Head(r.stdout)
  BY <1>3, <1>8, <1>9, <1>11 DEF Places
<1>13. x.got \in Answers(c) \/ (x.on = k /\ q.behind > 0)
  <2>1. CASE call[c].at = "initializing" BY <1>12, <2>1 DEF Answers
  <2>2. CASE call[c].at # "initializing"
    <3>1. Asks(c, call[c].at) = <<c, "tools/call">> BY <1>1, <2>2 DEF Asks, Method, Reading
    <3>2. QED BY <1>3, <1>4, <1>6, <1>12, <2>2, <3>1, OwnMessage DEF Answers
  <2>3. QED BY <2>1, <2>2
<1>14. \A e \in Calls \ {c} : [call EXCEPT ![c] = x][e] = call[e] BY <1>1 DEF TypeOK
<1>15. Left(k, r, q, call, [call EXCEPT ![c] = x], c)
  <2>1. ~q.alive => q.stdin = <<>> BY <1>3, <1>6 DEF SessionOk
  <2>2. QED BY <1>3, <1>4, <1>6, <1>14, <2>1 DEF Left
<1>16. q.behind >= r.behind BY <1>3, <1>6
<1>17. x.at \in {"notify", "done"} /\ (x.at = "notify" => x.on = k /\ x.got = Nothing)
  BY <1>12
<1>18. QED
  BY <1>1, <1>3, <1>6, <1>7, <1>10, <1>12, <1>13, <1>15, <1>16, <1>17, ReaderStep

\* A reader fails, and its session becomes q.
LEMMA ReaderFails ==
  ASSUME PoolInv, NEW c \in Calls, Asking(c),
         NEW k \in DOMAIN sessions, NEW r \in Session, At(c, k, r), NEW q \in Session,
         Set(c, q), Fails(c), UNCHANGED <<pool, notes, raced>>,
         q.line = Tail(r.line), q.alive = r.alive, ~q.alive => q.stdin = <<>>,
         q.skipped = r.skipped,
         \/ q.torn /\ q.behind = r.behind
         \/ /\ q.torn = r.torn /\ q.behind = r.behind
            /\ r.stdout # <<>> /\ q.stdout = Tail(r.stdout) /\ q.stdin = r.stdin
         \/ /\ q.torn = r.torn /\ q.behind = r.behind
            /\ r.stdout = <<>> /\ ~r.alive /\ q.stdout = r.stdout /\ q.stdin = r.stdin
            /\ q.stdin = <<>>
         \/ /\ q.torn = r.torn /\ q.behind = r.behind + 1
            /\ Len(q.stdin) = Len(r.stdin) /\ Len(q.stdout) = Len(r.stdout)
  PROVE  PoolInv'
<1> DEFINE x == [at |-> "done", on |-> 0, got |-> Error]
<1>1. TypeOK BY DEF PoolInv
<1>2. x \in [at : Places, on : 0 .. Len(sessions), got : Message]
  BY <1>1, FailType DEF TypeOK
<1>3. call' = [call EXCEPT ![c] = x] /\ sessions' = [sessions EXCEPT ![k] = q]
  BY DEF Fails, Set, At
<1>4. x.at = "done" /\ x.got \in Answers(c) BY DEF Answers
<1> HIDE DEF x
<1>5. \A e \in Calls \ {c} : [call EXCEPT ![c] = x][e] = call[e] BY <1>1 DEF TypeOK
<1>6. /\ SessionOk(k, r, call) /\ r.line # <<>> /\ r.line[1] = c
      /\ call[c].at \in AskingAt /\ k = call[c].on /\ r = sessions[k]
      /\ r.behind \in Nat
  BY DEF At
<1>7. Left(k, r, q, call, [call EXCEPT ![c] = x], c) BY <1>5, <1>6 DEF Left
<1>8. q.behind >= r.behind BY <1>6
<1>9. QED BY <1>2, <1>3, <1>4, <1>6, <1>7, <1>8, ReaderStep

LEMMA StepReceiveError == ASSUME PoolInv, NEW c \in Calls, ReceiveError(c) PROVE PoolInv'
<1>1. Asking(c) /\ Fails(c) /\ UNCHANGED <<pool, notes, raced>> BY DEF ReceiveError, Asking
<1>2. PICK k \in DOMAIN sessions, r \in Session : At(c, k, r) BY <1>1, Within
<1>3. r = S(c) /\ r.line # <<>> /\ r.line \in Seq(Calls) BY <1>2 DEF At
<1>4. Tail(r.line) \in Seq(Calls) BY <1>3, HeadTailProperties
<1>5. ASSUME r.stdout # <<>>, Set(c, [r EXCEPT !.stdout = Tail(@), !.line = Tail(@)])
      PROVE  PoolInv'
  <2>1. PICK q : q = [r EXCEPT !.stdout = Tail(@), !.line = Tail(@)] OBVIOUS
  <2>2. Tail(r.stdout) \in Seq(Message) BY <1>5, FieldFacts, HeadTailProperties
  <2>3. /\ q \in Session /\ q.line = Tail(r.line) /\ q.stdout = Tail(r.stdout)
        /\ q.stdin = r.stdin /\ q.alive = r.alive /\ q.torn = r.torn /\ q.behind = r.behind
        /\ q.skipped = r.skipped
    BY <1>4, <2>1, <2>2 DEF Session
  <2>4. Set(c, q) /\ (~q.alive => q.stdin = <<>>)
    BY <1>2, <1>5, <2>1, <2>3 DEF At, SessionOk
  <2>5. QED BY <1>1, <1>2, <1>5, <2>3, <2>4, ReaderFails
<1>6. ASSUME r.stdout = <<>>, ~r.alive, Set(c, [r EXCEPT !.line = Tail(@)])
      PROVE  PoolInv'
  <2>1. PICK q : q = [r EXCEPT !.line = Tail(@)] OBVIOUS
  <2>2. /\ q \in Session /\ q.line = Tail(r.line) /\ q.stdout = r.stdout
        /\ q.stdin = r.stdin /\ q.alive = r.alive /\ q.torn = r.torn /\ q.behind = r.behind
        /\ q.skipped = r.skipped
    BY <1>4, <2>1 DEF Session
  <2>3. Set(c, q) BY <1>6, <2>1
  <2>4. r.stdin = <<>> BY <1>2, <1>6 DEF At, SessionOk
  <2>5. QED BY <1>1, <1>2, <1>6, <2>2, <2>3, <2>4, ReaderFails
<1>7. QED BY <1>3, <1>5, <1>6 DEF ReceiveError

LEMMA DisownFacts ==
  ASSUME NEW u \in Seq(Message), NEW c \in Calls
  PROVE  Disown(u, c) \in Seq(Message) /\ Len(Disown(u, c)) = Len(u)
<1>1. Stray \in Message BY MessageFacts
<1>2. /\ DOMAIN u = 1 .. Len(u) /\ Len(u) \in Nat
      /\ \A i \in DOMAIN u : (IF u[i] = Request(c) THEN Stray ELSE u[i]) \in Message
  BY <1>1
<1>3. Disown(u, c) \in [1 .. Len(u) -> Message] BY <1>2 DEF Disown
<1>4. QED BY <1>2, <1>3

LEMMA StepAbandon ==
  ASSUME PoolInv, NEW c \in Calls, Asking(c), GiveUp(c) \/ Abandon(c), Fails(c),
         UNCHANGED <<pool, notes, raced>>
  PROVE  PoolInv'
<1>1. PICK k \in DOMAIN sessions, r \in Session : At(c, k, r) BY Within
<1>2. r = S(c) /\ r.line # <<>> /\ r.line \in Seq(Calls) /\ r.behind \in Nat
  BY <1>1 DEF At
<1>3. Tail(r.line) \in Seq(Calls) BY <1>2, HeadTailProperties
<1>4. ~r.alive => r.stdin = <<>> BY <1>1 DEF At, SessionOk
<1>5. /\ Disown(r.stdin, c) \in Seq(Message) /\ Len(Disown(r.stdin, c)) = Len(r.stdin)
      /\ Disown(r.stdout, c) \in Seq(Message) /\ Len(Disown(r.stdout, c)) = Len(r.stdout)
  BY FieldFacts, DisownFacts
<1>6. r.stdin = <<>> => Disown(r.stdin, c) = <<>> BY <1>5
<1>7. ASSUME Set(c, [r EXCEPT !.line = Tail(@), !.behind = @ + 1,
                       !.stdin = Disown(@, c), !.stdout = Disown(@, c)])
      PROVE  PoolInv'
  <2>1. PICK q : q = [r EXCEPT !.line = Tail(@), !.behind = @ + 1,
                        !.stdin = Disown(@, c), !.stdout = Disown(@, c)]
    OBVIOUS
  <2>2. /\ q \in Session /\ q.line = Tail(r.line) /\ q.alive = r.alive /\ q.torn = r.torn
        /\ q.skipped = r.skipped
        /\ q.behind = r.behind + 1
        /\ q.stdin = Disown(r.stdin, c) /\ q.stdout = Disown(r.stdout, c)
    <3>1. PICK a, b : a = Disown(r.stdin, c) /\ b = Disown(r.stdout, c) OBVIOUS
    <3>2. a \in Seq(Message) /\ b \in Seq(Message) BY <1>5, <3>1
    <3>3. PICK l \in Seq(Calls) : l = Tail(r.line) BY <1>3
    <3>4. PICK m \in Nat : m = r.behind + 1 BY <1>2
    <3>5. q = [r EXCEPT !.line = l, !.behind = m, !.stdin = a, !.stdout = b]
      BY <2>1, <3>1, <3>3, <3>4
    <3>6. QED BY <3>1, <3>2, <3>3, <3>4, <3>5 DEF Session
  <2>3. Set(c, q) BY <1>7, <2>1
  <2>4. QED BY <1>1, <1>4, <1>5, <1>6, <2>2, <2>3, ReaderFails
<1>8. ASSUME r.stdin # <<>>,
             Set(c, [r EXCEPT !.line = Tail(@), !.stdin = Tail(@), !.torn = TRUE])
      PROVE  PoolInv'
  <2>1. PICK q : q = [r EXCEPT !.line = Tail(@), !.stdin = Tail(@), !.torn = TRUE]
    OBVIOUS
  <2>2. Tail(r.stdin) \in Seq(Message) BY <1>8, FieldFacts, HeadTailProperties
  <2>3. /\ q \in Session /\ q.line = Tail(r.line) /\ q.alive = r.alive /\ q.torn
        /\ q.skipped = r.skipped
        /\ q.behind = r.behind
    BY <1>2, <1>3, <2>1, <2>2 DEF Session
  <2>4. Set(c, q) BY <1>8, <2>1
  <2>5. q.alive BY <1>4, <1>8, <2>3
  <2>6. QED BY <1>1, <2>3, <2>4, <2>5, ReaderFails
<1>9. QED BY <1>2, <1>7, <1>8 DEF Abandon, GiveUp

LEMMA StepTimeout == ASSUME PoolInv, NEW c \in Calls, Timeout(c) PROVE PoolInv'
  BY StepAbandon DEF Timeout, Asking

\* A call that waits, notifies or starts is cancelled.
LEMMA StepWaiterCancelled ==
  ASSUME PoolInv, NEW c \in Calls, Waiting(c), Fails(c), UNCHANGED <<pool, notes, raced>>,
         Set(c, [S(c) EXCEPT !.line = Without(@, c)])
  PROVE  PoolInv'
<1> DEFINE x == [at |-> "done", on |-> 0, got |-> Error]
<1>1. PICK k \in DOMAIN sessions, r \in Session : At(c, k, r) BY Within
<1>2. /\ k = call[c].on /\ r = S(c) /\ r = sessions[k] /\ r.line \in Seq(Calls)
      /\ SessionOk(k, r, call) /\ call[c].at \in WaitingAt
  BY <1>1 DEF At
<1>3. PICK n \in 1 .. Len(r.line) : r.line[n] = c /\ Without(r.line, c) = RemoveAt(r.line, n)
  <2>1. \E i \in DOMAIN r.line : r.line[i] = c BY <1>1 DEF At
  <2>2. (CHOOSE i \in DOMAIN r.line : r.line[i] = c) \in DOMAIN r.line
        /\ r.line[CHOOSE i \in DOMAIN r.line : r.line[i] = c] = c
    BY <2>1
  <2>3. DOMAIN r.line = 1 .. Len(r.line) BY <1>2
  <2>4. QED BY <2>2, <2>3 DEF Without
<1>4. PICK q : q = [r EXCEPT !.line = Without(@, c)] OBVIOUS
<1>5. RemoveAt(r.line, n) \in Seq(Calls) BY <1>2, RemoveFacts
<1>6. /\ q \in Session /\ q.line = RemoveAt(r.line, n) /\ q.stdin = r.stdin
      /\ q.stdout = r.stdout /\ q.torn = r.torn /\ q.alive = r.alive /\ q.behind = r.behind
      /\ q.skipped = r.skipped
  BY <1>3, <1>4, <1>5 DEF Session
<1>7. sessions' = [sessions EXCEPT ![k] = q] BY <1>2, <1>4 DEF Set
<1>8. TypeOK BY DEF PoolInv
<1>9. x \in [at : Places, on : 0 .. Len(sessions), got : Message]
  BY <1>8, FailType DEF TypeOK
<1>10. call' = [call EXCEPT ![c] = x] BY DEF Fails
<1>11. /\ x.at = "done" /\ x.got \in Answers(c)
       /\ x.at \notin NotifyAt /\ x.at \notin WaitingAt \cup AskingAt
  BY DEF Answers, WaitingAt, AskingAt, NotifyAt
<1> HIDE DEF x
<1>12. \A e \in Calls \ {c} : call'[e] = call[e] BY <1>8, <1>10, CallSet
<1>13. Removed(k, r, q, call, call', c, n) BY <1>2, <1>3, <1>6, <1>12 DEF Removed
<1>14. SessionOk(k, q, call') BY <1>6, <1>13, WaiterLeaves
<1>15. \A i \in 1 .. Len(r.line) : r.line[i] # c =>
          \E j \in 1 .. Len(q.line) : q.line[j] = r.line[i]
  BY <1>2, <1>3, <1>6, RemoveKeeps
<1>16. q.behind >= r.behind BY <1>6, FieldFacts
<1>17. /\ q.behind >= sessions[k].behind
       /\ \A i \in 1 .. Len(sessions[k].line) : sessions[k].line[i] # c =>
            \E j \in 1 .. Len(q.line) : q.line[j] = sessions[k].line[i]
       /\ call[c].at \in WaitingAt \cup AskingAt => call[c].on = k
       /\ x.at \in WaitingAt \cup AskingAt =>
            x.on = k /\ \E j \in 1 .. Len(q.line) : q.line[j] = c
       /\ x.at \in NotifyAt => x.on = k
       /\ x.at # "done" => x.got = Nothing
       /\ x.got \in Answers(c) \/ (x.on = k /\ q.behind > 0)
       /\ q \in Session
  BY <1>2, <1>6, <1>11, <1>15, <1>16
<1>18. QED BY <1>7, <1>9, <1>10, <1>14, <1>17, OneCall

LEMMA StepCancel == ASSUME PoolInv, NEW c \in Calls, Cancel(c) PROVE PoolInv'
<1>1. Fails(c) /\ UNCHANGED <<pool, notes, raced>> BY DEF Cancel
<1>2. CASE Asking(c) BY <1>1, <1>2, StepAbandon DEF Cancel, Asking
<1>3. CASE ~Asking(c) /\ Waiting(c)
  BY <1>1, <1>3, StepWaiterCancelled DEF Cancel, Asking
<1>4. CASE ~Asking(c) /\ ~Waiting(c)
  <2> DEFINE x == [at |-> "done", on |-> 0, got |-> Error]
  <2>1. TypeOK BY DEF PoolInv
  <2>2. x \in [at : Places, on : 0 .. Len(sessions), got : Message]
    BY <2>1, FailType DEF TypeOK
  <2>3. call[c].at \notin WaitingAt \cup AskingAt BY <1>4, <2>1, CallFacts
  <2>4. call' = [call EXCEPT ![c] = x] /\ UNCHANGED <<pool, sessions, notes, raced>>
    BY <1>1, <1>4 DEF Fails, Cancel, Asking
  <2>5. x.at = "done" /\ x.got \in Answers(c) BY DEF Answers
  <2> HIDE DEF x
  <2>6. QED BY <2>2, <2>3, <2>4, <2>5, NoSession
<1>5. QED BY <1>2, <1>3, <1>4

LEMMA StepSend == ASSUME PoolInv, NEW c \in Calls, Send(c) PROVE PoolInv'
<1>1. Waiting(c) /\ Holds(c) /\ UNCHANGED <<pool, notes, raced>> /\ TypeOK
  BY DEF Send, PoolInv
<1>2. PICK k \in DOMAIN sessions, r \in Session : At(c, k, r) BY <1>1, Within
<1>3. /\ r.alive /\ k = call[c].on /\ r = S(c) /\ r = sessions[k] /\ r.line \in Seq(Calls)
      /\ SessionOk(k, r, call) /\ call[c].at \in WaitingAt /\ call[c].at \in Places
      /\ r.line # <<>> /\ r.line[1] = c /\ call[c].got = Nothing /\ r.behind \in Nat
      /\ Request(c) = Asks(c, call[c].at)
  BY <1>1, <1>2 DEF At, Holds, Send
<1>4. 1 \in 1 .. Len(r.line) BY <1>3
<1>5. PICK q : q = [r EXCEPT !.stdin = Append(@, Request(c))] OBVIOUS
<1>6. Request(c) \in Message BY <1>3, MessageFacts
<1>7. /\ q \in Session /\ q.stdin = Append(r.stdin, Asks(c, call[c].at))
      /\ q.line = r.line /\ q.stdout = r.stdout /\ q.torn = r.torn /\ q.alive = r.alive
      /\ q.behind = r.behind /\ q.skipped = r.skipped
  <2>1. Append(r.stdin, Request(c)) \in Seq(Message)
    BY <1>6, FieldFacts, AppendProperties
  <2>2. QED BY <1>3, <1>5, <2>1 DEF Session
<1>8. PICK place \in {Reads(c), Drains(c)} : call' = [call EXCEPT ![c].at = place]
  BY DEF Send
<1>9. PICK x : x = [call[c] EXCEPT !.at = place] OBVIOUS
<1>10. place \in Places /\ place \in AskingAt BY DEF Reads, Drains, Places, AskingAt
<1>11. /\ x \in [at : Places, on : 0 .. Len(sessions), got : Message]
       /\ x.at = place /\ x.on = k /\ x.got = Nothing
  BY <1>1, <1>3, <1>9, <1>10, MoveType
<1>12. sessions' = [sessions EXCEPT ![k] = q] BY <1>3, <1>5 DEF Send, Set
<1>13. call' = [call EXCEPT ![c] = x] BY <1>1, <1>8, <1>9 DEF TypeOK
<1>14. call'[c] = x /\ \A e \in Calls \ {c} : call'[e] = call[e] BY <1>1, <1>13, CallSet
<1>15. Asks(c, x.at) = Asks(c, call[c].at)
  BY <1>3, <1>11 DEF Asks, Method, Reads, Drains, WaitingAt
<1>16. Asked(k, r, q, call, call', c)
  BY <1>3, <1>6, <1>7, <1>10, <1>11, <1>14, <1>15 DEF Asked
<1>17. SessionOk(k, q, call') BY <1>7, <1>16, HeadSends
<1>18. x.at \notin NotifyAt /\ x.at # "done" BY <1>10, <1>11 DEF AskingAt, NotifyAt
<1>19. /\ q.behind >= sessions[k].behind
       /\ \A i \in 1 .. Len(sessions[k].line) : sessions[k].line[i] # c =>
            \E j \in 1 .. Len(q.line) : q.line[j] = sessions[k].line[i]
       /\ call[c].at \in WaitingAt \cup AskingAt => call[c].on = k
       /\ x.at \in WaitingAt \cup AskingAt =>
            x.on = k /\ \E j \in 1 .. Len(q.line) : q.line[j] = c
       /\ x.at \in NotifyAt => x.on = k
       /\ x.at # "done" => x.got = Nothing
       /\ x.got \in Answers(c) \/ (x.on = k /\ q.behind > 0)
       /\ q \in Session
  BY <1>3, <1>4, <1>7, <1>11 DEF Answers
<1>20. QED BY <1>1, <1>11, <1>12, <1>13, <1>17, <1>19, OneCall

\* The drain of the head returns: it asks as before.
LEMMA StepDrained == ASSUME PoolInv, NEW c \in Calls, Drained(c) PROVE PoolInv'
<1>1. Draining(c) /\ Asking(c) /\ UNCHANGED <<pool, sessions, notes, raced>> /\ TypeOK
  BY DEF Drained, PoolInv, Asking
<1>2. PICK k \in DOMAIN sessions, r \in Session : At(c, k, r) BY <1>1, Within
<1>3. /\ k = call[c].on /\ r = sessions[k] /\ r.line \in Seq(Calls)
      /\ SessionOk(k, r, call) /\ call[c].at \in AskingAt
      /\ r.line # <<>> /\ r.line[1] = c /\ call[c].got = Nothing /\ r.behind \in Nat
  BY <1>1, <1>2 DEF At
<1>4. 1 \in 1 .. Len(r.line) BY <1>3
<1>5. PICK x : x = [call[c] EXCEPT !.at = Reads(c)] OBVIOUS
<1>6. Reads(c) \in Places /\ Reads(c) \in AskingAt BY DEF Reads, Places, AskingAt
<1>7. /\ x \in [at : Places, on : 0 .. Len(sessions), got : Message]
      /\ x.at = Reads(c) /\ x.on = k /\ x.got = Nothing
  BY <1>1, <1>3, <1>5, <1>6, MoveType
<1>8. sessions' = [sessions EXCEPT ![k] = r] /\ call' = [call EXCEPT ![c] = x]
  BY <1>1, <1>3, <1>5 DEF Drained, TypeOK
<1>9. call'[c] = x /\ \A e \in Calls \ {c} : call'[e] = call[e] BY <1>1, <1>8, CallSet
<1>10. Asks(c, x.at) = Asks(c, call[c].at)
  BY <1>1, <1>7 DEF Asks, Method, Reads, Draining
<1>11. SessionOk(k, r, call')
  <2>1. LineOk(k, r, call')
    <3>1. \A i \in 1 .. Len(r.line) : r.line[i] \in Calls /\ (r.line[i] = c => i = 1)
      BY <1>3, <1>4 DEF SessionOk, LineOk
    <3>2. QED BY <1>3, <1>6, <1>7, <1>9, <3>1 DEF SessionOk, LineOk
  <2>2. HeadAsks(r, call) /\ HeadAsks(r, call') BY <1>3, <1>6, <1>7, <1>9 DEF HeadAsks
  <2>3. QED BY <1>3, <1>9, <1>10, <2>1, <2>2 DEF SessionOk, PipeOk
<1>12. /\ r.behind >= sessions[k].behind
       /\ \A i \in 1 .. Len(sessions[k].line) : sessions[k].line[i] # c =>
            \E j \in 1 .. Len(r.line) : r.line[j] = sessions[k].line[i]
       /\ call[c].at \in WaitingAt \cup AskingAt => call[c].on = k
       /\ x.at \in WaitingAt \cup AskingAt =>
            x.on = k /\ \E j \in 1 .. Len(r.line) : r.line[j] = c
       /\ x.at \in NotifyAt => x.on = k
       /\ x.at # "done" => x.got = Nothing
       /\ x.got \in Answers(c) \/ (x.on = k /\ r.behind > 0)
  BY <1>3, <1>4, <1>7 DEF Answers
<1>13. QED BY <1>1, <1>7, <1>8, <1>11, <1>12, OneCall

LEMMA StepSendFails == ASSUME PoolInv, NEW c \in Calls, SendFails(c) PROVE PoolInv'
<1>1. Fails(c) /\ UNCHANGED <<pool, notes, raced>> /\ TypeOK BY DEF SendFails, PoolInv
<1>2. CASE Draining(c)
  <2>1. Asking(c) /\ ~Waiting(c) BY <1>2 DEF Asking, Draining, Waiting
  <2>2. GiveUp(c) BY <2>1 DEF SendFails
  <2>3. QED BY <1>1, <2>1, <2>2, StepAbandon
<1>3. CASE ~Draining(c)
  <2> DEFINE x == [at |-> "done", on |-> 0, got |-> Error]
  <2>1. Waiting(c) /\ Holds(c) BY <1>3 DEF SendFails
  <2>2. PICK k \in DOMAIN sessions, r \in Session : At(c, k, r) BY <2>1, Within
  <2>3. /\ ~r.alive /\ k = call[c].on /\ r = S(c) /\ r = sessions[k] /\ r.line \in Seq(Calls)
        /\ SessionOk(k, r, call) /\ call[c].at \in WaitingAt
        /\ r.line # <<>> /\ r.line[1] = c /\ r.behind \in Nat
    BY <1>3, <2>1, <2>2 DEF At, Holds, SendFails
  <2>4. PICK q : q = [r EXCEPT !.line = Tail(@)] OBVIOUS
  <2>5. Tail(r.line) \in Seq(Calls) BY <2>3, HeadTailProperties
  <2>6. /\ q \in Session /\ q.line = Tail(r.line) /\ q.stdin = r.stdin
        /\ q.stdout = r.stdout /\ q.torn = r.torn /\ q.alive = r.alive
        /\ q.behind = r.behind
    BY <2>4, <2>5 DEF Session
  <2>7. sessions' = [sessions EXCEPT ![k] = q] /\ call' = [call EXCEPT ![c] = x]
    BY <1>1, <1>3, <2>3, <2>4 DEF SendFails, Set, Fails
  <2>8. x \in [at : Places, on : 0 .. Len(sessions), got : Message]
    <3>1. Len(sessions) \in Nat BY <1>1 DEF TypeOK
    <3>2. QED BY <3>1, FailType
  <2>9. /\ x.at = "done" /\ x.got \in Answers(c)
        /\ x.at \notin NotifyAt /\ x.at \notin WaitingAt \cup AskingAt
    BY DEF Answers, NotifyAt, WaitingAt, AskingAt
  <2> HIDE DEF x
  <2>10. \A e \in Calls \ {c} : call'[e] = call[e] BY <1>1, <2>7, CallSet
  <2>11. LineOk(k, q, call') /\ ~HeadAsks(q, call')
    BY <2>3, <2>6, <2>10, HeadLeaves DEF SessionOk
  <2>12. ~HeadAsks(r, call) BY <2>3 DEF HeadAsks, WaitingAt, AskingAt
  <2>13. SessionOk(k, q, call')
    BY <2>3, <2>6, <2>11, <2>12 DEF SessionOk, PipeOk
  <2>14. /\ q.behind >= sessions[k].behind
         /\ \A i \in 1 .. Len(sessions[k].line) : sessions[k].line[i] # c =>
              \E j \in 1 .. Len(q.line) : q.line[j] = sessions[k].line[i]
         /\ call[c].at \in WaitingAt \cup AskingAt => call[c].on = k
         /\ x.at \in WaitingAt \cup AskingAt =>
              x.on = k /\ \E j \in 1 .. Len(q.line) : q.line[j] = c
         /\ x.at \in NotifyAt => x.on = k
         /\ x.at # "done" => x.got = Nothing
         /\ x.got \in Answers(c) \/ (x.on = k /\ q.behind > 0)
         /\ q \in Session
    BY <2>3, <2>6, <2>9, TailKeeps
  <2>15. QED BY <1>1, <2>7, <2>8, <2>13, <2>14, OneCall
<1>4. QED BY <1>2, <1>3

LEMMA StepInitialized == ASSUME PoolInv, NEW c \in Calls, Initialized(c) PROVE PoolInv'
<1>1. /\ call[c].at \in NotifyAt /\ UNCHANGED <<pool, notes, raced>> /\ TypeOK
      /\ PlaceOk(c, sessions, call)
  BY DEF Initialized, Notifying, NotifyAt, PoolInv, Sound
<1>2. PICK k \in DOMAIN sessions : k = call[c].on BY <1>1 DEF PlaceOk
<1>3. PICK r \in Session : r = sessions[k] /\ r = S(c) BY <1>1, <1>2 DEF TypeOK, S
<1>4. SessionOk(k, r, call) BY <1>3 DEF PoolInv, Sound
<1>5. call[c].got = Nothing /\ call[c].at \notin WaitingAt \cup AskingAt
  BY <1>1 DEF PlaceOk, WaitingAt, AskingAt, NotifyAt
<1>6. PICK l \in Seq(Calls) : l = Append(r.line, c) BY FieldFacts, AppendProperties
<1>7. PICK q : q = [r EXCEPT !.initialized = TRUE, !.line = l] OBVIOUS
<1>8. /\ q \in Session /\ q.line = Append(r.line, c) /\ q.stdin = r.stdin
      /\ q.stdout = r.stdout /\ q.torn = r.torn /\ q.alive = r.alive
      /\ q.skipped = r.skipped
      /\ q.behind = r.behind
  BY <1>6, <1>7 DEF Session
<1>9. PICK x : x = [call[c] EXCEPT !.at = "tools/call"] OBVIOUS
<1>10. "tools/call" \in Places /\ "tools/call" \in WaitingAt BY DEF Places, WaitingAt
<1>11. /\ x \in [at : Places, on : 0 .. Len(sessions), got : Message]
      /\ x.at = "tools/call" /\ x.on = k /\ x.got = Nothing
  BY <1>1, <1>2, <1>5, <1>9, <1>10, MoveType
<1>12. sessions' = [sessions EXCEPT ![k] = q] /\ call' = [call EXCEPT ![c] = x]
  BY <1>1, <1>2, <1>3, <1>6, <1>7, <1>9 DEF Initialized, Set, TypeOK
<1>13. call'[c] = x /\ \A e \in Calls \ {c} : call'[e] = call[e] BY <1>1, <1>12, CallSet
<1>14. Joined(k, r, q, call, call', c)
  BY <1>4, <1>5, <1>8, <1>10, <1>11, <1>13 DEF Joined
<1>15. SessionOk(k, q, call') BY <1>8, <1>14, Joins
<1>16. /\ Len(q.line) = Len(r.line) + 1 /\ q.line[Len(r.line) + 1] = c
       /\ \A i \in 1 .. Len(r.line) : q.line[i] = r.line[i]
  BY <1>8, FieldFacts, AppendProperties
<1>17. /\ 1 .. Len(r.line) \subseteq 1 .. Len(q.line)
       /\ Len(r.line) + 1 \in 1 .. Len(q.line)
  BY <1>16, FieldFacts
<1>18. /\ q.behind >= sessions[k].behind
       /\ \A i \in 1 .. Len(sessions[k].line) : sessions[k].line[i] # c =>
            \E j \in 1 .. Len(q.line) : q.line[j] = sessions[k].line[i]
       /\ call[c].at \in WaitingAt \cup AskingAt => call[c].on = k
       /\ x.at \in WaitingAt \cup AskingAt =>
            x.on = k /\ \E j \in 1 .. Len(q.line) : q.line[j] = c
       /\ x.at \in NotifyAt => x.on = k
       /\ x.at # "done" => x.got = Nothing
       /\ x.got \in Answers(c) \/ (x.on = k /\ q.behind > 0)
       /\ q \in Session
  BY <1>2, <1>3, <1>8, <1>11, <1>16, <1>17, FieldFacts DEF Answers
<1>19. QED BY <1>1, <1>11, <1>12, <1>15, <1>18, OneCall

\* The notification waits: its session is not touched.
LEMMA StepNotifyDrains == ASSUME PoolInv, NEW c \in Calls, NotifyDrains(c) PROVE PoolInv'
<1>1. /\ call[c].at \in NotifyAt /\ UNCHANGED <<pool, sessions, notes, raced>> /\ TypeOK
      /\ PlaceOk(c, sessions, call)
  BY DEF NotifyDrains, NotifyAt, PoolInv, Sound
<1>2. PICK k \in DOMAIN sessions : k = call[c].on BY <1>1 DEF PlaceOk
<1>3. PICK r \in Session : r = sessions[k] BY <1>1, <1>2 DEF TypeOK
<1>4. SessionOk(k, r, call) BY <1>3 DEF PoolInv, Sound
<1>5. call[c].got = Nothing /\ call[c].at \notin WaitingAt \cup AskingAt
  BY <1>1 DEF PlaceOk, WaitingAt, AskingAt, NotifyAt
<1>6. PICK x : x = [call[c] EXCEPT !.at = "drain notify"] OBVIOUS
<1>7. /\ x \in [at : Places, on : 0 .. Len(sessions), got : Message]
      /\ x.at = "drain notify" /\ x.on = k /\ x.got = Nothing
  <2>1. "drain notify" \in Places BY DEF Places
  <2>2. QED BY <1>1, <1>2, <1>5, <1>6, <2>1, MoveType
<1>8. sessions' = [sessions EXCEPT ![k] = r] /\ call' = [call EXCEPT ![c] = x]
  <2>1. sessions' = [sessions EXCEPT ![k] = r] BY <1>1, <1>2, <1>3 DEF TypeOK
  <2>2. call' = [call EXCEPT ![c] = x] BY <1>1, <1>6 DEF NotifyDrains, TypeOK
  <2>3. QED BY <2>1, <2>2
<1>9. call'[c] = x /\ \A e \in Calls \ {c} : call'[e] = call[e] BY <1>1, <1>8, CallSet
<1>10. SessionOk(k, r, call')
  <2>1. \A i \in 1 .. Len(r.line) : r.line[i] \in Calls /\ r.line[i] # c
    BY <1>4, <1>5, FieldFacts DEF SessionOk, LineOk
  <2>2. QED BY <1>4, <1>9, <2>1, Untouched
<1>11. x.at \notin WaitingAt \cup AskingAt BY <1>7 DEF WaitingAt, AskingAt
<1>12. /\ r.behind >= sessions[k].behind
       /\ \A i \in 1 .. Len(sessions[k].line) : sessions[k].line[i] # c =>
            \E j \in 1 .. Len(r.line) : r.line[j] = sessions[k].line[i]
       /\ call[c].at \in WaitingAt \cup AskingAt => call[c].on = k
       /\ x.at \in WaitingAt \cup AskingAt =>
            x.on = k /\ \E j \in 1 .. Len(r.line) : r.line[j] = c
       /\ x.at \in NotifyAt => x.on = k
       /\ x.at # "done" => x.got = Nothing
       /\ x.got \in Answers(c) \/ (x.on = k /\ r.behind > 0)
  <2>1. r.behind >= sessions[k].behind BY <1>3, FieldFacts
  <2>2. x.got \in Answers(c) BY <1>7 DEF Answers
  <2>3. QED BY <1>3, <1>5, <1>7, <1>11, <2>1, <2>2
<1>13. QED BY <1>1, <1>7, <1>8, <1>10, <1>12, OneCall

LEMMA StepNotifyFails == ASSUME PoolInv, NEW c \in Calls, NotifyFails(c) PROVE PoolInv'
<1> DEFINE x == [at |-> "done", on |-> 0, got |-> Error]
<1>1. x \in [at : Places, on : 0 .. Len(sessions), got : Message]
  BY FailType DEF PoolInv, TypeOK
<1>2. /\ call' = [call EXCEPT ![c] = x] /\ UNCHANGED <<pool, sessions, notes, raced>>
      /\ call[c].at \notin WaitingAt \cup AskingAt
  BY DEF NotifyFails, Notifying, Fails, WaitingAt, AskingAt
<1>3. x.at = "done" /\ x.got \in Answers(c) BY DEF Answers
<1> HIDE DEF x
<1>4. QED BY <1>1, <1>2, <1>3, NoSession

LEMMA StepServer ==
  ASSUME PoolInv, NEW k \in DOMAIN sessions, ServerStep(k)
  PROVE  PoolInv'
<1>1. TypeOK BY DEF PoolInv
<1>2. PICK r \in Session : r = sessions[k] BY <1>1 DEF TypeOK
<1>3. SessionOk(k, r, call) BY <1>2 DEF PoolInv, Sound
<1>4. notes \in 0 .. MaxNotes /\ notes \in Nat /\ r.behind \in Nat
  BY <1>1, McpAssumption, FieldFacts DEF TypeOK
<1>5. CASE Answer(k)
  <2>1. r.stdin # <<>> BY <1>2, <1>5 DEF Answer
  <2>2. Head(r.stdin) \in Message /\ Tail(r.stdin) \in Seq(Message)
    BY <2>1, FieldFacts, HeadTailProperties
  <2>3. PICK a \in Seq(Message), b \in Seq(Message) :
          a = Tail(r.stdin) /\ b = Append(r.stdout, Head(r.stdin))
    BY <2>2, FieldFacts, AppendProperties
  <2>4. PICK q : q = [r EXCEPT !.stdin = a, !.stdout = b] OBVIOUS
  <2>5. /\ q \in Session /\ q.stdin = a /\ q.stdout = b /\ q.line = r.line
        /\ q.torn = r.torn /\ q.alive = r.alive /\ q.behind = r.behind
        /\ q.skipped = r.skipped
    BY <2>4 DEF Session
  <2>6. sessions' = [sessions EXCEPT ![k] = q] /\ UNCHANGED <<pool, call, notes, raced>>
    BY <1>2, <1>5, <2>3, <2>4 DEF Answer
  <2>7. Served(k, r, q, call) BY <1>3, <2>1, <2>3, <2>5 DEF Served
  <2>8. SessionOk(k, q, call) BY <2>5, <2>7, ServerActs
  <2>9. q.behind >= sessions[k].behind BY <1>2, <1>4, <2>5
  <2>10. QED BY <1>2, <1>4, <2>5, <2>6, <2>8, <2>9, NoCall
<1>6. CASE Unasked(k)
  <2>1. Stray \in Message BY DEF Stray, Message
  <2>2. PICK b \in Seq(Message) :
          b = Append(r.stdout, Stray) /\ Len(b) = Len(r.stdout) + 1
    <3>1. r.stdout \in Seq(Message) BY FieldFacts
    <3>2. Append(r.stdout, Stray) \in Seq(Message)
          /\ Len(Append(r.stdout, Stray)) = Len(r.stdout) + 1
      BY <2>1, <3>1, AppendProperties
    <3>3. QED BY <3>2
  <2>3. PICK m \in Nat : m = r.behind + 1 BY <1>4
  <2>4. PICK q : q = [r EXCEPT !.stdout = b, !.behind = m] OBVIOUS
  <2>5. /\ q \in Session /\ q.stdin = r.stdin /\ q.stdout = b /\ q.line = r.line
        /\ q.torn = r.torn /\ q.alive = r.alive /\ q.behind = r.behind + 1
        /\ q.skipped = r.skipped
    BY <2>3, <2>4 DEF Session
  <2>6. /\ sessions' = [sessions EXCEPT ![k] = q] /\ UNCHANGED <<pool, call, raced>>
        /\ notes' \in 0 .. MaxNotes
    <3>1. notes' \in 0 .. MaxNotes BY <1>4, <1>6, McpAssumption DEF Unasked
    <3>2. sessions' = [sessions EXCEPT ![k] = q]
      BY <1>2, <1>6, <2>2, <2>3, <2>4 DEF Unasked
    <3>3. QED BY <1>6, <3>1, <3>2 DEF Unasked
  <2>7. Served(k, r, q, call) BY <1>3, <2>2, <2>5 DEF Served
  <2>8. SessionOk(k, q, call) BY <2>5, <2>7, ServerActs
  <2>9. q.behind >= sessions[k].behind BY <1>2, <1>4, <2>5
  <2>10. QED BY <1>2, <2>5, <2>6, <2>8, <2>9, NoCall
<1>7. CASE Dies(k)
  <2>1. PICK q : q = [r EXCEPT !.alive = FALSE, !.stdin = <<>>] OBVIOUS
  <2>2. /\ q \in Session /\ q.stdin = <<>> /\ q.stdout = r.stdout /\ q.line = r.line
        /\ q.torn = r.torn /\ ~q.alive /\ q.behind = r.behind
    <3>0. <<>> \in Seq(Message) OBVIOUS
    <3>1. PICK e \in Seq(Message) : e = <<>> BY <3>0
    <3>2. q = [r EXCEPT !.alive = FALSE, !.stdin = e] BY <2>1, <3>1
    <3>3. QED BY <3>1, <3>2 DEF Session
  <2>3. sessions' = [sessions EXCEPT ![k] = q] /\ UNCHANGED <<pool, call, notes, raced>>
    BY <1>2, <1>7, <2>1 DEF Dies
  <2>4. Served(k, r, q, call) BY <1>3, <2>2 DEF Served
  <2>5. SessionOk(k, q, call) BY <2>2, <2>4, ServerActs
  <2>6. q.behind >= sessions[k].behind BY <1>2, <1>4, <2>2
  <2>7. QED BY <1>2, <1>4, <2>2, <2>3, <2>5, <2>6, NoCall
<1>8. CASE Skip(k)
  <2>1. r.stdin # <<>> BY <1>2, <1>8 DEF Skip
  <2>2. PICK a \in Seq(Message) : a = Tail(r.stdin)
    BY <2>1, FieldFacts, HeadTailProperties
  <2>3. PICK m \in Nat : m = r.skipped + 1 BY FieldFacts
  <2>4. PICK q : q = [r EXCEPT !.stdin = a, !.skipped = m] OBVIOUS
  <2>5. /\ q \in Session /\ q.stdin = a /\ q.stdout = r.stdout /\ q.line = r.line
        /\ q.torn = r.torn /\ q.alive = r.alive /\ q.behind = r.behind /\ q.skipped = m
    BY <2>4 DEF Session
  <2>6. sessions' = [sessions EXCEPT ![k] = q] /\ UNCHANGED <<pool, call, raced>>
    BY <1>2, <1>8, <2>2, <2>3, <2>4 DEF Skip
  <2>7. notes' \in 0 .. MaxNotes BY <1>4, <1>8, McpAssumption DEF Skip
  <2>8. Served(k, r, q, call) BY <1>3, <2>1, <2>2, <2>3, <2>5 DEF Served
  <2>9. SessionOk(k, q, call) BY <2>5, <2>8, ServerActs
  <2>10. q.behind >= sessions[k].behind BY <1>2, <1>4, <2>5
  <2>11. QED BY <1>2, <2>5, <2>6, <2>7, <2>9, <2>10, NoCall
<1>9. QED BY <1>5, <1>6, <1>7, <1>8 DEF ServerStep

LEMMA PoolStep == PoolInv /\ [Next]_vars => PoolInv'
<1> SUFFICES ASSUME PoolInv, [Next]_vars PROVE PoolInv' OBVIOUS
<1>1. CASE UNCHANGED vars
  <2>1. UNCHANGED <<pool, sessions, call, notes, raced>> BY <1>1 DEF vars
  <2>2. TypeOK' BY <2>1 DEF PoolInv, TypeOK
  <2>3. Sound(sessions', call') BY <2>1 DEF PoolInv
  <2>4. QED BY <2>2, <2>3 DEF PoolInv
<1>2. ASSUME NEW c \in Calls, UsePooled(c) \/ BeginStart(c) \/ ClientStep(c) \/ Cancel(c)
      PROVE  PoolInv'
  BY <1>2, StepUsePooled, StepBeginStart, StepStarted, StepStartFails, StepSend,
     StepDrained, StepSendFails, StepReceive, StepReceiveError, StepNotifyDrains,
     StepInitialized, StepNotifyFails, StepTimeout, StepCancel
  DEF ClientStep
<1>3. ASSUME NEW k \in DOMAIN sessions, ServerStep(k) PROVE PoolInv'
  BY <1>3, StepServer
<1>4. QED BY <1>1, <1>2, <1>3 DEF Next

LEMMA PoolInvariant == Spec => []PoolInv
  BY PoolStart, PoolStep, PTL DEF Spec

-----------------------------------------------------------------------------
(* The theorems *)

\* Every variable keeps its type.
THEOREM PoolTypeCorrect == Spec => []TypeOK
<1>1. PoolInv => TypeOK BY DEF PoolInv
<1>2. QED BY <1>1, PoolInvariant, PTL

\* A call returns the answer to its own request, or its session fell behind; and
\* a session that fell behind stays as far behind, but for what the server skips.
THEOREM AnswersStayInStep == Spec => []AnswersInStep
<1>1. PoolInv => OwnAnswer
  <2> SUFFICES ASSUME PoolInv, NEW c \in Calls,
                      call[c].got \notin {Nothing, Error, <<c, "tools/call">>}
               PROVE  S(c).behind > 0
    BY DEF OwnAnswer
  <2>1. PlaceOk(c, sessions, call) BY DEF PoolInv, Sound
  <2>2. QED BY <2>1 DEF PlaceOk, Answers, S
<1>2. PoolInv => StaysBehind
  <2> SUFFICES ASSUME PoolInv, NEW k \in Live, ~sessions[k].torn
               PROVE  Len(sessions[k].stdin) + Len(sessions[k].stdout) + sessions[k].skipped
                        = sessions[k].behind
                            + Cardinality({c \in Calls : call[c].on = k /\ Asking(c)})
    BY DEF StaysBehind
  <2>1. k \in DOMAIN sessions /\ TypeOK BY DEF Live, PoolInv
  <2>2. PICK r \in Session : r = sessions[k] BY <2>1 DEF TypeOK
  <2>3. LineOk(k, r, call) /\ PipeOk(r, call)
    BY <2>1, <2>2 DEF PoolInv, Sound, SessionOk
  <2>4. Len(r.stdin) + Len(r.stdout) + r.skipped = r.behind + (IF HeadAsks(r, call) THEN 1 ELSE 0)
    BY <2>2, <2>3 DEF PipeOk, Live
  <2> DEFINE askers == {c \in Calls : call[c].on = k /\ Asking(c)}
  <2>5. \A c \in askers : r.line # <<>> /\ r.line[1] = c /\ call[c].at \in AskingAt
    BY <2>1, <2>2, InLine, CallFacts DEF S
  <2>6. CASE HeadAsks(r, call)
    <3>1. r.line[1] \in Calls BY <2>6, FieldFacts DEF HeadAsks
    <3>2. call[r.line[1]].on = k BY <2>3, <2>6, FieldFacts DEF HeadAsks, LineOk
    <3>3. r.line[1] \in askers BY <2>1, <2>6, <3>1, <3>2, CallFacts DEF HeadAsks
    <3>4. askers = {r.line[1]} BY <2>5, <3>3
    <3>5. Cardinality(askers) = 1 BY <3>4, FS_Singleton
    <3>6. QED BY <2>2, <2>4, <2>6, <3>5
  <2>7. CASE ~HeadAsks(r, call)
    <3>1. askers = {} BY <2>5, <2>7 DEF HeadAsks
    <3>2. Cardinality(askers) = 0 BY <3>1, FS_EmptySet
    <3>3. QED BY <2>2, <2>4, <2>7, <3>2
  <2>8. QED BY <2>6, <2>7
<1>3. QED BY <1>1, <1>2, PoolInvariant, PTL DEF AnswersInStep

\* A step that changes a session and leaves its process as it is.
LEMMA StillAlive ==
  ASSUME TypeOK, NEW c \in Calls, NEW q, Set(c, q), q.alive = S(c).alive
  PROVE  Live' = Live
<1>1. PICK k : k = call[c].on OBVIOUS
<1>2. sessions' = [sessions EXCEPT ![k] = q] /\ q.alive = sessions[k].alive
  BY <1>1 DEF Set, S
<1>3. DOMAIN sessions' = DOMAIN sessions BY <1>2
<1>4. \A j \in DOMAIN sessions : sessions'[j].alive = sessions[j].alive BY <1>2
<1>5. QED BY <1>3, <1>4 DEF Live

\* A living process is the pooled one, but for those that a second start replaced.
THEOREM ProcessesArePooled == Spec => []ProcessesPooled
<1>1. Init => ProcessesPooled BY DEF Init, ProcessesPooled, Live
<1>2. PoolInv /\ ProcessesPooled /\ [Next]_vars => ProcessesPooled'
  <2> SUFFICES ASSUME PoolInv, ProcessesPooled, [Next]_vars
               PROVE  ProcessesPooled'
    OBVIOUS
  <2> USE DEF ProcessesPooled
  <2>1. TypeOK /\ sessions \in Seq(Session) /\ DOMAIN sessions = 1 .. Len(sessions)
        /\ Len(sessions) \in Nat
    BY DEF PoolInv, TypeOK
  <2>2. Live \subseteq DOMAIN sessions /\ 0 \notin DOMAIN sessions BY <2>1 DEF Live
  <2>3. ASSUME Live' \subseteq Live, UNCHANGED <<pool, raced>> PROVE ProcessesPooled'
    BY <2>3
  <2>4. CASE UNCHANGED vars
    <3>1. Live' = Live /\ UNCHANGED <<pool, raced>> BY <2>4 DEF vars, Live
    <3>2. QED BY <2>3, <3>1
  <2>5. ASSUME NEW c \in Calls, BeginStart(c) PROVE ProcessesPooled'
    <3>1. Live' = Live /\ raced' = raced /\ pool' = 0 BY <2>5 DEF BeginStart, Live
    <3>2. pool \notin Live BY <2>2, <2>5 DEF BeginStart, Live
    <3>3. QED BY <3>1, <3>2
  <2>6. ASSUME NEW c \in Calls, Started(c) PROVE ProcessesPooled'
    <3>1. PICK k : k = Len(sessions) + 1 OBVIOUS
    <3>2. New(<<c>>) \in Session
      <4>1. <<c>> \in Seq(Calls) /\ <<>> \in Seq(Message) OBVIOUS
      <4>2. QED BY <4>1 DEF New, Session
    <3>3. /\ DOMAIN sessions' = 1 .. k /\ pool' = k
          /\ \A j \in 1 .. Len(sessions) : sessions'[j] = sessions[j]
      <4>1. sessions' = Append(sessions, New(<<c>>)) /\ pool' = Len(sessions')
        BY <2>6 DEF Started
      <4>2. sessions' \in Seq(Session) /\ Len(sessions') = k
        BY <2>1, <3>1, <3>2, <4>1, AppendProperties
      <4>3. QED BY <2>1, <3>2, <4>1, <4>2, AppendProperties
    <3>4. Live' \subseteq Live \cup {k} BY <2>1, <3>1, <3>3 DEF Live
    <3>5. Live \subseteq raced'
      <4>1. raced' = IF pool = 0 THEN raced ELSE raced \cup {pool} BY <2>6 DEF Started
      <4>2. QED BY <2>2, <4>1
    <3>6. QED BY <3>3, <3>4, <3>5
  <2>7. ASSUME NEW c \in Calls,
               \/ UsePooled(c) \/ StartFails(c) \/ Send(c) \/ Drained(c) \/ SendFails(c)
               \/ Receive(c) \/ ReceiveError(c) \/ NotifyDrains(c) \/ Initialized(c)
               \/ NotifyFails(c) \/ Timeout(c) \/ Cancel(c)
        PROVE  ProcessesPooled'
    <3>1. UNCHANGED <<pool, raced>>
      BY <2>7 DEF UsePooled, StartFails, Send, Drained, SendFails, Receive, ReceiveError,
                  NotifyDrains, Initialized, NotifyFails, Timeout, Cancel
    <3>2. CASE sessions' = sessions
      <4>1. Live' = Live BY <3>2 DEF Live
      <4>2. QED BY <2>3, <3>1, <4>1
    <3>3. CASE UsePooled(c)
      <4>1. PICK k : k = pool OBVIOUS
      <4>2. k \in DOMAIN sessions BY <2>1, <3>3, <4>1 DEF UsePooled, TypeOK
      <4>3. PICK r \in Session : r = sessions[k] BY <2>1, <4>2
      <4>4. sessions' = [sessions EXCEPT ![k] = [r EXCEPT !.line = Append(@, c)]]
        BY <3>3, <4>1, <4>3 DEF UsePooled
      <4>5. [r EXCEPT !.line = Append(@, c)].alive = r.alive BY DEF Session
      <4>6. Live' = Live BY <4>2, <4>3, <4>4, <4>5 DEF Live
      <4>7. QED BY <2>3, <3>1, <4>6
    <3>4. ASSUME call[c].on \notin DOMAIN sessions, NEW q, Set(c, q)
          PROVE  sessions' = sessions
      BY <2>1, <3>4 DEF Set
    <3>5. ASSUME ~UsePooled(c), sessions' # sessions
          PROVE  \E q : Set(c, q) /\ (S(c) \in Session => q.alive = S(c).alive)
      <4>1. PICK r : r = S(c) OBVIOUS
      <4>2. SUFFICES \E q : Set(c, q) /\ (r \in Session => q.alive = r.alive)
        BY <4>1
      <4>3. ASSUME NEW q, Set(c, q), r \in Session => q.alive = r.alive
            PROVE  \E p : Set(c, p) /\ (r \in Session => p.alive = r.alive)
        BY <4>3
      <4>4. ASSUME GiveUp(c) \/ Abandon(c)
            PROVE  \E p : Set(c, p) /\ (r \in Session => p.alive = r.alive)
        <5>1. CASE Set(c, [r EXCEPT !.line = Tail(@), !.behind = @ + 1,
                                    !.stdin = Disown(@, c), !.stdout = Disown(@, c)])
          <6>1. PICK q : q = [r EXCEPT !.line = Tail(@), !.behind = @ + 1,
                                       !.stdin = Disown(@, c), !.stdout = Disown(@, c)]
            OBVIOUS
          <6>2. r \in Session => q.alive = r.alive BY <6>1 DEF Session
          <6>3. Set(c, q) BY <5>1, <6>1
          <6>4. QED BY <4>3, <6>2, <6>3
        <5>2. CASE Set(c, [r EXCEPT !.line = Tail(@), !.stdin = Tail(@), !.torn = TRUE])
          <6>1. PICK q : q = [r EXCEPT !.line = Tail(@), !.stdin = Tail(@), !.torn = TRUE]
            OBVIOUS
          <6>2. r \in Session => q.alive = r.alive BY <6>1 DEF Session
          <6>3. Set(c, q) BY <5>2, <6>1
          <6>4. QED BY <4>3, <6>2, <6>3
        <5>3. QED BY <4>1, <4>4, <5>1, <5>2 DEF Abandon, GiveUp
      <4>5. ASSUME NEW l, Set(c, [r EXCEPT !.line = l])
            PROVE  \E p : Set(c, p) /\ (r \in Session => p.alive = r.alive)
        <5>1. PICK q : q = [r EXCEPT !.line = l] OBVIOUS
        <5>2. r \in Session => q.alive = r.alive BY <5>1 DEF Session
        <5>3. Set(c, q) BY <4>5, <5>1
        <5>4. QED BY <4>3, <5>2, <5>3
      <4>6. ASSUME NEW l, NEW m, Set(c, [r EXCEPT !.stdout = m, !.line = l])
            PROVE  \E p : Set(c, p) /\ (r \in Session => p.alive = r.alive)
        <5>1. PICK q : q = [r EXCEPT !.stdout = m, !.line = l] OBVIOUS
        <5>2. r \in Session => q.alive = r.alive BY <5>1 DEF Session
        <5>3. Set(c, q) BY <4>6, <5>1
        <5>4. QED BY <4>3, <5>2, <5>3
      <4>7. CASE Send(c)
        <5>1. Set(c, [r EXCEPT !.stdin = Append(@, Request(c))]) BY <4>1, <4>7 DEF Send
        <5>2. PICK q : q = [r EXCEPT !.stdin = Append(@, Request(c))] OBVIOUS
        <5>3. r \in Session => q.alive = r.alive BY <5>2 DEF Session
        <5>4. Set(c, q) BY <5>1, <5>2
        <5>5. QED BY <4>3, <5>3, <5>4
      <4>8. CASE Receive(c)
        <5>1. Set(c, [r EXCEPT !.stdout = Tail(r.stdout), !.line = Tail(r.line)])
          BY <4>1, <4>8 DEF Receive
        <5>2. QED BY <4>6, <5>1
      <4>9. CASE ReceiveError(c)
        <5>1. CASE Set(c, [r EXCEPT !.stdout = Tail(@), !.line = Tail(@)])
          <6>1. Set(c, [r EXCEPT !.stdout = Tail(r.stdout), !.line = Tail(r.line)])
            BY <5>1
          <6>2. QED BY <4>6, <6>1
        <5>2. CASE Set(c, [r EXCEPT !.line = Tail(@)])
          <6>1. Set(c, [r EXCEPT !.line = Tail(r.line)]) BY <5>2
          <6>2. QED BY <4>5, <6>1
        <5>3. QED BY <4>1, <4>9, <5>1, <5>2 DEF ReceiveError
      <4>10. CASE Initialized(c)
        <5>1. Set(c, [r EXCEPT !.initialized = TRUE, !.line = Append(@, c)])
          BY <3>5, <4>1, <4>10 DEF Initialized
        <5>2. PICK q : q = [r EXCEPT !.initialized = TRUE, !.line = Append(@, c)] OBVIOUS
        <5>3. r \in Session => q.alive = r.alive BY <5>2 DEF Session
        <5>4. Set(c, q) BY <5>1, <5>2
        <5>5. QED BY <4>3, <5>3, <5>4
      <4>11. CASE Timeout(c) BY <4>4, <4>11 DEF Timeout
      <4>12. CASE Cancel(c)
        <5>1. CASE GiveUp(c) \/ Abandon(c) BY <4>4, <5>1
        <5>2. CASE Set(c, [r EXCEPT !.line = Without(@, c)])
          <6>1. Set(c, [r EXCEPT !.line = Without(r.line, c)]) BY <5>2
          <6>2. QED BY <4>5, <6>1
        <5>3. QED BY <3>5, <4>1, <4>12, <5>1, <5>2 DEF Cancel
      <4>13. CASE StartFails(c) \/ Drained(c) \/ NotifyDrains(c) \/ NotifyFails(c)
        BY <3>5, <4>13 DEF StartFails, Drained, NotifyDrains, NotifyFails
      <4>14. CASE SendFails(c)
        <5>1. CASE GiveUp(c) BY <4>4, <5>1
        <5>2. CASE Set(c, [r EXCEPT !.line = Tail(@)])
          <6>1. Set(c, [r EXCEPT !.line = Tail(r.line)]) BY <5>2
          <6>2. QED BY <4>5, <6>1
        <5>3. QED BY <4>1, <4>14, <5>1, <5>2 DEF SendFails
      <4>15. QED BY <2>7, <3>5, <4>7, <4>8, <4>9, <4>10, <4>11, <4>12, <4>13, <4>14
    <3>6. ASSUME ~UsePooled(c), sessions' # sessions PROVE Live' = Live
      <4>1. PICK q : Set(c, q) /\ (S(c) \in Session => q.alive = S(c).alive) BY <3>5, <3>6
      <4>2. call[c].on \in DOMAIN sessions BY <3>4, <3>6, <4>1
      <4>3. S(c) \in Session BY <2>1, <4>2 DEF S
      <4>4. QED BY <2>1, <4>1, <4>3, StillAlive
    <3>7. QED BY <2>3, <3>1, <3>2, <3>3, <3>6
  <2>8. ASSUME NEW k \in DOMAIN sessions, ServerStep(k)
        PROVE  ProcessesPooled'
    <3>1. PICK r \in Session : r = sessions[k] BY <2>1
    <3>2. UNCHANGED <<pool, raced>> BY <2>8 DEF ServerStep, Answer, Skip, Unasked, Dies
    <3>3. DOMAIN sessions' = DOMAIN sessions
          /\ \A j \in DOMAIN sessions \ {k} : sessions'[j] = sessions[j]
      BY <2>8 DEF ServerStep, Answer, Skip, Unasked, Dies
    <3>4. sessions'[k].alive => r.alive BY <2>8, <3>1 DEF ServerStep, Answer, Skip, Unasked, Dies, Session
    <3>5. Live' \subseteq Live BY <3>1, <3>3, <3>4 DEF Live
    <3>6. QED BY <2>3, <3>2, <3>5
  <2>9. QED BY <2>4, <2>5, <2>6, <2>7, <2>8 DEF Next, ClientStep
<1>3. QED BY <1>1, <1>2, PoolInvariant, PTL DEF Spec
=============================================================================
