---------------------------- MODULE StreamProofs ----------------------------
(***************************************************************************)
(* Proofs about what arrives piece by piece.  Chat, for every number of    *)
(* turns, tokens and other requests: the messages of the chat hold what    *)
(* was generated for them, and nothing of it is lost between the task and  *)
(* the screen.  Codec, for every list of ratios, kernel and depth: audio   *)
(* decoded frame by frame is what it would be decoded in one piece, and    *)
(* the same for what is encoded as feedback.                               *)
(***************************************************************************)
EXTENDS Chat, Codec, SequenceTheorems, FiniteSetTheorems, WellFoundedInduction, TLAPS

-----------------------------------------------------------------------------
(* The inductive invariant. *)

Requests == Turns \cup Others
Goal(t)  == IF cut[t] = 0 THEN gen[t] ELSE cut[t] - 1

\* A request waits where it is queued, once.
Queued ==
  /\ \A i \in 1 .. Len(lockq) : job[lockq[i]] = "wait"
  /\ \A i, j \in 1 .. Len(lockq) : lockq[i] = lockq[j] => i = j

\* A request that has not been posted has left nothing anywhere, a turn that
\* was not begun has no answer either.
Unborn(t) == gen[t] = 0 /\ cut[t] = 0 /\ t \notin open
Begun ==
  /\ \A t \in Turns : job[t] = "none" => Unborn(t)
  /\ \A t \in Turns : t > turn => job[t] = "none" /\ answer[t] = <<>>
  /\ \A t \in Turns : t \notin open => chan[t] = <<>>
  /\ \A t \in Turns : cut[t] <= gen[t]
  /\ ~up => open = {} /\ \A r \in Requests : job[r] \in {"none", "done"}

\* The k-th event of s is the k-th after the first `from`: the tokens up to
\* `goal` carry their numbers, End comes next.
Numbered(s, from, goal) ==
  \A i \in 1 .. Len(s) : /\ from + i <= goal => s[i] = from + i
                         /\ from + i = goal + 1 => s[i] = End

\* Of the turn's answer, channel, events and task channel, in this order, the
\* first `goal` places are the tokens in order.
Flow(t, goal) ==
  /\ goal <= Goal(t)
  /\ up => goal = Goal(t)
  /\ Len(answer[t]) <= goal
  /\ goal <= Len(answer[t]) + Len(uich) + Len(sse) + Len(chan[t])
  /\ Numbered(answer[t], 0, goal)
  /\ Numbered(uich, Len(answer[t]), goal)
  /\ Numbered(sse, Len(answer[t]) + Len(uich), goal)
  /\ Numbered(chan[t], Len(answer[t]) + Len(uich) + Len(sse), goal)

\* Where the End is: behind the reader or not, behind the event stream or not,
\* sent by the task or not.
Ended(t, goal) ==
  /\ Len(answer[t]) + Len(uich) + Len(sse) <= goal + 1
  /\ t \in open => Len(answer[t]) + Len(uich) + Len(sse) <= goal
  /\ up /\ t \notin open => Len(answer[t]) + Len(uich) + Len(sse) = goal + 1
  /\ reader = "read" => Len(answer[t]) + Len(uich) <= goal
  /\ reader = "none" => Len(answer[t]) + Len(uich) = goal + 1
  /\ up => (Len(answer[t]) + Len(uich) + Len(sse) + Len(chan[t]) > goal
              <=> cut[t] # 0 \/ job[t] \in {"bye", "done"})

Chained(t, goal) == Flow(t, goal) /\ Ended(t, goal)

\* The turn under way is not posted yet, has failed, or is posted.
Unposted == /\ reader = "post" /\ job[turn] = "none"
            /\ uich = <<>> /\ sse = <<>> /\ answer[turn] = <<>>
Refused  == /\ reader = "none" /\ job[turn] = "none" /\ sse = <<>>
            /\ \/ answer[turn] = <<>> /\ uich = <<Error, End>>
               \/ answer[turn] = <<Error>> /\ uich = <<End>>
Posted   == /\ reader # "post" /\ job[turn] # "none"
            /\ \E goal \in 0 .. Goal(turn) : Chained(turn, goal)

Live      == streaming /\ ui # "gone"
Streaming ==
  IF Live
    THEN turn > 0 /\ (Unposted \/ Refused \/ Posted)
    ELSE reader = "none"

\* Placed, place by place.
Kept == \A t \in Turns : \/ answer[t] = <<Error>>
                         \/ Len(answer[t]) <= Goal(t) /\ Numbered(answer[t], 0, Goal(t))

ChatInv == TypeOK /\ Queued /\ Begun /\ Streaming /\ Kept

-----------------------------------------------------------------------------
(* Sequences. *)

\* A first element leaves, one comes last.
LEMMA Taken ==
  ASSUME NEW S, NEW s \in Seq(S), s # <<>>
  PROVE  /\ Head(s) = s[1] /\ Head(s) \in S /\ Tail(s) \in Seq(S)
         /\ Len(s) \in Nat \ {0} /\ Len(Tail(s)) = Len(s) - 1
         /\ \A i \in 1 .. Len(s) - 1 : Tail(s)[i] = s[i + 1]
  BY HeadTailProperties

LEMMA Put ==
  ASSUME NEW S, NEW s \in Seq(S), NEW e \in S
  PROVE  /\ Append(s, e) \in Seq(S)
         /\ Len(s) \in Nat /\ Len(Append(s, e)) = Len(s) + 1
         /\ \A i \in 1 .. Len(s) : Append(s, e)[i] = s[i]
         /\ Append(s, e)[Len(s) + 1] = e
  BY AppendProperties

\* A single one leaves.
LEMMA WithoutOne ==
  ASSUME NEW S, NEW s \in Seq(S), NEW k \in 1 .. Len(s)
  PROVE  /\ Without(s, k) \in Seq(S)
         /\ Len(s) \in Nat \ {0} /\ Len(Without(s, k)) = Len(s) - 1
         /\ \A i \in 1 .. Len(s) - 1 :
              Without(s, k)[i] = IF i < k THEN s[i] ELSE s[i + 1]
<1> DEFINE a == SubSeq(s, 1, k - 1)
           b == SubSeq(s, k + 1, Len(s))
<1>1. PICK L \in Nat : L = Len(s)
  OBVIOUS
<1>2. k \in 1 .. L
  BY <1>1
<1>3. a \in Seq(S) /\ Len(a) = k - 1 /\ \A i \in 1 .. k - 1 : a[i] = s[i]
  <2>1. \A i \in 1 .. k - 1 : s[i] \in S
    BY <1>1, <1>2
  <2>2. QED
    BY <1>1, <1>2, <2>1, SubSeqProperties
<1>4. b \in Seq(S) /\ Len(b) = L - k /\ \A i \in 1 .. L - k : b[i] = s[k + i]
  <2>1. \A i \in k + 1 .. L : s[i] \in S
    BY <1>1, <1>2
  <2>2. k + 1 \in 1 .. L + 1
    BY <1>2
  <2>3. QED
    BY <1>1, <1>2, <2>1, <2>2, SubSeqProperties
<1> HIDE DEF a, b
<1>5. /\ a \o b \in Seq(S) /\ Len(a \o b) = Len(a) + Len(b)
      /\ \A i \in 1 .. Len(a) + Len(b) :
           (a \o b)[i] = IF i <= Len(a) THEN a[i] ELSE b[i - Len(a)]
  BY <1>3, <1>4, ConcatProperties
<1>6. Without(s, k) = a \o b
  BY DEF Without, a, b
<1>7. \A i \in 1 .. L - 1 : (a \o b)[i] = IF i < k THEN s[i] ELSE s[i + 1]
  <2> TAKE i \in 1 .. L - 1
  <2>1. (a \o b)[i] = IF i <= k - 1 THEN a[i] ELSE b[i - (k - 1)]
    <3>1. Len(a) = k - 1 /\ Len(b) = L - k
      BY <1>3, <1>4
    <3>2. i \in 1 .. Len(a) + Len(b)
      BY <1>2, <3>1
    <3>3. (a \o b)[i] = IF i <= Len(a) THEN a[i] ELSE b[i - Len(a)]
      BY <1>5, <3>2
    <3>4. QED
      BY <3>1, <3>3
  <2>2. CASE i < k
    BY <1>2, <1>3, <2>1, <2>2
  <2>3. CASE ~ (i < k)
    <3>1. i - (k - 1) \in 1 .. L - k /\ k + (i - (k - 1)) = i + 1
      BY <1>2, <2>3
    <3>2. b[i - (k - 1)] = s[i + 1]
      BY <1>4, <3>1
    <3>3. QED
      BY <1>2, <2>1, <2>3, <3>2
  <2>4. QED
    BY <2>2, <2>3
<1>8. QED
  BY <1>1, <1>2, <1>3, <1>4, <1>5, <1>6, <1>7

-----------------------------------------------------------------------------
(* Types. *)

LEMMA TypeInit == ASSUME ChatAssumption, Init PROVE TypeOK
<1>1. \A S : <<>> \in Seq(S)
  OBVIOUS
<1>2. answer \in [Turns -> Seq(Int)] /\ chan \in [Turns -> Seq(Int)]
  BY <1>1 DEF Init
<1>3. job \in [Turns \cup Others -> {"none", "wait", "run", "bye", "done"}]
  BY DEF Init
<1>4. gen \in [Turns -> Nat] /\ cut \in [Turns -> Nat]
  BY DEF Init
<1>5. turn \in 0 .. MaxTurns /\ cursor \in Nat
  BY DEF Init, ChatAssumption
<1>6. streaming \in BOOLEAN /\ up \in BOOLEAN
  BY DEF Init
<1>7. typed \in Seq(Widths) /\ uich \in Seq(Int) /\ sse \in Seq(Int) /\ lockq \in Seq(Turns \cup Others)
  BY <1>1 DEF Init
<1>8. QED
  BY <1>2, <1>3, <1>4, <1>5, <1>6, <1>7 DEF Init, TypeOK

LEMMA TypeStep ==
  ASSUME ChatAssumption, TypeOK, reader # "none" => turn > 0, [Next]_vars
  PROVE  TypeOK'
<1> USE DEF ChatAssumption
<1>0. /\ \A S : \A s \in Seq(S) : s # <<>> => Head(s) \in S /\ Tail(s) \in Seq(S)
      /\ \A S : \A s \in Seq(S), e \in S : Append(s, e) \in Seq(S)
      /\ \A S : <<>> \in Seq(S)
      /\ End \in Int /\ Error \in Int /\ Nat \subseteq Int
  BY Taken, Put DEF End, Error
<1>1. ASSUME NEW w \in Widths, Type(w) PROVE TypeOK'
  <2>1. ASSUME NEW k \in Place PROVE
          SubSeq(typed, 1, k) \o <<w>> \o SubSeq(typed, k + 1, Len(typed)) \in Seq(Widths)
    <3>1. k \in 0 .. Len(typed) /\ typed \in Seq(Widths)
      BY <2>1 DEF Place, TypeOK
    <3>2. \A i \in 1 .. Len(typed) : typed[i] \in Widths
      BY <3>1
    <3>3. SubSeq(typed, 1, k) \in Seq(Widths) /\ SubSeq(typed, k + 1, Len(typed)) \in Seq(Widths)
      BY <3>1, <3>2, SubSeqProperties
    <3>4. QED
      BY <3>3, ConcatProperties
  <2>2. typed' \in Seq(Widths) /\ cursor' \in Nat /\ ui' \in {"idle", "fetch", "gone"}
    <3>1. CASE Place = {}
      BY <1>1, <3>1 DEF Type, TypeOK
    <3>2. CASE Place # {}
      <4>1. PICK k \in Place :
              /\ typed' = SubSeq(typed, 1, k) \o <<w>> \o SubSeq(typed, k + 1, Len(typed))
              /\ cursor' = cursor + 1 /\ ui' = ui
        BY <1>1, <3>2 DEF Type
      <4>2. typed' \in Seq(Widths)
        BY <2>1, <4>1
      <4>3. cursor' \in Nat
        BY <4>1 DEF TypeOK
      <4>4. QED
        BY <4>1, <4>2, <4>3 DEF TypeOK
    <3>3. QED
      BY <3>1, <3>2
  <2>3. QED
    BY <1>1, <2>2 DEF Type, TypeOK, Editing, link, lock, stream
<1>2. ASSUME NEW c \in 0 .. 2 * MaxInput, Erase(c) PROVE TypeOK'
  <2>1. \A k \in 1 .. Len(typed) : Without(typed, k) \in Seq(Widths)
    BY WithoutOne DEF TypeOK
  <2>2. cursor' \in Nat
    BY <1>2 DEF Erase
  <2>3. typed' \in Seq(Widths) /\ ui' \in {"idle", "fetch", "gone"}
    <3>1. ASSUME NEW k \in 1 .. Len(typed), typed' = Without(typed, k), UNCHANGED ui
          PROVE  typed' \in Seq(Widths) /\ ui' \in {"idle", "fetch", "gone"}
      BY <2>1, <3>1 DEF TypeOK
    <3>2. CASE ui' = "gone" /\ UNCHANGED typed
      BY <3>2 DEF TypeOK
    <3>3. QED
      BY <1>2, <3>1, <3>2 DEF Erase
  <2>4. QED
    BY <1>2, <2>2, <2>3 DEF Erase, TypeOK, link, lock, stream
<1>3. ASSUME NEW c \in 0 .. 2 * MaxInput, Move(c) PROVE TypeOK'
  BY <1>3 DEF Move, TypeOK, link, lock, stream
<1>4. CASE SwitchTab
  BY <1>4 DEF SwitchTab, TypeOK, link, lock, stream
<1>5. CASE Enter
  BY <1>5, <1>0 DEF Enter, Editing, TypeOK, lock, stream
<1>6. CASE Quit
  BY <1>6, <1>0 DEF Quit, TypeOK, lock, stream
<1>7. CASE Fetch
  <2>1. lockq' \in Seq(Turns \cup Others)
    BY <1>7, <1>0 DEF Fetch, TypeOK
  <2>2. QED
    BY <1>7, <2>1 DEF Fetch, TypeOK, link, stream
<1>8. CASE Fetched
  BY <1>8 DEF Fetched, TypeOK, link, stream
<1>9. CASE Receive
  <2>1. answer' \in [Turns -> Seq(Int)] /\ uich' \in Seq(Int)
    <3>1. Head(uich) \in Int /\ Tail(uich) \in Seq(Int)
      BY <1>9, <1>0 DEF Receive, TypeOK
    <3>2. CASE Head(uich) = End
      BY <1>9, <1>0, <3>2 DEF Receive, TypeOK
    <3>3. CASE Head(uich) # End
      <4>1. uich' = Tail(uich) /\ answer' = [answer EXCEPT ![turn] = Append(@, Head(uich))]
        BY <1>9, <3>3 DEF Receive
      <4>2. \A t \in Turns : Append(answer[t], Head(uich)) \in Seq(Int)
        BY <1>0, <3>1 DEF TypeOK
      <4>3. answer' \in [Turns -> Seq(Int)]
        BY <4>1, <4>2 DEF TypeOK
      <4>4. QED
        BY <3>1, <4>1, <4>3
    <3>4. QED
      BY <3>2, <3>3
  <2>2. QED
    BY <1>9, <2>1 DEF Receive, TypeOK, lock, stream
<1>10. CASE Thread
  <2>1. CASE Post
    <3>1. turn \in Turns
      BY <2>1 DEF Post, TypeOK, Turns
    <3>2. lockq' \in Seq(Turns \cup Others)
      BY <2>1, <1>0, <3>1 DEF Post, TypeOK
    <3>3. open' \subseteq Turns
      BY <2>1, <3>1 DEF Post, TypeOK
    <3>4. job' \in [Turns \cup Others -> {"none", "wait", "run", "bye", "done"}]
      BY <2>1, <3>1 DEF Post, TypeOK
    <3>5. QED
      BY <2>1, <3>2, <3>3, <3>4 DEF Post, TypeOK, client
  <2>2. CASE PostFails
    BY <2>2, <1>0 DEF PostFails, TypeOK, client, lock, stream
  <2>3. CASE ReadEvent
    BY <2>3, <1>0 DEF ReadEvent, TypeOK, client, lock, stream
  <2>4. CASE ReadEof
    BY <2>4, <1>0 DEF ReadEof, TypeOK, client, lock, stream
  <2>5. QED
    BY <1>10, <2>1, <2>2, <2>3, <2>4 DEF Thread
<1>11. ASSUME NEW r \in Turns \cup Others, Acquire(r) PROVE TypeOK'
  <2>1. lockq' \in Seq(Turns \cup Others)
    BY <1>11, <1>0 DEF Acquire, TypeOK
  <2>2. QED
    BY <1>11, <2>1 DEF Acquire, TypeOK, client, link, stream
<1>12. ASSUME NEW t \in Turns, NEW e \in Int, Send(t, e)
       PROVE  chan' \in [Turns -> Seq(Int)]
  BY <1>12, <1>0 DEF Send, TypeOK
<1>13. ASSUME NEW t \in Turns, Token(t) PROVE TypeOK'
  <2>1. chan' \in [Turns -> Seq(Int)]
    <3>1. gen[t] + 1 \in Int
      BY DEF TypeOK
    <3>2. QED
      BY <1>13, <1>12, <3>1 DEF Token
  <2>2. gen' \in [Turns -> Nat]
    BY <1>13 DEF Token, TypeOK
  <2>3. QED
    BY <1>13, <2>1, <2>2 DEF Token, TypeOK, client, link, lock
<1>14. ASSUME NEW t \in Turns, EmptyToken(t) PROVE TypeOK'
  <2>1. chan' \in [Turns -> Seq(Int)]
    BY <1>14, <1>12, <1>0 DEF EmptyToken
  <2>2. gen' \in [Turns -> Nat] /\ cut' \in [Turns -> Nat]
    BY <1>14 DEF EmptyToken, TypeOK
  <2>3. QED
    BY <1>14, <2>1, <2>2 DEF EmptyToken, TypeOK, client, link, lock
<1>15. ASSUME NEW t \in Turns, GenerationEnds(t) PROVE TypeOK'
  <2>1. chan' \in [Turns -> Seq(Int)]
    BY <1>15, <1>12, <1>0 DEF GenerationEnds
  <2>2. QED
    BY <1>15, <2>1 DEF GenerationEnds, Release, TypeOK, client, link
<1>16. ASSUME NEW t \in Turns, Refuse(t) PROVE TypeOK'
  <2>1. chan' \in [Turns -> Seq(Int)]
    BY <1>16, <1>12, <1>0 DEF Refuse
  <2>2. QED
    BY <1>16, <2>1 DEF Refuse, Release, TypeOK, client, link
<1>17. ASSUME NEW t \in Turns, Emit(t) PROVE TypeOK'
  <2>1. chan[t] \in Seq(Int) /\ chan[t] # <<>>
    BY <1>17 DEF Emit, TypeOK
  <2>2. sse' \in Seq(Int)
    BY <1>17, <2>1, <1>0 DEF Emit, TypeOK
  <2>3. chan' \in [Turns -> Seq(Int)] /\ open' \subseteq Turns
    <3>1. Tail(chan[t]) \in Seq(Int) /\ <<>> \in Seq(Int)
      BY <2>1, <1>0
    <3>2. \/ open' = open \ {t} /\ chan' = [chan EXCEPT ![t] = <<>>]
          \/ open' = open /\ chan' = [chan EXCEPT ![t] = Tail(chan[t])]
      BY <1>17 DEF Emit, TypeOK
    <3>3. chan \in [Turns -> Seq(Int)] /\ open \subseteq Turns
      BY DEF TypeOK
    <3>4. chan' \in [Turns -> Seq(Int)]
      BY <3>1, <3>2, <3>3
    <3>5. QED
      BY <3>2, <3>3, <3>4
  <2>4. QED
    BY <1>17, <2>2, <2>3 DEF Emit, TypeOK, client, link, lock
<1>18. ASSUME NEW o \in Others, Arrive(o) PROVE TypeOK'
  <2>1. lockq' \in Seq(Turns \cup Others)
    BY <1>18, <1>0 DEF Arrive, TypeOK
  <2>2. QED
    BY <1>18, <2>1 DEF Arrive, TypeOK, client, link, stream
<1>19. ASSUME NEW o \in Turns \cup Others, Goodbye(o) PROVE TypeOK'
  BY <1>19 DEF Goodbye, Release, TypeOK, client, link, stream
<1>20. ASSUME NEW o \in Others, Generated(o) \/ Respond(o) PROVE TypeOK'
  <2>1. CASE Generated(o)
    BY <2>1 DEF Generated, TypeOK, client, link, stream
  <2>2. CASE Respond(o)
    BY <2>2 DEF Respond, Release, TypeOK, client, link, stream
  <2>3. QED
    BY <1>20, <2>1, <2>2
<1>21. ASSUME NEW o \in Others, Dropped(o) PROVE TypeOK'
  <2>1. \A k \in 1 .. Len(lockq) : Without(lockq, k) \in Seq(Turns \cup Others)
    BY WithoutOne DEF TypeOK
  <2>2. lockq' \in Seq(Turns \cup Others)
    BY <1>21, <2>1 DEF Dropped, TypeOK
  <2>3. QED
    BY <1>21, <2>2 DEF Dropped, TypeOK, client, link, stream
<1>22. CASE ServerDies
  BY <1>22, <1>0 DEF ServerDies, TypeOK, client, link
<1>23. CASE UNCHANGED vars
  BY <1>23 DEF TypeOK, vars, client, link, lock, stream
<1>24. QED
  BY <1>1, <1>2, <1>3, <1>4, <1>5, <1>6, <1>7, <1>8, <1>9, <1>10, <1>11, <1>13, <1>14, <1>15,
     <1>16, <1>17, <1>18, <1>19, <1>20, <1>21, <1>22, <1>23 DEF Next, Task, Handler

-----------------------------------------------------------------------------
(* The queue. *)

\* A request joins, another moves on that does not wait.
LEMMA Joins ==
  ASSUME TypeOK, Queued, NEW r \in Turns \cup Others, job[r] # "wait",
         lockq' = Append(lockq, r), job' = [job EXCEPT ![r] = "wait"]
  PROVE  Queued'
<1>1. PICK L \in Nat : L = Len(lockq)
  BY DEF TypeOK
<1>2. /\ Len(lockq') = L + 1 /\ lockq'[L + 1] = r
      /\ \A i \in 1 .. L : lockq'[i] = lockq[i]
  BY <1>1, Put DEF TypeOK
<1>3. \A i \in 1 .. L : lockq[i] \in Turns \cup Others /\ job[lockq[i]] = "wait" /\ lockq[i] # r
  BY <1>1 DEF TypeOK, Queued
<1>4. \A i \in 1 .. L : job'[lockq[i]] = "wait"
  BY <1>3 DEF TypeOK
<1>5. job'[r] = "wait"
  BY DEF TypeOK
<1>6. \A i \in 1 .. L + 1 : i \in 1 .. L \/ i = L + 1
  BY <1>1
<1>7. \A i \in 1 .. L + 1 : job'[lockq'[i]] = "wait"
  BY <1>2, <1>4, <1>5, <1>6
<1>8. \A i, j \in 1 .. L + 1 : lockq'[i] = lockq'[j] => i = j
  <2> SUFFICES ASSUME NEW i \in 1 .. L + 1, NEW j \in 1 .. L + 1, lockq'[i] = lockq'[j] PROVE i = j
    OBVIOUS
  <2>1. CASE i \in 1 .. L /\ j \in 1 .. L
    BY <1>1, <1>2, <2>1 DEF Queued
  <2>2. CASE i = L + 1 \/ j = L + 1
    BY <1>2, <1>3, <1>6, <2>2
  <2>3. QED
    BY <1>6, <2>1, <2>2
<1>9. QED
  BY <1>2, <1>7, <1>8 DEF Queued

LEMMA MovesOn ==
  ASSUME TypeOK, Queued, NEW r \in Turns \cup Others, NEW v, job[r] # "wait",
         lockq' = lockq, job' = [job EXCEPT ![r] = v]
  PROVE  Queued'
<1>1. \A i \in 1 .. Len(lockq) : job'[lockq[i]] = "wait"
  BY DEF TypeOK, Queued
<1>2. QED
  BY <1>1 DEF Queued

\* One leaves the queue.
LEMMA Leaves ==
  ASSUME TypeOK, Queued, NEW k \in 1 .. Len(lockq), NEW v,
         lockq' = Without(lockq, k), job' = [job EXCEPT ![lockq[k]] = v]
  PROVE  Queued'
<1>1. PICK L \in Nat : L = Len(lockq)
  BY DEF TypeOK
<1>2. k \in 1 .. L
  BY <1>1
<1>3. /\ Len(lockq') = L - 1
      /\ \A i \in 1 .. L - 1 : lockq'[i] = IF i < k THEN lockq[i] ELSE lockq[i + 1]
  <2>1. lockq \in Seq(Turns \cup Others)
    BY DEF TypeOK
  <2>2. /\ Len(Without(lockq, k)) = Len(lockq) - 1
        /\ \A i \in 1 .. Len(lockq) - 1 :
             Without(lockq, k)[i] = IF i < k THEN lockq[i] ELSE lockq[i + 1]
    BY <2>1, WithoutOne
  <2>3. QED
    BY <1>1, <2>2
<1>4. /\ \A i \in 1 .. L : lockq[i] \in Turns \cup Others /\ job[lockq[i]] = "wait"
      /\ \A i, j \in 1 .. L : lockq[i] = lockq[j] => i = j
  BY <1>1 DEF TypeOK, Queued
<1>5. \A i \in 1 .. L : i # k => job'[lockq[i]] = "wait"
  BY <1>2, <1>4 DEF TypeOK
<1> DEFINE old(i) == IF i < k THEN i ELSE i + 1
<1>6. \A i \in 1 .. L - 1 : old(i) \in 1 .. L /\ old(i) # k
  BY <1>1, <1>2
<1>7. \A i \in 1 .. L - 1 : lockq'[i] = lockq[old(i)]
  BY <1>3
<1>8. \A i, j \in 1 .. L - 1 : old(i) = old(j) => i = j
  BY <1>1, <1>2
<1> HIDE DEF old
<1>9. \A i \in 1 .. L - 1 : job'[lockq'[i]] = "wait"
  BY <1>5, <1>6, <1>7
<1>10. \A i, j \in 1 .. L - 1 : lockq'[i] = lockq'[j] => i = j
  BY <1>4, <1>6, <1>7, <1>8
<1>11. QED
  BY <1>3, <1>9, <1>10 DEF Queued

\* The first one leaves.
LEMMA HeadLeaves ==
  ASSUME TypeOK, Queued, lockq # <<>>, NEW v,
         lockq' = Tail(lockq), job' = [job EXCEPT ![Head(lockq)] = v]
  PROVE  Queued'
<1>1. PICK L \in Nat \ {0} : L = Len(lockq)
  BY Taken DEF TypeOK
<1>2. /\ Len(lockq') = L - 1 /\ Head(lockq) = lockq[1]
      /\ \A i \in 1 .. L - 1 : lockq'[i] = lockq[i + 1]
  BY <1>1, Taken DEF TypeOK
<1>3. /\ \A i \in 1 .. L : lockq[i] \in Turns \cup Others /\ job[lockq[i]] = "wait"
      /\ \A i, j \in 1 .. L : lockq[i] = lockq[j] => i = j
  BY <1>1 DEF TypeOK, Queued
<1>4. \A i \in 1 .. L : i # 1 => job'[lockq[i]] = "wait"
  BY <1>1, <1>2, <1>3 DEF TypeOK
<1>5. \A i \in 1 .. L - 1 : i + 1 \in 1 .. L /\ i + 1 # 1
  BY <1>1
<1>6. \A i \in 1 .. L - 1 : job'[lockq'[i]] = "wait"
  BY <1>2, <1>4, <1>5
<1>7. \A i, j \in 1 .. L - 1 : lockq'[i] = lockq'[j] => i = j
  <2> SUFFICES ASSUME NEW i \in 1 .. L - 1, NEW j \in 1 .. L - 1, lockq'[i] = lockq'[j] PROVE i = j
    OBVIOUS
  <2>1. i + 1 = j + 1
    BY <1>2, <1>3, <1>5
  <2>2. QED
    BY <1>1, <2>1
<1>8. QED
  BY <1>2, <1>6, <1>7 DEF Queued

LEMMA QueuedStep ==
  ASSUME ChatAssumption, TypeOK, Queued, Begun, Streaming, [Next]_vars
  PROVE  Queued'
<1>1. CASE UNCHANGED lock
  BY <1>1 DEF Queued, lock
<1>2. CASE Fetch
  BY <1>2, Joins DEF Fetch, ChatAssumption
<1>3. CASE Fetched
  BY <1>3, MovesOn DEF Fetched, ChatAssumption
<1>4. CASE Post
  <2>1. turn \in Turns /\ job[turn] = "none"
    BY <1>4 DEF Post, TypeOK, Turns, Streaming, Live, Unposted, Refused, Posted
  <2>2. QED
    BY <1>4, <2>1, Joins DEF Post
<1>5. ASSUME NEW r \in Turns \cup Others, Acquire(r) PROVE Queued'
  BY <1>5, HeadLeaves DEF Acquire
<1>6. ASSUME NEW r \in Turns \cup Others, Release(r), job[r] # "wait" PROVE Queued'
  BY <1>6, MovesOn DEF Release
<1>7. ASSUME NEW t \in Turns, GenerationEnds(t) PROVE Queued'
  BY <1>7, <1>6, MovesOn DEF GenerationEnds
<1>8. ASSUME NEW o \in Others, Arrive(o) PROVE Queued'
  BY <1>8, Joins DEF Arrive
<1>9. ASSUME NEW o \in Others, Generated(o) \/ Respond(o) PROVE Queued'
  BY <1>9, <1>6, MovesOn DEF Generated, Respond
<1>10. ASSUME NEW r \in Turns \cup Others, Goodbye(r) PROVE Queued'
  BY <1>10, <1>6 DEF Goodbye
<1>11. ASSUME NEW t \in Turns, Refuse(t) PROVE Queued'
  BY <1>11, <1>6 DEF Refuse
<1>12. ASSUME NEW o \in Others, Dropped(o) PROVE Queued'
  <2>1. CASE job[o] = "wait"
    <3>1. PICK k \in 1 .. Len(lockq) : lockq[k] = o /\ lockq' = Without(lockq, k)
      BY <1>12, <2>1 DEF Dropped
    <3>2. job' = [job EXCEPT ![lockq[k]] = "done"]
      BY <1>12, <3>1 DEF Dropped
    <3>3. QED
      BY <3>1, <3>2, Leaves
  <2>2. CASE job[o] # "wait"
    BY <1>12, <2>2, MovesOn DEF Dropped
  <2>3. QED
    BY <2>1, <2>2
<1>13. CASE ServerDies
  <2>1. Len(lockq') = 0 /\ 1 .. 0 = {}
    BY <1>13 DEF ServerDies
  <2>2. QED
    BY <2>1 DEF Queued
<1>14. ASSUME NEW t \in Turns, Token(t) \/ EmptyToken(t) \/ Emit(t) PROVE UNCHANGED lock
  BY <1>14 DEF Token, EmptyToken, Emit
<1>15. ASSUME NEW w \in Widths, Type(w) PROVE UNCHANGED lock
  BY <1>15 DEF Type
<1>16. ASSUME NEW c \in 0 .. 2 * MaxInput, Erase(c) \/ Move(c) PROVE UNCHANGED lock
  BY <1>16 DEF Erase, Move
<1>17. CASE SwitchTab \/ Enter \/ Quit \/ Receive \/ PostFails \/ ReadEvent \/ ReadEof
  <2>1. UNCHANGED lock
    BY <1>17 DEF SwitchTab, Enter, Quit, Receive, PostFails, ReadEvent, ReadEof
  <2>2. QED
    BY <1>1, <2>1
<1>18. CASE UNCHANGED vars
  BY <1>1, <1>18 DEF vars
<1>19. QED
  BY <1>1, <1>2, <1>3, <1>4, <1>5, <1>7, <1>8, <1>9, <1>10, <1>11, <1>12, <1>13, <1>14, <1>15,
     <1>16, <1>17, <1>18 DEF Next, Task, Handler, Thread

\* Who is at the head of the queue waits.
LEMMA HeadWaits ==
  ASSUME TypeOK, Queued, lockq # <<>>
  PROVE  job[Head(lockq)] = "wait"
<1>1. Len(lockq) \in Nat \ {0} /\ Head(lockq) = lockq[1]
  BY Taken DEF TypeOK
<1>2. 1 \in 1 .. Len(lockq)
  BY <1>1
<1>3. QED
  BY <1>1, <1>2 DEF Queued

-----------------------------------------------------------------------------
(* What has not begun has left nothing. *)

\* A posted request goes from one stage to the next.
LEMMA StageBegun ==
  ASSUME ChatAssumption, TypeOK, Begun, NEW r \in Turns \cup Others,
         NEW v \in {"wait", "run", "bye", "done"},
         job[r] \in {"wait", "run", "bye"} \/ r \in Others,
         up \/ v = "done", job' = [job EXCEPT ![r] = v],
         UNCHANGED <<turn, answer, up, gen, cut, chan, open>>
  PROVE  Begun'
<1>1. \A t \in Turns : job'[t] = "none" => job[t] = "none"
  BY DEF TypeOK
<1>2. \A t \in Turns : job[t] = "none" => job'[t] = "none"
  BY DEF TypeOK, ChatAssumption, Turns
<1>3. \A t \in Turns : job'[t] = "none" => Unborn(t)'
  BY <1>1 DEF Begun, Unborn
<1>4. ~up' => \A q \in Requests : job'[q] \in {"none", "done"}
  BY DEF Begun, TypeOK, Requests
<1>5. QED
  BY <1>2, <1>3, <1>4 DEF Begun

\* The task of a request that has begun writes into its channel.
LEMMA TaskBegun ==
  ASSUME TypeOK, Begun, NEW t \in Turns, job[t] # "none", NEW e, Send(t, e),
         \A q \in Turns : q # t => gen'[q] = gen[q] /\ cut'[q] = cut[q],
         cut'[t] <= gen'[t], UNCHANGED <<turn, answer, up, job, open>>
  PROVE  Begun'
<1>1. \A q \in Turns : job'[q] = "none" => q # t
  OBVIOUS
<1>2. \A q \in Turns : job'[q] = "none" => Unborn(q)'
  BY <1>1 DEF Begun, Unborn
<1>3. \A q \in Turns : q \notin open => chan'[q] = chan[q]
  BY DEF Send, TypeOK
<1>4. \A q \in Turns : cut'[q] <= gen'[q]
  BY DEF Begun
<1>5. QED
  BY <1>2, <1>3, <1>4 DEF Begun

LEMMA BegunStep ==
  ASSUME ChatAssumption, TypeOK, Queued, Begun, Streaming, [Next]_vars
  PROVE  Begun'
<1> DEFINE kept == <<turn, answer, up, job, gen, cut, chan, open>>
<1>1. CASE UNCHANGED kept
  BY <1>1 DEF Begun, Unborn, Requests
<1> HIDE DEF kept
<1>2. CASE Enter
  BY <1>2 DEF Enter, Begun, Unborn, Requests, TypeOK, lock, stream, Turns
<1>3. CASE Fetch
  <2>1. Tui \in Others
    BY DEF ChatAssumption
  <2>2. QED
    BY <1>3, <2>1, StageBegun DEF Fetch, stream
<1>4. CASE Fetched
  <2>1. Tui \in Others /\ Tui \notin Turns
    BY DEF ChatAssumption, Turns
  <2>2. /\ \A t \in Turns : job'[t] = job[t]
        /\ \A r \in Requests : job'[r] \in {job[r], "none"}
    BY <1>4, <2>1 DEF Fetched, TypeOK, Requests
  <2>3. QED
    BY <1>4, <2>2 DEF Fetched, Begun, Unborn, stream
<1>5. CASE Post
  <2>1. turn \in Turns /\ job[turn] = "none" /\ up
    BY <1>5 DEF Post, TypeOK, Turns, Streaming, Live, Unposted, Refused, Posted
  <2>2. /\ job'[turn] = "wait" /\ open' = open \cup {turn}
        /\ \A t \in Turns : t # turn => job'[t] = job[t]
    BY <1>5, <2>1 DEF Post, TypeOK
  <2>3. \A t \in Turns : job'[t] = "none" => Unborn(t)'
    BY <1>5, <2>1, <2>2 DEF Post, Begun, Unborn
  <2>4. \A t \in Turns : t > turn' => job'[t] = "none" /\ answer'[t] = <<>>
    <3>1. \A t \in Turns : t > turn => t # turn
      BY DEF TypeOK, Turns
    <3>2. QED
      BY <1>5, <2>2, <3>1 DEF Post, Begun, client
  <2>5. QED
    BY <1>5, <2>1, <2>2, <2>3, <2>4 DEF Post, Begun
<1>6. CASE Receive
  <2>1. \A t \in Turns : t > turn => answer'[t] = answer[t]
    <3>1. answer' = answer \/ answer' = [answer EXCEPT ![turn] = Append(@, Head(uich))]
      BY <1>6 DEF Receive
    <3>2. \A t \in Turns : t > turn => t # turn
      BY DEF TypeOK, Turns
    <3>3. QED
      BY <3>1, <3>2 DEF TypeOK
  <2>2. QED
    BY <1>6, <2>1 DEF Receive, Begun, Unborn, Requests, lock, stream
<1>7. ASSUME NEW r \in Turns \cup Others, Acquire(r) PROVE Begun'
  <2>1. job[r] = "wait"
    BY <1>7, HeadWaits DEF Acquire
  <2>2. up
    BY <2>1 DEF Begun, Requests, TypeOK
  <2>3. QED
    BY <1>7, <2>1, <2>2, StageBegun DEF Acquire, client, stream
<1>8. ASSUME NEW r \in Turns \cup Others, Goodbye(r) PROVE Begun'
  BY <1>8, StageBegun DEF Goodbye, Release, client, stream
<1>9. ASSUME NEW o \in Others, Arrive(o) \/ Generated(o) \/ Respond(o) \/ Dropped(o) PROVE Begun'
  <2>1. /\ \/ job' = [job EXCEPT ![o] = "wait"] /\ up
           \/ job' = [job EXCEPT ![o] = "bye"] /\ job[o] = "run"
           \/ job' = [job EXCEPT ![o] = "done"]
        /\ UNCHANGED <<turn, answer, up, gen, cut, chan, open>>
    BY <1>9 DEF Arrive, Generated, Respond, Dropped, Release, client, stream
  <2>2. job[o] = "run" => up
    BY DEF Begun, Requests, TypeOK
  <2>3. QED
    BY <2>1, <2>2, StageBegun
<1>10. ASSUME NEW t \in Turns, job[t] = "run", NEW e, Send(t, e), NEW v \in {"bye", "done"},
              job' = [job EXCEPT ![t] = v], UNCHANGED <<client, up, gen, cut, open>>
       PROVE  Begun'
  <2>1. up
    BY <1>10 DEF Begun, Requests, TypeOK
  <2>2. \A q \in Turns : job'[q] = "none" <=> job[q] = "none"
    BY <1>10 DEF TypeOK
  <2>3. \A q \in Turns : q \notin open => chan'[q] = chan[q]
    BY <1>10 DEF Send, TypeOK
  <2>4. QED
    BY <1>10, <2>1, <2>2, <2>3 DEF Begun, Unborn, client
<1>11. ASSUME NEW t \in Turns, Refuse(t) PROVE Begun'
  BY <1>11, <1>10 DEF Refuse, Release
<1>12. ASSUME NEW t \in Turns, GenerationEnds(t) PROVE Begun'
  BY <1>12, <1>10 DEF GenerationEnds, Release
<1>13. ASSUME NEW t \in Turns, Token(t) PROVE Begun'
  <2>1. /\ \A q \in Turns : q # t => gen'[q] = gen[q] /\ cut'[q] = cut[q]
        /\ gen'[t] = gen[t] + 1 /\ cut'[t] = cut[t]
    BY <1>13 DEF Token, TypeOK
  <2>2. cut'[t] <= gen'[t]
    BY <2>1 DEF Begun, TypeOK
  <2>3. QED
    BY <1>13, <2>1, <2>2, TaskBegun DEF Token, client, lock
<1>14. ASSUME NEW t \in Turns, EmptyToken(t) PROVE Begun'
  <2>1. /\ \A q \in Turns : q # t => gen'[q] = gen[q] /\ cut'[q] = cut[q]
        /\ gen'[t] = gen[t] + 1 /\ cut'[t] \in {cut[t], gen[t] + 1}
    BY <1>14 DEF EmptyToken, TypeOK
  <2>2. cut'[t] <= gen'[t]
    BY <2>1 DEF Begun, TypeOK
  <2>3. QED
    BY <1>14, <2>1, <2>2, TaskBegun DEF EmptyToken, client, lock
<1>15. ASSUME NEW t \in Turns, Emit(t) PROVE Begun'
  <2>1. /\ \A q \in Turns : q # t => chan'[q] = chan[q] /\ (q \in open' <=> q \in open)
        /\ t \in open /\ (t \notin open' => chan'[t] = <<>>)
        /\ open' \subseteq open
    BY <1>15 DEF Emit, TypeOK
  <2>2. \A q \in Turns : job'[q] = "none" => Unborn(q)'
    BY <1>15, <2>1 DEF Emit, Begun, Unborn, lock
  <2>3. \A q \in Turns : q \notin open' => chan'[q] = <<>>
    BY <2>1 DEF Begun
  <2>4. QED
    BY <1>15, <2>1, <2>2, <2>3 DEF Emit, Begun, Requests, client, lock
<1>16. CASE ServerDies
  <2>1. /\ \A r \in Requests : job'[r] = IF job[r] = "none" THEN "none" ELSE "done"
        /\ \A t \in Turns : chan'[t] = <<>>
    BY <1>16 DEF ServerDies, TypeOK, Requests
  <2>2. \A t \in Turns : job'[t] = "none" <=> job[t] = "none"
    BY <2>1 DEF Requests
  <2>3. QED
    BY <1>16, <2>1, <2>2 DEF ServerDies, Begun, Unborn, client
<1>17. ASSUME NEW w \in Widths, Type(w) PROVE UNCHANGED kept
  BY <1>17 DEF Type, kept, lock, stream
<1>18. ASSUME NEW c \in 0 .. 2 * MaxInput, Erase(c) \/ Move(c) PROVE UNCHANGED kept
  BY <1>18 DEF Erase, Move, kept, lock, stream
<1>19. CASE SwitchTab \/ Quit \/ PostFails \/ ReadEvent \/ ReadEof
  <2>1. UNCHANGED kept
    BY <1>19 DEF SwitchTab, Quit, PostFails, ReadEvent, ReadEof, kept, client, lock, stream
  <2>2. QED
    BY <1>1, <2>1
<1>20. CASE UNCHANGED vars
  <2>1. UNCHANGED kept
    BY <1>20 DEF vars, kept, client, lock, stream
  <2>2. QED
    BY <1>1, <2>1
<1>21. QED
  BY <1>1, <1>2, <1>3, <1>4, <1>5, <1>6, <1>7, <1>8, <1>9, <1>11, <1>12, <1>13, <1>14, <1>15,
     <1>16, <1>17, <1>18, <1>19, <1>20 DEF Next, Task, Handler, Thread

-----------------------------------------------------------------------------
(* Numbered events. *)

LEMMA NumberedPut ==
  ASSUME NEW s \in Seq(Int), NEW e \in Int, NEW from \in Nat, NEW goal \in Nat,
         Numbered(s, from, goal),
         from + Len(s) + 1 <= goal => e = from + Len(s) + 1,
         from + Len(s) = goal => e = End
  PROVE  Numbered(Append(s, e), from, goal)
<1>1. PICK L \in Nat : L = Len(s)
  OBVIOUS
<1>2. /\ Len(Append(s, e)) = L + 1 /\ Append(s, e)[L + 1] = e
      /\ \A i \in 1 .. L : Append(s, e)[i] = s[i]
  BY <1>1, Put
<1>3. ASSUME NEW i \in 1 .. L + 1
      PROVE  /\ from + i <= goal => Append(s, e)[i] = from + i
             /\ from + i = goal + 1 => Append(s, e)[i] = End
  <2>1. CASE i \in 1 .. L
    BY <1>1, <1>2, <2>1 DEF Numbered
  <2>2. CASE i = L + 1
    BY <1>1, <1>2, <2>2
  <2>3. QED
    BY <1>1, <2>1, <2>2
<1>4. QED
  BY <1>2, <1>3 DEF Numbered

LEMMA NumberedTail ==
  ASSUME NEW s \in Seq(Int), s # <<>>, NEW from \in Nat, NEW goal \in Nat,
         Numbered(s, from, goal)
  PROVE  /\ Numbered(Tail(s), from + 1, goal)
         /\ from + 1 <= goal => Head(s) = from + 1
         /\ from = goal => Head(s) = End
<1>1. PICK L \in Nat \ {0} : L = Len(s)
  BY Taken
<1>2. /\ Len(Tail(s)) = L - 1 /\ Head(s) = s[1]
      /\ \A i \in 1 .. L - 1 : Tail(s)[i] = s[i + 1]
  BY <1>1, Taken
<1>3. \A i \in 1 .. L : /\ from + i <= goal => s[i] = from + i
                        /\ from + i = goal + 1 => s[i] = End
  BY <1>1 DEF Numbered
<1>4. ASSUME NEW i \in 1 .. L - 1
      PROVE  /\ from + 1 + i <= goal => Tail(s)[i] = from + 1 + i
             /\ from + 1 + i = goal + 1 => Tail(s)[i] = End
  <2>1. i + 1 \in 1 .. L /\ from + (i + 1) = from + 1 + i
    BY <1>1
  <2>2. QED
    BY <1>2, <1>3, <2>1
<1>5. 1 \in 1 .. L
  BY <1>1
<1>6. QED
  BY <1>2, <1>3, <1>4, <1>5 DEF Numbered

\* Short of both goals it makes no difference which is meant.
LEMMA NumberedWithin ==
  ASSUME NEW s \in Seq(Int), NEW from \in Nat, NEW goal \in Nat, NEW aim \in Nat,
         Numbered(s, from, goal), from + Len(s) <= goal, from + Len(s) <= aim
  PROVE  Numbered(s, from, aim)
<1>1. PICK L \in Nat : L = Len(s)
  OBVIOUS
<1>2. QED
  BY <1>1 DEF Numbered

LEMMA NumberedEmpty ==
  ASSUME NEW from, NEW goal PROVE Len(<<>>) = 0 /\ Numbered(<<>>, from, goal)
<1>1. Len(<<>>) = 0 /\ 1 .. 0 = {}
  OBVIOUS
<1>2. QED
  BY <1>1 DEF Numbered

LEMMA GoalNat == ASSUME TypeOK, NEW t \in Turns PROVE Goal(t) \in Nat
  BY DEF TypeOK, Goal

LEMMA GoalNatNext == ASSUME TypeOK', NEW t \in Turns PROVE Goal(t)' \in Nat
<1>1. gen'[t] \in Nat /\ cut'[t] \in Nat
  BY DEF TypeOK
<1>2. QED
  BY <1>1 DEF Goal

\* The lengths of what is under way are numbers.
LEMMA Lengths ==
  ASSUME TypeOK, NEW t \in Turns
  PROVE  /\ Len(answer[t]) \in Nat /\ Len(uich) \in Nat /\ Len(sse) \in Nat /\ Len(chan[t]) \in Nat
         /\ answer[t] \in Seq(Int) /\ uich \in Seq(Int) /\ sse \in Seq(Int) /\ chan[t] \in Seq(Int)
  BY DEF TypeOK

-----------------------------------------------------------------------------
(* The turn that streams. *)

LEMMA ChainStays ==
  ASSUME NEW t, NEW goal, Chained(t, goal), UNCHANGED <<reader, uich, sse, up>>,
         answer'[t] = answer[t], chan'[t] = chan[t], gen'[t] = gen[t], cut'[t] = cut[t],
         t \in open' <=> t \in open,
         job'[t] \in {"bye", "done"} <=> job[t] \in {"bye", "done"}
  PROVE  Chained(t, goal)'
<1>1. Goal(t)' = Goal(t)
  BY DEF Goal
<1>2. Flow(t, goal)'
  BY <1>1 DEF Chained, Flow
<1>3. Ended(t, goal)'
  BY DEF Chained, Ended
<1>4. QED
  BY <1>2, <1>3 DEF Chained

LEMMA ChainReceives ==
  ASSUME TypeOK, turn \in Turns, NEW goal \in Nat, Chained(turn, goal), Receive, reader # "post"
  PROVE  IF streaming' THEN Chained(turn, goal)' ELSE reader' = "none"
<1>1. PICK a \in Nat, u \in Nat, s \in Nat, c \in Nat :
        a = Len(answer[turn]) /\ u = Len(uich) /\ s = Len(sse) /\ c = Len(chan[turn])
  BY Lengths
<1>2. uich # <<>> /\ ui = "idle" /\ streaming
      /\ UNCHANGED <<turn, reader, up, sse, job, gen, cut, chan, open>>
  BY DEF Receive, lock, stream
<1>3. /\ Numbered(Tail(uich), a + 1, goal)
      /\ a + 1 <= goal => Head(uich) = a + 1
      /\ a = goal => Head(uich) = End
  <2>1. Numbered(uich, a, goal)
    BY <1>1 DEF Chained, Flow
  <2>2. QED
    BY <1>2, <2>1, NumberedTail, Lengths
<1>4. u > 0 /\ Len(Tail(uich)) = u - 1 /\ Head(uich) \in Int
  BY <1>1, <1>2, Lengths, Taken
<1>5. CASE Head(uich) = End
  <2>1. a = goal
    BY <1>1, <1>3, <1>5 DEF Chained, Flow, End
  <2>2. reader # "read"
    BY <1>1, <1>4, <2>1 DEF Chained, Ended
  <2>3. QED
    BY <1>2, <1>5, <2>2 DEF Receive, TypeOK
<1>6. CASE Head(uich) # End
  <2>1. /\ uich' = Tail(uich) /\ answer'[turn] = Append(answer[turn], Head(uich))
    BY <1>2, <1>6 DEF Receive, TypeOK
  <2>2. a + 1 <= goal /\ Head(uich) = a + 1
    BY <1>1, <1>3, <1>6 DEF Chained, Flow
  <2>3. Len(answer'[turn]) = a + 1 /\ Len(uich') = u - 1
    BY <1>1, <1>4, <2>1, Put, Lengths
  <2>4. Numbered(answer'[turn], 0, goal)
    <3>1. Numbered(answer[turn], 0, goal) /\ answer[turn] \in Seq(Int) /\ Head(uich) \in Int
      BY <1>1, <1>4, Lengths DEF Chained, Flow
    <3>2. /\ 0 \in Nat /\ 0 + Len(answer[turn]) + 1 <= goal
          /\ 0 + Len(answer[turn]) # goal /\ Head(uich) = 0 + Len(answer[turn]) + 1
      BY <1>1, <2>2
    <3>3. QED
      BY <2>1, <3>1, <3>2, NumberedPut
  <2>5. Goal(turn)' = Goal(turn)
    BY <1>2 DEF Goal
  <2>6. a + 1 + (u - 1) = a + u
    BY <1>1
  <2>7. Flow(turn, goal)'
    BY <1>1, <1>2, <1>3, <2>1, <2>2, <2>3, <2>4, <2>5, <2>6 DEF Chained, Flow
  <2>8. Ended(turn, goal)'
    BY <1>1, <1>2, <2>3, <2>6 DEF Chained, Ended
  <2>9. QED
    BY <1>2, <1>6, <2>7, <2>8 DEF Receive, Chained
<1>7. QED
  BY <1>5, <1>6

\* The chain of the next state, from its lengths.
LEMMA FlowFrom ==
  ASSUME NEW t, NEW goal \in Nat, NEW a \in Nat, NEW u \in Nat, NEW s \in Nat, NEW c \in Nat,
         a = Len(answer'[t]), u = Len(uich'), s = Len(sse'), c = Len(chan'[t]),
         goal <= Goal(t)', up' => goal = Goal(t)',
         a <= goal, goal <= a + u + s + c,
         Numbered(answer'[t], 0, goal), Numbered(uich', a, goal),
         Numbered(sse', a + u, goal), Numbered(chan'[t], a + u + s, goal)
  PROVE  Flow(t, goal)'
  BY DEF Flow

LEMMA EndedFrom ==
  ASSUME NEW t, NEW goal \in Nat, NEW a \in Nat, NEW u \in Nat, NEW s \in Nat, NEW c \in Nat,
         a = Len(answer'[t]), u = Len(uich'), s = Len(sse'), c = Len(chan'[t]),
         a + u + s <= goal + 1,
         t \in open' => a + u + s <= goal,
         up' /\ t \notin open' => a + u + s = goal + 1,
         reader' = "read" => a + u <= goal,
         reader' = "none" => a + u = goal + 1,
         up' => (a + u + s + c > goal <=> cut'[t] # 0 \/ job'[t] \in {"bye", "done"})
  PROVE  Ended(t, goal)'
  BY DEF Ended

LEMMA ChainReads ==
  ASSUME TypeOK, turn \in Turns, NEW goal \in Nat, Chained(turn, goal), ReadEvent
  PROVE  Chained(turn, goal)'
<1>1. PICK a \in Nat, u \in Nat, s \in Nat, c \in Nat :
        a = Len(answer[turn]) /\ u = Len(uich) /\ s = Len(sse) /\ c = Len(chan[turn])
  BY Lengths
<1>2. /\ sse # <<>> /\ reader = "read" /\ uich' = Append(uich, Head(sse)) /\ sse' = Tail(sse)
      /\ reader' = IF Head(sse) = End THEN "none" ELSE "read"
      /\ UNCHANGED <<turn, answer, up, job, gen, cut, chan, open>>
  BY DEF ReadEvent, client, lock, stream
<1>3. /\ Numbered(Tail(sse), a + u + 1, goal)
      /\ a + u + 1 <= goal => Head(sse) = a + u + 1
      /\ a + u = goal => Head(sse) = End
  <2>1. Numbered(sse, a + u, goal) /\ a + u \in Nat
    BY <1>1 DEF Chained, Flow
  <2>2. QED
    BY <1>2, <2>1, NumberedTail, Lengths
<1>4. s > 0 /\ Len(sse') = s - 1 /\ Head(sse) \in Int /\ Len(uich') = u + 1
  BY <1>1, <1>2, Lengths, Taken, Put
<1>5. a + u <= goal
  BY <1>1, <1>2 DEF Chained, Ended
<1>6. Numbered(uich', a, goal)
  BY <1>1, <1>2, <1>3, <1>4, NumberedPut, Lengths DEF Chained, Flow
<1>7. a + (u + 1) = a + u + 1 /\ a + u + 1 + (s - 1) = a + u + s
  OBVIOUS
<1>8. Goal(turn)' = Goal(turn)
  BY <1>2 DEF Goal
<1>9. Flow(turn, goal)'
  <2>1. /\ up => goal = Goal(turn)
        /\ goal <= Goal(turn) /\ a <= goal /\ goal <= a + u + s + c
        /\ Numbered(answer[turn], 0, goal) /\ Numbered(chan[turn], a + u + s, goal)
    BY <1>1 DEF Chained, Flow
  <2>2. PICK v \in Nat, r \in Nat : v = u + 1 /\ r = s - 1
    BY <1>4
  <2>3. /\ a + v = a + u + 1 /\ a + v + r = a + u + s
        /\ Len(uich') = v /\ Len(sse') = r
    BY <1>4, <2>2
  <2>4. /\ goal <= a + v + r + c /\ Numbered(sse', a + v, goal)
        /\ Numbered(chan'[turn], a + v + r, goal)
    BY <1>2, <1>3, <2>1, <2>3
  <2>5. /\ a = Len(answer'[turn]) /\ c = Len(chan'[turn])
        /\ Numbered(answer'[turn], 0, goal)
        /\ goal <= Goal(turn)' /\ (up' => goal = Goal(turn)')
    BY <1>1, <1>2, <1>8, <2>1
  <2>6. QED
    BY <1>2, <1>6, <2>1, <2>3, <2>4, <2>5, FlowFrom
<1>10. Head(sse) = End <=> a + u + 1 = goal + 1
  <2>1. CASE a + u = goal
    BY <1>3, <2>1
  <2>2. CASE a + u # goal
    <3>1. Head(sse) = a + u + 1 /\ a + u + 1 # 0 /\ a + u + 1 # goal + 1
      BY <1>3, <1>5, <2>2
    <3>2. QED
      BY <3>1 DEF End
  <2>3. QED
    BY <2>1, <2>2
<1>11. /\ reader' = "read" => a + u + 1 <= goal
       /\ reader' = "none" => a + u + 1 = goal + 1
  BY <1>1, <1>2, <1>5, <1>10
<1>12. Ended(turn, goal)'
  BY <1>1, <1>2, <1>4, <1>7, <1>11 DEF Chained, Ended
<1>13. QED
  BY <1>9, <1>12 DEF Chained

LEMMA ChainEof ==
  ASSUME TypeOK, Begun, turn \in Turns, NEW goal \in Nat, Chained(turn, goal), ReadEof
  PROVE  Chained(turn, goal)'
<1>1. PICK a \in Nat, u \in Nat, s \in Nat, c \in Nat :
        a = Len(answer[turn]) /\ u = Len(uich) /\ s = Len(sse) /\ c = Len(chan[turn])
  BY Lengths
<1>2. /\ sse = <<>> /\ turn \notin open /\ reader = "read" /\ reader' = "none"
      /\ uich' = Append(uich, End)
      /\ UNCHANGED <<turn, answer, up, sse, job, gen, cut, chan, open>>
  BY DEF ReadEof, client, lock, stream
<1>3. s = 0 /\ c = 0
  BY <1>1, <1>2 DEF Begun
<1>4. a + u = goal /\ ~up
  <2>1. a + u <= goal /\ (up => a + u + s = goal + 1)
    BY <1>1, <1>2 DEF Chained, Ended
  <2>2. goal <= a + u + s + c
    BY <1>1 DEF Chained, Flow
  <2>3. QED
    BY <1>3, <2>1, <2>2
<1>5. Len(uich') = u + 1
  BY <1>1, <1>2, Lengths, Put DEF End
<1>6. End \in Int
  BY DEF End
<1>7. Numbered(uich', a, goal)
  BY <1>1, <1>2, <1>4, <1>6, NumberedPut, Lengths DEF Chained, Flow
<1>8. Goal(turn)' = Goal(turn)
  BY <1>2 DEF Goal
<1>9. \A from : Numbered(sse', from, goal) /\ Numbered(chan'[turn], from, goal)
  BY <1>2, NumberedEmpty DEF Begun
<1>10. /\ Len(answer'[turn]) = a /\ Len(uich') = u + 1 /\ Len(sse') = 0 /\ Len(chan'[turn]) = 0
       /\ goal <= Goal(turn) /\ ~up'
  <2>1. Len(answer'[turn]) = a /\ Len(uich') = u + 1 /\ Len(sse') = 0 /\ Len(chan'[turn]) = 0
    BY <1>1, <1>2, <1>3, <1>5
  <2>2. goal <= Goal(turn)
    BY DEF Chained, Flow
  <2>3. ~up'
    BY <1>2, <1>4
  <2>4. QED
    BY <2>1, <2>2, <2>3
<1>11. Flow(turn, goal)'
  <2>1. Numbered(answer'[turn], 0, goal)
    BY <1>2 DEF Chained, Flow
  <2>2. Numbered(uich', Len(answer'[turn]), goal)
    BY <1>7, <1>10
  <2>3. Len(answer'[turn]) <= goal /\ goal <= Len(answer'[turn]) + Len(uich') + Len(sse') + Len(chan'[turn])
    BY <1>4, <1>10
  <2>4. QED
    BY <1>2, <1>8, <1>9, <1>10, <2>1, <2>2, <2>3 DEF Flow
<1>12. Ended(turn, goal)'
  <2>1. Len(answer'[turn]) + Len(uich') + Len(sse') = goal + 1 /\ Len(answer'[turn]) + Len(uich') = goal + 1
    BY <1>4, <1>10
  <2>2. QED
    BY <1>2, <1>10, <2>1 DEF Ended
<1>13. QED
  BY <1>11, <1>12 DEF Chained

\* The task sends e, of a turn that has not come to its end.
LEMMA ChainSends ==
  ASSUME TypeOK, Begun, turn \in Turns, NEW goal \in Nat, Chained(turn, goal), up, up' = up,
         NEW e \in Int, Send(turn, e), UNCHANGED <<answer, uich, sse, open, reader>>,
         NEW aim \in Nat, aim = Goal(turn)', turn' = turn,
         \* what ends the turn, and what does not
         \/ /\ aim = goal + 1 /\ e = goal + 1
            /\ ~ (cut[turn] # 0 \/ job[turn] \in {"bye", "done"})
            /\ ~ (cut'[turn] # 0 \/ job'[turn] \in {"bye", "done"})
         \/ /\ aim = goal
            /\ cut'[turn] # 0 \/ job'[turn] \in {"bye", "done"}
            /\ e = End \/ cut[turn] # 0
  PROVE  Chained(turn, aim)'
<1>1. PICK a \in Nat, u \in Nat, s \in Nat, c \in Nat :
        a = Len(answer[turn]) /\ u = Len(uich) /\ s = Len(sse) /\ c = Len(chan[turn])
  BY Lengths
<1>2. a = Len(answer'[turn]) /\ u = Len(uich') /\ s = Len(sse')
  BY <1>1
<1>3. /\ a <= goal /\ goal <= a + u + s + c
      /\ Numbered(answer[turn], 0, goal) /\ Numbered(uich, a, goal)
      /\ Numbered(sse, a + u, goal) /\ Numbered(chan[turn], a + u + s, goal)
  BY <1>1 DEF Chained, Flow
<1>4. /\ a + u + s <= goal + 1
      /\ turn \in open => a + u + s <= goal
      /\ turn \notin open => a + u + s = goal + 1
      /\ reader = "read" => a + u <= goal
      /\ reader = "none" => a + u = goal + 1
      /\ a + u + s + c > goal <=> cut[turn] # 0 \/ job[turn] \in {"bye", "done"}
  BY <1>1 DEF Chained, Ended
<1>5. CASE turn \notin open
  <2>1. c = 0 /\ chan'[turn] = chan[turn]
    BY <1>1, <1>5 DEF Begun, Send
  <2>2. a + u + s = goal + 1
    BY <1>4, <1>5
  <2>3. a + u + s + c > goal
    BY <2>1, <2>2
  <2>4. aim = goal /\ (cut'[turn] # 0 \/ job'[turn] \in {"bye", "done"})
    BY <1>4, <2>3
  <2>5. Len(chan'[turn]) = c
    BY <1>1, <2>1
  <2>6. /\ goal <= Goal(turn)' /\ goal = Goal(turn)' /\ turn \notin open' /\ a + u + s <= goal + 1
        /\ Numbered(chan'[turn], a + u + s, goal)
    BY <1>3, <1>5, <2>1, <2>2, <2>4
  <2>7. /\ reader' = "read" => a + u <= goal
        /\ reader' = "none" => a + u = goal + 1
        /\ Numbered(answer'[turn], 0, goal) /\ Numbered(uich', a, goal) /\ Numbered(sse', a + u, goal)
    BY <1>3, <1>4
  <2>8. Flow(turn, goal)'
    BY <1>2, <1>3, <2>2, <2>3, <2>4, <2>5, <2>6, <2>7, FlowFrom
  <2>9. Ended(turn, goal)'
    BY <1>2, <1>3, <2>2, <2>3, <2>4, <2>5, <2>6, <2>7, EndedFrom
  <2>10. Chained(turn, goal)'
    BY <2>8, <2>9 DEF Chained
  <2>11. QED
    BY <2>4, <2>10
<1>6. CASE turn \in open
  <2>1. chan'[turn] = Append(chan[turn], e)
    BY <1>6 DEF Send, TypeOK
  <2>2. Len(chan'[turn]) = c + 1
    BY <1>1, <2>1, Put, Lengths
  <2>3. a + u + s <= goal
    BY <1>4, <1>6
  <2>4. CASE aim = goal + 1 /\ e = goal + 1
    <3>1. /\ ~ (cut[turn] # 0 \/ job[turn] \in {"bye", "done"})
          /\ ~ (cut'[turn] # 0 \/ job'[turn] \in {"bye", "done"})
      BY <2>4
    <3>2. ~ (a + u + s + c > goal)
      BY <1>4, <3>1
    <3>3. a + u + s + c = goal
      BY <1>3, <3>2
    <3>4. Numbered(answer[turn], 0, aim)
      <4>1. 0 + Len(answer[turn]) <= goal /\ 0 + Len(answer[turn]) <= aim
        BY <1>1, <1>3, <2>4
      <4>2. QED
        BY <1>3, <4>1, NumberedWithin, Lengths
    <3>5. Numbered(uich, a, aim)
      <4>1. a + Len(uich) <= goal /\ a + Len(uich) <= aim
        BY <1>1, <2>3, <2>4
      <4>2. uich \in Seq(Int)
        BY Lengths
      <4>3. QED
        BY <1>3, <4>1, <4>2, NumberedWithin
    <3>6. Numbered(sse, a + u, aim)
      <4>1. a + u + Len(sse) <= goal /\ a + u + Len(sse) <= aim
        BY <1>1, <2>3, <2>4
      <4>2. sse \in Seq(Int) /\ a + u \in Nat
        BY Lengths
      <4>3. QED
        BY <1>3, <4>1, <4>2, NumberedWithin
    <3>7. Numbered(chan'[turn], a + u + s, aim)
      <4>1. a + u + s + Len(chan[turn]) = goal
        BY <1>1, <3>3
      <4>2. a + u + s \in Nat
        OBVIOUS
      <4>3. Numbered(chan[turn], a + u + s, aim)
        <5>1. a + u + s + Len(chan[turn]) <= goal /\ a + u + s + Len(chan[turn]) <= aim
          BY <4>1, <2>4
        <5>2. QED
          BY <1>3, <4>2, <5>1, NumberedWithin, Lengths
      <4>4. e = a + u + s + Len(chan[turn]) + 1 /\ a + u + s + Len(chan[turn]) # aim
        <5>1. e = a + u + s + c + 1 /\ a + u + s + c # aim
          BY <2>4, <3>3
        <5>2. QED
          BY <1>1, <5>1
      <4>5. QED
        BY <2>1, <4>2, <4>3, <4>4, NumberedPut, Lengths
    <3>8. reader = "read" => a + u <= aim
      BY <1>4, <2>4
    <3>9. reader # "none"
      BY <1>4, <2>3
    <3>10. /\ a <= aim /\ aim <= a + u + s + (c + 1) /\ a + u + s <= aim
           /\ a + u + s <= aim + 1 /\ ~ (a + u + s + (c + 1) > aim)
      BY <1>3, <2>3, <2>4, <3>3
    <3>11. aim <= Goal(turn)'
      OBVIOUS
    <3>12. /\ Numbered(answer'[turn], 0, aim) /\ Numbered(uich', a, aim) /\ Numbered(sse', a + u, aim)
           /\ turn \in open' /\ reader' = reader /\ c + 1 \in Nat
      BY <1>6, <3>4, <3>5, <3>6
    <3>13. Flow(turn, aim)'
      BY <1>2, <2>2, <3>1, <3>7, <3>8, <3>9, <3>10, <3>11, <3>12, FlowFrom
    <3>14. Ended(turn, aim)'
      BY <1>2, <2>2, <3>1, <3>7, <3>8, <3>9, <3>10, <3>11, <3>12, EndedFrom
    <3>15. QED
      BY <3>13, <3>14 DEF Chained
  <2>5. CASE ~ (aim = goal + 1 /\ e = goal + 1)
    <3>1. /\ aim = goal /\ (cut'[turn] # 0 \/ job'[turn] \in {"bye", "done"})
          /\ e = End \/ cut[turn] # 0
      BY <2>5
    <3>2. a + u + s + c = goal => e = End
      BY <1>4, <3>1
    <3>3. Numbered(chan'[turn], a + u + s, goal)
      <4>1. a + u + s \in Nat
        OBVIOUS
      <4>2. a + u + s + Len(chan[turn]) = goal => e = End
        BY <1>1, <3>2
      <4>3. ~ (a + u + s + Len(chan[turn]) + 1 <= goal)
        <5>1. ~ (a + u + s + c + 1 <= goal)
          BY <1>3
        <5>2. QED
          BY <1>1, <5>1
      <4>4. QED
        BY <1>3, <2>1, <4>1, <4>2, <4>3, NumberedPut, Lengths
    <3>4. goal <= a + u + s + (c + 1) /\ a + u + s + (c + 1) > goal
      BY <1>3
    <3>5. goal <= Goal(turn)' /\ c + 1 \in Nat /\ goal = Goal(turn)'
      BY <3>1
    <3>6. turn \in open' /\ reader' = reader
      BY <1>6
    <3>7. Flow(turn, goal)'
      BY <1>2, <1>3, <1>4, <2>2, <2>3, <3>1, <3>3, <3>4, <3>5, <3>6, FlowFrom
    <3>8. Ended(turn, goal)'
      BY <1>2, <1>3, <1>4, <2>2, <2>3, <3>1, <3>3, <3>4, <3>5, <3>6, EndedFrom
    <3>9. Chained(turn, goal)'
      BY <3>7, <3>8 DEF Chained
    <3>10. QED
      BY <3>1, <3>9
  <2>6. QED
    BY <2>4, <2>5
<1>7. QED
  BY <1>5, <1>6

LEMMA ChainEmits ==
  ASSUME TypeOK, turn \in Turns, NEW goal \in Nat, Chained(turn, goal), Emit(turn), reader # "post"
  PROVE  Chained(turn, goal)'
<1>1. PICK a \in Nat, u \in Nat, s \in Nat, c \in Nat :
        a = Len(answer[turn]) /\ u = Len(uich) /\ s = Len(sse) /\ c = Len(chan[turn])
  BY Lengths
<1>2. /\ turn \in open /\ chan[turn] # <<>>
      /\ UNCHANGED <<turn, answer, reader, uich, up, job, gen, cut>>
  BY DEF Emit, client, link, lock
<1>3. /\ a <= goal /\ goal <= a + u + s + c
      /\ Numbered(answer[turn], 0, goal) /\ Numbered(uich, a, goal)
      /\ Numbered(sse, a + u, goal) /\ Numbered(chan[turn], a + u + s, goal)
      /\ goal <= Goal(turn) /\ (up => goal = Goal(turn))
  BY <1>1 DEF Chained, Flow
<1>4. /\ a + u + s <= goal
      /\ reader = "read" => a + u <= goal
      /\ reader = "none" => a + u = goal + 1
      /\ up => (a + u + s + c > goal <=> cut[turn] # 0 \/ job[turn] \in {"bye", "done"})
  BY <1>1, <1>2 DEF Chained, Ended
<1> DEFINE e == Head(chan[turn])
<1>5. /\ e \in Int /\ c > 0 /\ Len(Tail(chan[turn])) = c - 1
      /\ Numbered(Tail(chan[turn]), a + u + s + 1, goal)
      /\ a + u + s + 1 <= goal => e = a + u + s + 1
      /\ a + u + s = goal => e = End
  <2>1. chan[turn] \in Seq(Int) /\ a + u + s \in Nat
    BY Lengths
  <2>2. e \in Int /\ Len(Tail(chan[turn])) = c - 1 /\ c \in Nat \ {0}
    BY <1>1, <1>2, <2>1, Taken
  <2>3. /\ Numbered(Tail(chan[turn]), a + u + s + 1, goal)
        /\ a + u + s + 1 <= goal => e = a + u + s + 1
        /\ a + u + s = goal => e = End
    BY <1>2, <1>3, <2>1, NumberedTail
  <2>4. QED
    BY <2>2, <2>3
<1>6. Goal(turn)' = Goal(turn)
  BY <1>2 DEF Goal
<1>7. e = End <=> a + u + s = goal
  BY <1>4, <1>5 DEF End
<1>8. reader = "read"
  BY <1>4 DEF TypeOK
<1>9. /\ sse' = Append(sse, e)
      /\ IF e = End
           THEN open' = open \ {turn} /\ chan'[turn] = <<>>
           ELSE open' = open /\ chan'[turn] = Tail(chan[turn])
  BY <1>8 DEF Emit, TypeOK
<1> HIDE DEF e
<1>10. Len(sse') = s + 1 /\ Numbered(sse', a + u, goal)
  <2>1. a + u + Len(sse) + 1 <= goal => e = a + u + Len(sse) + 1
    BY <1>1, <1>5
  <2>2. a + u + Len(sse) = goal => e = End
    BY <1>1, <1>5
  <2>3. sse \in Seq(Int) /\ a + u \in Nat /\ e \in Int
    <3>1. sse \in Seq(Int)
      BY Lengths
    <3>2. QED
      BY <1>5, <3>1
  <2>4. Len(sse') = s + 1
    BY <1>1, <1>9, <2>3, Put
  <2>5. Numbered(sse', a + u, goal)
    BY <1>3, <1>9, <2>1, <2>2, <2>3, NumberedPut
  <2>6. QED
    BY <2>4, <2>5
<1>11. /\ a = Len(answer'[turn]) /\ u = Len(uich') /\ s + 1 \in Nat
       /\ Numbered(answer'[turn], 0, goal) /\ Numbered(uich', a, goal)
       /\ goal <= Goal(turn)' /\ (up' => goal = Goal(turn)')
       /\ reader' = "read" /\ a + u <= goal
  BY <1>1, <1>2, <1>3, <1>4, <1>6, <1>8
<1>12. CASE e = End
  <2>1. Len(chan'[turn]) = 0 /\ Numbered(chan'[turn], a + u + (s + 1), goal)
    BY <1>9, <1>12, NumberedEmpty
  <2>2. /\ a + u + (s + 1) = goal + 1 /\ goal <= a + u + (s + 1) + 0
        /\ a + u + (s + 1) <= goal + 1 /\ a + u + (s + 1) + 0 > goal
    BY <1>7, <1>12
  <2>3. turn \notin open'
    BY <1>9, <1>12
  <2>4. a + u + s + c > goal
    BY <1>5, <1>7, <1>12
  <2>5. up' => (cut'[turn] # 0 \/ job'[turn] \in {"bye", "done"})
    BY <1>2, <1>4, <2>4
  <2>6. PICK d \in Nat : d = s + 1
    OBVIOUS
  <2>7. PICK none \in Nat : none = 0
    OBVIOUS
  <2>8. /\ Len(sse') = d /\ Len(chan'[turn]) = none /\ Numbered(chan'[turn], a + u + d, goal)
        /\ a + u + d = goal + 1 /\ goal <= a + u + d + none
        /\ a + u + d <= goal + 1 /\ a + u + d + none > goal
    BY <1>10, <2>1, <2>2, <2>6, <2>7
  <2>9. /\ up' => (a + u + d + none > goal <=> cut'[turn] # 0 \/ job'[turn] \in {"bye", "done"})
        /\ turn \in open' => a + u + d <= goal
        /\ up' /\ turn \notin open' => a + u + d = goal + 1
        /\ reader' = "read" => a + u <= goal
        /\ reader' = "none" => a + u = goal + 1
    BY <1>11, <2>3, <2>5, <2>8
  <2>10. Flow(turn, goal)'
    BY <1>2, <1>3, <1>10, <1>11, <2>8, <2>9, FlowFrom
  <2>11. Ended(turn, goal)'
    BY <1>2, <1>3, <1>10, <1>11, <2>8, <2>9, EndedFrom
  <2>12. QED
    BY <2>10, <2>11 DEF Chained
<1>13. CASE e # End
  <2>1. a + u + (s + 1) = a + u + s + 1
    OBVIOUS
  <2>2. /\ c - 1 \in Nat /\ chan'[turn] = Tail(chan[turn])
    BY <1>5, <1>9, <1>13
  <2>7. Len(chan'[turn]) = c - 1 /\ Numbered(chan'[turn], a + u + (s + 1), goal)
    BY <1>5, <2>1, <2>2
  <2>3. /\ a + u + (s + 1) <= goal /\ a + u + (s + 1) + (c - 1) = a + u + s + c
        /\ a + u + (s + 1) <= goal + 1 /\ goal <= a + u + (s + 1) + (c - 1)
    BY <1>3, <1>4, <1>7, <1>13
  <2>4. turn \in open'
    BY <1>2, <1>9, <1>13
  <2>5. up' => (a + u + (s + 1) + (c - 1) > goal <=> cut'[turn] # 0 \/ job'[turn] \in {"bye", "done"})
    BY <1>2, <1>4, <2>3
  <2>6. PICK d \in Nat : d = s + 1
    OBVIOUS
  <2>8. PICK r \in Nat : r = c - 1
    BY <2>2
  <2>9. /\ Len(sse') = d /\ Len(chan'[turn]) = r /\ Numbered(chan'[turn], a + u + d, goal)
        /\ a + u + d <= goal /\ a + u + d <= goal + 1 /\ goal <= a + u + d + r
        /\ up' => (a + u + d + r > goal <=> cut'[turn] # 0 \/ job'[turn] \in {"bye", "done"})
    BY <1>10, <2>3, <2>5, <2>6, <2>7, <2>8
  <2>10. /\ turn \in open' => a + u + d <= goal
         /\ up' /\ turn \notin open' => a + u + d = goal + 1
         /\ reader' = "read" => a + u <= goal
         /\ reader' = "none" => a + u = goal + 1
    BY <1>11, <2>4, <2>9
  <2>11. Flow(turn, goal)'
    BY <1>2, <1>3, <1>10, <1>11, <2>9, <2>10, FlowFrom
  <2>12. Ended(turn, goal)'
    BY <1>2, <1>3, <1>10, <1>11, <2>9, <2>10, EndedFrom
  <2>13. QED
    BY <2>11, <2>12 DEF Chained
<1>14. QED
  BY <1>12, <1>13

LEMMA ChainDies ==
  ASSUME TypeOK, turn \in Turns, NEW goal \in Nat, Chained(turn, goal), ServerDies, reader # "post"
  PROVE  \E aim \in Nat : Chained(turn, aim)'
<1>1. PICK a \in Nat, u \in Nat, s \in Nat, c \in Nat :
        a = Len(answer[turn]) /\ u = Len(uich) /\ s = Len(sse) /\ c = Len(chan[turn])
  BY Lengths
<1>2. /\ chan'[turn] = <<>> /\ open' = {} /\ up' = FALSE
      /\ UNCHANGED <<turn, answer, reader, uich, sse, gen, cut>>
  BY DEF ServerDies, client, link
<1>3. /\ a <= goal /\ goal <= Goal(turn)
      /\ Numbered(answer[turn], 0, goal) /\ Numbered(uich, a, goal) /\ Numbered(sse, a + u, goal)
  BY <1>1 DEF Chained, Flow
<1>4. /\ a + u + s <= goal + 1
      /\ reader = "read" => a + u <= goal
      /\ reader = "none" => a + u = goal + 1
  BY <1>1 DEF Chained, Ended
<1>5. PICK aim \in Nat : aim = IF a + u + s <= goal THEN a + u + s ELSE goal
  OBVIOUS
<1>6. aim <= goal /\ a <= aim /\ aim <= a + u + s + 0 /\ a + u + s <= aim + 1
  BY <1>3, <1>4, <1>5
<1>7. Goal(turn)' = Goal(turn) /\ Goal(turn) \in Nat
  BY <1>2, GoalNat DEF Goal
<1>8. Numbered(answer[turn], 0, aim) /\ Numbered(uich, a, aim) /\ Numbered(sse, a + u, aim)
  <2>1. CASE aim = goal
    BY <1>3, <2>1
  <2>2. CASE aim # goal
    <3>1. a + u + s <= goal /\ a + u + s = aim
      BY <1>5, <2>2
    <3>2. /\ 0 + Len(answer[turn]) <= goal /\ 0 + Len(answer[turn]) <= aim
          /\ a + Len(uich) <= goal /\ a + Len(uich) <= aim
          /\ a + u + Len(sse) <= goal /\ a + u + Len(sse) <= aim
      BY <1>1, <3>1
    <3>3. a + u \in Nat
      OBVIOUS
    <3>4. QED
      BY <1>3, <3>2, <3>3, NumberedWithin, Lengths
  <2>3. QED
    BY <2>1, <2>2
<1>9. PICK none \in Nat : none = 0
  OBVIOUS
<1>10. Len(chan'[turn]) = none /\ Numbered(chan'[turn], a + u + s, aim)
  BY <1>2, <1>9, NumberedEmpty
<1>11. /\ aim <= Goal(turn)' /\ aim <= a + u + s + none
  BY <1>3, <1>6, <1>7, <1>9
<1>12. Flow(turn, aim)'
  BY <1>1, <1>2, <1>6, <1>8, <1>10, <1>11, FlowFrom
<1>13. reader' = "read" => a + u <= aim
  BY <1>2, <1>4, <1>5
<1>14. reader' = "none" => a + u = aim + 1
  BY <1>2, <1>4, <1>5
<1>15. turn \notin open' /\ ~up'
  BY <1>2
<1>16. Ended(turn, aim)'
  BY <1>1, <1>2, <1>6, <1>10, <1>13, <1>14, <1>15, EndedFrom
<1>17. QED
  BY <1>12, <1>16 DEF Chained

LEMMA ChainPosts ==
  ASSUME ChatAssumption, TypeOK, Begun, turn \in Turns, Unposted, Post
  PROVE  Chained(turn, 0)'
<1>1. /\ up /\ job[turn] = "none" /\ job'[turn] = "wait" /\ open' = open \cup {turn}
      /\ reader' = "read"
      /\ UNCHANGED <<turn, answer, uich, sse, up, gen, cut, chan>>
  BY DEF Post, Unposted, TypeOK, client
<1>2. /\ gen[turn] = 0 /\ cut[turn] = 0 /\ chan[turn] = <<>>
      /\ uich = <<>> /\ sse = <<>> /\ answer[turn] = <<>>
  BY <1>1 DEF Begun, Unborn, Unposted
<1>3. Goal(turn)' = 0
  BY <1>1, <1>2 DEF Goal
<1>4. /\ Len(answer'[turn]) = 0 /\ Len(uich') = 0 /\ Len(sse') = 0 /\ Len(chan'[turn]) = 0
      /\ \A from : /\ Numbered(answer'[turn], from, 0) /\ Numbered(uich', from, 0)
                   /\ Numbered(sse', from, 0) /\ Numbered(chan'[turn], from, 0)
  BY <1>1, <1>2, NumberedEmpty
<1>5. Flow(turn, 0)'
  BY <1>1, <1>3, <1>4 DEF Flow
<1>6. turn \in open' /\ cut'[turn] = 0 /\ job'[turn] \notin {"bye", "done"} /\ reader' = "read"
  BY <1>1, <1>2
<1>7. Ended(turn, 0)'
  BY <1>1, <1>4, <1>6 DEF Ended
<1>8. QED
  BY <1>5, <1>7 DEF Chained

-----------------------------------------------------------------------------
(* The chat's side of a turn. *)

LEMMA PostedChain ==
  ASSUME TypeOK, turn \in Turns
  PROVE  Posted <=> /\ reader # "post" /\ job[turn] # "none"
                    /\ \E goal \in Nat : Chained(turn, goal)
<1>1. Goal(turn) \in Nat
  BY GoalNat
<1>2. ASSUME NEW goal \in Nat, Chained(turn, goal) PROVE goal \in 0 .. Goal(turn)
  BY <1>1, <1>2 DEF Chained, Flow
<1>3. 0 .. Goal(turn) \subseteq Nat
  BY <1>1
<1>4. QED
  BY <1>2, <1>3 DEF Posted

\* Where a step has led, from what it has led to.
LEMMA StreamsOn ==
  ASSUME TypeOK', turn' \in Turns, NEW goal \in Nat, Chained(turn, goal)', reader' # "post",
         job'[turn'] # "none"
  PROVE  Streaming' \/ ~Live'
<1>1. Goal(turn)' \in Nat
  BY DEF TypeOK, Goal
<1>3. goal <= Goal(turn)'
  BY DEF Chained, Flow
<1>4. goal \in 0 .. Goal(turn)'
  BY <1>1, <1>3
<1>5. Posted'
  BY <1>4 DEF Posted
<1>6. turn' > 0
  BY DEF TypeOK, Turns
<1>7. QED
  BY <1>5, <1>6 DEF Streaming, Live

LEMMA StreamingStep ==
  ASSUME ChatAssumption, TypeOK, Queued, Begun, Streaming, TypeOK', [Next]_vars
  PROVE  Streaming'
<1>1. /\ ~Live => reader = "none"
      /\ Live => turn \in Turns
      /\ Live => Unposted \/ Refused \/ Posted
  BY DEF Streaming, TypeOK, Turns
<1>2. ASSUME reader' = "none", ~Live' PROVE Streaming'
  BY <1>2 DEF Streaming
<1>3. ASSUME UNCHANGED <<turn, streaming, reader, uich, sse, up, answer>>,
             ui' = "gone" <=> ui = "gone",
             turn \in Turns =>
               /\ chan'[turn] = chan[turn] /\ gen'[turn] = gen[turn] /\ cut'[turn] = cut[turn]
               /\ turn \in open' <=> turn \in open
               /\ job'[turn] = "none" <=> job[turn] = "none"
               /\ job'[turn] \in {"bye", "done"} <=> job[turn] \in {"bye", "done"}
      PROVE  Streaming'
  <2>1. CASE ~Live
    BY <1>1, <1>2, <1>3, <2>1 DEF Live
  <2>2. CASE Live /\ (Unposted \/ Refused)
    BY <1>1, <1>3, <2>2 DEF Streaming, Live, Unposted, Refused
  <2>3. CASE Live /\ Posted
    <3>1. turn \in Turns
      BY <1>1, <2>3
    <3>2. PICK goal \in Nat : Chained(turn, goal)
      BY <2>3, <3>1, PostedChain
    <3>3. Chained(turn, goal)'
      BY <1>3, <3>1, <3>2, ChainStays
    <3>4. Live' /\ turn' \in Turns /\ reader' # "post" /\ job'[turn'] # "none"
      BY <1>3, <2>3, <3>1 DEF Live, Posted
    <3>5. QED
      BY <3>3, <3>4, StreamsOn
  <2>4. QED
    BY <1>1, <2>1, <2>2, <2>3
<1>4. ASSUME NEW goal \in Nat, Chained(turn, goal)', turn \in Turns, UNCHANGED turn,
             reader' # "post", job'[turn] # "none", Live'
      PROVE  Streaming'
  BY <1>4, StreamsOn
<1>5. ASSUME NEW w \in Widths, Type(w) PROVE Streaming'
  BY <1>1, <1>2, <1>5 DEF Type, Editing, Live, link
<1>6. ASSUME NEW c \in 0 .. 2 * MaxInput, Erase(c) PROVE Streaming'
  BY <1>1, <1>2, <1>6 DEF Erase, Editing, Live, link
<1>7. ASSUME NEW c \in 0 .. 2 * MaxInput, Move(c) PROVE Streaming'
  BY <1>3, <1>7 DEF Move, link, lock, stream
<1>8. CASE SwitchTab
  BY <1>3, <1>8 DEF SwitchTab, link, lock, stream
<1>9. CASE Enter
  <2>1. turn' = turn + 1 /\ turn' \in Turns /\ turn' > turn
    BY <1>9 DEF Enter, TypeOK, Turns, ChatAssumption
  <2>2. job[turn'] = "none" /\ answer[turn'] = <<>>
    BY <2>1 DEF Begun
  <2>3. Unposted'
    BY <1>9, <2>2 DEF Enter, Unposted, lock
  <2>4. turn' > 0
    BY <2>1 DEF Turns
  <2>5. QED
    BY <1>9, <2>3, <2>4 DEF Enter, Editing, Streaming, Live
<1>10. CASE Quit
  BY <1>2, <1>10 DEF Quit, Live
<1>11. CASE Fetch \/ Fetched
  <2>1. Tui \notin Turns
    BY DEF ChatAssumption, Turns
  <2>2. \A t \in Turns : job'[t] = job[t]
    BY <1>11, <2>1 DEF Fetch, Fetched, TypeOK
  <2>3. QED
    BY <1>3, <1>11, <2>2 DEF Fetch, Fetched, link, stream
<1>12. CASE Receive
  <2>1. Live /\ turn \in Turns
    BY <1>1, <1>12 DEF Receive, Live
  <2>2. CASE Unposted
    BY <1>12, <2>2 DEF Receive, Unposted
  <2>3. CASE Refused /\ uich = <<End>>
    <3>1. Head(uich) = End
      BY <2>3
    <3>2. QED
      BY <1>2, <1>12, <2>3, <3>1 DEF Receive, Refused, Live
  <2>4. CASE Refused /\ uich # <<End>>
    <3>1. answer[turn] = <<>> /\ Head(uich) = Error /\ Tail(uich) = <<End>>
      <4>1. answer[turn] = <<>> /\ uich = <<Error, End>>
        BY <2>4 DEF Refused
      <4>2. Head(<<Error, End>>) = Error /\ Tail(<<Error, End>>) = <<End>>
        OBVIOUS
      <4>3. QED
        BY <4>1, <4>2
    <3>2. Head(uich) # End
      BY <3>1 DEF Error, End
    <3>3. Append(<<>>, Error) = <<Error>>
      OBVIOUS
    <3>4. answer'[turn] = <<Error>> /\ uich' = <<End>> /\ streaming' = streaming
      BY <1>12, <2>1, <3>1, <3>2, <3>3 DEF Receive, TypeOK
    <3>5. Refused' /\ Live' /\ turn' = turn
      BY <1>12, <2>1, <2>4, <3>4 DEF Receive, Refused, Live, lock
    <3>6. QED
      BY <2>1, <3>5 DEF Streaming, Turns
  <2>5. CASE Posted
    <3>1. PICK goal \in Nat : Chained(turn, goal)
      BY <2>1, <2>5, PostedChain
    <3>2. IF streaming' THEN Chained(turn, goal)' ELSE reader' = "none"
      BY <1>12, <2>1, <2>5, <3>1, ChainReceives DEF Posted
    <3>3. UNCHANGED <<ui, turn, reader, job>>
      BY <1>12 DEF Receive, lock
    <3>4. CASE streaming'
      BY <1>4, <2>1, <2>5, <3>2, <3>3, <3>4 DEF Live, Posted
    <3>5. CASE ~streaming'
      BY <1>2, <3>2, <3>5 DEF Live
    <3>6. QED
      BY <3>4, <3>5
  <2>6. QED
    BY <1>1, <2>1, <2>2, <2>3, <2>4, <2>5
<1>13. CASE Post
  <2>1. Live /\ turn \in Turns /\ Unposted
    BY <1>1, <1>13 DEF Post, Refused, Posted
  <2>2. Chained(turn, 0)'
    BY <1>13, <2>1, ChainPosts
  <2>3. Live' /\ UNCHANGED turn /\ reader' = "read" /\ job'[turn] = "wait"
    BY <1>13, <2>1 DEF Post, Live, client, TypeOK
  <2>4. QED
    BY <1>4, <2>1, <2>2, <2>3
<1>14. CASE PostFails
  <2>1. Live /\ turn \in Turns /\ Unposted
    BY <1>1, <1>14 DEF PostFails, Refused, Posted
  <2>2. Refused' /\ Live' /\ turn' = turn
    BY <1>14, <2>1 DEF PostFails, Unposted, Refused, Live, client, lock
  <2>3. QED
    BY <2>1, <2>2 DEF Streaming, Turns
<1>15. CASE ReadEvent \/ ReadEof
  <2>1. Live /\ turn \in Turns /\ Posted
    BY <1>1, <1>15 DEF ReadEvent, ReadEof, Unposted, Refused
  <2>2. PICK goal \in Nat : Chained(turn, goal)
    BY <2>1, PostedChain
  <2>3. Chained(turn, goal)'
    BY <1>15, <2>1, <2>2, ChainReads, ChainEof
  <2>4. Live' /\ UNCHANGED <<turn, job>> /\ reader' # "post"
    BY <1>15, <2>1 DEF ReadEvent, ReadEof, Live, client, lock
  <2>5. QED
    BY <1>4, <2>1, <2>3, <2>4 DEF Posted
<1>16. ASSUME NEW r \in Turns \cup Others, Acquire(r) PROVE Streaming'
  <2>1. job[r] = "wait"
    BY <1>16, HeadWaits DEF Acquire
  <2>2. /\ job'[r] = "run"
        /\ \A t \in Turns : t # r => job'[t] = job[t]
    BY <1>16 DEF Acquire, TypeOK
  <2>3. QED
    BY <1>3, <1>16, <2>1, <2>2 DEF Acquire, client, link, stream
<1>17. ASSUME NEW r \in Turns \cup Others, Goodbye(r) PROVE Streaming'
  <2>1. /\ job[r] = "bye" /\ job'[r] = "done"
        /\ \A t \in Turns : t # r => job'[t] = job[t]
    BY <1>17 DEF Goodbye, Release, TypeOK
  <2>2. QED
    BY <1>3, <1>17, <2>1 DEF Goodbye, client, link, stream
<1>18. ASSUME NEW o \in Others, Arrive(o) \/ Generated(o) \/ Respond(o) \/ Dropped(o)
       PROVE  Streaming'
  <2>1. o \notin Turns
    BY DEF ChatAssumption, Turns
  <2>2. \A t \in Turns : job'[t] = job[t]
    BY <1>18, <2>1 DEF Arrive, Generated, Respond, Dropped, Release, TypeOK
  <2>3. QED
    BY <1>3, <1>18, <2>2 DEF Arrive, Generated, Respond, Dropped, client, link, stream
<1>19. ASSUME NEW t \in Turns, t # turn, Task(t) \/ Refuse(t) \/ Emit(t), ~Goodbye(t) PROVE Streaming'
  <2>1. UNCHANGED <<client, link, up>>
    BY <1>19 DEF Task, Token, EmptyToken, GenerationEnds, Refuse, Emit
  <2>2. sse' = sse
    BY <1>19 DEF Task, Token, EmptyToken, GenerationEnds, Refuse, Emit
  <2>3. \A q \in Turns : q # t => job'[q] = job[q] /\ chan'[q] = chan[q]
    BY <1>19 DEF Task, Token, EmptyToken, GenerationEnds, Refuse, Emit, Release, Send, lock, TypeOK
  <2>4. \A q \in Turns : q # t => gen'[q] = gen[q] /\ cut'[q] = cut[q] /\ (q \in open' <=> q \in open)
    BY <1>19 DEF Task, Token, EmptyToken, GenerationEnds, Refuse, Emit, TypeOK
  <2>5. QED
    BY <1>3, <1>19, <2>1, <2>2, <2>3, <2>4 DEF client, link
<1>20. ASSUME turn \in Turns, job[turn] = "run", UNCHANGED <<client, link, up, open, sse>>,
              job'[turn] # "none",
              \A goal \in Nat : Chained(turn, goal) => \E aim \in Nat : Chained(turn, aim)'
       PROVE  Streaming'
  <2>1. CASE ~Live
    BY <1>1, <1>2, <1>20, <2>1 DEF Live, client, link
  <2>2. CASE Live
    <3>1. Posted
      BY <1>1, <1>20, <2>2 DEF Unposted, Refused
    <3>2. PICK goal \in Nat : Chained(turn, goal)
      BY <1>20, <3>1, PostedChain
    <3>3. PICK aim \in Nat : Chained(turn, aim)'
      BY <1>20, <3>2
    <3>4. Live' /\ UNCHANGED turn /\ reader' # "post"
      BY <1>20, <2>2, <3>1 DEF Live, Posted, client, link
    <3>5. QED
      BY <1>4, <1>20, <3>3, <3>4
  <2>3. QED
    BY <2>1, <2>2
<1>21. ASSUME turn \in Turns, job[turn] = "run"
       PROVE  up /\ gen[turn] \in Nat /\ cut[turn] \in Nat /\ cut[turn] <= gen[turn]
  BY <1>21 DEF TypeOK, Begun, Requests
<1>22. ASSUME NEW goal \in Nat, Chained(turn, goal), up PROVE goal = Goal(turn)
  BY <1>22 DEF Chained, Flow
<1>23. ASSUME turn \in Turns, Token(turn) PROVE Streaming'
  <2>1. /\ job[turn] = "run" /\ Send(turn, gen[turn] + 1)
        /\ gen'[turn] = gen[turn] + 1 /\ cut'[turn] = cut[turn] /\ job' = job
        /\ UNCHANGED <<client, link, up, open, sse>>
    BY <1>23 DEF Token, TypeOK, lock
  <2>2. ASSUME NEW goal \in Nat, Chained(turn, goal) PROVE \E aim \in Nat : Chained(turn, aim)'
    <3>1. goal = Goal(turn) /\ up
      BY <1>21, <1>22, <1>23, <2>1, <2>2
    <3>2. UNCHANGED <<answer, uich, reader, turn>> /\ gen[turn] + 1 \in Int
      BY <1>21, <1>23, <2>1 DEF client, link
    <3>3. CASE cut[turn] = 0
      <4>1. goal = gen[turn] /\ Goal(turn)' = goal + 1
        BY <2>1, <3>1, <3>2, <3>3 DEF Goal
      <4>2. ~ (cut[turn] # 0 \/ job[turn] \in {"bye", "done"})
            /\ ~ (cut'[turn] # 0 \/ job'[turn] \in {"bye", "done"})
        BY <2>1, <3>3
      <4>3. Chained(turn, goal + 1)'
        BY <1>23, <2>1, <2>2, <3>1, <3>2, <4>1, <4>2, ChainSends
      <4>4. QED
        BY <4>3
    <3>4. CASE cut[turn] # 0
      <4>1. Goal(turn)' = goal
        BY <2>1, <3>1, <3>2, <3>4 DEF Goal
      <4>2. Chained(turn, goal)'
        BY <1>23, <2>1, <2>2, <3>1, <3>2, <3>4, <4>1, ChainSends
      <4>3. QED
        BY <4>2
    <3>5. QED
      BY <3>3, <3>4
  <2>3. QED
    BY <1>20, <1>23, <2>1, <2>2
<1>24. ASSUME turn \in Turns, EmptyToken(turn) PROVE Streaming'
  <2>1. /\ job[turn] = "run" /\ Send(turn, End)
        /\ gen'[turn] = gen[turn] + 1 /\ job' = job
        /\ cut'[turn] = IF cut[turn] = 0 THEN gen[turn] + 1 ELSE cut[turn]
        /\ UNCHANGED <<client, link, up, open, sse>>
    BY <1>24 DEF EmptyToken, TypeOK, lock
  <2>2. cut'[turn] # 0
    BY <1>21, <1>24, <2>1
  <2>3. ASSUME NEW goal \in Nat, Chained(turn, goal) PROVE \E aim \in Nat : Chained(turn, aim)'
    <3>1. goal = Goal(turn) /\ up
      BY <1>21, <1>22, <1>24, <2>1, <2>3
    <3>2. UNCHANGED <<answer, uich, reader, turn>> /\ End \in Int
      BY <2>1 DEF client, link, End
    <3>3. Goal(turn)' = goal
      BY <1>21, <1>24, <2>1, <2>2, <3>1, <3>2 DEF Goal
    <3>4. Chained(turn, goal)'
      BY <1>24, <2>1, <2>2, <2>3, <3>1, <3>2, <3>3, ChainSends
    <3>5. QED
      BY <3>4
  <2>4. QED
    BY <1>20, <1>24, <2>1, <2>3
<1>25. ASSUME turn \in Turns, job[turn] = "run", Send(turn, End), job'[turn] \in {"bye", "done"},
              UNCHANGED <<client, link, up, gen, cut, open, sse>>
       PROVE  Streaming'
  <2>1. ASSUME NEW goal \in Nat, Chained(turn, goal) PROVE \E aim \in Nat : Chained(turn, aim)'
    <3>1. goal = Goal(turn) /\ up
      BY <1>21, <1>22, <1>25, <2>1
    <3>2. UNCHANGED <<answer, uich, reader, turn>> /\ End \in Int
      BY <1>25 DEF client, link, End
    <3>3. Goal(turn)' = goal
      BY <1>25, <3>1, <3>2 DEF Goal
    <3>4. Chained(turn, goal)'
      BY <1>25, <2>1, <3>1, <3>2, <3>3, ChainSends
    <3>5. QED
      BY <3>4
  <2>2. QED
    BY <1>20, <1>25, <2>1
<1>26. ASSUME turn \in Turns, GenerationEnds(turn) \/ Refuse(turn) PROVE Streaming'
  <2>1. job'[turn] \in {"bye", "done"}
    BY <1>26 DEF GenerationEnds, Refuse, Release, TypeOK
  <2>2. QED
    BY <1>25, <1>26, <2>1 DEF GenerationEnds, Refuse
<1>27. ASSUME turn \in Turns, Emit(turn) PROVE Streaming'
  <2>1. job[turn] # "none"
    BY <1>27 DEF Emit, Begun, Unborn
  <2>2. UNCHANGED <<client, link, up, job>>
    BY <1>27 DEF Emit, lock
  <2>3. CASE ~Live
    BY <1>1, <1>2, <2>2, <2>3 DEF Live, client, link
  <2>4. CASE Live
    <3>1. Posted
      BY <1>1, <2>1, <2>4 DEF Unposted, Refused
    <3>2. PICK goal \in Nat : Chained(turn, goal)
      BY <1>27, <3>1, PostedChain
    <3>3. Chained(turn, goal)'
      BY <1>27, <3>1, <3>2, ChainEmits DEF Posted
    <3>4. Live' /\ UNCHANGED turn /\ reader' # "post" /\ job'[turn] # "none"
      BY <2>2, <2>4, <3>1 DEF Live, Posted, client, link
    <3>5. QED
      BY <1>4, <1>27, <3>3, <3>4
  <2>5. QED
    BY <2>3, <2>4
<1>28. CASE ServerDies
  <2>1. UNCHANGED <<client, link, sse>>
    BY <1>28 DEF ServerDies
  <2>2. \A t \in Turns : job'[t] = IF job[t] = "none" THEN "none" ELSE "done"
    BY <1>28 DEF ServerDies, TypeOK
  <2>3. CASE ~Live
    BY <1>1, <1>2, <2>1, <2>3 DEF Live, client, link
  <2>4. CASE Live /\ (Unposted \/ Refused)
    BY <1>1, <2>1, <2>2, <2>4 DEF Streaming, Live, Unposted, Refused, client, link
  <2>5. CASE Live /\ Posted
    <3>1. turn \in Turns
      BY <1>1, <2>5
    <3>2. PICK goal \in Nat : Chained(turn, goal)
      BY <2>5, <3>1, PostedChain
    <3>3. PICK aim \in Nat : Chained(turn, aim)'
      BY <1>28, <2>5, <3>1, <3>2, ChainDies DEF Posted
    <3>4. Live' /\ UNCHANGED turn /\ reader' # "post" /\ job'[turn] # "none"
      BY <2>1, <2>2, <2>5, <3>1 DEF Live, Posted, client, link
    <3>5. QED
      BY <1>4, <3>1, <3>3, <3>4
  <2>6. QED
    BY <1>1, <2>3, <2>4, <2>5
<1>29. CASE UNCHANGED vars
  BY <1>3, <1>29 DEF vars, client, link, lock, stream
<1>30. ASSUME NEW t \in Turns, Task(t) \/ Refuse(t) \/ Emit(t) PROVE Streaming'
  BY <1>17, <1>19, <1>23, <1>24, <1>26, <1>27, <1>30 DEF Task
<1>31. QED
  BY <1>5, <1>6, <1>7, <1>8, <1>9, <1>10, <1>11, <1>12, <1>13, <1>14, <1>15, <1>16, <1>17, <1>18,
     <1>28, <1>29, <1>30 DEF Next, Handler, Thread

-----------------------------------------------------------------------------
(* What the messages hold. *)

KeptBy(t) == \/ answer[t] = <<Error>>
             \/ Len(answer[t]) <= Goal(t) /\ Numbered(answer[t], 0, Goal(t))

\* More text does not harm a message.
LEMMA KeptOn ==
  ASSUME TypeOK, TypeOK', NEW t \in Turns, KeptBy(t), answer'[t] = answer[t],
         Goal(t) <= Goal(t)'
  PROVE  KeptBy(t)'
<1>1. CASE answer[t] = <<Error>>
  BY <1>1 DEF KeptBy
<1>2. CASE Len(answer[t]) <= Goal(t) /\ Numbered(answer[t], 0, Goal(t))
  <2>1. PICK g \in Nat, h \in Nat : g = Goal(t) /\ h = Goal(t)'
    BY GoalNat, GoalNatNext
  <2>2. PICK L \in Nat : L = Len(answer[t])
    BY Lengths
  <2>3. L <= g /\ g <= h
    BY <1>2, <2>1, <2>2
  <2>4. Numbered(answer[t], 0, h)
    <3>1. 0 + Len(answer[t]) <= g /\ 0 + Len(answer[t]) <= h
      BY <2>2, <2>3
    <3>2. Numbered(answer[t], 0, g)
      BY <1>2, <2>1
    <3>3. QED
      BY <3>1, <3>2, NumberedWithin, Lengths
  <2>5. Len(answer'[t]) <= h /\ Numbered(answer'[t], 0, h)
    BY <2>2, <2>3, <2>4
  <2>6. QED
    BY <2>1, <2>5 DEF KeptBy
<1>3. QED
  BY <1>1, <1>2 DEF KeptBy

\* The text of a turn grows only.
LEMMA GoalGrows ==
  ASSUME TypeOK, Begun, [Next]_vars, NEW t \in Turns
  PROVE  Goal(t) <= Goal(t)'
<1>1. gen[t] \in Nat /\ cut[t] \in Nat /\ cut[t] <= gen[t]
  BY DEF TypeOK, Begun
<1>2. CASE UNCHANGED <<gen, cut>>
  BY <1>1, <1>2 DEF Goal
<1>3. ASSUME NEW q \in Turns, Token(q) PROVE Goal(t) <= Goal(t)'
  <2>1. gen'[t] \in {gen[t], gen[t] + 1} /\ cut'[t] = cut[t]
    BY <1>3 DEF Token, TypeOK
  <2>2. QED
    BY <1>1, <2>1 DEF Goal
<1>4. ASSUME NEW q \in Turns, EmptyToken(q) PROVE Goal(t) <= Goal(t)'
  <2>1. \/ gen'[t] = gen[t] /\ cut'[t] = cut[t]
        \/ gen'[t] = gen[t] + 1 /\ cut'[t] = IF cut[t] = 0 THEN gen[t] + 1 ELSE cut[t]
    BY <1>4 DEF EmptyToken, TypeOK
  <2>2. QED
    BY <1>1, <2>1 DEF Goal
<1>5. ASSUME NEW w \in Widths, Type(w) PROVE UNCHANGED <<gen, cut>>
  BY <1>5 DEF Type, stream
<1>6. ASSUME NEW c \in 0 .. 2 * MaxInput, Erase(c) \/ Move(c) PROVE UNCHANGED <<gen, cut>>
  BY <1>6 DEF Erase, Move, stream
<1>7. CASE SwitchTab \/ Enter \/ Quit \/ Fetch \/ Fetched \/ Receive \/ Thread \/ ServerDies
  BY <1>2, <1>7 DEF SwitchTab, Enter, Quit, Fetch, Fetched, Receive, Thread, Post, PostFails,
       ReadEvent, ReadEof, ServerDies, stream
<1>8. ASSUME NEW r \in Turns \cup Others, Acquire(r) \/ Goodbye(r) PROVE UNCHANGED <<gen, cut>>
  BY <1>8 DEF Acquire, Goodbye, stream
<1>9. ASSUME NEW q \in Turns, GenerationEnds(q) \/ Refuse(q) \/ Emit(q) PROVE UNCHANGED <<gen, cut>>
  BY <1>9 DEF GenerationEnds, Refuse, Emit
<1>10. ASSUME NEW o \in Others, Arrive(o) \/ Generated(o) \/ Respond(o) \/ Dropped(o)
       PROVE  UNCHANGED <<gen, cut>>
  BY <1>10 DEF Arrive, Generated, Respond, Dropped, stream
<1>11. CASE UNCHANGED vars
  BY <1>2, <1>11 DEF vars, stream
<1>12. QED
  BY <1>2, <1>3, <1>4, <1>5, <1>6, <1>7, <1>8, <1>9, <1>10, <1>11 DEF Next, Task, Handler

\* An answer changes when its turn receives.
LEMMA AnswerChanges ==
  ASSUME [Next]_vars, ~Receive
  PROVE  answer' = answer
<1>1. ASSUME NEW w \in Widths, Type(w) PROVE answer' = answer
  BY <1>1 DEF Type
<1>2. ASSUME NEW c \in 0 .. 2 * MaxInput, Erase(c) \/ Move(c) PROVE answer' = answer
  BY <1>2 DEF Erase, Move
<1>3. CASE SwitchTab \/ Enter \/ Quit \/ Fetch \/ Fetched \/ Thread \/ ServerDies
  BY <1>3 DEF SwitchTab, Enter, Quit, Fetch, Fetched, Thread, Post, PostFails, ReadEvent, ReadEof,
       ServerDies, client
<1>4. ASSUME NEW r \in Turns \cup Others, Acquire(r) \/ Goodbye(r) PROVE answer' = answer
  BY <1>4 DEF Acquire, Goodbye, client
<1>5. ASSUME NEW t \in Turns, Token(t) \/ EmptyToken(t) \/ GenerationEnds(t) \/ Refuse(t) \/ Emit(t)
      PROVE  answer' = answer
  BY <1>5 DEF Token, EmptyToken, GenerationEnds, Refuse, Emit, client
<1>6. ASSUME NEW o \in Others, Arrive(o) \/ Generated(o) \/ Respond(o) \/ Dropped(o)
      PROVE  answer' = answer
  BY <1>6 DEF Arrive, Generated, Respond, Dropped, client
<1>7. CASE UNCHANGED vars
  BY <1>7 DEF vars, client
<1>8. QED
  BY <1>1, <1>2, <1>3, <1>4, <1>5, <1>6, <1>7 DEF Next, Task, Handler

LEMMA KeptStep ==
  ASSUME TypeOK, TypeOK', Begun, Streaming, Streaming', Kept, [Next]_vars
  PROVE  Kept'
<1>1. \A t \in Turns : KeptBy(t)
  BY DEF Kept, KeptBy
<1>2. ASSUME NEW t \in Turns PROVE KeptBy(t)'
  <2>1. CASE answer'[t] = answer[t]
    BY <1>1, <2>1, GoalGrows, KeptOn
  <2>2. CASE answer'[t] # answer[t]
    <3>1. Receive
      BY <2>2, AnswerChanges
    <3>2. Head(uich) # End /\ answer' = [answer EXCEPT ![turn] = Append(@, Head(uich))]
      BY <2>2, <3>1 DEF Receive
    <3>3. t = turn /\ Live /\ Live' /\ turn' = turn
      BY <2>2, <3>1, <3>2 DEF Receive, TypeOK, Live
    <3>4. Unposted' \/ Refused' \/ Posted'
      BY <3>3 DEF Streaming
    <3>5. CASE Unposted' \/ Refused'
      <4>1. answer'[t] = <<>> \/ answer'[t] = <<Error>>
        BY <3>3, <3>5 DEF Unposted, Refused
      <4>2. Goal(t)' \in Nat
        BY GoalNatNext
      <4>3. Len(<<>>) <= Goal(t)' /\ Numbered(<<>>, 0, Goal(t)')
        BY <4>2, NumberedEmpty
      <4>4. QED
        BY <4>1, <4>3 DEF KeptBy
    <3>6. CASE Posted'
      <4>1. Goal(t)' \in Nat /\ answer'[t] \in Seq(Int)
        BY GoalNatNext DEF TypeOK
      <4>2. PICK goal \in 0 .. Goal(turn)' : Chained(turn, goal)'
        BY <3>6 DEF Posted
      <4>3. PICK g \in Nat, L \in Nat : g = Goal(t)' /\ L = Len(answer'[t])
        BY <4>1
      <4>4. goal \in Nat /\ goal <= g /\ L <= goal /\ Numbered(answer'[t], 0, goal)
        BY <3>3, <4>1, <4>2, <4>3 DEF Chained, Flow
      <4>5. 0 + Len(answer'[t]) <= goal /\ 0 + Len(answer'[t]) <= g
        BY <4>3, <4>4
      <4>6. Numbered(answer'[t], 0, g)
        BY <4>1, <4>4, <4>5, NumberedWithin
      <4>7. QED
        BY <4>3, <4>4, <4>6 DEF KeptBy
    <3>7. QED
      BY <3>4, <3>5, <3>6
  <2>3. QED
    BY <2>1, <2>2
<1>3. QED
  BY <1>2 DEF Kept, KeptBy

-----------------------------------------------------------------------------
(* The invariant. *)

LEMMA ChatInit == ASSUME ChatAssumption, Init PROVE ChatInv
<1>1. TypeOK
  BY TypeInit
<1>2. Queued
  <2>1. Len(lockq) = 0 /\ 1 .. 0 = {}
    BY DEF Init
  <2>2. QED
    BY <2>1 DEF Queued
<1>3. Begun
  BY DEF Init, Begun, Unborn, Requests
<1>4. Streaming
  BY DEF Init, Streaming, Live
<1>5. Kept
  <2>1. ASSUME NEW t \in Turns
        PROVE  answer[t] = <<>> /\ Goal(t) = 0 /\ Len(<<>>) <= 0 /\ Numbered(<<>>, 0, 0)
    BY NumberedEmpty DEF Init, Goal
  <2>2. QED
    BY <2>1 DEF Kept
<1>6. QED
  BY <1>1, <1>2, <1>3, <1>4, <1>5 DEF ChatInv

LEMMA ChatStep == ASSUME ChatAssumption, ChatInv, [Next]_vars PROVE ChatInv'
<1>1. TypeOK /\ Queued /\ Begun /\ Streaming /\ Kept
  BY DEF ChatInv
<1>2. reader # "none" => turn > 0
  BY <1>1 DEF Streaming
<1>3. TypeOK'
  BY <1>1, <1>2, TypeStep
<1>4. Queued'
  BY <1>1, QueuedStep
<1>5. Begun'
  BY <1>1, BegunStep
<1>6. Streaming'
  BY <1>1, <1>3, StreamingStep
<1>7. Kept'
  BY <1>1, <1>3, <1>6, KeptStep
<1>8. QED
  BY <1>3, <1>4, <1>5, <1>6, <1>7 DEF ChatInv

\* Text(t) is the numbers up to Goal(t).
LEMMA TextIs ==
  ASSUME TypeOK, NEW t \in Turns
  PROVE  /\ Text(t) \in Seq(Int) /\ Len(Text(t)) = Goal(t)
         /\ \A i \in 1 .. Goal(t) : Text(t)[i] = i
<1>1. PICK g \in Nat : g = Goal(t)
  BY GoalNat
<1>2. Text(t) = [i \in 1 .. g |-> i]
  BY <1>1 DEF Text, Goal
<1>3. [i \in 1 .. g |-> i] \in Seq(Int)
  OBVIOUS
<1>4. Len([i \in 1 .. g |-> i]) = g
  BY <1>1
<1>5. QED
  BY <1>1, <1>2, <1>3, <1>4

LEMMA ChatPlaces == ASSUME ChatInv PROVE Placed
<1>1. TypeOK /\ Kept
  BY DEF ChatInv
<1>2. SUFFICES ASSUME NEW t \in Turns, answer[t] # <<Error>> PROVE IsPrefixOf(answer[t], Text(t))
  BY DEF Placed
<1>3. PICK g \in Nat, L \in Nat : g = Goal(t) /\ L = Len(answer[t])
  BY <1>1, GoalNat, Lengths
<1>4. L <= g /\ Numbered(answer[t], 0, g)
  BY <1>1, <1>2, <1>3 DEF Kept
<1>5. \A i \in 1 .. L : answer[t][i] = i
  BY <1>3, <1>4 DEF Numbered
<1>6. /\ Text(t) \in Seq(Int) /\ Len(Text(t)) = g
      /\ \A i \in 1 .. g : Text(t)[i] = i
  BY <1>1, <1>3, TextIs
<1> DEFINE head == SubSeq(Text(t), 1, L)
<1>7. head \in Seq(Int) /\ Len(head) = L /\ \A i \in 1 .. L : head[i] = i
  <2>1. \A i \in 1 .. L : Text(t)[i] \in Int /\ Text(t)[i] = i
    BY <1>4, <1>6
  <2>2. /\ head \in Seq(Int) /\ Len(head) = IF 1 <= L THEN L - 1 + 1 ELSE 0
        /\ \A i \in 1 .. L - 1 + 1 : head[i] = Text(t)[1 + i - 1]
    BY <2>1, SubSeqProperties
  <2>3. \A i \in 1 .. L : 1 + i - 1 = i /\ i \in 1 .. L - 1 + 1
    OBVIOUS
  <2>4. QED
    BY <2>1, <2>2, <2>3
<1> HIDE DEF head
<1>8. answer[t] = head
  <2>1. answer[t] \in Seq(Int) /\ Len(answer[t]) = Len(head)
    BY <1>1, <1>3, <1>7, Lengths
  <2>2. \A i \in 1 .. Len(head) : answer[t][i] = head[i]
    BY <1>5, <1>7
  <2>3. QED
    BY <1>7, <2>1, <2>2, SeqEqual
<1>9. QED
  BY <1>3, <1>4, <1>6, <1>8 DEF IsPrefixOf, head

\* One channel after the other.
LEMMA NumberedConcat ==
  ASSUME NEW s \in Seq(Int), NEW t \in Seq(Int), NEW from \in Nat, NEW goal \in Nat,
         Numbered(s, from, goal), Numbered(t, from + Len(s), goal)
  PROVE  /\ s \o t \in Seq(Int) /\ Len(s \o t) = Len(s) + Len(t)
         /\ Numbered(s \o t, from, goal)
<1>1. PICK m \in Nat, n \in Nat : m = Len(s) /\ n = Len(t)
  OBVIOUS
<1>2. /\ s \o t \in Seq(Int) /\ Len(s \o t) = m + n
      /\ \A i \in 1 .. m + n : (s \o t)[i] = IF i <= m THEN s[i] ELSE t[i - m]
  BY <1>1, ConcatProperties
<1>3. ASSUME NEW i \in 1 .. m + n
      PROVE  /\ from + i <= goal => (s \o t)[i] = from + i
             /\ from + i = goal + 1 => (s \o t)[i] = End
  <2>1. CASE i <= m
    <3>1. i \in 1 .. m /\ (s \o t)[i] = s[i]
      BY <1>2, <2>1
    <3>2. QED
      BY <1>1, <3>1 DEF Numbered
  <2>2. CASE ~ (i <= m)
    <3>1. i - m \in 1 .. n /\ (s \o t)[i] = t[i - m] /\ from + m + (i - m) = from + i
      BY <1>2, <2>2
    <3>2. \A j \in 1 .. n : /\ from + m + j <= goal => t[j] = from + m + j
                            /\ from + m + j = goal + 1 => t[j] = End
      BY <1>1 DEF Numbered
    <3>3. QED
      BY <3>1, <3>2
  <2>3. QED
    BY <2>1, <2>2
<1>4. Numbered(s \o t, from, goal)
  BY <1>2, <1>3 DEF Numbered
<1>5. QED
  BY <1>1, <1>2, <1>4

\* What comes before the End of numbered events.
LEMMA BeforeEnd ==
  ASSUME NEW s \in Seq(Int), NEW from \in Nat, NEW n \in Nat, n <= Len(s),
         Numbered(s, from, from + n)
  PROVE  /\ Before(s) \in Seq(Int) /\ Len(Before(s)) = n
         /\ \A i \in 1 .. n : Before(s)[i] = from + i
<1>1. PICK L \in Nat : L = Len(s)
  OBVIOUS
<1>2. \A i \in 1 .. L : /\ i <= n => s[i] = from + i /\ s[i] # End
                        /\ i = n + 1 => s[i] = End
  BY <1>1 DEF Numbered, End
<1>3. n \in 0 .. L /\ FirstEnd(s, n)
  <2>1. \A i \in 1 .. n : s[i] # End
    BY <1>1, <1>2
  <2>2. n = L \/ s[n + 1] = End
    BY <1>1, <1>2
  <2>3. QED
    BY <1>1, <2>1, <2>2 DEF FirstEnd
<1>4. ASSUME NEW m \in 0 .. L, FirstEnd(s, m) PROVE m = n
  <2>1. CASE m < n
    <3>1. m # L /\ m + 1 \in 1 .. L /\ m + 1 <= n
      BY <1>3, <2>1
    <3>2. s[m + 1] = End
      BY <1>1, <1>4, <3>1 DEF FirstEnd
    <3>3. QED
      BY <1>2, <3>1, <3>2
  <2>2. CASE m > n
    <3>1. n + 1 \in 1 .. m /\ n + 1 \in 1 .. L
      BY <2>2
    <3>2. s[n + 1] = End /\ s[n + 1] # End
      BY <1>2, <1>4, <3>1 DEF FirstEnd
    <3>3. QED
      BY <3>2
  <2>3. QED
    BY <2>1, <2>2
<1>5. (CHOOSE k \in 0 .. Len(s) : FirstEnd(s, k)) = n
  <2>1. \E k \in 0 .. L : FirstEnd(s, k)
    BY <1>3
  <2>2. \A k \in 0 .. L : FirstEnd(s, k) => k = n
    BY <1>4
  <2>3. QED
    BY <1>1, <2>1, <2>2
<1>6. Before(s) = SubSeq(s, 1, n)
  BY <1>5 DEF Before
<1>7. \A i \in 1 .. n : s[i] \in Int /\ s[i] = from + i
  BY <1>1, <1>2
<1>8. /\ SubSeq(s, 1, n) \in Seq(Int) /\ Len(SubSeq(s, 1, n)) = IF 1 <= n THEN n - 1 + 1 ELSE 0
      /\ \A i \in 1 .. n - 1 + 1 : SubSeq(s, 1, n)[i] = s[1 + i - 1]
  BY <1>7, SubSeqProperties
<1>9. \A i \in 1 .. n : 1 + i - 1 = i /\ i \in 1 .. n - 1 + 1
  OBVIOUS
<1>10. \A i \in 1 .. n : SubSeq(s, 1, n)[i] = from + i
  BY <1>7, <1>8, <1>9
<1>11. QED
  BY <1>6, <1>8, <1>10

LEMMA ChatWhole == ASSUME ChatInv PROVE Whole
<1>1. TypeOK /\ Streaming
  BY DEF ChatInv
<1>2. SUFFICES ASSUME turn > 0, streaming, up, ui # "gone", job[turn] # "none"
               PROVE  answer[turn] \o Before(uich \o sse \o chan[turn]) = Text(turn)
  BY DEF Whole
<1>3. turn \in Turns /\ Posted
  BY <1>1, <1>2 DEF Streaming, Live, Unposted, Refused, TypeOK, Turns
<1>4. PICK goal \in Nat : Chained(turn, goal)
  BY <1>1, <1>3, PostedChain
<1>5. PICK a \in Nat, u \in Nat, s \in Nat, c \in Nat :
        a = Len(answer[turn]) /\ u = Len(uich) /\ s = Len(sse) /\ c = Len(chan[turn])
  BY <1>1, <1>3, Lengths
<1>6. /\ goal = Goal(turn) /\ a <= goal /\ goal <= a + u + s + c
      /\ Numbered(answer[turn], 0, goal) /\ Numbered(uich, a, goal)
      /\ Numbered(sse, a + u, goal) /\ Numbered(chan[turn], a + u + s, goal)
  BY <1>2, <1>4, <1>5 DEF Chained, Flow
<1> DEFINE rest == uich \o sse \o chan[turn]
<1>7. rest \in Seq(Int) /\ Len(rest) = u + s + c /\ Numbered(rest, a, goal)
  <2>1. /\ uich \o sse \in Seq(Int) /\ Len(uich \o sse) = u + s
        /\ Numbered(uich \o sse, a, goal)
    BY <1>1, <1>3, <1>5, <1>6, Lengths, NumberedConcat
  <2>2. a + Len(uich \o sse) = a + u + s
    BY <2>1
  <2>3. QED
    BY <1>1, <1>3, <1>5, <1>6, <2>1, <2>2, Lengths, NumberedConcat
<1> HIDE DEF rest
<1>8. PICK n \in Nat : n = goal - a /\ a + n = goal
  BY <1>6
<1>9. n <= Len(rest)
  BY <1>6, <1>7, <1>8
<1>10. /\ Before(rest) \in Seq(Int) /\ Len(Before(rest)) = n
       /\ \A i \in 1 .. n : Before(rest)[i] = a + i
  <2>1. Numbered(rest, a, a + n)
    BY <1>7, <1>8
  <2>2. QED
    <3>1. rest \in Seq(Int)
      BY <1>7
    <3>2. QED
      BY <1>9, <2>1, <3>1, BeforeEnd
<1>11. answer[turn] \in Seq(Int) /\ \A i \in 1 .. a : answer[turn][i] = i
  <2>1. \A i \in 1 .. a : 0 + i <= goal /\ 0 + i = i
    BY <1>6
  <2>2. \A i \in 1 .. a : 0 + i <= goal => answer[turn][i] = 0 + i
    BY <1>5, <1>6 DEF Numbered
  <2>3. QED
    BY <1>1, <1>3, <2>1, <2>2, Lengths
<1> DEFINE all == answer[turn] \o Before(rest)
<1>12. all \in Seq(Int) /\ Len(all) = goal /\ \A i \in 1 .. goal : all[i] = i
  <2>1. /\ all \in Seq(Int) /\ Len(all) = a + n
        /\ \A i \in 1 .. a + n : all[i] = IF i <= a THEN answer[turn][i] ELSE Before(rest)[i - a]
    <3>1. /\ all \in Seq(Int) /\ Len(all) = Len(answer[turn]) + Len(Before(rest))
          /\ \A i \in 1 .. Len(answer[turn]) + Len(Before(rest)) :
               all[i] = IF i <= Len(answer[turn]) THEN answer[turn][i]
                          ELSE Before(rest)[i - Len(answer[turn])]
      BY <1>10, <1>11, ConcatProperties
    <3>2. QED
      BY <1>5, <1>10, <3>1
  <2>2. ASSUME NEW i \in 1 .. goal PROVE all[i] = i
    <3>1. i \in 1 .. a + n
      BY <1>8
    <3>2. CASE i <= a
      BY <1>11, <2>1, <3>1, <3>2
    <3>3. CASE ~ (i <= a)
      <4>1. i - a \in 1 .. n /\ a + (i - a) = i
        BY <3>1, <3>3
      <4>2. all[i] = Before(rest)[i - a]
        BY <2>1, <3>1, <3>3
      <4>3. QED
        BY <1>10, <4>1, <4>2
    <3>4. QED
      BY <3>2, <3>3
  <2>3. QED
    BY <1>8, <2>1, <2>2
<1> HIDE DEF all
<1>13. /\ Text(turn) \in Seq(Int) /\ Len(Text(turn)) = goal
       /\ \A i \in 1 .. goal : Text(turn)[i] = i
  BY <1>1, <1>3, <1>6, TextIs
<1>14. all = Text(turn)
  BY <1>12, <1>13, SeqEqual
<1>15. QED
  BY <1>14 DEF all, rest

-----------------------------------------------------------------------------
(* The cursor. *)

\* Bytes, of any line.
BytesOf(s, k) == k + Cardinality({i \in 1 .. k : s[i] = 2})

LEMMA BytesAre ==
  ASSUME NEW s, NEW k \in Nat, NEW j \in 0 .. k
  PROVE  /\ BytesOf(s, k) \in Nat /\ BytesOf(s, j) \in Nat
         /\ k <= BytesOf(s, k) /\ BytesOf(s, j) + (k - j) <= BytesOf(s, k)
<1> DEFINE In(n) == {i \in 1 .. n : s[i] = 2}
<1>1. \A n \in Nat : IsFiniteSet(In(n)) /\ Cardinality(In(n)) \in Nat
  <2>1. ASSUME NEW n \in Nat PROVE IsFiniteSet(In(n)) /\ Cardinality(In(n)) \in Nat
    <3>1. IsFiniteSet(1 .. n)
      BY FS_Interval
    <3>2. In(n) \in SUBSET (1 .. n)
      OBVIOUS
    <3> HIDE DEF In
    <3>3. QED
      BY <3>1, <3>2, FS_Subset, FS_CardinalityType
  <2> HIDE DEF In
  <2>2. QED
    BY <2>1
<1>2. In(j) \in SUBSET In(k) /\ j \in Nat
  OBVIOUS
<1> HIDE DEF In
<1>3. Cardinality(In(j)) <= Cardinality(In(k))
  BY <1>1, <1>2, FS_Subset
<1>4. BytesOf(s, k) = k + Cardinality(In(k)) /\ BytesOf(s, j) = j + Cardinality(In(j))
  BY DEF BytesOf, In
<1>5. Cardinality(In(j)) \in Nat /\ Cardinality(In(k)) \in Nat
  BY <1>1, <1>2
<1>6. QED
  BY <1>2, <1>3, <1>4, <1>5

\* Lines that begin alike have as many bytes there.
LEMMA SamePrefix ==
  ASSUME NEW s, NEW u, NEW k \in Nat, \A i \in 1 .. k : s[i] = u[i]
  PROVE  BytesOf(s, k) = BytesOf(u, k)
<1>1. {i \in 1 .. k : s[i] = 2} = {i \in 1 .. k : u[i] = 2}
  OBVIOUS
<1>2. QED
  BY <1>1, Zenon DEF BytesOf

\* Every character of one byte, positions in bytes are positions in characters.
LEMMA OneByte ==
  ASSUME TypeOK, ~ Wide, NEW k \in 0 .. Len(typed)
  PROVE  Bytes(k) = k
<1>1. Len(typed) \in Nat
  BY DEF TypeOK
<1>2. \A i \in 1 .. k : typed[i] = 1
  BY <1>1 DEF Wide
<1>3. {i \in 1 .. k : typed[i] = 2} = {}
  BY <1>2
<1>4. Cardinality({}) = 0
  BY FS_EmptySet
<1>5. k \in Nat
  BY <1>1
<1>6. Bytes(k) = k + 0
  BY <1>3, <1>4 DEF Bytes
<1>7. QED
  BY <1>5, <1>6

Within == cursor <= Bytes(Len(typed))

LEMMA CursorStep ==
  ASSUME ChatAssumption, TypeOK, TypeOK', Within, [Next]_vars
  PROVE  Within'
<1>1. PICK L \in Nat : L = Len(typed)
  BY DEF TypeOK
<1>2. /\ \A k : Bytes(k) = BytesOf(typed, k)
      /\ Bytes(Len(typed))' = BytesOf(typed', Len(typed'))
  BY DEF Bytes, BytesOf
<1>3. cursor \in Nat /\ cursor <= BytesOf(typed, L)
  BY <1>1, <1>2 DEF TypeOK, Within
<1>4. CASE UNCHANGED <<typed, cursor>>
  BY <1>1, <1>2, <1>3, <1>4 DEF Within
<1>5. ASSUME NEW w \in Widths, Type(w) PROVE Within'
  <2>1. CASE Place = {}
    BY <1>4, <1>5, <2>1 DEF Type
  <2>2. CASE Place # {}
    <3>1. PICK k \in Place :
            /\ typed' = SubSeq(typed, 1, k) \o <<w>> \o SubSeq(typed, k + 1, Len(typed))
            /\ cursor' = cursor + 1
      BY <1>5, <2>2 DEF Type
    <3>2. k \in 0 .. L /\ k \in Nat /\ cursor = BytesOf(typed, k)
      BY <1>1, <1>2 DEF Place
    <3>3. \A i \in 1 .. L : typed[i] \in Widths
      BY <1>1 DEF TypeOK
    <3> DEFINE a == SubSeq(typed, 1, k)
               b == SubSeq(typed, k + 1, L)
    <3>4. a \in Seq(Widths) /\ Len(a) = k /\ \A i \in 1 .. k : a[i] = typed[i]
      <4>1. \A i \in 1 .. k : typed[i] \in Widths
        BY <3>2, <3>3
      <4>2. /\ a \in Seq(Widths) /\ Len(a) = IF 1 <= k THEN k - 1 + 1 ELSE 0
            /\ \A i \in 1 .. k - 1 + 1 : a[i] = typed[1 + i - 1]
        BY <3>2, <4>1, SubSeqProperties
      <4>3. QED
        BY <3>2, <4>2
    <3>5. b \in Seq(Widths) /\ Len(b) = L - k
      BY <3>2, <3>3, SubSeqProperties
    <3> HIDE DEF a, b
    <3>6. /\ a \o <<w>> \in Seq(Widths) /\ Len(a \o <<w>>) = k + 1
          /\ \A i \in 1 .. k : (a \o <<w>>)[i] = typed[i]
      <4>1. <<w>> \in Seq(Widths) /\ Len(<<w>>) = 1
        OBVIOUS
      <4>2. /\ a \o <<w>> \in Seq(Widths) /\ Len(a \o <<w>>) = Len(a) + Len(<<w>>)
            /\ \A i \in 1 .. Len(a) + Len(<<w>>) :
                 (a \o <<w>>)[i] = IF i <= Len(a) THEN a[i] ELSE <<w>>[i - Len(a)]
        BY <3>4, <4>1, ConcatProperties
      <4>3. QED
        BY <3>2, <3>4, <4>1, <4>2
    <3> DEFINE c == a \o <<w>>
    <3> HIDE DEF c
    <3>7. typed' = c \o b /\ c \in Seq(Widths) /\ Len(c) = k + 1 /\ \A i \in 1 .. k : c[i] = typed[i]
      BY <1>1, <3>1, <3>6 DEF a, b, c
    <3>8. Len(typed') = L + 1 /\ \A i \in 1 .. k : typed'[i] = typed[i]
      <4>1. /\ Len(c \o b) = Len(c) + Len(b)
            /\ \A i \in 1 .. Len(c) + Len(b) : (c \o b)[i] = IF i <= Len(c) THEN c[i] ELSE b[i - Len(c)]
        BY <3>5, <3>7, ConcatProperties
      <4>2. \A i \in 1 .. k : i \in 1 .. Len(c) + Len(b) /\ i <= Len(c)
        BY <3>2, <3>5, <3>7
      <4>3. QED
        BY <3>2, <3>5, <3>7, <4>1, <4>2
    <3>9. BytesOf(typed', k) = BytesOf(typed, k)
      BY <3>2, <3>8, SamePrefix
    <3>10. k \in 0 .. L + 1 /\ L + 1 \in Nat
      BY <3>2
    <3>11. /\ BytesOf(typed', L + 1) \in Nat
           /\ BytesOf(typed', k) + (L + 1 - k) <= BytesOf(typed', L + 1)
      BY <3>10, BytesAre
    <3>12. cursor + 1 <= BytesOf(typed', L + 1)
      BY <1>3, <3>2, <3>9, <3>11
    <3>13. cursor' <= BytesOf(typed', Len(typed'))
      BY <3>1, <3>8, <3>12
    <3>14. QED
      BY <1>2, <3>13 DEF Within
  <2>3. QED
    BY <2>1, <2>2
<1>6. ASSUME NEW c \in 0 .. 2 * MaxInput, Erase(c) PROVE Within'
  <2>1. c < BytesOf(typed, L) /\ cursor' = c /\ c \in Nat
    BY <1>1, <1>2, <1>6 DEF Erase, ChatAssumption
  <2>2. CASE UNCHANGED typed
    <3>1. L \in 0 .. L
      OBVIOUS
    <3>2. BytesOf(typed, L) \in Nat
      BY <3>1, BytesAre
    <3>3. QED
      BY <1>1, <1>2, <2>1, <2>2, <3>2 DEF Within
  <2>3. ASSUME NEW k \in 1 .. Len(typed), Bytes(k - 1) = c, typed' = Without(typed, k) PROVE Within'
    <3>1. /\ k \in 1 .. L /\ L - 1 \in Nat /\ Len(typed') = L - 1
          /\ \A i \in 1 .. L - 1 : typed'[i] = IF i < k THEN typed[i] ELSE typed[i + 1]
      <4>1. typed \in Seq(Widths)
        BY DEF TypeOK
      <4>2. /\ Len(typed) \in Nat \ {0} /\ Len(Without(typed, k)) = Len(typed) - 1
            /\ \A i \in 1 .. Len(typed) - 1 :
                 Without(typed, k)[i] = IF i < k THEN typed[i] ELSE typed[i + 1]
        BY <2>3, <4>1, WithoutOne, Zenon
      <4>3. QED
        BY <1>1, <2>3, <4>2
    <3>2. k - 1 \in 0 .. L - 1 /\ k - 1 \in Nat /\ \A i \in 1 .. k - 1 : typed'[i] = typed[i]
      BY <3>1
    <3>3. BytesOf(typed', k - 1) = BytesOf(typed, k - 1)
      BY <3>2, SamePrefix
    <3>4. /\ BytesOf(typed', L - 1) \in Nat /\ BytesOf(typed', k - 1) \in Nat
          /\ BytesOf(typed', k - 1) + (L - 1 - (k - 1)) <= BytesOf(typed', L - 1)
      BY <3>1, <3>2, BytesAre
    <3>5. QED
      BY <1>2, <2>1, <2>3, <3>1, <3>2, <3>3, <3>4 DEF Within
  <2>4. QED
    BY <1>6, <2>2, <2>3 DEF Erase
<1>7. ASSUME NEW c \in 0 .. 2 * MaxInput, Move(c) PROVE Within'
  BY <1>1, <1>2, <1>7 DEF Move, Within
<1>8. CASE Enter
  <2>1. typed' = <<>> /\ cursor' = 0 /\ Len(<<>>) = 0 /\ 0 \in 0 .. 0
    BY <1>8 DEF Enter
  <2>2. BytesOf(typed', 0) \in Nat
    BY <2>1, BytesAre
  <2>3. QED
    BY <1>2, <2>1, <2>2 DEF Within
<1>9. CASE SwitchTab \/ Quit \/ Fetch \/ Fetched \/ Receive \/ Thread \/ ServerDies
  BY <1>4, <1>9 DEF SwitchTab, Quit, Fetch, Fetched, Receive, Thread, Post, PostFails,
       ReadEvent, ReadEof, ServerDies, client
<1>10. ASSUME NEW r \in Turns \cup Others, Acquire(r) \/ Goodbye(r) PROVE UNCHANGED <<typed, cursor>>
  BY <1>10 DEF Acquire, Goodbye, client
<1>11. ASSUME NEW t \in Turns, Token(t) \/ EmptyToken(t) \/ GenerationEnds(t) \/ Refuse(t) \/ Emit(t)
       PROVE  UNCHANGED <<typed, cursor>>
  BY <1>11 DEF Token, EmptyToken, GenerationEnds, Refuse, Emit, client
<1>12. ASSUME NEW o \in Others, Arrive(o) \/ Generated(o) \/ Respond(o) \/ Dropped(o)
       PROVE  UNCHANGED <<typed, cursor>>
  BY <1>12 DEF Arrive, Generated, Respond, Dropped, client
<1>13. CASE UNCHANGED vars
  BY <1>4, <1>13 DEF vars, client
<1>14. QED
  BY <1>4, <1>5, <1>6, <1>7, <1>8, <1>9, <1>10, <1>11, <1>12, <1>13 DEF Next, Task, Handler

-----------------------------------------------------------------------------
(* What the chat can rely on. *)

\* A message of the chat is the tokens of its own turn from the first on, in
\* order and without a gap, or the error text: the event streams and tasks of
\* earlier turns, other requests and a server that dies leave no trace in it.
THEOREM MessagesPlaced == ASSUME ChatAssumption PROVE Spec => []Placed
<1>1. Init => ChatInv
  BY ChatInit
<1>2. ChatInv /\ [Next]_vars => ChatInv'
  BY ChatStep
<1>3. ChatInv => Placed
  BY ChatPlaces
<1>4. QED
  BY <1>1, <1>2, <1>3, PTL DEF Spec

\* As long as the server runs, the text of the turn that streams is in the
\* message or on its way to it, between the task, the event stream, the reader
\* thread and the event loop.
THEOREM NothingLost == ASSUME ChatAssumption PROVE Spec => []Whole
<1>1. Init => ChatInv
  BY ChatInit
<1>2. ChatInv /\ [Next]_vars => ChatInv'
  BY ChatStep
<1>3. ChatInv => Whole
  BY ChatWhole
<1>4. QED
  BY <1>1, <1>2, <1>3, PTL DEF Spec

CursorInv == ChatInv /\ Within

LEMMA CursorInit == ASSUME ChatAssumption, Init PROVE CursorInv
<1>1. typed = <<>> /\ cursor = 0 /\ Len(<<>>) = 0 /\ 0 \in 0 .. 0
  BY DEF Init
<1>2. BytesOf(typed, 0) \in Nat
  BY <1>1, BytesAre
<1>3. Bytes(Len(typed)) = BytesOf(typed, 0)
  BY <1>1 DEF Bytes, BytesOf
<1>4. Within
  BY <1>1, <1>2, <1>3 DEF Within
<1>5. QED
  BY <1>4, ChatInit DEF CursorInv

LEMMA CursorNext ==
  ASSUME ChatAssumption, CursorInv, [Next]_vars PROVE CursorInv'
<1>1. ChatInv'
  BY ChatStep DEF CursorInv
<1>2. Within'
  BY <1>1, CursorStep DEF ChatInv, CursorInv
<1>3. QED
  BY <1>1, <1>2 DEF CursorInv

LEMMA CursorPlace == ASSUME CursorInv PROVE CursorFits
<1>1. TypeOK /\ Within /\ Len(typed) \in Nat /\ cursor \in Nat
  BY DEF CursorInv, ChatInv, TypeOK
<1>2. ASSUME ~ Wide PROVE Place # {}
  <2>1. Len(typed) \in 0 .. Len(typed)
    BY <1>1
  <2>2. Bytes(Len(typed)) = Len(typed)
    BY <1>1, <1>2, <2>1, OneByte
  <2>3. cursor \in 0 .. Len(typed)
    BY <1>1, <2>2 DEF Within
  <2>4. Bytes(cursor) = cursor
    BY <1>1, <1>2, <2>3, OneByte
  <2>5. QED
    BY <2>3, <2>4 DEF Place
<1>3. QED
  BY <1>1, <1>2 DEF CursorFits, Within

\* The cursor, which the code keeps as a byte position and moves by one, never
\* leaves the line, whatever is typed, erased and passed over; and it is on a
\* character of it unless one of more than one byte is there.
THEOREM CursorInLine == ASSUME ChatAssumption PROVE Spec => []CursorFits
<1>1. Init => CursorInv
  BY CursorInit
<1>2. CursorInv /\ [Next]_vars => CursorInv'
  BY CursorNext
<1>3. CursorInv => CursorFits
  BY CursorPlace
<1>4. QED
  BY <1>1, <1>2, <1>3, PTL DEF Spec

-----------------------------------------------------------------------------
(* Induction and recursion over 0 .. N.                                    *)

\* Induction, for a set of numbers.
LEMMA AllUpTo ==
  ASSUME NEW N \in Nat, NEW S, 0 \in S, \A n \in 0 .. N : n # 0 /\ n - 1 \in S => n \in S
  PROVE  0 .. N \subseteq S
<1> DEFINE Bad == (0 .. N) \ S
<1>1. SUFFICES ASSUME Bad # {} PROVE FALSE
  OBVIOUS
<1>2. Bad \subseteq Nat
  OBVIOUS
<1>3. PICK x \in Bad : \A y \in Bad : ~ (<<y, x>> \in OpToRel(<, Nat))
  BY <1>1, <1>2, WFMin, NatLessThanWellFounded
<1>4. \A a, b \in Nat : a < b => <<a, b>> \in OpToRel(<, Nat)
  BY DEF OpToRel
<1>5. x \in 0 .. N /\ x # 0
  OBVIOUS
<1>6. x - 1 \in Nat /\ x \in Nat /\ x - 1 < x /\ x - 1 \in 0 .. N
  BY <1>5
<1>7. x - 1 \notin Bad
  BY <1>3, <1>4, <1>6, Zenon
<1>8. x \in S
  BY <1>5, <1>6, <1>7
<1>9. QED
  BY <1>8

Iterates(f, N, S, x, next) ==
  f \in [0 .. N -> S] /\ f[0] = x /\ \A n \in 1 .. N : f[n] = next[<<n, f[n - 1]>>]

\* A recursion over 0 .. N with values in S has a function.
LEMMA Recursion ==
  ASSUME NEW N \in Nat, NEW S, NEW x \in S, NEW next \in [(1 .. N) \X S -> S]
  PROVE  \E f : Iterates(f, N, S, x, next)
<1> DEFINE Upto(f, n) == f[0] = x /\ \A k \in 1 .. n : f[k] = next[<<k, f[k - 1]>>]
           Good == {n \in 0 .. N : \E f \in [0 .. n -> S] : Upto(f, n)}
<1>1. 0 \in Good
  <2> DEFINE c == [i \in 0 .. 0 |-> x]
  <2>1. c \in [0 .. 0 -> S] /\ c[0] = x /\ \A k \in 1 .. 0 : FALSE
    OBVIOUS
  <2>2. Upto(c, 0) /\ 0 \in 0 .. N
    BY <2>1
  <2> HIDE DEF c, Upto
  <2>3. QED
    BY <2>1, <2>2, Zenon
<1>2. ASSUME NEW n \in 0 .. N, n # 0, n - 1 \in Good PROVE n \in Good
  <2>1. PICK f \in [0 .. n - 1 -> S] : Upto(f, n - 1)
    BY <1>2
  <2> DEFINE h == [i \in 0 .. n |-> IF i = n THEN next[<<n, f[n - 1]>>] ELSE f[i]]
  <2>2. f[n - 1] \in S /\ next[<<n, f[n - 1]>>] \in S
    BY <1>2
  <2>3. h \in [0 .. n -> S] /\ h[n] = next[<<n, f[n - 1]>>] /\ \A i \in 0 .. n - 1 : h[i] = f[i]
    <3>1. \A i \in 0 .. n : i # n => i \in 0 .. n - 1
      BY <1>2
    <3>2. \A i \in 0 .. n : (IF i = n THEN next[<<n, f[n - 1]>>] ELSE f[i]) \in S
      BY <2>2, <3>1
    <3>3. n \in 0 .. n /\ \A i \in 0 .. n - 1 : i \in 0 .. n /\ i # n
      BY <1>2
    <3>4. QED
      BY <3>2, <3>3
  <2> HIDE DEF h
  <2>4. h[0] = x
    BY <1>2, <2>1, <2>3
  <2>5. ASSUME NEW k \in 1 .. n PROVE h[k] = next[<<k, h[k - 1]>>]
    <3>1. CASE k = n
      BY <2>3, <3>1
    <3>2. CASE k # n
      <4>1. k \in 1 .. n - 1 /\ k - 1 \in 0 .. n - 1 /\ k \in 0 .. n - 1
        BY <3>2
      <4>2. h[k] = f[k] /\ h[k - 1] = f[k - 1]
        BY <2>3, <4>1
      <4>3. QED
        BY <2>1, <4>1, <4>2
    <3>3. QED
      BY <3>1, <3>2
  <2>6. QED
    BY <2>3, <2>4, <2>5
<1>3. 0 .. N \subseteq Good
  <2> HIDE DEF Good
  <2>1. QED
    BY <1>1, <1>2, AllUpTo
<1>4. N \in Good
  BY <1>3
<1>5. QED
  BY <1>4 DEF Iterates

-----------------------------------------------------------------------------
(* Samples, windows and convolutions.                                      *)

V == 0 .. Prime - 1

LEMMA PrimeIs == ASSUME CodecAssumption PROVE Prime \in Nat \ {0, 1} /\ Samples = Seq(V) /\ 0 \in V /\ 1 \in V
  BY DEF CodecAssumption, Samples, V

\* A remainder is a sample.
LEMMA IsSample == ASSUME CodecAssumption, NEW a \in Nat PROVE a % Prime \in V
<1>1. Prime \in Nat \ {0}
  BY PrimeIs
<1>2. a % Prime \in 0 .. Prime - 1
  BY <1>1
<1>3. QED
  BY <1>2 DEF V

\* A quotient and its remainder.
LEMMA DivIs ==
  ASSUME NEW d \in Nat \ {0}, NEW q \in Int, NEW r \in 0 .. d - 1
  PROVE  (q * d + r) \div d = q /\ (q * d + r) % d = r
  OBVIOUS

LEMMA ZerosIs ==
  ASSUME CodecAssumption, NEW n \in Nat
  PROVE  Zeros(n) \in Samples /\ Len(Zeros(n)) = n
<1>1. 0 \in V
  BY PrimeIs
<1>2. Zeros(n) \in [1 .. n -> V]
  BY <1>1 DEF Zeros
<1>3. QED
  BY <1>2, PrimeIs DEF Zeros

LEMMA WeightedIs ==
  ASSUME CodecAssumption, NEW w \in Samples
  PROVE  Weighted(w) \in V
<1> DEFINE N == Len(w)
           F(f) == [k \in 0 .. N |-> IF k = 0 THEN 1 ELSE (f[k - 1] + (k + 1) * w[k]) % Prime]
           sum == CHOOSE f : f = F(f)
           next == [p \in (1 .. N) \X V |-> (p[2] + (p[1] + 1) * w[p[1]]) % Prime]
<1>0. w \in Seq(V) /\ 1 \in V
  BY PrimeIs
<1>1. N \in Nat /\ DOMAIN w = 1 .. N /\ \A k \in 1 .. N : w[k] \in V
  BY <1>0
<1>2. Weighted(w) = sum[N]
  BY DEF Weighted
<1> HIDE DEF N
<1>3. ASSUME NEW k \in 1 .. N, NEW a \in V PROVE (a + (k + 1) * w[k]) % Prime \in V
  <2>1. w[k] \in Nat /\ a \in Nat /\ k + 1 \in Nat
    BY <1>1, PrimeIs DEF V
  <2>2. (k + 1) * w[k] \in Nat
    BY <2>1
  <2>3. a + (k + 1) * w[k] \in Nat
    BY <2>1, <2>2
  <2>4. QED
    BY <2>3, IsSample
<1>4. next \in [(1 .. N) \X V -> V]
  BY <1>3
<1>5. \A k \in 1 .. N, a \in V : next[<<k, a>>] = (a + (k + 1) * w[k]) % Prime
  OBVIOUS
<1> HIDE DEF next
<1>6. PICK f : Iterates(f, N, V, 1, next)
  BY <1>0, <1>1, <1>4, Recursion, Zenon
<1>7. \A k \in 1 .. N : f[k] = (f[k - 1] + (k + 1) * w[k]) % Prime
  <2>1. \A k \in 1 .. N : f[k - 1] \in V
    BY <1>1, <1>6 DEF Iterates
  <2>2. QED
    BY <1>5, <1>6, <2>1 DEF Iterates
<1>8. f = F(f)
  <2>1. f = [k \in 0 .. N |-> f[k]]
    BY <1>6 DEF Iterates
  <2>2. \A k \in 0 .. N : f[k] = IF k = 0 THEN 1 ELSE (f[k - 1] + (k + 1) * w[k]) % Prime
    <3> TAKE k \in 0 .. N
    <3>1. f[0] = 1
      BY <1>6 DEF Iterates
    <3>2. k # 0 => k \in 1 .. N
      BY <1>1
    <3>3. QED
      BY <1>7, <3>1, <3>2, Zenon
  <2>3. QED
    BY <2>1, <2>2, Zenon
<1>9. sum = F(sum)
  BY <1>8, Zenon
<1> HIDE DEF sum
<1>10. \A k \in 0 .. N : sum[k] = IF k = 0 THEN 1 ELSE (sum[k - 1] + (k + 1) * w[k]) % Prime
  BY <1>9, Zenon
<1> DEFINE Good == {k \in 0 .. N : sum[k] \in V}
<1>11. 0 \in Good
  BY <1>0, <1>1, <1>10
<1>12. ASSUME NEW k \in 0 .. N, k # 0, k - 1 \in Good PROVE k \in Good
  <2>1. k \in 1 .. N /\ sum[k - 1] \in V
    BY <1>12
  <2>2. sum[k] = (sum[k - 1] + (k + 1) * w[k]) % Prime
    BY <1>10, <1>12, Zenon
  <2>3. QED
    BY <1>3, <2>1, <2>2
<1>13. 0 .. N \subseteq Good
  <2> HIDE DEF Good
  <2>1. QED
    BY <1>1, <1>11, <1>12, AllUpTo
<1>14. QED
  BY <1>1, <1>2, <1>13

\* A piece of samples.
LEMMA Piece ==
  ASSUME NEW s \in Samples, NEW m \in 1 .. Len(s) + 1, NEW n \in 0 .. Len(s), m <= n + 1
  PROVE  /\ SubSeq(s, m, n) \in Samples /\ Len(SubSeq(s, m, n)) = n - m + 1
         /\ \A i \in 1 .. n - m + 1 : SubSeq(s, m, n)[i] = s[m + i - 1]
<1>1. s \in Seq(V) /\ Samples = Seq(V)
  BY DEF Samples, V
<1>2. m \in Int /\ n \in Int /\ \A i \in m .. n : s[i] \in V
  BY <1>1
<1>3. /\ SubSeq(s, m, n) \in Seq(V) /\ Len(SubSeq(s, m, n)) = IF m <= n THEN n - m + 1 ELSE 0
      /\ \A i \in 1 .. n - m + 1 : SubSeq(s, m, n)[i] = s[m + i - 1]
  BY <1>2, SubSeqProperties
<1>4. QED
  BY <1>1, <1>3

\* The same pieces of two sequences.
LEMMA SamePiece ==
  ASSUME NEW a \in Samples, NEW z \in Samples, NEW m \in Nat \ {0}, NEW n \in Nat, NEW d \in Nat, m <= n + 1,
         n <= Len(a), d + n <= Len(z), \A i \in m .. n : a[i] = z[d + i]
  PROVE  SubSeq(a, m, n) = SubSeq(z, d + m, d + n)
<1> DEFINE b == SubSeq(a, m, n)
           c == SubSeq(z, d + m, d + n)
<1>1. m \in 1 .. Len(a) + 1 /\ n \in 0 .. Len(a) /\ d + m \in 1 .. Len(z) + 1 /\ d + n \in 0 .. Len(z)
      /\ d + m <= d + n + 1
  BY DEF Samples
<1>2. b \in Samples /\ Len(b) = n - m + 1 /\ \A i \in 1 .. n - m + 1 : b[i] = a[m + i - 1]
  <2> HIDE DEF Samples
  <2>1. QED
    BY <1>1, Piece
<1>3. c \in Samples /\ Len(c) = (d + n) - (d + m) + 1
      /\ \A i \in 1 .. (d + n) - (d + m) + 1 : c[i] = z[d + m + i - 1]
  <2> HIDE DEF Samples
  <2>1. QED
    BY <1>1, Piece
<1> HIDE DEF b, c
<1>4. \A i \in 1 .. n - m + 1 : b[i] = c[i]
  <2> TAKE i \in 1 .. n - m + 1
  <2>1. m + i - 1 \in m .. n /\ i \in 1 .. (d + n) - (d + m) + 1 /\ d + (m + i - 1) = d + m + i - 1
    OBVIOUS
  <2>2. QED
    BY <1>2, <1>3, <2>1
<1>5. Len(b) = Len(c) /\ b \in Seq(V) /\ c \in Seq(V)
  BY <1>2, <1>3 DEF Samples, V
<1>6. b = c
  BY <1>2, <1>4, <1>5, SeqEqual
<1>7. QED
  BY <1>6 DEF b, c

\* A convolution c over n whole steps.
ConvHas(c, z, pad, s, n) ==
  /\ c \in Samples /\ Len(c) = n
  /\ \A t \in 1 .. n : c[t] = Weighted(SubSeq(z, (t - 1) * s + 1, (t - 1) * s + pad + s))

LEMMA ConvIs ==
  ASSUME CodecAssumption, NEW z \in Samples, NEW pad \in Nat, NEW s \in Nat \ {0}, NEW n \in Nat,
         Len(z) = pad + n * s
  PROVE  ConvHas(Conv(z, pad + s, s), z, pad, s, n)
<1>1. n * s \in Nat /\ (n - 1) * s + s = n * s
  OBVIOUS
<1>2. Len(z) - (pad + s) = (n - 1) * s + 0
  BY <1>1
<1>3. ((n - 1) * s + 0) \div s = n - 1
  BY DivIs
<1>4. (Len(z) - (pad + s)) \div s + 1 = n
  BY <1>2, <1>3
<1>5. ASSUME NEW t \in 1 .. n
      PROVE  /\ (t - 1) * s + (pad + s) = (t - 1) * s + pad + s
             /\ SubSeq(z, (t - 1) * s + 1, (t - 1) * s + pad + s) \in Samples
  <2>1. (t - 1) * s \in Nat /\ (t - 1) * s + s = t * s /\ t * s <= n * s
    OBVIOUS
  <2>2. (t - 1) * s + 1 \in 1 .. Len(z) + 1 /\ (t - 1) * s + pad + s \in 0 .. Len(z)
    BY <1>1, <2>1
  <2>3. (t - 1) * s + 1 <= (t - 1) * s + pad + s + 1
    BY <2>1
  <2> HIDE DEF Samples
  <2>4. SubSeq(z, (t - 1) * s + 1, (t - 1) * s + pad + s) \in Samples
    BY <2>2, <2>3, Piece
  <2>5. QED
    BY <2>1, <2>4
<1>6. Conv(z, pad + s, s) = [t \in 1 .. n |-> Weighted(SubSeq(z, (t - 1) * s + 1, (t - 1) * s + pad + s))]
  <2>1. \A t \in 1 .. n : SubSeq(z, (t - 1) * s + 1, (t - 1) * s + (pad + s))
                        = SubSeq(z, (t - 1) * s + 1, (t - 1) * s + pad + s)
    BY <1>5
  <2>2. Conv(z, pad + s, s) = [t \in 1 .. n |-> Weighted(SubSeq(z, (t - 1) * s + 1, (t - 1) * s + (pad + s)))]
    BY <1>4 DEF Conv
  <2>3. QED
    BY <2>1, <2>2
<1>7. \A t \in 1 .. n : Weighted(SubSeq(z, (t - 1) * s + 1, (t - 1) * s + pad + s)) \in V
  BY <1>5, WeightedIs
<1>8. Samples = Seq(V)
  BY PrimeIs
<1> DEFINE c == Conv(z, pad + s, s)
<1>9. c \in [1 .. n -> V]
  BY <1>6, <1>7
<1>10. c \in Samples /\ Len(c) = n
  <2> HIDE DEF c
  <2>1. QED
    BY <1>8, <1>9
<1>11. \A t \in 1 .. n : c[t] = Weighted(SubSeq(z, (t - 1) * s + 1, (t - 1) * s + pad + s))
  BY <1>6
<1> HIDE DEF c
<1>12. ConvHas(c, z, pad, s, n)
  BY <1>10, <1>11 DEF ConvHas
<1>13. QED
  BY <1>12 DEF c

\* The convolution of a sequence is that of its first steps, and that of the rest with
\* as much before it as the window reaches back.
Splits(z, pad, s, q) ==
  Conv(z, pad + s, s) = Conv(SubSeq(z, 1, pad + q * s), pad + s, s)
                        \o Conv(SubSeq(z, q * s + 1, Len(z)), pad + s, s)

LEMMA ConvSplit ==
  ASSUME CodecAssumption, NEW z \in Samples, NEW pad \in Nat, NEW s \in Nat \ {0}, NEW q \in Nat, NEW p \in Nat,
         Len(z) = pad + (q + p) * s
  PROVE  Splits(z, pad, s, q)
<1> DEFINE a == SubSeq(z, 1, pad + q * s)
           b == SubSeq(z, q * s + 1, Len(z))
<1>1. q * s \in Nat /\ p * s \in Nat /\ (q + p) * s = q * s + p * s
  OBVIOUS
<1>2. a \in Samples /\ Len(a) = pad + q * s /\ \A i \in 1 .. pad + q * s : a[i] = z[i]
  <2>1. /\ SubSeq(z, 1, pad + q * s) \in Samples /\ Len(SubSeq(z, 1, pad + q * s)) = pad + q * s - 1 + 1
        /\ \A i \in 1 .. pad + q * s - 1 + 1 : SubSeq(z, 1, pad + q * s)[i] = z[1 + i - 1]
    <3>1. 1 \in 1 .. Len(z) + 1 /\ pad + q * s \in 0 .. Len(z) /\ 1 <= pad + q * s + 1
      BY <1>1
    <3> HIDE DEF Samples
    <3>2. QED
      BY <3>1, Piece
  <2>2. QED
    BY <1>1, <2>1
<1>3. b \in Samples /\ Len(b) = pad + p * s /\ \A i \in 1 .. pad + p * s : b[i] = z[q * s + i]
  <2>1. /\ SubSeq(z, q * s + 1, Len(z)) \in Samples /\ Len(SubSeq(z, q * s + 1, Len(z))) = Len(z) - (q * s + 1) + 1
        /\ \A i \in 1 .. Len(z) - (q * s + 1) + 1 : SubSeq(z, q * s + 1, Len(z))[i] = z[q * s + 1 + i - 1]
    <3>1. q * s + 1 \in 1 .. Len(z) + 1 /\ Len(z) \in 0 .. Len(z) /\ q * s + 1 <= Len(z) + 1
      BY <1>1
    <3> HIDE DEF Samples
    <3>2. QED
      BY <3>1, Piece
  <2>2. QED
    BY <1>1, <2>1
<1> HIDE DEF a, b
<1>4. q + p \in Nat
  OBVIOUS
<1>5. ConvHas(Conv(z, pad + s, s), z, pad, s, q + p)
  BY <1>4, ConvIs
<1>6. ConvHas(Conv(a, pad + s, s), a, pad, s, q)
  BY <1>2, ConvIs
<1>7. ConvHas(Conv(b, pad + s, s), b, pad, s, p)
  BY <1>3, ConvIs
<1>8. ASSUME NEW t \in 1 .. q
      PROVE  SubSeq(a, (t - 1) * s + 1, (t - 1) * s + pad + s) = SubSeq(z, (t - 1) * s + 1, (t - 1) * s + pad + s)
  <2> DEFINE m == (t - 1) * s + 1
             n == (t - 1) * s + pad + s
  <2>1. (t - 1) * s \in Nat /\ (t - 1) * s + s = t * s /\ t * s <= q * s
    OBVIOUS
  <2>2. m \in Nat /\ n \in Nat /\ m >= 1 /\ n <= pad + q * s
    BY <1>1, <2>1
  <2> HIDE DEF m, n
  <2>3. m <= n + 1 /\ n <= Len(a) /\ 0 + n <= Len(z) /\ \A i \in m .. n : a[i] = z[0 + i]
    BY <1>1, <1>2, <2>1, <2>2 DEF m, n
  <2>4. SubSeq(a, m, n) = SubSeq(z, m, n)
    <3>1. SubSeq(a, m, n) = SubSeq(z, 0 + m, 0 + n)
      BY <1>2, <2>2, <2>3, SamePiece
    <3>2. 0 + m = m /\ 0 + n = n
      BY <2>2
    <3>3. QED
      BY <3>1, <3>2
  <2>5. QED
    BY <2>4 DEF m, n
<1>9. ASSUME NEW t \in 1 .. p
      PROVE  SubSeq(b, (t - 1) * s + 1, (t - 1) * s + pad + s)
             = SubSeq(z, (q + t - 1) * s + 1, (q + t - 1) * s + pad + s)
  <2> DEFINE m == (t - 1) * s + 1
             n == (t - 1) * s + pad + s
             d == q * s
  <2>1. (t - 1) * s \in Nat /\ (t - 1) * s + s = t * s /\ t * s <= p * s /\ (q + t - 1) * s = q * s + (t - 1) * s
    OBVIOUS
  <2>2. /\ m \in Nat /\ n \in Nat /\ m >= 1 /\ n <= pad + p * s /\ d \in Nat
        /\ (q + t - 1) * s + 1 = d + m /\ (q + t - 1) * s + pad + s = d + n
    BY <1>1, <2>1
  <2>3. \A i \in 1 .. pad + p * s : b[i] = z[d + i]
    BY <1>3
  <2> HIDE DEF m, n, d
  <2>4. m <= n + 1 /\ n <= Len(b) /\ d + n <= Len(z) /\ \A i \in m .. n : b[i] = z[d + i]
    <3>1. m <= n + 1
      BY DEF m, n
    <3>2. n <= Len(b) /\ d + n <= Len(z)
      BY <1>1, <1>3, <2>2 DEF d
    <3>3. QED
      BY <2>2, <2>3, <3>1, <3>2, <1>1
  <2>5. SubSeq(b, m, n) = SubSeq(z, d + m, d + n)
    BY <1>3, <2>2, <2>4, SamePiece
  <2>6. QED
    BY <2>2, <2>5 DEF m, n
<1> DEFINE C == Conv(z, pad + s, s)
           A == Conv(a, pad + s, s)
           B == Conv(b, pad + s, s)
<1>10. \A t \in 1 .. q : C[t] = A[t]
  <2> TAKE t \in 1 .. q
  <2>1. t \in 1 .. q + p
    OBVIOUS
  <2>2. C[t] = Weighted(SubSeq(z, (t - 1) * s + 1, (t - 1) * s + pad + s))
    BY <1>5, <2>1 DEF ConvHas
  <2>3. A[t] = Weighted(SubSeq(a, (t - 1) * s + 1, (t - 1) * s + pad + s))
    BY <1>6 DEF ConvHas
  <2>4. QED
    BY <1>8, <2>2, <2>3
<1>11. \A t \in 1 .. p : C[q + t] = B[t]
  <2> TAKE t \in 1 .. p
  <2>1. q + t \in 1 .. q + p
    OBVIOUS
  <2>2. C[q + t] = Weighted(SubSeq(z, (q + t - 1) * s + 1, (q + t - 1) * s + pad + s))
    BY <1>5, <2>1 DEF ConvHas
  <2>3. B[t] = Weighted(SubSeq(b, (t - 1) * s + 1, (t - 1) * s + pad + s))
    BY <1>7 DEF ConvHas
  <2>4. QED
    BY <1>9, <2>2, <2>3
<1> HIDE DEF A, B, C
<1>12. C = A \o B
  <2>1. C \in Seq(V) /\ A \in Seq(V) /\ B \in Seq(V) /\ Len(C) = q + p /\ Len(A) = q /\ Len(B) = p
    BY <1>5, <1>6, <1>7, PrimeIs DEF A, B, C, ConvHas
  <2>2. A \o B \in Seq(V) /\ Len(A \o B) = q + p
        /\ \A i \in 1 .. q + p : (A \o B)[i] = IF i <= q THEN A[i] ELSE B[i - q]
    BY <2>1, ConcatProperties
  <2>3. \A i \in 1 .. q + p : C[i] = (A \o B)[i]
    <3> TAKE i \in 1 .. q + p
    <3>1. CASE i <= q
      BY <1>10, <2>2, <3>1
    <3>2. CASE ~ (i <= q)
      <4>1. i - q \in 1 .. p /\ q + (i - q) = i
        BY <3>2
      <4>2. QED
        BY <1>11, <2>2, <3>2, <4>1
    <3>3. QED
      BY <3>1, <3>2
  <2>4. QED
    BY <2>1, <2>2, <2>3, SeqEqual
<1>13. QED
  BY <1>12 DEF A, B, C, a, b, Splits

-----------------------------------------------------------------------------
(* One layer: what it makes of a signal, what it keeps of it.              *)

\* The output for the samples so far,
Causal(x, l) ==
  IF x = <<>> THEN <<>>
  ELSE CASE l.op = "conv"  -> Conv(Zeros(l.pad) \o x, l.kernel, l.stride)
         [] l.op = "up"    -> Trim(ConvTranspose(x, l.stride), l.stride)
         [] l.op = "block" -> Mixed(x, Zeros(l.pad))

\* and what is kept of them: the end of what the layer's window has passed.
Padded(x, l) == Zeros(l.pad) \o (IF l.op = "block" THEN Normed(x) ELSE x)
Memory(x, l) ==
  IF l.op = "up" THEN AtMost(x, l.pad)
  ELSE IF x = <<>> THEN <<>> ELSE From(Padded(x, l), l.pad)

\* A layer takes m samples to n.
Fit(l, m, n) ==
  /\ l.op \in {"conv", "up", "block"} /\ l.stride \in Nat \ {0} /\ l.pad \in Nat
  /\ m \in Nat \ {0} /\ n \in Nat \ {0}
  /\ l.op = "up" => n = m * l.stride /\ l.pad = 2 * l.stride - 1
  /\ l.op # "up" => m = n * l.stride /\ l.kernel = l.pad + l.stride
  /\ l.op = "block" => l.stride = 1 /\ l.pad = Kernel - 1

\* Streaming y after x goes on where the layer stopped.
Grows(st, l, x, y, q, n) ==
  \E out \in Samples :
    /\ StreamLayer(st, l) = Stored(st, Memory(x \o y, l), out)
    /\ Causal(x, l) \in Samples /\ Len(Causal(x, l)) = q * n
    /\ Causal(x \o y, l) = Causal(x, l) \o out /\ Len(out) = n

\* The end of a sequence.
LEMMA FromIs ==
  ASSUME NEW s \in Samples, NEW n \in 0 .. Len(s)
  PROVE  From(s, n) \in Samples /\ Len(From(s, n)) = n /\ \A i \in 1 .. n : From(s, n)[i] = s[Len(s) - n + i]
<1>1. Len(s) - n + 1 \in 1 .. Len(s) + 1 /\ Len(s) \in 0 .. Len(s) /\ Len(s) - n + 1 <= Len(s) + 1
  BY DEF Samples
<1> DEFINE b == SubSeq(s, Len(s) - n + 1, Len(s))
<1>2. b \in Samples /\ Len(b) = Len(s) - (Len(s) - n + 1) + 1
      /\ \A i \in 1 .. Len(s) - (Len(s) - n + 1) + 1 : b[i] = s[Len(s) - n + 1 + i - 1]
  <2> HIDE DEF Samples
  <2>1. QED
    BY <1>1, Piece
<1>3. From(s, n) = b
  BY DEF From
<1> HIDE DEF b
<1>4. Len(s) \in Nat
  BY DEF Samples
<1>5. QED
  BY <1>2, <1>3, <1>4

\* Sequences of samples, one after the other.
LEMMA Joined ==
  ASSUME NEW s \in Samples, NEW t \in Samples
  PROVE  /\ s \o t \in Samples /\ Len(s \o t) = Len(s) + Len(t)
         /\ \A i \in 1 .. Len(s) : (s \o t)[i] = s[i]
         /\ \A i \in 1 .. Len(t) : (s \o t)[Len(s) + i] = t[i]
<1>1. s \in Seq(V) /\ t \in Seq(V) /\ Samples = Seq(V)
  BY DEF Samples, V
<1>2. s \o t \in Seq(V) /\ Len(s \o t) = Len(s) + Len(t)
      /\ \A i \in 1 .. Len(s) + Len(t) : (s \o t)[i] = IF i <= Len(s) THEN s[i] ELSE t[i - Len(s)]
  BY <1>1, ConcatProperties
<1>3. Len(s) \in Nat /\ Len(t) \in Nat
  BY <1>1
<1>4. QED
  BY <1>1, <1>2, <1>3

Associates(s, t, u) == (s \o t) \o u = s \o (t \o u)
LEMMA JoinedThree == ASSUME NEW s \in Samples, NEW t \in Samples, NEW u \in Samples PROVE Associates(s, t, u)
<1>1. s \in Seq(V) /\ t \in Seq(V) /\ u \in Seq(V)
  BY DEF Samples, V
<1>2. QED
  BY <1>1, ConcatAssociative DEF Associates

LEMMA SameSamples ==
  ASSUME NEW s \in Samples, NEW t \in Samples, Len(s) = Len(t), \A i \in 1 .. Len(s) : s[i] = t[i]
  PROVE  s = t
<1>1. s \in Seq(V) /\ t \in Seq(V)
  BY DEF Samples, V
<1>2. QED
  BY <1>1, SeqEqual

\* The end of s with t after it is a piece of s \o t; its end is that of s \o t.
LEMMA FromJoined ==
  ASSUME NEW s \in Samples, NEW t \in Samples, NEW n \in 0 .. Len(s)
  PROVE  /\ From(s, n) \o t = SubSeq(s \o t, Len(s) - n + 1, Len(s \o t))
         /\ From(From(s, n) \o t, n) = From(s \o t, n)
<1> DEFINE e == From(s, n)
           a == e \o t
           z == s \o t
           d == Len(s) - n
<1>1. e \in Samples /\ Len(e) = n /\ \A i \in 1 .. n : e[i] = s[d + i]
  BY FromIs
<1>2. Len(s) \in Nat /\ Len(t) \in Nat /\ d \in Nat /\ n \in Nat
  BY DEF Samples
<1>3. z \in Samples /\ Len(z) = Len(s) + Len(t) /\ (\A i \in 1 .. Len(s) : z[i] = s[i])
      /\ \A i \in 1 .. Len(t) : z[Len(s) + i] = t[i]
  BY Joined
<1> HIDE DEF e, z
<1>4. a \in Samples /\ Len(a) = n + Len(t) /\ (\A i \in 1 .. n : a[i] = e[i])
      /\ \A i \in 1 .. Len(t) : a[n + i] = t[i]
  BY <1>1, Joined
<1>5. ASSUME NEW i \in 1 .. n + Len(t) PROVE a[i] = z[d + i]
  <2>1. CASE i <= n
    <3>1. i \in 1 .. n /\ d + i \in 1 .. Len(s)
      BY <1>2, <2>1
    <3>2. QED
      BY <1>1, <1>3, <1>4, <3>1
  <2>2. CASE ~ (i <= n)
    <3>1. i - n \in 1 .. Len(t) /\ n + (i - n) = i /\ Len(s) + (i - n) = d + i
      BY <1>2, <2>2
    <3>2. a[i] = t[i - n] /\ z[d + i] = t[i - n]
      BY <1>3, <1>4, <3>1
    <3>3. QED
      BY <3>2
  <2>3. QED
    BY <2>1, <2>2
<1> HIDE DEF a
<1> DEFINE b == SubSeq(z, d + 1, Len(z))
<1>6. b \in Samples /\ Len(b) = n + Len(t) /\ \A i \in 1 .. n + Len(t) : b[i] = z[d + i]
  <2>1. d + 1 \in 1 .. Len(z) + 1 /\ Len(z) \in 0 .. Len(z) /\ d + 1 <= Len(z) + 1
    BY <1>2, <1>3
  <2>2. b \in Samples /\ Len(b) = Len(z) - (d + 1) + 1 /\ \A i \in 1 .. Len(z) - (d + 1) + 1 : b[i] = z[d + 1 + i - 1]
    <3> HIDE DEF Samples, d
    <3>1. QED
      BY <1>3, <2>1, Piece
  <2>3. QED
    BY <1>2, <1>3, <2>2
<1>7. a = b
  <2> HIDE DEF b
  <2>1. Len(a) = Len(b) /\ \A i \in 1 .. Len(a) : a[i] = b[i]
    BY <1>4, <1>5, <1>6
  <2>2. QED
    BY <1>4, <1>6, <2>1, SameSamples
<1> DEFINE f == From(a, n)
           g == From(z, n)
<1>8. f \in Samples /\ Len(f) = n /\ \A i \in 1 .. n : f[i] = a[Len(a) - n + i]
  <2>1. n \in 0 .. Len(a)
    BY <1>2, <1>4
  <2>2. QED
    BY <1>4, <2>1, FromIs
<1>9. g \in Samples /\ Len(g) = n /\ \A i \in 1 .. n : g[i] = z[Len(z) - n + i]
  <2>1. n \in 0 .. Len(z)
    BY <1>2, <1>3
  <2>2. QED
    BY <1>3, <2>1, FromIs
<1> HIDE DEF f, g
<1>10. f = g
  <2>1. ASSUME NEW i \in 1 .. n PROVE f[i] = g[i]
    <3>1. Len(t) + i \in 1 .. n + Len(t) /\ Len(a) - n + i = Len(t) + i /\ d + (Len(t) + i) = Len(z) - n + i
      BY <1>2, <1>3, <1>4
    <3>2. a[Len(t) + i] = z[Len(z) - n + i]
      BY <1>5, <3>1
    <3>3. QED
      BY <1>8, <1>9, <3>1, <3>2
  <2>2. QED
    BY <1>8, <1>9, <2>1, SameSamples
<1>11. QED
  BY <1>7, <1>10 DEF a, b, e, f, g, z

\* The context a layer starts from.
LEMMA ContextIs ==
  ASSUME CodecAssumption, NEW st, NEW l, l.pad \in Nat, NEW x \in Samples, Padded(x, l) \in Samples, l.op # "up",
         st.states[st.slot + 1] = Memory(x, l), Padded(<<>>, l) = Zeros(l.pad), l.pad <= Len(Padded(x, l))
  PROVE  Context(st, l) = From(Padded(x, l), l.pad)
<1> DEFINE P == Padded(x, l)
           e == From(P, l.pad)
<1>1. Zeros(l.pad) \in Samples /\ Len(Zeros(l.pad)) = l.pad
  BY ZerosIs
<1>2. l.pad \in 0 .. Len(P)
  BY DEF Samples
<1> HIDE DEF P
<1>3. e \in Samples /\ Len(e) = l.pad /\ \A i \in 1 .. l.pad : e[i] = P[Len(P) - l.pad + i]
  BY <1>2, FromIs DEF P
<1> HIDE DEF e
<1>4. Memory(x, l) = IF x = <<>> THEN <<>> ELSE e
  BY DEF Memory, e, P
<1>5. Context(st, l) = IF Memory(x, l) = <<>> THEN Zeros(l.pad) ELSE Memory(x, l)
  BY DEF Context
<1>6. CASE x = <<>>
  <2>1. P = Zeros(l.pad)
    BY <1>6 DEF P
  <2>2. e = Zeros(l.pad)
    <3>1. \A i \in 1 .. l.pad : e[i] = Zeros(l.pad)[i]
      BY <1>1, <1>3, <2>1
    <3>2. QED
      BY <1>1, <1>3, <3>1, SameSamples
  <2>3. QED
    BY <1>4, <1>5, <1>6, <2>2 DEF e, P
<1>7. CASE x # <<>> /\ e = <<>>
  <2>1. l.pad = 0
    BY <1>3, <1>7
  <2>2. Zeros(l.pad) = e
    <3>1. \A i \in 1 .. Len(e) : Zeros(l.pad)[i] = e[i]
      BY <1>3, <2>1
    <3>2. QED
      BY <1>1, <1>3, <2>1, <3>1, SameSamples
  <2>3. QED
    BY <1>4, <1>5, <1>7, <2>2 DEF e, P
<1>8. CASE x # <<>> /\ e # <<>>
  BY <1>4, <1>5, <1>8 DEF e, P
<1>9. QED
  BY <1>6, <1>7, <1>8

\* A layer that combines a window: the outputs of the old samples stay, those of the new
\* ones are computed from the end of the old and the new.
Windowed(P, y, pad, s, a, n) ==
  /\ Conv(P \o y, pad + s, s) = Conv(P, pad + s, s) \o Conv(From(P, pad) \o y, pad + s, s)
  /\ Conv(P, pad + s, s) \in Samples /\ Len(Conv(P, pad + s, s)) = a
  /\ Conv(From(P, pad) \o y, pad + s, s) \in Samples /\ Len(Conv(From(P, pad) \o y, pad + s, s)) = n

LEMMA WindowGrows ==
  ASSUME CodecAssumption, NEW P \in Samples, NEW y \in Samples, NEW pad \in Nat, NEW s \in Nat \ {0},
         NEW a \in Nat, NEW n \in Nat, Len(P) = pad + a * s, Len(y) = n * s
  PROVE  Windowed(P, y, pad, s, a, n)
<1> DEFINE z == P \o y
           c == From(P, pad) \o y
<1>1. a * s \in Nat /\ n * s \in Nat /\ (a + n) * s = a * s + n * s
  OBVIOUS
<1>2. z \in Samples /\ Len(z) = pad + (a + n) * s /\ \A i \in 1 .. Len(P) : z[i] = P[i]
  <2>1. z \in Samples /\ Len(z) = Len(P) + Len(y) /\ \A i \in 1 .. Len(P) : z[i] = P[i]
    BY Joined
  <2> HIDE DEF z
  <2>2. QED
    BY <1>1, <2>1
<1>3. pad \in 0 .. Len(P)
  BY <1>1
<1>4. c = SubSeq(z, Len(P) - pad + 1, Len(z))
  BY <1>3, FromJoined
<1>5. c = SubSeq(z, a * s + 1, Len(z))
  <2>1. Len(P) - pad + 1 = a * s + 1
    BY <1>1
  <2>2. QED
    BY <1>4, <2>1
<1>6. c \in Samples /\ Len(c) = pad + n * s
  <2>1. From(P, pad) \in Samples /\ Len(From(P, pad)) = pad
    BY <1>3, FromIs
  <2>2. QED
    BY <1>1, <2>1, Joined
<1> HIDE DEF c, z
<1>7. P = SubSeq(z, 1, pad + a * s)
  <2> DEFINE b == SubSeq(z, 1, pad + a * s)
  <2>1. b \in Samples /\ Len(b) = (pad + a * s) - 1 + 1 /\ \A i \in 1 .. (pad + a * s) - 1 + 1 : b[i] = z[1 + i - 1]
    <3>1. 1 \in 1 .. Len(z) + 1 /\ pad + a * s \in 0 .. Len(z) /\ 1 <= pad + a * s + 1
      BY <1>1, <1>2
    <3> HIDE DEF Samples
    <3>2. QED
      BY <1>2, <3>1, Piece, Zenon
  <2> HIDE DEF b
  <2>2. Len(b) = Len(P) /\ \A i \in 1 .. Len(b) : b[i] = P[i]
    BY <1>1, <1>2, <2>1
  <2>3. b = P
    BY <2>1, <2>2, SameSamples
  <2>4. QED
    BY <2>3 DEF b
<1>8. Conv(z, pad + s, s) = Conv(P, pad + s, s) \o Conv(c, pad + s, s)
  <2>1. Splits(z, pad, s, a)
    <3>1. z \in Samples /\ Len(z) = pad + (a + n) * s
      BY <1>2
    <3>2. QED
      BY <3>1, ConvSplit, Zenon
  <2>2. QED
    BY <1>5, <1>7, <2>1 DEF Splits
<1>9. ConvHas(Conv(P, pad + s, s), P, pad, s, a)
  BY ConvIs
<1>10. ConvHas(Conv(c, pad + s, s), c, pad, s, n)
  BY <1>6, ConvIs
<1>11. QED
  BY <1>8, <1>9, <1>10 DEF ConvHas, c, z, Windowed

LEMMA NoneLeft == ASSUME NEW q \in Nat, NEW m \in Nat \ {0}, q * m = 0 PROVE q = 0
<1>1. SUFFICES ASSUME q # 0 PROVE FALSE
  OBVIOUS
<1>2. q - 1 \in Nat /\ q * m = (q - 1) * m + m
  BY <1>1
<1>3. (q - 1) * m \in Nat
  BY <1>2
<1>4. QED
  BY <1>2, <1>3

LEMMA ConvGrows ==
  ASSUME CodecAssumption, NEW l, NEW m, NEW n, Fit(l, m, n), l.op = "conv", NEW x \in Samples, NEW y \in Samples,
         NEW q \in Nat, Len(x) = q * m, Len(y) = m,
         NEW st, st.h = y, st.states[st.slot + 1] = Memory(x, l)
  PROVE  Grows(st, l, x, y, q, n)
<1> DEFINE pad == l.pad
           s == l.stride
           P == Zeros(pad) \o x
           c == From(P, pad) \o y
           out == Conv(c, pad + s, s)
<1>1. /\ pad \in Nat /\ s \in Nat \ {0} /\ m \in Nat \ {0} /\ n \in Nat \ {0} /\ m = n * s /\ l.kernel = pad + s
  BY DEF Fit
<1>2. Zeros(pad) \in Samples /\ Len(Zeros(pad)) = pad
  BY <1>1, ZerosIs
<1>3. P \in Samples /\ Len(P) = pad + (q * n) * s
  <2>1. P \in Samples /\ Len(P) = pad + Len(x)
    BY <1>2, Joined
  <2>2. q * (n * s) = (q * n) * s
    BY <1>1
  <2>3. QED
    BY <1>1, <2>1, <2>2
<1>4. q * n \in Nat
  BY <1>1
<1>5. Padded(x, l) = P /\ Padded(<<>>, l) = Zeros(pad) \o <<>> /\ Padded(x \o y, l) = Zeros(pad) \o (x \o y)
  BY DEF Padded
<1>6. Zeros(pad) \o <<>> = Zeros(pad)
  BY <1>2, ConcatEmptySeq DEF Samples
<1>7. Zeros(pad) \o (x \o y) = P \o y
  <2>1. Associates(Zeros(pad), x, y)
    BY <1>2, JoinedThree
  <2>2. QED
    BY <2>1 DEF Associates
<1>8. Context(st, l) = From(P, pad)
  <2>1. pad <= Len(P)
    BY <1>1, <1>3, <1>4
  <2>2. Padded(x, l) \in Samples /\ l.op # "up" /\ Padded(<<>>, l) = Zeros(l.pad) /\ l.pad <= Len(Padded(x, l)) /\ l.pad \in Nat
    BY <1>1, <1>3, <1>5, <1>6, <2>1
  <2> HIDE DEF P, pad
  <2>3. Context(st, l) = From(Padded(x, l), l.pad)
    BY <2>2, ContextIs
  <2>4. QED
    BY <1>5, <2>3 DEF pad
<1>9. pad \in 0 .. Len(P)
  BY <1>1, <1>3, <1>4
<1>10. c \in Samples /\ Len(c) = pad + m
  <2>1. From(P, pad) \in Samples /\ Len(From(P, pad)) = pad
    BY <1>3, <1>9, FromIs
  <2> DEFINE e == From(P, pad)
  <2> HIDE DEF e, P
  <2>2. e \o y \in Samples /\ Len(e \o y) = Len(e) + Len(y)
    BY <2>1, Joined DEF e
  <2>3. QED
    BY <2>1, <2>2 DEF e
<1>11. AtMost(c, pad) = From(P \o y, pad)
  <2>1. From(c, pad) = From(P \o y, pad)
    BY <1>3, <1>9, FromJoined
  <2>2. Len(c) > pad
    BY <1>1, <1>10
  <2>3. QED
    BY <2>1, <2>2 DEF AtMost
<1>12. x \o y # <<>>
  <2>1. Len(x \o y) = Len(x) + Len(y)
    BY Joined
  <2>2. Len(x) \in Nat /\ Len(y) \in Nat \ {0}
    BY <1>1 DEF Samples
  <2>3. Len(x \o y) # 0
    BY <2>1, <2>2
  <2>4. QED
    BY <2>3
<1>13. Memory(x \o y, l) = From(P \o y, pad)
  BY <1>5, <1>7, <1>12 DEF Memory
<1>14. StreamLayer(st, l) = Stored(st, Memory(x \o y, l), out)
  <2>1. StreamLayer(st, l) = StreamConv(st, l)
    BY DEF StreamLayer
  <2>2. StreamConv(st, l) = Stored(st, AtMost(Context(st, l) \o st.h, l.pad), Conv(Context(st, l) \o st.h, l.kernel, l.stride))
    BY DEF StreamConv
  <2>3. Context(st, l) \o st.h = c
    BY <1>8
  <2>4. QED
    BY <1>1, <1>11, <1>13, <2>1, <2>2, <2>3
<1> HIDE DEF P
<1>15. /\ Conv(P \o y, pad + s, s) = Conv(P, pad + s, s) \o out
       /\ Conv(P, pad + s, s) \in Samples /\ Len(Conv(P, pad + s, s)) = q * n
       /\ out \in Samples /\ Len(out) = n
  <2>1. P \in Samples /\ Len(P) = pad + (q * n) * s /\ q * n \in Nat /\ Len(y) = n * s
    BY <1>1, <1>3, <1>4
  <2>2. pad \in Nat /\ s \in Nat \ {0} /\ n \in Nat
    BY <1>1
  <2> HIDE DEF pad, s
  <2>3. Windowed(P, y, pad, s, q * n, n)
    BY <2>1, <2>2, WindowGrows
  <2>4. QED
    BY <2>3 DEF Windowed
<1>16. Causal(x \o y, l) = Conv(P \o y, pad + s, s)
  BY <1>1, <1>7, <1>12 DEF Causal, P
<1>17. Causal(x, l) = Conv(P, pad + s, s)
  <2>1. CASE x = <<>>
    <3>1. Len(x) = 0
      BY <2>1
    <3>2. q = 0
      BY <1>1, <3>1, NoneLeft
    <3>3. Len(Conv(P, pad + s, s)) = 0
      BY <1>1, <1>15, <3>2
    <3>4. Conv(P, pad + s, s) = <<>>
      BY <1>15, <3>3 DEF Samples
    <3>5. QED
      BY <2>1, <3>4 DEF Causal
  <2>2. CASE x # <<>>
    BY <1>1, <2>2 DEF Causal, P
  <2>3. QED
    BY <2>1, <2>2
<1> HIDE DEF out, pad, s
<1>18. QED
  BY <1>14, <1>15, <1>16, <1>17 DEF Grows

\* A block: norm and network sample by sample, and a window over the normed samples.
LEMMA NormedIs ==
  ASSUME CodecAssumption, NEW x \in Samples
  PROVE  Normed(x) \in Samples /\ Len(Normed(x)) = Len(x) /\ \A k \in 1 .. Len(x) : Normed(x)[k] = (3 * x[k]) % Prime
<1>1. x \in Seq(V) /\ Samples = Seq(V)
  BY PrimeIs
<1>2. DOMAIN x = 1 .. Len(x) /\ Len(x) \in Nat /\ \A k \in 1 .. Len(x) : x[k] \in V
  BY <1>1
<1>3. ASSUME NEW k \in 1 .. Len(x) PROVE (3 * x[k]) % Prime \in V
  <2>1. x[k] \in Nat
    BY <1>2, PrimeIs DEF V
  <2>2. 3 * x[k] \in Nat
    BY <2>1
  <2>3. QED
    BY <2>2, IsSample
<1>4. Normed(x) = [k \in 1 .. Len(x) |-> (3 * x[k]) % Prime]
  BY <1>2 DEF Normed
<1>5. Normed(x) \in [1 .. Len(x) -> V] /\ \A k \in 1 .. Len(x) : Normed(x)[k] = (3 * x[k]) % Prime
  BY <1>3, <1>4
<1>6. Normed(x) \in Seq(V) /\ Len(Normed(x)) = Len(x)
  BY <1>2, <1>5
<1>7. QED
  BY <1>1, <1>5, <1>6

LEMMA NormedJoined ==
  ASSUME CodecAssumption, NEW x \in Samples, NEW y \in Samples
  PROVE  Normed(x \o y) = Normed(x) \o Normed(y)
<1> DEFINE z == x \o y
           a == Normed(x)
           b == Normed(y)
           c == Normed(z)
           d == a \o b
<1>1. z \in Samples /\ Len(z) = Len(x) + Len(y) /\ (\A i \in 1 .. Len(x) : z[i] = x[i])
      /\ \A i \in 1 .. Len(y) : z[Len(x) + i] = y[i]
  BY Joined
<1> HIDE DEF z
<1>2. a \in Samples /\ Len(a) = Len(x) /\ \A k \in 1 .. Len(x) : a[k] = (3 * x[k]) % Prime
  BY NormedIs
<1>3. b \in Samples /\ Len(b) = Len(y) /\ \A k \in 1 .. Len(y) : b[k] = (3 * y[k]) % Prime
  BY NormedIs
<1>4. c \in Samples /\ Len(c) = Len(z) /\ \A k \in 1 .. Len(z) : c[k] = (3 * z[k]) % Prime
  BY <1>1, NormedIs
<1> HIDE DEF a, b, c
<1>5. d \in Samples /\ Len(d) = Len(a) + Len(b) /\ (\A i \in 1 .. Len(a) : d[i] = a[i])
      /\ \A i \in 1 .. Len(b) : d[Len(a) + i] = b[i]
  BY <1>2, <1>3, Joined
<1> HIDE DEF d
<1>6. Len(x) \in Nat /\ Len(y) \in Nat
  BY DEF Samples
<1>7. ASSUME NEW i \in 1 .. Len(z) PROVE c[i] = d[i]
  <2>1. CASE i <= Len(x)
    <3>1. i \in 1 .. Len(x)
      BY <1>6, <2>1, <1>1
    <3>2. QED
      BY <1>1, <1>2, <1>4, <1>5, <3>1
  <2>2. CASE ~ (i <= Len(x))
    <3>1. i - Len(x) \in 1 .. Len(y) /\ Len(x) + (i - Len(x)) = i
      BY <1>6, <2>2, <1>1
    <3>2. c[i] = (3 * z[i]) % Prime /\ z[i] = y[i - Len(x)]
      BY <1>1, <1>4, <3>1
    <3>3. d[i] = b[i - Len(x)] /\ b[i - Len(x)] = (3 * y[i - Len(x)]) % Prime
      BY <1>2, <1>3, <1>5, <3>1
    <3>4. QED
      BY <3>2, <3>3
  <2>3. QED
    BY <2>1, <2>2
<1>8. c = d
  BY <1>1, <1>2, <1>3, <1>4, <1>5, <1>7, SameSamples
<1>9. QED
  BY <1>8 DEF a, b, c, d, z

\* The end of a context and its input.
LEMMA KeptIs ==
  ASSUME CodecAssumption, Kernel \in Nat \ {0}, NEW y \in Samples, NEW P \in Samples, Kernel - 1 <= Len(P)
  PROVE  NextContext(y, From(P, Kernel - 1)) = From(P \o Normed(y), Kernel - 1)
<1> DEFINE n == Kernel - 1
           c == From(P, n)
           h == Normed(y)
           z == P \o h
           e == From(z, n)
<1>1. n \in 0 .. Len(P) /\ n \in Nat /\ Len(P) \in Nat
  BY DEF Samples
<1>2. c \in Samples /\ Len(c) = n /\ \A i \in 1 .. n : c[i] = P[Len(P) - n + i]
  BY <1>1, FromIs
<1>3. h \in Samples /\ Len(h) \in Nat
  <2>1. h \in Samples
    BY NormedIs
  <2> HIDE DEF h
  <2>2. QED
    BY <2>1 DEF Samples
<1> HIDE DEF c, h
<1>4. z \in Samples /\ Len(z) = Len(P) + Len(h) /\ (\A i \in 1 .. Len(P) : z[i] = P[i])
      /\ \A i \in 1 .. Len(h) : z[Len(P) + i] = h[i]
  BY <1>3, Joined
<1> HIDE DEF z
<1>5. e \in Samples /\ Len(e) = n /\ \A i \in 1 .. n : e[i] = z[Len(z) - n + i]
  <2>1. n \in 0 .. Len(z)
    BY <1>1, <1>3, <1>4
  <2>2. QED
    BY <1>4, <2>1, FromIs
<1> HIDE DEF e
<1>6. CASE Len(h) >= n
  <2> DEFINE f == From(h, n)
  <2>1. f \in Samples /\ Len(f) = n /\ \A i \in 1 .. n : f[i] = h[Len(h) - n + i]
    <3>1. n \in 0 .. Len(h)
      BY <1>1, <1>3, <1>6
    <3>2. QED
      BY <1>3, <3>1, FromIs
  <2> HIDE DEF f
  <2>2. ASSUME NEW i \in 1 .. n PROVE f[i] = e[i]
    <3>1. Len(h) - n + i \in 1 .. Len(h) /\ Len(P) + (Len(h) - n + i) = Len(z) - n + i
      BY <1>1, <1>3, <1>4, <1>6
    <3>2. QED
      BY <1>4, <1>5, <2>1, <3>1
  <2>3. f = e
    BY <1>5, <2>1, <2>2, SameSamples
  <2>4. NextContext(y, c) = f
    BY <1>6 DEF NextContext, f, h
  <2>5. QED
    BY <2>3, <2>4 DEF c, e, z, h
<1>7. CASE ~ (Len(h) >= n)
  <2> DEFINE b == SubSeq(c, n - (n - Len(h)) + 1, n)
             f == b \o h
  <2>1. b \in Samples /\ Len(b) = n - Len(h) /\ \A i \in 1 .. n - Len(h) : b[i] = c[Len(h) + i]
    <3>1. n - (n - Len(h)) + 1 = Len(h) + 1 /\ Len(h) + 1 \in 1 .. Len(c) + 1 /\ n \in 0 .. Len(c) /\ Len(h) + 1 <= n + 1
      BY <1>1, <1>2, <1>3, <1>7
    <3>2. b = SubSeq(c, Len(h) + 1, n)
      BY <3>1
    <3> HIDE DEF b
    <3>3. b \in Samples /\ Len(b) = n - (Len(h) + 1) + 1 /\ \A i \in 1 .. n - (Len(h) + 1) + 1 : b[i] = c[Len(h) + 1 + i - 1]
      <4> HIDE DEF Samples, n
      <4>1. QED
        BY <1>2, <3>1, <3>2, Piece
    <3>4. QED
      BY <1>1, <1>3, <3>3
  <2> HIDE DEF b
  <2>2. f \in Samples /\ Len(f) = n - Len(h) + Len(h) /\ (\A i \in 1 .. n - Len(h) : f[i] = b[i])
        /\ \A i \in 1 .. Len(h) : f[n - Len(h) + i] = h[i]
    <3>1. f \in Samples /\ Len(f) = Len(b) + Len(h) /\ (\A i \in 1 .. Len(b) : f[i] = b[i])
          /\ \A i \in 1 .. Len(h) : f[Len(b) + i] = h[i]
      BY <1>3, <2>1, Joined
    <3> HIDE DEF f
    <3>2. QED
      BY <2>1, <3>1
  <2> HIDE DEF f
  <2>3. ASSUME NEW i \in 1 .. n PROVE f[i] = e[i]
    <3>1. CASE i <= n - Len(h)
      <4>1. i \in 1 .. n - Len(h) /\ Len(h) + i \in 1 .. n /\ Len(P) - n + (Len(h) + i) = Len(z) - n + i
            /\ Len(z) - n + i \in 1 .. Len(P)
        BY <1>1, <1>3, <1>4, <1>7, <3>1
      <4>2. f[i] = c[Len(h) + i] /\ c[Len(h) + i] = P[Len(z) - n + i]
        BY <1>2, <2>1, <2>2, <4>1
      <4>3. e[i] = P[Len(z) - n + i]
        BY <1>4, <1>5, <4>1
      <4>4. QED
        BY <4>2, <4>3
    <3>2. CASE ~ (i <= n - Len(h))
      <4>1. i - (n - Len(h)) \in 1 .. Len(h) /\ n - Len(h) + (i - (n - Len(h))) = i
            /\ Len(P) + (i - (n - Len(h))) = Len(z) - n + i
        BY <1>1, <1>3, <1>4, <1>7, <3>2
      <4>2. f[i] = h[i - (n - Len(h))]
        BY <2>2, <4>1
      <4>3. e[i] = h[i - (n - Len(h))]
        BY <1>4, <1>5, <4>1
      <4>4. QED
        BY <4>2, <4>3
    <3>3. QED
      BY <3>1, <3>2
  <2>4. f = e
    <3>1. Len(f) = n
      BY <1>1, <1>3, <2>2
    <3>2. QED
      BY <1>5, <2>2, <2>3, <3>1, SameSamples
  <2>5. NextContext(y, c) = f
    BY <1>7 DEF NextContext, f, b, h
  <2>6. QED
    BY <2>4, <2>5 DEF c, e, z, h
<1>8. QED
  BY <1>6, <1>7

\* A block's output, given what its window gives (h).
Mix(a, b) == ((a + b) * (a + b + 1)) % Prime
MixedAs(r, x, h) == r \in Samples /\ Len(r) = Len(x) /\ \A k \in 1 .. Len(x) : r[k] = Mix(x[k], h[k])

LEMMA MixedIs ==
  ASSUME CodecAssumption, NEW x \in Samples, NEW c, NEW h \in Samples, Len(h) = Len(x), h = Conv(c \o Normed(x), Kernel, 1)
  PROVE  MixedAs(Mixed(x, c), x, h)
<1>1. x \in Seq(V) /\ h \in Seq(V) /\ Samples = Seq(V)
  BY PrimeIs
<1>2. /\ DOMAIN x = 1 .. Len(x) /\ Len(x) \in Nat
      /\ \A k \in 1 .. Len(x) : x[k] \in V /\ h[k] \in V
  BY <1>1
<1>3. ASSUME NEW k \in 1 .. Len(x) PROVE ((x[k] + h[k]) * (x[k] + h[k] + 1)) % Prime \in V
  <2>1. x[k] \in Nat /\ h[k] \in Nat
    BY <1>2, PrimeIs DEF V
  <2>2. (x[k] + h[k]) * (x[k] + h[k] + 1) \in Nat
    BY <2>1
  <2>3. QED
    BY <2>2, IsSample
<1> DEFINE r == Mixed(x, c)
<1>4. r = [k \in 1 .. Len(x) |-> ((x[k] + h[k]) * (x[k] + h[k] + 1)) % Prime]
  BY <1>2 DEF Mixed
<1> HIDE DEF r
<1>5. r \in [1 .. Len(x) -> V] /\ \A k \in 1 .. Len(x) : r[k] = Mix(x[k], h[k])
  BY <1>3, <1>4 DEF Mix
<1>6. r \in Seq(V) /\ Len(r) = Len(x)
  BY <1>2, <1>5
<1>7. QED
  BY <1>1, <1>5, <1>6 DEF MixedAs, r

LEMMA BlockGrows ==
  ASSUME CodecAssumption, NEW l, NEW m, NEW n, Fit(l, m, n), l.op = "block", NEW x \in Samples, NEW y \in Samples,
         NEW q \in Nat, Len(x) = q * m, Len(y) = m,
         NEW st, st.h = y, st.states[st.slot + 1] = Memory(x, l)
  PROVE  Grows(st, l, x, y, q, n)
<1> DEFINE pad == l.pad
           O == Zeros(pad)
           u == Normed(x)
           v == Normed(y)
           P == O \o u
           c == From(P, pad)
           C(z) == Conv(z, pad + 1, 1)
           out == Mixed(y, c)
<1>1. /\ pad \in Nat /\ m \in Nat \ {0} /\ n = m /\ Kernel = pad + 1 /\ Kernel - 1 = pad /\ Kernel \in Nat \ {0} /\ l.stride = 1
  <2>1. /\ pad \in Nat /\ m \in Nat \ {0} /\ n \in Nat \ {0} /\ l.stride = 1 /\ m = n * 1 /\ pad = Kernel - 1
    BY DEF Fit
  <2>2. Kernel \in Nat \ {0}
    BY DEF CodecAssumption
  <2> HIDE DEF pad
  <2>3. QED
    BY <2>1, <2>2
<1>2. O \in Samples /\ Len(O) = pad
  BY <1>1, ZerosIs
<1>3. u \in Samples /\ Len(u) = q * m /\ v \in Samples /\ Len(v) = m
  BY NormedIs
<1>4. Normed(x \o y) = u \o v
  BY NormedJoined
<1>5. q * m \in Nat /\ q * m * 1 = q * m /\ m * 1 = m
  BY <1>1
<1> HIDE DEF O, u, v, pad
<1>6. P \in Samples /\ Len(P) = pad + q * m
  <2>1. P \in Samples /\ Len(P) = Len(O) + Len(u)
    BY <1>2, <1>3, Joined
  <2> HIDE DEF P
  <2>2. QED
    BY <1>2, <1>3, <2>1
<1>7. O \o (u \o v) = P \o v
  BY <1>2, <1>3, JoinedThree DEF Associates
<1>8. O \o <<>> = O
  BY <1>2, ConcatEmptySeq DEF Samples
<1>9. Padded(x, l) = P /\ Padded(<<>>, l) = O /\ Padded(x \o y, l) = P \o v
  <2>1. Normed(<<>>) = <<>>
    BY DEF Normed
  <2>2. Padded(<<>>, l) = O
    BY <1>8, <2>1 DEF Padded, O, pad
  <2>3. QED
    BY <1>4, <1>7, <2>2 DEF Padded, O, pad, u
<1>10. Context(st, l) = c
  <2>1. pad <= Len(P)
    BY <1>1, <1>5, <1>6
  <2>2. Padded(x, l) \in Samples /\ l.op # "up" /\ Padded(<<>>, l) = Zeros(l.pad) /\ l.pad <= Len(Padded(x, l)) /\ l.pad \in Nat
    BY <1>1, <1>6, <1>9, <2>1 DEF O, pad
  <2> HIDE DEF P
  <2>3. Context(st, l) = From(Padded(x, l), l.pad)
    BY <2>2, ContextIs
  <2>4. QED
    BY <1>9, <2>3 DEF pad
<1>11. x \o y # <<>>
  <2>1. Len(x \o y) = Len(x) + Len(y)
    BY Joined
  <2>2. Len(x) \in Nat /\ Len(y) \in Nat \ {0}
    BY <1>1 DEF Samples
  <2>3. Len(x \o y) # 0
    BY <2>1, <2>2
  <2>4. QED
    BY <2>3
<1>12. NextContext(y, c) = Memory(x \o y, l)
  <2>1. Kernel - 1 <= Len(P)
    BY <1>1, <1>5, <1>6
  <2> HIDE DEF P
  <2>2. NextContext(y, From(P, Kernel - 1)) = From(P \o Normed(y), Kernel - 1)
    BY <1>1, <1>6, <2>1, KeptIs
  <2>3. Memory(x \o y, l) = From(P \o v, pad)
    BY <1>9, <1>11 DEF Memory, pad
  <2>4. QED
    BY <1>1, <2>2, <2>3 DEF v
<1>13. StreamLayer(st, l) = Stored(st, Memory(x \o y, l), out)
  <2>1. StreamLayer(st, l) = StreamBlock(st, l)
    BY DEF StreamLayer
  <2>2. StreamBlock(st, l) = Stored(st, NextContext(y, Context(st, l)), Mixed(y, Context(st, l)))
    BY DEF StreamBlock
  <2>3. QED
    BY <1>10, <1>12, <2>1, <2>2
<1> HIDE DEF P, c
<1>14. /\ C(P \o v) = C(P) \o C(c \o v)
       /\ C(P) \in Samples /\ Len(C(P)) = q * m
       /\ C(c \o v) \in Samples /\ Len(C(c \o v)) = m
  <2>1. Len(P) = pad + (q * m) * 1 /\ Len(v) = m * 1
    BY <1>1, <1>3, <1>5, <1>6
  <2>2. Windowed(P, v, pad, 1, q * m, m)
    BY <1>1, <1>3, <1>5, <1>6, <2>1, WindowGrows
  <2>3. QED
    BY <2>2 DEF Windowed, c
<1> DEFINE a == C(P)
           b == C(c \o v)
           X == Mixed(x, O)
           Z == Mixed(x \o y, O)
           z == x \o y
           h == a \o b
<1>15. MixedAs(X, x, a)
  <2>1. a = Conv(O \o Normed(x), Kernel, 1)
    BY <1>1 DEF P, u
  <2>2. Len(a) = Len(x) /\ a \in Samples
    BY <1>14
  <2> HIDE DEF a
  <2>3. QED
    BY <2>1, <2>2, MixedIs
<1>16. MixedAs(out, y, b)
  <2>1. b = Conv(c \o Normed(y), Kernel, 1)
    BY <1>1 DEF v
  <2>2. Len(b) = Len(y) /\ b \in Samples
    BY <1>14
  <2> HIDE DEF b
  <2>3. QED
    BY <2>1, <2>2, MixedIs
<1>17. z \in Samples /\ Len(z) = Len(x) + Len(y) /\ (\A i \in 1 .. Len(x) : z[i] = x[i])
       /\ \A i \in 1 .. Len(y) : z[Len(x) + i] = y[i]
  BY Joined
<1>18. h \in Samples /\ Len(h) = Len(a) + Len(b) /\ (\A i \in 1 .. Len(a) : h[i] = a[i])
       /\ \A i \in 1 .. Len(b) : h[Len(a) + i] = b[i]
  <2> HIDE DEF a, b
  <2>1. QED
    BY <1>14, Joined DEF a, b
<1>19. MixedAs(Z, z, h)
  <2>1. h = Conv(O \o Normed(z), Kernel, 1)
    BY <1>1, <1>4, <1>7, <1>14
  <2>2. Len(h) = Len(z)
    BY <1>14, <1>17, <1>18
  <2> HIDE DEF h, z
  <2>3. MixedAs(Mixed(z, O), z, h)
    BY <1>17, <1>18, <2>1, <2>2, MixedIs
  <2>4. QED
    BY <2>3 DEF z
<1>20. Causal(z, l) = Z
  BY <1>11 DEF Causal, O, pad
<1>21. Causal(x, l) = X
  <2>1. CASE x = <<>>
    <3>1. Len(X) = 0 /\ X \in Samples
      BY <1>15, <2>1 DEF MixedAs
    <3>2. X = <<>>
      <4> HIDE DEF X
      <4>1. QED
        BY <3>1 DEF Samples
    <3>3. QED
      BY <2>1, <3>2 DEF Causal
  <2>2. CASE x # <<>>
    BY <2>2 DEF Causal, O, pad
  <2>3. QED
    BY <2>1, <2>2
<1>22. Len(a) = Len(x) /\ Len(b) = Len(y)
  BY <1>14
<1> HIDE DEF a, b, h, z, X, Z, out
<1> DEFINE W == X \o out
<1>23. W \in Samples /\ Len(W) = Len(X) + Len(out) /\ (\A i \in 1 .. Len(X) : W[i] = X[i])
       /\ \A i \in 1 .. Len(out) : W[Len(X) + i] = out[i]
  BY <1>15, <1>16, Joined DEF MixedAs
<1> HIDE DEF W
<1>24. Z = W
  <2>1. Len(x) \in Nat /\ Len(y) \in Nat
    BY DEF Samples
  <2>2. Len(Z) = Len(x) + Len(y) /\ Len(W) = Len(x) + Len(y) /\ Z \in Samples
    BY <1>15, <1>16, <1>17, <1>19, <1>23 DEF MixedAs
  <2>3. ASSUME NEW i \in 1 .. Len(x) + Len(y) PROVE Z[i] = W[i]
    <3>1. Z[i] = Mix(z[i], h[i])
      BY <1>17, <1>19 DEF MixedAs
    <3>2. CASE i <= Len(x)
      <4>1. i \in 1 .. Len(x)
        BY <2>1, <3>2
      <4>2. z[i] = x[i] /\ h[i] = a[i] /\ W[i] = X[i]
        BY <1>15, <1>17, <1>18, <1>22, <1>23, <4>1 DEF MixedAs
      <4>3. X[i] = Mix(x[i], a[i])
        BY <1>15, <4>1 DEF MixedAs
      <4>4. QED
        BY <3>1, <4>2, <4>3
    <3>3. CASE ~ (i <= Len(x))
      <4>1. i - Len(x) \in 1 .. Len(y) /\ Len(x) + (i - Len(x)) = i
        BY <2>1, <3>3
      <4>2. z[i] = y[i - Len(x)] /\ h[i] = b[i - Len(x)]
        BY <1>17, <1>18, <1>22, <4>1
      <4>3. W[i] = out[i - Len(x)]
        BY <1>15, <1>16, <1>23, <4>1 DEF MixedAs
      <4>4. out[i - Len(x)] = Mix(y[i - Len(x)], b[i - Len(x)])
        BY <1>16, <4>1 DEF MixedAs
      <4>5. QED
        BY <3>1, <4>2, <4>3, <4>4
    <3>4. QED
      BY <3>2, <3>3
  <2>4. QED
    BY <1>23, <2>2, <2>3, SameSamples
<1>25. out \in Samples /\ Len(out) = n /\ X \in Samples /\ Len(X) = q * n
  BY <1>1, <1>15, <1>16 DEF MixedAs
<1>26. QED
  BY <1>13, <1>20, <1>21, <1>24, <1>25 DEF Grows, W, z

\* A transposed convolution, trimmed: r samples for each.
Up(x, i, k, r) == (1 + Tap(x, i, k) + Tap(x, i - 1, k + r)) % Prime
UpHas(u, x, r, n) ==
  /\ u \in Samples /\ Len(u) = n * r
  /\ \A i \in 1 .. n, k \in 0 .. r - 1 : u[(i - 1) * r + k + 1] = Up(x, i, k, r)

PlaceOf(t, r, n) ==
  /\ (t - 1) \div r + 1 \in 1 .. n /\ (t - 1) % r \in 0 .. r - 1
  /\ t = (((t - 1) \div r + 1) - 1) * r + ((t - 1) % r) + 1
LEMMA Places == ASSUME NEW r \in Nat \ {0}, NEW n \in Nat, NEW t \in 1 .. n * r PROVE PlaceOf(t, r, n)
<1> DEFINE i == (t - 1) \div r
           k == (t - 1) % r
<1>1. i \in Int /\ k \in 0 .. r - 1 /\ t - 1 = r * i + k
  BY SMT
<1> HIDE DEF i, k
<1>2. r * i = i * r
  BY <1>1
<1>3. i >= 0
  <2>1. SUFFICES ASSUME i <= -1 PROVE FALSE
    BY <1>1
  <2>2. i * r <= (-1) * r
    BY <1>1, <2>1
  <2>3. QED
    BY <1>1, <1>2, <2>2
<1>4. i < n
  <2>1. SUFFICES ASSUME n <= i PROVE FALSE
    BY <1>1
  <2>2. n * r <= i * r
    BY <1>1, <2>1
  <2>3. n * r \in Nat
    OBVIOUS
  <2>4. QED
    BY <1>1, <1>2, <2>2, <2>3
<1>5. i + 1 \in 1 .. n /\ k \in 0 .. r - 1 /\ t = ((i + 1) - 1) * r + k + 1
  BY <1>1, <1>2, <1>3, <1>4
<1>6. QED
  BY <1>5, Zenon DEF i, k, PlaceOf

LEMMA OneBefore == ASSUME NEW d \in Nat, NEW i \in Nat \ {0} PROVE i - 1 \in Nat /\ (d + i) - 1 = d + (i - 1)
  OBVIOUS

LEMMA TapIs == ASSUME CodecAssumption, NEW x \in Samples, NEW i \in Int, NEW k \in Nat PROVE Tap(x, i, k) \in Nat
<1>1. \A j \in DOMAIN x : x[j] \in Nat
  BY PrimeIs DEF V
<1>2. CASE i \in DOMAIN x
  <2>1. x[i] \in Nat
    BY <1>1, <1>2
  <2>2. (k + 2) * x[i] \in Nat
    BY <2>1
  <2>3. QED
    BY <1>2, <2>2 DEF Tap
<1>3. CASE i \notin DOMAIN x
  BY <1>3 DEF Tap
<1>4. QED
  BY <1>2, <1>3

LEMMA UpIs ==
  ASSUME CodecAssumption, NEW x \in Samples, NEW r \in Nat \ {0}, NEW n \in Nat \ {0}, Len(x) = n
  PROVE  UpHas(Trim(ConvTranspose(x, r), r), x, r, n)
<1> DEFINE c == ConvTranspose(x, r)
           u == SubSeq(c, 1, n * r)
<1>1. n * r \in Nat /\ (n + 1) * r = n * r + r /\ n * r >= r
  <2>1. (n - 1) * r \in Nat /\ n * r = (n - 1) * r + r
    OBVIOUS
  <2>2. QED
    BY <2>1
<1>2. c = [t \in 1 .. (n + 1) * r |-> Up(x, (t - 1) \div r + 1, (t - 1) % r, r)]
  BY DEF ConvTranspose, Up
<1> HIDE DEF c
<1>3. ASSUME NEW t \in 1 .. (n + 1) * r
      PROVE  Up(x, (t - 1) \div r + 1, (t - 1) % r, r) \in V
  <2> DEFINE i == (t - 1) \div r + 1
             k == (t - 1) % r
  <2>1. i \in 1 .. n + 1 /\ k \in 0 .. r - 1
    <3>1. n + 1 \in Nat
      OBVIOUS
    <3>2. PlaceOf(t, r, n + 1)
      BY <3>1, Places
    <3>3. QED
      BY <3>2, Zenon DEF PlaceOf
  <2> HIDE DEF i, k
  <2>2. i \in Int /\ i - 1 \in Int /\ k \in Nat /\ k + r \in Nat
    BY <2>1
  <2>3. Tap(x, i, k) \in Nat /\ Tap(x, i - 1, k + r) \in Nat
    BY <2>2, TapIs
  <2>4. 1 + Tap(x, i, k) + Tap(x, i - 1, k + r) \in Nat
    BY <2>3
  <2>5. Up(x, i, k, r) \in V
    BY <2>4, IsSample DEF Up
  <2>6. QED
    BY <2>5 DEF i, k
<1>4. c \in [1 .. (n + 1) * r -> V]
  BY <1>2, <1>3, Zenon
<1>5. (n + 1) * r \in Nat
  BY <1>1
<1>6. c \in Samples /\ Len(c) = (n + 1) * r
  BY <1>4, <1>5, PrimeIs
<1>7. Trim(c, r) = u
  <2>1. r > 0 /\ Len(c) > r /\ Len(c) - r = n * r
    BY <1>1, <1>6
  <2>2. QED
    BY <2>1 DEF Trim
<1>8. u \in Samples /\ Len(u) = n * r /\ \A t \in 1 .. n * r : u[t] = c[t]
  <2>1. 1 \in 1 .. Len(c) + 1 /\ n * r \in 0 .. Len(c) /\ 1 <= n * r + 1
    BY <1>1, <1>6
  <2>2. u \in Samples /\ Len(u) = n * r - 1 + 1 /\ \A t \in 1 .. n * r - 1 + 1 : u[t] = c[1 + t - 1]
    <3> HIDE DEF Samples
    <3>1. QED
      BY <1>6, <2>1, Piece
  <2> HIDE DEF u
  <2>3. QED
    BY <1>1, <2>2
<1> HIDE DEF u
<1>9. ASSUME NEW i \in 1 .. n, NEW k \in 0 .. r - 1 PROVE u[(i - 1) * r + k + 1] = Up(x, i, k, r)
  <2> DEFINE t == (i - 1) * r + k + 1
  <2>1. (i - 1) * r \in Nat /\ (i - 1) * r + r = i * r /\ i * r <= n * r
    OBVIOUS
  <2>2. t \in 1 .. n * r /\ t \in 1 .. (n + 1) * r
    BY <1>1, <2>1
  <2>3. (t - 1) \div r + 1 = i /\ (t - 1) % r = k
    <3>1. t - 1 = (i - 1) * r + k
      BY <2>1
    <3>2. ((i - 1) * r + k) \div r = i - 1 /\ ((i - 1) * r + k) % r = k
      BY DivIs
    <3> HIDE DEF t
    <3>3. QED
      BY <3>1, <3>2
  <2> HIDE DEF t
  <2>4. c[t] = Up(x, (t - 1) \div r + 1, (t - 1) % r, r)
    BY <1>2, <2>2
  <2>5. QED
    BY <1>8, <2>2, <2>3, <2>4 DEF t
<1>10. QED
  BY <1>7, <1>8, <1>9 DEF UpHas, c

\* Upsampling the end of x with y after it: past the samples of that end it is the end
\* of the upsampling of all.
LEMMA UpGrows ==
  ASSUME CodecAssumption, NEW l, NEW m, NEW n, Fit(l, m, n), l.op = "up", NEW x \in Samples, NEW y \in Samples,
         NEW q \in Nat, Len(x) = q * m, Len(y) = m,
         NEW st, st.h = y, st.states[st.slot + 1] = Memory(x, l)
  PROVE  Grows(st, l, x, y, q, n)
<1> DEFINE pad == l.pad
           r == l.stride
           a == q * m
           z == x \o y
           e == AtMost(x, pad)
           full == e \o y
           F == Trim(ConvTranspose(full, r), r)
           X == Trim(ConvTranspose(x, r), r)
           Z == Trim(ConvTranspose(z, r), r)
           out == IF e = <<>> THEN F ELSE From(F, m * r)
<1>1. /\ pad \in Nat /\ r \in Nat \ {0} /\ m \in Nat \ {0} /\ n \in Nat \ {0} /\ n = m * r /\ pad >= 1
      /\ a \in Nat
  BY DEF Fit
<1>2. Len(x) = a /\ z \in Samples /\ Len(z) = a + m /\ (\A i \in 1 .. a : z[i] = x[i])
      /\ \A i \in 1 .. m : z[a + i] = y[i]
  <2>1. z \in Samples /\ Len(z) = Len(x) + Len(y) /\ (\A i \in 1 .. Len(x) : z[i] = x[i])
        /\ \A i \in 1 .. Len(y) : z[Len(x) + i] = y[i]
    BY Joined
  <2> HIDE DEF z
  <2>2. Len(x) = a
    OBVIOUS
  <2> HIDE DEF a
  <2>3. QED
    BY <2>1, <2>2
<1> DEFINE d == IF a > pad THEN pad ELSE a
<1>3. /\ d \in Nat /\ d <= a /\ e \in Samples /\ Len(e) = d /\ \A i \in 1 .. d : e[i] = x[a - d + i]
      /\ d = 0 => a = 0
  <2>1. CASE a > pad
    <3>1. pad \in 0 .. Len(x) /\ e = From(x, pad)
      BY <1>1, <1>2, <2>1 DEF AtMost
    <3>2. From(x, pad) \in Samples /\ Len(From(x, pad)) = pad /\ \A i \in 1 .. pad : From(x, pad)[i] = x[Len(x) - pad + i]
      BY <3>1, FromIs
    <3>3. d = pad /\ Len(x) = a
      BY <2>1
    <3> HIDE DEF e, a, pad, d, r
    <3>4. e \in Samples /\ Len(e) = d /\ \A i \in 1 .. d : e[i] = x[a - d + i]
      BY <3>1, <3>2, <3>3, Zenon
    <3>5. d \in Nat /\ d <= a /\ d # 0
      BY <1>1, <2>1, <3>3
    <3>6. QED
      BY <3>4, <3>5
  <2>2. CASE ~ (a > pad)
    <3>1. e = x
      BY <1>2, <2>2 DEF AtMost
    <3> HIDE DEF e, a, pad
    <3>2. QED
      BY <1>1, <1>2, <2>2, <3>1
  <2>3. QED
    BY <2>1, <2>2
<1> HIDE DEF e, z
<1>4. full \in Samples /\ Len(full) = d + m /\ (\A i \in 1 .. d : full[i] = e[i])
      /\ \A i \in 1 .. m : full[d + i] = y[i]
  <2> HIDE DEF d, a
  <2>1. full \in Samples /\ Len(full) = Len(e) + Len(y) /\ (\A i \in 1 .. Len(e) : full[i] = e[i])
        /\ \A i \in 1 .. Len(y) : full[Len(e) + i] = y[i]
    BY <1>3, Joined
  <2> HIDE DEF full
  <2>2. QED
    BY <1>3, <2>1
<1>5. AtMost(full, pad) = Memory(z, l)
  <2>1. Memory(z, l) = AtMost(z, pad)
    BY DEF Memory
  <2>2. CASE a > pad
    <3>1. e = From(x, pad) /\ pad \in 0 .. Len(x)
      BY <1>1, <1>2, <2>2 DEF AtMost, e
    <3>2. From(full, pad) = From(z, pad)
      BY <3>1, FromJoined DEF z
    <3>3. Len(full) > pad /\ Len(z) > pad
      <4>1. d = pad
        BY <2>2
      <4> HIDE DEF full, d, a
      <4>2. QED
        BY <1>1, <1>2, <1>4, <2>2, <4>1
    <3>4. QED
      BY <2>1, <3>2, <3>3 DEF AtMost
  <2>3. CASE ~ (a > pad)
    <3>1. e = x
      BY <1>2, <2>3 DEF AtMost, e
    <3>2. QED
      BY <2>1, <3>1 DEF z
  <2>4. QED
    BY <2>2, <2>3
<1> HIDE DEF full, d, a, pad, r, F, X, Z
<1>6. UpHas(F, full, r, d + m)
  <2>1. d + m \in Nat \ {0}
    BY <1>1, <1>3
  <2>2. QED
    BY <1>1, <1>4, <2>1, UpIs DEF F
<1>7. UpHas(Z, z, r, a + m)
  <2>1. a + m \in Nat \ {0}
    BY <1>1
  <2>2. QED
    BY <1>1, <1>2, <2>1, UpIs DEF Z
<1>8. StreamLayer(st, l) = Stored(st, Memory(z, l), out)
  <2>1. StreamLayer(st, l) = StreamUp(st, l)
    BY DEF StreamLayer
  <2>2. Memory(x, l) = e
    BY DEF Memory, e, pad
  <2>3. StreamUp(st, l) = Stored(st, AtMost(full, pad), out)
    BY <2>2 DEF StreamUp, full, F, pad, r
  <2>4. QED
    BY <1>5, <2>1, <2>3
\* The new samples.
<1>9. ASSUME NEW i \in 1 .. m, NEW k \in 0 .. r - 1 PROVE Up(full, d + i, k, r) = Up(z, a + i, k, r)
  <2>1. ASSUME NEW j \in 0 .. m, j = 0 => d > 0, NEW kk PROVE Tap(full, d + j, kk) = Tap(z, a + j, kk)
    <3>1. d + j \in DOMAIN full /\ a + j \in DOMAIN z
      <4>1. DOMAIN full = 1 .. d + m /\ DOMAIN z = 1 .. a + m
        BY <1>2, <1>4 DEF Samples
      <4>2. QED
        BY <1>1, <1>3, <2>1, <4>1
    <3>2. full[d + j] = z[a + j]
      <4>1. CASE j = 0
        <5>1. d \in 1 .. d /\ a - d + d = a /\ a \in 1 .. a /\ d + j = d /\ a + j = a
          BY <1>1, <1>3, <2>1, <4>1
        <5>2. full[d] = e[d] /\ e[d] = x[a] /\ z[a] = x[a]
          BY <1>2, <1>3, <1>4, <5>1
        <5>3. QED
          BY <5>1, <5>2
      <4>2. CASE j # 0
        <5>1. j \in 1 .. m
          BY <4>2
        <5>2. QED
          BY <1>2, <1>4, <5>1
      <4>3. QED
        BY <4>1, <4>2
    <3>3. QED
      BY <3>1, <3>2 DEF Tap
  <2>2. Tap(full, d + i, k) = Tap(z, a + i, k)
    <3>1. i \in 0 .. m /\ i # 0
      OBVIOUS
    <3>2. QED
      BY <2>1, <3>1
  <2>3. Tap(full, (d + i) - 1, k + r) = Tap(z, (a + i) - 1, k + r)
    <3>1. CASE i - 1 = 0 /\ d = 0
      <4>1. (d + i) - 1 = 0 /\ (a + i) - 1 = 0
        BY <1>1, <1>3, <3>1
      <4>2. 0 \notin DOMAIN full /\ 0 \notin DOMAIN z
        BY <1>2, <1>4 DEF Samples
      <4>3. QED
        BY <4>1, <4>2 DEF Tap
    <3>2. CASE ~ (i - 1 = 0 /\ d = 0)
      <4>1. i - 1 \in 0 .. m /\ (i - 1 = 0 => d > 0) /\ d + (i - 1) = (d + i) - 1 /\ a + (i - 1) = (a + i) - 1
        BY <1>1, <1>3, <3>2
      <4>2. Tap(full, d + (i - 1), k + r) = Tap(z, a + (i - 1), k + r)
        BY <2>1, <4>1
      <4>3. QED
        BY <4>1, <4>2
    <3>3. QED
      BY <3>1, <3>2
  <2>4. QED
    BY <2>2, <2>3, Zenon DEF Up
<1>10. /\ m * r \in Nat /\ d * r \in Nat /\ a * r \in Nat
       /\ (d + m) * r = d * r + m * r /\ (a + m) * r = a * r + m * r
  BY <1>1, <1>3
<1>11. /\ F \in Samples /\ Len(F) = d * r + m * r
       /\ Z \in Samples /\ Len(Z) = a * r + m * r
  BY <1>6, <1>7, <1>10 DEF UpHas
<1>12. ASSUME NEW t \in 1 .. m * r PROVE F[d * r + t] = Z[a * r + t]
  <2> DEFINE i == (t - 1) \div r + 1
             k == (t - 1) % r
  <2>1. i \in 1 .. m /\ k \in 0 .. r - 1 /\ t = (i - 1) * r + k + 1
    <3>1. PlaceOf(t, r, m)
      BY <1>1, Places
    <3>2. QED
      BY <3>1, Zenon DEF PlaceOf
  <2> HIDE DEF i, k
  <2>2. ((d + i) - 1) * r = d * r + (i - 1) * r /\ ((a + i) - 1) * r = a * r + (i - 1) * r /\ (i - 1) * r \in Nat
    <3>1. i - 1 \in Nat /\ (d + i) - 1 = d + (i - 1) /\ (a + i) - 1 = a + (i - 1) /\ r \in Nat /\ d \in Nat /\ a \in Nat
      <4>1. i \in Nat \ {0} /\ r \in Nat /\ d \in Nat /\ a \in Nat
        BY <1>1, <1>3, <2>1
      <4>2. QED
        BY <4>1, OneBefore
    <3> DEFINE j == i - 1
    <3> HIDE DEF j
    <3>2. (d + j) * r = d * r + j * r /\ (a + j) * r = a * r + j * r /\ j * r \in Nat
      BY <3>1 DEF j
    <3>3. QED
      BY <3>1, <3>2 DEF j
  <2>3. d * r + t = ((d + i) - 1) * r + k + 1 /\ a * r + t = ((a + i) - 1) * r + k + 1
    BY <1>10, <2>1, <2>2
  <2>4. d + i \in 1 .. d + m /\ a + i \in 1 .. a + m
    BY <1>1, <1>3, <2>1
  <2>5. F[((d + i) - 1) * r + k + 1] = Up(full, d + i, k, r)
    BY <1>6, <2>1, <2>4, Zenon DEF UpHas
  <2>6. Z[((a + i) - 1) * r + k + 1] = Up(z, a + i, k, r)
    BY <1>7, <2>1, <2>4, Zenon DEF UpHas
  <2>7. QED
    BY <1>9, <2>1, <2>3, <2>5, <2>6
<1>13. out \in Samples /\ Len(out) = m * r /\ \A t \in 1 .. m * r : out[t] = Z[a * r + t]
  <2>1. CASE e = <<>>
    <3>1. d = 0 /\ a = 0
      BY <1>3, <2>1
    <3>2. d * r = 0
      BY <1>1, <3>1
    <3>3. \A t \in 1 .. m * r : d * r + t = t
      BY <3>2
    <3>4. Len(F) = m * r
      BY <1>10, <1>11, <3>2
    <3>5. \A t \in 1 .. m * r : F[t] = Z[a * r + t]
      BY <1>12, <3>3
    <3>6. out = F
      BY <2>1
    <3> HIDE DEF out
    <3>7. QED
      BY <1>11, <3>4, <3>5, <3>6
  <2>2. CASE e # <<>>
    <3>1. m * r \in 0 .. Len(F)
      BY <1>10, <1>11
    <3> DEFINE g == From(F, m * r)
    <3>2. g \in Samples /\ Len(g) = m * r /\ \A t \in 1 .. m * r : g[t] = F[Len(F) - m * r + t]
      BY <1>11, <3>1, FromIs
    <3> HIDE DEF g
    <3>3. \A t \in 1 .. m * r : Len(F) - m * r + t = d * r + t
      BY <1>10, <1>11
    <3>4. \A t \in 1 .. m * r : g[t] = Z[a * r + t]
      BY <1>12, <3>2, <3>3
    <3>5. out = g
      BY <2>2 DEF g
    <3> HIDE DEF out
    <3>6. QED
      BY <3>2, <3>4, <3>5
  <2>3. QED
    BY <2>1, <2>2
<1> HIDE DEF out
\* The old ones.
<1> DEFINE Y == Causal(x, l)
<1>14. Y \in Samples /\ Len(Y) = a * r /\ \A t \in 1 .. a * r : Y[t] = Z[t]
  <2>1. CASE x = <<>>
    <3>1. Y = <<>> /\ a = 0
      BY <1>2, <2>1 DEF Causal
    <3>2. a * r = 0
      BY <1>1, <3>1
    <3>3. <<>> \in Samples /\ Len(<<>>) = 0
      BY DEF Samples
    <3> HIDE DEF Y
    <3>4. QED
      BY <3>1, <3>2, <3>3
  <2>2. CASE x # <<>>
    <3>1. Y = X
      BY <2>2 DEF Causal, X, r
    <3>2. a \in Nat \ {0}
      BY <1>1, <1>2, <2>2 DEF Samples
    <3>3. UpHas(X, x, r, a)
      BY <1>1, <1>2, <3>2, UpIs DEF X
    <3>4. ASSUME NEW i \in 1 .. a, NEW k \in 0 .. r - 1 PROVE Up(x, i, k, r) = Up(z, i, k, r)
      <4>1. DOMAIN x = 1 .. a /\ DOMAIN z = 1 .. a + m
        BY <1>2 DEF Samples
      <4>2. ASSUME NEW j \in 0 .. a, NEW kk PROVE Tap(x, j, kk) = Tap(z, j, kk)
        <5>1. CASE j = 0
          <6>1. j \notin DOMAIN x /\ j \notin DOMAIN z
            BY <4>1, <5>1
          <6>2. QED
            BY <6>1 DEF Tap
        <5>2. CASE j # 0
          <6>1. j \in DOMAIN x /\ j \in DOMAIN z /\ z[j] = x[j]
            BY <1>1, <1>2, <4>1, <5>2
          <6>2. QED
            BY <6>1 DEF Tap
        <5>3. QED
          BY <5>1, <5>2
      <4>3. i \in 0 .. a /\ i - 1 \in 0 .. a
        BY <1>1
      <4>4. Tap(x, i, k) = Tap(z, i, k) /\ Tap(x, i - 1, k + r) = Tap(z, i - 1, k + r)
        BY <4>2, <4>3
      <4>5. QED
        BY <4>4 DEF Up
    <3>5. ASSUME NEW t \in 1 .. a * r PROVE X[t] = Z[t]
      <4> DEFINE i == (t - 1) \div r + 1
                 k == (t - 1) % r
      <4>1. i \in 1 .. a /\ k \in 0 .. r - 1 /\ t = (i - 1) * r + k + 1
        <5>1. PlaceOf(t, r, a)
          BY <1>1, Places
        <5>2. QED
          BY <5>1, Zenon DEF PlaceOf
      <4> HIDE DEF i, k
      <4>2. i \in 1 .. a + m
        BY <1>1, <4>1
      <4>3. X[t] = Up(x, i, k, r)
        BY <3>3, <4>1 DEF UpHas
      <4>4. Z[t] = Up(z, i, k, r)
        BY <1>7, <4>1, <4>2 DEF UpHas
      <4>5. QED
        BY <3>4, <4>1, <4>3, <4>4
    <3> HIDE DEF Y
    <3>6. QED
      BY <3>1, <3>3, <3>5 DEF UpHas
  <2>3. QED
    BY <2>1, <2>2
<1> HIDE DEF Y
<1> DEFINE W == Y \o out
<1>15. W \in Samples /\ Len(W) = a * r + m * r /\ (\A t \in 1 .. a * r : W[t] = Y[t])
       /\ \A t \in 1 .. m * r : W[a * r + t] = out[t]
  <2>1. W \in Samples /\ Len(W) = Len(Y) + Len(out) /\ (\A t \in 1 .. Len(Y) : W[t] = Y[t])
        /\ \A t \in 1 .. Len(out) : W[Len(Y) + t] = out[t]
    BY <1>13, <1>14, Joined
  <2> HIDE DEF W
  <2>2. QED
    BY <1>13, <1>14, <2>1
<1> HIDE DEF W
<1>16. Z = W
  <2>1. ASSUME NEW t \in 1 .. Len(Z) PROVE Z[t] = W[t]
    <3>1. CASE t <= a * r
      <4>1. t \in 1 .. a * r
        BY <1>10, <3>1
      <4>2. QED
        BY <1>14, <1>15, <4>1
    <3>2. CASE ~ (t <= a * r)
      <4>1. t - a * r \in 1 .. m * r /\ a * r + (t - a * r) = t
        BY <1>10, <1>11, <3>2
      <4>2. W[t] = out[t - a * r] /\ out[t - a * r] = Z[t]
        BY <1>13, <1>15, <4>1
      <4>3. QED
        BY <4>2
    <3>3. QED
      BY <3>1, <3>2
  <2>2. QED
    BY <1>11, <1>15, <2>1, SameSamples
<1>17. Causal(z, l) = Z
  <2>1. z # <<>>
    BY <1>1, <1>2
  <2>2. QED
    BY <2>1 DEF Causal, Z, r
<1>18. Len(Y) = q * n
  <2>1. a * r = q * (m * r)
    BY <1>1 DEF a
  <2>2. QED
    BY <1>1, <1>14, <2>1
<1>19. QED
  BY <1>1, <1>8, <1>13, <1>14, <1>16, <1>17, <1>18 DEF Grows, W, Y, z

LEMMA LayerGrows ==
  ASSUME CodecAssumption, NEW l, NEW m, NEW n, Fit(l, m, n), NEW x \in Samples, NEW y \in Samples,
         NEW q \in Nat, Len(x) = q * m, Len(y) = m,
         NEW st, st.h = y, st.states[st.slot + 1] = Memory(x, l)
  PROVE  Grows(st, l, x, y, q, n)
<1>1. l.op \in {"conv", "up", "block"}
  BY DEF Fit
<1>2. CASE l.op = "conv"
  BY <1>2, ConvGrows
<1>3. CASE l.op = "up"
  BY <1>3, UpGrows
<1>4. CASE l.op = "block"
  BY <1>4, BlockGrows
<1>5. QED
  BY <1>1, <1>2, <1>3, <1>4

-----------------------------------------------------------------------------
(* A network: the layers, one after the other.                             *)

\* Sequences that go on from the same samples to the same differ in nothing else.
LEMMA Cancel ==
  ASSUME NEW x \in Samples, NEW y \in Samples, NEW z \in Samples, x \o y = x \o z, Len(y) = Len(z)
  PROVE  y = z
<1>1. \A i \in 1 .. Len(y) : (x \o y)[Len(x) + i] = y[i]
  BY Joined
<1>2. \A i \in 1 .. Len(z) : (x \o z)[Len(x) + i] = z[i]
  BY Joined
<1>3. \A i \in 1 .. Len(y) : y[i] = z[i]
  BY <1>1, <1>2
<1>4. QED
  BY <1>3, SameSamples

\* A network whose layers fit: w[k] samples of it after layer k for w[0] at its start.
Fits(layers, w) ==
  /\ Len(layers) \in Nat /\ w \in [0 .. Len(layers) -> Nat \ {0}]
  /\ \A k \in 1 .. Len(layers) : Fit(layers[k], w[k - 1], w[k])

\* The signals (f) between the layers, for q times w[0] samples (x) at its start.
Through(f, layers, w, x, q) ==
  /\ f \in [0 .. Len(layers) -> Samples] /\ f[0] = x
  /\ \A k \in 1 .. Len(layers) : f[k] = Causal(f[k - 1], layers[k])
  /\ \A k \in 0 .. Len(layers) : Len(f[k]) = q * w[k]

Memories(f, layers) == [k \in 1 .. Len(layers) |-> Memory(f[k - 1], layers[k])]

\* Streaming y through the network after x has been: the signals go on, each with what the
\* layer makes of y.
Goes(f, g, layers, w, y, q, states) ==
  /\ Through(g, layers, w, f[0] \o y, q + 1)
  /\ \E h \in Samples :
       /\ g[Len(layers)] = f[Len(layers)] \o h /\ Len(h) = w[Len(layers)]
       /\ Streamed(layers, states, y) = [h |-> h, states |-> Memories(g, layers), slot |-> Len(layers)]

LEMMA NetworkGrows ==
  ASSUME CodecAssumption, NEW layers, NEW w, Fits(layers, w), NEW x, NEW q \in Nat, NEW f, Through(f, layers, w, x, q),
         NEW y \in Samples, Len(y) = w[0]
  PROVE  \E g : Goes(f, g, layers, w, y, q, Memories(f, layers))
<1> DEFINE N == Len(layers)
           L == layers
           states == Memories(f, L)
           made(k, s) == IF Causal(s, L[k]) \in Samples THEN Causal(s, L[k]) ELSE <<>>
           next == [p \in (1 .. N) \X Samples |-> made(p[1], p[2])]
<1>1. /\ N \in Nat /\ w \in [0 .. N -> Nat \ {0}] /\ \A k \in 1 .. N : Fit(L[k], w[k - 1], w[k])
  BY DEF Fits
<1>2. /\ f \in [0 .. N -> Samples] /\ f[0] = x /\ (\A k \in 1 .. N : f[k] = Causal(f[k - 1], L[k]))
      /\ \A k \in 0 .. N : Len(f[k]) = q * w[k]
  BY DEF Through
<1>3. 0 \in 0 .. N /\ N \in 0 .. N /\ \A k \in 1 .. N : k - 1 \in 0 .. N /\ k \in 0 .. N
  BY <1>1
<1>4. x \o y \in Samples
  <2>1. x \in Samples
    BY <1>2, <1>3
  <2>2. QED
    BY <2>1, Joined
<1> HIDE DEF N, L
<1>5. next \in [(1 .. N) \X Samples -> Samples]
  <2>1. <<>> \in Samples
    BY DEF Samples
  <2>2. \A k \in 1 .. N, s \in Samples : made(k, s) \in Samples
    BY <2>1, Zenon
  <2> HIDE DEF made, Samples
  <2>3. QED
    BY <2>2
<1>6. \A k \in 1 .. N, s \in Samples : next[<<k, s>>] = made(k, s)
  <2> HIDE DEF made, Samples
  <2>1. QED
    OBVIOUS
<1> HIDE DEF next
<1>7. PICK g : Iterates(g, N, Samples, x \o y, next)
  BY <1>1, <1>4, <1>5, Recursion, Zenon
<1>8. g \in [0 .. N -> Samples] /\ g[0] = x \o y /\ \A k \in 1 .. N : g[k] = made(k, g[k - 1])
  <2>1. g \in [0 .. N -> Samples] /\ g[0] = x \o y /\ \A k \in 1 .. N : g[k] = next[<<k, g[k - 1]>>]
    BY <1>7, Zenon DEF Iterates
  <2>2. \A k \in 1 .. N : next[<<k, g[k - 1]>>] = made(k, g[k - 1])
    <3> HIDE DEF made, Samples
    <3>1. \A k \in 1 .. N : g[k - 1] \in Samples
      BY <1>3, <2>1
    <3>2. QED
      BY <1>6, <3>1, Zenon
  <2> HIDE DEF made
  <2>3. QED
    BY <2>1, <2>2, Zenon
\* Each signal goes on.
<1> DEFINE On(k, h) == g[k] = f[k] \o h /\ Len(h) = w[k]
           H == [k \in 0 .. N |-> CHOOSE h \in Samples : On(k, h)]
           S(k) == [j \in 1 .. N |-> IF j <= k THEN Memory(g[j - 1], L[j]) ELSE states[j]]
           at(k) == [h |-> H[k], states |-> S(k), slot |-> k]
           Good == {k \in 0 .. N : \E h \in Samples : On(k, h)}
<1>9. \A k \in Good : H[k] \in Samples /\ On(k, H[k])
  <2> HIDE DEF On, Samples
  <2> TAKE k \in Good
  <2>1. k \in 0 .. N /\ \E h \in Samples : On(k, h)
    OBVIOUS
  <2>2. H[k] = CHOOSE h \in Samples : On(k, h)
    BY <2>1
  <2> HIDE DEF H
  <2>3. QED
    BY <2>1, <2>2, Zenon
<1>10. \A k \in Good, h \in Samples : On(k, h) => h = H[k]
  <2> HIDE DEF H
  <2> TAKE k \in Good, h \in Samples
  <2>1. SUFFICES ASSUME On(k, h) PROVE h = H[k]
    OBVIOUS
  <2>2. H[k] \in Samples /\ On(k, H[k])
    BY <1>9
  <2>3. k \in 0 .. N
    OBVIOUS
  <2>4. f[k] \in Samples
    BY <1>2, <2>3
  <2>5. f[k] \o h = f[k] \o H[k] /\ Len(h) = Len(H[k])
    BY <2>1, <2>2
  <2>6. QED
    BY <2>2, <2>4, <2>5, Cancel
<1>11. 0 \in Good
  <2>1. On(0, y)
    BY <1>2, <1>8
  <2> HIDE DEF On
  <2>2. QED
    BY <1>3, <2>1
<1> HIDE DEF H
<1>12. ASSUME NEW k \in 1 .. N, k - 1 \in Good
       PROVE  /\ k \in Good /\ at(k) = StreamLayer(at(k - 1), L[k]) /\ g[k] = Causal(g[k - 1], L[k])
  <2> DEFINE st == at(k - 1)
             u == f[k - 1]
             v == H[k - 1]
  <2>1. v \in Samples /\ g[k - 1] = u \o v /\ Len(v) = w[k - 1]
    <3> HIDE DEF Good
    <3>1. QED
      BY <1>9, <1>12
  <2>2. u \in Samples /\ Len(u) = q * w[k - 1]
    BY <1>2, <1>3
  <2>3. st.h = v /\ st.states = S(k - 1) /\ st.slot = k - 1
    <3> HIDE DEF S
    <3>1. QED
      OBVIOUS
  <2>4. st.slot + 1 = k
    BY <2>3
  <2>5. st.states[st.slot + 1] = Memory(u, L[k])
    <3>1. ~ (k <= k - 1)
      OBVIOUS
    <3>2. S(k - 1)[k] = states[k]
      BY <3>1
    <3>3. states[k] = Memory(u, L[k])
      BY DEF Memories, N, L
    <3> HIDE DEF st, S, u
    <3>4. QED
      BY <2>3, <2>4, <3>2, <3>3
  <2> HIDE DEF st, u, v
  <2>6. Grows(st, L[k], u, v, q, w[k])
    <3>1. Fit(L[k], w[k - 1], w[k])
      BY <1>1
    <3>2. QED
      BY <2>1, <2>2, <2>3, <2>5, <3>1, LayerGrows, Zenon
  <2>7. PICK out \in Samples :
          /\ StreamLayer(st, L[k]) = Stored(st, Memory(g[k - 1], L[k]), out)
          /\ Causal(u, L[k]) \in Samples
          /\ Causal(g[k - 1], L[k]) = Causal(u, L[k]) \o out /\ Len(out) = w[k]
    BY <2>1, <2>6, Zenon DEF Grows
  <2>8. Causal(u, L[k]) = f[k]
    BY <1>2 DEF u
  <2>9. g[k] = Causal(g[k - 1], L[k])
    <3>1. Causal(g[k - 1], L[k]) \in Samples
      <4>1. Causal(u, L[k]) \o out \in Samples
        BY <2>7, Joined
      <4>2. QED
        BY <2>7, <4>1
    <3>2. g[k] = made(k, g[k - 1])
      BY <1>8
    <3>3. QED
      BY <3>1, <3>2, Zenon
  <2>10. On(k, out)
    BY <2>7, <2>8, <2>9
  <2>11. k \in Good
    <3> HIDE DEF On
    <3>1. QED
      BY <1>3, <2>10
  <2>12. out = H[k]
    <3> HIDE DEF On, Good
    <3>1. QED
      BY <1>10, <2>10, <2>11
  <2>13. [S(k - 1) EXCEPT ![k] = Memory(g[k - 1], L[k])] = S(k)
    <3> DEFINE T == [S(k - 1) EXCEPT ![k] = Memory(g[k - 1], L[k])]
    <3>1. T = [j \in 1 .. N |-> IF j = k THEN Memory(g[k - 1], L[k]) ELSE S(k - 1)[j]]
      <4> DEFINE s == S(k - 1)
      <4>1. s = [j \in 1 .. N |-> s[j]]
        OBVIOUS
      <4> HIDE DEF s
      <4>2. [s EXCEPT ![k] = Memory(g[k - 1], L[k])] = [j \in 1 .. N |-> IF j = k THEN Memory(g[k - 1], L[k]) ELSE s[j]]
        BY <4>1
      <4>3. QED
        BY <4>2 DEF s
    <3>2. ASSUME NEW j \in 1 .. N
          PROVE  (IF j = k THEN Memory(g[k - 1], L[k]) ELSE S(k - 1)[j]) = IF j <= k THEN Memory(g[j - 1], L[j]) ELSE states[j]
      <4>1. S(k - 1)[j] = IF j <= k - 1 THEN Memory(g[j - 1], L[j]) ELSE states[j]
        OBVIOUS
      <4>2. j # k => ((j <= k - 1) <=> (j <= k))
        BY <1>1
      <4> HIDE DEF S, states
      <4>3. QED
        BY <4>1, <4>2
    <3> HIDE DEF T
    <3>3. QED
      BY <3>1, <3>2, Zenon DEF T
  <2>14. Stored(st, Memory(g[k - 1], L[k]), H[k]) = at(k)
    <3> HIDE DEF S
    <3>1. QED
      BY <2>3, <2>4, <2>13 DEF Stored
  <2>15. at(k) = StreamLayer(st, L[k])
    <3> HIDE DEF at
    <3>1. QED
      BY <2>7, <2>12, <2>14
  <2>16. QED
    BY <2>9, <2>11, <2>15, Zenon DEF st
<1>13. 0 .. N \subseteq Good
  <2> HIDE DEF Good, at
  <2>1. ASSUME NEW k \in 0 .. N, k # 0, k - 1 \in Good PROVE k \in Good
    <3>1. k \in 1 .. N
      BY <1>1, <2>1
    <3>2. QED
      BY <1>12, <2>1, <3>1
  <2>2. QED
    BY <1>1, <1>11, <2>1, AllUpTo
<1>14. /\ H[0] = y
       /\ \A k \in 1 .. N : at(k) = StreamLayer(at(k - 1), L[k]) /\ g[k] = Causal(g[k - 1], L[k])
       /\ \A k \in 0 .. N : H[k] \in Samples /\ g[k] = f[k] \o H[k] /\ Len(H[k]) = w[k]
  <2> HIDE DEF Good, at
  <2>1. On(0, y)
    BY <1>2, <1>8
  <2>2. H[0] = y
    <3> HIDE DEF On
    <3>1. QED
      BY <1>10, <1>11, <2>1
  <2>3. \A k \in 0 .. N : H[k] \in Samples /\ On(k, H[k])
    <3> HIDE DEF On
    <3>1. QED
      BY <1>9, <1>13
  <2>4. \A k \in 1 .. N : at(k) = StreamLayer(at(k - 1), L[k]) /\ g[k] = Causal(g[k - 1], L[k])
    BY <1>3, <1>12, <1>13
  <2>5. QED
    BY <2>2, <2>3, <2>4, Zenon
<1>15. Through(g, layers, w, f[0] \o y, q + 1)
  <2>1. ASSUME NEW k \in 0 .. N PROVE Len(g[k]) = (q + 1) * w[k]
    <3>1. f[k] \in Samples /\ Len(f[k]) = q * w[k] /\ w[k] \in Nat
      BY <1>1, <1>2
    <3>2. H[k] \in Samples /\ g[k] = f[k] \o H[k] /\ Len(H[k]) = w[k]
      <4> HIDE DEF at
      <4>1. QED
        BY <1>14
    <3>3. Len(f[k] \o H[k]) = Len(f[k]) + Len(H[k])
      BY <3>1, <3>2, Joined
    <3>4. (q + 1) * w[k] = q * w[k] + w[k]
      BY <3>1
    <3>5. QED
      BY <3>1, <3>2, <3>3, <3>4
  <2>2. \A k \in 1 .. N : g[k] = Causal(g[k - 1], L[k])
    <3> HIDE DEF at
    <3>1. QED
      BY <1>14
  <2>3. g \in [0 .. N -> Samples] /\ g[0] = f[0] \o y
    <3> HIDE DEF made
    <3>1. QED
      BY <1>2, <1>8
  <2>4. QED
    BY <2>1, <2>2, <2>3, Zenon DEF Through, N, L
<1>16. Streamed(layers, states, y) = at(N)
  <2> DEFINE F(a) == [k \in 0 .. N |-> IF k = 0 THEN [h |-> y, states |-> states, slot |-> 0] ELSE StreamLayer(a[k - 1], L[k])]
             after == CHOOSE a : a = F(a)
             e == [k \in 0 .. N |-> at(k)]
  <2>1. Streamed(layers, states, y) = after[N]
    BY DEF Streamed, N, L
  <2>2. at(0) = [h |-> y, states |-> states, slot |-> 0]
    <3>1. S(0) = states
      <4>1. states = [j \in 1 .. N |-> states[j]]
        BY DEF Memories, N, L
      <4> HIDE DEF states
      <4>2. \A j \in 1 .. N : ~ (j <= 0)
        BY <1>1
      <4>3. S(0) = [j \in 1 .. N |-> states[j]]
        BY <4>2
      <4>4. QED
        BY <4>1, <4>3, Zenon
    <3> HIDE DEF S, states
    <3>2. H[0] = y
      BY <1>14, Zenon
    <3>3. QED
      BY <3>1, <3>2
  <2> HIDE DEF states
  <2>3. \A k \in 1 .. N : at(k) = StreamLayer(at(k - 1), L[k])
    BY <1>14, Zenon
  <2> HIDE DEF at
  <2>4. e = F(e)
    <3>1. \A k \in 0 .. N : at(k) = IF k = 0 THEN [h |-> y, states |-> states, slot |-> 0] ELSE StreamLayer(e[k - 1], L[k])
      <4> TAKE k \in 0 .. N
      <4>1. CASE k = 0
        BY <2>2, <4>1
      <4>2. CASE k # 0
        <5>1. k \in 1 .. N /\ k - 1 \in 0 .. N
          BY <1>1, <4>2
        <5>2. e[k - 1] = at(k - 1)
          BY <5>1
        <5>3. QED
          BY <2>3, <4>2, <5>1, <5>2, Zenon
      <4>3. QED
        BY <4>1, <4>2
    <3>2. QED
      BY <3>1, Zenon
  <2>5. after = F(after)
    <3> HIDE DEF e
    <3>1. QED
      BY <2>4, Zenon
  <2> HIDE DEF after
  <2> DEFINE Same == {k \in 0 .. N : after[k] = at(k)}
  <2>6. \A k \in 0 .. N : after[k] = IF k = 0 THEN [h |-> y, states |-> states, slot |-> 0] ELSE StreamLayer(after[k - 1], L[k])
    BY <2>5, Zenon
  <2>7. 0 \in Same
    <3>1. after[0] = at(0)
      BY <1>3, <2>2, <2>6, Zenon
    <3>2. QED
      BY <1>3, <3>1
  <2>8. ASSUME NEW k \in 0 .. N, k # 0, k - 1 \in Same PROVE k \in Same
    <3>1. k \in 1 .. N
      BY <1>1, <2>8
    <3>2. after[k - 1] = at(k - 1)
      BY <2>8
    <3>3. after[k] = StreamLayer(after[k - 1], L[k])
      BY <2>6, <2>8, Zenon
    <3>4. after[k] = at(k)
      BY <2>3, <3>1, <3>2, <3>3, Zenon
    <3>5. QED
      BY <3>4
  <2>9. 0 .. N \subseteq Same
    <3> HIDE DEF Same
    <3>1. QED
      BY <1>1, <2>7, <2>8, AllUpTo
  <2>10. after[N] = at(N)
    BY <1>3, <2>9
  <2>11. QED
    BY <2>1, <2>10
<1>17. S(N) = Memories(g, layers)
  <2>1. \A j \in 1 .. N : j <= N
    BY <1>1
  <2>2. S(N) = [j \in 1 .. N |-> Memory(g[j - 1], L[j])]
    <3> HIDE DEF states
    <3>1. QED
      BY <2>1
  <2>3. QED
    BY <2>2 DEF Memories, N, L
<1>18. H[N] \in Samples /\ g[N] = f[N] \o H[N] /\ Len(H[N]) = w[N]
  <2> HIDE DEF at
  <2>1. QED
    BY <1>3, <1>14
<1>19. Streamed(layers, states, y) = [h |-> H[N], states |-> Memories(g, layers), slot |-> N]
  <2> HIDE DEF S, states
  <2>1. QED
    BY <1>16, <1>17
<1>20. Goes(f, g, layers, w, y, q, states)
  <2> HIDE DEF states
  <2>1. QED
    BY <1>15, <1>18, <1>19 DEF Goes, N
<1>21. QED
  BY <1>20, Zenon DEF L

-----------------------------------------------------------------------------
(* The decoder and the encoder.                                            *)

\* Layers that take a signal from rate p[0] to p[1], and so on.
Rates(rated, p) ==
  /\ Len(rated) \in Nat /\ DOMAIN rated = 1 .. Len(rated) /\ p \in [0 .. Len(rated) -> Nat \ {0}]
  /\ \A j \in 1 .. Len(rated) : Fit(rated[j], p[j - 1], p[j])

\* The stage of layer k, the last that changes the rate up to it, and the rate after it.
StageOf(k) == IF k = 0 THEN 0 ELSE (k - 1) \div (Depth + 1)
RatedTo(k, R) == IF StageOf(k) > R THEN R ELSE StageOf(k)
Layers(rated) == (Len(rated) + 1) * (Depth + 1) + 1
SignalWidths(rated, p) == [k \in 0 .. Layers(rated) |-> p[RatedTo(k, Len(rated))]]

\* A layer, between two stages.
IsLayer(l, before, after, rated) ==
  /\ before \in 0 .. Len(rated) /\ after \in 0 .. Len(rated)
  /\ \/ l \in {Plain, Block} /\ before = after
     \/ after \in 1 .. Len(rated) /\ before = after - 1 /\ l = rated[after]
LayerAt(k, rated) ==
  IsLayer(Network(rated)[k], RatedTo(k - 1, Len(rated)), RatedTo(k, Len(rated)), rated)

LEMMA NetworkIs ==
  ASSUME CodecAssumption, NEW rated, Len(rated) \in Nat, DOMAIN rated = 1 .. Len(rated)
  PROVE  /\ Len(Network(rated)) = Layers(rated) /\ Layers(rated) \in Nat
         /\ \A k \in 1 .. Layers(rated) : LayerAt(k, rated)
         /\ RatedTo(0, Len(rated)) = 0 /\ RatedTo(Layers(rated), Len(rated)) = Len(rated)
<1> DEFINE R == Len(rated)
           D == Depth + 1
           N == Layers(rated)
           layer(k) == CASE (k - 1) % D # 0 -> Block
                         [] (k - 1) % D = 0 /\ (k - 1) \div D \in DOMAIN rated -> rated[(k - 1) \div D]
                         [] OTHER -> Plain
<1>1. D \in Nat \ {0} /\ R \in Nat
  BY DEF CodecAssumption
<1>2. N \in Nat /\ N = (R + 1) * D + 1
  BY <1>1 DEF Layers
<1>3. Network(rated) = [k \in 1 .. N |-> layer(k)]
  BY DEF Network, Layers
<1>4. Len(Network(rated)) = N /\ \A k \in 1 .. N : Network(rated)[k] = layer(k)
  <2> HIDE DEF layer, N
  <2>1. QED
    BY <1>2, <1>3
<1>5. DOMAIN rated = 1 .. R
  OBVIOUS
<1>d. StageOf(0) = 0 /\ \A k \in 1 .. N : StageOf(k) = (k - 1) \div D
  BY DEF StageOf
<1> HIDE DEF D, N, R
<1>6. ASSUME NEW k \in 1 .. N PROVE IsLayer(layer(k), RatedTo(k - 1, R), RatedTo(k, R), rated)
  <2> DEFINE s == (k - 1) \div D
             r == (k - 1) % D
  <2>1. s \in Int /\ r \in 0 .. D - 1 /\ k - 1 = D * s + r
    BY <1>1
  <2>2. s >= 0 /\ s <= R + 1
    <3> HIDE DEF s, r
    <3>1. s >= 0
      <4>1. SUFFICES ASSUME s <= -1 PROVE FALSE
        BY <2>1
      <4>2. D * s <= D * (-1) /\ D * (-1) = -D
        BY <1>1, <2>1, <4>1
      <4>3. QED
        BY <1>1, <2>1, <4>2
    <3>2. s <= R + 1
      <4>1. SUFFICES ASSUME s >= R + 2 PROVE FALSE
        BY <1>1, <2>1
      <4>2. D * s >= D * (R + 2) /\ D * (R + 2) = (R + 1) * D + D
        BY <1>1, <2>1, <4>1
      <4>3. (R + 1) * D \in Nat
        BY <1>1
      <4>4. QED
        BY <1>1, <1>2, <2>1, <4>2, <4>3
    <3>3. QED
      BY <3>1, <3>2
  <2>3. StageOf(k) = s
    BY <1>d
  <2>4. r # 0 => StageOf(k - 1) = s
    <3> HIDE DEF s, r
    <3>1. SUFFICES ASSUME r # 0 PROVE StageOf(k - 1) = s
      OBVIOUS
    <3>2. D * s \in Nat /\ D * s = s * D
      BY <1>1, <2>1, <2>2
    <3>3. k - 1 \in 1 .. N /\ (k - 1) - 1 = s * D + (r - 1) /\ r - 1 \in 0 .. D - 1
      BY <1>1, <1>2, <2>1, <3>1, <3>2
    <3>4. (s * D + (r - 1)) \div D = s
      BY <1>1, <2>1, <3>3, DivIs
    <3>5. StageOf(k - 1) = ((k - 1) - 1) \div D
      BY <1>d, <3>3
    <3>6. QED
      BY <3>3, <3>4, <3>5
  <2>5. r = 0 /\ s # 0 => StageOf(k - 1) = s - 1
    <3> HIDE DEF s, r
    <3>1. SUFFICES ASSUME r = 0, s # 0 PROVE StageOf(k - 1) = s - 1
      OBVIOUS
    <3>2. D * s = (s - 1) * D + D /\ (s - 1) * D \in Nat /\ s - 1 \in Nat
      BY <1>1, <2>1, <2>2, <3>1
    <3>3. k - 1 \in 1 .. N /\ (k - 1) - 1 = (s - 1) * D + (D - 1) /\ D - 1 \in 0 .. D - 1
      BY <1>1, <1>2, <2>1, <3>1, <3>2
    <3>4. ((s - 1) * D + (D - 1)) \div D = s - 1
      <4>1. s - 1 \in Int /\ D - 1 \in 0 .. D - 1 /\ D \in Nat \ {0}
        BY <1>1, <3>2, <3>3
      <4>2. QED
        BY <4>1, DivIs, Zenon
    <3>5. StageOf(k - 1) = ((k - 1) - 1) \div D
      BY <1>d, <3>3
    <3>6. QED
      BY <3>3, <3>4, <3>5
  <2>6. r = 0 /\ s = 0 => StageOf(k - 1) = 0
    <3> HIDE DEF s, r
    <3>1. SUFFICES ASSUME r = 0, s = 0 PROVE StageOf(k - 1) = 0
      OBVIOUS
    <3>2. k - 1 = 0
      BY <1>1, <2>1, <3>1
    <3>3. QED
      BY <1>d, <3>2
  <2>7. layer(k) = IF r # 0 THEN Block ELSE IF s \in 1 .. R THEN rated[s] ELSE Plain
    BY <1>5
  <2> HIDE DEF s, r, layer
  <2>8. CASE r # 0
    BY <1>1, <2>1, <2>2, <2>3, <2>4, <2>7, <2>8 DEF IsLayer, RatedTo, R
  <2>9. CASE r = 0 /\ s = 0
    BY <1>1, <2>3, <2>6, <2>7, <2>9 DEF IsLayer, RatedTo, R
  <2>10. CASE r = 0 /\ s \in 1 .. R
    BY <1>1, <2>3, <2>5, <2>7, <2>10 DEF IsLayer, RatedTo, R
  <2>11. CASE r = 0 /\ s = R + 1
    BY <1>1, <2>3, <2>5, <2>7, <2>11 DEF IsLayer, RatedTo, R
  <2>12. QED
    BY <1>1, <2>1, <2>2, <2>8, <2>9, <2>10, <2>11
<1>7. RatedTo(0, R) = 0
  BY <1>1, <1>d DEF RatedTo
<1>8. RatedTo(N, R) = R
  <2>1. N \in 1 .. N /\ N - 1 = (R + 1) * D + 0
    BY <1>1, <1>2
  <2>2. ((R + 1) * D + 0) \div D = R + 1
    <3>1. R + 1 \in Int /\ 0 \in 0 .. D - 1 /\ D \in Nat \ {0}
      BY <1>1
    <3>2. QED
      BY <3>1, DivIs, Zenon
  <2>3. StageOf(N) = R + 1
    BY <1>d, <2>1, <2>2
  <2>4. QED
    BY <1>1, <2>3 DEF RatedTo
<1>9. QED
  <2> HIDE DEF layer
  <2>1. QED
    BY <1>2, <1>4, <1>6, <1>7, <1>8 DEF N, R, LayerAt

\* Every layer that changes the rate is in the network.
LEMMA LayerOf ==
  ASSUME CodecAssumption, NEW rated, Len(rated) \in Nat, DOMAIN rated = 1 .. Len(rated), NEW j \in 1 .. Len(rated)
  PROVE  \E k \in 1 .. Layers(rated) : Network(rated)[k] = rated[j]
<1> DEFINE R == Len(rated)
           D == Depth + 1
           k == j * D + 1
<1>1. D \in Nat \ {0} /\ R \in Nat
  BY DEF CodecAssumption
<1>2. k \in 1 .. Layers(rated)
  <2>1. j * D \in Nat /\ j * D <= (R + 1) * D
    BY <1>1
  <2>2. (R + 1) * D \in Nat
    BY <1>1
  <2> HIDE DEF D, R
  <2>3. QED
    BY <2>1, <2>2 DEF Layers, R, D
<1>3. (k - 1) % D = 0 /\ (k - 1) \div D = j
  <2>1. (j * D + 0) \div D = j /\ (j * D + 0) % D = 0
    <3>1. j \in Int /\ 0 \in 0 .. D - 1 /\ D \in Nat \ {0}
      BY <1>1
    <3>2. QED
      BY <3>1, DivIs, Zenon
  <2> HIDE DEF D
  <2>2. k - 1 = j * D + 0
    BY <1>1
  <2>3. QED
    BY <2>1, <2>2
<1>4. Network(rated)[k] = CASE (k - 1) % D # 0 -> Block
                            [] (k - 1) % D = 0 /\ (k - 1) \div D \in DOMAIN rated -> rated[(k - 1) \div D]
                            [] OTHER -> Plain
  BY <1>2 DEF Network, Layers
<1> HIDE DEF k, D
<1>5. Network(rated)[k] = rated[j]
  BY <1>3, <1>4
<1>6. QED
  BY <1>2, <1>5

LEMMA NetworkFits ==
  ASSUME CodecAssumption, NEW rated, NEW p, Rates(rated, p)
  PROVE  /\ Fits(Network(rated), SignalWidths(rated, p))
         /\ SignalWidths(rated, p)[0] = p[0] /\ SignalWidths(rated, p)[Len(Network(rated))] = p[Len(rated)]
<1> DEFINE R == Len(rated)
           N == Layers(rated)
           w == SignalWidths(rated, p)
<1>1. /\ R \in Nat /\ DOMAIN rated = 1 .. R /\ p \in [0 .. R -> Nat \ {0}]
      /\ \A j \in 1 .. R : Fit(rated[j], p[j - 1], p[j])
  BY DEF Rates
<1>2. /\ Len(Network(rated)) = N /\ N \in Nat
      /\ \A k \in 1 .. N : LayerAt(k, rated)
      /\ RatedTo(0, R) = 0 /\ RatedTo(N, R) = R
  BY <1>1, NetworkIs
<1>3. w = [k \in 0 .. N |-> p[RatedTo(k, R)]]
  BY DEF SignalWidths
<1> HIDE DEF w, N, R
<1>4. ASSUME NEW k \in 0 .. N PROVE RatedTo(k, R) \in 0 .. R
  <2>1. CASE k = 0
    BY <1>1, <1>2, <2>1
  <2>2. CASE k # 0
    <3>1. k \in 1 .. N
      BY <1>2, <2>2
    <3>2. QED
      BY <1>2, <3>1 DEF LayerAt, IsLayer, R
  <2>3. QED
    BY <2>1, <2>2
<1>5. w \in [0 .. N -> Nat \ {0}]
  BY <1>1, <1>3, <1>4
<1>6. \A m \in Nat \ {0}, l \in {Plain, Block} : Fit(l, m, m)
  <2>1. Kernel \in Nat \ {0}
    BY DEF CodecAssumption
  <2>2. QED
    BY <2>1 DEF Fit, Plain, Block
<1>7. ASSUME NEW k \in 1 .. N PROVE Fit(Network(rated)[k], w[k - 1], w[k])
  <2> DEFINE b == RatedTo(k - 1, R)
             a == RatedTo(k, R)
             l == Network(rated)[k]
  <2>1. k - 1 \in 0 .. N /\ k \in 0 .. N
    BY <1>2
  <2>2. w[k - 1] = p[b] /\ w[k] = p[a]
    BY <1>3, <2>1
  <2>3. IsLayer(l, b, a, rated)
    <3>1. LayerAt(k, rated)
      BY <1>2
    <3>2. QED
      BY <3>1, Zenon DEF LayerAt, R
  <2> HIDE DEF a, b, l
  <2>4. b \in 0 .. R /\ a \in 0 .. R /\ ((l \in {Plain, Block} /\ b = a) \/ (a \in 1 .. R /\ b = a - 1 /\ l = rated[a]))
    BY <2>3 DEF IsLayer, R
  <2>5. p[a] \in Nat \ {0}
    BY <1>1, <2>4
  <2>6. CASE l \in {Plain, Block} /\ b = a
    <3>1. Fit(l, p[a], p[a])
      BY <1>6, <2>5, <2>6, Zenon
    <3>2. QED
      BY <2>2, <2>6, <3>1, Zenon DEF l
  <2>7. CASE a \in 1 .. R /\ b = a - 1 /\ l = rated[a]
    <3>1. Fit(l, p[a - 1], p[a])
      BY <1>1, <2>7, Zenon
    <3>2. QED
      BY <2>2, <2>7, <3>1, Zenon DEF l
  <2>8. QED
    BY <2>4, <2>6, <2>7
<1>8. Fits(Network(rated), w)
  BY <1>2, <1>5, <1>7, Zenon DEF Fits
<1>9. w[0] = p[0] /\ w[N] = p[R]
  BY <1>2, <1>3
<1>10. QED
  BY <1>2, <1>8, <1>9 DEF w, R

\* The product of the first ratios.
Product(p) ==
  /\ p \in [0 .. Len(Ratios) -> Nat \ {0}] /\ p[0] = 1
  /\ \A j \in 1 .. Len(Ratios) : p[j] = p[j - 1] * Ratios[j]
Down(p) == [j \in 0 .. Len(Ratios) |-> p[Len(Ratios) - j]]

Ups == [k \in DOMAIN Ratios |-> Transposed(Ratios[k])]
Downs == [k \in DOMAIN Ratios |-> Strided(Ratios[Len(Ratios) + 1 - k])]

LEMMA RatiosIs ==
  ASSUME CodecAssumption
  PROVE  Len(Ratios) \in Nat /\ DOMAIN Ratios = 1 .. Len(Ratios) /\ \A k \in 1 .. Len(Ratios) : Ratios[k] \in Nat \ {0}
<1>1. Ratios \in Seq(Nat \ {0})
  BY DEF CodecAssumption
<1>2. QED
  BY <1>1

LEMMA ProductIs == ASSUME CodecAssumption PROVE \E p : Product(p)
<1> DEFINE R == Len(Ratios)
           S == Nat \ {0}
           next == [u \in (1 .. R) \X S |-> u[2] * Ratios[u[1]]]
<1>1. R \in Nat /\ \A k \in 1 .. R : Ratios[k] \in S
  BY RatiosIs
<1> HIDE DEF R
<1>2. \A k \in 1 .. R, a \in S : a * Ratios[k] \in S
  <2> TAKE k \in 1 .. R, a \in S
  <2>1. Ratios[k] \in Nat \ {0}
    BY <1>1
  <2> DEFINE b == Ratios[k]
  <2> HIDE DEF b
  <2>2. b - 1 \in Nat /\ a * b = a * (b - 1) + a /\ a * (b - 1) \in Nat
    BY <2>1 DEF b
  <2>3. a * b \in Nat \ {0}
    BY <2>2
  <2>4. QED
    BY <2>3 DEF b
<1> HIDE DEF S
<1>3. next \in [(1 .. R) \X S -> S] /\ \A k \in 1 .. R, a \in S : next[<<k, a>>] = a * Ratios[k]
  BY <1>2
<1>4. 1 \in S
  BY DEF S
<1> HIDE DEF next
<1>5. PICK p : Iterates(p, R, S, 1, next)
  BY <1>1, <1>3, <1>4, Recursion, Zenon
<1>6. p \in [0 .. R -> S] /\ p[0] = 1 /\ \A n \in 1 .. R : p[n] = next[<<n, p[n - 1]>>]
  BY <1>5, Zenon DEF Iterates
<1>7. ASSUME NEW n \in 1 .. R PROVE p[n] = p[n - 1] * Ratios[n]
  <2>1. n - 1 \in 0 .. R
    BY <1>1
  <2>2. p[n - 1] \in S
    BY <1>6, <2>1
  <2>3. QED
    BY <1>3, <1>6, <2>2
<1>8. Product(p)
  BY <1>6, <1>7, Zenon DEF Product, R, S
<1>9. QED
  BY <1>8

\* One sample of the decoder's start makes p[R] at its end, and those one feature.
LEMMA RatesIs ==
  ASSUME CodecAssumption, NEW p, Product(p)
  PROVE  Rates(Ups, p) /\ Len(Ups) = Len(Ratios) /\ Rates(Downs, Down(p)) /\ Len(Downs) = Len(Ratios)
<1> DEFINE R == Len(Ratios)
<1>1. R \in Nat /\ DOMAIN Ratios = 1 .. R /\ \A k \in 1 .. R : Ratios[k] \in Nat \ {0}
  BY RatiosIs
<1>2. p \in [0 .. R -> Nat \ {0}] /\ \A j \in 1 .. R : p[j] = p[j - 1] * Ratios[j]
  BY DEF Product
<1>3. Ups = [k \in 1 .. R |-> Transposed(Ratios[k])]
  BY <1>1 DEF Ups
<1>4. Downs = [k \in 1 .. R |-> Strided(Ratios[R + 1 - k])]
  BY <1>1 DEF Downs
<1>5. Down(p) = [j \in 0 .. R |-> p[R - j]]
  BY DEF Down
<1> HIDE DEF R
<1>6. Len(Ups) = R /\ Len(Downs) = R /\ DOMAIN Ups = 1 .. R /\ DOMAIN Downs = 1 .. R
  BY <1>1, <1>3, <1>4
<1>7. ASSUME NEW j \in 1 .. R PROVE Fit(Ups[j], p[j - 1], p[j])
  <2>1. Ups[j] = Transposed(Ratios[j])
    BY <1>3
  <2>2. j - 1 \in 0 .. R /\ j \in 0 .. R
    BY <1>1
  <2>3. p[j - 1] \in Nat \ {0} /\ p[j] \in Nat \ {0} /\ p[j] = p[j - 1] * Ratios[j] /\ Ratios[j] \in Nat \ {0}
    BY <1>1, <1>2, <2>2
  <2>4. \A a, b \in Nat \ {0}, r \in Nat \ {0} : b = a * r => Fit(Transposed(r), a, b)
    BY DEF Fit, Transposed
  <2>5. QED
    BY <2>1, <2>3, <2>4, Zenon
<1>8. ASSUME NEW j \in 1 .. R PROVE Fit(Downs[j], Down(p)[j - 1], Down(p)[j])
  <2> DEFINE i == R + 1 - j
  <2>1. Downs[j] = Strided(Ratios[i])
    BY <1>4
  <2>2. j - 1 \in 0 .. R /\ j \in 0 .. R /\ i \in 1 .. R /\ i \in 0 .. R /\ i - 1 \in 0 .. R /\ R - (j - 1) = i /\ R - j = i - 1
    BY <1>1
  <2>3. Down(p)[j - 1] = p[i] /\ Down(p)[j] = p[i - 1]
    BY <1>5, <2>2
  <2> HIDE DEF i
  <2>4. p[i - 1] \in Nat \ {0} /\ p[i] \in Nat \ {0} /\ p[i] = p[i - 1] * Ratios[i] /\ Ratios[i] \in Nat \ {0}
    BY <1>1, <1>2, <2>2
  <2>5. \A a, b \in Nat \ {0}, r \in Nat \ {0} : b = a * r => Fit(Strided(r), b, a)
    BY DEF Fit, Strided
  <2>6. QED
    BY <2>1, <2>3, <2>4, <2>5, Zenon
<1>9. Rates(Ups, p)
  BY <1>1, <1>2, <1>6, <1>7 DEF Rates
<1>10. Rates(Downs, Down(p))
  <2>1. \A j \in 0 .. R : R - j \in 0 .. R
    BY <1>1
  <2>2. Down(p) \in [0 .. R -> Nat \ {0}]
    BY <1>2, <1>5, <2>1
  <2>3. QED
    BY <1>1, <1>6, <1>8, <2>2 DEF Rates
<1>11. QED
  BY <1>6, <1>9, <1>10 DEF R

-----------------------------------------------------------------------------
(* All at once.                                                            *)

IsStrided(l) == l.op = "conv" /\ l.stride > 1

LEMMA NothingAfter == ASSUME NEW s \in Samples PROVE s \o <<>> = s
  BY ConcatEmptySeq DEF Samples

\* Nothing is padded on the right but for a stride.
LEMMA UnstridedIs ==
  ASSUME CodecAssumption, NEW l, NEW m, NEW n, Fit(l, m, n), ~ IsStrided(l), NEW z \in Samples, z # <<>>
  PROVE  BatchLayer(z, l) = Causal(z, l)
<1>1. l.op \in {"conv", "up", "block"} /\ l.pad \in Nat /\ l.stride \in Nat \ {0}
  BY DEF Fit
<1>2. CASE l.op = "conv"
  <2> DEFINE padded == Zeros(l.pad) \o z
  <2>1. ~ (l.stride > 1)
    BY <1>2 DEF IsStrided
  <2>2. RightPad(padded, l) = 0
    BY <2>1 DEF RightPad
  <2>3. padded \in Samples
    <3>1. Zeros(l.pad) \in Samples
      BY <1>1, ZerosIs
    <3>2. QED
      BY <3>1, Joined
  <2>4. Zeros(0) = <<>>
    BY DEF Zeros
  <2> HIDE DEF padded
  <2>5. padded \o Zeros(0) = padded
    BY <2>3, <2>4, NothingAfter
  <2>6. BatchLayer(z, l) = Conv(padded \o Zeros(RightPad(padded, l)), l.kernel, l.stride)
    BY <1>2 DEF BatchLayer, padded
  <2>7. QED
    BY <1>2, <2>2, <2>5, <2>6 DEF Causal, padded
<1>3. CASE l.op = "up"
  BY <1>3 DEF BatchLayer, Causal
<1>4. CASE l.op = "block"
  BY <1>4 DEF BatchLayer, Causal
<1>5. QED
  BY <1>1, <1>2, <1>3, <1>4

\* At most one sample more goes in than streaming takes; what comes out has as many more,
\* or one after a stride.
Trails(l, s, e) ==
  \E o \in Samples :
    /\ BatchLayer(s \o e, l) = Causal(s, l) \o o
    /\ Len(o) = IF IsStrided(l) THEN 1 ELSE Len(e)

LEMMA Remains == ASSUME NEW r \in Nat, r > 1, NEW k, k \in {0, 1} PROVE r - k \in Nat /\ k \in 0 .. r - 1 /\ k \in Nat
<1>1. k = 0 \/ k = 1
  OBVIOUS
<1>2. QED
  BY <1>1

LEMMA StridedTrails ==
  ASSUME CodecAssumption, NEW l, NEW m, NEW n, Fit(l, m, n), IsStrided(l), l.pad = l.stride,
         NEW s \in Samples, s # <<>>, NEW q \in Nat, Len(s) = q * m, NEW e \in Samples, Len(e) \in {0, 1}
  PROVE  Trails(l, s, e)
<1> DEFINE r == l.stride
           O == Zeros(r)
           P == O \o s
           z == P \o e
           b == Zeros(r - Len(e))
           t == e \o b
           a == q * n
           out == Conv(From(P, r) \o t, r + r, r)
<1>1. /\ r \in Nat /\ r > 1 /\ m \in Nat /\ n \in Nat /\ m = n * r /\ l.kernel = r + r /\ l.pad = r /\ l.op = "conv"
      /\ Len(e) \in {0, 1} /\ a \in Nat
  BY DEF Fit, IsStrided
<1>2. O \in Samples /\ Len(O) = r /\ b \in Samples /\ Len(b) = r - Len(e)
  <2> HIDE DEF r, a
  <2>1. r - Len(e) \in Nat
    <3>1. r \in Nat /\ r > 1 /\ Len(e) \in {0, 1}
      BY <1>1, Zenon
    <3>2. QED
      BY <3>1, Remains, Zenon
  <2>2. QED
    BY <1>1, <2>1, ZerosIs
<1> HIDE DEF r, O, b
<1>3. Len(s) = a * r
  BY <1>1
<1>4. P \in Samples /\ Len(P) = r + a * r
  <2>1. P \in Samples /\ Len(P) = Len(O) + Len(s)
    BY <1>2, Joined
  <2> HIDE DEF P, a
  <2>2. QED
    BY <1>2, <1>3, <2>1
<1>5. t \in Samples /\ Len(t) = r
  <2>1. t \in Samples /\ Len(t) = Len(e) + Len(b)
    BY <1>2, Joined
  <2> HIDE DEF t
  <2>2. QED
    BY <1>1, <1>2, <2>1
<1> HIDE DEF a, P
<1>6. z \in Samples /\ Len(z) = r + a * r + Len(e)
  <2>1. z \in Samples /\ Len(z) = Len(P) + Len(e)
    BY <1>4, Joined
  <2> HIDE DEF z
  <2>2. a * r \in Nat
    BY <1>1
  <2>3. QED
    BY <1>1, <1>4, <2>1, <2>2
<1>7. O \o (s \o e) = z
  BY <1>2, JoinedThree DEF Associates, P
<1>8. z \o b = P \o t
  BY <1>2, <1>4, JoinedThree DEF Associates
<1> HIDE DEF z, t
<1>9. RightPad(z, l) = r - Len(e)
  <2>1. a * r \in Nat /\ (a - 1) * r = a * r - r /\ a - 1 \in Int
    BY <1>1
  <2>2. Len(z) - l.kernel = (a - 1) * r + Len(e) /\ Len(e) \in 0 .. r - 1
    <3>1. Len(e) \in 0 .. r - 1 /\ r \in Nat /\ Len(e) \in Nat
      <4>1. r \in Nat /\ r > 1 /\ Len(e) \in {0, 1}
        BY <1>1, Zenon
      <4>2. QED
        BY <4>1, Remains, Zenon
    <3>2. l.kernel = r + r
      BY <1>1
    <3>3. Len(z) - l.kernel = a * r - r + Len(e)
      <4> DEFINE b1 == a * r
      <4> HIDE DEF b1
      <4>1. b1 \in Nat /\ Len(z) = r + b1 + Len(e)
        BY <1>6, <2>1 DEF b1
      <4>2. Len(z) - l.kernel = b1 - r + Len(e)
        BY <3>1, <3>2, <4>1
      <4>3. QED
        BY <4>2 DEF b1
    <3>4. QED
      BY <2>1, <3>1, <3>3
  <2>3. ((a - 1) * r + Len(e)) \div r = a - 1
    <3>1. r \in Nat \ {0}
      BY <1>1
    <3>2. QED
      BY <2>1, <2>2, <3>1, DivIs, Zenon
  <2>4. (Len(z) - l.kernel) \div r + 1 = a
    BY <1>1, <2>1, <2>2, <2>3
  <2>5. RightPad(z, l) = ((Len(z) - l.kernel) \div r + 1) * r + l.kernel - Len(z)
    BY <1>1 DEF RightPad, r
  <2>6. RightPad(z, l) = a * r + l.kernel - Len(z)
    BY <2>4, <2>5
  <2>7. QED
    BY <1>1, <1>6, <2>1, <2>6
<1>10. BatchLayer(s \o e, l) = Conv(P \o t, r + r, r)
  <2>1. BatchLayer(s \o e, l) = Conv(z \o Zeros(RightPad(z, l)), r + r, r)
    BY <1>1, <1>7 DEF BatchLayer, O, r
  <2>2. QED
    BY <1>8, <1>9, <2>1 DEF b
<1>11. Windowed(P, t, r, r, a, 1)
  <2>1. r \in Nat /\ r \in Nat \ {0} /\ a \in Nat /\ 1 \in Nat /\ Len(P) = r + a * r /\ Len(t) = 1 * r
    BY <1>1, <1>4, <1>5
  <2>2. QED
    BY <1>4, <1>5, <2>1, WindowGrows, Zenon
<1>12. Causal(s, l) = Conv(P, r + r, r)
  BY <1>1 DEF Causal, P, O, r
<1>13. out \in Samples /\ Len(out) = 1 /\ Conv(P \o t, r + r, r) = Causal(s, l) \o out
  BY <1>11, <1>12 DEF Windowed
<1> HIDE DEF out
<1>14. QED
  BY <1>10, <1>13 DEF Trails

LEMMA LayerTrails ==
  ASSUME CodecAssumption, NEW l, NEW m, NEW n, Fit(l, m, n), IsStrided(l) => l.pad = l.stride,
         NEW s \in Samples, s # <<>>, Causal(s, l) \in Samples, NEW q \in Nat, Len(s) = q * m,
         NEW e \in Samples, Len(e) \in {0, 1}, l.op = "up" => e = <<>>
  PROVE  Trails(l, s, e)
<1>1. CASE IsStrided(l)
  BY <1>1, StridedTrails
<1>2. CASE ~ IsStrided(l) /\ Len(e) = 0
  <2>1. e = <<>>
    BY <1>2 DEF Samples
  <2>2. s \o e = s /\ Causal(s, l) \o <<>> = Causal(s, l)
    BY <2>1, NothingAfter
  <2>3. BatchLayer(s, l) = Causal(s, l)
    BY <1>2, UnstridedIs
  <2>4. <<>> \in Samples /\ Len(<<>>) = 0
    BY DEF Samples
  <2>5. QED
    BY <1>2, <2>2, <2>3, <2>4 DEF Trails
<1>3. CASE ~ IsStrided(l) /\ Len(e) = 1
  <2> DEFINE st == [h |-> e, states |-> <<Memory(s, l)>>, slot |-> 0]
             k == q * m
  <2>1. l.op # "up"
    BY <1>3
  <2>2. Fit(l, 1, 1) /\ k \in Nat
    BY <1>3, <2>1 DEF Fit, IsStrided
  <2>3. st.h = e /\ st.states[st.slot + 1] = Memory(s, l)
    OBVIOUS
  <2>4. Len(s) = k * 1
    BY <2>2
  <2> HIDE DEF st, k
  <2>5. Grows(st, l, s, e, k, 1)
    BY <1>3, <2>2, <2>3, <2>4, LayerGrows
  <2>6. PICK out \in Samples : Causal(s \o e, l) = Causal(s, l) \o out /\ Len(out) = 1
    BY <2>5 DEF Grows
  <2>7. s \o e \in Samples /\ s \o e # <<>>
    <3>1. s \o e \in Samples /\ Len(s \o e) = Len(s) + 1
      <4>1. s \o e \in Samples /\ Len(s \o e) = Len(s) + Len(e)
        BY Joined
      <4>2. QED
        BY <1>3, <4>1
    <3>2. Len(s) \in Nat
      BY DEF Samples
    <3> DEFINE z == s \o e
    <3> HIDE DEF z
    <3>3. z # <<>>
      BY <3>1, <3>2 DEF z
    <3>4. QED
      BY <3>1, <3>3 DEF z
  <2>8. BatchLayer(s \o e, l) = Causal(s \o e, l)
    <3> DEFINE z == s \o e
    <3> HIDE DEF z
    <3>1. BatchLayer(z, l) = Causal(z, l)
      BY <1>3, <2>7, UnstridedIs DEF z
    <3>2. QED
      BY <3>1 DEF z
  <2>9. QED
    BY <1>3, <2>6, <2>8 DEF Trails
<1>4. QED
  BY <1>1, <1>2, <1>3

\* A whole network: the signals of streaming, with one sample more from a stride on.
TrailsAll(layers, f, x) ==
  \E e \in Samples :
    /\ Batch(layers, x) = f[Len(layers)] \o e
    /\ Len(e) = IF \E k \in 1 .. Len(layers) : IsStrided(layers[k]) THEN 1 ELSE 0

LEMMA BatchIs ==
  ASSUME CodecAssumption, NEW layers, NEW w, Fits(layers, w), NEW x, NEW q \in Nat \ {0}, NEW f, Through(f, layers, w, x, q),
         \A k \in 1 .. Len(layers) : IsStrided(layers[k]) => layers[k].pad = layers[k].stride,
         \A j, k \in 1 .. Len(layers) : ~ (IsStrided(layers[j]) /\ layers[k].op = "up")
  PROVE  TrailsAll(layers, f, x)
<1> DEFINE N == Len(layers)
           L == layers
           trail(k) == IF \E j \in 1 .. k : IsStrided(L[j]) THEN 1 ELSE 0
           F(a) == [k \in 0 .. N |-> IF k = 0 THEN x ELSE BatchLayer(a[k - 1], L[k])]
           after == CHOOSE a : a = F(a)
           On(k, s) == \E e \in Samples : s = f[k] \o e /\ Len(e) = trail(k)
           made(k, s) == IF BatchLayer(s, L[k]) \in Samples THEN BatchLayer(s, L[k]) ELSE <<>>
           next == [p \in (1 .. N) \X Samples |-> made(p[1], p[2])]
<1>1. /\ N \in Nat /\ w \in [0 .. N -> Nat \ {0}] /\ \A k \in 1 .. N : Fit(L[k], w[k - 1], w[k])
  BY DEF Fits
<1>2. /\ f \in [0 .. N -> Samples] /\ f[0] = x /\ (\A k \in 1 .. N : f[k] = Causal(f[k - 1], L[k]))
      /\ \A k \in 0 .. N : Len(f[k]) = q * w[k]
  BY DEF Through
<1>3. 0 \in 0 .. N /\ N \in 0 .. N /\ \A k \in 1 .. N : k - 1 \in 0 .. N /\ k \in 0 .. N
  BY <1>1
<1>4. x \in Samples
  BY <1>2, <1>3
<1>5. Batch(layers, x) = after[N]
  BY DEF Batch
<1>6. /\ \A k \in 1 .. N : IsStrided(L[k]) => L[k].pad = L[k].stride
      /\ \A j, k \in 1 .. N : ~ (IsStrided(L[j]) /\ L[k].op = "up")
  OBVIOUS
<1> HIDE DEF N, L
<1>7. ASSUME NEW k \in 1 .. N, NEW s, On(k - 1, s) PROVE On(k, BatchLayer(s, L[k])) /\ BatchLayer(s, L[k]) \in Samples
  <2> DEFINE u == f[k - 1]
  <2>1. PICK e \in Samples : s = u \o e /\ Len(e) = trail(k - 1)
    BY <1>7
  <2>2. u \in Samples /\ u # <<>> /\ Len(u) = q * w[k - 1]
    <3>1. u \in Samples /\ Len(u) = q * w[k - 1] /\ w[k - 1] \in Nat \ {0}
      BY <1>1, <1>2, <1>3
    <3> HIDE DEF u
    <3>2. q * w[k - 1] # 0
      <4>1. q - 1 \in Nat /\ q * w[k - 1] = (q - 1) * w[k - 1] + w[k - 1] /\ (q - 1) * w[k - 1] \in Nat
        BY <3>1
      <4>2. QED
        BY <3>1, <4>1
    <3>3. QED
      BY <3>1, <3>2
  <2>3. Causal(u, L[k]) = f[k] /\ f[k] \in Samples
    BY <1>2, <1>3
  <2> HIDE DEF u
  <2>4. Len(e) \in {0, 1} /\ (L[k].op = "up" => e = <<>>)
    <3>1. Len(e) \in {0, 1}
      BY <2>1
    <3>2. ASSUME L[k].op = "up" PROVE e = <<>>
      <4>1. \A j \in 1 .. k - 1 : j \in 1 .. N
        BY <1>1
      <4>2. ~ \E j \in 1 .. k - 1 : IsStrided(L[j])
        BY <1>6, <3>2, <4>1
      <4>3. Len(e) = 0
        BY <2>1, <4>2
      <4>4. QED
        BY <4>3 DEF Samples
    <3>3. QED
      BY <3>1, <3>2
  <2>5. Trails(L[k], u, e)
    <3>1. Fit(L[k], w[k - 1], w[k]) /\ (IsStrided(L[k]) => L[k].pad = L[k].stride) /\ q \in Nat
      BY <1>1, <1>6
    <3>2. Causal(u, L[k]) \in Samples
      BY <2>3
    <3> HIDE DEF trail
    <3>3. QED
      BY <2>2, <2>4, <3>1, <3>2, LayerTrails, Zenon
  <2>6. PICK o \in Samples : BatchLayer(s, L[k]) = f[k] \o o /\ Len(o) = IF IsStrided(L[k]) THEN 1 ELSE Len(e)
    BY <2>1, <2>3, <2>5 DEF Trails
  <2>7. Len(o) = trail(k)
    <3>1. \A j \in 1 .. k : j = k \/ j \in 1 .. k - 1
      OBVIOUS
    <3>2. k \in 1 .. k /\ \A j \in 1 .. k - 1 : j \in 1 .. k
      OBVIOUS
    <3>3. QED
      BY <2>1, <2>6, <3>1, <3>2
  <2>8. f[k] \o o \in Samples
    BY <2>3, Joined
  <2>9. On(k, BatchLayer(s, L[k]))
    <3> HIDE DEF trail
    <3>1. QED
      BY <2>6, <2>7
  <2>10. BatchLayer(s, L[k]) \in Samples
    BY <2>6, <2>8
  <2>11. QED
    BY <2>9, <2>10
<1>8. On(0, x)
  <2>1. <<>> \in Samples /\ Len(<<>>) = 0
    BY DEF Samples
  <2>2. x = f[0] \o <<>>
    BY <1>2, <1>4, NothingAfter
  <2>3. trail(0) = 0
    OBVIOUS
  <2> HIDE DEF trail
  <2>4. QED
    BY <2>1, <2>2, <2>3
<1> HIDE DEF On, after
<1>9. next \in [(1 .. N) \X Samples -> Samples] /\ \A k \in 1 .. N, s \in Samples : next[<<k, s>>] = made(k, s)
  <2>1. <<>> \in Samples
    BY DEF Samples
  <2>2. \A k \in 1 .. N, s \in Samples : made(k, s) \in Samples
    BY <2>1, Zenon
  <2> HIDE DEF made, Samples
  <2>3. QED
    BY <2>2
<1> HIDE DEF next, made
<1>10. PICK g : Iterates(g, N, Samples, x, next)
  BY <1>1, <1>4, <1>9, Recursion, Zenon
<1>11. g \in [0 .. N -> Samples] /\ g[0] = x /\ \A k \in 1 .. N : g[k] = made(k, g[k - 1])
  <2>1. g \in [0 .. N -> Samples] /\ g[0] = x /\ \A k \in 1 .. N : g[k] = next[<<k, g[k - 1]>>]
    BY <1>10, Zenon DEF Iterates
  <2>2. \A k \in 1 .. N : next[<<k, g[k - 1]>>] = made(k, g[k - 1])
    BY <1>3, <1>9, <2>1
  <2>3. QED
    BY <2>1, <2>2, Zenon
<1> DEFINE Good == {k \in 0 .. N : On(k, g[k])}
<1>12. 0 \in Good
  BY <1>3, <1>8, <1>11
<1>13. ASSUME NEW k \in 1 .. N, On(k - 1, g[k - 1]) PROVE g[k] = BatchLayer(g[k - 1], L[k]) /\ On(k, g[k])
  <2>1. On(k, BatchLayer(g[k - 1], L[k])) /\ BatchLayer(g[k - 1], L[k]) \in Samples
    BY <1>7, <1>13
  <2>2. g[k] = BatchLayer(g[k - 1], L[k])
    BY <1>11, <2>1, Zenon DEF made
  <2>3. QED
    BY <2>1, <2>2
<1>14. 0 .. N \subseteq Good
  <2>1. ASSUME NEW k \in 0 .. N, k # 0, k - 1 \in Good PROVE k \in Good
    <3>1. k \in 1 .. N
      BY <1>1, <2>1
    <3>2. On(k, g[k])
      BY <1>13, <2>1, <3>1
    <3>3. QED
      BY <3>2
  <2> HIDE DEF Good
  <2>2. QED
    BY <1>1, <1>12, <2>1, AllUpTo
<1>15. \A k \in 1 .. N : g[k] = BatchLayer(g[k - 1], L[k])
  <2> TAKE k \in 1 .. N
  <2>1. On(k - 1, g[k - 1])
    BY <1>3, <1>14
  <2>2. QED
    BY <1>13, <2>1
<1>16. g = F(g)
  <2>1. g = [k \in 0 .. N |-> g[k]]
    BY <1>11
  <2>2. \A k \in 0 .. N : g[k] = IF k = 0 THEN x ELSE BatchLayer(g[k - 1], L[k])
    <3> TAKE k \in 0 .. N
    <3>1. k # 0 => k \in 1 .. N
      BY <1>1
    <3>2. QED
      BY <1>11, <1>15, <3>1, Zenon
  <2>3. QED
    BY <2>1, <2>2, Zenon
<1>17. after = F(after)
  BY <1>16, Zenon DEF after
<1>18. \A k \in 0 .. N : after[k] = IF k = 0 THEN x ELSE BatchLayer(after[k - 1], L[k])
  BY <1>17, Zenon
<1> DEFINE Same == {k \in 0 .. N : after[k] = g[k]}
<1>19. 0 \in Same
  <2>1. after[0] = x
    BY <1>3, <1>18, Zenon
  <2>2. QED
    BY <1>3, <1>11, <2>1
<1>20. ASSUME NEW k \in 0 .. N, k # 0, k - 1 \in Same PROVE k \in Same
  <2>1. k \in 1 .. N /\ after[k - 1] = g[k - 1]
    BY <1>1, <1>20
  <2>2. after[k] = BatchLayer(after[k - 1], L[k])
    BY <1>18, <1>20, Zenon
  <2>3. after[k] = g[k]
    BY <1>15, <2>1, <2>2, Zenon
  <2>4. QED
    BY <2>3
<1>21. 0 .. N \subseteq Same
  <2> HIDE DEF Same
  <2>1. QED
    BY <1>1, <1>19, <1>20, AllUpTo
<1>22. after[N] = g[N] /\ On(N, g[N])
  BY <1>3, <1>14, <1>21
<1>23. On(N, Batch(layers, x))
  BY <1>5, <1>22
<1>24. QED
  BY <1>23, Zenon DEF On, TrailsAll, N, L

-----------------------------------------------------------------------------
(* Seamless.                                                               *)

LEMMA InNetwork ==
  ASSUME CodecAssumption, NEW rated, Len(rated) \in Nat, DOMAIN rated = 1 .. Len(rated), NEW k \in 1 .. Len(Network(rated))
  PROVE  Network(rated)[k] \in {Plain, Block} \cup {rated[j] : j \in 1 .. Len(rated)}
<1>1. k \in 1 .. Layers(rated) /\ LayerAt(k, rated)
  BY NetworkIs
<1>2. QED
  BY <1>1 DEF LayerAt, IsLayer

\* Nothing has been said.
Silence(layers) == [k \in 0 .. Len(layers) |-> <<>>]
LEMMA SilenceIs ==
  ASSUME CodecAssumption, NEW layers, NEW w, Fits(layers, w), DOMAIN layers = 1 .. Len(layers)
  PROVE  /\ Through(Silence(layers), layers, w, <<>>, 0)
         /\ Memories(Silence(layers), layers) = Cleared(layers)
         /\ Silence(layers)[Len(layers)] = <<>>
<1> DEFINE N == Len(layers)
           L == layers
           f == Silence(layers)
<1>1. /\ N \in Nat /\ w \in [0 .. N -> Nat \ {0}] /\ \A k \in 1 .. N : Fit(L[k], w[k - 1], w[k])
  BY DEF Fits
<1>2. f = [k \in 0 .. N |-> <<>>]
  BY DEF Silence
<1>3. <<>> \in Samples /\ Len(<<>>) = 0
  BY DEF Samples
<1> HIDE DEF f, N, L
<1>4. \A k \in 1 .. N : k - 1 \in 0 .. N
  BY <1>1
<1>5. f \in [0 .. N -> Samples] /\ f[0] = <<>> /\ f[N] = <<>> /\ \A k \in 0 .. N : f[k] = <<>>
  BY <1>1, <1>2, <1>3
<1>6. \A k \in 1 .. N : f[k] = Causal(f[k - 1], L[k])
  BY <1>1, <1>4, <1>5 DEF Causal
<1>7. \A k \in 0 .. N : Len(f[k]) = 0 * w[k]
  BY <1>1, <1>3, <1>5
<1>8. \A k \in 1 .. N : Memory(f[k - 1], L[k]) = <<>>
  <2> TAKE k \in 1 .. N
  <2>1. f[k - 1] = <<>>
    BY <1>4, <1>5
  <2>2. L[k].pad \in Nat
    BY <1>1 DEF Fit
  <2>3. AtMost(<<>>, L[k].pad) = <<>>
    BY <1>3, <2>2 DEF AtMost
  <2>4. QED
    BY <2>1, <2>3 DEF Memory
<1>9. Memories(f, L) = Cleared(L)
  <2>1. Memories(f, L) = [k \in 1 .. N |-> <<>>]
    BY <1>8 DEF Memories, N, L
  <2>2. Cleared(L) = [k \in 1 .. N |-> <<>>]
    BY DEF Cleared, N, L
  <2>3. QED
    BY <2>1, <2>2
<1>10. QED
  BY <1>5, <1>6, <1>7, <1>9, Zenon DEF Through, f, N, L

\* The decoder and the encoder, and their rates.
DW(p) == SignalWidths(Ups, p)
EW(p) == SignalWidths(Downs, Down(p))
LEMMA CodecFits ==
  ASSUME CodecAssumption, NEW p, Product(p)
  PROVE  /\ Fits(Decoder, DW(p)) /\ DOMAIN Decoder = 1 .. Len(Decoder)
         /\ Fits(Encoder, EW(p)) /\ DOMAIN Encoder = 1 .. Len(Encoder)
         /\ DW(p)[0] = 1 /\ DW(p)[Len(Decoder)] = EW(p)[0] /\ EW(p)[Len(Encoder)] = 1
<1>1. Rates(Ups, p) /\ Len(Ups) = Len(Ratios) /\ Rates(Downs, Down(p)) /\ Len(Downs) = Len(Ratios)
  BY RatesIs
<1>2. Decoder = Network(Ups) /\ Encoder = Network(Downs)
  BY DEF Decoder, Encoder, Ups, Downs
<1>3. /\ Fits(Decoder, DW(p)) /\ DW(p)[0] = p[0] /\ DW(p)[Len(Decoder)] = p[Len(Ratios)]
  <2>1. /\ Fits(Network(Ups), SignalWidths(Ups, p)) /\ SignalWidths(Ups, p)[0] = p[0]
        /\ SignalWidths(Ups, p)[Len(Network(Ups))] = p[Len(Ups)]
    BY <1>1, NetworkFits
  <2>2. QED
    BY <1>1, <1>2, <2>1 DEF DW
<1>4. /\ Fits(Encoder, EW(p)) /\ EW(p)[0] = Down(p)[0] /\ EW(p)[Len(Encoder)] = Down(p)[Len(Ratios)]
  <2>1. /\ Fits(Network(Downs), SignalWidths(Downs, Down(p))) /\ SignalWidths(Downs, Down(p))[0] = Down(p)[0]
        /\ SignalWidths(Downs, Down(p))[Len(Network(Downs))] = Down(p)[Len(Downs)]
    BY <1>1, NetworkFits
  <2>2. QED
    BY <1>1, <1>2, <2>1 DEF EW
<1>5. p[0] = 1 /\ Down(p)[0] = p[Len(Ratios)] /\ Down(p)[Len(Ratios)] = 1
  <2>1. Len(Ratios) \in Nat
    BY RatiosIs
  <2>2. p[0] = 1
    BY DEF Product
  <2>3. 0 \in 0 .. Len(Ratios) /\ Len(Ratios) \in 0 .. Len(Ratios) /\ Len(Ratios) - 0 = Len(Ratios) /\ Len(Ratios) - Len(Ratios) = 0
    BY <2>1
  <2>4. QED
    BY <2>2, <2>3 DEF Down
<1>6. DOMAIN Decoder = 1 .. Len(Decoder) /\ DOMAIN Encoder = 1 .. Len(Encoder)
  <2>1. \A rated : Rates(rated, p) \/ Rates(rated, Down(p)) => DOMAIN Network(rated) = 1 .. Len(Network(rated))
    <3> TAKE rated
    <3>1. SUFFICES ASSUME Len(rated) \in Nat, DOMAIN rated = 1 .. Len(rated) PROVE DOMAIN Network(rated) = 1 .. Len(Network(rated))
      BY DEF Rates
    <3>2. Len(Network(rated)) = Layers(rated)
      BY <3>1, NetworkIs
    <3>3. DOMAIN Network(rated) = 1 .. Layers(rated)
      BY DEF Network, Layers
    <3>4. QED
      BY <3>2, <3>3
  <2>2. QED
    BY <1>1, <1>2, <2>1
<1>7. QED
  BY <1>3, <1>4, <1>5, <1>6

\* The signals since the caches were cleared: what the caches keep is the end of each.
Heard(p, f, g, q) ==
  /\ q \in Nat /\ Product(p)
  /\ Through(f, Decoder, DW(p), latents, q) /\ acoustic = Memories(f, Decoder) /\ audio = f[Len(Decoder)]
  /\ Through(g, Encoder, EW(p), audio, q) /\ semantic = Memories(g, Encoder) /\ features = g[Len(Encoder)]
CodecInv == \E p, f, g, q : Heard(p, f, g, q)

LEMMA CodecClear ==
  ASSUME CodecAssumption, acoustic' = Cleared(Decoder), semantic' = Cleared(Encoder),
         latents' = <<>>, audio' = <<>>, features' = <<>>
  PROVE  CodecInv'
<1>1. PICK p : Product(p)
  BY ProductIs
<1>2. Fits(Decoder, DW(p)) /\ DOMAIN Decoder = 1 .. Len(Decoder) /\ Fits(Encoder, EW(p)) /\ DOMAIN Encoder = 1 .. Len(Encoder)
  BY <1>1, CodecFits
<1> DEFINE f == Silence(Decoder)
           g == Silence(Encoder)
<1>3. Through(f, Decoder, DW(p), <<>>, 0) /\ Memories(f, Decoder) = Cleared(Decoder) /\ f[Len(Decoder)] = <<>>
  BY <1>2, SilenceIs
<1>4. Through(g, Encoder, EW(p), <<>>, 0) /\ Memories(g, Encoder) = Cleared(Encoder) /\ g[Len(Encoder)] = <<>>
  BY <1>2, SilenceIs
<1> HIDE DEF f, g
<1>5. Heard(p, f, g, 0)'
  BY <1>1, <1>3, <1>4 DEF Heard
<1>6. QED
  BY <1>5 DEF CodecInv

LEMMA CodecStarts == ASSUME CodecAssumption, CodecInit PROVE CodecInv
<1>1. PICK p : Product(p)
  BY ProductIs
<1>2. Fits(Decoder, DW(p)) /\ DOMAIN Decoder = 1 .. Len(Decoder) /\ Fits(Encoder, EW(p)) /\ DOMAIN Encoder = 1 .. Len(Encoder)
  BY <1>1, CodecFits
<1> DEFINE f == Silence(Decoder)
           g == Silence(Encoder)
<1>3. Through(f, Decoder, DW(p), <<>>, 0) /\ Memories(f, Decoder) = Cleared(Decoder) /\ f[Len(Decoder)] = <<>>
  BY <1>2, SilenceIs
<1>4. Through(g, Encoder, EW(p), <<>>, 0) /\ Memories(g, Encoder) = Cleared(Encoder) /\ g[Len(Encoder)] = <<>>
  BY <1>2, SilenceIs
<1> HIDE DEF f, g
<1>5. Heard(p, f, g, 0)
  BY <1>1, <1>3, <1>4 DEF Heard, CodecInit
<1>6. QED
  BY <1>5 DEF CodecInv

LEMMA CodecSpeaks == ASSUME CodecAssumption, CodecInv, NEW v \in Latents, Speak(v) PROVE CodecInv'
<1>1. PICK p, f, g, q : Heard(p, f, g, q)
  BY DEF CodecInv
<1>2. /\ q \in Nat /\ Product(p)
      /\ Through(f, Decoder, DW(p), latents, q) /\ acoustic = Memories(f, Decoder) /\ audio = f[Len(Decoder)]
      /\ Through(g, Encoder, EW(p), audio, q) /\ semantic = Memories(g, Encoder) /\ features = g[Len(Encoder)]
  BY <1>1 DEF Heard
<1>3. /\ Fits(Decoder, DW(p)) /\ Fits(Encoder, EW(p))
      /\ DW(p)[0] = 1 /\ DW(p)[Len(Decoder)] = EW(p)[0]
  BY <1>2, CodecFits
<1>4. <<v>> \in Samples /\ Len(<<v>>) = 1
  <2>1. v \in V
    BY DEF CodecAssumption, V
  <2>2. QED
    BY <2>1, PrimeIs
<1>5. PICK f2 : Goes(f, f2, Decoder, DW(p), <<v>>, q, Memories(f, Decoder))
  <2>1. Len(<<v>>) = DW(p)[0]
    BY <1>3, <1>4
  <2> DEFINE y == <<v>>
  <2> HIDE DEF y
  <2>2. \E f2 : Goes(f, f2, Decoder, DW(p), y, q, Memories(f, Decoder))
    BY <1>2, <1>3, <1>4, <2>1, NetworkGrows DEF y
  <2>3. QED
    BY <2>2 DEF y
<1> DEFINE chunk == Streamed(Decoder, acoustic, <<v>>)
           heard == Streamed(Encoder, semantic, chunk.h)
<1>6. /\ Through(f2, Decoder, DW(p), f[0] \o <<v>>, q + 1)
      /\ chunk.h \in Samples /\ f2[Len(Decoder)] = f[Len(Decoder)] \o chunk.h /\ Len(chunk.h) = EW(p)[0]
      /\ chunk.states = Memories(f2, Decoder)
  <2>1. Through(f2, Decoder, DW(p), f[0] \o <<v>>, q + 1)
    BY <1>5, Zenon DEF Goes
  <2>2. PICK h \in Samples : /\ f2[Len(Decoder)] = f[Len(Decoder)] \o h /\ Len(h) = DW(p)[Len(Decoder)]
                             /\ Streamed(Decoder, Memories(f, Decoder), <<v>>) = [h |-> h, states |-> Memories(f2, Decoder), slot |-> Len(Decoder)]
    BY <1>5, Zenon DEF Goes
  <2>3. chunk = [h |-> h, states |-> Memories(f2, Decoder), slot |-> Len(Decoder)]
    BY <1>2, <2>2, Zenon
  <2> HIDE DEF chunk
  <2>4. chunk.h = h /\ chunk.states = Memories(f2, Decoder)
    BY <2>3
  <2>5. QED
    BY <1>3, <2>1, <2>2, <2>4
<1> HIDE DEF chunk
<1>7. PICK g2 : Goes(g, g2, Encoder, EW(p), chunk.h, q, Memories(g, Encoder))
  BY <1>2, <1>3, <1>6, NetworkGrows
<1>8. /\ Through(g2, Encoder, EW(p), g[0] \o chunk.h, q + 1)
      /\ g2[Len(Encoder)] = g[Len(Encoder)] \o heard.h /\ heard.states = Memories(g2, Encoder)
  <2>1. Through(g2, Encoder, EW(p), g[0] \o chunk.h, q + 1)
    BY <1>7, Zenon DEF Goes
  <2>2. PICK h \in Samples : /\ g2[Len(Encoder)] = g[Len(Encoder)] \o h
                             /\ Streamed(Encoder, Memories(g, Encoder), chunk.h) = [h |-> h, states |-> Memories(g2, Encoder), slot |-> Len(Encoder)]
    BY <1>7, Zenon DEF Goes
  <2>3. heard = [h |-> h, states |-> Memories(g2, Encoder), slot |-> Len(Encoder)]
    BY <1>2, <2>2, Zenon
  <2> HIDE DEF heard
  <2>4. heard.h = h /\ heard.states = Memories(g2, Encoder)
    BY <2>3
  <2>5. QED
    BY <2>1, <2>2, <2>4
<1>9. /\ acoustic' = chunk.states /\ semantic' = heard.states
      /\ latents' = Append(latents, v) /\ audio' = audio \o chunk.h /\ features' = features \o heard.h
  BY DEF Speak, chunk
<1> HIDE DEF heard
<1>10. f[0] = latents /\ f[0] \in Samples /\ g[0] = audio
  <2>1. f[0] = latents /\ g[0] = audio /\ f \in [0 .. Len(Decoder) -> Samples]
    BY <1>2, Zenon DEF Through
  <2>2. 0 \in 0 .. Len(Decoder)
    BY <1>3 DEF Fits
  <2>3. QED
    BY <2>1, <2>2
<1>11. latents' = f[0] \o <<v>>
  <2>1. v \in V /\ latents \in Seq(V)
    BY <1>10 DEF CodecAssumption, V, Samples
  <2>2. Append(latents, v) = latents \o <<v>>
    BY <2>1, AppendIsConcat
  <2>3. QED
    BY <1>9, <1>10, <2>2
<1>12. Heard(p, f2, g2, q + 1)'
  <2>1. q + 1 \in Nat /\ Product(p)
    BY <1>2
  <2>2. audio' = f2[Len(Decoder)] /\ audio' = g[0] \o chunk.h /\ features' = g2[Len(Encoder)]
    BY <1>2, <1>6, <1>8, <1>9, <1>10
  <2>3. QED
    BY <1>6, <1>8, <1>9, <1>11, <2>1, <2>2 DEF Heard
<1>13. QED
  BY <1>12 DEF CodecInv

LEMMA CodecSeamless == ASSUME CodecAssumption, CodecInv PROVE Seamless
<1>1. PICK p, f, g, q : Heard(p, f, g, q)
  BY DEF CodecInv
<1>2. /\ q \in Nat /\ Product(p)
      /\ Through(f, Decoder, DW(p), latents, q) /\ acoustic = Memories(f, Decoder) /\ audio = f[Len(Decoder)]
      /\ Through(g, Encoder, EW(p), audio, q) /\ semantic = Memories(g, Encoder) /\ features = g[Len(Encoder)]
  BY <1>1 DEF Heard
<1>3. /\ Fits(Decoder, DW(p)) /\ Fits(Encoder, EW(p)) /\ DW(p)[0] = 1 /\ EW(p)[Len(Encoder)] = 1
  BY <1>2, CodecFits
<1>4. Len(Decoder) \in Nat /\ Len(Encoder) \in Nat
  BY <1>3 DEF Fits
<1>5. latents \in Samples /\ Len(latents) = q /\ features \in Samples /\ Len(features) = q
  <2>1. /\ f \in [0 .. Len(Decoder) -> Samples] /\ f[0] = latents /\ \A k \in 0 .. Len(Decoder) : Len(f[k]) = q * DW(p)[k]
        /\ g \in [0 .. Len(Encoder) -> Samples] /\ \A k \in 0 .. Len(Encoder) : Len(g[k]) = q * EW(p)[k]
    BY <1>2, Zenon DEF Through
  <2>2. 0 \in 0 .. Len(Decoder) /\ Len(Encoder) \in 0 .. Len(Encoder)
    BY <1>4
  <2>3. Len(f[0]) = q * 1 /\ Len(g[Len(Encoder)]) = q * 1
    BY <1>3, <2>1, <2>2
  <2>4. f[0] \in Samples /\ g[Len(Encoder)] \in Samples
    BY <2>1, <2>2
  <2>5. QED
    BY <1>2, <2>1, <2>3, <2>4
<1>6. SUFFICES ASSUME latents # <<>> PROVE audio = Decode(latents) /\ \E v \in 0 .. Prime - 1 : Encode(audio) = Append(features, v)
  BY <1>5 DEF Seamless
<1>7. q \in Nat \ {0}
  BY <1>2, <1>5, <1>6 DEF Samples
<1>8. Rates(Ups, p) /\ Len(Ups) = Len(Ratios) /\ Rates(Downs, Down(p)) /\ Len(Downs) = Len(Ratios)
  BY <1>2, RatesIs
<1>9. /\ Len(Ups) \in Nat /\ DOMAIN Ups = 1 .. Len(Ups) /\ Len(Downs) \in Nat /\ DOMAIN Downs = 1 .. Len(Downs)
      /\ Decoder = Network(Ups) /\ Encoder = Network(Downs)
  BY <1>8 DEF Rates, Decoder, Encoder, Ups, Downs
<1>10. Len(Ratios) \in Nat /\ DOMAIN Ratios = 1 .. Len(Ratios) /\ \A k \in 1 .. Len(Ratios) : Ratios[k] \in Nat \ {0}
  BY RatiosIs
<1>11. \A l \in {Plain, Block} : ~ IsStrided(l) /\ l.op # "up"
  BY DEF Plain, Block, IsStrided
<1>12. ASSUME NEW k \in 1 .. Len(Decoder) PROVE ~ IsStrided(Decoder[k])
  <2>1. Decoder[k] \in {Plain, Block} \cup {Ups[j] : j \in 1 .. Len(Ups)}
    BY <1>9, InNetwork
  <2>2. \A j \in 1 .. Len(Ups) : ~ IsStrided(Ups[j])
    BY <1>9 DEF Ups, IsStrided, Transposed
  <2>3. QED
    BY <1>11, <2>1, <2>2
<1>13. ASSUME NEW k \in 1 .. Len(Encoder)
       PROVE  (IsStrided(Encoder[k]) => Encoder[k].pad = Encoder[k].stride) /\ Encoder[k].op # "up"
  <2>1. Encoder[k] \in {Plain, Block} \cup {Downs[j] : j \in 1 .. Len(Downs)}
    BY <1>9, InNetwork
  <2>2. \A j \in 1 .. Len(Downs) : Downs[j].pad = Downs[j].stride /\ Downs[j].op # "up"
    BY <1>9 DEF Downs, Strided
  <2>3. QED
    BY <1>11, <2>1, <2>2
<1>14. audio = Decode(latents)
  <2>1. TrailsAll(Decoder, f, latents)
    BY <1>2, <1>3, <1>7, <1>12, BatchIs
  <2>2. PICK e \in Samples : Batch(Decoder, latents) = f[Len(Decoder)] \o e /\ Len(e) = 0
    BY <1>12, <2>1 DEF TrailsAll
  <2>3. e = <<>>
    BY <2>2 DEF Samples
  <2>4. audio \in Samples
    <3>1. f \in [0 .. Len(Decoder) -> Samples] /\ Len(Decoder) \in 0 .. Len(Decoder)
      BY <1>2, <1>4 DEF Through
    <3>2. QED
      BY <1>2, <3>1
  <2>5. QED
    BY <1>2, <2>2, <2>3, <2>4, NothingAfter DEF Decode
<1>15. \E k \in 1 .. Len(Encoder) : IsStrided(Encoder[k])
  <2>1. PICK i \in 1 .. Len(Ratios) : Ratios[i] > 1
    BY <1>10 DEF CodecAssumption
  <2> DEFINE j == Len(Ratios) + 1 - i
  <2>2. j \in 1 .. Len(Downs) /\ Len(Ratios) + 1 - j = i
    BY <1>8, <1>10
  <2> HIDE DEF j
  <2>3. Downs[j] = Strided(Ratios[i])
    BY <1>8, <1>10, <2>2 DEF Downs
  <2>4. IsStrided(Downs[j])
    BY <2>1, <2>3 DEF IsStrided, Strided
  <2>5. PICK k \in 1 .. Layers(Downs) : Encoder[k] = Downs[j]
    BY <1>9, <2>2, LayerOf
  <2>6. Len(Encoder) = Layers(Downs)
    BY <1>9, NetworkIs
  <2>7. QED
    BY <2>4, <2>5, <2>6
<1>16. \E v \in 0 .. Prime - 1 : Encode(audio) = Append(features, v)
  <2>1. TrailsAll(Encoder, g, audio)
    BY <1>2, <1>3, <1>7, <1>13, BatchIs
  <2>2. PICK e \in Samples : Batch(Encoder, audio) = g[Len(Encoder)] \o e /\ Len(e) = 1
    BY <1>15, <2>1 DEF TrailsAll
  <2>3. e \in Seq(V) /\ features \in Seq(V)
    BY <1>5 DEF Samples, V
  <2>4. e = <<e[1]>> /\ e[1] \in V
    <3>1. e[1] \in V
      <4>1. \A i \in 1 .. Len(e) : e[i] \in V
        BY <2>3
      <4>2. QED
        BY <2>2, <4>1
    <3> DEFINE a == <<e[1]>>
    <3>2. a \in Samples /\ Len(a) = 1 /\ a[1] = e[1]
      BY <3>1, PrimeIs
    <3> HIDE DEF a
    <3>3. Len(e) = Len(a) /\ \A i \in 1 .. Len(e) : e[i] = a[i]
      BY <2>2, <3>2
    <3>4. e = a
      BY <3>2, <3>3, SameSamples
    <3>5. QED
      BY <3>1, <3>4 DEF a
  <2>5. Append(features, e[1]) = features \o <<e[1]>>
    BY <2>3, <2>4, AppendIsConcat
  <2>6. Encode(audio) = Append(features, e[1])
    BY <1>2, <2>2, <2>4, <2>5 DEF Encode
  <2>7. QED
    BY <2>4, <2>6 DEF V
<1>17. QED
  BY <1>14, <1>16

LEMMA CodecSteps == ASSUME CodecAssumption, CodecInv, [CodecNext]_cvars PROVE CodecInv'
<1>1. CASE \E v \in Latents : Speak(v)
  BY <1>1, CodecSpeaks
<1>2. CASE Clear
  BY <1>2, CodecClear DEF Clear
<1>3. CASE UNCHANGED cvars
  BY <1>3 DEF cvars, CodecInv, Heard
<1>4. QED
  BY <1>1, <1>2, <1>3 DEF CodecNext
=============================================================================
