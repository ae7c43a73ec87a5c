-------------------------------- MODULE Chat --------------------------------
(***************************************************************************)
(* The HTTP API of a master (cake/sharding/api: text, image, audio, mod)   *)
(* with the terminal chat on the other side (cake-cli/src/chat.rs): the    *)
(* lock all handlers queue for, the detached task behind an event stream,  *)
(* the stream, the chat's reader thread and its event loop.                *)
(*                                                                         *)
(* A turn of the chat is its request; a token is its number in the turn,   *)
(* End the None of both channels.  Other clients' requests are blocking    *)
(* completions, images or audio ("work") or look at the master ("read").   *)
(***************************************************************************)
EXTENDS Integers, Sequences, FiniteSets

CONSTANTS Others,    \* requests of other clients
          Readers,   \* those that only read
          Tui,       \* the chat's own topology request, a reader
          Widths,    \* bytes of the characters that are typed
          MaxTurns,  \* bound: turns of the chat; nothing is typed after the last
          MaxTokens, \* bound: tokens of an answer
          MaxInput   \* bound: characters in the input line

ChatAssumption == /\ MaxTurns \in Nat /\ MaxTokens \in Nat /\ MaxInput \in Nat
                  /\ Readers \subseteq Others /\ Tui \in Readers
                  /\ Others \cap (1 .. MaxTurns) = {}
                  /\ Widths \subseteq {1, 2}

VARIABLES
  ui,      \* the event loop: idle, fetch (awaits the topology), gone
  tab, typed, cursor,
  turn, streaming,
  answer,  \* turn -> content of its assistant message
  reader,  \* the turn's thread: none, post, read
  uich,    \* its channel to the event loop
  up,      \* the server runs
  lockq,   \* requests waiting for the lock, in order
  holders,
  job,     \* request -> none, wait, run, bye, done
  gen,     \* turn -> tokens generated
  cut,     \* history: turn -> its first token without text, or 0
  chan,    \* turn -> the task's channel to the event stream
  open,    \* turns whose event stream is being written
  sse      \* events under way to the reader

client == <<ui, tab, typed, cursor, turn, streaming, answer>>
link   == <<reader, uich>>
lock   == <<lockq, holders, job>>
stream == <<gen, cut, chan, open>>
vars   == <<client, link, up, lock, stream, sse>>

End   == 0
Error == -1   \* the text a failed request leaves in the answer
Turns == 1 .. MaxTurns

-----------------------------------------------------------------------------
Init ==
  /\ ui = "idle" /\ tab = "chat" /\ typed = <<>> /\ cursor = 0
  /\ turn = 0 /\ streaming = FALSE
  /\ answer = [t \in Turns |-> <<>>]
  /\ reader = "none" /\ uich = <<>>
  /\ up = TRUE /\ lockq = <<>> /\ holders = {}
  /\ job = [r \in Turns \cup Others |-> "none"]
  /\ gen = [t \in Turns |-> 0] /\ cut = [t \in Turns |-> 0]
  /\ chan = [t \in Turns |-> <<>>] /\ open = {} /\ sse = <<>>

-----------------------------------------------------------------------------
(* Keys. *)

\* Bytes of the first k characters; the character positions on a boundary.
Bytes(k) == k + Cardinality({i \in 1 .. k : typed[i] = 2})
Place    == {k \in 0 .. Len(typed) : Bytes(k) = cursor}

Editing == ui = "idle" /\ tab = "chat" /\ ~ streaming

Without(s, k) == SubSeq(s, 1, k - 1) \o SubSeq(s, k + 1, Len(s))

\* String::insert takes a byte position, and panics off a boundary.
Type(w) ==
  /\ Editing /\ Len(typed) < MaxInput /\ turn < MaxTurns
  /\ IF Place = {}
       THEN ui' = "gone" /\ UNCHANGED <<typed, cursor>>
       ELSE \E k \in Place :
              /\ typed' = SubSeq(typed, 1, k) \o <<w>> \o SubSeq(typed, k + 1, Len(typed))
              /\ cursor' = cursor + 1
              /\ UNCHANGED ui
  /\ UNCHANGED <<tab, turn, streaming, answer, link, up, lock, stream, sse>>

\* Mutant of Erase: Backspace leaves the cursor where it was.
EraseStays(at) ==
  /\ Editing /\ at \in {cursor - 1, cursor} /\ at >= 0 /\ at < Bytes(Len(typed))
  /\ \E k \in 1 .. Len(typed) : Bytes(k - 1) = at /\ typed' = Without(typed, k)
  /\ UNCHANGED <<ui, cursor, tab, turn, streaming, answer, link, up, lock, stream, sse>>

\* Backspace and Delete; String::remove panics off a boundary, too.
Erase(at) ==
  /\ Editing /\ at \in {cursor - 1, cursor} /\ at >= 0 /\ at < Bytes(Len(typed))
  /\ cursor' = at
  /\ \/ \E k \in 1 .. Len(typed) : Bytes(k - 1) = at /\ typed' = Without(typed, k) /\ UNCHANGED ui
     \/ /\ \A k \in 1 .. Len(typed) : Bytes(k - 1) # at
        /\ ui' = "gone" /\ UNCHANGED typed
  /\ UNCHANGED <<tab, turn, streaming, answer, link, up, lock, stream, sse>>

\* Left, Right, Home and End, also while an answer streams in.
Move(to) ==
  /\ ui = "idle" /\ tab = "chat"
  /\ to \in {cursor - 1, cursor + 1, 0, Bytes(Len(typed))}
  /\ to >= 0 /\ to <= Bytes(Len(typed)) /\ to # cursor
  /\ cursor' = to
  /\ UNCHANGED <<ui, tab, typed, turn, streaming, answer, link, up, lock, stream, sse>>

SwitchTab ==
  /\ ui = "idle" /\ ~ streaming
  /\ tab' = IF tab = "chat" THEN "cluster" ELSE "chat"
  /\ UNCHANGED <<ui, typed, cursor, turn, streaming, answer, link, up, lock, stream, sse>>

\* The user message and an empty assistant message are pushed, the request is
\* all messages but the last.
Enter ==
  /\ Editing /\ typed # <<>> /\ turn < MaxTurns
  /\ typed' = <<>> /\ cursor' = 0
  /\ turn' = turn + 1 /\ streaming' = TRUE
  /\ reader' = "post" /\ uich' = <<>> /\ sse' = <<>>
  /\ UNCHANGED <<ui, tab, answer, up, lock, stream>>

\* Esc: the process ends; the server notices on its next write.
Quit ==
  /\ ui = "idle" /\ ui' = "gone"
  /\ reader' = "none" /\ uich' = <<>> /\ sse' = <<>>
  /\ UNCHANGED <<tab, typed, cursor, turn, streaming, answer, up, lock, stream>>

\* On the cluster tab the loop itself awaits the topology, every ten seconds.
Fetch ==
  /\ ui = "idle" /\ tab = "cluster" /\ up /\ job[Tui] = "none"
  /\ ui' = "fetch"
  /\ lockq' = Append(lockq, Tui) /\ job' = [job EXCEPT ![Tui] = "wait"]
  /\ UNCHANGED <<tab, typed, cursor, turn, streaming, answer, link, up, holders, stream, sse>>

\* It is answered, or the server is gone.
Fetched ==
  /\ ui = "fetch" /\ job[Tui] = "done"
  /\ ui' = "idle"
  /\ job' = [job EXCEPT ![Tui] = "none"]
  /\ UNCHANGED <<tab, typed, cursor, turn, streaming, answer, link, up, lockq, holders, stream, sse>>

-----------------------------------------------------------------------------
(* The reader thread and the event loop. *)

\* The request is posted: its task is spawned, the stream starts.
Post ==
  /\ reader = "post" /\ up
  /\ reader' = "read"
  /\ lockq' = Append(lockq, turn) /\ job' = [job EXCEPT ![turn] = "wait"]
  /\ open' = open \cup {turn}
  /\ UNCHANGED <<client, uich, up, holders, gen, cut, chan, sse>>

\* There is no server, or an error status.
PostFails ==
  /\ reader = "post"
  /\ reader' = "none" /\ uich' = <<Error, End>>
  /\ UNCHANGED <<client, up, lock, stream, sse>>

ReadEvent ==
  /\ reader = "read" /\ sse # <<>>
  /\ uich' = Append(uich, Head(sse)) /\ sse' = Tail(sse)
  /\ reader' = IF Head(sse) = End THEN "none" ELSE "read"
  /\ UNCHANGED <<client, up, lock, stream>>

\* End of file.
ReadEof ==
  /\ reader = "read" /\ sse = <<>> /\ turn \notin open
  /\ uich' = Append(uich, End) /\ reader' = "none"
  /\ UNCHANGED <<client, up, lock, stream, sse>>

\* Mutant of Receive: the first text only ends the waiting.
FirstLost ==
  /\ ui = "idle" /\ streaming /\ uich # <<>>
  /\ streaming' = (Head(uich) # End) /\ uich' = Tail(uich)
  /\ answer' = IF Head(uich) \in {End, 1} THEN answer
                 ELSE [answer EXCEPT ![turn] = Append(@, Head(uich))]
  /\ UNCHANGED <<ui, tab, typed, cursor, turn, reader, up, lock, stream, sse>>

\* The loop takes an event: text is appended to the last message.
Receive ==
  /\ ui = "idle" /\ streaming /\ uich # <<>>
  /\ IF Head(uich) = End
       THEN streaming' = FALSE /\ uich' = <<>> /\ UNCHANGED answer
       ELSE /\ answer' = [answer EXCEPT ![turn] = Append(@, Head(uich))]
            /\ uich' = Tail(uich)
            /\ UNCHANGED streaming
  /\ UNCHANGED <<ui, tab, typed, cursor, turn, reader, up, lock, stream, sse>>

-----------------------------------------------------------------------------
(* The server. *)

Exclusive(r) == r \notin Readers

\* tokio's RwLock lets requests in in the order they came.
Acquire(r) ==
  /\ lockq # <<>> /\ r = Head(lockq)
  /\ IF Exclusive(r) THEN holders = {} ELSE holders \subseteq Readers
  /\ lockq' = Tail(lockq) /\ holders' = holders \cup {r}
  /\ job' = [job EXCEPT ![r] = "run"]
  /\ UNCHANGED <<client, link, up, stream, sse>>

\* Request r, which is running, is over.
Release(r) ==
  /\ holders' = holders \ {r}
  /\ job' = [job EXCEPT ![r] = "done"]
  /\ UNCHANGED lockq

\* Mutant of Send: one channel for all requests.
SendShared(t, e) == chan' = IF turn \in open THEN [chan EXCEPT ![turn] = Append(@, e)] ELSE chan

Send(t, e) == chan' = IF t \in open THEN [chan EXCEPT ![t] = Append(@, e)] ELSE chan

\* reset, the modality or a message is refused: no goodbye.
Refuse(t) ==
  /\ job[t] = "run" /\ gen[t] = 0
  /\ Send(t, End) /\ Release(t)
  /\ UNCHANGED <<client, link, up, gen, cut, open, sse>>

Token(t) ==
  /\ job[t] = "run" /\ gen[t] < MaxTokens
  /\ gen' = [gen EXCEPT ![t] = @ + 1]
  /\ Send(t, gen[t] + 1)
  /\ UNCHANGED <<client, link, up, lock, cut, open, sse>>

\* A token that decodes to no text is taken for the end of the stream.
EmptyToken(t) ==
  /\ job[t] = "run" /\ gen[t] < MaxTokens
  /\ gen' = [gen EXCEPT ![t] = @ + 1]
  /\ cut' = [cut EXCEPT ![t] = IF @ = 0 THEN gen[t] + 1 ELSE @]
  /\ Send(t, End)
  /\ UNCHANGED <<client, link, up, lock, open, sse>>

\* End of stream, the limit, or an error: then goodbye, or, where a debug build
\* panics on generated - 1, nothing.
GenerationEnds(t) ==
  /\ job[t] = "run"
  /\ Send(t, End)
  /\ \/ /\ job' = [job EXCEPT ![t] = "bye"]
        /\ UNCHANGED <<lockq, holders>>
     \/ gen[t] = 0 /\ Release(t)
  /\ UNCHANGED <<client, link, up, gen, cut, open, sse>>

\* Mutant of Goodbye: a failed goodbye keeps the lock.
KeepsLock(r) ==
  /\ job[r] = "bye"
  /\ job' = [job EXCEPT ![r] = "done"]
  /\ UNCHANGED <<client, link, up, lockq, holders, stream, sse>>

\* goodbye, whose error is discarded.
Goodbye(r) ==
  /\ job[r] = "bye" /\ Release(r)
  /\ UNCHANGED <<client, link, up, stream, sse>>

\* The event stream: an event for each token, finish and [DONE] for None.  The
\* writer of a connection nobody reads stops.
Emit(t) ==
  /\ t \in open /\ chan[t] # <<>>
  /\ LET e == Head(chan[t])
         read == t = turn /\ reader = "read"
     IN  /\ sse' = IF read THEN Append(sse, e) ELSE sse
         /\ IF e = End \/ ~ read
              THEN open' = open \ {t} /\ chan' = [chan EXCEPT ![t] = <<>>]
              ELSE open' = open /\ chan' = [chan EXCEPT ![t] = Tail(@)]
  /\ UNCHANGED <<client, link, up, lock, gen, cut>>

\* A request of another client.
Arrive(o) ==
  /\ up /\ o # Tui /\ job[o] = "none"
  /\ lockq' = Append(lockq, o) /\ job' = [job EXCEPT ![o] = "wait"]
  /\ UNCHANGED <<client, link, up, holders, stream, sse>>

\* Its text is generated; goodbye comes before the response.
Generated(o) ==
  /\ job[o] = "run" /\ o \notin Readers
  /\ job' = [job EXCEPT ![o] = "bye"]
  /\ UNCHANGED <<client, link, up, lockq, holders, stream, sse>>

\* Image, audio, a look at the master, a request refused.
Respond(o) ==
  /\ job[o] = "run" /\ Release(o)
  /\ UNCHANGED <<client, link, up, stream, sse>>

\* Its client resets the connection: the handler is dropped where it is.
Dropped(o) ==
  /\ o # Tui
  /\ \/ /\ job[o] = "wait"
        /\ \E k \in 1 .. Len(lockq) : lockq[k] = o /\ lockq' = Without(lockq, k)
     \/ /\ job[o] \in {"run", "bye"}
        /\ UNCHANGED lockq
  /\ holders' = holders \ {o}
  /\ job' = [job EXCEPT ![o] = "done"]
  /\ UNCHANGED <<client, link, up, stream, sse>>

ServerDies ==
  /\ up /\ up' = FALSE
  /\ lockq' = <<>> /\ holders' = {}
  /\ job' = [r \in DOMAIN job |-> IF job[r] = "none" THEN "none" ELSE "done"]
  /\ chan' = [t \in Turns |-> <<>>] /\ open' = {}
  /\ UNCHANGED <<client, link, gen, cut, sse>>

-----------------------------------------------------------------------------
Task(t)    == Token(t) \/ EmptyToken(t) \/ GenerationEnds(t) \/ Goodbye(t)
Handler(o) == Generated(o) \/ Respond(o) \/ Goodbye(o)
Thread     == Post \/ PostFails \/ ReadEvent \/ ReadEof

Next == \/ \E w \in Widths : Type(w)
        \/ \E c \in 0 .. 2 * MaxInput : Erase(c) \/ Move(c)
        \/ SwitchTab \/ Enter \/ Quit \/ Fetch \/ Fetched \/ Receive \/ Thread
        \/ \E r \in Turns \cup Others : Acquire(r)
        \/ \E t \in Turns : Task(t) \/ Refuse(t) \/ Emit(t)
        \/ \E o \in Others : Arrive(o) \/ Handler(o) \/ Dropped(o)
        \/ ServerDies

\* What goes on without a user, another client or a failure.
Steps == \/ Fetched \/ Receive \/ Thread
         \/ \E r \in Turns \cup Others : Acquire(r)
         \/ \E t \in Turns : Task(t) \/ Emit(t)
         \/ \E o \in Others : Handler(o)

Spec == Init /\ [][Next]_vars /\ WF_vars(Steps)

-----------------------------------------------------------------------------
TypeOK ==
  /\ ui \in {"idle", "fetch", "gone"} /\ tab \in {"chat", "cluster"}
  /\ typed \in Seq(Widths) /\ cursor \in Nat
  /\ turn \in 0 .. MaxTurns /\ streaming \in BOOLEAN
  /\ answer \in [Turns -> Seq(Int)]
  /\ reader \in {"none", "post", "read"} /\ uich \in Seq(Int) /\ sse \in Seq(Int)
  /\ up \in BOOLEAN
  /\ lockq \in Seq(Turns \cup Others) /\ holders \subseteq Turns \cup Others
  /\ job \in [Turns \cup Others -> {"none", "wait", "run", "bye", "done"}]
  /\ gen \in [Turns -> Nat] /\ cut \in [Turns -> Nat]
  /\ chan \in [Turns -> Seq(Int)] /\ open \subseteq Turns

\* The tokens an answer may be made of: those before the first without text.
Text(t) == [i \in 1 .. (IF cut[t] = 0 THEN gen[t] ELSE cut[t] - 1) |-> i]

IsPrefixOf(s, u) == Len(s) <= Len(u) /\ s = SubSeq(u, 1, Len(s))

\* A message of the chat holds the tokens of its own turn, in order and without
\* a gap, whatever of earlier turns is still under way; or one error text.
Placed == \A t \in Turns : answer[t] = <<Error>> \/ IsPrefixOf(answer[t], Text(t))

\* The events of s before the first End.
FirstEnd(s, n) == /\ \A i \in 1 .. n : s[i] # End
                  /\ n = Len(s) \/ s[n + 1] = End
Before(s)      == SubSeq(s, 1, CHOOSE n \in 0 .. Len(s) : FirstEnd(s, n))

\* The answer and what is in flight for it, in the three channels, make up all
\* the text generated so far: nothing is lost, repeated or left behind.
Whole == turn > 0 /\ streaming /\ up /\ ui # "gone" /\ job[turn] # "none"
           => answer[turn] \o Before(uich \o sse \o chan[turn]) = Text(turn)

\* A character of more than one byte is in the line.
Wide == \E i \in 1 .. Len(typed) : typed[i] # 1

\* The cursor, which counts keystrokes where the line counts bytes, never leaves
\* the line; it is between the bytes of a character, where the next key ends the
\* chat, only if one of more than one byte is in the line.
CursorFits == ui # "gone" => cursor <= Bytes(Len(typed)) /\ (Place # {} \/ Wide)

\* The lock comes free: the chat is never left streaming or waiting for the
\* topology, and no request of others is left in the queue.
Streams == ui # "gone" /\ streaming
Fetches == ui = "fetch"
Waits(o) == job[o] = "wait"
Served(o) == job[o] = "done"
Answered ==
  /\ Streams ~> ~Streams
  /\ Fetches ~> ~Fetches
  /\ \A o \in Others \ {Tui} : Waits(o) ~> Served(o)
=============================================================================
