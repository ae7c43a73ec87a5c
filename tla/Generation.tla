---------------------------- MODULE Generation ----------------------------
(***************************************************************************)
(* What a caller of the chat API is promised: text is generated as if one  *)
(* process held the whole model.  Requests are served one at a time; every *)
(* token of a request is computed from that request's prompt and all the   *)
(* tokens generated so far, from nothing else and without a gap; a request *)
(* answered as a success ran to its token limit or to an end-of-stream     *)
(* token.  A request may fail at any point, but a failed request leaves no *)
(* trace in the ones that follow.                                          *)
(*                                                                         *)
(* Inference.tla implements this with blocks spread over workers.          *)
(***************************************************************************)
EXTENDS Naturals, Sequences

CONSTANTS MaxReq,     \* bound: number of requests served in a behaviour
          PromptLens, \* prompt lengths (in tokens) a request may have
          SampleLens  \* token limits (sample_len or max_tokens) it may have

VARIABLES req,        \* number of requests accepted so far
          busy,       \* a request is being served
          dialog,     \* prompt length of the request being served
          limit,      \* its token limit
          stream,     \* the tokens it has been given
          answers     \* the answers given to all requests, in order

vars == <<req, busy, dialog, limit, stream, answers>>

(* A token remembers which request, and how many of its tokens, it was     *)
(* computed from; eos marks an end-of-stream token.                        *)
Token == [req : Nat, seen : Nat, eos : BOOLEAN]

Ended(s) == s # <<>> /\ s[Len(s)].eos

Init == /\ req = 0
        /\ busy = FALSE
        /\ dialog = 0
        /\ limit = 0
        /\ stream = <<>>
        /\ answers = <<>>

Begin == /\ ~busy
         /\ req < MaxReq
         /\ req' = req + 1
         /\ busy' = TRUE
         /\ dialog' \in PromptLens
         /\ limit' \in SampleLens
         /\ stream' = <<>>
         /\ UNCHANGED answers

Emit == /\ busy
        /\ Len(stream) < limit
        /\ ~Ended(stream)
        /\ \E eos \in BOOLEAN :
             stream' = Append(stream, [req  |-> req,
                                       seen |-> dialog + Len(stream),
                                       eos  |-> eos])
        /\ UNCHANGED <<req, busy, dialog, limit, answers>>

Finish(ok) == /\ busy
              /\ ok => (Len(stream) = limit \/ Ended(stream))
              /\ busy' = FALSE
              /\ answers' = Append(answers, [ok |-> ok, tokens |-> stream])
              /\ UNCHANGED <<req, dialog, limit, stream>>

Next == Begin \/ Emit \/ \E ok \in BOOLEAN : Finish(ok)

Spec == Init /\ [][Next]_vars
=============================================================================
