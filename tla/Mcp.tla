-------------------------------- MODULE Mcp ---------------------------------
(***************************************************************************)
(* The MCP server (mcp/src/pb_chatroom_mcp): tool calls of agents turned   *)
(* into requests to the REST handlers of Api, beside the requests of other *)
(* clients.  One process serves every agent, so every request it makes     *)
(* bears that process's identity, Me.                                      *)
(*                                                                         *)
(* A call goes through validation, for chat_ask_peer a graphiti search,    *)
(* the sending of one request and the wait for its answer.  A request that *)
(* was sent is taken up by its handler at any later time, or never.  httpx *)
(* gives up after a few seconds: the call raises, the request or its       *)
(* handler goes on, and what an agent does about it is another call.       *)
(***************************************************************************)
EXTENDS Inbox

CONSTANTS Call,     \* tool calls
          Own,      \* requests that only they make, no other client
          Me        \* resolve_participant_id() of the MCP process

\* _validate has accepted Me; what the tools send is among what clients send.
ASSUME McpAssumption ==
  /\ Me \in Caller /\ Own \subseteq Request
  /\ {None, "design_question"} \subseteq TypeSent
  /\ \A n \in Name : [to |-> n, to_participants |-> <<>>] \in Payload

VARIABLE calls

mcpVars == <<vars, calls>>

\* The request a tool makes is one of these; the two readers answer at once.
RequestOf == [chat_list_threads |-> {}, chat_read_thread |-> {},
              chat_send |-> Reply, chat_ack |-> Ack, chat_claim |-> Claim,
              chat_ask_peer |-> Thread]

Tool == DOMAIN RequestOf

\* What the agent is told.  "detail" is an error body handed on as if it were
\* the answer, "raised" an exception out of the tool.
Result == {"ok", "detail", "not found", "not a participant", "conflict",
           "graphiti", "invalid", "unreachable", "server error", "raised"}

(***************************************************************************)
(* A call.  thread: thread_id, None if empty.  text: whether the body or   *)
(* the scope is there and not empty.  to: the participant asked or listed  *)
(* for, None if empty.  shown: the ids in a reader's answer.  after: the   *)
(* calls that had been told "ok" before it was made, a history that the    *)
(* properties need.                                                        *)
(***************************************************************************)
CallState == [stage   : {"idle", "search", "send", "wait", "done"},
              tool    : Tool \cup {None},
              thread  : Thread \cup {None},
              text    : BOOLEAN,
              to      : Name \cup {None},
              request : Request \cup {None},
              result  : Result \cup {None},
              shown   : SUBSET (Thread \cup Reply \cup Ack),
              after   : SUBSET Call]

ASSUME CallAssumption == None \notin Tool \cup Result

NoCall == [stage |-> "idle", tool |-> None, thread |-> None, text |-> FALSE,
           to |-> None, request |-> None, result |-> None, shown |-> {},
           after |-> {}]

Tell(k, result) ==
  calls' = [calls EXCEPT ![k].stage = "done", ![k].result = result]

-----------------------------------------------------------------------------

\* The early returns of the tools; chat_ack does without a body, and
\* chat_list_threads and chat_ask_peer take anything.
Acceptable(tool, thread, text) ==
  /\ tool \notin {"chat_list_threads", "chat_ask_peer"} => thread # None
  /\ tool \in {"chat_send", "chat_claim"} => text

\* Arguments a tool has no use for are left at their defaults.
Arguments == {c \in [tool : Tool, thread : Thread \cup {None}, text : BOOLEAN,
                     to : Name \cup {None}] :
                /\ c.tool \in {"chat_list_threads", "chat_ask_peer"} => c.thread = None
                /\ c.tool \in {"chat_list_threads", "chat_read_thread"} => c.text
                /\ c.tool \notin {"chat_list_threads", "chat_ask_peer"} => c.to = None}

\* call_tool.  A listing for nobody in particular is one for Me.
Invoke(k) ==
  /\ calls[k].stage = "idle"
  /\ \E c \in Arguments :
       LET acceptable == Acceptable(c.tool, c.thread, c.text)
       IN  calls' = [calls EXCEPT ![k] =
             [NoCall EXCEPT !.tool = c.tool, !.thread = c.thread, !.text = c.text,
                !.to = c.to, !.after = {l \in Call : calls[l].result = "ok"},
                !.stage = IF ~acceptable THEN "done"
                          ELSE IF c.tool = "chat_ask_peer" THEN "search" ELSE "send",
                !.result = IF acceptable THEN None ELSE "invalid"]]
  /\ UNCHANGED vars

\* Graphiti has a fact above the threshold, or a worse one, none or an error.
Search(k) ==
  /\ calls[k].stage = "search"
  /\ \/ Tell(k, "graphiti")
     \/ calls' = [calls EXCEPT ![k].stage = "send"]
  /\ UNCHANGED vars

\* GET /api/threads without a filter it was not given, GET /api/threads/{id}.
Read(k) ==
  /\ calls[k].stage = "send"
  /\ calls[k].tool \in {"chat_list_threads", "chat_read_thread"}
  /\ \E status \in {None, "open", "acked"} :
       LET c == calls[k]
           ids == IF c.tool = "chat_list_threads" THEN list_threads(c.to, status, {}, None)
                  ELSE {m.id : m \in MessagesOf(c.thread)}
       IN  calls' = [calls EXCEPT ![k].stage = "done", ![k].shown = ids,
                       ![k].result =
                         IF c.tool = "chat_read_thread" /\ ~Exists(c.thread)
                           THEN "not found" ELSE "ok"]
  /\ UNCHANGED vars

\* A new request of the tool's kind, on its way to the handlers.
InFlight(r) == \E k \in Call : calls[k].request = r

Send(k) ==
  /\ calls[k].stage = "send"
  /\ \E r \in RequestOf[calls[k].tool] :
       /\ At(r, "idle") /\ ~InFlight(r)
       /\ calls' = [calls EXCEPT ![k].stage = "wait", ![k].request = r]
  /\ UNCHANGED vars

\* The first step of a handler in Api, with what a call sent.
Handled(c, r) ==
  /\ IF r \in Thread THEN ReceiveThread(r)
     ELSE IF r \in Claim THEN PostClaim(r)
     ELSE ReadThread(r)
  /\ frame'[r].caller = Me
  /\ IF r \in Thread
       THEN /\ frame'[r].recipients = <<c.to>>
            /\ frame'[r].discussion_type = "design_question"
       ELSE /\ frame'[r].thread = c.thread
            /\ frame'[r].discussion_type = None

\* Bodies the schemas refuse: no body text, an empty `to`.
Unprocessable(c) == ~c.text \/ (c.tool = "chat_ask_peer" /\ c.to = None)

\* The request arrives, whether its call is still waiting or has raised.
TakeUp(k) ==
  LET c == calls[k]
  IN  /\ c.request # None
      /\ IF Unprocessable(c) THEN TurnAway(c.request, "422") ELSE Handled(c, c.request)
      /\ UNCHANGED calls

\* ConnectError is caught; a connection that times out or breaks is not.  The
\* readers report a 500.
Lose(k) ==
  /\ calls[k].stage = "send"
  /\ \/ \E result \in {"unreachable", "raised"} : Tell(k, result)
     \/ RequestOf[calls[k].tool] = {} /\ Tell(k, "server error")
  /\ UNCHANGED vars

\* Status codes each tool knows; of any other it returns the JSON.
Told(tool, status) ==
  IF status = "404" /\ tool # "chat_ask_peer" THEN "not found"
  ELSE IF status = "403" /\ tool \in {"chat_send", "chat_ack"} THEN "not a participant"
  ELSE IF status = "409" /\ tool = "chat_claim" THEN "conflict"
  ELSE IF status = "ok" THEN "ok" ELSE "detail"

Answer(k) ==
  LET c == calls[k]
  IN  /\ c.stage = "wait" /\ c.request \notin failed /\ pc[c.request] \in Answered
      /\ Tell(k, Told(c.tool, pc[c.request]))
      /\ UNCHANGED vars

\* Mutants of Raise: every error of the client is taken for a ConnectError; an
\* answer that does not come is taken for a good one.
Raise_AsUnreachable(k) ==
  /\ calls[k].stage = "wait"
  /\ Tell(k, "unreachable")
  /\ UNCHANGED vars

Raise_AsOk(k) ==
  /\ calls[k].stage = "wait"
  /\ Tell(k, "ok")
  /\ UNCHANGED vars

\* The answer is late or lost, or it is the text of a 500 and no JSON.
Raise(k) ==
  /\ calls[k].stage = "wait"
  /\ Tell(k, "raised")
  /\ UNCHANGED vars

Proceed(k) == \/ Search(k) \/ Read(k) \/ Send(k) \/ TakeUp(k)
              \/ Lose(k) \/ Answer(k) \/ Raise(k)

McpInit == Init /\ calls = [k \in Call |-> NoCall]

McpNext ==
  \/ /\ \E r \in Request : (r \notin Own /\ ~InFlight(r) /\ Arrive(r)) \/ Step(r) \/ Fail(r)
     /\ UNCHANGED calls
  \/ \E k \in Call : Invoke(k) \/ Proceed(k)

McpSpec == McpInit /\ [][McpNext]_mcpVars

-----------------------------------------------------------------------------
(* Properties *)

\* The rows request r has left behind.
Stored(r) == {m \in messages : m.id = r}

Claimed(r) == r # None /\ \E t \in Thread : threads[t].claim_scope = r

\* What "ok" means to the caller of each tool.
Effect(c) ==
  CASE c.tool = "chat_send" -> \E m \in Stored(c.request) :
                                 m.thread_id = c.thread /\ m.from_participant = Me
    [] c.tool = "chat_ack"  ->
         /\ \E m \in Stored(c.request) : m.thread_id = c.thread /\ m.kind = "ack"
         /\ \/ threads[c.thread].status = "acked"
            \/ thread_recipients[c.thread][Me] = "acked"
    [] c.tool = "chat_claim" -> threads[c.thread].claimed_by = Me
    [] c.tool = "chat_ask_peer" ->
         c.request \in list_threads(c.to, None, {}, None)
    [] c.tool = "chat_read_thread" ->
         c.shown \subseteq {m.id : m \in MessagesOf(c.thread)}
    [] c.tool = "chat_list_threads" ->
         c.shown \subseteq list_threads(c.to, None, {}, None)

\* What an agent was told is so: "ok" means that the message, the ack, the
\* claim or the thread is in the store, and the peer asked finds the thread in
\* its inbox; any other answer but "raised" that the request left nothing
\* behind (server.py:187-259, tools/*.py).
AnswersTrue ==
  \A k \in Call :
    LET c == calls[k]
    IN  /\ c.result = "ok" => Effect(c)
        /\ c.result \notin {"ok", "raised", None} =>
             Stored(c.request) = {} /\ ~Claimed(c.request)
        /\ c.result = "conflict" => threads[c.thread].claimed_by \notin {None, Me}

\* What an agent does after it was told "ok" comes after what it was told of:
\* within a thread its messages are listed in the order of its calls, and it
\* reads back what it has written, although every handler commits in several
\* transactions and earlier requests that raised may still arrive
\* (tools/chat_send.py, store/messages.py:40-72, store/threads.py:173-189).
\* A seed stamped on a whole second is excepted.
CallsInOrder ==
  \A l \in Call : \A k \in calls[l].after :
    \A m \in Stored(calls[k].request) :
      /\ \A n \in Stored(calls[l].request) :
           m.thread_id = n.thread_id /\ ~Bare(m.created_at)
             => Before(m.created_at, n.created_at)
      /\ calls[l].tool = "chat_read_thread" /\ calls[l].result = "ok"
         /\ calls[l].thread = m.thread_id
           => m.id \in calls[l].shown

\* server.py:118: "Optionally post a closing reply body".  Without one,
\* chat_ack posts {}, which MessageCreate refuses.
AckNeedsNoBody ==
  \A k \in Call : calls[k].tool = "chat_ack" => calls[k].result # "detail"
=============================================================================
