----------------------------- MODULE McpProofs ------------------------------
(***************************************************************************)
(* Proofs that an agent can believe what a tool call told it, and that     *)
(* what it does next comes after it, for any number of calls, of requests  *)
(* by other clients, of late arrivals and of dying handlers.               *)
(***************************************************************************)
EXTENDS Mcp, TalkProofs

-----------------------------------------------------------------------------
(* What the tables tell of the requests that wrote them *)

\* The reply or ack has written its message.
Wrote(r) == Stamped(r) /\ pc[r] \notin {"append", "append_ack", "insert"}

Filed(r) == \E m \in Stored(r) :
              /\ m.thread_id = frame[r].thread
              /\ m.from_participant = frame[r].caller
              /\ r \in Ack => m.kind = "ack"

\* Every message is of a request that has written it, and every scope of a claim
\* that was answered.
TraceInv ==
  /\ BoardInv /\ ClaimInv
  /\ \A t \in Thread :
       threads[t].claim_scope # None =>
         pc[threads[t].claim_scope] = "ok" /\ frame[threads[t].claim_scope].thread = t
  /\ \A m \in messages : /\ m.id \in Thread => Exists(m.id)
                         /\ m.id \in Reply \cup Ack => Wrote(m.id)
  /\ \A r \in Reply \cup Ack : Wrote(r) => Filed(r)

\* The tables tell nothing yet.
LEMMA InitTraceInv == Init => TraceInv
<1> SUFFICES ASSUME Init PROVE TraceInv
  OBVIOUS
<1>1. BoardInv /\ ClaimInv
  BY InitBoardInv, InitClaimInv
<1>2. QED
  BY <1>1 DEF Init, InitStore, NoThread, TraceInv, Wrote, Stamped, Found, Received, Request

\* Claims write scopes, and nothing else does.
LEMMA ScopesStay ==
  ASSUME HistInv, NEW q \in Request, Comes(q) \/ Step(q) \/ Fail(q),
         ~(q \in Claim /\ PostClaim(q)), NEW t \in Thread
  PROVE  threads'[t].claim_scope = threads[t].claim_scope
<1>1. TypeInv /\ threads \in [Thread -> ThreadRow] /\ threads[t] \in ThreadRow
  BY DEF HistInv, TypeInv, TypeOK, StoreTypeOK
<1>2. CASE q \in Thread \cup Reply /\ SetType(q)
  BY <1>1, <1>2 DEF SetType, set_discussion_type, ThreadRow
<1>3. CASE q \in Thread /\ CreateThread(q)
  <2>1. threads[q].claim_scope = None
    BY <1>1, <1>3 DEF CreateThread, At, TypeInv, RowsOK, HistInv, Blank, NoThread
  <2>2. QED
    BY <1>1, <1>3, <2>1 DEF CreateThread, create_thread
<1>4. CASE q \in Reply /\ AppendMessage(q)
  BY <1>1, <1>4 DEF AppendMessage, append_message, ThreadRow
<1>5. CASE q \in Ack /\ AppendAck(q)
  BY <1>1, <1>5 DEF AppendAck, append_ack, ThreadRow
<1>6. CASE q \in Ack /\ InsertAck(q)
  BY <1>1, <1>6 DEF InsertAck, insert_ack, ThreadRow
<1>7. CASE q \in Ack /\ CloseThread(q)
  BY <1>1, <1>7 DEF CloseThread, update_thread_status, ThreadRow
<1>8. CASE threads' = threads
  BY <1>8
<1>9. QED
  BY <1>2, <1>3, <1>4, <1>5, <1>6, <1>7, <1>8
     DEF Comes, Step, Fail, ReceiveThread, ReadThread, Turned, TurnAway, AddRecipient,
         add_recipient, ReadRecipients, Refuse, Resolve, MarkRecipient,
         mark_recipient_acked, CheckAll, tables

\* So a scope is always that of a claim answered on its thread
\* (store/threads.py:243-263).
LEMMA ScopesTrace ==
  ASSUME TraceInv, NEW q \in Request, Comes(q) \/ Step(q) \/ Fail(q), NEW t \in Thread,
         threads'[t].claim_scope # None
  PROVE  /\ pc'[threads'[t].claim_scope] = "ok"
         /\ frame'[threads'[t].claim_scope].thread = t
<1>1. /\ TypeInv /\ HistInv /\ Moves(q)
      /\ threads \in [Thread -> ThreadRow] /\ threads[t] \in ThreadRow
      /\ pc \in [Request -> {"idle"} \cup Running \cup Answered]
      /\ frame \in [Request -> Frame]
  BY Mover DEF TraceInv, ClaimInv, HistInv, TypeInv, TypeOK, StoreTypeOK
<1>2. CASE threads'[t].claim_scope = threads[t].claim_scope
  <2>1. threads[t].claim_scope \in Request
    BY <1>1, <1>2 DEF ThreadRow, Request
  <2>2. /\ pc[threads[t].claim_scope] = "ok"
        /\ frame[threads[t].claim_scope].thread = t
    BY <1>2 DEF TraceInv
  <2>3. QED
    BY <1>1, <1>2, <2>1, <2>2 DEF Moves
<1>3. CASE threads'[t].claim_scope # threads[t].claim_scope
  <2>1. q \in Claim /\ PostClaim(q)
    BY <1>1, <1>3, ScopesStay
  <2>2. PICK caller \in Caller, u \in Thread :
          /\ threads' = IF Exists(u) /\ threads[u].claimed_by = None
                          THEN [threads EXCEPT ![u].claimed_by = caller,
                                               ![u].claim_scope = q]
                          ELSE threads
          /\ pc' = [pc EXCEPT ![q] = IF ~Exists(u) THEN "404"
                                     ELSE IF threads'[u].claimed_by = caller
                                       THEN "ok" ELSE "409"]
          /\ frame' = [frame EXCEPT ![q] = Locals(caller, u, None, None, None, <<>>)]
    BY <2>1 DEF PostClaim, set_claim, Goto
  <2>3. t = u /\ Exists(u) /\ threads[u].claimed_by = None
    BY <1>1, <1>3, <2>2
  <2>4. /\ threads'[t].claim_scope = q /\ threads'[t].claimed_by = caller
    BY <1>1, <2>2, <2>3 DEF ThreadRow
  <2>5. pc'[q] = "ok" /\ frame'[q].thread = t
    BY <1>1, <2>2, <2>3, <2>4 DEF Locals
  <2>6. QED
    BY <2>4, <2>5
<1>4. QED
  BY <1>2, <1>3

\* What a step inserts, if anything, bears the id of its request.
LEMMA MessagesTrace ==
  ASSUME TraceInv, NEW q \in Request, Comes(q) \/ Step(q) \/ Fail(q)
  PROVE  /\ \A m \in messages' : m \notin messages =>
              /\ m.id = q
              /\ q \in Thread => Exists(q)'
              /\ q \in Reply \cup Ack => Wrote(q)'
         /\ q \in Reply \cup Ack => (Wrote(q)' => Wrote(q) \/ Filed(q)')
<1>1. /\ TypeInv /\ threads \in [Thread -> ThreadRow]
      /\ pc \in [Request -> {"idle"} \cup Running \cup Answered]
  BY DEF TraceInv, ClaimInv, HistInv, TypeInv, TypeOK, StoreTypeOK
<1>2. CASE q \in Thread /\ CreateThread(q)
  <2>1. Exists(q)'
    BY <1>1, <1>2 DEF CreateThread, create_thread, Exists
  <2>2. QED
    BY <1>2, <2>1, Kinds DEF CreateThread, create_thread, Insert
<1>3. CASE q \in Reply /\ AppendMessage(q)
  <2>1. Wrote(q)'
    BY <1>1, <1>3 DEF AppendMessage, Goto, Wrote, Stamped, Found, Received
  <2>2. Filed(q)'
    BY <1>3, Kinds DEF AppendMessage, append_message, Insert, Filed, Stored
  <2>3. QED
    BY <1>3, <2>1, <2>2, Kinds DEF AppendMessage, append_message, Insert
<1>4. CASE q \in Ack /\ (AppendAck(q) \/ InsertAck(q))
  <2>1. Wrote(q)'
    BY <1>1, <1>4 DEF AppendAck, InsertAck, Goto, Wrote, Stamped, Found, Received
  <2>2. Filed(q)'
    <3> DEFINE m == [id |-> q, thread_id |-> frame[q].thread,
                     from_participant |-> frame[q].caller,
                     to_participant |-> frame[q].to, kind |-> "ack",
                     created_at |-> frame[q].created_at]
    <3>1. messages' = messages \cup {m} /\ frame' = frame
      BY <1>4 DEF AppendAck, append_ack, InsertAck, insert_ack, Insert
    <3>2. /\ m.id = q /\ m.thread_id = frame[q].thread
          /\ m.from_participant = frame[q].caller /\ m.kind = "ack"
      OBVIOUS
    <3> HIDE DEF m
    <3>3. m \in Stored(q)'
      BY <3>1, <3>2 DEF Stored
    <3>4. QED
      BY <3>1, <3>2, <3>3 DEF Filed
  <2>3. \A m \in messages' : m \notin messages => m.id = q
    BY <1>4 DEF AppendAck, append_ack, InsertAck, insert_ack, Insert
  <2>4. q \notin Thread
    BY <1>4, Kinds
  <2>5. QED
    BY <2>1, <2>2, <2>3, <2>4
<1>5. CASE ~(q \in Thread /\ CreateThread(q)) /\ ~(q \in Reply /\ AppendMessage(q))
           /\ ~(q \in Ack /\ (AppendAck(q) \/ InsertAck(q)))
  <2>1. messages' = messages
    BY <1>5 DEF Comes, Step, Fail, ReceiveThread, ReadThread, PostClaim, set_claim, Turned,
       TurnAway, AddRecipient, add_recipient, SetType, set_discussion_type,
       ReadRecipients, Refuse, Resolve, MarkRecipient, mark_recipient_acked, CheckAll,
       CloseThread, update_thread_status, tables
  <2>2. ASSUME q \in Reply \cup Ack, Wrote(q)' PROVE Wrote(q)
    <3>1. q \notin Thread /\ q \notin Claim
      BY <2>2, Kinds
    <3>2. \/ ReadThread(q) \/ Turned(q) \/ SetType(q) \/ ReadRecipients(q) \/ Refuse(q)
          \/ Resolve(q) \/ MarkRecipient(q) \/ CheckAll(q) \/ CloseThread(q) \/ Fail(q)
      BY <1>5, <3>1 DEF Comes, Step
    <3>3. QED
      BY <1>1, <2>2, <3>2 DEF ReadThread, Turned, TurnAway, SetType, ReadRecipients,
         Refuse, Resolve, MarkRecipient, CheckAll, CloseThread, Fail, At, Goto, Wrote,
         Stamped, Found, Received
  <2>3. QED
    BY <2>1, <2>2
<1>6. QED
  BY <1>2, <1>3, <1>4, <1>5

\* What was written stays traced.
LEMMA WroteStays ==
  ASSUME TypeInv, NEW q \in Request, Comes(q) \/ Step(q) \/ Fail(q),
         NEW r \in Reply \cup Ack, Wrote(r)
  PROVE  /\ Wrote(r)' /\ frame'[r].thread = frame[r].thread
         /\ frame'[r].caller = frame[r].caller
<1>1. r \in Request /\ Moves(q)
      /\ pc \in [Request -> {"idle"} \cup Running \cup Answered]
  BY Mover DEF Request, TypeInv, TypeOK
<1>2. CASE q # r
  BY <1>1, <1>2 DEF Moves, Wrote, Stamped, Found, Received
<1>3. CASE q = r
  <2>1. pc[r] # "idle"
    BY DEF Wrote, Stamped, Found, Received
  <2>2. frame'[r].thread = frame[r].thread /\ frame'[r].caller = frame[r].caller
    BY <1>3, <2>1, Runs
  <2>3. r \notin Thread /\ r \notin Claim
    BY Kinds
  <2>4. \/ SetType(r) \/ MarkRecipient(r) \/ CheckAll(r) \/ CloseThread(r) \/ Fail(r)
    BY <1>3, <2>3 DEF Comes, Step, ReadThread, Turned, TurnAway, ReadRecipients, Refuse,
       Resolve, AppendMessage, AppendAck, InsertAck, At, Wrote, Stamped, Found, Received
  <2>5. Wrote(r)'
    BY <1>1, <2>3, <2>4 DEF SetType, MarkRecipient, CheckAll, CloseThread, Fail, Goto,
       Wrote, Stamped, Found, Received
  <2>6. QED
    BY <2>2, <2>5
<1>4. QED
  BY <1>2, <1>3

\* Every step of the handlers keeps the tables telling the truth.
LEMMA TraceStep == TraceInv /\ [Motion]_vars => TraceInv'
<1> SUFFICES ASSUME TraceInv, [Motion]_vars PROVE TraceInv'
  OBVIOUS
<1>1. BoardInv' /\ ClaimInv'
  BY BoardStep, ClaimInvStep DEF TraceInv, Advance
<1>2. CASE UNCHANGED vars
  BY <1>1, <1>2 DEF TraceInv, Wrote, Filed, Stored, Stamped, Found, Received, Exists, vars
<1>3. ASSUME NEW q \in Request, Comes(q) \/ Step(q) \/ Fail(q) PROVE TraceInv'
  <2>1. TypeInv /\ Grows
    BY <1>3, Growth DEF TraceInv, BoardInv, Base, HistInv
  <2>2. \A t \in Thread :
          threads'[t].claim_scope # None =>
            /\ pc'[threads'[t].claim_scope] = "ok"
            /\ frame'[threads'[t].claim_scope].thread = t
    BY <1>3, ScopesTrace
  <2>3. ASSUME NEW m \in messages'
        PROVE  /\ m.id \in Thread => Exists(m.id)'
               /\ m.id \in Reply \cup Ack => Wrote(m.id)'
    <3>1. CASE m \in messages
      BY <1>3, <2>1, <3>1, WroteStays DEF TraceInv, Grows, Exists
    <3>2. CASE m \notin messages
      BY <1>3, <3>2, MessagesTrace
    <3>3. QED
      BY <3>1, <3>2
  <2>4. ASSUME NEW r \in Reply \cup Ack, Wrote(r)' PROVE Filed(r)'
    <3>1. CASE Wrote(r)
      <4>1. Filed(r)
        BY <3>1 DEF TraceInv
      <4>2. frame'[r].thread = frame[r].thread /\ frame'[r].caller = frame[r].caller
        BY <1>3, <2>1, <3>1, WroteStays
      <4>3. QED
        BY <2>1, <4>1, <4>2 DEF Filed, Stored, Grows
    <3>2. CASE ~Wrote(r)
      <4>1. r = q
        BY <1>3, <2>1, <2>4, <3>2, Mover DEF Moves, Wrote, Stamped, Found, Received, Request
      <4>2. QED
        BY <1>3, <2>4, <3>2, <4>1, MessagesTrace
    <3>3. QED
      BY <3>1, <3>2
  <2>5. QED
    BY <1>1, <2>2, <2>3, <2>4 DEF TraceInv
<1>4. QED
  BY <1>2, <1>3 DEF Motion

-----------------------------------------------------------------------------
(* When the messages were stamped *)

\* A handler's stamp is not in the future, and is the one its message bears.
StampInv ==
  /\ TraceInv /\ TalkInv
  /\ \A r \in Reply \cup Ack :
       /\ Stamped(r) => ~Past(now, frame[r].created_at)
       /\ \A m \in Stored(r) : m.created_at = frame[r].created_at

LEMMA InitStampInv == Init => StampInv
<1> SUFFICES ASSUME Init PROVE StampInv
  OBVIOUS
<1>1. TraceInv /\ TalkInv
  BY InitTraceInv, InitTalkInv
<1>2. QED
  BY <1>1 DEF StampInv, Init, InitStore, Stamped, Found, Received, Stored, Request

\* So no message bears a stamp of the future.
LEMMA NothingAhead ==
  ASSUME StampInv, NEW m \in messages
  PROVE  m.created_at \in Stamp /\ ~Past(now, m.created_at)
<1>1. m.created_at \in Stamp /\ m.id \in Thread \cup Reply \cup Ack
  BY DEF StampInv, TalkInv, Base, HistInv, TypeInv, TypeOK, StoreTypeOK, MessageRow
<1>2. CASE m.id \in Reply \cup Ack
  <2>1. Stamped(m.id)
    BY <1>2 DEF StampInv, TraceInv, Wrote
  <2>2. m.created_at = frame[m.id].created_at
    BY <1>2 DEF StampInv, Stored
  <2>3. QED
    BY <1>1, <1>2, <2>1, <2>2 DEF StampInv
<1>3. CASE m.id \in Thread
  <2> DEFINE t == m.thread_id
  <2>1. m = Seed(t) /\ t \in Thread /\ Exists(t)
    BY <1>3 DEF StampInv, TalkInv, Answers, Base, HistInv, TypeInv, RowsOK
  <2>2. m.created_at = SeedStamp(t)
    BY <2>1 DEF Seed
  <2>3. QED
    BY <1>1, <2>1, <2>2, ThreadKnown DEF StampInv
<1>4. QED
  BY <1>1, <1>2, <1>3

\* A handler is stamped once, by a new reading of the clock (store/messages.py:21).
LEMMA Stamping ==
  ASSUME TypeInv, NEW q \in Request, Comes(q) \/ Step(q) \/ Fail(q),
         NEW r \in Reply \cup Ack, Stamped(r)'
  PROVE  \/ Stamped(r) /\ frame'[r].created_at = frame[r].created_at
         \/ ~Stamped(r) /\ Resolve(r)
<1>1. r \in Request /\ Moves(q) /\ r \notin Thread /\ r \notin Claim
      /\ pc \in [Request -> {"idle"} \cup Running \cup Answered]
  BY Mover, Kinds DEF Request, TypeInv, TypeOK
<1>2. CASE q # r
  BY <1>1, <1>2 DEF Moves, Stamped, Found, Received
<1>3. CASE q = r
  <2>1. CASE Resolve(r)
    BY <2>1 DEF Resolve, At, Stamped
  <2>2. CASE ~Resolve(r)
    <3>1. \/ ReadThread(r) \/ Turned(r) \/ ReadRecipients(r) \/ Refuse(r)
          \/ SetType(r) \/ AppendMessage(r) \/ AppendAck(r) \/ InsertAck(r)
          \/ MarkRecipient(r) \/ CheckAll(r) \/ CloseThread(r) \/ Fail(r)
      BY <1>1, <1>3, <2>2 DEF Comes, Step
    <3>2. /\ ~ReadThread(r) /\ ~Turned(r) /\ ~ReadRecipients(r) /\ ~Refuse(r)
      BY <1>1 DEF ReadThread, Turned, TurnAway, ReadRecipients, Refuse, Goto, Stamped,
         Found, Received
    <3>3. frame' = frame
      BY <3>1, <3>2 DEF SetType, AppendMessage, AppendAck, InsertAck, MarkRecipient,
         CheckAll, CloseThread, Fail
    <3>4. Stamped(r)
      BY <1>1, <3>1, <3>2 DEF SetType, AppendMessage, AppendAck, InsertAck,
         MarkRecipient, CheckAll, CloseThread, Fail, At, Stamped, Found, Received
    <3>5. QED
      BY <3>3, <3>4
  <2>3. QED
    BY <2>1, <2>2
<1>4. QED
  BY <1>2, <1>3

\* That reading is later than every stamp there is.
LEMMA ResolvedLast ==
  ASSUME TypeInv, NEW r \in Reply \cup Ack, Resolve(r)
  PROVE  /\ frame'[r].created_at \in Stamp /\ ~Past(now', frame'[r].created_at)
         /\ \A at \in Stamp : ~Past(now, at) => Past(at, frame'[r].created_at)
<1>1. r \in Request /\ now \in Instant /\ frame \in [Request -> Frame]
  BY DEF Request, TypeInv, TypeOK
<1>2. PICK i \in Later(now) :
        /\ now' = i
        /\ frame' = [frame EXCEPT ![r].to = _resolve_participants(frame[r]),
                                  ![r].created_at = now_iso(i)]
  BY DEF Resolve
<1>3. frame'[r].created_at = now_iso(i) /\ i \in Instant /\ now_iso(i) \in Stamp
  BY <1>1, <1>2, LaterInstants DEF Frame
<1>4. /\ now.sec \in Nat /\ now.us \in Nat /\ i.sec \in Nat /\ i.us \in Nat
      /\ i.sec > now.sec \/ (i.sec = now.sec /\ i.us > now.us)
  <2>1. now.sec \in Nat /\ now.us \in Nat /\ i.sec \in Nat /\ i.us \in Nat
    BY <1>1, <1>3, MicroAssumption DEF Instant
  <2>2. i.sec \in {now.sec, now.sec + 1} /\ (i.sec > now.sec \/ i.us > now.us)
    BY DEF Later
  <2>3. QED
    BY <2>1, <2>2
<1>5. ASSUME NEW at \in Stamp, ~Past(now, at) PROVE Past(at, now_iso(i))
  <2>1. at.sec \in Nat /\ at.us \in Nat
    BY MicroAssumption DEF Stamp
  <2>2. QED
    BY <1>4, <1>5, <2>1 DEF Past, now_iso
<1>6. ~Past(i, now_iso(i))
  BY <1>4 DEF Past, now_iso
<1>7. QED
  BY <1>2, <1>3, <1>5, <1>6

\* What a reply or ack inserts bears its stamp (store/messages.py:52, 79).
LEMMA InsertsStamp ==
  ASSUME NEW r \in Reply \cup Ack, Step(r) \/ Comes(r) \/ Fail(r),
         NEW m \in messages', m \notin messages
  PROVE  m.created_at = frame'[r].created_at
<1>1. r \notin Thread /\ r \notin Claim
  BY Kinds
<1>2. \/ AppendMessage(r) \/ AppendAck(r) \/ InsertAck(r)
  BY <1>1 DEF Comes, Step, Fail, ReadThread, PostClaim, set_claim, Turned,
     TurnAway, SetType, set_discussion_type,
     ReadRecipients, Refuse, Resolve, MarkRecipient, mark_recipient_acked, CheckAll,
     CloseThread, update_thread_status, tables
<1>3. QED
  BY <1>2 DEF AppendMessage, append_message, AppendAck, append_ack, InsertAck, insert_ack,
     Insert

\* Every step of the handlers keeps the stamps where they are.
LEMMA StampStep == StampInv /\ [Motion]_vars => StampInv'
<1> SUFFICES ASSUME StampInv, [Motion]_vars PROVE StampInv'
  OBVIOUS
<1>1. TraceInv' /\ TalkInv'
  BY TraceStep, TalkStep DEF StampInv
<1>2. CASE UNCHANGED vars
  BY <1>1, <1>2 DEF StampInv, Stored, Stamped, Found, Received, Past, vars
<1>3. ASSUME NEW q \in Request, Comes(q) \/ Step(q) \/ Fail(q),
             NEW r \in Reply \cup Ack
      PROVE  /\ Stamped(r)' => ~Past(now', frame'[r].created_at)
             /\ \A m \in Stored(r)' : m.created_at = frame'[r].created_at
  <2>1. TypeInv /\ TypeInv'
    BY <1>1 DEF StampInv, TalkInv, Base, HistInv
  <2>2. ASSUME Stamped(r)' PROVE ~Past(now', frame'[r].created_at)
    <3>1. CASE Stamped(r) /\ frame'[r].created_at = frame[r].created_at
      <4>1. ~Past(now, frame[r].created_at) /\ frame[r].created_at \in Stamp
        BY <2>1, <3>1 DEF StampInv, TypeInv, FramesOK
      <4>2. QED
        BY <1>3, <2>1, <3>1, <4>1, ClockGoesOn
    <3>2. CASE Resolve(r)
      BY <2>1, <3>2, ResolvedLast
    <3>3. QED
      BY <1>3, <2>1, <2>2, <3>1, <3>2, Stamping
  <2>3. ASSUME NEW m \in Stored(r)' PROVE m.created_at = frame'[r].created_at
    <3>1. m \in messages' /\ m.id = r
      BY DEF Stored
    <3>2. CASE m \in messages
      <4>1. m.created_at = frame[r].created_at /\ Wrote(r)
        BY <3>1, <3>2 DEF StampInv, Stored, TraceInv
      <4>2. Stamped(r) /\ Stamped(r)'
        BY <1>3, <2>1, <4>1, WroteStays DEF Wrote
      <4>3. frame'[r].created_at = frame[r].created_at
        BY <1>3, <2>1, <4>2, Stamping
      <4>4. QED
        BY <4>1, <4>3
    <3>3. CASE m \notin messages
      <4>1. m.id = q
        BY <1>3, <3>1, <3>3, MessagesTrace DEF StampInv
      <4>2. QED
        BY <1>3, <3>1, <3>3, <4>1, InsertsStamp
    <3>4. QED
      BY <3>2, <3>3
  <2>4. QED
    BY <2>2, <2>3
<1>4. QED
  BY <1>1, <1>2, <1>3 DEF StampInv, Motion

-----------------------------------------------------------------------------
(* The calls: the inductive invariant *)

Writers  == {"chat_send", "chat_ack", "chat_claim", "chat_ask_peer"}
Refusals == {"400", "403", "404", "409", "422"}

\* A call has the tool, the arguments, the request and the result of its stage.
Staged(c) ==
  /\ c \in CallState
  /\ c.stage # "idle" => c.tool \in Tool
  /\ c.stage = "done" <=> c.result # None
  /\ c.stage = "search" => c.tool = "chat_ask_peer"
  /\ c.stage = "send" \/ c.request # None => Acceptable(c.tool, c.thread, c.text)
  /\ c.stage = "wait" => c.request # None
  /\ c.request # None => c.stage \in {"wait", "done"}

\* The request of a call is of its tool's kind; once received it bears the name
\* of the process and the call's arguments.
Mine(c) ==
  LET r == c.request
  IN  r # None =>
        /\ r \in RequestOf[c.tool]
        /\ Received(r) => /\ frame[r].caller = Me
                          /\ r \in Thread => frame[r].recipients = <<c.to>>
                          /\ r \notin Thread => frame[r].thread = c.thread

\* What an agent was told is what the handler answered; a reader's answer holds.
Honest(c) ==
  /\ c.result = "ok" /\ c.tool \in Writers => c.request # None /\ pc[c.request] = "ok"
  /\ c.result = "ok" /\ c.tool \notin Writers => Effect(c)
  /\ c.result \notin {"ok", "raised", None} =>
       c.request = None \/ pc[c.request] \in Refusals
  /\ c.result = "conflict" => /\ c.request # None /\ c.tool = "chat_claim"
                              /\ pc[c.request] = "409"

Fine(c) == Staged(c) /\ Mine(c) /\ Honest(c)

\* A call and its request come after an earlier one, d, that was told "ok".
After(d, c) ==
  /\ d.result = "ok"
  /\ \A m \in Stored(d.request) :
       /\ c.request \in Thread => m.thread_id # c.request
       /\ c.request \in Reply \cup Ack /\ Stamped(c.request) =>
            Past(m.created_at, frame[c.request].created_at)
       /\ c.tool = "chat_read_thread" /\ c.result = "ok" /\ c.thread = m.thread_id =>
            m.id \in c.shown

\* No two calls have sent the same request.
Sole == \A k, l \in Call :
          calls[k].request = calls[l].request => k = l \/ calls[k].request = None

McpInv ==
  /\ StampInv
  /\ calls \in [Call -> CallState]
  /\ Sole
  /\ \A c \in {calls[k] : k \in Call} : Fine(c)
  /\ \A c \in {calls[k] : k \in Call} : \A k \in c.after : After(calls[k], c)

\* The tools, what they send and what is never told.
LEMMA Tools ==
  /\ None \notin Result /\ None \notin Tool
  /\ Tool = {"chat_list_threads", "chat_read_thread", "chat_send", "chat_ack",
             "chat_claim", "chat_ask_peer"}
  /\ RequestOf["chat_list_threads"] = {} /\ RequestOf["chat_read_thread"] = {}
  /\ RequestOf["chat_send"] = Reply /\ RequestOf["chat_ack"] = Ack
  /\ RequestOf["chat_claim"] = Claim /\ RequestOf["chat_ask_peer"] = Thread
  /\ \A tool \in Tool : RequestOf[tool] \subseteq Request
BY CallAssumption DEF Tool, RequestOf, Request

LEMMA NoCallIsFine == NoCall \in CallState /\ Fine(NoCall)
<1>1. NoCall \in CallState
  BY DEF NoCall, CallState
<1>2. QED
  BY <1>1, Tools DEF NoCall, Result, Fine, Staged, Mine, Honest

\* No call has been made yet.
LEMMA InitMcpInv == McpInit => McpInv
<1> SUFFICES ASSUME McpInit PROVE McpInv
  OBVIOUS
<1>1. StampInv
  BY InitStampInv DEF McpInit
<1>2. \A k \in Call : calls[k] = NoCall
  BY DEF McpInit
<1>3. NoCall.request = None /\ NoCall.after = {}
  BY DEF NoCall
<1>4. Sole /\ \A c \in {calls[k] : k \in Call} : \A k \in c.after : After(calls[k], c)
  BY <1>2, <1>3 DEF Sole
<1>5. QED
  BY <1>1, <1>2, <1>4, NoCallIsFine DEF McpInit, McpInv

\* A call done with a request of its own is of a tool that writes.
LEMMA OwnRequest ==
  ASSUME NEW c, Staged(c), Mine(c), c.request # None
  PROVE  /\ c.request \in Request /\ c.tool \in Writers
         /\ c.tool = "chat_send" => c.request \in Reply
         /\ c.tool = "chat_ack" => c.request \in Ack
         /\ c.tool = "chat_claim" => c.request \in Claim
         /\ c.tool = "chat_ask_peer" => c.request \in Thread
         /\ c.tool # "chat_ask_peer" => c.thread \in Thread /\ c.request \notin Thread
<1>1. c.tool \in Tool /\ c.request \in RequestOf[c.tool]
  BY DEF Staged, Mine
<1>2. c.thread \in Thread \cup {None}
  BY DEF Staged, CallState
<1>3. c.tool # "chat_ask_peer" => c.thread # None \/ c.tool = "chat_list_threads"
  BY DEF Staged, Acceptable
<1>4. QED
  BY <1>1, <1>2, <1>3, Tools, Kinds DEF Writers

-----------------------------------------------------------------------------
(* Steps of the handlers *)

\* A reader's answer only has more to show later (store/threads.py:76-104).
LEMMA ShownStays ==
  ASSUME TraceInv, NEW q \in Request, Comes(q) \/ Step(q) \/ Fail(q),
         NEW c, Staged(c), c.result = "ok", c.tool \notin Writers, Effect(c)
  PROVE  Effect(c)'
<1>1. Grows /\ TypeInv
  BY Growth DEF TraceInv, BoardInv, Base, HistInv
<1>2. c.tool \in {"chat_list_threads", "chat_read_thread"}
  BY Tools DEF Staged, Writers, Result
<1>3. CASE c.tool = "chat_read_thread"
  BY <1>1, <1>3 DEF Effect, MessagesOf, Grows
<1>4. CASE c.tool = "chat_list_threads"
  <2>1. c.shown \subseteq list_threads(c.to, None, {}, None)
    BY <1>4 DEF Effect
  <2>2. ASSUME NEW t \in list_threads(c.to, None, {}, None)
        PROVE  t \in list_threads(c.to, None, {}, None)'
    <3>1. t \in Thread /\ Exists(t) /\ (c.to # None => Addressed(t, c.to))
      BY DEF list_threads
    <3>2. Exists(t)'
      BY <1>1, <3>1 DEF Grows, Exists
    <3>3. c.to # None => Addressed(t, c.to)'
      BY <1>1, <3>1 DEF Addressed, list_recipients, MessagesOf, Grows
    <3>4. QED
      BY <3>1, <3>2, <3>3 DEF list_threads
  <2>3. QED
    BY <1>4, <2>1, <2>2 DEF Effect
<1>5. QED
  BY <1>2, <1>3, <1>4

\* What a call is and was told stays true while nothing moves.
LEMMA FineSame ==
  ASSUME NEW c, Fine(c), UNCHANGED vars
  PROVE  Fine(c)'
BY DEF Fine, Staged, Mine, Honest, Effect, Received, Stored, MessagesOf,
   list_threads, Exists, Addressed, list_recipients, vars

\* And while handlers move, if its request, should it arrive now, is its own.
LEMMA FineStays ==
  ASSUME TraceInv, NEW q \in Request, Comes(q) \/ Step(q) \/ Fail(q), NEW c, Fine(c),
         c.request # None /\ pc[c.request] = "idle" => Mine(c)'
  PROVE  Fine(c)'
<1> DEFINE r == c.request
<1>1. TypeInv /\ Moves(q)
  BY Mover DEF TraceInv, ClaimInv, HistInv
<1>2. Staged(c)'
  BY DEF Fine, Staged
<1>3. ASSUME r # None, pc[r] # "idle"
      PROVE  /\ pc[r] \in Answered => pc'[r] = pc[r]
             /\ Received(r)' => Received(r)
             /\ frame'[r].caller = frame[r].caller
             /\ frame'[r].thread = frame[r].thread
             /\ frame'[r].recipients = frame[r].recipients
  <2>1. r \in Request /\ pc[r] # "idle"
    BY <1>3, OwnRequest DEF Fine
  <2>2. CASE q # r
    BY <1>1, <2>1, <2>2 DEF Moves, Received
  <2>3. CASE q = r
    BY <1>1, <2>1, <2>3, Runs DEF Running, Answered, Received
  <2>4. QED
    BY <2>2, <2>3
<1>4. Mine(c)'
  BY <1>3 DEF Fine, Mine
<1>5. r # None /\ pc[r] \in Answered => pc'[r] = pc[r]
  BY <1>3 DEF Answered
<1>6. Honest(c)'
  BY <1>2, <1>5, ShownStays DEF Fine, Honest, Refusals, Answered
<1>7. QED
  BY <1>2, <1>4, <1>6 DEF Fine

\* What came after an earlier call still does: a request that was answered
\* stores nothing more, and one that is stamped now is stamped last.
LEMMA AfterStays ==
  ASSUME StampInv, NEW q \in Request, Comes(q) \/ Step(q) \/ Fail(q),
         NEW c, NEW d, Fine(d), After(d, c)
  PROVE  After(d, c)'
<1>1. TypeInv /\ TraceInv
  BY DEF StampInv, TalkInv, Base, HistInv
<1>2. ASSUME NEW m \in Stored(d.request)' PROVE m \in Stored(d.request)
  <2>1. m \in messages' /\ m.id = d.request
    BY DEF Stored
  <2>2. SUFFICES ASSUME m \notin messages PROVE FALSE
    BY <2>1 DEF Stored
  <2>3. d.request = q
    BY <1>1, <2>1, <2>2, MessagesTrace
  <2>4. d.request # None
    BY <2>3, StoreAssumption DEF Request
  <2>5. d.tool \in Writers
    BY <2>4, OwnRequest DEF Fine
  <2>6. pc[q] = "ok"
    BY <2>3, <2>5 DEF Fine, Honest, After
  <2>7. QED
    BY <1>1, <2>6, Runs DEF Running
<1>3. ASSUME NEW m \in Stored(d.request), c.request \in Reply \cup Ack, Stamped(c.request)'
      PROVE  Past(m.created_at, frame'[c.request].created_at)
  <2>1. CASE Stamped(c.request) /\ frame'[c.request].created_at = frame[c.request].created_at
    BY <1>3, <2>1 DEF After
  <2>2. CASE Resolve(c.request)
    <3>1. m.created_at \in Stamp /\ ~Past(now, m.created_at)
      BY NothingAhead DEF Stored
    <3>2. QED
      BY <1>1, <1>3, <2>2, <3>1, ResolvedLast
  <2>3. QED
    BY <1>1, <1>3, <2>1, <2>2, Stamping
<1>4. QED
  BY <1>2, <1>3 DEF After, Past

\* A step of the handlers keeps the invariant if a request of a call that it takes
\* up is taken up as that call's.
LEMMA MotionKeeps ==
  ASSUME McpInv, NEW q \in Request, Comes(q) \/ Step(q) \/ Fail(q), calls' = calls,
         \A c \in {calls[k] : k \in Call} :
           c.request # None /\ pc[c.request] = "idle" => Mine(c)'
  PROVE  McpInv'
<1>1. StampInv'
  BY StampStep DEF McpInv, Motion
<1>2. \A c \in {calls[k] : k \in Call} : Fine(c)'
  BY FineStays DEF McpInv, StampInv
<1>3. ASSUME NEW c \in {calls[k] : k \in Call}, NEW j \in c.after
      PROVE  After(calls[j], c)'
  <2>1. Fine(c)
    BY DEF McpInv
  <2>2. j \in Call
    BY <2>1 DEF Fine, Staged, CallState
  <2>3. PICK d : d = calls[j]
    OBVIOUS
  <2>4. Fine(d) /\ After(d, c)
    BY <2>2, <2>3 DEF McpInv
  <2>5. After(d, c)'
    BY <2>4, AfterStays DEF McpInv
  <2>6. QED
    BY <2>3, <2>5 DEF After
<1>4. Sole'
  BY DEF McpInv, Sole
<1>5. QED
  BY <1>1, <1>2, <1>3, <1>4 DEF McpInv

-----------------------------------------------------------------------------
(* Steps of the calls *)

LEMMA AfterSame ==
  ASSUME NEW c, NEW d, After(d, c), UNCHANGED vars
  PROVE  After(d, c)'
BY DEF After, Stored, Stamped, Found, Received, Past, vars

\* So a step has to account for the call it is of.
LEMMA OneCall ==
  ASSUME McpInv, UNCHANGED vars, NEW k \in Call, calls[k].result = None,
         NEW d \in CallState, calls' = [calls EXCEPT ![k] = d], Fine(d),
         d.request \in {None, calls[k].request} \/ ~InFlight(d.request),
         \A j \in d.after : After(calls[j], d)
  PROVE  McpInv'
<1>1. StampInv'
  BY StampStep DEF McpInv
<1>2. /\ calls' \in [Call -> CallState] /\ calls'[k] = d
      /\ \A l \in Call : l # k => calls'[l] = calls[l]
  BY DEF McpInv
<1>3. Sole'
  BY <1>2 DEF McpInv, Sole, InFlight
<1>4. \A c \in {calls'[l] : l \in Call} : c = d \/ c \in {calls[l] : l \in Call}
  BY <1>2
<1>5. \A c \in {calls'[l] : l \in Call} : Fine(c) /\ Fine(c)'
  BY <1>4, FineSame DEF McpInv
<1>6. ASSUME NEW c \in {calls'[l] : l \in Call}, NEW j \in c.after
      PROVE  After(calls[j], c)'
  <2>1. j \in Call
    BY <1>5 DEF Fine, Staged, CallState
  <2>2. After(calls[j], c)
    BY <1>4 DEF McpInv
  <2>3. calls[j].result = "ok"
    BY <2>2 DEF After
  <2>4. j # k
    BY <2>3, Tools DEF Result
  <2>5. calls'[j] = calls[j]
    BY <1>2, <2>1, <2>4
  <2>6. PICK e : e = calls[j]
    OBVIOUS
  <2>7. After(e, c)'
    BY <2>2, <2>6, AfterSame
  <2>8. QED
    BY <2>5, <2>6, <2>7 DEF After
<1>7. QED
  BY <1>1, <1>2, <1>3, <1>5, <1>6 DEF McpInv

\* A call with the same request comes after the same calls, if it tells nothing
\* of what there is.
LEMMA AfterKept ==
  ASSUME NEW c, NEW d, NEW e, After(e, c), d.request = c.request,
         d.tool = "chat_read_thread" => d.result # "ok"
  PROVE  After(e, d)
BY DEF After

\* What becomes of a call when the agent is told the result.
Done(c, result) == [[c EXCEPT !.stage = "done"] EXCEPT !.result = result]

\* Nothing else of it changes.
LEMMA TellTypes ==
  ASSUME NEW c, Fine(c), c.stage \in {"search", "send", "wait"},
         NEW result \in Result, NEW d, d = Done(c, result)
  PROVE  /\ Staged(d) /\ d.result = result
         /\ d.tool = c.tool /\ d.request = c.request /\ d.to = c.to
         /\ d.thread = c.thread /\ d.after = c.after
<1>1. c \in CallState
  BY DEF Fine, Staged
<1>2. /\ d \in CallState /\ d.stage = "done" /\ d.result = result
      /\ d.tool = c.tool /\ d.request = c.request /\ d.to = c.to
      /\ d.thread = c.thread /\ d.text = c.text /\ d.after = c.after
  BY <1>1 DEF CallState, Done
<1>3. QED
  BY <1>1, <1>2, Tools DEF Fine, Staged

\* A call that ends without an answer of its handler.
LEMMA Unanswered ==
  ASSUME McpInv, NEW k \in Call, NEW result \in Result, Tell(k, result), UNCHANGED vars,
         \/ /\ calls[k].stage \in {"search", "send"}
            /\ result \notin {"ok", "conflict"}
         \/ calls[k].stage = "wait" /\ result = "raised"
  PROVE  McpInv'
<1> DEFINE c == calls[k]
<1>1. Fine(c) /\ c \in CallState /\ \A j \in c.after : After(calls[j], c)
  BY DEF McpInv
<1>2. PICK d : d = Done(c, result)
  OBVIOUS
<1>3. calls' = [calls EXCEPT ![k] = d]
  BY <1>2 DEF Tell, Done, McpInv
<1>4. /\ Staged(d) /\ d.result = result
      /\ d.tool = c.tool /\ d.request = c.request /\ d.to = c.to /\ d.thread = c.thread
      /\ d.after = c.after
  BY <1>1, <1>2, TellTypes
<1>5. Mine(d)
  BY <1>1, <1>4 DEF Fine, Mine
<1>6. (c.stage # "wait" => c.request = None) /\ c.result = None
  BY <1>1 DEF Fine, Staged
<1>7. Honest(d)
  BY <1>4, <1>6 DEF Honest
<1>8. Fine(d) /\ d \in CallState
  BY <1>4, <1>5, <1>7 DEF Fine, Staged
<1>9. \A j \in d.after : After(calls[j], d)
  BY <1>1, <1>4, AfterKept
<1>10. QED
  BY <1>3, <1>4, <1>6, <1>8, <1>9, OneCall

\* call_tool: what is not refused at once waits for its request.
LEMMA InvokeFine ==
  ASSUME McpInv, NEW k \in Call, Invoke(k)
  PROVE  McpInv'
<1> DEFINE after == {l \in Call : calls[l].result = "ok"}
<1>1. PICK a \in Arguments :
        calls' = [calls EXCEPT ![k] =
          [NoCall EXCEPT !.tool = a.tool, !.thread = a.thread, !.text = a.text,
             !.to = a.to, !.after = after,
             !.stage = IF ~Acceptable(a.tool, a.thread, a.text) THEN "done"
                       ELSE IF a.tool = "chat_ask_peer" THEN "search" ELSE "send",
             !.result = IF Acceptable(a.tool, a.thread, a.text) THEN None
                        ELSE "invalid"]]
  BY DEF Invoke
<1>2. /\ a.tool \in Tool /\ a.thread \in Thread \cup {None} /\ a.text \in BOOLEAN
      /\ a.to \in Name \cup {None}
  BY DEF Arguments
<1> DEFINE stage == IF ~Acceptable(a.tool, a.thread, a.text) THEN "done"
                    ELSE IF a.tool = "chat_ask_peer" THEN "search" ELSE "send"
           result == IF Acceptable(a.tool, a.thread, a.text) THEN None ELSE "invalid"
<1>3. /\ stage \in {"done", "search", "send"} /\ result \in {None, "invalid"}
      /\ stage = "done" <=> result = "invalid"
      /\ stage = "search" => a.tool = "chat_ask_peer"
      /\ stage = "send" => Acceptable(a.tool, a.thread, a.text)
  BY Tools DEF Result
<1>4. PICK d : d = [NoCall EXCEPT !.tool = a.tool, !.thread = a.thread, !.text = a.text,
                                  !.to = a.to, !.after = after, !.stage = stage,
                                  !.result = result]
  OBVIOUS
<1>5. calls' = [calls EXCEPT ![k] = d] /\ UNCHANGED vars
  BY <1>1, <1>4 DEF Invoke
<1>6. after \in SUBSET Call /\ \A j \in after : calls[j].result = "ok"
  OBVIOUS
<1> HIDE DEF stage, result, after
<1>7. /\ d \in CallState
      /\ d.stage = stage /\ d.result = result /\ d.tool = a.tool /\ d.request = None
      /\ d.thread = a.thread /\ d.text = a.text /\ d.after = after
  <2>1. stage \in {"idle", "search", "send", "wait", "done"}
        /\ result \in Result \cup {None}
    BY <1>3 DEF Result
  <2>2. d = [stage |-> stage, tool |-> a.tool, thread |-> a.thread, text |-> a.text,
             to |-> a.to, request |-> None, result |-> result, shown |-> {},
             after |-> after]
    BY <1>4 DEF NoCall
  <2>3. QED
    BY <1>2, <1>6, <2>1, <2>2 DEF CallState
<1>8. Fine(d)
  BY <1>2, <1>3, <1>7, Tools DEF Fine, Staged, Mine, Honest, Result
<1>9. calls[k].result = None
  BY DEF McpInv, Invoke, Fine, Staged
<1>10. \A j \in d.after : After(calls[j], d)
  BY <1>3, <1>6, <1>7, StoreAssumption, Tools DEF After, Result
<1>11. QED
  BY <1>5, <1>7, <1>8, <1>9, <1>10, OneCall

\* chat_ask_peer's search found nothing better: the request is next.
LEMMA SearchFine ==
  ASSUME McpInv, NEW k \in Call, calls[k].stage = "search", UNCHANGED vars,
         calls' = [calls EXCEPT ![k].stage = "send"]
  PROVE  McpInv'
<1> DEFINE c == calls[k]
<1>1. Fine(c) /\ c \in CallState /\ \A j \in c.after : After(calls[j], c)
  BY DEF McpInv
<1>2. PICK d : d = [c EXCEPT !.stage = "send"]
  OBVIOUS
<1>3. calls' = [calls EXCEPT ![k] = d]
  BY <1>2 DEF McpInv
<1>4. /\ d \in CallState /\ d.stage = "send" /\ d.tool = c.tool /\ d.result = c.result
      /\ d.request = c.request /\ d.after = c.after
  BY <1>1, <1>2 DEF CallState
<1>5. /\ d.tool = "chat_ask_peer" /\ d.result = None /\ d.request = None
  BY <1>1, <1>4 DEF Fine, Staged
<1>6. Acceptable(d.tool, d.thread, d.text)
  BY <1>5 DEF Acceptable
<1>7. Fine(d)
  BY <1>4, <1>5, <1>6, Tools DEF Fine, Staged, Mine, Honest, Result
<1>8. \A j \in d.after : After(calls[j], d)
  BY <1>1, <1>4, <1>5, AfterKept
<1>9. QED
  BY <1>3, <1>4, <1>5, <1>7, <1>8, OneCall

\* A reader tells what there is.
LEMMA ReadFine ==
  ASSUME McpInv, NEW k \in Call, Read(k)
  PROVE  McpInv'
<1>1. PICK status \in {None, "open", "acked"} :
        LET c == calls[k]
            ids == IF c.tool = "chat_list_threads" THEN list_threads(c.to, status, {}, None)
                   ELSE {m.id : m \in MessagesOf(c.thread)}
        IN  calls' = [calls EXCEPT ![k].stage = "done", ![k].shown = ids,
                        ![k].result =
                          IF c.tool = "chat_read_thread" /\ ~Exists(c.thread)
                            THEN "not found" ELSE "ok"]
  BY DEF Read
<1> DEFINE c == calls[k]
           ids == IF c.tool = "chat_list_threads" THEN list_threads(c.to, status, {}, None)
                  ELSE {m.id : m \in MessagesOf(c.thread)}
           result == IF c.tool = "chat_read_thread" /\ ~Exists(c.thread)
                       THEN "not found" ELSE "ok"
<1>2. /\ Fine(c) /\ c \in CallState /\ \A j \in c.after : After(calls[j], c)
      /\ c.stage = "send" /\ c.tool \in {"chat_list_threads", "chat_read_thread"}
      /\ calls' = [calls EXCEPT ![k].stage = "done", ![k].shown = ids,
                                ![k].result = result]
      /\ UNCHANGED vars
  BY <1>1 DEF McpInv, Read
<1>3. /\ ids \in SUBSET (Thread \cup Reply \cup Ack)
      /\ c.tool = "chat_list_threads" => ids \subseteq list_threads(c.to, None, {}, None)
      /\ c.tool = "chat_read_thread" => ids = {m.id : m \in MessagesOf(c.thread)}
  <2>1. \A m \in messages : m.id \in Thread \cup Reply \cup Ack
    BY DEF McpInv, StampInv, TalkInv, Base, HistInv, TypeInv, TypeOK, StoreTypeOK, MessageRow
  <2>2. /\ list_threads(c.to, status, {}, None) \subseteq Thread
        /\ list_threads(c.to, status, {}, None) \subseteq list_threads(c.to, None, {}, None)
    BY DEF list_threads
  <2>3. QED
    BY <2>1, <2>2 DEF MessagesOf
<1>4. result \in {"ok", "not found"}
  OBVIOUS
<1> HIDE DEF ids, result
<1>5. PICK d : d = [[[c EXCEPT !.stage = "done"] EXCEPT !.shown = ids]
                       EXCEPT !.result = result]
  OBVIOUS
<1>6. calls' = [calls EXCEPT ![k] = d]
  BY <1>2, <1>5 DEF McpInv
<1>7. /\ d \in CallState /\ d.stage = "done" /\ d.tool = c.tool /\ d.result = result
      /\ d.request = c.request /\ d.shown = ids /\ d.to = c.to /\ d.thread = c.thread
      /\ d.after = c.after
  BY <1>2, <1>3, <1>4, <1>5 DEF CallState, Result
<1>8. d.request = None /\ c.result = None
  BY <1>2, <1>7 DEF Fine, Staged
<1>9. Effect(d)
  BY <1>2, <1>3, <1>7 DEF Effect
<1>10. Fine(d)
  BY <1>2, <1>4, <1>7, <1>8, <1>9, Tools
     DEF Fine, Staged, Mine, Honest, Result, Writers
<1>11. ASSUME NEW j \in d.after PROVE After(calls[j], d)
  <2>1. PICK e : e = calls[j] /\ After(e, c)
    BY <1>2, <1>7
  <2>2. ASSUME NEW m \in Stored(e.request), d.tool = "chat_read_thread",
               d.thread = m.thread_id
        PROVE  m.id \in d.shown
    BY <1>3, <1>7, <2>2 DEF MessagesOf, Stored
  <2>3. After(e, d)
    BY <1>8, <2>1, <2>2, StoreAssumption DEF After
  <2>4. QED
    BY <2>1, <2>3
<1>12. QED
  BY <1>2, <1>6, <1>7, <1>8, <1>10, <1>11, OneCall

\* The request is on its way: nobody has received it, and its thread, if it makes
\* one, has no messages.
LEMMA SendFine ==
  ASSUME McpInv, NEW k \in Call, Send(k)
  PROVE  McpInv'
<1> DEFINE c == calls[k]
<1>1. PICK r \in RequestOf[c.tool] :
        /\ pc[r] = "idle" /\ ~InFlight(r)
        /\ calls' = [calls EXCEPT ![k].stage = "wait", ![k].request = r]
  BY DEF Send, At
<1>2. /\ Fine(c) /\ c \in CallState /\ \A j \in c.after : After(calls[j], c)
      /\ c.stage = "send" /\ UNCHANGED vars
      /\ TypeInv
  BY DEF McpInv, Send, StampInv, TalkInv, Base, HistInv
<1>3. PICK d : d = [[c EXCEPT !.stage = "wait"] EXCEPT !.request = r]
  OBVIOUS
<1>4. calls' = [calls EXCEPT ![k] = d]
  BY <1>1, <1>3 DEF McpInv
<1>5. c.tool \in Tool /\ Acceptable(c.tool, c.thread, c.text) /\ c.result = None
  BY <1>2 DEF Fine, Staged
<1>6. r \in Request /\ r # None /\ c.tool \notin {"chat_list_threads", "chat_read_thread"}
  BY <1>1, <1>5, Tools, StoreAssumption DEF Request
<1>7. /\ d \in CallState /\ d.stage = "wait" /\ d.tool = c.tool /\ d.result = None
      /\ d.request = r /\ d.to = c.to /\ d.thread = c.thread /\ d.text = c.text
      /\ d.after = c.after
  BY <1>2, <1>3, <1>5, <1>6 DEF CallState
<1>8. Fine(d)
  BY <1>1, <1>5, <1>6, <1>7, Tools DEF Fine, Staged, Mine, Honest, Received, Result
<1>9. ASSUME NEW j \in d.after PROVE After(calls[j], d)
  <2>1. PICK e : e = calls[j] /\ After(e, c)
    BY <1>2, <1>7
  <2>2. ~Stamped(r)
    BY <1>1 DEF Stamped, Found, Received
  <2>3. r \in Thread => ~Exists(r)
    BY <1>1, <1>2 DEF TypeInv, RowsOK, Received
  <2>4. \A m \in Stored(e.request) : r \in Thread => m.thread_id # r
    BY <1>2, <2>3 DEF Stored, TypeInv, RowsOK
  <2>5. After(e, d)
    BY <1>6, <1>7, <2>1, <2>2, <2>4 DEF After
  <2>6. QED
    BY <2>1, <2>5
<1>10. QED
  BY <1>1, <1>2, <1>4, <1>5, <1>7, <1>8, <1>9, OneCall

\* The request arrives with its call's arguments, whatever the agent was told.
LEMMA TakeUpFine ==
  ASSUME McpInv, NEW k \in Call, TakeUp(k)
  PROVE  McpInv'
<1> PICK c : c = calls[k]
  OBVIOUS
<1> DEFINE r == c.request
<1>1. /\ r # None /\ calls' = calls
      /\ Unprocessable(c) => TurnAway(r, "422")
      /\ ~Unprocessable(c) => Handled(c, r)
  BY DEF TakeUp
<1>2. Fine(c) /\ TypeInv
  BY DEF McpInv, StampInv, TalkInv, Base, HistInv
<1>3. /\ r \in Request /\ c.tool \in Tool /\ Acceptable(c.tool, c.thread, c.text)
      /\ c.tool # "chat_claim" => r \notin Claim
  BY <1>1, <1>2, OwnRequest, Kinds, Tools DEF Fine, Staged, Writers
<1>4. Comes(r)
  <2>1. CASE Unprocessable(c)
    <3>1. r \notin Claim
      BY <1>3, <2>1 DEF Unprocessable, Acceptable
    <3>2. QED
      BY <1>1, <2>1, <3>1 DEF Comes, Turned
  <2>2. CASE ~Unprocessable(c)
    BY <1>1, <1>3, <2>2 DEF Handled, Comes, Request
  <2>3. QED
    BY <2>1, <2>2
<1>5. Mine(c)'
  <2>1. r \in RequestOf[c.tool]
    BY <1>1, <1>2 DEF Fine, Mine
  <2>2. CASE Unprocessable(c)
    <3>1. pc'[r] = "422"
      BY <1>1, <1>2, <1>3, <2>2 DEF TurnAway, Goto, TypeInv, TypeOK
    <3>2. QED
      BY <2>1, <3>1 DEF Mine, Received
  <2>3. CASE ~Unprocessable(c)
    <3>1. /\ frame'[r].caller = Me
          /\ r \in Thread => frame'[r].recipients = <<c.to>>
          /\ r \notin Thread => frame'[r].thread = c.thread
      BY <1>1, <2>3 DEF Handled
    <3>2. QED
      BY <2>1, <3>1 DEF Mine
  <2>4. QED
    BY <2>2, <2>3
<1>6. ASSUME NEW d \in {calls[l] : l \in Call}, d.request # None, pc[d.request] = "idle"
      PROVE  Mine(d)'
  <2>1. CASE d.request = r
    BY <1>1, <1>5, <2>1 DEF McpInv, Sole
  <2>2. CASE d.request # r
    <3>1. Fine(d)
      BY DEF McpInv
    <3>2. d.request \in Request
      BY <1>6, <3>1, OwnRequest DEF Fine
    <3>3. pc'[d.request] = "idle"
      BY <1>2, <1>3, <1>4, <1>6, <2>2, <3>2, Mover DEF Moves
    <3>4. QED
      BY <3>1, <3>3 DEF Fine, Mine, Received
  <2>3. QED
    BY <2>1, <2>2
<1>7. QED
  BY <1>1, <1>3, <1>4, <1>6, MotionKeeps

\* Other clients' requests, and every handler's steps, leave those of the calls
\* that have not arrived alone.
LEMMA ApiFine ==
  ASSUME McpInv, NEW q \in Request, calls' = calls,
         (~InFlight(q) /\ Arrive(q)) \/ Step(q) \/ Fail(q)
  PROVE  McpInv'
<1>1. Comes(q) \/ Step(q) \/ Fail(q)
  BY ArriveComes
<1>2. TypeInv
  BY DEF McpInv, StampInv, TalkInv, Base, HistInv
<1>3. ASSUME NEW d \in {calls[l] : l \in Call}, d.request # None, pc[d.request] = "idle"
      PROVE  Mine(d)'
  <2>1. Fine(d)
    BY DEF McpInv
  <2>2. d.request \in Request
    BY <1>3, <2>1, OwnRequest DEF Fine
  <2>3. d.request # q
    <3>1. SUFFICES ASSUME d.request = q PROVE FALSE
      OBVIOUS
    <3>2. InFlight(q)
      BY <3>1 DEF InFlight
    <3>3. Step(q) \/ Fail(q)
      BY <3>2
    <3>4. QED
      BY <1>3, <3>1, <3>3 DEF Step, Fail, CreateThread, AddRecipient, SetType,
         ReadRecipients, Refuse, Resolve, AppendMessage, AppendAck, InsertAck,
         MarkRecipient, CheckAll, CloseThread, At, Running
  <2>4. pc'[d.request] = "idle"
    BY <1>1, <1>2, <1>3, <2>2, <2>3, Mover DEF Moves
  <2>5. QED
    BY <2>1, <2>4 DEF Fine, Mine, Received
<1>4. QED
  BY <1>1, <1>3, MotionKeeps

\* The agent is told what its handler answered.
LEMMA AnswerFine ==
  ASSUME McpInv, NEW k \in Call, Answer(k)
  PROVE  McpInv'
<1> DEFINE c == calls[k]
           result == Told(c.tool, pc[c.request])
<1>1. /\ Fine(c) /\ c.stage = "wait" /\ c.request # None /\ c.result = None
      /\ \A j \in c.after : After(calls[j], c)
      /\ pc[c.request] \in Answered /\ Tell(k, result) /\ UNCHANGED vars
  BY DEF McpInv, Answer, Fine, Staged
<1>2. /\ result \in Result
      /\ result = "ok" => pc[c.request] = "ok"
      /\ result # "ok" => pc[c.request] \in Refusals
      /\ result = "conflict" => c.tool = "chat_claim" /\ pc[c.request] = "409"
  BY <1>1 DEF Told, Result, Answered, Refusals
<1> HIDE DEF result
<1>3. PICK d : d = Done(c, result)
  OBVIOUS
<1>4. calls' = [calls EXCEPT ![k] = d]
  BY <1>1, <1>3 DEF Tell, Done, McpInv
<1>5. /\ Staged(d) /\ d.result = result
      /\ d.tool = c.tool /\ d.request = c.request /\ d.to = c.to /\ d.thread = c.thread
      /\ d.after = c.after
  BY <1>1, <1>2, <1>3, TellTypes
<1>6. Mine(d)
  BY <1>1, <1>5 DEF Fine, Mine
<1>7. c.tool \in Writers
  BY <1>1, OwnRequest DEF Fine
<1>8. Honest(d)
  BY <1>1, <1>2, <1>5, <1>7 DEF Honest
<1>9. Fine(d) /\ d \in CallState
  BY <1>5, <1>6, <1>8 DEF Fine, Staged
<1>10. \A j \in d.after : After(calls[j], d)
  BY <1>1, <1>5, <1>7, AfterKept DEF Writers
<1>11. QED
  BY <1>1, <1>4, <1>5, <1>9, <1>10, OneCall

-----------------------------------------------------------------------------
(* The theorems *)

\* Every step of the handlers or of a call keeps the invariant.
LEMMA McpInvStep == McpInv /\ [McpNext]_mcpVars => McpInv'
<1> SUFFICES ASSUME McpInv, [McpNext]_mcpVars PROVE McpInv'
  OBVIOUS
<1>1. CASE UNCHANGED mcpVars
  <2>1. StampInv' /\ Sole'
    BY <1>1, StampStep DEF McpInv, Sole, mcpVars
  <2>2. \A c \in {calls[k] : k \in Call} : Fine(c)'
    BY <1>1, FineSame DEF McpInv, mcpVars
  <2>3. ASSUME NEW c \in {calls[k] : k \in Call}, NEW j \in c.after
        PROVE  After(calls[j], c)'
    <3>1. PICK d : d = calls[j] /\ After(d, c)
      BY DEF McpInv
    <3>2. After(d, c)'
      BY <1>1, <3>1, AfterSame DEF mcpVars
    <3>3. QED
      BY <1>1, <3>1, <3>2 DEF mcpVars, After
  <2>4. QED
    BY <1>1, <2>1, <2>2, <2>3 DEF McpInv, mcpVars
<1>2. ASSUME NEW r \in Request, (~InFlight(r) /\ Arrive(r)) \/ Step(r) \/ Fail(r),
             calls' = calls
      PROVE  McpInv'
  BY <1>2, ApiFine
<1>3. ASSUME NEW k \in Call, Invoke(k) PROVE McpInv'
  BY <1>3, InvokeFine
<1>4. ASSUME NEW k \in Call, Search(k) PROVE McpInv'
  <2>1. CASE Tell(k, "graphiti")
    BY <1>4, <2>1, Unanswered DEF Search, Result
  <2>2. CASE calls' = [calls EXCEPT ![k].stage = "send"]
    BY <1>4, <2>2, SearchFine DEF Search
  <2>3. QED
    BY <1>4, <2>1, <2>2 DEF Search
<1>5. ASSUME NEW k \in Call, Lose(k) PROVE McpInv'
  BY <1>5, Unanswered DEF Lose, Result
<1>6. ASSUME NEW k \in Call, Raise(k) PROVE McpInv'
  BY <1>6, Unanswered DEF Raise, Result
<1>7. QED
  BY <1>1, <1>2, <1>3, <1>4, <1>5, <1>6, ReadFine, SendFine, TakeUpFine, AnswerFine
     DEF McpNext, Proceed

\* What every tool call is and was told is as the invariant says.
THEOREM McpInvariant == McpSpec => []McpInv
BY InitMcpInv, McpInvStep, PTL DEF McpSpec

\* A request that was refused has left nothing behind.
LEMMA RefusedLeftNothing ==
  ASSUME TraceInv, NEW r \in Request, pc[r] \in Refusals
  PROVE  Stored(r) = {} /\ ~Claimed(r)
<1>1. TypeInv
  BY DEF TraceInv, ClaimInv, HistInv
<1>2. Stored(r) = {}
  <2> SUFFICES ASSUME NEW m \in Stored(r) PROVE FALSE
    OBVIOUS
  <2>1. m \in messages /\ m.id = r /\ r \in Thread \cup Reply \cup Ack
    BY <1>1 DEF Stored, TypeInv, TypeOK, StoreTypeOK, MessageRow
  <2>2. CASE r \in Thread
    <3>1. Exists(r)
      BY <2>1, <2>2 DEF TraceInv
    <3>2. pc[r] \in {"400", "422"}
      BY <1>1, <2>2 DEF TypeInv, PcOK, Refusals
    <3>3. QED
      BY <1>1, <2>2, <3>1, <3>2 DEF TypeInv, RowsOK, Received
  <2>3. CASE r \in Reply \cup Ack
    <3>1. Wrote(r)
      BY <2>1, <2>3 DEF TraceInv
    <3>2. pc[r] # "409"
      BY <1>1, <2>3 DEF TypeInv, PcOK
    <3>3. QED
      BY <3>1, <3>2 DEF Wrote, Stamped, Found, Received, Refusals
  <2>4. QED
    BY <2>1, <2>2, <2>3
<1>3. ~Claimed(r)
  BY DEF TraceInv, Claimed, Refusals
<1>4. QED
  BY <1>2, <1>3

\* An answered request has had its effect (store/messages.py, store/threads.py).
LEMMA AnsweredHasEffect ==
  ASSUME TraceInv, NEW c, Fine(c), c.result = "ok"
  PROVE  Effect(c)
<1> DEFINE r == c.request
<1>1. c.tool \in Tool
  BY Tools DEF Fine, Staged, Result
<1>2. CASE c.tool \notin Writers
  BY <1>2 DEF Fine, Honest
<1>3. CASE c.tool \in Writers
  <2>1. /\ r # None /\ pc[r] = "ok" /\ r \in Request
        /\ c.tool = "chat_send" => r \in Reply
        /\ c.tool = "chat_ack" => r \in Ack
        /\ c.tool = "chat_claim" => r \in Claim
        /\ c.tool = "chat_ask_peer" => r \in Thread
        /\ c.tool # "chat_ask_peer" => c.thread \in Thread /\ r \notin Thread
    BY <1>3, OwnRequest DEF Fine, Honest
  <2>2. /\ frame[r].caller = Me
        /\ r \in Thread => frame[r].recipients = <<c.to>>
        /\ r \notin Thread => frame[r].thread = c.thread
    BY <2>1 DEF Fine, Mine, Received
  <2>3. Wrote(r) /\ Found(r)
    BY <2>1 DEF Wrote, Stamped, Found, Received
  <2>4. CASE c.tool = "chat_send"
    <3>1. Filed(r)
      BY <2>1, <2>3, <2>4 DEF TraceInv
    <3>2. QED
      BY <2>1, <2>2, <2>4, <3>1 DEF Effect, Filed
  <2>5. CASE c.tool = "chat_ack"
    <3>1. Filed(r)
      BY <2>1, <2>3, <2>5 DEF TraceInv
    <3>2. AckOK(r)
      BY <2>1, <2>5 DEF TraceInv, BoardInv, Base, AckInv, AcksOK
    <3>3. threads[c.thread].status = "acked" \/ thread_recipients[c.thread][Me] = "acked"
      BY <2>1, <2>2, <2>5, <3>2 DEF AckOK
    <3>4. QED
      BY <2>1, <2>2, <2>5, <3>1, <3>3 DEF Effect, Filed
  <2>6. CASE c.tool = "chat_claim"
    BY <2>1, <2>2, <2>6 DEF Effect, TraceInv, ClaimInv, ClaimAgreement
  <2>7. CASE c.tool = "chat_ask_peer"
    <3>1. r \in Thread /\ Exists(r) /\ Reg(r)
      BY <2>1, <2>3, <2>7
         DEF Found, Received, TraceInv, BoardInv, Base, HistInv, TypeInv, RowsOK
    <3>2. c.to \in list_recipients(r)
      <4>1. frame[r].recipients = <<c.to>>
        BY <2>2, <3>1
      <4>2. c.to \in Posted(r)
        BY <4>1 DEF Posted
      <4>3. QED
        BY <2>1, <3>1, <4>2 DEF Reg
    <3>3. r \in list_threads(c.to, None, {}, None)
      BY <3>1, <3>2 DEF list_threads, Addressed
    <3>4. QED
      BY <2>7, <3>3 DEF Effect
  <2>8. QED
    BY <1>3, <2>4, <2>5, <2>6, <2>7 DEF Writers
<1>4. QED
  BY <1>2, <1>3

\* A conflict names another owner, then and now.
LEMMA ConflictHasOwner ==
  ASSUME TraceInv, NEW c, Fine(c), c.result = "conflict"
  PROVE  threads[c.thread].claimed_by \notin {None, Me}
<1> DEFINE r == c.request
<1>1. r # None /\ c.tool = "chat_claim" /\ pc[r] = "409"
  BY DEF Fine, Honest
<1>2. r \in Claim /\ r \notin Thread
  BY <1>1, OwnRequest DEF Fine
<1>3. frame[r].caller = Me /\ frame[r].thread = c.thread
  BY <1>1, <1>2 DEF Fine, Mine, Received
<1>4. QED
  BY <1>1, <1>2, <1>3 DEF TraceInv, ClaimInv, ClaimAgreement

\* What an agent was told is so (server.py:187-259, tools/*.py).
THEOREM AnswersAreTrue == McpSpec => []AnswersTrue
<1>1. McpInv => AnswersTrue
  <2> SUFFICES ASSUME McpInv, NEW k \in Call, NEW c, c = calls[k]
               PROVE  /\ c.result = "ok" => Effect(c)
                      /\ c.result \notin {"ok", "raised", None} =>
                           Stored(c.request) = {} /\ ~Claimed(c.request)
                      /\ c.result = "conflict" =>
                           threads[c.thread].claimed_by \notin {None, Me}
    BY DEF AnswersTrue
  <2>1. TraceInv /\ Fine(c)
    BY DEF McpInv, StampInv
  <2>2. c.result = "ok" => Effect(c)
    BY <2>1, AnsweredHasEffect
  <2>3. ASSUME c.result \notin {"ok", "raised", None}
        PROVE  Stored(c.request) = {} /\ ~Claimed(c.request)
    <3>1. CASE c.request = None
      <4>1. \A m \in messages : m.id \in Thread \cup Reply \cup Ack
        BY <2>1 DEF TraceInv, ClaimInv, HistInv, TypeInv, TypeOK, StoreTypeOK, MessageRow
      <4>2. QED
        BY <3>1, <4>1, StoreAssumption DEF Stored, Claimed
    <3>2. CASE c.request # None
      <4>1. c.request \in Request
        BY <2>1, <3>2, OwnRequest DEF Fine
      <4>2. pc[c.request] \in Refusals
        BY <2>1, <2>3, <3>2 DEF Fine, Honest
      <4>3. QED
        BY <2>1, <4>1, <4>2, RefusedLeftNothing
    <3>3. QED
      BY <3>1, <3>2
  <2>4. c.result = "conflict" => threads[c.thread].claimed_by \notin {None, Me}
    BY <2>1, ConflictHasOwner
  <2>5. QED
    BY <2>2, <2>3, <2>4
<1>2. QED
  BY <1>1, McpInvariant, PTL

\* What an agent does after it was told "ok" comes after what it was told of
\* (store/messages.py:40-72, store/threads.py:173-189).
THEOREM AgentsWriteInOrder == McpSpec => []CallsInOrder
<1>1. McpInv => CallsInOrder
  <2> SUFFICES ASSUME McpInv, NEW l \in Call, NEW c, c = calls[l],
                      NEW k \in c.after, NEW d, d = calls[k], NEW m \in Stored(d.request)
               PROVE  /\ \A n \in Stored(c.request) :
                           m.thread_id = n.thread_id /\ ~Bare(m.created_at)
                             => Before(m.created_at, n.created_at)
                      /\ c.tool = "chat_read_thread" /\ c.result = "ok"
                         /\ c.thread = m.thread_id => m.id \in c.shown
    BY DEF CallsInOrder
  <2>1. After(d, c) /\ StampInv
    BY DEF McpInv
  <2>2. ASSUME NEW n \in Stored(c.request), m.thread_id = n.thread_id,
               ~Bare(m.created_at)
        PROVE  Before(m.created_at, n.created_at)
    <3>1. n \in messages /\ n.id = c.request /\ n.id \in Thread \cup Reply \cup Ack
      BY <2>1 DEF Stored, StampInv, TalkInv, Base, HistInv, TypeInv, TypeOK, StoreTypeOK,
         MessageRow
    <3>2. CASE n.id \in Thread
      <4>1. n = Seed(n.thread_id)
        BY <2>1, <3>1, <3>2 DEF StampInv, TalkInv, Answers
      <4>2. n.thread_id = c.request
        BY <3>1, <4>1 DEF Seed
      <4>3. QED
        BY <2>1, <2>2, <3>1, <3>2, <4>2 DEF After
    <3>3. CASE n.id \in Reply \cup Ack
      <4>1. Stamped(c.request) /\ n.created_at = frame[c.request].created_at
        BY <2>1, <3>1, <3>3 DEF StampInv, TraceInv, Wrote, Stored
      <4>2. Past(m.created_at, n.created_at)
        BY <2>1, <3>1, <3>3, <4>1 DEF After
      <4>3. QED
        BY <2>2, <4>2 DEF Past, Before
    <3>4. QED
      BY <3>1, <3>2, <3>3
  <2>3. c.tool = "chat_read_thread" /\ c.result = "ok" /\ c.thread = m.thread_id =>
          m.id \in c.shown
    BY <2>1 DEF After
  <2>4. QED
    BY <2>2, <2>3
<1>2. QED
  BY <1>1, McpInvariant, PTL
=============================================================================
