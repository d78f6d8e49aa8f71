--------------------------- MODULE HandlerProofs ----------------------------
(***************************************************************************)
(* Proofs that the tables only grow, that claims agree, and that broadcast *)
(* threads are acknowledged as they should be, for any number of requests, *)
(* recipients and dying handlers.                                          *)
(***************************************************************************)
EXTENDS ApiProofs

-----------------------------------------------------------------------------
(* The history, and claims: the inductive invariants *)

\* A thread without a row has nothing to lose when its row is inserted.
Blank == \A t \in Thread : ~Exists(t) => threads[t] = NoThread

\* A handler writes a discussion_type only if its body had one.
TypeChosen ==
  \A r \in Thread \cup Reply :
    pc[r] = "type" => frame[r].discussion_type # None

HistInv == TypeInv /\ Blank /\ TypeChosen

\* A claimed thread has the scope of its claim, and an answered claim a thread.
Owned ==
  /\ \A t \in Thread : threads[t].claimed_by # None => threads[t].claim_scope # None
  /\ \A c \in Claim : pc[c] \in {"ok", "409"} =>
       frame[c].thread \in Thread /\ frame[c].caller # None

ClaimInv == HistInv /\ Owned /\ ClaimAgreement

\* The empty database satisfies the invariant of the claims.
LEMMA InitClaimInv == Init => ClaimInv
<1> SUFFICES ASSUME Init PROVE ClaimInv
  OBVIOUS
<1>1. TypeInv
  BY InitTypeInv
<1> USE DEF Init, InitStore
<1>2. Blank /\ TypeChosen
  BY DEF Blank, TypeChosen, Request
<1>3. Owned /\ ClaimAgreement
  BY DEF Owned, ClaimAgreement, NoThread, Request
<1>4. QED
  BY <1>1, <1>2, <1>3 DEF ClaimInv, HistInv

-----------------------------------------------------------------------------
(* Steps by what they do to the tables *)

\* A step that changes no table, and whose handler does not move to "type".
LEMMA QuietHistory ==
  ASSUME HistInv, TypeInv', UNCHANGED tables, NEW r \in Request,
         \A q \in Request : q # r => pc'[q] = pc[q] /\ frame'[q] = frame[q],
         pc'[r] = "type" => pc[r] = "type" /\ frame'[r] = frame[r]
  PROVE  HistInv' /\ TakesNothingBack
<1>1. UNCHANGED <<threads, messages, thread_recipients>>
  BY DEF tables
<1>2. Blank'
  BY <1>1 DEF HistInv, Blank, Exists, NoThread
<1>3. TypeChosen'
  BY DEF HistInv, TypeChosen, Request
<1>4. TakesNothingBack
  BY <1>1 DEF TakesNothingBack, Exists
<1>5. QED
  BY <1>2, <1>3, <1>4 DEF HistInv

\* The commit of a thread and its seed (store/threads.py:18) takes nothing
\* back.
LEMMA CreateThreadHistory ==
  ASSUME HistInv, NEW t \in Thread, CreateThread(t)
  PROVE  HistInv' /\ TakesNothingBack
<1> USE DEF CreateThread, create_thread, Insert, At, Goto
<1>1. TypeInv'
  BY CreateThreadTypes DEF HistInv
<1>2. /\ t \in Request /\ frame' = frame
      /\ \A q \in Request : q # t => pc'[q] = pc[q]
      /\ pc'[t] = "type" => frame[t].discussion_type # None
      /\ threads'[t].status = "open"
      /\ \A u \in Thread : u # t => threads'[u] = threads[u]
  BY DEF HistInv, TypeInv, TypeOK, StoreTypeOK, Request
<1>3. ~Exists(t)
  BY DEF HistInv, TypeInv, RowsOK, Received
<1>4. threads[t] = NoThread
  BY <1>3 DEF HistInv, Blank
<1>5. Blank'
  BY <1>2 DEF HistInv, Blank, Exists, NoThread
<1>6. TypeChosen'
  BY <1>2 DEF HistInv, TypeChosen, Request
<1>7. TakesNothingBack
  BY <1>2, <1>4 DEF TakesNothingBack, Exists, NoThread
<1>8. QED
  BY <1>1, <1>5, <1>6, <1>7 DEF HistInv

\* One turn of the recipient loop (api/threads.py:75) takes nothing back.
LEMMA AddRecipientHistory ==
  ASSUME HistInv, NEW t \in Thread, AddRecipient(t)
  PROVE  HistInv' /\ TakesNothingBack
<1> USE DEF AddRecipient, add_recipient, At, Goto
<1>1. TypeInv'
  BY AddRecipientTypes DEF HistInv
<1>2. /\ t \in Request
      /\ \A q \in Request : q # t => pc'[q] = pc[q] /\ frame'[q] = frame[q]
      /\ pc'[t] # "type"
      /\ UNCHANGED <<threads, messages>>
  BY DEF HistInv, TypeInv, TypeOK, Request
<1>3. Blank' /\ TypeChosen'
  BY <1>2 DEF HistInv, Blank, TypeChosen, Exists, NoThread, Request
<1>4. \A u \in Thread, n \in Name :
        \/ thread_recipients'[u][n] = thread_recipients[u][n]
        \/ thread_recipients[u][n] = "absent"
  BY DEF HistInv, TypeInv, TypeOK, StoreTypeOK
<1>5. TakesNothingBack
  BY <1>2, <1>4 DEF TakesNothingBack, Exists
<1>6. QED
  BY <1>1, <1>3, <1>5 DEF HistInv

\* A step of a handler past its stamp that updates its thread's row: the
\* columns it may touch are the status, which it can only set to acked, the
\* discussion type, which it can only set, and last_message_at.
LEMMA RowHistory ==
  ASSUME HistInv, TypeInv', NEW r \in Thread \cup Reply \cup Ack, Stamped(r), pc[r] # "create",
         \A q \in Request : q # r => pc'[q] = pc[q],
         pc'[r] = "type" => frame[r].discussion_type # None,
         UNCHANGED <<frame, thread_recipients>>,
         messages \subseteq messages',
         \A u \in Thread : u # frame[r].thread => threads'[u] = threads[u],
         LET old == threads[frame[r].thread]
             new == threads'[frame[r].thread]
         IN  /\ new.status \in {old.status, "acked"}
             /\ new.created_by = old.created_by
             /\ new.discussion_type # old.discussion_type => new.discussion_type # None
             /\ new.claimed_by = old.claimed_by
             /\ new.claim_scope = old.claim_scope
  PROVE  HistInv' /\ TakesNothingBack
<1>1. frame[r].thread \in Thread /\ Exists(frame[r].thread)
  BY Kinds DEF HistInv, TypeInv, FramesOK, RowsOK, Received, Found, Stamped
<1>2. Blank'
  BY <1>1 DEF HistInv, Blank, Exists, NoThread
<1>3. TypeChosen'
  BY DEF HistInv, TypeChosen, Request
<1>4. TakesNothingBack
  BY <1>1 DEF TakesNothingBack, Exists
<1>5. QED
  BY <1>2, <1>3, <1>4 DEF HistInv

\* A discussion_type stored (api/threads.py:70, 149) takes nothing back.
LEMMA SetTypeHistory ==
  ASSUME HistInv, NEW r \in Thread \cup Reply, SetType(r)
  PROVE  HistInv' /\ TakesNothingBack
<1> USE DEF SetType, set_discussion_type, At, Goto
<1>1. TypeInv' /\ Stamped(r)
  BY SetTypeTypes DEF HistInv, Received, Found, Stamped
<1>2. frame[r].thread \in Thread
  BY <1>1, StampedLocals DEF HistInv
<1>3. frame[r].discussion_type # None
  BY DEF HistInv, TypeChosen
<1>4. \A q \in Request : q # r => pc'[q] = pc[q]
  BY DEF HistInv, TypeInv, TypeOK
<1>5. /\ \A u \in Thread : u # frame[r].thread => threads'[u] = threads[u]
      /\ threads'[frame[r].thread] =
           [threads[frame[r].thread] EXCEPT !.discussion_type = frame[r].discussion_type]
  BY <1>2 DEF HistInv, TypeInv, TypeOK, StoreTypeOK
<1>6. threads[frame[r].thread] \in ThreadRow
  BY <1>2 DEF HistInv, TypeInv, TypeOK, StoreTypeOK
<1>7. QED
  BY <1>1, <1>3, <1>4, <1>5, <1>6, RowHistory DEF ThreadRow

\* The commit of a reply (store/messages.py:31) takes nothing back.
LEMMA AppendMessageHistory ==
  ASSUME HistInv, NEW r \in Reply, AppendMessage(r)
  PROVE  HistInv' /\ TakesNothingBack
<1> USE DEF AppendMessage, append_message, Insert, At, Goto
<1>1. TypeInv' /\ Stamped(r)
  BY AppendMessageTypes DEF HistInv, Received, Found, Stamped
<1>2. frame[r].thread \in Thread
  BY <1>1, StampedLocals DEF HistInv
<1>3. /\ \A q \in Request : q # r => pc'[q] = pc[q]
      /\ pc'[r] = "type" => frame[r].discussion_type # None
  BY DEF HistInv, TypeInv, TypeOK, Request
<1>4. /\ \A u \in Thread : u # frame[r].thread => threads'[u] = threads[u]
      /\ threads'[frame[r].thread] =
           [threads[frame[r].thread] EXCEPT !.last_message_at = frame[r].created_at]
  BY <1>2 DEF HistInv, TypeInv, TypeOK, StoreTypeOK
<1>5. threads[frame[r].thread] \in ThreadRow
  BY <1>2 DEF HistInv, TypeInv, TypeOK, StoreTypeOK
<1>6. QED
  BY <1>1, <1>3, <1>4, <1>5, RowHistory DEF ThreadRow

\* The commit of an ack that acts alone (store/messages.py:78) takes
\* nothing back.
LEMMA AppendAckHistory ==
  ASSUME HistInv, NEW r \in Ack, AppendAck(r)
  PROVE  HistInv' /\ TakesNothingBack
<1> USE DEF AppendAck, append_ack, Insert, At, Goto
<1>1. TypeInv' /\ Stamped(r)
  BY AppendAckTypes DEF HistInv, Received, Found, Stamped
<1>2. frame[r].thread \in Thread
  BY <1>1, StampedLocals DEF HistInv
<1>3. \A q \in Request : q # r => pc'[q] = pc[q]
  BY DEF HistInv, TypeInv, TypeOK
<1>4. pc'[r] = "ok"
  BY DEF HistInv, TypeInv, TypeOK, Request
<1>5. /\ \A u \in Thread : u # frame[r].thread => threads'[u] = threads[u]
      /\ threads'[frame[r].thread] =
           [[threads[frame[r].thread] EXCEPT !.status = "acked"]
              EXCEPT !.last_message_at = frame[r].created_at]
  BY <1>2 DEF HistInv, TypeInv, TypeOK, StoreTypeOK
<1>6. threads[frame[r].thread] \in ThreadRow
  BY <1>2 DEF HistInv, TypeInv, TypeOK, StoreTypeOK
<1>7. LET old == threads[frame[r].thread]
          new == threads'[frame[r].thread]
      IN  /\ new.status = "acked"
          /\ new.created_by = old.created_by
          /\ new.discussion_type = old.discussion_type
          /\ new.claimed_by = old.claimed_by
          /\ new.claim_scope = old.claim_scope
  <2> HIDE DEF AppendAck, append_ack
  <2>1. QED
    BY <1>5, <1>6 DEF ThreadRow
<1>8. messages \subseteq messages' /\ UNCHANGED <<frame, thread_recipients>>
  OBVIOUS
<1>9. QED
  <2> HIDE DEF AppendAck, append_ack, Insert
  <2>1. pc[r] # "create"
    BY DEF AppendAck
  <2>2. QED
    BY <1>1, <1>3, <1>4, <1>5, <1>7, <1>8, <2>1, RowHistory

\* The commit of a recipient's ack message (api/threads.py:201) takes
\* nothing back.
LEMMA InsertAckHistory ==
  ASSUME HistInv, NEW r \in Ack, InsertAck(r)
  PROVE  HistInv' /\ TakesNothingBack
<1> USE DEF InsertAck, insert_ack, Insert, At, Goto
<1>1. TypeInv' /\ Stamped(r)
  BY InsertAckTypes DEF HistInv, Received, Found, Stamped
<1>2. frame[r].thread \in Thread
  BY <1>1, StampedLocals DEF HistInv
<1>3. \A q \in Request : q # r => pc'[q] = pc[q]
  BY DEF HistInv, TypeInv, TypeOK
<1>4. pc'[r] = "mark"
  BY DEF HistInv, TypeInv, TypeOK, Request
<1>5. /\ \A u \in Thread : u # frame[r].thread => threads'[u] = threads[u]
      /\ threads'[frame[r].thread] =
           [threads[frame[r].thread] EXCEPT !.last_message_at = frame[r].created_at]
  BY <1>2 DEF HistInv, TypeInv, TypeOK, StoreTypeOK
<1>6. threads[frame[r].thread] \in ThreadRow
  BY <1>2 DEF HistInv, TypeInv, TypeOK, StoreTypeOK
<1>7. QED
  BY <1>1, <1>3, <1>4, <1>5, <1>6, RowHistory DEF ThreadRow

\* The flip to acked (api/threads.py:215) takes nothing back.
LEMMA CloseThreadHistory ==
  ASSUME HistInv, NEW r \in Ack, CloseThread(r)
  PROVE  HistInv' /\ TakesNothingBack
<1> USE DEF CloseThread, update_thread_status, At, Goto
<1>1. TypeInv' /\ Stamped(r)
  BY CloseThreadTypes DEF HistInv, Received, Found, Stamped
<1>2. frame[r].thread \in Thread
  BY <1>1, StampedLocals DEF HistInv
<1>3. \A q \in Request : q # r => pc'[q] = pc[q]
  BY DEF HistInv, TypeInv, TypeOK
<1>4. pc'[r] = "ok"
  BY DEF HistInv, TypeInv, TypeOK, Request
<1>5. /\ \A u \in Thread : u # frame[r].thread => threads'[u] = threads[u]
      /\ threads'[frame[r].thread] =
           [threads[frame[r].thread] EXCEPT !.status = "acked"]
  BY <1>2 DEF HistInv, TypeInv, TypeOK, StoreTypeOK
<1>6. threads[frame[r].thread] \in ThreadRow
  BY <1>2 DEF HistInv, TypeInv, TypeOK, StoreTypeOK
<1>7. QED
  BY <1>1, <1>3, <1>4, <1>5, <1>6, RowHistory DEF ThreadRow

\* The caller's mark (api/threads.py:213) takes nothing back.
LEMMA MarkRecipientHistory ==
  ASSUME HistInv, NEW r \in Ack, MarkRecipient(r)
  PROVE  HistInv' /\ TakesNothingBack
<1> USE DEF MarkRecipient, mark_recipient_acked, At, Goto
<1>1. TypeInv'
  BY MarkRecipientTypes DEF HistInv
<1>2. /\ \A q \in Request : q # r => pc'[q] = pc[q]
      /\ pc'[r] = "check" /\ frame' = frame
      /\ UNCHANGED <<threads, messages>>
  BY DEF HistInv, TypeInv, TypeOK, Request
<1>3. Blank' /\ TypeChosen'
  BY <1>2 DEF HistInv, Blank, TypeChosen, Exists, NoThread, Request
<1>4. \A u \in Thread, n \in Name :
        \/ thread_recipients'[u][n] = thread_recipients[u][n]
        \/ thread_recipients[u][n] # "absent" /\ thread_recipients'[u][n] = "acked"
  BY DEF HistInv, TypeInv, TypeOK, StoreTypeOK
<1>5. TakesNothingBack
  BY <1>2, <1>4 DEF TakesNothingBack, Exists
<1>6. QED
  BY <1>1, <1>3, <1>5 DEF HistInv

\* The answer of a claim and the row it leaves, in the words of the handler.
ClaimOutcome(c, caller, t) ==
  /\ frame'[c].caller = caller /\ frame'[c].thread = t
  /\ \A u \in Thread : u # t => threads'[u] = threads[u]
  /\ IF Exists(t) /\ threads[t].claimed_by = None
       THEN threads'[t] = [[threads[t] EXCEPT !.claimed_by = caller]
                             EXCEPT !.claim_scope = c]
       ELSE threads'[t] = threads[t]
  /\ answer'[c].claimed_by = threads'[t].claimed_by
  /\ answer'[c].claim_scope =
       IF threads'[t].claimed_by = caller THEN threads'[t].claim_scope ELSE None
  /\ pc'[c] = IF ~Exists(t) THEN "404"
              ELSE IF threads'[t].claimed_by = caller THEN "ok" ELSE "409"

\* Every claim has such an outcome (api/threads.py:155-171).
LEMMA ClaimStep ==
  ASSUME HistInv, NEW c \in Claim, PostClaim(c)
  PROVE  \E caller \in Name, t \in Thread : ClaimOutcome(c, caller, t)
<1> USE DEF PostClaim, set_claim, Goto
<1>1. PICK caller \in Caller, t \in Thread :
        /\ threads' = IF Exists(t) /\ threads[t].claimed_by = None
                        THEN [threads EXCEPT ![t].claimed_by = caller,
                                             ![t].claim_scope = c]
                        ELSE threads
        /\ answer' = [answer EXCEPT ![c] =
                        [claimed_by  |-> threads'[t].claimed_by,
                         claim_scope |-> IF threads'[t].claimed_by = caller
                                           THEN threads'[t].claim_scope ELSE None]]
        /\ pc' = [pc EXCEPT ![c] = IF ~Exists(t) THEN "404"
                                   ELSE IF threads'[t].claimed_by = caller
                                     THEN "ok" ELSE "409"]
        /\ frame' = [frame EXCEPT ![c] = Locals(caller, t, None, None, None, <<>>)]
  OBVIOUS
<1>2. caller \in Name
  BY Kinds
<1>3. c \in Request
  BY DEF Request
<1>4. /\ frame'[c].caller = caller /\ frame'[c].thread = t
  BY <1>1, <1>3 DEF HistInv, TypeInv, TypeOK, Locals
<1>5. /\ \A u \in Thread : u # t => threads'[u] = threads[u]
      /\ IF Exists(t) /\ threads[t].claimed_by = None
           THEN threads'[t] = [[threads[t] EXCEPT !.claimed_by = caller]
                                 EXCEPT !.claim_scope = c]
           ELSE threads'[t] = threads[t]
  BY <1>1 DEF HistInv, TypeInv, TypeOK, StoreTypeOK
<1>6. /\ answer'[c].claimed_by = threads'[t].claimed_by
      /\ answer'[c].claim_scope =
           IF threads'[t].claimed_by = caller THEN threads'[t].claim_scope ELSE None
  BY <1>1 DEF HistInv, TypeInv, TypeOK
<1>7. pc'[c] = IF ~Exists(t) THEN "404"
               ELSE IF threads'[t].claimed_by = caller THEN "ok" ELSE "409"
  BY <1>1, <1>3 DEF HistInv, TypeInv, TypeOK
<1>8. ClaimOutcome(c, caller, t)
  BY <1>4, <1>5, <1>6, <1>7 DEF ClaimOutcome
<1>9. QED
  BY <1>2, <1>8

\* A claim and its answer (api/threads.py:155) takes nothing back.
LEMMA PostClaimHistory ==
  ASSUME HistInv, NEW c \in Claim, PostClaim(c)
  PROVE  HistInv' /\ TakesNothingBack
<1>1. TypeInv'
  BY PostClaimTypes DEF HistInv
<1>2. PICK caller \in Name, t \in Thread : ClaimOutcome(c, caller, t)
  BY ClaimStep
<1>3. threads[t] \in ThreadRow
  BY DEF HistInv, TypeInv, TypeOK, StoreTypeOK
<1>4. /\ \A q \in Request : q # c => pc'[q] = pc[q] /\ frame'[q] = frame[q]
      /\ UNCHANGED <<messages, thread_recipients>>
  BY DEF PostClaim, set_claim, Goto, HistInv, TypeInv, TypeOK, Request
<1>5. \A u \in Thread : /\ threads'[u].status = threads[u].status
                        /\ threads'[u].created_by = threads[u].created_by
                        /\ threads'[u].discussion_type = threads[u].discussion_type
                        /\ \/ threads'[u] = threads[u]
                           \/ Exists(u) /\ threads[u].claimed_by = None
  <2>1. \A u \in Thread : u # t => threads'[u] = threads[u]
    BY <1>2 DEF ClaimOutcome
  <2>2. CASE Exists(t) /\ threads[t].claimed_by = None
    <3>1. threads'[t] = [[threads[t] EXCEPT !.claimed_by = caller]
                           EXCEPT !.claim_scope = c]
      BY <1>2, <2>2 DEF ClaimOutcome
    <3>2. /\ threads'[t].status = threads[t].status
          /\ threads'[t].created_by = threads[t].created_by
          /\ threads'[t].discussion_type = threads[t].discussion_type
      BY <1>3, <3>1 DEF ThreadRow
    <3>3. QED
      BY <2>1, <2>2, <3>2
  <2>3. CASE ~(Exists(t) /\ threads[t].claimed_by = None)
    <3>1. threads'[t] = threads[t]
      BY <1>2, <2>3 DEF ClaimOutcome
    <3>2. QED
      BY <2>1, <3>1
  <2>4. QED
    BY <2>2, <2>3
<1>6. Blank'
  BY <1>5 DEF HistInv, Blank, Exists, NoThread
<1>7. TypeChosen'
  BY <1>4, Kinds DEF HistInv, TypeChosen, Request
<1>8. TakesNothingBack
  BY <1>4, <1>5 DEF TakesNothingBack, Exists
<1>9. QED
  BY <1>1, <1>6, <1>7, <1>8 DEF HistInv

\* The steps that leave the tables alone.
LEMMA QuietSteps ==
  ASSUME HistInv, NEW r \in Request,
         \/ Turned(r) \/ Fail(r)
         \/ r \in Thread /\ ReceiveThread(r)
         \/ r \in Reply \cup Ack /\ (ReadThread(r) \/ ReadRecipients(r)
                                     \/ Refuse(r) \/ Resolve(r))
         \/ r \in Ack /\ CheckAll(r)
  PROVE  HistInv' /\ TakesNothingBack
<1>1. TypeInv'
  BY TurnedTypes, FailTypes, ReceiveThreadTypes, ReadThreadTypes,
     ReadRecipientsTypes, RefuseTypes, ResolveTypes, CheckAllTypes DEF HistInv
<1>2. UNCHANGED tables
  BY DEF Turned, TurnAway, Fail, ReceiveThread, ReadThread, ReadRecipients, Refuse,
         Resolve, CheckAll, tables
<1>3. \A q \in Request : q # r => pc'[q] = pc[q]
  BY DEF Turned, TurnAway, Fail, ReceiveThread, ReadThread, ReadRecipients, Refuse,
         Resolve, CheckAll, Goto, HistInv, TypeInv, TypeOK
<1>4. \A q \in Request : q # r => frame'[q] = frame[q]
  BY DEF Turned, TurnAway, Fail, ReceiveThread, ReadThread, ReadRecipients, Refuse,
         Resolve, CheckAll, HistInv, TypeInv, TypeOK
<1>5. pc'[r] = "type" => pc[r] = "type" /\ frame'[r] = frame[r]
  BY DEF Turned, TurnAway, Fail, ReceiveThread, ReadThread, ReadRecipients, Refuse,
         Resolve, CheckAll, Goto, HistInv, TypeInv, TypeOK
<1>6. QED
  BY <1>1, <1>2, <1>3, <1>4, <1>5, QuietHistory

\* Every step takes nothing back and keeps the invariant.
LEMMA HistoryStep == HistInv /\ [Motion]_vars => HistInv' /\ [TakesNothingBack]_tables
<1> SUFFICES ASSUME HistInv, [Motion]_vars PROVE HistInv' /\ [TakesNothingBack]_tables
  OBVIOUS
<1>1. CASE UNCHANGED vars
  BY <1>1 DEF HistInv, Blank, TypeChosen, NoThread, TypeInv, TypeOK, StoreTypeOK,
              PcOK, RowsOK, FramesOK, Exists, Received, Found, Stamped, vars, tables
<1>2. ASSUME NEW r \in Request, Comes(r) PROVE HistInv' /\ TakesNothingBack
  BY <1>2, QuietSteps, PostClaimHistory DEF Comes
<1>3. ASSUME NEW r \in Request, Step(r) PROVE HistInv' /\ TakesNothingBack
  BY <1>3, QuietSteps, CreateThreadHistory, AddRecipientHistory, SetTypeHistory,
     AppendMessageHistory, AppendAckHistory, InsertAckHistory,
     MarkRecipientHistory, CloseThreadHistory
     DEF Step
<1>4. ASSUME NEW r \in Request, Fail(r) PROVE HistInv' /\ TakesNothingBack
  BY <1>4, QuietSteps
<1>5. QED
  BY <1>1, <1>2, <1>3, <1>4 DEF Motion

\* No step takes a message back, reopens a thread, forgets a recipient or its
\* ack, or moves a claim (store/threads.py:245, store/recipients.py:18).
THEOREM HistoryIsKept == Spec => HistoryKept
<1>1. Init => HistInv
  BY InitClaimInv DEF ClaimInv
<1>2. QED
  BY <1>1, HistoryStep, NextIsMotion, PTL DEF Spec, HistoryKept

-----------------------------------------------------------------------------
(* Claims *)

\* A step that leaves the claim columns and the answered claims alone.
LEMMA ClaimsSame ==
  ASSUME ClaimInv, HistInv',
         \A c \in Claim : \/ pc'[c] = "400"
                          \/ /\ pc'[c] = pc[c] /\ frame'[c] = frame[c]
                             /\ answer'[c] = answer[c],
         \A t \in Thread : /\ threads'[t].claimed_by = threads[t].claimed_by
                           /\ threads'[t].claim_scope = threads[t].claim_scope
  PROVE  ClaimInv'
BY DEF ClaimInv, Owned, ClaimAgreement

\* No other handler writes the claim columns: create_thread inserts them NULL
\* over nothing, the others leave them out of their UPDATE.
LEMMA OtherSteps ==
  ASSUME HistInv, NEW r \in Request, r \notin Claim, Comes(r) \/ Step(r)
  PROVE  /\ \A c \in Claim : pc'[c] = pc[c] /\ frame'[c] = frame[c] /\ answer'[c] = answer[c]
         /\ \A t \in Thread : /\ threads'[t].claimed_by = threads[t].claimed_by
                              /\ threads'[t].claim_scope = threads[t].claim_scope
<1> USE DEF At, Goto
<1>1. CASE CreateThread(r) /\ r \in Thread
  <2>1. threads[r] = NoThread
    BY <1>1 DEF CreateThread, HistInv, Blank, TypeInv, RowsOK, Received
  <2>2. QED
    BY <1>1, <2>1, Kinds
       DEF CreateThread, create_thread, NoThread, HistInv, TypeInv, TypeOK, StoreTypeOK, Request
<1>2. CASE \/ r \in Thread \cup Reply /\ SetType(r)
           \/ r \in Reply /\ AppendMessage(r)
           \/ r \in Ack /\ (AppendAck(r) \/ InsertAck(r) \/ CloseThread(r))
  <2>1. UNCHANGED <<frame, answer>>
    BY <1>2 DEF SetType, AppendMessage, AppendAck, InsertAck, CloseThread
  <2>2. \A c \in Claim : pc'[c] = pc[c]
    BY <1>2, Kinds DEF SetType, AppendMessage, AppendAck, InsertAck, CloseThread,
                HistInv, TypeInv, TypeOK, Request
  <2>3. threads \in [Thread -> ThreadRow]
    BY DEF HistInv, TypeInv, TypeOK, StoreTypeOK
  <2>4. Stamped(r) => frame[r].thread \in Thread
    BY <1>2, StampedLocals DEF HistInv
  <2>5. Stamped(r)
    BY <1>2 DEF SetType, AppendMessage, AppendAck, InsertAck, CloseThread,
                Received, Found, Stamped
  <2>6. \A t \in Thread : /\ threads'[t].claimed_by = threads[t].claimed_by
                          /\ threads'[t].claim_scope = threads[t].claim_scope
    <3>1. CASE SetType(r)
      BY <2>3, <2>4, <2>5, <3>1 DEF SetType, set_discussion_type, ThreadRow
    <3>2. CASE AppendMessage(r)
      BY <2>3, <2>4, <2>5, <3>2 DEF AppendMessage, append_message, ThreadRow
    <3>3. CASE AppendAck(r)
      BY <2>3, <2>4, <2>5, <3>3 DEF AppendAck, append_ack, ThreadRow
    <3>4. CASE InsertAck(r)
      BY <2>3, <2>4, <2>5, <3>4 DEF InsertAck, insert_ack, ThreadRow
    <3>5. CASE CloseThread(r)
      BY <2>3, <2>4, <2>5, <3>5 DEF CloseThread, update_thread_status, ThreadRow
    <3>6. QED
      BY <1>2, <3>1, <3>2, <3>3, <3>4, <3>5
  <2>7. QED
    BY <2>1, <2>2, <2>6
<1>3. CASE \/ r \in Thread /\ (ReceiveThread(r) \/ AddRecipient(r))
           \/ r \in Reply \cup Ack /\ (ReadThread(r) \/ ReadRecipients(r)
                                       \/ Refuse(r) \/ Resolve(r))
           \/ r \in Ack /\ (MarkRecipient(r) \/ CheckAll(r))
           \/ Turned(r)
  <2>1. threads' = threads /\ answer' = answer
    BY <1>3 DEF ReceiveThread, AddRecipient, add_recipient, ReadThread, ReadRecipients,
         Refuse, Resolve, MarkRecipient, mark_recipient_acked, CheckAll, Turned, TurnAway, tables
  <2>2. \A c \in Claim : pc'[c] = pc[c]
    BY <1>3, Kinds DEF ReceiveThread, AddRecipient, ReadThread, ReadRecipients, Refuse,
         Resolve, MarkRecipient, CheckAll, Turned, TurnAway, HistInv, TypeInv, TypeOK, Request
  <2>3. \A c \in Claim : frame'[c] = frame[c]
    BY <1>3, Kinds DEF ReceiveThread, AddRecipient, ReadThread, ReadRecipients, Refuse,
         Resolve, MarkRecipient, CheckAll, Turned, TurnAway, HistInv, TypeInv, TypeOK, Request
  <2>4. QED
    BY <2>1, <2>2, <2>3
<1>4. QED
  BY <1>1, <1>2, <1>3 DEF Comes, Step

\* A new answer agrees with the stored claim and with every earlier answer.
LEMMA PostClaimAgreement ==
  ASSUME ClaimInv, NEW c \in Claim, PostClaim(c)
  PROVE  ClaimInv'
<1>1. HistInv'
  BY PostClaimHistory DEF ClaimInv
<1>2. PICK caller \in Name, t \in Thread : ClaimOutcome(c, caller, t)
  BY ClaimStep DEF ClaimInv
<1>3. threads[t] \in ThreadRow /\ caller # None /\ c # None
  BY Kinds DEF ClaimInv, HistInv, TypeInv, TypeOK, StoreTypeOK
<1>4. Exists(t) /\ threads[t].claimed_by = None =>
        threads'[t].claimed_by = caller /\ threads'[t].claim_scope = c
  BY <1>2, <1>3 DEF ThreadRow, ClaimOutcome
<1>5. \A u \in Thread : threads[u].claimed_by # None => threads'[u] = threads[u]
  BY <1>2 DEF ClaimOutcome
<1>6. \A d \in Claim : d # c =>
        pc'[d] = pc[d] /\ frame'[d] = frame[d] /\ answer'[d] = answer[d]
  BY DEF PostClaim, Goto, ClaimInv, HistInv, TypeInv, TypeOK, Request
<1>7. Owned'
  BY <1>2, <1>3, <1>4, <1>6 DEF ClaimInv, Owned, ClaimOutcome
<1>8. \A d \in Claim : d # c =>
        LET row == threads'[frame'[d].thread]
        IN  /\ pc'[d] = "ok" => /\ row.claimed_by = frame'[d].caller
                                /\ answer'[d].claimed_by = frame'[d].caller
                                /\ answer'[d].claim_scope = row.claim_scope
                                /\ row.claim_scope # None
            /\ pc'[d] = "409" => /\ answer'[d].claimed_by = row.claimed_by
                                 /\ row.claimed_by \notin {None, frame'[d].caller}
  <2> SUFFICES ASSUME NEW d \in Claim, d # c, pc[d] \in {"ok", "409"}
               PROVE  threads'[frame[d].thread] = threads[frame[d].thread]
    BY <1>6 DEF ClaimInv, ClaimAgreement
  <2>1. frame[d].thread \in Thread
    BY DEF ClaimInv, Owned
  <2>2. pc[d] = "ok" => frame[d].caller # None
    BY DEF ClaimInv, Owned
  <2>3. QED
    BY <1>5, <2>1, <2>2 DEF ClaimInv, ClaimAgreement
<1>9. LET row == threads'[t]
      IN  /\ pc'[c] = "ok" => /\ row.claimed_by = caller
                              /\ answer'[c].claimed_by = caller
                              /\ answer'[c].claim_scope = row.claim_scope
                              /\ row.claim_scope # None
          /\ pc'[c] = "409" => /\ answer'[c].claimed_by = row.claimed_by
                               /\ row.claimed_by \notin {None, caller}
  <2>1. threads'[t].claimed_by # None => threads'[t].claim_scope # None
    BY <1>7 DEF Owned
  <2>2. pc'[c] \in {"ok", "409"} => threads'[t].claimed_by # None
    BY <1>2, <1>3, <1>4 DEF ClaimOutcome
  <2>3. QED
    BY <1>2, <1>3, <2>1, <2>2 DEF ClaimOutcome
<1>10. ClaimAgreement'
  BY <1>2, <1>8, <1>9 DEF ClaimAgreement, ClaimOutcome
<1>11. QED
  BY <1>1, <1>7, <1>10 DEF ClaimInv

\* Every step keeps the invariant of the claims.
LEMMA ClaimInvStep == ClaimInv /\ [Motion]_vars => ClaimInv'
<1> SUFFICES ASSUME ClaimInv, [Motion]_vars PROVE ClaimInv'
  OBVIOUS
<1>1. HistInv'
  BY HistoryStep DEF ClaimInv
<1>2. CASE UNCHANGED vars
  BY <1>1, <1>2, ClaimsSame DEF vars
<1>3. ASSUME NEW r \in Request, Fail(r) PROVE ClaimInv'
  BY <1>1, <1>3, ClaimsSame DEF Fail, tables
<1>4. ASSUME NEW r \in Request, r \notin Claim, Comes(r) \/ Step(r) PROVE ClaimInv'
  BY <1>1, <1>4, OtherSteps, ClaimsSame DEF ClaimInv
<1>5. ASSUME NEW c \in Claim, Turned(c) PROVE ClaimInv'
  <2>1. /\ \A d \in Claim : d # c => pc'[d] = pc[d]
        /\ pc'[c] = "400" /\ UNCHANGED <<threads, frame, answer>>
    BY <1>5, Kinds DEF Turned, TurnAway, At, Goto, tables, ClaimInv, HistInv, TypeInv, TypeOK, Request
  <2>2. QED
    BY <1>1, <2>1, ClaimsSame
<1>6. ASSUME NEW c \in Claim, Comes(c) \/ Step(c) PROVE ClaimInv'
  BY <1>5, <1>6, PostClaimAgreement, Kinds DEF Comes, Step
<1>7. QED
  BY <1>2, <1>3, <1>4, <1>6 DEF Motion

\* Every claim answered 200 named one and the same owner and scope, the stored
\* ones, and every 409 that owner (store/threads.py:243-263).
THEOREM ClaimsAgree == Spec => []ClaimAgreement
<1>1. ClaimInv => ClaimAgreement
  BY DEF ClaimInv
<1>2. QED
  BY InitClaimInv, ClaimInvStep, <1>1, NextIsMotion, PTL DEF Spec
-----------------------------------------------------------------------------
(* Acknowledgement: the inductive invariant *)

\* The loop over all_recipients stays inside the list, which is not empty and
\* starts with the primary recipient; what it has registered is on the list.
LoopOK ==
  \A t \in Thread :
    /\ Received(t) => /\ frame[t].recipients # <<>>
                      /\ frame[t].recipients[1] = frame[t].to
    /\ pc[t] \in {"create", "type"} => frame[t].next = 1
    /\ pc[t] = "add" => frame[t].next \in 1..Len(frame[t].recipients)
    /\ list_recipients(t) \subseteq Posted(t)
    /\ ~Exists(t) => list_recipients(t) = {}

\* post_ack takes the branch its own reading of the recipients calls for; the
\* recipients it read are still there; past the mark its caller is marked, and
\* an ack that acted alone has closed the thread.
AckOK(r) ==
  LET t == frame[r].thread
      n == frame[r].caller
  IN  /\ Found(r) /\ pc[r] # "recipients" =>
           frame[r].extra \subseteq list_recipients(t)
      /\ pc[r] = "append_ack" => ActsAlone(r)
      /\ pc[r] \in {"insert", "mark", "check", "close"} => ~ActsAlone(r)
      /\ pc[r] \in {"check", "close"} \/ (pc[r] = "ok" /\ ~ActsAlone(r)) =>
           thread_recipients[t][n] = "acked"
      /\ pc[r] = "ok" /\ ActsAlone(r) => threads[t].status = "acked"

AcksOK == \A r \in Ack : AckOK(r)

AckInv == TypeInv /\ LoopOK /\ AcksOK /\ EveryoneAckedClosed /\ NoForgottenClose

-----------------------------------------------------------------------------

\* What no step takes back.
Kept ==
  \A t \in Thread :
    /\ threads[t].status = "acked" => threads'[t].status = "acked"
    /\ \A n \in Name : /\ thread_recipients[t][n] = "acked" =>
                            thread_recipients'[t][n] = "acked"
                       /\ thread_recipients[t][n] # "absent" =>
                            thread_recipients'[t][n] # "absent"

\* Stages of an ack that the invariant looks at.
Late == {"check", "close", "ok"}

\* The empty database satisfies the invariant of the acks.
THEOREM InitAckInv == Init => AckInv
<1> SUFFICES ASSUME Init PROVE AckInv
  OBVIOUS
<1>1. TypeInv
  BY InitTypeInv
<1> USE DEF Init, InitStore, NoThread
<1>2. LoopOK
  BY DEF LoopOK, Received, Request, Exists, list_recipients
<1>3. AcksOK
  BY DEF AcksOK, AckOK, Received, Found, Request
<1>4. EveryoneAckedClosed /\ NoForgottenClose
  BY DEF EveryoneAckedClosed, NoForgottenClose, Exists
<1>5. QED
  BY <1>1, <1>2, <1>3, <1>4 DEF AckInv

-----------------------------------------------------------------------------
(* Steps that leave the parts of the invariant alone *)

\* A step that leaves the POSTs and their recipients alone keeps LoopOK.
LEMMA LoopSame ==
  ASSUME LoopOK,
         \A t \in Thread : /\ pc'[t] = pc[t] /\ frame'[t] = frame[t]
                           /\ Exists(t)' <=> Exists(t)
                           /\ list_recipients(t)' = list_recipients(t)
  PROVE  LoopOK'
BY DEF LoopOK, Received, Posted

\* An ack that does not move keeps AckOK while nothing is taken back.
LEMMA AckSame ==
  ASSUME TypeInv, Kept, NEW r \in Ack, AckOK(r),
         pc'[r] = pc[r], frame'[r] = frame[r]
  PROVE  AckOK(r)'
<1>1. Found(r) => frame[r].thread \in Thread /\ frame[r].caller \in Name
  BY DEF TypeInv, FramesOK
<1>2. pc[r] \in {"insert", "mark", "append_ack", "check", "close", "ok"} => Found(r)
  BY DEF Found, Received
<1>3. Found(r)' <=> Found(r)
  BY DEF Found, Received
<1>4. ActsAlone(r)' <=> ActsAlone(r)
  BY DEF ActsAlone
<1>5. Found(r) => list_recipients(frame[r].thread) \subseteq list_recipients(frame[r].thread)'
  BY <1>1 DEF Kept, list_recipients
<1>6. QED
  BY <1>1, <1>2, <1>3, <1>4, <1>5 DEF AckOK, Kept

\* While no ack enters or leaves its last stages and the marks stay as they are.
LEMMA ClosingSame ==
  ASSUME EveryoneAckedClosed, NoForgottenClose,
         \A t \in Thread : /\ threads'[t].status = threads[t].status
                           /\ Exists(t) => frame'[t].recipients = frame[t].recipients
                           /\ thread_recipients'[t] = thread_recipients[t],
         \A r \in Ack : pc[r] \in Late \/ pc'[r] \in Late =>
                          pc'[r] = pc[r] /\ frame'[r] = frame[r]
  PROVE  EveryoneAckedClosed' /\ NoForgottenClose'
<1>1. \A t \in Thread : /\ Exists(t)' <=> Exists(t)
                        /\ Exists(t) => Posted(t)' = Posted(t)
                        /\ Pending(t)' = Pending(t)
                        /\ list_recipients(t)' = list_recipients(t)
  BY DEF Exists, Posted, Pending, list_recipients
<1>2. EveryoneAckedClosed'
  BY <1>1 DEF EveryoneAckedClosed, AcksOn, Late
<1>3. NoForgottenClose'
  BY <1>1 DEF NoForgottenClose, AcksOn, Late, Exists
<1>4. QED
  BY <1>2, <1>3

\* A step of another kind of request that changes no status and no mark.
LEMMA OthersStep ==
  ASSUME AckInv, TypeInv', LoopOK',
         \A t \in Thread : /\ threads'[t].status = threads[t].status
                           /\ Exists(t) => frame'[t].recipients = frame[t].recipients,
         thread_recipients' = thread_recipients,
         \A r \in Ack : pc'[r] = pc[r] /\ frame'[r] = frame[r]
  PROVE  AckInv'
<1>1. Kept
  BY DEF Kept
<1>2. AcksOK'
  BY <1>1, AckSame DEF AckInv, AcksOK
<1>3. EveryoneAckedClosed' /\ NoForgottenClose'
  BY ClosingSame DEF AckInv
<1>4. QED
  BY <1>2, <1>3 DEF AckInv

\* A step of an ack that changes no status and no mark and stays short of the
\* last stages.
LEMMA EarlyStep ==
  ASSUME AckInv, TypeInv', NEW r \in Ack,
         \A t \in Thread : threads'[t].status = threads[t].status,
         thread_recipients' = thread_recipients,
         \A q \in Request : q # r => pc'[q] = pc[q] /\ frame'[q] = frame[q],
         pc[r] \notin Late, pc'[r] \notin Late,
         AckOK(r)'
  PROVE  AckInv'
<1>1. Kept
  BY DEF Kept
<1>2. \A t \in Thread : t # r /\ t \in Request
  BY Kinds DEF Request
<1>3. LoopOK'
  BY <1>2, LoopSame DEF AckInv, Exists, list_recipients
<1>4. \A q \in Ack : q # r => AckOK(q)'
  BY <1>1, AckSame DEF AckInv, AcksOK, Request
<1>5. AcksOK'
  BY <1>4 DEF AcksOK
<1>6. EveryoneAckedClosed' /\ NoForgottenClose'
  BY <1>2, ClosingSame DEF AckInv, Request
<1>7. QED
  BY <1>3, <1>5, <1>6 DEF AckInv

-----------------------------------------------------------------------------
(* Requests that are not acks *)

\* A request turned away (schemas.py:29, api/threads.py:40) keeps the
\* invariant of the acks.
LEMMA TurnedAcks ==
  ASSUME AckInv, NEW r \in Request, Turned(r)
  PROVE  AckInv'
<1> USE DEF Turned, TurnAway, At, Goto, tables
<1>1. TypeInv'
  BY TurnedTypes DEF AckInv
<1>2. pc[r] = "idle" /\ pc' \in [Request -> {"idle"} \cup Running \cup Answered]
  BY <1>1 DEF TypeInv, TypeOK
<1>3. /\ \A q \in Request : q # r => pc'[q] = pc[q]
      /\ pc'[r] \in {"400", "422"}
  BY DEF AckInv, TypeInv, TypeOK
<1>4. LoopOK'
  BY <1>2, <1>3, Kinds DEF AckInv, LoopOK, Received, Posted, Exists, list_recipients, Request
<1>5. \A q \in Ack : AckOK(q)'
  <2>1. Kept
    BY DEF Kept
  <2>2. \A q \in Ack : q # r => AckOK(q)'
    BY <1>3, <2>1, AckSame DEF AckInv, AcksOK, Request
  <2>3. r \in Ack => AckOK(r)'
    BY <1>3 DEF AckOK, Found, Received
  <2>4. QED
    BY <2>2, <2>3
<1>6. EveryoneAckedClosed' /\ NoForgottenClose'
  BY <1>2, <1>3, ClosingSame DEF AckInv, Late, Request
<1>7. QED
  BY <1>1, <1>4, <1>5, <1>6 DEF AckInv, AcksOK

\* A POST received and stamped (api/threads.py:55-67) keeps the invariant
\* of the acks.
LEMMA ReceiveThreadAcks ==
  ASSUME AckInv, NEW t \in Thread, ReceiveThread(t)
  PROVE  AckInv'
<1> USE DEF ReceiveThread, At, Goto, tables
<1>1. TypeInv'
  BY ReceiveThreadTypes DEF AckInv
<1>2. PICK caller \in Caller, p \in Payload, d \in TypeSent, i \in Later(now) :
        /\ HasRecipient(p)
        /\ frame' = [frame EXCEPT ![t] =
                        Locals(caller, t, primary(p), d, now_utc(i),
                               <<primary(p)>> \o extras(p))]
  OBVIOUS
<1> DEFINE f == Locals(caller, t, primary(p), d, now_utc(i), <<primary(p)>> \o extras(p))
<1>3. f.recipients # <<>> /\ f.recipients[1] = f.to /\ f.next = 1
  <2>1. extras(p) \in Seq(Name) /\ <<primary(p)>> \in Seq(Name)
    BY <1>2, PayloadTypes, ApiAssumption, HeadTailProperties DEF extras
  <2>2. /\ <<primary(p)>> \o extras(p) # <<>>
        /\ (<<primary(p)>> \o extras(p))[1] = primary(p)
    BY <2>1
  <2>3. QED
    BY <2>2 DEF Locals
<1>4. /\ frame'[t] = f
      /\ \A q \in Request : q # t => frame'[q] = frame[q] /\ pc'[q] = pc[q]
      /\ pc[t] = "idle" /\ pc'[t] = "create" /\ t \in Request
  BY <1>2 DEF AckInv, TypeInv, TypeOK, Request
<1> HIDE DEF f
<1>5. ~Exists(t)
  BY <1>4 DEF AckInv, TypeInv, RowsOK, Received
<1>6. LoopOK'
  <2>1. \A u \in Thread : /\ list_recipients(u)' = list_recipients(u)
                          /\ Exists(u)' <=> Exists(u)
    BY DEF list_recipients, Exists
  <2>2. \A u \in Thread : u # t => Posted(u)' = Posted(u)
    BY <1>4 DEF Posted, Request
  <2>3. QED
    BY <1>3, <1>4, <1>5, <2>1, <2>2 DEF AckInv, LoopOK, Received, Request
<1>7. QED
  BY <1>1, <1>4, <1>5, <1>6, OthersStep, Kinds DEF Request

\* The commit of a thread and its seed (store/threads.py:18) keeps the
\* invariant of the acks.
LEMMA CreateThreadAcks ==
  ASSUME AckInv, NEW t \in Thread, CreateThread(t)
  PROVE  AckInv'
<1> USE DEF CreateThread, create_thread, At, Goto
<1>1. TypeInv'
  BY CreateThreadTypes DEF AckInv
<1>2. /\ t \in Request /\ pc[t] = "create" /\ pc'[t] \in {"add", "type"}
      /\ \A q \in Request : q # t => pc'[q] = pc[q]
      /\ frame' = frame /\ thread_recipients' = thread_recipients
      /\ threads'[t].status = "open"
      /\ \A u \in Thread : u # t => threads'[u] = threads[u]
  BY DEF AckInv, TypeInv, TypeOK, StoreTypeOK, Request
<1>3. ~Exists(t) /\ Received(t)
  BY <1>2 DEF AckInv, TypeInv, RowsOK, Received
<1>4. frame[t].next = 1 /\ frame[t].recipients \in Seq(Name)
  BY <1>2 DEF AckInv, LoopOK, TypeInv, TypeOK, Frame
<1>5. 1 \in DOMAIN frame[t].recipients /\ 1 \in 1..Len(frame[t].recipients)
  BY <1>3, <1>4 DEF AckInv, LoopOK
<1>6. LoopOK'
  BY <1>2, <1>3, <1>4, <1>5
     DEF AckInv, LoopOK, Received, Posted, Exists, list_recipients, Request
<1>7. AcksOK'
  <2>1. Kept
    BY <1>2, <1>3 DEF Kept, Exists
  <2>2. QED
    BY <1>2, <2>1, AckSame, Kinds DEF AckInv, AcksOK, Request
<1>8. EveryoneAckedClosed'
  <2>1. \A r \in Ack : pc[r] = "ok" => frame[r].thread # t
    BY <1>3 DEF AckInv, TypeInv, FramesOK, Found, Received
  <2>2. frame[t].recipients[1] \in Posted(t)
    BY <1>5 DEF Posted
  <2>3. /\ \A u \in Thread : Posted(u)' = Posted(u) /\ AcksOn(u)' = AcksOn(u)
        /\ \A u \in Thread : u # t => (Exists(u)' <=> Exists(u))
        /\ \A r \in Ack : pc'[r] = pc[r]
    BY <1>2, Kinds DEF Posted, AcksOn, Exists, Request
  <2>4. ~(\A n \in Posted(t) : \E r \in AcksOn(t) : pc[r] = "ok" /\ frame[r].caller = n)
    BY <2>1, <2>2 DEF AcksOn
  <2>5. QED
    BY <1>2, <2>3, <2>4 DEF AckInv, EveryoneAckedClosed, AcksOn
<1>9. NoForgottenClose'
  BY <1>2, <1>3, Kinds
     DEF AckInv, NoForgottenClose, LoopOK, AcksOn, Exists, list_recipients, Pending, Request
<1>10. QED
  BY <1>1, <1>6, <1>7, <1>8, <1>9 DEF AckInv

\* One turn of the recipient loop (api/threads.py:75) keeps the invariant
\* of the acks.
LEMMA AddRecipientAcks ==
  ASSUME AckInv, NEW t \in Thread, AddRecipient(t)
  PROVE  AckInv'
<1> USE DEF AddRecipient, add_recipient, At, Goto
<1>1. TypeInv'
  BY AddRecipientTypes DEF AckInv
<1> DEFINE n == frame[t].recipients[frame[t].next]
<1>2. /\ t \in Request /\ pc[t] = "add"
      /\ frame[t].recipients \in Seq(Name)
      /\ frame[t].next \in 1..Len(frame[t].recipients)
  BY DEF AckInv, LoopOK, TypeInv, TypeOK, Frame, Request
<1>3. n \in Name /\ n \in Posted(t)
  BY <1>2 DEF Posted
<1>4. /\ threads' = threads
      /\ \A q \in Request : q # t => pc'[q] = pc[q] /\ frame'[q] = frame[q]
      /\ frame'[t].recipients = frame[t].recipients /\ frame'[t].to = frame[t].to
      /\ frame'[t].next = frame[t].next + 1
      /\ pc'[t] = IF frame[t].next < Len(frame[t].recipients) THEN "add" ELSE "ok"
  BY <1>2 DEF AckInv, TypeInv, TypeOK, Frame, Request
<1> HIDE DEF n
<1>5. /\ \A u \in Thread : u # t => thread_recipients'[u] = thread_recipients[u]
      /\ \A m \in Name : m # n => thread_recipients'[t][m] = thread_recipients[t][m]
      /\ thread_recipients'[t][n] = IF thread_recipients[t][n] = "absent"
                                      THEN "pending" ELSE thread_recipients[t][n]
  BY <1>3 DEF AckInv, TypeInv, TypeOK, StoreTypeOK, n
<1>6. \A u \in Thread : Posted(u)' = Posted(u) /\ (Exists(u)' <=> Exists(u))
  BY <1>4 DEF Posted, Exists, Request
<1>7. Exists(t) /\ Received(t)
  BY <1>2 DEF AckInv, TypeInv, RowsOK, Received
<1>8. LoopOK'
  <2>1. frame[t].next < Len(frame[t].recipients) =>
          frame[t].next + 1 \in 1..Len(frame[t].recipients)
    BY <1>2
  <2>2. list_recipients(t)' \subseteq list_recipients(t) \cup {n}
    BY <1>5 DEF list_recipients
  <2>3. \A u \in Thread : u # t => list_recipients(u)' = list_recipients(u)
    BY <1>5 DEF list_recipients
  <2>4. Received(t)' /\ pc'[t] \in {"add", "ok"}
    BY <1>4 DEF Received
  <2>5. QED
    BY <1>2, <1>3, <1>4, <1>6, <1>7, <2>1, <2>2, <2>3, <2>4
       DEF AckInv, LoopOK, Received, Request
<1>9. Kept
  BY <1>4, <1>5 DEF Kept
<1>10. AcksOK'
  BY <1>4, <1>9, AckSame, Kinds DEF AckInv, AcksOK, Request
<1>11. EveryoneAckedClosed'
  BY <1>4, <1>6, Kinds DEF AckInv, EveryoneAckedClosed, AcksOn, Request
<1> HIDE DEF AddRecipient, add_recipient, At, Goto
<1>12. NoForgottenClose'
  <2>1. \A u \in Thread : Pending(u)' = {} => Pending(u) = {}
    <3>1. ASSUME NEW u \in Thread, NEW m \in Name, thread_recipients[u][m] = "pending"
          PROVE  thread_recipients'[u][m] = "pending"
      BY <1>5, <3>1
    <3>2. QED
      BY <3>1 DEF Pending
  <2>2. Pending(t)' = {} /\ list_recipients(t) = {} => FALSE
    BY <1>3, <1>5 DEF Pending, list_recipients
  <2>3. \A u \in Thread : u # t => list_recipients(u)' = list_recipients(u)
    BY <1>5 DEF list_recipients
  <2>4. QED
    BY <1>4, <2>1, <2>2, <2>3, Kinds
       DEF AckInv, NoForgottenClose, AcksOn, Request
<1>13. QED
  BY <1>1, <1>8, <1>10, <1>11, <1>12 DEF AckInv

\* A discussion_type stored (api/threads.py:70, 149) keeps the invariant of
\* the acks.
LEMMA SetTypeAcks ==
  ASSUME AckInv, NEW r \in Thread \cup Reply, SetType(r)
  PROVE  AckInv'
<1> USE DEF SetType, set_discussion_type, At, Goto
<1>1. TypeInv'
  BY SetTypeTypes DEF AckInv
<1>2. /\ r \in Request /\ pc[r] = "type"
      /\ pc'[r] = IF r \in Thread THEN "add" ELSE "ok"
      /\ \A q \in Request : q # r => pc'[q] = pc[q]
      /\ \A t \in Thread : threads'[t].status = threads[t].status
  BY DEF AckInv, TypeInv, TypeOK, StoreTypeOK, ThreadRow, Request
<1>3. r \in Thread => frame[r].next \in 1..Len(frame[r].recipients)
  <2>1. frame[r].recipients \in Seq(Name)
    BY <1>2 DEF AckInv, TypeInv, TypeOK, Frame
  <2>2. r \in Thread => frame[r].next = 1 /\ frame[r].recipients # <<>>
    BY <1>2 DEF AckInv, LoopOK, Received
  <2>3. QED
    BY <2>1, <2>2
<1>4. LoopOK'
  BY <1>2, <1>3, Kinds DEF AckInv, LoopOK, Received, Posted, Exists, list_recipients, Request
<1>5. QED
  BY <1>1, <1>2, <1>4, OthersStep, Kinds DEF Request

\* The commit of a reply (store/messages.py:31) keeps the invariant of the
\* acks.
LEMMA AppendMessageAcks ==
  ASSUME AckInv, NEW r \in Reply, AppendMessage(r)
  PROVE  AckInv'
<1> USE DEF AppendMessage, append_message, At, Goto
<1>1. TypeInv'
  BY AppendMessageTypes DEF AckInv
<1>2. /\ \A q \in Request : q # r => pc'[q] = pc[q]
      /\ \A t \in Thread : threads'[t].status = threads[t].status
  BY DEF AckInv, TypeInv, TypeOK, StoreTypeOK, ThreadRow, Request
<1>3. LoopOK'
  BY <1>2, LoopSame, Kinds DEF AckInv, Exists, list_recipients, Request
<1>4. QED
  BY <1>1, <1>2, <1>3, OthersStep, Kinds DEF Request

\* A claim and its answer (api/threads.py:155) keeps the invariant of the
\* acks.
LEMMA PostClaimAcks ==
  ASSUME AckInv, NEW c \in Claim, PostClaim(c)
  PROVE  AckInv'
<1> USE DEF PostClaim, set_claim, At, Goto
<1>1. TypeInv'
  BY PostClaimTypes DEF AckInv
<1>2. /\ \A q \in Request : q # c => pc'[q] = pc[q] /\ frame'[q] = frame[q]
      /\ \A t \in Thread : threads'[t].status = threads[t].status
      /\ thread_recipients' = thread_recipients
  BY DEF AckInv, TypeInv, TypeOK, StoreTypeOK, ThreadRow, Request
<1>3. LoopOK'
  BY <1>2, LoopSame, Kinds DEF AckInv, Exists, list_recipients, Request
<1>4. QED
  BY <1>1, <1>2, <1>3, OthersStep, Kinds DEF Request

\* A handler that dies (store/schema.py:36) keeps the invariant of the
\* acks.
LEMMA FailAcks ==
  ASSUME AckInv, NEW r \in Request, Fail(r)
  PROVE  AckInv'
<1>1. TypeInv'
  BY FailTypes DEF AckInv
<1>2. UNCHANGED <<tables, pc, frame>>
  BY DEF Fail, tables
<1>3. Kept /\ LoopOK'
  BY <1>2, LoopSame DEF AckInv, Kept, Exists, list_recipients, tables
<1>4. AcksOK'
  BY <1>2, <1>3, AckSame DEF AckInv, AcksOK
<1>5. EveryoneAckedClosed' /\ NoForgottenClose'
  BY <1>2, ClosingSame DEF AckInv, tables
<1>6. QED
  BY <1>1, <1>3, <1>4, <1>5 DEF AckInv

-----------------------------------------------------------------------------
(* The common head of post_message and post_ack *)

\* Reading the thread ends in "recipients" or "404": nothing is known yet.
LEMMA ReadThreadAcks ==
  ASSUME AckInv, NEW r \in Reply \cup Ack, ReadThread(r)
  PROVE  AckInv'
<1> USE DEF ReadThread, At, Goto, tables
<1>1. TypeInv'
  BY ReadThreadTypes DEF AckInv
<1>2. /\ \A q \in Request : q # r => pc'[q] = pc[q] /\ frame'[q] = frame[q]
      /\ pc[r] = "idle" /\ pc'[r] \in {"404", "recipients"}
      /\ UNCHANGED <<threads, messages, thread_recipients>>
  BY DEF AckInv, TypeInv, TypeOK, Request
<1>3. CASE r \in Reply
  <2>1. LoopOK'
    BY <1>2, <1>3, LoopSame, Kinds DEF AckInv, Exists, list_recipients, Request
  <2>2. QED
    BY <1>1, <1>2, <1>3, <2>1, OthersStep, Kinds DEF Request
<1>4. CASE r \in Ack
  <2>1. AckOK(r)'
    BY <1>2 DEF AckOK, Found, Received
  <2>2. QED
    BY <1>1, <1>2, <1>4, <2>1, EarlyStep DEF Late
<1>5. QED
  BY <1>3, <1>4

\* The recipients read before a reply or an ack (api/threads.py:137, 186)
\* keeps the invariant of the acks.
LEMMA ReadRecipientsAcks ==
  ASSUME AckInv, NEW r \in Reply \cup Ack, ReadRecipients(r)
  PROVE  AckInv'
<1> USE DEF ReadRecipients, At, Goto, tables
<1>1. TypeInv'
  BY ReadRecipientsTypes DEF AckInv
<1>2. /\ \A q \in Request : q # r => pc'[q] = pc[q] /\ frame'[q] = frame[q]
      /\ pc[r] = "recipients" /\ pc'[r] = "resolve"
      /\ frame'[r].extra = list_recipients(frame[r].thread)
      /\ frame'[r].thread = frame[r].thread
      /\ UNCHANGED <<threads, messages, thread_recipients>>
  BY DEF AckInv, TypeInv, TypeOK, Frame, Request
<1>3. CASE r \in Reply
  <2>1. LoopOK'
    BY <1>2, <1>3, LoopSame, Kinds DEF AckInv, Exists, list_recipients, Request
  <2>2. QED
    BY <1>1, <1>2, <1>3, <2>1, OthersStep, Kinds DEF Request
<1>4. CASE r \in Ack
  <2>1. list_recipients(frame[r].thread)' = list_recipients(frame[r].thread)
    BY <1>2 DEF list_recipients
  <2>2. AckOK(r)'
    BY <1>2, <2>1 DEF AckOK
  <2>3. QED
    BY <1>1, <1>2, <1>4, <2>2, EarlyStep DEF Late
<1>5. QED
  BY <1>3, <1>4

\* A 403 (api/threads.py:122) keeps the invariant of the acks.
LEMMA RefuseAcks ==
  ASSUME AckInv, NEW r \in Reply \cup Ack, Refuse(r)
  PROVE  AckInv'
<1> USE DEF Refuse, At, Goto, tables
<1>1. TypeInv'
  BY RefuseTypes DEF AckInv
<1>2. /\ \A q \in Request : q # r => pc'[q] = pc[q]
      /\ pc[r] = "resolve" /\ pc'[r] = "403"
      /\ UNCHANGED <<threads, messages, thread_recipients, frame>>
  BY DEF AckInv, TypeInv, TypeOK, Request
<1>3. CASE r \in Reply
  <2>1. LoopOK'
    BY <1>2, <1>3, LoopSame, Kinds DEF AckInv, Exists, list_recipients, Request
  <2>2. QED
    BY <1>1, <1>2, <1>3, <2>1, OthersStep, Kinds DEF Request
<1>4. CASE r \in Ack
  <2>1. AckOK(r)
    BY <1>4 DEF AckInv, AcksOK
  <2>2. AckOK(r)'
    BY <1>2, <2>1 DEF AckOK, Found, Received, list_recipients
  <2>3. QED
    BY <1>1, <1>2, <1>4, <2>2, EarlyStep DEF Late
<1>5. QED
  BY <1>3, <1>4

\* The recipient resolved and the message stamped (api/threads.py:138, 188)
\* keeps the invariant of the acks.
LEMMA ResolveAcks ==
  ASSUME AckInv, NEW r \in Reply \cup Ack, Resolve(r)
  PROVE  AckInv'
<1> USE DEF Resolve, At, Goto, tables
<1>1. TypeInv'
  BY ResolveTypes DEF AckInv
<1>2. /\ \A q \in Request : q # r => pc'[q] = pc[q] /\ frame'[q] = frame[q]
      /\ pc[r] = "resolve"
      /\ pc'[r] = IF r \in Reply THEN "append"
                  ELSE IF ~ActsAlone(r) THEN "insert" ELSE "append_ack"
      /\ frame'[r].extra = frame[r].extra
      /\ frame'[r].caller = frame[r].caller
      /\ frame'[r].thread = frame[r].thread
      /\ UNCHANGED <<threads, messages, thread_recipients>>
  BY DEF AckInv, TypeInv, TypeOK, Frame, Request, ActsAlone
<1>3. CASE r \in Reply
  <2>1. LoopOK'
    BY <1>2, <1>3, LoopSame, Kinds DEF AckInv, Exists, list_recipients, Request
  <2>2. QED
    BY <1>1, <1>2, <1>3, <2>1, OthersStep, Kinds DEF Request
<1>4. CASE r \in Ack
  <2>1. AckOK(r)
    BY <1>4 DEF AckInv, AcksOK
  <2>2. pc'[r] \in {"insert", "append_ack"} /\ (pc'[r] = "insert" <=> ~ActsAlone(r))
    BY <1>2, <1>4, Kinds
  <2>3. AckOK(r)'
    BY <1>2, <2>1, <2>2 DEF AckOK, Found, Received, ActsAlone, list_recipients
  <2>4. QED
    BY <1>1, <1>2, <1>4, <2>2, <2>3, EarlyStep DEF Late
<1>5. QED
  BY <1>3, <1>4

-----------------------------------------------------------------------------
(* The stages of an ack *)

\* What an ack past its stamp has in hand.
LEMMA AckLocals ==
  ASSUME AckInv, NEW r \in Ack,
         pc[r] \in {"append_ack", "insert", "mark", "check", "close"}
  PROVE  /\ frame[r].thread \in Thread /\ frame[r].caller \in Name
         /\ frame[r].extra \subseteq list_recipients(frame[r].thread)
         /\ Exists(frame[r].thread)
         /\ threads[frame[r].thread].status \in {"open", "acked"}
         /\ pc[r] # "append_ack" =>
              thread_recipients[frame[r].thread][frame[r].caller] # "absent"
<1>1. Found(r) /\ AckOK(r)
  BY DEF Found, Received, AckInv, AcksOK
<1>2. /\ frame[r].thread \in Thread /\ frame[r].caller \in Name
      /\ frame[r].extra \subseteq list_recipients(frame[r].thread)
      /\ Exists(frame[r].thread)
  BY <1>1 DEF AckOK, AckInv, TypeInv, FramesOK
<1>3. threads[frame[r].thread].status \in {"open", "acked"}
  BY <1>2 DEF Exists, AckInv, TypeInv, TypeOK, StoreTypeOK, ThreadRow
<1>4. pc[r] # "append_ack" => frame[r].caller \in frame[r].extra
  BY <1>1 DEF AckOK, ActsAlone
<1>5. QED
  BY <1>2, <1>3, <1>4 DEF list_recipients

\* The commit of a recipient's ack message (api/threads.py:201) keeps the
\* invariant of the acks.
LEMMA InsertAckAcks ==
  ASSUME AckInv, NEW r \in Ack, InsertAck(r)
  PROVE  AckInv'
<1> USE DEF InsertAck, insert_ack, At, Goto
<1>1. TypeInv'
  BY InsertAckTypes DEF AckInv
<1>2. /\ \A q \in Request : q # r => pc'[q] = pc[q]
      /\ pc[r] = "insert" /\ pc'[r] = "mark"
      /\ \A t \in Thread : threads'[t].status = threads[t].status
      /\ UNCHANGED <<thread_recipients, frame>>
  BY DEF AckInv, TypeInv, TypeOK, StoreTypeOK, ThreadRow, Request
<1>3. AckOK(r)
  BY DEF AckInv, AcksOK
<1>4. AckOK(r)'
  BY <1>2, <1>3 DEF AckOK, Found, Received, ActsAlone, list_recipients
<1>5. QED
  BY <1>1, <1>2, <1>4, EarlyStep DEF Late

\* The caller's mark (api/threads.py:213) keeps the invariant of the acks.
LEMMA MarkRecipientAcks ==
  ASSUME AckInv, NEW r \in Ack, MarkRecipient(r)
  PROVE  AckInv'
<1> USE DEF MarkRecipient, mark_recipient_acked, At, Goto
<1> DEFINE t == frame[r].thread
           n == frame[r].caller
<1>1. TypeInv'
  BY MarkRecipientTypes DEF AckInv
<1>2. /\ \A q \in Request : q # r => pc'[q] = pc[q]
      /\ r \in Request /\ pc[r] = "mark" /\ pc'[r] = "check"
      /\ threads' = threads /\ frame' = frame
  BY DEF AckInv, TypeInv, TypeOK, Request
<1>3. t \in Thread /\ n \in Name /\ thread_recipients[t][n] # "absent"
  BY <1>2, AckLocals
<1>4. /\ \A u \in Thread : u # t => thread_recipients'[u] = thread_recipients[u]
      /\ \A m \in Name : m # n => thread_recipients'[t][m] = thread_recipients[t][m]
      /\ thread_recipients'[t][n] = "acked"
  BY <1>3 DEF AckInv, TypeInv, TypeOK, StoreTypeOK
<1> HIDE DEF t, n
<1>5. \A u \in Thread : list_recipients(u)' = list_recipients(u)
  BY <1>3, <1>4 DEF list_recipients
<1>6. LoopOK'
  BY <1>2, <1>5, LoopSame, Kinds DEF AckInv, Exists, Request
<1>7. Kept
  BY <1>2, <1>3, <1>4 DEF Kept
<1>8. AcksOK'
  <2>1. AckOK(r)
    BY DEF AckInv, AcksOK
  <2>2. AckOK(r)'
    BY <1>2, <1>3, <1>4, <1>5, <2>1 DEF AckOK, Found, Received, ActsAlone, t, n
  <2>3. \A q \in Ack : q # r => AckOK(q)'
    BY <1>2, <1>7, AckSame DEF AckInv, AcksOK, Request
  <2>4. QED
    BY <2>2, <2>3 DEF AcksOK
<1>9. EveryoneAckedClosed'
  <2>1. \A u \in Thread : /\ Posted(u)' = Posted(u) /\ AcksOn(u)' = AcksOn(u)
                          /\ Exists(u)' <=> Exists(u)
    BY <1>2 DEF Posted, AcksOn, Exists
  <2>2. \A q \in Ack : pc'[q] = "ok" => pc[q] = "ok"
    BY <1>2 DEF Request
  <2>3. QED
    BY <1>2, <2>1, <2>2 DEF AckInv, EveryoneAckedClosed, AcksOn
<1>10. NoForgottenClose'
  <2>1. \A u \in Thread : u # t => Pending(u)' = Pending(u)
    BY <1>4 DEF Pending
  <2>2. \A u \in Thread : u = t => r \in AcksOn(u)' /\ pc'[r] = "check"
    BY <1>2 DEF AcksOn, t
  <2>3. \A u \in Thread : \A q \in AcksOn(u) :
          pc[q] \in {"check", "close"} => q \in AcksOn(u)' /\ pc'[q] \in {"check", "close"}
    BY <1>2 DEF AcksOn, Request
  <2> SUFFICES ASSUME NEW u \in Thread, threads[u].status = "open",
                      list_recipients(u) # {}, Pending(u)' = {}
               PROVE  \E q \in AcksOn(u)' : pc'[q] \in {"check", "close"}
    BY <1>2, <1>5 DEF NoForgottenClose
  <2>4. CASE u = t
    BY <2>2, <2>4
  <2>5. CASE u # t
    BY <2>1, <2>3, <2>5 DEF AckInv, NoForgottenClose
  <2>6. QED
    BY <2>4, <2>5
<1>11. QED
  BY <1>1, <1>6, <1>8, <1>9, <1>10 DEF AckInv

\* An ack that has just closed its thread: the two promises hold of it.
LEMMA ClosedStep ==
  ASSUME AckInv, TypeInv', NEW r \in Ack,
         pc[r] \in {"append_ack", "close"}, pc'[r] = "ok",
         \A q \in Request : q # r => pc'[q] = pc[q],
         UNCHANGED <<frame, thread_recipients>>,
         threads'[frame[r].thread].status = "acked",
         \A u \in Thread : u # frame[r].thread => threads'[u] = threads[u]
  PROVE  AckInv'
<1> DEFINE t == frame[r].thread
<1>1. t \in Thread /\ Exists(t) /\ threads[t].status \in {"open", "acked"}
  BY AckLocals
<1>2. \A u \in Thread : /\ Exists(u)' <=> Exists(u)
                        /\ list_recipients(u)' = list_recipients(u)
                        /\ Posted(u)' = Posted(u) /\ AcksOn(u)' = AcksOn(u)
                        /\ Pending(u)' = Pending(u)
  BY <1>1 DEF Exists, list_recipients, Posted, AcksOn, Pending
<1>3. LoopOK'
  BY <1>2, LoopSame, Kinds DEF AckInv, Request
<1>4. Kept
  BY <1>1 DEF Kept
<1>5. AckOK(r)'
  <2>1. AckOK(r) /\ Found(r)
    BY DEF AckInv, AcksOK, Found, Received
  <2>2. list_recipients(t)' = list_recipients(t)
    BY <1>1, <1>2
  <2>3. QED
    BY <2>1, <2>2 DEF AckOK, Found, Received, ActsAlone
<1>6. AcksOK'
  BY <1>4, <1>5, AckSame DEF AckInv, AcksOK, Request
<1>7. \A u \in Thread \ {t} : /\ threads'[u].status = threads[u].status
                              /\ r \notin AcksOn(u)
                              /\ \A q \in AcksOn(u) : pc'[q] = pc[q]
  BY DEF AcksOn, Request
<1>8. EveryoneAckedClosed'
  BY <1>2, <1>7 DEF AckInv, EveryoneAckedClosed
<1>9. NoForgottenClose'
  BY <1>2, <1>7 DEF AckInv, NoForgottenClose
<1>10. QED
  BY <1>3, <1>6, <1>8, <1>9 DEF AckInv

\* The commit of an ack that acts alone (store/messages.py:78) keeps the
\* invariant of the acks.
LEMMA AppendAckAcks ==
  ASSUME AckInv, NEW r \in Ack, AppendAck(r)
  PROVE  AckInv'
<1> USE DEF AppendAck, append_ack, At, Goto
<1>1. TypeInv' /\ frame[r].thread \in Thread
  BY AppendAckTypes, AckLocals DEF AckInv
<1>2. /\ \A q \in Request : q # r => pc'[q] = pc[q]
      /\ pc'[r] = "ok"
      /\ threads'[frame[r].thread].status = "acked"
      /\ \A u \in Thread : u # frame[r].thread => threads'[u] = threads[u]
  BY <1>1 DEF AckInv, TypeInv, TypeOK, StoreTypeOK, ThreadRow, Request
<1>3. QED
  BY <1>1, <1>2, ClosedStep

\* The flip to acked (api/threads.py:215) keeps the invariant of the acks.
LEMMA CloseThreadAcks ==
  ASSUME AckInv, NEW r \in Ack, CloseThread(r)
  PROVE  AckInv'
<1> USE DEF CloseThread, update_thread_status, At, Goto
<1>1. TypeInv' /\ frame[r].thread \in Thread
  BY CloseThreadTypes, AckLocals DEF AckInv
<1>2. /\ \A q \in Request : q # r => pc'[q] = pc[q]
      /\ pc'[r] = "ok"
      /\ threads'[frame[r].thread].status = "acked"
      /\ \A u \in Thread : u # frame[r].thread => threads'[u] = threads[u]
  BY <1>1 DEF AckInv, TypeInv, TypeOK, StoreTypeOK, ThreadRow, Request
<1>3. QED
  BY <1>1, <1>2, ClosedStep

\* The heart of the matter: an ack that finds somebody pending answers without
\* closing, and the somebody cannot have been answered yet.
LEMMA CheckAllAcks ==
  ASSUME AckInv, NEW r \in Ack, CheckAll(r)
  PROVE  AckInv'
<1> USE DEF CheckAll, At, Goto, tables
<1> DEFINE t == frame[r].thread
<1>1. TypeInv'
  BY CheckAllTypes DEF AckInv
<1>2. /\ \A q \in Request : q # r => pc'[q] = pc[q]
      /\ pc[r] = "check"
      /\ pc'[r] = IF Pending(t) = {} THEN "close" ELSE "ok"
      /\ UNCHANGED <<threads, messages, thread_recipients, frame>>
  BY DEF AckInv, TypeInv, TypeOK, Request, all_recipients_acked
<1>3. t \in Thread /\ frame[r].caller \in Name
  BY <1>2, AckLocals
<1>4. \A u \in Thread : /\ Exists(u)' <=> Exists(u)
                        /\ list_recipients(u)' = list_recipients(u)
                        /\ Posted(u)' = Posted(u) /\ AcksOn(u)' = AcksOn(u)
                        /\ Pending(u)' = Pending(u)
  BY <1>2 DEF Exists, list_recipients, Posted, AcksOn, Pending
<1>5. LoopOK'
  BY <1>2, <1>4, LoopSame, Kinds DEF AckInv, Request
<1>6. AcksOK'
  <2>1. Kept
    BY <1>2 DEF Kept
  <2>2. AckOK(r) /\ Found(r)
    BY <1>2 DEF AckInv, AcksOK, Found, Received
  <2>3. AckOK(r)'
    BY <1>2, <1>3, <1>4, <2>2 DEF AckOK, Found, Received, ActsAlone
  <2>4. QED
    BY <1>2, <2>1, <2>3, AckSame DEF AckInv, AcksOK, Request
<1>7. EveryoneAckedClosed'
  <2> SUFFICES ASSUME NEW u \in Thread, Exists(u),
                      \A n \in Posted(u) : \E q \in AcksOn(u) :
                        pc'[q] = "ok" /\ frame[q].caller = n,
                      threads[u].status # "acked"
               PROVE  FALSE
    BY <1>2, <1>4 DEF EveryoneAckedClosed
  <2>1. u = t /\ pc'[r] = "ok"
    BY <1>2 DEF AckInv, EveryoneAckedClosed, AcksOn, Request
  <2>2. PICK p \in Pending(t) : TRUE
    BY <1>2, <2>1
  <2>3. p \in Name /\ p \in Posted(t) /\ thread_recipients[t][p] = "pending"
    BY <1>3, <2>2 DEF Pending, AckInv, LoopOK, list_recipients
  <2>4. PICK q \in AcksOn(t) : pc'[q] = "ok" /\ frame[q].caller = p
    BY <2>1, <2>3
  <2>5. q \in Ack /\ frame[q].thread = t /\ AckOK(q)'
    BY <1>6 DEF AcksOn, AcksOK
  <2>6. CASE ActsAlone(q)
    BY <1>2, <2>1, <2>4, <2>5, <2>6 DEF AckOK, ActsAlone
  <2>7. CASE ~ActsAlone(q)
    BY <1>2, <2>3, <2>4, <2>5, <2>7 DEF AckOK, ActsAlone
  <2>8. QED
    BY <2>6, <2>7
<1>8. NoForgottenClose'
  BY <1>2, <1>4 DEF AckInv, NoForgottenClose, AcksOn, Request
<1>9. QED
  BY <1>1, <1>5, <1>6, <1>7, <1>8 DEF AckInv

-----------------------------------------------------------------------------
(* Theorems *)

\* The invariant is preserved by every step.
LEMMA AckInvStep == AckInv /\ [Motion]_vars => AckInv'
<1> SUFFICES ASSUME AckInv, [Motion]_vars PROVE AckInv'
  OBVIOUS
<1>1. CASE UNCHANGED vars
  <2>1. UNCHANGED <<threads, messages, thread_recipients, now, pc, frame, answer, failed>>
    BY <1>1 DEF vars
  <2>2. TypeInv'
    BY <2>1 DEF AckInv, TypeInv, TypeOK, StoreTypeOK, PcOK, RowsOK, FramesOK,
                Exists, Received, Found, Stamped
  <2>3. Kept /\ LoopOK'
    BY <2>1, LoopSame DEF AckInv, Kept, Exists, list_recipients
  <2>4. AcksOK'
    BY <2>1, <2>3, AckSame DEF AckInv, AcksOK
  <2>5. EveryoneAckedClosed' /\ NoForgottenClose'
    BY <2>1, ClosingSame DEF AckInv
  <2>6. QED
    BY <2>2, <2>3, <2>4, <2>5 DEF AckInv
<1>2. ASSUME NEW r \in Request, Comes(r) PROVE AckInv'
  BY <1>2, TurnedAcks, ReceiveThreadAcks, ReadThreadAcks, PostClaimAcks
     DEF Comes
<1>3. ASSUME NEW r \in Request, Step(r) PROVE AckInv'
  BY <1>3, CreateThreadAcks, AddRecipientAcks, SetTypeAcks, ReadRecipientsAcks,
     RefuseAcks, ResolveAcks, AppendMessageAcks, AppendAckAcks, InsertAckAcks,
     MarkRecipientAcks, CheckAllAcks, CloseThreadAcks
     DEF Step
<1>4. ASSUME NEW r \in Request, Fail(r) PROVE AckInv'
  BY <1>4, FailAcks
<1>5. QED
  BY <1>1, <1>2, <1>3, <1>4 DEF Motion

\* When every recipient's ack has been answered, the thread is closed, however
\* the acks interleave with each other and with post_thread and whichever
\* handlers die (api/threads.py:213-215).
THEOREM BroadcastCloses == Spec => []EveryoneAckedClosed
<1>1. AckInv => EveryoneAckedClosed
  BY DEF AckInv
<1>2. QED
  BY InitAckInv, AckInvStep, <1>1, NextIsMotion, PTL DEF Spec

\* An open thread without a pending recipient has an ack between its mark and
\* its flip (api/threads.py:213-215).
THEOREM CloseIsNeverForgotten == Spec => []NoForgottenClose
<1>1. AckInv => NoForgottenClose
  BY DEF AckInv
<1>2. QED
  BY InitAckInv, AckInvStep, <1>1, NextIsMotion, PTL DEF Spec
=============================================================================
