----------------------------- MODULE ApiProofs ------------------------------
(***************************************************************************)
(* Proofs about the store and the request handlers, for any sets of        *)
(* requests, names and payloads and any number of dying handlers.          *)
(***************************************************************************)
EXTENDS ApiProperties, SequenceTheorems, TLAPS

-----------------------------------------------------------------------------
(* What each transaction of the store keeps, for arguments of the right types *)

\* What no transaction but create_thread touches.
SameThreads == \A u \in Thread : /\ threads'[u].created_by = threads[u].created_by
                                 /\ Exists(u)' <=> Exists(u)

\* create_thread keeps the tables well typed.
LEMMA create_threadTypes ==
  ASSUME StoreTypeOK, NEW t \in Thread, NEW c \in Name, NEW to \in Name,
         NEW at \in Stamp, create_thread(t, c, to, at)
  PROVE  StoreTypeOK'
<1> USE DEF create_thread, Insert, StoreTypeOK
<1>1. threads' \in [Thread -> ThreadRow]
  BY DEF ThreadRow
<1>2. messages' \subseteq MessageRow
  BY DEF MessageRow
<1>3. QED
  BY <1>1, <1>2

\* A row replaced by one of the same creator, absent only if it was.
LEMMA RowReplaced ==
  ASSUME threads \in [Thread -> ThreadRow], NEW t \in Thread, NEW row \in ThreadRow,
         threads' = [threads EXCEPT ![t] = row],
         row.created_by = threads[t].created_by,
         row.status = "absent" <=> threads[t].status = "absent"
  PROVE  threads' \in [Thread -> ThreadRow] /\ SameThreads
BY DEF SameThreads, Exists

\* set_discussion_type keeps the tables well typed and every
\* thread's row and creator where they were.
LEMMA set_discussion_typeTypes ==
  ASSUME StoreTypeOK, NEW t \in Thread, NEW d \in DISCUSSION_TYPES \cup {None},
         set_discussion_type(t, d)
  PROVE  StoreTypeOK' /\ SameThreads
<1> DEFINE row == [threads[t] EXCEPT !.discussion_type = d]
<1>1. row \in ThreadRow /\ row.created_by = threads[t].created_by
      /\ row.status = threads[t].status
  BY DEF StoreTypeOK, ThreadRow
<1>2. threads' = [threads EXCEPT ![t] = row]
  BY DEF set_discussion_type
<1> HIDE DEF row
<1>3. QED
  BY <1>1, <1>2, RowReplaced DEF set_discussion_type, StoreTypeOK

\* add_recipient keeps the tables well typed and every
\* thread's row and creator where they were.
LEMMA add_recipientTypes ==
  ASSUME StoreTypeOK, NEW t \in Thread, NEW n, add_recipient(t, n)
  PROVE  StoreTypeOK' /\ SameThreads
BY DEF add_recipient, StoreTypeOK, SameThreads, Exists

\* append_message keeps the tables well typed and every
\* thread's row and creator where they were.
LEMMA append_messageTypes ==
  ASSUME StoreTypeOK, NEW t \in Thread, NEW id \in Thread \cup Reply \cup Ack,
         NEW from \in Name, NEW to \in Name, NEW at \in Stamp,
         append_message(id, t, from, to, at)
  PROVE  StoreTypeOK' /\ SameThreads
<1> DEFINE row == [threads[t] EXCEPT !.last_message_at = at]
<1>1. row \in ThreadRow /\ row.created_by = threads[t].created_by
      /\ row.status = threads[t].status
  BY DEF StoreTypeOK, ThreadRow
<1>2. threads' = [threads EXCEPT ![t] = row] /\ Exists(t)
  BY DEF append_message
<1> HIDE DEF row
<1>3. threads' \in [Thread -> ThreadRow] /\ SameThreads
  BY <1>1, <1>2, RowReplaced DEF StoreTypeOK, Exists
<1>4. messages' \subseteq MessageRow
  BY DEF append_message, Insert, StoreTypeOK, MessageRow
<1>5. QED
  BY <1>3, <1>4 DEF append_message, StoreTypeOK

\* append_ack keeps the tables well typed and every
\* thread's row and creator where they were.
LEMMA append_ackTypes ==
  ASSUME StoreTypeOK, NEW t \in Thread, NEW id \in Thread \cup Reply \cup Ack,
         NEW from \in Name, NEW to \in Name, NEW at \in Stamp,
         append_ack(id, t, from, to, at)
  PROVE  StoreTypeOK' /\ SameThreads
<1> DEFINE row == [[threads[t] EXCEPT !.status = "acked"] EXCEPT !.last_message_at = at]
<1>1. row \in ThreadRow /\ row.created_by = threads[t].created_by
      /\ row.status = "acked"
  BY DEF StoreTypeOK, ThreadRow
<1>2. threads' = [threads EXCEPT ![t] = row] /\ Exists(t)
  BY DEF append_ack
<1> HIDE DEF row
<1>3. threads' \in [Thread -> ThreadRow] /\ SameThreads
  BY <1>1, <1>2, RowReplaced DEF StoreTypeOK, Exists
<1>4. messages' \subseteq MessageRow
  BY DEF append_ack, Insert, StoreTypeOK, MessageRow
<1>5. QED
  BY <1>3, <1>4 DEF append_ack, StoreTypeOK

\* insert_ack keeps the tables well typed and every
\* thread's row and creator where they were.
LEMMA insert_ackTypes ==
  ASSUME StoreTypeOK, NEW t \in Thread, NEW id \in Thread \cup Reply \cup Ack,
         NEW from \in Name, NEW to \in Name, NEW at \in Stamp,
         insert_ack(id, t, from, to, at)
  PROVE  StoreTypeOK' /\ SameThreads
<1> DEFINE row == [threads[t] EXCEPT !.last_message_at = at]
<1>1. row \in ThreadRow /\ row.created_by = threads[t].created_by
      /\ row.status = threads[t].status
  BY DEF StoreTypeOK, ThreadRow
<1>2. threads' = [threads EXCEPT ![t] = row] /\ Exists(t)
  BY DEF insert_ack
<1> HIDE DEF row
<1>3. threads' \in [Thread -> ThreadRow] /\ SameThreads
  BY <1>1, <1>2, RowReplaced DEF StoreTypeOK, Exists
<1>4. messages' \subseteq MessageRow
  BY DEF insert_ack, Insert, StoreTypeOK, MessageRow
<1>5. QED
  BY <1>3, <1>4 DEF insert_ack, StoreTypeOK

\* mark_recipient_acked keeps the tables well typed and every
\* thread's row and creator where they were.
LEMMA mark_recipient_ackedTypes ==
  ASSUME StoreTypeOK, NEW t \in Thread, NEW n, mark_recipient_acked(t, n)
  PROVE  StoreTypeOK' /\ SameThreads
BY DEF mark_recipient_acked, StoreTypeOK, SameThreads, Exists

\* update_thread_status keeps the tables well typed and every
\* thread's row and creator where they were.
LEMMA update_thread_statusTypes ==
  ASSUME StoreTypeOK, NEW t \in Thread, Exists(t),
         update_thread_status(t, "acked")
  PROVE  StoreTypeOK' /\ SameThreads
<1> DEFINE row == [threads[t] EXCEPT !.status = "acked"]
<1>1. row \in ThreadRow /\ row.created_by = threads[t].created_by
      /\ row.status = "acked"
  BY DEF StoreTypeOK, ThreadRow
<1>2. threads' = [threads EXCEPT ![t] = row]
  BY DEF update_thread_status
<1> HIDE DEF row
<1>3. QED
  BY <1>1, <1>2, RowReplaced DEF update_thread_status, StoreTypeOK, Exists

\* set_claim keeps the tables well typed and every
\* thread's row and creator where they were.
LEMMA set_claimTypes ==
  ASSUME StoreTypeOK, NEW t \in Thread, NEW n \in Name, NEW c \in Claim,
         set_claim(t, n, c)
  PROVE  StoreTypeOK' /\ SameThreads
<1> USE DEF set_claim
<1>1. CASE Exists(t) /\ threads[t].claimed_by = None
  <2> DEFINE row == [[threads[t] EXCEPT !.claimed_by = n] EXCEPT !.claim_scope = c]
  <2>1. threads' = [threads EXCEPT ![t] = row]
    BY <1>1
  <2>2. threads[t] \in ThreadRow
    BY DEF StoreTypeOK
  <2>3. row \in ThreadRow /\ row.status = threads[t].status
        /\ row.created_by = threads[t].created_by
    BY <2>2 DEF ThreadRow
  <2> HIDE DEF row
  <2>4. QED
    BY <1>1, <2>1, <2>3 DEF StoreTypeOK, SameThreads, Exists
<1>2. CASE ~(Exists(t) /\ threads[t].claimed_by = None)
  BY <1>2 DEF StoreTypeOK, SameThreads, Exists
<1>3. QED
  BY <1>1, <1>2
-----------------------------------------------------------------------------
(* The inductive invariant behind type correctness *)

\* Each kind of request stays in its own handler.
PcOK ==
  /\ \A r \in Thread : pc[r] \in {"idle", "400", "422", "create", "type", "add", "ok"}
  /\ \A r \in Reply : pc[r] \in {"idle", "400", "422", "404", "recipients",
                                 "resolve", "403", "append", "type", "ok"}
  /\ \A r \in Ack : pc[r] \in {"idle", "400", "422", "404", "recipients",
                               "resolve", "403", "append_ack", "insert",
                               "mark", "check", "close", "ok"}
  /\ \A r \in Claim : pc[r] \in {"idle", "400", "404", "409", "ok"}

\* Stages of a handler by what it has learned.
Received(r) == pc[r] \notin {"idle", "400", "422"}
Found(r)    == Received(r) /\ pc[r] # "404"
Stamped(r)  == Found(r) /\ pc[r] \notin {"recipients", "resolve", "403"}

\* A thread has a row from the commit of create_thread on, its creator is the
\* caller of that request, and there are messages only of such threads.
RowsOK ==
  /\ \A t \in Thread :
       /\ Exists(t) <=> Received(t) /\ pc[t] # "create"
       /\ Exists(t) => threads[t].created_by = frame[t].caller
  /\ \A m \in messages : m.thread_id \in Thread /\ Exists(m.thread_id)

\* What a handler has in its locals at each stage.
FramesOK ==
  /\ \A t \in Thread : Received(t) =>
       /\ frame[t].thread = t
       /\ frame[t].caller \in Name
       /\ frame[t].to \in Name
       /\ frame[t].created_at \in Stamp
  /\ \A r \in Reply \cup Ack :
       /\ Found(r) => /\ frame[r].thread \in Thread
                      /\ Exists(frame[r].thread)
                      /\ frame[r].caller \in Name
                      /\ frame[r].to \in Name
       /\ Stamped(r) => frame[r].created_at \in Stamp

TypeInv == TypeOK /\ PcOK /\ RowsOK /\ FramesOK

-----------------------------------------------------------------------------
(* Steps *)

\* A request turned away, by its handler or, in the compositions of Api with a
\* client that sends what others do not, before it.
Turned(r) == \/ TurnAway(r, "400")
             \/ r \notin Claim /\ TurnAway(r, "422")

\* The first step of a request.
Comes(r) ==
  \/ r \in Thread /\ ReceiveThread(r)
  \/ r \in Reply \cup Ack /\ ReadThread(r)
  \/ r \in Claim /\ PostClaim(r)
  \/ Turned(r)

\* Every step of the handlers, whoever their clients are.
Motion == \E r \in Request : Comes(r) \/ Step(r) \/ Fail(r)

\* Claims have no body that is refused (schemas.py:42), so what Reject does is
\* a turning away like the others.
LEMMA ArriveComes ==
  ASSUME NEW r \in Request, Arrive(r)
  PROVE  Comes(r)
<1>1. CASE r \notin Claim
  BY <1>1 DEF Arrive, Comes, Reject, Turned
<1>2. CASE r \in Claim
  BY <1>2, StoreAssumption DEF Arrive, Comes, Reject, Turned
<1>3. QED
  BY <1>1, <1>2

\* The handlers' steps are among them.
LEMMA NextIsMotion == [Next]_vars => [Motion]_vars
BY ArriveComes DEF Next, Motion

-----------------------------------------------------------------------------

\* The kinds of requests are apart, and None is none of the values.
LEMMA Kinds ==
  /\ Thread \cap Reply = {} /\ Thread \cap Ack = {} /\ Thread \cap Claim = {}
  /\ Reply \cap Ack = {} /\ Reply \cap Claim = {} /\ Ack \cap Claim = {}
  /\ None \notin Thread /\ None \notin Claim /\ None \notin Name
  /\ None \notin DISCUSSION_TYPES
  /\ Caller \subseteq Name
BY StoreAssumption, ApiAssumption DEF Caller

\* The clock's later readings are instants, and both forms of them stamps.
LEMMA LaterInstants ==
  ASSUME NEW i \in Instant, NEW j \in Later(i)
  PROVE  j \in Instant /\ now_utc(j) \in Stamp /\ now_iso(j) \in Stamp
BY DEF Instant, Later, Stamp, now_utc, now_iso

\* An accepted payload yields names (api/threads.py:59-60).
LEMMA PayloadTypes ==
  ASSUME NEW p \in Payload, HasRecipient(p)
  PROVE  /\ primary(p) \in Name
         /\ <<primary(p)>> \o extras(p) \in Seq(Name)
<1>1. p.to \in Name \cup {None} /\ p.to_participants \in Seq(Name)
  BY ApiAssumption
<1>2. primary(p) \in Name
  BY <1>1, HeadTailProperties DEF HasRecipient, primary
<1>3. extras(p) \in Seq(Name)
  BY <1>1, HeadTailProperties DEF extras
<1>4. <<primary(p)>> \in Seq(Name)
  BY <1>2
<1>5. QED
  BY <1>2, <1>3, <1>4, ConcatProperties

\* Locals builds frames.
LEMMA LocalsTypes ==
  ASSUME NEW caller \in Name \cup {None}, NEW thread \in Thread \cup {None},
         NEW to \in Name \cup {None}, NEW d \in DISCUSSION_TYPES \cup {None},
         NEW at \in Stamp \cup {None}, NEW recipients \in Seq(Name)
  PROVE  Locals(caller, thread, to, d, at, recipients) \in Frame
BY DEF Locals, Frame

\* The empty database and idle handlers are well typed.
THEOREM InitTypeInv == Init => TypeInv
<1> SUFFICES ASSUME Init PROVE TypeInv
  OBVIOUS
<1> USE DEF Init, InitStore, NoThread
<1>1. StoreTypeOK
  BY DEF StoreTypeOK, ThreadRow
<1>2. <<>> \in Seq(Name)
  OBVIOUS
<1>3. Locals(None, None, None, None, None, <<>>) \in Frame
  BY <1>2, LocalsTypes
<1>4. TypeOK
  BY <1>1, <1>3 DEF TypeOK, Instant, ClaimResponse
<1>5. PcOK /\ RowsOK /\ FramesOK
  BY DEF PcOK, RowsOK, FramesOK, Request, Exists, Received, Found, Stamped
<1>6. QED
  BY <1>4, <1>5 DEF TypeInv

\* A request turned away (schemas.py:29, api/threads.py:40) leaves the
\* state well typed.
LEMMA TurnedTypes ==
  ASSUME TypeInv, NEW r \in Request, Turned(r)
  PROVE  TypeInv'
<1> USE DEF TypeInv, Turned, TurnAway, At, Goto, tables
<1>1. TypeOK'
  BY DEF TypeOK, StoreTypeOK, Answered
<1>2. PcOK'
  BY Kinds DEF PcOK, TypeOK, Request
<1>3. RowsOK' /\ FramesOK'
  BY Kinds DEF RowsOK, FramesOK, PcOK, TypeOK, Request, Exists, Received, Found, Stamped
<1>4. QED
  BY <1>1, <1>2, <1>3

\* A POST received and stamped (api/threads.py:55-67) leaves the state well
\* typed.
LEMMA ReceiveThreadTypes ==
  ASSUME TypeInv, NEW t \in Thread, ReceiveThread(t)
  PROVE  TypeInv'
<1> USE DEF TypeInv, ReceiveThread, At, Goto, tables
<1>1. PICK caller \in Caller, p \in Payload, d \in TypeSent, i \in Later(now) :
         /\ HasRecipient(p) /\ ValidType(d)
         /\ now' = i
         /\ frame' = [frame EXCEPT ![t] =
                         Locals(caller, t, primary(p), d, now_utc(i),
                                <<primary(p)>> \o extras(p))]
  OBVIOUS
<1>2. t \in Request /\ pc[t] = "idle" /\ caller \in Name
  BY Kinds DEF Request
<1>3. i \in Instant /\ now_utc(i) \in Stamp
  BY <1>1, LaterInstants DEF TypeOK
<1>4. primary(p) \in Name /\ <<primary(p)>> \o extras(p) \in Seq(Name)
  BY <1>1, PayloadTypes
<1> DEFINE f == Locals(caller, t, primary(p), d, now_utc(i), <<primary(p)>> \o extras(p))
<1>5. f \in Frame
  BY <1>1, <1>2, <1>3, <1>4, LocalsTypes DEF ValidType
<1>6. /\ f.caller \in Name /\ f.thread = t /\ f.to \in Name /\ f.created_at \in Stamp
  BY <1>2, <1>3, <1>4 DEF Locals
<1>7. frame' = [frame EXCEPT ![t] = f]
  BY <1>1
<1> HIDE DEF f
<1>8. TypeOK'
  BY <1>1, <1>2, <1>3, <1>5, <1>7 DEF TypeOK, StoreTypeOK, Running
<1>9. PcOK'
  BY <1>2, Kinds DEF PcOK, TypeOK, Request
<1>10. RowsOK'
  BY <1>2, <1>7, Kinds DEF RowsOK, PcOK, TypeOK, Request, Exists, Received
<1>11. FramesOK'
  BY <1>2, <1>6, <1>7, Kinds
     DEF FramesOK, PcOK, TypeOK, Request, Exists, Received, Found, Stamped
<1>12. QED
  BY <1>8, <1>9, <1>10, <1>11

\* The commit of a thread and its seed (store/threads.py:18) leaves the
\* state well typed.
LEMMA CreateThreadTypes ==
  ASSUME TypeInv, NEW t \in Thread, CreateThread(t)
  PROVE  TypeInv'
<1> USE DEF TypeInv, CreateThread, create_thread, Insert, At, Goto
<1>1. /\ t \in Request /\ pc[t] = "create"
      /\ frame[t].caller \in Name /\ frame[t].to \in Name
      /\ frame[t].created_at \in Stamp
  BY DEF Request, FramesOK, Received
<1>2. threads' \in [Thread -> ThreadRow]
  BY <1>1 DEF TypeOK, StoreTypeOK, ThreadRow
<1>3. messages' \subseteq MessageRow
  BY <1>1 DEF TypeOK, StoreTypeOK, MessageRow
<1>4. TypeOK'
  BY <1>1, <1>2, <1>3 DEF TypeOK, StoreTypeOK, Running
<1>5. PcOK'
  BY <1>1, Kinds DEF PcOK, TypeOK, Request
<1>6. RowsOK'
  BY <1>1, Kinds DEF RowsOK, PcOK, TypeOK, StoreTypeOK, Request, Exists, Received
<1>7. FramesOK'
  BY <1>1, Kinds
     DEF FramesOK, PcOK, TypeOK, StoreTypeOK, Request, Exists, Received, Found, Stamped
<1>8. QED
  BY <1>4, <1>5, <1>6, <1>7

\* One turn of the recipient loop (api/threads.py:75) leaves the state well
\* typed.
LEMMA AddRecipientTypes ==
  ASSUME TypeInv, NEW t \in Thread, AddRecipient(t)
  PROVE  TypeInv'
<1> USE DEF TypeInv, AddRecipient, add_recipient, At, Goto
<1>1. t \in Request /\ pc[t] = "add"
  BY DEF Request
<1>2. frame' \in [Request -> Frame]
  <2>1. frame[t].next + 1 \in Nat \ {0}
    BY <1>1 DEF TypeOK, Frame
  <2>2. frame' = [frame EXCEPT ![t].next = frame[t].next + 1]
    OBVIOUS
  <2>3. QED
    BY <1>1, <2>1, <2>2 DEF TypeOK, Frame
<1>3. thread_recipients' \in [Thread -> [Name -> {"absent", "pending", "acked"}]]
  BY DEF TypeOK, StoreTypeOK
<1>4. TypeOK'
  BY <1>1, <1>2, <1>3 DEF TypeOK, StoreTypeOK, Running, Answered
<1>5. PcOK'
  BY <1>1, Kinds DEF PcOK, TypeOK, Request
<1>6. RowsOK'
  BY <1>1, Kinds DEF RowsOK, PcOK, TypeOK, Request, Frame, Exists, Received
<1>7. FramesOK'
  BY <1>1, Kinds DEF FramesOK, PcOK, TypeOK, Request, Frame, Exists, Received, Found, Stamped
<1>8. QED
  BY <1>4, <1>5, <1>6, <1>7

\* A handler past its stamp calls the store and moves on.
LEMMA StoreStep ==
  ASSUME TypeInv, NEW r \in Thread \cup Reply \cup Ack, NEW l,
         Stamped(r), pc[r] # "create",
         \/ r \in Thread /\ l \in {"type", "add", "ok"}
         \/ r \in Reply /\ l \in {"type", "ok"}
         \/ r \in Ack /\ l \in {"mark", "check", "close", "ok"},
         StoreTypeOK', SameThreads,
         \A m \in messages' : m \in messages \/ m.thread_id = frame[r].thread,
         pc' = [pc EXCEPT ![r] = l],
         UNCHANGED <<now, frame, answer, failed>>
  PROVE  TypeInv'
<1> USE DEF TypeInv
<1>1. r \in Request
  BY DEF Request
<1>2. TypeOK'
  BY <1>1 DEF TypeOK, Running, Answered
<1>3. PcOK'
  BY <1>1, Kinds DEF PcOK, TypeOK, Request
<1>4. frame[r].thread \in Thread /\ Exists(frame[r].thread)
  BY Kinds DEF FramesOK, RowsOK, Stamped, Found
<1>5. RowsOK'
  BY <1>1, <1>4, Kinds DEF RowsOK, PcOK, TypeOK, Request, Received, Found, Stamped, SameThreads
<1>6. FramesOK'
  BY <1>1, Kinds DEF FramesOK, PcOK, TypeOK, Request, Received, Found, Stamped, SameThreads
<1>7. QED
  BY <1>2, <1>3, <1>5, <1>6

\* What a handler past its stamp has in hand.
LEMMA StampedLocals ==
  ASSUME TypeInv, NEW r \in Thread \cup Reply \cup Ack, Stamped(r)
  PROVE  /\ frame[r].thread \in Thread /\ frame[r].caller \in Name
         /\ frame[r].to \in Name /\ frame[r].created_at \in Stamp
         /\ frame[r].discussion_type \in DISCUSSION_TYPES \cup {None}
         /\ StoreTypeOK
BY Kinds DEF TypeInv, TypeOK, FramesOK, Request, Frame, Received, Found, Stamped

\* A discussion_type stored (api/threads.py:70, 149) leaves the state well
\* typed.
LEMMA SetTypeTypes ==
  ASSUME TypeInv, NEW r \in Thread \cup Reply, SetType(r)
  PROVE  TypeInv'
<1> USE DEF SetType, At, Goto
<1>1. Stamped(r)
  BY DEF Received, Found, Stamped
<1>2. StoreTypeOK' /\ SameThreads
  BY <1>1, StampedLocals, set_discussion_typeTypes
<1>3. QED
  BY <1>1, <1>2, StoreStep DEF set_discussion_type

\* The commit of a reply (store/messages.py:31) leaves the state well
\* typed.
LEMMA AppendMessageTypes ==
  ASSUME TypeInv, NEW r \in Reply, AppendMessage(r)
  PROVE  TypeInv'
<1> USE DEF AppendMessage, At, Goto
<1>1. Stamped(r)
  BY DEF Received, Found, Stamped
<1>2. StoreTypeOK' /\ SameThreads
  BY <1>1, StampedLocals, append_messageTypes
<1>3. \A m \in messages' : m \in messages \/ m.thread_id = frame[r].thread
  BY DEF append_message, Insert
<1>4. QED
  BY <1>1, <1>2, <1>3, StoreStep

\* The commit of an ack that acts alone (store/messages.py:78) leaves the
\* state well typed.
LEMMA AppendAckTypes ==
  ASSUME TypeInv, NEW r \in Ack, AppendAck(r)
  PROVE  TypeInv'
<1> USE DEF AppendAck, At, Goto
<1>1. Stamped(r)
  BY DEF Received, Found, Stamped
<1>2. StoreTypeOK' /\ SameThreads
  BY <1>1, StampedLocals, append_ackTypes
<1>3. \A m \in messages' : m \in messages \/ m.thread_id = frame[r].thread
  BY DEF append_ack, Insert
<1>4. QED
  BY <1>1, <1>2, <1>3, StoreStep

\* The commit of a recipient's ack message (api/threads.py:201) leaves the
\* state well typed.
LEMMA InsertAckTypes ==
  ASSUME TypeInv, NEW r \in Ack, InsertAck(r)
  PROVE  TypeInv'
<1> USE DEF InsertAck, At, Goto
<1>1. Stamped(r)
  BY DEF Received, Found, Stamped
<1>2. StoreTypeOK' /\ SameThreads
  BY <1>1, StampedLocals, insert_ackTypes
<1>3. \A m \in messages' : m \in messages \/ m.thread_id = frame[r].thread
  BY DEF insert_ack, Insert
<1>4. QED
  BY <1>1, <1>2, <1>3, StoreStep

\* The caller's mark (api/threads.py:213) leaves the state well typed.
LEMMA MarkRecipientTypes ==
  ASSUME TypeInv, NEW r \in Ack, MarkRecipient(r)
  PROVE  TypeInv'
<1> USE DEF MarkRecipient, At, Goto
<1>1. Stamped(r)
  BY DEF Received, Found, Stamped
<1>2. StoreTypeOK' /\ SameThreads
  BY <1>1, StampedLocals, mark_recipient_ackedTypes
<1>3. QED
  BY <1>1, <1>2, StoreStep DEF mark_recipient_acked

\* The count of pending recipients (api/threads.py:214) leaves the state
\* well typed.
LEMMA CheckAllTypes ==
  ASSUME TypeInv, NEW r \in Ack, CheckAll(r)
  PROVE  TypeInv'
<1> USE DEF CheckAll, At, Goto, tables
<1>1. Stamped(r)
  BY DEF Received, Found, Stamped
<1>2. StoreTypeOK' /\ SameThreads
  BY <1>1, StampedLocals DEF StoreTypeOK, SameThreads, Exists
<1>3. QED
  BY <1>1, <1>2, StoreStep

\* The flip to acked (api/threads.py:215) leaves the state well typed.
LEMMA CloseThreadTypes ==
  ASSUME TypeInv, NEW r \in Ack, CloseThread(r)
  PROVE  TypeInv'
<1> USE DEF CloseThread, At, Goto
<1>1. Stamped(r)
  BY DEF Received, Found, Stamped
<1>2. Exists(frame[r].thread)
  BY <1>1 DEF TypeInv, FramesOK, Stamped
<1>3. StoreTypeOK' /\ SameThreads
  BY <1>1, <1>2, StampedLocals, update_thread_statusTypes
<1>4. QED
  BY <1>1, <1>3, StoreStep DEF update_thread_status

\* The thread read before a reply or an ack (api/threads.py:134, 183)
\* leaves the state well typed.
LEMMA ReadThreadTypes ==
  ASSUME TypeInv, NEW r \in Reply \cup Ack, ReadThread(r)
  PROVE  TypeInv'
<1> USE DEF TypeInv, ReadThread, At, Goto, tables
<1>1. PICK caller \in Caller, t \in Thread,
           d \in IF r \in Reply THEN TypeSent ELSE {None} :
        /\ ValidType(d)
        /\ \/ /\ ~Exists(t)
              /\ frame' = [frame EXCEPT ![r] = Locals(caller, t, None, d, None, <<>>)]
              /\ pc' = [pc EXCEPT ![r] = "404"]
           \/ \E m \in First(t) :
              /\ frame' = [frame EXCEPT ![r] =
                              Locals(caller, t, m.to_participant, d, None, <<>>)]
              /\ pc' = [pc EXCEPT ![r] = "recipients"]
  OBVIOUS
<1>2. r \in Request /\ pc[r] = "idle" /\ caller \in Name /\ <<>> \in Seq(Name)
  BY Kinds DEF Request
<1>3. CASE /\ frame' = [frame EXCEPT ![r] = Locals(caller, t, None, d, None, <<>>)]
           /\ pc' = [pc EXCEPT ![r] = "404"]
  <2> DEFINE f == Locals(caller, t, None, d, None, <<>>)
  <2>1. f \in Frame
    BY <1>1, <1>2, LocalsTypes DEF ValidType
  <2>2. frame' = [frame EXCEPT ![r] = f]
    BY <1>3
  <2> HIDE DEF f
  <2>3. TypeOK'
    BY <1>2, <1>3, <2>1, <2>2 DEF TypeOK, StoreTypeOK, Answered
  <2>4. PcOK'
    BY <1>2, <1>3, Kinds DEF PcOK, TypeOK, Request
  <2>5. RowsOK' /\ FramesOK'
    BY <1>2, <1>3, <2>2, Kinds
       DEF RowsOK, FramesOK, PcOK, TypeOK, Request, Exists, Received, Found, Stamped
  <2>6. QED
    BY <2>3, <2>4, <2>5
<1>4. CASE \E m \in First(t) :
             /\ frame' = [frame EXCEPT ![r] =
                             Locals(caller, t, m.to_participant, d, None, <<>>)]
             /\ pc' = [pc EXCEPT ![r] = "recipients"]
  <2>1. PICK m \in First(t) :
             /\ frame' = [frame EXCEPT ![r] =
                             Locals(caller, t, m.to_participant, d, None, <<>>)]
             /\ pc' = [pc EXCEPT ![r] = "recipients"]
    BY <1>4
  <2>2. m \in messages /\ m.thread_id = t /\ m.to_participant \in Name
    BY DEF First, MessagesOf, TypeOK, StoreTypeOK, MessageRow
  <2>3. Exists(t)
    BY <2>2 DEF RowsOK
  <2> DEFINE f == Locals(caller, t, m.to_participant, d, None, <<>>)
  <2>4. f \in Frame
    BY <1>1, <1>2, <2>2, LocalsTypes DEF ValidType
  <2>5. f.caller \in Name /\ f.thread = t /\ f.to \in Name
    BY <1>2, <2>2 DEF Locals
  <2>6. frame' = [frame EXCEPT ![r] = f]
    BY <2>1
  <2> HIDE DEF f
  <2>7. TypeOK'
    BY <1>2, <2>1, <2>4, <2>6 DEF TypeOK, StoreTypeOK, Running
  <2>8. PcOK'
    BY <1>2, <2>1, Kinds DEF PcOK, TypeOK, Request
  <2>9. RowsOK'
    BY <1>2, <2>1, <2>6, Kinds DEF RowsOK, PcOK, TypeOK, Request, Exists, Received
  <2>10. FramesOK'
    BY <1>2, <2>1, <2>3, <2>5, <2>6, Kinds
       DEF FramesOK, PcOK, TypeOK, Request, Exists, Received, Found, Stamped
  <2>11. QED
    BY <2>7, <2>8, <2>9, <2>10
<1>5. QED
  BY <1>1, <1>3, <1>4

\* The recipients read before a reply or an ack (api/threads.py:137, 186)
\* leaves the state well typed.
LEMMA ReadRecipientsTypes ==
  ASSUME TypeInv, NEW r \in Reply \cup Ack, ReadRecipients(r)
  PROVE  TypeInv'
<1> USE DEF TypeInv, ReadRecipients, At, Goto, tables
<1>1. r \in Request /\ pc[r] = "recipients"
  BY DEF Request
<1>2. list_recipients(frame[r].thread) \in SUBSET Name
  BY DEF list_recipients
<1> HIDE DEF list_recipients
<1>3. frame' \in [Request -> Frame]
  BY <1>1, <1>2 DEF TypeOK, Frame
<1>4. TypeOK'
  BY <1>1, <1>3 DEF TypeOK, StoreTypeOK, Running
<1>5. PcOK'
  BY <1>1, Kinds DEF PcOK, TypeOK, Request
<1>6. RowsOK' /\ FramesOK'
  BY <1>1, Kinds
     DEF RowsOK, FramesOK, PcOK, TypeOK, Request, Frame, Exists, Received, Found, Stamped
<1>7. QED
  BY <1>4, <1>5, <1>6

\* A 403 (api/threads.py:122) leaves the state well typed.
LEMMA RefuseTypes ==
  ASSUME TypeInv, NEW r \in Reply \cup Ack, Refuse(r)
  PROVE  TypeInv'
<1> USE DEF TypeInv, Refuse, At, Goto, tables
<1>1. r \in Request /\ pc[r] = "resolve"
  BY DEF Request
<1>2. TypeOK'
  BY <1>1 DEF TypeOK, StoreTypeOK, Answered
<1>3. PcOK'
  BY <1>1, Kinds DEF PcOK, TypeOK, Request
<1>4. RowsOK' /\ FramesOK'
  BY <1>1, Kinds
     DEF RowsOK, FramesOK, PcOK, TypeOK, Request, Exists, Received, Found, Stamped
<1>5. QED
  BY <1>2, <1>3, <1>4

\* The two assignments of Resolve keep a frame a frame.
LEMMA ResolvedFrame ==
  ASSUME NEW f \in [Request -> Frame], NEW r \in Request,
         NEW to \in Name, NEW at \in Stamp
  PROVE  [f EXCEPT ![r].to = to, ![r].created_at = at] \in [Request -> Frame]
<1> DEFINE g == [f EXCEPT ![r].to = to]
<1>1. g \in [Request -> Frame]
  BY DEF Frame
<1>2. [g EXCEPT ![r].created_at = at] \in [Request -> Frame]
  <2> HIDE DEF g
  <2>1. QED
    BY <1>1 DEF Frame
<1>3. QED
  BY <1>2

\* The recipient resolved and the message stamped (api/threads.py:138, 188)
\* leaves the state well typed.
LEMMA ResolveTypes ==
  ASSUME TypeInv, NEW r \in Reply \cup Ack, Resolve(r)
  PROVE  TypeInv'
<1> USE DEF TypeInv, Resolve, At, Goto, tables
<1>1. r \in Request /\ pc[r] = "resolve"
  BY DEF Request
<1> DEFINE to == _resolve_participants(frame[r])
<1>2. to \in Name
  BY <1>1, Kinds DEF _resolve_participants, FramesOK, RowsOK, Received, Found
<1> HIDE DEF to
<1>3. PICK i \in Later(now) :
        /\ now' = i
        /\ frame' = [frame EXCEPT ![r].to = to, ![r].created_at = now_iso(i)]
  BY DEF to
<1>4. i \in Instant /\ now_iso(i) \in Stamp
  BY LaterInstants DEF TypeOK
<1>5. frame' \in [Request -> Frame]
  BY <1>1, <1>2, <1>3, <1>4, ResolvedFrame DEF TypeOK
<1>6. TypeOK'
  BY <1>1, <1>3, <1>4, <1>5 DEF TypeOK, StoreTypeOK, Running
<1>7. PcOK'
  BY <1>1, Kinds DEF PcOK, TypeOK, Request
<1>8. /\ \A q \in Request \ {r} : frame'[q] = frame[q]
      /\ frame'[r].caller = frame[r].caller /\ frame'[r].thread = frame[r].thread
      /\ frame'[r].to = to /\ frame'[r].created_at = now_iso(i)
  BY <1>1, <1>3 DEF TypeOK, Frame
<1>9. RowsOK'
  BY <1>1, <1>8, Kinds DEF RowsOK, PcOK, TypeOK, Request, Exists, Received
<1>10. FramesOK'
  BY <1>1, <1>2, <1>4, <1>8, Kinds
     DEF FramesOK, PcOK, TypeOK, Request, Exists, Received, Found, Stamped
<1>11. QED
  BY <1>6, <1>7, <1>9, <1>10

\* A claim and its answer (api/threads.py:155) leaves the state well typed.
LEMMA PostClaimTypes ==
  ASSUME TypeInv, NEW c \in Claim, PostClaim(c)
  PROVE  TypeInv'
<1> USE DEF TypeInv, PostClaim, At, Goto
<1>1. c \in Request /\ pc[c] = "idle" /\ <<>> \in Seq(Name)
  BY DEF Request
<1>2. PICK caller \in Caller, t \in Thread :
        /\ set_claim(t, caller, c)
        /\ answer' = [answer EXCEPT ![c] =
                        [claimed_by  |-> threads'[t].claimed_by,
                         claim_scope |-> IF threads'[t].claimed_by = caller
                                           THEN threads'[t].claim_scope ELSE None]]
        /\ pc' = [pc EXCEPT ![c] = IF ~Exists(t) THEN "404"
                                   ELSE IF threads'[t].claimed_by = caller
                                     THEN "ok" ELSE "409"]
        /\ frame' = [frame EXCEPT ![c] = Locals(caller, t, None, None, None, <<>>)]
  OBVIOUS
<1>3. caller \in Name
  BY Kinds
<1>4. StoreTypeOK' /\ SameThreads
  BY <1>2, <1>3, set_claimTypes DEF TypeOK
<1>5. messages' = messages
  BY <1>2 DEF set_claim
<1>6. Locals(caller, t, None, None, None, <<>>) \in Frame
  BY <1>1, <1>3, LocalsTypes
<1>7. answer' \in [Claim -> ClaimResponse]
  BY <1>2, <1>4 DEF TypeOK, StoreTypeOK, ThreadRow, ClaimResponse
<1>8. TypeOK'
  BY <1>1, <1>2, <1>4, <1>6, <1>7 DEF TypeOK, Answered
<1>9. PcOK'
  BY <1>1, <1>2, Kinds DEF PcOK, TypeOK, Request
<1>10. RowsOK'
  BY <1>1, <1>2, <1>4, <1>5, Kinds
     DEF RowsOK, PcOK, TypeOK, Request, Received, SameThreads
<1>11. FramesOK'
  BY <1>1, <1>2, <1>4, Kinds
     DEF FramesOK, PcOK, TypeOK, Request, Received, Found, Stamped, SameThreads
<1>12. QED
  BY <1>8, <1>9, <1>10, <1>11

\* A handler that dies (store/schema.py:36) leaves the state well typed.
LEMMA FailTypes ==
  ASSUME TypeInv, NEW r \in Request, Fail(r)
  PROVE  TypeInv'
<1> USE DEF TypeInv, Fail, tables
<1>1. TypeOK'
  BY DEF TypeOK, StoreTypeOK
<1>2. PcOK' /\ RowsOK' /\ FramesOK'
  BY DEF PcOK, RowsOK, FramesOK, Exists, Received, Found, Stamped
<1>3. QED
  BY <1>1, <1>2

\* Every reachable state is well typed.
THEOREM TypeCorrect == Spec => []TypeOK
<1>1. TypeInv /\ [Motion]_vars => TypeInv'
  <2> SUFFICES ASSUME TypeInv, [Motion]_vars PROVE TypeInv'
    OBVIOUS
  <2>1. CASE UNCHANGED vars
    BY <2>1 DEF TypeInv, TypeOK, StoreTypeOK, PcOK, RowsOK, FramesOK, Exists,
                Received, Found, Stamped, vars
  <2>2. ASSUME NEW r \in Request, Comes(r) PROVE TypeInv'
    BY <2>2, TurnedTypes, ReceiveThreadTypes, ReadThreadTypes, PostClaimTypes
       DEF Comes
  <2>3. ASSUME NEW r \in Request, Step(r) PROVE TypeInv'
    BY <2>3, CreateThreadTypes, AddRecipientTypes, SetTypeTypes,
       ReadRecipientsTypes, RefuseTypes, ResolveTypes, AppendMessageTypes,
       AppendAckTypes, InsertAckTypes, MarkRecipientTypes, CheckAllTypes,
       CloseThreadTypes
       DEF Step
  <2>4. ASSUME NEW r \in Request, Fail(r) PROVE TypeInv'
    BY <2>4, FailTypes
  <2>5. QED
    BY <2>1, <2>2, <2>3, <2>4 DEF Motion
<1>2. TypeInv => TypeOK
  BY DEF TypeInv
<1>3. QED
  BY InitTypeInv, <1>1, <1>2, NextIsMotion, PTL DEF Spec
=============================================================================
