----------------------------- MODULE TalkProofs -----------------------------
(***************************************************************************)
(* Proofs about the order of the messages of a thread, which side each     *)
(* goes to, and how the thread is listed, for any clock readings, whole    *)
(* seconds among them, any requests and any number of dying handlers.      *)
(***************************************************************************)
EXTENDS Inbox, BoardProofs

-----------------------------------------------------------------------------
(* The order of the timestamp texts *)

\* The order of the texts is a strict total order on stamps (what ORDER BY
\* needs), although it is not the order of the instants.
THEOREM BeforeIsStrictOrder ==
  /\ \A a \in Stamp : ~Before(a, a)
  /\ \A a, b, c \in Stamp : Before(a, b) /\ Before(b, c) => Before(a, c)
  /\ \A a, b \in Stamp : a = b \/ Before(a, b) \/ Before(b, a)
<1>1. \A a \in Stamp : a.sec \in Nat /\ a.us \in Nat /\ a.form \in {"Z", "iso"}
  BY MicroAssumption DEF Stamp
<1>2. \A a \in Stamp : ~Before(a, a)
  BY <1>1 DEF Before, Bare
<1>3. \A a, b, c \in Stamp : Before(a, b) /\ Before(b, c) => Before(a, c)
  BY <1>1 DEF Before, Bare
<1>4. ASSUME NEW a \in Stamp, NEW b \in Stamp, ~Before(a, b), ~Before(b, a)
      PROVE  a = b
  <2>1. a.sec = b.sec /\ a.us = b.us /\ a.form = b.form
    BY <1>1, <1>4 DEF Before, Bare
  <2>2. QED
    BY <2>1 DEF Stamp
<1>5. QED
  BY <1>2, <1>3, <1>4

\* A reply stamped after a thread sorts after its seed message, unless the
\* thread's stamp fell on a whole second (store/threads.py:15 against
\* store/messages.py:21).
THEOREM LaterSortsAfter ==
  ASSUME NEW i \in Instant, NEW j \in Instant,
         j.sec > i.sec \/ (j.sec = i.sec /\ j.us > i.us),
         ~Bare(now_utc(i))
  PROVE  Before(now_utc(i), now_iso(j)) /\ ~Before(now_iso(j), now_utc(i))
<1>1. /\ i.sec \in Nat /\ i.us \in Nat
      /\ j.sec \in Nat /\ j.us \in Nat
  BY MicroAssumption DEF Instant
<1>2. QED
  BY <1>1 DEF Before, Bare, now_utc, now_iso

-----------------------------------------------------------------------------
(* The inductive invariant *)

\* Instant or stamp b is of a later reading of the clock than a.
Past(a, b) == a.sec < b.sec \/ (a.sec = b.sec /\ a.us < b.us)

\* The message create_thread inserts.
Seed(t) == [id |-> t, thread_id |-> t, from_participant |-> frame[t].caller,
            to_participant |-> frame[t].to, kind |-> "message",
            created_at |-> SeedStamp(t)]

\* A recipient that a message of n in t may have after a seed that leads.
Crosses(n, to, t) ==
  ~Bare(SeedStamp(t)) =>
    to = IF n = frame[t].caller THEN frame[t].to ELSE frame[t].caller

\* A stamp of _now_iso, of a later reading than the seed's.
Follows(at, t) == at.form = "iso" /\ Past(SeedStamp(t), at)

\* A POST is stamped by _now_utc, not in the future.
Dated(t) == Received(t) => /\ SeedStamp(t).form = "Z"
                           /\ ~Past(now, SeedStamp(t))

\* A thread has its seed message, and a stamp.
Seeded(t) == Exists(t) => /\ Seed(t) \in messages
                          /\ threads[t].last_message_at \in Stamp

\* Any other message followed and crosses sides.
Answers(m) == \/ m = Seed(m.thread_id)
              \/ /\ m.id \notin Thread
                 /\ Follows(m.created_at, m.thread_id)
                 /\ Crosses(m.from_participant, m.to_participant, m.thread_id)

\* A handler that has read its thread knows the seed's recipient, and then writes
\* to the other side.
Sends(r) ==
  LET t == frame[r].thread
  IN  /\ Found(r) /\ ~Stamped(r) /\ ~Bare(SeedStamp(t)) => frame[r].to = frame[t].to
      /\ Stamped(r) => /\ Follows(frame[r].created_at, t)
                       /\ Crosses(frame[r].caller, frame[r].to, t)

TalkInv ==
  /\ Base
  /\ \A t \in Thread : Dated(t) /\ Seeded(t)
  /\ \A m \in messages : Answers(m)
  /\ \A r \in Reply \cup Ack : Sends(r)

\* Nothing is written yet.
LEMMA InitTalkInv == Init => TalkInv
<1> SUFFICES ASSUME Init PROVE TalkInv
  OBVIOUS
<1>1. Base
  BY InitBoardInv DEF BoardInv
<1>2. QED
  BY <1>1 DEF Init, InitStore, NoThread, TalkInv, Dated, Seeded, Answers, Sends,
     Exists, Received, Found, Stamped, Request

-----------------------------------------------------------------------------
(* What stays and what moves *)

\* Received POSTs keep their locals (api/threads.py:55-67).
LEMMA PostsKeep ==
  ASSUME TypeInv, NEW r \in Request, Comes(r) \/ Step(r) \/ Fail(r), NEW t \in Thread,
         Received(t)
  PROVE  /\ frame'[t].to = frame[t].to /\ frame'[t].caller = frame[t].caller
         /\ frame'[t].created_at = frame[t].created_at
         /\ Received(t)'
<1>1. t \in Request /\ frame \in [Request -> Frame]
      /\ pc \in [Request -> {"idle"} \cup Running \cup Answered]
  BY DEF Request, TypeInv, TypeOK
<1>2. CASE r # t
  BY <1>1, <1>2, Mover DEF Moves, Received
<1>3. CASE r = t
  <2>1. pc[t] \notin {"idle", "400", "422"}
    BY DEF Received
  <2>2. Fail(t) \/ AddRecipient(t) \/ SetType(t) \/ CreateThread(t)
    BY <1>3, <2>1, Kinds DEF Comes, Step, ReceiveThread, Turned, TurnAway, At
  <2>3. QED
    BY <1>1, <2>1, <2>2
       DEF Fail, AddRecipient, SetType, CreateThread, At, Goto, Received, Frame
<1>4. QED
  BY <1>2, <1>3

\* The clock only goes on.
LEMMA ClockGoesOn ==
  ASSUME TypeInv, TypeInv', NEW r \in Request, Comes(r) \/ Step(r) \/ Fail(r),
         NEW at \in Stamp, ~Past(now, at)
  PROVE  ~Past(now', at)
<1>1. now \in Instant /\ now' \in Instant
  BY DEF TypeInv, TypeOK
<1>2. /\ now.sec \in Nat /\ now.us \in Nat /\ now'.sec \in Nat /\ now'.us \in Nat
      /\ at.sec \in Nat /\ at.us \in Nat
  BY <1>1, MicroAssumption DEF Instant, Stamp
<1>3. now' = now \/ now' \in Later(now)
  BY DEF Comes, Step, Fail, ReceiveThread, ReadThread, PostClaim, Turned, TurnAway, CreateThread,
     AddRecipient, SetType, ReadRecipients, Refuse, Resolve, AppendMessage, AppendAck,
     InsertAck, MarkRecipient, CheckAll, CloseThread
<1>4. now' = now \/ now'.sec > now.sec \/ (now'.sec = now.sec /\ now'.us > now.us)
  BY <1>2, <1>3 DEF Later
<1>5. QED
  BY <1>2, <1>4 DEF Past

-----------------------------------------------------------------------------
(* The seed leads unless it is bare *)

\* What a handler that found its thread, and a message, know of it.
LEMMA ThreadKnown ==
  ASSUME TalkInv, NEW t \in Thread, Exists(t)
  PROVE  /\ Received(t) /\ SeedStamp(t) \in Stamp /\ SeedStamp(t).form = "Z"
         /\ ~Past(now, SeedStamp(t)) /\ Seed(t) \in messages
         /\ threads[t].created_by = frame[t].caller
BY DEF TalkInv, Base, HistInv, TypeInv, RowsOK, FramesOK, Dated, Seeded, SeedStamp

\* A later reading in the form of _now_iso sorts after a seed that is not bare.
LEMMA FollowsSorts ==
  ASSUME TalkInv, NEW t \in Thread, Exists(t), ~Bare(SeedStamp(t)),
         NEW at \in Stamp, Follows(at, t)
  PROVE  Before(SeedStamp(t), at) /\ ~Before(at, SeedStamp(t))
<1> DEFINE a == SeedStamp(t)
           i == [sec |-> a.sec, us |-> a.us]
           j == [sec |-> at.sec, us |-> at.us]
<1>1. a \in Stamp /\ a.form = "Z"
  BY ThreadKnown
<1>2. i \in Instant /\ j \in Instant /\ a = now_utc(i) /\ at = now_iso(j)
  BY <1>1 DEF Stamp, Instant, now_utc, now_iso, Follows
<1>3. j.sec > i.sec \/ (j.sec = i.sec /\ j.us > i.us)
  BY <1>1, MicroAssumption DEF Follows, Past, Stamp
<1> HIDE DEF i, j
<1>4. QED
  BY <1>2, <1>3, LaterSortsAfter

\* ORDER BY created_at puts it first (store/threads.py:112, 198).
LEMMA SeedIsFirst ==
  ASSUME TalkInv, NEW t \in Thread, Exists(t), ~Bare(SeedStamp(t))
  PROVE  First(t) = {Seed(t)}
<1>1. Seed(t) \in MessagesOf(t) /\ Seed(t).created_at = SeedStamp(t)
  BY ThreadKnown DEF MessagesOf, Seed
<1>2. ASSUME NEW m \in MessagesOf(t), m # Seed(t)
      PROVE  Before(SeedStamp(t), m.created_at) /\ ~Before(m.created_at, SeedStamp(t))
  <2>1. m \in messages /\ m.thread_id = t /\ m.created_at \in Stamp
    BY DEF MessagesOf, TalkInv, Base, HistInv, TypeInv, TypeOK, StoreTypeOK, MessageRow
  <2>2. Follows(m.created_at, t)
    BY <1>2, <2>1 DEF TalkInv, Answers
  <2>3. QED
    BY <2>1, <2>2, FollowsSorts
<1>3. ~Before(SeedStamp(t), SeedStamp(t))
  BY ThreadKnown, BeforeIsStrictOrder
<1>4. Seed(t) \in First(t)
  BY <1>1, <1>2, <1>3 DEF First
<1>5. \A m \in First(t) : m = Seed(t)
  BY <1>1, <1>2 DEF First
<1>6. QED
  BY <1>4, <1>5

-----------------------------------------------------------------------------
(* What a step keeps *)

\* Everything but what the request itself does.
LEMMA TalkKept ==
  ASSUME TalkInv, NEW r \in Request, Comes(r) \/ Step(r) \/ Fail(r),
         r \in Thread => Dated(r)',
         \A t \in Thread : Exists(t)' =>
           /\ Exists(t) \/ Seed(t)' \in messages'
           /\ threads'[t].last_message_at \in Stamp,
         \A m \in messages' : m \in messages \/ Answers(m)',
         r \in Reply \cup Ack => Sends(r)'
  PROVE  TalkInv'
<1>1. Base' /\ Grows /\ Moves(r)
  BY Growth DEF TalkInv
<1>2. TypeInv /\ TypeInv'
  BY <1>1 DEF TalkInv, Base, HistInv
<1>3. ASSUME NEW t \in Thread, Exists(t)
      PROVE  /\ frame'[t].to = frame[t].to /\ frame'[t].caller = frame[t].caller
             /\ frame'[t].created_at = frame[t].created_at
  BY <1>2, <1>3, ThreadKnown, PostsKeep
<1>4. ASSUME NEW t \in Thread PROVE Dated(t)'
  <2>1. CASE t = r
    BY <2>1
  <2>2. CASE t # r
    <3>1. pc'[t] = pc[t]
      BY <1>1, <2>2 DEF Moves, Request
    <3>2. CASE Received(t)
      <4>1. SeedStamp(t) \in Stamp /\ SeedStamp(t).form = "Z" /\ ~Past(now, SeedStamp(t))
        BY <1>2, <3>2 DEF TalkInv, Dated, TypeInv, FramesOK, SeedStamp
      <4>2. SeedStamp(t)' = SeedStamp(t)
        BY <1>2, <3>2, PostsKeep DEF SeedStamp
      <4>3. ~Past(now', SeedStamp(t))
        BY <1>2, <4>1, ClockGoesOn
      <4>4. QED
        BY <4>1, <4>2, <4>3 DEF Dated, Past
    <3>3. CASE ~Received(t)
      BY <3>1, <3>3 DEF Dated, Received
    <3>4. QED
      BY <3>2, <3>3
  <2>3. QED
    BY <2>1, <2>2
<1>5. ASSUME NEW t \in Thread PROVE Seeded(t)'
  <2>1. CASE Exists(t)
    <3>1. Seed(t)' = Seed(t)
      BY <1>3, <2>1 DEF Seed, SeedStamp
    <3>2. Seed(t) \in messages'
      BY <1>1, <2>1, ThreadKnown DEF Grows
    <3>3. QED
      BY <3>1, <3>2 DEF Seeded
  <2>2. CASE ~Exists(t)
    BY <2>2 DEF Seeded
  <2>3. QED
    BY <2>1, <2>2
<1>6. ASSUME NEW m \in messages PROVE Answers(m)'
  <2> DEFINE t == m.thread_id
  <2>1. t \in Thread /\ Exists(t)
    BY <1>2 DEF TypeInv, RowsOK
  <2>2. Answers(m)
    BY DEF TalkInv
  <2>3. QED
    BY <1>3, <2>1, <2>2 DEF Answers, Seed, SeedStamp, Follows, Crosses
<1>7. ASSUME NEW q \in Reply \cup Ack PROVE Sends(q)'
  <2>1. CASE q = r
    BY <2>1
  <2>2. CASE q # r
    <3>1. pc'[q] = pc[q] /\ frame'[q] = frame[q]
      BY <1>1, <2>2 DEF Moves, Request
    <3>2. Found(q) => frame[q].thread \in Thread /\ Exists(frame[q].thread)
      BY <1>2 DEF TypeInv, FramesOK
    <3>3. Sends(q)
      BY DEF TalkInv
    <3>4. QED
      BY <1>3, <3>1, <3>2, <3>3
         DEF Sends, Found, Stamped, Received, SeedStamp, Follows, Crosses
  <2>3. QED
    BY <2>1, <2>2
<1>8. QED
  BY <1>1, <1>4, <1>5, <1>6, <1>7 DEF TalkInv

\* A reply or ack that keeps its locals, and does not pass or skip the stamping.
LEMMA SendsKept ==
  ASSUME TalkInv, NEW r \in Reply \cup Ack, Step(r) \/ Fail(r),
         /\ frame'[r].thread = frame[r].thread /\ frame'[r].to = frame[r].to
         /\ frame'[r].caller = frame[r].caller
         /\ frame'[r].created_at = frame[r].created_at,
         Found(r), Stamped(r)' <=> Stamped(r)
  PROVE  Sends(r)'
<1>1. r \in Request /\ TypeInv
  BY DEF Request, TalkInv, Base, HistInv
<1>2. frame[r].thread \in Thread /\ Exists(frame[r].thread)
  BY <1>1 DEF TypeInv, FramesOK
<1>3. LET t == frame[r].thread
      IN  /\ frame'[t].to = frame[t].to /\ frame'[t].caller = frame[t].caller
          /\ frame'[t].created_at = frame[t].created_at
  BY <1>1, <1>2, ThreadKnown, PostsKeep
<1>4. Sends(r)
  BY DEF TalkInv
<1>5. QED
  BY <1>3, <1>4 DEF Sends, SeedStamp, Follows, Crosses

-----------------------------------------------------------------------------
(* Steps by what they write *)

\* A step that inserts no message and stamps no row.
Silent == /\ messages' = messages
          /\ \A t \in Thread : /\ Exists(t)' => Exists(t)
                              /\ threads'[t].last_message_at = threads[t].last_message_at

\* Such a step keeps the invariant if its own request does.
LEMMA SilentStep ==
  ASSUME TalkInv, NEW r \in Request, Comes(r) \/ Step(r) \/ Fail(r), Silent,
         r \in Thread => Dated(r)', r \in Reply \cup Ack => Sends(r)'
  PROVE  TalkInv'
<1>1. \A t \in Thread : Exists(t)' =>
         Exists(t) /\ threads'[t].last_message_at \in Stamp
  BY DEF Silent, TalkInv, Seeded
<1>2. messages' \subseteq messages
  BY DEF Silent
<1>3. QED
  BY <1>1, <1>2, TalkKept

\* A POST that had been received keeps its stamp while the clock goes on.
LEMMA DatedKept ==
  ASSUME TalkInv, NEW t \in Thread, Step(t) \/ Fail(t), Received(t)
  PROVE  Dated(t)'
<1>1. t \in Request /\ TypeInv /\ TypeInv'
  BY Growth DEF Request, TalkInv, Base, HistInv
<1>2. SeedStamp(t) \in Stamp /\ SeedStamp(t).form = "Z" /\ ~Past(now, SeedStamp(t))
  BY <1>1 DEF TalkInv, Dated, TypeInv, FramesOK, SeedStamp
<1>3. SeedStamp(t)' = SeedStamp(t) /\ ~Past(now', SeedStamp(t))
  BY <1>1, <1>2, PostsKeep, ClockGoesOn DEF SeedStamp
<1>4. QED
  BY <1>2, <1>3 DEF Dated, Past

\* Received and stamped by _now_utc (api/threads.py:55-62).
LEMMA ReceiveThreadTalk ==
  ASSUME TalkInv, NEW t \in Thread, ReceiveThread(t)
  PROVE  TalkInv'
<1>1. t \in Request /\ Comes(t) /\ t \notin Reply \cup Ack
  BY Kinds DEF Request, Comes
<1>2. Silent
  BY DEF ReceiveThread, tables, Silent, Exists
<1>3. Dated(t)'
  <2>1. PICK caller \in Caller, p \in Payload, d \in TypeSent, i \in Later(now) :
          /\ now' = i
          /\ frame' = [frame EXCEPT ![t] =
                         Locals(caller, t, primary(p), d, now_utc(i),
                                <<primary(p)>> \o extras(p))]
    BY DEF ReceiveThread
  <2>2. frame'[t].created_at = now_utc(i) /\ i \in Instant
    BY <1>1, <2>1, LaterInstants
       DEF Locals, TalkInv, Base, HistInv, TypeInv, TypeOK
  <2>3. i.sec \in Nat /\ i.us \in Nat
    BY <2>2, MicroAssumption DEF Instant
  <2>4. QED
    BY <2>1, <2>2, <2>3 DEF Dated, SeedStamp, now_utc, Past
<1>4. QED
  BY <1>1, <1>2, <1>3, SilentStep

\* Turned away, claimed or dead.
LEMMA OutsideTalk ==
  ASSUME TalkInv, NEW r \in Request,
         Turned(r) \/ (r \in Claim /\ PostClaim(r)) \/ Fail(r)
  PROVE  TalkInv'
<1>1. TypeInv /\ TypeInv'
  BY Growth DEF TalkInv, Base, HistInv, Comes
<1>2. CASE Fail(r)
  <2>1. Silent /\ UNCHANGED <<pc, frame, now, threads>>
    BY <1>2 DEF Fail, tables, Silent, Exists
  <2>2. Dated(r) => Dated(r)'
    BY <2>1 DEF Dated, Received, SeedStamp, Past
  <2>3. Sends(r) => Sends(r)'
    BY <2>1 DEF Sends, Found, Stamped, Received, SeedStamp, Follows, Crosses
  <2>4. QED
    BY <1>2, <2>1, <2>2, <2>3, SilentStep DEF TalkInv
<1>3. CASE Turned(r)
  <2>1. Silent /\ Comes(r)
    BY <1>3 DEF Turned, TurnAway, tables, Silent, Exists, Comes
  <2>2. pc'[r] \in {"422", "400"}
    BY <1>1, <1>3 DEF Turned, TurnAway, Goto, TypeInv, TypeOK
  <2>3. Dated(r)' /\ Sends(r)'
    BY <2>2 DEF Dated, Sends, Found, Stamped, Received
  <2>4. QED
    BY <2>1, <2>3, SilentStep
<1>4. CASE r \in Claim /\ PostClaim(r)
  <2>1. r \notin Thread /\ r \notin Reply \cup Ack /\ Comes(r)
    BY <1>4, Kinds DEF Comes
  <2>2. Silent
    <3>1. PICK caller \in Caller, t \in Thread : set_claim(t, caller, r)
      BY <1>4 DEF PostClaim
    <3>2. threads \in [Thread -> ThreadRow]
      BY <1>1 DEF TypeInv, TypeOK, StoreTypeOK
    <3>3. \A u \in Thread : /\ threads'[u].status = threads[u].status
                           /\ threads'[u].last_message_at = threads[u].last_message_at
      BY <3>1, <3>2 DEF set_claim, ThreadRow
    <3>4. QED
      BY <3>1, <3>3 DEF set_claim, Silent, Exists
  <2>3. QED
    BY <1>4, <2>1, <2>2, SilentStep
<1>5. QED
  BY <1>2, <1>3, <1>4

\* The seed message goes in with its thread (store/threads.py:26-52).
LEMMA CreateThreadTalk ==
  ASSUME TalkInv, NEW t \in Thread, CreateThread(t)
  PROVE  TalkInv'
<1>1. /\ t \in Request /\ Step(t) /\ t \notin Reply \cup Ack
      /\ TypeInv /\ TypeInv'
  BY Kinds, Growth DEF Request, Step, TalkInv, Base, HistInv
<1>2. /\ Received(t) /\ frame[t].created_at \in Stamp /\ frame' = frame
  BY <1>1 DEF CreateThread, At, Received, TypeInv, FramesOK
<1>3. /\ messages' = messages \cup {Seed(t)}
      /\ threads'[t].last_message_at = SeedStamp(t)
      /\ \A u \in Thread : u # t => threads'[u] = threads[u]
  BY <1>1 DEF CreateThread, create_thread, Insert, Seed, SeedStamp, TypeInv, TypeOK, StoreTypeOK
<1>4. \A u \in Thread : Seed(u)' = Seed(u)
  BY <1>2 DEF Seed, SeedStamp
<1>5. ASSUME NEW u \in Thread, Exists(u)'
      PROVE  /\ Exists(u) \/ Seed(u)' \in messages'
             /\ threads'[u].last_message_at \in Stamp
  <2>1. CASE u = t
    BY <1>2, <1>3, <1>4, <2>1 DEF SeedStamp
  <2>2. CASE u # t
    BY <1>3, <1>5, <2>2 DEF Exists, TalkInv, Seeded
  <2>3. QED
    BY <2>1, <2>2
<1>6. ASSUME NEW m \in messages' PROVE m \in messages \/ Answers(m)'
  <2>1. CASE m = Seed(t)
    <3>1. m.thread_id = t
      BY <2>1 DEF Seed
    <3>2. QED
      BY <1>4, <2>1, <3>1 DEF Answers
  <2>2. QED
    BY <1>3, <2>1
<1>7. Dated(t)'
  BY <1>1, <1>2, DatedKept
<1>8. QED
  BY <1>1, <1>5, <1>6, <1>7, TalkKept

\* A POST registers recipients and stores its type.
LEMMA PostRunsTalk ==
  ASSUME TalkInv, NEW r \in Request,
         \/ r \in Thread /\ (AddRecipient(r) \/ SetType(r))
         \/ r \in Reply /\ SetType(r)
         \/ r \in Ack /\ (MarkRecipient(r) \/ CheckAll(r) \/ CloseThread(r))
         \/ r \in Reply \cup Ack /\ (ReadRecipients(r) \/ Refuse(r))
  PROVE  TalkInv'
<1>1. /\ Step(r) /\ TypeInv /\ TypeInv'
      /\ pc \in [Request -> {"idle"} \cup Running \cup Answered]
      /\ frame \in [Request -> Frame]
      /\ threads \in [Thread -> ThreadRow]
  <2>1. Step(r)
    BY DEF Step
  <2>2. QED
    BY <2>1, Growth DEF TalkInv, Base, HistInv, TypeInv, TypeOK, StoreTypeOK
<1>2. Silent
  <2>1. CASE UNCHANGED <<threads, messages>>
    BY <2>1 DEF Silent, Exists
  <2>2. CASE SetType(r)
    <3>1. /\ messages' = messages
          /\ threads' = [threads EXCEPT ![frame[r].thread].discussion_type = frame[r].discussion_type]
      BY <2>2 DEF SetType, set_discussion_type
    <3>2. \A u \in Thread : /\ threads'[u].status = threads[u].status
                           /\ threads'[u].last_message_at = threads[u].last_message_at
      BY <1>1, <3>1 DEF ThreadRow
    <3>3. QED
      BY <3>1, <3>2 DEF Silent, Exists
  <2>3. CASE r \in Ack /\ CloseThread(r)
    <3>1. /\ messages' = messages
          /\ threads' = [threads EXCEPT ![frame[r].thread].status = "acked"]
          /\ Exists(frame[r].thread)
      BY <1>1, <2>3 DEF CloseThread, update_thread_status, At, TypeInv, FramesOK, Found, Received
    <3>2. \A u \in Thread : /\ threads'[u].status # "absent" => threads[u].status # "absent"
                           /\ threads'[u].last_message_at = threads[u].last_message_at
      BY <1>1, <3>1 DEF ThreadRow, Exists
    <3>3. QED
      BY <3>1, <3>2 DEF Silent, Exists
  <2>4. QED
    BY <2>1, <2>2, <2>3
       DEF AddRecipient, add_recipient, MarkRecipient, mark_recipient_acked, CheckAll,
           ReadRecipients, Refuse, tables
<1>3. CASE r \in Thread
  <2>1. Received(r) /\ r \notin Reply \cup Ack
    BY <1>3, Kinds DEF AddRecipient, SetType, At, Received
  <2>2. QED
    BY <1>1, <1>2, <1>3, <2>1, DatedKept, SilentStep
<1>4. CASE r \in Reply \cup Ack
  <2>1. /\ frame'[r].thread = frame[r].thread /\ frame'[r].to = frame[r].to
        /\ frame'[r].caller = frame[r].caller
        /\ frame'[r].created_at = frame[r].created_at
    BY <1>1, <1>4, Kinds DEF SetType, MarkRecipient, CheckAll, CloseThread, ReadRecipients,
       Refuse, Frame
  <2>2. Found(r) /\ (Stamped(r)' <=> Stamped(r))
    BY <1>1, <1>4, Kinds DEF SetType, MarkRecipient, CheckAll, CloseThread, ReadRecipients,
       Refuse, At, Goto, Found, Received, Stamped
  <2>3. QED
    BY <1>1, <1>2, <1>4, <2>1, <2>2, Kinds, SendsKept, SilentStep
<1>5. QED
  BY <1>3, <1>4

\* The recipient read with the thread is the seed's (api/threads.py:112-113).
LEMMA ReadThreadTalk ==
  ASSUME TalkInv, NEW r \in Reply \cup Ack, ReadThread(r)
  PROVE  TalkInv'
<1>1. /\ r \in Request /\ Comes(r) /\ r \notin Thread
      /\ TypeInv /\ TypeInv'
  <2>1. r \in Request /\ Comes(r) /\ r \notin Thread
    BY Kinds DEF Request, Comes
  <2>2. QED
    BY <2>1, Growth DEF TalkInv, Base, HistInv
<1>2. Silent
  BY DEF ReadThread, tables, Silent, Exists
<1>3. PICK caller \in Caller, t \in Thread, d \in IF r \in Reply THEN TypeSent ELSE {None} :
        \/ /\ ~Exists(t)
           /\ Goto(r, "404")
        \/ \E m \in First(t) :
             /\ Exists(t)
             /\ frame' = [frame EXCEPT ![r] =
                            Locals(caller, t, m.to_participant, d, None, <<>>)]
             /\ Goto(r, "recipients")
  <2>1. \A t \in Thread : First(t) # {} => Exists(t)
    BY <1>1 DEF First, MessagesOf, TypeInv, RowsOK
  <2>2. QED
    BY <2>1 DEF ReadThread
<1>4. CASE Goto(r, "404")
  <2>1. pc'[r] = "404"
    BY <1>1, <1>4 DEF Goto, TypeInv, TypeOK
  <2>2. Sends(r)'
    BY <2>1 DEF Sends, Found, Stamped, Received
  <2>3. QED
    BY <1>1, <1>2, <2>2, SilentStep
<1>5. ASSUME NEW m \in First(t), Exists(t), Goto(r, "recipients"),
             frame' = [frame EXCEPT ![r] =
                         Locals(caller, t, m.to_participant, d, None, <<>>)]
      PROVE  TalkInv'
  <2>1. /\ pc'[r] = "recipients" /\ frame'[r].thread = t
        /\ frame'[r].to = m.to_participant /\ frame'[t] = frame[t]
    BY <1>1, <1>5 DEF Goto, TypeInv, TypeOK, Locals
  <2>2. ~Bare(SeedStamp(t)) => m.to_participant = frame[t].to
    BY <1>5, SeedIsFirst DEF Seed
  <2>3. Sends(r)'
    BY <2>1, <2>2 DEF Sends, Found, Stamped, Received, SeedStamp
  <2>4. QED
    BY <1>1, <1>2, <2>3, SilentStep
<1>6. QED
  BY <1>3, <1>4, <1>5

\* Stamped by _now_iso, later than the thread it answers (store/messages.py:21, 42).
LEMMA ResolveTalk ==
  ASSUME TalkInv, NEW r \in Reply \cup Ack, Resolve(r)
  PROVE  TalkInv'
<1> DEFINE t == frame[r].thread
<1>1. /\ r \in Request /\ Step(r) /\ r \notin Thread
      /\ TypeInv /\ TypeInv'
  <2>1. r \in Request /\ Step(r) /\ r \notin Thread
    BY Kinds DEF Request, Step
  <2>2. QED
    BY <2>1, Growth DEF TalkInv, Base, HistInv
<1>2. Silent
  BY DEF Resolve, tables, Silent, Exists
<1>3. Found(r) /\ ~Stamped(r)
  BY DEF Resolve, At, Found, Received, Stamped
<1>4. t \in Thread /\ Exists(t) /\ t # r
  BY <1>1, <1>3 DEF TypeInv, FramesOK
<1>5. PICK i \in Later(now) :
        frame' = [frame EXCEPT ![r].to = _resolve_participants(frame[r]),
                               ![r].created_at = now_iso(i)]
  BY DEF Resolve
<1>6. /\ frame'[r].thread = t /\ frame'[r].caller = frame[r].caller
      /\ frame'[r].to = _resolve_participants(frame[r])
      /\ frame'[r].created_at = now_iso(i)
      /\ frame'[t] = frame[t]
  BY <1>1, <1>4, <1>5 DEF TypeInv, TypeOK, Frame, Request
<1>7. Follows(now_iso(i), t)
  <2>1. SeedStamp(t) \in Stamp /\ ~Past(now, SeedStamp(t)) /\ now \in Instant /\ i \in Instant
    BY <1>1, <1>4, ThreadKnown, LaterInstants DEF TypeInv, TypeOK
  <2>2. i.sec > now.sec \/ (i.sec = now.sec /\ i.us > now.us)
    BY <2>1, MicroAssumption DEF Later, Instant
  <2>3. /\ SeedStamp(t).sec \in Nat /\ SeedStamp(t).us \in Nat
        /\ now.sec \in Nat /\ now.us \in Nat /\ i.sec \in Nat /\ i.us \in Nat
    BY <2>1, MicroAssumption DEF Stamp, Instant
  <2>4. Past(SeedStamp(t), i)
    BY <2>1, <2>2, <2>3 DEF Past
  <2>5. QED
    BY <2>4 DEF Follows, Past, now_iso
<1>8. Crosses(frame[r].caller, _resolve_participants(frame[r]), t)
  <2>1. ~Bare(SeedStamp(t)) => frame[r].to = frame[t].to
    BY <1>3 DEF TalkInv, Sends
  <2>2. threads[t].created_by = frame[t].caller
    BY <1>4, ThreadKnown
  <2>3. QED
    BY <2>1, <2>2 DEF Crosses, Resolve, _resolve_participants
<1>9. Sends(r)'
  <2>1. Stamped(r)'
    BY <1>1 DEF Resolve, Goto, At, Stamped, Found, Received, TypeInv, TypeOK
  <2>2. SeedStamp(t)' = SeedStamp(t)
    BY <1>6 DEF SeedStamp
  <2>3. QED
    BY <1>6, <1>7, <1>8, <2>1, <2>2 DEF Sends, Follows, Crosses, SeedStamp
<1>10. QED
  BY <1>1, <1>2, <1>9, SilentStep

\* What is stored is what the handler has stamped and addressed.
LEMMA WrittenTalk ==
  ASSUME TalkInv, NEW r \in Request,
         \/ r \in Reply /\ AppendMessage(r)
         \/ r \in Ack /\ (AppendAck(r) \/ InsertAck(r))
  PROVE  TalkInv'
<1> DEFINE t == frame[r].thread
<1>1. /\ Step(r) /\ r \in Reply \cup Ack /\ r \notin Thread
      /\ TypeInv /\ TypeInv' /\ frame' = frame
  <2>1. Step(r) /\ r \in Reply \cup Ack /\ r \notin Thread
    BY Kinds DEF Step
  <2>2. QED
    BY <2>1, Growth DEF TalkInv, Base, HistInv, AppendMessage, AppendAck, InsertAck
<1>2. Found(r) /\ Stamped(r) /\ Stamped(r)'
  BY <1>1 DEF AppendMessage, AppendAck, InsertAck, At, Goto, Found, Received, Stamped,
     TypeInv, TypeOK
<1>3. t \in Thread /\ Exists(t) /\ frame[r].created_at \in Stamp
  BY <1>1, <1>2 DEF TypeInv, FramesOK
<1>4. \E kind \in {"message", "ack"} :
        messages' = messages \cup
          {[id |-> r, thread_id |-> t, from_participant |-> frame[r].caller,
            to_participant |-> frame[r].to, kind |-> kind,
            created_at |-> frame[r].created_at]}
  BY DEF AppendMessage, AppendAck, InsertAck, append_message, append_ack, insert_ack, Insert
<1>5. \A u \in Thread :
        \/ threads'[u] = threads[u]
        \/ u = t /\ threads'[u].last_message_at = frame[r].created_at
  <2>1. threads \in [Thread -> ThreadRow]
    BY <1>1 DEF TypeInv, TypeOK, StoreTypeOK
  <2>2. QED
    BY <1>3, <2>1
       DEF AppendMessage, AppendAck, InsertAck, append_message, append_ack, insert_ack, ThreadRow
<1>6. ASSUME NEW u \in Thread, Exists(u)'
      PROVE  Exists(u) /\ threads'[u].last_message_at \in Stamp
  BY <1>3, <1>5, <1>6 DEF Exists, TalkInv, Seeded
<1>7. ASSUME NEW m \in messages' PROVE m \in messages \/ Answers(m)'
  <2>1. CASE /\ m.id = r /\ m.thread_id = t /\ m.from_participant = frame[r].caller
             /\ m.to_participant = frame[r].to /\ m.created_at = frame[r].created_at
    <3>1. Sends(r)
      BY <1>1 DEF TalkInv
    <3>2. Follows(m.created_at, t) /\ Crosses(m.from_participant, m.to_participant, t)
      BY <1>2, <2>1, <3>1 DEF Sends
    <3>3. QED
      BY <1>1, <2>1, <3>2 DEF Answers, Follows, Crosses, SeedStamp
  <2>2. QED
    BY <1>4, <2>1
<1>8. Sends(r)'
  BY <1>1, <1>2, SendsKept
<1>9. QED
  BY <1>1, <1>6, <1>7, <1>8, TalkKept

\* Every step keeps the invariant.
LEMMA TalkStep ==
  ASSUME TalkInv, [Motion]_vars
  PROVE  TalkInv'
<1>1. CASE UNCHANGED vars
  <2>1. Base'
    BY <1>1, AckInvStep, HistoryStep DEF TalkInv, Base
  <2>2. QED
    BY <1>1, <2>1 DEF TalkInv, Dated, Seeded, Answers, Sends, Exists, Received, Found,
       Stamped, SeedStamp, Seed, Follows, Crosses, Past, vars
<1>2. ASSUME NEW r \in Request, Comes(r) PROVE TalkInv'
  BY <1>2, ReceiveThreadTalk, ReadThreadTalk, OutsideTalk DEF Comes
<1>3. ASSUME NEW r \in Request, Step(r) PROVE TalkInv'
  BY <1>3, CreateThreadTalk, PostRunsTalk, ResolveTalk, WrittenTalk DEF Step
<1>4. ASSUME NEW r \in Request, Fail(r) PROVE TalkInv'
  BY <1>4, OutsideTalk
<1>5. QED
  BY <1>1, <1>2, <1>3, <1>4 DEF Motion

-----------------------------------------------------------------------------
(* The theorems *)

\* Every thread has its seed, and what follows it is stamped later and crosses
\* sides.
THEOREM TalkInvariant == Spec => []TalkInv
BY InitTalkInv, TalkStep, NextIsMotion, PTL DEF Spec

\* The seed is the first message read back, unless it is stamped on a whole
\* second (store/threads.py:15, api/threads.py:112).
THEOREM SeedLeads == Spec => []SeedLeadsUnlessWholeSecond
<1>1. TalkInv => SeedLeadsUnlessWholeSecond
  <2> SUFFICES ASSUME TalkInv, NEW t \in Thread, Exists(t), ~Bare(SeedStamp(t)),
                      NEW m \in First(t)
               PROVE  m.id = t
    BY DEF SeedLeadsUnlessWholeSecond
  <2>1. m = Seed(t)
    BY SeedIsFirst
  <2>2. QED
    BY <2>1 DEF Seed
<1>2. QED
  BY <1>1, TalkInvariant, PTL

\* The creator writes to the primary recipient and everyone else to the creator,
\* with the same exception (api/threads.py:111-121).
THEOREM RepliesCross == Spec => []RepliesCrossSides
<1>1. TalkInv => RepliesCrossSides
  <2> SUFFICES ASSUME TalkInv, NEW m \in messages, ~Bare(SeedStamp(m.thread_id))
               PROVE  m.to_participant =
                        IF m.from_participant = threads[m.thread_id].created_by
                          THEN frame[m.thread_id].to
                          ELSE threads[m.thread_id].created_by
    BY DEF RepliesCrossSides
  <2>1. m.thread_id \in Thread /\ Exists(m.thread_id)
    BY DEF TalkInv, Base, HistInv, TypeInv, RowsOK
  <2>2. threads[m.thread_id].created_by = frame[m.thread_id].caller
    BY <2>1, ThreadKnown
  <2>3. Answers(m)
    BY DEF TalkInv
  <2>4. QED
    BY <2>2, <2>3 DEF Answers, Seed, Crosses
<1>2. QED
  BY <1>1, TalkInvariant, PTL

\* A thread active after the moment asked from is listed (store/threads.py:91).
THEOREM RecentIsListed == Spec => []SinceKeepsRecent
<1>1. TalkInv => SinceKeepsRecent
  <2> SUFFICES ASSUME TalkInv, NEW t \in Thread, NEW i \in [sec : 0..now.sec, us : Micro],
                      Exists(t), ~Bare(now_utc(i)),
                      \/ Past(i, threads[t].last_message_at)
                      \/ threads[t].last_message_at = now_utc(i)
               PROVE  t \in list_threads(None, None, {}, now_utc(i))
    BY DEF SinceKeepsRecent, Past
  <2>1. threads[t].last_message_at \in Stamp
    BY DEF TalkInv, Seeded
  <2>2. now.sec \in Nat
    BY DEF TalkInv, Base, HistInv, TypeInv, TypeOK, Instant
  <2>3. i.sec \in Nat /\ i.us \in Nat
    <3>1. i.sec \in 0 .. now.sec /\ i.us \in Micro
      OBVIOUS
    <3>2. \A n \in Nat : 0 .. n \subseteq Nat
      OBVIOUS
    <3>3. 0 .. now.sec \subseteq Nat
      BY <2>2, <3>2, Zenon
    <3>4. QED
      BY <3>1, <3>3, MicroAssumption, Zenon
  <2>4. /\ threads[t].last_message_at.sec \in Nat
        /\ threads[t].last_message_at.us \in Nat
    BY <2>1, MicroAssumption DEF Stamp
  <2>5. Recent(t, now_utc(i))
    BY <2>3, <2>4 DEF Recent, Before, Bare, now_utc, Past
  <2>6. QED
    BY <2>5 DEF list_threads
<1>2. QED
  BY <1>1, TalkInvariant, PTL

\* The row of an answered POST names the recipients it was posted to, with the
\* exceptions of the seed's stamp and of a comma (store/threads.py:98-136).
THEOREM ListIsComplete == Spec => []ListNamesRecipients
<1>1. TalkInv /\ BoardInv => ListNamesRecipients
  <2> SUFFICES ASSUME TalkInv, BoardInv, NEW t \in Thread, pc[t] = "ok",
                      ~Bare(SeedStamp(t)), \A n \in Posted(t) : Split[n] = {n}
               PROVE  Shown(t) = {Posted(t)}
    BY DEF ListNamesRecipients
  <2>1. Exists(t) /\ Received(t)
    BY DEF TalkInv, Base, HistInv, TypeInv, RowsOK, Received
  <2>2. First(t) = {Seed(t)}
    BY <2>1, SeedIsFirst
  <2>3. list_recipients(t) = Posted(t)
    BY DEF BoardInv, Reg, Base, AckInv, LoopOK
  <2>4. frame[t].to \in Posted(t)
    <3>1. frame[t].recipients # <<>> /\ frame[t].recipients[1] = frame[t].to
      BY <2>1 DEF TalkInv, Base, AckInv, LoopOK
    <3>2. frame[t].recipients \in Seq(Name)
      BY DEF TalkInv, Base, HistInv, TypeInv, TypeOK, Frame, Request
    <3>3. 1 \in DOMAIN frame[t].recipients
      BY <3>1, <3>2
    <3>4. QED
      BY <3>1, <3>3 DEF Posted
  <2>5. UNION {Split[n] : n \in Posted(t)} = Posted(t)
    <3>1. {Split[n] : n \in Posted(t)} = {{n} : n \in Posted(t)}
      OBVIOUS
    <3>2. QED
      BY <3>1
  <2>6. Shown(t) = {{Seed(t).to_participant} \cup Posted(t)}
    BY <2>2, <2>3, <2>5 DEF Shown
  <2>7. QED
    BY <2>4, <2>6 DEF Seed
<1>2. QED
  BY <1>1, TalkInvariant, BoardInvariant, PTL
=============================================================================
