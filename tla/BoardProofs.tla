---------------------------- MODULE BoardProofs -----------------------------
(***************************************************************************)
(* Proof that the handlers implement the board, for any number of threads, *)
(* recipients, requests and dying handlers, with what it needs to know of  *)
(* who speaks in a thread and what its log shows.                          *)
(***************************************************************************)
EXTENDS ApiBoard, HandlerProofs

-----------------------------------------------------------------------------
(* The inductive invariant *)

Base == AckInv /\ HistInv

Speakers(t) == {threads[t].created_by} \cup Posted(t)
Sides(t)    == {threads[t].created_by, frame[t].to}

\* n has acknowledged t in the log.
Logged(t, n) == \E m \in messages : /\ m.thread_id = t
                                    /\ m.from_participant = n
                                    /\ m.kind = "ack"

\* The loop of post_thread has registered what it has passed.
Reg(t) ==
  /\ pc[t] = "add" => \A i \in 1..(frame[t].next - 1) :
                        frame[t].recipients[i] \in list_recipients(t)
  /\ pc[t] = "ok" => Posted(t) \subseteq list_recipients(t)

\* A handler that found its thread writes to one of the two sides, and past
\* _resolve_participants its caller may speak.
Facing(r) ==
  LET t == frame[r].thread
  IN  Found(r) => /\ frame[r].to \in Sides(t)
                  /\ frame[r].extra \subseteq Posted(t)
                  /\ Stamped(r) => frame[r].caller \in Speakers(t)

\* An ack marks its caller after saying so, and closes a thread whose recipients
\* it has all read once nobody owes an ack.
Turn(r) ==
  LET t == frame[r].thread
  IN  /\ pc[r] \in {"mark", "check", "close"} => Logged(t, frame[r].caller)
      /\ pc[r] = "close" /\ frame[r].extra = Posted(t) => Owed(t) = {}

\* The ack that explains why a thread is closed over somebody.
Hasty(t) ==
  \E r \in AcksOn(t) :
    /\ pc[r] = "ok"
    /\ \/ frame[r].caller = threads[t].created_by /\ ActsAlone(r)
       \/ frame[r].extra # Posted(t)

Spoken(m) ==
  /\ m.from_participant \in Speakers(m.thread_id)
  /\ m.to_participant \in Sides(m.thread_id)

ClosedWell(t) ==
  threads[t].status = "acked" => /\ \E n \in Name : Logged(t, n)
                                 /\ Owed(t) # {} => Hasty(t)

MarkedWell(t, n) == thread_recipients[t][n] = "acked" => Logged(t, n)

BoardInv ==
  /\ Base
  /\ \A t \in Thread : Reg(t) /\ ClosedWell(t) /\ \A n \in Name : MarkedWell(t, n)
  /\ \A r \in Reply \cup Ack : Facing(r)
  /\ \A r \in Ack : Turn(r)
  /\ \A m \in messages : Spoken(m)

-----------------------------------------------------------------------------
(* What every step keeps *)

Grows ==
  /\ messages \subseteq messages'
  /\ \A t \in Thread :
       /\ Exists(t) => /\ threads'[t].status # "absent"
                       /\ threads'[t].created_by = threads[t].created_by
                       /\ frame'[t].recipients = frame[t].recipients
                       /\ frame'[t].to = frame[t].to
       /\ threads[t].status = "acked" => threads'[t].status = "acked"
       /\ \A n \in Name :
            /\ thread_recipients[t][n] = "acked" =>
                 thread_recipients'[t][n] = "acked"
            /\ thread_recipients[t][n] # "absent" =>
                 thread_recipients'[t][n] # "absent"

\* A step is one of one request, that had not been answered.
Moves(r) ==
  \A q \in Request : q # r \/ pc[q] = "ok" => pc'[q] = pc[q] /\ frame'[q] = frame[q]

\* The empty database implements the empty board.
LEMMA InitBoardInv == Init => BoardInv /\ Abstract!Init
<1> SUFFICES ASSUME Init PROVE BoardInv /\ Abstract!Init
  OBVIOUS
<1>1. Base
  BY InitAckInv, InitClaimInv DEF ClaimInv, Base
<1> USE DEF Init, InitStore, NoThread
<1>2. BoardInv
  BY <1>1 DEF BoardInv, Reg, ClosedWell, MarkedWell, Facing, Turn, Found, Received, Request
<1>3. State = [t \in Thread |-> "absent"] /\ Author = [t \in Thread |-> None]
  BY DEF State, Author
<1>4. Owner = [t \in Thread |-> None] /\ Scope = [t \in Thread |-> None]
  BY DEF Owner, Scope
<1>5. Recipients = [t \in Thread |-> {}] /\ Debts = [t \in Thread |-> {}]
  BY DEF Recipients, Debts, Exists
<1>6. Settled = {} /\ Log = {} /\ Hurried = {}
  BY DEF Settled, Log, Hurried, Overtaken, AcksOn, Request
<1>7. QED
  BY <1>2, <1>3, <1>4, <1>5, <1>6 DEF Abstract!Init

\* Steps are of one request (api/threads.py: a handler has no shared locals).
LEMMA Mover ==
  ASSUME TypeInv, NEW r \in Request, Comes(r) \/ Step(r) \/ Fail(r)
  PROVE  Moves(r)
<1>1. pc \in [Request -> {"idle"} \cup Running \cup Answered] /\ frame \in [Request -> Frame]
  BY DEF TypeInv, TypeOK
<1>2. CASE Comes(r)
  BY <1>1, <1>2 DEF Comes, ReceiveThread, ReadThread, PostClaim, Turned, TurnAway, At, Goto, Moves
<1>3. CASE Fail(r)
  BY <1>3 DEF Fail, Moves
<1>4. CASE Step(r)
  BY <1>1, <1>4 DEF Step, CreateThread, AddRecipient, SetType, ReadRecipients, Refuse,
     Resolve, AppendMessage, AppendAck, InsertAck, MarkRecipient, CheckAll, CloseThread,
     At, Goto, Moves
<1>5. QED
  BY <1>2, <1>3, <1>4

\* The recipients a POST was read with stay while it runs (api/threads.py:60).
LEMMA PostsStay ==
  ASSUME TypeInv, NEW r \in Request, Comes(r) \/ Step(r) \/ Fail(r), NEW t \in Thread,
         Exists(t)
  PROVE  frame'[t].recipients = frame[t].recipients /\ frame'[t].to = frame[t].to
<1>1. t \in Request /\ frame \in [Request -> Frame]
  BY DEF Request, TypeInv, TypeOK
<1>2. CASE r # t
  BY <1>1, <1>2, Mover DEF Moves
<1>3. CASE r = t
  <2>1. pc[t] \notin {"idle", "400", "422", "create"}
    BY DEF TypeInv, RowsOK, Received
  <2>2. Fail(t) \/ AddRecipient(t) \/ SetType(t)
    BY <1>3, <2>1, Kinds
       DEF Comes, Step, ReceiveThread, Turned, TurnAway, CreateThread, At
  <2>3. QED
    BY <1>1, <2>2 DEF Fail, AddRecipient, SetType, Frame
<1>4. QED
  BY <1>2, <1>3

\* A request that has arrived moves only while it runs, and keeps what it came
\* with (api/threads.py: no handler rebinds its arguments).
LEMMA Runs ==
  ASSUME TypeInv, NEW q \in Request, pc[q] # "idle", Comes(q) \/ Step(q) \/ Fail(q)
  PROVE  /\ pc[q] \in Running /\ pc'[q] \notin {"idle", "400", "422", "404"}
         /\ frame'[q].thread = frame[q].thread
         /\ frame'[q].caller = frame[q].caller
         /\ frame'[q].discussion_type = frame[q].discussion_type
         /\ frame'[q].recipients = frame[q].recipients
         /\ pc'[q] = "403" => Refuse(q)
<1>1. /\ frame[q] \in Frame /\ frame \in [Request -> Frame]
      /\ pc \in [Request -> {"idle"} \cup Running \cup Answered]
  BY DEF TypeInv, TypeOK
<1>2. Step(q) \/ Fail(q)
  BY DEF Comes, ReceiveThread, ReadThread, PostClaim, Turned, TurnAway, At
<1>3. pc[q] \in Running
  BY <1>2 DEF Step, Fail, CreateThread, AddRecipient, SetType, ReadRecipients, Refuse,
     Resolve, AppendMessage, AppendAck, InsertAck, MarkRecipient, CheckAll, CloseThread,
     At, Running
<1>4. /\ pc'[q] \notin {"idle", "400", "422", "404"}
      /\ pc'[q] = "403" => Refuse(q)
  BY <1>1, <1>2, <1>3 DEF Step, Fail, CreateThread, AddRecipient, SetType,
     ReadRecipients, Refuse, Resolve, AppendMessage, AppendAck, InsertAck,
     MarkRecipient, CheckAll, CloseThread, Goto, Running
<1>5. /\ frame'[q].thread = frame[q].thread
      /\ frame'[q].caller = frame[q].caller
      /\ frame'[q].discussion_type = frame[q].discussion_type
      /\ frame'[q].recipients = frame[q].recipients
  <2>1. CASE AddRecipient(q)
    BY <1>1, <2>1 DEF AddRecipient, Frame
  <2>2. CASE ReadRecipients(q)
    BY <1>1, <2>2 DEF ReadRecipients, Frame
  <2>3. CASE Resolve(q)
    BY <1>1, <2>3 DEF Resolve, Frame
  <2>4. CASE UNCHANGED frame
    BY <2>4
  <2>5. QED
    BY <1>2, <2>1, <2>2, <2>3, <2>4 DEF Step, Fail, CreateThread, SetType, Refuse,
       AppendMessage, AppendAck, InsertAck, MarkRecipient, CheckAll, CloseThread
<1>6. QED
  BY <1>3, <1>4, <1>5

LEMMA Growth ==
  ASSUME Base, NEW r \in Request, Comes(r) \/ Step(r) \/ Fail(r)
  PROVE  Base' /\ Grows /\ Moves(r)
<1>1. Motion
  BY DEF Motion
<1>2. Base'
  BY <1>1, AckInvStep, HistoryStep DEF Base
<1>3. [TakesNothingBack]_tables
  BY <1>1, HistoryStep DEF Base
<1>4. TakesNothingBack
  BY <1>3 DEF TakesNothingBack, tables, Exists
<1>5. Grows
  BY <1>4, PostsStay DEF Base, HistInv, TakesNothingBack, Grows, Exists
<1>6. QED
  BY <1>2, <1>5, Mover DEF Base, HistInv

-----------------------------------------------------------------------------
(* What a step leaves as it was *)

\* What is known of a thread stays known.
LEMMA Persist ==
  ASSUME TypeInv, Grows, NEW t \in Thread, Exists(t)
  PROVE  /\ Exists(t)'
         /\ Posted(t)' = Posted(t) /\ Posted(t) \subseteq Name
         /\ Speakers(t)' = Speakers(t) /\ Sides(t)' = Sides(t)
         /\ Owed(t)' \subseteq Owed(t)
         /\ \A n \in Name : Logged(t, n) => Logged(t, n)'
<1>1. frame[t].recipients \in Seq(Name)
  BY DEF TypeInv, TypeOK, Frame, Request
<1>2. Posted(t)' = Posted(t) /\ Posted(t) \subseteq Name
  BY <1>1 DEF Grows, Posted
<1>3. Owed(t)' \subseteq Owed(t)
  BY <1>2 DEF Owed, Grows
<1>4. Speakers(t)' = Speakers(t) /\ Sides(t)' = Sides(t) /\ Exists(t)'
  BY <1>2 DEF Speakers, Sides, Grows, Exists
<1>5. \A n \in Name : Logged(t, n) => Logged(t, n)'
  BY DEF Logged, Grows
<1>6. QED
  BY <1>2, <1>3, <1>4, <1>5

\* The primary recipient is one of those the POST names.
LEMMA SidesSpeak ==
  ASSUME Base, NEW t \in Thread, Received(t)
  PROVE  frame[t].to \in Posted(t) /\ Sides(t) \subseteq Speakers(t)
<1>1. frame[t].recipients \in Seq(Name) /\ frame[t].recipients # <<>>
      /\ frame[t].recipients[1] = frame[t].to
  BY DEF Base, AckInv, LoopOK, HistInv, TypeInv, TypeOK, Frame, Request
<1>2. 1 \in DOMAIN frame[t].recipients
  BY <1>1
<1>3. QED
  BY <1>1, <1>2 DEF Posted, Sides, Speakers

\* What is known of the requests that do not move stays known.
LEMMA OthersStay ==
  ASSUME BoardInv, Grows, NEW r \in Request, Moves(r), NEW q \in Request, q # r
  PROVE  /\ q \in Reply \cup Ack => Facing(q)'
         /\ q \in Ack => Turn(q)'
<1>1. pc'[q] = pc[q] /\ frame'[q] = frame[q] /\ TypeInv
  BY DEF Moves, BoardInv, Base, HistInv
<1>2. ASSUME q \in Reply \cup Ack PROVE Facing(q)'
  <2>1. (Found(q)' <=> Found(q)) /\ (Stamped(q)' <=> Stamped(q))
    BY <1>1 DEF Found, Received, Stamped
  <2>2. CASE ~Found(q)
    BY <2>1, <2>2 DEF Facing
  <2>3. CASE Found(q)
    <3>1. PICK t \in Thread : t = frame[q].thread /\ Exists(t)
      BY <1>1, <1>2, <2>3 DEF TypeInv, FramesOK
    <3>2. /\ frame[q].to \in Sides(t) /\ frame[q].extra \subseteq Posted(t)
          /\ Stamped(q) => frame[q].caller \in Speakers(t)
      BY <1>2, <2>3, <3>1 DEF BoardInv, Facing
    <3>3. /\ threads'[t].created_by = threads[t].created_by
          /\ frame'[t].recipients = frame[t].recipients /\ frame'[t].to = frame[t].to
      BY <3>1 DEF Grows
    <3>4. frame'[q].thread = t
      BY <1>1, <3>1
    <3>5. QED
      BY <1>1, <2>1, <3>2, <3>3, <3>4 DEF Facing, Sides, Speakers, Posted
  <2>4. QED
    BY <2>2, <2>3
<1>3. ASSUME q \in Ack PROVE Turn(q)'
  <2>1. pc[q] \in {"mark", "check", "close"} =>
          /\ frame[q].thread \in Thread /\ Exists(frame[q].thread)
          /\ frame[q].caller \in Name
    BY <1>1, <1>3 DEF TypeInv, FramesOK, Found, Received
  <2> DEFINE t == frame[q].thread
  <2>2. pc[q] \in {"mark", "check", "close"} => (Logged(t, frame[q].caller) =>
          \E m \in messages' : m.thread_id = t /\ m.from_participant = frame[q].caller /\ m.kind = "ack")
    BY DEF Logged, Grows
  <2>3. pc[q] = "close" => /\ {frame'[t].recipients[i] : i \in DOMAIN frame'[t].recipients} = Posted(t)
                           /\ Owed(t) = {} => {n \in Posted(t) : thread_recipients'[t][n] # "acked"} = {}
    <3>1. ASSUME pc[q] = "close" PROVE Owed(t)' \subseteq Owed(t) /\ Posted(t) \subseteq Name
      BY <1>1, <2>1, <3>1, Persist
    <3>2. ASSUME pc[q] = "close" PROVE frame'[t].recipients = frame[t].recipients
      BY <2>1, <3>2 DEF Grows
    <3>3. ASSUME pc[q] = "close", Owed(t) = {}
          PROVE  {n \in Posted(t) : thread_recipients'[t][n] # "acked"} = {}
      BY <2>1, <3>1, <3>3 DEF Owed, Grows
    <3>4. QED
      BY <3>2, <3>3 DEF Posted
  <2>4. Turn(q)
    BY <1>3 DEF BoardInv
  <2>5. QED
    BY <1>1, <2>2, <2>3, <2>4 DEF Turn, Logged, Owed, Posted
<1>4. QED
  BY <1>2, <1>3

\* What is known of a thread's log and marks stays known.
LEMMA ThreadsStay ==
  ASSUME BoardInv, Base', Grows, NEW r \in Request, Moves(r), NEW t \in Thread
  PROVE  /\ t # r => Reg(t)'
         /\ threads[t].status = "acked" => ClosedWell(t)'
         /\ \A n \in Name : thread_recipients[t][n] = "acked" => MarkedWell(t, n)'
<1>1. TypeInv /\ t \in Request
  BY DEF BoardInv, Base, HistInv, Request
<1>2. ASSUME t # r PROVE Reg(t)'
  <2>1. pc'[t] = pc[t] /\ frame'[t] = frame[t]
    BY <1>1, <1>2 DEF Moves
  <2>2. list_recipients(t) \subseteq list_recipients(t)'
    BY DEF list_recipients, Grows
  <2>3. QED
    BY <2>1, <2>2 DEF BoardInv, Reg, Posted
<1>3. ASSUME threads[t].status = "acked" PROVE ClosedWell(t)'
  <2>1. Exists(t) /\ ClosedWell(t)
    BY <1>3 DEF Exists, BoardInv
  <2>2. /\ Posted(t)' = Posted(t) /\ Owed(t)' \subseteq Owed(t)
        /\ \A n \in Name : Logged(t, n) => Logged(t, n)'
    BY <1>1, <2>1, Persist
  <2>3. threads'[t].created_by = threads[t].created_by
    BY <2>1 DEF Grows
  <2>4. Hasty(t) => Hasty(t)'
    BY <2>2, <2>3 DEF Hasty, AcksOn, ActsAlone, Moves, Request
  <2>5. QED
    BY <1>3, <2>1, <2>2, <2>4 DEF ClosedWell
<1>4. ASSUME NEW n \in Name, thread_recipients[t][n] = "acked" PROVE MarkedWell(t, n)'
  <2>1. Logged(t, n)
    BY <1>4 DEF BoardInv, MarkedWell
  <2>2. Logged(t, n)'
    BY <2>1 DEF Logged, Grows
  <2>3. QED
    BY <2>2 DEF MarkedWell
<1>5. QED
  BY <1>2, <1>3, <1>4

\* So a step has to account for what it moves, says, marks and closes.
LEMMA InvStep ==
  ASSUME BoardInv, Base', Grows, NEW r \in Request, Moves(r),
         r \in Reply \cup Ack => Facing(r)',
         r \in Ack => Turn(r)',
         r \in Thread => Reg(r)',
         \A m \in messages' : m \notin messages => Spoken(m)',
         \A t \in Thread, n \in Name :
           thread_recipients[t][n] # "acked" => MarkedWell(t, n)',
         \A t \in Thread : threads[t].status # "acked" => ClosedWell(t)'
  PROVE  BoardInv'
<1>1. \A t \in Thread : Reg(t)' /\ ClosedWell(t)' /\ \A n \in Name : MarkedWell(t, n)'
  BY ThreadsStay
<1>2. /\ \A q \in Reply \cup Ack : Facing(q)'
      /\ \A q \in Ack : Turn(q)'
  BY OthersStay DEF Request
<1>3. \A m \in messages' : Spoken(m)'
  <2>1. ASSUME NEW m \in messages PROVE Spoken(m)'
    <3>1. m.thread_id \in Thread /\ Exists(m.thread_id) /\ TypeInv
      BY DEF BoardInv, Base, HistInv, TypeInv, RowsOK
    <3>2. /\ Speakers(m.thread_id)' = Speakers(m.thread_id)
          /\ Sides(m.thread_id)' = Sides(m.thread_id)
      BY <3>1, Persist
    <3>3. QED
      BY <3>2 DEF BoardInv, Spoken
  <2>2. QED
    BY <2>1
<1>4. QED
  BY <1>1, <1>2, <1>3 DEF BoardInv

-----------------------------------------------------------------------------
(* The board a step leaves as it was *)

\* The handler has read the recipients of its thread.
Reads(r) == pc[r] \notin {"idle", "400", "422", "404", "recipients"}

LEMMA RowsRead ==
  ASSUME Grows,
         \A t \in Thread : /\ threads'[t].created_by = threads[t].created_by
                           /\ threads'[t].claimed_by = threads[t].claimed_by
                           /\ threads'[t].claim_scope = threads[t].claim_scope
                           /\ Exists(t)' => Exists(t)
  PROVE  Author' = Author /\ Owner' = Owner /\ Scope' = Scope /\ Recipients' = Recipients
<1>1. \A t \in Thread : (Exists(t)' <=> Exists(t)) /\ (Exists(t) => Posted(t)' = Posted(t))
  BY DEF Grows, Exists, Posted
<1>2. Recipients' = Recipients
  BY <1>1 DEF Recipients
<1>3. QED
  BY <1>2 DEF Author, Owner, Scope

LEMMA StatusRead ==
  ASSUME \A t \in Thread : threads'[t].status = threads[t].status
  PROVE  State' = State
BY DEF State

LEMMA DebtsRead ==
  ASSUME TypeInv, Grows,
         \A t \in Thread : Exists(t)' => Exists(t),
         \A t \in Thread, n \in Name : thread_recipients'[t][n] = "acked" =>
                                         thread_recipients[t][n] = "acked"
  PROVE  Debts' = Debts
<1>1. \A t \in Thread : (Exists(t)' <=> Exists(t))
  BY DEF Grows, Exists
<1>2. ASSUME NEW t \in Thread, Exists(t) PROVE Owed(t)' = Owed(t)
  <2>1. Posted(t)' = Posted(t) /\ Posted(t) \subseteq Name
    BY <1>2, Persist
  <2>2. QED
    BY <2>1 DEF Owed, Grows
<1>3. QED
  BY <1>1, <1>2 DEF Debts

\* An ack that reads nothing new overtakes nobody.
LEMMA HurriedSame ==
  ASSUME TypeInv, Grows, NEW r \in Request, Moves(r),
         r \in Ack /\ Reads(r) => Reads(r)',
         r \in Ack /\ Reads(r)' => /\ Reads(r)
                                   /\ frame'[r].thread = frame[r].thread
                                   /\ frame'[r].extra = frame[r].extra
  PROVE  Hurried' = Hurried
<1>1. ASSUME NEW q \in Ack
      PROVE  /\ Reads(q)' <=> Reads(q)
             /\ Reads(q) => /\ frame'[q].thread = frame[q].thread
                            /\ frame'[q].extra = frame[q].extra
                            /\ frame[q].thread \in Thread /\ Exists(frame[q].thread)
  <2>1. Reads(q) => frame[q].thread \in Thread /\ Exists(frame[q].thread)
    BY DEF TypeInv, FramesOK, Reads, Found, Received
  <2>2. q # r => pc'[q] = pc[q] /\ frame'[q] = frame[q]
    BY DEF Moves, Request
  <2>3. QED
    BY <2>1, <2>2 DEF Reads
<1>2. \A t \in Thread : Exists(t) => Posted(t)' = Posted(t)
  BY DEF Grows, Posted
<1>3. \A t \in Thread : Overtaken(t) <=>
        \E q \in Ack : frame[q].thread = t /\ Reads(q) /\ frame[q].extra # Posted(t)
  BY DEF Overtaken, AcksOn, Reads
<1>4. \A t \in Thread : Overtaken(t)' <=>
        \E q \in Ack : frame'[q].thread = t /\ Reads(q)' /\ frame'[q].extra # Posted(t)'
  BY DEF Overtaken, AcksOn, Reads
<1>5. \A t \in Thread : Overtaken(t)' <=> Overtaken(t)
  BY <1>1, <1>2, <1>3, <1>4
<1>6. QED
  BY <1>5 DEF Hurried

LEMMA SettledSame ==
  ASSUME NEW r \in Request, Moves(r), r \in Thread => pc'[r] # "ok" \/ pc[r] = "ok"
  PROVE  Settled' = Settled
<1>1. \A t \in Thread : pc'[t] = "ok" <=> pc[t] = "ok"
  BY DEF Moves, Request
<1>2. QED
  BY <1>1 DEF Settled

LEMMA InsertShows ==
  ASSUME NEW id, NEW t, NEW from, NEW to, NEW kind, NEW at,
         Insert(id, t, from, to, kind, at)
  PROVE  \E m \in messages' : m.thread_id = t /\ m.from_participant = from /\ m.kind = kind
<1> DEFINE m == [id |-> id, thread_id |-> t, from_participant |-> from,
                 to_participant |-> to, kind |-> kind, created_at |-> at]
<1>1. m \in messages'
  BY DEF Insert
<1>2. m.thread_id = t /\ m.from_participant = from /\ m.kind = kind
  OBVIOUS
<1> HIDE DEF m
<1>3. QED
  BY <1>1, <1>2

LEMMA LogGrows ==
  ASSUME NEW id, NEW t, NEW from, NEW to, NEW kind, NEW at,
         Insert(id, t, from, to, kind, at)
  PROVE  Log' = Log \cup {[id |-> id, thread |-> t, from |-> from, kind |-> kind]}
<1> DEFINE m == [id |-> id, thread_id |-> t, from_participant |-> from,
                 to_participant |-> to, kind |-> kind, created_at |-> at]
<1>1. messages' = messages \cup {m}
  BY DEF Insert
<1>2. Said(m) = [id |-> id, thread |-> t, from |-> from, kind |-> kind]
  BY DEF Said
<1> HIDE DEF m
<1>3. Log' = Log \cup {Said(m)}
  BY <1>1 DEF Log, Said
<1>4. QED
  BY <1>2, <1>3

\* A step that says, marks, closes and claims nothing is no step of the board.
LEMMA BoardStays ==
  ASSUME BoardInv, Grows, NEW r \in Request, Moves(r),
         messages' = messages, thread_recipients' = thread_recipients,
         \A t \in Thread : /\ threads'[t].status = threads[t].status
                           /\ threads'[t].created_by = threads[t].created_by
                           /\ threads'[t].claimed_by = threads[t].claimed_by
                           /\ threads'[t].claim_scope = threads[t].claim_scope,
         r \in Thread => pc'[r] # "ok" \/ pc[r] = "ok",
         Hurried' = Hurried
  PROVE  UNCHANGED Abstract!board
<1>1. \A t \in Thread : Exists(t)' => Exists(t)
  BY DEF Exists
<1>2. TypeInv
  BY DEF BoardInv, Base, HistInv
<1>3. Author' = Author /\ Owner' = Owner /\ Scope' = Scope /\ Recipients' = Recipients
  BY <1>1, RowsRead
<1>4. State' = State /\ Debts' = Debts /\ Settled' = Settled /\ Log' = Log
  BY <1>1, <1>2, StatusRead, DebtsRead, SettledSame DEF Log
<1>5. QED
  BY <1>3, <1>4 DEF Abstract!board

\* What a step of r leads to.
Advance == BoardInv' /\ [Abstract!Next]_(Abstract!board)

\* What is known before and after a step of r.
Ready(r) == /\ BoardInv /\ Base' /\ Grows /\ Moves(r)
            /\ TypeInv /\ TypeInv' /\ AckInv /\ AckInv' /\ r \in Request

\* A step that says, marks and closes nothing keeps the rest of the invariant.
LEMMA QuietInv ==
  ASSUME NEW r, Ready(r), messages' = messages, thread_recipients' = thread_recipients,
         \A t \in Thread : threads'[t].status = threads[t].status,
         r \in Reply \cup Ack => Facing(r)',
         r \in Ack => Turn(r)',
         r \in Thread => Reg(r)'
  PROVE  BoardInv'
<1>1. \A t \in Thread, n \in Name : thread_recipients[t][n] # "acked" => MarkedWell(t, n)'
  BY DEF MarkedWell
<1>2. \A t \in Thread : threads[t].status # "acked" => ClosedWell(t)'
  BY DEF ClosedWell
<1>3. QED
  BY <1>1, <1>2, InvStep DEF Ready

\* A step that says, marks, closes, claims and settles nothing is no step of the
\* board.
LEMMA QuietStep ==
  ASSUME NEW r, Ready(r), messages' = messages, thread_recipients' = thread_recipients,
         \A t \in Thread : /\ threads'[t].status = threads[t].status
                           /\ threads'[t].created_by = threads[t].created_by
                           /\ threads'[t].claimed_by = threads[t].claimed_by
                           /\ threads'[t].claim_scope = threads[t].claim_scope,
         r \in Reply \cup Ack => Facing(r)',
         r \in Ack => Turn(r)',
         r \in Thread => Reg(r)' /\ (pc'[r] # "ok" \/ pc[r] = "ok"),
         r \in Ack /\ Reads(r) => Reads(r)',
         r \in Ack /\ Reads(r)' => /\ Reads(r)
                                   /\ frame'[r].thread = frame[r].thread
                                   /\ frame'[r].extra = frame[r].extra
  PROVE  Advance
<1>1. BoardInv'
  BY QuietInv
<1>2. Hurried' = Hurried
  BY HurriedSame DEF Ready
<1>3. UNCHANGED Abstract!board
  BY <1>2, BoardStays DEF Ready
<1>4. QED
  BY <1>1, <1>3 DEF Advance

\* What a handler knows of its thread is to be checked before the step.
LEMMA HeadFrom ==
  ASSUME Grows, NEW r, NEW t \in Thread, Exists(t), frame'[r].thread = t,
         frame'[r].to \in Sides(t), frame'[r].extra \subseteq Posted(t),
         Stamped(r)' => frame'[r].caller \in Speakers(t)
  PROVE  Facing(r)'
<1>1. /\ threads'[t].created_by = threads[t].created_by
      /\ frame'[t].recipients = frame[t].recipients /\ frame'[t].to = frame[t].to
  BY DEF Grows
<1>2. QED
  BY <1>1 DEF Facing, Sides, Speakers, Posted

-----------------------------------------------------------------------------
(* The steps that are no steps of the board *)

\* A request turned away (schemas.py:29, api/threads.py:40) does nothing.
LEMMA TurnedBoard ==
  ASSUME NEW r, Ready(r), Turned(r)
  PROVE  Advance
<1>1. /\ pc'[r] \in {"400", "422"} /\ pc[r] = "idle"
      /\ UNCHANGED <<threads, messages, thread_recipients>>
  BY DEF Turned, TurnAway, At, Goto, Ready, TypeInv, TypeOK, tables
<1>2. Facing(r)' /\ Turn(r)' /\ Reg(r)'
  BY <1>1 DEF Facing, Turn, Reg, Found, Received
<1>3. ~Reads(r) /\ ~Reads(r)'
  BY <1>1 DEF Reads
<1>4. QED
  BY <1>1, <1>2, <1>3, QuietStep

\* Nor does one that is only received (api/threads.py:59).
LEMMA ReceiveThreadBoard ==
  ASSUME NEW t \in Thread, Ready(t), ReceiveThread(t)
  PROVE  Advance
<1>1. /\ pc'[t] = "create"
      /\ UNCHANGED <<threads, messages, thread_recipients>>
  BY DEF ReceiveThread, At, Goto, Ready, TypeInv, TypeOK, tables
<1>2. Reg(t)'
  BY <1>1 DEF Reg
<1>3. QED
  BY <1>1, <1>2, Kinds, QuietStep

\* A handler that dies (500 or a killed process) stays where it was.
LEMMA FailBoard ==
  ASSUME NEW r, Ready(r), Fail(r)
  PROVE  Advance
<1>1. UNCHANGED <<threads, messages, thread_recipients, pc, frame>>
  BY DEF Fail, tables
<1>2. \A t \in Thread : /\ Posted(t)' = Posted(t) /\ Owed(t)' = Owed(t)
                        /\ Sides(t)' = Sides(t) /\ Speakers(t)' = Speakers(t)
  BY <1>1 DEF Posted, Owed, Sides, Speakers
<1>3. r \in Reply \cup Ack => Facing(r)'
  BY <1>1 DEF Ready, BoardInv, Facing, Found, Received, Stamped, Sides, Speakers, Posted
<1>4. r \in Ack => Turn(r)'
  BY <1>1 DEF Ready, BoardInv, Turn, Logged, Owed, Posted
<1>5. r \in Thread => Reg(r)'
  BY <1>1 DEF Ready, BoardInv, Reg, Posted, list_recipients
<1>6. Reads(r)' <=> Reads(r)
  BY <1>1 DEF Reads
<1>7. QED
  BY <1>1, <1>3, <1>4, <1>5, <1>6, QuietStep

\* The discussion_type is none of the board's business (api/threads.py:72, 148).
LEMMA SetTypeBoard ==
  ASSUME NEW r \in Thread \cup Reply, Ready(r), SetType(r)
  PROVE  Advance
<1>1. /\ pc[r] = "type" /\ pc'[r] = IF r \in Thread THEN "add" ELSE "ok"
      /\ UNCHANGED <<messages, thread_recipients, frame>>
  BY DEF SetType, set_discussion_type, At, Goto, Ready, TypeInv, TypeOK
<1>2. \A t \in Thread : /\ threads'[t].status = threads[t].status
                        /\ threads'[t].created_by = threads[t].created_by
                        /\ threads'[t].claimed_by = threads[t].claimed_by
                        /\ threads'[t].claim_scope = threads[t].claim_scope
  BY DEF SetType, set_discussion_type, Ready, TypeInv, TypeOK, StoreTypeOK, ThreadRow
<1>3. ASSUME r \in Thread PROVE Reg(r)'
  <2>1. frame[r].next = 1
    BY <1>1, <1>3 DEF Ready, AckInv, LoopOK
  <2>2. QED
    BY <1>1, <1>3, <2>1 DEF Reg
<1>4. ASSUME r \in Reply PROVE Facing(r)'
  <2>1. Found(r) /\ Stamped(r)
    BY <1>1 DEF Found, Received, Stamped
  <2>2. PICK t \in Thread : t = frame[r].thread /\ Exists(t)
    BY <1>4, <2>1 DEF Ready, TypeInv, FramesOK
  <2>3. /\ frame[r].to \in Sides(t) /\ frame[r].extra \subseteq Posted(t)
        /\ frame[r].caller \in Speakers(t)
    BY <1>4, <2>1, <2>2 DEF Ready, BoardInv, Facing
  <2>4. QED
    BY <1>1, <2>2, <2>3, HeadFrom DEF Ready
<1>5. r \notin Ack /\ (r \in Thread => pc'[r] # "ok")
  BY <1>1, Kinds
<1>6. QED
  BY <1>1, <1>2, <1>3, <1>4, <1>5, Kinds, QuietStep

\* A handler reads its thread: the first message is one somebody said in it
\* (api/threads.py:111, 137).
LEMMA ReadThreadBoard ==
  ASSUME NEW r \in Reply \cup Ack, Ready(r), ReadThread(r)
  PROVE  Advance
<1>1. UNCHANGED <<threads, messages, thread_recipients>> /\ ~Reads(r)
  BY DEF ReadThread, At, Reads, tables
<1>2. PICK t \in Thread, f \in {frame'[r]} :
        /\ f.thread = t /\ f.extra = {}
        /\ \/ pc'[r] = "404"
           \/ /\ pc'[r] = "recipients"
              /\ \E m \in First(t) : f.to = m.to_participant
  BY DEF ReadThread, Goto, Locals, Ready, TypeInv, TypeOK
<1>3. pc'[r] \in {"404", "recipients"} /\ ~Reads(r)'
  BY <1>2 DEF Reads
<1>4. Facing(r)'
  <2>1. CASE pc'[r] = "404"
    BY <2>1 DEF Facing, Found, Received
  <2>2. CASE pc'[r] = "recipients"
    <3>1. PICK m \in messages : m.thread_id = t /\ f.to = m.to_participant
      BY <1>2, <2>2 DEF First, MessagesOf
    <3>2. Exists(t) /\ f.to \in Sides(t)
      BY <3>1 DEF Ready, BoardInv, Spoken, TypeInv, RowsOK
    <3>3. ~Stamped(r)'
      BY <2>2 DEF Stamped
    <3>4. QED
      BY <1>2, <3>2, <3>3, HeadFrom DEF Ready
  <2>3. QED
    BY <1>3, <2>1, <2>2
<1>5. Turn(r)'
  BY <1>3 DEF Turn
<1>6. QED
  BY <1>1, <1>3, <1>4, <1>5, Kinds, QuietStep

\* 403 (api/threads.py:122).
LEMMA RefuseBoard ==
  ASSUME NEW r \in Reply \cup Ack, Ready(r), Refuse(r)
  PROVE  Advance
<1>1. /\ UNCHANGED <<threads, messages, thread_recipients, frame>>
      /\ pc[r] = "resolve" /\ pc'[r] = "403"
  BY DEF Refuse, At, Goto, tables, Ready, TypeInv, TypeOK
<1>2. PICK t \in Thread : t = frame[r].thread /\ Exists(t)
  BY <1>1 DEF Ready, TypeInv, FramesOK, Found, Received
<1>3. frame[r].to \in Sides(t) /\ frame[r].extra \subseteq Posted(t)
  BY <1>1, <1>2 DEF Ready, BoardInv, Facing, Found, Received
<1>4. ~Stamped(r)'
  BY <1>1 DEF Stamped
<1>5. Facing(r)' /\ Turn(r)' /\ Reads(r) /\ Reads(r)'
  BY <1>1, <1>2, <1>3, <1>4, HeadFrom DEF Ready, Turn, Reads
<1>6. QED
  BY <1>1, <1>5, Kinds, QuietStep

\* Past _resolve_participants the caller is one who may speak, and writes to
\* one of the sides (api/threads.py:113-121).
LEMMA ResolveBoard ==
  ASSUME NEW r \in Reply \cup Ack, Ready(r), Resolve(r)
  PROVE  Advance
<1>1. /\ UNCHANGED <<threads, messages, thread_recipients>>
      /\ pc[r] = "resolve" /\ pc'[r] \in {"append", "insert", "append_ack"}
      /\ _resolve_participants(frame[r]) # None
  BY DEF Resolve, At, Goto, tables, Ready, TypeInv, TypeOK
<1>2. PICK t \in Thread : t = frame[r].thread /\ Exists(t)
  BY <1>1 DEF Ready, TypeInv, FramesOK, Found, Received
<1>3. frame[r].to \in Sides(t) /\ frame[r].extra \subseteq Posted(t)
  BY <1>1, <1>2 DEF Ready, BoardInv, Facing, Found, Received
<1>4. /\ frame'[r].thread = t /\ frame'[r].extra = frame[r].extra
      /\ frame'[r].caller = frame[r].caller
      /\ frame'[r].to = _resolve_participants(frame[r])
  BY <1>2 DEF Resolve, Ready, TypeInv, TypeOK, Frame
<1>5. Sides(t) \subseteq Speakers(t)
  BY <1>2, SidesSpeak DEF Ready, BoardInv, TypeInv, RowsOK
<1>6. frame[r].caller \in Speakers(t)
  BY <1>1, <1>2, <1>3, <1>5 DEF _resolve_participants, Speakers
<1>7. _resolve_participants(frame[r]) \in Sides(t)
  BY <1>1, <1>2, <1>3 DEF _resolve_participants, Sides
<1>8. Facing(r)'
  BY <1>2, <1>3, <1>4, <1>6, <1>7, HeadFrom DEF Ready
<1>9. Turn(r)' /\ Reads(r) /\ Reads(r)'
  BY <1>1 DEF Turn, Reads
<1>10. QED
  BY <1>1, <1>2, <1>4, <1>8, <1>9, Kinds, QuietStep

\* The count of the pending recipients (api/threads.py:214): an ack that read
\* all the recipients of the POST counts them all.
LEMMA CheckAllBoard ==
  ASSUME NEW r \in Ack, Ready(r), CheckAll(r)
  PROVE  Advance
<1>1. /\ UNCHANGED <<threads, messages, thread_recipients, frame>>
      /\ pc[r] = "check" /\ pc'[r] \in {"close", "ok"}
      /\ pc'[r] = "close" => Pending(frame[r].thread) = {}
  BY DEF CheckAll, all_recipients_acked, At, Goto, tables, Ready, TypeInv, TypeOK
<1>2. PICK t \in Thread : t = frame[r].thread /\ Exists(t)
  BY <1>1 DEF Ready, TypeInv, FramesOK, Found, Received
<1>3. /\ frame[r].to \in Sides(t) /\ frame[r].extra \subseteq Posted(t)
      /\ frame[r].caller \in Speakers(t)
  BY <1>1, <1>2 DEF Ready, BoardInv, Facing, Found, Received, Stamped
<1>4. Facing(r)'
  BY <1>1, <1>2, <1>3, HeadFrom DEF Ready
<1>5. Logged(t, frame[r].caller)
  BY <1>1, <1>2 DEF Ready, BoardInv, Turn
<1>6. ASSUME pc'[r] = "close", frame[r].extra = Posted(t) PROVE Owed(t) = {}
  <2>1. Posted(t) \subseteq list_recipients(t)
    BY <1>1, <1>2, <1>6 DEF Ready, AckInv, AcksOK, AckOK, Found, Received
  <2>2. Pending(t) = {} /\ \A n \in Name : thread_recipients[t][n] \in {"absent", "pending", "acked"}
    BY <1>1, <1>2, <1>6 DEF Ready, TypeInv, TypeOK, StoreTypeOK
  <2>3. QED
    BY <2>1, <2>2 DEF Owed, Pending, list_recipients
<1>7. Turn(r)'
  BY <1>1, <1>2, <1>5, <1>6 DEF Turn, Logged, Owed, Posted
<1>8. Reads(r) /\ Reads(r)'
  BY <1>1 DEF Reads
<1>9. QED
  BY <1>1, <1>4, <1>7, <1>8, Kinds, QuietStep

-----------------------------------------------------------------------------
(* The steps of the board *)

\* The loop of post_thread (api/threads.py:74) settles the thread when it ends.
LEMMA AddRecipientBoard ==
  ASSUME NEW t \in Thread, Ready(t), AddRecipient(t)
  PROVE  Advance
<1> USE DEF AddRecipient, add_recipient, At, Goto
<1>1. /\ UNCHANGED <<threads, messages>> /\ pc[t] = "add"
      /\ pc'[t] = IF frame[t].next < Len(frame[t].recipients) THEN "add" ELSE "ok"
      /\ frame'[t].next = frame[t].next + 1
      /\ frame'[t].recipients = frame[t].recipients
  BY DEF Ready, TypeInv, TypeOK, Frame
<1>2. /\ frame[t].next \in 1..Len(frame[t].recipients)
      /\ frame[t].recipients \in Seq(Name)
  BY <1>1 DEF Ready, AckInv, LoopOK, TypeInv, TypeOK, Frame
<1>3. \A u \in Thread, n \in Name : thread_recipients'[u][n] = "acked" =>
                                      thread_recipients[u][n] = "acked"
  BY DEF Ready, TypeInv, TypeOK, StoreTypeOK
<1>4. frame[t].recipients[frame[t].next] \in list_recipients(t)'
  BY <1>2 DEF Ready, TypeInv, TypeOK, StoreTypeOK, list_recipients
<1>5. list_recipients(t) \subseteq list_recipients(t)'
  BY DEF Ready, Grows, list_recipients
<1>6. \A i \in 1..frame[t].next : frame[t].recipients[i] \in list_recipients(t)'
  <2>1. \A i \in 1..frame[t].next : i = frame[t].next \/ i \in 1..(frame[t].next - 1)
    BY <1>2
  <2>2. \A i \in 1..(frame[t].next - 1) : frame[t].recipients[i] \in list_recipients(t)
    BY <1>1 DEF Ready, BoardInv, Reg
  <2>3. QED
    BY <1>4, <1>5, <2>1, <2>2
<1>7. Reg(t)'
  <2>1. CASE pc'[t] = "add"
    <3>1. frame'[t].next - 1 = frame[t].next
      BY <1>1, <1>2
    <3>2. QED
      BY <1>1, <1>6, <2>1, <3>1 DEF Reg
  <2>2. CASE pc'[t] = "ok"
    <3>1. DOMAIN frame[t].recipients = 1..frame[t].next
      BY <1>1, <1>2, <2>2
    <3>2. Posted(t)' \subseteq list_recipients(t)'
      BY <1>1, <1>6, <3>1 DEF Posted
    <3>3. QED
      BY <2>2, <3>2 DEF Reg
  <2>3. QED
    BY <1>1, <2>1, <2>2
<1>8. BoardInv'
  <2>1. \A u \in Thread, n \in Name : thread_recipients[u][n] # "acked" => MarkedWell(u, n)'
    BY <1>3 DEF MarkedWell
  <2>2. \A u \in Thread : threads[u].status # "acked" => ClosedWell(u)'
    BY <1>1 DEF ClosedWell
  <2>3. QED
    BY <1>1, <1>7, <2>1, <2>2, Kinds, InvStep DEF Ready
<1>9. /\ Author' = Author /\ Owner' = Owner /\ Scope' = Scope /\ Recipients' = Recipients
      /\ State' = State /\ Debts' = Debts /\ Log' = Log /\ Hurried' = Hurried
  <2>1. \A u \in Thread : Exists(u)' => Exists(u)
    BY <1>1 DEF Exists
  <2>2. Hurried' = Hurried
    BY Kinds, HurriedSame DEF Ready
  <2>3. QED
    BY <1>1, <1>3, <2>1, <2>2, RowsRead, StatusRead, DebtsRead DEF Ready, Log
<1>10. CASE pc'[t] = "add"
  <2>1. Settled' = Settled
    BY <1>10, SettledSame DEF Ready
  <2>2. QED
    BY <1>8, <1>9, <2>1 DEF Advance, Abstract!board
<1>11. CASE pc'[t] = "ok"
  <2>1. Settled' = Settled \cup {t}
    BY <1>11 DEF Settled, Ready, Moves, Request
  <2>2. State[t] # "absent"
    BY <1>1 DEF State, Ready, TypeInv, RowsOK, Exists, Received
  <2>3. Abstract!Settle(t)
    BY <1>9, <2>1, <2>2 DEF Abstract!Settle
  <2>4. QED
    BY <1>8, <2>3 DEF Advance, Abstract!Next
<1>12. QED
  BY <1>1, <1>10, <1>11

\* An ack that reads the recipients (api/threads.py:186) before post_thread has
\* registered them all overtakes it.
LEMMA ReadRecipientsBoard ==
  ASSUME NEW r \in Reply \cup Ack, Ready(r), ReadRecipients(r)
  PROVE  Advance
<1>1. /\ UNCHANGED <<threads, messages, thread_recipients>>
      /\ pc[r] = "recipients" /\ pc'[r] = "resolve"
      /\ frame'[r].extra = list_recipients(frame[r].thread)
      /\ frame'[r].thread = frame[r].thread /\ frame'[r].to = frame[r].to
  BY DEF ReadRecipients, At, Goto, tables, Ready, TypeInv, TypeOK, Frame
<1>2. PICK t \in Thread : t = frame[r].thread /\ Exists(t)
  BY <1>1 DEF Ready, TypeInv, FramesOK, Found, Received
<1>3. frame'[r].to \in Sides(t) /\ frame'[r].extra \subseteq Posted(t) /\ frame'[r].thread = t
  BY <1>1, <1>2 DEF Ready, BoardInv, Facing, Found, Received, AckInv, LoopOK
<1>4. Facing(r)' /\ Turn(r)'
  BY <1>1, <1>2, <1>3, HeadFrom DEF Ready, Turn, Stamped
<1>5. ~Reads(r) /\ Reads(r)'
  BY <1>1 DEF Reads
<1>6. CASE r \in Reply
  BY <1>1, <1>4, <1>6, Kinds, QuietStep
<1>7. CASE r \in Ack
  <2>1. BoardInv'
    BY <1>1, <1>4, Kinds, QuietInv
  <2>2. \A u \in Thread : Overtaken(u)' <=> \/ Overtaken(u)
                                            \/ u = t /\ frame'[r].extra # Posted(t)
    <3>1. \A u \in Thread : Overtaken(u) <=>
            \E q \in Ack : frame[q].thread = u /\ Reads(q) /\ frame[q].extra # Posted(u)
      BY DEF Overtaken, AcksOn, Reads
    <3>2. \A u \in Thread : Overtaken(u)' <=>
            \E q \in Ack : frame'[q].thread = u /\ Reads(q)' /\ frame'[q].extra # Posted(u)'
      BY DEF Overtaken, AcksOn, Reads
    <3>3. \A q \in Ack : q # r => /\ Reads(q)' <=> Reads(q)
                                  /\ frame'[q] = frame[q]
                                  /\ Reads(q) => Exists(frame[q].thread) /\ frame[q].thread \in Thread
      BY DEF Ready, Moves, Request, Reads, TypeInv, FramesOK, Found, Received
    <3>4. \A u \in Thread : Exists(u) => Posted(u)' = Posted(u)
      BY DEF Ready, Grows, Posted
    <3>5. QED
      BY <1>2, <1>3, <1>5, <1>7, <3>1, <3>2, <3>3, <3>4
  <2>3. CASE frame'[r].extra = Posted(t) \/ Overtaken(t)
    <3>1. Hurried' = Hurried
      BY <2>2, <2>3 DEF Hurried
    <3>2. UNCHANGED Abstract!board
      BY <1>1, <1>7, <3>1, Kinds, BoardStays DEF Ready
    <3>3. QED
      BY <2>1, <3>2 DEF Advance
  <2>4. CASE frame'[r].extra # Posted(t) /\ ~Overtaken(t)
    <3>1. Hurried' = Hurried \cup {t}
      BY <2>2, <2>4 DEF Hurried
    <3>2. t \notin Settled
      BY <1>1, <1>2, <1>3, <2>4 DEF Settled, Ready, BoardInv, Reg
    <3>3. State[t] # "absent"
      BY <1>2 DEF State, Exists
    <3>4. /\ Author' = Author /\ Owner' = Owner /\ Scope' = Scope /\ Recipients' = Recipients
          /\ State' = State /\ Debts' = Debts /\ Log' = Log /\ Settled' = Settled
      <4>1. \A u \in Thread : Exists(u)' => Exists(u)
        BY <1>1 DEF Exists
      <4>2. r \notin Thread
        BY <1>7, Kinds
      <4>3. QED
        BY <1>1, <4>1, <4>2, RowsRead, StatusRead, DebtsRead, SettledSame DEF Ready, Log
    <3>5. Abstract!Overtake(t)
      BY <3>1, <3>2, <3>3, <3>4 DEF Abstract!Overtake
    <3>6. QED
      BY <2>1, <3>5 DEF Advance, Abstract!Next
  <2>5. QED
    BY <2>3, <2>4
<1>8. QED
  BY <1>6, <1>7

\* The commit of a thread and its seed (store/threads.py:18) posts it.
LEMMA CreateThreadBoard ==
  ASSUME NEW t \in Thread, Ready(t), CreateThread(t)
  PROVE  Advance
<1>1. /\ UNCHANGED <<thread_recipients, frame>>
      /\ Insert(t, t, frame[t].caller, frame[t].to, "message", frame[t].created_at)
      /\ pc[t] = "create" /\ pc'[t] \in {"type", "add"}
      /\ threads'[t].status = "open" /\ threads'[t].created_by = frame[t].caller
      /\ threads'[t].claimed_by = None /\ threads'[t].claim_scope = None
      /\ \A u \in Thread : u # t => threads'[u] = threads[u]
  BY DEF CreateThread, create_thread, At, Goto, Ready, TypeInv, TypeOK, StoreTypeOK
<1>2. /\ frame[t].next = 1 /\ frame[t].caller \in Name
      /\ list_recipients(t) = {} /\ threads[t] = NoThread
  <2>1. Received(t) /\ ~Exists(t)
    BY <1>1 DEF Ready, TypeInv, RowsOK, Received
  <2>2. QED
    BY <1>1, <2>1 DEF Ready, TypeInv, FramesOK, AckInv, LoopOK, BoardInv, Base, HistInv, Blank
<1>3. Posted(t) \subseteq Name /\ Posted(t)' = Posted(t)
  <2>1. frame[t].recipients \in Seq(Name)
    BY DEF Ready, TypeInv, TypeOK, Frame
  <2>2. QED
    BY <1>1, <2>1 DEF Posted
<1>4. Owed(t)' = Posted(t)
  <2>1. \A n \in Name : thread_recipients[t][n] = "absent"
    BY <1>2 DEF list_recipients
  <2>2. QED
    BY <1>1, <1>3, <2>1 DEF Owed
<1>5. BoardInv'
  <2>1. Reg(t)'
    BY <1>1, <1>2 DEF Reg
  <2>2. \A x \in messages' : x \notin messages => Spoken(x)'
    BY <1>1 DEF Insert, Spoken, Speakers, Sides
  <2>3. \A u \in Thread, n \in Name : thread_recipients[u][n] # "acked" => MarkedWell(u, n)'
    BY <1>1 DEF MarkedWell
  <2>4. \A u \in Thread : threads[u].status # "acked" => ClosedWell(u)'
    BY <1>1 DEF ClosedWell
  <2>5. QED
    BY <2>1, <2>2, <2>3, <2>4, Kinds, InvStep DEF Ready
<1>6. ~Exists(t) /\ Exists(t)' /\ \A u \in Thread : u # t => (Exists(u)' <=> Exists(u))
  BY <1>1, <1>2 DEF Exists, NoThread
<1>7. \A u \in Thread : u # t => Posted(u)' = Posted(u) /\ Owed(u)' = Owed(u)
  BY <1>1 DEF Posted, Owed
<1>8. /\ State' = [State EXCEPT ![t] = "open"]
      /\ Author' = [Author EXCEPT ![t] = frame[t].caller]
      /\ Owner' = Owner /\ Scope' = Scope
  <2>1. threads[t].claimed_by = None /\ threads[t].claim_scope = None
    BY <1>2 DEF NoThread
  <2>2. State' = [State EXCEPT ![t] = "open"]
    BY <1>1 DEF State
  <2>3. Author' = [Author EXCEPT ![t] = frame[t].caller]
    BY <1>1 DEF Author
  <2>4. Owner' = Owner /\ Scope' = Scope
    <3>1. \A u \in Thread : /\ threads'[u].claimed_by = threads[u].claimed_by
                            /\ threads'[u].claim_scope = threads[u].claim_scope
      BY <1>1, <2>1
    <3>2. QED
      BY <3>1 DEF Owner, Scope
  <2>5. QED
    BY <2>2, <2>3, <2>4
<1>9. /\ Recipients' = [Recipients EXCEPT ![t] = Posted(t)]
      /\ Debts' = [Debts EXCEPT ![t] = Posted(t)]
  <2>1. /\ Recipients' = [u \in Thread |-> IF Exists(u)' THEN Posted(u)' ELSE {}]
        /\ Debts' = [u \in Thread |-> IF Exists(u)' THEN Owed(u)' ELSE {}]
    BY DEF Recipients, Debts
  <2>2. QED
    BY <1>3, <1>4, <1>6, <1>7, <2>1 DEF Recipients, Debts
<1>10. /\ Settled' = Settled /\ Hurried' = Hurried
       /\ Log' = Log \cup {[id |-> t, thread |-> t, from |-> frame[t].caller,
                            kind |-> "message"]}
  BY <1>1, Kinds, SettledSame, HurriedSame, LogGrows DEF Ready
<1>11. State[t] = "absent"
  BY <1>2 DEF State, NoThread
<1>12. Abstract!Post(t, t, frame[t].caller, Posted(t))
  BY <1>8, <1>9, <1>10, <1>11 DEF Abstract!Post, Abstract!Enter
<1>13. QED
  BY <1>2, <1>3, <1>5, <1>12 DEF Advance, Abstract!Next

\* A row of a reply or an ack that closes nothing is somebody saying something.
LEMMA SayBoard ==
  ASSUME NEW r \in Reply \cup Ack, Ready(r), NEW t \in Thread, t = frame[r].thread,
         Stamped(r), Exists(t), NEW kind \in {"message", "ack"},
         Insert(r, t, frame[r].caller, frame[r].to, kind, frame[r].created_at),
         thread_recipients' = thread_recipients, frame' = frame,
         \A u \in Thread : /\ threads'[u].status = threads[u].status
                           /\ threads'[u].created_by = threads[u].created_by
                           /\ threads'[u].claimed_by = threads[u].claimed_by
                           /\ threads'[u].claim_scope = threads[u].claim_scope,
         Reads(r), Reads(r)', r \in Ack => Turn(r)'
  PROVE  Advance
<1>1. /\ frame[r].to \in Sides(t) /\ frame[r].extra \subseteq Posted(t)
      /\ frame[r].caller \in Speakers(t) /\ frame[r].caller \in Name
  BY DEF Ready, BoardInv, Facing, Stamped, TypeInv, FramesOK
<1>2. Facing(r)'
  BY <1>1, HeadFrom DEF Ready
<1>3. BoardInv'
  <2>1. Sides(t)' = Sides(t) /\ Speakers(t)' = Speakers(t)
    BY DEF Sides, Speakers, Posted
  <2>2. \A x \in messages' : x \notin messages => Spoken(x)'
    BY <1>1, <2>1 DEF Insert, Spoken
  <2>3. \A u \in Thread, n \in Name : thread_recipients[u][n] # "acked" => MarkedWell(u, n)'
    BY DEF MarkedWell
  <2>4. \A u \in Thread : threads[u].status # "acked" => ClosedWell(u)'
    BY DEF ClosedWell
  <2>5. QED
    BY <1>2, <2>2, <2>3, <2>4, Kinds, InvStep DEF Ready
<1>4. /\ Author' = Author /\ Owner' = Owner /\ Scope' = Scope /\ Recipients' = Recipients
      /\ State' = State /\ Debts' = Debts /\ Settled' = Settled /\ Hurried' = Hurried
  <2>1. \A u \in Thread : Exists(u)' => Exists(u)
    BY DEF Exists
  <2>2. QED
    BY <2>1, Kinds, RowsRead, StatusRead, DebtsRead, SettledSame, HurriedSame DEF Ready
<1>5. Log' = Log \cup {[id |-> r, thread |-> t, from |-> frame[r].caller, kind |-> kind]}
  BY LogGrows
<1>6. State[t] # "absent" /\ frame[r].caller \in Abstract!Participants(t)
  BY <1>1 DEF State, Author, Recipients, Speakers, Abstract!Participants, Exists
<1>7. Abstract!Say(t, r, frame[r].caller, kind)
  BY <1>4, <1>5, <1>6 DEF Abstract!Say, Abstract!Enter
<1>8. QED
  BY <1>1, <1>3, <1>7 DEF Advance, Abstract!Next

\* append_message (store/messages.py:50).
LEMMA AppendMessageBoard ==
  ASSUME NEW r \in Reply, Ready(r), AppendMessage(r)
  PROVE  Advance
<1>1. pc[r] = "append" /\ pc'[r] \in {"ok", "type"}
  BY DEF AppendMessage, At, Goto, Ready, TypeInv, TypeOK
<1>2. Stamped(r) /\ Reads(r) /\ Reads(r)'
  BY <1>1 DEF Stamped, Found, Received, Reads
<1>3. PICK t \in Thread : t = frame[r].thread /\ Exists(t)
  BY <1>2 DEF Ready, TypeInv, FramesOK, Stamped
<1>4. \A u \in Thread : /\ threads'[u].status = threads[u].status
                        /\ threads'[u].created_by = threads[u].created_by
                        /\ threads'[u].claimed_by = threads[u].claimed_by
                        /\ threads'[u].claim_scope = threads[u].claim_scope
  BY <1>3 DEF AppendMessage, append_message, Ready, TypeInv, TypeOK, StoreTypeOK, ThreadRow
<1>5. QED
  BY <1>2, <1>3, <1>4, Kinds, SayBoard DEF AppendMessage, append_message

\* The INSERT of post_ack's broadcast branch (api/threads.py:203).
LEMMA InsertAckBoard ==
  ASSUME NEW r \in Ack, Ready(r), InsertAck(r)
  PROVE  Advance
<1>1. pc[r] = "insert" /\ pc'[r] = "mark" /\ frame' = frame
  BY DEF InsertAck, At, Goto, Ready, TypeInv, TypeOK
<1>2. Stamped(r) /\ Reads(r) /\ Reads(r)'
  BY <1>1 DEF Stamped, Found, Received, Reads
<1>3. PICK t \in Thread : t = frame[r].thread /\ Exists(t)
  BY <1>2 DEF Ready, TypeInv, FramesOK, Stamped
<1>4. \A u \in Thread : /\ threads'[u].status = threads[u].status
                        /\ threads'[u].created_by = threads[u].created_by
                        /\ threads'[u].claimed_by = threads[u].claimed_by
                        /\ threads'[u].claim_scope = threads[u].claim_scope
  BY <1>3 DEF InsertAck, insert_ack, Ready, TypeInv, TypeOK, StoreTypeOK, ThreadRow
<1>5. Turn(r)'
  <2>1. \E m \in messages' : /\ m.thread_id = t /\ m.from_participant = frame[r].caller
                             /\ m.kind = "ack"
    <3>1. Insert(r, t, frame[r].caller, frame[r].to, "ack", frame[r].created_at)
      BY <1>3 DEF InsertAck, insert_ack
    <3>2. QED
      BY <3>1, InsertShows
  <2>2. QED
    BY <1>1, <1>3, <2>1 DEF Turn, Logged
<1>6. QED
  BY <1>1, <1>2, <1>3, <1>4, <1>5, SayBoard DEF InsertAck, insert_ack

\* A mark (store/recipients.py:18) follows the ack it stands for.
LEMMA MarkRecipientBoard ==
  ASSUME NEW r \in Ack, Ready(r), MarkRecipient(r)
  PROVE  Advance
<1>1. /\ UNCHANGED <<threads, messages, frame>> /\ pc[r] = "mark" /\ pc'[r] = "check"
  BY DEF MarkRecipient, mark_recipient_acked, At, Goto, Ready, TypeInv, TypeOK
<1>2. PICK t \in Thread, n \in Name :
        /\ t = frame[r].thread /\ n = frame[r].caller /\ Exists(t)
        /\ frame[r].extra \subseteq list_recipients(t)
  BY <1>1, AckLocals DEF Ready
<1>3. n \in frame[r].extra /\ n \in Posted(t)
  BY <1>1, <1>2 DEF Ready, AckInv, AcksOK, AckOK, ActsAlone, LoopOK
<1>4. thread_recipients[t][n] # "absent"
  BY <1>2, <1>3 DEF list_recipients
<1>5. /\ thread_recipients'[t][n] = "acked"
      /\ \A u \in Thread, o \in Name : u # t \/ o # n =>
           thread_recipients'[u][o] = thread_recipients[u][o]
  BY <1>2, <1>4 DEF MarkRecipient, mark_recipient_acked, Ready, TypeInv, TypeOK, StoreTypeOK
<1>6. Logged(t, n) /\ (\A u \in Thread, o \in Name : Logged(u, o)' <=> Logged(u, o))
  BY <1>1, <1>2 DEF Ready, BoardInv, Turn, Logged
<1>7. BoardInv'
  <2>1. /\ frame[r].to \in Sides(t) /\ frame[r].extra \subseteq Posted(t)
        /\ frame[r].caller \in Speakers(t)
    BY <1>1, <1>2 DEF Ready, BoardInv, Facing, Found, Received, Stamped
  <2>2. Facing(r)'
    BY <1>1, <1>2, <2>1, HeadFrom DEF Ready
  <2>3. Turn(r)'
    <3>1. \E m \in messages' : m.thread_id = t /\ m.from_participant = n /\ m.kind = "ack"
      BY <1>1, <1>6 DEF Logged
    <3>2. QED
      BY <1>1, <1>2, <3>1 DEF Turn, Logged
  <2>4. \A u \in Thread, o \in Name : thread_recipients[u][o] # "acked" => MarkedWell(u, o)'
    BY <1>5, <1>6 DEF MarkedWell
  <2>5. \A u \in Thread : threads[u].status # "acked" => ClosedWell(u)'
    BY <1>1 DEF ClosedWell
  <2>6. QED
    BY <1>1, <2>2, <2>3, <2>4, <2>5, Kinds, InvStep DEF Ready
<1>8. /\ Author' = Author /\ Owner' = Owner /\ Scope' = Scope /\ Recipients' = Recipients
      /\ State' = State /\ Settled' = Settled /\ Hurried' = Hurried /\ Log' = Log
  <2>1. Reads(r) /\ Reads(r)'
    BY <1>1 DEF Reads
  <2>2. Hurried' = Hurried
    BY <1>1, <2>1, HurriedSame DEF Ready
  <2>3. \A u \in Thread : Exists(u)' => Exists(u)
    BY <1>1 DEF Exists
  <2>4. QED
    BY <1>1, <2>2, <2>3, Kinds, RowsRead, StatusRead, SettledSame DEF Ready, Log
<1>9. CASE thread_recipients[t][n] = "acked"
  <2>1. \A u \in Thread, o \in Name : thread_recipients'[u][o] = "acked" =>
                                        thread_recipients[u][o] = "acked"
    BY <1>5, <1>9
  <2>2. Debts' = Debts
    BY <1>1, <2>1, DebtsRead DEF Ready, Exists
  <2>3. QED
    BY <1>7, <1>8, <2>2 DEF Advance, Abstract!board
<1>10. CASE thread_recipients[t][n] # "acked"
  <2>1. n \in Owed(t) /\ Owed(t)' = Owed(t) \ {n}
    <3>1. Posted(t)' = Posted(t) /\ Posted(t) \subseteq Name
      BY <1>2, Persist DEF Ready
    <3>2. QED
      BY <1>3, <1>5, <1>10, <3>1 DEF Owed
  <2>2. \A u \in Thread : u # t /\ Exists(u) => Owed(u)' = Owed(u)
    <3>1. \A u \in Thread : Exists(u) => Posted(u)' = Posted(u) /\ Posted(u) \subseteq Name
      BY Persist DEF Ready
    <3>2. QED
      BY <1>5, <3>1 DEF Owed
  <2>3. Debts' = [Debts EXCEPT ![t] = @ \ {n}] /\ n \in Debts[t]
    <3>1. Debts' = [u \in Thread |-> IF Exists(u)' THEN Owed(u)' ELSE {}]
      BY DEF Debts
    <3>2. \A u \in Thread : Exists(u)' <=> Exists(u)
      BY <1>1 DEF Exists
    <3>3. QED
      BY <1>2, <2>1, <2>2, <3>1, <3>2 DEF Debts
  <2>4. \E e \in Log : e.thread = t /\ e.from = n /\ e.kind = "ack"
    <3>1. PICK m \in messages : m.thread_id = t /\ m.from_participant = n /\ m.kind = "ack"
      BY <1>6 DEF Logged
    <3>2. Said(m) \in Log
      BY DEF Log
    <3>3. QED
      BY <3>1, <3>2 DEF Said
  <2>5. Abstract!Discharge(t, n)
    BY <1>8, <2>3, <2>4 DEF Abstract!Discharge
  <2>6. QED
    BY <1>7, <2>5 DEF Advance, Abstract!Next
<1>11. QED
  BY <1>9, <1>10

\* An ack that acts alone (store/messages.py:91) dismisses the thread: it is the
\* creator's, or its sender was not among the recipients it read.
LEMMA AppendAckBoard ==
  ASSUME NEW r \in Ack, Ready(r), AppendAck(r)
  PROVE  Advance
<1>1. /\ UNCHANGED <<thread_recipients, frame>> /\ pc[r] = "append_ack" /\ pc'[r] = "ok"
  BY DEF AppendAck, append_ack, At, Goto, Ready, TypeInv, TypeOK
<1>2. PICK t \in Thread, n \in Name :
        /\ t = frame[r].thread /\ n = frame[r].caller /\ Exists(t)
        /\ n \notin frame[r].extra
  BY <1>1, AckLocals DEF Ready, AckInv, AcksOK, AckOK, ActsAlone
<1>3. Insert(r, t, n, frame[r].to, "ack", frame[r].created_at)
  BY <1>2 DEF AppendAck, append_ack
<1>4. /\ threads'[t].status = "acked"
      /\ \A u \in Thread : /\ u # t => threads'[u].status = threads[u].status
                           /\ threads'[u].created_by = threads[u].created_by
                           /\ threads'[u].claimed_by = threads[u].claimed_by
                           /\ threads'[u].claim_scope = threads[u].claim_scope
  BY <1>2 DEF AppendAck, append_ack, Ready, TypeInv, TypeOK, StoreTypeOK, ThreadRow
<1>5. /\ frame[r].to \in Sides(t) /\ frame[r].extra \subseteq Posted(t)
      /\ n \in Speakers(t)
  BY <1>1, <1>2 DEF Ready, BoardInv, Facing, Found, Received, Stamped
<1>6. n = threads[t].created_by \/ (n \in Posted(t) /\ frame[r].extra # Posted(t))
  BY <1>2, <1>5 DEF Speakers
<1>7. Sides(t)' = Sides(t) /\ Speakers(t)' = Speakers(t) /\ Posted(t)' = Posted(t)
  BY <1>1, <1>4 DEF Sides, Speakers, Posted
<1>8. BoardInv'
  <2>1. Facing(r)' /\ Turn(r)'
    BY <1>1, <1>2, <1>5, HeadFrom DEF Ready, Turn
  <2>2. \A m \in messages' : m \notin messages => Spoken(m)'
    BY <1>3, <1>5, <1>7 DEF Insert, Spoken
  <2>3. \A u \in Thread, o \in Name : thread_recipients[u][o] # "acked" => MarkedWell(u, o)'
    BY <1>1 DEF MarkedWell
  <2>4. Logged(t, n)'
    BY <1>3, InsertShows DEF Logged
  <2>5. Hasty(t)'
    BY <1>1, <1>2, <1>4, <1>6, <1>7 DEF Hasty, AcksOn, ActsAlone
  <2>6. \A u \in Thread : threads[u].status # "acked" => ClosedWell(u)'
    BY <1>4, <2>4, <2>5 DEF ClosedWell
  <2>7. QED
    BY <1>1, <2>1, <2>2, <2>3, <2>6, Kinds, InvStep DEF Ready
<1>9. /\ Author' = Author /\ Owner' = Owner /\ Scope' = Scope /\ Recipients' = Recipients
      /\ Debts' = Debts /\ Settled' = Settled /\ Hurried' = Hurried
  <2>1. Reads(r) /\ Reads(r)'
    BY <1>1 DEF Reads
  <2>2. \A u \in Thread : Exists(u)' => Exists(u)
    BY <1>2, <1>4 DEF Exists
  <2>3. Hurried' = Hurried
    BY <1>1, <2>1, HurriedSame DEF Ready
  <2>4. QED
    BY <1>1, <1>4, <2>2, <2>3, Kinds, RowsRead, DebtsRead, SettledSame DEF Ready
<1>10. State' = [State EXCEPT ![t] = "acked"] /\ State[t] # "absent"
  BY <1>2, <1>4 DEF State, Exists
<1>11. Log' = Log \cup {[id |-> r, thread |-> t, from |-> n, kind |-> "ack"]}
  BY <1>3, LogGrows
<1>12. n = Author[t] \/ (n \in Recipients[t] /\ t \in Hurried)
  <2>1. frame[r].extra # Posted(t) => Overtaken(t)
    BY <1>1, <1>2 DEF Overtaken, AcksOn
  <2>2. QED
    BY <1>2, <1>6, <2>1 DEF Author, Recipients, Hurried
<1>13. Abstract!Dismiss(t, r, n)
  BY <1>9, <1>10, <1>11, <1>12 DEF Abstract!Dismiss, Abstract!Enter
<1>14. QED
  BY <1>8, <1>13 DEF Advance, Abstract!Next

\* The flip after the check (api/threads.py:215) closes a thread nobody owes an
\* acknowledgement, or one whose posting was overtaken.
LEMMA CloseThreadBoard ==
  ASSUME NEW r \in Ack, Ready(r), CloseThread(r)
  PROVE  Advance
<1>1. /\ UNCHANGED <<messages, thread_recipients, frame>> /\ pc[r] = "close" /\ pc'[r] = "ok"
  BY DEF CloseThread, update_thread_status, At, Goto, Ready, TypeInv, TypeOK
<1>2. PICK t \in Thread, n \in Name :
        /\ t = frame[r].thread /\ n = frame[r].caller /\ Exists(t)
        /\ threads[t].status \in {"open", "acked"}
  BY <1>1, AckLocals DEF Ready
<1>3. /\ threads'[t].status = "acked"
      /\ \A u \in Thread : /\ u # t => threads'[u].status = threads[u].status
                           /\ threads'[u].created_by = threads[u].created_by
                           /\ threads'[u].claimed_by = threads[u].claimed_by
                           /\ threads'[u].claim_scope = threads[u].claim_scope
  BY <1>2 DEF CloseThread, update_thread_status, Ready, TypeInv, TypeOK, StoreTypeOK, ThreadRow
<1>4. /\ frame[r].to \in Sides(t) /\ frame[r].extra \subseteq Posted(t)
      /\ n \in Speakers(t)
  BY <1>1, <1>2 DEF Ready, BoardInv, Facing, Found, Received, Stamped
<1>5. Logged(t, n) /\ (Owed(t) = {} \/ frame[r].extra # Posted(t))
  BY <1>1, <1>2 DEF Ready, BoardInv, Turn
<1>6. Posted(t)' = Posted(t) /\ Owed(t)' = Owed(t) /\ Logged(t, n)'
  BY <1>1, <1>5 DEF Posted, Owed, Logged
<1>7. BoardInv'
  <2>1. Facing(r)' /\ Turn(r)'
    BY <1>1, <1>2, <1>4, HeadFrom DEF Ready, Turn
  <2>2. \A u \in Thread, o \in Name : thread_recipients[u][o] # "acked" => MarkedWell(u, o)'
    BY <1>1 DEF MarkedWell
  <2>3. Owed(t)' # {} => Hasty(t)'
    BY <1>1, <1>2, <1>5, <1>6 DEF Hasty, AcksOn
  <2>4. \A u \in Thread : threads[u].status # "acked" => ClosedWell(u)'
    BY <1>3, <1>6, <2>3 DEF ClosedWell
  <2>5. QED
    BY <1>1, <2>1, <2>2, <2>4, Kinds, InvStep DEF Ready
<1>8. /\ Author' = Author /\ Owner' = Owner /\ Scope' = Scope /\ Recipients' = Recipients
      /\ Debts' = Debts /\ Settled' = Settled /\ Hurried' = Hurried /\ Log' = Log
  <2>1. Reads(r) /\ Reads(r)'
    BY <1>1 DEF Reads
  <2>2. \A u \in Thread : Exists(u)' => Exists(u)
    BY <1>2, <1>3 DEF Exists
  <2>3. Hurried' = Hurried
    BY <1>1, <2>1, HurriedSame DEF Ready
  <2>4. QED
    BY <1>1, <1>3, <2>2, <2>3, Kinds, RowsRead, DebtsRead, SettledSame DEF Ready, Log
<1>9. CASE threads[t].status = "acked"
  <2>1. State' = State
    BY <1>3, <1>9 DEF State
  <2>2. QED
    BY <1>7, <1>8, <2>1 DEF Advance, Abstract!board
<1>10. CASE threads[t].status = "open"
  <2>1. State[t] = "open" /\ State' = [State EXCEPT ![t] = "acked"]
    BY <1>3, <1>10 DEF State
  <2>2. Debts[t] = {} \/ t \in Hurried
    <3>1. frame[r].extra # Posted(t) => Overtaken(t)
      BY <1>1, <1>2 DEF Overtaken, AcksOn
    <3>2. QED
      BY <1>2, <1>5, <3>1 DEF Debts, Hurried
  <2>3. Abstract!Close(t)
    BY <1>8, <2>1, <2>2 DEF Abstract!Close
  <2>4. QED
    BY <1>7, <2>3 DEF Advance, Abstract!Next
<1>11. QED
  BY <1>2, <1>9, <1>10

\* The UPDATE of a claim (store/threads.py:243) takes an unclaimed thread, once.
LEMMA PostClaimBoard ==
  ASSUME NEW c \in Claim, Ready(c), PostClaim(c)
  PROVE  Advance
<1>1. UNCHANGED <<messages, thread_recipients>>
  BY DEF PostClaim, set_claim
<1>2. PICK n \in Name, t \in Thread :
        /\ \A u \in Thread : u # t => threads'[u] = threads[u]
        /\ IF Exists(t) /\ threads[t].claimed_by = None
             THEN threads'[t] = [[threads[t] EXCEPT !.claimed_by = n]
                                   EXCEPT !.claim_scope = c]
             ELSE threads'[t] = threads[t]
  <2>1. PICK n \in Name, t \in Thread : ClaimOutcome(c, n, t)
    BY ClaimStep DEF Ready, BoardInv, Base
  <2>2. QED
    BY <2>1 DEF ClaimOutcome
<1>3. threads[t] \in ThreadRow
  BY DEF Ready, TypeInv, TypeOK, StoreTypeOK
<1>4. c \notin Reply \cup Ack /\ c \notin Thread
  BY Kinds
<1>5. CASE ~(Exists(t) /\ threads[t].claimed_by = None)
  <2>1. \A u \in Thread : /\ threads'[u].status = threads[u].status
                          /\ threads'[u].created_by = threads[u].created_by
                          /\ threads'[u].claimed_by = threads[u].claimed_by
                          /\ threads'[u].claim_scope = threads[u].claim_scope
    BY <1>2, <1>5
  <2>2. QED
    BY <1>1, <1>4, <2>1, QuietStep
<1>6. CASE Exists(t) /\ threads[t].claimed_by = None
  <2>1. /\ threads'[t].claimed_by = n /\ threads'[t].claim_scope = c
        /\ \A u \in Thread : u # t => threads'[u] = threads[u]
        /\ \A u \in Thread : /\ threads'[u].status = threads[u].status
                             /\ threads'[u].created_by = threads[u].created_by
    BY <1>2, <1>3, <1>6 DEF ThreadRow
  <2>2. BoardInv'
    BY <1>1, <1>4, <2>1, QuietInv
  <2>3. Owner' = [Owner EXCEPT ![t] = n] /\ Scope' = [Scope EXCEPT ![t] = c]
    BY <2>1 DEF Owner, Scope
  <2>4. Author' = Author /\ State' = State /\ Log' = Log
    BY <1>1, <2>1 DEF Author, State, Log
  <2>5. \A u \in Thread : /\ Exists(u)' <=> Exists(u)
                          /\ Exists(u) => Posted(u)' = Posted(u)
    BY <2>1 DEF Ready, Grows, Exists, Posted
  <2>6. Recipients' = Recipients
    BY <2>5 DEF Recipients
  <2>7. Debts' = Debts /\ Settled' = Settled /\ Hurried' = Hurried
    BY <1>1, <1>4, <2>5, DebtsRead, SettledSame, HurriedSame DEF Ready
  <2>8. State[t] # "absent" /\ Owner[t] = None
    BY <1>6 DEF State, Owner, Exists
  <2>9. Abstract!Take(t, n, c)
    BY <2>3, <2>4, <2>6, <2>7, <2>8 DEF Abstract!Take
  <2>10. QED
    BY <2>2, <2>9 DEF Advance, Abstract!Next
<1>7. QED
  BY <1>5, <1>6

-----------------------------------------------------------------------------
(* The theorems *)

\* Every step of the handlers is a step of the board, or none.
LEMMA BoardStep == BoardInv /\ [Motion]_vars => Advance
<1> SUFFICES ASSUME BoardInv, [Motion]_vars PROVE Advance
  OBVIOUS
<1>1. CASE UNCHANGED vars
  <2>1. UNCHANGED <<threads, messages, thread_recipients, pc, frame>>
    BY <1>1 DEF vars
  <2>2. Base'
    BY <1>1, AckInvStep, HistoryStep DEF BoardInv, Base
  <2>3. \A t \in Thread : Exists(t)' <=> Exists(t)
    BY <2>1 DEF Exists
  <2>4. UNCHANGED Abstract!board
    BY <2>1 DEF Abstract!board, State, Author, Recipients, Debts, Settled, Hurried, Owner,
       Scope, Log, Overtaken, AcksOn, Owed, Posted, Exists
  <2>5. \A t \in Thread : Reg(t)' /\ ClosedWell(t)' /\ \A n \in Name : MarkedWell(t, n)'
    BY <2>1 DEF BoardInv, Reg, ClosedWell, MarkedWell, Logged, Hasty, Posted, Owed, AcksOn,
       ActsAlone, list_recipients
  <2>6. \A r \in Reply \cup Ack : Facing(r)'
    BY <2>1 DEF BoardInv, Facing, Found, Received, Stamped, Sides, Speakers, Posted
  <2>7. \A r \in Ack : Turn(r)'
    BY <2>1 DEF BoardInv, Turn, Logged, Owed, Posted
  <2>8. \A m \in messages' : Spoken(m)'
    BY <2>1 DEF BoardInv, Spoken, Speakers, Sides, Posted
  <2>9. QED
    BY <2>2, <2>4, <2>5, <2>6, <2>7, <2>8 DEF Advance, BoardInv
<1>2. ASSUME NEW r \in Request, Comes(r) \/ Step(r) \/ Fail(r) PROVE Advance
  <2>1. Ready(r)
    BY <1>2, Growth DEF Ready, BoardInv, Base, HistInv
  <2>2. CASE Comes(r)
    BY <2>1, <2>2, TurnedBoard, ReceiveThreadBoard, ReadThreadBoard, PostClaimBoard DEF Comes
  <2>3. CASE Fail(r)
    BY <2>1, <2>3, FailBoard
  <2>4. CASE Step(r)
    BY <2>1, <2>4, CreateThreadBoard, AddRecipientBoard, SetTypeBoard, ReadRecipientsBoard,
       RefuseBoard, ResolveBoard, AppendMessageBoard, AppendAckBoard, InsertAckBoard,
       MarkRecipientBoard, CheckAllBoard, CloseThreadBoard DEF Step
  <2>5. QED
    BY <1>2, <2>2, <2>3, <2>4
<1>3. QED
  BY <1>1, <1>2 DEF Motion

\* What the board's invariant says of the handlers' own state.
LEMMA BoardInvImplies ==
  BoardInv => /\ EarlyCloseExplained /\ AcksAreLogged
              /\ RecipientsRegistered /\ OnlyParticipantsPost
<1> SUFFICES ASSUME BoardInv
             PROVE  /\ EarlyCloseExplained /\ AcksAreLogged
                    /\ RecipientsRegistered /\ OnlyParticipantsPost
  OBVIOUS
<1>1. LoopOK
  BY DEF BoardInv, Base, AckInv
<1>2. EarlyCloseExplained
  <2>1. ASSUME NEW t \in Thread, threads[t].status = "acked", Pending(t) # {}
        PROVE  Hasty(t)
    <3>1. PICK n \in Name : thread_recipients[t][n] = "pending"
      BY <2>1 DEF Pending
    <3>2. n \in Owed(t)
      BY <1>1, <3>1 DEF LoopOK, list_recipients, Owed
    <3>3. QED
      BY <2>1, <3>2 DEF BoardInv, ClosedWell
  <2>2. QED
    BY <2>1 DEF EarlyCloseExplained, Hasty
<1>3. AcksAreLogged
  BY DEF BoardInv, ClosedWell, MarkedWell, Logged, AcksAreLogged, MessagesOf
<1>4. RecipientsRegistered
  BY <1>1 DEF BoardInv, Reg, LoopOK, RecipientsRegistered
<1>5. OnlyParticipantsPost
  BY DEF BoardInv, Spoken, Speakers, Sides, OnlyParticipantsPost
<1>6. QED
  BY <1>2, <1>3, <1>4, <1>5

\* The board's invariant holds of every behaviour of the handlers, and every
\* such behaviour is one of the board.
THEOREM BoardInvariant == Spec => []BoardInv
<1>1. Init => BoardInv
  BY InitBoardInv
<1>2. BoardInv /\ [Motion]_vars => BoardInv'
  BY BoardStep DEF Advance
<1>3. QED
  BY <1>1, <1>2, NextIsMotion, PTL DEF Spec

\* The handlers implement the board (api/threads.py:49-239): threads are closed
\* over a recipient only by their author or by an ack that overtook the POST.
THEOREM Implementation == Spec => ImplementsBoard
<1>1. Init => Abstract!Init
  BY InitBoardInv
<1>2. BoardInv /\ [Motion]_vars => [Abstract!Next]_(Abstract!board)
  BY BoardStep DEF Advance
<1>3. QED
  BY <1>1, <1>2, BoardInvariant, NextIsMotion, PTL DEF Spec, ImplementsBoard, Abstract!Spec

\* A thread closed over a pending recipient has a hasty ack to show for it
\* (api/threads.py:186, 228).
THEOREM EarlyCloses == Spec => []EarlyCloseExplained
<1>1. BoardInv => EarlyCloseExplained
  BY BoardInvImplies
<1>2. QED
  BY <1>1, BoardInvariant, PTL

\* Marks and closes have their ack in the log (api/threads.py:203, 213).
THEOREM LogCovers == Spec => []AcksAreLogged
<1>1. BoardInv => AcksAreLogged
  BY BoardInvImplies
<1>2. QED
  BY <1>1, BoardInvariant, PTL

\* An answered POST has registered its recipients (api/threads.py:74-78).
THEOREM AnsweredIsRegistered == Spec => []RecipientsRegistered
<1>1. BoardInv => RecipientsRegistered
  BY BoardInvImplies
<1>2. QED
  BY <1>1, BoardInvariant, PTL

\* Nobody else writes in a thread (api/threads.py:107-122).
THEOREM StrangersKeepOut == Spec => []OnlyParticipantsPost
<1>1. BoardInv => OnlyParticipantsPost
  BY BoardInvImplies
<1>2. QED
  BY <1>1, BoardInvariant, PTL

-----------------------------------------------------------------------------
(* Late recipients *)

\* What reply or ack r knows of thread t if it arrived after the POST was
\* answered: it reads all of the recipients, and is not refused to one.
Informed(t, r) ==
  /\ pc[t] = "ok"
  /\ frame[r].thread = t =>
       /\ pc[r] = "resolve" => Posted(t) \subseteq frame[r].extra
       /\ pc[r] = "403" => frame[r].caller \notin Posted(t)

\* _resolve_participants raises for none of the recipients a handler has read
\* (api/threads.py:107-122).
LEMMA RecipientsResolve ==
  ASSUME BoardInv, NEW r \in Reply \cup Ack, pc[r] = "resolve",
         _resolve_participants(frame[r]) = None
  PROVE  frame[r].caller \notin frame[r].extra
<1> DEFINE t == frame[r].thread
<1>1. Found(r)
  BY DEF Found, Received
<1>2. TypeInv
  BY DEF BoardInv, Base, HistInv
<1>3. t \in Thread /\ Exists(t)
  BY <1>1, <1>2 DEF TypeInv, FramesOK
<1>4. threads[t].created_by \in Name /\ threads[t].created_by # None
  BY <1>2, <1>3, Kinds DEF TypeInv, RowsOK, FramesOK
<1>5. frame[r].to \in Name /\ frame[r].to # None
  BY <1>1, <1>2, Kinds DEF TypeInv, FramesOK
<1>6. QED
  BY <1>4, <1>5 DEF _resolve_participants

\* What such a request knows it keeps, or learns in time.
LEMMA InformedStep ==
  ASSUME BoardInv, [Motion]_vars, NEW t \in Thread, NEW r \in Reply \cup Ack,
         Informed(t, r)
  PROVE  Informed(t, r)'
<1>1. TypeInv /\ t \in Request /\ r \in Request /\ t # r
  BY Kinds DEF BoardInv, Base, HistInv, Request
<1>2. CASE UNCHANGED vars
  BY <1>2 DEF Informed, Posted, vars
<1>3. ASSUME NEW q \in Request, Comes(q) \/ Step(q) \/ Fail(q) PROVE Informed(t, r)'
  <2>1. Moves(q)
    BY <1>1, <1>3, Mover
  <2>2. pc'[t] = "ok" /\ frame'[t] = frame[t] /\ Posted(t)' = Posted(t)
    BY <1>1, <2>1 DEF Moves, Informed, Posted
  <2>3. CASE q # r
    BY <1>1, <2>1, <2>2, <2>3 DEF Moves, Informed
  <2>4. CASE q = r /\ ReadRecipients(r)
    <3>1. /\ pc'[r] = "resolve" /\ frame'[r].thread = frame[r].thread
          /\ frame'[r].extra = list_recipients(frame[r].thread)
      BY <1>1, <2>4 DEF ReadRecipients, Goto, TypeInv, TypeOK, Frame
    <3>2. Posted(t) \subseteq list_recipients(t)
      BY DEF BoardInv, Reg, Informed
    <3>3. QED
      BY <2>2, <3>1, <3>2 DEF Informed
  <2>5. CASE q = r /\ Refuse(r)
    <3>1. /\ pc[r] = "resolve" /\ pc'[r] = "403" /\ frame'[r] = frame[r]
          /\ _resolve_participants(frame[r]) = None
      BY <1>1, <2>5 DEF Refuse, At, Goto, TypeInv, TypeOK
    <3>2. frame[r].caller \notin frame[r].extra
      BY <3>1, RecipientsResolve
    <3>3. QED
      BY <2>2, <3>1, <3>2 DEF Informed
  <2>6. CASE q = r /\ Fail(r)
    BY <2>2, <2>6 DEF Fail, Informed
  <2>7. CASE q = r /\ ~ReadRecipients(r) /\ ~Refuse(r) /\ ~Fail(r)
    <3>1. pc'[r] \notin {"resolve", "403"}
      BY <1>1, <1>3, <2>7, Kinds
         DEF Comes, Step, ReadThread, Turned, TurnAway, SetType, Resolve, AppendMessage,
             AppendAck, InsertAck, MarkRecipient, CheckAll, CloseThread, Goto, TypeInv, TypeOK
    <3>2. QED
      BY <2>2, <3>1 DEF Informed
  <2>8. QED
    BY <2>3, <2>4, <2>5, <2>6, <2>7
<1>4. QED
  BY <1>2, <1>3 DEF Motion

\* Whoever a thread was posted to may speak in it from the moment its POST was
\* answered (api/threads.py:75 before 79, 137, 187).
THEOREM LateRecipientsEnter == Spec => LateRecipientsNeverRefused
<1> SUFFICES ASSUME NEW t \in Thread, NEW r \in Reply \cup Ack
             PROVE  Spec => [](pc[t] = "ok" /\ pc[r] = "idle" =>
                                 []~(/\ pc[r] = "403" /\ frame[r].thread = t
                                     /\ frame[r].caller \in Posted(t)))
  BY DEF LateRecipientsNeverRefused
<1>1. pc[t] = "ok" /\ pc[r] = "idle" => Informed(t, r)
  BY DEF Informed
<1>2. BoardInv /\ Informed(t, r) /\ [Motion]_vars => Informed(t, r)'
  BY InformedStep
<1>3. Informed(t, r) => ~(/\ pc[r] = "403" /\ frame[r].thread = t
                          /\ frame[r].caller \in Posted(t))
  BY DEF Informed
<1>4. QED
  BY <1>1, <1>2, <1>3, BoardInvariant, NextIsMotion, PTL DEF Spec
=============================================================================
