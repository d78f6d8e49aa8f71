-------------------------- MODULE DashboardProofs ---------------------------
(***************************************************************************)
(* Proofs about the dashboard, for any number of requests: its front page  *)
(* is coherent although its reads are of different moments, and the button *)
(* of a thread's page acts for the right participant and gets its way,     *)
(* however stale the page.                                                 *)
(***************************************************************************)
EXTENDS FrontPage, ThreadPage, TalkProofs

-----------------------------------------------------------------------------
(* The front page: the inductive invariants *)

\* What the main list says of a row has only been added to since.
StillSo(row) ==
  /\ threads[row.id].status # "absent"
  /\ row.status = "acked" => threads[row.id].status = "acked"
  /\ row.claimed_by # None => threads[row.id].claimed_by = row.claimed_by

\* What the panels read so far owe to a row of the main list.
Agrees(row) ==
  /\ row.status = "acked" => row.id \notin Ids(Panels)
  /\ page.done = 4 /\ row.status = "open" /\ row.claimed_by # None =>
       \/ threads[row.id].status = "acked"
       \/ \E claim \in page.active_claims :
            claim.id = row.id /\ claim.claimed_by = row.claimed_by

\* Nothing is read before the list, so every panel is read when what the list
\* says still holds.
PageInv ==
  /\ PageTypeOK
  /\ page.done = 0 => page.threads = {} /\ Panels = {}
  /\ \A row \in page.threads : StillSo(row) /\ Agrees(row)

-----------------------------------------------------------------------------

\* The rows of threads that exist are rows of the list.
LEMMA RowsTypes ==
  ASSUME TypeOK, NEW ids \in SUBSET Thread, \A t \in ids : Exists(t)
  PROVE  Rows(ids) \subseteq ListRow
BY DEF TypeOK, StoreTypeOK, ThreadRow, Rows, Row, ListRow, Exists

\* A listing by status returns rows of existing threads with that status
\* (store/threads.py:83-85).
LEMMA OpenRows ==
  ASSUME TypeOK, NEW types
  PROVE  /\ Rows(list_threads(None, "open", types, None)) \subseteq ListRow
         /\ \A row \in Rows(list_threads(None, "open", types, None)) :
              threads[row.id].status = "open"
<1> DEFINE ids == list_threads(None, "open", types, None)
<1>1. /\ ids \in SUBSET Thread
      /\ \A t \in ids : Exists(t) /\ threads[t].status = "open"
  BY InboxAssumption DEF list_threads
<1>2. QED
  BY <1>1, RowsTypes DEF Rows, Row

\* A read fills in one part of the page.
LEMMA PartTypes ==
  ASSUME NEW p \in Page, NEW n \in 0 .. 4, NEW rows \in SUBSET ListRow,
         NEW part \in {"threads", "escalations", "postmortems", "active_claims"}
  PROVE  [p EXCEPT !.done = n, ![part] = rows] \in Page
BY DEF Page

\* The length of the order and its members.
LEMMA Order ==
  /\ Len(ReadOrder) = 4
  /\ ReadOrder[1] = "threads" /\ ReadOrder[2] = "escalations"
  /\ ReadOrder[3] = "postmortems" /\ ReadOrder[4] = "active_claims"
BY DEF ReadOrder

\* A step of a handler takes back nothing the list has shown.
LEMMA HandlersPage ==
  ASSUME TypeOK, PageInv, page' = page, [TakesNothingBack]_tables
  PROVE  PageInv'
<1>1. \A row \in page.threads :
        /\ row.id \in Thread
        /\ StillSo(row)'
  <2> SUFFICES ASSUME NEW row \in page.threads
               PROVE  row.id \in Thread /\ StillSo(row)'
    OBVIOUS
  <2>1. row.id \in Thread /\ StillSo(row)
    BY DEF PageInv, PageTypeOK, Page, ListRow
  <2>2. CASE UNCHANGED tables
    BY <2>1, <2>2 DEF tables, StillSo
  <2>3. CASE TakesNothingBack
    BY <2>1, <2>3 DEF TakesNothingBack, StillSo, Exists
  <2>4. QED
    BY <2>2, <2>3
<1>2. \A row \in page.threads : Agrees(row)'
  <2> SUFFICES ASSUME NEW row \in page.threads PROVE Agrees(row)'
    OBVIOUS
  <2>1. row.id \in Thread /\ Agrees(row)
    BY <1>1 DEF PageInv
  <2>2. threads[row.id].status = "acked" => threads'[row.id].status = "acked"
    BY <2>1 DEF TakesNothingBack, tables
  <2>3. QED
    BY <2>1, <2>2 DEF Agrees, Panels, Ids
<1>3. QED
  BY <1>1, <1>2 DEF PageInv, PageTypeOK, Panels

\* The first read: what the list shows is what the tables hold.
LEMMA ReadListPage ==
  ASSUME TypeOK, PageInv, ReadPage, page.done = 0
  PROVE  PageInv'
<1> DEFINE ids == list_threads(None, None, {}, None)
<1>1. page' = [page EXCEPT !.done = 1, !.threads = Rows(ids)]
  <2>1. page.done + 1 = 1 /\ ReadOrder[page.done + 1] = "threads"
    BY Order
  <2>2. Result("threads") = Rows(ids)
    BY DEF Result
  <2>3. QED
    BY <2>1, <2>2 DEF ReadPage
<1>2. ids \in SUBSET Thread /\ \A t \in ids : Exists(t)
  BY DEF list_threads
<1>3. /\ page'.done = 1 /\ page'.threads = Rows(ids)
      /\ Panels' = {} /\ threads' = threads
      /\ page'.escalations = page.escalations
      /\ page'.postmortems = page.postmortems
      /\ page'.active_claims = page.active_claims
  BY <1>1 DEF PageInv, PageTypeOK, Page, Panels, ReadPage, vars
<1>4. PageTypeOK'
  <2>1. Rows(ids) \in SUBSET ListRow
    BY <1>2, RowsTypes
  <2>2. page' = [page EXCEPT !.done = 1, !["threads"] = Rows(ids)]
    BY <1>1
  <2>3. 1 \in 0 .. 4 /\ page \in Page
    BY DEF PageInv, PageTypeOK
  <2>4. [page EXCEPT !.done = 1, !["threads"] = Rows(ids)] \in Page
    BY <2>1, <2>3, PartTypes
  <2>5. QED
    BY <2>2, <2>4 DEF PageTypeOK
<1>5. \A row \in Rows(ids) : StillSo(row)'
  BY <1>2, <1>3 DEF Rows, Row, StillSo, Exists
<1>6. \A row \in Rows(ids) : Agrees(row)'
  BY <1>3 DEF Agrees, Ids
<1>7. QED
  BY <1>3, <1>4, <1>5, <1>6 DEF PageInv

\* A panel's read adds open threads only: none that the list shows as acked.
LEMMA ReadPanelPage ==
  ASSUME TypeOK, PageInv, ReadPage, page.done \in 1 .. 3
  PROVE  PageInv'
<1> DEFINE field == ReadOrder[page.done + 1]
           rows  == Result(field)
<1>1. /\ field \in {"escalations", "postmortems", "active_claims"}
      /\ page.done = 3 <=> field = "active_claims"
  BY Order, page.done \in {1, 2, 3}
<1>2. page' = [page EXCEPT !.done = page.done + 1, ![field] = rows]
  BY DEF ReadPage
<1>3. /\ rows \subseteq ListRow
      /\ \A row \in rows : threads[row.id].status = "open"
  BY <1>1, OpenRows DEF Result
<1>4. /\ page'.done = page.done + 1 /\ page'.threads = page.threads
      /\ Panels' \subseteq Panels \cup rows
      /\ threads' = threads
  BY <1>1, <1>2 DEF PageInv, PageTypeOK, Page, Panels, ReadPage, vars
<1>5. PageTypeOK'
  <2>1. page.done + 1 \in 0 .. 4
    OBVIOUS
  <2>2. QED
    BY <1>1, <1>2, <1>3, <2>1, PartTypes DEF PageInv, PageTypeOK
<1>6. \A row \in page.threads : Agrees(row)'
  <2> SUFFICES ASSUME NEW row \in page.threads PROVE Agrees(row)'
    OBVIOUS
  <2>1. row \in ListRow /\ StillSo(row) /\ Agrees(row)
    BY DEF PageInv, PageTypeOK, Page
  <2>2. row.status = "acked" => row.id \notin Ids(Panels')
    BY <1>3, <1>4, <2>1 DEF Agrees, StillSo, Ids
  <2>3. ASSUME page.done = 3, row.status = "open", row.claimed_by # None,
               threads[row.id].status # "acked"
        PROVE  \E claim \in page'.active_claims :
                 claim.id = row.id /\ claim.claimed_by = row.claimed_by
    <3>1. /\ row.id \in Thread /\ threads[row.id].status = "open"
          /\ threads[row.id].claimed_by = row.claimed_by
      BY <2>1, <2>3 DEF ListRow, StillSo, TypeOK, StoreTypeOK, ThreadRow
    <3>2. row.id \in list_threads(None, "open", {}, None)
      BY <3>1 DEF list_threads, Exists
    <3>3. page'.active_claims = rows
      BY <1>1, <1>2, <2>3 DEF PageInv, PageTypeOK, Page
    <3>4. Row(row.id) \in rows
      BY <1>1, <2>3, <3>1, <3>2 DEF Result, Rows, Row
    <3>5. QED
      BY <3>1, <3>3, <3>4 DEF Row
  <2>4. QED
    BY <1>4, <2>2, <2>3 DEF Agrees, PageInv, PageTypeOK, Page
<1>7. QED
  BY <1>4, <1>5, <1>6 DEF PageInv, PageTypeOK, StillSo

\* A reload starts from nothing.
LEMMA RefreshPage ==
  ASSUME PageInv, Refresh
  PROVE  PageInv'
BY DEF Refresh, EmptyPage, PageInv, PageTypeOK, Page, Panels

-----------------------------------------------------------------------------

\* Every step of the handlers or of the page keeps the invariant.
LEMMA PageInvStep ==
  HistInv /\ PageInv /\ [PageNext]_pageVars => HistInv' /\ PageInv'
<1> SUFFICES ASSUME HistInv, PageInv, [PageNext]_pageVars
             PROVE  HistInv' /\ PageInv'
  OBVIOUS
<1>1. [Motion]_vars
  BY NextIsMotion DEF PageNext, pageVars, ReadPage, Refresh
<1>2. HistInv' /\ [TakesNothingBack]_tables
  BY <1>1, HistoryStep
<1>3. TypeOK
  BY DEF HistInv, TypeInv
<1>4. CASE page' = page
  BY <1>2, <1>3, <1>4, HandlersPage
<1>5. CASE ReadPage
  <2>1. page.done \in 0 .. 3
    BY <1>5, Order DEF ReadPage, Rendered, PageInv, PageTypeOK, Page
  <2>2. QED
    BY <1>2, <1>3, <1>5, <2>1, ReadListPage, ReadPanelPage
<1>6. CASE Refresh
  BY <1>2, <1>6, RefreshPage
<1>7. QED
  BY <1>4, <1>5, <1>6 DEF PageNext, pageVars

\* A thread the front page lists as acked is in none of its panels, and one it
\* lists as open and claimed is among the active claims under the same owner
\* unless acked since, whatever commits between the page's reads (web.py:27-33).
THEOREM PanelsAgree == PageSpec => []PanelsFollowList
<1>1. PageInit => HistInv /\ PageInv
  <2> SUFFICES ASSUME PageInit PROVE HistInv /\ PageInv
    OBVIOUS
  <2>1. HistInv
    BY InitClaimInv DEF PageInit, ClaimInv
  <2>2. PageInv
    BY DEF PageInit, EmptyPage, PageInv, PageTypeOK, Page, Panels
  <2>3. QED
    BY <2>1, <2>2
<1>2. PageInv => PanelsFollowList
  BY Order DEF PageInv, PanelsFollowList, Rendered, Agrees
<1>3. QED
  BY <1>1, <1>2, PageInvStep, PTL DEF PageSpec

-----------------------------------------------------------------------------
(* Escalations *)

\* A POST of t or a reply to it carries another type than "escalation".
Retyped(t) ==
  \E r \in Thread \cup Reply :
    /\ frame[r].thread = t
    /\ frame[r].discussion_type \notin {None, "escalation"}

\* The locals of a request that has not arrived name no thread.
Fresh == \A r \in Thread \cup Reply : pc[r] = "idle" => frame[r].thread = None

\* An escalation of the list still is one, or somebody else's type may be stored
\* over it; and once the escalations are read it is among them.
Counts(row) ==
  row.status = "open" /\ row.discussion_type = "escalation" =>
    /\ threads[row.id].discussion_type = "escalation" \/ Retyped(row.id)
    /\ page.done >= 2 => \/ row.id \in Ids(page.escalations)
                         \/ threads[row.id].status = "acked"
                         \/ Retyped(row.id)

CountInv == HistInv /\ PageInv /\ Fresh /\ \A row \in page.threads : Counts(row)

\* A request keeps the thread and the type it came with.
LEMMA TypesCarried ==
  ASSUME HistInv, Fresh, NEW q \in Request, Comes(q) \/ Step(q) \/ Fail(q)
  PROVE  /\ Fresh'
         /\ \A t \in Thread : Retyped(t) => Retyped(t)'
<1>1. /\ TypeInv /\ Moves(q)
      /\ pc \in [Request -> {"idle"} \cup Running \cup Answered]
      /\ frame \in [Request -> Frame]
  BY Mover DEF HistInv, TypeInv, TypeOK
<1>2. CASE pc[q] = "idle"
  <2>1. Comes(q)
    BY <1>2 DEF Step, Fail, CreateThread, AddRecipient, SetType, ReadRecipients, Refuse,
       Resolve, AppendMessage, AppendAck, InsertAck, MarkRecipient, CheckAll, CloseThread,
       At, Running
  <2>2. pc'[q] # "idle"
    BY <1>1, <2>1
       DEF Comes, ReceiveThread, ReadThread, PostClaim, Turned, TurnAway, Goto
  <2>3. \A r \in Thread \cup Reply : r # q => pc'[r] = pc[r] /\ frame'[r] = frame[r]
    BY <1>1 DEF Moves, Request
  <2>4. Fresh'
    BY <2>2, <2>3 DEF Fresh
  <2>5. ASSUME NEW t \in Thread, Retyped(t) PROVE Retyped(t)'
    <3>1. PICK r \in Thread \cup Reply :
            frame[r].thread = t /\ frame[r].discussion_type \notin {None, "escalation"}
      BY <2>5 DEF Retyped
    <3>2. r # q
      BY <1>2, <3>1, Kinds DEF Fresh
    <3>3. QED
      BY <2>3, <3>1, <3>2 DEF Retyped
  <2>6. QED
    BY <2>4, <2>5
<1>3. CASE pc[q] # "idle"
  <2>1. /\ pc'[q] # "idle" /\ frame'[q].thread = frame[q].thread
        /\ frame'[q].discussion_type = frame[q].discussion_type
    BY <1>1, <1>3, Runs
  <2>2. \A r \in Thread \cup Reply :
          /\ frame'[r].thread = frame[r].thread
          /\ frame'[r].discussion_type = frame[r].discussion_type
    BY <1>1, <2>1 DEF Moves, Request
  <2>3. Fresh'
    BY <1>1, <2>1, <2>2 DEF Fresh, Moves, Request
  <2>4. QED
    BY <2>2, <2>3 DEF Retyped
<1>4. QED
  BY <1>2, <1>3

\* The type of a thread changes only to the one a request carries (api/threads.py:71,
\* 150).
LEMMA TypeWritten ==
  ASSUME HistInv, NEW q \in Request, Comes(q) \/ Step(q) \/ Fail(q),
         NEW t \in Thread, Exists(t), threads[t].discussion_type = "escalation"
  PROVE  threads'[t].discussion_type = "escalation" \/ Retyped(t)'
<1>1. TypeInv /\ threads \in [Thread -> ThreadRow] /\ threads[t] \in ThreadRow
  BY DEF HistInv, TypeInv, TypeOK, StoreTypeOK
<1>2. CASE q \in Thread \cup Reply /\ SetType(q)
  <2>1. pc[q] = "type" /\ frame[q].discussion_type # None /\ frame' = frame
    BY <1>2 DEF SetType, At, HistInv, TypeChosen
  <2>2. CASE frame[q].thread = t
    <3>1. threads' = [threads EXCEPT ![t].discussion_type = frame[q].discussion_type]
      BY <1>2, <2>2 DEF SetType, set_discussion_type
    <3>2. threads'[t].discussion_type = frame[q].discussion_type
      BY <1>1, <3>1 DEF ThreadRow
    <3>3. QED
      BY <1>2, <2>1, <2>2, <3>2 DEF Retyped
  <2>3. CASE frame[q].thread # t
    BY <1>1, <1>2, <2>3 DEF SetType, set_discussion_type
  <2>4. QED
    BY <2>2, <2>3
<1>3. CASE q \in Thread /\ CreateThread(q)
  <2>1. q # t
    BY <1>1, <1>3 DEF CreateThread, At, TypeInv, RowsOK
  <2>2. QED
    BY <1>1, <1>3, <2>1 DEF CreateThread, create_thread
<1>4. CASE q \in Reply /\ AppendMessage(q)
  BY <1>1, <1>4 DEF AppendMessage, append_message, ThreadRow
<1>5. CASE q \in Ack /\ AppendAck(q)
  BY <1>1, <1>5 DEF AppendAck, append_ack, ThreadRow
<1>6. CASE q \in Ack /\ InsertAck(q)
  BY <1>1, <1>6 DEF InsertAck, insert_ack, ThreadRow
<1>7. CASE q \in Ack /\ CloseThread(q)
  BY <1>1, <1>7 DEF CloseThread, update_thread_status, ThreadRow
<1>8. CASE q \in Claim /\ PostClaim(q)
  BY <1>1, <1>8 DEF PostClaim, set_claim, ThreadRow
<1>9. CASE threads' = threads
  BY <1>9
<1>10. QED
  BY <1>2, <1>3, <1>4, <1>5, <1>6, <1>7, <1>8, <1>9
     DEF Comes, Step, Fail, ReceiveThread, ReadThread, Turned, TurnAway, AddRecipient,
         add_recipient, ReadRecipients, Refuse, Resolve, MarkRecipient,
         mark_recipient_acked, CheckAll, tables

\* A step of a handler takes no escalation from the page but by another type.
LEMMA HandlersCount ==
  ASSUME CountInv, [Motion]_vars, page' = page
  PROVE  Fresh' /\ \A row \in page'.threads : Counts(row)'
<1>1. CASE UNCHANGED vars
  BY <1>1 DEF CountInv, Fresh, Counts, Retyped, vars
<1>2. ASSUME NEW q \in Request, Comes(q) \/ Step(q) \/ Fail(q)
      PROVE  Fresh' /\ \A row \in page'.threads : Counts(row)'
  <2>1. Fresh' /\ \A t \in Thread : Retyped(t) => Retyped(t)'
    BY <1>2, TypesCarried DEF CountInv
  <2>2. [TakesNothingBack]_tables
    BY <1>2, HistoryStep DEF CountInv, Motion
  <2>3. ASSUME NEW row \in page.threads PROVE Counts(row)'
    <3>1. row.id \in Thread /\ Exists(row.id) /\ Counts(row)
      BY DEF CountInv, PageInv, PageTypeOK, Page, ListRow, StillSo, Exists
    <3>2. threads[row.id].status = "acked" => threads'[row.id].status = "acked"
      BY <2>2, <3>1 DEF TakesNothingBack, tables
    <3>3. threads[row.id].discussion_type = "escalation" =>
            threads'[row.id].discussion_type = "escalation" \/ Retyped(row.id)'
      BY <1>2, <3>1, TypeWritten DEF CountInv
    <3>4. Retyped(row.id) => Retyped(row.id)'
      BY <2>1, <3>1
    <3>5. QED
      BY <3>1, <3>2, <3>3, <3>4 DEF Counts
  <2>4. QED
    BY <2>1, <2>3
<1>3. QED
  BY <1>1, <1>2 DEF Motion

\* A read of the page keeps what is counted: the list's rows are of this moment,
\* and the escalations are read when each row of the list is still so.
LEMMA ReadCounts ==
  ASSUME CountInv, ReadPage
  PROVE  \A row \in page'.threads : Counts(row)'
<1>1. /\ TypeOK /\ threads \in [Thread -> ThreadRow]
      /\ page \in Page /\ page.done \in 0 .. 3
      /\ UNCHANGED <<threads, frame>>
  BY Order DEF CountInv, HistInv, TypeInv, TypeOK, StoreTypeOK, PageInv, PageTypeOK, Page,
     ReadPage, Rendered, vars
<1>2. \A t \in Thread : Retyped(t)' <=> Retyped(t)
  BY <1>1 DEF Retyped
<1> DEFINE field == ReadOrder[page.done + 1]
           rows  == Result(field)
<1>3. page' = [page EXCEPT !.done = page.done + 1, ![field] = rows]
  BY DEF ReadPage
<1>4. CASE page.done = 0
  <2>1. page.done + 1 = 1 /\ field = "threads"
    BY <1>4, Order
  <2>2. page'.done = 1 /\ page'.threads = rows
    BY <1>1, <1>3, <2>1 DEF Page
  <2>3. rows = Rows(list_threads(None, None, {}, None))
    BY <2>1 DEF Result
  <2>4. \A row \in rows : threads[row.id].discussion_type = row.discussion_type
    BY <2>3 DEF Rows, Row
  <2>5. QED
    BY <1>1, <2>2, <2>4 DEF Counts
<1>5. CASE page.done = 1
  <2>1. page.done + 1 = 2 /\ field = "escalations"
    BY <1>5, Order
  <2>2. page'.done = 2 /\ page'.threads = page.threads /\ page'.escalations = rows
    BY <1>1, <1>3, <2>1 DEF Page
  <2>3. rows = Rows(list_threads(None, "open", {"escalation"}, None))
    BY <2>1 DEF Result
  <2>4. ASSUME NEW row \in page.threads PROVE Counts(row)'
    <3>1. row.id \in Thread /\ Exists(row.id) /\ Counts(row)
      BY DEF CountInv, PageInv, PageTypeOK, Page, ListRow, StillSo, Exists
    <3>2. threads[row.id].status \in {"open", "acked"}
      BY <1>1, <3>1 DEF ThreadRow, Exists
    <3>3. ASSUME threads[row.id].status = "open",
                 threads[row.id].discussion_type = "escalation"
          PROVE  row.id \in Ids(rows)
      <4>1. row.id \in list_threads(None, "open", {"escalation"}, None)
        BY <3>1, <3>3 DEF list_threads
      <4>2. Row(row.id) \in rows /\ Row(row.id).id = row.id
        BY <2>3, <4>1 DEF Rows, Row
      <4>3. QED
        BY <4>2 DEF Ids
    <3>4. QED
      BY <1>1, <1>2, <2>2, <3>1, <3>2, <3>3 DEF Counts, Ids
  <2>5. QED
    BY <2>2, <2>4
<1>6. CASE page.done \in 2 .. 3
  <2>1. field \in {"postmortems", "active_claims"}
    BY <1>6, Order
  <2>2. /\ page'.threads = page.threads /\ page'.escalations = page.escalations
    BY <1>1, <1>3, <2>1 DEF Page
  <2>3. page.done >= 2
    BY <1>6
  <2>4. \A row \in page.threads : row.id \in Thread /\ Counts(row)
    BY DEF CountInv, PageInv, PageTypeOK, Page, ListRow
  <2>5. QED
    BY <1>1, <1>2, <2>2, <2>3, <2>4 DEF Counts, Ids
<1>7. QED
  BY <1>1, <1>4, <1>5, <1>6

\* Every step of the handlers or of the page keeps the invariant.
LEMMA CountInvStep ==
  CountInv /\ [PageNext]_pageVars => CountInv'
<1> SUFFICES ASSUME CountInv, [PageNext]_pageVars PROVE CountInv'
  OBVIOUS
<1>1. HistInv' /\ PageInv'
  BY PageInvStep DEF CountInv
<1>2. Fresh' /\ \A row \in page'.threads : Counts(row)'
  <2>1. CASE [Motion]_vars /\ page' = page
    BY <2>1, HandlersCount
  <2>2. CASE ReadPage
    <3>1. Fresh'
      BY <2>2 DEF ReadPage, CountInv, Fresh, vars
    <3>2. QED
      BY <2>2, <3>1, ReadCounts
  <2>3. CASE Refresh
    BY <2>3 DEF Refresh, EmptyPage, CountInv, Fresh, vars
  <2>4. QED
    BY <2>1, <2>2, <2>3, NextIsMotion DEF PageNext, pageVars
<1>3. QED
  BY <1>1, <1>2 DEF CountInv

\* A thread the front page lists as an open escalation is counted as one, unless
\* acked since or given another type by its own POST or a reply (web.py:30,
\* api/threads.py:71, 150).
THEOREM EscalationsAreCounted == PageSpec => []EscalationsCounted
<1>1. PageInit => CountInv
  <2> SUFFICES ASSUME PageInit PROVE CountInv
    OBVIOUS
  <2>1. HistInv
    BY InitClaimInv DEF PageInit, ClaimInv
  <2>2. PageInv /\ page.threads = {}
    BY DEF PageInit, EmptyPage, PageInv, PageTypeOK, Page, Panels
  <2>3. Fresh
    BY DEF PageInit, Init, Locals, Fresh, Request
  <2>4. QED
    BY <2>1, <2>2, <2>3 DEF CountInv
<1>2. CountInv => EscalationsCounted
  BY Order DEF CountInv, EscalationsCounted, Rendered, Counts, Retyped
<1>3. QED
  BY <1>1, <1>2, CountInvStep, PTL DEF PageSpec

-----------------------------------------------------------------------------
(* The page of a thread: the inductive invariant *)

\* What the tab shows is of a thread that exists; its button names one of the
\* two sides, the recipient unless the seed is bare.
ShowsWell ==
  LET t == view.thread
  IN  /\ view \in View
      /\ view.at # "elsewhere" => t \in Thread /\ Exists(t)
      /\ view.at = "shown" => /\ view.ack_as \in Sides(t)
                              /\ ~Bare(SeedStamp(t)) => view.ack_as = frame[t].to
      /\ view.click # None => view.at = "shown"

\* The request the button waits for acts in the button's name on the page's
\* thread, unless it was turned away, and is refused only if the seed is bare.
Clicked ==
  LET r == view.click
      t == view.thread
  IN  r # None =>
        /\ pc[r] \notin {"idle", "404"}
        /\ Received(r) => frame[r].thread = t /\ frame[r].caller = view.ack_as
        /\ ~Bare(SeedStamp(t)) => pc[r] # "403"

TabInv == TalkInv /\ BoardInv /\ ShowsWell /\ Clicked

\* The tab opens on nothing.
LEMMA InitTabInv == TabInit => TabInv
<1> SUFFICES ASSUME TabInit PROVE TabInv
  OBVIOUS
<1>1. TalkInv /\ BoardInv
  BY InitTalkInv, InitBoardInv DEF TabInit
<1>2. ShowsWell /\ Clicked
  BY DEF TabInit, Elsewhere, ShowsWell, Clicked, View
<1>3. QED
  BY <1>1, <1>2 DEF TabInv

-----------------------------------------------------------------------------
(* Steps of the handlers, and of the tab *)

\* All of the tab's steps are steps of the handlers, or none of theirs.
LEMMA TabMoves == [TabNext]_tabVars => [Motion]_vars
<1> SUFFICES ASSUME [TabNext]_tabVars PROVE [Motion]_vars
  OBVIOUS
<1>1. ASSUME NEW r \in Ack, Click(r) PROVE Motion
  <2>1. Comes(r)
    BY <1>1 DEF Click, Comes, Turned
  <2>2. QED
    BY <2>1 DEF Motion, Request
<1>2. QED
  BY <1>1, NextIsMotion DEF TabNext, tabVars, OpenThread, LoadMessages, ShowError, Reload

\* What the tab shows of a thread no handler changes.
LEMMA ThreadStands ==
  ASSUME TalkInv, BoardInv, [Motion]_vars, NEW t \in Thread, Exists(t)
  PROVE  /\ Exists(t)' /\ Sides(t)' = Sides(t)
         /\ SeedStamp(t)' = SeedStamp(t) /\ frame'[t].to = frame[t].to
<1>1. CASE UNCHANGED vars
  BY <1>1 DEF Exists, Sides, SeedStamp, vars
<1>2. ASSUME NEW q \in Request, Comes(q) \/ Step(q) \/ Fail(q)
      PROVE  /\ Exists(t)' /\ Sides(t)' = Sides(t)
             /\ SeedStamp(t)' = SeedStamp(t) /\ frame'[t].to = frame[t].to
  <2>1. TypeInv /\ Base
    BY DEF BoardInv, Base, HistInv
  <2>2. Grows
    BY <1>2, <2>1, Growth
  <2>3. Received(t)
    BY <2>1 DEF TypeInv, RowsOK
  <2>4. frame'[t].created_at = frame[t].created_at
    BY <1>2, <2>1, <2>3, PostsKeep
  <2>5. QED
    BY <2>1, <2>2, <2>4, Persist DEF SeedStamp, Grows
<1>3. QED
  BY <1>1, <1>2 DEF Motion

\* So the tab goes on showing what it did.
LEMMA ShowsOn ==
  ASSUME TalkInv, BoardInv, [Motion]_vars, ShowsWell, view' = view
  PROVE  ShowsWell'
<1>1. CASE view.at = "elsewhere"
  BY <1>1 DEF ShowsWell
<1>2. CASE view.at # "elsewhere"
  <2>1. view.thread \in Thread /\ Exists(view.thread)
    BY <1>2 DEF ShowsWell
  <2>2. /\ Exists(view.thread)' /\ Sides(view.thread)' = Sides(view.thread)
        /\ SeedStamp(view.thread)' = SeedStamp(view.thread)
        /\ frame'[view.thread].to = frame[view.thread].to
    BY <2>1, ThreadStands
  <2>3. QED
    BY <2>1, <2>2 DEF ShowsWell
<1>3. QED
  BY <1>1, <1>2

\* A handler that has read the seed does not refuse its recipient
\* (api/threads.py:107-122).
LEMMA RecipientResolves ==
  ASSUME TalkInv, NEW r \in Ack, pc[r] = "resolve",
         ~Bare(SeedStamp(frame[r].thread)), frame[r].caller = frame[frame[r].thread].to
  PROVE  ~Refuse(r)
<1> DEFINE t == frame[r].thread
<1>1. TypeInv /\ Found(r) /\ ~Stamped(r)
  BY DEF TalkInv, Base, HistInv, Found, Received, Stamped
<1>2. t \in Thread /\ Exists(t) /\ frame[r].to \in Name
  BY <1>1 DEF TypeInv, FramesOK
<1>3. threads[t].created_by \in Name
  BY <1>1, <1>2 DEF TypeInv, RowsOK, FramesOK
<1>4. frame[r].to = frame[t].to
  BY <1>1 DEF TalkInv, Sends
<1>5. _resolve_participants(frame[r]) \in Name
  BY <1>2, <1>3, <1>4 DEF _resolve_participants
<1>6. QED
  BY <1>5, Kinds DEF Refuse

\* A handler's step leaves the click what it is.
LEMMA ClickGoesOn ==
  ASSUME TalkInv, BoardInv, ShowsWell, Clicked, [Motion]_vars, view' = view
  PROVE  Clicked'
<1>1. CASE view.click = None
  BY <1>1 DEF Clicked
<1>2. CASE UNCHANGED vars
  BY <1>2 DEF Clicked, Received, SeedStamp, vars
<1>3. ASSUME NEW q \in Request, Comes(q) \/ Step(q) \/ Fail(q), view.click # None
      PROVE  Clicked'
  <2> DEFINE r == view.click
             t == view.thread
  <2>1. r \in Ack /\ r \in Request /\ t \in Thread /\ Exists(t) /\ TypeInv
    BY <1>3 DEF ShowsWell, View, Request, BoardInv, Base, HistInv
  <2>2. SeedStamp(t)' = SeedStamp(t)
    BY <1>3, <2>1, ThreadStands DEF Motion
  <2>3. CASE q # r
    <3>1. pc'[r] = pc[r] /\ frame'[r] = frame[r]
      BY <1>3, <2>1, <2>3, Mover DEF Moves
    <3>2. QED
      BY <2>2, <3>1 DEF Clicked, Received
  <2>4. CASE q = r
    <3>1. pc[r] # "idle"
      BY <1>3 DEF Clicked
    <3>2. /\ pc[r] \in Running /\ pc'[r] \notin {"idle", "400", "422", "404"}
          /\ frame'[r].thread = frame[r].thread /\ frame'[r].caller = frame[r].caller
          /\ pc'[r] = "403" => Refuse(r)
      BY <1>3, <2>1, <2>4, <3>1, Runs
    <3>3. frame[r].thread = t /\ frame[r].caller = view.ack_as
      BY <1>3, <3>2 DEF Clicked, Received, Running
    <3>4. ASSUME ~Bare(SeedStamp(t)) PROVE pc'[r] # "403"
      <4>1. view.ack_as = frame[t].to
        BY <1>3, <3>4 DEF ShowsWell
      <4>2. Refuse(r) => pc[r] = "resolve"
        BY DEF Refuse, At
      <4>3. QED
        BY <2>1, <3>2, <3>3, <3>4, <4>1, <4>2, RecipientResolves
    <3>5. QED
      BY <2>2, <3>2, <3>3, <3>4 DEF Clicked
  <2>5. QED
    BY <2>3, <2>4
<1>4. QED
  BY <1>1, <1>2, <1>3 DEF Motion

\* The thread's row is read, or 404.
LEMMA LoadThreadTab ==
  ASSUME BoardInv, UNCHANGED vars, NEW t \in Thread, LoadThread(t)
  PROVE  ShowsWell' /\ Clicked'
<1>1. CASE Exists(t)
  <2>1. view' = [at |-> "loading", thread |-> t, status |-> threads[t].status,
                 ack_as |-> None, click |-> None]
    BY <1>1 DEF LoadThread
  <2>2. threads[t].status \in {"open", "acked"}
    BY <1>1 DEF BoardInv, Base, HistInv, TypeInv, TypeOK, StoreTypeOK, ThreadRow, Exists
  <2>3. view' \in View
    BY <2>1, <2>2 DEF View
  <2>4. Exists(t)'
    BY <1>1 DEF Exists, vars
  <2>5. QED
    BY <2>1, <2>3, <2>4 DEF ShowsWell, Clicked
<1>2. CASE ~Exists(t)
  BY <1>2 DEF LoadThread, Elsewhere, ShowsWell, Clicked, View
<1>3. QED
  BY <1>1, <1>2

\* The messages are read: the first one names one of the two sides.
LEMMA LoadMessagesTab ==
  ASSUME TabInv, LoadMessages
  PROVE  ShowsWell' /\ Clicked'
<1> DEFINE t == view.thread
<1>1. /\ view.at = "loading" /\ view \in View /\ t \in Thread /\ Exists(t)
      /\ view.click = None
  BY DEF LoadMessages, TabInv, ShowsWell
<1>2. PICK m \in First(t) :
        view' = [view EXCEPT !.at = "shown", !.ack_as = m.to_participant]
  BY DEF LoadMessages
<1>3. m \in messages /\ m.thread_id = t /\ m.to_participant \in Name
  BY <1>2 DEF First, MessagesOf, TabInv, BoardInv, Base, HistInv, TypeInv, TypeOK,
     StoreTypeOK, MessageRow
<1>4. m.to_participant \in Sides(t)
  BY <1>3 DEF TabInv, BoardInv, Spoken
<1>5. ~Bare(SeedStamp(t)) => m.to_participant = frame[t].to
  <2> SUFFICES ASSUME ~Bare(SeedStamp(t)) PROVE m.to_participant = frame[t].to
    OBVIOUS
  <2>1. m = Seed(t)
    BY <1>1, <1>2, SeedIsFirst DEF TabInv
  <2>2. QED
    BY <2>1 DEF Seed
<1>6. /\ view' \in View /\ view'.at = "shown" /\ view'.thread = t
      /\ view'.ack_as = m.to_participant /\ view'.click = None
  BY <1>1, <1>2, <1>3 DEF View
<1>7. UNCHANGED <<threads, frame, pc>>
  BY DEF LoadMessages, vars
<1>8. QED
  BY <1>1, <1>4, <1>5, <1>6, <1>7 DEF ShowsWell, Clicked, Sides, SeedStamp, Exists

\* A click sends an ack in the button's name, or in one that is refused.
LEMMA ClickTab ==
  ASSUME TabInv, NEW r \in Ack, Click(r)
  PROVE  ShowsWell' /\ Clicked'
<1> DEFINE t == view.thread
<1>1. /\ view \in View /\ view.at = "shown" /\ t \in Thread /\ Exists(t)
      /\ view' = [view EXCEPT !.click = r]
  BY DEF Click, Clickable, TabInv, ShowsWell
<1>2. /\ view' \in View /\ view'.at = "shown" /\ view'.thread = t
      /\ view'.ack_as = view.ack_as /\ view'.click = r
  BY <1>1 DEF View
<1>3. Comes(r)
  BY DEF Click, Comes, Turned
<1>4. /\ Exists(t)' /\ Sides(t)' = Sides(t)
      /\ SeedStamp(t)' = SeedStamp(t) /\ frame'[t].to = frame[t].to
  BY <1>1, <1>3, ThreadStands DEF Motion, Request, TabInv
<1>5. ShowsWell'
  BY <1>1, <1>2, <1>4 DEF ShowsWell, TabInv
<1>6. /\ r \in Request /\ frame \in [Request -> Frame]
      /\ pc \in [Request -> {"idle"} \cup Running \cup Answered]
  BY DEF Request, TabInv, BoardInv, Base, HistInv, TypeInv, TypeOK
<1>7. CASE TurnAway(r, "400")
  <2>1. pc'[r] = "400"
    BY <1>6, <1>7 DEF TurnAway, Goto
  <2>2. QED
    BY <1>2, <1>5, <2>1 DEF Clicked, Received
<1>8. CASE ReadThread(r) /\ frame'[r].caller = view.ack_as /\ frame'[r].thread = t
  <2>1. pc'[r] \in {"404", "recipients"}
    BY <1>6, <1>8 DEF ReadThread, Goto
  <2>2. pc'[r] # "404"
    <3> SUFFICES ASSUME pc'[r] = "404" PROVE FALSE
      OBVIOUS
    <3>1. PICK u \in Thread, caller \in Caller, d \in {None} \cup TypeSent :
            ~Exists(u) /\ frame' = [frame EXCEPT ![r] =
                                      Locals(caller, u, None, d, None, <<>>)]
      BY <1>6, <1>8 DEF ReadThread, Goto
    <3>2. frame'[r].thread = u
      BY <1>6, <3>1 DEF Locals
    <3>3. QED
      BY <1>1, <1>8, <3>1, <3>2
  <2>3. QED
    BY <1>2, <1>5, <1>8, <2>1, <2>2 DEF Clicked
<1>9. QED
  BY <1>7, <1>8 DEF Click

-----------------------------------------------------------------------------
(* The theorems *)

\* Every step of the handlers or of the tab keeps the invariant.
LEMMA TabInvStep == TabInv /\ [TabNext]_tabVars => TabInv'
<1> SUFFICES ASSUME TabInv, [TabNext]_tabVars PROVE TabInv'
  OBVIOUS
<1>1. [Motion]_vars
  BY TabMoves
<1>2. TalkInv' /\ BoardInv'
  BY <1>1, TalkStep, BoardStep DEF TabInv, Advance
<1>3. CASE view' = view
  BY <1>1, <1>2, <1>3, ShowsOn, ClickGoesOn DEF TabInv
<1>4. ASSUME NEW t \in Thread, LoadThread(t), UNCHANGED vars PROVE TabInv'
  BY <1>2, <1>4, LoadThreadTab DEF TabInv
<1>5. CASE OpenThread
  BY <1>4, <1>5 DEF OpenThread
<1>6. CASE Reload
  <2>1. view.thread \in Thread
    BY <1>6 DEF Reload, TabInv, ShowsWell
  <2>2. QED
    BY <1>4, <1>6, <2>1 DEF Reload
<1>7. CASE LoadMessages
  BY <1>2, <1>7, LoadMessagesTab DEF TabInv
<1>8. ASSUME NEW r \in Ack, Click(r) PROVE TabInv'
  BY <1>2, <1>8, ClickTab DEF TabInv
<1>9. CASE ShowError
  <2>1. /\ view' = [view EXCEPT !.click = None]
        /\ UNCHANGED <<threads, frame>>
    BY <1>9 DEF ShowError, vars
  <2>2. view \in View
    BY DEF TabInv, ShowsWell
  <2>3. /\ view' \in View /\ view'.at = view.at /\ view'.thread = view.thread
        /\ view'.ack_as = view.ack_as /\ view'.click = None
    BY <2>1, <2>2 DEF View
  <2>4. ShowsWell' /\ Clicked'
    BY <2>1, <2>3 DEF TabInv, ShowsWell, Clicked, Sides, SeedStamp, Exists
  <2>5. QED
    BY <1>2, <2>4 DEF TabInv
<1>10. QED
  BY <1>3, <1>5, <1>6, <1>7, <1>8, <1>9 DEF TabNext, tabVars

\* What the tab shows and waits for is as the invariant says, in every behaviour.
THEOREM TabInvariant == TabSpec => []TabInv
BY InitTabInv, TabInvStep, PTL DEF TabSpec

\* The button acts for the recipient the thread was posted to, however late the
\* page was rendered, unless the seed is bare (web.py:59).
THEOREM ButtonIsRight == TabSpec => []ButtonNamesRecipient
<1>1. TabInv => ButtonNamesRecipient
  BY DEF TabInv, ShowsWell, ButtonNamesRecipient
<1>2. QED
  BY <1>1, TabInvariant, PTL

\* A click is never refused, however stale the page, with the same exception
\* (web.py:59, api/threads.py:107-122).
THEOREM ClickIsWelcome == TabSpec => []ClickNeverRefused
<1>1. TabInv => ClickNeverRefused
  BY DEF TabInv, Clicked, ClickNeverRefused
<1>2. QED
  BY <1>1, TabInvariant, PTL

\* An answered click has closed the thread if it had one recipient, and else
\* marked the recipient the button names or found the thread to close
\* (CHANGELOG.md:14, api/threads.py:213-228).
THEOREM ClickIsCounted == TabSpec => []ClickCounts
<1>1. TabInv => ClickCounts
  <2> SUFFICES ASSUME TabInv, view.click # None, Succeeded(view.click)
               PROVE  LET t == view.thread
                      IN  /\ Posted(t) = {frame[t].to} => threads[t].status = "acked"
                          /\ \/ threads[t].status = "acked"
                             \/ thread_recipients[t][view.ack_as] = "acked"
    BY DEF ClickCounts
  <2> DEFINE r == view.click
             t == view.thread
  <2>1. pc[r] = "ok" /\ Found(r) /\ r \in Ack /\ t \in Thread /\ Exists(t)
    BY DEF Succeeded, Found, Received, TabInv, ShowsWell, View
  <2>2. frame[r].thread = t /\ frame[r].caller = view.ack_as
    BY <2>1 DEF TabInv, Clicked, Found
  <2>3. AckOK(r) /\ LoopOK /\ EveryoneAckedClosed
    BY <2>1 DEF TabInv, BoardInv, Base, AckInv, AcksOK
  <2>4. CASE ActsAlone(r)
    BY <2>1, <2>2, <2>3, <2>4 DEF AckOK
  <2>5. CASE ~ActsAlone(r)
    <3>1. thread_recipients[t][view.ack_as] = "acked"
      BY <2>1, <2>2, <2>3, <2>5 DEF AckOK
    <3>2. view.ack_as \in Posted(t)
      BY <2>1, <2>2, <2>3, <2>5 DEF AckOK, ActsAlone, LoopOK
    <3>3. Posted(t) = {frame[t].to} => threads[t].status = "acked"
      BY <2>1, <2>2, <2>3, <3>2 DEF EveryoneAckedClosed, AcksOn
    <3>4. QED
      BY <3>1, <3>3
  <2>6. QED
    BY <2>4, <2>5
<1>2. QED
  BY <1>1, TabInvariant, PTL
=============================================================================
