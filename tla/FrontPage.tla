------------------------------ MODULE FrontPage -----------------------------
(***************************************************************************)
(* The dashboard's front page (web.py:threads_list): a list and three      *)
(* panels, each from a read of its own, rendered as one.                   *)
(***************************************************************************)
EXTENDS Inbox

VARIABLE page     \* what its reads returned so far

pageVars == <<vars, page>>

Page == [done : 0 .. 4, threads : SUBSET ListRow,
         escalations : SUBSET ListRow, postmortems : SUBSET ListRow,
         active_claims : SUBSET ListRow]

PageTypeOK == page \in Page

-----------------------------------------------------------------------------
\* Mutant of ReadOrder: the list is read after what is counted beside it.
ReadOrder_ListLast == <<"escalations", "postmortems", "active_claims", "threads">>

\* The reads of threads_list, one transaction each, in the order of the code.
ReadOrder == <<"threads", "escalations", "postmortems", "active_claims">>

Result(read) ==
  CASE read = "threads"     -> Rows(list_threads(None, None, {}, None))
    [] read = "escalations" -> Rows(list_threads(None, "open", {"escalation"}, None))
    [] read = "postmortems" -> Rows(list_threads(None, "open", {"postmortem"}, None))
    [] read = "active_claims" ->
         {row \in Rows(list_threads(None, "open", {}, None)) : row.claimed_by # None}

EmptyPage == [done |-> 0, threads |-> {}, escalations |-> {}, postmortems |-> {},
              active_claims |-> {}]

Rendered == page.done = Len(ReadOrder)

ReadPage ==
  /\ ~Rendered
  /\ page' = [page EXCEPT !.done = @ + 1,
                          ![ReadOrder[page.done + 1]] =
                             Result(ReadOrder[page.done + 1])]
  /\ UNCHANGED vars

\* The page reloads itself every few seconds.
Refresh ==
  /\ Rendered
  /\ page' = EmptyPage
  /\ UNCHANGED vars

PageInit == Init /\ page = EmptyPage

PageNext == \/ Next /\ UNCHANGED page
            \/ ReadPage
            \/ Refresh

PageSpec == PageInit /\ [][PageNext]_pageVars

-----------------------------------------------------------------------------
(* Properties *)

Ids(rows) == {row.id : row \in rows}

Panels == page.escalations \cup page.postmortems \cup page.active_claims

\* Although the front page is put together from reads of different moments, a
\* thread it lists as acked is counted in none of its panels, and one it lists
\* as open and claimed is among the active claims under the same owner unless
\* it has been acked since (web.py:27-33: the list is read first).
PanelsFollowList ==
  Rendered =>
    \A row \in page.threads :
      /\ row.status = "acked" => row.id \notin Ids(Panels)
      /\ row.status = "open" /\ row.claimed_by # None =>
           \/ threads[row.id].status = "acked"
           \/ \E claim \in page.active_claims :
                claim.id = row.id /\ claim.claimed_by = row.claimed_by

\* A thread listed as an open escalation is counted as one, unless it has been
\* acked since, or its POST or a reply to it carries another type: post_thread
\* too stores its type late, even over a reply's (web.py:30, api/threads.py:71,
\* 150).
EscalationsCounted ==
  Rendered =>
    \A row \in page.threads :
      row.status = "open" /\ row.discussion_type = "escalation" =>
        \/ row.id \in Ids(page.escalations)
        \/ threads[row.id].status = "acked"
        \/ \E r \in Thread \cup Reply :
             /\ frame[r].thread = row.id
             /\ frame[r].discussion_type \notin {None, "escalation"}
=============================================================================
