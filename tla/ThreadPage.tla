----------------------------- MODULE ThreadPage -----------------------------
(***************************************************************************)
(* The dashboard's page of one thread (web.py:thread_detail and            *)
(* templates/thread_detail.html) and its ack button, which posts an ack    *)
(* in the name of whoever the first message was addressed to when the page *)
(* was rendered.  One browser tab; its requests are members of Ack, beside *)
(* those of other clients.                                                 *)
(***************************************************************************)
EXTENDS ApiProperties

\* The dashboard is a client: every accepted name may be in its header.
ASSUME DashboardAssumption == ValidId \subseteq Header

VARIABLE view     \* the tab

tabVars == <<vars, view>>

View == [at     : {"elsewhere", "loading", "shown"},
         thread : Thread \cup {None},
         status : {"open", "acked"} \cup {None},
         ack_as : Name \cup {None},
         click  : Ack \cup {None}]     \* the request the disabled button waits for

Elsewhere == [at |-> "elsewhere", thread |-> None, status |-> None,
              ack_as |-> None, click |-> None]

\* The button is on the page of an open thread, and disabled during a click.
Clickable == view.at = "shown" /\ view.status = "open" /\ view.click = None

-----------------------------------------------------------------------------

\* get_thread_with_messages selects the thread's row and then its messages,
\* each statement a read of its own: other requests commit in between.
LoadThread(t) ==
  view' = IF Exists(t) THEN [at |-> "loading", thread |-> t,
                             status |-> threads[t].status,
                             ack_as |-> None, click |-> None]
          ELSE Elsewhere                          \* 404

\* A link followed, or the reload every few seconds: an ack on its way is
\* forgotten by the tab, and goes on in the server.
OpenThread ==
  /\ view.at # "loading"
  /\ \E t \in Thread : LoadThread(t)
  /\ UNCHANGED vars

LoadMessages ==
  /\ view.at = "loading"
  /\ \E m \in First(view.thread) :
       view' = [view EXCEPT !.at = "shown", !.ack_as = m.to_participant]
  /\ UNCHANGED vars

\* ackThread: the request reaches post_ack, or is refused for a name that no
\* participant can have (recipients are stored unvalidated).
Click(r) ==
  /\ Clickable
  /\ \/ /\ ReadThread(r)
        /\ frame'[r].caller = view.ack_as
        /\ frame'[r].thread = view.thread
     \/ view.ack_as \notin ValidId /\ TurnAway(r, "400")
  /\ view' = [view EXCEPT !.click = r]

Succeeded(r) == pc[r] = "ok" /\ r \notin failed

\* Mutant of Failed: an error without an answer is not caught.
Failed_AnswersOnly(r) == pc[r] \in Answered \ {"ok"}

Failed(r) == pc[r] \in Answered \ {"ok"} \/ r \in failed

\* The button is enabled again.
ShowError ==
  /\ view.click # None
  /\ Failed(view.click)
  /\ view' = [view EXCEPT !.click = None]
  /\ UNCHANGED vars

\* Half a second after the answer.
Reload ==
  /\ view.click # None
  /\ Succeeded(view.click)
  /\ LoadThread(view.thread)
  /\ UNCHANGED vars

TabInit == Init /\ view = Elsewhere

TabNext ==
  \/ Next /\ UNCHANGED view
  \/ OpenThread
  \/ LoadMessages
  \/ \E r \in Ack : Click(r)
  \/ ShowError
  \/ Reload

TabSpec == TabInit /\ [][TabNext]_tabVars

(***************************************************************************)
(* The event loop goes on with every handler, and the browser's callbacks  *)
(* run.  Nobody has to open a page or click, and reloading can be paused.  *)
(***************************************************************************)
FairTabSpec ==
  /\ TabSpec
  /\ \A r \in Request : WF_tabVars(Step(r) /\ UNCHANGED view)
  /\ WF_tabVars(LoadMessages) /\ WF_tabVars(ShowError) /\ WF_tabVars(Reload)

-----------------------------------------------------------------------------
(* Properties *)

\* The button acts for the recipient the thread was posted to, however late
\* the page was rendered and whoever wrote since, unless the seed was stamped
\* on a whole second (web.py:59).
ButtonNamesRecipient ==
  LET t == view.thread
  IN  view.at = "shown" /\ ~Bare(SeedStamp(t)) => view.ack_as = frame[t].to

\* With the same exception a click is never refused by post_ack: the page may
\* be stale, but its name stays good (web.py:59, api/threads.py:107-122).
ClickNeverRefused ==
  view.click # None /\ ~Bare(SeedStamp(view.thread)) =>
    pc[view.click] \notin {"403", "404"}

\* A click that was answered has closed the thread if it had one recipient,
\* however stale the page; if it had more, the recipient the button names is
\* marked or the thread closed (CHANGELOG.md:14, api/threads.py:213-228).
ClickCounts ==
  LET t == view.thread
  IN  view.click # None /\ Succeeded(view.click) =>
        /\ Posted(t) = {frame[t].to} => threads[t].status = "acked"
        /\ \/ threads[t].status = "acked"
           \/ thread_recipients[t][view.ack_as] = "acked"

\* A disabled button comes back or its page is reloaded, also when the
\* handler dies (templates/thread_detail.html:77-92).
ClickEnds == view.click # None ~> view.click = None
=============================================================================
