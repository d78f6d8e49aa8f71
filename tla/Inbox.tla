------------------------------- MODULE Inbox --------------------------------
(***************************************************************************)
(* Reading the chatroom: list_threads of store/threads.py, one SELECT that *)
(* serves GET /api/threads, the prompt hook and the dashboard.             *)
(***************************************************************************)
EXTENDS ApiProperties

CONSTANT Split   \* the names that each name falls into at its commas

\* An absent status filter is no status; a name that _validate accepts has no
\* comma.  No name is the empty text.
ASSUME InboxAssumption ==
  /\ None \notin {"open", "acked"}
  /\ Split \in [Name -> SUBSET Name]
  /\ \A n \in Name \cap ValidId : Split[n] = {n}

-----------------------------------------------------------------------------
(* list_threads; None, and {} for the types, stand for an absent filter *)

Addressed(t, n) == \/ n \in list_recipients(t)
                   \/ \E m \in MessagesOf(t) : m.to_participant = n

\* Mutant of Recent: the bound the wrong way round.
Recent_UpTo(t, since) == ~Before(since, threads[t].last_message_at)

\* last_message_at >= since, as texts.
Recent(t, since) == ~Before(threads[t].last_message_at, since)

list_threads(to, status, discussion_types, since) ==
  {t \in Thread :
     /\ Exists(t)
     /\ to # None => Addressed(t, to)
     /\ status # None => threads[t].status = status
     /\ discussion_types # {} => threads[t].discussion_type \in discussion_types
     /\ since # None => Recent(t, since)}

\* ORDER BY: open threads first, then the larger last_message_at.
Ahead(t, u) ==
  \/ threads[t].status = "open" /\ threads[u].status = "acked"
  \/ /\ threads[t].status = threads[u].status
     /\ Before(threads[u].last_message_at, threads[t].last_message_at)

\* Mutant of Shown: the registered recipients are left out.
Shown_RootOnly(t) == {{m.to_participant} : m \in First(t)}

\* The recipients a row is rendered with: the first message's, and the
\* registered ones, joined with commas by SQLite and split at them again.
Shown(t) ==
  {{m.to_participant} \cup UNION {Split[n] : n \in list_recipients(t)} : m \in First(t)}

\* What is kept of a row that is returned.
ListRow == [id              : Thread,
            status          : {"open", "acked"},
            discussion_type : DISCUSSION_TYPES \cup {None},
            claimed_by      : Name \cup {None}]

Row(t) == [id              |-> t,
           status          |-> threads[t].status,
           discussion_type |-> threads[t].discussion_type,
           claimed_by      |-> threads[t].claimed_by]

Rows(ids) == {Row(t) : t \in ids}

-----------------------------------------------------------------------------
(* Properties *)

\* A thread whose last committed message was stamped after the moment a client
\* asks from is listed, and one that was created at that very moment, unless the
\* client wrote the moment as a whole second without a fraction
\* (store/threads.py:91; the client's form is the one of _now_utc,
\* server/tests/test_threads_while_away.py:27).  A reply stamped in the very
\* microsecond asked from is not promised: '+' sorts before 'Z'.
SinceKeepsRecent ==
  \A t \in Thread, i \in [sec : 0 .. now.sec, us : Micro] :
    /\ Exists(t) /\ ~Bare(now_utc(i))
    /\ \/ threads[t].last_message_at.sec > i.sec
       \/ /\ threads[t].last_message_at.sec = i.sec
          /\ threads[t].last_message_at.us > i.us
       \/ threads[t].last_message_at = now_utc(i)
    => t \in list_threads(None, None, {}, now_utc(i))

\* Once the POST was answered, the row of a thread names exactly the recipients
\* it was posted to, unless the seed was stamped on a whole second or a
\* recipient has a comma in its name, which nothing refuses and which is then
\* listed as the names it falls into (store/threads.py:98-104, 128-136).
ListNamesRecipients ==
  \A t \in Thread :
    pc[t] = "ok" /\ ~Bare(SeedStamp(t)) /\ (\A n \in Posted(t) : Split[n] = {n})
      => Shown(t) = {Posted(t)}
=============================================================================
