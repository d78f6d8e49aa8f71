------------------------------- MODULE Store --------------------------------
(***************************************************************************)
(* The SQLite store of the chatroom server (server/src/pb_chatroom/store). *)
(* Every function of it opens a connection of its own and commits before   *)
(* it returns, so each one is a single atomic change of the three tables,  *)
(* and nothing holds them together across two calls.  The operators below  *)
(* are those changes; module Api calls them from the request handlers.     *)
(***************************************************************************)
EXTENDS Stamps

CONSTANTS Thread,   \* POST /api/threads requests; each names the uuid it draws
          Reply,    \* POST /api/threads/{id}/messages requests
          Ack,      \* POST /api/threads/{id}/ack requests
          Claim,    \* POST /api/threads/{id}/claim requests
          Name,     \* texts that may stand as a participant id
          None      \* SQL NULL, JSON null, an absent header

ASSUME StoreAssumption ==
  /\ None \notin Thread \cup Reply \cup Ack \cup Claim \cup Name
  /\ Thread \cap Reply = {} /\ Thread \cap Ack = {} /\ Thread \cap Claim = {}
  /\ Reply \cap Ack = {} /\ Reply \cap Claim = {} /\ Ack \cap Claim = {}

VARIABLES threads,            \* the threads table, by id
          messages,           \* the messages table
          thread_recipients   \* the thread_recipients table, by its primary key

tables == <<threads, messages, thread_recipients>>

\* schemas.py
DISCUSSION_TYPES == {"claim_request", "claim_accepted", "design_question",
                     "debate", "postmortem", "escalation"}

(***************************************************************************)
(* Rows.  A thread that has no row has status "absent".  claim_scope names *)
(* the claim request whose scope text is stored; acked_at is kept only as  *)
(* NULL or not, the one thing the code reads of it.                        *)
(***************************************************************************)
ThreadRow == [created_by      : Name \cup {None},
              status          : {"absent", "open", "acked"},
              discussion_type : DISCUSSION_TYPES \cup {None},
              claimed_by      : Name \cup {None},
              claim_scope     : Claim \cup {None},
              last_message_at : Stamp \cup {None}]

MessageRow == [id               : Thread \cup Reply \cup Ack,
               thread_id        : Thread,
               from_participant : Name,
               to_participant   : Name,
               kind             : {"message", "ack"},
               created_at       : Stamp]

StoreTypeOK ==
  /\ threads \in [Thread -> ThreadRow]
  /\ messages \subseteq MessageRow
  /\ thread_recipients \in [Thread -> [Name -> {"absent", "pending", "acked"}]]

NoThread == [created_by |-> None, status |-> "absent", discussion_type |-> None,
             claimed_by |-> None, claim_scope |-> None, last_message_at |-> None]

\* init_schema on a new file.
InitStore ==
  /\ threads = [t \in Thread |-> NoThread]
  /\ messages = {}
  /\ thread_recipients = [t \in Thread |-> [n \in Name |-> "absent"]]

-----------------------------------------------------------------------------
(* Queries *)

Exists(t) == threads[t].status # "absent"

MessagesOf(t) == {m \in messages : m.thread_id = t}

\* Mutant of First: ORDER BY created_at DESC.
First_Newest(t) == {m \in MessagesOf(t) :
                      \A n \in MessagesOf(t) : ~Before(m.created_at, n.created_at)}

\* The rows ORDER BY created_at ASC may put first.
First(t) == {m \in MessagesOf(t) :
               \A n \in MessagesOf(t) : ~Before(n.created_at, m.created_at)}

list_recipients(t) == {n \in Name : thread_recipients[t][n] # "absent"}

Pending(t) == {n \in Name : thread_recipients[t][n] = "pending"}

\* Mutant: the COUNT without AND acked_at IS NULL.
all_recipients_acked_AnyRow(t) == list_recipients(t) = {}

all_recipients_acked(t) == Pending(t) = {}

-----------------------------------------------------------------------------
(* Transactions *)

\* One INSERT into messages and the UPDATE of the thread's last_message_at.
Insert(id, t, from, to, kind, at) ==
  messages' = messages \cup
    {[id |-> id, thread_id |-> t, from_participant |-> from,
      to_participant |-> to, kind |-> kind, created_at |-> at]}

create_thread(t, created_by, to, at) ==
  /\ threads' = [threads EXCEPT ![t] =
                   [created_by |-> created_by, status |-> "open",
                    discussion_type |-> None, claimed_by |-> None,
                    claim_scope |-> None, last_message_at |-> at]]
  /\ Insert(t, t, created_by, to, "message", at)
  /\ UNCHANGED thread_recipients

set_discussion_type(t, d) ==
  /\ threads' = [threads EXCEPT ![t].discussion_type = d]
  /\ UNCHANGED <<messages, thread_recipients>>

\* INSERT OR IGNORE: an existing row, acked or not, stays as it is.
add_recipient(t, n) ==
  /\ thread_recipients' =
       [thread_recipients EXCEPT ![t][n] = IF @ = "absent" THEN "pending" ELSE @]
  /\ UNCHANGED <<threads, messages>>

\* Mutant of append_message: a reply reopens its thread.
append_message_Reopens(id, t, from, to, at) ==
  /\ Exists(t)
  /\ Insert(id, t, from, to, "message", at)
  /\ threads' = [threads EXCEPT ![t].status = "open",
                                ![t].last_message_at = at]
  /\ UNCHANGED thread_recipients

append_message(id, t, from, to, at) ==
  /\ Exists(t)
  /\ Insert(id, t, from, to, "message", at)
  /\ threads' = [threads EXCEPT ![t].last_message_at = at]
  /\ UNCHANGED thread_recipients

append_ack(id, t, from, to, at) ==
  /\ Exists(t)
  /\ Insert(id, t, from, to, "ack", at)
  /\ threads' = [threads EXCEPT ![t].status = "acked",
                                ![t].last_message_at = at]
  /\ UNCHANGED thread_recipients

\* Mutants of insert_ack: the message kind left as it was pasted; the thread
\* put back to open.
insert_ack_AsMessage(id, t, from, to, at) ==
  /\ Exists(t)
  /\ Insert(id, t, from, to, "message", at)
  /\ threads' = [threads EXCEPT ![t].last_message_at = at]
  /\ UNCHANGED thread_recipients

insert_ack_Reopens(id, t, from, to, at) ==
  /\ Exists(t)
  /\ Insert(id, t, from, to, "ack", at)
  /\ threads' = [threads EXCEPT ![t].status = "open",
                                ![t].last_message_at = at]
  /\ UNCHANGED thread_recipients

\* The transaction written inline in api/threads.py:post_ack: no status flip.
insert_ack(id, t, from, to, at) ==
  /\ Exists(t)
  /\ Insert(id, t, from, to, "ack", at)
  /\ threads' = [threads EXCEPT ![t].last_message_at = at]
  /\ UNCHANGED thread_recipients

\* UPDATE ... WHERE thread_id = ? AND participant_id = ?: no row, no change.
mark_recipient_acked(t, n) ==
  /\ thread_recipients' =
       [thread_recipients EXCEPT ![t][n] = IF @ = "absent" THEN @ ELSE "acked"]
  /\ UNCHANGED <<threads, messages>>

update_thread_status(t, status) ==
  /\ threads' = [threads EXCEPT ![t].status = status]
  /\ UNCHANGED <<messages, thread_recipients>>

\* Mutants of set_claim: the last claim wins; the owner's repeat writes again.
set_claim_LastWins(t, participant_id, scope) ==
  /\ threads' = IF Exists(t)
                  THEN [threads EXCEPT ![t].claimed_by = participant_id,
                                       ![t].claim_scope = scope]
                  ELSE threads
  /\ UNCHANGED <<messages, thread_recipients>>

set_claim_Rewrites(t, participant_id, scope) ==
  /\ threads' = IF Exists(t) /\ threads[t].claimed_by \in {None, participant_id}
                  THEN [threads EXCEPT ![t].claimed_by = participant_id,
                                       ![t].claim_scope = scope]
                  ELSE threads
  /\ UNCHANGED <<messages, thread_recipients>>

\* UPDATE ... WHERE id = ? AND claimed_by IS NULL.
set_claim(t, participant_id, scope) ==
  /\ threads' = IF Exists(t) /\ threads[t].claimed_by = None
                  THEN [threads EXCEPT ![t].claimed_by = participant_id,
                                       ![t].claim_scope = scope]
                  ELSE threads
  /\ UNCHANGED <<messages, thread_recipients>>
=============================================================================
