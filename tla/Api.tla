-------------------------------- MODULE Api ---------------------------------
(***************************************************************************)
(* The REST handlers of server/src/pb_chatroom/api/threads.py that change  *)
(* state: post_thread, post_message, post_claim and post_ack.  They are    *)
(* coroutines of one event loop over the store of module Store.  A handler *)
(* runs uninterrupted between two awaits and every await is a store call,  *)
(* so a step below is one store call, or the code between two of them.     *)
(* Any number of requests interleave at that grain.                        *)
(*                                                                         *)
(* A request is a member of Thread, Reply, Ack or Claim and happens at     *)
(* most once; who sends it, to which thread and with which payload is      *)
(* chosen when it arrives.                                                 *)
(***************************************************************************)
EXTENDS Store, Sequences, FiniteSets

CONSTANTS ValidId,    \* the names _validate accepts
          Header,     \* X-PB-Chatroom-Participant values clients send
          Payload,    \* recipients of POST /api/threads: [to, to_participants]
          TypeSent,   \* discussion_type values clients send, None if left out
          MaxFail     \* bound: handlers that may die part-way

Request == Thread \cup Reply \cup Ack \cup Claim

ASSUME ApiAssumption ==
  /\ ValidId \subseteq Name
  /\ Header \subseteq Name \cup {None}
  /\ Payload \subseteq [to : Name \cup {None}, to_participants : Seq(Name)]
  /\ None \notin DISCUSSION_TYPES

VARIABLES now,      \* the clock
          pc,       \* where each handler is, or the answer it gave
          frame,    \* its local variables
          answer,   \* the bodies of the claims' answers
          failed    \* handlers that died where pc says

vars == <<threads, messages, thread_recipients, now, pc, frame, answer, failed>>

Running  == {"create", "type", "add", "recipients", "resolve",
             "append", "append_ack", "insert", "mark", "check", "close"}
Answered == {"ok", "400", "403", "404", "409", "422"}

(***************************************************************************)
(* Locals.  caller: the resolved participant.  thread: the path parameter. *)
(* to: messages[0]'s to_participant, then the recipient.  extra: extra_ids.*)
(* recipients, next: all_recipients and the loop over it.                  *)
(***************************************************************************)
Frame == [caller          : Name \cup {None},
          thread          : Thread \cup {None},
          to              : Name \cup {None},
          extra           : SUBSET Name,
          discussion_type : DISCUSSION_TYPES \cup {None},
          created_at      : Stamp \cup {None},
          recipients      : Seq(Name),
          next            : Nat \ {0}]

Locals(caller, thread, to, discussion_type, created_at, recipients) ==
  [caller          |-> caller,
   thread          |-> thread,
   to              |-> to,
   extra           |-> {},
   discussion_type |-> discussion_type,
   created_at      |-> created_at,
   recipients      |-> recipients,
   next            |-> 1]

\* What an answer to a claim shows: 200 the stored claim, 409 its owner.
ClaimResponse == [claimed_by  : Name \cup {None},
                  claim_scope : Claim \cup {None}]

TypeOK ==
  /\ StoreTypeOK
  /\ now \in Instant
  /\ pc \in [Request -> {"idle"} \cup Running \cup Answered]
  /\ frame \in [Request -> Frame]
  /\ answer \in [Claim -> ClaimResponse]
  /\ failed \in SUBSET Request

Init ==
  /\ InitStore
  /\ now \in [sec : {0}, us : Micro]
  /\ pc = [r \in Request |-> "idle"]
  /\ frame = [r \in Request |-> Locals(None, None, None, None, None, <<>>)]
  /\ answer = [c \in Claim |-> [claimed_by |-> None, claim_scope |-> None]]
  /\ failed = {}

At(r, l) == pc[r] = l /\ r \notin failed

Goto(r, l) == pc' = [pc EXCEPT ![r] = l]

-----------------------------------------------------------------------------
(* Validation, before any store call *)

Caller == Header \cap ValidId

HasRecipient(p) == p.to # None \/ p.to_participants # <<>>

ValidType(d) == d \in DISCUSSION_TYPES \cup {None}

\* Answered before the handler has done anything.
TurnAway(r, status) ==
  /\ At(r, "idle")
  /\ Goto(r, status)
  /\ UNCHANGED <<tables, now, frame, answer, failed>>

\* schemas.py answers 422 to the body, _resolve_participant 400 to the header.
Reject(r) ==
  \/ /\ \/ r \in Thread /\ \E p \in Payload : ~HasRecipient(p)
        \/ r \notin Claim /\ \E d \in TypeSent : ~ValidType(d)
     /\ TurnAway(r, "422")
  \/ (\E h \in Header : h \notin ValidId) /\ TurnAway(r, "400")

-----------------------------------------------------------------------------
(* POST /api/threads *)

\* Mutant of primary: the list is forgotten.
primary_ToOnly(p) == p.to

\* `to` wins; else first of list.
primary(p) == IF p.to # None THEN p.to ELSE Head(p.to_participants)

extras(p) == IF p.to_participants = <<>> THEN <<>> ELSE Tail(p.to_participants)

ReceiveThread(t) ==
  /\ At(t, "idle")
  /\ \E caller \in Caller, p \in Payload, d \in TypeSent, i \in Later(now) :
       /\ HasRecipient(p) /\ ValidType(d)
       /\ now' = i
       /\ frame' = [frame EXCEPT ![t] =
                      Locals(caller, t, primary(p), d, now_utc(i),
                             <<primary(p)>> \o extras(p))]
  /\ Goto(t, "create")
  /\ UNCHANGED <<tables, answer, failed>>

CreateThread(t) ==
  /\ At(t, "create")
  /\ create_thread(t, frame[t].caller, frame[t].to, frame[t].created_at)
  /\ Goto(t, IF frame[t].discussion_type = None THEN "add" ELSE "type")
  /\ UNCHANGED <<now, frame, answer, failed>>

\* Mutant of AddRecipient: the loop ends one short.
AddRecipient_Short(t) ==
  /\ At(t, "add")
  /\ add_recipient(t, frame[t].recipients[frame[t].next])
  /\ frame' = [frame EXCEPT ![t].next = @ + 1]
  /\ Goto(t, IF frame[t].next + 1 < Len(frame[t].recipients) THEN "add" ELSE "ok")
  /\ UNCHANGED <<now, answer, failed>>

AddRecipient(t) ==
  /\ At(t, "add")
  /\ add_recipient(t, frame[t].recipients[frame[t].next])
  /\ frame' = [frame EXCEPT ![t].next = @ + 1]
  /\ Goto(t, IF frame[t].next < Len(frame[t].recipients) THEN "add" ELSE "ok")
  /\ UNCHANGED <<now, answer, failed>>

\* Both posting handlers: the type goes on the thread in its own transaction.
SetType(r) ==
  /\ At(r, "type")
  /\ set_discussion_type(frame[r].thread, frame[r].discussion_type)
  /\ Goto(r, IF r \in Thread THEN "add" ELSE "ok")
  /\ UNCHANGED <<now, frame, answer, failed>>

-----------------------------------------------------------------------------
(* The common head of post_message and post_ack *)

\* get_thread_with_messages.  What is kept of the result is created_by, which
\* never changes, and the first message's recipient.  post_ack validates the
\* discussion_type of its body and makes no use of it.
ReadThread(r) ==
  /\ At(r, "idle")
  /\ \E caller \in Caller, t \in Thread,
        d \in IF r \in Reply THEN TypeSent ELSE {None} :
       /\ ValidType(d)
       /\ \/ /\ ~Exists(t)
             /\ frame' = [frame EXCEPT ![r] =
                            Locals(caller, t, None, d, None, <<>>)]
             /\ Goto(r, "404")
          \/ \E m \in First(t) :
             /\ frame' = [frame EXCEPT ![r] =
                            Locals(caller, t, m.to_participant, d, None, <<>>)]
             /\ Goto(r, "recipients")
  /\ UNCHANGED <<tables, now, answer, failed>>

ReadRecipients(r) ==
  /\ At(r, "recipients")
  /\ frame' = [frame EXCEPT ![r].extra = list_recipients(frame[r].thread)]
  /\ Goto(r, "resolve")
  /\ UNCHANGED <<tables, now, answer, failed>>

\* Mutants of _resolve_participants: nobody is refused; the sides are swapped;
\* thread_recipients members are forgotten.
_resolve_participants_Open(f) ==
  LET created_by == threads[f.thread].created_by
  IN  IF f.caller = created_by THEN f.to ELSE created_by

_resolve_participants_Swapped(f) ==
  LET created_by == threads[f.thread].created_by
  IN  IF f.caller = created_by THEN created_by
      ELSE IF f.caller \in {f.to} \cup f.extra THEN f.to
      ELSE None

_resolve_participants_Pair(f) ==
  LET created_by == threads[f.thread].created_by
  IN  IF f.caller = created_by THEN f.to
      ELSE IF f.caller = f.to THEN created_by
      ELSE None

\* The recipient of a reply, None where the code raises 403.
_resolve_participants(f) ==
  LET created_by == threads[f.thread].created_by
  IN  IF f.caller = created_by THEN f.to
      ELSE IF f.caller \in {f.to} \cup f.extra THEN created_by
      ELSE None

Refuse(r) ==
  /\ At(r, "resolve")
  /\ _resolve_participants(frame[r]) = None
  /\ Goto(r, "403")
  /\ UNCHANGED <<tables, now, frame, answer, failed>>

\* The store functions stamp before they connect.
Resolve(r) ==
  /\ At(r, "resolve")
  /\ _resolve_participants(frame[r]) # None
  /\ \E i \in Later(now) :
       /\ now' = i
       /\ frame' = [frame EXCEPT ![r].to = _resolve_participants(frame[r]),
                                 ![r].created_at = now_iso(i)]
  /\ Goto(r, IF r \in Reply THEN "append"
             ELSE IF frame[r].caller \in frame[r].extra THEN "insert"
             ELSE "append_ack")
  /\ UNCHANGED <<tables, answer, failed>>

-----------------------------------------------------------------------------
(* POST /api/threads/{id}/messages *)

AppendMessage(r) ==
  /\ At(r, "append")
  /\ append_message(r, frame[r].thread, frame[r].caller, frame[r].to,
                    frame[r].created_at)
  /\ Goto(r, IF frame[r].discussion_type = None THEN "ok" ELSE "type")
  /\ UNCHANGED <<now, frame, answer, failed>>

-----------------------------------------------------------------------------
(* POST /api/threads/{id}/ack *)

\* A caller who is not in extra_ids: the thread is acked at once.
AppendAck(r) ==
  /\ At(r, "append_ack")
  /\ append_ack(r, frame[r].thread, frame[r].caller, frame[r].to,
                frame[r].created_at)
  /\ Goto(r, "ok")
  /\ UNCHANGED <<now, frame, answer, failed>>

\* A caller who is: message, mark, check and flip are four transactions.
InsertAck(r) ==
  /\ At(r, "insert")
  /\ insert_ack(r, frame[r].thread, frame[r].caller, frame[r].to,
                frame[r].created_at)
  /\ Goto(r, "mark")
  /\ UNCHANGED <<now, frame, answer, failed>>

MarkRecipient(r) ==
  /\ At(r, "mark")
  /\ mark_recipient_acked(frame[r].thread, frame[r].caller)
  /\ Goto(r, "check")
  /\ UNCHANGED <<now, frame, answer, failed>>

\* Mutants of CheckAll: the check as it would read before the mark; no check.
CheckAll_BeforeMark(r) ==
  /\ At(r, "check")
  /\ Goto(r, IF Pending(frame[r].thread) = {frame[r].caller} THEN "close" ELSE "ok")
  /\ UNCHANGED <<tables, now, frame, answer, failed>>

CheckAll_Never(r) ==
  /\ At(r, "check")
  /\ Goto(r, "close")
  /\ UNCHANGED <<tables, now, frame, answer, failed>>

CheckAll(r) ==
  /\ At(r, "check")
  /\ Goto(r, IF all_recipients_acked(frame[r].thread) THEN "close" ELSE "ok")
  /\ UNCHANGED <<tables, now, frame, answer, failed>>

CloseThread(r) ==
  /\ At(r, "close")
  /\ update_thread_status(frame[r].thread, "acked")
  /\ Goto(r, "ok")
  /\ UNCHANGED <<now, frame, answer, failed>>

-----------------------------------------------------------------------------
(* POST /api/threads/{id}/claim *)

\* Mutant of PostClaim: 409 unless this very UPDATE changed the row.
PostClaim_Strict(c) ==
  /\ At(c, "idle")
  /\ \E caller \in Caller, t \in Thread :
       /\ set_claim(t, caller, c)
       /\ LET owner == threads'[t].claimed_by
              scope == threads'[t].claim_scope
          IN  /\ answer' = [answer EXCEPT ![c] =
                              [claimed_by  |-> owner,
                               claim_scope |-> IF scope = c THEN scope ELSE None]]
              /\ Goto(c, IF ~Exists(t) THEN "404"
                         ELSE IF scope = c THEN "ok" ELSE "409")
       /\ frame' = [frame EXCEPT ![c] = Locals(caller, t, None, None, None, <<>>)]
  /\ UNCHANGED <<now, failed>>

\* One store call; the answer is read in the same transaction.  Any valid
\* caller may claim any thread.
PostClaim(c) ==
  /\ At(c, "idle")
  /\ \E caller \in Caller, t \in Thread :
       /\ set_claim(t, caller, c)
       /\ LET owner == threads'[t].claimed_by
              scope == threads'[t].claim_scope
          IN  /\ answer' = [answer EXCEPT ![c] =
                              [claimed_by  |-> owner,
                               claim_scope |-> IF owner = caller THEN scope
                                               ELSE None]]
              /\ Goto(c, IF ~Exists(t) THEN "404"
                         ELSE IF owner = caller THEN "ok" ELSE "409")
       /\ frame' = [frame EXCEPT ![c] = Locals(caller, t, None, None, None, <<>>)]
  /\ UNCHANGED <<now, failed>>

-----------------------------------------------------------------------------
(***************************************************************************)
(* A handler dies between two store calls: SQLITE_BUSY or a full disk      *)
(* raises out of it (500), or the process is killed, which is this step    *)
(* for every running handler in a row.  What it committed stays.           *)
(***************************************************************************)
Fail(r) ==
  /\ pc[r] \in Running /\ r \notin failed
  /\ Cardinality(failed) < MaxFail
  /\ failed' = failed \cup {r}
  /\ UNCHANGED <<tables, now, pc, frame, answer>>

\* The next step of a handler that is under way.
Step(r) ==
  \/ r \in Thread /\ (CreateThread(r) \/ AddRecipient(r))
  \/ r \in Thread \cup Reply /\ SetType(r)
  \/ r \in Reply \cup Ack /\ (ReadRecipients(r) \/ Refuse(r) \/ Resolve(r))
  \/ r \in Reply /\ AppendMessage(r)
  \/ r \in Ack /\ (AppendAck(r) \/ InsertAck(r) \/ MarkRecipient(r)
                   \/ CheckAll(r) \/ CloseThread(r))

Arrive(r) ==
  \/ r \in Thread /\ ReceiveThread(r)
  \/ r \in Reply \cup Ack /\ ReadThread(r)
  \/ r \in Claim /\ PostClaim(r)
  \/ Reject(r)

Next == \E r \in Request : Arrive(r) \/ Step(r) \/ Fail(r)

Spec == Init /\ [][Next]_vars

(***************************************************************************)
(* The event loop resumes every handler whose store call has returned;     *)
(* nothing obliges a client to send a request or a handler to die.         *)
(***************************************************************************)
FairSpec == Spec /\ \A r \in Request : WF_vars(Step(r))
=============================================================================
