--------------------------- MODULE ApiProperties ----------------------------
(***************************************************************************)
(* What the chatroom's handlers promise, whatever requests interleave and  *)
(* wherever handlers die.                                                  *)
(***************************************************************************)
EXTENDS Api

\* The recipients a POST of thread t was answered with, or will be.
Posted(t) == {frame[t].recipients[i] : i \in DOMAIN frame[t].recipients}

\* The ack requests under way on t, or answered.
AcksOn(t) == {r \in Ack : frame[r].thread = t}

\* An ack that never looks at the other recipients: api/threads.py:228.
ActsAlone(r) == frame[r].caller \notin frame[r].extra

\* The row of the seed message of t.
SeedStamp(t) == frame[t].created_at

-----------------------------------------------------------------------------
(* Broadcast acknowledgement *)

\* When every recipient of a thread has had its ack answered, the thread is
\* closed: of the last two acks to run, at least one sees the other's mark
\* (post_ack marks before it checks, api/threads.py:213-215).
EveryoneAckedClosed ==
  \A t \in Thread :
    Exists(t) /\ (\A n \in Posted(t) : \E r \in AcksOn(t) :
                    pc[r] = "ok" /\ frame[r].caller = n)
      => threads[t].status = "acked"

\* An open thread with no pending recipient left has the ack that will close
\* it still between its mark and its flip; that ack is the only thing that
\* can (api/threads.py:213-215).
NoForgottenClose ==
  \A t \in Thread :
    threads[t].status = "open" /\ list_recipients(t) # {} /\ Pending(t) = {}
      => \E r \in AcksOn(t) : pc[r] \in {"check", "close"}

\* A thread closed over a pending recipient was closed by an ack of its creator
\* acting alone, or by one that read the recipients before post_thread had
\* added them all (api/threads.py:75, 186, 228): nothing else closes early.
EarlyCloseExplained ==
  \A t \in Thread :
    threads[t].status = "acked" /\ Pending(t) # {}
      => \E r \in AcksOn(t) :
           /\ pc[r] = "ok"
           /\ \/ frame[r].caller = threads[t].created_by /\ ActsAlone(r)
              \/ frame[r].extra # Posted(t)

\* The log covers the bookkeeping: a recipient marked as acked, and a thread
\* marked as acked, have an ack message in the thread, from that recipient
\* (api/threads.py:203 before 213, store/messages.py:94 with 107).
AcksAreLogged ==
  \A t \in Thread :
    LET acks == {m \in MessagesOf(t) : m.kind = "ack"}
    IN  /\ threads[t].status = "acked" => acks # {}
        /\ \A n \in Name : thread_recipients[t][n] = "acked" =>
             \E m \in acks : m.from_participant = n

\* An answered POST has registered exactly the recipients of its answer, a
\* POST under way or dead a part of them (api/threads.py:74-78).
RecipientsRegistered ==
  \A t \in Thread : /\ list_recipients(t) \subseteq Posted(t)
                    /\ pc[t] = "ok" => list_recipients(t) = Posted(t)

-----------------------------------------------------------------------------
(* Who writes to whom *)

\* Only the creator and the recipients it named write in a thread, also when
\* the first message read back was not the seed (api/threads.py:107-122).
OnlyParticipantsPost ==
  \A m \in messages :
    LET t == m.thread_id
    IN  /\ m.from_participant \in {threads[t].created_by} \cup Posted(t)
        /\ m.to_participant \in {threads[t].created_by, frame[t].to}

\* Unless the seed was stamped on a whole second, the creator's messages go to
\* the primary recipient and everyone else's to the creator
\* (api/threads.py:111-121).
RepliesCrossSides ==
  \A m \in messages :
    LET t == m.thread_id
    IN  ~Bare(SeedStamp(t)) =>
          m.to_participant = IF m.from_participant = threads[t].created_by
                               THEN frame[t].to ELSE threads[t].created_by

\* Unless it was stamped on a whole second, the seed is what ORDER BY
\* created_at puts first, in the order of two different texts
\* (api/threads.py:112, store/threads.py:15, store/messages.py:21).
SeedLeadsUnlessWholeSecond ==
  \A t \in Thread :
    Exists(t) /\ ~Bare(SeedStamp(t)) => \A m \in First(t) : m.id = t

\* A recipient whose request arrives after the POST was answered is not
\* refused (api/threads.py:75 before 79, 137, 187).
LateRecipientsNeverRefused ==
  \A t \in Thread, r \in Reply \cup Ack :
    [](pc[t] = "ok" /\ pc[r] = "idle" =>
         []~(/\ pc[r] = "403" /\ frame[r].thread = t
             /\ frame[r].caller \in Posted(t)))

-----------------------------------------------------------------------------
(* Claims *)

\* Every claim answered 200 named one and the same owner and scope, the
\* stored ones, and every 409 named that owner to somebody else, however
\* claims race and repeat (store/threads.py:243-263).
ClaimAgreement ==
  \A c \in Claim :
    LET caller == frame[c].caller
        row    == threads[frame[c].thread]
    IN  /\ pc[c] = "ok"  => /\ row.claimed_by = caller
                            /\ answer[c].claimed_by = caller
                            /\ answer[c].claim_scope = row.claim_scope
                            /\ row.claim_scope # None
        /\ pc[c] = "409" => /\ answer[c].claimed_by = row.claimed_by
                            /\ row.claimed_by \notin {None, caller}

-----------------------------------------------------------------------------
(* What no step does *)

TakesNothingBack ==
  /\ messages \subseteq messages'
  /\ \A t \in Thread :
       /\ threads[t].status = "acked" => threads'[t].status = "acked"
       /\ Exists(t) => /\ threads'[t].status # "absent"
                       /\ threads'[t].created_by = threads[t].created_by
       /\ threads[t].discussion_type # None =>
            threads'[t].discussion_type # None
       /\ threads[t].claimed_by # None =>
            /\ threads'[t].claimed_by = threads[t].claimed_by
            /\ threads'[t].claim_scope = threads[t].claim_scope
       /\ \A n \in Name :
            /\ thread_recipients[t][n] = "acked" =>
                 thread_recipients'[t][n] = "acked"
            /\ thread_recipients[t][n] # "absent" =>
                 thread_recipients'[t][n] # "absent"

\* No step takes a message back, reopens a thread, forgets a recipient or its
\* ack, or moves a claim (the store has no DELETE; store/threads.py:245,
\* store/recipients.py:18).
HistoryKept == [][TakesNothingBack]_tables

-----------------------------------------------------------------------------
(* Progress *)

\* A thread whose POST was answered and whose last recipient has been marked is
\* acked in the end, unless the handler that has to do it dies between its mark
\* and its flip (api/threads.py:213-215).
AllAckedCloses ==
  \A t \in Thread :
    pc[t] = "ok" /\ Pending(t) = {} ~>
      \/ threads[t].status = "acked"
      \/ \E r \in AcksOn(t) \cap failed : pc[r] \in {"check", "close"}
=============================================================================
