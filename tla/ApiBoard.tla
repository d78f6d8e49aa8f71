------------------------------ MODULE ApiBoard ------------------------------
(***************************************************************************)
(* The handlers of Api implement Board.                                    *)
(***************************************************************************)
EXTENDS ApiProperties

(* How the tables and handlers are read as a board *)

\* Who owes an acknowledgement: the recipients the POST named, registered yet
\* or not, unless marked.
Owed(t) == {n \in Posted(t) : thread_recipients[t][n] # "acked"}

\* An ack read the recipients before post_thread had registered them all.
Overtaken(t) ==
  \E r \in AcksOn(t) :
    /\ pc[r] \notin {"idle", "400", "422", "404", "recipients"}
    /\ frame[r].extra # Posted(t)

State      == [t \in Thread |-> threads[t].status]
Author     == [t \in Thread |-> threads[t].created_by]
Recipients == [t \in Thread |-> IF Exists(t) THEN Posted(t) ELSE {}]
Debts      == [t \in Thread |-> IF Exists(t) THEN Owed(t) ELSE {}]
Settled    == {t \in Thread : pc[t] = "ok"}
Hurried    == {t \in Thread : Overtaken(t)}
Owner      == [t \in Thread |-> threads[t].claimed_by]
Scope      == [t \in Thread |-> threads[t].claim_scope]

Said(m) == [id |-> m.id, thread |-> m.thread_id, from |-> m.from_participant,
            kind |-> m.kind]
Log     == {Said(m) : m \in messages}

Abstract == INSTANCE Board WITH
  Message <- Thread \cup Reply \cup Ack, state <- State, author <- Author,
  recipients <- Recipients, owed <- Debts, settled <- Settled,
  overtaken <- Hurried, owner <- Owner, scope <- Scope, log <- Log

\* Every behaviour of the handlers is one the board allows: a thread closes
\* over a recipient only by its author or by an ack that overtook its POST,
\* marks follow logged acks, closes and claims are for good, also when requests
\* race and handlers die (api/threads.py:49-239).
ImplementsBoard == Abstract!Spec
=============================================================================
