---------------------------- MODULE MCDivergence ----------------------------
(***************************************************************************)
(* Statements of the change log about broadcast threads that the handlers  *)
(* do not keep.  Each is checked by a run of its own, which ends in the    *)
(* behaviour that breaks it.                                               *)
(***************************************************************************)
EXTENDS ApiProperties

CONSTANTS host, shop, blog

Payloads == {[to |-> None, to_participants |-> <<shop, blog>>]}

\* CHANGELOG.md:14: broadcast threads "record that recipient's ack and close
\* once all recipients have acked".  Acks of recipients alone can close one
\* over recipients that post_thread adds later (threads.py:75, 228).
RecipientAcksCloseTogether ==
  \A t \in Thread :
    /\ pc[t] = "ok" /\ threads[t].status = "acked"
    /\ \A r \in AcksOn(t) : frame[r].caller \in Posted(t)
    => Pending(t) = {}

\* CHANGELOG.md:14 again, with a handler dying between its mark and its flip
\* (threads.py:213-215): all recipients have acked and the thread stays open.
ClosesOnceAllAcked ==
  \A t \in Thread :
    pc[t] = "ok" /\ Pending(t) = {} ~> threads[t].status = "acked"
=============================================================================
