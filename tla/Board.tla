------------------------------- MODULE Board --------------------------------
(***************************************************************************)
(* What the chatroom promises of its threads, with no request, handler or  *)
(* table in sight: a thread is posted once, owes an acknowledgement to     *)
(* each recipient, is closed and never reopened, and may be claimed once.  *)
(* Api implements it (module ApiBoard says how its state is read as this   *)
(* one), whatever requests interleave and wherever handlers die.           *)
(*                                                                         *)
(* Two liberties the code takes are part of the promise.  The author of a  *)
(* thread may close it over the heads of its recipients, and so may an     *)
(* acknowledgement that overtakes the posting, which is atomic neither for *)
(* its recipients nor for its client: until the thread is settled the      *)
(* recipients known may be only some.                                      *)
(***************************************************************************)
CONSTANTS Thread, Message, Claim, Name, None

VARIABLES state,       \* of each thread
          author,      \* who posted it
          recipients,  \* to whom
          owed,        \* recipients whose acknowledgement is still to come
          settled,     \* threads whose posting is complete
          overtaken,   \* threads acknowledged by somebody before they were settled
          owner,       \* who claimed a thread
          scope,       \* with which claim
          log          \* what was said, by whom and where

board == <<state, author, recipients, owed, settled, overtaken, owner, scope, log>>

Entry == [id : Message, thread : Thread, from : Name, kind : {"message", "ack"}]

TypeOK ==
  /\ state \in [Thread -> {"absent", "open", "acked"}]
  /\ author \in [Thread -> Name \cup {None}]
  /\ recipients \in [Thread -> SUBSET Name]
  /\ owed \in [Thread -> SUBSET Name]
  /\ settled \subseteq Thread /\ overtaken \subseteq Thread
  /\ owner \in [Thread -> Name \cup {None}]
  /\ scope \in [Thread -> Claim \cup {None}]
  /\ log \subseteq Entry

Init ==
  /\ state = [t \in Thread |-> "absent"]
  /\ author = [t \in Thread |-> None]
  /\ recipients = [t \in Thread |-> {}]
  /\ owed = [t \in Thread |-> {}]
  /\ settled = {} /\ overtaken = {}
  /\ owner = [t \in Thread |-> None]
  /\ scope = [t \in Thread |-> None]
  /\ log = {}

Participants(t) == {author[t]} \cup recipients[t]

Enter(id, t, n, kind) ==
  log' = log \cup {[id |-> id, thread |-> t, from |-> n, kind |-> kind]}

-----------------------------------------------------------------------------

Post(t, id, n, to) ==
  /\ state[t] = "absent"
  /\ state' = [state EXCEPT ![t] = "open"]
  /\ author' = [author EXCEPT ![t] = n]
  /\ recipients' = [recipients EXCEPT ![t] = to]
  /\ owed' = [owed EXCEPT ![t] = to]
  /\ Enter(id, t, n, "message")
  /\ UNCHANGED <<settled, overtaken, owner, scope>>

Settle(t) ==
  /\ state[t] # "absent"
  /\ settled' = settled \cup {t}
  /\ UNCHANGED <<state, author, recipients, owed, overtaken, owner, scope, log>>

Overtake(t) ==
  /\ state[t] # "absent" /\ t \notin settled
  /\ overtaken' = overtaken \cup {t}
  /\ UNCHANGED <<state, author, recipients, owed, settled, owner, scope, log>>

\* Speaking in a closed thread does not open it.
Say(t, id, n, kind) ==
  /\ state[t] # "absent"
  /\ n \in Participants(t)
  /\ Enter(id, t, n, kind)
  /\ UNCHANGED <<state, author, recipients, owed, settled, overtaken, owner, scope>>

\* An acknowledgement counts once it has been said.
Discharge(t, n) ==
  /\ n \in owed[t]
  /\ \E e \in log : e.thread = t /\ e.from = n /\ e.kind = "ack"
  /\ owed' = [owed EXCEPT ![t] = @ \ {n}]
  /\ UNCHANGED <<state, author, recipients, settled, overtaken, owner, scope, log>>

Close(t) ==
  /\ state[t] = "open"
  /\ owed[t] = {} \/ t \in overtaken
  /\ state' = [state EXCEPT ![t] = "acked"]
  /\ UNCHANGED <<author, recipients, owed, settled, overtaken, owner, scope, log>>

\* Said and closed in one: the author, or whoever overtakes the posting.
Dismiss(t, id, n) ==
  /\ state[t] # "absent"
  /\ n = author[t] \/ (n \in recipients[t] /\ t \in overtaken)
  /\ state' = [state EXCEPT ![t] = "acked"]
  /\ Enter(id, t, n, "ack")
  /\ UNCHANGED <<author, recipients, owed, settled, overtaken, owner, scope>>

Take(t, n, c) ==
  /\ state[t] # "absent" /\ owner[t] = None
  /\ owner' = [owner EXCEPT ![t] = n]
  /\ scope' = [scope EXCEPT ![t] = c]
  /\ UNCHANGED <<state, author, recipients, owed, settled, overtaken, log>>

Next ==
  \E t \in Thread :
    \/ Settle(t) \/ Overtake(t) \/ Close(t)
    \/ \E n \in Name :
         \/ Discharge(t, n)
         \/ \E c \in Claim : Take(t, n, c)
         \/ \E id \in Message :
              \/ \E to \in SUBSET Name : Post(t, id, n, to)
              \/ \E kind \in {"message", "ack"} : Say(t, id, n, kind)
              \/ Dismiss(t, id, n)

Spec == Init /\ [][Next]_board

-----------------------------------------------------------------------------

\* A thread is closed over a recipient who still owes an acknowledgement only
\* if its author acknowledged it or somebody overtook its posting.
ClosedIsDischarged ==
  \A t \in Thread :
    state[t] = "acked" /\ owed[t] # {} =>
      \/ t \in overtaken
      \/ \E e \in log : e.thread = t /\ e.from = author[t] /\ e.kind = "ack"

\* Who owes nothing any more has acknowledged.
DischargedIsSaid ==
  \A t \in Thread, n \in Name :
    n \in recipients[t] \ owed[t] =>
      \E e \in log : e.thread = t /\ e.from = n /\ e.kind = "ack"
=============================================================================
