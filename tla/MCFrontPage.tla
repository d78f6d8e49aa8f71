---------------------------- MODULE MCFrontPage -----------------------------
(* The front page over one busy thread. *)
EXTENDS FrontPage

CONSTANTS host, shop

Payloads == {[to |-> shop, to_participants |-> <<>>]}

\* No name has a comma.
Whole == [n \in Name |-> {n}]
=============================================================================
