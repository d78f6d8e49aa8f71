------------------------------- MODULE MCTalk -------------------------------
(* One thread, the messages that follow it and how it is listed, on a      *)
(* clock that also shows whole seconds.  both is the text "host,shop".     *)
EXTENDS Inbox

CONSTANTS host, shop, blog, both

Payloads == {[to |-> shop, to_participants |-> <<>>],
             [to |-> both, to_participants |-> <<>>],
             [to |-> None, to_participants |-> <<shop, shop, blog>>]}

Parts == [n \in Name |-> IF n = both THEN {host, shop} ELSE {n}]
=============================================================================
