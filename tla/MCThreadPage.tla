---------------------------- MODULE MCThreadPage ----------------------------
(* Instances of ThreadPage: one thread, to one recipient or to two, one of *)
(* them possibly a name that no participant can have.                      *)
EXTENDS ThreadPage, TLC

CONSTANTS host, shop, blog, bad

Payloads == {[to |-> shop, to_participants |-> <<>>],
             [to |-> bad, to_participants |-> <<>>],
             [to |-> None, to_participants |-> <<shop, blog>>]}
====
