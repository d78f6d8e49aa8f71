------------------------------- MODULE MCMcp --------------------------------
(* Two tool calls of agents beside the thread, the claim and the ack of    *)
(* other clients.                                                          *)
EXTENDS Mcp, TLC

CONSTANTS host, shop, r1, a1, c1

Payloads == {[to |-> host, to_participants |-> <<>>],
             [to |-> shop, to_participants |-> <<>>]}

Tools == {r1, a1, c1}

McpSymmetry == Permutations(Call)

\* No name has a comma.
Whole == [n \in Name |-> {n}]
=============================================================================
