------------------------------- MODULE MCAcks -------------------------------
(* One broadcast thread, its recipients racing to acknowledge it.          *)
EXTENDS ApiBoard, TLC

CONSTANTS host, shop, blog

Payloads == {[to |-> None, to_participants |-> <<shop, blog>>]}

AckSymmetry == Permutations(Ack)
=============================================================================
