------------------------------ MODULE MCClaims ------------------------------
(* Claims racing, repeating and arriving before or after their thread, among *)
(* requests the server turns away.                                       *)
EXTENDS ApiBoard, TLC

CONSTANTS host, shop

Payloads == {[to |-> shop, to_participants |-> <<>>],
             [to |-> None, to_participants |-> <<>>]}

ClaimSymmetry == Permutations(Claim) \cup Permutations(Thread)
=============================================================================
