------------------------------- MODULE MCHook -------------------------------
(* Two sessions: in the container of one project, on the host, or in the   *)
(* container of a project, odd, whose name has a character that the file's *)
(* name has not, so that its file is the first project's.                  *)
EXTENDS Hook, TLC

CONSTANTS shop, odd, s1, s2

Lower(w) == [word |-> w, upper |-> FALSE]
Mixed(w) == [word |-> w, upper |-> TRUE]

OnHost      == [PB_CHATROOM_PARTICIPANT_ID |-> None, DDEV_PROJECT |-> None]
InContainer == [PB_CHATROOM_PARTICIPANT_ID |-> Empty, DDEV_PROJECT |-> Lower(shop)]
InNamed     == [PB_CHATROOM_PARTICIPANT_ID |-> None, DDEV_PROJECT |-> Mixed(shop)]
InOdd       == [PB_CHATROOM_PARTICIPANT_ID |-> None, DDEV_PROJECT |-> Lower(odd)]

Shared   == {s \in [Session -> {InContainer, OnHost, InOdd}] : s[s1] = InContainer}
Capital  == {[s \in Session |-> InNamed]}

Shops == {Container(Lower(shop))}

Lengths     == [w \in Word |-> 4]
Underscores == [w \in Word |-> IF w = odd THEN shop ELSE w]
====
