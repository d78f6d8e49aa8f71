------------------------------ MODULE Identity ------------------------------
(***************************************************************************)
(* Who a process is in the chatroom: resolve_participant_id of the server  *)
(* and the MCP server (one text, two copies), the lines at the head of the *)
(* slash commands, and those at the head of the prompt hook.               *)
(*                                                                         *)
(* A text is a word in lower or mixed case, or empty; an environment       *)
(* variable is a text, or None when it is not set.  A name is a text, with *)
(* the prefix container- or without.  Of a word's characters only two      *)
(* things are kept: whether one is outside [A-Za-z0-9_-], which no change  *)
(* of case mends, and how many there are.  Words that begin with           *)
(* container- or end with a newline are left out.                          *)
(***************************************************************************)
EXTENDS Naturals

CONSTANTS Word, host, None,
          Odd,     \* words with a character that _VALID refuses in either case
          Length,  \* of each word
          Safe     \* each word with such characters replaced by the hook

ASSUME IdentityAssumption ==
  /\ host \in Word /\ None \notin Word
  /\ Odd \subseteq Word \ {host}
  /\ Length \in [Word -> Nat] /\ Length[host] = 4
  /\ Safe \in [Word -> Word] /\ \A w \in Word \ Odd : Safe[w] = w

Empty == [word |-> None, upper |-> FALSE]
Text  == [word : Word, upper : BOOLEAN] \cup {Empty}
Name  == [container : BOOLEAN, text : Text]

Environment == [PB_CHATROOM_PARTICIPANT_ID : Text \cup {None},
                DDEV_PROJECT               : Text \cup {None}]

Verbatim(x)  == [container |-> FALSE, text |-> x]
Container(x) == [container |-> TRUE, text |-> x]
Host         == Verbatim([word |-> host, upper |-> FALSE])

lower(x) == [x EXCEPT !.upper = FALSE]

\* container- has 10 characters.
_MAX_LEN == 64
len(n)   == (IF n.container THEN 10 ELSE 0) +
            (IF n.text = Empty THEN 0 ELSE Length[n.text.word])

\* None where the code raises ValueError.
_validate(n) ==
  IF n.text.upper \/ n.text.word \in Odd \/ n = Verbatim(Empty) \/ len(n) > _MAX_LEN
    THEN None ELSE n

\* Python: a variable that is set and empty counts as set.
resolve_participant_id(e) ==
  IF e.PB_CHATROOM_PARTICIPANT_ID # None
    THEN _validate(Verbatim(e.PB_CHATROOM_PARTICIPANT_ID))
  ELSE IF e.DDEV_PROJECT # None
    THEN _validate(Container(lower(e.DDEV_PROJECT)))
  ELSE Host

\* Bash, ${A:-${B:+container-B}}: one that is empty counts as not set.
Given(x) == x \notin {None, Empty}

Participant(e, project) ==
  IF Given(e.PB_CHATROOM_PARTICIPANT_ID)
    THEN Verbatim(e.PB_CHATROOM_PARTICIPANT_ID)
  ELSE IF Given(e.DDEV_PROJECT) THEN Container(project)
  ELSE Host

\* The slash commands pipe the project through tr; the hook does not.
command_participant(e) == Participant(e, lower(e.DDEV_PROJECT))
hook_participant(e)    == Participant(e, e.DDEV_PROJECT)
=============================================================================
