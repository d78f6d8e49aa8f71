-------------------------------- MODULE Hook --------------------------------
(***************************************************************************)
(* hooks/check_messages.sh, run at every prompt of a Claude Code session:  *)
(* it asks the server for open threads addressed to the session's          *)
(* participant and shows them in the prompt.  Sessions that resolve to one *)
(* participant share a file with the time of the last check, which nobody  *)
(* locks.  The hook is killed Timeout seconds after it starts.             *)
(*                                                                         *)
(* Times are kept as ages in seconds, counted up by Tick: age[s] since the *)
(* hook of s read the clock, stamp[f] since the epoch in file f.  From Old *)
(* on an epoch suppresses nothing, so older ones are not told apart.       *)
(* curl's error and its own limit of 3 s are one step, at any time.        *)
(***************************************************************************)
EXTENDS Identity, Integers, SequencesExt

CONSTANTS Session, Thread,
          Env,        \* environments that the sessions may run in
          Addressee,  \* participants that threads are sent to
          Interval,   \* PB_CHATROOM_CHECK_INTERVAL_SECONDS
          Timeout,    \* of the hook: hooks.json
          Cap,        \* PB_CHATROOM_HOOK_CAP
          MaxFail     \* bound: fetches and writes that fail, hooks that are killed

ASSUME HookAssumption ==
  /\ Env \subseteq [Session -> Environment] /\ Addressee \subseteq Name
  /\ Timeout \in Nat /\ Interval \in Nat /\ Timeout < Interval
  /\ Cap \in Nat /\ MaxFail \in Nat /\ None \notin Nat

VARIABLES env,       \* of each session
          inbox,     \* open threads of each addressee, most recent first
          stamp,     \* age of the epoch in each file, None if there is none
          pc, age, response,  \* of each session's hook
          since,     \* age of the clock at each session's latest fetch
          listed,    \* open threads that have been shown
          failed, killed,
          unsaved    \* checks whose epoch could not be written

files  == <<stamp, since>>
hooks  == <<pc, age, response>>
world  == <<inbox, listed>>
faults == <<failed, killed, unsaved>>
vars   == <<env, inbox, stamp, pc, age, response, since, listed,
            failed, killed, unsaved>>

Old == Interval + Timeout

TypeOK ==
  /\ env \in Env
  /\ inbox \in [Addressee -> Seq(Thread)]
  /\ stamp \in [Name -> (0..Old) \cup {None}]
  /\ pc \in [Session -> {"idle", "read", "fetch", "truncate", "write", "emit"}]
  /\ age \in [Session -> 0..Timeout]
  /\ response \in [Session -> Seq(Thread)]
  /\ since \in [Session -> 0..Old]
  /\ listed \in SUBSET Thread
  /\ failed \in 0..MaxFail /\ killed \in 0..MaxFail /\ unsaved \in 0..MaxFail

Init ==
  /\ env \in Env
  /\ inbox = [n \in Addressee |-> <<>>]
  /\ stamp = [n \in Name |-> None]
  /\ pc = [s \in Session |-> "idle"]
  /\ age = [s \in Session |-> 0]
  /\ response = [s \in Session |-> <<>>]
  /\ since = [s \in Session |-> Old]
  /\ listed = {}
  /\ failed = 0 /\ killed = 0 /\ unsaved = 0

PARTICIPANT(s) == hook_participant(env[s])

\* Mutant of LAST_CHECK_FILE: one file for everybody.
LAST_CHECK_FILE_Shared(s) == Host

\* The file of a session, by its participant, whose odd characters are replaced.
LAST_CHECK_FILE(s) ==
  LET n == PARTICIPANT(s)
  IN  IF n.text = Empty THEN n ELSE [n EXCEPT !.text.word = Safe[n.text.word]]

Failures == failed + killed + unsaved

Goto(s, l) == pc' = [pc EXCEPT ![s] = l]

Exit(s) ==
  /\ Goto(s, "idle")
  /\ age' = [age EXCEPT ![s] = 0]
  /\ response' = [response EXCEPT ![s] = <<>>]

-----------------------------------------------------------------------------
(* The hook *)

\* NOW_EPOCH is read.
Prompt(s) ==
  /\ pc[s] = "idle"
  /\ Goto(s, "read")
  /\ UNCHANGED <<env, world, files, age, response, faults>>

\* A file that is missing or empty reads as the epoch 0.
Recent(s) ==
  LET last == stamp[LAST_CHECK_FILE(s)]
  IN  last # None /\ last - age[s] < Interval

\* Mutant of Skip: a prompt that is throttled moves the cursor too.
Skip_Touches(s) ==
  /\ pc[s] = "read" /\ Recent(s)
  /\ Exit(s)
  /\ stamp' = [stamp EXCEPT ![LAST_CHECK_FILE(s)] = age[s]]
  /\ UNCHANGED <<env, world, since, faults>>

Skip(s) ==
  /\ pc[s] = "read" /\ Recent(s)
  /\ Exit(s)
  /\ UNCHANGED <<env, world, files, faults>>

Fetch(s) ==
  /\ pc[s] = "read" /\ ~Recent(s)
  /\ Goto(s, "fetch")
  /\ since' = [since EXCEPT ![s] = age[s]]
  /\ UNCHANGED <<env, world, stamp, age, response, faults>>

\* GET /api/threads?to=...&status=open: exactly this participant's threads.
Answer(s) ==
  /\ pc[s] = "fetch"
  /\ response' = [response EXCEPT ![s] =
                    IF PARTICIPANT(s) \in Addressee THEN inbox[PARTICIPANT(s)]
                    ELSE <<>>]
  /\ Goto(s, "truncate")
  /\ UNCHANGED <<env, world, files, age, faults>>

\* Mutant of FetchFails: a failed fetch leaves the cursor where it was.
FetchFails_NoStamp(s) ==
  /\ pc[s] = "fetch"
  /\ Failures < MaxFail /\ failed' = failed + 1
  /\ response' = [response EXCEPT ![s] = <<>>]
  /\ Goto(s, "emit")
  /\ UNCHANGED <<env, world, files, age, killed, unsaved>>

\* curl fails, or what it got is no list.
FetchFails(s) ==
  /\ pc[s] = "fetch"
  /\ Failures < MaxFail /\ failed' = failed + 1
  /\ response' = [response EXCEPT ![s] = <<>>]
  /\ Goto(s, "truncate")
  /\ UNCHANGED <<env, world, files, age, killed, unsaved>>

\* echo > file: the shell empties the file and then writes to it.
Truncate(s) ==
  /\ pc[s] = "truncate"
  /\ stamp' = [stamp EXCEPT ![LAST_CHECK_FILE(s)] = None]
  /\ Goto(s, "write")
  /\ UNCHANGED <<env, world, since, age, response, faults>>

\* The epoch written is the one read at the start.
Write(s) ==
  /\ pc[s] = "write"
  /\ stamp' = [stamp EXCEPT ![LAST_CHECK_FILE(s)] = age[s]]
  /\ Goto(s, "emit")
  /\ UNCHANGED <<env, world, since, age, response, faults>>

\* The redirection fails, which leaves the file as it is, or the writing, which
\* leaves it empty: || true.
EchoFails(s) ==
  /\ pc[s] \in {"truncate", "write"}
  /\ Failures < MaxFail /\ unsaved' = unsaved + 1
  /\ Goto(s, "emit")
  /\ UNCHANGED <<env, world, files, age, response, failed, killed>>

Has(n, t) == \E i \in DOMAIN inbox[n] : inbox[n][i] = t

Shown(r) == ToSet(SubSeq(r, 1, IF Len(r) < Cap THEN Len(r) ELSE Cap))

Emit(s) ==
  /\ pc[s] = "emit"
  /\ listed' = listed \cup {t \in Shown(response[s]) : \E n \in Addressee : Has(n, t)}
  /\ Exit(s)
  /\ UNCHANGED <<env, inbox, files, faults>>

Proceed(s) ==
  \/ Skip(s) \/ Fetch(s) \/ Answer(s) \/ FetchFails(s)
  \/ Truncate(s) \/ Write(s) \/ EchoFails(s) \/ Emit(s)

\* Claude Code's timeout.
Kill(s) ==
  /\ pc[s] # "idle" /\ age[s] = Timeout
  /\ Failures < MaxFail /\ killed' = killed + 1
  /\ Exit(s)
  /\ UNCHANGED <<env, world, files, failed, unsaved>>

-----------------------------------------------------------------------------
(* Time, and the other participants *)

Older(a) == IF a = Old THEN a ELSE a + 1

\* Mutant of Tick: nobody stops a hook that takes too long.
Tick_NoTimeout ==
  /\ stamp' = [n \in Name |-> IF stamp[n] = None THEN None ELSE Older(stamp[n])]
  /\ age' = [s \in Session |-> IF pc[s] = "idle" THEN 0 ELSE age[s] + 1]
  /\ since' = [s \in Session |-> Older(since[s])]
  /\ UNCHANGED <<env, world, pc, response, faults>>

\* No hook is left running past its timeout.
Tick ==
  /\ \A s \in Session : pc[s] # "idle" => age[s] < Timeout
  /\ stamp' = [n \in Name |-> IF stamp[n] = None THEN None ELSE Older(stamp[n])]
  /\ age' = [s \in Session |-> IF pc[s] = "idle" THEN 0 ELSE age[s] + 1]
  /\ since' = [s \in Session |-> Older(since[s])]
  /\ UNCHANGED <<env, world, pc, response, faults>>

\* An inbox without a thread, which is in it once.
Rest(n, t) ==
  LET i == CHOOSE i \in DOMAIN inbox[n] : inbox[n][i] = t
  IN  RemoveAt(inbox[n], i)

Post(n, t) ==
  /\ \A a \in Addressee : ~Has(a, t)
  /\ inbox' = [inbox EXCEPT ![n] = <<t>> \o @]
  /\ UNCHANGED <<env, listed, files, hooks, faults>>

\* A reply makes a thread the most recent one.
Bump(n, t) ==
  /\ Has(n, t)
  /\ inbox' = [inbox EXCEPT ![n] = <<t>> \o Rest(n, t)]
  /\ UNCHANGED <<env, listed, files, hooks, faults>>

\* An ack takes it out of the listing.
Close(n, t) ==
  /\ Has(n, t)
  /\ inbox' = [inbox EXCEPT ![n] = Rest(n, t)]
  /\ listed' = listed \ {t}
  /\ UNCHANGED <<env, files, hooks, faults>>

Next ==
  \/ \E s \in Session : Prompt(s) \/ Proceed(s) \/ Kill(s)
  \/ Tick
  \/ \E n \in Addressee, t \in Thread : Post(n, t) \/ Bump(n, t) \/ Close(n, t)

Spec == Init /\ [][Next]_vars

(***************************************************************************)
(* The shell goes through its script and the clock goes on.  Nobody has to *)
(* type a prompt or write in the chatroom.                                 *)
(***************************************************************************)
FairSpec == Spec /\ WF_vars(Tick) /\ \A s \in Session : WF_vars(Proceed(s))

-----------------------------------------------------------------------------
(* Properties *)

\* Two different names have different files, unless the server refuses one of
\* them for its characters.
Refused(s) == PARTICIPANT(s).text.word \in Odd

\* A prompt is left without a check only if a session of the same participant
\* has checked less than Interval before it, not one of somebody else, and not
\* because of prompts that were throttled themselves (check_messages.sh:44-56).
\* Names with characters that the file's name cannot hold are excepted, for
\* which the comment there is wrong.
ThrottleEarned ==
  [][\A s \in Session :
       pc[s] = "read" /\ Skip(s) =>
         \E q \in Session :
           /\ PARTICIPANT(q) = PARTICIPANT(s) \/ Refused(q) \/ Refused(s)
           /\ since[q] - age[s] < Interval]_vars

\* A session's checks are Interval - Timeout apart or more: the epoch may move
\* back when sessions overlap, but by less than the timeout, and a failed fetch
\* counts (check_messages.sh:49-68, hooks.json:9).  Excepted are a hook that was
\* killed, one that could not write its epoch (line 68 goes on, and every prompt
\* fetches), and one that meets the file while another writes it.  The header,
\* check_messages.sh:9-10, makes no exception and speaks of Interval.
FetchesSpaced ==
  [][\A s \in Session :
       pc[s] = "read" /\ pc'[s] = "fetch" /\ killed = 0 /\ unsaved = 0
       /\ (\A q \in Session : pc[q] # "write")
         => since[s] - age[s] >= Interval - Timeout]_vars

\* While sessions of a participant keep prompting, every open thread addressed
\* to it is listed to one of them, unless it is closed first or more are open
\* than a block lists, also when they share the file, fetches and writes fail
\* and hooks are killed (check_messages.sh:53-68, 88-104).  A session whose
\* name's characters are refused may use up the checks of another's file, and
\* is excepted.
Surfaced ==
  \A n \in Addressee, t \in Thread :
    (\A q \in Session : ~Refused(q))
    /\ []<>(\E s \in Session : PARTICIPANT(s) = n /\ pc[s] = "read") =>
      (Has(n, t) ~> t \in listed \/ ~Has(n, t) \/ Len(inbox[n]) > Cap)

\* check_messages.sh:12: "Identity resolves the same way the rest of the plugin
\* does".  A project name with a capital is lower-cased by the slash commands
\* (commands/chat-send.md:15) and not by the hook, which then asks for the
\* threads of a participant that cannot exist.
EverySessionHears ==
  \A s \in Session, n \in Addressee, t \in Thread :
    command_participant(env[s]) = n /\ []<>(pc[s] = "read") =>
      (Has(n, t) ~> t \in listed \/ ~Has(n, t) \/ Len(inbox[n]) > Cap)
=============================================================================
