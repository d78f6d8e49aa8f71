----------------------------- MODULE HookProofs -----------------------------
(***************************************************************************)
(* Proofs about the throttle file that the prompt hooks of any number of   *)
(* sessions share without a lock, for every interval and timeout, and      *)
(* about the names their environments give them.                           *)
(***************************************************************************)
EXTENDS Hook, SequenceTheorems, TLAPS

-----------------------------------------------------------------------------
(* Names *)

\* Where no variable is set to the empty text, a slash command presents itself
\* under the server's own name for its environment, or, where the server has
\* none, under a text that the server refuses; and the hook asks for the same
\* name unless the project's has a capital that no override hides
\* (identity.py:20-38, commands/chat-send.md:15, check_messages.sh:23-24).
THEOREM OneIdentity ==
  ASSUME NEW e \in Environment,
         e.PB_CHATROOM_PARTICIPANT_ID # Empty, e.DDEV_PROJECT # Empty
  PROVE  /\ _validate(command_participant(e)) = resolve_participant_id(e)
         /\ \/ e.PB_CHATROOM_PARTICIPANT_ID # None
            \/ e.DDEV_PROJECT = None
            \/ ~e.DDEV_PROJECT.upper
            => hook_participant(e) = command_participant(e)
<1> DEFINE x == e.PB_CHATROOM_PARTICIPANT_ID
           y == e.DDEV_PROJECT
<1>1. /\ x \in Text \cup {None} /\ y \in Text \cup {None}
      /\ x # Empty /\ y # Empty
  BY DEF Environment
<1>2. CASE x # None
  <2>1. Given(x)
    BY <1>1, <1>2 DEF Given
  <2>2. QED
    BY <1>2, <2>1
       DEF hook_participant, command_participant, Participant, resolve_participant_id
<1>3. CASE x = None /\ y # None
  <2>1. y \in [word : Word, upper : BOOLEAN]
    BY <1>1, <1>3 DEF Text
  <2>2. ~y.upper => lower(y) = y
    BY <2>1 DEF lower
  <2>3. Given(y) /\ ~Given(x)
    BY <1>1, <1>3 DEF Given
  <2>4. QED
    BY <1>3, <2>2, <2>3
       DEF hook_participant, command_participant, Participant, resolve_participant_id
<1>4. CASE x = None /\ y = None
  <2>1. hook_participant(e) = Host /\ command_participant(e) = Host
        /\ resolve_participant_id(e) = Host
    BY <1>4
       DEF hook_participant, command_participant, Participant, resolve_participant_id, Given
  <2>2. Host.text.upper = FALSE /\ Host.text.word = host /\ Host.container = FALSE
        /\ Host.text # Empty /\ Host # Verbatim(Empty)
    BY IdentityAssumption DEF Host, Verbatim, Empty
  <2>3. host \notin Odd /\ len(Host) <= _MAX_LEN
    BY <2>2, IdentityAssumption DEF len, _MAX_LEN
  <2>4. _validate(Host) = Host
    BY <2>2, <2>3, IdentityAssumption DEF _validate, len, _MAX_LEN
  <2>5. QED
    BY <2>1, <2>4
<1>5. QED
  BY <1>2, <1>3, <1>4

\* Every session has a name and a file.
LEMMA FileType ==
  ASSUME env \in Env, NEW s \in Session
  PROVE  PARTICIPANT(s) \in Name /\ LAST_CHECK_FILE(s) \in Name
<1> DEFINE e == env[s]
           n == PARTICIPANT(s)
<1>1. e \in Environment
  BY HookAssumption
<1>2. /\ Given(e.PB_CHATROOM_PARTICIPANT_ID) => e.PB_CHATROOM_PARTICIPANT_ID \in Text
      /\ Given(e.DDEV_PROJECT) => e.DDEV_PROJECT \in Text
  BY <1>1 DEF Environment, Given
<1>3. Host \in Name
  BY IdentityAssumption DEF Host, Verbatim, Name, Text
<1>4. n \in Name
  BY <1>2, <1>3 DEF PARTICIPANT, hook_participant, Participant, Verbatim, Container, Name
<1> HIDE DEF n
<1>5. ASSUME n.text # Empty
      PROVE  [n EXCEPT !.text.word = Safe[n.text.word]] \in Name
  <2>1. n.text \in [word : Word, upper : BOOLEAN]
    BY <1>4, <1>5 DEF Name, Text
  <2>2. [n.text EXCEPT !.word = Safe[n.text.word]] \in Text
    BY <2>1, IdentityAssumption DEF Text
  <2>3. QED
    BY <1>4, <2>2 DEF Name
<1>6. LAST_CHECK_FILE(s) \in Name
  BY <1>4, <1>5 DEF LAST_CHECK_FILE, n
<1>7. QED
  BY <1>4, <1>6 DEF n

\* Two names that the server does not refuse for their characters have two files.
LEMMA FilesApart ==
  ASSUME env \in Env, NEW s \in Session, NEW q \in Session,
         ~Refused(s), ~Refused(q), LAST_CHECK_FILE(q) = LAST_CHECK_FILE(s)
  PROVE  PARTICIPANT(q) = PARTICIPANT(s)
<1>1. ASSUME NEW r \in Session, ~Refused(r)
      PROVE  LAST_CHECK_FILE(r) = PARTICIPANT(r)
  <2> DEFINE n == PARTICIPANT(r)
  <2>1. n \in Name /\ n.text.word \notin Odd
    BY <1>1, FileType DEF Refused
  <2>2. LAST_CHECK_FILE(r) =
          IF n.text = Empty THEN n ELSE [n EXCEPT !.text.word = Safe[n.text.word]]
    BY DEF LAST_CHECK_FILE
  <2> HIDE DEF n
  <2>3. ASSUME n.text # Empty
        PROVE  [n EXCEPT !.text.word = Safe[n.text.word]] = n
    <3>1. n.text \in [word : Word, upper : BOOLEAN]
      BY <2>1, <2>3 DEF Name, Text
    <3>2. Safe[n.text.word] = n.text.word
      BY <2>1, <3>1, IdentityAssumption
    <3>3. [n.text EXCEPT !.word = n.text.word] = n.text
      BY <3>1
    <3>4. QED
      BY <2>1, <3>2, <3>3 DEF Name
  <2>4. QED
    BY <2>2, <2>3 DEF n
<1>2. QED
  BY <1>1

-----------------------------------------------------------------------------
(* The inductive invariant *)

\* The part of the type invariant that the file depends on.
Clocks ==
  /\ env \in Env
  /\ stamp \in [Name -> (0..Old) \cup {None}]
  /\ pc \in [Session -> {"idle", "read", "fetch", "truncate", "write", "emit"}]
  /\ age \in [Session -> 0..Timeout]
  /\ since \in [Session -> 0..Old]
  /\ killed \in Nat /\ unsaved \in Nat

\* The epoch a hook will write is that of the check it is making.
Own == \A s \in Session :
         pc[s] \in {"fetch", "truncate", "write"} => since[s] = age[s]

\* An epoch in a file is not newer than the last check under that name.
Stamped ==
  \A f \in Name :
    stamp[f] # None =>
      \E q \in Session : LAST_CHECK_FILE(q) = f /\ since[q] <= stamp[f]

\* A session that has checked and gone on finds an epoch at most Timeout older
\* than its check, if nobody was killed, every epoch could be written and nobody
\* is writing.
Undisturbed == killed = 0 /\ unsaved = 0

Behind ==
  Undisturbed =>
    \A s \in Session :
      pc[s] \in {"idle", "read", "emit"} /\ since[s] < Old =>
        LET last == stamp[LAST_CHECK_FILE(s)]
        IN  \/ last # None /\ last <= since[s] + Timeout
            \/ \E q \in Session : /\ LAST_CHECK_FILE(q) = LAST_CHECK_FILE(s)
                                  /\ pc[q] = "write"

HookInv == Clocks /\ Own /\ Stamped /\ Behind

LEMMA Times == Old \in Nat /\ Timeout \in Nat /\ Interval \in Nat
               /\ Timeout < Interval /\ Old = Interval + Timeout /\ None \notin Nat
BY HookAssumption DEF Old

\* No file and no check to begin with.
LEMMA InitHookInv == Init => HookInv
<1> SUFFICES ASSUME Init PROVE HookInv
  OBVIOUS
<1>1. Clocks
  BY Times DEF Init, Clocks
<1>2. Own /\ Stamped /\ Behind
  BY Times DEF Init, Own, Stamped, Behind, Undisturbed
<1>3. QED
  BY <1>1, <1>2 DEF HookInv

\* A hook's step that touches neither file nor check, and starts or ends nothing
\* the invariant looks at.
LEMMA QuietStep ==
  ASSUME HookInv, NEW s \in Session, UNCHANGED <<env, files>>,
         killed' \in Nat, unsaved' \in Nat, Undisturbed' => Undisturbed,
         pc' \in [Session -> {"idle", "read", "fetch", "truncate", "write", "emit"}],
         age' \in [Session -> 0..Timeout],
         \A q \in Session : q # s => pc'[q] = pc[q] /\ age'[q] = age[q],
         pc'[s] \in {"fetch", "truncate", "write"} =>
           pc[s] \in {"fetch", "truncate", "write"} /\ age'[s] = age[s],
         pc'[s] # "write",
         Undisturbed' => /\ pc[s] # "write"
                         /\ pc'[s] \in {"idle", "read", "emit"} =>
                              pc[s] \in {"idle", "read", "emit"}
  PROVE  HookInv'
<1> USE DEF files, faults
<1>1. \A q \in Session : LAST_CHECK_FILE(q)' = LAST_CHECK_FILE(q)
  BY DEF LAST_CHECK_FILE, PARTICIPANT
<1>2. Clocks'
  BY DEF HookInv, Clocks
<1>3. Own'
  BY DEF HookInv, Own
<1>4. Stamped'
  BY <1>1 DEF HookInv, Stamped
<1>5. Behind'
  BY <1>1 DEF HookInv, Behind, Clocks
<1>6. QED
  BY <1>2, <1>3, <1>4, <1>5 DEF HookInv

\* A check starts only where no file or an old one is read.
LEMMA FetchStep ==
  ASSUME HookInv, NEW s \in Session, Fetch(s)
  PROVE  HookInv'
<1> USE DEF Fetch, Goto, faults, Undisturbed
<1>1. \A q \in Session : LAST_CHECK_FILE(q)' = LAST_CHECK_FILE(q)
  BY DEF LAST_CHECK_FILE, PARTICIPANT
<1>2. /\ pc'[s] = "fetch" /\ since'[s] = age[s] /\ age[s] \in 0..Timeout
      /\ \A q \in Session : q # s => pc'[q] = pc[q] /\ since'[q] = since[q]
  BY DEF HookInv, Clocks
<1>3. Clocks'
  BY Times DEF HookInv, Clocks
<1>4. Own'
  BY <1>2 DEF HookInv, Own
<1>5. Stamped'
  <2> SUFFICES ASSUME NEW f \in Name, stamp[f] # None
               PROVE  \E q \in Session : LAST_CHECK_FILE(q) = f /\ since'[q] <= stamp[f]
    BY <1>1 DEF Stamped
  <2>1. PICK q \in Session : LAST_CHECK_FILE(q) = f /\ since[q] <= stamp[f]
    BY DEF HookInv, Stamped
  <2>2. CASE q = s
    <3>1. stamp[f] - age[s] >= Interval
      BY <2>1, <2>2, <1>2, Times DEF Recent, HookInv, Clocks
    <3>2. age[s] <= stamp[f]
      BY <3>1, <1>2, Times DEF HookInv, Clocks
    <3>3. QED
      BY <1>2, <2>1, <2>2, <3>2
  <2>3. CASE q # s
    BY <1>2, <2>1, <2>3
  <2>4. QED
    BY <2>2, <2>3
<1>6. Behind'
  BY <1>1, <1>2 DEF HookInv, Behind, Clocks
<1>7. QED
  BY <1>3, <1>4, <1>5, <1>6 DEF HookInv

\* The file is emptied by a hook that goes on to write it.
LEMMA TruncateStep ==
  ASSUME HookInv, NEW s \in Session, Truncate(s)
  PROVE  HookInv'
<1> USE DEF Truncate, Goto, faults, Undisturbed
<1> DEFINE g == LAST_CHECK_FILE(s)
<1>1. g \in Name /\ \A q \in Session : LAST_CHECK_FILE(q)' = LAST_CHECK_FILE(q)
  BY FileType DEF HookInv, Clocks, LAST_CHECK_FILE, PARTICIPANT
<1> HIDE DEF g
<1>2. /\ pc'[s] = "write" /\ stamp'[g] = None
      /\ \A f \in Name : f # g => stamp'[f] = stamp[f]
      /\ \A q \in Session : q # s => pc'[q] = pc[q]
  BY <1>1 DEF HookInv, Clocks, g
<1>3. Clocks'
  BY <1>1 DEF HookInv, Clocks, g
<1>4. Own'
  BY <1>2 DEF HookInv, Own
<1>5. Stamped'
  BY <1>1, <1>2 DEF HookInv, Stamped
<1>6. Behind'
  <2>1. ASSUME NEW q \in Session, pc'[q] \in {"idle", "read", "emit"}, since[q] < Old,
               Undisturbed, LAST_CHECK_FILE(q) # g
        PROVE  \/ /\ stamp'[LAST_CHECK_FILE(q)] # None
                  /\ stamp'[LAST_CHECK_FILE(q)] <= since[q] + Timeout
               \/ \E r \in Session : LAST_CHECK_FILE(r) = LAST_CHECK_FILE(q) /\ pc'[r] = "write"
    BY <1>2, <2>1, FileType DEF HookInv, Behind, Clocks
  <2>2. \A q \in Session : LAST_CHECK_FILE(q) = g =>
          \E r \in Session : LAST_CHECK_FILE(r) = LAST_CHECK_FILE(q) /\ pc'[r] = "write"
    BY <1>2 DEF g
  <2>3. QED
    BY <1>1, <2>1, <2>2 DEF Behind
<1>7. QED
  BY <1>3, <1>4, <1>5, <1>6 DEF HookInv

\* The epoch written is at most Timeout old, and its check is the writer's.
LEMMA WriteStep ==
  ASSUME HookInv, NEW s \in Session, Write(s)
  PROVE  HookInv'
<1> USE DEF Write, Goto, faults, Undisturbed
<1> DEFINE g == LAST_CHECK_FILE(s)
<1>1. g \in Name /\ \A q \in Session : LAST_CHECK_FILE(q)' = LAST_CHECK_FILE(q)
  BY FileType DEF HookInv, Clocks, LAST_CHECK_FILE, PARTICIPANT
<1>2. g = LAST_CHECK_FILE(s)
  OBVIOUS
<1> HIDE DEF g
<1>3. /\ pc'[s] = "emit" /\ stamp'[g] = age[s] /\ age[s] \in 0..Timeout
      /\ since[s] = age[s]
      /\ \A f \in Name : f # g => stamp'[f] = stamp[f]
      /\ \A q \in Session : q # s => pc'[q] = pc[q]
      /\ \A q \in Session : since[q] \in 0..Old
  BY <1>1, <1>2 DEF HookInv, Clocks, Own
<1>4. Clocks'
  BY <1>1, <1>2, Times DEF HookInv, Clocks
<1>5. Own'
  BY <1>3 DEF HookInv, Own
<1>6. Stamped'
  BY <1>1, <1>2, <1>3 DEF HookInv, Stamped
<1>7. Behind'
  <2>1. ASSUME NEW q \in Session, LAST_CHECK_FILE(q) = g
        PROVE  stamp'[LAST_CHECK_FILE(q)] # None /\ stamp'[LAST_CHECK_FILE(q)] <= since[q] + Timeout
    BY <1>3, <2>1, Times
  <2>2. ASSUME NEW q \in Session, LAST_CHECK_FILE(q) # g, Undisturbed,
               pc'[q] \in {"idle", "read", "emit"}, since[q] < Old
        PROVE  \/ /\ stamp'[LAST_CHECK_FILE(q)] # None
                  /\ stamp'[LAST_CHECK_FILE(q)] <= since[q] + Timeout
               \/ \E r \in Session : LAST_CHECK_FILE(r) = LAST_CHECK_FILE(q) /\ pc'[r] = "write"
    <3>1. q # s
      BY <2>2, <1>2
    <3>2. LAST_CHECK_FILE(q) \in Name
      BY FileType DEF HookInv, Clocks
    <3>3. QED
      BY <1>2, <1>3, <2>2, <3>1, <3>2 DEF HookInv, Behind
  <2>3. QED
    BY <1>1, <2>1, <2>2 DEF Behind
<1>8. QED
  BY <1>4, <1>5, <1>6, <1>7 DEF HookInv

\* Time passes for the files and the sessions alike.
LEMMA TickStep ==
  ASSUME HookInv, Tick
  PROVE  HookInv'
<1> USE DEF Tick, faults, Undisturbed
<1>1. \A q \in Session : LAST_CHECK_FILE(q)' = LAST_CHECK_FILE(q)
  BY DEF LAST_CHECK_FILE, PARTICIPANT
<1>2. \A a \in 0..Old : Older(a) \in 0..Old /\ Older(a) # None /\ a <= Older(a)
  BY Times DEF Older
<1>3. \A a, b \in 0..Old : a <= b => Older(a) <= Older(b)
  BY Times DEF Older
<1>4. \A a, b \in 0..Old : a <= b + Timeout => Older(a) <= Older(b) + Timeout
  BY Times DEF Older
<1>5. Clocks'
  BY <1>2, Times DEF HookInv, Clocks
<1>6. Own'
  BY Times DEF HookInv, Own, Clocks, Older
<1>7. Stamped'
  <2> SUFFICES ASSUME NEW f \in Name, stamp'[f] # None
               PROVE  \E q \in Session : LAST_CHECK_FILE(q) = f /\ since'[q] <= stamp'[f]
    BY <1>1 DEF Stamped
  <2>1. stamp[f] \in 0..Old /\ stamp[f] # None /\ stamp'[f] = Older(stamp[f])
    BY DEF HookInv, Clocks
  <2>2. PICK q \in Session : LAST_CHECK_FILE(q) = f /\ since[q] <= stamp[f]
    BY <2>1 DEF HookInv, Stamped
  <2>3. since'[q] = Older(since[q]) /\ since[q] \in 0..Old
    BY DEF HookInv, Clocks
  <2>4. QED
    BY <2>1, <2>2, <2>3, <1>3
<1>8. Behind'
  <2> SUFFICES ASSUME NEW s \in Session, Undisturbed,
                      pc[s] \in {"idle", "read", "emit"}, since'[s] < Old
               PROVE  \/ /\ stamp'[LAST_CHECK_FILE(s)] # None
                         /\ stamp'[LAST_CHECK_FILE(s)] <= since'[s] + Timeout
                      \/ \E q \in Session : /\ LAST_CHECK_FILE(q) = LAST_CHECK_FILE(s)
                                            /\ pc[q] = "write"
    BY <1>1 DEF Behind
  <2>1. since'[s] = Older(since[s]) /\ since[s] \in 0..Old
    BY DEF HookInv, Clocks
  <2>2. since[s] < Old
    BY <2>1, <1>2, Times
  <2>3. LAST_CHECK_FILE(s) \in Name
    BY FileType DEF HookInv, Clocks
  <2>4. CASE \E q \in Session : /\ LAST_CHECK_FILE(q) = LAST_CHECK_FILE(s)
                                /\ pc[q] = "write"
    BY <2>4
  <2>5. CASE /\ stamp[LAST_CHECK_FILE(s)] # None
             /\ stamp[LAST_CHECK_FILE(s)] <= since[s] + Timeout
    <3>1. /\ stamp[LAST_CHECK_FILE(s)] \in 0..Old
          /\ stamp'[LAST_CHECK_FILE(s)] = Older(stamp[LAST_CHECK_FILE(s)])
      BY <2>3, <2>5 DEF HookInv, Clocks
    <3>2. QED
      BY <2>1, <2>5, <3>1, <1>2, <1>4
  <2>6. QED
    BY <2>2, <2>4, <2>5 DEF HookInv, Behind
<1>9. QED
  BY <1>5, <1>6, <1>7, <1>8 DEF HookInv

\* A hook that ends, with what it leaves to the other sessions.
LEMMA ExitStep ==
  ASSUME HookInv, NEW s \in Session, Exit(s), UNCHANGED <<env, files>>,
         killed' \in Nat, unsaved' = unsaved,
         \/ killed' = killed /\ pc[s] \in {"read", "emit"}
         \/ killed' # 0
  PROVE  HookInv'
<1>1. /\ pc' = [pc EXCEPT ![s] = "idle"] /\ age' = [age EXCEPT ![s] = 0]
      /\ pc \in [Session -> {"idle", "read", "fetch", "truncate", "write", "emit"}]
      /\ age \in [Session -> 0..Timeout] /\ 0 \in 0..Timeout
  BY Times DEF Exit, Goto, HookInv, Clocks
<1>2. /\ pc' \in [Session -> {"idle", "read", "fetch", "truncate", "write", "emit"}]
      /\ age' \in [Session -> 0..Timeout]
      /\ pc'[s] = "idle"
      /\ \A q \in Session : q # s => pc'[q] = pc[q] /\ age'[q] = age[q]
  BY <1>1
<1>3. QED
  BY <1>2, QuietStep DEF Undisturbed, HookInv, Clocks

\* Every step keeps the invariant.
LEMMA HookStep ==
  ASSUME HookInv, [Next]_vars
  PROVE  HookInv'
<1> USE DEF files, hooks, world, faults, Undisturbed
<1>1. ASSUME NEW s \in Session, Prompt(s) PROVE HookInv'
  BY <1>1, QuietStep DEF Prompt, Goto, HookInv, Clocks
<1>2. ASSUME NEW s \in Session, Skip(s) PROVE HookInv'
  BY <1>2, ExitStep DEF Skip, HookInv, Clocks
<1>3. ASSUME NEW s \in Session, Answer(s) PROVE HookInv'
  BY <1>3, QuietStep DEF Answer, Goto, HookInv, Clocks
<1>4. ASSUME NEW s \in Session, FetchFails(s) PROVE HookInv'
  BY <1>4, QuietStep DEF FetchFails, Goto, HookInv, Clocks
<1>5. ASSUME NEW s \in Session, Emit(s) PROVE HookInv'
  BY <1>5, ExitStep DEF Emit, HookInv, Clocks
<1>6. ASSUME NEW s \in Session, Kill(s) PROVE HookInv'
  BY <1>6, ExitStep DEF Kill, HookInv, Clocks
<1>7. ASSUME NEW s \in Session, EchoFails(s) PROVE HookInv'
  <2>1. /\ killed' = killed /\ unsaved' \in Nat /\ unsaved' # 0
        /\ pc' = [pc EXCEPT ![s] = "emit"] /\ age' = age
    BY <1>7 DEF EchoFails, Goto, HookInv, Clocks
  <2>2. /\ pc' \in [Session -> {"idle", "read", "fetch", "truncate", "write", "emit"}]
        /\ pc'[s] = "emit" /\ \A q \in Session : q # s => pc'[q] = pc[q]
    BY <2>1 DEF HookInv, Clocks
  <2>3. QED
    BY <1>7, <2>1, <2>2, QuietStep DEF EchoFails, HookInv, Clocks
<1>8. ASSUME UNCHANGED <<env, files, hooks, killed, unsaved>> PROVE HookInv'
  <2>1. \A q \in Session : LAST_CHECK_FILE(q)' = LAST_CHECK_FILE(q)
    BY <1>8 DEF LAST_CHECK_FILE, PARTICIPANT
  <2>2. QED
    BY <1>8, <2>1 DEF HookInv, Clocks, Own, Stamped, Behind
<1>9. ASSUME NEW n \in Addressee, NEW t \in Thread, Post(n, t) \/ Bump(n, t) \/ Close(n, t)
      PROVE  HookInv'
  BY <1>8, <1>9 DEF Post, Bump, Close
<1>10. QED
  BY <1>1, <1>2, <1>3, <1>4, <1>5, <1>6, <1>7, <1>8, <1>9, FetchStep, TruncateStep, WriteStep,
     TickStep DEF Next, Proceed, vars

\* The file stays within a timeout of what was checked.
THEOREM HookInvariant == Spec => []HookInv
BY InitHookInv, HookStep, PTL DEF Spec

-----------------------------------------------------------------------------
(* The type invariant *)

\* Clocks, and what the hooks read and show.
HookTypes ==
  /\ inbox \in [Addressee -> Seq(Thread)]
  /\ response \in [Session -> Seq(Thread)]
  /\ listed \in SUBSET Thread
  /\ failed \in Nat /\ killed \in Nat /\ unsaved \in Nat /\ Failures <= MaxFail

\* What is left of an inbox is an inbox.
LEMMA RestType ==
  ASSUME HookTypes, NEW n \in Addressee, NEW t \in Thread, Has(n, t)
  PROVE  Rest(n, t) \in Seq(Thread)
<1> DEFINE s == inbox[n]
           i == CHOOSE i \in DOMAIN s : s[i] = t
<1>1. s \in Seq(Thread)
  BY DEF HookTypes
<1>2. /\ Len(s) \in Nat /\ DOMAIN s = 1..Len(s)
      /\ \A k \in 1..Len(s) : s[k] \in Thread
  BY <1>1, LenProperties, ElementOfSeq
<1>3. i \in 1..Len(s)
  BY <1>2 DEF Has
<1> HIDE DEF s, i
<1>4. /\ i - 1 \in Int /\ i + 1 \in Int /\ 1 \in Int /\ Len(s) \in Int
      /\ \A k \in 1..(i - 1) : k \in 1..Len(s)
      /\ \A k \in (i + 1)..Len(s) : k \in 1..Len(s)
  BY <1>2, <1>3
<1>5. SubSeq(s, 1, i - 1) \in Seq(Thread) /\ SubSeq(s, i + 1, Len(s)) \in Seq(Thread)
  BY <1>2, <1>4, SubSeqProperties
<1>6. RemoveAt(s, i) \in Seq(Thread)
  BY <1>5, ConcatProperties DEF RemoveAt
<1>7. QED
  BY <1>6 DEF Rest, s, i

\* A thread on top of an inbox.
LEMMA OnTop ==
  ASSUME NEW t \in Thread, NEW r \in Seq(Thread)
  PROVE  <<t>> \o r \in Seq(Thread)
<1>1. <<t>> \in Seq(Thread)
  OBVIOUS
<1>2. QED
  BY <1>1, ConcatProperties

\* Every step keeps inboxes and answers of threads.
LEMMA HookTypesStep ==
  ASSUME HookTypes, [Next]_vars
  PROVE  HookTypes'
<1> USE DEF files, hooks, world, faults, Failures, Goto, Exit
<1>1. <<>> \in Seq(Thread) /\ MaxFail \in Nat
  BY EmptySeq, HookAssumption
<1>2. ASSUME NEW s \in Session, Answer(s) PROVE HookTypes'
  <2>1. (IF PARTICIPANT(s) \in Addressee THEN inbox[PARTICIPANT(s)] ELSE <<>>) \in Seq(Thread)
    BY <1>1 DEF HookTypes
  <2>2. QED
    BY <1>2, <2>1 DEF Answer, HookTypes
<1>3. ASSUME NEW s \in Session, FetchFails(s) PROVE HookTypes'
  BY <1>1, <1>3 DEF FetchFails, HookTypes
<1>4. ASSUME NEW s \in Session, Skip(s) PROVE HookTypes'
  BY <1>1, <1>4 DEF Skip, HookTypes
<1>5. ASSUME NEW s \in Session, Kill(s) PROVE HookTypes'
  BY <1>1, <1>5 DEF Kill, HookTypes
<1>6. ASSUME NEW s \in Session, Emit(s) PROVE HookTypes'
  <2>1. \A n \in Addressee : \A t : Has(n, t) => t \in Thread
    <3> SUFFICES ASSUME NEW n \in Addressee, NEW t, NEW i \in DOMAIN inbox[n], inbox[n][i] = t
                 PROVE  t \in Thread
      BY DEF Has
    <3>1. inbox[n] \in Seq(Thread)
      BY DEF HookTypes
    <3>2. QED
      BY <3>1, LenProperties, ElementOfSeq
  <2>2. listed' \in SUBSET Thread
    BY <1>6, <2>1 DEF Emit, HookTypes
  <2>3. QED
    BY <1>1, <1>6, <2>2 DEF Emit, HookTypes
<1>7. ASSUME NEW n \in Addressee, NEW t \in Thread, Post(n, t) PROVE HookTypes'
  <2>1. <<t>> \o inbox[n] \in Seq(Thread)
    BY OnTop DEF HookTypes
  <2>2. QED
    BY <1>7, <2>1 DEF Post, HookTypes
<1>8. ASSUME NEW n \in Addressee, NEW t \in Thread, Bump(n, t) PROVE HookTypes'
  <2>1. <<t>> \o Rest(n, t) \in Seq(Thread)
    BY <1>8, RestType, OnTop DEF Bump
  <2>2. QED
    BY <1>8, <2>1 DEF Bump, HookTypes
<1>9. ASSUME NEW n \in Addressee, NEW t \in Thread, Close(n, t) PROVE HookTypes'
  <2>1. Rest(n, t) \in Seq(Thread)
    BY <1>9, RestType DEF Close
  <2>2. QED
    BY <1>9, <2>1 DEF Close, HookTypes
<1>10. ASSUME NEW s \in Session, EchoFails(s) PROVE HookTypes'
  BY <1>1, <1>10 DEF EchoFails, HookTypes
<1>11. ASSUME UNCHANGED <<world, response, faults>> PROVE HookTypes'
  BY <1>11 DEF HookTypes
<1>12. ASSUME NEW s \in Session, Prompt(s) \/ Fetch(s) \/ Truncate(s) \/ Write(s)
       PROVE  HookTypes'
  BY <1>11, <1>12 DEF Prompt, Fetch, Truncate, Write
<1>13. QED
  BY <1>2, <1>3, <1>4, <1>5, <1>6, <1>7, <1>8, <1>9, <1>10, <1>11, <1>12
     DEF Next, Proceed, Tick, vars

\* The hooks' variables keep their types; in particular no hook outlives its
\* timeout and no epoch in a file is from the future (hooks.json:9,
\* check_messages.sh:44-68).
THEOREM HookTypeOK == Spec => []TypeOK
<1>1. Init => HookTypes
  BY EmptySeq, HookAssumption DEF Init, HookTypes, Failures
<1>2. HookInv /\ HookTypes => TypeOK
  BY HookAssumption DEF HookInv, Clocks, HookTypes, TypeOK, Failures
<1>3. QED
  BY <1>1, <1>2, HookInvariant, HookTypesStep, PTL DEF Spec

-----------------------------------------------------------------------------
(* The properties *)

\* A prompt is left without a check only because a session of the same name has
\* checked within the interval, names with replaced characters excepted
\* (check_messages.sh:44-56).
THEOREM ThrottleIsEarned == Spec => ThrottleEarned
<1> DEFINE Earned ==
      \A s \in Session :
        pc[s] = "read" /\ Skip(s) =>
          \E q \in Session :
            /\ PARTICIPANT(q) = PARTICIPANT(s) \/ Refused(q) \/ Refused(s)
            /\ since[q] - age[s] < Interval
<1>1. ASSUME HookInv PROVE Earned
  <2> SUFFICES ASSUME NEW s \in Session, Skip(s)
               PROVE  \E q \in Session :
                        /\ PARTICIPANT(q) = PARTICIPANT(s) \/ Refused(q) \/ Refused(s)
                        /\ since[q] - age[s] < Interval
    OBVIOUS
  <2> DEFINE f == LAST_CHECK_FILE(s)
  <2>1. f \in Name /\ stamp[f] # None /\ stamp[f] - age[s] < Interval
    BY <1>1, FileType DEF Skip, Recent, HookInv, Clocks
  <2>2. PICK q \in Session : LAST_CHECK_FILE(q) = f /\ since[q] <= stamp[f]
    BY <1>1, <2>1 DEF HookInv, Stamped
  <2>3. /\ stamp[f] \in Int /\ since[q] \in Int /\ age[s] \in Int /\ Interval \in Int
    BY <1>1, <2>1, Times DEF HookInv, Clocks
  <2>4. since[q] - age[s] < Interval
    BY <2>1, <2>2, <2>3
  <2>5. QED
    BY <1>1, <2>2, <2>4, FilesApart DEF HookInv, Clocks
<1>2. QED
  BY <1>1, HookInvariant, PTL DEF ThrottleEarned

\* A session's checks are Interval - Timeout apart or more, unless a hook was
\* killed, could not write its epoch or is writing (check_messages.sh:49-68).
THEOREM ChecksAreSpaced == Spec => FetchesSpaced
<1> DEFINE Spaced ==
      \A s \in Session :
        pc[s] = "read" /\ pc'[s] = "fetch" /\ killed = 0 /\ unsaved = 0
        /\ (\A q \in Session : pc[q] # "write")
          => since[s] - age[s] >= Interval - Timeout
<1>1. ASSUME HookInv, [Next]_vars PROVE [Spaced]_vars
  <2> SUFFICES ASSUME NEW s \in Session, pc[s] = "read", pc'[s] = "fetch", killed = 0, unsaved = 0,
                      \A q \in Session : pc[q] # "write"
               PROVE  since[s] - age[s] >= Interval - Timeout
    OBVIOUS
  <2>1. ~Recent(s)
    <3>1. PICK q \in Session : Prompt(q) \/ Proceed(q) \/ Kill(q)
      BY <1>1 DEF Next, vars, Tick, Post, Bump, Close, hooks
    <3>2. q = s
      BY <1>1, <3>1 DEF HookInv, Clocks, Prompt, Proceed, Kill, Skip, Fetch, Answer,
                        FetchFails, Truncate, Write, EchoFails, Emit, Goto, Exit
    <3>3. QED
      BY <1>1, <3>1, <3>2 DEF HookInv, Clocks, Prompt, Proceed, Kill, Skip, Fetch, Answer,
                        FetchFails, Truncate, Write, EchoFails, Emit, Goto, Exit
  <2> DEFINE f == LAST_CHECK_FILE(s)
  <2>2. f \in Name /\ age[s] \in 0..Timeout /\ since[s] \in 0..Old
    BY <1>1, FileType DEF HookInv, Clocks
  <2>3. CASE since[s] = Old
    BY <2>2, <2>3, Times
  <2>4. CASE since[s] < Old
    <3>1. stamp[f] # None /\ stamp[f] <= since[s] + Timeout
      BY <1>1, <2>4 DEF HookInv, Behind, Undisturbed
    <3>2. ~(stamp[f] - age[s] < Interval) /\ stamp[f] \in 0..Old
      BY <1>1, <2>1, <2>2, <3>1 DEF Recent, HookInv, Clocks
    <3>3. QED
      BY <2>2, <3>1, <3>2, Times
  <2>5. QED
    BY <2>2, <2>3, <2>4, Times
<1>2. QED
  BY <1>1, HookInvariant, PTL DEF Spec, FetchesSpaced
=============================================================================
