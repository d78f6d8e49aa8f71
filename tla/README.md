# pb-chatroom in TLA+

A model of the chatroom of this repository (server, dashboard, start-up, prompt
hook and MCP server), the runs that check it with TLC and the theorems about it
that TLAPS proves. Paths below are relative to
`server/src/pb_chatroom/` unless they start with another top-level directory.

## 1. The system

pb-chatroom is a mailbox for coding agents. A FastAPI server keeps threads,
messages and per-thread recipients in one SQLite file. Agents reach it with
curl (slash commands), through an MCP server, or from a prompt hook that polls
for open threads; people look at an HTML dashboard.

| Component | State | Operations | Talks to |
|---|---|---|---|
| Message store (`store/`) | tables `threads`, `messages`, `thread_recipients` | create_thread, append_message, append_ack, add_recipient, mark_recipient_acked, all_recipients_acked, set_discussion_type, update_thread_status, set_claim, the reads | SQLite, a connection and a commit per call |
| REST handlers (`api/threads.py`, `schemas.py`) | the locals of each request under way | POST thread, message, ack, claim; GET lists and threads | the store, several calls per request |
| Timestamps (`_now_utc`, `_now_iso`) | the clock | two textual forms, compared as text by SQLite | store |
| Inbox (`list_threads` in `store/threads.py`) | none | filter and order threads | SQLite; serves GET /api/threads, the hook and the dashboard |
| Dashboard (`web.py`, `templates/`) | a page as rendered, in a browser tab | the front page (five reads), a thread's page (two), an ack button, reloads | store, REST handlers |
| Schema migration (`store/schema.py`, `app.py`) | tables, columns and `schema_version` of the file | init_schema at every start of a process, before requests are taken | SQLite |
| Identity (`identity.py` twice, `commands/*.md`, the hook) | environment | three resolvers of one participant id, and what the server validates | every client |
| Prompt hook (`hooks/check_messages.sh`) | a throttle file per participant, unlocked | poll at a prompt, at most once per interval; killed after 5 s | inbox |
| MCP server (`mcp/`) | one process, one identity | six tools: two read, four post one request each | REST handlers, graphiti |
| Executors' claim protocol (`examples/`, `docs/`) | an agent's prompt | claim, wait 60 s, read, act | REST handlers |

What is hard here:

* **Interleaving at store-call grain.** A handler is a coroutine; every await is
  a store call with a transaction of its own. `post_thread` and `post_ack` make
  up to n + 2 and six of them. Whatever another request does in between is seen.
* **Partial failure.** SQLITE_BUSY, a full disk or a kill ends a handler between
  two commits, and what it committed stays. Nothing resumes it after a restart.
* **Ordering.** The order of messages is the order of timestamp *texts*, in two
  forms, stamped before the connection is opened.
* **First-wins claims** under races and repetition.
* **Stale pages.** The front page is put together from reads of different moments;
  a thread's page offers to ack in a name it read long ago, for a thread that may
  still be in the making, or closed by now.
* **Starting together.** Each ALTER commits by itself, and a second process may be
  adding the same columns, or die with half of them added.
* **An unlocked file.** Sessions of one participant throttle each other through a file
  that a shell first empties and then writes, with a time read before the fetch, that
  it may be unable to write, and that a second participant may share.
* **Lost and late requests.** The MCP client gives up while its request is still on its
  way or its handler goes on, and an agent that was told nothing calls again.

What makes each part correct, in a sentence: a broadcast is closed exactly when
its recipients have acknowledged it and nobody is forgotten; an ack on record has
an ack message; only participants write, and to the other side; the first message
read back is the seed; one claim wins and all answers say so; nothing is taken
back; what is listed is what is stored, and a page's parts agree with each other; a
click on the button counts and ends; nobody serves on half a schema, and everybody
serves in the end; a prompt is throttled only by a check, and what is open is shown;
an agent is told what is so, and what it does next comes after it. `PROJECT.json` lists the hazards behind these at their lines.

## 2. Modules

| Module | Models |
|---|---|
| `Stamps` | the clock, the two timestamp forms and the text order between them |
| `Store` (extends Stamps) | the three tables; each store function as one atomic operator |
| `Api` (extends Store) | the four POST handlers, one action per store call |
| `ApiProperties` (extends Api) | invariants, action and temporal properties |
| `Inbox` (extends ApiProperties) | `list_threads`: its filters, its order, the recipients of a row |
| `FrontPage` (extends Inbox) | `web.py:threads_list`: a list and three panels read beside the handlers |
| `ThreadPage` (extends ApiProperties) | `web.py:thread_detail`, the ack button's script, reloads |
| `Board` | abstract: what the chatroom promises of its threads, without handlers or tables |
| `ApiBoard` (extends ApiProperties) | how Api's state is read as a board, and `ImplementsBoard` |
| `Migration` | `app.py:lifespan` and `store/schema.py`, processes starting on one file |
| `Identity` | the three resolvers as functions of the environment |
| `Hook` (extends Identity) | `hooks/check_messages.sh` in several sessions, the clock, the timeout |
| `Mcp` (extends Inbox) | the six tools beside the handlers and other clients |
| `MCAcks`, `MCTalk`, `MCClaims`, `MCFrontPage`, `MCThreadPage`, `MCMigration`, `MCHook`, `MCMcp` | instances for TLC |
| `MCDivergence` | statements of the change log that the handlers do not keep |
| `ApiProofs`, `HandlerProofs`, `BoardProofs`, `TalkProofs` | theorems about the handlers, each module resting on the one before |
| `DashboardProofs`, `McpProofs` (both on `TalkProofs`) | theorems about the front page and the tab, and about the tools |
| `MigrationProofs`, `HookProofs` | theorems about the start-up, and about the hook and the names |

`FrontPage` and `ThreadPage` each compose the handlers with one reader: their
next-state relations are Api's steps with the page unchanged, and the page's own.
`Mcp` composes them with tool calls, whose requests are Api's first steps with the
arguments of the call. `Migration` ends where Api's `Init` begins: with a file in
which every table and column is there. `Hook` has its own view of the server, the open
threads of each participant, because times in seconds and requests in steps do
not mix on one clock.

**State.** `threads`, `messages` and `thread_recipients` are the tables; a thread
without a row has status `"absent"`. `acked_at` is kept as NULL or not, the only
thing the code reads of it, and `claim_scope` as the request whose text is
stored. `pc[r]` says which store call request `r` makes next, or how it was
answered; `frame[r]` holds its locals; `answer[c]` the body a claim got.

**Actions.**

| Code | Actions |
|---|---|
| `post_thread` | ReceiveThread (validate, stamp) - CreateThread - SetType if the body has a type - AddRecipient once per recipient |
| `post_message` | ReadThread (or 404) - ReadRecipients - Resolve and stamp, or Refuse (403) - AppendMessage - SetType |
| `post_ack`, caller among the recipients it read | ReadThread - ReadRecipients - Resolve - InsertAck - MarkRecipient - CheckAll - CloseThread if none is pending |
| `post_ack`, otherwise | ReadThread - ReadRecipients - Resolve - AppendAck |
| `post_claim` | PostClaim, one transaction |
| 400, 422 before any store call | Reject |
| an exception or a kill between two calls | Fail |
| `threads_list` (front page) | ReadPage, four times in the order of the code; the page's reload: Refresh |
| `thread_detail` | OpenThread (the row, or 404) - LoadMessages |
| `init_schema` | Start - Base per statement of the script run twice - Look - Alter per column - CreateNew twice - SelectVersion - Write - Commit; Duplicate and Locked when a rival is in the way, Crash anywhere |
| `check_messages.sh` | Prompt - Skip, or Fetch - Answer or FetchFails - Truncate - Write, or EchoFails instead of either - Emit; Kill at the timeout |
| `call_tool` and the tools | Invoke (or the early return) - Search (chat_ask_peer) - Read, or Send, or Lose - Answer or Raise; a request sent is taken up (TakeUp: the handler's first step, or 422) at any later time, after Raise too, or never |
| `ackThread` in `thread_detail.html` | Click - ShowError, or Reload half a second after the answer |

A step is one store call or the code between two awaits: that is the grain at
which coroutines of one event loop interleave, and separate processes on the same
file would interleave no finer, since each call commits once.
`get_thread_with_messages` makes three SELECTs. In the handlers it is one step,
because the parts they use are the creator, which never changes, and the first
message. On a thread's page it is two, since the page shows the status as well.
The discussion type of an ack's body is validated (422) and then unused, as in
the code. Body and subject length checks only ever lead to another 422 and are
left out; an empty string stands with `None` where the code tests truth.

**Listing.** `list_threads` is one SELECT and changes nothing, so it is an operator,
the set of threads returned; an absent filter is `None` (`{}` for the types). Its
ORDER BY is the relation `Ahead`. A row's recipients are joined with commas by SQLite
and split at them in Python; `Split` says which names a name falls into, itself alone
if it has no comma, as every name has that `_validate` takes. No name is the empty text.
The front page keeps what its reads returned
(`page`), with rows reduced to id, status, type and owner; its counts are the
sizes of the sets it keeps. The fifth read of the code, which only decides whether a
banner about an old identity is shown, is left out.

**The tab.** `view` is where the one browser tab is: elsewhere, on a page half read,
or on a page shown, with the status and the name it was rendered with and the ack
request the disabled button waits for. A click is an ack request of Api whose
thread and caller come from the page, or a 400 when the name is one no participant
can have (`to_participants` is stored unvalidated). Leaving or reloading the page
forgets the request; the handler goes on.

**Timestamps.** `_now_utc` uses `isoformat()`, which drops the fraction on a whole
second, and `Z`; `_now_iso` always writes six digits and `+00:00`. As text,
`.` < `Z` and `+` < `Z`, so a seed stamped on a whole second sorts *after*
everything else of that second. `Before` is that order; `Micro` is the set of
microsecond readings the clock may show, and 0 in it makes the case happen.

**The board.** A board has, per thread, a state, an author, recipients, those
of them who still owe an acknowledgement, an owner and a scope, and a log. It is
read off the handlers' state like this: the recipients are those the POST named,
registered yet or not; who owes is every one of them who is not marked; a thread is
settled when its POST has been answered and overtaken when an ack has read an
incomplete list. The steps of Api that are no step of Board are stutters: reading,
validating, registering one recipient, dying. Its author and those who overtake may
close a thread over the heads of others: that is what the code promises, and no more.

**The start-up.** `tables`, `columns` and `versions` are the file; Python's sqlite3
commits every CREATE and ALTER by itself and opens a transaction only for the row
of schema_version, which is `writer`. The columns are read once (`Look`), so
`Alter` relies on what another process may have changed since; SQLite's error ends
the process, docker starts it again. A file starts empty or as v0.3.0 left it.

**The hook.** Times are ages in whole seconds, counted up by `Tick` and capped at
`Old`, where they stop mattering. `since[s]` is a history variable: the age of the
session's last check, which no file shows. Emptying the file and writing it are two
steps, as they are for the shell; either may fail (`EchoFails`), which the script
tolerates. The file's name is the participant's with every odd character replaced
(`Safe`), so that a participant which the server would refuse shares the file of another.

**Names.** A text is a word, its case, whether it has a character that `_VALID` refuses
(`Odd`) and how many it has (`Length`, against the 64 of `_MAX_LEN`). `_validate` refuses
capitals, odd characters, the empty text and what is too long.

**The tools.** The MCP process has one identity, `Me`, whoever calls: that is why
v0.4.1 has dropped it as the default interface, and the source, kept in-tree, is
modelled as it is. `Own` are requests that only tools make, so that a call's
effects are not another client's. `Send` only
puts the request in flight: SQLite's lock, a slow network or a full server may hold it
until after the retry. `Raise` may happen at any moment of the wait: the
client's limit against the server's, with no clock between them.

## 3. Properties and runs

| Run | Instance and bounds | Properties | Shows |
|---|---|---|---|
| `acks` | a typed thread to two recipients, three acks (symmetric), one death, one reading per second; 376k states | EveryoneAckedClosed, NoForgottenClose, EarlyCloseExplained, AcksAreLogged, HistoryKept, ImplementsBoard | who closes a broadcast, what is logged, and that the board allows it |
| `talk` | one thread, single or with a duplicated recipient, two replies, one death, three readings with 0, a recipient with a comma in its name; 661k | TypeOK, RecipientsRegistered, OnlyParticipantsPost, RepliesCrossSides, SeedLeadsUnlessWholeSecond, SinceKeepsRecent, ListNamesRecipients, LateRecipientsNeverRefused | who writes to whom, the order read back, and how the thread is listed |
| `claims` | two threads, three claims, absent headers, a bad type, no recipients, one death; 17k | ClaimAgreement, ImplementsBoard | first wins, all answers agree |
| `panel` | one thread, a reply, an ack and a claim beside the reads, three types; 1.75M | PanelsFollowList, EscalationsCounted, HistoryKept | the parts of the front page agree; nothing is taken back by any of the four handlers |
| `page` | a thread to one or two recipients or to a name no header may carry, two acks that may be clicks, one death, fair; 162k | ButtonNamesRecipient, ClickNeverRefused, ClickCounts, AllAckedCloses, ClickEnds | in whose name the button acts, what its answer means; marks lead to the close, clicks to an end |
| `startup` | two processes, a new file or one of v0.3.0, three crashes, fair; 76k | TypeOK, ServesComplete, VersionLast, EverybodyServes | no process serves on half a schema, all serve in the end |
| `hook` | a session in a container with one in the same container, on the host, or in a container whose name has an odd character and the same file; two threads, Interval 2, Timeout 1, Cap 1, one failed fetch or write or one kill, fair; 329k | TypeOK, ThrottleEarned, FetchesSpaced, Surfaced | checks are not withheld, not too frequent, and threads are shown |
| `tools` | two calls (symmetric) of any tools beside another client's thread and claim; a reply, an ack and a claim of the tools, one death, one reading per second; 1.75M | AnswersTrue, CallsInOrder | what the agent is told is so, what it does after an ok comes after it |

Why these bounds are enough: the ack race needs two recipients and two
acks, and the third ack is the creator's or a repeated one; the order of messages
needs a seed and two that follow it, with one of the three on a whole second; the
claims need a winner, a loser and a repeat. One death per run leaves every
prefix of every handler behind. The panels speak of one row at a time, so one thread
is enough, with each kind of request that changes a field of its row; the page is
reloaded any number of times. The button needs a click, another ack in its way (or a
second click from a reloaded page) and the POST it overtakes. Names are three: a
creator and two recipients; the creator may be a recipient of its own broadcast,
because every name is tried as the caller. Two processes and three crashes leave a
file behind at every statement, twice over, with a rival at any other. The hook needs
an interval longer than the timeout (30 and 5 in the code), a session whose check
throttles another's, two threads for one place in the block, and one thing that goes
wrong. Two calls are a call and its retry, or a call and one that contradicts it, or a
call and one that relies on it; messages of tools on a whole second, and two replies of
one agent, are left to the theorem. Deadlock is not checked: requests, calls and threads happen at most once in the
models, so a run ends when all are answered, when all processes serve, or goes on
with the clock alone.

The properties in words:

* **EveryoneAckedClosed** - when every recipient's ack was answered, the thread is
  acked. It rests on the mark coming before the check.
* **NoForgottenClose** - an open thread with recipients, none of them pending, has
  an ack between its mark and its flip (possibly dead: then the thread stays open,
  and the run `dead_ack` shows it).
* **EarlyCloseExplained** - a thread closed over a pending recipient was closed by
  its creator acting alone or by an ack that read an incomplete recipient list;
  there is no third way.
* **AcksAreLogged** - a mark or a close has an ack message behind it.
* **RecipientsRegistered**, **OnlyParticipantsPost**, **RepliesCrossSides**,
  **SeedLeadsUnlessWholeSecond**, **LateRecipientsNeverRefused** - see the module.
  The third and fourth carry the whole-second exception explicitly; the others
  hold in spite of it.
* **SinceKeepsRecent** - a client that asks for what happened since an instant, in
  the form of `_now_utc`, is not denied a thread whose last message is later, nor one
  that was created at that very instant; an instant on a whole second, which sorts after
  its own second, is excepted. A reply stamped in the very microsecond asked from is not
  promised: its `+00:00` sorts before the client's `Z`.
* **ListNamesRecipients** - the row of an answered POST names the recipients it was
  posted to, neither more nor fewer, unless the seed's stamp was bare or a recipient's
  name has a comma (it is then listed as the names it falls into).
* **PanelsFollowList** - a row listed as acked is in no panel; one listed as open and
  claimed is among the claims, with the same owner, unless acked since. It rests on
  the list being read first.
* **EscalationsCounted** - an open escalation in the list is counted, unless acked
  since or retyped by a request of another type (`post_thread` itself stores its
  type after the thread can be replied to).
* **ButtonNamesRecipient**, **ClickNeverRefused**, **ClickCounts** - the name on the
  button is the one the thread was posted to, post_ack takes it, and an answered
  click has closed the thread of one recipient and marked the recipient of a
  broadcast. The first two except a bare seed, after which the page names whoever
  wrote to whom first.
* **ClickEnds** - a disabled button is enabled again or its page reloaded.
* **ClaimAgreement** - all 200s name the stored owner and scope, all 409s that owner.
* **HistoryKept** - no step takes back a message, a close, a recipient, an ack or a
  claim.
* **ImplementsBoard** - every behaviour of the handlers is one of Board's. It says at
  once what the invariants say one by one, and of every step: a debt is discharged
  only after it was acknowledged in the log, a close needs no debts or the author or
  an ack that overtook the POST, nothing leaves the log, an owner and a scope are
  taken together and once.
* **ServesComplete**, **VersionLast**, **EverybodyServes** - a process that takes
  requests has all it needs; version 4 in the file means that nothing is missing; and
  neither crashes nor rivals keep a process from serving for ever. The last rests on
  the columns being read from the file at each start and not inferred from its version.
* **ThrottleEarned** - a prompt goes unchecked only because the same participant has
  checked less than an interval ago; or another one of the same file, if the server
  refuses one of the two names.
* **FetchesSpaced** - a session's checks are Interval - Timeout apart or more, unless a
  hook is killed, cannot write the file or meets it while it is empty. Not Interval: a slow hook writes
  the time at which it started over that of a quicker one that started later.
* **Surfaced** - while sessions of a participant keep prompting, an open thread for it
  is shown to one of them, in spite of a failed fetch, which moves the cursor
  too, in spite of an epoch that is not saved, and unless it is closed or more threads
  are open than a block shows.
* **AnswersTrue** - "ok" means that the message, ack, claim or thread is stored, any
  other answer but an exception that nothing is. It rests on the tools catching only
  ConnectError.
* **CallsInOrder** - once an agent was told "ok", what it writes on the thread is listed
  after what it was told of, and a thread it reads has that message; a seed on a whole
  second is excepted. Requests of calls that raised may arrive in between. It rests on
  handlers that stamp and commit before they answer.
* **AllAckedCloses** - a thread whose last recipient has been marked is acked in the
  end, unless the ack that has to flip it has died.

**Fairness.** `FairSpec` has weak fairness on each request's `Step`: the event loop
resumes a coroutine whose store call has returned. Nothing is assumed of arrivals
or of `Fail`. A handler that died takes no step, so fairness does not revive it.
`FairTabSpec` keeps that for the handlers and adds LoadMessages (the server finishes
a page it has begun), ShowError and Reload (callbacks of a fetch that has been
answered or has failed, and a timer). Opening a page and clicking are people's
doing, and nothing is assumed of them. `Migration!FairSpec` has weak fairness on each
process: it goes on, and docker (or a developer) starts it again when it has exited;
crashes are bounded. `Hook!FairSpec` lets the clock go on and the shell go through its
script. That people keep prompting is a hypothesis of `Surfaced`, not an assumption.

### Where the documents and the code differ

Four have a run each that ends in the violating behaviour:

1. `early_ack` - CHANGELOG.md:14 says broadcasts close once all have acked; an ack
   handled inside `post_thread`'s recipient loop closes one early
   (`api/threads.py:75`).
2. `dead_ack` - the same line, and a handler that dies between mark and flip
   (`api/threads.py:213-215`).
3. `empty_ack` - `mcp/src/pb_chatroom_mcp/server.py:118` offers the closing body of
   chat_ack as optional; without it `{}` is posted, which `MessageCreate` refuses.
4. `hook_identity` - `hooks/check_messages.sh:12` says that identity resolves as in
   the rest of the plugin; the hook does not lower-case the project's name.

The others are exceptions that passing properties state:

* CHANGELOG.md:37 says the status flips only when all recipients ack; the creator's
  ack flips it alone (`api/threads.py:228`; EarlyCloseExplained, `Dismiss` of Board).
* `api/threads.py:112` says the seed is always the first message; stamped on a whole
  second it is not (SeedLeadsUnlessWholeSecond).
* `store/threads.py:129-131` says that multi-recipient threads render correctly; a
  recipient with a comma in its name, which nothing refuses, is listed as the names it
  falls into (ListNamesRecipients).
* `hooks/check_messages.sh:9-10` promises one call every interval; where the file cannot
  be written (line 68 ends in `|| true`) every prompt is a call, and a slow hook may write
  an older epoch over a newer one (FetchesSpaced).
* `hooks/check_messages.sh:44-45` says that sessions do not trample each other's cursors;
  participants whose names differ only in characters that line 46 replaces have one file
  (ThrottleEarned, Surfaced).
* `server/tests/test_threads_while_away.py:35` speaks of the latest message's type; the
  type is stored by a transaction of its own, and two typed requests can leave the older
  message's (`api/threads.py:150`; EscalationsCounted excepts a thread retyped by another
  request).
* `store/threads.py:66` says the most recently active thread wins within its group; a
  reply is stamped before it connects (`store/messages.py:42`), so an earlier one
  that commits later takes `last_message_at` back. No property speaks of it.

## 4. Proofs

For any sets of requests, names, headers, payloads, processes, sessions and
environments, any interval longer than the timeout, and any number of deaths, crashes
and kills:

| Theorem | Says |
|---|---|
| `BoardProofs!Implementation` | `Spec => ImplementsBoard` |
| `BoardProofs!EarlyCloses` | `Spec => []EarlyCloseExplained` |
| `BoardProofs!LogCovers` | `Spec => []AcksAreLogged` |
| `BoardProofs!AnsweredIsRegistered` | `Spec => []RecipientsRegistered` |
| `BoardProofs!StrangersKeepOut` | `Spec => []OnlyParticipantsPost` |
| `BoardProofs!LateRecipientsEnter` | `Spec => LateRecipientsNeverRefused` |
| `ApiProofs!TypeCorrect` | `Spec => []TypeOK` |
| `HandlerProofs!BroadcastCloses` | `Spec => []EveryoneAckedClosed` |
| `HandlerProofs!CloseIsNeverForgotten` | `Spec => []NoForgottenClose` |
| `HandlerProofs!HistoryIsKept` | `Spec => HistoryKept` |
| `HandlerProofs!ClaimsAgree` | `Spec => []ClaimAgreement` |
| `DashboardProofs!PanelsAgree`, `EscalationsAreCounted` | `PageSpec => []PanelsFollowList`, `[]EscalationsCounted` |
| `DashboardProofs!ButtonIsRight`, `ClickIsWelcome`, `ClickIsCounted` | `TabSpec => []ButtonNamesRecipient`, `[]ClickNeverRefused`, `[]ClickCounts` |
| `McpProofs!AnswersAreTrue`, `AgentsWriteInOrder` | `McpSpec => []AnswersTrue`, `[]CallsInOrder` |
| `MigrationProofs!StartTypes`, `NobodyServesEarly`, `VersionIsLast` | `Spec => []TypeOK`, `[]ServesComplete`, `[]VersionLast` |
| `HookProofs!ThrottleIsEarned`, `ChecksAreSpaced`, `HookTypeOK` | `Spec => ThrottleEarned`, `FetchesSpaced`, `[]TypeOK` |
| `HookProofs!OneIdentity` | where no variable is empty, the server takes the name of a slash command exactly when it resolves that environment, and then to that name (`_validate(command_participant(e)) = resolve_participant_id(e)`); the hook has the commands' name unless the project's has a capital |
| `TalkProofs!SeedLeads` | `Spec => []SeedLeadsUnlessWholeSecond` |
| `TalkProofs!RepliesCross` | `Spec => []RepliesCrossSides` |
| `TalkProofs!RecentIsListed` | `Spec => []SinceKeepsRecent` |
| `TalkProofs!ListIsComplete` | `Spec => []ListNamesRecipients` |
| `TalkProofs!BeforeIsStrictOrder` | the text order is a strict total order |
| `TalkProofs!LaterSortsAfter` | a later `_now_iso` sorts after a `_now_utc` that is not bare |

Assumptions: `MicroAssumption` (readings are natural numbers), `StoreAssumption`
(the kinds of requests are disjoint, NULL is none of them and no name), `ApiAssumption` (accepted
names are names, payloads have the shape of the body model), and for the front page
`InboxAssumption` (an absent status filter is no status, and accepted names have no comma). `DashboardAssumption` says
that an accepted name may be sent, `McpAssumption` that the process has a name that is
accepted, that agents may give a discussion type or none, and that a thread may be sent
to any one name, `CallAssumption` that an unset field of a call is no tool and no result.
`MigrationAssumption` says
that None is neither a process nor a number, `IdentityAssumption` that "host" is four
characters which `_VALID` takes and that a name without odd characters keeps it as a
file's name, `HookAssumption` that the environments and
addressees are such and that the timeout is shorter than the interval, which hooks.json
and the default of the script give.

The invariants of the handlers are proved for `Motion`, every step that a handler can
take whoever its clients are, the turning away of requests that only the tools or the
button send included (`Turned`). Api's `Next` is a Motion (`NextIsMotion`), and so is
each step of the tab and of the tools that touches the tables; so what holds of the
handlers alone holds beside a page or an MCP process with no second proof.

* **Type correctness** needs `TypeInv`: a thread has a row exactly from its
  commit on, messages exist only of such threads, each kind of request stays in its
  own handler, and a handler's locals are filled in by the stage that uses them.
* **Acknowledgement** needs `AckInv`: what is registered is among what was posted
  (`LoopOK`), and (`AckOK`) an ack past its mark has its caller marked, one that
  acted alone has closed the thread, and the branch is the one its own reading of
  the recipients calls for. The step that matters is CheckAll answering without
  closing: somebody is pending, is among the posted, and cannot have been answered,
  since an answered ack has marked its caller or closed the thread.
* **History and claims** need `HistInv`: a thread without a row is blank, so
  inserting its row loses nothing, and a handler writes a type only if it has one.
  `ClaimInv` adds that a claimed thread has a scope and that answered claims name
  real threads.
* **The front page** needs `PageInv`: nothing is read before the list, what the list
  says of a row stays so (`StillSo`: acked rows stay acked, claimed ones keep their
  owner, which is `TakesNothingBack` of the history proof at work), and so every
  panel read later agrees with it (`Follows`). Counted escalations need `CountInv` besides:
  an escalation of the list still is one, or some POST or reply brought another type
  (`Retyped`), and requests keep the thread and the type they came with (`TypesCarried`).
* **The board** needs `BoardInv`, on top of those two: what is registered is what the
  loop has passed (`Reg`); a handler that found its thread writes to one of its sides
  and may speak there, whichever message came first (`Facing`); an ack marks after it
  logged and closes, if it read all recipients, only when nobody owes (`Turn`); and a
  thread closed over somebody has the ack that explains it (`Hasty`). Then each action
  of Api is one action of Board or a stutter, one lemma per action; only ReadRecipients
  (Overtake) and CloseThread (Close, under `Turn`) need the invariant for more than types.
* **Late recipients** need no invariant over all requests but one per thread and request,
  from the moment its POST is answered (`Informed`): whoever reads the recipients after
  that reads all that were posted, and `_resolve_participants` raises for none that it
  has read (`RecipientsResolve`): they all write to the creator, or are it, and both sides
  are names that NULL is not.
* **The talk** needs `TalkInv`: a thread with a row has its seed message and a stamp
  (`Seeded`); every other message, and every stamp a handler holds, is `_now_iso`'s, of
  a later reading than the seed's (`Follows`), and goes to the other side (`Crosses`);
  and a handler that has read its thread knows the seed's recipient (`Sends`), because
  the first message by the text order is then the seed. The last three hold unless the
  seed's stamp is bare. That a later stamp sorts after an earlier one needs only that
  the clock goes on; `ListIsComplete` takes the registered side from `BoardInv`.
* **The tab** needs `TabInv`, on top of the invariants of talk and board: what it shows is
  of a thread that exists, and its button names one of the two sides, the posted recipient
  unless the seed is bare (`ShowsWell`); and the request it waits for carries the page's
  thread and the button's name (`Clicked`). Threads, senders and seeds are never taken
  back, so a page may be as old as it likes. What an answered click has done is then what
  `AckInv` and `BoardInv` say of an answered ack.
* **The tools** need `TraceInv`, which turns answers into rows: a message is of a request
  that has written it, a scope is of a claim that was answered 200, and a request past its
  write has its message (`Wrote`, `Filed`). On it rests `McpInv`: a call has the request and
  the result of its stage (`Staged`), its request, once a handler has it, bears the
  process's name and the call's arguments (`Mine`), no two calls share one (`Sole`), and
  what the agent was told is how the handler answered (`Honest`). A call that raised may
  have its request still on the way, and nothing is said of that one. The order of calls
  needs `StampInv` (a handler's stamp is not of the future and is the one its message
  bears, with `TalkInv` for the seed) and, for each call made after an ok, `After`: what
  was told of is stamped before whatever this call's request is stamped with, since the
  request was sent when the other's message was already in the table.
* **The start-up** needs: whoever is past the columns has them all, whoever is inside
  the loop has those before its place, since columns are only ever added; and a version
  row is written only by a process past all of that.
* **The hook** needs `HookInv`: a stamp is never younger than the latest check of some
  session with its file (`Stamped`), which makes a throttled prompt earned, because files
  are the participants' own unless a name is refused (`FilesApart`); and, as long as no
  hook was killed and every epoch was written, a finished session's check has left a stamp at most
  Timeout older, or somebody is just writing (`Behind`), which makes checks spaced.

`HookTypeOK` adds to `HookInv` that inboxes and answers are sequences of threads, for any
cut that an ack makes (`RestType`).

Only model-checked: AllAckedCloses, ClickEnds, EverybodyServes and Surfaced. They are
liveness, and the installed provers do not handle fairness and ENABLED. Every safety
property that a passing run checks is a theorem.

## 5. Not modelled, and the plan

Worth proving next: the safety steps that the liveness properties rest on, such as that
nothing but a death takes an ack past its mark away from its flip, and that a process
which has exited finds no less in the file than the one before it.

The claim protocol of the executors is a prompt: the 60 s window it speaks of is kept
by no code of the repository, so there is nothing to translate; the server's half is
`set_claim`. Graphiti is outside; a search is a choice of its outcomes.

Left out for good: HTTP and JSON encoding, HTML and wording, settings and router
wiring, the slash commands' prompts (their requests are those of Api), and SQLite
itself, whose transactions are taken as atomic.

## 6. Running

    tlc -workers 2 -config MCAcks.cfg MCAcks
    tlapm HandlerProofs.tla

The runs take from seconds to two and a half minutes (`hook`), the
proofs from seconds to some minutes (`BoardProofs`, `McpProofs`).
