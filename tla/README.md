# AsioChatBackend in TLA+

A formal model of the chat server in `src/`, checked with TLC and, where it
says so, proved with TLAPS. Paths are those of the source tree with its root
called `src/` (so the server's code is `src/src/server/`). `PROJECT.json` lists
the runs, the code lines each definition stands for, the hazards the properties
are aimed at, and the theorems.

A definition whose comment begins with "Defect:" is a plausible fault of the
definition below it. It is not part of the model; replacing the definition with
it makes a named property fail, which shows that the property is not empty.

## The system

One process. `main()` starts the business thread pool, makes the stores and
runs `ChatServer`; **one thread** runs the `io_context`, so the handlers of all
sessions are executed one at a time, in the order they become ready, and in the
order of a session's strand for one session. The **business threads** (two by
default) run beside it; they carry out tasks that touch the offline store or
ask an AI provider, and hand results back by posting to a session's strand.

| Component | State | Operations | Interacts with |
|---|---|---|---|
| `ChatRoom` | five maps under one mutex | `login`, `change_room`, `leave`, look-ups, `deliver_private`, `broadcast_to_room` | called by every session; calls `ChatSession::deliver` after unlocking |
| `ChatSession`, requests | `logged_in_`, `user_name_`, `current_room_` | one branch of `handle_payload` per request type, `close_session` | registry, user store, status store, thread pool |
| `ChatSession`, I/O | `stopped_`, `closing_after_write_`, `write_queue_`, the operations in flight | `read_header`, `read_body`, `write_next`, `schedule_idle_check`, `deliver`, `notify_idle_timeout_and_close` | socket, timer, strand |
| Thread pool and blocking queue | `running_`, `queue_`, `closed_`, workers | `start`, `stop`, `submit`, `push`, `pop`, `close` | sessions and the AI service submit |
| Offline stores (file, MySQL) | the file; the table | `save_private_message`, `take_private_messages_for` | called by tasks only |
| Online status store (memory, Redis) | `online_users_`; expiring keys | `mark_online`, `refresh`, `mark_offline` | called by sessions on the io thread |
| User store (MySQL) | the `users` table | `register_user`, `validate_user`, `user_exists` | called by sessions on the io thread |
| Room AI service | per-room history | `request_reply` | sessions ask; tasks answer |
| Connection pools | free connections | `acquire`, `release` | DAOs and the Redis store |
| Client | connection, write queue | `start`, `write`, `close` | the server |
| Protocol, configuration, factory | none | parsing, framing | everywhere |

### What is hard

* A completion handler that is already queued keeps its error code when the
  session closes. `read_body`'s handler does not look at `stopped_`, so a
  request can be carried out **after** `close_session` (SessionIO finds exactly
  when; ChatServer carries the consequence).
* A login submits a load of the stored mail while saves are still in the task
  queue or in a worker's hands, and the session may close before the mail
  arrives.
* The registry, the session and the status store are written separately.
* The write queue is filled by replies, by other sessions, by business threads
  and by the idle timer, and emptied by write handlers.
* The file store has no lock and rewrites its file; the MySQL store reads and
  deletes in two transactions, either of which may throw after it was carried
  out; two business threads use the store at once; the process may end between
  any two steps.
* The thread pool is stopped while tasks are submitted and workers sleep.
* A broadcast collects the members of a room under the registry's lock and
  delivers to each one's strand after it, among logins, moves and closes; an
  AI answer is made on another thread from a history that concurrent answers
  share, and comes back through the strand of the session that asked. A local
  answer quotes the history, earlier answers included.
* Redis commands fail, and a connection that failed is handed out again.
* The client has two threads: lines typed before the connection is open are
  queued, and either thread may be the first to learn that it is over.
* Agents are looked up in the layered AI settings in two places, by the registry
  (names, greetings) and by the AI service (answers), each with its own code.

### What makes each part correct

* Registry: a name has one session and is freed with it; each session is a
  member of its own room only; the maps agree; reserved names stay reserved;
  `login` always finds a name.
* Sessions: their own state, the registry and the status store agree.
* Private messages: each is in one place, is delivered at most once and only to
  a connection of the name it is for; mail is not stranded.
* Session I/O: one write at a time, in order, without a stall; the read loop
  and idle detection do not die; a closed session winds up.
* Thread pool: an accepted task runs exactly once; `stop` drains and returns.
* Stores: what was saved is there until it is handed out, once; a connection is
  given back whatever its call did.
* Status store: a status does not outlive its session for good, and no
  connection is lost or used by two calls.
* Rooms: a member hears each other member's messages completely, once and in
  order; a question before its answer; every question is answered once.
* AI settings: the registry and the AI service agree on which rooms have an
  agent and what it is called, and no user bears its name.
* Client: one read and one write at a time, what is typed arrives in order, and
  the process ends once the connection does.
* Framing: a header read is the header written, and what is framed is accepted.

## Modules

| Module | Models | How it corresponds |
|---|---|---|
| `ChatRoom` | `chat_room.cpp` | a variable per map; an action per operation, since `mutex_` makes each atomic. `RoomSpec` is the registry with arbitrary callers |
| `ChatServer` | `chat_session.cpp` (requests, close, offline tasks), `chat_server.cpp`, over `ChatRoom` | an action per request type and per way to close; an action per step of a business thread (pop a task, each step of a call of the store, post one message). `threads` are the workers the pool was started with, `stored` is the file or the table, `memory` what a call has read. `phase` is `stopped_`; `late` says that a body read waits behind the handler that closed |
| `PrivateMessaging` | nothing: the abstract promise | messages are held, then delivered once or given up; `ChatServer` implements it (`ImplementsMessaging`) |
| `RoomChat` | `chat_session.cpp` (chat, mentions, notices), `chat_room.cpp` (broadcast, greetings), `room_ai_agent_service.cpp` (requests, histories, tasks), over `ChatRoom` and `RoomAiConfig` | `strand` holds the handlers posted to a session, `tasks` what is on the business threads, `recent` the histories; an action per handler and per step of a task. `log` records who said what, `pushed` whose write queue it reached |
| `RoomAiConfig` | `app_config.cpp` (AI settings) and the lookups in `chat_room.cpp` and `room_ai_agent_service.cpp` | operators: a file is a record of sections, and each function of the code is an operator of its name |
| `SessionIO` | the asynchronous operations of one session | operations in flight, ready handlers in `strand_`, one action per handler outcome |
| `ThreadPool` | `thread_pool.cpp`, `blocking_queue.hpp` | the steps of `submit` and `stop` between which another thread can run; workers asleep in `cv_.wait` |
| `OfflineMailbox` | the contract of `OfflineMessageStore` | a save and a take, each atomic, a take's handing out, and what a fault may lose |
| `FileOfflineStore` | `offline_message_store.cpp` | load, truncating open and write are separate steps of a call |
| `MySqlOfflineStore` | `mysql_offline_message_dao.cpp`, `mysql_connection_pool.cpp` | the connection is acquired, each statement or transaction is a step that may throw, and the connection is given back |
| `OfflineStores` | `store_factory.cpp`, the null store | the store of the configured type, with two business threads; the refinement of `OfflineMailbox` |
| `RedisConnectionPool` | `redis_connection_pool.cpp` | `acquire` with its wait, `release`, `close`; callers asleep and woken callers that have not run |
| `RedisStatusStore` | `online_status_store.cpp` (Redis), over the pool | a call is acquire, command, release; keys expire |
| `ChatClient` | `client/main.cpp`, `chat_client.cpp` | the main thread's loop, the handlers of the network thread one at a time, the operations in flight, and the peer at the other end |
| `Protocol` | `protocol.cpp` (framing) | the header's arithmetic and the length limit |
| `Filter` | the loops that pick a user's records out of a file or a table | one recursive function; `SelectSeq` would do for TLC, but the provers know nothing of it |
| `SequenceLemmas` | | lemmas about sequences that the proofs share |
| `ChatServerProofs`, `RoomChatProofs`, `SessionIOProofs`, `ThreadPoolProofs`, `OfflineStoresProofs`, `RedisStatusStoreProofs`, `ChatClientProofs` | | the theorems about each component and the modules it is built from; [Proofs](#proofs) |
| `MC...` | | instances for TLC |

How they compose: `ChatServer` and `RoomChat` extend `ChatRoom` and use its
operations; `RegistryRuns` checks that `ChatServer` uses them as `RoomSpec`
allows, so what is proved of `RoomSpec` holds between two restarts of the
server. `RoomChat` takes its agents from `RoomAiConfig`, and `ChatClient` frames
with `Protocol`. `OfflineStores` composes the stores, `RedisStatusStore` the pool
and the calls. What `ChatServer` assumes of the I/O of a session (one late
payload at most, and only after the writer closed) is `LateOnlyAfterWriter` in
`SessionIO`; that tasks run once and in order of submission is `ThreadPool`. It
does not assume that a call of the store is atomic: the steps of `FileOfflineStore`
and `MySqlOfflineStore` are its own, less the connections and with the file read
as soon as the call begins. `OfflineStores` has the stores apart from the server,
with callers that save and take as they like.

### Abstractions

* A message is a number or a model value, a password always matches or the
  request is refused. A refused request only replies, so it is not a step.
* `outbox` holds what was pushed on `write_queue_`; what becomes of it on the
  wire is `SessionIO`. A message pushed on the queue of a session that later
  closes counts as delivered in `ChatServer`; likewise `pushed` in `RoomChat`.
  A private message is taken to fit a frame there. In `SessionIO` and `RoomChat`
  the messages in `TooLong` do not, and count neither as sent nor as heard.
* `list_users` and `list_rooms` only read the registry and reply.
* A session object is used for one connection (`phase` goes from "new" to
  "open" to "stopped"), as in the code.
* `Terminate` covers the exceptions of the database layers that no handler
  catches: they leave `io_context_.run()` and end the process. The next process
  has the users and the stored messages and nothing else.
* In the file store the records of one call reach the file at once, from its
  start: the stream's buffer holds more than the models' files. A file that
  cannot be opened, a full disk or a short write is not modelled (the code does
  not look).
* `clashed` and `overtaken` (`ChatServer`), `clashed` (the stores) only watch: no
  guard depends on them. A message is in `clashed` when two calls of the store that
  overlap have both had it in hand, or when one has begun while it was in
  another's; it is in `overtaken` when a load of its recipient read the store
  while some thread was saving it. These are the cases in which the code does
  lose, double or strand mail; `file_store_race` and `server_overtaken` show that
  it does. Every other message is claimed, and with one thread there are no such
  cases.
* In `RedisStatusStore` calls come from several threads, as the pool's own lock
  and condition variable provide for. The server today calls it from the one io
  thread only, so that there nobody ever waits in `acquire`. A command may never
  return: `redisConnect` sets no time-out.
* In `ChatClient` the server is a peer that reads what it is sent and may send
  anything, over-long frames included. A line typed is a command, whether it is
  complete, and the length of its message. Once `close()` has stopped the
  `io_context`, the handlers still in the strand's batch may run
  (`RestOfBatch`), and nothing else.
* A provider of AI answers is its outcome: an answer, an empty answer or an
  exception.
* `CHECK_DEADLOCK` is off wherever the bound on inputs lets the system come to
  rest. `client` checks it: `Terminated` is the only state that may rest.

## Runs

Type correctness and the conjuncts that only make sense together are one
invariant per component: `RegistryInv`, `ServerInv`, `RoomChatInv`, `SessionInv`,
`PoolInv`, `StatusInv`, `ClientInv`.

| Run | Question | Bounds |
|---|---|---|
| `server` | do sessions, registry and status store agree, does `login` always find a name, and is the registry used as it expects? | 2 sessions, 2 users (the name of one is also the adjusted name of the other), 2 rooms, 1 message, 1 or 2 business threads, each kind of store, 1 fault |
| `server_mail` | is every message in one place, delivered to its recipient, not stranded; is `PrivateMessaging` implemented; with one thread, is the order kept? | the same with 2 messages and 1 room |
| `server_live` | does what is stored for a user reach that user's connection? | 2 sessions, 1 or 2 business threads, 1 message, 1 room, file and MySQL store, no faults |
| `server_queued_lost` | is a message "queued for later delivery" ever lost without a fault? **Yes** | 2 sessions, 1 thread, 1 message, file store, no faults |
| `server_overtaken` | does a login's load always empty the store? **No** | 2 sessions, 2 threads, 1 message, file store, no faults |
| `session_io` | the reads, writes and timer of one session | 3 delivered messages, 2 client frames; one message and one reply too long for a frame |
| `thread_pool` | does every accepted task run once, and does `stop` return? | 3 workers, 2 submitters, 4 tasks, 2 starts |
| `offline_stores` | is each store a mailbox as long as no calls clash, does it hand out only what was saved for the user, and are connections conserved? | 3 messages, 2 users, 2 takes, 2 business threads, 1 connection, 1 failure or crash |
| `file_store_race` | is a message whose save returned ever lost without a fault? **Yes** | the same, file store, no fault |
| `client` | does what is typed arrive in order, and does the process end? | 3 lines of 4 kinds, 2 replies, each of a fitting or an over-long length |
| `redis_status` | are connections conserved, is whoever waits woken, does no status outlive its session for good? | 3 callers, 2 connections, 4 calls, 2 faults |
| `room_chat` | do the registry's maps agree, who hears what, in which order, and is every question answered? | 2 sessions, 2 rooms with an agent each (one local because its provider is left empty, with the shortest history, one on a provider written in another letter case), 5 requests of which 2 questions, 2 business threads, two events too long for a frame |

Why the bounds are enough: a race over one message needs its sender, its
recipient and a worker or two; an order needs two messages; a name clash needs
two sessions asking for one name; what three and more do to each other's names is
for the theorems. A write queue shows its cases with one message in flight, one
waiting and the notice; a lost wake-up needs two sleeping workers and two pushes,
a restart two starts. A pool with fewer connections than callers makes two of
three wait or be woken at once. An answer out of turn needs two questions on two
threads, and two rooms are what an asker can move between. The client's three
lines are one in flight, one queued and the command that ends it. A race in the
store needs two business threads and, for the file, a second message to be caught
in the rewrite: `server_mail` has both. The room a session is in plays no part in
private messages, so that run has one room; `server` has two. In the passing
server runs the number of threads is part of the initial state (`threads`), so
that one run has the default of two and the pool of one, whose order `StoredOrder`
is about. Two sessions mean that a recipient connects once in the server runs, and
again only as the next session; a sender besides two connections of the recipient
needs a third. The liveness of `server_live` is checked for one message: two
messages wait for each other only in the queue, which `ThreadPool` treats with
four tasks.

### What the violations show

* `server_queued_lost`: the recipient logs in, the load takes the message out of
  the store, the session closes, and the message is dropped at the strand. A
  late login (below) loses mail in the same way.
* `server_overtaken`: one worker has the save of a message in hand and has not
  written it; the recipient logs in, the other worker takes the load, finds
  nothing and is done; then the message is written. It waits for the next login
  although its recipient is connected.
* `file_store_race`: two saves at once; the one that read first writes last.

### What the properties leave open

Behaviour of the code that a reader may not expect. The models have it, and the
properties either except it by name or say nothing of it:

* A login that was read before the idle notice closed the session is carried out
  after it (`LateOnlyAfterWriter` says exactly when). The name, the room and the
  online status then stay, with no connection, until the server stops, and
  private messages to the name are reported as delivered and dropped.
* A client that reads nothing is never disconnected, however long it is idle: the
  notice waits behind a write that does not complete, and the timer is not armed
  again. `IdleCloses` supposes that the client keeps up.
* A process that dies between the opening of the message file, which truncates it,
  and the write loses what the file held. In the MySQL store a message inserted
  between a take's SELECT and its DELETE is deleted unread, and a DELETE that was
  carried out and throws all the same, or a process that dies after it, loses the
  messages read. These are the losses `OfflineMailbox` names (`Lose`, `DieEmptied`) and
  those of `clashed`.
* A local answer quotes the history, earlier answers included, so that with the
  default history of eight entries the answers about double; after some seven
  questions one is too long for a frame and nobody hears it. `AskedIsAnswered`
  excepts answers that are too long; when an answer is, is up to its wording.
* Two members of a room may hear two others in different orders: only the order
  of each sender is kept (`SenderOrder`).
* A message of more than 8192 bytes becomes an empty frame: nothing is sent and
  nobody is told, on either side. `SentInOrder`, `WireInOrder`, `IdleCloseIsClean`,
  `SenderOrder` and `AskedIsAnswered` speak of what fits.
* With two business threads `StoredOrder` fails: two saves may be written in the
  other order.
* A command to Redis that gets no answer blocks the io thread, and with it every
  session, for as long as Redis takes.
* An answer whose asker has closed stays in the room's history but is not said.
* A room with `enabled=false` still has the default agent when there is one; a
  default agent with an empty name answers as "room-bot", a name nobody
  reserves (the exception in `AgentsAgree`).
* A second login of one user gets a numbered name, which may be the name of
  another account; mail for that account is then handed to it.
* A client whose connection ends sits in `getline` until a line is typed or the
  input ends.

### Fairness

`server_live` assumes that business threads and the io thread keep running
(weak fairness of a worker's steps, which includes that a call of the store
returns, and of the turn of a posted handler), never that a client does anything.
`room_chat` assumes that a strand with a handler runs it and that the oldest task
ends: the local text is computed, and a request to a provider has a time limit.
`session_io` assumes that ready handlers run, that the timer expires, and that a
closed socket completes its read and its write. It does not assume that the client
sends or reads: a write need not complete while the session is open. So
`IdleCloses` has its premise (`KeepsUp`: the write queue is empty again and again).
`thread_pool` assumes that a thread that is not asleep runs and that
tasks return (store operations do; an AI request has a time limit); it does not
count on spurious wake-ups. `redis_status` assumes nothing of the calls, and that the key
of a user with no session expires, which is what Redis does with a key nobody
sets again. `client` assumes that a thread that can go on does, that an operation completes,
with an error or without, and that the server keeps reading; nothing makes the
user type, and the process is only said to end once the typing has.

## Proofs

Every invariant, action property and refinement that a passing run checks is also
a theorem: the run shows it on a small instance, the
proof for every value of the constants. What TLC alone shows is listed at the end
of this section.

| Theorem | States | Rests on |
|---|---|---|
| `RegistryConsistent`, `LoginTerminates` | `RegistryInv`, `LoginLoopEnds` of `RoomSpec` | itself |
| `ServerConsistent` | `ServerInv` | `Consistent` |
| `RegistryUsedRight` | `RegistryRuns` | `Consistent` |
| `OwnMailOnly` | `NoForeignDelivery` | `ServerIInv` |
| `NothingLostOrDoubled` | `MessagesConserved` | `ServerIInv` |
| `MessagingImplemented` | `ImplementsMessaging` | `ServerIInv` |
| `NothingStranded` | `NoStranded` | `ServerIInv`, `FetchInv` |
| `LoginFetchesAll` | `LoginEmptiesStore` in a pool of one thread | `NothingStranded`, `Solo` |
| `StoredInOrder` | `StoredOrder` | `ServerIInv`, `Solo`, `OrderInv` |
| `RoomChatInvHolds` | `RoomChatInv` | `TypeInv`, `AgentsAgree` |
| `SenderOrderHolds`, `QuestionBeforeAnswerHolds`, `HistoryOrderedHolds` | `SenderOrder`, `QuestionBeforeAnswer`, `HistoryOrdered` | `ChatIInv` |
| `EnabledIsAnswered`, `AgentsAgree` | the two look-ups of an agent agree | |
| `SessionInStep`, `WireKeepsOrder`, `LatePayloads`, `IdleClosesClean` | `SessionInv`, `WireInOrder`, `LateOnlyAfterWriter`, `IdleCloseIsClean` | `SessionIInv` |
| `NoWakeupLost`, `NoTaskLostOrDoubled`, `StopHasDrained` | `PoolInv`, `AcceptedRunsOnce`, `StopDrains` | `PoolIInv` |
| `StoresRightful`, `ConnectionsKept`, `MailboxImplemented` | `StoresInv`, `ConnectionsConserved`, `ImplementsMailbox` | `StoresIInv` |
| `StatusConsistent` | `StatusInv` | itself |
| `ClientInStep`, `OrderOfLines`, `QuitLeavesNothing` | `ClientInv`, `SentInOrder`, `QuitIsClean` | `ClientIInv`, `SentInv`, `QuitInv` |
| `HeaderRoundTrip`, `FramedIsAccepted` | framing, for every 32-bit length | |

In each module there is a lemma per action (or per operation), in it a step per
conjunct the action can disturb, and one lemma that puts the actions together.

### The arguments

**Registry** (`ChatServerProofs`). The conjuncts of `RegistryInv` are proved
together because none is inductive alone: a login writes `name_index_` only, and
is unique among `names_` because the two are inverse; and it overwrites
`names_[s]` without cleaning the index because `SameSessions` says that a
session that is not in `sessions_` has no name. `LoginLoopEnds` is a count: the
names taken are at most the sessions and the agents, and the candidates are more.

**Server** (`ChatServerProofs`). `ServerIInv` has four parts. `Consistent` is
`ServerInv` and `RegistryInv`, which says that a logged-in session is told apart
by its name: `close_session()` takes that name off line, and it is nobody else's.
`StoreInv` is about the calls of the store: a call that has begun to rewrite the
file is the only one in it, or all that it has in hand is in `clashed`; what a take
has read from the table is what its DELETE will delete, but for what is in
`clashed`. `MailInv` says that every load, every message in a worker's hands, on a
strand or on a write queue is for the name its session has, unless the session is
stopped; `NoForeignDelivery` is one line from it. `PlaceInv` says that there is a
function from the messages that have not clashed to places such that each place
holds exactly what the function says, none of them twice; a step moves a set of
messages from one place to another (`Move`), or brings a new one (`Arrive`).
A rewrite under way is the place "store" until it is done, so that truncating
the file moves nothing and a process that dies in between drops it.
`MessagesConserved` counts the places. In the refinement, what `PrivateMessaging`
holds is what was neither delivered nor dropped and has not clashed.

`FetchInv`: a save in the queue for a connected user has a load of that user's mail
behind it; one in a thread's hands has one in the queue, or in a thread's hands
that has not begun to read, or is in `overtaken`; and a message in the store has
one in the queue or in a thread's hands, or is in `overtaken` or `clashed`. An
exception may take the load away.

While the pool has one thread (`Single`: no other runs a task), `Solo` says that nothing has clashed and nothing was
overtaken, and what the one call has read is what is in the store; `NoStranded` is
then `LoginEmptiesStore`. `OrderInv`: the store, then the message being saved, then
the save tasks in the queue are in the order of the log; and for a session
that is not stopped the write queue, the strand and the thread's hands, restricted
to the stored messages, are one sequence that grows and that lies below whatever
is still in the store or to be saved for that user. A step moves an element from
one part of the sequence to the next. Exceptions and restarts keep `OrderInv`.

**Rooms** (`RoomChatProofs`). `ChatIInv` joins to the types: what is asked is a
task of a room that has an agent; what is posted to a strand is asked and not yet
answered, at most once; the questions of the log are answered at most once; the
histories have questions of their room, each before its answer; and `StreamInv`:
what a session has heard and what waits on its strand, taken together and
restricted to what one other session said, is in the order it was said, and is
all of it that was addressed to the listener unless that one has stopped. A
broadcast appends to both sides of this equation, a delivery that runs changes
neither. `SenderOrder` leaves the answers and what fits no frame out of it. `QuestionBeforeAnswer` needs
it too: an answer is said by the session that asked, after its question, so that
both come in that order. `HistoryOrdered` is a part of the invariant.
`RoomChatInvHolds` takes the look-ups' agreement from `AgentsAgree` and has its
hypothesis: the default agent, where a room inherits it, has a name. Without it
the conjunct is false, see above ("room-bot").

**Session I/O** (`SessionIOProofs`). The invariant counts the handlers that are
ready together with the operations in flight: an open session has one read, one
timer and at most one write, wherever each is, so that a handler that runs leaves
room for what it starts. `WireInv` says which part of what was pushed is on the
wire, `TimerInv` that after an idle close the notice was pushed, `PushInv` bounds
what is still to come.

**Thread pool** (`ThreadPoolProofs`). The argument is that `push()` always finds
the queue open: a closed queue swallows a task, and `reset()` forgets what is in
it. `submit()` keeps `mutex_` from its test of `running_` to the end of `push()`,
and `stop()` keeps it from `running_ = false` to the end of `close()`. `MutexInv`
and `PhaseInv` say that much; with them `NoLostWakeup` and `AcceptedRunsOnce` are
inductive. `StopDrains` follows, since a worker leaves only a closed, empty queue.

**Offline stores** (`OfflineStoresProofs`). Whatever clashes, what a call has read and
what the store holds was saved, and what is about to be handed out is for the
user (`StoresInv`, inductive with the types). For MySQL the invariant also counts
connections (the pool's, plus one per call under way) and says that a message
being inserted is nowhere else and that, until two calls clash, what a take has
read is what its DELETE deletes. For the file, until then there is one call in it,
and the file is what the call has read or is empty. The refinement then has one
step per step that shows: the write or the INSERT saves, the write or the DELETE
takes, the return hands out, and a fault forgets or loses.

**Status store** (`RedisStatusStoreProofs`). `StatusInv` is inductive as it
stands: while somebody waits there are never more connections in the pool than
callers woken, because `release()` adds one to each; and until the pool is closed a
connection leaves it only into the hands of a caller, and comes back from there.

**Client** (`ChatClientProofs`). `ClientIInv` counts what is outstanding, as in
the session. `SentInv`: what the server has read, what is on the way to it, the
write queue (less its head once that is written) and the writes waiting on the
strand are together what was typed and fits a frame. `QuitInv` says why an
operation fails or the client closes. The framing theorems divide by 256 three
times.

### Techniques

The provers have no induction over sequences. `SequenceLemmas` gets it from
least counterexamples (`LeastElement`, `UpTo`) and states it for a set of
sequences (`SequenceInduction`), from which come the facts about `Only`, about
`Picked` (filter and map) and about growing sequences. Counting is by the
cardinality of a set of places.

### Assumptions

All are named in the module that declares the constants, and TLC evaluates them
in every run.

* `ChatRoomAssumption`, `CandidatesSuffice`: names are names; the candidates of a
  user differ and are more than the sessions and agents. The code counts without
  a bound; `MaxSuffix` stands for "far enough".
* `RoomAiConfigAssumption`, `RoomChatAssumption`: a file is a record of sections,
  and the registry's reserved names are those `configured_ai_bot_names_` gives.
* `ThreadPoolAssumption`, `RedisConnectionPoolAssumption`,
  `OfflineStoresAssumption`: threads and connections are finitely many; a pool
  has a worker (`start()` makes one at least).
* `ChatClientAssumption`, `SessionIOAssumption`, `FileOfflineStoreAssumption`,
  `NoneIsNoTask`, `NoneIsNoFrame`: bounds are numbers, and the value that stands
  for "nothing" is none of the values it stands beside.
* `StoredInOrder` and `LoginFetchesAll` assume nothing of the constants, but claim
  something only of a pool of one thread (`OneThread`). With two, the default,
  mail may overtake and be stranded (`server_overtaken`).
* `RoomChatInvHolds` supposes that a default agent a room inherits has a name.

### Only model-checked

Liveness and `ENABLED` are out of the prover's reach: `InFlightSettles`,
`QueuedReachesOnline`, `AskedIsAnswered`, `Released`, `IdleCloses`, `AcceptedRuns`,
`StopReturns`, `TypedArrives`, `ProcessEnds` and `StaleStatusExpires` hold on the
runs' instances. The violations are counterexamples and need no proof.

## Not modelled

* Text: passwords and their hash, JSON, the bar-separated records of the file
  store (a name with a bar or a message with a line break in it is read back as
  something else), log lines, how the client shows a message.
* What is sent to a provider of AI answers, its URL and the curl command that
  sends it, and what the local answers say. They change no state; a failure
  anywhere in them is the exception `FallBack` handles.
* Errors of file operations in the file store, which the code does not look at.
* The settings that are single values read once at start-up, the order in which
  `main()` makes its objects, and an accept that fails.
* `is_online()`, which nothing calls.

## Plan

Done: every component with state of its own, its hazards and its runs; a theorem
for every invariant, action property and refinement the passing runs check.

Left, in this order:

1. The pieces against each other: `ThreadPool` as the first-in first-out task
   queue that `ChatServer` takes it for, as a refinement; `RoomChat` as a run of
   `RoomSpec`, as `RegistryRuns` is for `ChatServer`.
2. A run of the liveness properties in which the recipient connects twice, if
   its size allows.
3. The length of a private message in `ChatServer`: one too long for a frame is
   queued, and nobody hears of it.
