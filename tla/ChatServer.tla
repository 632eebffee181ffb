----------------------------- MODULE ChatServer -----------------------------
(***************************************************************************)
(* The server: client sessions (chat_session.cpp) over the registry of     *)
(* ChatRoom, the user table, the online-status store, the offline-message  *)
(* store and the business thread pool that runs its tasks.                 *)
(*                                                                         *)
(* One thread runs io_context_, so a completion handler of a session is    *)
(* one action, whatever session it belongs to.  The business threads run   *)
(* concurrently with it and with each other; they call the offline store   *)
(* and post deliver() to a session's strand.  A call of the store is not   *)
(* one step: the file store reads the file, truncates it and writes it     *)
(* anew, the MySQL store takes messages with a SELECT and a DELETE, and    *)
(* other calls, or the end of the process, may come in between.  The       *)
(* stores by themselves are in FileOfflineStore and MySqlOfflineStore, the *)
(* thread pool's own steps are in ThreadPool, and the reads, writes and    *)
(* timer of one session are in SessionIO.                                  *)
(*                                                                         *)
(* A private message is its number in log.  A message to a name that       *)
(* mentions a room's AI agent ("ai") takes another branch of the handler:  *)
(* Users holds no such name.                                               *)
(***************************************************************************)
EXTENDS ChatRoom, Filter, Functions

CONSTANTS
  Workers,     \* business threads the pool may be configured with
  Stores,      \* the offline_store_type values the server may be configured with
  MaxMsgs,     \* bound on the private messages sent
  MaxFaults    \* bound on store exceptions and process terminations

ASSUME ChatServerAssumption ==
  /\ Stores \subseteq {"none", "file", "mysql"}
  /\ MaxMsgs \in Nat
  /\ MaxFaults \in Nat
  /\ None \notin Workers

VARIABLES
  users,           \* the users table
  phase,           \* "new" before accept, "open", or "stopped" (stopped_)
  late,            \* a completed body read waits behind the handler that closed
  logged_in_, user_name_, current_room_,
  online_users_,   \* MemoryOnlineStatusStore
  log,             \* the recipients of the private messages sent, in order
  queued,          \* those whose sender was told "queued for later delivery"
  tasks,           \* the queue of the business thread pool
  threads,         \* the workers of the pool: executor.business_threads of them
  running,         \* worker -> the task it runs, with its progress
  store,           \* offline_store_type
  stored,          \* the offline messages in the file or table
  at,              \* worker -> "idle", or where it is in a call of the store
  memory,          \* worker -> the messages that call has read
  clashed,         \* messages that calls of the store which overlap have both touched
  overtaken,       \* messages being saved while a load for their recipient read the store
  strand,          \* session -> deliver() calls posted to its strand
  outbox,          \* session -> private messages pushed on its write_queue_
  dropped,         \* messages that no part of the system holds any more
  faults           \* store exceptions and terminations so far

connVars == <<phase, late>>
loginVars == <<logged_in_, user_name_, current_room_, online_users_>>
storeVars == <<threads, store, stored, at, memory, clashed, overtaken>>
mailVars == <<log, queued, storeVars, strand, outbox, dropped>>
poolVars == <<tasks, running>>
serverVars == <<roomVars, connVars, loginVars, mailVars, poolVars, users, faults>>

Msg == 1..MaxMsgs
SaveTask == [kind : {"save"}, msg : Msg]
LoadTask == [kind : {"load"}, session : Sessions, name : Names]
SendTask == [kind : {"send"}, session : Sessions, msgs : Seq(Msg)]

ASSUME NoneIsNoTask == None \notin SaveTask \cup LoadTask \cup SendTask

TypeOK ==
  /\ RoomTypeOK
  /\ users \in SUBSET Users
  /\ phase \in [Sessions -> {"new", "open", "stopped"}]
  /\ late \in [Sessions -> BOOLEAN]
  /\ logged_in_ \in [Sessions -> BOOLEAN]
  /\ user_name_ \in [Sessions -> Names \cup {None}]
  /\ current_room_ \in [Sessions -> Rooms]
  /\ online_users_ \in SUBSET Names
  /\ log \in Seq(Users) /\ Len(log) <= MaxMsgs
  /\ queued \in SUBSET Msg /\ dropped \in SUBSET Msg
  /\ tasks \in Seq(SaveTask \cup LoadTask)
  /\ running \in [Workers -> SaveTask \cup LoadTask \cup SendTask \cup {None}]
  /\ threads \in SUBSET Workers
  /\ store \in Stores /\ stored \in Seq(Msg)
  /\ at \in [Workers -> {"idle", "open", "write", "delete"}]
  /\ memory \in [Workers -> Seq(Msg)]
  /\ clashed \in SUBSET Msg /\ overtaken \in SUBSET Msg
  /\ strand \in [Sessions -> Seq(Msg)]
  /\ outbox \in [Sessions -> Seq(Msg)]
  /\ faults \in 0..MaxFaults

Init ==
  /\ RoomInit
  /\ users = {}
  /\ phase = [s \in Sessions |-> "new"]
  /\ late = [s \in Sessions |-> FALSE]
  /\ logged_in_ = [s \in Sessions |-> FALSE]
  /\ user_name_ = [s \in Sessions |-> None]
  /\ current_room_ = [s \in Sessions |-> Lobby]
  /\ online_users_ = {}
  /\ log = <<>> /\ queued = {} /\ dropped = {}
  /\ tasks = <<>>
  /\ running = [w \in Workers |-> None]
  /\ threads \in (SUBSET Workers) \ {{}}
  /\ store \in Stores /\ stored = <<>>
  /\ at = [w \in Workers |-> "idle"]
  /\ memory = [w \in Workers |-> <<>>]
  /\ clashed = {} /\ overtaken = {}
  /\ strand = [s \in Sessions |-> <<>>]
  /\ outbox = [s \in Sessions |-> <<>>]
  /\ faults = 0

-----------------------------------------------------------------------------
(* deliver(): its lambda runs on the strand of t.  Called on the io thread *)
(* while nothing is posted there it runs at once, else it queues behind.   *)
DeliverNow(t, m) ==
  \/ /\ phase[t] # "stopped"
     /\ outbox' = [outbox EXCEPT ![t] = Append(@, m)]
     /\ UNCHANGED dropped
  \/ /\ phase[t] = "stopped"
     /\ dropped' = dropped \cup {m}
     /\ UNCHANGED outbox

deliver(t, m) ==
  \/ strand[t] = <<>> /\ DeliverNow(t, m) /\ UNCHANGED strand
  \/ /\ strand[t] # <<>>
     /\ strand' = [strand EXCEPT ![t] = Append(@, m)]
     /\ UNCHANGED <<outbox, dropped>>

(* Defect: what has run stays in the strand. *)
RunPostedKept(s) ==
  /\ strand[s] # <<>>
  /\ DeliverNow(s, Head(strand[s]))
  /\ UNCHANGED <<roomVars, connVars, loginVars, poolVars, users, log, queued, storeVars, strand, faults>>

(* A deliver() posted from a business thread gets its turn.                *)
RunPosted(s) ==
  /\ strand[s] # <<>>
  /\ strand' = [strand EXCEPT ![s] = Tail(@)]
  /\ DeliverNow(s, Head(strand[s]))
  /\ UNCHANGED <<roomVars, connVars, loginVars, poolVars, users, log, queued, storeVars, faults>>

-----------------------------------------------------------------------------
(* The io thread: a session's completion handlers.                         *)

Accept(s) ==
  /\ phase[s] = "new"
  /\ phase' = [phase EXCEPT ![s] = "open"]
  /\ UNCHANGED <<roomVars, late, loginVars, mailVars, poolVars, users, faults>>

(* read_body()'s handler passes the payload on without looking at          *)
(* stopped_, so a read that completed before the session closed is still   *)
(* handled after it.  A stopped session reads nothing more.                *)
Frame(s) ==
  /\ phase[s] = "open" \/ late[s]
  /\ late' = [late EXCEPT ![s] = FALSE]
  /\ UNCHANGED <<phase, faults>>

(* Defect: a load overtakes the tasks in the queue. *)
SubmitFirst(task) == tasks' = IF task.kind = "load" THEN <<task>> \o tasks ELSE Append(tasks, task)

(* The users table, whose names are UNIQUE; passwords are left out.        *)
insert_user(u) == users' = users \cup {u}
find_user(u) == u \in users

(* MemoryOnlineStatusStore; refresh() does what mark_online() does.        *)
mark_online(n) == online_users_' = online_users_ \cup {n}
mark_offline(n) == online_users_' = online_users_ \ {n}

(* submit_store_task(): the executor runs as long as the server does.      *)
submit_store_task(task) == tasks' = Append(tasks, task)

(* "register".  Every refusal of a request, here and below, only replies   *)
(* to the client.                                                          *)
RegisterUser(s, u) ==
  /\ Frame(s)
  /\ insert_user(u)
  /\ UNCHANGED <<roomVars, loginVars, mailVars, poolVars>>

(* Defect: a session logs in again. *)
LoginAgain(s, u) ==
  /\ Frame(s)
  /\ find_user(u)
  /\ login(s, u)
  /\ user_name_' = [user_name_ EXCEPT ![s] = names_'[s]]
  /\ current_room_' = [current_room_ EXCEPT ![s] = session_rooms_'[s]]
  /\ logged_in_' = [logged_in_ EXCEPT ![s] = TRUE]
  /\ mark_online(names_'[s])
  /\ submit_store_task([kind |-> "load", session |-> s, name |-> names_'[s]])
  /\ UNCHANGED <<mailVars, running, users>>

(* "login", with a name and password the users table confirms.             *)
Login(s, u) ==
  /\ Frame(s)
  /\ ~logged_in_[s]
  /\ find_user(u)
  /\ login(s, u)
  /\ user_name_' = [user_name_ EXCEPT ![s] = names_'[s]]
  /\ current_room_' = [current_room_ EXCEPT ![s] = session_rooms_'[s]]
  /\ logged_in_' = [logged_in_ EXCEPT ![s] = TRUE]
  /\ mark_online(names_'[s])
  /\ submit_store_task([kind |-> "load", session |-> s, name |-> names_'[s]])
  /\ UNCHANGED <<mailVars, running, users>>

JoinRoom(s, r) ==
  /\ Frame(s)
  /\ logged_in_[s]
  /\ change_room(s, r)
  /\ current_room_' = [current_room_ EXCEPT ![s] = r]
  /\ UNCHANGED <<logged_in_, user_name_, online_users_, mailVars, poolVars, users>>

(* "private_message" to a registered user other than the sender: delivered *)
(* to the session that holds the name, else handed to the thread pool for  *)
(* the offline store, and the sender is told so at once.                   *)
PrivateMessage(s, to) ==
  /\ Frame(s)
  /\ logged_in_[s]
  /\ find_user(to) /\ to # user_name_[s]
  /\ Len(log) < MaxMsgs
  /\ log' = Append(log, to)
  /\ \/ /\ name_index_[to] # None
        /\ deliver(name_index_[to], Len(log) + 1)
        /\ UNCHANGED <<queued, tasks>>
     \/ /\ name_index_[to] = None
        /\ submit_store_task([kind |-> "save", msg |-> Len(log) + 1])
        /\ queued' = queued \cup {Len(log) + 1}
        /\ UNCHANGED <<strand, outbox, dropped>>
  /\ UNCHANGED <<roomVars, loginVars, running, users, storeVars>>

Heartbeat(s) ==
  /\ Frame(s)
  /\ logged_in_[s]
  /\ mark_online(user_name_[s])
  /\ UNCHANGED <<roomVars, logged_in_, user_name_, current_room_, mailVars, poolVars, users>>

(* Defect: the status store is not told. *)
CloseStayingOnline(s) ==
  /\ phase[s] = "open"
  /\ phase' = [phase EXCEPT ![s] = "stopped"]
  /\ logged_in_' = [logged_in_ EXCEPT ![s] = FALSE]
  /\ leave(s)
  /\ UNCHANGED <<user_name_, current_room_, online_users_, mailVars, poolVars, users, faults>>

(* close_session() of a session that is not stopped.                       *)
close_session(s) ==
  /\ phase[s] = "open"
  /\ phase' = [phase EXCEPT ![s] = "stopped"]
  /\ IF logged_in_[s] THEN mark_offline(user_name_[s]) ELSE UNCHANGED online_users_
  /\ logged_in_' = [logged_in_ EXCEPT ![s] = FALSE]
  /\ leave(s)
  /\ UNCHANGED <<user_name_, current_room_, mailVars, poolVars, users, faults>>

(* The reader closes: "quit", a read error or a bad length header.  The    *)
(* reader is between two reads, so nothing read is left to handle.         *)
CloseFromReader(s) ==
  /\ close_session(s)
  /\ UNCHANGED late

(* The writer closes: a write error, or the idle notice is written.  A     *)
(* body read may have completed by then, its handler behind this one.      *)
CloseFromWriter(s) ==
  /\ close_session(s)
  /\ \E b \in BOOLEAN : late' = [late EXCEPT ![s] = b]

-----------------------------------------------------------------------------
(* The business threads.                                                   *)

(* Defect: the newest task is popped first. *)
PopNewest(w) ==
  /\ w \in threads /\ running[w] = None /\ tasks # <<>>
  /\ running' = [running EXCEPT ![w] = tasks[Len(tasks)]]
  /\ tasks' = SubSeq(tasks, 1, Len(tasks) - 1)
  /\ UNCHANGED <<roomVars, connVars, loginVars, mailVars, users, faults>>

(* Defect: the last task in the queue is not seen. *)
PopUnlessLast(w) ==
  /\ w \in threads /\ running[w] = None /\ Len(tasks) > 1
  /\ running' = [running EXCEPT ![w] = Head(tasks)]
  /\ tasks' = Tail(tasks)
  /\ UNCHANGED <<roomVars, connVars, loginVars, mailVars, users, faults>>

PopTask(w) ==
  /\ w \in threads /\ running[w] = None /\ tasks # <<>>
  /\ running' = [running EXCEPT ![w] = Head(tasks)]
  /\ tasks' = Tail(tasks)
  /\ UNCHANGED <<roomVars, connVars, loginVars, mailVars, users, faults>>

Runs(w, kind) == running[w] # None /\ running[w].kind = kind
TaskDone(w) == running' = [running EXCEPT ![w] = None]
WorkerFrame == UNCHANGED <<roomVars, connVars, loginVars, tasks, users, log, queued>>

(* The offline store.  UnderWay are the calls that have begun to read it.  *)
UnderWay == {v \in Workers : at[v] # "idle"}
Saving(v) == IF Runs(v, "save") THEN {running[v].msg} ELSE {}

(* Defect: the recipient is not looked at. *)
ForAnyone(msgs, n) == msgs
(* Defect: what is taken stays in the file. *)
WithFor(msgs, n) == msgs
For(msgs, n) == Only(msgs, {m \in DOMAIN log : log[m] = n})
NotFor(msgs, n) == Only(msgs, {m \in DOMAIN log : log[m] # n})

(* What a rewrite puts into the file starts at its first byte, over what   *)
(* another call may have written since the file was truncated.             *)
Overwrite(old, new) == new \o SubSeq(old, Len(new) + 1, Len(old))

(* What the store contains: what is in the file or the table, and what     *)
(* the calls that have truncated the file are about to write back.         *)
Writers == {v \in Workers : at[v] = "write"}
InStore == Range(stored) \cup UNION {Range(memory[v]) : v \in Writers}

(* What a call that begins to read the file while others are under way     *)
(* endangers: all that is in the file or in any of these calls' hands.     *)
Caught(w) ==
  IF UnderWay = {} THEN {}
  ELSE Range(stored) \cup UNION {Range(memory[v]) \cup Saving(v) : v \in UnderWay \cup {w}}

(* What a load that reads the store now will not find: its user's messages *)
(* that other workers are about to write.                                  *)
Missed(w) ==
  {m \in DOMAIN log : Runs(w, "load") /\ log[m] = running[w].name /\ \E v \in Workers : m \in Saving(v)}

(* load_all_message(), the first thing either call of the file store does. *)
ReadFile(w) ==
  /\ store = "file" /\ at[w] = "idle"
  /\ Runs(w, "save") \/ Runs(w, "load")
  /\ memory' = [memory EXCEPT ![w] = stored]
  /\ at' = [at EXCEPT ![w] = "open"]
  /\ clashed' = clashed \cup Caught(w)
  /\ overtaken' = overtaken \cup Missed(w)
  /\ UNCHANGED <<threads, store, stored, running, strand, outbox, dropped, faults>> /\ WorkerFrame

(* save_all_message(): the stream truncates the file when it opens it ...  *)
OpenTruncated(w) ==
  /\ at[w] = "open"
  /\ stored' = <<>>
  /\ at' = [at EXCEPT ![w] = "write"]
  /\ UNCHANGED <<threads, store, memory, clashed, overtaken, running, strand, outbox, dropped, faults>>
  /\ WorkerFrame

(* ... and writes when it is closed: see SaveMessage and TakeMessages.     *)
Rewrite(w, msgs) == at[w] = "write" /\ stored' = Overwrite(stored, msgs)

(* The SELECT of a take in the MySQL store; its DELETE is in TakeMessages. *)
BetweenStatements(n) == \E v \in Workers : at[v] = "delete" /\ running[v].name = n

SelectMessages(w) ==
  /\ store = "mysql" /\ at[w] = "idle" /\ Runs(w, "load")
  /\ LET n == running[w].name
     IN  /\ memory' = [memory EXCEPT ![w] = For(stored, n)]
         /\ clashed' = clashed \cup (IF BetweenStatements(n) THEN Range(For(stored, n)) ELSE {})
  /\ at' = [at EXCEPT ![w] = "delete"]
  /\ overtaken' = overtaken \cup Missed(w)
  /\ UNCHANGED <<threads, store, stored, running, strand, outbox, dropped, faults>> /\ WorkerFrame

CallReturns(w) ==
  /\ at' = [at EXCEPT ![w] = "idle"]
  /\ memory' = [memory EXCEPT ![w] = <<>>]
  /\ UNCHANGED <<threads, store, overtaken>>

(* The INSERT of a save.                                                   *)
Insert(m) ==
  /\ store = "mysql"
  /\ stored' = Append(stored, m)
  /\ clashed' = clashed \cup (IF BetweenStatements(log[m]) THEN {m} ELSE {})

(* store_offline_message_async: the end of the task.                       *)
SaveMessage(w) ==
  /\ Runs(w, "save")
  /\ LET m == running[w].msg
     IN  \/ Rewrite(w, Append(memory[w], m)) /\ UNCHANGED <<clashed, dropped>>
         \/ Insert(m) /\ UNCHANGED dropped
         \/ store = "none" /\ dropped' = dropped \cup {m} /\ UNCHANGED <<stored, clashed>>
  /\ CallReturns(w)
  /\ TaskDone(w)
  /\ WorkerFrame /\ UNCHANGED <<strand, outbox, faults>>

(* Its exception handler.  No file operation throws; the MySQL store's     *)
(* does, without or after executing the INSERT.                            *)
SaveThrows(w) ==
  /\ Runs(w, "save") /\ store = "mysql" /\ faults < MaxFaults
  /\ faults' = faults + 1
  /\ \/ dropped' = dropped \cup {running[w].msg} /\ UNCHANGED <<stored, clashed>>
     \/ Insert(running[w].msg) /\ UNCHANGED dropped
  /\ CallReturns(w)
  /\ TaskDone(w)
  /\ WorkerFrame /\ UNCHANGED <<strand, outbox>>

(* load_offline_message_async: take from the store what is addressed to    *)
(* the name, then, if the session object still exists, send it with one    *)
(* send_json() per message.  The object may be gone once no handler that   *)
(* matters is left to run and the registry has let go of it; an aborted    *)
(* read, write or timer may still keep it for a while.                     *)
MayBeGone(s) == phase[s] = "stopped" /\ ~late[s] /\ s \notin sessions_ /\ strand[s] = <<>>
Sending(s, msgs) == IF msgs = <<>> THEN None ELSE [kind |-> "send", session |-> s, msgs |-> msgs]

HandOut(w, msgs) ==
  LET s == running[w].session
  IN  \/ /\ running' = [running EXCEPT ![w] = Sending(s, msgs)]
         /\ UNCHANGED dropped
      \/ /\ MayBeGone(s)
         /\ dropped' = dropped \cup Range(msgs)
         /\ TaskDone(w)

(* The last step of a take: the file is written without the user's         *)
(* messages, or the DELETE is executed.                                    *)
TakeMessages(w) ==
  /\ Runs(w, "load")
  /\ LET n == running[w].name
     IN  \/ Rewrite(w, NotFor(memory[w], n)) /\ HandOut(w, For(memory[w], n))
         \/ at[w] = "delete" /\ stored' = NotFor(stored, n) /\ HandOut(w, memory[w])
         \/ store = "none" /\ UNCHANGED stored /\ HandOut(w, <<>>)
  /\ CallReturns(w)
  /\ UNCHANGED clashed
  /\ WorkerFrame /\ UNCHANGED <<strand, outbox, faults>>

(* The MySQL store throws, without or after executing the DELETE, and the  *)
(* messages read are thrown away.                                          *)
TakeThrows(w) ==
  /\ Runs(w, "load") /\ store = "mysql" /\ faults < MaxFaults
  /\ faults' = faults + 1
  /\ LET n == running[w].name
     IN  \/ UNCHANGED <<stored, dropped>>
         \/ /\ at[w] = "delete"
            /\ stored' = NotFor(stored, n)
            /\ dropped' = dropped \cup Range(For(stored, n))
  /\ CallReturns(w)
  /\ UNCHANGED clashed
  /\ TaskDone(w)
  /\ WorkerFrame /\ UNCHANGED <<strand, outbox>>

SendTaken(w) ==
  /\ Runs(w, "send")
  /\ LET s == running[w].session
         msgs == running[w].msgs
     IN  /\ strand' = [strand EXCEPT ![s] = Append(@, Head(msgs))]
         /\ running' = [running EXCEPT ![w] = Sending(s, Tail(msgs))]
  /\ WorkerFrame /\ UNCHANGED <<storeVars, outbox, dropped, faults>>

-----------------------------------------------------------------------------
(* Where a message is on its way through the server's memory.              *)
InTasks(m) == {i \in DOMAIN tasks : tasks[i].kind = "save" /\ tasks[i].msg = m}
InWorker(m) ==
  {w \in Workers : Runs(w, "save") /\ running[w].msg = m}
    \cup {w \in Workers : Runs(w, "send") /\ m \in Range(running[w].msgs)}
InStrand(m) == {s \in Sessions : m \in Range(strand[s])}
InMemory(m) == InTasks(m) # {} \/ InWorker(m) # {} \/ InStrand(m) # {}

(* The database layer throws in "login" or "private_message": nothing on   *)
(* the io thread catches it, so run() is left and the process terminates.  *)
(* It starts again with what the database and the offline store keep: a    *)
(* file that a call had opened for writing is empty.                       *)
Terminate ==
  /\ faults < MaxFaults
  /\ \E s \in Sessions : phase[s] = "open" \/ late[s]
  /\ faults' = faults + 1
  /\ phase' = [s \in Sessions |-> IF phase[s] = "new" THEN "new" ELSE "stopped"]
  /\ late' = [s \in Sessions |-> FALSE]
  /\ logged_in_' = [s \in Sessions |-> FALSE]
  /\ sessions_' = {} /\ online_users_' = {}
  /\ names_' = [s \in Sessions |-> None]
  /\ session_rooms_' = [s \in Sessions |-> None]
  /\ name_index_' = [n \in Names |-> None]
  /\ room_members_' = [r \in Rooms |-> {}]
  /\ tasks' = <<>>
  /\ running' = [w \in Workers |-> None]
  /\ strand' = [s \in Sessions |-> <<>>]
  /\ at' = [w \in Workers |-> "idle"]
  /\ memory' = [w \in Workers |-> <<>>]
  /\ dropped' = dropped \cup
       {m \in 1..Len(log) : InMemory(m) \/ m \in InStore \ Range(stored)}
  /\ UNCHANGED <<users, user_name_, current_room_, log, queued, threads, store, stored,
                 clashed, overtaken, outbox>>

-----------------------------------------------------------------------------
Client(s) ==
  \/ Accept(s)
  \/ \E u \in Users : RegisterUser(s, u) \/ Login(s, u) \/ PrivateMessage(s, u)
  \/ \E r \in Rooms : JoinRoom(s, r)
  \/ Heartbeat(s)
  \/ CloseFromReader(s)
  \/ CloseFromWriter(s)

Worker(w) ==
  \/ PopTask(w)
  \/ ReadFile(w) \/ OpenTruncated(w) \/ SelectMessages(w)
  \/ SaveMessage(w)
  \/ TakeMessages(w)
  \/ SendTaken(w)

StoreThrows(w) == SaveThrows(w) \/ TakeThrows(w)

Next ==
  \/ \E s \in Sessions : Client(s) \/ RunPosted(s)
  \/ \E w \in Workers : Worker(w) \/ StoreThrows(w)
  \/ Terminate

Spec == Init /\ [][Next]_serverVars

(* The threads of the pool and the io thread keep running; clients need    *)
(* not do anything.                                                        *)
Fairness ==
  /\ \A w \in Workers : WF_serverVars(Worker(w))
  /\ \A s \in Sessions : WF_serverVars(RunPosted(s))

FairSpec == Spec /\ Fairness

-----------------------------------------------------------------------------
(* A session is in the registry exactly while its own logged_in_ is set,   *)
(* and both have the same name and room for it: the session answers from   *)
(* its copies (user_name_, current_room_) while the registry routes by its *)
(* own.  A name the registry kept for a session that closed would be taken *)
(* until the server stops.                                                 *)
RegistryMatchesSession ==
  \A s \in Sessions :
    /\ s \in sessions_ <=> logged_in_[s]
    /\ logged_in_[s] => names_[s] = user_name_[s] /\ session_rooms_[s] = current_room_[s]

(* The status store has exactly the names of the logged-in sessions,       *)
(* although login, heartbeat and close_session() each write it apart from  *)
(* the registry.                                                           *)
OnlineExact == online_users_ = {user_name_[s] : s \in {t \in Sessions : logged_in_[t]}}

(* A session, the registry and the status store say the same of it after   *)
(* any sequence of requests, closes and restarts.                          *)
ServerInv == TypeOK /\ RegistryMatchesSession /\ OnlineExact

(* The sessions use the registry as ChatRoom expects: none logs in twice,  *)
(* and a restart begins with an empty registry.                            *)
RegistryRuns == RoomInit /\ [][RoomNext \/ RoomInit']_roomVars

(* Every private message sent is in one place of the server, once: in a    *)
(* save task, in a worker's hands, in the offline store, in a posted       *)
(* deliver() or on one write queue; a message that was dropped is in none. *)
(* Neither a session that closes while its mail is under way, nor a        *)
(* statement that fails, nor the end of the process in the middle of a     *)
(* rewrite duplicates a message or loses it but by dropping it.  Excepted  *)
(* are the messages that two calls of the store which overlap have both    *)
(* touched: those can be lost or delivered twice.                          *)
Occurs(f, m) == UNION {{x} \X {i \in DOMAIN f[x] : f[x][i] = m} : x \in DOMAIN f}
InFile(m) == {i \in DOMAIN stored : stored[i] = m}
Rewritten == [v \in Writers |-> memory[v]]
Copies(m) ==
  Cardinality(InTasks(m)) + Cardinality(InWorker(m))
    + Cardinality(InFile(m)) + Cardinality(Occurs(Rewritten, m))
    + Cardinality(Occurs(strand, m)) + Cardinality(Occurs(outbox, m))
Unclashed == DOMAIN log \ clashed
MessagesConserved ==
  \A m \in Unclashed : Copies(m) = IF m \in dropped THEN 0 ELSE 1

(* A client is sent only what is addressed to the name it has, through     *)
(* whatever rename, reconnection or late handler the message went past.    *)
NoForeignDelivery ==
  \A s \in Sessions : phase[s] = "open" => \A m \in Range(outbox[s]) : log[m] = user_name_[s]

(* The server implements PrivateMessaging; it answers for the messages     *)
(* that were neither dropped nor caught in two overlapping calls.          *)
Held == {m \in Unclashed : InMemory(m) \/ m \in InStore}
Messaging == INSTANCE PrivateMessaging WITH
  Connections <- Sessions, Recipients <- Users,
  sent <- log, held <- Held, received <- [s \in Sessions |-> Only(outbox[s], Unclashed)],
  given_up <- dropped \cup clashed, name <- user_name_
ImplementsMessaging == Messaging!Spec

(* With one business thread, the messages a recipient is sent from the     *)
(* offline store arrive in the order they were sent.                       *)
InStoredOrder(s) ==
  \A i, j \in DOMAIN outbox[s] :
    i < j /\ {outbox[s][i], outbox[s][j]} \subseteq queued => outbox[s][i] < outbox[s][j]
OneThread == \E w \in Workers : threads = {w}
StoredOrder == OneThread => \A s \in Sessions : InStoredOrder(s)

(* Without an exception, a message never lies in the offline store beside  *)
(* its logged-in recipient with no load on its way: a login that races a   *)
(* send does not strand it.  Excepted are the messages that some load of   *)
(* their recipient overtook while they were being saved, and those of      *)
(* overlapping calls; with one business thread there are none.             *)
Loads(n) ==
  \/ \E i \in DOMAIN tasks : tasks[i].kind = "load" /\ tasks[i].name = n
  \/ \E w \in Workers : Runs(w, "load") /\ running[w].name = n
Stranded(m) == name_index_[log[m]] # None /\ ~Loads(log[m])
NoStranded ==
  faults = 0 => \A m \in InStore \ (overtaken \cup clashed) : ~Stranded(m)

(* A message on its way through the server's memory settles: it is written *)
(* to the offline store, pushed on a write queue or dropped.               *)
InFlightSettles == \A m \in Msg : InMemory(m) ~> ~InMemory(m)

(* Without an exception, a message that was queued for a user reaches a    *)
(* connection of that name once there is one, unless that connection       *)
(* closes first, an earlier one takes the message along, or the message is *)
(* overtaken or in a clash.                                                *)
QueuedReachesOnline ==
  \A m \in Msg, s \in Sessions :
    m \in queued /\ phase[s] = "open" /\ logged_in_[s] /\ user_name_[s] = log[m]
      ~> \/ m \in dropped \cup clashed \cup overtaken
         \/ phase[s] = "stopped"
         \/ \E t \in Sessions : m \in Range(outbox[t])

(* The sender was told "queued for later delivery" (chat_session.cpp:440), *)
(* so without an exception the message is not dropped.                     *)
QueuedNotLost == faults = 0 => queued \cap dropped = {}

(* "... for later delivery": what is stored for a user waits for the next  *)
(* login, and does not stay behind once that login's load is over.         *)
LoginEmptiesStore == faults = 0 => \A m \in InStore : ~Stranded(m)
=============================================================================
