# A TLA+ model of the mmo_wow authentication server and its client

The repository holds an authentication server derived from TrinityCore (`src/Server`, C++) and a
Unity client that logs in to it (`src/Client`, C#).  These modules model the parts of both whose
correctness depends on the order of events: the login sessions, the queue and the worker threads
through which they reach the database, transactions, the life of the server's threads, what a start
does to the database and a crash leaves of it, the byte streams between client and server with the
dialogue on top of them, and the lock-free queue of the common library.

## 1. The system

### Threads

| thread | runs | source |
|---|---|---|
| main | configuration, `StartDB`, the main `io_context`: accepting, the realm list timer, the ban expiry timer, the database keep-alive, signals | `AuthServer/Main.cpp` |
| network thread (one) | a 1 ms timer calling `Update` on every session, and the read and write completions of every socket | `Shared/Networking/NetworkThread.h` |
| database workers | one per asynchronous connection of each pool, each executing operations of the pool's shared queue | `database/Database/DatabaseWorker.cpp` |
| logger, IP scan, update runner | log queue (if configured), child process output at startup | `Common/Logging`, `Common/Utilities/StartProcess.cpp` |

### Components, their state, their operations and what makes them correct

**Login session** (`AuthServer/Server/AuthSession.cpp`).  State: `_status`, `_build`,
`_expversion`, `_accountInfo` (a copy of the account row), `_srp6`, `_sessionKey`, `_queryProcessor`.
Operations: `Start`, `ReadHandler` with five command handlers, `Update`, four query callbacks.
Correct when: a session has at most one query out, and its callback finds the status it left; a
proof is judged only against a fresh SRP6 challenge of the same session; every accepted command is
answered once, in order; nothing is sent on a closed socket; wrong passwords are counted and
limited across sessions.

**Socket, MessageBuffer** (`Shared/Networking/Socket.h`, `Common/Utilities/MessageBuffer.h`).  State: read
buffer, write queue, `_closed`, `_closing`, `_isWritingAsync`.  Two implementations chosen at compile time
(IOCP completions, or reactor with `write_some`).  Correct when: the bytes sent are a prefix of the
packets queued, in order; no packet is forgotten; the read buffer always has room for a read and does
not grow for a client whose packets fit it.

**Network threads, acceptor** (`NetworkThread.h`, `SocketMgr.h`, `AsyncAcceptor.h`,
`AuthSocketMgr.h`).  State: `_newSockets` under a lock, `_sockets`, `_connections`, `_stopped`.
Correct when: the counter agrees with the two lists; a socket is handed over once; after
`StopNetwork` nothing runs.

**Database pool** (`database/Database/DatabaseWorkerPool.cpp`, `DatabaseWorker.cpp`,
`Common/Threading/ProducerConsumerQueue.h`).  State: the queue and its `_shutdown` flag, one thread
and one cancellation token per asynchronous connection, the connection lists, `_connectionInfo`.
Operations: `Open`, `OpenConnections`, `Close`, `Enqueue`, `WaitAndPop`, `Cancel`, worker loop,
`GetFreeConnection`, `Query`, `DirectExecute`, transactions, `KeepAlive`.  Correct when: every
operation is executed and deleted at most once and started in order; no wakeup is lost; a pool in
service drops nothing; destroying a connection terminates.

**MySQL connection** (`MySQLConnection.cpp`).  State: the handle, `m_reconnecting`, the prepared
statements, `m_Mutex`.  Hard: `_HandleMySQLErrno` reconnects and retries a statement in the middle
of what the caller may believe is a transaction.

**Transactions** (`Transaction.cpp`).  Retry on deadlock under a global lock, for up to
`DEADLOCK_MAX_RETRY_TIME_MS`.  Correct when: all or nothing, at most once.

**Query callbacks** (`QueryCallback.cpp`, `AsyncCallbackProcessor.h`).  A vector of futures polled
from `Update`; chains of callbacks.  Correct when: each callback runs exactly once, and one added
during processing is kept.

**Database loader** (`database/Database/DatabaseLoader.cpp`).  State: four queues of closures, the closers.
`Load` opens the pools, populates, updates and prepares them; on failure what was opened is closed
again.  Correct when: it leaves all of its pools open and usable, or none.

**Database updater** (`database/Updater/DBUpdater.cpp`, `UpdateFetcher.cpp`).  State: the update directories, the
table `updates`, the database itself.  `Create`, `Populate`, `Update`.  Each file is applied by an external
`mysql` and recorded by a statement of its own.  Correct when: whatever crashes, statements that fail,
and files that are added, renamed, edited or removed came before, a start without fault has applied every
file and the table says so.

**Realm list** (`Shared/Realm/RealmList.cpp`).  `_realms` is rebuilt by a timer of the main thread
while the network thread iterates over it.

**Secret manager** (`Shared/Secrets/SecretMgr.cpp`).  State: the TOTP secrets and the digest of the key they are
encrypted with, in the database; the keys of the configuration; `state` and `value` of the secret.
Moves every secret from an old to a new key in one transaction, which it enqueues and does not wait
for.  Correct when: every secret is encrypted with the key of the digest, and a start that worked once
works again with the same configuration.

**Server lifecycle** (`AuthServer/Main.cpp`).  Scope guards that stop the network before the
database; signals; timers.

**Client** (`src/Client/Assets/Scripts`).  `TcpClient` (a modified NetCoreServer class) is shared, almost without
locks, by the main thread and the threads that complete connects, sends and receives: `ConnectAsync`,
`SendAsync`, `Disconnect`, two send buffers, `IsConnected`, `IsConnecting`, `_sending`, `_receiving`.  Only the
send buffers have a lock; every test of a flag is made outside of it.  `NetworkManager` passes what each
receive returned to the main thread, through a `Queue<T>` of which only the reader takes the lock, and takes
it for one message, which it answers.  Correct when: bytes leave
in the order they were given; the client does not wedge; a message per receive is what it gets; whoever
logs in is told the outcome.

**MPSCQueue** (`Common/Threading/MPSCQueue.h`).  Two lock-free queues of many producers and one consumer.
Nothing in this repository uses them.  Correct when: first in, first out; nothing is lost; no freed node is
touched.

**IPLocation** (`Common/IPLocation`).  Address ranges read from a file, sorted, searched by halves.  Correct
when: an address is found exactly when a range covers it.

Other utilities (log, configuration, timers, byte buffers, cryptography) are sequential; the vendored
libraries (`fmt`, `sfmt`, `argon2`, `utf8cpp`, the debug console, the unused part of NetCoreServer) are
not the program's own.

### How they interact

A client's packet reaches `ReadHandler` on the network thread.  A handler that needs the database
pushes an operation on the login pool's queue and keeps a future in `_queryProcessor`; a worker
executes the operation and fulfils the promise; the next `Update` of the session, up to a
millisecond later, runs the callback, which sends the reply and sets the status from which the next
packet is judged.  Between the worker's read and the callback, and between the callback and the
proof, other sessions and other workers change the same account.  A successful proof writes with
`DirectExecute`, on a synchronous connection and past the queue.

The client sends a request for each reply, so that at most one message is under way in each direction,
as long as the server answers and the stream is not cut.  Before any of this the server has loaded its
database (loader, updater, secret manager), with statements whose failure mostly reads as an empty
result, in a process that may end between any two of them.

## 2. Modules

| module | models | state and actions |
|---|---|---|
| `DatabaseWorkerPool` | queue, worker threads, opening and closing of one pool | one action per lock-protected section of `ProducerConsumerQueue` (`Push`, `WaitAndPop`, `Cancel`), per step of `WorkerThread` (`CheckToken`, `Call`, `Delete`), of `Open` (`CreateConnection` .. `CreateAndReopen`) and of `~DatabaseWorker` (`SetToken`, `CancelQueue`, `Join`) |
| `AsyncOperations` | what a pool promises: FIFO start, at most once, drop only when closing | abstract; `DatabaseWorkerPool` implements it |
| `AuthSession` | login sessions on the network thread, the login database behind them | one action per iteration of `ReadHandler`'s loop and per outcome of a handler, one per callback; `Execute` is a database worker |
| `LoginProtocol` | what a client may rely on | abstract; `AuthSession` implements it |
| `Transactions` | `ExecuteTransaction`, `TransactionTask`, `DirectCommitTransaction`, `GetFreeConnection`, reconnecting | one action per statement sent and its outcome, per decision after `ExecuteTransaction` |
| `AuthServer` | the life of the process: main thread, network thread, database | one action per call of `main()` that another thread can notice, per handler, per visit of `Update`; composed with `AsyncOperations` |
| `UpdateFetcher` | the update loop, and the table that keeps account of it | one action per decision about a file and per statement; the operator edits the directories between starts |
| `DatabaseLoader` | the four phases of `Load` over several pools, with `DBUpdater`'s `Create` and `Populate`; extends `UpdateFetcher` | one action per closure and outcome |
| `SecretMgr` | the master key and its change | one action per path through `AttemptLoad`; the transaction commits or rolls back later |
| `Startup` | starts, crashes, stops and the operator between them | composes `DatabaseLoader` and `SecretMgr` |
| `Socket` | both builds' write paths, the read buffer | one action per handler and outcome |
| `TcpClient` | the client's connection, its main thread and the threads of its completions | one action per part of a call between which another thread's can come: `SendAsync` is its test and its lock, `ProcessConnect` and `TryReceive` the two flags, `Disconnect` its test, the closing and the clearing |
| `NetworkManager` | the client's login dialogue and its message queues; extends `TcpClient` | one action per message and user action, two per `Enqueue` and `Dequeue` |
| `Wire` | one client and the sessions it logs in with, over TCP | composes `Socket`, `NetworkManager` and what the dialogue needs of the session |
| `MessageQueue` | what a caller of `MPSCQueue` may rely on | abstract; `MPSCQueue` implements it |
| `MPSCQueue` | both lock-free queues, with their destructors | one action per access to shared memory |
| `IPLocation` | loading and searching the address ranges | one action per line read, the sort; the search is a function |
| `Utilities` | the last two side by side, so that one run covers them | a behaviour is of one of them |
| `DatabaseWorkerPool_proofs`, `AuthSession_proofs`, `Transactions_proofs`, `AuthServer_proofs` | theorems about the four | |
| `Startup_proofs` | theorems about `Startup`, and through it about `DatabaseLoader`, `SecretMgr` and `UpdateFetcher` | |
| `Wire_proofs` | theorems about `Wire`, and through it about `Socket`, `TcpClient` and `NetworkManager` | |
| `Utilities_proofs` | theorems about `MPSCQueue`, with its refinement of `MessageQueue`, and `IPLocation` | |
| `SequenceLemmas` | lemmas on sequences that the proofs share: removing at either end, cutting, `FlattenSeq`, the elements | |
| `MC...` | symmetry sets for the model checker | |

`AsyncOperations` joins the levels: `DatabaseWorkerPool` is checked to implement it, and `AuthServer`
uses it as its database (`Pool == INSTANCE AsyncOperations`) instead of the detailed pool.
`Startup` and `Wire` compose the components below them in the same way, by EXTENDS: the variables of the
parts are disjoint and each action says what it leaves alone.  `AuthSession` and `Transactions` each look at one side of the same database: the order of the
asynchronous queries, and what a connection does with a transaction.

A definition whose comment begins with *Mutant* is a wrong version of the one that follows it, used
to see that a property notices.  None of them is part of a specification.

### DatabaseWorkerPool

`thread[w]` is a program counter of connection `w`'s worker; `operation[w]` its local pointer.  A
thread can be preempted between any two actions.  `main` is the program counter of the thread that
opens and closes the pool; `dying` lists the connections whose destructors run.  `Call` abstracts
what an operation does to the database.  `Enqueue` is restricted to a pool that `Open` has reported
open and `Close` has not begun to close: `Main.cpp` starts the network after the database and stops
it before, which is what `AuthServer` checks.

### AuthSession

The single network thread is the variable `reader`: while a session's `ReadHandler` loop runs, no
other handler or `Update` does, but the database workers do.  The content of a packet is a choice of
outcome; a packet can arrive in parts and several can arrive in one read.  `status`, `srp`,
`expansion` and `info` are the fields of the same meaning; `info` keeps of the account row what a later
decision uses.  `dbQueue` is the FIFO of the login database: `Execute(i)` for `i` up to the number of
worker threads, so that operations can finish out of order.  A session is destroyed when it has been
dropped and no read is outstanding; its variables are then reset.

### Transactions

`pc`, `trans`, `next`, `code` and `tries` are the locals of `ExecuteTransaction` and of its two
callers; `mutex` the `m_Mutex` of the synchronous connections; `deadlockLock` the static lock of
`TransactionTask`.  `session[c]` is the server's side of connection `c`: whether it is up, in a
transaction, and what it has written and not committed.  It is an assumption about MySQL, taken
from what the code relies on: a session commits every statement by itself outside a transaction, and
a deadlock or a lost connection rolls back.  `log` is what has been made permanent, in order.  Empty
transactions are included because `ExecuteTransaction` returns -1 for them.  A second error in the
middle of a reconnection takes the paths of `_HandleMySQLErrno`: refused, given up (`aborted`, the
`ABORT()` after five attempts), or repeated.

### AuthServer

`main` and `network` are the program counters of the two threads, named for the call they are in.
`accepted` is the session between `Start` and `AddSocket`, where the main thread has it alone.
`newSockets`, `sockets`, `stopped`, `ioStopped` are the fields of `NetworkThread`; `stage[s]` the part of
the session's life that the threads depend on.  `synch` is who has locked the one synchronous
connection.  `UpdateRealms` and `RealmListCallback` each take two steps, so that they can overlap.

### UpdateFetcher, DatabaseLoader, SecretMgr, Startup

`disk`, `rows`, `imported`, `database`, `secret` and `digest` survive the process; everything else is forgotten
when it ends, which `Crash` may do in any state.  `pc` names the two places where `Update` is between two
statements (`rename`, `record`).  A file is a name, a content (its hash) and a state; `imported` is the ghost
of what `mysql` has been given, `vouched` of what was only rehashed, `trust` of whether a start has gone through
without fault since the directories changed.  A fault is a query or statement that fails unseen.
`database` is `absent`, `empty`, `partial` (a base file that stopped half-way; the next start takes it for a
populated one) or `full`.  The initial states include tables from before there were hashes and an entry of a
file that is gone.  A stored secret is the sequence of the keys it was encrypted with, so that encrypting twice
shows.

### Socket, TcpClient, NetworkManager, Wire

A byte knows its message and its place in it; a message has two.  Reads and receives return any part of what
is under way, so that a stream can be cut anywhere.  `build` chooses the write path of the server's socket
in the initial state.  `written` and `sent` are the bytes the systems have taken; `queued` and `accepted` those
the two programs have handed over.

A thread of the client can be held up between a test and what follows it.  `opening` holds the connections
whose `ProcessConnect` has cleared `IsConnecting` and not set `IsConnected`; `outgoing` what a `SendAsync` that has
found the client connected will append once it has the lock; `receiver = "trying"` is a `TryReceive` past its
tests; `begun` holds the completions that began before `Disconnect` detached their handlers; `leaving` and
`clearing` the threads between the test of `Disconnect`, its closing of the socket, and its end.  `Inside` says
that one of these, other than the main thread, is on its way; `late`, that a connect began meanwhile: the
thread then meets flags and a socket that belong to another connection.  What follows from it is in the model
(section 6 says how far), and the properties of the next connection except it, because it does break them.

`messages` and `size` are the elements and the `_size` of the `Queue<T>`: `Enqueue` and `Dequeue` read `_size` in
one step and write it in another, so that two at once lose a message or invent one (`torn`).  `Dequeue` of an
element that is not there returns null, and handling that ends the coroutine.

`split`, `stale`, `short`, `late`, `torn` and `banned` record that something has happened which a property excepts;
each is listed in section 4.  `Mute` and `Deaf` say that `_sending` or `_receiving` is set and nothing will
reset it.  `Wire`'s session has the query about the client's address with its two outcomes, the statuses and
the replies of the three commands the client sends; what else a session does is `AuthSession`'s subject.

### MPSCQueue, MessageQueue, IPLocation

`link` and `data` are the memory of the nodes, `held` the nodes that are allocated or given to the queue, so that
a use after free shows as an address outside `held`.  In the intrusive queue the message is the node and may be
enqueued again once it was returned; in the other one addresses are used again as the allocator may.  `excuse`
is what the abstract queue needs to know of a call of `Dequeue`: whether it may report no message.
`IPLocation!UpperBound` halves as `std::upper_bound` does, and is compared with the definition
of a covering range for every file of at most `MaxLines` lines.

## 3. Runs

| run | question | bounds |
|---|---|---|
| `pool` | is the pool's queue sound, does it implement `AsyncOperations`, does every enqueued operation leave it, is every thread owned and every join finite, while two workers race with enqueuing, closing, failing connects and a second `Open`? | 2 operations, 2 workers, automatic setup: each worker can hold an operation, or one with one more queued |
| `pool_reopen` | does a pool opened on the second attempt have running workers? **No** (finding 1) | 1 worker |
| `pipelined` | one session whose client sends ahead: one query at a time, answers in order, protocol, and is every query answered and every closed socket dropped? | 6 commands, so that a login, a reconnection proof and realm lists fit, 2 packets per read, any packet in two parts |
| `sequential` | with one session at a time and one worker, is the count of wrong passwords exact and the limit enforced? | 2 sessions, limit 2 |
| `concurrent` | the same with two sessions at a time? **No** (finding 2) | 2 sessions, limit 2 |
| `transactions` | without lost connections, is a transaction all or nothing however often it deadlocks; is a connection clean when it is returned; does every transaction end, also with lost connections? | 2 transactions of 2 statements, 2 workers, 2 callers of one synchronous connection, 2 tries, 1 fault |
| `transactions_reconnect` | is it all or nothing when a connection is lost? **No** (finding 3) | the same with two synchronous connections and an empty transaction |
| `server` | from start to exit: who uses the database while it is open, one thread per session, clients served, a signal ends the server | 2 clients, 1 read each, 1 firing of the timers: the overlaps need one of each |
| `server_realms` | is the realm list stable while it is read? **No** (finding 4) | as `server` |
| `startup` | do the schema, its table of updates and the secrets stay exact, and do the pools open together or not at all, through starts, crashes, a failing statement and changes of files and keys? | 3 file names, 2 contents, 2 edits, 1 fault, 2 pools, 2 keys, 1 account; any number of starts and crashes |
| `wire` | are the streams intact in both directions, is every packet written, do the client's bytes leave in order, is it not left connecting, does one receive return one message, is a login answered, while every thread of the client can be held up anywhere? Both builds | 2 connections, 2 logins, 2 accounts, 1 each of: stalled write, failed write, partial send, reset; read block of 2 bytes, a message's length; `Bounds` |
| `utilities` | does `MPSCQueue` implement `MessageQueue` and touch no freed node; does the search of `IPLocation` find what covers an address? | 3 producers, 3 messages, 3 spare nodes; addresses 0 to 3, files of 3 lines with refused numbers |

`startup` is the largest, with 3.7 million distinct states; most have between 50,000 and 400,000.

The constraint `Bounds` of `wire` keeps apart what has little to do with each other and multiplies.  Stalled and
failed writes, and the other build, occur on a first connection without reset, partial send or torn queue; at most two
of these, a short proof, a banned address and an unknown account occur together; and the second connection is
not followed once a thread was late or the queue is torn, of which `LoginIsAnswered` claims nothing: `late` and `torn`
are never reset.  The invariants are proved without it.

Two of everything is where these protocols become interesting: two workers for reordering and the
lost wakeup, two sessions for the shared account, two transactions for a deadlock, two clients for
the two socket lists, two keys for a transition and its way back, two edits for a rename (one file goes,
another comes), two connections for what the first leaves to the second.  One fault or one reset
is enough because each starts the sequence that could go wrong.  What is proved (section 5) does not
depend on these bounds, and that is every safety property of the passing runs; the two
of `sequential` are proved under the run's own condition, one session at a time and one worker.

`CHECK_DEADLOCK FALSE` everywhere: a server that has been shut down, or whose clients have sent all
they may within the bound, rightly does nothing more.

### Fairness

* `pool`: weak fairness of each worker and of the main thread's next step, except
  that nobody has to close the pool.  These are operating system threads; a worker is blocked only in
  `WaitAndPop`, and spurious wakeups are allowed and never owed.
* `pipelined`: weak fairness of the read loop and of the workers (they never block), strong
  fairness of a session's `Update`.  Strong because a client that keeps sending unknown commands
  makes `reader` flip for ever; the timer's handler and the read handlers are queued by one
  `io_context`, which runs ready handlers in turn.
* `transactions`: weak fairness of each thread.  A thread in `GetFreeConnection` spins over `try_lock`
  and is scheduled again; no fairness of the locks themselves is assumed, nor of the server's choice
  between executing a statement and reporting a deadlock: retries end because the code counts them
  (the direct path) or times them (`MaxTries` stands for the 60 seconds).
* `server`: weak fairness of the main thread, of what the network thread does by itself, and of the
  database workers.  Clients, timers and signals are never owed.
* `wire`: weak fairness of what the server's network thread has ready (a read that has data or an error with its
  handler, a query's callback, a write), of each thread of the client that is in a completion, waits for one or is
  in `Disconnect` (threads of the system's pool, which wait for nothing but the send lock), and of the frames.
  The user and the network owe nothing, except that a connect succeeds or is refused.
* `utilities`: weak fairness of a producer inside `Enqueue` and of the consumer, who asks again when told there
  is nothing.  The second is an assumption about use: the repository has no user of the queue.
* `startup` has no fairness, and no liveness: a start may crash every time.

## 4. Findings

1. **Second `Open` on a cancelled queue** (`pool_reopen`, `OpenPoolIsRunning`).  With
   `Updates.AutoSetup`, `DatabaseLoader.cpp:62` says "Try to create the database and connect again".
   The failed first `Open` destroys its connection, whose `DatabaseWorker` destructor calls
   `_queue->Cancel()` (`DatabaseWorker.cpp:34`).  `_shutdown` is never reset, so every worker of the
   second `Open` gets nothing from `WaitAndPop` and returns, while `Open` logs "opened successfully.
   {} total connections running." (`DatabaseWorkerPool.cpp:111`).  Asynchronous operations enqueued from
   then on stay in the queue.  The authentication server constructs its loader with
   `DatabaseLoader::DATABASE_NONE`, but the setting `Updates.EnableDatabases` (`authserver.conf.dist:249`, 0 by
   default) replaces that mask; with 1 the path is taken.
2. **The limit of wrong passwords with concurrent sessions** (`concurrent`, `LimitEnforced`).
   `authserver.conf.dist:103` documents `WrongPass.MaxCount` as the "Number of login attempts with wrong
   password before the account or IP will be banned".  The decision uses the copy of `failed_logins` that
   the session read with its challenge (`AuthSession.cpp:582`).  Two sessions challenged before either
   fails both count from the same value; the column reaches the limit and nobody bans.
3. **A connection lost in a transaction** (`transactions_reconnect`, `AllOrNothing`).
   `DatabaseWorkerPool.h:169` promises a transaction that "will automatically rollback if not commited.
   (Autocommit=0)".  A statement that loses the connection is repeated on the new one
   (`MySQLConnection.cpp:205`), whose session is in autocommit mode; what came before it is rolled back,
   what follows is committed statement by statement, and `ExecuteTransaction` returns 0.
4. **The realm list is rebuilt while it is read** (`server_realms`, `RealmsAreStable`).
   `Main.cpp:246` calls the server "singlethreaded"; `UpdateRealms` clears and fills `_realms` on the
   main thread (`RealmList.cpp:125`) while `RealmListCallback` iterates over it on the network thread.

Observations met while modelling that have no run of their own.  All but the key of 129 bits are
inside the models, and the property each touches excepts it by name:

* *Copies and renames* (`UpdateFetcher.cpp:256`, `TableIsAccurate` with `NoCopies`).  When two new files have the content
  of one removed file, the first renames the entry; `hashToName` still has the old name, so the second is
  renamed too, from an entry that is gone, and is neither applied nor recorded until the next start.
* *A failed query is an empty result* (`DataIsKept`).  A failing `SHOW TABLES` makes `Populate` apply the base file,
  with its `DROP TABLE`s, over a full database.
* *A base file that stops half-way* (`LoadedIsReady`) leaves tables; the next start takes the database for populated.
* *The old key is needed longer than the log says* (`SecretMgr.cpp:158`).  The transition is announced when it is
  enqueued.  A crash before it is executed leaves the old digest, so the old key has to stay
  configured; `RestartSucceeds` is about the same configuration, which keeps it.
* *A key of 129 bits* passes the test of `SecretMgr.cpp:74` (`2 << bits`) and aborts at its first use;
  the models' keys have no length.
* *Replies of an earlier connection* are handled on the next one: nothing empties the client's queues (`stale`).
* *A client that is connecting for ever* (`late`).  `ProcessConnect` clears `IsConnecting` at `TcpClient.cs:795` and sets
  `IsConnected` at 824; a `Login` between the two finds the client neither connected nor connecting (line 375) and
  starts a second connect on a new socket.  The completing thread then sets `IsConnected`, receives on the socket
  that is not connected yet, and disconnects: the new connect is cancelled (line 306), `IsConnecting` stays set,
  against its documentation ("Is the client connecting?", line 163), and no later `ConnectAsync` passes its
  test.  Two threads in `Disconnect`, or a completion held up across a reconnect, end the same way.
  `StuckOnlyIfLate` says that nothing else does.  Its exception is needed: without it, and without `Bounds`, TLC
  finds this behaviour in seven steps.
* *A client that sends nothing any more* (`Mute`).  The test of `IsConnected` in `SendAsync` (line 539) is outside its
  lock (545).  A `Disconnect` between the two leaves `_sending` set, with `TrySend` returning at its own test;
  `ConnectAsync` makes new buffers and leaves `_sending` as it is.  On the next connection every `SendAsync`
  finds a send in progress, appends, returns true ("the data was successfully sent", line 536), and nothing leaves.
* *A client that receives nothing any more* (`Deaf`).  `TryReceive` tests `IsConnected` (line 659) and sets `_receiving`
  (671); with a whole `Disconnect` in between it stays set, and no later connection is read.
* *Two ends of one `Queue<T>`* (`torn`).  `NetworkManager.cs:64` appends without the lock of line 74: a message is
  lost, or `Count` is one too many for good and the next `Dequeue` returns null, whose handling ends the coroutine.
* *A banned address* (`banned`, `AuthSession.cpp:200`) is told so before it asks, and the session then neither
  reads nor closes: the first login on that connection may be answered by this, a later one is not.
* *A send completed in part* stalls the client's sending (`partials`, then `Mute`); *a public value `A` with leading
  zero bytes* is sent short and stalls the login (`short`).
* *A clean shutdown drops updates.*  `Cancel` deletes what is queued when the pool closes
  (`ProducerConsumerQueue.h:105`); `NothingDroppedInService` confines this to closing, and nothing prevents it there.

## 5. Proofs

The theorems hold for every value of the constants that satisfies the named assumption of the modules
(`PoolAssumption`, `AuthAssumption`, `TransactionsAssumption`, `ServerAssumption`; `SecretAssumption`,
`LoaderAssumption`, `FetcherAssumption`; `SocketAssumption`, `ClientAssumption`, `ManagerAssumption`,
`WireAssumption`; `QueueAssumption`, `LocationAssumption`), and assume nothing else, except the two
theorems on the count of wrong passwords, which state their conditions.  The assumptions say that bounds
are numbers, that the values standing for *nothing* are not among the others, and what sizes the code has
at least (a worker, a statement, a read buffer of a message's length).  Each proof rests on an inductive
invariant, a conjunction of named parts, with lemmas for each action and the parts it can disturb.

**Pool.** `IInv` of `DatabaseWorkerPool_proofs` is inductive, for every set of operations and every
number of workers.  `SingleOwner` alone is not: whether a thread may run or delete the operation it holds
depends on its program counter, so `IInv` says for each one what has happened to the operation, and for
the main thread which connections it is destroying.  A second inductive invariant, `Promises`, adds when
the queue may be shut down and a token set; from it follow `NoLostWakeup`, `NothingDroppedInService` and,
until a failed `Open` is repeated, `FirstOpenIsRunning`.  What an `Open` repeated by the automatic setup
leaves is finding 1.  `ThreadsAreOwned` has a small invariant of its own (`OwnershipInv`: which threads
the pool's connections, and those being destroyed, account for).  The refinement of `AsyncOperations`
follows from `IInv` and `Promises` step by step: a `WaitAndPop` that returns an operation is its `Start`,
what is dropped is what `Cancel` finds in the queue of a closing pool or what a thread still holds, and
every other step is a stutter.

**Sessions.** `OneQueryAtATime`, `ProofHasChallenge` and `AnsweredInOrder` are each too weak to be
inductive.  The invariant `Sound` of `AuthSession_proofs` says five things of every session: it is as its
constructor leaves it until it is started (`Pristine`); it awaits at most one query, in the status of
that query (`OneQuery`); in a status that awaits a proof it has a loaded account and, for a first login,
a fresh challenge (`Challenged`); as long as its socket is open the commands it accepted are those it has
answered, in order, plus the one whose query is out (`Answered`); and that query is the one its last
command started (`Answering`).  The status a handler requires is thus also the statement that no callback
is pending, which is what makes the handlers safe.  `HandleIdle`, `QueryStarted`, `AnsweredAtOnce`,
`HandlerFailed` and `CallbackAnswers` are what the handlers and callbacks have in common, so that one
step of the proof is left for each.  A closed socket ends the obligations, which is why `SoundClosed` can
ignore the answers.

That a session is a run of `LoginProtocol` needs one fact more, `Identified`: the first command a session
was asked tells what its status and the query it awaits are about.

`CountIsExact` and `LimitEnforced` are theorems for one session at a time and one database worker
(`MaxActive = 1`, `WorkerThreads = 1`, the default of `LoginDatabase.WorkerThreads`), the second also for
bans that do not expire.  With two sessions at a time (finding 2), or with two workers, TLC finds both
violated.  `Sequential` says why they hold otherwise.  A wrong password is written asynchronously and the session closed, so the next session of the
account can begin before the write is executed; but its query for the account stands behind the write in
the one worker's queue (`WritesAreAhead`), and between the execution of that query and the proof nobody
writes (`RowIsCurrent`).  So at most one increment is ever under way (`Counted`), and the ban goes with
the one that reaches the limit (`Limited`).  The success that sets the count to zero overtakes the queue
(`DirectExecute`), which is harmless only because nothing can be in it then.

**Transactions.** `SessionsAreClean` and `RetriersExcludeEachOther` need to know who has a connection: a
worker its own, a caller the one whose `m_Mutex` it holds (`Owners`), and that a worker with a retry
behind it holds the static lock until its transaction ends (`RetryLock`).  What is uncommitted on a
connection is then the work of one transaction, however often it deadlocks; `Undisturbed` says how much
(`Progress`: after statement `n` exactly the first `n`, in order), as long as no connection is lost and
no `COMMIT` fails.  From it follows `AllOrNothingWithoutFaults`: none of a transaction's statements is in
the log, or each once.  The condition cannot be dropped (finding 3).

**Server.** The order in which `main()` starts and stops its parts is only correct together with what the
network thread has reached.  `IInv` of `AuthServer_proofs` consists of `Threads` (where each thread may
be while the other is somewhere), `Locks` (who can hold the synchronous connection), `Lists` (a living
session is in exactly the places its thread can find it, and there are none before the thread starts and
after it ends) and `Owners` (whose the operations of the pool are, and that an open pool drops none).
`DatabaseOutlivesItsUsers` and `OneThreadPerSession` follow without another induction.

**Start.** `IInv` of `Startup_proofs` has one part per module and `Where`, what they assume of each
other: the updates run only in their phase, the secrets are loaded only after the databases, and a
process that has ended leaves nothing but the disk and the tables.  Every part survives `Crash` in every
state.

* *Secrets.* That all secrets are under the key of the digest (`OneKey`) is inductive only with what the
  transaction that waits will do (`Pending`: it leads every secret to the digest it writes), with what
  the server knows of the key it runs with (`KeyInUse`), and with `Feasible`: the digest is one of the
  two keys of the configuration that was announced, also in a crash before the transaction is executed.
* *Loader.* `PoolsInv` counts the pools: while they are opened, those still to open and those with a
  close operation are all of them and none twice, so that a failure closes exactly what was opened.
  `DatabaseInv`: the queue *populate* is only left with tables.
* *Updates.* `AnswerIsKnown` says that the locals of the loop speak only of what the database was given;
  `CleanLoop`, `SchemaSoFar` and `TableSoFar` are what is true after the files visited so far, of a start
  that has met no fault.  `SchemaIsComplete` and `TableIsExact` are these at the end of the loop.
  `DataIsKept` is an action property of the same invariant.

**Wire.** `Inv` of `Wire_proofs` goes upwards.  `WriterInv`: the bytes written and the write queue are the
packets queued, for both builds.  `ReaderInv`: what is in the read buffer is what follows the bytes already
handled.  `SessionInv`: a query is under way only in the status that awaits it, and none before the one about the
address has returned.  `ClientInv` has three parts: `SentInOrder` (the bytes sent and those of the two send buffers,
whichever thread has them, are the bytes accepted), `StuckOnlyIfLate`, and `OnTime`, without which neither is
inductive: as long as `late` is not set, one connection is dealt with at a time.  A client that is connecting, or
whose `ProcessConnect` is between its flags, has had nothing asked of it and has no thread in another call
(`Fresh`), and it is never both.  The window in `ProcessConnect` takes exactly this away.  `QueueInv`
says what `_size` and the elements have to do with each other, torn or not.

`Gate`, `Quiet` and `Tagged` are about who may still speak on a connection, and what it may have of the one before.
`Dialogue` is the reason why a receive returns one message although nothing on the wire separates two
(`OneReplyPerChunk`): as long as the client has handled no reply of an earlier connection, each end says only what
the other has asked, what a `SendAsync` is about to append included (`Asking`), and the status of the session
tells what either may still have to say (`Talk`).  The proof sorts the actions of both sides into a few kinds of
step of the dialogue (`AtConnect` .. `AtDispatch`), each of which needs to be considered only once.  Two of
them came with the threads and the ban: the null of a torn queue, which ends the dialogue (`AtNothing`), and
the reply nobody asked for, after which the session reads nothing (`AtBan`).

**Utilities.** `QueueInv` says that in both queues there is a list of nodes from `_tail` to `_head`
(`Chain`), each linked to the next or about to be by the thread that exchanged it; that what a producer
has not enqueued is its own (`Owned`); and what the consumer may report (`Calls`).  The list is exhibited
anew by every step.  `MemoryIsAccounted` follows, and `QueueRefinement`: a message enters the abstract
queue with the exchange of `_head`, leaves it when the consumer has it, and *no message* is only reported
while an `Enqueue` is under way or there is none.  For `IPLocation`, `StoreInv` says that a loaded store
is sorted and free of overlaps, and the lemmas on `UpperBound` that the binary search returns the first
range ending after the address, by induction on the length of the interval left.  (Induction is available
in one form: `NatInduct` of `SequenceLemmas`, over a set of numbers instead of a predicate.)

Type correctness is proved (`TypeCorrect` of each module) and therefore checked by no run.  Checked by
TLC only: liveness, which is out of the prover's reach (`NothingQueuedForever`, `JoinTerminates`,
`QueriesAnswered`, `ClosedIsDropped`, `EveryTransactionEnds`, `EveryClientIsServed`, `ServerStops`,
`EverythingIsWritten`, `LoginIsAnswered`), with the fairness that `ImplementsMessageQueue` has beside
what `QueueRefinement` states; and the four properties that fail; `LimitEnforced` is
proved under the condition of `sequential`, and `AllOrNothingWithoutFaults` is what remains of `AllOrNothing`.

## 6. Abstractions and what is not modelled

* Packet contents, cryptography, TOTP, version hashes, IP country and lock: a choice of outcome.
* One account and one address; sessions of different accounts share nothing but the queue.
* A ban expires by itself (`BanExpires`) unless bans are permanent; the rows that the expiry timer
  deletes are no longer in force by then.
* Failing updates: `DirectExecute` and `Execute` report errors only to the log; the model's updates succeed.
  A failing query reads as an empty result, as in the code.
* The destruction of operations that a cancelled queue still holds is modelled in the pool and in
  `AuthServer`, not in the sessions, because the network is stopped before the database is closed.
* In `AuthServer` one operation stands for the two statements of the ban expiry and one for the pings of
  all connections; there is one synchronous connection; the content of the realm list and the
  connection counter are left out (with one network thread nothing depends on the counter).
* `TransactionWithResultTask` differs from `TransactionTask` in fulfilling a promise; `Transactions`
  records the result in `outcome`.  The destructor's cleanup of a transaction has no state of its own here.
* MySQL is an assumption, not a model of MySQL: see `Transactions` in section 2.
* `UpdateFetcher`: content and hash are one; the external `mysql` succeeds or fails as a whole, for its file is
  wrapped in a transaction.  Directories, `updates_include` and archived states are fields of a file.
* `SecretMgr`: there is one secret kind, as in the code.  A key is right or wrong; hexadecimal parsing and
  Argon2's parameters are left out.
* `Socket`: `DelayedCloseSocket` and `AsyncReadWithCallback` have no caller in the repository, so `_closing` is never
  set.  `Socket.h:220`'s dropped packet is in the model (`lost`).
* `TcpClient`: what a thread does under the send lock is one step, and so are the refusal in `ProcessConnect` and
  `ProcessSend` with its `TrySend`; a completion that a `Disconnect` overtakes is in `begun`.  Once a thread is
  `late`, one thread of each kind is followed, in what it does to the flags and the socket; what a late
  completion does to the buffers of the next connection is not, which is why `SentInOrder`, `OneReplyPerChunk` and
  `LoginIsAnswered` claim nothing then.  A send completed in part is a fault, because the systems complete stream
  sends whole.  `Dispose` and the synchronous operations are not modelled, nor `NetworkManager.OnApplicationQuit`.
* `NetworkManager`: `Enqueue` and `Dequeue` are two steps each; what they do while the array grows is left out.  Every
  error reply counts as an answer, although only some error codes show a text (`NetworkManager.cs:289`).  The
  client reads the first realm only (`AuthenticationPackets.cs:177`).
* `MPSCQueue` is sequentially consistent: every store another thread waits for is a release or part of
  `exchange`, every load of it an acquire.  A producer that has returned is not run again on the same node.
* `IPLocation`: `IpTo` is compared as an exclusive bound although the file's ranges are inclusive, so
  the last address of each range is unknown to the code, and to `Covers`.  With equal beginnings
  and empty ranges the outcome of the overlap test depends on `std::sort`'s order: the model allows each.

## 7. Not modelled, and why

* `src/Server/fmt`, `argon2`, `sfmt`, `utf8cpp`, the in-game debug console, `WheatyExceptionReport`, and the classes of
  NetCoreServer beside `TcpClient` are third-party code, most of it without a caller here.  They are the
  greater part of the lines of the repository.
* `SharedDefines.h`, the statement tables and the enumerations are constants.
* Log, configuration, byte buffers, string and time helpers, `Field` and `QueryResult`: sequential conversions or output.
  The models' packets, rows and settings are what they produce.
* `LockedQueue`, `ThreadPool`, `ProcessPriority`: a deque under a mutex, a wrapper over an `io_context`, a system call;
  nothing modelled here depends on them.
* SRP6, AES, Argon2, TOTP: arithmetic out of a model checker's reach.  Only that an SRP6 object answers once
  is modelled, and that the right key decrypts.
* Chains of `QueryCallback`s (`WithChainingCallback`): nothing in the repository chains more than one callback.
* The destruction of static objects after `main()` (`RealmList.cpp:53`).

## 8. Plan

Every module of the plan is written and every safety property of a passing run is proved.  What could follow:

1. In the models: failing statements in `AuthSession`, whose `DirectExecute` hides them from the client
   (`AuthSession.cpp:517`), with what then remains of `CountIsExact`.
2. What holds where a property fails: with `n` sessions at a time, by how many attempts the limit can be
   overrun before somebody bans; of a transaction that lost its connection, which statements are in the log.
3. The safety part of the arguments for liveness: what decreases with each turn of the retry loop, of the worker
   loop and of the write queue.
