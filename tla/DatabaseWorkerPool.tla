------------------------- MODULE DatabaseWorkerPool -------------------------
(***************************************************************************)
(* The asynchronous half of one database pool: the ProducerConsumerQueue   *)
(* its connections share, the DatabaseWorker thread of each connection,    *)
(* and the thread that opens and closes the pool (the DatabaseLoader's     *)
(* open closure at startup, StopDB and the static destructor at the end).  *)
(*                                                                         *)
(* Every lock-protected section of the queue is one action; a thread can   *)
(* be preempted between any two actions.  An operation is an opaque        *)
(* identity pushed at most once, as `new SQLOperation` is.                 *)
(***************************************************************************)
EXTENDS Naturals, FiniteSets, SequencesExt

CONSTANTS Ops,          (* the SQLOperations the program may enqueue        *)
          NoOp,         (* the null SQLOperation pointer                    *)
          AsyncThreads, (* <name>Database.WorkerThreads of the config file  *)
          AutoSetup     (* Updates.AutoSetup, for an updates-enabled pool   *)

ASSUME PoolAssumption ==
  /\ AsyncThreads \in Nat \ {0}
  /\ NoOp \notin Ops
  /\ AutoSetup \in BOOLEAN

VARIABLES
  queue,      (* ProducerConsumerQueue::_queue                              *)
  shutdown,   (* ProducerConsumerQueue::_shutdown                           *)
  thread,     (* where the worker thread of each connection stands          *)
  operation,  (* the local `operation` of DatabaseWorker::WorkerThread      *)
  token,      (* DatabaseWorker::_cancelationToken                          *)
  conns,      (* _connections[IDX_ASYNC]                                    *)
  dying,      (* connections whose destructor is still to run, in order     *)
  main,       (* where the opening and closing thread stands                *)
  resume,     (* where it goes on when `dying` is empty                     *)
  index,      (* the loop index of OpenConnections                          *)
  error,      (* what Open() returned                                       *)
  retried,    (* the open closure has called Open() a second time           *)
  pushed,     (* the operations that have been enqueued                     *)
  runs,       (* how often each operation has been executed                 *)
  deletes     (* how often each operation has been deleted                  *)

queueVars  == <<queue, shutdown>>
workerVars == <<thread, operation, token>>
loaderVars == <<conns, dying, main, resume, index, error, retried>>
history    == <<pushed, runs, deletes>>
vars       == <<queueVars, workerVars, loaderVars, history>>

(* Open() runs at most twice, and a failed synchronous open leaves the      *)
(* asynchronous connections of the first call in place.                     *)
Conns == 1 .. 2 * AsyncThreads

ThreadPC == {"none", "enter", "waiting", "popped", "calling", "called", "exited"}
MainPC   == {"opening", "connecting", "token", "cancel", "join",
             "errored", "open", "closed", "exited"}
Errors   == {"none", "baddb", "other"}

(* A notification moves a waiter back to the loop test of WaitAndPop. *)
Waiters == {w \in Conns : thread[w] = "waiting"}
Wake(W) == thread' = [w \in Conns |-> IF w \in W THEN "enter" ELSE thread[w]]

Init ==
  /\ queue = <<>> /\ shutdown = FALSE
  /\ thread = [w \in Conns |-> "none"]
  /\ operation = [w \in Conns |-> NoOp]
  /\ token = [w \in Conns |-> FALSE]
  /\ conns = <<>> /\ dying = <<>>
  /\ main = "opening" /\ resume = "open"
  /\ index = 0 /\ error = "none" /\ retried = FALSE
  /\ pushed = {}
  /\ runs = [o \in Ops |-> 0] /\ deletes = [o \in Ops |-> 0]

-----------------------------------------------------------------------------
(* ProducerConsumerQueue *)

(* Mutants of Push: no notification; a queue of one that overwrites its     *)
(* element; a stack.                                                        *)
PushSilently(o) == queue' = Append(queue, o) /\ UNCHANGED thread

PushOverwriting(o) ==
  /\ queue' = Append(IF Len(queue) < 1 THEN queue ELSE Tail(queue), o)
  /\ IF Waiters = {} THEN UNCHANGED thread
     ELSE \E w \in Waiters : Wake({w})

PushInFront(o) ==
  /\ queue' = <<o>> \o queue
  /\ IF Waiters = {} THEN UNCHANGED thread
     ELSE \E w \in Waiters : Wake({w})

(* Push: append and notify_one, any one of the waiting threads. *)
Push(o) ==
  /\ queue' = Append(queue, o)
  /\ IF Waiters = {} THEN UNCHANGED thread
     ELSE \E w \in Waiters : Wake({w})

(* Mutant: Cancel without notify_all. *)
CancelSilently ==
  /\ deletes' = [o \in Ops |-> deletes[o] + Cardinality({i \in DOMAIN queue : queue[i] = o})]
  /\ queue' = <<>>
  /\ shutdown' = TRUE
  /\ UNCHANGED thread

(* Cancel: delete what is queued, shut the queue down, notify_all. *)
Cancel ==
  /\ deletes' = [o \in Ops |-> deletes[o] + Cardinality({i \in DOMAIN queue : queue[i] = o})]
  /\ queue' = <<>>
  /\ shutdown' = TRUE
  /\ Wake(Waiters)

(* DatabaseWorkerPool::Enqueue, called while the pool is in service. *)
Enqueue(o) ==
  /\ main = "open"
  /\ o \notin pushed
  /\ Push(o)
  /\ pushed' = pushed \cup {o}
  /\ UNCHANGED <<shutdown, operation, token, loaderVars, runs, deletes>>

-----------------------------------------------------------------------------
(* DatabaseWorker::WorkerThread *)

(* Mutant: the front of the queue is read and not popped. *)
PeekOnly(w) ==
  /\ thread[w] = "enter" /\ queue # <<>> /\ ~shutdown
  /\ operation' = [operation EXCEPT ![w] = Head(queue)]
  /\ thread' = [thread EXCEPT ![w] = "popped"]
  /\ UNCHANGED <<queue, shutdown, token, loaderVars, history>>

(* WaitAndPop under _queueLock: wait, return empty-handed, or pop. *)
WaitAndPop(w) ==
  /\ thread[w] = "enter"
  /\ \/ /\ queue = <<>> /\ ~shutdown
        /\ thread' = [thread EXCEPT ![w] = "waiting"]
        /\ UNCHANGED <<queue, operation>>
     \/ /\ shutdown
        /\ thread' = [thread EXCEPT ![w] = "popped"]
        /\ UNCHANGED <<queue, operation>>
     \/ /\ queue # <<>> /\ ~shutdown
        /\ operation' = [operation EXCEPT ![w] = Head(queue)]
        /\ queue' = Tail(queue)
        /\ thread' = [thread EXCEPT ![w] = "popped"]
  /\ UNCHANGED <<shutdown, token, loaderVars, history>>

(* Mutant: the wait is not in a loop, and a spurious wakeup pops nothing. *)
WakeupReturns(w) ==
  /\ thread[w] = "waiting"
  /\ thread' = [thread EXCEPT ![w] = "popped"]
  /\ UNCHANGED <<queueVars, operation, token, loaderVars, history>>

(* A condition variable may wake a waiter that nobody notified. *)
SpuriousWakeup(w) ==
  /\ thread[w] = "waiting"
  /\ Wake({w})
  /\ UNCHANGED <<queueVars, operation, token, loaderVars, history>>

(* `if (_cancelationToken || !operation) return;`: an operation popped      *)
(* before the token was set is neither run nor deleted.                     *)
CheckToken(w) ==
  /\ thread[w] = "popped"
  /\ \/ /\ token[w] \/ operation[w] = NoOp
        /\ thread' = [thread EXCEPT ![w] = "exited"]
        /\ operation' = [operation EXCEPT ![w] = NoOp]
     \/ /\ ~token[w] /\ operation[w] # NoOp
        /\ thread' = [thread EXCEPT ![w] = "calling"]
        /\ UNCHANGED operation
  /\ UNCHANGED <<queueVars, token, loaderVars, history>>

(* operation->call(), which also fulfils the promise the operation holds. *)
Call(w) ==
  /\ thread[w] = "calling"
  /\ thread' = [thread EXCEPT ![w] = "called"]
  /\ runs' = [runs EXCEPT ![operation[w]] = @ + 1]
  /\ UNCHANGED <<queueVars, operation, token, loaderVars, pushed, deletes>>

(* delete operation; the next iteration starts from a null pointer. *)
Delete(w) ==
  /\ thread[w] = "called"
  /\ thread' = [thread EXCEPT ![w] = "enter"]
  /\ deletes' = [deletes EXCEPT ![operation[w]] = @ + 1]
  /\ operation' = [operation EXCEPT ![w] = NoOp]
  /\ UNCHANGED <<queueVars, token, loaderVars, pushed, runs>>

Worker(w) == WaitAndPop(w) \/ CheckToken(w) \/ Call(w) \/ Delete(w)

-----------------------------------------------------------------------------
(* Opening the pool: DatabaseLoader's open closure, Open, OpenConnections *)

(* make_unique<T>(_queue.get(), ...): the constructor starts the worker. *)
CreateConnection(w) ==
  /\ main = "opening" /\ index < AsyncThreads
  /\ thread[w] = "none"
  /\ thread' = [thread EXCEPT ![w] = "enter"]
  /\ token' = [token EXCEPT ![w] = FALSE]
  /\ dying' = <<w>>
  /\ main' = "connecting"
  /\ UNCHANGED <<queueVars, operation, conns, resume, index, error, retried, history>>

(* connection->Open() succeeds: the pool owns the connection. *)
ConnectOk ==
  /\ main = "connecting"
  /\ conns' = conns \o dying
  /\ dying' = <<>>
  /\ index' = index + 1
  /\ main' = "opening"
  /\ UNCHANGED <<queueVars, workerVars, resume, error, retried, history>>

(* Mutant: the connections cleared are leaked, not destroyed. *)
ConnectFailsLeaking(e) ==
  /\ main = "connecting"
  /\ conns' = <<>>
  /\ error' = e
  /\ main' = "token" /\ resume' = "errored"
  /\ UNCHANGED <<queueVars, workerVars, dying, index, retried, history>>

(* It fails: _connections[type].clear(), then the new connection goes. *)
ConnectFails(e) ==
  /\ main = "connecting"
  /\ dying' = conns \o dying
  /\ conns' = <<>>
  /\ error' = e
  /\ main' = "token" /\ resume' = "errored"
  /\ UNCHANGED <<queueVars, workerVars, index, retried, history>>

(* The server is too old: `return 1` with the earlier connections kept. *)
ServerTooOld ==
  /\ main = "connecting"
  /\ error' = "other"
  /\ main' = "token" /\ resume' = "errored"
  /\ UNCHANGED <<queueVars, workerVars, conns, dying, index, retried, history>>

(* OpenConnections(IDX_SYNCH): the synchronous connections have no worker. *)
OpenSynch(e) ==
  /\ main = "opening" /\ index = AsyncThreads
  /\ error' = e
  /\ main' = IF e = "none" THEN "open" ELSE "errored"
  /\ UNCHANGED <<queueVars, workerVars, conns, dying, resume, index, retried, history>>

(* ER_BAD_DB_ERROR under auto setup: create the database and open again. *)
CreateAndReopen ==
  /\ main = "errored"
  /\ error = "baddb" /\ AutoSetup /\ ~retried
  /\ retried' = TRUE
  /\ index' = 0 /\ error' = "none" /\ main' = "opening"
  /\ UNCHANGED <<queueVars, workerVars, conns, dying, resume, history>>

(* The error was not handled, or Create failed: the program gives up.      *)
(* Nothing registered a close operation, so only the destructors run.      *)
GiveUp ==
  /\ main = "errored"
  /\ main' = "closed"
  /\ UNCHANGED <<queueVars, workerVars, conns, dying, resume, index, error, retried, history>>

-----------------------------------------------------------------------------
(* Closing it: Close() and the destructors *)

(* Close(): _connections[IDX_ASYNC].clear(). *)
Close ==
  /\ main = "open"
  /\ dying' = conns /\ conns' = <<>>
  /\ main' = "token" /\ resume' = "closed"
  /\ UNCHANGED <<queueVars, workerVars, index, error, retried, history>>

(* ~DatabaseWorkerPool: Cancel, then whatever connections are left. *)
DestroyPool ==
  /\ main = "closed"
  /\ Cancel
  /\ dying' = conns /\ conns' = <<>>
  /\ resume' = "exited"
  /\ main' = IF conns = <<>> THEN "exited" ELSE "token"
  /\ UNCHANGED <<operation, token, index, error, retried, pushed, runs>>

(* ~DatabaseWorker in three steps: the token, Cancel, and the join. *)
SetToken ==
  /\ main = "token"
  /\ token' = [token EXCEPT ![Head(dying)] = TRUE]
  /\ main' = "cancel"
  /\ UNCHANGED <<queueVars, thread, operation, conns, dying, resume, index, error, retried, history>>

CancelQueue ==
  /\ main = "cancel"
  /\ Cancel
  /\ main' = "join"
  /\ UNCHANGED <<operation, token, conns, dying, resume, index, error, retried, pushed, runs>>

Join ==
  /\ main = "join" /\ thread[Head(dying)] = "exited"
  /\ thread' = [thread EXCEPT ![Head(dying)] = "none"]
  /\ dying' = Tail(dying)
  /\ main' = IF Tail(dying) = <<>> THEN resume ELSE "token"
  /\ UNCHANGED <<queueVars, operation, token, conns, resume, index, error, retried, history>>

Main ==
  \/ \E w \in Conns : CreateConnection(w)
  \/ ConnectOk \/ ServerTooOld
  \/ \E e \in Errors \ {"none"} : ConnectFails(e)
  \/ \E e \in Errors : OpenSynch(e)
  \/ CreateAndReopen \/ GiveUp \/ Close
  \/ DestroyPool \/ SetToken \/ CancelQueue \/ Join

Next ==
  \/ \E o \in Ops : Enqueue(o)
  \/ \E w \in Conns : Worker(w) \/ SpuriousWakeup(w)
  \/ Main

Spec == Init /\ [][Next]_vars

(* Every runnable thread is eventually scheduled; nobody is obliged to       *)
(* enqueue, to ask for a shutdown, or to be woken without a notification.    *)
FairSpec ==
  /\ Spec
  /\ \A w \in Conns : WF_vars(Worker(w))
  /\ WF_vars(Main /\ ~Close)

-----------------------------------------------------------------------------
(* Properties *)

Held       == {operation[w] : w \in Conns} \ {NoOp}
Done       == {o \in Ops : runs[o] > 0}
Dropped    == {o \in pushed : runs[o] = 0 /\ o \notin ToSet(queue) \cup Held}
InService  == main = "open"

(* Every variable keeps its type; no loop index exceeds what was configured. *)
TypeOK ==
  /\ queue \in Seq(Ops) /\ shutdown \in BOOLEAN
  /\ thread \in [Conns -> ThreadPC]
  /\ operation \in [Conns -> Ops \cup {NoOp}]
  /\ token \in [Conns -> BOOLEAN]
  /\ conns \in Seq(Conns) /\ dying \in Seq(Conns)
  /\ main \in MainPC /\ resume \in {"open", "errored", "closed", "exited"}
  /\ index \in 0 .. AsyncThreads /\ error \in Errors /\ retried \in BOOLEAN
  /\ pushed \subseteq Ops
  /\ runs \in [Ops -> Nat] /\ deletes \in [Ops -> Nat]

(* Ownership of the raw SQLOperation pointer: it is in the queue once, or    *)
(* in the hands of one worker, and once deleted it is in neither; so it is   *)
(* executed at most once and deleted at most once.                           *)
SingleOwner ==
  /\ \A i, j \in DOMAIN queue : queue[i] = queue[j] => i = j
  /\ \A v, w \in Conns : operation[v] = operation[w] /\ operation[v] # NoOp => v = w
  /\ ToSet(queue) \cap Held = {}
  /\ \A o \in Ops : /\ runs[o] <= 1 /\ deletes[o] <= 1
                    /\ deletes[o] = 1 => o \notin ToSet(queue) \cup Held

(* notify_one per Push is enough: whenever something is queued in a pool in  *)
(* service, some worker is on its way to WaitAndPop rather than asleep.      *)
NoLostWakeup ==
  InService /\ queue # <<>> /\ ~shutdown =>
    \E w \in Conns : thread[w] \in {"enter", "popped", "calling", "called"}

(* While the pool is in service no operation is dropped, so no future that   *)
(* a session is polling is broken and no update is lost.                     *)
NothingDroppedInService == InService => Dropped = {}

(* A pool that reports itself opened has a running worker thread behind each *)
(* connection it counts ("{} total connections running").                    *)
OpenPoolIsRunning == InService => \A i \in DOMAIN conns : thread[conns[i]] # "exited"

(* It has, unless Open was called again after the database had been created: *)
(* the connections of the first attempt shut the queue down as they go.      *)
FirstOpenIsRunning == ~retried => OpenPoolIsRunning

(* No thread is destroyed while it can still run: `_connections` and the     *)
(* connections being destroyed own every thread that has not been joined.    *)
ThreadsAreOwned ==
  \A w \in Conns : thread[w] # "none" => w \in ToSet(conns) \cup ToSet(dying)

(* The pool implements AsyncOperations. *)
Abstract == INSTANCE AsyncOperations
  WITH pending <- queue, started <- {o \in Held : runs[o] = 0},
       done <- Done, dropped <- Dropped, open <- InService
ImplementsAsyncOperations == Abstract!Spec

(* Destroying a connection always gets past its join: the token and Cancel   *)
(* reach a worker wherever it stands, asleep or executing.                   *)
JoinTerminates == main = "token" ~> main \in {"errored", "closed", "exited"}

(* Every enqueued operation leaves the queue: a worker takes it or the       *)
(* closing pool discards it (in a pool that did not have to be opened twice). *)
NothingQueuedForever ==
  \A o \in Ops : o \in ToSet(queue) /\ ~retried ~> o \notin ToSet(queue)
=============================================================================
