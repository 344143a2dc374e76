---------------------------- MODULE Transactions ----------------------------
(***************************************************************************)
(* How a database pool runs transactions against MySQL: the worker threads *)
(* through TransactionTask::Execute, the other threads through             *)
(* DirectCommitTransaction on a synchronous connection, both through       *)
(* MySQLConnection::ExecuteTransaction.  A transaction that deadlocks is   *)
(* tried again; a connection that is lost is opened again and the          *)
(* statement it was lost on repeated.                                      *)
(*                                                                         *)
(* The server is modelled from what the connection relies on: a session is *)
(* in autocommit mode until START TRANSACTION, and a deadlock or a lost    *)
(* connection rolls back what the session has not committed.               *)
(***************************************************************************)
EXTENDS Naturals, FiniteSets, SequencesExt

CONSTANTS
  Workers,       (* worker threads, each with a connection of its own        *)
  Callers,       (* threads that call DirectCommitTransaction                *)
  SynchThreads,  (* synchronous connections, numbered from 0                 *)
  Trans,         (* the transactions of a run                                *)
  Empty,         (* those without a statement                                *)
  Statements,    (* statements of each of the others                         *)
  MaxTries,      (* bound: retries of a worker within 60 seconds             *)
  MaxFaults,     (* bound: connections lost and COMMITs that fail            *)
  NoThread, NoTrans

Threads     == Workers \cup Callers
SyncConns   == 0 .. SynchThreads - 1
Connections == Workers \cup SyncConns

ASSUME TransactionsAssumption ==
  /\ SynchThreads \in Nat \ {0} /\ Statements \in Nat \ {0}
  /\ MaxTries \in Nat \ {0} /\ MaxFaults \in Nat
  /\ Empty \subseteq Trans
  /\ Workers \cap Callers = {} /\ Workers \cap SyncConns = {}
  /\ NoThread \notin Threads /\ NoTrans \notin Trans

VARIABLES
  pc,           (* where each thread is                                      *)
  trans,        (* the transaction it executes                               *)
  next,         (* the statement of it that comes next                       *)
  code,         (* errorCode, what ExecuteTransaction returns                *)
  tries,        (* how often it has been retried after a deadlock            *)
  conn,         (* the connection it uses or, in GetFreeConnection, tried    *)
  mutex,        (* MySQLConnection::m_Mutex of the synchronous connections   *)
  deadlockLock, (* TransactionTask::_deadlockLock                            *)
  session,      (* the server's side of each connection                      *)
  log,          (* the statements whose effect is permanent, in order        *)
  outcome,      (* what became of each transaction                           *)
  faults,
  aborted       (* the process has called ABORT()                            *)

threadVars == <<pc, trans, next, code, tries, conn>>
serverVars == <<session, log>>
vars == <<threadVars, mutex, deadlockLock, serverVars, outcome, faults, aborted>>

(* mysql_autocommit(m_Mysql, 1) ends every Open; m_Mysql is null after a     *)
(* reconnection that was refused.                                            *)
Fresh == [up |-> TRUE, inTransaction |-> FALSE, work |-> <<>>]
Down  == [up |-> FALSE, inTransaction |-> FALSE, work |-> <<>>]

Init ==
  /\ pc = [th \in Threads |-> "idle"]
  /\ trans = [th \in Threads |-> NoTrans]
  /\ next = [th \in Threads |-> 1]
  /\ code = [th \in Threads |-> "ok"]
  /\ tries = [th \in Threads |-> 0]
  /\ conn = [th \in Threads |-> IF th \in Workers THEN th ELSE 0]
  /\ mutex = [c \in SyncConns |-> NoThread]
  /\ deadlockLock = NoThread
  /\ session = [c \in Connections |-> Fresh]
  /\ log = <<>>
  /\ outcome = [t \in Trans |-> "pending"]
  /\ faults = 0
  /\ aborted = FALSE

-----------------------------------------------------------------------------
(* Starting a transaction *)

Holds(th, t) ==
  /\ trans' = [trans EXCEPT ![th] = t]
  /\ next' = [next EXCEPT ![th] = 1]
  /\ tries' = [tries EXCEPT ![th] = 0]
  /\ outcome' = [outcome EXCEPT ![t] = "running"]

(* ExecuteTransaction returns -1 for a transaction without statements. *)
Enters(th, t) ==
  /\ pc' = [pc EXCEPT ![th] = IF t \in Empty THEN "return" ELSE "begin"]
  /\ code' = [code EXCEPT ![th] = IF t \in Empty THEN "error" ELSE "ok"]

(* A worker calls TransactionTask::Execute, ... *)
ExecuteTask(w, t) ==
  /\ pc[w] = "idle" /\ outcome[t] = "pending"
  /\ Holds(w, t) /\ Enters(w, t)
  /\ UNCHANGED <<conn, mutex, deadlockLock, serverVars, faults, aborted>>

(* ... another thread DirectCommitTransaction, which first looks for a free  *)
(* connection.                                                               *)
DirectCommitTransaction(th, t) ==
  /\ pc[th] = "idle" /\ outcome[t] = "pending"
  /\ Holds(th, t)
  /\ pc' = [pc EXCEPT ![th] = "free"]
  /\ conn' = [conn EXCEPT ![th] = 0]
  /\ UNCHANGED <<code, mutex, deadlockLock, serverVars, faults, aborted>>

(* One turn of the loop of GetFreeConnection: try the next connection. *)
GetFreeConnection(th) ==
  LET c == (conn[th] + 1) % SynchThreads IN
  /\ pc[th] = "free"
  /\ conn' = [conn EXCEPT ![th] = c]
  /\ IF mutex[c] = NoThread
     THEN mutex' = [mutex EXCEPT ![c] = th] /\ Enters(th, trans[th])
     ELSE UNCHANGED <<mutex, pc, code>>
  /\ UNCHANGED <<trans, next, tries, deadlockLock, serverVars, outcome, faults, aborted>>

-----------------------------------------------------------------------------
(* The statements ExecuteTransaction sends, and what they do to the server *)

Effect(s, sql, entry) ==
  CASE sql = "begin"    -> [session |-> [s EXCEPT !.inTransaction = TRUE, !.work = <<>>],
                            log |-> log \o s.work]
    [] sql = "write"    -> IF s.inTransaction
                           THEN [session |-> [s EXCEPT !.work = Append(@, entry)], log |-> log]
                           ELSE [session |-> s, log |-> Append(log, entry)]
    [] sql = "commit"   -> [session |-> [s EXCEPT !.inTransaction = FALSE, !.work = <<>>],
                            log |-> log \o s.work]
    [] sql = "rollback" -> [session |-> [s EXCEPT !.inTransaction = FALSE, !.work = <<>>],
                            log |-> log]

Sends(th) == pc[th] \in {"begin", "write", "commit", "rollback"}
Sent(th)  == Effect(session[conn[th]], pc[th], <<trans[th], next[th]>>)

Goto(th, label) == pc' = [pc EXCEPT ![th] = label]

(* What follows a statement.  Only that of a statement of the transaction    *)
(* itself depends on its result.                                             *)
Proceed(th) ==
  /\ Goto(th, CASE pc[th] = "begin" -> "write"
                [] pc[th] = "write" -> IF next[th] < Statements THEN "write" ELSE "commit"
                [] pc[th] \in {"commit", "rollback"} -> "return")
  /\ next' = [next EXCEPT ![th] = IF pc[th] = "write" THEN @ + 1 ELSE @]
  /\ UNCHANGED <<trans, code, tries, conn>>

(* Mutant: a transaction that failed is left to the server. *)
FailsWithoutRollback(th, error) ==
  /\ Goto(th, "return")
  /\ code' = [code EXCEPT ![th] = error]
  /\ UNCHANGED <<trans, next, tries, conn>>

(* Execute returned false: GetLastError, then ROLLBACK. *)
Fails(th, error) ==
  /\ Goto(th, "rollback")
  /\ code' = [code EXCEPT ![th] = error]
  /\ UNCHANGED <<trans, next, tries, conn>>

Executes(th) ==
  /\ Sends(th) /\ session[conn[th]].up
  /\ session' = [session EXCEPT ![conn[th]] = Sent(th).session]
  /\ log' = Sent(th).log
  /\ Proceed(th)
  /\ UNCHANGED <<mutex, deadlockLock, outcome, faults, aborted>>

(* A statement is refused, ER_DUP_ENTRY say. *)
Refused(th) ==
  /\ pc[th] = "write" /\ session[conn[th]].up
  /\ Fails(th, "error")
  /\ UNCHANGED <<mutex, deadlockLock, serverVars, outcome, faults, aborted>>

(* ER_LOCK_DEADLOCK: another session has locks, this one gives its own up. *)
Deadlocks(th) ==
  /\ pc[th] = "write" /\ session[conn[th]].up
  /\ \E c \in Connections \ {conn[th]} : session[c].work # <<>>
  /\ session' = [session EXCEPT ![conn[th]] = Fresh]
  /\ Fails(th, "deadlock")
  /\ UNCHANGED <<mutex, deadlockLock, log, outcome, faults, aborted>>

(* COMMIT fails; its result is ignored. *)
CommitFails(th) ==
  /\ pc[th] = "commit" /\ session[conn[th]].up /\ faults < MaxFaults
  /\ faults' = faults + 1
  /\ session' = [session EXCEPT ![conn[th]] = Fresh]
  /\ Proceed(th)
  /\ UNCHANGED <<mutex, deadlockLock, log, outcome, aborted>>

(* The connection is lost before or after the server has executed the        *)
(* statement, and _HandleMySQLErrno has opened a new one: the statement is    *)
(* sent again.                                                               *)
Lost(th) ==
  /\ Sends(th) /\ session[conn[th]].up /\ faults < MaxFaults
  /\ faults' = faults + 1
  /\ log' \in {log, Sent(th).log}
  /\ UNCHANGED <<next, trans, tries, mutex, deadlockLock, outcome>>

Reconnects(th) ==
  /\ Lost(th)
  /\ session' = [session EXCEPT ![conn[th]] = Fresh]
  /\ UNCHANGED <<pc, code, conn, aborted>>

(* The server answers the attempts with another error: m_Mysql stays null.   *)
(* The errno of no handle is 0, which is no error.                           *)
FailsOrProceeds(th) == IF pc[th] = "write" THEN Fails(th, "ok") ELSE Proceed(th)

ReconnectRefused(th) ==
  /\ Lost(th)
  /\ session' = [session EXCEPT ![conn[th]] = Down]
  /\ FailsOrProceeds(th)
  /\ UNCHANGED aborted

(* The fifth attempt fails, or the statements cannot be prepared again. *)
ReconnectFails(th) ==
  /\ Lost(th)
  /\ session' = [session EXCEPT ![conn[th]] = Down]
  /\ aborted' = TRUE
  /\ UNCHANGED <<pc, code, conn>>

(* Execute returns false at once when m_Mysql is null. *)
NoConnection(th) ==
  /\ Sends(th) /\ ~session[conn[th]].up
  /\ FailsOrProceeds(th)
  /\ UNCHANGED <<mutex, deadlockLock, serverVars, outcome, faults, aborted>>

-----------------------------------------------------------------------------
(* What the callers of ExecuteTransaction do with its result *)

Leaves(th, result) ==
  /\ Goto(th, "idle")
  /\ trans' = [trans EXCEPT ![th] = NoTrans]
  /\ outcome' = [outcome EXCEPT ![trans[th]] = result]
  /\ UNCHANGED <<next, code, tries, conn>>

TriesAgain(th) ==
  /\ Goto(th, "begin")
  /\ next' = [next EXCEPT ![th] = 1]
  /\ code' = [code EXCEPT ![th] = "ok"]
  /\ tries' = [tries EXCEPT ![th] = @ + 1]
  /\ UNCHANGED <<trans, conn, outcome>>

Releases(w) == deadlockLock' = IF deadlockLock = w THEN NoThread ELSE deadlockLock

TaskSucceeds(w) ==
  /\ pc[w] = "return" /\ code[w] = "ok"
  /\ Leaves(w, "done") /\ Releases(w)
  /\ UNCHANGED <<mutex, serverVars, faults, aborted>>

(* A first deadlock: one worker at a time may retry. *)
TaskDeadlocks(w) ==
  /\ pc[w] = "return" /\ code[w] = "deadlock" /\ deadlockLock # w
  /\ Goto(w, "retry")
  /\ UNCHANGED <<trans, next, code, tries, conn, mutex, deadlockLock, serverVars,
                 outcome, faults, aborted>>

(* Mutant: the lock is not taken. *)
RetryAtOnce(w) ==
  /\ pc[w] = "retry"
  /\ TriesAgain(w)
  /\ UNCHANGED <<deadlockLock, mutex, serverVars, faults, aborted>>

LockAndRetry(w) ==
  /\ pc[w] = "retry" /\ deadlockLock = NoThread
  /\ deadlockLock' = w
  /\ TriesAgain(w)
  /\ UNCHANGED <<mutex, serverVars, faults, aborted>>

(* Within 60 seconds whatever error is met the transaction is tried again. *)
TaskRetries(w) ==
  /\ pc[w] = "return" /\ code[w] # "ok" /\ deadlockLock = w
  /\ tries[w] < MaxTries
  /\ TriesAgain(w)
  /\ UNCHANGED <<deadlockLock, mutex, serverVars, faults, aborted>>

(* CleanupOnFailure: an error other than a deadlock, or the time is up. *)
TaskFails(w) ==
  /\ pc[w] = "return" /\ code[w] # "ok"
  /\ deadlockLock = w \/ code[w] = "error"
  /\ Leaves(w, "failed") /\ Releases(w)
  /\ UNCHANGED <<mutex, serverVars, faults, aborted>>

LoopBreaker == 5
Unlock(th) == mutex' = [mutex EXCEPT ![conn[th]] = NoThread]

(* DirectCommitTransaction: after a deadlock up to five more attempts. *)
DirectRetries(th) ==
  /\ pc[th] = "return" /\ code[th] # "ok"
  /\ \/ code[th] = "deadlock" /\ tries[th] = 0
     \/ tries[th] \in 1 .. LoopBreaker - 1
  /\ TriesAgain(th)
  /\ UNCHANGED <<mutex, deadlockLock, serverVars, faults, aborted>>

(* Mutant: the connection is only given back after a success. *)
ReturnsLocked(th) ==
  /\ pc[th] = "return"
  /\ \/ code[th] = "ok" /\ Leaves(th, "done") /\ Unlock(th)
     \/ /\ code[th] # "ok"
        /\ tries[th] = LoopBreaker \/ (code[th] = "error" /\ tries[th] = 0)
        /\ Leaves(th, "failed") /\ UNCHANGED mutex
  /\ UNCHANGED <<deadlockLock, serverVars, faults, aborted>>

DirectReturns(th) ==
  /\ pc[th] = "return"
  /\ \/ code[th] = "ok" /\ Leaves(th, "done")
     \/ /\ code[th] # "ok"
        /\ tries[th] = LoopBreaker \/ (code[th] = "error" /\ tries[th] = 0)
        /\ Leaves(th, "failed")
  /\ Unlock(th)
  /\ UNCHANGED <<deadlockLock, serverVars, faults, aborted>>

-----------------------------------------------------------------------------
ExecuteTransaction(th) ==
  \/ Executes(th) \/ Refused(th) \/ Deadlocks(th) \/ CommitFails(th)
  \/ Reconnects(th) \/ ReconnectRefused(th) \/ ReconnectFails(th) \/ NoConnection(th)

Worker(w) ==
  \/ \E t \in Trans : ExecuteTask(w, t)
  \/ ExecuteTransaction(w)
  \/ TaskSucceeds(w) \/ TaskDeadlocks(w) \/ LockAndRetry(w) \/ TaskRetries(w) \/ TaskFails(w)

Caller(th) ==
  \/ \E t \in Trans : DirectCommitTransaction(th, t)
  \/ GetFreeConnection(th) \/ ExecuteTransaction(th)
  \/ DirectRetries(th) \/ DirectReturns(th)

Next == ~aborted /\ (\/ \E w \in Workers : Worker(w)
                     \/ \E th \in Callers : Caller(th))

Spec == Init /\ [][Next]_vars

(* Every thread runs on, unless the process has aborted. *)
FairSpec ==
  /\ Spec
  /\ \A w \in Workers : WF_vars(~aborted /\ Worker(w))
  /\ \A th \in Callers : WF_vars(~aborted /\ Caller(th))

-----------------------------------------------------------------------------
(* Properties *)

Entries == Trans \X (1 .. Statements)

(* Every variable keeps its type. *)
TypeOK ==
  /\ pc \in [Threads -> {"idle", "free", "begin", "write", "commit", "rollback",
                         "return", "retry"}]
  /\ trans \in [Threads -> Trans \cup {NoTrans}]
  /\ next \in [Threads -> 1 .. Statements + 1]
  /\ code \in [Threads -> {"ok", "error", "deadlock"}]
  /\ tries \in [Threads -> Nat]
  /\ conn \in [Threads -> Connections]
  /\ mutex \in [SyncConns -> Callers \cup {NoThread}]
  /\ deadlockLock \in Workers \cup {NoThread}
  /\ session \in [Connections -> [up : BOOLEAN, inTransaction : BOOLEAN, work : Seq(Entries)]]
  /\ log \in Seq(Entries)
  /\ outcome \in [Trans -> {"pending", "running", "done", "failed"}]
  /\ faults \in Nat
  /\ aborted \in BOOLEAN

(* The log has nothing of a transaction, or each of its statements once and   *)
(* in order.                                                                 *)
Unwritten(t) == \A j \in DOMAIN log : log[j][1] # t
WrittenOnce(t) ==
  /\ \A i \in 1 .. Statements : \E j \in DOMAIN log : log[j] = <<t, i>>
  /\ \A j, k \in DOMAIN log :
       log[j][1] = t /\ log[k][1] = t /\ j < k => log[j][2] < log[k][2]

(* A transaction is executed as a whole and once, or not at all, however      *)
(* often it is retried, and the result says which.                           *)
AllOrNothing ==
  \A t \in Trans \ Empty :
    /\ Unwritten(t) \/ WrittenOnce(t)
    /\ outcome[t] = "done" => WrittenOnce(t)
    /\ outcome[t] \in {"pending", "failed"} => Unwritten(t)

(* The same as long as no connection has been lost and no COMMIT has failed.  *)
AllOrNothingWithoutFaults == faults = 0 => AllOrNothing

(* A connection on which no transaction is being executed is in autocommit   *)
(* mode with nothing left uncommitted: a later statement neither joins a      *)
(* transaction that failed nor commits what is left of it.                    *)
Uses(th, c) == conn[th] = c /\ pc[th] \in {"write", "commit", "rollback"}
SessionsAreClean ==
  \A c \in Connections :
    session[c].inTransaction \/ session[c].work # <<>> => \E th \in Threads : Uses(th, c)

(* Two workers that both retry never hold locks of the server at once: they  *)
(* cannot deadlock each other again.                                         *)
RetriersExcludeEachOther ==
  \A v, w \in Workers :
    v # w /\ tries[v] > 0 /\ tries[w] > 0 =>
      ~(pc[v] # "idle" /\ pc[w] # "idle"
        /\ session[v].work # <<>> /\ session[w].work # <<>>)

(* Every transaction that was handed in comes to an end: retries stop, and    *)
(* connections and the lock are given back to those who wait for them.        *)
EveryTransactionEnds ==
  \A t \in Trans : <>(outcome[t] \in {"done", "failed"} \/ aborted)
=============================================================================
