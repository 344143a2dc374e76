------------------------- MODULE Transactions_proofs -------------------------
(***************************************************************************)
(* Proofs about Transactions: for any number of workers, callers,          *)
(* synchronous connections, transactions and statements, and any number of *)
(* lost connections and failed COMMITs.                                    *)
(*                                                                         *)
(* A connection is used by one thread at a time: a worker has its own, a   *)
(* synchronous one belongs to the caller that has its mutex.  Whatever is  *)
(* uncommitted on it is then the work of that thread's transaction.        *)
(***************************************************************************)
EXTENDS Transactions, SequenceLemmas, TLAPS

USE TransactionsAssumption DEF TransactionsAssumption, Threads, Connections

Active(th) == pc[th] \notin {"idle", "free"}

(* The statement a thread is at is one its transaction has. *)
AtStatement ==
  \A th \in Threads : /\ pc[th] \in {"free", "begin"} => next[th] = 1
                      /\ pc[th] = "write" => next[th] <= Statements

(* Who has a connection, and who has a transaction. *)
Owners ==
  /\ \A w \in Workers : conn[w] = w /\ pc[w] # "free"
  /\ \A th \in Callers : /\ conn[th] \in SyncConns /\ pc[th] # "retry"
                         /\ Active(th) => mutex[conn[th]] = th
  /\ \A th \in Threads : /\ pc[th] = "idle" <=> trans[th] = NoTrans
                         /\ trans[th] # NoTrans => outcome[trans[th]] = "running"
  /\ \A a, b \in Threads : trans[a] = trans[b] /\ trans[a] # NoTrans => a = b

(* A worker that retries has the lock until its transaction ends. *)
RetryLock ==
  /\ \A w \in Workers : pc[w] # "idle" /\ tries[w] > 0 => deadlockLock = w
  /\ deadlockLock # NoThread => pc[deadlockLock] # "idle" /\ tries[deadlockLock] > 0

(* A transaction without statements is an error and nothing more. *)
Results ==
  \A th \in Threads :
    /\ trans[th] \in Empty => tries[th] = 0
    /\ trans[th] \in Empty /\ Active(th) => pc[th] = "return" /\ code[th] = "error"
    /\ pc[th] = "retry" => code[th] = "deadlock"

(* A lost session has rolled back; an unused one has no open transaction. *)
Sessions ==
  /\ \A c \in Connections : ~session[c].up => ~session[c].inTransaction /\ session[c].work = <<>>
  /\ SessionsAreClean

(* How far a transaction has come while no fault has been met. *)
Work(th, n) ==
  /\ Len(session[conn[th]].work) = n
  /\ \A i \in 1 .. n : session[conn[th]].work[i] = <<trans[th], i>>
Progress(th) ==
  /\ pc[th] \in {"begin", "write", "commit"} => code[th] = "ok"
  /\ pc[th] = "rollback" => code[th] # "ok"
  /\ pc[th] = "write"  => session[conn[th]].inTransaction /\ Work(th, next[th] - 1)
  /\ pc[th] = "commit" => session[conn[th]].inTransaction /\ Work(th, Statements)

(* While no fault has been met, what is in the log is what was committed. *)
Succeeded(t) ==
  outcome[t] = "done" \/ \E th \in Threads : trans[th] = t /\ pc[th] = "return" /\ code[th] = "ok"
Undisturbed ==
  faults = 0 =>
    /\ \A c \in Connections : session[c].up
    /\ \A th \in Threads : Progress(th)
    /\ \A t \in Trans \ Empty : IF Succeeded(t) THEN WrittenOnce(t) ELSE Unwritten(t)

IInv == TypeOK /\ AtStatement /\ Owners /\ RetryLock /\ Results /\ Sessions /\ Undisturbed

-----------------------------------------------------------------------------
(* What MySQL keeps of a connection. *)
Session == [up : BOOLEAN, inTransaction : BOOLEAN, work : Seq(Entries)]

(* The sessions that Open and a lost connection leave. *)
LEMMA FreshAndDown == Fresh \in Session /\ Down \in Session /\ <<>> \in Seq(Entries)
BY EmptySeq DEF Fresh, Down, Session

(* What a statement does to the server. *)
LEMMA SentEffect ==
  ASSUME TypeOK, AtStatement, Owners, NEW th \in Threads, Sends(th),
         NEW s, s = session[conn[th]]
  PROVE  /\ s \in Session /\ conn[th] \in Connections
         /\ trans[th] \in Trans /\ <<trans[th], next[th]>> \in Trans \X (1 .. Statements + 1)
         /\ Sent(th).session \in Session /\ Sent(th).session.up = s.up
         /\ Sent(th).log \in Seq(Entries)
         /\ pc[th] = "begin" => /\ Sent(th).session.inTransaction /\ Sent(th).session.work = <<>>
                                /\ Sent(th).log = log \o s.work
         /\ pc[th] = "write" /\ s.inTransaction =>
              /\ Sent(th).session.inTransaction /\ Sent(th).log = log
              /\ Sent(th).session.work = Append(s.work, <<trans[th], next[th]>>)
         /\ pc[th] = "write" /\ ~s.inTransaction => Sent(th).session = s
         /\ pc[th] = "commit" => Sent(th).log = log \o s.work
         /\ pc[th] = "rollback" => Sent(th).log = log
         /\ pc[th] \in {"commit", "rollback"} => ~Sent(th).session.inTransaction /\ Sent(th).session.work = <<>>
<1>1. s \in Session /\ log \in Seq(Entries) /\ conn[th] \in Connections
  BY DEF TypeOK, Session
<1>2. trans[th] \in Trans /\ next[th] \in 1 .. Statements + 1
  BY DEF TypeOK, Owners, Sends
<1>3. s.up \in BOOLEAN /\ s.inTransaction \in BOOLEAN /\ s.work \in Seq(Entries) /\ <<>> \in Seq(Entries)
      /\ log \o s.work \in Seq(Entries)
  BY <1>1, FreshAndDown, ConcatProperties DEF Session
<1> DEFINE e == <<trans[th], next[th]>>
<1>4. Sent(th) = Effect(s, pc[th], e)
  BY DEF Sent
<1>5. CASE pc[th] = "begin"
  <2>1. Sent(th) = [session |-> [s EXCEPT !.inTransaction = TRUE, !.work = <<>>], log |-> log \o s.work]
    BY <1>4, <1>5 DEF Effect
  <2> DEFINE x == [s EXCEPT !.inTransaction = TRUE, !.work = <<>>]
  <2>2. x \in Session /\ x.up = s.up /\ x.inTransaction = TRUE /\ x.work = <<>>
    BY <1>1, <1>3 DEF Session
  <2>3. Sent(th).session = x /\ Sent(th).log = log \o s.work
    BY <2>1, SMTT(40)
  <2> HIDE DEF x
  <2> QED
    BY <1>1, <1>2, <1>3, <1>5, <2>2, <2>3
<1>6. CASE pc[th] = "write"
  <2>1. e \in Entries
    BY <1>2, <1>6 DEF AtStatement, Entries
  <2>2. Append(s.work, e) \in Seq(Entries) /\ Append(log, e) \in Seq(Entries)
    BY <1>1, <1>3, <2>1, AppendProperties
  <2>3. Sent(th) = IF s.inTransaction
                   THEN [session |-> [s EXCEPT !.work = Append(@, e)], log |-> log]
                   ELSE [session |-> s, log |-> Append(log, e)]
    BY <1>4, <1>6 DEF Effect
  <2> HIDE DEF e
  <2>4. CASE s.inTransaction
    <3>1. Sent(th) = [session |-> [s EXCEPT !.work = Append(@, e)], log |-> log]
      BY <2>3, <2>4
    <3> DEFINE x == [s EXCEPT !.work = Append(@, e)]
    <3>2. x \in Session /\ x.up = s.up /\ x.inTransaction = s.inTransaction /\ x.work = Append(s.work, e)
      BY <1>1, <1>3, <2>2 DEF Session
    <3>3. Sent(th).session = x /\ Sent(th).log = log
      BY <3>1
    <3> HIDE DEF x
    <3> QED
      BY <1>1, <1>2, <1>3, <1>6, <2>2, <2>4, <3>2, <3>3 DEF e
  <2>5. CASE ~s.inTransaction
    <3>1. Sent(th) = [session |-> s, log |-> Append(log, e)]
      BY <2>3, <2>5
    <3> QED
      BY <1>1, <1>2, <1>3, <1>6, <2>2, <2>5, <3>1 DEF Session, e
  <2> QED
    BY <2>4, <2>5
<1>7. CASE pc[th] \in {"commit", "rollback"}
  <2>1. Sent(th) = [session |-> [s EXCEPT !.inTransaction = FALSE, !.work = <<>>],
                    log |-> IF pc[th] = "commit" THEN log \o s.work ELSE log]
    BY <1>4, <1>7 DEF Effect
  <2> DEFINE x == [s EXCEPT !.inTransaction = FALSE, !.work = <<>>]
  <2>2. x \in Session /\ x.up = s.up /\ x.inTransaction = FALSE /\ x.work = <<>>
    BY <1>1, <1>3 DEF Session
  <2>3. Sent(th).session = x /\ Sent(th).log = IF pc[th] = "commit" THEN log \o s.work ELSE log
    BY <2>1
  <2> HIDE DEF x
  <2> QED
    BY <1>1, <1>2, <1>3, <1>7, <2>2, <2>3
<1> QED
  BY <1>5, <1>6, <1>7 DEF Sends

(* A thread that executes a statement touches its own entries and the session *)
(* of its own connection, and is in one place of ExecuteTransaction or has    *)
(* left it.                                                                   *)
LEMMA StatementStep ==
  ASSUME TypeOK, AtStatement, Owners, NEW th \in Threads, ExecuteTransaction(th)
  PROVE  /\ TypeOK' /\ AtStatement'
         /\ Sends(th) /\ UNCHANGED <<trans, tries, conn, mutex, deadlockLock, outcome>>
         /\ \A o \in Threads : o # th => pc'[o] = pc[o] /\ code'[o] = code[o] /\ next'[o] = next[o]
         /\ \A c \in Connections : c # conn[th] => session'[c] = session[c]
         /\ pc'[th] \in {"begin", "write", "commit", "rollback", "return"}
         /\ pc'[th] = "begin" => pc[th] = "begin"
<1> USE DEF TypeOK
<1>0. /\ session[conn[th]] \in Session /\ conn[th] \in Connections
      /\ Sent(th).session \in Session /\ Sent(th).log \in Seq(Entries) /\ Sends(th)
  <2>1. Sends(th)
    BY DEF ExecuteTransaction, Executes, Refused, Deadlocks, CommitFails, Reconnects, ReconnectRefused,
           ReconnectFails, Lost, NoConnection, Sends
  <2> QED
    BY <2>1, SentEffect
<1>1. session \in [Connections -> Session]
  BY DEF Session
<1>2. ASSUME Proceed(th)
      PROVE  /\ pc' \in [Threads -> {"idle", "free", "begin", "write", "commit", "rollback", "return", "retry"}]
             /\ next' \in [Threads -> 1 .. Statements + 1] /\ UNCHANGED <<trans, code, tries, conn>>
             /\ \A o \in Threads : o # th => pc'[o] = pc[o] /\ next'[o] = next[o]
             /\ pc'[th] \in {"write", "commit", "return"}
             /\ pc[th] = "begin" => pc'[th] = "write" /\ next'[th] = next[th]
             /\ pc[th] = "write" => next'[th] = next[th] + 1
                                    /\ pc'[th] = IF next[th] < Statements THEN "write" ELSE "commit"
             /\ pc[th] \in {"commit", "rollback"} => pc'[th] = "return" /\ next'[th] = next[th]
             /\ AtStatement'
  <2>1. next[th] \in 1 .. Statements + 1 /\ (pc[th] = "write" => next[th] <= Statements)
        /\ (pc[th] = "begin" => next[th] = 1)
    BY DEF AtStatement
  <2>2. /\ pc' = [pc EXCEPT ![th] = IF pc[th] = "begin" THEN "write"
                                    ELSE IF pc[th] = "write"
                                         THEN IF next[th] < Statements THEN "write" ELSE "commit"
                                         ELSE "return"]
        /\ next' = [next EXCEPT ![th] = IF pc[th] = "write" THEN next[th] + 1 ELSE next[th]]
        /\ UNCHANGED <<trans, code, tries, conn>>
    BY <1>0, <1>2 DEF Proceed, Goto, Sends
  <2> QED
    BY <1>0, <2>1, <2>2 DEF AtStatement, Sends
<1>3. ASSUME NEW error \in {"ok", "error", "deadlock"}, Fails(th, error)
      PROVE  /\ pc' \in [Threads -> {"idle", "free", "begin", "write", "commit", "rollback", "return", "retry"}]
             /\ code' \in [Threads -> {"ok", "error", "deadlock"}] /\ UNCHANGED <<trans, next, tries, conn>>
             /\ \A o \in Threads : o # th => pc'[o] = pc[o] /\ code'[o] = code[o]
             /\ pc'[th] = "rollback" /\ code'[th] = error
             /\ AtStatement'
  BY <1>3 DEF Fails, Goto, AtStatement
<1>4. ASSUME NEW x \in Session, session' = [session EXCEPT ![conn[th]] = x]
      PROVE  /\ session' \in [Connections -> Session] /\ session'[conn[th]] = x
             /\ \A c \in Connections : c # conn[th] => session'[c] = session[c]
  BY <1>1, <1>4
<1>5. ASSUME /\ pc' \in [Threads -> {"idle", "free", "begin", "write", "commit", "rollback", "return", "retry"}]
             /\ code' \in [Threads -> {"ok", "error", "deadlock"}] /\ next' \in [Threads -> 1 .. Statements + 1]
             /\ session' \in [Connections -> Session] /\ log' \in Seq(Entries)
             /\ faults' \in Nat /\ aborted' \in BOOLEAN
             /\ UNCHANGED <<trans, tries, conn, mutex, deadlockLock, outcome>>
      PROVE  TypeOK'
  BY <1>5 DEF Session
<1>6. ASSUME FailsOrProceeds(th)
      PROVE  Proceed(th) \/ Fails(th, "ok")
  BY <1>6 DEF FailsOrProceeds
<1>7. CASE Executes(th)
  <2>1. /\ Proceed(th) /\ session' = [session EXCEPT ![conn[th]] = Sent(th).session] /\ log' = Sent(th).log
        /\ UNCHANGED <<mutex, deadlockLock, outcome, faults, aborted>>
    BY <1>7 DEF Executes
  <2>2. session' \in [Connections -> Session] /\ \A c \in Connections : c # conn[th] => session'[c] = session[c]
    BY <1>0, <1>4, <2>1
  <2> QED
    BY <1>0, <1>2, <1>5, <2>1, <2>2
<1>8. CASE Refused(th)
  <2>1. Fails(th, "error") /\ UNCHANGED <<mutex, deadlockLock, session, log, outcome, faults, aborted>>
    BY <1>8 DEF Refused, serverVars
  <2> QED
    BY <1>0, <1>1, <1>3, <1>5, <2>1
<1>9. CASE Deadlocks(th)
  <2>1. /\ Fails(th, "deadlock") /\ session' = [session EXCEPT ![conn[th]] = Fresh]
        /\ UNCHANGED <<mutex, deadlockLock, log, outcome, faults, aborted>>
    BY <1>9 DEF Deadlocks
  <2> QED
    BY <1>0, <1>3, <1>4, <1>5, <2>1, FreshAndDown
<1>10. CASE CommitFails(th)
  <2>1. /\ Proceed(th) /\ session' = [session EXCEPT ![conn[th]] = Fresh] /\ faults' = faults + 1
        /\ UNCHANGED <<mutex, deadlockLock, log, outcome, aborted>>
    BY <1>10 DEF CommitFails
  <2>2. session' \in [Connections -> Session] /\ \A c \in Connections : c # conn[th] => session'[c] = session[c]
    BY <1>4, <2>1, FreshAndDown
  <2>3. faults' \in Nat
    BY <2>1
  <2> QED
    BY <1>0, <1>2, <1>5, <2>1, <2>2, <2>3
<1>11. CASE Reconnects(th) \/ ReconnectFails(th)
  <2>1. /\ log' \in {log, Sent(th).log} /\ faults' = faults + 1 /\ aborted' \in BOOLEAN
        /\ session' = [session EXCEPT ![conn[th]] = Fresh] \/ session' = [session EXCEPT ![conn[th]] = Down]
        /\ UNCHANGED <<pc, code, conn, next, trans, tries, mutex, deadlockLock, outcome>>
    BY <1>11 DEF Reconnects, ReconnectFails, Lost
  <2>2. session' \in [Connections -> Session] /\ \A c \in Connections : c # conn[th] => session'[c] = session[c]
    BY <1>4, <2>1, FreshAndDown
  <2>3. log' \in Seq(Entries) /\ faults' \in Nat
    BY <1>0, <2>1
  <2>4. TypeOK'
    BY <1>5, <2>1, <2>2, <2>3
  <2>5. AtStatement'
    BY <2>1 DEF AtStatement
  <2>6. pc'[th] \in {"begin", "write", "commit", "rollback"} /\ pc'[th] = pc[th]
    BY <1>0, <2>1 DEF Sends
  <2> QED
    BY <1>0, <2>1, <2>2, <2>4, <2>5, <2>6
<1>12. CASE ReconnectRefused(th)
  <2>1. /\ log' \in {log, Sent(th).log} /\ faults' = faults + 1 /\ aborted' = aborted
        /\ session' = [session EXCEPT ![conn[th]] = Down] /\ FailsOrProceeds(th)
        /\ UNCHANGED <<next, trans, tries, mutex, deadlockLock, outcome>>
    BY <1>12 DEF ReconnectRefused, Lost
  <2>2. session' \in [Connections -> Session] /\ \A c \in Connections : c # conn[th] => session'[c] = session[c]
    BY <1>4, <2>1, FreshAndDown
  <2> QED
    BY <1>0, <1>2, <1>3, <1>5, <1>6, <2>1, <2>2
<1>13. CASE NoConnection(th)
  <2>1. FailsOrProceeds(th) /\ UNCHANGED <<mutex, deadlockLock, session, log, outcome, faults, aborted>>
    BY <1>13 DEF NoConnection, serverVars
  <2> QED
    BY <1>0, <1>1, <1>2, <1>3, <1>5, <1>6, <2>1
<1> QED
  BY <1>7, <1>8, <1>9, <1>10, <1>11, <1>12, <1>13 DEF ExecuteTransaction

(* It keeps its transaction and its connection meanwhile. *)
LEMMA StatementKeepsOwners ==
  ASSUME TypeOK, AtStatement, Owners, RetryLock, Results, NEW th \in Threads, ExecuteTransaction(th)
  PROVE  Owners' /\ RetryLock' /\ Results'
<1>1. /\ Sends(th) /\ UNCHANGED <<trans, tries, conn, mutex, deadlockLock, outcome>>
      /\ \A o \in Threads : o # th => pc'[o] = pc[o] /\ code'[o] = code[o] /\ next'[o] = next[o]
      /\ pc'[th] \in {"begin", "write", "commit", "rollback", "return"}
  BY StatementStep
<1>2. pc[th] \notin {"idle", "free", "return", "retry"}
  BY <1>1 DEF Sends
<1>3. Owners'
  BY <1>1, <1>2 DEF Owners, Active
<1>4. RetryLock'
  BY <1>1, <1>2 DEF RetryLock, TypeOK
<1>5. Results'
  BY <1>1, <1>2 DEF Results, Active
<1> QED
  BY <1>3, <1>4, <1>5

-----------------------------------------------------------------------------
(* The steps between the statements.                                         *)
CallStep(th) ==
  \/ th \in Workers /\ (\/ \E t \in Trans : ExecuteTask(th, t)
                        \/ TaskSucceeds(th) \/ TaskDeadlocks(th) \/ LockAndRetry(th)
                        \/ TaskRetries(th) \/ TaskFails(th))
  \/ th \in Callers /\ (\/ \E t \in Trans : DirectCommitTransaction(th, t)
                        \/ GetFreeConnection(th) \/ DirectRetries(th) \/ DirectReturns(th))

(* The server and the other threads do not notice. *)
LEMMA CallShape ==
  ASSUME TypeOK, AtStatement, Owners, NEW th \in Threads, CallStep(th)
  PROVE  /\ UNCHANGED <<session, log, faults, aborted>>
         /\ \A o \in Threads : o # th => /\ pc'[o] = pc[o] /\ code'[o] = code[o] /\ next'[o] = next[o]
                                         /\ trans'[o] = trans[o] /\ tries'[o] = tries[o] /\ conn'[o] = conn[o]
         /\ pc[th] \in {"idle", "free", "return", "retry"}
         /\ pc'[th] \in {"idle", "free", "begin", "return", "retry"}
         /\ pc'[th] # "begin" \/ (next'[th] = 1 /\ code'[th] = "ok")
         /\ pc[th] # "idle" => trans[th] \in Trans
<1>1. pc[th] # "idle" => trans[th] \in Trans
  BY DEF TypeOK, Owners
<1>2. CASE \E t \in Trans : ExecuteTask(th, t)
  BY <1>2 DEF TypeOK, ExecuteTask, Holds, Enters, serverVars
<1>3. CASE \E t \in Trans : DirectCommitTransaction(th, t)
  BY <1>3 DEF TypeOK, DirectCommitTransaction, Holds, serverVars
<1>4. CASE GetFreeConnection(th)
  BY <1>1, <1>4 DEF TypeOK, AtStatement, GetFreeConnection, Enters, serverVars
<1>5. CASE TaskSucceeds(th) \/ TaskFails(th) \/ DirectReturns(th)
  BY <1>1, <1>5 DEF TypeOK, TaskSucceeds, TaskFails, DirectReturns, Leaves, Goto, serverVars
<1>6. CASE TaskDeadlocks(th)
  BY <1>1, <1>6 DEF TypeOK, TaskDeadlocks, Goto, serverVars
<1>7. CASE LockAndRetry(th) \/ TaskRetries(th) \/ DirectRetries(th)
  BY <1>1, <1>7 DEF TypeOK, LockAndRetry, TaskRetries, DirectRetries, TriesAgain, Goto, serverVars
<1> QED
  BY <1>2, <1>3, <1>4, <1>5, <1>6, <1>7 DEF CallStep

(* Taking up a transaction, retrying it and giving it back. *)
LEMMA CallKeepsOwners ==
  ASSUME TypeOK, AtStatement, Owners, RetryLock, Results, NEW th \in Threads, CallStep(th)
  PROVE  TypeOK' /\ AtStatement' /\ Owners' /\ RetryLock' /\ Results'
<1>0. /\ UNCHANGED <<session, log, faults, aborted>>
      /\ \A o \in Threads : o # th => /\ pc'[o] = pc[o] /\ code'[o] = code[o] /\ next'[o] = next[o]
                                      /\ trans'[o] = trans[o] /\ tries'[o] = tries[o] /\ conn'[o] = conn[o]
      /\ pc'[th] \in {"idle", "free", "begin", "return", "retry"}
      /\ pc[th] # "idle" => trans[th] \in Trans
  BY CallShape
<1>1. ASSUME NEW t \in Trans, ExecuteTask(th, t), th \in Workers
      PROVE  TypeOK' /\ AtStatement' /\ Owners' /\ RetryLock' /\ Results'
  <2>1. /\ pc[th] = "idle" /\ outcome[t] = "pending"
        /\ trans' = [trans EXCEPT ![th] = t] /\ next' = [next EXCEPT ![th] = 1]
        /\ tries' = [tries EXCEPT ![th] = 0] /\ outcome' = [outcome EXCEPT ![t] = "running"]
        /\ pc' = [pc EXCEPT ![th] = IF t \in Empty THEN "return" ELSE "begin"]
        /\ code' = [code EXCEPT ![th] = IF t \in Empty THEN "error" ELSE "ok"]
        /\ UNCHANGED <<conn, mutex, deadlockLock>>
    BY <1>1 DEF ExecuteTask, Holds, Enters
  <2>2. TypeOK'
    BY <1>0, <2>1 DEF TypeOK
  <2>3. AtStatement'
    BY <1>0, <2>1 DEF TypeOK, AtStatement
  <2>4. \A o \in Threads : trans[o] # t
    BY <2>1 DEF TypeOK, Owners
  <2>5. Owners'
    BY <1>0, <1>1, <2>1, <2>4 DEF TypeOK, Owners, Active
  <2>6. RetryLock'
    BY <1>0, <1>1, <2>1 DEF TypeOK, RetryLock
  <2>7. Results'
    BY <1>0, <2>1 DEF TypeOK, Results, Active
  <2> QED
    BY <2>2, <2>3, <2>5, <2>6, <2>7
<1>2. ASSUME NEW t \in Trans, DirectCommitTransaction(th, t), th \in Callers
      PROVE  TypeOK' /\ AtStatement' /\ Owners' /\ RetryLock' /\ Results'
  <2>1. /\ pc[th] = "idle" /\ outcome[t] = "pending"
        /\ trans' = [trans EXCEPT ![th] = t] /\ next' = [next EXCEPT ![th] = 1]
        /\ tries' = [tries EXCEPT ![th] = 0] /\ outcome' = [outcome EXCEPT ![t] = "running"]
        /\ pc' = [pc EXCEPT ![th] = "free"] /\ conn' = [conn EXCEPT ![th] = 0]
        /\ UNCHANGED <<code, mutex, deadlockLock>>
    BY <1>2 DEF DirectCommitTransaction, Holds, Goto
  <2>2. 0 \in SyncConns
    BY DEF SyncConns
  <2>3. TypeOK'
    BY <1>0, <2>1, <2>2 DEF TypeOK
  <2>4. AtStatement'
    BY <1>0, <2>1 DEF TypeOK, AtStatement
  <2>5. \A o \in Threads : trans[o] # t
    BY <2>1 DEF TypeOK, Owners
  <2>6. Owners'
    BY <1>0, <1>2, <2>1, <2>2, <2>5 DEF TypeOK, Owners, Active
  <2>7. RetryLock'
    BY <1>0, <1>2, <2>1 DEF TypeOK, RetryLock
  <2>8. Results'
    BY <1>0, <2>1 DEF TypeOK, Results, Active
  <2> QED
    BY <2>3, <2>4, <2>6, <2>7, <2>8
<1>3. ASSUME GetFreeConnection(th), th \in Callers
      PROVE  TypeOK' /\ AtStatement' /\ Owners' /\ RetryLock' /\ Results'
  <2> DEFINE c == (conn[th] + 1) % SynchThreads
  <2>1. c \in SyncConns
    <3>1. conn[th] \in 0 .. SynchThreads - 1
      BY <1>3 DEF Owners, SyncConns
    <3> QED
      BY <3>1 DEF SyncConns
  <2>2. /\ pc[th] = "free" /\ conn' = [conn EXCEPT ![th] = c]
        /\ UNCHANGED <<trans, next, tries, deadlockLock, outcome>>
        /\ \/ /\ mutex[c] = NoThread /\ mutex' = [mutex EXCEPT ![c] = th]
              /\ pc' = [pc EXCEPT ![th] = IF trans[th] \in Empty THEN "return" ELSE "begin"]
              /\ code' = [code EXCEPT ![th] = IF trans[th] \in Empty THEN "error" ELSE "ok"]
           \/ UNCHANGED <<mutex, pc, code>>
    BY <1>3 DEF GetFreeConnection, Enters
  <2> HIDE DEF c
  <2>3. TypeOK'
    <3>1. mutex' \in [SyncConns -> Callers \cup {NoThread}]
      <4>1. mutex \in [SyncConns -> Callers \cup {NoThread}]
        BY DEF TypeOK
      <4>2. mutex' = [mutex EXCEPT ![c] = th] \/ mutex' = mutex
        BY <2>2
      <4> QED
        BY ONLY <1>3, <2>1, <4>1, <4>2
    <3>2. conn' \in [Threads -> Connections]
      BY <2>1, <2>2 DEF TypeOK
    <3>3. pc' \in [Threads -> {"idle", "free", "begin", "write", "commit", "rollback", "return", "retry"}]
      BY <2>2 DEF TypeOK
    <3>4. code' \in [Threads -> {"ok", "error", "deadlock"}]
      BY <2>2 DEF TypeOK
    <3> QED
      BY <1>0, <2>2, <3>1, <3>2, <3>3, <3>4 DEF TypeOK
  <2>4. AtStatement'
    BY <1>0, <2>2 DEF TypeOK, AtStatement
  <2>5. Owners'
    <3>1. \A o \in Callers : o # th /\ Active(o) => conn[o] \in SyncConns /\ mutex'[conn[o]] = o
      BY <2>1, <2>2 DEF TypeOK, Owners
    <3>2. \A o \in Callers : o # th => (Active(o)' <=> Active(o))
      BY <1>0 DEF Active
    <3>3. Active(th)' => mutex'[conn'[th]] = th
      BY <1>3, <2>1, <2>2 DEF Active, TypeOK
    <3>4. \A o \in Callers : conn'[o] \in SyncConns /\ pc'[o] # "retry" /\ (Active(o)' => mutex'[conn'[o]] = o)
      BY <1>0, <2>1, <2>2, <3>1, <3>2, <3>3 DEF TypeOK, Owners
    <3>5. \A o \in Threads : pc'[o] = "idle" <=> pc[o] = "idle"
      BY <1>0, <2>2 DEF TypeOK
    <3>6. \A w \in Workers : conn'[w] = w /\ pc'[w] # "free"
      BY <1>0, <1>3 DEF Owners
    <3> QED
      BY <2>2, <3>4, <3>5, <3>6 DEF Owners
  <2>6. RetryLock'
    BY <1>0, <1>3, <2>2 DEF TypeOK, RetryLock
  <2>7. Results'
    BY <1>0, <2>2 DEF TypeOK, Results, Active
  <2> QED
    BY <2>3, <2>4, <2>5, <2>6, <2>7
<1>4. ASSUME pc[th] = "return", NEW result \in {"done", "failed"}, Leaves(th, result),
             \/ th \in Workers /\ Releases(th) /\ UNCHANGED mutex
             \/ th \in Callers /\ Unlock(th) /\ UNCHANGED deadlockLock
      PROVE  TypeOK' /\ AtStatement' /\ Owners' /\ RetryLock' /\ Results'
  <2>1. /\ pc' = [pc EXCEPT ![th] = "idle"] /\ trans' = [trans EXCEPT ![th] = NoTrans]
        /\ outcome' = [outcome EXCEPT ![trans[th]] = result]
        /\ UNCHANGED <<next, code, tries, conn>>
    BY <1>4 DEF Leaves, Goto
  <2>2. /\ mutex' \in [SyncConns -> Callers \cup {NoThread}] /\ deadlockLock' \in Workers \cup {NoThread}
        /\ deadlockLock' \in {deadlockLock, NoThread} /\ deadlockLock' # th
        /\ deadlockLock # th => deadlockLock' = deadlockLock
        /\ th \in Workers => mutex' = mutex
        /\ th \in Callers => mutex' = [mutex EXCEPT ![conn[th]] = NoThread]
    BY <1>4 DEF Releases, Unlock, TypeOK
  <2>3. TypeOK'
    BY <1>0, <1>4, <2>1, <2>2 DEF TypeOK
  <2>4. AtStatement'
    BY <1>0, <2>1 DEF TypeOK, AtStatement
  <2>5. Owners'
    <3>1. \A o \in Threads : o # th => trans[o] # trans[th] \/ trans[o] = NoTrans
      BY DEF Owners
    <3>2. \A o \in Callers : o # th /\ Active(o) => mutex'[conn[o]] = o
      <4>1. th \in Callers => mutex[conn[th]] = th
        BY <1>4 DEF Owners, Active
      <4> QED
        BY <2>2, <4>1 DEF Owners, TypeOK
    <3>3. \A o \in Threads : o # th => (Active(o)' <=> Active(o))
      BY <1>0 DEF Active
    <3>4. ~Active(th)'
      BY <2>1 DEF Active, TypeOK
    <3>5. /\ \A w \in Workers : conn'[w] = w /\ pc'[w] # "free"
          /\ \A o \in Callers : conn'[o] \in SyncConns /\ pc'[o] # "retry" /\ (Active(o)' => mutex'[conn'[o]] = o)
      BY <1>0, <2>1, <3>2, <3>3, <3>4 DEF Owners, TypeOK
    <3>6. \A o \in Threads : /\ pc'[o] = "idle" <=> trans'[o] = NoTrans
                             /\ trans'[o] # NoTrans => outcome'[trans'[o]] = "running"
      BY <1>0, <2>1, <3>1 DEF Owners, TypeOK
    <3>7. \A a, b \in Threads : trans'[a] = trans'[b] /\ trans'[a] # NoTrans => a = b
      BY <1>0, <2>1 DEF Owners, TypeOK
    <3> QED
      BY <3>5, <3>6, <3>7 DEF Owners
  <2>6. RetryLock'
    BY <1>0, <2>1, <2>2 DEF TypeOK, RetryLock
  <2>7. Results'
    BY <1>0, <2>1 DEF TypeOK, Results, Active
  <2> QED
    BY <2>3, <2>4, <2>5, <2>6, <2>7
<1>5. ASSUME pc[th] \in {"return", "retry"}, TriesAgain(th), trans[th] \notin Empty, UNCHANGED mutex,
             th \in Workers => deadlockLock' = th /\ deadlockLock \in {NoThread, th},
             th \in Callers => UNCHANGED deadlockLock
      PROVE  TypeOK' /\ AtStatement' /\ Owners' /\ RetryLock' /\ Results'
  <2>1. /\ pc' = [pc EXCEPT ![th] = "begin"] /\ next' = [next EXCEPT ![th] = 1]
        /\ code' = [code EXCEPT ![th] = "ok"] /\ tries' = [tries EXCEPT ![th] = tries[th] + 1]
        /\ UNCHANGED <<trans, conn, outcome>>
    BY <1>5 DEF TriesAgain, Goto
  <2>2. TypeOK'
    BY <1>0, <1>5, <2>1 DEF TypeOK
  <2>3. AtStatement'
    BY <1>0, <2>1 DEF TypeOK, AtStatement
  <2>4. Owners'
    BY <1>0, <1>5, <2>1 DEF TypeOK, Owners, Active
  <2>5. RetryLock'
    BY <1>0, <1>5, <2>1 DEF TypeOK, RetryLock
  <2>6. Results'
    BY <1>0, <1>5, <2>1 DEF TypeOK, Results, Active
  <2> QED
    BY <2>2, <2>3, <2>4, <2>5, <2>6
<1>6. ASSUME TaskDeadlocks(th), th \in Workers
      PROVE  TypeOK' /\ AtStatement' /\ Owners' /\ RetryLock' /\ Results'
  <2>1. /\ pc[th] = "return" /\ code[th] = "deadlock" /\ pc' = [pc EXCEPT ![th] = "retry"]
        /\ UNCHANGED <<trans, next, code, tries, conn, mutex, deadlockLock, outcome>>
    BY <1>6 DEF TaskDeadlocks, Goto
  <2> QED
    BY <1>0, <1>6, <2>1 DEF TypeOK, AtStatement, Owners, RetryLock, Results, Active
<1>7. pc[th] \in {"return", "retry"} => Active(th)
  BY DEF Active
<1>8. ASSUME LockAndRetry(th), th \in Workers
      PROVE  TypeOK' /\ AtStatement' /\ Owners' /\ RetryLock' /\ Results'
  <2>1. pc[th] = "retry" /\ TriesAgain(th) /\ UNCHANGED mutex /\ deadlockLock' = th /\ deadlockLock = NoThread
    BY <1>8 DEF LockAndRetry
  <2>2. trans[th] \notin Empty
    BY <1>7, <2>1 DEF Results
  <2> QED
    BY <1>5, <1>8, <2>1, <2>2
<1>9. ASSUME TaskRetries(th), th \in Workers
      PROVE  TypeOK' /\ AtStatement' /\ Owners' /\ RetryLock' /\ Results'
  <2>1. pc[th] = "return" /\ TriesAgain(th) /\ UNCHANGED <<mutex, deadlockLock>> /\ deadlockLock = th
    BY <1>9 DEF TaskRetries
  <2>2. trans[th] \notin Empty
    BY <2>1 DEF Results, RetryLock, TypeOK
  <2> QED
    BY <1>5, <1>9, <2>1, <2>2
<1>10. ASSUME DirectRetries(th), th \in Callers
       PROVE  TypeOK' /\ AtStatement' /\ Owners' /\ RetryLock' /\ Results'
  <2>1. /\ pc[th] = "return" /\ TriesAgain(th) /\ UNCHANGED <<mutex, deadlockLock>>
        /\ code[th] = "deadlock" \/ tries[th] # 0
    BY <1>10 DEF DirectRetries, LoopBreaker
  <2>2. trans[th] \notin Empty
    BY <1>7, <2>1 DEF Results
  <2> QED
    BY <1>5, <1>10, <2>1, <2>2
<1>11. ASSUME TaskSucceeds(th), th \in Workers
       PROVE  TypeOK' /\ AtStatement' /\ Owners' /\ RetryLock' /\ Results'
  BY <1>4, <1>11 DEF TaskSucceeds
<1>12. ASSUME TaskFails(th), th \in Workers
       PROVE  TypeOK' /\ AtStatement' /\ Owners' /\ RetryLock' /\ Results'
  BY <1>4, <1>12 DEF TaskFails
<1>13. ASSUME DirectReturns(th), th \in Callers
       PROVE  TypeOK' /\ AtStatement' /\ Owners' /\ RetryLock' /\ Results'
  BY <1>4, <1>13 DEF DirectReturns
<1> QED
  BY <1>1, <1>2, <1>3, <1>6, <1>8, <1>9, <1>10, <1>11, <1>12, <1>13 DEF CallStep

-----------------------------------------------------------------------------
(* The sessions                                                              *)

(* Two threads that execute a transaction do so on different connections. *)
LEMMA Exclusive ==
  ASSUME Owners, NEW a \in Threads, NEW b \in Threads, Active(a), Active(b), conn[a] = conn[b]
  PROVE  a = b
<1>1. CASE a \in Workers /\ b \in Workers
  BY <1>1 DEF Owners
<1>2. CASE a \in Callers /\ b \in Callers
  BY <1>2 DEF Owners
<1>3. CASE (a \in Workers /\ b \in Callers) \/ (a \in Callers /\ b \in Workers)
  BY <1>3 DEF Owners
<1> QED
  BY <1>1, <1>2, <1>3

(* Where a statement leads and what becomes of the session it was sent on. *)
LEMMA Follows ==
  ASSUME TypeOK, NEW th \in Threads, Sends(th)
  PROVE  /\ Proceed(th) =>
              /\ pc[th] = "begin" => pc'[th] = "write" /\ next'[th] = next[th]
              /\ pc[th] = "write" => /\ pc'[th] = IF next[th] < Statements THEN "write" ELSE "commit"
                                     /\ next'[th] = next[th] + 1
              /\ pc[th] \in {"commit", "rollback"} => pc'[th] = "return"
              /\ code' = code
         /\ \A error \in {"ok", "error", "deadlock"} :
              Fails(th, error) => pc'[th] = "rollback" /\ code'[th] = error
         /\ \A x : session' = [session EXCEPT ![conn[th]] = x] => session'[conn[th]] = x
<1>1. /\ pc \in [Threads -> {"idle", "free", "begin", "write", "commit", "rollback", "return", "retry"}]
      /\ code \in [Threads -> {"ok", "error", "deadlock"}] /\ next \in [Threads -> 1 .. Statements + 1]
      /\ conn[th] \in DOMAIN session
  BY DEF TypeOK
<1>2. ASSUME Proceed(th)
      PROVE  /\ pc' = [pc EXCEPT ![th] = IF pc[th] = "begin" THEN "write"
                                         ELSE IF pc[th] = "write"
                                              THEN IF next[th] < Statements THEN "write" ELSE "commit"
                                              ELSE "return"]
             /\ next' = [next EXCEPT ![th] = IF pc[th] = "write" THEN next[th] + 1 ELSE next[th]]
             /\ code' = code
  BY <1>2 DEF Proceed, Goto, Sends
<1>3. \A error \in {"ok", "error", "deadlock"} :
        Fails(th, error) => pc'[th] = "rollback" /\ code'[th] = error
  BY <1>1 DEF Fails, Goto
<1>4. \A x : session' = [session EXCEPT ![conn[th]] = x] => session'[conn[th]] = x
  BY <1>1
<1> QED
  BY <1>1, <1>2, <1>3, <1>4

(* What a thread leaves uncommitted it still has to commit or roll back. *)
LEMMA StatementKeepsSessions ==
  ASSUME TypeOK, AtStatement, Owners, Sessions, NEW th \in Threads, ExecuteTransaction(th)
  PROVE  Sessions'
<1> DEFINE s == session[conn[th]]
           u == session'[conn[th]]
           clean == ~u.inTransaction /\ u.work = <<>>
           kept == u.up /\ pc'[th] \in {"write", "commit", "rollback"}
<1>1. /\ Sends(th) /\ conn' = conn
      /\ \A o \in Threads : o # th => pc'[o] = pc[o]
      /\ \A c \in Connections : c # conn[th] => session'[c] = session[c]
      /\ conn[th] \in Connections
  BY StatementStep DEF TypeOK
<1>2. /\ Sent(th).session.up = s.up
      /\ pc[th] \in {"commit", "rollback"} => ~Sent(th).session.inTransaction /\ Sent(th).session.work = <<>>
  BY <1>1, SentEffect
<1>3. ~Fresh.inTransaction /\ Fresh.work = <<>> /\ ~Down.inTransaction /\ Down.work = <<>>
  BY DEF Fresh, Down
<1>4. clean \/ kept
  <2>1. CASE Executes(th)
    <3>1. u = Sent(th).session /\ Proceed(th) /\ s.up
      BY <1>1, <2>1, Follows DEF Executes
    <3> HIDE DEF s, u
    <3> QED
      BY <1>1, <1>2, <3>1, Follows DEF Sends
  <2>2. CASE Refused(th)
    <3>1. u = s /\ s.up /\ Fails(th, "error")
      BY <2>2 DEF Refused, serverVars
    <3> QED
      BY <1>1, <3>1, Follows
  <2>3. CASE Deadlocks(th) \/ CommitFails(th) \/ Reconnects(th)
    <3>1. u = Fresh
      BY <1>1, <2>3, Follows DEF Deadlocks, CommitFails, Reconnects
    <3> QED
      BY <1>3, <3>1
  <2>4. CASE ReconnectRefused(th) \/ ReconnectFails(th)
    <3>1. u = Down
      BY <1>1, <2>4, Follows DEF ReconnectRefused, ReconnectFails
    <3> QED
      BY <1>3, <3>1
  <2>5. CASE NoConnection(th)
    <3>1. u = s /\ ~s.up
      BY <2>5 DEF NoConnection, serverVars
    <3> QED
      BY <1>1, <3>1 DEF Sessions
  <2> QED
    BY <2>1, <2>2, <2>3, <2>4, <2>5 DEF ExecuteTransaction
<1> HIDE DEF s, u
<1>5. \A c \in Connections : ~session'[c].up => ~session'[c].inTransaction /\ session'[c].work = <<>>
  BY <1>1, <1>4 DEF Sessions, u
<1>6. ASSUME NEW c \in Connections, session'[c].inTransaction \/ session'[c].work # <<>>
      PROVE  \E o \in Threads : Uses(o, c)'
  <2>1. CASE c = conn[th]
    BY <1>1, <1>4, <1>6, <2>1 DEF Uses, u
  <2>2. CASE c # conn[th]
    <3>1. PICK o \in Threads : Uses(o, c)
      BY <1>1, <1>6, <2>2 DEF Sessions, SessionsAreClean
    <3>2. o # th
      BY <2>2, <3>1 DEF Uses
    <3> QED
      BY <1>1, <3>1, <3>2 DEF Uses
  <2> QED
    BY <2>1, <2>2
<1> QED
  BY <1>5, <1>6 DEF Sessions, SessionsAreClean

(* A step outside a statement changes no session. *)
LEMMA CallKeepsSessions ==
  ASSUME TypeOK, AtStatement, Owners, Sessions, NEW th \in Threads, CallStep(th)
  PROVE  Sessions'
<1>1. /\ session' = session /\ pc[th] \in {"idle", "free", "return", "retry"}
      /\ \A o \in Threads : o # th => pc'[o] = pc[o] /\ conn'[o] = conn[o]
  BY CallShape
<1>2. ASSUME NEW c \in Connections, NEW o \in Threads, Uses(o, c)
      PROVE  Uses(o, c)'
  <2>1. o # th
    BY <1>1, <1>2 DEF Uses
  <2> QED
    BY <1>1, <1>2, <2>1 DEF Uses
<1> QED
  BY <1>1, <1>2 DEF Sessions, SessionsAreClean

-----------------------------------------------------------------------------
(* What reaches the log while no fault is met                                *)

(* A COMMIT appends the whole of one transaction, and nothing of another. *)
LEMMA Committed ==
  ASSUME log \in Seq(Entries), NEW t \in Trans, NEW work \in Seq(Entries), Len(work) = Statements,
         \A i \in 1 .. Statements : work[i] = <<t, i>>, log' = log \o work
  PROVE  /\ Unwritten(t) => WrittenOnce(t)'
         /\ \A o \in Trans \ {t} : /\ Unwritten(o) => Unwritten(o)'
                                   /\ WrittenOnce(o) => WrittenOnce(o)'
<1> DEFINE n == Len(log)
<1>1. n \in Nat /\ DOMAIN log = 1 .. n
  BY LenProperties
<1>2. /\ DOMAIN log' = 1 .. n + Statements
      /\ \A j \in 1 .. n : log'[j] = log[j]
      /\ \A j \in n + 1 .. n + Statements : j - n \in 1 .. Statements /\ log'[j] = <<t, j - n>>
  <2>1. /\ log \o work \in Seq(Entries) /\ Len(log \o work) = n + Statements
        /\ \A j \in 1 .. n + Statements : (log \o work)[j] = IF j <= n THEN log[j] ELSE work[j - n]
    BY ConcatProperties
  <2>2. DOMAIN (log \o work) = 1 .. n + Statements
    BY <2>1, LenProperties
  <2> QED
    BY <1>1, <2>1, <2>2
<1> HIDE DEF n
<1>3. \A i \in 1 .. Statements : n + i \in n + 1 .. n + Statements /\ (n + i) - n = i
  BY <1>1
<1>4. ASSUME Unwritten(t) PROVE WrittenOnce(t)'
  <2>1. \A i \in 1 .. Statements : \E j \in DOMAIN log' : log'[j] = <<t, i>>
    <3>1. TAKE i \in 1 .. Statements
    <3>2. n + i \in DOMAIN log' /\ log'[n + i] = <<t, i>>
      BY <1>1, <1>2, <1>3
    <3> QED
      BY <3>2
  <2>2. ASSUME NEW j \in DOMAIN log', log'[j][1] = t PROVE j \in n + 1 .. n + Statements
    <3>1. ~(j \in 1 .. n)
      BY <1>1, <1>2, <1>4, <2>2 DEF Unwritten
    <3> QED
      BY <1>1, <1>2, <3>1
  <2>3. \A j, k \in n + 1 .. n + Statements : j < k => log'[j][2] < log'[k][2]
    BY <1>1, <1>2
  <2> QED
    BY <2>1, <2>2, <2>3 DEF WrittenOnce
<1>5. ASSUME NEW o \in Trans \ {t}
      PROVE  /\ \A j \in 1 .. n : log'[j] = log[j]
             /\ \A j \in DOMAIN log' : log'[j][1] = o => j \in 1 .. n
             /\ 1 .. n \subseteq DOMAIN log'
  <2>1. \A j \in n + 1 .. n + Statements : log'[j][1] = t
    <3>1. TAKE j \in n + 1 .. n + Statements
    <3>2. log'[j] = <<t, j - n>>
      BY <1>2
    <3> QED
      BY <3>2
  <2> QED
    BY <1>1, <1>2, <1>5, <2>1
<1>6. ASSUME NEW o \in Trans \ {t}, Unwritten(o) PROVE Unwritten(o)'
  BY <1>1, <1>5, <1>6 DEF Unwritten
<1>7. ASSUME NEW o \in Trans \ {t}, WrittenOnce(o) PROVE WrittenOnce(o)'
  <2>1. \A i \in 1 .. Statements : \E j \in DOMAIN log' : log'[j] = <<o, i>>
    BY <1>1, <1>5, <1>7 DEF WrittenOnce
  <2>2. \A j, k \in DOMAIN log' :
          log'[j][1] = o /\ log'[k][1] = o /\ j < k => log'[j][2] < log'[k][2]
    BY <1>1, <1>5, <1>7 DEF WrittenOnce
  <2> QED
    BY <2>1, <2>2 DEF WrittenOnce
<1> QED
  BY <1>4, <1>6, <1>7

(* Only a COMMIT makes a transaction succeed. *)
LEMMA CallKeepsResults ==
  ASSUME TypeOK, AtStatement, Owners, Results, NEW th \in Threads, CallStep(th), NEW t \in Trans
  PROVE  Succeeded(t)' <=> Succeeded(t)
<1> DEFINE At(o) == trans[o] = t /\ pc[o] = "return" /\ code[o] = "ok"
<1>1. /\ \A o \in Threads : o # th => (At(o)' <=> At(o))
      /\ pc[th] # "idle" => trans[th] \in Trans
  BY CallShape
<1>2. Succeeded(t) <=> outcome[t] = "done" \/ \E o \in Threads : At(o)
  BY DEF Succeeded
<1>3. Succeeded(t)' <=> outcome'[t] = "done" \/ \E o \in Threads : At(o)'
  BY DEF Succeeded
<1>4. ASSUME ~At(th), ~At(th)', outcome'[t] = "done" <=> outcome[t] = "done"
      PROVE  Succeeded(t)' <=> Succeeded(t)
  <2> HIDE DEF At
  <2> QED
    BY <1>1, <1>2, <1>3, <1>4
<1>5. CASE \E x \in Trans : ExecuteTask(th, x) \/ DirectCommitTransaction(th, x)
  <2>1. PICK x \in Trans : ExecuteTask(th, x) \/ DirectCommitTransaction(th, x)
    BY <1>5
  <2>2. /\ pc[th] = "idle" /\ outcome[x] = "pending" /\ outcome' = [outcome EXCEPT ![x] = "running"]
        /\ ~(pc'[th] = "return" /\ code'[th] = "ok")
    BY <2>1 DEF ExecuteTask, DirectCommitTransaction, Holds, Enters, TypeOK
  <2> QED
    BY <1>4, <2>2 DEF TypeOK
<1>6. CASE GetFreeConnection(th)
  <2>1. pc[th] = "free" /\ outcome' = outcome /\ ~(pc'[th] = "return" /\ code'[th] = "ok")
    BY <1>6 DEF GetFreeConnection, Enters, TypeOK
  <2> QED
    BY <1>4, <2>1
<1>7. CASE TaskDeadlocks(th) \/ LockAndRetry(th) \/ TaskRetries(th) \/ DirectRetries(th)
  <2>1. /\ ~(pc[th] = "return" /\ code[th] = "ok") /\ outcome' = outcome
        /\ pc'[th] \in {"retry", "begin"}
    BY <1>7 DEF TaskDeadlocks, LockAndRetry, TaskRetries, DirectRetries, TriesAgain, Goto, TypeOK
  <2> QED
    BY <1>4, <2>1
<1>8. ASSUME pc[th] = "return", NEW result \in {"done", "failed"}, Leaves(th, result),
             result = "done" <=> code[th] = "ok"
      PROVE  Succeeded(t)' <=> Succeeded(t)
  <2>1. /\ pc'[th] = "idle" /\ outcome' = [outcome EXCEPT ![trans[th]] = result]
        /\ outcome[trans[th]] = "running" /\ trans[th] \in Trans
    BY <1>1, <1>8 DEF Leaves, Goto, TypeOK, Owners
  <2>2. CASE trans[th] = t
    <3>1. \A o \in Threads : o # th => ~At(o)
      BY <2>1, <2>2 DEF Owners
    <3>2. At(th) <=> result = "done"
      BY <1>8, <2>2
    <3>3. ~At(th)' /\ outcome'[t] = result
      BY <2>1, <2>2 DEF TypeOK
    <3> HIDE DEF At
    <3> QED
      BY <1>1, <1>2, <1>3, <2>1, <2>2, <3>1, <3>2, <3>3
  <2>3. CASE trans[th] # t
    <3>1. ~At(th) /\ ~At(th)' /\ outcome'[t] = outcome[t]
      BY <2>1, <2>3 DEF TypeOK
    <3> QED
      BY <1>4, <3>1
  <2> QED
    BY <2>2, <2>3
<1>9. CASE TaskSucceeds(th) \/ TaskFails(th) \/ DirectReturns(th)
  BY <1>8, <1>9 DEF TaskSucceeds, TaskFails, DirectReturns
<1> QED
  BY <1>5, <1>6, <1>7, <1>9 DEF CallStep

(* While no connection is lost and no COMMIT fails, only these three occur. *)
LEMMA NoFault ==
  ASSUME TypeOK, Undisturbed, NEW th \in Threads, ExecuteTransaction(th), faults' = 0, conn[th] \in Connections
  PROVE  faults = 0 /\ session[conn[th]].up /\ (Executes(th) \/ Refused(th) \/ Deadlocks(th))
<1>1. faults = 0
  <2>1. faults \in Nat /\ (faults' = faults \/ faults' = faults + 1)
    BY DEF TypeOK, ExecuteTransaction, Executes, Refused, Deadlocks, CommitFails, Reconnects, ReconnectRefused,
           ReconnectFails, Lost, NoConnection
  <2> QED
    BY <2>1
<1>2. session[conn[th]].up
  BY <1>1 DEF Undisturbed
<1> QED
  BY <1>1, <1>2 DEF ExecuteTransaction, CommitFails, Reconnects, ReconnectRefused, ReconnectFails, Lost, NoConnection

(* A statement of a run without faults writes the next entry, or commits them all. *)
LEMMA StatementKeepsUndisturbed ==
  ASSUME TypeOK, AtStatement, Owners, Results, Sessions, Undisturbed,
         NEW th \in Threads, ExecuteTransaction(th)
  PROVE  Undisturbed'
<1> SUFFICES ASSUME faults' = 0
             PROVE  /\ \A c \in Connections : session'[c].up
                    /\ \A o \in Threads : Progress(o)'
                    /\ \A t \in Trans \ Empty : IF Succeeded(t)' THEN WrittenOnce(t)' ELSE Unwritten(t)'
  BY DEF Undisturbed
<1> DEFINE s == session[conn[th]]
           u == session'[conn[th]]
<1>0. PICK t \in Trans : t = trans[th]
  <2>1. Sends(th)
    BY StatementStep
  <2> QED
    BY <2>1, SentEffect
<1>1. /\ Sends(th) /\ trans' = trans /\ conn' = conn /\ outcome' = outcome
      /\ \A o \in Threads : o # th => pc'[o] = pc[o] /\ code'[o] = code[o] /\ next'[o] = next[o]
      /\ \A c \in Connections : c # conn[th] => session'[c] = session[c]
  BY StatementStep
<1>2. /\ s \in Session /\ conn[th] \in Connections
      /\ <<t, next[th]>> \in Trans \X (1 .. Statements + 1)
      /\ Sent(th).session.up = s.up
      /\ pc[th] = "begin" => /\ Sent(th).session.inTransaction /\ Sent(th).session.work = <<>>
                             /\ Sent(th).log = log \o s.work
      /\ pc[th] = "write" /\ s.inTransaction =>
           /\ Sent(th).session.inTransaction /\ Sent(th).log = log
           /\ Sent(th).session.work = Append(s.work, <<t, next[th]>>)
      /\ pc[th] = "commit" => Sent(th).log = log \o s.work
      /\ pc[th] = "rollback" => Sent(th).log = log
  BY <1>0, <1>1, SentEffect
<1>3. /\ faults = 0 /\ s.up /\ (Executes(th) \/ Refused(th) \/ Deadlocks(th))
      /\ \A c \in Connections : session[c].up
      /\ \A o \in Threads : Progress(o)
      /\ \A x \in Trans \ Empty : IF Succeeded(x) THEN WrittenOnce(x) ELSE Unwritten(x)
  BY <1>2, NoFault DEF Undisturbed
<1>4. t \notin Empty
  BY <1>0, <1>1 DEF Results, Sends, Active
<1>5. s.work \in Seq(Entries) /\ log \in Seq(Entries) /\ Len(s.work) \in Nat
  BY <1>2, LenProperties DEF Session, TypeOK
<1>6. ASSUME u.up, Progress(th)',
             \A x \in Trans \ Empty : IF Succeeded(x)' THEN WrittenOnce(x)' ELSE Unwritten(x)'
      PROVE  /\ \A c \in Connections : session'[c].up
             /\ \A o \in Threads : Progress(o)'
             /\ \A x \in Trans \ Empty : IF Succeeded(x)' THEN WrittenOnce(x)' ELSE Unwritten(x)'
  <2>1. ASSUME NEW o \in Threads, o # th PROVE Progress(o)'
    <3>1. /\ pc'[o] = pc[o] /\ code'[o] = code[o] /\ next'[o] = next[o] /\ trans'[o] = trans[o]
          /\ conn'[o] = conn[o] /\ Progress(o)
      BY <1>1, <1>3, <2>1
    <3>2. CASE pc[o] \in {"write", "commit"}
      <4>1. conn[o] # conn[th]
        BY <1>1, <2>1, <3>2, Exclusive DEF Active, Sends
      <4>2. session'[conn[o]] = session[conn[o]]
        BY <1>1, <4>1 DEF TypeOK
      <4> QED
        BY <3>1, <4>2 DEF Progress, Work
    <3>3. CASE pc[o] \notin {"write", "commit"}
      BY <3>1, <3>3 DEF Progress
    <3> QED
      BY <3>2, <3>3
  <2> QED
    BY <1>1, <1>3, <1>6, <2>1
<1>7. ASSUME ~(pc'[th] = "return" /\ code'[th] = "ok"), log' = log
      PROVE  \A x \in Trans \ Empty : IF Succeeded(x)' THEN WrittenOnce(x)' ELSE Unwritten(x)'
  <2>1. ASSUME NEW x \in Trans \ Empty
        PROVE  /\ Succeeded(x)' <=> Succeeded(x)
               /\ WrittenOnce(x)' <=> WrittenOnce(x)
               /\ Unwritten(x)' <=> Unwritten(x)
    BY <1>1, <1>7 DEF Succeeded, Sends, WrittenOnce, Unwritten
  <2> QED
    BY <1>3, <2>1
<1>8. CASE Executes(th)
  <2>1. u = Sent(th).session /\ log' = Sent(th).log /\ Proceed(th)
    BY <1>1, <1>8, Follows DEF Executes
  <2>2. u.up
    BY <1>2, <1>3, <2>1
  <2>3. /\ pc[th] = "begin" => pc'[th] = "write" /\ next'[th] = next[th]
        /\ pc[th] = "write" => /\ pc'[th] = IF next[th] < Statements THEN "write" ELSE "commit"
                               /\ next'[th] = next[th] + 1
        /\ pc[th] \in {"commit", "rollback"} => pc'[th] = "return"
        /\ code' = code
    BY <1>1, <2>1, Follows
  <2>4. CASE pc[th] = "begin"
    <3>1. s.work = <<>>
      <4> SUFFICES ASSUME s.work # <<>> PROVE FALSE
        OBVIOUS
      <4>1. PICK o \in Threads : Uses(o, conn[th])
        BY <1>2 DEF Sessions, SessionsAreClean
      <4> QED
        BY <2>4, <4>1, Exclusive DEF Uses, Active
    <3>2. log' = log
      BY <1>2, <1>5, <2>1, <2>4, <3>1, ConcatEmptySeq
    <3>3. next'[th] = 1 /\ pc'[th] = "write" /\ code'[th] = "ok" /\ trans'[th] = t /\ conn'[th] = conn[th]
      BY <1>0, <1>1, <1>3, <2>3, <2>4 DEF AtStatement, Progress
    <3>4. u.inTransaction /\ u.work = <<>>
      BY <1>2, <2>1, <2>4
    <3>5. Progress(th)'
      <4>1. Len(u.work) = 0 /\ next'[th] - 1 = 0 /\ 1 .. 0 = {}
        BY <3>3, <3>4
      <4> HIDE DEF u
      <4>2. Work(th, next[th] - 1)'
        BY <3>3, <4>1 DEF Work, u
      <4> QED
        BY <3>3, <3>4, <4>2 DEF Progress, u
    <3> QED
      BY <1>6, <1>7, <2>2, <3>2, <3>3, <3>5
  <2>5. CASE pc[th] = "write"
    <3>1. s.inTransaction /\ Len(s.work) = next[th] - 1 /\ \A i \in 1 .. next[th] - 1 : s.work[i] = <<t, i>>
      BY <1>0, <1>3, <2>5 DEF Progress, Work
    <3>2. u.inTransaction /\ log' = log /\ u.work = Append(s.work, <<t, next[th]>>)
      BY <1>2, <2>1, <2>5, <3>1
    <3>3. next[th] \in 1 .. Statements
      BY <2>5 DEF AtStatement, TypeOK
    <3>4. Len(u.work) = next[th] /\ \A i \in 1 .. next[th] : u.work[i] = <<t, i>>
      <4>1. <<t, next[th]>> \in Entries
        BY <3>3 DEF Entries
      <4>2. /\ Len(u.work) = Len(s.work) + 1
            /\ \A i \in 1 .. Len(s.work) : u.work[i] = s.work[i]
            /\ u.work[Len(s.work) + 1] = <<t, next[th]>>
        <5> DEFINE w == s.work
                   x == <<t, next[th]>>
        <5>1. w \in Seq(Entries) /\ x \in Entries
          BY <1>5, <4>1
        <5> HIDE DEF w, x
        <5>2. /\ Len(Append(w, x)) = Len(w) + 1 /\ Append(w, x)[Len(w) + 1] = x
              /\ \A i \in 1 .. Len(w) : Append(w, x)[i] = w[i]
          BY ONLY <5>1, AppendProperties
        <5>3. u.work = Append(w, x)
          BY <3>2 DEF w, x
        <5> HIDE DEF u
        <5> QED
          BY <5>2, <5>3 DEF w, x
      <4>3. Len(s.work) + 1 = next[th]
        BY <3>1, <3>3
      <4> HIDE DEF s, u
      <4>4. \A i \in 1 .. next[th] : i \in 1 .. next[th] - 1 \/ i = next[th]
        BY <3>3
      <4> QED
        BY <3>1, <4>2, <4>3, <4>4
    <3>5. /\ next'[th] = next[th] + 1 /\ code'[th] = "ok" /\ trans'[th] = t /\ conn'[th] = conn[th]
          /\ pc'[th] = "write" \/ (pc'[th] = "commit" /\ next[th] = Statements)
      BY <1>0, <1>1, <1>3, <2>3, <2>5, <3>3 DEF Progress
    <3>6. Len(u.work) = next'[th] - 1 /\ \A i \in 1 .. next'[th] - 1 : u.work[i] = <<t, i>>
      BY <3>3, <3>4, <3>5
    <3>7. Progress(th)'
      <4> HIDE DEF s, u
      <4>1. session'[conn'[th]] = u /\ trans'[th] = t
        BY <3>5 DEF u
      <4>2. CASE pc'[th] = "write"
        BY <3>2, <3>5, <3>6, <4>1, <4>2 DEF Progress, Work
      <4>3. CASE pc'[th] = "commit"
        BY <3>2, <3>4, <3>5, <4>1, <4>3 DEF Progress, Work
      <4> QED
        BY <3>5, <4>2, <4>3
    <3> QED
      BY <1>6, <1>7, <2>2, <3>2, <3>5, <3>7
  <2>6. CASE pc[th] = "commit"
    <3>1. Len(s.work) = Statements /\ \A i \in 1 .. Statements : s.work[i] = <<t, i>>
      BY <1>0, <1>3, <2>6 DEF Progress, Work
    <3>2. log' = log \o s.work /\ pc'[th] = "return" /\ code'[th] = "ok"
      BY <1>2, <1>3, <2>1, <2>3, <2>6 DEF Progress
    <3>3. /\ Unwritten(t) => WrittenOnce(t)'
          /\ \A o \in Trans \ {t} : /\ Unwritten(o) => Unwritten(o)'
                                    /\ WrittenOnce(o) => WrittenOnce(o)'
      <4>1. PICK work \in Seq(Entries) : work = s.work
        BY <1>5
      <4>2. Len(work) = Statements /\ (\A i \in 1 .. Statements : work[i] = <<t, i>>) /\ log' = log \o work
        BY <3>1, <3>2, <4>1
      <4> QED
        BY <1>5, <4>2, Committed
    <3>4. Succeeded(t)' /\ ~Succeeded(t)
      <4>1. outcome[t] = "running" /\ \A o \in Threads : trans[o] = t => o = th
        BY <1>0 DEF Owners, TypeOK
      <4> QED
        BY <1>0, <1>1, <2>6, <3>2, <4>1 DEF Succeeded
    <3>5. \A x \in Trans \ {t} : Succeeded(x)' <=> Succeeded(x)
      BY <1>0, <1>1 DEF Succeeded
    <3>6. \A x \in Trans \ Empty : IF Succeeded(x)' THEN WrittenOnce(x)' ELSE Unwritten(x)'
      <4>1. ASSUME NEW x \in Trans \ Empty, x # t
            PROVE  IF Succeeded(x)' THEN WrittenOnce(x)' ELSE Unwritten(x)'
        BY <1>3, <3>3, <3>5, <4>1
      <4>2. WrittenOnce(t)' /\ Succeeded(t)'
        BY <1>2, <1>3, <1>4, <3>3, <3>4
      <4> QED
        BY <4>1, <4>2
    <3>7. Progress(th)'
      BY <3>2 DEF Progress
    <3> QED
      BY <1>6, <2>2, <3>6, <3>7
  <2>7. CASE pc[th] = "rollback"
    <3>1. log' = log /\ code'[th] # "ok" /\ pc'[th] = "return"
      BY <1>2, <1>3, <2>1, <2>3, <2>7 DEF Progress
    <3>2. Progress(th)'
      BY <3>1 DEF Progress
    <3> QED
      BY <1>6, <1>7, <2>2, <3>1, <3>2
  <2> QED
    BY <1>1, <2>4, <2>5, <2>6, <2>7 DEF Sends
<1>9. CASE Refused(th) \/ Deadlocks(th)
  <2>1. /\ u.up /\ log' = log
        /\ pc'[th] = "rollback" /\ code'[th] # "ok"
    <3>1. CASE Refused(th)
      <4>1. u = s /\ log' = log /\ Fails(th, "error")
        BY <3>1 DEF Refused, serverVars
      <4> QED
        BY <1>1, <1>3, <4>1, Follows
    <3>2. CASE Deadlocks(th)
      <4>1. u = Fresh /\ log' = log /\ Fails(th, "deadlock")
        BY <1>1, <3>2, Follows DEF Deadlocks
      <4> QED
        BY <1>1, <4>1, Follows DEF Fresh
    <3> QED
      BY <1>9, <3>1, <3>2
  <2>2. Progress(th)'
    BY <2>1 DEF Progress
  <2> QED
    BY <1>6, <1>7, <2>1, <2>2
<1> QED
  BY <1>3, <1>8, <1>9

(* A step outside a statement keeps the log and, with its result, what was promised of it. *)
LEMMA CallKeepsUndisturbed ==
  ASSUME TypeOK, AtStatement, Owners, Results, Undisturbed, NEW th \in Threads, CallStep(th)
  PROVE  Undisturbed'
<1>1. /\ UNCHANGED <<session, log, faults>>
      /\ \A o \in Threads : o # th => /\ pc'[o] = pc[o] /\ code'[o] = code[o] /\ next'[o] = next[o]
                                      /\ trans'[o] = trans[o] /\ conn'[o] = conn[o]
      /\ pc'[th] \in {"idle", "free", "begin", "return", "retry"}
      /\ pc'[th] # "begin" \/ (next'[th] = 1 /\ code'[th] = "ok")
  BY CallShape
<1> SUFFICES ASSUME faults = 0
             PROVE  /\ \A c \in Connections : session'[c].up
                    /\ \A o \in Threads : Progress(o)'
                    /\ \A t \in Trans \ Empty : IF Succeeded(t)' THEN WrittenOnce(t)' ELSE Unwritten(t)'
  BY <1>1 DEF Undisturbed
<1>2. \A c \in Connections : session'[c].up
  BY <1>1 DEF Undisturbed
<1>3. ASSUME NEW o \in Threads PROVE Progress(o)'
  <2>1. CASE o = th
    BY <1>1, <2>1 DEF Progress
  <2>2. CASE o # th
    <3>1. Progress(o)
      BY DEF Undisturbed
    <3> QED
      BY <1>1, <2>2, <3>1 DEF Progress, Work
  <2> QED
    BY <2>1, <2>2
<1>4. ASSUME NEW t \in Trans \ Empty PROVE IF Succeeded(t)' THEN WrittenOnce(t)' ELSE Unwritten(t)'
  <2>1. Succeeded(t)' <=> Succeeded(t)
    BY CallKeepsResults
  <2>2. /\ WrittenOnce(t)' <=> WrittenOnce(t)
        /\ Unwritten(t)' <=> Unwritten(t)
    BY <1>1 DEF WrittenOnce, Unwritten
  <2>3. IF Succeeded(t) THEN WrittenOnce(t) ELSE Unwritten(t)
    BY DEF Undisturbed
  <2> QED
    BY <2>1, <2>2, <2>3
<1> QED
  BY <1>2, <1>3, <1>4

-----------------------------------------------------------------------------
(* The inductive invariant *)

(* IInv holds at first, is kept by every step, and so holds throughout. *)
LEMMA InitInvariant == Init => IInv
<1> SUFFICES ASSUME Init PROVE IInv
  OBVIOUS
<1>0. Init
  OBVIOUS
<1>1. 0 \in SyncConns
  BY DEF SyncConns
<1>2. Fresh \in Session /\ Fresh.up /\ ~Fresh.inTransaction /\ Fresh.work = <<>> /\ <<>> \in Seq(Entries)
  <2>1. Fresh.up /\ ~Fresh.inTransaction /\ Fresh.work = <<>>
    BY DEF Fresh
  <2> QED
    BY <2>1, FreshAndDown
<1>3. TypeOK
  <2>1. conn \in [Threads -> Connections]
    BY <1>1 DEF Init
  <2>2. session \in [Connections -> Session]
    BY <1>2 DEF Init
  <2>3. log \in Seq(Entries) /\ outcome \in [Trans -> {"pending", "running", "done", "failed"}]
        /\ faults \in Nat /\ aborted \in BOOLEAN /\ deadlockLock \in Workers \cup {NoThread}
        /\ mutex \in [SyncConns -> Callers \cup {NoThread}]
    BY <1>2 DEF Init
  <2>4. /\ pc \in [Threads -> {"idle", "free", "begin", "write", "commit", "rollback", "return", "retry"}]
        /\ trans \in [Threads -> Trans \cup {NoTrans}] /\ next \in [Threads -> 1 .. Statements + 1]
        /\ code \in [Threads -> {"ok", "error", "deadlock"}] /\ tries \in [Threads -> Nat]
    BY DEF Init
  <2> QED
    BY <2>1, <2>2, <2>3, <2>4 DEF TypeOK, Session
<1>4. AtStatement
  BY DEF Init, AtStatement
<1>5. Owners
  BY <1>1 DEF Init, Owners, Active
<1>6. RetryLock
  BY DEF Init, RetryLock
<1>7. Results
  BY DEF Init, Results, Active
<1>8. Sessions
  BY <1>2 DEF Init, Sessions, SessionsAreClean
<1>9. Undisturbed
  <2>1. \A c \in Connections : session[c].up
    BY <1>2 DEF Init
  <2>2. \A th \in Threads : Progress(th)
    BY DEF Init, Progress
  <2>3. \A t \in Trans : ~Succeeded(t) /\ Unwritten(t)
    <3>1. DOMAIN log = {}
      BY <1>2, Elements DEF Init
    <3> QED
      BY <3>1 DEF Init, Succeeded, Unwritten
  <2> QED
    BY <2>1, <2>2, <2>3 DEF Undisturbed
<1> QED
  BY <1>3, <1>4, <1>5, <1>6, <1>7, <1>8, <1>9 DEF IInv

LEMMA StepInvariant == IInv /\ [Next]_vars => IInv'
<1> SUFFICES ASSUME IInv, [Next]_vars PROVE IInv'
  OBVIOUS
<1>1. ASSUME NEW th \in Threads, ExecuteTransaction(th) PROVE IInv'
  BY <1>1, StatementStep, StatementKeepsOwners, StatementKeepsSessions, StatementKeepsUndisturbed DEF IInv
<1>2. ASSUME NEW th \in Threads, CallStep(th) PROVE IInv'
  BY <1>2, CallKeepsOwners, CallKeepsSessions, CallKeepsUndisturbed DEF IInv
<1>3. CASE \E w \in Workers : Worker(w)
  BY <1>1, <1>2, <1>3 DEF Worker, CallStep
<1>4. CASE \E th \in Callers : Caller(th)
  BY <1>1, <1>2, <1>4 DEF Caller, CallStep
<1>5. CASE UNCHANGED vars
  <2>1. UNCHANGED <<pc, trans, next, code, tries, conn, mutex, deadlockLock, session, log, outcome, faults, aborted>>
    BY <1>5 DEF vars, threadVars, serverVars
  <2>2. TypeOK' /\ AtStatement' /\ Owners' /\ RetryLock' /\ Results'
    BY <2>1 DEF IInv, TypeOK, AtStatement, Owners, Active, RetryLock, Results
  <2>3. Sessions'
    BY <2>1 DEF IInv, Sessions, SessionsAreClean, Uses
  <2>4. Undisturbed'
    <3>1. \A th \in Threads : Progress(th)' <=> Progress(th)
      BY <2>1 DEF Progress, Work
    <3>2. \A t \in Trans : /\ Succeeded(t)' <=> Succeeded(t)
                           /\ WrittenOnce(t)' <=> WrittenOnce(t)
                           /\ Unwritten(t)' <=> Unwritten(t)
      BY <2>1 DEF Succeeded, WrittenOnce, Unwritten
    <3> QED
      BY <2>1, <3>1, <3>2 DEF IInv, Undisturbed
  <2> QED
    BY <2>2, <2>3, <2>4 DEF IInv
<1> QED
  BY <1>3, <1>4, <1>5 DEF Next

LEMMA InductiveInvariant == Spec => []IInv
BY InitInvariant, StepInvariant, PTL DEF Spec

-----------------------------------------------------------------------------
(* The theorems *)

(* TypeOK: every variable keeps its type, whatever fails. *)
THEOREM TypeCorrect == Spec => []TypeOK
<1>1. IInv => TypeOK
  BY DEF IInv
<1> QED
  BY <1>1, InductiveInvariant, PTL

(* SessionsAreClean: ExecuteTransaction leaves no open transaction behind on *)
(* a connection, whichever statement failed and however the connection was    *)
(* lost or opened again.                                                     *)
THEOREM NothingLeftUncommitted == Spec => []SessionsAreClean
<1>1. IInv => SessionsAreClean
  BY DEF IInv, Sessions
<1> QED
  BY <1>1, InductiveInvariant, PTL

(* RetriersExcludeEachOther: of any number of workers one at a time retries.  *)
THEOREM OneRetrier == Spec => []RetriersExcludeEachOther
<1>1. IInv => RetriersExcludeEachOther
  BY DEF IInv, RetryLock, RetriersExcludeEachOther
<1> QED
  BY <1>1, InductiveInvariant, PTL

(* AllOrNothingWithoutFaults: as long as connections hold and COMMITs do not  *)
(* fail, a transaction that is reported done is in the log once and complete, *)
(* one that is reported failed has left nothing, after any retries.           *)
THEOREM WholeOrAbsent == Spec => []AllOrNothingWithoutFaults
<1>1. ASSUME IInv, faults = 0, NEW t \in Trans \ Empty
      PROVE  /\ Unwritten(t) \/ WrittenOnce(t)
             /\ outcome[t] = "done" => WrittenOnce(t)
             /\ outcome[t] \in {"pending", "failed"} => Unwritten(t)
  <2>1. IF Succeeded(t) THEN WrittenOnce(t) ELSE Unwritten(t)
    BY <1>1 DEF IInv, Undisturbed
  <2>2. outcome[t] = "done" => Succeeded(t)
    BY DEF Succeeded
  <2>3. outcome[t] \in {"pending", "failed"} => ~Succeeded(t)
    BY <1>1 DEF IInv, Succeeded, Owners
  <2> QED
    BY <2>1, <2>2, <2>3
<1>2. IInv => AllOrNothingWithoutFaults
  BY <1>1 DEF AllOrNothingWithoutFaults, AllOrNothing
<1> QED
  BY <1>2, InductiveInvariant, PTL
=============================================================================
