----------------------------- MODULE AuthServer -----------------------------
(***************************************************************************)
(* The life of the authentication server: main() starts the database, the  *)
(* realm list and the network, runs its io_context until a signal stops    *)
(* it, and the destructors of its handles stop everything in the opposite  *)
(* order.  The network thread runs an io_context of its own.               *)
(*                                                                         *)
(* Composed of the asynchronous half of the login database, which is what  *)
(* AsyncOperations promises, its one synchronous connection, and the       *)
(* sessions, of which only what matters to the two threads is kept.        *)
(***************************************************************************)
EXTENDS Integers, Sequences, FiniteSets

CONSTANTS
  Sessions,    (* the connections clients make                               *)
  Server,      (* whom the operations belong to that are no session's        *)
  NoOne,
  MaxReads,    (* bound: completed reads of a session                        *)
  MaxTimers    (* bound: timers of the main thread that fire                 *)

ASSUME ServerAssumption ==
  /\ Server \notin Sessions /\ NoOne \notin Sessions \cup {Server}
  /\ MaxReads \in Nat /\ MaxTimers \in Nat

VARIABLES
  main,        (* where the main thread is                                   *)
  accepted,    (* the session it has started but not yet handed over         *)
  network,     (* where the network thread is                                *)
  current,     (* the session it is busy with                                *)
  todo,        (* the sessions this Update has still to visit                *)
  newSockets,  (* NetworkThread::_newSockets                                 *)
  sockets,     (* NetworkThread::_sockets                                    *)
  stopped,     (* NetworkThread::_stopped                                    *)
  ioStopped,   (* its io_context has been stopped                            *)
  stage,       (* what each session does                                     *)
  reads,       (* and how many of its reads have completed                   *)
  synch,       (* who has locked the synchronous connection                  *)
  timers, updates,  (* what timers have done                                 *)
  pending, started, done, dropped, open   (* see AsyncOperations             *)

Ops  == [by : Sessions, nr : 0 .. MaxReads] \cup [by : {Server}, nr : 0 .. MaxTimers]
Pool == INSTANCE AsyncOperations

poolVars    == <<pending, started, done, dropped, open>>
sessionVars == <<stage, reads>>
listVars    == <<newSockets, sockets>>
stopVars    == <<stopped, ioStopped>>
networkVars == <<network, current, todo>>
timerVars   == <<timers, updates>>
vars == <<main, accepted, networkVars, listVars, stopVars, sessionVars, synch,
          timerVars, poolVars>>

Init ==
  /\ main = "StartDB" /\ accepted = NoOne
  /\ network = "off" /\ current = NoOne /\ todo = {}
  /\ newSockets = {} /\ sockets = {}
  /\ stopped = FALSE /\ ioStopped = FALSE
  /\ stage = [s \in Sessions |-> "none"] /\ reads = [s \in Sessions |-> 0]
  /\ synch = NoOne
  /\ timers = 0 /\ updates = 0
  /\ Pool!Init

Op(owner, n) == [by |-> owner, nr |-> n]
At(label)    == main = label
Goto(label)  == main' = label

-----------------------------------------------------------------------------
(* The main thread: starting *)

StartDB ==
  /\ At("StartDB")
  /\ \/ Pool!Open /\ Goto("Secrets")
     \/ Goto("exited") /\ UNCHANGED poolVars
  /\ UNCHANGED <<accepted, networkVars, listVars, stopVars, sessionVars, synch,
                 timerVars>>

(* SecretMgr::Initialize: the master key is the one in use, or it has changed *)
(* and a transaction that re-encrypts the secrets is enqueued, or it cannot be *)
(* loaded.                                                                    *)
SecretsInitialize ==
  /\ At("Secrets")
  /\ \/ Goto("GetFreeConnection") /\ UNCHANGED poolVars
     \/ Goto("GetFreeConnection") /\ Pool!Enqueue(Op(Server, 0))
     \/ Goto("aborted") /\ UNCHANGED poolVars
  /\ UNCHANGED <<accepted, networkVars, listVars, stopVars, sessionVars, synch, timerVars>>

(* RealmList::UpdateRealms, at first from RealmList::Initialize *)
LockForRealms ==
  /\ At("GetFreeConnection") /\ synch = NoOne
  /\ synch' = Server
  /\ Goto("Query")
  /\ UNCHANGED <<accepted, networkVars, listVars, stopVars, sessionVars, timerVars, poolVars>>

QueryRealms ==
  /\ At("Query")
  /\ synch' = NoOne
  /\ Goto("ChangeRealms")
  /\ UNCHANGED <<accepted, networkVars, listVars, stopVars, sessionVars, timerVars, poolVars>>

(* _realms has been cleared and is filled again.  A server that starts needs  *)
(* a realm.                                                                   *)
RealmsChanged ==
  /\ At("ChangeRealms")
  /\ IF network = "off" THEN Goto("StartNetwork") \/ Goto("StopDB") ELSE Goto("run")
  /\ UNCHANGED <<accepted, networkVars, listVars, stopVars, sessionVars, synch, timerVars, poolVars>>

StartNetwork ==
  /\ At("StartNetwork")
  /\ \/ Goto("run") /\ network' = "idle"
     \/ Goto("StopDB") /\ UNCHANGED network
  /\ UNCHANGED <<accepted, current, todo, listVars, stopVars, sessionVars, synch, timerVars, poolVars>>

-----------------------------------------------------------------------------
(* The main thread: the handlers of its io_context *)

(* Mutant: the session is handed over before it is started. *)
AcceptListedFirst(s) ==
  /\ At("run") /\ stage[s] = "none"
  /\ accepted' = s
  /\ stage' = [stage EXCEPT ![s] = "connecting"]
  /\ Pool!Enqueue(Op(s, 0))
  /\ newSockets' = newSockets \cup {s}
  /\ Goto("AddSocket")
  /\ UNCHANGED <<networkVars, sockets, stopVars, reads, synch, timerVars>>

(* OnSocketOpen: AuthSession::Start asks for the bans of the address, ... *)
Accept(s) ==
  /\ At("run") /\ stage[s] = "none"
  /\ accepted' = s
  /\ stage' = [stage EXCEPT ![s] = "connecting"]
  /\ Pool!Enqueue(Op(s, 0))
  /\ Goto("AddSocket")
  /\ UNCHANGED <<networkVars, listVars, stopVars, reads, synch, timerVars>>

(* ... and the session is handed to the network thread. *)
AddSocket ==
  /\ At("AddSocket")
  /\ newSockets' = newSockets \cup {accepted}
  /\ accepted' = NoOne
  /\ Goto("run")
  /\ UNCHANGED <<networkVars, sockets, stopVars, sessionVars, synch, timerVars, poolVars>>

MayFire == timers + updates < MaxTimers

UpdateRealms ==
  /\ At("run") /\ MayFire
  /\ updates' = updates + 1
  /\ Goto("GetFreeConnection")
  /\ UNCHANGED <<accepted, networkVars, listVars, stopVars, sessionVars, synch, timers,
                 poolVars>>

(* DatabaseWorkerPool::KeepAlive: a synchronous connection in use needs no    *)
(* ping.                                                                      *)
KeepAlive ==
  /\ At("run") /\ MayFire
  /\ IF synch = NoOne THEN synch' = Server /\ Goto("Ping")
                      ELSE UNCHANGED synch /\ Goto("Enqueue")
  /\ UNCHANGED <<accepted, networkVars, listVars, stopVars, sessionVars, timerVars, poolVars>>

Ping ==
  /\ At("Ping")
  /\ synch' = NoOne
  /\ Goto("Enqueue")
  /\ UNCHANGED <<accepted, networkVars, listVars, stopVars, sessionVars, timerVars, poolVars>>

EnqueueNext ==
  /\ timers' = timers + 1
  /\ Pool!Enqueue(Op(Server, timers + 1))
  /\ UNCHANGED <<accepted, networkVars, listVars, stopVars, sessionVars, synch, updates>>

(* The ping of the asynchronous connections, one operation for all of them. *)
EnqueuePing == At("Enqueue") /\ Goto("run") /\ EnqueueNext

(* BanExpiryHandler: its two statements count as one operation. *)
BanExpiry == At("run") /\ MayFire /\ Goto("run") /\ EnqueueNext

(* SIGINT, SIGTERM: ioContext->stop(), and run returns. *)
SignalHandler ==
  /\ At("run")
  /\ Goto("Stop")
  /\ UNCHANGED <<accepted, networkVars, listVars, stopVars, sessionVars, synch, timerVars, poolVars>>

-----------------------------------------------------------------------------
(* The main thread: the destructors of its handles *)

(* StopNetwork calls NetworkThread::Stop, ... *)
Stop ==
  /\ At("Stop")
  /\ stopped' = TRUE
  /\ Goto("StopIoContext")
  /\ UNCHANGED <<accepted, networkVars, listVars, ioStopped, sessionVars, synch, timerVars, poolVars>>

(* Mutant: only the timer stops. *)
StopTimerOnly ==
  /\ At("StopIoContext")
  /\ Goto("Wait")
  /\ UNCHANGED <<accepted, networkVars, listVars, stopVars, sessionVars, synch, timerVars, poolVars>>

StopIoContext ==
  /\ At("StopIoContext")
  /\ ioStopped' = TRUE
  /\ Goto("Wait")
  /\ UNCHANGED <<accepted, networkVars, listVars, stopped, sessionVars, synch, timerVars, poolVars>>

(* Mutant: StopNetwork does not wait for the thread. *)
DoNotWait ==
  /\ At("Wait")
  /\ Goto("StopDB")
  /\ UNCHANGED <<accepted, networkVars, listVars, stopVars, sessionVars, synch, timerVars, poolVars>>

(* ... and waits for the thread to end. *)
Wait ==
  /\ At("Wait") /\ network = "done"
  /\ Goto("StopDB")
  /\ UNCHANGED <<accepted, networkVars, listVars, stopVars, sessionVars, synch, timerVars, poolVars>>

(* The pool is closed, which ends with its last worker. *)
StopDB ==
  /\ At("StopDB")
  /\ Pool!Close
  /\ Goto("Close")
  /\ UNCHANGED <<accepted, networkVars, listVars, stopVars, sessionVars, synch, timerVars>>

Exit ==
  /\ At("Close") /\ pending = <<>> /\ started = {}
  /\ Goto("exited")
  /\ UNCHANGED <<accepted, networkVars, listVars, stopVars, sessionVars, synch, timerVars, poolVars>>

-----------------------------------------------------------------------------
(* The network thread *)

Idle == network = "idle" /\ ~ioStopped

(* Mutant: the new sockets take the place of the others. *)
UpdateNewOnly ==
  /\ Idle /\ ~stopped
  /\ sockets' = IF newSockets = {} THEN sockets ELSE newSockets
  /\ newSockets' = {}
  /\ todo' = sockets'
  /\ network' = "update"
  /\ UNCHANGED <<main, accepted, current, stopVars, sessionVars, synch, timerVars, poolVars>>

(* NetworkThread::Update, which starts its timer anew: AddNewSockets, and then *)
(* a visit to every socket.                                                   *)
Update ==
  /\ Idle /\ ~stopped
  /\ sockets' = sockets \cup newSockets
  /\ newSockets' = {}
  /\ todo' = sockets'
  /\ network' = "update"
  /\ UNCHANGED <<main, accepted, current, stopVars, sessionVars, synch, timerVars, poolVars>>

UpdateEnds ==
  /\ network = "update" /\ todo = {}
  /\ network' = "idle"
  /\ UNCHANGED <<main, accepted, current, todo, listVars, stopVars, sessionVars, synch,
                 timerVars, poolVars>>

Visits(s) == network = "update" /\ s \in todo
Visit(s)  == Visits(s) /\ todo' = todo \ {s}
Answered(s) == Op(s, reads[s]) \in done

(* The session is closed, ... *)
DropSocket(s) ==
  /\ Visit(s) /\ stage[s] = "closed"
  /\ sockets' = sockets \ {s}
  /\ stage' = [stage EXCEPT ![s] = "gone"]
  /\ UNCHANGED <<main, accepted, network, current, newSockets, stopVars, reads, synch,
                 timerVars, poolVars>>

(* ... or has no callback to run, ... *)
NothingReady(s) ==
  /\ Visit(s)
  /\ stage[s] \in {"reading", "refused"} \/ (stage[s] \in {"connecting", "waiting"} /\ ~Answered(s))
  /\ UNCHANGED <<main, accepted, network, current, listVars, stopVars, sessionVars, synch,
                 timerVars, poolVars>>

(* ... or it runs CheckIpCallback, which does not read from a banned address,  *)
CheckIpCallback(s) ==
  /\ Visit(s) /\ stage[s] = "connecting" /\ Answered(s)
  /\ \E next \in {"reading", "refused"} : stage' = [stage EXCEPT ![s] = next]
  /\ UNCHANGED <<main, accepted, network, current, listVars, stopVars, reads, synch,
                 timerVars, poolVars>>

(* or RealmListCallback, which goes through _realms, or another callback.      *)
RealmListCallback(s) ==
  /\ Visit(s) /\ stage[s] = "waiting" /\ Answered(s)
  /\ network' = "ListRealms" /\ current' = s
  /\ UNCHANGED <<main, accepted, listVars, stopVars, sessionVars, synch, timerVars, poolVars>>

RealmsListed ==
  /\ network = "ListRealms"
  /\ stage' = [stage EXCEPT ![current] = "reading"]
  /\ network' = "update" /\ current' = NoOne
  /\ UNCHANGED <<main, accepted, todo, listVars, stopVars, reads, synch, timerVars, poolVars>>

(* ReadHandlerInternal: the read fails or the packet is not acceptable, ... *)
ReadOutstanding(s) == s \in sockets /\ stage[s] \in {"reading", "waiting"}

ReadAndClose(s) ==
  /\ Idle /\ ReadOutstanding(s)
  /\ stage' = [stage EXCEPT ![s] = "closed"]
  /\ UNCHANGED <<main, accepted, networkVars, listVars, stopVars, reads, synch, timerVars, poolVars>>

(* ... or a command asks for a query, ... *)
ReadAndQuery(s) ==
  /\ Idle /\ s \in sockets /\ stage[s] = "reading" /\ reads[s] < MaxReads
  /\ reads' = [reads EXCEPT ![s] = @ + 1]
  /\ stage' = [stage EXCEPT ![s] = "waiting"]
  /\ Pool!Enqueue(Op(s, reads[s] + 1))
  /\ UNCHANGED <<main, accepted, networkVars, listVars, stopVars, synch, timerVars>>

(* ... or a proof is accepted, which needs the synchronous connection. *)
ReadAndExecute(s) ==
  /\ Idle /\ s \in sockets /\ stage[s] = "reading" /\ reads[s] < MaxReads
  /\ reads' = [reads EXCEPT ![s] = @ + 1]
  /\ network' = "GetFreeConnection" /\ current' = s
  /\ UNCHANGED <<main, accepted, todo, listVars, stopVars, stage, synch, timerVars, poolVars>>

LockForProof ==
  /\ network = "GetFreeConnection" /\ synch = NoOne
  /\ synch' = current
  /\ network' = "DirectExecute"
  /\ UNCHANGED <<main, accepted, current, todo, listVars, stopVars, sessionVars, timerVars, poolVars>>

DirectExecute ==
  /\ network = "DirectExecute"
  /\ synch' = NoOne
  /\ network' = "idle" /\ current' = NoOne
  /\ UNCHANGED <<main, accepted, todo, listVars, stopVars, sessionVars, timerVars, poolVars>>

(* run returns when the io_context is stopped or has nothing to wait for; the  *)
(* sockets are destroyed, those that a read still holds with the io_context.   *)
RunReturns ==
  /\ network = "idle"
  /\ ioStopped \/ (stopped /\ \A s \in Sessions : ~ReadOutstanding(s))
  /\ network' = "done"
  /\ newSockets' = {} /\ sockets' = {}
  /\ stage' = [s \in Sessions |-> IF s \in newSockets \cup sockets THEN "gone" ELSE stage[s]]
  /\ UNCHANGED <<main, accepted, current, todo, stopVars, reads, synch, timerVars, poolVars>>

-----------------------------------------------------------------------------
(* The workers of the login database *)

Workers ==
  /\ \/ Pool!Start \/ Pool!DropPending
     \/ \E o \in Ops : Pool!Finish(o) \/ Pool!DropStarted(o)
  /\ UNCHANGED <<main, accepted, networkVars, listVars, stopVars, sessionVars, synch,
                 timerVars>>

Starting == \/ StartDB \/ SecretsInitialize \/ LockForRealms \/ QueryRealms \/ RealmsChanged
            \/ StartNetwork
Handling == AddSocket \/ Ping \/ EnqueuePing
Stopping == Stop \/ StopIoContext \/ Wait \/ StopDB \/ Exit

(* What a client, a timer or a signal brings to the main thread *)
Event == (\E s \in Sessions : Accept(s)) \/ UpdateRealms \/ KeepAlive \/ BanExpiry \/ SignalHandler

(* What the network thread does by itself, and what a client brings to it *)
NetworkRuns ==
  \/ Update \/ UpdateEnds \/ RealmsListed \/ LockForProof \/ DirectExecute \/ RunReturns
  \/ \E s \in Sessions :
       DropSocket(s) \/ NothingReady(s) \/ CheckIpCallback(s) \/ RealmListCallback(s)

Read == \E s \in Sessions : ReadAndClose(s) \/ ReadAndQuery(s) \/ ReadAndExecute(s)

Network == NetworkRuns \/ Read
Main == Starting \/ Handling \/ Stopping
Next == Main \/ Event \/ Network \/ Workers

Spec == Init /\ [][Next]_vars

(* The threads run on; a client need not send, nor a timer or a signal come.  *)
FairSpec == Spec /\ WF_vars(Main) /\ WF_vars(NetworkRuns) /\ WF_vars(Workers)

-----------------------------------------------------------------------------
(* Properties *)

(* Every variable keeps its type. *)
TypeOK ==
  /\ main \in {"StartDB", "Secrets", "GetFreeConnection", "Query", "ChangeRealms",
               "StartNetwork", "run", "AddSocket", "Ping", "Enqueue", "Stop",
               "StopIoContext", "Wait", "StopDB", "Close", "exited", "aborted"}
  /\ accepted \in Sessions \cup {NoOne}
  /\ network \in {"off", "idle", "update", "ListRealms", "GetFreeConnection",
                  "DirectExecute", "done"}
  /\ current \in Sessions \cup {NoOne}
  /\ todo \subseteq sockets /\ newSockets \subseteq Sessions /\ sockets \subseteq Sessions
  /\ stopped \in BOOLEAN /\ ioStopped \in BOOLEAN
  /\ stage \in [Sessions -> {"none", "connecting", "reading", "waiting", "refused",
                             "closed", "gone"}]
  /\ reads \in [Sessions -> 0 .. MaxReads]
  /\ synch \in Sessions \cup {Server, NoOne}
  /\ timers \in 0 .. MaxTimers /\ updates \in 0 .. MaxTimers
  /\ open \in BOOLEAN

(* The login database is open as long as a thread may use it, and it discards  *)
(* no query whose session still waits: its future would throw.                 *)
DatabaseOutlivesItsUsers ==
  /\ ~open => network \in {"off", "done"} /\ synch = NoOne
  /\ \A o \in dropped : o.by \in Sessions => stage[o.by] = "gone"

(* What the main thread does with a session it does before the network thread  *)
(* may see it.                                                                 *)
OneThreadPerSession == accepted \notin newSockets \cup sockets

(* A connection that was accepted is answered, or dropped with the server.     *)
EveryClientIsServed == \A s \in Sessions : stage[s] = "connecting" ~> stage[s] # "connecting"

(* A signal ends the server, whatever clients do and wherever its threads are. *)
ServerStops == main = "Stop" ~> main = "exited"

(* The realm list does not change while a session goes through it.             *)
RealmsAreStable == ~(main = "ChangeRealms" /\ network = "ListRealms")

=============================================================================
