-------------------------- MODULE AuthServer_proofs --------------------------
(***************************************************************************)
(* Theorems about AuthServer, for every set of sessions and any number of  *)
(* reads and timers.  That the database outlives its users depends on how  *)
(* far each of the two threads has come, which the parts of IInv below     *)
(* relate to each other, to the lists of sockets and to the pool.          *)
(***************************************************************************)
EXTENDS AuthServer, TLAPS

-----------------------------------------------------------------------------
(* The inductive invariant *)

PoolTypes ==
  /\ pending \in Seq(Ops)
  /\ started \subseteq Ops /\ done \subseteq Ops /\ dropped \subseteq Ops

(* Where the main thread may be while the network thread lives, *)
Serving == {"run", "GetFreeConnection", "Query", "ChangeRealms", "AddSocket", "Ping",
            "Enqueue", "Stop", "StopIoContext", "Wait"}
(* and where it cannot be before the network thread is started. *)
Started == {"run", "AddSocket", "Ping", "Enqueue", "Stop", "StopIoContext", "Wait"}

Threads ==
  /\ open <=> main \notin {"StartDB", "Close", "exited"}
  /\ network \notin {"off", "done"} => main \in Serving
  /\ main \in Started => network # "off"
  /\ stopped => main \in {"StopIoContext", "Wait", "StopDB", "Close", "exited"}
  /\ ioStopped \/ network = "done" \/ main \in {"StopIoContext", "Wait"} => stopped
  /\ main \in {"Ping", "Enqueue"} => MayFire

Locks ==
  /\ synch = Server => main \in {"Query", "Ping"}
  /\ synch \in Sessions => network = "DirectExecute"

Alive(s) == stage[s] \notin {"none", "gone"}

Lists ==
  /\ todo = {} \/ network \in {"update", "ListRealms"}
  /\ accepted # NoOne <=> main = "AddSocket"
  /\ accepted \in Sessions => stage[accepted] # "none"
  /\ \A s \in newSockets \cup sockets : stage[s] # "none" /\ s # accepted
  /\ network = "ListRealms" => current \in sockets
  /\ \A s \in Sessions : Alive(s) => s \in newSockets \cup sockets \cup {accepted}
  /\ \A s \in Sessions : Alive(s) => network \notin {"off", "done"}

Owners ==
  /\ \A o \in Pool!Known : o.by \in Sessions => stage[o.by] # "none"
  /\ main = "StartDB" => Pool!Known = {}
  /\ open => dropped = {}

IInv == TypeOK /\ PoolTypes /\ Threads /\ Locks /\ Lists /\ Owners

-----------------------------------------------------------------------------
(* The pool *)

(* What an operation of Ops is, and to whom it belongs. *)
LEMMA OpsAre ==
  /\ \A s \in Sessions, n \in 0 .. MaxReads : Op(s, n) \in Ops /\ Op(s, n).by = s
  /\ \A n \in 0 .. MaxTimers : Op(Server, n) \in Ops /\ Op(Server, n).by = Server
  /\ \A o \in Ops : o.by \in Sessions \cup {Server}
BY DEF Ops, Op

(* The elements of a queue with one more element, ... *)
LEMMA AppendElements ==
  ASSUME NEW S, NEW q \in Seq(S), NEW e \in S
  PROVE  /\ Append(q, e) \in Seq(S)
         /\ {Append(q, e)[i] : i \in DOMAIN Append(q, e)} = {q[i] : i \in DOMAIN q} \cup {e}
<1>1. /\ Append(q, e) \in Seq(S) /\ DOMAIN Append(q, e) = 1 .. Len(q) + 1
      /\ DOMAIN q = 1 .. Len(q) /\ Len(q) \in Nat
      /\ \A i \in 1 .. Len(q) : Append(q, e)[i] = q[i]
      /\ Append(q, e)[Len(q) + 1] = e
  OBVIOUS
<1>2. 1 .. Len(q) + 1 = (1 .. Len(q)) \cup {Len(q) + 1}
  BY <1>1
<1> QED BY <1>1, <1>2

(* ... and without its first. *)
LEMMA TailElements ==
  ASSUME NEW S, NEW q \in Seq(S), q # << >>
  PROVE  /\ Tail(q) \in Seq(S) /\ Head(q) \in S
         /\ Head(q) \in {q[i] : i \in DOMAIN q}
         /\ {Tail(q)[i] : i \in DOMAIN Tail(q)} \subseteq {q[i] : i \in DOMAIN q}
<1>1. /\ Tail(q) \in Seq(S) /\ Head(q) \in S /\ Head(q) = q[1] /\ 1 \in DOMAIN q
      /\ DOMAIN Tail(q) = 1 .. Len(q) - 1 /\ DOMAIN q = 1 .. Len(q)
      /\ \A i \in 1 .. Len(q) - 1 : Tail(q)[i] = q[i + 1] /\ i + 1 \in 1 .. Len(q)
  OBVIOUS
<1> QED BY <1>1

(* An enqueued operation is known from then on; the pool was open. *)
LEMMA EnqueueAdds ==
  ASSUME PoolTypes, NEW o \in Ops, Pool!Enqueue(o)
  PROVE  /\ PoolTypes' /\ Pool!Known' = Pool!Known \cup {o}
         /\ open /\ open' /\ dropped' = dropped
<1>1. /\ pending' \in Seq(Ops)
      /\ {pending'[i] : i \in DOMAIN pending'} = {pending[i] : i \in DOMAIN pending} \cup {o}
  BY AppendElements DEF Pool!Enqueue, PoolTypes
<1> QED BY <1>1 DEF Pool!Enqueue, Pool!Known, PoolTypes

(* The workers make no operation known, and discard none while the pool is     *)
(* open.                                                                       *)
PoolMoves == \/ Pool!Start \/ Pool!DropPending
             \/ \E o \in Ops : Pool!Finish(o) \/ Pool!DropStarted(o)

(* Their steps, in terms of what is known. *)
LEMMA PoolMovesKnown ==
  ASSUME PoolTypes, PoolMoves
  PROVE  /\ PoolTypes' /\ Pool!Known' \subseteq Pool!Known
         /\ dropped \subseteq dropped' /\ dropped' \subseteq Pool!Known
         /\ open' = open /\ (open => dropped' = dropped)
<1>1. CASE Pool!Start
  BY <1>1, TailElements DEF Pool!Start, Pool!Known, PoolTypes
<1>2. CASE Pool!DropPending
  <2>1. \A i \in DOMAIN pending : pending[i] \in Ops
    BY DEF PoolTypes
  <2>2. pending' = << >> /\ << >> \in Seq(Ops) /\ DOMAIN << >> = {}
    BY <1>2 DEF Pool!DropPending
  <2> QED BY <1>2, <2>1, <2>2 DEF Pool!DropPending, Pool!Known, PoolTypes
<1>3. CASE \E o \in Ops : Pool!Finish(o) \/ Pool!DropStarted(o)
  BY <1>3 DEF Pool!Finish, Pool!DropStarted, Pool!Known, PoolTypes
<1> QED BY <1>1, <1>2, <1>3 DEF PoolMoves

(* What is said of the pool depends on its own variables only. *)
LEMMA PoolRests ==
  ASSUME UNCHANGED poolVars
  PROVE  /\ PoolTypes' = PoolTypes /\ Pool!Known' = Pool!Known
         /\ open' = open /\ dropped' = dropped
BY DEF poolVars, PoolTypes, Pool!Known

-----------------------------------------------------------------------------
(* Initially, and in every step *)

(* The invariant holds before the program starts. *)
LEMMA InitIInv == Init => IInv
<1> SUFFICES ASSUME Init PROVE IInv
  OBVIOUS
<1>1. pending = << >> /\ << >> \in Seq(Ops) /\ DOMAIN << >> = {}
  BY DEF Init, Pool!Init
<1>2. PoolTypes /\ Pool!Known = {}
  BY <1>1 DEF Init, Pool!Init, PoolTypes, Pool!Known
<1>3. TypeOK
  <2>1. 0 \in 0 .. MaxReads /\ 0 \in 0 .. MaxTimers
    BY ServerAssumption
  <2>2. /\ reads \in [Sessions -> 0 .. MaxReads]
        /\ timers \in 0 .. MaxTimers /\ updates \in 0 .. MaxTimers
    BY <2>1 DEF Init
  <2> QED BY <2>2 DEF Init, Pool!Init, TypeOK
<1>4. Threads /\ Locks
  BY ServerAssumption DEF Init, Pool!Init, Threads, Serving, Started, Locks
<1>5. Lists /\ Owners
  BY <1>2, ServerAssumption DEF Init, Pool!Init, Lists, Alive, Owners
<1> QED BY <1>2, <1>3, <1>4, <1>5 DEF IInv

(* The main thread keeps the invariant while it starts, ... *)
LEMMA StartingKeeps ==
  ASSUME IInv, Starting
  PROVE  IInv'
<1> USE ServerAssumption, OpsAre
<1>1. CASE StartDB
  <2>1. CASE Pool!Open
    <3>1. PoolTypes' /\ Pool!Known' = Pool!Known /\ dropped' = dropped /\ open' = TRUE
      BY <2>1 DEF IInv, PoolTypes, Pool!Known, Pool!Open
    <3>2. main = "StartDB" => dropped = {}
      BY DEF IInv, Owners, Pool!Known
    <3> QED BY <1>1, <2>1, <3>1, <3>2 DEF StartDB, Pool!Open, At, Goto,
      vars, poolVars, sessionVars, listVars, stopVars, networkVars, timerVars,
      IInv, TypeOK, Threads, MayFire, Serving, Started, Locks, Lists, Alive, Owners
  <2>2. CASE Goto("exited") /\ UNCHANGED poolVars
    BY <1>1, <2>2, PoolRests DEF StartDB, At, Goto,
      vars, poolVars, sessionVars, listVars, stopVars, networkVars, timerVars,
      IInv, TypeOK, Threads, MayFire, Serving, Started, Locks, Lists, Alive, Owners
  <2> QED BY <1>1, <2>1, <2>2 DEF StartDB
<1>2. CASE SecretsInitialize
  <2>1. CASE UNCHANGED poolVars
    BY <1>2, <2>1, PoolRests DEF SecretsInitialize, At, Goto,
      vars, poolVars, sessionVars, listVars, stopVars, networkVars, timerVars,
      IInv, TypeOK, Threads, MayFire, Serving, Started, Locks, Lists, Alive, Owners
  <2>2. CASE Pool!Enqueue(Op(Server, 0)) /\ Goto("GetFreeConnection")
    <3>1. Op(Server, 0) \in Ops /\ Op(Server, 0).by = Server
      BY OpsAre
    <3>2. /\ PoolTypes' /\ Pool!Known' = Pool!Known \cup {Op(Server, 0)}
          /\ open /\ open' /\ dropped' = dropped
      BY <2>2, <3>1, EnqueueAdds DEF IInv
    <3>3. \A x \in Pool!Known' : x.by \in Sessions => x \in Pool!Known
      BY <3>1, <3>2
    <3> QED BY <1>2, <2>2, <3>2, <3>3 DEF SecretsInitialize, At, Goto,
      vars, poolVars, sessionVars, listVars, stopVars, networkVars, timerVars,
      IInv, TypeOK, Threads, MayFire, Serving, Started, Locks, Lists, Alive, Owners
  <2> QED BY <1>2, <2>1, <2>2 DEF SecretsInitialize
<1>3. CASE LockForRealms
  <2>1. UNCHANGED poolVars
    BY <1>3 DEF LockForRealms, vars
  <2> QED BY <1>3, <2>1, PoolRests DEF LockForRealms, At, Goto,
    vars, poolVars, sessionVars, listVars, stopVars, networkVars, timerVars,
    IInv, TypeOK, Threads, MayFire, Serving, Started, Locks, Lists, Alive, Owners
<1>4. CASE QueryRealms
  <2>1. UNCHANGED poolVars
    BY <1>4 DEF QueryRealms, vars
  <2> QED BY <1>4, <2>1, PoolRests DEF QueryRealms, At, Goto,
    vars, poolVars, sessionVars, listVars, stopVars, networkVars, timerVars,
    IInv, TypeOK, Threads, MayFire, Serving, Started, Locks, Lists, Alive, Owners
<1>5. CASE RealmsChanged
  <2>1. UNCHANGED poolVars
    BY <1>5 DEF RealmsChanged, vars
  <2> QED BY <1>5, <2>1, PoolRests DEF RealmsChanged, At, Goto,
    vars, poolVars, sessionVars, listVars, stopVars, networkVars, timerVars,
    IInv, TypeOK, Threads, MayFire, Serving, Started, Locks, Lists, Alive, Owners
<1>6. CASE StartNetwork
  <2>1. UNCHANGED poolVars
    BY <1>6 DEF StartNetwork, vars
  <2> QED BY <1>6, <2>1, PoolRests DEF StartNetwork, At, Goto,
    vars, poolVars, sessionVars, listVars, stopVars, networkVars, timerVars,
    IInv, TypeOK, Threads, MayFire, Serving, Started, Locks, Lists, Alive, Owners
<1> QED BY <1>1, <1>2, <1>3, <1>4, <1>5, <1>6 DEF Starting

(* ... in the middle of a handler, ... *)
LEMMA HandlingKeeps ==
  ASSUME IInv, Handling
  PROVE  IInv'
<1> USE ServerAssumption, OpsAre
<1>1. CASE AddSocket
  <2>1. UNCHANGED poolVars
    BY <1>1 DEF AddSocket, vars
  <2> QED BY <1>1, <2>1, PoolRests DEF AddSocket, At, Goto,
    vars, poolVars, sessionVars, listVars, stopVars, networkVars, timerVars,
    IInv, TypeOK, Threads, MayFire, Serving, Started, Locks, Lists, Alive, Owners
<1>2. CASE Ping
  <2>1. UNCHANGED poolVars
    BY <1>2 DEF Ping, vars
  <2> QED BY <1>2, <2>1, PoolRests DEF Ping, At, Goto,
    vars, poolVars, sessionVars, listVars, stopVars, networkVars, timerVars,
    IInv, TypeOK, Threads, MayFire, Serving, Started, Locks, Lists, Alive, Owners
<1>3. CASE EnqueuePing
  <2>1. Op(Server, timers + 1) \in Ops /\ Op(Server, timers + 1).by = Server /\ Pool!Enqueue(Op(Server, timers + 1))
    BY <1>3 DEF EnqueuePing, IInv, TypeOK, Threads, MayFire, At, EnqueueNext, vars
  <2>2. /\ PoolTypes' /\ Pool!Known' = Pool!Known \cup {Op(Server, timers + 1)}
        /\ open /\ open' /\ dropped' = dropped
    BY <2>1, EnqueueAdds DEF IInv
  <2>3. \A x \in Pool!Known' : x.by \in Sessions => x \in Pool!Known
    BY <2>1, <2>2
  <2> QED BY <1>3, <2>2, <2>3 DEF EnqueuePing, At, Goto, EnqueueNext,
    vars, poolVars, sessionVars, listVars, stopVars, networkVars, timerVars,
    IInv, TypeOK, Threads, MayFire, Serving, Started, Locks, Lists, Alive, Owners
<1> QED BY <1>1, <1>2, <1>3 DEF Handling

(* ... and while it stops; ... *)
LEMMA StoppingKeeps ==
  ASSUME IInv, Stopping
  PROVE  IInv'
<1> USE ServerAssumption, OpsAre
<1>1. CASE Stop
  <2>1. UNCHANGED poolVars
    BY <1>1 DEF Stop, vars
  <2> QED BY <1>1, <2>1, PoolRests DEF Stop, At, Goto,
    vars, poolVars, sessionVars, listVars, stopVars, networkVars, timerVars,
    IInv, TypeOK, Threads, MayFire, Serving, Started, Locks, Lists, Alive, Owners
<1>2. CASE StopIoContext
  <2>1. UNCHANGED poolVars
    BY <1>2 DEF StopIoContext, vars
  <2> QED BY <1>2, <2>1, PoolRests DEF StopIoContext, At, Goto,
    vars, poolVars, sessionVars, listVars, stopVars, networkVars, timerVars,
    IInv, TypeOK, Threads, MayFire, Serving, Started, Locks, Lists, Alive, Owners
<1>3. CASE Wait
  <2>1. UNCHANGED poolVars
    BY <1>3 DEF Wait, vars
  <2> QED BY <1>3, <2>1, PoolRests DEF Wait, At, Goto,
    vars, poolVars, sessionVars, listVars, stopVars, networkVars, timerVars,
    IInv, TypeOK, Threads, MayFire, Serving, Started, Locks, Lists, Alive, Owners
<1>4. CASE StopDB
  <2>1. CASE Pool!Close
    <3>1. PoolTypes' /\ Pool!Known' = Pool!Known /\ dropped' = dropped /\ open' = FALSE
      BY <2>1 DEF IInv, PoolTypes, Pool!Known, Pool!Close
    <3>2. main = "StartDB" => dropped = {}
      BY DEF IInv, Owners, Pool!Known
    <3> QED BY <1>4, <2>1, <3>1, <3>2 DEF StopDB, Pool!Close, At, Goto,
      vars, poolVars, sessionVars, listVars, stopVars, networkVars, timerVars,
      IInv, TypeOK, Threads, MayFire, Serving, Started, Locks, Lists, Alive, Owners
  <2> QED BY <1>4, <2>1 DEF StopDB
<1>5. CASE Exit
  <2>1. UNCHANGED poolVars
    BY <1>5 DEF Exit, vars
  <2> QED BY <1>5, <2>1, PoolRests DEF Exit, At, Goto,
    vars, poolVars, sessionVars, listVars, stopVars, networkVars, timerVars,
    IInv, TypeOK, Threads, MayFire, Serving, Started, Locks, Lists, Alive, Owners
<1> QED BY <1>1, <1>2, <1>3, <1>4, <1>5 DEF Stopping

(* ... so does what comes from outside, ... *)
LEMMA EventKeeps ==
  ASSUME IInv, Event
  PROVE  IInv'
<1> USE ServerAssumption, OpsAre
<1>1. ASSUME NEW s \in Sessions, Accept(s) PROVE IInv'
  <2>1. Op(s, 0) \in Ops /\ Op(s, 0).by = s /\ Pool!Enqueue(Op(s, 0))
    BY <1>1 DEF Accept
  <2>2. /\ PoolTypes' /\ Pool!Known' = Pool!Known \cup {Op(s, 0)}
        /\ open /\ open' /\ dropped' = dropped
    BY <2>1, EnqueueAdds DEF IInv
  <2> QED BY <1>1, <2>1, <2>2 DEF Accept, At, Goto,
    vars, poolVars, sessionVars, listVars, stopVars, networkVars, timerVars,
    IInv, TypeOK, Threads, MayFire, Serving, Started, Locks, Lists, Alive, Owners
<1>2. CASE UpdateRealms
  <2>1. UNCHANGED poolVars
    BY <1>2 DEF UpdateRealms, vars
  <2> QED BY <1>2, <2>1, PoolRests DEF UpdateRealms, At, Goto,
    vars, poolVars, sessionVars, listVars, stopVars, networkVars, timerVars,
    IInv, TypeOK, Threads, MayFire, Serving, Started, Locks, Lists, Alive, Owners
<1>3. CASE KeepAlive
  <2>1. UNCHANGED poolVars
    BY <1>3 DEF KeepAlive, vars
  <2> QED BY <1>3, <2>1, PoolRests DEF KeepAlive, At, Goto,
    vars, poolVars, sessionVars, listVars, stopVars, networkVars, timerVars,
    IInv, TypeOK, Threads, MayFire, Serving, Started, Locks, Lists, Alive, Owners
<1>4. CASE BanExpiry
  <2>1. Op(Server, timers + 1) \in Ops /\ Op(Server, timers + 1).by = Server /\ Pool!Enqueue(Op(Server, timers + 1))
    BY <1>4 DEF BanExpiry, IInv, TypeOK, Threads, MayFire, At, EnqueueNext, vars
  <2>2. /\ PoolTypes' /\ Pool!Known' = Pool!Known \cup {Op(Server, timers + 1)}
        /\ open /\ open' /\ dropped' = dropped
    BY <2>1, EnqueueAdds DEF IInv
  <2>3. \A x \in Pool!Known' : x.by \in Sessions => x \in Pool!Known
    BY <2>1, <2>2
  <2> QED BY <1>4, <2>2, <2>3 DEF BanExpiry, At, Goto, EnqueueNext,
    vars, poolVars, sessionVars, listVars, stopVars, networkVars, timerVars,
    IInv, TypeOK, Threads, MayFire, Serving, Started, Locks, Lists, Alive, Owners
<1>5. CASE SignalHandler
  <2>1. UNCHANGED poolVars
    BY <1>5 DEF SignalHandler, vars
  <2> QED BY <1>5, <2>1, PoolRests DEF SignalHandler, At, Goto,
    vars, poolVars, sessionVars, listVars, stopVars, networkVars, timerVars,
    IInv, TypeOK, Threads, MayFire, Serving, Started, Locks, Lists, Alive, Owners
<1> QED BY <1>1, <1>2, <1>3, <1>4, <1>5 DEF Event

(* ... so does every step of the network thread, ... *)
LEMMA NetworkKeeps ==
  ASSUME IInv, Network
  PROVE  IInv'
<1> USE ServerAssumption, OpsAre
<1>1. CASE Update
  <2>1. UNCHANGED poolVars
    BY <1>1 DEF Update, vars
  <2> QED BY <1>1, <2>1, PoolRests DEF Update, At, Goto,
    vars, poolVars, sessionVars, listVars, stopVars, networkVars, timerVars,
    IInv, TypeOK, Threads, MayFire, Serving, Started, Locks, Lists, Alive, Owners, Idle
<1>2. CASE UpdateEnds
  <2>1. UNCHANGED poolVars
    BY <1>2 DEF UpdateEnds, vars
  <2> QED BY <1>2, <2>1, PoolRests DEF UpdateEnds, At, Goto,
    vars, poolVars, sessionVars, listVars, stopVars, networkVars, timerVars,
    IInv, TypeOK, Threads, MayFire, Serving, Started, Locks, Lists, Alive, Owners, Idle
<1>3. CASE RealmsListed
  <2>1. UNCHANGED poolVars
    BY <1>3 DEF RealmsListed, vars
  <2> QED BY <1>3, <2>1, PoolRests DEF RealmsListed, At, Goto,
    vars, poolVars, sessionVars, listVars, stopVars, networkVars, timerVars,
    IInv, TypeOK, Threads, MayFire, Serving, Started, Locks, Lists, Alive, Owners, Idle
<1>4. CASE LockForProof
  <2>1. UNCHANGED poolVars
    BY <1>4 DEF LockForProof, vars
  <2> QED BY <1>4, <2>1, PoolRests DEF LockForProof, At, Goto,
    vars, poolVars, sessionVars, listVars, stopVars, networkVars, timerVars,
    IInv, TypeOK, Threads, MayFire, Serving, Started, Locks, Lists, Alive, Owners, Idle
<1>5. CASE DirectExecute
  <2>1. UNCHANGED poolVars
    BY <1>5 DEF DirectExecute, vars
  <2> QED BY <1>5, <2>1, PoolRests DEF DirectExecute, At, Goto,
    vars, poolVars, sessionVars, listVars, stopVars, networkVars, timerVars,
    IInv, TypeOK, Threads, MayFire, Serving, Started, Locks, Lists, Alive, Owners, Idle
<1>6. CASE RunReturns
  <2>1. UNCHANGED poolVars
    BY <1>6 DEF RunReturns
  <2>2. network = "idle" /\ stopped /\ accepted = NoOne /\ todo = {}
    BY <1>6 DEF RunReturns, IInv, Threads, Lists
  <2>3. /\ stage' \in [Sessions -> {"none", "connecting", "reading", "waiting", "refused",
                                   "closed", "gone"}]
        /\ \A s \in Sessions : /\ stage'[s] \in {"none", "gone"}
                              /\ stage[s] # "none" => stage'[s] # "none"
    <3>1. stage' = [s \in Sessions |-> IF s \in newSockets \cup sockets THEN "gone" ELSE stage[s]]
      BY <1>6 DEF RunReturns
    <3>2. ASSUME NEW s \in Sessions, s \notin newSockets \cup sockets
          PROVE  stage[s] \in {"none", "gone"}
      BY <2>2, <3>2 DEF IInv, Lists, Alive
    <3> QED BY <3>1, <3>2
  <2>4. TypeOK'
    BY <1>6, <2>1, <2>2, <2>3, PoolRests DEF RunReturns, IInv, TypeOK, stopVars, timerVars
  <2>5. Threads' /\ Locks'
    BY <1>6, <2>1, <2>2, PoolRests DEF RunReturns, IInv, Threads, Serving, Started, MayFire,
      Locks, stopVars, timerVars
  <2>6. Lists'
    BY <1>6, <2>2, <2>3 DEF RunReturns, IInv, TypeOK, Lists, Alive
  <2>7. Owners' /\ PoolTypes'
    BY <1>6, <2>1, <2>3, PoolRests DEF RunReturns, IInv, Owners
  <2> QED BY <2>4, <2>5, <2>6, <2>7 DEF IInv
<1>7. ASSUME NEW s \in Sessions, DropSocket(s) PROVE IInv'
  <2>1. UNCHANGED poolVars
    BY <1>7 DEF DropSocket
  <2> QED BY <1>7, <2>1, PoolRests DEF DropSocket, Visit, Visits, Answered, Idle, ReadOutstanding,
    vars, poolVars, sessionVars, listVars, stopVars, networkVars, timerVars,
    IInv, TypeOK, Threads, MayFire, Serving, Started, Locks, Lists, Alive, Owners
<1>8. ASSUME NEW s \in Sessions, NothingReady(s) PROVE IInv'
  <2>1. UNCHANGED poolVars
    BY <1>8 DEF NothingReady
  <2> QED BY <1>8, <2>1, PoolRests DEF NothingReady, Visit, Visits, Answered, Idle, ReadOutstanding,
    vars, poolVars, sessionVars, listVars, stopVars, networkVars, timerVars,
    IInv, TypeOK, Threads, MayFire, Serving, Started, Locks, Lists, Alive, Owners
<1>9. ASSUME NEW s \in Sessions, CheckIpCallback(s) PROVE IInv'
  <2>1. UNCHANGED poolVars
    BY <1>9 DEF CheckIpCallback
  <2> QED BY <1>9, <2>1, PoolRests DEF CheckIpCallback, Visit, Visits, Answered, Idle, ReadOutstanding,
    vars, poolVars, sessionVars, listVars, stopVars, networkVars, timerVars,
    IInv, TypeOK, Threads, MayFire, Serving, Started, Locks, Lists, Alive, Owners
<1>10. ASSUME NEW s \in Sessions, RealmListCallback(s) PROVE IInv'
  <2>1. UNCHANGED poolVars
    BY <1>10 DEF RealmListCallback
  <2> QED BY <1>10, <2>1, PoolRests DEF RealmListCallback, Visit, Visits, Answered, Idle, ReadOutstanding,
    vars, poolVars, sessionVars, listVars, stopVars, networkVars, timerVars,
    IInv, TypeOK, Threads, MayFire, Serving, Started, Locks, Lists, Alive, Owners
<1>11. ASSUME NEW s \in Sessions, ReadAndClose(s) PROVE IInv'
  <2>1. UNCHANGED poolVars
    BY <1>11 DEF ReadAndClose
  <2> QED BY <1>11, <2>1, PoolRests DEF ReadAndClose, Visit, Visits, Answered, Idle, ReadOutstanding,
    vars, poolVars, sessionVars, listVars, stopVars, networkVars, timerVars,
    IInv, TypeOK, Threads, MayFire, Serving, Started, Locks, Lists, Alive, Owners
<1>12. ASSUME NEW s \in Sessions, ReadAndQuery(s) PROVE IInv'
  <2>1. /\ Op(s, reads[s] + 1) \in Ops /\ Op(s, reads[s] + 1).by = s
        /\ Pool!Enqueue(Op(s, reads[s] + 1))
    BY <1>12 DEF ReadAndQuery, IInv, TypeOK
  <2>2. /\ PoolTypes' /\ Pool!Known' = Pool!Known \cup {Op(s, reads[s] + 1)}
        /\ open /\ open' /\ dropped' = dropped
    BY <2>1, EnqueueAdds DEF IInv
  <2> QED BY <1>12, <2>1, <2>2 DEF ReadAndQuery, Idle,
    vars, poolVars, sessionVars, listVars, stopVars, networkVars, timerVars,
    IInv, TypeOK, Threads, MayFire, Serving, Started, Locks, Lists, Alive, Owners
<1>13. ASSUME NEW s \in Sessions, ReadAndExecute(s) PROVE IInv'
  <2>1. UNCHANGED poolVars
    BY <1>13 DEF ReadAndExecute
  <2> QED BY <1>13, <2>1, PoolRests DEF ReadAndExecute, Visit, Visits, Answered, Idle, ReadOutstanding,
    vars, poolVars, sessionVars, listVars, stopVars, networkVars, timerVars,
    IInv, TypeOK, Threads, MayFire, Serving, Started, Locks, Lists, Alive, Owners
<1> QED BY <1>1, <1>2, <1>3, <1>4, <1>5, <1>6, <1>7, <1>8, <1>9, <1>10, <1>11, <1>12, <1>13 DEF Network, NetworkRuns, Read

(* ... every step of the workers of the database, ... *)
LEMMA WorkersKeep ==
  ASSUME IInv, Workers
  PROVE  IInv'
<1>1. PoolMoves
  BY DEF Workers, PoolMoves
<1>2. /\ PoolTypes' /\ Pool!Known' \subseteq Pool!Known
      /\ open' = open /\ (open => dropped' = dropped)
  BY <1>1, PoolMovesKnown DEF IInv
<1> QED BY <1>2, ServerAssumption DEF Workers,
    vars, poolVars, sessionVars, listVars, stopVars, networkVars, timerVars,
    IInv, TypeOK, Threads, MayFire, Serving, Started, Locks, Lists, Alive, Owners

(* ... and a step that changes nothing. *)
LEMMA StutterKeeps ==
  ASSUME IInv, UNCHANGED vars
  PROVE  IInv'
<1>1. UNCHANGED poolVars
  BY DEF vars, poolVars
<1> QED BY <1>1, PoolRests DEF vars, poolVars, sessionVars, listVars, stopVars, networkVars, timerVars,
    IInv, TypeOK, Threads, MayFire, Serving, Started, Locks, Lists, Alive, Owners

(* The invariant holds in every reachable state. *)
LEMMA ServerSound == Spec => []IInv
<1>1. Init => IInv
  BY InitIInv
<1>2. IInv /\ [Next]_vars => IInv'
  BY StartingKeeps, HandlingKeeps, StoppingKeeps, EventKeeps, NetworkKeeps, WorkersKeep,
     StutterKeeps DEF Next, Main
<1> QED BY <1>1, <1>2, PTL DEF Spec

-----------------------------------------------------------------------------
(* The theorems *)

(* Every variable keeps its type, for any number of sessions, reads and timers. *)
THEOREM TypeCorrect == Spec => []TypeOK
<1>1. IInv => TypeOK
  BY DEF IInv
<1> QED BY <1>1, ServerSound, PTL

(* The order in which main() starts and stops its parts (Main.cpp:151-191)     *)
(* keeps the login database open for as long as a thread uses it, and no       *)
(* session is left with a query that the closed pool has discarded.            *)
THEOREM DatabaseOutlives == Spec => []DatabaseOutlivesItsUsers
<1>1. IInv => DatabaseOutlivesItsUsers
  <2> SUFFICES ASSUME IInv PROVE DatabaseOutlivesItsUsers
    OBVIOUS
  <2>1. ~open => network \in {"off", "done"} /\ synch = NoOne
    BY DEF IInv, TypeOK, Threads, Serving, Locks
  <2>2. ASSUME NEW o \in dropped, o.by \in Sessions PROVE stage[o.by] = "gone"
    <3>1. ~open /\ o \in Pool!Known
      BY <2>2 DEF IInv, Owners, Pool!Known
    <3>2. stage[o.by] # "none" /\ ~Alive(o.by)
      BY <2>1, <2>2, <3>1 DEF IInv, Owners, Lists
    <3> QED BY <3>2 DEF Alive
  <2> QED BY <2>1, <2>2 DEF DatabaseOutlivesItsUsers
<1> QED BY <1>1, ServerSound, PTL

(* A session is touched by one thread at a time: the main thread has finished   *)
(* with it when the network thread can find it.                                *)
THEOREM HandedOverOnce == Spec => []OneThreadPerSession
<1>1. IInv => OneThreadPerSession
  BY DEF IInv, Lists, OneThreadPerSession
<1> QED BY <1>1, ServerSound, PTL
=============================================================================
