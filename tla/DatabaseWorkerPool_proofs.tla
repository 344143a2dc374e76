---------------------- MODULE DatabaseWorkerPool_proofs ----------------------
(***************************************************************************)
(* Proofs about DatabaseWorkerPool, for every set of operations and every  *)
(* number of connections.                                                  *)
(*                                                                         *)
(* SingleOwner is not inductive: whether an operation may be run or        *)
(* deleted depends on where its thread stands.  IInv adds what each        *)
(* program counter says of the pointer the thread holds, and what main's   *)
(* says of the connections it is about to destroy.                         *)
(***************************************************************************)
EXTENDS DatabaseWorkerPool, TLAPS, SequenceTheorems, FiniteSetTheorems

USE PoolAssumption DEF PoolAssumption

(* A thread outside its loop body holds no operation; inside, it holds one. *)
ThreadHolds ==
  \A w \in Conns :
    /\ thread[w] \in {"none", "enter", "waiting", "exited"} => operation[w] = NoOp
    /\ thread[w] \in {"calling", "called"} => operation[w] # NoOp

(* What has happened to the operations that still have an owner. *)
OwnedAreLive ==
  /\ \A o \in Ops : o \notin pushed => runs[o] = 0 /\ deletes[o] = 0
  /\ ToSet(queue) \subseteq pushed
  /\ Held \subseteq pushed
  /\ \A o \in ToSet(queue) : runs[o] = 0 /\ deletes[o] = 0
  /\ \A w \in Conns : operation[w] # NoOp =>
       /\ deletes[operation[w]] = 0
       /\ thread[w] \in {"popped", "calling"} => runs[operation[w]] = 0
       /\ thread[w] = "called" => runs[operation[w]] = 1

(* There is a connection to destroy whenever main is destroying one, and an  *)
(* open pool has connections.                                                *)
MainKnowsConnections ==
  /\ main \in {"connecting", "token", "cancel", "join"} => dying # <<>>
  /\ main \in {"token", "cancel", "join"} => resume # "open"
  /\ main \in {"opening", "connecting"} /\ index > 0 => conns # <<>>
  /\ main = "open" => conns # <<>>
  /\ main = "connecting" => index < AsyncThreads

IInv == TypeOK /\ SingleOwner /\ ThreadHolds /\ OwnedAreLive /\ MainKnowsConnections

-----------------------------------------------------------------------------
(* What Cancel does to one counter: an operation queued once is counted once. *)
LEMMA OccurrenceType ==
  ASSUME NEW s \in Seq(Ops), NEW o \in Ops
  PROVE  Cardinality({i \in DOMAIN s : s[i] = o}) \in Nat
<1>1. DOMAIN s = 1 .. Len(s) /\ Len(s) \in Nat
  BY LenProperties
<1>2. IsFiniteSet(1 .. Len(s))
  BY <1>1, FS_Interval
<1>3. IsFiniteSet({i \in DOMAIN s : s[i] = o})
  BY <1>1, <1>2, FS_Subset
<1> QED
  BY <1>3, FS_CardinalityType

(* ... and an operation that is not queued is not counted. *)
LEMMA OccurrenceCount ==
  ASSUME NEW s \in Seq(Ops), NEW o \in Ops,
         \A i, j \in DOMAIN s : s[i] = s[j] => i = j
  PROVE  Cardinality({i \in DOMAIN s : s[i] = o}) = IF o \in ToSet(s) THEN 1 ELSE 0
<1>1. CASE o \in ToSet(s)
  <2>1. PICK k \in DOMAIN s : s[k] = o
    BY <1>1 DEF ToSet
  <2>2. {i \in DOMAIN s : s[i] = o} = {k}
    BY <2>1
  <2> QED
    BY <1>1, <2>2, FS_Singleton
<1>2. CASE o \notin ToSet(s)
  <2>1. {i \in DOMAIN s : s[i] = o} = {}
    BY <1>2 DEF ToSet
  <2> QED
    BY <1>2, <2>1, FS_EmptySet
<1> QED
  BY <1>1, <1>2

(* The two ends of std::queue. *)
LEMMA PushElements ==
  ASSUME NEW s \in Seq(Ops), NEW o \in Ops
  PROVE  /\ Append(s, o) \in Seq(Ops)
         /\ ToSet(Append(s, o)) = ToSet(s) \cup {o}
         /\ o \notin ToSet(s) /\ (\A i, j \in DOMAIN s : s[i] = s[j] => i = j)
              => \A i, j \in DOMAIN Append(s, o) :
                   Append(s, o)[i] = Append(s, o)[j] => i = j
<1> DEFINE t == Append(s, o)
<1>1. /\ t \in Seq(Ops) /\ Len(t) = Len(s) + 1 /\ Len(s) \in Nat
      /\ DOMAIN s = 1 .. Len(s) /\ DOMAIN t = 1 .. Len(t)
      /\ \A i \in 1 .. Len(s) : t[i] = s[i]
      /\ t[Len(s) + 1] = o
  BY AppendProperties, LenProperties
<1> HIDE DEF t
<1>2. ToSet(t) = ToSet(s) \cup {o}
  BY <1>1 DEF ToSet
<1>3. ASSUME o \notin ToSet(s), \A i, j \in DOMAIN s : s[i] = s[j] => i = j
      PROVE  \A i, j \in DOMAIN t : t[i] = t[j] => i = j
  BY <1>1, <1>3 DEF ToSet
<1> QED
  BY <1>1, <1>2, <1>3 DEF t

(* ... the element popped leaves it. *)
LEMMA PopElements ==
  ASSUME NEW s \in Seq(Ops), s # <<>>,
         \A i, j \in DOMAIN s : s[i] = s[j] => i = j
  PROVE  /\ Tail(s) \in Seq(Ops) /\ Head(s) \in Ops
         /\ ToSet(Tail(s)) = ToSet(s) \ {Head(s)}
         /\ Head(s) \in ToSet(s)
         /\ \A i, j \in DOMAIN Tail(s) : Tail(s)[i] = Tail(s)[j] => i = j
<1> DEFINE t == Tail(s)
<1>1. /\ t \in Seq(Ops) /\ Len(s) \in Nat \ {0} /\ Len(t) = Len(s) - 1
      /\ DOMAIN s = 1 .. Len(s) /\ DOMAIN t = 1 .. Len(t)
      /\ \A i \in 1 .. Len(t) : t[i] = s[i + 1]
      /\ Head(s) = s[1]
  BY HeadTailProperties, LenProperties, EmptySeq
<1> HIDE DEF t
<1>2. Head(s) \in Ops /\ Head(s) \in ToSet(s)
  BY <1>1, ElementOfSeq DEF ToSet
<1>3. \A i, j \in DOMAIN t : t[i] = t[j] => i = j
  <2> SUFFICES ASSUME NEW i \in DOMAIN t, NEW j \in DOMAIN t, t[i] = t[j] PROVE i = j
    OBVIOUS
  <2>1. i + 1 \in DOMAIN s /\ j + 1 \in DOMAIN s /\ s[i + 1] = s[j + 1]
    BY <1>1
  <2>2. i + 1 = j + 1
    BY <2>1
  <2> QED
    BY <1>1, <2>2
<1>4. ASSUME NEW o PROVE o \in ToSet(t) <=> o \in ToSet(s) \ {Head(s)}
  <2>1. ASSUME o \in ToSet(t) PROVE o \in ToSet(s) \ {Head(s)}
    <3>1. PICK i \in DOMAIN t : t[i] = o
      BY <2>1 DEF ToSet
    <3>2. i + 1 \in DOMAIN s /\ s[i + 1] = o /\ i + 1 # 1 /\ 1 \in DOMAIN s
      BY <1>1, <3>1
    <3>3. s[i + 1] # s[1]
      BY <3>2
    <3> QED
      BY <1>1, <3>2, <3>3 DEF ToSet
  <2>2. ASSUME o \in ToSet(s) \ {Head(s)} PROVE o \in ToSet(t)
    <3>1. PICK i \in DOMAIN s : s[i] = o /\ i # 1
      BY <1>1, <2>2 DEF ToSet
    <3>2. i - 1 \in DOMAIN t /\ t[i - 1] = s[i]
      BY <1>1, <3>1
    <3> QED
      BY <3>1, <3>2 DEF ToSet
  <2> QED
    BY <2>1, <2>2
<1> QED
  BY <1>1, <1>2, <1>3, <1>4 DEF t

-----------------------------------------------------------------------------
(* Nothing is claimed of an operation before the pool is opened. *)
LEMMA InitIInv == Init => IInv
<1> SUFFICES ASSUME Init PROVE IInv
  OBVIOUS
<1> USE DEF Init
<1>1. ToSet(queue) = {} /\ Held = {} /\ <<>> \in Seq(Ops) /\ <<>> \in Seq(Conns)
  BY EmptySeq DEF ToSet, Held
<1>2. TypeOK
  <2>1. 0 \in 0 .. AsyncThreads /\ 0 \in Nat
    OBVIOUS
  <2>2. /\ queue \in Seq(Ops) /\ conns \in Seq(Conns) /\ dying \in Seq(Conns)
        /\ index \in 0 .. AsyncThreads /\ runs \in [Ops -> Nat] /\ deletes \in [Ops -> Nat]
    BY <1>1, <2>1
  <2>3. /\ thread \in [Conns -> ThreadPC] /\ main \in MainPC /\ error \in Errors
    BY DEF ThreadPC, MainPC, Errors
  <2> QED
    BY <2>2, <2>3 DEF TypeOK
<1>3. SingleOwner
  BY <1>1 DEF SingleOwner
<1>4. ThreadHolds /\ MainKnowsConnections
  BY DEF ThreadHolds, MainKnowsConnections
<1>5. OwnedAreLive
  <2>1. \A w \in Conns : operation[w] = NoOp
    OBVIOUS
  <2>2. \A o \in Ops : runs[o] = 0 /\ deletes[o] = 0
    OBVIOUS
  <2> HIDE DEF Init
  <2> QED
    BY <1>1, <2>1, <2>2 DEF OwnedAreLive
<1> QED
  BY <1>2, <1>3, <1>4, <1>5 DEF IInv

(* The operation stays where it is in every step that only moves threads     *)
(* between program counters that claim nothing new about it.                 *)
LEMMA OwnershipUnchanged ==
  ASSUME IInv, TypeOK', UNCHANGED <<queue, operation, pushed, runs, deletes>>,
         \A w \in Conns : thread'[w] # thread[w] =>
            \/ thread'[w] \in {"enter", "waiting", "none", "exited"} /\ operation[w] = NoOp
            \/ thread[w] = "popped" /\ thread'[w] = "calling" /\ operation[w] # NoOp
            \/ thread'[w] = "popped" /\ operation[w] = NoOp
  PROVE  SingleOwner' /\ ThreadHolds' /\ OwnedAreLive'
<1> USE DEF IInv
<1>1. Held' = Held
  BY DEF Held
<1>2. SingleOwner'
  BY <1>1 DEF SingleOwner
<1>3. ThreadHolds'
  BY DEF ThreadHolds
<1>4. OwnedAreLive'
  BY <1>1 DEF OwnedAreLive
<1> QED
  BY <1>2, <1>3, <1>4

(* Cancel deletes exactly what is queued and empties the queue. *)
LEMMA CancelKeepsOwnership ==
  ASSUME IInv, Cancel, UNCHANGED <<operation, pushed, runs>>
  PROVE  /\ SingleOwner' /\ ThreadHolds' /\ OwnedAreLive'
         /\ queue' \in Seq(Ops) /\ shutdown' \in BOOLEAN
         /\ thread' \in [Conns -> ThreadPC] /\ deletes' \in [Ops -> Nat]
<1> USE DEF IInv
<1>1. queue' = <<>> /\ ToSet(queue') = {} /\ Held' = Held /\ queue' \in Seq(Ops)
  BY EmptySeq DEF Cancel, ToSet, Held
<1>2. \A o \in Ops : deletes'[o] = deletes[o] + (IF o \in ToSet(queue) THEN 1 ELSE 0)
  <2> SUFFICES ASSUME NEW o \in Ops
               PROVE  deletes'[o] = deletes[o] + (IF o \in ToSet(queue) THEN 1 ELSE 0)
    OBVIOUS
  <2>1. Cardinality({i \in DOMAIN queue : queue[i] = o}) = IF o \in ToSet(queue) THEN 1 ELSE 0
    BY OccurrenceCount DEF SingleOwner, TypeOK
  <2>2. deletes'[o] = deletes[o] + Cardinality({i \in DOMAIN queue : queue[i] = o})
    BY DEF Cancel
  <2> QED
    BY <2>1, <2>2
<1>3. deletes' \in [Ops -> Nat]
  <2>1. \A o \in Ops : Cardinality({i \in DOMAIN queue : queue[i] = o}) \in Nat
    BY OccurrenceType DEF TypeOK
  <2>2. \A o \in Ops : deletes[o] \in Nat
    BY DEF TypeOK
  <2>3. \A o \in Ops, n \in Nat : deletes[o] + n \in Nat
    BY <2>2
  <2> QED
    BY <2>1, <2>3 DEF Cancel
<1>4. /\ thread' \in [Conns -> ThreadPC]
      /\ \A w \in Conns : \/ thread'[w] = thread[w]
                          \/ thread[w] = "waiting" /\ thread'[w] = "enter"
  BY DEF Cancel, Wake, Waiters, TypeOK, ThreadPC
<1>5. SingleOwner'
  <2>1. \A o \in Ops : runs'[o] <= 1 /\ deletes'[o] <= 1
    BY <1>2 DEF SingleOwner, OwnedAreLive, TypeOK
  <2>2. \A o \in Ops : deletes'[o] = 1 => o \notin Held
    BY <1>2 DEF SingleOwner, OwnedAreLive, TypeOK
  <2> QED
    BY <1>1, <2>1, <2>2 DEF SingleOwner
<1>6. ThreadHolds'
  BY <1>4 DEF ThreadHolds
<1>7. OwnedAreLive'
  <2>1. \A o \in Ops : o \notin pushed => deletes'[o] = 0
    <3> SUFFICES ASSUME NEW o \in Ops, o \notin pushed PROVE deletes'[o] = 0
      OBVIOUS
    <3>1. o \notin ToSet(queue) /\ deletes[o] = 0
      BY DEF OwnedAreLive
    <3> QED
      BY <1>2, <3>1
  <2>2. \A w \in Conns : operation[w] # NoOp => deletes'[operation[w]] = 0
    <3> SUFFICES ASSUME NEW w \in Conns, operation[w] # NoOp PROVE deletes'[operation[w]] = 0
      OBVIOUS
    <3>1. operation[w] \in Held /\ operation[w] \in Ops
      BY DEF Held, TypeOK
    <3> QED
      BY <3>1, <1>2 DEF SingleOwner, OwnedAreLive
  <2> QED
    BY <1>1, <1>4, <2>1, <2>2 DEF OwnedAreLive
<1> QED
  BY <1>1, <1>3, <1>4, <1>5, <1>6, <1>7 DEF Cancel

-----------------------------------------------------------------------------
(* One lemma per group of threads: callers, workers, main. *)
LEMMA EnqueueKeepsIInv ==
  ASSUME IInv, NEW o \in Ops, Enqueue(o)
  PROVE  IInv'
<1> USE DEF IInv, Enqueue, Push, loaderVars
<1>1. /\ queue' \in Seq(Ops) /\ ToSet(queue') = ToSet(queue) \cup {o}
      /\ o \notin ToSet(queue) /\ o \notin Held /\ Held' = Held
      /\ runs[o] = 0 /\ deletes[o] = 0
  BY PushElements DEF OwnedAreLive, TypeOK, Held
<1>2. \A i, j \in DOMAIN queue' : queue'[i] = queue'[j] => i = j
  BY <1>1, PushElements DEF SingleOwner, TypeOK
<1>3. /\ thread' \in [Conns -> ThreadPC]
      /\ \A w \in Conns : \/ thread'[w] = thread[w]
                          \/ thread[w] = "waiting" /\ thread'[w] = "enter"
  BY DEF Wake, Waiters, TypeOK, ThreadPC
<1>4. TypeOK'
  BY <1>1, <1>3 DEF TypeOK
<1>5. SingleOwner'
  BY <1>1, <1>2 DEF SingleOwner
<1>6. ThreadHolds' /\ MainKnowsConnections'
  BY <1>3 DEF ThreadHolds, MainKnowsConnections
<1>7. OwnedAreLive'
  BY <1>1, <1>3 DEF OwnedAreLive
<1> QED
  BY <1>4, <1>5, <1>6, <1>7

(* A worker runs and deletes only the operation it has popped. *)
LEMMA WorkerKeepsIInv ==
  ASSUME IInv, NEW w \in Conns, Worker(w) \/ SpuriousWakeup(w)
  PROVE  IInv'
<1> USE DEF IInv
<1>1. CASE WaitAndPop(w) /\ queue' = queue
  <2> USE DEF WaitAndPop, loaderVars, history
  <2>1. operation[w] = NoOp /\ UNCHANGED operation
    <3>1. queue # <<>> => Len(Tail(queue)) # Len(queue)
      BY HeadTailProperties, LenProperties, EmptySeq DEF TypeOK
    <3> QED
      BY <1>1, <3>1 DEF ThreadHolds
  <2>2. TypeOK' /\ MainKnowsConnections'
    BY <1>1, <2>1 DEF TypeOK, ThreadPC, MainKnowsConnections
  <2>3. \A v \in Conns : thread'[v] # thread[v] => v = w /\ thread'[v] \in {"waiting", "popped"}
    BY <1>1 DEF TypeOK
  <2> QED
    BY <1>1, <2>1, <2>2, <2>3, OwnershipUnchanged
<1>2. CASE WaitAndPop(w) /\ queue' # queue
  <2> USE DEF WaitAndPop, loaderVars, history
  <2> DEFINE o == Head(queue)
  <2>1. /\ queue # <<>> /\ queue' = Tail(queue)
        /\ operation' = [operation EXCEPT ![w] = o]
        /\ thread' = [thread EXCEPT ![w] = "popped"] /\ operation[w] = NoOp
    BY <1>2 DEF ThreadHolds
  <2>2. /\ queue' \in Seq(Ops) /\ o \in Ops /\ o \in ToSet(queue)
        /\ ToSet(queue') = ToSet(queue) \ {o}
        /\ \A i, j \in DOMAIN queue' : queue'[i] = queue'[j] => i = j
    BY <2>1, PopElements DEF TypeOK, SingleOwner
  <2> HIDE DEF o
  <2>3. o \in pushed /\ runs[o] = 0 /\ deletes[o] = 0 /\ o \notin Held /\ o # NoOp
    BY <2>2 DEF OwnedAreLive, SingleOwner, Held
  <2>4. Held' = Held \cup {o}
    BY <2>1, <2>3 DEF Held, TypeOK
  <2>5. TypeOK'
    BY <1>2, <2>1, <2>2 DEF TypeOK, ThreadPC
  <2>6. SingleOwner'
    <3>1. \A u, v \in Conns : operation'[u] = operation'[v] /\ operation'[u] # NoOp => u = v
      BY <2>1, <2>3 DEF SingleOwner, TypeOK, Held
    <3>2. ToSet(queue') \cap Held' = {}
      BY <2>2, <2>4 DEF SingleOwner
    <3>3. \A p \in Ops : deletes[p] = 1 => p \notin ToSet(queue') \cup Held'
      BY <2>2, <2>3, <2>4 DEF SingleOwner
    <3> QED
      BY <1>2, <2>2, <3>1, <3>2, <3>3 DEF SingleOwner
  <2>7. ThreadHolds' /\ MainKnowsConnections'
    BY <1>2, <2>1 DEF ThreadHolds, MainKnowsConnections, TypeOK
  <2>8. OwnedAreLive'
    BY <1>2, <2>1, <2>2, <2>3, <2>4 DEF OwnedAreLive, TypeOK
  <2> QED
    BY <2>5, <2>6, <2>7, <2>8
<1>3. CASE CheckToken(w)
  <2> USE DEF CheckToken, queueVars, loaderVars, history
  <2>1. TypeOK' /\ MainKnowsConnections'
    BY <1>3 DEF TypeOK, ThreadPC, MainKnowsConnections
  <2>2. CASE ~token[w] /\ operation[w] # NoOp
    BY <1>3, <2>1, <2>2, OwnershipUnchanged DEF TypeOK
  <2>3. CASE token[w] \/ operation[w] = NoOp
    <3>1. /\ operation' = [operation EXCEPT ![w] = NoOp]
          /\ thread' = [thread EXCEPT ![w] = "exited"]
      BY <1>3, <2>3
    <3>2. Held' \subseteq Held
      BY <3>1 DEF Held, TypeOK
    <3>3. SingleOwner'
      BY <1>3, <3>1, <3>2 DEF SingleOwner, TypeOK
    <3>4. ThreadHolds'
      BY <3>1 DEF ThreadHolds, TypeOK
    <3>5. OwnedAreLive'
      BY <1>3, <3>1, <3>2 DEF OwnedAreLive, TypeOK
    <3> QED
      BY <2>1, <3>3, <3>4, <3>5
  <2> QED
    BY <2>2, <2>3
<1>4. CASE Call(w)
  <2> USE DEF Call, queueVars, loaderVars
  <2> DEFINE o == operation[w]
  <2>1. o \in Ops /\ o # NoOp /\ runs[o] = 0 /\ deletes[o] = 0 /\ o \in Held /\ o \in pushed
    BY <1>4 DEF ThreadHolds, OwnedAreLive, TypeOK, Held
  <2> HIDE DEF o
  <2>2. /\ thread' = [thread EXCEPT ![w] = "called"]
        /\ runs' = [runs EXCEPT ![o] = runs[o] + 1]
        /\ UNCHANGED <<queue, operation, pushed, deletes>>
    BY <1>4 DEF o
  <2>3. TypeOK'
    BY <1>4, <2>1, <2>2 DEF TypeOK, ThreadPC
  <2>4. Held' = Held
    BY <2>2 DEF Held
  <2>5. SingleOwner'
    BY <2>1, <2>2, <2>4 DEF SingleOwner, TypeOK
  <2>6. ThreadHolds' /\ MainKnowsConnections'
    BY <1>4, <2>1, <2>2 DEF ThreadHolds, MainKnowsConnections, TypeOK, o
  <2>7. OwnedAreLive'
    <3>1. o \notin ToSet(queue)
      BY <2>1 DEF SingleOwner
    <3>2. \A v \in Conns \ {w} : operation[v] # o
      BY <2>1 DEF SingleOwner, o
    <3>3. runs'[o] = 1 /\ \A p \in Ops \ {o} : runs'[p] = runs[p]
      BY <2>1, <2>2 DEF TypeOK
    <3>4. operation[w] = o /\ thread'[w] = "called" /\ \A v \in Conns \ {w} : thread'[v] = thread[v]
      BY <2>2 DEF TypeOK, o
    <3>5. \A v \in Conns : operation[v] # NoOp => operation[v] \in Ops
      BY DEF TypeOK
    <3>6. ToSet(queue') = ToSet(queue) /\ ToSet(queue) \subseteq Ops \ {o}
      BY <2>2, <3>1 DEF OwnedAreLive, TypeOK
    <3> QED
      BY <2>1, <2>2, <2>4, <3>2, <3>3, <3>4, <3>5, <3>6 DEF OwnedAreLive
  <2> QED
    BY <2>3, <2>5, <2>6, <2>7
<1>5. CASE Delete(w)
  <2> USE DEF Delete, queueVars, loaderVars
  <2> DEFINE o == operation[w]
  <2>1. o \in Ops /\ o # NoOp /\ deletes[o] = 0 /\ o \in Held /\ o \in pushed
    BY <1>5 DEF ThreadHolds, OwnedAreLive, TypeOK, Held
  <2>2. o \notin ToSet(queue) /\ \A v \in Conns \ {w} : operation[v] # o
    BY <2>1 DEF SingleOwner
  <2> HIDE DEF o
  <2>3. /\ thread' = [thread EXCEPT ![w] = "enter"]
        /\ operation' = [operation EXCEPT ![w] = NoOp]
        /\ deletes' = [deletes EXCEPT ![o] = deletes[o] + 1]
        /\ UNCHANGED <<queue, pushed, runs>>
    BY <1>5 DEF o
  <2>4. TypeOK'
    BY <1>5, <2>1, <2>3 DEF TypeOK, ThreadPC
  <2>5. Held' = Held \ {o}
    BY <2>1, <2>2, <2>3 DEF Held, TypeOK, o
  <2>6. SingleOwner'
    <3>1. \A u, v \in Conns : operation'[u] = operation'[v] /\ operation'[u] # NoOp => u = v
      BY <2>3 DEF SingleOwner, TypeOK
    <3>2. \A p \in Ops : deletes'[p] <= 1 /\ (deletes'[p] = 1 => p \notin ToSet(queue) \cup Held')
      BY <2>1, <2>2, <2>3, <2>5 DEF SingleOwner, TypeOK
    <3> QED
      BY <2>3, <2>5, <3>1, <3>2 DEF SingleOwner
  <2>7. ThreadHolds' /\ MainKnowsConnections'
    BY <1>5, <2>3 DEF ThreadHolds, MainKnowsConnections, TypeOK
  <2>8. OwnedAreLive'
    BY <2>1, <2>2, <2>3, <2>5 DEF OwnedAreLive, TypeOK
  <2> QED
    BY <2>4, <2>6, <2>7, <2>8
<1>6. CASE SpuriousWakeup(w)
  <2> USE DEF SpuriousWakeup, Wake, queueVars, loaderVars, history
  <2>1. TypeOK' /\ MainKnowsConnections'
    BY <1>6 DEF TypeOK, ThreadPC, MainKnowsConnections
  <2>2. \A v \in Conns : thread'[v] # thread[v] =>
          thread'[v] = "enter" /\ operation[v] = NoOp
    BY <1>6 DEF TypeOK, ThreadHolds
  <2> QED
    BY <1>6, <2>1, <2>2, OwnershipUnchanged
<1> QED
  BY <1>1, <1>2, <1>3, <1>4, <1>5, <1>6 DEF Worker

(* Main runs no operation; only Cancel deletes, and only what is queued. *)
LEMMA MainKeepsIInv ==
  ASSUME IInv, Main
  PROVE  IInv'
<1> USE DEF IInv
<1>1. ASSUME NEW w \in Conns, CreateConnection(w) PROVE IInv'
  <2> USE DEF CreateConnection, queueVars, history
  <2>1. <<w>> \in Seq(Conns) /\ <<w>> # <<>>
    OBVIOUS
  <2>2. TypeOK' /\ MainKnowsConnections'
    BY <1>1, <2>1 DEF TypeOK, ThreadPC, MainPC, MainKnowsConnections
  <2>3. \A v \in Conns : thread'[v] # thread[v] => thread'[v] = "enter" /\ operation[v] = NoOp
    BY <1>1 DEF TypeOK, ThreadHolds
  <2> QED
    BY <1>1, <2>2, <2>3, OwnershipUnchanged
<1>2. CASE ConnectOk
  <2> USE DEF ConnectOk, queueVars, workerVars, history
  <2>1. <<>> \in Seq(Conns) /\ conns \o dying \in Seq(Conns)
    BY EmptySeq, ConcatProperties DEF TypeOK
  <2>2. index' \in 0 .. AsyncThreads
    BY <1>2 DEF TypeOK, MainKnowsConnections
  <2>3. dying # <<>> => conns \o dying # <<>>
    BY ConcatEqualIffEmpty, ConcatProperties, LenProperties, EmptySeq DEF TypeOK
  <2>4. TypeOK' /\ MainKnowsConnections'
    BY <1>2, <2>1, <2>2, <2>3 DEF TypeOK, MainPC, MainKnowsConnections
  <2> QED
    BY <1>2, <2>4, OwnershipUnchanged
<1>3. ASSUME NEW e \in Errors, ConnectFails(e) PROVE IInv'
  <2> USE DEF ConnectFails, queueVars, workerVars, history
  <2>1. <<>> \in Seq(Conns) /\ conns \o dying \in Seq(Conns)
    BY EmptySeq, ConcatProperties DEF TypeOK
  <2>2. dying # <<>> => conns \o dying # <<>>
    BY ConcatEqualIffEmpty, ConcatProperties, LenProperties, EmptySeq DEF TypeOK
  <2>3. TypeOK' /\ MainKnowsConnections'
    BY <1>3, <2>1, <2>2 DEF TypeOK, MainPC, MainKnowsConnections
  <2> QED
    BY <1>3, <2>3, OwnershipUnchanged
<1>4. CASE ServerTooOld
  <2> USE DEF ServerTooOld, queueVars, workerVars, history
  <2>1. TypeOK' /\ MainKnowsConnections'
    BY <1>4 DEF TypeOK, MainPC, Errors, MainKnowsConnections
  <2> QED
    BY <1>4, <2>1, OwnershipUnchanged
<1>5. ASSUME NEW e \in Errors, OpenSynch(e) PROVE IInv'
  <2> USE DEF OpenSynch, queueVars, workerVars, history
  <2>1. TypeOK' /\ MainKnowsConnections'
    BY <1>5 DEF TypeOK, MainPC, MainKnowsConnections
  <2> QED
    BY <1>5, <2>1, OwnershipUnchanged
<1>6. CASE CreateAndReopen \/ GiveUp
  <2> USE DEF CreateAndReopen, GiveUp, queueVars, workerVars, history
  <2>1. index' \in 0 .. AsyncThreads
    BY <1>6 DEF TypeOK
  <2>2. TypeOK'
    BY <1>6, <2>1 DEF TypeOK, MainPC, Errors
  <2>3. MainKnowsConnections'
    BY <1>6 DEF MainKnowsConnections
  <2> QED
    BY <1>6, <2>2, <2>3, OwnershipUnchanged
<1>7. CASE Close
  <2> USE DEF Close, queueVars, workerVars, history
  <2>1. TypeOK'
    BY <1>7, EmptySeq DEF TypeOK, MainPC
  <2>2. MainKnowsConnections'
    BY <1>7 DEF MainKnowsConnections, TypeOK
  <2> QED
    BY <1>7, <2>1, <2>2, OwnershipUnchanged
<1>8. CASE DestroyPool
  <2> USE DEF DestroyPool
  <2>1. TypeOK' /\ MainKnowsConnections'
    BY <1>8, EmptySeq, CancelKeepsOwnership DEF TypeOK, MainPC, MainKnowsConnections
  <2> QED
    BY <1>8, <2>1, CancelKeepsOwnership
<1>9. CASE SetToken
  <2> USE DEF SetToken, queueVars, history
  <2>1. TypeOK' /\ MainKnowsConnections'
    BY <1>9 DEF TypeOK, MainPC, MainKnowsConnections
  <2> QED
    BY <1>9, <2>1, OwnershipUnchanged
<1>10. CASE CancelQueue
  <2> USE DEF CancelQueue
  <2>1. TypeOK' /\ MainKnowsConnections'
    BY <1>10, CancelKeepsOwnership DEF TypeOK, MainPC, MainKnowsConnections
  <2> QED
    BY <1>10, <2>1, CancelKeepsOwnership
<1>11. CASE Join
  <2> USE DEF Join, queueVars, history
  <2>1. dying # <<>> /\ Tail(dying) \in Seq(Conns)
    BY <1>11, HeadTailProperties DEF MainKnowsConnections, TypeOK
  <2>2. TypeOK' /\ MainKnowsConnections'
    BY <1>11, <2>1 DEF TypeOK, ThreadPC, MainPC, MainKnowsConnections
  <2>3. \A v \in Conns : thread'[v] # thread[v] => thread'[v] = "none" /\ operation[v] = NoOp
    BY <1>11 DEF TypeOK, ThreadHolds
  <2> QED
    BY <1>11, <2>2, <2>3, OwnershipUnchanged
<1> QED
  BY <1>1, <1>2, <1>3, <1>4, <1>5, <1>6, <1>7, <1>8, <1>9, <1>10, <1>11 DEF Main

-----------------------------------------------------------------------------
(* IInv holds in every reachable state. *)
THEOREM InductiveInvariant == Spec => []IInv
<1>1. IInv /\ [Next]_vars => IInv'
  <2> SUFFICES ASSUME IInv, [Next]_vars PROVE IInv'
    OBVIOUS
  <2>1. CASE Next
    BY <2>1, EnqueueKeepsIInv, WorkerKeepsIInv, MainKeepsIInv DEF Next
  <2>2. CASE UNCHANGED vars
    <3> USE <2>2 DEF vars, queueVars, workerVars, loaderVars, history
    <3>1. TypeOK' /\ MainKnowsConnections'
      BY DEF IInv, TypeOK, MainKnowsConnections
    <3> QED
      BY <3>1, OwnershipUnchanged DEF IInv
  <2> QED
    BY <2>1, <2>2
<1> QED
  BY InitIInv, <1>1, PTL DEF Spec

(* Every variable of the pool keeps its type. *)
THEOREM TypeCorrect == Spec => []TypeOK
<1>1. IInv => TypeOK
  BY DEF IInv
<1> QED
  BY <1>1, InductiveInvariant, PTL

(* The worker threads, Cancel and the destructors never run an operation     *)
(* twice, delete it twice, or keep a pointer to one that is deleted.         *)
THEOREM PointerOwnership == Spec => []SingleOwner
<1>1. IInv => SingleOwner
  BY DEF IInv
<1> QED
  BY <1>1, InductiveInvariant, PTL

-----------------------------------------------------------------------------
(* Wakeups and service.  Before the pool is open nothing has been enqueued;  *)
(* a token or an empty-handed pop is seen only by a thread that is being     *)
(* destroyed or whose queue is shut down; the threads behind `_connections`  *)
(* exist for as long as the queue is not shut down.                          *)
Starting == \/ main \in {"opening", "connecting", "errored"}
            \/ main \in {"token", "cancel", "join"} /\ resume = "errored"

ServiceInv ==
  /\ Starting => pushed = {}
  /\ \A w \in Conns : token[w] /\ thread[w] # "none" =>
        main \in {"cancel", "join"} /\ w = Head(dying)
  /\ main = "join" => shutdown
  /\ \A w \in Conns : thread[w] = "popped" /\ operation[w] = NoOp => shutdown
  /\ \A w \in Conns : thread[w] = "exited" => shutdown \/ token[w]
  /\ ~shutdown => \A w \in ToSet(conns) : thread[w] # "none"
  /\ ~shutdown /\ main = "connecting" => \A w \in ToSet(dying) : thread[w] # "none"
  /\ ~retried /\ main \in {"opening", "connecting", "open"} => ~shutdown

Promises == ServiceInv /\ NoLostWakeup /\ NothingDroppedInService

(* What appending a connection adds to the connections of the pool. *)
LEMMA ConnsElements ==
  ASSUME NEW s \in Seq(Conns), NEW t \in Seq(Conns)
  PROVE  ToSet(s \o t) = ToSet(s) \cup ToSet(t) /\ ToSet(s) \subseteq Conns
<1>1. /\ DOMAIN s = 1 .. Len(s) /\ DOMAIN t = 1 .. Len(t) /\ Len(s) \in Nat /\ Len(t) \in Nat
      /\ \A i \in 1 .. Len(s) : s[i] \in Conns
  BY LenProperties, ElementOfSeq
<1>2. /\ s \o t \in Seq(Conns) /\ DOMAIN (s \o t) = 1 .. Len(s) + Len(t)
      /\ \A i \in 1 .. Len(s) + Len(t) :
           (s \o t)[i] = IF i <= Len(s) THEN s[i] ELSE t[i - Len(s)]
  BY ConcatProperties, LenProperties
<1>3. ASSUME NEW x \in ToSet(s) \cup ToSet(t) PROVE x \in ToSet(s \o t)
  <2>1. CASE x \in ToSet(s)
    <3>1. PICK i \in 1 .. Len(s) : s[i] = x
      BY <1>1, <2>1 DEF ToSet
    <3>2. i \in 1 .. Len(s) + Len(t) /\ (s \o t)[i] = x
      BY <1>1, <1>2, <3>1
    <3> QED
      BY <1>2, <3>2 DEF ToSet
  <2>2. CASE x \in ToSet(t)
    <3>1. PICK i \in 1 .. Len(t) : t[i] = x
      BY <1>1, <2>2 DEF ToSet
    <3>2. i + Len(s) \in 1 .. Len(s) + Len(t) /\ (s \o t)[i + Len(s)] = x
      BY <1>1, <1>2, <3>1
    <3> QED
      BY <1>2, <3>2 DEF ToSet
  <2> QED
    BY <1>3, <2>1, <2>2
<1>4. ASSUME NEW x \in ToSet(s \o t) PROVE x \in ToSet(s) \cup ToSet(t)
  <2>1. PICK i \in 1 .. Len(s) + Len(t) : (s \o t)[i] = x
    BY <1>2, <1>4 DEF ToSet
  <2>2. CASE i <= Len(s)
    BY <1>1, <1>2, <2>1, <2>2 DEF ToSet
  <2>3. CASE ~(i <= Len(s))
    <3>1. i - Len(s) \in 1 .. Len(t) /\ t[i - Len(s)] = x
      BY <1>1, <1>2, <2>1, <2>3
    <3> QED
      BY <1>1, <3>1 DEF ToSet
  <2> QED
    BY <2>2, <2>3
<1> QED
  BY <1>1, <1>3, <1>4 DEF ToSet

(* A pool that is not open yet promises nothing. *)
LEMMA InitPromises == Init => Promises
<1> SUFFICES ASSUME Init PROVE Promises
  OBVIOUS
<1>1. ToSet(conns) = {} /\ ToSet(dying) = {}
  BY DEF Init, ToSet
<1>2. ServiceInv
  BY <1>1 DEF Init, ServiceInv, Starting
<1> QED
  BY <1>2 DEF Promises, Init, NoLostWakeup, NothingDroppedInService, InService

(* Push notifies a worker, ... *)
LEMMA EnqueueKeepsPromises ==
  ASSUME IInv, Promises, NEW o \in Ops, Enqueue(o)
  PROVE  Promises'
<1> USE DEF IInv, Promises
<1>1. /\ main = "open" /\ o \notin pushed /\ pushed' = pushed \cup {o}
      /\ UNCHANGED <<shutdown, operation, token, loaderVars, runs, deletes>>
      /\ queue \in Seq(Ops) /\ queue' = Append(queue, o)
  BY DEF Enqueue, Push, TypeOK
<1>7. ToSet(queue') = ToSet(queue) \cup {o}
  BY <1>1, PushElements
<1>2. \A w \in Conns : \/ thread'[w] = thread[w]
                       \/ thread[w] = "waiting" /\ thread'[w] = "enter"
  <2>1. CASE UNCHANGED thread
    BY <2>1
  <2>2. ASSUME NEW v \in Waiters, Wake({v})
        PROVE  \A w \in Conns : \/ thread'[w] = thread[w]
                                \/ thread[w] = "waiting" /\ thread'[w] = "enter"
    <3>1. \A w \in Conns : thread'[w] = IF w = v THEN "enter" ELSE thread[w]
      BY <2>2 DEF Wake
    <3>2. thread[v] = "waiting"
      BY DEF Waiters
    <3> QED
      BY <3>1, <3>2
  <2> QED
    BY <2>1, <2>2 DEF Enqueue, Push
<1>3. ServiceInv'
  <2> USE <1>1, <1>2 DEF loaderVars
  <2>1. ToSet(conns) \subseteq Conns
    BY ConnsElements DEF TypeOK
  <2>2. ToSet(conns') = ToSet(conns)
    OBVIOUS
  <2> QED
    BY <2>1, <2>2 DEF ServiceInv, Starting
<1>4. NothingDroppedInService'
  <2>1. Held' = Held
    BY <1>1 DEF Held
  <2> QED
    BY <1>1, <1>7, <2>1 DEF NothingDroppedInService, Dropped, InService, loaderVars
<1>5. ASSUME ~shutdown
      PROVE  \E w \in Conns : thread'[w] \in {"enter", "popped", "calling", "called"}
  <2>1. CASE Waiters = {}
    <3>1. conns # <<>> /\ conns \in Seq(Conns)
      BY <1>1 DEF MainKnowsConnections, TypeOK
    <3>2. PICK w \in ToSet(conns) : w \in Conns
      <4>1. 1 \in DOMAIN conns /\ conns[1] \in Conns
        BY <3>1, LenProperties, EmptySeq, ElementOfSeq
      <4> QED
        BY <4>1 DEF ToSet
    <3>3. thread[w] \notin {"none", "exited", "waiting"}
      BY <1>1, <1>5, <2>1, <3>2 DEF ServiceInv, Waiters
    <3>4. thread'[w] = thread[w] /\ thread[w] \in ThreadPC
      BY <1>2, <3>2, <3>3 DEF TypeOK
    <3> QED
      BY <3>2, <3>3, <3>4 DEF ThreadPC
  <2>2. CASE Waiters # {}
    <3>1. PICK w \in Waiters : Wake({w})
      BY <2>2 DEF Enqueue, Push
    <3>2. w \in Conns /\ thread'[w] = "enter"
      BY <3>1 DEF Waiters, Wake
    <3> QED
      BY <3>2
  <2> QED
    BY <2>1, <2>2
<1>6. NoLostWakeup'
  BY <1>1, <1>5 DEF NoLostWakeup
<1> QED
  BY <1>3, <1>4, <1>6

(* ... a worker takes another operation before it waits, ... *)
LEMMA WorkerKeepsPromises ==
  ASSUME IInv, IInv', Promises, NEW w \in Conns, Worker(w) \/ SpuriousWakeup(w)
  PROVE  Promises'
<1> USE DEF IInv, Promises
<1>1. UNCHANGED <<shutdown, token, loaderVars, pushed>>
  BY DEF Worker, WaitAndPop, CheckToken, Call, Delete, SpuriousWakeup, queueVars, history
<1>2. \A v \in Conns \ {w} : thread'[v] = thread[v] /\ operation'[v] = operation[v]
  BY DEF Worker, WaitAndPop, CheckToken, Call, Delete, SpuriousWakeup, Wake, TypeOK
<1>3. /\ thread[w] \notin {"none", "exited"} /\ thread'[w] # "none"
      /\ thread'[w] = "exited" => thread[w] = "popped" /\ (token[w] \/ operation[w] = NoOp)
      /\ thread'[w] = "popped" /\ operation'[w] = NoOp => shutdown
  <2>1. CASE WaitAndPop(w)
    <3>1. queue # <<>> => Head(queue) \in Ops
      BY HeadTailProperties, LenProperties, EmptySeq, ElementOfSeq DEF TypeOK
    <3> QED
      BY <2>1, <3>1 DEF WaitAndPop, TypeOK
  <2>2. CASE CheckToken(w) \/ Call(w) \/ Delete(w) \/ SpuriousWakeup(w)
    BY <2>2 DEF CheckToken, Call, Delete, SpuriousWakeup, Wake, TypeOK
  <2> QED
    BY <2>1, <2>2 DEF Worker
<1>4. ServiceInv'
  <2>1. ToSet(conns) \subseteq Conns /\ ToSet(dying) \subseteq Conns
    BY ConnsElements DEF TypeOK
  <2>2. ToSet(conns') = ToSet(conns) /\ ToSet(dying') = ToSet(dying)
    BY <1>1 DEF loaderVars
  <2>3. Starting' = Starting
    BY <1>1 DEF Starting, loaderVars
  <2>4. thread'[w] = "exited" => shutdown \/ token[w]
    BY <1>3 DEF ServiceInv
  <2> QED
    BY <1>1, <1>2, <1>3, <2>1, <2>2, <2>3, <2>4 DEF ServiceInv, loaderVars
<1>5. ASSUME main = "open" PROVE ~token[w]
  BY <1>3, <1>5 DEF ServiceInv
<1>6. NoLostWakeup'
  <2> SUFFICES ASSUME main = "open", queue' # <<>>, ~shutdown
               PROVE  \E v \in Conns : thread'[v] \in {"enter", "popped", "calling", "called"}
    BY <1>1 DEF NoLostWakeup, InService, loaderVars
  <2>1. CASE thread'[w] \in {"enter", "popped", "calling", "called"}
    BY <2>1
  <2>2. CASE thread'[w] \notin {"enter", "popped", "calling", "called"}
    <3>1. thread'[w] # "exited"
      BY <1>3, <1>5 DEF ServiceInv
    <3>2. thread'[w] = "waiting"
      BY <1>3, <2>2, <3>1 DEF TypeOK, ThreadPC
    <3>3. queue = <<>> /\ queue' = queue
      BY <3>2 DEF Worker, WaitAndPop, CheckToken, Call, Delete, SpuriousWakeup, Wake, TypeOK
    <3> QED
      BY <3>3
  <2> QED
    BY <2>1, <2>2
<1>7. NothingDroppedInService'
  <2> SUFFICES ASSUME main = "open" PROVE Dropped' = {}
    BY <1>1 DEF NothingDroppedInService, InService, loaderVars
  <2>1. Dropped = {}
    BY DEF NothingDroppedInService, InService
  <2>2. \A o \in Ops : runs[o] # 0 => runs'[o] # 0
    BY DEF Worker, WaitAndPop, CheckToken, Call, Delete, SpuriousWakeup, TypeOK, history
  <2>3. CASE WaitAndPop(w)
    <3>1. CASE queue # <<>> /\ ~shutdown
      <4>1. ToSet(queue') = ToSet(queue) \ {Head(queue)} /\ operation'[w] = Head(queue)
            /\ Head(queue) \in Ops /\ operation[w] = NoOp
        BY <2>3, <3>1, PopElements DEF WaitAndPop, TypeOK, SingleOwner, ThreadHolds
      <4>2. Held' = Held \cup {Head(queue)}
        BY <1>2, <4>1 DEF Held, TypeOK
      <4> QED
        BY <1>1, <2>1, <2>2, <4>1, <4>2 DEF Dropped, TypeOK
    <3>2. CASE ~(queue # <<>> /\ ~shutdown)
      <4>1. ToSet(queue') = ToSet(queue) /\ Held' = Held
        BY <2>3, <3>2 DEF WaitAndPop, Held
      <4> QED
        BY <1>1, <2>1, <2>2, <4>1 DEF Dropped, TypeOK
    <3> QED
      BY <3>1, <3>2
  <2>4. CASE Delete(w)
    <3>1. /\ operation[w] \in Ops /\ runs[operation[w]] # 0 /\ runs' = runs
          /\ ToSet(queue') = ToSet(queue)
      BY <2>4 DEF Delete, ThreadHolds, OwnedAreLive, TypeOK, queueVars
    <3>2. Held \ {operation[w]} \subseteq Held'
      BY <1>2, <2>4 DEF Held
    <3> QED
      BY <1>1, <2>1, <3>1, <3>2 DEF Dropped
  <2>5. CASE CheckToken(w) \/ Call(w) \/ SpuriousWakeup(w)
    <3>1. ToSet(queue') = ToSet(queue)
      BY <2>5 DEF CheckToken, Call, SpuriousWakeup, queueVars
    <3>2. Held \subseteq Held'
      BY <1>5, <2>5 DEF CheckToken, Call, SpuriousWakeup, Held, TypeOK
    <3> QED
      BY <1>1, <2>1, <2>2, <3>1, <3>2 DEF Dropped, TypeOK
  <2> QED
    BY <2>3, <2>4, <2>5 DEF Worker
<1> QED
  BY <1>4, <1>6, <1>7

(* ... and only a closing pool cancels its queue. *)
LEMMA MainKeepsPromises ==
  ASSUME IInv, IInv', Promises, Main
  PROVE  Promises'
<1> USE DEF IInv, Promises
<1>1. (main # "open" /\ main' = "open") => pushed' = {} /\ queue' = <<>> /\ Dropped' = {}
  <2> SUFFICES ASSUME main # "open", main' = "open"
               PROVE  pushed' = {} /\ queue' = <<>> /\ Dropped' = {}
    OBVIOUS
  <2>1. pushed' = pushed /\ pushed = {}
    <3>1. \E e \in Errors : OpenSynch(e)
      BY DEF Main, CreateConnection, ConnectOk, ServerTooOld, ConnectFails,
             CreateAndReopen, GiveUp, Close, DestroyPool, SetToken, CancelQueue, Join,
             MainKnowsConnections
    <3> QED
      BY <3>1 DEF OpenSynch, history, ServiceInv, Starting
  <2>2. ToSet(queue') = {} /\ queue' \in Seq(Ops)
    BY <2>1 DEF OwnedAreLive, TypeOK
  <2>3. queue' = <<>>
    BY <2>2, LenProperties, EmptySeq DEF ToSet
  <2> QED
    BY <2>1, <2>3 DEF Dropped
<1>2. main = "open" => main' # "open"
  BY DEF Main, CreateConnection, ConnectOk, ServerTooOld, ConnectFails, OpenSynch,
         CreateAndReopen, GiveUp, Close, DestroyPool, SetToken, CancelQueue, Join
<1>3. NoLostWakeup' /\ NothingDroppedInService'
  BY <1>1, <1>2 DEF NoLostWakeup, NothingDroppedInService, InService
<1>4. ServiceInv'
  <2>0. /\ ToSet(conns) \subseteq Conns /\ ToSet(dying) \subseteq Conns
        /\ ToSet(conns \o dying) = ToSet(conns) \cup ToSet(dying)
    BY ConnsElements DEF TypeOK
  <2>1. ASSUME NEW w \in Conns, CreateConnection(w) PROVE ServiceInv'
    <3>1. /\ main = "opening" /\ main' = "connecting" /\ thread[w] = "none"
          /\ thread' = [thread EXCEPT ![w] = "enter"] /\ token' = [token EXCEPT ![w] = FALSE]
          /\ UNCHANGED <<shutdown, operation, pushed, conns>>
      BY <2>1 DEF CreateConnection, queueVars, history
    <3>2. \A v \in Conns : thread'[v] = (IF v = w THEN "enter" ELSE thread[v])
                        /\ token'[v] = (IF v = w THEN FALSE ELSE token[v])
      BY <3>1 DEF TypeOK
    <3>3. ToSet(dying') = {w}
      BY <2>1 DEF CreateConnection, ToSet
    <3>4. ToSet(conns') = ToSet(conns)
      BY <3>1
    <3>5. Starting /\ pushed = {}
      BY <3>1 DEF Starting, ServiceInv
    <3>6. \A v \in Conns : ~(token'[v] /\ thread'[v] # "none")
      BY <3>1, <3>2 DEF ServiceInv
    <3>7. \A v \in Conns : thread'[v] = "popped" /\ operation'[v] = NoOp => shutdown'
      BY <3>1, <3>2 DEF ServiceInv
    <3>8. \A v \in Conns : thread'[v] = "exited" => shutdown' \/ token'[v]
      BY <3>1, <3>2 DEF ServiceInv
    <3>9. ~shutdown' => \A v \in ToSet(conns') \cup ToSet(dying') : thread'[v] # "none"
      <4>1. \A v \in Conns : thread[v] # "none" \/ v = w => thread'[v] # "none"
        BY <3>2
      <4> QED
        BY <2>0, <3>1, <3>3, <3>4, <4>1 DEF ServiceInv
    <3>10. ~retried' => ~shutdown'
      BY <2>1, <3>1 DEF ServiceInv, CreateConnection
    <3> QED
      BY <3>1, <3>5, <3>6, <3>7, <3>8, <3>9, <3>10 DEF ServiceInv
  <2>2. CASE ConnectOk
    <3>1. ToSet(conns') = ToSet(conns) \cup ToSet(dying)
      BY <2>0, <2>2 DEF ConnectOk
    <3>2. /\ main = "connecting" /\ main' = "opening"
          /\ UNCHANGED <<shutdown, thread, operation, token, retried, pushed>>
      BY <2>2 DEF ConnectOk, queueVars, workerVars, history
    <3> QED
      BY <2>0, <3>1, <3>2 DEF ServiceInv, Starting
  <2>3. ASSUME NEW e \in Errors, ConnectFails(e) PROVE ServiceInv'
    <3>1. ToSet(conns') = {}
      BY <2>3 DEF ConnectFails, ToSet
    <3>2. /\ main = "connecting" /\ main' = "token"
          /\ UNCHANGED <<shutdown, thread, operation, token, pushed>>
      BY <2>3 DEF ConnectFails, queueVars, workerVars, history
    <3> QED
      BY <3>1, <3>2 DEF ServiceInv, Starting
  <2>4. CASE ServerTooOld
    BY <2>0, <2>4 DEF ServerTooOld, ServiceInv, Starting, queueVars, workerVars, history
  <2>5. ASSUME NEW e \in Errors, OpenSynch(e) PROVE ServiceInv'
    BY <2>0, <2>5 DEF OpenSynch, ServiceInv, Starting, queueVars, workerVars, history
  <2>6. CASE CreateAndReopen \/ GiveUp
    BY <2>0, <2>6 DEF CreateAndReopen, GiveUp, ServiceInv, Starting, queueVars, workerVars, history
  <2>7. CASE Close
    <3>1. ToSet(conns') = {}
      BY <2>7 DEF Close, ToSet
    <3>2. /\ main = "open" /\ main' = "token" /\ resume' = "closed"
          /\ UNCHANGED <<shutdown, thread, operation, token, pushed>>
      BY <2>7 DEF Close, queueVars, workerVars, history
    <3> QED
      BY <3>1, <3>2 DEF ServiceInv, Starting
  <2>8. CASE DestroyPool \/ CancelQueue
    <3>1. /\ shutdown' /\ UNCHANGED <<operation, token, pushed>>
          /\ \A w \in Conns : \/ thread'[w] = thread[w]
                              \/ thread[w] = "waiting" /\ thread'[w] = "enter"
      BY <2>8 DEF DestroyPool, CancelQueue, Cancel, Wake, Waiters, TypeOK
    <3>2. main' \notin {"opening", "connecting", "errored", "open"}
      BY <2>8 DEF DestroyPool, CancelQueue
    <3>3. Starting' => Starting
      BY <2>8 DEF Starting, DestroyPool, CancelQueue
    <3>4. \A w \in Conns : token[w] /\ thread'[w] # "none" =>
            main' \in {"cancel", "join"} /\ w = Head(dying')
      BY <2>8, <3>1 DEF ServiceInv, DestroyPool, CancelQueue
    <3> QED
      BY <3>1, <3>2, <3>3, <3>4 DEF ServiceInv
  <2>9. CASE SetToken
    BY <2>0, <2>9 DEF SetToken, ServiceInv, Starting, TypeOK, queueVars, history
  <2>10. CASE Join
    <3> USE DEF Join, queueVars, history
    <3>1. shutdown
      BY <2>10 DEF ServiceInv
    <3>2. main' \notin {"opening", "connecting", "open"}
      BY <2>10 DEF MainKnowsConnections, TypeOK
    <3>3. \A w \in Conns : token[w] => thread'[w] = "none"
      BY <2>10 DEF ServiceInv, TypeOK
    <3> QED
      BY <2>10, <3>1, <3>2, <3>3 DEF ServiceInv, Starting, TypeOK
  <2> QED
    BY <2>1, <2>2, <2>3, <2>4, <2>5, <2>6, <2>7, <2>8, <2>9, <2>10 DEF Main
<1> QED
  BY <1>3, <1>4

(* The promises hold in every reachable state. *)
LEMMA PromisesHold == Spec => []Promises
<1>1. IInv /\ IInv' /\ Promises /\ [Next]_vars => Promises'
  <2> SUFFICES ASSUME IInv, IInv', Promises, [Next]_vars PROVE Promises'
    OBVIOUS
  <2>1. CASE Next
    BY <2>1, EnqueueKeepsPromises, WorkerKeepsPromises, MainKeepsPromises DEF Next
  <2>2. CASE UNCHANGED vars
    BY <2>2 DEF vars, queueVars, workerVars, loaderVars, history, Promises, ServiceInv, Starting,
      NoLostWakeup, NothingDroppedInService, InService, Dropped, Held
  <2> QED
    BY <2>1, <2>2
<1> QED
  BY InitPromises, InductiveInvariant, <1>1, PTL DEF Spec

(* One notify_one per Push keeps a worker awake whenever there is work.      *)
THEOREM WorkIsNoticed == Spec => []NoLostWakeup
<1>1. Promises => NoLostWakeup
  BY DEF Promises
<1> QED
  BY <1>1, PromisesHold, PTL

(* A pool in service drops no operation.                                     *)
THEOREM NothingIsDropped == Spec => []NothingDroppedInService
<1>1. Promises => NothingDroppedInService
  BY DEF Promises
<1> QED
  BY <1>1, PromisesHold, PTL

(* Without a second Open() after a failed one, the workers of an open pool   *)
(* are running.                                                              *)
THEOREM OpenedOnceIsRunning == Spec => []FirstOpenIsRunning
<1>1. IInv /\ Promises => FirstOpenIsRunning
  <2> SUFFICES ASSUME IInv, Promises, main = "open", ~retried, NEW i \in DOMAIN conns
               PROVE  thread[conns[i]] # "exited"
    BY DEF FirstOpenIsRunning, OpenPoolIsRunning, InService
  <2>1. conns[i] \in Conns
    BY ElementOfSeq, LenProperties DEF IInv, TypeOK
  <2>2. ~shutdown
    BY DEF Promises, ServiceInv
  <2> QED
    BY <2>1, <2>2 DEF Promises, ServiceInv
<1> QED
  BY <1>1, InductiveInvariant, PromisesHold, PTL

-----------------------------------------------------------------------------
(* Ownership of the threads.  Outside the destruction of connections and the *)
(* opening of one, nothing is left to be destroyed: `dying` can be assigned. *)
OwnershipInv ==
  /\ ThreadsAreOwned
  /\ main \in {"opening", "errored", "open", "closed", "exited"} => dying = <<>>

(* What is not the head of a sequence is in its tail. *)
LEMMA TailElements ==
  ASSUME NEW s \in Seq(Conns), s # <<>>
  PROVE  /\ Head(s) \in Conns /\ Tail(s) \in Seq(Conns)
         /\ \A w \in ToSet(s) : w # Head(s) => w \in ToSet(Tail(s))
<1>1. /\ Tail(s) \in Seq(Conns) /\ Len(s) \in Nat \ {0} /\ Len(Tail(s)) = Len(s) - 1
      /\ DOMAIN s = 1 .. Len(s) /\ DOMAIN Tail(s) = 1 .. Len(Tail(s))
      /\ \A i \in 1 .. Len(Tail(s)) : Tail(s)[i] = s[i + 1]
      /\ Head(s) = s[1] /\ s[1] \in Conns
  BY HeadTailProperties, LenProperties, EmptySeq, ElementOfSeq
<1>2. ASSUME NEW w \in ToSet(s), w # Head(s) PROVE w \in ToSet(Tail(s))
  <2>1. PICK i \in 1 .. Len(s) : s[i] = w /\ i # 1
    BY <1>1, <1>2 DEF ToSet
  <2>2. i - 1 \in 1 .. Len(Tail(s)) /\ (i - 1) + 1 = i
    BY <1>1, <2>1
  <2>3. Tail(s)[i - 1] = w
    BY <1>1, <2>1, <2>2
  <2> QED
    BY <1>1, <2>2, <2>3 DEF ToSet
<1> QED
  BY <1>1, <1>2

(* Only main creates and joins threads; a worker never leaves its thread.    *)
LEMMA WorkerKeepsOwnership ==
  ASSUME IInv, OwnershipInv,
         \/ \E o \in Ops : Enqueue(o)
         \/ \E w \in Conns : Worker(w) \/ SpuriousWakeup(w)
  PROVE  OwnershipInv'
<1>1. UNCHANGED loaderVars
  BY DEF Enqueue, Worker, SpuriousWakeup, WaitAndPop, CheckToken, Call, Delete
<1>2. ASSUME NEW w \in Conns, thread'[w] # "none" PROVE thread[w] # "none"
  <2>1. CASE \E o \in Ops : Enqueue(o)
    BY <1>2, <2>1 DEF Enqueue, Push, Wake, Waiters, IInv, TypeOK
  <2>2. CASE \E v \in Conns : Worker(v) \/ SpuriousWakeup(v)
    BY <1>2, <2>2 DEF Worker, SpuriousWakeup, Wake, WaitAndPop, CheckToken, Call, Delete, IInv, TypeOK
  <2> QED
    BY <2>1, <2>2
<1> QED
  BY <1>1, <1>2 DEF loaderVars, OwnershipInv, ThreadsAreOwned

(* A thread main creates is `dying` until `_connections` owns it, and is     *)
(* `dying` again until it is joined.                                         *)
LEMMA MainKeepsOwnership ==
  ASSUME IInv, OwnershipInv, Main
  PROVE  OwnershipInv'
<1> USE DEF OwnershipInv, ThreadsAreOwned
<1>0. /\ ToSet(<<>>) = {} /\ conns \in Seq(Conns) /\ dying \in Seq(Conns)
      /\ thread \in [Conns -> ThreadPC]
      /\ ToSet(conns \o dying) = ToSet(conns) \cup ToSet(dying)
  <2>1. ToSet(<<>>) = {}
    BY DEF ToSet
  <2>2. conns \in Seq(Conns) /\ dying \in Seq(Conns) /\ thread \in [Conns -> ThreadPC]
    BY DEF IInv, TypeOK
  <2> QED
    BY <2>1, <2>2, ConnsElements
<1>1. ASSUME NEW w \in Conns, CreateConnection(w) PROVE OwnershipInv'
  <2>1. ToSet(<<w>>) = {w}
    BY DEF ToSet
  <2> QED
    BY <1>0, <1>1, <2>1 DEF CreateConnection
<1>2. CASE ConnectOk
  BY <1>0, <1>2 DEF ConnectOk, workerVars
<1>3. ASSUME NEW e \in Errors, ConnectFails(e) PROVE OwnershipInv'
  BY <1>0, <1>3 DEF ConnectFails, workerVars
<1>4. CASE ServerTooOld \/ (\E e \in Errors : OpenSynch(e)) \/ CreateAndReopen \/ GiveUp
  BY <1>4 DEF ServerTooOld, OpenSynch, CreateAndReopen, GiveUp, workerVars
<1>5. CASE Close
  BY <1>0, <1>5 DEF Close, workerVars
<1>6. CASE DestroyPool \/ CancelQueue
  <2>1. \A w \in Conns : thread'[w] # "none" => thread[w] # "none"
    BY <1>0, <1>6 DEF DestroyPool, CancelQueue, Cancel, Wake, Waiters
  <2> QED
    BY <1>0, <1>6, <2>1 DEF DestroyPool, CancelQueue
<1>7. CASE SetToken
  BY <1>7 DEF SetToken
<1>8. CASE Join
  <2>1. dying # <<>>
    BY <1>8 DEF Join, IInv, MainKnowsConnections
  <2>2. \A w \in ToSet(dying) : w # Head(dying) => w \in ToSet(dying')
    BY <1>0, <1>8, <2>1, TailElements DEF Join
  <2>3. \A w \in Conns : thread'[w] # "none" => thread[w] # "none" /\ w # Head(dying)
    BY <1>0, <1>8, <2>1, TailElements DEF Join
  <2>4. main' = "token" \/ dying' = <<>>
    BY <1>8 DEF Join
  <2> QED
    BY <1>8, <2>2, <2>3, <2>4 DEF Join
<1> QED
  BY <1>1, <1>2, <1>3, <1>4, <1>5, <1>6, <1>7, <1>8 DEF Main

(* Opening, reopening, closing and destroying the pool lose no thread: each  *)
(* one is joined by the destructor of the connection that started it.        *)
THEOREM ThreadsHaveOwners == Spec => []ThreadsAreOwned
<1>1. Init => OwnershipInv
  BY DEF Init, OwnershipInv, ThreadsAreOwned
<1>2. IInv /\ OwnershipInv /\ [Next]_vars => OwnershipInv'
  <2> SUFFICES ASSUME IInv, OwnershipInv, [Next]_vars PROVE OwnershipInv'
    OBVIOUS
  <2>1. CASE Next
    BY <2>1, WorkerKeepsOwnership, MainKeepsOwnership DEF Next
  <2>2. CASE UNCHANGED vars
    BY <2>2 DEF vars, workerVars, loaderVars, OwnershipInv, ThreadsAreOwned
  <2> QED
    BY <2>1, <2>2
<1>3. OwnershipInv => ThreadsAreOwned
  BY DEF OwnershipInv
<1> QED
  BY <1>1, <1>2, <1>3, InductiveInvariant, PTL DEF Spec

-----------------------------------------------------------------------------
(* The pool implements AsyncOperations: every step of a caller, a worker or  *)
(* main is a step of the abstract pool or leaves it unchanged.               *)
Started == {o \in Held : runs[o] = 0}

(* An operation's owner says in which abstract set it is.                    *)
LEMMA AbstractSets ==
  ASSUME IInv
  PROVE  /\ Abstract!Known \subseteq pushed
         /\ ToSet(queue) = {queue[i] : i \in DOMAIN queue}
         /\ Started \subseteq Ops /\ Held \subseteq Ops /\ ToSet(queue) \subseteq Ops
<1>1. ToSet(queue) = {queue[i] : i \in DOMAIN queue}
  BY DEF ToSet
<1>2. ToSet(queue) \subseteq Ops /\ Held \subseteq Ops /\ Started \subseteq Ops
  BY DEF IInv, OwnedAreLive, TypeOK, Started
<1>3. Abstract!Known = ToSet(queue) \cup Started \cup Done \cup Dropped
  BY <1>1 DEF Abstract!Known, Started
<1>4. Done \subseteq pushed
  <2>1. \A o \in Ops : runs[o] > 0 => o \in pushed
    <3> SUFFICES ASSUME NEW o \in Ops, o \notin pushed PROVE ~(runs[o] > 0)
      OBVIOUS
    <3>1. runs[o] = 0
      BY DEF IInv, OwnedAreLive
    <3> QED
      BY <3>1
  <2> QED
    BY <2>1 DEF Done
<1>5. Dropped \subseteq pushed
  BY DEF Dropped
<1>6. Started \subseteq pushed /\ ToSet(queue) \subseteq pushed
  BY DEF Started, IInv, OwnedAreLive
<1> QED
  BY <1>1, <1>2, <1>3, <1>4, <1>5, <1>6

(* A pool that is not opened yet has no operations. *)
LEMMA InitIsAbstract == Init => Abstract!Init
<1> SUFFICES ASSUME Init PROVE Abstract!Init
  OBVIOUS
<1>1. Held = {} /\ Done = {} /\ Dropped = {}
  BY DEF Init, Held, Done, Dropped
<1>2. {o \in Held : runs[o] = 0} = {}
  BY <1>1
<1> QED
  BY <1>1, <1>2 DEF Init, InService, Abstract!Init

(* Enqueue adds an operation that no one holds. *)
LEMMA EnqueueIsAbstract ==
  ASSUME IInv, NEW o \in Ops, Enqueue(o)
  PROVE  Abstract!Enqueue(o)
<1>1. /\ o \notin pushed /\ main = "open" /\ pushed' = pushed \cup {o}
      /\ UNCHANGED <<main, operation, runs>> /\ queue' = Append(queue, o) /\ queue \in Seq(Ops)
  BY DEF Enqueue, Push, loaderVars, IInv, TypeOK
<1>2. ToSet(queue') = ToSet(queue) \cup {o} /\ Held' = Held
  BY <1>1, PushElements DEF Held
<1>3. o \notin Abstract!Known
  BY <1>1, AbstractSets
<1>4. Started' = Started /\ Done' = Done
  BY <1>1, <1>2 DEF Started, Done
<1>5. Dropped' = Dropped
  BY <1>1, <1>2 DEF Dropped
<1> QED
  BY <1>1, <1>3, <1>4, <1>5 DEF Abstract!Enqueue, Started, InService

(* The steps of the abstract pool that concern one operation. *)
LEMMA AbstractSteps ==
  ASSUME NEW p \in Ops, Abstract!Enqueue(p) \/ Abstract!Finish(p) \/ Abstract!DropStarted(p)
  PROVE  Abstract!Next
BY DEF Abstract!Next, Abstract!Enqueue, Abstract!Finish, Abstract!DropStarted

(* A worker starts the oldest operation, finishes it, or drops it when its   *)
(* connection is being destroyed.                                            *)
LEMMA WorkerIsAbstract ==
  ASSUME IInv, ServiceInv, NEW w \in Conns, Worker(w) \/ SpuriousWakeup(w)
  PROVE  [Abstract!Next]_(Abstract!vars)
<1>o. PICK o \in Ops \cup {NoOp} : o = operation[w]
  BY DEF IInv, TypeOK
<1>0. UNCHANGED <<main, pushed>>
  BY DEF Worker, SpuriousWakeup, WaitAndPop, CheckToken, Call, Delete, loaderVars, history
<1>1. ASSUME UNCHANGED <<queue, runs>>, Held' = Held PROVE UNCHANGED Abstract!vars
  BY <1>0, <1>1 DEF Abstract!vars, Done, Dropped, InService
<1>2. CASE SpuriousWakeup(w)
  BY <1>1, <1>2 DEF SpuriousWakeup, queueVars, history, Held
<1>3. CASE WaitAndPop(w) /\ UNCHANGED operation /\ UNCHANGED queue
  BY <1>1, <1>3 DEF WaitAndPop, history, Held
<1>4. CASE WaitAndPop(w) /\ queue # <<>> /\ operation' = [operation EXCEPT ![w] = Head(queue)] /\ queue' = Tail(queue)
  <2> DEFINE h == Head(queue)
  <2>1. /\ h \in Ops /\ h \in ToSet(queue) /\ ToSet(queue') = ToSet(queue) \ {h}
    BY <1>4, PopElements DEF IInv, TypeOK, SingleOwner
  <2> HIDE DEF h
  <2>2. operation[w] = NoOp /\ h # NoOp /\ runs' = runs /\ runs[h] = 0 /\ h \in pushed
    BY <1>4, <2>1 DEF WaitAndPop, history, IInv, ThreadHolds, OwnedAreLive
  <2>3. Held' = Held \cup {h}
    BY <1>4, <2>1, <2>2 DEF Held, IInv, TypeOK, h
  <2>4. Started' = Started \cup {h} /\ Done' = Done
    BY <2>2, <2>3 DEF Started, Done
  <2>5. Dropped' = Dropped
    BY <1>0, <2>1, <2>2, <2>3 DEF Dropped
  <2>6. Abstract!Start
    BY <1>0, <1>4, <2>4, <2>5 DEF Abstract!Start, Started, InService, h
  <2> QED
    BY <2>6 DEF Abstract!Next
<1>5. CASE CheckToken(w) /\ operation' = operation
  BY <1>1, <1>5 DEF CheckToken, queueVars, history, Held
<1>6. CASE CheckToken(w) /\ operation' # operation
  <2>1. /\ thread[w] = "popped" /\ token[w] /\ operation' = [operation EXCEPT ![w] = NoOp]
        /\ o # NoOp /\ UNCHANGED <<queue, runs>>
    BY <1>o, <1>6 DEF CheckToken, queueVars, history, IInv, TypeOK
  <2>2. o \in Ops /\ o \in Held /\ runs[o] = 0 /\ o \in pushed /\ o \notin ToSet(queue)
    BY <1>o, <2>1 DEF IInv, TypeOK, Held, OwnedAreLive, SingleOwner
  <2>3. main # "open"
    BY <2>1 DEF ServiceInv
  <2>4. \A v \in Conns : v # w => operation[v] # o
    BY <1>o, <2>1 DEF IInv, SingleOwner
  <2>5. Held' = Held \ {o}
    BY <1>o, <2>1, <2>2, <2>4 DEF Held, IInv, TypeOK
  <2>6. Started' = Started \ {o} /\ o \in Started /\ Done' = Done
    BY <2>1, <2>2, <2>5 DEF Started, Done
  <2>7. Dropped' = Dropped \cup {o}
    BY <1>0, <2>1, <2>2, <2>5 DEF Dropped
  <2>8. Abstract!DropStarted(o)
    BY <1>0, <2>1, <2>3, <2>6, <2>7 DEF Abstract!DropStarted, Started, InService
  <2> QED
    BY <2>2, <2>8, AbstractSteps
<1>7. CASE Call(w)
  <2>1. /\ thread[w] = "calling" /\ o # NoOp /\ o \in Ops /\ runs[o] = 0 /\ o \in Held
        /\ runs' = [runs EXCEPT ![o] = @ + 1] /\ UNCHANGED <<queue, operation>>
    BY <1>o, <1>7 DEF Call, queueVars, IInv, ThreadHolds, TypeOK, OwnedAreLive, Held
  <2>2. \A p \in Ops : runs[p] \in Nat /\ runs'[p] = IF p = o THEN 1 ELSE runs[p]
    BY <2>1 DEF IInv, TypeOK
  <2>3. Held' = Held /\ Held \subseteq Ops
    BY <1>o, <2>1, AbstractSets DEF Held
  <2>4. Started' = Started \ {o} /\ o \in Started
    BY <2>1, <2>2, <2>3 DEF Started
  <2>5. Done' = Done \cup {o}
    BY <2>1, <2>2 DEF Done
  <2>6. Dropped' = Dropped
    BY <1>0, <2>1, <2>2, <2>3 DEF Dropped, IInv, TypeOK
  <2>7. Abstract!Finish(o)
    BY <1>0, <2>1, <2>4, <2>5, <2>6 DEF Abstract!Finish, Started, InService
  <2> QED
    BY <2>1, <2>7, AbstractSteps
<1>8. CASE Delete(w)
  <2>1. /\ thread[w] = "called" /\ o # NoOp /\ o \in Ops /\ runs[o] = 1
        /\ operation' = [operation EXCEPT ![w] = NoOp] /\ UNCHANGED <<queue, runs>>
    BY <1>o, <1>8 DEF Delete, queueVars, IInv, ThreadHolds, TypeOK, OwnedAreLive
  <2>2. \A v \in Conns : v # w => operation[v] # o
    BY <1>o, <2>1 DEF IInv, SingleOwner
  <2>3. Held' = Held \ {o}
    BY <1>o, <2>1, <2>2 DEF Held, IInv, TypeOK
  <2>4. Started' = Started /\ Done' = Done
    BY <2>1, <2>3 DEF Started, Done
  <2>5. Dropped' = Dropped
    BY <1>0, <2>1, <2>3 DEF Dropped
  <2> QED
    BY <1>0, <2>1, <2>4, <2>5 DEF Abstract!vars, Started, InService
<1> QED
  BY <1>2, <1>3, <1>4, <1>5, <1>6, <1>7, <1>8 DEF Worker, WaitAndPop

(* Main opens the pool, closes it, and drops what is queued once it is closed. *)
LEMMA MainIsAbstract ==
  ASSUME IInv, Main
  PROVE  [Abstract!Next]_(Abstract!vars)
<1>0. UNCHANGED <<operation, pushed, runs>>
  BY DEF Main, CreateConnection, ConnectOk, ServerTooOld, ConnectFails, OpenSynch, CreateAndReopen,
         GiveUp, Close, DestroyPool, SetToken, CancelQueue, Join, workerVars, history
<1>1. Held' = Held /\ Started' = Started /\ Done' = Done
  BY <1>0 DEF Held, Started, Done
<1>2. CASE Cancel /\ main # "open" /\ main' # "open"
  <2>1. queue' = <<>> /\ ToSet(queue') = {}
    BY <1>2 DEF Cancel, ToSet
  <2>2. \A o \in ToSet(queue) : o \in pushed /\ runs[o] = 0 /\ o \notin Held
    BY DEF IInv, OwnedAreLive, SingleOwner
  <2>3. Dropped' = Dropped \cup ToSet(queue)
    BY <1>0, <1>1, <2>1, <2>2 DEF Dropped
  <2>4. Abstract!DropPending
    BY <1>1, <1>2, <2>1, <2>3, AbstractSets DEF Abstract!DropPending, Started, InService
  <2> QED
    BY <2>4 DEF Abstract!Next
<1>3. CASE UNCHANGED queue
  <2>1. Dropped' = Dropped
    BY <1>0, <1>1, <1>3 DEF Dropped
  <2> QED
    BY <1>1, <1>3, <2>1 DEF Abstract!vars, Abstract!Next, Abstract!Open, Abstract!Close, Started, InService
<1>4. UNCHANGED queue \/ (Cancel /\ main # "open" /\ main' # "open")
  <2>1. CASE DestroyPool \/ CancelQueue
    BY <2>1 DEF DestroyPool, CancelQueue
  <2>2. CASE ~(DestroyPool \/ CancelQueue)
    BY <2>2 DEF Main, CreateConnection, ConnectOk, ServerTooOld, ConnectFails, OpenSynch,
         CreateAndReopen, GiveUp, Close, SetToken, Join, queueVars
  <2> QED
    BY <2>1, <2>2
<1> QED
  BY <1>2, <1>3, <1>4

(* The pool keeps the promises of AsyncOperations: operations start in the   *)
(* order of Enqueue, each at most once, what a worker has begun runs to its  *)
(* end, and nothing is dropped while callers may enqueue.                    *)
THEOREM Refinement == Spec => ImplementsAsyncOperations
<1>1. IInv /\ Promises /\ [Next]_vars => [Abstract!Next]_(Abstract!vars)
  <2> SUFFICES ASSUME IInv, Promises, [Next]_vars PROVE [Abstract!Next]_(Abstract!vars)
    OBVIOUS
  <2>1. ASSUME NEW o \in Ops, Enqueue(o) PROVE [Abstract!Next]_(Abstract!vars)
    BY <2>1, EnqueueIsAbstract, AbstractSteps
  <2>2. ASSUME NEW w \in Conns, Worker(w) \/ SpuriousWakeup(w) PROVE [Abstract!Next]_(Abstract!vars)
    BY <2>2, WorkerIsAbstract DEF Promises
  <2>3. CASE UNCHANGED vars
    BY <2>3 DEF vars, queueVars, workerVars, loaderVars, history, Abstract!vars,
                Held, Done, Dropped, InService
  <2> QED
    BY <2>1, <2>2, <2>3, MainIsAbstract DEF Next
<1> QED
  BY <1>1, InitIsAbstract, InductiveInvariant, PromisesHold, PTL
     DEF Spec, ImplementsAsyncOperations, Abstract!Spec
=============================================================================
