------------------------------ MODULE MPSCQueue ------------------------------
(***************************************************************************)
(* The lock-free queue of many producers and one consumer, in its two      *)
(* forms: MPSCQueueNonIntrusive, a list of nodes that are allocated and    *)
(* freed, and MPSCQueueIntrusive, whose messages are the nodes, with a     *)
(* dummy node of its own.  Each action is one access to memory that the    *)
(* threads share; what only the thread itself can see joins it.  Memory    *)
(* is sequentially consistent: every load that another thread's store      *)
(* matters to is an acquire, every such store a release.                   *)
(***************************************************************************)
EXTENDS Sequences, FiniteSets

CONSTANTS
  Producers, Messages,
  Spare,    (* addresses for nodes, as many as new Node can need             *)
  Dummy,    (* _dummy, or the node the constructor allocates                 *)
  Nothing

Nodes == Messages \cup Spare \cup {Dummy}

ASSUME QueueAssumption ==
  /\ Messages \cap Spare = {} /\ Dummy \notin Messages \cup Spare
  /\ Nothing \notin Nodes

VARIABLES
  kind,       (* which template MPSCQueue stands for                         *)
  head, tail, (* _head, _tail                                                *)
  link,       (* Node::Next, or T::*IntrusiveLink                            *)
  data,       (* Node::Data; in the intrusive queue the node itself          *)
  held,       (* the nodes that are the queue's to use                       *)
  pc, node, previous,               (* each producer, its input and prevHead *)
  at, last, following, newHead,     (* the consumer, its locals tail, next,  *)
                                    (* and prevHead when it enqueues _dummy  *)
  closing,    (* the destructor has been called                              *)
  order,      (* the messages whose node was exchanged for _head, in order   *)
  excuse,     (* whether the call of Dequeue has met an Enqueue or no message *)
  output      (* what Dequeue has returned last                              *)

producers == <<pc, node, previous>>
consumer  == <<at, last, following, newHead>>
history   == <<order, excuse, output>>
queueVars == <<kind, head, tail, link, data, held, producers, consumer, closing, history>>

QueueInit ==
  /\ kind \in {"intrusive", "nonintrusive"}
  /\ head = Dummy /\ tail = Dummy
  /\ link = [n \in Nodes |-> Nothing]
  /\ data = [n \in Nodes |-> IF n \in Messages THEN n ELSE Nothing]
  /\ held = {Dummy}
  /\ pc = [p \in Producers |-> "idle"]
  /\ node = [p \in Producers |-> Nothing] /\ previous = [p \in Producers |-> Nothing]
  /\ at = "idle" /\ last = Nothing /\ following = Nothing /\ newHead = Nothing
  /\ closing = FALSE
  /\ order = <<>> /\ excuse = "no" /\ output = Nothing

-----------------------------------------------------------------------------
(* Enqueue *)

InUse(m) == \/ \E i \in DOMAIN order : order[i] = m
            \/ \E p \in Producers : pc[p] = "exchange" /\ data[node[p]] = m

(* new Node(input), or the input itself; its link is cleared.  A message that *)
(* Dequeue has given back may come again.                                    *)
Fresh(m) == IF kind = "intrusive" THEN {m} ELSE (Spare \cup {Dummy}) \ held

Enqueue(p, m) ==
  /\ pc[p] = "idle" /\ ~closing /\ ~InUse(m)
  /\ \E n \in Fresh(m) :
       /\ node' = [node EXCEPT ![p] = n]
       /\ data' = [data EXCEPT ![n] = m]
       /\ link' = [link EXCEPT ![n] = Nothing]
       /\ held' = held \cup {n}
  /\ pc' = [pc EXCEPT ![p] = "exchange"]
  /\ excuse' = IF excuse = "must" THEN "may" ELSE excuse
  /\ UNCHANGED <<kind, head, tail, previous, consumer, closing, order, output>>

(* _head.exchange(node) *)
Exchange(p) ==
  /\ pc[p] = "exchange"
  /\ previous' = [previous EXCEPT ![p] = head]
  /\ head' = node[p]
  /\ order' = Append(order, data[node[p]])
  /\ pc' = [pc EXCEPT ![p] = "link"]
  /\ UNCHANGED <<kind, tail, link, data, held, node, consumer, closing, excuse, output>>

(* prevHead->Next.store(node) *)
Link(p) ==
  /\ pc[p] = "link"
  /\ link' = [link EXCEPT ![previous[p]] = node[p]]
  /\ pc' = [pc EXCEPT ![p] = "idle"]
  /\ node' = [node EXCEPT ![p] = Nothing] /\ previous' = [previous EXCEPT ![p] = Nothing]
  /\ UNCHANGED <<kind, head, tail, data, held, consumer, closing, history>>

-----------------------------------------------------------------------------
(* Dequeue *)

Idle == \A p \in Producers : pc[p] = "idle"

ConsumerGoes(place, t, n) ==
  /\ at' = place /\ last' = t /\ following' = n
  /\ UNCHANGED <<kind, data, held, producers, closing, order, output>>
Continues == UNCHANGED excuse

(* The node after _tail is read. *)
Dequeue ==
  /\ at = "idle"
  /\ excuse' = IF order = <<>> \/ ~Idle THEN "may" ELSE "must"
  /\ LET next == link[tail] IN
     IF kind = "nonintrusive"
     THEN ConsumerGoes(IF next = Nothing THEN "false" ELSE "true", tail, next) /\ UNCHANGED tail
     ELSE IF tail # Dummy
     THEN ConsumerGoes("test", tail, next) /\ UNCHANGED tail
     ELSE IF next = Nothing
     THEN ConsumerGoes("false", tail, next) /\ UNCHANGED tail
     ELSE ConsumerGoes("second", next, next) /\ tail' = next
  /\ UNCHANGED <<head, link, newHead>>

(* _tail was _dummy: the link of the node after it. *)
SecondLink ==
  /\ at = "second"
  /\ ConsumerGoes("test", last, link[last]) /\ Continues
  /\ UNCHANGED <<head, tail, link, newHead>>

(* With a node after it the one at _tail is returned.  Without, it is the     *)
(* last one only if it is _head; then _dummy is enqueued behind it.          *)
TestHead ==
  /\ at = "test"
  /\ LET place == IF following # Nothing THEN "true" ELSE IF last # head THEN "false" ELSE "exchange"
     IN /\ ConsumerGoes(place, last, following)
        /\ link' = IF place = "exchange" THEN [link EXCEPT ![Dummy] = Nothing] ELSE link
  /\ Continues
  /\ UNCHANGED <<head, tail, newHead>>

ExchangeDummy ==
  /\ at = "exchange"
  /\ newHead' = head /\ head' = Dummy
  /\ ConsumerGoes("link", last, following) /\ Continues
  /\ UNCHANGED <<tail, link>>

LinkDummy ==
  /\ at = "link"
  /\ link' = [link EXCEPT ![newHead] = Dummy]
  /\ ConsumerGoes("last", last, following) /\ Continues
  /\ UNCHANGED <<head, tail, newHead>>

LastLink ==
  /\ at = "last"
  /\ LET next == link[last] IN ConsumerGoes(IF next # Nothing THEN "true" ELSE "false", last, next)
  /\ Continues
  /\ UNCHANGED <<head, tail, link, newHead>>

(* What the locals hold, and the link of a node that is not the queue's, does *)
(* not matter after the return.                                              *)
Returns(place, result) ==
  /\ at' = place
  /\ last' = Nothing /\ following' = Nothing /\ newHead' = Nothing
  /\ excuse' = "no" /\ output' = result
  /\ UNCHANGED <<kind, head, producers, closing>>
GivesUp(n) ==
  /\ held' = held \ {n}
  /\ link' = [link EXCEPT ![n] = Nothing]
  /\ data' = IF n \in Messages THEN data ELSE [data EXCEPT ![n] = Nothing]

(* Mutant: the data of the node that is freed is returned. *)
ReturnsOld ==
  /\ at = "true"
  /\ Returns("idle", data[last])
  /\ tail' = following /\ GivesUp(last)
  /\ order' = SubSeq(order, 2, Len(order))

(* Mutant: the node that becomes _tail is freed. *)
ReturnsFreeingNext ==
  /\ at = "true"
  /\ Returns("idle", IF kind = "intrusive" THEN last ELSE data[following])
  /\ tail' = following /\ GivesUp(IF kind = "intrusive" THEN last ELSE following)
  /\ order' = SubSeq(order, 2, Len(order))

(* _tail moves on.  The node it leaves is the message, or is freed. *)
ReturnsTrue ==
  /\ at = "true"
  /\ Returns("idle", IF kind = "intrusive" THEN last ELSE data[following])
  /\ tail' = following /\ GivesUp(last)
  /\ order' = SubSeq(order, 2, Len(order))

(* In the destructor this ends the loop; then the front node is freed. *)
ReturnsFalse ==
  /\ at = "false"
  /\ Returns(IF closing THEN "destroyed" ELSE "idle", Nothing)
  /\ IF closing THEN GivesUp(IF kind = "intrusive" THEN Dummy ELSE head)
                ELSE UNCHANGED <<held, link, data>>
  /\ UNCHANGED <<tail, order>>

(* Nobody uses the queue any more. *)
Destroy ==
  /\ at = "idle" /\ Idle /\ ~closing
  /\ closing' = TRUE
  /\ UNCHANGED <<kind, head, tail, link, data, held, producers, consumer, history>>

-----------------------------------------------------------------------------
Produce(p) == Exchange(p) \/ Link(p)
Consume == \/ Dequeue \/ SecondLink \/ TestHead \/ ExchangeDummy \/ LinkDummy \/ LastLink
           \/ ReturnsTrue \/ ReturnsFalse

QueueNext ==
  \/ \E p \in Producers : Produce(p) \/ \E m \in Messages : Enqueue(p, m)
  \/ Consume \/ Destroy

(* A thread in Enqueue runs on, and the consumer asks again and again.  *)
QueueFairness == WF_queueVars(Consume) /\ \A p \in Producers : WF_queueVars(Produce(p))

-----------------------------------------------------------------------------
(* Properties *)

QueueTypes ==
  /\ kind \in {"intrusive", "nonintrusive"}
  /\ head \in Nodes /\ tail \in Nodes /\ newHead \in Nodes \cup {Nothing}
  /\ link \in [Nodes -> Nodes \cup {Nothing}]
  /\ data \in [Nodes -> Messages \cup {Nothing}]
  /\ held \subseteq Nodes
  /\ pc \in [Producers -> {"idle", "exchange", "link"}]
  /\ node \in [Producers -> Nodes \cup {Nothing}]
  /\ previous \in [Producers -> Nodes \cup {Nothing}]
  /\ at \in {"idle", "second", "test", "exchange", "link", "last", "true", "false", "destroyed"}
  /\ last \in Nodes \cup {Nothing} /\ following \in Nodes \cup {Nothing}
  /\ closing \in BOOLEAN
  /\ order \in Seq(Messages)
  /\ excuse \in {"no", "may", "must"}
  /\ output \in Messages \cup {Nothing}

(* Both forms are the queue its callers rely on: messages come out once, in   *)
(* the order in which they came in, none stays behind, and none is missed by  *)
(* a Dequeue that meets no Enqueue.                                          *)
Q == INSTANCE MessageQueue WITH
       queue     <- order,
       enqueuing <- {p \in Producers : pc[p] # "idle"},
       placed    <- {p \in Producers : pc[p] = "link"},
       dequeuing <- excuse
ImplementsMessageQueue == Q!Spec

(* No thread follows or writes the link of a node that was freed or given     *)
(* back, and the destructor leaves no node and no message behind.            *)
MemoryIsAccounted ==
  /\ \A p \in Producers : pc[p] = "link" => previous[p] \in held
  /\ \A p \in Producers : pc[p] # "idle" => node[p] \in held
  /\ at \notin {"idle", "destroyed"} => tail \in held /\ last \in held
  /\ at = "link" => newHead \in held
  /\ at = "true" => following \in held
  /\ at = "destroyed" => held = {} /\ order = <<>>
=============================================================================
