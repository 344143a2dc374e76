--------------------------- MODULE Utilities_proofs ---------------------------
(***************************************************************************)
(* Proofs about Utilities, and through it about MPSCQueue and IPLocation:  *)
(* for any number of producers, messages and nodes, and for any addresses  *)
(* and lines of the file.                                                  *)
(***************************************************************************)
EXTENDS Utilities, SequenceLemmas, TLAPS

USE QueueAssumption, LocationAssumption DEF QueueAssumption, LocationAssumption

-----------------------------------------------------------------------------
(* MPSCQueue: the list *)

(* The nodes from _tail to _head, in the order in which they were exchanged  *)
(* for _head.  They exist, whatever the links say at the moment.             *)
Line(c) ==
  /\ c \in Seq(Nodes) /\ Len(c) >= 1
  /\ \A i, j \in 1 .. Len(c) : c[i] = c[j] => i = j
  /\ c[1] = tail /\ c[Len(c)] = head /\ link[head] = Nothing

(* Each is linked to the next, or whoever exchanged the next will link it.   *)
LinkedBy(n, next) ==
  \/ \E p \in Producers : pc[p] = "link" /\ previous[p] = n /\ node[p] = next
  \/ at = "link" /\ newHead = n /\ next = Dummy
Linked(c) == \A i \in 1 .. Len(c) - 1 :
  \/ link[c[i]] = c[i + 1]
  \/ link[c[i]] = Nothing /\ LinkedBy(c[i], c[i + 1])

(* Nobody else is about to link anything. *)
Gap(c, n, next) == \E i \in 1 .. Len(c) - 1 : c[i] = n /\ c[i + 1] = next /\ link[n] = Nothing
Linkers(c) ==
  /\ \A p \in Producers : pc[p] = "link" => Gap(c, previous[p], node[p])
  /\ at = "link" => Gap(c, newHead, Dummy)

(* The nodes that are the queue's: those of the list, those that producers   *)
(* have not brought into it yet, and the intrusive queue's own.              *)
In(n, c) == \E i \in 1 .. Len(c) : c[i] = n
Comes(n) == \E p \in Producers : pc[p] = "exchange" /\ node[p] = n
Holding(c) ==
  /\ \A n \in Nodes : n \in held <=> In(n, c) \/ Comes(n) \/ (kind = "intrusive" /\ n = Dummy)
  /\ \A n \in Nodes : Comes(n) => ~In(n, c)

(* The messages in the list: one for each node but the d-th, which has none. *)
Payload(c, d) ==
  /\ d \in 1 .. Len(c) + 1
  /\ kind = "nonintrusive" => d = 1
  /\ kind = "intrusive" => (d <= Len(c) => c[d] = Dummy) /\ (In(Dummy, c) => d <= Len(c))
  /\ Len(order) = IF d <= Len(c) THEN Len(c) - 1 ELSE Len(c)
  /\ \A i \in 1 .. Len(order) : order[i] = data[IF i < d THEN c[i] ELSE c[i + 1]]

(* Where the consumer is, and what it holds there. *)
Following(c) ==
  /\ at # "idle" => last = tail
  /\ at \in {"second", "test", "exchange", "link", "last"} => kind = "intrusive" /\ tail # Dummy
  /\ at = "test" => following \in {Nothing, link[tail]}
  /\ at = "true" => /\ following = link[tail] /\ following # Nothing
                    /\ kind = "intrusive" => tail # Dummy
  /\ at = "exchange" => link[Dummy] = Nothing /\ ~In(Dummy, c)
  /\ at \in {"link", "last"} => In(Dummy, c)

(* While no Enqueue is under way, the consumer finds what is there. *)
Alone(c) ==
  closing \/ excuse = "must" =>
    /\ Idle
    /\ at = "test" /\ following = Nothing => Len(c) = 1
    /\ at = "false" => order = <<>>

(* c is the list, and its d-th node has no message. *)
Chain(c, d) ==
  Line(c) /\ Linked(c) /\ Linkers(c) /\ Holding(c) /\ Payload(c, d) /\ Following(c) /\ Alone(c)

(* The producers' nodes are theirs alone, and carry their messages. *)
Owned ==
  /\ \A p, q \in Producers : p # q /\ pc[p] # "idle" /\ pc[q] # "idle" => node[p] # node[q]
  /\ \A p \in Producers : pc[p] # "idle" =>
       /\ node[p] \in Nodes
       /\ IF kind = "intrusive" THEN node[p] \in Messages ELSE node[p] \notin Messages
  /\ \A p \in Producers : pc[p] = "exchange" => link[node[p]] = Nothing /\ data[node[p]] \in Messages
  /\ kind = "intrusive" => \A m \in Messages : data[m] = m
  /\ \A n \in held : IF kind = "intrusive" THEN n \notin Spare ELSE n \notin Messages

(* The calls of Dequeue and of the destructor. *)
Calls ==
  /\ excuse = "no" <=> at \in {"idle", "destroyed"}
  /\ excuse = "must" => order # <<>>
  /\ at = "destroyed" => closing /\ held = {} /\ order = <<>> /\ Idle

(* The inductive invariant of MPSCQueue: until it is destroyed there is a   *)
(* list.                                                                    *)
QueueInv ==
  /\ QueueTypes /\ Owned /\ Calls
  /\ at # "destroyed" => \E c \in Seq(Nodes), d \in Nat : Chain(c, d)

-----------------------------------------------------------------------------
(* The nodes of the list *)
LEMMA LineFacts ==
  ASSUME QueueTypes, NEW c, Line(c)
  PROVE  /\ c \in Seq(Nodes) /\ Len(c) \in Nat /\ Len(c) >= 1 /\ DOMAIN c = 1 .. Len(c)
         /\ \A i \in 1 .. Len(c) : c[i] \in Nodes
         /\ In(tail, c) /\ In(head, c)
<1>1. c \in Seq(Nodes) /\ Len(c) >= 1 /\ c[1] = tail /\ c[Len(c)] = head
  BY DEF Line
<1>2. Len(c) \in Nat /\ DOMAIN c = 1 .. Len(c) /\ \A i \in 1 .. Len(c) : c[i] \in Nodes
  BY <1>1, ElementOfSeq, LenProperties
<1>3. 1 \in 1 .. Len(c) /\ Len(c) \in 1 .. Len(c)
  BY <1>1, <1>2
<1> QED
  BY <1>1, <1>2, <1>3 DEF In

(* What the links at the consumer's end say about the list. *)
LEMMA FrontFacts ==
  ASSUME QueueTypes, NEW c, NEW d, Chain(c, d)
  PROVE  /\ tail = head <=> Len(c) = 1
         /\ link[tail] # Nothing => Len(c) > 1 /\ link[tail] = c[2]
         /\ Idle /\ at # "link" /\ Len(c) > 1 => link[tail] # Nothing
<1>1. /\ Len(c) \in Nat /\ Len(c) >= 1 /\ c[1] = tail /\ c[Len(c)] = head /\ link[head] = Nothing
      /\ \A i, j \in 1 .. Len(c) : c[i] = c[j] => i = j
      /\ \A i \in 1 .. Len(c) : c[i] \in Nodes
  BY LineFacts DEF Chain, Line
<1>2. tail = head <=> Len(c) = 1
  <2>1. 1 \in 1 .. Len(c) /\ Len(c) \in 1 .. Len(c)
    BY <1>1
  <2>2. c[1] = c[Len(c)] => 1 = Len(c)
    BY <1>1, <2>1
  <2> QED
    BY <1>1, <2>2
<1>3. ASSUME Len(c) > 1
      PROVE  /\ link[tail] = c[2] \/ (link[tail] = Nothing /\ LinkedBy(tail, c[2]))
             /\ c[2] \in Nodes
  <2>1. 1 \in 1 .. Len(c) - 1 /\ 2 \in 1 .. Len(c)
    BY <1>1, <1>3
  <2>2. link[c[1]] = c[1 + 1] \/ (link[c[1]] = Nothing /\ LinkedBy(c[1], c[1 + 1]))
    BY <2>1 DEF Chain, Linked
  <2> QED
    BY <1>1, <2>1, <2>2
<1>4. Idle /\ at # "link" => ~LinkedBy(tail, c[2])
  BY DEF Idle, LinkedBy
<1> QED
  BY <1>1, <1>2, <1>3, <1>4

(* Every message of the list, and nothing else, is in order. *)
LEMMA InOrderOfQueue ==
  ASSUME QueueTypes, NEW c, NEW d, Chain(c, d), NEW i \in 1 .. Len(c), i # d
  PROVE  \E j \in DOMAIN order : order[j] = data[c[i]]
<1>1. /\ Len(c) \in Nat /\ d \in 1 .. Len(c) + 1
      /\ Len(order) = IF d <= Len(c) THEN Len(c) - 1 ELSE Len(c)
      /\ \A k \in 1 .. Len(order) : order[k] = data[IF k < d THEN c[k] ELSE c[k + 1]]
  BY LineFacts DEF Chain, Payload
<1>2. DOMAIN order = 1 .. Len(order)
  BY LenProperties DEF QueueTypes
<1>3. CASE i < d
  <2>1. i \in 1 .. Len(order)
    BY <1>1, <1>3
  <2> QED
    BY <1>1, <1>2, <1>3, <2>1
<1>4. CASE i > d
  <2>1. i - 1 \in 1 .. Len(order) /\ ~(i - 1 < d) /\ (i - 1) + 1 = i
    BY <1>1, <1>4
  <2> QED
    BY <1>1, <1>2, <1>4, <2>1
<1> QED
  BY <1>1, <1>3, <1>4

(* A message that is not in use has no node. *)
LEMMA FreshIsNew ==
  ASSUME QueueInv, NEW c, NEW d, Chain(c, d), NEW m \in Messages, ~InUse(m), NEW n \in Fresh(m)
  PROVE  /\ n \in Nodes /\ n \notin held /\ ~In(n, c) /\ ~Comes(n)
         /\ IF kind = "intrusive" THEN n = m ELSE n \notin Messages
<1>1. /\ QueueTypes /\ Owned /\ Holding(c) /\ \A i \in 1 .. Len(c) : c[i] \in Nodes
  BY LineFacts DEF QueueInv, Chain
<1>2. n \in Nodes /\ IF kind = "intrusive" THEN n = m ELSE n \notin Messages
  BY DEF Fresh, Nodes
<1>3. CASE kind = "nonintrusive"
  <2>1. n \notin held
    BY <1>3 DEF Fresh
  <2> QED
    BY <1>1, <1>2, <2>1 DEF Holding
<1>4. CASE kind = "intrusive"
  <2>1. n = m /\ m # Dummy /\ data[m] = m
    BY <1>1, <1>4 DEF Fresh, Owned
  <2>2. ~Comes(m)
    BY <1>1, <2>1 DEF Comes, InUse
  <2>3. ASSUME NEW i \in 1 .. Len(c), c[i] = m PROVE FALSE
    <3>1. Len(c) \in Nat /\ d \in 1 .. Len(c) + 1 /\ (d <= Len(c) => c[d] = Dummy)
      BY <1>1, <1>4, LineFacts DEF Chain, Payload
    <3>2. i # d
      BY <2>1, <2>3, <3>1
    <3> QED
      BY <1>1, <2>1, <2>3, <3>2, InOrderOfQueue DEF InUse
  <2> QED
    BY <1>1, <1>2, <1>4, <2>1, <2>2, <2>3 DEF Holding, In
<1> QED
  BY <1>1, <1>3, <1>4 DEF QueueTypes

-----------------------------------------------------------------------------
(* Each step keeps the invariant: a producer takes a node, *)
LEMMA EnqueueKeeps ==
  ASSUME QueueInv, NEW p \in Producers, NEW m \in Messages, Enqueue(p, m)
  PROVE  QueueInv'
<1>1. QueueTypes /\ Owned /\ Calls
  BY DEF QueueInv
<1>2. PICK n \in Fresh(m) :
        /\ node' = [node EXCEPT ![p] = n]
        /\ data' = [data EXCEPT ![n] = m]
        /\ link' = [link EXCEPT ![n] = Nothing]
        /\ held' = held \cup {n}
  BY DEF Enqueue
<1>3. /\ pc[p] = "idle" /\ ~closing /\ ~InUse(m)
      /\ pc' = [pc EXCEPT ![p] = "exchange"]
      /\ excuse' = IF excuse = "must" THEN "may" ELSE excuse
      /\ UNCHANGED <<kind, head, tail, previous, at, last, following, newHead, closing, order, output>>
  BY DEF Enqueue, consumer
<1>4. at # "destroyed"
  BY <1>1, <1>3 DEF Calls
<1>5. PICK c \in Seq(Nodes), d \in Nat : Chain(c, d)
  BY <1>4 DEF QueueInv
<1>6. /\ n \in Nodes /\ n \notin held /\ ~In(n, c) /\ ~Comes(n)
      /\ IF kind = "intrusive" THEN n = m ELSE n \notin Messages
  BY <1>2, <1>3, <1>5, FreshIsNew
<1>7. /\ \A x \in Nodes : x # n => link'[x] = link[x] /\ data'[x] = data[x]
      /\ link'[n] = Nothing /\ data'[n] = m
      /\ \A q \in Producers : q # p => pc'[q] = pc[q] /\ node'[q] = node[q] /\ previous'[q] = previous[q]
      /\ pc'[p] = "exchange" /\ node'[p] = n
  BY <1>1, <1>2, <1>3, <1>6 DEF QueueTypes
<1>8. QueueTypes'
  BY <1>1, <1>2, <1>3, <1>6 DEF QueueTypes
<1>9. /\ Line(c) /\ Linked(c) /\ Linkers(c) /\ Holding(c) /\ Payload(c, d) /\ Following(c) /\ Alone(c)
      /\ Len(c) \in Nat /\ Len(c) >= 1 /\ c[1] = tail /\ c[Len(c)] = head
      /\ \A i \in 1 .. Len(c) : c[i] \in Nodes /\ c[i] # n
      /\ In(tail, c) /\ In(head, c)
  BY <1>1, <1>5, <1>6, LineFacts DEF Chain, Line, In
<1>10. tail # n /\ head # n
  BY <1>6, <1>9
<1>11. Owned'
  <2>1. ASSUME NEW q \in Producers, q # p, pc[q] # "idle" PROVE node[q] # n
    <3>1. CASE pc[q] = "exchange"
      BY <1>6, <3>1 DEF Comes
    <3>2. CASE pc[q] = "link"
      <4>1. PICK i \in 1 .. Len(c) - 1 : c[i + 1] = node[q]
        BY <1>9, <3>2 DEF Linkers, Gap
      <4>2. i + 1 \in 1 .. Len(c)
        BY <1>9
      <4> QED
        BY <1>9, <4>1, <4>2
    <3> QED
      BY <1>1, <2>1, <3>1, <3>2 DEF QueueTypes
  <2> QED
    BY <1>1, <1>2, <1>3, <1>6, <1>7, <2>1 DEF Owned
<1>12. Calls'
  BY <1>1, <1>3, <1>4 DEF Calls
<1>13. Line(c)'
  BY <1>1, <1>3, <1>7, <1>9, <1>10 DEF Line, QueueTypes
<1>14. Linked(c)'
  <2>1. ASSUME NEW i \in 1 .. Len(c) - 1
        PROVE  link'[c[i]] = c[i + 1] \/ (link'[c[i]] = Nothing /\ LinkedBy(c[i], c[i + 1])')
    <3>1. i \in 1 .. Len(c) /\ link'[c[i]] = link[c[i]]
      BY <1>7, <1>9
    <3>2. LinkedBy(c[i], c[i + 1]) => LinkedBy(c[i], c[i + 1])'
      BY <1>3, <1>7 DEF LinkedBy
    <3> QED
      BY <1>9, <3>1, <3>2 DEF Linked
  <2> QED
    BY <2>1 DEF Linked
<1>15. Linkers(c)'
  <2>1. \A x, y : Gap(c, x, y) => Gap(c, x, y)'
    <3>1. ASSUME NEW x, NEW y, NEW i \in 1 .. Len(c) - 1, c[i] = x, c[i + 1] = y, link[x] = Nothing
          PROVE  link'[x] = Nothing
      <4>1. i \in 1 .. Len(c)
        BY <1>9
      <4> QED
        BY <1>7, <1>9, <3>1, <4>1
    <3> QED
      BY <3>1 DEF Gap
  <2>2. ASSUME NEW q \in Producers, pc'[q] = "link" PROVE Gap(c, previous[q], node[q])'
    <3>1. q # p /\ pc[q] = "link" /\ previous'[q] = previous[q] /\ node'[q] = node[q]
      BY <1>7, <2>2
    <3> QED
      BY <1>9, <2>1, <3>1, SMTT(40) DEF Linkers, Gap
  <2>3. at' = "link" => Gap(c, newHead, Dummy)'
    <3>1. at' = at /\ newHead' = newHead
      BY <1>3
    <3>2. at = "link" => Gap(c, newHead, Dummy)
      BY <1>9 DEF Linkers
    <3> QED
      BY <2>1, <3>1, <3>2 DEF Gap
  <2> QED
    BY <2>2, <2>3 DEF Linkers
<1>16. Holding(c)'
  <2>1. \A x \in Nodes : Comes(x)' <=> Comes(x) \/ x = n
    BY <1>3, <1>7 DEF Comes
  <2> QED
    BY <1>2, <1>3, <1>6, <1>9, <2>1 DEF Holding, In
<1>17. Payload(c, d)'
  <2>1. \A i \in 1 .. Len(c) : data'[c[i]] = data[c[i]]
    BY <1>7, <1>9
  <2>2. ASSUME NEW i \in 1 .. Len(order) PROVE order[i] = data'[IF i < d THEN c[i] ELSE c[i + 1]]
    <3>1. (i < d => i \in 1 .. Len(c)) /\ (~(i < d) => i + 1 \in 1 .. Len(c))
      BY <1>9, <2>2 DEF Payload
    <3> QED
      BY <1>9, <2>1, <3>1 DEF Payload
  <2> QED
    BY <1>3, <1>9, <2>2 DEF Payload, In
<1>18. Following(c)'
  <2>1. kind = "intrusive" => n # Dummy
    BY <1>6
  <2> QED
    BY <1>3, <1>7, <1>9, <1>10, <2>1 DEF Following, In, Nodes, QueueTypes
<1>19. Alone(c)'
  BY <1>1, <1>3 DEF Alone, QueueTypes
<1>20. Chain(c, d)'
  BY <1>13, <1>14, <1>15, <1>16, <1>17, <1>18, <1>19 DEF Chain
<1> QED
  BY <1>5, <1>8, <1>11, <1>12, <1>20 DEF QueueInv

(* A list with one more node, ... *)
LEMMA Longer ==
  ASSUME QueueTypes, NEW c, Line(c), NEW n \in Nodes, ~In(n, c)
  PROVE  \E e \in Seq(Nodes) :
           /\ Len(e) = Len(c) + 1 /\ e[Len(c) + 1] = n
           /\ \A i \in 1 .. Len(c) : e[i] = c[i]
           /\ \A i, j \in 1 .. Len(e) : e[i] = e[j] => i = j
           /\ \A x : In(x, e) <=> In(x, c) \/ x = n
<1> DEFINE e == Append(c, n)
<1>1. c \in Seq(Nodes) /\ Len(c) \in Nat /\ \A i, j \in 1 .. Len(c) : c[i] = c[j] => i = j
  BY LineFacts DEF Line
<1>2. /\ e \in Seq(Nodes) /\ Len(e) = Len(c) + 1 /\ e[Len(c) + 1] = n
      /\ \A i \in 1 .. Len(c) : e[i] = c[i]
  BY <1>1, AppendProperties
<1> HIDE DEF e
<1>3. \A i \in 1 .. Len(e) : i \in 1 .. Len(c) \/ i = Len(c) + 1
  BY <1>1, <1>2
<1>4. \A i \in 1 .. Len(c) : c[i] # n
  BY DEF In
<1>5. \A i, j \in 1 .. Len(e) : e[i] = e[j] => i = j
  BY <1>1, <1>2, <1>3, <1>4
<1>6. \A x : In(x, e) <=> In(x, c) \/ x = n
  <2>1. Len(c) + 1 \in 1 .. Len(e) /\ \A i \in 1 .. Len(c) : i \in 1 .. Len(e)
    BY <1>1, <1>2
  <2> QED
    BY <1>2, <1>3, <2>1 DEF In
<1> QED
  BY <1>2, <1>5, <1>6

(* ... without its first. *)
LEMMA Shorter ==
  ASSUME QueueTypes, NEW c, Line(c), Len(c) > 1
  PROVE  \E e \in Seq(Nodes) :
           /\ Len(e) = Len(c) - 1
           /\ \A i \in 1 .. Len(c) - 1 : e[i] = c[i + 1]
           /\ \A i, j \in 1 .. Len(e) : e[i] = e[j] => i = j
           /\ \A x : In(x, e) <=> In(x, c) /\ x # tail
<1> DEFINE e == Tail(c)
<1>1. /\ c \in Seq(Nodes) /\ Len(c) \in Nat /\ c[1] = tail
      /\ \A i, j \in 1 .. Len(c) : c[i] = c[j] => i = j
  BY LineFacts DEF Line
<1>2. c # <<>>
  <2>1. Len(<<>>) = 0
    OBVIOUS
  <2> QED
    BY <1>1, <2>1
<1>3. /\ e \in Seq(Nodes) /\ Len(e) = Len(c) - 1
      /\ \A i \in 1 .. Len(c) - 1 : e[i] = c[i + 1]
  BY <1>1, <1>2, HeadTailProperties
<1> HIDE DEF e
<1>4. \A i \in 1 .. Len(e) : i \in 1 .. Len(c) - 1 /\ i + 1 \in 1 .. Len(c) /\ i + 1 # 1
  BY <1>1, <1>3
<1>5. ASSUME NEW i \in 1 .. Len(e), NEW j \in 1 .. Len(e), e[i] = e[j] PROVE i = j
  <2>1. i + 1 = j + 1
    BY <1>1, <1>3, <1>4, <1>5
  <2> QED
    BY <1>3, <1>4, <2>1
<1>6. ASSUME NEW x PROVE In(x, e) <=> In(x, c) /\ x # tail
  <2>1. 1 \in 1 .. Len(c)
    BY <1>1
  <2>2. ASSUME NEW i \in 1 .. Len(e), e[i] = x PROVE In(x, c) /\ x # tail
    BY <1>1, <1>3, <1>4, <2>1, <2>2 DEF In
  <2>3. ASSUME NEW i \in 1 .. Len(c), c[i] = x, x # tail PROVE In(x, e)
    <3>1. i # 1
      BY <1>1, <2>3
    <3>2. i - 1 \in 1 .. Len(e) /\ i - 1 \in 1 .. Len(c) - 1 /\ (i - 1) + 1 = i
      BY <1>1, <1>3, <3>1
    <3> QED
      BY <1>3, <2>3, <3>2 DEF In
  <2> QED
    BY <2>2, <2>3 DEF In
<1> QED
  BY <1>3, <1>5, <1>6

(* ... brings it into the list, ... *)
LEMMA ExchangeKeeps ==
  ASSUME QueueInv, NEW p \in Producers, Exchange(p)
  PROVE  QueueInv'
<1>1. QueueTypes /\ Owned /\ Calls
  BY DEF QueueInv
<1>2. /\ pc[p] = "exchange"
      /\ previous' = [previous EXCEPT ![p] = head]
      /\ head' = node[p]
      /\ order' = Append(order, data[node[p]])
      /\ pc' = [pc EXCEPT ![p] = "link"]
      /\ UNCHANGED <<kind, tail, link, data, held, node, at, last, following, newHead, closing, excuse, output>>
  BY DEF Exchange, consumer
<1>3. at # "destroyed"
  BY <1>1, <1>2 DEF Calls, Idle
<1>4. PICK c \in Seq(Nodes), d \in Nat : Chain(c, d)
  BY <1>3 DEF QueueInv
<1>5. PICK n : n = node[p]
  OBVIOUS
<1>6. /\ Line(c) /\ Linked(c) /\ Linkers(c) /\ Holding(c) /\ Payload(c, d) /\ Following(c) /\ Alone(c)
      /\ Len(c) \in Nat /\ Len(c) >= 1 /\ c[1] = tail /\ c[Len(c)] = head /\ link[head] = Nothing
      /\ \A i \in 1 .. Len(c) : c[i] \in Nodes
  BY <1>1, <1>4, LineFacts DEF Chain, Line
<1>7. /\ n \in Nodes /\ link[n] = Nothing /\ data[n] \in Messages /\ Comes(n) /\ ~In(n, c)
      /\ IF kind = "intrusive" THEN n \in Messages ELSE n \notin Messages
      /\ kind = "intrusive" => n # Dummy
  <2>1. n \in Nodes /\ Comes(n)
    BY <1>1, <1>2, <1>5 DEF Owned, Comes
  <2> QED
    BY <1>1, <1>2, <1>5, <1>6, <2>1 DEF Owned, Holding
<1>8. PICK e \in Seq(Nodes) :
        /\ Len(e) = Len(c) + 1 /\ e[Len(c) + 1] = n
        /\ \A i \in 1 .. Len(c) : e[i] = c[i]
        /\ \A i, j \in 1 .. Len(e) : e[i] = e[j] => i = j
        /\ \A x : In(x, e) <=> In(x, c) \/ x = n
  BY <1>1, <1>6, <1>7, Longer
<1>9. /\ \A q \in Producers : q # p => pc'[q] = pc[q] /\ previous'[q] = previous[q]
      /\ pc'[p] = "link" /\ previous'[p] = head
  BY <1>1, <1>2 DEF QueueTypes
<1>10. /\ order \in Seq(Messages) /\ Len(order) \in Nat /\ order' \in Seq(Messages)
       /\ Len(order') = Len(order) + 1 /\ order'[Len(order) + 1] = data[n]
       /\ \A i \in 1 .. Len(order) : order'[i] = order[i]
  <2>1. order \in Seq(Messages) /\ data[n] \in Messages /\ order' = Append(order, data[n])
    BY <1>1, <1>2, <1>5, <1>7 DEF QueueTypes
  <2> QED
    BY <2>1, AppendProperties, LenProperties
<1>11. QueueTypes'
  BY <1>1, <1>2, <1>5, <1>7, <1>10 DEF QueueTypes
<1>12. Owned'
  BY <1>1, <1>2, <1>9 DEF Owned, QueueTypes
<1>13. Calls'
  <2>1. order' # <<>>
    BY <1>10, EmptySeq
  <2> QED
    BY <1>1, <1>2, <1>3, <2>1 DEF Calls
<1>14. Line(e)'
  BY <1>1, <1>2, <1>5, <1>6, <1>7, <1>8 DEF Line
<1>15. \A i \in 1 .. Len(e) - 1 : i \in 1 .. Len(c) - 1 \/ i = Len(c)
  BY <1>6, <1>8
<1>16. Linked(e)'
  <2>1. ASSUME NEW i \in 1 .. Len(c) - 1
        PROVE  link'[e[i]] = e[i + 1] \/ (link'[e[i]] = Nothing /\ LinkedBy(e[i], e[i + 1])')
    <3>1. e[i] = c[i] /\ e[i + 1] = c[i + 1]
      BY <1>6, <1>8
    <3>2. LinkedBy(c[i], c[i + 1]) => LinkedBy(c[i], c[i + 1])'
      BY <1>2, <1>9 DEF LinkedBy
    <3>3. link[c[i]] = c[i + 1] \/ (link[c[i]] = Nothing /\ LinkedBy(c[i], c[i + 1]))
      BY <1>6 DEF Linked
    <3> QED
      BY <1>2, <3>1, <3>2, <3>3 DEF LinkedBy
  <2>2. ASSUME NEW i, i = Len(c)
        PROVE  link'[e[i]] = Nothing /\ LinkedBy(e[i], e[i + 1])'
    <3>1. e[i] = head /\ e[i + 1] = n
      BY <1>6, <1>8, <2>2
    <3> QED
      BY <1>2, <1>5, <1>6, <1>9, <3>1 DEF LinkedBy
  <2> QED
    BY <1>15, <2>1, <2>2 DEF Linked
<1>17. Linkers(e)'
  <2>1. ASSUME NEW q \in Producers, pc'[q] = "link" PROVE Gap(e, previous[q], node[q])'
    <3>1. CASE q # p
      <4>1. Gap(c, previous[q], node[q]) /\ previous'[q] = previous[q] /\ node'[q] = node[q]
        BY <1>2, <1>6, <1>9, <2>1, <3>1 DEF Linkers
      <4>2. PICK i \in 1 .. Len(c) - 1 : c[i] = previous[q] /\ c[i + 1] = node[q] /\ link[previous[q]] = Nothing
        BY <4>1 DEF Gap
      <4>3. i \in 1 .. Len(e) - 1 /\ e[i] = c[i] /\ e[i + 1] = c[i + 1]
        BY <1>6, <1>8
      <4> QED
        BY <1>2, <4>1, <4>2, <4>3 DEF Gap
    <3>2. CASE q = p
      <4>1. Len(c) \in 1 .. Len(e) - 1 /\ e[Len(c)] = head /\ e[Len(c) + 1] = n
        BY <1>6, <1>8
      <4> QED
        BY <1>2, <1>5, <1>6, <1>9, <3>2, <4>1 DEF Gap
    <3> QED
      BY <3>1, <3>2
  <2>2. at' = "link" => Gap(e, newHead, Dummy)'
    <3>1. at' = at /\ newHead' = newHead
      BY <1>2
    <3>2. at = "link" => Gap(c, newHead, Dummy)
      BY <1>6 DEF Linkers
    <3>3. SUFFICES ASSUME at = "link"
                   PROVE  \E i \in 1 .. Len(e) - 1 : e[i] = newHead /\ e[i + 1] = Dummy
                                                    /\ link'[newHead] = Nothing
      BY <3>1 DEF Gap
    <3>4. Gap(e, newHead, Dummy) /\ link'[newHead] = Nothing
      <4>1. PICK i \in 1 .. Len(c) - 1 : c[i] = newHead /\ c[i + 1] = Dummy /\ link[newHead] = Nothing
        BY <3>2, <3>3 DEF Gap
      <4>2. i \in 1 .. Len(e) - 1 /\ e[i] = c[i] /\ e[i + 1] = c[i + 1]
        BY <1>6, <1>8
      <4> QED
        BY <1>2, <4>1, <4>2 DEF Gap
    <3> QED
      BY <3>4 DEF Gap
  <2> QED
    BY <2>1, <2>2 DEF Linkers
<1>18. Holding(e)'
  <2>1. \A x \in Nodes : Comes(x)' <=> Comes(x) /\ x # n
    BY <1>1, <1>2, <1>5, <1>9 DEF Comes, Owned
  <2>2. \A x : In(x, e)' <=> In(x, c) \/ x = n
    BY <1>8 DEF In
  <2> QED
    BY <1>2, <1>6, <1>7, <2>1, <2>2 DEF Holding
<1>19. PICK d2 \in Nat : d2 = IF d <= Len(c) THEN d ELSE d + 1
  OBVIOUS
<1>20. Payload(e, d2)'
  <2>1. /\ d \in 1 .. Len(c) + 1
        /\ kind = "nonintrusive" => d = 1
        /\ kind = "intrusive" => (d <= Len(c) => c[d] = Dummy) /\ (In(Dummy, c) => d <= Len(c))
        /\ Len(order) = IF d <= Len(c) THEN Len(c) - 1 ELSE Len(c)
        /\ \A i \in 1 .. Len(order) : order[i] = data[IF i < d THEN c[i] ELSE c[i + 1]]
    BY <1>6 DEF Payload
  <2>2. d2 \in 1 .. Len(e) + 1 /\ (kind = "nonintrusive" => d2 = 1)
        /\ Len(order') = IF d2 <= Len(e) THEN Len(e) - 1 ELSE Len(e)
    BY <1>6, <1>8, <1>10, <1>19, <2>1
  <2>3. kind = "intrusive" => (d2 <= Len(e) => e[d2] = Dummy) /\ (In(Dummy, e) => d2 <= Len(e))
    BY <1>6, <1>7, <1>8, <1>19, <2>1
  <2>4. ASSUME NEW i \in 1 .. Len(order') PROVE order'[i] = data[IF i < d2 THEN e[i] ELSE e[i + 1]]
    <3>1. CASE i \in 1 .. Len(order)
      <4>1. /\ order'[i] = data[IF i < d THEN c[i] ELSE c[i + 1]]
            /\ (i < d) <=> (i < d2)
            /\ (i < d => i \in 1 .. Len(c)) /\ (~(i < d) => i + 1 \in 1 .. Len(c))
        BY <1>6, <1>10, <1>19, <2>1, <3>1
      <4> QED
        BY <1>8, <4>1
    <3>2. CASE i = Len(order) + 1
      <4>1. (i < d2 => i = Len(c) + 1) /\ (~(i < d2) => i + 1 = Len(c) + 1)
        BY <1>6, <1>10, <1>19, <2>1, <3>2
      <4> QED
        BY <1>8, <1>10, <3>2, <4>1
    <3> QED
      BY <1>10, <3>1, <3>2
  <2> QED
    BY <1>2, <2>2, <2>3, <2>4 DEF Payload, In
<1>21. Following(e)'
  BY <1>2, <1>6, <1>7, <1>8 DEF Following, In
<1>22. Alone(e)'
  BY <1>2, <1>6 DEF Alone, Idle
<1>23. Chain(e, d2)'
  BY <1>14, <1>16, <1>17, <1>18, <1>20, <1>21, <1>22 DEF Chain
<1> QED
  BY <1>11, <1>12, <1>13, <1>23 DEF QueueInv

(* ... and links it. *)
LEMMA LinkKeeps ==
  ASSUME QueueInv, NEW p \in Producers, Link(p)
  PROVE  QueueInv'
<1>1. QueueTypes /\ Owned /\ Calls
  BY DEF QueueInv
<1>2. /\ pc[p] = "link"
      /\ link' = [link EXCEPT ![previous[p]] = node[p]]
      /\ pc' = [pc EXCEPT ![p] = "idle"]
      /\ node' = [node EXCEPT ![p] = Nothing] /\ previous' = [previous EXCEPT ![p] = Nothing]
      /\ UNCHANGED <<kind, head, tail, data, held, at, last, following, newHead, closing, order, excuse, output>>
  BY DEF Link, consumer, history
<1>3. at # "destroyed"
  BY <1>1, <1>2 DEF Calls, Idle
<1>4. PICK c \in Seq(Nodes), d \in Nat : Chain(c, d)
  BY <1>3 DEF QueueInv
<1>5. /\ Line(c) /\ Linked(c) /\ Linkers(c) /\ Holding(c) /\ Payload(c, d) /\ Following(c) /\ Alone(c)
      /\ Len(c) \in Nat /\ Len(c) >= 1 /\ c[1] = tail /\ c[Len(c)] = head /\ link[head] = Nothing
      /\ \A i \in 1 .. Len(c) : c[i] \in Nodes
      /\ \A i, j \in 1 .. Len(c) : c[i] = c[j] => i = j
  BY <1>1, <1>4, LineFacts DEF Chain, Line
<1>6. PICK k \in 1 .. Len(c) - 1 : c[k] = previous[p] /\ c[k + 1] = node[p] /\ link[previous[p]] = Nothing
  BY <1>2, <1>5 DEF Linkers, Gap
<1>7. /\ k \in 1 .. Len(c) /\ k + 1 \in 1 .. Len(c) /\ k # Len(c)
      /\ c[k] \in Nodes /\ c[k + 1] \in Nodes /\ c[k] # head
  <2>1. k \in 1 .. Len(c) /\ k + 1 \in 1 .. Len(c) /\ k # Len(c) /\ Len(c) \in 1 .. Len(c)
    BY <1>5
  <2> QED
    BY <1>5, <2>1
<1>8. /\ \A x \in Nodes : x # c[k] => link'[x] = link[x]
      /\ link'[c[k]] = c[k + 1]
      /\ \A q \in Producers : q # p => pc'[q] = pc[q] /\ node'[q] = node[q] /\ previous'[q] = previous[q]
      /\ pc'[p] = "idle"
  BY <1>1, <1>2, <1>6, <1>7 DEF QueueTypes
<1>9. QueueTypes'
  BY <1>1, <1>2, <1>6, <1>7 DEF QueueTypes
<1>10. \A q \in Producers : pc[q] = "exchange" => node[q] \in Nodes /\ node[q] # c[k]
  BY <1>1, <1>5, <1>7 DEF Owned, Holding, Comes, In
<1>11. Owned'
  BY <1>1, <1>2, <1>8, <1>10 DEF Owned
<1>12. Calls'
  BY <1>1, <1>2, <1>3 DEF Calls
<1>13. Line(c)'
  <2>1. head \in Nodes
    BY <1>1 DEF QueueTypes
  <2> QED
    BY <1>2, <1>5, <1>7, <1>8, <2>1 DEF Line
<1>14. \A i \in 1 .. Len(c) - 1 : i \in 1 .. Len(c) /\ i + 1 \in 1 .. Len(c)
  BY <1>5
<1>15. Linked(c)'
  <2>1. ASSUME NEW i \in 1 .. Len(c) - 1
        PROVE  link'[c[i]] = c[i + 1] \/ (link'[c[i]] = Nothing /\ LinkedBy(c[i], c[i + 1])')
    <3>1. CASE i = k
      BY <1>8, <3>1
    <3>2. CASE i # k
      <4>1. c[i] # c[k] /\ c[i] \in Nodes
        BY <1>5, <1>7, <1>14, <3>2
      <4>2. LinkedBy(c[i], c[i + 1]) => LinkedBy(c[i], c[i + 1])'
        BY <1>2, <1>6, <1>8, <4>1 DEF LinkedBy
      <4> QED
        BY <1>5, <1>8, <4>1, <4>2 DEF Linked
    <3> QED
      BY <3>1, <3>2
  <2> QED
    BY <2>1 DEF Linked
<1>16. Linkers(c)'
  <2>1. ASSUME NEW i \in 1 .. Len(c) - 1, c[i + 1] # c[k + 1] PROVE link'[c[i]] = link[c[i]]
    <3>1. i # k
      BY <2>1
    <3>2. c[i] # c[k] /\ c[i] \in Nodes
      BY <1>5, <1>7, <1>14, <3>1
    <3> QED
      BY <1>8, <3>2
  <2>2. ASSUME NEW q \in Producers, pc'[q] = "link" PROVE Gap(c, previous[q], node[q])'
    <3>1. q # p /\ pc[q] = "link" /\ previous'[q] = previous[q] /\ node'[q] = node[q]
      BY <1>8, <2>2
    <3>2. PICK i \in 1 .. Len(c) - 1 : c[i] = previous[q] /\ c[i + 1] = node[q] /\ link[previous[q]] = Nothing
      BY <1>5, <3>1 DEF Linkers, Gap
    <3>3. node[q] # node[p]
      BY <1>1, <1>2, <3>1 DEF Owned
    <3> QED
      BY <1>6, <2>1, <3>1, <3>2, <3>3 DEF Gap
  <2>3. ASSUME at' = "link" PROVE Gap(c, newHead, Dummy)'
    <3>1. at = "link" /\ newHead' = newHead
      BY <1>2, <2>3
    <3>2. PICK i \in 1 .. Len(c) - 1 : c[i] = newHead /\ c[i + 1] = Dummy /\ link[newHead] = Nothing
      BY <1>5, <3>1 DEF Linkers, Gap
    <3>3. node[p] # Dummy
      BY <1>1, <1>2, <1>5, <3>1 DEF Following, Owned
    <3> QED
      BY <1>6, <2>1, <3>1, <3>2, <3>3 DEF Gap
  <2> QED
    BY <2>2, <2>3 DEF Linkers
<1>17. Holding(c)'
  <2>1. \A x \in Nodes : Comes(x)' <=> Comes(x)
    BY <1>2, <1>8 DEF Comes
  <2> QED
    BY <1>2, <1>5, <2>1 DEF Holding, In
<1>18. Payload(c, d)'
  BY <1>2, <1>5 DEF Payload, In
<1>19. Following(c)'
  <2>1. tail \in Nodes /\ Dummy \in Nodes
    BY <1>1 DEF QueueTypes, Nodes
  <2>2. at = "exchange" => Dummy # c[k]
    BY <1>5, <1>7 DEF Following, In
  <2>3. link[tail] # Nothing => link'[tail] = link[tail]
    BY <1>6, <1>8, <2>1
  <2>4. at = "exchange" => link'[Dummy] = link[Dummy]
    BY <1>8, <2>1, <2>2
  <2> QED
    BY <1>2, <1>5, <2>3, <2>4 DEF Following, In
<1>20. Alone(c)'
  BY <1>2, <1>5 DEF Alone, Idle
<1>21. Chain(c, d)'
  BY <1>13, <1>15, <1>16, <1>17, <1>18, <1>19, <1>20 DEF Chain
<1> QED
  BY <1>4, <1>9, <1>11, <1>12, <1>21 DEF QueueInv

(* The consumer's steps that move neither end of the list nor any link of it. *)
LEMMA LookKeeps ==
  ASSUME QueueInv, NEW c \in Seq(Nodes), NEW d \in Nat, Chain(c, d), at \notin {"link", "destroyed"},
         at' \notin {"link", "destroyed"},
         UNCHANGED <<kind, head, tail, data, held, pc, node, previous, order>>,
         link' = link \/ (link' = [link EXCEPT ![Dummy] = Nothing] /\ kind = "intrusive" /\ ~In(Dummy, c)),
         last' \in Nodes \cup {Nothing}, following' \in Nodes \cup {Nothing}, newHead' \in Nodes \cup {Nothing},
         closing' \in BOOLEAN, output' \in Messages \cup {Nothing},
         at' \in {"idle", "second", "test", "exchange", "last", "true", "false"},
         excuse' \in {"no", "may", "must"},
         Calls', Following(c)', Alone(c)'
  PROVE  QueueInv'
<1>1. /\ QueueTypes /\ Owned /\ Line(c) /\ Linked(c) /\ Linkers(c) /\ Holding(c) /\ Payload(c, d)
      /\ \A i \in 1 .. Len(c) : c[i] \in Nodes
      /\ Len(c) \in Nat /\ Len(c) >= 1
  BY LineFacts DEF QueueInv, Chain
<1>2. /\ \A n \in Nodes : In(n, c) \/ Comes(n) => link'[n] = link[n]
      /\ link' \in [Nodes -> Nodes \cup {Nothing}]
  <2>1. ASSUME link' = [link EXCEPT ![Dummy] = Nothing], kind = "intrusive", ~In(Dummy, c)
        PROVE  \A n \in Nodes : In(n, c) \/ Comes(n) => link'[n] = link[n]
    <3>1. ~Comes(Dummy)
      BY <1>1, <2>1 DEF Comes, Owned
    <3> QED
      BY <1>1, <2>1, <3>1 DEF QueueTypes
  <2> QED
    BY <1>1, <2>1 DEF QueueTypes, Nodes
<1>3. \A i \in 1 .. Len(c) : link'[c[i]] = link[c[i]]
  BY <1>1, <1>2 DEF In
<1>4. QueueTypes'
  BY <1>1, <1>2 DEF QueueTypes
<1>5. Owned'
  <2>1. \A p \in Producers : pc[p] = "exchange" => link'[node[p]] = link[node[p]]
    BY <1>1, <1>2 DEF Owned, Comes
  <2> QED
    BY <1>1, <2>1 DEF Owned
<1>6. Line(c)'
  <2>1. Len(c) \in 1 .. Len(c)
    BY <1>1
  <2> QED
    BY <1>1, <1>3, <2>1 DEF Line
<1>7. \A i \in 1 .. Len(c) - 1 : i \in 1 .. Len(c)
  BY <1>1
<1>8. Linked(c)'
  <2>1. \A x, y : LinkedBy(x, y) => LinkedBy(x, y)'
    BY DEF LinkedBy
  <2> QED
    BY <1>1, <1>3, <1>7, <2>1 DEF Linked
<1>9. Linkers(c)'
  BY <1>1, <1>3, <1>7 DEF Linkers, Gap
<1>10. Holding(c)'
  <2>1. \A x \in Nodes : Comes(x)' <=> Comes(x)
    BY DEF Comes
  <2> QED
    BY <1>1, <2>1 DEF Holding, In
<1>11. Payload(c, d)'
  BY <1>1 DEF Payload, In
<1>12. Chain(c, d)'
  BY <1>6, <1>8, <1>9, <1>10, <1>11 DEF Chain
<1> QED
  BY <1>4, <1>5, <1>12 DEF QueueInv

(* A list of one node is that of an empty queue, if it can be returned from. *)
LEMMA NoMessage ==
  ASSUME QueueTypes, NEW c, NEW d, Chain(c, d), Len(c) = 1, kind = "nonintrusive" \/ tail = Dummy
  PROVE  order = <<>>
<1>1. d <= Len(c)
  <2>1. In(tail, c) /\ kind \in {"intrusive", "nonintrusive"}
    BY LineFacts DEF Chain, QueueTypes
  <2> QED
    BY <2>1 DEF Chain, Payload
<1>2. Len(order) = 0 /\ order \in Seq(Messages)
  BY <1>1 DEF Chain, Payload, QueueTypes
<1> QED
  BY <1>2, EmptySeq

(* Dequeue reads the link of _tail, and passes over the dummy node. *)
LEMMA DequeueKeeps ==
  ASSUME QueueInv, Dequeue
  PROVE  QueueInv'
<1>1. QueueTypes /\ Owned /\ Calls
  BY DEF QueueInv
<1> DEFINE next == link[tail]
<1>2. /\ at = "idle"
      /\ excuse' = IF order = <<>> \/ ~Idle THEN "may" ELSE "must"
      /\ head' = head /\ link' = link /\ newHead' = newHead
      /\ UNCHANGED <<kind, data, held, pc, node, previous, closing, order, output>>
      /\ IF kind = "nonintrusive"
         THEN at' = (IF next = Nothing THEN "false" ELSE "true") /\ last' = tail /\ following' = next /\ tail' = tail
         ELSE IF tail # Dummy
         THEN at' = "test" /\ last' = tail /\ following' = next /\ tail' = tail
         ELSE IF next = Nothing
         THEN at' = "false" /\ last' = tail /\ following' = next /\ tail' = tail
         ELSE at' = "second" /\ last' = next /\ following' = next /\ tail' = next
  BY DEF Dequeue, ConsumerGoes, producers
<1>3. PICK c \in Seq(Nodes), d \in Nat : Chain(c, d)
  BY <1>2 DEF QueueInv
<1>4. /\ Line(c) /\ Linked(c) /\ Linkers(c) /\ Holding(c) /\ Payload(c, d) /\ Following(c) /\ Alone(c)
      /\ Len(c) \in Nat /\ Len(c) >= 1 /\ c[1] = tail /\ c[Len(c)] = head /\ link[head] = Nothing
      /\ \A i \in 1 .. Len(c) : c[i] \in Nodes
  BY <1>1, <1>3, LineFacts DEF Chain, Line
<1>5. /\ next # Nothing => Len(c) > 1 /\ next = c[2]
      /\ Idle /\ Len(c) > 1 => next # Nothing
  BY <1>1, <1>2, <1>3, FrontFacts
<1>6. tail \in Nodes /\ next \in Nodes \cup {Nothing} /\ kind \in {"intrusive", "nonintrusive"}
  BY <1>1 DEF QueueTypes
<1>7. /\ excuse' \in {"may", "must"} /\ (excuse' = "must" => order # <<>> /\ Idle)
      /\ closing' => Idle
  BY <1>2, <1>4 DEF Alone
<1>8. CASE kind = "nonintrusive" \/ tail # Dummy \/ next = Nothing
  <2>1. /\ last' = tail /\ following' = next /\ tail' = tail
        /\ \/ at' = "false" /\ next = Nothing /\ (kind = "nonintrusive" \/ tail = Dummy)
           \/ at' = "true" /\ next # Nothing /\ kind = "nonintrusive"
           \/ at' = "test" /\ kind = "intrusive" /\ tail # Dummy
    <3>1. CASE kind = "nonintrusive"
      <4>1. CASE next = Nothing
        BY <1>2, <3>1, <4>1
      <4>2. CASE next # Nothing
        BY <1>2, <3>1, <4>2
      <4> QED
        BY <4>1, <4>2
    <3>2. CASE kind = "intrusive"
      <4>1. CASE tail # Dummy
        BY <1>2, <3>2, <4>1
      <4>2. CASE tail = Dummy
        BY <1>2, <1>8, <3>2, <4>2
      <4> QED
        BY <4>1, <4>2
    <3> QED
      BY <1>6, <3>1, <3>2
  <2>2. Calls'
    BY <1>2, <1>7, <2>1 DEF Calls
  <2>3. Following(c)'
    BY <1>2, <1>6, <2>1 DEF Following
  <2>4. at' = "false" => next = Nothing /\ (kind = "nonintrusive" \/ tail = Dummy)
    BY <2>1
  <2>5. Len(c) = 1 /\ (kind = "nonintrusive" \/ tail = Dummy) => order = <<>>
    BY <1>1, <1>3, NoMessage
  <2>6. Idle' = Idle
    BY <1>2 DEF Idle
  <2>7. Alone(c)'
    <3>1. ASSUME closing' \/ excuse' = "must" PROVE Idle
      BY <1>7, <3>1
    <3>2. ASSUME Idle, next = Nothing PROVE Len(c) = 1
      <4>1. ~(Len(c) > 1) /\ Len(c) \in Nat /\ Len(c) >= 1
        BY <1>4, <1>5, <3>2
      <4>2. \A n \in Nat : ~(n > 1) /\ n >= 1 => n = 1
        OBVIOUS
      <4> QED
        BY <4>1, <4>2
    <3> QED
      BY <1>2, <2>1, <2>4, <2>5, <2>6, <3>1, <3>2 DEF Alone
  <2> QED
    BY <1>1, <1>2, <1>3, <1>6, <1>7, <1>8, <2>1, <2>2, <2>3, <2>7, LookKeeps DEF QueueTypes
<1>9. CASE kind = "intrusive" /\ tail = Dummy /\ next # Nothing
  <2>1. /\ kind = "intrusive" /\ tail = Dummy /\ next # Nothing
        /\ at' = "second" /\ last' = next /\ following' = next /\ tail' = next
    BY <1>2, <1>9
  <2>2. Len(c) > 1 /\ next = c[2] /\ next \in Nodes
    BY <1>5, <1>6, <2>1
  <2>3. PICK e \in Seq(Nodes) :
          /\ Len(e) = Len(c) - 1
          /\ \A i \in 1 .. Len(c) - 1 : e[i] = c[i + 1]
          /\ \A i, j \in 1 .. Len(e) : e[i] = e[j] => i = j
          /\ \A x : In(x, e) <=> In(x, c) /\ x # tail
    BY <1>1, <1>4, <2>2, Shorter
  <2>4. PICK d2 \in Nat : d2 = Len(c)
    BY <1>4
  <2>5. d = 1
    <3>1. In(Dummy, c)
      BY <1>1, <1>4, <2>1, LineFacts
    <3>2. d \in 1 .. Len(c) /\ c[d] = c[1] /\ 1 \in 1 .. Len(c)
      BY <1>4, <2>1, <3>1 DEF Payload
    <3> QED
      BY <1>4, <3>2 DEF Line
  <2>6. QueueTypes'
    BY <1>1, <1>2, <1>7, <2>1, <2>2 DEF QueueTypes
  <2>7. Owned'
    BY <1>1, <1>2 DEF Owned
  <2>8. Calls'
    BY <1>2, <1>7, <2>1 DEF Calls
  <2>9. Line(e)'
    <3>1. e[1] = c[1 + 1] /\ e[Len(e)] = c[Len(e) + 1] /\ Len(e) + 1 = Len(c) /\ 1 + 1 = 2 /\ Len(e) >= 1
      BY <1>4, <2>2, <2>3
    <3> QED
      BY <1>2, <1>4, <2>1, <2>2, <2>3, <3>1 DEF Line
  <2>10. \A i \in 1 .. Len(e) - 1 : i \in 1 .. Len(c) - 1 /\ i + 1 \in 1 .. Len(c) - 1 /\ e[i] = c[i + 1] /\ e[i + 1] = c[(i + 1) + 1]
    BY <1>4, <2>3
  <2>11. Linked(e)'
    <3>1. \A x, y : LinkedBy(x, y) => LinkedBy(x, y)'
      BY <1>2 DEF LinkedBy
    <3> QED
      BY <1>2, <1>4, <2>10, <3>1 DEF Linked
  <2>12. Linkers(e)'
    <3>1. ASSUME NEW q \in Producers, pc[q] = "link"
          PROVE  \E i \in 1 .. Len(e) - 1 : e[i] = previous[q] /\ e[i + 1] = node[q] /\ link[previous[q]] = Nothing
      <4>1. PICK i \in 1 .. Len(c) - 1 : c[i] = previous[q] /\ c[i + 1] = node[q] /\ link[previous[q]] = Nothing
        BY <1>4, <3>1 DEF Linkers, Gap
      <4>2. i # 1
        BY <1>4, <2>1, <4>1
      <4>3. i - 1 \in 1 .. Len(e) - 1 /\ i - 1 \in 1 .. Len(c) - 1 /\ (i - 1) + 1 = i
        BY <1>4, <2>3, <4>2
      <4> QED
        BY <2>3, <4>1, <4>3
    <3> QED
      BY <1>2, <2>1, <3>1 DEF Linkers, Gap
  <2>13. Holding(e)'
    <3>1. \A x \in Nodes : Comes(x)' <=> Comes(x)
      BY <1>2 DEF Comes
    <3> QED
      BY <1>2, <1>4, <2>1, <2>3, <3>1 DEF Holding, In
  <2>14. Payload(e, d2)'
    <3>1. Len(order) = Len(c) - 1 /\ \A i \in 1 .. Len(order) : order[i] = data[c[i + 1]]
      BY <1>4, <2>5 DEF Payload
    <3>2. ~In(Dummy, e) /\ d2 = Len(e) + 1
      BY <1>4, <2>1, <2>3, <2>4
    <3>3. /\ d2 \in 1 .. Len(e) + 1 /\ ~(d2 <= Len(e)) /\ Len(order) = Len(e)
          /\ \A i \in 1 .. Len(order) : i < d2 /\ order[i] = data[e[i]]
      BY <1>4, <2>3, <2>4, <3>1
    <3> QED
      BY <1>2, <2>1, <3>2, <3>3 DEF Payload, In
  <2>15. Following(e)'
    BY <1>1, <1>2, <2>1, <2>2, <2>3, <1>4 DEF Following, Line
  <2>16. Alone(e)'
    BY <1>2, <1>7, <2>1 DEF Alone, Idle
  <2>17. Chain(e, d2)'
    BY <2>9, <2>11, <2>12, <2>13, <2>14, <2>15, <2>16 DEF Chain
  <2> QED
    BY <2>6, <2>7, <2>8, <2>17 DEF QueueInv
<1> QED
  BY <1>6, <1>8, <1>9

(* The link of the node behind the dummy node is read, *)
LEMMA SecondLinkKeeps ==
  ASSUME QueueInv, SecondLink
  PROVE  QueueInv'
<1>1. QueueTypes /\ Calls
  BY DEF QueueInv
<1>2. /\ at = "second" /\ at' = "test" /\ last' = last /\ following' = link[last]
      /\ UNCHANGED <<kind, head, tail, link, data, held, pc, node, previous, newHead,
                     closing, order, excuse, output>>
  BY DEF SecondLink, ConsumerGoes, Continues, producers
<1>3. PICK c \in Seq(Nodes), d \in Nat : Chain(c, d)
  BY <1>2 DEF QueueInv
<1>4. Following(c) /\ Alone(c) /\ Len(c) \in Nat /\ Len(c) >= 1
  BY <1>1, <1>3, LineFacts DEF Chain
<1>5. kind = "intrusive" /\ tail # Dummy /\ last = tail /\ tail \in Nodes
  BY <1>1, <1>2, <1>4 DEF Following, QueueTypes
<1>6. ASSUME Idle, link[tail] = Nothing PROVE Len(c) = 1
  <2>1. ~(Len(c) > 1)
    BY <1>1, <1>2, <1>3, <1>6, FrontFacts
  <2>2. \A n \in Nat : ~(n > 1) /\ n >= 1 => n = 1
    OBVIOUS
  <2> QED
    BY <1>4, <2>1, <2>2
<1>7. Calls'
  BY <1>1, <1>2 DEF Calls
<1>8. Following(c)'
  BY <1>2, <1>5 DEF Following
<1>9. Alone(c)'
  BY <1>2, <1>4, <1>5, <1>6 DEF Alone, Idle
<1>10. following' \in Nodes \cup {Nothing}
  BY <1>1, <1>2, <1>5 DEF QueueTypes
<1> QED
  BY <1>1, <1>2, <1>3, <1>5, <1>7, <1>8, <1>9, <1>10, LookKeeps DEF QueueTypes

(* ... the consumer sees whether the node it holds is the last one, *)
LEMMA TestHeadKeeps ==
  ASSUME QueueInv, TestHead
  PROVE  QueueInv'
<1>1. QueueTypes /\ Calls
  BY DEF QueueInv
<1>2. /\ at = "test" /\ last' = last /\ following' = following
      /\ UNCHANGED <<kind, head, tail, data, held, pc, node, previous, newHead, closing, order, excuse, output>>
      /\ at' = IF following # Nothing THEN "true" ELSE IF last # head THEN "false" ELSE "exchange"
      /\ link' = IF at' = "exchange" THEN [link EXCEPT ![Dummy] = Nothing] ELSE link
  BY DEF TestHead, ConsumerGoes, Continues, producers
<1>3. PICK c \in Seq(Nodes), d \in Nat : Chain(c, d)
  BY <1>2 DEF QueueInv
<1>4. Following(c) /\ Alone(c) /\ Line(c) /\ Len(c) \in Nat /\ Len(c) >= 1
  BY <1>1, <1>3, LineFacts DEF Chain
<1>5. /\ kind = "intrusive" /\ tail # Dummy /\ last = tail /\ tail \in Nodes /\ Dummy \in Nodes
      /\ following \in {Nothing, link[tail]} /\ (tail = head <=> Len(c) = 1)
  BY <1>1, <1>2, <1>3, <1>4, FrontFacts DEF Following, QueueTypes, Nodes
<1>6. Calls'
  <2>1. at' \in {"true", "false", "exchange"}
    BY <1>2
  <2> QED
    BY <1>1, <1>2, <2>1 DEF Calls
<1>7. CASE following # Nothing
  <2>1. at' = "true" /\ link' = link
    BY <1>2, <1>7
  <2>2. Following(c)' /\ Alone(c)'
    BY <1>2, <1>4, <1>5, <1>7, <2>1 DEF Following, Alone, Idle
  <2> QED
    BY <1>1, <1>2, <1>3, <1>5, <1>6, <2>1, <2>2, LookKeeps DEF QueueTypes
<1>8. CASE following = Nothing /\ last # head
  <2>1. at' = "false" /\ link' = link
    BY <1>2, <1>8
  <2>2. Following(c)'
    BY <1>2, <1>5, <2>1 DEF Following
  <2>3. ~(closing \/ excuse = "must")
    BY <1>2, <1>4, <1>5, <1>8 DEF Alone
  <2>4. Alone(c)'
    BY <1>2, <2>3 DEF Alone
  <2> QED
    BY <1>1, <1>2, <1>3, <1>5, <1>6, <2>1, <2>2, <2>4, LookKeeps DEF QueueTypes
<1>9. CASE following = Nothing /\ last = head
  <2>1. at' = "exchange" /\ link' = [link EXCEPT ![Dummy] = Nothing]
    BY <1>2, <1>9
  <2>2. ~In(Dummy, c)
    <3>1. Len(c) = 1 /\ c[1] = tail
      BY <1>4, <1>5, <1>9 DEF Line
    <3>2. \A i \in 1 .. 1 : i = 1
      OBVIOUS
    <3> QED
      BY <1>5, <3>1, <3>2 DEF In
  <2>3. link'[Dummy] = Nothing
    BY <1>1, <1>5, <2>1 DEF QueueTypes
  <2>4. Following(c)' /\ Alone(c)'
    BY <1>2, <1>4, <1>5, <2>1, <2>2, <2>3 DEF Following, Alone, Idle, In
  <2> QED
    BY <1>1, <1>2, <1>3, <1>5, <1>6, <2>1, <2>2, <2>4, LookKeeps DEF QueueTypes
<1> QED
  BY <1>7, <1>8, <1>9

(* ... once the dummy node is behind it, the link of that node is read; *)
LEMMA LastLinkKeeps ==
  ASSUME QueueInv, LastLink
  PROVE  QueueInv'
<1>1. QueueTypes /\ Calls
  BY DEF QueueInv
<1>2. /\ at = "last" /\ at' = (IF link[last] # Nothing THEN "true" ELSE "false")
      /\ last' = last /\ following' = link[last]
      /\ UNCHANGED <<kind, head, tail, link, data, held, pc, node, previous, newHead,
                     closing, order, excuse, output>>
  BY DEF LastLink, ConsumerGoes, Continues, producers
<1>3. PICK c \in Seq(Nodes), d \in Nat : Chain(c, d)
  BY <1>2 DEF QueueInv
<1>4. Following(c) /\ Alone(c) /\ Line(c) /\ Len(c) \in Nat /\ Len(c) >= 1
  BY <1>1, <1>3, LineFacts DEF Chain
<1>5. kind = "intrusive" /\ tail # Dummy /\ last = tail /\ tail \in Nodes /\ In(Dummy, c)
  BY <1>1, <1>2, <1>4 DEF Following, QueueTypes
<1>6. Len(c) > 1
  <2>1. PICK i \in 1 .. Len(c) : c[i] = Dummy
    BY <1>5 DEF In
  <2>2. i # 1
    BY <1>4, <1>5, <2>1 DEF Line
  <2> QED
    BY <1>4, <2>1, <2>2
<1>7. Idle => link[tail] # Nothing
  BY <1>1, <1>2, <1>3, <1>6, FrontFacts
<1>8. Calls'
  <2>1. at' \in {"true", "false"}
    BY <1>2
  <2> QED
    BY <1>1, <1>2, <2>1 DEF Calls
<1>9. following' \in Nodes \cup {Nothing}
  BY <1>1, <1>2, <1>5 DEF QueueTypes
<1>10. CASE link[tail] # Nothing
  <2>1. at' = "true" /\ Following(c)' /\ Alone(c)'
    BY <1>2, <1>4, <1>5, <1>10 DEF Following, Alone, Idle
  <2> QED
    BY <1>1, <1>2, <1>3, <1>5, <1>8, <1>9, <2>1, LookKeeps DEF QueueTypes
<1>11. CASE link[tail] = Nothing
  <2>1. at' = "false" /\ Following(c)'
    BY <1>2, <1>4, <1>5, <1>11 DEF Following
  <2>2. Alone(c)'
    BY <1>2, <1>4, <1>7, <1>11 DEF Alone
  <2> QED
    BY <1>1, <1>2, <1>3, <1>5, <1>8, <1>9, <2>1, <2>2, LookKeeps DEF QueueTypes
<1> QED
  BY <1>10, <1>11

(* ... and Dequeue returns without a message, in the destructor for the last *)
(* time.                                                                     *)
LEMMA ReturnsFalseKeeps ==
  ASSUME QueueInv, ReturnsFalse
  PROVE  QueueInv'
<1>1. QueueTypes /\ Owned /\ Calls
  BY DEF QueueInv
<1>2. /\ at = "false" /\ at' = (IF closing THEN "destroyed" ELSE "idle")
      /\ last' = Nothing /\ following' = Nothing /\ newHead' = Nothing
      /\ excuse' = "no" /\ output' = Nothing
      /\ UNCHANGED <<kind, head, tail, pc, node, previous, closing, order>>
  BY DEF ReturnsFalse, Returns, producers
<1>3. PICK c \in Seq(Nodes), d \in Nat : Chain(c, d)
  BY <1>2 DEF QueueInv
<1>4. CASE ~closing
  <2>1. at' = "idle" /\ UNCHANGED <<held, link, data>>
    BY <1>2, <1>4 DEF ReturnsFalse
  <2>2. Calls' /\ Following(c)' /\ Alone(c)'
    BY <1>1, <1>2, <1>4, <2>1 DEF Calls, Following, Alone
  <2> QED
    BY <1>1, <1>2, <1>3, <2>1, <2>2, LookKeeps DEF QueueTypes
<1>5. CASE closing
  <2>1. PICK n \in Nodes : n = (IF kind = "intrusive" THEN Dummy ELSE head) /\ GivesUp(n)
    <3>1. head \in Nodes /\ Dummy \in Nodes
      BY <1>1 DEF QueueTypes, Nodes
    <3> QED
      BY <1>5, <3>1 DEF ReturnsFalse
  <2>2. Idle /\ order = <<>>
    BY <1>2, <1>3, <1>5 DEF Chain, Alone
  <2>3. Len(c) = 1 /\ d = 1
    <3>1. /\ d \in 1 .. Len(c) + 1 /\ Len(c) \in Nat /\ Len(c) >= 1
          /\ Len(order) = IF d <= Len(c) THEN Len(c) - 1 ELSE Len(c)
      BY <1>1, <1>3, LineFacts DEF Chain, Payload
    <3>2. Len(order) = 0
      BY <2>2
    <3>3. \A m, k \in Nat : m >= 1 /\ k \in 1 .. m + 1 /\ 0 = (IF k <= m THEN m - 1 ELSE m) => m = 1 /\ k = 1
      OBVIOUS
    <3> QED
      BY <3>1, <3>2, <3>3
  <2>4. ASSUME NEW x \in held PROVE x = n
    <3>1. x \in Nodes /\ (In(x, c) \/ (kind = "intrusive" /\ x = Dummy))
      BY <1>1, <1>3, <2>2 DEF Chain, Holding, Comes, Idle, QueueTypes
    <3>2. In(x, c) => x = c[1]
      BY <2>3 DEF In
    <3>3. c[1] = head /\ (kind = "intrusive" => c[1] = Dummy)
      BY <1>3, <2>3 DEF Chain, Line, Payload
    <3> QED
      BY <2>1, <3>1, <3>2, <3>3
  <2>5. held' = {}
    BY <2>1, <2>4 DEF GivesUp
  <2>6. /\ link' = [link EXCEPT ![n] = Nothing]
        /\ data' \in [Nodes -> Messages \cup {Nothing}]
        /\ \A x \in Messages : data'[x] = data[x]
    BY <1>1, <2>1 DEF GivesUp, QueueTypes, Nodes
  <2>7. at' = "destroyed"
    BY <1>2, <1>5
  <2>8. QueueTypes'
    BY <1>1, <1>2, <2>5, <2>6, <2>7 DEF QueueTypes
  <2>9. Owned'
    BY <1>1, <1>2, <2>2, <2>5, <2>6 DEF Owned, Idle
  <2>10. Calls'
    BY <1>2, <1>5, <2>2, <2>5, <2>7 DEF Calls, Idle
  <2> QED
    BY <2>7, <2>8, <2>9, <2>10 DEF QueueInv
<1> QED
  BY <1>4, <1>5

(* The destructor is called when no producer is left. *)
LEMMA DestroyKeeps ==
  ASSUME QueueInv, Destroy
  PROVE  QueueInv'
<1>1. QueueTypes /\ Calls
  BY DEF QueueInv
<1>2. /\ at = "idle" /\ Idle /\ closing' = TRUE
      /\ UNCHANGED <<kind, head, tail, link, data, held, pc, node, previous,
                     at, last, following, newHead, order, excuse, output>>
  BY DEF Destroy, producers, consumer, history
<1>3. PICK c \in Seq(Nodes), d \in Nat : Chain(c, d)
  BY <1>2 DEF QueueInv
<1>4. Calls'
  BY <1>1, <1>2 DEF Calls, Idle
<1>5. Following(c)' /\ Alone(c)'
  BY <1>2 DEF Following, Alone, Idle
<1> QED
  BY <1>1, <1>2, <1>3, <1>4, <1>5, LookKeeps DEF QueueTypes

(* The dummy node is brought into the list like a producer's, *)
LEMMA ExchangeDummyKeeps ==
  ASSUME QueueInv, ExchangeDummy
  PROVE  QueueInv'
<1>1. QueueTypes /\ Owned /\ Calls
  BY DEF QueueInv
<1>2. /\ at = "exchange" /\ at' = "link" /\ newHead' = head /\ head' = Dummy
      /\ last' = last /\ following' = following
      /\ UNCHANGED <<kind, tail, link, data, held, pc, node, previous, closing, order, excuse, output>>
  BY DEF ExchangeDummy, ConsumerGoes, Continues, producers
<1>3. PICK c \in Seq(Nodes), d \in Nat : Chain(c, d)
  BY <1>2 DEF QueueInv
<1>4. /\ Line(c) /\ Linked(c) /\ Linkers(c) /\ Holding(c) /\ Payload(c, d) /\ Following(c) /\ Alone(c)
      /\ Len(c) \in Nat /\ Len(c) >= 1 /\ c[1] = tail /\ c[Len(c)] = head /\ link[head] = Nothing
      /\ \A i \in 1 .. Len(c) : c[i] \in Nodes
  BY <1>1, <1>3, LineFacts DEF Chain, Line
<1>5. /\ Dummy \in Nodes /\ link[Dummy] = Nothing /\ ~In(Dummy, c)
      /\ kind = "intrusive" /\ tail # Dummy /\ last = tail
  BY <1>2, <1>4 DEF Following, Nodes
<1>6. PICK e \in Seq(Nodes) :
        /\ Len(e) = Len(c) + 1 /\ e[Len(c) + 1] = Dummy
        /\ \A i \in 1 .. Len(c) : e[i] = c[i]
        /\ \A i, j \in 1 .. Len(e) : e[i] = e[j] => i = j
        /\ \A x : In(x, e) <=> In(x, c) \/ x = Dummy
  BY <1>1, <1>4, <1>5, Longer
<1>7. QueueTypes'
  BY <1>1, <1>2, <1>5 DEF QueueTypes
<1>8. Owned'
  BY <1>1, <1>2 DEF Owned
<1>9. Calls'
  BY <1>1, <1>2 DEF Calls
<1>10. Line(e)'
  BY <1>2, <1>4, <1>5, <1>6 DEF Line
<1>11. \A i \in 1 .. Len(e) - 1 : i \in 1 .. Len(c) - 1 \/ i = Len(c)
  BY <1>4, <1>6
<1>12. Linked(e)'
  <2>1. ASSUME NEW i \in 1 .. Len(c) - 1
        PROVE  link'[e[i]] = e[i + 1] \/ (link'[e[i]] = Nothing /\ LinkedBy(e[i], e[i + 1])')
    <3>1. e[i] = c[i] /\ e[i + 1] = c[i + 1]
      BY <1>4, <1>6
    <3>2. LinkedBy(c[i], c[i + 1]) => LinkedBy(c[i], c[i + 1])'
      BY <1>2 DEF LinkedBy
    <3>3. link[c[i]] = c[i + 1] \/ (link[c[i]] = Nothing /\ LinkedBy(c[i], c[i + 1]))
      BY <1>4 DEF Linked
    <3> QED
      BY <1>2, <3>1, <3>2, <3>3 DEF LinkedBy
  <2>2. ASSUME NEW i, i = Len(c)
        PROVE  link'[e[i]] = Nothing /\ LinkedBy(e[i], e[i + 1])'
    <3>1. e[i] = head /\ e[i + 1] = Dummy
      BY <1>4, <1>6, <2>2
    <3> QED
      BY <1>2, <1>4, <3>1 DEF LinkedBy
  <2> QED
    BY <1>11, <2>1, <2>2 DEF Linked
<1>13. Linkers(e)'
  <2>1. ASSUME NEW q \in Producers, pc'[q] = "link" PROVE Gap(e, previous[q], node[q])'
    <3>1. PICK i \in 1 .. Len(c) - 1 : c[i] = previous[q] /\ c[i + 1] = node[q] /\ link[previous[q]] = Nothing
      BY <1>2, <1>4, <2>1 DEF Linkers, Gap
    <3>2. i \in 1 .. Len(e) - 1 /\ e[i] = c[i] /\ e[i + 1] = c[i + 1]
      BY <1>4, <1>6
    <3> QED
      BY <1>2, <3>1, <3>2 DEF Gap
  <2>2. Gap(e, newHead, Dummy)'
    <3>1. Len(c) \in 1 .. Len(e) - 1 /\ e[Len(c)] = head /\ e[Len(c) + 1] = Dummy
      BY <1>4, <1>6
    <3> QED
      BY <1>2, <1>4, <3>1 DEF Gap
  <2> QED
    BY <2>1, <2>2 DEF Linkers
<1>14. Holding(e)'
  <2>1. \A x \in Nodes : Comes(x)' <=> Comes(x)
    BY <1>2 DEF Comes
  <2>2. \A x : In(x, e)' <=> In(x, c) \/ x = Dummy
    BY <1>6 DEF In
  <2>3. ~Comes(Dummy)
    BY <1>1, <1>5 DEF Comes, Owned
  <2> QED
    BY <1>2, <1>4, <1>5, <2>1, <2>2, <2>3 DEF Holding
<1>15. PICK d2 \in Nat : d2 = Len(c) + 1
  BY <1>4
<1>16. Payload(e, d2)'
  <2>1. d \in 1 .. Len(c) + 1 /\ ~(d <= Len(c))
    <3>1. d \in 1 .. Len(c) + 1 /\ (d <= Len(c) => c[d] = Dummy)
      BY <1>4, <1>5 DEF Payload
    <3>2. d <= Len(c) => In(Dummy, c)
      BY <1>4, <3>1 DEF In
    <3> QED
      BY <1>5, <3>1, <3>2
  <2>2. Len(order) = Len(c) /\ \A i \in 1 .. Len(order) : order[i] = data[c[i]]
    BY <1>4, <2>1 DEF Payload
  <2>3. /\ d2 \in 1 .. Len(e) + 1 /\ d2 <= Len(e) /\ e[d2] = Dummy /\ Len(order) = Len(e) - 1
        /\ \A i \in 1 .. Len(order) : i < d2 /\ order[i] = data[e[i]]
    BY <1>4, <1>6, <1>15, <2>2
  <2> QED
    BY <1>2, <1>5, <2>3 DEF Payload
<1>17. Following(e)'
  <2>1. In(Dummy, e)'
    BY <1>6 DEF In
  <2> QED
    BY <1>2, <1>5, <2>1 DEF Following
<1>18. Alone(e)'
  BY <1>2, <1>4 DEF Alone, Idle
<1>19. Chain(e, d2)'
  BY <1>10, <1>12, <1>13, <1>14, <1>16, <1>17, <1>18 DEF Chain
<1> QED
  BY <1>7, <1>8, <1>9, <1>19 DEF QueueInv

(* ... and linked. *)
LEMMA LinkDummyKeeps ==
  ASSUME QueueInv, LinkDummy
  PROVE  QueueInv'
<1>1. QueueTypes /\ Owned /\ Calls
  BY DEF QueueInv
<1>2. /\ at = "link" /\ at' = "last" /\ link' = [link EXCEPT ![newHead] = Dummy]
      /\ last' = last /\ following' = following /\ newHead' = newHead
      /\ UNCHANGED <<kind, head, tail, data, held, pc, node, previous, closing, order, excuse, output>>
  BY DEF LinkDummy, ConsumerGoes, Continues, producers
<1>3. PICK c \in Seq(Nodes), d \in Nat : Chain(c, d)
  BY <1>2 DEF QueueInv
<1>4. /\ Line(c) /\ Linked(c) /\ Linkers(c) /\ Holding(c) /\ Payload(c, d) /\ Following(c) /\ Alone(c)
      /\ Len(c) \in Nat /\ Len(c) >= 1 /\ c[1] = tail /\ c[Len(c)] = head /\ link[head] = Nothing
      /\ \A i \in 1 .. Len(c) : c[i] \in Nodes
      /\ \A i, j \in 1 .. Len(c) : c[i] = c[j] => i = j
  BY <1>1, <1>3, LineFacts DEF Chain, Line
<1>5. PICK k \in 1 .. Len(c) - 1 : c[k] = newHead /\ c[k + 1] = Dummy /\ link[newHead] = Nothing
  BY <1>2, <1>4 DEF Linkers, Gap
<1>6. k \in 1 .. Len(c) /\ c[k] \in Nodes /\ c[k] # head
  <2>1. k \in 1 .. Len(c) /\ k # Len(c) /\ Len(c) \in 1 .. Len(c)
    BY <1>4
  <2> QED
    BY <1>4, <2>1
<1>7. /\ \A x \in Nodes : x # c[k] => link'[x] = link[x]
      /\ link'[c[k]] = c[k + 1] /\ Dummy \in Nodes
  BY <1>1, <1>2, <1>5, <1>6 DEF QueueTypes, Nodes
<1>8. QueueTypes'
  BY <1>1, <1>2, <1>5, <1>6, <1>7 DEF QueueTypes
<1>9. \A q \in Producers : pc[q] = "exchange" => node[q] \in Nodes /\ node[q] # c[k]
  BY <1>1, <1>4, <1>6 DEF Owned, Holding, Comes, In
<1>10. Owned'
  BY <1>1, <1>2, <1>7, <1>9 DEF Owned
<1>11. Calls'
  BY <1>1, <1>2 DEF Calls
<1>12. Line(c)'
  <2>1. head \in Nodes
    BY <1>1 DEF QueueTypes
  <2> QED
    BY <1>2, <1>4, <1>6, <1>7, <2>1 DEF Line
<1>13. \A i \in 1 .. Len(c) - 1 : i \in 1 .. Len(c) /\ i + 1 \in 1 .. Len(c)
  BY <1>4
<1>14. Linked(c)'
  <2>1. ASSUME NEW i \in 1 .. Len(c) - 1
        PROVE  link'[c[i]] = c[i + 1] \/ (link'[c[i]] = Nothing /\ LinkedBy(c[i], c[i + 1])')
    <3>1. CASE i = k
      BY <1>7, <3>1
    <3>2. CASE i # k
      <4>1. c[i] # c[k] /\ c[i] \in Nodes
        BY <1>4, <1>6, <1>13, <3>2
      <4>2. LinkedBy(c[i], c[i + 1]) => LinkedBy(c[i], c[i + 1])'
        BY <1>2, <1>5, <4>1 DEF LinkedBy
      <4> QED
        BY <1>4, <1>7, <4>1, <4>2 DEF Linked
    <3> QED
      BY <3>1, <3>2
  <2> QED
    BY <2>1 DEF Linked
<1>15. Linkers(c)'
  <2>1. ASSUME NEW q \in Producers, pc'[q] = "link" PROVE Gap(c, previous[q], node[q])'
    <3>1. pc[q] = "link" /\ previous'[q] = previous[q] /\ node'[q] = node[q]
      BY <1>2, <2>1
    <3>2. PICK i \in 1 .. Len(c) - 1 : c[i] = previous[q] /\ c[i + 1] = node[q] /\ link[previous[q]] = Nothing
      BY <1>4, <3>1 DEF Linkers, Gap
    <3>3. node[q] # Dummy
      BY <1>1, <1>2, <1>4, <3>1 DEF Following, Owned
    <3>4. i # k
      BY <1>5, <3>2, <3>3
    <3>5. c[i] # c[k] /\ c[i] \in Nodes
      BY <1>4, <1>6, <1>13, <3>4
    <3> QED
      BY <1>7, <3>1, <3>2, <3>5 DEF Gap
  <2> QED
    BY <1>2, <2>1 DEF Linkers
<1>16. Holding(c)'
  <2>1. \A x \in Nodes : Comes(x)' <=> Comes(x)
    BY <1>2 DEF Comes
  <2> QED
    BY <1>2, <1>4, <2>1 DEF Holding, In
<1>17. Payload(c, d)'
  BY <1>2, <1>4 DEF Payload, In
<1>18. Following(c)'
  BY <1>2, <1>4 DEF Following, In
<1>19. Alone(c)'
  BY <1>2, <1>4 DEF Alone, Idle
<1>20. Chain(c, d)'
  BY <1>12, <1>14, <1>15, <1>16, <1>17, <1>18, <1>19 DEF Chain
<1> QED
  BY <1>3, <1>8, <1>10, <1>11, <1>20 DEF QueueInv

(* Where the message that Dequeue returns was in the list, and what it is. *)
LEMMA FrontIsFirst ==
  ASSUME QueueTypes, Owned, at = "true", NEW c \in Seq(Nodes), NEW d \in Nat, Chain(c, d)
  PROVE  /\ Len(c) > 1 /\ following = c[2] /\ following \in Nodes /\ last = tail /\ tail \in Nodes
         /\ d = 1 <=> kind = "nonintrusive"
         /\ Len(order) >= 1
         /\ order[1] = IF kind = "intrusive" THEN last ELSE data[following]
<1>1. /\ Line(c) /\ Holding(c) /\ Payload(c, d) /\ Following(c)
      /\ Len(c) \in Nat /\ Len(c) >= 1 /\ c[1] = tail
      /\ \A i \in 1 .. Len(c) : c[i] \in Nodes
  BY LineFacts DEF Chain, Line
<1>2. /\ kind \in {"intrusive", "nonintrusive"} /\ tail \in Nodes
      /\ following = link[tail] /\ following # Nothing /\ last = tail /\ (kind = "intrusive" => tail # Dummy)
  BY <1>1 DEF Following, QueueTypes
<1>3. Len(c) > 1 /\ following = c[2]
  BY <1>2, FrontFacts
<1>4. following \in Nodes
  <2>1. 2 \in 1 .. Len(c)
    BY <1>1, <1>3
  <2> QED
    BY <1>1, <1>3, <2>1
<1>5. d \in 1 .. Len(c) + 1 /\ (d = 1 <=> kind = "nonintrusive")
  BY <1>1, <1>2, <1>3 DEF Payload
<1>6. Len(order) >= 1 /\ 1 \in 1 .. Len(order)
  <2>1. Len(order) = IF d <= Len(c) THEN Len(c) - 1 ELSE Len(c)
    BY <1>1 DEF Payload
  <2> QED
    BY <1>1, <1>3, <1>5, <2>1
<1>7. order[1] = data[IF 1 < d THEN c[1] ELSE c[1 + 1]]
  BY <1>1, <1>6 DEF Payload
<1>8. kind = "intrusive" => data[tail] = tail
  <2>1. In(tail, c)
    BY LineFacts, <1>1
  <2>2. kind = "intrusive" => tail \in Messages
    BY <1>1, <1>2, <2>1 DEF Holding, Owned, Nodes
  <2> QED
    BY <2>2 DEF Owned
<1>9. order[1] = IF kind = "intrusive" THEN last ELSE data[following]
  <2>1. CASE kind = "intrusive"
    BY <1>1, <1>2, <1>5, <1>7, <1>8, <2>1
  <2>2. CASE kind = "nonintrusive"
    BY <1>3, <1>5, <1>7, <2>2
  <2> QED
    BY <1>2, <2>1, <2>2
<1> QED
  BY <1>2, <1>3, <1>4, <1>5, <1>6, <1>9

(* Dequeue returns the first message: the list loses its first node. *)
LEMMA ReturnsTrueKeeps ==
  ASSUME QueueInv, ReturnsTrue
  PROVE  QueueInv'
<1>1. QueueTypes /\ Owned /\ Calls
  BY DEF QueueInv
<1>2. /\ at = "true" /\ at' = "idle"
      /\ last' = Nothing /\ following' = Nothing /\ newHead' = Nothing
      /\ excuse' = "no" /\ output' = (IF kind = "intrusive" THEN last ELSE data[following])
      /\ tail' = following /\ order' = SubSeq(order, 2, Len(order)) /\ GivesUp(last)
      /\ UNCHANGED <<kind, head, pc, node, previous, closing>>
  BY DEF ReturnsTrue, Returns, producers
<1>3. PICK c \in Seq(Nodes), d \in Nat : Chain(c, d)
  BY <1>2 DEF QueueInv
<1>4. /\ Line(c) /\ Linked(c) /\ Linkers(c) /\ Holding(c) /\ Payload(c, d) /\ Following(c) /\ Alone(c)
      /\ Len(c) \in Nat /\ Len(c) >= 1 /\ c[1] = tail /\ c[Len(c)] = head /\ link[head] = Nothing
      /\ \A i \in 1 .. Len(c) : c[i] \in Nodes
      /\ In(tail, c) /\ link[tail] # Nothing /\ (kind = "intrusive" => tail # Dummy)
  BY <1>1, <1>2, <1>3, LineFacts DEF Chain, Line, Following
<1>5. /\ Len(c) > 1 /\ following = c[2] /\ following \in Nodes /\ last = tail /\ tail \in Nodes
      /\ d = 1 <=> kind = "nonintrusive"
      /\ Len(order) >= 1
      /\ output' = order[1]
  BY <1>1, <1>2, <1>3, FrontIsFirst
<1>6. PICK e \in Seq(Nodes) :
        /\ Len(e) = Len(c) - 1
        /\ \A i \in 1 .. Len(c) - 1 : e[i] = c[i + 1]
        /\ \A i, j \in 1 .. Len(e) : e[i] = e[j] => i = j
        /\ \A x : In(x, e) <=> In(x, c) /\ x # tail
  BY <1>1, <1>4, <1>5, Shorter
<1>7. /\ held' = held \ {tail} /\ link' = [link EXCEPT ![tail] = Nothing]
      /\ data' = IF tail \in Messages THEN data ELSE [data EXCEPT ![tail] = Nothing]
  BY <1>2, <1>5 DEF GivesUp
<1>8. /\ \A x \in Nodes : x # tail => link'[x] = link[x] /\ data'[x] = data[x]
      /\ \A x \in Messages : data'[x] = data[x]
      /\ link' \in [Nodes -> Nodes \cup {Nothing}] /\ data' \in [Nodes -> Messages \cup {Nothing}]
      /\ link'[tail] = Nothing
  BY <1>1, <1>5, <1>7 DEF QueueTypes, Nodes
<1>9. /\ order \in Seq(Messages) /\ Len(order) \in Nat /\ order' \in Seq(Messages)
      /\ Len(order') = Len(order) - 1 /\ order[1] \in Messages
      /\ \A i \in 1 .. Len(order) - 1 : order'[i] = order[i + 1]
  <2>1. order \in Seq(Messages) /\ Len(order) \in Nat /\ 1 \in 1 .. Len(order)
    BY <1>1, <1>5, LenProperties DEF QueueTypes
  <2>2. order[1] \in Messages
    BY <2>1, ElementOfSeq
  <2>3. \A i \in 1 .. Len(order) - 1 : i + 1 \in 1 .. Len(order) /\ order[i + 1] \in Messages
    BY <2>1, ElementOfSeq
  <2>4. order' = [i \in 1 .. Len(order) - 1 |-> order[i + 1]]
    BY <1>2, <1>5, <2>1
  <2>5. order' \in Seq(Messages) /\ Len(order') = Len(order) - 1
    BY <1>5, <2>1, <2>3, <2>4
  <2> QED
    BY <2>1, <2>2, <2>4, <2>5
<1>10. QueueTypes'
  BY <1>1, <1>2, <1>5, <1>7, <1>8, <1>9 DEF QueueTypes
<1>11. \A p \in Producers : pc[p] = "exchange" => node[p] \in Nodes /\ node[p] # tail
  BY <1>1, <1>4 DEF Owned, Holding, Comes
<1>12. Owned'
  BY <1>1, <1>2, <1>7, <1>8, <1>11 DEF Owned
<1>13. Calls'
  BY <1>1, <1>2 DEF Calls
<1>14. \A i \in 1 .. Len(e) : /\ i \in 1 .. Len(c) - 1 /\ e[i] = c[i + 1] /\ e[i] \in Nodes /\ e[i] # tail
                              /\ link'[e[i]] = link[e[i]] /\ data'[e[i]] = data[e[i]]
  <2>1. \A i \in 1 .. Len(e) : i \in 1 .. Len(c) - 1 /\ e[i] = c[i + 1] /\ i + 1 \in 1 .. Len(c)
    BY <1>4, <1>6
  <2>2. \A i \in 1 .. Len(e) : In(e[i], e)
    BY DEF In
  <2> QED
    BY <1>4, <1>6, <1>8, <2>1, <2>2
<1>15. Line(e)'
  <2>1. e[1] = c[1 + 1] /\ e[Len(e)] = c[Len(e) + 1] /\ Len(e) + 1 = Len(c) /\ 1 + 1 = 2 /\ Len(e) >= 1
        /\ Len(e) \in 1 .. Len(e)
    BY <1>4, <1>5, <1>6
  <2>2. link'[head] = Nothing
    BY <1>4, <1>14, <2>1
  <2> QED
    BY <1>2, <1>4, <1>5, <1>6, <2>1, <2>2 DEF Line
<1>16. \A i \in 1 .. Len(e) - 1 : i \in 1 .. Len(e) /\ i + 1 \in 1 .. Len(e) /\ i + 1 \in 1 .. Len(c) - 1
  BY <1>4, <1>6
<1>17. Linked(e)'
  <2>1. \A x, y : LinkedBy(x, y) => LinkedBy(x, y)'
    <3>1. at # "link"
      BY <1>2
    <3> QED
      BY <1>2, <3>1 DEF LinkedBy
  <2>2. ASSUME NEW i \in 1 .. Len(e) - 1
        PROVE  link'[e[i]] = e[i + 1] \/ (link'[e[i]] = Nothing /\ LinkedBy(e[i], e[i + 1])')
    <3>1. /\ i + 1 \in 1 .. Len(c) - 1 /\ link'[e[i]] = link[e[i]]
          /\ e[i] = c[i + 1] /\ e[i + 1] = c[(i + 1) + 1]
      BY <1>14, <1>16
    <3> QED
      BY <1>4, <2>1, <3>1 DEF Linked
  <2> QED
    BY <2>2 DEF Linked
<1>18. Linkers(e)'
  <2>1. ASSUME NEW q \in Producers, pc[q] = "link"
        PROVE  \E i \in 1 .. Len(e) - 1 : e[i] = previous[q] /\ e[i + 1] = node[q] /\ link'[previous[q]] = Nothing
    <3>1. PICK i \in 1 .. Len(c) - 1 : c[i] = previous[q] /\ c[i + 1] = node[q] /\ link[previous[q]] = Nothing
      BY <1>4, <2>1 DEF Linkers, Gap
    <3>2. i # 1
      BY <1>4, <3>1
    <3>3. i - 1 \in 1 .. Len(e) - 1 /\ i - 1 \in 1 .. Len(e) /\ i \in 1 .. Len(e) /\ (i - 1) + 1 = i
      BY <1>4, <1>6, <3>2
    <3>4. e[i - 1] = c[i] /\ e[i] = c[i + 1]
      BY <1>14, <3>3
    <3>5. link'[previous[q]] = Nothing
      BY <1>14, <3>1, <3>3, <3>4
    <3> QED
      BY <3>1, <3>3, <3>4, <3>5
  <2> QED
    BY <1>2, <2>1 DEF Linkers, Gap
<1>19. Holding(e)'
  <2>1. \A x \in Nodes : Comes(x)' <=> Comes(x)
    BY <1>2 DEF Comes
  <2>2. \A x : In(x, e)' <=> In(x, c) /\ x # tail
    BY <1>6 DEF In
  <2> QED
    BY <1>2, <1>4, <1>7, <2>1, <2>2 DEF Holding
<1>20. PICK d2 \in Nat : d2 = IF d = 1 THEN 1 ELSE d - 1
  BY <1>4 DEF Payload
<1>21. Payload(e, d2)'
  <2>1. /\ d \in 1 .. Len(c) + 1
        /\ kind = "intrusive" => (d <= Len(c) => c[d] = Dummy) /\ (In(Dummy, c) => d <= Len(c))
        /\ Len(order) = IF d <= Len(c) THEN Len(c) - 1 ELSE Len(c)
        /\ \A i \in 1 .. Len(order) : order[i] = data[IF i < d THEN c[i] ELSE c[i + 1]]
    BY <1>4 DEF Payload
  <2>2. /\ d2 \in 1 .. Len(e) + 1 /\ (kind = "nonintrusive" => d2 = 1)
        /\ Len(order') = IF d2 <= Len(e) THEN Len(e) - 1 ELSE Len(e)
    BY <1>4, <1>5, <1>6, <1>9, <1>20, <2>1
  <2>3. kind = "intrusive" => (d2 <= Len(e) => e[d2] = Dummy) /\ (In(Dummy, e) => d2 <= Len(e))
    <3>1. kind = "intrusive" => d # 1
      BY <1>5
    <3>2. d # 1 => d2 + 1 = d /\ (d2 <= Len(e) <=> d <= Len(c)) /\ d2 >= 1
      BY <1>4, <1>6, <1>20, <2>1
    <3>3. d2 <= Len(e) /\ d2 >= 1 => e[d2] = c[d2 + 1]
      BY <1>14
    <3> QED
      BY <1>6, <2>1, <3>1, <3>2, <3>3
  <2>4. ASSUME NEW i \in 1 .. Len(order')
        PROVE  order'[i] = data'[IF i < d2 THEN e[i] ELSE e[i + 1]]
    <3>1. /\ i \in 1 .. Len(order) - 1 /\ i + 1 \in 1 .. Len(order)
          /\ i < d2 <=> i + 1 < d
          /\ (i < d2 => i \in 1 .. Len(e)) /\ (~(i < d2) => i + 1 \in 1 .. Len(e))
      BY <1>4, <1>5, <1>6, <1>9, <1>20, <2>1
    <3>2. order'[i] = data[IF i + 1 < d THEN c[i + 1] ELSE c[(i + 1) + 1]]
      BY <1>9, <2>1, <3>1
    <3>3. CASE i < d2
      BY <1>14, <3>1, <3>2, <3>3
    <3>4. CASE ~(i < d2)
      BY <1>14, <3>1, <3>2, <3>4
    <3> QED
      BY <3>3, <3>4
  <2> QED
    BY <1>2, <2>2, <2>3, <2>4 DEF Payload, In
<1>22. Following(e)'
  BY <1>2 DEF Following
<1>23. Alone(e)'
  BY <1>2, <1>4 DEF Alone, Idle
<1>24. Chain(e, d2)'
  BY <1>15, <1>17, <1>18, <1>19, <1>21, <1>22, <1>23 DEF Chain
<1> QED
  BY <1>10, <1>12, <1>13, <1>24 DEF QueueInv

(* The steps of IPLocation leave the queue alone. *)
LEMMA StutterKeeps ==
  ASSUME QueueInv, UNCHANGED queueVars
  PROVE  QueueInv'
<1>1. UNCHANGED <<kind, head, tail, link, data, held, pc, node, previous, at, last, following, newHead,
                  closing, order, excuse, output>>
  BY DEF queueVars, producers, consumer, history
<1>2. QueueTypes'
  BY <1>1 DEF QueueInv, QueueTypes
<1>3. Owned'
  BY <1>1 DEF QueueInv, Owned
<1>4. Calls'
  BY <1>1 DEF QueueInv, Calls, Idle
<1>5. ASSUME NEW c \in Seq(Nodes), NEW d \in Nat, Chain(c, d) PROVE Chain(c, d)'
  <2>1. Line(c)'
    BY <1>1, <1>5 DEF Chain, Line
  <2>2. Linked(c)' /\ Linkers(c)'
    BY <1>1, <1>5 DEF Chain, Linked, LinkedBy, Linkers, Gap
  <2>3. Holding(c)' /\ Payload(c, d)'
    BY <1>1, <1>5 DEF Chain, Holding, Payload, In, Comes
  <2>4. Following(c)' /\ Alone(c)'
    BY <1>1, <1>5 DEF Chain, Following, Alone, Idle, In
  <2> QED
    BY <2>1, <2>2, <2>3, <2>4 DEF Chain
<1> QED
  BY <1>1, <1>2, <1>3, <1>4, <1>5 DEF QueueInv

(* Every step of the queue keeps the invariant. *)
LEMMA QueueStepKeeps ==
  ASSUME QueueInv, QueueNext \/ UNCHANGED queueVars
  PROVE  QueueInv'
<1>1. ASSUME NEW p \in Producers, Produce(p) PROVE QueueInv'
  BY <1>1, ExchangeKeeps, LinkKeeps DEF Produce
<1>2. ASSUME NEW p \in Producers, NEW m \in Messages, Enqueue(p, m) PROVE QueueInv'
  BY <1>2, EnqueueKeeps
<1>3. CASE Consume
  BY <1>3, DequeueKeeps, SecondLinkKeeps, TestHeadKeeps, ExchangeDummyKeeps, LinkDummyKeeps,
     LastLinkKeeps, ReturnsTrueKeeps, ReturnsFalseKeeps DEF Consume
<1> QED
  BY <1>1, <1>2, <1>3, DestroyKeeps, StutterKeeps DEF QueueNext

(* The new queue is a list of one node, the dummy. *)
LEMMA NewQueue ==
  ASSUME QueueInit
  PROVE  QueueInv
<1>1. /\ kind \in {"intrusive", "nonintrusive"} /\ head = Dummy /\ tail = Dummy
      /\ link = [n \in Nodes |-> Nothing]
      /\ data = [n \in Nodes |-> IF n \in Messages THEN n ELSE Nothing]
      /\ held = {Dummy}
      /\ pc = [p \in Producers |-> "idle"]
      /\ node = [p \in Producers |-> Nothing] /\ previous = [p \in Producers |-> Nothing]
      /\ at = "idle" /\ last = Nothing /\ following = Nothing /\ newHead = Nothing
      /\ closing = FALSE /\ order = <<>> /\ excuse = "no" /\ output = Nothing
      /\ Dummy \in Nodes /\ \A m \in Messages : m \in Nodes
  BY DEF QueueInit, Nodes
<1>2. PICK c \in Seq(Nodes) : Len(c) = 1 /\ c[1] = Dummy
  <2>1. <<Dummy>> \in Seq(Nodes) /\ Len(<<Dummy>>) = 1 /\ <<Dummy>>[1] = Dummy
    BY <1>1
  <2> QED
    BY <2>1
<1>3. QueueTypes
  <2>1. data \in [Nodes -> Messages \cup {Nothing}] /\ link \in [Nodes -> Nodes \cup {Nothing}]
    BY <1>1
  <2>2. order \in Seq(Messages)
    BY <1>1, EmptySeq
  <2>3. /\ pc \in [Producers -> {"idle", "exchange", "link"}]
        /\ node \in [Producers -> Nodes \cup {Nothing}] /\ previous \in [Producers -> Nodes \cup {Nothing}]
    BY <1>1
  <2> QED
    BY <1>1, <2>1, <2>2, <2>3 DEF QueueTypes
<1>4. Owned
  BY <1>1 DEF Owned, Nodes
<1>5. Calls
  BY <1>1 DEF Calls
<1>6. \A x : In(x, c) <=> x = Dummy
  <2>1. \A i \in 1 .. 1 : i = 1
    OBVIOUS
  <2> QED
    BY <1>2, <2>1 DEF In
<1>7. Line(c)
  <2>1. \A i \in 1 .. 1 : i = 1
    OBVIOUS
  <2> QED
    BY <1>1, <1>2, <2>1 DEF Line
<1>8. Linked(c) /\ Linkers(c)
  <2>1. 1 .. 1 - 1 = {}
    OBVIOUS
  <2> QED
    BY <1>1, <1>2, <2>1 DEF Linked, Linkers
<1>9. Holding(c)
  <2>1. \A x : ~Comes(x)
    BY <1>1 DEF Comes
  <2> QED
    BY <1>1, <1>6, <2>1 DEF Holding
<1>10. PICK d \in Nat : d = 1
  OBVIOUS
<1>11. Payload(c, d)
  <2>1. Len(order) = 0
    BY <1>1
  <2> QED
    BY <1>1, <1>2, <1>6, <1>10, <2>1 DEF Payload
<1>12. Following(c) /\ Alone(c)
  BY <1>1 DEF Following, Alone
<1>13. Chain(c, d)
  BY <1>7, <1>8, <1>9, <1>11, <1>12 DEF Chain
<1> QED
  BY <1>3, <1>4, <1>5, <1>13 DEF QueueInv

(* No thread uses the link of a node that is not the queue's. *)
LEMMA HeldByQueue ==
  ASSUME QueueInv
  PROVE  MemoryIsAccounted
<1>1. QueueTypes /\ Owned /\ Calls
  BY DEF QueueInv
<1>2. CASE at = "destroyed"
  BY <1>1, <1>2 DEF Calls, Idle, MemoryIsAccounted
<1>3. CASE at # "destroyed"
  <2>1. PICK c \in Seq(Nodes), d \in Nat : Chain(c, d)
    BY <1>3 DEF QueueInv
  <2>2. Linkers(c) /\ Holding(c) /\ Following(c) /\ Len(c) \in Nat /\ (\A i \in 1 .. Len(c) : c[i] \in Nodes)
    BY <1>1, <2>1, LineFacts DEF Chain
  <2>3. \A x : In(x, c) => x \in held
    BY <2>2 DEF Holding, In
  <2>4. ASSUME NEW x, NEW y, Gap(c, x, y) PROVE x \in held /\ y \in held
    <3>1. PICK i \in 1 .. Len(c) - 1 : c[i] = x /\ c[i + 1] = y
      BY <2>4 DEF Gap
    <3>2. i \in 1 .. Len(c) /\ i + 1 \in 1 .. Len(c)
      BY <2>2
    <3> QED
      BY <2>3, <3>1, <3>2 DEF In
  <2>5. ASSUME NEW p \in Producers, pc[p] = "link" PROVE previous[p] \in held /\ node[p] \in held
    BY <2>2, <2>4, <2>5 DEF Linkers
  <2>6. ASSUME NEW p \in Producers, pc[p] # "idle" PROVE node[p] \in held
    <3>1. CASE pc[p] = "exchange"
      BY <1>1, <2>2, <3>1 DEF Owned, Holding, Comes
    <3> QED
      BY <1>1, <2>5, <2>6, <3>1 DEF QueueTypes
  <2>7. at # "idle" => tail \in held /\ last \in held
    BY <1>1, <2>1, <2>2, <2>3, LineFacts DEF Chain, Following
  <2>8. at = "link" => newHead \in held
    BY <2>2, <2>4 DEF Linkers
  <2>9. at = "true" => following \in held
    <3>1. at = "true" => Len(c) > 1 /\ following = c[2]
      BY <1>1, <2>1, FrontIsFirst
    <3>2. Len(c) > 1 => 2 \in 1 .. Len(c)
      BY <2>2
    <3> QED
      BY <2>3, <3>1, <3>2 DEF In
  <2> QED
    BY <1>3, <2>5, <2>6, <2>7, <2>8, <2>9 DEF MemoryIsAccounted
<1> QED
  BY <1>2, <1>3

-----------------------------------------------------------------------------
(* MPSCQueue is a queue of messages *)

(* What MPSCQueue substitutes for the abstract variables. *)
enqueuing == {p \in Producers : pc[p] # "idle"}
placed    == {p \in Producers : pc[p] = "link"}

(* Every step is one of the abstract queue's, or nothing to its callers.     *)
LEMMA QueueStepRefines ==
  ASSUME QueueInv, QueueNext \/ UNCHANGED queueVars
  PROVE  [Q!Next]_(Q!vars)
<1>1. QueueTypes /\ Owned /\ Calls
  BY DEF QueueInv
<1>2. ASSUME pc' = pc, UNCHANGED <<order, excuse, output>> PROVE UNCHANGED Q!vars
  BY <1>2 DEF Q!vars
<1>3. ASSUME NEW p \in Producers, NEW m \in Messages, Enqueue(p, m) PROVE Q!Enqueue(p)
  <2>1. /\ pc[p] = "idle" /\ pc' = [pc EXCEPT ![p] = "exchange"]
        /\ excuse' = (IF excuse = "must" THEN "may" ELSE excuse) /\ UNCHANGED <<order, output>>
    BY <1>3 DEF Enqueue
  <2>2. /\ p \notin enqueuing /\ enqueuing' = enqueuing \cup {p} /\ placed' = placed
    BY <1>1, <2>1 DEF QueueTypes, enqueuing, placed
  <2> QED
    BY <2>1, <2>2 DEF Q!Enqueue, Q!Excused, enqueuing, placed
<1>4. ASSUME NEW p \in Producers, Exchange(p) PROVE \E m \in Messages : Q!Place(p, m)
  <2>1. /\ pc[p] = "exchange" /\ pc' = [pc EXCEPT ![p] = "link"]
        /\ order' = Append(order, data[node[p]]) /\ UNCHANGED <<excuse, output>>
    BY <1>4 DEF Exchange
  <2>2. p \in enqueuing \ placed /\ enqueuing' = enqueuing /\ placed' = placed \cup {p}
    BY <1>1, <2>1 DEF QueueTypes, enqueuing, placed
  <2>3. data[node[p]] \in Messages
    BY <1>1, <2>1 DEF Owned
  <2> QED
    BY <2>1, <2>2, <2>3 DEF Q!Place, enqueuing, placed
<1>5. ASSUME NEW p \in Producers, Link(p) PROVE Q!EnqueueReturns(p)
  <2>1. pc[p] = "link" /\ pc' = [pc EXCEPT ![p] = "idle"] /\ UNCHANGED <<order, excuse, output>>
    BY <1>5 DEF Link, history
  <2>2. p \in placed /\ enqueuing' = enqueuing \ {p} /\ placed' = placed \ {p}
    BY <1>1, <2>1 DEF QueueTypes, enqueuing, placed
  <2> QED
    BY <2>1, <2>2 DEF Q!EnqueueReturns, enqueuing, placed
<1>6. CASE Dequeue
  <2>1. /\ at = "idle" /\ excuse' = (IF order = <<>> \/ ~Idle THEN "may" ELSE "must")
        /\ pc' = pc /\ UNCHANGED <<order, output>>
    BY <1>6 DEF Dequeue, ConsumerGoes, producers
  <2>2. excuse = "no" /\ (enqueuing # {} <=> ~Idle) /\ enqueuing' = enqueuing /\ placed' = placed
    BY <1>1, <2>1 DEF Calls, Idle, enqueuing, placed
  <2>3. Q!Dequeue
    BY <2>1, <2>2 DEF Q!Dequeue, enqueuing, placed
  <2> QED
    BY <2>3 DEF Q!Next
<1>7. CASE SecondLink \/ TestHead \/ ExchangeDummy \/ LinkDummy \/ LastLink
  <2>1. pc' = pc /\ UNCHANGED <<order, excuse, output>>
    BY <1>7 DEF SecondLink, TestHead, ExchangeDummy, LinkDummy, LastLink, ConsumerGoes, Continues, producers
  <2> QED
    BY <1>2, <2>1
<1>8. CASE ReturnsTrue
  <2>1. /\ at = "true" /\ excuse' = "no" /\ pc' = pc
        /\ output' = (IF kind = "intrusive" THEN last ELSE data[following])
        /\ order' = SubSeq(order, 2, Len(order))
    BY <1>8 DEF ReturnsTrue, Returns, producers
  <2>2. PICK c \in Seq(Nodes), d \in Nat : Chain(c, d)
    BY <2>1 DEF QueueInv
  <2>3. Len(order) >= 1 /\ output' = order[1]
    BY <1>1, <2>1, <2>2, FrontIsFirst
  <2>4. order \in Seq(Messages) /\ order # <<>>
    <3>1. Len(<<>>) = 0
      OBVIOUS
    <3> QED
      BY <1>1, <2>3, <3>1 DEF QueueTypes
  <2>5. order' = Tail(order)
    BY <2>1, <2>4, TailIsSubSeq
  <2>6. Head(order) = order[1]
    BY <2>4
  <2>7. excuse # "no" /\ enqueuing' = enqueuing /\ placed' = placed
    BY <1>1, <2>1 DEF Calls, enqueuing, placed
  <2>8. Q!Take
    BY <2>1, <2>3, <2>4, <2>5, <2>6, <2>7 DEF Q!Take, enqueuing, placed
  <2> QED
    BY <2>8 DEF Q!Next
<1>9. CASE ReturnsFalse
  <2>1. at = "false" /\ excuse' = "no" /\ output' = Nothing /\ pc' = pc /\ order' = order
    BY <1>9 DEF ReturnsFalse, Returns, producers
  <2>2. PICK c \in Seq(Nodes), d \in Nat : Chain(c, d)
    BY <2>1 DEF QueueInv
  <2>3. excuse = "may"
    BY <1>1, <2>1, <2>2 DEF Calls, Chain, Alone, QueueTypes
  <2>4. enqueuing' = enqueuing /\ placed' = placed
    BY <2>1 DEF enqueuing, placed
  <2>5. Q!Fail
    BY <2>1, <2>3, <2>4 DEF Q!Fail, enqueuing, placed
  <2> QED
    BY <2>5 DEF Q!Next
<1>10. CASE Destroy
  BY <1>2, <1>10 DEF Destroy, producers, history
<1>11. CASE UNCHANGED queueVars
  BY <1>2, <1>11 DEF queueVars, producers, history
<1> QED
  BY <1>3, <1>4, <1>5, <1>6, <1>7, <1>8, <1>9, <1>10, <1>11 DEF QueueNext, Produce, Consume, Q!Next

(* The new queue is the abstract queue without a message and without a      *)
(* call.                                                                    *)
LEMMA QueueInitRefines ==
  ASSUME QueueInit
  PROVE  Q!Init
<1>1. order = <<>> /\ excuse = "no" /\ output = Nothing /\ \A p \in Producers : pc[p] = "idle"
  BY DEF QueueInit
<1> QED
  BY <1>1 DEF Q!Init

-----------------------------------------------------------------------------
(* IPLocation: what is in the store *)

(* The lines that make a record; and what of the file has been read.         *)
Numerics(s) == {x \in ToSet(s) : Numeric(x)}
StoreInv ==
  /\ StoreTypes
  /\ Len(store) + Len(unread) <= Len(file)
  /\ Numerics(file) = ToSet(store) \cup Numerics(unread)
  /\ status = "loaded" => unread = <<>> /\ Sorted(store) /\ ~Overlaps(store)

(* A file is a sequence of no more than MaxLines lines. *)
LEMMA FilesAreSequences ==
  /\ MaxLines \in Nat
  /\ \A s : s \in Files <=> s \in Seq(Lines) /\ Len(s) <= MaxLines
<1>1. ASSUME NEW n \in 0 .. MaxLines, NEW s \in [1 .. n -> Lines]
      PROVE  s \in Seq(Lines) /\ Len(s) <= MaxLines
  OBVIOUS
<1>2. ASSUME NEW s \in Seq(Lines), Len(s) <= MaxLines PROVE s \in Files
  <2>1. Len(s) \in 0 .. MaxLines /\ s \in [1 .. Len(s) -> Lines]
    BY <1>2, LenProperties
  <2> QED
    BY <2>1 DEF Files
<1> QED
  BY <1>1, <1>2 DEF Files

(* The file may be empty. *)
LEMMA EmptyFile == <<>> \in Files
<1>1. ASSUME NEW s \in Seq(Lines), Len(s) = 0 PROVE s \in Files
  <2>1. Len(s) <= MaxLines
    BY <1>1
  <2> QED
    BY <2>1, FilesAreSequences
<1>2. <<>> \in Seq(Lines) /\ Len(<<>>) = 0
  OBVIOUS
<1> QED
  BY <1>1, <1>2

(* What Append adds to the elements of a sequence. *)
LEMMA AppendElements ==
  ASSUME NEW S, NEW s \in Seq(S), NEW e \in S
  PROVE  Append(s, e) \in Seq(S) /\ Len(Append(s, e)) = Len(s) + 1 /\ ToSet(Append(s, e)) = ToSet(s) \cup {e}
<1> DEFINE t == Append(s, e)
<1>1. /\ Len(s) \in Nat /\ DOMAIN s = 1 .. Len(s)
      /\ t \in Seq(S) /\ Len(t) = Len(s) + 1 /\ DOMAIN t = 1 .. Len(s) + 1
      /\ t[Len(s) + 1] = e /\ \A i \in 1 .. Len(s) : t[i] = s[i]
  BY AppendProperties, LenProperties
<1> HIDE DEF t
<1>2. \A i : i \in 1 .. Len(s) + 1 <=> i \in 1 .. Len(s) \/ i = Len(s) + 1
  BY <1>1
<1>3. ToSet(t) = ToSet(s) \cup {e}
  BY <1>1, <1>2 DEF ToSet
<1> QED
  BY <1>1, <1>3 DEF t

(* Sorting neither loses nor repeats a record. *)
LEMMA SortingElements ==
  ASSUME NEW s \in Seq(Lines), NEW t \in Sortings(s)
  PROVE  t \in Seq(Lines) /\ Len(t) = Len(s) /\ ToSet(t) = ToSet(s) /\ Sorted(t)
<1> DEFINE D == DOMAIN s
<1>1. Len(s) \in Nat /\ D = 1 .. Len(s) /\ \A i \in D : s[i] \in Lines
  BY LenProperties, ElementOfSeq
<1>2. PICK f \in [D -> D] : IsInjective(f) /\ t = [i \in D |-> s[f[i]]]
  BY DEF Sortings
<1>3. t \in Seq(Lines) /\ Len(t) = Len(s) /\ DOMAIN t = D
  BY <1>1, <1>2
<1>4. f \in Surjection(D, D)
  <2>1. f \in Injection(D, D)
    BY <1>2 DEF Injection
  <2>2. 1 \in Int /\ Len(s) \in Int
    BY <1>1
  <2>3. IsFiniteSet(D)
    BY ONLY <1>1, <2>2, FS_Interval
  <2> HIDE DEF D
  <2> QED
    BY <2>1, <2>3, FS_Injection
<1>5. \A k \in D : \E i \in D : f[i] = k
  BY <1>4 DEF Surjection
<1>6. ToSet(t) = ToSet(s)
  <2>1. ToSet(t) = {t[i] : i \in D} /\ ToSet(s) = {s[i] : i \in D}
    BY <1>3 DEF ToSet
  <2>2. \A i \in D : t[i] = s[f[i]] /\ f[i] \in D
    BY <1>2
  <2> HIDE DEF D
  <2> QED
    BY <1>5, <2>1, <2>2
<1>7. Sorted(t)
  BY DEF Sortings
<1> QED
  BY <1>3, <1>6, <1>7

(* Nothing has been read, and nothing is stored. *)
LEMMA NewStore ==
  ASSUME StoreInit
  PROVE  StoreInv
<1>1. file = <<>> /\ unread = <<>> /\ store = <<>> /\ status = "empty" /\ Len(<<>>) = 0
  BY DEF StoreInit
<1>2. <<>> \in Seq(Lines) /\ ToSet(<<>>) = {}
  BY Elements, EmptySeq
<1>3. <<>> \in Files
  BY EmptyFile
<1>4. StoreTypes
  BY <1>1, <1>3 DEF StoreTypes
<1> QED
  BY <1>1, <1>2, <1>4 DEF StoreInv, Numerics

(* Load, each line that is read and the sorting keep what the store holds. *)
LEMMA StoreStepKeeps ==
  ASSUME StoreInv, StoreNext \/ UNCHANGED storeVars
  PROVE  StoreInv'
<1>1. /\ file \in Seq(Lines) /\ Len(file) <= MaxLines /\ file \in Files
      /\ unread \in Seq(Lines) /\ store \in Seq(Lines)
      /\ Len(store) + Len(unread) <= Len(file) /\ MaxLines \in Nat
      /\ Len(store) \in Nat /\ Len(unread) \in Nat /\ Len(file) \in Nat
  BY FilesAreSequences, LenProperties DEF StoreInv, StoreTypes
<1>2. ASSUME NEW lines \in Files, Load(lines) PROVE StoreInv'
  <2>1. file' = lines /\ unread' = lines /\ store' = <<>> /\ status' = "reading"
    BY <1>2 DEF Load
  <2>2. <<>> \in Seq(Lines) /\ ToSet(<<>>) = {} /\ Len(<<>>) = 0 /\ Len(lines) \in Nat
    BY FilesAreSequences, Elements, EmptySeq
  <2>3. StoreTypes'
    <3>1. <<>> \in Files
      BY EmptyFile
    <3> QED
      BY <2>1, <3>1 DEF StoreTypes
  <2> QED
    BY <2>1, <2>2, <2>3 DEF StoreInv, Numerics
<1>3. CASE ReadLine
  <2>1. /\ status = "reading" /\ unread # <<>> /\ unread' = Tail(unread) /\ file' = file /\ status' = status
        /\ store' = IF Numeric(Head(unread)) THEN Append(store, Head(unread)) ELSE store
    BY <1>3 DEF ReadLine
  <2>2. /\ Head(unread) \in Lines /\ Tail(unread) \in Seq(Lines) /\ Len(Tail(unread)) = Len(unread) - 1
        /\ ToSet(unread) = {Head(unread)} \cup ToSet(Tail(unread))
    BY <1>1, <2>1, HeadTailElements, HeadTailProperties
  <2>3. /\ store' \in Seq(Lines) /\ Len(store') + Len(unread') <= Len(file)
        /\ ToSet(store') = ToSet(store) \cup (IF Numeric(Head(unread)) THEN {Head(unread)} ELSE {})
    <3>1. CASE Numeric(Head(unread))
      BY <1>1, <2>1, <2>2, <3>1, AppendElements
    <3>2. CASE ~Numeric(Head(unread))
      BY <1>1, <2>1, <2>2, <3>2
    <3> QED
      BY <3>1, <3>2
  <2>4. Len(store') \in Nat /\ Len(unread') \in Nat
    BY <2>1, <2>2, <2>3, LenProperties
  <2>5. StoreTypes'
    <3>1. Len(store') <= MaxLines /\ Len(unread') <= MaxLines
      BY <1>1, <2>3, <2>4
    <3> QED
      BY <1>1, <2>1, <2>2, <2>3, <3>1, FilesAreSequences DEF StoreTypes
  <2>6. Numerics(unread) = Numerics(unread') \cup (IF Numeric(Head(unread)) THEN {Head(unread)} ELSE {})
    BY <2>1, <2>2 DEF Numerics
  <2>7. Numerics(file') = ToSet(store') \cup Numerics(unread')
    <3>1. Numerics(file) = ToSet(store) \cup Numerics(unread)
      BY DEF StoreInv
    <3> QED
      BY <2>1, <2>3, <2>6, <3>1
  <2>8. Numerics(file)' = ToSet(store)' \cup Numerics(unread)'
    BY <2>7 DEF Numerics
  <2> QED
    BY <2>1, <2>3, <2>5, <2>8 DEF StoreInv
<1>4. CASE Sort
  <2>1. /\ status = "reading" /\ unread = <<>> /\ file' = file /\ unread' = unread
        /\ store' \in Sortings(store) /\ status' = IF Overlaps(store') THEN "aborted" ELSE "loaded"
    BY <1>4 DEF Sort
  <2>2. store' \in Seq(Lines) /\ Len(store') = Len(store) /\ ToSet(store') = ToSet(store) /\ Sorted(store')
    BY <1>1, <2>1, SortingElements
  <2>3. StoreTypes'
    <3>1. Len(store) <= MaxLines
      BY <1>1
    <3> QED
      BY <2>1, <2>2, <3>1, FilesAreSequences DEF StoreTypes, StoreInv
  <2>4. Numerics(file)' = ToSet(store)' \cup Numerics(unread)'
    BY <2>1, <2>2 DEF StoreInv, Numerics
  <2>5. status' = "loaded" => unread' = <<>> /\ Sorted(store') /\ ~Overlaps(store')
    BY <2>1, <2>2
  <2>6. Len(store') + Len(unread') <= Len(file')
    BY <1>1, <2>1, <2>2
  <2> QED
    BY <2>3, <2>4, <2>5, <2>6 DEF StoreInv, Sorted, Overlaps
<1>5. CASE UNCHANGED storeVars
  <2>1. file' = file /\ unread' = unread /\ store' = store /\ status' = status
    BY <1>5 DEF storeVars
  <2> QED
    BY <2>1 DEF StoreInv, StoreTypes, Numerics, Sorted, Overlaps
<1> QED
  BY <1>2, <1>3, <1>4, <1>5 DEF StoreNext

-----------------------------------------------------------------------------
(* IPLocation: the search *)

(* One step of the binary search, by the results for the shorter lengths.    *)
Halving(f, ip, len, first) ==
  LET half == len \div 2 IN
  IF len = 0 THEN first
  ELSE IF ip < store[first + half].IpTo THEN f[half][first]
  ELSE f[len - half - 1][first + half + 1]
IsSearch(f, ip, n) ==
  f = [len \in 0 .. n |-> [first \in 1 .. Len(store) + 1 |-> Halving(f, ip, len, first)]]

(* Both halves of a length that is searched are shorter than it. *)
LEMMA Halves ==
  \A len \in Nat \ {0} : /\ len \div 2 \in 0 .. len - 1
                         /\ len - (len \div 2) - 1 \in 0 .. len - 1
OBVIOUS

(* The recursion of UpperBound has a solution: each length has its results  *)
(* by those of shorter ones.                                                *)
LEMMA SearchExists ==
  ASSUME NEW ip, NEW n \in Nat
  PROVE  \E f : IsSearch(f, ip, n)
<1> DEFINE S == {m \in Nat : \E f : IsSearch(f, ip, m)}
           F == 1 .. Len(store) + 1
<1>1. 0 \in S
  <2> DEFINE f == [len \in 0 .. 0 |-> [first \in F |-> first]]
  <2>1. \A len \in 0 .. 0, first \in F : Halving(f, ip, len, first) = first
    BY DEF Halving
  <2> HIDE DEF f
  <2>2. IsSearch(f, ip, 0)
    BY <2>1 DEF IsSearch, f
  <2> QED
    BY <2>2
<1>2. ASSUME NEW m \in Nat, m \in S PROVE m + 1 \in S
  <2>1. PICK f : IsSearch(f, ip, m)
    BY <1>2
  <2> DEFINE g == [len \in 0 .. m + 1 |-> IF len <= m THEN f[len] ELSE [first \in F |-> Halving(f, ip, len, first)]]
  <2>2. \A len \in 0 .. m : g[len] = f[len]
    OBVIOUS
  <2>3. DOMAIN g = 0 .. m + 1 /\ g[m + 1] = [first \in F |-> Halving(f, ip, m + 1, first)]
        /\ g = [len \in 0 .. m + 1 |-> g[len]]
    OBVIOUS
  <2> HIDE DEF g, F
  <2>4. ASSUME NEW len \in 0 .. m + 1, NEW first PROVE Halving(g, ip, len, first) = Halving(f, ip, len, first)
    <3>1. CASE len = 0
      BY <3>1 DEF Halving
    <3>2. CASE len # 0
      <4>1. len \div 2 \in 0 .. m /\ len - (len \div 2) - 1 \in 0 .. m
        BY <3>2, Halves
      <4> QED
        BY <2>2, <4>1 DEF Halving
    <3> QED
      BY <3>1, <3>2
  <2>5. \A len \in 0 .. m : f[len] = [first \in F |-> Halving(f, ip, len, first)]
    BY <2>1 DEF IsSearch, F
  <2>6. \A len \in 0 .. m + 1 : len \in 0 .. m \/ len = m + 1
    OBVIOUS
  <2>7. ASSUME NEW len \in 0 .. m + 1 PROVE g[len] = [first \in F |-> Halving(g, ip, len, first)]
    <3>1. [first \in F |-> Halving(g, ip, len, first)] = [first \in F |-> Halving(f, ip, len, first)]
      BY <2>4
    <3>2. CASE len \in 0 .. m
      BY <2>2, <2>5, <3>1, <3>2
    <3>3. CASE len = m + 1
      BY <2>3, <3>1, <3>3
    <3> QED
      BY <2>6, <3>2, <3>3
  <2>8. IsSearch(g, ip, m + 1)
    BY <2>3, <2>7 DEF IsSearch, F
  <2> QED
    BY <2>8
<1> HIDE DEF S
<1>3. Nat \subseteq S
  BY <1>1, <1>2, NatInduct
<1> QED
  BY <1>3 DEF S

(* In a store whose ranges end in order, the search finds the first one that *)
(* ends above the address.                                                   *)
LEMMA SearchFinds ==
  ASSUME NEW ip \in Addresses, NEW n \in Nat, Len(store) = n,
         \A i \in 1 .. n : store[i].IpTo \in Nat,
         \A i, j \in 1 .. n : i <= j => store[i].IpTo <= store[j].IpTo
  PROVE  /\ UpperBound(ip) \in 1 .. n + 1
         /\ \A k \in 1 .. n : k < UpperBound(ip) => ~(ip < store[k].IpTo)
         /\ UpperBound(ip) <= n => ip < store[UpperBound(ip)].IpTo
<1>0. ip \in Nat
  BY DEF Addresses
<1>1. PICK f : IsSearch(f, ip, n) /\ UpperBound(ip) = f[n][1]
  <2> DEFINE h == CHOOSE f : IsSearch(f, ip, n)
  <2>1. IsSearch(h, ip, n)
    BY SearchExists
  <2>2. UpperBound(ip) = h[n][1]
    BY DEF UpperBound, IsSearch, Halving
  <2> QED
    BY <2>1, <2>2
<1> DEFINE Found(len, first) ==
             /\ f[len][first] \in first .. first + len
             /\ \A k \in first .. first + len : k < f[len][first] => ~(ip < store[k].IpTo)
             /\ f[len][first] < first + len => ip < store[f[len][first]].IpTo
           Up(m) == \A len \in 0 .. m : len <= n =>
                      \A first \in 1 .. n + 1 : first + len <= n + 1 => Found(len, first)
           S == {m \in Nat : Up(m)}
<1>2. ASSUME NEW len \in 0 .. n, NEW first \in 1 .. n + 1 PROVE f[len][first] = Halving(f, ip, len, first)
  <2>1. f[len] = [i \in 1 .. n + 1 |-> Halving(f, ip, len, i)]
    BY <1>1 DEF IsSearch
  <2> QED
    BY <2>1
<1>3. 0 \in S
  <2>1. \A first \in 1 .. n + 1 : f[0][first] = first
    BY <1>2 DEF Halving
  <2> QED
    BY <2>1
<1>4. ASSUME NEW m \in Nat, m \in S PROVE m + 1 \in S
  <2>1. ASSUME NEW first \in 1 .. n + 1, m + 1 <= n, first + (m + 1) <= n + 1 PROVE Found(m + 1, first)
    <3>1. PICK half \in Nat, rest \in Nat : half = (m + 1) \div 2 /\ rest = (m + 1) - half - 1 /\ half <= m /\ rest <= m
      BY Halves
    <3>2. /\ first + half \in 1 .. n /\ first + half + 1 \in 1 .. n + 1 /\ half \in 0 .. m /\ rest \in 0 .. m
          /\ (first + half + 1) + rest = first + (m + 1) /\ first + half <= n + 1
          /\ half <= n /\ rest <= n /\ (first + half + 1) + rest <= n + 1
      BY <2>1, <3>1
    <3>3. f[m + 1][first] = IF ip < store[first + half].IpTo THEN f[half][first] ELSE f[rest][first + half + 1]
      <4>1. m + 1 \in 0 .. n /\ m + 1 # 0
        BY <2>1
      <4>2. f[m + 1][first] = Halving(f, ip, m + 1, first)
        BY <1>2, <4>1
      <4> QED
        BY <3>1, <4>1, <4>2 DEF Halving
    <3>4. Up(m)
      BY <1>4
    <3>5. CASE ip < store[first + half].IpTo
      <4>1. Found(half, first)
        BY <3>2, <3>4
      <4> DEFINE r == f[half][first]
      <4>2. f[m + 1][first] = r /\ r \in first .. first + half /\ r <= first + half
        BY <3>3, <3>5, <4>1
      <4>3. ASSUME NEW k \in first .. first + (m + 1), k < r PROVE k \in first .. first + half
        <5> HIDE DEF r
        <5> QED
          BY <3>1, <4>2, <4>3
      <4>4. r \in first .. first + (m + 1) /\ (r < first + half \/ r = first + half)
        <5> HIDE DEF r
        <5> QED
          BY <3>1, <4>2
      <4> HIDE DEF r
      <4>5. \A k \in first .. first + half : k < r => ~(ip < store[k].IpTo)
        BY <4>1 DEF r
      <4>6. r < first + half => ip < store[r].IpTo
        BY <4>1 DEF r
      <4> QED
        BY <3>5, <4>2, <4>3, <4>4, <4>5, <4>6
    <3>6. CASE ~(ip < store[first + half].IpTo)
      <4>1. Found(rest, first + half + 1)
        BY <3>2, <3>4
      <4> DEFINE r == f[rest][first + half + 1]
      <4>2. f[m + 1][first] = r /\ r \in first + half + 1 .. first + (m + 1)
        BY <3>2, <3>3, <3>6, <4>1
      <4>3. r \in first .. first + (m + 1)
        BY <3>2, <4>2
      <4>4. \A k \in first + half + 1 .. first + (m + 1) : k < r => ~(ip < store[k].IpTo)
        <5>1. \A k \in first + half + 1 .. (first + half + 1) + rest : k < r => ~(ip < store[k].IpTo)
          BY <4>1
        <5> HIDE DEF r
        <5> QED
          BY <3>2, <5>1
      <4>5. r < first + (m + 1) => ip < store[r].IpTo
        BY <3>2, <4>1
      <4> HIDE DEF r
      <4>6. ASSUME NEW k \in first .. first + (m + 1), k < r PROVE ~(ip < store[k].IpTo)
        <5>1. CASE k <= first + half
          <6>1. k \in 1 .. n /\ first + half \in 1 .. n
            BY <3>2, <5>1
          <6>2. store[k].IpTo <= store[first + half].IpTo /\ store[k].IpTo \in Nat /\ store[first + half].IpTo \in Nat
            BY <5>1, <6>1
          <6> QED
            BY <1>0, <3>6, <6>2, SMTT(40)
        <5>2. CASE ~(k <= first + half)
          BY <3>2, <4>4, <4>6, <5>2
        <5> QED
          BY <5>1, <5>2
      <4> QED
        BY <4>2, <4>3, <4>5, <4>6
    <3> QED
      BY <3>5, <3>6
  <2>2. \A len \in 0 .. m + 1 : len \in 0 .. m \/ len = m + 1
    OBVIOUS
  <2> HIDE DEF Found
  <2> QED
    BY <1>4, <2>1, <2>2
<1>5. n \in S
  <2> HIDE DEF S
  <2>1. Nat \subseteq S
    BY <1>3, <1>4, NatInduct
  <2> QED
    BY <2>1
<1>6. Found(n, 1)
  BY <1>5
<1> QED
  BY <1>1, <1>6

(* The records of a store that was accepted lie one behind the other. *)
LEMMA RecordsAreApart ==
  ASSUME StoreInv, status = "loaded", \A i \in DOMAIN file : InOrder(file[i])
  PROVE  /\ Len(store) \in Nat
         /\ \A i \in 1 .. Len(store) : /\ store[i].IpFrom \in Nat /\ store[i].IpTo \in Nat
                                       /\ store[i].IpFrom <= store[i].IpTo
         /\ \A i, j \in 1 .. Len(store) : i < j => store[i].IpTo <= store[j].IpFrom
<1> DEFINE n == Len(store)
<1>1. /\ store \in Seq(Lines) /\ n \in Nat /\ DOMAIN store = 1 .. n
      /\ Numerics(file) = ToSet(store) /\ Sorted(store) /\ ~Overlaps(store)
  <2>1. store \in Seq(Lines) /\ unread = <<>>
    BY FilesAreSequences DEF StoreInv, StoreTypes
  <2>2. Numerics(unread) = {}
    BY <2>1, Elements, EmptySeq DEF Numerics
  <2> QED
    BY <2>1, <2>2, LenProperties DEF StoreInv
<1>2. ASSUME NEW i \in 1 .. n
      PROVE  store[i].IpFrom \in Nat /\ store[i].IpTo \in Nat /\ store[i].IpFrom <= store[i].IpTo
  <2>1. store[i] \in Numerics(file) /\ store[i] \in Lines
    BY <1>1, Elements
  <2>2. PICK k \in DOMAIN file : file[k] = store[i]
    BY <2>1 DEF Numerics, ToSet
  <2>3. Numeric(store[i]) /\ InOrder(store[i])
    BY <2>1, <2>2 DEF Numerics
  <2>4. store[i].IpFrom \in Fields /\ store[i].IpTo \in Fields
    BY <2>1 DEF Lines
  <2> QED
    BY <2>3, <2>4 DEF Numeric, InOrder, Fields, Addresses
<1>3. \A i \in 1 .. n - 1 : /\ i \in 1 .. n /\ i + 1 \in 1 .. n
                            /\ store[i].IpFrom <= store[i + 1].IpFrom
                            /\ store[i].IpTo <= store[i + 1].IpFrom
  <2>1. \A i \in 1 .. n - 1 : i \in 1 .. n /\ i + 1 \in 1 .. n
    BY <1>1
  <2>2. \A i \in 1 .. n - 1 : store[i].IpFrom <= store[i + 1].IpFrom /\ ~(store[i + 1].IpFrom < store[i].IpTo)
    BY <1>1 DEF Sorted, Overlaps
  <2> QED
    BY <1>2, <2>1, <2>2
<1> DEFINE S == {m \in Nat : m \in 1 .. n => \A i \in 1 .. n : i < m => store[i].IpTo <= store[m].IpFrom}
<1>4. 0 \in S
  OBVIOUS
<1>5. ASSUME NEW m \in Nat, m \in S PROVE m + 1 \in S
  <2> SUFFICES ASSUME m + 1 \in 1 .. n, NEW i \in 1 .. n, i < m + 1
               PROVE  store[i].IpTo <= store[m + 1].IpFrom
    OBVIOUS
  <2>1. m \in 1 .. n - 1 /\ m \in 1 .. n
    BY <1>1
  <2>2. store[m].IpFrom <= store[m + 1].IpFrom /\ store[m].IpTo <= store[m + 1].IpFrom
    BY <1>3, <2>1
  <2>3. CASE i = m
    BY <2>2, <2>3
  <2>4. CASE i < m
    <3>1. store[i].IpTo <= store[m].IpFrom
      BY <1>5, <2>1, <2>4
    <3> QED
      BY <1>2, <2>1, <2>2, <3>1
  <2> QED
    BY <2>1, <2>3, <2>4
<1>6. Nat \subseteq S
  <2> HIDE DEF S
  <2> QED
    BY <1>4, <1>5, NatInduct
<1>7. \A i, j \in 1 .. n : i < j => store[i].IpTo <= store[j].IpFrom
  BY <1>1, <1>6
<1> QED
  BY <1>1, <1>2, <1>7

(* An address has at most one record that covers it, and the search finds   *)
(* that one.                                                                *)
LEMMA SearchIsExact ==
  ASSUME StoreInv
  PROVE  LocationIsExact
<1> SUFFICES ASSUME status = "loaded", \A i \in DOMAIN file : InOrder(file[i]), NEW ip \in Addresses
             PROVE  LET found   == GetLocationRecord(ip)
                        covering == {i \in DOMAIN file : Numeric(file[i]) /\ Covers(file[i], ip)}
                    IN IF covering = {} THEN found = None
                       ELSE found # None /\ \A i \in covering : file[i] = store[found]
  BY DEF LocationIsExact
<1> DEFINE n == Len(store)
           k == UpperBound(ip)
           covering == {i \in DOMAIN file : Numeric(file[i]) /\ Covers(file[i], ip)}
<1>1. /\ n \in Nat /\ ip \in Nat
      /\ \A i \in 1 .. n : store[i].IpFrom \in Nat /\ store[i].IpTo \in Nat /\ store[i].IpFrom <= store[i].IpTo
      /\ \A i, j \in 1 .. n : i < j => store[i].IpTo <= store[j].IpFrom
  BY RecordsAreApart DEF Addresses
<1>2. /\ k \in 1 .. n + 1
      /\ \A i \in 1 .. n : i < k => ~(ip < store[i].IpTo)
      /\ k <= n => ip < store[k].IpTo
  <2>1. ASSUME NEW i \in 1 .. n, NEW j \in 1 .. n, i <= j PROVE store[i].IpTo <= store[j].IpTo
    <3>1. CASE i = j
      BY <1>1, <3>1
    <3>2. CASE i < j
      <4>1. store[i].IpTo <= store[j].IpFrom /\ store[j].IpFrom <= store[j].IpTo
        BY <1>1, <3>2
      <4> QED
        BY <1>1, <4>1
    <3> QED
      BY <2>1, <3>1, <3>2
  <2> QED
    BY <1>1, <2>1, SearchFinds
<1> HIDE DEF k
<1>3. \A x : x \in Numerics(file) <=> \E i \in 1 .. n : store[i] = x
  <2>1. store \in Seq(Lines) /\ unread = <<>>
    BY FilesAreSequences DEF StoreInv, StoreTypes
  <2>2. Numerics(unread) = {} /\ ToSet(store) = {store[i] : i \in 1 .. n}
    BY <2>1, Elements, EmptySeq, LenProperties DEF Numerics, ToSet
  <2> QED
    BY <2>2 DEF StoreInv
<1>4. \A i \in 1 .. n : store[i].IpFrom <= ip /\ ip < store[i].IpTo => i = k
  <2> SUFFICES ASSUME NEW i \in 1 .. n, store[i].IpFrom <= ip, ip < store[i].IpTo PROVE i = k
    OBVIOUS
  <2>1. k \in 1 .. n /\ k <= i /\ ip < store[k].IpTo
    BY <1>1, <1>2
  <2>2. ~(k < i)
    <3>1. k < i => store[k].IpTo <= store[i].IpFrom
      BY <1>1, <2>1
    <3> QED
      BY <1>1, <2>1, <3>1
  <2> QED
    BY <1>1, <2>1, <2>2
<1>5. \A i \in DOMAIN file : Numeric(file[i]) => \E j \in 1 .. n : store[j] = file[i]
  BY <1>3 DEF Numerics, ToSet
<1>6. ASSUME NEW i \in covering
      PROVE  k <= n /\ ~(ip < store[k].IpFrom) /\ file[i] = store[k]
  <2>1. PICK j \in 1 .. n : store[j] = file[i]
    BY <1>5
  <2>2. j = k
    BY <1>4, <2>1 DEF Covers
  <2>3. store[k].IpFrom <= ip /\ store[k].IpFrom \in Nat
    BY <1>1, <2>1, <2>2 DEF Covers
  <2> QED
    BY <1>1, <2>1, <2>2, <2>3
<1>7. ASSUME k <= n, ~(ip < store[k].IpFrom) PROVE covering # {}
  <2>1. k \in 1 .. n
    BY <1>1, <1>2, <1>7
  <2>2. PICK i \in DOMAIN file : file[i] = store[k] /\ Numeric(file[i])
    <3>1. store[k] \in Numerics(file)
      BY <1>3, <2>1
    <3> QED
      BY <3>1 DEF Numerics, ToSet
  <2>3. store[k].IpFrom <= ip /\ ip < store[k].IpTo
    BY <1>1, <1>2, <1>7, <2>1
  <2> QED
    BY <2>2, <2>3 DEF Covers
<1>8. GetLocationRecord(ip) = IF k > n \/ ip < store[k].IpFrom THEN None ELSE k
  BY DEF GetLocationRecord, k
<1>9. k # None
  BY <1>2 DEF None
<1> HIDE DEF covering
<1>10. CASE covering = {}
  <2>1. GetLocationRecord(ip) = None
    BY <1>1, <1>2, <1>7, <1>8, <1>10
  <2> QED
    BY <1>10, <2>1 DEF covering
<1>11. CASE covering # {}
  <2>1. GetLocationRecord(ip) = k
    BY <1>1, <1>2, <1>6, <1>8, <1>11
  <2> QED
    BY <1>6, <1>9, <1>11, <2>1 DEF covering
<1> QED
  BY <1>10, <1>11

-----------------------------------------------------------------------------
(* What holds of every behaviour of the two *)

(* The inductive invariant. *)
IInv == subject \in {"MPSCQueue", "IPLocation"} /\ QueueInv /\ StoreInv

(* The queue and the store keep their invariants, each while the other      *)
(* stands still.                                                            *)
LEMMA InductiveInvariant == FairSpec => []IInv
<1>1. Init => IInv
  BY NewQueue, NewStore DEF Init, IInv
<1>2. IInv /\ [Next]_vars => IInv'
  BY QueueStepKeeps, StoreStepKeeps DEF Next, vars, IInv
<1> QED
  BY <1>1, <1>2, PTL DEF FairSpec

(* The variables keep their types: no link leads out of the queue's nodes,   *)
(* no list or store grows beyond what it is made of.                         *)
THEOREM TypeCorrect == FairSpec => []TypeOK
<1>1. IInv => TypeOK
  BY DEF IInv, QueueInv, StoreInv, TypeOK
<1> QED
  BY <1>1, InductiveInvariant, PTL

(* No thread follows or writes the link of a node that was freed or given     *)
(* back, and the destructor leaves nothing behind: for any number of          *)
(* producers, messages and nodes, and for both forms of the queue.            *)
THEOREM QueueMemoryIsAccounted == FairSpec => []MemoryIsAccounted
<1>1. IInv => MemoryIsAccounted
  BY HeldByQueue DEF IInv
<1> QED
  BY <1>1, InductiveInvariant, PTL

(* The lock-free lists do nothing that the queue of messages does not: a      *)
(* Dequeue that returns a message returns the first, and one that returns     *)
(* none has met an Enqueue or an empty queue.                                 *)
THEOREM QueueRefinement == FairSpec => Q!Init /\ [][Q!Next]_(Q!vars)
<1>1. Init => Q!Init
  BY QueueInitRefines DEF Init
<1>2. IInv /\ [Next]_vars => [Q!Next]_(Q!vars)
  BY QueueStepRefines DEF Next, vars, IInv
<1> QED
  BY <1>1, <1>2, InductiveInvariant, PTL DEF FairSpec

(* When the file has been accepted and its ranges are in order, the binary    *)
(* search finds the record of every address that a line covers, and none for  *)
(* any other address: for any size of file and of address.                    *)
THEOREM LocationsAreExact == FairSpec => []LocationIsExact
<1>1. IInv => LocationIsExact
  BY SearchIsExact DEF IInv
<1> QED
  BY <1>1, InductiveInvariant, PTL
=============================================================================
