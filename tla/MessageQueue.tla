---------------------------- MODULE MessageQueue ----------------------------
(***************************************************************************)
(* What a caller of MPSCQueue can rely on.  A message takes its place      *)
(* while Enqueue is called; Dequeue takes the first one.  Dequeue may say  *)
(* that there is none only if there was none when it was called, or if     *)
(* some Enqueue had not returned while it was called.                      *)
(***************************************************************************)
EXTENDS Sequences, FiniteSets

CONSTANTS Producers, Messages, Nothing

VARIABLES
  queue,     (* the messages in it                                           *)
  enqueuing, (* the producers that are in Enqueue, and those of them whose   *)
  placed,    (* message has its place                                        *)
  dequeuing, (* "may" if Dequeue may fail                                     *)
  output     (* what Dequeue has returned last                               *)

vars == <<queue, enqueuing, placed, dequeuing, output>>

Init == /\ queue = <<>> /\ enqueuing = {} /\ placed = {}
        /\ dequeuing = "no" /\ output = Nothing

Excused == IF dequeuing = "must" THEN "may" ELSE dequeuing

Enqueue(p) ==
  /\ p \notin enqueuing
  /\ enqueuing' = enqueuing \cup {p}
  /\ dequeuing' = Excused
  /\ UNCHANGED <<queue, placed, output>>

Place(p, m) ==
  /\ p \in enqueuing \ placed
  /\ queue' = Append(queue, m)
  /\ placed' = placed \cup {p}
  /\ UNCHANGED <<enqueuing, dequeuing, output>>

EnqueueReturns(p) ==
  /\ p \in placed
  /\ enqueuing' = enqueuing \ {p} /\ placed' = placed \ {p}
  /\ UNCHANGED <<queue, dequeuing, output>>

Dequeue ==
  /\ dequeuing = "no"
  /\ dequeuing' = IF queue = <<>> \/ enqueuing # {} THEN "may" ELSE "must"
  /\ UNCHANGED <<queue, enqueuing, placed, output>>

Take ==
  /\ dequeuing # "no" /\ queue # <<>>
  /\ dequeuing' = "no"
  /\ output' = Head(queue) /\ queue' = Tail(queue)
  /\ UNCHANGED <<enqueuing, placed>>

Fail ==
  /\ dequeuing = "may"
  /\ dequeuing' = "no" /\ output' = Nothing
  /\ UNCHANGED <<queue, enqueuing, placed>>

Next ==
  \/ \E p \in Producers : Enqueue(p) \/ EnqueueReturns(p)
  \/ \E p \in Producers, m \in Messages : Place(p, m)
  \/ Dequeue \/ Take \/ Fail

(* A consumer that goes on asking gets what is there. *)
Spec == Init /\ [][Next]_vars /\ SF_vars(Take)
=============================================================================
