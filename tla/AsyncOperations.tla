-------------------------- MODULE AsyncOperations --------------------------
(***************************************************************************)
(* What a database pool promises the callers of Execute and AsyncQuery:    *)
(* operations start in the order they were enqueued, each at most once,    *)
(* an operation that started runs to its end, and only a pool that is      *)
(* being closed drops one.                                                 *)
(***************************************************************************)
EXTENDS Sequences, Naturals

CONSTANT Ops

VARIABLES pending,   (* enqueued, in order                                  *)
          started,   (* taken by a worker                                   *)
          done,      (* executed                                            *)
          dropped,   (* discarded without having been executed              *)
          open       (* callers may enqueue                                 *)

vars == <<pending, started, done, dropped, open>>

Known == {pending[i] : i \in DOMAIN pending} \cup started \cup done \cup dropped

Init == /\ pending = <<>>
        /\ started = {} /\ done = {} /\ dropped = {}
        /\ open = FALSE

Enqueue(o) == /\ open /\ o \notin Known
              /\ pending' = Append(pending, o)
              /\ UNCHANGED <<started, done, dropped, open>>

Start == /\ pending # <<>>
         /\ started' = started \cup {Head(pending)}
         /\ pending' = Tail(pending)
         /\ UNCHANGED <<done, dropped, open>>

Finish(o) == /\ o \in started
             /\ started' = started \ {o}
             /\ done' = done \cup {o}
             /\ UNCHANGED <<pending, dropped, open>>

(* Closing gives up everything that is pending ... *)
DropPending == /\ ~open
               /\ dropped' = dropped \cup {pending[i] : i \in DOMAIN pending}
               /\ pending' = <<>>
               /\ UNCHANGED <<started, done, open>>

(* ... and what a worker has taken but not yet begun to execute. *)
DropStarted(o) == /\ ~open /\ o \in started
                  /\ started' = started \ {o}
                  /\ dropped' = dropped \cup {o}
                  /\ UNCHANGED <<pending, done, open>>

Open  == ~open /\ open' = TRUE /\ UNCHANGED <<pending, started, done, dropped>>
Close == open /\ open' = FALSE /\ UNCHANGED <<pending, started, done, dropped>>

Next == \/ \E o \in Ops : Enqueue(o) \/ Finish(o) \/ DropStarted(o)
        \/ Start \/ DropPending \/ Open \/ Close

Spec == Init /\ [][Next]_vars
=============================================================================
