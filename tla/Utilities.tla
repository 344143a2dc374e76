------------------------------ MODULE Utilities ------------------------------
(***************************************************************************)
(* Two parts of the Common library that the others do not interact with,   *)
(* nor with each other: a behaviour is of one of them.                     *)
(***************************************************************************)
EXTENDS MPSCQueue, IPLocation

VARIABLE subject
vars == <<subject, queueVars, storeVars>>

Init ==
  /\ subject \in {"MPSCQueue", "IPLocation"}
  /\ QueueInit /\ (subject = "IPLocation" => kind = "intrusive")
  /\ StoreInit

Next ==
  /\ UNCHANGED subject
  /\ \/ subject = "MPSCQueue" /\ QueueNext /\ UNCHANGED storeVars
     \/ subject = "IPLocation" /\ StoreNext /\ UNCHANGED queueVars

(* The queue's producers and its consumer run on. *)
FairSpec ==
  /\ Init /\ [][Next]_vars
  /\ WF_vars(subject = "MPSCQueue" /\ Consume /\ UNCHANGED <<subject, storeVars>>)
  /\ \A p \in Producers :
       WF_vars(subject = "MPSCQueue" /\ Produce(p) /\ UNCHANGED <<subject, storeVars>>)

-----------------------------------------------------------------------------
(* Every variable keeps its type. *)
TypeOK == subject \in {"MPSCQueue", "IPLocation"} /\ QueueTypes /\ StoreTypes
=============================================================================
