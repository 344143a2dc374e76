------------------------------- MODULE Startup -------------------------------
(***************************************************************************)
(* The server's starts and ends, as far as its database outlives them:     *)
(* StartDB loads the databases, SecretMgr::Initialize the master key; the  *)
(* process may crash or be stopped anywhere, and be started again after    *)
(* the operator has changed the update directories or the configuration.   *)
(***************************************************************************)
EXTENDS DatabaseLoader, SecretMgr

CONSTANT MaxErrors  (* bound: faults of the loader and of the secret manager       *)
VARIABLE process
vars == <<process, startupVars, secretVars>>

Init ==
  /\ process = "down" /\ LoaderInit /\ SecretInit
  /\ database = "absent" => digest = NoKey /\ secret = [a \in Accounts |-> NoSecret]

Bounded == faults' + losses' <= MaxErrors

AtMostOne(S) == {{}} \cup {{x} : x \in S}

Operator ==
  /\ process = "down"
  /\ \/ /\ \E F \in AtMostOne(disk), G \in AtMostOne(Files) : Edit(F, G)
        /\ UNCHANGED secretVars
     \/ /\ \E c, o \in Keys \cup {NoKey} : Configure(c, o)
        /\ edits < MaxEdits /\ edits' = edits + 1
        /\ UNCHANGED <<durable, pc, locals, trust, faults>>
  /\ UNCHANGED <<process, loaderVars, database>>

Start ==
  /\ process = "down"
  /\ process' = "starting"
  /\ Load
  /\ UNCHANGED secretVars

StartDB ==
  /\ process = "starting"
  /\ \/ Process /\ UNCHANGED secretVars
     \/ /\ AppliesBase         (* which drops the accounts and the digest too *)
        /\ secret' = [a \in Accounts |-> NoSecret] /\ digest' = NoKey
        /\ UNCHANGED <<config, loaded, announced, misread, losses>>
  /\ Bounded /\ UNCHANGED process

Initialize ==
  /\ process = "starting" /\ phase = "loaded"
  /\ AttemptLoad
  /\ process' = IF state' = "LOAD_FAILED" THEN process ELSE "up"
  /\ UNCHANGED startupVars /\ Bounded

Worker ==
  /\ process # "down"
  /\ Commit \/ RollBack
  /\ UNCHANGED <<process, startupVars>> /\ Bounded

(* Pools are closed or vanish, their queues with them. *)
Ends ==
  /\ process' = "down"
  /\ phase' = "idle" /\ closures' = <<>> /\ closers' = <<>>
  /\ pool' = [p \in ToSet(Pools) |-> "closed"]
  /\ Leave /\ trust' = (IF trust = "sound" THEN "no" ELSE trust)
  /\ state' = "NOT_LOADED_YET" /\ value' = NoKey /\ transition' = NoTransaction
  /\ UNCHANGED <<database, durable, edits, faults, stored, config, announced, misread, losses>>

(* StartDB returned false, or Initialize calls ABORT(). *)
GivesUp == process = "starting" /\ (phase = "failed" \/ state = "LOAD_FAILED") /\ Ends

(* A crash, or a signal. *)
Crash == process # "down" /\ Ends

Next == Operator \/ Start \/ StartDB \/ Initialize \/ Worker \/ GivesUp \/ Crash

Spec == Init /\ [][Next]_vars

-----------------------------------------------------------------------------
(* Properties *)

(* Every variable keeps its type. *)
TypeOK ==
  /\ process \in {"down", "starting", "up"}
  /\ FetcherTypes /\ LoaderTypes /\ SecretTypes
=============================================================================
