--------------------------- MODULE DatabaseLoader ---------------------------
(***************************************************************************)
(* DatabaseLoader::Load: four queues of closures, one per phase, over the  *)
(* pools the program has added, with what DBUpdater does in them.  A phase *)
(* runs its closures in order; the first that fails has every pool closed  *)
(* that was opened, last opened first.                                     *)
(***************************************************************************)
EXTENDS UpdateFetcher, SequencesExt

CONSTANTS
  Pools,     (* the pools added, in order                                    *)
  Updatable, (* the pool whose database Updates.EnableDatabases selects      *)
  AutoSetup, (* Updates.AutoSetup                                            *)
  Base       (* the updates that are part of the base file                   *)

ASSUME LoaderAssumption ==
  /\ Pools \in Seq(ToSet(Pools)) /\ IsInjective(Pools) /\ Pools # <<>>
  /\ Updatable \in ToSet(Pools)
  /\ AutoSetup \in BOOLEAN /\ Base \subseteq Files /\ Distinct(Base)

VARIABLES
  phase,    (* the queue being processed, or how Load has ended              *)
  closures, (* the pools whose closure in this queue is still to run         *)
  pool,     (* "half": an Open that failed left connections behind           *)
  closers,  (* _close, the last pushed first                                 *)
  database  (* what MySQL has of the database of Updatable                   *)

loaderVars  == <<phase, closures, pool, closers>>
startupVars == <<loaderVars, database, fetcherVars>>

Unstarted == /\ phase = "idle" /\ closures = <<>> /\ closers = <<>>
             /\ pool = [p \in ToSet(Pools) |-> "closed"]

(* What the base file enters in `updates`, and the contents it stands for.    *)
BaseRows == [n \in NamesOf(Base) |->
               LET f == CHOOSE g \in Base : g.name = n IN [hash |-> f.content, state |-> f.state]]
BaseContents == {f.content : f \in Base}

(* A database exists with its tables, or is for Load to create.  It may have  *)
(* entries from before there were hashes, or one of a file that is gone.      *)
OlderTables ==
  {BaseRows, [n \in NamesOf(Base) |-> [BaseRows[n] EXCEPT !.hash = NoHash]]}
  \cup {With(BaseRows, n, BaseRows[m]) : n \in Names, m \in NamesOf(Base)}
LoaderInit ==
  /\ Unstarted
  /\ database \in {"absent", "full"}
  /\ disk = Base
  /\ IF database = "full"
     THEN /\ rows \in OlderTables
          /\ imported = BaseContents
     ELSE rows = EmptyTable /\ imported = {}
  /\ vouched = {}
  /\ pc = "out" /\ available = {} /\ applied = EmptyTable /\ hashToName = EmptyTable
  /\ todo = {} /\ trust = "no" /\ edits = 0 /\ faults = 0

-----------------------------------------------------------------------------
(* Process *)

Closures(ph) == IF ph \in {"open", "prepare"} THEN Pools
                ELSE IF ph \in {"populate", "update"} THEN <<Updatable>> ELSE <<>>
Follows == [open |-> "populate", populate |-> "update", update |-> "prepare",
            prepare |-> "loaded"]

Load ==
  /\ phase = "idle"
  /\ phase' = "open" /\ closures' = Pools
  /\ UNCHANGED <<pool, closers, database, fetcherVars>>

(* Process returns true and Load calls it with the next queue. *)
NextQueue ==
  /\ phase \in DOMAIN Follows /\ closures = <<>>
  /\ phase' = Follows[phase] /\ closures' = Closures(phase')
  /\ UNCHANGED <<pool, closers, database, fetcherVars>>

At(ph, p) == phase = ph /\ closures # <<>> /\ p = Head(closures)
Succeeds  == closures' = Tail(closures) /\ UNCHANGED phase
Fails     == phase' = "failing" /\ UNCHANGED closures

(* Mutant: only the pool opened last is closed. *)
CloseLast ==
  /\ phase = "failing"
  /\ phase' = "failed"
  /\ IF closers = <<>> THEN UNCHANGED pool ELSE pool' = [pool EXCEPT ![Head(closers)] = "closed"]
  /\ UNCHANGED <<closures, closers, database, fetcherVars>>

CloseNext ==
  /\ phase = "failing"
  /\ IF closers = <<>>
     THEN phase' = "failed" /\ UNCHANGED <<pool, closers>>
     ELSE /\ pool' = [pool EXCEPT ![Head(closers)] = "closed"]
          /\ closers' = Tail(closers)
          /\ UNCHANGED phase
  /\ UNCHANGED <<closures, database, fetcherVars>>

-----------------------------------------------------------------------------
(* The closures *)

Opens(p) ==
  /\ pool' = [pool EXCEPT ![p] = "open"]
  /\ closers' = <<p>> \o closers
  /\ Succeeds

OpenPool(p) ==
  /\ At("open", p) /\ (p = Updatable => database # "absent")
  /\ Opens(p)
  /\ UNCHANGED <<database, fetcherVars>>

(* Not configured, no connection, or an answer to Create other than yes.      *)
OpenFails(p) ==
  /\ At("open", p)
  /\ \E left \in {"closed", "half"} : pool' = [pool EXCEPT ![p] = left]
  /\ Fails
  /\ UNCHANGED <<closers, database, fetcherVars>>

(* ER_BAD_DB_ERROR: DBUpdater::Create, then a second Open, which may fail.    *)
CreateDatabase(p) ==
  /\ At("open", p) /\ p = Updatable /\ database = "absent" /\ AutoSetup
  /\ database' = "empty"
  /\ \/ Opens(p)
     \/ pool' = [pool EXCEPT ![p] = "half"] /\ Fails /\ UNCHANGED closers
  /\ UNCHANGED fetcherVars

(* DBUpdater::Populate asks whether there are tables. *)
Populated(p) ==
  /\ At("populate", p) /\ database \in {"partial", "full"}
  /\ Succeeds
  /\ UNCHANGED <<pool, closers, database, fetcherVars>>

(* The base file drops and creates each table, `updates` included. *)
Rebased ==
  /\ rows' = BaseRows
  /\ imported' = BaseContents /\ vouched' = {}
  /\ UNCHANGED <<disk, pc, locals, edits>>

(* Mutant: the base file is applied without asking. *)
PopulateAgain(p) ==
  /\ At("populate", p)
  /\ database' = "full"
  /\ Rebased /\ NoFault
  /\ Succeeds
  /\ UNCHANGED <<pool, closers>>

Populate(p) ==
  /\ At("populate", p) /\ database = "empty"
  /\ database' = "full"
  /\ Rebased /\ NoFault
  /\ Succeeds
  /\ UNCHANGED <<pool, closers>>

(* "SHOW TABLES" fails: no result reads as no tables. *)
TablesUnread(p) ==
  /\ At("populate", p) /\ database \in {"partial", "full"}
  /\ database' = "full"
  /\ Rebased /\ Fault
  /\ Succeeds
  /\ UNCHANGED <<pool, closers>>

(* No mysql program, no base file, or mysql exits with an error; the tables   *)
(* it has created by then stay, for MySQL commits each of them.               *)
PopulateFails(p) ==
  /\ At("populate", p) /\ database = "empty"
  /\ database' \in {"empty", "partial"}
  /\ Fails
  /\ UNCHANGED <<pool, closers, fetcherVars>>

Update(p) ==
  /\ At("update", p) /\ database = "full"
  /\ UpdateStep
  /\ UNCHANGED <<loaderVars, database>>

(* The tables `updates` and `updates_include` are not there to be read.       *)
UpdateNothing(p) ==
  /\ At("update", p) /\ database = "partial"
  /\ \/ Begins({}, EmptyTable) /\ UNCHANGED <<faults, trust>>
     \/ CleanUp
  /\ UNCHANGED <<loaderVars, database>>

UpdateReturns(p) ==
  /\ At("update", p) /\ pc = "returned"
  /\ Leave /\ Succeeds
  /\ UNCHANGED <<pool, closers, database, durable, trust, edits, faults>>

(* No mysql program, no source directory, or an UpdateException. *)
UpdateFails(p) ==
  /\ At("update", p) /\ pc \in {"out", "thrown"}
  /\ Leave /\ Fails
  /\ UNCHANGED <<pool, closers, database, durable, trust, edits, faults>>

Prepare(p) ==
  /\ At("prepare", p)
  /\ Succeeds \/ Fails
  /\ UNCHANGED <<pool, closers, database, fetcherVars>>

AppliesBase == \E p \in ToSet(Pools) : Populate(p) \/ TablesUnread(p)
Process ==
  \/ NextQueue \/ CloseNext
  \/ \E p \in ToSet(Pools) :
       \/ OpenPool(p) \/ OpenFails(p) \/ CreateDatabase(p)
       \/ Populated(p) \/ PopulateFails(p)
       \/ Update(p) \/ UpdateNothing(p) \/ UpdateReturns(p) \/ UpdateFails(p) \/ Prepare(p)

-----------------------------------------------------------------------------
(* Properties *)

LoaderTypes ==
  /\ phase \in {"idle", "open", "populate", "update", "prepare", "loaded", "failing", "failed"}
  /\ closures \in Seq(ToSet(Pools)) /\ closers \in Seq(ToSet(Pools))
  /\ pool \in [ToSet(Pools) -> {"closed", "half", "open"}]
  /\ database \in {"absent", "empty", "partial", "full"}

(* Whichever closure fails, every pool whose Open succeeded is closed, and    *)
(* Close is called on no other: a second Close would free what is freed.     *)
OpenedIsClosed ==
  /\ ToSet(closers) = {p \in ToSet(Pools) : pool[p] = "open"} /\ IsInjective(closers)
  /\ phase = "failed" => closers = <<>>

(* Load succeeds only with every pool open and the tables in place, and no    *)
(* update is ever applied to a database without them.  The exception is a     *)
(* base file that stopped half-way: what it left is taken for the tables.     *)
LoadedIsReady ==
  phase = "loaded" \/ pc # "out" =>
    /\ \A p \in ToSet(Pools) : pool[p] = "open"
    /\ database = "partial" \/ (database = "full" /\ BaseContents \subseteq imported)

(* Together: Load leaves all of its pools open and usable, or none.           *)
LoadIsAllOrNothing == OpenedIsClosed /\ LoadedIsReady

(* A database that has its tables keeps what was applied to it, unless a      *)
(* statement fails: the base file, which drops every table, is not applied    *)
(* again.                                                                    *)
DataIsKept == [][database = "full" /\ faults' = faults
                   => imported \subseteq imported']_startupVars
=============================================================================
