---------------------------- MODULE UpdateFetcher ----------------------------
(***************************************************************************)
(* UpdateFetcher::Update: which of the .sql files in the update            *)
(* directories are applied to a database, and how the table `updates`      *)
(* keeps account of them.  A file is applied by the external mysql program *)
(* in a transaction of its own; the table is written with DirectExecute,   *)
(* whose result nobody sees.  The process can end between any two steps.   *)
(*                                                                         *)
(* A file's name orders it, so names are numbers.  Its SHA1 hash stands    *)
(* for its content and is the content.                                     *)
(***************************************************************************)
EXTENDS Integers, FiniteSets

CONSTANTS
  Names, Contents,
  NoHash,                      (* the empty hash of a hand-made entry        *)
  RedundancyChecks,            (* Updates.Redundancy                         *)
  AllowRehash,                 (* Updates.AllowRehash                        *)
  ArchivedRedundancy,          (* Updates.ArchivedRedundancy                 *)
  CleanDeadReferencesMaxCount, (* Updates.CleanDeadRefMaxCount               *)
  MaxEdits,                    (* bound: changes to the directories          *)
  MaxFaults                    (* bound: statements that fail, crashes       *)

States == {"RELEASED", "ARCHIVED"}
Files  == [name : Names, content : Contents, state : States]

ASSUME FetcherAssumption ==
  /\ Names \subseteq Nat \ {0} /\ IsFiniteSet(Names) /\ NoHash \notin Contents
  /\ {RedundancyChecks, AllowRehash, ArchivedRedundancy} \subseteq BOOLEAN
  /\ CleanDeadReferencesMaxCount \in Int
  /\ MaxEdits \in Nat /\ MaxFaults \in Nat

VARIABLES
  disk,       (* the files in the directories of `updates_include`           *)
  rows,       (* the table `updates`                                         *)
  imported,   (* contents the database has been given                        *)
  vouched,    (* contents taken as applied because their entry was rehashed  *)
  pc,         (* where Update is                                             *)
  available,  (* the locals of Update ...                                    *)
  applied,
  hashToName,
  todo,       (* ... files the loop has still to visit                       *)
  trust,      (* "settled": Update has completed without fault, and no file   *)
              (* has changed since                                           *)
  edits, faults

durable     == <<disk, rows, imported, vouched>>
locals      == <<available, applied, hashToName, todo>>
fetcherVars == <<durable, pc, locals, trust, edits, faults>>

EmptyTable == [n \in {} |-> {}]
Without(table, N) == [n \in DOMAIN table \ N |-> table[n]]
With(table, name, entry) ==
  [n \in DOMAIN table \cup {name} |-> IF n = name THEN entry ELSE table[n]]
NamesOf(F) == {f.name : f \in F}

Forget == available' = {} /\ applied' = EmptyTable /\ hashToName' = EmptyTable /\ todo' = {}

-----------------------------------------------------------------------------
(* Between two starts a file is added, removed, moved or changed. *)
Edit(F, G) ==
  /\ pc = "out" /\ edits < MaxEdits
  /\ Cardinality(F) <= 1 /\ Cardinality(G) <= 1 /\ F # G
  /\ disk' = (disk \ F) \cup G
  /\ edits' = edits + 1
  /\ trust' = "no"
  /\ UNCHANGED <<rows, imported, vouched, pc, locals, faults>>

Fault == faults < MaxFaults /\ faults' = faults + 1 /\ trust' = "no"
NoFault == UNCHANGED <<faults, trust>>

(* DBUpdater::Apply is DirectExecute: whether the statement worked is not    *)
(* known.                                                                    *)
ApplyStatement(table) ==
  \/ rows' = table /\ NoFault
  \/ rows' = rows /\ Fault

-----------------------------------------------------------------------------
(* What Update begins with.  Retrieve returns no result for an empty table    *)
(* and for a query that failed.                                              *)

Begins(files, table) ==
  /\ pc = "out"
  /\ pc' = "files"
  /\ available' = files /\ todo' = files
  /\ applied' = table
  /\ hashToName' \in [{table[n].hash : n \in DOMAIN table} -> DOMAIN table]
  /\ \A h \in DOMAIN hashToName' : table[hashToName'[h]].hash = h
  /\ UNCHANGED <<durable, edits>>

Distinct(F) == \A f, g \in F : f.name = g.name => f = g

Begin ==
  /\ Distinct(disk)
  /\ Begins(disk, rows)
  /\ trust' = (IF trust = "settled" THEN trust ELSE "sound")
  /\ UNCHANGED faults
IncludesUnread == Begins({}, rows) /\ Fault
AppliedUnread  == Distinct(disk) /\ Begins(disk, EmptyTable) /\ Fault

(* FillFileListRecursively throws when a filename occurs twice. *)
Throws == pc' = "thrown" /\ UNCHANGED <<durable, locals, edits>>
DuplicateName == pc = "out" /\ ~Distinct(disk) /\ Throws /\ NoFault

-----------------------------------------------------------------------------
(* One turn of the loop, for the file whose name comes next *)

File    == CHOOSE f \in todo : \A g \in todo : f.name <= g.name
Looping == pc = "files" /\ todo # {}
Known   == File.name \in DOMAIN applied
Entry   == applied[File.name]

(* Mutant: whether the file is archived is not asked. *)
SkippedIfEntryArchived ==
  Known /\ (~RedundancyChecks \/ (~ArchivedRedundancy /\ Entry.state = "ARCHIVED"))

Skipped ==
  Known /\ (~RedundancyChecks
            \/ (~ArchivedRedundancy /\ Entry.state = "ARCHIVED" /\ File.state = "ARCHIVED"))
Renamed == /\ ~Known /\ File.content \in DOMAIN hashToName
           /\ hashToName[File.content] \notin NamesOf(available)
Rehashed == Known /\ AllowRehash /\ Entry.hash = NoHash
Matches  == Known /\ ~Rehashed /\ Entry.hash = File.content
Applies  == ~Skipped /\ ~Renamed /\ ~Rehashed /\ ~Matches

Visited(N) ==
  /\ applied' = Without(applied, N)
  /\ todo' = todo \ {File}
  /\ UNCHANGED <<available, hashToName>>

Skip ==
  /\ Looping /\ Skipped
  /\ Visited({File.name})
  /\ UNCHANGED <<durable, pc, edits, faults, trust>>

(* ReadSQLUpdate throws. *)
Unreadable == Looping /\ ~Skipped /\ Throws /\ Fault

(* The content is known: only the state may have to be brought up to date.   *)
Unchanged ==
  /\ Looping /\ ~Skipped /\ Matches
  /\ IF Entry.state = File.state
     THEN UNCHANGED <<rows, faults, trust>>
     ELSE ApplyStatement([n \in DOMAIN rows |->
                            IF n = File.name THEN [rows[n] EXCEPT !.state = File.state]
                                             ELSE rows[n]])
  /\ Visited({File.name})
  /\ UNCHANGED <<disk, imported, vouched, pc, edits>>

(* RenameEntry deletes the target, ...                                        *)
DeleteTarget ==
  /\ Looping /\ ~Skipped /\ Renamed
  /\ ApplyStatement(Without(rows, {File.name}))
  /\ pc' = "rename"
  /\ UNCHANGED <<disk, imported, vouched, locals, edits>>

(* Mutant: the entry is deleted but not given its new name. *)
RenameLosing(from, to) == Without(rows, {from})

(* ... then gives the old entry its name.  A name already taken is an error.  *)
Rename(from, to) ==
  IF from \notin DOMAIN rows \/ to \in DOMAIN rows THEN rows
  ELSE With(Without(rows, {from}), to, rows[from])

RenameEntry ==
  LET from == hashToName[File.content] IN
  /\ pc = "rename" /\ pc' = "files"
  /\ ApplyStatement(Rename(from, File.name))
  /\ Visited({from})
  /\ UNCHANGED <<disk, imported, vouched, edits>>

Rehash ==
  /\ Looping /\ ~Skipped /\ Rehashed
  /\ vouched' = vouched \cup {File.content}
  /\ pc' = "record"
  /\ UNCHANGED <<disk, rows, imported, locals, edits, faults, trust>>

ApplyFile ==
  /\ Looping /\ Applies
  /\ imported' = imported \cup {File.content}
  /\ pc' = "record"
  /\ UNCHANGED <<disk, rows, vouched, locals, edits, faults, trust>>

(* The mysql program exits with an error. *)
ApplyFails == Looping /\ Applies /\ Throws /\ Fault

UpdateEntry ==
  /\ pc = "record" /\ pc' = "files"
  /\ ApplyStatement(With(rows, File.name, [hash |-> File.content, state |-> File.state]))
  /\ Visited({File.name})
  /\ UNCHANGED <<disk, imported, vouched, edits>>

(* Entries whose file is gone are deleted, unless there are too many. *)
DoCleanup == CleanDeadReferencesMaxCount < 0
             \/ Cardinality(DOMAIN applied) <= CleanDeadReferencesMaxCount
CleanUp ==
  /\ pc = "files" /\ todo = {}
  /\ pc' = "returned"
  /\ \/ /\ DoCleanup /\ DOMAIN applied # {}
        /\ rows' = Without(rows, DOMAIN applied) /\ UNCHANGED faults
        /\ trust' = (IF trust = "sound" THEN "settled" ELSE trust)
     \/ DoCleanup /\ DOMAIN applied # {} /\ UNCHANGED rows /\ Fault
     \/ /\ ~DoCleanup \/ DOMAIN applied = {}
        /\ UNCHANGED <<rows, faults>>
        /\ trust' = (IF trust = "sound" THEN "settled" ELSE trust)
  /\ UNCHANGED <<disk, imported, vouched, locals, edits>>

UpdateStep ==
  \/ Begin \/ IncludesUnread \/ AppliedUnread \/ DuplicateName
  \/ Skip \/ Unreadable \/ Unchanged \/ DeleteTarget \/ RenameEntry
  \/ Rehash \/ ApplyFile \/ ApplyFails \/ UpdateEntry \/ CleanUp

(* Update is left: it has returned or thrown, or the process has ended.       *)
Leave == pc' = "out" /\ Forget

-----------------------------------------------------------------------------
(* Properties *)

Tables == UNION {[N -> [hash : Contents \cup {NoHash}, state : States]] : N \in SUBSET Names}
FetcherTypes ==
  /\ disk \subseteq Files
  /\ rows \in Tables /\ applied \in Tables
  /\ imported \subseteq Contents /\ vouched \subseteq Contents
  /\ pc \in {"out", "files", "rename", "record", "returned", "thrown"}
  /\ available \subseteq Files /\ todo \subseteq available
  /\ hashToName \in UNION {[H -> Names] : H \in SUBSET (Contents \cup {NoHash})}
  /\ trust \in {"no", "sound", "settled"}
  /\ edits \in 0 .. MaxEdits /\ faults \in 0 .. MaxFaults

(* An entry with a hash stands for an update that has reached the database:   *)
(* a crash or an error between the two can only leave an update without entry.*)
RecordedWasApplied ==
  \A n \in DOMAIN rows : rows[n].hash \in imported \cup vouched \cup {NoHash}

ArchivedInBoth(f) == ~ArchivedRedundancy /\ f.state = "ARCHIVED"
                     /\ f.name \in DOMAIN rows /\ rows[f.name].state = "ARCHIVED"

(* A start whose Update met no error leaves nothing to apply, whatever        *)
(* crashes and errors earlier starts met: every file's content has reached    *)
(* the database, except of one archived before and after.                    *)
SchemaIsComplete ==
  RedundancyChecks /\ trust = "settled" =>
    \A f \in disk : f.content \in imported \cup vouched \/ ArchivedInBoth(f)

(* The table then has an entry with the content of every file, and the        *)
(* entries of missing files are gone or too many, as long as no two files are *)
(* copies of each other.                                                     *)
NoCopies(F) == \A f, g \in F : f.content = g.content => f = g
TableIsAccurate ==
  RedundancyChecks /\ trust = "settled" /\ NoCopies(disk) =>
    /\ \A f \in disk : /\ f.name \in DOMAIN rows
                       /\ rows[f.name].hash = f.content \/ ArchivedInBoth(f)
    /\ LET orphans == DOMAIN rows \ NamesOf(disk) IN
         orphans # {} => /\ CleanDeadReferencesMaxCount >= 0
                         /\ Cardinality(orphans) > CleanDeadReferencesMaxCount

(* and the next start applies, renames and rehashes nothing.                  *)
NothingIsRepeated ==
  trust = "settled" /\ NoCopies(disk) => pc \notin {"rename", "record"}

(* Together: the table `updates` tells what the database has been given.      *)
TableIsExact == RecordedWasApplied /\ TableIsAccurate /\ NothingIsRepeated
=============================================================================
