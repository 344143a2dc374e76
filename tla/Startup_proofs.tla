---------------------------- MODULE Startup_proofs ----------------------------
(***************************************************************************)
(* Proofs about Startup, and through it about DatabaseLoader, SecretMgr    *)
(* and UpdateFetcher: for every set of pools, keys, accounts and update    *)
(* files, every setting of the options, and any number of faults, edits,   *)
(* crashes and starts.                                                     *)
(*                                                                         *)
(* The invariant has one part per module, and Where, which says what the   *)
(* modules assume of each other: who may be at work in which phase.        *)
(***************************************************************************)
EXTENDS Startup, TLAPS, SequenceLemmas

-----------------------------------------------------------------------------
(* The update: what a run of the loop knows at each turn.                    *)
Ready  == imported \cup vouched
InLoop == pc \in {"files", "rename", "record"}
Clean  == trust # "no"
Visits == IF trust = "settled" THEN disk ELSE disk \ todo

AtRest == pc = "out" => available = {} /\ applied = EmptyTable /\ hashToName = EmptyTable /\ todo = {}

(* The locals only speak of what the database has been given. *)
AnswerIsKnown ==
  /\ RecordedWasApplied
  /\ \A n \in DOMAIN applied : applied[n].hash \in Ready \cup {NoHash}
  /\ DOMAIN hashToName \subseteq Ready \cup {NoHash}
  /\ \A c, d \in DOMAIN hashToName : hashToName[c] = hashToName[d] => c = d
  /\ pc \in {"rename", "record"} => todo # {}
  /\ pc = "rename" => Renamed
  /\ pc = "record" => File.content \in Ready

(* In a run without fault, `applied` is what is left of the table to visit. *)
CleanLoop ==
  /\ Clean => database = "full" /\ Distinct(disk)
  /\ trust = "sound" => InLoop
  /\ Clean /\ InLoop =>
       /\ available = disk
       /\ DOMAIN applied \cap NamesOf(disk \ todo) = {}
       /\ \A n \in DOMAIN applied : n \in DOMAIN rows /\ rows[n] = applied[n]
       /\ DOMAIN rows \ NamesOf(disk) = DOMAIN applied \ NamesOf(disk)
       /\ DOMAIN rows \cap NamesOf(todo) \subseteq DOMAIN applied
       /\ pc = "rename" => File.name \notin DOMAIN rows

(* The files visited so far have reached the database ... *)
SchemaSoFar ==
  Clean /\ RedundancyChecks => \A f \in Visits : f.content \in Ready \/ ArchivedInBoth(f)

(* ... and the table, and the names that can still be given away are in it. *)
OrphansKept ==
  LET orphans == DOMAIN rows \ NamesOf(disk) IN
    orphans # {} => /\ CleanDeadReferencesMaxCount >= 0
                    /\ Cardinality(orphans) > CleanDeadReferencesMaxCount
TableSoFar ==
  Clean /\ NoCopies(disk) =>
    /\ \A f \in Visits : f.name \in DOMAIN rows
    /\ RedundancyChecks => \A f \in Visits : rows[f.name].hash = f.content \/ ArchivedInBoth(f)
    /\ InLoop =>
         \A c \in DOMAIN hashToName :
           hashToName[c] \notin NamesOf(disk) /\ (\A f \in disk \ todo : f.content # c) =>
             hashToName[c] \in DOMAIN rows /\ rows[hashToName[c]].hash = c
    /\ trust = "settled" => pc \notin {"rename", "record"}
    /\ trust = "settled" /\ RedundancyChecks => OrphansKept

FetcherInv == FetcherTypes /\ AtRest /\ AnswerIsKnown /\ CleanLoop /\ SchemaSoFar /\ TableSoFar

-----------------------------------------------------------------------------
(* Tables, as functions from names to entries. *)
Entries == [hash : Contents \cup {NoHash}, state : States]

(* A table is a function from some names to entries. *)
LEMMA TableShape ==
  /\ \A t \in Tables : /\ DOMAIN t \subseteq Names /\ t = [n \in DOMAIN t |-> t[n]]
                       /\ \A n \in DOMAIN t : t[n] \in Entries
  /\ \A N \in SUBSET Names : [N -> Entries] \subseteq Tables
BY DEF Tables, Entries

(* Two tables with the same entries are one. *)
LEMMA SameTable ==
  ASSUME NEW t \in Tables, NEW u \in Tables, DOMAIN t = DOMAIN u, \A n \in DOMAIN t : t[n] = u[n]
  PROVE  t = u
BY TableShape

(* What erasing names from a table leaves. *)
LEMMA WithoutEntries ==
  ASSUME NEW t \in Tables, NEW N
  PROVE  /\ Without(t, N) \in Tables /\ DOMAIN Without(t, N) = DOMAIN t \ N
         /\ \A n \in DOMAIN t \ N : Without(t, N)[n] = t[n]
<1>1. /\ DOMAIN Without(t, N) = DOMAIN t \ N
      /\ \A n \in DOMAIN t \ N : Without(t, N)[n] = t[n]
  BY DEF Without
<1>2. Without(t, N) \in [DOMAIN t \ N -> Entries]
  BY TableShape DEF Without
<1>3. DOMAIN t \ N \in SUBSET Names
  BY TableShape
<1> QED
  BY <1>1, <1>2, <1>3, TableShape

(* What writing an entry does to a table. *)
LEMMA WithEntry ==
  ASSUME NEW t \in Tables, NEW n \in Names, NEW e \in Entries
  PROVE  /\ With(t, n, e) \in Tables
         /\ \A m : m \in DOMAIN With(t, n, e) <=> m \in DOMAIN t \/ m = n
         /\ With(t, n, e)[n] = e
         /\ \A m \in DOMAIN t : m # n => With(t, n, e)[m] = t[m]
<1>1. /\ DOMAIN With(t, n, e) = DOMAIN t \cup {n} /\ With(t, n, e)[n] = e
      /\ \A m \in DOMAIN t : m # n => With(t, n, e)[m] = t[m]
  BY DEF With
<1>2. With(t, n, e) \in [DOMAIN t \cup {n} -> Entries]
  BY TableShape DEF With
<1>3. DOMAIN t \cup {n} \in SUBSET Names
  BY TableShape
<1> QED
  BY <1>1, <1>2, <1>3, TableShape

(* The table with no entry. *)
LEMMA EmptyEntries == EmptyTable \in Tables /\ DOMAIN EmptyTable = {}
<1>1. EmptyTable \in [{} -> Entries] /\ DOMAIN EmptyTable = {}
  BY DEF EmptyTable
<1> QED
  BY <1>1, TableShape

(* A changed state leaves the hashes as they are. *)
LEMMA WithState ==
  ASSUME NEW t \in Tables, NEW n \in Names, NEW s \in States,
         NEW u, u = [m \in DOMAIN t |-> IF m = n THEN [t[m] EXCEPT !.state = s] ELSE t[m]]
  PROVE  /\ u \in Tables /\ DOMAIN u = DOMAIN t
         /\ \A m \in DOMAIN t : u[m].hash = t[m].hash
         /\ \A m \in DOMAIN t \ {n} : u[m] = t[m]
         /\ n \in DOMAIN t => u[n].state = s
<1>1. \A m \in DOMAIN t : t[m] \in Entries
  BY TableShape
<1>2. \A m \in DOMAIN t : [t[m] EXCEPT !.state = s] \in Entries
                          /\ [t[m] EXCEPT !.state = s].hash = t[m].hash
                          /\ [t[m] EXCEPT !.state = s].state = s
  BY <1>1 DEF Entries
<1>3. u \in [DOMAIN t -> Entries]
  BY <1>1, <1>2
<1>4. DOMAIN t \in SUBSET Names
  BY TableShape
<1> QED
  BY <1>2, <1>3, <1>4, TableShape

(* An entry moves to a name that is free, or nothing happens. *)
LEMMA RenamedEntry ==
  ASSUME NEW t \in Tables, NEW from \in DOMAIN t, NEW to \in Names, to \notin DOMAIN t,
         NEW u, u = With(Without(t, {from}), to, t[from])
  PROVE  /\ u \in Tables
         /\ \A m : m \in DOMAIN u <=> (m \in DOMAIN t /\ m # from) \/ m = to
         /\ u[to] = t[from]
         /\ \A m \in DOMAIN t : m # from => u[m] = t[m]
<1>1. t[from] \in Entries
  BY TableShape
<1> DEFINE w == Without(t, {from})
<1>2. w \in Tables /\ DOMAIN w = DOMAIN t \ {from} /\ \A m \in DOMAIN t \ {from} : w[m] = t[m]
  BY WithoutEntries
<1> HIDE DEF w
<1>3. /\ With(w, to, t[from]) \in Tables
      /\ \A m : m \in DOMAIN With(w, to, t[from]) <=> m \in DOMAIN w \/ m = to
      /\ With(w, to, t[from])[to] = t[from]
      /\ \A m \in DOMAIN w : m # to => With(w, to, t[from])[m] = w[m]
  BY <1>1, <1>2, WithEntry
<1>4. u = With(w, to, t[from])
  BY DEF w
<1> QED
  BY <1>2, <1>3, <1>4

(* The file that comes next is one of those to visit. *)
LEMMA NextFile ==
  ASSUME FetcherTypes, todo # {}
  PROVE  File \in todo /\ File \in available /\ File \in Files
         /\ File.name \in Names /\ File.content \in Contents /\ File.state \in States
<1>1. todo \subseteq Files /\ NamesOf(todo) \in SUBSET Nat /\ NamesOf(todo) # {}
  <2>1. todo \subseteq Files
    BY DEF FetcherTypes
  <2>2. \A f \in todo : f.name \in Nat
    BY <2>1, FetcherAssumption DEF Files, FetcherAssumption
  <2> QED
    BY <2>1, <2>2 DEF NamesOf
<1>2. PICK m \in NamesOf(todo) : \A k \in NamesOf(todo) : m <= k
  BY <1>1, Smallest
<1>3. \E f \in todo : \A g \in todo : f.name <= g.name
  BY <1>2 DEF NamesOf
<1>4. File \in todo
  BY <1>3 DEF File
<1> QED
  BY <1>1, <1>4 DEF FetcherTypes, Files

(* A statement changes the table as asked, or not at all. *)
LEMMA Statement ==
  ASSUME FetcherTypes, NEW t \in Tables, ApplyStatement(t)
  PROVE  /\ rows' \in Tables /\ rows' \in {rows, t}
         /\ faults' \in 0 .. MaxFaults /\ trust' \in {"no", "sound", "settled"}
         /\ trust' # "no" => rows' = t /\ trust' = trust
BY FetcherAssumption DEF ApplyStatement, Fault, NoFault, FetcherTypes, FetcherAssumption

(* A fault is counted, and what is known of the table is not relied upon. *)
LEMMA FaultCounts ==
  ASSUME FetcherTypes, Fault
  PROVE  faults' \in 0 .. MaxFaults /\ trust' = "no"
BY FetcherAssumption DEF Fault, FetcherTypes, FetcherAssumption

(* What Update begins with is as old as what it has read. *)
LEMMA BeginsKnowing ==
  ASSUME FetcherTypes, AnswerIsKnown, NEW files \in SUBSET disk, NEW table \in Tables,
         \A n \in DOMAIN table : table[n].hash \in Ready \cup {NoHash},
         Begins(files, table),
         faults' \in 0 .. MaxFaults, trust' \in {"no", "sound", "settled"}
  PROVE  FetcherTypes' /\ AtRest' /\ AnswerIsKnown'
<1>1. /\ UNCHANGED <<disk, rows, imported, vouched, edits>> /\ pc' = "files"
      /\ available' = files /\ todo' = files /\ applied' = table
  BY DEF Begins, durable
<1> DEFINE hashes == {table[n].hash : n \in DOMAIN table}
<1>2. /\ hashToName' \in [hashes -> DOMAIN table]
      /\ \A h \in DOMAIN hashToName' : table[hashToName'[h]].hash = h
  BY DEF Begins
<1>3. hashes \subseteq Contents \cup {NoHash} /\ hashes \subseteq Ready \cup {NoHash} /\ DOMAIN table \subseteq Names
  BY TableShape DEF Entries
<1>4. hashToName' \in [hashes -> Names]
  BY <1>2, <1>3
<1>5. hashToName' \in UNION {[H -> Names] : H \in SUBSET (Contents \cup {NoHash})}
  BY <1>3, <1>4
<1>6. FetcherTypes'
  BY <1>1, <1>5 DEF FetcherTypes
<1>7. \A c, d \in DOMAIN hashToName' : hashToName'[c] = hashToName'[d] => c = d
  BY <1>2
<1> QED
  BY <1>1, <1>2, <1>3, <1>6, <1>7 DEF AtRest, AnswerIsKnown, Ready, RecordedWasApplied

(* The end of a turn, for what the locals and the table speak of. *)
LEMMA VisitedKnowing ==
  ASSUME FetcherTypes, AnswerIsKnown, NEW N, Visited(N), todo # {}, pc' = "files",
         UNCHANGED <<disk, imported, vouched, edits>>,
         rows' \in Tables, \A n \in DOMAIN rows' : rows'[n].hash \in Ready \cup {NoHash},
         faults' \in 0 .. MaxFaults, trust' \in {"no", "sound", "settled"}
  PROVE  FetcherTypes' /\ AtRest' /\ AnswerIsKnown'
<1>1. /\ applied' = Without(applied, N) /\ todo' = todo \ {File}
      /\ UNCHANGED <<available, hashToName>>
  BY DEF Visited
<1>2. /\ applied' \in Tables /\ DOMAIN applied' \subseteq DOMAIN applied
      /\ \A n \in DOMAIN applied' : applied'[n] = applied[n]
  <2>1. applied \in Tables
    BY DEF FetcherTypes
  <2>2. /\ Without(applied, N) \in Tables /\ DOMAIN Without(applied, N) = DOMAIN applied \ N
        /\ \A n \in DOMAIN applied \ N : Without(applied, N)[n] = applied[n]
    BY <2>1, WithoutEntries, Zenon
  <2> QED
    BY <1>1, <2>2
<1>3. FetcherTypes'
  BY <1>1, <1>2 DEF FetcherTypes
<1> QED
  BY <1>1, <1>2, <1>3 DEF AtRest, AnswerIsKnown, Ready, RecordedWasApplied

(* Within a turn the locals stay as they are. *)
LEMMA TurnKnowing ==
  ASSUME FetcherTypes, AtRest, AnswerIsKnown, UNCHANGED <<disk, locals, edits>>,
         imported \subseteq imported' /\ imported' \subseteq Contents,
         vouched \subseteq vouched' /\ vouched' \subseteq Contents,
         rows' \in Tables, \A n \in DOMAIN rows' : rows'[n].hash \in Ready \cup {NoHash},
         faults' \in 0 .. MaxFaults, trust' \in {"no", "sound", "settled"},
         pc' \in {"files", "rename", "record", "returned", "thrown"},
         pc' \in {"rename", "record"} => todo # {},
         pc' = "rename" => Renamed, pc' = "record" => File.content \in Ready'
  PROVE  FetcherTypes' /\ AtRest' /\ AnswerIsKnown'
<1>1. UNCHANGED <<available, applied, hashToName, todo>>
  BY DEF locals
<1>2. File' = File
  BY <1>1 DEF File
<1>3. Renamed' = Renamed
  BY <1>1, <1>2 DEF Renamed, Known, NamesOf
<1>4. FetcherTypes'
  BY <1>1 DEF FetcherTypes
<1>5. Ready \subseteq Ready'
  BY DEF Ready
<1>6. RecordedWasApplied'
  BY <1>5 DEF RecordedWasApplied, Ready
<1> QED
  BY <1>1, <1>2, <1>3, <1>4, <1>5, <1>6 DEF AtRest, AnswerIsKnown

(* Each step of the update. *)
LEMMA StepKnowing ==
  ASSUME FetcherTypes, AtRest, AnswerIsKnown, UpdateStep
  PROVE  FetcherTypes' /\ AtRest' /\ AnswerIsKnown'
<1>0. /\ rows \in Tables /\ applied \in Tables /\ faults \in 0 .. MaxFaults
      /\ trust \in {"no", "sound", "settled"} /\ imported \subseteq Contents /\ vouched \subseteq Contents
      /\ \A n \in DOMAIN rows : rows[n].hash \in Ready \cup {NoHash}
      /\ todo # {} => File \in todo /\ File.name \in Names /\ File.content \in Contents /\ File.state \in States
  BY NextFile DEF FetcherTypes, AnswerIsKnown, RecordedWasApplied, Ready
<1>t. rows \in Tables
  BY <1>0
<1>10. \A N : /\ Without(rows, N) \in Tables /\ DOMAIN Without(rows, N) = DOMAIN rows \ N
              /\ \A n \in DOMAIN rows \ N : Without(rows, N)[n] = rows[n]
  BY <1>0, WithoutEntries, Zenon
<1>1. CASE Begin \/ IncludesUnread \/ AppliedUnread
  <2>1. faults' \in 0 .. MaxFaults /\ trust' \in {"no", "sound", "settled"}
    BY <1>0, <1>1, FaultCounts DEF Begin, IncludesUnread, AppliedUnread
  <2>2. \E F \in SUBSET disk : Begins(F, rows) \/ Begins(F, EmptyTable)
    BY <1>1 DEF Begin, IncludesUnread, AppliedUnread
  <2> QED
    BY <1>0, <2>1, <2>2, BeginsKnowing, EmptyEntries
<1>2. CASE DuplicateName \/ Unreadable \/ ApplyFails
  <2>1. UNCHANGED <<disk, rows, imported, vouched, locals, edits>> /\ pc' = "thrown"
    BY <1>2 DEF DuplicateName, Unreadable, ApplyFails, Throws, durable
  <2>2. faults' \in 0 .. MaxFaults /\ trust' \in {"no", "sound", "settled"}
    BY <1>0, <1>2, FaultCounts DEF DuplicateName, NoFault, Unreadable, ApplyFails
  <2> QED
    BY <1>0, <2>1, <2>2, TurnKnowing
<1>3. CASE Skip
  BY <1>0, <1>3, VisitedKnowing DEF Skip, Looping, durable
<1>4. CASE Unchanged
  <2>1. Looping /\ todo # {} /\ Visited({File.name}) /\ UNCHANGED <<disk, imported, vouched, pc, edits>>
    BY <1>4 DEF Unchanged, Looping
  <2> DEFINE t == [n \in DOMAIN rows |-> IF n = File.name THEN [rows[n] EXCEPT !.state = File.state]
                                                         ELSE rows[n]]
  <2>2. t \in Tables /\ DOMAIN t = DOMAIN rows /\ \A n \in DOMAIN rows : t[n].hash = rows[n].hash
    BY <1>0, <2>1, WithState
  <2>3. UNCHANGED <<rows, faults, trust>> \/ ApplyStatement(t)
    BY <1>4 DEF Unchanged
  <2> HIDE DEF t
  <2>4. /\ rows' \in Tables /\ rows' \in {rows, t}
        /\ faults' \in 0 .. MaxFaults /\ trust' \in {"no", "sound", "settled"}
    BY <1>0, <2>2, <2>3, Statement
  <2>5. \A n \in DOMAIN rows' : rows'[n].hash \in Ready \cup {NoHash}
    BY <1>0, <2>2, <2>4
  <2> QED
    BY <2>1, <2>4, <2>5, VisitedKnowing DEF Looping
<1>5. CASE DeleteTarget
  <2> DEFINE t == Without(rows, {File.name})
  <2>1. Looping /\ todo # {} /\ Renamed /\ ApplyStatement(t) /\ pc' = "rename"
        /\ UNCHANGED <<disk, imported, vouched, locals, edits>>
    BY <1>5 DEF DeleteTarget, Looping
  <2>2. t \in Tables /\ DOMAIN t \subseteq DOMAIN rows /\ \A n \in DOMAIN t : t[n] = rows[n]
    BY <1>10
  <2> HIDE DEF t
  <2>3. /\ rows' \in Tables /\ rows' \in {rows, t}
        /\ faults' \in 0 .. MaxFaults /\ trust' \in {"no", "sound", "settled"}
    BY <2>1, <2>2, Statement
  <2>4. \A n \in DOMAIN rows' : rows'[n].hash \in Ready \cup {NoHash}
    BY <1>0, <2>2, <2>3
  <2> QED
    BY <1>0, <2>1, <2>3, <2>4, TurnKnowing
<1>6. CASE RenameEntry
  <2> DEFINE from == hashToName[File.content]
             t == Rename(from, File.name)
  <2>1. /\ todo # {} /\ pc' = "files" /\ ApplyStatement(t) /\ Visited({from})
        /\ UNCHANGED <<disk, imported, vouched, edits>>
    BY <1>6 DEF RenameEntry, AnswerIsKnown
  <2>5. File.name \in Names
    BY <1>0, <2>1
  <2>2. t \in Tables /\ \A n \in DOMAIN t : t[n].hash \in Ready \cup {NoHash}
    <3>1. CASE from \notin DOMAIN rows \/ File.name \in DOMAIN rows
      BY <1>0, <3>1 DEF Rename
    <3>2. CASE from \in DOMAIN rows /\ File.name \notin DOMAIN rows
      <4>1. t = With(Without(rows, {from}), File.name, rows[from])
        BY <3>2 DEF Rename
      <4> HIDE DEF from, t
      <4>2. /\ t \in Tables /\ t[File.name] = rows[from]
            /\ \A m : m \in DOMAIN t <=> (m \in DOMAIN rows /\ m # from) \/ m = File.name
            /\ \A m \in DOMAIN rows : m # from => t[m] = rows[m]
        BY ONLY <1>t, <2>5, <3>2, <4>1, RenamedEntry
      <4> QED
        BY <1>0, <3>2, <4>2
    <3> QED
      BY <3>1, <3>2
  <2> HIDE DEF from, t
  <2>3. /\ rows' \in Tables /\ rows' \in {rows, t}
        /\ faults' \in 0 .. MaxFaults /\ trust' \in {"no", "sound", "settled"}
    BY <2>1, <2>2, Statement
  <2>4. \A n \in DOMAIN rows' : rows'[n].hash \in Ready \cup {NoHash}
    BY <1>0, <2>2, <2>3
  <2> QED
    BY <2>1, <2>3, <2>4, VisitedKnowing
<1>7. CASE Rehash \/ ApplyFile
  <2>1. /\ Looping /\ todo # {} /\ pc' = "record" /\ UNCHANGED <<disk, rows, locals, edits, faults, trust>>
        /\ imported' \in {imported, imported \cup {File.content}}
        /\ vouched' \in {vouched, vouched \cup {File.content}}
        /\ File.content \in imported' \cup vouched'
    BY <1>7 DEF Rehash, ApplyFile, Looping
  <2> QED
    BY <1>0, <2>1, TurnKnowing DEF Ready
<1>8. CASE UpdateEntry
  <2> DEFINE e == [hash |-> File.content, state |-> File.state]
             t == With(rows, File.name, e)
  <2>1. /\ todo # {} /\ pc' = "files" /\ ApplyStatement(t) /\ Visited({File.name})
        /\ UNCHANGED <<disk, imported, vouched, edits>> /\ File.content \in Ready
    BY <1>8 DEF UpdateEntry, AnswerIsKnown
  <2>6. File.name \in Names
    BY <1>0, <2>1
  <2>2. e \in Entries /\ e.hash = File.content
    BY <1>0, <2>1 DEF Entries
  <2> HIDE DEF e
  <2>3. t \in Tables /\ (\A m : m \in DOMAIN t <=> m \in DOMAIN rows \/ m = File.name) /\ t[File.name] = e
        /\ \A m \in DOMAIN rows : m # File.name => t[m] = rows[m]
    BY ONLY <1>t, <2>6, <2>2, WithEntry
  <2> HIDE DEF t
  <2>4. /\ rows' \in Tables /\ rows' \in {rows, t}
        /\ faults' \in 0 .. MaxFaults /\ trust' \in {"no", "sound", "settled"}
    BY <2>1, <2>3, Statement
  <2>5. \A n \in DOMAIN rows' : rows'[n].hash \in Ready \cup {NoHash}
    BY <1>0, <2>1, <2>2, <2>3, <2>4
  <2> QED
    BY <2>1, <2>4, <2>5, VisitedKnowing
<1>9. CASE CleanUp
  <2> DEFINE t == Without(rows, DOMAIN applied)
  <2>1. /\ pc' = "returned" /\ UNCHANGED <<disk, imported, vouched, locals, edits>>
        /\ rows' \in {rows, t}
    BY <1>9 DEF CleanUp
  <2>4. t \in Tables /\ DOMAIN t \subseteq DOMAIN rows /\ \A n \in DOMAIN t : t[n] = rows[n]
    BY <1>10
  <2> HIDE DEF t
  <2>2. faults' \in 0 .. MaxFaults /\ trust' \in {"no", "sound", "settled"}
    BY <1>0, <1>9, FaultCounts DEF CleanUp
  <2>3. rows' \in Tables /\ \A n \in DOMAIN rows' : rows'[n].hash \in Ready \cup {NoHash}
    BY <1>0, <2>1, <2>4
  <2> QED
    BY <1>0, <2>1, <2>2, <2>3, TurnKnowing
<1> QED
  BY <1>1, <1>2, <1>3, <1>4, <1>5, <1>6, <1>7, <1>8, <1>9 DEF UpdateStep

-----------------------------------------------------------------------------
(* The turns of a run without fault.                                         *)
(* What a turn finds. *)
LEMMA CleanTurn ==
  ASSUME FetcherTypes, CleanLoop, Clean, InLoop, todo # {}
  PROVE  /\ available = disk /\ todo \subseteq disk /\ File \in todo /\ File \in disk
         /\ Distinct(disk) /\ database = "full"
         /\ \A f \in disk : f # File => f.name # File.name
         /\ File.name \in NamesOf(disk) /\ File.name \in NamesOf(todo)
         /\ File.name \notin NamesOf(disk \ todo) /\ File.name \notin NamesOf(todo \ {File})
         /\ \A m : m \in NamesOf(disk \ (todo \ {File})) <=> m \in NamesOf(disk \ todo) \/ m = File.name
<1>1. available = disk /\ todo \subseteq disk /\ Distinct(disk) /\ database = "full"
  BY DEF CleanLoop, FetcherTypes
<1>2. File \in todo /\ File \in disk
  BY <1>1, NextFile
<1>3. \A f \in disk : f # File => f.name # File.name
  BY <1>1, <1>2 DEF Distinct
<1> QED
  BY <1>1, <1>2, <1>3 DEF NamesOf

(* What is left of `applied` after a turn. *)
LEMMA AppliedLeft ==
  ASSUME FetcherTypes, NEW n, Visited({n})
  PROVE  /\ UNCHANGED <<available, hashToName>> /\ todo' = todo \ {File}
         /\ \A m : m \in DOMAIN applied' <=> m \in DOMAIN applied /\ m # n
         /\ \A m \in DOMAIN applied' : applied'[m] = applied[m]
<1>1. applied \in Tables
  BY DEF FetcherTypes
<1>2. /\ DOMAIN Without(applied, {n}) = DOMAIN applied \ {n}
      /\ \A m \in DOMAIN applied \ {n} : Without(applied, {n})[m] = applied[m]
  BY <1>1, WithoutEntries, Zenon
<1>3. applied' = Without(applied, {n}) /\ UNCHANGED <<available, hashToName>> /\ todo' = todo \ {File}
  BY DEF Visited
<1> QED
  BY <1>2, <1>3

(* A turn that ends with the file's own entry in the table. *)
LEMMA TurnEnds ==
  ASSUME FetcherInv, Clean, InLoop, todo # {}, Visited({File.name}), pc' = "files", trust' = trust,
         UNCHANGED <<disk, database>>, Ready \subseteq Ready',
         \A m : m \in DOMAIN rows' <=> m \in DOMAIN rows \/ m = File.name,
         \A m \in DOMAIN rows : m # File.name => rows'[m] = rows[m],
         RedundancyChecks =>
           \/ rows'[File.name].hash = File.content /\ File.content \in Ready'
           \/ ~ArchivedRedundancy /\ File.state = "ARCHIVED" /\ rows'[File.name].state = "ARCHIVED"
  PROVE  CleanLoop' /\ SchemaSoFar' /\ TableSoFar'
<1>1. /\ available = disk /\ todo \subseteq disk /\ File \in todo /\ File \in disk
      /\ Distinct(disk) /\ database = "full"
      /\ \A f \in disk : f # File => f.name # File.name
      /\ File.name \in NamesOf(disk) /\ File.name \in NamesOf(todo)
      /\ File.name \notin NamesOf(disk \ todo) /\ File.name \notin NamesOf(todo \ {File})
      /\ \A m : m \in NamesOf(disk \ (todo \ {File})) <=> m \in NamesOf(disk \ todo) \/ m = File.name
  BY CleanTurn DEF FetcherInv
<1>2. /\ UNCHANGED <<available, hashToName>> /\ todo' = todo \ {File}
      /\ \A m : m \in DOMAIN applied' <=> m \in DOMAIN applied /\ m # File.name
      /\ \A m \in DOMAIN applied' : applied'[m] = applied[m]
  BY AppliedLeft DEF FetcherInv
<1>3. /\ DOMAIN applied \cap NamesOf(disk \ todo) = {}
      /\ \A n \in DOMAIN applied : n \in DOMAIN rows /\ rows[n] = applied[n]
      /\ DOMAIN rows \ NamesOf(disk) = DOMAIN applied \ NamesOf(disk)
      /\ DOMAIN rows \cap NamesOf(todo) \subseteq DOMAIN applied
  BY DEF FetcherInv, CleanLoop
<1>4. InLoop' /\ Clean' /\ Clean
  BY DEF InLoop, Clean
<1>5. \A m : m \in NamesOf(todo \ {File}) => m \in NamesOf(todo)
  BY DEF NamesOf
<1>6. /\ DOMAIN applied' \cap NamesOf(disk \ todo') = {}
      /\ DOMAIN rows' \cap NamesOf(todo') \subseteq DOMAIN applied'
  BY <1>1, <1>2, <1>3, <1>5
<1>7. DOMAIN rows' \ NamesOf(disk) = DOMAIN applied' \ NamesOf(disk)
  BY <1>1, <1>2, <1>3
<1>8. \A n \in DOMAIN applied' : n \in DOMAIN rows' /\ rows'[n] = applied'[n]
  BY <1>2, <1>3
<1>9. CleanLoop'
  BY <1>1, <1>2, <1>4, <1>6, <1>7, <1>8 DEF CleanLoop, NamesOf
<1>10. PICK file \in disk : file = File
  BY <1>1
<1>11. ASSUME NEW f \in disk, f # file PROVE ArchivedInBoth(f) => ArchivedInBoth(f)'
  <2>1. f.name # File.name
    BY <1>1, <1>10, <1>11
  <2> QED
    BY <2>1 DEF ArchivedInBoth
<1>12. \A f \in Visits' : f \in disk /\ (f \in Visits \/ f = file)
  BY <1>1, <1>2, <1>10 DEF Visits
<1>13. RedundancyChecks =>
         /\ file.content \in Ready' \/ ArchivedInBoth(file)'
         /\ rows'[file.name].hash = file.content \/ ArchivedInBoth(file)'
  BY <1>10 DEF ArchivedInBoth
<1>14. SchemaSoFar'
  BY <1>4, <1>11, <1>12, <1>13 DEF SchemaSoFar, FetcherInv
<1>15. ASSUME NoCopies(disk) PROVE TableSoFar'
  <2>1. /\ \A f \in Visits : f.name \in DOMAIN rows
        /\ RedundancyChecks => \A f \in Visits : rows[f.name].hash = f.content \/ ArchivedInBoth(f)
        /\ \A c \in DOMAIN hashToName :
             hashToName[c] \notin NamesOf(disk) /\ (\A f \in disk \ todo : f.content # c) =>
               hashToName[c] \in DOMAIN rows /\ rows[hashToName[c]].hash = c
        /\ trust = "settled" /\ RedundancyChecks => OrphansKept
    BY <1>4, <1>15 DEF FetcherInv, TableSoFar
  <2>2. \A f \in Visits' : f.name \in DOMAIN rows'
    BY <1>10, <1>12, <2>1
  <2>3. ASSUME RedundancyChecks, NEW f \in Visits'
        PROVE  rows'[f.name].hash = f.content \/ ArchivedInBoth(f)'
    <3>1. CASE f = file
      BY <1>13, <2>3, <3>1
    <3>2. CASE f # file
      <4>1. f \in disk /\ f.name # File.name /\ f \in Visits /\ f.name \in DOMAIN rows
        BY <1>1, <1>10, <1>12, <2>1, <2>3, <3>2
      <4>2. rows'[f.name] = rows[f.name]
        BY <4>1
      <4> QED
        BY <1>11, <2>1, <2>3, <3>2, <4>1, <4>2
    <3> QED
      BY <3>1, <3>2
  <2>4. ASSUME NEW c \in DOMAIN hashToName', hashToName'[c] \notin NamesOf(disk'),
               \A f \in disk' \ todo' : f.content # c
        PROVE  hashToName'[c] \in DOMAIN rows' /\ rows'[hashToName'[c]].hash = c
    <3>1. /\ hashToName[c] \notin NamesOf(disk) /\ hashToName[c] # File.name
          /\ \A f \in disk \ todo : f.content # c
      BY <1>1, <1>2, <2>4
    <3>2. hashToName[c] \in DOMAIN rows /\ rows[hashToName[c]].hash = c
      BY <1>2, <2>1, <2>4, <3>1
    <3> QED
      BY <1>2, <3>1, <3>2
  <2>5. trust = "settled" /\ RedundancyChecks => OrphansKept'
    <3>1. DOMAIN rows' \ NamesOf(disk) = DOMAIN rows \ NamesOf(disk) /\ NamesOf(disk)' = NamesOf(disk)
      BY <1>1 DEF NamesOf
    <3> QED
      BY <2>1, <3>1 DEF OrphansKept
  <2> QED
    BY <2>2, <2>3, <2>4, <2>5 DEF TableSoFar
<1>16. NoCopies(disk') => NoCopies(disk)
  BY DEF NoCopies
<1>17. TableSoFar'
  BY <1>15, <1>16 DEF TableSoFar
<1> QED
  BY <1>9, <1>14, <1>17

(* A turn that gives an entry another name: the entry is not one of a file    *)
(* that is there, nor does the file have an entry of its own.                *)
LEMMA RenameEnds ==
  ASSUME FetcherInv, Clean, pc = "rename", RenameEntry, trust' = trust, database' = database,
         rows' = Rename(hashToName[File.content], File.name)
  PROVE  CleanLoop' /\ SchemaSoFar' /\ TableSoFar'
<1> DEFINE from == hashToName[File.content]
<1>1. /\ InLoop /\ todo # {} /\ Renamed
      /\ File.name \notin DOMAIN rows /\ File.name \notin DOMAIN applied
      /\ DOMAIN applied \cap NamesOf(disk \ todo) = {}
      /\ \A n \in DOMAIN applied : n \in DOMAIN rows /\ rows[n] = applied[n]
      /\ DOMAIN rows \ NamesOf(disk) = DOMAIN applied \ NamesOf(disk)
      /\ DOMAIN rows \cap NamesOf(todo) \subseteq DOMAIN applied
  BY DEF FetcherInv, CleanLoop, AnswerIsKnown, InLoop, Renamed, Known
<1>2. /\ available = disk /\ todo \subseteq disk /\ File \in todo /\ File \in disk
      /\ Distinct(disk) /\ database = "full"
      /\ \A f \in disk : f # File => f.name # File.name
      /\ File.name \in NamesOf(disk) /\ File.name \in NamesOf(todo)
      /\ File.name \notin NamesOf(disk \ todo) /\ File.name \notin NamesOf(todo \ {File})
      /\ \A m : m \in NamesOf(disk \ (todo \ {File})) <=> m \in NamesOf(disk \ todo) \/ m = File.name
  BY <1>1, CleanTurn DEF FetcherInv
<1>3. from \notin NamesOf(disk) /\ File.content \in DOMAIN hashToName /\ from # File.name
      /\ \A f \in disk : f.name # from
  BY <1>1, <1>2 DEF Renamed, NamesOf
<1>4. Visited({from}) /\ pc' = "files" /\ UNCHANGED <<disk, imported, vouched, edits>>
  BY DEF RenameEntry
<1> HIDE DEF from
<1>5. /\ UNCHANGED <<available, hashToName>> /\ todo' = todo \ {File}
      /\ \A m : m \in DOMAIN applied' <=> m \in DOMAIN applied /\ m # from
      /\ \A m \in DOMAIN applied' : applied'[m] = applied[m]
  BY <1>4, AppliedLeft DEF FetcherInv
<1>6. rows \in Tables /\ File.name \in Names
  BY <1>1, NextFile DEF FetcherInv, FetcherTypes
<1>7. /\ \A m : m \in DOMAIN rows' <=> (m \in DOMAIN rows /\ m # from) \/ (m = File.name /\ from \in DOMAIN rows)
      /\ \A m \in DOMAIN rows : m # from => rows'[m] = rows[m]
      /\ from \in DOMAIN rows => rows'[File.name] = rows[from]
  <2>1. CASE from \notin DOMAIN rows
    BY <2>1 DEF Rename, from
  <2>2. CASE from \in DOMAIN rows
    <3>1. rows' = With(Without(rows, {from}), File.name, rows[from])
      BY <1>1, <2>2 DEF Rename, from
    <3> QED
      BY ONLY <1>1, <1>6, <2>2, <3>1, RenamedEntry
  <2> QED
    BY <2>1, <2>2
<1>8. Clean' /\ InLoop'
  BY <1>4 DEF Clean, InLoop
<1>9. \A m : m \in NamesOf(todo \ {File}) => m \in NamesOf(todo)
  BY DEF NamesOf
<1>10. /\ DOMAIN applied' \cap NamesOf(disk \ todo') = {}
       /\ DOMAIN rows' \cap NamesOf(todo') \subseteq DOMAIN applied'
  <2>1. DOMAIN applied' \cap NamesOf(disk \ todo') = {}
    BY <1>1, <1>2, <1>5
  <2>2. ASSUME NEW m \in DOMAIN rows', m \in NamesOf(todo \ {File}) PROVE m \in DOMAIN applied'
    <3>1. m # File.name /\ m \in NamesOf(todo)
      BY <1>2, <1>9, <2>2
    <3>2. m \in DOMAIN rows /\ m # from
      BY <1>7, <2>2, <3>1
    <3> QED
      BY <1>1, <1>5, <3>1, <3>2
  <2> QED
    BY <1>5, <2>1, <2>2
<1>11. DOMAIN rows' \ NamesOf(disk) = DOMAIN applied' \ NamesOf(disk)
  BY <1>1, <1>2, <1>3, <1>5, <1>7
<1>12. \A n \in DOMAIN applied' : n \in DOMAIN rows' /\ rows'[n] = applied'[n]
  BY <1>1, <1>5, <1>7
<1>13. CleanLoop'
  BY <1>2, <1>4, <1>5, <1>8, <1>10, <1>11, <1>12 DEF CleanLoop, NamesOf
<1>14. PICK file \in disk : file = File
  BY <1>2
<1>15. ASSUME NEW f \in disk, f # file PROVE ArchivedInBoth(f) => ArchivedInBoth(f)'
  <2>1. f.name # File.name /\ f.name # from
    BY <1>2, <1>3, <1>14, <1>15
  <2> QED
    BY <1>7, <2>1 DEF ArchivedInBoth
<1>16. \A f \in Visits' : f \in disk /\ (f \in Visits \/ f = file)
  BY <1>2, <1>4, <1>5, <1>14 DEF Visits
<1>17. file.content \in Ready' /\ Ready' = Ready
  <2>1. File.content \in Contents
    BY <1>1, NextFile DEF FetcherInv
  <2>2. DOMAIN hashToName \subseteq Ready \cup {NoHash}
    BY DEF FetcherInv, AnswerIsKnown
  <2> QED
    BY <1>3, <1>4, <1>14, <2>1, <2>2, FetcherAssumption DEF Ready, FetcherAssumption
<1>18. SchemaSoFar'
  BY <1>8, <1>15, <1>16, <1>17 DEF SchemaSoFar, FetcherInv
<1>19. ASSUME NoCopies(disk) PROVE TableSoFar'
  <2>1. /\ \A f \in Visits : f.name \in DOMAIN rows
        /\ RedundancyChecks => \A f \in Visits : rows[f.name].hash = f.content \/ ArchivedInBoth(f)
        /\ \A c \in DOMAIN hashToName :
             hashToName[c] \notin NamesOf(disk) /\ (\A f \in disk \ todo : f.content # c) =>
               hashToName[c] \in DOMAIN rows /\ rows[hashToName[c]].hash = c
        /\ trust # "settled"
    BY <1>1, <1>8, <1>19 DEF FetcherInv, TableSoFar
  <2>2. \A f \in disk \ todo : f.content # File.content
    BY <1>2, <1>19 DEF NoCopies
  <2>3. from \in DOMAIN rows /\ rows[from].hash = File.content
    BY <1>3, <2>1, <2>2 DEF from
  <2>4. \A f \in Visits' : f.name \in DOMAIN rows'
    BY <1>2, <1>3, <1>7, <1>14, <1>16, <2>1, <2>3
  <2>5. ASSUME RedundancyChecks, NEW f \in Visits'
        PROVE  rows'[f.name].hash = f.content \/ ArchivedInBoth(f)'
    <3>1. CASE f = file
      BY <1>7, <1>14, <2>3, <3>1
    <3>2. CASE f # file
      <4>1. f \in disk /\ f.name # File.name /\ f.name # from /\ f \in Visits /\ f.name \in DOMAIN rows
        BY <1>2, <1>3, <1>14, <1>16, <2>1, <2>5, <3>2
      <4>2. rows'[f.name] = rows[f.name]
        BY <1>7, <4>1
      <4> QED
        BY <1>15, <2>1, <2>5, <3>2, <4>1, <4>2
    <3> QED
      BY <3>1, <3>2
  <2>6. ASSUME NEW c \in DOMAIN hashToName', hashToName'[c] \notin NamesOf(disk'),
               \A f \in disk' \ todo' : f.content # c
        PROVE  hashToName'[c] \in DOMAIN rows' /\ rows'[hashToName'[c]].hash = c
    <3>1. /\ hashToName[c] \notin NamesOf(disk) /\ c # File.content
          /\ \A f \in disk \ todo : f.content # c
      BY <1>2, <1>4, <1>5, <2>6
    <3>2. hashToName[c] # from
      BY <1>3, <1>5, <2>6, <3>1 DEF FetcherInv, AnswerIsKnown, from
    <3>3. hashToName[c] \in DOMAIN rows /\ rows[hashToName[c]].hash = c
      BY <1>5, <2>1, <2>6, <3>1
    <3> QED
      BY <1>5, <1>7, <3>2, <3>3
  <2> QED
    BY <1>4, <2>1, <2>4, <2>5, <2>6 DEF TableSoFar
<1>20. NoCopies(disk') => NoCopies(disk)
  BY <1>4 DEF NoCopies
<1>21. TableSoFar'
  BY <1>19, <1>20 DEF TableSoFar
<1> QED
  BY <1>13, <1>18, <1>21

(* A turn that waits for its second half, with the table as it was. *)
LEMMA TurnGoesOn ==
  ASSUME FetcherInv, Clean, pc = "files", todo # {}, UNCHANGED <<disk, rows, locals, trust, database>>,
         Ready \subseteq Ready', pc' \in {"rename", "record"},
         pc' = "rename" => File.name \notin DOMAIN rows,
         NoCopies(disk) => trust # "settled"
  PROVE  CleanLoop' /\ SchemaSoFar' /\ TableSoFar'
<1>1. UNCHANGED <<available, applied, hashToName, todo>> /\ InLoop /\ InLoop' /\ Clean'
  BY DEF locals, InLoop, Clean
<1>2. File' = File
  BY <1>1 DEF File
<1>3. /\ DOMAIN applied \cap NamesOf(disk \ todo) = {}
      /\ \A n \in DOMAIN applied : n \in DOMAIN rows /\ rows[n] = applied[n]
      /\ DOMAIN rows \ NamesOf(disk) = DOMAIN applied \ NamesOf(disk)
      /\ DOMAIN rows \cap NamesOf(todo) \subseteq DOMAIN applied
      /\ available = disk /\ database = "full" /\ Distinct(disk)
  BY <1>1 DEF FetcherInv, CleanLoop
<1>4. Distinct(disk') /\ (NoCopies(disk') => NoCopies(disk))
  BY <1>3 DEF Distinct, NoCopies
<1>5. CleanLoop'
  BY <1>1, <1>2, <1>3, <1>4 DEF CleanLoop, NamesOf
<1>6. Visits' = Visits /\ \A f \in disk : ArchivedInBoth(f) => ArchivedInBoth(f)'
  BY <1>1 DEF Visits, ArchivedInBoth
<1>7. Visits \subseteq disk
  BY DEF Visits
<1>8. SchemaSoFar'
  BY <1>1, <1>6, <1>7 DEF SchemaSoFar, FetcherInv
<1>9. TableSoFar'
  BY <1>1, <1>4, <1>6, <1>7 DEF TableSoFar, FetcherInv, NamesOf
<1> QED
  BY <1>5, <1>8, <1>9

(* The end of the loop: what is left of `applied` are the entries without a   *)
(* file.                                                                     *)
LEMMA LoopEnds ==
  ASSUME FetcherInv, Clean, CleanUp, trust' # "no", database' = database
  PROVE  CleanLoop' /\ SchemaSoFar' /\ TableSoFar'
<1>1. /\ pc = "files" /\ todo = {} /\ pc' = "returned" /\ trust' = "settled"
      /\ UNCHANGED <<disk, imported, vouched, locals>>
      /\ \/ rows' = Without(rows, DOMAIN applied)
         \/ rows' = rows /\ (~DoCleanup \/ DOMAIN applied = {})
  BY DEF CleanUp, Fault, FetcherInv, FetcherTypes, Clean
<1>2. InLoop /\ Clean' /\ ~InLoop' /\ rows \in Tables /\ applied \in Tables
  BY <1>1 DEF InLoop, Clean, FetcherInv, FetcherTypes
<1>3. /\ DOMAIN applied \cap NamesOf(disk) = {} /\ database = "full" /\ Distinct(disk)
      /\ DOMAIN rows \ NamesOf(disk) = DOMAIN applied
  BY <1>1, <1>2 DEF FetcherInv, CleanLoop
<1>4. CleanLoop'
  BY <1>1, <1>2, <1>3 DEF CleanLoop, Distinct
<1>5. /\ \A m : m \in DOMAIN rows' => m \in DOMAIN rows
      /\ \A m \in DOMAIN rows : m \notin DOMAIN applied => m \in DOMAIN rows' /\ rows'[m] = rows[m]
  <2>1. /\ DOMAIN Without(rows, DOMAIN applied) = DOMAIN rows \ DOMAIN applied
        /\ \A m \in DOMAIN rows \ DOMAIN applied : Without(rows, DOMAIN applied)[m] = rows[m]
    BY <1>2, WithoutEntries, Zenon
  <2> QED
    BY <1>1, <2>1
<1>6. ASSUME NEW f \in disk PROVE f.name \notin DOMAIN applied /\ (ArchivedInBoth(f) => ArchivedInBoth(f)')
  <2>1. f.name \notin DOMAIN applied
    BY <1>3 DEF NamesOf
  <2> QED
    BY <1>5, <2>1 DEF ArchivedInBoth
<1>7. Visits = disk /\ Visits' = disk
  BY <1>1 DEF Visits
<1>8. SchemaSoFar'
  BY <1>1, <1>2, <1>6, <1>7 DEF SchemaSoFar, FetcherInv, Ready
<1>9. OrphansKept'
  <2>1. CASE rows' = Without(rows, DOMAIN applied)
    <3>1. DOMAIN rows' = DOMAIN rows \ DOMAIN applied
      BY <1>2, <2>1, WithoutEntries, Zenon
    <3>2. DOMAIN rows' \ NamesOf(disk)' = {}
      BY <1>1, <1>3, <3>1 DEF NamesOf
    <3> QED
      BY <3>2 DEF OrphansKept
  <2>2. CASE rows' = rows /\ (~DoCleanup \/ DOMAIN applied = {})
    <3>1. IsFiniteSet(DOMAIN applied) /\ Cardinality(DOMAIN applied) \in Nat
      <4>1. DOMAIN applied \subseteq Names
        BY <1>2, TableShape
      <4> QED
        BY <4>1, FetcherAssumption, FS_Subset, FS_CardinalityType DEF FetcherAssumption
    <3>2. DOMAIN rows' \ NamesOf(disk)' = DOMAIN applied
      BY <1>1, <1>3, <2>2 DEF NamesOf
    <3>3. ~DoCleanup => CleanDeadReferencesMaxCount >= 0
                         /\ Cardinality(DOMAIN applied) > CleanDeadReferencesMaxCount
      BY <3>1, FetcherAssumption DEF DoCleanup, FetcherAssumption
    <3> QED
      BY <2>2, <3>2, <3>3 DEF OrphansKept
  <2> QED
    BY <1>1, <2>1, <2>2
<1>10. TableSoFar'
  <2>1. NoCopies(disk') => NoCopies(disk)
    BY <1>1 DEF NoCopies
  <2> QED
    BY <1>1, <1>2, <1>5, <1>6, <1>7, <1>9, <2>1 DEF TableSoFar, FetcherInv
<1> QED
  BY <1>4, <1>8, <1>10

(* A run begins with the table as it is. *)
LEMMA RunBegins ==
  ASSUME FetcherInv, Begin, database = "full", database' = database
  PROVE  CleanLoop' /\ SchemaSoFar' /\ TableSoFar'
<1>1. /\ pc = "out" /\ pc' = "files" /\ Distinct(disk) /\ UNCHANGED <<disk, rows, imported, vouched>>
      /\ available' = disk /\ todo' = disk /\ applied' = rows
      /\ trust' = (IF trust = "settled" THEN "settled" ELSE "sound")
      /\ hashToName' \in [{rows[n].hash : n \in DOMAIN rows} -> DOMAIN rows]
      /\ \A h \in DOMAIN hashToName' : rows[hashToName'[h]].hash = h
  BY DEF Begin, Begins, durable
<1>2. InLoop' /\ Clean'
  BY <1>1 DEF InLoop, Clean
<1>3. NamesOf(disk \ disk) = {} /\ Distinct(disk') /\ (NoCopies(disk') => NoCopies(disk))
  BY <1>1 DEF NamesOf, Distinct, NoCopies
<1>4. CleanLoop'
  BY <1>1, <1>2, <1>3 DEF CleanLoop
<1>5. CASE trust = "settled"
  <2>1. Visits = disk /\ Visits' = disk /\ Clean
    BY <1>1, <1>5 DEF Visits, Clean
  <2>2. \A f \in disk : ArchivedInBoth(f) => ArchivedInBoth(f)'
    BY <1>1 DEF ArchivedInBoth
  <2>3. SchemaSoFar'
    BY <1>1, <2>1, <2>2 DEF SchemaSoFar, FetcherInv, Ready
  <2>4. OrphansKept => OrphansKept'
    BY <1>1 DEF OrphansKept, NamesOf
  <2>5. TableSoFar'
    BY <1>1, <1>3, <1>5, <2>1, <2>2, <2>4 DEF TableSoFar, FetcherInv
  <2> QED
    BY <1>4, <2>3, <2>5
<1>6. CASE trust # "settled"
  <2>1. Visits' = {}
    BY <1>1, <1>6 DEF Visits
  <2> QED
    BY <1>1, <1>4, <1>6, <2>1 DEF SchemaSoFar, TableSoFar
<1> QED
  BY <1>5, <1>6

(* What a run without fault has recorded, the next one finds.                 *)
LEMMA NothingToRepeat ==
  ASSUME FetcherInv, Clean, pc = "files", todo # {}, trust = "settled", NoCopies(disk)
  PROVE  Skipped \/ Matches
<1>1. /\ File \in disk /\ File.name \in NamesOf(todo) /\ InLoop /\ File.content \in Contents
  BY CleanTurn, NextFile DEF FetcherInv, InLoop
<1>2. /\ \A n \in DOMAIN applied : n \in DOMAIN rows /\ rows[n] = applied[n]
      /\ DOMAIN rows \cap NamesOf(todo) \subseteq DOMAIN applied
  BY <1>1 DEF FetcherInv, CleanLoop
<1>3. Visits = disk
  BY DEF Visits
<1>4. /\ File.name \in DOMAIN rows
      /\ RedundancyChecks => rows[File.name].hash = File.content \/ ArchivedInBoth(File)
  BY <1>1, <1>3 DEF FetcherInv, TableSoFar
<1>5. Known /\ Entry = rows[File.name]
  BY <1>1, <1>2, <1>4 DEF Known, Entry
<1>6. CASE RedundancyChecks /\ rows[File.name].hash = File.content
  BY <1>1, <1>5, <1>6, FetcherAssumption DEF Matches, Rehashed, FetcherAssumption
<1>7. CASE ~RedundancyChecks \/ ArchivedInBoth(File)
  BY <1>5, <1>7 DEF Skipped, ArchivedInBoth
<1> QED
  BY <1>4, <1>6, <1>7

(* The steps of a run without fault. *)
LEMMA StepClean ==
  ASSUME FetcherInv, UpdateStep, database = "full", database' = database, trust' # "no"
  PROVE  CleanLoop' /\ SchemaSoFar' /\ TableSoFar'
<1>1. ~Fault
  BY DEF Fault
<1>2. CASE Begin
  BY <1>2, RunBegins
<1>3. ~IncludesUnread /\ ~AppliedUnread /\ ~Unreadable /\ ~ApplyFails
  BY <1>1 DEF IncludesUnread, AppliedUnread, Unreadable, ApplyFails
<1>4. ~DuplicateName
  BY DEF DuplicateName, NoFault, FetcherInv, CleanLoop, Clean
<1>5. ASSUME NEW t, ApplyStatement(t) PROVE rows' = t /\ trust' = trust
  BY <1>1, <1>5 DEF ApplyStatement, NoFault
<1>6. ASSUME Looping, trust' = trust
      PROVE  /\ Clean /\ InLoop /\ pc = "files" /\ todo # {} /\ FetcherTypes
             /\ \A n \in DOMAIN applied : n \in DOMAIN rows /\ rows[n] = applied[n]
             /\ DOMAIN rows \cap NamesOf(todo) \subseteq DOMAIN applied
             /\ File \in todo /\ File.name \in Names /\ File.content \in Contents /\ File.state \in States
             /\ File.name \in NamesOf(todo) /\ rows \in Tables
  <2>1. Clean /\ InLoop /\ pc = "files" /\ todo # {} /\ FetcherTypes
    BY <1>6 DEF Clean, InLoop, Looping, FetcherInv
  <2>2. /\ \A n \in DOMAIN applied : n \in DOMAIN rows /\ rows[n] = applied[n]
        /\ DOMAIN rows \cap NamesOf(todo) \subseteq DOMAIN applied
    BY <2>1 DEF FetcherInv, CleanLoop
  <2> QED
    BY <2>1, <2>2, NextFile DEF NamesOf, FetcherTypes
<1>7. CASE Skip
  <2>1. /\ Looping /\ Skipped /\ Visited({File.name})
        /\ UNCHANGED <<disk, rows, imported, vouched, pc, trust>>
    BY <1>7 DEF Skip, durable
  <2>2. /\ File.name \in DOMAIN rows /\ rows[File.name] = Entry
        /\ ~RedundancyChecks \/ (~ArchivedRedundancy /\ Entry.state = "ARCHIVED" /\ File.state = "ARCHIVED")
    BY <1>6, <2>1 DEF Skipped, Known, Entry
  <2> QED
    BY <1>6, <2>1, <2>2, TurnEnds DEF Ready
<1>8. CASE Unchanged
  <2> DEFINE t == [n \in DOMAIN rows |-> IF n = File.name THEN [rows[n] EXCEPT !.state = File.state]
                                                         ELSE rows[n]]
  <2>1. /\ Looping /\ Matches /\ Visited({File.name}) /\ UNCHANGED <<disk, imported, vouched, pc>>
        /\ UNCHANGED <<rows, trust>> \/ ApplyStatement(t)
    BY <1>8 DEF Unchanged
  <2>2. trust' = trust /\ rows' \in {rows, t}
    BY <1>5, <2>1
  <2>3. /\ File.name \in DOMAIN rows /\ rows[File.name].hash = File.content /\ File.content # NoHash
    BY <1>6, <2>1, <2>2, FetcherAssumption DEF Matches, Known, Entry, FetcherAssumption
  <2>4. File.content \in Ready
    BY <1>6, <2>1, <2>2, <2>3 DEF FetcherInv, AnswerIsKnown, Matches, Known
  <2>5. /\ DOMAIN t = DOMAIN rows
        /\ \A m \in DOMAIN rows : t[m].hash = rows[m].hash
        /\ \A m \in DOMAIN rows : m # File.name => t[m] = rows[m]
    BY <1>6, <2>1, <2>2, WithState
  <2> HIDE DEF t
  <2>6. /\ \A m : m \in DOMAIN rows' <=> m \in DOMAIN rows \/ m = File.name
        /\ \A m \in DOMAIN rows : m # File.name => rows'[m] = rows[m]
        /\ rows'[File.name].hash = File.content
    BY <2>2, <2>3, <2>5
  <2> QED
    BY <1>6, <2>1, <2>2, <2>4, <2>6, TurnEnds DEF Ready
<1>9. CASE DeleteTarget
  <2>1. /\ Looping /\ ~Skipped /\ Renamed /\ pc' = "rename" /\ UNCHANGED <<disk, imported, vouched, locals>>
        /\ trust' = trust /\ rows' = Without(rows, {File.name})
    BY <1>5, <1>9 DEF DeleteTarget
  <2>2. File.name \notin DOMAIN rows
    BY <1>6, <2>1 DEF Renamed, Known
  <2>3. rows' = rows
    <3>1. /\ Without(rows, {File.name}) \in Tables /\ DOMAIN Without(rows, {File.name}) = DOMAIN rows \ {File.name}
          /\ \A m \in DOMAIN rows \ {File.name} : Without(rows, {File.name})[m] = rows[m]
      BY <1>6, <2>1, WithoutEntries, Zenon
    <3> QED
      BY <1>6, <2>1, <2>2, <3>1, SameTable
  <2>4. NoCopies(disk) => trust # "settled"
    BY <1>6, <2>1, NothingToRepeat DEF Matches, Renamed, Skipped
  <2> QED
    BY <1>6, <2>1, <2>2, <2>3, <2>4, TurnGoesOn DEF Ready
<1>10. CASE RenameEntry
  <2>1. pc = "rename" /\ rows' = Rename(hashToName[File.content], File.name) /\ trust' = trust /\ Clean
    BY <1>5, <1>10 DEF RenameEntry, Clean
  <2> QED
    BY <1>10, <2>1, RenameEnds
<1>11. CASE Rehash \/ ApplyFile
  <2>1. /\ Looping /\ ~Skipped /\ ~Matches /\ pc' = "record"
        /\ UNCHANGED <<disk, rows, locals, trust>> /\ Ready \subseteq Ready'
    BY <1>11 DEF Rehash, ApplyFile, Ready, Matches, Applies
  <2>2. NoCopies(disk) => trust # "settled"
    BY <1>6, <2>1, NothingToRepeat
  <2> QED
    BY <1>6, <2>1, <2>2, TurnGoesOn
<1>12. CASE UpdateEntry
  <2> DEFINE e == [hash |-> File.content, state |-> File.state]
  <2>1. /\ pc = "record" /\ pc' = "files" /\ Visited({File.name})
        /\ rows' = With(rows, File.name, e) /\ trust' = trust
        /\ UNCHANGED <<disk, imported, vouched>>
    BY <1>5, <1>12 DEF UpdateEntry
  <2>2. Clean /\ InLoop /\ todo # {} /\ File.content \in Ready /\ rows \in Tables
    BY <2>1 DEF Clean, InLoop, FetcherInv, AnswerIsKnown, FetcherTypes
  <2>3. e \in Entries /\ e.hash = File.content /\ File.name \in Names
    BY <2>2, NextFile DEF Entries, FetcherInv
  <2> HIDE DEF e
  <2>4. /\ \A m : m \in DOMAIN rows' <=> m \in DOMAIN rows \/ m = File.name
        /\ rows'[File.name] = e
        /\ \A m \in DOMAIN rows : m # File.name => rows'[m] = rows[m]
    BY <2>1, <2>2, <2>3, WithEntry
  <2> QED
    BY <2>1, <2>2, <2>3, <2>4, TurnEnds DEF Ready
<1>13. CASE CleanUp
  <2>1. Clean
    BY <1>13 DEF CleanUp, Fault, Clean
  <2> QED
    BY <1>13, <2>1, LoopEnds
<1> QED
  BY <1>2, <1>3, <1>4, <1>7, <1>8, <1>9, <1>10, <1>11, <1>12, <1>13 DEF UpdateStep

-----------------------------------------------------------------------------
USE SecretAssumption, LoaderAssumption, FetcherAssumption

(* Where a start stands: the master key is only loaded after the databases,  *)
(* the updates only run in their phase, and what has ended has left nothing. *)
Where ==
  /\ process \in {"down", "starting", "up"}
  /\ process = "down" <=> phase = "idle"
  /\ phase = "idle" => Unstarted
  /\ phase # "loaded" => Unloaded
  /\ pc # "out" => phase = "update" /\ closures # <<>>

-----------------------------------------------------------------------------
(* What the secrets, the digest and the configuration have to do with each   *)
(* other.                                                                    *)
IsLoaded == state \in {"PRESENT", "NOT_PRESENT"}

(* The digest there will be when the transaction has been executed. *)
After == IF transition.deletes \/ transition.digest # NoKey THEN transition.digest ELSE digest

(* A transaction that waits leads to the key of the configuration. *)
Pending ==
  Queued =>
    /\ IsLoaded /\ transition.digest = current
    /\ "secrets" \notin misread /\ ~Conflicts =>
         \A a \in Accounts : transition.secret[a] \in {NoSecret, Under(After)}
    /\ misread = {} => ~Conflicts /\ (transition.deletes \/ transition.digest # NoKey)

(* What the server knows of the key it has loaded. *)
KeyInUse ==
  /\ state = "NOT_LOADED_YET" => Unloaded
  /\ transition # NoTransaction => IsLoaded
  /\ state = "PRESENT" => value # NoKey
  /\ state = "NOT_PRESENT" => value = NoKey
  /\ IsLoaded => value = current /\ announced = config
  /\ IsLoaded /\ transition = NoTransaction /\ misread = {} => digest = value

(* A configuration that has been announced can still be loaded. *)
Feasible ==
  announced # <<>> /\ misread = {} =>
    \/ digest \in {NoKey, announced[1], announced[2]}
    \/ announced[2] = NoKey /\ HaveSecrets = {}

SecretInv == SecretTypes /\ OneKey /\ Pending /\ KeyInUse /\ Feasible /\ RestartSucceeds

-----------------------------------------------------------------------------
(* Encryption and decryption, on sequences of keys. *)
LEMMA CipherTexts ==
  /\ \A k \in Keys \cup {NoKey} : Under(k) \in Seq(Keys) /\ <<>> \o Under(k) = Under(k)
  /\ \A k \in Keys : Last(Under(k)) = k /\ Front(Under(k)) = <<>> /\ Under(k) # <<>>
  /\ Under(NoKey) = <<>>
  /\ \A s \in Seq(Keys), k \in Keys \cup {NoKey} :
        s \o Under(k) \in Seq(Keys) /\ Front(s) \o Under(k) \in Seq(Keys)
<1>1. \A k \in Keys \cup {NoKey} : Under(k) \in Seq(Keys)
  BY EmptySeq DEF Under
<1>2. \A k \in Keys \cup {NoKey} : <<>> \o Under(k) = Under(k)
  BY <1>1, ConcatEmptySeq
<1>3. ASSUME NEW k \in Keys
      PROVE  Last(Under(k)) = k /\ Front(Under(k)) = <<>> /\ Under(k) # <<>>
  <2>1. Under(k) = <<k>> /\ Len(<<k>>) = 1 /\ <<k>>[1] = k
    BY <1>3, SecretAssumption DEF Under, SecretAssumption
  <2>2. SubSeq(<<k>>, 1, 0) = <<>>
    BY SubSeqEmpty
  <2> QED
    BY <2>1, <2>2 DEF Last, Front
<1>4. ASSUME NEW s \in Seq(Keys) PROVE Front(s) \in Seq(Keys)
  <2>1. Len(s) \in Nat /\ \A i \in 1 .. Len(s) - 1 : s[i] \in Keys
    BY LenProperties, ElementOfSeq
  <2>2. 1 \in Int /\ Len(s) - 1 \in Int
    BY <2>1
  <2>3. SubSeq(s, 1, Len(s) - 1) \in Seq(Keys)
    BY ONLY <2>1, <2>2, SubSeqProperties
  <2> QED
    BY <2>3 DEF Front
<1>5. \A s \in Seq(Keys), k \in Keys \cup {NoKey} :
        s \o Under(k) \in Seq(Keys) /\ Front(s) \o Under(k) \in Seq(Keys)
  BY <1>1, <1>4, ConcatProperties
<1> QED
  BY <1>1, <1>2, <1>3, <1>5 DEF Under

(* The transactions are what their type says; <<>> is no configuration. *)
LEMMA TransitionType ==
  ASSUME SecretTypes, NEW d \in Keys \cup {NoKey}, NEW seen \in SUBSET HaveSecrets,
         Transitions(d, seen)
  PROVE  transition' \in Transaction
<1>1. ASSUME NEW a \in Accounts
      PROVE  (IF a \in seen THEN Reencrypted(secret[a], d) ELSE secret[a])
                 \in Seq(Keys) \cup {NoSecret}
  <2>1. secret[a] \in Seq(Keys) \cup {NoSecret} /\ current \in Keys \cup {NoKey}
    BY DEF SecretTypes
  <2>2. a \in seen => secret[a] \in Seq(Keys)
    BY <2>1 DEF HaveSecrets
  <2> QED
    BY <2>1, <2>2, CipherTexts DEF Reencrypted
<1>2. current \in Keys \cup {NoKey}
  BY DEF SecretTypes
<1> QED
  BY <1>1, <1>2 DEF Transitions, Transaction

(* A decryptable set of secrets ends up under the new key. *)
LEMMA TransitionSecrets ==
  ASSUME SecretTypes, "secrets" \notin misread, OneKey, Mismatch(digest),
         \A a \in HaveSecrets : Decryptable(secret[a], digest),
         NEW a \in Accounts
  PROVE  (IF a \in HaveSecrets THEN Reencrypted(secret[a], digest) ELSE secret[a])
            \in {NoSecret, Under(current)}
<1>1. digest \in Keys \cup {NoKey} /\ current \in Keys \cup {NoKey}
  BY DEF SecretTypes
<1>2. CASE a \notin HaveSecrets
  BY <1>2 DEF HaveSecrets
<1>3. CASE a \in HaveSecrets
  <2>1. secret[a] = Under(digest)
    BY <1>3 DEF OneKey, HaveSecrets
  <2>2. Reencrypted(secret[a], digest) = Under(current)
    BY <1>1, <2>1, CipherTexts DEF Reencrypted
  <2> QED
    BY <1>3, <2>2
<1> QED
  BY <1>2, <1>3

-----------------------------------------------------------------------------
(* The first start finds what its configuration can read. *)
LEMMA InitSecrets == SecretInit => SecretInv
<1> SUFFICES ASSUME SecretInit PROVE SecretInv
  OBVIOUS
<1>1. /\ digest \in Keys \cup {NoKey} /\ current = digest /\ old = NoKey
      /\ secret \in [Accounts -> {NoSecret, Under(digest)}]
      /\ state = "NOT_LOADED_YET" /\ value = NoKey /\ transition = NoTransaction
      /\ announced = <<>> /\ misread = {} /\ losses = 0
  BY DEF SecretInit, Unloaded
<1>2. Under(digest) \in Seq(Keys)
  BY <1>1, CipherTexts
<1>3. SecretTypes
  BY <1>1, <1>2, SecretAssumption DEF SecretTypes, SecretAssumption
<1>4. OneKey
  BY <1>1 DEF OneKey
<1> QED
  BY <1>1, <1>3, <1>4
     DEF SecretInv, Pending, Queued, KeyInUse, Unloaded, IsLoaded, Feasible, RestartSucceeds

(* The operator changes the file while nothing is loaded. *)
LEMMA ConfigureKeepsSecrets ==
  ASSUME SecretInv, Unloaded, NEW c \in Keys \cup {NoKey}, NEW o \in Keys \cup {NoKey},
         Configure(c, o)
  PROVE  SecretInv'
<1>1. /\ UNCHANGED <<secret, digest, state, value, transition, announced, misread, losses>>
      /\ current' = c /\ old' = o
      /\ state = "NOT_LOADED_YET" /\ value = NoKey /\ transition = NoTransaction
  BY DEF Configure, stored, loaded, Unloaded
<1>2. HaveSecrets' = HaveSecrets
  BY <1>1 DEF HaveSecrets
<1>3. SecretTypes'
  BY <1>1 DEF SecretInv, SecretTypes
<1>4. OneKey' /\ Feasible'
  BY <1>1, <1>2 DEF SecretInv, OneKey, Feasible
<1>5. Pending' /\ KeyInUse' /\ RestartSucceeds'
  BY <1>1 DEF Pending, Queued, KeyInUse, Unloaded, IsLoaded, RestartSucceeds
<1> QED
  BY <1>3, <1>4, <1>5 DEF SecretInv

(* The base file drops the accounts and the digest with the other tables. *)
LEMMA RebaseKeepsSecrets ==
  ASSUME SecretInv, Unloaded, secret' = [a \in Accounts |-> NoSecret], digest' = NoKey,
         UNCHANGED <<config, loaded, announced, misread, losses>>
  PROVE  SecretInv'
<1>1. /\ UNCHANGED <<current, old, state, value, transition, announced, misread, losses>>
      /\ state = "NOT_LOADED_YET" /\ value = NoKey /\ transition = NoTransaction
  BY DEF config, loaded, Unloaded
<1>2. SecretTypes'
  BY <1>1 DEF SecretInv, SecretTypes
<1>3. OneKey'
  BY DEF OneKey
<1>4. Feasible'
  BY DEF Feasible
<1>5. Pending' /\ KeyInUse' /\ RestartSucceeds'
  BY <1>1 DEF Pending, Queued, KeyInUse, Unloaded, IsLoaded, RestartSucceeds
<1> QED
  BY <1>2, <1>3, <1>4, <1>5 DEF SecretInv

(* When the process ends, what it had loaded and queued is gone. *)
LEMMA EndKeepsSecrets ==
  ASSUME SecretInv, state' = "NOT_LOADED_YET", value' = NoKey, transition' = NoTransaction,
         UNCHANGED <<stored, config, announced, misread, losses>>
  PROVE  SecretInv'
<1>1. UNCHANGED <<secret, digest, current, old, announced, misread, losses>>
  BY DEF stored, config
<1>2. HaveSecrets' = HaveSecrets
  BY <1>1 DEF HaveSecrets
<1>3. SecretTypes'
  BY <1>1 DEF SecretInv, SecretTypes
<1>4. OneKey' /\ Feasible'
  BY <1>1, <1>2 DEF SecretInv, OneKey, Feasible
<1>5. Pending' /\ KeyInUse' /\ RestartSucceeds'
  BY <1>1 DEF Pending, Queued, KeyInUse, Unloaded, IsLoaded, RestartSucceeds
<1> QED
  BY <1>3, <1>4, <1>5 DEF SecretInv

(* A start that fails has not been announced before. *)
LEMMA FailureIsNew ==
  ASSUME SecretInv, OldValueInvalid \/ CannotDecrypt
  PROVE  SecretInv'
<1>1. /\ UNCHANGED <<secret, digest, current, old, value, transition, announced, misread, losses>>
      /\ state = "NOT_LOADED_YET" /\ state' = "LOAD_FAILED" /\ transition = NoTransaction
      /\ digest # current
  BY DEF OldValueInvalid, CannotDecrypt, LoadFails, NoLoss, stored, config, Mismatch, NotLoaded,
         SecretInv, KeyInUse, Unloaded
<1>2. HaveSecrets' = HaveSecrets
  BY <1>1 DEF HaveSecrets
<1>3. SecretTypes'
  BY <1>1 DEF SecretInv, SecretTypes
<1>4. OneKey' /\ Feasible'
  BY <1>1, <1>2 DEF SecretInv, OneKey, Feasible
<1>5. Pending' /\ KeyInUse'
  BY <1>1 DEF Pending, Queued, KeyInUse, Unloaded, IsLoaded
<1>6. RestartSucceeds'
  <2> SUFFICES ASSUME announced = config, misread = {} PROVE FALSE
    BY <1>1 DEF RestartSucceeds, config
  <2>1. announced # <<>> /\ announced[1] = current /\ announced[2] = old
    BY DEF config
  <2>2. \/ digest \in {NoKey, old}
        \/ old = NoKey /\ HaveSecrets = {}
    BY <1>1, <2>1 DEF SecretInv, Feasible
  <2>3. CASE OldValueInvalid
    BY <1>1, <2>2, <2>3 DEF OldValueInvalid, OldKeyWrong
  <2>4. CASE CannotDecrypt
    <3>1. PICK a \in HaveSecrets : ~Decryptable(secret[a], digest)
      BY <2>4 DEF CannotDecrypt
    <3>2. digest # NoKey /\ digest = old /\ digest \in Keys
      BY <2>2, <3>1 DEF Decryptable, SecretInv, SecretTypes
    <3>3. secret[a] = Under(digest)
      BY <3>1 DEF SecretInv, OneKey, HaveSecrets
    <3> QED
      BY <3>1, <3>2, <3>3, CipherTexts DEF Decryptable, OldSecret
  <2> QED
    BY <2>3, <2>4
<1> QED
  BY <1>3, <1>4, <1>5, <1>6 DEF SecretInv

(* The key is loaded as it is, or its transition handed over. *)
LEMMA LoadKeepsSecrets ==
  ASSUME SecretInv, AttemptLoad
  PROVE  SecretInv'
<1>0. ASSUME Loads, UNCHANGED <<stored, config>>, NotLoaded
      PROVE  /\ UNCHANGED <<secret, digest, current, old>> /\ HaveSecrets' = HaveSecrets
             /\ IsLoaded' /\ value' = current /\ announced' = config /\ announced' = config'
             /\ announced' # <<>> /\ announced'[1] = current /\ announced'[2] = old
             /\ state' # "LOAD_FAILED" /\ state' # "NOT_LOADED_YET"
             /\ (state' = "NOT_PRESENT" <=> current = NoKey)
             /\ announced' \in (Keys \cup {NoKey}) \X (Keys \cup {NoKey})
             /\ transition = NoTransaction
  <2>1. UNCHANGED <<secret, digest, current, old>> /\ transition = NoTransaction
    BY <1>0 DEF stored, config, NotLoaded, SecretInv, KeyInUse, Unloaded
  <2>2. current \in Keys \cup {NoKey} /\ old \in Keys \cup {NoKey}
    BY DEF SecretInv, SecretTypes
  <2> QED
    BY <1>0, <2>1, <2>2 DEF Loads, IsLoaded, config, HaveSecrets
<1>1. CASE Verified
  <2>1. /\ Loads /\ NotLoaded /\ digest = current /\ UNCHANGED <<stored, config>>
        /\ transition' = transition /\ misread' = misread /\ losses' = losses
    BY <1>1 DEF Verified, NoLoss
  <2>2. SecretTypes'
    BY <1>0, <2>1 DEF SecretInv, SecretTypes, IsLoaded
  <2>3. OneKey' /\ Feasible' /\ RestartSucceeds'
    BY <1>0, <2>1 DEF SecretInv, OneKey, Feasible, RestartSucceeds
  <2>4. Pending' /\ KeyInUse'
    BY <1>0, <2>1 DEF Pending, Queued, KeyInUse, config
  <2> QED
    BY <2>2, <2>3, <2>4 DEF SecretInv
<1>2. CASE OldValueInvalid \/ CannotDecrypt
  BY <1>2, FailureIsNew
<1>3. ASSUME NEW d \in Keys \cup {NoKey}, NEW seen \in SUBSET HaveSecrets, NotLoaded,
             Transitions(d, seen), misread' \in SUBSET {"digest", "secrets"}, losses' \in 0 .. MaxLosses,
             misread \subseteq misread'
      PROVE  /\ SecretTypes' /\ OneKey' /\ RestartSucceeds' /\ IsLoaded'
             /\ transition' \in Transaction /\ transition' \notin {NoTransaction, RolledBack}
             /\ transition'.digest = current' /\ transition'.deletes = (d # NoKey)
             /\ KeyInUse' /\ UNCHANGED <<secret, digest, current, old>>
             /\ transition'.secret = [a \in Accounts |-> IF a \in seen THEN Reencrypted(secret[a], d)
                                                                       ELSE secret[a]]
             /\ announced' # <<>> /\ announced'[1] = current /\ announced'[2] = old
             /\ HaveSecrets' = HaveSecrets
  <2>1. Loads /\ UNCHANGED <<stored, config>>
    BY <1>3 DEF Transitions
  <2>2. transition' \in Transaction /\ transition' \notin {NoTransaction, RolledBack}
    BY <1>3, TransitionType, SecretAssumption DEF SecretInv, SecretAssumption
  <2>3. transition' = [secret |-> [a \in Accounts |-> IF a \in seen THEN Reencrypted(secret[a], d)
                                                                    ELSE secret[a]],
                       deletes |-> d # NoKey, digest |-> current]
    BY <1>3 DEF Transitions
  <2>4. SecretTypes'
    BY <1>0, <1>3, <2>1, <2>2 DEF SecretInv, SecretTypes, IsLoaded
  <2>5. OneKey' /\ RestartSucceeds'
    BY <1>0, <1>3, <2>1 DEF SecretInv, OneKey, RestartSucceeds
  <2>6. KeyInUse'
    BY <1>0, <1>3, <2>1, <2>2 DEF KeyInUse, config
  <2> QED
    BY <1>0, <1>3, <2>1, <2>2, <2>3, <2>4, <2>5, <2>6
<1>4. CASE AttemptTransition
  <2>1. /\ NotLoaded /\ digest # current /\ Transitions(digest, HaveSecrets) /\ UNCHANGED <<misread, losses>>
        /\ digest \in Keys \cup {NoKey} /\ current \in Keys \cup {NoKey} /\ old \in Keys \cup {NoKey}
        /\ misread \in SUBSET {"digest", "secrets"} /\ losses \in 0 .. MaxLosses
        /\ Mismatch(digest) /\ ~OldKeyWrong(digest)
        /\ \A a \in HaveSecrets : Decryptable(secret[a], digest)
    BY <1>4 DEF AttemptTransition, Mismatch, NoLoss, SecretInv, SecretTypes
  <2>2. /\ SecretTypes' /\ OneKey' /\ RestartSucceeds' /\ IsLoaded' /\ KeyInUse'
        /\ transition'.digest = current' /\ transition'.deletes = (digest # NoKey)
        /\ transition'.secret = [a \in Accounts |-> IF a \in HaveSecrets THEN Reencrypted(secret[a], digest)
                                                                         ELSE secret[a]]
        /\ UNCHANGED <<secret, digest, current, old>>
        /\ announced' # <<>> /\ announced'[1] = current /\ announced'[2] = old
        /\ HaveSecrets' = HaveSecrets
    BY <1>3, <2>1
  <2>3. After' = current
    BY <2>1, <2>2 DEF After
  <2>4. "secrets" \notin misread => \A a \in Accounts : transition'.secret[a] \in {NoSecret, Under(After)'}
    <3> SUFFICES ASSUME "secrets" \notin misread, NEW a \in Accounts
                 PROVE  transition'.secret[a] \in {NoSecret, Under(current)}
      BY <2>3 DEF Under
    <3> QED
      BY <2>1, <2>2, TransitionSecrets DEF SecretInv
  <2>5. ~Conflicts' /\ (transition'.deletes \/ transition'.digest # NoKey)
    BY <2>1, <2>2 DEF Conflicts
  <2>6. Pending'
    BY <2>1, <2>2, <2>4, <2>5 DEF Pending
  <2>7. Feasible'
    <3>1. \/ digest \in {NoKey, current, old}
          \/ old = NoKey /\ HaveSecrets = {}
      BY <2>1 DEF OldKeyWrong, Decryptable, OldSecret
    <3> QED
      BY <2>2, <3>1 DEF Feasible
  <2> QED
    BY <2>2, <2>6, <2>7 DEF SecretInv
<1>5. CASE DigestUnread
  <2>1. /\ NotLoaded /\ digest # NoKey /\ losses' \in 0 .. MaxLosses
        /\ misread' = misread \cup {"digest"} /\ misread' \in SUBSET {"digest", "secrets"}
        /\ digest \in Keys \cup {NoKey} /\ NoKey \in Keys \cup {NoKey}
    BY <1>5, SecretAssumption DEF DigestUnread, Loss, SecretInv, SecretTypes, SecretAssumption
  <2>2. CASE current = NoKey
    <3>1. Loads /\ UNCHANGED <<stored, config>> /\ transition' = transition
      BY <1>5, <2>2 DEF DigestUnread
    <3>2. SecretTypes'
      BY <1>0, <2>1, <3>1 DEF SecretInv, SecretTypes, IsLoaded
    <3>3. OneKey' /\ Feasible' /\ RestartSucceeds'
      BY <1>0, <2>1, <3>1 DEF SecretInv, OneKey, Feasible, RestartSucceeds
    <3>4. Pending' /\ KeyInUse'
      BY <1>0, <2>1, <3>1 DEF Pending, Queued, KeyInUse, config
    <3> QED
      BY <3>2, <3>3, <3>4 DEF SecretInv
  <2>3. CASE current # NoKey
    <3>1. Transitions(NoKey, HaveSecrets)
      BY <1>5, <2>3 DEF DigestUnread
    <3>2. /\ SecretTypes' /\ OneKey' /\ RestartSucceeds' /\ IsLoaded' /\ KeyInUse'
          /\ transition'.digest = current' /\ transition'.deletes = FALSE
          /\ UNCHANGED <<secret, digest, current, old>>
      BY <1>3, <2>1, <3>1
    <3>3. Conflicts'
      BY <2>1, <2>3, <3>2 DEF Conflicts
    <3>4. Pending' /\ Feasible'
      BY <2>1, <3>2, <3>3 DEF Pending, Feasible
    <3> QED
      BY <3>2, <3>4 DEF SecretInv
  <2> QED
    BY <2>2, <2>3
<1>6. CASE SecretsUnread
  <2>1. /\ NotLoaded /\ Transitions(digest, {}) /\ losses' \in 0 .. MaxLosses
        /\ misread' = misread \cup {"secrets"} /\ misread' \in SUBSET {"digest", "secrets"}
        /\ digest \in Keys \cup {NoKey}
    BY <1>6, SecretAssumption DEF SecretsUnread, Mismatch, Loss, SecretInv, SecretTypes, SecretAssumption
  <2>2. /\ SecretTypes' /\ OneKey' /\ RestartSucceeds' /\ IsLoaded' /\ KeyInUse'
        /\ transition'.digest = current'
    BY <1>3, <2>1
  <2>3. Pending' /\ Feasible'
    BY <2>1, <2>2 DEF Pending, Feasible
  <2> QED
    BY <2>2, <2>3 DEF SecretInv
<1> QED
  BY <1>1, <1>2, <1>4, <1>5, <1>6 DEF AttemptLoad

(* The transaction takes effect as a whole, or not at all. *)
LEMMA WorkerKeepsSecrets ==
  ASSUME SecretInv, Commit \/ RollBack
  PROVE  SecretInv'
<1>0. /\ Queued /\ transition \in Transaction /\ IsLoaded
      /\ UNCHANGED <<current, old, state, value, announced, misread>>
      /\ transition.digest = current /\ value = current /\ announced = config
      /\ announced' = config' /\ announced' # <<>> /\ announced'[1] = current
      /\ current \in Keys \cup {NoKey}
  <2>1. Queued
    BY DEF Commit, RollBack
  <2>2. transition \in Transaction
    BY <2>1 DEF Queued, SecretInv, SecretTypes
  <2>3. UNCHANGED <<current, old, state, value, announced, misread>>
    BY DEF Commit, RollBack, config
  <2>4. IsLoaded /\ transition.digest = current /\ value = current /\ announced = config
    BY <2>1 DEF SecretInv, Pending, KeyInUse
  <2> QED
    BY <2>1, <2>2, <2>3, <2>4 DEF config, SecretInv, SecretTypes
<1>1. CASE Commit
  <2>1. /\ secret' = transition.secret /\ digest' = After /\ transition' = NoTransaction
        /\ ~Conflicts /\ losses' = losses
    BY <1>1 DEF Commit, After
  <2>2. secret' \in [Accounts -> Seq(Keys) \cup {NoSecret}]
    BY <1>0, <2>1 DEF Transaction
  <2>3. digest' \in Keys \cup {NoKey}
    BY <1>0, <2>1 DEF After, SecretInv, SecretTypes
  <2>4. SecretTypes'
    BY <1>0, <2>1, <2>2, <2>3 DEF SecretInv, SecretTypes
  <2>5. OneKey'
    <3> SUFFICES ASSUME "secrets" \notin misread, NEW a \in Accounts
                 PROVE  transition.secret[a] \in {NoSecret, Under(After)}
      BY <1>0, <2>1 DEF OneKey, Under
    <3> QED
      BY <1>0, <2>1 DEF SecretInv, Pending
  <2>6. misread = {} => digest' = current
    BY <1>0, <2>1 DEF SecretInv, Pending, After
  <2>7. Feasible' /\ RestartSucceeds'
    BY <1>0, <2>1, <2>6 DEF Feasible, RestartSucceeds, IsLoaded
  <2>8. Pending' /\ KeyInUse'
    BY <1>0, <2>1, <2>6 DEF Pending, Queued, SecretInv, KeyInUse, IsLoaded
  <2> QED
    BY <2>4, <2>5, <2>7, <2>8 DEF SecretInv
<1>2. CASE RollBack
  <2>1. /\ transition' = RolledBack /\ UNCHANGED <<secret, digest>> /\ losses' \in 0 .. MaxLosses
        /\ RolledBack # NoTransaction
    BY <1>2, SecretAssumption DEF RollBack, Loss, stored, SecretInv, SecretTypes, SecretAssumption
  <2>2. HaveSecrets' = HaveSecrets
    BY <2>1 DEF HaveSecrets
  <2>3. SecretTypes'
    BY <1>0, <2>1 DEF SecretInv, SecretTypes
  <2>4. OneKey' /\ Feasible' /\ RestartSucceeds'
    BY <1>0, <2>1, <2>2 DEF SecretInv, OneKey, Feasible, RestartSucceeds, IsLoaded
  <2>5. Pending' /\ KeyInUse'
    BY <1>0, <2>1 DEF Pending, Queued, SecretInv, KeyInUse, IsLoaded
  <2> QED
    BY <2>3, <2>4, <2>5 DEF SecretInv
<1> QED
  BY <1>1, <1>2

(* Every other step leaves the secrets and what is known of them alone. *)
LEMMA SecretsFrame ==
  ASSUME SecretInv, UNCHANGED secretVars
  PROVE  SecretInv'
<1>1. UNCHANGED <<secret, digest, current, old, state, value, transition, announced, misread, losses>>
  BY DEF secretVars, stored, config, loaded
<1>2. HaveSecrets' = HaveSecrets /\ Conflicts' = Conflicts /\ After' = After /\ Queued' = Queued
  BY <1>1 DEF HaveSecrets, Conflicts, After, Queued
<1>3. SecretTypes' /\ OneKey'
  BY <1>1 DEF SecretInv, SecretTypes, OneKey
<1>4. Feasible' /\ RestartSucceeds'
  BY <1>1, <1>2 DEF SecretInv, Feasible, RestartSucceeds, config
<1>5. Pending' /\ KeyInUse'
  BY <1>1, <1>2 DEF SecretInv, Pending, KeyInUse, Unloaded, IsLoaded, config, Under
<1> QED
  BY <1>3, <1>4, <1>5 DEF SecretInv

(* Whatever happens to the server, its secrets stay usable. *)
LEMMA NextKeepsSecrets ==
  ASSUME Where, SecretInv, [Next]_vars
  PROVE  SecretInv'
<1>1. CASE Operator
  <2>1. CASE UNCHANGED secretVars
    BY <2>1, SecretsFrame
  <2>2. CASE \E c, o \in Keys \cup {NoKey} : Configure(c, o)
    <3>1. Unloaded
      BY <1>1 DEF Operator, Where
    <3> QED
      BY <2>2, <3>1, ConfigureKeepsSecrets
  <2> QED
    BY <1>1, <2>1, <2>2 DEF Operator
<1>2. CASE Start
  BY <1>2, SecretsFrame DEF Start
<1>3. CASE StartDB
  <2>1. CASE Process /\ UNCHANGED secretVars
    BY <2>1, SecretsFrame
  <2>2. CASE /\ AppliesBase /\ secret' = [a \in Accounts |-> NoSecret] /\ digest' = NoKey
             /\ UNCHANGED <<config, loaded, announced, misread, losses>>
    <3>1. phase = "populate"
      BY <2>2 DEF AppliesBase, Populate, TablesUnread, At
    <3>2. Unloaded
      BY <3>1 DEF Where
    <3> QED
      BY <2>2, <3>2, RebaseKeepsSecrets
  <2> QED
    BY <1>3, <2>1, <2>2 DEF StartDB
<1>4. CASE Initialize
  BY <1>4, LoadKeepsSecrets DEF Initialize
<1>5. CASE Worker
  BY <1>5, WorkerKeepsSecrets DEF Worker
<1>6. CASE GivesUp \/ Crash
  BY <1>6, EndKeepsSecrets DEF GivesUp, Crash, Ends
<1>7. CASE UNCHANGED vars
  BY <1>7, SecretsFrame DEF vars
<1> QED
  BY <1>1, <1>2, <1>3, <1>4, <1>5, <1>6, <1>7 DEF Next

-----------------------------------------------------------------------------
(* Each step is taken in the phase it belongs to. *)
LEMMA NextKeepsWhere ==
  ASSUME Where, [Next]_vars
  PROVE  Where'
<1>1. CASE UNCHANGED <<process, phase, closures, closers, pool, state, value, transition, pc>>
  BY <1>1 DEF Where, Unstarted, Unloaded
<1>2. CASE Operator
  <2>1. UNCHANGED <<process, phase, closures, closers, pool, state, value, transition, pc>>
    BY <1>2 DEF Operator, Edit, Configure, secretVars, loaded, loaderVars
  <2> QED
    BY <1>1, <2>1
<1>3. CASE Start
  BY <1>3 DEF Where, Start, Load, Unloaded, secretVars, loaded, fetcherVars
<1>4. CASE StartDB
  <2>1. process = "starting" /\ process' = process /\ UNCHANGED <<state, value, transition>>
    BY <1>4 DEF StartDB, secretVars, loaded
  <2>2. ASSUME phase' # "idle", phase' = "loaded" => phase \in {"loaded", "prepare"},
               phase = "loaded" => phase' = "loaded",
               pc' # "out" => phase' = "update" /\ closures' # <<>>
        PROVE  Where'
    BY <2>1, <2>2 DEF Where, Unloaded
  <2>3. phase # "idle" /\ (pc # "out" => phase = "update" /\ closures # <<>>)
    BY <2>1 DEF Where
  <2>4. CASE AppliesBase
    BY <2>2, <2>3, <2>4 DEF AppliesBase, Populate, TablesUnread, At, Succeeds, Rebased
  <2>5. CASE NextQueue
    BY <2>2, <2>3, <2>5 DEF NextQueue, Follows, fetcherVars
  <2>6. CASE CloseNext
    BY <2>2, <2>3, <2>6 DEF CloseNext, fetcherVars
  <2>7. ASSUME NEW p, OpenPool(p) \/ OpenFails(p) \/ CreateDatabase(p) \/ Populated(p) \/ PopulateFails(p)
                      \/ Prepare(p)
        PROVE  Where'
    BY <2>2, <2>3, <2>7 DEF OpenPool, OpenFails, CreateDatabase, Populated, PopulateFails, Prepare,
       At, Opens, Succeeds, Fails, fetcherVars
  <2>8. ASSUME NEW p, Update(p) \/ UpdateNothing(p) PROVE Where'
    BY <2>2, <2>3, <2>8 DEF Update, UpdateNothing, At, loaderVars
  <2>9. ASSUME NEW p, UpdateReturns(p) \/ UpdateFails(p) PROVE Where'
    BY <2>2, <2>3, <2>9 DEF UpdateReturns, UpdateFails, At, Succeeds, Fails, Leave
  <2> QED
    BY <1>4, <2>4, <2>5, <2>6, <2>7, <2>8, <2>9 DEF StartDB, Process
<1>5. CASE Initialize
  BY <1>5 DEF Initialize, Where, startupVars, loaderVars, fetcherVars
<1>6. CASE Worker
  <2>1. transition # NoTransaction
    BY <1>6 DEF Worker, Commit, RollBack, Queued
  <2>2. phase = "loaded"
    BY <2>1 DEF Where, Unloaded
  <2> QED
    BY <1>6, <2>2 DEF Where, Worker, startupVars, loaderVars, fetcherVars
<1>7. CASE GivesUp \/ Crash
  BY <1>7 DEF GivesUp, Crash, Ends, Where, Unstarted, Unloaded, Leave
<1>8. CASE UNCHANGED vars
  BY <1>1, <1>8 DEF vars, startupVars, loaderVars, fetcherVars, secretVars, loaded
<1> QED
  BY <1>2, <1>3, <1>4, <1>5, <1>6, <1>7, <1>8 DEF Next

-----------------------------------------------------------------------------
(* The pools, and what MySQL has of the database.                            *)
HasTables == database = "partial" \/ (database = "full" /\ BaseContents \subseteq imported)

(* In the first queue the pools to open are those without a close operation; *)
(* from the second on every pool has one.                                    *)
PoolsInv ==
  /\ phase \in {"idle", "open", "populate", "update", "prepare", "loaded", "failing", "failed"}
  /\ closures \in Seq(ToSet(Pools)) /\ closers \in Seq(ToSet(Pools))
  /\ pool \in [ToSet(Pools) -> {"closed", "half", "open"}]
  /\ OpenedIsClosed
  /\ phase = "open" => /\ IsInjective(closures) /\ ToSet(closures) \cap ToSet(closers) = {}
                       /\ ToSet(closures) \cup ToSet(closers) = ToSet(Pools)
  /\ phase \in {"populate", "update", "prepare", "loaded"} => ToSet(closers) = ToSet(Pools)
  /\ phase \in {"populate", "update"} => closures \in {<<>>, <<Updatable>>}

(* The queue "populate" is only left with tables in the database. *)
DatabaseInv ==
  /\ database \in {"absent", "empty", "partial", "full"}
  /\ database = "full" => BaseContents \subseteq imported
  /\ phase \in {"update", "prepare", "loaded"} \/ (phase = "populate" /\ closures = <<>>) => HasTables

LoaderInv == PoolsInv /\ DatabaseInv

(* No pool is open at first. *)
LEMMA InitLoader == Init => LoaderInv
<1> SUFFICES ASSUME Init PROVE LoaderInv
  OBVIOUS
<1>1. /\ phase = "idle" /\ closures = <<>> /\ closers = <<>> /\ ToSet(<<>>) = {}
      /\ <<>> \in Seq(ToSet(Pools)) /\ pool = [p \in ToSet(Pools) |-> "closed"]
      /\ database \in {"absent", "full"} /\ (database = "full" => imported = BaseContents)
  BY EmptySeq DEF Init, LoaderInit, Unstarted, ToSet
<1>2. OpenedIsClosed
  BY <1>1 DEF OpenedIsClosed, IsInjective
<1> QED
  BY <1>1, <1>2 DEF LoaderInv, PoolsInv, DatabaseInv

(* Steps that leave the loader alone. *)
LEMMA LoaderFrame ==
  ASSUME LoaderInv, UNCHANGED <<loaderVars, database>>, imported \subseteq imported'
  PROVE  LoaderInv'
<1>1. UNCHANGED <<phase, closures, pool, closers, database>>
  BY DEF loaderVars
<1>2. PoolsInv'
  BY <1>1 DEF LoaderInv, PoolsInv, OpenedIsClosed
<1>3. DatabaseInv'
  BY <1>1 DEF LoaderInv, DatabaseInv, HasTables, BaseContents
<1> QED
  BY <1>2, <1>3 DEF LoaderInv

(* The pools behind the closures that are still to run. *)
LEMMA NextPool ==
  ASSUME PoolsInv, NEW ph, NEW p, At(ph, p)
  PROVE  /\ p \in ToSet(Pools) /\ closures \in Seq(ToSet(Pools)) /\ Tail(closures) \in Seq(ToSet(Pools))
         /\ p \in ToSet(closures)
         /\ ToSet(closures) = {p} \cup ToSet(Tail(closures))
         /\ IsInjective(closures) => IsInjective(Tail(closures)) /\ p \notin ToSet(Tail(closures))
         /\ closures = <<Updatable>> => Tail(closures) = <<>> /\ p = Updatable
<1>1. closures \in Seq(ToSet(Pools)) /\ closures # <<>> /\ p = Head(closures)
  BY DEF PoolsInv, At
<1>2. /\ p \in ToSet(Pools) /\ Tail(closures) \in Seq(ToSet(Pools)) /\ p \in ToSet(closures)
      /\ ToSet(closures) = {p} \cup ToSet(Tail(closures))
      /\ IsInjective(closures) => IsInjective(Tail(closures)) /\ p \notin ToSet(Tail(closures))
  BY <1>1, HeadTailElements
<1>3. closures = <<Updatable>> => Tail(closures) = <<>> /\ p = Updatable
  <2>1. Len(<<Updatable>>) = 1 /\ Head(<<Updatable>>) = Updatable
    OBVIOUS
  <2>2. closures = <<Updatable>> => Len(Tail(closures)) = 0
    BY <1>1, <2>1, HeadTailProperties
  <2> QED
    BY <1>1, <1>2, <2>1, <2>2, EmptySeq
<1> QED
  BY <1>1, <1>2, <1>3

(* Only the base file takes contents out of the database. *)
LEMMA UpdateKeepsImports ==
  ASSUME UpdateStep \/ (\E h \in {{}} : Begins(h, EmptyTable))
  PROVE  imported \subseteq imported'
BY DEF UpdateStep, Begin, IncludesUnread, AppliedUnread, DuplicateName, Begins, Throws, Skip, Unreadable,
       Unchanged, DeleteTarget, RenameEntry, Rehash, ApplyFile, ApplyFails, UpdateEntry, CleanUp, durable

(* A pool that has been opened gets its close operation. *)
LEMMA OpensKeepsPools ==
  ASSUME PoolsInv, NEW p, At("open", p), Opens(p)
  PROVE  PoolsInv' /\ phase' = "open"
<1>1. /\ p \in ToSet(Pools) /\ closures' = Tail(closures) /\ Tail(closures) \in Seq(ToSet(Pools))
      /\ p \in ToSet(closures) /\ ToSet(closures) = {p} \cup ToSet(closures')
      /\ IsInjective(closures) /\ IsInjective(closures') /\ p \notin ToSet(closures')
      /\ phase = "open" /\ phase' = "open"
  BY NextPool DEF PoolsInv, At, Opens, Succeeds
<1>2. /\ pool' = [pool EXCEPT ![p] = "open"] /\ closers' = <<p>> \o closers
      /\ p \notin ToSet(closers) /\ closers \in Seq(ToSet(Pools)) /\ IsInjective(closers)
  BY <1>1 DEF Opens, PoolsInv, OpenedIsClosed
<1>3. closers' \in Seq(ToSet(Pools)) /\ ToSet(closers') = {p} \cup ToSet(closers) /\ IsInjective(closers')
  BY <1>1, <1>2, FrontElement
<1>4. pool' \in [ToSet(Pools) -> {"closed", "half", "open"}]
  BY <1>2 DEF PoolsInv
<1>5. OpenedIsClosed'
  BY <1>1, <1>2, <1>3 DEF PoolsInv, OpenedIsClosed
<1>6. ToSet(closures') \cap ToSet(closers') = {} /\ ToSet(closures') \cup ToSet(closers') = ToSet(Pools)
  BY <1>1, <1>3 DEF PoolsInv
<1> QED
  BY <1>1, <1>3, <1>4, <1>5, <1>6 DEF PoolsInv

(* Processing a queue keeps account of the pools. *)
LEMMA ProcessKeepsLoader ==
  ASSUME LoaderInv, Load \/ NextQueue \/ CloseNext, phase = "idle" => Unstarted
  PROVE  LoaderInv'
<1> USE DEF LoaderInv
<1>0. /\ Pools \in Seq(ToSet(Pools)) /\ IsInjective(Pools) /\ Updatable \in ToSet(Pools)
      /\ <<>> \in Seq(ToSet(Pools)) /\ ToSet(<<>>) = {} /\ <<Updatable>> \in Seq(ToSet(Pools))
      /\ Pools # <<>>
  BY LoaderAssumption, EmptySeq DEF LoaderAssumption, ToSet
<1>1. UNCHANGED <<database, imported>> /\ BaseContents' = BaseContents
  BY DEF Load, NextQueue, CloseNext, fetcherVars, durable, BaseContents
<1>2. CASE Load
  <2>1. /\ phase' = "open" /\ closures' = Pools /\ closers = <<>> /\ UNCHANGED <<pool, closers>>
        /\ phase = "idle"
    BY <1>2 DEF Load, Unstarted
  <2>2. PoolsInv'
    BY <1>0, <2>1 DEF PoolsInv, OpenedIsClosed
  <2> QED
    BY <1>1, <2>1, <2>2 DEF DatabaseInv
<1>3. CASE NextQueue
  <2>1. /\ closures = <<>> /\ UNCHANGED <<pool, closers>>
        /\ \/ phase = "open" /\ phase' = "populate" /\ closures' = <<Updatable>>
           \/ phase = "populate" /\ phase' = "update" /\ closures' = <<Updatable>>
           \/ phase = "update" /\ phase' = "prepare" /\ closures' = Pools
           \/ phase = "prepare" /\ phase' = "loaded" /\ closures' = <<>>
    BY <1>3 DEF NextQueue, Follows, Closures
  <2>2. PoolsInv'
    <3>1. OpenedIsClosed'
      BY <2>1 DEF PoolsInv, OpenedIsClosed
    <3>2. ToSet(closers) = ToSet(Pools)
      BY <1>0, <2>1 DEF PoolsInv
    <3> QED
      BY <1>0, <2>1, <3>1, <3>2 DEF PoolsInv
  <2>3. DatabaseInv'
    BY <1>0, <1>1, <2>1 DEF DatabaseInv, HasTables
  <2> QED
    BY <2>2, <2>3
<1>4. CASE CloseNext
  <2>1. phase = "failing" /\ phase' \in {"failing", "failed"} /\ UNCHANGED closures
    BY <1>4 DEF CloseNext
  <2>2. DatabaseInv'
    BY <1>1, <2>1 DEF DatabaseInv
  <2>3. CASE closers = <<>>
    <3>1. UNCHANGED <<pool, closers>>
      BY <1>4, <2>3 DEF CloseNext
    <3> QED
      BY <2>1, <2>2, <2>3, <3>1 DEF PoolsInv, OpenedIsClosed
  <2>4. CASE closers # <<>>
    <3>1. pool' = [pool EXCEPT ![Head(closers)] = "closed"] /\ closers' = Tail(closers) /\ phase' = phase
      BY <1>4, <2>4 DEF CloseNext
    <3>2. closers \in Seq(ToSet(Pools)) /\ IsInjective(closers)
      BY DEF PoolsInv, OpenedIsClosed
    <3>3. /\ closers' \in Seq(ToSet(Pools)) /\ ToSet(closers) = {Head(closers)} \cup ToSet(closers')
          /\ IsInjective(closers') /\ Head(closers) \notin ToSet(closers') /\ Head(closers) \in ToSet(Pools)
      BY <2>4, <3>1, <3>2, HeadTailElements
    <3>4. OpenedIsClosed'
      BY <2>1, <3>1, <3>3 DEF PoolsInv, OpenedIsClosed
    <3> QED
      BY <2>1, <2>2, <3>1, <3>3, <3>4 DEF PoolsInv
  <2> QED
    BY <2>3, <2>4
<1> QED
  BY <1>2, <1>3, <1>4

(* So does each closure of a queue. *)
LEMMA ClosureKeepsLoader ==
  ASSUME LoaderInv, NEW p \in ToSet(Pools),
         \/ OpenPool(p) \/ OpenFails(p) \/ CreateDatabase(p)
         \/ Populated(p) \/ PopulateFails(p) \/ Populate(p) \/ TablesUnread(p)
         \/ UpdateReturns(p) \/ UpdateFails(p) \/ Prepare(p)
  PROVE  LoaderInv'
<1> USE DEF LoaderInv
<1>0. BaseContents' = BaseContents
  BY DEF BaseContents
<1>1. ASSUME NEW ph, At(ph, p), Succeeds, UNCHANGED <<pool, closers>>, phase # "open" PROVE PoolsInv'
  <2>1. closures' = Tail(closures) /\ phase' = phase
    BY <1>1 DEF Succeeds
  <2>2. closures' \in Seq(ToSet(Pools)) /\ (closures = <<Updatable>> => closures' = <<>>) /\ closures # <<>>
    BY <1>1, <2>1, NextPool DEF At
  <2> QED
    BY <1>1, <2>1, <2>2 DEF PoolsInv, OpenedIsClosed
<1>2. ASSUME Fails, UNCHANGED <<pool, closers>> PROVE PoolsInv'
  BY <1>2 DEF Fails, PoolsInv, OpenedIsClosed
<1>3. CASE OpenPool(p)
  BY <1>0, <1>3, OpensKeepsPools DEF OpenPool, DatabaseInv, fetcherVars, durable
<1>4. CASE OpenFails(p)
  <2>1. /\ At("open", p) /\ phase = "open" /\ phase' = "failing" /\ UNCHANGED <<closures, closers, database, imported>>
        /\ pool' \in {[pool EXCEPT ![p] = "closed"], [pool EXCEPT ![p] = "half"]}
    BY <1>4 DEF OpenFails, At, Fails, fetcherVars, durable
  <2>2. pool[p] # "open"
    BY <2>1, NextPool DEF PoolsInv, OpenedIsClosed
  <2>3. OpenedIsClosed'
    BY <2>1, <2>2 DEF PoolsInv, OpenedIsClosed
  <2> QED
    BY <1>0, <2>1, <2>3 DEF PoolsInv, DatabaseInv
<1>5. CASE CreateDatabase(p)
  <2>1. At("open", p) /\ phase = "open" /\ database' = "empty" /\ imported' = imported
    BY <1>5 DEF CreateDatabase, At, fetcherVars, durable
  <2>2. CASE Opens(p)
    BY <2>1, <2>2, OpensKeepsPools DEF DatabaseInv
  <2>3. CASE pool' = [pool EXCEPT ![p] = "half"] /\ Fails /\ UNCHANGED closers
    <3>1. pool[p] # "open"
      BY <2>1, NextPool DEF PoolsInv, OpenedIsClosed
    <3>2. OpenedIsClosed'
      BY <2>3, <3>1 DEF PoolsInv, OpenedIsClosed, Fails
    <3> QED
      BY <2>1, <2>3, <3>2 DEF PoolsInv, DatabaseInv, Fails
  <2> QED
    BY <1>5, <2>2, <2>3 DEF CreateDatabase
<1>6. CASE Populated(p)
  <2>1. PoolsInv'
    BY <1>1, <1>6 DEF Populated, At
  <2>2. DatabaseInv'
    BY <1>0, <1>6 DEF Populated, At, Succeeds, DatabaseInv, HasTables, fetcherVars, durable
  <2> QED
    BY <2>1, <2>2
<1>7. CASE PopulateFails(p)
  BY <1>0, <1>2, <1>7 DEF PopulateFails, Fails, DatabaseInv, fetcherVars, durable
<1>8. CASE Populate(p) \/ TablesUnread(p)
  <2>1. PoolsInv'
    BY <1>1, <1>8 DEF Populate, TablesUnread, At
  <2>2. DatabaseInv'
    BY <1>0, <1>8 DEF Populate, TablesUnread, Rebased, DatabaseInv, HasTables
  <2> QED
    BY <2>1, <2>2
<1>9. CASE UpdateReturns(p)
  <2>1. PoolsInv'
    BY <1>1, <1>9 DEF UpdateReturns, At
  <2>2. DatabaseInv'
    BY <1>0, <1>9 DEF UpdateReturns, At, Succeeds, DatabaseInv, HasTables, durable
  <2> QED
    BY <2>1, <2>2
<1>10. CASE UpdateFails(p)
  BY <1>0, <1>2, <1>10 DEF UpdateFails, Fails, DatabaseInv, durable
<1>11. CASE Prepare(p)
  <2>1. PoolsInv'
    BY <1>1, <1>2, <1>11 DEF Prepare, At
  <2>2. DatabaseInv'
    BY <1>0, <1>11 DEF Prepare, At, Succeeds, Fails, DatabaseInv, HasTables, fetcherVars, durable
  <2> QED
    BY <2>1, <2>2
<1> QED
  BY <1>3, <1>4, <1>5, <1>6, <1>7, <1>8, <1>9, <1>10, <1>11

(* The pools are closed, or their process is gone. *)
LEMMA NextKeepsLoader ==
  ASSUME Where, LoaderInv, [Next]_vars
  PROVE  LoaderInv'
<1>1. CASE Operator \/ Initialize \/ Worker \/ UNCHANGED vars
  BY <1>1, LoaderFrame DEF Operator, Initialize, Worker, Edit, vars, startupVars, fetcherVars, durable
<1>2. CASE Start
  BY <1>2, ProcessKeepsLoader DEF Start, Where
<1>3. CASE StartDB
  <2>1. CASE NextQueue \/ CloseNext
    BY <2>1, ProcessKeepsLoader DEF Where
  <2>2. ASSUME NEW p \in ToSet(Pools), Update(p) \/ UpdateNothing(p) PROVE LoaderInv'
    BY <2>2, UpdateKeepsImports, LoaderFrame DEF Update, UpdateNothing, UpdateStep
  <2> QED
    BY <1>3, <2>1, <2>2, ClosureKeepsLoader DEF StartDB, Process, AppliesBase
<1>4. CASE GivesUp \/ Crash
  <2>1. /\ phase' = "idle" /\ closures' = <<>> /\ closers' = <<>> /\ UNCHANGED <<database, imported>>
        /\ pool' = [p \in ToSet(Pools) |-> "closed"]
    BY <1>4 DEF GivesUp, Crash, Ends, durable
  <2>2. <<>> \in Seq(ToSet(Pools)) /\ ToSet(<<>>) = {} /\ IsInjective(<<>>)
    BY EmptySeq DEF ToSet, IsInjective
  <2>3. PoolsInv'
    BY <2>1, <2>2 DEF PoolsInv, OpenedIsClosed
  <2>4. DatabaseInv'
    BY <2>1 DEF LoaderInv, DatabaseInv, BaseContents
  <2> QED
    BY <2>3, <2>4 DEF LoaderInv
<1> QED
  BY <1>1, <1>2, <1>3, <1>4 DEF Next

-----------------------------------------------------------------------------
(* The update within its start.                                              *)

(* The entries of the base file. *)
LEMMA BaseTable ==
  /\ BaseRows \in Tables /\ DOMAIN BaseRows = NamesOf(Base) /\ NamesOf(Base) \subseteq Names
  /\ \A n \in NamesOf(Base) : BaseRows[n] \in Entries /\ BaseRows[n].hash \in BaseContents
  /\ BaseContents \subseteq Contents
<1>1. ASSUME NEW n \in NamesOf(Base)
      PROVE  (CHOOSE g \in Base : g.name = n) \in Base
  BY <1>1 DEF NamesOf
<1>2. \A f \in Base : f \in Files /\ f.name \in Names /\ f.content \in Contents /\ f.state \in States
  BY DEF LoaderAssumption, Files
<1>3. ASSUME NEW n \in NamesOf(Base)
      PROVE  BaseRows[n] \in Entries /\ BaseRows[n].hash \in BaseContents
  <2> DEFINE f == CHOOSE g \in Base : g.name = n
  <2>1. f \in Base
    BY <1>1
  <2>2. BaseRows[n] = [hash |-> f.content, state |-> f.state]
    BY DEF BaseRows
  <2> HIDE DEF f
  <2> QED
    BY <1>2, <2>1, <2>2 DEF Entries, BaseContents
<1>4. DOMAIN BaseRows = NamesOf(Base) /\ NamesOf(Base) \subseteq Names
  BY <1>2 DEF BaseRows, NamesOf
<1>5. BaseRows \in [NamesOf(Base) -> Entries]
  <2>1. BaseRows = [n \in NamesOf(Base) |-> BaseRows[n]]
    BY DEF BaseRows
  <2> HIDE DEF BaseRows
  <2> QED
    BY <1>3, <2>1
<1>6. BaseRows \in Tables
  BY <1>4, <1>5, TableShape
<1>7. BaseContents \subseteq Contents
  BY <1>2 DEF BaseContents
<1> QED
  BY <1>3, <1>4, <1>6, <1>7

(* A table from before there were hashes, or with an entry of a file that is  *)
(* gone, tells nothing that is not so.                                       *)
LEMMA InitFetcher == Init => FetcherInv
<1> SUFFICES ASSUME Init PROVE FetcherInv
  OBVIOUS
<1>1. /\ disk = Base /\ vouched = {} /\ pc = "out" /\ available = {} /\ applied = EmptyTable
      /\ hashToName = EmptyTable /\ todo = {} /\ trust = "no" /\ edits = 0 /\ faults = 0
      /\ IF database = "full" THEN rows \in OlderTables /\ imported = BaseContents
                              ELSE rows = EmptyTable /\ imported = {}
  BY DEF Init, LoaderInit
<1>2. rows \in Tables /\ imported \subseteq Contents
      /\ \A n \in DOMAIN rows : rows[n].hash \in imported \cup {NoHash}
  <2>1. CASE rows = EmptyTable /\ imported = {}
    BY <2>1, EmptyEntries
  <2>2. CASE rows = BaseRows /\ imported = BaseContents
    BY <2>2, BaseTable
  <2>3. CASE rows = [n \in NamesOf(Base) |-> [BaseRows[n] EXCEPT !.hash = NoHash]] /\ imported = BaseContents
    <3>1. \A n \in NamesOf(Base) : /\ [BaseRows[n] EXCEPT !.hash = NoHash] \in Entries
                                   /\ [BaseRows[n] EXCEPT !.hash = NoHash].hash = NoHash
      BY BaseTable DEF Entries
    <3>2. rows \in [NamesOf(Base) -> Entries] /\ \A n \in DOMAIN rows : rows[n].hash = NoHash
      BY <2>3, <3>1
    <3>3. rows \in Tables
      BY <3>2, BaseTable, TableShape
    <3> QED
      BY <2>3, <3>2, <3>3, BaseTable
  <2>4. ASSUME imported = BaseContents, NEW n \in Names, NEW m \in NamesOf(Base),
               rows = With(BaseRows, n, BaseRows[m])
        PROVE  rows \in Tables /\ \A k \in DOMAIN rows : rows[k].hash \in imported
    <3>1. BaseRows \in Tables /\ BaseRows[m] \in Entries
      BY BaseTable
    <3>2. /\ rows \in Tables
          /\ \A k : k \in DOMAIN rows <=> k \in DOMAIN BaseRows \/ k = n
          /\ rows[n] = BaseRows[m]
          /\ \A k \in DOMAIN BaseRows : k # n => rows[k] = BaseRows[k]
      BY ONLY <2>4, <3>1, WithEntry
    <3> QED
      BY <2>4, <3>2, BaseTable
  <2> QED
    BY <1>1, <2>1, <2>2, <2>3, <2>4, BaseTable DEF OlderTables
<1>3. FetcherTypes
  <2>1. EmptyTable \in [{} -> Names] /\ DOMAIN EmptyTable = {}
    BY DEF EmptyTable
  <2>2. hashToName \in UNION {[H -> Names] : H \in SUBSET (Contents \cup {NoHash})}
    BY <1>1, <2>1
  <2>3. disk \subseteq Files /\ edits \in 0 .. MaxEdits /\ faults \in 0 .. MaxFaults
    BY <1>1 DEF LoaderAssumption, FetcherAssumption
  <2> QED
    BY <1>1, <1>2, <2>2, <2>3, EmptyEntries DEF FetcherTypes
<1>4. AtRest /\ AnswerIsKnown
  BY <1>1, <1>2, EmptyEntries DEF AtRest, AnswerIsKnown, RecordedWasApplied, Ready
<1> QED
  BY <1>1, <1>3, <1>4 DEF FetcherInv, CleanLoop, SchemaSoFar, TableSoFar, Clean

(* What is not relied upon need not hold. *)
LEMMA Untrusted ==
  ASSUME FetcherTypes', AtRest', AnswerIsKnown', trust' = "no"
  PROVE  FetcherInv'
BY DEF FetcherInv, CleanLoop, SchemaSoFar, TableSoFar, Clean

(* The rest of the server does not reach into the update. *)
LEMMA FetcherFrame ==
  ASSUME FetcherInv, UNCHANGED <<durable, pc, locals, trust, faults>>, edits' \in 0 .. MaxEdits,
         database = "full" => database' = "full"
  PROVE  FetcherInv'
<1>1. UNCHANGED <<disk, rows, imported, vouched, available, applied, hashToName, todo, pc, trust, faults>>
  BY DEF durable, locals
<1>2. FetcherTypes'
  BY <1>1 DEF FetcherInv, FetcherTypes
<1>3. File' = File
  BY <1>1 DEF File
<1>4. Renamed' = Renamed /\ Ready' = Ready /\ Visits' = Visits /\ InLoop' = InLoop /\ Clean' = Clean
  BY <1>1, <1>3 DEF Renamed, Known, NamesOf, Ready, Visits, InLoop, Clean
<1>5. AtRest' /\ AnswerIsKnown'
  BY <1>1, <1>3, <1>4 DEF FetcherInv, AtRest, AnswerIsKnown, RecordedWasApplied
<1>6. CleanLoop'
  BY <1>1, <1>3, <1>4 DEF FetcherInv, CleanLoop, Distinct, NamesOf
<1>7. SchemaSoFar'
  BY <1>1, <1>4 DEF FetcherInv, SchemaSoFar, ArchivedInBoth
<1>8. TableSoFar'
  BY <1>1, <1>4 DEF FetcherInv, TableSoFar, NoCopies, NamesOf, ArchivedInBoth, OrphansKept
<1> QED
  BY <1>2, <1>5, <1>6, <1>7, <1>8 DEF FetcherInv

(* Update is left with the table as it has made it. *)
LEMMA LeaveKeepsFetcher ==
  ASSUME FetcherInv, Leave, UNCHANGED <<durable, edits, faults, database>>,
         trust' \in {"no", trust}, trust' # "sound"
  PROVE  FetcherInv'
<1>1. /\ UNCHANGED <<disk, rows, imported, vouched, edits, faults, database>>
      /\ pc' = "out" /\ available' = {} /\ applied' = EmptyTable /\ hashToName' = EmptyTable /\ todo' = {}
  BY DEF Leave, Forget, durable
<1>2. FetcherTypes'
  <2>1. EmptyTable \in [{} -> Names] /\ EmptyTable \in Tables
    BY EmptyEntries DEF EmptyTable
  <2>2. hashToName' \in UNION {[H -> Names] : H \in SUBSET (Contents \cup {NoHash})}
    BY <1>1, <2>1
  <2> QED
    BY <1>1, <2>1, <2>2 DEF FetcherInv, FetcherTypes
<1>3. AtRest' /\ AnswerIsKnown'
  BY <1>1, EmptyEntries DEF FetcherInv, AtRest, AnswerIsKnown, RecordedWasApplied, Ready
<1>4. CASE trust' = "no"
  BY <1>2, <1>3, <1>4, Untrusted
<1>5. CASE trust' = "settled" /\ trust = "settled"
  <2>1. Visits' = Visits /\ Clean /\ Clean' /\ ~InLoop' /\ Ready' = Ready
    BY <1>1, <1>5 DEF Visits, Clean, InLoop, Ready
  <2>2. CleanLoop'
    BY <1>1, <1>5, <2>1 DEF FetcherInv, CleanLoop, Distinct
  <2>3. SchemaSoFar'
    BY <1>1, <2>1 DEF FetcherInv, SchemaSoFar, ArchivedInBoth
  <2>4. TableSoFar'
    BY <1>1, <1>5, <2>1 DEF FetcherInv, TableSoFar, NoCopies, NamesOf, ArchivedInBoth, OrphansKept
  <2> QED
    BY <1>2, <1>3, <2>2, <2>3, <2>4 DEF FetcherInv
<1> QED
  BY <1>4, <1>5 DEF FetcherInv, FetcherTypes

(* The base file starts the account anew. *)
LEMMA RebaseKeepsFetcher ==
  ASSUME FetcherInv, pc = "out", Rebased, (NoFault /\ trust = "no") \/ Fault
  PROVE  FetcherInv'
<1>1. /\ rows' = BaseRows /\ imported' = BaseContents /\ vouched' = {}
      /\ UNCHANGED <<disk, pc, available, applied, hashToName, todo, edits>>
  BY DEF Rebased, locals
<1>2. trust' = "no" /\ faults' \in 0 .. MaxFaults
  BY FaultCounts DEF NoFault, FetcherInv, FetcherTypes
<1>3. FetcherTypes'
  BY <1>1, <1>2, BaseTable DEF FetcherInv, FetcherTypes
<1>4. AtRest' /\ AnswerIsKnown'
  BY <1>1, BaseTable, EmptyEntries DEF FetcherInv, AtRest, AnswerIsKnown, RecordedWasApplied, Ready
<1> QED
  BY <1>2, <1>3, <1>4, Untrusted

(* The update is started, left, cut short and started again. *)
LEMMA NextKeepsFetcher ==
  ASSUME Where, FetcherInv, [Next]_vars
  PROVE  FetcherInv'
<1>0. edits \in 0 .. MaxEdits /\ faults \in 0 .. MaxFaults /\ trust \in {"no", "sound", "settled"}
  BY DEF FetcherInv, FetcherTypes
<1>1. CASE UNCHANGED <<database, fetcherVars>>
  BY <1>0, <1>1, FetcherFrame DEF fetcherVars
<1>2. CASE Operator
  <2>1. ASSUME NEW F \in AtMostOne(disk), NEW G \in AtMostOne(Files), Edit(F, G)
        PROVE  FetcherInv'
    <3>1. /\ pc = "out" /\ disk' = (disk \ F) \cup G /\ edits' = edits + 1 /\ edits < MaxEdits /\ trust' = "no"
          /\ UNCHANGED <<rows, imported, vouched, pc, available, applied, hashToName, todo, faults>>
      BY <2>1 DEF Edit, locals
    <3>2. disk' \subseteq Files
      BY <3>1 DEF AtMostOne, FetcherInv, FetcherTypes
    <3>3. edits' \in 0 .. MaxEdits
      BY <1>0, <3>1 DEF FetcherAssumption
    <3>4. FetcherTypes'
      BY <3>1, <3>2, <3>3 DEF FetcherInv, FetcherTypes
    <3>5. AtRest' /\ AnswerIsKnown'
      BY <3>1, EmptyEntries DEF FetcherInv, AtRest, AnswerIsKnown, RecordedWasApplied, Ready
    <3> QED
      BY <3>1, <3>4, <3>5, Untrusted
  <2>2. CASE edits < MaxEdits /\ edits' = edits + 1 /\ UNCHANGED <<durable, pc, locals, trust, faults, database>>
    <3>1. edits' \in 0 .. MaxEdits
      BY <1>0, <2>2 DEF FetcherAssumption
    <3> QED
      BY <2>2, <3>1, FetcherFrame
  <2> QED
    BY <1>2, <2>1, <2>2 DEF Operator
<1>3. CASE Start \/ Initialize \/ Worker \/ UNCHANGED vars
  BY <1>1, <1>3 DEF Start, Load, Initialize, Worker, vars, startupVars
<1>4. CASE StartDB
  <2>1. CASE AppliesBase
    <3>1. PICK p \in ToSet(Pools) : Populate(p) \/ TablesUnread(p)
      BY <2>1 DEF AppliesBase
    <3>2. pc = "out" /\ Rebased
      BY <3>1 DEF Where, Populate, TablesUnread, At
    <3>3. (NoFault /\ trust = "no") \/ Fault
      BY <3>1 DEF Populate, TablesUnread, FetcherInv, CleanLoop, Clean
    <3> QED
      BY <3>2, <3>3, RebaseKeepsFetcher
  <2>2. CASE NextQueue \/ CloseNext
    BY <1>1, <2>2 DEF NextQueue, CloseNext
  <2>3. ASSUME NEW p \in ToSet(Pools),
               \/ OpenPool(p) \/ OpenFails(p) \/ CreateDatabase(p)
               \/ Populated(p) \/ PopulateFails(p) \/ Prepare(p)
        PROVE  FetcherInv'
    <3>1. UNCHANGED fetcherVars /\ (database = "full" => database' = "full")
      BY <2>3 DEF OpenPool, OpenFails, CreateDatabase, Populated, PopulateFails, Prepare
    <3> QED
      BY <1>0, <3>1, FetcherFrame DEF fetcherVars
  <2>4. ASSUME NEW p \in ToSet(Pools), Update(p) PROVE FetcherInv'
    <3>1. UpdateStep /\ database = "full" /\ database' = database
      BY <2>4 DEF Update
    <3>2. FetcherTypes' /\ AtRest' /\ AnswerIsKnown'
      BY <3>1, StepKnowing DEF FetcherInv
    <3>3. trust' = "no" => FetcherInv'
      BY <3>2, Untrusted
    <3>4. trust' # "no" => CleanLoop' /\ SchemaSoFar' /\ TableSoFar'
      BY <3>1, StepClean
    <3> QED
      BY <3>2, <3>3, <3>4 DEF FetcherInv
  <2>5. ASSUME NEW p \in ToSet(Pools), UpdateNothing(p) PROVE FetcherInv'
    <3>1. trust = "no"
      BY <2>5 DEF UpdateNothing, FetcherInv, CleanLoop, Clean
    <3>2. CASE Begins({}, EmptyTable) /\ UNCHANGED <<faults, trust>>
      <4>1. FetcherTypes' /\ AtRest' /\ AnswerIsKnown'
        BY <1>0, <3>2, BeginsKnowing, EmptyEntries DEF FetcherInv
      <4> QED
        BY <3>1, <3>2, <4>1, Untrusted
    <3>3. CASE CleanUp
      <4>1. FetcherTypes' /\ AtRest' /\ AnswerIsKnown'
        BY <3>3, StepKnowing DEF FetcherInv, UpdateStep
      <4>2. trust' = "no"
        BY <3>1, <3>3 DEF CleanUp, Fault
      <4> QED
        BY <4>1, <4>2, Untrusted
    <3> QED
      BY <2>5, <3>2, <3>3 DEF UpdateNothing
  <2>6. ASSUME NEW p \in ToSet(Pools), UpdateReturns(p) \/ UpdateFails(p) PROVE FetcherInv'
    <3>1. Leave /\ UNCHANGED <<durable, edits, faults, database, trust>> /\ pc \in {"returned", "out", "thrown"}
      BY <2>6 DEF UpdateReturns, UpdateFails
    <3>2. trust # "sound"
      BY <3>1 DEF FetcherInv, CleanLoop, InLoop
    <3> QED
      BY <3>1, <3>2, LeaveKeepsFetcher
  <2> QED
    BY <1>4, <2>1, <2>2, <2>3, <2>4, <2>5, <2>6 DEF StartDB, Process
<1>5. CASE GivesUp \/ Crash
  <2>1. /\ Leave /\ UNCHANGED <<durable, edits, faults, database>>
        /\ trust' = (IF trust = "sound" THEN "no" ELSE trust)
    BY <1>5 DEF GivesUp, Crash, Ends
  <2> QED
    BY <2>1, LeaveKeepsFetcher
<1> QED
  BY <1>2, <1>3, <1>4, <1>5 DEF Next

-----------------------------------------------------------------------------
(* The theorems *)

IInv == Where /\ SecretInv /\ LoaderInv /\ FetcherInv

LEMMA InductiveInvariant == Spec => []IInv
<1>1. Init => IInv
  <2> SUFFICES ASSUME Init PROVE IInv
    OBVIOUS
  <2>1. Where
    BY DEF Init, Where, LoaderInit, SecretInit, Unstarted
  <2> QED
    BY <2>1, InitSecrets, InitLoader, InitFetcher DEF IInv, Init
<1>2. IInv /\ [Next]_vars => IInv'
  BY NextKeepsWhere, NextKeepsSecrets, NextKeepsLoader, NextKeepsFetcher DEF IInv
<1> QED
  BY <1>1, <1>2, PTL DEF Spec

(* Every variable keeps its type. *)
THEOREM TypeCorrect == Spec => []TypeOK
<1>1. IInv => TypeOK
  BY DEF IInv, TypeOK, Where, SecretInv, LoaderInv, PoolsInv, DatabaseInv, LoaderTypes, FetcherInv
<1> QED
  BY <1>1, InductiveInvariant, PTL

(* Whatever keys are configured, and however often the server crashes before, *)
(* during or after the change of a key, each stored secret is under the key   *)
(* of the digest, and a server that runs can decrypt it.                      *)
THEOREM KeysMatchSecrets == Spec => []SecretsReadable
<1>1. ASSUME IInv PROVE LogonsDecrypt
  <2> SUFFICES ASSUME IsLoaded, transition = NoTransaction, misread = {}, NEW a \in HaveSecrets
               PROVE  Decrypts(secret[a])
    BY DEF LogonsDecrypt, IsLoaded
  <2>1. secret[a] = Under(digest) /\ digest = value
    BY <1>1 DEF IInv, SecretInv, OneKey, HaveSecrets, KeyInUse
  <2>2. value \in Keys \cup {NoKey} /\ (state = "PRESENT" => value # NoKey)
        /\ (state # "PRESENT" => value = NoKey)
    BY <1>1 DEF IInv, SecretInv, SecretTypes, KeyInUse, IsLoaded
  <2> QED
    BY <2>1, <2>2, CipherTexts DEF Decrypts
<1>2. IInv => SecretsReadable
  BY <1>1 DEF SecretsReadable, IInv, SecretInv
<1> QED
  BY <1>2, InductiveInvariant, PTL

(* A configuration with which one start has succeeded is not refused by a     *)
(* later one, also when the first ended before its transaction was executed.  *)
THEOREM AnnouncedStartsSucceed == Spec => []RestartSucceeds
<1>1. IInv => RestartSucceeds
  BY DEF IInv, SecretInv
<1> QED
  BY <1>1, InductiveInvariant, PTL

(* Load leaves every pool it has opened open and its database with its        *)
(* tables, or closes them all, in whichever closure it fails.                 *)
THEOREM AllPoolsOrNone == Spec => []LoadIsAllOrNothing
<1>1. IInv => LoadIsAllOrNothing
  <2> SUFFICES ASSUME IInv PROVE LoadIsAllOrNothing
    OBVIOUS
  <2>1. OpenedIsClosed
    BY DEF IInv, LoaderInv, PoolsInv
  <2>2. ASSUME phase = "loaded" \/ pc # "out" PROVE phase \in {"update", "loaded"}
    BY <2>2 DEF IInv, Where
  <2>3. phase \in {"update", "loaded"} => ToSet(closers) = ToSet(Pools) /\ HasTables
    BY DEF IInv, LoaderInv, PoolsInv, DatabaseInv
  <2>4. LoadedIsReady
    BY <2>1, <2>2, <2>3 DEF LoadedIsReady, OpenedIsClosed, HasTables
  <2> QED
    BY <2>1, <2>4 DEF LoadIsAllOrNothing
<1> QED
  BY <1>1, InductiveInvariant, PTL

(* After an update without fault the content of every file has reached the    *)
(* database, whatever earlier updates met.                                    *)
THEOREM EveryFileApplied == Spec => []SchemaIsComplete
<1>1. IInv => SchemaIsComplete
  BY DEF IInv, FetcherInv, SchemaSoFar, SchemaIsComplete, Clean, Visits, Ready
<1> QED
  BY <1>1, InductiveInvariant, PTL

(* An entry of the table never tells of an update the database was not given, *)
(* after an update without fault there is one for every file and none too     *)
(* many, and the next update repeats nothing.                                 *)
THEOREM TableMatchesDatabase == Spec => []TableIsExact
<1>1. IInv => TableIsExact
  <2> SUFFICES ASSUME IInv PROVE TableIsExact
    OBVIOUS
  <2>1. RecordedWasApplied
    BY DEF IInv, FetcherInv, AnswerIsKnown
  <2>2. TableIsAccurate
    BY DEF IInv, FetcherInv, TableSoFar, TableIsAccurate, Clean, Visits, OrphansKept
  <2>3. NothingIsRepeated
    BY DEF IInv, FetcherInv, TableSoFar, NothingIsRepeated, Clean
  <2> QED
    BY <2>1, <2>2, <2>3 DEF TableIsExact
<1> QED
  BY <1>1, InductiveInvariant, PTL

(* A database that has its tables is not given the base file again, unless    *)
(* the query for its tables fails: the contents it has been given only grow.  *)
THEOREM NothingIsDropped == Spec => DataIsKept
<1>1. ASSUME IInv, [Next]_vars, database = "full", faults' = faults
      PROVE  imported \subseteq imported'
  <2>1. faults \in Nat
    BY <1>1 DEF IInv, FetcherInv, FetcherTypes
  <2>2. CASE UNCHANGED durable
    BY <2>2 DEF durable
  <2>3. ASSUME NEW p \in ToSet(Pools), Populate(p) \/ TablesUnread(p) PROVE FALSE
    BY <1>1, <2>1, <2>3 DEF Populate, TablesUnread, Fault
  <2>4. ASSUME NEW p \in ToSet(Pools), Update(p) \/ UpdateNothing(p)
        PROVE  imported \subseteq imported'
    BY <2>4, UpdateKeepsImports DEF Update, UpdateNothing, UpdateStep
  <2>5. CASE StartDB
    <3>1. ASSUME NEW p \in ToSet(Pools),
                 \/ OpenPool(p) \/ OpenFails(p) \/ CreateDatabase(p) \/ Populated(p) \/ PopulateFails(p)
                 \/ UpdateReturns(p) \/ UpdateFails(p) \/ Prepare(p)
          PROVE  UNCHANGED durable
      BY <3>1 DEF OpenPool, OpenFails, CreateDatabase, Populated, PopulateFails, UpdateReturns,
                  UpdateFails, Prepare, fetcherVars
    <3>2. NextQueue \/ CloseNext => UNCHANGED durable
      BY DEF NextQueue, CloseNext, fetcherVars
    <3> QED
      BY <2>2, <2>3, <2>4, <2>5, <3>1, <3>2 DEF StartDB, Process, AppliesBase
  <2>6. CASE Operator
    BY <2>6 DEF Operator, Edit, durable
  <2>7. CASE Start \/ Initialize \/ Worker \/ GivesUp \/ Crash \/ UNCHANGED vars
    BY <2>2, <2>7 DEF Start, Load, Initialize, Worker, GivesUp, Crash, Ends, vars, startupVars, fetcherVars
  <2> QED
    BY <1>1, <2>5, <2>6, <2>7 DEF Next
<1>2. IInv /\ [Next]_vars
        => [database = "full" /\ faults' = faults => imported \subseteq imported']_startupVars
  BY <1>1
<1> QED
  BY <1>2, InductiveInvariant, PTL DEF Spec, DataIsKept
=============================================================================
