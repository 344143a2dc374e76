----------------------------- MODULE IPLocation -----------------------------
(***************************************************************************)
(* IpLocationStore: the address ranges of countries, read from a file when *)
(* the server starts, and searched at every logon for the country of the   *)
(* client's address.                                                       *)
(***************************************************************************)
EXTENDS Naturals, SequencesExt

CONSTANTS
  MaxAddress, (* addresses are 0 .. MaxAddress                               *)
  MaxLines,   (* bound: lines of the file                                    *)
  NotANumber  (* a field that StringTo<uint32> refuses                       *)

Addresses == 0 .. MaxAddress
Fields    == Addresses \cup {NotANumber}
Lines     == [IpFrom : Fields, IpTo : Fields]
Files     == UNION {[1 .. n -> Lines] : n \in 0 .. MaxLines}

ASSUME LocationAssumption ==
  MaxAddress \in Nat /\ MaxLines \in Nat /\ NotANumber \notin Addresses

VARIABLES
  file,   (* the lines of the file with all four fields                      *)
  unread, (* those the loop has still to read                                *)
  store,  (* _ipLocationStore                                                *)
  status

storeVars == <<file, unread, store, status>>

StoreInit == file = <<>> /\ unread = <<>> /\ store = <<>> /\ status = "empty"

-----------------------------------------------------------------------------
(* Load *)

Load(lines) ==
  /\ status = "empty"
  /\ file' = lines /\ unread' = lines
  /\ store' = <<>>
  /\ status' = "reading"

Numeric(line) == NotANumber \notin {line.IpFrom, line.IpTo}

ReadLine ==
  /\ status = "reading" /\ unread # <<>>
  /\ store' = IF Numeric(Head(unread)) THEN Append(store, Head(unread)) ELSE store
  /\ unread' = Tail(unread)
  /\ UNCHANGED <<file, status>>

(* std::sort keeps no order between records with the same IpFrom. *)
Sorted(s) == \A i \in 1 .. Len(s) - 1 : s[i].IpFrom <= s[i + 1].IpFrom
Sortings(s) == {t \in {[i \in DOMAIN s |-> s[f[i]]] : f \in
                         {g \in [DOMAIN s -> DOMAIN s] : IsInjective(g)}} : Sorted(t)}

(* Mutant: ranges are only compared where they begin. *)
OverlapsAtStart(s) == \E i \in 1 .. Len(s) - 1 : s[i + 1].IpFrom < s[i].IpFrom

(* std::is_sorted with a comparison of one record's IpFrom to another's IpTo. *)
Overlaps(s) == \E i \in 1 .. Len(s) - 1 : s[i + 1].IpFrom < s[i].IpTo

(* Overlapping ranges end the process. *)
Sort ==
  /\ status = "reading" /\ unread = <<>>
  /\ store' \in Sortings(store)
  /\ status' = IF Overlaps(store') THEN "aborted" ELSE "loaded"
  /\ UNCHANGED <<file, unread>>

StoreNext == (\E lines \in Files : Load(lines)) \/ ReadLine \/ Sort

-----------------------------------------------------------------------------
(* GetLocationRecord *)

None == 0

(* std::upper_bound halves the length that is left: the first record whose    *)
(* IpTo is above ip, or the one past the end.                                *)
UpperBound(ip) ==
  LET search[len \in 0 .. Len(store)] ==
        [first \in 1 .. Len(store) + 1 |->
           LET half == len \div 2 IN
           IF len = 0 THEN first
           ELSE IF ip < store[first + half].IpTo THEN search[half][first]
           ELSE search[len - half - 1][first + half + 1]]
  IN search[Len(store)][1]

GetLocationRecord(ip) ==
  LET i == UpperBound(ip) IN
  IF i > Len(store) \/ ip < store[i].IpFrom THEN None ELSE i

-----------------------------------------------------------------------------
(* Properties *)

StoreTypes ==
  /\ file \in Files /\ unread \in Files /\ store \in Files
  /\ status \in {"empty", "reading", "loaded", "aborted"}

(* When the file has been accepted, an address that some line covers is found  *)
(* with that line's record, and one that no line covers is not found, as long  *)
(* as every line's range is in order.  IpTo itself is not covered.            *)
Covers(line, ip) == line.IpFrom <= ip /\ ip < line.IpTo
InOrder(line) == Numeric(line) => line.IpFrom <= line.IpTo
LocationIsExact ==
  status = "loaded" /\ (\A i \in DOMAIN file : InOrder(file[i])) =>
    \A ip \in Addresses :
      LET found   == GetLocationRecord(ip)
          covering == {i \in DOMAIN file : Numeric(file[i]) /\ Covers(file[i], ip)}
      IN IF covering = {} THEN found = None
         ELSE found # None /\ \A i \in covering : file[i] = store[found]
=============================================================================
