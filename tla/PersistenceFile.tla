--------------------------- MODULE PersistenceFile ---------------------------
(***************************************************************************)
(* The log file ("pf") of a node, as class PersistenceFile reads and       *)
(* rewrites it: a sequence of entries in file order.  Every query of the   *)
(* class scans the file from its beginning, so each operator is defined    *)
(* over positions.  The layout of an entry in the file is left out, and    *)
(* its content is the number of the client request it carries.             *)
(***************************************************************************)
EXTENDS Naturals, Sequences

Entry == [index: Nat, term: Nat, content: Nat]

(* Entry(): the value the caller keeps when a query finds nothing, and what
   a heartbeat carries. *)
NullEntry == [index |-> 0, term |-> 0, content |-> 0]

HasEntry(file, index) == \E p \in DOMAIN file : file[p].index = index

(* findEntry stops at the first entry with that index. *)
FirstPosition(file, index) ==
  CHOOSE p \in DOMAIN file :
    /\ file[p].index = index
    /\ \A q \in 1 .. p - 1 : file[q].index # index

FindEntry(file, index) ==
  IF HasEntry(file, index) THEN file[FirstPosition(file, index)] ELSE NullEntry

FindLastEntry(file) == IF file = << >> THEN NullEntry ELSE file[Len(file)]

(* deleteEntryAfter keeps what precedes the entry; it leaves the file alone
   when no entry has that index. *)
DeleteEntryAfter(file, index) ==
  IF HasEntry(file, index)
  THEN SubSeq(file, 1, FirstPosition(file, index) - 1)
  ELSE file

(* Not in the code: what its queries take for granted of a file.  The entry
   at position p has index p. *)
Dense(file) == \A p \in DOMAIN file : file[p].index = p
==============================================================================
