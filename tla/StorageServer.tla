---------------------------- MODULE StorageServer ----------------------------
(***************************************************************************)
(* The data of a storage server: the map of class DataBase, the commands   *)
(* set, get and del, and what importPF() makes of a persistence file.      *)
(* Every value is a StringObj, so the checks of a value's type never fail. *)
(***************************************************************************)
EXTENDS SequencesExt

CONSTANTS Key, Value,
          Missing   \* getValue() finds no such key

ASSUME ValueAssumption == Missing \notin Value

(* A client command, as the entry of a log and as a line of the server's
   persistence file hold it. *)
Command == [op: {"set"}, key: Key, value: Value] \cup [op: {"get", "del"}, key: Key]

Data == [Key -> Value \cup {Missing}]

EmptyDataBase == [k \in Key |-> Missing]

(* The command objects of the server: SetCommand and DelCommand change the
   map, GetCommand does not. *)
Execute(db, command) ==
  CASE command.op = "set" -> [db EXCEPT ![command.key] = command.value]
    [] command.op = "del" -> [db EXCEPT ![command.key] = Missing]
    [] command.op = "get" -> db

(* Mutant: only set needs the persistence file. *)
NeedPFSetOnly(command) == command.op = "set"

NeedPF(command) == command.op \in {"set", "del"}

(* importPF() executes the file from its beginning on an empty map; flushing
   a log does the same with its entries. *)
Replay(commands) == FoldLeft(Execute, EmptyDataBase, commands)
==============================================================================
