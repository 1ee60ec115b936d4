---------------------------- MODULE ReplicatedLog ----------------------------
(***************************************************************************)
(* What a cabinet cluster promises its clients, without leaders, terms or  *)
(* messages: the requests that are committed form one sequence that only   *)
(* grows and holds no request twice, and the storage servers of every node *)
(* are fed that sequence in order, from its beginning each time they have  *)
(* been lost.                                                              *)
(***************************************************************************)
EXTENDS Naturals, Sequences

CONSTANTS Node, Request

VARIABLES
  committed,   \* the requests the cluster has committed
  storage      \* storage[i]: the requests flushed to the servers of i

vars == <<committed, storage>>

Contents(sequence) == {sequence[p] : p \in DOMAIN sequence}

Init ==
  /\ committed = << >>
  /\ storage = [i \in Node |-> << >>]

(* One or several requests are committed, each for the first time. *)
Commit ==
  /\ Len(committed') > Len(committed)
  /\ committed = SubSeq(committed', 1, Len(committed))
  /\ Contents(committed') \subseteq Request
  /\ \A p, q \in DOMAIN committed' : committed'[p] = committed'[q] => p = q
  /\ UNCHANGED storage

Flush(i) ==
  /\ Len(storage[i]) < Len(committed)
  /\ storage' = [storage EXCEPT ![i] = Append(@, committed[Len(@) + 1])]
  /\ UNCHANGED committed

(* The connection to the servers of i is lost: flushing starts over. *)
StartOver(i) ==
  /\ storage' = [storage EXCEPT ![i] = << >>]
  /\ UNCHANGED committed

Next == Commit \/ \E i \in Node : Flush(i) \/ StartOver(i)

Spec == Init /\ [][Next]_vars
==============================================================================
