-------------------------- MODULE ClusterRefinement --------------------------
(***************************************************************************)
(* Cluster implements ReplicatedLog, as long as no process ends and one    *)
(* election timeout at most strikes.                                       *)
(***************************************************************************)
EXTENDS ClusterProperties

(* The requests in the first n entries of a log file. *)
Requests(file, n) == [p \in 1 .. n |-> FindEntry(file, p).content]

(* The node that knows of the most committed entries. *)
BestInformed == CHOOSE i \in Node : \A j \in Node : commitIndex[j] <= commitIndex[i]

Committed == Requests(log[BestInformed], commitIndex[BestInformed])
Storage   == [i \in Node |-> Requests(log[i], lastApplied[i])]

Abstract == INSTANCE ReplicatedLog WITH
  Request <- 1 .. MaxRequest, committed <- Committed, storage <- Storage

(* Every step of the cluster commits, flushes one request in order, starts a
   storage server over, or changes nothing a client could tell. *)
ImplementsReplicatedLog == Abstract!Spec
==============================================================================
