------------------------------ MODULE MCCluster ------------------------------
(***************************************************************************)
(* Instances of Cluster for model checking: who may time out, how often,   *)
(* and a later starting state.                                             *)
(***************************************************************************)
EXTENDS ClusterRefinement, ClusterElection, TLC

Timeouts(a, b, c) ==
  [i \in Node |-> CASE i = 1 -> a [] i = 2 -> b [] i = 3 -> c]
Timeouts100 == Timeouts(1, 0, 0)
Timeouts200 == Timeouts(2, 0, 0)
Timeouts110 == Timeouts(1, 1, 0)
Timeouts210 == Timeouts(2, 1, 0)
Timeouts3   == Timeouts(3, 0, 0)

(* The leaders of terms 2 and 3 have both been elected.  Node 1, which led
   term 2, has appended one entry, sent it to both siblings, and erased it at
   the request of node 2, which leads term 3.  Both siblings still have the
   entry to read; node 3 voted for node 1 and then for node 2.  State 13 of
   the shortest behaviour that violates NeverExitsEmptyLogCommit. *)
Entry1 == [type |-> "appendentry", term |-> 2, prevLogIndex |-> 0,
           prevLogTerm |-> 0, leaderCommit |-> 0,
           entry |-> [index |-> 1, term |-> 2, content |-> 1]]
Heartbeat3 == [type |-> "appendentry", term |-> 3, prevLogIndex |-> 0,
               prevLogTerm |-> 0, leaderCommit |-> 0, entry |-> NullEntry]
AfterTwoElections ==
  /\ proc = [i \in Node |-> "up"]
  /\ role = <<"F", "L", "F">>
  /\ currentTerm = <<3, 3, 3>>
  /\ votedFor = <<None, None, 2>>
  /\ receiveVotes = <<2, 2, 0>>
  /\ commitIndex = <<0, 0, 0>>
  /\ lastEntryIndex = <<1, 0, 0>>
  /\ lastApplied = <<0, 0, 0>>
  /\ log = [i \in Node |-> << >>]
  /\ pfGood = [i \in Node |-> TRUE]
  /\ leaderId = <<2, None, None>>
  /\ link = [i \in Node |-> [j \in Node |-> IF j = i THEN "none" ELSE "up"]]
  /\ nextIndex = [i \in Node |-> [j \in Node |-> IF j = i THEN 0 ELSE 1]]
  /\ matchIndex = [i \in Node |-> [j \in Node |-> 0]]
  /\ alreadyAppendEntry = [i \in Node |-> [j \in Node |-> i # 3 /\ j # i]]
  /\ emptyAppendEntry = [i \in Node |-> [j \in Node |-> i = 2 /\ j # i]]
  /\ childrenUp = [i \in Node |-> TRUE]
  /\ chan =
       << << << >>,
             <<Entry1, [type |-> "replyrequestvote", term |-> 3, success |-> FALSE],
               [type |-> "replyappendentry", term |-> 3, success |-> FALSE]>>,
             <<Entry1>> >>,
          << << >>, << >>, <<Heartbeat3>> >>,
          << <<[type |-> "replyrequestvote", term |-> 2, success |-> TRUE]>>,
             << >>, << >> >> >>
  /\ spent = [timeout |-> <<1, 1, 0>>, request |-> 1, crash |-> 0,
              deleteCrash |-> 0, restart |-> 0, reset |-> 0, childLoss |-> 0,
              diskFault |-> 0]

AfterTwoElectionsSpec == AfterTwoElections /\ [][Next]_vars
==============================================================================
