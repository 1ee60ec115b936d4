---------------------------- MODULE ClusterElection ----------------------------
(***************************************************************************)
(* Cluster with one election timeout at most and log files that are never  *)
(* damaged: the inductive invariant behind what ClusterProperties claims   *)
(* of such a cluster.  Processes may be killed and started again, and      *)
(* connections may break, any number of times.                             *)
(***************************************************************************)
EXTENDS ClusterProperties

OnlyCandidate(c) == MaxTimeout[c] <= 1 /\ \A i \in Sibling(c) : MaxTimeout[i] = 0

SingleElection == \E c \in Node : OnlyCandidate(c)

(* The node whose election timeout may strike. *)
Candidate == CHOOSE c \in Node : OnlyCandidate(c)

(* The log files hold what was acknowledged, also after a crash. *)
SoundDisks == MaxDiskFault = 0 /\ MaxDeleteCrash = 0

-----------------------------------------------------------------------------
(* Queues. *)

OfType(q, type) == {q[n] : n \in {k \in DOMAIN q : q[k].type = type}}

AtMostOne(q, type) ==
  \A m, n \in DOMAIN q : q[m].type = type /\ q[n].type = type => m = n

(* No answer follows the end of the connection it was sent on. *)
AnswersFirst(q) ==
  \A m, n \in DOMAIN q : q[m].type = "replyappendentry" /\ IsEof(q[n]) => m < n

(* The append entries j has still to execute, and the answers of j. *)
Asks(j)    == OfType(chan[Candidate][j], "appendentry")
Answers(j) == OfType(chan[j][Candidate], "replyappendentry")

-----------------------------------------------------------------------------
(* In every state. *)

IsPrefixOf(file, whole) ==
  Len(file) <= Len(whole) /\ \A p \in DOMAIN file : file[p] = whole[p]

(* Only the candidate is ever anything but a follower. *)
RolesInv ==
  /\ \A i \in Node : spent.timeout[i] <= MaxTimeout[i]
  /\ \A i \in Node : role[i] # "F" => i = Candidate
  /\ role[Candidate] # "F" =>
       currentTerm[Candidate] >= 1 /\ spent.timeout[Candidate] >= 1

(* Every log file is a prefix of the candidate's. *)
FilesInv ==
  /\ \A i \in Node : pfGood[i] /\ IsPrefixOf(log[i], log[Candidate])
  /\ \A p \in DOMAIN log[Candidate] : log[Candidate][p].term >= 1

AppliedInv ==
  \A i \in Node : lastApplied[i] <= commitIndex[i] /\ commitIndex[i] <= Len(log[i])

(* An append entry on its way to j repeats a part of the candidate's file, and
   cuts nothing from the file of j that j believes to be committed. *)
Repeats(m, file) ==
  /\ m.prevLogIndex <= Len(file)
  /\ m.prevLogIndex >= 1 => m.prevLogTerm = file[m.prevLogIndex].term
  /\ IF m.entry.index = 0 THEN m.leaderCommit <= m.prevLogIndex
     ELSE /\ m.prevLogIndex < Len(file)
          /\ m.entry = file[m.prevLogIndex + 1]

AsksInv ==
  /\ \A i \in Sibling(Candidate), j \in Node : OfType(chan[i][j], "appendentry") = {}
  /\ \A j \in Sibling(Candidate) :
       /\ AtMostOne(chan[Candidate][j], "appendentry")
       /\ \A m \in Asks(j) : /\ Repeats(m, log[Candidate])
                             /\ commitIndex[j] <= m.prevLogIndex
                             /\ commitIndex[j] <= m.leaderCommit

(* Before there is a leader. *)
Quiet ==
  /\ \A i \in Node : log[i] = << >>
  /\ \A i, j \in Node : /\ OfType(chan[i][j], "appendentry") = {}
                        /\ OfType(chan[i][j], "replyappendentry") = {}

-----------------------------------------------------------------------------
(* While the candidate leads: its view of a sibling j. *)

(* alreadyAppendEntry is set while one append entry or its answer is in
   flight, or was when the connection broke. *)
Outstanding(j) ==
  /\ alreadyAppendEntry[Candidate][j] => link[Candidate][j] = "up"
  /\ Asks(j) # {} \/ Answers(j) # {} => alreadyAppendEntry[Candidate][j]
  /\ alreadyAppendEntry[Candidate][j] =>
       Asks(j) # {} \/ Answers(j) # {} \/ Ended(chan[j][Candidate])
  /\ Asks(j) # {} => Answers(j) = {} /\ ~Ended(chan[j][Candidate])
  /\ AtMostOne(chan[j][Candidate], "replyappendentry")
  /\ AnswersFirst(chan[j][Candidate])

(* nextIndex[j] once the leader has executed the answer r. *)
NextAfter(j, r) ==
  IF ~r.success THEN Decreased(nextIndex[Candidate][j])
  ELSE IF emptyAppendEntry[Candidate][j] THEN nextIndex[Candidate][j]
  ELSE nextIndex[Candidate][j] + 1

(* j holds the first p entries, and no append entry of this connection makes
   it cut one of them off. *)
SafeAt(j, p) ==
  /\ p <= Len(log[j])
  /\ link[Candidate][j] # "none" /\ ~Ended(chan[j][Candidate]) =>
       IF Answers(j) = {} THEN p < nextIndex[Candidate][j]
       ELSE \A r \in Answers(j) : p < NextAfter(j, r)

(* What is in flight is about nextIndex[j] and emptyAppendEntry[j]. *)
Attributed(j) ==
  /\ \A m \in Asks(j) :
       /\ m.prevLogIndex = nextIndex[Candidate][j] - 1
       /\ m.entry.index = 0 <=> emptyAppendEntry[Candidate][j]
       /\ m.leaderCommit <= commitIndex[Candidate]
  /\ \A r \in Answers(j) :
       r.success => Len(log[j]) >= NextAfter(j, r) - 1

Peer(j) ==
  /\ Outstanding(j) /\ Attributed(j)
  /\ link[Candidate][j] # "none" =>
       nextIndex[Candidate][j] <= Len(log[Candidate]) + 1
  /\ commitIndex[j] <= commitIndex[Candidate]
  /\ SafeAt(j, commitIndex[j]) /\ SafeAt(j, matchIndex[Candidate][j])

Safe(p) == {k \in Node : k = Candidate \/ SafeAt(k, p)}

Leading ==
  /\ \A j \in Sibling(Candidate) : Peer(j)
  /\ \A p \in 1 .. commitIndex[Candidate] :
       2 * Cardinality(Safe(p)) > Cardinality(Node)

-----------------------------------------------------------------------------
ElectionInv ==
  /\ RolesInv /\ FilesInv /\ AppliedInv /\ AsksInv
  /\ spent.timeout[Candidate] = 0 \/ role[Candidate] = "C" => Quiet
  /\ role[Candidate] = "L" => Leading
==============================================================================
