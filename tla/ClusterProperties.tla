-------------------------- MODULE ClusterProperties --------------------------
(***************************************************************************)
(* What is claimed of Cluster.  Which of these hold depends on the faults  *)
(* the bounds allow; the runs and the theorems say which.                  *)
(***************************************************************************)
EXTENDS Cluster

(* Every variable has its type. *)
TypeOK ==
  /\ proc \in [Node -> {"up", "down"} \cup ExitReason]
  /\ role \in [Node -> {"F", "C", "L"}]
  /\ currentTerm \in [Node -> Nat]
  /\ votedFor \in [Node -> Node \cup {None}]
  /\ receiveVotes \in [Node -> Nat]
  /\ commitIndex \in [Node -> Nat]
  /\ lastEntryIndex \in [Node -> Nat]
  /\ lastApplied \in [Node -> Nat]
  /\ log \in [Node -> Seq(Entry)]
  /\ pfGood \in [Node -> BOOLEAN]
  /\ leaderId \in [Node -> Node \cup {None}]
  /\ link \in [Node -> [Node -> {"none", "trying", "up"}]]
  /\ nextIndex \in [Node -> [Node -> Nat]]
  /\ matchIndex \in [Node -> [Node -> Nat]]
  /\ alreadyAppendEntry \in [Node -> [Node -> BOOLEAN]]
  /\ emptyAppendEntry \in [Node -> [Node -> BOOLEAN]]
  /\ childrenUp \in [Node -> BOOLEAN]
  /\ chan \in Channels(Message)
  /\ spent \in [timeout: [Node -> Nat], request: Nat, crash: Nat,
                deleteCrash: Nat, restart: Nat, reset: Nat, childLoss: Nat,
                diskFault: Nat]

-----------------------------------------------------------------------------
(* Whatever the faults. *)

(* The entry at position p of a log file has index p, whatever leaders have
   appended, cut and overwritten: findEntry(), deleteEntryAfter() and
   nextIndex rely on it. *)
IndexDense == \A i \in Node : Dense(log[i])

(* An append entry is only ever prepared for a sibling whose nextIndex is at
   least 1, so operator>> never finds "invalid sibling" and exits. *)
NextIndexPositive ==
  \A i \in Node, j \in Node : link[i][j] # "none" => nextIndex[i][j] >= 1

(* A leader numbers the next entry from lastEntryIndex, never from the file:
   the two agree as long as it leads. *)
LeaderKnowsLastEntry ==
  \A i \in Node : role[i] = "L" => lastEntryIndex[i] = Len(log[i])

(* An append entry carries the entry that follows the previous one it names. *)
FollowsPrev(m) ==
  m.type = "appendentry" /\ m.entry.index # 0 =>
    m.entry.index = m.prevLogIndex + 1

SoundMessage == {m \in Message : FollowsPrev(m)}

(* The inductive invariant behind IndexDense: what a follower appends keeps
   its file dense because what is in flight follows its previous entry, and
   what a leader appends does because it knows its last entry. *)
LogInv ==
  /\ TypeOK
  /\ IndexDense
  /\ LeaderKnowsLastEntry
  /\ chan \in Channels(SoundMessage)

(* The leader a follower sends its clients to is a sibling it has a
   registered connection with. *)
LeaderIdConnected ==
  \A i \in Node : leaderId[i] # None => link[i][leaderId[i]] # "none"

(* The connection between two nodes, the dialler having the larger id.  q is
   what a node has still to read of the other one, l its link. *)

IsClusterNode(m) == m.type = "clusternode"
OfProtocol(m) == ~IsEof(m) /\ ~IsClusterNode(m)

(* When the reader comes to position n of q, it has the sender registered. *)
Registered(l, q, n) ==
  \/ l # "none" /\ \A k \in 1 .. n - 1 : ~IsEof(q[k])
  \/ \E m \in 1 .. n - 1 : /\ IsClusterNode(q[m])
                           /\ \A k \in m + 1 .. n - 1 : ~IsEof(q[k])

(* And when it has read all of q. *)
Open(l, q) == Registered(l, q, Len(q) + 1)

(* A clusternode of a connection that has not ended is still to be read. *)
Pending(q) ==
  \E m \in DOMAIN q : /\ IsClusterNode(q[m])
                      /\ \A k \in m + 1 .. Len(q) : ~IsEof(q[k])

(* The dialler is sent something only on a connection it has, and dials
   again only when it has read the end of the last one. *)
DiallerInv(link_d, q_d) ==
  /\ link_d = "none" => q_d = << >>
  /\ \A n \in DOMAIN q_d : /\ ~IsClusterNode(q_d[n])
                           /\ IsEof(q_d[n]) => n = Len(q_d)

(* The acceptor reads messages of the protocol of a registered sibling, and a
   clusternode never of one: addSiblings() does not refuse. *)
AcceptorInv(link_a, q_a) ==
  \A n \in DOMAIN q_a : /\ OfProtocol(q_a[n]) => Registered(link_a, q_a, n)
                        /\ IsClusterNode(q_a[n]) => ~Registered(link_a, q_a, n)

(* Both ends agree on whether there is a connection, all messages being read,
   and the dialler waits for the answer to a clusternode. *)
PairInv(link_d, link_a, q_d, q_a) ==
  /\ DiallerInv(link_d, q_d) /\ AcceptorInv(link_a, q_a)
  /\ Open(link_a, q_a) <=> link_d # "none" /\ ~Ended(q_d)
  /\ Pending(q_a) =>
       /\ link_d = "trying"
       /\ \A n \in DOMAIN q_d : q_d[n].type # "replyclusternode"

(* The inductive invariant of ClusterLinkProofs: whatever is lost, broken or
   started again, no node executes a message of a sibling it has not
   registered, and the two ends of a pair never disagree for good. *)
LinkInv ==
  /\ \A i \in Node : link[i][i] = "none"
  /\ \A d, a \in Node :
       a < d => PairInv(link[d][a], link[a][d], chan[a][d], chan[d][a])

(* A request is in a log file once, and in whichever files it is, it is the
   same entry at the same place: an entry that is sent again, that overtakes
   the cut meant for it or that another leader hands on is neither written a
   second time nor given another index or term. *)
RequestsOnce ==
  \A i, j \in Node : \A p \in DOMAIN log[i], q \in DOMAIN log[j] :
    log[i][p].content = log[j][q].content => p = q /\ log[i][p] = log[j][q]

(* The entries of the log files and of the append entries in flight. *)
Carried(q) ==
  {q[n].entry : n \in {k \in DOMAIN q : /\ q[k].type = "appendentry"
                                       /\ q[k].entry.index # 0}}
InFiles  == UNION {{log[i][p] : p \in DOMAIN log[i]} : i \in Node}
InFlight == UNION {UNION {Carried(chan[i][j]) : j \in Node} : i \in Node}
Entries  == InFiles \cup InFlight

(* The inductive invariant behind RequestsOnce: all copies of the entry of a
   request are alike, and the next request has a number of its own. *)
RequestInv ==
  /\ spent.request <= MaxRequest
  /\ \A e \in Entries : e.content \in 1 .. spent.request
  /\ \A e, f \in Entries : e.content = f.content => e = f

(* Within the life of a process no handler takes the term back. *)
TermNeverDecreases ==
  [][\A i \in Node : Up(i) /\ Up(i)' => currentTerm'[i] >= currentTerm[i]]_vars

-----------------------------------------------------------------------------
(* As long as no process is started again: terms are not on disk. *)

TermsAscend(file) ==
  \A p, q \in DOMAIN file : p <= q => file[p].term <= file[q].term
NoTermAbove(file, term) == \A p \in DOMAIN file : file[p].term <= term

(* Terms do not decrease along a log and none is above the node's term: a
   vote compares only the last entries. *)
LogTermsOrdered ==
  \A i \in Node : /\ TermsAscend(log[i])
                  /\ Up(i) => NoTermAbove(log[i], currentTerm[i])

(* The entry of an append entry lies between the previous one it names and
   its sender, as to terms. *)
TermsInOrder(m) ==
  m.type = "appendentry" /\ m.entry.index # 0 =>
    m.prevLogTerm <= m.entry.term /\ m.entry.term <= m.term

OrderedMessage == {m \in Message : TermsInOrder(m)}

(* The inductive invariant behind LogTermsOrdered: a follower cuts its file
   to end with the entry the message names, and appends one of the same term
   or a later one, even if a newer leader has written to it in between. *)
OrderInv == LogTermsOrdered /\ chan \in Channels(OrderedMessage)

-----------------------------------------------------------------------------
(* As long as one election timeout at most strikes.  A node elected for a
   second time declares its whole log committed, and forgets which append
   entries are unanswered. *)

Agree(i, j, p) ==
  p \in DOMAIN log[i] /\ p \in DOMAIN log[j] /\ log[i][p] = log[j][p]

(* An entry that a node, the leader or one it has told, knows to be committed
   is in the log files of a majority, after the leader has ended as well. *)
CommittedOnMajority ==
  \A i \in Node : \A p \in 1 .. commitIndex[i] :
    2 * Cardinality({j \in Node : Agree(i, j, p)}) > Cardinality(Node)

(* The entries two nodes have flushed to their storage servers are still in
   both log files, and are the same. *)
AppliedAgree ==
  \A i, j \in Node : \A p \in 1 .. lastApplied[i] :
    p <= lastApplied[j] => Agree(i, j, p)

(* The leader's matchIndex never claims more than the sibling holds. *)
MatchIndexSound ==
  \A i, j \in Node : role[i] = "L" /\ i # j =>
    \A p \in 1 .. matchIndex[i][j] : Agree(i, j, p)

AppendEntriesInFlight(i, j) ==
  {n \in DOMAIN chan[i][j] : chan[i][j][n].type = "appendentry"}
RepliesInFlight(j, i) ==
  {n \in DOMAIN chan[j][i] : chan[j][i][n].type = "replyappendentry"}

(* alreadyAppendEntry tells the truth: over a live connection it is set while
   one append entry or its answer is in flight, and only then.  Attributing
   an answer to the current nextIndex and emptyAppendEntry needs exactly
   this. *)
OneOutstanding ==
  \A i, j \in Node :
    role[i] = "L" /\ link[i][j] = "up" /\ ~Ended(chan[j][i]) =>
      Cardinality(AppendEntriesInFlight(i, j)) + Cardinality(RepliesInFlight(j, i))
        = (IF alreadyAppendEntry[i][j] THEN 1 ELSE 0)

(* No process ends of its own accord: no leader is asked for entries it does
   not have, nothing is applied beyond what is committed, and no follower is
   told of a commit before it has an entry. *)
NeverExits == \A i \in Node : proc[i] \notin ExitReason

-----------------------------------------------------------------------------
(* Liveness. *)

(* An entry a leader has appended is applied by every node. *)
RequestsApplied ==
  \A p \in 1 .. MaxRequest :
    (\E i \in Node : role[i] = "L" /\ Len(log[i]) >= p)
      ~> (\A j \in Node : lastApplied[j] >= p)

-----------------------------------------------------------------------------
(* What Raft promises and the comments rely on. *)

(* A term has one leader. *)
OneLeaderPerTerm ==
  \A i, j \in Node :
    role[i] = "L" /\ role[j] = "L" /\ currentTerm[i] = currentTerm[j] => i = j

NoExit(reason) == \A i \in Node : proc[i] # reason
NeverExitsNotLeader == NoExit("notLeader")
NeverExitsCommitBelowApplied == NoExit("commitBelowApplied")
NeverExitsEmptyLogCommit == NoExit("emptyLogCommit")
==============================================================================
