------------------------------- MODULE Cluster -------------------------------
(***************************************************************************)
(* The nodes of a cabinet cluster: the roles and terms of class Cluster,   *)
(* the bookkeeping class Siblings keeps for each of its peers, the log     *)
(* file, and the handlers of the six commands nodes exchange.  A process   *)
(* is a single thread: each action is one cron() or the execution of one   *)
(* message, whole.  Elapsed time is left out: an election timeout may      *)
(* strike at any cron, as often as its budget allows.                      *)
(***************************************************************************)
EXTENDS Integers, FiniteSets, Network

CONSTANTS
  MaxTimeout,     \* MaxTimeout[i]: how often the election timeout of i strikes
  MaxRequest,     \* client requests appended by leaders
  MaxCrash,       \* processes killed
  MaxDeleteCrash, \* processes killed while they rewrite their log file
  MaxRestart,     \* processes started again, after a kill or an exit
  MaxReset,       \* connections between siblings broken
  MaxChildLoss,   \* connections to the storage servers lost
  ChildLossAt,    \* nodes that may lose one
  MaxDiskFault    \* log files that become unwritable

ASSUME BoundAssumption ==
  /\ MaxTimeout \in [Node -> Nat]
  /\ {MaxRequest, MaxCrash, MaxDeleteCrash, MaxRestart, MaxReset, MaxChildLoss,
      MaxDiskFault} \subseteq Nat

VARIABLES
  proc,            \* "up", "down", or why the process called exit()
  role, currentTerm, votedFor, receiveVotes,
  commitIndex, lastEntryIndex, lastApplied,
  log,             \* the entries of the log file: survives the process
  pfGood,          \* the output stream of the log file can be written
  leaderId,        \* Siblings: currentLeaderId
  link,            \* Siblings: client pointer, connectTrying, connectStatus
  nextIndex, matchIndex, alreadyAppendEntry, emptyAppendEntry,
  childrenUp,      \* Children: every storage server is connected
  chan,            \* what is in flight, see Network
  spent            \* how much of each bound is used up

clusterVars == <<role, currentTerm, votedFor, receiveVotes>>
indexVars   == <<commitIndex, lastEntryIndex, lastApplied>>
fileVars    == <<log, pfGood>>
peerVars    == <<nextIndex, matchIndex, alreadyAppendEntry, emptyAppendEntry>>
vars == <<proc, clusterVars, indexVars, fileVars, leaderId, link, peerVars,
          childrenUp, chan, spent>>

None == -1
ExitReason == {"notLeader", "commitBelowApplied", "emptyLogCommit"}
Sibling(i) == Node \ {i}

(* clusterHalfNumber() and winVoteBaseline are both this number. *)
HalfNumber == Cardinality(Node) \div 2 + 1

Up(i) == proc[i] = "up"
Alive == {j \in Node : Up(j)}
ConnectedSiblings(i) == {j \in Sibling(i) : link[i][j] = "up"}

(* satisfyWorkingBaseling() of Siblings and of Children. *)
SiblingsBaseline(i) == 1 + Cardinality(ConnectedSiblings(i)) >= HalfNumber
WorkingBaseline(i)  == SiblingsBaseline(i) /\ childrenUp[i]

(* Mutant: siblings that still owe an answer are included. *)
ConnectedAnyway(i) == ConnectedSiblings(i)

(* getSiblingsNeedAppendEntry() *)
NeedAppendEntry(i) == {j \in ConnectedSiblings(i) : ~alreadyAppendEntry[i][j]}

(* Mutant: both nodes of a pair dial. *)
LostSiblingsBothWays(i) == {j \in Sibling(i) : link[i][j] = "none"}

(* A node dials the siblings whose id is smaller than its own. *)
LostSiblings(i) == {j \in Sibling(i) : j < i /\ link[i][j] = "none"}

Spend(bound) == spent' = [spent EXCEPT ![bound] = @ + 1]

-----------------------------------------------------------------------------
(* The starting states. *)

InitNodes ==
  /\ proc = [i \in Node |-> "up"]
  /\ role = [i \in Node |-> "F"]
  /\ currentTerm = [i \in Node |-> 1]
  /\ votedFor = [i \in Node |-> None]
  /\ receiveVotes = [i \in Node |-> 0]
  /\ commitIndex = [i \in Node |-> 0]
  /\ lastEntryIndex = [i \in Node |-> 0]
  /\ lastApplied = [i \in Node |-> 0]
  /\ log = [i \in Node |-> << >>]
  /\ pfGood = [i \in Node |-> TRUE]
  /\ leaderId = [i \in Node |-> None]
  /\ matchIndex = [i \in Node |-> [j \in Node |-> 0]]
  /\ alreadyAppendEntry = [i \in Node |-> [j \in Node |-> FALSE]]
  /\ emptyAppendEntry = [i \in Node |-> [j \in Node |-> FALSE]]
  /\ chan = [i \in Node |-> [j \in Node |-> << >>]]
  /\ spent = [timeout |-> [i \in Node |-> 0], request |-> 0, crash |-> 0,
              deleteCrash |-> 0, restart |-> 0, reset |-> 0, childLoss |-> 0,
              diskFault |-> 0]

(* Every process has just started. *)
Init ==
  /\ InitNodes
  /\ link = [i \in Node |-> [j \in Node |-> "none"]]
  /\ nextIndex = [i \in Node |-> [j \in Node |-> 0]]
  /\ childrenUp = [i \in Node |-> FALSE]

(* Later, before any election timeout: everybody is connected. *)
ConnectedInit ==
  /\ InitNodes
  /\ link = [i \in Node |-> [j \in Node |-> IF j = i THEN "none" ELSE "up"]]
  /\ nextIndex = [i \in Node |-> [j \in Node |-> IF j = i THEN 0 ELSE 1]]
  /\ childrenUp = [i \in Node |-> TRUE]

-----------------------------------------------------------------------------
(* Changes several handlers make. *)

(* table[i][j] becomes value for each sibling j of S. *)
Set(table, i, S, value) ==
  [table EXCEPT ![i] = [j \in Node |-> IF j \in S THEN value ELSE @[j]]]

(* toFollow(): the vote is given back even when the term does not change. *)
ToFollow(i, term) ==
  /\ role' = [role EXCEPT ![i] = "F"]
  /\ currentTerm' = [currentTerm EXCEPT ![i] = term]
  /\ votedFor' = [votedFor EXCEPT ![i] = None]

(* Mutant: a new leader does not read lastEntryIndex from its log. *)
ToLeadKeepingLastEntry(i) ==
  LET last == FindLastEntry(log[i]).index
  IN  /\ role' = [role EXCEPT ![i] = "L"]
      /\ votedFor' = [votedFor EXCEPT ![i] = None]
      /\ commitIndex' = [commitIndex EXCEPT ![i] = last]
      /\ nextIndex' = Set(nextIndex, i, Sibling(i), last + 1)
      /\ matchIndex' = Set(matchIndex, i, Sibling(i), 0)
      /\ alreadyAppendEntry' = Set(alreadyAppendEntry, i, Sibling(i), FALSE)
      /\ UNCHANGED <<lastEntryIndex, currentTerm>>

(* toLead(): everything in the leader's own log becomes committed. *)
ToLead(i) ==
  LET last == FindLastEntry(log[i]).index
  IN  /\ role' = [role EXCEPT ![i] = "L"]
      /\ votedFor' = [votedFor EXCEPT ![i] = None]
      /\ lastEntryIndex' = [lastEntryIndex EXCEPT ![i] = last]
      /\ commitIndex' = [commitIndex EXCEPT ![i] = last]
      /\ nextIndex' = Set(nextIndex, i, Sibling(i), last + 1)
      /\ matchIndex' = Set(matchIndex, i, Sibling(i), 0)
      /\ alreadyAppendEntry' = Set(alreadyAppendEntry, i, Sibling(i), FALSE)
      /\ UNCHANGED currentTerm

(* Mutant: the index of the last entry is off by one. *)
RequestVoteOffByOne(i) ==
  [type |-> "requestvote", term |-> currentTerm'[i],
   lastLogIndex |-> FindLastEntry(log[i]).index - 1,
   lastLogTerm |-> FindLastEntry(log[i]).term]

RequestVote(i) ==
  [type |-> "requestvote", term |-> currentTerm'[i],
   lastLogIndex |-> FindLastEntry(log[i]).index,
   lastLogTerm |-> FindLastEntry(log[i]).term]

(* toCandidate(); the siblings asked for a vote are those that have answered
   every append entry, see CronTimeout. *)
ToCandidate(i) ==
  /\ role' = [role EXCEPT ![i] = "C"]
  /\ currentTerm' = [currentTerm EXCEPT ![i] = @ + 1]
  /\ votedFor' = [votedFor EXCEPT ![i] = i]
  /\ receiveVotes' = [receiveVotes EXCEPT ![i] = 1]

(* addSiblings() for each sibling of S, whose link is then in that status;
   alreadyAppendEntry is left to the caller. *)
AddSiblings(i, S, status) ==
  /\ link' = Set(link, i, S, status)
  /\ nextIndex' = Set(nextIndex, i, S, commitIndex[i] + 1)
  /\ matchIndex' = Set(matchIndex, i, S, 0)

(* The connections of i whose other end still waits for i. *)
Connections(i) ==
  {j \in Sibling(i) :
     \/ link[i][j] # "none" /\ ~Ended(chan[j][i])
     \/ link[j][i] = "trying" /\ ~Ended(chan[i][j])}

(* The process of i ends.  Only the log file remains; the rest is shown as a
   new process starts with it. *)
Stop(i, reason, received) ==
  /\ proc' = [proc EXCEPT ![i] = reason]
  /\ role' = [role EXCEPT ![i] = "F"]
  /\ currentTerm' = [currentTerm EXCEPT ![i] = 1]
  /\ votedFor' = [votedFor EXCEPT ![i] = None]
  /\ receiveVotes' = [receiveVotes EXCEPT ![i] = 0]
  /\ commitIndex' = [commitIndex EXCEPT ![i] = 0]
  /\ lastEntryIndex' = [lastEntryIndex EXCEPT ![i] = 0]
  /\ lastApplied' = [lastApplied EXCEPT ![i] = 0]
  /\ pfGood' = [pfGood EXCEPT ![i] = TRUE]
  /\ leaderId' = [leaderId EXCEPT ![i] = None]
  /\ link' = Set(link, i, Node, "none")
  /\ nextIndex' = Set(nextIndex, i, Node, 0)
  /\ matchIndex' = Set(matchIndex, i, Node, 0)
  /\ alreadyAppendEntry' = Set(alreadyAppendEntry, i, Node, FALSE)
  /\ emptyAppendEntry' = Set(emptyAppendEntry, i, Node, FALSE)
  /\ childrenUp' = [childrenUp EXCEPT ![i] = FALSE]
  /\ chan' = Hangup(chan, i, Connections(i), received)

-----------------------------------------------------------------------------
(* cron() without the working baseline: step down and reconnect.  The storage
   servers are reachable or not. *)
CronReconnect(i, reachable) ==
  LET dialled == IF SiblingsBaseline(i) THEN {} ELSE LostSiblings(i)
  IN  /\ Up(i) /\ ~WorkingBaseline(i)
      /\ IF role[i] = "F" THEN UNCHANGED <<role, currentTerm, votedFor>>
                          ELSE ToFollow(i, currentTerm[i])
      /\ leaderId' = IF SiblingsBaseline(i) THEN leaderId
                     ELSE [leaderId EXCEPT ![i] = None]
      /\ lastApplied' = IF childrenUp[i] THEN lastApplied
                        ELSE [lastApplied EXCEPT ![i] = 0]
      /\ childrenUp' = [childrenUp EXCEPT ![i] = @ \/ reachable]
      /\ AddSiblings(i, dialled, "trying")
      /\ alreadyAppendEntry' = Set(alreadyAppendEntry, i, dialled, FALSE)
      /\ chan' = Dial(chan, i, dialled, Alive)
      /\ UNCHANGED <<proc, receiveVotes, commitIndex, lastEntryIndex, fileVars,
                     emptyAppendEntry, spent>>

(* What every cron() with the working baseline begins with: dial the siblings
   that are missing and flush one committed entry to the storage servers. *)
CronBegins(i) ==
  /\ Up(i) /\ WorkingBaseline(i)
  /\ commitIndex[i] >= lastApplied[i]
  /\ lastApplied' = [lastApplied EXCEPT
                       ![i] = IF @ < commitIndex[i] THEN @ + 1 ELSE @]

(* flushServer() finds that more was applied than is committed. *)
CronFlushExits(i, received) ==
  /\ Up(i) /\ WorkingBaseline(i)
  /\ commitIndex[i] < lastApplied[i]
  /\ Stop(i, "commitBelowApplied", received)
  /\ UNCHANGED <<log, spent>>

(* A follower or a candidate whose election timeout has not expired. *)
CronIdle(i) ==
  /\ CronBegins(i)
  /\ role[i] # "L"
  /\ AddSiblings(i, LostSiblings(i), "trying")
  /\ alreadyAppendEntry' = Set(alreadyAppendEntry, i, LostSiblings(i), FALSE)
  /\ chan' = Dial(chan, i, LostSiblings(i), Alive)
  /\ UNCHANGED <<proc, clusterVars, commitIndex, lastEntryIndex, fileVars,
                 leaderId, emptyAppendEntry, childrenUp, spent>>

(* The election timeout expires: a follower becomes a candidate, a candidate
   without enough votes tries again. *)
CronTimeout(i) ==
  /\ CronBegins(i)
  /\ role[i] = "F" \/ (role[i] = "C" /\ receiveVotes[i] < HalfNumber)
  /\ spent.timeout[i] < MaxTimeout[i]
  /\ spent' = [spent EXCEPT !.timeout[i] = @ + 1]
  /\ ToCandidate(i)
  /\ AddSiblings(i, LostSiblings(i), "trying")
  /\ alreadyAppendEntry' = Set(alreadyAppendEntry, i, LostSiblings(i), FALSE)
  /\ chan' = Broadcast(Dial(chan, i, LostSiblings(i), Alive), i,
                       NeedAppendEntry(i), [j \in Node |-> RequestVote(i)])
  /\ UNCHANGED <<proc, commitIndex, lastEntryIndex, fileVars, leaderId,
                 emptyAppendEntry, childrenUp>>

(* A candidate that had enough votes before anyone answered, which takes a
   cluster of one node: it leads when its election timeout expires. *)
CronWin(i) ==
  /\ CronBegins(i)
  /\ role[i] = "C" /\ receiveVotes[i] >= HalfNumber
  /\ ToLead(i)
  /\ UNCHANGED <<proc, receiveVotes, fileVars, leaderId, link,
                 emptyAppendEntry, childrenUp, chan, spent>>

-----------------------------------------------------------------------------
(* cron() of a leader: an append entry to every sibling that owes none. *)

AppendEntry(i, j) ==
  LET n    == nextIndex[i][j]
      next == FindEntry(log[i], n)
      prev == IF n > 1 THEN FindEntry(log[i], n - 1) ELSE NullEntry
  IN  [type |-> "appendentry", term |-> currentTerm[i],
       prevLogIndex |-> prev.index, prevLogTerm |-> prev.term,
       entry |-> next, leaderCommit |-> commitIndex[i]]

(* The leader's own log does not reach nextIndex. *)
BeyondLog(i, j) ==
  /\ ~HasEntry(log[i], nextIndex[i][j])
  /\ nextIndex[i][j] > FindLastEntry(log[i]).index + 1

(* Then, or without the previous entry, operator>> calls toFollow() and
   reports success to the loop of cron(). *)
CannotAppend(i, j) ==
  \/ BeyondLog(i, j)
  \/ nextIndex[i][j] > 1 /\ ~HasEntry(log[i], nextIndex[i][j] - 1)

(* Mutant: setEmptyAppendEntry(clientId, true) is forgotten. *)
HeartbeatForgotten(i, j) == FALSE

(* There is no entry to append yet. *)
Heartbeat(i, j) == ~HasEntry(log[i], nextIndex[i][j])

Unservable(i) == {j \in NeedAppendEntry(i) : CannotAppend(i, j)}

(* S: the siblings operator>> gets an append entry ready for. *)
SendAppendEntries(i, S) ==
  /\ AddSiblings(i, LostSiblings(i), "trying")
  /\ alreadyAppendEntry' = Set(Set(alreadyAppendEntry, i, LostSiblings(i), FALSE),
                               i, S, TRUE)
  /\ emptyAppendEntry' =
       [emptyAppendEntry EXCEPT
          ![i] = [j \in Node |-> IF j \in NeedAppendEntry(i) /\ ~BeyondLog(i, j)
                                 THEN Heartbeat(i, j) ELSE @[j]]]
  /\ chan' = Broadcast(Dial(chan, i, LostSiblings(i), Alive), i, S,
                       [j \in Node |-> AppendEntry(i, j)])

CronLead(i) ==
  /\ CronBegins(i)
  /\ role[i] = "L" /\ Unservable(i) = {}
  /\ SendAppendEntries(i, NeedAppendEntry(i))
  /\ UNCHANGED <<proc, clusterVars, commitIndex, lastEntryIndex, fileVars,
                 leaderId, childrenUp, spent>>

(* The last sibling of the loop is the one that cannot be served. *)
CronLeadStepsDown(i) ==
  /\ CronBegins(i)
  /\ role[i] = "L" /\ Unservable(i) # {}
  /\ \A s \in Unservable(i), j \in NeedAppendEntry(i) : j <= s
  /\ ToFollow(i, currentTerm[i])
  /\ SendAppendEntries(i, NeedAppendEntry(i) \ Unservable(i))
  /\ UNCHANGED <<proc, receiveVotes, commitIndex, lastEntryIndex, fileVars,
                 leaderId, childrenUp, spent>>

(* Another sibling follows: operator>> exits, "cluster is not a leader". *)
CronLeadExits(i, received) ==
  /\ Up(i) /\ WorkingBaseline(i) /\ commitIndex[i] >= lastApplied[i]
  /\ role[i] = "L"
  /\ \E s \in Unservable(i), j \in NeedAppendEntry(i) : s < j
  /\ Stop(i, "notLeader", received)
  /\ UNCHANGED <<log, spent>>

-----------------------------------------------------------------------------
(* Messages.  i executes the first message of what j sent. *)

Received(i, j) == Head(chan[j][i])

Receives(i, j, type) ==
  Up(i) /\ chan[j][i] # << >> /\ Received(i, j).type = type

(* A candidate or a leader rejects an append entry of a lower term.  A
   follower accepts it. *)
Obeys(i, m) == role[i] = "F" \/ m.term >= currentTerm[i]

(* Mutant: a follower takes the term of any leader it obeys. *)
FollowAnyTerm(i, j, m) ==
  /\ ToFollow(i, m.term)
  /\ leaderId' = [leaderId EXCEPT ![i] = j]

(* Mutant: the term is not taken over from the leader. *)
FollowKeepingTerm(i, j, m) ==
  /\ IF role[i] = "F" /\ m.term <= currentTerm[i]
     THEN UNCHANGED <<role, currentTerm, votedFor>>
     ELSE ToFollow(i, currentTerm[i])
  /\ leaderId' = [leaderId EXCEPT ![i] = j]

Follow(i, j, m) ==
  /\ IF role[i] = "F" /\ m.term <= currentTerm[i]
     THEN UNCHANGED <<role, currentTerm, votedFor>>
     ELSE ToFollow(i, m.term)
  /\ leaderId' = [leaderId EXCEPT ![i] = j]

ReplyAppendEntry(i, success) ==
  [type |-> "replyappendentry", term |-> currentTerm'[i], success |-> success]

(* The log does not continue the leader's: it has something where the leader
   has nothing before the entry, or lacks the previous entry, or has another
   one in its place. *)
Mismatch(file, m) ==
  IF m.prevLogIndex = 0 THEN file # << >>
  ELSE HasEntry(file, m.prevLogIndex) =>
         FindEntry(file, m.prevLogIndex).term # m.prevLogTerm

(* The file a mismatch leaves. *)
AfterMismatch(file, m) ==
  IF m.prevLogIndex = 0 THEN << >> ELSE DeleteEntryAfter(file, m.prevLogIndex)

(* Mutant: what follows the previous entry stays. *)
CutNothing(file, m) == file

(* The file cut after the previous entry, if that is not its last one. *)
CutAfterPrev(file, m) ==
  LET last == FindLastEntry(file)
  IN  IF \/ m.prevLogIndex = 0
         \/ last.index = m.prevLogIndex /\ last.term = m.prevLogTerm
      THEN file
      ELSE DeleteEntryAfter(file, m.prevLogIndex + 1)

Carries(m) == m.entry.index # 0 /\ m.entry.term # 0

(* Mutant: the entry is acknowledged and not written. *)
AppendForgotten(file, m) == CutAfterPrev(file, m)

(* Mutant: the entry is written with the term of the leader that sends it. *)
AppendedInTermOfLeader(file, m) ==
  IF Carries(m) THEN Append(CutAfterPrev(file, m), [m.entry EXCEPT !.term = m.term])
                ELSE CutAfterPrev(file, m)

AfterAppend(file, m) ==
  IF Carries(m) THEN Append(CutAfterPrev(file, m), m.entry)
                ELSE CutAfterPrev(file, m)

(* Rewriting the file opens its stream anew. *)
PfGoodAfter(i, file) == pfGood[i] \/ file # log[i]

Lesser(a, b) == IF a < b THEN a ELSE b

AppendEntryRefused(i, j) ==
  /\ Receives(i, j, "appendentry")
  /\ ~Obeys(i, Received(i, j))
  /\ chan' = Answer(chan, i, j,
       [type |-> "replyappendentry", term |-> currentTerm[i], success |-> FALSE])
  /\ UNCHANGED <<proc, clusterVars, indexVars, fileVars, leaderId, link,
                 peerVars, childrenUp, spent>>

AppendEntryMismatch(i, j) ==
  LET m == Received(i, j)
  IN  /\ Receives(i, j, "appendentry")
      /\ Obeys(i, m) /\ Mismatch(log[i], m)
      /\ Follow(i, j, m)
      /\ log' = [log EXCEPT ![i] = AfterMismatch(@, m)]
      /\ pfGood' = [pfGood EXCEPT ![i] = PfGoodAfter(i, AfterMismatch(log[i], m))]
      /\ chan' = Answer(chan, i, j, ReplyAppendEntry(i, FALSE))
      /\ UNCHANGED <<proc, receiveVotes, indexVars, link, peerVars, childrenUp,
                     spent>>

(* The entry cannot be written to the file. *)
AppendEntryFails(i, j) ==
  LET m == Received(i, j)
  IN  /\ Receives(i, j, "appendentry")
      /\ Obeys(i, m) /\ ~Mismatch(log[i], m)
      /\ Carries(m) /\ ~PfGoodAfter(i, CutAfterPrev(log[i], m))
      /\ Follow(i, j, m)
      /\ chan' = Answer(chan, i, j, ReplyAppendEntry(i, FALSE))
      /\ UNCHANGED <<proc, receiveVotes, indexVars, fileVars, link, peerVars,
                     childrenUp, spent>>

(* Mutant: the std::min with the own log is left out. *)
FollowedCommitUnbounded(i, m) ==
  IF m.leaderCommit = 0 THEN commitIndex[i] ELSE m.leaderCommit

(* The leader's commitIndex as far as this log reaches; 0 says nothing. *)
FollowedCommit(i, m) ==
  IF m.leaderCommit = 0 THEN commitIndex[i]
  ELSE Lesser(m.leaderCommit, FindLastEntry(AfterAppend(log[i], m)).index)

AppendEntryAccepted(i, j) ==
  LET m == Received(i, j)
  IN  /\ Receives(i, j, "appendentry")
      /\ Obeys(i, m) /\ ~Mismatch(log[i], m)
      /\ Carries(m) => PfGoodAfter(i, CutAfterPrev(log[i], m))
      /\ m.leaderCommit # 0 => AfterAppend(log[i], m) # << >>
      /\ Follow(i, j, m)
      /\ log' = [log EXCEPT ![i] = AfterAppend(@, m)]
      /\ pfGood' = [pfGood EXCEPT ![i] = PfGoodAfter(i, CutAfterPrev(log[i], m))]
      /\ commitIndex' = [commitIndex EXCEPT ![i] = FollowedCommit(i, m)]
      /\ chan' = Answer(chan, i, j, ReplyAppendEntry(i, TRUE))
      /\ UNCHANGED <<proc, receiveVotes, lastEntryIndex, lastApplied, link,
                     peerVars, childrenUp, spent>>

(* The leader has committed something and this log is empty. *)
AppendEntryExits(i, j, received) ==
  LET m == Received(i, j)
  IN  /\ Receives(i, j, "appendentry")
      /\ Obeys(i, m) /\ ~Mismatch(log[i], m)
      /\ m.leaderCommit # 0 /\ AfterAppend(log[i], m) = << >>
      /\ Stop(i, "emptyLogCommit", received)
      /\ UNCHANGED <<log, spent>>

-----------------------------------------------------------------------------
(* Answers to an append entry.  An answer is taken for the answer to whatever
   nextIndex and emptyAppendEntry describe when it arrives. *)

ReplyAppendEntryIgnored(i, j) ==
  /\ Receives(i, j, "replyappendentry")
  /\ role[i] # "L"
  /\ chan' = Consume(chan, i, j)
  /\ UNCHANGED <<proc, clusterVars, indexVars, fileVars, leaderId, link,
                 peerVars, childrenUp, spent>>

ReplyAppendEntryHigherTerm(i, j) ==
  /\ Receives(i, j, "replyappendentry")
  /\ role[i] = "L" /\ Received(i, j).term > currentTerm[i]
  /\ ToFollow(i, Received(i, j).term)
  /\ chan' = Consume(chan, i, j)
  /\ UNCHANGED <<proc, receiveVotes, indexVars, fileVars, leaderId, link,
                 peerVars, childrenUp, spent>>

(* Mutant: the guard nextIndex > 1 is left out. *)
DecreasedAlways(index) == index - 1

(* decreaseSiblingNextIndex(), as the handler guards it. *)
Decreased(index) == IF index > 1 THEN index - 1 ELSE index

ReplyAppendEntryFalse(i, j) ==
  /\ Receives(i, j, "replyappendentry")
  /\ role[i] = "L" /\ Received(i, j).term <= currentTerm[i]
  /\ ~Received(i, j).success
  /\ alreadyAppendEntry' = Set(alreadyAppendEntry, i, {j}, FALSE)
  /\ nextIndex' = [nextIndex EXCEPT ![i][j] = Decreased(@)]
  /\ chan' = Consume(chan, i, j)
  /\ UNCHANGED <<proc, clusterVars, indexVars, fileVars, leaderId, link,
                 matchIndex, emptyAppendEntry, childrenUp, spent>>

(* Mutant: the answer to a heartbeat does not allow the next append entry. *)
ReplyAppendEntryEmptyStillOwing(i, j) ==
  /\ Receives(i, j, "replyappendentry")
  /\ role[i] = "L" /\ Received(i, j).term <= currentTerm[i]
  /\ Received(i, j).success /\ emptyAppendEntry[i][j]
  /\ chan' = Consume(chan, i, j)
  /\ UNCHANGED <<proc, clusterVars, indexVars, fileVars, leaderId, link,
                 peerVars, childrenUp, spent>>

ReplyAppendEntryEmpty(i, j) ==
  /\ Receives(i, j, "replyappendentry")
  /\ role[i] = "L" /\ Received(i, j).term <= currentTerm[i]
  /\ Received(i, j).success /\ emptyAppendEntry[i][j]
  /\ alreadyAppendEntry' = Set(alreadyAppendEntry, i, {j}, FALSE)
  /\ chan' = Consume(chan, i, j)
  /\ UNCHANGED <<proc, clusterVars, indexVars, fileVars, leaderId, link,
                 nextIndex, matchIndex, emptyAppendEntry, childrenUp, spent>>

(* checkIfEntryCouldCommit(index): the siblings of matched hold the entry. *)
CheckIfEntryCouldCommit(i, index, matched) ==
  IF index > commitIndex[i] /\ 1 + Cardinality(matched) >= HalfNumber
  THEN index ELSE commitIndex[i]

ReplyAppendEntryTrue(i, j) ==
  LET index   == nextIndex[i][j]
      matched == {k \in Sibling(i) : k = j \/ matchIndex[i][k] >= index}
  IN  /\ Receives(i, j, "replyappendentry")
      /\ role[i] = "L" /\ Received(i, j).term <= currentTerm[i]
      /\ Received(i, j).success /\ ~emptyAppendEntry[i][j]
      /\ alreadyAppendEntry' = Set(alreadyAppendEntry, i, {j}, FALSE)
      /\ nextIndex' = [nextIndex EXCEPT ![i][j] = index + 1]
      /\ matchIndex' = [matchIndex EXCEPT ![i][j] = index]
      /\ commitIndex' =
           [commitIndex EXCEPT ![i] = CheckIfEntryCouldCommit(i, index, matched)]
      /\ chan' = Consume(chan, i, j)
      /\ UNCHANGED <<proc, clusterVars, lastEntryIndex, lastApplied, fileVars,
                     leaderId, link, emptyAppendEntry, childrenUp, spent>>

-----------------------------------------------------------------------------
(* Votes. *)

UpToDate(i, m) ==
  /\ FindLastEntry(log[i]).term <= m.lastLogTerm
  /\ FindLastEntry(log[i]).index <= m.lastLogIndex

Grants(i, m) ==
  /\ m.term >= currentTerm[i]
  /\ UpToDate(i, m)
  /\ m.term > currentTerm[i] \/ votedFor[i] = None

HandleRequestVote(i, j) ==
  LET m    == Received(i, j)
      term == IF m.term > currentTerm[i] THEN m.term ELSE currentTerm[i]
      vote == IF m.term > currentTerm[i] THEN None ELSE votedFor[i]
  IN  /\ Receives(i, j, "requestvote")
      /\ role' = [role EXCEPT ![i] = IF m.term > currentTerm[i] THEN "F" ELSE @]
      /\ currentTerm' = [currentTerm EXCEPT ![i] = term]
      /\ votedFor' = [votedFor EXCEPT ![i] = IF Grants(i, m) THEN j ELSE vote]
      /\ chan' = Answer(chan, i, j, [type |-> "replyrequestvote", term |-> term,
                                     success |-> Grants(i, m)])
      /\ UNCHANGED <<proc, receiveVotes, indexVars, fileVars, leaderId, link,
                     peerVars, childrenUp, spent>>

(* Anything but a vote that counts. *)
ReplyRequestVoteNoVote(i, j) ==
  LET m == Received(i, j)
  IN  /\ Receives(i, j, "replyrequestvote")
      /\ role[i] # "C" \/ m.term > currentTerm[i] \/ ~m.success
      /\ IF role[i] = "C" /\ m.term > currentTerm[i] THEN ToFollow(i, m.term)
         ELSE UNCHANGED <<role, currentTerm, votedFor>>
      /\ chan' = Consume(chan, i, j)
      /\ UNCHANGED <<proc, receiveVotes, indexVars, fileVars, leaderId, link,
                     peerVars, childrenUp, spent>>

(* A vote counts in whichever election the candidate is when it arrives. *)
ReplyRequestVoteCounts(i, j) ==
  LET m == Received(i, j)
  IN  /\ Receives(i, j, "replyrequestvote")
      /\ role[i] = "C" /\ m.term <= currentTerm[i] /\ m.success
      /\ receiveVotes' = [receiveVotes EXCEPT ![i] = @ + 1]
      /\ IF receiveVotes[i] + 1 >= HalfNumber THEN ToLead(i)
         ELSE UNCHANGED <<role, currentTerm, votedFor, commitIndex,
                          lastEntryIndex, nextIndex, matchIndex,
                          alreadyAppendEntry>>
      /\ chan' = Consume(chan, i, j)
      /\ UNCHANGED <<proc, lastApplied, fileVars, leaderId, link,
                     emptyAppendEntry, childrenUp, spent>>

-----------------------------------------------------------------------------
(* Connections. *)

HandleClusterNode(i, j) ==
  /\ Receives(i, j, "clusternode")
  /\ AddSiblings(i, {j}, "up")
  /\ alreadyAppendEntry' = Set(alreadyAppendEntry, i, {j}, FALSE)
  /\ chan' = Answer(chan, i, j, ReplyClusterNode)
  /\ UNCHANGED <<proc, clusterVars, indexVars, fileVars, leaderId,
                 emptyAppendEntry, childrenUp, spent>>

HandleReplyClusterNode(i, j) ==
  /\ Receives(i, j, "replyclusternode")
  /\ link' = Set(link, i, {j}, "up")
  /\ chan' = Consume(chan, i, j)
  /\ UNCHANGED <<proc, clusterVars, indexVars, fileVars, leaderId, peerVars,
                 childrenUp, spent>>

(* Mutant: the leader of a lost connection is kept. *)
LeaderIdKept(i, j) == leaderId[i]

(* deleteSiblings() forgets a leader that is gone. *)
LeaderIdWithout(i, j) == IF leaderId[i] = j THEN None ELSE leaderId[i]

(* deleteSiblings(), unless the connection was never registered. *)
HandleEof(i, j) ==
  /\ Receives(i, j, "eof")
  /\ IF link[i][j] = "none"
     THEN UNCHANGED <<link, nextIndex, matchIndex, alreadyAppendEntry, leaderId>>
     ELSE /\ link' = Set(link, i, {j}, "none")
          /\ nextIndex' = Set(nextIndex, i, {j}, 0)
          /\ matchIndex' = Set(matchIndex, i, {j}, 0)
          /\ alreadyAppendEntry' = Set(alreadyAppendEntry, i, {j}, FALSE)
          /\ leaderId' = [leaderId EXCEPT ![i] = LeaderIdWithout(i, j)]
  /\ chan' = Consume(chan, i, j)
  /\ UNCHANGED <<proc, clusterVars, indexVars, fileVars, emptyAppendEntry,
                 childrenUp, spent>>

-----------------------------------------------------------------------------
(* Clients.  Only a leader changes state for a request. *)

ClientRequest(i) ==
  LET entry == [index |-> lastEntryIndex[i] + 1, term |-> currentTerm[i],
                content |-> spent.request + 1]
  IN  /\ Up(i) /\ role[i] = "L" /\ pfGood[i]
      /\ spent.request < MaxRequest
      /\ Spend("request")
      /\ lastEntryIndex' = [lastEntryIndex EXCEPT ![i] = @ + 1]
      /\ log' = [log EXCEPT ![i] = Append(@, entry)]
      /\ UNCHANGED <<proc, clusterVars, commitIndex, lastApplied, pfGood,
                     leaderId, link, peerVars, childrenUp, chan>>

ClientRequestFails(i) ==
  /\ Up(i) /\ role[i] = "L" /\ ~pfGood[i]
  /\ spent.request < MaxRequest
  /\ Spend("request")
  /\ lastEntryIndex' = [lastEntryIndex EXCEPT ![i] = @ + 1]
  /\ ToFollow(i, currentTerm[i])
  /\ UNCHANGED <<proc, receiveVotes, commitIndex, lastApplied, fileVars,
                 leaderId, link, peerVars, childrenUp, chan>>

-----------------------------------------------------------------------------
(* The environment. *)

Crash(i, received) ==
  /\ Up(i) /\ spent.crash < MaxCrash /\ Spend("crash")
  /\ Stop(i, "down", received)
  /\ UNCHANGED log

(* Killed in deleteEntryAfter(), between remove() and rename(). *)
CrashInDelete(i, j, received) ==
  LET m == Received(i, j)
  IN  /\ Receives(i, j, "appendentry") /\ Obeys(i, m)
      /\ m.prevLogIndex # 0
      /\ \/ Mismatch(log[i], m) /\ AfterMismatch(log[i], m) # log[i]
         \/ ~Mismatch(log[i], m) /\ CutAfterPrev(log[i], m) # log[i]
      /\ spent.deleteCrash < MaxDeleteCrash /\ Spend("deleteCrash")
      /\ Stop(i, "down", received)
      /\ log' = [log EXCEPT ![i] = << >>]

Restart(i) ==
  /\ ~Up(i) /\ spent.restart < MaxRestart /\ Spend("restart")
  /\ proc' = [proc EXCEPT ![i] = "up"]
  /\ UNCHANGED <<clusterVars, indexVars, fileVars, leaderId, link, peerVars,
                 childrenUp, chan>>

(* The connection of j to i, established by j, breaks. *)
Reset(i, j) ==
  /\ Up(i) /\ Up(j) /\ i < j
  /\ link[j][i] # "none" /\ ~Ended(chan[i][j]) /\ ~Ended(chan[j][i])
  /\ spent.reset < MaxReset /\ Spend("reset")
  /\ chan' = Break(chan, i, j)
  /\ UNCHANGED <<proc, clusterVars, indexVars, fileVars, leaderId, link,
                 peerVars, childrenUp>>

ChildLost(i) ==
  /\ Up(i) /\ childrenUp[i] /\ i \in ChildLossAt
  /\ spent.childLoss < MaxChildLoss /\ Spend("childLoss")
  /\ childrenUp' = [childrenUp EXCEPT ![i] = FALSE]
  /\ UNCHANGED <<proc, clusterVars, indexVars, fileVars, leaderId, link,
                 peerVars, chan>>

DiskFault(i) ==
  /\ Up(i) /\ pfGood[i]
  /\ spent.diskFault < MaxDiskFault /\ Spend("diskFault")
  /\ pfGood' = [pfGood EXCEPT ![i] = FALSE]
  /\ UNCHANGED <<proc, clusterVars, indexVars, log, leaderId, link, peerVars,
                 childrenUp, chan>>

-----------------------------------------------------------------------------
Cron(i) ==
  \/ \E reachable \in BOOLEAN : CronReconnect(i, reachable)
  \/ CronIdle(i) \/ CronTimeout(i) \/ CronWin(i)
  \/ CronLead(i) \/ CronLeadStepsDown(i)
  \/ \E received \in SUBSET Sibling(i) :
       CronFlushExits(i, received) \/ CronLeadExits(i, received)

Execute(i, j) ==
  \/ AppendEntryRefused(i, j) \/ AppendEntryMismatch(i, j)
  \/ AppendEntryFails(i, j) \/ AppendEntryAccepted(i, j)
  \/ \E received \in SUBSET Sibling(i) : AppendEntryExits(i, j, received)
  \/ ReplyAppendEntryIgnored(i, j) \/ ReplyAppendEntryHigherTerm(i, j)
  \/ ReplyAppendEntryFalse(i, j) \/ ReplyAppendEntryEmpty(i, j)
  \/ ReplyAppendEntryTrue(i, j)
  \/ HandleRequestVote(i, j)
  \/ ReplyRequestVoteNoVote(i, j) \/ ReplyRequestVoteCounts(i, j)
  \/ HandleClusterNode(i, j) \/ HandleReplyClusterNode(i, j) \/ HandleEof(i, j)

Client(i) == ClientRequest(i) \/ ClientRequestFails(i)

Fault(i) ==
  \/ Restart(i) \/ ChildLost(i) \/ DiskFault(i)
  \/ \E received \in SUBSET Sibling(i) : Crash(i, received)
  \/ \E j \in Sibling(i) :
       \/ Reset(i, j)
       \/ \E received \in SUBSET Sibling(i) : CrashInDelete(i, j, received)

Next ==
  \E i \in Node : Cron(i) \/ Client(i) \/ Fault(i)
                  \/ \E j \in Sibling(i) : Execute(i, j)

Spec == Init /\ [][Next]_vars
ConnectedSpec == ConnectedInit /\ [][Next]_vars

(* The loop of EventPoll runs cron() hz times a second and serves every
   connection that can be read; storage servers are reachable again some day.
   No election timeout, request or fault has to happen. *)
Fairness ==
  \A i \in Node :
    /\ WF_vars(CronReconnect(i, TRUE))
    /\ WF_vars(CronIdle(i))
    /\ WF_vars(CronLead(i))
    /\ \A j \in Sibling(i) : WF_vars(Execute(i, j))

FairConnectedSpec == ConnectedSpec /\ Fairness
==============================================================================
