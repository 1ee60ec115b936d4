---------------------------- MODULE ClusterProofs ----------------------------
(***************************************************************************)
(* Cluster preserves LogInv: every log file stays dense, whatever the      *)
(* number of nodes, the elections, the faults and the order of messages.   *)
(***************************************************************************)
EXTENDS ClusterProperties, NetworkProofs

Table(V) == [Node -> [Node -> V]]

LEMMA SetType ==
  ASSUME NEW V, NEW table \in Table(V), NEW i \in Node, NEW S, NEW value \in V
  PROVE  Set(table, i, S, value) \in Table(V)
<1>1. [j \in Node |-> IF j \in S THEN value ELSE table[i][j]] \in [Node -> V]
  BY DEF Table
<1>2. QED
  BY <1>1 DEF Set, Table

LEMMA CellType ==
  ASSUME NEW V, NEW table \in Table(V), NEW i \in Node, NEW j \in Node,
         NEW value \in V
  PROVE  [table EXCEPT ![i][j] = value] \in Table(V)
BY DEF Table

-----------------------------------------------------------------------------
(* Messages. *)

LEMMA PlainMessages ==
  /\ Eof \in SoundMessage
  /\ ClusterNode \in SoundMessage
  /\ ReplyClusterNode \in SoundMessage
<1>1. /\ Eof \in Message /\ Eof.type = "eof"
      /\ ClusterNode \in Message /\ ClusterNode.type = "clusternode"
      /\ ReplyClusterNode \in Message /\ ReplyClusterNode.type = "replyclusternode"
  BY DEF Message, Eof, ClusterNode, ReplyClusterNode
<1>2. QED
  BY <1>1 DEF SoundMessage, FollowsPrev

LEMMA ReplyMessages ==
  ASSUME NEW type \in {"replyappendentry", "replyrequestvote"},
         NEW term \in Nat, NEW success \in BOOLEAN
  PROVE  [type |-> type, term |-> term, success |-> success] \in SoundMessage
<1> DEFINE m == [type |-> type, term |-> term, success |-> success]
<1>1. m \in Message /\ m.type # "appendentry"
  BY DEF Message
<1>2. QED
  BY <1>1 DEF SoundMessage, FollowsPrev

(* What the head of a channel is made of. *)
LEMMA ReceivedMessage ==
  ASSUME LogInv, NEW i \in Node, NEW j \in Node, NEW type, Receives(i, j, type)
  PROVE  /\ chan[j][i] # << >>
         /\ Received(i, j) \in SoundMessage
         /\ Received(i, j).type = type
         /\ type = "appendentry" =>
              Received(i, j) \in
                [type: {"appendentry"}, term: Nat, prevLogIndex: Nat,
                 prevLogTerm: Nat, entry: Entry, leaderCommit: Nat]
         /\ type \in {"replyappendentry", "replyrequestvote"} =>
              Received(i, j) \in
                [type: {"replyappendentry", "replyrequestvote"}, term: Nat,
                 success: BOOLEAN]
         /\ type = "requestvote" =>
              Received(i, j) \in
                [type: {"requestvote"}, term: Nat, lastLogIndex: Nat,
                 lastLogTerm: Nat]
<1> DEFINE m == Received(i, j)
<1>1. chan[j][i] # << >> /\ m.type = type
  BY DEF Receives
<1>2. m \in SoundMessage
  <2>1. chan[j][i] \in Seq(SoundMessage)
    BY DEF LogInv, Channels
  <2>2. QED
    BY <1>1, <2>1 DEF Received
<1>3. m \in Message
  BY <1>2 DEF SoundMessage
<1> HIDE DEF m
<1>4. /\ m \in [type: {"clusternode", "replyclusternode", "eof"}] =>
            m.type \in {"clusternode", "replyclusternode", "eof"}
      /\ m \in [type: {"appendentry"}, term: Nat, prevLogIndex: Nat,
                prevLogTerm: Nat, entry: Entry, leaderCommit: Nat] =>
            m.type = "appendentry"
      /\ m \in [type: {"replyappendentry", "replyrequestvote"}, term: Nat,
                success: BOOLEAN] =>
            m.type \in {"replyappendentry", "replyrequestvote"}
      /\ m \in [type: {"requestvote"}, term: Nat, lastLogIndex: Nat,
                lastLogTerm: Nat] => m.type = "requestvote"
  OBVIOUS
<1>5. QED
  BY <1>1, <1>2, <1>3, <1>4 DEF Message, m

-----------------------------------------------------------------------------
(* Pieces of the actions. *)

LEMMA LogFiles ==
  ASSUME LogInv, NEW i \in Node
  PROVE  log[i] \in DenseFile
BY DEF LogInv, TypeOK, IndexDense, DenseFile

LEMMA ChannelMessages ==
  ASSUME NEW c \in Channels(SoundMessage)
  PROVE  c \in Channels(Message)
<1>1. ASSUME NEW s \in Seq(SoundMessage)
      PROVE  s \in Seq(Message)
  <2>1. /\ Len(s) \in Nat
        /\ s \in [1 .. Len(s) -> SoundMessage]
    OBVIOUS
  <2>2. s \in [1 .. Len(s) -> Message]
    BY <2>1 DEF SoundMessage
  <2>3. QED
    BY <2>1, <2>2
<1>2. QED
  BY <1>1 DEF Channels

SpentType ==
  [timeout: [Node -> Nat], request: Nat, crash: Nat, deleteCrash: Nat,
   restart: Nat, reset: Nat, childLoss: Nat, diskFault: Nat]

LEMMA SpendType ==
  ASSUME LogInv,
         NEW bound \in {"request", "crash", "deleteCrash", "restart", "reset",
                        "childLoss", "diskFault"},
         Spend(bound)
  PROVE  spent' \in SpentType
<1>1. spent \in SpentType /\ spent' = [spent EXCEPT ![bound] = @ + 1]
  BY DEF LogInv, TypeOK, Spend, SpentType
<1>2. CASE bound \in {"request", "crash", "deleteCrash"}
  BY <1>1, <1>2 DEF SpentType
<1>3. CASE bound \in {"restart", "reset"}
  BY <1>1, <1>3 DEF SpentType
<1>4. CASE bound \in {"childLoss", "diskFault"}
  BY <1>1, <1>4 DEF SpentType
<1>5. QED
  BY <1>2, <1>3, <1>4

(* A process that ends keeps the invariant whether its file is left alone or
   lost. *)
LEMMA StopInv ==
  ASSUME LogInv, NEW i \in Node, NEW reason \in {"down"} \cup ExitReason,
         NEW received, Stop(i, reason, received),
         log' = log \/ log' = [log EXCEPT ![i] = << >>],
         spent' \in SpentType
  PROVE  LogInv'
<1>1. chan' \in Channels(SoundMessage)
  BY HangupType, PlainMessages DEF Stop, LogInv
<1>2. /\ log' \in [Node -> Seq(Entry)]
      /\ IndexDense'
      /\ \A k \in Node \ {i} : log'[k] = log[k]
  <2>1. << >> \in Seq(Entry) /\ Dense(<< >>)
    BY EmptyDense DEF DenseFile
  <2>2. log \in [Node -> Seq(Entry)] /\ \A k \in Node : Dense(log[k])
    BY DEF LogInv, TypeOK, IndexDense
  <2>3. \A k \in Node : log'[k] = log[k] \/ (k = i /\ log'[k] = << >>)
    BY <2>2
  <2>4. QED
    BY <2>1, <2>2, <2>3 DEF IndexDense
<1>3. /\ link' \in Table({"none", "trying", "up"})
      /\ nextIndex' \in Table(Nat)
      /\ matchIndex' \in Table(Nat)
      /\ alreadyAppendEntry' \in Table(BOOLEAN)
      /\ emptyAppendEntry' \in Table(BOOLEAN)
  BY SetType DEF Stop, LogInv, TypeOK, Table
<1>4. TypeOK'
  BY <1>1, <1>2, <1>3, ChannelMessages DEF Stop, LogInv, TypeOK, Table, SpentType
<1>5. LeaderKnowsLastEntry'
  BY <1>2 DEF Stop, LogInv, TypeOK, LeaderKnowsLastEntry
<1>6. QED
  BY <1>1, <1>2, <1>4, <1>5 DEF LogInv

(* A handler that leaves the files, the leaders and their last entry alone. *)
LEMMA QuietInv ==
  ASSUME LogInv, TypeOK', chan' \in Channels(SoundMessage),
         log' = log, lastEntryIndex' = lastEntryIndex,
         \A i \in Node : role'[i] = "L" => role[i] = "L"
  PROVE  LogInv'
BY DEF LogInv, IndexDense, LeaderKnowsLastEntry

LEMMA ToFollowType ==
  ASSUME LogInv, NEW i \in Node, NEW term \in Nat, ToFollow(i, term)
  PROVE  /\ role' \in [Node -> {"F", "C", "L"}]
         /\ role' = [role EXCEPT ![i] = "F"]
         /\ currentTerm' \in [Node -> Nat]
         /\ votedFor' \in [Node -> Node \cup {None}]
BY DEF ToFollow, LogInv, TypeOK

LEMMA AddSiblingsType ==
  ASSUME LogInv, NEW i \in Node, NEW S, NEW status \in {"trying", "up"},
         AddSiblings(i, S, status)
  PROVE  /\ link' \in Table({"none", "trying", "up"})
         /\ nextIndex' \in Table(Nat)
         /\ matchIndex' \in Table(Nat)
<1>1. commitIndex[i] + 1 \in Nat
  <2>1. commitIndex \in [Node -> Nat]
    BY DEF LogInv, TypeOK
  <2>2. QED
    BY <2>1
<1>2. QED
  BY <1>1, SetType DEF AddSiblings, LogInv, TypeOK, Table

(* A new leader numbers entries from the end of its own file. *)
LEMMA ToLeadType ==
  ASSUME LogInv, NEW i \in Node, ToLead(i)
  PROVE  /\ role' \in [Node -> {"F", "C", "L"}]
         /\ role' = [role EXCEPT ![i] = "L"]
         /\ votedFor' \in [Node -> Node \cup {None}]
         /\ lastEntryIndex' = [lastEntryIndex EXCEPT ![i] = Len(log[i])]
         /\ lastEntryIndex' \in [Node -> Nat]
         /\ commitIndex' \in [Node -> Nat]
         /\ nextIndex' \in Table(Nat)
         /\ matchIndex' \in Table(Nat)
         /\ alreadyAppendEntry' \in Table(BOOLEAN)
         /\ currentTerm' = currentTerm
<1> DEFINE file == log[i]
<1>0. file \in DenseFile
  BY LogFiles
<1>1. FindLastEntry(file).index = Len(file) /\ Len(file) \in Nat
  <2> HIDE DEF file
  <2>1. QED
    BY <1>0, FindLastEntryDense DEF DenseFile
<1>2. Len(file) + 1 \in Nat
  BY <1>1
<1>3. QED
  BY <1>1, <1>2, SetType DEF ToLead, LogInv, TypeOK, Table

(* What every cron() begins with. *)
LEMMA CronBeginsType ==
  ASSUME LogInv, NEW i \in Node, CronBegins(i)
  PROVE  lastApplied' \in [Node -> Nat]
BY SMTT(30) DEF CronBegins, LogInv, TypeOK

-----------------------------------------------------------------------------
(* cron() *)

LEMMA CronReconnectInv ==
  ASSUME LogInv, NEW i \in Node, NEW reachable \in BOOLEAN,
         CronReconnect(i, reachable)
  PROVE  LogInv'
<1> DEFINE dialled == IF SiblingsBaseline(i) THEN {} ELSE LostSiblings(i)
<1>1. chan' \in Channels(SoundMessage)
  BY DialType, PlainMessages DEF CronReconnect, LogInv
<1>2. AddSiblings(i, dialled, "trying")
  BY DEF CronReconnect
<1>3. /\ link' \in Table({"none", "trying", "up"})
      /\ nextIndex' \in Table(Nat)
      /\ matchIndex' \in Table(Nat)
  BY <1>2, AddSiblingsType
<1>4. alreadyAppendEntry' \in Table(BOOLEAN)
  BY SetType DEF CronReconnect, LogInv, TypeOK, Table
<1>5. /\ role' \in [Node -> {"F", "C", "L"}]
      /\ \A k \in Node : role'[k] = "L" => role[k] = "L"
      /\ currentTerm' \in [Node -> Nat]
      /\ votedFor' \in [Node -> Node \cup {None}]
  <2>1. CASE role[i] = "F"
    BY <2>1 DEF CronReconnect, LogInv, TypeOK
  <2>2. CASE role[i] # "F"
    <3>1. ToFollow(i, currentTerm[i]) /\ currentTerm[i] \in Nat
      BY <2>2 DEF CronReconnect, LogInv, TypeOK
    <3>2. \A k \in Node : [role EXCEPT ![i] = "F"][k] = "L" => role[k] = "L"
      BY DEF LogInv, TypeOK
    <3>3. QED
      BY <3>1, <3>2, ToFollowType
  <2>3. QED
    BY <2>1, <2>2
<1>6. /\ leaderId' \in [Node -> Node \cup {None}]
      /\ lastApplied' \in [Node -> Nat]
      /\ childrenUp' \in [Node -> BOOLEAN]
  BY DEF CronReconnect, LogInv, TypeOK
<1>7. TypeOK'
  BY <1>1, <1>3, <1>4, <1>5, <1>6, ChannelMessages
     DEF CronReconnect, LogInv, TypeOK, Table, fileVars
<1>8. QED
  BY <1>1, <1>5, <1>7, QuietInv DEF CronReconnect, fileVars

LEMMA CronIdleInv ==
  ASSUME LogInv, NEW i \in Node, CronIdle(i)
  PROVE  LogInv'
<1>1. chan' \in Channels(SoundMessage)
  BY DialType, PlainMessages DEF CronIdle, LogInv
<1>2. AddSiblings(i, LostSiblings(i), "trying") /\ CronBegins(i)
  BY DEF CronIdle
<1>3. /\ link' \in Table({"none", "trying", "up"})
      /\ nextIndex' \in Table(Nat)
      /\ matchIndex' \in Table(Nat)
      /\ lastApplied' \in [Node -> Nat]
  BY <1>2, AddSiblingsType, CronBeginsType
<1>4. alreadyAppendEntry' \in Table(BOOLEAN)
  BY SetType DEF CronIdle, LogInv, TypeOK, Table
<1>5. TypeOK'
  BY <1>1, <1>3, <1>4, ChannelMessages
     DEF CronIdle, LogInv, TypeOK, Table, fileVars, clusterVars
<1>6. QED
  BY <1>1, <1>5, QuietInv DEF CronIdle, fileVars, clusterVars

LEMMA CronTimeoutInv ==
  ASSUME LogInv, NEW i \in Node, CronTimeout(i)
  PROVE  LogInv'
<1>1. /\ role' \in [Node -> {"F", "C", "L"}]
      /\ \A k \in Node : role'[k] = "L" => role[k] = "L"
      /\ currentTerm' \in [Node -> Nat]
      /\ votedFor' \in [Node -> Node \cup {None}]
      /\ receiveVotes' \in [Node -> Nat]
  <2>1. /\ role' = [role EXCEPT ![i] = "C"]
        /\ currentTerm' = [currentTerm EXCEPT ![i] = @ + 1]
        /\ votedFor' = [votedFor EXCEPT ![i] = i]
        /\ receiveVotes' = [receiveVotes EXCEPT ![i] = 1]
    BY DEF CronTimeout, ToCandidate
  <2>2. /\ role' \in [Node -> {"F", "C", "L"}]
        /\ \A k \in Node : role'[k] = "L" => role[k] = "L"
    BY <2>1 DEF LogInv, TypeOK
  <2>3. currentTerm' \in [Node -> Nat] /\ receiveVotes' \in [Node -> Nat]
    BY <2>1, SMTT(30) DEF LogInv, TypeOK
  <2>4. votedFor' \in [Node -> Node \cup {None}]
    BY <2>1 DEF LogInv, TypeOK
  <2>5. QED
    BY <2>2, <2>3, <2>4
<1>2. spent' \in SpentType
  <2>1. spent.timeout \in [Node -> Nat] /\ spent \in SpentType
    BY DEF LogInv, TypeOK, SpentType
  <2>2. [spent.timeout EXCEPT ![i] = @ + 1] \in [Node -> Nat]
    BY <2>1
  <2>3. spent' = [spent EXCEPT !.timeout = [spent.timeout EXCEPT ![i] = @ + 1]]
    BY <2>1 DEF CronTimeout, SpentType
  <2>4. QED
    BY <2>1, <2>2, <2>3 DEF SpentType
<1>3. RequestVote(i) \in SoundMessage
  <2> DEFINE last == FindLastEntry(log[i])
  <2>1. last.index \in Nat /\ last.term \in Nat
    BY LogFiles, FindLastEntryDense DEF Entry
  <2>2. RequestVote(i) \in Message /\ RequestVote(i).type = "requestvote"
    <3> HIDE DEF last
    <3>1. currentTerm'[i] \in Nat
      BY <1>1
    <3>2. QED
      BY <2>1, <3>1 DEF RequestVote, Message, last
  <2>3. QED
    BY <2>2 DEF SoundMessage, FollowsPrev
<1>4. chan' \in Channels(SoundMessage)
  <2> DEFINE dialled == Dial(chan, i, LostSiblings(i), Alive)
             message == [j \in Node |-> RequestVote(i)]
  <2>1. dialled \in Channels(SoundMessage)
    BY DialType, PlainMessages DEF LogInv
  <2>2. \A j \in NeedAppendEntry(i) : message[j] \in SoundMessage
    BY <1>3 DEF NeedAppendEntry, ConnectedSiblings, Sibling
  <2> HIDE DEF dialled, message
  <2>3. Broadcast(dialled, i, NeedAppendEntry(i), message) \in Channels(SoundMessage)
    BY <2>1, <2>2, BroadcastType
  <2>4. QED
    BY <2>3 DEF CronTimeout, dialled, message
<1>5. AddSiblings(i, LostSiblings(i), "trying") /\ CronBegins(i)
  BY DEF CronTimeout
<1>6. /\ link' \in Table({"none", "trying", "up"})
      /\ nextIndex' \in Table(Nat)
      /\ matchIndex' \in Table(Nat)
      /\ lastApplied' \in [Node -> Nat]
  BY <1>5, AddSiblingsType, CronBeginsType
<1>7. alreadyAppendEntry' \in Table(BOOLEAN)
  BY SetType DEF CronTimeout, LogInv, TypeOK, Table
<1>8. TypeOK'
  BY <1>1, <1>2, <1>4, <1>6, <1>7, ChannelMessages
     DEF CronTimeout, LogInv, TypeOK, Table, SpentType, fileVars
<1>9. QED
  BY <1>1, <1>4, <1>8, QuietInv DEF CronTimeout, fileVars

(* A node that comes to lead knows its last entry. *)
LEMMA LeadInv ==
  ASSUME LogInv, NEW i \in Node, ToLead(i), TypeOK',
         chan' \in Channels(SoundMessage), log' = log
  PROVE  LogInv'
<1>1. LeaderKnowsLastEntry'
  <2>1. /\ role' = [role EXCEPT ![i] = "L"]
        /\ lastEntryIndex' = [lastEntryIndex EXCEPT ![i] = Len(log[i])]
    BY ToLeadType
  <2>2. QED
    BY <2>1 DEF LogInv, TypeOK, LeaderKnowsLastEntry
<1>2. QED
  BY <1>1 DEF LogInv, IndexDense

LEMMA CronWinInv ==
  ASSUME LogInv, NEW i \in Node, CronWin(i)
  PROVE  LogInv'
<1>1. ToLead(i) /\ CronBegins(i)
  BY DEF CronWin
<1>2. chan' \in Channels(SoundMessage)
  BY DEF CronWin, LogInv
<1>3. TypeOK'
  BY <1>1, ToLeadType, CronBeginsType
     DEF CronWin, LogInv, TypeOK, Table, fileVars
<1>4. QED
  BY <1>1, <1>2, <1>3, LeadInv DEF CronWin, fileVars

(* What a leader sends carries the entry after the one it names. *)
LEMMA AppendEntrySound ==
  ASSUME LogInv, NEW i \in Node, NEW j \in Node
  PROVE  AppendEntry(i, j) \in SoundMessage
<1> DEFINE file == log[i]
           n    == nextIndex[i][j]
           next == FindEntry(file, n)
           prev == IF n > 1 THEN FindEntry(file, n - 1) ELSE NullEntry
<1>1. /\ file \in DenseFile
      /\ n \in Nat
      /\ currentTerm[i] \in Nat
      /\ commitIndex[i] \in Nat
  <2>1. file \in DenseFile
    BY LogFiles
  <2>2. n \in Nat /\ currentTerm[i] \in Nat /\ commitIndex[i] \in Nat
    BY DEF LogInv, TypeOK
  <2>3. QED
    BY <2>1, <2>2
<1> HIDE DEF file, n
<1>2. /\ next \in Entry
      /\ next.index # 0 => next.index = n /\ n \in 1 .. Len(file)
  BY <1>1, FindEntryDense, HasEntryDense DEF NullEntry
<1>3. /\ prev \in Entry
      /\ n > 1 /\ n \in 1 .. Len(file) => prev.index = n - 1
      /\ n = 1 => prev.index = 0
  <2>1. CASE n > 1
    <3>1. n - 1 \in Nat
      BY <1>1, <2>1
    <3>2. n \in 1 .. Len(file) => n - 1 \in 1 .. Len(file)
      BY <1>1, <2>1
    <3>3. QED
      BY <1>1, <2>1, <3>1, <3>2, FindEntryDense, HasEntryDense
  <2>2. CASE ~(n > 1)
    BY <2>2, NullEntryType DEF NullEntry
  <2>3. QED
    BY <2>1, <2>2
<1>4. next.index # 0 => next.index = prev.index + 1
  BY <1>1, <1>2, <1>3
<1>5. prev.index \in Nat /\ prev.term \in Nat
  BY <1>3 DEF Entry
<1> HIDE DEF next, prev
<1> DEFINE m == [type |-> "appendentry", term |-> currentTerm[i],
                 prevLogIndex |-> prev.index, prevLogTerm |-> prev.term,
                 entry |-> next, leaderCommit |-> commitIndex[i]]
<1>6. m \in Message
  BY <1>1, <1>2, <1>5 DEF Message
<1>7. FollowsPrev(m)
  BY <1>4 DEF FollowsPrev
<1>8. AppendEntry(i, j) = m
  BY DEF AppendEntry, m, next, prev, n, file
<1>9. QED
  BY <1>6, <1>7, <1>8 DEF SoundMessage

LEMMA SendAppendEntriesType ==
  ASSUME LogInv, NEW i \in Node, NEW S, S \subseteq Node, SendAppendEntries(i, S)
  PROVE  /\ chan' \in Channels(SoundMessage)
         /\ link' \in Table({"none", "trying", "up"})
         /\ nextIndex' \in Table(Nat)
         /\ matchIndex' \in Table(Nat)
         /\ alreadyAppendEntry' \in Table(BOOLEAN)
         /\ emptyAppendEntry' \in Table(BOOLEAN)
<1> DEFINE dialled == Dial(chan, i, LostSiblings(i), Alive)
           message == [j \in Node |-> AppendEntry(i, j)]
<1>1. dialled \in Channels(SoundMessage)
  BY DialType, PlainMessages DEF LogInv
<1>2. \A j \in S : message[j] \in SoundMessage
  BY AppendEntrySound
<1>3. chan' \in Channels(SoundMessage)
  <2> HIDE DEF dialled, message
  <2>1. Broadcast(dialled, i, S, message) \in Channels(SoundMessage)
    BY <1>1, <1>2, BroadcastType
  <2>2. QED
    BY <2>1 DEF SendAppendEntries, dialled, message
<1>4. /\ link' \in Table({"none", "trying", "up"})
      /\ nextIndex' \in Table(Nat)
      /\ matchIndex' \in Table(Nat)
  BY AddSiblingsType DEF SendAppendEntries
<1>5. alreadyAppendEntry' \in Table(BOOLEAN)
  <2>1. alreadyAppendEntry \in Table(BOOLEAN)
    BY DEF LogInv, TypeOK, Table
  <2>2. Set(alreadyAppendEntry, i, LostSiblings(i), FALSE) \in Table(BOOLEAN)
    BY <2>1, SetType
  <2>3. Set(Set(alreadyAppendEntry, i, LostSiblings(i), FALSE), i, S, TRUE)
          \in Table(BOOLEAN)
    BY <2>2, SetType
  <2>4. QED
    BY <2>3 DEF SendAppendEntries
<1>6. emptyAppendEntry' \in Table(BOOLEAN)
  <2>1. \A j \in Node : Heartbeat(i, j) \in BOOLEAN
    BY DEF Heartbeat
  <2> DEFINE row == [j \in Node |-> IF j \in NeedAppendEntry(i) /\ ~BeyondLog(i, j)
                                   THEN Heartbeat(i, j)
                                   ELSE emptyAppendEntry[i][j]]
  <2>2. emptyAppendEntry \in Table(BOOLEAN)
    BY DEF LogInv, TypeOK, Table
  <2>3. row \in [Node -> BOOLEAN]
    BY <2>1, <2>2 DEF Table
  <2>4. emptyAppendEntry' = [emptyAppendEntry EXCEPT ![i] = row]
    BY DEF SendAppendEntries
  <2> HIDE DEF row
  <2>5. QED
    BY <2>2, <2>3, <2>4 DEF Table
<1>7. QED
  BY <1>3, <1>4, <1>5, <1>6

LEMMA CronLeadInv ==
  ASSUME LogInv, NEW i \in Node, CronLead(i)
  PROVE  LogInv'
<1>1. /\ SendAppendEntries(i, NeedAppendEntry(i))
      /\ NeedAppendEntry(i) \subseteq Node
      /\ CronBegins(i)
  BY DEF CronLead, NeedAppendEntry, ConnectedSiblings, Sibling
<1>2. chan' \in Channels(SoundMessage)
  BY <1>1, SendAppendEntriesType
<1>3. TypeOK'
  BY <1>1, <1>2, SendAppendEntriesType, CronBeginsType, ChannelMessages
     DEF CronLead, LogInv, TypeOK, Table, clusterVars, fileVars
<1>4. QED
  BY <1>2, <1>3, QuietInv DEF CronLead, clusterVars, fileVars

LEMMA CronLeadStepsDownInv ==
  ASSUME LogInv, NEW i \in Node, CronLeadStepsDown(i)
  PROVE  LogInv'
<1> DEFINE S == NeedAppendEntry(i) \ Unservable(i)
<1>1. /\ SendAppendEntries(i, S)
      /\ S \subseteq Node
      /\ CronBegins(i)
      /\ ToFollow(i, currentTerm[i])
      /\ currentTerm[i] \in Nat
  BY DEF CronLeadStepsDown, NeedAppendEntry, ConnectedSiblings, Sibling,
         LogInv, TypeOK
<1> HIDE DEF S
<1>2. chan' \in Channels(SoundMessage)
  BY <1>1, SendAppendEntriesType
<1>3. /\ role' \in [Node -> {"F", "C", "L"}]
      /\ role' = [role EXCEPT ![i] = "F"]
      /\ currentTerm' \in [Node -> Nat]
      /\ votedFor' \in [Node -> Node \cup {None}]
  BY <1>1, ToFollowType
<1>4. TypeOK'
  BY <1>1, <1>2, <1>3, SendAppendEntriesType, CronBeginsType, ChannelMessages
     DEF CronLeadStepsDown, LogInv, TypeOK, Table, fileVars
<1>5. \A k \in Node : role'[k] = "L" => role[k] = "L"
  BY <1>3 DEF LogInv, TypeOK
<1>6. QED
  BY <1>2, <1>4, <1>5, QuietInv DEF CronLeadStepsDown, fileVars

LEMMA CronExitsInv ==
  ASSUME LogInv, NEW i \in Node, NEW received,
         CronFlushExits(i, received) \/ CronLeadExits(i, received)
  PROVE  LogInv'
<1>1. PICK reason \in ExitReason : Stop(i, reason, received)
  BY DEF CronFlushExits, CronLeadExits, ExitReason
<1>2. log' = log /\ spent' \in SpentType
  BY DEF CronFlushExits, CronLeadExits, LogInv, TypeOK, SpentType
<1>3. QED
  BY <1>1, <1>2, StopInv

LEMMA CronInv ==
  ASSUME LogInv, NEW i \in Node, Cron(i)
  PROVE  LogInv'
BY CronReconnectInv, CronIdleInv, CronTimeoutInv, CronWinInv, CronLeadInv,
   CronLeadStepsDownInv, CronExitsInv DEF Cron

-----------------------------------------------------------------------------
(* Append entries. *)

AppendEntryMessage ==
  [type: {"appendentry"}, term: Nat, prevLogIndex: Nat, prevLogTerm: Nat,
   entry: Entry, leaderCommit: Nat]

LEMMA AfterMismatchDense ==
  ASSUME NEW file \in DenseFile, NEW m \in AppendEntryMessage
  PROVE  AfterMismatch(file, m) \in DenseFile
<1>1. m.prevLogIndex \in Nat
  BY DEF AppendEntryMessage
<1>2. QED
  BY <1>1, DeleteEntryAfterDense, EmptyDense DEF AfterMismatch

(* Once the previous entry is found, the file is cut to end with it: the
   entry that follows it can be appended without a gap. *)
LEMMA CutAfterPrevDense ==
  ASSUME NEW file \in DenseFile, NEW m \in AppendEntryMessage,
         ~Mismatch(file, m)
  PROVE  /\ CutAfterPrev(file, m) \in DenseFile
         /\ Len(CutAfterPrev(file, m)) = m.prevLogIndex
<1> DEFINE prev == m.prevLogIndex
           last == FindLastEntry(file)
<1>1. /\ prev \in Nat
      /\ Len(file) \in Nat
      /\ last.index = Len(file)
  BY FindLastEntryDense DEF AppendEntryMessage, DenseFile
<1>2. CASE prev = 0
  <2>1. file = << >>
    BY <1>2 DEF Mismatch
  <2>2. CutAfterPrev(file, m) = file
    BY <1>2 DEF CutAfterPrev
  <2>3. QED
    BY <1>2, <2>1, <2>2
<1>3. CASE prev # 0
  <2>1. /\ HasEntry(file, prev)
        /\ FindEntry(file, prev).term = m.prevLogTerm
    BY <1>3 DEF Mismatch
  <2>2. /\ prev \in 1 .. Len(file)
        /\ file[prev].term = m.prevLogTerm
    BY <1>1, <2>1, HasEntryDense, FindEntryDense
  <2>3. CASE last.index = prev /\ last.term = m.prevLogTerm
    BY <1>1, <2>3 DEF CutAfterPrev
  <2>4. CASE ~(last.index = prev /\ last.term = m.prevLogTerm)
    <3>1. CutAfterPrev(file, m) = DeleteEntryAfter(file, prev + 1)
      BY <1>3, <2>4 DEF CutAfterPrev
    <3>2. prev # Len(file)
      <4>1. SUFFICES ASSUME prev = Len(file) PROVE FALSE
        OBVIOUS
      <4>2. file # << >>
        BY <2>2
      <4>3. last = file[Len(file)]
        BY <4>2, FindLastEntryDense
      <4>4. QED
        BY <1>1, <2>2, <2>4, <4>1, <4>3
    <3>3. prev + 1 \in Nat /\ HasEntry(file, prev + 1)
      BY <1>1, <2>2, <3>2, HasEntryDense
    <3>4. QED
      BY <1>1, <3>1, <3>3, DeleteEntryAfterDense
  <2>5. QED
    BY <2>3, <2>4
<1>4. QED
  BY <1>2, <1>3

LEMMA AfterAppendDense ==
  ASSUME NEW file \in DenseFile, NEW m \in AppendEntryMessage,
         ~Mismatch(file, m), FollowsPrev(m)
  PROVE  AfterAppend(file, m) \in DenseFile
<1>1. /\ CutAfterPrev(file, m) \in DenseFile
      /\ Len(CutAfterPrev(file, m)) = m.prevLogIndex
  BY CutAfterPrevDense
<1>2. CASE Carries(m)
  <2>1. m.entry \in Entry /\ m.entry.index = m.prevLogIndex + 1
    BY <1>2 DEF Carries, FollowsPrev, AppendEntryMessage
  <2>2. QED
    BY <1>1, <1>2, <2>1, AppendDense DEF AfterAppend
<1>3. CASE ~Carries(m)
  BY <1>1, <1>3 DEF AfterAppend
<1>4. QED
  BY <1>2, <1>3

(* A node that obeys an append entry follows. *)
LEMMA FollowType ==
  ASSUME LogInv, NEW i \in Node, NEW j \in Node, NEW m \in AppendEntryMessage,
         Follow(i, j, m)
  PROVE  /\ role' \in [Node -> {"F", "C", "L"}]
         /\ role' = [role EXCEPT ![i] = "F"]
         /\ currentTerm' \in [Node -> Nat]
         /\ votedFor' \in [Node -> Node \cup {None}]
         /\ leaderId' \in [Node -> Node \cup {None}]
<1>1. leaderId' \in [Node -> Node \cup {None}]
  BY DEF Follow, LogInv, TypeOK
<1>2. CASE role[i] = "F" /\ m.term <= currentTerm[i]
  <2>1. UNCHANGED <<role, currentTerm, votedFor>>
    BY <1>2 DEF Follow
  <2>2. /\ role \in [Node -> {"F", "C", "L"}]
        /\ currentTerm \in [Node -> Nat]
        /\ votedFor \in [Node -> Node \cup {None}]
    BY DEF LogInv, TypeOK
  <2>3. role = [role EXCEPT ![i] = "F"]
    BY <1>2, <2>2
  <2>4. QED
    BY <1>1, <2>1, <2>2, <2>3
<1>3. CASE ~(role[i] = "F" /\ m.term <= currentTerm[i])
  <2>1. ToFollow(i, m.term) /\ m.term \in Nat
    BY <1>3 DEF Follow, AppendEntryMessage
  <2>2. QED
    BY <1>1, <2>1, ToFollowType
<1>4. QED
  BY <1>2, <1>3

(* A follower whose file becomes a dense file. *)
LEMMA FollowerFileInv ==
  ASSUME LogInv, TypeOK', chan' \in Channels(SoundMessage), NEW i \in Node,
         NEW file \in DenseFile, log' = [log EXCEPT ![i] = file],
         role' = [role EXCEPT ![i] = "F"], lastEntryIndex' = lastEntryIndex
  PROVE  LogInv'
<1>1. IndexDense'
  <2>1. log \in [Node -> Seq(Entry)] /\ \A k \in Node : Dense(log[k])
    BY DEF LogInv, TypeOK, IndexDense
  <2>2. Dense(file)
    BY DEF DenseFile
  <2>3. QED
    BY <2>1, <2>2 DEF IndexDense
<1>2. LeaderKnowsLastEntry'
  BY DEF LogInv, TypeOK, LeaderKnowsLastEntry
<1>3. QED
  BY <1>1, <1>2 DEF LogInv

LEMMA AppendEntryRefusedInv ==
  ASSUME LogInv, NEW i \in Node, NEW j \in Node, AppendEntryRefused(i, j)
  PROVE  LogInv'
<1>1. Receives(i, j, "appendentry")
  BY DEF AppendEntryRefused
<1>2. [type |-> "replyappendentry", term |-> currentTerm[i], success |-> FALSE]
        \in SoundMessage
  BY ReplyMessages DEF LogInv, TypeOK
<1>3. chan' \in Channels(SoundMessage)
  BY <1>1, <1>2, ReceivedMessage, AnswerType DEF AppendEntryRefused, LogInv
<1>4. TypeOK'
  BY <1>3, ChannelMessages
     DEF AppendEntryRefused, LogInv, TypeOK, clusterVars, indexVars, fileVars,
         peerVars
<1>5. QED
  BY <1>3, <1>4, QuietInv
     DEF AppendEntryRefused, clusterVars, indexVars, fileVars

(* The three handlers that obey differ in the file they leave. *)
LEMMA AppendEntryObeyed ==
  ASSUME LogInv, NEW i \in Node, NEW j \in Node,
         Receives(i, j, "appendentry"), Follow(i, j, Received(i, j)),
         NEW success \in BOOLEAN,
         chan' = Answer(chan, i, j, ReplyAppendEntry(i, success))
  PROVE  /\ Received(i, j) \in AppendEntryMessage
         /\ FollowsPrev(Received(i, j))
         /\ chan' \in Channels(SoundMessage)
         /\ role' \in [Node -> {"F", "C", "L"}]
         /\ role' = [role EXCEPT ![i] = "F"]
         /\ currentTerm' \in [Node -> Nat]
         /\ votedFor' \in [Node -> Node \cup {None}]
         /\ leaderId' \in [Node -> Node \cup {None}]
<1> DEFINE m == Received(i, j)
<1>1. /\ chan[j][i] # << >>
      /\ m \in AppendEntryMessage
      /\ m \in SoundMessage
  BY ReceivedMessage DEF AppendEntryMessage
<1>2. FollowsPrev(m)
  BY <1>1 DEF SoundMessage
<1> HIDE DEF m
<1>3. /\ role' \in [Node -> {"F", "C", "L"}]
      /\ role' = [role EXCEPT ![i] = "F"]
      /\ currentTerm' \in [Node -> Nat]
      /\ votedFor' \in [Node -> Node \cup {None}]
      /\ leaderId' \in [Node -> Node \cup {None}]
  BY <1>1, FollowType DEF m
<1>4. ReplyAppendEntry(i, success) \in SoundMessage
  <2>1. currentTerm'[i] \in Nat
    BY <1>3
  <2>2. QED
    BY <2>1, ReplyMessages DEF ReplyAppendEntry
<1>5. chan' \in Channels(SoundMessage)
  BY <1>1, <1>4, AnswerType DEF LogInv
<1>6. QED
  BY <1>1, <1>2, <1>3, <1>5 DEF m

LEMMA AppendEntryMismatchInv ==
  ASSUME LogInv, NEW i \in Node, NEW j \in Node, AppendEntryMismatch(i, j)
  PROVE  LogInv'
<1> DEFINE m    == Received(i, j)
           file == AfterMismatch(log[i], m)
<1>1. /\ Receives(i, j, "appendentry")
      /\ Follow(i, j, m)
      /\ chan' = Answer(chan, i, j, ReplyAppendEntry(i, FALSE))
  BY DEF AppendEntryMismatch
<1>2. /\ m \in AppendEntryMessage
      /\ chan' \in Channels(SoundMessage)
      /\ role' \in [Node -> {"F", "C", "L"}]
      /\ role' = [role EXCEPT ![i] = "F"]
      /\ currentTerm' \in [Node -> Nat]
      /\ votedFor' \in [Node -> Node \cup {None}]
      /\ leaderId' \in [Node -> Node \cup {None}]
  BY <1>1, AppendEntryObeyed
<1>3. log[i] \in DenseFile
  BY LogFiles
<1>4. file \in DenseFile
  BY <1>2, <1>3, AfterMismatchDense
<1>5. log' = [log EXCEPT ![i] = file]
  BY DEF AppendEntryMismatch
<1>6. PfGoodAfter(i, file) \in BOOLEAN
  BY DEF PfGoodAfter, LogInv, TypeOK
<1>7. pfGood' = [pfGood EXCEPT ![i] = PfGoodAfter(i, file)]
  BY DEF AppendEntryMismatch
<1> HIDE DEF file, m
<1>8. TypeOK'
  <2>1. log' \in [Node -> Seq(Entry)]
    BY <1>4, <1>5 DEF LogInv, TypeOK, DenseFile
  <2>2. pfGood' \in [Node -> BOOLEAN]
    BY <1>6, <1>7 DEF LogInv, TypeOK
  <2>3. QED
    BY <1>2, <2>1, <2>2, ChannelMessages
       DEF AppendEntryMismatch, LogInv, TypeOK, indexVars, peerVars
<1>9. QED
  BY <1>2, <1>4, <1>5, <1>8, FollowerFileInv DEF AppendEntryMismatch, indexVars

LEMMA AppendEntryFailsInv ==
  ASSUME LogInv, NEW i \in Node, NEW j \in Node, AppendEntryFails(i, j)
  PROVE  LogInv'
<1>1. /\ Receives(i, j, "appendentry")
      /\ Follow(i, j, Received(i, j))
      /\ chan' = Answer(chan, i, j, ReplyAppendEntry(i, FALSE))
  BY DEF AppendEntryFails
<1>2. /\ chan' \in Channels(SoundMessage)
      /\ role' \in [Node -> {"F", "C", "L"}]
      /\ role' = [role EXCEPT ![i] = "F"]
      /\ currentTerm' \in [Node -> Nat]
      /\ votedFor' \in [Node -> Node \cup {None}]
      /\ leaderId' \in [Node -> Node \cup {None}]
  BY <1>1, AppendEntryObeyed
<1>3. TypeOK'
  BY <1>2, ChannelMessages
     DEF AppendEntryFails, LogInv, TypeOK, indexVars, fileVars, peerVars
<1>4. \A k \in Node : role'[k] = "L" => role[k] = "L"
  BY <1>2 DEF LogInv, TypeOK
<1>5. QED
  BY <1>2, <1>3, <1>4, QuietInv DEF AppendEntryFails, indexVars, fileVars

LEMMA AppendEntryAcceptedInv ==
  ASSUME LogInv, NEW i \in Node, NEW j \in Node, AppendEntryAccepted(i, j)
  PROVE  LogInv'
<1> DEFINE m    == Received(i, j)
           file == AfterAppend(log[i], m)
<1>1. /\ Receives(i, j, "appendentry")
      /\ Follow(i, j, m)
      /\ ~Mismatch(log[i], m)
      /\ chan' = Answer(chan, i, j, ReplyAppendEntry(i, TRUE))
  BY DEF AppendEntryAccepted
<1>2. /\ m \in AppendEntryMessage
      /\ FollowsPrev(m)
      /\ chan' \in Channels(SoundMessage)
      /\ role' \in [Node -> {"F", "C", "L"}]
      /\ role' = [role EXCEPT ![i] = "F"]
      /\ currentTerm' \in [Node -> Nat]
      /\ votedFor' \in [Node -> Node \cup {None}]
      /\ leaderId' \in [Node -> Node \cup {None}]
  BY <1>1, AppendEntryObeyed
<1>3. log[i] \in DenseFile
  BY LogFiles
<1>4. file \in DenseFile
  BY <1>1, <1>2, <1>3, AfterAppendDense
<1>5. log' = [log EXCEPT ![i] = file]
  BY DEF AppendEntryAccepted
<1>6. PfGoodAfter(i, CutAfterPrev(log[i], m)) \in BOOLEAN
  BY DEF PfGoodAfter, LogInv, TypeOK
<1>7. pfGood' = [pfGood EXCEPT ![i] = PfGoodAfter(i, CutAfterPrev(log[i], m))]
  BY DEF AppendEntryAccepted
<1>8. FollowedCommit(i, m) \in Nat
  <2>1. FindLastEntry(file).index \in Nat
    BY <1>4, FindLastEntryDense DEF DenseFile
  <2>2. commitIndex[i] \in Nat /\ m.leaderCommit \in Nat
    BY <1>2 DEF LogInv, TypeOK, AppendEntryMessage
  <2>3. QED
    BY <2>1, <2>2 DEF FollowedCommit, Lesser
<1>9. commitIndex' = [commitIndex EXCEPT ![i] = FollowedCommit(i, m)]
  BY DEF AppendEntryAccepted
<1> HIDE DEF file, m
<1>10. TypeOK'
  <2>1. log' \in [Node -> Seq(Entry)]
    BY <1>4, <1>5 DEF LogInv, TypeOK, DenseFile
  <2>2. pfGood' \in [Node -> BOOLEAN]
    BY <1>6, <1>7 DEF LogInv, TypeOK
  <2>3. commitIndex' \in [Node -> Nat]
    BY <1>8, <1>9 DEF LogInv, TypeOK
  <2>4. QED
    BY <1>2, <2>1, <2>2, <2>3, ChannelMessages
       DEF AppendEntryAccepted, LogInv, TypeOK, peerVars
<1>11. QED
  BY <1>2, <1>4, <1>5, <1>10, FollowerFileInv DEF AppendEntryAccepted

LEMMA AppendEntryExitsInv ==
  ASSUME LogInv, NEW i \in Node, NEW j \in Node, NEW received,
         AppendEntryExits(i, j, received)
  PROVE  LogInv'
<1>1. Stop(i, "emptyLogCommit", received) /\ "emptyLogCommit" \in ExitReason
  BY DEF AppendEntryExits, ExitReason
<1>2. log' = log /\ spent' \in SpentType
  BY DEF AppendEntryExits, LogInv, TypeOK, SpentType
<1>3. QED
  BY <1>1, <1>2, StopInv

-----------------------------------------------------------------------------
(* Answers and votes. *)

LEMMA ConsumedType ==
  ASSUME LogInv, NEW i \in Node, NEW j \in Node, NEW type,
         Receives(i, j, type), chan' = Consume(chan, i, j)
  PROVE  chan' \in Channels(SoundMessage)
<1>1. chan[j][i] # << >>
  BY DEF Receives
<1>2. QED
  BY <1>1, ConsumeType DEF LogInv

LEMMA ReplyAppendEntryInv ==
  ASSUME LogInv, NEW i \in Node, NEW j \in Node,
         \/ ReplyAppendEntryIgnored(i, j)
         \/ ReplyAppendEntryHigherTerm(i, j)
         \/ ReplyAppendEntryFalse(i, j)
         \/ ReplyAppendEntryEmpty(i, j)
         \/ ReplyAppendEntryTrue(i, j)
  PROVE  LogInv'
<1>1. Receives(i, j, "replyappendentry") /\ chan' = Consume(chan, i, j)
  BY DEF ReplyAppendEntryIgnored, ReplyAppendEntryHigherTerm,
         ReplyAppendEntryFalse, ReplyAppendEntryEmpty, ReplyAppendEntryTrue
<1>2. chan' \in Channels(SoundMessage) /\ chan' \in Channels(Message)
  BY <1>1, ConsumedType, ChannelMessages
<1>3. Set(alreadyAppendEntry, i, {j}, FALSE) \in Table(BOOLEAN)
  BY SetType DEF LogInv, TypeOK, Table
<1>4. CASE ReplyAppendEntryIgnored(i, j)
  <2>1. TypeOK'
    BY <1>2, <1>4
       DEF ReplyAppendEntryIgnored, LogInv, TypeOK, clusterVars, indexVars,
           fileVars, peerVars
  <2>2. QED
    BY <1>2, <1>4, <2>1, QuietInv
       DEF ReplyAppendEntryIgnored, clusterVars, indexVars, fileVars
<1>5. CASE ReplyAppendEntryHigherTerm(i, j)
  <2>1. Received(i, j).term \in Nat
    BY <1>1, ReceivedMessage
  <2>2. ToFollow(i, Received(i, j).term)
    BY <1>5 DEF ReplyAppendEntryHigherTerm
  <2>3. /\ role' \in [Node -> {"F", "C", "L"}]
        /\ role' = [role EXCEPT ![i] = "F"]
        /\ currentTerm' \in [Node -> Nat]
        /\ votedFor' \in [Node -> Node \cup {None}]
    BY <2>1, <2>2, ToFollowType
  <2>4. TypeOK'
    BY <1>2, <1>5, <2>3
       DEF ReplyAppendEntryHigherTerm, LogInv, TypeOK, indexVars, fileVars,
           peerVars
  <2>5. \A k \in Node : role'[k] = "L" => role[k] = "L"
    BY <2>3 DEF LogInv, TypeOK
  <2>6. QED
    BY <1>2, <1>5, <2>4, <2>5, QuietInv
       DEF ReplyAppendEntryHigherTerm, indexVars, fileVars
<1>6. CASE ReplyAppendEntryFalse(i, j)
  <2>1. nextIndex' \in Table(Nat)
    <3>1. nextIndex \in Table(Nat)
      BY DEF LogInv, TypeOK, Table
    <3>2. Decreased(nextIndex[i][j]) \in Nat
      <4>1. nextIndex[i][j] \in Nat
        BY <3>1 DEF Table
      <4>2. QED
        BY <4>1 DEF Decreased
    <3>3. nextIndex' = [nextIndex EXCEPT ![i][j] = Decreased(nextIndex[i][j])]
      BY <1>6 DEF ReplyAppendEntryFalse
    <3>4. QED
      BY <3>1, <3>2, <3>3, CellType
  <2>2. TypeOK'
    BY <1>2, <1>3, <1>6, <2>1
       DEF ReplyAppendEntryFalse, LogInv, TypeOK, Table, clusterVars,
           indexVars, fileVars
  <2>3. QED
    BY <1>2, <1>6, <2>2, QuietInv
       DEF ReplyAppendEntryFalse, clusterVars, indexVars, fileVars
<1>7. CASE ReplyAppendEntryEmpty(i, j)
  <2>1. TypeOK'
    BY <1>2, <1>3, <1>7
       DEF ReplyAppendEntryEmpty, LogInv, TypeOK, Table, clusterVars,
           indexVars, fileVars
  <2>2. QED
    BY <1>2, <1>7, <2>1, QuietInv
       DEF ReplyAppendEntryEmpty, clusterVars, indexVars, fileVars
<1>8. CASE ReplyAppendEntryTrue(i, j)
  <2> DEFINE index   == nextIndex[i][j]
             matched == {k \in Sibling(i) : k = j \/ matchIndex[i][k] >= index}
  <2>1. index \in Nat
    BY DEF LogInv, TypeOK
  <2>2. CheckIfEntryCouldCommit(i, index, matched) \in Nat
    BY <2>1 DEF CheckIfEntryCouldCommit, LogInv, TypeOK
  <2>3. commitIndex' =
          [commitIndex EXCEPT ![i] = CheckIfEntryCouldCommit(i, index, matched)]
    BY <1>8 DEF ReplyAppendEntryTrue
  <2>4. commitIndex' \in [Node -> Nat]
    <3> HIDE DEF index, matched
    <3>1. QED
      BY <2>2, <2>3 DEF LogInv, TypeOK
  <2>5. nextIndex' \in Table(Nat) /\ matchIndex' \in Table(Nat)
    <3>1. nextIndex \in Table(Nat) /\ matchIndex \in Table(Nat)
      BY DEF LogInv, TypeOK, Table
    <3>2. /\ nextIndex' = [nextIndex EXCEPT ![i][j] = index + 1]
          /\ matchIndex' = [matchIndex EXCEPT ![i][j] = index]
      BY <1>8 DEF ReplyAppendEntryTrue
    <3>3. index + 1 \in Nat
      BY <2>1
    <3> HIDE DEF index
    <3>4. QED
      BY <2>1, <3>1, <3>2, <3>3, CellType
  <2>6. alreadyAppendEntry' \in Table(BOOLEAN)
    BY <1>3, <1>8 DEF ReplyAppendEntryTrue
  <2>7. TypeOK'
    BY <1>2, <1>8, <2>4, <2>5, <2>6
       DEF ReplyAppendEntryTrue, LogInv, TypeOK, Table, clusterVars, fileVars
  <2>8. QED
    BY <1>2, <1>8, <2>7, QuietInv
       DEF ReplyAppendEntryTrue, clusterVars, fileVars
<1>9. QED
  BY <1>4, <1>5, <1>6, <1>7, <1>8

LEMMA HandleRequestVoteInv ==
  ASSUME LogInv, NEW i \in Node, NEW j \in Node, HandleRequestVote(i, j)
  PROVE  LogInv'
<1> DEFINE m     == Received(i, j)
           term  == IF m.term > currentTerm[i] THEN m.term ELSE currentTerm[i]
           vote  == IF m.term > currentTerm[i] THEN None ELSE votedFor[i]
           reply == [type |-> "replyrequestvote", term |-> term,
                     success |-> Grants(i, m)]
<1>1. Receives(i, j, "requestvote")
  BY DEF HandleRequestVote
<1>2. chan[j][i] # << >> /\ m.term \in Nat
  BY <1>1, ReceivedMessage
<1>3. term \in Nat /\ vote \in Node \cup {None}
  BY <1>2 DEF LogInv, TypeOK
<1>4. Grants(i, m) \in BOOLEAN
  BY DEF Grants
<1>5. reply \in SoundMessage
  BY <1>3, <1>4, ReplyMessages
<1>6. chan' = Answer(chan, i, j, reply)
  BY DEF HandleRequestVote
<1>7. chan' \in Channels(SoundMessage)
  <2> HIDE DEF reply
  <2>1. QED
    BY <1>2, <1>5, <1>6, AnswerType DEF LogInv
<1>8. /\ role' \in [Node -> {"F", "C", "L"}]
      /\ \A k \in Node : role'[k] = "L" => role[k] = "L"
  BY DEF HandleRequestVote, LogInv, TypeOK
<1>9. currentTerm' \in [Node -> Nat]
  BY <1>3 DEF HandleRequestVote, LogInv, TypeOK
<1>10. votedFor' \in [Node -> Node \cup {None}]
  BY <1>3 DEF HandleRequestVote, LogInv, TypeOK
<1>11. TypeOK'
  BY <1>7, <1>8, <1>9, <1>10, ChannelMessages
     DEF HandleRequestVote, LogInv, TypeOK, indexVars, fileVars, peerVars
<1>12. QED
  BY <1>7, <1>8, <1>11, QuietInv DEF HandleRequestVote, indexVars, fileVars

LEMMA ReplyRequestVoteNoVoteInv ==
  ASSUME LogInv, NEW i \in Node, NEW j \in Node, ReplyRequestVoteNoVote(i, j)
  PROVE  LogInv'
<1> DEFINE m == Received(i, j)
<1>1. /\ Receives(i, j, "replyrequestvote")
      /\ chan' = Consume(chan, i, j)
  BY DEF ReplyRequestVoteNoVote
<1>2. chan' \in Channels(SoundMessage) /\ m.term \in Nat
  BY <1>1, ConsumedType, ReceivedMessage
<1>3. /\ role' \in [Node -> {"F", "C", "L"}]
      /\ role' = role \/ role' = [role EXCEPT ![i] = "F"]
      /\ currentTerm' \in [Node -> Nat]
      /\ votedFor' \in [Node -> Node \cup {None}]
  <2>1. CASE role[i] = "C" /\ m.term > currentTerm[i]
    <3>1. ToFollow(i, m.term)
      BY <2>1 DEF ReplyRequestVoteNoVote
    <3>2. QED
      BY <1>2, <3>1, ToFollowType
  <2>2. CASE ~(role[i] = "C" /\ m.term > currentTerm[i])
    BY <2>2 DEF ReplyRequestVoteNoVote, LogInv, TypeOK
  <2>3. QED
    BY <2>1, <2>2
<1>4. TypeOK'
  BY <1>2, <1>3, ChannelMessages
     DEF ReplyRequestVoteNoVote, LogInv, TypeOK, indexVars, fileVars, peerVars
<1>5. \A k \in Node : role'[k] = "L" => role[k] = "L"
  BY <1>3 DEF LogInv, TypeOK
<1>6. QED
  BY <1>2, <1>4, <1>5, QuietInv
     DEF ReplyRequestVoteNoVote, indexVars, fileVars

LEMMA ReplyRequestVoteCountsInv ==
  ASSUME LogInv, NEW i \in Node, NEW j \in Node, ReplyRequestVoteCounts(i, j)
  PROVE  LogInv'
<1>1. /\ Receives(i, j, "replyrequestvote")
      /\ chan' = Consume(chan, i, j)
  BY DEF ReplyRequestVoteCounts
<1>2. chan' \in Channels(SoundMessage)
  BY <1>1, ConsumedType
<1>3. receiveVotes' \in [Node -> Nat]
  <2>1. receiveVotes \in [Node -> Nat]
    BY DEF LogInv, TypeOK
  <2>2. receiveVotes' = [receiveVotes EXCEPT ![i] = @ + 1]
    BY DEF ReplyRequestVoteCounts
  <2>3. QED
    BY <2>1, <2>2
<1>4. CASE receiveVotes[i] + 1 >= HalfNumber
  <2>1. ToLead(i)
    BY <1>4 DEF ReplyRequestVoteCounts
  <2>2. TypeOK'
    BY <1>2, <1>3, <2>1, ToLeadType, ChannelMessages
       DEF ReplyRequestVoteCounts, LogInv, TypeOK, Table, fileVars
  <2>3. QED
    BY <1>2, <2>1, <2>2, LeadInv DEF ReplyRequestVoteCounts, fileVars
<1>5. CASE ~(receiveVotes[i] + 1 >= HalfNumber)
  <2>1. UNCHANGED <<role, currentTerm, votedFor, commitIndex, lastEntryIndex,
                    nextIndex, matchIndex, alreadyAppendEntry>>
    BY <1>5 DEF ReplyRequestVoteCounts
  <2>2. TypeOK'
    BY <1>2, <1>3, <2>1, ChannelMessages
       DEF ReplyRequestVoteCounts, LogInv, TypeOK, fileVars
  <2>3. QED
    BY <1>2, <2>1, <2>2, QuietInv DEF ReplyRequestVoteCounts, fileVars
<1>6. QED
  BY <1>4, <1>5

-----------------------------------------------------------------------------
(* Connections. *)

LEMMA HandleClusterNodeInv ==
  ASSUME LogInv, NEW i \in Node, NEW j \in Node, HandleClusterNode(i, j)
  PROVE  LogInv'
<1>1. /\ Receives(i, j, "clusternode")
      /\ AddSiblings(i, {j}, "up")
      /\ chan' = Answer(chan, i, j, ReplyClusterNode)
  BY DEF HandleClusterNode
<1>2. chan' \in Channels(SoundMessage)
  BY <1>1, AnswerType, PlainMessages DEF LogInv, Receives
<1>3. /\ link' \in Table({"none", "trying", "up"})
      /\ nextIndex' \in Table(Nat)
      /\ matchIndex' \in Table(Nat)
  BY <1>1, AddSiblingsType
<1>4. alreadyAppendEntry' \in Table(BOOLEAN)
  BY SetType DEF HandleClusterNode, LogInv, TypeOK, Table
<1>5. TypeOK'
  BY <1>2, <1>3, <1>4, ChannelMessages
     DEF HandleClusterNode, LogInv, TypeOK, Table, clusterVars, indexVars,
         fileVars
<1>6. QED
  BY <1>2, <1>5, QuietInv
     DEF HandleClusterNode, clusterVars, indexVars, fileVars

LEMMA HandleReplyClusterNodeInv ==
  ASSUME LogInv, NEW i \in Node, NEW j \in Node, HandleReplyClusterNode(i, j)
  PROVE  LogInv'
<1>1. /\ Receives(i, j, "replyclusternode")
      /\ chan' = Consume(chan, i, j)
  BY DEF HandleReplyClusterNode
<1>2. chan' \in Channels(SoundMessage)
  BY <1>1, ConsumedType
<1>3. link' \in Table({"none", "trying", "up"})
  BY SetType DEF HandleReplyClusterNode, LogInv, TypeOK, Table
<1>4. TypeOK'
  BY <1>2, <1>3, ChannelMessages
     DEF HandleReplyClusterNode, LogInv, TypeOK, Table, clusterVars, indexVars,
         fileVars, peerVars
<1>5. QED
  BY <1>2, <1>4, QuietInv
     DEF HandleReplyClusterNode, clusterVars, indexVars, fileVars

LEMMA HandleEofInv ==
  ASSUME LogInv, NEW i \in Node, NEW j \in Node, HandleEof(i, j)
  PROVE  LogInv'
<1>1. Receives(i, j, "eof") /\ chan' = Consume(chan, i, j)
  BY DEF HandleEof
<1>2. chan' \in Channels(SoundMessage)
  BY <1>1, ConsumedType
<1>3. /\ link' \in Table({"none", "trying", "up"})
      /\ nextIndex' \in Table(Nat)
      /\ matchIndex' \in Table(Nat)
      /\ alreadyAppendEntry' \in Table(BOOLEAN)
  <2>1. /\ link \in Table({"none", "trying", "up"})
        /\ nextIndex \in Table(Nat)
        /\ matchIndex \in Table(Nat)
        /\ alreadyAppendEntry \in Table(BOOLEAN)
    BY DEF LogInv, TypeOK, Table
  <2>2. CASE link[i][j] = "none"
    BY <2>1, <2>2 DEF HandleEof
  <2>3. CASE link[i][j] # "none"
    <3>1. /\ link' = Set(link, i, {j}, "none")
          /\ nextIndex' = Set(nextIndex, i, {j}, 0)
          /\ matchIndex' = Set(matchIndex, i, {j}, 0)
          /\ alreadyAppendEntry' = Set(alreadyAppendEntry, i, {j}, FALSE)
      BY <2>3 DEF HandleEof
    <3>2. QED
      BY <2>1, <3>1, SetType
  <2>4. QED
    BY <2>2, <2>3
<1>4. leaderId' \in [Node -> Node \cup {None}]
  <2>1. LeaderIdWithout(i, j) \in Node \cup {None}
    BY DEF LeaderIdWithout, LogInv, TypeOK
  <2>2. QED
    BY <2>1 DEF HandleEof, LogInv, TypeOK
<1>5. TypeOK'
  BY <1>2, <1>3, <1>4, ChannelMessages
     DEF HandleEof, LogInv, TypeOK, Table, clusterVars, indexVars, fileVars
<1>6. QED
  BY <1>2, <1>5, QuietInv DEF HandleEof, clusterVars, indexVars, fileVars

LEMMA ExecuteInv ==
  ASSUME LogInv, NEW i \in Node, NEW j \in Node, Execute(i, j)
  PROVE  LogInv'
BY AppendEntryRefusedInv, AppendEntryMismatchInv, AppendEntryFailsInv,
   AppendEntryAcceptedInv, AppendEntryExitsInv, ReplyAppendEntryInv,
   HandleRequestVoteInv, ReplyRequestVoteNoVoteInv, ReplyRequestVoteCountsInv,
   HandleClusterNodeInv, HandleReplyClusterNodeInv, HandleEofInv DEF Execute

-----------------------------------------------------------------------------
(* Clients. *)

(* A leader appends an entry with the index after its last one. *)
LEMMA ClientRequestInv ==
  ASSUME LogInv, NEW i \in Node, ClientRequest(i)
  PROVE  LogInv'
<1> DEFINE entry == [index |-> lastEntryIndex[i] + 1, term |-> currentTerm[i],
                     content |-> spent.request + 1]
<1>1. /\ role[i] = "L"
      /\ log' = [log EXCEPT ![i] = Append(@, entry)]
      /\ lastEntryIndex' = [lastEntryIndex EXCEPT ![i] = @ + 1]
      /\ UNCHANGED <<role, chan>>
  BY DEF ClientRequest, clusterVars
<1>2. spent' \in SpentType
  BY SpendType DEF ClientRequest
<1>3. entry \in Entry /\ entry.index = Len(log[i]) + 1
  <2>1. /\ lastEntryIndex[i] \in Nat
        /\ currentTerm[i] \in Nat
        /\ spent.request \in Nat
    BY DEF LogInv, TypeOK
  <2>2. lastEntryIndex[i] = Len(log[i])
    BY <1>1 DEF LogInv, LeaderKnowsLastEntry
  <2>3. QED
    BY <2>1, <2>2 DEF Entry
<1> HIDE DEF entry
<1>4. log[i] \in DenseFile
  BY LogFiles
<1>5. /\ Append(log[i], entry) \in DenseFile
      /\ Len(Append(log[i], entry)) = Len(log[i]) + 1
  BY <1>3, <1>4, AppendDense
<1>6. log' \in [Node -> Seq(Entry)] /\ IndexDense'
  <2>1. log' = [log EXCEPT ![i] = Append(log[i], entry)]
    BY <1>1
  <2>2. log \in [Node -> Seq(Entry)] /\ \A k \in Node : Dense(log[k])
    BY DEF LogInv, TypeOK, IndexDense
  <2>3. QED
    BY <1>5, <2>1, <2>2 DEF DenseFile, IndexDense
<1>7. lastEntryIndex' \in [Node -> Nat]
  <2>1. lastEntryIndex \in [Node -> Nat]
    BY DEF LogInv, TypeOK
  <2>2. QED
    BY <1>1, <2>1
<1>8. TypeOK'
  BY <1>1, <1>2, <1>6, <1>7
     DEF ClientRequest, LogInv, TypeOK, SpentType, clusterVars, peerVars
<1>9. LeaderKnowsLastEntry'
  BY <1>1, <1>5 DEF LogInv, TypeOK, LeaderKnowsLastEntry
<1>10. QED
  BY <1>1, <1>6, <1>8, <1>9 DEF LogInv

LEMMA ClientRequestFailsInv ==
  ASSUME LogInv, NEW i \in Node, ClientRequestFails(i)
  PROVE  LogInv'
<1>1. /\ ToFollow(i, currentTerm[i])
      /\ lastEntryIndex' = [lastEntryIndex EXCEPT ![i] = @ + 1]
      /\ UNCHANGED <<log, chan>>
  BY DEF ClientRequestFails, fileVars
<1>2. spent' \in SpentType
  BY SpendType DEF ClientRequestFails
<1>3. currentTerm[i] \in Nat
  BY DEF LogInv, TypeOK
<1>4. /\ role' \in [Node -> {"F", "C", "L"}]
      /\ role' = [role EXCEPT ![i] = "F"]
      /\ currentTerm' \in [Node -> Nat]
      /\ votedFor' \in [Node -> Node \cup {None}]
  BY <1>1, <1>3, ToFollowType
<1>5. lastEntryIndex' \in [Node -> Nat]
  <2>1. lastEntryIndex \in [Node -> Nat]
    BY DEF LogInv, TypeOK
  <2>2. QED
    BY <1>1, <2>1
<1>6. TypeOK'
  BY <1>1, <1>2, <1>4, <1>5
     DEF ClientRequestFails, LogInv, TypeOK, SpentType, fileVars, peerVars
<1>7. LeaderKnowsLastEntry'
  BY <1>1, <1>4 DEF LogInv, TypeOK, LeaderKnowsLastEntry
<1>8. QED
  BY <1>1, <1>6, <1>7 DEF LogInv, IndexDense

-----------------------------------------------------------------------------
(* The environment. *)

LEMMA CrashInv ==
  ASSUME LogInv, NEW i \in Node, NEW received,
         Crash(i, received) \/ \E j \in Sibling(i) : CrashInDelete(i, j, received)
  PROVE  LogInv'
<1>1. Stop(i, "down", received)
  BY DEF Crash, CrashInDelete
<1>2. spent' \in SpentType
  BY SpendType DEF Crash, CrashInDelete
<1>3. log' = log \/ log' = [log EXCEPT ![i] = << >>]
  BY DEF Crash, CrashInDelete
<1>4. QED
  BY <1>1, <1>2, <1>3, StopInv

LEMMA FaultInv ==
  ASSUME LogInv, NEW i \in Node,
         \/ Restart(i) \/ ChildLost(i) \/ DiskFault(i)
         \/ \E j \in Sibling(i) : Reset(i, j)
  PROVE  LogInv'
<1>1. spent' \in SpentType
  BY SpendType DEF Restart, ChildLost, DiskFault, Reset
<1>2. chan' \in Channels(SoundMessage)
  BY BreakType, PlainMessages
     DEF Restart, ChildLost, DiskFault, Reset, Sibling, LogInv
<1>3. TypeOK'
  BY <1>1, <1>2, ChannelMessages
     DEF Restart, ChildLost, DiskFault, Reset, LogInv, TypeOK, SpentType,
         clusterVars, indexVars, fileVars, peerVars
<1>4. UNCHANGED <<role, log, lastEntryIndex>>
  BY DEF Restart, ChildLost, DiskFault, Reset, clusterVars, indexVars, fileVars
<1>5. QED
  BY <1>2, <1>3, <1>4, QuietInv

-----------------------------------------------------------------------------
(* The invariant. *)

LEMMA NodesInv ==
  ASSUME InitNodes,
         link \in Table({"none", "trying", "up"}), nextIndex \in Table(Nat),
         childrenUp \in [Node -> BOOLEAN]
  PROVE  LogInv
<1>1. chan \in Channels(SoundMessage) /\ chan \in Channels(Message)
  BY DEF InitNodes, Channels
<1>2. TypeOK
  BY <1>1 DEF InitNodes, TypeOK, Table
<1>3. IndexDense /\ LeaderKnowsLastEntry
  BY DEF InitNodes, IndexDense, Dense, LeaderKnowsLastEntry
<1>4. QED
  BY <1>1, <1>2, <1>3 DEF LogInv

LEMMA InitInv ==
  ASSUME Init \/ ConnectedInit
  PROVE  LogInv
<1>1. InitNodes
  BY DEF Init, ConnectedInit
<1>2. /\ link \in Table({"none", "trying", "up"})
      /\ nextIndex \in Table(Nat)
      /\ childrenUp \in [Node -> BOOLEAN]
  <2>1. CASE Init
    BY <2>1 DEF Init, Table
  <2>2. CASE ConnectedInit
    BY <2>2 DEF ConnectedInit, Table
  <2>3. QED
    BY <2>1, <2>2
<1>3. QED
  BY <1>1, <1>2, NodesInv

LEMMA NextInv ==
  ASSUME LogInv, [Next]_vars
  PROVE  LogInv'
<1>1. CASE Next
  <2>1. PICK i \in Node : \/ Cron(i) \/ Client(i) \/ Fault(i)
                          \/ \E j \in Sibling(i) : Execute(i, j)
    BY <1>1 DEF Next
  <2>2. CASE Cron(i)
    BY <2>2, CronInv
  <2>3. CASE Client(i)
    BY <2>3, ClientRequestInv, ClientRequestFailsInv DEF Client
  <2>4. CASE Fault(i)
    BY <2>4, CrashInv, FaultInv DEF Fault
  <2>5. CASE \E j \in Sibling(i) : Execute(i, j)
    BY <2>5, ExecuteInv DEF Sibling
  <2>6. QED
    BY <2>1, <2>2, <2>3, <2>4, <2>5
<1>2. CASE UNCHANGED vars
  BY <1>2 DEF vars, clusterVars, indexVars, fileVars, peerVars, LogInv, TypeOK,
              IndexDense, LeaderKnowsLastEntry
<1>3. QED
  BY <1>1, <1>2

(* What is in flight continues some log, and the log files, the leaders'
   counters and the messages keep each other consistent. *)
THEOREM LogInvariant == Spec \/ ConnectedSpec => []LogInv
<1>1. Init \/ ConnectedInit => LogInv
  BY InitInv
<1>2. LogInv /\ [Next]_vars => LogInv'
  BY NextInv
<1>3. QED
  BY <1>1, <1>2, PTL DEF Spec, ConnectedSpec

(* Every variable keeps its type, from either start of the cluster. *)
THEOREM TypeCorrect == Spec \/ ConnectedSpec => []TypeOK
<1>1. LogInv => TypeOK
  BY DEF LogInv
<1>2. QED
  BY <1>1, LogInvariant, PTL

(* The entries of every log file are numbered from 1 without a gap: what
   findEntry(), deleteEntryAfter() and nextIndex rely on. *)
THEOREM LogsDense == Spec \/ ConnectedSpec => []IndexDense
<1>1. LogInv => IndexDense
  BY DEF LogInv
<1>2. QED
  BY <1>1, LogInvariant, PTL

(* A leader's counter of entries and its log file agree. *)
THEOREM LeadersKnowLastEntry == Spec \/ ConnectedSpec => []LeaderKnowsLastEntry
<1>1. LogInv => LeaderKnowsLastEntry
  BY DEF LogInv
<1>2. QED
  BY <1>1, LogInvariant, PTL
==============================================================================
