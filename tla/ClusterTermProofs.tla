-------------------------- MODULE ClusterTermProofs --------------------------
(***************************************************************************)
(* Terms and requests, whoever leads: no handler takes a node's term back, *)
(* the terms along a log file never decrease as long as no process is      *)
(* started again, and a request has one entry, the same wherever it is.    *)
(***************************************************************************)
EXTENDS ClusterProofs

(* The step of TermNeverDecreases. *)
TermsKept == \A i \in Node : Up(i) /\ Up(i)' => currentTerm'[i] >= currentTerm[i]

(* A node that takes a term at least as high as its own. *)
LEMMA HigherTermKept ==
  ASSUME LogInv, NEW i \in Node, NEW term \in Nat, term >= currentTerm[i],
         currentTerm' = currentTerm \/ currentTerm' = [currentTerm EXCEPT ![i] = term]
  PROVE  TermsKept
<1>1. currentTerm \in [Node -> Nat]
  BY DEF LogInv, TypeOK
<1>2. \A k \in Node : currentTerm'[k] >= currentTerm[k]
  BY <1>1
<1>3. QED
  BY <1>2 DEF TermsKept

(* A process that ends has no term left to compare. *)
LEMMA StopTermKept ==
  ASSUME LogInv, NEW i \in Node, NEW reason \in {"down"} \cup ExitReason,
         NEW received, Stop(i, reason, received)
  PROVE  TermsKept
<1>1. /\ proc' = [proc EXCEPT ![i] = reason]
      /\ currentTerm' = [currentTerm EXCEPT ![i] = 1]
      /\ proc \in [Node -> {"up", "down"} \cup ExitReason]
      /\ currentTerm \in [Node -> Nat]
  BY DEF Stop, LogInv, TypeOK
<1>2. proc'[i] # "up"
  BY <1>1 DEF ExitReason
<1>3. \A k \in Node : k # i => currentTerm'[k] = currentTerm[k] /\ currentTerm[k] \in Nat
  BY <1>1
<1>4. QED
  BY <1>2, <1>3 DEF TermsKept, Up

LEMMA CronTermKept ==
  ASSUME LogInv, NEW i \in Node, Cron(i)
  PROVE  TermsKept
<1>1. currentTerm[i] \in Nat /\ currentTerm[i] + 1 \in Nat
  BY SMTT(30) DEF LogInv, TypeOK
<1>2. ASSUME NEW reachable \in BOOLEAN, CronReconnect(i, reachable)
      PROVE  TermsKept
  <2>1. \/ currentTerm' = currentTerm
        \/ currentTerm' = [currentTerm EXCEPT ![i] = currentTerm[i]]
    BY <1>2 DEF CronReconnect, ToFollow
  <2>2. QED
    BY <1>1, <2>1, HigherTermKept
<1>3. CASE CronIdle(i) \/ CronLead(i) \/ CronLeadStepsDown(i)
  <2>1. \/ currentTerm' = currentTerm
        \/ currentTerm' = [currentTerm EXCEPT ![i] = currentTerm[i]]
    BY <1>3 DEF CronIdle, CronLead, CronLeadStepsDown, ToFollow, clusterVars
  <2>2. QED
    BY <1>1, <2>1, HigherTermKept
<1>4. CASE CronWin(i)
  BY <1>1, <1>4, HigherTermKept DEF CronWin, ToLead
<1>5. CASE CronTimeout(i)
  <2>1. currentTerm' = [currentTerm EXCEPT ![i] = currentTerm[i] + 1]
    BY <1>5 DEF CronTimeout, ToCandidate
  <2>2. currentTerm[i] + 1 >= currentTerm[i]
    BY <1>1
  <2>3. QED
    BY <1>1, <2>1, <2>2, HigherTermKept
<1>6. ASSUME NEW received, CronFlushExits(i, received) \/ CronLeadExits(i, received)
      PROVE  TermsKept
  BY <1>6, StopTermKept DEF CronFlushExits, CronLeadExits, ExitReason
<1>7. QED
  BY <1>2, <1>3, <1>4, <1>5, <1>6 DEF Cron

(* Whoever obeys an append entry takes the leader's term only if it is not
   lower. *)
LEMMA FollowTermKept ==
  ASSUME LogInv, NEW i \in Node, NEW j \in Node, NEW m \in AppendEntryMessage,
         Obeys(i, m), Follow(i, j, m)
  PROVE  TermsKept
<1>1. currentTerm[i] \in Nat /\ m.term \in Nat
  BY DEF LogInv, TypeOK, AppendEntryMessage
<1>2. CASE role[i] = "F" /\ m.term <= currentTerm[i]
  BY <1>1, <1>2, HigherTermKept DEF Follow
<1>3. CASE ~(role[i] = "F" /\ m.term <= currentTerm[i])
  <2>1. m.term >= currentTerm[i]
    BY <1>1, <1>3 DEF Obeys
  <2>2. currentTerm' = [currentTerm EXCEPT ![i] = m.term]
    BY <1>3 DEF Follow, ToFollow
  <2>3. QED
    BY <1>1, <2>1, <2>2, HigherTermKept
<1>4. QED
  BY <1>2, <1>3

LEMMA ExecuteTermKept ==
  ASSUME LogInv, NEW i \in Node, NEW j \in Node, Execute(i, j)
  PROVE  TermsKept
<1> DEFINE m == Received(i, j)
<1>1. currentTerm[i] \in Nat
  BY DEF LogInv, TypeOK
<1>2. CASE \/ AppendEntryMismatch(i, j) \/ AppendEntryFails(i, j)
           \/ AppendEntryAccepted(i, j)
  <2>1. /\ Receives(i, j, "appendentry")
        /\ Obeys(i, m)
        /\ Follow(i, j, m)
    BY <1>2 DEF AppendEntryMismatch, AppendEntryFails, AppendEntryAccepted
  <2>2. m \in AppendEntryMessage
    BY <2>1, ReceivedMessage DEF AppendEntryMessage
  <2>3. QED
    BY <2>1, <2>2, FollowTermKept
<1>3. ASSUME NEW received, AppendEntryExits(i, j, received)
      PROVE  TermsKept
  BY <1>3, StopTermKept DEF AppendEntryExits, ExitReason
<1>4. CASE \/ AppendEntryRefused(i, j) \/ ReplyAppendEntryIgnored(i, j)
           \/ ReplyAppendEntryFalse(i, j) \/ ReplyAppendEntryEmpty(i, j)
           \/ ReplyAppendEntryTrue(i, j) \/ HandleClusterNode(i, j)
           \/ HandleReplyClusterNode(i, j) \/ HandleEof(i, j)
  <2>1. currentTerm' = currentTerm
    BY <1>4 DEF AppendEntryRefused, ReplyAppendEntryIgnored,
       ReplyAppendEntryFalse, ReplyAppendEntryEmpty, ReplyAppendEntryTrue,
       HandleClusterNode, HandleReplyClusterNode, HandleEof, clusterVars
  <2>2. QED
    BY <1>1, <2>1, HigherTermKept
<1>5. CASE ReplyAppendEntryHigherTerm(i, j)
  <2>1. Receives(i, j, "replyappendentry") /\ m.term > currentTerm[i]
    BY <1>5 DEF ReplyAppendEntryHigherTerm
  <2>2. m.term \in Nat
    BY <2>1, ReceivedMessage
  <2>3. currentTerm' = [currentTerm EXCEPT ![i] = m.term]
    BY <1>5 DEF ReplyAppendEntryHigherTerm, ToFollow
  <2>4. m.term >= currentTerm[i]
    BY <1>1, <2>1, <2>2
  <2> HIDE DEF m
  <2>5. QED
    BY <2>2, <2>3, <2>4, HigherTermKept
<1>6. CASE HandleRequestVote(i, j)
  <2> DEFINE term == IF m.term > currentTerm[i] THEN m.term ELSE currentTerm[i]
  <2>1. Receives(i, j, "requestvote")
    BY <1>6 DEF HandleRequestVote
  <2>2. m.term \in Nat
    BY <2>1, ReceivedMessage
  <2>3. term \in Nat /\ term >= currentTerm[i]
    BY <1>1, <2>2
  <2>4. currentTerm' = [currentTerm EXCEPT ![i] = term]
    BY <1>6 DEF HandleRequestVote
  <2> HIDE DEF term
  <2>5. QED
    BY <2>3, <2>4, HigherTermKept
<1>7. CASE ReplyRequestVoteNoVote(i, j)
  <2>1. Receives(i, j, "replyrequestvote")
    BY <1>7 DEF ReplyRequestVoteNoVote
  <2>2. m.term \in Nat
    BY <2>1, ReceivedMessage
  <2>3. CASE role[i] = "C" /\ m.term > currentTerm[i]
    <3>1. currentTerm' = [currentTerm EXCEPT ![i] = m.term]
      BY <1>7, <2>3 DEF ReplyRequestVoteNoVote, ToFollow
    <3>2. m.term >= currentTerm[i]
      BY <1>1, <2>2, <2>3
    <3> HIDE DEF m
    <3>3. QED
      BY <2>2, <3>1, <3>2, HigherTermKept
  <2>4. CASE ~(role[i] = "C" /\ m.term > currentTerm[i])
    <3>1. currentTerm' = currentTerm
      BY <1>7, <2>4 DEF ReplyRequestVoteNoVote
    <3>2. QED
      BY <1>1, <3>1, HigherTermKept
  <2>5. QED
    BY <2>3, <2>4
<1>8. CASE ReplyRequestVoteCounts(i, j)
  <2>1. currentTerm' = currentTerm
    BY <1>8 DEF ReplyRequestVoteCounts, ToLead
  <2>2. QED
    BY <1>1, <2>1, HigherTermKept
<1>9. QED
  BY <1>2, <1>3, <1>4, <1>5, <1>6, <1>7, <1>8 DEF Execute

LEMMA OtherTermKept ==
  ASSUME LogInv, NEW i \in Node, Client(i) \/ Fault(i)
  PROVE  TermsKept
<1>1. currentTerm[i] \in Nat
  BY DEF LogInv, TypeOK
<1>2. CASE Client(i)
  BY <1>1, <1>2, HigherTermKept
     DEF Client, ClientRequest, ClientRequestFails, ToFollow, clusterVars
<1>3. CASE Fault(i)
  <2>1. ASSUME NEW received,
               \/ Crash(i, received)
               \/ \E j \in Sibling(i) : CrashInDelete(i, j, received)
        PROVE  TermsKept
    BY <2>1, StopTermKept DEF Crash, CrashInDelete
  <2>2. CASE \/ Restart(i) \/ ChildLost(i) \/ DiskFault(i)
             \/ \E j \in Sibling(i) : Reset(i, j)
    BY <1>1, <2>2, HigherTermKept
       DEF Restart, ChildLost, DiskFault, Reset, clusterVars
  <2>3. QED
    BY <1>3, <2>1, <2>2 DEF Fault
<1>4. QED
  BY <1>2, <1>3

LEMMA NextTermKept ==
  ASSUME LogInv, [Next]_vars
  PROVE  [TermsKept]_vars
<1>1. CASE Next
  BY <1>1, CronTermKept, ExecuteTermKept, OtherTermKept DEF Next, Sibling
<1>2. CASE UNCHANGED vars
  BY <1>2
<1>3. QED
  BY <1>1, <1>2

(* Within the life of a process, its term never goes back: no handler of a
   command and no cron() takes a lower term than the node has. *)
THEOREM TermsNeverDecrease == Spec \/ ConnectedSpec => TermNeverDecreases
<1>1. LogInv /\ [Next]_vars => [TermsKept]_vars
  BY NextTermKept
<1>2. Spec \/ ConnectedSpec => [][TermsKept]_vars
  BY <1>1, LogInvariant, PTL DEF Spec, ConnectedSpec
<1>3. TermNeverDecreases <=> [][TermsKept]_vars
  BY DEF TermNeverDecreases, TermsKept
<1>4. QED
  BY <1>2, <1>3
-----------------------------------------------------------------------------
(* What is in flight.  Whichever step is taken, it is made of what was in
   flight before, of append entries leaders prepare from their files, and of
   messages without an entry. *)

Admits(M) ==
  /\ \A m \in SoundMessage : m.type # "appendentry" => m \in M
  /\ \A i, j \in Node : Up(i) => AppendEntry(i, j) \in M

LEMMA AdmitsPlain ==
  ASSUME NEW M, Admits(M)
  PROVE  /\ Eof \in M /\ ClusterNode \in M /\ ReplyClusterNode \in M
         /\ \A type \in {"replyappendentry", "replyrequestvote"} :
              \A term \in Nat : \A success \in BOOLEAN :
                [type |-> type, term |-> term, success |-> success] \in M
<1>1. /\ Eof.type # "appendentry"
      /\ ClusterNode.type # "appendentry"
      /\ ReplyClusterNode.type # "appendentry"
  BY DEF Eof, ClusterNode, ReplyClusterNode
<1>2. Eof \in M /\ ClusterNode \in M /\ ReplyClusterNode \in M
  BY <1>1, PlainMessages DEF Admits
<1>3. ASSUME NEW type \in {"replyappendentry", "replyrequestvote"},
             NEW term \in Nat, NEW success \in BOOLEAN
      PROVE  [type |-> type, term |-> term, success |-> success] \in M
  <2> DEFINE m == [type |-> type, term |-> term, success |-> success]
  <2>1. m \in SoundMessage
    BY ReplyMessages
  <2>2. m.type # "appendentry"
    OBVIOUS
  <2> HIDE DEF m
  <2>3. m \in M
    BY <2>1, <2>2 DEF Admits
  <2>4. QED
    BY <2>3 DEF m
<1>4. QED
  BY <1>2, <1>3

LEMMA ReceivedWithin ==
  ASSUME NEW M, chan \in Channels(M), NEW i \in Node, NEW j \in Node,
         chan[j][i] # << >>
  PROVE  /\ Received(i, j) \in M
         /\ Consume(chan, i, j) \in Channels(M)
<1>1. chan[j][i] \in Seq(M)
  BY DEF Channels
<1>2. Received(i, j) \in M
  BY <1>1 DEF Received
<1>3. QED
  BY <1>2, ConsumeType

LEMMA StopChannels ==
  ASSUME NEW M, Admits(M), chan \in Channels(M), NEW i \in Node,
         NEW reason, NEW received, Stop(i, reason, received)
  PROVE  chan' \in Channels(M)
BY AdmitsPlain, HangupType DEF Stop

LEMMA SendAppendEntriesChannels ==
  ASSUME NEW M, Admits(M), chan \in Channels(M), NEW i \in Node, Up(i),
         NEW S, S \subseteq Node, SendAppendEntries(i, S)
  PROVE  chan' \in Channels(M)
<1> DEFINE dialled == Dial(chan, i, LostSiblings(i), Alive)
           message == [j \in Node |-> AppendEntry(i, j)]
<1>1. dialled \in Channels(M)
  BY DialType, AdmitsPlain
<1>2. \A j \in S : message[j] \in M
  BY DEF Admits
<1>3. chan' = Broadcast(dialled, i, S, message)
  BY DEF SendAppendEntries
<1> HIDE DEF dialled, message
<1>4. QED
  BY <1>1, <1>2, <1>3, BroadcastType

LEMMA CronChannels ==
  ASSUME LogInv, LogInv', NEW M, Admits(M), chan \in Channels(M),
         NEW i \in Node, Cron(i)
  PROVE  chan' \in Channels(M)
<1>1. Eof \in M /\ ClusterNode \in M
  BY AdmitsPlain
<1>2. ASSUME NEW reachable \in BOOLEAN, CronReconnect(i, reachable)
      PROVE  chan' \in Channels(M)
  BY <1>1, <1>2, DialType DEF CronReconnect
<1>3. CASE CronIdle(i)
  BY <1>1, <1>3, DialType DEF CronIdle
<1>4. CASE CronTimeout(i)
  <2> DEFINE dialled == Dial(chan, i, LostSiblings(i), Alive)
             message == [j \in Node |-> RequestVote(i)]
  <2>1. dialled \in Channels(M)
    BY <1>1, DialType
  <2>2. RequestVote(i) \in M
    <3>1. /\ FindLastEntry(log[i]).index \in Nat
          /\ FindLastEntry(log[i]).term \in Nat
      BY LogFiles, FindLastEntryDense DEF Entry
    <3>2. currentTerm'[i] \in Nat
      BY DEF LogInv, TypeOK
    <3>3. RequestVote(i) \in Message /\ RequestVote(i).type # "appendentry"
      BY <3>1, <3>2 DEF RequestVote, Message
    <3>4. QED
      BY <3>3 DEF Admits, SoundMessage, FollowsPrev
  <2>3. \A j \in NeedAppendEntry(i) : message[j] \in M
    BY <2>2 DEF NeedAppendEntry, ConnectedSiblings, Sibling
  <2>4. chan' = Broadcast(dialled, i, NeedAppendEntry(i), message)
    BY <1>4 DEF CronTimeout
  <2> HIDE DEF dialled, message
  <2>5. QED
    BY <2>1, <2>3, <2>4, BroadcastType
<1>5. CASE CronWin(i)
  BY <1>5 DEF CronWin
<1>6. CASE CronLead(i) \/ CronLeadStepsDown(i)
  <2>1. /\ Up(i)
        /\ \/ SendAppendEntries(i, NeedAppendEntry(i))
           \/ SendAppendEntries(i, NeedAppendEntry(i) \ Unservable(i))
    BY <1>6 DEF CronLead, CronLeadStepsDown, CronBegins
  <2>2. NeedAppendEntry(i) \subseteq Node
    BY DEF NeedAppendEntry, ConnectedSiblings, Sibling
  <2>3. QED
    BY <2>1, <2>2, SendAppendEntriesChannels
<1>7. ASSUME NEW received, CronFlushExits(i, received) \/ CronLeadExits(i, received)
      PROVE  chan' \in Channels(M)
  BY <1>7, StopChannels DEF CronFlushExits, CronLeadExits
<1>8. QED
  BY <1>2, <1>3, <1>4, <1>5, <1>6, <1>7 DEF Cron

LEMMA ExecuteChannels ==
  ASSUME LogInv, LogInv', NEW M, Admits(M), chan \in Channels(M),
         NEW i \in Node, NEW j \in Node, Execute(i, j)
  PROVE  chan' \in Channels(M)
<1>1. /\ Eof \in M /\ ReplyClusterNode \in M
      /\ \A type \in {"replyappendentry", "replyrequestvote"} :
           \A term \in Nat : \A success \in BOOLEAN :
             [type |-> type, term |-> term, success |-> success] \in M
  BY AdmitsPlain
<1>2. currentTerm[i] \in Nat /\ currentTerm'[i] \in Nat
  BY DEF LogInv, TypeOK
<1>3. CASE \/ AppendEntryMismatch(i, j) \/ AppendEntryFails(i, j)
           \/ AppendEntryAccepted(i, j)
  <2>1. PICK success \in BOOLEAN :
          /\ chan[j][i] # << >>
          /\ chan' = Answer(chan, i, j, ReplyAppendEntry(i, success))
    BY <1>3 DEF AppendEntryMismatch, AppendEntryFails, AppendEntryAccepted, Receives
  <2>2. ReplyAppendEntry(i, success) \in M
    BY <1>1, <1>2 DEF ReplyAppendEntry
  <2>3. QED
    BY <2>1, <2>2, AnswerType
<1>4. ASSUME NEW received, AppendEntryExits(i, j, received)
      PROVE  chan' \in Channels(M)
  BY <1>4, StopChannels DEF AppendEntryExits
<1>5. CASE \/ ReplyAppendEntryIgnored(i, j) \/ ReplyAppendEntryHigherTerm(i, j)
           \/ ReplyAppendEntryFalse(i, j) \/ ReplyAppendEntryEmpty(i, j)
           \/ ReplyAppendEntryTrue(i, j) \/ ReplyRequestVoteNoVote(i, j)
           \/ ReplyRequestVoteCounts(i, j) \/ HandleReplyClusterNode(i, j)
           \/ HandleEof(i, j)
  <2>1. chan[j][i] # << >> /\ chan' = Consume(chan, i, j)
    BY <1>5 DEF Receives, ReplyAppendEntryIgnored, ReplyAppendEntryHigherTerm,
       ReplyAppendEntryFalse, ReplyAppendEntryEmpty, ReplyAppendEntryTrue,
       ReplyRequestVoteNoVote, ReplyRequestVoteCounts, HandleReplyClusterNode,
       HandleEof
  <2>2. QED
    BY <2>1, ConsumeType
<1>6. CASE AppendEntryRefused(i, j)
  <2> DEFINE reply == [type |-> "replyappendentry", term |-> currentTerm[i],
                       success |-> FALSE]
  <2>1. reply \in M
    BY <1>1, <1>2
  <2>2. chan[j][i] # << >> /\ chan' = Answer(chan, i, j, reply)
    BY <1>6 DEF AppendEntryRefused, Receives
  <2> HIDE DEF reply
  <2>3. QED
    BY <2>1, <2>2, AnswerType
<1>7. CASE HandleRequestVote(i, j)
  <2> DEFINE m     == Received(i, j)
             term  == IF m.term > currentTerm[i] THEN m.term ELSE currentTerm[i]
             reply == [type |-> "replyrequestvote", term |-> term,
                       success |-> Grants(i, m)]
  <2>1. Receives(i, j, "requestvote")
    BY <1>7 DEF HandleRequestVote
  <2>2. term \in Nat /\ Grants(i, m) \in BOOLEAN
    BY <2>1, ReceivedMessage DEF LogInv, TypeOK, Grants
  <2>3. chan[j][i] # << >> /\ chan' = Answer(chan, i, j, reply)
    BY <1>7, <2>1 DEF HandleRequestVote, Receives
  <2> HIDE DEF term, m
  <2>4. reply \in M
    BY <1>1, <2>2
  <2> HIDE DEF reply
  <2>5. QED
    BY <2>3, <2>4, AnswerType
<1>8. CASE HandleClusterNode(i, j)
  <2>1. chan[j][i] # << >> /\ chan' = Answer(chan, i, j, ReplyClusterNode)
    BY <1>8 DEF HandleClusterNode, Receives
  <2>2. QED
    BY <1>1, <2>1, AnswerType
<1>9. QED
  BY <1>3, <1>4, <1>5, <1>6, <1>7, <1>8 DEF Execute

LEMMA FaultChannels ==
  ASSUME NEW M, Admits(M), chan \in Channels(M), NEW i \in Node, Fault(i)
  PROVE  chan' \in Channels(M)
<1>1. Eof \in M
  BY AdmitsPlain
<1>2. ASSUME NEW received,
             \/ Crash(i, received)
             \/ \E j \in Sibling(i) : CrashInDelete(i, j, received)
      PROVE  chan' \in Channels(M)
  BY <1>2, StopChannels DEF Crash, CrashInDelete
<1>3. ASSUME NEW j \in Sibling(i), Reset(i, j)
      PROVE  chan' \in Channels(M)
  BY <1>1, <1>3, BreakType DEF Reset, Sibling
<1>4. CASE Restart(i) \/ ChildLost(i) \/ DiskFault(i)
  BY <1>4 DEF Restart, ChildLost, DiskFault
<1>5. QED
  BY <1>2, <1>3, <1>4 DEF Fault

LEMMA NextChannels ==
  ASSUME LogInv, LogInv', NEW M, Admits(M), chan \in Channels(M), [Next]_vars
  PROVE  chan' \in Channels(M)
<1>1. ASSUME NEW i \in Node, Client(i)
      PROVE  chan' = chan
  BY <1>1 DEF Client, ClientRequest, ClientRequestFails
<1>2. CASE UNCHANGED vars
  BY <1>2 DEF vars
<1>3. CASE Next
  BY <1>1, <1>3, CronChannels, ExecuteChannels, FaultChannels DEF Next, Sibling
<1>4. QED
  BY <1>2, <1>3

-----------------------------------------------------------------------------
(* The order of terms. *)

LEMMA OrderedPlain ==
  ASSUME NEW m \in SoundMessage, m.type # "appendentry"
  PROVE  m \in OrderedMessage
BY DEF SoundMessage, OrderedMessage, TermsInOrder

LEMMA EntryTerms ==
  ASSUME NEW file \in DenseFile
  PROVE  /\ DOMAIN file = 1 .. Len(file) /\ Len(file) \in Nat
         /\ \A p \in DOMAIN file : file[p].term \in Nat
<1>1. DOMAIN file = 1 .. Len(file) /\ Len(file) \in Nat
  BY DEF DenseFile
<1>2. ASSUME NEW p \in DOMAIN file PROVE file[p].term \in Nat
  <2>1. file[p] \in Entry
    BY DEF DenseFile
  <2>2. QED
    BY <2>1 DEF Entry
<1>3. QED
  BY <1>1, <1>2

(* A leader names and carries neighbours of its own log. *)
LEMMA OrderedAppendEntry ==
  ASSUME LogInv, OrderInv, NEW i \in Node, NEW j \in Node, Up(i)
  PROVE  AppendEntry(i, j) \in OrderedMessage
<1> DEFINE file == log[i]
           n    == nextIndex[i][j]
           next == FindEntry(file, n)
           prev == IF n > 1 THEN FindEntry(file, n - 1) ELSE NullEntry
<1>1. file \in DenseFile /\ n \in Nat /\ currentTerm[i] \in Nat
  <2>1. file \in DenseFile
    BY LogFiles
  <2>2. n \in Nat /\ currentTerm[i] \in Nat
    BY DEF LogInv, TypeOK
  <2>3. QED
    BY <2>1, <2>2
<1>2. TermsAscend(file) /\ NoTermAbove(file, currentTerm[i])
  BY DEF OrderInv, LogTermsOrdered
<1> HIDE DEF file, n
<1>3. ASSUME next.index # 0
      PROVE  prev.term <= next.term /\ next.term <= currentTerm[i]
  <2>1. n \in 1 .. Len(file) /\ next = file[n]
    BY <1>1, <1>3, FindEntryDense, HasEntryDense DEF NullEntry
  <2>2. /\ DOMAIN file = 1 .. Len(file) /\ Len(file) \in Nat
        /\ \A p \in DOMAIN file : file[p].term \in Nat
    BY <1>1, EntryTerms
  <2>3. next.term <= currentTerm[i]
    BY <1>2, <2>1, <2>2 DEF NoTermAbove
  <2>4. CASE n > 1
    <3>1. n - 1 \in Nat /\ n - 1 \in 1 .. Len(file) /\ n - 1 <= n
      BY <1>1, <2>1, <2>2, <2>4
    <3>2. prev = file[n - 1]
      BY <1>1, <2>4, <3>1, FindEntryDense, HasEntryDense
    <3>3. file[n - 1].term <= file[n].term
      BY <1>2, <2>1, <2>2, <3>1 DEF TermsAscend
    <3>4. QED
      BY <2>1, <2>3, <3>2, <3>3
  <2>5. CASE ~(n > 1)
    <3>1. prev.term = 0 /\ next.term \in Nat
      BY <2>1, <2>2, <2>5 DEF NullEntry
    <3>2. QED
      BY <2>3, <3>1
  <2>6. QED
    BY <2>4, <2>5
<1> HIDE DEF next, prev
<1> DEFINE m == [type |-> "appendentry", term |-> currentTerm[i],
                 prevLogIndex |-> prev.index, prevLogTerm |-> prev.term,
                 entry |-> next, leaderCommit |-> commitIndex[i]]
<1>4. AppendEntry(i, j) = m
  BY DEF AppendEntry, m, next, prev, n, file
<1>5. TermsInOrder(m)
  BY <1>3 DEF TermsInOrder
<1>6. m \in Message
  BY <1>4, AppendEntrySound DEF SoundMessage
<1>7. QED
  BY <1>4, <1>5, <1>6 DEF OrderedMessage

LEMMA AdmitsOrdered ==
  ASSUME LogInv, OrderInv
  PROVE  Admits(OrderedMessage)
BY OrderedPlain, OrderedAppendEntry DEF Admits

-----------------------------------------------------------------------------
(* Files. *)

(* A file that is cut keeps its order. *)
LEMMA PrefixOrdered ==
  ASSUME NEW file \in DenseFile, NEW rest \in DenseFile, NEW term,
         TermsAscend(file), NoTermAbove(file, term),
         Len(rest) <= Len(file),
         \A p \in 1 .. Len(rest) : rest[p] = file[p]
  PROVE  TermsAscend(rest) /\ NoTermAbove(rest, term)
<1>1. /\ DOMAIN rest = 1 .. Len(rest) /\ Len(rest) \in Nat
      /\ DOMAIN file = 1 .. Len(file) /\ Len(file) \in Nat
  BY DEF DenseFile
<1>2. \A p \in DOMAIN rest : p \in DOMAIN file /\ rest[p] = file[p]
  BY <1>1
<1>3. QED
  BY <1>2 DEF TermsAscend, NoTermAbove

LEMMA AfterMismatchOrdered ==
  ASSUME NEW file \in DenseFile, NEW m \in AppendEntryMessage, NEW term,
         TermsAscend(file), NoTermAbove(file, term)
  PROVE  TermsAscend(AfterMismatch(file, m)) /\ NoTermAbove(AfterMismatch(file, m), term)
<1>1. CASE m.prevLogIndex = 0
  BY <1>1 DEF AfterMismatch, TermsAscend, NoTermAbove
<1>2. CASE m.prevLogIndex # 0
  <2>1. m.prevLogIndex \in Nat
    BY DEF AppendEntryMessage
  <2>2. AfterMismatch(file, m) = DeleteEntryAfter(file, m.prevLogIndex)
    BY <1>2 DEF AfterMismatch
  <2>3. QED
    BY <2>1, <2>2, DeleteEntryAfterDense, PrefixOrdered
<1>3. QED
  BY <1>1, <1>2

(* Once the previous entry is found and the file cut behind it, it ends with
   an entry of the term the message names. *)
LEMMA CutAfterPrevOrdered ==
  ASSUME NEW file \in DenseFile, NEW m \in AppendEntryMessage, NEW term,
         ~Mismatch(file, m), TermsAscend(file), NoTermAbove(file, term)
  PROVE  /\ TermsAscend(CutAfterPrev(file, m))
         /\ NoTermAbove(CutAfterPrev(file, m), term)
         /\ m.prevLogIndex # 0 =>
              CutAfterPrev(file, m)[m.prevLogIndex].term = m.prevLogTerm
<1> DEFINE prev == m.prevLogIndex
           rest == CutAfterPrev(file, m)
<1>1. rest \in DenseFile /\ Len(rest) = prev /\ prev \in Nat /\ prev + 1 \in Nat
  BY CutAfterPrevDense DEF AppendEntryMessage
<1>2. rest = file \/ rest = DeleteEntryAfter(file, prev + 1)
  BY DEF CutAfterPrev
<1>3. Len(rest) <= Len(file) /\ \A p \in 1 .. Len(rest) : rest[p] = file[p]
  <2>1. CASE rest = file
    BY <2>1 DEF DenseFile
  <2>2. CASE rest = DeleteEntryAfter(file, prev + 1)
    BY <1>1, <2>2, DeleteEntryAfterDense
  <2>3. QED
    BY <1>2, <2>1, <2>2
<1>4. ASSUME prev # 0
      PROVE  rest[prev].term = m.prevLogTerm
  <2>1. HasEntry(file, prev) /\ FindEntry(file, prev).term = m.prevLogTerm
    BY <1>4 DEF Mismatch
  <2>2. FindEntry(file, prev) = file[prev]
    BY <1>1, <2>1, FindEntryDense
  <2>3. prev \in 1 .. Len(rest)
    BY <1>1, <1>4
  <2>4. QED
    BY <1>3, <2>1, <2>2, <2>3
<1> HIDE DEF rest
<1>5. TermsAscend(rest) /\ NoTermAbove(rest, term)
  BY <1>1, <1>3, PrefixOrdered
<1>6. QED
  BY <1>4, <1>5 DEF rest

(* The entry that is appended is not older than the one before it. *)
LEMMA AfterAppendOrdered ==
  ASSUME NEW file \in DenseFile, NEW m \in AppendEntryMessage, NEW term \in Nat,
         ~Mismatch(file, m), TermsInOrder(m), m.term <= term,
         TermsAscend(file), NoTermAbove(file, term)
  PROVE  TermsAscend(AfterAppend(file, m)) /\ NoTermAbove(AfterAppend(file, m), term)
<1> DEFINE prev == m.prevLogIndex
           rest == CutAfterPrev(file, m)
<1>1. /\ rest \in DenseFile /\ Len(rest) = prev /\ prev \in Nat
      /\ m.entry \in Entry /\ m.term \in Nat /\ m.prevLogTerm \in Nat
      /\ m.type = "appendentry"
  BY CutAfterPrevDense DEF AppendEntryMessage
<1>2. /\ TermsAscend(rest) /\ NoTermAbove(rest, term)
      /\ prev # 0 => rest[prev].term = m.prevLogTerm
  BY CutAfterPrevOrdered
<1>3. CASE ~Carries(m)
  BY <1>2, <1>3 DEF AfterAppend
<1>4. CASE Carries(m)
  <2> DEFINE longer == Append(rest, m.entry)
  <2>1. AfterAppend(file, m) = longer
    BY <1>4 DEF AfterAppend
  <2>2. /\ m.prevLogTerm <= m.entry.term /\ m.entry.term <= m.term
        /\ m.entry.term \in Nat
    BY <1>1, <1>4 DEF Carries, TermsInOrder, Entry
  <2> HIDE DEF rest, prev
  <2>3. /\ DOMAIN longer = 1 .. prev + 1
        /\ \A p \in 1 .. prev : longer[p] = rest[p]
        /\ longer[prev + 1] = m.entry
        /\ DOMAIN rest = 1 .. prev
        /\ \A p \in 1 .. prev : rest[p].term \in Nat
    <3>1. rest \in Seq(Entry)
      BY <1>1 DEF DenseFile
    <3>2. /\ Len(longer) = prev + 1
          /\ \A p \in 1 .. prev : longer[p] = rest[p]
          /\ longer[prev + 1] = m.entry
      BY <1>1, <3>1
    <3>3. DOMAIN longer = 1 .. prev + 1
      BY <1>1, <3>1, <3>2
    <3>4. QED
      BY <1>1, <3>2, <3>3, EntryTerms
  <2> HIDE DEF longer
  <2>4. \A p \in 1 .. prev : longer[p].term <= m.entry.term
    <3>1. ASSUME NEW p \in 1 .. prev PROVE longer[p].term <= m.entry.term
      <4>1. prev \in 1 .. prev /\ p <= prev /\ prev # 0
        BY <1>1
      <4>2. rest[p].term <= rest[prev].term /\ rest[prev].term = m.prevLogTerm
        BY <1>2, <2>3, <4>1 DEF TermsAscend
      <4>3. QED
        BY <1>1, <2>2, <2>3, <4>2
    <3>2. QED
      BY <3>1
  <2>5. \A p \in 1 .. prev + 1 : p \in 1 .. prev \/ p = prev + 1
    BY <1>1
  <2>6. TermsAscend(longer)
    <3>1. ASSUME NEW p \in 1 .. prev + 1, NEW q \in 1 .. prev + 1, p <= q
          PROVE  longer[p].term <= longer[q].term
      <4>1. CASE q \in 1 .. prev
        <5>1. p \in 1 .. prev
          BY <1>1, <3>1, <4>1
        <5>2. rest[p].term <= rest[q].term
          BY <1>2, <2>3, <3>1, <4>1, <5>1 DEF TermsAscend
        <5>3. QED
          BY <2>3, <4>1, <5>1, <5>2
      <4>2. CASE q = prev + 1
        BY <2>2, <2>3, <2>4, <2>5, <4>2
      <4>3. QED
        BY <2>5, <4>1, <4>2
    <3>2. QED
      BY <2>3, <3>1 DEF TermsAscend
  <2>7. NoTermAbove(longer, term)
    <3>1. ASSUME NEW p \in 1 .. prev + 1 PROVE longer[p].term <= term
      <4>1. m.entry.term <= term
        BY <1>1, <2>2
      <4>2. CASE p \in 1 .. prev
        BY <1>2, <2>3, <4>2 DEF NoTermAbove
      <4>3. QED
        BY <2>3, <2>5, <4>1, <4>2
    <3>2. QED
      BY <2>3, <3>1 DEF NoTermAbove
  <2>8. QED
    BY <2>1, <2>6, <2>7
<1>5. QED
  BY <1>3, <1>4

-----------------------------------------------------------------------------
(* Steps that leave the files alone. *)

LEMMA QuietOrder ==
  ASSUME LogInv, LogInv', OrderInv, TermsKept, log' = log,
         \A k \in Node : Up(k)' => Up(k),
         chan' \in Channels(OrderedMessage)
  PROVE  OrderInv'
<1>1. ASSUME NEW k \in Node, Up(k)'
      PROVE  NoTermAbove(log[k], currentTerm'[k])
  <2>1. NoTermAbove(log[k], currentTerm[k]) /\ currentTerm'[k] >= currentTerm[k]
    BY <1>1 DEF OrderInv, LogTermsOrdered, TermsKept
  <2>2. currentTerm[k] \in Nat /\ currentTerm'[k] \in Nat
    BY DEF LogInv, TypeOK
  <2>3. \A p \in DOMAIN log[k] : log[k][p].term \in Nat
    BY LogFiles, EntryTerms
  <2>4. QED
    BY <2>1, <2>2, <2>3 DEF NoTermAbove
<1>2. \A k \in Node : TermsAscend(log[k])
  BY DEF OrderInv, LogTermsOrdered
<1>3. LogTermsOrdered'
  BY <1>1, <1>2 DEF LogTermsOrdered
<1>4. QED
  BY <1>3 DEF OrderInv

(* A process that ends leaves its file as it is, or lost. *)
LEMMA StopOrder ==
  ASSUME LogInv, OrderInv, chan' \in Channels(OrderedMessage),
         NEW i \in Node, NEW reason \in {"down"} \cup ExitReason,
         NEW received, Stop(i, reason, received),
         log' = log \/ log' = [log EXCEPT ![i] = << >>]
  PROVE  OrderInv'
<1>1. /\ proc' = [proc EXCEPT ![i] = reason]
      /\ currentTerm' = [currentTerm EXCEPT ![i] = 1]
      /\ proc \in [Node -> {"up", "down"} \cup ExitReason]
      /\ currentTerm \in [Node -> Nat]
      /\ log \in [Node -> Seq(Entry)]
  BY DEF Stop, LogInv, TypeOK
<1>2. proc'[i] # "up"
  BY <1>1 DEF ExitReason
<1>3. \A k \in Node : k # i => /\ log'[k] = log[k] /\ proc'[k] = proc[k]
                               /\ currentTerm'[k] = currentTerm[k]
  BY <1>1
<1>4. TermsAscend(log'[i])
  <2>1. log'[i] = log[i] \/ log'[i] = << >>
    BY <1>1
  <2>2. TermsAscend(log[i]) /\ TermsAscend(<< >>)
    BY DEF OrderInv, LogTermsOrdered, TermsAscend
  <2>3. QED
    BY <2>1, <2>2
<1>5. ASSUME NEW k \in Node
      PROVE  TermsAscend(log'[k]) /\ (Up(k)' => NoTermAbove(log'[k], currentTerm'[k]))
  <2>1. CASE k = i
    BY <1>2, <1>4, <2>1 DEF Up
  <2>2. CASE k # i
    BY <1>3, <2>2 DEF Up, OrderInv, LogTermsOrdered
  <2>3. QED
    BY <2>1, <2>2
<1>6. LogTermsOrdered'
  BY <1>5 DEF LogTermsOrdered
<1>7. QED
  BY <1>6 DEF OrderInv

LEMMA CronOrder ==
  ASSUME LogInv, LogInv', OrderInv, chan' \in Channels(OrderedMessage),
         NEW i \in Node, Cron(i)
  PROVE  OrderInv'
<1>1. TermsKept
  BY CronTermKept
<1>2. ASSUME NEW received, CronFlushExits(i, received) \/ CronLeadExits(i, received)
      PROVE  OrderInv'
  BY <1>2, StopOrder DEF CronFlushExits, CronLeadExits, ExitReason
<1>3. CASE \A received : ~CronFlushExits(i, received) /\ ~CronLeadExits(i, received)
  <2>1. log' = log /\ proc' = proc
    BY <1>3 DEF Cron, CronReconnect, CronIdle, CronTimeout, CronWin, CronLead,
       CronLeadStepsDown, fileVars
  <2>2. QED
    BY <1>1, <2>1, QuietOrder DEF Up
<1>4. QED
  BY <1>2, <1>3

-----------------------------------------------------------------------------
(* A follower rewrites its file. *)

LEMMA FileOrder ==
  ASSUME LogInv, LogInv', OrderInv, TermsKept, NEW i \in Node, NEW file,
         log' = [log EXCEPT ![i] = file], proc' = proc,
         TermsAscend(file), NoTermAbove(file, currentTerm'[i]),
         chan' \in Channels(OrderedMessage)
  PROVE  OrderInv'
<1>1. log \in [Node -> Seq(Entry)]
  BY DEF LogInv, TypeOK
<1>2. log'[i] = file /\ \A k \in Node : k # i => log'[k] = log[k]
  BY <1>1
<1>3. ASSUME NEW k \in Node, k # i, Up(k)
      PROVE  NoTermAbove(log[k], currentTerm'[k])
  <2>1. NoTermAbove(log[k], currentTerm[k]) /\ currentTerm'[k] >= currentTerm[k]
    BY <1>3 DEF OrderInv, LogTermsOrdered, TermsKept, Up
  <2>2. currentTerm[k] \in Nat /\ currentTerm'[k] \in Nat
    BY DEF LogInv, TypeOK
  <2>3. \A p \in DOMAIN log[k] : log[k][p].term \in Nat
    BY LogFiles, EntryTerms
  <2>4. QED
    BY <2>1, <2>2, <2>3 DEF NoTermAbove
<1>4. \A k \in Node : TermsAscend(log[k])
  BY DEF OrderInv, LogTermsOrdered
<1>5. ASSUME NEW k \in Node
      PROVE  TermsAscend(log'[k]) /\ (Up(k)' => NoTermAbove(log'[k], currentTerm'[k]))
  BY <1>2, <1>3, <1>4 DEF Up
<1>6. LogTermsOrdered'
  BY <1>5 DEF LogTermsOrdered
<1>7. QED
  BY <1>6 DEF OrderInv

(* Whoever obeys is afterwards at a term that is not below the message's, nor
   below its own before. *)
LEMMA ObeyedOrder ==
  ASSUME LogInv, LogInv', OrderInv, NEW i \in Node, NEW j \in Node,
         Receives(i, j, "appendentry"), Obeys(i, Received(i, j)),
         Follow(i, j, Received(i, j))
  PROVE  /\ TermsKept
         /\ Received(i, j) \in AppendEntryMessage
         /\ TermsInOrder(Received(i, j))
         /\ Received(i, j).term <= currentTerm'[i]
         /\ currentTerm'[i] \in Nat
         /\ log[i] \in DenseFile
         /\ TermsAscend(log[i]) /\ NoTermAbove(log[i], currentTerm'[i])
<1> DEFINE m == Received(i, j)
<1>1. chan[j][i] # << >> /\ m \in AppendEntryMessage /\ Up(i)
  BY ReceivedMessage DEF AppendEntryMessage, Receives
<1>2. TermsInOrder(m)
  BY <1>1, ReceivedWithin DEF OrderInv, OrderedMessage
<1> HIDE DEF m
<1>3. TermsKept
  BY <1>1, FollowTermKept DEF m
<1>4. /\ currentTerm \in [Node -> Nat] /\ m.term \in Nat
      /\ currentTerm'[i] \in Nat
  BY <1>1 DEF LogInv, TypeOK, AppendEntryMessage
<1>5. m.term <= currentTerm'[i] /\ currentTerm[i] <= currentTerm'[i]
  <2>1. CASE role[i] = "F" /\ m.term <= currentTerm[i]
    <3>1. currentTerm' = currentTerm
      BY <2>1 DEF Follow, m
    <3>2. QED
      BY <1>4, <2>1, <3>1
  <2>2. CASE ~(role[i] = "F" /\ m.term <= currentTerm[i])
    <3>1. currentTerm' = [currentTerm EXCEPT ![i] = m.term]
      BY <2>2 DEF Follow, ToFollow, m
    <3>2. m.term >= currentTerm[i]
      BY <1>4, <2>2 DEF Obeys, m
    <3>3. QED
      BY <1>4, <3>1, <3>2
  <2>3. QED
    BY <2>1, <2>2
<1>6. log[i] \in DenseFile
  BY LogFiles
<1>7. TermsAscend(log[i]) /\ NoTermAbove(log[i], currentTerm[i])
  BY <1>1 DEF OrderInv, LogTermsOrdered
<1>8. NoTermAbove(log[i], currentTerm'[i])
  <2>1. \A p \in DOMAIN log[i] : log[i][p].term \in Nat
    BY <1>6, EntryTerms
  <2>2. QED
    BY <1>4, <1>5, <1>7, <2>1 DEF NoTermAbove
<1>9. QED
  BY <1>1, <1>2, <1>3, <1>4, <1>5, <1>6, <1>7, <1>8 DEF m

LEMMA AppendEntryOrder ==
  ASSUME LogInv, LogInv', OrderInv, chan' \in Channels(OrderedMessage),
         NEW i \in Node, NEW j \in Node,
         \/ AppendEntryMismatch(i, j) \/ AppendEntryFails(i, j)
         \/ AppendEntryAccepted(i, j)
  PROVE  OrderInv'
<1> DEFINE m == Received(i, j)
<1>1. /\ Receives(i, j, "appendentry") /\ Obeys(i, m) /\ Follow(i, j, m)
      /\ proc' = proc
  BY DEF AppendEntryMismatch, AppendEntryFails, AppendEntryAccepted
<1>2. /\ TermsKept /\ m \in AppendEntryMessage /\ TermsInOrder(m)
      /\ m.term <= currentTerm'[i] /\ currentTerm'[i] \in Nat
      /\ log[i] \in DenseFile
      /\ TermsAscend(log[i]) /\ NoTermAbove(log[i], currentTerm'[i])
  BY <1>1, ObeyedOrder
<1>3. CASE AppendEntryMismatch(i, j)
  <2>1. log' = [log EXCEPT ![i] = AfterMismatch(log[i], m)]
    BY <1>3 DEF AppendEntryMismatch
  <2> HIDE DEF m
  <2>2. /\ TermsAscend(AfterMismatch(log[i], m))
        /\ NoTermAbove(AfterMismatch(log[i], m), currentTerm'[i])
    BY <1>2, AfterMismatchOrdered
  <2>3. QED
    BY <1>1, <1>2, <2>1, <2>2, FileOrder
<1>4. CASE AppendEntryFails(i, j)
  <2>1. log' = log
    BY <1>4 DEF AppendEntryFails, fileVars
  <2>2. QED
    BY <1>1, <1>2, <2>1, QuietOrder DEF Up
<1>5. CASE AppendEntryAccepted(i, j)
  <2>1. /\ log' = [log EXCEPT ![i] = AfterAppend(log[i], m)]
        /\ ~Mismatch(log[i], m)
    BY <1>5 DEF AppendEntryAccepted
  <2> HIDE DEF m
  <2>2. /\ TermsAscend(AfterAppend(log[i], m))
        /\ NoTermAbove(AfterAppend(log[i], m), currentTerm'[i])
    BY <1>2, <2>1, AfterAppendOrdered
  <2>3. QED
    BY <1>1, <1>2, <2>1, <2>2, FileOrder
<1>6. QED
  BY <1>3, <1>4, <1>5

LEMMA ExecuteOrder ==
  ASSUME LogInv, LogInv', OrderInv, chan' \in Channels(OrderedMessage),
         NEW i \in Node, NEW j \in Node, Execute(i, j)
  PROVE  OrderInv'
<1>1. TermsKept
  BY ExecuteTermKept
<1>2. CASE \/ AppendEntryMismatch(i, j) \/ AppendEntryFails(i, j)
           \/ AppendEntryAccepted(i, j)
  BY <1>2, AppendEntryOrder
<1>3. ASSUME NEW received, AppendEntryExits(i, j, received)
      PROVE  OrderInv'
  BY <1>3, StopOrder DEF AppendEntryExits, ExitReason
<1>4. CASE \/ AppendEntryRefused(i, j) \/ ReplyAppendEntryIgnored(i, j)
           \/ ReplyAppendEntryHigherTerm(i, j) \/ ReplyAppendEntryFalse(i, j)
           \/ ReplyAppendEntryEmpty(i, j) \/ ReplyAppendEntryTrue(i, j)
           \/ HandleRequestVote(i, j) \/ ReplyRequestVoteNoVote(i, j)
           \/ ReplyRequestVoteCounts(i, j) \/ HandleClusterNode(i, j)
           \/ HandleReplyClusterNode(i, j) \/ HandleEof(i, j)
  <2>1. log' = log /\ proc' = proc
    BY <1>4 DEF AppendEntryRefused, ReplyAppendEntryIgnored,
       ReplyAppendEntryHigherTerm, ReplyAppendEntryFalse, ReplyAppendEntryEmpty,
       ReplyAppendEntryTrue, HandleRequestVote, ReplyRequestVoteNoVote,
       ReplyRequestVoteCounts, HandleClusterNode, HandleReplyClusterNode,
       HandleEof, fileVars
  <2>2. QED
    BY <1>1, <2>1, QuietOrder DEF Up
<1>5. QED
  BY <1>2, <1>3, <1>4 DEF Execute

-----------------------------------------------------------------------------
(* Clients and faults. *)

(* A leader appends an entry of its own term, which no entry is above. *)
LEMMA ClientOrder ==
  ASSUME LogInv, LogInv', OrderInv, chan' \in Channels(OrderedMessage),
         NEW i \in Node, Client(i)
  PROVE  OrderInv'
<1>1. TermsKept
  BY OtherTermKept
<1>2. CASE ClientRequest(i)
  <2> DEFINE entry == [index |-> lastEntryIndex[i] + 1, term |-> currentTerm[i],
                       content |-> spent.request + 1]
             file  == Append(log[i], entry)
  <2>1. /\ Up(i) /\ proc' = proc /\ currentTerm' = currentTerm
        /\ log' = [log EXCEPT ![i] = file]
    BY <1>2 DEF ClientRequest, clusterVars
  <2>2. /\ log[i] \in DenseFile /\ log[i] \in Seq(Entry)
        /\ currentTerm[i] \in Nat /\ entry.term = currentTerm[i]
    BY LogFiles DEF LogInv, TypeOK
  <2>3. TermsAscend(log[i]) /\ NoTermAbove(log[i], currentTerm[i])
    BY <2>1 DEF OrderInv, LogTermsOrdered
  <2> HIDE DEF entry
  <2>4. /\ DOMAIN file = 1 .. Len(log[i]) + 1
        /\ \A p \in 1 .. Len(log[i]) : file[p] = log[i][p]
        /\ file[Len(log[i]) + 1] = entry
        /\ DOMAIN log[i] = 1 .. Len(log[i]) /\ Len(log[i]) \in Nat
    BY <2>2
  <2>5. \A p \in DOMAIN file :
          \/ p \in DOMAIN log[i] /\ file[p] = log[i][p]
          \/ p = Len(log[i]) + 1 /\ file[p].term = currentTerm[i]
    BY <2>2, <2>4
  <2> HIDE DEF file
  <2>6. NoTermAbove(file, currentTerm[i])
    BY <2>2, <2>3, <2>5 DEF NoTermAbove
  <2>7. TermsAscend(file)
    <3>1. ASSUME NEW p \in DOMAIN file, NEW q \in DOMAIN file, p <= q
          PROVE  file[p].term <= file[q].term
      <4>1. CASE q = Len(log[i]) + 1 /\ file[q].term = currentTerm[i]
        BY <2>6, <4>1 DEF NoTermAbove
      <4>2. CASE q \in DOMAIN log[i] /\ file[q] = log[i][q]
        <5>1. p \in DOMAIN log[i] /\ file[p] = log[i][p]
          BY <2>4, <2>5, <3>1, <4>2
        <5>2. QED
          BY <2>3, <3>1, <4>2, <5>1 DEF TermsAscend
      <4>3. QED
        BY <2>5, <4>1, <4>2
    <3>2. QED
      BY <3>1 DEF TermsAscend
  <2>8. QED
    BY <1>1, <2>1, <2>6, <2>7, FileOrder
<1>3. CASE ClientRequestFails(i)
  <2>1. log' = log /\ proc' = proc
    BY <1>3 DEF ClientRequestFails, fileVars
  <2>2. QED
    BY <1>1, <2>1, QuietOrder DEF Up
<1>4. QED
  BY <1>2, <1>3 DEF Client

(* A process that is started again would be at term 1, below its log. *)
LEMMA FaultOrder ==
  ASSUME MaxRestart = 0, LogInv, LogInv', OrderInv,
         chan' \in Channels(OrderedMessage), NEW i \in Node, Fault(i)
  PROVE  OrderInv'
<1>1. TermsKept
  BY OtherTermKept
<1>2. CASE Restart(i)
  <2>1. spent.restart \in Nat
    BY DEF LogInv, TypeOK
  <2>2. spent.restart < 0
    BY <1>2 DEF Restart
  <2>3. QED
    BY <2>1, <2>2
<1>3. CASE ChildLost(i) \/ DiskFault(i) \/ \E j \in Sibling(i) : Reset(i, j)
  <2>1. log' = log /\ proc' = proc
    BY <1>3 DEF ChildLost, DiskFault, Reset, fileVars
  <2>2. QED
    BY <1>1, <2>1, QuietOrder DEF Up
<1>4. ASSUME NEW received,
             \/ Crash(i, received)
             \/ \E j \in Sibling(i) : CrashInDelete(i, j, received)
      PROVE  OrderInv'
  BY <1>4, StopOrder DEF Crash, CrashInDelete
<1>5. QED
  BY <1>2, <1>3, <1>4 DEF Fault

LEMMA NextOrder ==
  ASSUME MaxRestart = 0, LogInv, LogInv', OrderInv, [Next]_vars
  PROVE  OrderInv'
<1>1. chan' \in Channels(OrderedMessage)
  BY AdmitsOrdered, NextChannels DEF OrderInv
<1>2. CASE Next
  BY <1>1, <1>2, CronOrder, ExecuteOrder, ClientOrder, FaultOrder DEF Next, Sibling
<1>3. CASE UNCHANGED vars
  BY <1>3 DEF vars, fileVars, clusterVars, OrderInv, LogTermsOrdered, Up
<1>4. QED
  BY <1>2, <1>3

LEMMA InitOrder ==
  ASSUME Init \/ ConnectedInit
  PROVE  OrderInv
<1>1. InitNodes
  BY DEF Init, ConnectedInit
<1>2. \A i \in Node : log[i] = << >> /\ \A j \in Node : chan[i][j] = << >>
  BY <1>1 DEF InitNodes
<1>3. LogTermsOrdered
  BY <1>2 DEF LogTermsOrdered, TermsAscend, NoTermAbove
<1>4. chan \in Channels(OrderedMessage)
  BY <1>1 DEF InitNodes, Channels
<1>5. QED
  BY <1>3, <1>4 DEF OrderInv

(* As long as no process is started again, the terms of a log never decrease
   and none is above its node's: the last entry that a vote compares speaks
   for the whole log, whichever leaders a follower has obeyed. *)
THEOREM TermsOrdered ==
  ASSUME MaxRestart = 0
  PROVE  Spec \/ ConnectedSpec => []LogTermsOrdered
<1>1. Init \/ ConnectedInit => OrderInv
  BY InitOrder
<1>2. LogInv /\ LogInv' /\ OrderInv /\ [Next]_vars => OrderInv'
  BY NextOrder
<1>3. OrderInv => LogTermsOrdered
  BY DEF OrderInv
<1>4. QED
  BY <1>1, <1>2, <1>3, LogInvariant, PTL DEF Spec, ConnectedSpec

-----------------------------------------------------------------------------
(* Requests.  No step makes an entry but that of a client's request: whatever
   E holds all entries before any other step holds them afterwards. *)

Carrying(E) ==
  {m \in Message : m.type = "appendentry" /\ m.entry.index # 0 => m.entry \in E}

Within(E) ==
  /\ \A i \in Node : log[i] \in Seq(E)
  /\ chan \in Channels(Carrying(E))

LEMMA SeqWithin ==
  ASSUME NEW S, NEW T, NEW q \in Seq(S), \A n \in DOMAIN q : q[n] \in T
  PROVE  q \in Seq(T)
<1>1. Len(q) \in Nat /\ DOMAIN q = 1 .. Len(q) /\ q = [n \in 1 .. Len(q) |-> q[n]]
  OBVIOUS
<1>2. q \in [1 .. Len(q) -> T]
  BY <1>1
<1>3. QED
  BY <1>1, <1>2

LEMMA EntriesAre ==
  /\ \A i \in Node : \A p \in DOMAIN log[i] : log[i][p] \in Entries
  /\ \A i, j \in Node : Carried(chan[i][j]) \subseteq Entries
<1>1. ASSUME NEW i \in Node, NEW p \in DOMAIN log[i]
      PROVE  log[i][p] \in InFiles
  <2>1. log[i][p] \in {log[i][n] : n \in DOMAIN log[i]}
    OBVIOUS
  <2>2. QED
    BY <2>1 DEF InFiles
<1>2. ASSUME NEW i \in Node, NEW j \in Node
      PROVE  Carried(chan[i][j]) \subseteq InFlight
  BY DEF InFlight
<1>3. QED
  BY <1>1, <1>2 DEF Entries

LEMMA EntriesWithin ==
  ASSUME LogInv, NEW E, E = Entries
  PROVE  Within(E)
<1>1. log \in [Node -> Seq(Entry)] /\ chan \in Channels(Message)
  BY DEF LogInv, TypeOK
<1>2. ASSUME NEW i \in Node PROVE log[i] \in Seq(E)
  <2>1. \A p \in DOMAIN log[i] : log[i][p] \in E
    BY EntriesAre
  <2>2. QED
    BY <1>1, <2>1, SeqWithin
<1>3. ASSUME NEW i \in Node, NEW j \in Node
      PROVE  chan[i][j] \in Seq(Carrying(E))
  <2> DEFINE q == chan[i][j]
  <2>1. q \in Seq(Message)
    BY <1>1 DEF Channels
  <2>2. Carried(q) \subseteq E
    BY EntriesAre
  <2> HIDE DEF q
  <2>3. ASSUME NEW n \in DOMAIN q PROVE q[n] \in Carrying(E)
    <3>1. q[n] \in Message
      BY <2>1
    <3>2. q[n].type = "appendentry" /\ q[n].entry.index # 0 => q[n].entry \in E
      BY <2>2 DEF Carried
    <3>3. QED
      BY <3>1, <3>2 DEF Carrying
  <2>4. QED
    BY <2>1, <2>3, SeqWithin DEF q
<1>4. QED
  BY <1>1, <1>2, <1>3 DEF Within, Channels

LEMMA WithinEntries ==
  ASSUME NEW E, Within(E)'
  PROVE  Entries' \subseteq E
<1>1. ASSUME NEW i \in Node, NEW p \in DOMAIN log'[i]
      PROVE  log'[i][p] \in E
  BY <1>1 DEF Within
<1>2. ASSUME NEW i \in Node, NEW j \in Node, NEW n \in DOMAIN chan'[i][j],
             chan'[i][j][n].type = "appendentry", chan'[i][j][n].entry.index # 0
      PROVE  chan'[i][j][n].entry \in E
  <2>1. chan'[i][j] \in Seq(Carrying(E))
    BY DEF Within, Channels
  <2>2. chan'[i][j][n] \in Carrying(E)
    BY <2>1
  <2>3. QED
    BY <1>2, <2>2 DEF Carrying
<1>3. \A i, j \in Node : Carried(chan[i][j])' \subseteq E
  BY <1>2 DEF Carried
<1>4. InFiles' \subseteq E
  BY <1>1 DEF InFiles
<1>5. InFlight' \subseteq E
  BY <1>3 DEF InFlight
<1>6. QED
  BY <1>4, <1>5 DEF Entries

(* What a leader sends is in its file. *)
LEMMA AdmitsCarrying ==
  ASSUME LogInv, NEW E, Within(E)
  PROVE  Admits(Carrying(E))
<1>1. ASSUME NEW i \in Node, NEW j \in Node, Up(i)
      PROVE  AppendEntry(i, j) \in Carrying(E)
  <2> DEFINE file == log[i]
             n    == nextIndex[i][j]
  <2>1. file \in DenseFile /\ file \in Seq(E) /\ n \in Nat
    <3>1. file \in DenseFile
      BY LogFiles
    <3>2. file \in Seq(E) /\ n \in Nat
      BY DEF Within, LogInv, TypeOK
    <3>3. QED
      BY <3>1, <3>2
  <2>2. AppendEntry(i, j) \in Message
    BY <1>1, AppendEntrySound DEF SoundMessage
  <2>3. AppendEntry(i, j).entry = FindEntry(file, n)
    BY DEF AppendEntry
  <2> HIDE DEF file, n
  <2>4. ASSUME FindEntry(file, n).index # 0
        PROVE  FindEntry(file, n) \in E
    <3>1. n \in 1 .. Len(file) /\ FindEntry(file, n) = file[n]
      BY <2>1, <2>4, FindEntryDense, HasEntryDense DEF NullEntry
    <3>2. QED
      BY <2>1, <3>1
  <2>5. QED
    BY <2>2, <2>3, <2>4 DEF Carrying
<1>2. QED
  BY <1>1 DEF Admits, Carrying, SoundMessage

LEMMA PrefixWithin ==
  ASSUME NEW E, NEW file \in DenseFile, file \in Seq(E), NEW rest \in DenseFile,
         Len(rest) <= Len(file), \A p \in 1 .. Len(rest) : rest[p] = file[p]
  PROVE  rest \in Seq(E)
<1>1. /\ DOMAIN rest = 1 .. Len(rest) /\ Len(rest) \in Nat
      /\ DOMAIN file = 1 .. Len(file) /\ Len(file) \in Nat
      /\ rest \in Seq(Entry)
  BY DEF DenseFile
<1>2. \A p \in DOMAIN rest : rest[p] \in E
  BY <1>1
<1>3. QED
  BY <1>1, <1>2, SeqWithin

(* A follower cuts its file and appends what it was sent. *)
LEMMA AppendEntryWithin ==
  ASSUME NEW E, NEW file \in DenseFile, file \in Seq(E),
         NEW m \in AppendEntryMessage, m \in Carrying(E)
  PROVE  /\ AfterMismatch(file, m) \in Seq(E)
         /\ ~Mismatch(file, m) => AfterAppend(file, m) \in Seq(E)
<1>1. m.prevLogIndex \in Nat /\ m.prevLogIndex + 1 \in Nat /\ m.type = "appendentry"
  BY DEF AppendEntryMessage
<1>2. \A index \in Nat : DeleteEntryAfter(file, index) \in Seq(E)
  BY DeleteEntryAfterDense, PrefixWithin
<1>3. AfterMismatch(file, m) \in Seq(E)
  BY <1>1, <1>2 DEF AfterMismatch
<1>4. CutAfterPrev(file, m) \in Seq(E)
  BY <1>1, <1>2 DEF CutAfterPrev
<1>5. Carries(m) => m.entry \in E
  BY <1>1 DEF Carries, Carrying
<1>6. AfterAppend(file, m) \in Seq(E)
  BY <1>4, <1>5 DEF AfterAppend
<1>7. QED
  BY <1>3, <1>6

LEMMA FilesWithin ==
  ASSUME LogInv, NEW E, Within(E), [Next]_vars, \A i \in Node : ~ClientRequest(i)
  PROVE  \A k \in Node : log'[k] \in Seq(E)
<1>1. log \in [Node -> Seq(Entry)] /\ \A k \in Node : log[k] \in Seq(E)
  BY DEF LogInv, TypeOK, Within
<1>2. ASSUME NEW i \in Node, NEW file \in Seq(E), log' = [log EXCEPT ![i] = file]
      PROVE  \A k \in Node : log'[k] \in Seq(E)
  BY <1>1, <1>2
<1>3. ASSUME log' = log
      PROVE  \A k \in Node : log'[k] \in Seq(E)
  BY <1>1, <1>3
<1>4. ASSUME NEW i \in Node, Cron(i) \/ ClientRequestFails(i)
      PROVE  log' = log
  BY <1>4 DEF Cron, CronReconnect, CronIdle, CronTimeout, CronWin, CronLead,
     CronLeadStepsDown, CronFlushExits, CronLeadExits, ClientRequestFails, fileVars
<1>5. ASSUME NEW i \in Node, Fault(i)
      PROVE  log' = log \/ log' = [log EXCEPT ![i] = << >>]
  BY <1>5 DEF Fault, Restart, ChildLost, DiskFault, Crash, Reset, CrashInDelete,
     fileVars
<1>6. ASSUME NEW i \in Node, NEW j \in Node, Execute(i, j)
      PROVE  log' = log \/ \E file \in Seq(E) : log' = [log EXCEPT ![i] = file]
  <2> DEFINE m == Received(i, j)
  <2>1. ASSUME Receives(i, j, "appendentry")
        PROVE  m \in AppendEntryMessage /\ m \in Carrying(E)
    <3>1. chan[j][i] # << >> /\ m \in AppendEntryMessage
      BY <2>1, ReceivedMessage DEF AppendEntryMessage
    <3>2. m \in Carrying(E)
      BY <3>1, ReceivedWithin DEF Within
    <3>3. QED
      BY <3>1, <3>2
  <2>2. CASE AppendEntryMismatch(i, j)
    <3>1. /\ log' = [log EXCEPT ![i] = AfterMismatch(log[i], m)]
          /\ Receives(i, j, "appendentry")
      BY <2>2 DEF AppendEntryMismatch
    <3> HIDE DEF m
    <3>2. AfterMismatch(log[i], m) \in Seq(E)
      BY <1>1, <2>1, <3>1, LogFiles, AppendEntryWithin
    <3>3. QED
      BY <3>1, <3>2
  <2>3. CASE AppendEntryAccepted(i, j)
    <3>1. /\ log' = [log EXCEPT ![i] = AfterAppend(log[i], m)]
          /\ ~Mismatch(log[i], m) /\ Receives(i, j, "appendentry")
      BY <2>3 DEF AppendEntryAccepted
    <3> HIDE DEF m
    <3>2. AfterAppend(log[i], m) \in Seq(E)
      BY <1>1, <2>1, <3>1, LogFiles, AppendEntryWithin
    <3>3. QED
      BY <3>1, <3>2
  <2>4. CASE ~AppendEntryMismatch(i, j) /\ ~AppendEntryAccepted(i, j)
    BY <1>6, <2>4 DEF Execute, AppendEntryRefused, AppendEntryFails,
       AppendEntryExits, ReplyAppendEntryIgnored, ReplyAppendEntryHigherTerm,
       ReplyAppendEntryFalse, ReplyAppendEntryEmpty, ReplyAppendEntryTrue,
       HandleRequestVote, ReplyRequestVoteNoVote, ReplyRequestVoteCounts,
       HandleClusterNode, HandleReplyClusterNode, HandleEof, fileVars
  <2>5. QED
    BY <2>2, <2>3, <2>4
<1>7. CASE UNCHANGED vars
  BY <1>3, <1>7 DEF vars, fileVars
<1>8. << >> \in Seq(E)
  OBVIOUS
<1>9. QED
  BY <1>2, <1>3, <1>4, <1>5, <1>6, <1>7, <1>8 DEF Next, Client, Sibling

LEMMA NextWithin ==
  ASSUME LogInv, LogInv', NEW E, Within(E), [Next]_vars,
         \A i \in Node : ~ClientRequest(i)
  PROVE  Within(E)'
<1>1. chan' \in Channels(Carrying(E))
  BY AdmitsCarrying, NextChannels DEF Within
<1>2. QED
  BY <1>1, FilesWithin DEF Within

(* The number of the next request only grows, and stays within its bound. *)
LEMMA RequestsCounted ==
  ASSUME LogInv, [Next]_vars, spent.request <= MaxRequest
  PROVE  /\ spent'.request \in Nat
         /\ spent.request <= spent'.request /\ spent'.request <= MaxRequest
<1>1. spent \in SpentType /\ MaxRequest \in Nat /\ spent.request \in Nat
  BY BoundAssumption DEF LogInv, TypeOK, SpentType
<1>2. ASSUME spent'.request = spent.request
      PROVE  /\ spent'.request \in Nat
             /\ spent.request <= spent'.request /\ spent'.request <= MaxRequest
  BY <1>1, <1>2
<1>3. ASSUME NEW bound \in {"crash", "deleteCrash", "restart", "reset",
                            "childLoss", "diskFault"},
             Spend(bound)
      PROVE  spent'.request = spent.request
  <2>1. spent' = [spent EXCEPT ![bound] = @ + 1]
    BY <1>3 DEF Spend
  <2>2. CASE bound \in {"crash", "deleteCrash", "restart"}
    BY <1>1, <2>1, <2>2 DEF SpentType
  <2>3. CASE bound \in {"reset", "childLoss", "diskFault"}
    BY <1>1, <2>1, <2>3 DEF SpentType
  <2>4. QED
    BY <2>2, <2>3
<1>4. ASSUME Spend("request"), spent.request < MaxRequest
      PROVE  /\ spent'.request \in Nat
             /\ spent.request <= spent'.request /\ spent'.request <= MaxRequest
  <2>1. spent'.request = spent.request + 1
    BY <1>1, <1>4 DEF Spend, SpentType
  <2>2. QED
    BY <1>1, <1>4, <2>1
<1>5. ASSUME NEW i \in Node, Cron(i)
      PROVE  spent'.request = spent.request
  <2>1. CronTimeout(i) => spent'.request = spent.request
    BY <1>1 DEF CronTimeout, SpentType
  <2>2. QED
    BY <1>5, <2>1 DEF Cron, CronReconnect, CronIdle, CronWin, CronLead,
       CronLeadStepsDown, CronFlushExits, CronLeadExits
<1>6. ASSUME NEW i \in Node, Client(i)
      PROVE  Spend("request") /\ spent.request < MaxRequest
  BY <1>6 DEF Client, ClientRequest, ClientRequestFails
<1>7. ASSUME NEW i \in Node, Fault(i)
      PROVE  \E bound \in {"crash", "deleteCrash", "restart", "reset",
                           "childLoss", "diskFault"} : Spend(bound)
  BY <1>7 DEF Fault, Restart, ChildLost, DiskFault, Crash, Reset, CrashInDelete
<1>8. ASSUME NEW i \in Node, NEW j \in Node, Execute(i, j)
      PROVE  spent'.request = spent.request
  BY <1>8 DEF Execute, AppendEntryRefused, AppendEntryMismatch, AppendEntryFails,
     AppendEntryAccepted, AppendEntryExits, ReplyAppendEntryIgnored,
     ReplyAppendEntryHigherTerm, ReplyAppendEntryFalse, ReplyAppendEntryEmpty,
     ReplyAppendEntryTrue, HandleRequestVote, ReplyRequestVoteNoVote,
     ReplyRequestVoteCounts, HandleClusterNode, HandleReplyClusterNode, HandleEof
<1>9. CASE UNCHANGED vars
  BY <1>2, <1>9 DEF vars
<1>10. QED
  BY <1>2, <1>3, <1>4, <1>5, <1>6, <1>7, <1>8, <1>9 DEF Next, Sibling

(* A leader appends an entry whose number nobody has seen. *)
LEMMA RequestInvClient ==
  ASSUME LogInv, RequestInv, NEW i \in Node, ClientRequest(i)
  PROVE  RequestInv'
<1> DEFINE entry == [index |-> lastEntryIndex[i] + 1, term |-> currentTerm[i],
                     content |-> spent.request + 1]
<1>1. /\ log' = [log EXCEPT ![i] = Append(log[i], entry)]
      /\ chan' = chan /\ Spend("request") /\ spent.request < MaxRequest
  BY DEF ClientRequest
<1>2. /\ spent \in SpentType /\ spent.request \in Nat /\ MaxRequest \in Nat
      /\ log \in [Node -> Seq(Entry)]
  BY BoundAssumption DEF LogInv, TypeOK, SpentType
<1>3. spent'.request = spent.request + 1
  BY <1>1, <1>2 DEF Spend, SpentType
<1>4. PICK E : E = Entries
  OBVIOUS
<1>5. Within(E)
  BY <1>4, EntriesWithin
<1>6. entry.content = spent.request + 1
  OBVIOUS
<1> HIDE DEF entry
<1>7. PICK F : F = E \cup {entry}
  OBVIOUS
<1>8. Within(F)'
  <2>1. \A k \in Node : log[k] \in Seq(E) /\ log[k] \in Seq(F)
    <3>1. \A k \in Node : log[k] \in Seq(E)
      BY <1>5 DEF Within
    <3>2. ASSUME NEW k \in Node PROVE log[k] \in Seq(F)
      BY <1>7, <3>1, SeqWithin
    <3>3. QED
      BY <3>1, <3>2
  <2>2. \A k \in Node : log'[k] \in Seq(F)
    <3>1. entry \in F
      BY <1>7
    <3>2. Append(log[i], entry) \in Seq(F)
      BY <2>1, <3>1
    <3>3. QED
      BY <1>1, <1>2, <2>1, <3>2
  <2>3. ASSUME NEW k \in Node, NEW j \in Node
        PROVE  chan[k][j] \in Seq(Carrying(F))
    <3>1. chan[k][j] \in Seq(Carrying(E))
      BY <1>5 DEF Within, Channels
    <3>2. Carrying(E) \subseteq Carrying(F)
      BY <1>7 DEF Carrying
    <3>3. \A n \in DOMAIN chan[k][j] : chan[k][j][n] \in Carrying(F)
      BY <3>1, <3>2
    <3>4. QED
      BY <3>1, <3>3, SeqWithin
  <2>4. chan' \in Channels(Carrying(F))
    BY <1>1, <1>5, <2>3 DEF Within, Channels
  <2>5. QED
    BY <2>2, <2>4 DEF Within
<1>9. Entries' \subseteq F
  BY <1>8, WithinEntries
<1>10. /\ \A e \in E : e.content \in 1 .. spent.request
       /\ \A e, f \in E : e.content = f.content => e = f
  BY <1>4 DEF RequestInv
<1>11. \A e \in F : e.content \in 1 .. spent'.request
  BY <1>2, <1>3, <1>6, <1>7, <1>10
<1>12. \A e, f \in F : e.content = f.content => e = f
  BY <1>2, <1>6, <1>7, <1>10
<1>13. spent'.request <= MaxRequest
  BY <1>1, <1>2, <1>3
<1>14. QED
  BY <1>9, <1>11, <1>12, <1>13 DEF RequestInv

LEMMA NextRequests ==
  ASSUME LogInv, LogInv', RequestInv, [Next]_vars
  PROVE  RequestInv'
<1>1. CASE \E i \in Node : ClientRequest(i)
  BY <1>1, RequestInvClient
<1>2. CASE \A i \in Node : ~ClientRequest(i)
  <2>1. PICK E : E = Entries
    OBVIOUS
  <2>2. Within(E)
    BY <2>1, EntriesWithin
  <2>3. Entries' \subseteq E
    BY <1>2, <2>2, NextWithin, WithinEntries
  <2>4. /\ spent.request <= MaxRequest /\ spent.request \in Nat
        /\ \A e \in E : e.content \in 1 .. spent.request
        /\ \A e, f \in E : e.content = f.content => e = f
    BY <2>1 DEF RequestInv, LogInv, TypeOK
  <2>5. /\ spent'.request \in Nat
        /\ spent.request <= spent'.request /\ spent'.request <= MaxRequest
    BY <2>4, RequestsCounted
  <2>6. \A e \in E : e.content \in 1 .. spent'.request
    BY <2>4, <2>5
  <2>7. QED
    BY <2>3, <2>4, <2>5, <2>6 DEF RequestInv
<1>3. QED
  BY <1>1, <1>2

LEMMA InitRequests ==
  ASSUME Init \/ ConnectedInit
  PROVE  RequestInv
<1>1. InitNodes /\ MaxRequest \in Nat
  BY BoundAssumption DEF Init, ConnectedInit
<1>2. \A i \in Node : log[i] = << >> /\ \A j \in Node : chan[i][j] = << >>
  BY <1>1 DEF InitNodes
<1>3. Entries = {}
  BY <1>2 DEF Entries, InFiles, InFlight, Carried
<1>4. spent.request = 0
  BY <1>1 DEF InitNodes
<1>5. QED
  BY <1>1, <1>3, <1>4 DEF RequestInv

LEMMA OnceEach ==
  ASSUME LogInv, RequestInv
  PROVE  RequestsOnce
<1>1. ASSUME NEW i \in Node, NEW j \in Node,
             NEW p \in DOMAIN log[i], NEW q \in DOMAIN log[j],
             log[i][p].content = log[j][q].content
      PROVE  p = q /\ log[i][p] = log[j][q]
  <2>1. log[i][p] \in Entries /\ log[j][q] \in Entries
    BY EntriesAre
  <2>2. log[i][p] = log[j][q]
    BY <1>1, <2>1 DEF RequestInv
  <2>3. log[i][p].index = p /\ log[j][q].index = q
    BY DEF LogInv, IndexDense, Dense
  <2>4. QED
    BY <2>2, <2>3
<1>2. QED
  BY <1>1 DEF RequestsOnce

(* All copies of the entry of a request are alike, in the files and in
   flight, and requests are numbered within their bound. *)
THEOREM RequestInvariant == Spec \/ ConnectedSpec => []RequestInv
<1>1. Init \/ ConnectedInit => RequestInv
  BY InitRequests
<1>2. LogInv /\ LogInv' /\ RequestInv /\ [Next]_vars => RequestInv'
  BY NextRequests
<1>3. QED
  BY <1>1, <1>2, LogInvariant, PTL DEF Spec, ConnectedSpec

(* Whatever is sent again, cut, lost with a file or handed on by another
   leader: a request is in no log file twice, and wherever it is it has the
   same index and term. *)
THEOREM RequestsWrittenOnce == Spec \/ ConnectedSpec => []RequestsOnce
<1>1. LogInv /\ RequestInv => RequestsOnce
  BY OnceEach
<1>2. QED
  BY <1>1, LogInvariant, RequestInvariant, PTL
==============================================================================
