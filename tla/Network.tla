------------------------------- MODULE Network -------------------------------
(***************************************************************************)
(* The TCP connections between the nodes of the cluster.  chan[i][j] holds *)
(* what i has sent to j and j has not executed yet: the output buffer of   *)
(* i, the sockets and the input buffer of j, in order.  When a connection  *)
(* ends, j still reads what it had received and then EOF; the first        *)
(* message of the next connection follows that EOF, because a node dials a *)
(* sibling again only after it has dropped the old connection.             *)
(***************************************************************************)
EXTENDS Naturals, Sequences, PersistenceFile

CONSTANTS IdMin, IdMax   \* CLUSTER_ID_MIN and CLUSTER_ID_MAX

ASSUME IdAssumption == IdMin \in Nat \ {0} /\ IdMax \in Nat /\ IdMin <= IdMax

Node == IdMin .. IdMax

(* The messages.  "eof" is not a message of the protocol: it is read()
   returning 0 or an error. *)
Message ==
  [type: {"clusternode", "replyclusternode", "eof"}]
  \cup [type: {"appendentry"}, term: Nat, prevLogIndex: Nat, prevLogTerm: Nat,
        entry: Entry, leaderCommit: Nat]
  \cup [type: {"replyappendentry", "replyrequestvote"}, term: Nat,
        success: BOOLEAN]
  \cup [type: {"requestvote"}, term: Nat, lastLogIndex: Nat, lastLogTerm: Nat]

(* What is in flight belongs to M. *)
Channels(M) == [Node -> [Node -> Seq(M)]]

Eof == [type |-> "eof"]
ClusterNode == [type |-> "clusternode"]
ReplyClusterNode == [type |-> "replyclusternode"]

IsEof(m) == m.type = "eof"

(* The connection that the reader of queue knew has ended. *)
Ended(queue) == \E n \in DOMAIN queue : IsEof(queue[n])

(* What i adds to its output buffer for j: it is lost if the connection of i
   to j has already ended on the other side. *)
Post(chan, i, j, m) ==
  IF Ended(chan[j][i]) THEN chan[i][j] ELSE Append(chan[i][j], m)

(* i executes the message at the head of what j sent, with no answer. *)
Consume(chan, i, j) == [chan EXCEPT ![j][i] = Tail(@)]

(* i executes the message at the head of what j sent and answers m. *)
Answer(chan, i, j, m) ==
  LET rest == Consume(chan, i, j)
  IN  [rest EXCEPT ![i][j] = Post(rest, i, j, m)]

(* i posts message[j] to every sibling j of targets. *)
Broadcast(chan, i, targets, message) ==
  [chan EXCEPT ![i] =
     [j \in Node |-> IF j \in targets THEN Post(chan, i, j, message[j]) ELSE @[j]]]

(* i dials the siblings of targets and sends them a clusternode message.  A
   refused connection is reported by the first read, as an end of file. *)
Dial(chan, i, targets, alive) ==
  [a \in Node |-> [b \in Node |->
     CASE a = i /\ b \in targets \cap alive -> Append(chan[a][b], ClusterNode)
       [] b = i /\ a \in targets \ alive    -> Append(chan[a][b], Eof)
       [] OTHER                             -> chan[a][b]]]

(* The process of i is gone.  Its siblings in received read all it had sent,
   the others nothing more of it; those in connected then read EOF. *)
Hangup(chan, i, connected, received) ==
  [a \in Node |-> [b \in Node |->
     CASE b = i -> << >>
       [] a = i /\ b # i ->
            (CASE b \in received       -> chan[i][b]
               [] b \notin received /\ Ended(chan[i][b]) -> <<Eof>>
               [] OTHER -> << >>)
            \o (IF b \in connected THEN <<Eof>> ELSE << >>)
       [] OTHER -> chan[a][b]]]

(* The connection between i and j breaks; nothing in flight arrives. *)
Break(chan, i, j) == [chan EXCEPT ![i][j] = <<Eof>>, ![j][i] = <<Eof>>]
==============================================================================
