------------------------------- MODULE Serving -------------------------------
(***************************************************************************)
(* One node of the cluster with its clients on one side and its storage    *)
(* servers on the other: the way of a client command through               *)
(* ClusterDefaultCommand into the log, from there through                  *)
(* Children::flushServer() to a storage server, and of its answer through  *)
(* FlushServerCommand and Parents back to a client.                        *)
(*                                                                         *)
(* The other nodes are left to module Cluster.  Here entries are committed *)
(* and the role changes at any time, and a follower's log is replaced      *)
(* beyond what it has committed: what ReplicatedLog promises.              *)
(***************************************************************************)
EXTENDS Integers, FiniteSets, FiniteSetsExt, StorageServer

CONSTANTS
  ServerTotal,    \* CLUSTER_SERVER_TOTAL
  Hash,           \* Hash[k]: the hash value of key k, modulo hashValueMax
  Persistent,     \* Persistent[s]: SERVER_PF of server s
  Client,         \* the console clients that connect to this node
  Script,         \* Script[c]: the commands the user of c enters
  Foreign,        \* commands that reach the log through another leader
  MaxEntry,       \* entries of the log
  MaxTimeout,     \* election timeouts of this node
  MaxForeign,     \* entries replaced or added by another leader
  MaxLost,        \* connections to a storage server that it ends
  MaxQuit,        \* clients whose user quits
  MaxDisturbance  \* all of these together

hashValueMax == 977
None == "none"

ASSUME ServingAssumption ==
  /\ ServerTotal \in Nat \ {0}
  /\ Hash \in [Key -> 0 .. hashValueMax - 1]
  /\ Persistent \in [1 .. ServerTotal -> BOOLEAN]
  /\ Script \in [Client -> Seq(Command)]
  /\ Foreign \subseteq Command
  /\ None \notin Client /\ Client \cap (1 .. ServerTotal) = {}
  /\ {MaxTimeout, MaxForeign, MaxLost, MaxQuit, MaxDisturbance, MaxEntry} \subseteq Nat

VARIABLES
  nodeUp, role, leaderKnown,
  log, commitIndex, lastApplied,
  parents,      \* Parents: the clients in parentsQueue
  address,      \* address[c]: where the ClusterClient of c is, or was
  dealing,      \* Parents: dealingIndexParentsMap, None where it has no entry
  connected,    \* Children: the servers with connectStatus true
  ready,        \* what epoll_wait() reported and is not handled yet
  polling,      \* cron() is done, epoll_wait() has not returned
  outputBuf,    \* outputBuf[s]: entries flushed to s and not written yet
  toServer,     \* toServer[s]: entries written to s that s has not read
  fromServer,   \* fromServer[s]: answers of s not read by the node
  serverUp, db, pf,
  client,       \* "new", "idle", "waiting" for an answer, or "gone"
  progress,     \* progress[c]: the commands of Script[c] that were answered
  toNode,       \* toNode[c]: what c has sent and the node has not read
  fromNode,     \* fromNode[c]: what the node has sent and c has not read
  spent

raftVars   == <<nodeUp, role, leaderKnown, log, commitIndex>>
parentVars == <<parents, address, dealing>>
childVars  == <<connected, outputBuf, toServer, fromServer>>
serverVars == <<serverUp, db, pf>>
clientVars == <<client, progress, toNode, fromNode>>
vars == <<raftVars, lastApplied, parentVars, childVars, ready, polling,
          serverVars, clientVars, spent>>

Server == 1 .. ServerTotal

(* What is read last from a connection that has ended, of a client and of a
   server, whose answers are the numbers of the entries it has executed. *)
Eof == [op |-> "eof"]
Closed == 0
Ended(s) == \E n \in DOMAIN fromServer[s] : fromServer[s][n] = Closed

(* What a client may read: a command to go elsewhere or try again, or an
   answer.  An answer names the entry the server executed and the entry of
   the client it was given to: no byte of it does. *)
Redirect == [type |-> "redirect"]
NotAvailable == [type |-> "notavailable"]
Retry == [type |-> "retry"]
Answer(entry, own) == [type |-> "answer", entry |-> entry, own |-> own]

Spend(bound, limit) ==
  /\ spent[bound] < limit
  /\ FoldFunction(+, 0, spent) < MaxDisturbance
  /\ spent' = [spent EXCEPT ![bound] = @ + 1]

Index == 1 .. MaxEntry

Init ==
  /\ nodeUp = TRUE /\ role = "F" /\ leaderKnown = FALSE
  /\ log = << >> /\ commitIndex = 0 /\ lastApplied = 0
  /\ parents = {} /\ address = [c \in Client |-> None]
  /\ dealing = [n \in Index |-> None]
  /\ connected = {}
  /\ ready = {} /\ polling = FALSE
  /\ outputBuf = [s \in Server |-> << >>]
  /\ toServer = [s \in Server |-> << >>]
  /\ fromServer = [s \in Server |-> << >>]
  /\ serverUp = [s \in Server |-> TRUE]
  /\ db = [s \in Server |-> EmptyDataBase]
  /\ pf = [s \in Server |-> << >>]
  /\ client = [c \in Client |-> "new"]
  /\ progress = [c \in Client |-> 0]
  /\ toNode = [c \in Client |-> << >>]
  /\ fromNode = [c \in Client |-> << >>]
  /\ spent = [timeout |-> 0, foreign |-> 0, lost |-> 0, quit |-> 0]

AtEvents == nodeUp /\ ~polling
AtCron == AtEvents /\ ready = {}

------------------------------------------------------------------------------
(* Children. *)

(* satisfyWorkingBaseling(); that of Siblings is taken to hold. *)
WorkingBaseline == connected = Server

(* The consistent hash: server s sits at hashUnit * s; a key belongs to the
   first connected server at its hash value or above, or else to the first. *)
Position(s) == (hashValueMax \div ServerTotal) * s
RespondServer(key) ==
  LET above == {s \in connected : Hash[key] <= Position(s)}
  IN  Min(IF above = {} THEN connected ELSE above)

(* Mutant: what the other servers have is not flushed again. *)
FlushGoesOn == UNCHANGED lastApplied

FlushFromTheStart == lastApplied' = 0

(* cron() with a server lost: a leader or a candidate becomes a follower, and
   connectLostChildren() dials.  connectTcp() does not wait for the outcome:
   that nobody listens is found by the first read. *)
CronReconnect ==
  /\ AtCron /\ ~WorkingBaseline
  /\ role' = "F"
  /\ FlushFromTheStart
  /\ connected' = Server
  /\ fromServer' = [s \in Server |->
       CASE s \in connected -> fromServer[s]
         [] s \notin connected /\ serverUp[s] -> << >>
         [] OTHER -> <<Closed>>]
  /\ polling' = TRUE
  /\ UNCHANGED <<nodeUp, leaderKnown, log, commitIndex, parentVars, outputBuf,
                 toServer, ready, serverVars, clientVars, spent>>

(* Mutant: as far as the last entry of the file. *)
AppliedToTheLast == Min({lastApplied + 1, Len(log)})

AppliedNext == Min({lastApplied + 1, commitIndex})

(* Mutant: the entry is looked up before lastApplied is incremented. *)
FlushPrevious ==
  IF lastApplied < commitIndex /\ lastApplied > 0
  THEN LET s == RespondServer(log[lastApplied].key)
       IN  outputBuf' = [outputBuf EXCEPT ![s] = Append(@, lastApplied)]
  ELSE UNCHANGED outputBuf

(* flushServer(): the next committed entry goes to the output buffer of the
   server of its key. *)
FlushNext ==
  IF lastApplied < commitIndex
  THEN LET s == RespondServer(log[lastApplied + 1].key)
       IN  outputBuf' = [outputBuf EXCEPT ![s] = Append(@, lastApplied + 1)]
  ELSE UNCHANGED outputBuf

(* Mutant: the clients of an earlier leadership are kept. *)
KeepDealing == UNCHANGED dealing

ClearDealingIndex == dealing' = [n \in Index |-> None]

ElectionTimeout ==
  /\ role = "F" /\ role' = "C" /\ Spend("timeout", MaxTimeout)
  /\ UNCHANGED <<commitIndex, dealing>>

(* toLead(): the candidate has enough votes. *)
ToLead ==
  /\ role = "C" /\ role' = "L"
  /\ commitIndex' = Len(log)
  /\ ClearDealingIndex
  /\ UNCHANGED spent

(* cron() with all servers connected: an entry is flushed, then the role may
   change. *)
CronFlush ==
  /\ AtCron /\ WorkingBaseline
  /\ FlushNext
  /\ lastApplied' = AppliedNext
  /\ \/ ElectionTimeout
     \/ ToLead
     \/ UNCHANGED <<role, commitIndex, dealing, spent>>
  /\ polling' = TRUE
  /\ UNCHANGED <<nodeUp, leaderKnown, log, parents, address, connected,
                 toServer, fromServer, ready, serverVars, clientVars>>

------------------------------------------------------------------------------
(* EventPoll: what is ready when epoll_wait() returns, each connection once.
   A connection with output has no read event. *)

EpollWait ==
  /\ nodeUp /\ polling
  /\ polling' = FALSE
  /\ ready' = {s \in connected : outputBuf[s] # << >> \/ fromServer[s] # << >>}
              \cup {c \in parents : toNode[c] # << >>}
  /\ UNCHANGED <<raftVars, lastApplied, parentVars, childVars, serverVars,
                 clientVars, spent>>

Handles(x) == AtEvents /\ x \in ready /\ ready' = ready \ {x}

(* The flushed entry is written.  If the server has closed the connection it
   is lost; once the connection is known to be reset, SIGPIPE ends the node. *)
WriteToServer(s) ==
  /\ Handles(s) /\ outputBuf[s] # << >>
  /\ \/ /\ ~Ended(s)
        /\ toServer' = [toServer EXCEPT ![s] = @ \o outputBuf[s]]
        /\ UNCHANGED nodeUp
     \/ /\ Ended(s)
        /\ nodeUp' \in BOOLEAN
        /\ UNCHANGED toServer
  /\ outputBuf' = [outputBuf EXCEPT ![s] = << >>]
  /\ UNCHANGED <<role, leaderKnown, log, commitIndex, lastApplied, parentVars,
                 connected, fromServer, polling, serverVars, clientVars, spent>>

(* The connection to a server has ended: deleteChildren(). *)
DeleteChildren(s) ==
  /\ Handles(s) /\ outputBuf[s] = << >> /\ Head(fromServer[s]) = Closed
  /\ connected' = connected \ {s}
  /\ fromServer' = [fromServer EXCEPT ![s] = << >>]
  /\ toServer' = [toServer EXCEPT ![s] = << >>]
  /\ UNCHANGED <<raftVars, lastApplied, parentVars, outputBuf, polling,
                 serverVars, clientVars, spent>>

(* Mutant: the client stays in the map. *)
DealingAnyway == dealing

WithoutDealt == [dealing EXCEPT ![lastApplied] = None]

(* getParentsByDealingIndex(lastApplied) erases what it finds.  The client
   that lives at the address found gets the answer.  If none does, the object
   has been deleted: fillSendBuf() and getReadyToSendMessage() use freed memory
   and a closed descriptor, which goes unnoticed or ends the process. *)
GiveAnswer(entry) ==
  LET found == dealing[lastApplied]
      holders == {c \in parents : address[c] = found}
  IN  /\ dealing' = WithoutDealt
      /\ fromNode' = [c \in Client |->
           IF found # None /\ c \in holders
           THEN Append(fromNode[c], Answer(entry, lastApplied)) ELSE fromNode[c]]
      /\ \/ UNCHANGED nodeUp
         \/ found # None /\ holders = {} /\ nodeUp' = FALSE

(* Mutant: answers are handed on whatever the role. *)
AnswersAlways == lastApplied \in Index

(* FlushServerCommand hands an answer on only as the leader. *)
AnswersHandedOn == role = "L" /\ lastApplied \in Index

(* Answers of a server: FlushServerCommand for each one read.  The first of
   them takes the client of entry lastApplied, the others find none. *)
ReadFromServer(s) ==
  /\ Handles(s) /\ outputBuf[s] = << >>
  /\ \E n \in 1 .. Len(fromServer[s]) :
       /\ \A k \in 1 .. n : fromServer[s][k] # Closed
       /\ fromServer' = [fromServer EXCEPT ![s] = SubSeq(@, n + 1, Len(@))]
       /\ IF AnswersHandedOn
          THEN GiveAnswer(fromServer[s][1])
          ELSE UNCHANGED <<nodeUp, dealing, fromNode>>
  /\ UNCHANGED <<role, leaderKnown, log, commitIndex, lastApplied, parents,
                 address, connected, outputBuf, toServer, polling, serverVars,
                 client, progress, toNode, spent>>

(* deleteParents(): the client leaves the queue, not the map. *)
DeleteParents(c) ==
  /\ Handles(c) /\ Head(toNode[c]) = Eof
  /\ parents' = parents \ {c}
  /\ toNode' = [toNode EXCEPT ![c] = << >>]
  /\ UNCHANGED <<raftVars, lastApplied, address, dealing, childVars, polling,
                 serverVars, client, progress, fromNode, spent>>

Receives(c) == Handles(c) /\ Head(toNode[c]) # Eof

(* ClusterDefaultCommand as leader: append and setDealingIndex(). *)
AppendCommand(c) ==
  /\ Receives(c) /\ role = "L" /\ Len(log) < MaxEntry
  /\ log' = Append(log, Head(toNode[c]))
  /\ dealing' = [dealing EXCEPT ![Len(log) + 1] = address[c]]
  /\ toNode' = [toNode EXCEPT ![c] = Tail(@)]
  /\ UNCHANGED <<nodeUp, role, leaderKnown, commitIndex, lastApplied, parents,
                 address, childVars, polling, serverVars, client, progress,
                 fromNode, spent>>

(* ClusterDefaultCommand as follower or candidate. *)
TurnAway(c) ==
  /\ Receives(c) /\ role # "L"
  /\ fromNode' = [fromNode EXCEPT
       ![c] = Append(@, CASE role = "C"                -> Retry
                          [] role = "F" /\ leaderKnown -> Redirect
                          [] OTHER                     -> NotAvailable)]
  /\ toNode' = [toNode EXCEPT ![c] = Tail(@)]
  /\ UNCHANGED <<raftVars, lastApplied, parentVars, childVars, polling,
                 serverVars, client, progress, spent>>

(* A connection is accepted: addParents().  The new object may be where a
   deleted one was. *)
Accept(c) ==
  /\ AtEvents /\ client[c] = "new"
  /\ client' = [client EXCEPT ![c] = "idle"]
  /\ parents' = parents \cup {c}
  /\ \E a \in Client \ {address[d] : d \in parents} :
       /\ a = c \/ \E d \in Client : address[d] = a
       /\ address' = [address EXCEPT ![c] = a]
  /\ UNCHANGED <<raftVars, lastApplied, dealing, childVars, ready, polling,
                 serverVars, progress, toNode, fromNode, spent>>

------------------------------------------------------------------------------
(* The cluster. *)

(* toFollow(), which leaves dealingIndexParentsMap as it is. *)
ToFollow ==
  /\ AtEvents /\ role # "F"
  /\ role' = "F"
  /\ leaderKnown' \in BOOLEAN
  /\ UNCHANGED <<nodeUp, log, commitIndex, lastApplied, parentVars, childVars,
                 ready, polling, serverVars, clientVars, spent>>

(* A leader learns that more entries are on a majority. *)
Commit ==
  /\ AtEvents /\ role = "L"
  /\ commitIndex' \in commitIndex + 1 .. Len(log)
  /\ UNCHANGED <<nodeUp, role, leaderKnown, log, lastApplied, parentVars,
                 childVars, ready, polling, serverVars, clientVars, spent>>

(* A follower obeys another leader: what it has not committed is replaced. *)
Replicate ==
  /\ AtEvents /\ role = "F"
  /\ Spend("foreign", MaxForeign)
  /\ \E kept \in commitIndex .. Min({Len(log), MaxEntry - 1}),
        command \in Foreign :
       log' = Append(SubSeq(log, 1, kept), command)
  /\ commitIndex' \in commitIndex .. Len(log')
  /\ leaderKnown' = TRUE
  /\ UNCHANGED <<nodeUp, role, lastApplied, parentVars, childVars, ready,
                 polling, serverVars, clientVars>>

------------------------------------------------------------------------------
(* The storage servers.  A server waits in epoll_wait() without a timeout. *)

(* ServerClient::executeCommand(): the persistence file first. *)
ServerExecutes(s, command) ==
  /\ pf' = [pf EXCEPT ![s] =
              IF Persistent[s] /\ NeedPF(command) THEN Append(@, command) ELSE @]
  /\ db' = [db EXCEPT ![s] = Execute(@, command)]
  /\ UNCHANGED serverUp

(* One command is read, executed and answered. *)
ServerAnswers(s) ==
  /\ serverUp[s] /\ toServer[s] # << >>
  /\ ServerExecutes(s, log[Head(toServer[s])])
  /\ fromServer' = [fromServer EXCEPT ![s] = Append(@, Head(toServer[s]))]
  /\ toServer' = [toServer EXCEPT ![s] = Tail(@)]
  /\ UNCHANGED <<raftVars, lastApplied, parentVars, connected, outputBuf, ready,
                 polling, clientVars, spent>>

(* Several commands are read at once, as they are by a server that has been
   slow or has listened while it imported its file.  The parser is not reset
   after the first one: the second is rejected, and the client with it. *)
ServerDropsNode(s) ==
  /\ serverUp[s] /\ Len(toServer[s]) > 1
  /\ Spend("lost", MaxLost)
  /\ ServerExecutes(s, log[Head(toServer[s])])
  /\ fromServer' = [fromServer EXCEPT ![s] = Append(@, Closed)]
  /\ toServer' = [toServer EXCEPT ![s] = << >>]
  /\ UNCHANGED <<raftVars, lastApplied, parentVars, connected, outputBuf, ready,
                 polling, clientVars>>

(* The process is killed, perhaps between appendToPF() and the command. *)
ServerCrash(s) ==
  /\ serverUp[s] /\ Spend("lost", MaxLost)
  /\ serverUp' = [serverUp EXCEPT ![s] = FALSE]
  /\ db' = [db EXCEPT ![s] = EmptyDataBase]
  /\ \/ UNCHANGED pf
     \/ /\ toServer[s] # << >> /\ Persistent[s]
        /\ NeedPF(log[Head(toServer[s])])
        /\ pf' = [pf EXCEPT ![s] = Append(@, log[Head(toServer[s])])]
  /\ \E kept \in 0 .. Len(fromServer[s]) :
       fromServer' = [fromServer EXCEPT
         ![s] = IF s \notin connected \/ Ended(s) THEN @
                ELSE Append(SubSeq(@, 1, kept), Closed)]
  /\ toServer' = [toServer EXCEPT ![s] = << >>]
  /\ UNCHANGED <<raftVars, lastApplied, parentVars, connected, outputBuf, ready,
                 polling, clientVars>>

(* init(): importPF() if SERVER_PF is true. *)
ImportPF(s) == IF Persistent[s] THEN Replay(pf[s]) ELSE EmptyDataBase

ServerRestart(s) ==
  /\ ~serverUp[s]
  /\ serverUp' = [serverUp EXCEPT ![s] = TRUE]
  /\ db' = [db EXCEPT ![s] = ImportPF(s)]
  /\ UNCHANGED <<raftVars, lastApplied, parentVars, childVars, ready, polling,
                 pf, clientVars, spent>>

------------------------------------------------------------------------------
(* The console client: it sends a command and waits for the answer. *)

ClientSends(c) ==
  /\ client[c] = "idle" /\ progress[c] < Len(Script[c])
  /\ toNode' = [toNode EXCEPT ![c] = Append(@, Script[c][progress[c] + 1])]
  /\ client' = [client EXCEPT ![c] = "waiting"]
  /\ UNCHANGED <<raftVars, lastApplied, parentVars, childVars, ready, polling,
                 serverVars, progress, fromNode, spent>>

(* receiveServerOutput(): a redirect closes the connection; on "retry" and
   "not available" the user enters the command again. *)
ClientReceives(c) ==
  LET m == Head(fromNode[c])
  IN  /\ client[c] = "waiting" /\ fromNode[c] # << >>
      /\ fromNode' = [fromNode EXCEPT ![c] = Tail(@)]
      /\ client' = [client EXCEPT ![c] = IF m = Redirect THEN "gone" ELSE "idle"]
      /\ toNode' = [toNode EXCEPT ![c] = IF m = Redirect THEN Append(@, Eof) ELSE @]
      /\ progress' = [progress EXCEPT ![c] = IF m.type = "answer" THEN @ + 1 ELSE @]
      /\ UNCHANGED <<raftVars, lastApplied, parentVars, childVars, ready, polling,
                     serverVars, spent>>

ClientQuits(c) ==
  /\ client[c] \in {"idle", "waiting"} /\ Spend("quit", MaxQuit)
  /\ client' = [client EXCEPT ![c] = "gone"]
  /\ toNode' = [toNode EXCEPT ![c] = Append(@, Eof)]
  /\ UNCHANGED <<raftVars, lastApplied, parentVars, childVars, ready, polling,
                 serverVars, progress, fromNode>>

------------------------------------------------------------------------------
NodeStep ==
  \/ CronReconnect \/ CronFlush \/ EpollWait
  \/ \E s \in Server : WriteToServer(s) \/ DeleteChildren(s) \/ ReadFromServer(s)
  \/ \E c \in Client : DeleteParents(c) \/ AppendCommand(c) \/ TurnAway(c)

Next ==
  \/ NodeStep
  \/ \E c \in Client : Accept(c)
  \/ ToFollow \/ Commit \/ Replicate
  \/ \E s \in Server : \/ ServerAnswers(s) \/ ServerDropsNode(s)
                       \/ ServerCrash(s) \/ ServerRestart(s)
  \/ \E c \in Client : ClientSends(c) \/ ClientReceives(c) \/ ClientQuits(c)

Spec == Init /\ [][Next]_vars

(* The loop of the node goes on, and so do the servers; a server that was
   killed is started again. *)
FairSpec ==
  /\ Spec /\ WF_vars(NodeStep)
  /\ \A s \in Server : WF_vars(ServerAnswers(s)) /\ WF_vars(ServerRestart(s))
==============================================================================
