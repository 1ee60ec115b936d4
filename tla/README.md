# Verification of cabinet

Cabinet is a small distributed key-value store. A cluster of nodes agrees on a
log of client requests with a protocol modelled on Raft; each node feeds the
committed requests to a fixed set of storage servers, which keep the data.
This directory holds TLA+ modules translated from the C++ sources under
`src/src/`, configurations that model-check them with TLC, and theorems proved
with TLAPS.

`PROJECT.json` maps every definition to the lines it stands for, and lists the
runs, the theorems, the hazards and the disagreements found.

## 1. The system

A cluster node, a storage server and the console client are three programs.
Each is one thread around an `epoll` loop: at most once every `1/hz` second it
runs `cron()`, then executes every complete command it has read, and answers
through per-connection output buffers. So a handler is atomic with respect to
its own process, and everything that is hard comes from the messages between
processes, from their ends and restarts, and from the log file.

| Part | State | Operations | Talks to |
|---|---|---|---|
| `Cluster` | role, `currentTerm`, `votedFor`, `receiveVotes`, `commitIndex`, `lastEntryIndex`, `lastApplied`, election timer | `cron()`, `toLead`, `toFollow`, `toCandidate`, `deleteClient` | owns Siblings, Children, Parents and the log file |
| `Siblings` | per peer: connection, `connectTrying`, `connectStatus`, `nextIndex`, `matchIndex`, `alreadyAppendEntry`, `emptyAppendEntry`; `currentLeaderId` | dial, add, delete, count copies of an entry | other nodes |
| `Children` | per storage server: connection and hash ring position | reconnect, flush one committed entry a cron | storage servers |
| `Parents` | clients, and which client waits for which entry | remember, answer, forget | clients |
| `PersistenceFile`, `Entry` | the log file (`pf`) and its output stream | append, find, find last, delete after, delete all | the disk |
| Node commands | none (they act on `Cluster`) | `appendentry`, `requestvote`, `clusternode` and their answers; a client's request; a storage server's answer | |
| `EventPoll`, `Client`, `ProtocolStream` | event maps, input and output buffers, a partly parsed command | the loop, read, write, parse, reset | sockets |
| `Server`, `DataBase`, `set`/`get`/`del` | the map, its own file | execute, replay after a restart | nodes |
| `CabinetCli` | a connection | send a command, follow a redirect to the leader | one node |
| `Configuration`, `Util`, `Log`, entry points, scripts | constants | start-up, system calls, wording | |

What makes it hard, and what would make it right:

* **Elections.** Term and vote live in memory only; the vote is cleared by
  `toFollow()` and `toLead()`; an answer to a vote request is counted in
  whichever election the candidate is. A term should have one leader, terms
  should not go back, and a new leader should hold what is committed.
* **Replication.** An answer carries no index. The leader attributes it to the
  `nextIndex` and `emptyAppendEntry` of the moment, which is right only while
  one append entry at most is outstanding for a connection. `matchIndex` must
  never claim more than a sibling holds, and `commitIndex` never more than a
  majority holds.
* **The log file.** A follower cuts and rewrites its file; the leader numbers
  entries from a counter. Files must stay dense (entry *p* has index *p*),
  because lookups by index, `deleteEntryAfter()` and `nextIndex` take it for
  granted.
* **Applying.** `lastApplied` moves by one each `cron()` and restarts from zero
  when a storage server is lost. Two nodes must feed the same sequence.
* **Answers.** The answer of a storage server does not say which entry it
  answers; the node gives it to the client of entry `lastApplied` of the
  moment, while roles change, other leaders replace entries, logs are flushed
  anew and clients leave. A client should be answered once, for its own
  command, and only for what is committed.
* **Data.** A storage server executes its file after a restart, and the log
  again from its beginning after any server was lost. It must hold in the end
  what the log says, and never less than its file says.
* **Byte streams.** A connection has the read or the write event registered,
  never both; `epoll_ctl()` failing ends the process. Reads and writes cut
  commands anywhere. What is executed must be what was posted, in order, and
  two ends must not wait for each other.
* **Connecting.** Only the larger id dials, `connect()` reports success before
  there is a connection, and a debt (`alreadyAppendEntry`) must not outlive
  the connection it belongs to. Every pair must find each other again.
* **Ends of a process.** Besides being killed, a node calls `exit()` when it
  finds its own state impossible, at three places a run can reach, or when
  it cannot read a number of a message, and a late write to a lost connection
  kills it (`SIGPIPE`). An appended entry must survive all of them.

## 2. The modules

| Module | Models |
|---|---|
| `PersistenceFile` | the log file as a sequence of entries, and the queries and edits of class `PersistenceFile` over positions |
| `Network` | messages, and the connection between two nodes as a FIFO channel in each direction with end of file |
| `Cluster` | the nodes: `Cluster`, `Siblings`, the six node commands, the leader's branch of a client request, faults |
| `StorageServer` | `DataBase`, the commands `set`, `get`, `del`, and the replay of a server's file |
| `Serving` | one node between its clients and its storage servers: `ClusterDefaultCommand`, `Parents`, `Children`, `FlushServerCommand`, `Server`, `ServerClient`, `CabinetCli` |
| `Connection` | one TCP connection at both ends: `EventPoll`, `Client`, `ClusterClient`, `ProtocolStream` |
| `Handshake` | the connections of one pair of nodes, each with an identity: dialling, `clusternode`, `addSiblings()` and its refusal, `deleteClient()` |
| `ClusterProperties`, `ServingProperties`, `ConnectionProperties`, `HandshakeProperties` | everything claimed of the four |
| `ClusterElection` | the inductive invariant of a cluster with one election, `ElectionInv` |
| `ReplicatedLog` | abstract specification: what a client believes the cluster is |
| `MessageStream` | abstract specification: what a connection promises |
| `ClusterRefinement` | the mapping from `Cluster` to `ReplicatedLog`; that from `Connection` to `MessageStream` is in `ConnectionProperties` |
| `MCCluster`, `MCServing`, `MCConnection`, `MCHandshake` | instances for TLC |
| `NetworkProofs` | lemmas about the operators of `PersistenceFile` and `Network` |
| `ClusterProofs`, `ClusterTermProofs`, `ClusterLinkProofs`, `ClusterElectionProofs`, `ServingProofs`, `ConnectionProofs`, `HandshakeProofs` | the theorems |

The models meet in what they promise one another. `Cluster` takes a
connection to be the FIFO channel of `Network`: that is what `MessageStream`
says, which `Connection` implements. `Serving` takes its environment, the other
nodes, to do what `ReplicatedLog` allows: entries become committed, the role
changes at any time, and another leader replaces what is not committed.
`Handshake` looks into what `Cluster` takes as one step, the end of one
connection of a pair before the first message of the next. That a whole program
with all of them in one state is beyond TLC is the reason for the cut.

### Cluster

The variables of `Cluster` have the names of the fields they stand for.
`link[i][j]` folds three of them: the client pointer and `connectTrying` /
`connectStatus` of sibling *j* at node *i* (`"none"`, `"trying"`, `"up"`).
`proc[i]` says whether the process runs, and otherwise why it ended. When a
process ends, its volatile variables take at once the values a new process
starts with; only `log` survives. `childrenUp[i]` is
`Children::satisfyWorkingBaseling()`. `pfGood[i]` is the state of the file's
output stream, renewed whenever the file is rewritten.

* `Cron...(i)`: one whole `cron()`. `CronReconnect` is the branch without the
  working baseline (step down, reconnect, start flushing over). All the others
  begin with `CronBegins`: dial the missing siblings, flush one entry. Then a
  follower or candidate idles (`CronIdle`), times out (`CronTimeout`) or, alone
  in its cluster, wins (`CronWin`); a leader sends (`CronLead`), steps down
  in the middle of the loop over siblings (`CronLeadStepsDown`), or exits there
  (`CronLeadExits`). `CronFlushExits` is the exit in `flushServer()`.
* `AppendEntry...(i, j)` and `ReplyAppendEntry...(i, j)`: node *i* executes an
  append entry or its answer from *j*. Their guards are the early returns of
  the handlers, disjoint and in the order of the code.
* `HandleRequestVote`, `ReplyRequestVote...`: votes.
* `HandleClusterNode`, `HandleReplyClusterNode`, `HandleEof`: the handshake of
  a connection, and its end.
* `ClientRequest`, `ClientRequestFails`, and the environment: `Crash`,
  `CrashInDelete`, `Restart`, `Reset`, `ChildLost`, `DiskFault`.

A process that ends may have written any part of what it had sent: `Hangup`
takes the set `received` of siblings that read all of it. The others read only
an end of file.

### Serving

`parents` is `parentsQueue`, `dealing` is `dealingIndexParentsMap`, which holds
*addresses* (`address[c]` is where the `ClusterClient` of *c* lives): a deleted
client leaves its address in the map, and a later one may be allocated there
(`Accept`). One pass of the loop is a `cron()` (`CronReconnect` or
`CronFlush`), then `EpollWait`, which fixes what is ready, then one handler
for each of these (`WriteToServer`, `DeleteChildren`, `ReadFromServer`,
`DeleteParents`, `AppendCommand`, `TurnAway`), in any order. What other nodes
cause falls between handlers: `ToFollow`, `Commit`, `Replicate`.
`ServerAnswers` is one turn of a storage server; `ServerDropsNode` the turn in
which commands have arrived together, which the parser refuses after the first
one. `ServerCrash` may fall between the write of the file and the command.
`ClientSends`, `ClientReceives`, `ClientQuits` are the console.

An answer carries, as a ghost, the entry that was executed and the entry
whose client it was given to. The code compares nothing of the kind; the
properties do.

### Connection

*A* is the node that dialled, *B* a node or a storage server (`category`).
`events` are the two maps of `EventPoll` restricted to the connection;
`outputBuf`, `inputBuf` and `command` (`argc`, `argv`, `curArgvLen`) are
`ProtocolStream`; `socket[e]` is what the kernel holds for *e*. `link[e]` is
what the kernel of *e* knows of the other end: nothing amiss, closed, reset, or
reset *and* already reported (`"broken"`: the next write raises `SIGPIPE`). The
turn of an end is `Post` (something its `cron()` sends), `Read` / `ReadEnd`,
`SendReply` / `SendFails` / `SendKills`; after a read, the loop of
`processEvent()` over what can be parsed: `Keep`, `Execute`, `Reject`, and the
two ways a command can be executed that nobody posted (`ExecuteGarbled`,
`ExecuteExits`).

### Handshake

The *dialler* is the node with the larger id, the *acceptor* the other one.
`dialled` and `link` are the dialler's `clusterIdClientPtrMap`, `connectTrying`
and `connectStatus` for the acceptor; `registered` is the acceptor's entry for
the dialler, and `category[c]` the category of the client it has for connection
*c*. The dialler acts by `Dial`, `HandleReplyClusterNode`, `DiallerReadsEnd`, the
acceptor by `HandleClusterNode`, `HandleClusterNodeRefused` (`addSiblings()`
fails, after which `EventPoll` deletes a client that is a sibling by its
category) and `AcceptorReadsEnd`. `Reset`, `DiallerCrash` and `AcceptorCrash` end
connections; the acceptor learns of such an end at once or late (`late`,
`Arrive`).

### What is abstracted

* *Time.* In `Cluster` an election timeout may strike at any `cron()`,
  `MaxTimeout[i]` times for node *i*, in `Serving` `MaxTimeout` times. Every
  order of timeouts within that budget is explored, so nothing shown here
  rests on timing.
* *Content.* A request is a number in `Cluster`, a command record in `Serving`;
  its bytes and the layout of the file are left out. A failed append leaves no
  partial entry.
* *Lines.* In `Connection` a command is two lines: its last argument, which in
  a request to a sibling is the entry, and all that precedes it. The kernel
  takes and holds lines. A read may end inside an entry, once for each entry;
  where it ends inside anything else, the parser waits for the line feed and
  the effect is as if nothing of the line had been read. One corner is left
  out: a read that ends between the last line feed of an entry and the one of
  its line, and whose entry is executed by itself, leaves a line feed behind
  which the parser refuses. The model refuses before the entry is answered, the
  code would answer it first and close the connection then.
* *Beyond the buffer.* `inputBuf[curArgvLen]` may be read past the end of the
  string. What lies there is left from earlier contents: a line feed or not,
  both outcomes are explored (`Keep`, `Reject`).
* *Blocking writes.* `connectTcp()` leaves the descriptor blocking, an accepted
  one is not. A write that would block is one that does not happen yet:
  `SendReply` waits until `Capacity` leaves room for at least a line.
* *Pipes of Serving.* Entries and answers are whole there, and the output of
  the node to its clients is written at once; partial writes are `Connection`.
  A connection with a server ends at the server's side only.
* *Order on a pair.* In `Network` the end of file of a broken connection is
  executed before the first message of the next one. In the code a
  `clusternode` message can overtake it: that is `Handshake`, which in turn has
  no other messages than those of the handshake. In `Cluster` the refusals of
  `addSiblings()` cannot happen, which is part of `LinkInv`.
* *Unreachable exits.* "Invalid sibling" (`nextIndex < 1`) and the branches for
  an entry that is absent in the middle of a file are not actions:
  `NextIndexPositive` and `IndexDense`, which are proved, exclude them.
* *Storage servers* are connected or not, all together, in `Cluster`; `Serving`
  has each of them, and takes the baseline of the siblings to hold. In
  `Serving` the log file of the node can always be written (a failing append
  is in `Cluster`), and a node comes to lead in `cron()` only: where it leads by
  a vote, `toLead()` does the same.

## 3. The abstract specifications

`ReplicatedLog` has two variables: `committed`, a sequence of requests that
only grows and holds none twice, and `storage[i]`, what the servers of node *i*
have been fed: a prefix of `committed`, extended by one request at a time or
started over. `ClusterRefinement` maps `committed` to the prefix of the log of
the node that knows of the most committed entries, and `storage[i]` to the first
`lastApplied[i]` entries of *i*'s own file. The run `stable` checks that every
step is one of its steps or a stutter (`ImplementsReplicatedLog`), and
`ImplementsLog` proves it for any number of nodes, requests and broken
connections.

The refinement needs a single election: after a second one, `AppliedAgree` can
fail (section 5). It needs log files that are not damaged, and processes that
stay up (`MaxCrash = 0`): a node that starts again reports `commitIndex` 0, which
is not on disk, and with it `committed` would shrink.

`MessageStream` has what each end posted and what it executed, which is a prefix
of what the other posted. `Connection` implements it (`StreamOrdered`, proved by
`ImplementsStream`) with `posted` as it is; from `executed` the mapping
`AsPosted` takes away a garbled command at the end. It takes none away in the
middle: that nothing is executed after a garbled command is part of what the
refinement claims. The model says where garbled commands arise.

## 4. The runs

| Run | Bounds | Shows |
|---|---|---|
| `single` | 1 node, timeouts, crash and restart, disk fault, lost storage server | `LeaderKnowsLastEntry` where `CronWin` is the way to lead |
| `stable` | 1 election, 2 requests, 1 broken connection | `CommittedOnMajority` (whoever knows of the commit), `MatchIndexSound`, `OneOutstanding`, `AppliedAgree`; the refinement `ImplementsReplicatedLog`; under fairness `RequestsApplied` |
| `stable_crash` | 1 election, 2 requests, 1 process killed at any point and started again | `TypeOK`, `CommittedOnMajority` (after the leader is killed as well), `ElectionInv`, `NeverExits` (none of the three `exit()` calls is reached), `LeaderIdConnected`, `LinkInv` |
| `reelect` | node 1 elected twice, 2 requests, 1 storage server lost by node 1, 1 kill inside `deleteEntryAfter()` | `LogInv` (of which `IndexDense` is a part), `LogTermsOrdered`, `RequestsOnce`, with answers of the first term arriving in the second; reaches `CronFlushExits`, `CronLeadStepsDown` and `CronLeadExits` |
| `elections` | continues after two elections, with entries of the older leader in flight; 1 storage server lost by node 2, the leader, 1 disk fault | `LeaderKnowsLastEntry`, `NextIndexPositive`, `TermNeverDecreases`; reaches `AppendEntryExits` |
| `connection` | *A* posts 2 commands, *B* 1, all answered; 6 lines in a socket; 1 process killed | `ConnectionTypeOK`, `EventMatchesOutput`, `StreamInv`, the refinement `StreamOrdered`; under fairness `Delivered` |
| `serving` | 2 servers (one with a file), 2 clients, 3 entries; 2 timeouts, 1 foreign entry, 1 lost server, 1 client that quits, 3 of these together | `ServingTypeOK`, `AnswersExpected`, `AnsweredRequestKept`, `NeverFromFuture`, `FlushedValue`, `RestartRestores`; under fairness `CatchesUp` |
| `handshake` | 4 connections, 2 processes killed, 2 connections broken, 1 end that arrives late | `HandshakeTypeOK`, `RegisteredAlive`, `OneSibling`, `OneConnection`; under fairness `LinksRestored` (both nodes have each other connected again, if no end was late) and `Redialled` (the dialler has the acceptor, in any case) |
| `applied_lost`, `commit_below_applied`, `answers_swapped`, `split_argument` | | violated, see section 5 |

Why these bounds. All runs of `Cluster` but `single` have three nodes, the
smallest cluster where a majority is not everyone. Two requests are what it
takes for a log to be cut in the middle, for one entry to be committed and the
next one not, and for `nextIndex` to be off by one without being off at the
border. One fault of each kind is what a design with a majority of three
claims to survive. Two elections are the least for a term to be older than
another. Two clients are what it takes to swap an answer, two servers for one
to lose its data while the other keeps it, three entries for the log to hold
both commands and one of another leader. Two commands in one direction are
what it takes for one to be read together with the next, a third one for
posts of both ends to cross, and 6 lines hold what an end may have in flight.
In `handshake` it takes three connections for a late end to hit the wrong one,
the one that is late, one that is refused for it and one that is accepted; the
fourth leaves one to dial. `ChildLossAt` names the nodes that may lose a storage
server: where only the leader's loss changes its role, the others' is left out.

Symmetry is not used: the larger id dials, leaders serve siblings in the order
of ids, and the two clients and servers of `serving` differ in their commands
and their file. `ConnectedSpec` starts from the state where all
connections are up and nothing else has happened, which `Init` reaches when every
node has dialled and been answered; the runs about replication begin there to
spend their states on replication. The starting state of `elections` is a state of `ConnectedSpec`
(two elections, one request; it lies on the shortest behaviour that reaches the
exit in `AppendEntryExits`), taken as a start because the breadth-first search
from the beginning would spend its states elsewhere.

Deadlock is checked in every run of `Cluster`. In the other three modules it is
not: a connection whose ends are both closed is over, two nodes that are
connected have nothing left to say, and a node that was killed by `SIGPIPE` or
has answered everything within its budgets may have nothing left to do.
`Delivered`, `LinksRestored`, `Redialled` and `CatchesUp` say there what must not
be waited for in vain.

Which properties hold under which faults. `IndexDense`, `RequestsOnce`,
`LeaderKnowsLastEntry`, `TypeOK`, `TermNeverDecreases`, `LinkInv`,
`NextIndexPositive` and `LeaderIdConnected` are proved for all.
`LogTermsOrdered` needs processes that are not started again, since terms are
not on disk; it is proved for `MaxRestart = 0`. `CommittedOnMajority`,
`MatchIndexSound`, `AppliedAgree`, `OneOutstanding` and `NeverExits` are proved
for a single election and sound disks (`SingleElection`, `SoundDisks`), with any
number of crashes, restarts, broken connections and lost storage servers. They
need a single election:
a second candidate meets the first disagreement below, a node elected twice
the second, and `toLead()` declares its whole log committed, so that a node
which appends an entry, loses its storage server before it sends the entry,
and is elected again "commits" what nobody else holds. `CommittedOnMajority`
also needs a disk that does not fail (a follower that cannot write answers
"false", is walked back to index 1, and cuts entries it had acknowledged) and
no kill inside `deleteEntryAfter()` (section 5); this is `SoundDisks`. `AnswersExpected` and
`AnsweredRequestKept` are about the time before a client quits, `OneSibling`
and `OneConnection` about the time before an end is late.

### Fairness

For `Cluster`, `Fairness` is weak fairness of `CronReconnect(i, TRUE)`,
`CronIdle(i)`, `CronLead(i)` and of executing what was received,
`Execute(i, j)`. The code justifies it: the loop of `EventPoll` runs `cron()`
before every wait once `1/hz` has passed, and the wait has that timeout, so a
`cron()` that stays possible happens; and it serves every readable connection
of a round, so no message waits for ever. `CronReconnect(i, TRUE)` says that
storage servers that are missing can be reached some day.

For `Connection`, weak fairness of each end's `Progress`: `epoll_wait()` is
level-triggered, so an end whose registered event is ready is served, and the
loop over what can be parsed runs to its end. For `Serving`, weak fairness of
`NodeStep`, the loop of the node, and of each server's turn and restart: an
operator starts a server that was killed (`control-cluster.sh`). For
`Handshake`, weak fairness of `Dialler` and `Acceptor`: `cron()` dials again as
long as it may, and the loop serves what can be read. A late end need not
arrive at all, and a killed node need not come back; the two liveness
properties are about runs where both stay up in the end.

Nothing else is fair: no election timeout, request, fault or restart of a node
has to happen, and the liveness properties assume none.

## 5. Where the code and its claims disagree

Each of the first four is a run that looks for the violation and finds it.

* `applied_lost`: **an applied entry is lost and replaced.** `toLead()` and
  `toFollow()` set `votedFor` back to -1 without a new term. Nodes 1 and 2 both
  become candidates of term 2; node 2 wins by node 3's vote, forgets its own
  vote, and grants node 1's request for the same term. Term 2 has two leaders.
  Node 2 commits and applies an entry; node 1's heartbeat names no previous
  entry (its log is empty), so node 2 steps down and deletes its whole file.
  `README.md` promises "data consensus".
* `commit_below_applied`: **one leader is enough to make a follower exit.** A
  leader loses its storage server, steps down and is elected again.
  `toLead()` clears `alreadyAppendEntry` while an append entry of the first
  term is unanswered, so two are outstanding and the older answer is taken for
  the newer one's. `nextIndex` ends one too low; the follower is sent an entry
  it has after a shorter prefix, cuts its log there and lowers `commitIndex`
  below `lastApplied`, which `flushServer()` calls a failure of the program.
* `answers_swapped`: **a client is given another client's answer.** No fault is
  needed. `cron()` flushes entry 2 before the answer to entry 1 is read; the
  answer to entry 1 is then given to the client of entry 2, and the answer to
  entry 2 finds nobody. The client of entry 1 waits for ever.
  `FlushServerCommand` says it writes "the response to the client".
* `split_argument`: **a read can end in the wrong place.** The parser asks
  only whether the buffer holds *some* line feed. Inside the entry of an
  `appendentry`, a command of several lines, it does; the byte where the
  argument should end is not there yet, and the connection is closed for a
  format error. The comment above says that the buffer may hold too little and
  that this destroys nothing.

Further claims fail and have no run of their own, being consequences of these
or open to no doubt:

* `OneLeaderPerTerm`; `NeverExitsNotLeader` (`operator>>` steps down and reports
  success, so the next sibling of the same loop finds no leader and exits);
  `NeverExitsEmptyLogCommit` (a follower with an emptied log is told of
  a commit and exits). The passing runs reach those exits and check their
  properties past them.
* `CommittedOnMajority`, where a process may be killed inside
  `deleteEntryAfter()` (`MaxDeleteCrash = 1`). The comment above it moves the
  temporary file over the old one ("mv tmp file to pf file"); the code calls
  `remove()`, then `rename()`. A connection breaks after a follower has appended
  entry 2, the leader sends it again, the follower cuts its file to take it and
  is killed between the two calls. It starts again without a log, and entry 1,
  which was committed, is on a minority.
* `FailureContained`: a client may fail at any step, and should take only itself
  along (`EventPoll.cpp:166`). While there is output the read event is off and
  the end of the connection is not seen; the first write is answered by a
  reset, and the second one, of the next entry that is posted, raises `SIGPIPE`,
  which nobody ignores and which ends the node. An `appendentry` parsed with
  part of its entry ends it too, by the `exit(1)` of `operator>>`.
* When an answer is written out, `resetClient()` clears what was parsed of the
  next command. If that was the beginning of an `appendentry`, its entry, a
  well-formed command, is executed as if a client had sent it.
* After a client has quit, `dealingIndexParentsMap` still holds its address: the
  answer is written to freed memory, or to the client that was allocated there,
  which waits for something else or nothing.
* A client that waits is not answered in the end: a leader that steps down
  forgets it.
* **A late end can keep a pair apart.** Without its condition on late ends
  `LinksRestored` fails. Connection 1 breaks, and its end is late at the
  acceptor. Connection 2 is refused because 1 is registered, and deleting its
  client drops 1 from the map, since `deleteSiblings()` goes by the id and not by
  the client. Connection 3 is accepted. Then the end of 1 arrives, and deleting
  that client drops 3. The dialler has its connection for good, and only it
  dials, so the acceptor never counts the dialler as connected again: as a
  leader it sends it nothing. The comment above `cron()` (`Cluster.cpp:171`) has
  it check the connections and connect what is missing.

## 6. What is proved

All theorems are for every value of the constants that satisfies the named
assumptions (`IdAssumption`, `BoundAssumption`; `ServingAssumption`,
`ValueAssumption`; `EndAssumption`, `ConnectionBoundAssumption`;
`HandshakeAssumption`): any number of nodes, clients, servers, connections,
requests and faults, any interleaving. Those about `Cluster` hold for `Spec`
and for `ConnectedSpec`. Some need restrictions, which the theorem states:

* *one election*: `SingleElection`, one node's election timeout may strike, once
  at most, and `SoundDisks`, `MaxDiskFault = 0` and `MaxDeleteCrash = 0`. Nothing
  else is limited: processes are killed and started again, connections break
  and storage servers are lost any number of times. Section 5 shows what happens
  with a second election, and section 4 why disks must be sound.
* `MaxRestart = 0` for `TermsOrdered`, since terms are not on disk.
* `MaxCrash = 0` for `ImplementsLog`: what a node knows to be committed is not on
  disk either, so the killing of the only node that knows of an entry would take
  `committed` back.

| Theorem | States | Needs |
|---|---|---|
| `LogInvariant` | `[]LogInv`, the inductive invariant of `Cluster` | |
| `TypeCorrect` | `[]TypeOK` | |
| `LogsDense` | `[]IndexDense` | |
| `LeadersKnowLastEntry` | `[]LeaderKnowsLastEntry` | |
| `TermsNeverDecrease` | `TermNeverDecreases` | |
| `TermsOrdered` | `[]LogTermsOrdered` | `MaxRestart = 0` |
| `RequestInvariant` | `[]RequestInv`, inductive with `LogInv` | |
| `RequestsWrittenOnce` | `[]RequestsOnce` | |
| `LinksAgree` | `[]LinkInv`, inductive with `LogInv` | |
| `KnownLeaderConnected` | `[]LeaderIdConnected` | |
| `NextIndicesPositive` | `[]NextIndexPositive` | |
| `ElectionInvariant` | `[]ElectionInv`, inductive with `LogInv` and `LinkInv` | one election |
| `CommittedHeldByMajority` | `[]CommittedOnMajority` | one election |
| `MatchIndicesSound` | `[]MatchIndexSound` | one election |
| `AppliedAlike` | `[]AppliedAgree` | one election |
| `OneAppendEntryOutstanding` | `[]OneOutstanding` | one election |
| `NoProcessExits` | `[]NeverExits` | one election |
| `ImplementsLog` | `ImplementsReplicatedLog` | one election, `MaxCrash = 0` |
| `ServingTypes` | `[](NodeTypeOK /\ PipeTypeOK /\ ClientTypeOK)` | |
| `ServingKeepsTypes` | `[]ServingTypeOK` | |
| `NoAnswerFromFuture` | `[]NeverFromFuture` | |
| `AnsweredRequest` | `[]AnsweredRequestKept` | |
| `ExpectedAnswers` | `[]AnswersExpected` | |
| `FileRestores` | `[]RestartRestores` | |
| `FlushedIsLast` | `[]FlushedValue` | |
| `ConnectionTypes` | `[]ConnectionTypeOK` | |
| `EventsMatch` | `[]EventMatchesOutput` | |
| `StreamInvariant` | `[]StreamInv`, inductive with `ConnectionTypeOK` | |
| `ImplementsStream` | `StreamOrdered` | |
| `HandshakeTypes` | `[]HandshakeTypeOK` | |
| `RegisteredStaysAlive` | `[]RegisteredAlive` | |
| `OneConnectionAtATime` | `[]OneConnection` | |
| `OneSiblingAtATime` | `[]OneSibling` | |

**Cluster.** `IndexDense` is not inductive by itself. A leader appends entry
`lastEntryIndex + 1` without looking at its file, so the file stays dense only
if `LeaderKnowsLastEntry`; a follower appends whatever entry the message
carries after cutting its file behind `prevLogIndex`, so it stays dense only
if every append entry *in flight* carries the entry that follows the one it
names (`SoundMessage`). That in turn holds when the message is built because
the sender's file is dense. `LogInv` is the conjunction of the four, `TypeOK`
included. Preservation has one lemma per action: most leave files, leaders and
counters alone and only have to put sound messages into channels (`QuietInv`),
`LeadInv` covers the ways to come to lead, `StopInv` every end of a process,
`FollowerFileInv` the rewriting of a file. `NetworkProofs` has what the file
operators return on dense files (found at its own position, cut to a prefix)
and that each channel operation keeps the type of what is in flight.

`TermsNeverDecrease` needs only the type invariant and a case per handler that
moves the term. It is about the life of a process: `Restart` takes the term
back to 1, which the property excludes.

`TermsOrdered` rests on `OrderInv`, that every append entry in flight carries
an entry which is not older than the previous one it names and not newer than
its sender. A follower obeys leaders of lower terms, so its term says nothing
about the order; but it appends only behind an entry of the term the message
names, and its own term is never below the message's. `TermsNeverDecrease`
keeps the bound for the files a step leaves alone. A process that is started
again would be at term 1 with its old file, hence the condition.

`RequestsWrittenOnce` says that no file of any node ever holds two entries of
the same request, whatever is sent again, cut off and sent once more. It
rests on `RequestInv`, about all entries there are, in files and in flight:
two of the same request are the same, and none is of a request that is yet
to be made. A leader's new entry is of a new request, a follower writes what was
in flight, and what is put in flight was in a file; since the files are dense,
the same entry cannot stand at two positions.

**Links.** `LinkInv` says of each pair of nodes what their two links and the two
queues between them can be, in whatever order crashes, broken connections and
dialling happen. The dialler is sent nothing without a connection and
never reads past an end of file (`DiallerInv`). The acceptor reads a message of
the protocol only of a sibling it has registered, and a `clusternode` only of
one it has not (`AcceptorInv`; `Registered(l, q, n)` is what the link will be
when position *n* of the queue is reached), so that `addSiblings()` does not
refuse. Once everything in flight is read both have the connection or neither
(`Open`), and while a `clusternode` is unread the dialler waits for its answer
(`Pending`). The two parts of a pair need each other: what the acceptor will
read depends on whether the dialler has dropped the connection, and that on
what the acceptor has sent. The induction is over what happens to one pair of
queues: a head that is read, a message that is posted, a dial, a process that
ends, a connection that breaks. `LeaderIdConnected` follows since a node takes
the sender of an append entry for its leader, and `HandleEof` and `Stop` forget
it with the link; `NextIndexPositive` since a `replyclusternode` turns only
the link "up" of a sibling that is registered and so has a `nextIndex`, and
`Decreased` stops at 1.

**One election.** None of the properties of replication is inductive, and they
hold each other up, so `ClusterElection` states one invariant for all of them.
Only the candidate is ever anything but a follower (`RolesInv`), so only it
appends, and every file is a prefix of its file (`FilesInv`). An append entry in
flight repeats a part of that file and cuts nothing its receiver believes to be
committed (`AsksInv`); until the candidate leads there is none (`Quiet`). While it
leads, `Peer(j)` says what its counters for a sibling mean, whatever has
happened to their connection. The answer of a follower carries no index: the
leader takes it to be about the entry at `nextIndex`. So `Outstanding` must
say that `alreadyAppendEntry` is set exactly while one append entry or one
answer is in flight (or the connection has ended and the leader is yet to read
it), and `Attributed` that this one is about the present `nextIndex` and
`emptyAppendEntry`. `SafeAt(j, p)` says that *j* has the first *p* entries and
nothing in flight will make it cut one of them; it holds of `matchIndex` and of
what *j* believes to be committed, and of every committed entry for a majority,
`Safe(p)`. That a refused append entry is not about a safe entry needs
`SoundDisks`, that the links of a pair agree needs `LinkInv`, that the entry sent
is the one at `nextIndex` needs `LogInv`. The properties are then read off,
all but one. `NeverExits` is proved on top of the invariant, with a case for each of the
three `exit()` calls.

The one is `CommittedOnMajority`, which speaks of every node, also when the
leader is dead and `Safe` says nothing any more. Then `Survives` takes over: what a
node knows to be committed, or will know when it executes what it has been
sent (`Told`), is kept by a majority (`Keeps`: it has the entry, and nothing a
dead leader has sent it cuts the entry off). While there is a leader, `Survives`
follows from the invariant. Afterwards nobody appends or sends append entries;
a follower that executes one learns only what was told before, and keeps what
lies up to the entry the message names; every other step tells nobody more and
cuts nothing (`Still`).

**The cluster implements the replicated log.** `committed` is mapped to what the
best informed node knows to be committed, `storage` to what each node has
flushed. By the invariant both are pieces of the candidate's file (`Mapped`), where no
request stands twice (`RequestsOnce`), so a
step is one of three shapes: nothing changes; the file grows and more of it is
committed (`Extends`); one node flushes the next entry or starts over
(`Applies`). Each maps to a step or a stutter of `ReplicatedLog`.

**Serving.** The type invariant already carries something: `lastApplied` is at
most `commitIndex`, and so is every entry on its way to or from a server. `Carry`
says the latter for any set *S* of entries, and its lemmas are used twice. For
`NeverFromFuture`: an answer is given to the client of entry `lastApplied`, so
it must be shown that no entry beyond it is on its way. That is false for a
follower after a server was lost: `lastApplied` is 0 again and entries of the
first flush still come back. A node that leads again has cleared
`dealing`, so each client it remembers sent its command after that, to an entry
beyond all that were flushed: `DealingInOrder`, for each remembered entry *n*,
everything on its way is at most the larger of *n* and `lastApplied`.
For the answers to a client: its command is in one place at a time, on its way
to the node, in the log at the one entry that is remembered for it, or
answered. `ClientsInOrder` says this (`ClientState` for what a client does,
`HoldersInOrder` for what a leader remembers, `AnsweredRequestKept` for what is
answered), under the condition that no address is reused, which is what
`spent.quit = 0` amounts to. The induction is one lemma per part and a case per
action.

**The data of the storage servers.** `RestartRestores` is inductive with the types
(`DataInv`): a server writes what it executes, and replays the file on start.
`FlushedValue` is not, because it speaks only of a node whose servers are all
connected, and a node comes to be so one server at a time. `FlushedSoFar` says
it of each connected server for the keys it is the home of, `Home(k)` being the
server of *k* when all are there: the hash ring sends *k* nowhere else while the
node is working. A server that was killed is known by the end of its connection
(`DownKnown`), so what is written to it in between does not count. Both
properties are about folds over a sequence of commands. That the fold of a
sequence with one more command is the fold of the sequence, and then the
command, would be an induction over data; instead `FoldDefined` and `RunTrace`
give the recursion of `FoldLeft` as a function, whose existence follows from a
least number for which there is none (`LeastOf`, from the well-foundedness of the
natural numbers).

**Connection.** `EventMatchesOutput` needs the type of `outputBuf` alone
(`EventInv`): `SendKeeps`, `CloseKeeps` and `WriteKeeps` are the only ways
events and output change. The rest is one induction. `StreamInv` says of
everything an end has not executed yet, from its parser through its input
buffer and the kernel to the output buffer of its peer (`Stream`), that it is
consecutive lines of what the peer posted, beginning with the message after the
last one executed, and up to the last one posted as long as the peer is open. It
needs `ConnectionTypeOK`, which says where the two parts of a line that a read
has cut can be, and `ConnectionTypeOK` needs it in turn: only from `StreamInv` is
it known that what the parser holds is of one message. A line that was cut and
executed is the exception: its rest is then the first thing to be parsed, and
will be refused. `Agrees` is the invariant as a relation of values, with a lemma
for each way a step changes them: a post adds a message at the end, a read cuts
a line in two, the parser is cleared, an end closes and takes its output with
it, a message is executed. For `ImplementsStream`, `Post` and `Execute` map to
the steps of `MessageStream` of these names, and all else stutters,
`ExecuteGarbled` included.

**Handshake.** `RegisteredAlive` is inductive with the types of the acceptor's two
variables (`RegisteredInv`). What carries it is that `deleteSiblings()` clears
the map whichever connection of the pair is deleted, the same thing that loses
a live connection in section 5. `OneSibling` is proved with `OneConnection`, which
looks ahead: in what the acceptor has yet to read, the end of every connection it
holds comes before the next `clusternode`. A late end breaks just this, and with
it `OneSibling`.

Model-checked only is liveness (`LinksRestored`, `Redialled`,
`RequestsApplied`, `CatchesUp`, `Delivered`), which is outside what the proof
system supports. Every safety property, action property and refinement that a
passing run checks is the statement of a theorem; the theorems that need one
election say nothing of several, and there section 5 says why.

## 7. Not modelled, and the plan

Not modelled because there is no behaviour to check: logging, wording, reading
the configuration, start-up, the scripts and the build.

Left out, and next in this order:

1. The layout of an entry in the file (`Entry.cpp`): a carriage return inside a
   request splits it. A model of fields, with reading as the inverse of
   writing except for such requests.
2. A console that follows a redirect to another node, which composes two
   instances of `Serving`.

Theorems to add: `ImplementsLog` with processes that are killed, for an abstract
log whose `committed` is what was ever committed rather than what a live node
knows of; and `MatchIndexSound` and `OneOutstanding` for elections that come after
everything in flight of the older leader was read, which is how section 5's
second disagreement is avoided.
