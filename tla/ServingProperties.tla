-------------------------- MODULE ServingProperties --------------------------
(***************************************************************************)
(* What a client and a storage server may rely on.                         *)
(***************************************************************************)
EXTENDS Serving

Reply == {Redirect, NotAvailable, Retry}
         \cup [type : {"answer"}, entry : Nat, own : Index]

NodeTypeOK ==
  /\ nodeUp \in BOOLEAN /\ leaderKnown \in BOOLEAN /\ polling \in BOOLEAN
  /\ role \in {"F", "C", "L"}
  /\ log \in Seq(Command) /\ Len(log) <= MaxEntry
  /\ commitIndex \in 0 .. Len(log) /\ lastApplied \in 0 .. commitIndex
  /\ parents \subseteq Client /\ connected \subseteq Server
  /\ address \in [Client -> Client \cup {None}]
  /\ dealing \in [Index -> Client \cup {None}]
  /\ ready \subseteq Server \cup Client

(* What is on the way to and from the storage servers is in S. *)
Carry(output, to, from, S) ==
  /\ output \in [Server -> Seq(S)]
  /\ to \in [Server -> Seq(S)]
  /\ from \in [Server -> Seq(S)]

PipeTypeOK == Carry(outputBuf, toServer, fromServer, 0 .. commitIndex)

ClientTypeOK ==
  /\ client \in [Client -> {"new", "idle", "waiting", "gone"}]
  /\ progress \in [Client -> Nat]
  /\ toNode \in [Client -> Seq(Command \cup {Eof})]
  /\ fromNode \in [Client -> Seq(Reply)]
  /\ \A c \in Client : c \in ready => c \in parents /\ toNode[c] # << >>
  /\ spent \in [{"timeout", "foreign", "lost", "quit"} -> Nat]

DataTypeOK ==
  /\ serverUp \in [Server -> BOOLEAN] /\ db \in [Server -> Data]
  /\ pf \in [Server -> Seq(Command)]

(* The type invariant.  No more is applied than is committed, which
   flushServer() relies on (Children.cpp:152), and no entry is on its way to a
   storage server before it is committed. *)
ServingTypeOK == NodeTypeOK /\ PipeTypeOK /\ ClientTypeOK /\ DataTypeOK

AnswersTo(c) == {n \in DOMAIN fromNode[c] : fromNode[c][n].type = "answer"}

(* While no client has quit, a client is answered once and only while it
   waits: what it finds to read belongs to the command it has just sent, never
   to an earlier one that was given up or answered before. *)
AnswersExpected ==
  spent.quit = 0 =>
    \A c \in Client : fromNode[c] # << >> =>
      client[c] = "waiting" /\ Len(fromNode[c]) = 1 /\ toNode[c] = << >>

(* A client is answered for the entry that holds its command, and only once
   that entry is committed: not for an entry another leader put in its place. *)
AnsweredRequestKept ==
  spent.quit = 0 =>
    \A c \in Client : \A n \in AnswersTo(c) :
      LET own == fromNode[c][n].own
      IN  own <= commitIndex /\ log[own] = Script[c][progress[c] + 1]

(* The answer a client is given may be that of another entry, but never of a
   later one, whatever is still on its way from an earlier flush of the log. *)
NeverFromFuture ==
  \A c \in Client : \A n \in AnswersTo(c) :
    fromNode[c][n].entry <= fromNode[c][n].own

(* What makes NeverFromFuture inductive: whatever a leader still has on the
   way to and from its storage servers, each entry up to the one it waits for
   with client dealing[n] or up to the last one it has flushed. *)
NotAfter(n) == 0 .. IF n < lastApplied THEN lastApplied ELSE n
DealingInOrder ==
  role = "L" =>
    \A n \in Index : dealing[n] # None =>
      Carry(outputBuf, toServer, fromServer, NotAfter(n))

(* What makes AnswersExpected and AnsweredRequestKept inductive: while no
   client has quit, a command is in one place only: on its way to the node, in
   the log of a leader that remembers the client, or answered. *)
Request(c) == Script[c][progress[c] + 1]
Held(c, n) == c \in parents /\ dealing[n] = address[c]

ClientState(c) ==
  /\ client[c] = "new" => c \notin parents
  /\ c \in parents => address[c] # None
  /\ client[c] \in {"new", "idle"} => toNode[c] = << >>
  /\ client[c] = "gone" => toNode[c] \in {<< >>, <<Eof>>}
  /\ client[c] = "waiting" =>
       /\ progress[c] < Len(Script[c])
       /\ toNode[c] \in {<< >>, <<Request(c)>>}
  /\ fromNode[c] # << >> =>
       /\ client[c] = "waiting" /\ toNode[c] = << >>
       /\ fromNode[c] = <<Head(fromNode[c])>>

HolderState(c, n) ==
  /\ client[c] = "waiting" /\ toNode[c] = << >> /\ fromNode[c] = << >>
  /\ n <= Len(log) /\ log[n] = Request(c)
  /\ \A m \in Index : Held(c, m) => m = n

HoldersInOrder ==
  \A n \in Index :
    /\ dealing[n] # None => \E c \in Client : Held(c, n)
    /\ \A c \in Client : Held(c, n) => HolderState(c, n)

ParentState ==
  /\ \A c, d \in parents : address[c] = address[d] => c = d
  /\ role = "L" => HoldersInOrder

ClientsInOrder ==
  spent.quit = 0 =>
    /\ \A c \in Client : ClientState(c)
    /\ ParentState
    /\ AnsweredRequestKept

(* FlushServerCommand.cpp:50, "write the response to the client": the client
   is given the answer to its own command. *)
AnswerIsOwn ==
  \A c \in Client : \A n \in AnswersTo(c) :
    fromNode[c][n].entry = fromNode[c][n].own

(* What server s will hold when it has executed all that was flushed to it. *)
Flushed(s) ==
  LET entries == toServer[s] \o outputBuf[s]
  IN  FoldLeft(Execute, db[s], [n \in DOMAIN entries |-> log[entries[n]]])

Applied == SubSeq(log, 1, lastApplied)

(* A server whose connection stands will hold, for a key that the entries
   flushed so far write, the value they give it: although a log is flushed anew
   over the data of the server when another server is lost, and entries of the
   earlier flush are still on their way. *)
FlushedValue ==
  nodeUp /\ WorkingBaseline =>
    \A s \in Server : ~Ended(s) =>
      \A n \in DOMAIN Applied :
        NeedPF(log[n]) /\ RespondServer(log[n].key) = s =>
          Flushed(s)[log[n].key] = Replay(Applied)[log[n].key]

(* A server with a persistence file is, after any crash, what its file says. *)
RestartRestores ==
  \A s \in Server : Persistent[s] /\ serverUp[s] => db[s] = Replay(pf[s])

(* Once nothing fails any more the node brings every server up to its commit
   index. *)
CatchesUp ==
  <>[](nodeUp => /\ lastApplied = commitIndex
                 /\ WorkingBaseline
                 /\ \A k \in Key : \A n \in DOMAIN log :
                      n <= commitIndex /\ log[n].key = k /\ NeedPF(log[n]) =>
                        db[RespondServer(k)][k] = Replay(Applied)[k])
==============================================================================
