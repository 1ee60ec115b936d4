----------------------------- MODULE Connection ------------------------------
(***************************************************************************)
(* One TCP connection of a cabinet process, from the commands one end      *)
(* posts to the commands the other end executes: the file events of class  *)
(* EventPoll, the buffers of class Client and the parser of class          *)
(* ProtocolStream, at both ends.  A is always a node of the cluster; B is  *)
(* another node (category "sibling") or a storage server ("server").       *)
(*                                                                         *)
(* A command is two lines here: all that precedes its last argument, and   *)
(* that argument, which in a request to a sibling is the entry of an       *)
(* appendentry, a client's command of several lines.  The kernel takes and *)
(* holds lines.  A read may end inside an entry; where it ends inside      *)
(* anything else the parser waits for the line feed, as if nothing of the  *)
(* line had been read.                                                     *)
(***************************************************************************)
EXTENDS Integers, FiniteSets, SequencesExt, FiniteSetsExt

CONSTANTS
  A, B,           \* the ends: the node that dialled, and the one that accepted
  Category,       \* what B may be
  Capacity,       \* lines the kernel holds for one direction
  MaxPost,        \* MaxPost[e]: commands e posts of its own, answers not counted
  MaxCrash        \* processes killed

ASSUME EndAssumption == A # B
ASSUME ConnectionBoundAssumption ==
  /\ Category \subseteq {"sibling", "server"}
  /\ Capacity \in Nat \ {0}
  /\ MaxPost \in [{A, B} -> Nat]
  /\ MaxCrash \in Nat

VARIABLES
  category,    \* Client::category of B as A sees it
  status,      \* "open", "closed", or how the process ended
  link,        \* what the kernel of an end knows of the other end
  events,      \* the events of EventPoll that are registered for the connection
  outputBuf,   \* ProtocolStream: lines not written yet
  socket,      \* socket[e]: lines written by the peer and not read by e
  inputBuf,    \* ProtocolStream: lines read and not parsed
  command,     \* the lines parsed of the current command: argc, argv, curArgvLen
  posted, executed,   \* see MessageStream
  spent

bufferVars == <<outputBuf, inputBuf, command>>
vars == <<category, status, link, events, socket, bufferVars, posted, executed,
          spent>>

End == {A, B}
Peer(e) == IF e = A THEN B ELSE A

Message == [number: Nat, request: BOOLEAN]

(* The lines of a command: "head" ends with the length of the last argument,
   "last" is that argument. *)
Part == <<"head", "last">>
Lines(m) == [p \in DOMAIN Part |-> [message |-> m, part |-> Part[p]]]

(* A line that holds an entry, and the two parts a read may cut it into:
   "piece" and "rest". *)
HoldsEntry(line) == category = "sibling" /\ line.message.request /\ line.part = "last"
Cut(line, part) == [line EXCEPT !.part = part]

(* What is executed in place of a command that was not parsed as it was
   posted. *)
Garbled == [number |-> 0, request |-> FALSE]

Open(e) == status[e] = "open"
PeerGone(e) == link[e] # "up"

(* The thread of e is in cron() or in epoll_wait(): all it has read is
   parsed. *)
AtRest(e) == Open(e) /\ inputBuf[e] = << >>

Init ==
  /\ category \in Category
  /\ status = [e \in End |-> "open"]
  /\ link = [e \in End |-> "up"]
  /\ events = [e \in End |-> {"read"}]
  /\ outputBuf = [e \in End |-> << >>]
  /\ socket = [e \in End |-> << >>]
  /\ inputBuf = [e \in End |-> << >>]
  /\ command = [e \in End |-> << >>]
  /\ posted = [e \in End |-> << >>]
  /\ executed = [e \in End |-> << >>]
  /\ spent = [post |-> [e \in End |-> 0], crash |-> 0]

(* Mutant: the read event is left in place. *)
ReadyToSendAndRead(registered) == registered \cup {"write"}

(* getReadyToSendMessage(): the read event is removed and the write event is
   created, unless it exists. *)
ReadyToSend(registered) == (registered \ {"read"}) \cup {"write"}

(* m goes to the output buffer of e. *)
Send(e, m) ==
  /\ events' = [events EXCEPT ![e] = ReadyToSend(@)]
  /\ outputBuf' = [outputBuf EXCEPT ![e] = @ \o Lines(m)]
  /\ posted' = [posted EXCEPT ![e] = Append(@, m)]

(* cron(): a node sends a command of its own, a request to a sibling or an
   entry to a storage server.  A storage server only answers. *)
Post(e) ==
  /\ AtRest(e)
  /\ category = "server" => e = A
  /\ spent.post[e] < MaxPost[e]
  /\ Send(e, [number |-> Len(posted[e]) + 1, request |-> TRUE])
  /\ spent' = [spent EXCEPT !.post[e] = @ + 1]
  /\ UNCHANGED <<category, status, link, socket, inputBuf, command, executed>>

(* The descriptor of e is closed.  If the kernel still held lines for e, it
   resets the connection, and what e sent last may be lost. *)
Close(e, how) ==
  /\ status' = [status EXCEPT ![e] = how]
  /\ events' = [events EXCEPT ![e] = {}]
  /\ inputBuf' = [inputBuf EXCEPT ![e] = << >>]
  /\ link' = [link EXCEPT
                ![Peer(e)] = CASE @ # "up"            -> @
                               [] socket[e] # << >>   -> "reset"
                               [] OTHER               -> "closed"]
  /\ \E kept \in 0 .. Len(socket[Peer(e)]) :
       /\ socket[e] = << >> => kept = Len(socket[Peer(e)])
       /\ socket' = [socket EXCEPT ![e] = << >>,
                                   ![Peer(e)] = SubSeq(@, 1, kept)]
  /\ UNCHANGED <<category, outputBuf, command, posted, executed>>

(* EventPoll::deleteClient(). *)
DeleteClient(e) == Close(e, "closed") /\ UNCHANGED spent

(* The process of e is killed. *)
Crash(e) ==
  /\ AtRest(e)
  /\ spent.crash < MaxCrash
  /\ Close(e, "crashed")
  /\ spent' = [spent EXCEPT !.crash = @ + 1]

(* Client::fillReceiveBuf(): some of what has arrived is read, perhaps with a
   piece of the next entry. *)
Read(e) ==
  /\ AtRest(e)
  /\ "read" \in events[e]
  /\ \E n \in 0 .. Len(socket[e]) :
       \/ /\ n > 0
          /\ inputBuf' = [inputBuf EXCEPT ![e] = SubSeq(socket[e], 1, n)]
          /\ socket' = [socket EXCEPT ![e] = SubSeq(@, n + 1, Len(@))]
       \/ /\ n < Len(socket[e]) /\ HoldsEntry(socket[e][n + 1])
          /\ LET entry == socket[e][n + 1]
             IN  /\ inputBuf' = [inputBuf EXCEPT
                      ![e] = Append(SubSeq(socket[e], 1, n), Cut(entry, "piece"))]
                 /\ socket' = [socket EXCEPT
                      ![e] = <<Cut(entry, "rest")>> \o SubSeq(@, n + 2, Len(@))]
  /\ UNCHANGED <<category, status, link, events, outputBuf, command, posted,
                 executed, spent>>

(* read() returns 0, or fails: the client is deleted. *)
ReadEnd(e) ==
  /\ AtRest(e)
  /\ "read" \in events[e]
  /\ socket[e] = << >> /\ PeerGone(e)
  /\ DeleteClient(e)

(* Mutant: the write event is removed after any write. *)
AfterAnyWrite(registered, output, n) == {"read"}

(* sendReply() goes back to reading when the n lines written were the last. *)
AfterWrite(registered, output, n) ==
  IF n = Len(output) THEN {"read"} ELSE registered

(* Mutant: what was written stays in the buffer while some of it is not. *)
AllIfUnfinished(output, n) == IF n = Len(output) THEN << >> ELSE output

(* eraseSendBuf(): what is left after n lines were written. *)
Unwritten(output, n) == SubSeq(output, n + 1, Len(output))

(* Client::sendReply(): the kernel takes some of the output.  When all of it
   is written, the read event is registered again and resetClient() clears
   the parser.  Once the peer has closed, what is written is lost, and the
   peer's kernel answers with a reset. *)
SendReply(e) ==
  /\ AtRest(e)
  /\ "write" \in events[e]
  /\ link[e] \in {"up", "closed"}
  /\ \E n \in 1 .. Len(outputBuf[e]) :
       /\ IF PeerGone(e)
          THEN n = Len(outputBuf[e]) /\ UNCHANGED socket
          ELSE /\ Len(socket[Peer(e)]) + n <= Capacity
               /\ socket' = [socket EXCEPT
                               ![Peer(e)] = @ \o SubSeq(outputBuf[e], 1, n)]
       /\ outputBuf' = [outputBuf EXCEPT ![e] = Unwritten(@, n)]
       /\ events' = [events EXCEPT ![e] = AfterWrite(@, outputBuf[e], n)]
       /\ command' = [command EXCEPT ![e] = IF n = Len(outputBuf[e]) THEN << >> ELSE @]
  /\ link' = [link EXCEPT ![e] = IF @ = "closed" THEN "broken" ELSE @]
  /\ UNCHANGED <<category, status, inputBuf, posted, executed, spent>>

(* write() fails: the client is deleted. *)
SendFails(e) ==
  /\ AtRest(e)
  /\ "write" \in events[e]
  /\ link[e] = "reset"
  /\ DeleteClient(e)

(* write() on a connection whose reset has been seen raises SIGPIPE, which
   nothing catches. *)
SendKills(e) ==
  /\ AtRest(e)
  /\ "write" \in events[e]
  /\ link[e] = "broken"
  /\ Close(e, "killed")
  /\ UNCHANGED spent

------------------------------------------------------------------------------
(* The loop of processEvent() over the clients that have something to parse:
   resolveReceiveBuf(), and the command if it is complete. *)

Complete(lines) == lines # << >> /\ Last(lines).part = "last"

Ends(e) == {n \in DOMAIN inputBuf[e] : inputBuf[e][n].part \in {"last", "rest"}}

(* resolveReceiveBuf() takes the lines of the current command it has. *)
Taken(e) ==
  IF Ends(e) = {} THEN Len(inputBuf[e]) ELSE Min(Ends(e))
Parsed(e) == command[e] \o SubSeq(inputBuf[e], 1, Taken(e))
ParsedParts(e) == [n \in DOMAIN Parsed(e) |-> Parsed(e)[n].part]

Parses(e) == Open(e) /\ inputBuf[e] # << >>

(* resetClient() has cleared what was parsed of a command before its last
   line is read.  An entry, being a command itself, is parsed as one. *)
LostHead(e) == ParsedParts(e) = <<"last">> /\ ~HoldsEntry(Head(inputBuf[e]))
BareEntry(e) ==
  \/ ParsedParts(e) = <<"last">> /\ HoldsEntry(Head(inputBuf[e]))
  \/ ParsedParts(e) = <<"piece", "rest">>

(* Part of an entry has been taken for the whole: two of the lines that come
   next would be the arguments still missing. *)
ShortEntry(e) == ParsedParts(e) = <<"head", "piece", "rest">>

(* "missing argv": the buffer has some line feed, but inputBuf[curArgvLen] is
   not one.  "missing *" where a command must begin.  "missing $" where an
   argument must: in the rest of an entry, or if the command before has been
   executed and not reset, as a storage server leaves it until its answer is
   written. *)
Reject(e) ==
  /\ Parses(e)
  /\ \/ ParsedParts(e) \in {<<"rest">>, <<"head", "piece">>}
     \/ LostHead(e) \/ ShortEntry(e) \/ Complete(command[e])
  /\ DeleteClient(e)

(* The command is not complete: what there is of it is kept in argc and argv.
   A piece of an entry is kept as the whole of it if inputBuf[curArgvLen],
   which lies beyond the end of the string, is an old line feed. *)
Keep(e) ==
  /\ Parses(e)
  /\ ParsedParts(e) \in {<<"head">>, <<"head", "piece">>, <<"piece">>}
  /\ command' = [command EXCEPT ![e] = Parsed(e)]
  /\ inputBuf' = [inputBuf EXCEPT ![e] = << >>]
  /\ UNCHANGED <<category, status, link, events, outputBuf, socket, posted,
                 executed, spent>>

(* Mutant: ClusterClient does not reset the parser either. *)
NeverReset(e) == Parsed(e)

(* executeCommand(): ClusterClient resets the parser, ServerClient does not. *)
AfterCommand(e) == IF category = "server" /\ e = B THEN Parsed(e) ELSE << >>

(* executeCommand() of ClusterClient and of ServerClient: a request is
   answered. *)
Execute(e) ==
  LET m == Head(Parsed(e)).message
  IN  /\ Parses(e)
      /\ Parsed(e) = Lines(m)
      /\ executed' = [executed EXCEPT ![e] = Append(@, m)]
      /\ command' = [command EXCEPT ![e] = AfterCommand(e)]
      /\ inputBuf' = [inputBuf EXCEPT ![e] = SubSeq(@, Taken(e) + 1, Len(@))]
      /\ IF m.request
         THEN Send(e, [number |-> Len(posted[e]) + 1, request |-> FALSE])
         ELSE UNCHANGED <<events, outputBuf, posted>>
      /\ UNCHANGED <<category, status, link, socket, spent>>

(* An entry is executed as a command of its own, or an appendentry with part
   of its entry.  What is left of the line is rejected before anything is
   answered. *)
ExecuteGarbled(e) ==
  /\ Parses(e)
  /\ BareEntry(e) \/ ShortEntry(e)
  /\ executed' = [executed EXCEPT ![e] = Append(@, Garbled)]
  /\ command' = [command EXCEPT ![e] = << >>]
  /\ inputBuf' = [inputBuf EXCEPT
       ![e] = <<Cut(@[Taken(e)], "rest")>> \o SubSeq(@, Taken(e) + 1, Len(@))]
  /\ UNCHANGED <<category, status, link, events, outputBuf, socket, posted, spent>>

(* The handler of such an appendentry finds that an argument is no number. *)
ExecuteExits(e) ==
  /\ Parses(e)
  /\ ShortEntry(e)
  /\ Close(e, "killed")
  /\ UNCHANGED spent

Next ==
  \E e \in End : \/ Post(e) \/ Crash(e)
                 \/ Read(e) \/ ReadEnd(e)
                 \/ SendReply(e) \/ SendFails(e) \/ SendKills(e)
                 \/ Reject(e) \/ Keep(e)
                 \/ Execute(e) \/ ExecuteGarbled(e) \/ ExecuteExits(e)

Spec == Init /\ [][Next]_vars

(* epoll_wait() is level-triggered: an end that can read, write or parse does. *)
Progress(e) == \/ Read(e) \/ ReadEnd(e)
               \/ SendReply(e) \/ SendFails(e) \/ SendKills(e)
               \/ Reject(e) \/ Keep(e)
               \/ Execute(e) \/ ExecuteGarbled(e) \/ ExecuteExits(e)
FairSpec == Spec /\ \A e \in End : WF_vars(Progress(e))
==============================================================================
