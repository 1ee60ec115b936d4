------------------------ MODULE ConnectionProperties -------------------------
(***************************************************************************)
(* What must hold of a connection.                                         *)
(***************************************************************************)
EXTENDS Connection

Status == {"open", "closed", "crashed", "killed"}
Line == [message: Message, part: {"head", "last", "piece", "rest"}]

(* Lines are written whole; only a read cuts them, at its end. *)
OutputOK(lines) == \A n \in DOMAIN lines : lines[n].part \in {"head", "last"}
SocketOK(lines) ==
  \A n \in DOMAIN lines : /\ lines[n].part # "piece"
                          /\ lines[n].part = "rest" => n = 1
InputOK(lines) ==
  \A n \in DOMAIN lines : /\ lines[n].part = "piece" => n = Len(lines)
                          /\ lines[n].part = "rest" => n = 1

(* What the parser holds is of one command (ProtocolStream.cpp:92). *)
CommandOK(lines) ==
  \A n \in DOMAIN lines : /\ lines[n].part # "rest"
                          /\ lines[n].message = Head(lines).message

(* Type correctness of a connection: the state of Client, ProtocolStream and
   EventPoll at both ends.  A command that was executed stays in the parser
   only at a storage server (ClusterClient.cpp:21). *)
ConnectionTypeOK ==
  /\ category \in Category
  /\ status \in [End -> Status]
  /\ link \in [End -> {"up", "closed", "reset", "broken"}]
  /\ events \in [End -> SUBSET {"read", "write"}]
  /\ \A buffer \in {outputBuf, socket, inputBuf, command} :
       buffer \in [End -> Seq(Line)]
  /\ \A e \in End :
       /\ OutputOK(outputBuf[e]) /\ SocketOK(socket[e])
       /\ InputOK(inputBuf[e]) /\ CommandOK(command[e])
       /\ Complete(command[e]) => category = "server" /\ e = B
  /\ posted \in [End -> Seq(Message)]
  /\ executed \in [End -> Seq(Message \cup {Garbled})]
  /\ spent \in [post: [End -> Nat], crash: 0 .. MaxCrash]

(* EventPoll.cpp:102, Client.cpp:62: an open connection has exactly one event
   registered, the write event while there is something to write and the read
   event otherwise.  A second epoll_ctl() for the descriptor ends the process,
   a write event with nothing to write is never removed, and lines that wait
   with the read event registered are not written. *)
EventMatchesOutput ==
  \A e \in End : Open(e) =>
    events[e] = IF outputBuf[e] = << >> THEN {"read"} ELSE {"write"}

(* What e will still read: the lines it has parsed of a command or not at all,
   those in the kernel and those the peer has to write. *)
Stream(e) ==
  command[e] \o inputBuf[e] \o socket[e]
    \o (IF Open(Peer(e)) THEN outputBuf[Peer(e)] ELSE << >>)

EndsMessage(line) == line.part \in {"last", "rest"}

(* b is the line that comes after a. *)
Follows(a, b) ==
  IF EndsMessage(a)
  THEN b.part = "head" /\ b.message.number = a.message.number + 1
  ELSE /\ b.message = a.message
       /\ b.part \in (IF a.part = "head" THEN {"last", "piece"} ELSE {"rest"})

(* lines are a piece, without a gap, of what these messages make. *)
Consecutive(lines, messages) ==
  /\ \A n \in DOMAIN lines :
       /\ lines[n].message.number \in DOMAIN messages
       /\ lines[n].message = messages[lines[n].message.number]
  /\ \A n \in DOMAIN lines : n + 1 \in DOMAIN lines => Follows(lines[n], lines[n + 1])

IsGarbled(messages) == messages # << >> /\ Last(messages) = Garbled

(* What e will read goes on where it has got to, in the middle of a message if
   the parser was cleared there, and up to the last message posted. *)
InStep(e) ==
  /\ Consecutive(Stream(e), posted[Peer(e)])
  /\ Stream(e) # << >> =>
       Head(Stream(e)).message.number =
         Len(executed[e]) + (IF Complete(command[e]) THEN 0 ELSE 1)
  /\ Open(Peer(e)) =>
       IF Stream(e) = << >> THEN Len(executed[e]) = Len(posted[Peer(e)])
       ELSE /\ EndsMessage(Last(Stream(e)))
            /\ Last(Stream(e)).message.number = Len(posted[Peer(e)])

(* What is left of a line that was executed as a command will be refused. *)
WillRefuse(e) ==
  /\ command[e] = << >>
  /\ inputBuf[e] # << >> /\ Head(inputBuf[e]).part = "rest"

(* The inductive invariant behind StreamOrdered. *)
StreamInv ==
  \A e \in End :
    /\ Open(e) <=> link[Peer(e)] = "up"
    /\ \A n \in DOMAIN posted[e] : posted[e][n].number = n
    /\ Open(e) => IF IsGarbled(executed[e]) THEN WillRefuse(e) ELSE InStep(e)

(* The messages among them that were posted. *)
AsPosted(messages) == IF IsGarbled(messages) THEN Front(messages) ELSE messages
Abstract == INSTANCE MessageStream WITH
  executed <- [e \in End |-> AsPosted(executed[e])]

(* ProtocolStream.cpp:92, Client.cpp:107, EventPoll.cpp:202: whatever the
   reads and writes cut the stream into, each end executes what the other
   posted, once, whole and in order.  A parser that is cleared half way
   through a command (Client.cpp:145) loses the connection, never a command
   in the middle; what is executed in place of a command that was not parsed as
   it was posted is the last thing executed. *)
StreamOrdered == Abstract!Spec

(* Client.cpp:62: a command posted is executed, unless the connection ends.
   The read event is off while there is something to write, so both ends
   writing into full sockets would wait for each other for ever: this needs
   Capacity to be what an end may have in flight. *)
Delivered ==
  \A e \in End : \A n \in 1 .. MaxPost[A] + MaxPost[B] :
    Len(posted[e]) >= n ~>
      \/ Len(executed[Peer(e)]) >= n
      \/ \E f \in End : ~Open(f)

(* What one end posted is never rejected by the other: ProtocolStream.cpp:89
   has it that the buffer does not necessarily hold enough, and that the
   state is not destroyed when it does not. *)
NeverRejected == \A e \in End : status[e] # "closed" \/ PeerGone(e)

(* EventPoll.cpp:166, "a client may fail at any step": a connection that
   fails, or a command that is cut, does not end the process. *)
FailureContained == \A e \in End : status[e] # "killed"
==============================================================================
