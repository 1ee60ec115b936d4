---------------------------- MODULE ServingProofs ----------------------------
(***************************************************************************)
(* What Serving promises to a client, and what it keeps on the storage     *)
(* servers, for every number of clients, servers and keys and whatever     *)
(* fails.                                                                  *)
(***************************************************************************)
EXTENDS ServingProperties, SequenceTheorems, WellFoundedInduction, TLAPS

LEMMA FirstOfSeq ==
  ASSUME NEW S, NEW q \in Seq(S), NEW n \in 1 .. Len(q)
  PROVE  q[1] \in S
<1>1. Len(q) \in Nat /\ 1 \in 1 .. Len(q)
  OBVIOUS
<1>2. QED
  BY <1>1, ElementOfSeq

LEMMA AppendedNotEmpty ==
  ASSUME NEW S, NEW q \in Seq(S), NEW m
  PROVE  Append(q, m) # << >>
<1>1. q \in Seq(S \cup {m})
  BY SeqMonotonic
<1>2. QED
  BY <1>1, AppendProperties

LEMMA AppendedElement ==
  ASSUME NEW S, NEW q \in Seq(S), NEW m \in S, NEW n \in DOMAIN Append(q, m)
  PROVE  \/ n \in DOMAIN q /\ Append(q, m)[n] = q[n]
         \/ n = Len(q) + 1 /\ Append(q, m)[n] = m
<1>1. /\ DOMAIN q = 1 .. Len(q) /\ Len(q) \in Nat
      /\ DOMAIN Append(q, m) = 1 .. Len(q) + 1
  BY AppendProperties
<1>2. n \in 1 .. Len(q) \/ n = Len(q) + 1
  BY <1>1
<1>3. QED
  BY <1>1, <1>2, AppendProperties

LEMMA TailElement ==
  ASSUME NEW S, NEW q \in Seq(S), q # << >>, NEW n \in DOMAIN Tail(q)
  PROVE  n + 1 \in DOMAIN q /\ Tail(q)[n] = q[n + 1]
<1>1. Len(q) \in Nat /\ DOMAIN q = 1 .. Len(q) /\ Len(q) >= 1
  BY EmptySeq
<1>2. DOMAIN Tail(q) = 1 .. Len(q) - 1
  BY <1>1, HeadTailProperties
<1>3. QED
  BY <1>1, <1>2, HeadTailProperties

USE ServingAssumption

-----------------------------------------------------------------------------
(* What is on the way to and from the storage servers. *)

LEMMA CarryMonotonic ==
  ASSUME NEW S, NEW T, S \subseteq T, NEW output, NEW to, NEW from,
         Carry(output, to, from, S)
  PROVE  Carry(output, to, from, T)
<1>1. \A q \in Seq(S) : q \in Seq(T)
  BY SeqMonotonic
<1>2. QED
  BY <1>1 DEF Carry

LEMMA CarryReconnect ==
  ASSUME NEW S, 0 \in S, Carry(outputBuf, toServer, fromServer, S), CronReconnect
  PROVE  Carry(outputBuf', toServer', fromServer', S)
<1>1. <<Closed>> \in Seq(S) /\ << >> \in Seq(S)
  BY DEF Closed
<1>2. QED
  BY <1>1 DEF Carry, CronReconnect

LEMMA CarryFlush ==
  ASSUME NEW S, Carry(outputBuf, toServer, fromServer, S), CronFlush,
         lastApplied < commitIndex => lastApplied + 1 \in S
  PROVE  Carry(outputBuf', toServer', fromServer', S)
<1>1. outputBuf' \in [Server -> Seq(S)]
  <2>1. CASE lastApplied < commitIndex
    <3> DEFINE s == RespondServer(log[lastApplied + 1].key)
    <3>1. outputBuf' = [outputBuf EXCEPT ![s] = Append(@, lastApplied + 1)]
      BY <2>1 DEF CronFlush, FlushNext
    <3>2. \A q \in Seq(S) : Append(q, lastApplied + 1) \in Seq(S)
      BY <2>1
    <3> HIDE DEF s
    <3>3. QED
      BY <3>1, <3>2 DEF Carry
  <2>2. CASE ~(lastApplied < commitIndex)
    BY <2>2 DEF CronFlush, FlushNext, Carry
  <2>3. QED
    BY <2>1, <2>2
<1>2. UNCHANGED <<toServer, fromServer>>
  BY DEF CronFlush
<1>3. QED
  BY <1>1, <1>2 DEF Carry

LEMMA CarryWrite ==
  ASSUME NEW S, Carry(outputBuf, toServer, fromServer, S), NEW s \in Server,
         WriteToServer(s)
  PROVE  Carry(outputBuf', toServer', fromServer', S)
<1>1. << >> \in Seq(S) /\ toServer[s] \o outputBuf[s] \in Seq(S)
  BY DEF Carry
<1>2. QED
  BY <1>1 DEF Carry, WriteToServer

LEMMA CarryDelete ==
  ASSUME NEW S, Carry(outputBuf, toServer, fromServer, S), NEW s \in Server,
         DeleteChildren(s)
  PROVE  Carry(outputBuf', toServer', fromServer', S)
<1>1. << >> \in Seq(S)
  OBVIOUS
<1>2. QED
  BY <1>1 DEF Carry, DeleteChildren

LEMMA CarryRead ==
  ASSUME NEW S, Carry(outputBuf, toServer, fromServer, S), NEW s \in Server,
         ReadFromServer(s)
  PROVE  Carry(outputBuf', toServer', fromServer', S)
<1>1. PICK n \in 1 .. Len(fromServer[s]) :
        fromServer' = [fromServer EXCEPT ![s] = SubSeq(@, n + 1, Len(@))]
  BY DEF ReadFromServer
<1>2. SubSeq(fromServer[s], n + 1, Len(fromServer[s])) \in Seq(S)
  BY DEF Carry
<1>3. UNCHANGED <<outputBuf, toServer>>
  BY DEF ReadFromServer
<1>4. QED
  BY <1>1, <1>2, <1>3 DEF Carry

LEMMA CarryAnswer ==
  ASSUME NEW S, 0 \in S, Carry(outputBuf, toServer, fromServer, S),
         NEW s \in Server, ServerAnswers(s) \/ ServerDropsNode(s)
  PROVE  Carry(outputBuf', toServer', fromServer', S)
<1>1. toServer[s] \in Seq(S) /\ fromServer[s] \in Seq(S) /\ << >> \in Seq(S)
  BY DEF Carry
<1>2. CASE ServerAnswers(s)
  <2>1. toServer[s] # << >>
    BY <1>2 DEF ServerAnswers
  <2>2. /\ Tail(toServer[s]) \in Seq(S)
        /\ Append(fromServer[s], Head(toServer[s])) \in Seq(S)
    BY <1>1, <2>1
  <2>3. QED
    BY <1>2, <2>2 DEF Carry, ServerAnswers
<1>3. CASE ServerDropsNode(s)
  <2>1. Append(fromServer[s], Closed) \in Seq(S)
    BY <1>1 DEF Closed
  <2>2. QED
    BY <1>1, <1>3, <2>1 DEF Carry, ServerDropsNode
<1>4. QED
  BY <1>2, <1>3

LEMMA CarryCrash ==
  ASSUME NEW S, 0 \in S, Carry(outputBuf, toServer, fromServer, S),
         NEW s \in Server, ServerCrash(s)
  PROVE  Carry(outputBuf', toServer', fromServer', S)
<1>1. PICK kept \in 0 .. Len(fromServer[s]) :
        fromServer' = [fromServer EXCEPT
          ![s] = IF s \notin connected \/ Ended(s) THEN @
                 ELSE Append(SubSeq(@, 1, kept), Closed)]
  BY DEF ServerCrash
<1>2. fromServer[s] \in Seq(S) /\ << >> \in Seq(S)
  BY DEF Carry
<1>3. SubSeq(fromServer[s], 1, kept) \in Seq(S)
  BY <1>2
<1>4. Append(SubSeq(fromServer[s], 1, kept), Closed) \in Seq(S)
  BY <1>3 DEF Closed
<1>5. fromServer' \in [Server -> Seq(S)]
  BY <1>1, <1>2, <1>4 DEF Carry
<1>6. QED
  BY <1>2, <1>5 DEF Carry, ServerCrash

(* A step adds to what is on the way only the entry it flushes. *)
LEMMA CarryStep ==
  ASSUME NEW S, 0 \in S, Carry(outputBuf, toServer, fromServer, S), [Next]_vars,
         CronFlush /\ lastApplied < commitIndex => lastApplied + 1 \in S
  PROVE  Carry(outputBuf', toServer', fromServer', S)
<1>1. CASE CronReconnect
  BY <1>1, CarryReconnect
<1>2. CASE CronFlush
  BY <1>2, CarryFlush
<1>3. ASSUME NEW s \in Server,
             \/ WriteToServer(s) \/ DeleteChildren(s) \/ ReadFromServer(s)
             \/ ServerAnswers(s) \/ ServerDropsNode(s) \/ ServerCrash(s)
      PROVE  Carry(outputBuf', toServer', fromServer', S)
  BY <1>3, CarryWrite, CarryDelete, CarryRead, CarryAnswer, CarryCrash
<1>4. CASE \/ EpollWait
           \/ \E c \in Client : \/ DeleteParents(c) \/ AppendCommand(c)
                                \/ TurnAway(c) \/ Accept(c) \/ ClientSends(c)
                                \/ ClientReceives(c) \/ ClientQuits(c)
           \/ ToFollow \/ Commit \/ Replicate
           \/ \E s \in Server : ServerRestart(s)
           \/ UNCHANGED vars
  <2>1. UNCHANGED <<outputBuf, toServer, fromServer>>
    BY <1>4 DEF EpollWait, DeleteParents, AppendCommand, TurnAway, Accept,
       ClientSends, ClientReceives, ClientQuits, ToFollow, Commit, Replicate,
       ServerRestart, vars, childVars
  <2>2. QED
    BY <2>1
<1>5. QED
  BY <1>1, <1>2, <1>3, <1>4 DEF Next, NodeStep

-----------------------------------------------------------------------------
(* Types. *)

Types == NodeTypeOK /\ PipeTypeOK /\ ClientTypeOK

LEMMA MinOfTwo ==
  ASSUME NEW a \in Int, NEW b \in Int
  PROVE  Min({a, b}) = IF a <= b THEN a ELSE b
<1>1. \E x \in {a, b} : \A y \in {a, b} : x <= y
  OBVIOUS
<1>2. /\ Min({a, b}) \in {a, b}
      /\ \A y \in {a, b} : Min({a, b}) <= y
  BY <1>1 DEF Min
<1>3. QED
  BY <1>2

LEMMA SpendType ==
  ASSUME spent \in [{"timeout", "foreign", "lost", "quit"} -> Nat],
         NEW bound \in {"timeout", "foreign", "lost", "quit"}, NEW limit,
         Spend(bound, limit)
  PROVE  /\ spent' \in [{"timeout", "foreign", "lost", "quit"} -> Nat]
         /\ bound # "quit" => spent'.quit = spent.quit
         /\ bound = "quit" => spent'.quit # 0
<1> DEFINE Bounds == {"timeout", "foreign", "lost", "quit"}
<1>1. spent' = [spent EXCEPT ![bound] = spent[bound] + 1]
  BY DEF Spend
<1>2. /\ spent' \in [Bounds -> Nat] /\ spent'[bound] = spent[bound] + 1
      /\ \A b \in Bounds \ {bound} : spent'[b] = spent[b]
  BY <1>1
<1>3. QED
  BY <1>2, SMTT(30)

LEMMA NoEof == Eof \notin Command
<1>1. \A m \in Command : m.op # "eof"
  BY DEF Command
<1>2. Eof.op = "eof"
  BY DEF Eof
<1>3. QED
  BY <1>1, <1>2

(* What a client sent that the node has not read, when its turn has come. *)
LEMMA ReceivedCommand ==
  ASSUME Types, NEW c \in Client, Receives(c)
  PROVE  /\ toNode[c] \in Seq(Command \cup {Eof}) /\ toNode[c] # << >>
         /\ Head(toNode[c]) \in Command
         /\ Tail(toNode[c]) \in Seq(Command \cup {Eof})
<1>1. toNode[c] \in Seq(Command \cup {Eof}) /\ toNode[c] # << >>
  BY DEF Receives, Handles, Types, ClientTypeOK
<1>2. Head(toNode[c]) # Eof
  BY DEF Receives
<1>3. QED
  BY <1>1, <1>2

(* An entry stays where it is once it is committed. *)
LEMMA LogStep ==
  ASSUME Types, [Next]_vars
  PROVE  /\ log' \in Seq(Command) /\ Len(log') <= MaxEntry
         /\ commitIndex' \in 0 .. Len(log') /\ commitIndex <= commitIndex'
         /\ \A n \in 1 .. commitIndex : log'[n] = log[n]
<1> USE DEF Types, NodeTypeOK
<1>1. CASE Replicate
  <2>1. PICK kept \in commitIndex .. Min({Len(log), MaxEntry - 1}),
             command \in Foreign :
               log' = Append(SubSeq(log, 1, kept), command)
    BY <1>1 DEF Replicate
  <2>2. kept \in Nat /\ kept <= Len(log) /\ kept + 1 <= MaxEntry
    <3>1. Len(log) \in Nat /\ MaxEntry - 1 \in Int /\ commitIndex \in Nat
      OBVIOUS
    <3>2. Min({Len(log), MaxEntry - 1}) =
            IF Len(log) <= MaxEntry - 1 THEN Len(log) ELSE MaxEntry - 1
      BY <3>1, MinOfTwo, SMTT(30)
    <3> DEFINE top == Min({Len(log), MaxEntry - 1})
    <3>3. kept \in commitIndex .. top
      BY <2>1
    <3>4. top \in Int /\ top <= Len(log) /\ top <= MaxEntry - 1
      BY <3>1, <3>2
    <3> HIDE DEF top
    <3>5. QED
      BY <3>1, <3>3, <3>4
  <2>3. /\ SubSeq(log, 1, kept) \in Seq(Command)
        /\ Len(SubSeq(log, 1, kept)) = kept
        /\ \A n \in 1 .. kept : SubSeq(log, 1, kept)[n] = log[n]
    BY <2>2
  <2>4. /\ log' \in Seq(Command) /\ Len(log') = kept + 1
        /\ \A n \in 1 .. kept : log'[n] = log[n]
    <3> DEFINE before == SubSeq(log, 1, kept)
    <3> HIDE DEF before
    <3>1. QED
      BY <2>1, <2>2, <2>3 DEF before
  <2>5. commitIndex' \in commitIndex .. Len(log')
    BY <1>1 DEF Replicate
  <2>6. commitIndex \in Nat /\ commitIndex <= kept
    BY <2>1
  <2>7. \A n \in 1 .. commitIndex : n \in 1 .. kept
    BY <2>2, <2>6
  <2>8. \A n \in 1 .. commitIndex : log'[n] = log[n]
    BY <2>4, <2>7
  <2>9. commitIndex' \in 0 .. Len(log') /\ commitIndex <= commitIndex'
    <3> DEFINE top == Len(log')
    <3>1. top \in Nat /\ commitIndex' \in commitIndex .. top
      BY <2>2, <2>4, <2>5
    <3> HIDE DEF top
    <3>2. commitIndex' \in 0 .. top /\ commitIndex <= commitIndex'
      BY <2>6, <3>1
    <3>3. QED
      BY <3>2 DEF top
  <2>10. Len(log') <= MaxEntry
    BY <2>2, <2>4
  <2>11. QED
    BY <2>4, <2>8, <2>9, <2>10
<1>2. CASE \E c \in Client : AppendCommand(c)
  <2>1. PICK c \in Client : AppendCommand(c)
    BY <1>2
  <2>2. Head(toNode[c]) \in Command
    BY <2>1, ReceivedCommand DEF AppendCommand
  <2>3. /\ log' = Append(log, Head(toNode[c])) /\ Len(log) < MaxEntry
        /\ UNCHANGED commitIndex
    BY <2>1 DEF AppendCommand
  <2>4. QED
    BY <2>2, <2>3
<1>3. CASE CronFlush
  BY <1>3 DEF CronFlush, ElectionTimeout, ToLead
<1>4. CASE Commit
  BY <1>4 DEF Commit
<1>5. CASE UNCHANGED <<log, commitIndex>>
  BY <1>5
<1>6. QED
  BY <1>1, <1>2, <1>3, <1>4, <1>5 DEF Next, NodeStep, CronReconnect, EpollWait,
     WriteToServer, DeleteChildren, ReadFromServer, DeleteParents, TurnAway,
     Accept, ToFollow, ServerAnswers, ServerDropsNode, ServerCrash,
     ServerRestart, ClientSends, ClientReceives, ClientQuits, vars, raftVars

LEMMA AppliedStep ==
  ASSUME Types, [Next]_vars
  PROVE  lastApplied' \in 0 .. commitIndex'
<1> USE DEF Types, NodeTypeOK
<1>1. commitIndex' \in Nat /\ commitIndex <= commitIndex' /\ commitIndex \in Nat
  BY LogStep
<1>2. CASE CronReconnect
  BY <1>1, <1>2 DEF CronReconnect, FlushFromTheStart
<1>3. CASE CronFlush
  <2>1. lastApplied' = Min({lastApplied + 1, commitIndex})
    BY <1>3 DEF CronFlush, AppliedNext
  <2>2. lastApplied + 1 \in Int /\ commitIndex \in Int
    BY <1>1
  <2>3. lastApplied' = IF lastApplied + 1 <= commitIndex THEN lastApplied + 1
                                                       ELSE commitIndex
    BY <2>1, <2>2, MinOfTwo
  <2>4. QED
    BY <1>1, <2>3
<1>4. CASE UNCHANGED lastApplied
  BY <1>1, <1>4
<1>5. QED
  BY <1>2, <1>3, <1>4 DEF Next, NodeStep, EpollWait, WriteToServer,
     DeleteChildren, ReadFromServer, DeleteParents, AppendCommand, TurnAway,
     Accept, ToFollow, Commit, Replicate, ServerAnswers, ServerDropsNode,
     ServerCrash, ServerRestart, ClientSends, ClientReceives, ClientQuits, vars

LEMMA DealingStep ==
  ASSUME Types, [Next]_vars
  PROVE  dealing' \in [Index -> Client \cup {None}]
<1> USE DEF Types, NodeTypeOK
<1>1. CASE CronFlush
  BY <1>1 DEF CronFlush, ElectionTimeout, ToLead, ClearDealingIndex
<1>2. ASSUME NEW s \in Server, ReadFromServer(s)
      PROVE  dealing' \in [Index -> Client \cup {None}]
  BY <1>2 DEF ReadFromServer, GiveAnswer, WithoutDealt
<1>3. ASSUME NEW c \in Client, AppendCommand(c)
      PROVE  dealing' \in [Index -> Client \cup {None}]
  BY <1>3 DEF AppendCommand
<1>4. CASE UNCHANGED dealing
  BY <1>4
<1>5. QED
  BY <1>1, <1>2, <1>3, <1>4 DEF Next, NodeStep, CronReconnect, EpollWait,
     WriteToServer, DeleteChildren, DeleteParents, TurnAway, Accept, ToFollow,
     Commit, Replicate, ServerAnswers, ServerDropsNode, ServerCrash,
     ServerRestart, ClientSends, ClientReceives, ClientQuits, vars, parentVars

LEMMA NodeTypes ==
  ASSUME Types, [Next]_vars
  PROVE  NodeTypeOK'
<1> USE DEF Types, NodeTypeOK
<1>1. nodeUp' \in BOOLEAN
  <2>1. ASSUME NEW s \in Server, WriteToServer(s) \/ ReadFromServer(s)
        PROVE  nodeUp' \in BOOLEAN
    <3>1. CASE WriteToServer(s)
      BY <3>1 DEF WriteToServer
    <3>2. CASE ReadFromServer(s)
      <4>1. UNCHANGED nodeUp \/ nodeUp' = FALSE
        BY <3>2 DEF ReadFromServer, GiveAnswer
      <4>2. QED
        BY <4>1
    <3>3. QED
      BY <2>1, <3>1, <3>2
  <2>2. CASE UNCHANGED nodeUp
    BY <2>2
  <2>3. QED
    BY <2>1, <2>2 DEF Next, NodeStep, CronReconnect, CronFlush, EpollWait,
       DeleteChildren, DeleteParents, AppendCommand, TurnAway, Accept, ToFollow,
       Commit, Replicate, ServerAnswers, ServerDropsNode, ServerCrash,
       ServerRestart, ClientSends, ClientReceives, ClientQuits, vars, raftVars
<1>2. leaderKnown' \in BOOLEAN
  <2>1. \/ UNCHANGED leaderKnown \/ leaderKnown' \in BOOLEAN \/ leaderKnown' = TRUE
    BY DEF Next, NodeStep, CronReconnect, CronFlush, EpollWait, WriteToServer,
       DeleteChildren, ReadFromServer, DeleteParents, AppendCommand, TurnAway,
       Accept, ToFollow, Commit, Replicate, ServerAnswers, ServerDropsNode,
       ServerCrash, ServerRestart, ClientSends, ClientReceives, ClientQuits,
       vars, raftVars
  <2>2. QED
    BY <2>1
<1>3. polling' \in BOOLEAN
  <2>1. UNCHANGED polling \/ polling' = TRUE \/ polling' = FALSE
    BY DEF Next, NodeStep, CronReconnect, CronFlush, EpollWait, WriteToServer,
       DeleteChildren, ReadFromServer, DeleteParents, AppendCommand, TurnAway,
       Accept, ToFollow, Commit, Replicate, ServerAnswers, ServerDropsNode,
       ServerCrash, ServerRestart, ClientSends, ClientReceives, ClientQuits, vars
  <2>2. QED
    BY <2>1
<1>4. role' \in {"F", "C", "L"}
  BY DEF Next, NodeStep, CronReconnect, CronFlush, ElectionTimeout, ToLead,
     EpollWait, WriteToServer, DeleteChildren, ReadFromServer, DeleteParents,
     AppendCommand, TurnAway, Accept, ToFollow, Commit, Replicate,
     ServerAnswers, ServerDropsNode, ServerCrash, ServerRestart, ClientSends,
     ClientReceives, ClientQuits, vars, raftVars
<1>5. parents' \subseteq Client /\ connected' \subseteq Server
  BY DEF Next, NodeStep, CronReconnect, CronFlush, EpollWait, WriteToServer,
     DeleteChildren, ReadFromServer, DeleteParents, AppendCommand, TurnAway,
     Accept, ToFollow, Commit, Replicate, ServerAnswers, ServerDropsNode,
     ServerCrash, ServerRestart, ClientSends, ClientReceives, ClientQuits, vars,
     parentVars, childVars
<1>6. address' \in [Client -> Client \cup {None}]
  <2>1. ASSUME NEW c \in Client, Accept(c)
        PROVE  address' \in [Client -> Client \cup {None}]
    <3>1. PICK a \in Client : address' = [address EXCEPT ![c] = a]
      BY <2>1 DEF Accept
    <3>2. QED
      BY <3>1
  <2>2. CASE UNCHANGED address
    BY <2>2
  <2>3. QED
    BY <2>1, <2>2 DEF Next, NodeStep, CronReconnect, CronFlush, EpollWait,
       WriteToServer, DeleteChildren, ReadFromServer, DeleteParents,
       AppendCommand, TurnAway, ToFollow, Commit, Replicate, ServerAnswers,
       ServerDropsNode, ServerCrash, ServerRestart, ClientSends, ClientReceives,
       ClientQuits, vars, parentVars
<1>7. ready' \subseteq Server \cup Client
  BY DEF Next, NodeStep, CronReconnect, CronFlush, EpollWait, WriteToServer,
     DeleteChildren, ReadFromServer, DeleteParents, AppendCommand, TurnAway,
     Accept, ToFollow, Commit, Replicate, ServerAnswers, ServerDropsNode,
     ServerCrash, ServerRestart, ClientSends, ClientReceives, ClientQuits, vars,
     Receives, Handles
<1>8. QED
  BY <1>1, <1>2, <1>3, <1>4, <1>5, <1>6, <1>7, LogStep, AppliedStep, DealingStep

LEMMA PipeTypes ==
  ASSUME Types, [Next]_vars
  PROVE  PipeTypeOK'
<1>1. /\ 0 \in 0 .. commitIndex
      /\ lastApplied < commitIndex => lastApplied + 1 \in 0 .. commitIndex
  BY DEF Types, NodeTypeOK
<1>2. Carry(outputBuf', toServer', fromServer', 0 .. commitIndex)
  BY <1>1, CarryStep DEF Types, PipeTypeOK
<1>3. 0 .. commitIndex \subseteq 0 .. commitIndex'
  BY LogStep DEF Types, NodeTypeOK
<1>4. QED
  BY <1>2, <1>3, CarryMonotonic DEF PipeTypeOK

LEMMA ToNodeStep ==
  ASSUME Types, [Next]_vars
  PROVE  toNode' \in [Client -> Seq(Command \cup {Eof})]
<1> USE DEF Types, ClientTypeOK
<1>1. ASSUME NEW c \in Client, AppendCommand(c) \/ TurnAway(c)
      PROVE  toNode' \in [Client -> Seq(Command \cup {Eof})]
  <2>1. Receives(c) /\ toNode' = [toNode EXCEPT ![c] = Tail(@)]
    BY <1>1 DEF AppendCommand, TurnAway
  <2>2. Tail(toNode[c]) \in Seq(Command \cup {Eof})
    BY <2>1, ReceivedCommand
  <2>3. QED
    BY <2>1, <2>2
<1>2. ASSUME NEW c \in Client, DeleteParents(c)
      PROVE  toNode' \in [Client -> Seq(Command \cup {Eof})]
  <2>1. << >> \in Seq(Command \cup {Eof})
    OBVIOUS
  <2>2. QED
    BY <1>2, <2>1 DEF DeleteParents
<1>3. ASSUME NEW c \in Client, ClientReceives(c) \/ ClientQuits(c)
      PROVE  toNode' \in [Client -> Seq(Command \cup {Eof})]
  <2>1. Append(toNode[c], Eof) \in Seq(Command \cup {Eof})
    BY SMTT(30)
  <2>2. QED
    BY <1>3, <2>1 DEF ClientReceives, ClientQuits
<1>4. ASSUME NEW c \in Client, ClientSends(c)
      PROVE  toNode' \in [Client -> Seq(Command \cup {Eof})]
  <2>1. progress[c] \in Nat /\ progress[c] < Len(Script[c])
        /\ Script[c] \in Seq(Command)
    BY <1>4 DEF ClientSends
  <2>2. Script[c][progress[c] + 1] \in Command
    BY <2>1, SMTT(30)
  <2>3. Append(toNode[c], Script[c][progress[c] + 1]) \in Seq(Command \cup {Eof})
    <3> DEFINE next == Script[c][progress[c] + 1]
    <3>1. next \in Command \cup {Eof} /\ toNode[c] \in Seq(Command \cup {Eof})
      BY <2>2
    <3> HIDE DEF next
    <3>2. Append(toNode[c], next) \in Seq(Command \cup {Eof})
      BY <3>1
    <3>3. QED
      BY <3>2 DEF next
  <2>4. QED
    BY <1>4, <2>3 DEF ClientSends
<1>5. CASE UNCHANGED toNode
  BY <1>5
<1>6. QED
  BY <1>1, <1>2, <1>3, <1>4, <1>5 DEF Next, NodeStep, CronReconnect, CronFlush,
     EpollWait, WriteToServer, DeleteChildren, ReadFromServer, Accept, ToFollow,
     Commit, Replicate, ServerAnswers, ServerDropsNode, ServerCrash,
     ServerRestart, vars, clientVars

LEMMA FromNodeStep ==
  ASSUME Types, [Next]_vars
  PROVE  fromNode' \in [Client -> Seq(Reply)]
<1> USE DEF Types, ClientTypeOK
<1>1. ASSUME NEW s \in Server, ReadFromServer(s), AnswersHandedOn
      PROVE  fromNode' \in [Client -> Seq(Reply)]
  <2> DEFINE answer == Answer(fromServer[s][1], lastApplied)
  <2>1. PICK n \in 1 .. Len(fromServer[s]) : TRUE
    BY <1>1 DEF ReadFromServer
  <2>2. fromServer[s] \in Seq(0 .. commitIndex) /\ commitIndex \in Nat
    BY DEF PipeTypeOK, Carry, NodeTypeOK
  <2>3. fromServer[s][1] \in Nat
    <3>1. fromServer[s][1] \in 0 .. commitIndex
      BY <2>1, <2>2, FirstOfSeq
    <3>2. QED
      BY <2>2, <3>1, SMTT(30)
  <2>4. lastApplied \in Index
    BY <1>1 DEF AnswersHandedOn
  <2>5. answer \in Reply
    BY <2>3, <2>4 DEF Answer, Reply
  <2> HIDE DEF answer
  <2>6. \A c \in Client : Append(fromNode[c], answer) \in Seq(Reply)
    BY <2>5
  <2>7. \A c \in Client : fromNode[c] \in Seq(Reply)
    OBVIOUS
  <2>8. PICK given \in SUBSET Client :
          fromNode' = [c \in Client |-> IF c \in given THEN Append(fromNode[c], answer)
                                                     ELSE fromNode[c]]
    <3>1. GiveAnswer(fromServer[s][1])
      BY <1>1 DEF ReadFromServer
    <3> DEFINE found == dealing[lastApplied]
               holders == {c \in parents : address[c] = found}
               given == {c \in Client : found # None /\ c \in holders}
    <3>2. fromNode' = [c \in Client |-> IF c \in given THEN Append(fromNode[c], answer)
                                                     ELSE fromNode[c]]
      BY <3>1 DEF GiveAnswer, answer
    <3>3. QED
      BY <3>2
  <2>9. QED
    BY <2>6, <2>7, <2>8
<1>2. ASSUME NEW s \in Server, ReadFromServer(s), ~AnswersHandedOn
      PROVE  fromNode' \in [Client -> Seq(Reply)]
  BY <1>2 DEF ReadFromServer
<1>3. ASSUME NEW c \in Client, TurnAway(c)
      PROVE  fromNode' \in [Client -> Seq(Reply)]
  <2>1. PICK m \in {Retry, Redirect, NotAvailable} :
          fromNode' = [fromNode EXCEPT ![c] = Append(@, m)]
    BY <1>3 DEF TurnAway
  <2>2. Append(fromNode[c], m) \in Seq(Reply)
    BY <2>1, SMTT(30) DEF Reply
  <2>3. QED
    BY <2>1, <2>2
<1>4. ASSUME NEW c \in Client, ClientReceives(c)
      PROVE  fromNode' \in [Client -> Seq(Reply)]
  <2>1. fromNode[c] # << >> /\ fromNode' = [fromNode EXCEPT ![c] = Tail(@)]
    BY <1>4 DEF ClientReceives
  <2>2. Tail(fromNode[c]) \in Seq(Reply)
    BY <2>1
  <2>3. QED
    BY <2>1, <2>2
<1>5. CASE UNCHANGED fromNode
  BY <1>5
<1>6. QED
  BY <1>1, <1>2, <1>3, <1>4, <1>5 DEF Next, NodeStep, CronReconnect, CronFlush,
     EpollWait, WriteToServer, DeleteChildren, DeleteParents, AppendCommand,
     Accept, ToFollow, Commit, Replicate, ServerAnswers, ServerDropsNode,
     ServerCrash, ServerRestart, ClientSends, ClientQuits, vars, clientVars

(* A client is reported ready only while it is connected and has sent
   something, and no other step reads what it has sent. *)
LEMMA ReadyStep ==
  ASSUME Types, [Next]_vars, NEW c \in Client, c \in ready'
  PROVE  c \in parents' /\ toNode'[c] # << >>
<1> USE DEF Types, ClientTypeOK, NodeTypeOK
<1>1. c \notin Server
  BY DEF Server
<1>2. CASE EpollWait
  BY <1>1, <1>2 DEF EpollWait, parentVars, clientVars
<1>3. ASSUME NEW d \in Client, DeleteParents(d) \/ AppendCommand(d) \/ TurnAway(d)
      PROVE  c \in parents' /\ toNode'[c] # << >>
  <2>1. c # d /\ c \in ready
    BY <1>3 DEF DeleteParents, AppendCommand, TurnAway, Receives, Handles
  <2>2. c \in parents /\ toNode[c] # << >>
    BY <2>1
  <2>3. toNode'[c] = toNode[c]
    BY <1>3, <2>1 DEF DeleteParents, AppendCommand, TurnAway
  <2>4. parents' = parents \/ parents' = parents \ {d}
    BY <1>3 DEF DeleteParents, AppendCommand, TurnAway, parentVars
  <2>5. QED
    BY <2>1, <2>2, <2>3, <2>4
<1>4. ASSUME NEW d \in Client,
             ClientSends(d) \/ ClientReceives(d) \/ ClientQuits(d)
      PROVE  c \in parents' /\ toNode'[c] # << >>
  <2>1. c \in parents /\ toNode[c] # << >> /\ parents' = parents
    BY <1>4 DEF ClientSends, ClientReceives, ClientQuits, parentVars
  <2>2. PICK m :
          toNode' = [toNode EXCEPT ![d] = Append(@, m)] \/ toNode' = toNode
    <3>1. CASE ClientSends(d)
      BY <3>1 DEF ClientSends
    <3>2. CASE ClientReceives(d)
      <4>1. \/ toNode' = [toNode EXCEPT ![d] = Append(@, Eof)]
            \/ toNode' = [toNode EXCEPT ![d] = @]
        BY <3>2 DEF ClientReceives
      <4>2. [toNode EXCEPT ![d] = @] = toNode
        OBVIOUS
      <4>3. QED
        BY <4>1, <4>2
    <3>3. CASE ClientQuits(d)
      BY <3>3 DEF ClientQuits
    <3>4. QED
      BY <1>4, <3>1, <3>2, <3>3
  <2>3. toNode[d] \in Seq(Command \cup {Eof})
    OBVIOUS
  <2>4. Append(toNode[d], m) # << >>
    BY <2>3, AppendedNotEmpty
  <2>5. QED
    BY <2>1, <2>2, <2>4
<1>5. ASSUME NEW s \in Server,
             WriteToServer(s) \/ DeleteChildren(s) \/ ReadFromServer(s)
      PROVE  c \in parents' /\ toNode'[c] # << >>
  <2>1. c \in ready
    BY <1>5 DEF WriteToServer, DeleteChildren, ReadFromServer, Handles
  <2>2. UNCHANGED <<parents, toNode>>
    BY <1>5 DEF WriteToServer, DeleteChildren, ReadFromServer, parentVars,
       clientVars
  <2>3. QED
    BY <2>1, <2>2
<1>6. ASSUME NEW d \in Client, Accept(d)
      PROVE  c \in parents' /\ toNode'[c] # << >>
  BY <1>6 DEF Accept
<1>7. CASE \/ CronReconnect \/ CronFlush \/ ToFollow \/ Commit \/ Replicate
           \/ \E s \in Server : \/ ServerAnswers(s) \/ ServerDropsNode(s)
                                \/ ServerCrash(s) \/ ServerRestart(s)
           \/ UNCHANGED vars
  <2>1. UNCHANGED <<ready, parents, toNode>>
    BY <1>7 DEF CronReconnect, CronFlush, ToFollow, Commit, Replicate,
       ServerAnswers, ServerDropsNode, ServerCrash, ServerRestart, vars,
       parentVars, clientVars
  <2>2. QED
    BY <2>1
<1>8. QED
  BY <1>2, <1>3, <1>4, <1>5, <1>6, <1>7 DEF Next, NodeStep

LEMMA SpentStep ==
  ASSUME Types, [Next]_vars
  PROVE  /\ spent' \in [{"timeout", "foreign", "lost", "quit"} -> Nat]
         /\ spent.quit # 0 => spent'.quit # 0
<1> USE DEF Types, ClientTypeOK
<1>1. CASE Spend("timeout", MaxTimeout)
  BY <1>1, SpendType
<1>2. CASE Spend("foreign", MaxForeign)
  BY <1>2, SpendType
<1>3. CASE Spend("lost", MaxLost)
  BY <1>3, SpendType
<1>4. CASE Spend("quit", MaxQuit)
  BY <1>4, SpendType
<1>5. CASE UNCHANGED spent
  BY <1>5
<1>6. QED
  BY <1>1, <1>2, <1>3, <1>4, <1>5 DEF Next, NodeStep, CronReconnect, CronFlush,
     ElectionTimeout, ToLead, EpollWait, WriteToServer, DeleteChildren,
     ReadFromServer, DeleteParents, AppendCommand, TurnAway, Accept, ToFollow,
     Commit, Replicate, ServerAnswers, ServerDropsNode, ServerCrash,
     ServerRestart, ClientSends, ClientReceives, ClientQuits, vars

LEMMA ClientTypes ==
  ASSUME Types, [Next]_vars
  PROVE  ClientTypeOK'
<1> USE DEF Types, ClientTypeOK
<1>1. client' \in [Client -> {"new", "idle", "waiting", "gone"}]
  <2>1. ASSUME NEW c \in Client,
               Accept(c) \/ ClientSends(c) \/ ClientReceives(c) \/ ClientQuits(c)
        PROVE  client' \in [Client -> {"new", "idle", "waiting", "gone"}]
    BY <2>1 DEF Accept, ClientSends, ClientReceives, ClientQuits
  <2>2. CASE UNCHANGED client
    BY <2>2
  <2>3. QED
    BY <2>1, <2>2 DEF Next, NodeStep, CronReconnect, CronFlush, EpollWait,
       WriteToServer, DeleteChildren, ReadFromServer, DeleteParents,
       AppendCommand, TurnAway, ToFollow, Commit, Replicate, ServerAnswers,
       ServerDropsNode, ServerCrash, ServerRestart, vars, clientVars
<1>2. progress' \in [Client -> Nat]
  <2>1. ASSUME NEW c \in Client, ClientReceives(c)
        PROVE  progress' \in [Client -> Nat]
    <3>1. PICK k \in {progress[c], progress[c] + 1} :
            progress' = [progress EXCEPT ![c] = k]
      BY <2>1 DEF ClientReceives
    <3>2. k \in Nat
      BY <3>1, SMTT(30)
    <3>3. QED
      BY <3>1, <3>2
  <2>2. CASE UNCHANGED progress
    BY <2>2
  <2>3. QED
    BY <2>1, <2>2 DEF Next, NodeStep, CronReconnect, CronFlush, EpollWait,
       WriteToServer, DeleteChildren, ReadFromServer, DeleteParents,
       AppendCommand, TurnAway, Accept, ToFollow, Commit, Replicate,
       ServerAnswers, ServerDropsNode, ServerCrash, ServerRestart, ClientSends,
       ClientQuits, vars, clientVars
<1>3. QED
  BY <1>1, <1>2, ToNodeStep, FromNodeStep, ReadyStep, SpentStep

LEMMA TypesInit == ASSUME Init PROVE Types
<1> USE DEF Init, Types
<1>1. NodeTypeOK
  <2>1. log \in Seq(Command) /\ Len(log) = 0 /\ MaxEntry \in Nat
    OBVIOUS
  <2>2. commitIndex \in 0 .. Len(log) /\ lastApplied \in 0 .. commitIndex
        /\ Len(log) <= MaxEntry
    BY <2>1
  <2>3. /\ dealing \in [Index -> Client \cup {None}]
        /\ address \in [Client -> Client \cup {None}]
    OBVIOUS
  <2>4. /\ parents \subseteq Client /\ connected \subseteq Server
        /\ ready \subseteq Server \cup Client
        /\ nodeUp \in BOOLEAN /\ leaderKnown \in BOOLEAN /\ polling \in BOOLEAN
        /\ role \in {"F", "C", "L"}
    OBVIOUS
  <2>5. QED
    BY <2>1, <2>2, <2>3, <2>4 DEF NodeTypeOK
<1>2. PipeTypeOK
  BY DEF PipeTypeOK, Carry
<1>3. ClientTypeOK
  BY DEF ClientTypeOK
<1>4. QED
  BY <1>1, <1>2, <1>3

LEMMA TypesStep == ASSUME Types, [Next]_vars PROVE Types'
  BY NodeTypes, PipeTypes, ClientTypes DEF Types

(* The state of the node, of its connections and of its clients keeps its type
   whatever fails: no more is applied than is committed (Children.cpp:152), and
   what is on its way to or from a storage server is the index of a committed
   entry. *)
THEOREM ServingTypes == Spec => [](NodeTypeOK /\ PipeTypeOK /\ ClientTypeOK)
<1>1. Init => Types
  BY TypesInit
<1>2. Types /\ [Next]_vars => Types'
  BY TypesStep
<1>3. QED
  BY <1>1, <1>2, PTL DEF Spec, Types

-----------------------------------------------------------------------------
(* An answer is never that of a later entry. *)

LEMMA DealingOrderStep ==
  ASSUME Types, DealingInOrder, [Next]_vars
  PROVE  DealingInOrder'
<1> SUFFICES ASSUME role' = "L", NEW n \in Index, dealing'[n] # None
             PROVE  Carry(outputBuf', toServer', fromServer', NotAfter(n)')
  BY DEF DealingInOrder
<1> USE DEF Types, NodeTypeOK
<1>1. /\ n \in Nat /\ lastApplied \in Nat /\ lastApplied' \in Nat
      /\ commitIndex \in Nat /\ lastApplied <= commitIndex
  BY AppliedStep, LogStep DEF Index
<1>2. 0 \in NotAfter(n) /\ 0 \in NotAfter(n)'
  BY <1>1 DEF NotAfter
<1>3. CASE \E c \in Client : AppendCommand(c) /\ n = Len(log) + 1
  <2>1. UNCHANGED <<outputBuf, toServer, fromServer, lastApplied>>
    BY <1>3 DEF AppendCommand, childVars
  <2>2. 0 .. commitIndex \subseteq NotAfter(n)'
    BY <1>1, <1>3, <2>1 DEF NotAfter
  <2>3. Carry(outputBuf', toServer', fromServer', 0 .. commitIndex)
    BY <2>1 DEF PipeTypeOK
  <2>4. QED
    BY <2>2, <2>3, CarryMonotonic
<1>4. CASE CronFlush
  <2>1. role = "L" /\ dealing[n] # None
    BY <1>4 DEF CronFlush, ElectionTimeout, ToLead, ClearDealingIndex
  <2>2. lastApplied' = IF lastApplied < commitIndex THEN lastApplied + 1
                                                   ELSE lastApplied
    <3>1. lastApplied' = Min({lastApplied + 1, commitIndex})
      BY <1>4 DEF CronFlush, AppliedNext
    <3>2. Min({lastApplied + 1, commitIndex}) =
            IF lastApplied + 1 <= commitIndex THEN lastApplied + 1 ELSE commitIndex
      <4>1. lastApplied + 1 \in Int /\ commitIndex \in Int
        BY <1>1
      <4>2. QED
        BY <4>1, MinOfTwo
    <3>3. QED
      BY <1>1, <3>1, <3>2
  <2>3. Carry(outputBuf, toServer, fromServer, NotAfter(n))
    BY <2>1 DEF DealingInOrder
  <2>4. NotAfter(n) \subseteq NotAfter(n)'
    BY <1>1, <2>2 DEF NotAfter
  <2>5. Carry(outputBuf, toServer, fromServer, NotAfter(n)')
    BY <2>3, <2>4, CarryMonotonic
  <2>6. lastApplied < commitIndex => lastApplied + 1 \in NotAfter(n)'
    BY <1>1, <2>2 DEF NotAfter
  <2>7. QED
    BY <1>2, <1>4, <2>5, <2>6, CarryStep
<1>5. CASE ~CronFlush /\ ~\E c \in Client : AppendCommand(c) /\ n = Len(log) + 1
  <2>1. UNCHANGED role /\ UNCHANGED lastApplied
    BY <1>5 DEF Next, NodeStep, CronReconnect, EpollWait, WriteToServer,
       DeleteChildren, ReadFromServer, DeleteParents, AppendCommand, TurnAway,
       Accept, ToFollow, Commit, Replicate, ServerAnswers, ServerDropsNode,
       ServerCrash, ServerRestart, ClientSends, ClientReceives, ClientQuits,
       vars, raftVars
  <2>2. dealing[n] # None
    <3>1. ASSUME NEW s \in Server, ReadFromServer(s)
          PROVE  dealing[n] # None
      BY <3>1 DEF ReadFromServer, GiveAnswer, WithoutDealt
    <3>2. ASSUME NEW c \in Client, AppendCommand(c)
          PROVE  dealing[n] # None
      BY <1>5, <3>2 DEF AppendCommand
    <3>3. CASE UNCHANGED dealing
      BY <3>3
    <3>4. QED
      BY <1>5, <3>1, <3>2, <3>3 DEF Next, NodeStep, CronReconnect, EpollWait,
         WriteToServer, DeleteChildren, DeleteParents, TurnAway, Accept,
         ToFollow, Commit, Replicate, ServerAnswers, ServerDropsNode,
         ServerCrash, ServerRestart, ClientSends, ClientReceives, ClientQuits,
         vars, parentVars
  <2>3. Carry(outputBuf, toServer, fromServer, NotAfter(n))
    BY <2>1, <2>2 DEF DealingInOrder
  <2>4. NotAfter(n)' = NotAfter(n)
    BY <2>1 DEF NotAfter
  <2>5. QED
    BY <1>2, <1>5, <2>3, <2>4, CarryStep
<1>6. QED
  BY <1>3, <1>4, <1>5

(* The client that is found for lastApplied gets the first answer read. *)
LEMMA GiveStep ==
  ASSUME Types, NEW s \in Server, ReadFromServer(s), NEW c \in Client
  PROVE  fromNode'[c] =
           IF AnswersHandedOn /\ dealing[lastApplied] # None /\ Held(c, lastApplied)
           THEN Append(fromNode[c], Answer(fromServer[s][1], lastApplied))
           ELSE fromNode[c]
<1>1. CASE AnswersHandedOn
  BY <1>1 DEF ReadFromServer, GiveAnswer, Held
<1>2. CASE ~AnswersHandedOn
  BY <1>2 DEF ReadFromServer
<1>3. QED
  BY <1>1, <1>2

(* An answer a client has to read was there before, or has just been given to
   the client that is found for lastApplied. *)
LEMMA AnswersStep ==
  ASSUME Types, [Next]_vars, NEW c \in Client, NEW n \in AnswersTo(c)'
  PROVE  \/ \E m \in AnswersTo(c) : fromNode'[c][n] = fromNode[c][m]
         \/ \E s \in Server :
              /\ ReadFromServer(s) /\ AnswersHandedOn /\ fromServer[s] # << >>
              /\ dealing[lastApplied] # None /\ Held(c, lastApplied)
              /\ fromNode'[c][n] = Answer(fromServer[s][1], lastApplied)
<1> DEFINE Before == \E m \in AnswersTo(c) : fromNode'[c][n] = fromNode[c][m]
           q == fromNode[c]
<1>1. q \in Seq(Reply) /\ n \in DOMAIN fromNode'[c]
      /\ fromNode'[c][n].type = "answer" /\ DOMAIN q = 1 .. Len(q)
  BY DEF Types, ClientTypeOK, AnswersTo
<1>2. ASSUME NEW m \in DOMAIN q, fromNode'[c][n] = q[m]
      PROVE  Before
  BY <1>1, <1>2 DEF AnswersTo
<1> HIDE DEF Before
<1>3. ASSUME fromNode'[c] = q PROVE Before
  BY <1>1, <1>2, <1>3
<1>4. ASSUME NEW d \in Client, TurnAway(d)
      PROVE  Before
  <2>1. PICK m \in {Retry, Redirect, NotAvailable} :
          fromNode' = [fromNode EXCEPT ![d] = Append(@, m)]
    BY <1>4 DEF TurnAway
  <2>2. m \in Reply /\ m.type # "answer"
    BY <2>1 DEF Reply, Retry, Redirect, NotAvailable
  <2>3. CASE c = d
    <3>1. fromNode'[c] = Append(q, m)
      BY <2>1, <2>3 DEF Types, ClientTypeOK
    <3>2. fromNode'[c][n] # m
      BY <1>1, <2>2
    <3> HIDE DEF q
    <3>3. n \in DOMAIN q /\ fromNode'[c][n] = q[n]
      BY <1>1, <2>2, <3>1, <3>2, AppendedElement
    <3>4. QED
      BY <1>2, <3>3
  <2>4. CASE c # d
    BY <1>3, <2>1, <2>4 DEF Types, ClientTypeOK
  <2>5. QED
    BY <2>3, <2>4
<1>5. ASSUME NEW d \in Client, ClientReceives(d)
      PROVE  Before
  <2>1. fromNode[d] # << >> /\ fromNode' = [fromNode EXCEPT ![d] = Tail(@)]
    BY <1>5 DEF ClientReceives
  <2>2. CASE c = d
    <3>1. fromNode'[c] = Tail(q) /\ q # << >>
      BY <2>1, <2>2 DEF Types, ClientTypeOK
    <3> HIDE DEF q
    <3>2. n + 1 \in DOMAIN q /\ fromNode'[c][n] = q[n + 1]
      BY <1>1, <3>1, TailElement
    <3>3. QED
      BY <1>2, <3>2
  <2>3. CASE c # d
    BY <1>3, <2>1, <2>3 DEF Types, ClientTypeOK
  <2>4. QED
    BY <2>2, <2>3
<1>6. ASSUME NEW s \in Server, ReadFromServer(s)
      PROVE  \/ Before
             \/ /\ AnswersHandedOn /\ fromServer[s] # << >>
                /\ dealing[lastApplied] # None /\ Held(c, lastApplied)
                /\ fromNode'[c][n] = Answer(fromServer[s][1], lastApplied)
  <2> DEFINE answer == Answer(fromServer[s][1], lastApplied)
             found == dealing[lastApplied]
  <2>1. PICK k \in 1 .. Len(fromServer[s]) : TRUE
    BY <1>6 DEF ReadFromServer
  <2>2. fromServer[s] \in Seq(0 .. commitIndex) /\ commitIndex \in Nat
    BY DEF Types, PipeTypeOK, Carry, NodeTypeOK
  <2>3. fromServer[s] # << >> /\ fromServer[s][1] \in Nat
    <3>1. fromServer[s][1] \in 0 .. commitIndex
      BY <2>1, <2>2, FirstOfSeq
    <3>2. QED
      BY <2>1, <2>2, <3>1
  <2>4. CASE ~AnswersHandedOn \/ found = None \/ ~Held(c, lastApplied)
    <3>1. fromNode'[c] = q
      BY <1>6, <2>4, GiveStep
    <3>2. QED
      BY <1>3, <3>1
  <2>5. CASE AnswersHandedOn /\ found # None /\ Held(c, lastApplied)
    <3>1. fromNode'[c] = Append(q, answer)
      BY <1>6, <2>5, GiveStep
    <3>2. answer \in Reply
      BY <2>3, <2>5 DEF Answer, Reply, AnswersHandedOn
    <3> HIDE DEF q, answer
    <3>3. \/ n \in DOMAIN q /\ fromNode'[c][n] = q[n]
          \/ fromNode'[c][n] = answer
      BY <1>1, <3>1, <3>2, AppendedElement
    <3>4. QED
      BY <1>2, <2>3, <2>5, <3>3 DEF answer
  <2>6. QED
    BY <2>4, <2>5
<1>7. \/ UNCHANGED fromNode
      \/ \E s \in Server : ReadFromServer(s)
      \/ \E d \in Client : TurnAway(d) \/ ClientReceives(d)
  BY DEF Next, NodeStep, CronReconnect, CronFlush, EpollWait, WriteToServer,
     DeleteChildren, DeleteParents, AppendCommand, Accept, ToFollow, Commit,
     Replicate, ServerAnswers, ServerDropsNode, ServerCrash, ServerRestart,
     ClientSends, ClientQuits, vars, clientVars
<1>8. UNCHANGED fromNode => Before
  BY <1>3
<1>9. QED
  BY <1>4, <1>5, <1>6, <1>7, <1>8 DEF Before

LEMMA NeverFromFutureStep ==
  ASSUME Types, DealingInOrder, NeverFromFuture, [Next]_vars
  PROVE  NeverFromFuture'
<1> SUFFICES ASSUME NEW c \in Client, NEW n \in AnswersTo(c)'
             PROVE  fromNode'[c][n].entry <= fromNode'[c][n].own
  BY DEF NeverFromFuture
<1>1. CASE \E m \in AnswersTo(c) : fromNode'[c][n] = fromNode[c][m]
  BY <1>1 DEF NeverFromFuture
<1>2. ASSUME NEW s \in Server, AnswersHandedOn, fromServer[s] # << >>,
             dealing[lastApplied] # None,
             fromNode'[c][n] = Answer(fromServer[s][1], lastApplied)
      PROVE  fromNode'[c][n].entry <= fromNode'[c][n].own
  <2>1. lastApplied \in Index /\ role = "L" /\ lastApplied \in Nat
    BY <1>2 DEF AnswersHandedOn, Index
  <2>2. fromServer[s] \in Seq(NotAfter(lastApplied))
    BY <1>2, <2>1 DEF DealingInOrder, Carry
  <2>3. NotAfter(lastApplied) = 0 .. lastApplied
    BY <2>1 DEF NotAfter
  <2>4. 1 \in 1 .. Len(fromServer[s])
    BY <1>2, <2>2, EmptySeq
  <2>5. fromServer[s][1] \in 0 .. lastApplied
    BY <2>2, <2>3, <2>4, ElementOfSeq
  <2>6. QED
    BY <1>2, <2>1, <2>5 DEF Answer
<1>3. QED
  BY <1>1, <1>2, AnswersStep

(* The answer FlushServerCommand hands to a client (FlushServerCommand.cpp:70)
   may be that of another entry, never of a later one: whatever a server still
   has from an earlier flush of the log, it is older than what a leader's
   clients wait for. *)
THEOREM NoAnswerFromFuture == Spec => []NeverFromFuture
<1> DEFINE Inv == Types /\ DealingInOrder /\ NeverFromFuture
<1>1. Init => Inv
  <2>1. ASSUME Init PROVE DealingInOrder /\ NeverFromFuture
    BY <2>1 DEF Init, DealingInOrder, NeverFromFuture, AnswersTo
  <2>2. QED
    BY <2>1, TypesInit
<1>2. Inv /\ [Next]_vars => Inv'
  BY TypesStep, DealingOrderStep, NeverFromFutureStep
<1>3. Inv => NeverFromFuture
  OBVIOUS
<1>4. QED
  BY <1>1, <1>2, <1>3, PTL DEF Spec

-----------------------------------------------------------------------------
(* While no client quits, a client is answered once and for its own command. *)

Orderly == Types /\ spent.quit = 0 /\ ClientsInOrder

(* What the node reads of a client is the command the client waits for. *)
LEMMA ReadsRequest ==
  ASSUME Orderly, NEW c \in Client, Receives(c)
  PROVE  /\ client[c] = "waiting" /\ c \in parents /\ fromNode[c] = << >>
         /\ Head(toNode[c]) = Request(c) /\ Tail(toNode[c]) = << >>
         /\ toNode[c] # << >>
<1>1. /\ toNode[c] # << >> /\ c \in parents /\ Head(toNode[c]) # Eof
      /\ client[c] \in {"new", "idle", "waiting", "gone"}
      /\ ClientState(c)
  BY DEF Receives, Handles, Orderly, Types, ClientTypeOK, ClientsInOrder
<1>2. Head(<<Eof>>) = Eof
  OBVIOUS
<1>3. client[c] = "waiting" /\ toNode[c] = <<Request(c)>>
  BY <1>1, <1>2 DEF ClientState
<1>4. Head(<<Request(c)>>) = Request(c) /\ Tail(<<Request(c)>>) = << >>
  OBVIOUS
<1>5. QED
  BY <1>1, <1>3, <1>4 DEF ClientState

(* A connection that ends is that of a client that was sent elsewhere. *)
LEMMA EndsGone ==
  ASSUME Orderly, NEW c \in Client, DeleteParents(c)
  PROVE  client[c] = "gone"
<1>1. /\ toNode[c] # << >> /\ Head(toNode[c]) = Eof
      /\ client[c] \in {"new", "idle", "waiting", "gone"}
      /\ ClientState(c)
  BY DEF DeleteParents, Handles, Orderly, Types, ClientTypeOK, ClientsInOrder
<1>2. ASSUME client[c] = "waiting" PROVE FALSE
  <2>1. /\ progress[c] \in Nat /\ progress[c] < Len(Script[c])
        /\ Script[c] \in Seq(Command)
    BY <1>1, <1>2 DEF ClientState, Orderly, Types, ClientTypeOK
  <2>2. Request(c) \in Command
    BY <2>1 DEF Request
  <2>3. toNode[c] = <<Request(c)>>
    BY <1>1, <1>2 DEF ClientState
  <2>4. Head(<<Request(c)>>) = Request(c)
    OBVIOUS
  <2>5. QED
    BY <1>1, <2>2, <2>3, <2>4, NoEof
<1>3. QED
  BY <1>1, <1>2 DEF ClientState

(* The client that is found for an entry waits for the answer to it. *)
LEMMA HolderWaits ==
  ASSUME Orderly, role = "L", NEW c \in Client, NEW n \in Index, Held(c, n)
  PROVE  /\ client[c] = "waiting" /\ toNode[c] = << >> /\ fromNode[c] = << >>
         /\ n <= Len(log) /\ log[n] = Request(c)
         /\ \A m \in Index : Held(c, m) => m = n
         /\ address[c] # None
  BY DEF Orderly, ClientsInOrder, ParentState, HoldersInOrder, HolderState,
     ClientState, Held

LEMMA ClientStateFrame ==
  ASSUME NEW c \in Client, ClientState(c),
         client'[c] = client[c], progress'[c] = progress[c],
         toNode'[c] = toNode[c], fromNode'[c] = fromNode[c],
         c \in parents' => c \in parents /\ address'[c] = address[c]
  PROVE  ClientState(c)'
  BY DEF ClientState, Request

(* Only what a client does, what the node reads of it and an answer disturb
   its state. *)
LEMMA ClientStateOthers ==
  ASSUME Orderly, [Next]_vars, spent'.quit = 0, NEW c \in Client,
         ~(DeleteParents(c) \/ AppendCommand(c) \/ TurnAway(c) \/ Accept(c)
           \/ ClientSends(c) \/ ClientReceives(c)),
         ~\E s \in Server : ReadFromServer(s)
  PROVE  ClientState(c)'
<1> USE DEF Orderly, Types, ClientTypeOK, NodeTypeOK
<1>1. ClientState(c)
  BY DEF ClientsInOrder
<1>2. ASSUME NEW d \in Client,
             \/ DeleteParents(d) \/ AppendCommand(d) \/ TurnAway(d) \/ Accept(d)
             \/ ClientSends(d) \/ ClientReceives(d)
      PROVE  /\ client'[c] = client[c] /\ progress'[c] = progress[c]
             /\ toNode'[c] = toNode[c] /\ fromNode'[c] = fromNode[c]
             /\ c \in parents' => c \in parents /\ address'[c] = address[c]
  <2>1. c # d
    BY <1>2
  <2>2. CASE DeleteParents(d)
    BY <2>1, <2>2 DEF DeleteParents, parentVars, clientVars
  <2>3. CASE AppendCommand(d)
    BY <2>1, <2>3 DEF AppendCommand
  <2>4. CASE TurnAway(d)
    <3>1. PICK m : fromNode' = [fromNode EXCEPT ![d] = Append(@, m)]
      BY <2>4 DEF TurnAway
    <3>2. QED
      BY <2>1, <2>4, <3>1 DEF TurnAway, parentVars
  <2>5. CASE Accept(d)
    <3>1. PICK a : address' = [address EXCEPT ![d] = a]
      BY <2>5 DEF Accept
    <3>2. QED
      BY <2>1, <2>5, <3>1 DEF Accept
  <2>6. CASE ClientSends(d)
    BY <2>1, <2>6 DEF ClientSends, parentVars
  <2>7. CASE ClientReceives(d)
    BY <2>1, <2>7 DEF ClientReceives, parentVars
  <2>8. QED
    BY <1>2, <2>2, <2>3, <2>4, <2>5, <2>6, <2>7
<1>3. ASSUME NEW d \in Client, ClientQuits(d)
      PROVE  FALSE
  BY <1>3, SpendType DEF ClientQuits
<1>4. CASE \/ CronReconnect \/ CronFlush \/ EpollWait
           \/ \E s \in Server : WriteToServer(s) \/ DeleteChildren(s)
           \/ ToFollow \/ Commit \/ Replicate
           \/ \E s \in Server : \/ ServerAnswers(s) \/ ServerDropsNode(s)
                                \/ ServerCrash(s) \/ ServerRestart(s)
           \/ UNCHANGED vars
  <2>1. UNCHANGED <<client, progress, toNode, fromNode, parents, address>>
    BY <1>4 DEF CronReconnect, CronFlush, EpollWait, WriteToServer,
       DeleteChildren, ToFollow, Commit, Replicate, ServerAnswers,
       ServerDropsNode, ServerCrash, ServerRestart, vars, parentVars, clientVars
  <2>2. QED
    BY <1>1, <2>1, ClientStateFrame
<1>5. CASE \E d \in Client :
             \/ DeleteParents(d) \/ AppendCommand(d) \/ TurnAway(d) \/ Accept(d)
             \/ ClientSends(d) \/ ClientReceives(d)
  BY <1>1, <1>2, <1>5, ClientStateFrame
<1>6. QED
  BY <1>3, <1>4, <1>5 DEF Next, NodeStep

LEMMA ClientStateStep ==
  ASSUME Orderly, [Next]_vars, spent'.quit = 0, NEW c \in Client
  PROVE  ClientState(c)'
<1> USE DEF Orderly, Types, ClientTypeOK, NodeTypeOK
<1>1. /\ ClientState(c) /\ progress[c] \in Nat
      /\ client[c] \in {"new", "idle", "waiting", "gone"}
      /\ toNode[c] \in Seq(Command \cup {Eof}) /\ fromNode[c] \in Seq(Reply)
  BY DEF ClientsInOrder
<1>2. CASE DeleteParents(c)
  <2>1. client[c] = "gone" /\ fromNode[c] = << >>
    BY <1>1, <1>2, EndsGone DEF ClientState
  <2>2. /\ client'[c] = "gone" /\ toNode'[c] = << >> /\ fromNode'[c] = << >>
        /\ c \notin parents'
    BY <1>2, <2>1 DEF DeleteParents
  <2>3. QED
    BY <2>2 DEF ClientState
<1>3. CASE AppendCommand(c)
  <2>1. client[c] = "waiting" /\ fromNode[c] = << >> /\ Tail(toNode[c]) = << >>
    BY <1>3, ReadsRequest DEF AppendCommand
  <2>2. /\ client'[c] = "waiting" /\ toNode'[c] = << >> /\ fromNode'[c] = << >>
        /\ UNCHANGED <<parents, address, progress>>
    BY <1>3, <2>1 DEF AppendCommand
  <2>3. QED
    BY <1>1, <2>1, <2>2 DEF ClientState
<1>4. CASE TurnAway(c)
  <2>1. client[c] = "waiting" /\ fromNode[c] = << >> /\ Tail(toNode[c]) = << >>
    BY <1>4, ReadsRequest DEF TurnAway
  <2>2. PICK m : fromNode' = [fromNode EXCEPT ![c] = Append(@, m)]
    BY <1>4 DEF TurnAway
  <2>3. Append(<< >>, m) = <<m>> /\ Head(<<m>>) = m
    OBVIOUS
  <2>4. /\ client'[c] = "waiting" /\ toNode'[c] = << >> /\ fromNode'[c] = <<m>>
        /\ UNCHANGED <<parents, address, progress>>
    BY <1>4, <2>1, <2>2, <2>3 DEF TurnAway, parentVars
  <2>5. QED
    BY <1>1, <2>1, <2>3, <2>4 DEF ClientState
<1>5. CASE Accept(c)
  <2>1. client[c] = "new" /\ toNode[c] = << >> /\ fromNode[c] = << >>
    BY <1>1, <1>5 DEF Accept, ClientState
  <2>2. PICK a \in Client : address' = [address EXCEPT ![c] = a]
    BY <1>5 DEF Accept
  <2>3. address'[c] # None
    BY <2>2
  <2>4. client'[c] = "idle" /\ toNode'[c] = << >> /\ fromNode'[c] = << >>
    BY <1>5, <2>1 DEF Accept
  <2>5. QED
    BY <2>3, <2>4 DEF ClientState
<1>6. CASE ClientSends(c)
  <2>1. /\ client[c] = "idle" /\ toNode[c] = << >> /\ fromNode[c] = << >>
        /\ progress[c] < Len(Script[c])
    BY <1>1, <1>6 DEF ClientSends, ClientState
  <2>2. Append(<< >>, Request(c)) = <<Request(c)>>
    OBVIOUS
  <2>3. /\ client'[c] = "waiting" /\ toNode'[c] = <<Request(c)>>
        /\ fromNode'[c] = << >> /\ UNCHANGED <<parents, address, progress>>
    BY <1>6, <2>1, <2>2 DEF ClientSends, Request, parentVars
  <2>4. QED
    BY <1>1, <2>1, <2>3 DEF ClientState, Request
<1>7. CASE ClientReceives(c)
  <2>1. /\ client[c] = "waiting" /\ toNode[c] = << >>
        /\ fromNode[c] = <<Head(fromNode[c])>>
    BY <1>1, <1>7 DEF ClientReceives, ClientState
  <2>2. Tail(<<Head(fromNode[c])>>) = << >> /\ Append(<< >>, Eof) = <<Eof>>
    OBVIOUS
  <2>3. /\ fromNode'[c] = << >> /\ UNCHANGED <<parents, address>>
        /\ \/ client'[c] = "idle" /\ toNode'[c] = << >>
           \/ client'[c] = "gone" /\ toNode'[c] = <<Eof>>
    BY <1>7, <2>1, <2>2 DEF ClientReceives, parentVars
  <2>4. QED
    BY <1>1, <2>1, <2>3 DEF ClientState
<1>8. ASSUME NEW s \in Server, ReadFromServer(s)
      PROVE  ClientState(c)'
  <2>1. UNCHANGED <<client, progress, toNode, parents, address>>
    BY <1>8 DEF ReadFromServer
  <2>2. CASE ~AnswersHandedOn \/ dealing[lastApplied] = None \/ ~Held(c, lastApplied)
    <3>1. fromNode'[c] = fromNode[c]
      BY <1>8, <2>2, GiveStep
    <3>2. QED
      BY <1>1, <2>1, <3>1, ClientStateFrame
  <2>3. CASE AnswersHandedOn /\ dealing[lastApplied] # None /\ Held(c, lastApplied)
    <3> DEFINE answer == Answer(fromServer[s][1], lastApplied)
    <3>1. fromNode'[c] = Append(fromNode[c], answer)
      BY <1>8, <2>3, GiveStep
    <3>2. client[c] = "waiting" /\ toNode[c] = << >> /\ fromNode[c] = << >>
      BY <2>3, HolderWaits DEF AnswersHandedOn
    <3> HIDE DEF answer
    <3>3. Append(<< >>, answer) = <<answer>> /\ Head(<<answer>>) = answer
      OBVIOUS
    <3>4. QED
      BY <1>1, <2>1, <3>1, <3>2, <3>3 DEF ClientState, Request
  <2>4. QED
    BY <2>2, <2>3
<1>9. QED
  BY <1>2, <1>3, <1>4, <1>5, <1>6, <1>7, <1>8, ClientStateOthers

LEMMA HoldersKept ==
  ASSUME Orderly, [Next]_vars, role = "L",
         Len(log) <= Len(log'), \A k \in 1 .. Len(log) : log'[k] = log[k],
         \A m \in Index : dealing'[m] # None => dealing'[m] = dealing[m],
         \A c \in Client : \A m \in Index :
           Held(c, m) /\ dealing'[m] # None =>
             /\ c \in parents' /\ address'[c] = address[c]
             /\ client'[c] = client[c] /\ progress'[c] = progress[c]
             /\ toNode'[c] = toNode[c] /\ fromNode'[c] = fromNode[c],
         \A c \in Client : ClientState(c)',
         \A c \in Client : \A m \in Index : Held(c, m)' => Held(c, m)
  PROVE  HoldersInOrder'
<1> SUFFICES ASSUME NEW n \in Index
             PROVE  /\ dealing'[n] # None => \E c \in Client : Held(c, n)'
                    /\ \A c \in Client : Held(c, n)' => HolderState(c, n)'
  BY DEF HoldersInOrder
<1>1. ASSUME dealing'[n] # None
      PROVE  \E c \in Client : Held(c, n)'
  <2>1. PICK c \in Client : Held(c, n)
    BY <1>1 DEF Orderly, ClientsInOrder, ParentState, HoldersInOrder
  <2>2. Held(c, n)'
    BY <1>1, <2>1 DEF Held
  <2>3. QED
    BY <2>2
<1>2. ASSUME NEW c \in Client, Held(c, n)'
      PROVE  HolderState(c, n)'
  <2>1. Held(c, n)
    BY <1>2
  <2>2. dealing'[n] # None
    BY <1>2 DEF Held, ClientState
  <2>3. /\ client[c] = "waiting" /\ toNode[c] = << >> /\ fromNode[c] = << >>
        /\ n <= Len(log) /\ log[n] = Request(c)
        /\ \A m \in Index : Held(c, m) => m = n
    BY <2>1, HolderWaits
  <2>4. /\ client'[c] = client[c] /\ progress'[c] = progress[c]
        /\ toNode'[c] = toNode[c] /\ fromNode'[c] = fromNode[c]
    BY <2>1, <2>2
  <2>5. log'[n] = log[n] /\ n <= Len(log')
    <3>1. log \in Seq(Command) /\ n \in 1 .. Len(log) /\ n \in Nat
      BY <2>3 DEF Orderly, Types, NodeTypeOK, Index
    <3>2. log' \in Seq(Command)
      BY LogStep DEF Orderly
    <3>3. Len(log) \in Nat /\ Len(log') \in Nat
      BY <3>1, <3>2
    <3>4. QED
      BY <3>1, <3>3
  <2>6. QED
    BY <2>3, <2>4, <2>5 DEF HolderState, Request
<1>3. QED
  BY <1>1, <1>2

LEMMA HoldersAppend ==
  ASSUME Orderly, [Next]_vars, role = "L", NEW e \in Client, AppendCommand(e)
  PROVE  HoldersInOrder'
<1> DEFINE l == Len(log) + 1
<1> USE DEF Orderly, Types, NodeTypeOK, ClientTypeOK
<1>1. /\ client[e] = "waiting" /\ e \in parents /\ fromNode[e] = << >>
      /\ Head(toNode[e]) = Request(e) /\ Tail(toNode[e]) = << >>
      /\ toNode[e] # << >>
  BY ReadsRequest DEF AppendCommand
<1>2. l \in Index /\ Len(log) \in Nat
  <2>1. Len(log) \in Nat /\ Len(log) < MaxEntry /\ MaxEntry \in Nat
    BY DEF AppendCommand
  <2>2. QED
    BY <2>1, SMTT(30) DEF Index
<1>3. /\ dealing' = [dealing EXCEPT ![l] = address[e]]
      /\ UNCHANGED <<parents, address, client, progress, fromNode>>
      /\ toNode' = [toNode EXCEPT ![e] = << >>]
      /\ log' = Append(log, Request(e))
  BY <1>1 DEF AppendCommand
<1>4. /\ Len(log') = l /\ log'[l] = Request(e)
      /\ \A k \in 1 .. Len(log) : log'[k] = log[k]
  <2>1. Request(e) \in Command
    BY <1>1, ReceivedCommand DEF AppendCommand
  <2>2. QED
    BY <1>3, <2>1, AppendProperties
<1>5. \A m \in Index : ~Held(e, m)
  BY <1>1, HolderWaits
<1>6. address[e] # None
  BY <1>1 DEF ClientsInOrder, ClientState
<1>7. \A d \in parents : address[d] = address[e] => d = e
  BY <1>1 DEF ClientsInOrder, ParentState
<1>8. \A c \in Client, m \in Index :
        Held(c, m)' <=> (m = l /\ c = e) \/ (m # l /\ Held(c, m))
  BY <1>1, <1>2, <1>3, <1>7 DEF Held
<1> HIDE DEF l
<1> SUFFICES ASSUME NEW n \in Index
             PROVE  /\ dealing'[n] # None => \E c \in Client : Held(c, n)'
                    /\ \A c \in Client : Held(c, n)' => HolderState(c, n)'
  BY DEF HoldersInOrder
<1>9. ASSUME dealing'[n] # None
      PROVE  \E c \in Client : Held(c, n)'
  <2>1. CASE n = l
    BY <1>8, <2>1
  <2>2. CASE n # l
    <3>1. dealing[n] # None
      BY <1>2, <1>3, <1>9, <2>2
    <3>2. PICK c \in Client : Held(c, n)
      BY <3>1 DEF ClientsInOrder, ParentState, HoldersInOrder
    <3>3. QED
      BY <1>8, <2>2, <3>2
  <2>3. QED
    BY <2>1, <2>2
<1>10. ASSUME NEW c \in Client, Held(c, n)'
       PROVE  HolderState(c, n)'
  <2>1. CASE c = e
    <3>1. n = l /\ \A m \in Index : Held(c, m)' => m = n
      BY <1>5, <1>8, <1>10, <2>1
    <3>2. toNode'[c] = << >>
      BY <1>3, <2>1
    <3>3. l <= Len(log')
      BY <1>2, <1>4 DEF Index
    <3>4. QED
      BY <1>1, <1>3, <1>4, <2>1, <3>1, <3>2, <3>3 DEF HolderState, Request
  <2>2. CASE c # e
    <3>1. Held(c, n) /\ \A m \in Index : Held(c, m)' => Held(c, m)
      BY <1>8, <1>10, <2>2
    <3>2. /\ client[c] = "waiting" /\ toNode[c] = << >> /\ fromNode[c] = << >>
          /\ n <= Len(log) /\ log[n] = Request(c)
          /\ \A m \in Index : Held(c, m) => m = n
      BY <3>1, HolderWaits
    <3>3. toNode'[c] = << >>
      BY <1>3, <2>2, <3>2
    <3>4. log'[n] = log[n] /\ n <= Len(log')
      <4>1. n \in Nat /\ n \in 1 .. Len(log)
        BY <1>2, <3>2 DEF Index
      <4>2. QED
        BY <1>2, <1>4, <4>1 DEF l
    <3>5. QED
      BY <1>3, <3>1, <3>2, <3>3, <3>4 DEF HolderState, Request
  <2>3. QED
    BY <2>1, <2>2
<1>11. QED
  BY <1>9, <1>10

LEMMA HoldersRead ==
  ASSUME Orderly, [Next]_vars, role = "L", NEW s \in Server, ReadFromServer(s),
         \A c \in Client : ClientState(c)'
  PROVE  HoldersInOrder'
<1> USE DEF Orderly, Types, NodeTypeOK, ClientTypeOK
<1>1. UNCHANGED <<log, parents, address, client, progress, toNode>>
  BY DEF ReadFromServer
<1>2. /\ \A m \in Index : dealing'[m] # None => dealing'[m] = dealing[m]
      /\ AnswersHandedOn => dealing'[lastApplied] = None /\ lastApplied \in Index
  BY DEF ReadFromServer, GiveAnswer, WithoutDealt, AnswersHandedOn
<1>3. \A c \in Client, m \in Index : Held(c, m)' => Held(c, m)
  <2>1. SUFFICES ASSUME NEW c \in Client, NEW m \in Index, Held(c, m)'
                 PROVE  Held(c, m)
    OBVIOUS
  <2>2. dealing'[m] # None
    BY <2>1 DEF Held, ClientState
  <2>3. QED
    BY <1>1, <1>2, <2>1, <2>2 DEF Held
<1>4. ASSUME NEW c \in Client, NEW m \in Index, Held(c, m), dealing'[m] # None
      PROVE  fromNode'[c] = fromNode[c]
  <2>1. ASSUME AnswersHandedOn, Held(c, lastApplied)
        PROVE  FALSE
    BY <1>2, <1>4, <2>1, HolderWaits
  <2>2. QED
    BY <2>1, GiveStep
<1>5. \A c \in Client : \A m \in Index :
        Held(c, m) /\ dealing'[m] # None => c \in parents' /\ fromNode'[c] = fromNode[c]
  BY <1>1, <1>4 DEF Held
<1>6. Len(log) \in Nat
  OBVIOUS
<1>7. QED
  BY <1>1, <1>2, <1>3, <1>5, <1>6, HoldersKept, SMTT(30)

LEMMA HoldersAccept ==
  ASSUME Orderly, [Next]_vars, role = "L", NEW e \in Client, Accept(e),
         \A c \in Client : ClientState(c)'
  PROVE  HoldersInOrder'
<1> USE DEF Orderly, Types, NodeTypeOK, ClientTypeOK
<1>1. /\ UNCHANGED <<log, dealing, progress, toNode, fromNode>>
      /\ client' = [client EXCEPT ![e] = "idle"] /\ parents' = parents \cup {e}
  BY DEF Accept, raftVars
<1>2. PICK a \in Client \ {address[d] : d \in parents} :
        address' = [address EXCEPT ![e] = a]
  BY DEF Accept
<1>3. e \notin parents
  BY DEF Accept, ClientsInOrder, ClientState
<1>4. \A m \in Index : dealing[m] # a
  <2>1. ASSUME NEW m \in Index, dealing[m] = a PROVE FALSE
    <3>1. dealing[m] # None
      BY <1>2, <2>1
    <3>2. PICK c \in Client : Held(c, m)
      BY <3>1 DEF ClientsInOrder, ParentState, HoldersInOrder
    <3>3. QED
      BY <1>2, <2>1, <3>2 DEF Held
  <2>2. QED
    BY <2>1
<1>5. \A c \in Client, m \in Index : Held(c, m)' => Held(c, m)
  BY <1>1, <1>2, <1>3, <1>4 DEF Held
<1>6. \A c \in Client : \A m \in Index :
        Held(c, m) /\ dealing'[m] # None =>
          /\ c \in parents' /\ address'[c] = address[c]
          /\ client'[c] = client[c] /\ progress'[c] = progress[c]
          /\ toNode'[c] = toNode[c] /\ fromNode'[c] = fromNode[c]
  BY <1>1, <1>2, <1>3 DEF Held
<1>7. /\ Len(log) <= Len(log') /\ \A k \in 1 .. Len(log) : log'[k] = log[k]
      /\ \A m \in Index : dealing'[m] # None => dealing'[m] = dealing[m]
  BY <1>1
<1>8. QED
  BY <1>5, <1>6, <1>7, HoldersKept

LEMMA HoldersDelete ==
  ASSUME Orderly, [Next]_vars, role = "L", NEW e \in Client, DeleteParents(e),
         \A c \in Client : ClientState(c)'
  PROVE  HoldersInOrder'
<1> USE DEF Orderly, Types, NodeTypeOK, ClientTypeOK
<1>1. /\ UNCHANGED <<log, dealing, address, client, progress, fromNode>>
      /\ parents' = parents \ {e} /\ toNode' = [toNode EXCEPT ![e] = << >>]
  BY DEF DeleteParents, raftVars
<1>2. \A m \in Index : ~Held(e, m)
  BY EndsGone, HolderWaits
<1>3. \A c \in Client, m \in Index : Held(c, m)' => Held(c, m)
  BY <1>1 DEF Held
<1>4. \A c \in Client : \A m \in Index :
        Held(c, m) /\ dealing'[m] # None =>
          /\ c \in parents' /\ address'[c] = address[c]
          /\ client'[c] = client[c] /\ progress'[c] = progress[c]
          /\ toNode'[c] = toNode[c] /\ fromNode'[c] = fromNode[c]
  <2>1. SUFFICES ASSUME NEW c \in Client, NEW m \in Index, Held(c, m)
                 PROVE  c \in parents' /\ toNode'[c] = toNode[c]
    BY <1>1
  <2>2. c # e
    BY <1>2, <2>1
  <2>3. QED
    BY <1>1, <2>1, <2>2 DEF Held
<1>5. /\ Len(log) <= Len(log') /\ \A k \in 1 .. Len(log) : log'[k] = log[k]
      /\ \A m \in Index : dealing'[m] # None => dealing'[m] = dealing[m]
  BY <1>1
<1>6. QED
  BY <1>3, <1>4, <1>5, HoldersKept

LEMMA HoldersClient ==
  ASSUME Orderly, [Next]_vars, role = "L", NEW e \in Client,
         ClientSends(e) \/ ClientReceives(e),
         \A c \in Client : ClientState(c)'
  PROVE  HoldersInOrder'
<1> USE DEF Orderly, Types, NodeTypeOK, ClientTypeOK
<1>1. UNCHANGED <<log, dealing, parents, address>>
  BY DEF ClientSends, ClientReceives, raftVars, parentVars
<1>2. \A m \in Index : ~Held(e, m)
  BY HolderWaits DEF ClientSends, ClientReceives
<1>3. ASSUME NEW c \in Client, c # e
      PROVE  /\ client'[c] = client[c] /\ progress'[c] = progress[c]
             /\ toNode'[c] = toNode[c] /\ fromNode'[c] = fromNode[c]
  <2>1. CASE ClientSends(e)
    BY <1>3, <2>1 DEF ClientSends
  <2>2. CASE ClientReceives(e)
    BY <1>3, <2>2 DEF ClientReceives
  <2>3. QED
    BY <2>1, <2>2
<1>4. \A c \in Client, m \in Index : Held(c, m)' => Held(c, m)
  BY <1>1 DEF Held
<1>5. \A c \in Client : \A m \in Index :
        Held(c, m) /\ dealing'[m] # None =>
          /\ c \in parents' /\ address'[c] = address[c]
          /\ client'[c] = client[c] /\ progress'[c] = progress[c]
          /\ toNode'[c] = toNode[c] /\ fromNode'[c] = fromNode[c]
  <2>1. SUFFICES ASSUME NEW c \in Client, NEW m \in Index, Held(c, m)
                 PROVE  /\ c \in parents'
                        /\ client'[c] = client[c] /\ progress'[c] = progress[c]
                        /\ toNode'[c] = toNode[c] /\ fromNode'[c] = fromNode[c]
    BY <1>1
  <2>2. c # e
    BY <1>2, <2>1
  <2>3. QED
    BY <1>1, <1>3, <2>1, <2>2 DEF Held
<1>6. /\ Len(log) <= Len(log') /\ \A k \in 1 .. Len(log) : log'[k] = log[k]
      /\ \A m \in Index : dealing'[m] # None => dealing'[m] = dealing[m]
  BY <1>1
<1>7. QED
  BY <1>4, <1>5, <1>6, HoldersKept

LEMMA HoldersOthers ==
  ASSUME Orderly, [Next]_vars, role = "L", role' = "L",
         UNCHANGED <<dealing, parents, address, client, progress, toNode, fromNode>>,
         \A c \in Client : ClientState(c)'
  PROVE  HoldersInOrder'
<1> USE DEF Orderly, Types, NodeTypeOK
<1>1. UNCHANGED log
  <2>1. ASSUME NEW e \in Client, AppendCommand(e)
        PROVE  FALSE
    <3>1. toNode[e] # << >> /\ Tail(toNode[e]) = << >>
      BY <2>1, ReadsRequest DEF AppendCommand
    <3>2. toNode' = [toNode EXCEPT ![e] = << >>]
      BY <2>1, <3>1 DEF AppendCommand
    <3>3. QED
      BY <3>1, <3>2 DEF ClientTypeOK
  <2>2. QED
    BY <2>1 DEF Next, NodeStep, CronReconnect, CronFlush, EpollWait,
       WriteToServer, DeleteChildren, ReadFromServer, DeleteParents, TurnAway,
       Accept, ToFollow, Commit, Replicate, ServerAnswers, ServerDropsNode,
       ServerCrash, ServerRestart, ClientSends, ClientReceives, ClientQuits,
       vars, raftVars
<1>2. \A c \in Client, m \in Index : Held(c, m)' => Held(c, m)
  BY DEF Held
<1>3. \A c \in Client : \A m \in Index :
        Held(c, m) /\ dealing'[m] # None =>
          /\ c \in parents' /\ address'[c] = address[c]
          /\ client'[c] = client[c] /\ progress'[c] = progress[c]
          /\ toNode'[c] = toNode[c] /\ fromNode'[c] = fromNode[c]
  BY DEF Held
<1>4. /\ Len(log) <= Len(log') /\ \A k \in 1 .. Len(log) : log'[k] = log[k]
      /\ \A m \in Index : dealing'[m] # None => dealing'[m] = dealing[m]
  BY <1>1
<1>5. QED
  BY <1>2, <1>3, <1>4, HoldersKept

LEMMA HoldersStep ==
  ASSUME Orderly, [Next]_vars, spent'.quit = 0, role' = "L",
         \A c \in Client : ClientState(c)'
  PROVE  HoldersInOrder'
<1> USE DEF Orderly, Types, NodeTypeOK
<1>1. CASE role # "L"
  <2>1. \A n \in Index : dealing'[n] = None
    BY <1>1 DEF Next, NodeStep, CronReconnect, CronFlush, ElectionTimeout, ToLead,
       ClearDealingIndex, EpollWait, WriteToServer, DeleteChildren,
       ReadFromServer, DeleteParents, AppendCommand, TurnAway, Accept, ToFollow,
       Commit, Replicate, ServerAnswers, ServerDropsNode, ServerCrash,
       ServerRestart, ClientSends, ClientReceives, ClientQuits, vars, raftVars
  <2>2. \A c \in Client, n \in Index : ~Held(c, n)'
    BY <2>1 DEF Held, ClientState
  <2>3. QED
    BY <2>1, <2>2 DEF HoldersInOrder
<1>2. CASE role = "L"
  <2>1. ASSUME NEW c \in Client,
               \/ AppendCommand(c) \/ Accept(c) \/ DeleteParents(c)
               \/ ClientSends(c) \/ ClientReceives(c)
        PROVE  HoldersInOrder'
    BY <1>2, <2>1, HoldersAppend, HoldersAccept, HoldersDelete, HoldersClient
  <2>2. ASSUME NEW s \in Server, ReadFromServer(s)
        PROVE  HoldersInOrder'
    BY <1>2, <2>2, HoldersRead
  <2>3. ASSUME NEW c \in Client, ClientQuits(c)
        PROVE  FALSE
    BY <2>3, SpendType DEF ClientQuits, ClientTypeOK
  <2>4. CASE UNCHANGED <<dealing, parents, address, client, progress, toNode,
                         fromNode>>
    BY <1>2, <2>4, HoldersOthers
  <2>5. \/ UNCHANGED <<dealing, parents, address, client, progress, toNode, fromNode>>
        \/ \E s \in Server : ReadFromServer(s)
        \/ \E c \in Client :
             \/ AppendCommand(c) \/ Accept(c) \/ DeleteParents(c)
             \/ ClientSends(c) \/ ClientReceives(c) \/ ClientQuits(c)
    BY <1>2 DEF Next, NodeStep, CronReconnect, CronFlush, ElectionTimeout, ToLead,
       EpollWait, WriteToServer, DeleteChildren, TurnAway, ToFollow, Commit,
       Replicate, ServerAnswers, ServerDropsNode, ServerCrash, ServerRestart,
       vars, parentVars, clientVars
  <2>6. QED
    BY <2>1, <2>2, <2>3, <2>4, <2>5
<1>3. QED
  BY <1>1, <1>2

LEMMA ParentStateStep ==
  ASSUME Orderly, [Next]_vars, spent'.quit = 0,
         \A c \in Client : ClientState(c)'
  PROVE  ParentState'
<1> USE DEF Orderly, Types, NodeTypeOK
<1>1. \A c, d \in parents : address[c] = address[d] => c = d
  BY DEF ClientsInOrder, ParentState
<1>2. ASSUME NEW e \in Client, Accept(e)
      PROVE  \A c, d \in parents' : address'[c] = address'[d] => c = d
  <2>1. PICK a \in Client \ {address[d] : d \in parents} :
          address' = [address EXCEPT ![e] = a]
    BY <1>2 DEF Accept
  <2>2. parents' = parents \cup {e}
    BY <1>2 DEF Accept
  <2>3. QED
    BY <1>1, <2>1, <2>2
<1>3. \A c, d \in parents' : address'[c] = address'[d] => c = d
  <2>1. \/ parents' \subseteq parents /\ UNCHANGED address
        \/ \E e \in Client : Accept(e)
    BY DEF Next, NodeStep, CronReconnect, CronFlush, EpollWait, WriteToServer,
       DeleteChildren, ReadFromServer, DeleteParents, AppendCommand, TurnAway,
       ToFollow, Commit, Replicate, ServerAnswers, ServerDropsNode, ServerCrash,
       ServerRestart, ClientSends, ClientReceives, ClientQuits, vars, parentVars
  <2>2. QED
    BY <1>1, <1>2, <2>1
<1>4. role' = "L" => HoldersInOrder'
  BY HoldersStep
<1>5. QED
  BY <1>3, <1>4 DEF ParentState

LEMMA OwnIndex ==
  ASSUME Types, NEW c \in Client, NEW m \in AnswersTo(c)
  PROVE  fromNode[c][m].own \in Index
<1>1. fromNode[c] \in Seq(Reply) /\ m \in DOMAIN fromNode[c]
      /\ fromNode[c][m].type = "answer"
  BY DEF Types, ClientTypeOK, AnswersTo
<1>2. m \in 1 .. Len(fromNode[c])
  BY <1>1
<1>3. fromNode[c][m] \in Reply
  BY <1>1, <1>2, ElementOfSeq
<1>4. \A r \in Reply : r.type = "answer" => r.own \in Index
  BY DEF Reply, Redirect, NotAvailable, Retry
<1>5. QED
  BY <1>1, <1>3, <1>4

LEMMA AnsweredRequestStep ==
  ASSUME Orderly, [Next]_vars, spent'.quit = 0
  PROVE  AnsweredRequestKept'
<1> USE DEF Orderly, Types, NodeTypeOK
<1> SUFFICES ASSUME NEW c \in Client, NEW n \in AnswersTo(c)'
             PROVE  /\ fromNode'[c][n].own <= commitIndex'
                    /\ log'[fromNode'[c][n].own] = Request(c)'
  BY DEF AnsweredRequestKept, Request
<1> DEFINE own == fromNode'[c][n].own
<1>1. /\ commitIndex \in Nat /\ commitIndex' \in Nat /\ commitIndex <= commitIndex'
      /\ \A k \in 1 .. commitIndex : log'[k] = log[k]
  BY LogStep
<1>2. CASE \E m \in AnswersTo(c) : fromNode'[c][n] = fromNode[c][m]
  <2>1. PICK m \in AnswersTo(c) : fromNode'[c][n] = fromNode[c][m]
    BY <1>2
  <2>2. own <= commitIndex /\ log[own] = Request(c)
    BY <2>1 DEF ClientsInOrder, AnsweredRequestKept, Request
  <2>3. own \in Index
    BY <2>1, OwnIndex
  <2>4. log'[own] = log[own] /\ own <= commitIndex'
    <3> HIDE DEF own
    <3>1. own \in Nat /\ own \in 1 .. commitIndex
      BY <1>1, <2>2, <2>3 DEF Index
    <3>2. QED
      BY <1>1, <3>1
  <2>5. ~ClientReceives(c)
    <3>1. ASSUME ClientReceives(c) PROVE FALSE
      <4>1. fromNode[c] = <<Head(fromNode[c])>>
        BY <3>1 DEF ClientReceives, ClientsInOrder, ClientState
      <4>2. Tail(<<Head(fromNode[c])>>) = << >>
        OBVIOUS
      <4>3. fromNode'[c] = << >>
        BY <3>1, <4>1, <4>2 DEF ClientReceives, ClientTypeOK
      <4>4. QED
        BY <4>3 DEF AnswersTo
    <3>2. QED
      BY <3>1
  <2>6. progress'[c] = progress[c]
    <3>1. ASSUME NEW d \in Client, ClientReceives(d)
          PROVE  progress'[c] = progress[c]
      BY <2>5, <3>1 DEF ClientReceives, ClientTypeOK
    <3>2. UNCHANGED progress \/ \E d \in Client : ClientReceives(d)
      BY DEF Next, NodeStep, CronReconnect, CronFlush, EpollWait, WriteToServer,
         DeleteChildren, ReadFromServer, DeleteParents, AppendCommand, TurnAway,
         Accept, ToFollow, Commit, Replicate, ServerAnswers, ServerDropsNode,
         ServerCrash, ServerRestart, ClientSends, ClientQuits, vars, clientVars
    <3>3. QED
      BY <3>1, <3>2
  <2>7. QED
    BY <2>2, <2>4, <2>6 DEF Request
<1>3. ASSUME NEW s \in Server, ReadFromServer(s), AnswersHandedOn,
             Held(c, lastApplied),
             fromNode'[c][n] = Answer(fromServer[s][1], lastApplied)
      PROVE  own <= commitIndex' /\ log'[own] = Request(c)'
  <2>1. own = lastApplied /\ lastApplied \in Index /\ role = "L"
    BY <1>3 DEF Answer, AnswersHandedOn
  <2>2. log[lastApplied] = Request(c)
    BY <1>3, <2>1, HolderWaits
  <2>3. UNCHANGED <<log, commitIndex, progress>>
    BY <1>3 DEF ReadFromServer
  <2>4. lastApplied <= commitIndex'
    BY <1>1, <2>3
  <2>5. QED
    BY <2>1, <2>2, <2>3, <2>4 DEF Request
<1>4. \/ \E m \in AnswersTo(c) : fromNode'[c][n] = fromNode[c][m]
      \/ \E s \in Server :
           /\ ReadFromServer(s) /\ AnswersHandedOn
           /\ Held(c, lastApplied)
           /\ fromNode'[c][n] = Answer(fromServer[s][1], lastApplied)
  BY AnswersStep
<1>5. QED
  BY <1>2, <1>3, <1>4

OrderInv == Types /\ ClientsInOrder

LEMMA OrderInit == ASSUME Init PROVE OrderInv
<1>1. \A c \in Client : ClientState(c)
  BY DEF Init, ClientState
<1>2. ParentState /\ AnsweredRequestKept
  BY DEF Init, ParentState, AnsweredRequestKept, AnswersTo
<1>3. QED
  BY <1>1, <1>2, TypesInit DEF OrderInv, ClientsInOrder

LEMMA OrderStep == ASSUME OrderInv, [Next]_vars PROVE OrderInv'
<1>1. CASE spent'.quit = 0
  <2>1. Orderly
    BY <1>1, SpentStep DEF OrderInv, Orderly
  <2>2. \A c \in Client : ClientState(c)'
    BY <1>1, <2>1, ClientStateStep
  <2>3. ParentState' /\ AnsweredRequestKept'
    BY <1>1, <2>1, <2>2, ParentStateStep, AnsweredRequestStep
  <2>4. QED
    BY <2>2, <2>3, TypesStep DEF OrderInv, ClientsInOrder
<1>2. CASE spent'.quit # 0
  BY <1>2, TypesStep DEF OrderInv, ClientsInOrder
<1>3. QED
  BY <1>1, <1>2

(* As long as no client quits, Parents gives an answer (Parents.cpp:58) only to
   the client whose command is in the committed entry it is given for: neither
   a change of leadership nor a reconnection mixes clients up. *)
THEOREM AnsweredRequest == Spec => []AnsweredRequestKept
<1>1. Init => OrderInv
  BY OrderInit
<1>2. OrderInv /\ [Next]_vars => OrderInv'
  BY OrderStep
<1>3. OrderInv => AnsweredRequestKept
  BY DEF OrderInv, ClientsInOrder, AnsweredRequestKept
<1>4. QED
  BY <1>1, <1>2, <1>3, PTL DEF Spec

(* As long as no client quits, a client is sent one thing for a command, while
   it waits, and nothing at any other time (CabinetCli.cpp:174 reads exactly
   one). *)
THEOREM ExpectedAnswers == Spec => []AnswersExpected
<1>1. Init => OrderInv
  BY OrderInit
<1>2. OrderInv /\ [Next]_vars => OrderInv'
  BY OrderStep
<1>3. OrderInv => AnswersExpected
  <2> SUFFICES ASSUME OrderInv, spent.quit = 0,
                      NEW c \in Client, fromNode[c] # << >>
               PROVE  /\ client[c] = "waiting" /\ Len(fromNode[c]) = 1
                      /\ toNode[c] = << >>
    BY DEF AnswersExpected
  <2>1. ClientState(c)
    BY DEF OrderInv, ClientsInOrder
  <2>2. fromNode[c] = <<Head(fromNode[c])>> /\ Len(<<Head(fromNode[c])>>) = 1
    BY <2>1 DEF ClientState
  <2>3. QED
    BY <2>1, <2>2 DEF ClientState
<1>4. QED
  BY <1>1, <1>2, <1>3, PTL DEF Spec

HIDE ServingAssumption

(* Executing commands one after another. *)

LEMMA LeastOf ==
  ASSUME NEW T, T \subseteq Nat, T # {}
  PROVE  \E n \in T : \A k \in T : n <= k
<1>1. PICK n \in T : \A k \in T : ~(<<k, n>> \in OpToRel(<, Nat))
  BY NatLessThanWellFounded, WFMin
<1>2. ASSUME NEW k \in T
      PROVE  n <= k
  <2>1. n \in Nat /\ k \in Nat
    OBVIOUS
  <2>2. ~(k < n)
    BY <1>1, <2>1 DEF OpToRel
  <2>3. QED
    BY <2>1, <2>2
<1>3. QED
  BY <1>2

LEMMA GreatestOf ==
  ASSUME NEW n \in Nat, NEW T, T \subseteq 1 .. n, T # {}
  PROVE  Max(T) \in T /\ \A k \in T : k <= Max(T)
<1> DEFINE Bounds == {m \in Nat : \A k \in T : k <= m}
<1>1. PICK m \in Bounds : \A l \in Bounds : m <= l
  <2>1. Bounds \subseteq Nat /\ n \in Bounds
    OBVIOUS
  <2> HIDE DEF Bounds
  <2>2. QED
    BY <2>1, LeastOf
<1>2. m \in Nat /\ \A k \in T : k \in Nat /\ k >= 1 /\ k <= m
  OBVIOUS
<1>3. m \in T
  <2> SUFFICES ASSUME m \notin T
               PROVE  FALSE
    OBVIOUS
  <2>1. m # 0
    <3>1. PICK k \in T : TRUE
      OBVIOUS
    <3>2. k \in Nat /\ k >= 1 /\ k <= m
      BY <1>2, <3>1
    <3>3. QED
      BY <1>2, <3>2
  <2>2. m - 1 \in Bounds
    BY <1>2, <2>1
  <2>3. QED
    BY <1>1, <1>2, <2>2
<1>4. \E x \in T : \A y \in T : x >= y
  BY <1>2, <1>3
<1>5. Max(T) \in T /\ \A y \in T : Max(T) >= y
  BY <1>4 DEF Max
<1>6. QED
  BY <1>2, <1>5

(* The recursion of MapThenFoldSet() over the first n cells of q: f[s] is what
   d becomes when the commands in the cells of s are executed. *)
FoldOnce(d, q, n, f) ==
  [s \in SUBSET (1 .. n) |->
     IF s = {} THEN d ELSE Execute(f[s \ {Max(s)}], q[Max(s)])]

LEMMA FoldDefined ==
  ASSUME NEW d, NEW q, NEW n \in Nat
  PROVE  \E g : g = FoldOnce(d, q, n, g)
<1> DEFINE Folds(m, g) ==
             g = [s \in SUBSET (1 .. m) |->
                    IF s = {} THEN d ELSE Execute(g[s \ {Max(s)}], q[Max(s)])]
           Bad == {m \in Nat : ~ \E g : Folds(m, g)}
<1> SUFFICES Bad = {}
  BY DEF FoldOnce
<1> SUFFICES ASSUME Bad # {}
             PROVE  FALSE
  OBVIOUS
<1>1. PICK m \in Bad : \A k \in Bad : m <= k
  <2>1. Bad \subseteq Nat
    OBVIOUS
  <2> HIDE DEF Bad
  <2>2. QED
    BY <2>1, LeastOf
<1>2. m \in Nat /\ ~ \E g : Folds(m, g)
  OBVIOUS
<1>3. CASE m = 0
  <2> DEFINE g == [s \in SUBSET (1 .. 0) |-> d]
  <2>1. \A s \in SUBSET (1 .. 0) : s = {}
    OBVIOUS
  <2>2. g = [s \in SUBSET (1 .. 0) |->
               IF s = {} THEN d ELSE Execute(g[s \ {Max(s)}], q[Max(s)])]
    BY <2>1
  <2>3. Folds(0, g)
    BY <2>2
  <2>4. QED
    BY <1>2, <1>3, <2>3
<1>4. CASE m # 0
  <2>1. m - 1 \in Nat /\ m - 1 < m
    BY <1>2, <1>4
  <2>2. m - 1 \notin Bad
    <3>1. m - 1 \in Bad => m <= m - 1
      BY <1>1
    <3> HIDE DEF Bad
    <3>2. QED
      BY <1>2, <2>1, <3>1
  <2>3. PICK g : Folds(m - 1, g)
    BY <2>1, <2>2
  <2> DEFINE h == [s \in SUBSET (1 .. m) |->
                     IF m \in s THEN Execute(g[s \ {m}], q[m]) ELSE g[s]]
  <2>4. ASSUME NEW s \in SUBSET (1 .. m)
        PROVE  h[s] = IF s = {} THEN d ELSE Execute(h[s \ {Max(s)}], q[Max(s)])
    <3>1. CASE s = {}
      <4>1. h[s] = g[s]
        BY <3>1
      <4>2. g[s] = d
        BY <2>3, <3>1
      <4>3. QED
        BY <3>1, <4>1, <4>2
    <3>2. CASE m \in s
      <4>1. Max(s) = m
        <5>1. Max(s) \in s /\ m <= Max(s)
          BY <1>2, <3>2, GreatestOf
        <5>2. \A k \in s : k \in Nat /\ k <= m
          BY <1>2
        <5> DEFINE x == Max(s)
        <5>3. x \in Nat /\ x <= m /\ m <= x
          BY <5>1, <5>2
        <5> HIDE DEF x
        <5>4. x = m
          BY <1>2, <5>3
        <5>5. QED
          BY <5>4 DEF x
      <4>2. h[s] = Execute(g[s \ {m}], q[m])
        BY <3>2
      <4>3. s \ {m} \in SUBSET (1 .. m) /\ m \notin s \ {m}
        OBVIOUS
      <4>4. h[s \ {m}] = g[s \ {m}]
        BY <4>3
      <4>5. QED
        BY <3>2, <4>1, <4>2, <4>4
    <3>3. CASE s # {} /\ m \notin s
      <4>1. s \in SUBSET (1 .. m - 1)
        BY <1>2, <3>3
      <4>2. h[s] = g[s] /\ h[s \ {Max(s)}] = g[s \ {Max(s)}]
        BY <3>3
      <4>3. g[s] = Execute(g[s \ {Max(s)}], q[Max(s)])
        BY <2>3, <3>3, <4>1
      <4>4. QED
        BY <3>3, <4>2, <4>3
    <3>4. QED
      BY <3>1, <3>2, <3>3
  <2>5. h = [s \in SUBSET (1 .. m) |->
               IF s = {} THEN d ELSE Execute(h[s \ {Max(s)}], q[Max(s)])]
    <3>1. h = [s \in SUBSET (1 .. m) |-> h[s]]
      OBVIOUS
    <3> HIDE DEF h
    <3>2. QED
      BY <2>4, <3>1
  <2>6. Folds(m, h)
    BY <2>5
  <2>7. QED
    BY <1>2, <2>6
<1>5. QED
  BY <1>3, <1>4

Run(d, q) == FoldLeft(Execute, d, q)

(* r[k] is what d becomes when the first k commands of q are executed. *)
Runs(r, d, q, n) ==
  r[0] = d /\ \A k \in 1 .. n : r[k] = Execute(r[k - 1], q[k])

LEMMA RunTrace ==
  ASSUME NEW d, NEW S, NEW q \in Seq(S)
  PROVE  \E r : Runs(r, d, q, Len(q)) /\ Run(d, q) = r[Len(q)]
<1> DEFINE n == Len(q)
           g == CHOOSE h : h = FoldOnce(d, q, n, h)
           r == [k \in 0 .. n |-> g[1 .. k]]
<1>1. n \in Nat /\ DOMAIN q = 1 .. n
  OBVIOUS
<1>2. Run(d, q) = g[1 .. n]
  BY <1>1 DEF Run, FoldLeft, MapThenFoldSet, FoldOnce
<1> HIDE DEF n
<1>3. g = FoldOnce(d, q, n, g)
  <2>1. \E h : h = FoldOnce(d, q, n, h)
    BY <1>1, FoldDefined
  <2>2. QED
    BY <2>1
<1> HIDE DEF g
<1>4. g[{}] = d
  BY <1>3 DEF FoldOnce
<1>5. 1 .. 0 = {}
  OBVIOUS
<1>6. r[0] = d
  BY <1>1, <1>4, <1>5
<1>7. ASSUME NEW k \in 1 .. n
      PROVE  r[k] = Execute(r[k - 1], q[k])
  <2>1. /\ 1 .. k \in SUBSET (1 .. n) /\ 1 .. k # {} /\ k \in 1 .. k /\ k \in Nat
        /\ k \in 0 .. n /\ k - 1 \in 0 .. n
    BY <1>1
  <2>2. Max(1 .. k) = k
    <3>1. Max(1 .. k) \in 1 .. k /\ k <= Max(1 .. k)
      BY <2>1, GreatestOf
    <3>2. QED
      BY <2>1, <3>1
  <2>3. (1 .. k) \ {k} = 1 .. k - 1
    BY <2>1
  <2>4. g[1 .. k] = Execute(g[1 .. k - 1], q[k])
    BY <1>3, <2>1, <2>2, <2>3 DEF FoldOnce
  <2>5. QED
    BY <2>1, <2>4
<1>8. r[n] = g[1 .. n]
  BY <1>1
<1>9. QED
  BY <1>2, <1>6, <1>7, <1>8 DEF Runs, n

LEMMA RunUnique ==
  ASSUME NEW d, NEW q, NEW n \in Nat, NEW r, NEW t, Runs(r, d, q, n), Runs(t, d, q, n),
         NEW k \in 0 .. n
  PROVE  r[k] = t[k]
<1> DEFINE Bad == {m \in 0 .. n : r[m] # t[m]}
<1> SUFFICES ASSUME Bad # {}
             PROVE  FALSE
  OBVIOUS
<1>1. PICK m \in Bad : \A l \in Bad : m <= l
  <2>1. Bad \subseteq Nat
    OBVIOUS
  <2> HIDE DEF Bad
  <2>2. QED
    BY <2>1, LeastOf
<1>2. m \in 0 .. n /\ r[m] # t[m]
  OBVIOUS
<1>3. m # 0
  BY <1>2 DEF Runs
<1>4. m \in 1 .. n /\ m - 1 \in 0 .. n
  BY <1>2, <1>3
<1>5. m - 1 \in Bad => m <= m - 1
  BY <1>1
<1>6. m - 1 \notin Bad
  BY <1>4, <1>5
<1>7. r[m - 1] = t[m - 1]
  BY <1>4, <1>6
<1>8. QED
  BY <1>2, <1>4, <1>7 DEF Runs

LEMMA RunEmpty ==
  ASSUME NEW d
  PROVE  Run(d, << >>) = d
<1>1. << >> \in Seq({}) /\ Len(<< >>) = 0
  OBVIOUS
<1>2. PICK r : Runs(r, d, << >>, Len(<< >>)) /\ Run(d, << >>) = r[Len(<< >>)]
  BY <1>1, RunTrace
<1>3. r[0] = d
  BY <1>2 DEF Runs
<1>4. QED
  BY <1>1, <1>2, <1>3

LEMMA RunAppend ==
  ASSUME NEW d, NEW S, NEW q \in Seq(S), NEW c \in S
  PROVE  Run(d, Append(q, c)) = Execute(Run(d, q), c)
<1> DEFINE n == Len(q)
           b == Append(q, c)
<1>1. /\ n \in Nat /\ b \in Seq(S) /\ Len(b) = n + 1 /\ b[n + 1] = c
      /\ \A k \in 1 .. n : b[k] = q[k]
  OBVIOUS
<1>2. PICK r : Runs(r, d, q, n) /\ Run(d, q) = r[n]
  BY RunTrace
<1>3. PICK t : Runs(t, d, b, Len(b)) /\ Run(d, b) = t[Len(b)]
  BY <1>1, RunTrace
<1> HIDE DEF b, n
<1>4. /\ \A k \in 1 .. n : k \in 1 .. n + 1
      /\ n + 1 \in 1 .. n + 1 /\ (n + 1) - 1 = n /\ n \in 0 .. n
  BY <1>1
<1>5. Runs(t, d, q, n)
  BY <1>1, <1>3, <1>4 DEF Runs
<1>6. t[n] = r[n]
  BY <1>1, <1>2, <1>4, <1>5, RunUnique
<1>7. Run(d, b) = Execute(t[n], c)
  BY <1>1, <1>3, <1>4 DEF Runs
<1>8. QED
  BY <1>2, <1>6, <1>7 DEF b

LEMMA RunHead ==
  ASSUME NEW d, NEW S, NEW q \in Seq(S), q # << >>
  PROVE  Run(d, q) = Run(Execute(d, Head(q)), Tail(q))
<1> DEFINE n == Len(q)
           b == Tail(q)
           e == Execute(d, q[1])
<1>1. /\ n \in Nat \ {0} /\ b \in Seq(S) /\ Len(b) = n - 1 /\ Head(q) = q[1]
      /\ \A k \in 1 .. n - 1 : b[k] = q[k + 1]
  OBVIOUS
<1>2. PICK r : Runs(r, d, q, n) /\ Run(d, q) = r[n]
  BY RunTrace
<1>3. PICK t : Runs(t, e, b, Len(b)) /\ Run(e, b) = t[Len(b)]
  BY <1>1, RunTrace
<1> HIDE DEF b, n
<1> DEFINE u == [k \in 0 .. n - 1 |-> r[k + 1]]
<1>4. u[0] = e
  <2>1. 0 \in 0 .. n - 1 /\ 1 \in 1 .. n /\ 0 + 1 = 1 /\ 1 - 1 = 0
    BY <1>1
  <2>2. r[1] = Execute(r[0], q[1]) /\ r[0] = d
    BY <1>2, <2>1 DEF Runs
  <2>3. QED
    BY <2>1, <2>2
<1>5. ASSUME NEW k \in 1 .. n - 1
      PROVE  u[k] = Execute(u[k - 1], b[k])
  <2>1. /\ k \in 0 .. n - 1 /\ k - 1 \in 0 .. n - 1 /\ (k - 1) + 1 = k
        /\ k + 1 \in 1 .. n /\ (k + 1) - 1 = k
    BY <1>1
  <2>2. r[k + 1] = Execute(r[k], q[k + 1])
    BY <1>2, <2>1 DEF Runs
  <2>3. QED
    BY <1>1, <2>1, <2>2
<1>6. Runs(u, e, b, n - 1)
  BY <1>4, <1>5 DEF Runs
<1>7. n - 1 \in Nat /\ n - 1 \in 0 .. n - 1 /\ (n - 1) + 1 = n
  BY <1>1
<1>8. u[n - 1] = r[n]
  BY <1>7
<1> HIDE DEF u, e
<1>9. u[n - 1] = t[n - 1]
  BY <1>1, <1>3, <1>6, <1>7, RunUnique
<1>10. QED
  BY <1>1, <1>2, <1>3, <1>8, <1>9 DEF b, e

LEMMA ExecuteType ==
  ASSUME NEW d \in Data, NEW c \in Command
  PROVE  Execute(d, c) \in Data
<1>1. CASE c.op = "set"
  <2>1. c.key \in Key /\ c.value \in Value
    BY <1>1 DEF Command
  <2>2. QED
    BY <1>1, <2>1 DEF Execute, Data
<1>2. CASE c.op = "del"
  BY <1>2 DEF Execute, Data, Command
<1>3. CASE c.op = "get"
  BY <1>3 DEF Execute
<1>4. QED
  BY <1>1, <1>2, <1>3 DEF Command

LEMMA RunType ==
  ASSUME NEW d \in Data, NEW q \in Seq(Command)
  PROVE  Run(d, q) \in Data
<1> DEFINE n == Len(q)
<1>1. PICK r : Runs(r, d, q, n) /\ Run(d, q) = r[n]
  BY RunTrace
<1>2. n \in Nat /\ \A k \in 1 .. n : q[k] \in Command
  OBVIOUS
<1> HIDE DEF n
<1> DEFINE Bad == {k \in 0 .. n : r[k] \notin Data}
<1>3. Bad = {}
  <2> SUFFICES ASSUME Bad # {}
               PROVE  FALSE
    OBVIOUS
  <2>1. PICK m \in Bad : \A l \in Bad : m <= l
    <3>1. Bad \subseteq Nat
      OBVIOUS
    <3> HIDE DEF Bad
    <3>2. QED
      BY <3>1, LeastOf
  <2>2. m \in 0 .. n /\ r[m] \notin Data
    OBVIOUS
  <2>3. m # 0
    BY <1>1, <2>2 DEF Runs
  <2>4. m \in 1 .. n /\ m - 1 \in 0 .. n
    BY <1>2, <2>2, <2>3
  <2>5. m - 1 \in Bad => m <= m - 1
    BY <2>1
  <2>6. r[m - 1] \in Data
    BY <2>4, <2>5
  <2>7. r[m] = Execute(r[m - 1], q[m])
    BY <1>1, <2>4 DEF Runs
  <2>8. QED
    BY <1>2, <2>2, <2>4, <2>6, <2>7, ExecuteType
<1>4. n \in 0 .. n
  BY <1>2
<1>5. QED
  BY <1>1, <1>3, <1>4

(* What the execution of a command changes.                                  *)
LEMMA ExecuteCells ==
  ASSUME NEW d \in Data, NEW f \in Data, NEW c \in Command, NEW k \in Key
  PROVE  /\ k # c.key => Execute(d, c)[k] = d[k]
         /\ ~NeedPF(c) => Execute(d, c) = d
         /\ NeedPF(c) => Execute(d, c)[c.key] = Execute(f, c)[c.key]
<1>1. c.key \in Key
  BY DEF Command
<1>2. CASE c.op = "set"
  BY <1>1, <1>2 DEF Execute, Data, NeedPF
<1>3. CASE c.op = "del"
  BY <1>1, <1>3 DEF Execute, Data, NeedPF
<1>4. CASE c.op = "get"
  BY <1>1, <1>4 DEF Execute, Data, NeedPF
<1>5. QED
  BY <1>2, <1>3, <1>4 DEF Command

-----------------------------------------------------------------------------
(* The data of the storage servers. *)

(* The entries a storage server has not executed are committed ones.         *)
OnTheWay ==
  \A s \in Server :
    /\ outputBuf[s] \in Seq(1 .. commitIndex)
    /\ toServer[s] \in Seq(1 .. commitIndex)

(* A connection to a server that was killed has ended, as the node will read. *)
DownKnown == \A s \in connected : ~serverUp[s] => Ended(s)

DataInv == DataTypeOK /\ OnTheWay /\ RestartRestores

LEMMA HeadTailType ==
  ASSUME NEW S, NEW q \in Seq(S), q # << >>
  PROVE  Head(q) \in S /\ Tail(q) \in Seq(S)
OBVIOUS

LEMMA SeqWidens ==
  ASSUME NEW a \in Nat, NEW b \in Nat, a <= b, NEW q \in Seq(1 .. a)
  PROVE  q \in Seq(1 .. b)
<1>1. 1 .. a \subseteq 1 .. b
  OBVIOUS
<1>2. QED
  BY <1>1, SeqMonotonic

LEMMA OnTheWayStep ==
  ASSUME Types, OnTheWay, [Next]_vars
  PROVE  OnTheWay'
<1> DEFINE S == 1 .. commitIndex
<1>1. /\ commitIndex \in Nat /\ commitIndex' \in Nat /\ commitIndex <= commitIndex'
  BY LogStep DEF Types, NodeTypeOK
<1>2. /\ outputBuf \in [Server -> Seq(S)] /\ toServer \in [Server -> Seq(S)]
  BY DEF Types, PipeTypeOK, Carry, OnTheWay
<1>3. << >> \in Seq(S)
  OBVIOUS
<1>4. /\ outputBuf' \in [Server -> Seq(S)] /\ toServer' \in [Server -> Seq(S)]
  <2>1. CASE CronFlush
    <3>1. UNCHANGED toServer
      BY <2>1 DEF CronFlush
    <3>2. CASE lastApplied < commitIndex
      <4>1. lastApplied + 1 \in S
        BY <3>2 DEF Types, NodeTypeOK
      <4>2. \E s : outputBuf' = [outputBuf EXCEPT ![s] = Append(@, lastApplied + 1)]
        BY <2>1, <3>2 DEF CronFlush, FlushNext
      <4>3. \A s \in Server : Append(outputBuf[s], lastApplied + 1) \in Seq(S)
        BY <1>2, <4>1
      <4>4. QED
        BY <1>2, <3>1, <4>2, <4>3
    <3>3. CASE ~(lastApplied < commitIndex)
      BY <1>2, <2>1, <3>1, <3>3 DEF CronFlush, FlushNext
    <3>4. QED
      BY <3>2, <3>3
  <2>2. ASSUME NEW s \in Server, WriteToServer(s)
        PROVE  /\ outputBuf' \in [Server -> Seq(S)] /\ toServer' \in [Server -> Seq(S)]
    <3>1. toServer[s] \o outputBuf[s] \in Seq(S)
      BY <1>2
    <3>2. QED
      BY <1>2, <1>3, <2>2, <3>1 DEF WriteToServer
  <2>3. ASSUME NEW s \in Server,
               \/ DeleteChildren(s) \/ ServerDropsNode(s) \/ ServerCrash(s)
        PROVE  /\ outputBuf' \in [Server -> Seq(S)] /\ toServer' \in [Server -> Seq(S)]
    <3>1. CASE DeleteChildren(s)
      BY <1>2, <1>3, <3>1 DEF DeleteChildren
    <3>2. CASE ServerDropsNode(s)
      BY <1>2, <1>3, <3>2 DEF ServerDropsNode
    <3>3. CASE ServerCrash(s)
      BY <1>2, <1>3, <3>3 DEF ServerCrash
    <3>4. QED
      BY <2>3, <3>1, <3>2, <3>3
  <2>4. ASSUME NEW s \in Server, ServerAnswers(s)
        PROVE  /\ outputBuf' \in [Server -> Seq(S)] /\ toServer' \in [Server -> Seq(S)]
    <3>1. toServer[s] # << >> /\ toServer[s] \in Seq(S)
      BY <1>2, <2>4 DEF ServerAnswers
    <3>2. Tail(toServer[s]) \in Seq(S)
      BY <3>1, HeadTailType
    <3>3. QED
      BY <1>2, <2>4, <3>2 DEF ServerAnswers
  <2>5. CASE UNCHANGED <<outputBuf, toServer>>
    BY <1>2, <2>5
  <2>6. QED
    BY <2>1, <2>2, <2>3, <2>4, <2>5
       DEF Next, NodeStep, CronReconnect, EpollWait, ReadFromServer, DeleteParents,
       AppendCommand, TurnAway, Accept, ToFollow, Commit, Replicate,
       ServerRestart, ClientSends, ClientReceives, ClientQuits, vars, childVars
<1> HIDE DEF S
<1>5. \A q \in Seq(S) : q \in Seq(1 .. commitIndex')
  BY <1>1, SeqWidens DEF S
<1>6. QED
  BY <1>4, <1>5 DEF OnTheWay

(* The command a server executes next.                                       *)
LEMMA NextCommand ==
  ASSUME Types, OnTheWay, NEW s \in Server, toServer[s] # << >>
  PROVE  log[Head(toServer[s])] \in Command
<1>1. Head(toServer[s]) \in 1 .. commitIndex
  BY HeadTailType DEF OnTheWay
<1>2. Head(toServer[s]) \in 1 .. Len(log) /\ log \in Seq(Command)
  BY <1>1 DEF Types, NodeTypeOK
<1>3. QED
  BY <1>2

LEMMA DataStep ==
  ASSUME Types, DataInv, [Next]_vars
  PROVE  DataInv'
<1> USE DEF DataInv, DataTypeOK
<1>1. EmptyDataBase \in Data
  BY DEF EmptyDataBase, Data
<1>2. OnTheWay'
  BY OnTheWayStep
<1>3. ASSUME NEW s \in Server, ServerAnswers(s) \/ ServerDropsNode(s)
      PROVE  DataTypeOK' /\ RestartRestores'
  <2> DEFINE c == log[Head(toServer[s])]
  <2>1. toServer[s] # << >>
    <3>1. CASE ServerAnswers(s)
      BY <3>1 DEF ServerAnswers
    <3>2. CASE ServerDropsNode(s)
      BY <3>2 DEF ServerDropsNode, OnTheWay
    <3>3. QED
      BY <1>3, <3>1, <3>2
  <2>2. c \in Command
    BY <2>1, NextCommand
  <2>3. ServerExecutes(s, c) /\ serverUp[s]
    BY <1>3 DEF ServerAnswers, ServerDropsNode
  <2> HIDE DEF c
  <2>4. /\ Execute(db[s], c) \in Data /\ pf[s] \in Seq(Command)
        /\ Append(pf[s], c) \in Seq(Command)
    BY <2>2, ExecuteType
  <2>5. /\ serverUp' = serverUp
        /\ db' = [db EXCEPT ![s] = Execute(db[s], c)]
        /\ pf' = [pf EXCEPT ![s] = IF Persistent[s] /\ NeedPF(c)
                                   THEN Append(pf[s], c) ELSE pf[s]]
    BY <2>3 DEF ServerExecutes
  <2>6. DataTypeOK'
    BY <2>4, <2>5
  <2>7. ASSUME Persistent[s]
        PROVE  db'[s] = Replay(pf'[s])
    <3>1. db[s] = Run(EmptyDataBase, pf[s])
      BY <2>3, <2>7 DEF RestartRestores, Replay, Run
    <3>2. CASE NeedPF(c)
      <4>1. db'[s] = Execute(db[s], c) /\ pf'[s] = Append(pf[s], c)
        BY <2>5, <2>7, <3>2
      <4>2. Run(EmptyDataBase, Append(pf[s], c)) = Execute(db[s], c)
        BY <2>2, <2>4, <3>1, RunAppend
      <4>3. QED
        BY <4>1, <4>2 DEF Replay, Run
    <3>3. CASE ~NeedPF(c)
      <4>1. Execute(db[s], c) = db[s]
        <5>1. c.key \in Key /\ db[s] \in Data
          BY <2>2 DEF Command
        <5>2. QED
          BY <2>2, <3>3, <5>1, ExecuteCells
      <4>2. db'[s] = db[s] /\ pf'[s] = pf[s]
        BY <2>5, <3>3, <4>1
      <4>3. QED
        BY <3>1, <4>2 DEF Replay, Run
    <3>4. QED
      BY <3>2, <3>3
  <2>8. RestartRestores'
    <3> SUFFICES ASSUME NEW t \in Server, Persistent[t], serverUp'[t]
                 PROVE  db'[t] = Replay(pf'[t])
      BY DEF RestartRestores
    <3>1. CASE t = s
      BY <2>7, <3>1
    <3>2. CASE t # s
      BY <2>5, <3>2 DEF RestartRestores
    <3>3. QED
      BY <3>1, <3>2
  <2>9. QED
    BY <2>6, <2>8
<1>4. ASSUME NEW s \in Server, ServerCrash(s)
      PROVE  DataTypeOK' /\ RestartRestores'
  <2>1. pf' \in [Server -> Seq(Command)] /\ \A t \in Server \ {s} : pf'[t] = pf[t]
    <3>1. CASE UNCHANGED pf
      BY <3>1
    <3>2. CASE /\ toServer[s] # << >>
               /\ pf' = [pf EXCEPT ![s] = Append(@, log[Head(toServer[s])])]
      <4>1. log[Head(toServer[s])] \in Command
        BY <3>2, NextCommand
      <4>2. Append(pf[s], log[Head(toServer[s])]) \in Seq(Command)
        BY <4>1
      <4>3. QED
        BY <3>2, <4>2
    <3>3. QED
      BY <1>4, <3>1, <3>2 DEF ServerCrash
  <2>2. /\ serverUp' = [serverUp EXCEPT ![s] = FALSE]
        /\ db' = [db EXCEPT ![s] = EmptyDataBase]
    BY <1>4 DEF ServerCrash
  <2>3. QED
    BY <1>1, <2>1, <2>2 DEF RestartRestores
<1>5. ASSUME NEW s \in Server, ServerRestart(s)
      PROVE  DataTypeOK' /\ RestartRestores'
  <2>1. /\ serverUp' = [serverUp EXCEPT ![s] = TRUE]
        /\ db' = [db EXCEPT ![s] = ImportPF(s)] /\ pf' = pf
    BY <1>5 DEF ServerRestart
  <2>2. Replay(pf[s]) \in Data
    BY <1>1, RunType DEF Replay, Run
  <2>3. ImportPF(s) \in Data /\ (Persistent[s] => ImportPF(s) = Replay(pf[s]))
    BY <1>1, <2>2 DEF ImportPF
  <2>4. QED
    BY <2>1, <2>3 DEF RestartRestores
<1>6. CASE UNCHANGED serverVars
  <2>1. DataTypeOK' /\ RestartRestores'
    BY <1>6 DEF RestartRestores, serverVars
  <2>2. QED
    BY <1>2, <2>1
<1>7. \/ UNCHANGED serverVars
      \/ \E s \in Server : \/ ServerAnswers(s) \/ ServerDropsNode(s)
                           \/ ServerCrash(s) \/ ServerRestart(s)
  BY DEF Next, NodeStep, CronReconnect, CronFlush, EpollWait, WriteToServer,
     DeleteChildren, ReadFromServer, DeleteParents, AppendCommand, TurnAway,
     Accept, ToFollow, Commit, Replicate, ClientSends, ClientReceives,
     ClientQuits, vars
<1>8. QED
  BY <1>2, <1>3, <1>4, <1>5, <1>6, <1>7

-----------------------------------------------------------------------------
(* What a storage server will hold. *)

(* The server of a key while all servers are connected.                      *)
Home(k) ==
  LET above == {s \in Server : Hash[k] <= Position(s)}
  IN  Min(IF above = {} THEN Server ELSE above)

FlushedSoFar ==
  \A s \in connected : ~Ended(s) =>
    \A n \in 1 .. lastApplied :
      NeedPF(log[n]) /\ Home(log[n].key) = s =>
        Flushed(s)[log[n].key] = Replay(Applied)[log[n].key]

(* The commands in entries q of log l.                                       *)
Commands(l, q) == [n \in DOMAIN q |-> l[q[n]]]

LEMMA FlushedIs ==
  \A s \in Server : Flushed(s) = Run(db[s], Commands(log, toServer[s] \o outputBuf[s]))
BY DEF Flushed, Run, Commands

LEMMA CommandsType ==
  ASSUME NEW l \in Seq(Command), NEW m \in 0 .. Len(l), NEW q \in Seq(1 .. m)
  PROVE  /\ Commands(l, q) \in Seq(Command) /\ Len(Commands(l, q)) = Len(q)
         /\ \A n \in 1 .. Len(q) : q[n] \in 1 .. m /\ Commands(l, q)[n] = l[q[n]]
<1>1. /\ Len(q) \in Nat /\ DOMAIN q = 1 .. Len(q) /\ Len(l) \in Nat
      /\ \A n \in 1 .. Len(q) : q[n] \in 1 .. m
  BY ElementOfSeq
<1>2. \A n \in 1 .. Len(q) : l[q[n]] \in Command
  BY <1>1
<1>3. Commands(l, q) \in [1 .. Len(q) -> Command]
  BY <1>1, <1>2 DEF Commands
<1>4. QED
  BY <1>1, <1>3 DEF Commands

LEMMA CommandsSame ==
  ASSUME NEW l, NEW k, NEW m \in Nat, NEW q \in Seq(1 .. m),
         \A n \in 1 .. m : l[n] = k[n]
  PROVE  Commands(l, q) = Commands(k, q)
<1>1. \A n \in DOMAIN q : q[n] \in 1 .. m
  BY ElementOfSeq
<1>2. QED
  BY <1>1 DEF Commands

LEMMA CommandsAppend ==
  ASSUME NEW l \in Seq(Command), NEW q \in Seq(1 .. Len(l)), NEW n \in 1 .. Len(l)
  PROVE  Commands(l, Append(q, n)) = Append(Commands(l, q), l[n])
<1> DEFINE b == Append(q, n)
           c == Commands(l, q)
<1>1. /\ Len(q) \in Nat /\ DOMAIN b = 1 .. Len(q) + 1 /\ b[Len(q) + 1] = n
      /\ \A k \in 1 .. Len(q) : b[k] = q[k]
  OBVIOUS
<1>2. c \in Seq(Command) /\ Len(c) = Len(q) /\ \A k \in 1 .. Len(q) : c[k] = l[q[k]]
  <2>1. Len(l) \in 0 .. Len(l)
    OBVIOUS
  <2>2. QED
    BY <2>1, CommandsType
<1>3. l[n] \in Command
  OBVIOUS
<1> HIDE DEF b, c
<1>4. /\ DOMAIN Append(c, l[n]) = 1 .. Len(q) + 1
      /\ Append(c, l[n])[Len(q) + 1] = l[n]
      /\ \A k \in 1 .. Len(q) : Append(c, l[n])[k] = c[k]
  BY <1>1, <1>2, <1>3
<1>5. Append(c, l[n]) = [k \in 1 .. Len(q) + 1 |-> Append(c, l[n])[k]]
  <2>1. Append(c, l[n]) \in Seq(Command)
    BY <1>2, <1>3
  <2>2. QED
    BY <1>4, <2>1
<1>6. ASSUME NEW k \in 1 .. Len(q) + 1
      PROVE  l[b[k]] = Append(c, l[n])[k]
  <2>1. k \in 1 .. Len(q) \/ k = Len(q) + 1
    BY <1>1
  <2>2. QED
    BY <1>1, <1>2, <1>4, <2>1
<1>7. Commands(l, b) = Append(c, l[n])
  BY <1>1, <1>5, <1>6 DEF Commands
<1>8. QED
  BY <1>7 DEF b, c

(* A server executes the next entry.                                         *)
LEMMA CommandsHead ==
  ASSUME NEW l \in Seq(Command), NEW q \in Seq(1 .. Len(l)), q # << >>, NEW d
  PROVE  Run(d, Commands(l, q)) = Run(Execute(d, l[Head(q)]), Commands(l, Tail(q)))
<1> DEFINE c == Commands(l, q)
           t == Tail(q)
<1>1. /\ Len(q) \in Nat \ {0} /\ Head(q) = q[1] /\ 1 \in 1 .. Len(q)
      /\ DOMAIN t = 1 .. Len(q) - 1
      /\ \A k \in 1 .. Len(q) - 1 : t[k] = q[k + 1]
  OBVIOUS
<1>2. c \in Seq(Command) /\ Len(c) = Len(q) /\ \A k \in 1 .. Len(q) : c[k] = l[q[k]]
  <2>1. Len(l) \in 0 .. Len(l)
    OBVIOUS
  <2>2. QED
    BY <2>1, CommandsType
<1> HIDE DEF c, t
<1>3. c # << >> /\ Head(c) = c[1] /\ DOMAIN Tail(c) = 1 .. Len(q) - 1
      /\ Tail(c) \in Seq(Command)
      /\ \A k \in 1 .. Len(q) - 1 : Tail(c)[k] = c[k + 1]
  BY <1>1, <1>2
<1>4. Tail(c) = Commands(l, t)
  <2>1. Tail(c) = [k \in 1 .. Len(q) - 1 |-> Tail(c)[k]]
    <3>1. \A b \in Seq(Command) : b = [k \in DOMAIN b |-> b[k]]
      OBVIOUS
    <3>2. QED
      BY <1>3, <3>1
  <2>2. ASSUME NEW k \in 1 .. Len(q) - 1
        PROVE  Tail(c)[k] = l[t[k]]
    <3>1. k + 1 \in 1 .. Len(q)
      BY <1>1
    <3>2. QED
      BY <1>1, <1>2, <1>3, <3>1
  <2>3. QED
    BY <1>1, <2>1, <2>2 DEF Commands
<1>5. Head(c) = l[Head(q)]
  BY <1>1, <1>2, <1>3
<1>6. Run(d, c) = Run(Execute(d, Head(c)), Tail(c))
  BY <1>2, <1>3, RunHead
<1>7. QED
  BY <1>4, <1>5, <1>6 DEF c, t

LEMMA HomeIsServer == \A k \in Key : Home(k) \in Server
<1> SUFFICES ASSUME NEW k \in Key
             PROVE  Home(k) \in Server
  OBVIOUS
<1> DEFINE above == {s \in Server : Hash[k] <= Position(s)}
           among == IF above = {} THEN Server ELSE above
<1>1. among \subseteq Server /\ among \subseteq Nat /\ among # {}
  <2>1. 1 \in Server /\ Server \subseteq Nat
    BY ServingAssumption DEF Server
  <2>2. above \subseteq Server
    OBVIOUS
  <2> HIDE DEF above
  <2>3. CASE above = {}
    BY <2>1, <2>3
  <2>4. CASE above # {}
    BY <2>1, <2>2, <2>4
  <2>5. QED
    BY <2>3, <2>4
<1>2. Home(k) = Min(among)
  BY DEF Home
<1> HIDE DEF among
<1>3. \E x \in among : \A y \in among : x <= y
  BY <1>1, LeastOf
<1>4. Min(among) \in among
  BY <1>3 DEF Min
<1>5. QED
  BY <1>1, <1>2, <1>4

LEMMA HomeResponds ==
  ASSUME WorkingBaseline, NEW k
  PROVE  RespondServer(k) = Home(k)
BY DEF WorkingBaseline, RespondServer, Home

EndsIn(q) == \E n \in DOMAIN q : q[n] = Closed

LEMMA EndsAppend ==
  ASSUME NEW S, NEW q \in Seq(S), NEW e \in S
  PROVE  EndsIn(Append(q, e)) <=> (e = Closed \/ EndsIn(q))
<1> DEFINE b == Append(q, e)
<1>1. /\ Len(q) \in Nat /\ DOMAIN q = 1 .. Len(q) /\ DOMAIN b = 1 .. Len(q) + 1
      /\ b[Len(q) + 1] = e
      /\ \A n \in 1 .. Len(q) : b[n] = q[n]
  OBVIOUS
<1> HIDE DEF b
<1>2. /\ Len(q) + 1 \in 1 .. Len(q) + 1
      /\ \A n \in 1 .. Len(q) + 1 : n = Len(q) + 1 \/ n \in 1 .. Len(q)
      /\ \A n \in 1 .. Len(q) : n \in 1 .. Len(q) + 1
  BY <1>1
<1>3. EndsIn(b) <=> (e = Closed \/ EndsIn(q))
  BY <1>1, <1>2, Zenon DEF EndsIn
<1>4. QED
  BY <1>3 DEF b

(* The end of a connection stays in the queue until the server is deleted.   *)
LEMMA EndedKept ==
  ASSUME Types, [Next]_vars, ~CronReconnect, NEW s \in Server, s \in connected', Ended(s)
  PROVE  Ended(s)' /\ s \in connected
<1> DEFINE q == fromServer[s]
           S == 0 .. commitIndex
<1>1. /\ q \in Seq(S) /\ Closed \in S /\ fromServer \in [Server -> Seq(S)]
      /\ toServer \in [Server -> Seq(S)]
  BY DEF Types, PipeTypeOK, Carry, NodeTypeOK, Closed
<1>2. EndsIn(q)
  BY DEF Ended, EndsIn
<1> HIDE DEF S
<1>3. \A e \in S : EndsIn(Append(fromServer[s], e))
  BY <1>1, <1>2, EndsAppend
<1>4. s \in connected
  BY DEF Next, NodeStep, CronFlush, EpollWait, WriteToServer,
     DeleteChildren, ReadFromServer, DeleteParents, AppendCommand, TurnAway,
     Accept, ToFollow, Commit, Replicate, ServerAnswers, ServerDropsNode,
     ServerCrash, ServerRestart, ClientSends, ClientReceives, ClientQuits, vars,
     childVars
<1>5. ASSUME NEW t \in Server, DeleteChildren(t)
      PROVE  Ended(s)'
  <2>1. t # s /\ fromServer' = [fromServer EXCEPT ![t] = << >>]
    BY <1>5 DEF DeleteChildren
  <2>2. QED
    BY <1>1, <1>2, <2>1 DEF Ended, EndsIn
<1>6. ASSUME NEW t \in Server, ReadFromServer(t)
      PROVE  Ended(s)'
  <2>1. PICK n \in 1 .. Len(fromServer[t]) :
          /\ \A k \in 1 .. n : fromServer[t][k] # Closed
          /\ fromServer' = [fromServer EXCEPT ![t] = SubSeq(@, n + 1, Len(@))]
    BY <1>6 DEF ReadFromServer
  <2>2. CASE t # s
    BY <1>1, <1>2, <2>1, <2>2 DEF Ended, EndsIn
  <2>3. CASE t = s
    <3> DEFINE r == SubSeq(q, n + 1, Len(q))
    <3>1. fromServer'[s] = r
      BY <1>1, <2>1, <2>3
    <3>2. PICK m \in DOMAIN q : q[m] = Closed
      BY <1>2 DEF EndsIn
    <3>3. m \in 1 .. Len(q) /\ Len(q) \in Nat /\ n \in 1 .. Len(q)
      BY <1>1, <2>1, <2>3
    <3>4. ~(m <= n)
      BY <2>1, <2>3, <3>2, <3>3
    <3>5. m - n \in DOMAIN r /\ r[m - n] = q[m]
      BY <1>1, <3>3, <3>4
    <3>6. QED
      BY <3>1, <3>2, <3>5 DEF Ended, EndsIn
  <2>4. QED
    BY <2>2, <2>3
<1>7. ASSUME NEW t \in Server, ServerAnswers(t) \/ ServerDropsNode(t)
      PROVE  Ended(s)'
  <2>1. PICK e \in S : fromServer' = [fromServer EXCEPT ![t] = Append(@, e)]
    <3>1. CASE ServerAnswers(t)
      <4>1. Head(toServer[t]) \in S
        BY <1>1, <3>1, HeadTailType DEF ServerAnswers
      <4>2. QED
        BY <3>1, <4>1 DEF ServerAnswers
    <3>2. CASE ServerDropsNode(t)
      BY <1>1, <3>2 DEF ServerDropsNode
    <3>3. QED
      BY <1>7, <3>1, <3>2
  <2>2. CASE t # s
    BY <1>1, <1>2, <2>1, <2>2 DEF Ended, EndsIn
  <2>3. CASE t = s
    BY <1>1, <1>3, <2>1, <2>3 DEF Ended, EndsIn
  <2>4. QED
    BY <2>2, <2>3
<1>8. ASSUME NEW t \in Server, ServerCrash(t)
      PROVE  Ended(s)'
  <2>1. fromServer'[s] = fromServer[s]
    <3>1. CASE t = s
      BY <1>1, <1>8, <3>1 DEF ServerCrash
    <3>2. CASE t # s
      BY <1>1, <1>8, <3>2 DEF ServerCrash
    <3>3. QED
      BY <3>1, <3>2
  <2>2. QED
    BY <1>2, <2>1 DEF Ended, EndsIn
<1>9. ASSUME UNCHANGED fromServer
      PROVE  Ended(s)'
  BY <1>2, <1>9 DEF Ended, EndsIn
<1>10. \/ UNCHANGED fromServer
       \/ \E t \in Server :
            \/ DeleteChildren(t) \/ ReadFromServer(t) \/ ServerAnswers(t)
            \/ ServerDropsNode(t) \/ ServerCrash(t)
  BY DEF Next, NodeStep, CronFlush, EpollWait, WriteToServer, DeleteParents,
     AppendCommand, TurnAway, Accept, ToFollow, Commit, Replicate, ServerRestart,
     ClientSends, ClientReceives, ClientQuits, vars, childVars
<1>11. Ended(s)'
  BY <1>5, <1>6, <1>7, <1>8, <1>9, <1>10
<1>12. QED
  BY <1>4, <1>11

(* A server that is killed, or drops the node, ends a connection that stands. *)
LEMMA CrashEnds ==
  ASSUME Types, NEW s \in Server, ServerDropsNode(s) \/ (ServerCrash(s) /\ s \in connected)
  PROVE  Ended(s)'
<1> DEFINE S == 0 .. commitIndex
<1>1. fromServer \in [Server -> Seq(S)] /\ Closed \in S
  BY DEF Types, PipeTypeOK, Carry, NodeTypeOK, Closed
<1> HIDE DEF S
<1>2. CASE ServerDropsNode(s)
  <2>1. fromServer'[s] = Append(fromServer[s], Closed)
    BY <1>1, <1>2 DEF ServerDropsNode
  <2>2. QED
    BY <1>1, <2>1, EndsAppend DEF Ended, EndsIn
<1>3. CASE ServerCrash(s) /\ s \in connected
  <2>1. CASE Ended(s)
    <3>1. fromServer'[s] = fromServer[s]
      BY <1>1, <1>3, <2>1 DEF ServerCrash
    <3>2. QED
      BY <2>1, <3>1 DEF Ended, EndsIn
  <2>2. CASE ~Ended(s)
    <3>1. PICK kept \in 0 .. Len(fromServer[s]) :
            fromServer'[s] = Append(SubSeq(fromServer[s], 1, kept), Closed)
      BY <1>1, <1>3, <2>2 DEF ServerCrash
    <3>2. SubSeq(fromServer[s], 1, kept) \in Seq(S)
      BY <1>1
    <3> DEFINE a == SubSeq(fromServer[s], 1, kept)
    <3> HIDE DEF a
    <3>3. EndsIn(Append(a, Closed))
      <4>1. a \in Seq(S) /\ Closed \in S
        BY <1>1, <3>2 DEF a
      <4>2. QED
        BY <4>1, EndsAppend
    <3>4. QED
      BY <3>1, <3>3 DEF Ended, EndsIn, a
  <2>3. QED
    BY <2>1, <2>2
<1>4. QED
  BY <1>2, <1>3

LEMMA DownStep ==
  ASSUME Types, DataTypeOK, DownKnown, [Next]_vars
  PROVE  DownKnown'
<1> SUFFICES ASSUME NEW s \in Server, s \in connected', ~serverUp'[s]
             PROVE  Ended(s)'
  BY NodeTypes DEF DownKnown, NodeTypeOK
<1>1. CASE CronReconnect
  <2>1. /\ fromServer' = [t \in Server |->
             CASE t \in connected -> fromServer[t]
               [] t \notin connected /\ serverUp[t] -> << >>
               [] OTHER -> <<Closed>>]
        /\ serverUp' = serverUp
    BY <1>1 DEF CronReconnect, serverVars
  <2>2. CASE s \in connected
    <3>1. fromServer'[s] = fromServer[s] /\ Ended(s)
      BY <2>1, <2>2 DEF DownKnown
    <3>2. QED
      BY <3>1 DEF Ended, EndsIn
  <2>3. CASE s \notin connected
    <3>1. fromServer'[s] = <<Closed>>
      BY <2>1, <2>3
    <3>2. 1 \in DOMAIN <<Closed>> /\ <<Closed>>[1] = Closed
      OBVIOUS
    <3>3. QED
      BY <3>1, <3>2 DEF Ended, EndsIn
  <2>4. QED
    BY <2>2, <2>3
<1>2. CASE ServerCrash(s)
  <2>1. s \in connected
    BY <1>2 DEF ServerCrash
  <2>2. QED
    BY <1>2, <2>1, CrashEnds
<1>3. CASE ~CronReconnect /\ ~ServerCrash(s)
  <2>1. s \in connected
    BY <1>3 DEF Next, NodeStep, CronFlush, EpollWait, WriteToServer,
       DeleteChildren, ReadFromServer, DeleteParents, AppendCommand, TurnAway,
       Accept, ToFollow, Commit, Replicate, ServerAnswers, ServerDropsNode,
       ServerCrash, ServerRestart, ClientSends, ClientReceives, ClientQuits, vars,
       childVars
  <2>2. ~serverUp[s]
    <3>1. ASSUME NEW t \in Server, t # s, ServerCrash(t)
          PROVE  serverUp'[s] = serverUp[s]
      BY <3>1 DEF ServerCrash, DataTypeOK
    <3>2. ASSUME NEW t \in Server, ServerRestart(t)
          PROVE  ~serverUp[s]
      BY <3>2 DEF ServerRestart, DataTypeOK
    <3>3. \/ UNCHANGED serverUp
          \/ \E t \in Server : ServerCrash(t) \/ ServerRestart(t)
      BY <1>3 DEF Next, NodeStep, CronFlush, EpollWait, WriteToServer,
         DeleteChildren, ReadFromServer, DeleteParents, AppendCommand, TurnAway,
         Accept, ToFollow, Commit, Replicate, ServerAnswers, ServerDropsNode,
         ServerExecutes, ClientSends, ClientReceives, ClientQuits, vars, serverVars
    <3>4. QED
      BY <1>3, <3>1, <3>2, <3>3
  <2>3. Ended(s)
    BY <2>1, <2>2 DEF DownKnown
  <2>4. QED
    BY <1>3, <2>3, EndedKept
<1>4. QED
  BY <1>1, <1>2, <1>3

LEMMA ConcatAppend ==
  ASSUME NEW S, NEW a \in Seq(S), NEW b \in Seq(S), NEW e \in S
  PROVE  a \o b \in Seq(S) /\ a \o Append(b, e) = Append(a \o b, e)
OBVIOUS

(* What a server will hold, of the next state.                               *)
LEMMA FlushedAfter ==
  \A s \in Server :
    Flushed(s)' = Run(db'[s], Commands(log', toServer'[s] \o outputBuf'[s]))
BY DEF Flushed, Run, Commands

LEMMA FlushStep ==
  ASSUME Types, DataInv, FlushedSoFar, CronFlush
  PROVE  FlushedSoFar'
<1> DEFINE m == lastApplied + 1
           c == log[m]
<1>1. /\ WorkingBaseline /\ FlushNext /\ lastApplied' = AppliedNext
      /\ UNCHANGED <<log, connected, toServer, fromServer, serverVars>>
  BY DEF CronFlush
<1>2. /\ log \in Seq(Command) /\ Len(log) \in Nat /\ commitIndex \in 0 .. Len(log)
      /\ lastApplied \in 0 .. commitIndex /\ lastApplied \in Nat /\ commitIndex \in Nat
      /\ outputBuf \in [Server -> Seq(0 .. commitIndex)]
  BY DEF Types, NodeTypeOK, PipeTypeOK, Carry
<1>3. CASE ~(lastApplied < commitIndex)
  <2>1. lastApplied' = lastApplied
    <3>1. lastApplied' = IF lastApplied + 1 <= commitIndex THEN lastApplied + 1
                         ELSE commitIndex
      BY <1>1, <1>2, MinOfTwo DEF AppliedNext
    <3>2. QED
      BY <1>2, <1>3, <3>1
  <2>2. UNCHANGED outputBuf
    BY <1>1, <1>3 DEF FlushNext
  <2>3. /\ \A s \in Server : Flushed(s)' = Flushed(s) /\ Ended(s)' = Ended(s)
        /\ Applied' = Applied
    BY <1>1, <2>1, <2>2 DEF Flushed, Ended, Applied, serverVars
  <2>4. connected \subseteq Server
    BY DEF Types, NodeTypeOK
  <2>5. QED
    BY <1>1, <2>1, <2>3, <2>4 DEF FlushedSoFar
<1>4. CASE lastApplied < commitIndex
  <2>1. lastApplied' = m /\ m \in 1 .. Len(log) /\ m \in 1 .. commitIndex
    <3>1. lastApplied' = IF lastApplied + 1 <= commitIndex THEN lastApplied + 1
                         ELSE commitIndex
      BY <1>1, <1>2, MinOfTwo DEF AppliedNext
    <3>2. QED
      BY <1>2, <1>4, <3>1
  <2>2. c \in Command /\ c.key \in Key
    BY <1>2, <2>1 DEF Command
  <2>3. PICK t \in Server : t = Home(c.key)
    BY <2>2, HomeIsServer
  <2>4. outputBuf' = [outputBuf EXCEPT ![t] = Append(@, m)]
    BY <1>1, <1>4, <2>3, HomeResponds DEF FlushNext
  <2> HIDE DEF m, c
  <2>5. Applied \in Seq(Command)
    BY <1>2 DEF Applied
  <2>6. Applied' = Append(Applied, c)
    <3>1. SubSeq(log, 1, lastApplied + 1) = Append(SubSeq(log, 1, lastApplied), log[lastApplied + 1])
      BY <1>2, <2>1 DEF m
    <3>2. QED
      BY <1>1, <2>1, <3>1 DEF Applied, m, c
  <2>7. Replay(Applied') = Execute(Replay(Applied), c)
    BY <2>2, <2>5, <2>6, RunAppend DEF Replay, Run
  <2>8. Replay(Applied) \in Data
    <3>1. EmptyDataBase \in Data
      BY DEF EmptyDataBase, Data
    <3>2. QED
      BY <2>5, <3>1, RunType DEF Replay, Run
  <2>9. Flushed(t)' = Execute(Flushed(t), c)
    <3> DEFINE q == toServer[t] \o outputBuf[t]
    <3>1. toServer[t] \in Seq(1 .. Len(log)) /\ outputBuf[t] \in Seq(1 .. Len(log))
      BY <1>2, <2>3, SeqWidens DEF DataInv, OnTheWay
    <3>2. q \in Seq(1 .. Len(log)) /\ toServer[t] \o Append(outputBuf[t], m) = Append(q, m)
      <4> DEFINE S == 1 .. Len(log)
      <4>1. toServer[t] \in Seq(S) /\ outputBuf[t] \in Seq(S) /\ m \in S
        BY <2>1, <3>1
      <4> HIDE DEF S
      <4>2. \A x, y \in Seq(S) : x \o y \in Seq(S) /\ x \o Append(y, m) = Append(x \o y, m)
        <5>1. TAKE x, y \in Seq(S)
        <5>2. QED
          BY <4>1, ConcatAppend
      <4>3. QED
        BY <4>1, <4>2, Zenon DEF S
    <3>3. outputBuf'[t] = Append(outputBuf[t], m)
      BY <1>2, <2>3, <2>4
    <3>4. Flushed(t)' = Run(db[t], Commands(log, Append(q, m)))
      <4>1. toServer'[t] \o outputBuf'[t] = Append(q, m)
        BY <1>1, <3>2, <3>3
      <4>2. db' = db /\ log' = log
        BY <1>1 DEF serverVars
      <4>3. Flushed(t)' = Run(db'[t], Commands(log', toServer'[t] \o outputBuf'[t]))
        BY <2>3, FlushedAfter
      <4>4. QED
        BY <4>1, <4>2, <4>3
    <3> HIDE DEF q
    <3>5. Commands(log, Append(q, m)) = Append(Commands(log, q), c)
      BY <1>2, <2>1, <3>2, CommandsAppend DEF c
    <3>6. Commands(log, q) \in Seq(Command)
      <4>1. Len(log) \in 0 .. Len(log)
        BY <1>2
      <4>2. QED
        BY <1>2, <3>2, <4>1, CommandsType
    <3>7. Run(db[t], Append(Commands(log, q), c)) = Execute(Run(db[t], Commands(log, q)), c)
      BY <2>2, <3>6, RunAppend
    <3>8. QED
      BY <2>3, <3>4, <3>5, <3>7, FlushedIs DEF q
  <2>10. \A s \in Server : s # t => Flushed(s)' = Flushed(s)
    <3> SUFFICES ASSUME NEW s \in Server, s # t
                 PROVE  Flushed(s)' = Flushed(s)
      OBVIOUS
    <3>1. outputBuf'[s] = outputBuf[s]
      BY <1>2, <2>4
    <3>2. db' = db /\ log' = log /\ toServer' = toServer
      BY <1>1 DEF serverVars
    <3>3. QED
      BY <3>1, <3>2, FlushedIs, FlushedAfter
  <2>11. Flushed(t) \in Data
    <3>1. toServer[t] \o outputBuf[t] \in Seq(1 .. Len(log))
      <4>1. toServer[t] \in Seq(1 .. Len(log)) /\ outputBuf[t] \in Seq(1 .. Len(log))
        BY <1>2, <2>3, SeqWidens DEF DataInv, OnTheWay
      <4>2. QED
        BY <4>1
    <3>2. Commands(log, toServer[t] \o outputBuf[t]) \in Seq(Command)
      <4>1. Len(log) \in 0 .. Len(log)
        BY <1>2
      <4>2. QED
        BY <1>2, <3>1, <4>1, CommandsType
    <3>3. db[t] \in Data
      BY <2>3 DEF DataInv, DataTypeOK
    <3>4. QED
      BY <2>3, <3>2, <3>3, RunType, FlushedIs
  <2>12. SUFFICES ASSUME NEW s \in connected', ~Ended(s)', NEW n \in 1 .. lastApplied',
                         NeedPF(log'[n]), Home(log'[n].key) = s
                  PROVE  Flushed(s)'[log'[n].key] = Replay(Applied)'[log'[n].key]
    BY DEF FlushedSoFar
  <2> DEFINE k == log[n].key
  <2>13. /\ s \in connected /\ s \in Server /\ ~Ended(s)
         /\ NeedPF(log[n]) /\ Home(k) = s /\ n \in 1 .. Len(log) /\ k \in Key
    <3>1. s \in connected /\ s \in Server /\ ~Ended(s)
      BY <1>1, <2>12 DEF Types, NodeTypeOK, Ended
    <3>2. n \in 1 .. Len(log)
      BY <1>2, <2>1 DEF m
    <3>3. log[n] \in Command
      BY <1>2, <3>2
    <3>4. QED
      BY <1>1, <2>12, <3>1, <3>2, <3>3 DEF Command
  <2>14. Replay(Applied)' = Execute(Replay(Applied), c)
    BY <2>7 DEF Replay
  <2>15. n # m => Flushed(s)[k] = Replay(Applied)[k]
    <3>1. n # m => n \in 1 .. lastApplied
      BY <1>2, <2>1 DEF m
    <3>2. QED
      BY <2>13, <3>1 DEF FlushedSoFar
  <2> HIDE DEF k
  <2>16. CASE s # t
    <3>1. k # c.key
      BY <2>3, <2>13, <2>16
    <3>2. n # m
      BY <3>1 DEF k, c
    <3>3. Execute(Replay(Applied), c)[k] = Replay(Applied)[k]
      BY <2>2, <2>8, <2>13, <3>1, ExecuteCells
    <3>4. QED
      BY <1>1, <2>10, <2>13, <2>14, <2>15, <2>16, <3>2, <3>3 DEF k
  <2>17. CASE s = t /\ k # c.key
    <3>1. n # m
      BY <2>17 DEF k, c
    <3>2. /\ Execute(Replay(Applied), c)[k] = Replay(Applied)[k]
          /\ Execute(Flushed(t), c)[k] = Flushed(t)[k]
      BY <2>2, <2>8, <2>11, <2>13, <2>17, ExecuteCells
    <3>3. QED
      BY <1>1, <2>9, <2>14, <2>15, <2>17, <3>1, <3>2 DEF k
  <2>18. CASE s = t /\ k = c.key /\ NeedPF(c)
    <3>1. Execute(Flushed(t), c)[k] = Execute(Replay(Applied), c)[k]
      BY <2>2, <2>8, <2>11, <2>18, ExecuteCells
    <3>2. QED
      BY <1>1, <2>9, <2>14, <2>18, <3>1 DEF k
  <2>19. CASE s = t /\ k = c.key /\ ~NeedPF(c)
    <3>1. Execute(Flushed(t), c) = Flushed(t) /\ Execute(Replay(Applied), c) = Replay(Applied)
      BY <2>2, <2>8, <2>11, <2>19, ExecuteCells
    <3>2. n # m
      BY <2>13, <2>19 DEF c
    <3>3. QED
      BY <1>1, <2>9, <2>14, <2>15, <2>19, <3>1, <3>2 DEF k
  <2>20. QED
    BY <2>16, <2>17, <2>18, <2>19
<1>5. QED
  BY <1>3, <1>4

LEMMA ConcatTail ==
  ASSUME NEW S, NEW a \in Seq(S), NEW b \in Seq(S), a # << >>
  PROVE  a \o b # << >> /\ Head(a \o b) = Head(a) /\ Tail(a \o b) = Tail(a) \o b
<1>1. Len(a) \in Nat \ {0} /\ Len(b) \in Nat
  BY EmptySeq
<1>2. a \o b \in Seq(S) /\ Len(a \o b) = Len(a) + Len(b)
  OBVIOUS
<1>3. a \o b # << >>
  BY <1>1, <1>2
<1>4. Head(a \o b) = Head(a)
  BY <1>1, <1>3
<1>5. Tail(a \o b) = Tail(a) \o b
  BY <1>1, <1>3
<1>6. QED
  BY <1>3, <1>4, <1>5

LEMMA AppliedKept ==
  ASSUME Types, [Next]_vars, ~CronReconnect, ~CronFlush
  PROVE  /\ lastApplied' = lastApplied /\ Applied' = Applied
         /\ \A n \in 1 .. commitIndex : log'[n] = log[n]
<1>1. lastApplied' = lastApplied
  BY DEF Next, NodeStep, EpollWait, WriteToServer, DeleteChildren, ReadFromServer,
     DeleteParents, AppendCommand, TurnAway, Accept, ToFollow, Commit, Replicate,
     ServerAnswers, ServerDropsNode, ServerCrash, ServerRestart, ClientSends,
     ClientReceives, ClientQuits, vars
<1>2. /\ log \in Seq(Command) /\ log' \in Seq(Command)
      /\ commitIndex \in 0 .. Len(log) /\ commitIndex' \in 0 .. Len(log')
      /\ commitIndex <= commitIndex' /\ \A n \in 1 .. commitIndex : log'[n] = log[n]
  BY LogStep DEF Types, NodeTypeOK
<1>3. lastApplied \in 0 .. Len(log) /\ lastApplied \in 0 .. Len(log')
      /\ \A n \in 1 .. lastApplied : log'[n] = log[n]
  BY <1>2 DEF Types, NodeTypeOK
<1>4. SubSeq(log, 1, lastApplied) = SubSeq(log', 1, lastApplied)
  BY <1>2, <1>3
<1>5. QED
  BY <1>1, <1>2, <1>4 DEF Applied

(* What a standing connection carries is not lost.                           *)
LEMMA FlushedKept ==
  ASSUME Types, DataInv, DownKnown, [Next]_vars, ~CronReconnect, ~CronFlush,
         NEW s \in Server, s \in connected', ~Ended(s)'
  PROVE  s \in connected /\ ~Ended(s) /\ Flushed(s)' = Flushed(s)
<1>1. s \in connected
  BY DEF Next, NodeStep, EpollWait, WriteToServer,
     DeleteChildren, ReadFromServer, DeleteParents, AppendCommand, TurnAway,
     Accept, ToFollow, Commit, Replicate, ServerAnswers, ServerDropsNode,
     ServerCrash, ServerRestart, ClientSends, ClientReceives, ClientQuits, vars,
     childVars
<1>2. ~Ended(s)
  BY EndedKept
<1>3. serverUp[s]
  BY <1>1, <1>2 DEF DownKnown
<1>4. /\ outputBuf \in [Server -> Seq(0 .. commitIndex)]
      /\ toServer \in [Server -> Seq(0 .. commitIndex)]
      /\ log \in Seq(Command) /\ commitIndex \in 0 .. Len(log) /\ commitIndex \in Nat
      /\ db \in [Server -> Data] /\ Len(log) \in Nat
  BY DEF Types, NodeTypeOK, PipeTypeOK, Carry, DataInv, DataTypeOK
<1> DEFINE S == 1 .. commitIndex
           q == toServer[s] \o outputBuf[s]
<1>5. toServer[s] \in Seq(S) /\ outputBuf[s] \in Seq(S)
  BY DEF DataInv, OnTheWay
<1> HIDE DEF S
<1>6. q \in Seq(S)
  BY <1>5
<1>7. Flushed(s) = Run(db[s], Commands(log, q))
  BY FlushedIs
<1>8. Flushed(s)' = Run(db'[s], Commands(log', toServer'[s] \o outputBuf'[s]))
  BY FlushedAfter
<1>9. ASSUME ServerAnswers(s)
      PROVE  Flushed(s)' = Flushed(s)
  <2>1. /\ toServer[s] # << >>
        /\ db'[s] = Execute(db[s], log[Head(toServer[s])])
        /\ toServer'[s] = Tail(toServer[s]) /\ outputBuf'[s] = outputBuf[s]
        /\ log' = log
    BY <1>4, <1>9 DEF ServerAnswers, ServerExecutes, raftVars
  <2>2. /\ q # << >> /\ Head(q) = Head(toServer[s])
        /\ Tail(q) = Tail(toServer[s]) \o outputBuf[s]
    BY <1>5, <2>1, ConcatTail
  <2>3. q \in Seq(1 .. Len(log))
    BY <1>4, <1>6, SeqWidens DEF S
  <2> HIDE DEF q
  <2>4. Run(db[s], Commands(log, q))
          = Run(Execute(db[s], log[Head(q)]), Commands(log, Tail(q)))
    BY <1>4, <2>2, <2>3, CommandsHead
  <2>5. QED
    BY <1>7, <1>8, <2>1, <2>2, <2>4
<1>10. ASSUME ~ServerAnswers(s)
       PROVE  db'[s] = db[s] /\ toServer'[s] \o outputBuf'[s] = q
  <2>1. ASSUME ServerDropsNode(s) \/ ServerCrash(s)
        PROVE  FALSE
    BY <1>1, <2>1, CrashEnds
  <2>2. ASSUME ServerRestart(s)
        PROVE  FALSE
    BY <1>3, <2>2 DEF ServerRestart
  <2>3. ASSUME NEW t \in Server, t # s,
               \/ ServerAnswers(t) \/ ServerDropsNode(t)
               \/ ServerCrash(t) \/ ServerRestart(t)
        PROVE  /\ db'[s] = db[s] /\ toServer'[s] = toServer[s]
               /\ outputBuf'[s] = outputBuf[s]
    <3>1. CASE ServerAnswers(t)
      BY <1>4, <2>3, <3>1 DEF ServerAnswers, ServerExecutes
    <3>2. CASE ServerDropsNode(t)
      BY <1>4, <2>3, <3>2 DEF ServerDropsNode, ServerExecutes
    <3>3. CASE ServerCrash(t)
      BY <1>4, <2>3, <3>3 DEF ServerCrash
    <3>4. CASE ServerRestart(t)
      BY <1>4, <2>3, <3>4 DEF ServerRestart, childVars
    <3>5. QED
      BY <2>3, <3>1, <3>2, <3>3, <3>4
  <2>4. ASSUME NEW t \in Server, WriteToServer(t)
        PROVE  db'[s] = db[s] /\ toServer'[s] \o outputBuf'[s] = q
    <3>1. UNCHANGED <<db, fromServer>>
      BY <2>4 DEF WriteToServer, serverVars
    <3>2. CASE t # s
      BY <1>4, <2>4, <3>1, <3>2 DEF WriteToServer
    <3>3. CASE t = s
      <4>1. toServer'[s] = q /\ outputBuf'[s] = << >>
        BY <1>2, <1>4, <2>4, <3>3 DEF WriteToServer
      <4>2. q \o << >> = q
        BY <1>6
      <4>3. QED
        BY <3>1, <4>1, <4>2
    <3>4. QED
      BY <3>2, <3>3
  <2>5. ASSUME NEW t \in Server, DeleteChildren(t)
        PROVE  /\ db'[s] = db[s] /\ toServer'[s] = toServer[s]
               /\ outputBuf'[s] = outputBuf[s]
    <3>1. t # s
      BY <2>5 DEF DeleteChildren
    <3>2. QED
      BY <1>4, <2>5, <3>1 DEF DeleteChildren, serverVars
  <2>6. \/ UNCHANGED <<db, toServer, outputBuf>>
        \/ \E t \in Server :
             \/ WriteToServer(t) \/ DeleteChildren(t) \/ ServerAnswers(t)
             \/ ServerDropsNode(t) \/ ServerCrash(t) \/ ServerRestart(t)
    BY DEF Next, NodeStep, EpollWait, ReadFromServer, DeleteParents,
       AppendCommand, TurnAway, Accept, ToFollow, Commit, Replicate, ClientSends,
       ClientReceives, ClientQuits, vars, childVars, serverVars
  <2>7. QED
    BY <1>10, <2>1, <2>2, <2>3, <2>4, <2>5, <2>6
<1>11. ASSUME ~ServerAnswers(s)
       PROVE  Flushed(s)' = Flushed(s)
  <2>1. Commands(log, q) = Commands(log', q)
    <3>1. \A n \in 1 .. commitIndex : log[n] = log'[n]
      BY AppliedKept
    <3> HIDE DEF q
    <3>2. QED
      BY <1>4, <1>6, <3>1, CommandsSame DEF S
  <2>2. QED
    BY <1>7, <1>8, <1>10, <1>11, <2>1
<1>12. QED
  BY <1>1, <1>2, <1>9, <1>11

LEMMA FlushedStep ==
  ASSUME Types, DataInv, DownKnown, FlushedSoFar, [Next]_vars
  PROVE  FlushedSoFar'
<1>1. CASE CronReconnect
  <2>1. 1 .. lastApplied' = {}
    BY <1>1 DEF CronReconnect, FlushFromTheStart
  <2>2. QED
    BY <2>1 DEF FlushedSoFar
<1>2. CASE CronFlush
  BY <1>2, FlushStep
<1>3. CASE ~CronReconnect /\ ~CronFlush
  <2> SUFFICES ASSUME NEW s \in connected', ~Ended(s)', NEW n \in 1 .. lastApplied',
                      NeedPF(log'[n]), Home(log'[n].key) = s
               PROVE  Flushed(s)'[log'[n].key] = Replay(Applied)'[log'[n].key]
    BY DEF FlushedSoFar
  <2>1. s \in Server
    BY NodeTypes DEF NodeTypeOK
  <2>2. s \in connected /\ ~Ended(s) /\ Flushed(s)' = Flushed(s)
    BY <1>3, <2>1, FlushedKept
  <2>3. lastApplied' = lastApplied /\ Applied' = Applied
        /\ \A k \in 1 .. commitIndex : log'[k] = log[k]
    BY <1>3, AppliedKept
  <2>4. n \in 1 .. lastApplied /\ log'[n] = log[n]
    <3>1. n \in 1 .. lastApplied
      BY <2>3
    <3>2. n \in 1 .. commitIndex
      BY <3>1 DEF Types, NodeTypeOK
    <3>3. QED
      BY <2>3, <3>1, <3>2
  <2>5. Flushed(s)[log[n].key] = Replay(Applied)[log[n].key]
    BY <2>2, <2>4 DEF FlushedSoFar
  <2>6. Replay(Applied)' = Replay(Applied)
    BY <2>3 DEF Replay
  <2>7. QED
    BY <2>2, <2>4, <2>5, <2>6
<1>4. QED
  BY <1>1, <1>2, <1>3

StorageInv == Types /\ DataInv /\ DownKnown /\ FlushedSoFar

LEMMA StorageInit == ASSUME Init PROVE StorageInv
<1>1. EmptyDataBase \in Data
  BY DEF EmptyDataBase, Data
<1>2. \A q : q = << >> => q \in Seq(Command) /\ q \in Seq(1 .. 0)
  OBVIOUS
<1>3. DataTypeOK
  BY <1>1, <1>2 DEF Init, DataTypeOK
<1>4. OnTheWay
  BY <1>2 DEF Init, OnTheWay
<1>5. RestartRestores
  BY RunEmpty DEF Init, RestartRestores, Replay, Run
<1>6. DownKnown /\ FlushedSoFar
  BY DEF Init, DownKnown, FlushedSoFar
<1>7. QED
  BY <1>3, <1>4, <1>5, <1>6, TypesInit DEF StorageInv, DataInv

LEMMA StorageHolds == Spec => []StorageInv
<1>1. StorageInv /\ [Next]_vars => StorageInv'
  BY TypesStep, DataStep, DownStep, FlushedStep DEF StorageInv, DataInv
<1>2. QED
  BY <1>1, StorageInit, PTL DEF Spec

(* The whole state keeps its type, the map and the file of every storage server
   with it: a server only executes committed entries, which are commands of a
   client (ClusterDefaultCommand.cpp), whatever was flushed twice or lost. *)
THEOREM ServingKeepsTypes == Spec => []ServingTypeOK
<1>1. StorageInv => ServingTypeOK
  BY DEF StorageInv, Types, DataInv, ServingTypeOK
<1>2. QED
  BY <1>1, StorageHolds, PTL

(* ServerClient.cpp:36: the command is written to the persistence file before it
   is executed, so that a server with a file is at any time what its file says:
   importPF() restores what the server held when it was killed, or that and the
   one command it had written and not executed. *)
THEOREM FileRestores == Spec => []RestartRestores
<1>1. StorageInv => RestartRestores
  BY DEF StorageInv, DataInv
<1>2. QED
  BY <1>1, StorageHolds, PTL

(* Children.cpp:152: the server of a key will hold the last value that the
   entries flushed so far give it, for every log, every placement of keys on
   servers and any number of reconnections: what is left of an earlier flush
   is executed before what the log is flushed to anew. *)
THEOREM FlushedIsLast == Spec => []FlushedValue
<1>1. StorageInv => FlushedValue
  <2> SUFFICES ASSUME StorageInv, WorkingBaseline, NEW s \in Server, ~Ended(s),
                      NEW n \in DOMAIN Applied, NeedPF(log[n]),
                      RespondServer(log[n].key) = s
               PROVE  Flushed(s)[log[n].key] = Replay(Applied)[log[n].key]
    BY DEF FlushedValue
  <2>1. s \in connected /\ Home(log[n].key) = s
    BY HomeResponds DEF WorkingBaseline
  <2>2. n \in 1 .. lastApplied
    BY DEF Applied, StorageInv, Types, NodeTypeOK
  <2>3. QED
    BY <2>1, <2>2 DEF StorageInv, FlushedSoFar
<1>2. QED
  BY <1>1, StorageHolds, PTL
==============================================================================
