-------------------------- MODULE ConnectionProofs ---------------------------
(***************************************************************************)
(* A connection, for every number of commands and crashes and whatever the *)
(* kernel does: the registered event, the types of the buffers, and that   *)
(* each end executes what the other has posted.                            *)
(***************************************************************************)
EXTENDS ConnectionProperties, SequenceTheorems, WellFoundedInduction, TLAPS

(* What the inductive invariant needs of types: what is in an output buffer
   is a sequence, and so is what was posted, whose length numbers the next
   command. *)
OutputTypeOK ==
  /\ status \in [End -> Status]
  /\ events \in [End -> SUBSET {"read", "write"}]
  /\ outputBuf \in [End -> Seq(Line)]
  /\ posted \in [End -> Seq(Message)]

EventInv == OutputTypeOK /\ EventMatchesOutput

LEMMA PeerIsEnd ==
  ASSUME NEW e \in End
  PROVE  Peer(e) \in End
BY DEF End, Peer

(* A command is never empty, so that sending it leaves output. *)
LEMMA LinesNotEmpty ==
  ASSUME NEW m \in Message, NEW q \in Seq(Line)
  PROVE  q \o Lines(m) \in Seq(Line) /\ q \o Lines(m) # << >>
<1> DEFINE a == [message |-> m, part |-> "head"]
           b == [message |-> m, part |-> "last"]
<1>1. Lines(m) = <<a, b>>
  <2>1. DOMAIN Part = 1 .. 2 /\ Part[1] = "head" /\ Part[2] = "last"
    BY DEF Part
  <2>2. Lines(m) = [p \in 1 .. 2 |-> IF p = 1 THEN a ELSE b]
    BY <2>1 DEF Lines
  <2>3. <<a, b>> = [p \in 1 .. 2 |-> IF p = 1 THEN a ELSE b]
    OBVIOUS
  <2>4. QED
    BY <2>2, <2>3
<1>2. a \in Line /\ b \in Line
  BY DEF Line
<1> HIDE DEF a, b
<1>3. Len(q \o <<a, b>>) = Len(q) + 2 /\ q \o <<a, b>> \in Seq(Line)
  BY <1>2
<1>4. Len(q) \in Nat
  OBVIOUS
<1>5. QED
  BY <1>1, <1>3, <1>4, EmptySeq

LEMMA SendKeeps ==
  ASSUME EventInv, NEW e \in End, NEW r \in BOOLEAN,
         Send(e, [number |-> Len(posted[e]) + 1, request |-> r]),
         Open(e), UNCHANGED status
  PROVE  EventInv'
<1> DEFINE m == [number |-> Len(posted[e]) + 1, request |-> r]
<1> USE DEF EventInv, OutputTypeOK
<1>1. m \in Message
  BY DEF Message
<1> HIDE DEF m
<1>2. /\ outputBuf[e] \o Lines(m) \in Seq(Line)
      /\ outputBuf[e] \o Lines(m) # << >>
  BY <1>1, LinesNotEmpty
<1>3. Append(posted[e], m) \in Seq(Message)
  BY <1>1
<1>4. /\ events' = [events EXCEPT ![e] = ReadyToSend(@)]
      /\ outputBuf' = [outputBuf EXCEPT ![e] = @ \o Lines(m)]
      /\ posted' = [posted EXCEPT ![e] = Append(@, m)]
  BY DEF Send, m
<1>5. ReadyToSend(events[e]) = {"write"}
  <2>1. events[e] = {"read"} \/ events[e] = {"write"}
    BY DEF EventMatchesOutput
  <2>2. QED
    BY <2>1 DEF ReadyToSend
<1>6. OutputTypeOK'
  BY <1>2, <1>3, <1>4, <1>5
<1>7. EventMatchesOutput'
  <2> SUFFICES ASSUME NEW f \in End, Open(f)
               PROVE  events'[f] = IF outputBuf'[f] = << >> THEN {"read"} ELSE {"write"}
    BY DEF EventMatchesOutput, Open
  <2>1. CASE f = e
    BY <1>2, <1>4, <1>5, <2>1
  <2>2. CASE f # e
    BY <1>4, <2>2 DEF EventMatchesOutput
  <2>3. QED
    BY <2>1, <2>2
<1>8. QED
  BY <1>6, <1>7

LEMMA CloseKeeps ==
  ASSUME EventInv, NEW e \in End, NEW how \in Status \ {"open"}, Close(e, how)
  PROVE  EventInv'
<1> USE DEF EventInv, OutputTypeOK
<1>1. /\ status' = [status EXCEPT ![e] = how]
      /\ events' = [events EXCEPT ![e] = {}]
      /\ UNCHANGED <<outputBuf, posted>>
  BY DEF Close
<1>2. OutputTypeOK'
  BY <1>1
<1>3. EventMatchesOutput'
  BY <1>1 DEF EventMatchesOutput, Open
<1>4. QED
  BY <1>2, <1>3

LEMMA WriteKeeps ==
  ASSUME EventInv, NEW e \in End, SendReply(e)
  PROVE  EventInv'
<1> USE DEF EventInv, OutputTypeOK
<1>1. PICK n \in 1 .. Len(outputBuf[e]) :
        /\ outputBuf' = [outputBuf EXCEPT ![e] = SubSeq(@, n + 1, Len(@))]
        /\ events' = [events EXCEPT ![e] = AfterWrite(@, outputBuf[e], n)]
  BY DEF Unwritten, SendReply
<1>2. Open(e) /\ UNCHANGED <<status, posted>>
  BY DEF Unwritten, SendReply, AtRest
<1> DEFINE q == outputBuf[e]
           rest == SubSeq(q, n + 1, Len(q))
<1>3. q \in Seq(Line) /\ Len(q) \in Nat
  OBVIOUS
<1>4. rest \in Seq(Line) /\ Len(rest) = Len(q) - n
  BY <1>3
<1>5. events[e] = {"write"}
  <2>1. q # << >>
    BY <1>1, <1>3, EmptySeq
  <2>2. QED
    BY <1>2, <2>1 DEF EventMatchesOutput
<1>6. AfterWrite(events[e], q, n) = IF rest = << >> THEN {"read"} ELSE {"write"}
  <2>1. rest = << >> => n = Len(q)
    <3> HIDE DEF rest, q
    <3>1. rest = << >> => Len(rest) = 0
      BY EmptySeq
    <3>2. n \in Nat /\ Len(q) \in Nat /\ Len(rest) = Len(q) - n
      BY <1>1, <1>3, <1>4
    <3>3. QED
      BY <3>1, <3>2
  <2>2. n = Len(q) => rest = << >>
    BY <1>1, <1>3, <1>4, EmptySeq
  <2>3. QED
    BY <1>5, <2>1, <2>2 DEF AfterWrite
<1> HIDE DEF rest
<1>7. OutputTypeOK'
  BY <1>1, <1>2, <1>4, <1>6 DEF rest
<1>8. EventMatchesOutput'
  <2> SUFFICES ASSUME NEW f \in End, Open(f)
               PROVE  events'[f] = IF outputBuf'[f] = << >> THEN {"read"} ELSE {"write"}
    BY <1>2 DEF EventMatchesOutput, Open
  <2>1. CASE f = e
    BY <1>1, <1>6, <2>1 DEF rest
  <2>2. CASE f # e
    BY <1>1, <2>2 DEF EventMatchesOutput
  <2>3. QED
    BY <2>1, <2>2
<1>9. QED
  BY <1>7, <1>8

LEMMA EventInit == ASSUME Init PROVE EventInv
<1>1. \A e \in End : status[e] = "open" /\ events[e] = {"read"} /\ outputBuf[e] = << >>
  BY DEF Init
<1>2. OutputTypeOK
  <2>1. << >> \in Seq(Line) /\ << >> \in Seq(Message)
    OBVIOUS
  <2>2. QED
    BY <2>1 DEF Init, OutputTypeOK, Status
<1>3. QED
  BY <1>1, <1>2 DEF EventInv, EventMatchesOutput

LEMMA EventStep == ASSUME EventInv, [Next]_vars PROVE EventInv'
<1>1. ASSUME NEW e \in End, Post(e)
      PROVE  EventInv'
  BY <1>1, SendKeeps DEF Post, AtRest
<1>2. ASSUME NEW e \in End, Execute(e)
      PROVE  EventInv'
  <2>1. CASE UNCHANGED <<events, outputBuf, posted>>
    BY <1>2, <2>1 DEF Execute, EventInv, OutputTypeOK, EventMatchesOutput, Open
  <2>2. CASE Send(e, [number |-> Len(posted[e]) + 1, request |-> FALSE])
    BY <1>2, <2>2, SendKeeps DEF Execute, Parses
  <2>3. QED
    BY <1>2, <2>1, <2>2 DEF Execute
<1>3. ASSUME NEW e \in End,
             Crash(e) \/ ReadEnd(e) \/ SendFails(e) \/ SendKills(e) \/ Reject(e)
             \/ ExecuteExits(e)
      PROVE  EventInv'
  <2>1. \E how \in Status \ {"open"} : Close(e, how)
    BY <1>3 DEF Crash, ReadEnd, SendFails, SendKills, Reject, ExecuteExits,
       DeleteClient, Status
  <2>2. QED
    BY <2>1, CloseKeeps
<1>4. ASSUME NEW e \in End, SendReply(e)
      PROVE  EventInv'
  BY <1>4, WriteKeeps
<1>5. CASE \/ \E e \in End : Read(e) \/ Keep(e) \/ ExecuteGarbled(e)
           \/ UNCHANGED vars
  <2>1. UNCHANGED <<status, events, outputBuf, posted>>
    BY <1>5 DEF Read, Keep, ExecuteGarbled, vars, bufferVars
  <2>2. QED
    BY <2>1 DEF EventInv, OutputTypeOK, EventMatchesOutput, Open
<1>6. QED
  BY <1>1, <1>2, <1>3, <1>4, <1>5 DEF Next

(* An open connection has exactly one event registered, the one its output
   buffer asks for (EventPoll.cpp:102, Client.cpp:62): epoll_ctl() never adds
   an event twice nor removes an absent one, which would end the process. *)
THEOREM EventsMatch == Spec => []EventMatchesOutput
<1>1. Init => EventInv
  BY EventInit
<1>2. EventInv /\ [Next]_vars => EventInv'
  BY EventStep
<1>3. EventInv => EventMatchesOutput
  BY DEF EventInv
<1>4. QED
  BY <1>1, <1>2, <1>3, PTL DEF Spec

------------------------------------------------------------------------------
(* Two pieces of a stream, one after the other. *)

LEMMA Concat ==
  ASSUME NEW S, NEW a \in Seq(S), NEW b \in Seq(S)
  PROVE  /\ a \o b \in Seq(S)
         /\ Len(a \o b) = Len(a) + Len(b) /\ Len(a) \in Nat /\ Len(b) \in Nat
         /\ \A n \in 1 .. Len(a) : (a \o b)[n] = a[n]
         /\ \A n \in 1 .. Len(b) : (a \o b)[Len(a) + n] = b[n]
         /\ a \o b = << >> <=> a = << >> /\ b = << >>
BY ConcatProperties, ConcatEqualIffEmpty, LenProperties

LEMMA EndsOf ==
  ASSUME NEW S, NEW a \in Seq(S), a # << >>
  PROVE  /\ Head(a) = a[1] /\ Last(a) = a[Len(a)]
         /\ Head(a) \in S /\ Last(a) \in S /\ Len(a) \in Nat \ {0}
<1>1. Len(a) \in Nat \ {0}
  BY EmptySeq
<1>2. a[1] \in S /\ a[Len(a)] \in S
  BY <1>1, ElementOfSeq
<1>3. Head(a) = a[1]
  BY <1>1
<1>4. QED
  BY <1>1, <1>2, <1>3 DEF Last

LEMMA EndsOfConcat ==
  ASSUME NEW S, NEW a \in Seq(S), NEW b \in Seq(S)
  PROVE  /\ a # << >> => Head(a \o b) = Head(a)
         /\ b # << >> => Last(a \o b) = Last(b)
         /\ a = << >> => a \o b = b
         /\ b = << >> => a \o b = a
<1>1. a # << >> => Head(a \o b) = Head(a)
  BY Concat, EndsOf
<1>2. ASSUME b # << >>
      PROVE  Last(a \o b) = Last(b)
  <2>1. Len(b) \in 1 .. Len(b) /\ Len(a) \in Nat
    BY <1>2, EndsOf, Concat
  <2>2. (a \o b)[Len(a) + Len(b)] = b[Len(b)] /\ Len(a \o b) = Len(a) + Len(b)
    BY <2>1, Concat
  <2>3. QED
    BY <2>2 DEF Last
<1>3. QED
  BY <1>1, <1>2, ConcatEmptySeq

(* What was said twice about a concatenation is said once. *)
LEMMA ConsecutiveConcat ==
  ASSUME NEW a \in Seq(Line), NEW b \in Seq(Line), NEW P
  PROVE  Consecutive(a \o b, P) <=>
           /\ Consecutive(a, P) /\ Consecutive(b, P)
           /\ a # << >> /\ b # << >> => Follows(Last(a), Head(b))
<1> DEFINE w == a \o b
           Named(l) == l.message.number \in DOMAIN P /\ l.message = P[l.message.number]
<1>1. /\ w \in Seq(Line) /\ Len(w) = Len(a) + Len(b)
      /\ Len(a) \in Nat /\ Len(b) \in Nat
      /\ DOMAIN w = 1 .. Len(w) /\ DOMAIN a = 1 .. Len(a) /\ DOMAIN b = 1 .. Len(b)
  BY Concat, LenProperties
<1>2. /\ \A n \in 1 .. Len(a) : w[n] = a[n]
      /\ \A n \in 1 .. Len(b) : w[Len(a) + n] = b[n]
  BY Concat
<1>3. \A q : Consecutive(q, P) <=>
               /\ \A n \in DOMAIN q : Named(q[n])
               /\ \A n \in DOMAIN q : n + 1 \in DOMAIN q => Follows(q[n], q[n + 1])
  BY DEF Consecutive
<1> HIDE DEF w, Named
<1>4. ASSUME Consecutive(w, P)
      PROVE  /\ Consecutive(a, P) /\ Consecutive(b, P)
             /\ a # << >> /\ b # << >> => Follows(Last(a), Head(b))
  <2>1. Consecutive(a, P)
    <3>1. \A n \in DOMAIN a : n \in DOMAIN w /\ w[n] = a[n] /\ n \in Nat
      BY <1>1, <1>2
    <3>2. QED
      BY <1>3, <1>4, <3>1
  <2>2. Consecutive(b, P)
    <3>1. \A n \in DOMAIN b : Len(a) + n \in DOMAIN w /\ w[Len(a) + n] = b[n] /\ n \in Nat
      BY <1>1, <1>2
    <3>2. \A n \in DOMAIN b : Named(b[n])
      BY <1>3, <1>4, <3>1
    <3>3. ASSUME NEW n \in DOMAIN b, n + 1 \in DOMAIN b
          PROVE  Follows(b[n], b[n + 1])
      <4>1. (Len(a) + n) + 1 = Len(a) + (n + 1)
        BY <1>1, <3>1
      <4>2. QED
        BY <1>3, <1>4, <3>1, <3>3, <4>1
    <3>4. QED
      BY <1>3, <3>2, <3>3
  <2>3. ASSUME a # << >>, b # << >>
        PROVE  Follows(Last(a), Head(b))
    <3>1. Last(a) = a[Len(a)] /\ Head(b) = b[1] /\ Len(a) >= 1 /\ Len(b) >= 1
      BY <2>3, EndsOf
    <3>2. /\ Len(a) \in DOMAIN w /\ Len(a) + 1 \in DOMAIN w
          /\ w[Len(a)] = a[Len(a)] /\ w[Len(a) + 1] = b[1]
      BY <1>1, <1>2, <3>1
    <3>3. QED
      BY <1>3, <1>4, <3>1, <3>2
  <2>4. QED
    BY <2>1, <2>2, <2>3
<1>5. ASSUME Consecutive(a, P), Consecutive(b, P),
             a # << >> /\ b # << >> => Follows(Last(a), Head(b))
      PROVE  Consecutive(w, P)
  <2>1. \A n \in DOMAIN w : \/ n \in DOMAIN a /\ w[n] = a[n]
                            \/ n - Len(a) \in DOMAIN b /\ w[n] = b[n - Len(a)]
    <3> SUFFICES ASSUME NEW n \in DOMAIN w, n \notin DOMAIN a
                 PROVE  n - Len(a) \in DOMAIN b /\ w[n] = b[n - Len(a)]
      BY <1>1, <1>2
    <3>1. n - Len(a) \in 1 .. Len(b) /\ Len(a) + (n - Len(a)) = n
      BY <1>1
    <3>2. QED
      BY <1>1, <1>2, <3>1
  <2>2. \A n \in DOMAIN w : Named(w[n])
    BY <1>3, <1>5, <2>1
  <2>3. ASSUME NEW n \in DOMAIN w, n + 1 \in DOMAIN w
        PROVE  Follows(w[n], w[n + 1])
    <3>1. n \in Nat /\ n >= 1 /\ n + 1 <= Len(a) + Len(b)
      BY <1>1, <2>3
    <3>2. CASE n + 1 <= Len(a)
      <4>1. n \in DOMAIN a /\ n + 1 \in DOMAIN a
        BY <1>1, <3>1, <3>2
      <4>2. QED
        BY <1>1, <1>2, <1>3, <1>5, <4>1
    <3>3. CASE n = Len(a)
      <4>1. Len(a) >= 1 /\ Len(b) >= 1
        BY <1>1, <3>1, <3>3
      <4>2. a # << >> /\ b # << >>
        BY <4>1, EmptySeq
      <4>3. Last(a) = a[Len(a)] /\ Head(b) = b[1]
        BY <4>2, EndsOf
      <4>4. w[n] = a[n] /\ w[Len(a) + 1] = b[1]
        BY <1>1, <1>2, <3>3, <4>1
      <4>5. QED
        BY <1>5, <3>3, <4>2, <4>3, <4>4
    <3>4. CASE n > Len(a)
      <4>1. /\ n - Len(a) \in DOMAIN b /\ (n - Len(a)) + 1 \in DOMAIN b
            /\ Len(a) + (n - Len(a)) = n /\ Len(a) + ((n - Len(a)) + 1) = n + 1
        BY <1>1, <3>1, <3>4
      <4>2. w[n] = b[n - Len(a)] /\ w[n + 1] = b[(n - Len(a)) + 1]
        BY <1>1, <1>2, <4>1
      <4>3. QED
        BY <1>3, <1>5, <4>1, <4>2
    <3>5. QED
      BY <1>1, <3>1, <3>2, <3>3, <3>4
  <2>4. QED
    BY <1>3, <2>2, <2>3
<1>6. QED
  BY <1>4, <1>5 DEF w

(* The two lines of a command. *)
LEMMA LinesAre ==
  ASSUME NEW m \in Message
  PROVE  \E h, l \in Line :
           /\ h = [message |-> m, part |-> "head"] /\ l = [message |-> m, part |-> "last"]
           /\ Lines(m) = <<h, l>>
<1> DEFINE h == [message |-> m, part |-> "head"]
           l == [message |-> m, part |-> "last"]
<1>1. DOMAIN Part = 1 .. 2 /\ Part[1] = "head" /\ Part[2] = "last"
  BY DEF Part
<1>2. Lines(m) = [p \in 1 .. 2 |-> IF p = 1 THEN h ELSE l]
  BY <1>1 DEF Lines
<1>3. <<h, l>> = [p \in 1 .. 2 |-> IF p = 1 THEN h ELSE l]
  OBVIOUS
<1>4. h \in Line /\ l \in Line
  BY DEF Line
<1>5. QED
  BY <1>2, <1>3, <1>4

LEMMA LineTyped ==
  ASSUME NEW x \in Line
  PROVE  /\ x.message \in Message /\ x.message.number \in Nat
         /\ x.message.request \in BOOLEAN
         /\ x.part \in {"head", "last", "piece", "rest"}
BY DEF Line, Message

LEMMA GarbledIsMessage == Garbled \in Message /\ Garbled.number = 0
BY DEF Garbled, Message

LEMMA Single ==
  ASSUME NEW S, NEW x \in S
  PROVE  /\ <<x>> \in Seq(S) /\ Len(<<x>>) = 1 /\ <<x>>[1] = x
         /\ <<x>> # << >> /\ Head(<<x>>) = x /\ Last(<<x>>) = x
<1>1. <<x>> \in Seq(S) /\ Len(<<x>>) = 1 /\ <<x>>[1] = x
  OBVIOUS
<1>2. <<x>> # << >>
  BY <1>1, EmptySeq
<1>3. QED
  BY <1>1, <1>2, EndsOf

LEMMA PairSplit ==
  ASSUME NEW S, NEW x \in S, NEW y \in S
  PROVE  <<x, y>> = <<x>> \o <<y>>
<1> DEFINE q == <<x>> \o <<y>>
           r == <<x, y>>
<1>1. q \in Seq(S) /\ Len(q) = 2
  BY Single, Concat
<1>2. q[1] = x /\ q[2] = y
  OBVIOUS
<1>3. r \in Seq(S) /\ Len(r) = 2 /\ r[1] = x /\ r[2] = y
  OBVIOUS
<1> HIDE DEF q, r
<1>4. \A i \in 1 .. Len(q) : q[i] = r[i]
  <2>1. \A i \in 1 .. 2 : i = 1 \/ i = 2
    OBVIOUS
  <2>2. QED
    BY <1>1, <1>2, <1>3, <2>1
<1>5. q = r
  BY <1>1, <1>3, <1>4, SeqEqual
<1>6. QED
  BY <1>5 DEF q, r

LEMMA Pair ==
  ASSUME NEW S, NEW x \in S, NEW y \in S, NEW q, q = <<x, y>>
  PROVE  /\ q \in Seq(S) /\ Len(q) = 2 /\ q[1] = x /\ q[2] = y
         /\ q # << >> /\ Head(q) = x /\ Last(q) = y
<1>1. q \in Seq(S) /\ Len(q) = 2 /\ q[1] = x /\ q[2] = y
  OBVIOUS
<1>2. q # << >>
  BY <1>1, EmptySeq
<1>3. QED
  BY <1>1, <1>2, EndsOf

LEMMA ConsecutivePair ==
  ASSUME NEW x \in Line, NEW y \in Line, NEW P
  PROVE  /\ Consecutive(<<x>>, P) <=>
              x.message.number \in DOMAIN P /\ x.message = P[x.message.number]
         /\ Consecutive(<<x, y>>, P) <=>
              Consecutive(<<x>>, P) /\ Consecutive(<<y>>, P) /\ Follows(x, y)
<1>1. ASSUME NEW z \in Line
      PROVE  Consecutive(<<z>>, P) <=>
               z.message.number \in DOMAIN P /\ z.message = P[z.message.number]
  <2>1. DOMAIN <<z>> = {1} /\ <<z>>[1] = z /\ 1 + 1 # 1
    OBVIOUS
  <2>2. QED
    BY <2>1, Zenon DEF Consecutive
<1>2. Consecutive(<<x, y>>, P) <=>
        Consecutive(<<x>>, P) /\ Consecutive(<<y>>, P) /\ Follows(x, y)
  <2> DEFINE a == <<x>>
             b == <<y>>
  <2>1. /\ a \in Seq(Line) /\ b \in Seq(Line) /\ <<x, y>> = a \o b
        /\ a # << >> /\ b # << >> /\ Last(a) = x /\ Head(b) = y
    BY Single, PairSplit
  <2> HIDE DEF a, b
  <2>2. Consecutive(a \o b, P) <=> Consecutive(a, P) /\ Consecutive(b, P) /\ Follows(x, y)
    BY <2>1, ConsecutiveConcat, Zenon
  <2>3. QED
    BY <2>1, <2>2 DEF a, b
<1>3. QED
  BY <1>1, <1>2

LEMMA ConsecutiveEmpty ==
  ASSUME NEW P
  PROVE  Consecutive(<< >>, P)
BY DEF Consecutive

(* A message posted after these changes nothing about them. *)
LEMMA ConsecutiveAppend ==
  ASSUME NEW w \in Seq(Line), NEW P \in Seq(Message), NEW m \in Message,
         Consecutive(w, P)
  PROVE  Consecutive(w, Append(P, m))
<1>1. /\ DOMAIN P \subseteq DOMAIN Append(P, m)
      /\ \A n \in DOMAIN P : Append(P, m)[n] = P[n]
  BY AppendProperties, LenProperties
<1>2. QED
  BY <1>1 DEF Consecutive

(* What comes to a full stream is consecutive, and the stream is full again. *)
LEMMA ConsecutiveGrows ==
  ASSUME NEW w \in Seq(Line), NEW P \in Seq(Message), NEW m \in Message,
         m.number = Len(P) + 1, Consecutive(w, P),
         w # << >> => EndsMessage(Last(w)) /\ Last(w).message.number = Len(P)
  PROVE  LET v == w \o Lines(m)
         IN  /\ v \in Seq(Line) /\ v # << >> /\ Consecutive(v, Append(P, m))
             /\ EndsMessage(Last(v)) /\ Last(v).message.number = Len(P) + 1
             /\ Head(v) = IF w = << >> THEN [message |-> m, part |-> "head"] ELSE Head(w)
<1> DEFINE Q == Append(P, m)
<1>1. PICK h, l \in Line :
        /\ h = [message |-> m, part |-> "head"] /\ l = [message |-> m, part |-> "last"]
        /\ Lines(m) = <<h, l>>
  BY LinesAre
<1>2. Len(P) + 1 \in DOMAIN Q /\ Q[Len(P) + 1] = m
  BY AppendProperties, LenProperties
<1>3. h.message = m /\ h.part = "head" /\ l.message = m /\ l.part = "last"
  BY <1>1
<1>4. Consecutive(<<h, l>>, Q)
  <2>1. Consecutive(<<h>>, Q) /\ Consecutive(<<l>>, Q)
    BY <1>2, <1>3, ConsecutivePair
  <2>2. Follows(h, l)
    BY <1>3 DEF Follows, EndsMessage
  <2>3. QED
    BY <2>1, <2>2, ConsecutivePair
<1>5. Consecutive(w, Q)
  BY ConsecutiveAppend
<1> DEFINE d == <<h, l>>
<1>6. d \in Seq(Line) /\ d # << >> /\ Head(d) = h /\ Last(d) = l
  BY Pair
<1>7. Consecutive(d, Q)
  BY <1>4
<1> HIDE DEF d, Q
<1>8. w # << >> => Follows(Last(w), Head(d))
  BY <1>3, <1>6 DEF Follows
<1>9. Consecutive(w \o d, Q)
  BY <1>5, <1>6, <1>7, <1>8, ConsecutiveConcat
<1>10. /\ w \o d \in Seq(Line) /\ w \o d # << >>
       /\ Last(w \o d) = l
       /\ Head(w \o d) = IF w = << >> THEN h ELSE Head(w)
  BY <1>6, Concat, EndsOfConcat
<1>11. EndsMessage(l) /\ l.message.number = Len(P) + 1
  BY <1>3 DEF EndsMessage
<1>12. Lines(m) = d
  BY <1>1 DEF d
<1>13. QED
  BY <1>1, <1>9, <1>10, <1>11, <1>12 DEF Q

(* A line is cut in two. *)
LEMMA ConsecutiveCut ==
  ASSUME NEW u \in Seq(Line), NEW v \in Seq(Line), NEW P,
         NEW x \in Line, x.part = "last",
         Consecutive(u \o (<<x>> \o v), P)
  PROVE  Consecutive(u \o (<<Cut(x, "piece"), Cut(x, "rest")>> \o v), P)
<1> DEFINE p == Cut(x, "piece")
           r == Cut(x, "rest")
           a == <<x>>
           b == <<p, r>>
<1>1. /\ p \in Line /\ p.message = x.message /\ p.part = "piece"
      /\ r \in Line /\ r.message = x.message /\ r.part = "rest"
  BY DEF Cut, Line
<1> HIDE DEF p, r
<1>2. /\ a \in Seq(Line) /\ a # << >> /\ Head(a) = x /\ Last(a) = x
      /\ b \in Seq(Line) /\ b # << >> /\ Head(b) = p /\ Last(b) = r
  BY <1>1, Single, Pair
<1>3. Consecutive(a, P) => Consecutive(b, P)
  <2>1. Consecutive(a, P) => Consecutive(<<p>>, P) /\ Consecutive(<<r>>, P)
    BY <1>1, ConsecutivePair
  <2>2. Follows(p, r)
    BY <1>1 DEF Follows, EndsMessage
  <2>3. QED
    BY <1>1, <2>1, <2>2, ConsecutivePair
<1> HIDE DEF a, b
<1>4. a \o v \in Seq(Line) /\ a \o v # << >> /\ Head(a \o v) = x
  BY <1>2, Concat, EndsOfConcat
<1>5. b \o v \in Seq(Line) /\ b \o v # << >> /\ Head(b \o v) = p
  BY <1>2, Concat, EndsOfConcat
<1>6. /\ Consecutive(u, P) /\ Consecutive(a \o v, P)
      /\ u # << >> => Follows(Last(u), x)
  BY <1>4, ConsecutiveConcat DEF a
<1>7. /\ Consecutive(a, P) /\ Consecutive(v, P)
      /\ v # << >> => Follows(x, Head(v))
  BY <1>2, <1>6, ConsecutiveConcat
<1>8. v # << >> => Follows(r, Head(v))
  BY <1>1, <1>7 DEF Follows, EndsMessage
<1>9. Consecutive(b \o v, P)
  BY <1>2, <1>3, <1>7, <1>8, ConsecutiveConcat
<1>10. u # << >> => Follows(Last(u), p)
  <2>1. u # << >> => Last(u) \in Line
    BY EndsOf
  <2>2. QED
    BY <1>1, <1>6, <2>1 DEF Follows, EndsMessage
<1>11. Consecutive(u \o (b \o v), P)
  BY <1>5, <1>6, <1>9, <1>10, ConsecutiveConcat
<1>12. QED
  BY <1>11 DEF b, p, r

------------------------------------------------------------------------------
(* Parts of a buffer. *)

LEMMA Prefix ==
  ASSUME NEW S, NEW q \in Seq(S), NEW n \in 0 .. Len(q)
  PROVE  /\ SubSeq(q, 1, n) \in Seq(S) /\ Len(SubSeq(q, 1, n)) = n
         /\ DOMAIN SubSeq(q, 1, n) = 1 .. n
         /\ \A k \in 1 .. n : k \in 1 .. Len(q) /\ SubSeq(q, 1, n)[k] = q[k]
<1>1. Len(q) \in Nat /\ n \in Nat /\ n <= Len(q)
  BY LenProperties
<1>2. \A k \in 1 .. n : k \in 1 .. Len(q) /\ q[k] \in S
  BY <1>1, ElementOfSeq
<1>3. /\ SubSeq(q, 1, n) \in Seq(S)
      /\ Len(SubSeq(q, 1, n)) = IF 1 <= n THEN n - 1 + 1 ELSE 0
      /\ \A k \in 1 .. n - 1 + 1 : SubSeq(q, 1, n)[k] = q[1 + k - 1]
  <2>1. 1 \in Int /\ n \in Int
    BY <1>1
  <2>2. QED
    BY <1>2, <2>1, SubSeqProperties
<1> DEFINE p == SubSeq(q, 1, n)
<1> HIDE DEF p
<1>4. p \in Seq(S) /\ Len(p) = n
  BY <1>1, <1>3 DEF p
<1>5. \A k \in 1 .. n : p[k] = q[k]
  <2>1. \A k \in 1 .. n : k \in 1 .. n - 1 + 1 /\ 1 + k - 1 = k
    BY <1>1
  <2>2. QED
    BY <1>3, <2>1 DEF p
<1>6. QED
  BY <1>2, <1>4, <1>5, LenProperties DEF p

LEMMA Suffix ==
  ASSUME NEW S, NEW q \in Seq(S), NEW n \in 0 .. Len(q)
  PROVE  /\ SubSeq(q, n + 1, Len(q)) \in Seq(S)
         /\ Len(SubSeq(q, n + 1, Len(q))) = Len(q) - n
         /\ DOMAIN SubSeq(q, n + 1, Len(q)) = 1 .. Len(q) - n
         /\ \A k \in 1 .. Len(q) - n :
              k + n \in 1 .. Len(q) /\ SubSeq(q, n + 1, Len(q))[k] = q[k + n]
<1>1. Len(q) \in Nat /\ n \in Nat /\ n <= Len(q)
  BY LenProperties
<1> DEFINE p == SubSeq(q, n + 1, Len(q))
           N == Len(q)
<1>2. \A k \in n + 1 .. Len(q) : q[k] \in S
  <2>1. \A k \in n + 1 .. Len(q) : k \in 1 .. Len(q)
    BY <1>1
  <2>2. QED
    BY <2>1, ElementOfSeq
<1>3. /\ p \in Seq(S)
      /\ Len(p) = IF n + 1 <= N THEN N - (n + 1) + 1 ELSE 0
      /\ \A k \in 1 .. N - (n + 1) + 1 : p[k] = q[n + 1 + k - 1]
  <2>1. n + 1 \in Int /\ Len(q) \in Int
    BY <1>1
  <2>2. QED
    BY <1>2, <2>1, SubSeqProperties
<1> HIDE DEF p
<1>4. Len(p) = N - n
  BY <1>1, <1>3
<1>5. \A k \in 1 .. N - n : k + n \in 1 .. N /\ p[k] = q[k + n]
  <2>1. \A k \in 1 .. N - n :
          k + n \in 1 .. N /\ k \in 1 .. N - (n + 1) + 1 /\ n + 1 + k - 1 = k + n
    BY <1>1
  <2>2. QED
    BY <1>3, <2>1
<1>6. DOMAIN p = 1 .. N - n
  BY <1>3, <1>4, LenProperties
<1>7. QED
  BY <1>3, <1>4, <1>5, <1>6 DEF p

LEMMA SplitAt ==
  ASSUME NEW S, NEW q \in Seq(S), NEW n \in 0 .. Len(q)
  PROVE  SubSeq(q, 1, n) \o SubSeq(q, n + 1, Len(q)) = q
<1>1. Len(q) \in Nat /\ n \in Nat /\ n <= Len(q)
  BY LenProperties
<1>2. /\ 1 \in 1 .. Len(q) + 1 /\ n \in 1 - 1 .. Len(q) /\ Len(q) \in n .. Len(q)
  BY <1>1
<1>3. SubSeq(q, 1, n) \o SubSeq(q, n + 1, Len(q)) = SubSeq(q, 1, Len(q))
  BY <1>2, ConcatAdjacentSubSeq
<1>4. QED
  BY <1>3, SubSeqFull

LEMMA SplitAround ==
  ASSUME NEW S, NEW q \in Seq(S), NEW n \in 0 .. Len(q), n < Len(q)
  PROVE  /\ q[n + 1] \in S
         /\ n + 2 \in 1 .. Len(q) + 1 /\ n + 1 \in 0 .. Len(q)
         /\ SubSeq(q, 1, n) \o (<<q[n + 1]>> \o SubSeq(q, n + 2, Len(q))) = q
<1>1. Len(q) \in Nat /\ n \in Nat /\ n + 1 \in 1 .. Len(q)
  BY LenProperties
<1>2. Len(q) \in n + 1 .. Len(q) /\ (n + 1) + 1 = n + 2
  BY <1>1
<1>3. SubSeq(q, n + 1, Len(q)) = <<q[n + 1]>> \o SubSeq(q, n + 2, Len(q))
  BY <1>1, <1>2, SubSeqRecursiveFirst
<1>4. n + 2 \in 1 .. Len(q) + 1 /\ n + 1 \in 0 .. Len(q)
  BY <1>1
<1>5. QED
  BY <1>1, <1>3, <1>4, SplitAt, ElementOfSeq

(* What becomes of the lines of a buffer when some are taken. *)
LEMMA TakenFirst ==
  ASSUME NEW q \in Seq(Line), NEW n \in 0 .. Len(q)
  PROVE  /\ SubSeq(q, 1, n) \in Seq(Line)
         /\ OutputOK(q) => OutputOK(SubSeq(q, 1, n))
         /\ SocketOK(q) => SocketOK(SubSeq(q, 1, n)) /\ InputOK(SubSeq(q, 1, n))
<1> DEFINE p == SubSeq(q, 1, n)
<1>1. /\ p \in Seq(Line) /\ DOMAIN p = 1 .. n
      /\ \A k \in 1 .. n : k \in DOMAIN q /\ p[k] = q[k]
  BY Prefix, LenProperties
<1> HIDE DEF p
<1>2. \A k \in DOMAIN p : k \in DOMAIN q /\ p[k] = q[k]
  BY <1>1
<1>3. QED
  BY <1>1, <1>2 DEF p, OutputOK, SocketOK, InputOK

LEMMA LeftOver ==
  ASSUME NEW q \in Seq(Line), NEW n \in 0 .. Len(q)
  PROVE  LET p == SubSeq(q, n + 1, Len(q))
         IN  /\ p \in Seq(Line)
             /\ OutputOK(q) => OutputOK(p)
             /\ SocketOK(q) => SocketOK(p) /\ (n >= 1 => OutputOK(p))
             /\ InputOK(q) => InputOK(p)
             /\ InputOK(q) /\ n >= 1 => \A k \in DOMAIN p : p[k].part # "rest"
<1> DEFINE p == SubSeq(q, n + 1, Len(q))
<1>1. /\ p \in Seq(Line) /\ DOMAIN p = 1 .. Len(q) - n /\ Len(p) = Len(q) - n
      /\ \A k \in 1 .. Len(q) - n : k + n \in DOMAIN q /\ p[k] = q[k + n]
      /\ Len(q) \in Nat
  BY Suffix, LenProperties
<1> HIDE DEF p
<1>2. \A k \in DOMAIN p :
        /\ k + n \in DOMAIN q /\ p[k] = q[k + n] /\ p[k] \in Line
        /\ (k + n = 1 => k = 1) /\ (n >= 1 => k + n # 1) /\ (k + n = Len(q) => k = Len(p))
  <2>1. \A k \in 1 .. Len(q) - n :
          (k + n = 1 => k = 1) /\ (n >= 1 => k + n # 1) /\ (k + n = Len(q) => k = Len(p))
    BY <1>1
  <2>2. \A k \in 1 .. Len(p) : p[k] \in Line
    BY <1>1, ElementOfSeq
  <2>3. QED
    BY <1>1, <2>1, <2>2
<1>3. OutputOK(q) => OutputOK(p)
  BY <1>2 DEF OutputOK
<1>4. SocketOK(q) => SocketOK(p)
  BY <1>2 DEF SocketOK
<1>5. SocketOK(q) /\ n >= 1 => OutputOK(p)
  <2>1. \A x \in Line : x.part \in {"head", "last", "piece", "rest"}
    BY LineTyped
  <2>2. QED
    BY <1>2, <2>1 DEF SocketOK, OutputOK
<1>6. InputOK(q) => InputOK(p)
  BY <1>2 DEF InputOK
<1>7. InputOK(q) /\ n >= 1 => \A k \in DOMAIN p : p[k].part # "rest"
  BY <1>2 DEF InputOK
<1>8. QED
  BY <1>1, <1>3, <1>4, <1>5, <1>6, <1>7 DEF p

LEMMA OutputIsSocket ==
  ASSUME NEW q \in Seq(Line), OutputOK(q)
  PROVE  SocketOK(q)
BY DEF OutputOK, SocketOK

(* Lines that were written come behind those in the kernel. *)
LEMMA Written ==
  ASSUME NEW s \in Seq(Line), NEW o \in Seq(Line), SocketOK(s), OutputOK(o)
  PROVE  s \o o \in Seq(Line) /\ SocketOK(s \o o)
<1> DEFINE w == s \o o
<1>1. /\ w \in Seq(Line) /\ Len(w) = Len(s) + Len(o) /\ Len(s) \in Nat /\ Len(o) \in Nat
      /\ \A n \in 1 .. Len(s) : w[n] = s[n]
      /\ \A n \in 1 .. Len(o) : w[Len(s) + n] = o[n]
      /\ DOMAIN w = 1 .. Len(w) /\ DOMAIN s = 1 .. Len(s) /\ DOMAIN o = 1 .. Len(o)
  BY Concat, LenProperties
<1> HIDE DEF w
<1>2. ASSUME NEW n \in DOMAIN w
      PROVE  w[n].part # "piece" /\ (w[n].part = "rest" => n = 1)
  <2>1. CASE n \in DOMAIN s
    BY <1>1, <2>1 DEF SocketOK
  <2>2. CASE n \notin DOMAIN s
    <3>1. n - Len(s) \in DOMAIN o /\ Len(s) + (n - Len(s)) = n
      BY <1>1, <1>2, <2>2
    <3>2. w[n] = o[n - Len(s)]
      BY <1>1, <3>1
    <3>3. QED
      BY <3>1, <3>2 DEF OutputOK
  <2>3. QED
    BY <2>1, <2>2
<1>3. SocketOK(w)
  BY <1>2 DEF SocketOK
<1>4. QED
  BY <1>1, <1>3 DEF w

LEMMA Posted ==
  ASSUME NEW o \in Seq(Line), OutputOK(o), NEW m \in Message
  PROVE  o \o Lines(m) \in Seq(Line) /\ OutputOK(o \o Lines(m))
<1>1. PICK h, l \in Line : h.part = "head" /\ l.part = "last" /\ Lines(m) = <<h, l>>
  BY LinesAre
<1> DEFINE d == <<h, l>>
           w == o \o d
<1>2. d \in Seq(Line) /\ Len(d) = 2 /\ d[1] = h /\ d[2] = l
  BY Pair
<1> HIDE DEF d
<1>3. /\ w \in Seq(Line) /\ Len(w) = Len(o) + 2 /\ Len(o) \in Nat
      /\ \A n \in 1 .. Len(o) : w[n] = o[n]
      /\ \A n \in 1 .. 2 : w[Len(o) + n] = d[n]
      /\ DOMAIN w = 1 .. Len(w) /\ DOMAIN o = 1 .. Len(o)
  <2>1. /\ w \in Seq(Line) /\ Len(w) = Len(o) + Len(d) /\ Len(o) \in Nat
        /\ \A n \in 1 .. Len(o) : w[n] = o[n]
        /\ \A n \in 1 .. Len(d) : w[Len(o) + n] = d[n]
    <3>1. d \in Seq(Line)
      BY <1>2
    <3>2. QED
      BY <3>1, Concat
  <2>2. DOMAIN w = 1 .. Len(w) /\ DOMAIN o = 1 .. Len(o)
    BY <2>1, LenProperties
  <2> HIDE DEF w
  <2>3. QED
    BY <1>2, <2>1, <2>2
<1> HIDE DEF w
<1>4. ASSUME NEW n \in DOMAIN w
      PROVE  w[n].part \in {"head", "last"}
  <2>1. CASE n \in DOMAIN o
    BY <1>3, <2>1 DEF OutputOK
  <2>2. CASE n \notin DOMAIN o
    <3>1. n = Len(o) + 1 \/ n = Len(o) + 2
      BY <1>3, <1>4, <2>2
    <3>2. w[Len(o) + 1] = h /\ w[Len(o) + 2] = l
      BY <1>2, <1>3
    <3>3. QED
      BY <1>1, <3>1, <3>2
  <2>3. QED
    BY <2>1, <2>2
<1>5. OutputOK(w)
  BY <1>4 DEF OutputOK
<1>6. QED
  BY <1>1, <1>3, <1>5 DEF w, d

(* The rest of a line comes first. *)
LEMMA RestFirst ==
  ASSUME NEW x \in Line, NEW q \in Seq(Line)
  PROVE  LET p == <<Cut(x, "rest")>> \o q
         IN  /\ p \in Seq(Line) /\ p # << >> /\ Head(p).part = "rest"
             /\ SocketOK(q) /\ OutputOK(q) => SocketOK(p)
             /\ InputOK(q) /\ (\A k \in DOMAIN q : q[k].part # "rest") => InputOK(p)
<1> DEFINE r == Cut(x, "rest")
           a == <<r>>
           p == a \o q
<1>1. r \in Line /\ r.part = "rest"
  BY DEF Cut, Line
<1> HIDE DEF r
<1>2. a \in Seq(Line) /\ Len(a) = 1 /\ a[1] = r /\ a # << >> /\ Head(a) = r
  BY <1>1, Single
<1> HIDE DEF a
<1>3. /\ p \in Seq(Line) /\ Len(p) = 1 + Len(q) /\ Len(q) \in Nat
      /\ DOMAIN p = 1 .. Len(p) /\ DOMAIN q = 1 .. Len(q)
      /\ \A n \in 1 .. 1 : p[n] = a[n]
      /\ \A n \in 1 .. Len(q) : p[1 + n] = q[n]
  BY <1>2, Concat, LenProperties
<1>4. p # << >> /\ Head(p) = r
  BY <1>2, Concat, EndsOfConcat
<1> HIDE DEF p
<1>5. \A n \in DOMAIN p : \/ n = 1 /\ p[n] = r
                          \/ /\ n - 1 \in DOMAIN q /\ p[n] = q[n - 1] /\ n # 1
                             /\ n - 1 = Len(q) => n = Len(p)
  <2> SUFFICES ASSUME NEW n \in DOMAIN p, n # 1
               PROVE  /\ n - 1 \in DOMAIN q /\ p[n] = q[n - 1]
                      /\ n - 1 = Len(q) => n = Len(p)
    BY <1>2, <1>3
  <2>1. n - 1 \in 1 .. Len(q) /\ 1 + (n - 1) = n
    BY <1>3
  <2>2. QED
    BY <1>3, <2>1
<1>6. SocketOK(q) /\ OutputOK(q) => SocketOK(p)
  BY <1>1, <1>5 DEF SocketOK, OutputOK
<1>7. InputOK(q) /\ (\A k \in DOMAIN q : q[k].part # "rest") => InputOK(p)
  BY <1>1, <1>5 DEF InputOK
<1>8. QED
  BY <1>1, <1>3, <1>4, <1>6, <1>7 DEF p, a, r

(* A read that ends inside a line. *)
LEMMA PieceLast ==
  ASSUME NEW x \in Line, NEW q \in Seq(Line), SocketOK(q)
  PROVE  Append(q, Cut(x, "piece")) \in Seq(Line) /\ InputOK(Append(q, Cut(x, "piece")))
<1> DEFINE r == Cut(x, "piece")
           p == Append(q, r)
<1>1. r \in Line /\ r.part = "piece"
  BY DEF Cut, Line
<1> HIDE DEF r
<1>2. /\ p \in Seq(Line) /\ Len(p) = Len(q) + 1 /\ Len(q) \in Nat
      /\ DOMAIN p = 1 .. Len(p) /\ DOMAIN q = 1 .. Len(q)
      /\ \A n \in 1 .. Len(q) : p[n] = q[n]
      /\ p[Len(q) + 1] = r
  BY <1>1, AppendProperties, LenProperties
<1> HIDE DEF p
<1>3. \A n \in DOMAIN p : \/ n \in DOMAIN q /\ p[n] = q[n]
                          \/ n = Len(p) /\ p[n] = r
  BY <1>2
<1>4. InputOK(p)
  BY <1>1, <1>3 DEF InputOK, SocketOK
<1>5. QED
  BY <1>2, <1>4 DEF p, r

------------------------------------------------------------------------------
(* The types, one variable at a time. *)

Reason == {"up", "closed", "reset", "broken"}

LEMMA Typed ==
  ASSUME ConnectionTypeOK
  PROVE  /\ category \in Category /\ status \in [End -> Status]
         /\ link \in [End -> Reason] /\ events \in [End -> SUBSET {"read", "write"}]
         /\ outputBuf \in [End -> Seq(Line)] /\ socket \in [End -> Seq(Line)]
         /\ inputBuf \in [End -> Seq(Line)] /\ command \in [End -> Seq(Line)]
         /\ posted \in [End -> Seq(Message)] /\ executed \in [End -> Seq(Message)]
         /\ spent \in [post: [End -> Nat], crash: 0 .. MaxCrash]
         /\ \A e \in End :
              /\ OutputOK(outputBuf[e]) /\ SocketOK(socket[e])
              /\ InputOK(inputBuf[e]) /\ CommandOK(command[e])
              /\ Complete(command[e]) => category = "server" /\ e = B
<1>1. Message \cup {Garbled} = Message
  BY GarbledIsMessage
<1>2. executed \in [End -> Seq(Message)]
  <2>1. executed \in [End -> Seq(Message \cup {Garbled})]
    BY DEF ConnectionTypeOK
  <2>2. QED
    BY <1>1, <2>1
<1>3. QED
  BY <1>2, Zenon DEF ConnectionTypeOK, Reason

LEMMA TypedAfter ==
  ASSUME category' \in Category, status' \in [End -> Status],
         link' \in [End -> Reason], events' \in [End -> SUBSET {"read", "write"}],
         outputBuf' \in [End -> Seq(Line)], socket' \in [End -> Seq(Line)],
         inputBuf' \in [End -> Seq(Line)], command' \in [End -> Seq(Line)],
         posted' \in [End -> Seq(Message)], executed' \in [End -> Seq(Message)],
         spent' \in [post: [End -> Nat], crash: 0 .. MaxCrash],
         \A e \in End :
           /\ OutputOK(outputBuf'[e]) /\ SocketOK(socket'[e])
           /\ InputOK(inputBuf'[e]) /\ CommandOK(command'[e])
           /\ Complete(command'[e]) => category' = "server" /\ e = B
  PROVE  ConnectionTypeOK'
<1>1. Message \cup {Garbled} = Message
  BY GarbledIsMessage
<1>2. executed' \in [End -> Seq(Message \cup {Garbled})]
  BY <1>1
<1>3. QED
  BY <1>2, Zenon DEF ConnectionTypeOK, Reason

LEMMA TwoEnds ==
  ASSUME NEW e \in End
  PROVE  /\ Peer(e) \in End /\ Peer(e) # e /\ Peer(Peer(e)) = e
         /\ \A f \in End : f = e \/ f = Peer(e)
BY EndAssumption DEF End, Peer

LEMMA EmptyBuffer ==
  << >> \in Seq(Line) /\ OutputOK(<< >>) /\ SocketOK(<< >>) /\ InputOK(<< >>)
  /\ CommandOK(<< >>) /\ ~Complete(<< >>)
<1>1. << >> \in Seq(Line) /\ DOMAIN << >> = {}
  OBVIOUS
<1>2. QED
  BY <1>1 DEF OutputOK, SocketOK, InputOK, CommandOK, Complete

(* One end's part of a variable is replaced. *)
LEMMA Replaced ==
  ASSUME NEW S, NEW b \in [End -> S], NEW e \in End, NEW q \in S
  PROVE  /\ [b EXCEPT ![e] = q] \in [End -> S]
         /\ [b EXCEPT ![e] = q][e] = q
         /\ \A f \in End : f # e => [b EXCEPT ![e] = q][f] = b[f]
OBVIOUS

LEMMA InitTypes == ASSUME Init PROVE ConnectionTypeOK
<1>1. << >> \in Seq(Line) /\ << >> \in Seq(Message) /\ << >> \in Seq(Message \cup {Garbled})
  OBVIOUS
<1>2. /\ outputBuf \in [End -> Seq(Line)] /\ socket \in [End -> Seq(Line)]
      /\ inputBuf \in [End -> Seq(Line)] /\ command \in [End -> Seq(Line)]
      /\ posted \in [End -> Seq(Message)]
      /\ executed \in [End -> Seq(Message \cup {Garbled})]
  BY <1>1 DEF Init
<1>3. \A e \in End : /\ outputBuf[e] = << >> /\ socket[e] = << >>
                     /\ inputBuf[e] = << >> /\ command[e] = << >>
  BY DEF Init
<1>4. \A e \in End :
        /\ OutputOK(outputBuf[e]) /\ SocketOK(socket[e])
        /\ InputOK(inputBuf[e]) /\ CommandOK(command[e])
        /\ Complete(command[e]) => category = "server" /\ e = B
  BY <1>3, EmptyBuffer
<1>5. /\ category \in Category /\ status \in [End -> Status]
      /\ link \in [End -> {"up", "closed", "reset", "broken"}]
      /\ events \in [End -> SUBSET {"read", "write"}]
  BY DEF Init, Status
<1>6. spent \in [post: [End -> Nat], crash: 0 .. MaxCrash]
  BY ConnectionBoundAssumption DEF Init
<1>7. QED
  BY <1>2, <1>4, <1>5, <1>6, Zenon DEF ConnectionTypeOK

(* A message is sent: what Post and Execute have in common. *)
LEMMA SendTypes ==
  ASSUME ConnectionTypeOK, NEW e \in End, NEW m \in Message, Send(e, m)
  PROVE  /\ events' \in [End -> SUBSET {"read", "write"}]
         /\ outputBuf' \in [End -> Seq(Line)] /\ posted' \in [End -> Seq(Message)]
         /\ \A f \in End : OutputOK(outputBuf'[f])
<1>1. /\ events' = [events EXCEPT ![e] = ReadyToSend(events[e])]
      /\ outputBuf' = [outputBuf EXCEPT ![e] = outputBuf[e] \o Lines(m)]
      /\ posted' = [posted EXCEPT ![e] = Append(posted[e], m)]
  BY DEF Send
<1>2. /\ events \in [End -> SUBSET {"read", "write"}]
      /\ outputBuf \in [End -> Seq(Line)] /\ posted \in [End -> Seq(Message)]
      /\ \A f \in End : OutputOK(outputBuf[f])
  BY Typed
<1>3. outputBuf[e] \o Lines(m) \in Seq(Line) /\ OutputOK(outputBuf[e] \o Lines(m))
  BY <1>2, Posted
<1>4. ReadyToSend(events[e]) \in SUBSET {"read", "write"}
  BY <1>2 DEF ReadyToSend
<1>5. Append(posted[e], m) \in Seq(Message)
  BY <1>2, AppendProperties
<1>6. events' \in [End -> SUBSET {"read", "write"}]
  BY <1>1, <1>2, <1>4
<1>7. outputBuf' \in [End -> Seq(Line)] /\ \A f \in End : OutputOK(outputBuf'[f])
  BY <1>1, <1>2, <1>3
<1>8. posted' \in [End -> Seq(Message)]
  BY <1>1, <1>2, <1>5
<1>9. QED
  BY <1>6, <1>7, <1>8

LEMMA NextMessage ==
  ASSUME ConnectionTypeOK, NEW e \in End, NEW r \in BOOLEAN
  PROVE  [number |-> Len(posted[e]) + 1, request |-> r] \in Message
<1>1. Len(posted[e]) \in Nat
  BY Typed, LenProperties
<1>2. QED
  BY <1>1 DEF Message

LEMMA PostTypes ==
  ASSUME ConnectionTypeOK, NEW e \in End, Post(e)
  PROVE  ConnectionTypeOK'
<1> DEFINE m == [number |-> Len(posted[e]) + 1, request |-> TRUE]
<1>1. m \in Message
  BY NextMessage
<1>2. Send(e, m) /\ spent' = [spent EXCEPT !.post[e] = spent.post[e] + 1]
  BY DEF Post
<1>3. UNCHANGED <<category, status, link, socket, inputBuf, command, executed>>
  BY DEF Post
<1> HIDE DEF m
<1>4. /\ events' \in [End -> SUBSET {"read", "write"}]
      /\ outputBuf' \in [End -> Seq(Line)] /\ posted' \in [End -> Seq(Message)]
      /\ \A f \in End : OutputOK(outputBuf'[f])
  BY <1>1, <1>2, SendTypes
<1>5. spent' \in [post: [End -> Nat], crash: 0 .. MaxCrash]
  <2> DEFINE n == [spent.post EXCEPT ![e] = spent.post[e] + 1]
  <2>1. spent \in [post: [End -> Nat], crash: 0 .. MaxCrash]
    BY Typed
  <2>2. n \in [End -> Nat]
    BY <2>1
  <2>3. spent' = [spent EXCEPT !.post = n]
    BY <1>2
  <2> HIDE DEF n
  <2>4. QED
    BY <2>1, <2>2, <2>3
<1>6. QED
  BY <1>3, <1>4, <1>5, Typed, TypedAfter

LEMMA CloseTypes ==
  ASSUME ConnectionTypeOK, NEW e \in End, NEW how \in Status, Close(e, how),
         spent' \in [post: [End -> Nat], crash: 0 .. MaxCrash]
  PROVE  ConnectionTypeOK'
<1> DEFINE p == Peer(e)
           v == CASE link[p] # "up"         -> link[p]
                  [] socket[e] # << >>      -> "reset"
                  [] OTHER                  -> "closed"
<1>1. /\ status' = [status EXCEPT ![e] = how]
      /\ events' = [events EXCEPT ![e] = {}]
      /\ inputBuf' = [inputBuf EXCEPT ![e] = << >>]
      /\ link' = [link EXCEPT ![p] = v]
      /\ UNCHANGED <<category, outputBuf, command, posted, executed>>
  BY DEF Close
<1>2. PICK kept \in 0 .. Len(socket[p]) :
        socket' = [socket EXCEPT ![e] = << >>, ![p] = SubSeq(socket[p], 1, kept)]
  BY TwoEnds DEF Close
<1>3. p \in End /\ p # e /\ \A f \in End : f = e \/ f = p
  BY TwoEnds
<1> HIDE DEF p
<1>4. /\ SubSeq(socket[p], 1, kept) \in Seq(Line)
      /\ SocketOK(SubSeq(socket[p], 1, kept))
  BY <1>3, Typed, TakenFirst
<1>5. /\ socket' \in [End -> Seq(Line)] /\ socket'[e] = << >>
      /\ socket'[p] = SubSeq(socket[p], 1, kept)
  BY <1>2, <1>3, <1>4, Typed, EmptyBuffer
<1>6. \A f \in End : SocketOK(socket'[f])
  BY <1>3, <1>4, <1>5, EmptyBuffer
<1>7. v \in Reason
  BY <1>3, Typed DEF Reason
<1> HIDE DEF v
<1>8. status' \in [End -> Status] /\ link' \in [End -> Reason]
  BY <1>1, <1>3, <1>7, Typed
<1>9. events' \in [End -> SUBSET {"read", "write"}]
  BY <1>1, Typed
<1>10. inputBuf' \in [End -> Seq(Line)] /\ \A f \in End : InputOK(inputBuf'[f])
  BY <1>1, Typed, EmptyBuffer
<1>11. QED
  BY <1>1, <1>5, <1>6, <1>8, <1>9, <1>10, Typed, TypedAfter

(* What resolveReceiveBuf() takes: some lines, up to the end of a message if
   there is one. *)
LEMMA LeastOf ==
  ASSUME NEW T, T \subseteq Nat, T # {}
  PROVE  \E n \in T : \A k \in T : n <= k
<1>1. PICK n \in T : \A k \in T : ~(<<k, n>> \in OpToRel(<, Nat))
  BY NatLessThanWellFounded, WFMin
<1>2. ASSUME NEW k \in T
      PROVE  n <= k
  <2>1. n \in Nat /\ k \in Nat
    OBVIOUS
  <2>2. ~(k < n)
    BY <1>1, <2>1 DEF OpToRel
  <2>3. QED
    BY <2>1, <2>2
<1>3. QED
  BY <1>2

LEMMA TakenSome ==
  ASSUME ConnectionTypeOK, NEW e \in End, inputBuf[e] # << >>
  PROVE  /\ Taken(e) \in 1 .. Len(inputBuf[e])
         /\ inputBuf[e][Taken(e)] \in Line
         /\ \/ EndsMessage(inputBuf[e][Taken(e)])
            \/ Taken(e) = Len(inputBuf[e])
<1> DEFINE q == inputBuf[e]
<1>1. q \in Seq(Line) /\ Len(q) \in Nat \ {0} /\ DOMAIN q = 1 .. Len(q)
  BY Typed, EmptySeq, LenProperties
<1>2. Ends(e) \subseteq DOMAIN q /\ \A n \in Ends(e) : EndsMessage(q[n])
  BY DEF Ends, EndsMessage
<1>3. ASSUME Ends(e) # {}
      PROVE  Min(Ends(e)) \in Ends(e)
  <2>1. \E n \in Ends(e) : \A k \in Ends(e) : n <= k
    BY <1>1, <1>2, <1>3, LeastOf
  <2>2. QED
    BY <2>1 DEF Min
<1>4. Taken(e) = IF Ends(e) = {} THEN Len(q) ELSE Min(Ends(e))
  BY DEF Taken
<1> HIDE DEF q
<1>5. /\ Taken(e) \in 1 .. Len(q)
      /\ EndsMessage(q[Taken(e)]) \/ Taken(e) = Len(q)
  BY <1>1, <1>2, <1>3, <1>4
<1>6. QED
  BY <1>1, <1>5, ElementOfSeq DEF q

(* The parsed command is a sequence of lines, and the lines parsed and those
   left are what there was. *)
LEMMA ParsedLines ==
  ASSUME ConnectionTypeOK, NEW e \in End, inputBuf[e] # << >>
  PROVE  LET t == SubSeq(inputBuf[e], 1, Taken(e))
         IN  /\ t \in Seq(Line) /\ t # << >> /\ Len(t) = Taken(e)
             /\ Parsed(e) = command[e] \o t /\ Parsed(e) \in Seq(Line)
             /\ Parsed(e) # << >>
             /\ Last(Parsed(e)) = inputBuf[e][Taken(e)]
             /\ Last(t) = inputBuf[e][Taken(e)]
             /\ Head(t) = Head(inputBuf[e])
             /\ SubSeq(inputBuf[e], Taken(e) + 1, Len(inputBuf[e])) \in Seq(Line)
             /\ t \o SubSeq(inputBuf[e], Taken(e) + 1, Len(inputBuf[e])) = inputBuf[e]
             /\ DOMAIN ParsedParts(e) = 1 .. Len(Parsed(e))
             /\ \A n \in 1 .. Len(Parsed(e)) : ParsedParts(e)[n] = Parsed(e)[n].part
<1> DEFINE q == inputBuf[e]
           k == Taken(e)
           t == SubSeq(q, 1, k)
<1>1. q \in Seq(Line) /\ command[e] \in Seq(Line) /\ Len(q) \in Nat
  BY Typed, LenProperties
<1>2. k \in 1 .. Len(q)
  BY TakenSome
<1> HIDE DEF q, k
<1>3. k \in 0 .. Len(q) /\ k >= 1
  BY <1>1, <1>2
<1>4. /\ t \in Seq(Line) /\ Len(t) = k
      /\ \A n \in 1 .. k : n \in 1 .. Len(q) /\ t[n] = q[n]
  BY <1>1, <1>3, Prefix
<1>5. t \o SubSeq(q, k + 1, Len(q)) = q /\ SubSeq(q, k + 1, Len(q)) \in Seq(Line)
  BY <1>1, <1>3, SplitAt, Suffix
<1> HIDE DEF t
<1>6. t # << >>
  BY <1>3, <1>4, EmptySeq
<1>7. Head(t) = t[1] /\ Last(t) = t[k] /\ t[1] = q[1] /\ t[k] = q[k]
  <2>1. 1 \in 1 .. k /\ k \in 1 .. k
    BY <1>1, <1>2
  <2>2. QED
    BY <1>4, <1>6, <2>1, EndsOf
<1>8. Head(q) = q[1]
  <2>1. q # << >>
    BY DEF q
  <2>2. QED
    BY <1>1, <2>1, EndsOf
<1>9. Parsed(e) = command[e] \o t
  BY DEF Parsed, t, q, k
<1>10. Parsed(e) \in Seq(Line) /\ Parsed(e) # << >> /\ Last(Parsed(e)) = Last(t)
  BY <1>1, <1>4, <1>6, <1>9, Concat, EndsOfConcat
<1>11. /\ DOMAIN ParsedParts(e) = 1 .. Len(Parsed(e))
       /\ \A n \in 1 .. Len(Parsed(e)) : ParsedParts(e)[n] = Parsed(e)[n].part
  BY <1>10, LenProperties DEF ParsedParts
<1>12. QED
  BY <1>4, <1>5, <1>6, <1>7, <1>8, <1>9, <1>10, <1>11 DEF t, q, k

LEMMA ReadTypes ==
  ASSUME ConnectionTypeOK, NEW e \in End, Read(e)
  PROVE  ConnectionTypeOK'
<1> DEFINE s == socket[e]
<1>1. UNCHANGED <<category, status, link, events, outputBuf, command, posted,
                  executed, spent>>
  BY DEF Read
<1>2. s \in Seq(Line) /\ SocketOK(s) /\ Len(s) \in Nat
  BY Typed, LenProperties
<1>3. PICK n \in 0 .. Len(s) :
        \/ /\ n > 0
           /\ inputBuf' = [inputBuf EXCEPT ![e] = SubSeq(s, 1, n)]
           /\ socket' = [socket EXCEPT ![e] = SubSeq(s, n + 1, Len(s))]
        \/ /\ n < Len(s)
           /\ inputBuf' = [inputBuf EXCEPT
                ![e] = Append(SubSeq(s, 1, n), Cut(s[n + 1], "piece"))]
           /\ socket' = [socket EXCEPT
                ![e] = <<Cut(s[n + 1], "rest")>> \o SubSeq(s, n + 2, Len(s))]
  BY Zenon DEF Read
<1> HIDE DEF s
<1>4. SubSeq(s, 1, n) \in Seq(Line) /\ SocketOK(SubSeq(s, 1, n)) /\ InputOK(SubSeq(s, 1, n))
  BY <1>2, TakenFirst
<1>5. \E i, r \in Seq(Line) :
        /\ InputOK(i) /\ SocketOK(r)
        /\ inputBuf' = [inputBuf EXCEPT ![e] = i]
        /\ socket' = [socket EXCEPT ![e] = r]
  <2>1. CASE /\ n > 0
             /\ inputBuf' = [inputBuf EXCEPT ![e] = SubSeq(s, 1, n)]
             /\ socket' = [socket EXCEPT ![e] = SubSeq(s, n + 1, Len(s))]
    <3>1. SubSeq(s, n + 1, Len(s)) \in Seq(Line) /\ SocketOK(SubSeq(s, n + 1, Len(s)))
      BY <1>2, LeftOver
    <3>2. QED
      BY <1>4, <2>1, <3>1
  <2>2. CASE /\ n < Len(s)
             /\ inputBuf' = [inputBuf EXCEPT
                  ![e] = Append(SubSeq(s, 1, n), Cut(s[n + 1], "piece"))]
             /\ socket' = [socket EXCEPT
                  ![e] = <<Cut(s[n + 1], "rest")>> \o SubSeq(s, n + 2, Len(s))]
    <3>1. s[n + 1] \in Line /\ n + 1 \in 0 .. Len(s) /\ n + 1 >= 1 /\ (n + 1) + 1 = n + 2
      BY <1>2, <2>2, SplitAround
    <3>2. SubSeq(s, n + 2, Len(s)) \in Seq(Line) /\ OutputOK(SubSeq(s, n + 2, Len(s)))
      BY <1>2, <3>1, LeftOver
    <3>3. /\ <<Cut(s[n + 1], "rest")>> \o SubSeq(s, n + 2, Len(s)) \in Seq(Line)
          /\ SocketOK(<<Cut(s[n + 1], "rest")>> \o SubSeq(s, n + 2, Len(s)))
      BY <3>1, <3>2, OutputIsSocket, RestFirst
    <3>4. /\ Append(SubSeq(s, 1, n), Cut(s[n + 1], "piece")) \in Seq(Line)
          /\ InputOK(Append(SubSeq(s, 1, n), Cut(s[n + 1], "piece")))
      BY <1>4, <3>1, PieceLast
    <3>5. QED
      BY <2>2, <3>3, <3>4, Zenon
  <2>3. QED
    BY <1>3, <2>1, <2>2
<1>6. PICK i, r \in Seq(Line) :
        /\ InputOK(i) /\ SocketOK(r)
        /\ inputBuf' = [inputBuf EXCEPT ![e] = i]
        /\ socket' = [socket EXCEPT ![e] = r]
  BY <1>5
<1>7. inputBuf' \in [End -> Seq(Line)] /\ socket' \in [End -> Seq(Line)]
  BY <1>6, Typed
<1>8. \A f \in End : InputOK(inputBuf'[f]) /\ SocketOK(socket'[f])
  BY <1>6, Typed
<1>9. QED
  BY <1>1, <1>7, <1>8, Typed, TypedAfter

LEMMA SendReplyTypes ==
  ASSUME ConnectionTypeOK, NEW e \in End, SendReply(e)
  PROVE  ConnectionTypeOK'
<1> DEFINE p == Peer(e)
           o == outputBuf[e]
<1>1. UNCHANGED <<category, status, inputBuf, posted, executed, spent>>
  BY DEF SendReply
<1>2. PICK n \in 1 .. Len(o) :
        /\ \/ UNCHANGED socket
           \/ socket' = [socket EXCEPT ![p] = socket[p] \o SubSeq(o, 1, n)]
        /\ outputBuf' = [outputBuf EXCEPT ![e] = SubSeq(o, n + 1, Len(o))]
        /\ events' = [events EXCEPT ![e] = AfterWrite(events[e], o, n)]
        /\ command' = [command EXCEPT ![e] = IF n = Len(o) THEN << >> ELSE command[e]]
  BY Zenon DEF SendReply, Unwritten
<1>3. link' = [link EXCEPT ![e] = IF link[e] = "closed" THEN "broken" ELSE link[e]]
  BY DEF SendReply
<1>4. p \in End
  BY TwoEnds
<1>5. o \in Seq(Line) /\ OutputOK(o) /\ Len(o) \in Nat /\ n \in 0 .. Len(o)
  BY Typed, LenProperties
<1>6. events' \in [End -> SUBSET {"read", "write"}]
  <2>1. AfterWrite(events[e], o, n) \in SUBSET {"read", "write"}
    BY Typed DEF AfterWrite
  <2>2. QED
    BY <1>2, <2>1, Typed
<1> HIDE DEF o, p
<1>7. /\ SubSeq(o, 1, n) \in Seq(Line) /\ OutputOK(SubSeq(o, 1, n))
      /\ SubSeq(o, n + 1, Len(o)) \in Seq(Line) /\ OutputOK(SubSeq(o, n + 1, Len(o)))
  BY <1>5, TakenFirst, LeftOver
<1>8. socket[p] \o SubSeq(o, 1, n) \in Seq(Line) /\ SocketOK(socket[p] \o SubSeq(o, 1, n))
  BY <1>4, <1>7, Typed, Written
<1>9. socket' \in [End -> Seq(Line)] /\ \A f \in End : SocketOK(socket'[f])
  BY <1>2, <1>4, <1>8, Typed
<1>10. outputBuf' \in [End -> Seq(Line)] /\ \A f \in End : OutputOK(outputBuf'[f])
  BY <1>2, <1>7, Typed
<1>11. command' \in [End -> Seq(Line)] /\ \A f \in End : command'[f] \in {<< >>, command[f]}
  BY <1>2, Typed, EmptyBuffer
<1>12. \A f \in End : /\ CommandOK(command'[f])
                      /\ Complete(command'[f]) => category' = "server" /\ f = B
  BY <1>1, <1>11, Typed, EmptyBuffer
<1>13. link' \in [End -> Reason]
  BY <1>3, Typed DEF Reason
<1>14. QED
  BY <1>1, <1>6, <1>9, <1>10, <1>11, <1>12, <1>13, Typed, TypedAfter

LEMMA ExecuteTypes ==
  ASSUME ConnectionTypeOK, NEW e \in End, Execute(e)
  PROVE  ConnectionTypeOK'
<1> DEFINE q == inputBuf[e]
           m == Head(Parsed(e)).message
           n == [number |-> Len(posted[e]) + 1, request |-> FALSE]
<1>1. /\ q # << >> /\ Parsed(e) = Lines(m)
      /\ executed' = [executed EXCEPT ![e] = Append(executed[e], m)]
      /\ command' = [command EXCEPT ![e] = AfterCommand(e)]
      /\ inputBuf' = [inputBuf EXCEPT ![e] = SubSeq(q, Taken(e) + 1, Len(q))]
      /\ UNCHANGED <<category, status, link, socket, spent>>
  BY DEF Execute, Parses
<1>2. Send(e, n) \/ UNCHANGED <<events, outputBuf, posted>>
  BY DEF Execute
<1>3. Parsed(e) \in Seq(Line) /\ Taken(e) \in 1 .. Len(q) /\ q \in Seq(Line)
      /\ InputOK(q) /\ Len(q) \in Nat
  BY <1>1, ParsedLines, TakenSome, Typed, LenProperties
<1>4. Parsed(e) # << >> /\ Head(Parsed(e)) \in Line /\ m \in Message
  <2>1. Parsed(e) # << >>
    BY <1>1, ParsedLines
  <2>2. Head(Parsed(e)) \in Line
    BY <1>3, <2>1, EndsOf
  <2>3. QED
    BY <2>1, <2>2, LineTyped
<1>5. n \in Message
  BY NextMessage
<1> HIDE DEF n, m
<1>6. /\ events' \in [End -> SUBSET {"read", "write"}]
      /\ outputBuf' \in [End -> Seq(Line)] /\ posted' \in [End -> Seq(Message)]
      /\ \A f \in End : OutputOK(outputBuf'[f])
  <2>1. CASE Send(e, n)
    BY <1>5, <2>1, SendTypes
  <2>2. CASE UNCHANGED <<events, outputBuf, posted>>
    BY <2>2, Typed
  <2>3. QED
    BY <1>2, <2>1, <2>2
<1>7. executed' \in [End -> Seq(Message)]
  BY <1>1, <1>4, Typed, AppendProperties
<1>8. inputBuf' \in [End -> Seq(Line)] /\ \A f \in End : InputOK(inputBuf'[f])
  <2> HIDE DEF q
  <2>1. Taken(e) \in 0 .. Len(q)
    BY <1>3
  <2>2. SubSeq(q, Taken(e) + 1, Len(q)) \in Seq(Line)
        /\ InputOK(SubSeq(q, Taken(e) + 1, Len(q)))
    BY <1>3, <2>1, LeftOver
  <2>3. QED
    BY <1>1, <2>2, Typed
<1>9. /\ command' \in [End -> Seq(Line)]
      /\ \A f \in End : /\ CommandOK(command'[f])
                        /\ Complete(command'[f]) => category' = "server" /\ f = B
  <2>1. PICK h, l \in Line :
          /\ h = [message |-> m, part |-> "head"] /\ l = [message |-> m, part |-> "last"]
          /\ Lines(m) = <<h, l>>
    BY <1>4, LinesAre
  <2>2. h.message = m /\ h.part = "head" /\ l.message = m /\ l.part = "last"
    BY <2>1
  <2>3. CommandOK(Lines(m))
    <3> DEFINE d == <<h, l>>
    <3>1. d \in Seq(Line) /\ Len(d) = 2 /\ d[1] = h /\ d[2] = l /\ Head(d) = h
      BY Pair
    <3> HIDE DEF d
    <3>2. DOMAIN d = 1 .. 2 /\ \A k \in 1 .. 2 : k = 1 \/ k = 2
      BY <3>1, LenProperties
    <3>3. CommandOK(d)
      BY <2>2, <3>1, <3>2 DEF CommandOK
    <3>4. QED
      BY <2>1, <3>3 DEF d
  <2>4. /\ AfterCommand(e) \in Seq(Line) /\ CommandOK(AfterCommand(e))
        /\ AfterCommand(e) # << >> => category = "server" /\ e = B
    BY <1>1, <1>3, <2>3, EmptyBuffer DEF AfterCommand
  <2>5. command' \in [End -> Seq(Line)]
    BY <1>1, <2>4, Typed
  <2>6. ASSUME NEW f \in End
        PROVE  /\ CommandOK(command'[f])
               /\ Complete(command'[f]) => category' = "server" /\ f = B
    <3>1. CASE f = e
      <4>1. command'[f] = AfterCommand(e)
        BY <1>1, <3>1, Typed
      <4>2. Complete(AfterCommand(e)) => AfterCommand(e) # << >>
        BY DEF Complete
      <4>3. QED
        BY <1>1, <2>4, <3>1, <4>1, <4>2
    <3>2. CASE f # e
      <4>1. command'[f] = command[f]
        BY <1>1, <3>2, Typed
      <4>2. QED
        BY <1>1, <4>1, Typed
    <3>3. QED
      BY <3>1, <3>2
  <2>7. QED
    BY <2>5, <2>6
<1>10. QED
  BY <1>1, <1>6, <1>7, <1>8, <1>9, Typed, TypedAfter

LEMMA ExecuteGarbledTypes ==
  ASSUME ConnectionTypeOK, NEW e \in End, ExecuteGarbled(e)
  PROVE  ConnectionTypeOK'
<1> DEFINE q == inputBuf[e]
<1>1. /\ q # << >>
      /\ executed' = [executed EXCEPT ![e] = Append(executed[e], Garbled)]
      /\ command' = [command EXCEPT ![e] = << >>]
      /\ inputBuf' = [inputBuf EXCEPT
           ![e] = <<Cut(q[Taken(e)], "rest")>> \o SubSeq(q, Taken(e) + 1, Len(q))]
      /\ UNCHANGED <<category, status, link, events, outputBuf, socket, posted, spent>>
  BY DEF ExecuteGarbled, Parses
<1>2. /\ Taken(e) \in 1 .. Len(q) /\ q \in Seq(Line) /\ q[Taken(e)] \in Line
      /\ InputOK(q) /\ Len(q) \in Nat
  BY <1>1, TakenSome, Typed, LenProperties
<1> HIDE DEF q
<1>3. Taken(e) \in 0 .. Len(q) /\ Taken(e) >= 1
  BY <1>2
<1> DEFINE r == SubSeq(q, Taken(e) + 1, Len(q))
           i == <<Cut(q[Taken(e)], "rest")>> \o r
<1>4. r \in Seq(Line) /\ InputOK(r) /\ \A k \in DOMAIN r : r[k].part # "rest"
  BY <1>2, <1>3, LeftOver
<1> HIDE DEF r
<1>5. i \in Seq(Line) /\ InputOK(i)
  BY <1>2, <1>4, RestFirst
<1>6. inputBuf' = [inputBuf EXCEPT ![e] = i]
  BY <1>1 DEF r
<1> HIDE DEF i
<1>7. inputBuf' \in [End -> Seq(Line)] /\ \A f \in End : InputOK(inputBuf'[f])
  BY <1>5, <1>6, Typed
<1>8. command' \in [End -> Seq(Line)] /\ \A f \in End : command'[f] \in {<< >>, command[f]}
  BY <1>1, Typed, EmptyBuffer
<1>9. \A f \in End : /\ CommandOK(command'[f])
                     /\ Complete(command'[f]) => category' = "server" /\ f = B
  BY <1>1, <1>8, Typed, EmptyBuffer
<1>10. executed' \in [End -> Seq(Message)]
  BY <1>1, Typed, GarbledIsMessage, AppendProperties
<1>11. QED
  BY <1>1, <1>7, <1>8, <1>9, <1>10, Typed, TypedAfter

------------------------------------------------------------------------------
(* The stream, in parts. *)

Coming(e) == IF Open(Peer(e)) THEN outputBuf[Peer(e)] ELSE << >>

LEMMA ThreeParts ==
  \A a, b, c \in Seq(Line) : (a \o b) \o c = a \o (b \o c)
BY ConcatAssociative

LEMMA TwoParts ==
  \A a, b \in Seq(Line) : a \o b \in Seq(Line)
BY Concat

LEMMA Joined ==
  \A a, b \in Seq(Line) :
    /\ a # << >> => a \o b # << >> /\ Head(a \o b) = Head(a)
    /\ b # << >> => a \o b # << >> /\ Last(a \o b) = Last(b)
    /\ a = << >> => a \o b = b
    /\ b = << >> => a \o b = a
<1> TAKE a, b \in Seq(Line)
<1>1. a \o b = << >> <=> a = << >> /\ b = << >>
  BY Concat
<1>2. QED
  BY <1>1, EndsOfConcat

LEMMA StreamParts ==
  ASSUME ConnectionTypeOK, NEW e \in End
  PROVE  /\ Coming(e) \in Seq(Line)
         /\ socket[e] \o Coming(e) \in Seq(Line)
         /\ inputBuf[e] \o (socket[e] \o Coming(e)) \in Seq(Line)
         /\ Stream(e) = command[e] \o (inputBuf[e] \o (socket[e] \o Coming(e)))
         /\ Stream(e) \in Seq(Line)
<1>1. Coming(e) \in Seq(Line)
  BY Typed, TwoEnds, EmptyBuffer DEF Coming
<1>2. command[e] \in Seq(Line) /\ inputBuf[e] \in Seq(Line) /\ socket[e] \in Seq(Line)
  BY Typed
<1>3. Stream(e) = ((command[e] \o inputBuf[e]) \o socket[e]) \o Coming(e)
  BY DEF Stream, Coming
<1>4. PICK a, b, c, d \in Seq(Line) :
        a = command[e] /\ b = inputBuf[e] /\ c = socket[e] /\ d = Coming(e)
  BY <1>1, <1>2
<1>5. /\ c \o d \in Seq(Line) /\ b \o (c \o d) \in Seq(Line)
      /\ a \o (b \o (c \o d)) \in Seq(Line)
  BY TwoParts
<1>6. ((a \o b) \o c) \o d = a \o (b \o (c \o d))
  <2>1. a \o b \in Seq(Line) /\ c \o d \in Seq(Line)
    BY TwoParts
  <2>2. ((a \o b) \o c) \o d = (a \o b) \o (c \o d)
    BY <2>1, ThreeParts, SMTT(30)
  <2>3. (a \o b) \o (c \o d) = a \o (b \o (c \o d))
    BY <2>1, ThreeParts, SMTT(30)
  <2>4. QED
    BY <2>2, <2>3
<1>7. QED
  BY <1>1, <1>3, <1>4, <1>5, <1>6

(* What was parsed comes first. *)
LEMMA ParsedOfStream ==
  ASSUME ConnectionTypeOK, NEW e \in End, inputBuf[e] # << >>
  PROVE  LET left == SubSeq(inputBuf[e], Taken(e) + 1, Len(inputBuf[e]))
         IN  /\ left \o (socket[e] \o Coming(e)) \in Seq(Line)
             /\ Stream(e) = Parsed(e) \o (left \o (socket[e] \o Coming(e)))
<1>1. PICK a, t, b, c \in Seq(Line) :
        /\ a = command[e] /\ t = SubSeq(inputBuf[e], 1, Taken(e))
        /\ b = SubSeq(inputBuf[e], Taken(e) + 1, Len(inputBuf[e]))
        /\ c = socket[e] \o Coming(e)
        /\ Parsed(e) = a \o t /\ t \o b = inputBuf[e]
  <2>1. command[e] \in Seq(Line) /\ socket[e] \o Coming(e) \in Seq(Line)
    BY Typed, StreamParts
  <2>2. LET t == SubSeq(inputBuf[e], 1, Taken(e))
            b == SubSeq(inputBuf[e], Taken(e) + 1, Len(inputBuf[e]))
        IN  /\ t \in Seq(Line) /\ b \in Seq(Line)
            /\ Parsed(e) = command[e] \o t /\ t \o b = inputBuf[e]
    BY ParsedLines
  <2>3. QED
    BY <2>1, <2>2, Zenon
<1>2. Stream(e) = a \o (inputBuf[e] \o c)
  BY <1>1, StreamParts
<1>3. (t \o b) \o c = t \o (b \o c)
  BY ThreeParts
<1>4. a \o t \in Seq(Line) /\ b \o c \in Seq(Line)
  BY TwoParts
<1>5. (a \o t) \o (b \o c) = a \o (t \o (b \o c))
  BY <1>4, ThreeParts, SMTT(30)
<1>6. QED
  BY <1>1, <1>2, <1>3, <1>4, <1>5

(* While it is in step, what an end has parsed is of one message, the next one
   it will execute. *)
LEMMA ParsedIsNext ==
  ASSUME ConnectionTypeOK, NEW e \in End, inputBuf[e] # << >>, InStep(e)
  PROVE  /\ Consecutive(Parsed(e), posted[Peer(e)])
         /\ Head(Parsed(e)).message.number =
              Len(executed[e]) + (IF Complete(command[e]) THEN 0 ELSE 1)
<1> DEFINE r == SubSeq(inputBuf[e], Taken(e) + 1, Len(inputBuf[e])) \o (socket[e] \o Coming(e))
<1>1. /\ Parsed(e) \in Seq(Line) /\ Parsed(e) # << >>
      /\ r \in Seq(Line) /\ Stream(e) = Parsed(e) \o r
  BY ParsedLines, ParsedOfStream
<1> HIDE DEF r
<1>2. Consecutive(Parsed(e), posted[Peer(e)])
  BY <1>1, ConsecutiveConcat DEF InStep
<1>3. Stream(e) # << >> /\ Head(Stream(e)) = Head(Parsed(e))
  BY <1>1, Concat, EndsOfConcat
<1>4. QED
  BY <1>2, <1>3 DEF InStep

(* What Keep keeps. *)
LEMMA KeptLines ==
  ASSUME ConnectionTypeOK, StreamInv, NEW e \in End, Keep(e)
  PROVE  /\ Open(e) /\ inputBuf[e] # << >> /\ ~IsGarbled(executed[e]) /\ InStep(e)
         /\ Parsed(e) \in Seq(Line)
         /\ CommandOK(Parsed(e)) /\ ~Complete(Parsed(e)) /\ ~Complete(command[e])
         /\ \A n \in DOMAIN Parsed(e) : ~EndsMessage(Parsed(e)[n])
         /\ Parsed(e) = command[e] \o inputBuf[e]
<1>1. Open(e) /\ inputBuf[e] # << >>
      /\ ParsedParts(e) \in {<<"head">>, <<"head", "piece">>, <<"piece">>}
  BY DEF Keep, Parses
<1> DEFINE w == Parsed(e)
           parts == ParsedParts(e)
<1>2. /\ w \in Seq(Line) /\ w # << >> /\ Len(w) \in Nat \ {0}
      /\ DOMAIN w = 1 .. Len(w)
      /\ DOMAIN parts = 1 .. Len(w)
      /\ \A n \in 1 .. Len(w) : parts[n] = w[n].part
      /\ Head(w) = w[1] /\ Last(w) = w[Len(w)]
  <2>1. /\ w \in Seq(Line) /\ w # << >>
        /\ DOMAIN parts = 1 .. Len(w)
        /\ \A n \in 1 .. Len(w) : parts[n] = w[n].part
    BY <1>1, ParsedLines
  <2> HIDE DEF w, parts
  <2>2. QED
    BY <2>1, EndsOf, LenProperties
<1>3. \/ Len(w) = 1 /\ w[1].part \in {"head", "piece"}
      \/ Len(w) = 2 /\ w[1].part = "head" /\ w[2].part = "piece"
  <2> HIDE DEF w
  <2>1. parts \in Seq({"head", "piece"}) /\ Len(parts) \in {1, 2}
        /\ (Len(parts) = 1 => parts[1] \in {"head", "piece"})
        /\ (Len(parts) = 2 => parts[1] = "head" /\ parts[2] = "piece")
    <3>1. parts = <<"head">> \/ parts = <<"head", "piece">> \/ parts = <<"piece">>
      BY <1>1
    <3> HIDE DEF parts
    <3>2. CASE parts = <<"head">>
      BY <3>2, Single
    <3>3. CASE parts = <<"head", "piece">>
      BY <3>3, Pair
    <3>4. CASE parts = <<"piece">>
      BY <3>4, Single
    <3>5. QED
      BY <3>1, <3>2, <3>3, <3>4
  <2> HIDE DEF parts
  <2>2. DOMAIN parts = 1 .. Len(parts)
    BY <2>1, LenProperties
  <2>3. Len(w) = Len(parts)
    BY <1>2, <2>1, <2>2
  <2>4. QED
    BY <1>2, <2>1, <2>3
<1>4. ~IsGarbled(executed[e])
  <2> SUFFICES ASSUME IsGarbled(executed[e])
               PROVE  FALSE
    OBVIOUS
  <2>1. command[e] = << >> /\ Head(inputBuf[e]).part = "rest"
    BY <1>1 DEF StreamInv, WillRefuse
  <2>2. Head(w) = Head(inputBuf[e])
    <3> DEFINE t == SubSeq(inputBuf[e], 1, Taken(e))
    <3>1. t \in Seq(Line) /\ w = << >> \o t /\ Head(t) = Head(inputBuf[e])
      BY <1>1, <2>1, ParsedLines
    <3> HIDE DEF t, w
    <3>2. << >> \o t = t
      BY <3>1, ConcatEmptySeq
    <3>3. QED
      BY <3>1, <3>2
  <2>3. QED
    BY <1>2, <1>3, <2>1, <2>2
<1>5. InStep(e)
  BY <1>1, <1>4 DEF StreamInv
<1>6. \A n \in DOMAIN w : n = 1 \/ (n = 2 /\ Len(w) = 2)
  BY <1>2, <1>3
<1>7. \A n \in DOMAIN w : ~EndsMessage(w[n])
  BY <1>2, <1>3, <1>6 DEF EndsMessage
<1>8. CommandOK(w)
  <2>1. Consecutive(w, posted[Peer(e)])
    BY <1>1, <1>5, ParsedIsNext
  <2> HIDE DEF w
  <2>2. Len(w) = 2 => Follows(w[1], w[2])
    BY <1>2, <2>1 DEF Consecutive
  <2>3. Len(w) = 2 => w[2].message = w[1].message
    BY <1>3, <2>2 DEF Follows, EndsMessage
  <2>4. \A n \in DOMAIN w : w[n].part # "rest" /\ w[n].message = w[1].message
    BY <1>3, <1>6, <2>3
  <2>5. QED
    BY <1>2, <2>4 DEF CommandOK
<1>9. ~Complete(w)
  <2>1. Len(w) \in DOMAIN w
    BY <1>2
  <2>2. QED
    BY <1>2, <1>7, <2>1 DEF Complete, EndsMessage
<1>10. /\ inputBuf[e] \in Seq(Line) /\ Len(inputBuf[e]) \in Nat
       /\ command[e] \in Seq(Line)
  BY Typed, LenProperties
<1>11. Taken(e) = Len(inputBuf[e])
  <2>1. Last(w) = inputBuf[e][Taken(e)]
    BY <1>1, ParsedLines
  <2>2. ~EndsMessage(Last(w))
    BY <1>2, <1>7
  <2>3. QED
    BY <1>1, <2>1, <2>2, TakenSome
<1>12. w = command[e] \o inputBuf[e]
  <2>1. w = command[e] \o SubSeq(inputBuf[e], 1, Len(inputBuf[e]))
    BY <1>1, <1>11, ParsedLines
  <2>2. QED
    BY <1>10, <2>1, SubSeqFull
<1>13. ~Complete(command[e])
  <2> SUFFICES ASSUME Complete(command[e])
               PROVE  FALSE
    OBVIOUS
  <2>1. command[e] # << >> /\ Last(command[e]).part = "last"
    BY DEF Complete
  <2>2. /\ Len(command[e]) \in 1 .. Len(command[e])
        /\ Last(command[e]) = command[e][Len(command[e])]
    BY <1>10, <2>1, EndsOf
  <2>3. /\ w[Len(command[e])] = command[e][Len(command[e])]
        /\ Len(command[e]) \in DOMAIN w
    <3> DEFINE a == command[e]
               b == inputBuf[e]
    <3>1. a \in Seq(Line) /\ b \in Seq(Line) /\ w = a \o b /\ Len(a) \in 1 .. Len(a)
      BY <1>10, <1>12, <2>2
    <3> HIDE DEF a, b, w
    <3>2. Len(w) = Len(a) + Len(b) /\ Len(a) \in Nat /\ Len(b) \in Nat
          /\ \A n \in 1 .. Len(a) : w[n] = a[n]
      BY <3>1, Concat
    <3>3. QED
      BY <1>2, <3>1, <3>2 DEF a
  <2>4. QED
    BY <1>7, <2>1, <2>2, <2>3 DEF EndsMessage
<1>14. QED
  BY <1>1, <1>2, <1>4, <1>5, <1>7, <1>8, <1>9, <1>12, <1>13

LEMMA KeepTypes ==
  ASSUME ConnectionTypeOK, StreamInv, NEW e \in End, Keep(e)
  PROVE  ConnectionTypeOK'
<1>1. /\ command' = [command EXCEPT ![e] = Parsed(e)]
      /\ inputBuf' = [inputBuf EXCEPT ![e] = << >>]
      /\ UNCHANGED <<category, status, link, events, outputBuf, socket, posted,
                     executed, spent>>
  BY DEF Keep
<1>2. Parsed(e) \in Seq(Line) /\ CommandOK(Parsed(e)) /\ ~Complete(Parsed(e))
  BY KeptLines
<1>3. inputBuf' \in [End -> Seq(Line)] /\ \A f \in End : InputOK(inputBuf'[f])
  BY <1>1, Typed, EmptyBuffer
<1>4. command' \in [End -> Seq(Line)] /\ \A f \in End : command'[f] \in {Parsed(e), command[f]}
  BY <1>1, <1>2, Typed
<1>5. \A f \in End : /\ CommandOK(command'[f])
                     /\ Complete(command'[f]) => category' = "server" /\ f = B
  BY <1>1, <1>2, <1>4, Typed
<1>6. QED
  BY <1>1, <1>3, <1>4, <1>5, Typed, TypedAfter

(* The actions that end a connection at one end, and the budget they leave. *)
LEMMA ClosingTypes ==
  ASSUME ConnectionTypeOK, NEW e \in End,
         Crash(e) \/ ReadEnd(e) \/ SendFails(e) \/ SendKills(e) \/ Reject(e)
         \/ ExecuteExits(e)
  PROVE  ConnectionTypeOK'
<1>1. spent \in [post: [End -> Nat], crash: 0 .. MaxCrash]
  BY Typed
<1>2. CASE Crash(e)
  <2>1. /\ spent.crash < MaxCrash
        /\ spent' = [spent EXCEPT !.crash = spent.crash + 1]
        /\ Close(e, "crashed")
    BY <1>2 DEF Crash
  <2>2. spent.crash + 1 \in 0 .. MaxCrash
    BY <1>1, <2>1, ConnectionBoundAssumption
  <2>3. spent' \in [post: [End -> Nat], crash: 0 .. MaxCrash]
    BY <1>1, <2>1, <2>2
  <2>4. QED
    BY <2>1, <2>3, CloseTypes DEF Status
<1>3. CASE ~Crash(e)
  <2>1. spent' = spent /\ \E how \in Status : Close(e, how)
    BY <1>3 DEF ReadEnd, SendFails, SendKills, Reject, ExecuteExits, DeleteClient, Status
  <2>2. QED
    BY <1>1, <2>1, CloseTypes
<1>4. QED
  BY <1>2, <1>3

LEMMA TypeStep ==
  ASSUME ConnectionTypeOK, StreamInv, [Next]_vars
  PROVE  ConnectionTypeOK'
<1>1. CASE UNCHANGED vars
  <2>1. UNCHANGED <<category, status, link, events, outputBuf, socket, inputBuf,
                    command, posted, executed, spent>>
    BY <1>1 DEF vars, bufferVars
  <2>2. QED
    BY <2>1, Typed, TypedAfter
<1>2. ASSUME NEW e \in End,
             \/ Crash(e) \/ ReadEnd(e) \/ SendFails(e) \/ SendKills(e) \/ Reject(e)
             \/ ExecuteExits(e)
      PROVE  ConnectionTypeOK'
  BY <1>2, ClosingTypes
<1>3. ASSUME NEW e \in End,
             \/ Post(e) \/ Read(e) \/ SendReply(e)
             \/ Keep(e) \/ Execute(e) \/ ExecuteGarbled(e)
      PROVE  ConnectionTypeOK'
  BY <1>3, PostTypes, ReadTypes, SendReplyTypes, KeepTypes, ExecuteTypes,
     ExecuteGarbledTypes
<1>4. QED
  BY <1>1, <1>2, <1>3 DEF Next

------------------------------------------------------------------------------
(* InStep, of values: the lines to come, whether the command is an executed one,
   how many were executed, what was posted, and whether the peer is open. *)
Agrees(w, complete, N, P, open) ==
  /\ Consecutive(w, P)
  /\ w # << >> => Head(w).message.number = N + (IF complete THEN 0 ELSE 1)
  /\ open => IF w = << >> THEN N = Len(P)
             ELSE EndsMessage(Last(w)) /\ Last(w).message.number = Len(P)

LEMMA InStepAgrees ==
  ASSUME NEW e \in End
  PROVE  /\ InStep(e) <=> Agrees(Stream(e), Complete(command[e]), Len(executed[e]),
                                 posted[Peer(e)], Open(Peer(e)))
         /\ InStep(e)' <=> Agrees(Stream(e)', Complete(command'[e]), Len(executed'[e]),
                                  posted'[Peer(e)], Open(Peer(e))')
<1>1. Complete(command[e])' = Complete(command'[e])
  BY DEF Complete
<1>2. QED
  BY <1>1 DEF InStep, Agrees, Consecutive, Follows, EndsMessage

LEMMA AgreesGrown ==
  ASSUME NEW w \in Seq(Line), NEW c \in BOOLEAN, NEW N \in Nat,
         NEW P \in Seq(Message), NEW m \in Message, m.number = Len(P) + 1,
         Agrees(w, c, N, P, TRUE), w = << >> => ~c
  PROVE  Agrees(w \o Lines(m), c, N, Append(P, m), TRUE)
<1> DEFINE v == w \o Lines(m)
<1>1. w # << >> => EndsMessage(Last(w)) /\ Last(w).message.number = Len(P)
  BY DEF Agrees
<1>2. Consecutive(w, P)
  BY DEF Agrees
<1>3. /\ v # << >> /\ Consecutive(v, Append(P, m))
      /\ EndsMessage(Last(v)) /\ Last(v).message.number = Len(P) + 1
      /\ Head(v) = IF w = << >> THEN [message |-> m, part |-> "head"] ELSE Head(w)
  BY <1>1, <1>2, ConsecutiveGrows, Zenon
<1> HIDE DEF v
<1>4. Len(Append(P, m)) = Len(P) + 1
  BY AppendProperties
<1>5. Head(v).message.number = N + (IF c THEN 0 ELSE 1)
  <2>1. CASE w = << >>
    <3>1. Head(v).message.number = Len(P) + 1
      BY <1>3, <2>1
    <3>2. N = Len(P) /\ ~c
      BY <2>1 DEF Agrees
    <3>3. QED
      BY <3>1, <3>2
  <2>2. CASE w # << >>
    BY <1>3, <2>2 DEF Agrees
  <2>3. QED
    BY <2>1, <2>2
<1>6. Agrees(v, c, N, Append(P, m), TRUE)
  BY <1>3, <1>4, <1>5 DEF Agrees
<1>7. QED
  BY <1>6 DEF v

LEMMA AgreesCut ==
  ASSUME NEW u \in Seq(Line), NEW v \in Seq(Line), NEW x \in Line, x.part = "last",
         NEW c, NEW N, NEW P, NEW open,
         Agrees(u \o (<<x>> \o v), c, N, P, open)
  PROVE  Agrees(u \o (<<Cut(x, "piece"), Cut(x, "rest")>> \o v), c, N, P, open)
<1>1. PICK p, r \in Line :
        /\ p = Cut(x, "piece") /\ r = Cut(x, "rest")
        /\ p.message = x.message /\ r.message = x.message /\ r.part = "rest"
  <2>1. /\ Cut(x, "piece") \in Line /\ Cut(x, "rest") \in Line
        /\ Cut(x, "piece").message = x.message /\ Cut(x, "rest").message = x.message
        /\ Cut(x, "rest").part = "rest"
    BY DEF Cut, Line
  <2>2. QED
    BY <2>1, Zenon
<1>2. PICK a, b \in Seq(Line) :
        /\ a = <<x>> /\ b = <<p, r>>
        /\ a # << >> /\ Head(a) = x /\ Last(a) = x
        /\ b # << >> /\ Head(b) = p /\ Last(b) = r
  <2>1. <<x>> \in Seq(Line) /\ <<x>> # << >> /\ Head(<<x>>) = x /\ Last(<<x>>) = x
    BY Single
  <2>2. /\ <<p, r>> \in Seq(Line) /\ <<p, r>> # << >>
        /\ Head(<<p, r>>) = p /\ Last(<<p, r>>) = r
    BY Pair
  <2>3. QED
    BY <2>1, <2>2, Zenon
<1>3. PICK s, t \in Seq(Line) :
        /\ s = a \o v /\ t = b \o v
        /\ s # << >> /\ Head(s) = x /\ (v # << >> => Last(s) = Last(v))
        /\ t # << >> /\ Head(t) = p /\ (v # << >> => Last(t) = Last(v))
        /\ (v = << >> => Last(s) = x /\ Last(t) = r)
  <2>1. a \o v \in Seq(Line) /\ b \o v \in Seq(Line)
    BY TwoParts
  <2>2. a \o v # << >> /\ Head(a \o v) = x /\ (v # << >> => Last(a \o v) = Last(v))
        /\ (v = << >> => a \o v = a)
    BY <1>2, Joined
  <2>3. b \o v # << >> /\ Head(b \o v) = p /\ (v # << >> => Last(b \o v) = Last(v))
        /\ (v = << >> => b \o v = b)
    BY <1>2, Joined
  <2>4. QED
    BY <1>2, <2>1, <2>2, <2>3, Zenon
<1>4. /\ u \o s # << >> /\ Last(u \o s) = Last(s)
      /\ Head(u \o s) = IF u = << >> THEN x ELSE Head(u)
  BY <1>3, Joined
<1>5. /\ u \o t # << >> /\ Last(u \o t) = Last(t)
      /\ Head(u \o t) = IF u = << >> THEN p ELSE Head(u)
  BY <1>3, Joined
<1>6. Head(u \o t).message = Head(u \o s).message
  BY <1>1, <1>4, <1>5
<1>7. EndsMessage(Last(u \o s)) => /\ EndsMessage(Last(u \o t))
                                   /\ Last(u \o t).message = Last(u \o s).message
  BY <1>1, <1>3, <1>4, <1>5 DEF EndsMessage
<1>8. Agrees(u \o s, c, N, P, open)
  BY <1>2, <1>3
<1>9. Consecutive(u \o t, P)
  <2>1. Consecutive(u \o (<<x>> \o v), P)
    BY DEF Agrees
  <2>2. QED
    BY <1>1, <1>2, <1>3, <2>1, ConsecutiveCut
<1>10. Agrees(u \o t, c, N, P, open)
  BY <1>4, <1>5, <1>6, <1>7, <1>8, <1>9 DEF Agrees
<1>11. QED
  BY <1>1, <1>2, <1>3, <1>10

LEMMA AgreesShortened ==
  ASSUME NEW u \in Seq(Line), NEW v \in Seq(Line), NEW c, NEW N, NEW P, NEW open,
         Agrees(u \o v, c, N, P, open)
  PROVE  Agrees(u, c, N, P, FALSE)
<1>1. Consecutive(u, P)
  BY ConsecutiveConcat DEF Agrees
<1>2. u # << >> => u \o v # << >> /\ Head(u \o v) = Head(u)
  BY Concat, EndsOfConcat
<1>3. QED
  BY <1>1, <1>2 DEF Agrees

(* resetClient(): what was parsed of a command is cleared. *)
LEMMA AgreesCleared ==
  ASSUME NEW c \in Seq(Line), NEW r \in Seq(Line), CommandOK(c),
         NEW N \in Nat, NEW P \in Seq(Message), NEW open,
         Agrees(c \o r, Complete(c), N, P, open)
  PROVE  Agrees(r, FALSE, N, P, open)
<1>1. CASE c = << >>
  <2>1. c \o r = r /\ ~Complete(c)
    BY <1>1, EndsOfConcat DEF Complete
  <2>2. QED
    BY <2>1 DEF Agrees
<1>2. CASE c # << >>
  <2>1. /\ c \o r # << >> /\ Head(c \o r) = Head(c)
        /\ (r # << >> => Last(c \o r) = Last(r)) /\ (r = << >> => c \o r = c)
    BY <1>2, Concat, EndsOfConcat
  <2>2. /\ Consecutive(c, P) /\ Consecutive(r, P)
        /\ r # << >> => Follows(Last(c), Head(r))
    BY <1>2, ConsecutiveConcat DEF Agrees
  <2>3. /\ Last(c) \in Line /\ Last(c).message = Head(c).message /\ Last(c).part # "rest"
        /\ Head(c) \in Line /\ Head(c).message.number \in Nat
    <3>1. Last(c) = c[Len(c)] /\ Len(c) \in DOMAIN c /\ Last(c) \in Line /\ Head(c) \in Line
      BY <1>2, EndsOf, LenProperties
    <3>2. QED
      BY <3>1, LineTyped DEF CommandOK
  <2>4. Complete(c) <=> EndsMessage(Last(c))
    BY <1>2, <2>3 DEF Complete, EndsMessage
  <2>5. Head(c).message.number = N + (IF Complete(c) THEN 0 ELSE 1)
    BY <2>1 DEF Agrees
  <2>6. r # << >> => Head(r).message.number = N + 1
    <3>1. CASE Complete(c)
      <4>1. r # << >> => Head(r).message.number = Last(c).message.number + 1
        BY <2>2, <2>4, <3>1 DEF Follows
      <4>2. Last(c).message.number = N
        BY <2>3, <2>5, <3>1
      <4>3. QED
        BY <4>1, <4>2
    <3>2. CASE ~Complete(c)
      <4>1. r # << >> => Head(r).message = Last(c).message
        BY <2>2, <2>4, <3>2 DEF Follows
      <4>2. Last(c).message.number = N + 1
        BY <2>3, <2>5, <3>2
      <4>3. QED
        BY <4>1, <4>2
    <3>3. QED
      BY <3>1, <3>2
  <2>7. open /\ r # << >> => EndsMessage(Last(r)) /\ Last(r).message.number = Len(P)
    BY <2>1 DEF Agrees
  <2>8. open /\ r = << >> => N = Len(P)
    <3> SUFFICES ASSUME open, r = << >>
                 PROVE  N = Len(P)
      OBVIOUS
    <3>1. EndsMessage(Last(c)) /\ Last(c).message.number = Len(P)
      BY <1>2, <2>1 DEF Agrees
    <3>2. QED
      BY <2>3, <2>4, <2>5, <3>1
  <2>9. QED
    BY <2>2, <2>6, <2>7, <2>8 DEF Agrees
<1>3. QED
  BY <1>1, <1>2

(* A command is executed, and either reset or left as it is. *)
LEMMA AgreesExecuted ==
  ASSUME NEW m \in Message, NEW r \in Seq(Line), NEW N \in Nat,
         NEW P \in Seq(Message), NEW open,
         Agrees(Lines(m) \o r, FALSE, N, P, open)
  PROVE  /\ N + 1 \in DOMAIN P /\ m = P[N + 1]
         /\ Agrees(Lines(m) \o r, TRUE, N + 1, P, open)
         /\ Agrees(r, FALSE, N + 1, P, open)
<1>1. PICK h, l \in Line :
        /\ h = [message |-> m, part |-> "head"] /\ l = [message |-> m, part |-> "last"]
        /\ Lines(m) = <<h, l>>
  BY LinesAre
<1>2. h.message = m /\ l.message = m /\ l.part = "last"
  BY <1>1
<1>3. PICK d \in Seq(Line) :
        /\ d = Lines(m) /\ d # << >> /\ Len(d) = 2 /\ d[1] = h /\ d[2] = l
        /\ Head(d) = h /\ Last(d) = l
  BY <1>1, Pair
<1>4. PICK w \in Seq(Line) :
        /\ w = d \o r /\ w # << >> /\ Head(w) = h
        /\ (r # << >> => Last(w) = Last(r)) /\ (r = << >> => Last(w) = l)
  <2>1. d \o r \in Seq(Line)
    BY TwoParts
  <2>2. /\ d \o r # << >> /\ Head(d \o r) = h
        /\ (r # << >> => Last(d \o r) = Last(r)) /\ (r = << >> => d \o r = d)
    BY <1>3, Joined
  <2>3. QED
    BY <1>3, <2>1, <2>2, Zenon
<1>5. Agrees(w, FALSE, N, P, open)
  BY <1>3, <1>4
<1>6. m.number = N + 1
  BY <1>2, <1>4, <1>5 DEF Agrees
<1>7. /\ Consecutive(d, P) /\ Consecutive(r, P)
      /\ r # << >> => Follows(l, Head(r))
  BY <1>3, <1>4, <1>5, ConsecutiveConcat DEF Agrees
<1>8. N + 1 \in DOMAIN P /\ m = P[N + 1]
  <2>1. DOMAIN d = 1 .. 2 /\ 1 \in 1 .. 2
    BY <1>3, LenProperties
  <2>2. d[1].message.number \in DOMAIN P /\ d[1].message = P[d[1].message.number]
    BY <1>7, <2>1 DEF Consecutive
  <2>3. QED
    BY <1>2, <1>3, <1>6, <2>2
<1>9. Agrees(w, TRUE, N + 1, P, open)
  BY <1>4, <1>5, <1>6, <1>2 DEF Agrees
<1>10. Agrees(r, FALSE, N + 1, P, open)
  <2>1. r # << >> => Head(r).message.number = N + 1 + 1
    BY <1>2, <1>6, <1>7 DEF Follows, EndsMessage
  <2>2. open /\ r # << >> => EndsMessage(Last(r)) /\ Last(r).message.number = Len(P)
    BY <1>4, <1>5 DEF Agrees
  <2>3. open /\ r = << >> => N + 1 = Len(P)
    BY <1>2, <1>4, <1>5, <1>6 DEF Agrees
  <2>4. QED
    BY <1>7, <2>1, <2>2, <2>3 DEF Agrees
<1>11. QED
  BY <1>3, <1>4, <1>8, <1>9, <1>10


------------------------------------------------------------------------------
(* The three parts of StreamInv, and what they are after a step. *)
Linked(e) == Open(e) <=> link[Peer(e)] = "up"
Numbered(e) == \A n \in DOMAIN posted[e] : posted[e][n].number = n

Reading(open, done, c, i, w, P, peerOpen) ==
  open => IF IsGarbled(done)
          THEN c = << >> /\ i # << >> /\ Head(i).part = "rest"
          ELSE Agrees(w, Complete(c), Len(done), P, peerOpen)
Reads(e) ==
  Reading(Open(e), executed[e], command[e], inputBuf[e], Stream(e), posted[Peer(e)],
          Open(Peer(e)))

LEMMA StreamInvParts ==
  /\ StreamInv <=> \A e \in End : Linked(e) /\ Numbered(e) /\ Reads(e)
  /\ StreamInv' <=> \A e \in End : Linked(e)' /\ Numbered(e)' /\ Reads(e)'
<1>1. \A e \in End : Reads(e) <=>
        (Open(e) => IF IsGarbled(executed[e]) THEN WillRefuse(e) ELSE InStep(e))
  BY InStepAgrees DEF Reads, Reading, WillRefuse
<1>2. \A e \in End : Reads(e)' <=>
        (Open(e)' => IF IsGarbled(executed[e])' THEN WillRefuse(e)' ELSE InStep(e)')
  <2> TAKE e \in End
  <2>1. IsGarbled(executed[e])' <=> IsGarbled(executed'[e])
    BY DEF IsGarbled
  <2>2. Complete(command[e])' <=> Complete(command'[e])
    BY DEF Complete
  <2>3. WillRefuse(e)' <=>
          command'[e] = << >> /\ inputBuf'[e] # << >> /\ Head(inputBuf'[e]).part = "rest"
    BY DEF WillRefuse
  <2>4. Reads(e)' <=>
          (Open(e)' => IF IsGarbled(executed'[e])
                       THEN WillRefuse(e)'
                       ELSE Agrees(Stream(e)', Complete(command'[e]), Len(executed'[e]),
                                   posted'[Peer(e)], Open(Peer(e))'))
    BY <2>1, <2>2, <2>3, Zenon DEF Reads, Reading, Agrees
  <2>5. QED
    BY <2>1, <2>4, InStepAgrees
<1>3. StreamInv <=> \A e \in End : Linked(e) /\ Numbered(e) /\ Reads(e)
  BY <1>1 DEF StreamInv, Linked, Numbered
<1>4. StreamInv' <=> \A e \in End : Linked(e)' /\ Numbered(e)' /\ Reads(e)'
  BY <1>2, Zenon DEF StreamInv, Linked, Numbered
<1>5. QED
  BY <1>3, <1>4

LEMMA ReadsAfter ==
  ASSUME NEW e \in End,
         Reading(status'[e] = "open", executed'[e], command'[e], inputBuf'[e],
                 Stream(e)', posted'[Peer(e)], status'[Peer(e)] = "open")
  PROVE  Reads(e)'
<1>1. /\ IsGarbled(executed[e])' <=> IsGarbled(executed'[e])
      /\ Complete(command[e])' <=> Complete(command'[e])
      /\ Open(e)' <=> status'[e] = "open"
      /\ Open(Peer(e))' <=> status'[Peer(e)] = "open"
  BY DEF IsGarbled, Complete, Open
<1>2. QED
  BY <1>1, Zenon DEF Reads, Reading, Agrees

(* \o by a name of its own, for what needs nothing but these two facts. *)
Cat(a, b) == a \o b
LEMMA CatTyped == \A a, b \in Seq(Line) : Cat(a, b) \in Seq(Line)
BY TwoParts DEF Cat
LEMMA CatThree ==
  \A a, b, c \in Seq(Line) : Cat(Cat(a, b), c) = Cat(a, Cat(b, c))
BY ThreeParts DEF Cat

LEMMA StreamAfter ==
  ASSUME ConnectionTypeOK', NEW e \in End
  PROVE  LET d == IF status'[Peer(e)] = "open" THEN outputBuf'[Peer(e)] ELSE << >>
         IN  /\ Stream(e)' = command'[e] \o (inputBuf'[e] \o (socket'[e] \o d))
             /\ d \in Seq(Line) /\ command'[e] \in Seq(Line)
             /\ inputBuf'[e] \in Seq(Line) /\ socket'[e] \in Seq(Line)
<1> DEFINE d == IF status'[Peer(e)] = "open" THEN outputBuf'[Peer(e)] ELSE << >>
<1>1. /\ outputBuf' \in [End -> Seq(Line)] /\ socket' \in [End -> Seq(Line)]
      /\ inputBuf' \in [End -> Seq(Line)] /\ command' \in [End -> Seq(Line)]
  BY Zenon DEF ConnectionTypeOK
<1>2. /\ d \in Seq(Line) /\ command'[e] \in Seq(Line)
      /\ inputBuf'[e] \in Seq(Line) /\ socket'[e] \in Seq(Line)
  BY <1>1, TwoEnds, EmptyBuffer
<1>3. Stream(e)' = ((command'[e] \o inputBuf'[e]) \o socket'[e]) \o d
  BY DEF Stream, Open
<1> HIDE DEF d
<1>4. PICK a, b, c, q \in Seq(Line) :
        a = command'[e] /\ b = inputBuf'[e] /\ c = socket'[e] /\ q = d
  BY <1>2
<1>5. ((a \o b) \o c) \o q = a \o (b \o (c \o q))
  <2>1. Cat(Cat(Cat(a, b), c), q) = Cat(a, Cat(b, Cat(c, q)))
    BY CatTyped, CatThree
  <2>2. QED
    BY <2>1 DEF Cat
<1>6. Stream(e)' = command'[e] \o (inputBuf'[e] \o (socket'[e] \o d))
  BY <1>3, <1>4, <1>5
<1>7. QED
  BY <1>2, <1>6 DEF d

LEMMA StreamBefore ==
  ASSUME ConnectionTypeOK, NEW e \in End
  PROVE  LET d == IF status[Peer(e)] = "open" THEN outputBuf[Peer(e)] ELSE << >>
         IN  /\ Stream(e) = command[e] \o (inputBuf[e] \o (socket[e] \o d))
             /\ d \in Seq(Line) /\ command[e] \in Seq(Line)
             /\ inputBuf[e] \in Seq(Line) /\ socket[e] \in Seq(Line)
BY StreamParts, Typed DEF Coming, Open

(* An end none of whose parts of the connection changes. *)
LEMMA ReadsUntouched ==
  ASSUME NEW e \in End, Reads(e),
         status'[e] = status[e], executed'[e] = executed[e], command'[e] = command[e],
         inputBuf'[e] = inputBuf[e], socket'[e] = socket[e],
         outputBuf'[Peer(e)] = outputBuf[Peer(e)], posted'[Peer(e)] = posted[Peer(e)],
         status'[Peer(e)] = status[Peer(e)]
  PROVE  Reads(e)'
<1>1. Stream(e)' = Stream(e)
  BY DEF Stream, Open
<1>2. Reading(status'[e] = "open", executed'[e], command'[e], inputBuf'[e],
              Stream(e)', posted'[Peer(e)], status'[Peer(e)] = "open")
  BY <1>1 DEF Reads, Open
<1>3. QED
  BY <1>2, ReadsAfter

(* The same lines are still to come, though some have moved on. *)
LEMMA ReadsMoved ==
  ASSUME NEW e \in End, Reads(e), ~IsGarbled(executed[e]) \/ inputBuf'[e] = inputBuf[e],
         Stream(e)' = Stream(e),
         status'[e] = status[e], executed'[e] = executed[e],
         posted'[Peer(e)] = posted[Peer(e)], status'[Peer(e)] = status[Peer(e)],
         \/ command'[e] = command[e]
         \/ ~IsGarbled(executed[e]) /\ ~Complete(command[e]) /\ ~Complete(command'[e])
  PROVE  Reads(e)'
<1>1. Reading(status'[e] = "open", executed'[e], command'[e], inputBuf'[e],
              Stream(e)', posted'[Peer(e)], status'[Peer(e)] = "open")
  BY Zenon DEF Reads, Reading, Open, Agrees
<1>2. QED
  BY <1>1, ReadsAfter


(* What is sent reaches the other end's stream. *)
LEMMA SendReaches ==
  ASSUME ConnectionTypeOK, ConnectionTypeOK', NEW e \in End, NEW m \in Message,
         m.number = Len(posted[e]) + 1, Open(e), Send(e, m), Reads(Peer(e)),
         status' = status, socket' = socket,
         \A f \in End : f # e => /\ inputBuf'[f] = inputBuf[f] /\ command'[f] = command[f]
                                 /\ executed'[f] = executed[f]
  PROVE  Reads(Peer(e))'
<1>1. PICK p \in End : p = Peer(e) /\ p # e /\ Peer(p) = e
  BY TwoEnds
<1>2. /\ outputBuf'[e] = outputBuf[e] \o Lines(m)
      /\ posted'[e] = Append(posted[e], m)
  BY Typed DEF Send
<1>3. status[e] = "open"
  BY DEF Open
<1>4. PICK a, b, c, d, l \in Seq(Line) :
        /\ a = command[p] /\ b = inputBuf[p] /\ c = socket[p] /\ d = outputBuf[e]
        /\ l = Lines(m)
  <2>1. PICK h, k \in Line : Lines(m) = <<h, k>>
    BY LinesAre
  <2>2. <<h, k>> \in Seq(Line)
    BY Pair
  <2>3. QED
    BY <2>1, <2>2, Typed
<1>5. Stream(p) = a \o (b \o (c \o d))
  BY <1>1, <1>3, <1>4, StreamBefore
<1>6. Stream(p)' = a \o (b \o (c \o (d \o l)))
  BY <1>1, <1>2, <1>3, <1>4, StreamAfter
<1>7. Stream(p)' = Stream(p) \o l
  <2>1. Cat(a, Cat(b, Cat(c, Cat(d, l)))) = Cat(Cat(a, Cat(b, Cat(c, d))), l)
    BY CatTyped, CatThree
  <2>2. a \o (b \o (c \o (d \o l))) = (a \o (b \o (c \o d))) \o l
    BY <2>1 DEF Cat
  <2>3. QED
    BY <1>5, <1>6, <2>2
<1>8. Stream(p) \in Seq(Line) /\ (Stream(p) = << >> => ~Complete(command[p]))
  <2>1. Stream(p) \in Seq(Line)
    BY StreamParts
  <2>2. PICK x \in Seq(Line) : x = c \o d
    BY TwoParts
  <2>3. PICK y \in Seq(Line) : y = b \o x
    BY TwoParts
  <2>4. a # << >> => a \o y # << >>
    BY Joined
  <2>5. Stream(p) = << >> => a = << >>
    BY <1>5, <2>2, <2>3, <2>4
  <2>6. QED
    BY <1>4, <2>1, <2>5, EmptyBuffer
<1>9. /\ posted[e] \in Seq(Message) /\ Len(executed[p]) \in Nat
      /\ Complete(command[p]) \in BOOLEAN
  BY Typed, LenProperties DEF Complete
<1>10. /\ status'[p] = status[p] /\ executed'[p] = executed[p]
       /\ command'[p] = command[p] /\ inputBuf'[p] = inputBuf[p]
       /\ status'[e] = "open"
  BY <1>1, <1>3
<1>11. Reading(status[p] = "open", executed[p], command[p], inputBuf[p], Stream(p), posted[e], TRUE)
  BY <1>1, <1>3 DEF Reads, Open
<1>12. Agrees(Stream(p), Complete(command[p]), Len(executed[p]), posted[e], TRUE)
         => Agrees(Stream(p)', Complete(command[p]), Len(executed[p]), posted'[e], TRUE)
  BY <1>2, <1>4, <1>7, <1>8, <1>9, AgreesGrown
<1>13. Reading(status'[p] = "open", executed'[p], command'[p], inputBuf'[p], Stream(p)',
               posted'[Peer(p)], status'[Peer(p)] = "open")
  BY <1>1, <1>10, <1>11, <1>12 DEF Reading
<1>14. Reads(p)'
  BY <1>13, ReadsAfter
<1>15. QED
  BY <1>1, <1>14

LEMMA NumberedAfter ==
  ASSUME ConnectionTypeOK, NEW e \in End, NEW r \in BOOLEAN,
         Send(e, [number |-> Len(posted[e]) + 1, request |-> r]),
         \A f \in End : Numbered(f)
  PROVE  \A f \in End : Numbered(f)'
<1> DEFINE m == [number |-> Len(posted[e]) + 1, request |-> r]
<1>1. /\ posted' = [posted EXCEPT ![e] = Append(posted[e], m)]
      /\ posted \in [End -> Seq(Message)] /\ m \in Message /\ m.number = Len(posted[e]) + 1
  BY Typed, NextMessage DEF Send
<1> HIDE DEF m
<1>2. TAKE f \in End
<1>3. CASE f # e
  BY <1>1, <1>3 DEF Numbered
<1>4. CASE f = e
  <2>1. /\ posted'[e] = Append(posted[e], m) /\ posted[e] \in Seq(Message)
        /\ Len(posted[e]) \in Nat /\ DOMAIN posted[e] = 1 .. Len(posted[e])
    BY <1>1, LenProperties
  <2>2. /\ DOMAIN Append(posted[e], m) = 1 .. Len(posted[e]) + 1
        /\ \A n \in 1 .. Len(posted[e]) : Append(posted[e], m)[n] = posted[e][n]
        /\ Append(posted[e], m)[Len(posted[e]) + 1] = m
    BY <1>1, <2>1, AppendProperties, LenProperties
  <2>3. ASSUME NEW n \in DOMAIN posted'[e]
        PROVE  posted'[e][n].number = n
    <3>1. n \in 1 .. Len(posted[e]) \/ n = Len(posted[e]) + 1
      BY <2>1, <2>2, <2>3
    <3>2. QED
      BY <1>1, <2>1, <2>2, <3>1 DEF Numbered
  <2>4. QED
    BY <1>4, <2>3 DEF Numbered
<1>5. QED
  BY <1>3, <1>4

LEMMA PostStream ==
  ASSUME ConnectionTypeOK, ConnectionTypeOK', StreamInv, NEW e \in End, Post(e)
  PROVE  StreamInv'
<1> DEFINE m == [number |-> Len(posted[e]) + 1, request |-> TRUE]
<1>1. /\ Open(e) /\ Send(e, m)
      /\ UNCHANGED <<category, status, link, socket, inputBuf, command, executed>>
  BY DEF Post, AtRest
<1>2. \A f \in End : Linked(f) /\ Numbered(f) /\ Reads(f)
  BY StreamInvParts
<1>3. \A f \in End : Linked(f)'
  BY <1>1, <1>2 DEF Linked, Open
<1>4. \A f \in End : Numbered(f)'
  BY <1>1, <1>2, NumberedAfter
<1>5. m \in Message /\ m.number = Len(posted[e]) + 1
  BY NextMessage
<1> HIDE DEF m
<1>6. Reads(Peer(e))'
  BY <1>1, <1>2, <1>5, TwoEnds, SendReaches
<1>7. Reads(e)'
  <2>1. /\ outputBuf'[Peer(e)] = outputBuf[Peer(e)]
        /\ posted'[Peer(e)] = posted[Peer(e)]
    BY <1>1, Typed, TwoEnds DEF Send
  <2>2. QED
    BY <1>1, <1>2, <2>1, ReadsUntouched
<1>8. QED
  BY <1>3, <1>4, <1>6, <1>7, TwoEnds, StreamInvParts


(* An end at rest has not executed what it should not have. *)
LEMMA AtRestInStep ==
  ASSUME ConnectionTypeOK, NEW e \in End, AtRest(e), Reads(e)
  PROVE  /\ ~IsGarbled(executed[e])
         /\ Agrees(Stream(e), Complete(command[e]), Len(executed[e]), posted[Peer(e)],
                   status[Peer(e)] = "open")
BY DEF AtRest, Reads, Reading, Open

(* A read that ends between two lines, and one that cuts a line. *)
LEMMA ReadPlain ==
  ASSUME ConnectionTypeOK, ConnectionTypeOK', NEW e \in End, NEW n \in 0 .. Len(socket[e]),
         inputBuf[e] = << >>,
         inputBuf'[e] = SubSeq(socket[e], 1, n),
         socket'[e] = SubSeq(socket[e], n + 1, Len(socket[e])),
         command' = command, outputBuf' = outputBuf, status' = status
  PROVE  Stream(e)' = Stream(e)
<1> DEFINE out == IF status[Peer(e)] = "open" THEN outputBuf[Peer(e)] ELSE << >>
<1>1. /\ Stream(e) = command[e] \o (inputBuf[e] \o (socket[e] \o out))
      /\ out \in Seq(Line) /\ command[e] \in Seq(Line) /\ socket[e] \in Seq(Line)
  BY StreamBefore
<1>2. Stream(e)' = command[e] \o (inputBuf'[e] \o (socket'[e] \o out))
  BY StreamAfter
<1> HIDE DEF out
<1>3. /\ SubSeq(socket[e], 1, n) \in Seq(Line)
      /\ SubSeq(socket[e], n + 1, Len(socket[e])) \in Seq(Line)
      /\ SubSeq(socket[e], 1, n) \o SubSeq(socket[e], n + 1, Len(socket[e])) = socket[e]
  BY <1>1, Prefix, Suffix, SplitAt
<1>4. PICK a, c, d, x, y \in Seq(Line) :
        /\ a = command[e] /\ c = socket[e] /\ d = out
        /\ x = inputBuf'[e] /\ y = socket'[e] /\ Cat(x, y) = c
  BY <1>1, <1>3, Zenon DEF Cat
<1>5. inputBuf[e] \o (c \o d) = c \o d
  BY TwoParts, ConcatEmptySeq
<1>6. Cat(a, Cat(x, Cat(y, d))) = Cat(a, Cat(c, d))
  <2>1. Cat(Cat(x, y), d) = Cat(x, Cat(y, d))
    BY CatThree
  <2>2. QED
    BY <1>4, <2>1
<1>7. a \o (x \o (y \o d)) = a \o (c \o d)
  BY <1>6 DEF Cat
<1>8. QED
  BY <1>1, <1>2, <1>4, <1>5, <1>7

LEMMA ReadCut ==
  ASSUME ConnectionTypeOK, ConnectionTypeOK', NEW e \in End, NEW n \in 0 .. Len(socket[e]),
         n < Len(socket[e]), inputBuf[e] = << >>, socket[e][n + 1].part = "last",
         inputBuf'[e] = Append(SubSeq(socket[e], 1, n), Cut(socket[e][n + 1], "piece")),
         socket'[e] = <<Cut(socket[e][n + 1], "rest")>>
                        \o SubSeq(socket[e], n + 2, Len(socket[e])),
         command' = command, outputBuf' = outputBuf, status' = status,
         NEW N, NEW P, NEW open,
         Agrees(Stream(e), Complete(command[e]), N, P, open)
  PROVE  Agrees(Stream(e)', Complete(command[e]), N, P, open)
<1> DEFINE out == IF status[Peer(e)] = "open" THEN outputBuf[Peer(e)] ELSE << >>
           s == socket[e]
<1>1. /\ Stream(e) = command[e] \o (inputBuf[e] \o (s \o out))
      /\ out \in Seq(Line) /\ command[e] \in Seq(Line) /\ s \in Seq(Line)
  BY StreamBefore
<1>2. Stream(e)' = command[e] \o (inputBuf'[e] \o (socket'[e] \o out))
  BY StreamAfter
<1> HIDE DEF out, s
<1>3. /\ SubSeq(s, 1, n) \in Seq(Line) /\ s[n + 1] \in Line
      /\ SubSeq(s, n + 2, Len(s)) \in Seq(Line)
      /\ s = SubSeq(s, 1, n) \o (<<s[n + 1]>> \o SubSeq(s, n + 2, Len(s)))
  <2>1. n \in 0 .. Len(s) /\ n < Len(s) /\ Len(s) \in Nat
    BY <1>1, LenProperties DEF s
  <2>2. /\ s[n + 1] \in Line /\ n + 1 \in 0 .. Len(s)
        /\ SubSeq(s, 1, n) \o (<<s[n + 1]>> \o SubSeq(s, n + 2, Len(s))) = s
    BY <1>1, <2>1, SplitAround, Zenon
  <2>6. (n + 1) + 1 = n + 2
    BY <2>1
  <2>3. SubSeq(s, (n + 1) + 1, Len(s)) \in Seq(Line)
    BY <1>1, <2>2, Suffix
  <2>4. SubSeq(s, 1, n) \in Seq(Line)
    BY <1>1, <2>1, Prefix
  <2>5. QED
    BY <2>2, <2>3, <2>4, <2>6
<1>4. PICK x \in Line : x = s[n + 1] /\ x.part = "last"
  BY <1>3 DEF s
<1>5. PICK p, r \in Line : p = Cut(x, "piece") /\ r = Cut(x, "rest")
  <2>1. Cut(x, "piece") \in Line /\ Cut(x, "rest") \in Line
    BY DEF Cut, Line
  <2>2. QED
    BY <2>1, Zenon
<1>6. <<x>> \in Seq(Line) /\ <<p>> \in Seq(Line) /\ <<r>> \in Seq(Line)
      /\ <<p, r>> = <<p>> \o <<r>>
  BY Single, PairSplit
<1>7. PICK a, c, d, x1, p1, r1 \in Seq(Line) :
        /\ a = command[e] /\ c = SubSeq(s, 1, n) /\ d = SubSeq(s, n + 2, Len(s))
        /\ x1 = <<x>> /\ p1 = <<p>> /\ r1 = <<r>>
  BY <1>1, <1>3, <1>6, Zenon
<1>8. PICK o \in Seq(Line) : o = out
  BY <1>1
<1>9. /\ s = c \o (x1 \o d)
      /\ inputBuf'[e] = c \o p1
      /\ socket'[e] = r1 \o d
      /\ inputBuf[e] \o (s \o o) = s \o o
  <2>1. Append(c, p) = c \o <<p>>
    BY AppendIsConcat
  <2>2. s \o o \in Seq(Line)
    BY <1>1, <1>8, TwoParts
  <2>3. << >> \o (s \o o) = s \o o
    BY <2>2, ConcatEmptySeq
  <2>4. QED
    BY <1>3, <1>4, <1>5, <1>7, <2>1, <2>3 DEF s
<1> DEFINE u == Cat(a, c)
           v == Cat(d, o)
<1>10. u \in Seq(Line) /\ v \in Seq(Line)
  BY CatTyped
<1>11. Stream(e) = u \o (x1 \o v)
  <2>1. Cat(a, Cat(Cat(c, Cat(x1, d)), o)) = Cat(Cat(a, c), Cat(x1, Cat(d, o)))
    BY CatTyped, CatThree
  <2>2. QED
    BY <1>1, <1>7, <1>8, <1>9, <2>1 DEF Cat
<1>12. Stream(e)' = u \o ((p1 \o r1) \o v)
  <2>1. Cat(a, Cat(Cat(c, p1), Cat(Cat(r1, d), o)))
          = Cat(Cat(a, c), Cat(Cat(p1, r1), Cat(d, o)))
    BY CatTyped, CatThree
  <2>2. QED
    BY <1>2, <1>7, <1>8, <1>9, <2>1 DEF Cat
<1> HIDE DEF u, v
<1>13. PICK uu, vv \in Seq(Line) : uu = u /\ vv = v
  BY <1>10
<1>14. Agrees(uu \o (<<x>> \o vv), Complete(command[e]), N, P, open)
  BY <1>7, <1>11, <1>13
<1>15. Agrees(uu \o (<<Cut(x, "piece"), Cut(x, "rest")>> \o vv), Complete(command[e]), N, P, open)
  BY <1>4, <1>14, AgreesCut
<1>16. QED
  BY <1>5, <1>6, <1>7, <1>12, <1>13, <1>15

LEMMA ReadStream ==
  ASSUME ConnectionTypeOK, ConnectionTypeOK', StreamInv, NEW e \in End, Read(e)
  PROVE  StreamInv'
<1>1. /\ AtRest(e)
      /\ UNCHANGED <<category, status, link, events, outputBuf, command, posted,
                     executed, spent>>
  BY DEF Read
<1>2. \A f \in End : Linked(f) /\ Numbered(f) /\ Reads(f)
  BY StreamInvParts
<1>3. \A f \in End : Linked(f)' /\ Numbered(f)'
  BY <1>1, <1>2 DEF Linked, Numbered, Open
<1>4. \A f \in End : f # e => inputBuf'[f] = inputBuf[f] /\ socket'[f] = socket[f]
  BY Typed DEF Read
<1>5. Reads(Peer(e))'
  BY <1>1, <1>2, <1>4, TwoEnds, ReadsUntouched
<1>6. Reads(e)'
  <2>1. /\ ~IsGarbled(executed[e]) /\ inputBuf[e] = << >>
        /\ Agrees(Stream(e), Complete(command[e]), Len(executed[e]), posted[Peer(e)],
                  status[Peer(e)] = "open")
    BY <1>1, <1>2, AtRestInStep DEF AtRest
  <2>2. Agrees(Stream(e)', Complete(command[e]), Len(executed[e]), posted[Peer(e)],
               status[Peer(e)] = "open")
    <3>1. PICK n \in 0 .. Len(socket[e]) :
            \/ /\ inputBuf' = [inputBuf EXCEPT ![e] = SubSeq(socket[e], 1, n)]
               /\ socket' = [socket EXCEPT ![e] = SubSeq(socket[e], n + 1, Len(socket[e]))]
            \/ /\ n < Len(socket[e]) /\ socket[e][n + 1].part = "last"
               /\ inputBuf' = [inputBuf EXCEPT
                    ![e] = Append(SubSeq(socket[e], 1, n), Cut(socket[e][n + 1], "piece"))]
               /\ socket' = [socket EXCEPT
                    ![e] = <<Cut(socket[e][n + 1], "rest")>>
                             \o SubSeq(socket[e], n + 2, Len(socket[e]))]
      BY Zenon DEF Read, HoldsEntry
    <3>2. inputBuf \in [End -> Seq(Line)] /\ socket \in [End -> Seq(Line)]
      BY Typed
    <3>3. CASE /\ inputBuf' = [inputBuf EXCEPT ![e] = SubSeq(socket[e], 1, n)]
               /\ socket' = [socket EXCEPT ![e] = SubSeq(socket[e], n + 1, Len(socket[e]))]
      <4>1. /\ inputBuf'[e] = SubSeq(socket[e], 1, n)
            /\ socket'[e] = SubSeq(socket[e], n + 1, Len(socket[e]))
        BY <3>2, <3>3, Zenon
      <4>2. Stream(e)' = Stream(e)
        BY <1>1, <2>1, <4>1, ReadPlain
      <4>3. QED
        BY <2>1, <4>2
    <3>4. CASE /\ n < Len(socket[e]) /\ socket[e][n + 1].part = "last"
               /\ inputBuf' = [inputBuf EXCEPT
                    ![e] = Append(SubSeq(socket[e], 1, n), Cut(socket[e][n + 1], "piece"))]
               /\ socket' = [socket EXCEPT
                    ![e] = <<Cut(socket[e][n + 1], "rest")>>
                             \o SubSeq(socket[e], n + 2, Len(socket[e]))]
      <4>1. /\ inputBuf'[e] = Append(SubSeq(socket[e], 1, n), Cut(socket[e][n + 1], "piece"))
            /\ socket'[e] = <<Cut(socket[e][n + 1], "rest")>>
                              \o SubSeq(socket[e], n + 2, Len(socket[e]))
        BY <3>2, <3>4, Zenon
      <4>2. QED
        BY <1>1, <2>1, <3>4, <4>1, ReadCut
    <3>5. QED
      BY <3>1, <3>3, <3>4
  <2>3. Reading(status'[e] = "open", executed'[e], command'[e], inputBuf'[e],
                Stream(e)', posted'[Peer(e)], status'[Peer(e)] = "open")
    BY <1>1, <2>1, <2>2 DEF Reading
  <2>4. QED
    BY <2>3, ReadsAfter
<1>7. QED
  BY <1>3, <1>5, <1>6, TwoEnds, StreamInvParts


LEMMA SendReplyStream ==
  ASSUME ConnectionTypeOK, ConnectionTypeOK', StreamInv, NEW e \in End, SendReply(e)
  PROVE  StreamInv'
<1>1. /\ AtRest(e) /\ Open(e)
      /\ UNCHANGED <<category, status, inputBuf, posted, executed, spent>>
      /\ link' = [link EXCEPT ![e] = IF link[e] = "closed" THEN "broken" ELSE link[e]]
  BY DEF SendReply, AtRest
<1>2. \A f \in End : Linked(f) /\ Numbered(f) /\ Reads(f)
  BY StreamInvParts
<1>3. PICK n \in 1 .. Len(outputBuf[e]) :
        /\ IF PeerGone(e)
           THEN socket' = socket
           ELSE socket' = [socket EXCEPT
                             ![Peer(e)] = socket[Peer(e)] \o SubSeq(outputBuf[e], 1, n)]
        /\ outputBuf' = [outputBuf EXCEPT
                           ![e] = SubSeq(outputBuf[e], n + 1, Len(outputBuf[e]))]
        /\ command' = [command EXCEPT
                         ![e] = IF n = Len(outputBuf[e]) THEN << >> ELSE command[e]]
  BY Zenon DEF SendReply, Unwritten
<1>4. /\ link \in [End -> Reason] /\ socket \in [End -> Seq(Line)]
      /\ outputBuf \in [End -> Seq(Line)] /\ command \in [End -> Seq(Line)]
      /\ n \in 0 .. Len(outputBuf[e])
  BY Typed, LenProperties
<1>5. PICK p \in End : p = Peer(e) /\ p # e /\ Peer(p) = e
  BY TwoEnds
<1>6. \A f \in End : Linked(f)'
  <2>1. \A f \in End : link'[f] = "up" <=> link[f] = "up"
    BY <1>1, <1>4
  <2>2. QED
    BY <1>1, <1>2, <2>1, TwoEnds DEF Linked, Open
<1>7. \A f \in End : Numbered(f)'
  BY <1>1, <1>2 DEF Numbered
<1>8. Reads(p)'
  <2>1. CASE ~Open(p)
    <3>1. Reading(status'[p] = "open", executed'[p], command'[p], inputBuf'[p],
                  Stream(p)', posted'[Peer(p)], status'[Peer(p)] = "open")
      BY <1>1, <2>1 DEF Reading, Open
    <3>2. QED
      BY <3>1, ReadsAfter
  <2>2. CASE Open(p)
    <3>1. ~PeerGone(e)
      BY <1>2, <1>5, <2>2 DEF Linked, PeerGone
    <3>2. /\ socket'[p] = socket[p] \o SubSeq(outputBuf[e], 1, n)
          /\ outputBuf'[e] = SubSeq(outputBuf[e], n + 1, Len(outputBuf[e]))
          /\ command'[p] = command[p] /\ inputBuf'[p] = inputBuf[p]
      BY <1>1, <1>3, <1>4, <1>5, <3>1
    <3>3. PICK a, b, c, d, x, y \in Seq(Line) :
            /\ a = command[p] /\ b = inputBuf[p] /\ c = socket[p] /\ d = outputBuf[e]
            /\ x = SubSeq(outputBuf[e], 1, n)
            /\ y = SubSeq(outputBuf[e], n + 1, Len(outputBuf[e]))
            /\ Cat(x, y) = d
      <4>1. /\ SubSeq(outputBuf[e], 1, n) \in Seq(Line)
            /\ SubSeq(outputBuf[e], n + 1, Len(outputBuf[e])) \in Seq(Line)
            /\ SubSeq(outputBuf[e], 1, n) \o SubSeq(outputBuf[e], n + 1, Len(outputBuf[e]))
                 = outputBuf[e]
        BY <1>4, Prefix, Suffix, SplitAt
      <4>2. /\ command[p] \in Seq(Line) /\ inputBuf[p] \in Seq(Line)
            /\ socket[p] \in Seq(Line) /\ outputBuf[e] \in Seq(Line)
        BY Typed
      <4>3. QED
        BY <4>1, <4>2, Zenon DEF Cat
    <3>4. Stream(p) = a \o (b \o (c \o d))
      BY <1>1, <1>5, <3>3, StreamBefore DEF Open
    <3>5. Stream(p)' = a \o (b \o ((c \o x) \o y))
      BY <1>1, <1>5, <3>2, <3>3, StreamAfter DEF Open
    <3>6. Cat(Cat(c, x), y) = Cat(c, d)
      <4>1. Cat(Cat(c, x), y) = Cat(c, Cat(x, y))
        BY CatThree
      <4>2. QED
        BY <3>3, <4>1
    <3>7. Stream(p)' = Stream(p)
      BY <3>4, <3>5, <3>6 DEF Cat
    <3>8. QED
      BY <1>1, <1>2, <1>5, <3>2, <3>7, ReadsMoved
  <2>3. QED
    BY <2>1, <2>2
<1>9. Reads(e)'
  <2>1. /\ ~IsGarbled(executed[e])
        /\ Agrees(Stream(e), Complete(command[e]), Len(executed[e]), posted[p],
                  status[p] = "open")
    BY <1>1, <1>2, <1>5, AtRestInStep
  <2>2. /\ command'[e] = command[e] \/ command'[e] = << >>
        /\ outputBuf'[p] = outputBuf[p] /\ socket'[e] = socket[e]
    BY <1>3, <1>4, <1>5
  <2> DEFINE out == IF status[p] = "open" THEN outputBuf[p] ELSE << >>
             r == inputBuf[e] \o (socket[e] \o out)
  <2>3. /\ Stream(e) = command[e] \o r
        /\ out \in Seq(Line) /\ command[e] \in Seq(Line)
        /\ inputBuf[e] \in Seq(Line) /\ socket[e] \in Seq(Line)
    BY <1>5, StreamBefore
  <2>4. Stream(e)' = command'[e] \o r
    BY <1>1, <1>5, <2>2, StreamAfter
  <2>5. r \in Seq(Line)
    <3> HIDE DEF out
    <3>1. socket[e] \o out \in Seq(Line)
      BY <2>3, TwoParts
    <3>2. QED
      BY <2>3, <3>1, TwoParts
  <2> HIDE DEF out, r
  <2>6. Agrees(Stream(e)', Complete(command'[e]), Len(executed[e]), posted[p],
               status[p] = "open")
    <3>1. CASE command'[e] = command[e]
      BY <2>1, <2>3, <2>4, <3>1
    <3>2. CASE command'[e] = << >>
      <4>1. /\ CommandOK(command[e]) /\ Len(executed[e]) \in Nat
            /\ posted[p] \in Seq(Message)
        BY Typed, LenProperties
      <4>2. PICK open \in BOOLEAN : open <=> status[p] = "open"
        OBVIOUS
      <4>3. Agrees(r, FALSE, Len(executed[e]), posted[p], open)
        BY <2>1, <2>3, <2>5, <4>1, <4>2, AgreesCleared
      <4>4. << >> \o r = r
        BY <2>5, ConcatEmptySeq
      <4>5. Stream(e)' = r /\ ~Complete(command'[e])
        BY <2>4, <3>2, <4>4, EmptyBuffer
      <4>6. QED
        BY <4>2, <4>3, <4>5, Zenon DEF Agrees
    <3>3. QED
      BY <2>2, <3>1, <3>2
  <2>7. Reading(status'[e] = "open", executed'[e], command'[e], inputBuf'[e],
                Stream(e)', posted'[Peer(e)], status'[Peer(e)] = "open")
    BY <1>1, <1>5, <2>1, <2>6 DEF Reading
  <2>8. QED
    BY <2>7, ReadsAfter
<1>10. QED
  BY <1>5, <1>6, <1>7, <1>8, <1>9, TwoEnds, StreamInvParts


LEMMA CloseStream ==
  ASSUME ConnectionTypeOK, ConnectionTypeOK', StreamInv, NEW e \in End,
         NEW how \in Status \ {"open"}, Close(e, how)
  PROVE  StreamInv'
<1>1. PICK p \in End : p = Peer(e) /\ p # e /\ Peer(p) = e
  BY TwoEnds
<1>2. /\ status' = [status EXCEPT ![e] = how]
      /\ inputBuf' = [inputBuf EXCEPT ![e] = << >>]
      /\ link' = [link EXCEPT ![p] = CASE link[p] # "up"         -> link[p]
                                       [] socket[e] # << >>      -> "reset"
                                       [] OTHER                  -> "closed"]
      /\ UNCHANGED <<category, outputBuf, command, posted, executed>>
  BY <1>1 DEF Close
<1>3. PICK kept \in 0 .. Len(socket[p]) :
        socket' = [socket EXCEPT ![e] = << >>, ![p] = SubSeq(socket[p], 1, kept)]
  BY <1>1 DEF Close
<1>4. \A f \in End : Linked(f) /\ Numbered(f) /\ Reads(f)
  BY StreamInvParts
<1>5. /\ status'[e] = how /\ how # "open" /\ status'[p] = status[p]
      /\ inputBuf'[p] = inputBuf[p] /\ socket'[p] = SubSeq(socket[p], 1, kept)
      /\ link'[p] # "up" /\ link'[e] = link[e]
  <2>1. /\ status \in [End -> Status] /\ link \in [End -> Reason]
        /\ inputBuf \in [End -> Seq(Line)] /\ socket \in [End -> Seq(Line)]
    BY Typed
  <2>2. link'[p] # "up" /\ link'[e] = link[e]
    BY <1>1, <1>2, <2>1
  <2>3. socket'[p] = SubSeq(socket[p], 1, kept)
    BY <1>1, <1>3, <2>1
  <2>4. status'[e] = how /\ status'[p] = status[p] /\ inputBuf'[p] = inputBuf[p]
    BY <1>1, <1>2, <2>1
  <2>5. QED
    BY <2>2, <2>3, <2>4
<1>6. Linked(e)' /\ Linked(p)'
  BY <1>1, <1>4, <1>5 DEF Linked, Open
<1>7. \A f \in End : Numbered(f)'
  BY <1>2, <1>4 DEF Numbered
<1>8. Reads(e)'
  <2>1. Reading(status'[e] = "open", executed'[e], command'[e], inputBuf'[e],
                Stream(e)', posted'[Peer(e)], status'[Peer(e)] = "open")
    BY <1>5 DEF Reading
  <2>2. QED
    BY <2>1, ReadsAfter
<1>9. Reads(p)'
  <2>1. PICK a, b, x, y, d \in Seq(Line) :
          /\ a = command[p] /\ b = inputBuf[p] /\ x = SubSeq(socket[p], 1, kept)
          /\ d = (IF status[e] = "open" THEN outputBuf[e] ELSE << >>)
          /\ Cat(x, y) = socket[p]
          /\ Stream(p) = a \o (b \o (socket[p] \o d))
    <3>1. socket[p] \in Seq(Line)
      BY Typed
    <3>2. /\ SubSeq(socket[p], 1, kept) \in Seq(Line)
          /\ SubSeq(socket[p], kept + 1, Len(socket[p])) \in Seq(Line)
          /\ SubSeq(socket[p], 1, kept) \o SubSeq(socket[p], kept + 1, Len(socket[p]))
               = socket[p]
      BY <3>1, Prefix, Suffix, SplitAt
    <3>3. LET d == IF status[e] = "open" THEN outputBuf[e] ELSE << >>
          IN  /\ Stream(p) = command[p] \o (inputBuf[p] \o (socket[p] \o d))
              /\ d \in Seq(Line) /\ command[p] \in Seq(Line) /\ inputBuf[p] \in Seq(Line)
      BY <1>1, StreamBefore
    <3>4. QED
      BY <3>2, <3>3, Zenon DEF Cat
  <2>2. PICK u, v \in Seq(Line) : u = Cat(a, Cat(b, x)) /\ v = Cat(y, d)
    BY CatTyped
  <2>3. Stream(p) = u \o v
    <3>1. Cat(a, Cat(b, Cat(Cat(x, y), d))) = Cat(Cat(a, Cat(b, x)), Cat(y, d))
      BY CatTyped, CatThree
    <3>2. Stream(p) = Cat(a, Cat(b, Cat(Cat(x, y), d)))
      BY <2>1 DEF Cat
    <3>3. QED
      BY <2>2, <3>1, <3>2 DEF Cat
  <2>4. Stream(p)' = u
    <3>1. Stream(p)' = a \o (b \o (x \o << >>))
      BY <1>1, <1>2, <1>5, <2>1, StreamAfter
    <3>2. x \o << >> = x
      BY ConcatEmptySeq
    <3>3. QED
      BY <2>2, <3>1, <3>2 DEF Cat
  <2>5. /\ executed'[p] = executed[p] /\ command'[p] = command[p]
        /\ posted'[Peer(p)] = posted[Peer(p)]
    BY <1>2
  <2>6. Reading(status[p] = "open", executed[p], command[p], inputBuf[p], u \o v,
                posted[e], status[e] = "open")
    BY <1>1, <1>4, <2>3 DEF Reads, Open
  <2>7. Reading(status[p] = "open", executed[p], command[p], inputBuf[p], u,
                posted[e], FALSE)
    <3>1. Agrees(u \o v, Complete(command[p]), Len(executed[p]), posted[e],
                 status[e] = "open")
            => Agrees(u, Complete(command[p]), Len(executed[p]), posted[e], FALSE)
      BY AgreesShortened
    <3>2. QED
      BY <2>6, <3>1 DEF Reading
  <2>8. Reading(status'[p] = "open", executed'[p], command'[p], inputBuf'[p],
                Stream(p)', posted'[Peer(p)], status'[Peer(p)] = "open")
    BY <1>1, <1>5, <2>4, <2>5, <2>7, Zenon DEF Reading, Agrees
  <2>9. QED
    BY <2>8, ReadsAfter
<1>10. QED
  BY <1>1, <1>6, <1>7, <1>8, <1>9, TwoEnds, StreamInvParts

LEMMA KeepStream ==
  ASSUME ConnectionTypeOK, ConnectionTypeOK', StreamInv, NEW e \in End, Keep(e)
  PROVE  StreamInv'
<1>1. /\ command' = [command EXCEPT ![e] = Parsed(e)]
      /\ inputBuf' = [inputBuf EXCEPT ![e] = << >>]
      /\ UNCHANGED <<category, status, link, events, outputBuf, socket, posted,
                     executed, spent>>
  BY DEF Keep
<1>2. /\ ~IsGarbled(executed[e]) /\ Parsed(e) = command[e] \o inputBuf[e]
      /\ ~Complete(Parsed(e)) /\ ~Complete(command[e])
  BY KeptLines
<1>3. \A f \in End : Linked(f) /\ Numbered(f) /\ Reads(f)
  BY StreamInvParts
<1>4. \A f \in End : Linked(f)' /\ Numbered(f)'
  BY <1>1, <1>3 DEF Linked, Numbered, Open
<1>5. /\ \A f \in End : f # e => command'[f] = command[f] /\ inputBuf'[f] = inputBuf[f]
      /\ command'[e] = command[e] \o inputBuf[e] /\ inputBuf'[e] = << >>
      /\ ~Complete(command'[e])
  BY <1>1, <1>2, Typed
<1>6. Reads(Peer(e))'
  BY <1>1, <1>3, <1>5, TwoEnds, ReadsUntouched
<1>7. Stream(e)' = Stream(e)
  <2>1. PICK a, b, c, d \in Seq(Line) :
          /\ a = command[e] /\ b = inputBuf[e] /\ c = socket[e]
          /\ d = (IF status[Peer(e)] = "open" THEN outputBuf[Peer(e)] ELSE << >>)
          /\ Stream(e) = a \o (b \o (c \o d))
    BY StreamBefore, Zenon
  <2>2. Stream(e)' = (a \o b) \o (<< >> \o (c \o d))
    BY <1>1, <1>5, <2>1, StreamAfter
  <2>3. << >> \o (c \o d) = c \o d
    BY TwoParts, ConcatEmptySeq
  <2>4. Cat(Cat(a, b), Cat(c, d)) = Cat(a, Cat(b, Cat(c, d)))
    BY CatTyped, CatThree
  <2>5. QED
    BY <2>1, <2>2, <2>3, <2>4 DEF Cat
<1>8. Reads(e)'
  BY <1>1, <1>2, <1>3, <1>5, <1>7, ReadsMoved
<1>9. QED
  BY <1>4, <1>6, <1>8, TwoEnds, StreamInvParts


(* What an end that has executed a garbled command will parse. *)
LEMMA RestIsParsed ==
  ASSUME ConnectionTypeOK, NEW e \in End, Open(e), inputBuf[e] # << >>, Reads(e),
         IsGarbled(executed[e])
  PROVE  Head(Parsed(e)).part = "rest" /\ ParsedParts(e)[1] = "rest"
<1>1. command[e] = << >> /\ Head(inputBuf[e]).part = "rest"
  BY DEF Reads, Reading
<1>2. PICK t \in Seq(Line) : Parsed(e) = << >> \o t /\ Head(t) = Head(inputBuf[e])
  <2>1. LET t == SubSeq(inputBuf[e], 1, Taken(e))
        IN  t \in Seq(Line) /\ Parsed(e) = command[e] \o t /\ Head(t) = Head(inputBuf[e])
    BY ParsedLines, Zenon
  <2>2. QED
    BY <1>1, <2>1
<1>3. Parsed(e) = t
  BY <1>2, ConcatEmptySeq
<1>4. /\ Parsed(e) \in Seq(Line) /\ Parsed(e) # << >>
      /\ \A n \in 1 .. Len(Parsed(e)) : ParsedParts(e)[n] = Parsed(e)[n].part
  BY ParsedLines
<1>5. Head(Parsed(e)) = Parsed(e)[1] /\ 1 \in 1 .. Len(Parsed(e))
  BY <1>4, EndsOf
<1>6. QED
  BY <1>1, <1>2, <1>3, <1>4, <1>5

(* A command that is executed was not parsed to its end before. *)
LEMMA NotYetComplete ==
  ASSUME ConnectionTypeOK, NEW e \in End, NEW m \in Message, inputBuf[e] # << >>,
         Parsed(e) = Lines(m)
  PROVE  ~Complete(command[e]) /\ Complete(Lines(m)) /\ Head(Lines(m)).part = "head"
<1>1. PICK h, l \in Line :
        /\ h = [message |-> m, part |-> "head"] /\ l = [message |-> m, part |-> "last"]
        /\ Lines(m) = <<h, l>>
  BY LinesAre
<1>2. h.part = "head" /\ l.part = "last"
  BY <1>1
<1>3. PICK d \in Seq(Line) :
        /\ d = Lines(m) /\ d # << >> /\ Len(d) = 2 /\ d[1] = h /\ d[2] = l
        /\ Head(d) = h /\ Last(d) = l
  BY <1>1, Pair
<1>4. PICK a, t \in Seq(Line) : a = command[e] /\ t # << >> /\ d = a \o t
  <2>1. LET t == SubSeq(inputBuf[e], 1, Taken(e))
        IN  t \in Seq(Line) /\ t # << >> /\ Parsed(e) = command[e] \o t
    BY ParsedLines, Zenon
  <2>2. command[e] \in Seq(Line)
    BY Typed
  <2>3. QED
    BY <1>3, <2>1, <2>2, Zenon
<1>5. ASSUME Complete(a)
      PROVE  FALSE
  <2>1. a # << >> /\ Last(a).part = "last"
    BY <1>5 DEF Complete
  <2>2. Len(a) \in Nat \ {0} /\ Len(t) \in Nat \ {0} /\ Last(a) = a[Len(a)]
    BY <1>4, <2>1, EndsOf
  <2>3. Len(d) = Len(a) + Len(t) /\ \A n \in 1 .. Len(a) : d[n] = a[n]
    BY <1>4, Concat
  <2>4. Len(a) = 1
    <3>1. Len(a) + Len(t) = 2
      BY <1>3, <2>3
    <3>2. \A x, y \in Nat \ {0} : x + y = 2 => x = 1
      OBVIOUS
    <3>3. QED
      BY <2>2, <3>1, <3>2, Zenon
  <2>5. Last(a) = h
    BY <1>3, <2>2, <2>3, <2>4
  <2>6. QED
    BY <1>2, <2>1, <2>5
<1>6. QED
  BY <1>2, <1>3, <1>4, <1>5 DEF Complete

(* What Execute executes is the next message of the peer, and what is left
   begins with the one after it. *)
LEMMA ExecutesNext ==
  ASSUME ConnectionTypeOK, StreamInv, NEW e \in End, Execute(e)
  PROVE  LET m == Head(Parsed(e)).message
             N == Len(executed[e])
             out == IF status[Peer(e)] = "open" THEN outputBuf[Peer(e)] ELSE << >>
             r == SubSeq(inputBuf[e], Taken(e) + 1, Len(inputBuf[e]))
                    \o (socket[e] \o out)
         IN  /\ m \in Message /\ Parsed(e) = Lines(m) /\ Lines(m) \in Seq(Line)
             /\ ~IsGarbled(executed[e]) /\ N \in Nat /\ m # Garbled
             /\ N + 1 \in DOMAIN posted[Peer(e)] /\ m = posted[Peer(e)][N + 1]
             /\ Complete(Lines(m)) /\ r \in Seq(Line)
             /\ Agrees(Lines(m) \o r, TRUE, N + 1, posted[Peer(e)], status[Peer(e)] = "open")
             /\ Agrees(r, FALSE, N + 1, posted[Peer(e)], status[Peer(e)] = "open")
<1> DEFINE m == Head(Parsed(e)).message
           N == Len(executed[e])
           P == posted[Peer(e)]
           open == status[Peer(e)] = "open"
           out == IF status[Peer(e)] = "open" THEN outputBuf[Peer(e)] ELSE << >>
           r == SubSeq(inputBuf[e], Taken(e) + 1, Len(inputBuf[e])) \o (socket[e] \o out)
<1>1. Open(e) /\ inputBuf[e] # << >> /\ Parsed(e) = Lines(m)
  BY DEF Execute, Parses
<1>2. /\ Parsed(e) \in Seq(Line) /\ r \in Seq(Line) /\ Stream(e) = Parsed(e) \o r
      /\ Parsed(e) # << >>
  BY <1>1, ParsedLines, ParsedOfStream DEF Coming, Open
<1>3. m \in Message
  <2>1. Head(Parsed(e)) \in Line
    BY <1>2, EndsOf
  <2>2. QED
    BY <2>1, LineTyped
<1>4. N \in Nat /\ P \in Seq(Message)
  BY Typed, TwoEnds, LenProperties
<1>5. Reads(e) /\ \A f \in End : Numbered(f)
  BY StreamInvParts
<1> HIDE DEF m, r, P, N
<1>6. ~Complete(command[e]) /\ Complete(Lines(m)) /\ Head(Lines(m)).part = "head"
  BY <1>1, <1>3, NotYetComplete
<1>7. ~IsGarbled(executed[e])
  BY <1>1, <1>5, <1>6, RestIsParsed
<1>8. Agrees(Lines(m) \o r, FALSE, N, P, open)
  <2>1. Agrees(Stream(e), Complete(command[e]), N, P, open)
    BY <1>1, <1>5, <1>7 DEF Reads, Reading, Open, N, P
  <2>2. QED
    BY <1>1, <1>2, <1>6, <2>1, Zenon DEF Agrees
<1> HIDE DEF open
<1>9. /\ N + 1 \in DOMAIN P /\ m = P[N + 1]
      /\ Agrees(Lines(m) \o r, TRUE, N + 1, P, open)
      /\ Agrees(r, FALSE, N + 1, P, open)
  BY <1>2, <1>3, <1>4, <1>8, AgreesExecuted
<1>10. m # Garbled
  <2>1. m.number = N + 1
    BY <1>5, <1>9, TwoEnds DEF Numbered, P
  <2>2. QED
    BY <1>4, <2>1, GarbledIsMessage
<1>11. /\ m \in Message /\ Parsed(e) = Lines(m) /\ Lines(m) \in Seq(Line)
       /\ ~IsGarbled(executed[e]) /\ N \in Nat /\ m # Garbled
       /\ Complete(Lines(m)) /\ r \in Seq(Line)
  BY <1>1, <1>2, <1>3, <1>4, <1>6, <1>7, <1>10
<1>12. QED
  BY <1>9, <1>11, Zenon DEF m, r, P, N, open

LEMMA LastAppended ==
  ASSUME NEW q \in Seq(Message), NEW m \in Message
  PROVE  /\ IsGarbled(Append(q, m)) <=> m = Garbled
         /\ Append(q, m) \in Seq(Message) /\ Len(Append(q, m)) = Len(q) + 1
<1>1. /\ Append(q, m) \in Seq(Message) /\ Len(Append(q, m)) = Len(q) + 1
      /\ Append(q, m)[Len(q) + 1] = m
  BY AppendProperties
<1>2. Append(q, m) # << >>
  BY <1>1, EmptySeq, LenProperties
<1>3. Last(Append(q, m)) = m
  BY <1>1 DEF Last
<1>4. QED
  BY <1>1, <1>2, <1>3 DEF IsGarbled


LEMMA ExecuteStream ==
  ASSUME ConnectionTypeOK, ConnectionTypeOK', StreamInv, NEW e \in End, Execute(e)
  PROVE  StreamInv'
<1> DEFINE m == Head(Parsed(e)).message
           N == Len(executed[e])
           a == [number |-> Len(posted[e]) + 1, request |-> FALSE]
           out == IF status[Peer(e)] = "open" THEN outputBuf[Peer(e)] ELSE << >>
           left == SubSeq(inputBuf[e], Taken(e) + 1, Len(inputBuf[e]))
           r == left \o (socket[e] \o out)
<1>1. /\ Open(e)
      /\ executed' = [executed EXCEPT ![e] = Append(executed[e], m)]
      /\ command' = [command EXCEPT ![e] = AfterCommand(e)]
      /\ inputBuf' = [inputBuf EXCEPT ![e] = left]
      /\ UNCHANGED <<category, status, link, socket, spent>>
      /\ Send(e, a) \/ UNCHANGED <<events, outputBuf, posted>>
  BY Zenon DEF Execute, Parses
<1>2. \A f \in End : Linked(f) /\ Numbered(f) /\ Reads(f)
  BY StreamInvParts
<1>3. \A f \in End : Linked(f)'
  BY <1>1, <1>2 DEF Linked, Open
<1>4. \A f \in End : Numbered(f)'
  <2>1. CASE Send(e, a)
    BY <1>2, <2>1, NumberedAfter
  <2>2. CASE UNCHANGED <<events, outputBuf, posted>>
    BY <1>2, <2>2 DEF Numbered
  <2>3. QED
    BY <1>1, <2>1, <2>2
<1>5. /\ m \in Message /\ Parsed(e) = Lines(m) /\ ~IsGarbled(executed[e])
      /\ N \in Nat /\ m # Garbled /\ Complete(Lines(m)) /\ r \in Seq(Line)
      /\ Agrees(Lines(m) \o r, TRUE, N + 1, posted[Peer(e)], status[Peer(e)] = "open")
      /\ Agrees(r, FALSE, N + 1, posted[Peer(e)], status[Peer(e)] = "open")
  BY ExecutesNext, Zenon
<1>6. a \in Message /\ a.number = Len(posted[e]) + 1
  BY NextMessage
<1> HIDE DEF m, N, a, left
<1>7. /\ outputBuf'[Peer(e)] = outputBuf[Peer(e)]
      /\ posted'[Peer(e)] = posted[Peer(e)]
  BY <1>1, Typed, TwoEnds DEF Send
<1>8. \A f \in End : f # e => /\ inputBuf'[f] = inputBuf[f] /\ command'[f] = command[f]
                              /\ executed'[f] = executed[f]
  BY <1>1, Typed
<1>9. Reads(Peer(e))'
  <2>1. CASE Send(e, a)
    BY <1>1, <1>2, <1>6, <1>8, <2>1, TwoEnds, SendReaches
  <2>2. CASE UNCHANGED <<events, outputBuf, posted>>
    BY <1>1, <1>2, <1>8, <2>2, TwoEnds, ReadsUntouched
  <2>3. QED
    BY <1>1, <2>1, <2>2
<1>10. Reads(e)'
  <2>1. /\ executed'[e] = Append(executed[e], m) /\ command'[e] = AfterCommand(e)
        /\ inputBuf'[e] = left
    BY <1>1, Typed
  <2>2. /\ ~IsGarbled(executed'[e]) /\ Len(executed'[e]) = N + 1
    BY <1>5, <2>1, Typed, LastAppended DEF N
  <2>3. Stream(e)' = command'[e] \o r
    BY <1>1, <1>7, <2>1, StreamAfter
  <2>4. command'[e] = Lines(m) \/ command'[e] = << >>
    BY <1>5, <2>1 DEF AfterCommand
  <2> HIDE DEF r
  <2>5. Agrees(Stream(e)', Complete(command'[e]), N + 1, posted[Peer(e)],
               status[Peer(e)] = "open")
    <3>1. CASE command'[e] = Lines(m)
      BY <1>5, <2>3, <3>1, Zenon DEF Agrees
    <3>2. CASE command'[e] = << >>
      <4>1. Stream(e)' = r /\ ~Complete(command'[e])
        BY <1>5, <2>3, <3>2, ConcatEmptySeq, EmptyBuffer
      <4>2. QED
        BY <1>5, <4>1, Zenon DEF Agrees
    <3>3. QED
      BY <2>4, <3>1, <3>2
  <2>6. Reading(status'[e] = "open", executed'[e], command'[e], inputBuf'[e],
                Stream(e)', posted'[Peer(e)], status'[Peer(e)] = "open")
    BY <1>1, <1>7, <2>2, <2>5 DEF Reading
  <2>7. QED
    BY <2>6, ReadsAfter
<1>11. QED
  BY <1>3, <1>4, <1>9, <1>10, TwoEnds, StreamInvParts

LEMMA NotYetGarbled ==
  ASSUME ConnectionTypeOK, StreamInv, NEW e \in End, ExecuteGarbled(e)
  PROVE  ~IsGarbled(executed[e])
<1>1. Open(e) /\ inputBuf[e] # << >>
      /\ ParsedParts(e) \in {<<"last">>, <<"piece", "rest">>, <<"head", "piece", "rest">>}
  BY DEF ExecuteGarbled, Parses, BareEntry, ShortEntry
<1>2. ParsedParts(e)[1] # "rest"
  BY <1>1
<1>3. QED
  BY <1>1, <1>2, StreamInvParts, RestIsParsed

LEMMA ExecuteGarbledStream ==
  ASSUME ConnectionTypeOK, StreamInv, NEW e \in End, ExecuteGarbled(e)
  PROVE  StreamInv'
<1> DEFINE x == inputBuf[e][Taken(e)]
           left == SubSeq(inputBuf[e], Taken(e) + 1, Len(inputBuf[e]))
<1>1. /\ inputBuf[e] # << >>
      /\ executed' = [executed EXCEPT ![e] = Append(executed[e], Garbled)]
      /\ command' = [command EXCEPT ![e] = << >>]
      /\ inputBuf' = [inputBuf EXCEPT ![e] = <<Cut(x, "rest")>> \o left]
      /\ UNCHANGED <<category, status, link, events, outputBuf, socket, posted, spent>>
  BY DEF ExecuteGarbled, Parses
<1>2. \A f \in End : Linked(f) /\ Numbered(f) /\ Reads(f)
  BY StreamInvParts
<1>3. \A f \in End : Linked(f)' /\ Numbered(f)'
  BY <1>1, <1>2 DEF Linked, Numbered, Open
<1>4. x \in Line /\ left \in Seq(Line)
  BY <1>1, TakenSome, ParsedLines
<1> HIDE DEF x, left
<1>5. /\ \A f \in End : f # e => /\ inputBuf'[f] = inputBuf[f] /\ command'[f] = command[f]
                                 /\ executed'[f] = executed[f]
      /\ executed'[e] = Append(executed[e], Garbled) /\ command'[e] = << >>
      /\ inputBuf'[e] = <<Cut(x, "rest")>> \o left
  BY <1>1, Typed
<1>6. Reads(Peer(e))'
  BY <1>1, <1>2, <1>5, TwoEnds, ReadsUntouched
<1>7. Reads(e)'
  <2>1. IsGarbled(executed'[e])
    BY <1>5, Typed, GarbledIsMessage, LastAppended
  <2>2. inputBuf'[e] # << >> /\ Head(inputBuf'[e]).part = "rest"
    BY <1>4, <1>5, RestFirst
  <2>3. Reading(status'[e] = "open", executed'[e], command'[e], inputBuf'[e],
                Stream(e)', posted'[Peer(e)], status'[Peer(e)] = "open")
    BY <1>5, <2>1, <2>2 DEF Reading
  <2>4. QED
    BY <2>3, ReadsAfter
<1>8. QED
  BY <1>3, <1>6, <1>7, TwoEnds, StreamInvParts

------------------------------------------------------------------------------

LEMMA StreamInit == ASSUME Init PROVE StreamInv
<1>1. \A e \in End :
        /\ status[e] = "open" /\ link[e] = "up"
        /\ outputBuf[e] = << >> /\ socket[e] = << >> /\ inputBuf[e] = << >>
        /\ command[e] = << >> /\ posted[e] = << >> /\ executed[e] = << >>
  BY DEF Init
<1> SUFFICES ASSUME NEW e \in End
             PROVE  /\ Open(e) <=> link[Peer(e)] = "up"
                    /\ \A n \in DOMAIN posted[e] : posted[e][n].number = n
                    /\ ~IsGarbled(executed[e]) /\ InStep(e)
  BY Zenon DEF StreamInv
<1>3. Peer(e) \in End
  BY TwoEnds
<1>4. Stream(e) = << >>
  <2>1. << >> \o << >> = << >>
    BY EmptyBuffer, ConcatEmptySeq
  <2>2. QED
    BY <1>1, <1>3, <2>1 DEF Stream
<1>5. ~IsGarbled(executed[e])
  BY <1>1 DEF IsGarbled
<1>6. InStep(e)
  <2>1. Consecutive(<< >>, posted[Peer(e)])
    BY ConsecutiveEmpty
  <2>2. QED
    BY <1>1, <1>3, <1>4, <2>1 DEF InStep
<1>7. \A n \in DOMAIN posted[e] : posted[e][n].number = n
  BY <1>1
<1>8. QED
  BY <1>1, <1>3, <1>5, <1>6, <1>7 DEF Open

LEMMA StreamStep ==
  ASSUME ConnectionTypeOK, StreamInv, [Next]_vars
  PROVE  StreamInv'
<1>1. ConnectionTypeOK'
  BY TypeStep
<1>2. CASE UNCHANGED vars
  <2>1. UNCHANGED <<category, status, link, events, outputBuf, socket, inputBuf,
                    command, posted, executed, spent>>
    BY <1>2 DEF vars, bufferVars
  <2>2. \A f \in End : Linked(f) /\ Numbered(f) /\ Reads(f)
    BY StreamInvParts
  <2>3. \A f \in End : Linked(f)' /\ Numbered(f)'
    BY <2>1, <2>2 DEF Linked, Numbered, Open
  <2>4. \A f \in End : Reads(f)'
    BY <2>1, <2>2, ReadsUntouched
  <2>5. QED
    BY <2>3, <2>4, StreamInvParts
<1>3. ASSUME NEW e \in End,
             \/ Crash(e) \/ ReadEnd(e) \/ SendFails(e) \/ SendKills(e) \/ Reject(e)
             \/ ExecuteExits(e)
      PROVE  StreamInv'
  <2>1. \E how \in Status \ {"open"} : Close(e, how)
    BY <1>3 DEF Crash, ReadEnd, SendFails, SendKills, Reject, ExecuteExits,
                DeleteClient, Status
  <2>2. QED
    BY <1>1, <2>1, CloseStream
<1>4. ASSUME NEW e \in End,
             \/ Post(e) \/ Read(e) \/ SendReply(e)
             \/ Keep(e) \/ Execute(e) \/ ExecuteGarbled(e)
      PROVE  StreamInv'
  BY <1>1, <1>4, PostStream, ReadStream, SendReplyStream, KeepStream, ExecuteStream,
     ExecuteGarbledStream
<1>5. QED
  BY <1>2, <1>3, <1>4 DEF Next

(* What is in the buffers of the two ends, and what the kernel holds, is made
   of lines of commands that are whole, or of the two parts of one line that a
   read has cut; and no node keeps a command in its parser once it is executed
   (ClusterClient.cpp:21). *)
THEOREM ConnectionTypes == Spec => []ConnectionTypeOK
<1>1. Init => ConnectionTypeOK /\ StreamInv
  BY InitTypes, StreamInit
<1>2. ConnectionTypeOK /\ StreamInv /\ [Next]_vars => (ConnectionTypeOK /\ StreamInv)'
  BY TypeStep, StreamStep
<1>3. QED
  BY <1>1, <1>2, PTL DEF Spec

(* Wherever the reads and writes of the two ends have cut the stream, what an
   end has yet to read goes on, without a gap, where it has got to, and ends
   with the last command the other has posted; or it holds the rest of a line
   whose beginning was executed as a command, and nothing was executed since
   (ProtocolStream.cpp:92, Client.cpp:145). *)
THEOREM StreamInvariant == Spec => []StreamInv
<1>1. Init => ConnectionTypeOK /\ StreamInv
  BY InitTypes, StreamInit
<1>2. ConnectionTypeOK /\ StreamInv /\ [Next]_vars => (ConnectionTypeOK /\ StreamInv)'
  BY TypeStep, StreamStep
<1>3. QED
  BY <1>1, <1>2, PTL DEF Spec


------------------------------------------------------------------------------
(* The refinement. *)

LEMMA AbstractPeer ==
  ASSUME NEW e \in End
  PROVE  Abstract!Peer(e) = Peer(e)
<1>1. /\ Peer(e) \in End /\ Peer(e) # e
      /\ \A f \in End : f # e => f = Peer(e)
  BY TwoEnds
<1>2. \A f \in End : f # e <=> f = Peer(e)
  BY <1>1
<1>3. Abstract!Peer(e) = CHOOSE f \in End : f # e
  BY DEF Abstract!Peer
<1>4. \A f : f = (CHOOSE g \in End : g # e) => f = Peer(e)
  BY <1>1
<1>5. QED
  BY <1>3, <1>4

(* The commands executed as the abstract specification sees them. *)
Seen == [e \in End |-> AsPosted(executed[e])]

LEMMA AbstractParts ==
  /\ UNCHANGED Abstract!vars <=> posted' = posted /\ Seen' = Seen
  /\ Abstract!Init <=> posted = [e \in End |-> << >>] /\ Seen = [e \in End |-> << >>]
  /\ \A e \in End :
       /\ Abstract!Posts(e) <=>
            /\ Len(posted'[e]) = Len(posted[e]) + 1
            /\ posted'[e][Len(posted'[e])] \in Message
            /\ posted' = [posted EXCEPT
                            ![e] = Append(posted[e], posted'[e][Len(posted'[e])])]
       /\ Abstract!Post(e) <=> Abstract!Posts(e) /\ Seen' = Seen
       /\ Abstract!Execute(e) <=>
            /\ Len(Seen[e]) < Len(posted[Peer(e)])
            /\ Seen' = [Seen EXCEPT
                          ![e] = Append(Seen[e], posted[Peer(e)][Len(Seen[e]) + 1])]
            /\ posted' = posted \/ Abstract!Posts(e)
<1>1. UNCHANGED Abstract!vars <=> posted' = posted /\ Seen' = Seen
  BY DEF Abstract!vars, Seen
<1>2. Abstract!Init <=> posted = [e \in End |-> << >>] /\ Seen = [e \in End |-> << >>]
  BY DEF Abstract!Init, Seen
<1>3. ASSUME NEW e \in End
      PROVE  /\ Abstract!Posts(e) <=>
                  /\ Len(posted'[e]) = Len(posted[e]) + 1
                  /\ posted'[e][Len(posted'[e])] \in Message
                  /\ posted' = [posted EXCEPT
                                  ![e] = Append(posted[e], posted'[e][Len(posted'[e])])]
             /\ Abstract!Post(e) <=> Abstract!Posts(e) /\ Seen' = Seen
             /\ Abstract!Execute(e) <=>
                  /\ Len(Seen[e]) < Len(posted[Peer(e)])
                  /\ Seen' = [Seen EXCEPT
                                ![e] = Append(Seen[e], posted[Peer(e)][Len(Seen[e]) + 1])]
                  /\ posted' = posted \/ Abstract!Posts(e)
  <2>1. Abstract!Posts(e) <=>
          /\ Len(posted'[e]) = Len(posted[e]) + 1
          /\ posted'[e][Len(posted'[e])] \in Message
          /\ posted' = [posted EXCEPT
                          ![e] = Append(posted[e], posted'[e][Len(posted'[e])])]
    BY DEF Abstract!Posts
  <2>2. Abstract!Post(e) <=> Abstract!Posts(e) /\ Seen' = Seen
    BY DEF Abstract!Post, Seen
  <2>3. Abstract!Execute(e) <=>
          /\ Len(Seen[e]) < Len(posted[Peer(e)])
          /\ Seen' = [Seen EXCEPT
                        ![e] = Append(Seen[e], posted[Peer(e)][Len(Seen[e]) + 1])]
          /\ posted' = posted \/ Abstract!Posts(e)
    BY AbstractPeer DEF Abstract!Execute, Seen
  <2>4. QED
    BY <2>1, <2>2, <2>3
<1>4. QED
  BY <1>1, <1>2, <1>3

LEMMA SeenParts ==
  /\ \A e \in End : Seen[e] = AsPosted(executed[e])
  /\ \A e \in End : Seen'[e] = AsPosted(executed'[e])
  /\ executed' = executed => Seen' = Seen
<1>1. Seen' = [e \in End |-> AsPosted(executed'[e])]
  BY DEF Seen, AsPosted, IsGarbled
<1>2. QED
  BY <1>1 DEF Seen

LEMMA SendPosts ==
  ASSUME ConnectionTypeOK, NEW e \in End, NEW m \in Message, Send(e, m)
  PROVE  Abstract!Posts(e)
<1>1. /\ posted' = [posted EXCEPT ![e] = Append(posted[e], m)]
      /\ posted \in [End -> Seq(Message)]
  BY Typed DEF Send
<1>2. posted'[e] = Append(posted[e], m)
  BY <1>1
<1>3. /\ Len(Append(posted[e], m)) = Len(posted[e]) + 1
      /\ Append(posted[e], m)[Len(posted[e]) + 1] = m
  BY <1>1, AppendProperties
<1>4. posted'[e][Len(posted'[e])] = m
  BY <1>2, <1>3
<1>5. QED
  BY <1>1, <1>2, <1>3, <1>4, AbstractParts


LEMMA FrontOfAppended ==
  ASSUME NEW q \in Seq(Message), NEW m \in Message
  PROVE  Front(Append(q, m)) = q
<1> DEFINE w == Append(q, m)
           f == SubSeq(w, 1, Len(q))
<1>1. /\ w \in Seq(Message) /\ Len(w) = Len(q) + 1 /\ Len(q) \in Nat
      /\ \A n \in 1 .. Len(q) : w[n] = q[n]
  BY AppendProperties, LenProperties
<1> HIDE DEF w
<1>2. Len(q) \in 0 .. Len(w) /\ Len(w) - 1 = Len(q)
  BY <1>1
<1>3. f \in Seq(Message) /\ Len(f) = Len(q) /\ \A n \in 1 .. Len(q) : f[n] = w[n]
  BY <1>1, <1>2, Prefix
<1> HIDE DEF f
<1>4. \A n \in 1 .. Len(f) : f[n] = q[n]
  BY <1>1, <1>3
<1>5. f = q
  BY <1>3, <1>4, SeqEqual
<1>6. Front(w) = f
  BY <1>2 DEF Front, f
<1>7. QED
  BY <1>5, <1>6 DEF w

LEMMA ExecuteMaps ==
  ASSUME ConnectionTypeOK, StreamInv, NEW e \in End, Execute(e)
  PROVE  Abstract!Execute(e)
<1> DEFINE m == Head(Parsed(e)).message
           N == Len(executed[e])
           P == posted[Peer(e)]
           a == [number |-> Len(posted[e]) + 1, request |-> FALSE]
<1>1. /\ executed' = [executed EXCEPT ![e] = Append(executed[e], m)]
      /\ Send(e, a) \/ posted' = posted
  BY Zenon DEF Execute
<1>2. /\ m \in Message /\ ~IsGarbled(executed[e]) /\ N \in Nat /\ m # Garbled
      /\ N + 1 \in DOMAIN P /\ m = P[N + 1]
  BY ExecutesNext, Zenon
<1>3. a \in Message
  BY NextMessage
<1>4. executed \in [End -> Seq(Message)] /\ P \in Seq(Message)
  BY Typed, TwoEnds
<1> HIDE DEF m, N, P, a
<1>5. executed'[e] = Append(executed[e], m) /\ \A f \in End : f # e => executed'[f] = executed[f]
  BY <1>1, <1>4
<1>6. Seen[e] = executed[e] /\ Seen'[e] = Append(executed[e], m)
  <2>1. ~IsGarbled(executed'[e])
    BY <1>2, <1>4, <1>5, LastAppended
  <2>2. QED
    BY <1>2, <1>5, <2>1, SeenParts DEF AsPosted
<1>7. Seen' = [Seen EXCEPT ![e] = Append(Seen[e], P[Len(Seen[e]) + 1])]
  <2>1. Append(Seen[e], P[Len(Seen[e]) + 1]) = Append(executed[e], m)
    BY <1>2, <1>6 DEF N
  <2>2. \A f \in End : f # e => Seen'[f] = Seen[f]
    BY <1>5, SeenParts
  <2>3. Seen' = [f \in End |-> Seen'[f]] /\ Seen = [f \in End |-> Seen[f]]
    BY SeenParts DEF Seen
  <2>4. QED
    BY <1>6, <2>1, <2>2, <2>3
<1>8. Len(Seen[e]) < Len(P)
  <2>1. DOMAIN P = 1 .. Len(P) /\ Len(P) \in Nat
    BY <1>4, LenProperties
  <2>2. QED
    BY <1>2, <1>6, <2>1 DEF N
<1>9. posted' = posted \/ Abstract!Posts(e)
  BY <1>1, <1>3, SendPosts
<1>10. QED
  BY <1>7, <1>8, <1>9, AbstractParts DEF P

LEMMA GarbledMaps ==
  ASSUME ConnectionTypeOK, StreamInv, NEW e \in End, ExecuteGarbled(e)
  PROVE  Seen' = Seen /\ posted' = posted
<1>1. /\ executed' = [executed EXCEPT ![e] = Append(executed[e], Garbled)]
      /\ posted' = posted
  BY DEF ExecuteGarbled
<1>2. executed \in [End -> Seq(Message)] /\ ~IsGarbled(executed[e])
  BY Typed, NotYetGarbled
<1>3. /\ executed'[e] = Append(executed[e], Garbled)
      /\ \A f \in End : f # e => executed'[f] = executed[f]
  BY <1>1, <1>2
<1>4. Seen[e] = executed[e]
  BY <1>2, SeenParts DEF AsPosted
<1>5. Seen'[e] = executed[e]
  <2>1. IsGarbled(executed'[e])
    BY <1>2, <1>3, GarbledIsMessage, LastAppended
  <2>2. Front(executed'[e]) = executed[e]
    BY <1>2, <1>3, GarbledIsMessage, FrontOfAppended
  <2>3. QED
    BY <2>1, <2>2, SeenParts DEF AsPosted
<1>6. \A f \in End : Seen'[f] = Seen[f]
  BY <1>3, <1>4, <1>5, SeenParts
<1>7. Seen' = [f \in End |-> Seen'[f]] /\ Seen = [f \in End |-> Seen[f]]
  BY SeenParts DEF Seen
<1>8. QED
  BY <1>1, <1>6, <1>7

LEMMA StreamMaps ==
  ASSUME ConnectionTypeOK, StreamInv, [Next]_vars
  PROVE  [Abstract!Next]_(Abstract!vars)
<1>1. ASSUME posted' = posted, Seen' = Seen
      PROVE  UNCHANGED Abstract!vars
  BY <1>1, AbstractParts
<1>2. CASE UNCHANGED vars
  <2>1. posted' = posted /\ executed' = executed
    BY <1>2 DEF vars
  <2>2. QED
    BY <1>1, <2>1, SeenParts
<1>3. ASSUME NEW e \in End,
             \/ Crash(e) \/ ReadEnd(e) \/ SendFails(e) \/ SendKills(e) \/ Reject(e)
             \/ ExecuteExits(e) \/ Read(e) \/ SendReply(e) \/ Keep(e)
      PROVE  UNCHANGED Abstract!vars
  <2>1. posted' = posted /\ executed' = executed
    BY <1>3 DEF Crash, ReadEnd, SendFails, SendKills, Reject, ExecuteExits, DeleteClient,
                Close, Read, SendReply, Keep
  <2>2. QED
    BY <1>1, <2>1, SeenParts
<1>4. ASSUME NEW e \in End, Post(e)
      PROVE  Abstract!Next
  <2>1. /\ Send(e, [number |-> Len(posted[e]) + 1, request |-> TRUE])
        /\ executed' = executed
    BY <1>4 DEF Post
  <2>2. Abstract!Post(e)
    BY <2>1, NextMessage, SendPosts, SeenParts, AbstractParts
  <2>3. QED
    BY <2>2 DEF Abstract!Next
<1>5. ASSUME NEW e \in End, Execute(e)
      PROVE  Abstract!Next
  BY <1>5, ExecuteMaps DEF Abstract!Next
<1>6. ASSUME NEW e \in End, ExecuteGarbled(e)
      PROVE  UNCHANGED Abstract!vars
  BY <1>1, <1>6, GarbledMaps
<1>7. QED
  BY <1>2, <1>3, <1>4, <1>5, <1>6 DEF Next

(* Each end executes what the other has posted, each command once, whole and
   in the order in which it was posted, until the connection ends; what is
   executed in place of a command that was cut is the last thing executed
   (ProtocolStream.cpp:92, Client.cpp:107). *)
THEOREM ImplementsStream == Spec => StreamOrdered
<1>1. Init => ConnectionTypeOK /\ StreamInv /\ Abstract!Init
  <2> SUFFICES ASSUME Init
               PROVE  ConnectionTypeOK /\ StreamInv /\ Abstract!Init
    OBVIOUS
  <2>1. \A e \in End : executed[e] = << >>
    BY DEF Init
  <2>2. Seen = [e \in End |-> << >>]
    BY <2>1 DEF Seen, AsPosted, IsGarbled
  <2>3. posted = [e \in End |-> << >>]
    BY DEF Init
  <2>4. QED
    BY <2>2, <2>3, InitTypes, StreamInit, AbstractParts
<1>2. ConnectionTypeOK /\ StreamInv /\ [Next]_vars => (ConnectionTypeOK /\ StreamInv)'
  BY TypeStep, StreamStep
<1>3. ConnectionTypeOK /\ StreamInv /\ [Next]_vars => [Abstract!Next]_(Abstract!vars)
  BY StreamMaps
<1>4. QED
  BY <1>1, <1>2, <1>3, PTL DEF Spec, StreamOrdered, Abstract!Spec
==============================================================================
