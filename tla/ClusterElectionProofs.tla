------------------------- MODULE ClusterElectionProofs -------------------------
(***************************************************************************)
(* A cluster in which one election timeout at most strikes keeps           *)
(* ElectionInv: the log files are prefixes of the leader's, a committed    *)
(* entry is in a majority of them, and no process exits.                   *)
(***************************************************************************)
EXTENDS ClusterElection, ClusterRefinement, ClusterLinkProofs, ClusterTermProofs,
        FiniteSetTheorems, SequenceTheorems, WellFoundedInduction

(* Queues.  No append entry or answer of r is missing in q; with Alike, none *)
(* of q is missing in r.                                                     *)

Appending == {"appendentry", "replyappendentry"}

Fewer(q, r) ==
  /\ \A type \in Appending : /\ OfType(r, type) \subseteq OfType(q, type)
                             /\ AtMostOne(q, type) => AtMostOne(r, type)
  /\ AnswersFirst(q) => AnswersFirst(r)

Alike(q, r) ==
  Fewer(q, r) /\ \A type \in Appending : OfType(q, type) \subseteq OfType(r, type)

LEMMA FewerTransitive ==
  ASSUME NEW q, NEW r, NEW s
  PROVE  /\ Fewer(q, r) /\ Fewer(r, s) => Fewer(q, s)
         /\ Alike(q, r) /\ Alike(r, s) => Alike(q, s)
         /\ Fewer(q, q) /\ Alike(q, q)
<1>1. Fewer(q, r) /\ Fewer(r, s) => Fewer(q, s)
  BY DEF Fewer
<1>2. Fewer(q, q)
  BY DEF Fewer
<1>3. QED
  BY <1>1, <1>2 DEF Alike

LEMMA FewerTypes ==
  ASSUME NEW q, NEW r, Fewer(q, r), NEW type \in Appending
  PROVE  /\ OfType(r, type) \subseteq OfType(q, type)
         /\ AtMostOne(q, type) => AtMostOne(r, type)
BY DEF Fewer

LEMMA AlikeTypes ==
  ASSUME NEW q, NEW r, Alike(q, r), NEW type \in Appending
  PROVE  OfType(r, type) = OfType(q, type)
BY DEF Alike, Fewer

LEMMA NothingOfType ==
  ASSUME NEW q, NEW type
  PROVE  OfType(q, type) = {} <=> \A n \in DOMAIN q : q[n].type # type
BY DEF OfType

(* One more message. *)
LEMMA OfTypeAppend ==
  ASSUME NEW M, NEW q \in Seq(M), NEW m \in M, NEW type
  PROVE  /\ m.type = type => OfType(Append(q, m), type) = OfType(q, type) \cup {m}
         /\ m.type # type => OfType(Append(q, m), type) = OfType(q, type)
         /\ AtMostOne(q, type) /\ (m.type = type => OfType(q, type) = {}) =>
              AtMostOne(Append(q, m), type)
<1> DEFINE r == Append(q, m)
<1>1. /\ Len(q) \in Nat /\ r[Len(q) + 1] = m
      /\ DOMAIN r = 1 .. Len(q) + 1 /\ DOMAIN q = 1 .. Len(q)
      /\ \A k \in 1 .. Len(q) : r[k] = q[k]
  OBVIOUS
<1>2. DOMAIN r = DOMAIN q \cup {Len(q) + 1}
  BY <1>1
<1> HIDE DEF r
<1>3. /\ m.type = type => OfType(r, type) = OfType(q, type) \cup {m}
      /\ m.type # type => OfType(r, type) = OfType(q, type)
  <2>1. \A x : x \in OfType(r, type) <=> \E n \in DOMAIN r : r[n].type = type /\ x = r[n]
    BY DEF OfType
  <2>2. \A x : x \in OfType(q, type) <=> \E n \in DOMAIN q : q[n].type = type /\ x = q[n]
    BY DEF OfType
  <2>3. \A x : x \in OfType(r, type) <=>
                 x \in OfType(q, type) \/ (x = m /\ m.type = type)
    BY <1>1, <1>2, <2>1, <2>2
  <2>4. QED
    BY <2>3
<1>4. ASSUME AtMostOne(q, type), m.type = type => OfType(q, type) = {}
      PROVE  AtMostOne(r, type)
  <2>1. m.type = type => \A n \in DOMAIN q : q[n].type # type
    BY <1>4, NothingOfType
  <2>2. QED
    BY <1>1, <1>2, <1>4, <2>1 DEF AtMostOne
<1>5. QED
  BY <1>3, <1>4 DEF r

LEMMA OfTypeAppended ==
  ASSUME NEW M, NEW q \in Seq(M), NEW m \in M, NEW type,
         m.type = type, OfType(q, type) = {}, AtMostOne(q, type)
  PROVE  OfType(Append(q, m), type) = {m} /\ AtMostOne(Append(q, m), type)
<1>1. OfType(Append(q, m), type) = OfType(q, type) \cup {m}
  BY OfTypeAppend
<1>2. AtMostOne(Append(q, m), type)
  BY OfTypeAppend
<1>3. QED
  BY <1>1, <1>2

LEMMA AnswersFirstAppend ==
  ASSUME NEW M, NEW q \in Seq(M), NEW m \in M, AnswersFirst(q),
         m.type = "replyappendentry" => ~Ended(q)
  PROVE  AnswersFirst(Append(q, m))
<1> DEFINE r == Append(q, m)
<1>1. /\ Len(q) \in Nat /\ r[Len(q) + 1] = m
      /\ DOMAIN r = 1 .. Len(q) + 1 /\ DOMAIN q = 1 .. Len(q)
      /\ \A k \in 1 .. Len(q) : r[k] = q[k]
  OBVIOUS
<1> HIDE DEF r
<1>2. ASSUME NEW k \in DOMAIN r, NEW n \in DOMAIN r,
             r[k].type = "replyappendentry", IsEof(r[n])
      PROVE  k < n
  <2>1. CASE n = Len(q) + 1
    <3>1. k # n
      BY <1>2 DEF IsEof
    <3>2. QED
      BY <1>1, <2>1, <3>1
  <2>2. CASE n \in DOMAIN q
    <3>1. k \in DOMAIN q
      BY <1>1, <1>2, <2>2 DEF Ended
    <3>2. QED
      BY <1>1, <1>2, <2>2, <3>1 DEF AnswersFirst
  <2>3. QED
    BY <1>1, <2>1, <2>2
<1>3. QED
  BY <1>2 DEF AnswersFirst, r

LEMMA AlikeAppend ==
  ASSUME NEW M, NEW q \in Seq(M), NEW m \in M, m.type \notin Appending
  PROVE  Alike(q, Append(q, m))
<1>1. ASSUME NEW type \in Appending
      PROVE  /\ OfType(Append(q, m), type) = OfType(q, type)
             /\ AtMostOne(q, type) => AtMostOne(Append(q, m), type)
  <2>1. m.type # type
    BY <1>1
  <2>2. QED
    BY <2>1, OfTypeAppend
<1>2. AnswersFirst(q) => AnswersFirst(Append(q, m))
  BY AnswersFirstAppend DEF Appending
<1>3. QED
  BY <1>1, <1>2 DEF Alike, Fewer

(* One message less. *)
LEMMA OfTypeTail ==
  ASSUME NEW M, NEW q \in Seq(M), q # << >>
  PROVE  /\ Fewer(q, Tail(q))
         /\ Head(q).type \notin Appending => Alike(q, Tail(q))
         /\ \A type : /\ Head(q).type # type => OfType(Tail(q), type) = OfType(q, type)
                      /\ Head(q).type = type /\ AtMostOne(q, type) =>
                           OfType(q, type) = {Head(q)} /\ OfType(Tail(q), type) = {}
<1> DEFINE r == Tail(q)
<1>1. /\ Len(q) \in Nat /\ Len(q) > 0 /\ Head(q) = q[1]
      /\ DOMAIN q = 1 .. Len(q) /\ DOMAIN r = 1 .. Len(q) - 1
      /\ \A p \in DOMAIN r : r[p] = q[p + 1] /\ p + 1 \in DOMAIN q /\ p \in Nat
  OBVIOUS
<1>2. \A n \in DOMAIN q : n # 1 => n - 1 \in DOMAIN r /\ r[n - 1] = q[n]
  <2>1. SUFFICES ASSUME NEW n \in DOMAIN q, n # 1
                 PROVE  n - 1 \in DOMAIN r /\ r[n - 1] = q[n]
    OBVIOUS
  <2>2. n - 1 \in DOMAIN r /\ (n - 1) + 1 = n
    BY <1>1, <2>1
  <2>3. QED
    BY <1>1, <2>2
<1> HIDE DEF r
<1>3. \A type, x : x \in OfType(q, type) <=> \E n \in DOMAIN q : q[n].type = type /\ x = q[n]
  BY DEF OfType
<1>4. \A type, x : x \in OfType(r, type) <=> \E n \in DOMAIN r : r[n].type = type /\ x = r[n]
  BY DEF OfType
<1>5. ASSUME NEW type
      PROVE  /\ OfType(r, type) \subseteq OfType(q, type)
             /\ AtMostOne(q, type) => AtMostOne(r, type)
             /\ Head(q).type # type => OfType(r, type) = OfType(q, type)
             /\ Head(q).type = type /\ AtMostOne(q, type) =>
                  OfType(q, type) = {Head(q)} /\ OfType(r, type) = {}
  <2>1. OfType(r, type) \subseteq OfType(q, type)
    BY <1>1, <1>3, <1>4
  <2>2. AtMostOne(q, type) => AtMostOne(r, type)
    <3>1. SUFFICES ASSUME AtMostOne(q, type), NEW m \in DOMAIN r, NEW n \in DOMAIN r,
                          r[m].type = type, r[n].type = type
                   PROVE  m = n
      BY DEF AtMostOne
    <3>2. m + 1 = n + 1
      BY <1>1, <3>1 DEF AtMostOne
    <3>3. QED
      BY <1>1, <3>2
  <2>3. ASSUME Head(q).type # type
        PROVE  OfType(r, type) = OfType(q, type)
    <3>1. \A x \in OfType(q, type) : x \in OfType(r, type)
      BY <1>1, <1>2, <1>3, <1>4, <2>3
    <3>2. QED
      BY <2>1, <3>1
  <2>4. ASSUME Head(q).type = type, AtMostOne(q, type)
        PROVE  OfType(q, type) = {Head(q)} /\ OfType(r, type) = {}
    <3>1. 1 \in DOMAIN q
      BY <1>1
    <3>2. \A n \in DOMAIN q : q[n].type = type => n = 1
      BY <1>1, <2>4, <3>1 DEF AtMostOne
    <3>3. OfType(q, type) = {Head(q)}
      BY <1>1, <1>3, <2>4, <3>1, <3>2
    <3>4. \A n \in DOMAIN r : n + 1 # 1
      BY <1>1
    <3>5. OfType(r, type) = {}
      BY <1>1, <1>4, <3>2, <3>4
    <3>6. QED
      BY <3>3, <3>5
  <2>5. QED
    BY <2>1, <2>2, <2>3, <2>4
<1>6. AnswersFirst(q) => AnswersFirst(r)
  <2>1. SUFFICES ASSUME AnswersFirst(q), NEW m \in DOMAIN r, NEW n \in DOMAIN r,
                        r[m].type = "replyappendentry", IsEof(r[n])
                 PROVE  m < n
    BY DEF AnswersFirst
  <2>2. m + 1 < n + 1
    BY <1>1, <2>1 DEF AnswersFirst
  <2>3. QED
    BY <1>1, <2>2
<1>7. QED
  BY <1>5, <1>6 DEF Fewer, Alike, r

(* The end of the connection is still there when another message is read. *)
LEMMA EndedTail ==
  ASSUME NEW M, NEW q \in Seq(M), q # << >>, ~IsEof(Head(q))
  PROVE  Ended(Tail(q)) <=> Ended(q)
<1> DEFINE r == Tail(q)
<1>1. /\ Len(q) \in Nat /\ Len(q) > 0 /\ Head(q) = q[1]
      /\ DOMAIN q = 1 .. Len(q) /\ DOMAIN r = 1 .. Len(q) - 1
      /\ \A p \in DOMAIN r : r[p] = q[p + 1] /\ p + 1 \in DOMAIN q
  OBVIOUS
<1>2. ASSUME NEW n \in DOMAIN q, IsEof(q[n])
      PROVE  \E p \in DOMAIN r : IsEof(r[p])
  <2>1. n - 1 \in DOMAIN r /\ (n - 1) + 1 = n
    BY <1>1, <1>2
  <2>2. r[n - 1] = q[n]
    BY <1>1, <2>1
  <2>3. QED
    BY <1>2, <2>1, <2>2
<1> HIDE DEF r
<1>3. QED
  BY <1>1, <1>2 DEF Ended, r

(* The end of the connection behind which there is no answer. *)
LEMMA NoAnswerBehind ==
  ASSUME NEW M, NEW q \in Seq(M), q # << >>, AnswersFirst(q), IsEof(Head(q))
  PROVE  OfType(q, "replyappendentry") = {}
<1>1. 1 \in DOMAIN q /\ Head(q) = q[1] /\ \A n \in DOMAIN q : ~(n < 1)
  OBVIOUS
<1>2. QED
  BY <1>1, NothingOfType DEF AnswersFirst

(* Messages that are lost when the connection ends. *)
LEMMA FewerLost ==
  ASSUME NEW q
  PROVE  /\ Fewer(q, << >>) /\ Fewer(q, <<Eof>>)
         /\ \A type \in Appending : /\ OfType(<< >>, type) = {}
                                    /\ OfType(<<Eof>>, type) = {}
         /\ Ended(<<Eof>>) /\ ~Ended(<< >>)
<1> DEFINE e == <<Eof>>
           n == << >>
<1>1. /\ DOMAIN e = {1} /\ e[1] = Eof /\ DOMAIN n = {}
  OBVIOUS
<1>2. Eof.type \notin Appending /\ IsEof(Eof) /\ "replyappendentry" \in Appending
  BY DEF Eof, Appending, IsEof
<1> HIDE DEF e, n
<1>3. \A type \in Appending : /\ OfType(n, type) = {} /\ AtMostOne(n, type)
                              /\ OfType(e, type) = {} /\ AtMostOne(e, type)
  BY <1>1, <1>2, NothingOfType DEF AtMostOne
<1>4. AnswersFirst(e) /\ AnswersFirst(n)
  BY <1>1, <1>2 DEF AnswersFirst
<1>5. Ended(e) /\ ~Ended(n)
  BY <1>1, <1>2 DEF Ended
<1>6. QED
  BY <1>3, <1>4, <1>5 DEF Fewer, e, n

-----------------------------------------------------------------------------
(* The operators of Network, on each pair of nodes. *)

AlikeAll(c, d)  == \A a, b \in Node : Alike(c[a][b], d[a][b])
FewerAll(c, d)  == \A a, b \in Node : Fewer(c[a][b], d[a][b])

LEMMA PlainTypes ==
  /\ ClusterNode.type \notin Appending /\ ReplyClusterNode.type \notin Appending
  /\ Eof.type \notin Appending /\ IsEof(Eof) /\ ~IsEof(ClusterNode)
BY DEF ClusterNode, ReplyClusterNode, Eof, Appending, IsEof

LEMMA DialAlike ==
  ASSUME NEW M, ClusterNode \in M, Eof \in M, NEW ch \in Channels(M),
         NEW i \in Node, NEW targets, NEW alive
  PROVE  /\ AlikeAll(ch, Dial(ch, i, targets, alive))
         /\ \A a, b \in Node :
              /\ b # i \/ a \notin targets =>
                   (Ended(Dial(ch, i, targets, alive)[a][b]) <=> Ended(ch[a][b]))
              /\ a # i /\ (b # i \/ a \notin targets) =>
                   Dial(ch, i, targets, alive)[a][b] = ch[a][b]
              /\ a = i /\ b \notin targets /\ (b # i \/ a \notin targets) =>
                   Dial(ch, i, targets, alive)[a][b] = ch[a][b]
<1>1. SUFFICES ASSUME NEW a \in Node, NEW b \in Node
               PROVE  LET q == ch[a][b]
                          r == Dial(ch, i, targets, alive)[a][b]
                      IN  /\ Alike(q, r)
                          /\ b # i \/ a \notin targets => (Ended(r) <=> Ended(q))
                          /\ a # i /\ (b # i \/ a \notin targets) => r = q
                          /\ a = i /\ b \notin targets /\ (b # i \/ a \notin targets) => r = q
  BY DEF AlikeAll
<1> DEFINE q == ch[a][b]
           r == Dial(ch, i, targets, alive)[a][b]
<1>2. q \in Seq(M)
  BY DEF Channels
<1>3. r = CASE a = i /\ b \in targets \cap alive -> Append(q, ClusterNode)
            [] b = i /\ a \in targets \ alive    -> Append(q, Eof)
            [] OTHER                             -> q
  BY DEF Dial
<1> HIDE DEF q, r
<1>4. /\ Alike(q, Append(q, ClusterNode)) /\ Alike(q, Append(q, Eof)) /\ Alike(q, q)
      /\ Ended(Append(q, ClusterNode)) <=> Ended(q)
  BY <1>2, AlikeAppend, PlainTypes, AppendedQueue, FewerTransitive
<1>5. CASE a = i /\ b \in targets \cap alive
  BY <1>3, <1>4, <1>5 DEF q, r
<1>6. CASE ~(a = i /\ b \in targets \cap alive) /\ b = i /\ a \in targets \ alive
  BY <1>3, <1>4, <1>6 DEF q, r
<1>7. CASE ~(a = i /\ b \in targets \cap alive) /\ ~(b = i /\ a \in targets \ alive)
  BY <1>3, <1>4, <1>7 DEF q, r
<1>8. QED
  BY <1>5, <1>6, <1>7

LEMMA BroadcastAlike ==
  ASSUME NEW M, NEW ch \in Channels(M), NEW i \in Node, NEW targets, NEW message,
         \A j \in Node : message[j] \in M /\ message[j].type \notin Appending \cup {"eof"}
  PROVE  /\ AlikeAll(ch, Broadcast(ch, i, targets, message))
         /\ \A a, b \in Node :
              Ended(Broadcast(ch, i, targets, message)[a][b]) <=> Ended(ch[a][b])
<1>1. SUFFICES ASSUME NEW a \in Node, NEW b \in Node
               PROVE  LET q == ch[a][b]
                          r == Broadcast(ch, i, targets, message)[a][b]
                      IN  Alike(q, r) /\ (Ended(r) <=> Ended(q))
  BY DEF AlikeAll
<1> DEFINE q == ch[a][b]
           r == Broadcast(ch, i, targets, message)[a][b]
<1>2. q \in Seq(M) /\ message[b] \in M /\ message[b].type \notin Appending
      /\ ~IsEof(message[b])
  BY DEF Channels, IsEof
<1>3. r = q \/ r = Append(q, message[b])
  BY DEF Broadcast, Post, Channels
<1> HIDE DEF q, r
<1>4. /\ Alike(q, Append(q, message[b])) /\ Alike(q, q)
      /\ Ended(Append(q, message[b])) <=> Ended(q)
  BY <1>2, AlikeAppend, AppendedQueue, FewerTransitive
<1>5. QED
  BY <1>3, <1>4 DEF q, r

(* The reader drops its first message. *)
LEMMA ConsumeFewer ==
  ASSUME NEW M, NEW ch \in Channels(M), NEW i \in Node, NEW j \in Node,
         ch[j][i] # << >>
  PROVE  /\ FewerAll(ch, Consume(ch, i, j))
         /\ Head(ch[j][i]).type \notin Appending => AlikeAll(ch, Consume(ch, i, j))
         /\ Consume(ch, i, j)[j][i] = Tail(ch[j][i])
         /\ \A a, b \in Node : ~(a = j /\ b = i) => Consume(ch, i, j)[a][b] = ch[a][b]
<1>1. /\ Consume(ch, i, j)[j][i] = Tail(ch[j][i])
      /\ \A a, b \in Node : ~(a = j /\ b = i) => Consume(ch, i, j)[a][b] = ch[a][b]
  BY DEF Consume, Channels
<1>2. /\ Fewer(ch[j][i], Tail(ch[j][i]))
      /\ Head(ch[j][i]).type \notin Appending => Alike(ch[j][i], Tail(ch[j][i]))
  <2>1. ch[j][i] \in Seq(M)
    BY DEF Channels
  <2>2. QED
    BY <2>1, OfTypeTail
<1>3. QED
  BY <1>1, <1>2, FewerTransitive DEF FewerAll, AlikeAll

LEMMA AnswerAlike ==
  ASSUME NEW M, NEW ch \in Channels(M), NEW i \in Node, NEW j \in Node, i # j,
         ch[j][i] # << >>, Head(ch[j][i]).type \notin Appending \cup {"eof"},
         NEW m \in M, m.type \notin Appending \cup {"eof"}
  PROVE  /\ AlikeAll(ch, Answer(ch, i, j, m))
         /\ \A a, b \in Node : Ended(Answer(ch, i, j, m)[a][b]) <=> Ended(ch[a][b])
<1> DEFINE rest == Consume(ch, i, j)
           last == Answer(ch, i, j, m)
<1>1. AlikeAll(ch, rest) /\ rest \in Channels(M)
  BY ConsumeFewer, ConsumeType
<1>2. last = [rest EXCEPT ![i][j] = Post(rest, i, j, m)]
  BY DEF Answer
<1>3. /\ rest[j][i] = Tail(ch[j][i])
      /\ \A a, b \in Node : ~(a = j /\ b = i) => rest[a][b] = ch[a][b]
  BY ConsumeFewer
<1>4. Ended(Tail(ch[j][i])) <=> Ended(ch[j][i])
  <2> DEFINE q == ch[j][i]
  <2>1. /\ q \in Seq(M) /\ q # << >> /\ ~IsEof(Head(q))
    BY DEF Channels, IsEof
  <2> HIDE DEF q
  <2>2. Ended(Tail(q)) <=> Ended(q)
    BY <2>1, EndedTail
  <2>3. QED
    BY <2>2 DEF q
<1> HIDE DEF rest, last
<1>5. ASSUME NEW a \in Node, NEW b \in Node
      PROVE  Alike(rest[a][b], last[a][b]) /\ (Ended(last[a][b]) <=> Ended(rest[a][b]))
  <2>1. rest[a][b] \in Seq(M) /\ ~IsEof(m)
    BY <1>1 DEF Channels, IsEof
  <2>2. last[a][b] = rest[a][b] \/ last[a][b] = Append(rest[a][b], m)
    BY <1>1, <1>2 DEF Post, Channels
  <2>3. /\ Alike(rest[a][b], Append(rest[a][b], m)) /\ Alike(rest[a][b], rest[a][b])
        /\ Ended(Append(rest[a][b], m)) <=> Ended(rest[a][b])
    BY <2>1, AlikeAppend, AppendedQueue, FewerTransitive
  <2>4. QED
    BY <2>2, <2>3
<1>6. QED
  BY <1>1, <1>3, <1>4, <1>5, FewerTransitive DEF AlikeAll, last

LEMMA HangupFewer ==
  ASSUME NEW M, Eof \in M, NEW ch \in Channels(M), NEW i \in Node,
         NEW connected, NEW received
  PROVE  /\ FewerAll(ch, Hangup(ch, i, connected, received))
         /\ \A b \in Node \ {i} :
              /\ Hangup(ch, i, connected, received)[b][i] = << >>
              /\ Ended(Hangup(ch, i, connected, received)[i][b]) <=>
                   b \in connected \/ Ended(ch[i][b])
         /\ \A a, b \in Node \ {i} :
              Hangup(ch, i, connected, received)[a][b] = ch[a][b]
<1> DEFINE new == Hangup(ch, i, connected, received)
<1>1. /\ \A a \in Node : new[a][i] = << >>
      /\ \A a, b \in Node \ {i} : new[a][b] = ch[a][b]
  BY DEF Hangup
<1>2. ASSUME NEW b \in Node \ {i}
      PROVE  /\ Fewer(ch[i][b], new[i][b])
             /\ Ended(new[i][b]) <=> b \in connected \/ Ended(ch[i][b])
  <2> DEFINE q    == ch[i][b]
             read == CASE b \in received                      -> q
                       [] b \notin received /\ Ended(q) -> <<Eof>>
                       [] OTHER                              -> << >>
             end  == IF b \in connected THEN <<Eof>> ELSE << >>
  <2>1. new[i][b] = read \o end
    BY DEF Hangup
  <2>2. q \in Seq(M)
    BY DEF Channels
  <2>3. << >> \in Seq(M) /\ <<Eof>> \in Seq(M)
    OBVIOUS
  <2> HIDE DEF q
  <2>4. read \in Seq(M) /\ Fewer(q, read) /\ (Ended(read) <=> Ended(q))
    BY <2>2, <2>3, FewerLost, FewerTransitive
  <2> HIDE DEF read, new
  <2>5. read \o end = IF b \in connected THEN Append(read, Eof) ELSE read
    BY <2>4
  <2>6. /\ Fewer(read, Append(read, Eof)) /\ Ended(Append(read, Eof))
    BY <2>4, AlikeAppend, PlainTypes, AppendedQueue DEF Alike
  <2>7. Fewer(q, read \o end)
    <3>1. Fewer(q, Append(read, Eof))
      BY <2>4, <2>6, FewerTransitive
    <3>2. QED
      BY <2>4, <2>5, <3>1
  <2>8. Ended(read \o end) <=> b \in connected \/ Ended(q)
    BY <2>4, <2>5, <2>6
  <2>9. QED
    BY <2>1, <2>7, <2>8 DEF q
<1>3. FewerAll(ch, new)
  <2>1. SUFFICES ASSUME NEW a \in Node, NEW b \in Node
                 PROVE  Fewer(ch[a][b], new[a][b])
    BY DEF FewerAll
  <2>2. CASE b = i
    BY <1>1, <2>2, FewerLost
  <2>3. CASE b # i /\ a = i
    BY <1>2, <2>3
  <2>4. CASE b # i /\ a # i
    BY <1>1, <2>4, FewerTransitive
  <2>5. QED
    BY <2>2, <2>3, <2>4
<1>4. QED
  BY <1>1, <1>2, <1>3

LEMMA BreakFewer ==
  ASSUME NEW M, NEW ch \in Channels(M), NEW i \in Node, NEW j \in Node, i # j
  PROVE  /\ FewerAll(ch, Break(ch, i, j))
         /\ Break(ch, i, j)[i][j] = <<Eof>> /\ Break(ch, i, j)[j][i] = <<Eof>>
         /\ \A a, b \in Node : ~(a = i /\ b = j) /\ ~(a = j /\ b = i) =>
                              Break(ch, i, j)[a][b] = ch[a][b]
<1>1. /\ Break(ch, i, j)[i][j] = <<Eof>> /\ Break(ch, i, j)[j][i] = <<Eof>>
      /\ \A a, b \in Node : ~(a = i /\ b = j) /\ ~(a = j /\ b = i) =>
                           Break(ch, i, j)[a][b] = ch[a][b]
  BY DEF Break, Channels
<1>2. QED
  BY <1>1, FewerLost, FewerTransitive DEF FewerAll

-----------------------------------------------------------------------------
(* Files: what an append entry that repeats a part of whole does to one of   *)
(* its prefixes.                                                             *)

LEMMA PrefixTransitive ==
  ASSUME NEW f \in Seq(Entry), NEW g \in Seq(Entry), NEW h \in Seq(Entry),
         IsPrefixOf(f, g), IsPrefixOf(g, h)
  PROVE  IsPrefixOf(f, h) /\ IsPrefixOf(f, f) /\ IsPrefixOf(<< >>, f)
<1>1. /\ Len(f) \in Nat /\ Len(g) \in Nat /\ Len(h) \in Nat
      /\ DOMAIN f = 1 .. Len(f) /\ DOMAIN g = 1 .. Len(g)
      /\ Len(<< >>) = 0 /\ DOMAIN << >> = {}
  OBVIOUS
<1>2. QED
  BY <1>1 DEF IsPrefixOf

LEMMA PrefixAppend ==
  ASSUME NEW f \in Seq(Entry), NEW g \in Seq(Entry), NEW e \in Entry, IsPrefixOf(f, g)
  PROVE  /\ IsPrefixOf(f, Append(g, e))
         /\ Len(f) < Len(g) /\ e = g[Len(f) + 1] => IsPrefixOf(Append(f, e), g)
<1>1. /\ Len(f) \in Nat /\ Len(g) \in Nat
      /\ DOMAIN f = 1 .. Len(f) /\ DOMAIN g = 1 .. Len(g)
      /\ Len(Append(g, e)) = Len(g) + 1 /\ Len(Append(f, e)) = Len(f) + 1
      /\ \A p \in 1 .. Len(g) : Append(g, e)[p] = g[p]
      /\ \A p \in 1 .. Len(f) : Append(f, e)[p] = f[p]
      /\ Append(f, e)[Len(f) + 1] = e
      /\ DOMAIN Append(f, e) = 1 .. Len(f) + 1
  OBVIOUS
<1>2. IsPrefixOf(f, Append(g, e))
  BY <1>1 DEF IsPrefixOf
<1>3. Len(f) < Len(g) /\ e = g[Len(f) + 1] => IsPrefixOf(Append(f, e), g)
  BY <1>1 DEF IsPrefixOf
<1>4. QED
  BY <1>2, <1>3

(* The sibling has no previous entry, or the message has none: no entry is   *)
(* cut off, unless the message starts the file anew.                         *)
LEMMA MismatchOfPrefix ==
  ASSUME NEW file \in DenseFile, NEW whole \in DenseFile, IsPrefixOf(file, whole),
         NEW m \in AppendEntryMessage, Repeats(m, whole), Mismatch(file, m)
  PROVE  /\ m.prevLogIndex = 0 => AfterMismatch(file, m) = << >>
         /\ m.prevLogIndex # 0 => AfterMismatch(file, m) = file
                                  /\ Len(file) < m.prevLogIndex
<1>1. m.prevLogIndex \in Nat /\ file \in Seq(Entry) /\ Len(file) \in Nat
      /\ DOMAIN file = 1 .. Len(file)
  BY DEF AppendEntryMessage, DenseFile
<1>2. CASE m.prevLogIndex = 0
  BY <1>2 DEF AfterMismatch
<1>3. CASE m.prevLogIndex # 0
  <2>1. ~HasEntry(file, m.prevLogIndex)
    <3>1. SUFFICES ASSUME HasEntry(file, m.prevLogIndex)
                   PROVE  FALSE
      OBVIOUS
    <3>2. FindEntry(file, m.prevLogIndex).term # m.prevLogTerm
      BY <1>3, <3>1 DEF Mismatch
    <3>3. m.prevLogIndex \in 1 .. Len(file)
      BY <1>1, <3>1, HasEntryDense
    <3>4. FindEntry(file, m.prevLogIndex) = file[m.prevLogIndex]
      BY <1>1, <3>1, FindEntryDense
    <3>5. file[m.prevLogIndex] = whole[m.prevLogIndex]
      BY <1>1, <3>3 DEF IsPrefixOf
    <3>6. m.prevLogTerm = whole[m.prevLogIndex].term
      BY <1>1, <1>3 DEF Repeats
    <3>7. QED
      BY <3>2, <3>4, <3>5, <3>6
  <2>2. AfterMismatch(file, m) = file
    BY <1>3, <2>1 DEF AfterMismatch, DeleteEntryAfter
  <2>3. Len(file) < m.prevLogIndex
    BY <1>1, <1>3, <2>1, HasEntryDense
  <2>4. QED
    BY <1>3, <2>2, <2>3
<1>4. QED
  BY <1>2, <1>3

LEMMA CutAfterPrevPrefix ==
  ASSUME NEW file \in DenseFile, NEW m \in AppendEntryMessage
  PROVE  IsPrefixOf(CutAfterPrev(file, m), file)
<1>1. /\ m.prevLogIndex \in Nat /\ m.prevLogIndex + 1 \in Nat
      /\ file \in Seq(Entry) /\ Len(file) \in Nat /\ DOMAIN file = 1 .. Len(file)
  BY DEF AppendEntryMessage, DenseFile
<1>2. IsPrefixOf(file, file)
  BY <1>1 DEF IsPrefixOf
<1> DEFINE cut == DeleteEntryAfter(file, m.prevLogIndex + 1)
<1>3. /\ cut \in DenseFile /\ Len(cut) <= Len(file)
      /\ \A p \in 1 .. Len(cut) : cut[p] = file[p]
  BY <1>1, DeleteEntryAfterDense
<1>4. CutAfterPrev(file, m) \in {file, cut}
  BY DEF CutAfterPrev
<1> HIDE DEF cut
<1>5. DOMAIN cut = 1 .. Len(cut)
  BY <1>3 DEF DenseFile
<1>6. IsPrefixOf(cut, file)
  BY <1>3, <1>5 DEF IsPrefixOf
<1>7. QED
  BY <1>2, <1>4, <1>6

(* An accepted append entry leaves the entries up to the one it carries. *)
LEMMA AcceptedPrefix ==
  ASSUME NEW file \in DenseFile, NEW whole \in DenseFile, IsPrefixOf(file, whole),
         NEW m \in AppendEntryMessage, Repeats(m, whole), ~Mismatch(file, m),
         FollowsPrev(m), \A p \in DOMAIN whole : whole[p].term >= 1
  PROVE  /\ IsPrefixOf(AfterAppend(file, m), whole)
         /\ AfterAppend(file, m) \in DenseFile
         /\ m.entry.index = 0 => Len(AfterAppend(file, m)) = m.prevLogIndex
         /\ m.entry.index # 0 => Len(AfterAppend(file, m)) = m.prevLogIndex + 1
<1> DEFINE cut == CutAfterPrev(file, m)
<1>1. /\ file \in Seq(Entry) /\ whole \in Seq(Entry) /\ m.prevLogIndex \in Nat
      /\ m.entry \in Entry
  BY DEF DenseFile, AppendEntryMessage
<1>2. cut \in DenseFile /\ cut \in Seq(Entry) /\ Len(cut) = m.prevLogIndex
  BY CutAfterPrevDense DEF DenseFile
<1>3. IsPrefixOf(cut, whole)
  BY <1>1, <1>2, CutAfterPrevPrefix, PrefixTransitive
<1>4. AfterAppend(file, m) \in DenseFile
  BY AfterAppendDense
<1> HIDE DEF cut
<1>5. CASE m.entry.index = 0
  <2>1. AfterAppend(file, m) = cut
    BY <1>5 DEF AfterAppend, Carries, cut
  <2>2. QED
    BY <1>2, <1>3, <1>4, <1>5, <2>1
<1>6. CASE m.entry.index # 0
  <2>1. /\ m.prevLogIndex < Len(whole)
        /\ m.entry = whole[m.prevLogIndex + 1]
    BY <1>6 DEF Repeats
  <2>2. m.prevLogIndex + 1 \in DOMAIN whole
    BY <1>1, <2>1
  <2>3. m.entry.term # 0
    <3>1. m.entry.term >= 1
      BY <2>1, <2>2
    <3>2. QED
      BY <3>1
  <2>4. AfterAppend(file, m) = Append(cut, m.entry)
    BY <1>6, <2>3 DEF AfterAppend, Carries, cut
  <2>5. IsPrefixOf(Append(cut, m.entry), whole)
    BY <1>1, <1>2, <1>3, <2>1, PrefixAppend
  <2>6. Len(Append(cut, m.entry)) = m.prevLogIndex + 1
    BY <1>1, <1>2
  <2>7. QED
    BY <1>4, <1>6, <2>4, <2>5, <2>6
<1>7. QED
  BY <1>5, <1>6

(* Such a message is what a leader gets ready for a sibling                 *)
(* whose next index its own log reaches.                                     *)
LEMMA AppendEntryRepeats ==
  ASSUME LogInv, NEW i \in Node, NEW j \in Node,
         nextIndex[i][j] >= 1, nextIndex[i][j] <= Len(log[i]) + 1,
         commitIndex[i] <= Len(log[i])
  PROVE  /\ AppendEntry(i, j).type = "appendentry"
         /\ AppendEntry(i, j).prevLogIndex = nextIndex[i][j] - 1
         /\ AppendEntry(i, j).leaderCommit = commitIndex[i]
         /\ AppendEntry(i, j).entry.index = 0 <=> Heartbeat(i, j)
         /\ Repeats(AppendEntry(i, j), log[i])
         /\ ~CannotAppend(i, j) /\ ~BeyondLog(i, j)
<1> DEFINE file == log[i]
           n    == nextIndex[i][j]
           next == FindEntry(file, n)
           prev == IF n > 1 THEN FindEntry(file, n - 1) ELSE NullEntry
           m    == AppendEntry(i, j)
<1>1. /\ file \in DenseFile /\ file \in Seq(Entry) /\ Len(file) \in Nat
      /\ n \in Nat /\ n >= 1 /\ n <= Len(file) + 1 /\ n - 1 \in Nat
      /\ commitIndex[i] \in Nat /\ commitIndex[i] <= Len(file)
      /\ \A p \in 1 .. Len(file) : file[p].index = p
  <2>1. file \in DenseFile
    BY LogFiles
  <2>2. n \in Nat /\ commitIndex[i] \in Nat
    BY DEF LogInv, TypeOK
  <2>3. file \in Seq(Entry) /\ \A p \in 1 .. Len(file) : file[p].index = p
    BY <2>1 DEF DenseFile, Dense
  <2>4. QED
    BY <2>1, <2>2, <2>3
<1>2. /\ m.type = "appendentry" /\ m.prevLogIndex = prev.index
      /\ m.prevLogTerm = prev.term /\ m.entry = next
      /\ m.leaderCommit = commitIndex[i]
  BY DEF AppendEntry
<1>3. /\ Heartbeat(i, j) <=> ~HasEntry(file, n)
      /\ CannotAppend(i, j) <=> BeyondLog(i, j) \/ (n > 1 /\ ~HasEntry(file, n - 1))
      /\ BeyondLog(i, j) <=> ~HasEntry(file, n) /\ n > FindLastEntry(file).index + 1
  BY DEF Heartbeat, CannotAppend, BeyondLog
<1> HIDE DEF file, n, m
<1>4. /\ HasEntry(file, n) <=> n <= Len(file)
      /\ n > 1 => HasEntry(file, n - 1)
      /\ FindLastEntry(file).index = Len(file)
  BY <1>1, HasEntryDense, FindLastEntryDense
<1>5. /\ n <= Len(file) => next = file[n]
      /\ n = Len(file) + 1 => next.index = 0
  BY <1>1, <1>4, FindEntryDense DEF NullEntry
<1>6. /\ n > 1 => prev = file[n - 1]
      /\ n = 1 => prev.index = 0
  BY <1>1, <1>4, FindEntryDense DEF NullEntry
<1> HIDE DEF next, prev
<1>7. prev.index = n - 1
  BY <1>1, <1>6
<1>8. next.index = 0 <=> n = Len(file) + 1
  BY <1>1, <1>5
<1>9. Repeats(m, file)
  <2>1. m.prevLogIndex + 1 = n
    BY <1>1, <1>2, <1>7
  <2>2. m.prevLogIndex <= Len(file)
    BY <1>1, <1>2, <1>7
  <2>3. m.prevLogIndex >= 1 => m.prevLogTerm = file[m.prevLogIndex].term
    BY <1>1, <1>2, <1>6, <1>7
  <2>4. m.entry.index = 0 => m.leaderCommit <= m.prevLogIndex
    BY <1>1, <1>2, <1>7, <1>8
  <2>5. m.entry.index # 0 => m.prevLogIndex < Len(file)
                             /\ m.entry = file[m.prevLogIndex + 1]
    <3>1. SUFFICES ASSUME m.entry.index # 0
                   PROVE  n <= Len(file) /\ m.entry = file[n] /\ n - 1 < Len(file)
      BY <1>2, <1>7, <2>1
    <3>2. n # Len(file) + 1
      BY <1>2, <1>8, <3>1
    <3>3. n <= Len(file) /\ n - 1 < Len(file)
      BY <1>1, <3>2
    <3>4. QED
      BY <1>2, <1>5, <3>3
  <2>6. QED
    BY <2>2, <2>3, <2>4, <2>5 DEF Repeats
<1>10. ~BeyondLog(i, j) /\ ~CannotAppend(i, j)
  BY <1>1, <1>3, <1>4
<1>11. m.entry.index = 0 <=> Heartbeat(i, j)
  BY <1>1, <1>2, <1>3, <1>4, <1>8
<1>12. QED
  BY <1>2, <1>7, <1>9, <1>10, <1>11 DEF m, n, file

-----------------------------------------------------------------------------
(* What the candidate and one of its siblings know of each other.            *)

LEMMA CandidateNode ==
  ASSUME SingleElection
  PROVE  Candidate \in Node /\ OnlyCandidate(Candidate)
BY DEF SingleElection, Candidate

PeerTyped(j) ==
  /\ link[Candidate][j] \in {"none", "trying", "up"}
  /\ nextIndex[Candidate][j] \in Nat /\ matchIndex[Candidate][j] \in Nat
  /\ alreadyAppendEntry[Candidate][j] \in BOOLEAN
  /\ emptyAppendEntry[Candidate][j] \in BOOLEAN
  /\ commitIndex[Candidate] \in Nat /\ commitIndex[j] \in Nat
  /\ lastApplied[j] \in Nat
  /\ Len(log[Candidate]) \in Nat /\ Len(log[j]) \in Nat
  /\ chan[Candidate][j] \in Seq(SoundMessage)
  /\ chan[j][Candidate] \in Seq(SoundMessage)

LEMMA PeerTypes ==
  ASSUME Candidate \in Node, NEW j \in Node
  PROVE  (LogInv => PeerTyped(j)) /\ (LogInv' => PeerTyped(j)')
<1>1. \A f \in Seq(Entry) : Len(f) \in Nat
  OBVIOUS
<1>2. ASSUME LogInv PROVE PeerTyped(j)
  <2>1. /\ link \in Table({"none", "trying", "up"})
        /\ nextIndex \in Table(Nat) /\ matchIndex \in Table(Nat)
        /\ alreadyAppendEntry \in Table(BOOLEAN)
        /\ emptyAppendEntry \in Table(BOOLEAN)
        /\ commitIndex \in [Node -> Nat] /\ lastApplied \in [Node -> Nat]
        /\ log \in [Node -> Seq(Entry)] /\ chan \in Table(Seq(SoundMessage))
    BY <1>2 DEF LogInv, TypeOK, Table, Channels
  <2>2. /\ log[Candidate] \in Seq(Entry) /\ log[j] \in Seq(Entry)
        /\ chan[Candidate][j] \in Seq(SoundMessage)
        /\ chan[j][Candidate] \in Seq(SoundMessage)
    BY <2>1 DEF Table
  <2>3. /\ link[Candidate][j] \in {"none", "trying", "up"}
        /\ nextIndex[Candidate][j] \in Nat /\ matchIndex[Candidate][j] \in Nat
        /\ alreadyAppendEntry[Candidate][j] \in BOOLEAN
        /\ emptyAppendEntry[Candidate][j] \in BOOLEAN
    BY <2>1 DEF Table
  <2>4. QED
    BY <1>1, <2>1, <2>2, <2>3 DEF PeerTyped
<1>3. ASSUME LogInv' PROVE PeerTyped(j)'
  <2>1. /\ link' \in Table({"none", "trying", "up"})
        /\ nextIndex' \in Table(Nat) /\ matchIndex' \in Table(Nat)
        /\ alreadyAppendEntry' \in Table(BOOLEAN)
        /\ emptyAppendEntry' \in Table(BOOLEAN)
        /\ commitIndex' \in [Node -> Nat] /\ lastApplied' \in [Node -> Nat]
        /\ log' \in [Node -> Seq(Entry)] /\ chan' \in Table(Seq(SoundMessage))
    BY <1>3 DEF LogInv, TypeOK, Table, Channels
  <2>2. /\ log'[Candidate] \in Seq(Entry) /\ log'[j] \in Seq(Entry)
        /\ chan'[Candidate][j] \in Seq(SoundMessage)
        /\ chan'[j][Candidate] \in Seq(SoundMessage)
    BY <2>1 DEF Table
  <2>3. /\ link'[Candidate][j] \in {"none", "trying", "up"}
        /\ nextIndex'[Candidate][j] \in Nat /\ matchIndex'[Candidate][j] \in Nat
        /\ alreadyAppendEntry'[Candidate][j] \in BOOLEAN
        /\ emptyAppendEntry'[Candidate][j] \in BOOLEAN
    BY <2>1 DEF Table
  <2>4. QED
    BY <1>1, <2>1, <2>2, <2>3 DEF PeerTyped
<1>4. QED
  BY <1>2, <1>3

LEMMA TrafficTypes ==
  ASSUME LogInv, Candidate \in Node, NEW j \in Node
  PROVE  /\ \A m \in Asks(j) : m \in AppendEntryMessage /\ FollowsPrev(m)
         /\ \A r \in Answers(j) : r.success \in BOOLEAN
<1>1. \A q \in Seq(SoundMessage) : \A n \in DOMAIN q : q[n] \in SoundMessage
  OBVIOUS
<1>2. /\ \A m \in Asks(j) : m \in SoundMessage /\ m.type = "appendentry"
      /\ \A r \in Answers(j) : r \in SoundMessage /\ r.type = "replyappendentry"
  BY <1>1, PeerTypes DEF Asks, Answers, OfType, PeerTyped
<1>3. ASSUME NEW m \in Message
      PROVE  /\ m.type = "appendentry" => m \in AppendEntryMessage
             /\ m.type = "replyappendentry" =>
                  m \in [type: {"replyappendentry", "replyrequestvote"}, term: Nat,
                         success: BOOLEAN]
  <2>1. /\ m \in [type: {"clusternode", "replyclusternode", "eof"}] =>
              m.type \in {"clusternode", "replyclusternode", "eof"}
        /\ m \in AppendEntryMessage => m.type = "appendentry"
        /\ m \in [type: {"replyappendentry", "replyrequestvote"}, term: Nat,
                  success: BOOLEAN] =>
              m.type \in {"replyappendentry", "replyrequestvote"}
        /\ m \in [type: {"requestvote"}, term: Nat, lastLogIndex: Nat,
                  lastLogTerm: Nat] => m.type = "requestvote"
    BY DEF AppendEntryMessage
  <2>2. QED
    BY <2>1 DEF Message, AppendEntryMessage
<1>4. QED
  BY <1>2, <1>3 DEF SoundMessage

(* The entries before a safe one are safe. *)
LEMMA SafeBelow ==
  ASSUME LogInv, Candidate \in Node, NEW j \in Node, NEW p \in Nat, NEW q \in Nat,
         p <= q, SafeAt(j, q)
  PROVE  SafeAt(j, p)
<1>1. nextIndex[Candidate][j] \in Nat /\ Len(log[j]) \in Nat
  BY PeerTypes DEF PeerTyped
<1>2. \A r \in Answers(j) : NextAfter(j, r) \in Nat
  BY <1>1 DEF NextAfter, Decreased
<1>3. QED
  BY <1>1, <1>2 DEF SafeAt

(* Nothing is always safe. *)
LEMMA SafeAtNothing ==
  ASSUME Candidate \in Node, NEW j \in Node
  PROVE  /\ LogInv /\ NextIndexPositive => SafeAt(j, 0)
         /\ LogInv' /\ NextIndexPositive' => SafeAt(j, 0)'
<1>1. ASSUME LogInv, NextIndexPositive PROVE SafeAt(j, 0)
  <2>1. /\ nextIndex[Candidate][j] \in Nat /\ Len(log[j]) \in Nat
        /\ link[Candidate][j] # "none" => nextIndex[Candidate][j] >= 1
    BY <1>1, PeerTypes DEF NextIndexPositive, PeerTyped
  <2>2. link[Candidate][j] # "none" =>
          \A r \in Answers(j) : 0 < NextAfter(j, r)
    BY <2>1 DEF NextAfter, Decreased
  <2>3. QED
    BY <2>1, <2>2 DEF SafeAt
<1>2. ASSUME LogInv', NextIndexPositive' PROVE SafeAt(j, 0)'
  <2>1. /\ nextIndex'[Candidate][j] \in Nat /\ Len(log'[j]) \in Nat
        /\ link'[Candidate][j] # "none" => nextIndex'[Candidate][j] >= 1
    BY <1>2, PeerTypes DEF NextIndexPositive, PeerTyped
  <2>2. link'[Candidate][j] # "none" =>
          \A r \in Answers(j)' : 0 < NextAfter(j, r)'
    BY <2>1 DEF NextAfter, Decreased
  <2>3. QED
    BY <2>1, <2>2 DEF SafeAt
<1>3. QED
  BY <1>1, <1>2

SameTraffic(j) ==
  /\ Asks(j)' = Asks(j) /\ Answers(j)' = Answers(j)
  /\ Fewer(chan[j][Candidate], chan'[j][Candidate])
  /\ Ended(chan'[j][Candidate]) <=> Ended(chan[j][Candidate])

SameBook(j) ==
  /\ link'[Candidate][j] = "none" <=> link[Candidate][j] = "none"
  /\ link[Candidate][j] = "up" => link'[Candidate][j] = "up"
  /\ nextIndex'[Candidate][j] = nextIndex[Candidate][j]
  /\ matchIndex'[Candidate][j] = matchIndex[Candidate][j]
  /\ alreadyAppendEntry'[Candidate][j] <=> alreadyAppendEntry[Candidate][j]
  /\ emptyAppendEntry'[Candidate][j] = emptyAppendEntry[Candidate][j]

SameFile(j) == log'[j] = log[j] /\ commitIndex'[j] = commitIndex[j]

(* The leader's file and what it has committed may grow. *)
LeaderGrows ==
  /\ commitIndex[Candidate] <= commitIndex'[Candidate]
  /\ Len(log[Candidate]) <= Len(log'[Candidate])

(* What is safe at j stays safe, as far as the leader has committed it. *)
SafeKept(j) ==
  \A p \in Nat : p <= commitIndex[Candidate] /\ SafeAt(j, p) => SafeAt(j, p)'

LEMMA PeerSame ==
  ASSUME LogInv, LogInv', Candidate \in Node, NEW j \in Sibling(Candidate), Peer(j),
         SameTraffic(j), SameBook(j), SameFile(j), LeaderGrows
  PROVE  Peer(j)' /\ SafeKept(j) /\ (\A p \in Nat : SafeAt(j, p) => SafeAt(j, p)')
<1>1. j \in Node
  BY DEF Sibling
<1>2. \A r \in Answers(j) : NextAfter(j, r)' = NextAfter(j, r)
  BY DEF NextAfter, SameBook
<1>3. \A p \in Nat : SafeAt(j, p) => SafeAt(j, p)'
  BY <1>2 DEF SafeAt, SameTraffic, SameBook, SameFile
<1>4. Outstanding(j)'
  <2>1. Outstanding(j)
    BY DEF Peer
  <2>2. /\ AtMostOne(chan'[j][Candidate], "replyappendentry")
        /\ AnswersFirst(chan'[j][Candidate])
    BY <2>1 DEF Outstanding, SameTraffic, Fewer, Appending
  <2>3. QED
    BY <2>1, <2>2 DEF Outstanding, SameTraffic, SameBook
<1>5. Attributed(j)'
  <2>1. Attributed(j)
    BY DEF Peer
  <2>2. \A m \in Asks(j) : m.leaderCommit <= commitIndex'[Candidate]
    <3>1. \A m \in Asks(j) : m.leaderCommit \in Nat /\ m.leaderCommit <= commitIndex[Candidate]
      BY <1>1, <2>1, TrafficTypes DEF Attributed, AppendEntryMessage
    <3>2. commitIndex[Candidate] \in Nat /\ commitIndex'[Candidate] \in Nat
      BY <1>1, PeerTypes DEF PeerTyped
    <3>3. QED
      BY <3>1, <3>2 DEF LeaderGrows
  <2>3. QED
    BY <1>2, <2>1, <2>2 DEF Attributed, SameTraffic, SameBook, SameFile
<1>6. /\ commitIndex'[j] \in Nat /\ matchIndex'[Candidate][j] \in Nat
      /\ commitIndex'[j] = commitIndex[j]
      /\ matchIndex'[Candidate][j] = matchIndex[Candidate][j]
  BY <1>1, PeerTypes DEF SameBook, SameFile, PeerTyped
<1>7. commitIndex'[j] <= commitIndex'[Candidate]
  BY <1>1, PeerTypes DEF LeaderGrows, SameFile, Peer, PeerTyped
<1>8. link'[Candidate][j] # "none" =>
        nextIndex'[Candidate][j] <= Len(log'[Candidate]) + 1
  <2>1. /\ nextIndex[Candidate][j] \in Nat /\ Len(log[Candidate]) \in Nat
        /\ Len(log'[Candidate]) \in Nat
    BY <1>1, PeerTypes DEF PeerTyped
  <2>2. QED
    BY <2>1 DEF LeaderGrows, SameBook, Peer
<1>9. SafeAt(j, commitIndex[j])' /\ SafeAt(j, matchIndex[Candidate][j])'
  BY <1>3, <1>6 DEF Peer, SafeAt
<1>10. QED
  BY <1>3, <1>4, <1>5, <1>7, <1>8, <1>9 DEF Peer, SafeKept

(* A connection that ends, or that was never there: j is not owed anything   *)
(* and owes nothing.                                                         *)
LEMMA PeerQuiet ==
  ASSUME LogInv, LogInv', NextIndexPositive', Candidate \in Node,
         NEW j \in Sibling(Candidate), Peer(j),
         SameFile(j), LeaderGrows,
         Asks(j)' = {}, Answers(j)' = {}, Fewer(chan[j][Candidate], chan'[j][Candidate]),
         ~alreadyAppendEntry'[Candidate][j],
         link'[Candidate][j] # "none" =>
           nextIndex'[Candidate][j] = commitIndex[Candidate] + 1,
         commitIndex[Candidate] <= Len(log[Candidate]),
         \/ matchIndex'[Candidate][j] = 0
         \/ link'[Candidate][j] = "none" /\ matchIndex'[Candidate][j] = matchIndex[Candidate][j]
  PROVE  Peer(j)' /\ SafeKept(j)
<1>1. j \in Node
  BY DEF Sibling
<1>2. Outstanding(j)'
  <2>1. Outstanding(j)
    BY DEF Peer
  <2>2. /\ AtMostOne(chan'[j][Candidate], "replyappendentry")
        /\ AnswersFirst(chan'[j][Candidate])
    BY <2>1 DEF Outstanding, Fewer, Appending
  <2>3. QED
    BY <2>1, <2>2 DEF Outstanding
<1>3. Attributed(j)'
  BY DEF Attributed
<1>4. /\ commitIndex[Candidate] \in Nat /\ commitIndex[j] \in Nat
      /\ Len(log[Candidate]) \in Nat /\ Len(log'[Candidate]) \in Nat
      /\ commitIndex'[Candidate] \in Nat /\ matchIndex[Candidate][j] \in Nat
  BY <1>1, PeerTypes DEF PeerTyped
<1>5. ASSUME NEW p \in Nat, SafeAt(j, p),
             p <= commitIndex[Candidate] \/ link'[Candidate][j] = "none"
      PROVE  SafeAt(j, p)'
  <2>1. p <= Len(log'[j])
    BY <1>5 DEF SafeAt, SameFile
  <2>2. link'[Candidate][j] # "none" => p < nextIndex'[Candidate][j]
    BY <1>4, <1>5
  <2>3. QED
    BY <2>1, <2>2 DEF SafeAt
<1>6. commitIndex'[j] <= commitIndex'[Candidate]
  BY <1>4 DEF LeaderGrows, SameFile, Peer
<1>7. SafeAt(j, commitIndex[j])'
  <2>1. SafeAt(j, commitIndex[j]) /\ commitIndex[j] <= commitIndex[Candidate]
    BY DEF Peer
  <2>2. /\ commitIndex'[j] <= Len(log'[j])
        /\ link'[Candidate][j] # "none" => commitIndex'[j] < nextIndex'[Candidate][j]
    BY <1>4, <2>1 DEF SafeAt, SameFile
  <2>3. QED
    BY <2>2 DEF SafeAt
<1>8. SafeAt(j, matchIndex[Candidate][j])'
  <2>1. CASE matchIndex'[Candidate][j] = 0
    <3>1. SafeAt(j, 0)'
      BY <1>1, SafeAtNothing
    <3>2. QED
      BY <2>1, <3>1 DEF SafeAt
  <2>2. CASE link'[Candidate][j] = "none" /\ matchIndex'[Candidate][j] = matchIndex[Candidate][j]
    BY <2>2 DEF SafeAt, SameFile, Peer
  <2>3. QED
    BY <2>1, <2>2
<1>9. link'[Candidate][j] # "none" =>
        nextIndex'[Candidate][j] <= Len(log'[Candidate]) + 1
  BY <1>4 DEF LeaderGrows
<1>10. QED
  BY <1>2, <1>3, <1>5, <1>6, <1>7, <1>8, <1>9 DEF Peer, SafeKept

(* The connection breaks, or j is gone: what was in flight may be lost.      *)
LEMMA PeerBroken ==
  ASSUME LogInv, LogInv', Candidate \in Node, NEW j \in Sibling(Candidate), Peer(j),
         SameBook(j), log'[j] = log[j], commitIndex'[j] <= commitIndex[j], LeaderGrows,
         Asks(j)' = {}, Fewer(chan[j][Candidate], chan'[j][Candidate]),
         Ended(chan[j][Candidate]) \/ link[Candidate][j] = "up" =>
           Ended(chan'[j][Candidate])
  PROVE  Peer(j)' /\ SafeKept(j)
<1>1. j \in Node
  BY DEF Sibling
<1>2. Answers(j)' \subseteq Answers(j)
  BY DEF Fewer, Answers, Appending
<1>3. Outstanding(j)'
  <2>1. Outstanding(j)
    BY DEF Peer
  <2>2. /\ AtMostOne(chan'[j][Candidate], "replyappendentry")
        /\ AnswersFirst(chan'[j][Candidate])
    BY <2>1 DEF Outstanding, Fewer, Appending
  <2>3. QED
    BY <1>2, <2>1, <2>2 DEF Outstanding, SameBook
<1>4. \A r \in Answers(j) : NextAfter(j, r)' = NextAfter(j, r)
  BY DEF NextAfter, SameBook
<1>5. Attributed(j)'
  BY <1>2, <1>4 DEF Attributed, Peer
<1>6. ASSUME NEW p \in Nat, SafeAt(j, p)
      PROVE  SafeAt(j, p)'
  <2>1. CASE link[Candidate][j] = "trying" /\ ~Ended(chan'[j][Candidate])
    <3>1. Answers(j) = {} /\ Answers(j)' = {}
      BY <1>2, <2>1 DEF Peer, Outstanding
    <3>2. QED
      BY <1>6, <2>1, <3>1 DEF SafeAt, SameBook
  <2>2. CASE ~(link[Candidate][j] = "trying" /\ ~Ended(chan'[j][Candidate]))
    <3>1. link[Candidate][j] = "none" \/ Ended(chan'[j][Candidate])
      BY <1>1, <2>2, PeerTypes DEF PeerTyped
    <3>2. QED
      BY <1>6, <3>1 DEF SafeAt, SameBook
  <2>3. QED
    BY <2>1, <2>2
<1>7. /\ commitIndex[j] \in Nat /\ commitIndex'[j] \in Nat
      /\ commitIndex[Candidate] \in Nat /\ commitIndex'[Candidate] \in Nat
      /\ nextIndex[Candidate][j] \in Nat /\ matchIndex[Candidate][j] \in Nat
      /\ Len(log[Candidate]) \in Nat /\ Len(log'[Candidate]) \in Nat
  BY <1>1, PeerTypes DEF PeerTyped
<1>8. commitIndex'[j] <= commitIndex'[Candidate]
  BY <1>7 DEF LeaderGrows, Peer
<1>9. SafeAt(j, commitIndex[j])'
  <2>1. SafeAt(j, commitIndex'[j])
    BY <1>1, <1>7, SafeBelow DEF Peer
  <2>2. QED
    BY <1>6, <1>7, <2>1 DEF SafeAt
<1>10. SafeAt(j, matchIndex[Candidate][j])'
  BY <1>6, <1>7 DEF SafeAt, SameBook, Peer
<1>11. link'[Candidate][j] # "none" =>
         nextIndex'[Candidate][j] <= Len(log'[Candidate]) + 1
  BY <1>7 DEF LeaderGrows, SameBook, Peer
<1>12. QED
  BY <1>3, <1>5, <1>6, <1>8, <1>9, <1>10, <1>11 DEF Peer, SafeKept

AskSound(j) ==
  /\ AtMostOne(chan[Candidate][j], "appendentry")
  /\ \A m \in Asks(j) : /\ Repeats(m, log[Candidate])
                        /\ commitIndex[j] <= m.prevLogIndex
                        /\ commitIndex[j] <= m.leaderCommit

(* The leader sends j an append entry.                                       *)
LEMMA PeerAsked ==
  ASSUME LogInv, LogInv', NextIndexPositive, Candidate \in Node,
         NEW j \in Sibling(Candidate), Peer(j), AskSound(j),
         link[Candidate][j] = "up", ~alreadyAppendEntry[Candidate][j],
         link'[Candidate][j] = "up",
         nextIndex'[Candidate][j] = nextIndex[Candidate][j],
         matchIndex'[Candidate][j] = matchIndex[Candidate][j],
         alreadyAppendEntry'[Candidate][j] = TRUE,
         emptyAppendEntry'[Candidate][j] = Heartbeat(Candidate, j),
         chan'[j][Candidate] = chan[j][Candidate],
         chan'[Candidate][j] = IF Ended(chan[j][Candidate]) THEN chan[Candidate][j]
                               ELSE Append(chan[Candidate][j], AppendEntry(Candidate, j)),
         SameFile(j), SameFile(Candidate), commitIndex[Candidate] <= Len(log[Candidate])
  PROVE  Peer(j)' /\ AskSound(j)' /\ SafeKept(j)
<1> DEFINE m == AppendEntry(Candidate, j)
<1>1. j \in Node /\ PeerTyped(j) /\ m \in SoundMessage
  BY PeerTypes, AppendEntrySound DEF Sibling
<1>2. /\ nextIndex[Candidate][j] >= 1
      /\ nextIndex[Candidate][j] <= Len(log[Candidate]) + 1
  BY <1>1 DEF Peer, NextIndexPositive
<1>3. /\ m.type = "appendentry" /\ m.prevLogIndex = nextIndex[Candidate][j] - 1
      /\ m.leaderCommit = commitIndex[Candidate]
      /\ m.entry.index = 0 <=> Heartbeat(Candidate, j)
      /\ Repeats(m, log[Candidate])
  BY <1>1, <1>2, AppendEntryRepeats
<1> HIDE DEF m
<1>4. Asks(j) = {} /\ Answers(j) = {} /\ Answers(j)' = {}
  BY DEF Peer, Outstanding, Answers
<1>5. /\ AtMostOne(chan'[Candidate][j], "appendentry")
      /\ Ended(chan[j][Candidate]) => Asks(j)' = {}
      /\ ~Ended(chan[j][Candidate]) => Asks(j)' = {m}
  <2> DEFINE q == chan[Candidate][j]
  <2>1. /\ q \in Seq(SoundMessage) /\ OfType(q, "appendentry") = {}
        /\ AtMostOne(q, "appendentry")
    BY <1>1, <1>4 DEF PeerTyped, Asks, AskSound
  <2>2. chan'[Candidate][j] = IF Ended(chan[j][Candidate]) THEN q ELSE Append(q, m)
    BY DEF m
  <2> HIDE DEF q
  <2>3. /\ OfType(Append(q, m), "appendentry") = {m}
        /\ AtMostOne(Append(q, m), "appendentry")
    BY <1>1, <1>3, <2>1, OfTypeAppended
  <2>4. QED
    BY <2>1, <2>2, <2>3 DEF Asks
<1>6. Outstanding(j)'
  BY <1>4, <1>5 DEF Outstanding, Peer
<1>7. Attributed(j)'
  <2>1. \A x \in Asks(j)' : x = m
    BY <1>5
  <2>2. QED
    BY <1>1, <1>3, <1>4, <2>1 DEF Attributed, SameFile, PeerTyped
<1>8. ASSUME NEW p \in Nat, SafeAt(j, p)
      PROVE  SafeAt(j, p)'
  BY <1>4, <1>8 DEF SafeAt, SameFile
<1>9. SafeAt(j, commitIndex[j])' /\ SafeAt(j, matchIndex[Candidate][j])'
  <2>1. commitIndex[j] \in Nat /\ matchIndex[Candidate][j] \in Nat
    BY <1>1 DEF PeerTyped
  <2>2. QED
    BY <1>8, <2>1 DEF SafeAt, SameFile, Peer
<1>10. Peer(j)'
  BY <1>2, <1>6, <1>7, <1>9 DEF Peer, SameFile
<1>11. AskSound(j)'
  <2>1. ~Ended(chan[j][Candidate]) => commitIndex[j] < nextIndex[Candidate][j]
    BY <1>4 DEF Peer, SafeAt
  <2>2. ~Ended(chan[j][Candidate]) => commitIndex[j] <= m.prevLogIndex
    BY <1>1, <1>3, <2>1 DEF PeerTyped
  <2>3. commitIndex[j] <= m.leaderCommit
    BY <1>3 DEF Peer
  <2>4. \A x \in Asks(j)' : x = m /\ ~Ended(chan[j][Candidate])
    BY <1>5
  <2>5. QED
    BY <1>3, <1>5, <2>2, <2>3, <2>4 DEF AskSound, SameFile
<1>12. QED
  BY <1>8, <1>10, <1>11 DEF SafeKept

(* What the answer r of j to m says of the file it leaves.                   *)
AnswerTells(j, m, r) ==
  /\ r.success =>
       /\ m.entry.index = 0 => Len(log'[j]) = m.prevLogIndex
       /\ m.entry.index # 0 => Len(log'[j]) = m.prevLogIndex + 1
       /\ commitIndex'[j] <= Len(log'[j])
       /\ commitIndex'[j] <= commitIndex[j] \/ commitIndex'[j] <= m.leaderCommit
  /\ ~r.success =>
       /\ commitIndex'[j] = commitIndex[j]
       /\ m.prevLogIndex # 0 => log'[j] = log[j] /\ Len(log[j]) < m.prevLogIndex

(* j executes an append entry and answers it.                                *)
LEMMA PeerAnswered ==
  ASSUME LogInv, LogInv', Candidate \in Node, NEW j \in Sibling(Candidate), Peer(j),
         AskSound(j), SameBook(j), SameFile(Candidate),
         NEW m, m \in AppendEntryMessage, chan[Candidate][j] # << >>,
         Head(chan[Candidate][j]) = m,
         NEW r, r \in SoundMessage, r.type = "replyappendentry", r.success \in BOOLEAN,
         chan'[Candidate][j] = Tail(chan[Candidate][j]),
         chan'[j][Candidate] = Append(chan[j][Candidate], r),
         AnswerTells(j, m, r)
  PROVE  Peer(j)' /\ AskSound(j)' /\ SafeKept(j)
<1>a. /\ r.success =>
           /\ m.entry.index = 0 => Len(log'[j]) = m.prevLogIndex
           /\ m.entry.index # 0 => Len(log'[j]) = m.prevLogIndex + 1
           /\ commitIndex'[j] <= Len(log'[j])
           /\ commitIndex'[j] <= commitIndex[j] \/ commitIndex'[j] <= m.leaderCommit
      /\ ~r.success =>
           /\ commitIndex'[j] = commitIndex[j]
           /\ m.prevLogIndex # 0 => log'[j] = log[j] /\ Len(log[j]) < m.prevLogIndex
  BY DEF AnswerTells
<1> USE <1>a
<1> DEFINE next == nextIndex[Candidate][j]
           empty == emptyAppendEntry[Candidate][j]
<1>1. /\ j \in Node /\ PeerTyped(j) /\ PeerTyped(j)'
      /\ m.type = "appendentry" /\ m.prevLogIndex \in Nat /\ m.leaderCommit \in Nat
  BY PeerTypes DEF Sibling, AppendEntryMessage
<1>2. Asks(j) = {m} /\ Asks(j)' = {}
  <2> DEFINE q == chan[Candidate][j]
  <2>1. q \in Seq(SoundMessage) /\ AtMostOne(q, "appendentry") /\ q # << >>
        /\ Head(q) = m
    BY <1>1 DEF PeerTyped, AskSound
  <2> HIDE DEF q
  <2>2. OfType(q, "appendentry") = {m} /\ OfType(Tail(q), "appendentry") = {}
    BY <1>1, <2>1, OfTypeTail
  <2>3. QED
    BY <2>2 DEF Asks, q
<1>3. /\ Answers(j) = {} /\ ~Ended(chan[j][Candidate])
      /\ alreadyAppendEntry[Candidate][j] /\ link[Candidate][j] = "up"
      /\ AtMostOne(chan[j][Candidate], "replyappendentry")
      /\ AnswersFirst(chan[j][Candidate])
  BY <1>2 DEF Peer, Outstanding
<1>4. /\ m.prevLogIndex = next - 1 /\ next \in Nat /\ next >= 1
      /\ m.entry.index = 0 <=> empty
      /\ m.leaderCommit <= commitIndex[Candidate]
  <2>1. /\ m.prevLogIndex = nextIndex[Candidate][j] - 1
        /\ m.entry.index = 0 <=> emptyAppendEntry[Candidate][j]
        /\ m.leaderCommit <= commitIndex[Candidate]
    BY <1>2 DEF Peer, Attributed
  <2>2. next \in Nat
    BY <1>1 DEF PeerTyped
  <2>3. m.prevLogIndex = next - 1
    BY <2>1
  <2> HIDE DEF next
  <2>4. next >= 1
    BY <1>1, <2>2, <2>3
  <2>5. QED
    BY <2>1, <2>2, <2>3, <2>4
<1>5. /\ Answers(j)' = {r} /\ ~Ended(chan'[j][Candidate])
      /\ AtMostOne(chan'[j][Candidate], "replyappendentry")
      /\ AnswersFirst(chan'[j][Candidate])
  <2> DEFINE q == chan[j][Candidate]
  <2>1. /\ q \in Seq(SoundMessage) /\ OfType(q, "replyappendentry") = {}
        /\ AtMostOne(q, "replyappendentry") /\ AnswersFirst(q) /\ ~Ended(q)
    BY <1>1, <1>3 DEF PeerTyped, Answers
  <2>2. ~IsEof(r)
    BY DEF IsEof
  <2> HIDE DEF q
  <2>3. /\ OfType(Append(q, r), "replyappendentry") = {r}
        /\ AtMostOne(Append(q, r), "replyappendentry")
    BY <2>1, OfTypeAppended
  <2>5. AnswersFirst(Append(q, r))
    BY <2>1, AnswersFirstAppend
  <2>6. ~Ended(Append(q, r))
    BY <2>1, <2>2, AppendedQueue
  <2>7. QED
    BY <2>1, <2>3, <2>5, <2>6 DEF Answers, q
<1>6. Outstanding(j)'
  BY <1>2, <1>3, <1>5 DEF Outstanding, SameBook
<1>7. /\ ~r.success => NextAfter(j, r)' = Decreased(next)
      /\ r.success /\ empty => NextAfter(j, r)' = next
      /\ r.success /\ ~empty => NextAfter(j, r)' = next + 1
  BY <1>1 DEF NextAfter, SameBook, PeerTyped
<1> HIDE DEF next, empty
<1>8. Decreased(next) \in Nat /\ Decreased(next) >= 1 /\ (next > 1 => Decreased(next) = next - 1)
  BY <1>4 DEF Decreased
<1>9. /\ Len(log[j]) \in Nat /\ Len(log'[j]) \in Nat /\ commitIndex[j] \in Nat
      /\ commitIndex'[j] \in Nat /\ commitIndex[Candidate] \in Nat
      /\ matchIndex[Candidate][j] \in Nat
  BY <1>1 DEF PeerTyped
<1>10. Attributed(j)'
  <2>1. r.success => Len(log'[j]) >= NextAfter(j, r)' - 1
    BY <1>4, <1>7, <1>9
  <2>2. QED
    BY <1>2, <1>5, <2>1 DEF Attributed
<1>11. ASSUME NEW p \in Nat, SafeAt(j, p)
       PROVE  SafeAt(j, p)'
  <2>1. p < next /\ p <= Len(log[j])
    BY <1>3, <1>11 DEF SafeAt, next
  <2> DEFINE n == NextAfter(j, r)'
             len == Len(log'[j])
  <2>a. /\ ~r.success => n = Decreased(next)
        /\ r.success /\ empty => n = next
        /\ r.success /\ ~empty => n = next + 1
        /\ len \in Nat
    BY <1>7, <1>9
  <2>b. p < n /\ p <= len => p < NextAfter(j, r)' /\ p <= Len(log'[j])
    OBVIOUS
  <2>c. /\ r.success /\ m.entry.index = 0 => len = m.prevLogIndex
        /\ r.success /\ m.entry.index # 0 => len = m.prevLogIndex + 1
        /\ ~r.success /\ m.prevLogIndex # 0 =>
             len = Len(log[j]) /\ Len(log[j]) < m.prevLogIndex
    OBVIOUS
  <2> HIDE DEF n, len
  <2>2. p < NextAfter(j, r)' /\ p <= Len(log'[j])
    <3>1. CASE r.success /\ empty
      BY <1>4, <2>1, <2>a, <2>b, <2>c, <3>1
    <3>2. CASE r.success /\ ~empty
      BY <1>4, <2>1, <2>a, <2>b, <2>c, <3>2
    <3>3. CASE ~r.success /\ m.prevLogIndex = 0
      <4>1. p = 0
        BY <1>4, <2>1, <3>3
      <4>2. QED
        BY <1>8, <2>a, <2>b, <3>3, <4>1
    <3>4. CASE ~r.success /\ m.prevLogIndex # 0
      <4>1. len = Len(log[j]) /\ Len(log[j]) < m.prevLogIndex
        BY <2>c, <3>4
      <4>2. next > 1 /\ n = next - 1
        BY <1>1, <1>4, <1>8, <2>a, <3>4
      <4>3. QED
        BY <1>4, <1>9, <2>1, <2>b, <4>1, <4>2
    <3>5. QED
      BY <3>1, <3>2, <3>3, <3>4
  <2>3. QED
    BY <1>5, <2>2 DEF SafeAt
<1>12. SafeAt(j, matchIndex[Candidate][j])'
  BY <1>9, <1>11 DEF Peer, SafeAt, SameBook
<1>13. SafeAt(j, commitIndex[j])'
  <2>1. CASE r.success
    <3>1. commitIndex'[j] < NextAfter(j, r)' /\ commitIndex'[j] <= Len(log'[j])
      BY <1>1, <1>4, <1>7, <1>9, <2>1
    <3>2. QED
      BY <1>5, <3>1 DEF SafeAt
  <2>2. CASE ~r.success
    <3>1. commitIndex'[j] = commitIndex[j] /\ SafeAt(j, commitIndex[j])
      BY <2>2 DEF Peer
    <3>2. QED
      BY <1>9, <1>11, <3>1 DEF SafeAt
  <2>3. QED
    BY <2>1, <2>2
<1>14. commitIndex'[j] <= commitIndex[Candidate]
  <2>1. commitIndex[j] <= commitIndex[Candidate]
    BY DEF Peer
  <2>2. CASE r.success
    BY <1>1, <1>4, <1>9, <2>1, <2>2
  <2>3. CASE ~r.success
    BY <2>1, <2>3
  <2>4. QED
    BY <2>2, <2>3
<1>15. Peer(j)'
  BY <1>6, <1>10, <1>12, <1>13, <1>14 DEF Peer, SameBook, SameFile
<1>16. AskSound(j)'
  <2>1. AtMostOne(chan'[Candidate][j], "appendentry")
    <3> DEFINE q == chan[Candidate][j]
    <3>1. q \in Seq(SoundMessage) /\ AtMostOne(q, "appendentry") /\ q # << >>
      BY <1>1 DEF PeerTyped, AskSound
    <3> HIDE DEF q
    <3>2. AtMostOne(Tail(q), "appendentry")
      BY <3>1, OfTypeTail DEF Fewer, Appending
    <3>3. QED
      BY <3>2 DEF q
  <2>2. QED
    BY <1>2, <2>1 DEF AskSound
<1>17. QED
  BY <1>11, <1>15, <1>16 DEF SafeKept

(* The leader executes an answer of j.                                       *)
LEMMA PeerReplied ==
  ASSUME LogInv, LogInv', Candidate \in Node, NEW j \in Sibling(Candidate), Peer(j),
         NEW r, chan[j][Candidate] # << >>, Head(chan[j][Candidate]) = r,
         r.type = "replyappendentry",
         chan'[j][Candidate] = Tail(chan[j][Candidate]),
         chan'[Candidate][j] = chan[Candidate][j],
         link'[Candidate][j] = link[Candidate][j],
         nextIndex'[Candidate][j] = NextAfter(j, r),
         alreadyAppendEntry'[Candidate][j] = FALSE,
         \/ matchIndex'[Candidate][j] = matchIndex[Candidate][j]
         \/ /\ r.success /\ ~emptyAppendEntry[Candidate][j]
            /\ matchIndex'[Candidate][j] = nextIndex[Candidate][j],
         SameFile(j), log' = log, LeaderGrows, Len(log[j]) <= Len(log[Candidate])
  PROVE  /\ Peer(j)' /\ SafeKept(j) /\ \A p \in Nat : SafeAt(j, p) => SafeAt(j, p)'
         /\ r.success /\ ~emptyAppendEntry[Candidate][j] =>
              nextIndex[Candidate][j] <= Len(log[Candidate])
<1> DEFINE next == nextIndex[Candidate][j]
           empty == emptyAppendEntry[Candidate][j]
           q == chan[j][Candidate]
<1>1. j \in Node /\ PeerTyped(j) /\ PeerTyped(j)'
  BY PeerTypes DEF Sibling
<1>2. /\ q \in Seq(SoundMessage) /\ q # << >> /\ Head(q) = r /\ ~IsEof(r)
      /\ AtMostOne(q, "replyappendentry") /\ AnswersFirst(q)
  BY <1>1 DEF PeerTyped, Peer, Outstanding, IsEof
<1>3. /\ Answers(j) = {r} /\ Answers(j)' = {}
      /\ AtMostOne(chan'[j][Candidate], "replyappendentry")
      /\ AnswersFirst(chan'[j][Candidate])
      /\ Ended(chan'[j][Candidate]) <=> Ended(chan[j][Candidate])
  <2> HIDE DEF q
  <2>1. /\ OfType(q, "replyappendentry") = {r}
        /\ OfType(Tail(q), "replyappendentry") = {} /\ Fewer(q, Tail(q))
        /\ Ended(Tail(q)) <=> Ended(q)
    BY <1>2, OfTypeTail, EndedTail
  <2>2. /\ AtMostOne(Tail(q), "replyappendentry") /\ AnswersFirst(Tail(q))
    BY <1>2, <2>1 DEF Fewer, Appending
  <2>3. QED
    BY <2>1, <2>2 DEF Answers, q
<1>4. r.success \in BOOLEAN
  BY <1>1, <1>3, TrafficTypes
<1>5. Asks(j) = {} /\ Asks(j)' = {}
  BY <1>3 DEF Peer, Outstanding, Asks
<1>6. Outstanding(j)' /\ Attributed(j)'
  BY <1>3, <1>5 DEF Outstanding, Attributed
<1>7. ASSUME NEW p \in Nat, SafeAt(j, p)
      PROVE  SafeAt(j, p)'
  BY <1>3, <1>7 DEF SafeAt, SameFile
<1>8. /\ ~r.success => NextAfter(j, r) = Decreased(next)
      /\ r.success /\ empty => NextAfter(j, r) = next
      /\ r.success /\ ~empty => NextAfter(j, r) = next + 1
      /\ Decreased(next) <= next /\ next \in Nat
  BY <1>1, <1>4 DEF NextAfter, PeerTyped, Decreased
<1>9. /\ Len(log[j]) \in Nat /\ Len(log[Candidate]) \in Nat
      /\ commitIndex[j] \in Nat /\ commitIndex[Candidate] \in Nat
      /\ commitIndex'[Candidate] \in Nat /\ matchIndex[Candidate][j] \in Nat
  BY <1>1 DEF PeerTyped
<1>10. r.success /\ ~empty => next <= Len(log[j])
  <2>1. r.success => Len(log[j]) >= NextAfter(j, r) - 1
    BY <1>3 DEF Peer, Attributed
  <2>2. QED
    BY <1>8, <1>9, <2>1
<1> HIDE DEF q
<1>11. link'[Candidate][j] # "none" =>
         nextIndex'[Candidate][j] <= Len(log'[Candidate]) + 1
  <2>1. link[Candidate][j] # "none" => next <= Len(log[Candidate]) + 1
    BY DEF Peer
  <2> HIDE DEF next, empty
  <2>2. CASE ~r.success
    BY <1>8, <1>9, <2>1, <2>2 DEF Decreased
  <2>3. CASE r.success
    BY <1>8, <1>9, <1>10, <2>1, <2>3
  <2>4. QED
    BY <1>4, <2>2, <2>3
<1>12. SafeAt(j, commitIndex[j])'
  BY <1>7, <1>9 DEF SafeAt, SameFile, Peer
<1>13. SafeAt(j, matchIndex[Candidate][j])'
  <2>1. CASE matchIndex'[Candidate][j] = matchIndex[Candidate][j]
    BY <1>7, <1>9, <2>1 DEF SafeAt, Peer
  <2>2. CASE r.success /\ ~empty /\ matchIndex'[Candidate][j] = next
    <3>1. next <= Len(log'[j]) /\ next < nextIndex'[Candidate][j]
      BY <1>8, <1>10, <2>2 DEF SameFile
    <3>2. QED
      BY <1>3, <2>2, <3>1 DEF SafeAt
  <2>3. QED
    BY <2>1, <2>2
<1>14. commitIndex'[j] <= commitIndex'[Candidate]
  BY <1>9 DEF Peer, LeaderGrows, SameFile
<1>15. QED
  BY <1>6, <1>7, <1>8, <1>9, <1>10, <1>11, <1>12, <1>13, <1>14 DEF Peer, SafeKept

-----------------------------------------------------------------------------
(* The whole cluster.                                                        *)

(* Whom the leader is connected with, the other end of which has not ended,  *)
(* is connected with the leader.                                             *)
LEMMA LinkLive ==
  ASSUME LogInv, LinkInv, Candidate \in Node, NEW j \in Sibling(Candidate),
         link[Candidate][j] = "up", ~Ended(chan[j][Candidate])
  PROVE  Candidate \in Connections(j)
<1> DEFINE l   == link[Candidate][j]
           r   == link[j][Candidate]
           in  == chan[j][Candidate]
           out == chan[Candidate][j]
<1>1. j \in Node /\ j # Candidate
  BY DEF Sibling
<1>2. /\ Side(j < Candidate, l, r, in, out)
      /\ in \in Seq(SoundMessage) /\ out \in Seq(SoundMessage)
      /\ (j < Candidate) \in BOOLEAN
  BY <1>1, LinkTypes, LinkInvIsLinks, LinksSide
<1>3. r # "none" /\ ~Ended(out)
  <2> HIDE DEF r, in, out
  <2>1. CASE j < Candidate
    <3>1. PairInv(l, r, in, out)
      BY <1>2, <2>1 DEF Side
    <3>2. Open(r, out) /\ ~Pending(out)
      BY <3>1 DEF PairInv, in
    <3>3. QED
      BY <1>2, <3>2, OpenPending
  <2>2. CASE ~(j < Candidate)
    <3>1. PairInv(r, l, out, in)
      BY <1>2, <2>2 DEF Side
    <3>2. Open(l, in)
      BY <1>2, OpenPending DEF in
    <3>3. QED
      BY <3>1, <3>2 DEF PairInv
  <2>3. QED
    BY <2>1, <2>2
<1>4. QED
  BY <1>1, <1>3 DEF Connections, Sibling

(* A node never registers a sibling twice.                                   *)
LEMMA ClusterNodeUnregistered ==
  ASSUME LogInv, LinkInv, NEW i \in Node, NEW j \in Sibling(i),
         Receives(i, j, "clusternode")
  PROVE  link[i][j] = "none"
<1> DEFINE l   == link[i][j]
           r   == link[j][i]
           in  == chan[j][i]
           out == chan[i][j]
<1>1. j \in Node /\ i # j
  BY DEF Sibling
<1>2. /\ Side(j < i, l, r, in, out) /\ in \in Seq(SoundMessage)
      /\ (j < i) \in BOOLEAN
  BY <1>1, LinkTypes, LinkInvIsLinks, LinksSide
<1>3. in # << >> /\ IsClusterNode(Head(in))
  BY DEF Receives, Received, IsClusterNode
<1> HIDE DEF l, r, in, out
<1>4. 1 \in DOMAIN in /\ Head(in) = in[1]
  BY <1>2, <1>3
<1>5. CASE j < i
  BY <1>2, <1>3, <1>4, <1>5 DEF Side, PairInv, DiallerInv
<1>6. CASE ~(j < i)
  <2>1. ~Registered(l, in, 1)
    BY <1>2, <1>3, <1>4, <1>6 DEF Side, PairInv, AcceptorInv
  <2>2. 1 .. 1 - 1 = {}
    OBVIOUS
  <2>3. QED
    BY <2>1, <2>2 DEF Registered, l
<1>7. QED
  BY <1>5, <1>6

(* A majority stays one when more nodes join it.                             *)
LEMMA MajorityKept ==
  ASSUME NEW S \in SUBSET Node, NEW T \in SUBSET Node, S \subseteq T,
         2 * Cardinality(S) > Cardinality(Node)
  PROVE  2 * Cardinality(T) > Cardinality(Node)
<1>1. IsFiniteSet(Node)
  BY IdAssumption, FS_Interval DEF Node
<1>2. IsFiniteSet(T) /\ IsFiniteSet(S)
  BY <1>1, FS_Subset
<1>3. Cardinality(S) <= Cardinality(T)
  BY <1>2, FS_Subset
<1>4. Cardinality(S) \in Nat /\ Cardinality(T) \in Nat /\ Cardinality(Node) \in Nat
  BY <1>1, <1>2, FS_CardinalityType
<1>5. QED
  BY <1>3, <1>4

LEMMA LeadingKept ==
  ASSUME LogInv, Candidate \in Node, Leading,
         commitIndex'[Candidate] = commitIndex[Candidate],
         \A j \in Sibling(Candidate) : Peer(j)' /\ SafeKept(j)
  PROVE  Leading'
<1>1. commitIndex[Candidate] \in Nat
  BY PeerTypes DEF PeerTyped
<1>2. ASSUME NEW p \in 1 .. commitIndex'[Candidate]
      PROVE  2 * Cardinality(Safe(p)') > Cardinality(Node)
  <2>1. p \in Nat /\ p <= commitIndex[Candidate] /\ p \in 1 .. commitIndex[Candidate]
    BY <1>1, <1>2
  <2>2. 2 * Cardinality(Safe(p)) > Cardinality(Node)
    BY <2>1 DEF Leading
  <2>3. \A k \in Node : k # Candidate /\ SafeAt(k, p) => SafeAt(k, p)'
    BY <2>1 DEF SafeKept, Sibling
  <2>4. /\ Safe(p) \in SUBSET Node /\ Safe(p)' \in SUBSET Node
        /\ Safe(p) \subseteq Safe(p)'
    BY <2>3 DEF Safe
  <2>5. QED
    BY <2>2, <2>4, MajorityKept
<1>3. QED
  BY <1>2 DEF Leading

(* A step that writes to no file and sends no append entry.                  *)
Calm ==
  /\ log' = log /\ \A i \in Node : pfGood'[i]
  /\ FewerAll(chan, chan')
  /\ \A i \in Node : /\ commitIndex'[i] <= commitIndex[i]
                     /\ lastApplied'[i] <= commitIndex'[i]
                     /\ role'[i] \in {role[i], "F"}
  /\ role'[Candidate] # "F" => currentTerm'[Candidate] >= currentTerm[Candidate]
  /\ spent'.timeout = spent.timeout

LEMMA FewerChannels ==
  ASSUME FewerAll(chan, chan'), NEW i \in Node, NEW j \in Node
  PROVE  /\ OfType(chan'[i][j], "appendentry") \subseteq OfType(chan[i][j], "appendentry")
         /\ OfType(chan'[i][j], "replyappendentry")
              \subseteq OfType(chan[i][j], "replyappendentry")
         /\ AtMostOne(chan[i][j], "appendentry") => AtMostOne(chan'[i][j], "appendentry")
         /\ Fewer(chan[i][j], chan'[i][j])
<1>1. Fewer(chan[i][j], chan'[i][j])
  BY DEF FewerAll
<1>2. QED
  BY <1>1 DEF Fewer, Appending

LEMMA CalmStep ==
  ASSUME LogInv, LogInv', SingleElection, ElectionInv, Calm,
         role'[Candidate] = "L" =>
           /\ commitIndex'[Candidate] = commitIndex[Candidate]
           /\ \A j \in Sibling(Candidate) : Peer(j)' /\ SafeKept(j)
  PROVE  ElectionInv'
<1>1. Candidate \in Node
  BY CandidateNode
<1>2. RolesInv'
  <2>1. RolesInv
    BY DEF ElectionInv
  <2>2. /\ currentTerm[Candidate] \in Nat /\ currentTerm'[Candidate] \in Nat
    BY <1>1 DEF LogInv, TypeOK
  <2>3. role'[Candidate] # "F" => currentTerm'[Candidate] >= 1
    BY <1>1, <2>1, <2>2 DEF RolesInv, Calm
  <2>4. QED
    BY <1>1, <2>1, <2>3 DEF RolesInv, Calm
<1>3. FilesInv'
  BY DEF ElectionInv, FilesInv, Calm
<1>4. AppliedInv'
  <2>1. \A i \in Node : /\ commitIndex[i] \in Nat /\ commitIndex'[i] \in Nat
                        /\ Len(log[i]) \in Nat
    BY <1>1, PeerTypes DEF PeerTyped
  <2>2. QED
    BY <2>1 DEF ElectionInv, AppliedInv, Calm
<1>5. AsksInv'
  <2>1. AsksInv
    BY DEF ElectionInv
  <2>2. \A i, j \in Node :
          /\ OfType(chan'[i][j], "appendentry") \subseteq OfType(chan[i][j], "appendentry")
          /\ AtMostOne(chan[i][j], "appendentry") => AtMostOne(chan'[i][j], "appendentry")
    BY FewerChannels DEF Calm
  <2>3. \A i \in Sibling(Candidate), j \in Node : OfType(chan'[i][j], "appendentry") = {}
    BY <2>1, <2>2 DEF AsksInv, Sibling
  <2>4. ASSUME NEW j \in Sibling(Candidate)
        PROVE  /\ AtMostOne(chan'[Candidate][j], "appendentry")
               /\ \A m \in Asks(j)' : /\ Repeats(m, log'[Candidate])
                                      /\ commitIndex'[j] <= m.prevLogIndex
                                      /\ commitIndex'[j] <= m.leaderCommit
    <3>1. j \in Node /\ commitIndex[j] \in Nat /\ commitIndex'[j] \in Nat
      BY <1>1, PeerTypes DEF PeerTyped, Sibling
    <3>2. \A m \in Asks(j) : m.prevLogIndex \in Nat /\ m.leaderCommit \in Nat
      BY <1>1, <3>1, TrafficTypes DEF AppendEntryMessage
    <3>3. Asks(j)' \subseteq Asks(j)
      BY <1>1, <2>2, <3>1 DEF Asks
    <3>4. \A m \in Asks(j) : /\ Repeats(m, log[Candidate])
                             /\ commitIndex[j] <= m.prevLogIndex
                             /\ commitIndex[j] <= m.leaderCommit
      BY <2>1 DEF AsksInv
    <3>5. commitIndex'[j] <= commitIndex[j] /\ log' = log
      BY <3>1 DEF Calm
    <3>6. AtMostOne(chan'[Candidate][j], "appendentry")
      BY <1>1, <2>1, <2>2, <3>1 DEF AsksInv
    <3>7. QED
      BY <3>1, <3>2, <3>3, <3>4, <3>5, <3>6
  <2>5. QED
    BY <2>3, <2>4 DEF AsksInv
<1>6. spent'.timeout[Candidate] = 0 \/ role'[Candidate] = "C" => Quiet'
  <2>1. ASSUME Quiet PROVE Quiet'
    <3>1. \A i, j \in Node :
            /\ OfType(chan'[i][j], "appendentry") \subseteq OfType(chan[i][j], "appendentry")
            /\ OfType(chan'[i][j], "replyappendentry")
                 \subseteq OfType(chan[i][j], "replyappendentry")
      BY FewerChannels DEF Calm
    <3>2. /\ \A i \in Node : log'[i] = << >>
          /\ \A i, j \in Node : /\ OfType(chan[i][j], "appendentry") = {}
                               /\ OfType(chan[i][j], "replyappendentry") = {}
      BY <2>1 DEF Quiet, Calm
    <3>3. \A i, j \in Node : /\ OfType(chan'[i][j], "appendentry") = {}
                             /\ OfType(chan'[i][j], "replyappendentry") = {}
      <4>1. ASSUME NEW i \in Node, NEW j \in Node
            PROVE  /\ OfType(chan'[i][j], "appendentry") \subseteq {}
                   /\ OfType(chan'[i][j], "replyappendentry") \subseteq {}
        BY <3>1, <3>2
      <4>2. QED
        BY <4>1
    <3>4. QED
      BY <3>2, <3>3 DEF Quiet
  <2>2. QED
    BY <1>1, <2>1 DEF ElectionInv, Calm
<1>7. role'[Candidate] = "L" => Leading'
  <2>1. role'[Candidate] = "L" => role[Candidate] = "L"
    BY <1>1 DEF Calm
  <2>2. QED
    BY <1>1, <2>1, LeadingKept DEF ElectionInv
<1>8. QED
  BY <1>2, <1>3, <1>4, <1>5, <1>6, <1>7 DEF ElectionInv

(* And that loses no append entry or answer the leader knows of.             *)
LEMMA LikeStep ==
  ASSUME LogInv, LogInv', SingleElection, ElectionInv, Calm,
         role'[Candidate] = "L" =>
           /\ commitIndex' = commitIndex
           /\ \A j \in Sibling(Candidate) : SameTraffic(j) /\ SameBook(j)
  PROVE  ElectionInv'
<1>1. Candidate \in Node /\ commitIndex[Candidate] \in Nat /\ Len(log[Candidate]) \in Nat
  BY CandidateNode, PeerTypes DEF PeerTyped
<1>2. ASSUME role'[Candidate] = "L", NEW j \in Sibling(Candidate)
      PROVE  Peer(j)' /\ SafeKept(j)
  <2>1. role[Candidate] = "L"
    BY <1>1, <1>2 DEF Calm
  <2>2. Peer(j)
    BY <2>1 DEF ElectionInv, Leading
  <2>3. SameFile(j) /\ LeaderGrows
    BY <1>1, <1>2 DEF SameFile, LeaderGrows, Calm
  <2>4. SameTraffic(j) /\ SameBook(j)
    BY <1>2
  <2>5. QED
    BY <1>1, <2>2, <2>3, <2>4, PeerSame
<1>3. QED
  BY <1>2, CalmStep

LEMMA AlikeTraffic ==
  ASSUME AlikeAll(chan, chan'), Candidate \in Node, NEW j \in Node,
         Ended(chan'[j][Candidate]) <=> Ended(chan[j][Candidate])
  PROVE  SameTraffic(j)
<1>1. \A a, b \in Node : Alike(chan[a][b], chan'[a][b])
  BY DEF AlikeAll
<1>2. "appendentry" \in Appending /\ "replyappendentry" \in Appending
  BY DEF Appending
<1>3. Asks(j)' = Asks(j) /\ Answers(j)' = Answers(j)
  BY <1>1, <1>2, AlikeTypes DEF Asks, Answers
<1>4. QED
  BY <1>1, <1>3 DEF SameTraffic, Alike


-----------------------------------------------------------------------------
(* The steps.                                                                *)

Sound ==
  /\ LogInv /\ LinkInv /\ Linked
  /\ SingleElection /\ SoundDisks
  /\ ElectionInv

LEMMA SoundFacts ==
  ASSUME Sound
  PROVE  /\ Candidate \in Node /\ OnlyCandidate(Candidate)
         /\ RolesInv /\ FilesInv /\ AppliedInv /\ AsksInv
         /\ \A i \in Node : /\ commitIndex[i] \in Nat /\ lastApplied[i] \in Nat
                            /\ lastApplied[i] <= commitIndex[i]
                            /\ commitIndex[i] <= Len(log[i])
                            /\ pfGood[i]
                            /\ i # Candidate => role[i] = "F"
         /\ role[Candidate] = "L" => \A j \in Sibling(Candidate) : Peer(j)
<1>1. Candidate \in Node /\ OnlyCandidate(Candidate)
  BY CandidateNode DEF Sound
<1>2. RolesInv /\ FilesInv /\ AppliedInv /\ AsksInv
  BY DEF Sound, ElectionInv
<1>3. \A i \in Node : commitIndex[i] \in Nat /\ lastApplied[i] \in Nat
  BY DEF Sound, LogInv, TypeOK
<1>4. role[Candidate] = "L" => \A j \in Sibling(Candidate) : Peer(j)
  BY DEF Sound, ElectionInv, Leading
<1>5. QED
  BY <1>1, <1>2, <1>3, <1>4 DEF RolesInv, FilesInv, AppliedInv

(* A step of another node does not touch what the candidate knows.           *)
LEMMA OtherRow ==
  ASSUME LogInv, Candidate \in Node, NEW i \in Node, i # Candidate,
         NEW S, NEW T, NEW status, AddSiblings(i, S, status),
         alreadyAppendEntry' = Set(alreadyAppendEntry, i, T, FALSE),
         emptyAppendEntry' = emptyAppendEntry, NEW j \in Sibling(Candidate)
  PROVE  SameBook(j)
<1>1. /\ link \in Table({"none", "trying", "up"})
      /\ nextIndex \in Table(Nat) /\ matchIndex \in Table(Nat)
      /\ alreadyAppendEntry \in Table(BOOLEAN) /\ j \in Node
  BY DEF LogInv, TypeOK, Table, Sibling
<1>2. /\ link' = Set(link, i, S, status)
      /\ nextIndex' = Set(nextIndex, i, S, commitIndex[i] + 1)
      /\ matchIndex' = Set(matchIndex, i, S, 0)
  BY DEF AddSiblings
<1>3. link'[Candidate][j] = link[Candidate][j]
  BY <1>1, <1>2, SetCells
<1>4. nextIndex'[Candidate][j] = nextIndex[Candidate][j]
  BY <1>1, <1>2, SetCells
<1>5. matchIndex'[Candidate][j] = matchIndex[Candidate][j]
  BY <1>1, <1>2, SetCells
<1>6. alreadyAppendEntry'[Candidate][j] <=> alreadyAppendEntry[Candidate][j]
  <2>1. alreadyAppendEntry \in Table(BOOLEAN) /\ i \in Node /\ j \in Node
        /\ Candidate \in Node /\ Candidate # i
    BY <1>1
  <2>2. alreadyAppendEntry' = Set(alreadyAppendEntry, i, T, FALSE)
    OBVIOUS
  <2>3. QED
    BY ONLY <2>1, <2>2, Zenon DEF Set, Table
<1>7. QED
  BY <1>3, <1>4, <1>5, <1>6 DEF SameBook

LEMMA AlikeFewer ==
  ASSUME NEW c, NEW d, NEW e
  PROVE  /\ AlikeAll(c, d) => FewerAll(c, d)
         /\ AlikeAll(c, d) /\ AlikeAll(d, e) => AlikeAll(c, e)
         /\ AlikeAll(c, c)
<1>1. AlikeAll(c, d) /\ AlikeAll(d, e) => AlikeAll(c, e)
  BY FewerTransitive DEF AlikeAll
<1>2. AlikeAll(c, d) => FewerAll(c, d)
  BY DEF AlikeAll, FewerAll, Alike
<1>3. QED
  BY <1>1, <1>2, FewerTransitive DEF AlikeAll

(* A cron() that only dials.                                                 *)
LEMMA DialStep ==
  ASSUME Sound, LogInv', NEW i \in Node, NEW S,
         AddSiblings(i, S, "trying"),
         alreadyAppendEntry' = Set(alreadyAppendEntry, i, S, FALSE),
         chan' = Dial(chan, i, S, Alive),
         UNCHANGED <<log, pfGood, commitIndex, currentTerm, spent, emptyAppendEntry>>,
         \A k \in Node : lastApplied'[k] <= commitIndex[k] /\ role'[k] \in {role[k], "F"},
         i = Candidate => role'[i] # "L"
  PROVE  ElectionInv'
<1>1. Candidate \in Node /\ \A k \in Node : commitIndex[k] \in Nat /\ pfGood[k]
  BY SoundFacts
<1>2. /\ AlikeAll(chan, chan')
      /\ \A a, b \in Node : b # i => (Ended(chan'[a][b]) <=> Ended(chan[a][b]))
  BY PlainMessages, DialAlike DEF Sound, LogInv
<1>3. currentTerm[Candidate] \in Nat
  BY <1>1 DEF Sound, LogInv, TypeOK
<1>4. Calm
  BY <1>1, <1>2, <1>3, AlikeFewer DEF Calm
<1>5. ASSUME i # Candidate, NEW j \in Sibling(Candidate)
      PROVE  SameTraffic(j) /\ SameBook(j)
  <2>1. SameBook(j)
    BY <1>1, <1>5, OtherRow DEF Sound
  <2>2. SameTraffic(j)
    BY <1>1, <1>2, <1>5, AlikeTraffic DEF Sibling
  <2>3. QED
    BY <2>1, <2>2
<1>6. QED
  BY <1>1, <1>4, <1>5, LikeStep DEF Sound

LEMMA CronReconnectStep ==
  ASSUME Sound, LogInv', NEW i \in Node, NEW reachable, CronReconnect(i, reachable)
  PROVE  ElectionInv'
<1>1. \A k \in Node : /\ commitIndex[k] \in Nat /\ lastApplied[k] \in Nat
                      /\ lastApplied[k] <= commitIndex[k]
  BY SoundFacts
<1>2. \A k \in Node : lastApplied'[k] \in {lastApplied[k], 0}
  BY DEF CronReconnect, Sound, LogInv, TypeOK
<1>3. currentTerm \in [Node -> Nat] /\ role \in [Node -> {"F", "C", "L"}]
  BY DEF Sound, LogInv, TypeOK
<1>4. (role' = role /\ role[i] = "F") \/ role' = [role EXCEPT ![i] = "F"]
  BY DEF CronReconnect, ToFollow
<1>5. currentTerm' = currentTerm
  BY <1>3 DEF CronReconnect, ToFollow
<1>6. role'[i] = "F" /\ \A k \in Node : role'[k] \in {role[k], "F"}
  BY <1>3, <1>4
<1>7. \A k \in Node : lastApplied'[k] <= commitIndex[k]
  BY <1>1, <1>2
<1> DEFINE S == IF SiblingsBaseline(i) THEN {} ELSE LostSiblings(i)
<1>8. /\ AddSiblings(i, S, "trying")
      /\ alreadyAppendEntry' = Set(alreadyAppendEntry, i, S, FALSE)
      /\ chan' = Dial(chan, i, S, Alive)
      /\ UNCHANGED <<log, pfGood, commitIndex, spent, emptyAppendEntry>>
  BY DEF CronReconnect, fileVars
<1> HIDE DEF S
<1>9. QED
  BY <1>5, <1>6, <1>7, <1>8, DialStep

(* What a cron() applies is committed.                                       *)
LEMMA CronBeginsApplied ==
  ASSUME Sound, NEW i \in Node, CronBegins(i)
  PROVE  \A k \in Node : lastApplied'[k] <= commitIndex[k]
<1>1. \A k \in Node : /\ commitIndex[k] \in Nat /\ lastApplied[k] \in Nat
                      /\ lastApplied[k] <= commitIndex[k]
  BY SoundFacts
<1>2. lastApplied' = [lastApplied EXCEPT
                        ![i] = IF @ < commitIndex[i] THEN @ + 1 ELSE @]
  BY DEF CronBegins
<1>3. lastApplied \in [Node -> Nat]
  BY DEF Sound, LogInv, TypeOK
<1>4. QED
  BY <1>1, <1>2, <1>3

LEMMA CronIdleStep ==
  ASSUME Sound, LogInv', NEW i \in Node, CronIdle(i)
  PROVE  ElectionInv'
<1>1. \A k \in Node : lastApplied'[k] <= commitIndex[k]
  BY CronBeginsApplied DEF CronIdle
<1>2. QED
  BY <1>1, DialStep DEF CronIdle, clusterVars, fileVars

(* Before there is a leader nothing is in the files.                         *)
LEMMA QuietStep ==
  ASSUME Sound, Quiet, log' = log, pfGood' = pfGood, FewerAll(chan, chan')
  PROVE  Quiet' /\ FilesInv' /\ AsksInv'
<1>1. Candidate \in Node /\ FilesInv
  BY SoundFacts
<1>2. \A i, j \in Node :
        /\ OfType(chan'[i][j], "appendentry") \subseteq OfType(chan[i][j], "appendentry")
        /\ OfType(chan'[i][j], "replyappendentry")
             \subseteq OfType(chan[i][j], "replyappendentry")
  BY FewerChannels
<1>3. /\ \A i \in Node : log'[i] = << >>
      /\ \A i, j \in Node : /\ OfType(chan[i][j], "appendentry") = {}
                            /\ OfType(chan[i][j], "replyappendentry") = {}
  BY DEF Quiet
<1>4. \A i, j \in Node : /\ OfType(chan'[i][j], "appendentry") = {}
                         /\ OfType(chan'[i][j], "replyappendentry") = {}
  <2>1. ASSUME NEW i \in Node, NEW j \in Node
        PROVE  /\ OfType(chan'[i][j], "appendentry") \subseteq {}
               /\ OfType(chan'[i][j], "replyappendentry") \subseteq {}
    BY <1>2, <1>3
  <2>2. QED
    BY <2>1
<1>5. \A i, j \in Node : AtMostOne(chan'[i][j], "appendentry")
  BY <1>4, NothingOfType DEF AtMostOne
<1>6. AsksInv'
  BY <1>1, <1>4, <1>5 DEF AsksInv, Asks, Sibling
<1>7. QED
  BY <1>1, <1>3, <1>4, <1>6 DEF Quiet, FilesInv

LEMMA CronTimeoutFewer ==
  ASSUME Sound, NEW i \in Node, CronTimeout(i)
  PROVE  FewerAll(chan, chan')
<1> DEFINE dialled == Dial(chan, i, LostSiblings(i), Alive)
           message == [j \in Node |-> RequestVote(i)]
<1>1. AlikeAll(chan, dialled) /\ dialled \in Channels(SoundMessage)
  BY PlainMessages, DialAlike, DialType DEF Sound, LogInv
<1>2. RequestVote(i) \in SoundMessage /\ RequestVote(i).type = "requestvote"
  <2>1. currentTerm \in [Node -> Nat] /\ currentTerm' = [currentTerm EXCEPT ![i] = @ + 1]
    BY DEF Sound, LogInv, TypeOK, CronTimeout, ToCandidate
  <2>2. FindLastEntry(log[i]) \in Entry
    BY LogFiles, FindLastEntryDense DEF Sound
  <2>3. /\ FindLastEntry(log[i]).index \in Nat /\ FindLastEntry(log[i]).term \in Nat
        /\ currentTerm'[i] \in Nat
    BY <2>1, <2>2 DEF Entry
  <2>4. QED
    BY <2>3 DEF RequestVote, SoundMessage, Message, FollowsPrev
<1>3. \A j \in Node : message[j] \in SoundMessage
                      /\ message[j].type \notin Appending \cup {"eof"}
  BY <1>2 DEF Appending
<1>4. chan' = Broadcast(dialled, i, NeedAppendEntry(i), message)
  BY DEF CronTimeout
<1> HIDE DEF dialled, message
<1>5. AlikeAll(dialled, chan')
  BY <1>1, <1>3, <1>4, BroadcastAlike
<1>6. QED
  BY <1>1, <1>5, AlikeFewer

LEMMA CronTimeoutStep ==
  ASSUME Sound, LogInv', NEW i \in Node, CronTimeout(i)
  PROVE  ElectionInv'
<1>1. /\ Candidate \in Node /\ OnlyCandidate(Candidate) /\ RolesInv
      /\ \A k \in Node : /\ commitIndex[k] \in Nat /\ lastApplied[k] \in Nat
                         /\ commitIndex[k] <= Len(log[k])
  BY SoundFacts
<1>2. /\ spent.timeout \in [Node -> Nat] /\ currentTerm \in [Node -> Nat]
      /\ role \in [Node -> {"F", "C", "L"}]
      /\ spent' = [spent EXCEPT !.timeout[i] = @ + 1]
      /\ spent' = [spent EXCEPT !.timeout = [spent.timeout EXCEPT ![i] = @ + 1]]
  BY DEF Sound, LogInv, TypeOK, CronTimeout
<1>3. MaxTimeout[i] \in Nat /\ spent.timeout[i] < MaxTimeout[i]
  BY BoundAssumption DEF CronTimeout
<1>4. i = Candidate /\ spent.timeout[i] = 0 /\ MaxTimeout[i] = 1
  BY <1>1, <1>2, <1>3 DEF OnlyCandidate, Sibling
<1>5. spent'.timeout = [spent.timeout EXCEPT ![i] = @ + 1]
  BY <1>2 DEF Sound, LogInv, TypeOK
<1>6. Quiet
  BY <1>4 DEF Sound, ElectionInv
<1>7. /\ role' = [role EXCEPT ![i] = "C"]
      /\ currentTerm' = [currentTerm EXCEPT ![i] = @ + 1]
      /\ UNCHANGED <<log, pfGood, commitIndex>>
  BY DEF CronTimeout, ToCandidate, fileVars
<1>8. RolesInv'
  BY <1>1, <1>2, <1>4, <1>5, <1>7 DEF RolesInv
<1>9. AppliedInv'
  <2>1. \A k \in Node : lastApplied'[k] <= commitIndex[k]
    BY CronBeginsApplied DEF CronTimeout
  <2>2. QED
    BY <1>1, <1>7, <2>1 DEF AppliedInv
<1>10. FewerAll(chan, chan')
  BY CronTimeoutFewer
<1>11. Quiet' /\ FilesInv' /\ AsksInv'
  BY <1>6, <1>7, <1>10, QuietStep
<1>12. role'[Candidate] # "L"
  BY <1>1, <1>2, <1>4, <1>7
<1>13. QED
  BY <1>8, <1>9, <1>11, <1>12 DEF ElectionInv

(* The candidate leads: nothing is committed yet.                            *)
LEMMA ToLeadStep ==
  ASSUME Sound, LogInv', Linked', NEW i \in Node, role[i] = "C", ToLead(i),
         UNCHANGED <<log, pfGood, link, spent>>, FewerAll(chan, chan'),
         \A k \in Node : lastApplied'[k] <= commitIndex[k]
  PROVE  ElectionInv'
<1>1. /\ Candidate \in Node /\ RolesInv
      /\ \A k \in Node : /\ commitIndex[k] \in Nat /\ lastApplied[k] \in Nat
                         /\ commitIndex[k] <= Len(log[k])
                         /\ k # Candidate => role[k] = "F"
  BY SoundFacts
<1>2. i = Candidate
  BY <1>1
<1>3. Quiet
  BY <1>2 DEF Sound, ElectionInv
<1>4. Quiet' /\ FilesInv' /\ AsksInv'
  BY <1>3, QuietStep
<1>5. FindLastEntry(log[i]).index = 0
  BY <1>3 DEF Quiet, FindLastEntry, NullEntry
<1>6. /\ role' = [role EXCEPT ![i] = "L"] /\ currentTerm' = currentTerm
      /\ commitIndex' = [commitIndex EXCEPT ![i] = 0]
      /\ nextIndex' = Set(nextIndex, i, Sibling(i), 0 + 1)
      /\ matchIndex' = Set(matchIndex, i, Sibling(i), 0)
      /\ alreadyAppendEntry' = Set(alreadyAppendEntry, i, Sibling(i), FALSE)
  BY <1>5 DEF ToLead
<1>7. /\ role \in [Node -> {"F", "C", "L"}] /\ commitIndex \in [Node -> Nat]
      /\ nextIndex \in Table(Nat) /\ matchIndex \in Table(Nat)
      /\ alreadyAppendEntry \in Table(BOOLEAN)
  BY DEF Sound, LogInv, TypeOK, Table
<1>8. RolesInv'
  BY <1>1, <1>2, <1>6, <1>7 DEF RolesInv
<1>9. \A k \in Node : Len(log[k]) = 0 /\ commitIndex[k] = 0
  <2>1. \A k \in Node : Len(log[k]) = 0
    BY <1>3 DEF Quiet
  <2>2. QED
    BY <1>1, <2>1
<1>10. \A k \in Node : commitIndex'[k] = 0 /\ Len(log'[k]) = 0
  BY <1>6, <1>7, <1>9
<1>11. AppliedInv'
  <2>1. \A k \in Node : lastApplied'[k] <= 0
    BY <1>9
  <2>2. QED
    BY <1>10, <2>1 DEF AppliedInv
<1>12. ASSUME NEW j \in Sibling(Candidate)
       PROVE  Peer(j)'
  <2>1. /\ j \in Node /\ nextIndex'[Candidate][j] = 1
        /\ matchIndex'[Candidate][j] = 0 /\ ~alreadyAppendEntry'[Candidate][j]
    <3>1. j \in Node /\ j \in Sibling(i)
      BY <1>2 DEF Sibling
    <3>2. nextIndex'[i][j] = 0 + 1
      BY <1>6, <1>7, <3>1, SetCells
    <3>3. matchIndex'[i][j] = 0
      BY <1>6, <1>7, <3>1, SetCells
    <3>4. ~alreadyAppendEntry'[i][j]
      <4>1. alreadyAppendEntry' = Set(alreadyAppendEntry, i, Sibling(i), FALSE)
        BY <1>6
      <4>2. alreadyAppendEntry \in Table(BOOLEAN) /\ i \in Node
        BY <1>7
      <4>3. QED
        BY ONLY <3>1, <4>1, <4>2, Zenon DEF Set, Table
    <3>5. QED
      BY <1>2, <3>1, <3>2, <3>3, <3>4
  <2>2. Asks(j)' = {} /\ Answers(j)' = {}
    BY <1>1, <1>4, <2>1 DEF Quiet, Asks, Answers
  <2>3. /\ AtMostOne(chan'[j][Candidate], "replyappendentry")
        /\ AnswersFirst(chan'[j][Candidate])
    BY <2>2, NothingOfType DEF Answers, AtMostOne, AnswersFirst
  <2>4. Outstanding(j)' /\ Attributed(j)'
    BY <2>1, <2>2, <2>3 DEF Outstanding, Attributed
  <2>5. SafeAt(j, 0)'
    BY <1>1, <2>1, SafeAtNothing DEF Linked
  <2>6. SafeAt(j, commitIndex[j])' /\ SafeAt(j, matchIndex[Candidate][j])'
    BY <1>10, <2>1, <2>5 DEF SafeAt
  <2>7. QED
    BY <1>1, <1>10, <2>1, <2>4, <2>6 DEF Peer
<1>13. Leading'
  <2>1. 1 .. commitIndex'[Candidate] = {}
    BY <1>1, <1>10
  <2>2. QED
    BY <1>12, <2>1 DEF Leading
<1>14. QED
  BY <1>4, <1>8, <1>11, <1>13 DEF ElectionInv

LEMMA CronWinStep ==
  ASSUME Sound, LogInv', Linked', NEW i \in Node, CronWin(i)
  PROVE  ElectionInv'
<1>1. \A k \in Node : lastApplied'[k] <= commitIndex[k]
  BY CronBeginsApplied DEF CronWin
<1>2. FewerAll(chan, chan')
  BY AlikeFewer DEF CronWin
<1>3. QED
  BY <1>1, <1>2, ToLeadStep DEF CronWin, fileVars


LEMMA AskKept ==
  ASSUME Candidate \in Node, NEW j \in Node, AskSound(j),
         Fewer(chan[Candidate][j], chan'[Candidate][j]),
         SameFile(Candidate), SameFile(j)
  PROVE  AskSound(j)'
<1>1. /\ Asks(j)' \subseteq Asks(j)
      /\ AtMostOne(chan'[Candidate][j], "appendentry")
  BY FewerTypes DEF Appending, Asks, AskSound
<1>2. QED
  BY <1>1 DEF AskSound, SameFile

LEMMA AsksSound ==
  ASSUME Sound, NEW j \in Sibling(Candidate)
  PROVE  AskSound(j)
BY SoundFacts DEF AsksInv, AskSound

(* A sibling during the cron() of the leader: it is sent an append entry, it *)
(* is dialled, or neither.                                                   *)
LEMMA CronLeadPeer ==
  ASSUME Sound, LogInv', Linked', CronLead(Candidate), NEW j \in Sibling(Candidate)
  PROVE  Peer(j)' /\ AskSound(j)' /\ SafeKept(j)
<1> DEFINE c       == Candidate
           lost    == LostSiblings(c)
           need    == NeedAppendEntry(c)
           dialled == Dial(chan, c, lost, Alive)
<1>1. /\ c \in Node /\ j \in Node /\ j # c /\ role[c] = "L"
      /\ Peer(j) /\ AskSound(j) /\ NextIndexPositive /\ NextIndexPositive'
      /\ commitIndex[c] <= Len(log[c])
  BY SoundFacts, AsksSound DEF CronLead, Sibling, Sound, Linked
<1>2. SendAppendEntries(c, need) /\ UNCHANGED <<commitIndex, log, pfGood>>
  BY DEF CronLead, fileVars
<1>3. SameFile(j) /\ SameFile(c) /\ LeaderGrows
  <2>1. commitIndex[c] \in Nat /\ Len(log[c]) \in Nat
    BY <1>1, PeerTypes DEF PeerTyped, Sound
  <2>2. QED
    BY <1>2, <2>1 DEF SameFile, LeaderGrows
<1>4. /\ dialled \in Channels(SoundMessage) /\ AlikeAll(chan, dialled)
      /\ j \notin lost => /\ dialled[c][j] = chan[c][j]
                          /\ dialled[j][c] = chan[j][c]
  BY <1>1, PlainMessages, DialAlike, DialType DEF Sound, LogInv
<1>5. /\ chan'[j][c] = dialled[j][c]
      /\ chan'[c][j] = IF j \in need THEN Post(dialled, c, j, AppendEntry(c, j))
                       ELSE dialled[c][j]
  <2> HIDE DEF dialled
  <2>1. chan' = Broadcast(dialled, c, need, [k \in Node |-> AppendEntry(c, k)])
    BY <1>2 DEF SendAppendEntries, dialled
  <2>2. QED
    BY <1>1, <1>4, <2>1 DEF Broadcast, Channels
<1>6. /\ link \in Table({"none", "trying", "up"})
      /\ nextIndex \in Table(Nat) /\ matchIndex \in Table(Nat)
      /\ alreadyAppendEntry \in Table(BOOLEAN)
      /\ emptyAppendEntry \in Table(BOOLEAN)
  BY DEF Sound, LogInv, TypeOK, Table
<1>7. /\ link'[c][j] = IF j \in lost THEN "trying" ELSE link[c][j]
      /\ nextIndex'[c][j] = IF j \in lost THEN commitIndex[c] + 1 ELSE nextIndex[c][j]
      /\ matchIndex'[c][j] = IF j \in lost THEN 0 ELSE matchIndex[c][j]
  <2>1. /\ link' = Set(link, c, lost, "trying")
        /\ nextIndex' = Set(nextIndex, c, lost, commitIndex[c] + 1)
        /\ matchIndex' = Set(matchIndex, c, lost, 0)
    BY <1>2 DEF SendAppendEntries, AddSiblings
  <2> HIDE DEF lost
  <2>2. link'[c][j] = IF j \in lost THEN "trying" ELSE link[c][j]
    BY <1>1, <1>6, <2>1, SetCells
  <2>3. nextIndex'[c][j] = IF j \in lost THEN commitIndex[c] + 1 ELSE nextIndex[c][j]
    BY <1>1, <1>6, <2>1, SetCells
  <2>4. matchIndex'[c][j] = IF j \in lost THEN 0 ELSE matchIndex[c][j]
    BY <1>1, <1>6, <2>1, SetCells
  <2>5. QED
    BY <2>2, <2>3, <2>4
<1>8. /\ j \in need => alreadyAppendEntry'[c][j] = TRUE
      /\ j \in lost /\ j \notin need => ~alreadyAppendEntry'[c][j]
      /\ j \notin lost /\ j \notin need =>
           (alreadyAppendEntry'[c][j] <=> alreadyAppendEntry[c][j])
  <2>1. alreadyAppendEntry' = Set(Set(alreadyAppendEntry, c, lost, FALSE), c, need, TRUE)
    BY <1>2 DEF SendAppendEntries
  <2>2. alreadyAppendEntry \in Table(BOOLEAN) /\ c \in Node /\ j \in Node
    BY <1>1, <1>6
  <2> HIDE DEF c, lost, need
  <2>3. QED
    BY ONLY <2>1, <2>2, Zenon DEF Set, Table
<1>9. /\ j \in need => link[c][j] = "up" /\ ~alreadyAppendEntry[c][j]
      /\ j \in lost => link[c][j] = "none" /\ j \notin need
      /\ link[c][j] = "up" /\ j \notin need => alreadyAppendEntry[c][j]
  BY <1>1 DEF NeedAppendEntry, ConnectedSiblings, LostSiblings
<1>10. j \in need => ~BeyondLog(c, j)
  <2>1. ASSUME j \in need PROVE ~BeyondLog(c, j)
    <3>1. nextIndex[c][j] >= 1 /\ nextIndex[c][j] <= Len(log[c]) + 1
      BY <1>1, <1>9, <2>1 DEF Peer, NextIndexPositive
    <3>2. QED
      BY <1>1, <3>1, AppendEntryRepeats DEF Sound
  <2>2. QED
    BY <2>1
<1>11. /\ j \in need => emptyAppendEntry'[c][j] = Heartbeat(c, j)
       /\ j \notin need => emptyAppendEntry'[c][j] = emptyAppendEntry[c][j]
  <2>1. emptyAppendEntry' =
          [emptyAppendEntry EXCEPT
             ![c] = [k \in Node |-> IF k \in NeedAppendEntry(c) /\ ~BeyondLog(c, k)
                                    THEN Heartbeat(c, k) ELSE @[k]]]
    BY <1>2 DEF SendAppendEntries
  <2>2. emptyAppendEntry'[c][j] = IF j \in need /\ ~BeyondLog(c, j)
                                 THEN Heartbeat(c, j) ELSE emptyAppendEntry[c][j]
    BY <1>1, <1>6, <2>1 DEF Table
  <2> HIDE DEF need, c
  <2>3. QED
    BY <1>10, <2>2
<1> HIDE DEF dialled, lost, need
<1>12. CASE j \in need
  <2>1. j \notin lost
    BY <1>9, <1>12
  <2>2. chan'[j][c] = chan[j][c]
    BY <1>4, <1>5, <2>1
  <2>3. chan'[c][j] = IF Ended(chan[j][c]) THEN chan[c][j]
                      ELSE Append(chan[c][j], AppendEntry(c, j))
    BY <1>4, <1>5, <1>12, <2>1 DEF Post
  <2>4. /\ link'[c][j] = link[c][j] /\ nextIndex'[c][j] = nextIndex[c][j]
        /\ matchIndex'[c][j] = matchIndex[c][j]
    BY <1>7, <2>1
  <2>5. QED
    BY <1>1, <1>3, <1>8, <1>9, <1>11, <1>12, <2>2, <2>3, <2>4, PeerAsked DEF Sound
<1>13. ASSUME j \notin need
       PROVE  /\ AskSound(j)' /\ Asks(j)' = Asks(j) /\ Answers(j)' = Answers(j)
              /\ Fewer(chan[j][c], chan'[j][c])
  <2>1. Alike(chan[c][j], chan'[c][j]) /\ Alike(chan[j][c], chan'[j][c])
    BY <1>1, <1>4, <1>5, <1>13 DEF AlikeAll
  <2>2. Asks(j)' = Asks(j) /\ Answers(j)' = Answers(j)
    BY <2>1, AlikeTypes DEF Asks, Answers, Appending
  <2>3. AskSound(j)'
    BY <1>1, <1>3, <2>1, AskKept DEF Alike
  <2>4. QED
    BY <2>1, <2>2, <2>3 DEF Alike
<1>14. CASE j \in lost
  <2>1. Asks(j) = {} /\ Answers(j) = {} /\ j \notin need
    BY <1>1, <1>9, <1>14 DEF Peer, Outstanding
  <2>2. Asks(j)' = {} /\ Answers(j)' = {} /\ AskSound(j)'
    BY <1>13, <2>1
  <2>3. /\ nextIndex'[c][j] = commitIndex[c] + 1 /\ matchIndex'[c][j] = 0
        /\ ~alreadyAppendEntry'[c][j]
    BY <1>7, <1>8, <1>14, <2>1
  <2>4. QED
    BY <1>1, <1>3, <1>13, <2>1, <2>2, <2>3, PeerQuiet DEF Sound
<1>15. CASE j \notin need /\ j \notin lost
  <2>1. chan'[j][c] = chan[j][c]
    BY <1>4, <1>5, <1>15
  <2>2. SameTraffic(j)
    BY <1>13, <1>15, <2>1 DEF SameTraffic
  <2>3. SameBook(j)
    BY <1>7, <1>8, <1>11, <1>15 DEF SameBook
  <2>4. Peer(j)' /\ SafeKept(j)
    BY <1>1, <1>3, <2>2, <2>3, PeerSame DEF Sound
  <2>5. QED
    BY <1>13, <1>15, <2>4
<1>16. QED
  BY <1>12, <1>14, <1>15

(* What is left of ElectionInv once the candidate leads, and did before.     *)
LEMMA LeaderStays ==
  ASSUME Sound, role[Candidate] = "L", spent'.timeout = spent.timeout,
         \A i \in Node : role'[i] = role[i],
         currentTerm'[Candidate] = currentTerm[Candidate],
         FilesInv', AppliedInv', AsksInv', Leading'
  PROVE  ElectionInv'
<1>1. Candidate \in Node /\ RolesInv
  BY SoundFacts
<1>2. spent.timeout[Candidate] \in Nat /\ currentTerm[Candidate] \in Nat
  BY <1>1 DEF Sound, LogInv, TypeOK
<1>3. RolesInv'
  BY <1>1, <1>2 DEF RolesInv
<1>4. ~(spent'.timeout[Candidate] = 0 \/ role'[Candidate] = "C")
  BY <1>1, <1>2 DEF RolesInv
<1>5. QED
  BY <1>3, <1>4 DEF ElectionInv

LEMMA CronLeadStep ==
  ASSUME Sound, LogInv', Linked', NEW i \in Node, CronLead(i)
  PROVE  ElectionInv'
<1>1. /\ Candidate \in Node /\ FilesInv /\ AsksInv
      /\ \A k \in Node : /\ commitIndex[k] \in Nat /\ commitIndex[k] <= Len(log[k])
                         /\ k # Candidate => role[k] = "F"
  BY SoundFacts
<1>2. i = Candidate /\ role[Candidate] = "L"
  BY <1>1 DEF CronLead
<1>3. UNCHANGED <<role, currentTerm, commitIndex, log, pfGood, spent>>
  BY DEF CronLead, clusterVars, fileVars
<1>4. \A j \in Sibling(Candidate) : Peer(j)' /\ AskSound(j)' /\ SafeKept(j)
  BY <1>2, CronLeadPeer
<1>5. Leading'
  BY <1>1, <1>2, <1>3, <1>4, LeadingKept DEF Sound, ElectionInv
<1>6. FilesInv'
  BY <1>1, <1>3 DEF FilesInv
<1>7. AppliedInv'
  <2>1. \A k \in Node : lastApplied'[k] <= commitIndex[k]
    BY CronBeginsApplied DEF CronLead
  <2>2. QED
    BY <1>1, <1>3, <2>1 DEF AppliedInv
<1>8. AsksInv'
  <2>1. ASSUME NEW k \in Sibling(Candidate), NEW j \in Node
        PROVE  OfType(chan'[k][j], "appendentry") = {}
    <3> DEFINE dialled == Dial(chan, i, LostSiblings(i), Alive)
    <3>1. AlikeAll(chan, dialled) /\ dialled \in Channels(SoundMessage)
      BY PlainMessages, DialAlike, DialType DEF Sound, LogInv
    <3>2. k \in Node /\ k # i
      BY <1>2 DEF Sibling
    <3>3. chan'[k][j] = dialled[k][j]
      <4> HIDE DEF dialled
      <4>1. chan' = Broadcast(dialled, i, NeedAppendEntry(i),
                              [n \in Node |-> AppendEntry(i, n)])
        BY DEF CronLead, SendAppendEntries, dialled
      <4>2. QED
        BY <3>1, <3>2, <4>1 DEF Broadcast, Channels
    <3> HIDE DEF dialled
    <3>4. Alike(chan[k][j], chan'[k][j])
      BY <3>1, <3>2, <3>3 DEF AlikeAll
    <3>5. OfType(chan'[k][j], "appendentry") = OfType(chan[k][j], "appendentry")
      BY <3>4, AlikeTypes DEF Appending
    <3>6. QED
      BY <1>1, <3>5 DEF AsksInv
  <2>2. QED
    BY <1>4, <2>1 DEF AsksInv, AskSound
<1>9. QED
  BY <1>2, <1>3, <1>5, <1>6, <1>7, <1>8, LeaderStays

(* The leader's file reaches every next index.                               *)
LEMMA AllServable ==
  ASSUME Sound, NEW i \in Node, role[i] = "L"
  PROVE  Unservable(i) = {}
<1>1. /\ i = Candidate /\ commitIndex[i] <= Len(log[i])
      /\ \A j \in Sibling(Candidate) : Peer(j)
  BY SoundFacts
<1>2. ASSUME NEW j \in NeedAppendEntry(i)
      PROVE  ~CannotAppend(i, j)
  <2>1. j \in Sibling(i) /\ j \in Node /\ link[i][j] = "up"
    BY DEF NeedAppendEntry, ConnectedSiblings, Sibling
  <2>2. nextIndex[i][j] >= 1 /\ nextIndex[i][j] <= Len(log[i]) + 1
    BY <1>1, <2>1 DEF Peer, NextIndexPositive, Sound, Linked
  <2>3. QED
    BY <1>1, <2>1, <2>2, AppendEntryRepeats DEF Sound
<1>3. QED
  BY <1>2 DEF Unservable

(* No node applies more than is committed, and no leader is asked for an    *)
(* entry it does not have: cron() never exits.                               *)
LEMMA CronNeverExits ==
  ASSUME Sound, NEW i \in Node, NEW received
  PROVE  /\ ~CronFlushExits(i, received) /\ ~CronLeadExits(i, received)
         /\ ~CronLeadStepsDown(i)
<1>1. ~(commitIndex[i] < lastApplied[i])
  BY SoundFacts
<1>2. QED
  BY <1>1, AllServable DEF CronFlushExits, CronLeadExits, CronLeadStepsDown

LEMMA CronStep ==
  ASSUME Sound, LogInv', Linked', NEW i \in Node, Cron(i)
  PROVE  ElectionInv'
BY CronReconnectStep, CronIdleStep, CronTimeoutStep, CronWinStep, CronLeadStep,
   CronNeverExits DEF Cron


-----------------------------------------------------------------------------
(* Append entries. *)

LEMMA AnswerCells ==
  ASSUME NEW M, NEW ch \in Channels(M), NEW i \in Node, NEW j \in Node, i # j,
         ch[j][i] # << >>, NEW m
  PROVE  /\ Answer(ch, i, j, m)[j][i] = Tail(ch[j][i])
         /\ Answer(ch, i, j, m)[i][j] = IF Ended(Tail(ch[j][i])) THEN ch[i][j]
                                        ELSE Append(ch[i][j], m)
         /\ \A a, b \in Node : ~(a = j /\ b = i) /\ ~(a = i /\ b = j) =>
                              Answer(ch, i, j, m)[a][b] = ch[a][b]
<1> DEFINE rest == Consume(ch, i, j)
<1>1. /\ rest \in Channels(M)
      /\ rest[j][i] = Tail(ch[j][i])
      /\ \A a, b \in Node : ~(a = j /\ b = i) => rest[a][b] = ch[a][b]
  BY ConsumeType, ConsumeFewer
<1>2. Answer(ch, i, j, m) = [rest EXCEPT ![i][j] = Post(rest, i, j, m)]
  BY DEF Answer
<1> HIDE DEF rest
<1>3. /\ Answer(ch, i, j, m)[i][j] = Post(rest, i, j, m)
      /\ \A a, b \in Node : ~(a = i /\ b = j) => Answer(ch, i, j, m)[a][b] = rest[a][b]
  BY <1>1, <1>2 DEF Channels
<1>4. QED
  BY <1>1, <1>3 DEF Post

(* Only the candidate has sent any, and every other node is a follower.      *)
LEMMA AppendEntryFrom ==
  ASSUME Sound, NEW i \in Node, NEW j \in Sibling(i), Receives(i, j, "appendentry")
  PROVE  /\ j = Candidate /\ i \in Sibling(Candidate) /\ role[i] = "F"
         /\ chan[Candidate][i] # << >> /\ Head(chan[Candidate][i]) = Received(i, j)
         /\ Received(i, j) \in Asks(i)
         /\ Received(i, j) \in AppendEntryMessage /\ FollowsPrev(Received(i, j))
         /\ AskSound(i)
         /\ role[Candidate] # "C" /\ spent.timeout[Candidate] # 0
<1> DEFINE q == chan[j][i]
           m == Received(i, j)
<1>1. /\ Candidate \in Node /\ AsksInv /\ j \in Node /\ i # j
      /\ i # Candidate => role[i] = "F"
  BY SoundFacts DEF Sibling
<1>2. q # << >> /\ m = Head(q) /\ m.type = "appendentry"
  BY DEF Receives, Received
<1>3. q \in Seq(SoundMessage)
  BY <1>1 DEF Sound, LogInv, Channels
<1> HIDE DEF q, m
<1>4. 1 \in DOMAIN q /\ m = q[1]
  BY <1>2, <1>3
<1>5. m \in OfType(q, "appendentry")
  BY <1>2, <1>4 DEF OfType
<1>6. j = Candidate
  BY <1>1, <1>5 DEF AsksInv, Sibling, q
<1>7. i \in Sibling(Candidate) /\ m \in Asks(i)
  BY <1>1, <1>5, <1>6 DEF Sibling, Asks, q
<1>8. m \in AppendEntryMessage /\ FollowsPrev(m)
  BY <1>1, <1>7, TrafficTypes DEF Sound
<1>9. AskSound(i)
  BY <1>7, AsksSound
<1>10. role[Candidate] # "C" /\ spent.timeout[Candidate] # 0
  BY <1>1, <1>5, <1>6 DEF Sound, ElectionInv, Quiet, q
<1>11. QED
  BY <1>1, <1>2, <1>6, <1>7, <1>8, <1>9, <1>10 DEF Sibling, q, m

(* A follower executes one and answers it.                                   *)
LEMMA FollowerStep ==
  ASSUME Sound, LogInv', NEW i \in Node, NEW j \in Sibling(i),
         Receives(i, j, "appendentry"), Follow(i, j, Received(i, j)),
         NEW success \in BOOLEAN,
         chan' = Answer(chan, i, j, ReplyAppendEntry(i, success)),
         NEW file, log' = [log EXCEPT ![i] = file], IsPrefixOf(file, log[Candidate]),
         NEW index, commitIndex' = [commitIndex EXCEPT ![i] = index],
         \A k \in Node : pfGood'[k],
         index \in Nat, commitIndex[i] <= index, index <= Len(file),
         UNCHANGED <<lastApplied, link, peerVars, spent>>,
         success =>
           /\ Received(i, j).entry.index = 0 => Len(file) = Received(i, j).prevLogIndex
           /\ Received(i, j).entry.index # 0 => Len(file) = Received(i, j).prevLogIndex + 1
           /\ index <= commitIndex[i] \/ index <= Received(i, j).leaderCommit,
         ~success =>
           /\ index = commitIndex[i]
           /\ Received(i, j).prevLogIndex # 0 =>
                file = log[i] /\ Len(log[i]) < Received(i, j).prevLogIndex
  PROVE  ElectionInv'
<1> DEFINE c == Candidate
           m == Received(i, j)
           r == ReplyAppendEntry(i, success)
<1>1. /\ c \in Node /\ j = c /\ i \in Sibling(c) /\ i # c /\ role[i] = "F"
      /\ chan[c][i] # << >> /\ Head(chan[c][i]) = m
      /\ m \in Asks(i) /\ m \in AppendEntryMessage
      /\ m.type = "appendentry"
      /\ AskSound(i) /\ role[c] # "C" /\ spent.timeout[c] # 0
      /\ RolesInv /\ FilesInv /\ AsksInv
      /\ \A k \in Node : /\ commitIndex[k] \in Nat /\ lastApplied[k] \in Nat
                         /\ lastApplied[k] <= commitIndex[k]
                         /\ commitIndex[k] <= Len(log[k])
  BY SoundFacts, AppendEntryFrom DEF Sibling, AppendEntryMessage
<1>2. /\ chan \in Channels(SoundMessage) /\ commitIndex \in [Node -> Nat]
      /\ log \in [Node -> Seq(Entry)] /\ role \in [Node -> {"F", "C", "L"}]
      /\ currentTerm \in [Node -> Nat]
  BY DEF Sound, LogInv, TypeOK
<1>3. \A k \in Node : /\ role'[k] = role[k]
                      /\ k # i => /\ currentTerm'[k] = currentTerm[k]
                                  /\ log'[k] = log[k] /\ commitIndex'[k] = commitIndex[k]
  BY <1>1, <1>2 DEF Follow, ToFollow
<1>4. log'[i] = file /\ commitIndex'[i] = index
  BY <1>2
<1>5. /\ chan'[c][i] = Tail(chan[c][i])
      /\ chan'[i][c] = IF Ended(Tail(chan[c][i])) THEN chan[i][c]
                       ELSE Append(chan[i][c], r)
      /\ \A a, b \in Node : ~(a = c /\ b = i) /\ ~(a = i /\ b = c) =>
                           chan'[a][b] = chan[a][b]
  BY <1>1, <1>2, AnswerCells, SMTT(30)
<1>6. r \in SoundMessage /\ r.type = "replyappendentry" /\ r.success = success
  <2>1. currentTerm'[i] \in Nat
    BY DEF LogInv, TypeOK
  <2>2. QED
    BY <2>1, ReplyMessages DEF ReplyAppendEntry
<1> HIDE DEF m, r
<1>7. RolesInv'
  BY <1>1, <1>3 DEF RolesInv
<1>8. FilesInv'
  BY <1>1, <1>3, <1>4 DEF FilesInv
<1>9. AppliedInv'
  <2>1. ASSUME NEW k \in Node
        PROVE  lastApplied'[k] <= commitIndex'[k] /\ commitIndex'[k] <= Len(log'[k])
    <3>1. CASE k = i
      <4>1. lastApplied[i] <= index
        BY <1>1
      <4>2. QED
        BY <1>4, <3>1, <4>1
    <3>2. CASE k # i
      BY <1>1, <1>3, <3>2
    <3>3. QED
      BY <3>1, <3>2
  <2>2. QED
    BY <2>1 DEF AppliedInv
<1>10. Asks(i)' = {} /\ AtMostOne(chan'[c][i], "appendentry")
  <2> DEFINE q == chan[c][i]
  <2>1. q \in Seq(SoundMessage) /\ q # << >> /\ Head(q) = m /\ AtMostOne(q, "appendentry")
    BY <1>1, <1>2 DEF AskSound, Channels
  <2> HIDE DEF q
  <2>2. OfType(Tail(q), "appendentry") = {} /\ Fewer(q, Tail(q))
    BY <1>1, <2>1, OfTypeTail
  <2>3. AtMostOne(Tail(q), "appendentry")
    BY <2>1, <2>2, FewerTypes DEF Appending
  <2>4. QED
    BY <1>5, <2>2, <2>3 DEF Asks, q
<1>11. AsksInv'
  <2>1. ASSUME NEW k \in Sibling(c), NEW b \in Node
        PROVE  OfType(chan'[k][b], "appendentry") = {}
    <3>1. OfType(chan[k][b], "appendentry") = {} /\ k \in Node /\ k # c
      BY <1>1 DEF AsksInv, Sibling
    <3>2. CASE k = i /\ b = c
      <4>1. chan[i][c] \in Seq(SoundMessage)
        BY <1>1, <1>2 DEF Channels
      <4>2. OfType(Append(chan[i][c], r), "appendentry") = OfType(chan[i][c], "appendentry")
        <5>1. r.type # "appendentry"
          BY <1>6
        <5>2. QED
          BY <1>6, <4>1, <5>1, OfTypeAppend
      <4>3. QED
        BY <1>5, <3>1, <3>2, <4>2
    <3>3. CASE ~(k = i /\ b = c)
      BY <1>5, <3>1, <3>3
    <3>4. QED
      BY <3>2, <3>3
  <2>2. ASSUME NEW k \in Sibling(c)
        PROVE  /\ AtMostOne(chan'[c][k], "appendentry")
               /\ \A x \in Asks(k)' : /\ Repeats(x, log'[c])
                                      /\ commitIndex'[k] <= x.prevLogIndex
                                      /\ commitIndex'[k] <= x.leaderCommit
    <3>1. CASE k = i
      BY <1>10, <3>1
    <3>2. CASE k # i
      <4>1. k \in Node /\ k # c
        BY DEF Sibling
      <4>2. chan'[c][k] = chan[c][k] /\ commitIndex'[k] = commitIndex[k] /\ log'[c] = log[c]
        BY <1>1, <1>3, <1>5, <3>2, <4>1
      <4>3. Asks(k)' = Asks(k)
        BY <4>2 DEF Asks
      <4>4. QED
        BY <1>1, <4>2, <4>3 DEF AsksInv
    <3>3. QED
      BY <3>1, <3>2
  <2>3. QED
    BY <2>1, <2>2 DEF AsksInv
<1>12. ASSUME role[c] = "L"
       PROVE  Leading'
  <2>1. \A k \in Sibling(c) : Peer(k)
    BY <1>12, SoundFacts
  <2>2. /\ \A k \in Sibling(c) : SameBook(k)
        /\ SameFile(c) /\ LeaderGrows
    BY <1>1, <1>2, <1>3 DEF SameBook, SameFile, LeaderGrows, peerVars
  <2>3. ASSUME NEW k \in Sibling(c), k # i
        PROVE  Peer(k)' /\ SafeKept(k)
    <3>1. k \in Node /\ k # c
      BY DEF Sibling
    <3>2. chan'[c][k] = chan[c][k] /\ chan'[k][c] = chan[k][c] /\ SameFile(k)
      BY <1>1, <1>3, <1>5, <2>3, <3>1 DEF SameFile
    <3>3. SameTraffic(k)
      BY <3>2, FewerTransitive DEF SameTraffic, Asks, Answers
    <3>4. QED
      BY <1>1, <2>1, <2>2, <3>2, <3>3, PeerSame DEF Sound
  <2>4. Peer(i)' /\ SafeKept(i)
    <3>1. ~Ended(Tail(chan[c][i]))
      <4>1. link[c][i] = "up" /\ ~Ended(chan[i][c])
        BY <1>1, <2>1 DEF Peer, Outstanding
      <4>2. c \in Connections(i)
        BY <1>1, <4>1, LinkLive DEF Sound
      <4>3. ~Ended(chan[c][i])
        BY <4>1, <4>2 DEF Connections
      <4> DEFINE q == chan[c][i]
      <4>4. q \in Seq(SoundMessage) /\ q # << >> /\ ~IsEof(Head(q))
        BY <1>1, <1>2 DEF Channels, IsEof
      <4> HIDE DEF q
      <4>5. Ended(Tail(q)) <=> Ended(q)
        BY <4>4, EndedTail
      <4>6. QED
        BY <4>3, <4>5 DEF q
    <3>2. chan'[i][c] = Append(chan[i][c], r)
      BY <1>5, <3>1
    <3>3. AnswerTells(i, m, r)
      BY <1>4, <1>6 DEF m, AnswerTells
    <3>4. QED
      <4>1. r.success \in BOOLEAN
        BY <1>6
      <4>2. Peer(i) /\ SameBook(i) /\ SameFile(c) /\ chan'[c][i] = Tail(chan[c][i])
        BY <1>1, <1>5, <2>1, <2>2
      <4>3. QED
        BY <1>1, <1>6, <3>2, <3>3, <4>1, <4>2, PeerAnswered DEF Sound
  <2>5. \A k \in Sibling(c) : Peer(k)' /\ SafeKept(k)
    BY <2>3, <2>4
  <2>6. commitIndex'[c] = commitIndex[c]
    BY <1>1, <1>3
  <2>7. QED
    BY <1>1, <1>12, <2>5, <2>6, LeadingKept DEF Sound, ElectionInv
<1>13. ~(spent'.timeout[c] = 0 \/ role'[c] = "C")
  BY <1>1, <1>3
<1>14. role'[c] = "L" => Leading'
  BY <1>1, <1>3, <1>12
<1>15. QED
  BY <1>7, <1>8, <1>9, <1>11, <1>13, <1>14 DEF ElectionInv


(* No append entry is refused, fails or ends the process.                    *)
LEMMA AppendEntryObeyedAlways ==
  ASSUME Sound, NEW i \in Node, NEW j \in Sibling(i), NEW received
  PROVE  /\ ~AppendEntryRefused(i, j) /\ ~AppendEntryFails(i, j)
         /\ ~AppendEntryExits(i, j, received)
<1>1. ~AppendEntryRefused(i, j)
  BY AppendEntryFrom DEF AppendEntryRefused, Obeys
<1>2. ~AppendEntryFails(i, j)
  BY SoundFacts DEF AppendEntryFails, PfGoodAfter
<1>3. ASSUME AppendEntryExits(i, j, received) PROVE FALSE
  <2> DEFINE m == Received(i, j)
             file == log[i]
             whole == log[Candidate]
  <2>1. /\ Receives(i, j, "appendentry") /\ ~Mismatch(file, m)
        /\ m.leaderCommit # 0 /\ AfterAppend(file, m) = << >>
    BY <1>3 DEF AppendEntryExits
  <2>2. /\ m \in AppendEntryMessage /\ FollowsPrev(m) /\ Repeats(m, whole)
    BY <2>1, AppendEntryFrom DEF AskSound
  <2>3. /\ file \in DenseFile /\ whole \in DenseFile /\ IsPrefixOf(file, whole)
        /\ \A p \in DOMAIN whole : whole[p].term >= 1
    BY SoundFacts, LogFiles DEF FilesInv, Sound
  <2>4. /\ m.prevLogIndex \in Nat /\ m.leaderCommit \in Nat
        /\ m.entry.index = 0 => m.leaderCommit <= m.prevLogIndex
    BY <2>2 DEF AppendEntryMessage, Repeats
  <2> HIDE DEF m, file, whole
  <2>5. /\ m.entry.index = 0 => Len(AfterAppend(file, m)) = m.prevLogIndex
        /\ m.entry.index # 0 => Len(AfterAppend(file, m)) = m.prevLogIndex + 1
    BY <2>1, <2>2, <2>3, AcceptedPrefix
  <2>6. Len(AfterAppend(file, m)) = 0
    BY <2>1
  <2>7. QED
    BY <2>1, <2>4, <2>5, <2>6
<1>4. QED
  BY <1>1, <1>2, <1>3

LEMMA AppendEntryMismatchStep ==
  ASSUME Sound, LogInv', NEW i \in Node, NEW j \in Sibling(i), AppendEntryMismatch(i, j)
  PROVE  ElectionInv'
<1> DEFINE m     == Received(i, j)
           file  == log[i]
           whole == log[Candidate]
           new   == AfterMismatch(file, m)
<1>1. /\ Receives(i, j, "appendentry") /\ Follow(i, j, m) /\ Mismatch(file, m)
      /\ chan' = Answer(chan, i, j, ReplyAppendEntry(i, FALSE))
      /\ log' = [log EXCEPT ![i] = new]
      /\ pfGood' = [pfGood EXCEPT ![i] = PfGoodAfter(i, new)]
      /\ UNCHANGED <<lastApplied, commitIndex, link, peerVars, spent>>
  BY DEF AppendEntryMismatch, indexVars
<1>2. /\ m \in AppendEntryMessage /\ Repeats(m, whole)
      /\ commitIndex[i] <= m.prevLogIndex
  BY <1>1, AppendEntryFrom DEF AskSound
<1>3. /\ file \in DenseFile /\ whole \in DenseFile /\ IsPrefixOf(file, whole)
      /\ \A k \in Node : pfGood[k]
      /\ commitIndex[i] \in Nat /\ commitIndex[i] <= Len(file)
  BY SoundFacts, LogFiles DEF FilesInv, Sound
<1>4. /\ m.prevLogIndex = 0 => new = << >>
      /\ m.prevLogIndex # 0 => new = file /\ Len(file) < m.prevLogIndex
  <2> HIDE DEF m, file, whole
  <2>1. QED
    BY <1>1, <1>2, <1>3, MismatchOfPrefix
<1>5. pfGood \in [Node -> BOOLEAN] /\ commitIndex \in [Node -> Nat]
  BY DEF Sound, LogInv, TypeOK
<1>6. \A k \in Node : pfGood'[k]
  <2>1. PfGoodAfter(i, new)
    BY <1>3 DEF PfGoodAfter
  <2> HIDE DEF new
  <2>2. QED
    BY <1>1, <1>3, <1>5, <2>1
<1>7. m.prevLogIndex \in Nat
  BY <1>2 DEF AppendEntryMessage
<1>8. IsPrefixOf(new, whole) /\ commitIndex[i] <= Len(new)
  <2>1. CASE m.prevLogIndex = 0
    <3>1. new = << >> /\ commitIndex[i] = 0
      BY <1>2, <1>3, <1>4, <2>1
    <3>2. Len(whole) \in Nat
      BY <1>3 DEF DenseFile
    <3> HIDE DEF whole, file
    <3>3. IsPrefixOf(<< >>, whole)
      BY <3>2 DEF IsPrefixOf
    <3>4. Len(<< >>) = 0
      OBVIOUS
    <3>5. QED
      BY <3>1, <3>3, <3>4
  <2>2. CASE m.prevLogIndex # 0
    BY <1>3, <1>4, <2>2
  <2>3. QED
    BY <2>1, <2>2
<1>9. commitIndex' = [commitIndex EXCEPT ![i] = commitIndex[i]]
  BY <1>1, <1>5
<1>10. FALSE \in BOOLEAN
  OBVIOUS
<1>11. /\ m.prevLogIndex # 0 => new = log[i] /\ Len(log[i]) < m.prevLogIndex
       /\ commitIndex[i] \in Nat /\ commitIndex[i] <= commitIndex[i]
  BY <1>3, <1>4
<1> DEFINE index == commitIndex[i]
<1>12. /\ IsPrefixOf(new, log[Candidate])
       /\ index \in Nat /\ commitIndex[i] <= index /\ index <= Len(new)
       /\ commitIndex' = [commitIndex EXCEPT ![i] = index] /\ index = commitIndex[i]
       /\ UNCHANGED <<lastApplied, link, peerVars, spent>>
  BY <1>1, <1>8, <1>9, <1>11
<1> HIDE DEF new, index
<1>13. QED
  BY <1>1, <1>6, <1>10, <1>11, <1>12, FollowerStep

LEMMA AppendEntryAcceptedStep ==
  ASSUME Sound, LogInv', NEW i \in Node, NEW j \in Sibling(i), AppendEntryAccepted(i, j)
  PROVE  ElectionInv'
<1> DEFINE m     == Received(i, j)
           file  == log[i]
           whole == log[Candidate]
           new   == AfterAppend(file, m)
           index == FollowedCommit(i, m)
<1>1. /\ Receives(i, j, "appendentry") /\ Follow(i, j, m) /\ ~Mismatch(file, m)
      /\ m.leaderCommit # 0 => new # << >>
      /\ chan' = Answer(chan, i, j, ReplyAppendEntry(i, TRUE))
      /\ log' = [log EXCEPT ![i] = new]
      /\ pfGood' = [pfGood EXCEPT ![i] = PfGoodAfter(i, CutAfterPrev(file, m))]
      /\ commitIndex' = [commitIndex EXCEPT ![i] = index]
      /\ UNCHANGED <<lastApplied, link, peerVars, spent>>
  BY DEF AppendEntryAccepted
<1>2. /\ m \in AppendEntryMessage /\ Repeats(m, whole) /\ FollowsPrev(m)
      /\ commitIndex[i] <= m.prevLogIndex /\ commitIndex[i] <= m.leaderCommit
  BY <1>1, AppendEntryFrom DEF AskSound
<1>3. /\ file \in DenseFile /\ whole \in DenseFile /\ IsPrefixOf(file, whole)
      /\ \A p \in DOMAIN whole : whole[p].term >= 1
      /\ \A k \in Node : pfGood[k]
      /\ commitIndex[i] \in Nat
  BY SoundFacts, LogFiles DEF FilesInv, Sound
<1>4. /\ IsPrefixOf(new, whole) /\ new \in DenseFile
      /\ m.entry.index = 0 => Len(new) = m.prevLogIndex
      /\ m.entry.index # 0 => Len(new) = m.prevLogIndex + 1
  <2> HIDE DEF m, file, whole
  <2>1. QED
    BY <1>1, <1>2, <1>3, AcceptedPrefix
<1>5. pfGood \in [Node -> BOOLEAN]
  BY DEF Sound, LogInv, TypeOK
<1>6. \A k \in Node : pfGood'[k]
  <2>1. PfGoodAfter(i, CutAfterPrev(file, m))
    BY <1>3 DEF PfGoodAfter
  <2>2. QED
    BY <1>1, <1>3, <1>5, <2>1
<1>7. m.prevLogIndex \in Nat /\ m.leaderCommit \in Nat /\ Len(new) \in Nat
  BY <1>2, <1>4 DEF AppendEntryMessage, DenseFile
<1>8. index = IF m.leaderCommit = 0 THEN commitIndex[i]
              ELSE Lesser(m.leaderCommit, Len(new))
  <2>1. m.leaderCommit # 0 => FindLastEntry(new).index = Len(new)
    BY <1>1, <1>4, FindLastEntryDense
  <2>2. QED
    BY <2>1 DEF FollowedCommit
<1> HIDE DEF new, index, m, file
<1>9. /\ index \in Nat /\ commitIndex[i] <= index /\ index <= Len(new)
      /\ index <= commitIndex[i] \/ index <= m.leaderCommit
  BY <1>2, <1>3, <1>4, <1>7, <1>8 DEF Lesser
<1>10. TRUE \in BOOLEAN
  OBVIOUS
<1>11. QED
  BY <1>1, <1>4, <1>6, <1>9, <1>10, FollowerStep DEF m

-----------------------------------------------------------------------------
(* Answers to an append entry.  *)

LEMMA ConsumeCells ==
  ASSUME Sound, NEW i \in Node, NEW j \in Sibling(i), NEW type, Receives(i, j, type),
         chan' = Consume(chan, i, j)
  PROVE  /\ Candidate \in Node /\ j \in Node /\ j # i
         /\ chan[j][i] # << >> /\ chan[j][i] \in Seq(SoundMessage)
         /\ Head(chan[j][i]) = Received(i, j) /\ Received(i, j).type = type
         /\ FewerAll(chan, chan')
         /\ type \notin Appending => AlikeAll(chan, chan')
         /\ chan'[j][i] = Tail(chan[j][i])
         /\ \A a, b \in Node : ~(a = j /\ b = i) => chan'[a][b] = chan[a][b]
<1>1. /\ Candidate \in Node /\ j \in Node /\ j # i /\ chan[j][i] # << >>
      /\ Head(chan[j][i]) = Received(i, j) /\ Received(i, j).type = type
  BY SoundFacts DEF Sibling, Receives, Received
<1>2. chan \in Channels(SoundMessage)
  BY DEF Sound, LogInv
<1>3. chan[j][i] \in Seq(SoundMessage)
  BY <1>1, <1>2 DEF Channels
<1>4. /\ FewerAll(chan, Consume(chan, i, j))
      /\ Head(chan[j][i]).type \notin Appending => AlikeAll(chan, Consume(chan, i, j))
      /\ Consume(chan, i, j)[j][i] = Tail(chan[j][i])
      /\ \A a, b \in Node : ~(a = j /\ b = i) => Consume(chan, i, j)[a][b] = chan[a][b]
  BY <1>1, <1>2, ConsumeFewer
<1>5. type \notin Appending => AlikeAll(chan, chan')
  BY <1>1, <1>4
<1>6. QED
  BY ONLY <1>1, <1>3, <1>4, <1>5, chan' = Consume(chan, i, j)

(* A message is consumed, nothing else changes but the role and the term.    *)
LEMMA ConsumeStep ==
  ASSUME Sound, LogInv', NEW i \in Node, NEW j \in Sibling(i), NEW type,
         Receives(i, j, type), type # "eof", chan' = Consume(chan, i, j),
         UNCHANGED <<log, pfGood, commitIndex, lastApplied, peerVars, spent>>,
         \A k \in Node : role'[k] \in {role[k], "F"},
         role'[Candidate] # "F" => currentTerm'[Candidate] = currentTerm[Candidate],
         \A k \in Sibling(Candidate) : SameBook(k),
         type = "appendentry" => FALSE,
         type = "replyappendentry" => ~(i = Candidate /\ role'[Candidate] = "L")
  PROVE  ElectionInv'
<1>1. /\ Candidate \in Node /\ j \in Node /\ j # i
      /\ chan[j][i] # << >> /\ chan[j][i] \in Seq(SoundMessage)
      /\ Head(chan[j][i]) = Received(i, j) /\ Received(i, j).type = type
      /\ FewerAll(chan, chan')
      /\ chan'[j][i] = Tail(chan[j][i])
      /\ \A a, b \in Node : ~(a = j /\ b = i) => chan'[a][b] = chan[a][b]
  BY ConsumeCells
<1>2. /\ \A k \in Node : /\ commitIndex[k] \in Nat /\ lastApplied[k] <= commitIndex[k]
                         /\ pfGood[k]
      /\ currentTerm[Candidate] \in Nat
  BY <1>1, SoundFacts DEF Sound, LogInv, TypeOK
<1>3. Calm
  BY <1>1, <1>2 DEF Calm
<1>4. ASSUME role'[Candidate] = "L", NEW k \in Sibling(Candidate)
      PROVE  SameTraffic(k)
  <2> DEFINE q == chan[j][i]
  <2>1. /\ Fewer(q, Tail(q)) /\ (Ended(Tail(q)) <=> Ended(q))
        /\ \A t : t # type => OfType(Tail(q), t) = OfType(q, t)
    <3>1. /\ q \in Seq(SoundMessage) /\ q # << >> /\ ~IsEof(Head(q)) /\ Head(q).type = type
      BY <1>1 DEF IsEof
    <3> HIDE DEF q
    <3>2. QED
      BY <3>1, OfTypeTail, EndedTail
  <2>2. k \in Node
    BY DEF Sibling
  <2>3. Asks(k)' = Asks(k)
    <3>1. OfType(chan'[Candidate][k], "appendentry") = OfType(chan[Candidate][k], "appendentry")
      BY <1>1, <2>1, <2>2
    <3>2. QED
      BY <3>1 DEF Asks
  <2>4. Answers(k)' = Answers(k)
    <3>1. OfType(chan'[k][Candidate], "replyappendentry")
            = OfType(chan[k][Candidate], "replyappendentry")
      BY <1>1, <1>4, <2>1, <2>2
    <3>2. QED
      BY <3>1 DEF Answers
  <2>5. /\ Fewer(chan[k][Candidate], chan'[k][Candidate])
        /\ Ended(chan'[k][Candidate]) <=> Ended(chan[k][Candidate])
    BY <1>1, <2>1, <2>2, FewerTransitive
  <2>6. QED
    BY <2>3, <2>4, <2>5 DEF SameTraffic
<1>5. QED
  BY <1>3, <1>4, LikeStep DEF Sound

LEMMA ReplyAppendEntryIgnoredStep ==
  ASSUME Sound, LogInv', NEW i \in Node, NEW j \in Sibling(i),
         ReplyAppendEntryIgnored(i, j) \/ ReplyAppendEntryHigherTerm(i, j)
  PROVE  ElectionInv'
<1>1. /\ Receives(i, j, "replyappendentry") /\ chan' = Consume(chan, i, j)
      /\ UNCHANGED <<log, pfGood, commitIndex, lastApplied, link, peerVars, spent>>
  BY DEF ReplyAppendEntryIgnored, ReplyAppendEntryHigherTerm, indexVars, fileVars
<1>2. \A k \in Sibling(Candidate) : SameBook(k)
  BY <1>1 DEF SameBook, peerVars
<1>3. role \in [Node -> {"F", "C", "L"}] /\ currentTerm \in [Node -> Nat]
      /\ Candidate \in Node /\ \A k \in Node : k # Candidate => role[k] = "F"
  BY SoundFacts DEF Sound, LogInv, TypeOK
<1>4. /\ \A k \in Node : role'[k] \in {role[k], "F"}
      /\ role'[Candidate] # "F" => currentTerm'[Candidate] = currentTerm[Candidate]
      /\ ~(i = Candidate /\ role'[Candidate] = "L")
  <2>1. CASE ReplyAppendEntryIgnored(i, j)
    BY <2>1 DEF ReplyAppendEntryIgnored, clusterVars
  <2>2. CASE ReplyAppendEntryHigherTerm(i, j)
    BY <1>3, <2>2 DEF ReplyAppendEntryHigherTerm, ToFollow
  <2>3. QED
    BY <2>1, <2>2
<1>5. QED
  BY <1>1, <1>2, <1>4, ConsumeStep

LEMMA SafeBelowNext ==
  ASSUME LogInv', Candidate \in Node, NEW j \in Node, NEW p \in Nat, NEW q \in Nat,
         p <= q, SafeAt(j, q)'
  PROVE  SafeAt(j, p)'
<1>1. PeerTyped(j)'
  BY PeerTypes
<1>2. \A r \in Answers(j)' : r.success \in BOOLEAN
  <2>1. chan'[j][Candidate] \in Seq(SoundMessage)
    BY <1>1 DEF PeerTyped
  <2>2. QED
    BY <2>1 DEF Answers, OfType, SoundMessage, Message
<1>3. \A r \in Answers(j)' : NextAfter(j, r)' \in Nat
  BY <1>1, <1>2, SMTT(30) DEF NextAfter, Decreased, PeerTyped
<1>4. QED
  BY <1>1, <1>3, SMTT(30) DEF SafeAt, PeerTyped

(* The leader executes the answer of j; what it commits is in a majority of  *)
(* the files.                                                                *)
LEMMA LeaderReplied ==
  ASSUME Sound, LogInv', NEW j \in Sibling(Candidate),
         Receives(Candidate, j, "replyappendentry"), role[Candidate] = "L",
         chan' = Consume(chan, Candidate, j),
         UNCHANGED <<log, pfGood, link, emptyAppendEntry, role, currentTerm, spent,
                     lastApplied>>,
         alreadyAppendEntry' = Set(alreadyAppendEntry, Candidate, {j}, FALSE),
         nextIndex' = [nextIndex EXCEPT
                         ![Candidate][j] = NextAfter(j, Received(Candidate, j))],
         NEW match, matchIndex' = [matchIndex EXCEPT ![Candidate][j] = match],
         \/ match = matchIndex[Candidate][j]
         \/ /\ Received(Candidate, j).success /\ ~emptyAppendEntry[Candidate][j]
            /\ match = nextIndex[Candidate][j],
         NEW index, commitIndex' = [commitIndex EXCEPT ![Candidate] = index],
         \/ index = commitIndex[Candidate]
         \/ /\ Received(Candidate, j).success /\ ~emptyAppendEntry[Candidate][j]
            /\ index = nextIndex[Candidate][j] /\ index > commitIndex[Candidate]
            /\ 2 * Cardinality({k \in Node : k = Candidate \/ matchIndex'[Candidate][k] >= index})
                 > Cardinality(Node)
  PROVE  ElectionInv'
<1> DEFINE c == Candidate
           r == Received(c, j)
<1>1. /\ c \in Node /\ j \in Node /\ j # c /\ AsksInv /\ FilesInv
      /\ \A k \in Node : /\ commitIndex[k] \in Nat /\ lastApplied[k] \in Nat
                         /\ lastApplied[k] <= commitIndex[k] /\ commitIndex[k] <= Len(log[k])
      /\ \A k \in Sibling(c) : Peer(k)
  BY SoundFacts DEF Sibling
<1>2. /\ \A k \in Node : Len(log[k]) \in Nat /\ Len(log[k]) <= Len(log[c])
      /\ \A k \in Node : PeerTyped(k) /\ PeerTyped(k)'
  BY <1>1, PeerTypes DEF PeerTyped, Sound, FilesInv, IsPrefixOf
<1>3. /\ chan[j][c] # << >> /\ Head(chan[j][c]) = r /\ r.type = "replyappendentry"
      /\ FewerAll(chan, chan') /\ chan'[j][c] = Tail(chan[j][c])
      /\ \A a, b \in Node : ~(a = j /\ b = c) => chan'[a][b] = chan[a][b]
  BY <1>1, ConsumeCells
<1>4. /\ link' = link /\ emptyAppendEntry' = emptyAppendEntry /\ log' = log
      /\ pfGood' = pfGood /\ lastApplied' = lastApplied
  OBVIOUS
<1>5. /\ nextIndex \in Table(Nat) /\ matchIndex \in Table(Nat)
      /\ alreadyAppendEntry \in Table(BOOLEAN) /\ commitIndex \in [Node -> Nat]
  BY DEF Sound, LogInv, TypeOK, Table
<1>6. ~alreadyAppendEntry'[c][j]
      /\ \A k \in Node \ {j} : alreadyAppendEntry'[c][k] <=> alreadyAppendEntry[c][k]
  <2>1. alreadyAppendEntry' = Set(alreadyAppendEntry, c, {j}, FALSE)
    OBVIOUS
  <2>2. alreadyAppendEntry \in Table(BOOLEAN) /\ c \in Node /\ j \in Node
    BY <1>1, <1>5
  <2>3. QED
    BY ONLY <2>1, <2>2, Zenon DEF Set, Table
<1>7. /\ nextIndex'[c][j] = NextAfter(j, r)
      /\ \A k \in Node \ {j} : nextIndex'[c][k] = nextIndex[c][k]
  BY <1>1, <1>5 DEF Table
<1>8. /\ matchIndex'[c][j] = match
      /\ \A k \in Node \ {j} : matchIndex'[c][k] = matchIndex[c][k]
  BY <1>1, <1>5 DEF Table
<1>9. \/ index = commitIndex[c]
      \/ r.success /\ ~emptyAppendEntry[c][j] /\ index = nextIndex[c][j]
         /\ index > commitIndex[c]
  OBVIOUS
<1>10. index \in Nat /\ commitIndex[c] <= index
  <2>1. nextIndex[c][j] \in Nat
    BY <1>1, <1>5 DEF Table
  <2> HIDE DEF c, r
  <2>2. QED
    BY <1>1, <1>9, <2>1
<1>11. /\ commitIndex'[c] = index /\ \A k \in Sibling(c) : commitIndex'[k] = commitIndex[k]
  BY <1>1, <1>5 DEF Sibling
<1>12. LeaderGrows
  BY <1>2, <1>1, <1>4, <1>10, <1>11 DEF LeaderGrows
<1>13. /\ Peer(j)' /\ SafeKept(j)
       /\ r.success /\ ~emptyAppendEntry[c][j] => nextIndex[c][j] <= Len(log[c])
  <2>1. SameFile(j) /\ Len(log[j]) <= Len(log[c])
    BY <1>1, <1>2, <1>4, <1>11 DEF SameFile
  <2>2. chan'[c][j] = chan[c][j]
    BY <1>1, <1>3
  <2>3. alreadyAppendEntry'[c][j] = FALSE
    <3>1. alreadyAppendEntry' \in Table(BOOLEAN)
      BY DEF LogInv, TypeOK, Table
    <3>2. QED
      BY <1>1, <1>6, <3>1 DEF Table
  <2>4. \/ matchIndex'[c][j] = matchIndex[c][j]
        \/ r.success /\ ~emptyAppendEntry[c][j] /\ matchIndex'[c][j] = nextIndex[c][j]
    BY <1>8
  <2>5. link'[c][j] = link[c][j] /\ Peer(j)
    BY <1>1, <1>4
  <2>6. QED
    BY <1>1, <1>3, <1>4, <1>7, <1>12, <2>1, <2>2, <2>3, <2>4, <2>5, PeerReplied DEF Sound
<1>14. ASSUME NEW k \in Sibling(c)
       PROVE  Peer(k)' /\ SafeKept(k)
  <2>1. CASE k = j
    BY <1>13, <2>1
  <2>2. CASE k # j
    <3>1. k \in Node /\ k # c /\ k \in Node \ {j} /\ Peer(k)
      BY <1>1, <2>2 DEF Sibling
    <3>2. chan'[c][k] = chan[c][k] /\ chan'[k][c] = chan[k][c]
      BY <1>1, <1>3, <2>2, <3>1
    <3>3. SameTraffic(k)
      BY <3>2, FewerTransitive DEF SameTraffic, Asks, Answers
    <3>4. SameBook(k)
      BY <1>4, <1>6, <1>7, <1>8, <3>1 DEF SameBook
    <3>5. SameFile(k)
      BY <1>4, <1>11 DEF SameFile
    <3>6. QED
      BY <1>1, <1>12, <3>1, <3>3, <3>4, <3>5, PeerSame DEF Sound
  <2>3. QED
    BY <2>1, <2>2
<1>15. index <= Len(log[c])
  BY <1>1, <1>9, <1>13
<1>16. FilesInv'
  BY <1>1, <1>4 DEF FilesInv
<1>17. AppliedInv'
  <2>1. \A k \in Node : lastApplied[k] <= commitIndex'[k] /\ commitIndex'[k] <= Len(log[k])
    BY <1>1, <1>10, <1>11, <1>15 DEF Sibling
  <2>2. QED
    BY <1>4, <2>1 DEF AppliedInv
<1>18. AsksInv'
  <2>1. \A a, b \in Node :
          /\ OfType(chan'[a][b], "appendentry") \subseteq OfType(chan[a][b], "appendentry")
          /\ AtMostOne(chan[a][b], "appendentry") => AtMostOne(chan'[a][b], "appendentry")
    BY <1>3, FewerChannels
  <2>2. \A k \in Sibling(c) : k \in Node /\ commitIndex'[k] = commitIndex[k]
                              /\ Asks(k)' \subseteq Asks(k)
    BY <1>1, <1>11, <2>1 DEF Sibling, Asks
  <2>3. \A a \in Sibling(c), b \in Node : OfType(chan'[a][b], "appendentry") = {}
    <3>1. ASSUME NEW a \in Sibling(c), NEW b \in Node
          PROVE  OfType(chan'[a][b], "appendentry") \subseteq {}
      <4>1. a \in Node /\ OfType(chan[a][b], "appendentry") = {}
        BY <1>1, <2>2 DEF AsksInv
      <4>2. QED
        BY <2>1, <4>1
    <3>2. QED
      BY <3>1
  <2>4. \A k \in Sibling(c) : AtMostOne(chan'[c][k], "appendentry")
    BY <1>1, <2>1, <2>2 DEF AsksInv
  <2>5. \A k \in Sibling(c) : \A m \in Asks(k)' :
          /\ Repeats(m, log'[c])
          /\ commitIndex'[k] <= m.prevLogIndex /\ commitIndex'[k] <= m.leaderCommit
    BY <1>1, <1>4, <2>2 DEF AsksInv
  <2>6. QED
    BY <2>3, <2>4, <2>5 DEF AsksInv
<1>19. ASSUME NEW p \in 1 .. index
       PROVE  2 * Cardinality(Safe(p)') > Cardinality(Node)
  <2>1. p \in Nat
    OBVIOUS
  <2>2. CASE p <= commitIndex[c]
    <3>1. 2 * Cardinality(Safe(p)) > Cardinality(Node)
      <4>1. p \in 1 .. commitIndex[c]
        BY <1>1, <2>2
      <4>2. QED
        BY <4>1 DEF Sound, ElectionInv, Leading
    <3>2. \A k \in Node : k # c /\ SafeAt(k, p) => SafeAt(k, p)'
      BY <1>14, <2>1, <2>2 DEF SafeKept, Sibling
    <3>3. /\ Safe(p) \in SUBSET Node /\ Safe(p)' \in SUBSET Node
          /\ Safe(p) \subseteq Safe(p)'
      BY <3>2 DEF Safe
    <3>4. QED
      BY <3>1, <3>3, MajorityKept
  <2>3. CASE ~(p <= commitIndex[c])
    <3> DEFINE S == {k \in Node : k = c \/ matchIndex'[c][k] >= index}
    <3>1. 2 * Cardinality(S) > Cardinality(Node)
      BY <1>9, <1>10, <2>3
    <3>2. \A k \in S : k = c \/ SafeAt(k, p)'
      <4>1. ASSUME NEW k \in S, k # c
            PROVE  SafeAt(k, p)'
        <5>1. k \in Node /\ k \in Sibling(c) /\ matchIndex'[c][k] >= index
          BY <4>1 DEF Sibling
        <5>2. matchIndex'[c][k] \in Nat
          <6>1. matchIndex' \in Table(Nat)
            BY DEF LogInv, TypeOK, Table
          <6>2. QED
            BY <1>1, <5>1, <6>1 DEF Table
        <5>3. PICK q \in Nat : q = matchIndex'[c][k]
          BY <5>2
        <5>4. p <= q
          BY <1>10, <2>1, <5>1, <5>3
        <5>5. Peer(k)'
          BY <1>14, <5>1
        <5>6. SafeAt(k, q)'
          BY <5>3, <5>5 DEF Peer, SafeAt
        <5>7. QED
          BY <1>1, <2>1, <5>1, <5>4, <5>6, SafeBelowNext
      <4>2. QED
        BY <4>1
    <3>3. /\ S \in SUBSET Node /\ Safe(p)' \in SUBSET Node /\ S \subseteq Safe(p)'
      BY <3>2 DEF Safe
    <3> HIDE DEF S
    <3>4. QED
      BY <3>1, <3>3, MajorityKept
  <2>4. QED
    BY <2>2, <2>3
<1>20. Leading'
  BY <1>11, <1>14, <1>19 DEF Leading
<1>21. QED
  BY <1>16, <1>17, <1>18, <1>20, LeaderStays

LEMMA ReplyAppendEntryFalseStep ==
  ASSUME Sound, LogInv', NEW i \in Node, NEW j \in Sibling(i),
         ReplyAppendEntryFalse(i, j) \/ ReplyAppendEntryEmpty(i, j)
  PROVE  ElectionInv'
<1> DEFINE r == Received(i, j)
<1>1. /\ Receives(i, j, "replyappendentry") /\ role[i] = "L"
      /\ chan' = Consume(chan, i, j)
      /\ UNCHANGED <<log, pfGood, link, emptyAppendEntry, role, currentTerm, spent,
                     lastApplied, matchIndex, commitIndex>>
      /\ alreadyAppendEntry' = Set(alreadyAppendEntry, i, {j}, FALSE)
  BY DEF ReplyAppendEntryFalse, ReplyAppendEntryEmpty, clusterVars, indexVars, fileVars
<1>2. i = Candidate /\ j \in Node
  BY <1>1, SoundFacts DEF Sibling
<1>3. nextIndex' = [nextIndex EXCEPT ![i][j] = NextAfter(j, r)]
  <2>1. CASE ReplyAppendEntryFalse(i, j)
    BY <1>2, <2>1 DEF ReplyAppendEntryFalse, NextAfter
  <2>2. CASE ReplyAppendEntryEmpty(i, j)
    <3>1. nextIndex' = nextIndex /\ NextAfter(j, r) = nextIndex[i][j]
      BY <1>2, <2>2 DEF ReplyAppendEntryEmpty, NextAfter
    <3>2. nextIndex \in Table(Nat)
      BY DEF Sound, LogInv, TypeOK, Table
    <3>3. QED
      BY <3>1, <3>2 DEF Table
  <2>3. QED
    BY <2>1, <2>2
<1>4. /\ matchIndex' = [matchIndex EXCEPT ![i][j] = matchIndex[i][j]]
      /\ commitIndex' = [commitIndex EXCEPT ![i] = commitIndex[i]]
  <2>1. matchIndex \in Table(Nat) /\ commitIndex \in [Node -> Nat]
    BY DEF Sound, LogInv, TypeOK, Table
  <2>2. QED
    BY <1>1, <2>1 DEF Table
<1> DEFINE match == matchIndex[i][j]
           index == commitIndex[i]
<1>5. /\ matchIndex' = [matchIndex EXCEPT ![i][j] = match] /\ match = matchIndex[i][j]
      /\ commitIndex' = [commitIndex EXCEPT ![i] = index] /\ index = commitIndex[i]
  BY <1>4
<1> HIDE DEF match, index
<1>6. QED
  BY <1>1, <1>2, <1>3, <1>5, LeaderReplied

(* A commit counts the leader and the siblings whose matchIndex reaches the  *)
(* entry: HalfNumber of them are a majority.                                 *)
LEMMA HalfIsMajority ==
  ASSUME NEW i \in Node, NEW S \in SUBSET Sibling(i), 1 + Cardinality(S) >= HalfNumber
  PROVE  2 * Cardinality({k \in Node : k = i \/ k \in S}) > Cardinality(Node)
<1>1. IsFiniteSet(Node)
  BY IdAssumption, FS_Interval DEF Node
<1>2. IsFiniteSet(S) /\ i \notin S
  BY <1>1, FS_Subset DEF Sibling
<1>3. {k \in Node : k = i \/ k \in S} = S \cup {i}
  BY DEF Sibling
<1>4. Cardinality(S \cup {i}) = Cardinality(S) + 1
  BY <1>2, FS_AddElement
<1>5. Cardinality(S) \in Nat /\ Cardinality(Node) \in Nat
  BY <1>1, <1>2, FS_CardinalityType
<1> DEFINE s == Cardinality(S)
           n == Cardinality(Node)
<1>6. 1 + s >= n \div 2 + 1 /\ s \in Nat /\ n \in Nat
  BY <1>5 DEF HalfNumber
<1> HIDE DEF s, n
<1>7. 2 * (s + 1) > n
  BY <1>6
<1>8. QED
  BY <1>3, <1>4, <1>7 DEF s, n

LEMMA ReplyAppendEntryTrueStep ==
  ASSUME Sound, LogInv', NEW i \in Node, NEW j \in Sibling(i), ReplyAppendEntryTrue(i, j)
  PROVE  ElectionInv'
<1> DEFINE r       == Received(i, j)
           match   == nextIndex[i][j]
           matched == {k \in Sibling(i) : k = j \/ matchIndex[i][k] >= match}
           index   == CheckIfEntryCouldCommit(i, match, matched)
<1>1. /\ Receives(i, j, "replyappendentry") /\ role[i] = "L"
      /\ r.success /\ ~emptyAppendEntry[i][j]
      /\ chan' = Consume(chan, i, j)
      /\ UNCHANGED <<log, pfGood, link, emptyAppendEntry, role, currentTerm, spent,
                     lastApplied>>
      /\ alreadyAppendEntry' = Set(alreadyAppendEntry, i, {j}, FALSE)
      /\ nextIndex' = [nextIndex EXCEPT ![i][j] = match + 1]
      /\ matchIndex' = [matchIndex EXCEPT ![i][j] = match]
      /\ commitIndex' = [commitIndex EXCEPT ![i] = index]
  BY DEF ReplyAppendEntryTrue, clusterVars, fileVars
<1>2. i = Candidate /\ j \in Node /\ j # i
  BY <1>1, SoundFacts DEF Sibling
<1>3. match + 1 = NextAfter(j, r)
  BY <1>1, <1>2 DEF NextAfter
<1>4. matchIndex \in Table(Nat) /\ matchIndex' \in Table(Nat) /\ match \in Nat
  <2>1. matchIndex \in Table(Nat) /\ nextIndex \in Table(Nat)
    BY DEF Sound, LogInv, TypeOK, Table
  <2>2. matchIndex' \in Table(Nat)
    BY DEF LogInv, TypeOK, Table
  <2>3. QED
    BY <1>2, <2>1, <2>2 DEF Table
<1>5. \/ index = commitIndex[i]
      \/ index = match /\ index > commitIndex[i] /\ 1 + Cardinality(matched) >= HalfNumber
  <2> HIDE DEF matched, match
  <2>1. QED
    BY DEF CheckIfEntryCouldCommit
<1>6. {k \in Node : k = i \/ matchIndex'[i][k] >= match}
        = {k \in Node : k = i \/ k \in matched}
  <2> HIDE DEF match
  <2>1. /\ matchIndex'[i][j] = match
        /\ \A k \in Node \ {j} : matchIndex'[i][k] = matchIndex[i][k]
    BY <1>1, <1>2, <1>4 DEF Table
  <2>2. match >= match
    BY <1>4
  <2>3. \A k \in Node : k # i => (k \in matched <=> matchIndex'[i][k] >= match)
    BY <1>2, <2>1, <2>2 DEF Sibling
  <2> HIDE DEF matched
  <2>4. QED
    BY <2>3
<1>7. matched \in SUBSET Sibling(i)
  OBVIOUS
<1> HIDE DEF matched, match
<1>8. ASSUME 1 + Cardinality(matched) >= HalfNumber
      PROVE  2 * Cardinality({k \in Node : k = i \/ matchIndex'[i][k] >= match})
               > Cardinality(Node)
  BY <1>6, <1>7, <1>8, HalfIsMajority
<1>9. \/ index = commitIndex[i]
      \/ /\ index = match /\ index > commitIndex[i]
         /\ 2 * Cardinality({k \in Node : k = i \/ matchIndex'[i][k] >= index})
              > Cardinality(Node)
  <2> HIDE DEF index
  <2>1. QED
    BY <1>5, <1>8
<1> HIDE DEF index
<1>10. nextIndex' = [nextIndex EXCEPT ![i][j] = NextAfter(j, r)]
  BY <1>1, <1>3
<1>11. match = nextIndex[i][j]
  BY DEF match
<1>12. /\ Receives(Candidate, j, "replyappendentry") /\ role[Candidate] = "L"
       /\ chan' = Consume(chan, Candidate, j) /\ j \in Sibling(Candidate)
       /\ UNCHANGED <<log, pfGood, link, emptyAppendEntry, role, currentTerm, spent,
                      lastApplied>>
       /\ alreadyAppendEntry' = Set(alreadyAppendEntry, Candidate, {j}, FALSE)
       /\ matchIndex' = [matchIndex EXCEPT ![Candidate][j] = match]
       /\ commitIndex' = [commitIndex EXCEPT ![Candidate] = index]
  BY <1>1, <1>2
<1>13. nextIndex' = [nextIndex EXCEPT
                       ![Candidate][j] = NextAfter(j, Received(Candidate, j))]
  BY <1>2, <1>10
<1>14. /\ Received(Candidate, j).success /\ ~emptyAppendEntry[Candidate][j]
       /\ match = nextIndex[Candidate][j]
  BY <1>1, <1>2, <1>11
<1>15. \/ index = commitIndex[Candidate]
       \/ /\ Received(Candidate, j).success /\ ~emptyAppendEntry[Candidate][j]
          /\ index = nextIndex[Candidate][j] /\ index > commitIndex[Candidate]
          /\ 2 * Cardinality({k \in Node : k = Candidate \/ matchIndex'[Candidate][k] >= index})
               > Cardinality(Node)
  BY <1>2, <1>9, <1>14
<1>16. QED
  BY <1>12, <1>13, <1>14, <1>15, LeaderReplied

-----------------------------------------------------------------------------
(* Votes. *)

LEMMA RequestVoteFewer ==
  ASSUME Sound, NEW i \in Node, NEW j \in Sibling(i), HandleRequestVote(i, j)
  PROVE  /\ AlikeAll(chan, chan') /\ FewerAll(chan, chan')
         /\ \A a, b \in Node : Ended(chan'[a][b]) <=> Ended(chan[a][b])
<1> DEFINE m     == Received(i, j)
           term  == IF m.term > currentTerm[i] THEN m.term ELSE currentTerm[i]
           reply == [type |-> "replyrequestvote", term |-> term,
                     success |-> Grants(i, m)]
<1>1. Receives(i, j, "requestvote") /\ chan' = Answer(chan, i, j, reply)
  BY DEF HandleRequestVote
<1>2. /\ j \in Node /\ i # j /\ chan[j][i] # << >> /\ m.term \in Nat
      /\ Head(chan[j][i]).type \notin Appending \cup {"eof"}
  <2>1. j \in Node /\ i # j /\ chan[j][i] # << >> /\ Received(i, j).type = "requestvote"
    BY <1>1 DEF Receives, Sibling
  <2>2. Received(i, j).term \in Nat
    BY <1>1, <2>1, ReceivedMessage DEF Sound
  <2>3. QED
    BY <2>1, <2>2 DEF Received, Appending
<1>3. currentTerm \in [Node -> Nat] /\ chan \in Channels(SoundMessage)
  BY DEF Sound, LogInv, TypeOK
<1>4. term \in Nat /\ Grants(i, m) \in BOOLEAN
  BY <1>2, <1>3 DEF Grants
<1>5. reply \in SoundMessage /\ reply.type \notin Appending \cup {"eof"}
  BY <1>4, ReplyMessages DEF Appending
<1> HIDE DEF reply
<1>6. /\ AlikeAll(chan, chan')
      /\ \A a, b \in Node : Ended(chan'[a][b]) <=> Ended(chan[a][b])
  BY <1>1, <1>2, <1>3, <1>5, AnswerAlike
<1>7. QED
  BY <1>6, AlikeFewer

LEMMA HandleRequestVoteStep ==
  ASSUME Sound, LogInv', NEW i \in Node, NEW j \in Sibling(i), HandleRequestVote(i, j)
  PROVE  ElectionInv'
<1> DEFINE m    == Received(i, j)
           term == IF m.term > currentTerm[i] THEN m.term ELSE currentTerm[i]
<1>1. /\ Receives(i, j, "requestvote")
      /\ role' = [role EXCEPT ![i] = IF m.term > currentTerm[i] THEN "F" ELSE @]
      /\ currentTerm' = [currentTerm EXCEPT ![i] = term]
      /\ UNCHANGED <<log, pfGood, commitIndex, lastApplied, link, peerVars, spent>>
  BY DEF HandleRequestVote, indexVars, fileVars
<1>2. j \in Node /\ chan[j][i] # << >>
  BY <1>1 DEF Receives, Sibling
<1>3. m.term \in Nat
  BY <1>1, <1>2, ReceivedMessage DEF Sound
<1>4. role \in [Node -> {"F", "C", "L"}] /\ currentTerm \in [Node -> Nat]
  BY DEF Sound, LogInv, TypeOK
<1>5. term \in Nat /\ currentTerm[i] <= term
  BY <1>3, <1>4
<1>6. \A k \in Node : /\ role'[k] \in {role[k], "F"} /\ currentTerm'[k] >= currentTerm[k]
  BY <1>1, <1>4, <1>5
<1>7. /\ AlikeAll(chan, chan')
      /\ \A a, b \in Node : Ended(chan'[a][b]) <=> Ended(chan[a][b])
  BY RequestVoteFewer
<1>8. /\ Candidate \in Node
      /\ \A k \in Node : commitIndex[k] \in Nat /\ lastApplied[k] <= commitIndex[k] /\ pfGood[k]
  BY SoundFacts
<1>9. Calm
  BY <1>1, <1>6, <1>7, <1>8, AlikeFewer DEF Calm
<1>10. ASSUME NEW k \in Sibling(Candidate) PROVE SameTraffic(k) /\ SameBook(k)
  BY <1>1, <1>7, <1>8, AlikeTraffic DEF SameBook, peerVars, Sibling
<1>11. QED
  BY <1>1, <1>9, <1>10, LikeStep DEF Sound

LEMMA ReplyRequestVoteNoVoteStep ==
  ASSUME Sound, LogInv', NEW i \in Node, NEW j \in Sibling(i), ReplyRequestVoteNoVote(i, j)
  PROVE  ElectionInv'
<1>1. /\ Receives(i, j, "replyrequestvote") /\ chan' = Consume(chan, i, j)
      /\ UNCHANGED <<log, pfGood, commitIndex, lastApplied, link, peerVars, spent>>
  BY DEF ReplyRequestVoteNoVote, indexVars, fileVars
<1>2. \A k \in Sibling(Candidate) : SameBook(k)
  BY <1>1 DEF SameBook, peerVars
<1>3. role \in [Node -> {"F", "C", "L"}] /\ currentTerm \in [Node -> Nat]
      /\ Candidate \in Node
  BY SoundFacts DEF Sound, LogInv, TypeOK
<1>4. \/ role' = role /\ currentTerm' = currentTerm
      \/ role' = [role EXCEPT ![i] = "F"]
         /\ currentTerm' = [currentTerm EXCEPT ![i] = Received(i, j).term]
  BY DEF ReplyRequestVoteNoVote, ToFollow
<1>5. /\ \A k \in Node : role'[k] \in {role[k], "F"}
      /\ role'[Candidate] # "F" => currentTerm'[Candidate] = currentTerm[Candidate]
  BY <1>3, <1>4
<1>6. QED
  BY <1>1, <1>2, <1>5, ConsumeStep

LEMMA ReplyRequestVoteCountsStep ==
  ASSUME Sound, LogInv', Linked', NEW i \in Node, NEW j \in Sibling(i),
         ReplyRequestVoteCounts(i, j)
  PROVE  ElectionInv'
<1>1. /\ Receives(i, j, "replyrequestvote") /\ role[i] = "C"
      /\ chan' = Consume(chan, i, j)
      /\ UNCHANGED <<log, pfGood, lastApplied, link, spent>>
  BY DEF ReplyRequestVoteCounts, fileVars
<1>2. /\ i = Candidate
      /\ \A k \in Node : commitIndex[k] \in Nat /\ lastApplied[k] <= commitIndex[k] /\ pfGood[k]
  BY <1>1, SoundFacts
<1>3. FewerAll(chan, chan')
  BY <1>1, ConsumeCells
<1>4. CASE receiveVotes[i] + 1 >= HalfNumber
  <2>1. ToLead(i)
    BY <1>4 DEF ReplyRequestVoteCounts
  <2>2. \A k \in Node : lastApplied'[k] <= commitIndex[k]
    BY <1>1, <1>2
  <2>3. QED
    BY <1>1, <1>3, <2>1, <2>2, ToLeadStep
<1>5. CASE ~(receiveVotes[i] + 1 >= HalfNumber)
  <2>1. UNCHANGED <<role, currentTerm, commitIndex>>
    BY <1>5 DEF ReplyRequestVoteCounts
  <2>2. currentTerm[i] \in Nat
    BY DEF Sound, LogInv, TypeOK
  <2>3. Calm
    BY <1>1, <1>2, <1>3, <2>1, <2>2 DEF Calm
  <2>4. role'[Candidate] # "L"
    BY <1>1, <1>2, <2>1
  <2>5. QED
    BY <2>3, <2>4, LikeStep DEF Sound
<1>6. QED
  BY <1>4, <1>5

-----------------------------------------------------------------------------
(* Connections. *)

LEMMA HandleReplyClusterNodeStep ==
  ASSUME Sound, LogInv', NEW i \in Node, NEW j \in Sibling(i), HandleReplyClusterNode(i, j)
  PROVE  ElectionInv'
<1>1. /\ Receives(i, j, "replyclusternode") /\ chan' = Consume(chan, i, j)
      /\ link' = Set(link, i, {j}, "up")
      /\ UNCHANGED <<role, currentTerm, log, pfGood, commitIndex, lastApplied, peerVars, spent>>
  BY DEF HandleReplyClusterNode, clusterVars, indexVars, fileVars
<1>2. link[i][j] # "none"
  <2>1. chan[j][i] # << >> /\ OfProtocol(Received(i, j))
    BY ReceivesProtocol DEF HandleReplyClusterNode
  <2>2. QED
    BY <2>1, SenderRegistered DEF Sound
<1>3. Candidate \in Node /\ j \in Node /\ link \in Table({"none", "trying", "up"})
  BY SoundFacts DEF Sibling, Sound, LogInv, TypeOK, Table
<1>4. ASSUME NEW k \in Sibling(Candidate) PROVE SameBook(k)
  <2>1. k \in Node
    BY DEF Sibling
  <2>2. link'[Candidate][k] = IF Candidate = i /\ k = j THEN "up" ELSE link[Candidate][k]
    <3>1. CASE Candidate = i
      BY <1>1, <1>3, <2>1, <3>1, SetCells
    <3>2. CASE Candidate # i
      BY <1>1, <1>3, <2>1, <3>2, SetCells
    <3>3. QED
      BY <3>1, <3>2
  <2>3. QED
    BY <1>1, <1>2, <2>2 DEF SameBook, peerVars
<1>5. \A k \in Node : role'[k] \in {role[k], "F"}
  BY <1>1
<1>6. QED
  BY <1>1, <1>4, <1>5, ConsumeStep

LEMMA ClusterNodeFewer ==
  ASSUME Sound, NEW i \in Node, NEW j \in Sibling(i), HandleClusterNode(i, j)
  PROVE  /\ AlikeAll(chan, chan') /\ FewerAll(chan, chan')
         /\ \A a, b \in Node : Ended(chan'[a][b]) <=> Ended(chan[a][b])
<1>1. Receives(i, j, "clusternode") /\ chan' = Answer(chan, i, j, ReplyClusterNode)
  BY DEF HandleClusterNode
<1>2. /\ j \in Node /\ i # j /\ chan[j][i] # << >>
      /\ Head(chan[j][i]).type \notin Appending \cup {"eof"}
  BY <1>1 DEF Receives, Received, Sibling, Appending
<1>3. ReplyClusterNode.type \notin Appending \cup {"eof"}
  BY DEF ReplyClusterNode, Appending
<1>4. /\ AlikeAll(chan, chan')
      /\ \A a, b \in Node : Ended(chan'[a][b]) <=> Ended(chan[a][b])
  BY <1>1, <1>2, <1>3, PlainMessages, AnswerAlike DEF Sound, LogInv
<1>5. QED
  BY <1>4, AlikeFewer

(* The leader registers the sibling, which it had not.                       *)
LEMMA HandleClusterNodeStep ==
  ASSUME Sound, LogInv', Linked', NEW i \in Node, NEW j \in Sibling(i),
         HandleClusterNode(i, j)
  PROVE  ElectionInv'
<1> DEFINE c == Candidate
<1>1. /\ Receives(i, j, "clusternode") /\ chan' = Answer(chan, i, j, ReplyClusterNode)
      /\ AddSiblings(i, {j}, "up")
      /\ alreadyAppendEntry' = Set(alreadyAppendEntry, i, {j}, FALSE)
      /\ UNCHANGED <<role, currentTerm, log, pfGood, commitIndex, lastApplied,
                     emptyAppendEntry, spent>>
  BY DEF HandleClusterNode, clusterVars, indexVars, fileVars
<1>2. /\ j \in Node /\ i # j /\ chan[j][i] # << >> /\ link[i][j] = "none"
      /\ Head(chan[j][i]).type \notin Appending \cup {"eof"}
  BY <1>1, ClusterNodeUnregistered DEF Receives, Received, Sibling, Appending, Sound
<1>3. /\ AlikeAll(chan, chan')
      /\ \A a, b \in Node : Ended(chan'[a][b]) <=> Ended(chan[a][b])
  BY ClusterNodeFewer
<1>4. /\ c \in Node
      /\ \A k \in Node : /\ commitIndex[k] \in Nat /\ lastApplied[k] <= commitIndex[k]
                         /\ pfGood[k] /\ commitIndex[k] <= Len(log[k])
  BY SoundFacts
<1>5. currentTerm[c] \in Nat /\ Len(log[c]) \in Nat
  BY <1>4, PeerTypes DEF Sound, LogInv, TypeOK, PeerTyped
<1>6. Calm
  BY <1>1, <1>3, <1>4, <1>5, AlikeFewer DEF Calm
<1>7. \A k \in Sibling(c) : SameTraffic(k) /\ SameFile(k)
  BY <1>1, <1>3, <1>4, AlikeTraffic DEF Sibling, SameFile
<1>8. CASE i # c
  <2>1. \A k \in Sibling(c) : SameBook(k)
    BY <1>1, <1>4, <1>8, OtherRow DEF Sound
  <2>2. QED
    BY <1>1, <1>6, <1>7, <2>1, LikeStep DEF Sound
<1>9. CASE i = c
  <2>1. ASSUME role'[c] = "L", NEW k \in Sibling(c)
        PROVE  Peer(k)' /\ SafeKept(k)
    <3>1. k \in Node /\ Peer(k)
      BY <1>1, <2>1, SoundFacts DEF Sibling
    <3>2. LeaderGrows
      BY <1>1, <1>4, <1>5 DEF LeaderGrows
    <3>3. /\ link \in Table({"none", "trying", "up"})
          /\ nextIndex \in Table(Nat) /\ matchIndex \in Table(Nat)
          /\ alreadyAppendEntry \in Table(BOOLEAN)
      BY DEF Sound, LogInv, TypeOK, Table
    <3>4. /\ link' = Set(link, c, {j}, "up")
          /\ nextIndex' = Set(nextIndex, c, {j}, commitIndex[c] + 1)
          /\ matchIndex' = Set(matchIndex, c, {j}, 0)
          /\ alreadyAppendEntry' = Set(alreadyAppendEntry, c, {j}, FALSE)
      BY <1>1, <1>9 DEF AddSiblings
    <3>5. link'[c][k] = IF k \in {j} THEN "up" ELSE link[c][k]
      BY <1>4, <3>1, <3>3, <3>4, SetCells
    <3>6. nextIndex'[c][k] = IF k \in {j} THEN commitIndex[c] + 1 ELSE nextIndex[c][k]
      BY <1>4, <3>1, <3>3, <3>4, SetCells
    <3>7. matchIndex'[c][k] = IF k \in {j} THEN 0 ELSE matchIndex[c][k]
      BY <1>4, <3>1, <3>3, <3>4, SetCells
    <3>8. /\ k = j => ~alreadyAppendEntry'[c][k]
          /\ k # j => (alreadyAppendEntry'[c][k] <=> alreadyAppendEntry[c][k])
      <4>1. /\ alreadyAppendEntry' = Set(alreadyAppendEntry, c, {j}, FALSE)
            /\ alreadyAppendEntry \in Table(BOOLEAN) /\ c \in Node /\ k \in Node
        BY <1>4, <3>1, <3>3, <3>4
      <4>2. QED
        BY ONLY <4>1, Zenon DEF Set, Table
    <3>9. CASE k = j
      <4>1. Asks(k) = {} /\ Answers(k) = {}
        BY <1>2, <1>9, <3>1, <3>9 DEF Peer, Outstanding
      <4>2. /\ Asks(k)' = {} /\ Answers(k)' = {} /\ SameFile(k)
            /\ Fewer(chan[k][c], chan'[k][c])
        BY <1>7, <4>1 DEF SameTraffic
      <4>3. /\ ~alreadyAppendEntry'[c][k] /\ matchIndex'[c][k] = 0
            /\ nextIndex'[c][k] = commitIndex[c] + 1
        BY <3>6, <3>7, <3>8, <3>9
      <4>4. NextIndexPositive' /\ commitIndex[c] <= Len(log[c])
        BY <1>4 DEF Linked
      <4>5. QED
        BY <1>4, <3>1, <3>2, <4>2, <4>3, <4>4, PeerQuiet DEF Sound
    <3>10. CASE k # j
      <4>1. SameBook(k)
        BY <1>1, <3>5, <3>6, <3>7, <3>8, <3>10 DEF SameBook
      <4>2. QED
        BY <1>4, <1>7, <3>1, <3>2, <4>1, PeerSame DEF Sound
    <3>11. QED
      BY <3>9, <3>10
  <2>2. commitIndex'[c] = commitIndex[c]
    BY <1>1
  <2>3. QED
    BY <1>6, <2>1, <2>2, CalmStep DEF Sound
<1>10. QED
  BY <1>8, <1>9

(* The row of the reader of an end of file: deleteSiblings(), or nothing.    *)
Dropped(i, j) ==
  \/ /\ link[i][j] = "none"
     /\ UNCHANGED <<link, nextIndex, matchIndex, alreadyAppendEntry>>
  \/ /\ link' = Set(link, i, {j}, "none")
     /\ nextIndex' = Set(nextIndex, i, {j}, 0)
     /\ matchIndex' = Set(matchIndex, i, {j}, 0)
     /\ alreadyAppendEntry' = Set(alreadyAppendEntry, i, {j}, FALSE)

LEMMA DroppedCells ==
  ASSUME LogInv, NEW i \in Node, NEW j \in Node, Dropped(i, j), NEW a \in Node, NEW b \in Node
  PROVE  IF a = i /\ b = j
         THEN /\ link'[a][b] = "none"
              /\ matchIndex'[a][b] = 0 \/ matchIndex'[a][b] = matchIndex[a][b]
              /\ (link[a][b] = "none" => ~alreadyAppendEntry[a][b]) => ~alreadyAppendEntry'[a][b]
         ELSE /\ link'[a][b] = link[a][b]
              /\ nextIndex'[a][b] = nextIndex[a][b]
              /\ matchIndex'[a][b] = matchIndex[a][b]
              /\ alreadyAppendEntry'[a][b] <=> alreadyAppendEntry[a][b]
<1>1. CASE link[i][j] = "none" /\ UNCHANGED <<link, nextIndex, matchIndex, alreadyAppendEntry>>
  BY <1>1
<1>2. ASSUME link' = Set(link, i, {j}, "none"), nextIndex' = Set(nextIndex, i, {j}, 0),
             matchIndex' = Set(matchIndex, i, {j}, 0),
             alreadyAppendEntry' = Set(alreadyAppendEntry, i, {j}, FALSE)
      PROVE  /\ link'[a][b] = IF a = i /\ b = j THEN "none" ELSE link[a][b]
             /\ nextIndex'[a][b] = IF a = i /\ b = j THEN 0 ELSE nextIndex[a][b]
             /\ matchIndex'[a][b] = IF a = i /\ b = j THEN 0 ELSE matchIndex[a][b]
             /\ a = i /\ b = j => ~alreadyAppendEntry'[a][b]
             /\ ~(a = i /\ b = j) => (alreadyAppendEntry'[a][b] <=> alreadyAppendEntry[a][b])
  <2>1. /\ link \in Table({"none", "trying", "up"})
        /\ nextIndex \in Table(Nat) /\ matchIndex \in Table(Nat)
        /\ alreadyAppendEntry \in Table(BOOLEAN)
    BY DEF LogInv, TypeOK, Table
  <2>2. link'[a][b] = IF a = i /\ b = j THEN "none" ELSE link[a][b]
    BY <1>2, <2>1 DEF Set, Table
  <2>3. nextIndex'[a][b] = IF a = i /\ b = j THEN 0 ELSE nextIndex[a][b]
    BY <1>2, <2>1 DEF Set, Table
  <2>4. matchIndex'[a][b] = IF a = i /\ b = j THEN 0 ELSE matchIndex[a][b]
    BY <1>2, <2>1 DEF Set, Table
  <2>5. /\ a = i /\ b = j => ~alreadyAppendEntry'[a][b]
        /\ ~(a = i /\ b = j) => (alreadyAppendEntry'[a][b] <=> alreadyAppendEntry[a][b])
    <3>1. /\ alreadyAppendEntry \in Table(BOOLEAN) /\ a \in Node /\ b \in Node
          /\ alreadyAppendEntry' = Set(alreadyAppendEntry, i, {j}, FALSE)
      BY <1>2, <2>1
    <3>2. QED
      BY ONLY <3>1, Zenon DEF Set, Table
  <2>6. QED
    BY <2>2, <2>3, <2>4, <2>5
<1>3. QED
  BY <1>1, <1>2 DEF Dropped

(* The leader drops the sibling whose connection has ended; what it had      *)
(* answered is executed.                                                     *)
LEMMA HandleEofStep ==
  ASSUME Sound, LogInv', Linked', NEW i \in Node, NEW j \in Sibling(i), HandleEof(i, j)
  PROVE  ElectionInv'
<1> DEFINE c == Candidate
<1>1. /\ Receives(i, j, "eof") /\ chan' = Consume(chan, i, j)
      /\ UNCHANGED <<role, currentTerm, log, pfGood, commitIndex, lastApplied,
                     emptyAppendEntry, spent>>
  BY DEF HandleEof, clusterVars, indexVars, fileVars
<1>2. Dropped(i, j)
  BY DEF HandleEof, Dropped
<1>3. /\ c \in Node /\ j \in Node /\ j # i
      /\ chan[j][i] # << >> /\ chan[j][i] \in Seq(SoundMessage)
      /\ IsEof(Head(chan[j][i]))
      /\ FewerAll(chan, chan') /\ AlikeAll(chan, chan')
      /\ \A a, b \in Node : ~(a = j /\ b = i) => chan'[a][b] = chan[a][b]
  <2>1. "eof" \notin Appending
    BY DEF Appending
  <2>2. QED
    BY <1>1, <2>1, ConsumeCells DEF IsEof
<1>4. \A k \in Node : /\ commitIndex[k] \in Nat /\ lastApplied[k] <= commitIndex[k]
                      /\ pfGood[k] /\ commitIndex[k] <= Len(log[k])
  BY SoundFacts
<1>5. currentTerm[c] \in Nat /\ Len(log[c]) \in Nat
  BY <1>3, PeerTypes DEF Sound, LogInv, TypeOK, PeerTyped
<1>6. Calm
  BY <1>1, <1>3, <1>4, <1>5 DEF Calm
<1>8. ASSUME NEW k \in Sibling(c), ~(i = c /\ k = j)
      PROVE  SameTraffic(k) /\ SameBook(k)
  <2>1. k \in Node /\ k # c /\ ~(c = i /\ k = j)
    BY <1>8 DEF Sibling
  <2>2. SameTraffic(k)
    BY <1>3, <2>1, AlikeTraffic
  <2>3. /\ link'[c][k] = link[c][k] /\ nextIndex'[c][k] = nextIndex[c][k]
        /\ matchIndex'[c][k] = matchIndex[c][k]
        /\ alreadyAppendEntry'[c][k] <=> alreadyAppendEntry[c][k]
    BY <1>2, <1>3, <2>1, DroppedCells DEF Sound
  <2>4. QED
    BY <1>1, <2>2, <2>3 DEF SameBook
<1>9. CASE i # c
  BY <1>1, <1>6, <1>8, <1>9, LikeStep DEF Sound
<1>10. CASE i = c
  <2>1. ASSUME role'[c] = "L", NEW k \in Sibling(c)
        PROVE  Peer(k)' /\ SafeKept(k)
    <3>1. k \in Node /\ Peer(k)
      BY <1>1, <2>1, SoundFacts DEF Sibling
    <3>2. LeaderGrows /\ SameFile(k)
      BY <1>1, <1>3, <1>4, <1>5 DEF LeaderGrows, SameFile
    <3>3. CASE k # j
      <4>1. SameTraffic(k) /\ SameBook(k)
        BY <1>8, <3>3
      <4>2. QED
        BY <1>3, <3>1, <3>2, <4>1, PeerSame DEF Sound
    <3>4. CASE k = j
      <4>1. Ended(chan[k][c])
        <5>1. chan[k][c] # << >> /\ chan[k][c] \in Seq(SoundMessage) /\ IsEof(Head(chan[k][c]))
          BY <1>3, <1>10, <3>4
        <5>2. QED
          BY <5>1 DEF Ended
      <4>2. Asks(k) = {}
        BY <3>1, <4>1 DEF Peer, Outstanding
      <4>3. Answers(k) = {}
        BY <1>3, <1>10, <3>1, <3>4, NoAnswerBehind DEF Peer, Outstanding, Answers
      <4>4. /\ Asks(k)' = {} /\ Answers(k)' = {} /\ Fewer(chan[k][c], chan'[k][c])
        <5>1. Alike(chan[c][k], chan'[c][k]) /\ Alike(chan[k][c], chan'[k][c])
          BY <1>3, <3>1 DEF AlikeAll
        <5>2. QED
          BY <4>2, <4>3, <5>1, AlikeTypes DEF Asks, Answers, Alike, Appending
      <4>5. /\ link'[c][k] = "none"
            /\ matchIndex'[c][k] = 0 \/ matchIndex'[c][k] = matchIndex[c][k]
            /\ (link[c][k] = "none" => ~alreadyAppendEntry[c][k]) => ~alreadyAppendEntry'[c][k]
        BY <1>2, <1>3, <1>10, <3>1, <3>4, DroppedCells DEF Sound
      <4>6. ~alreadyAppendEntry'[c][k]
        BY <3>1, <4>5 DEF Peer, Outstanding
      <4>7. NextIndexPositive' /\ commitIndex[c] <= Len(log[c])
        BY <1>3, <1>4 DEF Linked
      <4>8. QED
        BY <1>3, <3>1, <3>2, <4>4, <4>5, <4>6, <4>7, PeerQuiet DEF Sound
    <3>5. QED
      BY <3>3, <3>4
  <2>2. commitIndex'[c] = commitIndex[c]
    BY <1>1
  <2>3. QED
    BY <1>6, <2>1, <2>2, CalmStep DEF Sound
<1>11. QED
  BY <1>9, <1>10

LEMMA ExecuteStep ==
  ASSUME Sound, LogInv', Linked', NEW i \in Node, NEW j \in Sibling(i), Execute(i, j)
  PROVE  ElectionInv'
BY AppendEntryObeyedAlways, AppendEntryMismatchStep, AppendEntryAcceptedStep,
   ReplyAppendEntryIgnoredStep, ReplyAppendEntryFalseStep, ReplyAppendEntryTrueStep,
   HandleRequestVoteStep, ReplyRequestVoteNoVoteStep, ReplyRequestVoteCountsStep,
   HandleClusterNodeStep, HandleReplyClusterNodeStep, HandleEofStep DEF Execute

-----------------------------------------------------------------------------
(* Clients and faults. *)

LEMMA TimeoutNotSpent ==
  ASSUME LogInv,
         NEW bound \in {"request", "crash", "restart", "reset", "childLoss"}, Spend(bound)
  PROVE  spent'.timeout = spent.timeout
<1>1. spent \in SpentType /\ spent' = [spent EXCEPT ![bound] = @ + 1]
  BY DEF LogInv, TypeOK, Spend, SpentType
<1>2. CASE bound \in {"request", "crash"}
  BY <1>1, <1>2 DEF SpentType
<1>3. CASE bound \in {"restart", "reset", "childLoss"}
  BY <1>1, <1>3 DEF SpentType
<1>4. QED
  BY <1>2, <1>3

(* A longer file of the leader: what is in flight still repeats it.          *)
LEMMA RepeatsAppend ==
  ASSUME NEW file \in Seq(Entry), NEW e \in Entry, NEW m \in AppendEntryMessage,
         Repeats(m, file)
  PROVE  Repeats(m, Append(file, e))
<1>1. /\ Len(file) \in Nat /\ Len(Append(file, e)) = Len(file) + 1
      /\ \A p \in 1 .. Len(file) : Append(file, e)[p] = file[p]
  OBVIOUS
<1>2. m.prevLogIndex \in Nat
  BY DEF AppendEntryMessage
<1> DEFINE longer == Append(file, e)
<1> HIDE DEF longer
<1>3. /\ Len(file) \in Nat /\ Len(longer) = Len(file) + 1
      /\ \A p \in 1 .. Len(file) : longer[p] = file[p]
  BY <1>1 DEF longer
<1>4. m.prevLogIndex <= Len(longer)
  BY <1>2, <1>3 DEF Repeats
<1>5. m.prevLogIndex >= 1 => m.prevLogTerm = longer[m.prevLogIndex].term
  BY <1>2, <1>3 DEF Repeats
<1>6. m.entry.index = 0 => m.leaderCommit <= m.prevLogIndex
  BY DEF Repeats
<1>7. m.entry.index # 0 =>
        m.prevLogIndex < Len(longer) /\ m.entry = longer[m.prevLogIndex + 1]
  BY <1>2, <1>3 DEF Repeats
<1>8. Repeats(m, longer)
  BY <1>4, <1>5, <1>6, <1>7 DEF Repeats
<1>9. QED
  BY <1>8 DEF longer

LEMMA ClientRequestStep ==
  ASSUME Sound, LogInv', NEW i \in Node, ClientRequest(i)
  PROVE  ElectionInv'
<1> DEFINE c     == Candidate
           entry == [index |-> lastEntryIndex[i] + 1, term |-> currentTerm[i],
                     content |-> spent.request + 1]
<1>1. /\ role[i] = "L" /\ Spend("request")
      /\ log' = [log EXCEPT ![i] = Append(log[i], entry)]
      /\ UNCHANGED <<role, currentTerm, commitIndex, lastApplied, pfGood, link,
                     peerVars, chan>>
  BY DEF ClientRequest, clusterVars
<1>2. /\ c \in Node /\ i = c /\ RolesInv /\ FilesInv /\ AppliedInv /\ AsksInv
      /\ \A j \in Sibling(c) : Peer(j)
  BY <1>1, SoundFacts
<1>3. /\ lastEntryIndex[c] \in Nat /\ currentTerm[c] \in Nat /\ spent.request \in Nat
      /\ commitIndex \in [Node -> Nat] /\ log \in [Node -> Seq(Entry)]
  BY <1>2 DEF Sound, LogInv, TypeOK
<1>4. entry \in Entry /\ entry.term >= 1
  <2>1. currentTerm[c] >= 1
    BY <1>1, <1>2 DEF RolesInv
  <2>2. QED
    BY <1>2, <1>3, <2>1 DEF Entry
<1>5. spent'.timeout = spent.timeout
  BY <1>1, TimeoutNotSpent DEF Sound
<1> HIDE DEF entry
<1> DEFINE old == log[c]
           new == Append(old, entry)
<1>6. /\ old \in Seq(Entry) /\ new \in Seq(Entry)
      /\ Len(new) = Len(old) + 1 /\ Len(old) \in Nat
      /\ \A p \in 1 .. Len(old) : new[p] = old[p]
      /\ new[Len(old) + 1] = entry
  BY <1>2, <1>3, <1>4
<1>7. /\ log'[c] = new /\ \A k \in Sibling(c) : log'[k] = log[k]
  BY <1>1, <1>2, <1>3 DEF Sibling
<1>8. FilesInv'
  <2>1. \A k \in Node : pfGood'[k]
    BY <1>1, <1>2 DEF FilesInv
  <2>2. ASSUME NEW k \in Node
        PROVE  IsPrefixOf(log'[k], log'[c])
    <3>1. CASE k = c
      <4> HIDE DEF new
      <4>1. new \in Seq(Entry) /\ log'[k] = new /\ log'[c] = new
        BY <1>6, <1>7, <3>1
      <4>2. Len(new) \in Nat
        BY <4>1
      <4>3. IsPrefixOf(new, new)
        BY <4>2 DEF IsPrefixOf
      <4>4. QED
        BY <4>1, <4>3
    <3>2. CASE k # c
      <4>1. log'[k] = log[k] /\ IsPrefixOf(log[k], old) /\ log[k] \in Seq(Entry)
        BY <1>2, <1>3, <1>7, <3>2 DEF Sibling, FilesInv
      <4> HIDE DEF old
      <4>2. IsPrefixOf(log[k], new)
        BY <1>4, <1>6, <4>1, PrefixAppend
      <4>3. QED
        BY <1>7, <4>1, <4>2
    <3>3. QED
      BY <3>1, <3>2
  <2>3. \A p \in DOMAIN log'[c] : log'[c][p].term >= 1
    <3>1. \A p \in DOMAIN old : old[p].term >= 1
      BY <1>2 DEF FilesInv
    <3> HIDE DEF old, new
    <3>2. \A p \in 1 .. Len(new) : new[p].term >= 1
      <4>1. ASSUME NEW p \in 1 .. Len(new) PROVE new[p].term >= 1
        <5>1. CASE p = Len(old) + 1
          BY <1>4, <1>6, <5>1
        <5>2. CASE p # Len(old) + 1
          <6>1. p \in 1 .. Len(old) /\ p \in DOMAIN old
            BY <1>6, <5>2
          <6>2. QED
            BY <1>6, <3>1, <6>1
        <5>3. QED
          BY <5>1, <5>2
      <4>2. QED
        BY <4>1
    <3>3. DOMAIN new = 1 .. Len(new)
      BY <1>6
    <3>4. QED
      BY <1>7, <3>2, <3>3
  <2>4. QED
    BY <2>1, <2>2, <2>3 DEF FilesInv
<1>9. \A k \in Node : Len(log[k]) \in Nat /\ Len(log[k]) <= Len(log'[k])
  <2> HIDE DEF new
  <2>1. \A k \in Node : Len(log[k]) \in Nat
    BY <1>3
  <2>2. QED
    BY <1>6, <1>7, <2>1 DEF Sibling
<1>10. AppliedInv'
  <2>0. log' \in [Node -> Seq(Entry)]
    BY DEF LogInv, TypeOK
  <2>1. \A k \in Node : /\ Len(log[k]) \in Nat /\ Len(log'[k]) \in Nat
                        /\ commitIndex[k] \in Nat
    BY <1>3, <2>0
  <2>2. QED
    BY <1>1, <1>2, <1>9, <2>1 DEF AppliedInv
<1>11. AsksInv'
  <2>1. \A k \in Sibling(c) : k \in Node /\ Asks(k)' = Asks(k)
    BY <1>1 DEF Asks, Sibling
  <2>2. ASSUME NEW k \in Sibling(c), NEW m \in Asks(k)
        PROVE  Repeats(m, log'[c])
    <3>1. Repeats(m, old) /\ m \in AppendEntryMessage
      BY <1>2, <2>1, TrafficTypes DEF AsksInv, Sound
    <3> HIDE DEF old
    <3>2. Repeats(m, new)
      BY <1>4, <1>6, <3>1, RepeatsAppend
    <3>3. QED
      BY <1>7, <3>2
  <2>3. QED
    BY <1>1, <1>2, <2>1, <2>2 DEF AsksInv
<1>12. ASSUME NEW k \in Sibling(c)
       PROVE  Peer(k)' /\ SafeKept(k)
  <2>1. SameTraffic(k)
    BY <1>1, FewerTransitive DEF SameTraffic, Asks, Answers
  <2>2. SameBook(k)
    BY <1>1 DEF SameBook, peerVars
  <2>3. SameFile(k) /\ LeaderGrows
    BY <1>1, <1>2, <1>3, <1>7, <1>9 DEF SameFile, LeaderGrows
  <2>4. k \in Node
    BY DEF Sibling
  <2>5. QED
    BY <1>2, <2>1, <2>2, <2>3, <2>4, PeerSame DEF Sound
<1>13. Leading'
  BY <1>1, <1>2, <1>12, LeadingKept DEF Sound, ElectionInv
<1>14. QED
  BY <1>1, <1>2, <1>5, <1>8, <1>10, <1>11, <1>13, LeaderStays

LEMMA ClientStep ==
  ASSUME Sound, LogInv', NEW i \in Node, Client(i)
  PROVE  ElectionInv'
<1>1. ~ClientRequestFails(i)
  BY SoundFacts DEF ClientRequestFails
<1>2. QED
  BY <1>1, ClientRequestStep DEF Client

(* The row of another node is left alone when a process ends.                *)
LEMMA StopCells ==
  ASSUME LogInv, NEW i \in Node, NEW reason, NEW received, Stop(i, reason, received),
         NEW a \in Node \ {i}, NEW b \in Node
  PROVE  /\ link'[a][b] = link[a][b]
         /\ nextIndex'[a][b] = nextIndex[a][b]
         /\ matchIndex'[a][b] = matchIndex[a][b]
         /\ alreadyAppendEntry'[a][b] <=> alreadyAppendEntry[a][b]
         /\ emptyAppendEntry'[a][b] = emptyAppendEntry[a][b]
<1>1. /\ link \in Table({"none", "trying", "up"})
      /\ nextIndex \in Table(Nat) /\ matchIndex \in Table(Nat)
      /\ alreadyAppendEntry \in Table(BOOLEAN)
      /\ emptyAppendEntry \in Table(BOOLEAN)
  BY DEF LogInv, TypeOK, Table
<1>2. /\ link' = Set(link, i, Node, "none")
      /\ nextIndex' = Set(nextIndex, i, Node, 0)
      /\ matchIndex' = Set(matchIndex, i, Node, 0)
      /\ alreadyAppendEntry' = Set(alreadyAppendEntry, i, Node, FALSE)
      /\ emptyAppendEntry' = Set(emptyAppendEntry, i, Node, FALSE)
  BY DEF Stop
<1>3. link'[a][b] = link[a][b]
  BY <1>1, <1>2, SetCells
<1>4. nextIndex'[a][b] = nextIndex[a][b]
  BY <1>1, <1>2, SetCells
<1>5. matchIndex'[a][b] = matchIndex[a][b]
  BY <1>1, <1>2, SetCells
<1>6. alreadyAppendEntry'[a] = alreadyAppendEntry[a]
  BY <1>1, <1>2 DEF Set, Table
<1>7. emptyAppendEntry'[a] = emptyAppendEntry[a]
  BY <1>1, <1>2 DEF Set, Table
<1>8. QED
  BY <1>3, <1>4, <1>5, <1>6, <1>7

LEMMA CrashStep ==
  ASSUME Sound, LogInv', NEW i \in Node, NEW received, Crash(i, received)
  PROVE  ElectionInv'
<1> DEFINE c == Candidate
<1>1. /\ Stop(i, "down", received) /\ Spend("crash") /\ log' = log
  BY DEF Crash
<1>2. /\ role' = [role EXCEPT ![i] = "F"]
      /\ currentTerm' = [currentTerm EXCEPT ![i] = 1]
      /\ commitIndex' = [commitIndex EXCEPT ![i] = 0]
      /\ lastApplied' = [lastApplied EXCEPT ![i] = 0]
      /\ pfGood' = [pfGood EXCEPT ![i] = TRUE]
      /\ chan' = Hangup(chan, i, Connections(i), received)
  BY <1>1 DEF Stop
<1>3. /\ role \in [Node -> {"F", "C", "L"}] /\ currentTerm \in [Node -> Nat]
      /\ commitIndex \in [Node -> Nat] /\ lastApplied \in [Node -> Nat]
      /\ pfGood \in [Node -> BOOLEAN] /\ chan \in Channels(SoundMessage)
  BY DEF Sound, LogInv, TypeOK
<1>4. /\ c \in Node
      /\ \A k \in Node : lastApplied[k] <= commitIndex[k] /\ pfGood[k]
  BY SoundFacts
<1>5. /\ FewerAll(chan, chan')
      /\ \A b \in Node \ {i} : /\ chan'[b][i] = << >>
                               /\ Ended(chan'[i][b]) <=> b \in Connections(i) \/ Ended(chan[i][b])
      /\ \A a, b \in Node \ {i} : chan'[a][b] = chan[a][b]
  <2>1. Eof \in SoundMessage
    BY PlainMessages
  <2>2. QED
    BY <1>2, <1>3, <2>1, HangupFewer
<1>6. Calm
  <2>1. \A k \in Node : /\ role'[k] \in {role[k], "F"}
                        /\ commitIndex'[k] <= commitIndex[k]
                        /\ lastApplied'[k] <= commitIndex'[k]
    BY <1>2, <1>3, <1>4
  <2>2. \A k \in Node : pfGood'[k]
    BY <1>2, <1>3, <1>4
  <2>3. role'[c] # "F" => currentTerm'[c] >= currentTerm[c]
    BY <1>2, <1>3, <1>4
  <2>4. spent'.timeout = spent.timeout
    BY <1>1, TimeoutNotSpent DEF Sound
  <2>5. QED
    BY <1>1, <1>5, <2>1, <2>2, <2>3, <2>4 DEF Calm
<1>7. ASSUME role'[c] = "L"
      PROVE  /\ commitIndex'[c] = commitIndex[c]
             /\ \A k \in Sibling(c) : Peer(k)' /\ SafeKept(k)
  <2>1. i # c /\ role[c] = "L"
    BY <1>2, <1>3, <1>4, <1>7
  <2>2. commitIndex'[c] = commitIndex[c]
    BY <1>2, <1>3, <1>4, <2>1
  <2>3. ASSUME NEW k \in Sibling(c) PROVE Peer(k)' /\ SafeKept(k)
    <3>1. k \in Node /\ k # c /\ Peer(k)
      BY <2>1, SoundFacts DEF Sibling
    <3>2. SameBook(k)
      BY <1>1, <1>4, <2>1, <3>1, StopCells DEF SameBook, Sound
    <3>3. LeaderGrows
      <4>1. commitIndex[c] \in Nat /\ Len(log[c]) \in Nat
        BY <1>4, PeerTypes DEF PeerTyped, Sound
      <4>2. QED
        BY <1>1, <2>2, <4>1 DEF LeaderGrows
    <3>4. CASE k = i
      <4>1. chan'[c][k] = << >> /\ Fewer(chan[k][c], chan'[k][c])
        BY <1>4, <1>5, <2>1, <3>1, <3>4 DEF FewerAll
      <4>2. Asks(k)' = {}
        BY <4>1, FewerLost DEF Asks, Appending
      <4>3. Ended(chan[k][c]) \/ link[c][k] = "up" => Ended(chan'[k][c])
        <5>1. link[c][k] = "up" /\ ~Ended(chan[k][c]) => c \in Connections(k)
          BY <1>4, LinkLive DEF Sound
        <5>2. Ended(chan'[k][c]) <=> c \in Connections(k) \/ Ended(chan[k][c])
          BY <1>4, <1>5, <2>1, <3>4
        <5>3. QED
          BY <5>1, <5>2
      <4>4. log'[k] = log[k] /\ commitIndex'[k] <= commitIndex[k]
        BY <1>1, <1>6, <3>1 DEF Calm
      <4>5. QED
        BY <1>4, <3>1, <3>2, <3>3, <4>1, <4>2, <4>3, <4>4, PeerBroken DEF Sound
    <3>5. CASE k # i
      <4>1. chan'[c][k] = chan[c][k] /\ chan'[k][c] = chan[k][c]
        BY <1>4, <1>5, <2>1, <3>1, <3>5
      <4>2. SameTraffic(k)
        BY <4>1, FewerTransitive DEF SameTraffic, Asks, Answers
      <4>3. SameFile(k)
        BY <1>1, <1>2, <1>3, <3>1, <3>5 DEF SameFile
      <4>4. QED
        BY <1>4, <3>1, <3>2, <3>3, <4>2, <4>3, PeerSame DEF Sound
    <3>6. QED
      BY <3>4, <3>5
  <2>4. QED
    BY <2>2, <2>3
<1>8. QED
  BY <1>6, <1>7, CalmStep DEF Sound

LEMMA ResetStep ==
  ASSUME Sound, LogInv', NEW i \in Node, NEW j \in Sibling(i), Reset(i, j)
  PROVE  ElectionInv'
<1> DEFINE c == Candidate
<1>1. /\ chan' = Break(chan, i, j) /\ Spend("reset")
      /\ UNCHANGED <<role, currentTerm, commitIndex, lastApplied, log, pfGood, link,
                     peerVars>>
  BY DEF Reset, clusterVars, indexVars, fileVars
<1>2. /\ c \in Node /\ j \in Node /\ i # j
      /\ \A k \in Node : /\ commitIndex[k] \in Nat /\ lastApplied[k] <= commitIndex[k]
                         /\ pfGood[k]
  BY SoundFacts DEF Sibling
<1>3. /\ FewerAll(chan, chan')
      /\ chan'[i][j] = <<Eof>> /\ chan'[j][i] = <<Eof>>
      /\ \A a, b \in Node : ~(a = i /\ b = j) /\ ~(a = j /\ b = i) => chan'[a][b] = chan[a][b]
  BY <1>1, <1>2, BreakFewer DEF Sound, LogInv
<1>4. currentTerm[c] \in Nat /\ Len(log[c]) \in Nat
  BY <1>2, PeerTypes DEF Sound, LogInv, TypeOK, PeerTyped
<1>5. spent'.timeout = spent.timeout
  BY <1>1, TimeoutNotSpent DEF Sound
<1>6. Calm
  BY <1>1, <1>2, <1>3, <1>4, <1>5 DEF Calm
<1>7. LeaderGrows
  BY <1>1, <1>2, <1>4 DEF LeaderGrows
<1>8. ASSUME role'[c] = "L", NEW k \in Sibling(c)
      PROVE  Peer(k)' /\ SafeKept(k)
  <2>1. k \in Node /\ k # c /\ Peer(k)
    BY <1>1, <1>8, SoundFacts DEF Sibling
  <2>2. SameBook(k) /\ SameFile(k)
    BY <1>1 DEF SameBook, SameFile, peerVars
  <2>3. CASE (c = i /\ k = j) \/ (c = j /\ k = i)
    <3>1. chan'[c][k] = <<Eof>> /\ chan'[k][c] = <<Eof>>
      BY <1>3, <2>3
    <3>2. Asks(k)' = {} /\ Ended(chan'[k][c])
      BY <3>1, FewerLost DEF Asks, Appending
    <3>3. Fewer(chan[k][c], chan'[k][c])
      BY <3>1, FewerLost
    <3>4. log'[k] = log[k] /\ commitIndex'[k] <= commitIndex[k]
      BY <1>1, <1>2, <2>1
    <3>5. QED
      BY <1>2, <1>7, <2>1, <2>2, <3>2, <3>3, <3>4, PeerBroken DEF Sound
  <2>4. CASE ~((c = i /\ k = j) \/ (c = j /\ k = i))
    <3>1. chan'[c][k] = chan[c][k] /\ chan'[k][c] = chan[k][c]
      BY <1>2, <1>3, <2>1, <2>4
    <3>2. SameTraffic(k)
      BY <3>1, FewerTransitive DEF SameTraffic, Asks, Answers
    <3>3. QED
      BY <1>2, <1>7, <2>1, <2>2, <3>2, PeerSame DEF Sound
  <2>5. QED
    BY <2>3, <2>4
<1>9. commitIndex'[c] = commitIndex[c]
  BY <1>1
<1>10. QED
  BY <1>6, <1>8, <1>9, CalmStep DEF Sound

(* Nothing the invariant is about changes. *)
LEMMA NothingChanges ==
  ASSUME Sound, LogInv',
         UNCHANGED <<clusterVars, indexVars, fileVars, link, peerVars, chan>>,
         spent'.timeout = spent.timeout
  PROVE  ElectionInv'
<1>1. UNCHANGED <<role, currentTerm, commitIndex, lastApplied, log, pfGood, link,
                  peerVars, chan>>
  BY DEF clusterVars, indexVars, fileVars
<1>2. /\ Candidate \in Node
      /\ \A k \in Node : /\ commitIndex[k] \in Nat /\ lastApplied[k] <= commitIndex[k]
                         /\ pfGood[k]
  BY SoundFacts
<1>3. currentTerm[Candidate] \in Nat
  BY <1>2 DEF Sound, LogInv, TypeOK
<1>4. FewerAll(chan, chan')
  BY <1>1, AlikeFewer
<1>5. Calm
  BY <1>1, <1>2, <1>3, <1>4 DEF Calm
<1>6. \A k \in Sibling(Candidate) : SameTraffic(k) /\ SameBook(k)
  BY <1>1, FewerTransitive DEF SameTraffic, SameBook, Asks, Answers, peerVars
<1>7. QED
  BY <1>1, <1>5, <1>6, LikeStep DEF Sound

LEMMA FaultStep ==
  ASSUME Sound, LogInv', NEW i \in Node, Fault(i)
  PROVE  ElectionInv'
<1>1. ASSUME Restart(i) PROVE ElectionInv'
  BY <1>1, TimeoutNotSpent, NothingChanges DEF Restart, Sound
<1>2. ASSUME ChildLost(i) PROVE ElectionInv'
  BY <1>2, TimeoutNotSpent, NothingChanges DEF ChildLost, Sound
<1>3. spent.diskFault \in Nat /\ spent.deleteCrash \in Nat
  BY DEF Sound, LogInv, TypeOK
<1>4. ~DiskFault(i)
  BY <1>3 DEF DiskFault, Sound, SoundDisks
<1>5. \A j, received : ~CrashInDelete(i, j, received)
  BY <1>3 DEF CrashInDelete, Sound, SoundDisks
<1>6. QED
  BY <1>1, <1>2, <1>4, <1>5, CrashStep, ResetStep DEF Fault

(* Every step keeps the invariant. *)
LEMMA NextElection ==
  ASSUME Sound, LogInv', Linked', [Next]_vars
  PROVE  ElectionInv'
<1>1. CASE UNCHANGED vars
  BY <1>1, NothingChanges DEF vars
<1>2. CASE Next
  BY <1>2, CronStep, ExecuteStep, ClientStep, FaultStep DEF Next
<1>3. QED
  BY <1>1, <1>2

LEMMA InitElection ==
  ASSUME SingleElection, Init \/ ConnectedInit
  PROVE  ElectionInv
<1>1. /\ Candidate \in Node /\ InitNodes
      /\ \A i \in Node : MaxTimeout[i] \in Nat
  BY CandidateNode, BoundAssumption DEF Init, ConnectedInit
<1>2. \A i \in Node : /\ role[i] = "F" /\ log[i] = << >> /\ pfGood[i]
                      /\ commitIndex[i] = 0 /\ lastApplied[i] = 0
                      /\ spent.timeout[i] = 0
                      /\ \A j \in Node : chan[i][j] = << >>
  BY <1>1 DEF InitNodes
<1>3. \A i, j \in Node : \A type : OfType(chan[i][j], type) = {}
  BY <1>2 DEF OfType
<1>4. RolesInv
  BY <1>1, <1>2 DEF RolesInv
<1>5. FilesInv
  BY <1>1, <1>2 DEF FilesInv, IsPrefixOf
<1>6. AppliedInv
  BY <1>2 DEF AppliedInv
<1>7. AsksInv
  <2>1. \A i \in Node : i \in Sibling(Candidate) => i \in Node
    OBVIOUS
  <2>2. \A j \in Sibling(Candidate) : /\ AtMostOne(chan[Candidate][j], "appendentry")
                                      /\ Asks(j) = {}
    BY <1>1, <1>2, <1>3 DEF Sibling, AtMostOne, Asks
  <2>3. \A i \in Sibling(Candidate), j \in Node : OfType(chan[i][j], "appendentry") = {}
    BY <1>3 DEF Sibling
  <2>4. QED
    BY <2>2, <2>3 DEF AsksInv
<1>8. Quiet
  BY <1>2, <1>3 DEF Quiet
<1>9. role[Candidate] # "L"
  BY <1>1, <1>2
<1>10. QED
  BY <1>4, <1>5, <1>6, <1>7, <1>8, <1>9 DEF ElectionInv

(* The leader is the candidate: everything a leader knows of a sibling is what
   ElectionInv says of it, and all log files are prefixes of the leader's. *)
THEOREM ElectionInvariant ==
  ASSUME SingleElection, SoundDisks
  PROVE  Spec \/ ConnectedSpec => []ElectionInv
<1>1. Init \/ ConnectedInit => ElectionInv
  BY InitElection
<1>2. LogInv /\ LogInv' /\ LinkInv /\ Linked /\ Linked' /\ ElectionInv /\ [Next]_vars
        => ElectionInv'
  BY NextElection DEF Sound
<1>3. QED
  BY <1>1, <1>2, LogInvariant, LinksAgree, LinkedInvariant, PTL DEF Spec, ConnectedSpec

LEMMA SoundInvariant ==
  ASSUME SingleElection, SoundDisks
  PROVE  Spec \/ ConnectedSpec => []Sound
<1>1. LogInv /\ LinkInv /\ Linked /\ ElectionInv => Sound
  BY DEF Sound
<1>2. QED
  BY <1>1, LogInvariant, LinksAgree, LinkedInvariant, ElectionInvariant, PTL

-----------------------------------------------------------------------------
(* What follows. *)

(* Two files that both reach p have the same entry there.                    *)
LEMMA PrefixesAgree ==
  ASSUME Sound, NEW i \in Node, NEW j \in Node, NEW p \in Nat,
         1 <= p, p <= Len(log[i]), p <= Len(log[j])
  PROVE  Agree(i, j, p)
<1>1. /\ Candidate \in Node /\ IsPrefixOf(log[i], log[Candidate])
      /\ IsPrefixOf(log[j], log[Candidate])
  BY SoundFacts DEF FilesInv
<1>2. log[i] \in Seq(Entry) /\ log[j] \in Seq(Entry)
  BY DEF Sound, LogInv, TypeOK
<1>3. p \in DOMAIN log[i] /\ p \in DOMAIN log[j]
  BY <1>2
<1>4. QED
  BY <1>1, <1>3 DEF IsPrefixOf, Agree

LEMMA SoundMatches ==
  ASSUME Sound
  PROVE  MatchIndexSound
<1>1. ASSUME NEW i \in Node, NEW j \in Node, role[i] = "L", i # j,
             NEW p \in 1 .. matchIndex[i][j]
      PROVE  Agree(i, j, p)
  <2>1. i = Candidate /\ j \in Sibling(Candidate) /\ Peer(j)
    BY <1>1, SoundFacts DEF Sibling
  <2>2. /\ matchIndex[i][j] \in Nat /\ Len(log[i]) \in Nat /\ Len(log[j]) \in Nat
    BY <2>1, PeerTypes DEF PeerTyped, Sound
  <2>3. matchIndex[i][j] <= Len(log[j])
    BY <2>1 DEF Peer, SafeAt
  <2>4. Len(log[j]) <= Len(log[i])
    BY <2>1, SoundFacts DEF FilesInv, IsPrefixOf
  <2>5. p \in Nat /\ 1 <= p /\ p <= Len(log[j]) /\ p <= Len(log[i])
    BY <2>2, <2>3, <2>4
  <2>6. QED
    BY <2>5, PrefixesAgree
<1>2. QED
  BY <1>1 DEF MatchIndexSound

LEMMA SoundApplied ==
  ASSUME Sound
  PROVE  AppliedAgree
<1>1. ASSUME NEW i \in Node, NEW j \in Node, NEW p \in 1 .. lastApplied[i],
             p <= lastApplied[j]
      PROVE  Agree(i, j, p)
  <2>1. /\ lastApplied[i] \in Nat /\ lastApplied[j] \in Nat
        /\ lastApplied[i] <= commitIndex[i] /\ commitIndex[i] <= Len(log[i])
        /\ lastApplied[j] <= commitIndex[j] /\ commitIndex[j] <= Len(log[j])
        /\ commitIndex[i] \in Nat /\ commitIndex[j] \in Nat
    BY SoundFacts
  <2>2. log[i] \in Seq(Entry) /\ log[j] \in Seq(Entry)
    BY DEF Sound, LogInv, TypeOK
  <2>3. Len(log[i]) \in Nat /\ Len(log[j]) \in Nat
    BY <2>2
  <2>4. p \in Nat /\ 1 <= p /\ p <= Len(log[i]) /\ p <= Len(log[j])
    BY <1>1, <2>1, <2>3
  <2>5. QED
    BY <2>4, PrefixesAgree
<1>2. QED
  BY <1>1 DEF AppliedAgree

(* As many messages of a type as there are positions of them. *)
LEMMA PositionsOfType ==
  ASSUME NEW q, NEW type, AtMostOne(q, type)
  PROVE  Cardinality({n \in DOMAIN q : q[n].type = type})
           = IF OfType(q, type) = {} THEN 0 ELSE 1
<1> DEFINE P == {n \in DOMAIN q : q[n].type = type}
<1>1. CASE OfType(q, type) = {}
  <2>1. P = {}
    BY <1>1, NothingOfType
  <2>2. QED
    BY <1>1, <2>1, FS_EmptySet
<1>2. CASE OfType(q, type) # {}
  <2>1. PICK n \in DOMAIN q : q[n].type = type
    BY <1>2, NothingOfType
  <2>2. P = {n}
    BY <2>1 DEF AtMostOne
  <2>3. QED
    BY <1>2, <2>2, FS_Singleton
<1>3. QED
  BY <1>1, <1>2

LEMMA SoundOutstanding ==
  ASSUME Sound
  PROVE  OneOutstanding
<1>1. ASSUME NEW i \in Node, NEW j \in Node,
             role[i] = "L", link[i][j] = "up", ~Ended(chan[j][i])
      PROVE  Cardinality(AppendEntriesInFlight(i, j)) + Cardinality(RepliesInFlight(j, i))
               = (IF alreadyAppendEntry[i][j] THEN 1 ELSE 0)
  <2>1. i = Candidate
    BY <1>1, SoundFacts
  <2>2. j \in Sibling(Candidate) /\ Peer(j) /\ AskSound(j)
    <3>1. j # i
      BY <1>1 DEF Sound, LinkInv
    <3>2. QED
      BY <1>1, <2>1, <3>1, SoundFacts, AsksSound DEF Sibling
  <2>3. Cardinality(AppendEntriesInFlight(i, j)) = IF Asks(j) = {} THEN 0 ELSE 1
    BY <2>1, <2>2, PositionsOfType DEF AskSound, Asks, AppendEntriesInFlight
  <2>4. Cardinality(RepliesInFlight(j, i)) = IF Answers(j) = {} THEN 0 ELSE 1
    BY <2>1, <2>2, PositionsOfType DEF Peer, Outstanding, Answers, RepliesInFlight
  <2>5. /\ Asks(j) # {} \/ Answers(j) # {} <=> alreadyAppendEntry[i][j]
        /\ Asks(j) # {} => Answers(j) = {}
    BY <1>1, <2>1, <2>2 DEF Peer, Outstanding
  <2>6. CASE Asks(j) # {}
    BY <2>3, <2>4, <2>5, <2>6
  <2>7. CASE Asks(j) = {} /\ Answers(j) # {}
    BY <2>3, <2>4, <2>5, <2>7
  <2>8. CASE Asks(j) = {} /\ Answers(j) = {}
    BY <2>3, <2>4, <2>5, <2>8
  <2>9. QED
    BY <2>6, <2>7, <2>8
<1>2. QED
  BY <1>1 DEF OneOutstanding

(* What ReplyAppendEntryCommand writes to matchIndex (ReplyAppendEntryCommand.cpp)
   is in the file of the sibling, and is what the leader has there. *)
THEOREM MatchIndicesSound ==
  ASSUME SingleElection, SoundDisks
  PROVE  Spec \/ ConnectedSpec => []MatchIndexSound
<1>1. Sound => MatchIndexSound
  BY SoundMatches
<1>2. QED
  BY <1>1, SoundInvariant, PTL

(* What two nodes have flushed to their storage servers is the same, entry by
   entry, and is still in both files. *)
THEOREM AppliedAlike ==
  ASSUME SingleElection, SoundDisks
  PROVE  Spec \/ ConnectedSpec => []AppliedAgree
<1>1. Sound => AppliedAgree
  BY SoundApplied
<1>2. QED
  BY <1>1, SoundInvariant, PTL

(* alreadyAppendEntry is set exactly while one append entry or its answer is
   in flight over a live connection. *)
THEOREM OneAppendEntryOutstanding ==
  ASSUME SingleElection, SoundDisks
  PROVE  Spec \/ ConnectedSpec => []OneOutstanding
<1>1. Sound => OneOutstanding
  BY SoundOutstanding
<1>2. QED
  BY <1>1, SoundInvariant, PTL

-----------------------------------------------------------------------------
(* What is committed survives its leader. *)

(* k has the first p entries, and no append entry the candidate has sent it, be
   it alive or not, makes it cut one of them off.                            *)
Keeps(k, p) ==
  /\ p <= Len(log[k])
  /\ k # Candidate => \A m \in Asks(k) : p <= m.prevLogIndex
Keepers(p) == {k \in Node : Keeps(k, p)}

(* A node knows that p is committed, or will when it executes what it has been
   sent.                                                                     *)
Told(p) ==
  \/ \E i \in Node : p <= commitIndex[i]
  \/ \E k \in Sibling(Candidate) : \E m \in Asks(k) : p <= m.leaderCommit

Survives ==
  \A p \in Nat \ {0} : Told(p) => 2 * Cardinality(Keepers(p)) > Cardinality(Node)

Led == role[Candidate] = "L"

LEMMA SurvivesKept ==
  ASSUME Survives,
         \A p \in Nat \ {0} : /\ Told(p)' => Told(p)
                              /\ \A k \in Node : Keeps(k, p) => Keeps(k, p)'
  PROVE  Survives'
<1>1. ASSUME NEW p \in Nat \ {0}, Told(p)'
      PROVE  2 * Cardinality(Keepers(p)') > Cardinality(Node)
  <2>1. 2 * Cardinality(Keepers(p)) > Cardinality(Node)
    BY <1>1 DEF Survives
  <2>2. /\ Keepers(p) \in SUBSET Node /\ Keepers(p)' \in SUBSET Node
        /\ Keepers(p) \subseteq Keepers(p)'
    BY DEF Keepers
  <2>3. QED
    BY <2>1, <2>2, MajorityKept
<1>2. QED
  BY <1>1 DEF Survives

(* While the candidate leads, it knows of the most committed entries, and what
   is safe is kept.                                                          *)
LEMMA LeadingSurvives ==
  ASSUME Sound, Led
  PROVE  Survives
<1> DEFINE c == Candidate
<1>1. /\ c \in Node /\ Leading /\ \A j \in Sibling(c) : Peer(j)
      /\ \A i \in Node : commitIndex[i] \in Nat /\ commitIndex[i] <= Len(log[i])
  BY SoundFacts DEF Led, Sound, ElectionInv
<1>2. ASSUME NEW p \in Nat \ {0}, Told(p)
      PROVE  p \in 1 .. commitIndex[c]
  <2>1. \A i \in Node : commitIndex[i] <= commitIndex[c]
    BY <1>1 DEF Peer, Sibling
  <2>2. CASE \E i \in Node : p <= commitIndex[i]
    BY <1>1, <2>1, <2>2
  <2>3. ASSUME NEW k \in Sibling(c), NEW m \in Asks(k), p <= m.leaderCommit
        PROVE  p <= commitIndex[c]
    <3>1. k \in Node
      BY DEF Sibling
    <3>2. m.leaderCommit \in Nat
      BY <1>1, <3>1, TrafficTypes DEF AppendEntryMessage, Sound
    <3>3. m.leaderCommit <= commitIndex[c]
      BY <1>1 DEF Peer, Attributed
    <3>4. QED
      BY <1>1, <2>3, <3>2, <3>3
  <2>4. QED
    BY <1>1, <1>2, <2>2, <2>3 DEF Told
<1>3. ASSUME NEW p \in 1 .. commitIndex[c], NEW k \in Safe(p)
      PROVE  k \in Keepers(p)
  <2>1. k \in Node /\ p \in Nat /\ p <= commitIndex[c]
    BY <1>1, <1>3 DEF Safe
  <2>2. CASE k = c
    <3>1. log[c] \in Seq(Entry)
      BY <1>1 DEF Sound, LogInv, TypeOK
    <3>2. Len(log[c]) \in Nat
      BY <3>1
    <3>3. QED
      BY <1>1, <2>1, <2>2, <3>2 DEF Keepers, Keeps
  <2>3. CASE k # c
    <3>1. k \in Sibling(c) /\ SafeAt(k, p)
      BY <2>1, <2>3 DEF Safe, Sibling
    <3>2. ASSUME NEW m \in Asks(k)
          PROVE  p <= m.prevLogIndex
      <4>1. Answers(k) = {} /\ ~Ended(chan[k][c]) /\ link[c][k] = "up"
        BY <1>1, <3>1 DEF Peer, Outstanding
      <4>2. p < nextIndex[c][k]
        BY <3>1, <4>1 DEF SafeAt
      <4>3. m.prevLogIndex = nextIndex[c][k] - 1
        BY <1>1, <3>1 DEF Peer, Attributed
      <4>4. nextIndex[c][k] \in Nat
        BY <1>1, <2>1, PeerTypes DEF PeerTyped, Sound
      <4>5. QED
        BY <2>1, <4>2, <4>3, <4>4
    <3>3. QED
      BY <2>1, <3>1, <3>2 DEF SafeAt, Keepers, Keeps
  <2>4. QED
    BY <2>2, <2>3
<1>4. ASSUME NEW p \in Nat \ {0}, Told(p)
      PROVE  2 * Cardinality(Keepers(p)) > Cardinality(Node)
  <2>1. p \in 1 .. commitIndex[c]
    BY <1>2, <1>4
  <2>2. 2 * Cardinality(Safe(p)) > Cardinality(Node)
    BY <1>1, <2>1 DEF Leading
  <2>3. /\ Safe(p) \in SUBSET Node /\ Keepers(p) \in SUBSET Node
        /\ Safe(p) \subseteq Keepers(p)
    BY <1>3, <2>1 DEF Safe, Keepers
  <2>4. QED
    BY <2>2, <2>3, MajorityKept
<1>5. QED
  BY <1>4 DEF Survives

(* A step that writes to no file, sends no append entry, and tells nobody that
   more is committed.                                                        *)
Still ==
  /\ log' = log /\ FewerAll(chan, chan')
  /\ \A i \in Node : commitIndex'[i] <= commitIndex[i]

LEMMA StillSurvives ==
  ASSUME Sound, LogInv', Survives, Still
  PROVE  Survives'
<1>1. Candidate \in Node
      /\ \A i \in Node : commitIndex[i] \in Nat /\ commitIndex'[i] \in Nat
  BY SoundFacts DEF LogInv, TypeOK
<1>2. \A k \in Node : Asks(k)' \subseteq Asks(k)
  BY <1>1, FewerChannels DEF Still, Asks
<1>3. ASSUME NEW p \in Nat \ {0}
      PROVE  /\ Told(p)' => Told(p)
             /\ \A k \in Node : Keeps(k, p) => Keeps(k, p)'
  <2>1. ASSUME NEW i \in Node, p <= commitIndex'[i]
        PROVE  p <= commitIndex[i]
    BY <1>1, <2>1 DEF Still
  <2>2. Told(p)' => Told(p)
    BY <1>2, <2>1 DEF Told, Sibling
  <2>3. \A k \in Node : Keeps(k, p) => Keeps(k, p)'
    BY <1>2 DEF Keeps, Still
  <2>4. QED
    BY <2>2, <2>3
<1>4. QED
  BY <1>3, SurvivesKept

(* A follower executes an append entry: what it keeps reaches past the entry
   before, and what it is told was on its way.                               *)
LEMMA FollowerSurvives ==
  ASSUME Sound, LogInv', Survives, NEW i \in Node, NEW j \in Sibling(i),
         Receives(i, j, "appendentry"),
         NEW success \in BOOLEAN,
         chan' = Answer(chan, i, j, ReplyAppendEntry(i, success)),
         NEW file, log' = [log EXCEPT ![i] = file],
         NEW index, commitIndex' = [commitIndex EXCEPT ![i] = index],
         index \in Nat,
         index <= commitIndex[i] \/ index <= Received(i, j).leaderCommit,
         \A p \in Nat \ {0} :
           p <= Len(log[i]) /\ p <= Received(i, j).prevLogIndex => p <= Len(file)
  PROVE  Survives'
<1> DEFINE c == Candidate
           m == Received(i, j)
<1>1. /\ c \in Node /\ j = c /\ i \in Sibling(c) /\ i # c
      /\ chan[c][i] # << >> /\ m \in Asks(i) /\ m \in AppendEntryMessage
      /\ \A k \in Node : commitIndex[k] \in Nat
  BY SoundFacts, AppendEntryFrom DEF Sibling
<1>2. /\ chan \in Channels(SoundMessage) /\ commitIndex \in [Node -> Nat]
      /\ log \in [Node -> Seq(Entry)]
  BY DEF Sound, LogInv, TypeOK
<1>3. /\ log'[i] = file /\ commitIndex'[i] = index
      /\ \A k \in Node : k # i => log'[k] = log[k] /\ commitIndex'[k] = commitIndex[k]
  BY <1>2
<1>4. /\ chan'[c][i] = Tail(chan[c][i])
      /\ \A k \in Sibling(c) : k # i => chan'[c][k] = chan[c][k]
  <2>1. \A r : /\ Answer(chan, i, c, r)[c][i] = Tail(chan[c][i])
               /\ \A a, b \in Node : ~(a = c /\ b = i) /\ ~(a = i /\ b = c) =>
                                    Answer(chan, i, c, r)[a][b] = chan[a][b]
    BY <1>1, <1>2, AnswerCells
  <2>2. chan' = Answer(chan, i, c, ReplyAppendEntry(i, success))
    BY <1>1
  <2>3. QED
    BY <1>1, <2>1, <2>2 DEF Sibling
<1>5. ASSUME NEW k \in Sibling(c) PROVE Asks(k)' \subseteq Asks(k)
  <2>1. CASE k = i
    <3> DEFINE q == chan[c][i]
    <3>1. q \in Seq(SoundMessage) /\ q # << >>
      BY <1>1, <1>2 DEF Channels
    <3> HIDE DEF q
    <3>2. Fewer(q, Tail(q))
      BY <3>1, OfTypeTail
    <3>3. OfType(Tail(q), "appendentry") \subseteq OfType(q, "appendentry")
      BY <3>2, FewerTypes DEF Appending
    <3>4. QED
      BY <1>4, <2>1, <3>3 DEF Asks, q
  <2>2. CASE k # i
    BY <1>4, <2>2 DEF Asks
  <2>3. QED
    BY <2>1, <2>2
<1> HIDE DEF m
<1>6. ASSUME NEW p \in Nat \ {0}
      PROVE  /\ Told(p)' => Told(p)
             /\ \A k \in Node : Keeps(k, p) => Keeps(k, p)'
  <2>1. ASSUME NEW k \in Node, p <= commitIndex'[k]
        PROVE  Told(p)
    <3>1. CASE k = i /\ index <= m.leaderCommit
      <4>1. p <= m.leaderCommit
        BY <1>1, <1>3, <2>1, <3>1 DEF AppendEntryMessage
      <4>2. QED
        BY <1>1, <4>1 DEF Told
    <3>2. CASE k = i /\ index <= commitIndex[i]
      <4>1. p <= commitIndex[i]
        BY <1>1, <1>3, <2>1, <3>2
      <4>2. QED
        BY <4>1 DEF Told
    <3>3. CASE k # i
      BY <1>3, <2>1, <3>3 DEF Told
    <3>4. QED
      BY <3>1, <3>2, <3>3 DEF m
  <2>2. Told(p)' => Told(p)
    BY <1>5, <2>1 DEF Told
  <2>3. ASSUME NEW k \in Node, Keeps(k, p)
        PROVE  Keeps(k, p)'
    <3>1. k # c => \A x \in Asks(k)' : p <= x.prevLogIndex
      BY <1>5, <2>3 DEF Keeps, Sibling
    <3>2. p <= Len(log'[k])
      <4>1. CASE k = i
        <5>1. p <= m.prevLogIndex
          BY <1>1, <2>3, <4>1 DEF Keeps
        <5>2. QED
          BY <1>3, <2>3, <4>1, <5>1 DEF Keeps, m
      <4>2. CASE k # i
        BY <1>3, <2>3, <4>2 DEF Keeps
      <4>3. QED
        BY <4>1, <4>2
    <3>3. QED
      BY <3>1, <3>2 DEF Keeps
  <2>4. QED
    BY <2>2, <2>3
<1>7. QED
  BY <1>6, SurvivesKept

LEMMA MismatchSurvives ==
  ASSUME Sound, LogInv', Survives, NEW i \in Node, NEW j \in Sibling(i),
         AppendEntryMismatch(i, j)
  PROVE  Survives'
<1> DEFINE m     == Received(i, j)
           file  == log[i]
           whole == log[Candidate]
           new   == AfterMismatch(file, m)
           index == commitIndex[i]
<1>1. /\ Receives(i, j, "appendentry") /\ Mismatch(file, m)
      /\ chan' = Answer(chan, i, j, ReplyAppendEntry(i, FALSE))
      /\ log' = [log EXCEPT ![i] = new] /\ commitIndex' = commitIndex
  BY DEF AppendEntryMismatch, indexVars
<1>2. m \in AppendEntryMessage /\ Repeats(m, whole)
  BY <1>1, AppendEntryFrom DEF AskSound
<1>3. /\ file \in DenseFile /\ whole \in DenseFile /\ IsPrefixOf(file, whole)
      /\ commitIndex[i] \in Nat
  BY SoundFacts, LogFiles DEF FilesInv, Sound
<1>4. m.prevLogIndex # 0 => new = file
  <2> HIDE DEF m, file, whole
  <2>1. QED
    BY <1>1, <1>2, <1>3, MismatchOfPrefix
<1>5. m.prevLogIndex \in Nat
  BY <1>2 DEF AppendEntryMessage
<1>6. commitIndex' = [commitIndex EXCEPT ![i] = index]
  BY <1>1 DEF Sound, LogInv, TypeOK
<1>7. \A p \in Nat \ {0} : p <= Len(log[i]) /\ p <= m.prevLogIndex => p <= Len(new)
  BY <1>4, <1>5
<1>8. index \in Nat /\ index <= commitIndex[i] /\ FALSE \in BOOLEAN
  BY <1>3
<1> HIDE DEF new, index
<1>9. QED
  BY <1>1, <1>6, <1>7, <1>8, FollowerSurvives

LEMMA AcceptedSurvives ==
  ASSUME Sound, LogInv', Survives, NEW i \in Node, NEW j \in Sibling(i),
         AppendEntryAccepted(i, j)
  PROVE  Survives'
<1> DEFINE m     == Received(i, j)
           file  == log[i]
           whole == log[Candidate]
           new   == AfterAppend(file, m)
           index == FollowedCommit(i, m)
<1>1. /\ Receives(i, j, "appendentry") /\ ~Mismatch(file, m)
      /\ m.leaderCommit # 0 => new # << >>
      /\ chan' = Answer(chan, i, j, ReplyAppendEntry(i, TRUE))
      /\ log' = [log EXCEPT ![i] = new]
      /\ commitIndex' = [commitIndex EXCEPT ![i] = index]
  BY DEF AppendEntryAccepted
<1>2. m \in AppendEntryMessage /\ Repeats(m, whole) /\ FollowsPrev(m)
  BY <1>1, AppendEntryFrom DEF AskSound
<1>3. /\ file \in DenseFile /\ whole \in DenseFile /\ IsPrefixOf(file, whole)
      /\ \A p \in DOMAIN whole : whole[p].term >= 1
      /\ commitIndex[i] \in Nat
  BY SoundFacts, LogFiles DEF FilesInv, Sound
<1>4. /\ new \in DenseFile
      /\ m.entry.index = 0 => Len(new) = m.prevLogIndex
      /\ m.entry.index # 0 => Len(new) = m.prevLogIndex + 1
  <2> HIDE DEF m, file, whole
  <2>1. QED
    BY <1>1, <1>2, <1>3, AcceptedPrefix
<1>5. m.prevLogIndex \in Nat /\ m.leaderCommit \in Nat /\ Len(new) \in Nat
  BY <1>2, <1>4 DEF AppendEntryMessage, DenseFile
<1>6. index = IF m.leaderCommit = 0 THEN commitIndex[i]
              ELSE Lesser(m.leaderCommit, Len(new))
  <2>1. m.leaderCommit # 0 => FindLastEntry(new).index = Len(new)
    BY <1>1, <1>4, FindLastEntryDense
  <2>2. QED
    BY <2>1 DEF FollowedCommit
<1>7. \A p \in Nat \ {0} : p <= Len(log[i]) /\ p <= m.prevLogIndex => p <= Len(new)
  BY <1>4, <1>5
<1> HIDE DEF new, index, m, file
<1>8. index \in Nat /\ (index <= commitIndex[i] \/ index <= m.leaderCommit)
  BY <1>3, <1>5, <1>6 DEF Lesser
<1>9. TRUE \in BOOLEAN
  OBVIOUS
<1>10. QED
  BY <1>1, <1>7, <1>8, <1>9, FollowerSurvives DEF m

(* Nothing else happens while nobody leads. *)
LEMMA CronStill ==
  ASSUME Sound, LogInv', ~Led', NEW i \in Node, Cron(i)
  PROVE  Still
<1>1. /\ \A k \in Node : commitIndex[k] \in Nat
      /\ \A k \in Node : k # Candidate => role[k] = "F"
      /\ role \in [Node -> {"F", "C", "L"}]
  BY SoundFacts DEF Sound, LogInv, TypeOK
<1>2. \A S : AlikeAll(chan, Dial(chan, i, S, Alive))
  BY PlainMessages, DialAlike DEF Sound, LogInv
<1>3. ASSUME log' = log, commitIndex' = commitIndex, FewerAll(chan, chan')
      PROVE  Still
  BY <1>1, <1>3 DEF Still
<1>4. ASSUME NEW reachable, CronReconnect(i, reachable)
      PROVE  Still
  <2>1. log' = log /\ commitIndex' = commitIndex
    BY <1>4 DEF CronReconnect, fileVars
  <2>2. \E S : chan' = Dial(chan, i, S, Alive)
    BY <1>4 DEF CronReconnect
  <2>3. QED
    BY <1>2, <1>3, <2>1, <2>2, AlikeFewer
<1>5. ASSUME CronIdle(i)
      PROVE  Still
  <2>1. log' = log /\ commitIndex' = commitIndex
    BY <1>5 DEF CronIdle, fileVars
  <2>2. \E S : chan' = Dial(chan, i, S, Alive)
    BY <1>5 DEF CronIdle
  <2>3. QED
    BY <1>2, <1>3, <2>1, <2>2, AlikeFewer
<1>6. ASSUME CronTimeout(i)
      PROVE  Still
  BY <1>3, <1>6, CronTimeoutFewer DEF CronTimeout, fileVars
<1>7. ~CronWin(i)
  BY <1>1 DEF CronWin, ToLead, Led
<1>8. ~CronLead(i)
  BY <1>1 DEF CronLead, clusterVars, Led
<1>9. QED
  BY <1>4, <1>5, <1>6, <1>7, <1>8, CronNeverExits DEF Cron

LEMMA ExecuteStill ==
  ASSUME Sound, LogInv', ~Led', NEW i \in Node, NEW j \in Sibling(i), Execute(i, j),
         ~AppendEntryMismatch(i, j), ~AppendEntryAccepted(i, j)
  PROVE  Still
<1>1. /\ \A k \in Node : commitIndex[k] \in Nat
      /\ \A k \in Node : k # Candidate => role[k] = "F"
      /\ role \in [Node -> {"F", "C", "L"}]
  BY SoundFacts DEF Sound, LogInv, TypeOK
<1>2. ASSUME log' = log, commitIndex' = commitIndex, FewerAll(chan, chan')
      PROVE  Still
  BY <1>1, <1>2 DEF Still
<1>3. ASSUME NEW type, Receives(i, j, type), chan' = Consume(chan, i, j)
      PROVE  FewerAll(chan, chan')
  BY <1>3, ConsumeCells
<1>4. ~ReplyAppendEntryTrue(i, j)
  BY <1>1 DEF ReplyAppendEntryTrue, clusterVars, Led
<1>5. ASSUME \/ ReplyAppendEntryIgnored(i, j) \/ ReplyAppendEntryHigherTerm(i, j)
             \/ ReplyAppendEntryFalse(i, j) \/ ReplyAppendEntryEmpty(i, j)
             \/ ReplyRequestVoteNoVote(i, j) \/ HandleReplyClusterNode(i, j)
             \/ HandleEof(i, j)
      PROVE  Still
  <2>1. /\ \E type : Receives(i, j, type)
        /\ chan' = Consume(chan, i, j)
        /\ UNCHANGED <<log, commitIndex>>
    BY <1>5 DEF ReplyAppendEntryIgnored, ReplyAppendEntryHigherTerm,
       ReplyAppendEntryFalse, ReplyAppendEntryEmpty, ReplyRequestVoteNoVote,
       HandleReplyClusterNode, HandleEof, indexVars, fileVars
  <2>2. QED
    BY <1>2, <1>3, <2>1
<1>6. ASSUME ReplyRequestVoteCounts(i, j)
      PROVE  Still
  <2>1. /\ Receives(i, j, "replyrequestvote") /\ chan' = Consume(chan, i, j)
        /\ log' = log /\ i = Candidate
    BY <1>1, <1>6 DEF ReplyRequestVoteCounts, fileVars
  <2>2. ~ToLead(i)
    BY <1>1, <2>1 DEF ToLead, Led
  <2>3. commitIndex' = commitIndex
    BY <1>6, <2>2 DEF ReplyRequestVoteCounts
  <2>4. QED
    BY <1>2, <1>3, <2>1, <2>3
<1>7. ASSUME HandleRequestVote(i, j)
      PROVE  Still
  BY <1>2, <1>7, RequestVoteFewer DEF HandleRequestVote, indexVars, fileVars
<1>8. ASSUME HandleClusterNode(i, j)
      PROVE  Still
  BY <1>2, <1>8, ClusterNodeFewer DEF HandleClusterNode, indexVars, fileVars
<1>9. QED
  BY <1>4, <1>5, <1>6, <1>7, <1>8, AppendEntryObeyedAlways DEF Execute

LEMMA FaultStill ==
  ASSUME Sound, LogInv', NEW i \in Node, Fault(i)
  PROVE  Still
<1>1. /\ \A k \in Node : commitIndex[k] \in Nat
      /\ spent.diskFault \in Nat /\ spent.deleteCrash \in Nat
      /\ commitIndex \in [Node -> Nat] /\ chan \in Channels(SoundMessage)
  BY SoundFacts DEF Sound, LogInv, TypeOK
<1>2. ~DiskFault(i) /\ \A j, received : ~CrashInDelete(i, j, received)
  BY <1>1 DEF DiskFault, CrashInDelete, Sound, SoundDisks
<1>3. ASSUME NEW received, Crash(i, received)
      PROVE  Still
  <2>1. /\ log' = log /\ commitIndex' = [commitIndex EXCEPT ![i] = 0]
        /\ chan' = Hangup(chan, i, Connections(i), received)
    BY <1>3 DEF Crash, Stop
  <2>2. FewerAll(chan, chan')
    BY <1>1, <2>1, PlainMessages, HangupFewer
  <2>3. \A k \in Node : commitIndex'[k] <= commitIndex[k]
    BY <1>1, <2>1
  <2>4. QED
    BY <2>1, <2>2, <2>3 DEF Still
<1>4. ASSUME NEW j \in Sibling(i), Reset(i, j)
      PROVE  Still
  <2>1. j \in Node /\ i # j /\ chan' = Break(chan, i, j)
        /\ log' = log /\ commitIndex' = commitIndex
    BY <1>4 DEF Reset, Sibling, indexVars, fileVars
  <2>2. FewerAll(chan, chan')
    BY <1>1, <2>1, BreakFewer
  <2>3. QED
    BY <1>1, <2>1, <2>2 DEF Still
<1>5. ASSUME Restart(i) \/ ChildLost(i)
      PROVE  Still
  <2>1. log' = log /\ commitIndex' = commitIndex /\ chan' = chan
    BY <1>5 DEF Restart, ChildLost, indexVars, fileVars
  <2>2. QED
    BY <1>1, <2>1, AlikeFewer DEF Still
<1>6. QED
  BY <1>2, <1>3, <1>4, <1>5 DEF Fault

LEMMA NextSurvives ==
  ASSUME Sound, LogInv', Survives, ~Led', [Next]_vars
  PROVE  Survives'
<1>1. CASE UNCHANGED vars
  <2>1. /\ \A k \in Node : commitIndex[k] \in Nat
        /\ log' = log /\ commitIndex' = commitIndex /\ chan' = chan
    BY <1>1, SoundFacts DEF vars, indexVars, fileVars
  <2>2. Still
    BY <2>1, AlikeFewer DEF Still
  <2>3. QED
    BY <2>2, StillSurvives
<1>2. ASSUME NEW i \in Node, Client(i) PROVE FALSE
  BY <1>2, SoundFacts DEF Client, ClientRequest, ClientRequestFails, clusterVars, Led
<1>3. ASSUME NEW i \in Node, NEW j \in Sibling(i), Execute(i, j)
      PROVE  Survives'
  BY <1>3, ExecuteStill, StillSurvives, MismatchSurvives, AcceptedSurvives
<1>4. QED
  BY <1>1, <1>2, <1>3, CronStill, FaultStill, StillSurvives DEF Next

LEMMA SurvivorsAgree ==
  ASSUME Sound, Survives
  PROVE  CommittedOnMajority
<1>1. ASSUME NEW i \in Node, NEW p \in 1 .. commitIndex[i]
      PROVE  2 * Cardinality({j \in Node : Agree(i, j, p)}) > Cardinality(Node)
  <2>1. commitIndex[i] \in Nat /\ commitIndex[i] <= Len(log[i])
    BY SoundFacts
  <2>2. log[i] \in Seq(Entry)
    BY DEF Sound, LogInv, TypeOK
  <2>3. Len(log[i]) \in Nat
    BY <2>2
  <2>4. p \in Nat \ {0} /\ p <= commitIndex[i] /\ p <= Len(log[i])
    BY <2>1, <2>3
  <2>5. 2 * Cardinality(Keepers(p)) > Cardinality(Node)
    BY <2>4 DEF Survives, Told
  <2>6. ASSUME NEW k \in Keepers(p)
        PROVE  k \in Node /\ Agree(i, k, p)
    BY <2>4, PrefixesAgree DEF Keepers, Keeps
  <2> DEFINE T == {j \in Node : Agree(i, j, p)}
  <2>7. /\ Keepers(p) \in SUBSET Node /\ T \in SUBSET Node
        /\ Keepers(p) \subseteq T
    BY <2>6 DEF Keepers
  <2> HIDE DEF T
  <2>8. 2 * Cardinality(T) > Cardinality(Node)
    BY <2>5, <2>7, MajorityKept
  <2>9. QED
    BY <2>8 DEF T
<1>2. QED
  BY <1>1 DEF CommittedOnMajority

(* An entry some node knows to be committed is in the log files of a majority,
   though the leader and its siblings crash and restart, and siblings are
   answered for over broken connections: an answer is never counted for another
   append entry, and what a dead leader has sent cuts off nothing of it.     *)
THEOREM CommittedHeldByMajority ==
  ASSUME SingleElection, SoundDisks
  PROVE  Spec \/ ConnectedSpec => []CommittedOnMajority
<1>1. Init \/ ConnectedInit => Survives
  <2>1. SUFFICES ASSUME Init \/ ConnectedInit PROVE Survives
    OBVIOUS
  <2>2. Candidate \in Node /\ InitNodes
    BY <2>1, CandidateNode DEF Init, ConnectedInit
  <2>3. \A i \in Node : commitIndex[i] = 0 /\ \A j \in Node : chan[i][j] = << >>
    BY <2>2 DEF InitNodes
  <2>4. \A k \in Sibling(Candidate) : Asks(k) = {}
    BY <2>2, <2>3, NothingOfType DEF Asks, Sibling
  <2>5. \A p \in Nat \ {0} : ~Told(p)
    BY <2>3, <2>4 DEF Told
  <2>6. QED
    BY <2>5 DEF Survives
<1>2. Sound => LogInv
  BY DEF Sound
<1>3. Sound /\ Led => Survives
  BY LeadingSurvives
<1>4. Sound /\ LogInv' /\ Survives /\ ~Led' /\ [Next]_vars => Survives'
  BY NextSurvives
<1>5. Sound /\ Survives => CommittedOnMajority
  BY SurvivorsAgree
<1>6. QED
  BY <1>1, <1>2, <1>3, <1>4, <1>5, SoundInvariant, PTL DEF Spec, ConnectedSpec

(* A process ends only when it is killed.                                    *)
LEMMA NextNeverExits ==
  ASSUME Sound, NeverExits, [Next]_vars
  PROVE  NeverExits'
<1>1. proc \in [Node -> {"up", "down"} \cup ExitReason]
  BY DEF Sound, LogInv, TypeOK
<1>2. CASE \E i \in Node : proc' = [proc EXCEPT ![i] = "down"]
  BY <1>1, <1>2 DEF NeverExits, ExitReason
<1>3. CASE \E i \in Node : proc' = [proc EXCEPT ![i] = "up"]
  BY <1>1, <1>3 DEF NeverExits, ExitReason
<1>4. CASE proc' = proc
  BY <1>4 DEF NeverExits
<1>5. ASSUME NEW i \in Node, Cron(i)
      PROVE  proc' = proc
  BY <1>5, CronNeverExits DEF Cron, CronReconnect, CronIdle, CronTimeout,
     CronWin, CronLead
<1>6. ASSUME NEW i \in Node, Client(i)
      PROVE  proc' = proc
  BY <1>6 DEF Client, ClientRequest, ClientRequestFails
<1>7. ASSUME NEW i \in Node, NEW j \in Sibling(i), Execute(i, j)
      PROVE  proc' = proc
  <2>1. \A received : ~AppendEntryExits(i, j, received)
    BY AppendEntryObeyedAlways
  <2>2. QED
    BY <1>7, <2>1 DEF Execute, AppendEntryRefused, AppendEntryMismatch,
       AppendEntryFails, AppendEntryAccepted, ReplyAppendEntryIgnored,
       ReplyAppendEntryHigherTerm, ReplyAppendEntryFalse, ReplyAppendEntryEmpty,
       ReplyAppendEntryTrue, HandleRequestVote, ReplyRequestVoteNoVote,
       ReplyRequestVoteCounts, HandleClusterNode, HandleReplyClusterNode, HandleEof
<1>8. ASSUME NEW i \in Node, Fault(i)
      PROVE  proc' \in {proc, [proc EXCEPT ![i] = "down"], [proc EXCEPT ![i] = "up"]}
  BY <1>8 DEF Fault, Restart, ChildLost, DiskFault, Crash, Reset, CrashInDelete, Stop
<1>9. QED
  BY <1>2, <1>3, <1>4, <1>5, <1>6, <1>7, <1>8 DEF Next, vars

(* With one election timeout flushServer() never finds more applied than
   committed, and an append entry is neither asked of a node that does not
   lead nor told of a commit that an empty file cannot follow: none of the
   three exit() calls of ExitReason is reached. *)
THEOREM NoProcessExits ==
  ASSUME SingleElection, SoundDisks
  PROVE  Spec \/ ConnectedSpec => []NeverExits
<1>1. Init \/ ConnectedInit => NeverExits
  BY DEF Init, ConnectedInit, InitNodes, NeverExits, ExitReason
<1>2. Sound /\ NeverExits /\ [Next]_vars => NeverExits'
  BY NextNeverExits
<1>3. QED
  BY <1>1, <1>2, SoundInvariant, PTL DEF Spec, ConnectedSpec

-----------------------------------------------------------------------------
(* Cluster implements ReplicatedLog. *)

(* The requests in the first n entries of the candidate's file, which all
   other files repeat.                                                       *)
Whole(n) == [p \in 1 .. n |-> log[Candidate][p].content]

(* What is committed, as a number of entries.                                *)
Reach == commitIndex[BestInformed]

Mapped ==
  /\ Reach \in Nat /\ Reach <= Len(log[Candidate])
  /\ \E i \in Node : Reach = commitIndex[i]
  /\ \A i \in Node : commitIndex[i] <= Reach
  /\ Committed = Whole(Reach)
  /\ Storage = [i \in Node |-> Whole(lastApplied[i])]

LEMMA RequestsWhole ==
  ASSUME Sound, NEW i \in Node, NEW n \in Nat, n <= Len(log[i])
  PROVE  Requests(log[i], n) = Whole(n) /\ n <= Len(log[Candidate])
<1>1. /\ Candidate \in Node /\ IsPrefixOf(log[i], log[Candidate])
      /\ log[i] \in DenseFile /\ log[Candidate] \in DenseFile
  BY SoundFacts, LogFiles DEF FilesInv, Sound
<1>2. /\ log[i] \in Seq(Entry) /\ Len(log[i]) \in Nat /\ Len(log[Candidate]) \in Nat
      /\ DOMAIN log[i] = 1 .. Len(log[i]) /\ Len(log[i]) <= Len(log[Candidate])
  BY <1>1 DEF DenseFile, IsPrefixOf
<1>3. ASSUME NEW p \in 1 .. n
      PROVE  FindEntry(log[i], p).content = log[Candidate][p].content
  <2>1. p \in Nat /\ p \in DOMAIN log[i]
    BY <1>2
  <2>2. HasEntry(log[i], p)
    BY <1>1, <2>1 DEF DenseFile, Dense, HasEntry
  <2>3. FindEntry(log[i], p) = log[i][p]
    BY <1>1, <2>1, <2>2, FindEntryDense
  <2>4. QED
    BY <1>1, <2>1, <2>3 DEF IsPrefixOf
<1>4. QED
  BY <1>2, <1>3 DEF Requests, Whole

(* Numbers that have an upper bound have a greatest one among them.          *)
LEMMA GreatestIndex ==
  ASSUME Sound
  PROVE  \E i \in Node : \A j \in Node : commitIndex[j] <= commitIndex[i]
<1>1. /\ Candidate \in Node
      /\ \A i \in Node : commitIndex[i] \in Nat /\ commitIndex[i] <= Len(log[i])
      /\ \A i \in Node : Len(log[i]) <= Len(log[Candidate])
  BY SoundFacts DEF FilesInv, IsPrefixOf
<1>2. log \in [Node -> Seq(Entry)]
  BY DEF Sound, LogInv, TypeOK
<1>3. \A i \in Node : Len(log[i]) \in Nat
  BY <1>2
<1> DEFINE T == {n \in Nat : \A i \in Node : commitIndex[i] <= n}
<1>4. Len(log[Candidate]) \in T
  BY <1>1, <1>3
<1>5. PICK n \in T : \A k \in T : ~(<<k, n>> \in OpToRel(<, Nat))
  <2>1. T \subseteq Nat /\ T # {}
    BY <1>4
  <2> HIDE DEF T
  <2>2. QED
    BY <2>1, NatLessThanWellFounded, WFMin
<1>6. \A k \in T : ~(k < n)
  BY <1>5 DEF OpToRel
<1>7. CASE \E i \in Node : commitIndex[i] = n
  BY <1>1, <1>7
<1>8. CASE \A i \in Node : commitIndex[i] # n
  <2>1. n \in Nat /\ \A i \in Node : commitIndex[i] <= n
    OBVIOUS
  <2>2. n # 0
    BY <1>1, <1>8, <2>1
  <2>3. n - 1 \in T
    BY <1>1, <1>8, <2>1, <2>2
  <2>4. QED
    BY <1>6, <2>1, <2>3
<1>9. QED
  BY <1>7, <1>8

LEMMA SoundMapped ==
  ASSUME Sound
  PROVE  Mapped
<1>1. BestInformed \in Node /\ \A j \in Node : commitIndex[j] <= commitIndex[BestInformed]
  BY GreatestIndex DEF BestInformed
<1>2. \A i \in Node : /\ commitIndex[i] \in Nat /\ lastApplied[i] \in Nat
                      /\ lastApplied[i] <= commitIndex[i]
                      /\ commitIndex[i] <= Len(log[i])
  BY SoundFacts
<1>3. log \in [Node -> Seq(Entry)]
  BY DEF Sound, LogInv, TypeOK
<1>4. \A i \in Node : Len(log[i]) \in Nat /\ lastApplied[i] <= Len(log[i])
  BY <1>2, <1>3
<1>5. \A i \in Node : Requests(log[i], lastApplied[i]) = Whole(lastApplied[i])
  BY <1>2, <1>4, RequestsWhole
<1>6. Committed = Whole(Reach) /\ Reach <= Len(log[Candidate])
  BY <1>1, <1>2, RequestsWhole DEF Committed, Reach
<1>7. QED
  BY <1>1, <1>2, <1>5, <1>6 DEF Mapped, Reach, Storage

(* Shapes of a step, in a cluster where no process ends: more is committed,  *)
(* or a node flushes an entry, or starts over.                               *)

Extends ==
  /\ lastApplied' = lastApplied
  /\ \A i \in Node : commitIndex[i] <= commitIndex'[i]
  /\ IsPrefixOf(log[Candidate], log'[Candidate])

Applies ==
  /\ commitIndex' = commitIndex /\ log' = log
  /\ \E i \in Node :
       \/ lastApplied' = [lastApplied EXCEPT ![i] = 0]
       \/ /\ lastApplied[i] < commitIndex[i]
          /\ lastApplied' = [lastApplied EXCEPT ![i] = lastApplied[i] + 1]

LEMMA PrefixOfItself ==
  ASSUME Sound
  PROVE  IsPrefixOf(log[Candidate], log[Candidate])
BY SoundFacts DEF FilesInv

LEMMA ExtendsSame ==
  ASSUME Sound, UNCHANGED <<indexVars, log>>
  PROVE  Extends
<1>1. /\ commitIndex' = commitIndex /\ lastApplied' = lastApplied /\ log' = log
  BY DEF indexVars
<1>2. \A i \in Node : commitIndex[i] \in Nat
  BY SoundFacts
<1>3. QED
  BY <1>1, <1>2, PrefixOfItself DEF Extends

LEMMA CronShape ==
  ASSUME Sound, NEW i \in Node, Cron(i)
  PROVE  Extends \/ Applies
<1>1. /\ commitIndex \in [Node -> Nat] /\ lastApplied \in [Node -> Nat]
  BY DEF Sound, LogInv, TypeOK
<1>2. ASSUME CronBegins(i), commitIndex' = commitIndex, log' = log
      PROVE  Extends \/ Applies
  <2>1. CASE lastApplied[i] < commitIndex[i]
    <3>1. lastApplied' = [lastApplied EXCEPT ![i] = lastApplied[i] + 1]
      BY <1>2, <2>1 DEF CronBegins
    <3>2. QED
      BY <1>2, <2>1, <3>1 DEF Applies
  <2>2. CASE ~(lastApplied[i] < commitIndex[i])
    <3>1. lastApplied' = lastApplied
      BY <1>1, <1>2, <2>2 DEF CronBegins
    <3>2. QED
      BY <1>1, <1>2, <3>1, PrefixOfItself DEF Extends
  <2>3. QED
    BY <2>1, <2>2
<1>3. ASSUME NEW reachable \in BOOLEAN, CronReconnect(i, reachable)
      PROVE  Extends \/ Applies
  <2>1. /\ commitIndex' = commitIndex /\ log' = log
        /\ lastApplied' = lastApplied \/ lastApplied' = [lastApplied EXCEPT ![i] = 0]
    BY <1>3 DEF CronReconnect, fileVars
  <2>2. QED
    BY <1>1, <2>1, PrefixOfItself DEF Extends, Applies
<1>4. ASSUME CronWin(i)
      PROVE  Extends
  <2>1. i = Candidate /\ Quiet
    BY <1>4, SoundFacts DEF CronWin, Sound, ElectionInv
  <2>2. Len(log[i]) = 0 /\ FindLastEntry(log[i]).index = 0
    BY <2>1 DEF Quiet, FindLastEntry, NullEntry
  <2>3. commitIndex[i] = 0 /\ lastApplied[i] = 0
    BY <2>2, SoundFacts
  <2>4. commitIndex' = [commitIndex EXCEPT ![i] = 0]
    BY <1>4, <2>2 DEF CronWin, ToLead
  <2>5. commitIndex' = commitIndex
    BY <1>1, <2>3, <2>4
  <2>6. lastApplied' = lastApplied
    BY <1>1, <1>4, <2>3 DEF CronWin, CronBegins
  <2>7. log' = log
    BY <1>4 DEF CronWin, fileVars
  <2>8. QED
    BY <1>1, <2>5, <2>6, <2>7, PrefixOfItself DEF Extends
<1>5. ASSUME CronIdle(i) \/ CronTimeout(i) \/ CronLead(i)
      PROVE  Extends \/ Applies
  <2>1. CronBegins(i) /\ commitIndex' = commitIndex /\ log' = log
    BY <1>5 DEF CronIdle, CronTimeout, CronLead, fileVars
  <2>2. QED
    BY <1>2, <2>1
<1>6. QED
  BY <1>3, <1>4, <1>5, CronNeverExits DEF Cron

LEMMA AcceptedExtends ==
  ASSUME Sound, NEW i \in Node, NEW j \in Sibling(i), AppendEntryAccepted(i, j)
  PROVE  Extends
<1> DEFINE m     == Received(i, j)
           file  == log[i]
           whole == log[Candidate]
           new   == AfterAppend(file, m)
           index == FollowedCommit(i, m)
<1>1. /\ Receives(i, j, "appendentry") /\ ~Mismatch(file, m)
      /\ m.leaderCommit # 0 => new # << >>
      /\ log' = [log EXCEPT ![i] = new]
      /\ commitIndex' = [commitIndex EXCEPT ![i] = index]
      /\ lastApplied' = lastApplied
  BY DEF AppendEntryAccepted
<1>2. /\ m \in AppendEntryMessage /\ Repeats(m, whole) /\ FollowsPrev(m)
      /\ commitIndex[i] <= m.prevLogIndex /\ commitIndex[i] <= m.leaderCommit
      /\ i # Candidate
  BY <1>1, AppendEntryFrom DEF AskSound, Sibling
<1>3. /\ file \in DenseFile /\ whole \in DenseFile /\ IsPrefixOf(file, whole)
      /\ \A p \in DOMAIN whole : whole[p].term >= 1
      /\ Candidate \in Node
      /\ \A k \in Node : commitIndex[k] \in Nat
  BY SoundFacts, LogFiles DEF FilesInv, Sound
<1>4. /\ new \in DenseFile
      /\ m.entry.index = 0 => Len(new) = m.prevLogIndex
      /\ m.entry.index # 0 => Len(new) = m.prevLogIndex + 1
  <2> HIDE DEF m, file, whole
  <2>1. QED
    BY <1>1, <1>2, <1>3, AcceptedPrefix
<1>5. m.prevLogIndex \in Nat /\ m.leaderCommit \in Nat /\ Len(new) \in Nat
  BY <1>2, <1>4 DEF AppendEntryMessage, DenseFile
<1>6. index = IF m.leaderCommit = 0 THEN commitIndex[i]
              ELSE Lesser(m.leaderCommit, Len(new))
  <2>1. m.leaderCommit # 0 => FindLastEntry(new).index = Len(new)
    BY <1>1, <1>4, FindLastEntryDense
  <2>2. QED
    BY <2>1 DEF FollowedCommit
<1> HIDE DEF new, index, m, file
<1>7. commitIndex[i] <= index
  BY <1>2, <1>3, <1>4, <1>5, <1>6 DEF Lesser
<1>8. log \in [Node -> Seq(Entry)] /\ commitIndex \in [Node -> Nat]
  BY DEF Sound, LogInv, TypeOK
<1>9. log'[Candidate] = log[Candidate]
  BY <1>1, <1>2, <1>3, <1>8
<1>10. \A k \in Node : commitIndex[k] <= commitIndex'[k]
  BY <1>1, <1>3, <1>7, <1>8
<1>11. QED
  BY <1>1, <1>9, <1>10, PrefixOfItself DEF Extends

LEMMA ExecuteShape ==
  ASSUME Sound, NEW i \in Node, NEW j \in Sibling(i), Execute(i, j)
  PROVE  Extends
<1>1. /\ log \in [Node -> Seq(Entry)] /\ commitIndex \in [Node -> Nat]
      /\ matchIndex \in Table(Nat) /\ nextIndex \in Table(Nat)
  BY DEF Sound, LogInv, TypeOK, Table
<1>2. ASSUME AppendEntryMismatch(i, j)
      PROVE  Extends
  <2>1. i # Candidate /\ Candidate \in Node
    BY <1>2, SoundFacts, AppendEntryFrom DEF AppendEntryMismatch, Sibling
  <2>2. /\ log' = [log EXCEPT ![i] = AfterMismatch(@, Received(i, j))]
        /\ commitIndex' = commitIndex /\ lastApplied' = lastApplied
    BY <1>2 DEF AppendEntryMismatch, indexVars
  <2>3. log'[Candidate] = log[Candidate]
    BY <1>1, <2>1, <2>2
  <2>4. QED
    BY <1>1, <2>2, <2>3, PrefixOfItself DEF Extends
<1>3. ASSUME ReplyAppendEntryTrue(i, j)
      PROVE  Extends
  <2> DEFINE matched == {k \in Sibling(i) : k = j \/ matchIndex[i][k] >= nextIndex[i][j]}
             commit == CheckIfEntryCouldCommit(i, nextIndex[i][j], matched)
  <2>1. /\ commitIndex' = [commitIndex EXCEPT ![i] = commit]
        /\ lastApplied' = lastApplied /\ log' = log
    BY <1>3 DEF ReplyAppendEntryTrue, fileVars
  <2>2. nextIndex[i][j] \in Nat
    BY <1>1 DEF Table, Sibling
  <2>3. commitIndex[i] <= commit
    BY <1>1, <2>2 DEF CheckIfEntryCouldCommit
  <2> HIDE DEF commit
  <2>4. \A k \in Node : commitIndex[k] <= commitIndex'[k]
    BY <1>1, <2>1, <2>3
  <2>5. QED
    BY <2>1, <2>4, PrefixOfItself DEF Extends
<1>4. ASSUME ReplyRequestVoteCounts(i, j)
      PROVE  Extends
  <2>1. i = Candidate /\ Quiet
    BY <1>4, SoundFacts DEF ReplyRequestVoteCounts, Sound, ElectionInv
  <2>2. Len(log[i]) = 0 /\ FindLastEntry(log[i]).index = 0
    BY <2>1 DEF Quiet, FindLastEntry, NullEntry
  <2>3. commitIndex[i] = 0
    BY <2>2, SoundFacts
  <2>4. commitIndex' = [commitIndex EXCEPT ![i] = 0] \/ commitIndex' = commitIndex
    BY <1>4, <2>2 DEF ReplyRequestVoteCounts, ToLead
  <2>5. commitIndex' = commitIndex
    BY <1>1, <2>3, <2>4
  <2>6. lastApplied' = lastApplied /\ log' = log
    BY <1>4 DEF ReplyRequestVoteCounts, fileVars
  <2>7. QED
    BY <1>1, <2>5, <2>6, PrefixOfItself DEF Extends
<1>5. ASSUME \/ ReplyAppendEntryIgnored(i, j) \/ ReplyAppendEntryHigherTerm(i, j)
             \/ ReplyAppendEntryFalse(i, j) \/ ReplyAppendEntryEmpty(i, j)
             \/ HandleRequestVote(i, j) \/ ReplyRequestVoteNoVote(i, j)
             \/ HandleClusterNode(i, j) \/ HandleReplyClusterNode(i, j) \/ HandleEof(i, j)
      PROVE  Extends
  <2>1. UNCHANGED <<indexVars, log>>
    BY <1>5 DEF ReplyAppendEntryIgnored, ReplyAppendEntryHigherTerm,
       ReplyAppendEntryFalse, ReplyAppendEntryEmpty, HandleRequestVote,
       ReplyRequestVoteNoVote, HandleClusterNode, HandleReplyClusterNode, HandleEof,
       fileVars
  <2>2. QED
    BY <2>1, ExtendsSame
<1>6. \A received : ~AppendEntryExits(i, j, received)
  BY AppendEntryObeyedAlways
<1>7. QED
  BY <1>2, <1>3, <1>4, <1>5, <1>6, AppendEntryObeyedAlways, AcceptedExtends DEF Execute

LEMMA NextShape ==
  ASSUME Sound, MaxCrash = 0, [Next]_vars
  PROVE  Extends \/ Applies
<1>1. CASE UNCHANGED vars
  BY <1>1, ExtendsSame DEF vars, fileVars
<1>2. ASSUME NEW i \in Node, Client(i)
      PROVE  Extends
  <2>1. ~ClientRequestFails(i)
    BY SoundFacts DEF ClientRequestFails
  <2>2. ClientRequest(i)
    BY <1>2, <2>1 DEF Client
  <2> DEFINE entry == [index |-> lastEntryIndex[i] + 1, term |-> currentTerm[i],
                       content |-> spent.request + 1]
  <2>3. /\ role[i] = "L" /\ log' = [log EXCEPT ![i] = Append(@, entry)]
        /\ commitIndex' = commitIndex /\ lastApplied' = lastApplied
    BY <2>2 DEF ClientRequest
  <2>4. i = Candidate
    BY <2>3, SoundFacts
  <2>5. /\ log \in [Node -> Seq(Entry)] /\ commitIndex \in [Node -> Nat]
        /\ currentTerm[i] \in Nat /\ lastEntryIndex[i] \in Nat /\ spent.request \in Nat
    BY DEF Sound, LogInv, TypeOK
  <2>6. entry \in Entry
    BY <2>5 DEF Entry
  <2> HIDE DEF entry
  <2>7. log[i] \in Seq(Entry) /\ log'[i] = Append(log[i], entry)
    BY <2>3, <2>5
  <2>8. /\ Len(Append(log[i], entry)) = Len(log[i]) + 1 /\ Len(log[i]) \in Nat
        /\ DOMAIN log[i] = 1 .. Len(log[i])
        /\ \A p \in 1 .. Len(log[i]) : Append(log[i], entry)[p] = log[i][p]
    BY <2>6, <2>7
  <2>9. IsPrefixOf(log[i], log'[i])
    BY <2>7, <2>8 DEF IsPrefixOf
  <2>10. QED
    BY <2>3, <2>4, <2>5, <2>9 DEF Extends
<1>3. ASSUME NEW i \in Node, Fault(i)
      PROVE  Extends
  <2>1. spent.crash \in Nat /\ spent.diskFault \in Nat /\ spent.deleteCrash \in Nat
    BY DEF Sound, LogInv, TypeOK
  <2>2. \A j, received : ~Crash(i, received) /\ ~CrashInDelete(i, j, received)
    BY <2>1 DEF Crash, CrashInDelete, Sound, SoundDisks
  <2>3. ~DiskFault(i)
    BY <2>1 DEF DiskFault, Sound, SoundDisks
  <2>4. Restart(i) \/ ChildLost(i) \/ \E j \in Sibling(i) : Reset(i, j)
    BY <1>3, <2>2, <2>3 DEF Fault
  <2>5. UNCHANGED <<indexVars, log>>
    BY <2>4 DEF Restart, ChildLost, Reset, fileVars
  <2>6. QED
    BY <2>5, ExtendsSame
<1>4. QED
  BY <1>1, <1>2, <1>3, CronShape, ExecuteShape DEF Next

(* The mapped variables. *)

LEMMA SeqOfNat ==
  ASSUME NEW n \in Nat, NEW f \in [1 .. n -> Nat]
  PROVE  f \in Seq(Nat) /\ Len(f) = n
<1>1. f \in Seq(Nat)
  BY SeqDef
<1>2. DOMAIN f = 1 .. Len(f) /\ DOMAIN f = 1 .. n /\ Len(f) \in Nat
  BY <1>1
<1>3. QED
  BY <1>1, <1>2

LEMMA LenOfCandidate ==
  ASSUME Sound
  PROVE  Len(log[Candidate]) \in Nat
<1>1. log[Candidate] \in Seq(Entry)
  BY SoundFacts DEF Sound, LogInv, TypeOK
<1>2. QED
  BY <1>1

LEMMA WholeSeq ==
  ASSUME Sound, NEW n \in Nat, n <= Len(log[Candidate])
  PROVE  /\ Whole(n) \in Seq(Nat) /\ Len(Whole(n)) = n
         /\ DOMAIN Whole(n) = 1 .. n
         /\ \A p \in 1 .. n : Whole(n)[p] = log[Candidate][p].content
<1>1. log[Candidate] \in Seq(Entry)
  BY SoundFacts DEF Sound, LogInv, TypeOK
<1>2. ASSUME NEW p \in 1 .. n
      PROVE  log[Candidate][p].content \in Nat
  <2>1. p \in 1 .. Len(log[Candidate])
    BY <1>1
  <2>2. log[Candidate][p] \in Entry
    BY <1>1, <2>1
  <2>3. QED
    BY <2>2 DEF Entry
<1>3. Whole(n) \in [1 .. n -> Nat]
  BY <1>2 DEF Whole
<1>4. Whole(n) \in Seq(Nat) /\ Len(Whole(n)) = n
  BY <1>3, SeqOfNat
<1>5. QED
  BY <1>3, <1>4 DEF Whole

LEMMA WholeAppend ==
  ASSUME Sound, NEW n \in Nat, NEW r \in Nat, n < r, r <= Len(log[Candidate])
  PROVE  Whole(n + 1) = Append(Whole(n), Whole(r)[n + 1])
<1>1. /\ Whole(n) \in Seq(Nat) /\ Len(Whole(n)) = n
      /\ \A p \in 1 .. n : Whole(n)[p] = log[Candidate][p].content
  <2>1. n <= Len(log[Candidate])
    BY LenOfCandidate
  <2>2. QED
    BY <2>1, WholeSeq
<1>2. /\ Whole(n + 1) \in Seq(Nat) /\ Len(Whole(n + 1)) = n + 1
      /\ \A p \in 1 .. n + 1 : Whole(n + 1)[p] = log[Candidate][p].content
  <2>1. n + 1 \in Nat /\ n + 1 <= Len(log[Candidate])
    BY LenOfCandidate
  <2>2. QED
    BY <2>1, WholeSeq
<1>3. /\ Whole(r) \in Seq(Nat) /\ Len(Whole(r)) = r
      /\ \A p \in 1 .. r : Whole(r)[p] = log[Candidate][p].content
  BY WholeSeq
<1> DEFINE a == Whole(n)
           b == Whole(n + 1)
           x == Whole(r)[n + 1]
<1>4. n + 1 \in 1 .. r /\ n + 1 \in 1 .. n + 1
  OBVIOUS
<1>5. x \in Nat /\ b[n + 1] = x
  BY <1>2, <1>3, <1>4
<1>6. ASSUME NEW p \in 1 .. n
      PROVE  b[p] = a[p]
  <2>1. p \in 1 .. n + 1
    OBVIOUS
  <2>2. a[p] = log[Candidate][p].content
    BY <1>1
  <2>3. b[p] = log[Candidate][p].content
    BY <1>2, <2>1
  <2>4. QED
    BY <2>2, <2>3
<1>7. a \in Seq(Nat) /\ b \in Seq(Nat) /\ Len(a) = n /\ Len(b) = n + 1
  BY <1>1, <1>2
<1> HIDE DEF a, b, x
<1>8. Append(a, x) \in Seq(Nat) /\ Len(Append(a, x)) = n + 1
  BY <1>5, <1>7
<1>9. \A p \in 1 .. n + 1 : b[p] = Append(a, x)[p]
  BY <1>5, <1>6, <1>7
<1>10. b = Append(a, x)
  BY <1>7, <1>8, <1>9, SeqEqual
<1>11. QED
  BY <1>10 DEF a, b, x

(* Entries the candidate's file already has stay the same.                   *)
LEMMA WholeKept ==
  ASSUME Sound, IsPrefixOf(log[Candidate], log'[Candidate]),
         NEW n \in Nat, n <= Len(log[Candidate])
  PROVE  [p \in 1 .. n |-> log'[Candidate][p].content] = Whole(n)
<1>1. DOMAIN log[Candidate] = 1 .. Len(log[Candidate])
  <2>1. log[Candidate] \in Seq(Entry)
    BY SoundFacts DEF Sound, LogInv, TypeOK
  <2>2. QED
    BY <2>1
<1>2. \A p \in 1 .. n : log'[Candidate][p] = log[Candidate][p]
  BY <1>1, LenOfCandidate DEF IsPrefixOf
<1>3. QED
  BY <1>2 DEF Whole

(* A node flushes an entry, or starts over.                                  *)
LEMMA AppliesMaps ==
  ASSUME Sound, Mapped, Mapped', Applies
  PROVE  Abstract!Next
<1>1. commitIndex' = commitIndex /\ log' = log
  BY DEF Applies
<1>2. /\ \A i \in Node : commitIndex[i] \in Nat /\ lastApplied[i] \in Nat
      /\ lastApplied \in [Node -> Nat]
  BY SoundFacts DEF Sound, LogInv, TypeOK
<1>3. /\ Reach \in Nat /\ Reach <= Len(log[Candidate])
      /\ \E i \in Node : Reach = commitIndex[i]
      /\ \A i \in Node : commitIndex[i] <= Reach
      /\ Committed = Whole(Reach)
      /\ Storage = [i \in Node |-> Whole(lastApplied[i])]
  BY DEF Mapped
<1>4. PICK r : r = Reach'
  OBVIOUS
<1>5. /\ r \in Nat /\ \E i \in Node : r = commitIndex'[i]
      /\ \A i \in Node : commitIndex'[i] <= r
      /\ Committed' = [p \in 1 .. r |-> log'[Candidate][p].content]
      /\ Storage' = [i \in Node |->
                       [p \in 1 .. lastApplied'[i] |-> log'[Candidate][p].content]]
  BY <1>4 DEF Mapped, Whole
<1>6. r = Reach
  BY <1>1, <1>2, <1>3, <1>5
<1>7. Committed' = Committed
  BY <1>1, <1>3, <1>5, <1>6 DEF Whole
<1>8. Storage' = [i \in Node |-> Whole(lastApplied'[i])]
  BY <1>1, <1>5 DEF Whole
<1>9. ASSUME NEW i \in Node, lastApplied' = [lastApplied EXCEPT ![i] = 0]
      PROVE  Abstract!StartOver(i)
  <2>1. Whole(0) = << >>
    BY DEF Whole
  <2>2. Storage' = [Storage EXCEPT ![i] = Whole(0)]
    BY <1>2, <1>3, <1>8, <1>9
  <2>3. QED
    BY <1>7, <2>1, <2>2 DEF Abstract!StartOver
<1>10. ASSUME NEW i \in Node, lastApplied[i] < commitIndex[i],
              lastApplied' = [lastApplied EXCEPT ![i] = lastApplied[i] + 1]
       PROVE  Abstract!Flush(i)
  <2> DEFINE n == lastApplied[i]
  <2>1. n \in Nat /\ n < Reach /\ n <= Len(log[Candidate])
    BY <1>2, <1>3, <1>10, LenOfCandidate
  <2>2. Len(Storage[i]) = n /\ Storage[i] = Whole(n) /\ Len(Committed) = Reach
    BY <1>3, <2>1, WholeSeq
  <2>3. Whole(n + 1) = Append(Storage[i], Committed[n + 1])
    BY <1>3, <2>1, <2>2, WholeAppend
  <2>4. Storage' = [Storage EXCEPT ![i] = Whole(n + 1)]
    BY <1>2, <1>3, <1>8, <1>10
  <2> HIDE DEF n
  <2>5. Storage' = [Storage EXCEPT ![i] = Append(@, Committed[Len(@) + 1])]
    BY <2>2, <2>3, <2>4
  <2>6. QED
    BY <1>7, <2>1, <2>2, <2>5 DEF Abstract!Flush
<1>11. QED
  BY <1>9, <1>10 DEF Applies, Abstract!Next

LEMMA NumberedRequests ==
  ASSUME RequestInv', NEW i \in Node, NEW p \in DOMAIN log'[i]
  PROVE  log'[i][p].content \in 1 .. spent'.request
<1>1. log'[i][p] \in Entries'
  <2>1. log'[i][p] \in {log'[i][n] : n \in DOMAIN log'[i]}
    OBVIOUS
  <2>2. QED
    BY <2>1 DEF Entries, InFiles
<1>2. QED
  BY <1>1 DEF RequestInv

(* More is committed, or nothing a client could tell happens.                *)
LEMMA ExtendsMaps ==
  ASSUME Sound, LogInv', Mapped, Mapped', RequestInv', Extends
  PROVE  Abstract!Commit \/ UNCHANGED Abstract!vars
<1>1. /\ lastApplied' = lastApplied
      /\ \A i \in Node : commitIndex[i] <= commitIndex'[i]
      /\ IsPrefixOf(log[Candidate], log'[Candidate])
  BY DEF Extends
<1>2. \A i \in Node : /\ commitIndex[i] \in Nat /\ lastApplied[i] \in Nat
                      /\ lastApplied[i] <= commitIndex[i]
  BY SoundFacts
<1>3. /\ Reach \in Nat /\ Reach <= Len(log[Candidate])
      /\ \E i \in Node : Reach = commitIndex[i]
      /\ \A i \in Node : commitIndex[i] <= Reach
      /\ Committed = Whole(Reach)
      /\ Storage = [i \in Node |-> Whole(lastApplied[i])]
  BY DEF Mapped
<1>4. PICK r : r = Reach'
  OBVIOUS
<1> DEFINE After(n) == [p \in 1 .. n |-> log'[Candidate][p].content]
<1>5. /\ r \in Nat /\ r <= Len(log'[Candidate])
      /\ \E i \in Node : r = commitIndex'[i]
      /\ \A i \in Node : commitIndex'[i] <= r
      /\ Committed' = After(r)
      /\ Storage' = [i \in Node |-> After(lastApplied'[i])]
  BY <1>4 DEF Mapped, Whole
<1>6. Reach <= r
  <2>1. PICK i \in Node : Reach = commitIndex[i]
    BY <1>3
  <2>2. Reach <= commitIndex'[i] /\ commitIndex'[i] <= r
    BY <1>1, <1>5, <2>1
  <2>3. PICK k \in Node : r = commitIndex'[k]
    BY <1>5
  <2>4. commitIndex' \in [Node -> Nat]
    BY DEF LogInv, TypeOK
  <2>5. QED
    BY <1>3, <1>5, <2>2, <2>4
<1>7. /\ log' \in [Node -> Seq(Entry)] /\ spent'.request \in Nat /\ Candidate \in Node
      /\ MaxRequest \in Nat
  BY SoundFacts, BoundAssumption DEF LogInv, TypeOK
<1>8. /\ Len(log'[Candidate]) \in Nat
      /\ DOMAIN log'[Candidate] = 1 .. Len(log'[Candidate])
  BY <1>7
<1>9. \A n \in Nat : n <= Len(log[Candidate]) => After(n) = Whole(n)
  BY <1>1, WholeKept
<1>10. UNCHANGED Storage
  <2>1. \A i \in Node : lastApplied[i] <= Reach /\ lastApplied[i] <= Len(log[Candidate])
    BY <1>2, <1>3, LenOfCandidate
  <2>2. \A i \in Node : After(lastApplied'[i]) = Whole(lastApplied[i])
    BY <1>1, <1>2, <1>9, <2>1
  <2> HIDE DEF After
  <2>3. QED
    BY <1>3, <1>5, <2>2
<1>11. CASE r = Reach
  <2>1. Committed' = Committed
    BY <1>3, <1>5, <1>9, <1>11
  <2>2. QED
    BY <1>10, <2>1 DEF Abstract!vars
<1>12. CASE r # Reach
  <2> DEFINE more == After(r)
             less == Whole(Reach)
  <2>1. Reach < r
    BY <1>3, <1>5, <1>6, <1>12
  <2>2. \A p \in 1 .. r : more[p] = log'[Candidate][p].content
    OBVIOUS
  <2>3. \A p \in 1 .. r : p \in DOMAIN log'[Candidate]
    BY <1>5, <1>8
  <2>4. \A p \in 1 .. r : more[p] \in 1 .. MaxRequest
    <3>1. \A p \in 1 .. r : more[p] \in 1 .. spent'.request
      BY <1>7, <2>2, <2>3, NumberedRequests
    <3>2. spent'.request <= MaxRequest
      BY DEF RequestInv
    <3>3. QED
      BY <1>7, <3>1, <3>2
  <2>5. \A p, q \in 1 .. r : more[p] = more[q] => p = q
    <3>1. RequestsOnce'
      BY OnceEach, PTL
    <3>2. QED
      BY <1>7, <2>2, <2>3, <3>1 DEF RequestsOnce
  <2>6. more \in [1 .. r -> Nat]
    BY <1>7, <2>4
  <2>7. more \in Seq(Nat) /\ Len(more) = r /\ DOMAIN more = 1 .. r
    BY <1>5, <2>6, SeqOfNat
  <2>8. less \in Seq(Nat) /\ Len(less) = Reach
    BY <1>3, WholeSeq
  <2>9. \A p \in 1 .. Reach : less[p] = more[p]
    <3>1. After(Reach) = less
      BY <1>3, <1>9
    <3>2. \A p \in 1 .. Reach : After(Reach)[p] = log'[Candidate][p].content
      OBVIOUS
    <3>3. \A p \in 1 .. Reach : p \in 1 .. r
      BY <1>3, <1>5, <1>6
    <3>4. QED
      BY <2>2, <3>1, <3>2, <3>3
  <2>10. Committed = less /\ Committed' = more
    BY <1>3, <1>5
  <2> HIDE DEF more, less
  <2>11. less = SubSeq(more, 1, Reach)
    <3>1. /\ SubSeq(more, 1, Reach) \in Seq(Nat)
          /\ Len(SubSeq(more, 1, Reach)) = Reach
          /\ \A p \in 1 .. Reach : SubSeq(more, 1, Reach)[p] = more[p]
      BY <1>3, <1>5, <2>1, <2>7
    <3>2. QED
      BY <2>8, <2>9, <3>1, SeqEqual
  <2>12. Abstract!Contents(more) \subseteq 1 .. MaxRequest
    BY <2>4, <2>7 DEF Abstract!Contents
  <2>13. Abstract!Commit
    BY <1>10, <2>1, <2>5, <2>7, <2>8, <2>10, <2>11, <2>12 DEF Abstract!Commit
  <2>14. QED
    BY <2>13
<1>13. QED
  BY <1>11, <1>12

(* Every step of the cluster is a step of ReplicatedLog or changes nothing it
   shows.  A process that ends would forget what is committed: commitIndex is
   not on disk. *)
THEOREM ImplementsLog ==
  ASSUME SingleElection, SoundDisks, MaxCrash = 0
  PROVE  Spec \/ ConnectedSpec => ImplementsReplicatedLog
<1>1. (Init \/ ConnectedInit) /\ Mapped => Abstract!Init
  <2>1. ASSUME Init \/ ConnectedInit, Mapped
        PROVE  Committed = << >> /\ Storage = [i \in Node |-> << >>]
    <3>1. \A i \in Node : commitIndex[i] = 0 /\ lastApplied[i] = 0
      BY <2>1 DEF Init, ConnectedInit, InitNodes
    <3>2. Reach = 0 /\ Whole(0) = << >>
      BY <2>1, <3>1 DEF Mapped, Whole
    <3>3. QED
      BY <2>1, <3>1, <3>2 DEF Mapped
  <2>2. QED
    BY <2>1 DEF Abstract!Init
<1>2. Sound /\ LogInv' /\ Mapped /\ Mapped' /\ RequestInv' /\ [Next]_vars
        => [Abstract!Next]_(Abstract!vars)
  <2>1. ASSUME Sound, LogInv', Mapped, Mapped', RequestInv', [Next]_vars
        PROVE  Abstract!Next \/ UNCHANGED Abstract!vars
    BY <2>1, NextShape, ExtendsMaps, AppliesMaps DEF Abstract!Next
  <2>2. QED
    BY <2>1
<1>3. Sound => Mapped
  BY SoundMapped
<1>4. QED
  BY <1>1, <1>2, <1>3, LogInvariant, SoundInvariant, RequestInvariant, PTL
     DEF Spec, ConnectedSpec, ImplementsReplicatedLog, Abstract!Spec
==============================================================================
