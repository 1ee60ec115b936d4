--------------------------- MODULE HandshakeProofs ----------------------------
(***************************************************************************)
(* The client a node has registered for a sibling, for every number of     *)
(* connections, crashes, broken connections and late ends.                 *)
(***************************************************************************)
EXTENDS HandshakeProperties, SequenceTheorems, WellFoundedInduction, TLAPS

(* What the inductive invariant needs of types: every connection has a
   category, and only connections are registered. *)
AcceptorTypeOK ==
  /\ category \in [Connection -> {"none", "parent", "sibling"}]
  /\ registered \in Connection \cup {None}

RegisteredInv == AcceptorTypeOK /\ RegisteredAlive

LEMMA DialKeeps ==
  ASSUME RegisteredInv, Dial
  PROVE  RegisteredInv'
<1> USE DEF RegisteredInv, AcceptorTypeOK, RegisteredAlive
<1>1. PICK c \in Connection :
        /\ category[c] = "none" /\ UNCHANGED registered
        /\ \/ category' = [category EXCEPT ![c] = "parent"]
           \/ UNCHANGED category
  BY DEF Dial, Unused
<1>2. QED
  BY <1>1

(* What a step of the acceptor does to its siblings. *)
LEMMA AcceptorKeeps ==
  ASSUME RegisteredInv, NEW c \in Connection,
         HandleClusterNode(c) \/ HandleClusterNodeRefused(c) \/ AcceptorReadsEnd(c)
  PROVE  RegisteredInv'
<1> USE DEF RegisteredInv, AcceptorTypeOK, RegisteredAlive
<1>1. CASE HandleClusterNode(c)
  BY <1>1 DEF HandleClusterNode
<1>2. CASE HandleClusterNodeRefused(c)
  BY <1>2 DEF HandleClusterNodeRefused, WithoutSibling
<1>3. CASE AcceptorReadsEnd(c)
  <2>1. CASE category[c] = "sibling"
    BY <1>3, <2>1 DEF AcceptorReadsEnd, WithoutSibling
  <2>2. CASE category[c] # "sibling"
    <3>1. UNCHANGED registered
      BY <1>3, <2>2 DEF AcceptorReadsEnd, WithoutSibling
    <3>2. registered # None => registered # c
      BY <2>2
    <3>3. QED
      BY <1>3, <3>1, <3>2 DEF AcceptorReadsEnd
  <2>3. QED
    BY <2>1, <2>2
<1>4. QED
  BY <1>1, <1>2, <1>3

LEMMA RegisteredStep ==
  ASSUME RegisteredInv, [Next]_vars
  PROVE  RegisteredInv'
<1> USE DEF RegisteredInv, AcceptorTypeOK, RegisteredAlive
<1>1. CASE Dial
  BY <1>1, DialKeeps
<1>2. CASE Acceptor
  BY <1>2, AcceptorKeeps DEF Acceptor
<1>3. CASE AcceptorCrash
  BY <1>3 DEF AcceptorCrash
<1>4. CASE UNCHANGED acceptorVars
  BY <1>4 DEF acceptorVars
<1>5. QED
  BY <1>1, <1>2, <1>3, <1>4 DEF Next, Dialler, HandleReplyClusterNode,
     DiallerReadsEnd, ToDialler, Reset, DiallerCrash, Arrive, Restart, vars

(* Siblings.cpp:125: append entries and votes are written to the registered
   client, and deleteClient() frees clients.  For every interleaving of
   refused, ended, late and new connections the registered one still has its
   client, because deleteSiblings() clears the map whichever connection of
   the pair is deleted. *)
THEOREM RegisteredStaysAlive == Spec => []RegisteredAlive
<1>1. Init => RegisteredInv
  BY DEF Init, RegisteredInv, AcceptorTypeOK, RegisteredAlive
<1>2. RegisteredInv /\ [Next]_vars => RegisteredInv'
  BY RegisteredStep
<1>3. RegisteredInv => RegisteredAlive
  BY DEF RegisteredInv
<1>4. QED
  BY <1>1, <1>2, <1>3, PTL DEF Spec

-----------------------------------------------------------------------------
(* Queues. *)

(* RemoveFirst() removes one occurrence, if there is one.                    *)
LEMMA RemoveFirstAt ==
  ASSUME NEW q \in Seq(Message), NEW e
  PROVE  \/ RemoveFirst(q, e) = q /\ \A n \in 1 .. Len(q) : q[n] # e
         \/ \E k \in 1 .. Len(q) : q[k] = e /\ RemoveFirst(q, e) = RemoveAt(q, k)
<1> DEFINE I == {n \in 1 .. Len(q) : q[n] = e}
<1>1. CASE I = {}
  BY <1>1 DEF RemoveFirst
<1>2. CASE I # {}
  <2>1. I \subseteq Nat
    OBVIOUS
  <2> HIDE DEF I
  <2>2. PICK k \in I : \A n \in I : ~(<<n, k>> \in OpToRel(<, Nat))
    BY <1>2, <2>1, NatLessThanWellFounded, WFMin
  <2>3. ASSUME NEW n \in I
        PROVE  k <= n
    <3>1. n \in Nat /\ k \in Nat
      BY <2>1
    <3>2. ~(n < k)
      BY <2>2, <3>1 DEF OpToRel
    <3>3. QED
      BY <3>1, <3>2
  <2>4. Min(I) \in I
    BY <2>3 DEF Min
  <2>5. SelectInSeq(q, LAMBDA v : v = e) = Min(I)
    BY <1>2 DEF SelectInSeq, I
  <2>6. RemoveFirst(q, e) = RemoveAt(q, Min(I))
    BY <2>4, <2>5 DEF RemoveFirst, I
  <2>7. QED
    BY <2>4, <2>6 DEF I
<1>3. QED
  BY <1>1, <1>2

LEMMA RemoveAtCells ==
  ASSUME NEW q \in Seq(Message), NEW k \in 1 .. Len(q)
  PROVE  /\ RemoveAt(q, k) \in Seq(Message)
         /\ Len(RemoveAt(q, k)) = Len(q) - 1
         /\ \A n \in 1 .. Len(q) - 1 :
              RemoveAt(q, k)[n] = IF n < k THEN q[n] ELSE q[n + 1]
<1>1. /\ SubSeq(q, 1, k - 1) \in Seq(Message) /\ Len(SubSeq(q, 1, k - 1)) = k - 1
      /\ \A n \in 1 .. k - 1 : SubSeq(q, 1, k - 1)[n] = q[n]
  OBVIOUS
<1>2. /\ SubSeq(q, k + 1, Len(q)) \in Seq(Message)
      /\ Len(SubSeq(q, k + 1, Len(q))) = Len(q) - k
      /\ \A n \in 1 .. Len(q) - k : SubSeq(q, k + 1, Len(q))[n] = q[n + k]
  OBVIOUS
<1> DEFINE a == SubSeq(q, 1, k - 1)
           b == SubSeq(q, k + 1, Len(q))
<1>3. Len(q) \in Nat /\ RemoveAt(q, k) = a \o b
  BY DEF RemoveAt
<1>4. /\ a \in Seq(Message) /\ Len(a) = k - 1 /\ \A n \in 1 .. k - 1 : a[n] = q[n]
      /\ b \in Seq(Message) /\ Len(b) = Len(q) - k
      /\ \A n \in 1 .. Len(q) - k : b[n] = q[n + k]
  BY <1>1, <1>2
<1> HIDE DEF a, b
<1>5. /\ a \o b \in Seq(Message) /\ Len(a \o b) = Len(q) - 1
      /\ \A n \in 1 .. Len(q) - 1 :
           (a \o b)[n] = IF n <= k - 1 THEN a[n] ELSE b[n - (k - 1)]
  BY <1>3, <1>4, ConcatProperties
<1>6. ASSUME NEW n \in 1 .. Len(q) - 1
      PROVE  (a \o b)[n] = IF n < k THEN q[n] ELSE q[n + 1]
  <2>1. CASE n < k
    BY <1>4, <1>5, <2>1
  <2>2. CASE ~(n < k)
    <3>1. n - (k - 1) \in 1 .. Len(q) - k /\ (n - (k - 1)) + k = n + 1
      BY <1>3, <2>2
    <3>2. b[n - (k - 1)] = q[n + 1]
      BY <1>4, <3>1
    <3>3. QED
      BY <1>5, <2>2, <3>2
  <2>3. QED
    BY <2>1, <2>2
<1>7. QED
  BY <1>3, <1>5, <1>6

LEMMA RemoveFirstType ==
  ASSUME NEW q \in Seq(Message), NEW e
  PROVE  RemoveFirst(q, e) \in Seq(Message)
BY RemoveFirstAt, RemoveAtCells

Categories == [Connection -> {"none", "parent", "sibling"}]

LEMMA MessageFields ==
  /\ \A m \in Message : m.on \in Connection /\ m = Sent(m.type, m.on)
  /\ \A c \in Connection : \A type \in {"clusternode", "replyclusternode", "eof"} :
       Sent(type, c) \in Message
  /\ \A type, c : Sent(type, c).type = type /\ Sent(type, c).on = c
BY DEF Message, Sent

(* A clusternode is lost.                                                    *)
LEMMA OrderRemoved ==
  ASSUME NEW q \in Seq(Message), NEW categories \in Categories,
         InOrder(q, categories), NEW c \in Connection
  PROVE  InOrder(RemoveFirst(q, Sent("clusternode", c)), categories)
<1>1. CASE RemoveFirst(q, Sent("clusternode", c)) = q
  BY <1>1
<1>2. ASSUME NEW k \in 1 .. Len(q), q[k] = Sent("clusternode", c)
      PROVE  InOrder(RemoveAt(q, k), categories)
  <2> DEFINE r == RemoveAt(q, k)
             Old(n) == IF n < k THEN n ELSE n + 1
  <2>1. /\ r \in Seq(Message) /\ Len(r) = Len(q) - 1 /\ Len(q) \in Nat
        /\ DOMAIN r = 1 .. Len(r) /\ DOMAIN q = 1 .. Len(q)
        /\ \A n \in 1 .. Len(q) - 1 : r[n] = IF n < k THEN q[n] ELSE q[n + 1]
    BY RemoveAtCells
  <2> HIDE DEF r
  <2>2. \A n \in DOMAIN r : Old(n) \in DOMAIN q /\ r[n] = q[Old(n)]
    BY <2>1
  <2>3. \A m, n \in Nat : m < n => Old(m) < Old(n)
    OBVIOUS
  <2>4. ASSUME NEW d, NEW m \in Nat, NEW n \in DOMAIN r,
               EndBetween(q, d, IF m = 0 THEN 0 ELSE Old(m), Old(n))
        PROVE  EndBetween(r, d, m, n)
    <3>1. PICK j \in (IF m = 0 THEN 0 ELSE Old(m)) + 1 .. Old(n) - 1 : q[j] = Sent("eof", d)
      BY <2>4 DEF EndBetween
    <3>2. j # k
      BY <1>2, <3>1, MessageFields
    <3> DEFINE i == IF j < k THEN j ELSE j - 1
    <3>3. i \in m + 1 .. n - 1 /\ Old(i) = j /\ i \in DOMAIN r
      BY <2>1, <3>1, <3>2
    <3>4. r[i] = Sent("eof", d)
      BY <2>2, <3>1, <3>3
    <3>5. QED
      BY <3>3, <3>4 DEF EndBetween
  <2>5. ASSUME NEW n \in DOMAIN r
        PROVE  /\ r[n].type \in {"clusternode", "eof"}
               /\ r[n].type = "clusternode" =>
                    /\ categories[r[n].on] = "parent"
                    /\ \A d \in Connection :
                         categories[d] = "sibling" => EndBetween(r, d, 0, n)
    <3>1. Old(n) \in DOMAIN q /\ r[n] = q[Old(n)]
      BY <2>2
    <3> HIDE DEF Old
    <3>2. QED
      BY <2>4, <3>1 DEF InOrder
  <2>6. ASSUME NEW n \in DOMAIN r, NEW m \in 1 .. n - 1
        PROVE  /\ r[m].on = r[n].on => r[m].type = "clusternode" /\ r[n].type = "eof"
               /\ r[m].type = "clusternode" /\ r[n].type = "clusternode" =>
                    EndBetween(r, r[m].on, m, n)
    <3>1. m \in DOMAIN r /\ m \in Nat /\ m # 0 /\ n \in Nat /\ m < n
      BY <2>1
    <3>2. /\ Old(n) \in DOMAIN q /\ r[n] = q[Old(n)]
          /\ Old(m) \in 1 .. Old(n) - 1 /\ r[m] = q[Old(m)]
      BY <2>1, <2>2, <2>3, <3>1
    <3> HIDE DEF Old
    <3>3. QED
      BY <2>4, <3>1, <3>2 DEF InOrder
  <2>7. QED
    BY <2>5, <2>6 DEF InOrder, r
<1>3. QED
  BY <1>1, <1>2, RemoveFirstAt

(* The acceptor has read the first message, c changing its category.         *)
LEMMA OrderTail ==
  ASSUME NEW q \in Seq(Message), q # << >>, NEW categories \in Categories,
         InOrder(q, categories), NEW c \in Connection,
         NEW type, Head(q) = Sent(type, c), NEW category_c,
         \/ type = "eof" /\ category_c = "none"
         \/ type = "clusternode" /\ category_c = "sibling"
  PROVE  InOrder(Tail(q), [categories EXCEPT ![c] = category_c])
<1> DEFINE r == Tail(q)
           now == [categories EXCEPT ![c] = category_c]
<1>1. /\ r \in Seq(Message) /\ Len(r) = Len(q) - 1 /\ Len(q) \in Nat
      /\ DOMAIN r = 1 .. Len(r) /\ DOMAIN q = 1 .. Len(q)
      /\ \A n \in DOMAIN r : n + 1 \in DOMAIN q /\ r[n] = q[n + 1]
      /\ 1 \in DOMAIN q /\ q[1] = Sent(type, c)
  OBVIOUS
<1>2. q[1].type = type /\ q[1].on = c
  BY <1>1, MessageFields
<1>3. \A n \in DOMAIN q : q[n].on \in Connection
  BY MessageFields
<1> HIDE DEF r
<1>4. ASSUME NEW d, NEW m \in Nat, m >= 1, NEW n \in DOMAIN r, EndBetween(q, d, m, n + 1)
      PROVE  EndBetween(r, d, m - 1, n)
  <2>1. PICK k \in m + 1 .. (n + 1) - 1 : q[k] = Sent("eof", d)
    BY <1>4 DEF EndBetween
  <2>2. PICK j \in Nat : k = j + 1
    BY <1>4, <2>1
  <2>3. j \in (m - 1) + 1 .. n - 1 /\ j \in DOMAIN r
    BY <1>1, <1>4, <2>1, <2>2
  <2>4. r[j] = q[k]
    BY <1>1, <2>2, <2>3
  <2>5. QED
    BY <2>1, <2>3, <2>4 DEF EndBetween
<1>5. ASSUME NEW n \in DOMAIN r, r[n].type = "clusternode"
      PROVE  /\ now[r[n].on] = "parent"
             /\ \A d \in Connection : now[d] = "sibling" => EndBetween(r, d, 0, n)
  <2>1. /\ n + 1 \in DOMAIN q /\ 1 \in 1 .. (n + 1) - 1 /\ q[n + 1] = r[n]
        /\ r[n].on \in Connection
    BY <1>1, <1>3
  <2>2. r[n].on # c
    BY <1>2, <1>5, <2>1 DEF InOrder
  <2>3. categories[r[n].on] = "parent"
    BY <1>5, <2>1 DEF InOrder
  <2>4. ASSUME NEW d \in Connection, now[d] = "sibling"
        PROVE  EndBetween(r, d, 0, n)
    <3>1. CASE d # c
      <4>1. categories[d] = "sibling"
        BY <2>4, <3>1 DEF Categories
      <4>2. EndBetween(q, d, 0, n + 1)
        BY <1>5, <2>1, <4>1 DEF InOrder
      <4>3. PICK k \in 0 + 1 .. (n + 1) - 1 : q[k] = Sent("eof", d)
        BY <4>2 DEF EndBetween
      <4>4. k # 1
        BY <1>2, <3>1, <4>3, MessageFields
      <4>5. k \in 1 + 1 .. (n + 1) - 1
        BY <1>1, <4>3, <4>4
      <4>6. EndBetween(q, d, 1, n + 1)
        BY <4>3, <4>5 DEF EndBetween
      <4>7. QED
        BY <1>4, <4>6
    <3>2. CASE d = c
      <4>1. type = "clusternode"
        BY <2>4, <3>2 DEF Categories
      <4>2. EndBetween(q, c, 1, n + 1)
        BY <1>2, <1>5, <2>1, <4>1 DEF InOrder
      <4>3. QED
        BY <1>4, <3>2, <4>2
    <3>3. QED
      BY <3>1, <3>2
  <2>5. QED
    BY <2>2, <2>3, <2>4 DEF Categories
<1>6. ASSUME NEW n \in DOMAIN r, NEW m \in 1 .. n - 1
      PROVE  /\ r[m].on = r[n].on => r[m].type = "clusternode" /\ r[n].type = "eof"
             /\ r[m].type = "clusternode" /\ r[n].type = "clusternode" =>
                  EndBetween(r, r[m].on, m, n)
  <2>1. /\ n \in Nat /\ m \in Nat /\ m \in DOMAIN r /\ m + 1 \in 1 .. (n + 1) - 1
        /\ m + 1 \in Nat /\ m + 1 >= 1 /\ (m + 1) - 1 = m
    BY <1>1
  <2>2. n + 1 \in DOMAIN q /\ r[n] = q[n + 1] /\ r[m] = q[m + 1]
    BY <1>1, <2>1
  <2>3. EndBetween(q, r[m].on, m + 1, n + 1) => EndBetween(r, r[m].on, m, n)
    BY <1>4, <2>1
  <2>4. QED
    BY <2>1, <2>2, <2>3, SMTT(30) DEF InOrder
<1>7. \A n \in DOMAIN r : r[n].type \in {"clusternode", "eof"}
  BY <1>1 DEF InOrder
<1>8. QED
  BY <1>5, <1>6, <1>7 DEF InOrder, r

LEMMA AppendCells ==
  ASSUME NEW q \in Seq(Message), NEW e \in Message
  PROVE  /\ Append(q, e) \in Seq(Message)
         /\ Len(q) \in Nat /\ DOMAIN q = 1 .. Len(q)
         /\ DOMAIN Append(q, e) = 1 .. Len(q) + 1
         /\ \A n \in 1 .. Len(q) : Append(q, e)[n] = q[n]
         /\ Append(q, e)[Len(q) + 1] = e
OBVIOUS

LEMMA EndBetweenAppend ==
  ASSUME NEW q \in Seq(Message), NEW e \in Message, NEW c, NEW m \in Nat,
         NEW n \in 1 .. Len(q) + 1, EndBetween(q, c, m, n)
  PROVE  EndBetween(Append(q, e), c, m, n)
<1>1. PICK k \in m + 1 .. n - 1 : q[k] = Sent("eof", c)
  BY DEF EndBetween
<1>2. k \in 1 .. Len(q)
  BY AppendCells
<1>3. Append(q, e)[k] = q[k]
  BY <1>2, AppendCells
<1>4. QED
  BY <1>1, <1>3 DEF EndBetween

(* The end of a connection that has not ended.                               *)
LEMMA OrderAppendEnd ==
  ASSUME NEW q \in Seq(Message), NEW categories, InOrder(q, categories),
         NEW c \in Connection, Sent("eof", c) \notin ToSet(q)
  PROVE  InOrder(Append(q, Sent("eof", c)), categories)
<1> DEFINE e == Sent("eof", c)
           r == Append(q, e)
<1>1. e \in Message /\ e.type = "eof" /\ e.on = c
  BY MessageFields
<1>2. /\ Len(q) \in Nat /\ DOMAIN q = 1 .. Len(q) /\ DOMAIN r = 1 .. Len(q) + 1
      /\ \A n \in 1 .. Len(q) : r[n] = q[n]
      /\ r[Len(q) + 1] = e
  BY <1>1, AppendCells
<1>3. \A n \in DOMAIN q : q[n] # e /\ q[n] \in Message
  BY DEF ToSet
<1>4. \A n \in DOMAIN q : q[n].on = c => q[n].type = "clusternode"
  BY <1>3, MessageFields DEF InOrder
<1> HIDE DEF r, e
<1>5. ASSUME NEW n \in DOMAIN r
      PROVE  /\ r[n].type \in {"clusternode", "eof"}
             /\ r[n].type = "clusternode" =>
                  /\ categories[r[n].on] = "parent"
                  /\ \A d \in Connection :
                       categories[d] = "sibling" => EndBetween(r, d, 0, n)
  <2>1. CASE n = Len(q) + 1
    BY <1>1, <1>2, <2>1
  <2>2. CASE n # Len(q) + 1
    <3>1. n \in DOMAIN q /\ r[n] = q[n] /\ n \in 1 .. Len(q) + 1
      BY <1>2, <2>2
    <3>2. \A d : EndBetween(q, d, 0, n) => EndBetween(r, d, 0, n)
      BY <1>1, <3>1, EndBetweenAppend DEF r
    <3>3. QED
      BY <3>1, <3>2 DEF InOrder
  <2>3. QED
    BY <2>1, <2>2
<1>6. ASSUME NEW n \in DOMAIN r, NEW m \in 1 .. n - 1
      PROVE  /\ r[m].on = r[n].on => r[m].type = "clusternode" /\ r[n].type = "eof"
             /\ r[m].type = "clusternode" /\ r[n].type = "clusternode" =>
                  EndBetween(r, r[m].on, m, n)
  <2>1. m \in DOMAIN q /\ r[m] = q[m] /\ m \in Nat
    BY <1>2
  <2>2. CASE n = Len(q) + 1
    BY <1>1, <1>2, <1>4, <2>1, <2>2
  <2>3. CASE n # Len(q) + 1
    <3>1. n \in DOMAIN q /\ r[n] = q[n] /\ n \in 1 .. Len(q) + 1
      BY <1>2, <2>3
    <3>2. \A d : EndBetween(q, d, m, n) => EndBetween(r, d, m, n)
      BY <1>1, <2>1, <3>1, EndBetweenAppend DEF r
    <3>3. QED
      BY <2>1, <3>1, <3>2 DEF InOrder
  <2>4. QED
    BY <2>2, <2>3
<1>7. InOrder(r, categories)
  BY <1>5, <1>6 DEF InOrder
<1>8. QED
  BY <1>7 DEF r, e

(* A new connection, when all others have ended.                             *)
LEMMA OrderAppendNode ==
  ASSUME NEW q \in Seq(Message), NEW categories \in Categories,
         InOrder(q, categories), NEW c \in Connection, categories[c] = "none",
         \A m \in ToSet(q) : m.on # c,
         \A d \in Connection : categories[d] # "none" => Sent("eof", d) \in ToSet(q)
  PROVE  InOrder(Append(q, Sent("clusternode", c)), [categories EXCEPT ![c] = "parent"])
<1> DEFINE e == Sent("clusternode", c)
           r == Append(q, e)
           now == [categories EXCEPT ![c] = "parent"]
<1>1. e \in Message /\ e.type = "clusternode" /\ e.on = c
  BY MessageFields
<1>2. /\ Len(q) \in Nat /\ DOMAIN q = 1 .. Len(q) /\ DOMAIN r = 1 .. Len(q) + 1
      /\ \A n \in 1 .. Len(q) : r[n] = q[n]
      /\ r[Len(q) + 1] = e
  BY <1>1, AppendCells
<1>3. \A n \in DOMAIN q : q[n].on # c /\ q[n].on \in Connection /\ q[n] \in Message
  BY MessageFields DEF ToSet
<1>4. \A d \in Connection : categories[d] # "none" =>
        \E k \in 1 .. Len(q) : q[k] = Sent("eof", d)
  BY <1>2 DEF ToSet
<1>5. /\ now[c] = "parent" /\ \A d \in Connection : d # c => now[d] = categories[d]
  BY DEF Categories
<1> HIDE DEF r, e, now
<1>6. ASSUME NEW n \in DOMAIN r
      PROVE  /\ r[n].type \in {"clusternode", "eof"}
             /\ r[n].type = "clusternode" =>
                  /\ now[r[n].on] = "parent"
                  /\ \A d \in Connection :
                       now[d] = "sibling" => EndBetween(r, d, 0, n)
  <2>1. CASE n = Len(q) + 1
    <3>1. ASSUME NEW d \in Connection, now[d] = "sibling"
          PROVE  EndBetween(r, d, 0, n)
      <4>1. d # c /\ categories[d] # "none"
        BY <1>5, <3>1
      <4>2. PICK k \in 1 .. Len(q) : q[k] = Sent("eof", d)
        BY <1>4, <4>1
      <4>3. k \in 0 + 1 .. n - 1 /\ r[k] = q[k]
        BY <1>2, <2>1
      <4>4. QED
        BY <4>2, <4>3 DEF EndBetween
    <3>2. QED
      BY <1>1, <1>2, <1>5, <2>1, <3>1
  <2>2. CASE n # Len(q) + 1
    <3>1. n \in DOMAIN q /\ r[n] = q[n] /\ n \in 1 .. Len(q) + 1
      BY <1>2, <2>2
    <3>2. \A d : EndBetween(q, d, 0, n) => EndBetween(r, d, 0, n)
      BY <1>1, <3>1, EndBetweenAppend DEF r
    <3>3. \A d \in Connection : now[d] = "sibling" => categories[d] = "sibling"
      BY <1>5
    <3>4. QED
      BY <1>3, <1>5, <3>1, <3>2, <3>3 DEF InOrder
  <2>3. QED
    BY <2>1, <2>2
<1>7. ASSUME NEW n \in DOMAIN r, NEW m \in 1 .. n - 1
      PROVE  /\ r[m].on = r[n].on => r[m].type = "clusternode" /\ r[n].type = "eof"
             /\ r[m].type = "clusternode" /\ r[n].type = "clusternode" =>
                  EndBetween(r, r[m].on, m, n)
  <2>1. m \in DOMAIN q /\ r[m] = q[m] /\ m \in Nat
    BY <1>2
  <2>2. CASE n = Len(q) + 1
    <3>1. r[m].on # r[n].on
      BY <1>1, <1>2, <1>3, <2>1, <2>2
    <3>2. ASSUME r[m].type = "clusternode"
          PROVE  EndBetween(r, r[m].on, m, n)
      <4>1. categories[q[m].on] = "parent" /\ q[m].on \in Connection
        BY <1>3, <2>1, <3>2 DEF InOrder
      <4>2. PICK k \in 1 .. Len(q) : q[k] = Sent("eof", q[m].on)
        BY <1>4, <4>1
      <4>3. q[k].type = "eof" /\ q[k].on = q[m].on
        BY <4>2, MessageFields
      <4>4. ~(k < m)
        <5>1. k < m => k \in 1 .. m - 1
          BY <1>2, <2>1
        <5>2. QED
          BY <2>1, <4>3, <5>1 DEF InOrder
      <4>5. k # m
        BY <2>1, <3>2, <4>3
      <4>6. k \in m + 1 .. n - 1 /\ r[k] = q[k]
        BY <1>2, <2>1, <2>2, <4>4, <4>5
      <4>7. QED
        BY <2>1, <4>2, <4>6 DEF EndBetween
    <3>3. QED
      BY <3>1, <3>2
  <2>3. CASE n # Len(q) + 1
    <3>1. n \in DOMAIN q /\ r[n] = q[n] /\ n \in 1 .. Len(q) + 1
      BY <1>2, <2>3
    <3>2. \A d : EndBetween(q, d, m, n) => EndBetween(r, d, m, n)
      BY <1>1, <2>1, <3>1, EndBetweenAppend DEF r
    <3>3. QED
      BY <2>1, <3>1, <3>2 DEF InOrder
  <2>4. QED
    BY <2>2, <2>3
<1>8. InOrder(r, now)
  BY <1>6, <1>7 DEF InOrder
<1>9. QED
  BY <1>8 DEF r, e, now

-----------------------------------------------------------------------------
(* Types. *)

LEMMA ToldType ==
  ASSUME HandshakeTypeOK, NEW queue \in Seq(Message), NEW isLate \in BOOLEAN,
         AcceptorTold(dialled, queue, isLate)
  PROVE  late' \subseteq Connection /\ toAcceptor' \in Seq(Message)
<1>1. CASE isLate
  BY <1>1 DEF AcceptorTold, OpenAtAcceptor, HandshakeTypeOK
<1>2. CASE ~isLate /\ OpenAtAcceptor(dialled)
  <2>1. Sent("eof", dialled) \in Message
    BY <1>2, MessageFields DEF OpenAtAcceptor, HandshakeTypeOK
  <2>2. Append(queue, Sent("eof", dialled)) \in Seq(Message)
    BY <2>1
  <2>3. QED
    BY <1>2, <2>2 DEF AcceptorTold, HandshakeTypeOK
<1>3. CASE ~isLate /\ ~OpenAtAcceptor(dialled)
  BY <1>3 DEF AcceptorTold, HandshakeTypeOK
<1>4. QED
  BY <1>1, <1>2, <1>3

LEMMA SpendTypeOK ==
  ASSUME HandshakeTypeOK, NEW bound \in {"crash", "reset"}, NEW isLate \in BOOLEAN,
         Spend(bound, isLate)
  PROVE  /\ spent' \in [{"crash", "reset", "late"} -> Nat]
         /\ spent'.late = 0 => spent.late = 0 /\ ~isLate
<1> USE DEF HandshakeTypeOK
<1>1. CASE isLate
  <2>1. spent' = [spent EXCEPT ![bound] = @ + 1, !["late"] = @ + 1]
    BY <1>1 DEF Spend
  <2>2. spent'["late"] = spent["late"] + 1
    BY <2>1
  <2>3. QED
    BY <2>1, <2>2
<1>2. CASE ~isLate
  <2>1. spent' = [spent EXCEPT ![bound] = @ + 1, !["late"] = @]
    BY <1>2 DEF Spend
  <2>2. spent'["late"] = spent["late"]
    BY <2>1
  <2>3. QED
    BY <1>2, <2>1, <2>2
<1>3. QED
  BY <1>1, <1>2

LEMMA TypesOfDialler ==
  ASSUME HandshakeTypeOK, Dialler
  PROVE  HandshakeTypeOK'
<1> USE DEF HandshakeTypeOK
<1>1. CASE Dial
  <2>1. PICK c \in Connection :
          /\ dialled' = c /\ link' = "trying"
          /\ \/ /\ category' = [category EXCEPT ![c] = "parent"]
                /\ toAcceptor' = Append(toAcceptor, Sent("clusternode", c))
                /\ UNCHANGED toDialler
             \/ /\ toDialler' = Append(toDialler, Sent("eof", c))
                /\ UNCHANGED <<category, toAcceptor>>
    BY <1>1 DEF Dial
  <2>2. Sent("clusternode", c) \in Message /\ Sent("eof", c) \in Message /\ c # None
    BY MessageFields, HandshakeAssumption
  <2>3. toAcceptor' \in Seq(Message) /\ toDialler' \in Seq(Message)
    <3>1. /\ Append(toAcceptor, Sent("clusternode", c)) \in Seq(Message)
          /\ Append(toDialler, Sent("eof", c)) \in Seq(Message)
      BY <2>2
    <3>2. QED
      BY <2>1, <3>1
  <2>4. UNCHANGED <<up, registered, late, spent>>
    BY <1>1 DEF Dial
  <2>5. QED
    BY <2>1, <2>2, <2>3, <2>4
<1>2. ASSUME NEW c \in Connection, HandleReplyClusterNode(c)
      PROVE  HandshakeTypeOK'
  <2>1. toDialler' \in Seq(Message)
    BY <1>2 DEF HandleReplyClusterNode, ToDialler
  <2>2. QED
    BY <1>2, <2>1, HandshakeAssumption DEF HandleReplyClusterNode, ToDialler,
       acceptorVars, diallerVars
<1>3. ASSUME NEW c \in Connection, DiallerReadsEnd(c)
      PROVE  HandshakeTypeOK'
  <2>1. toDialler' \in Seq(Message)
    BY <1>3 DEF DiallerReadsEnd, ToDialler
  <2>2. QED
    BY <1>3, <2>1 DEF DiallerReadsEnd, ToDialler, LinkAfterEnd, acceptorVars, diallerVars
<1>4. QED
  BY <1>1, <1>2, <1>3 DEF Dialler

LEMMA TypesOfAcceptor ==
  ASSUME HandshakeTypeOK, NEW c \in Connection,
         HandleClusterNode(c) \/ HandleClusterNodeRefused(c) \/ AcceptorReadsEnd(c)
  PROVE  HandshakeTypeOK'
<1> USE DEF HandshakeTypeOK
<1>1. /\ toAcceptor # << >> /\ UNCHANGED <<up, dialled, link, late, spent>>
      /\ Tail(toAcceptor) \in Seq(Message)
  BY DEF HandleClusterNode, HandleClusterNodeRefused, AcceptorReadsEnd, ToAcceptor,
     diallerVars
<1>2. Sent("replyclusternode", c) \in Message /\ Sent("eof", c) \in Message
  BY MessageFields
<1>3. /\ Append(toDialler, Sent("replyclusternode", c)) \in Seq(Message)
      /\ Append(toDialler, Sent("eof", c)) \in Seq(Message)
  BY <1>2
<1>4. RemoveFirst(Tail(toAcceptor), Sent("eof", c)) \in Seq(Message)
  BY <1>1, RemoveFirstType
<1>5. CASE HandleClusterNode(c)
  BY <1>1, <1>3, <1>5 DEF HandleClusterNode
<1>6. CASE HandleClusterNodeRefused(c)
  BY <1>1, <1>3, <1>4, <1>6 DEF HandleClusterNodeRefused, WithoutSibling
<1>7. CASE AcceptorReadsEnd(c)
  BY <1>1, <1>7 DEF AcceptorReadsEnd, WithoutSibling
<1>8. QED
  BY <1>5, <1>6, <1>7

LEMMA TypesOfFaults ==
  ASSUME HandshakeTypeOK,
         \/ Reset \/ DiallerCrash \/ AcceptorCrash
         \/ \E c \in Connection : Arrive(c)
         \/ \E e \in End : Restart(e)
  PROVE  HandshakeTypeOK'
<1> USE DEF HandshakeTypeOK
<1>1. AcceptorLoses \in Seq(Message) /\ DiallerLoses \in Seq(Message)
  BY RemoveFirstType DEF AcceptorLoses, DiallerLoses
<1>2. dialled # None => Sent("eof", dialled) \in Message
  BY MessageFields
<1>3. CASE Reset
  <2>1. Append(DiallerLoses, Sent("eof", dialled)) \in Seq(Message)
    BY <1>1, <1>2, <1>3 DEF Reset, OpenAtDialler
  <2>2. PICK isLate \in BOOLEAN :
          AcceptorTold(dialled, AcceptorLoses, isLate) /\ Spend("reset", isLate)
    BY <1>3 DEF Reset
  <2>3. /\ late' \subseteq Connection /\ toAcceptor' \in Seq(Message)
        /\ spent' \in [{"crash", "reset", "late"} -> Nat]
    BY <1>1, <2>2, ToldType, SpendTypeOK
  <2>4. QED
    BY <1>3, <2>1, <2>3 DEF Reset, diallerVars, acceptorVars
<1>4. CASE DiallerCrash
  <2>1. PICK queue \in {toAcceptor, AcceptorLoses}, isLate \in BOOLEAN :
          AcceptorTold(dialled, queue, isLate) /\ Spend("crash", isLate)
    BY <1>4 DEF DiallerCrash
  <2>2. /\ late' \subseteq Connection /\ toAcceptor' \in Seq(Message)
        /\ spent' \in [{"crash", "reset", "late"} -> Nat]
    BY <1>1, <2>1, ToldType, SpendTypeOK
  <2>3. << >> \in Seq(Message)
    OBVIOUS
  <2>4. QED
    BY <1>4, <2>2, <2>3 DEF DiallerCrash, acceptorVars
<1>5. CASE AcceptorCrash
  <2>1. spent' \in [{"crash", "reset", "late"} -> Nat]
    BY <1>5, SpendTypeOK DEF AcceptorCrash
  <2>2. toDialler' \in Seq(Message)
    <3>1. PICK queue \in {toDialler, DiallerLoses} :
            toDialler' = IF OpenAtDialler(dialled)
                         THEN Append(queue, Sent("eof", dialled)) ELSE toDialler
      BY <1>5 DEF AcceptorCrash
    <3>2. queue \in Seq(Message)
      BY <1>1
    <3>3. OpenAtDialler(dialled) => Append(queue, Sent("eof", dialled)) \in Seq(Message)
      BY <1>2, <3>2 DEF OpenAtDialler
    <3>4. QED
      BY <3>1, <3>3
  <2>3. << >> \in Seq(Message)
    OBVIOUS
  <2>4. QED
    BY <1>5, <2>1, <2>2, <2>3 DEF AcceptorCrash, diallerVars
<1>6. ASSUME NEW c \in Connection, Arrive(c)
      PROVE  HandshakeTypeOK'
  <2>1. Append(toAcceptor, Sent("eof", c)) \in Seq(Message)
    BY MessageFields
  <2>2. QED
    BY <1>6, <2>1 DEF Arrive, diallerVars, acceptorVars
<1>7. ASSUME NEW e \in End, Restart(e)
      PROVE  HandshakeTypeOK'
  BY <1>7 DEF Restart, diallerVars, acceptorVars
<1>8. QED
  BY <1>3, <1>4, <1>5, <1>6, <1>7

(* connectTrying, connectStatus and the map of clients stay consistent: the
   dialler has a client registered exactly while it is trying or connected
   (Siblings.cpp). *)
THEOREM HandshakeTypes == Spec => []HandshakeTypeOK
<1>1. Init => HandshakeTypeOK
  BY HandshakeAssumption DEF Init, HandshakeTypeOK
<1>2. HandshakeTypeOK /\ [Next]_vars => HandshakeTypeOK'
  <2>1. ASSUME HandshakeTypeOK, UNCHANGED vars
        PROVE  HandshakeTypeOK'
    BY <2>1 DEF HandshakeTypeOK, vars, diallerVars, acceptorVars
  <2>2. QED
    BY <2>1, TypesOfDialler, TypesOfAcceptor, TypesOfFaults DEF Next, Acceptor
<1>3. QED
  BY <1>1, <1>2, PTL DEF Spec

-----------------------------------------------------------------------------
(* One connection at a time. *)

LEMMA SetOfAppend ==
  ASSUME NEW q \in Seq(Message), NEW e \in Message
  PROVE  ToSet(Append(q, e)) = ToSet(q) \cup {e}
<1> DEFINE r == Append(q, e)
<1>1. /\ Len(q) \in Nat /\ DOMAIN q = 1 .. Len(q) /\ DOMAIN r = 1 .. Len(q) + 1
      /\ \A n \in 1 .. Len(q) : r[n] = q[n]
      /\ r[Len(q) + 1] = e
  BY AppendCells
<1> HIDE DEF r
<1>2. ASSUME NEW n \in DOMAIN r
      PROVE  r[n] \in ToSet(q) \cup {e}
  <2>1. n = Len(q) + 1 \/ n \in 1 .. Len(q)
    BY <1>1
  <2>2. QED
    BY <1>1, <2>1 DEF ToSet
<1>3. ASSUME NEW n \in DOMAIN q
      PROVE  q[n] \in ToSet(r)
  <2>1. n \in DOMAIN r /\ r[n] = q[n]
    BY <1>1
  <2>2. QED
    BY <2>1 DEF ToSet
<1>4. e \in ToSet(r)
  <2>1. Len(q) + 1 \in DOMAIN r
    BY <1>1
  <2>2. QED
    BY <1>1, <2>1 DEF ToSet
<1>5. ToSet(r) = ToSet(q) \cup {e}
  BY <1>2, <1>3, <1>4 DEF ToSet
<1>6. QED
  BY <1>5 DEF r

LEMMA SetOfTail ==
  ASSUME NEW q \in Seq(Message), q # << >>
  PROVE  ToSet(q) = {Head(q)} \cup ToSet(Tail(q))
<1> DEFINE r == Tail(q)
<1>1. /\ Len(q) \in Nat \ {0} /\ DOMAIN q = 1 .. Len(q) /\ DOMAIN r = 1 .. Len(q) - 1
      /\ \A n \in 1 .. Len(q) - 1 : r[n] = q[n + 1]
      /\ Head(q) = q[1]
  OBVIOUS
<1> HIDE DEF r
<1>2. ASSUME NEW n \in DOMAIN q
      PROVE  q[n] \in {q[1]} \cup ToSet(r)
  <2>1. CASE n = 1
    BY <2>1
  <2>2. CASE n # 1
    <3>1. n - 1 \in DOMAIN r /\ r[n - 1] = q[n]
      BY <1>1, <2>2
    <3>2. QED
      BY <3>1 DEF ToSet
  <2>3. QED
    BY <2>1, <2>2
<1>3. ASSUME NEW n \in DOMAIN r
      PROVE  r[n] \in ToSet(q)
  <2>1. n + 1 \in DOMAIN q /\ r[n] = q[n + 1]
    BY <1>1
  <2>2. QED
    BY <2>1 DEF ToSet
<1>4. q[1] \in ToSet(q)
  BY <1>1 DEF ToSet
<1>5. ToSet(q) = {q[1]} \cup ToSet(r)
  BY <1>2, <1>3, <1>4 DEF ToSet
<1>6. QED
  BY <1>1, <1>5 DEF r

LEMMA SetOfRemoved ==
  ASSUME NEW q \in Seq(Message), NEW e
  PROVE  /\ ToSet(RemoveFirst(q, e)) \subseteq ToSet(q)
         /\ \A f \in ToSet(q) : f # e => f \in ToSet(RemoveFirst(q, e))
<1>1. CASE RemoveFirst(q, e) = q
  BY <1>1
<1>2. ASSUME NEW k \in 1 .. Len(q), q[k] = e
      PROVE  /\ ToSet(RemoveAt(q, k)) \subseteq ToSet(q)
             /\ \A f \in ToSet(q) : f # e => f \in ToSet(RemoveAt(q, k))
  <2> DEFINE r == RemoveAt(q, k)
  <2>1. /\ r \in Seq(Message) /\ Len(r) = Len(q) - 1
        /\ \A n \in 1 .. Len(q) - 1 : r[n] = IF n < k THEN q[n] ELSE q[n + 1]
    BY RemoveAtCells
  <2> HIDE DEF r
  <2>2. Len(q) \in Nat /\ DOMAIN q = 1 .. Len(q) /\ DOMAIN r = 1 .. Len(q) - 1
    BY <2>1
  <2>3. ASSUME NEW n \in DOMAIN r
        PROVE  r[n] \in ToSet(q)
    <3>1. n \in DOMAIN q /\ n + 1 \in DOMAIN q /\ (r[n] = q[n] \/ r[n] = q[n + 1])
      BY <2>1, <2>2
    <3>2. QED
      BY <3>1 DEF ToSet
  <2>4. ASSUME NEW n \in DOMAIN q, q[n] # e
        PROVE  q[n] \in ToSet(r)
    <3>1. n < k \/ n > k
      BY <1>2, <2>2, <2>4
    <3>2. CASE n < k
      <4>1. n \in DOMAIN r /\ r[n] = q[n]
        BY <2>1, <2>2, <3>2
      <4>2. QED
        BY <4>1 DEF ToSet
    <3>3. CASE n > k
      <4>1. n - 1 \in DOMAIN r /\ r[n - 1] = q[n]
        BY <2>1, <2>2, <3>3
      <4>2. QED
        BY <4>1 DEF ToSet
    <3>4. QED
      BY <3>1, <3>2, <3>3
  <2>5. ToSet(r) \subseteq ToSet(q) /\ \A f \in ToSet(q) : f # e => f \in ToSet(r)
    BY <2>3, <2>4 DEF ToSet
  <2>6. QED
    BY <2>5 DEF r
<1>3. QED
  BY <1>1, <1>2, RemoveFirstAt

(* The acceptor is told of the end of the dialler's connection and holds no
   connection open any more.                                                 *)
LEMMA ToldInTime ==
  ASSUME HandshakeTypeOK, OneConnection, spent.late = 0,
         NEW queue \in {toAcceptor, AcceptorLoses},
         AcceptorTold(dialled, queue, FALSE), UNCHANGED category
  PROVE  /\ late' = {} /\ InOrder(toAcceptor, category)'
         /\ \A c \in Connection : ~OpenAtAcceptor(c)'
<1>1. /\ late = {} /\ InOrder(toAcceptor, category)
      /\ \A c \in Connection : OpenAtAcceptor(c) => c = dialled
      /\ late' = {} /\ category \in Categories
  BY DEF OneConnection, OpenAtDialler, AcceptorTold, HandshakeTypeOK, Categories
<1>2. /\ queue \in Seq(Message) /\ InOrder(queue, category)
      /\ \A c : Sent("eof", c) \in ToSet(queue) <=> Sent("eof", c) \in ToSet(toAcceptor)
  <2>1. CASE queue = toAcceptor
    BY <1>1, <2>1 DEF HandshakeTypeOK
  <2>2. CASE queue = AcceptorLoses
    <3> DEFINE lost == Sent("clusternode", dialled)
    <3>1. toAcceptor \in Seq(Message) /\ queue = RemoveFirst(toAcceptor, lost)
      BY <2>2 DEF AcceptorLoses, HandshakeTypeOK
    <3>2. queue \in Seq(Message)
      BY <3>1, RemoveFirstType
    <3>3. \A c : Sent("eof", c) # lost
      BY DEF Sent
    <3>4. \A c : Sent("eof", c) \in ToSet(queue) <=> Sent("eof", c) \in ToSet(toAcceptor)
      BY <3>1, <3>3, SetOfRemoved
    <3>5. InOrder(queue, category)
      <4>1. CASE dialled \in Connection
        BY <1>1, <3>1, <4>1, OrderRemoved
      <4>2. CASE dialled \notin Connection
        <5>1. lost \notin Message
          BY <4>2, MessageFields
        <5>2. \A n \in 1 .. Len(toAcceptor) : toAcceptor[n] # lost
          BY <3>1, <5>1
        <5>3. queue = toAcceptor
          BY <3>1, <5>2, RemoveFirstAt
        <5>4. QED
          BY <1>1, <5>3
      <4>3. QED
        BY <4>1, <4>2
    <3>6. QED
      BY <3>2, <3>4, <3>5
  <2>3. QED
    BY <2>1, <2>2
<1>3. CASE OpenAtAcceptor(dialled)
  <2>1. dialled \in Connection /\ Sent("eof", dialled) \notin ToSet(queue)
    BY <1>2, <1>3 DEF OpenAtAcceptor, HandshakeTypeOK
  <2>2. /\ toAcceptor' = Append(queue, Sent("eof", dialled))
        /\ Sent("eof", dialled) \in Message
    BY <1>3, <2>1, MessageFields DEF AcceptorTold
  <2>3. InOrder(toAcceptor', category)
    BY <1>2, <2>1, <2>2, OrderAppendEnd
  <2>4. ToSet(toAcceptor') = ToSet(queue) \cup {Sent("eof", dialled)}
    BY <1>2, <2>2, SetOfAppend
  <2>5. ASSUME NEW c \in Connection, OpenAtAcceptor(c)'
        PROVE  FALSE
    <3>1. Sent("eof", c) \notin ToSet(toAcceptor') /\ category[c] # "none" /\ c # None
      BY <2>5 DEF OpenAtAcceptor
    <3>2. c # dialled /\ Sent("eof", c) \notin ToSet(toAcceptor)
      BY <1>2, <2>4, <3>1
    <3>3. OpenAtAcceptor(c)
      BY <1>1, <3>1, <3>2 DEF OpenAtAcceptor
    <3>4. QED
      BY <1>1, <3>2, <3>3
  <2>6. QED
    BY <1>1, <2>3, <2>5
<1>4. CASE ~OpenAtAcceptor(dialled)
  <2>1. toAcceptor' = queue
    BY <1>4 DEF AcceptorTold
  <2>2. ASSUME NEW c \in Connection, OpenAtAcceptor(c)'
        PROVE  FALSE
    <3>1. OpenAtAcceptor(c)
      BY <1>1, <1>2, <2>1, <2>2 DEF OpenAtAcceptor
    <3>2. QED
      BY <1>1, <1>4, <3>1
  <2>3. QED
    BY <1>1, <1>2, <2>1, <2>2
<1>5. QED
  BY <1>3, <1>4

HandshakeInv == HandshakeTypeOK /\ RegisteredAlive /\ OneSibling /\ OneConnection

(* What must be shown of a step.                                             *)
OneAgain == OneSibling' /\ OneConnection'

LEMMA DialOne ==
  ASSUME HandshakeInv, Dial
  PROVE  OneAgain
<1> SUFFICES ASSUME spent.late = 0
             PROVE  OneAgain
  BY DEF Dial, OneAgain, OneSibling, OneConnection
<1>1. /\ HandshakeTypeOK /\ late = {} /\ InOrder(toAcceptor, category)
      /\ \A d \in Connection : OpenAtAcceptor(d) => OpenAtDialler(d)
      /\ \A d \in Connection : category[d] = "sibling" => d = registered
      /\ category \in Categories
  BY DEF HandshakeInv, OneConnection, OneSibling, HandshakeTypeOK, Categories
<1>2. dialled = None /\ UNCHANGED <<up, registered, late, spent>>
  BY DEF Dial, MayDial
<1>3. \A d \in Connection : ~OpenAtAcceptor(d)
  BY <1>1, <1>2 DEF OpenAtDialler
<1>4. PICK c \in Connection :
        /\ Unused(c) /\ dialled' = c
        /\ \/ /\ category' = [category EXCEPT ![c] = "parent"]
              /\ toAcceptor' = Append(toAcceptor, Sent("clusternode", c))
              /\ UNCHANGED toDialler
           \/ UNCHANGED <<category, toAcceptor>>
  BY DEF Dial
<1>5. OneSibling'
  BY <1>1, <1>2, <1>4 DEF OneSibling, Categories
<1>6. CASE UNCHANGED <<category, toAcceptor>>
  <2>1. \A d \in Connection : ~OpenAtAcceptor(d)'
    BY <1>2, <1>3, <1>6 DEF OpenAtAcceptor
  <2>2. InOrder(toAcceptor, category)'
    BY <1>1, <1>6
  <2>3. QED
    BY <1>1, <1>2, <1>5, <2>1, <2>2 DEF OneAgain, OneConnection
<1>7. CASE /\ category' = [category EXCEPT ![c] = "parent"]
           /\ toAcceptor' = Append(toAcceptor, Sent("clusternode", c))
           /\ UNCHANGED toDialler
  <2>1. \A d \in Connection : category[d] # "none" => Sent("eof", d) \in ToSet(toAcceptor)
    BY <1>1, <1>3, HandshakeAssumption DEF OpenAtAcceptor
  <2>2. category[c] = "none" /\ \A m \in ToSet(toAcceptor) \cup ToSet(toDialler) : m.on # c
    BY <1>4 DEF Unused
  <2>3. toAcceptor \in Seq(Message) /\ Sent("clusternode", c) \in Message
    BY <1>1, MessageFields DEF HandshakeTypeOK
  <2>4. InOrder(toAcceptor', category')
    BY <1>1, <1>7, <2>1, <2>2, <2>3, OrderAppendNode
  <2>5. ASSUME NEW d \in Connection, OpenAtAcceptor(d)'
        PROVE  OpenAtDialler(d)'
    <3>1. ToSet(toAcceptor) \subseteq ToSet(toAcceptor')
      BY <1>7, <2>3, SetOfAppend
    <3>2. d = c
      <4>1. SUFFICES ASSUME d # c
                     PROVE  FALSE
        OBVIOUS
      <4>2. category[d] # "none"
        BY <1>1, <1>7, <2>5, <4>1 DEF OpenAtAcceptor, Categories
      <4>3. QED
        BY <2>1, <2>5, <3>1, <4>2 DEF OpenAtAcceptor
    <3>3. Sent("eof", c) \notin ToSet(toDialler)
      BY <2>2, MessageFields
    <3>4. QED
      BY <1>4, <1>7, <3>2, <3>3, HandshakeAssumption DEF OpenAtDialler
  <2>6. QED
    BY <1>1, <1>2, <1>5, <2>4, <2>5 DEF OneAgain, OneConnection
<1>8. QED
  BY <1>4, <1>6, <1>7

LEMMA DiallerReadsOne ==
  ASSUME HandshakeInv, NEW c \in Connection,
         HandleReplyClusterNode(c) \/ DiallerReadsEnd(c)
  PROVE  OneAgain
<1>1. /\ UNCHANGED <<category, registered, toAcceptor, late, spent>>
      /\ toDialler # << >> /\ toDialler' = Tail(toDialler)
  BY DEF HandleReplyClusterNode, DiallerReadsEnd, ToDialler, acceptorVars
<1>2. OneSibling'
  BY <1>1 DEF HandshakeInv, OneSibling
<1>3. ASSUME spent.late = 0
      PROVE  OneConnection'
  <2>1. /\ toDialler \in Seq(Message) /\ late = {} /\ InOrder(toAcceptor, category)
        /\ \A d \in Connection : OpenAtAcceptor(d) => OpenAtDialler(d)
    BY <1>3 DEF HandshakeInv, OneConnection, HandshakeTypeOK
  <2>2. ToSet(toDialler) = {Head(toDialler)} \cup ToSet(toDialler')
    BY <1>1, <2>1, SetOfTail
  <2>3. ASSUME NEW d \in Connection, OpenAtAcceptor(d)'
        PROVE  OpenAtDialler(d)'
    <3>1. OpenAtAcceptor(d)
      BY <1>1, <2>3 DEF OpenAtAcceptor
    <3>2. d # None /\ d = dialled /\ Sent("eof", d) \notin ToSet(toDialler)
      BY <2>1, <3>1 DEF OpenAtDialler
    <3>3. UNCHANGED dialled
      <4>1. CASE HandleReplyClusterNode(c)
        BY <4>1 DEF HandleReplyClusterNode, diallerVars
      <4>2. CASE DiallerReadsEnd(c)
        <5>1. Sent("eof", c) \in ToSet(toDialler)
          BY <2>2, <4>2 DEF DiallerReadsEnd, ToDialler
        <5>2. c # dialled
          BY <3>2, <5>1
        <5>3. QED
          BY <4>2, <5>2 DEF DiallerReadsEnd, diallerVars
      <4>3. QED
        BY <4>1, <4>2
    <3>4. QED
      BY <2>2, <3>2, <3>3 DEF OpenAtDialler
  <2>4. QED
    BY <1>1, <2>1, <2>3 DEF OneConnection
<1>4. QED
  BY <1>1, <1>2, <1>3 DEF OneAgain, OneConnection

(* The acceptor never has to refuse a connection.                            *)
LEMMA NeverRefused ==
  ASSUME HandshakeInv, spent.late = 0, NEW c \in Connection,
         toAcceptor # << >>, Head(toAcceptor) = Sent("clusternode", c)
  PROVE  /\ Accepted /\ category[c] = "parent"
         /\ \A d \in Connection : category[d] # "sibling"
<1>1. toAcceptor \in Seq(Message) /\ InOrder(toAcceptor, category)
  BY DEF HandshakeInv, OneConnection, HandshakeTypeOK
<1>2. 1 \in DOMAIN toAcceptor /\ toAcceptor[1] = Sent("clusternode", c)
  BY <1>1
<1>3. toAcceptor[1].type = "clusternode" /\ toAcceptor[1].on = c
  BY <1>2, MessageFields
<1>4. \A d \in Connection : ~EndBetween(toAcceptor, d, 0, 1)
  BY DEF EndBetween
<1>5. category[c] = "parent" /\ \A d \in Connection : category[d] # "sibling"
  BY <1>1, <1>2, <1>3, <1>4 DEF InOrder
<1>6. registered = None
  BY <1>5 DEF HandshakeInv, RegisteredAlive, HandshakeTypeOK
<1>7. QED
  BY <1>5, <1>6 DEF Accepted

LEMMA AcceptorReadsOne ==
  ASSUME HandshakeInv, NEW c \in Connection,
         HandleClusterNode(c) \/ HandleClusterNodeRefused(c) \/ AcceptorReadsEnd(c)
  PROVE  OneAgain
<1> SUFFICES ASSUME spent.late = 0
             PROVE  OneAgain
  BY DEF HandleClusterNode, HandleClusterNodeRefused, AcceptorReadsEnd, ToAcceptor,
     OneAgain, OneSibling, OneConnection
<1>1. /\ HandshakeTypeOK /\ late = {} /\ InOrder(toAcceptor, category)
      /\ \A d \in Connection : OpenAtAcceptor(d) => OpenAtDialler(d)
      /\ \A d \in Connection : category[d] = "sibling" => d = registered
      /\ category \in Categories
      /\ toAcceptor \in Seq(Message) /\ toDialler \in Seq(Message)
  BY DEF HandshakeInv, OneConnection, OneSibling, HandshakeTypeOK, Categories
<1>2. /\ toAcceptor # << >> /\ UNCHANGED <<dialled, late, spent>>
  BY DEF HandleClusterNode, HandleClusterNodeRefused, AcceptorReadsEnd, ToAcceptor,
     diallerVars
<1>3. ToSet(toAcceptor) = {Head(toAcceptor)} \cup ToSet(Tail(toAcceptor))
  BY <1>1, <1>2, SetOfTail
<1>4. CASE HandleClusterNode(c)
  <2>1. /\ Head(toAcceptor) = Sent("clusternode", c)
        /\ category' = [category EXCEPT ![c] = "sibling"] /\ registered' = c
        /\ toAcceptor' = Tail(toAcceptor)
        /\ toDialler' = Append(toDialler, Sent("replyclusternode", c))
    BY <1>4 DEF HandleClusterNode, ToAcceptor
  <2>2. category[c] = "parent" /\ \A d \in Connection : category[d] # "sibling"
    BY <1>2, <2>1, NeverRefused
  <2>3. InOrder(toAcceptor', category')
    BY <1>1, <1>2, <2>1, OrderTail
  <2>4. OneSibling'
    BY <1>1, <2>1, <2>2 DEF OneSibling, Categories
  <2>5. ASSUME NEW d \in Connection, OpenAtAcceptor(d)'
        PROVE  OpenAtDialler(d)'
    <3>1. Sent("eof", d) # Sent("clusternode", c)
      BY DEF Sent
    <3>2. Sent("eof", d) \notin ToSet(toAcceptor)
      BY <1>3, <2>1, <2>5, <3>1 DEF OpenAtAcceptor
    <3>3. category[d] # "none" /\ d # None
      BY <1>1, <2>1, <2>2, <2>5 DEF OpenAtAcceptor, Categories
    <3>4. OpenAtDialler(d)
      BY <1>1, <3>2, <3>3 DEF OpenAtAcceptor
    <3>5. Sent("eof", d) # Sent("replyclusternode", c)
      BY DEF Sent
    <3>6. ToSet(toDialler') = ToSet(toDialler) \cup {Sent("replyclusternode", c)}
      BY <1>1, <2>1, MessageFields, SetOfAppend
    <3>7. QED
      BY <1>2, <3>4, <3>5, <3>6 DEF OpenAtDialler
  <2>6. QED
    BY <1>1, <1>2, <2>3, <2>4, <2>5 DEF OneAgain, OneConnection
<1>5. CASE HandleClusterNodeRefused(c)
  <2>1. Head(toAcceptor) = Sent("clusternode", c) /\ ~Accepted
    BY <1>5 DEF HandleClusterNodeRefused, ToAcceptor
  <2>2. QED
    BY <1>2, <2>1, NeverRefused
<1>6. CASE AcceptorReadsEnd(c)
  <2>1. /\ Head(toAcceptor) = Sent("eof", c)
        /\ category' = [category EXCEPT ![c] = "none"]
        /\ registered' = WithoutSibling(category[c])
        /\ toAcceptor' = Tail(toAcceptor) /\ UNCHANGED toDialler
    BY <1>6 DEF AcceptorReadsEnd, ToAcceptor
  <2>2. InOrder(toAcceptor', category')
    BY <1>1, <1>2, <2>1, OrderTail
  <2>3. ASSUME NEW d \in Connection, category'[d] = "sibling"
        PROVE  d = registered'
    <3>1. d # c /\ d = registered
      BY <1>1, <2>1, <2>3 DEF Categories
    <3>2. category[c] # "sibling"
      BY <1>1, <3>1
    <3>3. QED
      BY <2>1, <3>1, <3>2 DEF WithoutSibling
  <2>4. ASSUME NEW d \in Connection, OpenAtAcceptor(d)'
        PROVE  OpenAtDialler(d)'
    <3>1. d # c /\ category[d] # "none" /\ d # None
      BY <1>1, <2>1, <2>4 DEF OpenAtAcceptor, Categories
    <3>2. Sent("eof", d) # Sent("eof", c)
      BY <3>1, MessageFields
    <3>3. Sent("eof", d) \notin ToSet(toAcceptor)
      BY <1>3, <2>1, <2>4, <3>2 DEF OpenAtAcceptor
    <3>4. OpenAtDialler(d)
      BY <1>1, <3>1, <3>3 DEF OpenAtAcceptor
    <3>5. QED
      BY <1>2, <2>1, <3>4 DEF OpenAtDialler
  <2>5. QED
    BY <1>1, <1>2, <2>2, <2>3, <2>4 DEF OneAgain, OneSibling, OneConnection
<1>7. QED
  BY <1>4, <1>5, <1>6

LEMMA FaultsOne ==
  ASSUME HandshakeInv, HandshakeTypeOK',
         \/ Reset \/ DiallerCrash \/ AcceptorCrash
         \/ \E c \in Connection : Arrive(c)
         \/ \E e \in End : Restart(e)
  PROVE  OneAgain
<1> SUFFICES ASSUME spent'.late = 0
             PROVE  OneAgain
  BY DEF OneAgain, OneSibling, OneConnection
<1>1. /\ HandshakeTypeOK
      /\ spent.late = 0 => OneConnection /\ late = {}
      /\ spent.late = 0 =>
           \A d \in Connection : category[d] = "sibling" => d = registered
  BY DEF HandshakeInv, OneConnection, OneSibling
<1>2. CASE Reset \/ DiallerCrash
  <2>1. PICK queue \in {toAcceptor, AcceptorLoses}, isLate \in BOOLEAN,
             bound \in {"crash", "reset"} :
          AcceptorTold(dialled, queue, isLate) /\ Spend(bound, isLate)
    <3>1. CASE Reset
      BY <3>1 DEF Reset
    <3>2. CASE DiallerCrash
      BY <3>2 DEF DiallerCrash
    <3>3. QED
      BY <1>2, <3>1, <3>2
  <2>2. spent.late = 0 /\ isLate = FALSE
    BY <1>1, <2>1, SpendTypeOK
  <2>3. UNCHANGED <<category, registered>>
    BY <1>2 DEF Reset, DiallerCrash, acceptorVars
  <2>4. /\ late' = {} /\ InOrder(toAcceptor, category)'
        /\ \A c \in Connection : ~OpenAtAcceptor(c)'
    BY <1>1, <2>1, <2>2, <2>3, ToldInTime
  <2>5. QED
    BY <1>1, <2>2, <2>3, <2>4 DEF OneAgain, OneSibling, OneConnection
<1>3. CASE AcceptorCrash
  <2>1. /\ category' = [c \in Connection |-> "none"] /\ toAcceptor' = << >> /\ late' = {}
    BY <1>3 DEF AcceptorCrash
  <2>2. InOrder(toAcceptor, category)'
    BY <2>1 DEF InOrder
  <2>3. QED
    BY <2>1, <2>2 DEF OneAgain, OneSibling, OneConnection, OpenAtAcceptor
<1>4. ASSUME NEW c \in Connection, Arrive(c)
      PROVE  FALSE
  BY <1>1, <1>4 DEF Arrive
<1>5. ASSUME NEW e \in End, Restart(e)
      PROVE  OneAgain
  <2>1. UNCHANGED <<dialled, category, registered, toAcceptor, toDialler, late, spent>>
    BY <1>5 DEF Restart, diallerVars, acceptorVars
  <2>2. QED
    BY <1>1, <2>1 DEF OneAgain, OneSibling, OneConnection, InOrder, EndBetween,
       OpenAtAcceptor, OpenAtDialler
<1>6. QED
  BY <1>2, <1>3, <1>4, <1>5

LEMMA HandshakeStep ==
  ASSUME HandshakeInv, HandshakeTypeOK', RegisteredAlive', [Next]_vars
  PROVE  HandshakeInv'
<1>1. CASE UNCHANGED vars
  <2>1. UNCHANGED <<dialled, category, registered, toAcceptor, toDialler, late, spent>>
    BY <1>1 DEF vars, diallerVars, acceptorVars
  <2>2. OneSibling' /\ OneConnection'
    BY <2>1 DEF HandshakeInv, OneSibling, OneConnection, InOrder, EndBetween,
       OpenAtAcceptor, OpenAtDialler
  <2>3. QED
    BY <2>2 DEF HandshakeInv
<1>2. CASE Next
  <2>1. OneAgain
    BY <1>2, DialOne, DiallerReadsOne, AcceptorReadsOne, FaultsOne
       DEF Next, Dialler, Acceptor
  <2>2. QED
    BY <2>1 DEF HandshakeInv, OneAgain
<1>3. QED
  BY <1>1, <1>2

LEMMA OneOfEach == Spec => [](OneSibling /\ OneConnection)
<1>1. Init => OneSibling /\ OneConnection
  BY DEF Init, OneSibling, OneConnection, OpenAtAcceptor, InOrder
<1>2. OneSibling /\ OneConnection /\ HandshakeTypeOK /\ RegisteredAlive
        /\ HandshakeTypeOK' /\ RegisteredAlive' /\ [Next]_vars
      => (OneSibling /\ OneConnection)'
  BY HandshakeStep DEF HandshakeInv
<1>3. QED
  BY <1>1, <1>2, HandshakeTypes, RegisteredStaysAlive, PTL DEF Spec

(* The dialler closes a connection before it opens the next, and in that order
   the acceptor learns of it, unless an end is late: for every number of
   connections, crashes and broken connections, what is sent to the acceptor
   is in order, and a connection open at the acceptor is the one open at the
   dialler (Siblings.cpp:179, ClusterNodeCommand.cpp). *)
THEOREM OneConnectionAtATime == Spec => []OneConnection
BY OneOfEach, PTL

(* Siblings.cpp:89: as long as no end is late, the acceptor has at most the one
   client of the dialler that its map names: the end of an old connection
   cannot make deleteSiblings() drop the new one. *)
THEOREM OneSiblingAtATime == Spec => []OneSibling
BY OneOfEach, PTL
==============================================================================
