-------------------------- MODULE ClusterLinkProofs --------------------------
(***************************************************************************)
(* Connections: what a node executes comes from a sibling it has           *)
(* registered, so that the leader it follows is connected and the next     *)
(* index of a connected sibling is at least 1.                             *)
(***************************************************************************)
EXTENDS ClusterProofs

(* Queues.  Reading the head of q takes the reader from link l to link k. *)

LEMMA RegisteredTail ==
  ASSUME NEW M, NEW q \in Seq(M), q # << >>, NEW l, NEW k,
         k # "none" <=> Registered(l, q, 2),
         NEW n \in 1 .. Len(q)
  PROVE  Registered(k, Tail(q), n) <=> Registered(l, q, n + 1)
<1>1. /\ Len(q) \in Nat /\ Len(q) > 0 /\ Len(Tail(q)) = Len(q) - 1
      /\ \A p \in 1 .. Len(q) - 1 : Tail(q)[p] = q[p + 1]
  OBVIOUS
<1>2. \A p \in 1 .. n - 1 : p \in 1 .. Len(q) - 1
  BY <1>1
<1>3. k # "none" <=> IsClusterNode(q[1]) \/ (l # "none" /\ ~IsEof(q[1]))
  <2>1. 1 .. 2 - 1 = {1} /\ 1 + 1 .. 2 - 1 = {}
    OBVIOUS
  <2>2. QED
    BY <2>1 DEF Registered
<1>4. ASSUME Registered(k, Tail(q), n) PROVE Registered(l, q, n + 1)
  <2>1. CASE k # "none" /\ \A p \in 1 .. n - 1 : ~IsEof(Tail(q)[p])
    <3>1. \A p \in 2 .. n : ~IsEof(q[p])
      <4>1. ASSUME NEW p \in 2 .. n PROVE ~IsEof(q[p])
        <5>1. p - 1 \in 1 .. n - 1 /\ (p - 1) + 1 = p
          OBVIOUS
        <5>2. Tail(q)[p - 1] = q[p]
          BY <1>1, <1>2, <5>1
        <5>3. QED
          BY <2>1, <5>1, <5>2
      <4>2. QED
        BY <4>1
    <3>2. CASE IsClusterNode(q[1])
      <4>1. 1 \in 1 .. (n + 1) - 1 /\ 1 + 1 = 2 /\ (n + 1) - 1 = n
        OBVIOUS
      <4>2. QED
        BY <3>1, <3>2, <4>1 DEF Registered
    <3>3. CASE l # "none" /\ ~IsEof(q[1])
      <4>1. \A p \in 1 .. (n + 1) - 1 : p = 1 \/ p \in 2 .. n
        OBVIOUS
      <4>2. QED
        BY <3>1, <3>3, <4>1 DEF Registered
    <3>4. QED
      BY <1>3, <2>1, <3>2, <3>3
  <2>2. ASSUME NEW m \in 1 .. n - 1, IsClusterNode(Tail(q)[m]),
               \A p \in m + 1 .. n - 1 : ~IsEof(Tail(q)[p])
        PROVE  Registered(l, q, n + 1)
    <3>1. m + 1 \in 1 .. (n + 1) - 1 /\ IsClusterNode(q[m + 1])
      BY <1>1, <1>2, <2>2
    <3>2. \A p \in (m + 1) + 1 .. (n + 1) - 1 : ~IsEof(q[p])
      <4>1. ASSUME NEW p \in (m + 1) + 1 .. (n + 1) - 1 PROVE ~IsEof(q[p])
        <5>1. p - 1 \in m + 1 .. n - 1 /\ p - 1 \in 1 .. n - 1 /\ (p - 1) + 1 = p
          OBVIOUS
        <5>2. Tail(q)[p - 1] = q[p]
          BY <1>1, <1>2, <5>1
        <5>3. QED
          BY <2>2, <5>1, <5>2
      <4>2. QED
        BY <4>1
    <3>3. QED
      BY <3>1, <3>2 DEF Registered
  <2>3. QED
    BY <1>4, <2>1, <2>2 DEF Registered
<1>5. ASSUME Registered(l, q, n + 1) PROVE Registered(k, Tail(q), n)
  <2>1. CASE l # "none" /\ \A p \in 1 .. (n + 1) - 1 : ~IsEof(q[p])
    <3>1. k # "none"
      <4>1. 1 \in 1 .. (n + 1) - 1
        OBVIOUS
      <4>2. QED
        BY <1>3, <2>1, <4>1
    <3>2. \A p \in 1 .. n - 1 : ~IsEof(Tail(q)[p])
      <4>1. \A p \in 1 .. n - 1 : p + 1 \in 1 .. (n + 1) - 1
        OBVIOUS
      <4>2. QED
        BY <1>1, <1>2, <2>1, <4>1
    <3>3. QED
      BY <3>1, <3>2 DEF Registered
  <2>2. ASSUME NEW m \in 1 .. (n + 1) - 1, IsClusterNode(q[m]),
               \A p \in m + 1 .. (n + 1) - 1 : ~IsEof(q[p])
        PROVE  Registered(k, Tail(q), n)
    <3>1. \A p \in 1 .. n - 1 : p >= m => ~IsEof(Tail(q)[p])
      <4>1. ASSUME NEW p \in 1 .. n - 1, p >= m PROVE ~IsEof(Tail(q)[p])
        <5>1. p + 1 \in m + 1 .. (n + 1) - 1
          BY <4>1
        <5>2. QED
          BY <1>1, <1>2, <2>2, <5>1
      <4>2. QED
        BY <4>1
    <3>2. CASE m = 1
      <4>1. k # "none"
        BY <1>3, <2>2, <3>2
      <4>2. QED
        BY <3>1, <3>2, <4>1 DEF Registered
    <3>3. CASE m # 1
      <4>1. m - 1 \in 1 .. n - 1 /\ (m - 1) + 1 = m
        BY <3>3
      <4>2. IsClusterNode(Tail(q)[m - 1])
        BY <1>1, <1>2, <2>2, <4>1
      <4>3. \A p \in (m - 1) + 1 .. n - 1 : p \in 1 .. n - 1 /\ p >= m
        OBVIOUS
      <4>4. QED
        BY <3>1, <4>1, <4>2, <4>3 DEF Registered
    <3>4. QED
      BY <3>2, <3>3
  <2>3. QED
    BY <1>5, <2>1, <2>2 DEF Registered
<1>6. QED
  BY <1>4, <1>5

LEMMA RegisteredAppend ==
  ASSUME NEW M, NEW q \in Seq(M), NEW m \in M, NEW l, NEW n \in 1 .. Len(q) + 1
  PROVE  Registered(l, Append(q, m), n) <=> Registered(l, q, n)
<1>1. \A k \in 1 .. n - 1 : Append(q, m)[k] = q[k]
  OBVIOUS
<1>2. \A k \in 1 .. n - 1 : \A p \in k + 1 .. n - 1 : p \in 1 .. n - 1
  OBVIOUS
<1>3. QED
  BY <1>1, <1>2 DEF Registered

(* After one more message. *)
LEMMA AppendedQueue ==
  ASSUME NEW M, NEW q \in Seq(M), NEW m \in M, NEW l
  PROVE  /\ Ended(Append(q, m)) <=> Ended(q) \/ IsEof(m)
         /\ Open(l, Append(q, m)) <=>
              IsClusterNode(m) \/ (Open(l, q) /\ ~IsEof(m))
         /\ Pending(Append(q, m)) <=>
              IsClusterNode(m) \/ (Pending(q) /\ ~IsEof(m))
<1> DEFINE r == Append(q, m)
<1>1. /\ Len(q) \in Nat /\ Len(r) = Len(q) + 1 /\ r[Len(q) + 1] = m
      /\ DOMAIN r = 1 .. Len(q) + 1 /\ DOMAIN q = 1 .. Len(q)
      /\ \A k \in 1 .. Len(q) : r[k] = q[k]
  OBVIOUS
<1>2. /\ 1 .. Len(q) + 1 = (1 .. Len(q)) \cup {Len(q) + 1}
      /\ \A k \in 1 .. Len(q) : /\ k + 1 .. Len(q) + 1 = (k + 1 .. Len(q)) \cup {Len(q) + 1}
                                /\ k + 1 .. Len(q) \subseteq 1 .. Len(q)
      /\ (Len(q) + 1) + 1 .. Len(q) + 1 = {}
  BY <1>1
<1>3. IsClusterNode(m) => ~IsEof(m)
  BY DEF IsClusterNode, IsEof
<1> HIDE DEF r
<1>4. Ended(r) <=> Ended(q) \/ IsEof(m)
  BY <1>1, <1>2 DEF Ended
<1>5. (Len(r) + 1) - 1 = Len(q) + 1 /\ (Len(q) + 1) - 1 = Len(q)
  BY <1>1
<1>6. Pending(r) <=> IsClusterNode(m) \/ (Pending(q) /\ ~IsEof(m))
  <2>1. ASSUME IsClusterNode(m) PROVE Pending(r)
    BY <1>1, <1>2, <2>1 DEF Pending
  <2>2. ASSUME Pending(q), ~IsEof(m) PROVE Pending(r)
    <3>1. PICK k \in 1 .. Len(q) : /\ IsClusterNode(q[k])
                                  /\ \A p \in k + 1 .. Len(q) : ~IsEof(q[p])
      BY <1>1, <2>2 DEF Pending
    <3>2. \A p \in k + 1 .. Len(r) : ~IsEof(r[p])
      BY <1>1, <1>2, <2>2, <3>1
    <3>3. k \in DOMAIN r /\ IsClusterNode(r[k])
      BY <1>1, <1>2, <3>1
    <3>4. QED
      BY <3>2, <3>3 DEF Pending
  <2>3. ASSUME Pending(r), ~IsClusterNode(m) PROVE Pending(q) /\ ~IsEof(m)
    <3>1. PICK k \in DOMAIN r : /\ IsClusterNode(r[k])
                               /\ \A p \in k + 1 .. Len(r) : ~IsEof(r[p])
      BY <2>3 DEF Pending
    <3>2. k \in 1 .. Len(q) /\ IsClusterNode(q[k])
      BY <1>1, <1>2, <2>3, <3>1
    <3>3. ~IsEof(m)
      BY <1>1, <1>2, <3>1, <3>2
    <3>4. \A p \in k + 1 .. Len(q) : ~IsEof(q[p])
      BY <1>1, <1>2, <3>1, <3>2
    <3>5. QED
      BY <1>1, <3>2, <3>3, <3>4 DEF Pending
  <2>4. QED
    BY <1>3, <2>1, <2>2, <2>3
<1>7. /\ Open(l, r) <=> Pending(r) \/ (l # "none" /\ ~Ended(r))
      /\ Open(l, q) <=> Pending(q) \/ (l # "none" /\ ~Ended(q))
  BY <1>1, <1>5 DEF Open, Registered, Pending, Ended
<1>8. QED
  BY <1>3, <1>4, <1>6, <1>7 DEF r

LEMMA OpenPending ==
  ASSUME NEW M, NEW q \in Seq(M), NEW l
  PROVE  Open(l, q) <=> Pending(q) \/ (l # "none" /\ ~Ended(q))
<1>1. (Len(q) + 1) - 1 = Len(q) /\ DOMAIN q = 1 .. Len(q)
  OBVIOUS
<1>2. QED
  BY <1>1 DEF Open, Registered, Pending, Ended

(* After one message less. *)
LEMMA ReadQueue ==
  ASSUME NEW M, NEW q \in Seq(M), q # << >>, NEW l, NEW k,
         k # "none" <=> Registered(l, q, 2)
  PROVE  /\ Tail(q) \in Seq(M) /\ Head(q) = q[1] /\ 1 \in DOMAIN q
         /\ Open(k, Tail(q)) <=> Open(l, q)
         /\ Pending(Tail(q)) => Pending(q)
         /\ AcceptorInv(l, q) => AcceptorInv(k, Tail(q))
<1>1. /\ Len(q) \in Nat /\ Len(q) > 0 /\ Len(Tail(q)) = Len(q) - 1
      /\ DOMAIN q = 1 .. Len(q) /\ DOMAIN Tail(q) = 1 .. Len(q) - 1
      /\ \A p \in 1 .. Len(q) - 1 : Tail(q)[p] = q[p + 1] /\ p + 1 \in 1 .. Len(q)
      /\ Tail(q) \in Seq(M) /\ Head(q) = q[1] /\ 1 \in 1 .. Len(q)
  OBVIOUS
<1>2. Open(k, Tail(q)) <=> Open(l, q)
  <2>1. Len(q) \in 1 .. Len(q) /\ Len(Tail(q)) + 1 = Len(q)
    BY <1>1
  <2>2. QED
    BY <2>1, RegisteredTail DEF Open
<1>3. ASSUME Pending(Tail(q)) PROVE Pending(q)
  <2>1. PICK m \in 1 .. Len(q) - 1 :
          /\ IsClusterNode(Tail(q)[m])
          /\ \A p \in m + 1 .. Len(q) - 1 : ~IsEof(Tail(q)[p])
    BY <1>1, <1>3 DEF Pending
  <2>2. m + 1 \in 1 .. Len(q) /\ IsClusterNode(q[m + 1])
    BY <1>1, <2>1
  <2>3. ASSUME NEW p \in (m + 1) + 1 .. Len(q) PROVE ~IsEof(q[p])
    <3>1. p - 1 \in m + 1 .. Len(q) - 1 /\ p - 1 \in 1 .. Len(q) - 1 /\ (p - 1) + 1 = p
      BY <1>1
    <3>2. Tail(q)[p - 1] = q[p]
      BY <1>1, <3>1
    <3>3. QED
      BY <2>1, <3>1, <3>2
  <2>4. QED
    BY <1>1, <2>2, <2>3 DEF Pending
<1>4. ASSUME AcceptorInv(l, q) PROVE AcceptorInv(k, Tail(q))
  <2>1. ASSUME NEW n \in 1 .. Len(q) - 1
        PROVE  /\ OfProtocol(Tail(q)[n]) => Registered(k, Tail(q), n)
               /\ IsClusterNode(Tail(q)[n]) => ~Registered(k, Tail(q), n)
    <3>1. n \in 1 .. Len(q) /\ n + 1 \in 1 .. Len(q) /\ Tail(q)[n] = q[n + 1]
      BY <1>1
    <3>2. Registered(k, Tail(q), n) <=> Registered(l, q, n + 1)
      BY <3>1, RegisteredTail
    <3>3. QED
      BY <1>1, <1>4, <3>1, <3>2 DEF AcceptorInv
  <2>2. QED
    BY <1>1, <2>1 DEF AcceptorInv
<1>5. QED
  BY <1>1, <1>2, <1>3, <1>4

LEMMA AcceptorAppend ==
  ASSUME NEW M, NEW q \in Seq(M), NEW m \in M, NEW l, AcceptorInv(l, q),
         OfProtocol(m) => Open(l, q), IsClusterNode(m) => ~Open(l, q)
  PROVE  AcceptorInv(l, Append(q, m))
<1> DEFINE r == Append(q, m)
<1>1. /\ Len(q) \in Nat /\ r[Len(q) + 1] = m
      /\ DOMAIN r = 1 .. Len(q) + 1 /\ DOMAIN q = 1 .. Len(q)
      /\ \A k \in 1 .. Len(q) : r[k] = q[k]
  OBVIOUS
<1>2. \A n \in 1 .. Len(q) + 1 : Registered(l, r, n) <=> Registered(l, q, n)
  BY RegisteredAppend
<1> HIDE DEF r
<1>3. ASSUME NEW n \in DOMAIN r
      PROVE  /\ OfProtocol(r[n]) => Registered(l, r, n)
             /\ IsClusterNode(r[n]) => ~Registered(l, r, n)
  <2>1. CASE n = Len(q) + 1
    BY <1>1, <1>2, <2>1 DEF Open
  <2>2. CASE n # Len(q) + 1
    <3>1. n \in 1 .. Len(q)
      BY <1>1, <2>2
    <3>2. QED
      BY <1>1, <1>2, <3>1 DEF AcceptorInv
  <2>3. QED
    BY <2>1, <2>2
<1>4. QED
  BY <1>3 DEF AcceptorInv, r

LEMMA DiallerAppend ==
  ASSUME NEW M, NEW q \in Seq(M), NEW m \in M, NEW l, DiallerInv(l, q),
         l # "none", ~Ended(q), ~IsClusterNode(m)
  PROVE  DiallerInv(l, Append(q, m))
<1> DEFINE r == Append(q, m)
<1>1. /\ Len(q) \in Nat /\ r[Len(q) + 1] = m /\ Len(r) = Len(q) + 1
      /\ DOMAIN r = 1 .. Len(q) + 1 /\ DOMAIN q = 1 .. Len(q)
      /\ \A k \in 1 .. Len(q) : r[k] = q[k]
  OBVIOUS
<1> HIDE DEF r
<1>2. \A n \in DOMAIN r : n = Len(q) + 1 \/ n \in DOMAIN q
  BY <1>1
<1>3. QED
  BY <1>1, <1>2 DEF DiallerInv, Ended, r

(* The dialler reads a message that is not the end of the connection. *)
LEMMA DiallerReads ==
  ASSUME NEW M, NEW q \in Seq(M), q # << >>, NEW l, NEW k, DiallerInv(l, q),
         ~IsEof(Head(q)), k # "none"
  PROVE  /\ DiallerInv(k, Tail(q))
         /\ Ended(Tail(q)) <=> Ended(q)
         /\ \A n \in DOMAIN Tail(q) : \E p \in DOMAIN q : Tail(q)[n] = q[p]
<1>1. /\ Len(q) \in Nat /\ Len(q) > 0 /\ Len(Tail(q)) = Len(q) - 1
      /\ DOMAIN q = 1 .. Len(q) /\ DOMAIN Tail(q) = 1 .. Len(q) - 1
      /\ \A p \in 1 .. Len(q) - 1 : Tail(q)[p] = q[p + 1] /\ p + 1 \in 1 .. Len(q)
      /\ Head(q) = q[1]
  OBVIOUS
<1>2. Ended(Tail(q)) => Ended(q)
  BY <1>1 DEF Ended
<1>3. Ended(q) => Ended(Tail(q))
  <2>1. SUFFICES ASSUME NEW p \in 1 .. Len(q), IsEof(q[p])
                 PROVE  Ended(Tail(q))
    BY <1>1 DEF Ended
  <2>2. p # 1
    BY <1>1, <2>1
  <2>3. p - 1 \in 1 .. Len(q) - 1 /\ (p - 1) + 1 = p
    BY <1>1, <2>2
  <2>4. Tail(q)[p - 1] = q[p]
    BY <1>1, <2>3
  <2>5. QED
    BY <1>1, <2>1, <2>3, <2>4 DEF Ended
<1>4. DiallerInv(k, Tail(q))
  <2>1. ASSUME NEW n \in 1 .. Len(q) - 1
        PROVE  ~IsClusterNode(Tail(q)[n]) /\ (IsEof(Tail(q)[n]) => n = Len(q) - 1)
    <3>1. n + 1 \in 1 .. Len(q) /\ Tail(q)[n] = q[n + 1]
      BY <1>1
    <3>2. ~IsClusterNode(q[n + 1]) /\ (IsEof(q[n + 1]) => n + 1 = Len(q))
      BY <1>1, <3>1 DEF DiallerInv
    <3>3. n + 1 = Len(q) => n = Len(q) - 1
      OBVIOUS
    <3>4. QED
      BY <3>1, <3>2, <3>3
  <2>2. QED
    BY <1>1, <2>1 DEF DiallerInv
<1>5. QED
  BY <1>1, <1>2, <1>3, <1>4

(* The end of its connection is the last thing it reads. *)
LEMMA DiallerEnds ==
  ASSUME NEW M, NEW q \in Seq(M), q # << >>, NEW l, DiallerInv(l, q),
         IsEof(Head(q))
  PROVE  Ended(q) /\ Tail(q) = << >>
<1>1. /\ Len(q) \in Nat /\ Len(q) > 0 /\ DOMAIN q = 1 .. Len(q)
      /\ Head(q) = q[1] /\ 1 \in 1 .. Len(q)
  OBVIOUS
<1>2. Len(q) = 1 /\ Ended(q)
  <2>1. IsEof(q[1])
    BY <1>1
  <2>2. QED
    BY <1>1, <2>1 DEF DiallerInv, Ended
<1>3. Tail(q) = << >>
  <2> DEFINE t == Tail(q)
  <2>1. t \in Seq(M) /\ Len(t) = 0
    BY <1>2
  <2> HIDE DEF t
  <2>2. t = << >>
    BY <2>1
  <2>3. QED
    BY <2>2 DEF t
<1>4. QED
  BY <1>2, <1>3

-----------------------------------------------------------------------------
(* One pair, seen from one of its nodes, which dials or not: l is its link,  *)
(* in what it has to read, out what it has sent; r is the link of the other  *)
(* node.                                                                     *)

Side(dials, l, r, in, out) ==
  IF dials THEN PairInv(l, r, in, out) ELSE PairInv(r, l, out, in)

(* A message of the protocol is posted to a registered sibling. *)
LEMMA SidePost ==
  ASSUME NEW M, NEW in \in Seq(M), NEW out \in Seq(M), NEW m \in M, OfProtocol(m),
         NEW l, NEW r, NEW dials \in BOOLEAN, Side(dials, l, r, in, out), l # "none"
  PROVE  Side(dials, l, r, in, IF Ended(in) THEN out ELSE Append(out, m))
<1>1. CASE Ended(in)
  BY <1>1
<1>2. CASE ~Ended(in) /\ dials
  <2>1. PairInv(l, r, in, out)
    BY <1>2 DEF Side
  <2>2. Open(r, out)
    BY <1>2, <2>1 DEF PairInv
  <2>3. /\ Open(r, Append(out, m))
        /\ Pending(Append(out, m)) => Pending(out)
    BY <2>2, AppendedQueue DEF OfProtocol
  <2>4. AcceptorInv(r, Append(out, m))
    BY <2>1, <2>2, AcceptorAppend DEF PairInv, OfProtocol
  <2>5. PairInv(l, r, in, Append(out, m))
    BY <1>2, <2>1, <2>3, <2>4 DEF PairInv
  <2>6. QED
    BY <1>2, <2>5 DEF Side
<1>3. CASE ~Ended(in) /\ ~dials
  <2>1. PairInv(r, l, out, in)
    BY <1>3 DEF Side
  <2>2. Open(l, in)
    BY <1>3, OpenPending
  <2>3. r # "none" /\ ~Ended(out)
    BY <2>1, <2>2 DEF PairInv
  <2>4. ~Pending(in)
    <3>1. SUFFICES ASSUME NEW n \in DOMAIN in, IsClusterNode(in[n])
                   PROVE  FALSE
      BY DEF Pending
    <3>2. ~Registered(l, in, n)
      BY <2>1, <3>1 DEF PairInv, AcceptorInv
    <3>3. PICK k \in 1 .. n - 1 : IsEof(in[k])
      BY <3>2 DEF Registered
    <3>4. k \in DOMAIN in
      BY <3>1, <3>3
    <3>5. QED
      BY <1>3, <3>3, <3>4 DEF Ended
  <2>5. DiallerInv(r, Append(out, m))
    BY <2>1, <2>3, DiallerAppend DEF PairInv, OfProtocol
  <2>6. ~Ended(Append(out, m))
    BY <2>3, AppendedQueue DEF OfProtocol
  <2>7. PairInv(r, l, Append(out, m), in)
    BY <2>1, <2>2, <2>3, <2>4, <2>5, <2>6 DEF PairInv
  <2>8. QED
    BY <1>3, <2>7 DEF Side
<1>4. QED
  BY <1>1, <1>2, <1>3

(* What a node reads of a sibling it reads of a registered one. *)
LEMMA ReadOfRegistered ==
  ASSUME NEW M, NEW in \in Seq(M), NEW out, in # << >>, OfProtocol(Head(in)),
         NEW l, NEW r, NEW dials \in BOOLEAN, Side(dials, l, r, in, out)
  PROVE  l # "none"
<1>1. 1 \in DOMAIN in /\ Head(in) = in[1]
  OBVIOUS
<1>2. CASE dials
  BY <1>1, <1>2 DEF Side, PairInv, DiallerInv
<1>3. CASE ~dials
  <2>1. Registered(l, in, 1)
    BY <1>1, <1>3 DEF Side, PairInv, AcceptorInv
  <2>2. 1 .. 1 - 1 = {}
    OBVIOUS
  <2>3. QED
    BY <2>1, <2>2 DEF Registered
<1>4. QED
  BY <1>2, <1>3

(* A message of the protocol is read; the answer to a clusternode completes
   the registration. *)
LEMMA SideRead ==
  ASSUME NEW M, NEW in \in Seq(M), NEW out, in # << >>, OfProtocol(Head(in)),
         NEW l, NEW r, NEW dials \in BOOLEAN, Side(dials, l, r, in, out),
         NEW k, k = l \/ (k = "up" /\ Head(in).type = "replyclusternode")
  PROVE  Side(dials, k, r, Tail(in), out)
<1>1. l # "none" /\ k # "none"
  BY ReadOfRegistered
<1>2. 1 \in DOMAIN in /\ Head(in) = in[1] /\ ~IsEof(Head(in)) /\ ~IsClusterNode(Head(in))
  BY DEF OfProtocol
<1>3. CASE dials
  <2>1. PairInv(l, r, in, out)
    BY <1>3 DEF Side
  <2>2. /\ DiallerInv(k, Tail(in))
        /\ Ended(Tail(in)) <=> Ended(in)
        /\ \A n \in DOMAIN Tail(in) : \E p \in DOMAIN in : Tail(in)[n] = in[p]
    BY <1>1, <1>2, <2>1, DiallerReads DEF PairInv
  <2>3. PairInv(k, r, Tail(in), out)
    BY <1>1, <1>2, <2>1, <2>2 DEF PairInv
  <2>4. QED
    BY <1>3, <2>3 DEF Side
<1>4. CASE ~dials
  <2>1. PairInv(r, l, out, in)
    BY <1>4 DEF Side
  <2>2. Registered(l, in, 2)
    <3>1. 1 .. 2 - 1 = {1}
      OBVIOUS
    <3>2. QED
      BY <1>1, <1>2, <3>1 DEF Registered
  <2>3. /\ Open(k, Tail(in)) <=> Open(l, in)
        /\ Pending(Tail(in)) => Pending(in)
        /\ AcceptorInv(l, in) => AcceptorInv(k, Tail(in))
    BY <1>1, <2>2, ReadQueue
  <2>4. PairInv(r, k, out, Tail(in))
    BY <2>1, <2>3 DEF PairInv
  <2>5. QED
    BY <1>4, <2>4 DEF Side
<1>5. QED
  BY <1>3, <1>4

(* A clusternode is read: the sibling is registered. *)
LEMMA SideClusterNode ==
  ASSUME NEW M, NEW in \in Seq(M), NEW out, in # << >>, IsClusterNode(Head(in)),
         NEW l, NEW r, NEW dials \in BOOLEAN, Side(dials, l, r, in, out)
  PROVE  Side(dials, "up", r, Tail(in), out)
<1>1. 1 \in DOMAIN in /\ Head(in) = in[1]
  OBVIOUS
<1>2. ~dials
  BY <1>1 DEF Side, PairInv, DiallerInv
<1>3. PairInv(r, l, out, in)
  BY <1>2 DEF Side
<1>4. Registered(l, in, 2)
  <2>1. 1 \in 1 .. 2 - 1 /\ 1 + 1 .. 2 - 1 = {}
    OBVIOUS
  <2>2. QED
    BY <1>1, <2>1 DEF Registered
<1>5. /\ Open("up", Tail(in)) <=> Open(l, in)
      /\ Pending(Tail(in)) => Pending(in)
      /\ AcceptorInv(l, in) => AcceptorInv("up", Tail(in))
  BY <1>4, ReadQueue
<1>6. PairInv(r, "up", out, Tail(in))
  BY <1>3, <1>5 DEF PairInv
<1>7. QED
  BY <1>2, <1>6 DEF Side

(* The end of a connection is read. *)
LEMMA SideEof ==
  ASSUME NEW M, NEW in \in Seq(M), NEW out \in Seq(M), in # << >>, IsEof(Head(in)),
         NEW l, NEW r, NEW dials \in BOOLEAN, Side(dials, l, r, in, out)
  PROVE  Side(dials, "none", r, Tail(in), out)
<1>1. 1 \in DOMAIN in /\ Head(in) = in[1]
  OBVIOUS
<1>2. CASE dials
  <2>1. PairInv(l, r, in, out)
    BY <1>2 DEF Side
  <2>2. Ended(in) /\ Tail(in) = << >>
    BY <2>1, DiallerEnds DEF PairInv
  <2>3. ~Open(r, out) /\ ~Pending(out)
    BY <2>1, <2>2, OpenPending DEF PairInv
  <2>4. DiallerInv("none", Tail(in))
    BY <2>2 DEF DiallerInv
  <2>5. PairInv("none", r, Tail(in), out)
    BY <2>1, <2>3, <2>4 DEF PairInv
  <2>6. QED
    BY <1>2, <2>5 DEF Side
<1>3. CASE ~dials
  <2>1. PairInv(r, l, out, in)
    BY <1>3 DEF Side
  <2>2. ~Registered(l, in, 2)
    <3>1. 1 .. 2 - 1 = {1}
      OBVIOUS
    <3>2. ~IsClusterNode(in[1])
      BY <1>1 DEF IsClusterNode, IsEof
    <3>3. QED
      BY <1>1, <3>1, <3>2 DEF Registered
  <2>3. /\ Open("none", Tail(in)) <=> Open(l, in)
        /\ Pending(Tail(in)) => Pending(in)
        /\ AcceptorInv(l, in) => AcceptorInv("none", Tail(in))
    BY <2>2, ReadQueue
  <2>4. PairInv(r, "none", out, Tail(in))
    BY <2>1, <2>3 DEF PairInv
  <2>5. QED
    BY <1>3, <2>4 DEF Side
<1>4. QED
  BY <1>2, <1>3

(* A node that has no connection dials; its process may be refused. *)
LEMMA SideDial ==
  ASSUME NEW M, NEW in \in Seq(M), NEW out \in Seq(M), ClusterNode \in M, Eof \in M,
         NEW r, Side(TRUE, "none", r, in, out)
  PROVE  /\ Side(TRUE, "trying", r, in, Append(out, ClusterNode))
         /\ Side(TRUE, "trying", r, Append(in, Eof), out)
<1>1. PairInv("none", r, in, out)
  BY DEF Side
<1>2. in = << >> /\ ~Open(r, out) /\ ~Pending(out)
  BY <1>1, OpenPending DEF PairInv, DiallerInv
<1>3. /\ IsClusterNode(ClusterNode) /\ ~IsEof(ClusterNode)
      /\ ~IsClusterNode(Eof) /\ IsEof(Eof)
  BY DEF IsClusterNode, IsEof, ClusterNode, Eof
<1>4. ~Ended(in) /\ DOMAIN in = {}
  BY <1>2 DEF Ended
<1>5. PairInv("trying", r, in, Append(out, ClusterNode))
  <2>1. Open(r, Append(out, ClusterNode))
    BY <1>3, AppendedQueue
  <2>2. AcceptorInv(r, Append(out, ClusterNode))
    BY <1>1, <1>2, <1>3, AcceptorAppend DEF PairInv, OfProtocol
  <2>3. DiallerInv("trying", in)
    BY <1>4 DEF DiallerInv
  <2>4. QED
    BY <1>4, <2>1, <2>2, <2>3 DEF PairInv
<1>6. PairInv("trying", r, Append(in, Eof), out)
  <2>1. Ended(Append(in, Eof))
    BY <1>3, AppendedQueue
  <2>2. DiallerInv("trying", in)
    BY <1>4 DEF DiallerInv
  <2>3. DiallerInv("trying", Append(in, Eof))
    BY <1>3, <1>4, <2>2, DiallerAppend
  <2>4. QED
    BY <1>1, <1>2, <2>1, <2>3 DEF PairInv
<1>7. QED
  BY <1>5, <1>6 DEF Side

(* The process ends.  It leaves the sibling what had arrived of out, and the
   end of the connection if the sibling had one to it. *)
LEMMA SideStop ==
  ASSUME NEW M, NEW in \in Seq(M), NEW out \in Seq(M), Eof \in M,
         NEW l, NEW r, NEW dials \in BOOLEAN, Side(dials, l, r, in, out),
         NEW read \in Seq(M),
         read = out \/ (Ended(out) /\ read = <<Eof>>) \/ (~Ended(out) /\ read = << >>),
         NEW left,
         (l # "none" /\ ~Ended(in)) \/ (r = "trying" /\ ~Ended(out)) =>
           left = Append(read, Eof),
         ~((l # "none" /\ ~Ended(in)) \/ (r = "trying" /\ ~Ended(out))) =>
           left = read
  PROVE  Side(dials, "none", r, << >>, left)
<1>1. IsEof(Eof) /\ ~IsClusterNode(Eof) /\ ~OfProtocol(Eof)
  BY DEF IsEof, IsClusterNode, OfProtocol, Eof
<1>2. DOMAIN << >> = {} /\ << >> \in Seq(M) /\ <<Eof>> = Append(<< >>, Eof)
  OBVIOUS
<1>3. ~Ended(<< >>) /\ ~Pending(<< >>) /\ Ended(<<Eof>>) /\ ~Pending(<<Eof>>)
  <2>1. ~Ended(<< >>) /\ ~Pending(<< >>)
    BY <1>2 DEF Ended, Pending
  <2>2. QED
    BY <1>1, <1>2, <2>1, AppendedQueue
<1>4. \A k : AcceptorInv(k, << >>) /\ AcceptorInv(k, <<Eof>>)
  <2>1. \A k : AcceptorInv(k, << >>)
    BY <1>2 DEF AcceptorInv
  <2>2. QED
    BY <1>1, <1>2, <2>1, AcceptorAppend
<1>5. DiallerInv("none", << >>)
  BY <1>2 DEF DiallerInv
<1>6. left \in Seq(M)
  BY SMTT(30)
<1>7. CASE dials
  <2>1. PairInv(l, r, in, out)
    BY <1>7 DEF Side
  <2>2. AcceptorInv(r, read)
    BY <1>4, <2>1 DEF PairInv
  <2>3. AcceptorInv(r, left)
    BY <1>1, <2>2, AcceptorAppend
  <2>4. ~Open(r, left)
    <3>1. CASE left = Append(read, Eof)
      BY <1>1, <3>1, AppendedQueue
    <3>2. CASE left = read
      <4>1. CASE l # "none" /\ ~Ended(in)
        <5>1. left = Append(read, Eof)
          BY <4>1
        <5>2. QED
          BY <1>1, <5>1, AppendedQueue
      <4>2. CASE ~(l # "none" /\ ~Ended(in))
        <5>1. ~Open(r, out)
          BY <2>1, <4>2 DEF PairInv
        <5>2. CASE read = out
          BY <3>2, <5>1, <5>2
        <5>3. CASE Ended(out) /\ read = <<Eof>>
          BY <1>2, <1>3, <3>2, <5>3, OpenPending
        <5>4. CASE ~Ended(out) /\ read = << >>
          BY <1>2, <1>3, <3>2, <5>1, <5>4, OpenPending
        <5>5. QED
          BY <5>2, <5>3, <5>4
      <4>3. QED
        BY <4>1, <4>2
    <3>3. QED
      BY <3>1, <3>2
  <2>5. ~Pending(left)
    BY <1>6, <2>4, OpenPending
  <2>6. PairInv("none", r, << >>, left)
    BY <1>5, <2>3, <2>4, <2>5 DEF PairInv
  <2>7. QED
    BY <1>7, <2>6 DEF Side
<1>8. CASE ~dials
  <2>1. PairInv(r, l, out, in)
    BY <1>8 DEF Side
  <2>2. l # "none" /\ ~Ended(in) => r # "none" /\ ~Ended(out)
    BY <2>1, OpenPending DEF PairInv
  <2>3. ~Open("none", << >>)
    BY <1>2, <1>3, OpenPending
  <2>4. ~(r # "none" /\ ~Ended(left))
    <3>1. SUFFICES ASSUME r # "none", ~Ended(left) PROVE FALSE
      OBVIOUS
    <3>2. left # Append(read, Eof)
      BY <1>1, <3>1, AppendedQueue
    <3>3. /\ ~(l # "none" /\ ~Ended(in)) /\ ~(r = "trying" /\ ~Ended(out))
          /\ left = read
      BY <3>2
    <3>4. ~Ended(out)
      BY <1>3, <3>1, <3>3
    <3>5. Open(l, in)
      BY <2>1, <3>1, <3>4 DEF PairInv
    <3>6. Pending(in)
      BY <3>3, <3>5, OpenPending
    <3>7. r = "trying"
      BY <2>1, <3>6 DEF PairInv
    <3>8. QED
      BY <3>3, <3>4, <3>7
  <2>5. DiallerInv(r, left)
    <3>1. CASE r = "none"
      <4>1. out = << >>
        BY <2>1, <3>1 DEF PairInv, DiallerInv
      <4>2. left = << >>
        BY <1>3, <2>2, <3>1, <4>1
      <4>3. QED
        BY <1>2, <4>2 DEF DiallerInv
    <3>2. CASE r # "none" /\ Ended(out)
      <4>1. left = read
        BY <2>2, <3>2
      <4>2. DiallerInv(r, <<Eof>>)
        <5>1. DiallerInv(r, << >>)
          BY <1>2 DEF DiallerInv
        <5>2. QED
          BY <1>1, <1>2, <1>3, <3>2, <5>1, DiallerAppend
      <4>3. QED
        BY <2>1, <3>2, <4>1, <4>2 DEF PairInv
    <3>3. CASE r # "none" /\ ~Ended(out)
      <4>1. DiallerInv(r, << >>)
        BY <1>2 DEF DiallerInv
      <4>2. DiallerInv(r, read) /\ ~Ended(read)
        BY <1>3, <2>1, <3>3, <4>1 DEF PairInv
      <4>3. DiallerInv(r, Append(read, Eof))
        BY <1>1, <3>3, <4>2, DiallerAppend
      <4>4. QED
        BY <4>2, <4>3
    <3>4. QED
      BY <3>1, <3>2, <3>3
  <2>6. PairInv(r, "none", left, << >>)
    BY <1>3, <1>4, <2>3, <2>4, <2>5 DEF PairInv
  <2>7. QED
    BY <1>8, <2>6 DEF Side
<1>9. QED
  BY <1>7, <1>8

(* A connection breaks: each end reads that it has ended. *)
LEMMA PairBreak ==
  ASSUME NEW l, NEW r, l # "none"
  PROVE  PairInv(l, r, <<Eof>>, <<Eof>>)
<1>1. IsEof(Eof) /\ ~IsClusterNode(Eof) /\ ~OfProtocol(Eof)
  BY DEF IsEof, IsClusterNode, OfProtocol, Eof
<1>2. DOMAIN << >> = {} /\ << >> \in Seq({Eof}) /\ <<Eof>> = Append(<< >>, Eof)
  OBVIOUS
<1>3. Ended(<<Eof>>) /\ ~Pending(<<Eof>>) /\ ~Open(r, <<Eof>>) /\ ~Ended(<< >>)
  BY <1>1, <1>2, AppendedQueue DEF Ended
<1>4. AcceptorInv(r, <<Eof>>)
  <2>1. AcceptorInv(r, << >>)
    BY <1>2 DEF AcceptorInv
  <2>2. QED
    BY <1>1, <1>2, <2>1, AcceptorAppend
<1>5. DiallerInv(l, <<Eof>>)
  <2>1. DiallerInv(l, << >>)
    BY <1>2 DEF DiallerInv
  <2>2. QED
    BY <1>1, <1>2, <1>3, <2>1, DiallerAppend
<1>6. QED
  BY <1>3, <1>4, <1>5 DEF PairInv

-----------------------------------------------------------------------------
(* All pairs. *)

Links(lk, ch) ==
  /\ \A i \in Node : lk[i][i] = "none"
  /\ \A i, j \in Node :
       i # j => Side(j < i, lk[i][j], lk[j][i], ch[j][i], ch[i][j])

LEMMA SideFlips ==
  ASSUME NEW i \in Node, NEW j \in Node, i # j,
         NEW l, NEW r, NEW in, NEW out, Side(j < i, l, r, in, out)
  PROVE  Side(i < j, r, l, out, in)
<1>1. i < j <=> ~(j < i)
  BY IdAssumption DEF Node
<1>2. QED
  BY <1>1 DEF Side

LEMMA LinksOfPairs ==
  ASSUME NEW lk, NEW ch
  PROVE  Links(lk, ch) <=>
           /\ \A i \in Node : lk[i][i] = "none"
           /\ \A d, a \in Node :
                a < d => PairInv(lk[d][a], lk[a][d], ch[a][d], ch[d][a])
<1>1. \A i, j \in Node : (i # j <=> i < j \/ j < i) /\ (i < j => ~(j < i))
  BY IdAssumption DEF Node
<1>2. ASSUME Links(lk, ch), NEW d \in Node, NEW a \in Node, a < d
      PROVE  PairInv(lk[d][a], lk[a][d], ch[a][d], ch[d][a])
  <2>1. Side(a < d, lk[d][a], lk[a][d], ch[a][d], ch[d][a])
    BY <1>1, <1>2 DEF Links
  <2>2. QED
    BY <1>2, <2>1 DEF Side
<1>3. ASSUME \A d, a \in Node :
               a < d => PairInv(lk[d][a], lk[a][d], ch[a][d], ch[d][a]),
             NEW i \in Node, NEW j \in Node, i # j
      PROVE  Side(j < i, lk[i][j], lk[j][i], ch[j][i], ch[i][j])
  <2>1. CASE j < i
    BY <1>3, <2>1 DEF Side
  <2>2. CASE ~(j < i)
    <3>1. i < j
      BY <1>1, <1>3, <2>2
    <3>2. QED
      BY <1>3, <2>2, <3>1 DEF Side
  <2>3. QED
    BY <2>1, <2>2
<1>4. QED
  BY <1>2, <1>3 DEF Links

LEMMA LinkInvIsLinks ==
  /\ LinkInv <=> Links(link, chan)
  /\ LinkInv' <=> Links(link', chan')
BY LinksOfPairs DEF LinkInv

(* A step of i concerns the pairs of i. *)
LEMMA OneNode ==
  ASSUME NEW lk, NEW ch, Links(lk, ch), NEW lk2, NEW ch2, NEW i \in Node,
         lk2[i][i] = "none",
         \A a, b \in Node :
           a # i /\ b # i => lk2[a][b] = lk[a][b] /\ ch2[a][b] = ch[a][b],
         \A j \in Node :
           j # i => Side(j < i, lk2[i][j], lk2[j][i], ch2[j][i], ch2[i][j])
  PROVE  Links(lk2, ch2)
<1>1. \A a \in Node : lk2[a][a] = "none"
  BY DEF Links
<1>2. ASSUME NEW a \in Node, NEW b \in Node, a # b
      PROVE  Side(b < a, lk2[a][b], lk2[b][a], ch2[b][a], ch2[a][b])
  <2>1. CASE a = i
    BY <1>2, <2>1
  <2>2. CASE b = i
    <3>1. Side(a < i, lk2[i][a], lk2[a][i], ch2[a][i], ch2[i][a])
      BY <1>2, <2>2
    <3>2. QED
      BY <1>2, <2>2, <3>1, SideFlips
  <2>3. CASE a # i /\ b # i
    BY <1>2, <2>3 DEF Links
  <2>4. QED
    BY <2>1, <2>2, <2>3
<1>3. QED
  BY <1>1, <1>2 DEF Links

LEMMA LinksSide ==
  ASSUME NEW M, NEW lk, NEW ch \in Channels(M), Links(lk, ch),
         NEW i \in Node, NEW j \in Node, i # j
  PROVE  /\ Side(j < i, lk[i][j], lk[j][i], ch[j][i], ch[i][j])
         /\ ch[j][i] \in Seq(M) /\ ch[i][j] \in Seq(M)
         /\ (j < i) \in BOOLEAN
BY DEF Links, Channels

LEMMA BroadcastLinks ==
  ASSUME NEW M, NEW lk, NEW ch \in Channels(M), Links(lk, ch), NEW i \in Node,
         NEW targets, NEW message,
         \A j \in targets : /\ j \in Sibling(i) /\ lk[i][j] # "none"
                            /\ message[j] \in M /\ OfProtocol(message[j])
  PROVE  Links(lk, Broadcast(ch, i, targets, message))
<1> DEFINE ch2 == Broadcast(ch, i, targets, message)
<1>1. /\ \A a, b \in Node : a # i => ch2[a][b] = ch[a][b]
      /\ \A j \in Node : ch2[i][j] = IF j \in targets
                                     THEN Post(ch, i, j, message[j]) ELSE ch[i][j]
  BY DEF Broadcast, Channels
<1>2. ASSUME NEW j \in Node, j # i
      PROVE  Side(j < i, lk[i][j], lk[j][i], ch2[j][i], ch2[i][j])
  <2>1. /\ Side(j < i, lk[i][j], lk[j][i], ch[j][i], ch[i][j])
        /\ ch[j][i] \in Seq(M) /\ ch[i][j] \in Seq(M) /\ (j < i) \in BOOLEAN
    BY <1>2, LinksSide
  <2>2. ch2[j][i] = ch[j][i]
    BY <1>1, <1>2
  <2>3. CASE j \in targets
    <3>1. ch2[i][j] = IF Ended(ch[j][i]) THEN ch[i][j]
                                         ELSE Append(ch[i][j], message[j])
      BY <1>1, <2>3 DEF Post
    <3>2. QED
      BY <2>1, <2>2, <2>3, <3>1, SidePost
  <2>4. CASE j \notin targets
    BY <1>1, <2>1, <2>2, <2>4
  <2>5. QED
    BY <2>3, <2>4
<1>3. lk[i][i] = "none"
  BY DEF Links
<1> HIDE DEF ch2
<1>4. Links(lk, ch2)
  BY <1>1, <1>2, <1>3, OneNode
<1>5. QED
  BY <1>4 DEF ch2

LEMMA SetCells ==
  ASSUME NEW V, NEW table \in Table(V), NEW i \in Node, NEW S, NEW value
  PROVE  /\ \A a, b \in Node : a # i => Set(table, i, S, value)[a][b] = table[a][b]
         /\ \A b \in Node : Set(table, i, S, value)[i][b] =
                              IF b \in S THEN value ELSE table[i][b]
BY DEF Set, Table

LEMMA DialLinks ==
  ASSUME NEW M, Eof \in M, ClusterNode \in M,
         NEW V, NEW lk \in Table(V), NEW ch \in Channels(M), Links(lk, ch),
         NEW i \in Node, NEW targets, NEW alive,
         \A j \in targets : j \in Sibling(i) /\ j < i /\ lk[i][j] = "none"
  PROVE  Links(Set(lk, i, targets, "trying"), Dial(ch, i, targets, alive))
<1> DEFINE lk2 == Set(lk, i, targets, "trying")
           ch2 == Dial(ch, i, targets, alive)
<1>1. /\ \A a, b \in Node : a # i => lk2[a][b] = lk[a][b]
      /\ \A b \in Node : lk2[i][b] = IF b \in targets THEN "trying" ELSE lk[i][b]
  BY SetCells
<1>2. /\ \A a, b \in Node : a # i /\ b # i => ch2[a][b] = ch[a][b]
      /\ \A b \in Node \ {i} :
           /\ ch2[i][b] = IF b \in targets /\ b \in alive
                          THEN Append(ch[i][b], ClusterNode) ELSE ch[i][b]
           /\ ch2[b][i] = IF b \in targets /\ b \notin alive
                          THEN Append(ch[b][i], Eof) ELSE ch[b][i]
  BY DEF Dial
<1> HIDE DEF lk2, ch2
<1>3. ASSUME NEW j \in Node, j # i
      PROVE  Side(j < i, lk2[i][j], lk2[j][i], ch2[j][i], ch2[i][j])
  <2>1. /\ Side(j < i, lk[i][j], lk[j][i], ch[j][i], ch[i][j])
        /\ ch[j][i] \in Seq(M) /\ ch[i][j] \in Seq(M) /\ (j < i) \in BOOLEAN
    BY <1>3, LinksSide
  <2>2. CASE j \in targets
    <3>1. (j < i) = TRUE /\ lk[i][j] = "none"
      BY <2>2
    <3>2. Side(TRUE, "none", lk[j][i], ch[j][i], ch[i][j])
      BY <2>1, <3>1
    <3>3. /\ Side(TRUE, "trying", lk[j][i], ch[j][i], Append(ch[i][j], ClusterNode))
          /\ Side(TRUE, "trying", lk[j][i], Append(ch[j][i], Eof), ch[i][j])
      BY <2>1, <3>2, SideDial
    <3>4. lk2[i][j] = "trying" /\ lk2[j][i] = lk[j][i]
      BY <1>1, <1>3, <2>2
    <3>5. \/ ch2[i][j] = Append(ch[i][j], ClusterNode) /\ ch2[j][i] = ch[j][i]
          \/ ch2[i][j] = ch[i][j] /\ ch2[j][i] = Append(ch[j][i], Eof)
      BY <1>2, <1>3, <2>2
    <3>6. QED
      BY <3>1, <3>3, <3>4, <3>5
  <2>3. CASE j \notin targets
    BY <1>1, <1>2, <1>3, <2>1, <2>3
  <2>4. QED
    BY <2>2, <2>3
<1>4. lk2[i][i] = "none"
  BY <1>1 DEF Links, Sibling
<1>5. Links(lk2, ch2)
  <2>1. \A a, b \in Node :
          a # i /\ b # i => lk2[a][b] = lk[a][b] /\ ch2[a][b] = ch[a][b]
    BY <1>1, <1>2
  <2>2. \A b \in Node :
          b # i => Side(b < i, lk2[i][b], lk2[b][i], ch2[b][i], ch2[i][b])
    BY <1>3
  <2>3. QED
    BY ONLY Links(lk, ch), i \in Node, <1>4, <2>1, <2>2, OneNode, SMTT(30)
<1>6. QED
  BY <1>5 DEF lk2, ch2

(* i reads the head of what j sent, and its link becomes k. *)
LEMMA ReadLinks ==
  ASSUME NEW M, NEW V, NEW lk \in Table(V), NEW ch \in Channels(M), Links(lk, ch),
         NEW i \in Node, NEW j \in Sibling(i), ch[j][i] # << >>,
         NEW lk2, NEW k,
         lk2 = Set(lk, i, {j}, k) \/ (k = lk[i][j] /\ lk2 = lk),
         \/ /\ OfProtocol(Head(ch[j][i]))
            /\ k = lk[i][j] \/ (k = "up" /\ Head(ch[j][i]).type = "replyclusternode")
         \/ IsClusterNode(Head(ch[j][i])) /\ k = "up"
         \/ IsEof(Head(ch[j][i])) /\ k = "none"
  PROVE  /\ Links(lk2, Consume(ch, i, j))
         /\ Consume(ch, i, j) \in Channels(M)
         /\ lk2[i][j] = k
<1> DEFINE ch2 == Consume(ch, i, j)
<1>0. j \in Node /\ j # i
  BY DEF Sibling
<1>1. /\ \A a, b \in Node : ~(a = i /\ b = j) => lk2[a][b] = lk[a][b]
      /\ lk2[i][j] = k
  BY <1>0, SetCells
<1>2. /\ \A a, b \in Node : ~(a = j /\ b = i) => ch2[a][b] = ch[a][b]
      /\ ch2[j][i] = Tail(ch[j][i])
  BY <1>0 DEF Consume, Channels
<1>3. ch2 \in Channels(M)
  BY <1>0, ConsumeType
<1> HIDE DEF ch2
<1>4. ASSUME NEW b \in Node, b # i
      PROVE  Side(b < i, lk2[i][b], lk2[b][i], ch2[b][i], ch2[i][b])
  <2>1. /\ Side(b < i, lk[i][b], lk[b][i], ch[b][i], ch[i][b])
        /\ ch[b][i] \in Seq(M) /\ ch[i][b] \in Seq(M) /\ (b < i) \in BOOLEAN
    BY <1>4, LinksSide
  <2>2. CASE b = j
    <3>1. Side(j < i, k, lk[j][i], Tail(ch[j][i]), ch[i][j])
      <4> DEFINE in == ch[j][i]
                 out == ch[i][j]
      <4>1. /\ in \in Seq(M) /\ out \in Seq(M) /\ in # << >> /\ (j < i) \in BOOLEAN
            /\ Side(j < i, lk[i][j], lk[j][i], in, out)
        BY <2>1, <2>2
      <4>2. \/ /\ OfProtocol(Head(in))
               /\ k = lk[i][j] \/ (k = "up" /\ Head(in).type = "replyclusternode")
            \/ IsClusterNode(Head(in)) /\ k = "up"
            \/ IsEof(Head(in)) /\ k = "none"
        OBVIOUS
      <4> HIDE DEF in, out
      <4>3. Side(j < i, k, lk[j][i], Tail(in), out)
        BY <4>1, <4>2, SideRead, SideClusterNode, SideEof
      <4>4. QED
        BY <4>3 DEF in, out
    <3>2. QED
      BY <1>0, <1>1, <1>2, <2>2, <3>1
  <2>3. CASE b # j
    BY <1>1, <1>2, <1>4, <2>1, <2>3
  <2>4. QED
    BY <2>2, <2>3
<1>5. lk2[i][i] = "none"
  BY <1>0, <1>1 DEF Links
<1>6. Links(lk2, ch2)
  <2>1. \A a, b \in Node :
          a # i /\ b # i => lk2[a][b] = lk[a][b] /\ ch2[a][b] = ch[a][b]
    BY <1>1, <1>2
  <2>2. \A b \in Node :
          b # i => Side(b < i, lk2[i][b], lk2[b][i], ch2[b][i], ch2[i][b])
    BY <1>4
  <2>3. QED
    BY ONLY Links(lk, ch), i \in Node, <1>5, <2>1, <2>2, OneNode, SMTT(30)
<1>7. QED
  BY <1>1, <1>3, <1>6 DEF ch2

(* i answers j. *)
LEMMA PostLinks ==
  ASSUME NEW M, NEW lk, NEW ch \in Channels(M), Links(lk, ch), NEW i \in Node,
         NEW j \in Sibling(i), NEW m \in M, OfProtocol(m), lk[i][j] # "none"
  PROVE  Links(lk, [ch EXCEPT ![i][j] = Post(ch, i, j, m)])
<1> DEFINE message == [a \in Node |-> m]
<1>1. \A a \in {j} : message[a] = m /\ a \in Sibling(i) /\ a \in Node
  BY DEF Sibling
<1>2. [ch EXCEPT ![i][j] = Post(ch, i, j, m)] = Broadcast(ch, i, {j}, message)
  <2>1. \A b \in Node : (IF b \in {j} THEN Post(ch, i, b, message[b]) ELSE ch[i][b])
                        = [ch[i] EXCEPT ![j] = Post(ch, i, j, m)][b]
    BY <1>1 DEF Channels
  <2>2. [b \in Node |-> IF b \in {j} THEN Post(ch, i, b, message[b]) ELSE ch[i][b]]
        = [ch[i] EXCEPT ![j] = Post(ch, i, j, m)]
    BY <1>1, <2>1 DEF Channels
  <2>3. QED
    BY <2>2 DEF Broadcast, Channels
<1>3. Links(lk, Broadcast(ch, i, {j}, message))
  <2> HIDE DEF message
  <2>1. QED
    BY <1>1, BroadcastLinks
<1>4. QED
  BY <1>2, <1>3

LEMMA BreakLinks ==
  ASSUME NEW M, NEW lk, NEW ch \in Channels(M), Links(lk, ch),
         NEW i \in Node, NEW j \in Node, i < j, lk[j][i] # "none"
  PROVE  Links(lk, Break(ch, i, j))
<1> DEFINE ch2 == Break(ch, i, j)
<1>1. i # j /\ (i < j) = TRUE /\ (j < i) = FALSE
  BY IdAssumption DEF Node
<1>2. /\ ch2[i][j] = <<Eof>> /\ ch2[j][i] = <<Eof>>
      /\ \A a, b \in Node : ~(a = j /\ b = i) /\ ~(a = i /\ b = j) =>
           ch2[a][b] = ch[a][b]
  BY <1>1 DEF Break, Channels
<1> HIDE DEF ch2
<1>3. ASSUME NEW b \in Node, b # i
      PROVE  Side(b < i, lk[i][b], lk[b][i], ch2[b][i], ch2[i][b])
  <2>1. CASE b = j
    <3>1. PairInv(lk[j][i], lk[i][j], <<Eof>>, <<Eof>>)
      BY PairBreak
    <3>2. QED
      BY <1>1, <1>2, <2>1, <3>1 DEF Side
  <2>2. CASE b # j
    <3>1. Side(b < i, lk[i][b], lk[b][i], ch[b][i], ch[i][b])
      BY <1>3, LinksSide
    <3>2. QED
      BY <1>2, <1>3, <2>2, <3>1
  <2>3. QED
    BY <2>1, <2>2
<1>4. lk[i][i] = "none"
  BY DEF Links
<1>5. Links(lk, ch2)
  <2>1. \A a, b \in Node : a # i /\ b # i => ch2[a][b] = ch[a][b]
    BY <1>2
  <2>2. \A b \in Node :
          b # i => Side(b < i, lk[i][b], lk[b][i], ch2[b][i], ch2[i][b])
    BY <1>3
  <2>3. QED
    BY <1>4, <2>1, <2>2, OneNode
<1>6. QED
  BY <1>5 DEF ch2

-----------------------------------------------------------------------------
(* The actions. *)

LEMMA LinkTypes ==
  ASSUME LogInv
  PROVE  /\ chan \in Channels(SoundMessage)
         /\ link \in Table({"none", "trying", "up"})
BY DEF LogInv, TypeOK, Table

LEMMA Concatenation ==
  ASSUME NEW M, NEW q \in Seq(M), NEW m \in M
  PROVE  q \o <<m>> = Append(q, m) /\ q \o << >> = q
OBVIOUS

LEMMA StopLinks ==
  ASSUME LogInv, LinkInv, NEW i \in Node, NEW reason, NEW received,
         Stop(i, reason, received)
  PROVE  LinkInv'
<1>1. /\ chan \in Channels(SoundMessage) /\ link \in Table({"none", "trying", "up"})
      /\ Links(link, chan)
  BY LinkTypes, LinkInvIsLinks
<1>2. /\ \A a, b \in Node : a # i => link'[a][b] = link[a][b]
      /\ \A b \in Node : link'[i][b] = "none"
  BY <1>1, SetCells DEF Stop
<1> DEFINE Read(b) == CASE b \in received -> chan[i][b]
                        [] b \notin received /\ Ended(chan[i][b]) -> <<Eof>>
                        [] OTHER -> << >>
           End(b)  == IF b \in Connections(i) THEN <<Eof>> ELSE << >>
<1>3. /\ \A a, b \in Node : a # i /\ b # i => chan'[a][b] = chan[a][b]
      /\ \A b \in Node : b # i => chan'[b][i] = << >>
      /\ \A b \in Node : b # i => chan'[i][b] = Read(b) \o End(b)
  <2>1. chan' = [a \in Node |-> [b \in Node |->
                   CASE b = i -> << >>
                     [] a = i /\ b # i -> Read(b) \o End(b)
                     [] OTHER -> chan[a][b]]]
    BY DEF Stop, Hangup
  <2> HIDE DEF Read, End
  <2>2. QED
    BY <2>1
<1>4. ASSUME NEW b \in Node, b # i
      PROVE  Side(b < i, link'[i][b], link'[b][i], chan'[b][i], chan'[i][b])
  <2> DEFINE l == link[i][b]
             r == link[b][i]
             in == chan[b][i]
             out == chan[i][b]
             read == Read(b)
             left == Read(b) \o End(b)
  <2>1. /\ Side(b < i, l, r, in, out)
        /\ in \in Seq(SoundMessage) /\ out \in Seq(SoundMessage)
        /\ (b < i) \in BOOLEAN
    BY <1>1, <1>4, LinksSide
  <2>2. Eof \in SoundMessage
    BY PlainMessages
  <2>3. read = out \/ (Ended(out) /\ read = <<Eof>>) \/ (~Ended(out) /\ read = << >>)
    OBVIOUS
  <2>4. read \in Seq(SoundMessage)
    <3>1. <<Eof>> \in Seq(SoundMessage) /\ << >> \in Seq(SoundMessage)
      BY <2>2
    <3> HIDE DEF read, out
    <3>2. QED
      BY <2>1, <2>3, <3>1
  <2>5. b \in Connections(i) <=>
          (l # "none" /\ ~Ended(in)) \/ (r = "trying" /\ ~Ended(out))
    BY <1>4 DEF Connections, Sibling
  <2>6. left = IF b \in Connections(i) THEN Append(read, Eof) ELSE read
    <3>1. left = IF b \in Connections(i) THEN read \o <<Eof>> ELSE read \o << >>
      OBVIOUS
    <3> HIDE DEF read, left
    <3>2. QED
      BY <2>2, <2>4, <3>1, Concatenation
  <2> HIDE DEF l, r, in, out, read, left
  <2>7. Side(b < i, "none", r, << >>, left)
    <3>1. (l # "none" /\ ~Ended(in)) \/ (r = "trying" /\ ~Ended(out)) =>
            left = Append(read, Eof)
      BY <2>5, <2>6
    <3>2. ~((l # "none" /\ ~Ended(in)) \/ (r = "trying" /\ ~Ended(out))) =>
            left = read
      BY <2>5, <2>6
    <3> DEFINE dials == b < i
    <3>3. dials \in BOOLEAN /\ Side(dials, l, r, in, out)
      BY <2>1
    <3> HIDE DEF dials
    <3>4. Side(dials, "none", r, << >>, left)
      BY ONLY <2>1, <2>2, <2>3, <2>4, <3>1, <3>2, <3>3, SideStop
    <3>5. QED
      BY <3>4 DEF dials
  <2>8. link'[i][b] = "none" /\ link'[b][i] = r
    BY <1>2, <1>4 DEF r
  <2>9. chan'[b][i] = << >> /\ chan'[i][b] = left
    BY <1>3, <1>4 DEF left
  <2>10. QED
    BY <2>7, <2>8, <2>9
<1>5. Links(link', chan')
  <2>1. link'[i][i] = "none"
    BY <1>2
  <2>2. \A a, b \in Node :
          a # i /\ b # i => link'[a][b] = link[a][b] /\ chan'[a][b] = chan[a][b]
    BY <1>2, <1>3
  <2>3. \A b \in Node :
          b # i => Side(b < i, link'[i][b], link'[b][i], chan'[b][i], chan'[i][b])
    BY <1>4
  <2>4. QED
    BY ONLY <1>1, i \in Node, <2>1, <2>2, <2>3, OneNode
<1>6. QED
  BY <1>5, LinkInvIsLinks

(* cron() dials, then posts to siblings that are connected. *)
LEMMA CronLinks ==
  ASSUME LogInv, LinkInv, NEW i \in Node, NEW dialled, dialled \subseteq LostSiblings(i),
         NEW targets, targets \subseteq ConnectedSiblings(i), NEW message,
         \A j \in targets : message[j] \in SoundMessage /\ OfProtocol(message[j]),
         link' = Set(link, i, dialled, "trying"),
         chan' = Broadcast(Dial(chan, i, dialled, Alive), i, targets, message)
  PROVE  LinkInv'
<1> DEFINE ch == Dial(chan, i, dialled, Alive)
<1>1. /\ chan \in Channels(SoundMessage) /\ link \in Table({"none", "trying", "up"})
      /\ Links(link, chan)
  BY LinkTypes, LinkInvIsLinks
<1>2. ch \in Channels(SoundMessage)
  BY <1>1, DialType, PlainMessages
<1>3. Links(link', ch)
  <2>1. \A j \in dialled : j \in Sibling(i) /\ j < i /\ link[i][j] = "none"
    BY DEF LostSiblings
  <2>2. QED
    BY <1>1, <2>1, PlainMessages, DialLinks
<1>4. \A j \in targets : j \in Sibling(i) /\ link'[i][j] # "none"
  BY <1>1, SetCells DEF ConnectedSiblings, Sibling
<1> HIDE DEF ch
<1>5. Links(link', Broadcast(ch, i, targets, message))
  BY <1>2, <1>3, <1>4, BroadcastLinks
<1>6. QED
  BY <1>5, LinkInvIsLinks DEF ch

(* A message of the protocol is answered. *)
LEMMA AnswerLinks ==
  ASSUME LogInv, LinkInv, NEW i \in Node, NEW j \in Sibling(i),
         chan[j][i] # << >>, OfProtocol(Received(i, j)),
         NEW m \in SoundMessage, OfProtocol(m),
         link' = link, chan' = Answer(chan, i, j, m)
  PROVE  LinkInv'
<1> DEFINE ch == Consume(chan, i, j)
<1>1. /\ chan \in Channels(SoundMessage) /\ link \in Table({"none", "trying", "up"})
      /\ Links(link, chan)
  BY LinkTypes, LinkInvIsLinks
<1>2. Links(link, ch) /\ ch \in Channels(SoundMessage)
  BY <1>1, ReadLinks, ZenonT(30) DEF Received
<1>3. link[i][j] # "none"
  <2>1. j \in Node /\ i # j
    BY DEF Sibling
  <2>2. /\ Side(j < i, link[i][j], link[j][i], chan[j][i], chan[i][j])
        /\ chan[j][i] \in Seq(SoundMessage) /\ (j < i) \in BOOLEAN
    BY <1>1, <2>1, LinksSide
  <2>3. QED
    BY <2>2, ReadOfRegistered DEF Received
<1>4. chan' = [ch EXCEPT ![i][j] = Post(ch, i, j, m)]
  BY DEF Answer
<1> HIDE DEF ch
<1>5. Links(link, [ch EXCEPT ![i][j] = Post(ch, i, j, m)])
  BY <1>2, <1>3, PostLinks
<1>6. QED
  BY <1>4, <1>5, LinkInvIsLinks

(* Or it needs no answer. *)
LEMMA ConsumeLinks ==
  ASSUME LogInv, LinkInv, NEW i \in Node, NEW j \in Sibling(i),
         chan[j][i] # << >>, OfProtocol(Received(i, j)),
         link' = link, chan' = Consume(chan, i, j)
  PROVE  LinkInv'
<1>1. /\ chan \in Channels(SoundMessage) /\ link \in Table({"none", "trying", "up"})
      /\ Links(link, chan)
  BY LinkTypes, LinkInvIsLinks
<1>2. Links(link, Consume(chan, i, j))
  BY <1>1, ReadLinks DEF Received
<1>3. QED
  BY <1>2, LinkInvIsLinks

(* A type that is neither the end nor the beginning of a connection. *)
LEMMA ProtocolTypes ==
  ASSUME NEW m, m.type \notin {"eof", "clusternode"}
  PROVE  OfProtocol(m)
BY DEF OfProtocol, IsEof, IsClusterNode

LEMMA ReceivesProtocol ==
  ASSUME NEW i, NEW j, NEW type, type \notin {"eof", "clusternode"},
         Receives(i, j, type)
  PROVE  chan[j][i] # << >> /\ OfProtocol(Received(i, j))
BY ProtocolTypes DEF Receives

LEMMA BroadcastNothing ==
  ASSUME NEW M, NEW ch \in Channels(M), NEW i \in Node, NEW message
  PROVE  Broadcast(ch, i, {}, message) = ch
<1>1. [j \in Node |-> IF j \in {} THEN Post(ch, i, j, message[j]) ELSE ch[i][j]] = ch[i]
  BY DEF Channels
<1>2. QED
  BY <1>1 DEF Broadcast, Channels

(* A cron that only dials. *)
LEMMA CronDialsLinks ==
  ASSUME LogInv, LinkInv, NEW i \in Node, NEW dialled, dialled \subseteq LostSiblings(i),
         link' = Set(link, i, dialled, "trying"),
         chan' = Dial(chan, i, dialled, Alive)
  PROVE  LinkInv'
<1> DEFINE ch == Dial(chan, i, dialled, Alive)
           message == [j \in Node |-> Eof]
<1>1. ch \in Channels(SoundMessage)
  BY LinkTypes, DialType, PlainMessages
<1>2. chan' = Broadcast(ch, i, {}, message)
  BY <1>1, BroadcastNothing
<1> HIDE DEF message
<1>3. QED
  BY <1>2, CronLinks

LEMMA CronReconnectLinks ==
  ASSUME LogInv, LinkInv, NEW i \in Node, NEW reachable, CronReconnect(i, reachable)
  PROVE  LinkInv'
<1> DEFINE dialled == IF SiblingsBaseline(i) THEN {} ELSE LostSiblings(i)
<1>1. /\ link' = Set(link, i, dialled, "trying")
      /\ chan' = Dial(chan, i, dialled, Alive)
  BY DEF CronReconnect, AddSiblings
<1>2. dialled \subseteq LostSiblings(i)
  OBVIOUS
<1> HIDE DEF dialled
<1>3. QED
  BY <1>1, <1>2, CronDialsLinks

LEMMA CronIdleLinks ==
  ASSUME LogInv, LinkInv, NEW i \in Node, CronIdle(i)
  PROVE  LinkInv'
<1>1. /\ link' = Set(link, i, LostSiblings(i), "trying")
      /\ chan' = Dial(chan, i, LostSiblings(i), Alive)
  BY DEF CronIdle, AddSiblings
<1>2. QED
  BY <1>1, CronDialsLinks

LEMMA CronTimeoutLinks ==
  ASSUME LogInv, LinkInv, NEW i \in Node, CronTimeout(i)
  PROVE  LinkInv'
<1> DEFINE message == [j \in Node |-> RequestVote(i)]
<1>1. /\ link' = Set(link, i, LostSiblings(i), "trying")
      /\ chan' = Broadcast(Dial(chan, i, LostSiblings(i), Alive), i,
                           NeedAppendEntry(i), message)
  BY DEF CronTimeout, AddSiblings
<1>2. NeedAppendEntry(i) \subseteq ConnectedSiblings(i)
  BY DEF NeedAppendEntry
<1>3. RequestVote(i) \in SoundMessage
  <2>1. currentTerm'[i] \in Nat
    BY CronTimeoutInv DEF LogInv, TypeOK
  <2>2. FindLastEntry(log[i]).index \in Nat /\ FindLastEntry(log[i]).term \in Nat
    BY LogFiles, FindLastEntryDense DEF Entry
  <2>3. RequestVote(i) \in Message /\ RequestVote(i).type = "requestvote"
    BY <2>1, <2>2 DEF RequestVote, Message
  <2>4. QED
    BY <2>3 DEF SoundMessage, FollowsPrev
<1>4. OfProtocol(RequestVote(i))
  BY ProtocolTypes DEF RequestVote
<1>5. \A j \in NeedAppendEntry(i) : message[j] \in SoundMessage /\ OfProtocol(message[j])
  BY <1>3, <1>4 DEF NeedAppendEntry, ConnectedSiblings, Sibling
<1> HIDE DEF message
<1>6. QED
  BY <1>1, <1>2, <1>5, CronLinks

LEMMA SendAppendEntriesLinks ==
  ASSUME LogInv, LinkInv, NEW i \in Node, NEW S, S \subseteq NeedAppendEntry(i),
         SendAppendEntries(i, S)
  PROVE  LinkInv'
<1> DEFINE message == [j \in Node |-> AppendEntry(i, j)]
<1>1. /\ link' = Set(link, i, LostSiblings(i), "trying")
      /\ chan' = Broadcast(Dial(chan, i, LostSiblings(i), Alive), i, S, message)
  BY DEF SendAppendEntries, AddSiblings
<1>2. S \subseteq ConnectedSiblings(i)
  BY DEF NeedAppendEntry
<1>3. \A j \in Node : AppendEntry(i, j) \in SoundMessage /\ OfProtocol(AppendEntry(i, j))
  BY AppendEntrySound, ProtocolTypes DEF AppendEntry
<1>4. \A j \in S : message[j] \in SoundMessage /\ OfProtocol(message[j])
  BY <1>2, <1>3 DEF ConnectedSiblings, Sibling
<1> HIDE DEF message
<1>5. QED
  BY <1>1, <1>2, <1>4, CronLinks

(* What changes neither connections nor what is in flight. *)
LEMMA UnchangedLinks ==
  ASSUME LinkInv, link' = link, chan' = chan
  PROVE  LinkInv'
BY LinkInvIsLinks

LEMMA CronLinkInv ==
  ASSUME LogInv, LinkInv, NEW i \in Node, Cron(i)
  PROVE  LinkInv'
<1>1. ASSUME NEW reachable \in BOOLEAN, CronReconnect(i, reachable) PROVE LinkInv'
  BY <1>1, CronReconnectLinks
<1>2. CASE CronIdle(i)
  BY <1>2, CronIdleLinks
<1>3. CASE CronTimeout(i)
  BY <1>3, CronTimeoutLinks
<1>4. CASE CronWin(i)
  BY <1>4, UnchangedLinks DEF CronWin
<1>5. CASE CronLead(i)
  <2>1. SendAppendEntries(i, NeedAppendEntry(i))
    BY <1>5 DEF CronLead
  <2>2. QED
    BY <2>1, SendAppendEntriesLinks
<1>6. CASE CronLeadStepsDown(i)
  <2>1. SendAppendEntries(i, NeedAppendEntry(i) \ Unservable(i))
    BY <1>6 DEF CronLeadStepsDown
  <2>2. QED
    BY <2>1, SendAppendEntriesLinks
<1>7. ASSUME NEW received, CronFlushExits(i, received) \/ CronLeadExits(i, received)
      PROVE  LinkInv'
  BY <1>7, StopLinks DEF CronFlushExits, CronLeadExits
<1>8. QED
  BY <1>1, <1>2, <1>3, <1>4, <1>5, <1>6, <1>7 DEF Cron

(* An append entry is answered, unless the process ends. *)
LEMMA AppendEntryLinks ==
  ASSUME LogInv, LinkInv, NEW i \in Node, NEW j \in Sibling(i),
         \/ AppendEntryRefused(i, j) \/ AppendEntryMismatch(i, j)
         \/ AppendEntryFails(i, j) \/ AppendEntryAccepted(i, j)
  PROVE  LinkInv'
<1>1. j \in Node
  BY DEF Sibling
<1>2. chan[j][i] # << >> /\ OfProtocol(Received(i, j))
  BY ReceivesProtocol DEF AppendEntryRefused, AppendEntryMismatch,
                          AppendEntryFails, AppendEntryAccepted
<1>3. PICK success \in BOOLEAN, term \in {currentTerm[i], currentTerm'[i]} :
        /\ chan' = Answer(chan, i, j, [type |-> "replyappendentry", term |-> term,
                                       success |-> success])
        /\ link' = link
  <2>1. CASE AppendEntryRefused(i, j)
    BY <2>1 DEF AppendEntryRefused
  <2>2. CASE AppendEntryMismatch(i, j)
    BY <2>2 DEF AppendEntryMismatch, ReplyAppendEntry
  <2>3. CASE AppendEntryFails(i, j)
    BY <2>3 DEF AppendEntryFails, ReplyAppendEntry
  <2>4. CASE AppendEntryAccepted(i, j)
    BY <2>4 DEF AppendEntryAccepted, ReplyAppendEntry
  <2>5. QED
    BY <2>1, <2>2, <2>3, <2>4
<1>4. term \in Nat
  <2>1. LogInv'
    BY <1>1, AppendEntryRefusedInv, AppendEntryMismatchInv, AppendEntryFailsInv,
       AppendEntryAcceptedInv
  <2>2. currentTerm \in [Node -> Nat] /\ currentTerm' \in [Node -> Nat]
    BY <2>1 DEF LogInv, TypeOK
  <2>3. currentTerm[i] \in Nat /\ currentTerm'[i] \in Nat
    BY <2>2
  <2>4. QED
    BY <1>3, <2>3
<1> DEFINE m == [type |-> "replyappendentry", term |-> term, success |-> success]
<1>5. m \in SoundMessage /\ OfProtocol(m)
  BY <1>3, <1>4, ReplyMessages, ProtocolTypes
<1> HIDE DEF m
<1>6. QED
  BY <1>2, <1>3, <1>5, AnswerLinks DEF m

LEMMA HandleRequestVoteLinks ==
  ASSUME LogInv, LinkInv, NEW i \in Node, NEW j \in Sibling(i), HandleRequestVote(i, j)
  PROVE  LinkInv'
<1>1. j \in Node
  BY DEF Sibling
<1>2. chan[j][i] # << >> /\ OfProtocol(Received(i, j))
  BY ReceivesProtocol DEF HandleRequestVote
<1>3. PICK term, success :
        /\ term = currentTerm'[i] /\ success = Grants(i, Received(i, j))
        /\ chan' = Answer(chan, i, j, [type |-> "replyrequestvote", term |-> term,
                                       success |-> success])
        /\ link' = link
  BY DEF HandleRequestVote, LogInv, TypeOK
<1>4. term \in Nat /\ success \in BOOLEAN
  <2>1. LogInv'
    BY <1>1, HandleRequestVoteInv
  <2>2. QED
    BY <1>3, <2>1 DEF LogInv, TypeOK, Grants
<1> DEFINE m == [type |-> "replyrequestvote", term |-> term, success |-> success]
<1>5. m \in SoundMessage /\ OfProtocol(m)
  BY <1>3, <1>4, ReplyMessages, ProtocolTypes
<1> HIDE DEF m
<1>6. QED
  BY <1>2, <1>3, <1>5, AnswerLinks DEF m

LEMMA ReplyLinks ==
  ASSUME LogInv, LinkInv, NEW i \in Node, NEW j \in Sibling(i),
         \/ ReplyAppendEntryIgnored(i, j) \/ ReplyAppendEntryHigherTerm(i, j)
         \/ ReplyAppendEntryFalse(i, j) \/ ReplyAppendEntryEmpty(i, j)
         \/ ReplyAppendEntryTrue(i, j)
         \/ ReplyRequestVoteNoVote(i, j) \/ ReplyRequestVoteCounts(i, j)
  PROVE  LinkInv'
<1>1. chan[j][i] # << >> /\ OfProtocol(Received(i, j))
  BY ReceivesProtocol
     DEF ReplyAppendEntryIgnored, ReplyAppendEntryHigherTerm,
         ReplyAppendEntryFalse, ReplyAppendEntryEmpty, ReplyAppendEntryTrue,
         ReplyRequestVoteNoVote, ReplyRequestVoteCounts
<1>2. link' = link /\ chan' = Consume(chan, i, j)
  BY DEF ReplyAppendEntryIgnored, ReplyAppendEntryHigherTerm,
         ReplyAppendEntryFalse, ReplyAppendEntryEmpty, ReplyAppendEntryTrue,
         ReplyRequestVoteNoVote, ReplyRequestVoteCounts
<1>3. QED
  BY <1>1, <1>2, ConsumeLinks

LEMMA HandleClusterNodeLinks ==
  ASSUME LogInv, LinkInv, NEW i \in Node, NEW j \in Sibling(i), HandleClusterNode(i, j)
  PROVE  LinkInv'
<1> DEFINE ch == Consume(chan, i, j)
<1>1. /\ chan \in Channels(SoundMessage) /\ link \in Table({"none", "trying", "up"})
      /\ Links(link, chan)
  BY LinkTypes, LinkInvIsLinks
<1>2. /\ chan[j][i] # << >> /\ IsClusterNode(Head(chan[j][i]))
      /\ link' = Set(link, i, {j}, "up")
      /\ chan' = [ch EXCEPT ![i][j] = Post(ch, i, j, ReplyClusterNode)]
  BY DEF HandleClusterNode, Receives, Received, IsClusterNode, AddSiblings, Answer
<1>3. Links(link', ch) /\ ch \in Channels(SoundMessage) /\ link'[i][j] = "up"
  <2> DEFINE V == {"none", "trying", "up"}
             k == "up"
  <2>1. link \in Table(V) /\ link' = Set(link, i, {j}, k) /\ k = "up"
    BY <1>1, <1>2
  <2> HIDE DEF V, k
  <2>2. Links(link', ch) /\ ch \in Channels(SoundMessage) /\ link'[i][j] = k
    BY <1>1, <1>2, <2>1, ReadLinks
  <2>3. QED
    BY <2>1, <2>2
<1>4. OfProtocol(ReplyClusterNode)
  BY ProtocolTypes DEF ReplyClusterNode
<1> HIDE DEF ch
<1>5. Links(link', [ch EXCEPT ![i][j] = Post(ch, i, j, ReplyClusterNode)])
  BY <1>3, <1>4, PlainMessages, PostLinks
<1>6. QED
  BY <1>2, <1>5, LinkInvIsLinks

LEMMA HandleReplyClusterNodeLinks ==
  ASSUME LogInv, LinkInv, NEW i \in Node, NEW j \in Sibling(i),
         HandleReplyClusterNode(i, j)
  PROVE  LinkInv'
<1>1. /\ chan \in Channels(SoundMessage) /\ link \in Table({"none", "trying", "up"})
      /\ Links(link, chan)
  BY LinkTypes, LinkInvIsLinks
<1>2. /\ chan[j][i] # << >> /\ OfProtocol(Head(chan[j][i]))
      /\ Head(chan[j][i]).type = "replyclusternode"
      /\ link' = Set(link, i, {j}, "up")
      /\ chan' = Consume(chan, i, j)
  BY ReceivesProtocol DEF HandleReplyClusterNode, Receives, Received
<1>3. Links(link', Consume(chan, i, j))
  BY <1>1, <1>2, ReadLinks
<1>4. QED
  BY <1>2, <1>3, LinkInvIsLinks

LEMMA HandleEofLinks ==
  ASSUME LogInv, LinkInv, NEW i \in Node, NEW j \in Sibling(i), HandleEof(i, j)
  PROVE  LinkInv'
<1>1. /\ chan \in Channels(SoundMessage) /\ link \in Table({"none", "trying", "up"})
      /\ Links(link, chan)
  BY LinkTypes, LinkInvIsLinks
<1>2. /\ chan[j][i] # << >> /\ IsEof(Head(chan[j][i]))
      /\ link' = Set(link, i, {j}, "none") \/ ("none" = link[i][j] /\ link' = link)
      /\ chan' = Consume(chan, i, j)
  BY DEF HandleEof, Receives, Received, IsEof
<1>3. Links(link', Consume(chan, i, j))
  <2> DEFINE V == {"none", "trying", "up"}
             k == "none"
  <2>1. /\ link \in Table(V) /\ k = "none"
        /\ link' = Set(link, i, {j}, k) \/ (k = link[i][j] /\ link' = link)
    BY <1>1, <1>2
  <2> HIDE DEF V, k
  <2>2. /\ IsEof(Head(chan[j][i])) /\ chan[j][i] # << >> /\ Links(link, chan)
        /\ chan \in Channels(SoundMessage)
    BY <1>1, <1>2
  <2>3. CASE link' = Set(link, i, {j}, k)
    <3> DEFINE lk2 == Set(link, i, {j}, k)
    <3> HIDE DEF lk2
    <3>1. lk2 = Set(link, i, {j}, k)
      BY DEF lk2
    <3>2. Links(lk2, Consume(chan, i, j))
      BY ONLY <2>1, <2>2, <3>1, i \in Node, j \in Sibling(i), ReadLinks, ZenonT(30)
    <3>3. QED
      BY <2>3, <3>1, <3>2
  <2>4. CASE k = link[i][j] /\ link' = link
    <3>1. Links(link, Consume(chan, i, j))
      BY ONLY <2>1, <2>2, <2>4, i \in Node, j \in Sibling(i), ReadLinks, ZenonT(30)
    <3>2. QED
      BY <2>4, <3>1
  <2>5. QED
    BY <2>1, <2>3, <2>4
<1>4. QED
  BY <1>2, <1>3, LinkInvIsLinks

LEMMA ExecuteLinkInv ==
  ASSUME LogInv, LinkInv, NEW i \in Node, NEW j \in Sibling(i), Execute(i, j)
  PROVE  LinkInv'
<1>1. ASSUME NEW received, AppendEntryExits(i, j, received) PROVE LinkInv'
  BY <1>1, StopLinks DEF AppendEntryExits
<1>2. QED
  BY <1>1, AppendEntryLinks, ReplyLinks, HandleRequestVoteLinks,
     HandleClusterNodeLinks, HandleReplyClusterNodeLinks, HandleEofLinks DEF Execute

LEMMA ResetLinks ==
  ASSUME LogInv, LinkInv, NEW i \in Node, NEW j \in Sibling(i), Reset(i, j)
  PROVE  LinkInv'
<1>1. /\ i < j /\ link[j][i] # "none" /\ j \in Node
      /\ link' = link /\ chan' = Break(chan, i, j)
  BY DEF Reset, Sibling
<1>2. Links(link, Break(chan, i, j))
  BY <1>1, LinkTypes, LinkInvIsLinks, BreakLinks
<1>3. QED
  BY <1>1, <1>2, LinkInvIsLinks

LEMMA FaultLinkInv ==
  ASSUME LogInv, LinkInv, NEW i \in Node, Fault(i)
  PROVE  LinkInv'
<1>1. CASE Restart(i) \/ ChildLost(i) \/ DiskFault(i)
  BY <1>1, UnchangedLinks DEF Restart, ChildLost, DiskFault
<1>2. ASSUME NEW received, NEW j, Crash(i, received) \/ CrashInDelete(i, j, received)
      PROVE  LinkInv'
  BY <1>2, StopLinks DEF Crash, CrashInDelete
<1>3. QED
  BY <1>1, <1>2, ResetLinks DEF Fault

LEMMA InitLinkInv ==
  ASSUME Init \/ ConnectedInit
  PROVE  LinkInv
<1>1. chan = [i \in Node |-> [j \in Node |-> << >>]]
  BY DEF Init, ConnectedInit, InitNodes
<1>2. \A i \in Node : link[i][i] = "none"
  BY DEF Init, ConnectedInit
<1>3. \A k : AcceptorInv(k, << >>)
  BY DEF AcceptorInv
<1>4. ~Pending(<< >>) /\ ~Ended(<< >>) /\ << >> \in Seq({})
  BY DEF Pending, Ended
<1>5. \A k : DiallerInv(k, << >>)
  BY DEF DiallerInv
<1>6. \A i, j \in Node : i # j => (link[i][j] = "none" <=> link[j][i] = "none")
  BY DEF Init, ConnectedInit
<1>7. \A k : Open(k, << >>) <=> k # "none"
  BY <1>4, OpenPending
<1>8. ASSUME NEW d \in Node, NEW a \in Node, a < d
      PROVE  PairInv(link[d][a], link[a][d], chan[a][d], chan[d][a])
  <2>1. a # d
    BY <1>8, IdAssumption DEF Node
  <2>2. chan[a][d] = << >> /\ chan[d][a] = << >>
    BY <1>1
  <2>3. QED
    BY <1>3, <1>4, <1>5, <1>6, <1>7, <2>1, <2>2 DEF PairInv
<1>9. QED
  BY <1>2, <1>8 DEF LinkInv

LEMMA NextLinkInv ==
  ASSUME LogInv, LinkInv, [Next]_vars
  PROVE  LinkInv'
<1>1. ASSUME NEW i \in Node, Client(i) PROVE LinkInv'
  BY <1>1, UnchangedLinks DEF Client, ClientRequest, ClientRequestFails
<1>2. CASE UNCHANGED vars
  BY <1>2, UnchangedLinks DEF vars
<1>3. QED
  BY <1>1, <1>2, CronLinkInv, FaultLinkInv, ExecuteLinkInv DEF Next

(* Whatever is lost, broken or started again, both ends of a pair agree on
   their connection once they have read everything: addSiblings() never
   registers a sibling twice, and no node executes a message of a sibling it
   has not registered. *)
THEOREM LinksAgree == Spec \/ ConnectedSpec => []LinkInv
<1>1. Init \/ ConnectedInit => LinkInv
  BY InitLinkInv
<1>2. LogInv /\ LinkInv /\ [Next]_vars => LinkInv'
  BY NextLinkInv
<1>3. QED
  BY <1>1, <1>2, LogInvariant, PTL DEF Spec, ConnectedSpec

-----------------------------------------------------------------------------
(* What follows for the leader a node knows and for nextIndex. *)

Linked == LeaderIdConnected /\ NextIndexPositive

LEMMA LinkedTypes ==
  ASSUME LogInv
  PROVE  /\ leaderId \in [Node -> Node \cup {None}] /\ None \notin Node
         /\ link \in Table({"none", "trying", "up"})
         /\ nextIndex \in Table(Nat)
         /\ commitIndex \in [Node -> Nat]
<1>1. None \notin Node
  BY IdAssumption DEF None, Node
<1>2. QED
  BY <1>1 DEF LogInv, TypeOK, Table

LEMMA SenderRegistered ==
  ASSUME LogInv, LinkInv, NEW i \in Node, NEW j \in Sibling(i),
         chan[j][i] # << >>, OfProtocol(Received(i, j))
  PROVE  link[i][j] # "none"
<1>1. j \in Node /\ i # j
  BY DEF Sibling
<1>2. /\ Side(j < i, link[i][j], link[j][i], chan[j][i], chan[i][j])
      /\ chan[j][i] \in Seq(SoundMessage) /\ (j < i) \in BOOLEAN
  BY <1>1, LinkTypes, LinkInvIsLinks, LinksSide
<1>3. QED
  BY <1>2, ReadOfRegistered DEF Received

(* No connection is forgotten. *)
LEMMA LinksKept ==
  ASSUME LogInv, Linked,
         leaderId' = leaderId \/ \E i \in Node : leaderId' = [leaderId EXCEPT ![i] = None],
         \A a, b \in Node : link[a][b] # "none" => link'[a][b] # "none",
         \A a, b \in Node : link'[a][b] # "none" =>
           nextIndex'[a][b] >= 1 \/ (link[a][b] # "none" /\ nextIndex'[a][b] = nextIndex[a][b])
  PROVE  Linked'
<1>1. LeaderIdConnected'
  <2>1. \A a \in Node : leaderId'[a] # None => leaderId'[a] = leaderId[a]
    BY LinkedTypes
  <2>2. \A a \in Node : leaderId[a] \in Node \cup {None}
    BY LinkedTypes
  <2>3. QED
    BY <2>1, <2>2 DEF Linked, LeaderIdConnected
<1>2. NextIndexPositive'
  BY DEF Linked, NextIndexPositive
<1>3. QED
  BY <1>1, <1>2 DEF Linked

LEMMA AddSiblingsLinked ==
  ASSUME LogInv, Linked, NEW i \in Node, NEW S, NEW status \in {"trying", "up"},
         AddSiblings(i, S, status),
         leaderId' = leaderId \/ leaderId' = [leaderId EXCEPT ![i] = None]
  PROVE  Linked'
<1>1. /\ link' = Set(link, i, S, status)
      /\ nextIndex' = Set(nextIndex, i, S, commitIndex[i] + 1)
  BY DEF AddSiblings
<1>2. commitIndex[i] + 1 \in Nat /\ commitIndex[i] + 1 >= 1
  <2>1. commitIndex[i] \in Nat
    BY LinkedTypes
  <2>2. QED
    BY <2>1
<1>3. ASSUME NEW a \in Node, NEW b \in Node
      PROVE  /\ link[a][b] # "none" => link'[a][b] # "none"
             /\ link'[a][b] # "none" =>
                  \/ nextIndex'[a][b] >= 1
                  \/ link[a][b] # "none" /\ nextIndex'[a][b] = nextIndex[a][b]
  <2>1. /\ a # i \/ b \notin S => /\ link'[a][b] = link[a][b]
                                  /\ nextIndex'[a][b] = nextIndex[a][b]
        /\ a = i /\ b \in S => /\ link'[a][b] = status
                               /\ nextIndex'[a][b] = commitIndex[i] + 1
    BY <1>1, LinkedTypes, SetCells
  <2>2. QED
    BY <1>2, <2>1
<1>4. QED
  BY <1>3, LinksKept

LEMMA SameLinked ==
  ASSUME LogInv, Linked, link' = link, nextIndex' = nextIndex, leaderId' = leaderId
  PROVE  Linked'
<1>1. \A a, b \in Node : link[a][b] # "none" => nextIndex'[a][b] = nextIndex[a][b]
  OBVIOUS
<1>2. QED
  BY <1>1, LinksKept

LEMMA StopLinked ==
  ASSUME LogInv, Linked, NEW i \in Node, NEW reason, NEW received,
         Stop(i, reason, received)
  PROVE  Linked'
<1>1. /\ leaderId' = [leaderId EXCEPT ![i] = None]
      /\ link' = Set(link, i, Node, "none")
      /\ nextIndex' = Set(nextIndex, i, Node, 0)
  BY DEF Stop
<1>2. ASSUME NEW a \in Node, NEW b \in Node
      PROVE  /\ a = i => link'[a][b] = "none"
             /\ a # i => link'[a][b] = link[a][b] /\ nextIndex'[a][b] = nextIndex[a][b]
  BY <1>1, LinkedTypes, SetCells
<1>3. \A a \in Node : /\ a = i => leaderId'[a] = None
                      /\ a # i => leaderId'[a] = leaderId[a]
                      /\ leaderId[a] \in Node \cup {None}
  BY <1>1, LinkedTypes
<1>4. QED
  BY <1>2, <1>3 DEF Linked, LeaderIdConnected, NextIndexPositive

LEMMA ToLeadLinked ==
  ASSUME LogInv, Linked, NEW i \in Node, ToLead(i), link' = link, leaderId' = leaderId
  PROVE  Linked'
<1> DEFINE last == FindLastEntry(log[i]).index
<1>1. last \in Nat
  BY LogFiles, FindLastEntryDense DEF Entry
<1>2. nextIndex' = Set(nextIndex, i, Sibling(i), last + 1)
  BY DEF ToLead
<1> HIDE DEF last
<1>3. ASSUME NEW a \in Node, NEW b \in Node
      PROVE  nextIndex'[a][b] >= 1 \/ nextIndex'[a][b] = nextIndex[a][b]
  BY <1>1, <1>2, LinkedTypes, SetCells
<1>4. QED
  BY <1>3, LinksKept

LEMMA CronLinked ==
  ASSUME LogInv, Linked, NEW i \in Node, Cron(i)
  PROVE  Linked'
<1>1. ASSUME NEW reachable \in BOOLEAN, CronReconnect(i, reachable) PROVE Linked'
  <2> DEFINE dialled == IF SiblingsBaseline(i) THEN {} ELSE LostSiblings(i)
  <2>1. AddSiblings(i, dialled, "trying")
    BY <1>1 DEF CronReconnect
  <2>2. leaderId' = leaderId \/ leaderId' = [leaderId EXCEPT ![i] = None]
    BY <1>1 DEF CronReconnect
  <2> HIDE DEF dialled
  <2>3. QED
    BY <2>1, <2>2, AddSiblingsLinked
<1>2. CASE CronIdle(i) \/ CronTimeout(i)
  BY <1>2, AddSiblingsLinked DEF CronIdle, CronTimeout
<1>3. CASE CronWin(i)
  BY <1>3, ToLeadLinked DEF CronWin
<1>4. CASE CronLead(i) \/ CronLeadStepsDown(i)
  BY <1>4, AddSiblingsLinked DEF CronLead, CronLeadStepsDown, SendAppendEntries
<1>5. ASSUME NEW received, CronFlushExits(i, received) \/ CronLeadExits(i, received)
      PROVE  Linked'
  BY <1>5, StopLinked DEF CronFlushExits, CronLeadExits
<1>6. QED
  BY <1>1, <1>2, <1>3, <1>4, <1>5 DEF Cron

(* A leader is followed over the connection its append entry came by. *)
LEMMA FollowLinked ==
  ASSUME LogInv, LinkInv, Linked, NEW i \in Node, NEW j \in Sibling(i),
         \/ AppendEntryMismatch(i, j) \/ AppendEntryFails(i, j)
         \/ AppendEntryAccepted(i, j)
  PROVE  Linked'
<1>1. chan[j][i] # << >> /\ OfProtocol(Received(i, j))
  BY ReceivesProtocol DEF AppendEntryMismatch, AppendEntryFails, AppendEntryAccepted
<1>2. link[i][j] # "none"
  BY <1>1, SenderRegistered
<1>3. /\ leaderId' = [leaderId EXCEPT ![i] = j]
      /\ link' = link /\ nextIndex' = nextIndex
  BY DEF AppendEntryMismatch, AppendEntryFails, AppendEntryAccepted, Follow, peerVars
<1>4. LeaderIdConnected'
  BY <1>2, <1>3, LinkedTypes DEF Linked, LeaderIdConnected
<1>5. QED
  BY <1>3, <1>4 DEF Linked, NextIndexPositive

(* An answer never takes nextIndex below 1. *)
LEMMA ReplyAppendEntryLinked ==
  ASSUME LogInv, Linked, NEW i \in Node, NEW j \in Sibling(i),
         ReplyAppendEntryFalse(i, j) \/ ReplyAppendEntryTrue(i, j)
  PROVE  Linked'
<1>1. j \in Node
  BY DEF Sibling
<1> DEFINE n == nextIndex[i][j]
<1>2. PICK k : /\ nextIndex' = [nextIndex EXCEPT ![i][j] = k]
               /\ k = n + 1 \/ k = Decreased(n)
               /\ link' = link /\ leaderId' = leaderId
  BY DEF ReplyAppendEntryFalse, ReplyAppendEntryTrue
<1>3. n \in Nat /\ (n >= 1 => k >= 1)
  <2>1. n \in Nat
    BY <1>1, LinkedTypes DEF Table
  <2> HIDE DEF n
  <2>2. QED
    BY <1>2, <2>1 DEF Decreased
<1>4. ASSUME NEW a \in Node, NEW b \in Node, link[a][b] # "none"
      PROVE  nextIndex'[a][b] >= 1
  <2>1. nextIndex[a][b] >= 1
    BY <1>4 DEF Linked, NextIndexPositive
  <2>2. CASE a = i /\ b = j
    <3>1. nextIndex'[a][b] = k
      BY <1>1, <1>2, <2>2, LinkedTypes DEF Table
    <3>2. QED
      BY <1>3, <2>1, <2>2, <3>1
  <2>3. CASE ~(a = i /\ b = j)
    <3>1. nextIndex'[a][b] = nextIndex[a][b]
      BY <1>1, <1>2, <2>3, LinkedTypes DEF Table
    <3>2. QED
      BY <2>1, <3>1
  <2>4. QED
    BY <2>2, <2>3
<1>5. QED
  BY <1>2, <1>4, LinksKept

LEMMA HandleReplyClusterNodeLinked ==
  ASSUME LogInv, LinkInv, Linked, NEW i \in Node, NEW j \in Sibling(i),
         HandleReplyClusterNode(i, j)
  PROVE  Linked'
<1>1. chan[j][i] # << >> /\ OfProtocol(Received(i, j))
  BY ReceivesProtocol DEF HandleReplyClusterNode
<1>2. link[i][j] # "none"
  BY <1>1, SenderRegistered
<1>3. /\ link' = Set(link, i, {j}, "up")
      /\ nextIndex' = nextIndex /\ leaderId' = leaderId
  BY DEF HandleReplyClusterNode, peerVars
<1>4. ASSUME NEW a \in Node, NEW b \in Node
      PROVE  link[a][b] # "none" <=> link'[a][b] # "none"
  BY <1>2, <1>3, LinkedTypes, SetCells
<1>5. QED
  BY <1>3, <1>4, LinksKept

(* A leader that is gone is forgotten with its connection. *)
LEMMA HandleEofLinked ==
  ASSUME LogInv, Linked, NEW i \in Node, NEW j \in Sibling(i), HandleEof(i, j)
  PROVE  Linked'
<1>1. CASE link[i][j] = "none"
  BY <1>1, SameLinked DEF HandleEof
<1>2. CASE link[i][j] # "none"
  <2>1. /\ link' = Set(link, i, {j}, "none")
        /\ nextIndex' = Set(nextIndex, i, {j}, 0)
        /\ leaderId' = [leaderId EXCEPT ![i] = LeaderIdWithout(i, j)]
    BY <1>2 DEF HandleEof
  <2>2. ASSUME NEW a \in Node, NEW b \in Node
        PROVE  /\ ~(a = i /\ b = j) => /\ link'[a][b] = link[a][b]
                                       /\ nextIndex'[a][b] = nextIndex[a][b]
               /\ a = i /\ b = j => link'[a][b] = "none"
    BY <2>1, LinkedTypes, SetCells
  <2>3. ASSUME NEW a \in Node, leaderId'[a] # None
        PROVE  /\ leaderId'[a] = leaderId[a] /\ leaderId[a] \in Node
               /\ ~(a = i /\ leaderId[a] = j)
    BY <2>1, <2>3, LinkedTypes DEF LeaderIdWithout
  <2>4. LeaderIdConnected'
    BY <2>2, <2>3 DEF Linked, LeaderIdConnected
  <2>5. NextIndexPositive'
    BY <2>2 DEF Linked, NextIndexPositive
  <2>6. QED
    BY <2>4, <2>5 DEF Linked
<1>3. QED
  BY <1>1, <1>2

LEMMA ExecuteLinked ==
  ASSUME LogInv, LinkInv, Linked, NEW i \in Node, NEW j \in Sibling(i), Execute(i, j)
  PROVE  Linked'
<1>1. CASE \/ AppendEntryRefused(i, j)
           \/ ReplyAppendEntryIgnored(i, j) \/ ReplyAppendEntryHigherTerm(i, j)
           \/ ReplyAppendEntryEmpty(i, j)
           \/ HandleRequestVote(i, j) \/ ReplyRequestVoteNoVote(i, j)
  BY <1>1, SameLinked
     DEF AppendEntryRefused, ReplyAppendEntryIgnored, ReplyAppendEntryHigherTerm,
         ReplyAppendEntryEmpty, HandleRequestVote, ReplyRequestVoteNoVote, peerVars
<1>2. CASE ReplyRequestVoteCounts(i, j)
  <2>1. link' = link /\ leaderId' = leaderId /\ (ToLead(i) \/ nextIndex' = nextIndex)
    BY <1>2 DEF ReplyRequestVoteCounts
  <2>2. QED
    BY <2>1, SameLinked, ToLeadLinked
<1>3. CASE HandleClusterNode(i, j)
  BY <1>3, AddSiblingsLinked DEF HandleClusterNode
<1>4. ASSUME NEW received, AppendEntryExits(i, j, received) PROVE Linked'
  BY <1>4, StopLinked DEF AppendEntryExits
<1>5. QED
  BY <1>1, <1>2, <1>3, <1>4, FollowLinked, ReplyAppendEntryLinked,
     HandleReplyClusterNodeLinked, HandleEofLinked DEF Execute

LEMMA FaultLinked ==
  ASSUME LogInv, Linked, NEW i \in Node, Fault(i)
  PROVE  Linked'
<1>1. CASE \/ Restart(i) \/ ChildLost(i) \/ DiskFault(i)
           \/ \E j \in Sibling(i) : Reset(i, j)
  BY <1>1, SameLinked DEF Restart, ChildLost, DiskFault, Reset, peerVars
<1>2. ASSUME NEW received, NEW j, Crash(i, received) \/ CrashInDelete(i, j, received)
      PROVE  Linked'
  BY <1>2, StopLinked DEF Crash, CrashInDelete
<1>3. QED
  BY <1>1, <1>2 DEF Fault

LEMMA NextLinked ==
  ASSUME LogInv, LinkInv, Linked, [Next]_vars
  PROVE  Linked'
<1>1. ASSUME NEW i \in Node, Client(i) PROVE Linked'
  BY <1>1, SameLinked DEF Client, ClientRequest, ClientRequestFails, peerVars
<1>2. CASE UNCHANGED vars
  BY <1>2, SameLinked DEF vars, peerVars
<1>3. QED
  BY <1>1, <1>2, CronLinked, FaultLinked, ExecuteLinked DEF Next

LEMMA InitLinked ==
  ASSUME Init \/ ConnectedInit
  PROVE  Linked
<1>1. LeaderIdConnected
  BY DEF Init, ConnectedInit, InitNodes, LeaderIdConnected
<1>2. NextIndexPositive
  BY DEF Init, ConnectedInit, NextIndexPositive
<1>3. QED
  BY <1>1, <1>2 DEF Linked

LEMMA LinkedInvariant == Spec \/ ConnectedSpec => []Linked
<1>1. Init \/ ConnectedInit => Linked
  BY InitLinked
<1>2. LogInv /\ LinkInv /\ Linked /\ [Next]_vars => Linked'
  BY NextLinked
<1>3. QED
  BY <1>1, <1>2, LogInvariant, LinksAgree, PTL DEF Spec, ConnectedSpec

(* The leader a node sends its clients to is a sibling it is connected with,
   even when the leader has just gone or the node has just met it. *)
THEOREM KnownLeaderConnected == Spec \/ ConnectedSpec => []LeaderIdConnected
<1>1. Linked => LeaderIdConnected
  BY DEF Linked
<1>2. QED
  BY <1>1, LinkedInvariant, PTL

(* operator>> never finds "invalid sibling": the next index of a registered
   sibling is at least 1, however many append entries are refused. *)
THEOREM NextIndicesPositive == Spec \/ ConnectedSpec => []NextIndexPositive
<1>1. Linked => NextIndexPositive
  BY DEF Linked
<1>2. QED
  BY <1>1, LinkedInvariant, PTL
==============================================================================
