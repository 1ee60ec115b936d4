------------------------- MODULE HandshakeProperties -------------------------
(***************************************************************************)
(* What must hold of the connections between two nodes.                    *)
(***************************************************************************)
EXTENDS Handshake

(* Type correctness of both nodes' Siblings.  The dialler is connected or
   trying exactly when it has a client registered: after a failure neither
   flag is left behind (Siblings.cpp:125). *)
HandshakeTypeOK ==
  /\ up \in [End -> BOOLEAN]
  /\ dialled \in Connection \cup {None}
  /\ link \in {"none", "trying", "up"} /\ (link = "none" <=> dialled = None)
  /\ category \in [Connection -> {"none", "parent", "sibling"}]
  /\ registered \in Connection \cup {None}
  /\ toAcceptor \in Seq(Message) /\ toDialler \in Seq(Message)
  /\ late \subseteq Connection
  /\ spent \in [{"crash", "reset", "late"} -> Nat]

(* Siblings.cpp:125: the client that is registered for a sibling has not been
   deleted, however the connections of the pair overtake each other; append
   entries are written to it. *)
RegisteredAlive == registered # None => category[registered] = "sibling"

(* Siblings.cpp:89: as long as no end is late, a connection is not refused
   because of the one before it: the acceptor has no second connection to the
   same sibling, whose deletion would drop the registered one. *)
OneSibling ==
  spent.late = 0 =>
    \A c \in Connection : category[c] = "sibling" => c = registered

(* q reads the end of c after position m and before position n. *)
EndBetween(q, c, m, n) == \E k \in m + 1 .. n - 1 : q[k] = Sent("eof", c)

(* What is sent to the acceptor, which has put its connections into those
   categories: a connection begins with its clusternode and ends with its end,
   and when the acceptor comes to a clusternode it has read the end of every
   connection before. *)
InOrder(q, categories) ==
  \A n \in DOMAIN q :
    /\ q[n].type \in {"clusternode", "eof"}
    /\ q[n].type = "clusternode" =>
         /\ categories[q[n].on] = "parent"
         /\ \A c \in Connection :
              categories[c] = "sibling" => EndBetween(q, c, 0, n)
    /\ \A m \in 1 .. n - 1 :
         /\ q[m].on = q[n].on => q[m].type = "clusternode" /\ q[n].type = "eof"
         /\ q[m].type = "clusternode" /\ q[n].type = "clusternode" =>
              EndBetween(q, q[m].on, m, n)

(* The inductive invariant behind OneSibling: as long as no end is late, the
   acceptor holds open only the connection the dialler holds open. *)
OneConnection ==
  spent.late = 0 =>
    /\ late = {}
    /\ \A c \in Connection : OpenAtAcceptor(c) => OpenAtDialler(c)
    /\ InOrder(toAcceptor, category)

BothUp == \A e \in End : up[e]

(* Siblings.cpp:179, Cluster.cpp:171: once both processes stay up and as long as
   no end was late, each of the two nodes has the other one connected again. *)
LinksRestored ==
  <>[]BothUp /\ [](spent.late = 0) =>
    <>[](link = "up" /\ registered = dialled)

(* Siblings.cpp:189: late ends or not, the dialler in the end has a connection
   on which the acceptor executes what it sends. *)
Redialled ==
  <>[]BothUp => <>[](link = "up" /\ category[dialled] = "sibling")
==============================================================================
