------------------------------ MODULE Handshake ------------------------------
(***************************************************************************)
(* The connections between two nodes of the cluster, each with its own     *)
(* identity: how Siblings, ClusterNodeCommand and Cluster::deleteClient()  *)
(* keep apart the connection a node has registered, one that has ended     *)
(* without its knowing, and one that is being established.  The node with  *)
(* the larger id is the dialler, the other one the acceptor.               *)
(*                                                                         *)
(* Module Cluster has one channel for a pair, on which the end of a        *)
(* connection precedes the first message of the next one.  Here an end may *)
(* also be late.                                                           *)
(***************************************************************************)
EXTENDS Naturals, Sequences, SequencesExt

CONSTANTS
  Connection,   \* connections that may exist at a time
  None,         \* no connection
  MaxCrash,     \* processes killed
  MaxReset,     \* connections broken by the network
  MaxLate       \* ends of which the acceptor learns late

ASSUME HandshakeAssumption ==
  /\ None \notin Connection
  /\ {MaxCrash, MaxReset, MaxLate} \subseteq Nat

VARIABLES
  up,           \* up[e]: the process of e runs
  dialled,      \* dialler: clusterIdClientPtrMap of the acceptor
  link,         \* dialler: connectTrying and connectStatus, "none" if neither
  category,     \* acceptor: the category of the Client of each connection
  registered,   \* acceptor: clusterIdClientPtrMap of the dialler, None while
                \* connectStatus is false
  toAcceptor, toDialler,   \* what is sent and not executed, of all connections
  late,         \* connections whose end has not reached the acceptor
  spent

diallerVars == <<dialled, link>>
acceptorVars == <<category, registered>>
vars == <<up, diallerVars, acceptorVars, toAcceptor, toDialler, late, spent>>

End == {"dialler", "acceptor"}

Message == [type: {"clusternode", "replyclusternode", "eof"}, on: Connection]
Sent(type, c) == [type |-> type, on |-> c]

(* A connection that is in no use at either end. *)
Unused(c) ==
  /\ category[c] = "none" /\ c # dialled /\ c \notin late
  /\ \A m \in ToSet(toAcceptor) \cup ToSet(toDialler) : m.on # c

Init ==
  /\ up = [e \in End |-> TRUE]
  /\ dialled = None /\ link = "none"
  /\ category = [c \in Connection |-> "none"]
  /\ registered = None
  /\ toAcceptor = << >> /\ toDialler = << >>
  /\ late = {}
  /\ spent = [crash |-> 0, reset |-> 0, late |-> 0]

------------------------------------------------------------------------------
(* The dialler. *)

(* Mutant: a node that is trying dials again. *)
MayDialAgain == link # "up"

MayDial == link = "none" /\ dialled = None

(* connectLostSiblings(): the connection is registered and a clusternode sent.
   If the acceptor is not there, the first read finds out. *)
Dial ==
  /\ up["dialler"] /\ MayDial
  /\ \E c \in Connection :
       /\ Unused(c)
       /\ dialled' = c /\ link' = "trying"
       /\ IF up["acceptor"]
          THEN /\ category' = [category EXCEPT ![c] = "parent"]
               /\ toAcceptor' = Append(toAcceptor, Sent("clusternode", c))
               /\ UNCHANGED toDialler
          ELSE /\ toDialler' = Append(toDialler, Sent("eof", c))
               /\ UNCHANGED <<category, toAcceptor>>
  /\ UNCHANGED <<up, registered, late, spent>>

(* The dialler reads a message of that type on c. *)
ToDialler(type, c) ==
  /\ up["dialler"] /\ toDialler # << >>
  /\ Head(toDialler) = Sent(type, c)
  /\ toDialler' = Tail(toDialler)
  /\ UNCHANGED <<up, acceptorVars, toAcceptor, late, spent>>

(* ReplyClusterNodeCommand: confirmConnectSibling(). *)
HandleReplyClusterNode(c) ==
  /\ ToDialler("replyclusternode", c)
  /\ IF c = dialled
     THEN link' = "up" /\ UNCHANGED dialled
     ELSE UNCHANGED diallerVars

(* Mutant: connectTrying is left as it is. *)
StillTrying == link

LinkAfterEnd == "none"

(* deleteSiblings() at the dialler. *)
DiallerReadsEnd(c) ==
  /\ ToDialler("eof", c)
  /\ IF c = dialled
     THEN dialled' = None /\ link' = LinkAfterEnd
     ELSE UNCHANGED diallerVars

------------------------------------------------------------------------------
(* The acceptor. *)

(* addSiblings() accepts. *)
Accepted == registered = None

(* Mutant: the map is not changed. *)
StillRegistered(kind) == registered

(* deleteClient() of a client of that category.  deleteSiblings() drops the
   sibling with the id of the client, whichever connection is registered. *)
WithoutSibling(kind) == IF kind = "sibling" THEN None ELSE registered

ToAcceptor(type, c) ==
  /\ up["acceptor"] /\ toAcceptor # << >>
  /\ Head(toAcceptor) = Sent(type, c)
  /\ UNCHANGED <<up, diallerVars, late, spent>>

(* ClusterNodeCommand: the client leaves Parents and becomes a sibling. *)
HandleClusterNode(c) ==
  /\ ToAcceptor("clusternode", c) /\ Accepted
  /\ registered' = c
  /\ category' = [category EXCEPT ![c] = "sibling"]
  /\ toDialler' = Append(toDialler, Sent("replyclusternode", c))
  /\ toAcceptor' = Tail(toAcceptor)

(* addSiblings() refuses: the client, a sibling by its category, is deleted. *)
HandleClusterNodeRefused(c) ==
  /\ ToAcceptor("clusternode", c) /\ ~Accepted
  /\ registered' = WithoutSibling("sibling")
  /\ category' = [category EXCEPT ![c] = "none"]
  /\ toDialler' = Append(toDialler, Sent("eof", c))
  /\ toAcceptor' = RemoveFirst(Tail(toAcceptor), Sent("eof", c))

(* deleteClient() of a connection that has ended. *)
AcceptorReadsEnd(c) ==
  /\ ToAcceptor("eof", c)
  /\ registered' = WithoutSibling(category[c])
  /\ category' = [category EXCEPT ![c] = "none"]
  /\ toAcceptor' = Tail(toAcceptor)
  /\ UNCHANGED toDialler

------------------------------------------------------------------------------
(* Ends of connections and processes. *)

(* What was sent on the dialler's connection and may be lost with it: one
   clusternode, and the one answer to it. *)
AcceptorLoses == RemoveFirst(toAcceptor, Sent("clusternode", dialled))
DiallerLoses  == RemoveFirst(toDialler, Sent("replyclusternode", dialled))

(* The acceptor has a client for c and has not been told of its end. *)
OpenAtAcceptor(c) ==
  /\ c # None /\ category[c] # "none" /\ c \notin late
  /\ Sent("eof", c) \notin ToSet(toAcceptor)

OpenAtDialler(c) ==
  c # None /\ c = dialled /\ Sent("eof", c) \notin ToSet(toDialler)

(* The dialler's end of connection c is gone; queue is what still arrives of
   what was sent to the acceptor. *)
AcceptorTold(c, queue, isLate) ==
  /\ isLate => OpenAtAcceptor(c) /\ spent.late < MaxLate
  /\ late' = IF isLate THEN late \cup {c} ELSE late
  /\ toAcceptor' = IF OpenAtAcceptor(c) /\ ~isLate
                   THEN Append(queue, Sent("eof", c)) ELSE queue

Spend(bound, isLate) ==
  spent' = [spent EXCEPT ![bound] = @ + 1, !.late = IF isLate THEN @ + 1 ELSE @]

(* The network breaks the dialler's connection: what is in flight is lost. *)
Reset ==
  /\ OpenAtDialler(dialled) /\ up["acceptor"]
  /\ spent.reset < MaxReset
  /\ \E isLate \in BOOLEAN :
       /\ AcceptorTold(dialled, AcceptorLoses, isLate)
       /\ Spend("reset", isLate)
  /\ toDialler' = Append(DiallerLoses, Sent("eof", dialled))
  /\ UNCHANGED <<up, diallerVars, acceptorVars>>

(* The end of c reaches the acceptor after all. *)
Arrive(c) ==
  /\ c \in late
  /\ late' = late \ {c}
  /\ toAcceptor' = Append(toAcceptor, Sent("eof", c))
  /\ UNCHANGED <<up, diallerVars, acceptorVars, toDialler, spent>>

(* The dialler is killed; its clusternode may have been sent or not. *)
DiallerCrash ==
  /\ up["dialler"] /\ spent.crash < MaxCrash
  /\ up' = [up EXCEPT !["dialler"] = FALSE]
  /\ dialled' = None /\ link' = "none"
  /\ toDialler' = << >>
  /\ \E queue \in {toAcceptor, AcceptorLoses}, isLate \in BOOLEAN :
       /\ AcceptorTold(dialled, queue, isLate)
       /\ Spend("crash", isLate)
  /\ UNCHANGED acceptorVars

AcceptorCrash ==
  /\ up["acceptor"] /\ spent.crash < MaxCrash
  /\ up' = [up EXCEPT !["acceptor"] = FALSE]
  /\ category' = [c \in Connection |-> "none"] /\ registered' = None
  /\ toAcceptor' = << >> /\ late' = {}
  /\ \E queue \in {toDialler, DiallerLoses} :
       toDialler' = IF OpenAtDialler(dialled)
                    THEN Append(queue, Sent("eof", dialled)) ELSE toDialler
  /\ Spend("crash", FALSE)
  /\ UNCHANGED diallerVars

Restart(e) ==
  /\ ~up[e]
  /\ up' = [up EXCEPT ![e] = TRUE]
  /\ UNCHANGED <<diallerVars, acceptorVars, toAcceptor, toDialler, late, spent>>

------------------------------------------------------------------------------
Dialler ==
  Dial \/ \E c \in Connection : HandleReplyClusterNode(c) \/ DiallerReadsEnd(c)
Acceptor ==
  \E c \in Connection :
    HandleClusterNode(c) \/ HandleClusterNodeRefused(c) \/ AcceptorReadsEnd(c)

Next ==
  \/ Dialler \/ Acceptor
  \/ Reset \/ DiallerCrash \/ AcceptorCrash
  \/ \E c \in Connection : Arrive(c)
  \/ \E e \in End : Restart(e)

Spec == Init /\ [][Next]_vars

(* cron() dials again and the loop of EventPoll serves what can be read. *)
FairSpec == Spec /\ WF_vars(Dialler) /\ WF_vars(Acceptor)
==============================================================================
