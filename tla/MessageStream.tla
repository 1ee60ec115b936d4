---------------------------- MODULE MessageStream ----------------------------
(***************************************************************************)
(* What a connection between two processes promises: each end executes the *)
(* messages the other end posted, each once, whole and in the order they   *)
(* were posted.  It does not promise that all of them arrive: a connection *)
(* may end at any time.                                                    *)
(***************************************************************************)
EXTENDS Naturals, Sequences

CONSTANTS
  End,       \* the two ends
  Message    \* what an end may post

VARIABLES
  posted,    \* posted[e]: what e has posted, in order
  executed   \* executed[e]: what e has executed of its peer's messages

vars == <<posted, executed>>

Peer(e) == CHOOSE f \in End : f # e

Init ==
  /\ posted = [e \in End |-> << >>]
  /\ executed = [e \in End |-> << >>]

(* e posts one message, on its own account or as an answer. *)
Posts(e) ==
  /\ Len(posted'[e]) = Len(posted[e]) + 1
  /\ LET m == posted'[e][Len(posted'[e])]
     IN  m \in Message /\ posted' = [posted EXCEPT ![e] = Append(@, m)]

Post(e) == Posts(e) /\ UNCHANGED executed

(* e executes the next message of its peer, and may answer. *)
Execute(e) ==
  /\ Len(executed[e]) < Len(posted[Peer(e)])
  /\ executed' = [executed EXCEPT
                    ![e] = Append(@, posted[Peer(e)][Len(@) + 1])]
  /\ UNCHANGED posted \/ Posts(e)

Next == \E e \in End : Post(e) \/ Execute(e)

Spec == Init /\ [][Next]_vars
==============================================================================
