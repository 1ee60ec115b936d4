----------------------------- MODULE MCServing -----------------------------
(***************************************************************************)
(* Two storage servers, the first one with a persistence file, and two     *)
(* clients.                                                                *)
(***************************************************************************)
EXTENDS ServingProperties

CONSTANTS c1, c2

MCClient == {c1, c2}
MCKey == {"k1", "k2"}
MCValue == {"v1", "v2"}
Set(k, v) == [op |-> "set", key |-> k, value |-> v]
Del(k) == [op |-> "del", key |-> k]

(* Key k1 belongs to server 1, k2 to server 2. *)
MCHash == [k \in MCKey |-> IF k = "k1" THEN 100 ELSE 600]
MCPersistent == [s \in 1 .. 2 |-> s = 1]
MCScript == c1 :> <<Set("k1", "v1")>> @@ c2 :> <<Del("k1")>>
MCForeign == {Set("k2", "v2")}
============================================================================
