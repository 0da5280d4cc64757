-------------------------- MODULE MCGatewaySessions --------------------------
(***************************************************************************)
(* GatewaySessions for TLC: two connections, two auth keys, their sessions,*)
(* and what the clients on the connections send.                           *)
(***************************************************************************)
EXTENDS GatewaySessions, TLC

CONSTANTS c1, c2, k1, k2, s1, s2, u1

Login(u) == [kind |-> "bindUser", subject |-> u]
Logout == [kind |-> "unbindUser"]
Revoke == [kind |-> "revokeKey"]
Other == [kind |-> "other"]
Destroy(s) == [kind |-> "destroy_session", sess |-> s]

From(ks, ss, bodies) == {[key |-> k, sess |-> s, requests |-> b] : k \in ks, s \in ss, b \in bodies}

(***************************************************************************)
(* Both connections use a key and its two sessions.  One revokes the key,  *)
(* logs in, or goes on with a second key, which takes over a session; the  *)
(* other destroys that session or logs out.  Nobody logs in on the session *)
(* that both keys use.                                                     *)
(***************************************************************************)
SharedKey ==
    (c1 :> (From({k1}, {s1}, {<<Revoke, Other>>}) \cup From({k1}, {s2}, {<<Login(u1)>>})
            \cup From({k2}, {s1}, {<<Other>>})))
    @@ (c2 :> (From({k1}, {s1}, {<<Destroy(s1)>>}) \cup From({k1}, {s2}, {<<Logout>>})))
=============================================================================
