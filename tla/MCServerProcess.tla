--------------------------- MODULE MCServerProcess ---------------------------
(***************************************************************************)
(* A clustered, a single and a pushless server, each with a listen() that  *)
(* may fail and be retried, close() and a connection.                      *)
(***************************************************************************)
EXTENDS ServerProcess, TLC

MCConfigs ==
    {[updates |-> "redis", carriers |-> {"ws", "tcp"}, mongo |-> TRUE],
     [updates |-> "memory", carriers |-> {"tcp"}, mongo |-> FALSE],
     [updates |-> "off", carriers |-> {"ws"}, mongo |-> TRUE]}
=============================================================================
