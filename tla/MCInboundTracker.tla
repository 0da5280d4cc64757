-------------------------- MODULE MCInboundTracker --------------------------
(***************************************************************************)
(* InboundTracker on eight msg_ids per second of the clock (two of them    *)
(* well formed), so that one second holds several messages.                *)
(***************************************************************************)
EXTENDS InboundTracker

\* Two ids in second 1, one in each of the seconds 2, 3 and a misaligned one.
MCMsgIds == {8, 10, 12, 16, 24}
MCSeqNos == 0..3
MCTimes == 1..3
=============================================================================
