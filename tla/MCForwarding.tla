---------------------------- MODULE MCForwarding ----------------------------
(* A small instance of Forwarding, and with it of Startup, for TLC. *)
EXTENDS Forwarding, TLC

CONSTANT p1

MCBundle == p1 :> (1 :> "a")

\* The two loops are alike: one of them retries.
MCRetryCount == "scoring" :> 1 @@ "messenger" :> 0
=============================================================================
