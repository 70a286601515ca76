----------------------------- MODULE MCEnvelope -----------------------------
(* Instances of the envelope format for TLC.                               *)
EXTENDS Envelope, TLC

MCDomains == {<<1>>, <<2>>}
MCPayloads == UNION {[1..n -> {0, 3}] : n \in 0..3}
=============================================================================
