--------------------------- MODULE Ssh2ChannelsMC ---------------------------
(* Ssh2Channels for model checking: the forwarded connections are          *)
(* interchangeable. Only for runs without liveness properties.             *)
EXTENDS Ssh2Channels, TLC

ConnSymmetry == Permutations(Conn)
=============================================================================
