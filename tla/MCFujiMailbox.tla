---------------------------- MODULE MCFujiMailbox ----------------------------
(* Small instances of FujiMailbox for TLC. *)
EXTENDS FujiMailbox

\* The host name resolves to two addresses and the bridge listens on the
\* second: localhost with an IPv4 listener.
MCListening == {2}
MCNone      == {}
\* The first address swallows the connect().
MCSilent    == {1}
=============================================================================
