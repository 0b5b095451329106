----------------------------- MODULE MCUdpClient -----------------------------
(* A small instance of UdpClient for TLC. *)
EXTENDS UdpClient

CONSTANTS server, other

TwoEndpoints == {server, other}

\* A header that claims less than itself, and one of a datagram cut short.
IllFormedAndShort == {0, 3}

===============================================================================
