----------------------------- MODULE MCTcpSession -----------------------------
(* Small instances of TcpSession for TLC. *)
EXTENDS TcpSession

CONSTANTS g1, g2, w1, w2, w3, login, b1, b2, e1

TwoSenders == {g1, g2}
OneSender == {g1}
ThreeWrites == {w1, w2, w3}
ThreeBuffers == {login, b1, b2}
FourBuffers == {login, b1, b2, e1}
OneEmpty == {e1}
NoneEmpty == {}

===============================================================================
