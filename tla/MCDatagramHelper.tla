------------------------- MODULE MCDatagramHelper -------------------------
(* Two datagrams: the peer can receive the second and NAK the first while *)
(* the first is being retried; the session's 50 ms ticker.              *)
EXTENDS DatagramHelper

MCMaxSeq == 2
MCTickMs == 50

=============================================================================
