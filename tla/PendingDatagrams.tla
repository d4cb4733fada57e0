------------------------- MODULE PendingDatagrams -------------------------
(***************************************************************************)
(* What a retransmission tracker promises its connection, stated without   *)
(* timers, tries or the peer.  Sequence numbers are issued in increasing   *)
(* order and never reused; a datagram is transmitted only while it is      *)
(* pending, at most MaxSends times in all, and once resolved (acknowledged *)
(* or given up) it is never transmitted again.  A single step may          *)
(* retransmit some pending datagrams and resolve others: the periodic      *)
(* retry pass does both under one lock.                                    *)
(***************************************************************************)
EXTENDS Naturals

CONSTANTS Seqs, MaxSends

VARIABLES status, sends

Status == {"new", "pending", "done"}

Init ==
    /\ status = [s \in Seqs |-> "new"]
    /\ sends = [s \in Seqs |-> 0]

\* The next sequence number is handed out and possibly transmitted once.
Issue(s) ==
    /\ status[s] = "new"
    /\ \A t \in Seqs : t < s => status[t] # "new"
    /\ status' = [status EXCEPT ![s] = "pending"]
    /\ \E n \in {0, 1} : sends' = [sends EXCEPT ![s] = n]

\* Retransmit the pending datagrams T and resolve the pending datagrams R.
Step(T, R) ==
    /\ T \cap R = {}
    /\ \A t \in T \cup R : status[t] = "pending"
    /\ \A t \in T : sends[t] < MaxSends
    /\ sends' = [s \in Seqs |-> IF s \in T THEN sends[s] + 1 ELSE sends[s]]
    /\ status' = [s \in Seqs |-> IF s \in R THEN "done" ELSE status[s]]

Next ==
    \/ \E s \in Seqs : Issue(s)
    \/ \E T, R \in SUBSET Seqs : Step(T, R)

Spec == Init /\ [][Next]_<<status, sends>>

=============================================================================
