------------------------------- MODULE SeqNum -------------------------------
(***************************************************************************)
(* The circular sequence numbers of route-discovery.c: uint8_t counters    *)
(* compared by the macro MAXA.                                             *)
(***************************************************************************)
EXTENDS Integers

CONSTANT MAXVALUE    \* the largest sequence number (255)

ASSUME SeqNumAssumption == MAXVALUE \in Nat \ {0}

SeqNumber == 0 .. MAXVALUE

(* A is newer than B.                                                      *)
MAXA(A, B) ==
  \/ A > B /\ A - B <= MAXVALUE \div 2
  \/ A < B /\ B - A > MAXVALUE \div 2

(* seqno++ on a uint8_t.                                                   *)
NextSeqno(seqno) == (seqno + 1) % (MAXVALUE + 1)
=============================================================================
