------------------------------- MODULE WalLog -------------------------------
(***************************************************************************)
(* What the write-ahead log promises its user (spec 4.3): a sequence of   *)
(* records that only grows by appending at its end, except that a         *)
(* compaction may drop records, keeping the order of the rest.  A replay  *)
(* returns this sequence.                                                  *)
(***************************************************************************)
EXTENDS Sequences, SequencesExt

CONSTANT Recs

VARIABLE log

Init == log = <<>>

\* append(record): the record becomes the last one.
Appended(r) == log' = Append(log, r)

\* compact: some records are dropped, the others keep their order.
Compacted == log' \in AllSubSeqs(log) \ {log}

Next == (\E r \in Recs : Appended(r)) \/ Compacted

Spec == Init /\ [][Next]_log
==============================================================================
