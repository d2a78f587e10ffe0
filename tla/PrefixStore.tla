---------------------------- MODULE PrefixStore ----------------------------
(***************************************************************************)
(* What the persistence of a live session promises: the log only grows,    *)
(* and the store holds a prefix of it that only grows, whatever batches    *)
(* the events reach it in.                                                 *)
(***************************************************************************)
EXTENDS Naturals, Sequences

VARIABLES log, durable

Init == \E n \in 0..Len(log) : durable = SubSeq(log, 1, n)

Extend ==
  /\ Len(log') = Len(log) + 1
  /\ SubSeq(log', 1, Len(log)) = log
  /\ UNCHANGED durable

Persist ==
  /\ \E n \in (Len(durable) + 1)..Len(log) : durable' = SubSeq(log, 1, n)
  /\ UNCHANGED log

Spec == Init /\ [][Extend \/ Persist]_<<log, durable>>
=============================================================================
