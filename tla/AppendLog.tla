------------------------------ MODULE AppendLog ------------------------------
(***************************************************************************)
(* What a log promises its callers: an append-only sequence of bytes of     *)
(* which a growing prefix has been handed to the file.  Nothing accepted is *)
(* changed, reordered or lost, and nothing handed over is taken back.       *)
(***************************************************************************)
EXTENDS Naturals, Sequences

CONSTANT Byte

VARIABLES log,      \* every byte accepted, in order
          durable   \* how many of them the file holds

Init == log = <<>> /\ durable = 0

(* Bytes are accepted at the end, or handed to the file, or both at once.   *)
Extend == /\ log' \in Seq(Byte)
          /\ Len(log) <= Len(log')
          /\ SubSeq(log', 1, Len(log)) = log
          /\ durable' \in durable .. Len(log')

Spec == Init /\ [][Extend]_<<log, durable>>
=============================================================================
