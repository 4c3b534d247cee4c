----------------------------- MODULE PageBuffer -----------------------------
(***************************************************************************)
(* The byte buffer FileHelper keeps in front of its file descriptor: how    *)
(* many of the buffered bytes a write hands to the file, and what it leaves.*)
(* FlushImpl needs no operator: its loop over whole pages and the write of  *)
(* the rest hand over every byte.                                           *)
(***************************************************************************)
EXTENDS Naturals, Sequences

CONSTANT PageSize   \* FileHelper::pageSize, from PageSize()

ASSUME PageSizeAssumption == PageSize \in Nat \ {0}

-----------------------------------------------------------------------------
\* Faulty variant: a full page is kept.
PageDrainLate(size) == IF size > PageSize THEN PageSize ELSE 0

(* WriteImpl(msg): a full buffer hands over exactly one page, however many  *)
(* pages have piled up.                                                     *)
PageDrain(size) == IF size >= PageSize THEN PageSize ELSE 0

Front(bytes, n) == SubSeq(bytes, 1, n)

\* Faulty variant: what was written is not erased.
RestNotErased(bytes, n) == bytes

Rest(bytes, n)  == SubSeq(bytes, n + 1, Len(bytes))
=============================================================================
