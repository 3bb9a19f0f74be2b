------------------------ MODULE MCTransactionService ------------------------
(***************************************************************************)
(* TransactionService for TLC: lists of at most MaxList short ids.         *)
(***************************************************************************)
EXTENDS TransactionService, TLC

CONSTANT MaxList

MCLists == UNION {[1..n -> Sid] : n \in 0..MaxList}
Symmetry == Permutations(Tx) \cup Permutations(Sid) \cup Permutations(Block)
=============================================================================
