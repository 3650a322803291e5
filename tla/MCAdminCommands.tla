--------------------------- MODULE MCAdminCommands -----------------------------
(* AdminCommands for TLC. *)
EXTENDS AdminCommands, TLC

NonceSymmetry == Permutations(Nonce)
===============================================================================
