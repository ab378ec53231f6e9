---------------------------- MODULE MCEmailOutbox ----------------------------
(* Small instances of EmailOutbox. *)
EXTENDS EmailOutbox, TLC

\* Mails differ only by the order they are queued in, processes not at all.
OutboxSymmetry == Permutations(Mails) \union Permutations(Processes)
============================================================================
