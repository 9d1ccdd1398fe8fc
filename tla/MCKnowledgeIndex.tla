---------------------------- MODULE MCKnowledgeIndex ----------------------------
(* Small instances of KnowledgeIndex for TLC. *)
EXTENDS KnowledgeIndex, TLC

CONSTANTS menu, policy

TwoFiles == <<menu, policy>>

RequestSymmetry == Permutations(Request) \cup Permutations(Process)
================================================================================
