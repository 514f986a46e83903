------------------------- MODULE MCKnowledgeEntries -------------------------
(* Small instances of KnowledgeEntries: the constants are given in the cfg.   *)
EXTENDS KnowledgeEntries
=============================================================================
