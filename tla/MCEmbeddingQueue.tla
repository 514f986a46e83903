--------------------------- MODULE MCEmbeddingQueue ---------------------------
(* A small instance of EmbeddingQueue. *)
EXTENDS EmbeddingQueue
=============================================================================
