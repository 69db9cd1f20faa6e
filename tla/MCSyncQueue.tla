----------------------------- MODULE MCSyncQueue -----------------------------
(* SyncQueue on four blobs and batches of two: the queue can hold more than  *)
(* a batch, and refill while a batch runs.                                   *)
EXTENDS SyncQueue
=============================================================================
