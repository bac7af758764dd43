--------------------------- MODULE MCTaskPipeline ---------------------------
(* Small instances of TaskPipeline. *)
EXTENDS TaskPipeline, TLC

\* Workers are interchangeable model values.
WorkerSymmetry == Permutations(Workers)

=============================================================================
