----------------------------- MODULE MCLifecycle -----------------------------
(***************************************************************************)
(* Constants for model-checking Lifecycle: no rows of earlier processes or *)
(* two, one of them too old; a queue that is flushed before it is full,    *)
(* and one that is full before.                                            *)
(***************************************************************************)
EXTENDS Lifecycle

MCOldRows == {<<>>, <<<<0, 0>>, <<1, 1>>>>}
MCWriters == {<<TRUE, 2, 4>>, <<FALSE, 2, 4>>, <<FALSE, 3, 2>>}
=============================================================================
