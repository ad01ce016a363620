-------------------------- MODULE MCEventPipeline --------------------------
(* Small instances of EventPipeline.                                       *)
EXTENDS EventPipeline, TLC

CONSTANTS e1, e2, e3

\* One event is large enough to fill a batch by itself.
MCBytes == (e1 :> 1) @@ (e2 :> 1) @@ (e3 :> 3)
Handlers == {e1, e2, e3}
=============================================================================
