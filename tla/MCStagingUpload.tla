--------------------------- MODULE MCStagingUpload ---------------------------
(* Model-checking instance of StagingUpload.                               *)
EXTENDS StagingUpload

\* One region of two rows whose pitch (5 units) exceeds the 4-unit buffer.
MCOversizedCall == {[reject |-> "none", rows |-> 2, rowPitch |-> 5]}
=============================================================================
