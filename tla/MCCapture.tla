----------------------------- MODULE MCCapture -------------------------------
(* Small block RAMs and few directions. *)
EXTENDS Capture

\* Clients call everything.
AllCommands == Operations
=============================================================================
