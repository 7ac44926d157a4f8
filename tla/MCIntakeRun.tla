---------------------------- MODULE MCIntakeRun ----------------------------
(***************************************************************************)
(* Small instances of IntakeRun for TLC.                                   *)
(***************************************************************************)
EXTENDS IntakeRun

\* All switches on; no handoff note; neither classification nor questions.
MCScopes == {[classify |-> TRUE, clarify |-> TRUE, note |-> TRUE],
             [classify |-> TRUE, clarify |-> TRUE, note |-> FALSE],
             [classify |-> FALSE, clarify |-> FALSE, note |-> TRUE]}

\* The default deployment: everything on.
MCDefaultScope == {[classify |-> TRUE, clarify |-> TRUE, note |-> TRUE]}
=============================================================================
