----------------------------- MODULE MCPrompts -----------------------------
(***************************************************************************)
(* A small instance of Prompts for TLC.                                    *)
(***************************************************************************)
EXTENDS Prompts

\* A build that passes its own check.
MCBuild == {[packaged |-> [n \in {"ask"} |-> "old"], accepts |-> [n \in {"ask"} |-> {"old"}]]}
=============================================================================
