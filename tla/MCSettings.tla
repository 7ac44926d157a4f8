----------------------------- MODULE MCSettings -----------------------------
(***************************************************************************)
(* A small instance of Settings for TLC.                                   *)
(***************************************************************************)
EXTENDS Settings

\* One section of the setup with an optional field.
MCItop == [itop |-> {"url", "pwd"}]
MCNeeds == {<<"itop", "url">>}
=============================================================================
