----------------------------- MODULE ServedIndex -----------------------------
(***************************************************************************)
(* What the vector store promises to the searches over one family: there   *)
(* is one index that answers, it is replaced in one step, and only by an   *)
(* index that holds every class.  The first index is the exception: it     *)
(* answers while it is being filled.                                       *)
(***************************************************************************)
CONSTANTS Model, NoModel

VARIABLES serving,   \* the embeddings model of the index that answers
          whole      \* does that index hold every class?

servedVars == <<serving, whole>>

Init ==
  /\ serving = NoModel
  /\ whole = FALSE

\* The first version of the family.
Open ==
  /\ serving = NoModel
  /\ serving' \in Model
  /\ whole' = FALSE

\* A sweep gets through the last class.
Complete ==
  /\ serving # NoModel
  /\ whole' = TRUE
  /\ UNCHANGED serving

\* A finished replacement takes over.
Switch ==
  /\ serving # NoModel
  /\ serving' \in Model
  /\ whole' = TRUE

Next == Open \/ Complete \/ Switch

Spec == Init /\ [][Next]_servedVars
=============================================================================
