----------------------------- MODULE MCTickets -----------------------------
(***************************************************************************)
(* Small instances of what serves the tickets, for TLC: the triggers and   *)
(* their journal, the run of the intake pipeline, and the versions of the  *)
(* index that its searches read.  Their properties speak of no state they  *)
(* share, so a behaviour is a behaviour of one of them (part says of       *)
(* which) with the others at rest, and the run checks the sum of their     *)
(* state spaces instead of the product.                                    *)
(***************************************************************************)
EXTENDS MCIntakeRun, Triggers, IndexVersions

CONSTANT MaxEvents  \* bound on the edits of the model and the failures together

VARIABLE part

Parts == {"run", "triggers", "versions"}

ticketsVars == <<part, vars, triggerVars, versionVars>>

\* The models are alike, so the first one configured may be any; a ticket at rest is
\* one ticket.
TicketsInit ==
  /\ part \in Parts
  /\ Init /\ TriggersInit /\ VersionsInit
  /\ config = CHOOSE m \in Model : TRUE
  /\ part # "run" => ticket = [active |-> TRUE, last |-> "none", classified |-> TRUE]

Rest(p, variables) == IF part = p THEN TRUE ELSE UNCHANGED variables

TicketsNext ==
  /\ UNCHANGED part
  /\ Rest("run", vars) /\ Rest("triggers", triggerVars) /\ Rest("versions", versionVars)
  /\ \/ part = "run" /\ Next
     \/ part = "triggers" /\ TriggersNext
     \/ part = "versions" /\ VersionsNext /\ changes' + troubles' =< MaxEvents

\* The fairness of Fairness and VersionsFairness, each in the behaviours of its part.
TicketsFairness ==
  /\ \A r \in Run : WF_vars(part = "run" /\ RunStep(r))
  /\ WF_vars(part = "run" /\ LockExpires)
  /\ WF_versionVars(part = "versions" /\ PassStep)
  /\ SF_versionVars(part = "versions" /\ EnsureVersion)
  /\ \A q \in Search : WF_versionVars(part = "versions" /\ RememberVersions(q))
  /\ \A a \in Replica : WF_versionVars(part = "versions" /\ CacheExpires(a))

TicketsSpec == TicketsInit /\ [][TicketsNext]_ticketsVars /\ TicketsFairness

\* The types of each part; those at rest keep their initial state.
TicketsTypeOK ==
  /\ part = "run" => TypeOK
  /\ part = "triggers" => TriggersTypeOK
  /\ part = "versions" => VersionsTypeOK

\* A family completes its rebuild (RebuildCompletes); asked of its own part only, as
\* the index of the others stays empty.
VersionsComplete == part = "versions" => RebuildCompletes
=============================================================================
