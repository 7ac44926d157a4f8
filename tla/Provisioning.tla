---------------------------- MODULE Provisioning ----------------------------
(***************************************************************************)
(* Provisioning of the iTop side (itop/provisioning.py): a chain of find-  *)
(* or-create requests that may fail at any of them, be cut off by the      *)
(* timeout of its endpoint (admin/setup.py), or run twice at a time, once  *)
(* from the wizard and once from the command line.                         *)
(*                                                                         *)
(* iTop holds a number of objects per step of the chain, and with the      *)
(* update webhook the classes whose triggers fire it.                      *)
(***************************************************************************)
EXTENDS Naturals, Sequences

CONSTANTS
  Setup,           \* setups under way at a time
  TicketClass,     \* TICKET_CLASSES
  InDatamodel,     \* those of them this iTop has
  MaxSetups,       \* bound on setups
  MaxMishaps       \* bound on failed requests and timeouts

ASSUME ProvisioningAssumption ==
  /\ InDatamodel \subseteq TicketClass
  /\ {MaxSetups, MaxMishaps} \subseteq Nat

VARIABLES
  objects,      \* iTop: how many objects there are per step
  fires,        \* iTop: the classes whose triggers fire the update webhook
  setup,        \* the setups
  misjudged,    \* classes a failed probe has taken for missing
  begun, mishaps

provisionVars == <<objects, fires, setup, misjudged, begun, mishaps>>

\* An object by its kind and, for an update trigger, its class.
TheType == <<"RemoteApplicationType", "any">>
TheConnection == <<"RemoteApplicationConnection", "any">>
CreateTrigger == <<"TriggerOnObjectCreate", "any">>
CreateWebhook == <<"ActionWebhook", "created">>
UpdateWebhook == <<"ActionWebhook", "updated">>
UpdateTrigger(c) == <<"TriggerOnObjectUpdate", c>>

\* The chain, in the order in which an object refers to the ones before it.
Chain == <<TheType, TheConnection, CreateTrigger, CreateWebhook>>
Once == {Chain[i] : i \in DOMAIN Chain} \union {UpdateWebhook}
Wired == Once \union {UpdateTrigger(c) : c \in TicketClass}

RefersTo(o, present) ==
  CASE o = TheConnection -> {TheType}
    [] o = CreateWebhook -> {CreateTrigger, TheConnection}
    [] o = UpdateWebhook -> {TheConnection} \union {UpdateTrigger(c) : c \in present}
    [] OTHER -> {}

Nothing == <<"none", "none">>

NoSetup == [at |-> "idle", step |-> 1, toProbe |-> {}, present |-> {}, toTrigger |-> {},
            made |-> {}, object |-> Nothing]

ProvisioningTypeOK ==
  /\ objects \in [Wired -> 0 .. 2]
  /\ fires \subseteq TicketClass
  /\ \A p \in Setup :
       /\ setup[p].at \in {"idle", "next", "create", "ok", "failed"}
       /\ setup[p].present \subseteq TicketClass
       /\ setup[p].at = "create" => setup[p].object \in Wired
  /\ misjudged \subseteq InDatamodel
  /\ begun \in 0 .. MaxSetups
  /\ mishaps \in 0 .. MaxMishaps

ProvisioningInit ==
  /\ objects = [o \in Wired |-> 0]
  /\ fires = {}
  /\ setup = [p \in Setup |-> NoSetup]
  /\ misjudged = {}
  /\ begun = 0
  /\ mishaps = 0

Reaches(p, change) == setup' = [setup EXCEPT ![p] = change]

-----------------------------------------------------------------------------
(***************************************************************************)
(* The chain.                                                              *)
(***************************************************************************)

\* The endpoint has the webhook token, the admin's credentials and the id of
\* the AI account's Person; or the command line was given all three.
BeginSetup(p) ==
  /\ begun < MaxSetups
  /\ setup[p].at \in {"idle", "ok", "failed"}
  /\ begun' = begun + 1
  /\ Reaches(p, [NoSetup EXCEPT !.at = "next", !.toProbe = TicketClass])
  /\ UNCHANGED <<objects, fires, misjudged, mishaps>>

\* The next object to ensure: the four of the chain, then a trigger for each
\* class found present (in whichever order), then the webhook they fire.
NextObjects(s) ==
  IF s.step <= Len(Chain) THEN {Chain[s.step]}
  ELSE IF s.toProbe # {} THEN {}
  ELSE IF s.toTrigger # {} THEN {UpdateTrigger(c) : c \in s.toTrigger}
  ELSE IF s.present # {} /\ s.step = Len(Chain) + 1 THEN {UpdateWebhook} ELSE {}

\* One query per class of tickets; any error reads as a class that is not there.
Probe(p) ==
  /\ setup[p].at = "next"
  /\ setup[p].step > Len(Chain)
  /\ \E c \in setup[p].toProbe :
       LET probed == [setup[p] EXCEPT !.toProbe = @ \ {c}]
           found == {c} \intersect InDatamodel
       IN \/ /\ Reaches(p, [probed EXCEPT !.present = @ \union found, !.toTrigger = @ \union found])
             /\ UNCHANGED <<misjudged, mishaps>>
          \/ /\ c \in InDatamodel
             /\ mishaps < MaxMishaps
             /\ mishaps' = mishaps + 1
             /\ misjudged' = misjudged \union {c}
             /\ Reaches(p, probed)
  /\ UNCHANGED <<objects, fires, begun>>

\* Past the object it was at.
Ensured(s) ==
  [s EXCEPT !.at = "next", !.object = Nothing,
            !.step = IF s.object \in Once THEN @ + 1 ELSE @,
            !.toTrigger = {c \in @ : UpdateTrigger(c) # s.object}]

\* An object of that name is left untouched, whatever it says; a duplicate
\* makes two, of which the first is taken.
FindOne(p) ==
  /\ setup[p].at = "next"
  /\ \E o \in NextObjects(setup[p]) :
       LET asked == [setup[p] EXCEPT !.object = o] IN
       Reaches(p, IF objects[o] > 0 THEN Ensured(asked) ELSE [asked EXCEPT !.at = "create"])
  /\ UNCHANGED <<objects, fires, misjudged, begun, mishaps>>

\* The classes whose triggers the update webhook names.  Mutant: the triggers
\* this setup has created.
MadeHere(s) == s.made
FiresFor(s) == s.present

\* What another object refers to by name must be there, and be one.
Resolves(o, s) == \A r \in RefersTo(o, FiresFor(s)) : objects[r] = 1

\* The object is in iTop: a second one of its name if another setup has made
\* one since this one looked.
Created(p) ==
  LET s == setup[p] IN
  /\ Resolves(s.object, s)
  /\ objects[s.object] < 2
  /\ objects' = [objects EXCEPT ![s.object] = @ + 1]
  /\ fires' = IF s.object = UpdateWebhook THEN fires \union FiresFor(s) ELSE fires

Create(p) ==
  /\ setup[p].at = "create"
  /\ Created(p)
  /\ Reaches(p, [Ensured(setup[p]) EXCEPT
       !.made = @ \union {c \in InDatamodel : UpdateTrigger(c) = setup[p].object}])
  /\ UNCHANGED <<misjudged, begun, mishaps>>

\* iTop refuses a reference it cannot resolve: the setup ends there.
CreateRefused(p) ==
  /\ setup[p].at = "create"
  /\ ~Resolves(setup[p].object, setup[p])
  /\ Reaches(p, [setup[p] EXCEPT !.at = "failed"])
  /\ UNCHANGED <<objects, fires, misjudged, begun, mishaps>>

\* A request fails, or the endpoint's timeout cuts it off: with the object
\* created for all the assistant knows, or not.
CutOff(p) ==
  /\ mishaps < MaxMishaps
  /\ setup[p].at \in {"next", "create"}
  /\ mishaps' = mishaps + 1
  /\ Reaches(p, [setup[p] EXCEPT !.at = "failed"])
  /\ \/ UNCHANGED <<objects, fires>>
     \/ setup[p].at = "create" /\ Created(p)
  /\ UNCHANGED <<misjudged, begun>>

\* Nothing is left to ensure: the report goes out.
AllEnsured(s) == s.step > Len(Chain) /\ s.toProbe = {} /\ NextObjects(s) = {}

Report(p) ==
  /\ setup[p].at = "next"
  /\ AllEnsured(setup[p])
  /\ Reaches(p, [setup[p] EXCEPT !.at = "ok"])
  /\ UNCHANGED <<objects, fires, misjudged, begun, mishaps>>

SetupStep(p) ==
  \/ BeginSetup(p) \/ Probe(p) \/ FindOne(p)
  \/ Create(p) \/ CreateRefused(p) \/ CutOff(p) \/ Report(p)

ProvisioningNext == \E p \in Setup : SetupStep(p)

ProvisioningSpec == ProvisioningInit /\ [][ProvisioningNext]_provisionVars

-----------------------------------------------------------------------------
(***************************************************************************)
(* What the report promises.                                               *)
(***************************************************************************)

\* A setup that reports success has wired iTop up, however many setups before
\* it or beside it were cut off: new tickets reach the assistant, and updates
\* of every class of this iTop, save those whose probe has failed once (the
\* webhook made without them is never touched again).
SuccessMeansWired ==
  \A p \in Setup : setup[p].at = "ok" =>
    /\ objects[CreateTrigger] > 0 /\ objects[CreateWebhook] > 0
    /\ \A c \in InDatamodel \ misjudged :
         objects[UpdateTrigger(c)] > 0 /\ c \in fires
=============================================================================
