----------------------------- MODULE Connection -----------------------------
(***************************************************************************)
(* The iTop connection of one process: the cached client and its rebuild   *)
(* (itop/connection.py), the name of the AI account that is cached with    *)
(* it, and the repository sets its callers work through                    *)
(* (repositories/sets.py), which ask whether this is a dry run             *)
(* (itop/write_policy.py).                                                 *)
(*                                                                         *)
(* A client is a number in the order of creation.  What the section "itop" *)
(* says is the account to connect as, or NoUrl; its fingerprint is itself. *)
(***************************************************************************)
EXTENDS Integers

CONSTANTS
  Caller,        \* runs, sweeps and probes that use the connection at a time
  Account,       \* what the section "itop" may say
  NoUrl,         \* the section has no URL: so the environment, by default
  MaxClients,    \* bound on clients created
  MaxUpsets      \* bound on edits, failed reads of Redis and cancellations

ASSUME ConnectionAssumption ==
  /\ NoUrl \notin Account
  /\ {MaxClients, MaxUpsets} \subseteq Nat

NoClient == 0
NoName == "none"

VARIABLES
  section,       \* Redis: section "itop"
  dryRun,        \* Redis: the switch of section "platform"
  client,        \* _client: the cached one
  fingerprint,   \* _fingerprint
  aiName,        \* _ai_person_name: the account it was resolved as
  opened,        \* clients created so far
  open,          \* those of them that are not closed
  rebuilding,    \* who holds _rebuild_lock
  caller,        \* the callers
  process,       \* is this process serving, closing its connection, gone?
  upsets

connectionVars == <<section, dryRun, client, fingerprint, aiName, opened, open,
                    rebuilding, caller, process, upsets>>
cache == <<client, fingerprint, aiName, opened, open>>
surroundings == <<section, dryRun, process>>

NoCaller == [at |-> "idle", wants |-> "set", cfg |-> NoUrl, client |-> NoClient,
             account |-> NoUrl, readOnly |-> FALSE]

ConnectionTypeOK ==
  /\ section \in Account \union {NoUrl}
  /\ dryRun \in BOOLEAN
  /\ client \in 0 .. opened
  /\ {fingerprint} \subseteq Account \union {NoUrl}
  /\ aiName \in Account \union {NoName}
  /\ opened \in 0 .. MaxClients
  /\ open \subseteq 1 .. opened
  /\ rebuilding \in SUBSET Caller
  /\ \A p \in Caller :
       /\ caller[p].at \in {"idle", "config", "lock", "close", "create", "has", "named", "policy", "set", "probing"}
       /\ caller[p].client \in 0 .. opened
  /\ process \in {"serving", "closing", "gone"}
  /\ upsets \in 0 .. MaxUpsets

ConnectionInit ==
  /\ section \in Account
  /\ dryRun = FALSE
  /\ client = NoClient
  /\ fingerprint = NoUrl
  /\ aiName = NoName
  /\ opened = 0
  /\ open = {}
  /\ rebuilding = {}
  /\ caller = [p \in Caller |-> NoCaller]
  /\ process = "serving"
  /\ upsets = 0

Becomes(p, change) == caller' = [caller EXCEPT ![p] = change]
IsDone(p) == Becomes(p, NoCaller)
Upset == upsets < MaxUpsets /\ upsets' = upsets + 1

-----------------------------------------------------------------------------
(***************************************************************************)
(* client().                                                               *)
(***************************************************************************)

\* A repository set, the name of the AI account, or a probe of the setup screen.
Call(p) ==
  /\ process # "gone"
  /\ caller[p].at = "idle"
  /\ \E wants \in {"set", "name", "probe"} : Becomes(p, [NoCaller EXCEPT !.at = "config", !.wants = wants])
  /\ UNCHANGED <<surroundings, cache, rebuilding, upsets>>

\* The section is read before the lock is taken; a Redis that fails answers
\* what the environment says.
ReadSection(p) ==
  /\ caller[p].at = "config"
  /\ \/ Becomes(p, [caller[p] EXCEPT !.at = "lock", !.cfg = section]) /\ UNCHANGED upsets
     \/ Becomes(p, [caller[p] EXCEPT !.at = "lock", !.cfg = NoUrl]) /\ Upset
  /\ UNCHANGED <<surroundings, cache, rebuilding>>

\* asyncio.Lock.  Mutant: the rebuild is not locked.
AnyoneRebuilds == TRUE
NobodyRebuilds == rebuilding = {}

Shares(p) == caller[p].wants # "probe"
Fits(p) == client # NoClient /\ caller[p].cfg = fingerprint

\* The client is handed out, with the account it connects as.
Has(p, number, account) ==
  [caller[p] EXCEPT !.at = "has", !.client = number, !.account = account]

\* The cached client was built from what was read: it is the answer.
TakeCached(p) ==
  /\ caller[p].at = "lock"
  /\ Shares(p)
  /\ NobodyRebuilds
  /\ Fits(p)
  /\ Becomes(p, Has(p, client, fingerprint))
  /\ UNCHANGED <<surroundings, cache, rebuilding, upsets>>

\* Or else the lock is held over the closing of the old one ...
StartRebuild(p) ==
  /\ caller[p].at = "lock"
  /\ Shares(p)
  /\ NobodyRebuilds
  /\ ~Fits(p)
  /\ rebuilding' = rebuilding \union {p}
  /\ Becomes(p, [caller[p] EXCEPT !.at = IF client = NoClient THEN "create" ELSE "close"])
  /\ UNCHANGED <<surroundings, cache, upsets>>

\* ... which is closed first and replaced after the await.
CloseOld(p) ==
  /\ caller[p].at = "close"
  /\ open' = open \ {client}
  /\ Becomes(p, [caller[p] EXCEPT !.at = "create"])
  /\ UNCHANGED <<surroundings, client, fingerprint, aiName, opened, rebuilding, upsets>>

CreateNew(p) ==
  /\ caller[p].at = "create"
  /\ caller[p].cfg # NoUrl
  /\ opened < MaxClients
  /\ opened' = opened + 1
  /\ open' = open \union {opened + 1}
  /\ client' = opened + 1
  /\ fingerprint' = caller[p].cfg
  /\ aiName' = NoName
  /\ rebuilding' = rebuilding \ {p}
  /\ Becomes(p, Has(p, opened + 1, caller[p].cfg))
  /\ UNCHANGED <<surroundings, upsets>>

\* create_itop_client raises for want of a URL; what was cached stays cached.
CreateRaises(p) ==
  /\ caller[p].at = "create"
  /\ caller[p].cfg = NoUrl
  /\ rebuilding' = rebuilding \ {p}
  /\ IsDone(p)
  /\ UNCHANGED <<surroundings, cache, upsets>>

\* What is closed whatever becomes of the caller: the client of a probe.
Own(p) == IF caller[p].at = "probing" THEN {caller[p].client} ELSE {}

\* A caller is cancelled: a timeout, a shutdown.  The lock goes with it.
Cancelled(p) ==
  /\ caller[p].at # "idle"
  /\ Upset
  /\ rebuilding' = rebuilding \ {p}
  /\ open' = open \ Own(p)
  /\ IsDone(p)
  /\ UNCHANGED <<surroundings, client, fingerprint, aiName, opened>>

-----------------------------------------------------------------------------
(***************************************************************************)
(* The probes: a client of their own, closed whatever the answer is.       *)
(***************************************************************************)

\* test_itop: of what is saved and what the form says, a probe needs a URL ...
OpenProbe(p) ==
  /\ caller[p].at = "lock"
  /\ ~Shares(p)
  /\ opened < MaxClients
  /\ \/ caller[p].cfg = NoUrl /\ IsDone(p) /\ UNCHANGED <<opened, open>>
     \/ /\ opened' = opened + 1
        /\ open' = open \union {opened + 1}
        /\ Becomes(p, [caller[p] EXCEPT !.at = "probing", !.client = opened + 1])
  /\ UNCHANGED <<surroundings, client, fingerprint, aiName, rebuilding, upsets>>

\* ... and with the answer of iTop, or for want of one, it is over.  So is the
\* question who the AI account is (_ai_contact_id).
EndProbe(p) ==
  /\ caller[p].at = "probing"
  /\ open' = open \ Own(p)
  /\ IsDone(p)
  /\ UNCHANGED <<surroundings, client, fingerprint, aiName, opened, rebuilding, upsets>>

-----------------------------------------------------------------------------
(***************************************************************************)
(* What the callers do with it.                                            *)
(***************************************************************************)

\* ai_person_name: a name that is known is not asked for again.
KnowsName(p) ==
  /\ caller[p].at = "has"
  /\ caller[p].wants = "name"
  /\ Becomes(p, IF aiName # NoName THEN NoCaller ELSE [caller[p] EXCEPT !.at = "named"])
  /\ UNCHANGED <<surroundings, cache, rebuilding, upsets>>

\* The answer is remembered, whichever client is the cached one by now; a
\* closed client or an iTop in trouble raises.
ResolveName(p) ==
  /\ caller[p].at = "named"
  /\ \/ caller[p].client \in open /\ aiName' = caller[p].account
     \/ UNCHANGED aiName
  /\ IsDone(p)
  /\ UNCHANGED <<surroundings, client, fingerprint, opened, open, rebuilding, upsets>>

\* for_principal: a view of the client, read-only when this is a dry run ...
AskPolicy(p) ==
  /\ caller[p].at = "has"
  /\ caller[p].wants = "set"
  /\ \/ Becomes(p, [caller[p] EXCEPT !.at = "policy", !.readOnly = dryRun]) /\ UNCHANGED upsets
     \/ Becomes(p, [caller[p] EXCEPT !.at = "policy", !.readOnly = FALSE]) /\ Upset
  /\ UNCHANGED <<surroundings, cache, rebuilding>>

\* ... and the repositories over it, from the mappings as they stand.
BuildSet(p) ==
  /\ caller[p].at = "policy"
  /\ Becomes(p, [caller[p] EXCEPT !.at = "set"])
  /\ UNCHANGED <<surroundings, cache, rebuilding, upsets>>

\* The set is kept as long as its run lasts.
DropSet(p) ==
  /\ caller[p].at = "set"
  /\ IsDone(p)
  /\ UNCHANGED <<surroundings, cache, rebuilding, upsets>>

EditSection ==
  /\ Upset
  /\ \/ \E cfg \in (Account \union {NoUrl}) \ {section} : section' = cfg /\ UNCHANGED dryRun
     \/ dryRun' = ~dryRun /\ UNCHANGED section
  /\ UNCHANGED <<process, cache, rebuilding, caller>>

\* aclose() of the process takes no lock: it closes what is cached ...
CloseConnection ==
  /\ process = "serving"
  /\ process' = "closing"
  /\ open' = open \ {client}
  /\ UNCHANGED <<section, dryRun, client, fingerprint, aiName, opened, rebuilding, caller, upsets>>

\* ... and forgets what is cached after the await.
ForgetConnection ==
  /\ process = "closing"
  /\ process' = "gone"
  /\ client' = NoClient
  /\ fingerprint' = NoUrl
  /\ aiName' = NoName
  /\ UNCHANGED <<section, dryRun, opened, open, rebuilding, caller, upsets>>

CallerStep(p) ==
  \/ Call(p) \/ ReadSection(p) \/ TakeCached(p) \/ StartRebuild(p)
  \/ CloseOld(p) \/ CreateNew(p) \/ CreateRaises(p) \/ Cancelled(p)
  \/ OpenProbe(p) \/ EndProbe(p)
  \/ KnowsName(p) \/ ResolveName(p) \/ AskPolicy(p) \/ BuildSet(p) \/ DropSet(p)

ConnectionNext ==
  \/ \E p \in Caller : CallerStep(p)
  \/ EditSection \/ CloseConnection \/ ForgetConnection

ConnectionSpec == ConnectionInit /\ [][ConnectionNext]_connectionVars

-----------------------------------------------------------------------------
(***************************************************************************)
(* What the connection promises.                                           *)
(***************************************************************************)

\* One connection: whatever edits, failures and cancellations its rebuilds
\* meet, a serving process has no open client but the cached one and those of
\* the probes under way, so no pool is left behind unclosed.
NoClientLeaks ==
  process = "serving" => open \subseteq {client} \union UNION {Own(p) : p \in Caller}

\* connection.py:35, "rebuilt when - and only when - its own section changes":
\* a caller of a serving process that is handed a client can use it.
HandsOutOpenClients ==
  [][\A p \in Caller :
       process = "serving" /\ caller[p].at # "has" /\ caller'[p].at = "has" =>
         caller'[p].client \in open']_connectionVars
=============================================================================
