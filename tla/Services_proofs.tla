--------------------------- MODULE Services_proofs ---------------------------
(***************************************************************************)
(* Theorems about services that requests and runs share: the iTop          *)
(* connection, the runtime settings, the prompt templates and the setup of *)
(* the iTop side, for any number of callers, accounts, edits, failures and *)
(* cancellations.                                                          *)
(***************************************************************************)
EXTENDS Connection, Settings, Prompts, Provisioning, TLAPS

-----------------------------------------------------------------------------
(* The connection. *)

CallerPlaces == {"idle", "config", "lock", "close", "create", "has", "named", "policy",
                 "set", "probing"}
Callers == [at : CallerPlaces, wants : {"set", "name", "probe"},
            cfg : Account \union {NoUrl}, client : Nat,
            account : Account \union {NoUrl}, readOnly : BOOLEAN]

\* A caller that rebuilds holds the lock, alone, and once the old client is
\* closed nobody opens it again.
Locked ==
  /\ \A p \in Caller : caller[p].at \in {"close", "create"} <=> p \in rebuilding
  /\ \A p, q \in rebuilding : p = q
  /\ \A p \in Caller : caller[p].at = "create" => client \notin open

\* A client was created for an account, and nobody is handed one without.
Addressed ==
  /\ client # NoClient => fingerprint \in Account
  /\ \A p \in Caller : caller[p].at \in {"has", "named"} => caller[p].account \in Account

\* The inductive invariant.
ConnectionInv ==
  /\ ConnectionTypeOK
  /\ caller \in [Caller -> Callers]
  /\ Locked /\ Addressed
  /\ NoClientLeaks

USE ConnectionAssumption

LEMMA NoCallerIs ==
  NoCaller \in Callers /\ NoCaller.at = "idle" /\ NoCaller.client = 0
BY DEF NoCaller, Callers, CallerPlaces, NoClient

LEMMA InitConnection == ConnectionInit => ConnectionInv
<1> SUFFICES ASSUME ConnectionInit PROVE ConnectionInv
  OBVIOUS
<1>1. caller \in [Caller -> Callers]
      /\ \A p \in Caller : caller[p].at = "idle" /\ caller[p].client = 0
  BY NoCallerIs DEF ConnectionInit
<1>2. ConnectionTypeOK
  <2>1. 0 \in 0 .. MaxClients /\ 0 \in 0 .. MaxUpsets /\ 0 \in 0 .. 0
    OBVIOUS
  <2> QED
    BY <1>1, <2>1 DEF ConnectionInit, ConnectionTypeOK, NoClient
<1>3. Locked /\ Addressed /\ NoClientLeaks
  BY <1>1 DEF ConnectionInit, Locked, Addressed, NoClientLeaks
<1> QED
  BY <1>1, <1>2, <1>3 DEF ConnectionInv

\* A caller goes on and nothing else changes.
LEMMA CallerMoves ==
  ASSUME ConnectionInv, NEW p \in Caller, NEW c \in Callers,
         caller' = [caller EXCEPT ![p] = c],
         UNCHANGED <<section, dryRun, process, client, fingerprint, opened, open, rebuilding>>,
         aiName' \in Account \union {NoName}, upsets' \in 0 .. MaxUpsets,
         c.client \in 0 .. opened,
         c.at \in {"has", "named"} => c.account \in Account,
         {c.at, caller[p].at} \cap {"close", "create", "probing"} = {}
  PROVE  ConnectionInv'
<1>1. caller' \in [Caller -> Callers] /\ \A q \in Caller : q # p => caller'[q] = caller[q]
      /\ caller'[p] = c
  BY DEF ConnectionInv
<1>2. ConnectionTypeOK'
  BY <1>1 DEF ConnectionInv, ConnectionTypeOK, Callers, CallerPlaces
<1>3. Locked' /\ Addressed'
  BY <1>1 DEF ConnectionInv, Locked, Addressed
<1>4. \A q \in Caller : Own(q)' = Own(q)
  BY <1>1 DEF Own
<1>5. NoClientLeaks'
  BY <1>4 DEF ConnectionInv, NoClientLeaks
<1> QED
  BY <1>1, <1>2, <1>3, <1>5 DEF ConnectionInv

LEMMA CallerIs ==
  ASSUME ConnectionInv, NEW p \in Caller
  PROVE  /\ caller \in [Caller -> Callers] /\ caller[p] \in Callers
         /\ caller[p].client \in 0 .. opened
         /\ section \in Account \union {NoUrl} /\ dryRun \in BOOLEAN
         /\ fingerprint \in Account \union {NoUrl} /\ aiName \in Account \union {NoName}
         /\ client \in 0 .. opened /\ opened \in 0 .. MaxClients /\ open \subseteq 1 .. opened
         /\ upsets \in 0 .. MaxUpsets
         /\ opened \in Nat /\ client \in Nat /\ 0 \in 0 .. opened
         /\ Addressed
<1>1. /\ ConnectionTypeOK /\ caller \in [Caller -> Callers] /\ Addressed
  BY DEF ConnectionInv
<1>2. /\ client \in 0 .. opened /\ opened \in 0 .. MaxClients /\ open \subseteq 1 .. opened
      /\ caller[p].client \in 0 .. opened /\ fingerprint \in Account \union {NoUrl}
      /\ section \in Account \union {NoUrl} /\ dryRun \in BOOLEAN
      /\ aiName \in Account \union {NoName} /\ upsets \in 0 .. MaxUpsets
  BY <1>1 DEF ConnectionTypeOK
<1>3. opened \in Nat
  BY <1>2
<1> QED
  BY <1>1, <1>2, <1>3

-----------------------------------------------------------------------------
(* The steps. *)

LEMMA AskingSafe ==
  ASSUME ConnectionInv, NEW p \in Caller, Call(p) \/ ReadSection(p) \/ TakeCached(p)
  PROVE  ConnectionInv'
<1>1. CASE Call(p)
  <2>1. PICK wants \in {"set", "name", "probe"} :
          caller' = [caller EXCEPT ![p] = [NoCaller EXCEPT !.at = "config", !.wants = wants]]
    BY <1>1 DEF Call, Becomes
  <2>. DEFINE c == [NoCaller EXCEPT !.at = "config", !.wants = wants]
  <2>2. c \in Callers /\ c.at = "config" /\ c.client = 0
    BY NoCallerIs DEF Callers, CallerPlaces
  <2>. HIDE DEF c
  <2>3. caller' = [caller EXCEPT ![p] = c]
    BY <2>1 DEF c
  <2> QED
    BY <1>1, <2>2, <2>3, CallerIs, CallerMoves DEF Call, surroundings, cache
<1>2. CASE ReadSection(p)
  <2>1. PICK cfg \in {section, NoUrl} :
          /\ caller' = [caller EXCEPT ![p] = [caller[p] EXCEPT !.at = "lock", !.cfg = cfg]]
          /\ upsets' \in 0 .. MaxUpsets
    BY <1>2, CallerIs DEF ReadSection, Becomes, Upset
  <2>. DEFINE c == [caller[p] EXCEPT !.at = "lock", !.cfg = cfg]
  <2>2. c \in Callers /\ c.at = "lock" /\ c.client = caller[p].client
    BY CallerIs DEF Callers, CallerPlaces
  <2>. HIDE DEF c
  <2>3. caller' = [caller EXCEPT ![p] = c]
    BY <2>1 DEF c
  <2> QED
    BY <1>2, <2>1, <2>2, <2>3, CallerIs, CallerMoves DEF ReadSection, surroundings, cache
<1>3. CASE TakeCached(p)
  <2>. DEFINE c == Has(p, client, fingerprint)
  <2>1. c \in Callers /\ c.at = "has" /\ c.client = client /\ c.account \in Account
    BY <1>3, CallerIs DEF Has, Callers, CallerPlaces, TakeCached, Fits, Addressed
  <2>. HIDE DEF c
  <2>2. caller' = [caller EXCEPT ![p] = c]
    BY <1>3 DEF TakeCached, Becomes, c
  <2> QED
    BY <1>3, <2>1, <2>2, CallerIs, CallerMoves DEF TakeCached, surroundings, cache
<1> QED
  BY <1>1, <1>2, <1>3

LEMMA UseSafe ==
  ASSUME ConnectionInv, NEW p \in Caller,
         KnowsName(p) \/ ResolveName(p) \/ AskPolicy(p) \/ BuildSet(p) \/ DropSet(p)
  PROVE  ConnectionInv'
<1>1. /\ caller[p].at \in {"has", "named", "policy", "set"}
      /\ UNCHANGED <<section, dryRun, process, client, fingerprint, opened, open, rebuilding>>
  BY DEF KnowsName, ResolveName, AskPolicy, BuildSet, DropSet, surroundings, cache
<1>2. caller[p].account \in Account \union {NoUrl}
  BY CallerIs DEF Callers
<1>3. upsets' \in 0 .. MaxUpsets
  BY CallerIs DEF KnowsName, ResolveName, AskPolicy, BuildSet, DropSet, Upset
<1>4. aiName' \in Account \union {NoName}
  BY CallerIs DEF Addressed, KnowsName, ResolveName, AskPolicy, BuildSet, DropSet, cache
<1>5. \E c \in Callers :
        /\ caller' = [caller EXCEPT ![p] = c]
        /\ c.client \in 0 .. opened
        /\ c.at \in {"idle", "named", "policy", "set"}
        /\ c.at = "named" => c.account \in Account
  <2>1. caller[p].at = "has" => caller[p].account \in Account
    BY CallerIs DEF Addressed
  <2>2. PICK c \in {NoCaller, [caller[p] EXCEPT !.at = "named"],
                    [caller[p] EXCEPT !.at = "policy", !.readOnly = dryRun],
                    [caller[p] EXCEPT !.at = "policy", !.readOnly = FALSE],
                    [caller[p] EXCEPT !.at = "set"]} :
           caller' = [caller EXCEPT ![p] = c] /\ (c.at = "named" => caller[p].at = "has")
    BY NoCallerIs, CallerIs DEF KnowsName, ResolveName, AskPolicy, BuildSet, DropSet, Becomes, IsDone, Callers
  <2>3. /\ c \in Callers /\ c.at \in {"idle", "named", "policy", "set"}
        /\ c.client = 0 \/ c.client = caller[p].client
        /\ c.at = "named" => c.account = caller[p].account
    BY <2>2, NoCallerIs, CallerIs DEF Callers, CallerPlaces
  <2>4. c.client \in 0 .. opened
    BY <2>3, CallerIs
  <2> QED
    BY <2>1, <2>2, <2>3, <2>4
<1> QED
  BY <1>1, <1>3, <1>4, <1>5, CallerMoves

\* The types again, whoever moves and whatever is opened or closed.
LEMMA StepTyped ==
  ASSUME ConnectionInv, NEW p \in Caller, NEW c \in Callers,
         caller' = [caller EXCEPT ![p] = c], c.client \in 0 .. opened',
         UNCHANGED <<section, dryRun, process>>,
         opened' \in opened .. MaxClients, client' \in 0 .. opened', open' \subseteq 1 .. opened',
         fingerprint' \in Account \union {NoUrl}, aiName' \in Account \union {NoName},
         rebuilding' \subseteq Caller, upsets' \in 0 .. MaxUpsets
  PROVE  /\ ConnectionTypeOK' /\ caller' \in [Caller -> Callers]
         /\ caller'[p] = c /\ \A q \in Caller : q # p => caller'[q] = caller[q]
<1>1. /\ caller' \in [Caller -> Callers]
      /\ caller'[p] = c /\ \A q \in Caller : q # p => caller'[q] = caller[q]
  BY DEF ConnectionInv
<1>2. opened' \in 0 .. MaxClients /\ opened <= opened'
  BY CallerIs
<1>3. \A q \in Caller : caller'[q].at \in CallerPlaces /\ caller'[q].client \in 0 .. opened'
  <2>1. SUFFICES ASSUME NEW q \in Caller
                 PROVE  caller'[q].at \in CallerPlaces /\ caller'[q].client \in 0 .. opened'
    OBVIOUS
  <2>2. caller'[q] \in Callers
    BY <1>1
  <2>3. CASE q # p
    BY <1>1, <1>2, <2>2, <2>3, CallerIs DEF Callers
  <2>4. CASE q = p
    BY <1>1, <2>2, <2>4 DEF Callers
  <2> QED
    BY <2>3, <2>4
<1> QED
  BY <1>1, <1>2, <1>3 DEF ConnectionInv, ConnectionTypeOK, CallerPlaces

LEMMA StartSafe == ASSUME ConnectionInv, NEW p \in Caller, StartRebuild(p) PROVE ConnectionInv'
<1>. DEFINE c == [caller[p] EXCEPT !.at = IF client = NoClient THEN "create" ELSE "close"]
<1>1. /\ caller' = [caller EXCEPT ![p] = c] /\ rebuilding' = rebuilding \union {p}
      /\ rebuilding = {} /\ caller[p].at = "lock"
      /\ UNCHANGED <<section, dryRun, process, client, fingerprint, aiName, opened, open, upsets>>
  BY DEF StartRebuild, NobodyRebuilds, Becomes, surroundings, cache
<1>2. /\ c \in Callers /\ c.client \in 0 .. opened
      /\ c.at = IF client = NoClient THEN "create" ELSE "close"
  BY CallerIs DEF Callers, CallerPlaces
<1>. HIDE DEF c
<1>3. /\ ConnectionTypeOK' /\ caller' \in [Caller -> Callers]
      /\ caller'[p] = c /\ \A q \in Caller : q # p => caller'[q] = caller[q]
  BY <1>1, <1>2, CallerIs, StepTyped DEF ConnectionInv, ConnectionTypeOK
<1>4. NoClient \notin open
  BY CallerIs DEF NoClient
<1>5. Locked' /\ Addressed'
  BY <1>1, <1>2, <1>3, <1>4 DEF ConnectionInv, Locked, Addressed
<1>6. \A q \in Caller : Own(q)' = Own(q)
  BY <1>1, <1>2, <1>3 DEF Own
<1> QED
  BY <1>1, <1>3, <1>5, <1>6 DEF ConnectionInv, NoClientLeaks

LEMMA CloseSafe == ASSUME ConnectionInv, NEW p \in Caller, CloseOld(p) PROVE ConnectionInv'
<1>. DEFINE c == [caller[p] EXCEPT !.at = "create"]
<1>1. /\ caller' = [caller EXCEPT ![p] = c] /\ caller[p].at = "close"
      /\ open' = open \ {client}
      /\ UNCHANGED <<section, dryRun, process, client, fingerprint, aiName, opened, rebuilding, upsets>>
  BY DEF CloseOld, Becomes, surroundings
<1>2. c \in Callers /\ c.client \in 0 .. opened /\ c.at = "create"
  BY CallerIs DEF Callers, CallerPlaces
<1>. HIDE DEF c
<1>3. /\ ConnectionTypeOK' /\ caller' \in [Caller -> Callers]
      /\ caller'[p] = c /\ \A q \in Caller : q # p => caller'[q] = caller[q]
  BY <1>1, <1>2, CallerIs, StepTyped DEF ConnectionInv, ConnectionTypeOK
<1>4. Locked' /\ Addressed'
  BY <1>1, <1>2, <1>3 DEF ConnectionInv, Locked, Addressed
<1>5. \A q \in Caller : Own(q)' = Own(q)
  BY <1>1, <1>2, <1>3 DEF Own
<1> QED
  BY <1>1, <1>3, <1>4, <1>5 DEF ConnectionInv, NoClientLeaks

LEMMA CreateSafe == ASSUME ConnectionInv, NEW p \in Caller, CreateNew(p) PROVE ConnectionInv'
<1>. DEFINE n == opened + 1
            c == [caller[p] EXCEPT !.at = "has", !.client = n, !.account = caller[p].cfg]
<1>1. /\ caller' = [caller EXCEPT ![p] = c] /\ caller[p].at = "create"
      /\ opened < MaxClients /\ opened' = n /\ open' = open \union {n} /\ client' = n
      /\ fingerprint' = caller[p].cfg /\ aiName' = NoName /\ caller[p].cfg # NoUrl
      /\ rebuilding' = rebuilding \ {p}
      /\ UNCHANGED <<section, dryRun, process, upsets>>
  BY DEF CreateNew, Becomes, Has, surroundings
<1>2. n \in Nat /\ n <= MaxClients /\ n \in 0 .. n /\ n \in opened .. MaxClients
      /\ 1 .. opened \subseteq 1 .. n /\ n \in 1 .. n
  BY <1>1, CallerIs
<1>3. caller[p].cfg \in Account
  BY <1>1, CallerIs DEF Callers
<1>. HIDE DEF n
<1>4. c \in Callers /\ c.client = n /\ c.at = "has" /\ c.account = caller[p].cfg
  BY <1>2, <1>3, CallerIs DEF Callers, CallerPlaces
<1>. HIDE DEF c
<1>5. /\ ConnectionTypeOK' /\ caller' \in [Caller -> Callers]
      /\ caller'[p] = c /\ \A q \in Caller : q # p => caller'[q] = caller[q]
  BY <1>1, <1>2, <1>3, <1>4, CallerIs, StepTyped DEF ConnectionInv, ConnectionTypeOK
<1>6. client \notin open /\ \A q \in Caller : q # p => caller[q].at \notin {"close", "create"}
  BY <1>1 DEF ConnectionInv, Locked
<1>7. Locked' /\ Addressed'
  BY <1>1, <1>3, <1>4, <1>5, <1>6 DEF ConnectionInv, Locked, Addressed
<1>8. \A q \in Caller : Own(q)' = Own(q)
  BY <1>1, <1>4, <1>5 DEF Own
<1>9. NoClientLeaks'
  BY <1>1, <1>6, <1>8 DEF ConnectionInv, NoClientLeaks
<1> QED
  BY <1>5, <1>7, <1>9 DEF ConnectionInv

\* A caller that is done, cancelled or not, closes what it opened for itself.
LEMMA DoneSafe ==
  ASSUME ConnectionInv, NEW p \in Caller, CreateRaises(p) \/ Cancelled(p) \/ EndProbe(p)
  PROVE  ConnectionInv'
<1>1. /\ caller' = [caller EXCEPT ![p] = NoCaller] /\ open' = open \ Own(p)
      /\ rebuilding' = rebuilding \ {p}
      /\ UNCHANGED <<section, dryRun, process, client, fingerprint, aiName, opened>>
      /\ upsets' \in 0 .. MaxUpsets
  <2>1. CASE CreateRaises(p)
    BY <2>1, CallerIs DEF CreateRaises, IsDone, Becomes, surroundings, cache, Own
  <2>2. CASE Cancelled(p)
    BY <2>2, CallerIs DEF Cancelled, IsDone, Becomes, surroundings, Upset
  <2>3. CASE EndProbe(p)
    <3>1. p \notin rebuilding
      BY <2>3 DEF EndProbe, ConnectionInv, Locked
    <3> QED
      BY <2>3, <3>1, CallerIs DEF EndProbe, IsDone, Becomes, surroundings
  <2> QED
    BY <2>1, <2>2, <2>3
<1>2. /\ ConnectionTypeOK' /\ caller' \in [Caller -> Callers]
      /\ caller'[p] = NoCaller /\ \A q \in Caller : q # p => caller'[q] = caller[q]
  BY <1>1, NoCallerIs, CallerIs, StepTyped DEF ConnectionInv, ConnectionTypeOK
<1>3. Locked' /\ Addressed'
  BY <1>1, <1>2, NoCallerIs DEF ConnectionInv, Locked, Addressed
<1>4. \A q \in Caller : q # p => Own(q)' = Own(q)
  BY <1>2 DEF Own
<1>5. NoClientLeaks'
  BY <1>1, <1>4 DEF ConnectionInv, NoClientLeaks
<1> QED
  BY <1>2, <1>3, <1>5 DEF ConnectionInv

LEMMA ProbeSafe == ASSUME ConnectionInv, NEW p \in Caller, OpenProbe(p) PROVE ConnectionInv'
<1>. DEFINE n == opened + 1
            c == [caller[p] EXCEPT !.at = "probing", !.client = n]
<1>1. /\ caller[p].at = "lock" /\ opened < MaxClients
      /\ UNCHANGED <<section, dryRun, process, client, fingerprint, aiName, rebuilding, upsets>>
      /\ \/ caller' = [caller EXCEPT ![p] = NoCaller] /\ UNCHANGED <<opened, open>>
         \/ /\ caller' = [caller EXCEPT ![p] = c]
            /\ opened' = n /\ open' = open \union {n}
  BY DEF OpenProbe, Becomes, IsDone, surroundings
<1>2. CASE caller' = [caller EXCEPT ![p] = NoCaller] /\ UNCHANGED <<opened, open>>
  BY <1>1, <1>2, NoCallerIs, CallerIs, CallerMoves
<1>3. CASE /\ caller' = [caller EXCEPT ![p] = c]
           /\ opened' = n /\ open' = open \union {n}
  <2>1. /\ n \in Nat /\ n <= MaxClients /\ n \in 0 .. n /\ n \in opened .. MaxClients
        /\ 1 .. opened \subseteq 1 .. n /\ n \in 1 .. n
        /\ client \in 0 .. n /\ client # n
    BY <1>1, CallerIs
  <2>. HIDE DEF n
  <2>2. c \in Callers /\ c.client = n /\ c.at = "probing"
    BY <2>1, CallerIs DEF Callers, CallerPlaces
  <2>. HIDE DEF c
  <2>3. /\ ConnectionTypeOK' /\ caller' \in [Caller -> Callers]
        /\ caller'[p] = c /\ \A q \in Caller : q # p => caller'[q] = caller[q]
    BY <1>1, <1>3, <2>1, <2>2, CallerIs, StepTyped DEF ConnectionInv, ConnectionTypeOK
  <2>4. Locked' /\ Addressed'
    BY <1>1, <1>3, <2>1, <2>2, <2>3 DEF ConnectionInv, Locked, Addressed
  <2>5. /\ \A q \in Caller : q # p => Own(q)' = Own(q)
        /\ Own(p) = {} /\ Own(p)' = {n}
    BY <1>1, <2>2, <2>3 DEF Own
  <2>6. NoClientLeaks'
    BY <1>1, <1>3, <2>5 DEF ConnectionInv, NoClientLeaks
  <2> QED
    BY <2>3, <2>4, <2>6 DEF ConnectionInv
<1> QED
  BY <1>1, <1>2, <1>3

LEMMA AroundSafe ==
  ASSUME ConnectionInv,
         EditSection \/ CloseConnection \/ ForgetConnection \/ UNCHANGED connectionVars
  PROVE  ConnectionInv'
<1>1. /\ UNCHANGED <<opened, rebuilding, caller>> /\ open' \subseteq open
      /\ client' = client \/ (client' = 0 /\ process' = "gone")
      /\ client' # NoClient => fingerprint' = fingerprint /\ client' = client
      /\ process' = "serving" => process = "serving"
  <2>1. CASE EditSection \/ UNCHANGED connectionVars
    BY <2>1 DEF EditSection, connectionVars, cache
  <2>2. CASE CloseConnection
    BY <2>2 DEF CloseConnection
  <2>3. CASE ForgetConnection
    BY <2>3 DEF ForgetConnection, NoClient
  <2> QED
    BY <2>1, <2>2, <2>3
<1>2. /\ section' \in Account \union {NoUrl} /\ dryRun' \in BOOLEAN
      /\ fingerprint' \in Account \union {NoUrl} /\ aiName' \in Account \union {NoName}
      /\ process' \in {"serving", "closing", "gone"} /\ upsets' \in 0 .. MaxUpsets
  <2>1. dryRun' \in BOOLEAN
    BY DEF EditSection, CloseConnection, ForgetConnection, connectionVars, ConnectionInv, ConnectionTypeOK
  <2>2. upsets' \in 0 .. MaxUpsets
    BY DEF EditSection, CloseConnection, ForgetConnection, connectionVars, ConnectionInv, ConnectionTypeOK, Upset
  <2> QED
    BY <2>1, <2>2 DEF EditSection, CloseConnection, ForgetConnection, connectionVars, cache, ConnectionInv,
          ConnectionTypeOK
<1>3. ConnectionTypeOK'
  <2>1. client' \in 0 .. opened' /\ open' \subseteq 1 .. opened'
    BY <1>1 DEF ConnectionInv, ConnectionTypeOK
  <2> QED
    BY <1>1, <1>2, <2>1 DEF ConnectionInv, ConnectionTypeOK
<1>4. Locked' /\ Addressed'
  <2>1. 0 \notin open /\ 0 \notin open'
    BY <1>1 DEF ConnectionInv, ConnectionTypeOK
  <2> QED
    BY <1>1, <2>1 DEF ConnectionInv, Locked, Addressed
<1>5. NoClientLeaks'
  BY <1>1 DEF ConnectionInv, NoClientLeaks, Own
<1> QED
  BY <1>1, <1>3, <1>4, <1>5 DEF ConnectionInv

-----------------------------------------------------------------------------
(* The theorems about the connection. *)

\* The inductive invariant holds in every reachable state.
THEOREM ConnectionInvariant == ConnectionSpec => []ConnectionInv
<1>1. ConnectionInv /\ [ConnectionNext]_connectionVars => ConnectionInv'
  BY AskingSafe, UseSafe, StartSafe, CloseSafe, CreateSafe, DoneSafe, ProbeSafe, AroundSafe
     DEF ConnectionNext, CallerStep
<1> QED
  BY <1>1, InitConnection, PTL DEF ConnectionSpec

\* The types of the connection hold.
THEOREM ConnectionTyped == ConnectionSpec => []ConnectionTypeOK
<1>1. ConnectionInv => ConnectionTypeOK
  BY DEF ConnectionInv
<1> QED
  BY <1>1, ConnectionInvariant, PTL

\* Whatever is edited, fails or is cancelled between the steps of a rebuild, no
\* client of a serving process is left open and forgotten (client() and aclose()
\* in itop/connection.py, the probes of admin/setup.py).
THEOREM NothingLeaks == ConnectionSpec => []NoClientLeaks
<1>1. ConnectionInv => NoClientLeaks
  BY DEF ConnectionInv
<1> QED
  BY <1>1, ConnectionInvariant, PTL

-----------------------------------------------------------------------------
(* The prompts. *)

\* A name none of whose layers but ours has a template is broken in what is
\* in effect exactly when it is broken in what is packaged.
LEMMA OursIsOurs ==
  ASSUME NEW read, DOMAIN read \subseteq DOMAIN build.packaged, NEW stored_, NEW n,
         n \in Broken(build, EffectiveOf(PromptSet(read, stored_))),
         OriginOf(PromptSet(read, stored_), n) = "default"
  PROVE  n \in Broken(build, build.packaged)
<1>. DEFINE set == PromptSet(read, stored_)
            below == Shadowed(set.files, set.runtime)
<1>1. n \notin DOMAIN set.files /\ n \notin DOMAIN set.runtime
  BY DEF OriginOf
<1>2. /\ DOMAIN set.files \subseteq DOMAIN build.packaged
      /\ DOMAIN set.runtime \subseteq DOMAIN build.packaged
  BY DEF PromptSet, Known, Restrict
<1>. HIDE DEF set
<1>3. DOMAIN below = DOMAIN set.files \union DOMAIN set.runtime
  BY DEF Shadowed
<1>. HIDE DEF below
<1>4. EffectiveOf(set) = Shadowed(build.packaged, below)
  BY DEF EffectiveOf, below
<1>5. DOMAIN EffectiveOf(set) = DOMAIN build.packaged
  BY <1>2, <1>3, <1>4 DEF Shadowed
<1>6. n \in DOMAIN build.packaged => EffectiveOf(set)[n] = build.packaged[n]
  BY <1>1, <1>3, <1>4 DEF Shadowed
<1>7. n \in Broken(build, EffectiveOf(set))
  BY DEF set
<1> QED
  BY <1>5, <1>6, <1>7 DEF Broken

\* What has been read of the files are templates over packaged ones: the build
\* changes with the process, and with it goes what it has read.
ReadIsKnown ==
  /\ reading = [r \in Reader |-> reading[r]]
  /\ \A r \in Reader : DOMAIN reading[r].files \subseteq DOMAIN build.packaged

BootInv == ReadIsKnown /\ TextsNeverStopTheBoot

LEMMA NothingReadIs ==
  /\ DOMAIN NoReading.files = {} /\ NoReading.ok /\ NoReading.at = "none"
  /\ \A r \in Reader, ok \in BOOLEAN : DOMAIN ([NoReading EXCEPT !.ok = ok]).files = {}
BY DEF NoReading, NoTemplates

LEMMA ReadStaysKnown == ReadIsKnown /\ [PromptsNext]_promptVars => ReadIsKnown'
<1> SUFFICES ASSUME ReadIsKnown, [PromptsNext]_promptVars PROVE ReadIsKnown'
  OBVIOUS
<1>1. CASE StopAndUpgrade
  BY <1>1, NothingReadIs DEF StopAndUpgrade, ReadIsKnown
<1>2. ASSUME NEW r \in Reader, ReadFiles(r) PROVE ReadIsKnown'
  <2>1. DOMAIN Known(build, files) \subseteq DOMAIN build.packaged
    BY DEF Known, Restrict
  <2>2. /\ reading'[r].files = Known(build, files) /\ build' = build
        /\ reading' = [q \in Reader |-> reading'[q]]
        /\ \A q \in Reader : q # r => reading'[q] = reading[q]
    BY <1>2 DEF ReadFiles, ReadIsKnown, NoReading
  <2>3. \A q \in Reader : DOMAIN reading'[q].files \subseteq DOMAIN build'.packaged
    BY <2>1, <2>2 DEF ReadIsKnown
  <2> QED
    BY <2>2, <2>3 DEF ReadIsKnown
<1>3. ASSUME NEW r \in Reader, NEW new, DOMAIN new.files = {}, build' = build,
             reading' = [reading EXCEPT ![r] = new]
      PROVE  ReadIsKnown'
  <2>1. /\ DOMAIN reading'[r].files = {} /\ reading' = [q \in Reader |-> reading'[q]]
        /\ \A q \in Reader : q # r => reading'[q] = reading[q]
    BY <1>3 DEF ReadIsKnown
  <2>2. \A q \in Reader : DOMAIN reading'[q].files \subseteq DOMAIN build'.packaged
    BY <1>3, <2>1 DEF ReadIsKnown
  <2> QED
    BY <2>1, <2>2 DEF ReadIsKnown
<1>5. ASSUME NEW r \in Reader, FilesFail(r) PROVE ReadIsKnown'
  BY <1>3, <1>5, NothingReadIs DEF FilesFail
<1>6. CASE CheckPrompts \/ ValidateEdit
  BY <1>3, <1>6, NothingReadIs DEF CheckPrompts, ValidateEdit, Reader
<1>7. CASE ReadRuntime
  <2>1. PICK ok \in BOOLEAN : reading' = [reading EXCEPT !["run"] = [NoReading EXCEPT !.ok = ok]]
    BY <1>7 DEF ReadRuntime
  <2>2. build' = build
    BY <1>7 DEF ReadRuntime
  <2> QED
    BY <1>3, <2>1, <2>2, NothingReadIs DEF Reader
<1>8. CASE \/ Start \/ PutPrompt \/ WriteEdit \/ ResetPrompt \/ EditFile \/ UNCHANGED promptVars
  BY <1>8 DEF Start, PutPrompt, WriteEdit, ResetPrompt, EditFile, promptVars, ReadIsKnown
<1> QED
  BY <1>1, <1>2, <1>5, <1>6, <1>7, <1>8 DEF PromptsNext

\* A boot is refused only by a build whose own templates do not pass its own
\* check, or by a mounted file that could not be read (check_module_prompts in
\* main.py), whatever texts are stored or in files.
THEOREM BootsDespiteOverrides == PromptsSpec => []TextsNeverStopTheBoot
<1>1. PromptsInit => BootInv
  BY NothingReadIs DEF PromptsInit, BootInv, ReadIsKnown, TextsNeverStopTheBoot
<1>2. BootInv /\ [PromptsNext]_promptVars => BootInv'
  <2> SUFFICES ASSUME BootInv, [PromptsNext]_promptVars PROVE TextsNeverStopTheBoot'
    BY ReadStaysKnown DEF BootInv
  <2> SUFFICES ASSUME service' = "refused", reading'["boot"].ok
               PROVE  Broken(build, build.packaged)' # {}
    BY DEF TextsNeverStopTheBoot
  <2>1. CASE CheckPrompts
    <3>1. PICK stored_ \in Hgetall :
            \E n \in Broken(build, EffectiveOf(PromptSet(reading["boot"].files, stored_))) :
              OriginOf(PromptSet(reading["boot"].files, stored_), n) = "default"
      BY <2>1 DEF CheckPrompts
    <3>2. DOMAIN reading["boot"].files \subseteq DOMAIN build.packaged
      BY DEF BootInv, ReadIsKnown, Reader
    <3>3. Broken(build, build.packaged) # {}
      BY <3>1, <3>2, OursIsOurs
    <3> QED
      BY <2>1, <3>3 DEF CheckPrompts, Broken
  <2>2. ASSUME NEW r \in Reader, FilesFail(r), r = "boot" PROVE FALSE
    BY <2>2 DEF FilesFail, NoReading, BootInv, ReadIsKnown
  <2>3. CASE \/ \E r \in Reader : ReadFiles(r) \/ (FilesFail(r) /\ r # "boot")
             \/ Start \/ StopAndUpgrade \/ PutPrompt \/ ValidateEdit \/ WriteEdit
             \/ ResetPrompt \/ EditFile \/ ReadRuntime \/ UNCHANGED promptVars
    <3>1. service = "refused" /\ build' = build
      BY <2>3 DEF promptVars, Start, StopAndUpgrade, PutPrompt, ValidateEdit,
        WriteEdit, ResetPrompt, EditFile, ReadFiles, FilesFail, ReadRuntime
    <3>2. \A r \in Reader : ~(ReadFiles(r) /\ r = "boot")
      BY <3>1 DEF ReadFiles, Wants
    <3>3. reading["boot"].ok
      <4>1. reading'["boot"] = reading["boot"]
        BY <2>3, <3>1, <3>2 DEF promptVars, Start, StopAndUpgrade, PutPrompt, ValidateEdit,
          WriteEdit, ResetPrompt, EditFile, ReadFiles, FilesFail, ReadRuntime, BootInv,
          ReadIsKnown, Reader
      <4> QED
        BY <4>1
    <3> QED
      BY <3>1, <3>3 DEF BootInv, TextsNeverStopTheBoot, Broken
  <2> QED
    BY <2>1, <2>2, <2>3 DEF PromptsNext
<1>3. BootInv => TextsNeverStopTheBoot
  BY DEF BootInv
<1> QED
  BY <1>1, <1>2, <1>3, PTL DEF PromptsSpec

\* The types.

PromptsTypes ==
  /\ PromptsTypeOK
  /\ edit = [at |-> edit.at, name |-> edit.name, text |-> edit.text]
  /\ edit.at # "none" => edit.name \in Name /\ edit.text \in Text

Readings == [at : {"none", "runtime"}, files : Templates, ok : BOOLEAN]

USE PromptsAssumption

LEMMA TemplatesAre == \A t : t \in Templates <=> \E N \in SUBSET Name : t \in [N -> Text]
BY DEF Templates

LEMMA NoTemplatesIs == NoTemplates \in Templates
<1>1. NoTemplates \in [{} -> Text]
  BY DEF NoTemplates
<1> QED
  BY <1>1, TemplatesAre

LEMMA NoReadingIs ==
  NoReading \in Readings /\ \A ok \in BOOLEAN : [NoReading EXCEPT !.ok = ok] \in Readings
BY NoTemplatesIs DEF NoReading, Readings

\* One text is a template; so is what one layer leaves of another, and what is
\* restricted to some names.
LEMMA LayersAre ==
  ASSUME NEW below \in Templates, NEW above \in Templates
  PROVE  Shadowed(below, above) \in Templates
<1>1. PICK M \in SUBSET Name : below \in [M -> Text]
  BY TemplatesAre
<1>2. PICK N \in SUBSET Name : above \in [N -> Text]
  BY TemplatesAre
<1>3. Shadowed(below, above) \in [M \union N -> Text]
  BY <1>1, <1>2 DEF Shadowed
<1> QED
  BY <1>3, TemplatesAre

LEMMA RestrictionsAre ==
  ASSUME NEW t \in Templates, NEW S
  PROVE  Restrict(t, DOMAIN t \intersect S) \in Templates /\ Restrict(t, DOMAIN t \ S) \in Templates
<1>1. PICK M \in SUBSET Name : t \in [M -> Text]
  BY TemplatesAre
<1>2. /\ Restrict(t, DOMAIN t \intersect S) \in [M \intersect S -> Text]
      /\ Restrict(t, DOMAIN t \ S) \in [M \ S -> Text]
  BY <1>1 DEF Restrict
<1> QED
  BY <1>2, TemplatesAre

LEMMA SingleIs == \A n \in Name, t \in Text : [x \in {n} |-> t] \in Templates
<1> SUFFICES ASSUME NEW n \in Name, NEW t \in Text PROVE [x \in {n} |-> t] \in Templates
  OBVIOUS
<1>1. [x \in {n} |-> t] \in [{n} -> Text]
  OBVIOUS
<1> QED
  BY <1>1, TemplatesAre

LEMMA StoredAre ==
  ASSUME PromptsTypes, NEW stored_ \in Hgetall
  PROVE  stored_ \in Templates /\ (Failed(stored_) => edits' \in 0 .. MaxEdits)
<1>1. stored_ # runtime => edits < MaxEdits /\ stored_ = NoTemplates
  BY DEF Hgetall
<1>2. stored_ \in Templates
  BY <1>1, NoTemplatesIs DEF PromptsTypes, PromptsTypeOK
<1>3. edits \in 0 .. MaxEdits
  BY DEF PromptsTypes, PromptsTypeOK
<1> QED
  BY <1>1, <1>2, <1>3 DEF Failed

LEMMA KnownAre ==
  ASSUME PromptsTypes, NEW t \in Templates PROVE Known(build, t) \in Templates
BY RestrictionsAre DEF Known

LEMMA InitPromptsTypes == PromptsInit => PromptsTypes
<1> SUFFICES ASSUME PromptsInit PROVE PromptsTypes
  OBVIOUS
<1>1. edits \in 0 .. MaxEdits
  BY DEF PromptsInit
<1>2. reading \in [Reader -> Readings]
  BY NoReadingIs DEF PromptsInit
<1> QED
  BY <1>1, <1>2, NoTemplatesIs DEF PromptsInit, PromptsTypes, PromptsTypeOK, NoEdit, Readings

LEMMA PromptsStep == PromptsTypes /\ [PromptsNext]_promptVars => PromptsTypes'
<1> SUFFICES ASSUME PromptsTypes, [PromptsNext]_promptVars PROVE PromptsTypes'
  OBVIOUS
<1>1. /\ build \in Builds /\ files \in Templates /\ runtime \in Templates
      /\ service \in {"down", "starting", "up", "refused"}
      /\ edit.at \in {"none", "read", "write"}
      /\ reading \in [Reader -> Readings] /\ unreadable \subseteq Name
      /\ edits \in 0 .. MaxEdits
      /\ edit = [at |-> edit.at, name |-> edit.name, text |-> edit.text]
      /\ edit.at # "none" => edit.name \in Name /\ edit.text \in Text
  BY DEF PromptsTypes, PromptsTypeOK, Readings
<1>2. edits < MaxEdits /\ edits' = edits + 1 => edits' \in 0 .. MaxEdits
  BY <1>1
<1>3. /\ NoEdit.at = "none" /\ NoEdit = [at |-> NoEdit.at, name |-> NoEdit.name, text |-> NoEdit.text]
      /\ NoReading \in Readings
      /\ \A r \in Reader, new \in Readings : [reading EXCEPT ![r] = new] \in [Reader -> Readings]
  BY <1>1, NoReadingIs DEF NoEdit
<1>4. CASE UNCHANGED promptVars
  BY <1>1, <1>4 DEF promptVars, PromptsTypes, PromptsTypeOK, Readings
<1>5. CASE Start
  BY <1>1, <1>5 DEF Start, PromptsTypes, PromptsTypeOK, Readings
<1>6. CASE CheckPrompts
  <2>1. edits' \in 0 .. MaxEdits
    BY <1>6, StoredAre DEF CheckPrompts
  <2>2. reading' \in [Reader -> Readings]
    BY <1>3, <1>6 DEF CheckPrompts, Reader
  <2> QED
    BY <1>1, <1>6, <2>1, <2>2 DEF CheckPrompts, PromptsTypes, PromptsTypeOK, Readings
<1>7. CASE StopAndUpgrade
  BY <1>1, <1>2, <1>3, <1>7 DEF StopAndUpgrade, PromptsTypes, PromptsTypeOK, Readings
<1>8. CASE PutPrompt
  <2>1. /\ edit'.at = "read" /\ edit'.name \in Name /\ edit'.text \in Text
        /\ edit' = [at |-> edit'.at, name |-> edit'.name, text |-> edit'.text]
    BY <1>8 DEF PutPrompt
  <2> QED
    BY <1>1, <1>2, <1>8, <2>1 DEF PutPrompt, PromptsTypes, PromptsTypeOK, Readings
<1>9. CASE ValidateEdit
  <2>1. edits' \in 0 .. MaxEdits
    BY <1>9, StoredAre DEF ValidateEdit
  <2>2. edit' \in {[edit EXCEPT !.at = "write"], NoEdit} /\ edit.at = "read"
    BY <1>9 DEF ValidateEdit
  <2>3. /\ edit'.at \in {"none", "write"} /\ (edit'.at # "none" => edit'.name \in Name /\ edit'.text \in Text)
        /\ edit' = [at |-> edit'.at, name |-> edit'.name, text |-> edit'.text]
    BY <1>1, <1>3, <2>2
  <2>4. reading' \in [Reader -> Readings]
    BY <1>3, <1>9 DEF ValidateEdit, Reader
  <2> QED
    BY <1>1, <1>9, <2>1, <2>3, <2>4 DEF ValidateEdit, PromptsTypes, PromptsTypeOK, Readings
<1>10. CASE WriteEdit
  <2>1. runtime' \in Templates
    BY <1>1, <1>10, LayersAre, SingleIs DEF WriteEdit
  <2> QED
    BY <1>1, <1>3, <1>10, <2>1 DEF WriteEdit, PromptsTypes, PromptsTypeOK, Readings
<1>11. CASE ResetPrompt
  <2>1. runtime' \in Templates
    BY <1>1, <1>11, RestrictionsAre DEF ResetPrompt
  <2> QED
    BY <1>1, <1>2, <1>11, <2>1 DEF ResetPrompt, PromptsTypes, PromptsTypeOK, Readings
<1>12. CASE EditFile
  <2>1. files' \in Templates /\ unreadable' \subseteq Name
    BY <1>1, <1>12, LayersAre, SingleIs, RestrictionsAre DEF EditFile
  <2> QED
    BY <1>1, <1>2, <1>12, <2>1 DEF EditFile, PromptsTypes, PromptsTypeOK, Readings
<1>13. ASSUME NEW r \in Reader, ReadFiles(r) PROVE PromptsTypes'
  <2>1. [NoReading EXCEPT !.at = "runtime", !.files = Known(build, files)] \in Readings
    BY <1>1, KnownAre DEF Readings, NoReading
  <2>2. reading' \in [Reader -> Readings]
    BY <1>3, <1>13, <2>1 DEF ReadFiles
  <2> QED
    BY <1>1, <1>13, <2>2 DEF ReadFiles, PromptsTypes, PromptsTypeOK, Readings
<1>14. CASE ReadRuntime
  <2>1. edits' \in 0 .. MaxEdits
    BY <1>14, StoredAre DEF ReadRuntime
  <2>2. PICK ok \in BOOLEAN : reading' = [reading EXCEPT !["run"] = [NoReading EXCEPT !.ok = ok]]
    BY <1>14 DEF ReadRuntime
  <2>3. reading' \in [Reader -> Readings]
    BY <1>3, <2>2, NoReadingIs DEF Reader
  <2> QED
    BY <1>1, <1>14, <2>1, <2>3 DEF ReadRuntime, PromptsTypes, PromptsTypeOK, Readings
<1>15. ASSUME NEW r \in Reader, FilesFail(r) PROVE PromptsTypes'
  <2>1. reading' \in [Reader -> Readings]
    BY <1>3, <1>15, NoReadingIs DEF FilesFail
  <2>2. service' \in {"refused", service} /\ edit' \in {NoEdit, edit}
    BY <1>15 DEF FilesFail
  <2> QED
    BY <1>1, <1>3, <1>15, <2>1, <2>2 DEF FilesFail, PromptsTypes, PromptsTypeOK, Readings
<1> QED
  BY <1>4, <1>5, <1>6, <1>7, <1>8, <1>9, <1>10, <1>11, <1>12, <1>13, <1>14, <1>15
     DEF PromptsNext

\* The layers stay templates: functions from names to texts.
THEOREM PromptsTyped == PromptsSpec => []PromptsTypeOK
<1>1. PromptsTypes => PromptsTypeOK
  BY DEF PromptsTypes
<1> QED
  BY <1>1, InitPromptsTypes, PromptsStep, PTL DEF PromptsSpec

-----------------------------------------------------------------------------
(* The settings. *)

RequestFields == {"at", "kind", "section", "body", "todo", "before", "after", "incomplete",
                  "values", "missed"}
Shaped(r) == DOMAIN r = RequestFields /\ r = [k \in RequestFields |-> r[k]]

\* What a request is about to write is what it names, and for the rest the
\* section as it is now, but for what it has missed.
Redoes(r) ==
  /\ \A f \in FieldsOf[r.section] :
       /\ f \in DOMAIN r.body => Over(Defaults(r.section), r.values)[f] = r.body[f]
       /\ r.kind # "put" /\ f \notin DOMAIN r.body \union r.missed
            => Over(Defaults(r.section), r.values)[f] = Effective(r.section)[f]
  /\ r.kind = "put" => FieldsOf[r.section] \subseteq DOMAIN r.body

Pending(r) ==
  /\ r.at # "none" => r.section \in Section
  /\ r.kind = "reset" => \A f \in DOMAIN r.body : r.body[f] = Default
  /\ r.at = "write" => Redoes(r)

\* The inductive invariant.
SettingsInv ==
  /\ stored = [s \in Section |-> stored[s]]
  /\ expected = [s \in Section |-> [f \in FieldsOf[s] |-> expected[s][f]]]
  /\ undone = [s \in Section |-> undone[s]]
  /\ request = [h \in Request |-> request[h]]
  /\ \A h \in Request : Shaped(request[h]) /\ Pending(request[h])
  /\ EditsStand

LEMMA NoRequestIs == Shaped(NoRequest) /\ Pending(NoRequest) /\ NoRequest.at = "none"
BY DEF NoRequest, Shaped, RequestFields, Pending

LEMMA InitSettings == SettingsInit => SettingsInv
<1> SUFFICES ASSUME SettingsInit PROVE SettingsInv
  OBVIOUS
<1>1. \A s \in Section : Over(Defaults(s), NoOverride) = Defaults(s)
  BY DEF Over, Defaults, NoOverride
<1>2. EditsStand /\ expected = [s \in Section |-> [f \in FieldsOf[s] |-> expected[s][f]]]
  BY <1>1 DEF SettingsInit, EditsStand, Effective, Defaults
<1>3. \A h \in Request : Shaped(request[h]) /\ Pending(request[h])
  BY NoRequestIs DEF SettingsInit
<1> QED
  BY <1>2, <1>3 DEF SettingsInit, SettingsInv

\* One request becomes what is well formed, and no section is written.
LEMMA RequestGoesOn ==
  ASSUME SettingsInv, NEW h \in Request, NEW r, Shaped(r), Pending(r),
         Asks(h, r), stored' = stored
  PROVE  /\ request' = [g \in Request |-> request'[g]]
         /\ \A g \in Request : (Shaped(request[g]) /\ Pending(request[g]))'
<1>1. /\ request' = [g \in Request |-> request'[g]]
      /\ request'[h] = r /\ \A g \in Request : g # h => request'[g] = request[g]
  BY DEF SettingsInv, Asks
<1>2. \A g \in Request : Shaped(request'[g]) /\ Pending(request'[g])
  BY <1>1 DEF SettingsInv
<1>3. \A g \in Request : Pending(request'[g]) => Pending(request[g])'
  BY DEF Effective, Pending, Redoes
<1>4. \A g \in Request : Shaped(request'[g]) => Shaped(request[g])'
  BY DEF Shaped, RequestFields
<1> QED
  BY <1>1, <1>2, <1>3, <1>4

\* So with the edits as they were.
LEMMA RequestMoves ==
  ASSUME SettingsInv, NEW h \in Request, NEW r, Shaped(r), Pending(r),
         Asks(h, r), UNCHANGED <<stored, promised>>
  PROVE  SettingsInv'
<1>1. /\ request' = [g \in Request |-> request'[g]]
      /\ \A g \in Request : (Shaped(request[g]) /\ Pending(request[g]))'
  BY RequestGoesOn
<1>2. EditsStand'
  BY DEF SettingsInv, EditsStand, Effective, promised
<1> QED
  BY <1>1, <1>2 DEF SettingsInv, promised

LEMMA ArrivalSafe ==
  ASSUME SettingsInv, NEW h \in Request, Patch(h) \/ Put(h) \/ ResetFields(h) \/ ResetSection(h)
  PROVE  SettingsInv'
<1>1. \E r : Asks(h, r) /\ Shaped(r) /\ Pending(r)
  <2>1. CASE Patch(h)
    <3>1. PICK s \in Section, f \in UNION {FieldsOf[t] : t \in Section}, v \in Value :
            Asks(h, [NoRequest EXCEPT !.at = IF s \in Gates THEN "before" ELSE "current",
                                      !.kind = "patch", !.section = s, !.body = [x \in {f} |-> v],
                                      !.todo = IF s \in Gates THEN Gates ELSE {}])
      BY ZenonT(30), <2>1 DEF Patch, Arrives
    <3>. DEFINE at == IF s \in Gates THEN "before" ELSE "current"
                todo == IF s \in Gates THEN Gates ELSE {}
                r == [NoRequest EXCEPT !.at = at, !.kind = "patch", !.section = s,
                                       !.body = [x \in {f} |-> v], !.todo = todo]
    <3>2. Asks(h, r) /\ at \in {"before", "current"}
      BY <3>1
    <3>. HIDE DEF at, todo
    <3>3. Shaped(r) /\ r.section = s /\ r.kind = "patch" /\ r.at = at
      BY DEF NoRequest, Shaped, RequestFields
    <3>. HIDE DEF r
    <3>4. Pending(r)
      BY <3>1, <3>2, <3>3 DEF Pending
    <3> QED
      BY <3>2, <3>3, <3>4
  <2>2. CASE Put(h)
    <3>0. Wholesale \subseteq Section
      BY SettingsAssumption
    <3>1. PICK s \in Section : \E config \in Configs(s) :
            Asks(h, [NoRequest EXCEPT !.at = "write", !.kind = "put", !.section = s,
                                      !.body = config, !.values = config])
      BY <2>2, <3>0 DEF Put, Arrives
    <3>4. PICK config \in Configs(s) :
            Asks(h, [NoRequest EXCEPT !.at = "write", !.kind = "put", !.section = s,
                                      !.body = config, !.values = config])
      BY <3>1
    <3>. DEFINE r == [NoRequest EXCEPT !.at = "write", !.kind = "put", !.section = s,
                                       !.body = config, !.values = config]
    <3>2. /\ Shaped(r) /\ r.section = s /\ r.kind = "put" /\ r.at = "write"
          /\ r.body = config /\ r.values = config
      BY DEF NoRequest, Shaped, RequestFields
    <3>. HIDE DEF r
    <3>3. Pending(r)
      BY <3>2 DEF Pending, Redoes, Configs, Over, Defaults
    <3> QED
      BY <3>2, <3>3, <3>4 DEF r
  <2>3. CASE ResetFields(h)
    <3>1. PICK s, f :
            s \in Section /\ Asks(h, [NoRequest EXCEPT !.at = "current", !.kind = "reset",
                                                       !.section = s, !.body = [x \in {f} |-> Default]])
      BY <2>3 DEF ResetFields, Arrives
    <3>. DEFINE r == [NoRequest EXCEPT !.at = "current", !.kind = "reset", !.section = s,
                                       !.body = [x \in {f} |-> Default]]
    <3>2. /\ Shaped(r) /\ r.section = s /\ r.kind = "reset" /\ r.at = "current"
          /\ r.body = [x \in {f} |-> Default]
      BY DEF NoRequest, Shaped, RequestFields
    <3>. HIDE DEF r
    <3>3. Pending(r)
      BY <3>1, <3>2 DEF Pending
    <3> QED
      BY <3>1, <3>2, <3>3 DEF r
  <2>4. CASE ResetSection(h)
    <3>1. PICK s \in Section :
            Asks(h, [NoRequest EXCEPT !.at = "write", !.kind = "put", !.section = s,
                                      !.body = Defaults(s), !.values = NoOverride])
      BY <2>4 DEF ResetSection, Arrives
    <3>. DEFINE r == [NoRequest EXCEPT !.at = "write", !.kind = "put", !.section = s,
                                       !.body = Defaults(s), !.values = NoOverride]
    <3>2. /\ Shaped(r) /\ r.section = s /\ r.kind = "put" /\ r.at = "write"
          /\ r.body = Defaults(s) /\ r.values = NoOverride
      BY DEF NoRequest, Shaped, RequestFields
    <3>. HIDE DEF r
    <3>3. Over(Defaults(s), NoOverride) = Defaults(s) /\ DOMAIN Defaults(s) = FieldsOf[s]
      BY DEF Over, Defaults, NoOverride
    <3>4. Pending(r)
      BY <3>1, <3>2, <3>3 DEF Pending, Redoes
    <3> QED
      BY <3>1, <3>2, <3>4 DEF r
  <2> QED
    BY <2>1, <2>2, <2>3, <2>4
<1>2. UNCHANGED <<stored, promised>>
  BY DEF Patch, Put, ResetFields, ResetSection, Arrives, ghosts
<1> QED
  BY <1>1, <1>2, RequestMoves

\* A request that only changes what it has seen of the gates is as well formed
\* as before.
LEMMA GatesOnly ==
  ASSUME NEW q, Shaped(q), Pending(q), NEW r, Shaped(r),
         r.section = q.section, r.kind = q.kind, r.body = q.body,
         r.at \in {"before", "current", "after", "note"}, q.at # "none"
  PROVE  Pending(r)
BY DEF Pending

LEMMA GatesSafe ==
  ASSUME SettingsInv, NEW h \in Request,
         ReadGate(h) \/ KnowsBefore(h) \/ KnowsAfter(h) \/ Note(h) \/ WriteFails(h)
  PROVE  SettingsInv'
<1>. DEFINE q == request[h]
<1>1. Shaped(q) /\ Pending(q)
  BY DEF SettingsInv
<1>2. UNCHANGED <<stored, promised>>
  BY DEF ReadGate, KnowsBefore, KnowsAfter, Note, WriteFails, ghosts
<1>3. \E r : Asks(h, r) /\ Shaped(r) /\ Pending(r)
  <2>1. CASE ReadGate(h)
    <3>1. PICK todo, seen :
            \/ q.at = "before" /\ Asks(h, [q EXCEPT !.todo = todo, !.before = seen])
            \/ q.at = "after" /\ Asks(h, [q EXCEPT !.todo = todo, !.after = seen])
      BY <2>1 DEF ReadGate
    <3>. DEFINE r == [q EXCEPT !.todo = todo, !.before = seen]
                t == [q EXCEPT !.todo = todo, !.after = seen]
    <3>2. /\ Shaped(r) /\ r.section = q.section /\ r.kind = q.kind /\ r.body = q.body /\ r.at = q.at
          /\ Shaped(t) /\ t.section = q.section /\ t.kind = q.kind /\ t.body = q.body /\ t.at = q.at
      BY <1>1 DEF Shaped, RequestFields
    <3>. HIDE DEF r, t, q
    <3>3. Pending(r) /\ Pending(t)
      BY <1>1, <3>1, <3>2, GatesOnly
    <3> QED
      BY <3>1, <3>2, <3>3 DEF r, t
  <2>2. CASE KnowsBefore(h)
    <3>. DEFINE r == [q EXCEPT !.at = "current", !.incomplete = q.before # Gates]
    <3>1. Asks(h, r) /\ q.at = "before"
      BY <2>2 DEF KnowsBefore
    <3>2. Shaped(r) /\ r.section = q.section /\ r.kind = q.kind /\ r.body = q.body /\ r.at = "current"
      BY <1>1 DEF Shaped, RequestFields
    <3>. HIDE DEF r, q
    <3> QED
      BY <1>1, <3>1, <3>2, GatesOnly
  <2>3. CASE KnowsAfter(h) /\ Finishes(h)
    <3>. DEFINE r == [q EXCEPT !.at = "note"]
    <3>1. Asks(h, r) /\ q.at = "after"
      BY <2>3 DEF KnowsAfter
    <3>2. Shaped(r) /\ r.section = q.section /\ r.kind = q.kind /\ r.body = q.body /\ r.at = "note"
      BY <1>1 DEF Shaped, RequestFields
    <3>. HIDE DEF r, q
    <3> QED
      BY <1>1, <3>1, <3>2, GatesOnly
  <2>4. CASE (KnowsAfter(h) /\ ~Finishes(h)) \/ Note(h) \/ WriteFails(h)
    BY <2>4, NoRequestIs DEF KnowsAfter, Note, WriteFails
  <2> QED
    BY <2>1, <2>2, <2>3, <2>4
<1> QED
  BY <1>2, <1>3, RequestMoves

LEMMA ReadSafe ==
  ASSUME SettingsInv, NEW h \in Request,
         ReadCurrent(h) \/ (ReadStored(h) /\ stored[request[h].section] # NoOverride)
  PROVE  SettingsInv'
<1>. DEFINE q == request[h]
            s == q.section
<1>1. Shaped(q) /\ Pending(q) /\ q.at = "current"
  BY DEF SettingsInv, ReadCurrent, ReadStored
<1>2. s \in Section
  BY <1>1 DEF Pending
<1>3. UNCHANGED <<stored, promised>>
  BY DEF ReadCurrent, ReadStored, ghosts
<1>4. \E r : Asks(h, r) /\ Shaped(r) /\ Pending(r)
  <2>1. CASE Asks(h, NoRequest)
    BY <2>1, NoRequestIs
  <2>2. CASE ReadCurrent(h) /\ ~Asks(h, NoRequest)
    <3>1. PICK answer \in Answers(s) :
            Asks(h, [q EXCEPT !.at = "write", !.values = Merged(answer, h),
                              !.missed = Differing(answer, Effective(s))])
      BY <2>2 DEF ReadCurrent
    <3>. DEFINE r == [q EXCEPT !.at = "write", !.values = Merged(answer, h),
                               !.missed = Differing(answer, Effective(s))]
    <3>2. /\ Shaped(r) /\ r.section = s /\ r.kind = q.kind /\ r.body = q.body /\ r.at = "write"
          /\ r.values = Over(answer, q.body) /\ r.missed = Differing(answer, Effective(s))
      BY <1>1 DEF Shaped, RequestFields, Merged
    <3>3. q.kind = "patch"
      BY <2>2 DEF ReadCurrent
    <3>4. DOMAIN answer = FieldsOf[s]
      BY DEF Answers, Effective, Over, Defaults
    <3>5. \A f \in FieldsOf[s] :
            Over(Defaults(s), Over(answer, q.body))[f]
            = IF f \in DOMAIN q.body THEN q.body[f] ELSE answer[f]
      BY <3>4 DEF Over, Defaults
    <3>6. \A f \in FieldsOf[s] : f \notin Differing(answer, Effective(s)) => answer[f] = Effective(s)[f]
      BY <3>4 DEF Differing
    <3>. HIDE DEF r, q, s
    <3>7. Redoes(r)
      BY <3>2, <3>3, <3>5, <3>6 DEF Redoes
    <3>8. Pending(r)
      BY <1>2, <3>2, <3>3, <3>7 DEF Pending
    <3> QED
      BY <3>1, <3>2, <3>8 DEF r
  <2>3. CASE ReadStored(h) /\ stored[s] # NoOverride
    <3>. DEFINE left == Restrict(stored[s], DOMAIN stored[s] \ DOMAIN q.body)
                r == [q EXCEPT !.at = "write", !.values = left]
    <3>1. Asks(h, r) /\ q.kind = "reset"
      BY <2>3 DEF ReadStored
    <3>2. /\ Shaped(r) /\ r.section = s /\ r.kind = q.kind /\ r.body = q.body /\ r.at = "write"
          /\ r.values = left
      BY <1>1 DEF Shaped, RequestFields
    <3>3. \A f \in DOMAIN q.body : q.body[f] = Default
      BY <1>1, <3>1 DEF Pending
    <3>4. /\ DOMAIN left = DOMAIN stored[s] \ DOMAIN q.body
          /\ \A f \in DOMAIN left : left[f] = stored[s][f]
      BY DEF Restrict
    <3>. HIDE DEF left
    <3>5. \A f \in FieldsOf[s] :
            Over(Defaults(s), left)[f] = IF f \in DOMAIN q.body THEN q.body[f] ELSE Effective(s)[f]
      BY <3>3, <3>4 DEF Over, Effective, Defaults
    <3>. HIDE DEF r, q, s
    <3>6. Redoes(r)
      BY <3>1, <3>2, <3>5 DEF Redoes
    <3>7. Pending(r)
      BY <1>2, <3>1, <3>2, <3>3, <3>6 DEF Pending
    <3> QED
      BY <3>1, <3>2, <3>7
  <2> QED
    BY <2>1, <2>2, <2>3
<1> QED
  BY <1>3, <1>4, RequestMoves

\* What a request is answered for: its section becomes what it was about to
\* write, and stays known but for what it missed.
LEMMA AnswerStands ==
  ASSUME SettingsInv, NEW h \in Request, NEW s \in Section, s = request[h].section, RequestAnswered(h),
         \A t \in Section : t # s => stored'[t] = stored[t],
         NEW put \in BOOLEAN,
         put => FieldsOf[s] \subseteq DOMAIN request[h].body,
         \A f \in FieldsOf[s] :
           /\ f \in DOMAIN request[h].body
                => Over(Defaults(s), stored'[s])[f] = request[h].body[f]
           /\ ~put /\ f \notin DOMAIN request[h].body \union request[h].missed
                => Over(Defaults(s), stored'[s])[f] = Effective(s)[f]
  PROVE  /\ expected' = [t \in Section |-> [f \in FieldsOf[t] |-> expected'[t][f]]]
         /\ undone' = [t \in Section |-> undone'[t]]
         /\ EditsStand'
<1>. DEFINE body == request[h].body
            missed == request[h].missed
<1>1. /\ expected' = [expected EXCEPT ![s] = Over(expected[s], body)]
      /\ undone' = [undone EXCEPT ![s] = (undone[s] \union missed) \ DOMAIN body]
  BY DEF RequestAnswered
<1>2. /\ expected = [t \in Section |-> [f \in FieldsOf[t] |-> expected[t][f]]]
      /\ undone = [t \in Section |-> undone[t]]
  BY DEF SettingsInv
<1>. HIDE DEF body, missed
<1>3. /\ expected'[s] = Over(expected[s], body)
      /\ undone'[s] = (undone[s] \union missed) \ DOMAIN body
      /\ \A t \in Section : t # s => expected'[t] = expected[t] /\ undone'[t] = undone[t]
      /\ undone' = [t \in Section |-> undone'[t]]
      /\ expected' = [t \in Section |-> expected'[t]]
  BY <1>1, <1>2
<1>4. \A t \in Section : expected[t] = [f \in FieldsOf[t] |-> expected[t][f]]
  BY <1>2
<1>5. /\ expected'[s] = [f \in FieldsOf[s] |-> expected'[s][f]]
      /\ \A f \in FieldsOf[s] :
           expected'[s][f] = IF f \in DOMAIN body THEN body[f] ELSE expected[s][f]
  BY <1>3, <1>4 DEF Over
<1>6. \A t \in Section : expected'[t] = [f \in FieldsOf[t] |-> expected'[t][f]]
  BY <1>3, <1>4, <1>5
<1>7. expected' = [t \in Section |-> [f \in FieldsOf[t] |-> expected'[t][f]]]
  BY <1>3, <1>6
<1>8. \A f \in FieldsOf[s] \ undone'[s] : Over(Defaults(s), stored'[s])[f] = expected'[s][f]
  <2>1. \A f \in FieldsOf[s] \ undone[s] : Effective(s)[f] = expected[s][f]
    BY DEF SettingsInv, EditsStand
  <2> SUFFICES ASSUME NEW f \in FieldsOf[s] \ undone'[s]
               PROVE  Over(Defaults(s), stored'[s])[f] = expected'[s][f]
    OBVIOUS
  <2>2. CASE f \in DOMAIN body
    BY <1>5, <2>2 DEF body
  <2>3. CASE f \notin DOMAIN body
    <3>1. f \notin undone[s] /\ f \notin missed /\ ~put
      BY <1>3, <2>3 DEF body
    <3>2. Over(Defaults(s), stored'[s])[f] = Effective(s)[f]
      BY <2>3, <3>1 DEF body, missed
    <3> QED
      BY <1>5, <2>1, <2>3, <3>1, <3>2
  <2> QED
    BY <2>2, <2>3
<1>9. \A t \in Section : t # s =>
        /\ Over(Defaults(t), stored'[t]) = Effective(t)
        /\ \A f \in FieldsOf[t] \ undone[t] : Effective(t)[f] = expected[t][f]
  BY DEF SettingsInv, EditsStand, Effective
<1>10. EditsStand'
  <2> SUFFICES ASSUME NEW t \in Section, NEW f \in FieldsOf[t] \ undone'[t]
               PROVE  Over(Defaults(t), stored'[t])[f] = expected'[t][f]
    BY DEF EditsStand, Effective, Over, Defaults
  <2>1. CASE t = s
    BY <1>8, <2>1
  <2>2. CASE t # s
    BY <1>3, <1>9, <2>2
  <2> QED
    BY <2>1, <2>2
<1> QED
  BY <1>3, <1>7, <1>10

\* A reset that finds nothing stored: the environment's values are there.
LEMMA NothingToReset ==
  ASSUME SettingsInv, NEW h \in Request, ReadStored(h), stored[request[h].section] = NoOverride
  PROVE  SettingsInv'
<1>. DEFINE q == request[h]
            s == q.section
<1>1. /\ Pending(q) /\ q.at = "current" /\ q.kind = "reset" /\ Asks(h, NoRequest) /\ RequestAnswered(h)
      /\ stored' = stored
  BY DEF SettingsInv, ReadStored
<1>2. s \in Section /\ \A f \in DOMAIN q.body : q.body[f] = Default
  BY <1>1 DEF Pending
<1>3. /\ Over(Defaults(s), stored'[s]) = Effective(s)
      /\ \A f \in FieldsOf[s] : Effective(s)[f] = Default
  BY <1>1 DEF Effective, Over, Defaults, NoOverride
<1>4. /\ request' = [g \in Request |-> request'[g]]
      /\ \A g \in Request : (Shaped(request[g]) /\ Pending(request[g]))'
  BY <1>1, NoRequestIs, RequestGoesOn
<1>5. /\ expected' = [t \in Section |-> [f \in FieldsOf[t] |-> expected'[t][f]]]
      /\ undone' = [t \in Section |-> undone'[t]]
      /\ EditsStand'
  <2>. DEFINE put == FALSE
  <2>1. /\ put => FieldsOf[s] \subseteq DOMAIN q.body
        /\ \A t \in Section : t # s => stored'[t] = stored[t]
        /\ \A f \in FieldsOf[s] :
             /\ f \in DOMAIN q.body => Over(Defaults(s), stored'[s])[f] = q.body[f]
             /\ ~put /\ f \notin DOMAIN q.body \union q.missed
                  => Over(Defaults(s), stored'[s])[f] = Effective(s)[f]
    BY <1>1, <1>2, <1>3
  <2> QED
    BY <1>1, <1>2, <2>1, AnswerStands DEF q
<1> QED
  BY <1>1, <1>4, <1>5 DEF SettingsInv

\* Whoever meant to write the section too has missed what this changes, unless
\* it replaces the section.
LEMMA OthersMiss ==
  ASSUME SettingsInv, NEW h \in Request, Write(h), NEW g \in Request, g # h
  PROVE  (Shaped(request[g]) /\ Pending(request[g]))'
<1>. DEFINE q == request[h]
            s == q.section
            p == request[g]
            lost == Differing(Effective(s), Sections([stored EXCEPT ![s] = q.values])[s])
<1>1. Shaped(p) /\ Pending(p) /\ Pending(q) /\ q.at = "write"
  BY DEF SettingsInv, Write
<1>2. s \in Section
  BY <1>1 DEF Pending
<1>3. /\ stored' = [stored EXCEPT ![s] = q.values] /\ stored = [t \in Section |-> stored[t]]
      /\ request'[g] = IF p.section = s /\ p.at = "write" /\ p.kind # "put"
                       THEN [p EXCEPT !.missed = @ \union lost] ELSE p
  BY DEF Write, SettingsInv
<1>4. /\ \A t \in Section : t # s => stored'[t] = stored[t]
      /\ lost = {f \in FieldsOf[s] : Effective(s)[f] # Over(Defaults(s), stored'[s])[f]}
  <2>1. Sections([stored EXCEPT ![s] = q.values])[s] = Over(Defaults(s), stored'[s])
    BY <1>2, <1>3 DEF Sections, Effective
  <2>2. DOMAIN Effective(s) = FieldsOf[s]
    BY DEF Effective, Over, Defaults
  <2> QED
    BY <1>2, <1>3, <2>1, <2>2 DEF Differing
<1>. HIDE DEF lost, q, s
<1>5. CASE p.section = s /\ p.at = "write" /\ p.kind # "put"
  <2>. DEFINE r == [p EXCEPT !.missed = @ \union lost]
  <2>1. /\ Shaped(r) /\ r.at = p.at /\ r.section = s /\ r.kind = p.kind /\ r.body = p.body
        /\ r.values = p.values /\ r.missed = p.missed \union lost
    BY <1>1, <1>5 DEF Shaped, RequestFields
  <2>2. request'[g] = r
    BY <1>3, <1>5
  <2>. HIDE DEF r
  <2>3. Redoes(p)
    BY <1>1, <1>5 DEF Pending
  <2>4. \A f \in FieldsOf[s] :
          /\ f \in DOMAIN r.body => Over(Defaults(s), r.values)[f] = r.body[f]
          /\ f \notin DOMAIN r.body \union r.missed
               => Over(Defaults(s), r.values)[f] = Over(Defaults(s), stored'[s])[f]
    BY <1>4, <1>5, <2>1, <2>3 DEF Redoes
  <2>5. Redoes(request[g])'
    BY <1>5, <2>1, <2>2, <2>4 DEF Redoes, Effective, Over, Defaults
  <2>6. Pending(request[g])'
    BY <1>1, <1>2, <1>5, <2>1, <2>2, <2>5 DEF Pending
  <2> QED
    BY <2>1, <2>2, <2>6 DEF Shaped, RequestFields
<1>6. CASE ~(p.section = s /\ p.at = "write" /\ p.kind # "put")
  <2>1. request'[g] = p
    BY <1>3, <1>6
  <2>2. CASE p.at = "write"
    <3>1. Redoes(p) /\ p.section \in Section
      BY <1>1, <2>2 DEF Pending
    <3>2. p.kind # "put" => Over(Defaults(p.section), stored'[p.section]) = Effective(p.section)
      BY <1>4, <1>6, <2>2, <3>1 DEF Effective
    <3>. DEFINE z == p.section
    <3>3. /\ \A f \in FieldsOf[z] :
               /\ f \in DOMAIN p.body => Over(Defaults(z), p.values)[f] = p.body[f]
               /\ p.kind # "put" /\ f \notin DOMAIN p.body \union p.missed
                    => Over(Defaults(z), p.values)[f] = Over(Defaults(z), stored'[z])[f]
          /\ p.kind = "put" => FieldsOf[z] \subseteq DOMAIN p.body
      BY <3>1, <3>2 DEF Redoes
    <3>. HIDE DEF p
    <3>4. Redoes(request[g])'
      BY <2>1, <3>3 DEF Redoes, Effective, Over, Defaults
    <3> QED
      BY <1>1, <2>1, <3>4 DEF Pending, Shaped, RequestFields
  <2>3. CASE p.at # "write"
    BY <1>1, <2>1, <2>3 DEF Pending, Shaped, RequestFields
  <2> QED
    BY <2>2, <2>3
<1> QED
  BY <1>5, <1>6

LEMMA SectionWriteSafe ==
  ASSUME SettingsInv, NEW h \in Request, Write(h)
  PROVE  SettingsInv'
<1>. DEFINE q == request[h]
            s == q.section
<1>1. Shaped(q) /\ Pending(q) /\ q.at = "write" /\ RequestAnswered(h)
  BY DEF SettingsInv, Write
<1>2. s \in Section /\ Redoes(q)
  BY <1>1 DEF Pending
<1>3. /\ stored' = [t \in Section |-> stored'[t]]
      /\ stored'[s] = q.values
      /\ \A t \in Section : t # s => stored'[t] = stored[t]
  BY <1>2 DEF SettingsInv, Write
<1>4. request' = [g \in Request |-> request'[g]]
  BY DEF Write
<1>5. \A g \in Request : (Shaped(request[g]) /\ Pending(request[g]))'
  <2>1. (Shaped(request[h]) /\ Pending(request[h]))'
    <3>1. CASE request'[h] = NoRequest
      BY <3>1, NoRequestIs DEF Pending, NoRequest, Shaped, RequestFields
    <3>2. CASE request'[h] = [q EXCEPT !.at = "after", !.todo = Gates, !.values = NoOverride,
                                       !.missed = {}]
      <4>1. /\ Shaped(request'[h]) /\ request'[h].at = "after" /\ request'[h].section = s
            /\ request'[h].kind = q.kind /\ request'[h].body = q.body
        BY <1>1, <3>2 DEF Shaped, RequestFields
      <4>. HIDE DEF q, s
      <4> QED
        BY <1>1, <1>2, <4>1 DEF Pending, Shaped, RequestFields, q
    <3> QED
      BY <3>1, <3>2 DEF Write
  <2> QED
    BY <2>1, OthersMiss
<1>6. Over(Defaults(s), stored'[s]) = Over(Defaults(s), q.values)
  BY <1>3
<1>7. /\ expected' = [t \in Section |-> [f \in FieldsOf[t] |-> expected'[t][f]]]
      /\ undone' = [t \in Section |-> undone'[t]]
      /\ EditsStand'
  <2>. DEFINE put == q.kind = "put"
  <2>1. /\ put \in BOOLEAN
        /\ put => FieldsOf[s] \subseteq DOMAIN q.body
        /\ \A f \in FieldsOf[s] :
             /\ f \in DOMAIN q.body => Over(Defaults(s), stored'[s])[f] = q.body[f]
             /\ ~put /\ f \notin DOMAIN q.body \union q.missed
                  => Over(Defaults(s), stored'[s])[f] = Effective(s)[f]
    BY <1>2, <1>6 DEF Redoes
  <2>. HIDE DEF put
  <2> QED
    BY <1>1, <1>2, <1>3, <2>1, AnswerStands DEF q
<1> QED
  BY <1>3, <1>4, <1>5, <1>7 DEF SettingsInv

\* The inductive invariant holds in every reachable state.
THEOREM SettingsInvariant == SettingsSpec => []SettingsInv
<1>1. SettingsInv /\ [SettingsNext]_settingsVars => SettingsInv'
  <2>1. SettingsInv /\ UNCHANGED settingsVars => SettingsInv'
    <3>1. ASSUME SettingsInv, UNCHANGED settingsVars PROVE SettingsInv'
      <4>1. EditsStand'
        BY <3>1 DEF SettingsInv, settingsVars, EditsStand, Effective
      <4>2. \A h \in Request : (Shaped(request[h]) /\ Pending(request[h]))'
        BY <3>1 DEF SettingsInv, settingsVars, Shaped, Pending, Redoes, Effective
      <4> QED
        BY <3>1, <4>1, <4>2 DEF SettingsInv, settingsVars
    <3> QED
      BY <3>1
  <2> QED
    BY <2>1, ArrivalSafe, GatesSafe, ReadSafe, NothingToReset, SectionWriteSafe DEF SettingsNext, RequestStep
<1> QED
  BY <1>1, InitSettings, PTL DEF SettingsSpec

\* An edit that was answered stands, but for fields that a later request has put
\* back: those that changed between its read of the section and its write, or
\* that a failed read gave it as the environment's (_merged_with_current in
\* admin/setup.py, reset in settings/config_store.py), for any sections, values
\* and requests, overlapping, refused or cut.
THEOREM AnsweredEditsStand == SettingsSpec => []EditsStand
<1>1. SettingsInv => EditsStand
  BY DEF SettingsInv
<1> QED
  BY <1>1, SettingsInvariant, PTL

\* The types.

\* What a request carries are fields of its section.
InItsSection(r) ==
  /\ r.at \in {"none", "before", "current", "write", "after", "note"}
  /\ r.todo \subseteq Gates /\ r.before \subseteq Gates /\ r.after \subseteq Gates
  /\ r.at # "none" => /\ IsOverride(r.section, r.body) /\ IsOverride(r.section, r.values)
                      /\ r.missed \subseteq FieldsOf[r.section]

PromisedTyped == \A s \in Section : expected[s] \in Configs(s) /\ undone[s] \subseteq FieldsOf[s]

SettingsTypes ==
  /\ SettingsInv
  /\ \A s \in Section : IsOverride(s, stored[s])
  /\ \A h \in Request : InItsSection(request[h])
  /\ PromisedTyped
  /\ noted \in BOOLEAN /\ finished \in BOOLEAN /\ unmade \in BOOLEAN
  /\ requests \in 0 .. MaxRequests
  /\ blips \in 0 .. MaxBlips

USE SettingsAssumption

LEMMA NoRequestCarries == InItsSection(NoRequest)
BY DEF NoRequest, InItsSection

LEMMA ConfigsAre ==
  ASSUME NEW s \in Section, IsOverride(s, stored[s])
  PROVE  /\ Defaults(s) \in Configs(s) /\ Effective(s) \in Configs(s)
         /\ IsOverride(s, NoOverride)
         /\ \A config \in Configs(s) : IsOverride(s, config)
         /\ \A config \in Configs(s) : \A body : IsOverride(s, body) => Over(config, body) \in Configs(s)
<1>1. Defaults(s) \in Configs(s)
  BY DEF Defaults, Configs
<1>2. \A config \in Configs(s) : \A body : IsOverride(s, body) => Over(config, body) \in Configs(s)
  BY DEF Configs, IsOverride, Over
<1>3. Effective(s) \in Configs(s)
  BY <1>1, <1>2 DEF Effective
<1>4. IsOverride(s, NoOverride) /\ \A config \in Configs(s) : IsOverride(s, config)
  BY DEF IsOverride, NoOverride, Configs
<1> QED
  BY <1>1, <1>2, <1>3, <1>4

LEMMA InitSettingsTypes == SettingsInit => SettingsTypes
<1> SUFFICES ASSUME SettingsInit PROVE SettingsTypes
  OBVIOUS
<1>1. \A s \in Section : IsOverride(s, stored[s])
  BY DEF SettingsInit, IsOverride, NoOverride
<1>2. \A h \in Request : InItsSection(request[h])
  BY NoRequestCarries DEF SettingsInit
<1>3. requests \in 0 .. MaxRequests /\ blips \in 0 .. MaxBlips
  BY DEF SettingsInit
<1>4. noted \in BOOLEAN /\ finished \in BOOLEAN /\ unmade \in BOOLEAN
  BY DEF SettingsInit
<1>5. PromisedTyped
  BY <1>1, ConfigsAre DEF SettingsInit, PromisedTyped
<1> QED
  BY <1>1, <1>2, <1>3, <1>4, <1>5, InitSettings DEF SettingsTypes

\* Nothing is answered; or a request is, that carries fields of its section.
LEMMA NothingPromised ==
  ASSUME SettingsTypes, UNCHANGED promised PROVE PromisedTyped'
BY DEF SettingsTypes, PromisedTyped, promised, Configs

LEMMA AnswerTyped ==
  ASSUME SettingsTypes, NEW h \in Request, request[h].at # "none", RequestAnswered(h)
  PROVE  PromisedTyped'
<1>. DEFINE q == request[h]
            s == q.section
<1>1. /\ s \in Section /\ IsOverride(s, q.body) /\ q.missed \subseteq FieldsOf[s]
      /\ expected = [t \in Section |-> [f \in FieldsOf[t] |-> expected[t][f]]]
      /\ undone = [t \in Section |-> undone[t]]
      /\ IsOverride(s, stored[s])
  BY DEF SettingsTypes, SettingsInv, Pending, InItsSection
<1>2. expected[s] \in Configs(s) /\ undone[s] \subseteq FieldsOf[s]
  BY <1>1 DEF SettingsTypes, PromisedTyped
<1>3. Over(expected[s], q.body) \in Configs(s)
  BY <1>1, <1>2, ConfigsAre
<1>4. /\ expected'[s] = Over(expected[s], q.body)
      /\ undone'[s] = (undone[s] \union q.missed) \ DOMAIN q.body
      /\ \A t \in Section : t # s => expected'[t] = expected[t] /\ undone'[t] = undone[t]
  BY <1>1 DEF RequestAnswered
<1>. HIDE DEF q, s
<1>5. \A t \in Section : expected'[t] \in Configs(t) /\ undone'[t] \subseteq FieldsOf[t]
  BY <1>1, <1>2, <1>3, <1>4 DEF SettingsTypes, PromisedTyped
<1> QED
  BY <1>5 DEF PromisedTyped, Configs

\* A request becomes another that carries fields of its section.
LEMMA RequestTurns ==
  ASSUME SettingsTypes, SettingsInv', NEW h \in Request, NEW r, InItsSection(r), Asks(h, r),
         UNCHANGED <<stored, finished, unmade>>, PromisedTyped', noted' \in BOOLEAN,
         requests' \in 0 .. MaxRequests, blips' \in 0 .. MaxBlips
  PROVE  SettingsTypes'
<1>1. /\ request'[h] = r /\ \A g \in Request : g # h => request'[g] = request[g]
  BY DEF SettingsTypes, SettingsInv, Asks
<1>2. \A g \in Request : InItsSection(request'[g])
  BY <1>1 DEF SettingsTypes
<1>3. \A g \in Request : InItsSection(request'[g]) => InItsSection(request[g])'
  BY DEF InItsSection, IsOverride
<1>4. \A s \in Section : IsOverride(s, stored[s])'
  BY DEF SettingsTypes, IsOverride
<1> QED
  BY <1>2, <1>3, <1>4 DEF SettingsTypes

LEMMA ArrivalTyped ==
  ASSUME SettingsTypes, SettingsInv', NEW h \in Request,
         Patch(h) \/ Put(h) \/ ResetFields(h) \/ ResetSection(h)
  PROVE  SettingsTypes'
<1>1. /\ UNCHANGED <<stored, noted, finished, unmade, blips>> /\ PromisedTyped'
      /\ requests < MaxRequests /\ requests' = requests + 1
  BY NothingPromised DEF Patch, Put, ResetFields, ResetSection, Arrives, ghosts
<1>3. requests' \in 0 .. MaxRequests /\ blips' \in 0 .. MaxBlips /\ noted' \in BOOLEAN
  <2>1. requests \in 0 .. MaxRequests /\ blips \in 0 .. MaxBlips /\ noted \in BOOLEAN
    BY DEF SettingsTypes
  <2> QED
    BY <1>1, <2>1
<1>2. \E r : Asks(h, r) /\ InItsSection(r)
  <2>1. CASE Patch(h)
    <3>1. PICK s \in Section \ Wholesale : \E f \in FieldsOf[s], v \in Value :
            Asks(h, [NoRequest EXCEPT !.at = IF s \in Gates THEN "before" ELSE "current",
                                      !.kind = "patch", !.section = s, !.body = [x \in {f} |-> v],
                                      !.todo = IF s \in Gates THEN Gates ELSE {}])
      BY <2>1 DEF Patch, Arrives
    <3>2. PICK f \in FieldsOf[s], v \in Value :
            Asks(h, [NoRequest EXCEPT !.at = IF s \in Gates THEN "before" ELSE "current",
                                      !.kind = "patch", !.section = s, !.body = [x \in {f} |-> v],
                                      !.todo = IF s \in Gates THEN Gates ELSE {}])
      BY <3>1
    <3>. DEFINE r == [NoRequest EXCEPT !.at = IF s \in Gates THEN "before" ELSE "current",
                                       !.kind = "patch", !.section = s, !.body = [x \in {f} |-> v],
                                       !.todo = IF s \in Gates THEN Gates ELSE {}]
    <3>3. /\ r.at \in {"before", "current"} /\ r.todo \subseteq Gates /\ r.before = {} /\ r.after = {}
          /\ r.section = s /\ r.body = [x \in {f} |-> v] /\ r.values = NoOverride
          /\ r.missed = {}
      BY DEF NoRequest
    <3>4. IsOverride(s, [x \in {f} |-> v]) /\ IsOverride(s, NoOverride)
      BY DEF IsOverride, NoOverride
    <3>. HIDE DEF r
    <3>5. InItsSection(r)
      BY <3>3, <3>4 DEF InItsSection
    <3> QED
      BY <3>2, <3>5 DEF r
  <2>2. CASE Put(h)
    <3>1. PICK s \in Wholesale : \E config \in Configs(s) :
            Asks(h, [NoRequest EXCEPT !.at = "write", !.kind = "put", !.section = s,
                                      !.body = config, !.values = config])
      BY <2>2 DEF Put, Arrives
    <3>2. PICK config \in Configs(s) :
            Asks(h, [NoRequest EXCEPT !.at = "write", !.kind = "put", !.section = s,
                                      !.body = config, !.values = config])
      BY <3>1
    <3>. DEFINE r == [NoRequest EXCEPT !.at = "write", !.kind = "put", !.section = s,
                                       !.body = config, !.values = config]
    <3>3. /\ r.at = "write" /\ r.todo = {} /\ r.before = {} /\ r.after = {}
          /\ r.section = s /\ r.body = config /\ r.values = config
          /\ r.missed = {}
      BY DEF NoRequest
    <3>4. IsOverride(s, config)
      BY DEF IsOverride, Configs
    <3>. HIDE DEF r
    <3>5. InItsSection(r)
      BY <3>3, <3>4 DEF InItsSection
    <3> QED
      BY <3>2, <3>5 DEF r
  <2>3. CASE ResetFields(h)
    <3>1. PICK s \in Section : \E f \in FieldsOf[s] :
            Asks(h, [NoRequest EXCEPT !.at = "current", !.kind = "reset", !.section = s,
                                      !.body = [x \in {f} |-> Default]])
      BY <2>3 DEF ResetFields, Arrives
    <3>2. PICK f \in FieldsOf[s] :
            Asks(h, [NoRequest EXCEPT !.at = "current", !.kind = "reset", !.section = s,
                                      !.body = [x \in {f} |-> Default]])
      BY <3>1
    <3>. DEFINE r == [NoRequest EXCEPT !.at = "current", !.kind = "reset", !.section = s,
                                       !.body = [x \in {f} |-> Default]]
    <3>3. /\ r.at = "current" /\ r.todo = {} /\ r.before = {} /\ r.after = {}
          /\ r.section = s /\ r.body = [x \in {f} |-> Default] /\ r.values = NoOverride
          /\ r.missed = {}
      BY DEF NoRequest
    <3>4. IsOverride(s, [x \in {f} |-> Default]) /\ IsOverride(s, NoOverride)
      BY DEF IsOverride, NoOverride
    <3>. HIDE DEF r
    <3>5. InItsSection(r)
      BY <3>3, <3>4 DEF InItsSection
    <3> QED
      BY <3>2, <3>5 DEF r
  <2>4. CASE ResetSection(h)
    <3>1. PICK s \in Section :
            Asks(h, [NoRequest EXCEPT !.at = "write", !.kind = "put", !.section = s,
                                      !.body = Defaults(s), !.values = NoOverride])
      BY <2>4 DEF ResetSection, Arrives
    <3>. DEFINE r == [NoRequest EXCEPT !.at = "write", !.kind = "put", !.section = s,
                                       !.body = Defaults(s), !.values = NoOverride]
    <3>2. /\ r.at = "write" /\ r.todo = {} /\ r.before = {} /\ r.after = {}
          /\ r.section = s /\ r.body = Defaults(s) /\ r.values = NoOverride
          /\ r.missed = {}
      BY DEF NoRequest
    <3>3. IsOverride(s, Defaults(s)) /\ IsOverride(s, NoOverride)
      BY DEF IsOverride, Defaults, NoOverride
    <3>. HIDE DEF r
    <3>4. InItsSection(r)
      BY <3>2, <3>3 DEF InItsSection
    <3> QED
      BY <3>1, <3>4 DEF r
  <2> QED
    BY <2>1, <2>2, <2>3, <2>4
<1> QED
  BY <1>1, <1>2, <1>3, RequestTurns

\* A read that fails is one of the bounded number.
LEMMA BlipsAreBounded ==
  ASSUME blips \in 0 .. MaxBlips, NEW s, NEW answer \in Answers(s), Blip(answer, s)
  PROVE  blips' \in 0 .. MaxBlips
<1>1. answer # Effective(s) => blips < MaxBlips
  BY DEF Answers
<1>2. blips' = IF answer = Effective(s) THEN blips ELSE blips + 1
  BY DEF Blip
<1> QED
  BY <1>1, <1>2

LEMMA GatesTyped ==
  ASSUME SettingsTypes, SettingsInv', NEW h \in Request,
         ReadGate(h) \/ KnowsBefore(h) \/ KnowsAfter(h) \/ Note(h) \/ WriteFails(h)
  PROVE  SettingsTypes'
<1>. DEFINE q == request[h]
<1>1. InItsSection(q) /\ Shaped(q) /\ blips \in 0 .. MaxBlips /\ requests \in 0 .. MaxRequests
      /\ noted \in BOOLEAN
  BY DEF SettingsTypes, SettingsInv
<1>2. UNCHANGED <<stored, finished, unmade, requests>> /\ noted' \in BOOLEAN /\ PromisedTyped'
  BY <1>1, NothingPromised DEF ReadGate, KnowsBefore, KnowsAfter, Note, WriteFails, ghosts
<1>3. blips' \in 0 .. MaxBlips
  <2>1. CASE ReadGate(h)
    <3>1. \E answer \in Answers(CHOOSE x \in q.todo : TRUE) :
            Blip(answer, CHOOSE x \in q.todo : TRUE)
      BY <2>1 DEF ReadGate
    <3> QED
      BY <1>1, <3>1, BlipsAreBounded
  <2>2. CASE ~ReadGate(h)
    BY <1>1, <2>2 DEF KnowsBefore, KnowsAfter, Note, WriteFails
  <2> QED
    BY <2>1, <2>2
<1>4. \E r : Asks(h, r) /\ InItsSection(r)
  <2>1. CASE ReadGate(h)
    <3>. DEFINE s == CHOOSE x \in q.todo : TRUE
    <3>1. s \in Gates
      BY <1>1, <2>1 DEF ReadGate, InItsSection
    <3>2. PICK answer \in Answers(s) :
            Asks(h, IF q.at = "before"
                    THEN [q EXCEPT !.todo = @ \ {s},
                                   !.before = @ \union (IF SectionReady(s, answer) THEN {s} ELSE {})]
                    ELSE [q EXCEPT !.todo = @ \ {s},
                                   !.after = @ \union (IF SectionReady(s, answer) THEN {s} ELSE {})])
      BY <2>1 DEF ReadGate
    <3>. DEFINE ready == IF SectionReady(s, answer) THEN {s} ELSE {}
                r == [q EXCEPT !.todo = @ \ {s}, !.before = @ \union ready]
                t == [q EXCEPT !.todo = @ \ {s}, !.after = @ \union ready]
    <3>3. ready \subseteq Gates
      BY <3>1
    <3>4. Asks(h, IF q.at = "before" THEN r ELSE t)
      BY <3>2
    <3>. HIDE DEF s, ready
    <3>5. /\ r.at = q.at /\ r.section = q.section /\ r.body = q.body /\ r.values = q.values
          /\ r.missed = q.missed
          /\ r.todo = q.todo \ {s} /\ r.before = q.before \union ready /\ r.after = q.after
          /\ t.at = q.at /\ t.section = q.section /\ t.body = q.body /\ t.values = q.values
          /\ t.missed = q.missed
          /\ t.todo = q.todo \ {s} /\ t.before = q.before /\ t.after = q.after \union ready
      BY <1>1 DEF Shaped, RequestFields
    <3>. HIDE DEF r, t, q
    <3>6. InItsSection(r) /\ InItsSection(t)
      BY <1>1, <3>3, <3>5 DEF InItsSection
    <3> QED
      BY <3>4, <3>6
  <2>2. CASE KnowsBefore(h)
    <3>. DEFINE r == [q EXCEPT !.at = "current", !.incomplete = q.before # Gates]
    <3>1. Asks(h, r) /\ q.at = "before"
      BY <2>2 DEF KnowsBefore
    <3>2. /\ r.at = "current" /\ r.section = q.section /\ r.body = q.body /\ r.values = q.values
          /\ r.missed = q.missed
          /\ r.todo = q.todo /\ r.before = q.before /\ r.after = q.after
      BY <1>1 DEF Shaped, RequestFields
    <3>. HIDE DEF r, q
    <3>3. InItsSection(r)
      BY <1>1, <3>1, <3>2 DEF InItsSection
    <3> QED
      BY <3>1, <3>3
  <2>3. CASE KnowsAfter(h) /\ Finishes(h)
    <3>. DEFINE r == [q EXCEPT !.at = "note"]
    <3>1. Asks(h, r) /\ q.at = "after"
      BY <2>3 DEF KnowsAfter
    <3>2. /\ r.at = "note" /\ r.section = q.section /\ r.body = q.body /\ r.values = q.values
          /\ r.missed = q.missed
          /\ r.todo = q.todo /\ r.before = q.before /\ r.after = q.after
      BY <1>1 DEF Shaped, RequestFields
    <3>. HIDE DEF r, q
    <3>3. InItsSection(r)
      BY <1>1, <3>1, <3>2 DEF InItsSection
    <3> QED
      BY <3>1, <3>3
  <2>4. CASE (KnowsAfter(h) /\ ~Finishes(h)) \/ Note(h) \/ WriteFails(h)
    BY <2>4, NoRequestCarries DEF KnowsAfter, Note, WriteFails
  <2> QED
    BY <2>1, <2>2, <2>3, <2>4
<1>5. requests' \in 0 .. MaxRequests
  BY <1>1, <1>2
<1> QED
  BY <1>2, <1>3, <1>4, <1>5, RequestTurns

LEMMA ReadTyped ==
  ASSUME SettingsTypes, SettingsInv', NEW h \in Request, ReadCurrent(h) \/ ReadStored(h)
  PROVE  SettingsTypes'
<1>. DEFINE q == request[h]
            s == q.section
<1>1. InItsSection(q) /\ Shaped(q) /\ Pending(q) /\ q.at = "current" /\ blips \in 0 .. MaxBlips
      /\ requests \in 0 .. MaxRequests /\ noted \in BOOLEAN
  BY DEF SettingsTypes, SettingsInv, ReadCurrent, ReadStored
<1>2. s \in Section /\ IsOverride(s, q.body) /\ IsOverride(s, stored[s])
  BY <1>1 DEF Pending, InItsSection, SettingsTypes
<1>3. UNCHANGED <<stored, finished, unmade, requests, noted>> /\ PromisedTyped'
  BY <1>1, NothingPromised, AnswerTyped DEF ReadCurrent, ReadStored, ghosts
<1>4. blips' \in 0 .. MaxBlips
  <2>1. CASE ReadCurrent(h)
    <3>1. PICK answer \in Answers(s) : Blip(answer, s)
      BY <2>1 DEF ReadCurrent
    <3> QED
      BY <1>1, <3>1, BlipsAreBounded
  <2>2. CASE ReadStored(h)
    BY <1>1, <2>2 DEF ReadStored
  <2> QED
    BY <2>1, <2>2
<1>5. \E r : Asks(h, r) /\ InItsSection(r)
  <2>1. CASE Asks(h, NoRequest)
    BY <2>1, NoRequestCarries
  <2>2. CASE ReadCurrent(h) /\ ~Asks(h, NoRequest)
    <3>1. PICK answer \in Answers(s) :
            Asks(h, [q EXCEPT !.at = "write", !.values = Merged(answer, h),
                              !.missed = Differing(answer, Effective(s))])
      BY <2>2 DEF ReadCurrent
    <3>. DEFINE r == [q EXCEPT !.at = "write", !.values = Merged(answer, h),
                               !.missed = Differing(answer, Effective(s))]
    <3>2. /\ r.at = "write" /\ r.section = s /\ r.body = q.body /\ r.values = Over(answer, q.body)
          /\ r.missed = Differing(answer, Effective(s))
          /\ r.todo = q.todo /\ r.before = q.before /\ r.after = q.after
      BY <1>1 DEF Shaped, RequestFields, Merged
    <3>3. answer \in Configs(s)
      BY <1>2, ConfigsAre DEF Answers
    <3>4. IsOverride(s, Over(answer, q.body)) /\ Differing(answer, Effective(s)) \subseteq FieldsOf[s]
      <4>1. IsOverride(s, Over(answer, q.body))
        BY <1>2, <3>3, ConfigsAre
      <4> QED
        BY <3>3, <4>1 DEF Differing, Configs
    <3>. HIDE DEF r, q, s
    <3>5. InItsSection(r)
      BY <1>1, <1>2, <3>2, <3>4 DEF InItsSection
    <3> QED
      BY <3>1, <3>5 DEF r
  <2>3. CASE ReadStored(h) /\ ~Asks(h, NoRequest)
    <3>. DEFINE left == Restrict(stored[s], DOMAIN stored[s] \ DOMAIN q.body)
                r == [q EXCEPT !.at = "write", !.values = left]
    <3>1. Asks(h, r)
      BY <2>3 DEF ReadStored
    <3>2. /\ r.at = "write" /\ r.section = s /\ r.body = q.body /\ r.values = left
          /\ r.missed = q.missed
          /\ r.todo = q.todo /\ r.before = q.before /\ r.after = q.after
      BY <1>1 DEF Shaped, RequestFields
    <3>3. IsOverride(s, left)
      BY <1>2 DEF IsOverride, Restrict
    <3>. HIDE DEF r, q, left
    <3>4. InItsSection(r)
      BY <1>1, <1>2, <3>2, <3>3 DEF InItsSection
    <3> QED
      BY <3>1, <3>4
  <2> QED
    BY <2>1, <2>2, <2>3
<1>6. requests' \in 0 .. MaxRequests /\ noted' \in BOOLEAN
  BY <1>1, <1>3
<1> QED
  BY <1>3, <1>4, <1>5, <1>6, RequestTurns

LEMMA WriteTyped ==
  ASSUME SettingsTypes, SettingsInv', NEW h \in Request, Write(h)
  PROVE  SettingsTypes'
<1>. DEFINE q == request[h]
            s == q.section
            written == [stored EXCEPT ![s] = q.values]
<1>1. InItsSection(q) /\ Shaped(q) /\ Pending(q) /\ q.at = "write"
  BY DEF SettingsTypes, SettingsInv, Write
<1>2. s \in Section /\ IsOverride(s, q.body) /\ IsOverride(s, q.values)
  BY <1>1 DEF Pending, InItsSection
<1>3. stored' = written /\ stored = [t \in Section |-> stored[t]]
  BY DEF Write, SettingsTypes, SettingsInv
<1>4. /\ stored'[s] = q.values
      /\ \A t \in Section : t # s => stored'[t] = stored[t]
  BY <1>2, <1>3
<1>5. \A t \in Section : IsOverride(t, stored'[t])
  BY <1>2, <1>4 DEF SettingsTypes
<1>6. \A g \in Request :
        \/ request'[g] = NoRequest
        \/ g = h /\ request'[g] = [q EXCEPT !.at = "after", !.todo = Gates, !.values = NoOverride,
                                            !.missed = {}]
        \/ /\ request[g].section = s /\ request[g].at = "write"
           /\ request'[g] = [request[g] EXCEPT
                !.missed = @ \union Differing(Effective(s), Sections(written)[s])]
        \/ request'[g] = request[g]
  BY DEF Write
<1>7. ASSUME NEW g \in Request PROVE InItsSection(request'[g])
  <2>1. InItsSection(request[g]) /\ Shaped(request[g])
    BY DEF SettingsTypes, SettingsInv
  <2>2. CASE g = h /\ request'[g] = [q EXCEPT !.at = "after", !.todo = Gates, !.values = NoOverride, !.missed = {}]
    <3>. DEFINE r == request'[g]
    <3>1. /\ r.at = "after" /\ r.section = s /\ r.body = q.body /\ r.values = NoOverride
          /\ r.missed = {}
          /\ r.todo = Gates /\ r.before = q.before /\ r.after = q.after
      BY <1>1, <2>2 DEF Shaped, RequestFields
    <3>2. IsOverride(s, NoOverride)
      BY DEF IsOverride, NoOverride
    <3>. HIDE DEF r, q, s
    <3>3. InItsSection(r)
      BY <1>1, <1>2, <3>1, <3>2 DEF InItsSection
    <3> QED
      BY <3>3 DEF r
  <2>3. CASE /\ request[g].section = s /\ request[g].at = "write"
             /\ request'[g] = [request[g] EXCEPT
                  !.missed = @ \union Differing(Effective(s), Sections(written)[s])]
    <3>. DEFINE r == request'[g]
                p == request[g]
                lost == Differing(Effective(s), Sections(written)[s])
    <3>1. /\ r.at = p.at /\ r.section = p.section /\ r.body = p.body /\ r.values = p.values
          /\ r.todo = p.todo /\ r.before = p.before /\ r.after = p.after
          /\ r.missed = p.missed \union lost
      BY <2>1, <2>3 DEF Shaped, RequestFields
    <3>2. lost \subseteq FieldsOf[s]
      BY DEF Differing, Effective, Over, Defaults
    <3>. HIDE DEF r, lost
    <3>3. InItsSection(r)
      BY <2>1, <2>3, <3>1, <3>2 DEF InItsSection
    <3> QED
      BY <3>3 DEF r
  <2> QED
    BY <1>6, <2>1, <2>2, <2>3, NoRequestCarries
<1>8. (\A g \in Request : InItsSection(request'[g]) => InItsSection(request[g])')
      /\ \A t \in Section : IsOverride(t, stored'[t]) => IsOverride(t, stored[t])'
  BY DEF InItsSection, IsOverride
<1>9. noted' \in BOOLEAN /\ finished' \in BOOLEAN /\ unmade' \in BOOLEAN
  <2>1. noted' \in BOOLEAN
    BY DEF Write, SettingsTypes
  <2>2. finished' \in BOOLEAN
    <3>1. Complete(Sections(written)) \in BOOLEAN
      BY DEF Complete
    <3>2. finished' \in {Complete(Sections(written)) /\ q.kind = "patch", finished}
      BY DEF Write
    <3>3. finished \in BOOLEAN
      BY DEF SettingsTypes
    <3> QED
      BY <3>1, <3>2, <3>3
  <2>3. unmade' \in BOOLEAN
    BY DEF Write
  <2> QED
    BY <2>1, <2>2, <2>3
<1>10. requests' \in 0 .. MaxRequests /\ blips' \in 0 .. MaxBlips
  BY DEF Write, SettingsTypes
<1>11. PromisedTyped'
  BY <1>1, AnswerTyped DEF Write
<1> QED
  BY <1>5, <1>7, <1>8, <1>9, <1>10, <1>11 DEF SettingsTypes

\* The sections, requests and the record of the setup stay well formed.
THEOREM SettingsTyped == SettingsSpec => []SettingsTypeOK
<1>1. SettingsTypes /\ SettingsInv' /\ [SettingsNext]_settingsVars => SettingsTypes'
  <2>1. SettingsTypes /\ SettingsInv' /\ UNCHANGED settingsVars => SettingsTypes'
    BY NothingPromised DEF SettingsTypes, settingsVars, promised, InItsSection, IsOverride
  <2> QED
    BY <2>1, ArrivalTyped, GatesTyped, ReadTyped, WriteTyped DEF SettingsNext, RequestStep
<1>2. SettingsTypes => SettingsTypeOK
  <2> SUFFICES ASSUME SettingsTypes PROVE SettingsTypeOK
    OBVIOUS
  <2>1. \A s \in Section : expected[s] \in Configs(s) /\ undone[s] \subseteq FieldsOf[s]
    BY DEF SettingsTypes, PromisedTyped
  <2>2. \A h \in Request : /\ request[h].at \in {"none", "before", "current", "write", "after", "note"}
                           /\ request[h].at # "none" => request[h].section \in Section
                           /\ request[h].before \subseteq Gates /\ request[h].after \subseteq Gates
    BY DEF SettingsTypes, SettingsInv, InItsSection, Pending
  <2> QED
    BY <2>1, <2>2 DEF SettingsTypes, SettingsTypeOK
<1> QED
  BY <1>1, <1>2, InitSettingsTypes, SettingsInvariant, PTL DEF SettingsSpec

\* The moment the setup is finished.  Without failures of Redis, and as long
\* as no section is taken apart, sections only become complete.
Ready == {g \in Gates : SectionReady(g, Effective(g))}
Quiet == ~unmade /\ blips = 0

\* Who has seen the setup incomplete before its write is on the way to note
\* that it no longer is.
OnTheWay(r) == r.at = "note" \/ (r.at = "after" /\ Gates \subseteq r.todo \union r.after)

\* A request that has seen every section complete is not the one that completes
\* the setup.
SawComplete(r) ==
  r.kind = "patch" /\ r.section \in Gates /\ r.at \in {"current", "write"} /\ ~r.incomplete

WizardInv ==
  /\ blips \in Nat
  /\ Quiet =>
       /\ finished => Ready = Gates
       /\ \A h \in Request : request[h].before \intersect Gates \subseteq Ready
       /\ \A h \in Request : SawComplete(request[h]) => Ready = Gates
       /\ finished /\ ~noted => \E h \in Request : OnTheWay(request[h])

LEMMA InitWizard == SettingsInit => WizardInv
BY DEF SettingsInit, WizardInv, NoRequest, SawComplete, OnTheWay

LEMMA ReadyIs ==
  /\ Ready \subseteq Gates
  /\ Gates \subseteq Section
  /\ Complete(Sections(stored)) <=> Ready = Gates
<1>1. Gates \subseteq Section
  BY SettingsAssumption
<1> QED
  BY <1>1 DEF Ready, Complete, Sections, Effective

\* No section is written: the request that moves must not lose what it knows.
LEMMA WizardTurns ==
  ASSUME SettingsInv, WizardInv, NEW h \in Request, NEW r, Asks(h, r),
         UNCHANGED <<stored, finished, unmade, blips>>, noted => noted',
         Quiet => /\ r.before \intersect Gates \subseteq Ready
                  /\ SawComplete(r) => Ready = Gates
                  /\ finished /\ ~noted' /\ OnTheWay(request[h]) => OnTheWay(r)
  PROVE  WizardInv'
<1>1. /\ Ready' = Ready /\ Quiet' = Quiet
      /\ request'[h] = r /\ \A g \in Request : g # h => request'[g] = request[g]
  BY DEF Ready, Effective, Quiet, SettingsInv, Asks
<1>2. blips' \in Nat
  BY DEF WizardInv
<1>3. Quiet =>
        /\ finished' => Ready = Gates
        /\ \A g \in Request : request'[g].before \intersect Gates \subseteq Ready
        /\ \A g \in Request : SawComplete(request'[g]) => Ready = Gates
        /\ finished' /\ ~noted' => \E g \in Request : OnTheWay(request'[g])
  BY <1>1 DEF WizardInv
<1>4. \A g \in Request : /\ SawComplete(request[g])' = SawComplete(request'[g])
                         /\ OnTheWay(request[g])' = OnTheWay(request'[g])
  BY DEF SawComplete, OnTheWay
<1> QED
  BY <1>1, <1>2, <1>3, <1>4 DEF WizardInv

\* Redis has failed: there is nothing to keep.
LEMMA WizardGivesUp ==
  ASSUME WizardInv, blips' = blips + 1 PROVE WizardInv'
BY DEF WizardInv, Quiet

LEMMA ArrivalNoted ==
  ASSUME SettingsInv, WizardInv, NEW h \in Request,
         Patch(h) \/ Put(h) \/ ResetFields(h) \/ ResetSection(h)
  PROVE  WizardInv'
<1>1. \E r : /\ Asks(h, r) /\ r.before = {} /\ ~SawComplete(r)
  <2>1. CASE Patch(h)
    <3>1. PICK s \in Section, f \in UNION {FieldsOf[t] : t \in Section}, v \in Value :
            Asks(h, [NoRequest EXCEPT !.at = IF s \in Gates THEN "before" ELSE "current",
                                      !.kind = "patch", !.section = s, !.body = [x \in {f} |-> v],
                                      !.todo = IF s \in Gates THEN Gates ELSE {}])
      BY ZenonT(30), <2>1 DEF Patch, Arrives
    <3>. DEFINE at == IF s \in Gates THEN "before" ELSE "current"
                r == [NoRequest EXCEPT !.at = at, !.kind = "patch", !.section = s,
                        !.body = [x \in {f} |-> v], !.todo = IF s \in Gates THEN Gates ELSE {}]
    <3>2. Asks(h, r) /\ at = IF s \in Gates THEN "before" ELSE "current"
      BY <3>1
    <3>. HIDE DEF at
    <3>3. r.before = {} /\ r.at = at /\ r.section = s
      BY DEF NoRequest
    <3>. HIDE DEF r
    <3> QED
      BY <3>2, <3>3 DEF SawComplete
  <2>2. CASE Put(h)
    <3>1. PICK s, config :
            Asks(h, [NoRequest EXCEPT !.at = "write", !.kind = "put", !.section = s,
                                      !.body = config, !.values = config])
      BY <2>2 DEF Put, Arrives
    <3>. DEFINE r == [NoRequest EXCEPT !.at = "write", !.kind = "put", !.section = s,
                                       !.body = config, !.values = config]
    <3>2. r.before = {} /\ r.kind = "put"
      BY DEF NoRequest
    <3>. HIDE DEF r
    <3> QED
      BY <3>1, <3>2 DEF SawComplete, r
  <2>3. CASE ResetFields(h)
    <3>1. PICK s, f :
            Asks(h, [NoRequest EXCEPT !.at = "current", !.kind = "reset",
                                      !.section = s, !.body = [x \in {f} |-> Default]])
      BY <2>3 DEF ResetFields, Arrives
    <3>. DEFINE r == [NoRequest EXCEPT !.at = "current", !.kind = "reset",
                                       !.section = s, !.body = [x \in {f} |-> Default]]
    <3>2. r.before = {} /\ r.kind = "reset"
      BY DEF NoRequest
    <3>. HIDE DEF r
    <3> QED
      BY <3>1, <3>2 DEF SawComplete, r
  <2>4. CASE ResetSection(h)
    <3>1. PICK s :
            Asks(h, [NoRequest EXCEPT !.at = "write", !.kind = "put", !.section = s,
                                      !.body = Defaults(s), !.values = NoOverride])
      BY <2>4 DEF ResetSection, Arrives
    <3>. DEFINE r == [NoRequest EXCEPT !.at = "write", !.kind = "put", !.section = s,
                                       !.body = Defaults(s), !.values = NoOverride]
    <3>2. r.before = {} /\ r.kind = "put"
      BY DEF NoRequest
    <3>. HIDE DEF r
    <3> QED
      BY <3>1, <3>2 DEF SawComplete, r
  <2> QED
    BY <2>1, <2>2, <2>3, <2>4
<1>2. UNCHANGED <<stored, finished, unmade, blips, noted>> /\ ~OnTheWay(request[h])
  BY DEF Patch, Put, ResetFields, ResetSection, Arrives, ghosts, OnTheWay
<1> QED
  BY <1>1, <1>2, WizardTurns

LEMMA GateNoted ==
  ASSUME SettingsInv, WizardInv, NEW h \in Request, ReadGate(h) PROVE WizardInv'
<1>. DEFINE q == request[h]
            s == CHOOSE x \in q.todo : TRUE
<1>1. PICK answer \in Answers(s) :
        /\ Blip(answer, s)
        /\ Asks(h, IF q.at = "before"
                   THEN [q EXCEPT !.todo = @ \ {s},
                                  !.before = @ \union (IF SectionReady(s, answer) THEN {s} ELSE {})]
                   ELSE [q EXCEPT !.todo = @ \ {s},
                                  !.after = @ \union (IF SectionReady(s, answer) THEN {s} ELSE {})])
  BY DEF ReadGate
<1>2. /\ UNCHANGED <<stored, finished, unmade, noted>> /\ q.at \in {"before", "after"}
      /\ Shaped(q) /\ s \in q.todo
  BY DEF ReadGate, ghosts, SettingsInv
<1>3. CASE blips' = blips + 1
  BY <1>3, WizardGivesUp
<1>4. CASE blips' # blips + 1
  <2>. DEFINE ready == IF SectionReady(s, answer) THEN {s} ELSE {}
  <2>1. blips' = blips /\ answer = Effective(s)
    BY <1>1, <1>4 DEF Blip
  <2>2. s \in Gates /\ SectionReady(s, answer) => s \in Ready
    BY <2>1 DEF Ready
  <2>3. CASE q.at = "before"
    <3>. DEFINE r == [q EXCEPT !.todo = @ \ {s}, !.before = @ \union ready]
    <3>1. Asks(h, r) /\ r.before = q.before \union ready /\ r.at = "before"
      BY <1>1, <1>2, <2>3 DEF Shaped, RequestFields
    <3>. HIDE DEF r
    <3>2. ~OnTheWay(q) /\ ~SawComplete(r)
      BY <2>3, <3>1 DEF OnTheWay, SawComplete
    <3>3. Quiet => q.before \intersect Gates \subseteq Ready
      BY DEF WizardInv
    <3>4. Quiet => r.before \intersect Gates \subseteq Ready
      BY <2>2, <3>1, <3>3
    <3> QED
      BY <1>2, <2>1, <3>1, <3>2, <3>4, WizardTurns
  <2>4. CASE q.at = "after"
    <3>. DEFINE r == [q EXCEPT !.todo = @ \ {s}, !.after = @ \union ready]
    <3>1. /\ Asks(h, r) /\ r.before = q.before /\ r.at = "after"
          /\ r.todo = q.todo \ {s} /\ r.after = q.after \union ready
      BY <1>1, <1>2, <2>4 DEF Shaped, RequestFields
    <3>. HIDE DEF r
    <3>2. ~SawComplete(r) /\ (Quiet => r.before \intersect Gates \subseteq Ready)
      BY <3>1 DEF SawComplete, WizardInv
    <3>3. Quiet /\ finished /\ OnTheWay(q) => OnTheWay(r)
      <4>1. Quiet /\ finished => Ready = Gates
        BY DEF WizardInv
      <4>2. Ready = Gates /\ s \in Gates => SectionReady(s, answer)
        BY <2>1 DEF Ready
      <4> QED
        BY <2>4, <3>1, <4>1, <4>2 DEF OnTheWay
    <3> QED
      BY <1>2, <2>1, <3>1, <3>2, <3>3, WizardTurns
  <2> QED
    BY <1>2, <2>3, <2>4
<1> QED
  BY <1>3, <1>4

LEMMA KnownNoted ==
  ASSUME SettingsInv, WizardInv, NEW h \in Request, KnowsBefore(h) \/ KnowsAfter(h) \/ Note(h)
  PROVE  WizardInv'
<1>. DEFINE q == request[h]
<1>1. Shaped(q) /\ (Quiet => q.before \intersect Gates \subseteq Ready) /\ Ready \subseteq Gates
  BY ReadyIs DEF SettingsInv, WizardInv
<1>2. CASE KnowsBefore(h)
  <2>. DEFINE r == [q EXCEPT !.at = "current", !.incomplete = q.before # Gates]
  <2>1. Asks(h, r) /\ UNCHANGED <<stored, finished, unmade, blips, noted>> /\ q.at = "before"
    BY <1>2 DEF KnowsBefore, ghosts
  <2>2. r.before = q.before /\ r.incomplete = (q.before # Gates)
    BY <1>1 DEF Shaped, RequestFields
  <2>. HIDE DEF r
  <2>3. ~OnTheWay(q) /\ (Quiet /\ SawComplete(r) => Ready = Gates)
    BY <1>1, <2>1, <2>2 DEF OnTheWay, SawComplete
  <2> QED
    BY <1>1, <2>1, <2>2, <2>3, WizardTurns
<1>3. NoRequest.before = {} /\ ~SawComplete(NoRequest)
  BY DEF NoRequest, SawComplete
<1>4. CASE KnowsAfter(h) /\ Finishes(h)
  <2>. DEFINE r == [q EXCEPT !.at = "note"]
  <2>1. Asks(h, r) /\ UNCHANGED <<stored, finished, unmade, blips, noted>>
    BY <1>4 DEF KnowsAfter, ghosts
  <2>2. r.before = q.before /\ r.at = "note"
    BY <1>1 DEF Shaped, RequestFields
  <2>. HIDE DEF r
  <2> QED
    BY <1>1, <2>1, <2>2, WizardTurns DEF OnTheWay, SawComplete
<1>5. CASE KnowsAfter(h) /\ ~Finishes(h)
  <2>1. Asks(h, NoRequest) /\ UNCHANGED <<stored, finished, unmade, blips, noted>>
    BY <1>5 DEF KnowsAfter, ghosts
  <2>2. ~OnTheWay(q)
    BY <1>5 DEF KnowsAfter, Finishes, OnTheWay
  <2> QED
    BY <1>3, <2>1, <2>2, WizardTurns
<1>6. CASE Note(h)
  <2>1. CASE blips' = blips + 1
    BY <2>1, WizardGivesUp
  <2>2. CASE blips' # blips + 1
    <3>1. Asks(h, NoRequest) /\ UNCHANGED <<stored, finished, unmade, blips>> /\ noted' = TRUE
      BY <1>6, <2>2 DEF Note, ghosts
    <3> QED
      BY <1>3, <3>1, WizardTurns
  <2> QED
    BY <2>1, <2>2
<1> QED
  BY <1>2, <1>4, <1>5, <1>6

LEMMA ReadNoted ==
  ASSUME SettingsInv, WizardInv, NEW h \in Request, ReadCurrent(h) \/ ReadStored(h)
  PROVE  WizardInv'
<1>. DEFINE q == request[h]
<1>1. /\ Shaped(q) /\ (Quiet => q.before \intersect Gates \subseteq Ready)
      /\ (Quiet /\ SawComplete(q) => Ready = Gates)
      /\ q.at = "current" /\ UNCHANGED <<stored, finished, unmade, noted>>
  BY DEF SettingsInv, WizardInv, ReadCurrent, ReadStored, ghosts
<1>2. \E r : /\ Asks(h, r) /\ (r.before = {} \/ r.before = q.before)
             /\ SawComplete(r) => SawComplete(q)
  <2>1. CASE Asks(h, NoRequest)
    <3>1. NoRequest.before = {} /\ ~SawComplete(NoRequest)
      BY DEF NoRequest, SawComplete
    <3> QED
      BY <2>1, <3>1
  <2>2. CASE ReadCurrent(h) /\ ~Asks(h, NoRequest)
    <3>1. PICK values, missed :
            Asks(h, [q EXCEPT !.at = "write", !.values = values, !.missed = missed])
      BY <2>2 DEF ReadCurrent
    <3>. DEFINE r == [q EXCEPT !.at = "write", !.values = values, !.missed = missed]
    <3>2. /\ r.before = q.before /\ r.kind = q.kind /\ r.section = q.section
          /\ r.incomplete = q.incomplete
      BY <1>1 DEF Shaped, RequestFields
    <3>. HIDE DEF r
    <3>3. SawComplete(r) => SawComplete(q)
      BY <1>1, <3>2 DEF SawComplete
    <3> QED
      BY <3>1, <3>2, <3>3 DEF r
  <2>3. CASE ReadStored(h) /\ ~Asks(h, NoRequest)
    <3>1. PICK values : Asks(h, [q EXCEPT !.at = "write", !.values = values])
      BY <2>3 DEF ReadStored
    <3>. DEFINE r == [q EXCEPT !.at = "write", !.values = values]
    <3>2. /\ r.before = q.before /\ r.kind = q.kind /\ r.section = q.section
          /\ r.incomplete = q.incomplete
      BY <1>1 DEF Shaped, RequestFields
    <3>. HIDE DEF r
    <3>3. SawComplete(r) => SawComplete(q)
      BY <1>1, <3>2 DEF SawComplete
    <3> QED
      BY <3>1, <3>2, <3>3 DEF r
  <2> QED
    BY <2>1, <2>2, <2>3
<1>3. CASE blips' = blips + 1
  BY <1>3, WizardGivesUp
<1>4. CASE blips' # blips + 1
  <2>1. blips' = blips
    BY <1>4 DEF ReadCurrent, ReadStored, Blip
  <2>2. ~OnTheWay(q)
    BY <1>1 DEF OnTheWay
  <2>. HIDE DEF q
  <2> QED
    BY <1>1, <1>2, <2>1, <2>2, WizardTurns DEF q
<1> QED
  BY <1>3, <1>4

\* The request whose write completes the setup has seen it incomplete.
LEMMA WriteNoted ==
  ASSUME SettingsInv, WizardInv, NEW h \in Request, Write(h) PROVE WizardInv'
<1>. DEFINE q == request[h]
            s == q.section
            written == [stored EXCEPT ![s] = q.values]
            was == Complete(Sections(stored))
            is == Complete(Sections(written))
<1>1. /\ Shaped(q) /\ q.at = "write" /\ stored' = written /\ UNCHANGED <<noted, blips>>
      /\ finished' = IF was # is THEN is /\ q.kind = "patch" ELSE finished
      /\ unmade' = (unmade \/ \E g \in Gates : SectionReady(g, Sections(stored)[g])
                                               /\ ~SectionReady(g, Sections(written)[g]))
  BY DEF SettingsInv, Write
<1>2. s \in Section /\ Gates \subseteq Section
  BY <1>1, ReadyIs DEF SettingsInv, Pending
<1>3. /\ \A t \in Section : t # s => stored'[t] = stored[t]
      /\ \A g \in Gates : Sections(stored)[g] = Effective(g) /\ Sections(written)[g] = Effective(g)'
  BY <1>1, <1>2 DEF SettingsInv, Sections, Effective
<1>4. was = (Ready = Gates) /\ is = (Ready' = Gates)
  BY <1>3 DEF Ready, Complete
<1>5. Quiet' => Quiet /\ Ready \subseteq Ready'
  BY <1>1, <1>3 DEF Quiet, Ready
<1>6. Ready' \subseteq Ready \union {s}
  BY <1>2, <1>3 DEF Ready, Effective
<1>7. \A g \in Request :
        \/ request'[g] = NoRequest
        \/ /\ g = h /\ q.incomplete
           /\ request'[g] = [q EXCEPT !.at = "after", !.todo = Gates, !.values = NoOverride, !.missed = {}]
        \/ /\ request[g].at = "write" /\ g # h
           /\ \E missed : request'[g] = [request[g] EXCEPT !.missed = missed]
        \/ request'[g] = request[g] /\ g # h
  BY DEF Write
<1>8. q.incomplete => request'[h] = [q EXCEPT !.at = "after", !.todo = Gates, !.values = NoOverride, !.missed = {}]
  BY DEF Write
<1>. HIDE DEF q, s, written, was, is
<1>9. ASSUME NEW g \in Request
      PROVE  /\ request'[g].before = {} \/ request'[g].before = request[g].before
             /\ SawComplete(request'[g]) => SawComplete(request[g])
  <2>1. Shaped(request[g])
    BY DEF SettingsInv
  <2>2. CASE request'[g] = NoRequest
    BY <2>2 DEF NoRequest, SawComplete
  <2>3. CASE g = h /\ request'[g] = [q EXCEPT !.at = "after", !.todo = Gates, !.values = NoOverride, !.missed = {}]
    <3>1. request'[g].before = q.before /\ request'[g].at = "after"
      BY <1>1, <2>3 DEF Shaped, RequestFields
    <3> QED
      BY <2>3, <3>1 DEF SawComplete, q
  <2>4. CASE \E missed : request'[g] = [request[g] EXCEPT !.missed = missed]
    <3>1. /\ request'[g].before = request[g].before /\ request'[g].at = request[g].at
          /\ request'[g].kind = request[g].kind /\ request'[g].section = request[g].section
          /\ request'[g].incomplete = request[g].incomplete
      BY <2>1, <2>4 DEF Shaped, RequestFields
    <3> QED
      BY <3>1 DEF SawComplete
  <2>5. CASE request'[g] = request[g]
    BY <2>5
  <2> QED
    BY <1>7, <2>2, <2>3, <2>4, <2>5
<1>10. Quiet' /\ finished' => Ready' = Gates
  BY <1>1, <1>4, <1>5, ReadyIs DEF WizardInv, Ready
<1>11. Quiet' => \A g \in Request : request'[g].before \intersect Gates \subseteq Ready'
  BY <1>5, <1>9 DEF WizardInv
<1>12. Quiet' => \A g \in Request : SawComplete(request'[g]) => Ready' = Gates
  <2>1. Quiet' /\ Ready = Gates => Ready' = Gates
    BY <1>5 DEF Ready
  <2> QED
    BY <1>5, <1>9, <2>1 DEF WizardInv
<1>13. ASSUME Quiet', finished', ~noted' PROVE \E g \in Request : OnTheWay(request'[g])
  <2>1. CASE was = is
    <3>1. PICK g \in Request : OnTheWay(request[g])
      BY <1>1, <1>5, <1>13, <2>1 DEF WizardInv
    <3>2. request[g].at # "write" /\ request[g].at # "none"
      BY <3>1 DEF OnTheWay
    <3>3. g # h
      BY <1>1, <3>2 DEF q
    <3>4. request'[g] = request[g]
      BY <3>2, <3>3 DEF Write
    <3> QED
      BY <3>1, <3>4
  <2>2. CASE was # is
    <3>1. is /\ ~was /\ q.kind = "patch"
      BY <1>1, <1>4, <1>13, <2>2
    <3>2. Ready # Gates /\ Ready' = Gates
      BY <1>4, <3>1
    <3>3. s \in Gates
      BY <1>6, <3>2, ReadyIs
    <3>4. ~SawComplete(q)
      BY <1>5, <1>13, <3>2 DEF WizardInv, q
    <3>5. q.incomplete
      BY <1>1, <3>1, <3>3, <3>4 DEF SawComplete, s
    <3>6. request'[h].at = "after" /\ request'[h].todo = Gates
      BY ZenonT(30), <1>1, <1>8, <3>5 DEF Shaped, RequestFields
    <3> QED
      BY <3>6 DEF OnTheWay
  <2> QED
    BY <2>1, <2>2
<1>14. \A g \in Request : /\ SawComplete(request[g])' = SawComplete(request'[g])
                          /\ OnTheWay(request[g])' = OnTheWay(request'[g])
  BY DEF SawComplete, OnTheWay
<1> QED
  BY <1>1, <1>10, <1>11, <1>12, <1>13, <1>14 DEF WizardInv

\* A setup completed by PATCHes that overlap in any order is on record once
\* they are answered (_note_wizard_finished in admin/setup.py), for any number
\* of sections, required fields and requests: without failures of Redis, and as
\* long as no section is taken apart.
THEOREM WizardIsNoted == SettingsSpec => []WizardNoted
<1>1. SettingsInv /\ WizardInv /\ [SettingsNext]_settingsVars => WizardInv'
  <2>1. SettingsInv /\ WizardInv /\ UNCHANGED settingsVars => WizardInv'
    BY DEF WizardInv, settingsVars, Quiet, Ready, Effective, SawComplete, OnTheWay
  <2>2. ASSUME WizardInv, NEW h \in Request, WriteFails(h) PROVE WizardInv'
    BY <2>2, WizardGivesUp DEF WriteFails
  <2> QED
    BY <2>1, <2>2, ArrivalNoted, GateNoted, KnownNoted, ReadNoted, WriteNoted
       DEF SettingsNext, RequestStep
<1>2. WizardInv => WizardNoted
  BY DEF WizardInv, WizardNoted, Quiet, OnTheWay
<1> QED
  BY <1>1, <1>2, InitWizard, SettingsInvariant, PTL DEF SettingsSpec

-----------------------------------------------------------------------------
(* Provisioning. *)

SetupFields == {"at", "step", "toProbe", "present", "toTrigger", "made", "object"}
WellShaped(s) == DOMAIN s = SetupFields /\ s = [k \in SetupFields |-> s[k]]

\* What a setup has behind it is in iTop; what it has not found it has yet to
\* look for, or a probe has failed.
Progress(s, inItop, missed) ==
  /\ s.step \in 1 .. 6
  /\ s.present \subseteq InDatamodel /\ s.toTrigger \subseteq InDatamodel
  /\ s.at # "idle" =>
       /\ \A i \in 1 .. 4 : i < s.step => inItop[Chain[i]] > 0
       /\ s.step = 6 => inItop[UpdateWebhook] > 0 /\ s.toProbe = {} /\ s.toTrigger = {}
       /\ InDatamodel \ missed \subseteq s.toProbe \union s.present
       /\ \A c \in s.present \ s.toTrigger : inItop[UpdateTrigger(c)] > 0
  /\ s.at = "create" => s.object \in NextObjects(s)
  /\ s.at = "ok" => AllEnsured(s)

\* The update webhook was made when every class had been looked for.
WebhookFires == objects[UpdateWebhook] > 0 => InDatamodel \ misjudged \subseteq fires

\* The inductive invariant.
ProvisioningInv ==
  /\ objects \in [Wired -> 0 .. 2]
  /\ setup = [p \in Setup |-> setup[p]]
  /\ \A p \in Setup : WellShaped(setup[p]) /\ Progress(setup[p], objects, misjudged)
  /\ WebhookFires

LEMMA ChainIs ==
  /\ Len(Chain) = 4
  /\ Chain[1] = TheType /\ Chain[2] = TheConnection
  /\ Chain[3] = CreateTrigger /\ Chain[4] = CreateWebhook
  /\ DOMAIN Chain = 1 .. 4
BY DEF Chain

\* The objects are different ones, and all of them are wired up.
LEMMA ObjectsDiffer ==
  /\ \A i \in 1 .. 4 : Chain[i] \in Once /\ Chain[i] \in Wired
                       /\ Chain[i] # UpdateWebhook
                       /\ \A c : Chain[i] # UpdateTrigger(c)
  /\ UpdateWebhook \in Once /\ UpdateWebhook \in Wired
  /\ \A c : UpdateTrigger(c) # UpdateWebhook
  /\ \A c : UpdateTrigger(c) \notin Once
  /\ \A c \in TicketClass : UpdateTrigger(c) \in Wired
  /\ \A c, d : UpdateTrigger(c) = UpdateTrigger(d) => c = d
<1>1. /\ \A c : UpdateTrigger(c) \notin {TheType, TheConnection, CreateTrigger, CreateWebhook, UpdateWebhook}
      /\ UpdateWebhook \notin {TheType, TheConnection, CreateTrigger, CreateWebhook}
      /\ \A c, d : UpdateTrigger(c) = UpdateTrigger(d) => c = d
  BY DEF TheType, TheConnection, CreateTrigger, CreateWebhook, UpdateWebhook, UpdateTrigger
<1>2. Once = {TheType, TheConnection, CreateTrigger, CreateWebhook, UpdateWebhook}
  BY ChainIs DEF Once
<1>3. \A i \in 1 .. 4 : i = 1 \/ i = 2 \/ i = 3 \/ i = 4
  OBVIOUS
<1>4. \A i \in 1 .. 4 : Chain[i] \in {TheType, TheConnection, CreateTrigger, CreateWebhook}
  BY <1>3, ChainIs
<1> QED
  BY <1>1, <1>2, <1>4 DEF Wired

LEMMA InitProvisioning == ProvisioningInit => ProvisioningInv
<1> SUFFICES ASSUME ProvisioningInit PROVE ProvisioningInv
  OBVIOUS
<1>1. WellShaped(NoSetup) /\ NoSetup.at = "idle" /\ NoSetup.step = 1
      /\ NoSetup.present = {} /\ NoSetup.toTrigger = {}
  BY DEF NoSetup, WellShaped, SetupFields
<1>2. Progress(NoSetup, objects, misjudged)
  BY <1>1 DEF Progress
<1>3. objects \in [Wired -> 0 .. 2] /\ WebhookFires
  BY ObjectsDiffer DEF ProvisioningInit, WebhookFires
<1> QED
  BY <1>1, <1>2, <1>3 DEF ProvisioningInit, ProvisioningInv

\* What is next depends on where a setup is and not on what it looks at.
LEMMA NextIs ==
  ASSUME NEW s, NEW t, s.step = t.step, s.toProbe = t.toProbe,
         s.toTrigger = t.toTrigger, s.present = t.present
  PROVE  NextObjects(s) = NextObjects(t) /\ AllEnsured(s) = AllEnsured(t)
BY DEF NextObjects, AllEnsured

\* iTop gets no poorer, so what a setup knows stays true while others work.
LEMMA ProgressStays ==
  ASSUME ProvisioningInv, objects' \in [Wired -> 0 .. 2],
         \A o \in Wired : objects'[o] >= objects[o],
         misjudged \subseteq misjudged', NEW s, Progress(s, objects, misjudged)
  PROVE  Progress(s, objects', misjudged')
<1>1. \A o \in Wired : objects[o] > 0 => objects'[o] > 0
  BY DEF ProvisioningInv
<1>2. s.present \subseteq TicketClass
  BY ProvisioningAssumption DEF Progress
<1> QED
  BY <1>1, <1>2, ObjectsDiffer DEF Progress

\* One setup becomes what its progress is true of.
LEMMA SetupMoves ==
  ASSUME ProvisioningInv, NEW p \in Setup, NEW t,
         objects' \in [Wired -> 0 .. 2], \A o \in Wired : objects'[o] >= objects[o],
         misjudged \subseteq misjudged', Reaches(p, t),
         WellShaped(t), Progress(t, objects', misjudged'), WebhookFires'
  PROVE  ProvisioningInv'
<1>1. /\ setup' = [q \in Setup |-> setup'[q]]
      /\ setup'[p] = t /\ \A q \in Setup : q # p => setup'[q] = setup[q]
  BY DEF ProvisioningInv, Reaches
<1>2. \A q \in Setup : Progress(setup[q], objects', misjudged')
  BY ProgressStays DEF ProvisioningInv
<1>3. \A q \in Setup : WellShaped(setup'[q]) /\ Progress(setup'[q], objects', misjudged')
  BY <1>1, <1>2 DEF ProvisioningInv
<1>4. \A q \in Setup : WellShaped(setup'[q]) => WellShaped(setup[q])'
  BY DEF WellShaped
<1>5. \A q \in Setup : Progress(setup'[q], objects', misjudged') => Progress(setup[q], objects, misjudged)'
  BY DEF Progress
<1> QED
  BY <1>1, <1>3, <1>4, <1>5 DEF ProvisioningInv

\* The same when iTop has not changed.
LEMMA SetupTurns ==
  ASSUME ProvisioningInv, NEW p \in Setup, NEW t, UNCHANGED <<objects, fires>>,
         misjudged \subseteq misjudged', Reaches(p, t),
         WellShaped(t), Progress(t, objects, misjudged')
  PROVE  ProvisioningInv'
<1>1. /\ objects' = objects /\ objects \in [Wired -> 0 .. 2]
      /\ \A o \in Wired : objects'[o] >= objects[o]
  BY DEF ProvisioningInv
<1>2. WebhookFires'
  BY DEF ProvisioningInv, WebhookFires
<1> QED
  BY <1>1, <1>2, SetupMoves

LEMMA BeginsSafe ==
  ASSUME ProvisioningInv, NEW p \in Setup, BeginSetup(p) PROVE ProvisioningInv'
<1>. DEFINE t == [NoSetup EXCEPT !.at = "next", !.toProbe = TicketClass]
<1>1. Reaches(p, t) /\ UNCHANGED <<objects, fires, misjudged>>
  BY DEF BeginSetup
<1>2. /\ WellShaped(t) /\ t.at = "next" /\ t.step = 1 /\ t.toProbe = TicketClass
      /\ t.present = {} /\ t.toTrigger = {}
  BY DEF NoSetup, WellShaped, SetupFields
<1>. HIDE DEF t
<1>3. Progress(t, objects, misjudged')
  BY <1>2, ProvisioningAssumption DEF Progress
<1> QED
  BY <1>1, <1>2, <1>3, SetupTurns

LEMMA ProbeIsSafe ==
  ASSUME ProvisioningInv, NEW p \in Setup, Probe(p) PROVE ProvisioningInv'
<1>. DEFINE s == setup[p]
<1>1. /\ WellShaped(s) /\ Progress(s, objects, misjudged)
      /\ s.at = "next" /\ s.step > 4 /\ UNCHANGED <<objects, fires>>
  BY ChainIs DEF ProvisioningInv, Probe
<1>2. PICK c \in s.toProbe :
        \/ /\ Reaches(p, [s EXCEPT !.toProbe = @ \ {c}, !.present = @ \union ({c} \intersect InDatamodel),
                                   !.toTrigger = @ \union ({c} \intersect InDatamodel)])
           /\ misjudged' = misjudged
        \/ /\ Reaches(p, [s EXCEPT !.toProbe = @ \ {c}])
           /\ misjudged' = misjudged \union {c}
  BY <1>1 DEF Probe, Reaches, WellShaped, SetupFields
<1>3. CASE /\ Reaches(p, [s EXCEPT !.toProbe = @ \ {c}, !.present = @ \union ({c} \intersect InDatamodel),
                                   !.toTrigger = @ \union ({c} \intersect InDatamodel)])
           /\ misjudged' = misjudged
  <2>. DEFINE t == [s EXCEPT !.toProbe = @ \ {c}, !.present = @ \union ({c} \intersect InDatamodel),
                             !.toTrigger = @ \union ({c} \intersect InDatamodel)]
  <2>1. /\ WellShaped(t) /\ t.at = "next" /\ t.step = s.step /\ t.toProbe = s.toProbe \ {c}
        /\ t.present = s.present \union ({c} \intersect InDatamodel)
        /\ t.toTrigger = s.toTrigger \union ({c} \intersect InDatamodel)
    BY <1>1 DEF WellShaped, SetupFields
  <2>2. Reaches(p, t) /\ misjudged' = misjudged
    BY <1>3
  <2>. HIDE DEF t, s
  <2>3. Progress(t, objects, misjudged')
    BY <1>1, <1>2, <2>1, <2>2 DEF Progress
  <2> QED
    BY <1>1, <2>1, <2>2, <2>3, SetupTurns
<1>4. CASE /\ Reaches(p, [s EXCEPT !.toProbe = @ \ {c}])
           /\ misjudged' = misjudged \union {c}
  <2>. DEFINE t == [s EXCEPT !.toProbe = @ \ {c}]
  <2>1. /\ WellShaped(t) /\ t.at = "next" /\ t.step = s.step /\ t.toProbe = s.toProbe \ {c}
        /\ t.present = s.present /\ t.toTrigger = s.toTrigger
    BY <1>1 DEF WellShaped, SetupFields
  <2>2. Reaches(p, t) /\ misjudged \subseteq misjudged' /\ c \in misjudged'
    BY <1>4
  <2>. HIDE DEF t, s
  <2>3. Progress(t, objects, misjudged')
    BY <1>1, <1>2, <2>1, <2>2 DEF Progress
  <2> QED
    BY <1>1, <2>1, <2>2, <2>3, SetupTurns
<1> QED
  BY <1>2, <1>3, <1>4

LEMMA NextObjectsAre ==
  ASSUME NEW s, NEW inItop, NEW missed, Progress(s, inItop, missed), NEW o \in NextObjects(s)
  PROVE  /\ o \in Wired
         /\ o = UpdateWebhook => s.step = 5 /\ s.toProbe = {} /\ s.toTrigger = {}
         /\ o \in Once /\ o # UpdateWebhook => s.step \in 1 .. 4 /\ o = Chain[s.step]
         /\ o \notin Once => s.step \in 5 .. 6 /\ \E c \in s.toTrigger : o = UpdateTrigger(c)
<1>1. /\ s.step \in 1 .. 6 /\ s.toTrigger \subseteq InDatamodel /\ Len(Chain) = 4
  BY ChainIs DEF Progress
<1>2. CASE s.step <= 4
  BY <1>1, <1>2, ObjectsDiffer DEF NextObjects
<1>3. CASE s.step > 4 /\ s.toProbe = {} /\ s.toTrigger = {}
  BY <1>1, <1>3, ObjectsDiffer DEF NextObjects
<1>4. CASE s.step > 4 /\ s.toProbe = {} /\ s.toTrigger # {}
  <2>1. PICK c \in s.toTrigger : o = UpdateTrigger(c)
    BY <1>1, <1>4 DEF NextObjects
  <2>2. c \in TicketClass /\ s.step \in 5 .. 6
    BY <1>1, <1>4, <2>1, ProvisioningAssumption
  <2> QED
    BY <2>1, <2>2, ObjectsDiffer
<1>5. CASE s.step > 4 /\ s.toProbe # {}
  BY <1>1, <1>5 DEF NextObjects
<1> QED
  BY <1>1, <1>2, <1>3, <1>4, <1>5

\* With the object it was at in iTop, a setup is past it.
LEMMA EnsuredProgresses ==
  ASSUME NEW s, NEW inItop, NEW missed, NEW made,
         WellShaped(s), Progress(s, inItop, missed), s.at \in {"next", "create"},
         s.object \in NextObjects(s), inItop[s.object] > 0
  PROVE  /\ WellShaped([Ensured(s) EXCEPT !.made = made])
         /\ Progress([Ensured(s) EXCEPT !.made = made], inItop, missed)
<1>. DEFINE t == [Ensured(s) EXCEPT !.made = made]
<1>1. /\ WellShaped(t) /\ t.at = "next" /\ t.toProbe = s.toProbe /\ t.present = s.present
      /\ t.step = IF s.object \in Once THEN s.step + 1 ELSE s.step
      /\ t.toTrigger = {c \in s.toTrigger : UpdateTrigger(c) # s.object}
  BY DEF Ensured, WellShaped, SetupFields
<1>. HIDE DEF t
<1>2. /\ s.object = UpdateWebhook => s.step = 5 /\ s.toProbe = {} /\ s.toTrigger = {}
      /\ s.object \in Once /\ s.object # UpdateWebhook => s.step \in 1 .. 4 /\ s.object = Chain[s.step]
      /\ s.object \notin Once => s.step \in 5 .. 6 /\ \E c \in s.toTrigger : s.object = UpdateTrigger(c)
  BY NextObjectsAre
<1>3. /\ s.step \in 1 .. 6 /\ s.present \subseteq InDatamodel /\ s.toTrigger \subseteq InDatamodel
      /\ \A i \in 1 .. 4 : i < s.step => inItop[Chain[i]] > 0
      /\ s.step = 6 => inItop[UpdateWebhook] > 0 /\ s.toProbe = {} /\ s.toTrigger = {}
      /\ InDatamodel \ missed \subseteq s.toProbe \union s.present
      /\ \A c \in s.present \ s.toTrigger : inItop[UpdateTrigger(c)] > 0
  BY DEF Progress
<1>4. t.step \in 1 .. 6 /\ \A i \in 1 .. 4 : i < t.step => inItop[Chain[i]] > 0
  <2>1. CASE s.object = UpdateWebhook
    BY <1>1, <1>2, <1>3, <2>1
  <2>2. CASE s.object \in Once /\ s.object # UpdateWebhook
    BY <1>1, <1>2, <1>3, <2>2
  <2>3. CASE s.object \notin Once
    BY <1>1, <1>3, <2>3
  <2> QED
    BY <2>1, <2>2, <2>3
<1>5. t.step = 6 => inItop[UpdateWebhook] > 0 /\ t.toProbe = {} /\ t.toTrigger = {}
  <2>1. CASE s.object = UpdateWebhook
    BY <1>1, <1>2, <1>3, <2>1
  <2>2. CASE s.object # UpdateWebhook
    BY <1>1, <1>2, <1>3, <2>2
  <2> QED
    BY <2>1, <2>2
<1>6. \A c \in t.present \ t.toTrigger : inItop[UpdateTrigger(c)] > 0
  BY <1>1, <1>3
<1> QED
  BY <1>1, <1>3, <1>4, <1>5, <1>6 DEF Progress, t

\* Creating an object takes none away, and the update webhook is made by a
\* setup that has looked for every class.
LEMMA CreatedIs ==
  ASSUME ProvisioningInv, NEW p \in Setup, setup[p].at = "create", Created(p),
         UNCHANGED misjudged
  PROVE  /\ objects' \in [Wired -> 0 .. 2]
         /\ \A o \in Wired : objects'[o] >= objects[o]
         /\ objects'[setup[p].object] > 0
         /\ WebhookFires'
<1>. DEFINE s == setup[p]
<1>1. WellShaped(s) /\ Progress(s, objects, misjudged) /\ s.object \in NextObjects(s)
  BY DEF ProvisioningInv, Progress
<1>2. /\ s.object \in Wired
      /\ s.object = UpdateWebhook => s.toProbe = {}
  BY <1>1, NextObjectsAre
<1>3. /\ objects \in [Wired -> 0 .. 2] /\ objects[s.object] < 2
      /\ objects' = [objects EXCEPT ![s.object] = @ + 1]
      /\ fires' = IF s.object = UpdateWebhook THEN fires \union FiresFor(s) ELSE fires
  BY DEF ProvisioningInv, Created
<1>. HIDE DEF s
<1>4. /\ objects'[s.object] = objects[s.object] + 1 /\ objects[s.object] \in 0 .. 2
      /\ \A o \in Wired : o # s.object => objects'[o] = objects[o]
      /\ \A o \in Wired : objects[o] \in 0 .. 2
  BY <1>2, <1>3
<1>5. objects[s.object] + 1 \in 0 .. 2
  BY <1>3, <1>4
<1>6. objects' \in [Wired -> 0 .. 2] /\ \A o \in Wired : objects'[o] >= objects[o]
  BY <1>2, <1>3, <1>4, <1>5
<1>7. WebhookFires'
  <2>1. CASE s.object = UpdateWebhook
    <3>1. InDatamodel \ misjudged \subseteq s.present
      BY <1>1, <1>2, <2>1 DEF Progress, s
    <3> QED
      BY <1>3, <2>1, <3>1 DEF WebhookFires, FiresFor
  <2>2. CASE s.object # UpdateWebhook
    BY <1>3, <1>4, <2>2, ObjectsDiffer DEF WebhookFires, ProvisioningInv
  <2> QED
    BY <2>1, <2>2
<1> QED
  BY <1>4, <1>6, <1>7 DEF s

LEMMA EnsuresSafe ==
  ASSUME ProvisioningInv, NEW p \in Setup, FindOne(p) \/ Create(p) PROVE ProvisioningInv'
<1>. DEFINE s == setup[p]
<1>1. WellShaped(s) /\ Progress(s, objects, misjudged)
  BY DEF ProvisioningInv
<1>2. CASE Create(p)
  <2>. DEFINE made == s.made \union {c \in InDatamodel : UpdateTrigger(c) = s.object}
              t == [Ensured(s) EXCEPT !.made = made]
  <2>1. /\ s.at = "create" /\ Created(p) /\ UNCHANGED misjudged
        /\ Reaches(p, [Ensured(s) EXCEPT !.made = @ \union {c \in InDatamodel : UpdateTrigger(c) = s.object}])
    BY <1>2 DEF Create
  <2>2. Reaches(p, t)
    BY <1>1, <2>1 DEF Ensured, WellShaped, SetupFields
  <2>. HIDE DEF made
  <2>3. /\ objects' \in [Wired -> 0 .. 2]
        /\ \A o \in Wired : objects'[o] >= objects[o]
        /\ objects'[s.object] > 0
        /\ WebhookFires'
    BY <2>1, CreatedIs
  <2>4. Progress(s, objects', misjudged')
    BY <1>1, <2>1, <2>3, ProgressStays
  <2>5. s.object \in NextObjects(s)
    BY <1>1, <2>1 DEF Progress
  <2>. HIDE DEF s
  <2>6. WellShaped(t) /\ Progress(t, objects', misjudged')
    BY <1>1, <2>1, <2>3, <2>4, <2>5, EnsuredProgresses
  <2>. HIDE DEF t
  <2> QED
    BY <2>1, <2>2, <2>3, <2>6, SetupMoves
<1>3. CASE FindOne(p)
  <2>1. PICK o \in NextObjects(s) :
          Reaches(p, IF objects[o] > 0 THEN Ensured([s EXCEPT !.object = o])
                     ELSE [[s EXCEPT !.object = o] EXCEPT !.at = "create"])
    BY <1>3 DEF FindOne
  <2>2. s.at = "next" /\ UNCHANGED <<objects, fires, misjudged>>
    BY <1>3 DEF FindOne
  <2>. DEFINE asked == [s EXCEPT !.object = o]
              wanted == [asked EXCEPT !.at = "create"]
  <2>3. /\ WellShaped(asked) /\ asked.at = "next" /\ asked.step = s.step /\ asked.object = o
        /\ asked.toProbe = s.toProbe /\ asked.present = s.present /\ asked.toTrigger = s.toTrigger
    BY <1>1, <2>2 DEF WellShaped, SetupFields
  <2>4. /\ WellShaped(wanted) /\ wanted.at = "create" /\ wanted.step = s.step /\ wanted.object = o
        /\ wanted.toProbe = s.toProbe /\ wanted.present = s.present /\ wanted.toTrigger = s.toTrigger
    BY <1>1, <2>2 DEF WellShaped, SetupFields
  <2>5. Reaches(p, IF objects[o] > 0 THEN Ensured(asked) ELSE wanted)
    BY <2>1
  <2>. HIDE DEF asked, wanted, s
  <2>6. NextObjects(asked) = NextObjects(s) /\ NextObjects(wanted) = NextObjects(s)
    BY <2>3, <2>4, NextIs
  <2>7. Progress(asked, objects, misjudged) /\ Progress(wanted, objects, misjudged)
    BY <1>1, <2>1, <2>2, <2>3, <2>4, <2>6 DEF Progress
  <2>8. CASE objects[o] > 0
    <3>. DEFINE t == [Ensured(asked) EXCEPT !.made = Ensured(asked).made]
    <3>1. t = Ensured(asked)
      BY <2>3 DEF Ensured, WellShaped, SetupFields
    <3>2. WellShaped(t) /\ Progress(t, objects, misjudged)
      BY <2>1, <2>3, <2>6, <2>7, <2>8, EnsuredProgresses
    <3> QED
      BY <2>2, <2>5, <2>8, <3>1, <3>2, SetupTurns
  <2>9. CASE ~(objects[o] > 0)
    BY <2>2, <2>4, <2>5, <2>7, <2>9, SetupTurns
  <2> QED
    BY <2>8, <2>9
<1> QED
  BY <1>2, <1>3

LEMMA EndsSafe ==
  ASSUME ProvisioningInv, NEW p \in Setup, CreateRefused(p) \/ CutOff(p) \/ Report(p)
  PROVE  ProvisioningInv'
<1>. DEFINE s == setup[p]
            failed == [s EXCEPT !.at = "failed"]
            ok == [s EXCEPT !.at = "ok"]
<1>1. WellShaped(s) /\ Progress(s, objects, misjudged)
  BY DEF ProvisioningInv
<1>2. UNCHANGED misjudged /\ s.at \in {"next", "create"}
  BY DEF CreateRefused, CutOff, Report
<1>3. /\ WellShaped(failed) /\ failed.at = "failed" /\ failed.step = s.step
      /\ failed.toProbe = s.toProbe /\ failed.present = s.present /\ failed.toTrigger = s.toTrigger
      /\ WellShaped(ok) /\ ok.at = "ok" /\ ok.step = s.step
      /\ ok.toProbe = s.toProbe /\ ok.present = s.present /\ ok.toTrigger = s.toTrigger
  BY <1>1 DEF WellShaped, SetupFields
<1>4. CASE Report(p)
  <2>1. Reaches(p, ok) /\ AllEnsured(s) /\ UNCHANGED <<objects, fires>>
    BY <1>4 DEF Report
  <2>. HIDE DEF s, failed, ok
  <2>2. AllEnsured(ok)
    BY <1>3, <2>1, NextIs
  <2>3. Progress(ok, objects, misjudged)
    BY <1>1, <1>2, <1>3, <2>2 DEF Progress
  <2> QED
    BY <1>2, <1>3, <2>1, <2>3, SetupTurns
<1>5. CASE CreateRefused(p) \/ CutOff(p)
  <2>1. Reaches(p, failed)
    BY <1>5 DEF CreateRefused, CutOff
  <2>2. UNCHANGED <<objects, fires>> \/ (s.at = "create" /\ Created(p))
    BY <1>5 DEF CreateRefused, CutOff
  <2>3. Progress(failed, objects, misjudged)
    <3>. HIDE DEF s, failed, ok
    <3> QED
      BY <1>1, <1>2, <1>3 DEF Progress
  <2>4. CASE UNCHANGED <<objects, fires>>
    BY <1>2, <1>3, <2>1, <2>3, <2>4, SetupTurns
  <2>5. CASE s.at = "create" /\ Created(p)
    <3>1. /\ objects' \in [Wired -> 0 .. 2]
          /\ \A o \in Wired : objects'[o] >= objects[o]
          /\ WebhookFires'
      BY <1>2, <2>5, CreatedIs
    <3>. HIDE DEF failed
    <3>2. Progress(failed, objects', misjudged')
      BY <1>2, <2>3, <3>1, ProgressStays
    <3> QED
      BY <1>2, <1>3, <2>1, <3>1, <3>2, SetupMoves
  <2> QED
    BY <2>2, <2>4, <2>5
<1> QED
  BY <1>4, <1>5

\* The inductive invariant holds in every reachable state.
THEOREM ProvisioningInvariant == ProvisioningSpec => []ProvisioningInv
<1>1. ProvisioningInv /\ [ProvisioningNext]_provisionVars => ProvisioningInv'
  <2>1. ProvisioningInv /\ UNCHANGED provisionVars => ProvisioningInv'
    BY DEF ProvisioningInv, provisionVars, WellShaped, Progress, WebhookFires
  <2> QED
    BY <2>1, BeginsSafe, ProbeIsSafe, EnsuresSafe, EndsSafe DEF ProvisioningNext, SetupStep
<1> QED
  BY <1>1, InitProvisioning, PTL DEF ProvisioningSpec

\* A setup that reports success has wired iTop up (provision_all and its steps
\* in itop/provisioning.py), whatever setups before it and beside it have left
\* behind, for any ticket classes and any number of setups and failures.
THEOREM SuccessIsWired == ProvisioningSpec => []SuccessMeansWired
<1>1. ProvisioningInv => SuccessMeansWired
  <2> SUFFICES ASSUME ProvisioningInv, NEW p \in Setup, setup[p].at = "ok"
               PROVE  /\ objects[CreateTrigger] > 0 /\ objects[CreateWebhook] > 0
                      /\ \A c \in InDatamodel \ misjudged :
                           objects[UpdateTrigger(c)] > 0 /\ c \in fires
    BY DEF SuccessMeansWired
  <2>. DEFINE s == setup[p]
  <2>1. Progress(s, objects, misjudged) /\ AllEnsured(s) /\ WebhookFires
    BY DEF ProvisioningInv, Progress
  <2>. HIDE DEF s
  <2>2. s.at = "ok"
    BY DEF s
  <2>3. s.step \in 5 .. 6 /\ s.toProbe = {} /\ NextObjects(s) = {}
    BY <2>1, ChainIs DEF AllEnsured, Progress
  <2>4. s.toTrigger = {} /\ (s.present = {} \/ s.step = 6)
    BY <2>3, ChainIs DEF NextObjects
  <2>5. objects[Chain[3]] > 0 /\ objects[Chain[4]] > 0
    BY <2>1, <2>2, <2>3 DEF Progress
  <2>6. InDatamodel \ misjudged \subseteq s.present
    BY <2>1, <2>2, <2>3 DEF Progress
  <2>7. s.present # {} => objects[UpdateWebhook] > 0
    BY <2>1, <2>2, <2>4 DEF Progress
  <2>8. \A c \in s.present : objects[UpdateTrigger(c)] > 0
    BY <2>1, <2>2, <2>4 DEF Progress
  <2> QED
    BY <2>1, <2>5, <2>6, <2>7, <2>8, ChainIs DEF WebhookFires
<1> QED
  BY <1>1, ProvisioningInvariant, PTL

\* The types.

ProvisioningTypes ==
  /\ fires \subseteq TicketClass
  /\ misjudged \subseteq InDatamodel
  /\ \A p \in Setup : setup[p].at \in {"idle", "next", "create", "ok", "failed"}
  /\ begun \in 0 .. MaxSetups
  /\ mishaps \in 0 .. MaxMishaps

USE ProvisioningAssumption

LEMMA ProvisioningStep ==
  ProvisioningTypes /\ ProvisioningInv /\ [ProvisioningNext]_provisionVars => ProvisioningTypes'
<1> SUFFICES ASSUME ProvisioningTypes, ProvisioningInv, [ProvisioningNext]_provisionVars
             PROVE  ProvisioningTypes'
  OBVIOUS
<1>1. CASE UNCHANGED provisionVars
  BY <1>1 DEF provisionVars, ProvisioningTypes
<1>2. ASSUME NEW p \in Setup, SetupStep(p) PROVE ProvisioningTypes'
  <2>. DEFINE s == setup[p]
  <2>1. WellShaped(s) /\ Progress(s, objects, misjudged) /\ setup = [q \in Setup |-> setup[q]]
    BY DEF ProvisioningInv
  <2>2. s.present \subseteq TicketClass
    BY <2>1 DEF Progress
  <2>3. begun' \in 0 .. MaxSetups
    <3>1. begun \in 0 .. MaxSetups
      BY DEF ProvisioningTypes
    <3>2. begun' = begun \/ (begun < MaxSetups /\ begun' = begun + 1)
      BY <1>2 DEF SetupStep, BeginSetup, Probe, FindOne, Create, CreateRefused, CutOff, Report
    <3> QED
      BY <3>1, <3>2
  <2>4. mishaps' \in 0 .. MaxMishaps
    <3>1. mishaps \in 0 .. MaxMishaps
      BY DEF ProvisioningTypes
    <3>2. mishaps' = mishaps \/ (mishaps < MaxMishaps /\ mishaps' = mishaps + 1)
      BY <1>2 DEF SetupStep, BeginSetup, Probe, FindOne, Create, CreateRefused, CutOff, Report
    <3> QED
      BY <3>1, <3>2
  <2>5. misjudged' \subseteq InDatamodel
    BY <1>2 DEF SetupStep, BeginSetup, Probe, FindOne, Create, CreateRefused, CutOff, Report, ProvisioningTypes
  <2>6. fires' \subseteq TicketClass
    <3>1. fires' = fires \/ fires' = fires \union s.present
      BY <1>2 DEF SetupStep, BeginSetup, Probe, FindOne, Create, CreateRefused, CutOff, Report, Created, FiresFor
    <3> QED
      BY <2>2, <3>1 DEF ProvisioningTypes
  <2>7. \A q \in Setup : setup'[q].at \in {"idle", "next", "create", "ok", "failed"}
    <3>1. \E t : Reaches(p, t) /\ t.at \in {"next", "create", "ok", "failed"}
      <4>1. CASE BeginSetup(p)
        <5>. DEFINE t == [NoSetup EXCEPT !.at = "next", !.toProbe = TicketClass]
        <5>1. Reaches(p, t) /\ t.at = "next"
          BY <4>1 DEF BeginSetup, NoSetup
        <5>. HIDE DEF t
        <5> QED
          BY <5>1
      <4>2. CASE Probe(p)
        <5>. DEFINE e(c) == [s EXCEPT !.toProbe = @ \ {c}]
                    f(c) == [e(c) EXCEPT !.present = @ \union ({c} \intersect InDatamodel),
                                         !.toTrigger = @ \union ({c} \intersect InDatamodel)]
        <5>1. s.at = "next" /\ \E c : Reaches(p, e(c)) \/ Reaches(p, f(c))
          BY <4>2 DEF Probe
        <5>2. \A c : e(c).at = s.at /\ f(c).at = s.at
          BY <2>1 DEF WellShaped, SetupFields
        <5>. HIDE DEF e, f
        <5> QED
          BY <5>1, <5>2
      <4>3. CASE FindOne(p)
        <5>. DEFINE e(o) == Ensured([s EXCEPT !.object = o])
                    f(o) == [[s EXCEPT !.object = o] EXCEPT !.at = "create"]
        <5>1. \E o : Reaches(p, IF objects[o] > 0 THEN e(o) ELSE f(o))
          BY <4>3 DEF FindOne
        <5>2. \A o : e(o).at = "next" /\ f(o).at = "create"
          BY <2>1 DEF Ensured, WellShaped, SetupFields
        <5>. HIDE DEF e, f
        <5> QED
          BY <5>1, <5>2
      <4>4. CASE Create(p)
        <5>. DEFINE t == [Ensured(s) EXCEPT
                            !.made = @ \union {c \in InDatamodel : UpdateTrigger(c) = s.object}]
        <5>1. Reaches(p, t)
          BY <4>4 DEF Create
        <5>2. t.at = "next"
          BY <2>1 DEF Ensured, WellShaped, SetupFields
        <5>. HIDE DEF t
        <5> QED
          BY <5>1, <5>2
      <4>5. CASE CreateRefused(p) \/ CutOff(p) \/ Report(p)
        BY <2>1, <4>5 DEF CreateRefused, CutOff, Report, WellShaped, SetupFields
      <4> QED
        BY <1>2, <4>1, <4>2, <4>3, <4>4, <4>5 DEF SetupStep
    <3>2. PICK t : Reaches(p, t) /\ t.at \in {"next", "create", "ok", "failed"}
      BY <3>1
    <3>3. setup'[p] = t /\ \A q \in Setup : q # p => setup'[q] = setup[q]
      BY <2>1, <3>2 DEF Reaches
    <3> QED
      BY <3>2, <3>3 DEF ProvisioningTypes
  <2> QED
    BY <2>3, <2>4, <2>5, <2>6, <2>7 DEF ProvisioningTypes
<1> QED
  BY <1>1, <1>2 DEF ProvisioningNext

\* iTop and the setups stay well formed.
THEOREM ProvisioningTyped == ProvisioningSpec => []ProvisioningTypeOK
<1>1. ProvisioningInit => ProvisioningTypes
  <2> SUFFICES ASSUME ProvisioningInit PROVE ProvisioningTypes
    OBVIOUS
  <2>1. begun \in 0 .. MaxSetups /\ mishaps \in 0 .. MaxMishaps
    BY DEF ProvisioningInit
  <2> QED
    BY <2>1 DEF ProvisioningInit, ProvisioningTypes, NoSetup
<1>2. ProvisioningTypes /\ ProvisioningInv => ProvisioningTypeOK
  <2> SUFFICES ASSUME ProvisioningTypes, ProvisioningInv PROVE ProvisioningTypeOK
    OBVIOUS
  <2>1. ASSUME NEW p \in Setup
        PROVE  /\ setup[p].present \subseteq TicketClass
               /\ setup[p].at = "create" => setup[p].object \in Wired
    <3>1. Progress(setup[p], objects, misjudged)
      BY DEF ProvisioningInv
    <3>2. setup[p].at = "create" => setup[p].object \in NextObjects(setup[p])
      BY <3>1 DEF Progress
    <3> QED
      BY <3>1, <3>2, NextObjectsAre DEF Progress
  <2> QED
    BY <2>1 DEF ProvisioningTypes, ProvisioningTypeOK, ProvisioningInv
<1> QED
  BY <1>1, <1>2, ProvisioningStep, ProvisioningInvariant, PTL DEF ProvisioningSpec
=============================================================================
