--------------------------- MODULE TokenRegistry ---------------------------
(***************************************************************************)
(* Who may issue a KRC-20 token: the routes that deploy, import, issue and *)
(* hand over tokens (routes/krc20_deploy.ts, krc20_import.ts,              *)
(* krc20_issue.ts, krc20_chown.ts), the two files they keep                *)
(* (wrappedConfigStore.ts, tokenMetadataCacheStore.ts) and the reconciler  *)
(* that copies the indexer's view into them (krc20MetadataReconciler.ts).  *)
(*                                                                         *)
(* The truth is on the ledger, which an indexer reads; the server keeps    *)
(* its own record of a token's deployer and lets nobody else issue or hand *)
(* over.  An operation is a flow of four requests of the page (build the   *)
(* commit, submit it, wait for it, submit the reveal), each of which       *)
(* checks anew; a broker wallet signs an intent, and the control node      *)
(* sends both transactions.  Other flows, a change of the active wallet    *)
(* and lost replies come between any two steps.  Amounts, supplies, fees   *)
(* and the limits of names are left out.                                   *)
(***************************************************************************)
CONSTANTS
    Wallets,     \* addresses
    Brokered,    \* those of broker-custody wallets
    Tokens,
    Flows,       \* operations that may be under way together
    None

\* No address is blank, or an answer that names nobody.
ASSUME RegistryAssumption ==
    /\ Brokered \subseteq Wallets
    /\ None \notin Wallets /\ Wallets \cap {"blank", "nothing", "partial"} = {}

VARIABLES
    issuer,      \* the ledger: whom a token belongs to, None before its reveal
    config,      \* wrapped-config.v7.json: the deployers, the owners named in
                 \* the entries on the tokens (meta), and the wrapped tokens
    cache,       \* token-metadata-cache.v1.json: the issuer shown, or None
    buckets,     \* which of the files "cache" and "locks" know the network
    reserved,    \* energy.v1.json: tokens reserved to the energy page
    active,      \* the active wallet
    flow,
    claims,      \* history: who owned a token or was handed it or sent its deploy
    astray,      \* history: tokens to which an accident has happened
    orphans      \* history: tokens whose reveal was not registered

registryVars == <<issuer, config, cache, buckets, reserved, active, flow,
                  claims, astray, orphans>>
history == <<claims, astray, orphans>>

Address == Wallets \cup {None}
Files == {"cache", "locks"}
Blank == "blank"   \* an empty string in the files
NoFlow == [at |-> "idle"]
\* key: the wallet whose key signs; from: the active wallet of a reveal, or of a
\* request that waits for the indexer; to: the receiver of a hand-over, or the
\* deployer an issue expects; known: the reservation an issue read; asks: a
\* question to the indexer; saw: its answer.  What a request names and only its
\* last step reads is chosen there.
Flow(kind, t, to, key) ==
    [kind |-> kind, token |-> t, to |-> to, at |-> "start", key |-> key,
     from |-> key, known |-> FALSE, asks |-> "no", saw |-> "nothing"]

RegistryTypeOK ==
    /\ issuer \in [Tokens -> Address]
    /\ config.deployer \in [Tokens -> Address]
    /\ config.meta \in [Tokens -> Address] /\ config.wrapped \subseteq Tokens
    /\ cache \in [Tokens -> Address]
    /\ buckets \subseteq Files /\ reserved \subseteq Tokens /\ active \in Wallets
    /\ claims \in [Tokens -> SUBSET Wallets]
    /\ astray \subseteq Tokens /\ orphans \subseteq Tokens
    /\ \A f \in Flows :
          \/ flow[f] = NoFlow
          \/ /\ flow[f].token \in Tokens /\ flow[f].to \in Address
             /\ flow[f].key \in Address /\ flow[f].from \in Address
             /\ flow[f].kind \in {"deploy", "wrapped", "chown", "issue", "import"}
             /\ flow[f].at \in {"start", "built", "committed", "seen", "sending",
                                "sent", "registered", "import"}
             /\ flow[f].asks \in {"no", "asked", "answered"}
             /\ flow[f].saw \in Wallets \cup {"nothing", "partial"}

-----------------------------------------------------------------------------
(* The files *)

\* Every write goes through the canonical form, which keeps no blank deployer and
\* no blank owner.
Saved(c) ==
    LET kept(w) == IF w = Blank THEN None ELSE w IN
    [c EXCEPT !.deployer = [t \in Tokens |-> kept(@[t])],
              !.meta = [t \in Tokens |-> kept(@[t])]]

\* The deployers and the entries of version 6 are kept; its allow list becomes the
\* list of the wrapped tokens.
Migrated(old) ==
    [deployer |-> old.krc20Deployer,
     meta |-> old.krc20Meta,
     wrapped |-> old.allowed]

\* The first read turns what it finds into version 7.
ReadConfig(stored) == Saved(IF stored.version = 6 THEN Migrated(stored) ELSE stored.content)

Registered(t, who, owner) == Saved([config EXCEPT !.deployer[t] = who, !.meta[t] = owner])

-----------------------------------------------------------------------------
(* The indexer's answers *)

\* The answer is complete and, if an owner is expected, names that owner.
Confirms(saw, owner) == saw \in Wallets /\ owner \in {None, saw}

\* What is cached does not bear out the expected owner.
Incomplete(t, owner) == ~Confirms(IF cache[t] = None THEN "nothing" ELSE cache[t], owner)

\* A write to a network that the cache file does not know throws.
CanCache == "cache" \in buckets
Cached(t, saw) == cache' = [cache EXCEPT ![t] = saw]

\* An indexer that has not yet seen the token, or all of it, says so.
Answer(f) ==
    /\ flow[f] # NoFlow /\ flow[f].asks = "asked"
    /\ LET t == flow[f].token IN
       \E saw \in {"nothing", "partial"} \cup ({issuer[t]} \ {None}) :
          flow' = [flow EXCEPT ![f].asks = "answered", ![f].saw = saw]
    /\ UNCHANGED <<issuer, config, cache, buckets, reserved, active, history>>

-----------------------------------------------------------------------------
(* Flows *)

Under(f, kinds, at) == flow[f] # NoFlow /\ flow[f].kind \in kinds /\ flow[f].at = at
Quiet == UNCHANGED <<issuer, config, cache, buckets, reserved, active, history>>
\* A request of the page passes; a reveal remembers the active wallet.
Passes(f, at) ==
    /\ flow' = [flow EXCEPT ![f].at = at]
    /\ Quiet
Reveals(f) ==
    /\ flow' = [flow EXCEPT ![f].at = "sending", ![f].from = active]
    /\ Quiet
Ends(f) == flow' = [flow EXCEPT ![f] = NoFlow]
\* The page signs with the key it unlocked for the wallet that was active then.
Signs(f) == active = flow[f].key
Custody(w) == w \in Brokered

\* No other request of the token is about to write its record.
Alone(f) ==
    \A g \in Flows \ {f} :
       (flow[g] # NoFlow /\ flow[g].token = flow[f].token)
          => flow[g].at \notin {"sent", "registered"} /\ flow[g].asks # "answered"

Switch(w) ==
    /\ active' = w
    /\ UNCHANGED <<issuer, config, cache, buckets, reserved, flow, history>>

\* The page ends a flow that was refused, the process stops, or the reply of the
\* node or of the control node is lost.  What was sent stays sent.
Dropped(f) ==
    /\ flow[f] # NoFlow
    /\ Ends(f)
    /\ LET t == flow[f].token IN
       /\ orphans' = IF Under(f, {"deploy", "wrapped"}, "sent") THEN orphans \cup {t} ELSE orphans
       /\ astray' = IF Under(f, {"chown"}, "sent") THEN astray \cup {t} ELSE astray
    /\ UNCHANGED <<issuer, config, cache, buckets, reserved, active, claims>>

-----------------------------------------------------------------------------
(* Deploy *)

\* The server sends a wrapped deploy for no broker wallet.
DeployPasses(f) == flow[f].kind = "wrapped" => ~Custody(active)

StartDeploy(f) ==
    /\ flow[f] = NoFlow
    /\ \E t \in {u \in Tokens : issuer[u] = None}, kind \in {"deploy", "wrapped"} :
          /\ \A g \in Flows : flow[g] # NoFlow => flow[g].token # t
          /\ flow' = [flow EXCEPT ![f] = Flow(kind, t, None, active)]
    /\ Quiet

\* For a broker wallet the answer is the intent to sign.
BuildDeploy(f) ==
    /\ Under(f, {"deploy", "wrapped"}, "start") /\ DeployPasses(f) /\ Signs(f)
    /\ Passes(f, "built")

SubmitDeployCommit(f) ==
    /\ Under(f, {"deploy", "wrapped"}, "built") /\ DeployPasses(f)
    /\ ~Custody(flow[f].key) /\ ~Custody(active)
    /\ Passes(f, "committed")

AwaitDeployCommit(f) ==
    /\ Under(f, {"deploy", "wrapped"}, "committed") /\ DeployPasses(f) /\ ~Custody(active)
    /\ Passes(f, "seen")

\* The wallet that is active now becomes the deployer of the record.
RevealDeploy(f) ==
    /\ Under(f, {"deploy", "wrapped"}, "seen") /\ DeployPasses(f) /\ ~Custody(active)
    /\ Reveals(f)

\* The intent names the wallet, its key and its address.
SubmitDeployIntent(f) ==
    /\ Under(f, {"deploy"}, "built") /\ Custody(flow[f].key) /\ Signs(f)
    /\ Passes(f, "sending")

BroadcastDeploy(f) ==
    /\ Under(f, {"deploy", "wrapped"}, "sending")
    /\ LET t == flow[f].token IN
       /\ issuer' = [issuer EXCEPT ![t] = flow[f].key]
       /\ claims' = [claims EXCEPT ![t] = @ \cup {flow[f].key, flow[f].from}]
       /\ astray' = IF flow[f].from # flow[f].key THEN astray \cup {t} ELSE astray
       /\ orphans' = IF flow[f].kind = "wrapped" THEN orphans \cup {t} ELSE orphans
       /\ flow' = [flow EXCEPT ![f].at = "sent"]
    /\ UNCHANGED <<config, cache, buckets, reserved, active>>

\* mutant: the record is left to the indexer's answer
RegisterLater(f) ==
    /\ Under(f, {"deploy"}, "sent")
    /\ flow' = [flow EXCEPT ![f].at = "registered", ![f].asks = "asked"]
    /\ Quiet

\* The record is written before the indexer is asked.
RegisterPending(f) ==
    /\ Under(f, {"deploy"}, "sent")
    /\ LET t == flow[f].token
           who == flow[f].from IN
       /\ config' = Registered(t, who, who)
       /\ flow' = [flow EXCEPT ![f].at = "registered", ![f].asks = "asked"]
    /\ UNCHANGED <<issuer, cache, buckets, reserved, active, history>>

\* A reservation that the file has no bucket for fails; the deploy does not.
EnergyLock(t) == reserved' = IF "locks" \in buckets THEN reserved \cup {t} ELSE reserved

\* The answer confirms the deployer: it is cached, and the record is read again
\* and written as the deploy had it.  The reservation comes last.
RegisterResolved(f) ==
    /\ Under(f, {"deploy"}, "registered") /\ flow[f].asks = "answered"
    /\ LET t == flow[f].token
           confirmed == Confirms(flow[f].saw, flow[f].from)
           thrown == confirmed /\ ~CanCache
           written == confirmed /\ CanCache IN
       /\ IF written
          THEN /\ Cached(t, flow[f].saw)
               /\ config' = Registered(t, flow[f].from, flow[f].from)
          ELSE UNCHANGED <<cache, config>>
       /\ UNCHANGED reserved \/ (~thrown /\ EnergyLock(t))
    /\ Ends(f)
    /\ UNCHANGED <<issuer, buckets, active, history>>

\* A wrapped token is listed with its vault, and no deployer is recorded.
RegisterWrapped(f) ==
    /\ Under(f, {"wrapped"}, "sent")
    /\ config' = Saved([config EXCEPT !.wrapped = @ \cup {flow[f].token}])
    /\ Ends(f)
    /\ UNCHANGED <<issuer, cache, buckets, reserved, active, history>>

-----------------------------------------------------------------------------
(* Hand-over *)

\* Every stage asks for the recorded deployer anew.
ChownPasses(f) == config.deployer[flow[f].token] = active

StartChown(f) ==
    /\ flow[f] = NoFlow
    /\ \E t \in {u \in Tokens : issuer[u] # None}, to \in Wallets :
          flow' = [flow EXCEPT ![f] = Flow("chown", t, to, active)]
    /\ Quiet

BuildChown(f) ==
    /\ Under(f, {"chown"}, "start") /\ ChownPasses(f) /\ Signs(f)
    /\ Passes(f, "built")

SubmitChownCommit(f) ==
    /\ Under(f, {"chown"}, "built") /\ ChownPasses(f)
    /\ ~Custody(flow[f].key) /\ ~Custody(active)
    /\ Passes(f, "committed")

AwaitChownCommit(f) ==
    /\ Under(f, {"chown"}, "committed") /\ ChownPasses(f) /\ ~Custody(active)
    /\ Passes(f, "seen")

RevealChown(f) ==
    /\ Under(f, {"chown"}, "seen") /\ ChownPasses(f) /\ ~Custody(active)
    /\ Passes(f, "sending")

SubmitChownIntent(f) ==
    /\ Under(f, {"chown"}, "built") /\ ChownPasses(f) /\ Custody(flow[f].key) /\ Signs(f)
    /\ Passes(f, "sending")

\* The ledger takes a hand-over from the issuer only; the node takes any.
BroadcastChown(f) ==
    /\ Under(f, {"chown"}, "sending")
    /\ LET t == flow[f].token
           to == flow[f].to IN
       /\ issuer' = IF issuer[t] = flow[f].key THEN [issuer EXCEPT ![t] = to] ELSE issuer
       /\ astray' = IF issuer[t] = flow[f].key /\ Alone(f) THEN astray ELSE astray \cup {t}
       /\ claims' = [claims EXCEPT ![t] = @ \cup {to}]
       /\ flow' = [flow EXCEPT ![f].at = "sent"]
    /\ UNCHANGED <<config, cache, buckets, reserved, active, orphans>>

\* mutant: the record is left to the next issue
ForgetChown(f) ==
    /\ Under(f, {"chown"}, "sent")
    /\ Ends(f)
    /\ Quiet

\* The record follows the reveal without waiting for the ledger.  The entry on
\* the token keeps the owner it named.
ApplyChown(f) ==
    /\ Under(f, {"chown"}, "sent")
    /\ LET t == flow[f].token IN
       config' = Registered(t, flow[f].to, config.meta[t])
    /\ Ends(f)
    /\ UNCHANGED <<issuer, cache, buckets, reserved, active, history>>

-----------------------------------------------------------------------------
(* Issue and burn *)

\* Bound: one issue at a time; it changes no record that another one reads
\* otherwise than an import does.
StartIssue(f) ==
    /\ flow[f] = NoFlow
    /\ \A g \in Flows : flow[g] # NoFlow => flow[g].kind # "issue"
    /\ \E t \in {u \in Tokens : issuer[u] # None} :
          flow' = [flow EXCEPT ![f] = Flow("issue", t, None, active)]
    /\ Quiet

\* A token without a recorded deployer that is reserved is looked up in the cache.
ExpectedDeployer(x) == IF x.to = None /\ x.known THEN cache[x.token] ELSE x.to
IssuePasses(x) == ExpectedDeployer(x) = x.from

\* A reserved token is issued for a site that the request names; one that names
\* none is refused like one of a wallet that may not issue.
\* What the stages do once the checks have passed:
IssueBuilt(x) == IF x.from = x.key THEN [x EXCEPT !.at = "built"] ELSE NoFlow
IssueCommitted(x) ==
    IF Custody(x.from) THEN IF x.from = x.key THEN [x EXCEPT !.at = "sending"] ELSE NoFlow
                       ELSE IF Custody(x.key) THEN NoFlow ELSE [x EXCEPT !.at = "committed"]
IssueSeen(x) == [x EXCEPT !.at = "seen"]
IssueRevealed(x) == IF Custody(x.from) THEN NoFlow ELSE [x EXCEPT !.at = "sending"]

Checked(x) ==
    LET y == IF ~IssuePasses(x) THEN NoFlow
             ELSE CASE x.at = "start" -> IssueBuilt(x)
                    [] x.at = "built" -> IssueCommitted(x)
                    [] x.at = "committed" -> IssueSeen(x)
                    [] x.at = "seen" -> IssueRevealed(x) IN
    IF y = NoFlow THEN NoFlow
    ELSE [y EXCEPT !.to = None, !.from = y.key, !.known = FALSE, !.asks = "no", !.saw = "nothing"]

\* Each of the four requests reads the record and the reservation.  If the cache
\* does not bear the record out, the indexer is asked before it goes on.
AskIssue(f) ==
    /\ flow[f] # NoFlow /\ flow[f].kind = "issue" /\ flow[f].asks = "no"
    /\ flow[f].at \in {"start", "built", "committed", "seen"}
    /\ LET t == flow[f].token
           d == config.deployer[t]
           x == [flow[f] EXCEPT !.from = active, !.to = d, !.known = t \in reserved] IN
       flow' = [flow EXCEPT ![f] =
                  IF d = None \/ Incomplete(t, d) THEN [x EXCEPT !.asks = "asked"] ELSE Checked(x)]
    /\ Quiet

\* The answer is held to the deployer that was expected when the request began,
\* and overwrites the record of now.
Reconcile(f) ==
    /\ flow[f] # NoFlow /\ flow[f].kind = "issue" /\ flow[f].asks = "answered"
    /\ LET t == flow[f].token
           x == flow[f]
           owner == IF x.to # None THEN x.to ELSE x.from IN
       IF Confirms(x.saw, owner)
       THEN /\ config' = Registered(t, owner, owner)
            /\ IF CanCache
               THEN /\ Cached(t, x.saw)
                    /\ flow' = [flow EXCEPT ![f] = Checked([x EXCEPT !.to = owner])]
               ELSE Ends(f) /\ UNCHANGED cache
       ELSE /\ flow' = [flow EXCEPT ![f] = Checked(x)]
            /\ UNCHANGED <<config, cache>>
    /\ UNCHANGED <<issuer, buckets, reserved, active, history>>

\* The ledger counts an issue of the issuer only; amounts are left out.
BroadcastIssue(f) ==
    /\ Under(f, {"issue"}, "sending")
    /\ Ends(f)
    /\ Quiet

-----------------------------------------------------------------------------
(* Import, and what happens outside *)

StartImport(f) ==
    /\ flow[f] = NoFlow
    /\ \E t \in {u \in Tokens : issuer[u] # None} :
          flow' = [flow EXCEPT ![f] = [Flow("import", t, None, None)
                                         EXCEPT !.at = "import", !.asks = "asked"]]
    /\ Quiet

\* mutant: a complete answer will do
ConfirmsAny(saw, owner) == saw \in Wallets

ConfirmsImport(saw, owner) == Confirms(saw, owner)

\* The reservation is refused to a token with an amount outstanding.
ImportLock(t) == UNCHANGED reserved \/ EnergyLock(t)

\* The cache is written first, then the record; the deployer only if the request
\* names the owner.
ImportAnswered(f) ==
    /\ Under(f, {"import"}, "import") /\ flow[f].asks = "answered"
    /\ LET t == flow[f].token
           d == config.deployer[t]
           shown == IF config.meta[t] # None THEN config.meta[t] ELSE d IN
       \E owner \in Address :
       IF ConfirmsImport(flow[f].saw, owner) /\ CanCache
       THEN /\ Cached(t, flow[f].saw)
            /\ config' = IF owner # None THEN Registered(t, owner, owner)
                                          ELSE Registered(t, d, shown)
            /\ astray' = IF owner = issuer[t] /\ Alone(f) THEN astray \ {t} ELSE astray
            /\ ImportLock(t)
       ELSE UNCHANGED <<cache, config, astray, reserved>>
    /\ Ends(f)
    /\ UNCHANGED <<issuer, buckets, active, claims, orphans>>

\* Another wallet program hands the token over.  Bound: once between accidents.
OutsideMove(t) ==
    /\ issuer[t] # None /\ t \notin astray
    /\ \E w \in Wallets \ {issuer[t]} :
          /\ issuer' = [issuer EXCEPT ![t] = w]
          /\ claims' = [claims EXCEPT ![t] = @ \cup {w}]
    /\ astray' = astray \cup {t}
    /\ UNCHANGED <<config, cache, buckets, reserved, active, flow, orphans>>

\* The administrator puts the file with the deployer filled in, as the issue page
\* asks for.
PutConfig(t) ==
    /\ issuer[t] # None /\ config.deployer[t] = None
    /\ config' = Saved([config EXCEPT !.deployer[t] = issuer[t]])
    /\ UNCHANGED <<issuer, cache, buckets, reserved, active, flow, history>>

-----------------------------------------------------------------------------
\* Tokens of an earlier version may be in the file, with or without a deployer.
RegistryInit ==
    /\ \E old \in SUBSET Tokens, w \in Wallets : \E listed \in SUBSET old :
          /\ issuer = [t \in Tokens |-> IF t \in old THEN w ELSE None]
          /\ config = ReadConfig([version |-> 6, allowed |-> {},
                                  krc20Deployer |-> [t \in Tokens |-> IF t \in listed THEN w ELSE Blank],
                                  krc20Meta |-> [t \in Tokens |-> Blank]])
          /\ claims = [t \in Tokens |-> IF t \in old THEN {w} ELSE {}]
          /\ orphans = old \ listed
    /\ reserved = {} /\ astray = {}
    /\ cache = [t \in Tokens |-> None]
    /\ buckets \in {{}, Files}
    /\ active \in Wallets
    /\ flow = [f \in Flows |-> NoFlow]

Deploying(f) ==
    \/ StartDeploy(f) \/ BuildDeploy(f) \/ SubmitDeployCommit(f) \/ AwaitDeployCommit(f)
    \/ RevealDeploy(f) \/ SubmitDeployIntent(f) \/ BroadcastDeploy(f)
    \/ RegisterPending(f) \/ RegisterResolved(f) \/ RegisterWrapped(f)

HandingOver(f) ==
    \/ StartChown(f) \/ BuildChown(f) \/ SubmitChownCommit(f) \/ AwaitChownCommit(f)
    \/ RevealChown(f) \/ SubmitChownIntent(f) \/ BroadcastChown(f) \/ ApplyChown(f)

Issuing(f) == StartIssue(f) \/ AskIssue(f) \/ Reconcile(f) \/ BroadcastIssue(f)

RegistryNext ==
    \/ \E f \in Flows : \/ Deploying(f) \/ HandingOver(f) \/ Issuing(f)
                        \/ StartImport(f) \/ ImportAnswered(f) \/ Answer(f) \/ Dropped(f)
    \/ \E t \in Tokens : OutsideMove(t) \/ PutConfig(t)
    \/ \E w \in Wallets : Switch(w)

RegistrySpec == RegistryInit /\ [][RegistryNext]_registryVars

-----------------------------------------------------------------------------
\* Nobody becomes the recorded issuer of a token who never owned it, was never
\* handed it and did not send its deploy, whatever owner an import names and
\* however answers of the indexer arrive late.
RecordedHasClaim ==
    \A t \in Tokens :
       /\ config.deployer[t] \in claims[t] \cup {None}
       /\ config.meta[t] \in claims[t] \cup {None}

\* The recorded deployer is the issuer on the ledger, except after an accident: a
\* deploy sent after a change of wallet, a hand-over whose reply was lost, which
\* the ledger refused, or which was sent while another request of the token had
\* yet to write, and a hand-over by other means.  In every other order of requests
\* the record is right, and an import that names the owner repairs it.
RecordFollowsLedger ==
    \A t \in Tokens \ astray :
       (\A f \in Flows : Under(f, {"chown"}, "sent") => flow[f].token # t)
          => config.deployer[t] \in {None, issuer[t]}

\* A deploy that is on the ledger is recorded, or its handler has just learnt so,
\* whether or not the indexer ever answers and whatever the cache file knows;
\* only a lost reply of the node leaves its token without an issuer.
DeployIsRegistered ==
    \A t \in Tokens \ orphans :
       issuer[t] # None => \/ config.deployer[t] # None
                          \/ \E f \in Flows : Under(f, {"deploy"}, "sent") /\ flow[f].token = t

=============================================================================
