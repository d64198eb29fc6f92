------------------------------- MODULE Energy -------------------------------
(***************************************************************************)
(* Energy sites: routes/energy.ts and storage/energyStore.ts, with the     *)
(* gate that routes/krc20_issue.ts keeps before it issues a token.         *)
(*                                                                         *)
(* A solar plant (its sid at Hoymiles) is a site of one user.  Downloads   *)
(* add its daily production to what the site is owed; issuing tokens on a  *)
(* network takes from it.  A token that is locked for energy is issued for *)
(* sites only.  The file is read and written as a whole; two handlers wait *)
(* for Hoymiles in between, and one action below is the code between two   *)
(* awaits.                                                                 *)
(*                                                                         *)
(* A site and its ledger are one record.  A day produces one Wh.  There is *)
(* one token per network.  Owner and issuer checks refuse whole requests   *)
(* and are left out.                                                       *)
(***************************************************************************)
EXTENDS RequestTable, Naturals, FiniteSets

CONSTANTS
    Sites,       \* bound: site ids alive together
    Sids,        \* plants
    Starts,      \* activation dates
    Tabs,        \* browser tabs that issue
    MaxDay,      \* bound: the days
    MaxReveals   \* bound: reveal transactions

ASSUME EnergyAssumption ==
    /\ Starts \subseteq 0..MaxDay
    /\ MaxDay \in Nat /\ MaxReveals \in Nat /\ IsFiniteSet(Sites)

VARIABLES
    today,      \* the UTC day
    store,      \* energy.v1.json
    tab,        \* what the browser does between prepare and finalize-refresh
    reveals,    \* reveal transactions made
    booked,     \* history: Wh of each plant issued on mainnet by finalize-refresh
    overwrote   \* history: a write undid another

vars == <<today, store, req, tab, reveals, booked, overwrote>>

Networks == {"mainnet", "tn10"}
Days == 0..MaxDay
Never == MaxDay + 1
Amounts == 1..MaxDay
NoSite == [sid |-> "none"]
NoPreview == [network |-> "none"]
Preview == [network: Networks, amount: Amounts]
\* days: history, the days whose production is in the ledger
Site == [sid: Sids, is_active: BOOLEAN, start: Starts, at: Days \cup {Never},
         through: Days \cup {Never}, owed: 0..MaxDay, issued: [Networks -> 0..MaxDay],
         preview: Preview \cup {NoPreview}, reveal: 0..MaxReveals, days: SUBSET Days]
Locks == {"no_bucket", "unlocked", "locked"}
Store == [site: [Sites -> Site \cup {NoSite}], lock: [Networks -> Locks]]
\* a token issued from the normal issue page
FromPage(n) == [pc |-> "from_page", network |-> n]
Handlers ==
    {Idle}
    \cup [pc: {"sites_add"}, sid: Sids, start: Starts, snapshot: Store]
    \cup [pc: {"download"}, site: Sites, from: Days, to: Days, snapshot: Store]
TabStates ==
    {Idle} \cup {FromPage(n) : n \in Networks}
    \cup [pc: {"prepared", "revealed"}, site: Sites, network: Networks, amount: Amounts,
          reveal: 0..MaxReveals]

TypeOK ==
    /\ today \in Days
    /\ store \in Store
    /\ req \in [Reqs -> Handlers]
    /\ tab \in [Tabs -> TabStates]
    /\ reveals \in 0..MaxReveals
    /\ booked \in [Sids -> Nat]
    /\ overwrote \in BOOLEAN

\* A new file has no bucket for any network; one of an earlier version may,
\* and only such a bucket is kept (canonicalizeEnergyStore).
Init ==
    /\ today = 0 /\ reveals = 0
    /\ \E lock \in [Networks -> {"no_bucket", "unlocked"}] :
          store = [site |-> [s \in Sites |-> NoSite], lock |-> lock]
    /\ req = [r \in Reqs |-> Idle]
    /\ tab = [t \in Tabs |-> Idle]
    /\ booked = [p \in Sids |-> 0]
    /\ overwrote = FALSE

Has(file, s) == file.site[s] # NoSite
SidTaken(file, sid) == \E s \in Sites : Has(file, s) /\ file.site[s].sid = sid

WriteSite(s, site) == store' = [store EXCEPT !.site[s] = site]

\* A generated site id is none that anybody knows.
Unused(s) ==
    /\ ~Has(store, s)
    /\ \A r \in Reqs : req[r] # Idle => ~Has(req[r].snapshot, s)
    /\ \A t \in Tabs : tab[t].pc \in {"prepared", "revealed"} => tab[t].site # s

NewSite(sid, start) ==
    [sid |-> sid, is_active |-> TRUE, start |-> start, at |-> Never, through |-> Never,
     owed |-> 0, issued |-> [n \in Networks |-> 0], preview |-> NoPreview, reveal |-> 0,
     days |-> {}]

(***************************************************************************)
(* POST energy/sites/add and sites/remove.                                 *)
(***************************************************************************)
StartAdd(r, sid, start) ==
    /\ req[r] = Idle /\ ~SidTaken(store, sid)
    /\ req' = [req EXCEPT ![r] = [pc |-> "sites_add", sid |-> sid, start |-> start,
                                  snapshot |-> store]]
    /\ UNCHANGED <<today, store, tab, reveals, booked, overwrote>>

\* mutant: the file is read again before the write, but not the sid
AddMerged(r) ==
    /\ req[r].pc = "sites_add"
    /\ \E s \in Sites : Unused(s) /\ WriteSite(s, NewSite(req[r].sid, req[r].start))
    /\ req' = [req EXCEPT ![r] = Idle]
    /\ UNCHANGED <<today, tab, reveals, booked, overwrote>>

\* The time zone came: what is written is the file as it was before.
Added(r) ==
    /\ req[r].pc = "sites_add"
    /\ \E s \in Sites :
          /\ Unused(s)
          /\ store' = [req[r].snapshot EXCEPT !.site[s] = NewSite(req[r].sid, req[r].start)]
    /\ overwrote' = (overwrote \/ store # req[r].snapshot)
    /\ req' = [req EXCEPT ![r] = Idle]
    /\ UNCHANGED <<today, tab, reveals, booked>>

\* mutant: the ledger's mainnet issuance is not looked at
RemoveAnySite(s) ==
    /\ Has(store, s)
    /\ WriteSite(s, NoSite)
    /\ UNCHANGED <<today, req, tab, reveals, booked, overwrote>>

RemoveSite(s) ==
    /\ Has(store, s)
    /\ WriteSite(s, IF store.site[s].issued["mainnet"] = 0 THEN NoSite
                    ELSE [store.site[s] EXCEPT !.is_active = FALSE])
    /\ UNCHANGED <<today, req, tab, reveals, booked, overwrote>>

(***************************************************************************)
(* POST energy/download.  Days stand for times: a download of the next     *)
(* day is at least 24 hours later or is refused.                           *)
(***************************************************************************)
\* mutant: the last downloaded day again
StartDayAgain(site) == IF site.through = Never THEN site.start ELSE site.through

StartDay(site) == IF site.through = Never THEN site.start ELSE site.through + 1

StartDownload(r, s) ==
    /\ req[r] = Idle /\ Has(store, s)
    /\ store.site[s].at = Never \/ today > store.site[s].at
    /\ StartDay(store.site[s]) < today
    /\ req' = [req EXCEPT ![r] = [pc |-> "download", site |-> s, snapshot |-> store,
                                  from |-> StartDay(store.site[s]), to |-> today - 1]]
    /\ UNCHANGED <<today, store, tab, reveals, booked, overwrote>>

\* The days that a download counts, and the last of them, enter the site.
Imported(site, days, last) ==
    [site EXCEPT !.at = today, !.through = last, !.owed = @ + Cardinality(days),
                 !.days = @ \cup days]

\* summarizeHoymilesDownload: each day of the range once, as far as reported.
Downloaded(r) ==
    /\ req[r].pc = "download"
    /\ \E days \in SUBSET (req[r].from..req[r].to) : \E last \in days :
          /\ \A d \in days : d <= last
          /\ store' = [req[r].snapshot EXCEPT
                          !.site[req[r].site] = Imported(@, days, last)]
    /\ overwrote' = (overwrote \/ store # req[r].snapshot)
    /\ req' = [req EXCEPT ![r] = Idle]
    /\ UNCHANGED <<today, tab, reveals, booked>>

\* Hoymiles fails or reports nothing of use, or the process restarts.
HoymilesFails(r) ==
    /\ req[r] # Idle
    /\ req' = [req EXCEPT ![r] = Idle]
    /\ UNCHANGED <<today, store, tab, reveals, booked, overwrote>>

(***************************************************************************)
(* POST energy/tokens/lock, and the lock that a deploy or an import asks   *)
(* for.  Without the network's bucket the handler throws.                  *)
(***************************************************************************)
LockToken(n) ==
    /\ store.lock[n] # "no_bucket"
    /\ store' = [store EXCEPT !.lock[n] = "locked"]
    /\ UNCHANGED <<today, req, tab, reveals, booked, overwrote>>

(***************************************************************************)
(* Issuing: prepare, the issue itself, finalize-refresh.                   *)
(***************************************************************************)
IssuePrepare(t, s, n, amount) ==
    /\ tab[t] = Idle /\ Has(store, s)
    /\ store.lock[n] = "locked" /\ amount <= store.site[s].owed
    /\ WriteSite(s, [store.site[s] EXCEPT !.preview = [network |-> n, amount |-> amount],
                                          !.reveal = 0])
    /\ tab' = [tab EXCEPT ![t] = [pc |-> "prepared", site |-> s, network |-> n,
                                  amount |-> amount, reveal |-> 0]]
    /\ UNCHANGED <<today, req, reveals, booked, overwrote>>

\* buildIssueBase of krc20_issue.ts: a locked token is issued for a site of
\* the user that is active; the amount is not compared with what is owed.
IssueReveal(t) ==
    /\ tab[t].pc = "prepared" /\ reveals < MaxReveals
    /\ store.lock[tab[t].network] = "locked" =>
          Has(store, tab[t].site) /\ store.site[tab[t].site].is_active
    /\ reveals' = reveals + 1
    /\ tab' = [tab EXCEPT ![t].pc = "revealed", ![t].reveal = reveals + 1]
    /\ UNCHANGED <<today, store, req, booked, overwrote>>

\* The issue page sends no site.
IssueFromPage(t, n) ==
    /\ tab[t] = Idle /\ store.lock[n] # "locked"
    /\ tab' = [tab EXCEPT ![t] = FromPage(n)]
    /\ UNCHANGED <<today, store, req, reveals, booked, overwrote>>

Finalizable(site, h) ==
    /\ site.preview = [network |-> h.network, amount |-> h.amount]
    /\ site.reveal # h.reveal
    /\ h.amount <= site.owed

\* The issue of h enters the ledger of the site.
Issued(site, h) ==
    [site EXCEPT !.owed = @ - h.amount, !.reveal = h.reveal,
                 !.issued[h.network] = @ + h.amount]

\* The browser stays where it is if the answer is lost, and may ask again;
\* the same reveal is then already applied.
FinalizeRefresh(t) ==
    LET h == tab[t]
        old == store.site[h.site]
    IN
    /\ h.pc = "revealed" /\ Has(store, h.site)
    /\ store.lock[h.network] = "locked" /\ Finalizable(old, h)
    /\ WriteSite(h.site, Issued(old, h))
    /\ booked' = IF h.network = "mainnet"
                 THEN [booked EXCEPT ![old.sid] = @ + h.amount] ELSE booked
    /\ tab' \in {tab, [tab EXCEPT ![t] = Idle]}
    /\ UNCHANGED <<today, req, reveals, overwrote>>

\* The user gives up, or the server refuses or has already applied the reveal.
LeaveTab(t) ==
    /\ tab[t] # Idle
    /\ tab' = [tab EXCEPT ![t] = Idle]
    /\ UNCHANGED <<today, store, req, reveals, booked, overwrote>>

NextDay ==
    /\ today < MaxDay
    /\ today' = today + 1
    /\ UNCHANGED <<store, req, tab, reveals, booked, overwrote>>

Next ==
    \/ \E r \in Reqs :
          \/ \E sid \in Sids, start \in Starts : StartAdd(r, sid, start)
          \/ \E s \in Sites : StartDownload(r, s)
          \/ Added(r) \/ Downloaded(r) \/ HoymilesFails(r)
    \/ \E s \in Sites : RemoveSite(s)
    \/ \E n \in Networks : LockToken(n)
    \/ \E t \in Tabs :
          \/ \E s \in Sites, n \in Networks, amount \in Amounts : IssuePrepare(t, s, n, amount)
          \/ \E n \in Networks : IssueFromPage(t, n)
          \/ IssueReveal(t) \/ FinalizeRefresh(t) \/ LeaveTab(t)
    \/ NextDay

Spec == Init /\ [][Next]_vars

(***************************************************************************)
(* Properties.                                                             *)
(***************************************************************************)

(* What a site is owed and what was issued for it, on either network, add  *)
(* up to the production of the days it downloaded, each day counted once,  *)
(* whatever requests overlap and however often a finalize is repeated.     *)
LedgerAdds ==
    \A s \in Sites : Has(store, s) =>
        LET site == store.site[s] IN
        site.owed + site.issued["mainnet"] + site.issued["tn10"] = Cardinality(site.days)

(* A plant is one site's: two users who add it at the same time do not     *)
(* both have it afterwards, so its production is not owed twice.           *)
SidUnique ==
    \A s, u \in Sites :
        Has(store, s) /\ Has(store, u) /\ store.site[s].sid = store.site[u].sid => s = u

(* No plant has more issued on mainnet than it produced until yesterday,   *)
(* over all removals and additions of its site, as long as no write undid  *)
(* another: only a site without mainnet issuance is forgotten.             *)
BookedWithinProduction ==
    ~overwrote => \A p \in Sids : booked[p] <= today

=============================================================================
