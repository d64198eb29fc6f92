----------------------------- MODULE Krc20Proofs ----------------------------
(***************************************************************************)
(* KRC-20 tokens: what energy sites may issue, who may issue at all        *)
(* (TokenRegistry), and the open swaps in which tokens are sold (OpenSwap) *)
(* have a part each.                                                       *)
(*                                                                         *)
(* Energy: the ledgers add up, a plant is one site's and is issued no more *)
(* than it produced, for any numbers of sites, plants, requests and days.  *)
(*                                                                         *)
(* A handler writes the file that it read before its await, so what holds  *)
(* of the file must hold of every file that a handler carries: GoodFile.   *)
(* A waiting sites/add also carries a file without its plant, and a        *)
(* waiting download starts behind every day that its file has counted.     *)
(***************************************************************************)
EXTENDS Energy, TokenRegistry, OpenSwap, TLAPS, FiniteSetTheorems

AnySite == [sid: Sids, is_active: BOOLEAN, start: Nat, at: Nat, through: Nat, owed: Nat,
            issued: [Networks -> Nat], preview: Preview \cup {NoPreview}, reveal: Nat,
            days: SUBSET Nat]

\* Every counted day is behind the next day to download.
GoodSite(x) ==
    /\ x \in AnySite
    /\ IsFiniteSet(x.days)
    /\ \A d \in x.days : d < StartDay(x)
    /\ x.owed + x.issued["mainnet"] + x.issued["tn10"] = Cardinality(x.days)

GoodFile(f) ==
    /\ DOMAIN f = {"site", "lock"}
    /\ DOMAIN f.site = Sites
    /\ \A s \in Sites : Has(f, s) => GoodSite(f.site[s])
    /\ \A s, u \in Sites : Has(f, s) /\ Has(f, u) /\ f.site[s].sid = f.site[u].sid => s = u

GoodHandler(h) ==
    /\ h.pc \in {"idle", "sites_add", "download"}
    /\ h.pc # "idle" => GoodFile(h.snapshot)
    /\ h.pc = "sites_add" => h.sid \in Sids /\ h.start \in Nat /\ ~SidTaken(h.snapshot, h.sid)
    /\ h.pc = "download" =>
          /\ h.site \in Sites /\ Has(h.snapshot, h.site)
          /\ h.from = StartDay(h.snapshot.site[h.site])
          /\ h.to \in Nat /\ h.to < Never

GoodTab(h) ==
    h.pc \in {"prepared", "revealed"} =>
        h.site \in Sites /\ h.network \in Networks /\ h.amount \in Nat /\ h.reveal \in Nat

IInv ==
    /\ today \in Days /\ reveals \in Nat
    /\ GoodFile(store)
    /\ DOMAIN req = Reqs /\ \A r \in Reqs : GoodHandler(req[r])
    /\ DOMAIN tab = Tabs /\ \A t \in Tabs : GoodTab(tab[t])

-----------------------------------------------------------------------------
\* Writing one site of a good file.

\* A good site whose plant no other site has leaves the file good.
LEMMA PutSite ==
    ASSUME NEW f, GoodFile(f), NEW s \in Sites, NEW x, GoodSite(x),
           \A u \in Sites \ {s} : Has(f, u) => f.site[u].sid # x.sid
    PROVE  GoodFile([f EXCEPT !.site[s] = x])
<1> DEFINE g == [f EXCEPT !.site[s] = x]
<1>1. DOMAIN g = {"site", "lock"} /\ DOMAIN g.site = Sites
  BY DEF GoodFile
<1>2. g.site[s] = x /\ \A u \in Sites \ {s} : g.site[u] = f.site[u]
  BY DEF GoodFile
<1>3. \A u \in Sites : Has(g, u) => GoodSite(g.site[u])
  BY <1>2 DEF GoodFile, Has
<1>4. \A u, v \in Sites : Has(g, u) /\ Has(g, v) /\ g.site[u].sid = g.site[v].sid => u = v
  BY <1>2 DEF GoodFile, Has
<1> HIDE DEF g
<1>5. QED
  BY <1>1, <1>3, <1>4 DEF GoodFile, g

\* So does taking a site out.
LEMMA DropSite ==
    ASSUME NEW f, GoodFile(f), NEW s \in Sites
    PROVE  GoodFile([f EXCEPT !.site[s] = NoSite])
<1> DEFINE g == [f EXCEPT !.site[s] = NoSite]
<1>1. DOMAIN g = {"site", "lock"} /\ DOMAIN g.site = Sites
  BY DEF GoodFile
<1>2. g.site[s] = NoSite /\ \A u \in Sites \ {s} : g.site[u] = f.site[u]
  BY DEF GoodFile
<1>3. \A u \in Sites : Has(g, u) => GoodSite(g.site[u])
  BY <1>2 DEF GoodFile, Has
<1>4. \A u, v \in Sites : Has(g, u) /\ Has(g, v) /\ g.site[u].sid = g.site[v].sid => u = v
  BY <1>2 DEF GoodFile, Has
<1> HIDE DEF g
<1>5. QED
  BY <1>1, <1>3, <1>4 DEF GoodFile, g

\* A site that keeps its plant takes the place of what it was.
LEMMA UpdateSite ==
    ASSUME NEW f, GoodFile(f), NEW s \in Sites, Has(f, s), NEW x, GoodSite(x),
           x.sid = f.site[s].sid
    PROVE  GoodFile([f EXCEPT !.site[s] = x])
<1>1. \A u \in Sites \ {s} : Has(f, u) => f.site[u].sid # x.sid
  BY DEF GoodFile
<1>2. QED
  BY <1>1, PutSite

-----------------------------------------------------------------------------
\* The ledger of one site.

LEMMA StartDayTyped ==
    ASSUME NEW x \in AnySite
    PROVE  StartDay(x) \in Nat
BY EnergyAssumption DEF StartDay, AnySite

\* A site that is added owes nothing.
LEMMA NewSiteGood ==
    ASSUME NEW sid \in Sids, NEW start \in Nat
    PROVE  GoodSite(NewSite(sid, start)) /\ NewSite(sid, start).sid = sid
BY FS_EmptySet, EnergyAssumption DEF GoodSite, NewSite, AnySite, Never, Networks, StartDay

\* A download counts days that no earlier one counted.
LEMMA DownloadedGood ==
    ASSUME NEW x, GoodSite(x), today \in Days, NEW to \in Nat, to < Never,
           NEW days \in SUBSET (StartDay(x)..to), NEW last \in days,
           \A d \in days : d <= last
    PROVE  GoodSite(Imported(x, days, last)) /\ Imported(x, days, last).sid = x.sid
<1> DEFINE y == Imported(x, days, last)
<1>1. x \in AnySite /\ StartDay(x) \in Nat /\ IsFiniteSet(x.days)
  BY StartDayTyped DEF GoodSite
<1>2. IsFiniteSet(days) /\ Cardinality(days) \in Nat
  <2>1. IsFiniteSet(StartDay(x)..to)
    BY <1>1, FS_Interval
  <2>2. IsFiniteSet(days)
    BY <2>1, FS_Subset
  <2>3. QED
    BY <2>2, FS_CardinalityType
<1>3. x.days \cap days = {}
  BY <1>1 DEF GoodSite, AnySite
<1>4. /\ IsFiniteSet(x.days \cup days)
      /\ Cardinality(x.days \cup days) = Cardinality(x.days) + Cardinality(days)
  <2>1. Cardinality(x.days) \in Nat
    BY <1>1, FS_CardinalityType
  <2>2. Cardinality(x.days \cap days) = 0
    BY <1>3, FS_EmptySet
  <2>3. /\ IsFiniteSet(x.days \cup days)
        /\ Cardinality(x.days \cup days)
             = Cardinality(x.days) + Cardinality(days) - Cardinality(x.days \cap days)
    BY <1>1, <1>2, FS_Union
  <2>4. QED
    BY <1>2, <2>1, <2>2, <2>3
<1>5. last \in Nat /\ last # Never /\ StartDay(x) <= last
  BY <1>1, EnergyAssumption DEF Never
<1>6. /\ y \in AnySite /\ y.sid = x.sid /\ y.through = last
      /\ y.owed = x.owed + Cardinality(days) /\ y.days = x.days \cup days
      /\ y.issued = x.issued
  <2>1. today \in Nat /\ last \in Nat
    BY <1>5, EnergyAssumption DEF Days
  <2>2. x.owed + Cardinality(days) \in Nat
    BY <1>1, <1>2 DEF AnySite
  <2>3. x.days \cup days \in SUBSET Nat
    <3>1. \A d \in days : d \in Nat
      BY <1>1
    <3>2. x.days \in SUBSET Nat
      BY <1>1 DEF AnySite
    <3>3. QED
      BY <3>1, <3>2
  <2>4. /\ y.sid = x.sid /\ y.through = last /\ y.owed = x.owed + Cardinality(days)
        /\ y.days = x.days \cup days /\ y.issued = x.issued
    BY <1>1 DEF AnySite, Imported
  <2>5. y \in AnySite
    BY <1>1, <2>1, <2>2, <2>3 DEF AnySite, Imported
  <2>6. QED
    BY <2>4, <2>5
<1> HIDE DEF y
<1>7. \A d \in y.days : d < StartDay(y)
  BY <1>1, <1>5, <1>6 DEF GoodSite, StartDay, AnySite
<1>8. y.owed + y.issued["mainnet"] + y.issued["tn10"] = Cardinality(y.days)
  <2>1. x.owed \in Nat /\ x.issued["mainnet"] \in Nat /\ x.issued["tn10"] \in Nat
    BY <1>1 DEF AnySite, Networks
  <2>2. x.owed + x.issued["mainnet"] + x.issued["tn10"] = Cardinality(x.days)
    BY DEF GoodSite
  <2>3. QED
    BY <1>2, <1>4, <1>6, <2>1, <2>2
<1>9. QED
  BY <1>4, <1>6, <1>7, <1>8 DEF GoodSite, y

\* A finalize moves what was owed to what was issued.
LEMMA FinalizedGood ==
    ASSUME NEW x, GoodSite(x), NEW h, h.network \in Networks, h.amount \in Nat,
           h.amount <= x.owed, h.reveal \in Nat
    PROVE  GoodSite(Issued(x, h)) /\ Issued(x, h).sid = x.sid
<1> DEFINE y == Issued(x, h)
<1>1. x \in AnySite /\ x.owed \in Nat /\ x.issued \in [Networks -> Nat]
  BY DEF GoodSite, AnySite
<1>2. /\ y.sid = x.sid /\ y.through = x.through /\ y.start = x.start /\ y.days = x.days
      /\ y.owed = x.owed - h.amount
      /\ y.issued = [x.issued EXCEPT ![h.network] = @ + h.amount]
  BY <1>1 DEF AnySite, Issued
<1>3. y \in AnySite
  <2>1. x.owed - h.amount \in Nat /\ [x.issued EXCEPT ![h.network] = @ + h.amount] \in [Networks -> Nat]
    BY <1>1
  <2>2. QED
    BY <1>1, <2>1 DEF AnySite, Issued
<1> HIDE DEF y
<1>4. \A d \in y.days : d < StartDay(y)
  BY <1>2 DEF GoodSite, StartDay
<1>5. y.issued["mainnet"] + y.issued["tn10"] = x.issued["mainnet"] + x.issued["tn10"] + h.amount
  BY <1>1, <1>2 DEF Networks
<1>6. y.owed + y.issued["mainnet"] + y.issued["tn10"] = Cardinality(y.days)
  <2>1. /\ x.issued["mainnet"] \in Nat /\ x.issued["tn10"] \in Nat
        /\ y.issued["mainnet"] \in Nat /\ y.issued["tn10"] \in Nat
    BY <1>1, <1>3 DEF AnySite, Networks
  <2>2. x.owed + x.issued["mainnet"] + x.issued["tn10"] = Cardinality(y.days)
    BY <1>2 DEF GoodSite
  <2>3. QED
    BY <1>1, <1>2, <1>5, <2>1, <2>2
<1>7. QED
  BY <1>2, <1>3, <1>4, <1>6 DEF GoodSite, y

-----------------------------------------------------------------------------
\* The inductive invariant.

LEMMA InitGood == Init => IInv
<1> SUFFICES ASSUME Init PROVE IInv
  OBVIOUS
<1>1. today \in Days /\ reveals \in Nat
  BY EnergyAssumption DEF Init, Days
<1>2. GoodFile(store)
  BY DEF Init, GoodFile, Has
<1>3. DOMAIN req = Reqs /\ \A r \in Reqs : GoodHandler(req[r])
  BY DEF Init, GoodHandler, Idle
<1>4. DOMAIN tab = Tabs /\ \A t \in Tabs : GoodTab(tab[t])
  BY DEF Init, GoodTab, Idle
<1>5. QED
  BY <1>1, <1>2, <1>3, <1>4 DEF IInv

\* Replacing one handler, or one tab, by a good one.
LEMMA PutHandler ==
    ASSUME IInv, NEW r \in Reqs, NEW h, GoodHandler(h), req' = [req EXCEPT ![r] = h]
    PROVE  DOMAIN req' = Reqs /\ \A q \in Reqs : GoodHandler(req'[q])
BY DEF IInv

LEMMA PutTab ==
    ASSUME IInv, NEW t \in Tabs, NEW h, GoodTab(h), tab' = [tab EXCEPT ![t] = h]
    PROVE  DOMAIN tab' = Tabs /\ \A u \in Tabs : GoodTab(tab'[u])
BY DEF IInv

LEMMA IdleGood == GoodHandler(Idle) /\ GoodTab(Idle)
BY DEF GoodHandler, GoodTab, Idle

\* An update of one site of the file, by a handler that reads it now.
LEMMA WriteGood ==
    ASSUME IInv, NEW s \in Sites, Has(store, s), NEW x, GoodSite(x),
           x.sid = store.site[s].sid, WriteSite(s, x)
    PROVE  GoodFile(store')
BY UpdateSite DEF IInv, WriteSite

LEMMA StepGood == IInv /\ [Next]_vars => IInv'
<1> SUFFICES ASSUME IInv, [Next]_vars PROVE IInv'
  OBVIOUS
<1>1. ASSUME NEW r \in Reqs, NEW sid \in Sids, NEW start \in Starts, StartAdd(r, sid, start)
      PROVE  IInv'
  <2> DEFINE h == [pc |-> "sites_add", sid |-> sid, start |-> start, snapshot |-> store]
  <2>1. start \in Nat
    BY EnergyAssumption
  <2>2. GoodHandler(h)
    BY <1>1, <2>1 DEF GoodHandler, StartAdd, IInv
  <2> HIDE DEF h
  <2>3. DOMAIN req' = Reqs /\ \A q \in Reqs : GoodHandler(req'[q])
    BY <1>1, <2>2, PutHandler DEF StartAdd, h
  <2>4. QED
    BY <1>1, <2>3 DEF StartAdd, IInv
<1>2. ASSUME NEW r \in Reqs, NEW s \in Sites, StartDownload(r, s)
      PROVE  IInv'
  <2> DEFINE h == [pc |-> "download", site |-> s, snapshot |-> store,
                   from |-> StartDay(store.site[s]), to |-> today - 1]
  <2>1. StartDay(store.site[s]) \in Nat /\ Has(store, s) /\ StartDay(store.site[s]) < today
    BY <1>2, StartDayTyped DEF StartDownload, IInv, GoodFile, GoodSite
  <2>2. today - 1 \in Nat /\ today - 1 < Never
    BY <2>1, EnergyAssumption DEF IInv, Days, Never
  <2>3. GoodHandler(h)
    BY <2>1, <2>2 DEF GoodHandler, IInv
  <2> HIDE DEF h
  <2>4. DOMAIN req' = Reqs /\ \A q \in Reqs : GoodHandler(req'[q])
    BY <1>2, <2>3, PutHandler DEF StartDownload, h
  <2>5. QED
    BY <1>2, <2>4 DEF StartDownload, IInv
<1>3. ASSUME NEW r \in Reqs, Added(r)
      PROVE  IInv'
  <2>1. /\ GoodFile(req[r].snapshot) /\ ~SidTaken(req[r].snapshot, req[r].sid)
        /\ req[r].sid \in Sids /\ req[r].start \in Nat
    BY <1>3 DEF Added, IInv, GoodHandler
  <2>2. PICK s \in Sites :
          store' = [req[r].snapshot EXCEPT !.site[s] = NewSite(req[r].sid, req[r].start)]
    BY <1>3 DEF Added
  <2>3. /\ GoodSite(NewSite(req[r].sid, req[r].start))
        /\ NewSite(req[r].sid, req[r].start).sid = req[r].sid
    BY <2>1, NewSiteGood
  <2>4. \A u \in Sites \ {s} :
          Has(req[r].snapshot, u) => req[r].snapshot.site[u].sid # req[r].sid
    BY <2>1 DEF SidTaken
  <2>5. GoodFile(store')
    BY <2>1, <2>2, <2>3, <2>4, PutSite
  <2>6. DOMAIN req' = Reqs /\ \A q \in Reqs : GoodHandler(req'[q])
    BY <1>3, IdleGood, PutHandler DEF Added
  <2>7. QED
    BY <1>3, <2>5, <2>6 DEF Added, IInv
<1>4. ASSUME NEW r \in Reqs, Downloaded(r)
      PROVE  IInv'
  <2>1. /\ GoodFile(req[r].snapshot) /\ req[r].site \in Sites
        /\ Has(req[r].snapshot, req[r].site)
        /\ req[r].from = StartDay(req[r].snapshot.site[req[r].site])
        /\ req[r].to \in Nat /\ req[r].to < Never
    BY <1>4 DEF Downloaded, IInv, GoodHandler
  <2> DEFINE old == req[r].snapshot.site[req[r].site]
  <2>2. PICK days \in SUBSET (req[r].from..req[r].to) : \E last \in days :
          /\ \A d \in days : d <= last
          /\ store' = [req[r].snapshot EXCEPT !.site[req[r].site] = Imported(@, days, last)]
    BY <1>4 DEF Downloaded
  <2>3. PICK last \in days :
          /\ \A d \in days : d <= last
          /\ store' = [req[r].snapshot EXCEPT !.site[req[r].site] = Imported(@, days, last)]
    BY <2>2
  <2>4. GoodSite(old) /\ today \in Days
    BY <2>1 DEF GoodFile, IInv
  <2>5. GoodSite(Imported(old, days, last)) /\ Imported(old, days, last).sid = old.sid
    BY <2>1, <2>3, <2>4, DownloadedGood
  <2>6. store' = [req[r].snapshot EXCEPT !.site[req[r].site] = Imported(old, days, last)]
    BY <2>1, <2>3 DEF GoodFile
  <2>7. GoodFile(store')
    BY <2>1, <2>5, <2>6, UpdateSite
  <2>8. DOMAIN req' = Reqs /\ \A q \in Reqs : GoodHandler(req'[q])
    BY <1>4, IdleGood, PutHandler DEF Downloaded
  <2>9. QED
    BY <1>4, <2>7, <2>8 DEF Downloaded, IInv
<1>5. ASSUME NEW r \in Reqs, HoymilesFails(r)
      PROVE  IInv'
  <2>1. DOMAIN req' = Reqs /\ \A q \in Reqs : GoodHandler(req'[q])
    BY <1>5, IdleGood, PutHandler DEF HoymilesFails
  <2>2. QED
    BY <1>5, <2>1 DEF HoymilesFails, IInv
<1>6. ASSUME NEW s \in Sites, RemoveSite(s)
      PROVE  IInv'
  <2> DEFINE x == [store.site[s] EXCEPT !.is_active = FALSE]
  <2>1. GoodSite(store.site[s]) /\ Has(store, s)
    BY <1>6 DEF RemoveSite, IInv, GoodFile
  <2>2. GoodSite(x) /\ x.sid = store.site[s].sid
    BY <2>1 DEF GoodSite, AnySite, StartDay
  <2>3. WriteSite(s, NoSite) \/ WriteSite(s, x)
    BY <1>6 DEF RemoveSite
  <2> HIDE DEF x
  <2>4. CASE WriteSite(s, NoSite)
    <3>1. GoodFile(store')
      BY <2>4, DropSite DEF WriteSite, IInv
    <3>2. QED
      BY <1>6, <3>1 DEF RemoveSite, IInv
  <2>5. CASE WriteSite(s, x)
    <3>1. GoodFile(store')
      BY <2>1, <2>2, <2>5, WriteGood
    <3>2. QED
      BY <1>6, <3>1 DEF RemoveSite, IInv
  <2>6. QED
    BY <2>3, <2>4, <2>5
<1>7. ASSUME NEW n \in Networks, LockToken(n)
      PROVE  IInv'
  <2>1. GoodFile(store')
    BY <1>7 DEF LockToken, IInv, GoodFile, Has
  <2>2. QED
    BY <1>7, <2>1 DEF LockToken, IInv
<1>8. ASSUME NEW t \in Tabs, NEW s \in Sites, NEW n \in Networks, NEW amount \in Amounts,
             IssuePrepare(t, s, n, amount)
      PROVE  IInv'
  <2> DEFINE x == [store.site[s] EXCEPT !.preview = [network |-> n, amount |-> amount],
                                        !.reveal = 0]
             h == [pc |-> "prepared", site |-> s, network |-> n, amount |-> amount,
                   reveal |-> 0]
  <2>1. GoodSite(store.site[s]) /\ Has(store, s)
    BY <1>8 DEF IssuePrepare, IInv, GoodFile
  <2>2. [network |-> n, amount |-> amount] \in Preview
    BY DEF Preview
  <2>3. GoodSite(x) /\ x.sid = store.site[s].sid
    BY <2>1, <2>2 DEF GoodSite, AnySite, StartDay
  <2>4. WriteSite(s, x)
    BY <1>8 DEF IssuePrepare
  <2>5. GoodTab(h)
    BY EnergyAssumption DEF GoodTab, Amounts
  <2> HIDE DEF x, h
  <2>6. GoodFile(store')
    BY <2>1, <2>3, <2>4, WriteGood
  <2>7. DOMAIN tab' = Tabs /\ \A u \in Tabs : GoodTab(tab'[u])
    BY <1>8, <2>5, PutTab DEF IssuePrepare, h
  <2>8. QED
    BY <1>8, <2>6, <2>7 DEF IssuePrepare, IInv
<1>9. ASSUME NEW t \in Tabs, IssueReveal(t)
      PROVE  IInv'
  <2>1. GoodTab(tab[t]) /\ tab[t].pc = "prepared" /\ reveals + 1 \in Nat
    BY <1>9 DEF IssueReveal, IInv
  <2>2. DOMAIN tab' = Tabs /\ \A u \in Tabs : u # t => tab'[u] = tab[u]
    BY <1>9 DEF IssueReveal, IInv
  <2>3. GoodTab(tab'[t])
    BY <1>9, <2>1 DEF IssueReveal, IInv, GoodTab
  <2>4. QED
    BY <1>9, <2>1, <2>2, <2>3 DEF IssueReveal, IInv
<1>10. ASSUME NEW t \in Tabs, NEW n \in Networks, IssueFromPage(t, n)
       PROVE  IInv'
  <2>1. GoodTab(FromPage(n))
    BY DEF GoodTab, FromPage
  <2>2. DOMAIN tab' = Tabs /\ \A u \in Tabs : GoodTab(tab'[u])
    BY <1>10, <2>1, PutTab DEF IssueFromPage
  <2>3. QED
    BY <1>10, <2>2 DEF IssueFromPage, IInv
<1>11. ASSUME NEW t \in Tabs, FinalizeRefresh(t)
       PROVE  IInv'
  <2> DEFINE h == tab[t]
             old == store.site[h.site]
             x == Issued(old, h)
  <2>1. /\ h.site \in Sites /\ h.network \in Networks /\ h.amount \in Nat
        /\ h.reveal \in Nat
    BY <1>11 DEF FinalizeRefresh, IInv, GoodTab
  <2>2. Has(store, h.site) /\ GoodSite(old) /\ h.amount <= old.owed
    BY <1>11, <2>1 DEF FinalizeRefresh, Finalizable, IInv, GoodFile
  <2>3. GoodSite(x) /\ x.sid = old.sid
    BY <2>1, <2>2, FinalizedGood
  <2>4. WriteSite(h.site, x)
    BY <1>11 DEF FinalizeRefresh
  <2> HIDE DEF x
  <2>5. GoodFile(store')
    BY <2>1, <2>2, <2>3, <2>4, WriteGood
  <2>6. DOMAIN tab' = Tabs /\ \A u \in Tabs : GoodTab(tab'[u])
    <3>1. CASE tab' = tab
      BY <3>1 DEF IInv
    <3>2. CASE tab' = [tab EXCEPT ![t] = Idle]
      BY <3>2, IdleGood, PutTab
    <3>3. QED
      BY <1>11, <3>1, <3>2 DEF FinalizeRefresh
  <2>7. QED
    BY <1>11, <2>5, <2>6 DEF FinalizeRefresh, IInv
<1>12. ASSUME NEW t \in Tabs, LeaveTab(t)
       PROVE  IInv'
  <2>1. DOMAIN tab' = Tabs /\ \A u \in Tabs : GoodTab(tab'[u])
    BY <1>12, IdleGood, PutTab DEF LeaveTab
  <2>2. QED
    BY <1>12, <2>1 DEF LeaveTab, IInv
<1>13. CASE NextDay
  BY <1>13, EnergyAssumption DEF NextDay, IInv, Days
<1>14. CASE UNCHANGED vars
  BY <1>14 DEF vars, IInv
<1>15. QED
  BY <1>1, <1>2, <1>3, <1>4, <1>5, <1>6, <1>7, <1>8, <1>9, <1>10, <1>11, <1>12, <1>13, <1>14
     DEF Next

LEMMA AlwaysGood == Spec => []IInv
BY InitGood, StepGood, PTL DEF Spec

-----------------------------------------------------------------------------
\* What a site is owed and what was issued for it add up to the production
\* of the days it downloaded, each counted once, whatever requests overlap.
THEOREM LedgersAdd == Spec => []LedgerAdds
<1>1. IInv => LedgerAdds
  BY DEF IInv, GoodFile, GoodSite, LedgerAdds
<1>2. QED
  BY <1>1, AlwaysGood, PTL

\* No two sites have one plant, however many users add it at the same time.
THEOREM PlantsUnique == Spec => []SidUnique
<1>1. IInv => SidUnique
  BY DEF IInv, GoodFile, SidUnique
<1>2. QED
  BY <1>1, AlwaysGood, PTL

-----------------------------------------------------------------------------
(* What is booked for a plant.  As long as no write undid another, the     *)
(* plant's site shows all that was ever booked for it, since a site with   *)
(* mainnet issuance is never forgotten; and it counted only days that are  *)
(* over, since a waiting download ends before the day it started on.       *)

SiteBooked(x) ==
    /\ x.issued["mainnet"] = booked[x.sid]
    /\ \A d \in x.days : d < today

FileBooked ==
    /\ \A s \in Sites : Has(store, s) => SiteBooked(store.site[s])
    /\ \A p \in Sids : booked[p] = 0 \/ SidTaken(store, p)

Books ==
    /\ booked \in [Sids -> Nat] /\ overwrote \in BOOLEAN
    /\ \A r \in Reqs : req[r].pc = "download" => req[r].to < today
    /\ ~overwrote => FileBooked

\* Any set of days before today has at most today's number of elements.
LEMMA DaysCounted ==
    ASSUME NEW days \in SUBSET Nat, today \in Nat, \A d \in days : d < today
    PROVE  Cardinality(days) \in Nat /\ Cardinality(days) <= today
<1>1. IsFiniteSet(0..(today - 1)) /\ Cardinality(0..(today - 1)) = today
  <2>1. CASE today = 0
    <3>1. 0..(today - 1) = {}
      BY <2>1
    <3> QED
      BY <2>1, <3>1, FS_EmptySet
  <2>2. CASE today > 0
    <3>1. 0 <= today - 1 /\ today - 1 \in Int /\ today - 1 - 0 + 1 = today
      BY <2>2
    <3>2. /\ IsFiniteSet(0..(today - 1))
          /\ Cardinality(0..(today - 1)) = IF 0 > today - 1 THEN 0 ELSE today - 1 - 0 + 1
      BY <3>1, FS_Interval
    <3> QED
      BY <3>1, <3>2
  <2> QED
    BY <2>1, <2>2
<1>2. days \in SUBSET (0..(today - 1))
  OBVIOUS
<1> QED
  BY <1>1, <1>2, FS_Subset, FS_CardinalityType

\* A site of the file is written over: it keeps its plant and shows what is booked.
LEMMA SiteRewritten ==
    ASSUME IInv, FileBooked, NEW s \in Sites, Has(store, s), NEW x, x # NoSite,
           x.sid = store.site[s].sid, store' = [store EXCEPT !.site[s] = x],
           \A p \in Sids : p # x.sid => booked'[p] = booked[p],
           x.issued["mainnet"] = booked'[x.sid], \A d \in x.days : d < today',
           today' = today
    PROVE  FileBooked'
<1>1. /\ store'.site[s] = x
      /\ \A u \in Sites : u # s => store'.site[u] = store.site[u]
  BY DEF IInv, GoodFile
<1>2. ASSUME NEW u \in Sites, Has(store, u)'
      PROVE  SiteBooked(store.site[u])'
  <2>1. CASE u = s
    BY <1>1, <2>1 DEF SiteBooked
  <2>2. CASE u # s
    <3>1. store'.site[u] = store.site[u] /\ Has(store, u)
      BY <1>1, <1>2, <2>2 DEF Has
    <3>2. store.site[u].sid # x.sid /\ store.site[u].sid \in Sids
      BY <2>2, <3>1 DEF IInv, GoodFile, GoodSite, AnySite
    <3> QED
      BY <3>1, <3>2 DEF FileBooked, SiteBooked
  <2> QED
    BY <2>1, <2>2
<1>3. ASSUME NEW p \in Sids
      PROVE  booked'[p] = 0 \/ SidTaken(store, p)'
  <2>1. CASE p = x.sid
    BY <1>1, <2>1 DEF SidTaken, Has
  <2>2. CASE p # x.sid
    BY <1>1, <2>2 DEF FileBooked, SidTaken, Has
  <2> QED
    BY <2>1, <2>2
<1> QED
  BY <1>2, <1>3 DEF FileBooked

\* The file stays as it is while days pass.
LEMMA FileStays ==
    ASSUME IInv, IInv', Books, store' = store, booked' = booked, overwrote' = overwrote,
           today <= today',
           \A r \in Reqs : req'[r].pc = "download" => req'[r] = req[r] \/ req'[r].to < today'
    PROVE  Books'
<1>1. today \in Nat /\ today' \in Nat
  BY EnergyAssumption DEF IInv, Days
<1>2. ASSUME FileBooked
      PROVE  FileBooked'
  <2>1. ASSUME NEW s \in Sites, Has(store, s)
        PROVE  SiteBooked(store.site[s])'
    BY <1>1, <1>2, <2>1 DEF FileBooked, SiteBooked, IInv, GoodFile, GoodSite, AnySite
  <2> QED
    BY <1>2, <2>1 DEF FileBooked, SidTaken, Has
<1>3. ASSUME NEW r \in Reqs, req'[r].pc = "download"
      PROVE  req'[r].to < today'
  <2>1. CASE req'[r] = req[r]
    BY <1>1, <1>3, <2>1 DEF Books, IInv, GoodHandler
  <2> QED
    BY <1>3, <2>1
<1> QED
  BY <1>2, <1>3 DEF Books

LEMMA InitBooks == Init => Books
<1> SUFFICES ASSUME Init
             PROVE  Books
  OBVIOUS
<1>1. booked = [p \in Sids |-> 0] /\ overwrote = FALSE /\ req = [r \in Reqs |-> Idle]
  BY DEF Init
<1>2. \A s \in Sites : ~Has(store, s)
  BY DEF Init, Has
<1>3. FileBooked
  BY <1>1, <1>2 DEF FileBooked
<1>4. \A r \in Reqs : req[r].pc = "idle"
  BY <1>1 DEF Idle
<1> QED
  BY <1>1, <1>3, <1>4 DEF Books

\* A handler ends, with what it wrote.
LEMMA HandlerEnds ==
    ASSUME IInv, Books, NEW r \in Reqs, req' = [req EXCEPT ![r] = Idle],
           today' = today, booked' = booked, overwrote' \in BOOLEAN,
           ~overwrote' => FileBooked'
    PROVE  Books'
BY DEF Books, IInv, Idle

LEMMA StepBooks == IInv /\ IInv' /\ Books /\ [Next]_vars => Books'
<1> SUFFICES ASSUME IInv, IInv', Books, [Next]_vars
             PROVE  Books'
  OBVIOUS
<1>0. today \in Nat /\ today <= today
  BY EnergyAssumption DEF IInv, Days
<1>1. ASSUME NEW r \in Reqs, NEW sid \in Sids, NEW start \in Starts, StartAdd(r, sid, start)
      PROVE  Books'
  <2>1. \A q \in Reqs : req'[q].pc = "download" => req'[q] = req[q]
    BY <1>1 DEF StartAdd, IInv
  <2> QED
    BY <1>0, <1>1, <2>1, FileStays DEF StartAdd
<1>2. ASSUME NEW r \in Reqs, NEW s \in Sites, StartDownload(r, s)
      PROVE  Books'
  <2>1. \A q \in Reqs : req'[q] = req[q] \/ req'[q].to = today - 1
    BY <1>2 DEF StartDownload, IInv
  <2>2. \A q \in Reqs : req'[q].pc = "download" => req'[q] = req[q] \/ req'[q].to < today'
    BY <1>0, <1>2, <2>1 DEF StartDownload
  <2> QED
    BY <1>0, <1>2, <2>2, FileStays DEF StartDownload
<1>3. ASSUME NEW r \in Reqs, Added(r)
      PROVE  Books'
  <2>0. PICK s \in Sites :
          /\ Unused(s)
          /\ store' = [req[r].snapshot EXCEPT !.site[s] = NewSite(req[r].sid, req[r].start)]
    BY <1>3 DEF Added
  <2>1. PICK x :
          /\ Unused(s) /\ x = NewSite(req[r].sid, req[r].start)
          /\ store' = [req[r].snapshot EXCEPT !.site[s] = x]
    BY <2>0
  <2>2. ASSUME ~overwrote'
        PROVE  FileBooked'
    <3>1. store = req[r].snapshot /\ FileBooked /\ booked' = booked /\ today' = today
      BY <1>3, <2>2 DEF Added, Books
    <3>2. /\ x.sid = req[r].sid /\ x.issued["mainnet"] = 0 /\ x.days = {}
          /\ x.sid \in Sids /\ ~SidTaken(store, x.sid)
      BY <1>3, <2>1, <3>1 DEF Added, IInv, GoodHandler, NewSite, Networks
    <3>3. store'.site[s] = x /\ \A u \in Sites : u # s => store'.site[u] = store.site[u]
      BY <2>1, <3>1 DEF IInv, GoodFile
    <3>4. booked[x.sid] = 0
      BY <3>1, <3>2 DEF FileBooked
    <3>5. x # NoSite
      BY <2>1 DEF NewSite, NoSite
    <3>6. ASSUME NEW u \in Sites, Has(store, u)'
          PROVE  SiteBooked(store.site[u])'
      <4>1. CASE u = s
        BY <3>1, <3>2, <3>3, <3>4, <4>1 DEF SiteBooked
      <4>2. CASE u # s
        BY <3>1, <3>3, <3>6, <4>2 DEF FileBooked, SiteBooked, Has
      <4> QED
        BY <4>1, <4>2
    <3>7. ~Has(store, s)
      BY <2>1 DEF Unused
    <3>8. ASSUME NEW p \in Sids, SidTaken(store, p)
          PROVE  SidTaken(store, p)'
      BY <3>3, <3>7, <3>8 DEF SidTaken, Has
    <3> QED
      BY <3>1, <3>6, <3>8 DEF FileBooked
  <2>3. overwrote' \in BOOLEAN
    BY <1>3 DEF Added, Books
  <2> QED
    BY <1>3, <2>2, <2>3, HandlerEnds DEF Added
<1>4. ASSUME NEW r \in Reqs, Downloaded(r)
      PROVE  Books'
  <2>1. PICK e : e = req[r]
    OBVIOUS
  <2>2. /\ GoodFile(e.snapshot) /\ e.site \in Sites /\ Has(e.snapshot, e.site)
        /\ e.from = StartDay(e.snapshot.site[e.site]) /\ e.to \in Nat /\ e.to < today
    BY <1>4, <2>1 DEF Downloaded, IInv, GoodHandler, Books
  <2>3. PICK days \in SUBSET (e.from..e.to) : \E last \in days :
            store' = [e.snapshot EXCEPT !.site[e.site] = Imported(@, days, last)]
    BY <1>4, <2>1 DEF Downloaded
  <2>4. PICK last, x : /\ x = Imported(e.snapshot.site[e.site], days, last)
                       /\ store' = [e.snapshot EXCEPT !.site[e.site] = x]
    BY <2>2, <2>3 DEF GoodFile
  <2>5. ASSUME ~overwrote'
        PROVE  FileBooked'
    <3>1. store = e.snapshot /\ FileBooked /\ booked' = booked /\ today' = today
      BY <1>4, <2>1, <2>5 DEF Downloaded, Books
    <3>2. PICK old : old = store.site[e.site]
      OBVIOUS
    <3>3. old \in AnySite /\ SiteBooked(old) /\ StartDay(old) \in Nat
      BY <2>2, <3>1, <3>2, StartDayTyped DEF FileBooked, GoodFile, GoodSite
    <3>4. /\ x.sid = old.sid /\ x.issued = old.issued /\ x.days = old.days \cup days
          /\ x = [old EXCEPT !.at = today, !.through = last, !.owed = @ + Cardinality(days),
                             !.days = @ \cup days]
      BY <2>4, <3>1, <3>2, <3>3 DEF Imported, AnySite
    <3>5. x # NoSite
      BY <3>3, <3>4 DEF AnySite, NoSite
    <3>6. \A d \in x.days : d < today
      <4>1. \A d \in days : d < today
        BY <1>0, <2>2, <3>1, <3>2, <3>3
      <4> QED
        BY <3>3, <3>4, <4>1 DEF SiteBooked
    <3>7. x.issued["mainnet"] = booked[x.sid]
      BY <3>3, <3>4 DEF SiteBooked
    <3> QED
      BY <2>2, <2>4, <3>1, <3>2, <3>4, <3>5, <3>6, <3>7, SiteRewritten
  <2>6. overwrote' \in BOOLEAN
    BY <1>4 DEF Downloaded, Books
  <2> QED
    BY <1>4, <2>5, <2>6, HandlerEnds DEF Downloaded
<1>5. ASSUME NEW r \in Reqs, HoymilesFails(r)
      PROVE  Books'
  <2>1. \A q \in Reqs : req'[q].pc = "download" => req'[q] = req[q]
    BY <1>5 DEF HoymilesFails, IInv, Idle
  <2> QED
    BY <1>0, <1>5, <2>1, FileStays DEF HoymilesFails
<1>6. ASSUME NEW s \in Sites, RemoveSite(s)
      PROVE  Books'
  <2>1. PICK old : old = store.site[s]
    OBVIOUS
  <2>2. /\ Has(store, s) /\ old \in AnySite
        /\ UNCHANGED <<today, req, booked, overwrote>>
    BY <1>6, <2>1 DEF RemoveSite, IInv, GoodFile, GoodSite
  <2>3. CASE /\ old.issued["mainnet"] = 0
             /\ store' = [store EXCEPT !.site[s] = NoSite]
    <3>1. store'.site[s] = NoSite /\ \A u \in Sites : u # s => store'.site[u] = store.site[u]
      BY <2>3 DEF IInv, GoodFile
    <3>2. ASSUME FileBooked
          PROVE  FileBooked'
      <4>1. booked[old.sid] = 0
        BY <2>1, <2>2, <2>3, <3>2 DEF FileBooked, SiteBooked
      <4>2. ASSUME NEW p \in Sids, p # old.sid, SidTaken(store, p)
            PROVE  SidTaken(store, p)'
        BY <2>1, <3>1, <4>2 DEF SidTaken, Has
      <4>3. ASSUME NEW u \in Sites, Has(store, u)'
            PROVE  SiteBooked(store.site[u])'
        <5>1. u # s
          BY <3>1, <4>3 DEF Has
        <5> QED
          BY <2>2, <3>1, <3>2, <4>3, <5>1 DEF FileBooked, SiteBooked, Has
      <4> QED
        BY <2>2, <3>2, <4>1, <4>2, <4>3 DEF FileBooked
    <3> QED
      BY <2>2, <3>2 DEF Books
  <2>4. CASE store' = [store EXCEPT !.site[s] = [old EXCEPT !.is_active = FALSE]]
    <3>1. PICK x : x = [old EXCEPT !.is_active = FALSE]
      OBVIOUS
    <3>2. x.sid = old.sid /\ x.issued = old.issued /\ x.days = old.days /\ x # NoSite
      BY <2>2, <3>1 DEF AnySite, NoSite
    <3>3. ASSUME FileBooked
          PROVE  FileBooked'
      <4>1. SiteBooked(old)
        BY <2>1, <2>2, <3>3 DEF FileBooked
      <4>2. x.issued["mainnet"] = booked'[x.sid] /\ \A d \in x.days : d < today'
        BY <2>2, <3>2, <4>1 DEF SiteBooked
      <4> QED
        BY <2>1, <2>2, <2>4, <3>1, <3>2, <3>3, <4>2, SiteRewritten
    <3> QED
      BY <2>2, <3>3 DEF Books
  <2> QED
    BY <1>6, <2>1, <2>3, <2>4 DEF RemoveSite, WriteSite
<1>7. ASSUME NEW n \in Networks, LockToken(n)
      PROVE  Books'
  <2>1. store'.site = store.site /\ UNCHANGED <<today, req, booked, overwrote>>
    BY <1>7 DEF LockToken, IInv, GoodFile
  <2> QED
    BY <2>1 DEF Books, FileBooked, SiteBooked, SidTaken, Has
<1>8. ASSUME NEW t \in Tabs, NEW s \in Sites, NEW n \in Networks, NEW amount \in Amounts,
             IssuePrepare(t, s, n, amount)
      PROVE  Books'
  <2>1. PICK old, x : /\ old = store.site[s]
                      /\ x = [old EXCEPT !.preview = [network |-> n, amount |-> amount],
                                         !.reveal = 0]
    OBVIOUS
  <2>2. /\ Has(store, s) /\ old \in AnySite /\ store' = [store EXCEPT !.site[s] = x]
        /\ UNCHANGED <<today, req, booked, overwrote>>
    BY <1>8, <2>1 DEF IssuePrepare, WriteSite, IInv, GoodFile, GoodSite
  <2>3. x.sid = old.sid /\ x.issued = old.issued /\ x.days = old.days /\ x # NoSite
    BY <2>1, <2>2 DEF AnySite, NoSite
  <2>4. ASSUME FileBooked
        PROVE  FileBooked'
    <3>1. SiteBooked(old)
      BY <2>1, <2>2, <2>4 DEF FileBooked
    <3>2. x.issued["mainnet"] = booked'[x.sid] /\ \A d \in x.days : d < today'
      BY <2>2, <2>3, <3>1 DEF SiteBooked
    <3> QED
      BY <2>1, <2>2, <2>3, <2>4, <3>2, SiteRewritten
  <2> QED
    BY <2>2, <2>4 DEF Books
<1>9. ASSUME NEW t \in Tabs, FinalizeRefresh(t)
      PROVE  Books'
  <2>1. PICK h, old, x : h = tab[t] /\ old = store.site[h.site] /\ x = Issued(old, h)
    OBVIOUS
  <2>2. /\ h.site \in Sites /\ h.network \in Networks /\ h.amount \in Nat
        /\ Has(store, h.site) /\ old \in AnySite
        /\ store' = [store EXCEPT !.site[h.site] = x]
        /\ UNCHANGED <<today, req, overwrote>>
        /\ booked' = IF h.network = "mainnet"
                     THEN [booked EXCEPT ![old.sid] = @ + h.amount] ELSE booked
    BY <1>9, <2>1 DEF FinalizeRefresh, WriteSite, IInv, GoodTab, GoodFile, GoodSite
  <2>3. /\ x.sid = old.sid /\ x.days = old.days /\ x # NoSite
        /\ x.issued["mainnet"] = old.issued["mainnet"]
                                 + (IF h.network = "mainnet" THEN h.amount ELSE 0)
    <3>1. /\ x.sid = old.sid /\ x.days = old.days
          /\ x.issued = [old.issued EXCEPT ![h.network] = @ + h.amount]
      BY <2>1, <2>2 DEF AnySite, Issued
    <3>2. x # NoSite
      <4>1. DOMAIN x = DOMAIN old
        BY <2>1 DEF Issued
      <4>2. "owed" \in DOMAIN old /\ "owed" \notin DOMAIN NoSite
        BY <2>2 DEF AnySite, NoSite
      <4> QED
        BY <4>1, <4>2
    <3>3. old.issued \in [Networks -> Nat]
      BY <2>2 DEF AnySite
    <3> QED
      BY <2>2, <3>1, <3>2, <3>3 DEF Networks
  <2>4. /\ booked' \in [Sids -> Nat] /\ old.sid \in Sids
        /\ \A p \in Sids : p # old.sid => booked'[p] = booked[p]
        /\ booked'[old.sid] = booked[old.sid] + (IF h.network = "mainnet" THEN h.amount ELSE 0)
    BY <2>2 DEF Books, AnySite
  <2>5. ASSUME FileBooked
        PROVE  FileBooked'
    <3>1. SiteBooked(old)
      BY <2>1, <2>2, <2>5 DEF FileBooked
    <3>2. x.issued["mainnet"] = booked'[x.sid] /\ \A d \in x.days : d < today'
      BY <2>2, <2>3, <2>4, <3>1 DEF SiteBooked
    <3>3. today' = today /\ \A p \in Sids : p # x.sid => booked'[p] = booked[p]
      BY <2>2, <2>3, <2>4
    <3>4. x # NoSite /\ x.sid = store.site[h.site].sid
      BY <2>1, <2>3
    <3>5. h.site \in Sites /\ Has(store, h.site) /\ store' = [store EXCEPT !.site[h.site] = x]
      BY <2>2
    <3> QED
      BY <2>5, <3>2, <3>3, <3>4, <3>5, SiteRewritten
  <2> QED
    BY <2>2, <2>4, <2>5 DEF Books
<1>10. ASSUME NEW t \in Tabs, IssueReveal(t) \/ LeaveTab(t) \/ \E n \in Networks : IssueFromPage(t, n)
       PROVE  Books'
  BY <1>0, <1>10, FileStays DEF IssueReveal, LeaveTab, IssueFromPage
<1>11. CASE NextDay
  BY <1>0, <1>11, FileStays DEF NextDay
<1>12. CASE UNCHANGED vars
  BY <1>0, <1>12, FileStays DEF vars
<1> QED
  BY <1>1, <1>2, <1>3, <1>4, <1>5, <1>6, <1>7, <1>8, <1>9, <1>10, <1>11, <1>12 DEF Next

\* As long as no write undid another, no plant has more issued on mainnet than it
\* produced until yesterday, over all removals and additions of its site.
THEOREM IssuedWithinProduction == Spec => []BookedWithinProduction
<1>1. IInv /\ Books => BookedWithinProduction
  <2> SUFFICES ASSUME IInv, Books, ~overwrote, NEW p \in Sids
               PROVE  booked[p] <= today
    BY DEF BookedWithinProduction
  <2>1. today \in Nat /\ FileBooked
    BY EnergyAssumption DEF IInv, Books, Days
  <2>2. CASE booked[p] = 0
    BY <2>1, <2>2
  <2>3. ASSUME NEW s \in Sites, Has(store, s), store.site[s].sid = p
        PROVE  booked[p] <= today
    <3>1. PICK x : x = store.site[s]
      OBVIOUS
    <3>2. GoodSite(x) /\ SiteBooked(x) /\ x.sid = p
      BY <2>1, <2>3, <3>1 DEF IInv, GoodFile, FileBooked
    <3>3. /\ x.owed \in Nat /\ x.issued["mainnet"] \in Nat /\ x.issued["tn10"] \in Nat
          /\ x.days \in SUBSET Nat
      BY <3>2 DEF GoodSite, AnySite, Networks
    <3>4. Cardinality(x.days) \in Nat /\ Cardinality(x.days) <= today
      BY <2>1, <3>2, <3>3, DaysCounted DEF SiteBooked
    <3> QED
      BY <2>1, <3>2, <3>3, <3>4 DEF GoodSite, SiteBooked
  <2> QED
    BY <2>1, <2>2, <2>3 DEF FileBooked, SidTaken
<1>2. Spec => []Books
  BY InitBooks, StepBooks, AlwaysGood, PTL DEF Spec
<1> QED
  BY <1>1, <1>2, AlwaysGood, PTL

-----------------------------------------------------------------------------
(***************************************************************************)
(* Who may issue a KRC-20 token.                                           *)
(*                                                                         *)
(* A record of a deployer is written by whoever learnt something: a deploy *)
(* or a hand-over that the node took, an answer of the indexer that came   *)
(* late.  RegistryIInv says what a flow may rely on: it never names        *)
(* anybody without a claim, and as long as no accident has happened to its *)
(* token, whom it names, or saw named, is the issuer on the ledger.        *)
(***************************************************************************)

Kinds == {"deploy", "wrapped", "chown", "issue", "import"}
Stages == {"start", "built", "committed", "seen"}
FlowRecord ==
    [kind: Kinds, token: Tokens, to: Address,
     at: Stages \cup {"sending", "sent", "registered", "import"},
     key: Address, from: Address, known: BOOLEAN,
     asks: {"no", "asked", "answered"}, saw: Wallets \cup {"nothing", "partial"}]

Config ==
    [deployer: [Tokens -> Address], meta: [Tokens -> Address], wrapped: SUBSET Tokens]

RegistryTypes ==
    /\ issuer \in [Tokens -> Address]
    /\ config \in Config
    /\ cache \in [Tokens -> Address]
    /\ buckets \subseteq Files /\ reserved \subseteq Tokens /\ active \in Wallets
    /\ claims \in [Tokens -> SUBSET Wallets]
    /\ astray \subseteq Tokens /\ orphans \subseteq Tokens
    /\ flow \in [Flows -> {NoFlow} \cup FlowRecord]

\* A deploy that the ledger has not seen.
Pending(x) == x.kind \in {"deploy", "wrapped"} /\ x.at \notin {"sent", "registered"}
Sent(x, kind) == x.kind = kind /\ x.at \in {"sent", "registered"}

\* Who asks the indexer, and whom a flow names.
Fit(x) ==
    /\ x.kind \in {"deploy", "wrapped"} => x.key \in Wallets /\ x.from \in Wallets
    /\ x.kind = "chown" => x.to \in Wallets /\ x.asks = "no"
    /\ x.kind = "wrapped" => x.asks = "no"
    /\ x.kind = "deploy" => (x.asks # "no" <=> x.at = "registered")
    /\ x.kind = "issue" =>
          /\ x.at \in Stages \cup {"sending"}
          /\ x.asks # "no" => x.at \in Stages /\ x.from \in Wallets
    /\ x.kind = "import" => x.at = "import"

\* Whom it names or saw has a claim.
Claimed(x) ==
    LET c == claims[x.token] IN
    /\ Sent(x, "deploy") => x.from \in c
    /\ Sent(x, "chown") => x.to \in c
    /\ x.saw \in Wallets => x.saw \in c

\* Unless an accident has happened, it is the issuer of now.
Current(x) ==
    LET i == issuer[x.token] IN
    x.token \notin astray =>
       /\ Sent(x, "deploy") => x.from = i
       /\ Sent(x, "chown") => x.to = i
       /\ x.asks = "answered" /\ x.saw \in Wallets => x.saw = i

FlowOK(x) ==
    /\ Fit(x) /\ Claimed(x) /\ Current(x)
    /\ Pending(x) <=> issuer[x.token] = None

FlowsOK == \A f \in Flows : flow[f] # NoFlow => FlowOK(flow[f])

\* A pending deploy is the only flow of its token.
PendingIsAlone ==
    \A f, g \in Flows :
       flow[f] # NoFlow /\ flow[g] # NoFlow /\ flow[f].token = flow[g].token /\ Pending(flow[f])
          => f = g

TokensOK ==
    \A t \in Tokens :
       /\ issuer[t] \in claims[t] \cup {None}
       /\ issuer[t] = None => config.deployer[t] = None /\ t \notin astray

RegistryIInv ==
    /\ RegistryTypes /\ FlowsOK /\ PendingIsAlone /\ TokensOK
    /\ RecordedHasClaim /\ RecordFollowsLedger /\ DeployIsRegistered

-----------------------------------------------------------------------------
(* One flow goes on, or ends, and nothing else changes. *)

LEMMA QuietStays ==
  ASSUME RegistryTypes, Quiet
  PROVE  /\ UNCHANGED <<issuer, buckets, history>>
         /\ config' \in Config /\ UNCHANGED <<config.deployer, config.meta>>
         /\ cache' \in [Tokens -> Address] /\ reserved' \subseteq Tokens /\ active' \in Wallets
BY DEF RegistryTypes, Quiet, history

LEMMA FlowStep ==
  ASSUME RegistryAssumption, RegistryIInv, NEW f \in Flows, NEW x \in {NoFlow} \cup FlowRecord,
         flow' = [flow EXCEPT ![f] = x],
         UNCHANGED <<issuer, buckets, history>>,
         config' \in Config /\ UNCHANGED <<config.deployer, config.meta>>,
         cache' \in [Tokens -> Address], reserved' \subseteq Tokens, active' \in Wallets,
         x # NoFlow => FlowOK(x),
         x # NoFlow /\ Pending(x) =>
            \A g \in Flows \ {f} : flow[g] # NoFlow => flow[g].token # x.token,
         ~Under(f, {"deploy", "chown"}, "sent")
  PROVE  RegistryIInv'
<1> USE DEF RegistryIInv, history
<1>1. RegistryTypes'
  BY DEF RegistryTypes
<1>2. \A g \in Flows : flow'[g] = IF g = f THEN x ELSE flow[g]
  BY DEF RegistryTypes
<1>3. FlowsOK'
  <2> SUFFICES ASSUME NEW g \in Flows, flow'[g] # NoFlow  PROVE FlowOK(flow[g])'
    BY DEF FlowsOK
  <2>1. FlowOK(flow'[g])
    BY <1>2 DEF FlowsOK
  <2> QED
    BY <2>1 DEF FlowOK, Fit, Claimed, Current, Pending, Sent
<1>4. PendingIsAlone'
  <2>1. \A g \in Flows \ {f} : flow[g] # NoFlow =>
           (Pending(flow[g]) <=> issuer[flow[g].token] = None)
    BY DEF FlowsOK, FlowOK
  <2>2. x # NoFlow => (Pending(x) <=> issuer[x.token] = None)
    BY DEF FlowOK
  <2> QED
    BY <1>2, <2>1, <2>2 DEF PendingIsAlone, Pending
<1>5. TokensOK' /\ RecordedHasClaim'
  BY DEF TokensOK, RecordedHasClaim
<1>6. RecordFollowsLedger'
  BY <1>2 DEF RecordFollowsLedger, Under
<1>7. DeployIsRegistered'
  BY <1>2 DEF DeployIsRegistered, Under
<1> QED
  BY <1>1, <1>3, <1>4, <1>5, <1>6, <1>7

-----------------------------------------------------------------------------
(* A record is written, and its flow goes on or ends. *)

LEMMA SavedIs ==
  ASSUME RegistryAssumption, NEW c \in Config
  PROVE  Saved(c) \in Config /\ Saved(c).deployer = c.deployer /\ Saved(c).meta = c.meta
<1>1. Saved(c) =
        [c EXCEPT !.deployer = [u \in Tokens |-> IF c.deployer[u] = Blank THEN None ELSE c.deployer[u]],
                  !.meta = [u \in Tokens |-> IF c.meta[u] = Blank THEN None ELSE c.meta[u]]]
  BY DEF Saved
<1>2. \A w \in Address : (IF w = Blank THEN None ELSE w) = w
  BY DEF RegistryAssumption, Address, Blank
<1>3. c.deployer \in [Tokens -> Address] /\ c.meta \in [Tokens -> Address]
  BY DEF Config
<1>4. /\ [u \in Tokens |-> IF c.deployer[u] = Blank THEN None ELSE c.deployer[u]] = c.deployer
      /\ [u \in Tokens |-> IF c.meta[u] = Blank THEN None ELSE c.meta[u]] = c.meta
  BY <1>2, <1>3
<1>5. Saved(c) = [c EXCEPT !.deployer = c.deployer, !.meta = c.meta]
  BY <1>1, <1>4
<1> QED
  BY <1>5 DEF Config

LEMMA Stored ==
  ASSUME RegistryAssumption, RegistryTypes, NEW t \in Tokens,
         NEW who \in Address, NEW owner \in Address,
         config' = Registered(t, who, owner)
  PROVE  /\ config' \in Config
         /\ config'.deployer = [config.deployer EXCEPT ![t] = who]
         /\ config'.meta = [config.meta EXCEPT ![t] = owner]
<1>1. PICK c : c = [config EXCEPT !.deployer[t] = who, !.meta[t] = owner]
  OBVIOUS
<1>2. /\ c \in Config
      /\ c.deployer = [config.deployer EXCEPT ![t] = who]
      /\ c.meta = [config.meta EXCEPT ![t] = owner]
  BY <1>1 DEF RegistryTypes, Config
<1>3. config' = Saved(c)
  BY <1>1 DEF Registered
<1> QED
  BY <1>2, <1>3, SavedIs

LEMMA RegistryRecordStep ==
  ASSUME RegistryAssumption, RegistryIInv, NEW f \in Flows, flow[f] # NoFlow, ~Pending(flow[f]),
         NEW x \in {NoFlow} \cup FlowRecord, flow' = [flow EXCEPT ![f] = x],
         NEW t \in Tokens, t = flow[f].token,
         x # NoFlow => FlowOK(x) /\ x.token = t /\ ~Pending(x),
         NEW who \in claims[t] \cup {None}, NEW owner \in claims[t] \cup {None},
         config' = Registered(t, who, owner),
         cache' \in [Tokens -> Address], reserved' \subseteq Tokens,
         UNCHANGED <<issuer, buckets, active, claims, orphans>>,
         \/ astray' = astray
         \/ astray' = astray \ {t} /\ who = issuer[t] /\ Alone(f) /\ x = NoFlow,
         \/ t \notin astray => who \in {None, issuer[t]}
         \/ who = config.deployer[t] /\ ~Under(f, {"chown"}, "sent"),
         \/ who # None
         \/ who = config.deployer[t] /\ ~Under(f, {"deploy"}, "sent")
  PROVE  RegistryIInv'
<1> USE DEF RegistryIInv
<1>0. /\ issuer[t] # None /\ who \in Address /\ owner \in Address
  BY DEF FlowsOK, FlowOK, RegistryTypes, Address
<1>a. /\ config' \in Config
      /\ config'.deployer = [config.deployer EXCEPT ![t] = who]
      /\ config'.meta = [config.meta EXCEPT ![t] = owner]
  BY <1>0, Stored
<1>1. /\ config' \in Config
      /\ \A u \in Tokens : config'.deployer[u] = IF u = t THEN who ELSE config.deployer[u]
      /\ \A u \in Tokens : config'.meta[u] = IF u = t THEN owner ELSE config.meta[u]
  BY <1>a DEF RegistryTypes, Config
<1>2. RegistryTypes'
  BY <1>1 DEF RegistryTypes
<1>3. \A g \in Flows : flow'[g] = IF g = f THEN x ELSE flow[g]
  BY DEF RegistryTypes
<1>4. FlowsOK'
  <2> SUFFICES ASSUME NEW g \in Flows, flow'[g] # NoFlow  PROVE FlowOK(flow[g])'
    BY DEF FlowsOK
  <2>1. FlowOK(flow'[g])
    BY <1>3 DEF FlowsOK
  <2>2. CASE astray' = astray
    BY <2>1, <2>2 DEF FlowOK, Fit, Claimed, Current, Pending, Sent
  <2>3. CASE Alone(f) /\ astray' = astray \ {t} /\ x = NoFlow
    <3>1. g # f /\ flow'[g] = flow[g]
      BY <1>3, <2>3
    <3>2. flow[g].token = t =>
             flow[g].at \notin {"sent", "registered"} /\ flow[g].asks # "answered"
      BY <2>3, <3>1 DEF Alone
    <3> QED
      BY <2>1, <2>3, <3>1, <3>2 DEF FlowOK, Fit, Claimed, Current, Pending, Sent
  <2> QED
    BY <2>2, <2>3
<1>5. PendingIsAlone'
  BY <1>3 DEF PendingIsAlone, Pending
<1>6. TokensOK' /\ RecordedHasClaim'
  BY <1>0, <1>1 DEF TokensOK, RecordedHasClaim
<1>7. RecordFollowsLedger'
  BY <1>0, <1>1, <1>3 DEF RecordFollowsLedger, Under
<1>8. DeployIsRegistered'
  BY <1>0, <1>1, <1>3 DEF DeployIsRegistered, Under
<1> QED
  BY <1>2, <1>4, <1>5, <1>6, <1>7, <1>8

LEMMA PassStep ==
  ASSUME RegistryAssumption, RegistryIInv, NEW f \in Flows, flow[f] # NoFlow,
         flow[f].kind \in {"deploy", "wrapped", "chown"},
         flow[f].at \in Stages,
         NEW x, flow' = [flow EXCEPT ![f] = x],
         \/ \E at \in Stages \cup {"sending"} : x = [flow[f] EXCEPT !.at = at]
         \/ x = [flow[f] EXCEPT !.at = "sending", !.from = active],
         Quiet
  PROVE  RegistryIInv'
<1>1. flow[f] \in FlowRecord /\ active \in Wallets /\ FlowOK(flow[f])
  BY DEF RegistryIInv, RegistryTypes, FlowsOK
<1>2. /\ x \in FlowRecord /\ x.at \in Stages \cup {"sending"}
      /\ x.kind = flow[f].kind /\ x.token = flow[f].token /\ x.to = flow[f].to
      /\ x.key = flow[f].key /\ x.asks = flow[f].asks /\ x.saw = flow[f].saw
      /\ x.from = flow[f].from \/ x.from \in Wallets
  BY <1>1 DEF FlowRecord, Address, Stages
<1>3. x # NoFlow
  BY <1>2 DEF FlowRecord, NoFlow
<1>4. FlowOK(x) /\ (Pending(x) <=> Pending(flow[f]))
  BY <1>1, <1>2 DEF FlowOK, Fit, Claimed, Current, Pending, Sent, Stages
<1>5. Pending(x) => \A g \in Flows \ {f} : flow[g] # NoFlow => flow[g].token # x.token
  BY <1>2, <1>4 DEF RegistryIInv, PendingIsAlone
<1>6. ~Under(f, {"deploy", "chown"}, "sent")
  BY DEF Under, Stages
<1>7. /\ UNCHANGED <<issuer, buckets, history>>
      /\ config' \in Config /\ UNCHANGED <<config.deployer, config.meta>>
      /\ cache' \in [Tokens -> Address] /\ reserved' \subseteq Tokens /\ active' \in Wallets
  BY QuietStays DEF RegistryIInv
<1> QED
  BY <1>2, <1>3, <1>4, <1>5, <1>6, <1>7, FlowStep

LEMMA EndStep ==
  ASSUME RegistryAssumption, RegistryIInv, NEW f \in Flows, Ends(f), Quiet,
         ~Under(f, {"deploy", "chown"}, "sent")
  PROVE  RegistryIInv'
<1>1. flow' = [flow EXCEPT ![f] = NoFlow]
  BY DEF Ends
<1>2. /\ UNCHANGED <<issuer, buckets, history>>
      /\ config' \in Config /\ UNCHANGED <<config.deployer, config.meta>>
      /\ cache' \in [Tokens -> Address] /\ reserved' \subseteq Tokens /\ active' \in Wallets
  BY QuietStays DEF RegistryIInv
<1> QED
  BY <1>1, <1>2, FlowStep

LEMMA StartStep ==
  ASSUME RegistryAssumption, RegistryIInv, NEW f \in Flows,
         StartDeploy(f) \/ StartChown(f) \/ StartIssue(f) \/ StartImport(f)
  PROVE  RegistryIInv'
<1> DEFINE Started(x) ==
       /\ x \in FlowRecord /\ x.saw = "nothing" /\ Fit(x) /\ x.at \in {"start", "import"}
       /\ x.asks # "answered"
       /\ Pending(x) <=> issuer[x.token] = None
       /\ Pending(x) => \A g \in Flows : flow[g] # NoFlow => flow[g].token # x.token
<1>0. Quiet /\ flow[f] = NoFlow
  BY DEF StartDeploy, StartChown, StartIssue, StartImport
<1>a. /\ UNCHANGED <<issuer, buckets, history>>
      /\ config' \in Config /\ UNCHANGED <<config.deployer, config.meta>>
      /\ cache' \in [Tokens -> Address] /\ reserved' \subseteq Tokens /\ active' \in Wallets
  BY <1>0, QuietStays DEF RegistryIInv
<1>1. active \in Wallets
  BY DEF RegistryIInv, RegistryTypes
<1>2. ASSUME StartDeploy(f)
      PROVE  \E x : Started(x) /\ flow' = [flow EXCEPT ![f] = x]
  <2>1. PICK t \in Tokens, kind \in {"deploy", "wrapped"} :
          /\ issuer[t] = None
          /\ \A g \in Flows : flow[g] # NoFlow => flow[g].token # t
          /\ flow' = [flow EXCEPT ![f] = Flow(kind, t, None, active)]
    BY <1>2 DEF StartDeploy
  <2>2. PICK x : x = Flow(kind, t, None, active)
    OBVIOUS
  <2>3. Started(x)
    BY <1>1, <2>1, <2>2 DEF Flow, FlowRecord, Kinds, Address, Stages, Fit, Pending
  <2> QED
    BY <2>1, <2>2, <2>3
<1>3. ASSUME StartChown(f)
      PROVE  \E x : Started(x) /\ flow' = [flow EXCEPT ![f] = x]
  <2>1. PICK t \in Tokens, to \in Wallets :
          issuer[t] # None /\ flow' = [flow EXCEPT ![f] = Flow("chown", t, to, active)]
    BY <1>3 DEF StartChown
  <2>2. PICK x : x = Flow("chown", t, to, active)
    OBVIOUS
  <2>3. Started(x)
    BY <1>1, <2>1, <2>2 DEF Flow, FlowRecord, Kinds, Address, Stages, Fit, Pending
  <2> QED
    BY <2>1, <2>2, <2>3
<1>4. ASSUME StartIssue(f)
      PROVE  \E x : Started(x) /\ flow' = [flow EXCEPT ![f] = x]
  <2>1. PICK t \in Tokens :
          issuer[t] # None /\ flow' = [flow EXCEPT ![f] = Flow("issue", t, None, active)]
    BY <1>4 DEF StartIssue
  <2>2. PICK x : x = Flow("issue", t, None, active)
    OBVIOUS
  <2>3. Started(x)
    BY <1>1, <2>1, <2>2 DEF Flow, FlowRecord, Kinds, Address, Stages, Fit, Pending
  <2> QED
    BY <2>1, <2>2, <2>3
<1>5. ASSUME StartImport(f)
      PROVE  \E x : Started(x) /\ flow' = [flow EXCEPT ![f] = x]
  <2>1. PICK t \in Tokens :
          /\ issuer[t] # None
          /\ flow' = [flow EXCEPT ![f] = [Flow("import", t, None, None)
                                            EXCEPT !.at = "import", !.asks = "asked"]]
    BY <1>5 DEF StartImport
  <2>2. PICK x : x = [Flow("import", t, None, None) EXCEPT !.at = "import", !.asks = "asked"]
    OBVIOUS
  <2>3. Started(x)
    BY <2>1, <2>2 DEF Flow, FlowRecord, Kinds, Address, Stages, Fit, Pending
  <2> QED
    BY <2>1, <2>2, <2>3
<1>6. PICK x : Started(x) /\ flow' = [flow EXCEPT ![f] = x]
  BY <1>2, <1>3, <1>4, <1>5
<1>7. FlowOK(x)
  BY <1>6 DEF FlowOK, Claimed, Current, Sent, RegistryAssumption
<1>8. ~Under(f, {"deploy", "chown"}, "sent")
  BY <1>0 DEF Under
<1> QED
  BY <1>a, <1>6, <1>7, <1>8, FlowStep

-----------------------------------------------------------------------------
(* The records. *)

LEMMA RegisterStep ==
  ASSUME RegistryAssumption, RegistryIInv, NEW f \in Flows,
         RegisterPending(f) \/ RegisterResolved(f) \/ RegisterWrapped(f)
  PROVE  RegistryIInv'
<1>0. flow[f] # NoFlow /\ flow[f] \in FlowRecord /\ FlowOK(flow[f]) /\ RegistryTypes
  BY DEF RegistryIInv, RegistryTypes, FlowsOK, RegisterPending, RegisterResolved, RegisterWrapped,
     Under
<1>1. PICK t \in Tokens : t = flow[f].token
  BY <1>0 DEF FlowRecord
<1>2. PICK who : who = flow[f].from
  OBVIOUS
<1>3. CASE RegisterPending(f)
  <2>1. flow[f].kind = "deploy" /\ flow[f].at = "sent" /\ flow[f].asks = "no"
    BY <1>0, <1>3 DEF RegisterPending, Under, FlowOK, Fit, FlowRecord
  <2>2. PICK x : x = [flow[f] EXCEPT !.at = "registered", !.asks = "asked"]
    OBVIOUS
  <2>3. /\ x \in FlowRecord /\ x.at = "registered" /\ x.asks = "asked" /\ x.kind = "deploy"
        /\ x.token = t /\ x.to = flow[f].to /\ x.key = flow[f].key /\ x.from = flow[f].from
        /\ x.saw = flow[f].saw
    BY <1>0, <1>1, <2>1, <2>2 DEF FlowRecord
  <2>4. FlowOK(x) /\ ~Pending(x) /\ ~Pending(flow[f])
    BY <1>0, <1>1, <2>1, <2>3 DEF FlowOK, Fit, Claimed, Current, Pending, Sent
  <2>5. who \in claims[t] /\ (t \notin astray => who = issuer[t]) /\ who # None
    BY <1>0, <1>1, <1>2, <2>1, RegistryAssumption
    DEF FlowOK, Fit, Claimed, Current, Sent, RegistryAssumption
  <2>6. /\ config' = Registered(t, who, who) /\ flow' = [flow EXCEPT ![f] = x]
        /\ UNCHANGED <<issuer, cache, buckets, reserved, active, claims, astray, orphans>>
    BY <1>1, <1>2, <1>3, <2>2 DEF RegisterPending, history
  <2>7. cache' \in [Tokens -> Address] /\ reserved' \subseteq Tokens
    BY <1>0, <2>6 DEF RegistryTypes
  <2> QED
    BY <1>0, <1>1, <2>3, <2>4, <2>5, <2>6, <2>7, RegistryRecordStep
<1>4. CASE RegisterResolved(f)
  <2>1. /\ flow[f].kind = "deploy" /\ flow[f].at = "registered"
        /\ flow' = [flow EXCEPT ![f] = NoFlow]
        /\ UNCHANGED <<issuer, buckets, active, claims, astray, orphans>>
    BY <1>4 DEF RegisterResolved, Under, Ends, history
  <2>2. reserved' \subseteq Tokens
    BY <1>0, <1>1, <1>4 DEF RegisterResolved, EnergyLock, RegistryTypes
  <2>3. /\ \/ config' = Registered(t, who, who)
           \/ config' = config
        /\ cache' = cache \/ (Confirms(flow[f].saw, who) /\ Cached(t, flow[f].saw))
    BY <1>1, <1>2, <1>4 DEF RegisterResolved
  <2>4. cache' \in [Tokens -> Address]
    BY <1>0, <1>1, <2>3 DEF RegistryTypes, Cached, Confirms, Address
  <2>5. who \in claims[t] /\ (t \notin astray => who = issuer[t]) /\ who # None
    BY <1>0, <1>1, <1>2, <2>1, RegistryAssumption
    DEF FlowOK, Fit, Claimed, Current, Sent, RegistryAssumption
  <2>6. ~Pending(flow[f]) /\ ~Under(f, {"deploy", "chown"}, "sent")
    BY <2>1 DEF Pending, Under
  <2>7. CASE config' = Registered(t, who, who)
    BY <1>0, <1>1, <2>1, <2>2, <2>4, <2>5, <2>6, <2>7, RegistryRecordStep
  <2>8. CASE config' = config
    <3>1. /\ UNCHANGED <<issuer, buckets, history>> /\ active' \in Wallets
          /\ config' \in Config /\ UNCHANGED <<config.deployer, config.meta>>
      BY <1>0, <2>1, <2>8 DEF history, RegistryTypes
    <3> QED
      BY <2>1, <2>2, <2>4, <2>6, <3>1, FlowStep
  <2> QED
    BY <2>3, <2>7, <2>8
<1>5. CASE RegisterWrapped(f)
  <2>1. /\ flow[f].kind = "wrapped" /\ flow[f].at = "sent"
        /\ flow' = [flow EXCEPT ![f] = NoFlow]
        /\ UNCHANGED <<issuer, cache, buckets, reserved, active, history>>
        /\ config' = Saved([config EXCEPT !.wrapped = @ \cup {t}])
    BY <1>1, <1>5 DEF RegisterWrapped, Under, Ends
  <2>2. /\ config'.deployer = config.deployer /\ config'.meta = config.meta
        /\ config' \in Config
    <3>1. PICK c : c = [config EXCEPT !.wrapped = @ \cup {t}]
      OBVIOUS
    <3>2. c \in Config /\ c.deployer = config.deployer /\ c.meta = config.meta
      BY <1>0, <3>1 DEF RegistryTypes, Config
    <3> QED
      BY <2>1, <3>1, <3>2, SavedIs
  <2>3. ~Under(f, {"deploy", "chown"}, "sent")
    BY <2>1 DEF Under
  <2> QED
    BY <1>0, <2>1, <2>2, <2>3, FlowStep DEF RegistryTypes
<1> QED
  BY <1>3, <1>4, <1>5

LEMMA ApplyChownStep ==
  ASSUME RegistryAssumption, RegistryIInv, NEW f \in Flows, ApplyChown(f)
  PROVE  RegistryIInv'
<1>0. /\ flow[f] # NoFlow /\ flow[f].kind = "chown" /\ flow[f].at = "sent"
      /\ flow[f] \in FlowRecord /\ FlowOK(flow[f]) /\ RegistryTypes /\ RecordedHasClaim
  BY DEF RegistryIInv, RegistryTypes, FlowsOK, ApplyChown, Under
<1>1. PICK t \in Tokens : t = flow[f].token
  BY <1>0 DEF FlowRecord
<1>2. PICK who : who = flow[f].to
  OBVIOUS
<1>3. PICK owner : owner = config.meta[t]
  OBVIOUS
<1>4. /\ config' = Registered(t, who, owner) /\ flow' = [flow EXCEPT ![f] = NoFlow]
      /\ UNCHANGED <<issuer, cache, buckets, reserved, active, claims, astray, orphans>>
  BY <1>1, <1>2, <1>3 DEF ApplyChown, Ends, history
<1>5. /\ who \in claims[t] /\ (t \notin astray => who = issuer[t]) /\ who # None
      /\ owner \in claims[t] \cup {None} /\ ~Pending(flow[f])
  BY <1>0, <1>1, <1>2, <1>3, RegistryAssumption
  DEF FlowOK, Fit, Claimed, Current, Sent, RegistryAssumption, RecordedHasClaim, Pending
<1>6. cache' \in [Tokens -> Address] /\ reserved' \subseteq Tokens
  BY <1>0, <1>4 DEF RegistryTypes
<1> QED
  BY <1>0, <1>1, <1>4, <1>5, <1>6, RegistryRecordStep

\* What an issue does after its checks is a stage of the same issue, or its end.
LEMMA CheckedStages ==
  ASSUME RegistryTypes, NEW x \in FlowRecord, x.kind = "issue", x.at \in Stages, x.from \in Wallets
  PROVE  LET y == Checked(x) IN
         \/ y = NoFlow
         \/ /\ y \in FlowRecord /\ y # NoFlow /\ y.kind = "issue" /\ y.token = x.token
            /\ y.at \in Stages \cup {"sending"} /\ y.asks = "no" /\ y.saw = "nothing"
<1> DEFINE z == IF ~IssuePasses(x) THEN NoFlow
                ELSE CASE x.at = "start" -> IssueBuilt(x)
                       [] x.at = "built" -> IssueCommitted(x)
                       [] x.at = "committed" -> IssueSeen(x)
                       [] x.at = "seen" -> IssueRevealed(x)
<1>1. z = NoFlow \/ \E at \in Stages \cup {"sending"} : z = [x EXCEPT !.at = at]
  BY DEF Stages, IssueBuilt, IssueCommitted, IssueSeen, IssueRevealed
<1>2. Checked(x) = IF z = NoFlow THEN NoFlow
                   ELSE [z EXCEPT !.to = None, !.from = z.key, !.known = FALSE,
                                  !.asks = "no", !.saw = "nothing"]
  BY DEF Checked
<1> HIDE DEF z
<1>3. ASSUME z # NoFlow
      PROVE  /\ z \in FlowRecord /\ z.kind = "issue" /\ z.token = x.token
             /\ z.at \in Stages \cup {"sending"}
  <2>1. PICK at \in Stages \cup {"sending"} : z = [x EXCEPT !.at = at]
    BY <1>1, <1>3
  <2>2. PICK y : y = z
    OBVIOUS
  <2>3. /\ y \in FlowRecord /\ y.kind = "issue" /\ y.token = x.token
        /\ y.at \in Stages \cup {"sending"}
    BY <2>1, <2>2 DEF FlowRecord
  <2> QED
    BY <2>2, <2>3
<1>4. CASE z # NoFlow
  <2>1. PICK y : y = [z EXCEPT !.to = None, !.from = z.key, !.known = FALSE,
                                !.asks = "no", !.saw = "nothing"]
    OBVIOUS
  <2>2. /\ y \in FlowRecord /\ y.kind = "issue" /\ y.token = x.token
        /\ y.at \in Stages \cup {"sending"} /\ y.asks = "no" /\ y.saw = "nothing"
    BY <1>3, <1>4, <2>1 DEF FlowRecord, Address
  <2>3. y # NoFlow
    BY <2>2 DEF FlowRecord, NoFlow
  <2> QED
    BY <1>2, <1>4, <2>1, <2>2, <2>3
<1> QED
  BY <1>2, <1>4

LEMMA CheckedOK ==
  ASSUME RegistryAssumption, RegistryTypes, NEW x \in FlowRecord, x.kind = "issue", x.at \in Stages,
         x.from \in Wallets, issuer[x.token] # None
  PROVE  LET y == Checked(x) IN
         /\ y \in {NoFlow} \cup FlowRecord
         /\ y # NoFlow => FlowOK(y) /\ ~Pending(y) /\ y.token = x.token
<1>1. PICK y : y = Checked(x)
  OBVIOUS
<1>2. \/ y = NoFlow
      \/ /\ y \in FlowRecord /\ y # NoFlow /\ y.kind = "issue" /\ y.token = x.token
         /\ y.at \in Stages \cup {"sending"} /\ y.asks = "no" /\ y.saw = "nothing"
  BY <1>1, CheckedStages
<1>3. y # NoFlow => FlowOK(y) /\ ~Pending(y)
  BY <1>2 DEF FlowOK, Fit, Claimed, Current, Pending, Sent, RegistryAssumption
<1> QED
  BY <1>1, <1>2, <1>3

LEMMA AskIssueStep ==
  ASSUME RegistryAssumption, RegistryIInv, NEW f \in Flows, AskIssue(f)
  PROVE  RegistryIInv'
<1>0. /\ flow[f] # NoFlow /\ flow[f].kind = "issue" /\ flow[f].at \in Stages
      /\ flow[f] \in FlowRecord /\ FlowOK(flow[f]) /\ RegistryTypes
  BY DEF RegistryIInv, RegistryTypes, FlowsOK, AskIssue, Stages
<1>1. PICK t \in Tokens : t = flow[f].token
  BY <1>0 DEF FlowRecord
<1>a. PICK known \in BOOLEAN : known = (t \in reserved)
  <2>1. (t \in reserved) \in BOOLEAN
    BY SMT
  <2> QED
    BY <2>1, Zenon
<1>b. PICK d \in Address : d = config.deployer[t]
  BY <1>0 DEF RegistryTypes, Config
<1>2. PICK x : x = [flow[f] EXCEPT !.from = active, !.to = d, !.known = known]
  OBVIOUS
<1>3. /\ x \in FlowRecord /\ x.kind = "issue" /\ x.at = flow[f].at /\ x.from = active
      /\ x.token = t /\ x.saw = flow[f].saw /\ issuer[t] # None /\ active \in Wallets
  <2>1. active \in Wallets /\ active \in Address /\ issuer[t] # None
    BY <1>0, <1>1 DEF RegistryTypes, FlowOK, Pending, Address
  <2> QED
    BY <1>0, <1>1, <1>2, <2>1 DEF FlowRecord
<1>4. PICK y : /\ y = [x EXCEPT !.asks = "asked"] \/ y = Checked(x)
               /\ flow' = [flow EXCEPT ![f] = y]
  BY <1>1, <1>2, <1>a, <1>b DEF AskIssue
<1>5. ASSUME y = [x EXCEPT !.asks = "asked"]
      PROVE  y \in FlowRecord /\ FlowOK(y) /\ ~Pending(y) /\ y.token = t
  <2>1. /\ y \in FlowRecord /\ y.kind = "issue" /\ y.at \in Stages /\ y.from \in Wallets
        /\ y.token = t /\ y.saw = flow[f].saw /\ y.asks = "asked"
    BY <1>0, <1>3, <1>5 DEF FlowRecord
  <2> QED
    BY <1>0, <1>1, <1>3, <2>1 DEF FlowOK, Fit, Claimed, Current, Pending, Sent
<1>6. /\ y \in {NoFlow} \cup FlowRecord
      /\ y # NoFlow => FlowOK(y) /\ ~Pending(y)
  BY <1>0, <1>3, <1>4, <1>5, CheckedOK
<1>7. /\ UNCHANGED <<issuer, buckets, history>>
      /\ config' \in Config /\ UNCHANGED <<config.deployer, config.meta>>
      /\ cache' \in [Tokens -> Address] /\ reserved' \subseteq Tokens /\ active' \in Wallets
  BY <1>0, QuietStays DEF AskIssue
<1>8. ~Under(f, {"deploy", "chown"}, "sent")
  BY <1>0 DEF Under
<1> QED
  BY <1>4, <1>6, <1>7, <1>8, FlowStep


LEMMA ReconcileStep ==
  ASSUME RegistryAssumption, RegistryIInv, NEW f \in Flows, Reconcile(f)
  PROVE  RegistryIInv'
<1>0. /\ flow[f] # NoFlow /\ flow[f].kind = "issue" /\ flow[f].at \in Stages
      /\ flow[f].from \in Wallets /\ flow[f].asks = "answered"
      /\ flow[f] \in FlowRecord /\ FlowOK(flow[f]) /\ RegistryTypes /\ RecordFollowsLedger
  BY DEF RegistryIInv, RegistryTypes, FlowsOK, FlowOK, Fit, Reconcile
<1>1. PICK t \in Tokens : t = flow[f].token
  BY <1>0 DEF FlowRecord
<1>2. PICK saw : saw = flow[f].saw
  OBVIOUS
<1>3. PICK who : who = IF flow[f].to # None THEN flow[f].to ELSE flow[f].from
  OBVIOUS
<1>4. /\ who # None /\ who \in Address /\ ~Pending(flow[f]) /\ issuer[t] # None
      /\ ~Under(f, {"deploy", "chown"}, "sent")
  BY <1>0, <1>1, <1>3 DEF Pending, FlowOK, Under, Address, RegistryAssumption, FlowRecord
<1>5. UNCHANGED <<issuer, buckets, reserved, active, claims, astray, orphans>>
  BY DEF Reconcile, history
<1>6. CASE Confirms(saw, who)
  <2>1. saw = who /\ who \in claims[t] /\ (t \notin astray => who = issuer[t])
    BY <1>0, <1>1, <1>2, <1>4, <1>6 DEF Confirms, FlowOK, Claimed, Current
  <2>2. /\ config' = Registered(t, who, who)
        /\ \/ Cached(t, saw) /\ flow' = [flow EXCEPT ![f] = Checked([flow[f] EXCEPT !.to = who])]
           \/ cache' = cache /\ flow' = [flow EXCEPT ![f] = NoFlow]
    BY <1>1, <1>2, <1>3, <1>6 DEF Reconcile, Ends
  <2>3. PICK x : x = [flow[f] EXCEPT !.to = who]
    OBVIOUS
  <2>4. /\ x \in FlowRecord /\ x.kind = "issue" /\ x.at \in Stages /\ x.from \in Wallets
        /\ x.token = t
    BY <1>0, <1>1, <1>4, <2>3 DEF FlowRecord
  <2>5. PICK y : y = Checked(x)
    OBVIOUS
  <2>6. /\ y \in {NoFlow} \cup FlowRecord
        /\ y # NoFlow => FlowOK(y) /\ ~Pending(y) /\ y.token = t
    BY <1>0, <1>4, <2>4, <2>5, CheckedOK
  <2>7. cache' \in [Tokens -> Address] /\ reserved' \subseteq Tokens
    BY <1>0, <1>4, <1>5, <2>1, <2>2 DEF RegistryTypes, Cached
  <2>8. flow' = [flow EXCEPT ![f] = y] \/ flow' = [flow EXCEPT ![f] = NoFlow]
    BY <2>2, <2>3, <2>5
  <2>9. PICK z : /\ flow' = [flow EXCEPT ![f] = z]
                 /\ z \in {NoFlow} \cup FlowRecord
                 /\ z # NoFlow => FlowOK(z) /\ ~Pending(z) /\ z.token = t
    BY <2>6, <2>8
  <2> QED
    BY <1>0, <1>1, <1>4, <1>5, <2>1, <2>2, <2>7, <2>9, RegistryRecordStep
<1>7. CASE ~Confirms(saw, who)
  <2>1. config' = config /\ cache' = cache /\ flow' = [flow EXCEPT ![f] = Checked(flow[f])]
    BY <1>1, <1>2, <1>3, <1>7 DEF Reconcile
  <2>2. PICK y : y = Checked(flow[f])
    OBVIOUS
  <2>3. /\ y \in {NoFlow} \cup FlowRecord
        /\ y # NoFlow => FlowOK(y) /\ ~Pending(y)
    BY <1>0, <1>1, <1>4, <2>2, CheckedOK
  <2>4. /\ UNCHANGED <<issuer, buckets, history>>
        /\ config' \in Config /\ UNCHANGED <<config.deployer, config.meta>>
        /\ cache' \in [Tokens -> Address] /\ reserved' \subseteq Tokens /\ active' \in Wallets
    BY <1>0, <1>5, <2>1 DEF RegistryTypes, history
  <2> QED
    BY <1>4, <2>1, <2>2, <2>3, <2>4, FlowStep
<1> QED
  BY <1>6, <1>7

LEMMA ImportedStep ==
  ASSUME RegistryAssumption, RegistryIInv, NEW f \in Flows, ImportAnswered(f)
  PROVE  RegistryIInv'
<1>0. /\ flow[f] # NoFlow /\ flow[f].kind = "import" /\ flow[f].asks = "answered"
      /\ flow[f].at = "import"
      /\ flow[f] \in FlowRecord /\ FlowOK(flow[f]) /\ RegistryTypes /\ RecordedHasClaim
  BY DEF RegistryIInv, RegistryTypes, FlowsOK, ImportAnswered, Under
<1>1. PICK t \in Tokens : t = flow[f].token
  BY <1>0 DEF FlowRecord
<1>2. PICK saw : saw = flow[f].saw
  OBVIOUS
<1>3. PICK d, shown : /\ d = config.deployer[t]
                      /\ shown = IF config.meta[t] # None THEN config.meta[t] ELSE d
  OBVIOUS
<1>4. /\ flow' = [flow EXCEPT ![f] = NoFlow]
      /\ UNCHANGED <<issuer, buckets, active, claims, orphans>>
      /\ ~Pending(flow[f]) /\ ~Under(f, {"deploy", "chown"}, "sent") /\ issuer[t] # None
  BY <1>0, <1>1 DEF ImportAnswered, Ends, Pending, Under, FlowOK
<1>5. PICK owner \in Address :
        \/ /\ Confirms(saw, owner) /\ Cached(t, saw) /\ ImportLock(t)
           /\ config' = IF owner # None THEN Registered(t, owner, owner)
                                        ELSE Registered(t, d, shown)
           /\ astray' = IF owner = issuer[t] /\ Alone(f) THEN astray \ {t} ELSE astray
        \/ UNCHANGED <<config, cache, astray, reserved>>
  BY <1>1, <1>2, <1>3 DEF ImportAnswered, ConfirmsImport
<1>6. d \in claims[t] \cup {None} /\ shown \in claims[t] \cup {None}
  BY <1>3 DEF RegistryIInv, RecordedHasClaim
<1>7. CASE UNCHANGED <<config, cache, astray, reserved>>
  <2>1. /\ UNCHANGED <<issuer, buckets, history>>
        /\ config' \in Config /\ UNCHANGED <<config.deployer, config.meta>>
        /\ cache' \in [Tokens -> Address] /\ reserved' \subseteq Tokens /\ active' \in Wallets
    BY <1>0, <1>4, <1>7 DEF RegistryTypes, history
  <2> QED
    BY <1>4, <2>1, FlowStep
<1>8. CASE /\ Confirms(saw, owner) /\ Cached(t, saw) /\ ImportLock(t)
           /\ config' = IF owner # None THEN Registered(t, owner, owner)
                                        ELSE Registered(t, d, shown)
           /\ astray' = IF owner = issuer[t] /\ Alone(f) THEN astray \ {t} ELSE astray
  <2>1. cache' \in [Tokens -> Address] /\ reserved' \subseteq Tokens
    BY <1>0, <1>8 DEF RegistryTypes, Cached, Confirms, Address, ImportLock, EnergyLock
  <2>2. CASE owner # None
    <3>1. owner = saw /\ owner \in claims[t] /\ (t \notin astray => owner = issuer[t])
      BY <1>0, <1>1, <1>2, <1>8, <2>2 DEF Confirms, FlowOK, Claimed, Current
    <3>2. /\ config' = Registered(t, owner, owner)
          /\ \/ astray' = astray
             \/ astray' = astray \ {t} /\ owner = issuer[t] /\ Alone(f)
      BY <1>8, <2>2
    <3>3. PICK x : x = NoFlow
      OBVIOUS
    <3> QED
      BY <1>0, <1>1, <1>4, <2>1, <2>2, <3>1, <3>2, <3>3, RegistryRecordStep
  <2>3. CASE owner = None
    <3>1. config' = Registered(t, d, shown) /\ astray' = astray
      BY <1>4, <1>8, <2>3
    <3>2. ~Under(f, {"chown"}, "sent") /\ ~Under(f, {"deploy"}, "sent")
      BY <1>4 DEF Under
    <3>3. PICK x : x = NoFlow
      OBVIOUS
    <3> QED
      BY <1>0, <1>1, <1>3, <1>4, <1>6, <2>1, <3>1, <3>2, <3>3, RegistryRecordStep
  <2> QED
    BY <2>2, <2>3
<1> QED
  BY <1>5, <1>7, <1>8

LEMMA AnswerStep ==
  ASSUME RegistryAssumption, RegistryIInv, NEW f \in Flows, Answer(f)
  PROVE  RegistryIInv'
<1>0. /\ flow[f] # NoFlow /\ flow[f].asks = "asked"
      /\ flow[f] \in FlowRecord /\ FlowOK(flow[f]) /\ RegistryTypes /\ TokensOK
  BY DEF RegistryIInv, RegistryTypes, FlowsOK, Answer
<1>1. PICK t \in Tokens : t = flow[f].token
  BY <1>0 DEF FlowRecord
<1>2. PICK saw \in {"nothing", "partial"} \cup ({issuer[t]} \ {None}) :
        flow' = [flow EXCEPT ![f].asks = "answered", ![f].saw = saw]
  BY <1>1 DEF Answer
<1>3. PICK x : x = [flow[f] EXCEPT !.asks = "answered", !.saw = saw]
  OBVIOUS
<1>4. saw \in Wallets \cup {"nothing", "partial"}
          /\ (saw \in Wallets => saw = issuer[t] /\ saw \in claims[t])
  BY <1>0 DEF RegistryTypes, Address, RegistryAssumption, TokensOK
<1>5. /\ x \in FlowRecord /\ x.kind = flow[f].kind /\ x.at = flow[f].at /\ x.token = t
      /\ x.to = flow[f].to /\ x.key = flow[f].key /\ x.from = flow[f].from
      /\ x.asks = "answered" /\ x.saw = saw
  BY <1>0, <1>1, <1>3, <1>4 DEF FlowRecord
<1>6. FlowOK(x) /\ (Pending(x) <=> Pending(flow[f]))
  BY <1>0, <1>1, <1>4, <1>5 DEF FlowOK, Fit, Claimed, Current, Pending, Sent
<1>7. flow' = [flow EXCEPT ![f] = x]
  BY <1>0, <1>2, <1>3 DEF RegistryTypes
<1>8. /\ UNCHANGED <<issuer, buckets, history>>
      /\ config' \in Config /\ UNCHANGED <<config.deployer, config.meta>>
      /\ cache' \in [Tokens -> Address] /\ reserved' \subseteq Tokens /\ active' \in Wallets
  BY <1>0 DEF Answer, RegistryTypes, history
<1>9. ~Under(f, {"deploy", "chown"}, "sent")
  BY <1>0 DEF FlowOK, Fit, Under
<1>10. Pending(x) => \A g \in Flows \ {f} : flow[g] # NoFlow => flow[g].token # x.token
  BY <1>0, <1>1, <1>5, <1>6 DEF RegistryIInv, PendingIsAlone
<1> QED
  BY <1>5, <1>6, <1>7, <1>8, <1>9, <1>10, FlowStep

-----------------------------------------------------------------------------
(* The ledger, and accidents. *)

\* More accidents and more lost deploys weaken what the records must say.
LEMMA DroppedStep ==
  ASSUME RegistryAssumption, RegistryIInv, NEW f \in Flows, Dropped(f)
  PROVE  RegistryIInv'
<1> USE DEF RegistryIInv
<1>0. PICK t \in Tokens : t = flow[f].token
  BY DEF RegistryTypes, Dropped, FlowRecord
<1>1. /\ flow[f] # NoFlow /\ UNCHANGED <<issuer, config, cache, buckets, reserved, active, claims>>
      /\ astray' \in {astray, astray \cup {t}} /\ orphans' \in {orphans, orphans \cup {t}}
      /\ Under(f, {"deploy"}, "sent") => t \in orphans'
      /\ Under(f, {"chown"}, "sent") => t \in astray'
  BY <1>0 DEF Dropped, Under
<1>2. flow' = [flow EXCEPT ![f] = NoFlow]
  BY DEF Dropped, Ends
<1>3. \A g \in Flows : flow'[g] = IF g = f THEN NoFlow ELSE flow[g]
  BY <1>2 DEF RegistryTypes
<1>4. RegistryTypes'
  BY <1>0, <1>1, <1>2 DEF RegistryTypes
<1>5. FlowsOK'
  <2> SUFFICES ASSUME NEW g \in Flows, flow'[g] # NoFlow  PROVE FlowOK(flow[g])'
    BY DEF FlowsOK
  <2>1. FlowOK(flow[g]) /\ flow'[g] = flow[g]
    BY <1>3 DEF FlowsOK
  <2> QED
    BY <1>1, <2>1 DEF FlowOK, Fit, Claimed, Current, Pending, Sent
<1>6. PendingIsAlone'
  BY <1>3 DEF PendingIsAlone, Pending
<1>7. issuer[t] # None \/ astray' = astray
  BY <1>0, <1>1 DEF FlowsOK, FlowOK, Pending, Dropped, Under
<1>8. TokensOK' /\ RecordedHasClaim'
  BY <1>1, <1>7 DEF TokensOK, RecordedHasClaim
<1>9. RecordFollowsLedger'
  BY <1>0, <1>1, <1>3 DEF RecordFollowsLedger, Under
<1>10. DeployIsRegistered'
  BY <1>0, <1>1, <1>3 DEF DeployIsRegistered, Under
<1> QED
  BY <1>4, <1>5, <1>6, <1>8, <1>9, <1>10

LEMMA PutConfigStep ==
  ASSUME RegistryAssumption, RegistryIInv, NEW t \in Tokens, PutConfig(t)
  PROVE  RegistryIInv'
<1> USE DEF RegistryIInv
<1>1. PICK c : c = [config EXCEPT !.deployer[t] = issuer[t]]
  OBVIOUS
<1>2. c \in Config /\ c.deployer = [config.deployer EXCEPT ![t] = issuer[t]] /\ c.meta = config.meta
  BY <1>1 DEF RegistryTypes, Config
<1>3. /\ config' \in Config /\ config'.deployer = [config.deployer EXCEPT ![t] = issuer[t]]
      /\ config'.meta = config.meta
  BY <1>1, <1>2, SavedIs DEF PutConfig
<1>4. /\ issuer[t] # None
      /\ UNCHANGED <<issuer, cache, buckets, reserved, active, flow, claims, astray, orphans>>
  BY DEF PutConfig, history
<1>5. \A u \in Tokens : config'.deployer[u] = IF u = t THEN issuer[t] ELSE config.deployer[u]
  BY <1>3 DEF RegistryTypes, Config
<1>6. RegistryTypes'
  BY <1>3, <1>4 DEF RegistryTypes
<1>7. FlowsOK' /\ PendingIsAlone'
  BY <1>4 DEF FlowsOK, FlowOK, Fit, Claimed, Current, Pending, Sent, PendingIsAlone
<1>8. TokensOK' /\ RecordedHasClaim'
  BY <1>3, <1>4, <1>5 DEF TokensOK, RecordedHasClaim
<1>9. RecordFollowsLedger' /\ DeployIsRegistered'
  BY <1>4, <1>5 DEF RecordFollowsLedger, DeployIsRegistered, Under
<1> QED
  BY <1>6, <1>7, <1>8, <1>9

LEMMA BroadcastDeployStep ==
  ASSUME RegistryAssumption, RegistryIInv, NEW f \in Flows, BroadcastDeploy(f)
  PROVE  RegistryIInv'
<1> USE DEF RegistryIInv
<1>0. /\ flow[f] # NoFlow /\ flow[f].kind \in {"deploy", "wrapped"} /\ flow[f].at = "sending"
      /\ flow[f] \in FlowRecord /\ FlowOK(flow[f]) /\ Pending(flow[f])
  BY DEF RegistryTypes, BroadcastDeploy, Under, FlowsOK, Pending
<1>1. PICK t \in Tokens : t = flow[f].token
  BY <1>0 DEF FlowRecord
<1>2. PICK key \in Wallets, from \in Wallets : key = flow[f].key /\ from = flow[f].from
  BY <1>0 DEF FlowOK, Fit
<1>3. /\ issuer' = [issuer EXCEPT ![t] = key]
      /\ claims' = [claims EXCEPT ![t] = @ \cup {key, from}]
      /\ astray' = IF from # key THEN astray \cup {t} ELSE astray
      /\ orphans' = IF flow[f].kind = "wrapped" THEN orphans \cup {t} ELSE orphans
      /\ flow' = [flow EXCEPT ![f].at = "sent"]
      /\ UNCHANGED <<config, cache, buckets, reserved, active>>
  BY <1>1, <1>2 DEF BroadcastDeploy
<1>4. PICK x : x = [flow[f] EXCEPT !.at = "sent"]
  OBVIOUS
<1>5. /\ x \in FlowRecord /\ x.kind = flow[f].kind /\ x.at = "sent" /\ x.token = t
      /\ x.to = flow[f].to /\ x.key = key /\ x.from = from
      /\ x.asks = flow[f].asks /\ x.saw = flow[f].saw
  BY <1>0, <1>1, <1>2, <1>4 DEF FlowRecord
<1>6. /\ flow' = [flow EXCEPT ![f] = x]
      /\ \A g \in Flows : flow'[g] = IF g = f THEN x ELSE flow[g]
  BY <1>3, <1>4 DEF RegistryTypes
<1>7. /\ \A u \in Tokens : issuer'[u] = IF u = t THEN key ELSE issuer[u]
      /\ \A u \in Tokens : claims'[u] = IF u = t THEN claims[u] \cup {key, from} ELSE claims[u]
      /\ key # None /\ from # None
  BY <1>3 DEF RegistryTypes, RegistryAssumption
<1>8. RegistryTypes'
  BY <1>3, <1>5, <1>6 DEF RegistryTypes, Address
<1>9. \A g \in Flows : g # f /\ flow[g] # NoFlow =>
         FlowOK(flow[g]) /\ flow[g].token \in Tokens /\ flow[g].token # t
  BY <1>0, <1>1 DEF FlowsOK, PendingIsAlone, RegistryTypes, FlowRecord
<1>10. issuer[t] = None /\ config.deployer[t] = None
  BY <1>0, <1>1 DEF FlowOK, TokensOK
<1>11. FlowsOK'
  <2> SUFFICES ASSUME NEW g \in Flows, flow'[g] # NoFlow  PROVE FlowOK(flow[g])'
    BY DEF FlowsOK
  <2>1. CASE g = f
    <3>1. Fit(x) /\ x.asks = "no" /\ ~Pending(x)
      BY <1>0, <1>2, <1>5 DEF FlowOK, Fit, Pending
    <3>2. x.saw \in Wallets => x.saw \in claims[t]
      BY <1>0, <1>1, <1>5 DEF FlowOK, Claimed
    <3>3. flow'[g] = x
      BY <1>6, <2>1
    <3>4. /\ x.token = t /\ issuer'[t] = key /\ key # None /\ x.from = from
          /\ claims'[t] = claims[t] \cup {key, from} /\ (t \notin astray' => from = key)
          /\ x.kind \in {"deploy", "wrapped"}
      BY <1>0, <1>3, <1>5, <1>7
    <3>5. Fit(flow'[g]) /\ ~Pending(flow'[g])
      BY <3>1, <3>3
    <3>6. Claimed(flow[g])'
      BY <3>2, <3>3, <3>4 DEF Claimed, Sent
    <3>7. Current(flow[g])'
      BY <3>1, <3>3, <3>4 DEF Current, Sent
    <3> QED
      BY <3>3, <3>4, <3>5, <3>6, <3>7 DEF FlowOK, Fit, Pending
  <2>2. CASE g # f
    <3>1. flow'[g] = flow[g] /\ FlowOK(flow[g]) /\ flow[g].token \in Tokens /\ flow[g].token # t
      BY <1>6, <1>9, <2>2
    <3>2. flow[g].token \in astray' => flow[g].token \in astray
      BY <1>3, <3>1
    <3>3. /\ issuer'[flow[g].token] = issuer[flow[g].token]
          /\ claims'[flow[g].token] = claims[flow[g].token]
      BY <1>7, <3>1
    <3>4. flow[g].token \in astray => flow[g].token \in astray'
      BY <1>3
    <3> QED
      BY <3>1, <3>2, <3>3, <3>4 DEF FlowOK, Fit, Claimed, Current, Pending, Sent
  <2> QED
    BY <2>1, <2>2
<1>12. PendingIsAlone'
  BY <1>5, <1>6, <1>9 DEF PendingIsAlone, Pending
<1>13. TokensOK' /\ RecordedHasClaim'
  BY <1>3, <1>7 DEF TokensOK, RecordedHasClaim
<1>14. RecordFollowsLedger'
  <2> SUFFICES ASSUME NEW u \in Tokens \ astray',
                      \A g \in Flows : Under(g, {"chown"}, "sent")' => flow'[g].token # u
               PROVE  config.deployer[u] \in {None, issuer'[u]}
    BY <1>3 DEF RecordFollowsLedger
  <2>1. CASE u = t
    BY <1>10, <2>1
  <2>2. CASE u # t
    <3>1. \A g \in Flows : Under(g, {"chown"}, "sent") => flow[g].token # u
      BY <1>0, <1>6 DEF Under
    <3>2. u \notin astray
      BY <1>3
    <3> QED
      BY <1>7, <2>2, <3>1, <3>2 DEF RecordFollowsLedger
  <2> QED
    BY <2>1, <2>2
<1>15. DeployIsRegistered'
  <2> SUFFICES ASSUME NEW u \in Tokens \ orphans', issuer'[u] # None
               PROVE  \/ config.deployer[u] # None
                      \/ \E g \in Flows : Under(g, {"deploy"}, "sent")' /\ flow'[g].token = u
    BY <1>3 DEF DeployIsRegistered
  <2>1. CASE u = t
    BY <1>0, <1>3, <1>5, <1>6, <2>1 DEF Under, NoFlow, FlowRecord
  <2>2. CASE u # t
    <3>1. u \notin orphans
      BY <1>3
    <3> QED
      BY <1>0, <1>6, <1>7, <2>2, <3>1 DEF DeployIsRegistered, Under
  <2> QED
    BY <2>1, <2>2
<1> QED
  BY <1>8, <1>11, <1>12, <1>13, <1>14, <1>15

LEMMA BroadcastChownStep ==
  ASSUME RegistryAssumption, RegistryIInv, NEW f \in Flows, BroadcastChown(f)
  PROVE  RegistryIInv'
<1> USE DEF RegistryIInv
<1>0. /\ flow[f] # NoFlow /\ flow[f].kind = "chown" /\ flow[f].at = "sending"
      /\ flow[f] \in FlowRecord /\ FlowOK(flow[f])
  BY DEF RegistryTypes, BroadcastChown, Under, FlowsOK
<1>1. PICK t \in Tokens : t = flow[f].token
  BY <1>0 DEF FlowRecord
<1>2. PICK to \in Wallets : to = flow[f].to
  BY <1>0 DEF FlowOK, Fit
<1>3. /\ issuer' = IF issuer[t] = flow[f].key THEN [issuer EXCEPT ![t] = to] ELSE issuer
      /\ claims' = [claims EXCEPT ![t] = @ \cup {to}]
      /\ astray' = IF issuer[t] = flow[f].key /\ Alone(f) THEN astray ELSE astray \cup {t}
      /\ flow' = [flow EXCEPT ![f].at = "sent"]
      /\ UNCHANGED <<config, cache, buckets, reserved, active, orphans>>
  BY <1>1, <1>2 DEF BroadcastChown
<1>4. PICK x : x = [flow[f] EXCEPT !.at = "sent"]
  OBVIOUS
<1>5. /\ x \in FlowRecord /\ x.kind = "chown" /\ x.at = "sent" /\ x.token = t
      /\ x.to = to /\ x.asks = flow[f].asks /\ x.saw = flow[f].saw
  BY <1>0, <1>1, <1>2, <1>4 DEF FlowRecord
<1>6. /\ flow' = [flow EXCEPT ![f] = x]
      /\ \A g \in Flows : flow'[g] = IF g = f THEN x ELSE flow[g]
  BY <1>3, <1>4 DEF RegistryTypes
<1>7. /\ \A u \in Tokens : issuer'[u] = issuer[u] \/ (u = t /\ issuer'[t] = to)
      /\ \A u \in Tokens : claims'[u] = IF u = t THEN claims[u] \cup {to} ELSE claims[u]
      /\ to # None /\ issuer[t] # None /\ issuer'[t] # None
  BY <1>0, <1>1, <1>3 DEF RegistryTypes, RegistryAssumption, FlowOK, Pending
<1>8. RegistryTypes'
  BY <1>3, <1>5, <1>6 DEF RegistryTypes, Address
<1>9. t \notin astray' => issuer'[t] = to /\ Alone(f) /\ t \notin astray
  BY <1>3 DEF RegistryTypes
<1>10. \A u \in Tokens : u # t => (u \in astray' <=> u \in astray)
  BY <1>3
<1>11. FlowsOK'
  <2> SUFFICES ASSUME NEW g \in Flows, flow'[g] # NoFlow  PROVE FlowOK(flow[g])'
    BY DEF FlowsOK
  <2>1. CASE g = f
    <3>1. Fit(x) /\ x.asks = "no" /\ ~Pending(x)
      BY <1>0, <1>2, <1>5 DEF FlowOK, Fit, Pending
    <3>2. x.saw \in Wallets => x.saw \in claims[t]
      BY <1>0, <1>1, <1>5 DEF FlowOK, Claimed
    <3>3. flow'[g] = x
      BY <1>6, <2>1
    <3>4. claims'[t] = claims[t] \cup {to}
      BY <1>7
    <3>5. Claimed(flow[g])'
      BY <1>5, <3>2, <3>3, <3>4 DEF Claimed, Sent
    <3>6. Current(flow[g])'
      BY <1>5, <1>9, <3>1, <3>3 DEF Current, Sent
    <3> QED
      BY <1>5, <1>7, <3>1, <3>3, <3>5, <3>6 DEF FlowOK, Fit, Pending
  <2>2. CASE g # f /\ flow[g].token = t
    <3>1. flow'[g] = flow[g] /\ FlowOK(flow[g]) /\ flow[g] # NoFlow
      BY <1>6, <2>2 DEF FlowsOK
    <3>2. t \notin astray' => flow[g].at \notin {"sent", "registered"} /\ flow[g].asks # "answered"
      BY <1>1, <1>9, <2>2, <3>1 DEF Alone
    <3>3. Claimed(flow[g])'
      BY <1>7, <2>2, <3>1 DEF FlowOK, Claimed, Sent
    <3>4. Current(flow[g])'
      BY <2>2, <3>1, <3>2 DEF Current, Sent
    <3>5. ~Pending(flow[g])
      BY <1>7, <2>2, <3>1 DEF FlowOK
    <3> QED
      BY <1>7, <2>2, <3>1, <3>3, <3>4, <3>5 DEF FlowOK, Fit, Pending
  <2>3. CASE g # f /\ flow[g].token # t
    <3>1. flow'[g] = flow[g] /\ FlowOK(flow[g]) /\ flow[g].token \in Tokens
      BY <1>6, <2>3 DEF FlowsOK, RegistryTypes, FlowRecord
    <3>2. flow[g].token \in astray' <=> flow[g].token \in astray
      BY <1>10, <2>3, <3>1
    <3>3. /\ issuer'[flow[g].token] = issuer[flow[g].token]
          /\ claims'[flow[g].token] = claims[flow[g].token]
      BY <1>7, <2>3, <3>1
    <3> QED
      BY <3>1, <3>2, <3>3 DEF FlowOK, Fit, Claimed, Current, Pending, Sent
  <2> QED
    BY <2>1, <2>2, <2>3
<1>12. PendingIsAlone'
  <2>1. \A g \in Flows : flow[g] # NoFlow /\ flow[g].token = t => ~Pending(flow[g])
    BY <1>7 DEF FlowsOK, FlowOK
  <2>2. ~Pending(x)
    BY <1>5 DEF Pending
  <2> QED
    BY <1>5, <1>6, <2>1, <2>2 DEF PendingIsAlone
<1>13. TokensOK' /\ RecordedHasClaim'
  BY <1>3, <1>7, <1>10 DEF TokensOK, RecordedHasClaim
<1>14. RecordFollowsLedger'
  <2> SUFFICES ASSUME NEW u \in Tokens \ astray',
                      \A g \in Flows : Under(g, {"chown"}, "sent")' => flow'[g].token # u
               PROVE  config.deployer[u] \in {None, issuer'[u]}
    BY <1>3 DEF RecordFollowsLedger
  <2>1. u # t
    BY <1>5, <1>6 DEF Under, NoFlow, FlowRecord
  <2>2. \A g \in Flows : Under(g, {"chown"}, "sent") => flow[g].token # u
    BY <1>0, <1>6 DEF Under
  <2> QED
    BY <1>7, <1>10, <2>1, <2>2 DEF RecordFollowsLedger
<1>15. DeployIsRegistered'
  BY <1>0, <1>3, <1>6, <1>7 DEF DeployIsRegistered, Under
<1> QED
  BY <1>8, <1>11, <1>12, <1>13, <1>14, <1>15

LEMMA OutsideMoveStep ==
  ASSUME RegistryAssumption, RegistryIInv, NEW t \in Tokens, OutsideMove(t)
  PROVE  RegistryIInv'
<1> USE DEF RegistryIInv
<1>1. PICK w \in Wallets :
        /\ issuer' = [issuer EXCEPT ![t] = w]
        /\ claims' = [claims EXCEPT ![t] = @ \cup {w}]
  BY DEF OutsideMove
<1>2. /\ issuer[t] # None /\ w # None /\ astray' = astray \cup {t}
      /\ UNCHANGED <<config, cache, buckets, reserved, active, flow, orphans>>
  BY DEF OutsideMove, RegistryAssumption
<1>3. /\ \A u \in Tokens : issuer'[u] = IF u = t THEN w ELSE issuer[u]
      /\ \A u \in Tokens : claims'[u] = IF u = t THEN claims[u] \cup {w} ELSE claims[u]
  BY <1>1 DEF RegistryTypes
<1>4. RegistryTypes'
  BY <1>1, <1>2 DEF RegistryTypes, Address
<1>5. FlowsOK'
  <2> SUFFICES ASSUME NEW g \in Flows, flow[g] # NoFlow  PROVE FlowOK(flow[g])'
    BY <1>2 DEF FlowsOK
  <2>1. FlowOK(flow[g]) /\ flow[g].token \in Tokens /\ flow'[g] = flow[g]
    BY <1>2 DEF FlowsOK, RegistryTypes, FlowRecord
  <2>2. CASE flow[g].token = t
    BY <1>2, <1>3, <2>1, <2>2 DEF FlowOK, Fit, Claimed, Current, Pending, Sent
  <2>3. CASE flow[g].token # t
    BY <1>2, <1>3, <2>1, <2>3 DEF FlowOK, Fit, Claimed, Current, Pending, Sent
  <2> QED
    BY <2>2, <2>3
<1>6. PendingIsAlone'
  BY <1>2 DEF PendingIsAlone, Pending
<1>7. TokensOK' /\ RecordedHasClaim'
  BY <1>2, <1>3 DEF TokensOK, RecordedHasClaim
<1>8. RecordFollowsLedger' /\ DeployIsRegistered'
  BY <1>2, <1>3 DEF RecordFollowsLedger, DeployIsRegistered, Under
<1> QED
  BY <1>4, <1>5, <1>6, <1>7, <1>8

LEMMA SwitchStep ==
  ASSUME RegistryIInv, NEW w \in Wallets, Switch(w)
  PROVE  RegistryIInv'
<1> USE DEF RegistryIInv
<1>1. active' = w
          /\ UNCHANGED <<issuer, config, cache, buckets, reserved, flow, claims, astray, orphans>>
  BY DEF Switch, history
<1>2. RegistryTypes'
  BY <1>1 DEF RegistryTypes
<1>3. FlowsOK' /\ PendingIsAlone'
  BY <1>1 DEF FlowsOK, FlowOK, Fit, Claimed, Current, Pending, Sent, PendingIsAlone
<1>4. TokensOK' /\ RecordedHasClaim' /\ RecordFollowsLedger' /\ DeployIsRegistered'
  BY <1>1 DEF TokensOK, RecordedHasClaim, RecordFollowsLedger, DeployIsRegistered, Under
<1> QED
  BY <1>2, <1>3, <1>4

-----------------------------------------------------------------------------
(* The invariant. *)

LEMMA RegistryInitIInv ==
  ASSUME RegistryAssumption, RegistryInit
  PROVE  RegistryIInv
<1>1. PICK old \in SUBSET Tokens, w \in Wallets : \E listed \in SUBSET old :
         /\ issuer = [t \in Tokens |-> IF t \in old THEN w ELSE None]
         /\ config = ReadConfig([version |-> 6, allowed |-> {},
                                 krc20Deployer |-> [t \in Tokens |-> IF t \in listed THEN w ELSE Blank],
                                 krc20Meta |-> [t \in Tokens |-> Blank]])
         /\ claims = [t \in Tokens |-> IF t \in old THEN {w} ELSE {}]
         /\ orphans = old \ listed
  BY DEF RegistryInit
<1>2. PICK listed \in SUBSET old :
         /\ issuer = [t \in Tokens |-> IF t \in old THEN w ELSE None]
         /\ config = ReadConfig([version |-> 6, allowed |-> {},
                                 krc20Deployer |-> [t \in Tokens |-> IF t \in listed THEN w ELSE Blank],
                                 krc20Meta |-> [t \in Tokens |-> Blank]])
         /\ claims = [t \in Tokens |-> IF t \in old THEN {w} ELSE {}]
         /\ orphans = old \ listed
  BY <1>1
<1>3. PICK stored : stored = [version |-> 6, allowed |-> {},
                              krc20Deployer |-> [t \in Tokens |-> IF t \in listed THEN w ELSE Blank],
                              krc20Meta |-> [t \in Tokens |-> Blank]]
  OBVIOUS
<1>4. /\ stored.version = 6 /\ stored.allowed = {}
      /\ stored.krc20Deployer = [t \in Tokens |-> IF t \in listed THEN w ELSE Blank]
      /\ stored.krc20Meta = [t \in Tokens |-> Blank]
  BY <1>3
<1>5. PICK c : c = [deployer |-> stored.krc20Deployer, meta |-> stored.krc20Meta,
                    wrapped |-> stored.allowed]
  OBVIOUS
<1>6. /\ c.deployer = [t \in Tokens |-> IF t \in listed THEN w ELSE Blank]
      /\ c.meta = [t \in Tokens |-> Blank] /\ c.wrapped = {}
  BY <1>4, <1>5
<1>7. config = Saved(c)
  BY <1>2, <1>3, <1>4, <1>5 DEF ReadConfig, Migrated
<1>8. config = [c EXCEPT !.deployer = [u \in Tokens |-> IF c.deployer[u] = Blank THEN None ELSE c.deployer[u]],
                         !.meta = [u \in Tokens |-> IF c.meta[u] = Blank THEN None ELSE c.meta[u]]]
  BY <1>7 DEF Saved
<1>9. w # Blank
  BY DEF RegistryAssumption, Blank
<1>10. /\ [u \in Tokens |-> IF c.deployer[u] = Blank THEN None ELSE c.deployer[u]]
            = [u \in Tokens |-> IF u \in listed THEN w ELSE None]
       /\ [u \in Tokens |-> IF c.meta[u] = Blank THEN None ELSE c.meta[u]] = [u \in Tokens |-> None]
  BY <1>6, <1>9
<1>11. config = [c EXCEPT !.deployer = [u \in Tokens |-> IF u \in listed THEN w ELSE None],
                          !.meta = [u \in Tokens |-> None]]
  BY <1>8, <1>10
<1>12. config = [deployer |-> [u \in Tokens |-> IF u \in listed THEN w ELSE None],
                 meta |-> [u \in Tokens |-> None], wrapped |-> {}]
  BY <1>5, <1>4, <1>11
<1>13. /\ config \in Config /\ \A u \in Tokens : config.meta[u] = None
       /\ \A u \in Tokens : config.deployer[u] = IF u \in listed THEN w ELSE None
  BY <1>12 DEF Config, Address
<1>14. RegistryTypes
  BY <1>2, <1>13 DEF RegistryInit, RegistryTypes, Address, Files
<1>15. FlowsOK /\ PendingIsAlone
  BY DEF RegistryInit, FlowsOK, PendingIsAlone
<1>16. TokensOK /\ RecordedHasClaim
  BY <1>2, <1>13 DEF RegistryInit, TokensOK, RecordedHasClaim
<1>17. RecordFollowsLedger /\ DeployIsRegistered
  BY <1>2, <1>13, RegistryAssumption DEF RecordFollowsLedger, DeployIsRegistered, RegistryAssumption
<1> QED
  BY <1>14, <1>15, <1>16, <1>17 DEF RegistryIInv

LEMMA Moved ==
  ASSUME NEW f \in Flows
  PROVE  /\ \A at : flow' = [flow EXCEPT ![f].at = at] =>
                 flow' = [flow EXCEPT ![f] = [flow[f] EXCEPT !.at = at]]
         /\ flow' = [flow EXCEPT ![f].at = "sending", ![f].from = active] =>
                 flow' = [flow EXCEPT ![f] = [flow[f] EXCEPT !.at = "sending", !.from = active]]
OBVIOUS

LEMMA DeployingStep ==
  ASSUME RegistryAssumption, RegistryIInv, NEW f \in Flows, Deploying(f)
  PROVE  RegistryIInv'
<1>1. CASE StartDeploy(f)
  BY <1>1, StartStep
<1>2. CASE BuildDeploy(f) \/ SubmitDeployCommit(f) \/ AwaitDeployCommit(f) \/ RevealDeploy(f)
           \/ SubmitDeployIntent(f)
  <2>1. /\ flow[f] # NoFlow /\ flow[f].kind \in {"deploy", "wrapped", "chown"}
               /\ flow[f].at \in Stages
        /\ Quiet
    BY <1>2 DEF BuildDeploy, SubmitDeployCommit, AwaitDeployCommit, RevealDeploy,
                SubmitDeployIntent, Under, Stages, Passes, Reveals
  <2>2. PICK x : /\ flow' = [flow EXCEPT ![f] = x]
                 /\ \/ \E at \in Stages \cup {"sending"} : x = [flow[f] EXCEPT !.at = at]
                    \/ x = [flow[f] EXCEPT !.at = "sending", !.from = active]
    <3>1. CASE RevealDeploy(f)
      BY <3>1, Moved DEF RevealDeploy, Reveals
    <3>2. CASE ~RevealDeploy(f)
      <4>1. PICK at \in Stages \cup {"sending"} : flow' = [flow EXCEPT ![f].at = at]
        BY <1>2, <3>2 DEF BuildDeploy, SubmitDeployCommit, AwaitDeployCommit,
                          SubmitDeployIntent, Passes, Stages
      <4> QED
        BY <4>1, Moved
    <3> QED
      BY <3>1, <3>2
  <2> QED
    BY <2>1, <2>2, PassStep
<1>3. CASE BroadcastDeploy(f)
  BY <1>3, BroadcastDeployStep
<1>4. CASE RegisterPending(f) \/ RegisterResolved(f) \/ RegisterWrapped(f)
  BY <1>4, RegisterStep
<1> QED
  BY <1>1, <1>2, <1>3, <1>4 DEF Deploying

LEMMA HandingOverStep ==
  ASSUME RegistryAssumption, RegistryIInv, NEW f \in Flows, HandingOver(f)
  PROVE  RegistryIInv'
<1>1. CASE StartChown(f)
  BY <1>1, StartStep
<1>2. CASE BuildChown(f) \/ SubmitChownCommit(f) \/ AwaitChownCommit(f) \/ RevealChown(f)
           \/ SubmitChownIntent(f)
  <2>1. /\ flow[f] # NoFlow /\ flow[f].kind \in {"deploy", "wrapped", "chown"}
               /\ flow[f].at \in Stages
        /\ Quiet
    BY <1>2 DEF BuildChown, SubmitChownCommit, AwaitChownCommit, RevealChown,
                SubmitChownIntent, Under, Stages, Passes
  <2>2. PICK at \in Stages \cup {"sending"} : flow' = [flow EXCEPT ![f].at = at]
    BY <1>2 DEF BuildChown, SubmitChownCommit, AwaitChownCommit, RevealChown,
                SubmitChownIntent, Passes, Stages
  <2>3. PICK x : /\ flow' = [flow EXCEPT ![f] = x]
                 /\ x = [flow[f] EXCEPT !.at = at]
    BY <2>2, Moved
  <2> QED
    BY <2>1, <2>3, PassStep
<1>3. CASE BroadcastChown(f)
  BY <1>3, BroadcastChownStep
<1>4. CASE ApplyChown(f)
  BY <1>4, ApplyChownStep
<1> QED
  BY <1>1, <1>2, <1>3, <1>4 DEF HandingOver

LEMMA IssuingStep ==
  ASSUME RegistryAssumption, RegistryIInv, NEW f \in Flows, Issuing(f)
  PROVE  RegistryIInv'
<1>1. CASE StartIssue(f)
  BY <1>1, StartStep
<1>2. CASE AskIssue(f)
  BY <1>2, AskIssueStep
<1>3. CASE Reconcile(f)
  BY <1>3, ReconcileStep
<1>4. CASE BroadcastIssue(f)
  <2>1. Ends(f) /\ Quiet /\ ~Under(f, {"deploy", "chown"}, "sent")
    BY <1>4 DEF BroadcastIssue, Under
  <2> QED
    BY <2>1, EndStep
<1> QED
  BY <1>1, <1>2, <1>3, <1>4 DEF Issuing

LEMMA RegistryNextIInv ==
  ASSUME RegistryAssumption, RegistryIInv, [RegistryNext]_registryVars
  PROVE  RegistryIInv'
<1>1. ASSUME NEW f \in Flows, Deploying(f)
      PROVE  RegistryIInv'
  BY <1>1, DeployingStep
<1>2. ASSUME NEW f \in Flows, HandingOver(f)
      PROVE  RegistryIInv'
  BY <1>2, HandingOverStep
<1>3. ASSUME NEW f \in Flows, Issuing(f)
      PROVE  RegistryIInv'
  BY <1>3, IssuingStep
<1>4. ASSUME NEW f \in Flows, StartImport(f)
      PROVE  RegistryIInv'
  BY <1>4, StartStep
<1>5. ASSUME NEW f \in Flows, ImportAnswered(f)
      PROVE  RegistryIInv'
  BY <1>5, ImportedStep
<1>6. ASSUME NEW f \in Flows, Answer(f)
      PROVE  RegistryIInv'
  BY <1>6, AnswerStep
<1>7. ASSUME NEW f \in Flows, Dropped(f)
      PROVE  RegistryIInv'
  BY <1>7, DroppedStep
<1>8. ASSUME NEW t \in Tokens, OutsideMove(t)
      PROVE  RegistryIInv'
  BY <1>8, OutsideMoveStep
<1>9. ASSUME NEW t \in Tokens, PutConfig(t)
      PROVE  RegistryIInv'
  BY <1>9, PutConfigStep
<1>10. ASSUME NEW w \in Wallets, Switch(w)
       PROVE  RegistryIInv'
  BY <1>10, SwitchStep
<1>11. CASE UNCHANGED registryVars
  BY <1>11 DEF registryVars, RegistryIInv, RegistryTypes, FlowsOK, FlowOK, Fit, Claimed, Current,
     Pending, Sent,
               PendingIsAlone, TokensOK, RecordedHasClaim, RecordFollowsLedger,
               DeployIsRegistered, Under
<1> QED
  BY <1>1, <1>2, <1>3, <1>4, <1>5, <1>6, <1>7, <1>8, <1>9, <1>10, <1>11 DEF RegistryNext

LEMMA RegistryInvariance ==
  ASSUME RegistryAssumption
  PROVE  RegistrySpec => []RegistryIInv
<1>1. RegistryInit => RegistryIInv
  BY RegistryInitIInv
<1>2. RegistryIInv /\ [RegistryNext]_registryVars => RegistryIInv'
  BY RegistryNextIInv
<1> QED
  BY <1>1, <1>2, PTL DEF RegistrySpec

\* Nobody is recorded as the issuer or the owner of a token without a claim to it,
\* however late an answer of the indexer arrives (krc20_import.ts, krc20_issue.ts).
THEOREM RecordedIssuersHaveClaims ==
  ASSUME RegistryAssumption
  PROVE  RegistrySpec => []RecordedHasClaim
<1>1. RegistryIInv => RecordedHasClaim
  BY DEF RegistryIInv
<1> QED
  BY <1>1, RegistryInvariance, PTL

\* The recorded deployer is the issuer on the ledger, but for the accidents that
\* RecordFollowsLedger names; an import that names the owner repairs the record.
THEOREM RecordsFollowTheLedger ==
  ASSUME RegistryAssumption
  PROVE  RegistrySpec => []RecordFollowsLedger
<1>1. RegistryIInv => RecordFollowsLedger
  BY DEF RegistryIInv
<1> QED
  BY <1>1, RegistryInvariance, PTL

\* A deploy that is on the ledger is recorded, or about to be, whatever the indexer
\* answers (krc20_deploy.ts); only a lost reply leaves its token without an issuer.
THEOREM DeploysAreRegistered ==
  ASSUME RegistryAssumption
  PROVE  RegistrySpec => []DeployIsRegistered
<1>1. RegistryIInv => DeployIsRegistered
  BY DEF RegistryIInv
<1> QED
  BY <1>1, RegistryInvariance, PTL

-----------------------------------------------------------------------------
(***************************************************************************)
(* The offer file of the open swaps agrees with the chain, and only sales  *)
(* that were made are booked, for any number of offers, takers, requests,  *)
(* cache slots, times and faults.                                          *)
(*                                                                         *)
(* A cancel writes back the record that it read before it waited, and a    *)
(* fill, which never reads it, may come at any time between.  OpenIInv     *)
(* says why this does no harm: a handler that waits for its write knows    *)
(* whose the output is, which cannot change any more; a snapshot was open  *)
(* or expired when it was taken; and an offer has a record before anybody  *)
(* can cancel or buy it, so that its listing is recorded once and first.   *)
(***************************************************************************)

Cancelling == {"cancel_prepare", "cancel_submit", "cancelled"}
Buying == {"finalize_submit", "filled"}

\* What a handler knows of its offer while it waits.
OpenHandlerOK(h) ==
    /\ h.pc = "listed" => chain[h.offer] = "listed" /\ offers[h.offer] = NoRecord
    /\ h.pc = "filled" => chain[h.offer] = h.by
    /\ h.pc = "cancelled" => chain[h.offer] = "cancelled"
    /\ h.pc \in Cancelling \cup Buying => offers[h.offer] # NoRecord
    /\ h.pc \in Cancelling => h.snapshot.state \in {"open", "expired"}

HandlersOK ==
    /\ \A r \in Reqs : OpenHandlerOK(req[r])
    /\ \A r, q \in Reqs :
          req[r].pc = "listed" /\ req[q].pc = "listed" /\ req[r].offer = req[q].offer => r = q

ListedIsKnown ==
    /\ \A i \in Rids : rids[i] # NoRid => offers[rids[i].offer] # NoRecord
    /\ \A o \in Offers : offers[o] # NoRecord => chain[o] \notin {Unlisted, "committed"}

OpenIInv ==
    /\ OpenTypeOK /\ HandlersOK /\ ListedIsKnown
    /\ RecordIsTrue /\ OffersMatchListings /\ SaleWasMade

-----------------------------------------------------------------------------
\* What the sweeps and the ageing of the file leave.

\* The record of an offer as it was, or expired since.
Aged(o) ==
    \/ offers'[o] = offers[o]
    \/ /\ offers[o] # NoRecord /\ offers'[o] # NoRecord
       /\ offers[o].state = "open" /\ offers[o].expiresAt <= now /\ offers'[o].state = "expired"

LEMMA NormalizedTyped ==
    ASSUME OpenTypeOK
    PROVE  /\ Normalized \in [Offers -> Record \cup {NoRecord}]
           /\ \A o \in Offers : /\ Normalized[o] = NoRecord <=> offers[o] = NoRecord
                                /\ Normalized[o] # NoRecord => Normalized[o] \in Record
                                /\ Normalized[o].state \in {"open", "expired"}
                                       => Normalized[o] # NoRecord
           /\ offers' = Normalized => \A o \in Offers : Aged(o)
<1>1. ASSUME NEW o \in Offers
      PROVE  /\ Normalized[o] \in Record \cup {NoRecord}
             /\ Normalized[o] = NoRecord <=> offers[o] = NoRecord
             /\ Normalized[o].state \in {"open", "expired"} => Normalized[o] # NoRecord
             /\ offers' = Normalized => Aged(o)
  <2>1. Normalized[o] = IF offers[o].state = "open" /\ offers[o].expiresAt <= now
                        THEN [offers[o] EXCEPT !.state = "expired"] ELSE offers[o]
    BY DEF Normalized
  <2>2. offers[o] \in Record \cup {NoRecord}
    BY DEF OpenTypeOK
  <2>3. CASE offers[o].state = "open" /\ offers[o].expiresAt <= now
    <3>1. offers[o] \in Record /\ offers[o] # NoRecord
      BY <2>2, <2>3 DEF NoRecord
    <3>2. Normalized[o] \in Record /\ Normalized[o].state = "expired" /\ Normalized[o] # NoRecord
      BY <2>1, <2>3, <3>1 DEF Record, States, NoRecord
    <3> QED
      BY <2>3, <3>1, <3>2 DEF Aged
  <2>4. CASE ~ (offers[o].state = "open" /\ offers[o].expiresAt <= now)
    <3>1. Normalized[o] = offers[o]
      BY <2>1, <2>4
    <3> QED
      BY <2>2, <3>1 DEF Aged, NoRecord
  <2> QED
    BY <2>3, <2>4
<1> QED
  BY <1>1 DEF Normalized

LEMMA SweptTyped ==
    ASSUME OpenTypeOK
    PROVE  /\ Swept \in [Offers -> Prep \cup {NoPrep}]
           /\ SweptCancels \in [Rids -> Rid \cup {NoRid}]
           /\ \A i \in Rids : SweptCancels[i] = rids[i] \/ SweptCancels[i] = NoRid
BY DEF OpenTypeOK, Swept, SweptCancels

\* A record that is written, and what became of the others.
LEMMA UpsertForm ==
    ASSUME OpenTypeOK, NEW o \in Offers, NEW rec \in Record, Upsert(o, rec)
    PROVE  /\ offers' \in [Offers -> Record \cup {NoRecord}] /\ offers'[o] = rec /\ rec # NoRecord
           /\ \A p \in Offers : p # o => Aged(p)
<1>1. /\ Normalized \in [Offers -> Record \cup {NoRecord}]
             /\ offers' = [Normalized EXCEPT ![o] = rec]
      /\ Normalized = [p \in Offers |-> Normalized[p]]
  BY NormalizedTyped DEF Upsert, Normalized
<1>2. rec # NoRecord
  BY DEF Record, NoRecord, States
<1>3. ASSUME NEW p \in Offers, p # o PROVE Aged(p)
  <2>1. offers'[p] = IF offers[p].state = "open" /\ offers[p].expiresAt <= now
                     THEN [offers[p] EXCEPT !.state = "expired"] ELSE offers[p]
    BY <1>1, <1>3 DEF Normalized
  <2>2. CASE offers[p].state = "open" /\ offers[p].expiresAt <= now
    <3>1. offers[p] \in Record /\ offers[p] # NoRecord
      BY <2>2 DEF OpenTypeOK, NoRecord
    <3>2. offers'[p].state = "expired" /\ offers'[p] # NoRecord
      BY <2>1, <2>2, <3>1 DEF Record, NoRecord
    <3> QED
      BY <2>2, <3>1, <3>2 DEF Aged
  <2> QED
    BY <2>1, <2>2 DEF Aged
<1> QED
  BY <1>1, <1>2, <1>3

\* A handler by what it waits for.
LEMMA HandlerTyped ==
    ASSUME OpenTypeOK, NEW r \in Reqs
    PROVE  /\ req[r] # Idle => req[r].offer \in Offers
           /\ req[r].pc # "idle" => req[r].offer \in Offers
           /\ req[r].pc \in Cancelling => req[r].snapshot \in Record
           /\ req[r].pc \in {"cancel_submit", "cancelled"} =>
                 req[r] \in [pc: {"cancel_submit", "cancelled"}, offer: Offers, snapshot: Record, rid: Rids]
           /\ req[r].pc \in Buying =>
                 req[r] \in [pc: {"finalize_submit", "filled"}, offer: Offers, by: Takers, rid: Rids]
BY DEF OpenTypeOK, OpenHandlers, Idle, Cancelling, Buying

-----------------------------------------------------------------------------
\* Three kinds of steps.

Finishing == {"listed", "filled", "cancelled"}

\* Nothing happens on chain, and no record is written but by its age.
LEMMA QuietKept ==
    ASSUME OpenIInv, OpenTypeOK', UNCHANGED <<chain, sales>>, lost \subseteq lost', now <= now',
           \A o \in Offers : Aged(o),
           \A i \in Rids : rids'[i] = rids[i] \/ rids'[i] = NoRid
               \/ offers[rids'[i].offer] # NoRecord,
           \A q \in Reqs :
              \/ req'[q] = req[q]
              \/ /\ req'[q].pc \notin Finishing /\ (req'[q] = Idle \/ OpenHandlerOK(req'[q]))
                 /\ req'[q] # Idle => req'[q].offer \in Offers
                 /\ req[q].pc \in Finishing =>
                       \/ req[q].offer \in lost'
                       \/ req[q].pc = "filled" /\ offers'[req[q].offer].state # "open"
    PROVE  OpenIInv'
<1>1. \A o \in Offers : (offers[o] = NoRecord) <=> (offers'[o] = NoRecord)
  BY DEF Aged
<1>2. OpenTypeOK
  BY DEF OpenIInv
<1>3. ASSUME NEW q \in Reqs PROVE OpenHandlerOK(req[q])'
  <2>1. CASE req'[q] = req[q]
    <3>1. req[q].pc # "idle" => req[q].offer \in Offers
      BY <1>2, HandlerTyped
    <3> QED
      BY <1>1, <2>1, <3>1 DEF OpenIInv, HandlersOK, OpenHandlerOK, Cancelling, Buying
  <2>2. CASE req'[q] = Idle
    BY <2>2 DEF OpenHandlerOK, Idle, Cancelling, Buying
  <2>3. CASE req'[q] # req[q] /\ req'[q] # Idle
    <3>1. OpenHandlerOK(req'[q]) /\ req'[q].offer \in Offers /\ req'[q].pc \notin Finishing
      BY <2>3
    <3> QED
      BY <1>1, <3>1 DEF OpenHandlerOK, Finishing
  <2> QED
    BY <2>1, <2>2, <2>3
<1>4. HandlersOK'
  BY <1>3 DEF OpenIInv, HandlersOK, Finishing
<1>5. ListedIsKnown'
  <2>1. \A i \in Rids : rids[i] # NoRid => rids[i].offer \in Offers
    BY <1>2 DEF OpenTypeOK, Rid
  <2>2. \A i \in Rids : rids'[i] # NoRid => rids'[i].offer \in Offers
    BY DEF OpenTypeOK, Rid
  <2> QED
    BY <1>1, <2>1, <2>2 DEF OpenIInv, ListedIsKnown
<1>6. RecordIsTrue'
  BY DEF OpenIInv, RecordIsTrue, Aged
<1>7. OffersMatchListings'
  <2> SUFFICES ASSUME NEW o \in Offers, o \notin lost'
      PROVE  /\ offers'[o].state = "open" /\ offers'[o].expiresAt > now' /\ ~ offers'[o].failed
                  => chain[o] = "listed" \/ Recording(o, "filled")' \/ Recording(o, "cancelled")'
             /\ chain[o] \notin {Unlisted, "committed"}
                    => offers'[o] # NoRecord \/ Recording(o, "listed")'
    BY DEF OffersMatchListings
  <2>1. ASSUME NEW pc \in {"listed", "cancelled"}, Recording(o, pc) PROVE Recording(o, pc)'
    BY <2>1 DEF Recording, Finishing
  <2>2. ASSUME Recording(o, "filled"), offers'[o].state = "open" PROVE Recording(o, "filled")'
    BY <2>2 DEF Recording, Finishing
  <2>3. ASSUME offers'[o].state = "open", offers'[o].expiresAt > now', ~ offers'[o].failed
        PROVE  chain[o] = "listed" \/ Recording(o, "filled") \/ Recording(o, "cancelled")
    <3>1. offers'[o] = offers[o]
      BY <2>3 DEF Aged
    <3>2. offers[o].expiresAt > now
      <4>1. offers[o] \in Record /\ now \in Nat /\ now' \in Nat /\ offers[o].expiresAt \in Nat
        BY <1>2, <2>3, <3>1, OpenSwapAssumption DEF OpenTypeOK, NoRecord, Record, Times, NoExpiry
      <4> QED
        BY <2>3, <3>1, <4>1
    <3> QED
      BY <2>3, <3>1, <3>2 DEF OpenIInv, OffersMatchListings
  <2> QED
    BY <1>1, <2>1, <2>2, <2>3 DEF OpenIInv, OffersMatchListings
<1>8. SaleWasMade'
  BY DEF OpenIInv, SaleWasMade
<1> QED
  BY <1>4, <1>5, <1>6, <1>7, <1>8 DEF OpenIInv

\* A handler writes the record of its offer and is over.
LEMMA WriteKept ==
    ASSUME OpenIInv, OpenTypeOK', NEW r \in Reqs, NEW o \in Offers, req[r] # Idle, o = req[r].offer,
           NEW rec \in Record, Upsert(o, rec), Become(r, Idle),
           UNCHANGED <<now, chain>>, lost \subseteq lost',
           \A i \in Rids : rids'[i] = rids[i] \/ rids'[i] = NoRid,
           offers[o] # NoRecord \/ req[r].pc = "listed",
           rec.state = "filled" => chain[o] \in Takers,
           rec.state = "cancelled" => chain[o] = "cancelled",
           rec.state = "open" => rec.failed \/ chain[o] = "listed",
           \A s \in sales' : chain[s.offer] = s.user
    PROVE  OpenIInv'
<1>1. OpenTypeOK
  BY DEF OpenIInv
<1>2. offers'[o] = rec /\ rec # NoRecord /\ \A p \in Offers : p # o => Aged(p)
  BY <1>1, UpsertForm
<1>3. \A p \in Offers : offers[p] # NoRecord => offers'[p] # NoRecord
  BY <1>2 DEF Aged
<1>4. req'[r] = Idle /\ \A q \in Reqs : q # r => req'[q] = req[q]
  BY <1>1 DEF OpenTypeOK, Become
<1>5. ASSUME NEW q \in Reqs PROVE OpenHandlerOK(req[q])'
  <2>1. CASE q = r
    BY <1>4, <2>1 DEF OpenHandlerOK, Idle, Cancelling, Buying
  <2>2. CASE q # r
    <3>1. OpenHandlerOK(req[q]) /\ (req[q].pc # "idle" => req[q].offer \in Offers)
      BY <1>1, HandlerTyped DEF OpenIInv, HandlersOK
    <3>2. ASSUME req[q].pc = "listed" PROVE offers'[req[q].offer] = NoRecord
      <4>1. offers[req[q].offer] = NoRecord /\ req[q].offer # o
        BY <2>2, <3>1, <3>2 DEF OpenHandlerOK, OpenIInv, HandlersOK
      <4> QED
        BY <1>2, <3>1, <3>2, <4>1 DEF Aged
    <3> QED
      BY <1>3, <1>4, <2>2, <3>1, <3>2 DEF OpenHandlerOK, Cancelling, Buying
  <2> QED
    BY <2>1, <2>2
<1>6. HandlersOK'
  BY <1>4, <1>5 DEF OpenIInv, HandlersOK, Idle
<1>7. chain[o] \notin {Unlisted, "committed"}
  BY DEF OpenIInv, ListedIsKnown, HandlersOK, OpenHandlerOK, Unlisted
<1>8. ListedIsKnown'
  <2>1. \A i \in Rids : rids[i] # NoRid => rids[i].offer \in Offers
    BY <1>1 DEF OpenTypeOK, Rid
  <2>2. \A p \in Offers : p # o => (offers'[p] # NoRecord => offers[p] # NoRecord)
    BY <1>2 DEF Aged
  <2> QED
    BY <1>3, <1>7, <2>1, <2>2 DEF OpenIInv, ListedIsKnown
<1>9. RecordIsTrue'
  BY <1>2 DEF OpenIInv, RecordIsTrue, Aged
<1>10. OffersMatchListings'
  <2> SUFFICES ASSUME NEW p \in Offers, p \notin lost'
      PROVE  /\ offers'[p].state = "open" /\ offers'[p].expiresAt > now /\ ~ offers'[p].failed
                  => chain[p] = "listed" \/ Recording(p, "filled")' \/ Recording(p, "cancelled")'
             /\ chain[p] \notin {Unlisted, "committed"}
                    => offers'[p] # NoRecord \/ Recording(p, "listed")'
    BY DEF OffersMatchListings
  <2>1. CASE p = o
    BY <1>2, <2>1
  <2>2. CASE p # o
    <3>1. \A pc \in Finishing : Recording(p, pc) => Recording(p, pc)'
      BY <1>4, <2>2 DEF Recording
    <3>2. offers'[p].state = "open" => offers'[p] = offers[p]
      BY <1>2, <2>2 DEF Aged
    <3> QED
      BY <1>3, <3>1, <3>2 DEF OpenIInv, OffersMatchListings, Finishing
  <2> QED
    BY <2>1, <2>2
<1>11. SaleWasMade'
  BY DEF SaleWasMade
<1> QED
  BY <1>6, <1>8, <1>9, <1>10, <1>11 DEF OpenIInv

\* The output comes to be, or is spent, and a handler knows it.
LEMMA ChainKept ==
    ASSUME OpenIInv, OpenTypeOK', NEW r \in Reqs, NEW h, NEW o \in Offers, NEW c,
           req[r] # Idle, o = req[r].offer, req[r].pc \notin Finishing, Become(r, h), h.offer = o,
           chain' = [chain EXCEPT ![o] = c], UNCHANGED <<now, offers, rids, sales, lost>>,
           \/ chain[o] = Unlisted /\ c = "committed" /\ h.pc = "p2sh_wait"
           \/ chain[o] \in {Unlisted, "committed"} /\ c = "listed" /\ h.pc = "listed"
           \/ /\ chain[o] = "listed" /\ c = "cancelled" /\ h.pc = "cancelled"
              /\ req[r].pc \in Cancelling /\ h.snapshot = req[r].snapshot
           \/ /\ chain[o] = "listed" /\ c \in Takers /\ h.pc = "filled" /\ h.by = c
              /\ req[r].pc \in Buying
    PROVE  OpenIInv'
<1>1. OpenTypeOK
  BY DEF OpenIInv
<1>2. chain'[o] = c /\ \A p \in Offers : p # o => chain'[p] = chain[p]
  BY <1>1 DEF OpenTypeOK
<1>3. req'[r] = h /\ \A q \in Reqs : q # r => req'[q] = req[q]
  BY <1>1 DEF OpenTypeOK, Become
<1>4. chain[o] \in {Unlisted, "committed"} => offers[o] = NoRecord
  BY DEF OpenIInv, ListedIsKnown
<1>5. chain[o] \notin Takers /\ chain[o] # "cancelled"
  BY OpenSwapAssumption DEF Unlisted
<1>6. ASSUME NEW q \in Reqs, q # r
      PROVE  /\ req[q].pc \in {"filled", "cancelled"} => req[q].offer # o
             /\ req[q].pc = "listed" => req[q].offer # o \/ c \in Takers \cup {"cancelled"}
  <2>1. OpenHandlerOK(req[q]) /\ (req[q].pc = "filled" => req[q].by \in Takers)
    BY <1>1, HandlerTyped DEF OpenIInv, HandlersOK, Buying
  <2> QED
    BY <1>5, <2>1, OpenSwapAssumption DEF OpenHandlerOK, Unlisted
<1>7. c \in Takers \cup {"cancelled"} => offers[o] # NoRecord
  BY OpenSwapAssumption DEF OpenIInv, HandlersOK, OpenHandlerOK, Unlisted
<1>8. ASSUME NEW q \in Reqs PROVE OpenHandlerOK(req[q])'
  <2>1. CASE q = r
    <3>1. OpenHandlerOK(req[r])
      BY DEF OpenIInv, HandlersOK
    <3> QED
      BY <1>2, <1>3, <1>4, <2>1, <3>1 DEF OpenHandlerOK, Cancelling, Buying
  <2>2. CASE q # r
    <3>1. OpenHandlerOK(req[q]) /\ (req[q].pc # "idle" => req[q].offer \in Offers)
      BY <1>1, HandlerTyped DEF OpenIInv, HandlersOK
    <3>2. req[q].pc \in Finishing => req[q].offer # o
      BY <1>6, <1>7, <2>2, <3>1 DEF OpenHandlerOK, Finishing
    <3>3. req[q].pc \in Finishing => chain'[req[q].offer] = chain[req[q].offer]
      BY <1>2, <3>1, <3>2 DEF Finishing
    <3> QED
      BY <1>3, <2>2, <3>1, <3>3 DEF OpenHandlerOK, Cancelling, Buying, Finishing
  <2> QED
    BY <2>1, <2>2
<1>9. HandlersOK'
  <2>1. \A q \in Reqs : q # r /\ req[q].pc = "listed" /\ h.pc = "listed" => req[q].offer # o
    BY <1>6, OpenSwapAssumption
  <2> QED
    BY <1>3, <1>8, <2>1 DEF OpenIInv, HandlersOK
<1>10. ListedIsKnown'
  BY <1>2, <1>4, OpenSwapAssumption DEF OpenIInv, ListedIsKnown, Unlisted
<1>11. RecordIsTrue'
  BY <1>2, <1>5 DEF OpenIInv, RecordIsTrue
<1>12. OffersMatchListings'
  <2> SUFFICES ASSUME NEW p \in Offers, p \notin lost
      PROVE  /\ offers[p].state = "open" /\ offers[p].expiresAt > now /\ ~ offers[p].failed
                  => chain'[p] = "listed" \/ Recording(p, "filled")' \/ Recording(p, "cancelled")'
             /\ chain'[p] \notin {Unlisted, "committed"}
                    => offers[p] # NoRecord \/ Recording(p, "listed")'
    BY DEF OffersMatchListings
  <2>1. \A pc \in Finishing : Recording(p, pc) => Recording(p, pc)'
    BY <1>3 DEF Recording
  <2>2. CASE p = o
    <3>1. h.pc \in Finishing => Recording(o, h.pc)'
      BY <1>3 DEF Recording
    <3>2. offers[o].state = "open" => offers[o] # NoRecord
      BY DEF NoRecord
    <3> QED
      BY <1>2, <1>4, <1>7, <2>2, <3>1, <3>2 DEF Finishing
  <2>3. CASE p # o
    BY <1>2, <2>1, <2>3 DEF OpenIInv, OffersMatchListings, Finishing
  <2> QED
    BY <2>2, <2>3
<1>13. SaleWasMade'
  BY <1>1, <1>2, <1>5 DEF OpenIInv, SaleWasMade, OpenTypeOK
<1> QED
  BY <1>9, <1>10, <1>11, <1>12, <1>13 DEF OpenIInv

-----------------------------------------------------------------------------
\* The steps that are quiet.

\* A step that leaves the offer file and the handlers alone.
LEMMA CacheStepKept ==
    ASSUME OpenIInv, OpenTypeOK', UNCHANGED <<now, chain, sales, offers, req, lost>>,
           \A i \in Rids : rids'[i] = rids[i] \/ rids'[i] = NoRid
               \/ offers[rids'[i].offer] # NoRecord
    PROVE  OpenIInv'
BY QuietKept, OpenSwapAssumption DEF OpenIInv, OpenTypeOK, Aged

\* A handler begins, goes on or gives up.
LEMMA BecomeKept ==
    ASSUME OpenIInv, OpenTypeOK', NEW r \in Reqs, NEW h \in OpenHandlers, Become(r, h),
           OpenHandlerOK(h),
           req[r].pc \notin Finishing, h.pc \notin Finishing,
           UNCHANGED <<now, chain, sales, lost>>, \A o \in Offers : Aged(o),
           \A i \in Rids : rids'[i] = rids[i] \/ rids'[i] = NoRid
               \/ offers[rids'[i].offer] # NoRecord
    PROVE  OpenIInv'
<1>1. req'[r] = h /\ \A q \in Reqs : q # r => req'[q] = req[q]
  BY DEF OpenIInv, OpenTypeOK, Become
<1>2. h # Idle => h.offer \in Offers
  BY DEF OpenHandlers
<1>3. now <= now'
  BY OpenSwapAssumption DEF OpenIInv, OpenTypeOK
<1> QED
  BY <1>1, <1>2, <1>3, QuietKept

LEMMA IdleOK == Idle \in OpenHandlers /\ OpenHandlerOK(Idle) /\ Idle.pc \notin Finishing
BY DEF Idle, OpenHandlers, OpenHandlerOK, Finishing, Cancelling, Buying

LEMMA MakerStepKept ==
    ASSUME OpenIInv, RefusedRequest \/ \E o \in Offers : PrepareOffer(o) \/ RevealSubmit(o)
    PROVE  OpenIInv'
<1>1. UNCHANGED <<now, chain, offers, rids, req, seller, sales, lost, faults>>
  BY DEF PrepareOffer, RevealSubmit, RefusedRequest
<1>2. OpenTypeOK /\ now \in Times
  BY OpenSwapAssumption DEF OpenIInv, OpenTypeOK, Times, NoExpiry
<1>3. Swept \in [Offers -> Prep \cup {NoPrep}]
  BY <1>2, SweptTyped
<1>4. terms' \in [Offers -> Terms \cup {Unprepared}]
  BY <1>2 DEF PrepareOffer, RevealSubmit, RefusedRequest, OpenTypeOK
<1>5. prep' \in [Offers -> Prep \cup {NoPrep}]
  <2>1. ASSUME NEW o \in Offers, PrepareOffer(o) PROVE prep' \in [Offers -> Prep \cup {NoPrep}]
    <3>1. [stage |-> "prepared", createdAt |-> now] \in Prep
      BY <1>2 DEF Prep
    <3> QED
      BY <1>3, <2>1, <3>1 DEF PrepareOffer
  <2>2. ASSUME NEW o \in Offers, RevealSubmit(o) PROVE prep' \in [Offers -> Prep \cup {NoPrep}]
    <3>1. Swept[o] \in Prep
      BY <1>3, <2>2 DEF RevealSubmit
    <3>2. [Swept[o] EXCEPT !.stage = "send_prepared"] \in Prep
      BY <3>1 DEF Prep
    <3> QED
      BY <1>3, <2>2, <3>2 DEF RevealSubmit
  <2>3. CASE RefusedRequest
    BY <1>3, <2>3 DEF RefusedRequest
  <2> QED
    BY <2>1, <2>2, <2>3
<1>6. OpenTypeOK'
  BY <1>1, <1>2, <1>4, <1>5 DEF OpenTypeOK
<1> QED
  BY <1>1, <1>6, CacheStepKept

LEMMA FinalizePrepareKept ==
    ASSUME OpenIInv, NEW o \in Offers, NEW taker \in Takers, FinalizePrepare(taker, o)
    PROVE  OpenIInv'
<1>1. UNCHANGED <<now, terms, prep, chain, offers, req, seller, sales, lost, faults>>
  BY DEF FinalizePrepare
<1>2. OpenTypeOK /\ now \in Times
  BY OpenSwapAssumption DEF OpenIInv, OpenTypeOK, Times, NoExpiry
<1>3. PICK i \in Rids : rids' = [rids EXCEPT ![i] = [offer |-> o, by |-> taker, createdAt |-> now]]
  BY DEF FinalizePrepare
<1>4. [offer |-> o, by |-> taker, createdAt |-> now] \in Rid
  BY <1>2 DEF Rid
<1>5. OpenTypeOK'
  BY <1>1, <1>2, <1>3, <1>4 DEF OpenTypeOK
<1>6. \A j \in Rids : rids'[j] = rids[j] \/ offers[rids'[j].offer] # NoRecord
  BY <1>2, <1>3 DEF OpenTypeOK, FinalizePrepare
<1> QED
  BY <1>1, <1>5, <1>6, CacheStepKept

LEMMA SubmitKept ==
    ASSUME OpenIInv, NEW o \in Offers, NEW r \in Reqs, CommitSubmit(r, o) \/ SendSubmit(r, o)
    PROVE  OpenIInv'
<1>1. UNCHANGED <<now, terms, chain, offers, rids, seller, sales, lost, faults>> /\ prep' = Swept
  BY DEF CommitSubmit, SendSubmit
<1>2. PICK pc \in {"commit_submit", "send_submit"} : Become(r, [pc |-> pc, offer |-> o])
  BY DEF CommitSubmit, SendSubmit
<1>3. PICK h : h = [pc |-> pc, offer |-> o]
  OBVIOUS
<1>4. h \in OpenHandlers /\ OpenHandlerOK(h) /\ h.pc \notin Finishing
  BY <1>3 DEF OpenHandlers, OpenHandlerOK, Cancelling, Buying, Finishing
<1>5. OpenTypeOK'
  BY <1>1, <1>2, <1>3, <1>4, SweptTyped DEF OpenIInv, OpenTypeOK, Become
<1>6. req[r].pc \notin Finishing
  BY IdleOK DEF CommitSubmit, SendSubmit
<1>7. \A p \in Offers : Aged(p)
  BY <1>1 DEF Aged
<1> QED
  BY <1>1, <1>2, <1>3, <1>4, <1>5, <1>6, <1>7, BecomeKept

LEMMA GivesUpKept ==
    ASSUME OpenIInv, NEW r \in Reqs, Refused(r) \/ CommitSeen(r)
    PROVE  OpenIInv'
<1>1. UNCHANGED <<now, terms, chain, offers, rids, seller, sales, lost, faults>> /\ Become(r, Idle)
  BY DEF Refused, CommitSeen
<1>2. prep' \in [Offers -> Prep \cup {NoPrep}]
  <2>1. \A o \in Offers : prep[o] # NoPrep => [prep[o] EXCEPT !.stage = "committed"] \in Prep
    BY DEF OpenIInv, OpenTypeOK, Prep
  <2> QED
    BY <2>1 DEF OpenIInv, OpenTypeOK, Refused, CommitSeen
<1>3. OpenTypeOK'
  BY <1>1, <1>2, IdleOK DEF OpenIInv, OpenTypeOK, Become
<1>4. req[r].pc \notin Finishing /\ \A p \in Offers : Aged(p)
  BY <1>1 DEF Refused, CommitSeen, Finishing, Aged
<1> QED
  BY <1>1, <1>3, <1>4, IdleOK, BecomeKept

\* A cancel begins with the record that is in the file, open or expired.
LEMMA StartCancelKept ==
    ASSUME OpenIInv, NEW r \in Reqs,
           \/ \E o \in Offers : StartCancelPrepare(r, o)
           \/ \E i \in Rids : StartCancelSubmit(r, i)
    PROVE  OpenIInv'
<1>1. UNCHANGED <<now, terms, prep, chain, seller, sales, lost, faults>> /\ offers' = Normalized
      /\ (rids' = SweptCancels \/ rids' = rids) /\ req[r] = Idle
  BY DEF StartCancelPrepare, StartCancelSubmit
<1>2. OpenTypeOK
  BY DEF OpenIInv
<1>3. PICK h \in OpenHandlers : /\ Become(r, h) /\ h.pc \in {"cancel_prepare", "cancel_submit"}
                                /\ h.offer \in Offers /\ offers[h.offer] # NoRecord
                                /\ h.snapshot.state \in {"open", "expired"}
  <2>1. ASSUME NEW o \in Offers, Cancelable(o)
        PROVE  /\ offers[o] # NoRecord /\ Normalized[o] \in Record
               /\ Normalized[o].state \in {"open", "expired"}
    BY <1>2, <2>1, NormalizedTyped DEF Cancelable
  <2>2. ASSUME NEW o \in Offers, StartCancelPrepare(r, o)
        PROVE  \E h \in OpenHandlers : /\ Become(r, h)
                   /\ h.pc \in {"cancel_prepare", "cancel_submit"}
                            /\ h.offer \in Offers /\ offers[h.offer] # NoRecord
                            /\ h.snapshot.state \in {"open", "expired"}
    <3>1. PICK h : h = [pc |-> "cancel_prepare", offer |-> o, snapshot |-> Normalized[o]]
      OBVIOUS
    <3>2. Become(r, h) /\ Cancelable(o)
      BY <2>2, <3>1 DEF StartCancelPrepare
    <3>3. h \in OpenHandlers
      BY <2>1, <3>1, <3>2 DEF OpenHandlers
    <3> QED
      BY <2>1, <3>1, <3>2, <3>3
  <2>3. ASSUME NEW i \in Rids, StartCancelSubmit(r, i)
        PROVE  \E h \in OpenHandlers : /\ Become(r, h)
                   /\ h.pc \in {"cancel_prepare", "cancel_submit"}
                            /\ h.offer \in Offers /\ offers[h.offer] # NoRecord
                            /\ h.snapshot.state \in {"open", "expired"}
    <3>0. PICK o : o = rids[i].offer
      OBVIOUS
    <3>1. PICK h : h = [pc |-> "cancel_submit", offer |-> o, rid |-> i, snapshot |-> Normalized[o]]
      OBVIOUS
    <3>2. o \in Offers /\ Become(r, h) /\ Cancelable(o)
      BY <1>2, <2>3, <3>0, <3>1 DEF StartCancelSubmit, OpenTypeOK, Rid, NoRid
    <3>3. h \in OpenHandlers
      BY <2>1, <3>1, <3>2 DEF OpenHandlers
    <3> QED
      BY <2>1, <3>1, <3>2, <3>3
  <2> QED
    BY <2>2, <2>3
<1>4. OpenHandlerOK(h) /\ h.pc \notin Finishing
  BY <1>3 DEF OpenHandlerOK, Cancelling, Buying, Finishing
<1>5. rids' \in [Rids -> Rid \cup {NoRid}] /\ \A i \in Rids : rids'[i] = rids[i] \/ rids'[i] = NoRid
  BY <1>1, <1>2, SweptTyped DEF OpenTypeOK
<1>6. OpenTypeOK'
  BY <1>1, <1>2, <1>3, <1>5, NormalizedTyped DEF OpenTypeOK, Become
<1>7. req[r].pc \notin Finishing /\ \A o \in Offers : Aged(o)
  BY <1>1, <1>2, IdleOK, NormalizedTyped
<1> QED
  BY <1>1, <1>3, <1>4, <1>5, <1>6, <1>7, BecomeKept

LEMMA CancelPreparedKept ==
    ASSUME OpenIInv, NEW r \in Reqs, CancelPrepared(r)
    PROVE  OpenIInv'
<1>1. UNCHANGED <<now, terms, prep, chain, offers, seller, sales, lost, faults>> /\ Become(r, Idle)
  BY DEF CancelPrepared
<1>2. OpenTypeOK /\ now \in Times
  BY OpenSwapAssumption DEF OpenIInv, OpenTypeOK, Times, NoExpiry
<1>3. PICK o \in Offers : o = req[r].offer /\ offers[o] # NoRecord
  BY <1>2, HandlerTyped DEF CancelPrepared, OpenIInv, HandlersOK, OpenHandlerOK, Cancelling
<1>4. PICK i \in Rids : rids' = [rids EXCEPT ![i] = [offer |-> o, by |-> "maker", createdAt |-> now]]
  BY <1>3 DEF CancelPrepared
<1>5. [offer |-> o, by |-> "maker", createdAt |-> now] \in Rid
  BY <1>2 DEF Rid
<1>6. OpenTypeOK'
  BY <1>1, <1>2, <1>4, <1>5, IdleOK DEF OpenTypeOK, Become
<1>7. \A j \in Rids : rids'[j] = rids[j] \/ offers[rids'[j].offer] # NoRecord
  BY <1>2, <1>3, <1>4 DEF OpenTypeOK
<1>8. req[r].pc \notin Finishing /\ \A p \in Offers : Aged(p)
  BY <1>1 DEF CancelPrepared, Finishing, Aged
<1> QED
  BY <1>1, <1>6, <1>7, <1>8, IdleOK, BecomeKept

LEMMA FinalizeSubmitKept ==
    ASSUME OpenIInv, NEW r \in Reqs, NEW i \in Rids, FinalizeSubmit(r, i)
    PROVE  OpenIInv'
<1>1. UNCHANGED <<now, terms, prep, chain, offers, seller, sales, lost, faults>>
  BY DEF FinalizeSubmit
<1>2. OpenTypeOK /\ rids[i] \in Rid /\ rids[i].by \in Takers
  BY OpenSwapAssumption DEF OpenIInv, OpenTypeOK, FinalizeSubmit, NoRid
<1>3. CASE rids' = [rids EXCEPT ![i] = NoRid] /\ UNCHANGED req
  <2>1. OpenTypeOK'
    BY <1>1, <1>2, <1>3 DEF OpenTypeOK
  <2>2. \A j \in Rids : rids'[j] = rids[j] \/ rids'[j] = NoRid
    BY <1>2, <1>3 DEF OpenTypeOK
  <2> QED
    BY <1>1, <1>3, <2>1, <2>2, CacheStepKept
<1>4. CASE /\ Become(r, [pc |-> "finalize_submit", offer |-> rids[i].offer,
                         by |-> rids[i].by, rid |-> i])
           /\ UNCHANGED rids
  <2>1. PICK h : h = [pc |-> "finalize_submit", offer |-> rids[i].offer, by |-> rids[i].by, rid |-> i]
    OBVIOUS
  <2>2. h \in OpenHandlers /\ h.pc \notin Finishing
    BY <1>2, <2>1 DEF OpenHandlers, Rid, Finishing
  <2>3. offers[h.offer] # NoRecord
    BY <1>2, <2>1, OpenSwapAssumption DEF OpenIInv, ListedIsKnown, NoRid, Rid
  <2>4. OpenHandlerOK(h)
    BY <2>1, <2>3 DEF OpenHandlerOK, Cancelling, Buying
  <2>5. OpenTypeOK'
    BY <1>1, <1>2, <1>4, <2>1, <2>2 DEF OpenTypeOK, Become
  <2>6. req[r].pc \notin Finishing /\ \A p \in Offers : Aged(p)
    BY <1>1, IdleOK DEF FinalizeSubmit, Aged
  <2> QED
    BY <1>1, <1>4, <2>1, <2>2, <2>4, <2>5, <2>6, BecomeKept
<1> QED
  BY <1>3, <1>4 DEF FinalizeSubmit

LEMMA FileStepKept ==
    ASSUME OpenIInv, ListOffers \/ Tick \/ (\E address \in Sellers : UpsertRule(address))
    PROVE  OpenIInv'
<1>1. OpenTypeOK
  BY DEF OpenIInv
<1>2. UNCHANGED <<terms, prep, chain, rids, req, lost, faults>> /\ sales' \subseteq sales
  BY DEF ListOffers, Tick, UpsertRule
<1>3. offers' \in [Offers -> Record \cup {NoRecord}] /\ \A o \in Offers : Aged(o)
  BY <1>1, NormalizedTyped DEF ListOffers, Tick, UpsertRule, Aged, OpenTypeOK
<1>4. now' \in 0..MaxTime /\ now <= now' /\ seller' \in Sellers
  BY <1>1, OpenSwapAssumption DEF ListOffers, Tick, UpsertRule, OpenTypeOK
<1>5. OpenTypeOK'
  BY <1>1, <1>2, <1>3, <1>4 DEF OpenTypeOK
<1>6. CASE UNCHANGED sales
  BY <1>2, <1>3, <1>4, <1>5, <1>6, QuietKept
<1>7. CASE \E address \in Sellers : UpsertRule(address)
  <2>1. UNCHANGED <<now, offers>>
    BY <1>7 DEF UpsertRule
  <2> QED
    BY <1>2, <1>5, <2>1 DEF OpenIInv, HandlersOK, OpenHandlerOK, ListedIsKnown, RecordIsTrue,
       OffersMatchListings, Recording, SaleWasMade
<1> QED
  BY <1>6, <1>7 DEF ListOffers, Tick

LEMMA RestartKept ==
    ASSUME OpenIInv, Restart
    PROVE  OpenIInv'
<1>1. OpenTypeOK'
  BY OpenSwapAssumption DEF Restart, OpenIInv, OpenTypeOK, OpenHandlers
<1>2. /\ UNCHANGED <<now, chain, offers, sales>> /\ lost \subseteq lost'
      /\ \A o \in Offers : Aged(o)
      /\ \A i \in Rids : rids'[i] = NoRid
      /\ \A q \in Reqs : req'[q] = Idle
  BY DEF Restart, Aged
<1>3. \A q \in Reqs : req[q].pc \in Finishing => req[q].offer \in lost'
  BY HandlerTyped, IdleOK DEF Restart, OpenIInv, Finishing, Idle
<1>4. now <= now'
  BY <1>2, OpenSwapAssumption DEF OpenIInv, OpenTypeOK
<1> QED
  BY <1>1, <1>2, <1>3, <1>4, IdleOK, QuietKept

-----------------------------------------------------------------------------
\* What the node takes.

LEMMA ListingAcceptedKept ==
    ASSUME OpenIInv, NEW r \in Reqs, CommitAccepted(r) \/ SendAccepted(r)
    PROVE  OpenIInv'
<1>1. UNCHANGED <<now, terms, prep, offers, rids, seller, sales, lost, faults>>
  BY DEF CommitAccepted, SendAccepted
<1>2. PICK o : o = req[r].offer
  OBVIOUS
<1>3. OpenTypeOK /\ o \in Offers /\ req[r].pc \in {"commit_submit", "send_submit"} /\ req[r] # Idle
  BY <1>2, HandlerTyped DEF OpenIInv, CommitAccepted, SendAccepted, Idle
<1>4. PICK h, c : /\ h.pc \in {"p2sh_wait", "listed"} /\ h = [pc |-> h.pc, offer |-> o]
          /\ Become(r, h)
                  /\ chain' = [chain EXCEPT ![o] = c]
                  /\ \/ chain[o] = Unlisted /\ c = "committed" /\ h.pc = "p2sh_wait"
                     \/ chain[o] \in {Unlisted, "committed"} /\ c = "listed" /\ h.pc = "listed"
  <2>1. CASE CommitAccepted(r)
    <3>1. PICK h : h = [pc |-> "p2sh_wait", offer |-> o]
      OBVIOUS
    <3>2. h.pc = "p2sh_wait" /\ h = [pc |-> h.pc, offer |-> o]
      BY <3>1
    <3>3. Become(r, h) /\ chain' = [chain EXCEPT ![o] = "committed"] /\ chain[o] = Unlisted
      BY <1>2, <2>1, <3>1 DEF CommitAccepted
    <3> QED
      BY <3>2, <3>3
  <2>2. CASE SendAccepted(r)
    <3>1. PICK h : h = [pc |-> "listed", offer |-> o]
      OBVIOUS
    <3>2. h.pc = "listed" /\ h = [pc |-> h.pc, offer |-> o]
      BY <3>1
    <3>3. /\ Become(r, h) /\ chain' = [chain EXCEPT ![o] = "listed"]
          /\ chain[o] \in {Unlisted, "committed"}
      BY <1>2, <2>2, <3>1 DEF SendAccepted
    <3> QED
      BY <3>2, <3>3
  <2> QED
    BY <2>1, <2>2
<1>5. h \in OpenHandlers /\ h.offer = o
  BY <1>3, <1>4 DEF OpenHandlers
<1>6. OpenTypeOK'
  BY <1>1, <1>3, <1>4, <1>5 DEF OpenTypeOK, Become
<1> QED
  BY <1>1, <1>2, <1>3, <1>4, <1>5, <1>6, ChainKept DEF Finishing

LEMMA CancelAcceptedKept ==
    ASSUME OpenIInv, NEW r \in Reqs, CancelAccepted(r)
    PROVE  OpenIInv'
<1>1. PICK g : g = req[r]
  OBVIOUS
<1>2. OpenTypeOK
          /\ g \in [pc: {"cancel_submit", "cancelled"}, offer: Offers, snapshot: Record, rid: Rids]
  BY <1>1, HandlerTyped DEF OpenIInv, CancelAccepted
<1>3. PICK h : h = [g EXCEPT !.pc = "cancelled"]
  OBVIOUS
<1>4. /\ h \in [pc: {"cancel_submit", "cancelled"}, offer: Offers, snapshot: Record, rid: Rids]
      /\ h.pc = "cancelled" /\ h.offer = g.offer /\ h.snapshot = g.snapshot
  BY <1>2, <1>3
<1>5. Become(r, h)
  BY <1>1, <1>2, <1>3 DEF CancelAccepted, Become, OpenTypeOK
<1>6. /\ UNCHANGED <<now, terms, prep, offers, rids, seller, sales, lost, faults>>
      /\ g.pc = "cancel_submit" /\ chain[g.offer] = "listed"
      /\ chain' = [chain EXCEPT ![g.offer] = "cancelled"]
  BY <1>1 DEF CancelAccepted
<1>7. OpenTypeOK'
  BY <1>2, <1>4, <1>5, <1>6 DEF OpenTypeOK, Become, OpenHandlers
<1>8. /\ g # Idle /\ g.pc \notin Finishing /\ g.pc \in Cancelling /\ g.offer \in Offers
      /\ UNCHANGED <<now, offers, rids, sales, lost>>
  BY <1>2, <1>6 DEF Finishing, Idle, Cancelling
<1>9. PICK o, c : o = g.offer /\ c = "cancelled"
  OBVIOUS
<1> QED
  BY <1>1, <1>4, <1>5, <1>6, <1>7, <1>8, <1>9, ChainKept

LEMMA FinalizeAcceptedKept ==
    ASSUME OpenIInv, NEW r \in Reqs, FinalizeAccepted(r)
    PROVE  OpenIInv'
<1>1. PICK g : g = req[r]
  OBVIOUS
<1>2. OpenTypeOK /\ g \in [pc: {"finalize_submit", "filled"}, offer: Offers, by: Takers, rid: Rids]
  BY <1>1, HandlerTyped DEF OpenIInv, FinalizeAccepted, Buying
<1>3. PICK h : h = [g EXCEPT !.pc = "filled"]
  OBVIOUS
<1>4. /\ h \in [pc: {"finalize_submit", "filled"}, offer: Offers, by: Takers, rid: Rids]
      /\ h.pc = "filled" /\ h.offer = g.offer /\ h.by = g.by
  BY <1>2, <1>3
<1>5. Become(r, h)
  BY <1>1, <1>2, <1>3 DEF FinalizeAccepted, Become, OpenTypeOK
<1>6. /\ UNCHANGED <<now, terms, prep, offers, rids, seller, sales, lost, faults>>
      /\ g.pc = "finalize_submit" /\ chain[g.offer] = "listed"
      /\ chain' = [chain EXCEPT ![g.offer] = g.by]
  BY <1>1 DEF FinalizeAccepted
<1>7. OpenTypeOK'
  BY <1>2, <1>4, <1>5, <1>6 DEF OpenTypeOK, Become, OpenHandlers
<1>8. /\ g # Idle /\ g.pc \notin Finishing /\ g.pc \in Buying /\ g.offer \in Offers
      /\ g.by \in Takers /\ UNCHANGED <<now, offers, rids, sales, lost>>
  BY <1>2, <1>6 DEF Finishing, Idle, Buying
<1>9. PICK o, c : o = g.offer /\ c = g.by
  OBVIOUS
<1> QED
  BY <1>1, <1>4, <1>5, <1>6, <1>7, <1>8, <1>9, ChainKept

-----------------------------------------------------------------------------
\* What the handlers write.

LEMMA RecordOfferKept ==
    ASSUME OpenIInv, NEW r \in Reqs, RecordOffer(r)
    PROVE  OpenIInv'
<1>1. PICK o : o = req[r].offer
  OBVIOUS
<1>2. OpenTypeOK /\ o \in Offers /\ req[r] # Idle /\ chain[o] = "listed" /\ req[r].pc = "listed"
  BY <1>1, HandlerTyped DEF OpenIInv, RecordOffer, Idle, HandlersOK, OpenHandlerOK
<1>3. PICK rec : rec = NewRecord(o)
  OBVIOUS
<1>4. rec \in Record /\ rec.state = "open"
  <2>1. terms[o].expiresAt \in Times
    BY <1>2, OpenSwapAssumption DEF OpenTypeOK, Terms, Unprepared, Times, NoExpiry
  <2> QED
    BY <1>3, <2>1 DEF NewRecord, Record, States
<1>5. /\ Upsert(o, rec) /\ Become(r, Idle)
             /\ UNCHANGED <<now, terms, chain, rids, seller, sales, lost, faults>>
      /\ prep' = [prep EXCEPT ![o] = NoPrep]
  BY <1>1, <1>3 DEF RecordOffer
<1>6. OpenTypeOK'
  BY <1>2, <1>4, <1>5, UpsertForm, IdleOK DEF OpenTypeOK, Become
<1>7. \A s \in sales' : chain[s.offer] = s.user
  BY <1>5 DEF OpenIInv, SaleWasMade
<1> QED
  BY <1>1, <1>2, <1>4, <1>5, <1>6, <1>7, WriteKept

LEMMA RecordCancelKept ==
    ASSUME OpenIInv, NEW r \in Reqs, RecordCancel(r)
    PROVE  OpenIInv'
<1>1. PICK g : g = req[r]
  OBVIOUS
<1>2. /\ OpenTypeOK
             /\ g \in [pc: {"cancel_submit", "cancelled"}, offer: Offers, snapshot: Record, rid: Rids]
      /\ g.pc = "cancelled" /\ chain[g.offer] = "cancelled" /\ offers[g.offer] # NoRecord
  BY <1>1, HandlerTyped DEF OpenIInv, RecordCancel, HandlersOK, OpenHandlerOK, Cancelling
<1>3. PICK rec : rec = [g.snapshot EXCEPT !.state = "cancelled", !.expiresAt = now]
  OBVIOUS
<1>4. rec \in Record /\ rec.state = "cancelled"
  <2>1. now \in Times
    BY <1>2, OpenSwapAssumption DEF OpenTypeOK, Times, NoExpiry
  <2> QED
    BY <1>2, <1>3, <2>1 DEF Record, States
<1>5. /\ Upsert(g.offer, rec) /\ Become(r, Idle)
      /\ UNCHANGED <<now, terms, prep, chain, seller, sales, lost, faults>>
      /\ rids' = [rids EXCEPT ![g.rid] = NoRid]
  BY <1>1, <1>3 DEF RecordCancel
<1>6. OpenTypeOK'
  BY <1>2, <1>4, <1>5, UpsertForm, IdleOK DEF OpenTypeOK, Become
<1>7. \A s \in sales' : chain[s.offer] = s.user
  BY <1>5 DEF OpenIInv, SaleWasMade
<1>8. \A i \in Rids : rids'[i] = rids[i] \/ rids'[i] = NoRid
  BY <1>2, <1>5 DEF OpenTypeOK
<1>9. g # Idle /\ g.offer \in Offers
  BY <1>2 DEF Idle
<1> QED
  BY <1>1, <1>2, <1>4, <1>5, <1>6, <1>7, <1>8, <1>9, WriteKept

\* The snapshot of a cancel that failed is written back, and bears the mark.
LEMMA CancelFailsKept ==
    ASSUME OpenIInv, NEW r \in Reqs, req[r].pc \in Cancelling, MarkCancelFailure(r, req[r].offer),
           Become(r, Idle), UNCHANGED <<now, terms, prep, chain, rids, seller, sales>>,
           lost \subseteq lost', lost' \subseteq Offers, faults' \in 0..MaxFaults
    PROVE  OpenIInv'
<1>1. PICK g : g = req[r]
  OBVIOUS
<1>2. /\ OpenTypeOK /\ g.snapshot \in Record /\ g.offer \in Offers /\ g # Idle
      /\ offers[g.offer] # NoRecord /\ g.snapshot.state \in {"open", "expired"}
  BY <1>1, HandlerTyped DEF OpenIInv, HandlersOK, OpenHandlerOK, Cancelling, Idle
<1>3. PICK rec : rec = [g.snapshot EXCEPT !.failed = TRUE]
  OBVIOUS
<1>4. rec \in Record /\ rec.state \in {"open", "expired"} /\ rec.failed
  BY <1>2, <1>3 DEF Record
<1>5. Upsert(g.offer, rec)
  BY <1>1, <1>3 DEF MarkCancelFailure
<1>6. OpenTypeOK'
  BY <1>2, <1>4, <1>5, UpsertForm, IdleOK DEF OpenTypeOK, Become
<1>7. \A s \in sales' : chain[s.offer] = s.user
  BY DEF OpenIInv, SaleWasMade
<1> QED
  BY <1>1, <1>2, <1>4, <1>5, <1>6, <1>7, WriteKept

LEMMA RecordFillKept ==
    ASSUME OpenIInv, NEW r \in Reqs, RecordFill(r)
    PROVE  OpenIInv'
<1>1. PICK g : g = req[r]
  OBVIOUS
<1>2. /\ OpenTypeOK
             /\ g \in [pc: {"finalize_submit", "filled"}, offer: Offers, by: Takers, rid: Rids]
      /\ g.pc = "filled" /\ chain[g.offer] = g.by /\ offers[g.offer] # NoRecord
  BY <1>1, HandlerTyped DEF OpenIInv, RecordFill, HandlersOK, OpenHandlerOK, Buying
<1>3. /\ Become(r, Idle) /\ UNCHANGED <<now, terms, prep, chain, seller, lost, faults>>
      /\ rids' = [rids EXCEPT ![g.rid] = NoRid] /\ lost \subseteq lost'
  BY <1>1 DEF RecordFill
<1>4. \A i \in Rids : rids'[i] = rids[i] \/ rids'[i] = NoRid
  BY <1>2, <1>3 DEF OpenTypeOK
<1>5. g # Idle /\ g.offer \in Offers /\ g.by \in Takers
  BY <1>2 DEF Idle
<1>6. CASE Normalized[g.offer].state = "open"
  <2>1. PICK rec : rec = [Normalized[g.offer] EXCEPT !.state = "filled"]
    OBVIOUS
  <2>2. rec \in Record /\ rec.state = "filled"
    BY <1>2, <1>5, <1>6, <2>1, NormalizedTyped DEF Record, States
  <2>3. Upsert(g.offer, rec) /\ sales' = Sold(g.offer, g.by)
    BY <1>1, <1>6, <2>1 DEF RecordFill
  <2>4. sales' \subseteq [offer: Offers, user: Takers]
    BY <1>2, <1>5, <2>3 DEF Sold, OpenTypeOK
  <2>5. \A s \in sales' : chain[s.offer] = s.user
    BY <1>2, <2>3 DEF Sold, OpenIInv, SaleWasMade
  <2>6. OpenTypeOK'
    BY <1>2, <1>3, <1>5, <2>2, <2>3, <2>4, UpsertForm, IdleOK DEF OpenTypeOK, Become
  <2> QED
    BY <1>1, <1>2, <1>3, <1>4, <1>5, <2>2, <2>3, <2>5, <2>6, WriteKept
<1>7. CASE Normalized[g.offer].state # "open"
  <2>1. offers' = Normalized /\ UNCHANGED sales
    BY <1>1, <1>7 DEF RecordFill
  <2>2. OpenTypeOK'
    BY <1>2, <1>3, <2>1, NormalizedTyped, IdleOK DEF OpenTypeOK, Become
  <2>3. \A q \in Reqs : q # r => req'[q] = req[q]
    BY <1>3 DEF Become, OpenIInv, OpenTypeOK
  <2>4. req'[r] = Idle
    BY <1>2, <1>3 DEF Become, OpenTypeOK
  <2>5. now <= now'
    BY <1>2, <1>3, OpenSwapAssumption DEF OpenTypeOK
  <2> QED
    BY <1>1, <1>2, <1>3, <1>4, <1>7, <2>1, <2>2, <2>3, <2>4, <2>5, IdleOK, NormalizedTyped,
       QuietKept
<1> QED
  BY <1>6, <1>7

\* The node took it, and the handler does not come to know.
LEMMA ReplyLostKept ==
    ASSUME OpenIInv, NEW r \in Reqs, ReplyLost(r)
    PROVE  OpenIInv'
<1>1. /\ Become(r, Idle) /\ UNCHANGED <<now, terms, prep, chain, rids, seller, sales>>
      /\ lost' = lost \cup {req[r].offer} /\ req[r].pc \in Finishing
      /\ faults' = faults + 1 /\ faults < MaxFaults
  BY DEF ReplyLost, Finishing
<1>2. OpenTypeOK /\ req[r].offer \in Offers
  BY <1>1, HandlerTyped DEF OpenIInv, Finishing
<1>3. faults' \in 0..MaxFaults /\ lost' \subseteq Offers
  BY <1>1, <1>2, OpenSwapAssumption DEF OpenTypeOK
<1>4. CASE req[r].pc = "cancelled"
  BY <1>1, <1>3, <1>4, CancelFailsKept DEF ReplyLost, Cancelling
<1>5. CASE UNCHANGED offers
  <2>1. OpenTypeOK'
    BY <1>1, <1>2, <1>3, <1>5, IdleOK DEF OpenTypeOK, Become
  <2>2. req'[r] = Idle /\ \A q \in Reqs : q # r => req'[q] = req[q]
    BY <1>1, <1>2 DEF OpenTypeOK, Become
  <2>3. now <= now' /\ \A o \in Offers : Aged(o)
    BY <1>1, <1>2, <1>5, OpenSwapAssumption DEF OpenTypeOK, Aged
  <2> QED
    BY <1>1, <2>1, <2>2, <2>3, IdleOK, QuietKept
<1> QED
  BY <1>4, <1>5 DEF ReplyLost

-----------------------------------------------------------------------------
LEMMA OpenInitKept == OpenInit => OpenIInv
<1> SUFFICES ASSUME OpenInit PROVE OpenIInv
  OBVIOUS
<1>1. OpenTypeOK
  BY OpenSwapAssumption DEF OpenInit, OpenTypeOK, OpenHandlers
<1>2. HandlersOK
  BY DEF OpenInit, HandlersOK, OpenHandlerOK, Idle, Cancelling, Buying
<1>3. ListedIsKnown
  BY DEF OpenInit, ListedIsKnown
<1>4. RecordIsTrue /\ OffersMatchListings /\ SaleWasMade
  BY DEF OpenInit, RecordIsTrue, OffersMatchListings, SaleWasMade, NoRecord
<1> QED
  BY <1>1, <1>2, <1>3, <1>4 DEF OpenIInv

LEMMA OpenStepKept == OpenIInv /\ [OpenNext]_openVars => OpenIInv'
<1> SUFFICES ASSUME OpenIInv, [OpenNext]_openVars PROVE OpenIInv'
  OBVIOUS
<1>1. CASE UNCHANGED openVars
  BY <1>1 DEF openVars, OpenIInv, OpenTypeOK, HandlersOK, OpenHandlerOK, ListedIsKnown,
     RecordIsTrue,
     OffersMatchListings, Recording, SaleWasMade
<1>2. ASSUME NEW o \in Offers,
             \/ PrepareOffer(o) \/ RevealSubmit(o)
             \/ \E taker \in Takers : FinalizePrepare(taker, o)
             \/ \E r \in Reqs : CommitSubmit(r, o) \/ SendSubmit(r, o) \/ StartCancelPrepare(r, o)
      PROVE  OpenIInv'
  BY <1>2, MakerStepKept, FinalizePrepareKept, SubmitKept, StartCancelKept
<1>3. ASSUME NEW r \in Reqs, NEW i \in Rids, StartCancelSubmit(r, i) \/ FinalizeSubmit(r, i)
      PROVE  OpenIInv'
  BY <1>3, StartCancelKept, FinalizeSubmitKept
<1>4. ASSUME NEW r \in Reqs, CancelFails(r)
      PROVE  OpenIInv'
  <2>1. /\ req[r].pc \in Cancelling /\ MarkCancelFailure(r, req[r].offer) /\ Become(r, Idle)
        /\ UNCHANGED <<now, terms, prep, chain, rids, seller, sales, lost, faults>>
        /\ lost \subseteq Offers /\ faults \in 0..MaxFaults
    BY <1>4 DEF CancelFails, Cancelling, OpenIInv, OpenTypeOK
  <2> QED
    BY <2>1, CancelFailsKept
<1>5. ASSUME NEW r \in Reqs, Answered(r) \/ ReplyLost(r)
      PROVE  OpenIInv'
  BY <1>4, <1>5, ListingAcceptedKept, GivesUpKept, RecordOfferKept, CancelPreparedKept,
     CancelAcceptedKept, RecordCancelKept, FinalizeAcceptedKept, RecordFillKept, ReplyLostKept
     DEF Answered
<1>6. CASE RefusedRequest \/ ListOffers \/ Tick \/ Restart
               \/ \E address \in Sellers : UpsertRule(address)
  BY <1>6, MakerStepKept, FileStepKept, RestartKept
<1> QED
  BY <1>1, <1>2, <1>3, <1>5, <1>6 DEF OpenNext

\* OpenIInv holds throughout.
THEOREM OpenInvariance == OpenSpec => []OpenIInv
BY OpenInitKept, OpenStepKept, PTL DEF OpenSpec

\* What the file says became of an offer became of it on chain.
THEOREM RecordsAreTrue == OpenSpec => [](OpenTypeOK /\ RecordIsTrue)
BY OpenInvariance, PTL DEF OpenIInv

\* An offer shown as open has its tokens, and listed tokens are in the file.
THEOREM FileMatchesListings == OpenSpec => []OffersMatchListings
BY OpenInvariance, PTL DEF OpenIInv

\* A sale is booked only to the user who took the tokens.
THEOREM SalesWereMade == OpenSpec => []SaleWasMade
BY OpenInvariance, PTL DEF OpenIInv
=============================================================================
