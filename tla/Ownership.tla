------------------------------ MODULE Ownership ------------------------------
(***************************************************************************)
(* The sites of config.yaml, their proofs of ownership, and the speed that *)
(* follows: internal/cli/reconcile.go, reverify.go, verify.go, throttle.go *)
(* and run.go, internal/verify, internal/store/verification.go.            *)
(*                                                                         *)
(* A reload (SIGHUP, or a request of the control API) reads config.yaml    *)
(* and reconciles the sites with it, then installs the rate of each host   *)
(* and refreshes the cache of verified hosts.  A re-verification runs at   *)
(* startup and every hour; it looks at the proofs and, if it demotes a     *)
(* site, does the same with the configuration in memory.  An operator asks *)
(* for a check, or skips it.  None of these excludes another.  The daemon  *)
(* may crash between any two steps, and a write or a read may fail.        *)
(*                                                                         *)
(* "full" stands for the configured rate and "floor" for the unverified    *)
(* throttle.  Bounds: MaxEdits of config.yaml, MaxReloads, MaxChecks of an *)
(* operator, MaxProofMoves of the proofs, MaxTroubles errors and crashes.  *)
(***************************************************************************)
EXTENDS Integers, FiniteSets

CONSTANTS
  Domains,
  Methods,     \* well_known, dns, meta
  NoMethod,
  NoSite,
  Reloaders,   \* goroutines that may reload at the same time
  MaxEdits, MaxReloads, MaxChecks, MaxProofMoves, MaxTroubles

ASSUME OwnershipAssumption ==
  /\ NoMethod \notin Methods
  /\ Reloaders \cap {"reverify", "check"} = {}
  /\ {MaxEdits, MaxReloads, MaxChecks, MaxProofMoves, MaxTroubles} \subseteq Nat

VARIABLES
  life,       \* "down", "starting" or "serving"
  config,     \* the sites of config.yaml
  loaded,     \* cfg, the configuration in memory
  row,        \* the sites table
  proof,      \* what each surface of a site shows
  rate,       \* Frontier: the base rate of each host
  trusted,    \* verifiedHosts
  task,        \* what each goroutine does
  used,       \* the counters of the bounds
  tangled     \* history: a check was made, a reload failed or met a re-verification,
              \* or the sites whose rates to install could not be listed

ownVars == <<life, config, loaded, row, proof, rate, trusted, task, used, tangled>>

-----------------------------------------------------------------------------
Reverifier == "reverify"
Checker == "check"
Jobs == Reloaders \cup {Reverifier, Checker}

Tiers == {"verified", "attested", "throttled"}
Speed(tier) == IF tier = "verified" THEN "full" ELSE "floor"

\* What earlier runs of the daemon may have left of a site.
NoRow == [known |-> FALSE, enabled |-> FALSE, tier |-> "throttled", method |-> NoMethod, pace |-> "floor"]

\* The reads whose failure is passed over: of the record of a site, for its throttle,
\* its rate or the trust in it, and of the list of sites, for the rates or the trust.
Misses == ({"pace", "rate", "trust"} \X Domains) \cup ({"rates", "hosts"} \X {NoSite})

\* sites: those a step still has to do; at, seen: the site at hand and what was
\* read of it; hosts: the next verifiedHosts; missed: the reads that failed and were
\* passed over; alone: nothing else ran meanwhile.
NoWork == [pc |-> "idle", snap |-> {}, sites |-> {}, at |-> NoSite, seen |-> "throttled", method |-> NoMethod,
           hosts |-> {}, demoted |-> FALSE, missed |-> {}, alone |-> TRUE]

Removed == [NoRow EXCEPT !.known = TRUE]
Proven(m) == [Removed EXCEPT !.enabled = TRUE, !.tier = "verified", !.method = m, !.pace = "full"]

OwnershipInit ==
  /\ life = "down"
  /\ config \in {{}, Domains}
  /\ loaded = {}
  /\ row \in [Domains -> {NoRow, Removed} \cup {Proven(m) : m \in Methods}]
  /\ proof = [s \in Domains |-> [m \in Methods |-> "placed"]]
  /\ rate = [s \in Domains |-> "full"]
  /\ trusted = {}
  /\ task = [j \in Jobs |-> NoWork]
  /\ used = [edits |-> 0, reloads |-> 0, checks |-> 0, changes |-> 0, troubles |-> 0]
  /\ tangled = FALSE

Spend(kind, bound) == used[kind] < bound /\ used' = [used EXCEPT ![kind] = @ + 1]

Free(j) == task[j].pc = "idle"
Enabled == {s \in Domains : row[s].enabled}

\* A task goes on; one that starts ends the solitude of the others.
Continue(j, work) == task' = [task EXCEPT ![j] = work]
Launch(j, work) ==
  LET others == {i \in Jobs \ {j} : ~Free(i)}
  IN /\ task' = [i \in Jobs |-> IF i = j THEN [work EXCEPT !.alone = others = {}]
                               ELSE [task[i] EXCEPT !.alone = @ /\ Free(i)]]
     /\ tangled' = (tangled \/ j = Checker \/ others # {})

daemon == <<life, config, loaded, proof, used, tangled>>

-----------------------------------------------------------------------------
(* The operator and the web.                                               *)

EditConfig ==
  /\ Spend("edits", MaxEdits)
  /\ \E s \in Domains : config' = (config \ {s}) \cup ({s} \ config)
  /\ UNCHANGED <<life, loaded, row, proof, rate, trusted, task, tangled>>

ProofChanges ==
  /\ Spend("changes", MaxProofMoves)
  /\ \E s \in Domains, m \in Methods, shown \in {"placed", "missing", "unreachable"} :
       proof' = [proof EXCEPT ![s][m] = shown]
  /\ UNCHANGED <<life, config, loaded, row, rate, trusted, task, tangled>>

\* What is in memory is lost; the service manager starts the daemon again.
CrashDaemon ==
  /\ life # "down"
  /\ Spend("troubles", MaxTroubles)
  /\ life' = "down"
  /\ task' = [j \in Jobs |-> NoWork]
  /\ rate' = [s \in Domains |-> "full"]
  /\ trusted' = {}
  /\ UNCHANGED <<config, loaded, row, proof, tangled>>

-----------------------------------------------------------------------------
(* reconcileSites, which a start, a reload and a re-verification run.      *)

Reconcile(snap) == [NoWork EXCEPT !.pc = "sync", !.snap = snap, !.sites = snap]

StartDaemon ==
  /\ life = "down"
  /\ life' = "starting"
  /\ loaded' = config
  /\ Launch(Reverifier, Reconcile(config))
  /\ UNCHANGED <<config, row, proof, rate, trusted, used>>

Reload(j) ==
  /\ life = "serving"
  /\ Free(j)
  /\ Spend("reloads", MaxReloads)
  /\ loaded' = config
  /\ Launch(j, Reconcile(config))
  /\ UNCHANGED <<life, config, row, proof, rate, trusted>>

SyncSite_Known(j, s) ==
  /\ task[j].pc = "sync"
  /\ s \in task[j].sites
  /\ row' = IF row[s].known THEN row
            ELSE [row EXCEPT ![s] = [NoRow EXCEPT !.known = TRUE, !.enabled = TRUE]]
  /\ Continue(j, IF row[s].known THEN [task[j] EXCEPT !.pc = "resolve", !.sites = @ \ {s}, !.at = s]
                  ELSE [task[j] EXCEPT !.sites = @ \ {s}])
  /\ UNCHANGED <<daemon, rate, trusted>>

\* A known site is enabled again, a new one is added unverified.
SyncSite(j, s) ==
  /\ task[j].pc = "sync"
  /\ s \in task[j].sites
  /\ row' = [row EXCEPT ![s] = IF @.known THEN [@ EXCEPT !.enabled = TRUE]
                               ELSE [NoRow EXCEPT !.known = TRUE, !.enabled = TRUE]]
  /\ Continue(j, IF row[s].known THEN [task[j] EXCEPT !.pc = "resolve", !.sites = @ \ {s}, !.at = s]
                  ELSE [task[j] EXCEPT !.sites = @ \ {s}])
  /\ UNCHANGED <<daemon, rate, trusted>>

ResolveCrawlForSite(j) ==
  /\ task[j].pc = "resolve"
  /\ Continue(j, [task[j] EXCEPT !.pc = "set", !.seen = row[task[j].at].tier])
  /\ UNCHANGED <<daemon, row, rate, trusted>>

\* The throttle of the row, then the base URL and its sitemaps.
SetSiteThrottle(j) ==
  /\ task[j].pc = "set"
  /\ row' = [row EXCEPT ![task[j].at].pace = Speed(task[j].seen)]
  /\ Continue(j, [task[j] EXCEPT !.pc = "sync", !.at = NoSite, !.seen = "throttled"])
  /\ UNCHANGED <<daemon, rate, trusted>>

\* ListSites: what is enabled and not configured is to be disabled.
ListRemoved(j) ==
  /\ task[j].pc = "sync"
  /\ task[j].sites = {}
  /\ Continue(j, [task[j] EXCEPT !.pc = "disable", !.sites = Enabled \ task[j].snap])
  /\ UNCHANGED <<daemon, row, rate, trusted>>

DisableRemoved(j, s) ==
  /\ task[j].pc = "disable"
  /\ s \in task[j].sites
  /\ row' = [row EXCEPT ![s].enabled = FALSE]
  /\ Continue(j, [task[j] EXCEPT !.sites = @ \ {s}])
  /\ UNCHANGED <<daemon, rate, trusted>>

\* An error of a statement other than that read ends a reload; at startup and after a
\* re-verification it is logged, and the floors follow all the same.
ReconcileFails(j) ==
  /\ task[j].pc \in {"sync", "set", "disable"}
  /\ Spend("troubles", MaxTroubles)
  /\ Continue(j, IF j \in Reloaders THEN NoWork
                 ELSE [task[j] EXCEPT !.pc = "rates", !.sites = {}, !.at = NoSite, !.seen = "throttled"])
  /\ tangled' = (tangled \/ j # Reverifier)
  /\ UNCHANGED <<life, config, loaded, row, proof, rate, trusted>>

-----------------------------------------------------------------------------
(* installThrottleFloors, then verifiedHosts.refresh.                      *)

\* reconcileSites is over.
Reconciled(j) == task[j].pc = "rates" \/ (task[j].pc = "disable" /\ task[j].sites = {})

ListFloors(j) ==
  /\ Reconciled(j)
  /\ Continue(j, [task[j] EXCEPT !.pc = "floors", !.sites = Enabled])
  /\ UNCHANGED <<daemon, row, rate, trusted>>

ReadFloor(j, s) ==
  /\ task[j].pc = "floors"
  /\ s \in task[j].sites
  /\ Continue(j, [task[j] EXCEPT !.pc = "apply", !.sites = @ \ {s}, !.at = s, !.seen = row[s].tier])
  /\ UNCHANGED <<daemon, row, rate, trusted>>

ApplyThrottleFloor(j) ==
  /\ task[j].pc = "apply"
  /\ rate' = [rate EXCEPT ![task[j].at] = Speed(task[j].seen)]
  /\ Continue(j, [task[j] EXCEPT !.pc = "floors", !.at = NoSite, !.seen = "throttled"])
  /\ UNCHANGED <<daemon, row, trusted>>

ListHosts(j) ==
  /\ task[j].pc = "floors"
  /\ task[j].sites = {}
  /\ Continue(j, [task[j] EXCEPT !.pc = "refresh", !.sites = Enabled])
  /\ UNCHANGED <<daemon, row, rate, trusted>>

ReadHost(j, s) ==
  /\ task[j].pc = "refresh"
  /\ s \in task[j].sites
  /\ Continue(j, [task[j] EXCEPT !.sites = @ \ {s},
                    !.hosts = IF row[s].tier = "verified" THEN @ \cup {s} ELSE @])
  /\ UNCHANGED <<daemon, row, rate, trusted>>

\* A record that cannot be read counts as throttled, and the task goes on.
RecordUnread(j) ==
  LET work == task[j]
      without(what, s) == [work EXCEPT !.missed = @ \cup {<<what, s>>}]
  IN /\ Spend("troubles", MaxTroubles)
     /\ \/ /\ work.pc = "resolve"
           /\ Continue(j, [without("pace", work.at) EXCEPT !.pc = "set", !.seen = "throttled"])
        \/ /\ work.pc = "floors"
           /\ \E s \in work.sites :
                Continue(j, [without("rate", s) EXCEPT !.pc = "apply", !.sites = @ \ {s}, !.at = s, !.seen = "throttled"])
        \/ /\ work.pc = "refresh"
           /\ \E s \in work.sites : Continue(j, [without("trust", s) EXCEPT !.sites = @ \ {s}])
     /\ UNCHANGED <<life, config, loaded, row, proof, rate, trusted, tangled>>

\* Without the list of sites no rate is installed, or the trust stays as it was, and
\* the task goes on.
SitesUnlisted(j) ==
  LET without(what) == [task[j] EXCEPT !.missed = @ \cup {<<what, NoSite>>}]
  IN /\ Spend("troubles", MaxTroubles)
     /\ \/ /\ Reconciled(j)
           /\ Continue(j, [without("rates") EXCEPT !.pc = "floors", !.sites = {}])
           /\ tangled' = TRUE
        \/ /\ task[j].pc = "floors" /\ task[j].sites = {}
           /\ Continue(j, [without("hosts") EXCEPT !.pc = "refresh"])
           /\ UNCHANGED tangled
     /\ UNCHANGED <<life, config, loaded, row, proof, rate, trusted>>

\* The task ends; a daemon that starts begins to serve.
Refresh(j) ==
  /\ task[j].pc = "refresh"
  /\ task[j].sites = {}
  /\ trusted' = IF <<"hosts", NoSite>> \in task[j].missed THEN trusted ELSE task[j].hosts
  /\ life' = "serving"
  /\ Continue(j, NoWork)
  /\ UNCHANGED <<config, loaded, row, proof, rate, used, tangled>>

-----------------------------------------------------------------------------
(* reverifyAll.                                                            *)

BeginReverify ==
  /\ life = "serving"
  /\ Free(Reverifier)
  /\ Launch(Reverifier, [NoWork EXCEPT !.pc = "verify", !.sites = Enabled])
  /\ UNCHANGED <<life, config, loaded, row, proof, rate, trusted, used>>

\* Only a site that is verified is looked at.
GetVerification(s) ==
  /\ task[Reverifier].pc = "verify"
  /\ s \in task[Reverifier].sites
  /\ Continue(Reverifier,
       [task[Reverifier] EXCEPT !.sites = @ \ {s},
          !.pc = IF row[s].tier # "verified" THEN "verify" ELSE "fetch",
          !.at = IF row[s].tier = "verified" THEN s ELSE NoSite,
          !.method = IF row[s].tier = "verified" THEN row[s].method ELSE NoMethod])
  /\ UNCHANGED <<daemon, row, rate, trusted>>

\* A clean miss demotes; an error decides nothing.
FetchProof ==
  LET work == task[Reverifier]
      shown == proof[work.at][work.method]
  IN /\ work.pc = "fetch"
     /\ Continue(Reverifier,
          IF shown = "unreachable" THEN [work EXCEPT !.pc = "verify", !.at = NoSite, !.method = NoMethod]
          ELSE [work EXCEPT !.pc = "save", !.seen = IF shown = "placed" THEN "verified" ELSE "throttled"])
     /\ UNCHANGED <<daemon, row, rate, trusted>>

Saved(work, demoted) ==
  [work EXCEPT !.pc = "verify", !.at = NoSite, !.method = NoMethod, !.seen = "throttled", !.demoted = demoted]

SaveReverified_Uncounted ==
  LET work == task[Reverifier]
  IN /\ work.pc = "save"
     /\ row' = [row EXCEPT ![work.at].tier = work.seen, ![work.at].method = work.method]
     /\ Continue(Reverifier, Saved(work, work.demoted))
     /\ UNCHANGED <<daemon, rate, trusted>>

\* SaveVerification: of the demotion, or of the time of the check.
SaveReverified ==
  LET work == task[Reverifier]
  IN /\ work.pc = "save"
     /\ row' = [row EXCEPT ![work.at].tier = work.seen, ![work.at].method = work.method]
     /\ Continue(Reverifier, Saved(work, work.demoted \/ work.seen # "verified"))
     /\ UNCHANGED <<daemon, rate, trusted>>

\* A record that cannot be read or written is passed over.
ReverifyFails ==
  /\ task[Reverifier].pc \in {"fetch", "save"}
  /\ Spend("troubles", MaxTroubles)
  /\ Continue(Reverifier, Saved(task[Reverifier], task[Reverifier].demoted))
  /\ UNCHANGED <<life, config, loaded, row, proof, rate, trusted, tangled>>

EndReverify ==
  /\ task[Reverifier].pc = "verify"
  /\ task[Reverifier].sites = {}
  /\ Continue(Reverifier, IF task[Reverifier].demoted
                          THEN [Reconcile(loaded) EXCEPT !.alone = task[Reverifier].alone]
                          ELSE NoWork)
  /\ UNCHANGED <<daemon, row, rate, trusted>>

-----------------------------------------------------------------------------
(* rabbot verify, and POST /v1/verify.                                     *)

\* The proof is fetched by the method the operator names.
BeginCheck(s, m) ==
  /\ row[s].known
  /\ Free(Checker)
  /\ Spend("checks", MaxChecks)
  /\ Launch(Checker, [NoWork EXCEPT !.pc = "write", !.at = s, !.method = m,
                       !.seen = IF proof[s][m] = "placed" THEN "verified" ELSE "throttled"])
  /\ UNCHANGED <<life, config, loaded, row, proof, rate, trusted>>

\* Whatever came of it is saved, an error as a proof that was not found; the
\* command then has the daemon reload if the site is verified; the MCP tool does not.
SaveCheck ==
  LET work == task[Checker]
  IN /\ work.pc = "write"
     /\ row' = [row EXCEPT ![work.at].tier = work.seen, ![work.at].method = work.method]
     /\ \E reloads \in {FALSE, work.seen = "verified" /\ life = "serving"} :
          /\ Continue(Checker, IF reloads THEN [Reconcile(config) EXCEPT !.alone = FALSE] ELSE NoWork)
          /\ loaded' = IF reloads THEN config ELSE loaded
     /\ UNCHANGED <<life, config, proof, rate, trusted, used, tangled>>

\* verify --skip records the attestation, with the method of the command.
Attest(s, m) ==
  /\ row[s].known
  /\ Spend("checks", MaxChecks)
  /\ row' = [row EXCEPT ![s].tier = "attested", ![s].method = m]
  /\ tangled' = TRUE
  /\ task' = [j \in Jobs |-> [task[j] EXCEPT !.alone = @ /\ Free(j)]]
  /\ UNCHANGED <<life, config, loaded, proof, rate, trusted>>

-----------------------------------------------------------------------------
Reconciling(j) ==
  \/ \E s \in Domains : SyncSite(j, s) \/ DisableRemoved(j, s) \/ ReadFloor(j, s) \/ ReadHost(j, s)
  \/ ResolveCrawlForSite(j) \/ SetSiteThrottle(j)
  \/ ListRemoved(j) \/ ListFloors(j)
  \/ ApplyThrottleFloor(j)
  \/ ListHosts(j) \/ Refresh(j)

Reverify ==
  \/ BeginReverify
  \/ \E s \in Domains : GetVerification(s)
  \/ FetchProof \/ SaveReverified
  \/ EndReverify

OwnershipNext ==
  \/ EditConfig \/ ProofChanges
  \/ CrashDaemon \/ StartDaemon
  \/ \E j \in Reloaders : Reload(j)
  \/ \E j \in Jobs : Reconciling(j) \/ ReconcileFails(j) \/ RecordUnread(j) \/ SitesUnlisted(j)
  \/ Reverify \/ ReverifyFails
  \/ \E s \in Domains, m \in Methods : BeginCheck(s, m) \/ Attest(s, m)
  \/ SaveCheck

OwnershipSpec == OwnershipInit /\ [][OwnershipNext]_ownVars

-----------------------------------------------------------------------------
\* The types of the variables.
OwnershipTypeOK ==
  /\ life \in {"down", "starting", "serving"}
  /\ config \subseteq Domains /\ loaded \subseteq Domains /\ trusted \subseteq Domains
  /\ row \in [Domains -> [known : BOOLEAN, enabled : BOOLEAN, tier : Tiers,
                        method : Methods \cup {NoMethod}, pace : {"full", "floor"}]]
  /\ rate \in [Domains -> {"full", "floor"}]
  /\ \A j \in Jobs : /\ task[j].sites \subseteq Domains /\ task[j].hosts \subseteq Domains
                     /\ task[j].missed \subseteq Misses

\* The table, the rate and the trust have what the proof has earned, or the safe
\* default where the record could not be read; without the list of sites a rate or
\* the trust may be of any time.
Paced(s, missed) ==
  row[s].pace = Speed(row[s].tier) \/ (<<"pace", s>> \in missed /\ row[s].pace = "floor")
Rated(s, missed) ==
  \/ rate[s] = Speed(row[s].tier)
  \/ <<"rate", s>> \in missed /\ rate[s] = "floor"
  \/ <<"rates", NoSite>> \in missed
Trusted(s, hosts, missed) ==
  \/ s \in hosts <=> row[s].tier = "verified"
  \/ <<"trust", s>> \in missed /\ s \notin hosts
  \/ <<"hosts", NoSite>> \in missed

Settled(s, missed) ==
  /\ row[s].enabled <=> s \in config
  /\ s \in config => Paced(s, missed) /\ Rated(s, missed) /\ Trusted(s, trusted, missed)

\* A reload that nothing overlapped, and that came to its end without an error,
\* leaves the table, the rates and the trust in agreement with the configuration it
\* read and the proofs, but for the reads that failed on its way, which it does not
\* report: their sites, and no others, may be slow or untrusted without need, and
\* after a list of sites that could not be read the rates, or the trust, are old.
ReloadSettles ==
  [][\A j \in Reloaders :
       /\ task[j].pc = "refresh" /\ task'[j].pc = "idle" /\ life' = "serving"
       /\ task[j].alone
       /\ loaded = config
       => \A missed \in {task[j].missed}, s \in Domains : Settled(s, missed)']_ownVars

Quiet == life = "serving" /\ \A j \in Jobs : Free(j)

\* Between its jobs the daemon crawls no unverified site at full speed, whatever crash,
\* failed write or failed read of a record came between the record of a demotion and
\* the rate of the host, as long as no check, no failing reload and no reload at the
\* same time interfered, and installThrottleFloors could list the sites: an error of
\* that list is swallowed, and a demoted site keeps its speed until the next reload.
DemotedIsSlow ==
  Quiet /\ ~tangled => \A s \in Enabled : row[s].tier # "verified" => rate[s] = "floor"

\* What docs/crawl-speed.md says of an unverified site: it is "capped by the
\* unverified throttle floor".  A check that finds no proof demotes a site and
\* leaves the rate of its host alone; the next re-verification skips it.
ThrottledIsSlow ==
  Quiet /\ loaded = config => \A s \in Enabled : row[s].tier # "verified" => rate[s] = "floor"
=============================================================================
