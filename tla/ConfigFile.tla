----------------------------- MODULE ConfigFile -----------------------------
(***************************************************************************)
(* Who writes config.yaml, and what a power loss leaves of it:             *)
(* internal/config/mutate.go, internal/fsatomic, the mutating hooks of     *)
(* internal/cli/run.go and the commands that edit the file themselves      *)
(* (internal/setup, cli/alerts_channels.go, cli/gscstep.go, cli/verify.go, *)
(* cli/observability.go).                                                  *)
(*                                                                         *)
(* Every edit reads the whole file, changes it in memory, writes a         *)
(* temporary file, renames it over config.yaml and syncs the directory.    *)
(* The hooks of the daemon do that, and the reload that follows, under     *)
(* cfgWriteMu; a command is another process and takes no lock.             *)
(*                                                                         *)
(* Of the file the model keeps how often each site is listed, which sites  *)
(* have a block of their own (verification, discovery, gsc), the scalar    *)
(* keys, and the notifier with its route.  Bounds: MaxRequests begun,      *)
(* MaxLosses of power or of the daemon, MaxFailures of a write or a read.  *)
(***************************************************************************)
EXTENDS Naturals, Sequences, FiniteSets

CONSTANTS
  Hooks,       \* requests to the control server at one time
  Commands,    \* rabbot processes of the operator at one time
  ListedSites,
  Settable,    \* keys that set_config accepts
  Reserved,    \* keys that only the commands write
  NoHook,
  MaxRequests, MaxLosses, MaxFailures

ASSUME ConfigFileAssumption ==
  /\ Settable \cap Reserved = {}
  /\ NoHook \notin Hooks
  /\ Hooks \cap Commands = {}
  /\ {MaxRequests, MaxLosses, MaxFailures} \subseteq Nat

VARIABLES
  file,       \* config.yaml, as a reader sees it
  onDisk,     \* what a power loss may leave in its place
  cfgWriteMu,
  up,         \* the daemon runs
  sitesTable, \* the sites table
  writer,        \* what each request and each command does
  promised,   \* history: the facts that answered edits have established
  excused,    \* history: a command wrote at the same time as another, or the directory was not synced
  spent

configVars == <<file, onDisk, cfgWriteMu, up, sitesTable, writer, promised, excused, spent>>

-----------------------------------------------------------------------------
(* The edits of mutate.go.                                                 *)
ConfigKeys == Settable \cup Reserved
Channel == {"notifier", "route"}

Edit(op, target, value) == [op |-> op, target |-> target, value |-> value]
SiteEdits == {Edit(op, s, "") : op \in {"add site", "remove site", "purge site"}, s \in ListedSites}
KeyEdits == {Edit("set key", k, v) : k \in Settable, v \in {"good", "bad"}}

Blank == [sites |-> [s \in ListedSites |-> 0], blocks |-> {}, keys |-> [k \in ConfigKeys |-> "unset"], channel |-> {}]

AddSiteYAML(c, s) == [c EXCEPT !.sites[s] = @ + 1]
RemoveSiteYAML(c, s) == [c EXCEPT !.sites[s] = 0, !.blocks = {b \in @ : b[1] # s}]
SetSiteVerificationYAML(c, s) == [c EXCEPT !.blocks = @ \cup {<<s, "verification">>}]
SetSiteMaxPagesYAML(c, s) == [c EXCEPT !.blocks = @ \cup {<<s, "discovery">>}]
SetSiteGSCYAML(c, s) == [c EXCEPT !.blocks = @ \cup {<<s, "gsc">>}]
SetKeyYAML(c, key, value) == [c EXCEPT !.keys[key] = value]
AddNotifierYAML(c) == [c EXCEPT !.channel = @ \cup {"notifier"}]
AddRouteYAML(c) == [c EXCEPT !.channel = @ \cup {"route"}]

Removes(edit) == edit.op \in {"remove site", "purge site"}
SetsBlock(edit) == edit.op = "set block"

Edited(c, edit) ==
  CASE edit.op = "add site" -> AddSiteYAML(c, edit.target)
    [] Removes(edit)        -> RemoveSiteYAML(c, edit.target)
    [] SetsBlock(edit) /\ edit.value = "verification" -> SetSiteVerificationYAML(c, edit.target)
    [] SetsBlock(edit) /\ edit.value = "discovery"    -> SetSiteMaxPagesYAML(c, edit.target)
    [] SetsBlock(edit) /\ edit.value = "gsc"          -> SetSiteGSCYAML(c, edit.target)
    [] edit.op = "set key"  -> SetKeyYAML(c, edit.target, edit.value)
    [] edit.op = "notifier" -> AddNotifierYAML(c)
    [] edit.op = "route"    -> AddRouteYAML(c)

\* An edit of a site that is not listed writes nothing.
Finds(c, edit) == Removes(edit) \/ SetsBlock(edit) => c.sites[edit.target] > 0

\* config.Load decodes a flag or a number from its text, and gives up on others.
Loadable(c) == \A k \in ConfigKeys : c.keys[k] # "bad"

\* What an edit establishes, and about what.
Shows(c, edit) ==
  CASE edit.op = "add site" -> c.sites[edit.target] > 0
    [] Removes(edit)        -> c.sites[edit.target] = 0
    [] SetsBlock(edit)      -> <<edit.target, edit.value>> \in c.blocks
    [] edit.op = "set key"  -> c.keys[edit.target] = edit.value
    [] edit.op \in Channel  -> edit.op \in c.channel

-----------------------------------------------------------------------------
NoEdit == [pc |-> "idle", edit |-> <<>>, todo |-> <<>>, tree |-> Blank]
Writers == Hooks \cup Commands

\* A daemon that runs with some sites, or with none yet.
ConfigFileInit ==
  /\ \E listed \in SUBSET ListedSites :
       /\ file = [Blank EXCEPT !.sites = [s \in ListedSites |-> IF s \in listed THEN 1 ELSE 0]]
       /\ sitesTable = [s \in ListedSites |-> IF s \in listed THEN "enabled" ELSE "none"]
  /\ onDisk = {file}
  /\ cfgWriteMu = NoHook
  /\ up = TRUE
  /\ writer = [w \in Writers |-> NoEdit]
  /\ promised = {}
  /\ excused = FALSE
  /\ spent = [requests |-> 0, losses |-> 0, failures |-> 0]

Count(kind, bound) == spent[kind] < bound /\ spent' = [spent EXCEPT ![kind] = @ + 1]
Goto(w, pc) == writer' = [writer EXCEPT ![w].pc = pc]

\* An edit that begins puts in question what was established about its target,
\* and so does one that is under way when another one ends.
Doubt(edit) == {f \in promised : f.target # edit.target}
Contested(w) == \E v \in Writers \ {w} : writer[v].pc # "idle" /\ writer[v].edit.target = writer[w].edit.target
Established(w) == IF Contested(w) \/ ~Shows(file, writer[w].edit) THEN promised ELSE promised \cup {writer[w].edit}

-----------------------------------------------------------------------------
(* The hooks of the control server.                                        *)
Request(h, edit) ==
  /\ up
  /\ writer[h].pc = "idle"
  /\ Count("requests", MaxRequests)
  /\ writer' = [writer EXCEPT ![h] = [NoEdit EXCEPT !.pc = "lock", !.edit = edit]]
  /\ promised' = Doubt(edit)
  /\ UNCHANGED <<file, onDisk, cfgWriteMu, up, sitesTable, excused>>

LockConfig_Skipped(h) ==
  /\ writer[h].pc = "lock"
  /\ Goto(h, "admit")
  /\ UNCHANGED <<file, onDisk, cfgWriteMu, up, sitesTable, promised, excused, spent>>

LockConfig(h) ==
  /\ writer[h].pc = "lock"
  /\ cfgWriteMu = NoHook
  /\ cfgWriteMu' = h
  /\ Goto(h, "admit")
  /\ UNCHANGED <<file, onDisk, up, sitesTable, promised, excused, spent>>

\* The hook returns and its deferred unlock runs.
ReturnHook(h) ==
  /\ writer' = [writer EXCEPT ![h] = NoEdit]
  /\ cfgWriteMu' = IF cfgWriteMu = h THEN NoHook ELSE cfgWriteMu

\* A site that is enabled is not added again; one that is not in the table cannot
\* be removed; whether a value fits its key is not asked.
Admitted(edit) ==
  /\ edit.op = "add site" => sitesTable[edit.target] # "enabled"
  /\ Removes(edit) => sitesTable[edit.target] # "none"

Admit(h) ==
  /\ writer[h].pc = "admit"
  /\ Admitted(writer[h].edit)
  /\ Goto(h, "read")
  /\ UNCHANGED <<file, onDisk, cfgWriteMu, up, sitesTable, promised, excused, spent>>

Reject(h) ==
  /\ writer[h].pc = "admit"
  /\ ~Admitted(writer[h].edit)
  /\ ReturnHook(h)
  /\ UNCHANGED <<file, onDisk, up, sitesTable, promised, excused, spent>>

\* The reload: the file is loaded, and the sites table follows what was loaded.
LoadConfig(h) ==
  /\ writer[h].pc = "load"
  /\ Loadable(file)
  /\ writer' = [writer EXCEPT ![h].pc = "reconcile", ![h].tree = file]
  /\ UNCHANGED <<file, onDisk, cfgWriteMu, up, sitesTable, promised, excused, spent>>

LoadRefused(h) ==
  /\ writer[h].pc = "load"
  /\ ~Loadable(file)
  /\ ReturnHook(h)
  /\ UNCHANGED <<file, onDisk, up, sitesTable, promised, excused, spent>>

Synced(c) ==
  [s \in ListedSites |-> IF c.sites[s] > 0 THEN "enabled"
                         ELSE IF sitesTable[s] = "enabled" THEN "disabled" ELSE sitesTable[s]]

ReconcileTable(h) ==
  /\ writer[h].pc = "reconcile"
  /\ sitesTable' = Synced(writer[h].tree)
  /\ Goto(h, IF writer[h].edit.op = "purge site" THEN "purge" ELSE "answer")
  /\ UNCHANGED <<file, onDisk, cfgWriteMu, up, promised, excused, spent>>

DeleteSite(h) ==
  /\ writer[h].pc = "purge"
  /\ sitesTable' = [sitesTable EXCEPT ![writer[h].edit.target] = "none"]
  /\ Goto(h, "answer")
  /\ UNCHANGED <<file, onDisk, cfgWriteMu, up, promised, excused, spent>>

Answer(h) ==
  /\ writer[h].pc = "answer"
  /\ ReturnHook(h)
  /\ UNCHANGED <<file, onDisk, up, sitesTable, promised, excused, spent>>

HookFails(h) ==
  /\ writer[h].pc \in {"admit", "reconcile", "purge"}
  /\ Count("failures", MaxFailures)
  /\ ReturnHook(h)
  /\ UNCHANGED <<file, onDisk, up, sitesTable, promised, excused>>

-----------------------------------------------------------------------------
(* The commands: a list of edits, each a read and a write of its own.      *)
SetupPlan(s, key) == <<Edit("set key", key, "good"), Edit("add site", s, ""), Edit("set key", key, "good")>>
AlertsPlan == <<Edit("notifier", "channel", ""), Edit("route", "channel", "")>>
InitPlan(s, key) ==
  SetupPlan(s, key) \o <<Edit("set block", s, "verification"), Edit("set block", s, "discovery")>> \o AlertsPlan
VerifyPlan(s) == <<Edit("set block", s, "verification")>>
ConnectGSCPlan(s) == <<Edit("set block", s, "gsc")>>
FineTunePlan(key) == <<Edit("set key", key, "good")>>
ObservabilityPlan(key) == <<Edit("set key", key, "good")>>

Plans ==
  {AlertsPlan}
  \cup {InitPlan(s, key) : s \in ListedSites, key \in Reserved}
  \cup {VerifyPlan(s) : s \in ListedSites}
  \cup {ConnectGSCPlan(s) : s \in ListedSites}
  \cup {FineTunePlan(key) : key \in Settable}
  \cup {ObservabilityPlan(key) : key \in Reserved}

\* The next edit, or the end of the process.
Proceeding(todo) ==
  IF todo = <<>> THEN NoEdit
  ELSE [NoEdit EXCEPT !.pc = IF Head(todo).op = "add site" THEN "dedupe" ELSE "read",
                     !.edit = Head(todo), !.todo = Tail(todo)]

Command(c, plan) ==
  /\ writer[c].pc = "idle"
  /\ Count("requests", MaxRequests)
  /\ writer' = [writer EXCEPT ![c] = Proceeding(plan)]
  /\ promised' = Doubt(Head(plan))
  /\ UNCHANGED <<file, onDisk, cfgWriteMu, up, sitesTable, excused>>

\* Apply loads the file to pass over the sites it lists.
Dedupe(c) ==
  /\ writer[c].pc = "dedupe"
  /\ writer' = [writer EXCEPT ![c] = IF ~Loadable(file) THEN NoEdit
                              ELSE IF file.sites[@.edit.target] > 0 THEN Proceeding(@.todo)
                              ELSE [@ EXCEPT !.pc = "read"]]
  /\ promised' = IF Loadable(file) /\ file.sites[writer[c].edit.target] > 0 /\ writer[c].todo # <<>>
                 THEN Doubt(Head(writer[c].todo)) ELSE promised
  /\ UNCHANGED <<file, onDisk, cfgWriteMu, up, sitesTable, excused, spent>>

Kill(c) ==
  /\ writer[c].pc # "idle"
  /\ Count("losses", MaxLosses)
  /\ writer' = [writer EXCEPT ![c] = NoEdit]
  /\ excused' = (excused \/ writer[c].pc = "sync")
  /\ UNCHANGED <<file, onDisk, cfgWriteMu, up, sitesTable, promised>>

-----------------------------------------------------------------------------
(* One edit: loadDocRoot and writeDocRoot, for hooks and commands alike.   *)

\* A hook goes on to the reload; a command has established this edit and takes up
\* the next one.
Done(w) ==
  IF w \in Hooks THEN Goto(w, "load") /\ promised' = Established(w)
  ELSE LET next == writer[w].todo
       IN /\ writer' = [writer EXCEPT ![w] = Proceeding(next)]
          /\ promised' = {f \in Established(w) : next = <<>> \/ f.target # Head(next).target}

LoadDoc(w) ==
  /\ writer[w].pc = "read"
  /\ Finds(file, writer[w].edit)
  /\ writer' = [writer EXCEPT ![w].pc = "write", ![w].tree = Edited(file, writer[w].edit)]
  /\ UNCHANGED <<file, onDisk, cfgWriteMu, up, sitesTable, promised, excused, spent>>

NotListed(w) ==
  /\ writer[w].pc = "read"
  /\ ~Finds(file, writer[w].edit)
  /\ Done(w)
  /\ UNCHANGED <<file, onDisk, cfgWriteMu, up, sitesTable, excused, spent>>

\* An error before the rename removes the temporary file and ends the edit.
WriteFails(w) ==
  /\ writer[w].pc \in {"read", "write"}
  /\ Count("failures", MaxFailures)
  /\ IF w \in Hooks THEN ReturnHook(w) ELSE writer' = [writer EXCEPT ![w] = NoEdit] /\ UNCHANGED cfgWriteMu
  /\ UNCHANGED <<file, onDisk, up, sitesTable, promised, excused>>

Persisted_Unsynced(tree) == {tree, Blank}

\* What of a renamed file a power loss may leave: its data is on the disk before
\* the rename.
Persisted(tree) == {tree}

\* Of two that read before either has written, the second undoes the edit of the
\* first.
Overlaps(w) ==
  \E v \in Writers \ {w} : writer[v].pc = "write" /\ (v \in Commands \/ w \in Commands)

Rename(w) ==
  /\ writer[w].pc = "write"
  /\ file' = writer[w].tree
  /\ onDisk' = onDisk \cup Persisted(writer[w].tree)
  /\ excused' = (excused \/ Overlaps(w))
  /\ writer' = [writer EXCEPT ![w].pc = "sync", ![w].tree = Blank]
  /\ UNCHANGED <<cfgWriteMu, up, sitesTable, promised, spent>>

SyncDir(w) ==
  /\ writer[w].pc = "sync"
  /\ onDisk' = {file}
  /\ Done(w)
  /\ UNCHANGED <<file, cfgWriteMu, up, sitesTable, excused, spent>>

\* "Best-effort: an error here must not fail a completed atomic replace."
SyncDirFails(w) ==
  /\ writer[w].pc = "sync"
  /\ Count("failures", MaxFailures)
  /\ excused' = TRUE
  /\ Done(w)
  /\ UNCHANGED <<file, onDisk, cfgWriteMu, up, sitesTable>>

-----------------------------------------------------------------------------
DaemonDies ==
  /\ up
  /\ Count("losses", MaxLosses)
  /\ up' = FALSE
  /\ cfgWriteMu' = NoHook
  /\ writer' = [w \in Writers |-> IF w \in Hooks THEN NoEdit ELSE writer[w]]
  /\ excused' = (excused \/ \E h \in Hooks : writer[h].pc = "sync")
  /\ UNCHANGED <<file, onDisk, sitesTable, promised>>

PowerLoss ==
  /\ Count("losses", MaxLosses)
  /\ file' \in onDisk
  /\ onDisk' = {file'}
  /\ up' = FALSE
  /\ cfgWriteMu' = NoHook
  /\ writer' = [w \in Writers |-> NoEdit]
  /\ UNCHANGED <<sitesTable, promised, excused>>

DaemonStarts ==
  /\ ~up
  /\ Loadable(file)
  /\ up' = TRUE
  /\ sitesTable' = Synced(file)
  /\ UNCHANGED <<file, onDisk, cfgWriteMu, writer, promised, excused, spent>>

EditStep(w) == LoadDoc(w) \/ NotListed(w) \/ WriteFails(w) \/ Rename(w) \/ SyncDir(w) \/ SyncDirFails(w)

HookStep(h) ==
  \/ LockConfig(h) \/ Admit(h) \/ Reject(h) \/ HookFails(h)
  \/ LoadConfig(h) \/ LoadRefused(h) \/ ReconcileTable(h) \/ DeleteSite(h) \/ Answer(h)

ConfigFileNext ==
  \/ \E h \in Hooks : HookStep(h) \/ \E edit \in SiteEdits \cup KeyEdits : Request(h, edit)
  \/ \E c \in Commands : Dedupe(c) \/ Kill(c) \/ \E plan \in Plans : Command(c, plan)
  \/ \E w \in Writers : EditStep(w)
  \/ DaemonDies \/ PowerLoss \/ DaemonStarts

ConfigFileSpec == ConfigFileInit /\ [][ConfigFileNext]_configVars

-----------------------------------------------------------------------------
ConfigFileTypeOK ==
  /\ onDisk # {}
  /\ cfgWriteMu \in Hooks \cup {NoHook}
  /\ up \in BOOLEAN
  /\ sitesTable \in [ListedSites -> {"none", "enabled", "disabled"}]
  /\ \A w \in Writers : writer[w].pc \in {"idle", "lock", "admit", "dedupe", "read", "write", "sync", "load",
                                    "reconcile", "purge", "answer"}
  /\ excused \in BOOLEAN

\* Of the requests that edit config.yaml at the same time, none loses what another
\* has written; and what was answered is still there after a power loss.  Only a
\* command that writes at the same moment, or a directory that would not sync, is
\* an excuse.
AnsweredEditsStay ==
  excused \/ \A edit \in promised : Shows(file, edit) /\ \A c \in onDisk : Shows(c, edit)

\* "Which would fail config.Load on the next start and brick the daemon": a daemon
\* that stops can start again, whatever the requests that it refused.
StartsAgain == up \/ Loadable(file)
=============================================================================
