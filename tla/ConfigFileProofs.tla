-------------------------- MODULE ConfigFileProofs --------------------------
(***************************************************************************)
(* Proofs about the writers of config.yaml, for any number of hooks,       *)
(* commands, sites and keys: an edit that was answered stays in the file   *)
(* and on the disk (AnsweredEditsStay).                                    *)
(*                                                                         *)
(* The invariant is ConfSafe: while nothing excuses a loss, what a writer  *)
(* holds in memory is the file of now with its edit, nobody is still about *)
(* to write what a promise is about, and the copies on the disk differ     *)
(* from the file in nothing but what is being synced.                      *)
(***************************************************************************)
EXTENDS ConfigFile, TLAPS

-----------------------------------------------------------------------------
\* What config.yaml may hold, and the edits of it.
Content == [sites : [ListedSites -> Nat], blocks : SUBSET (ListedSites \X {"verification", "discovery", "gsc"}),
            keys : [ConfigKeys -> {"unset", "good", "bad"}], channel : SUBSET Channel]

Edits ==
  {e \in [op : {"add site", "remove site", "purge site", "set block", "set key", "notifier", "route"},
          target : ListedSites \cup ConfigKeys \cup {"channel"},
          value : {"", "verification", "discovery", "gsc", "good", "bad"}] :
     /\ e.op \in {"add site", "remove site", "purge site", "set block"} => e.target \in ListedSites
     /\ e.op = "set block" => e.value \in {"verification", "discovery", "gsc"}
     /\ e.op = "set key" => e.target \in ConfigKeys /\ e.value \in {"good", "bad"}
     /\ e.op \in Channel => e.target = "channel"}

\* Where the edit of a writer is not established yet.
Editing == {"lock", "admit", "dedupe", "read", "write", "sync"}

\* What a writer may be.
WriterState ==
  [pc : {"idle", "load", "reconcile", "purge", "answer"} \cup Editing,
   edit : Edits \cup {<<>>}, todo : Seq(Edits), tree : Content]

\* The types, with the edit of whoever is not idle.
ConfTypes ==
  /\ file \in Content /\ onDisk \subseteq Content /\ onDisk # {}
  /\ cfgWriteMu \in Hooks \cup {NoHook} /\ up \in BOOLEAN /\ excused \in BOOLEAN
  /\ sitesTable \in [ListedSites -> {"none", "enabled", "disabled"}]
  /\ writer \in [Writers -> WriterState]
  /\ \A w \in Writers : writer[w].pc # "idle" => writer[w].edit \in Edits
  /\ promised \subseteq Edits

\* Nobody is still about to write what a promised fact is about.
Undisturbed(w) == writer[w].pc \in Editing => \A f \in promised : f.target # writer[w].edit.target

\* What a writer is about to write is the file with its edit and nothing else.
Fresh(w) == writer[w].pc = "write" => writer[w].tree = Edited(file, writer[w].edit)

\* The file and what a power loss may leave differ at most in what is being synced.
SyncedBut(f) ==
  \/ \E w \in Writers : writer[w].pc = "sync" /\ writer[w].edit.target = f.target
  \/ \A c \in onDisk : Shows(c, f) <=> Shows(file, f)

\* A hook past its lock holds it.
Locked(h) == writer[h].pc \notin {"idle", "lock"} => cfgWriteMu = h

\* As long as nothing excuses a loss.
ConfSafe ==
  /\ \A w \in Writers : Undisturbed(w) /\ Fresh(w)
  /\ \A f \in Edits : SyncedBut(f)
  /\ \A f \in promised : Shows(file, f) /\ \A c \in onDisk : Shows(c, f)

ConfInv == ConfTypes /\ (\A h \in Hooks : Locked(h)) /\ (~excused => ConfSafe)

\* What an edit may change of config.yaml: something about its target, or the channel.
OnlyAbout(e, c, d) ==
  /\ d \in Content
  /\ \A s \in ListedSites : s # e.target => d.sites[s] = c.sites[s]
  /\ \A s \in ListedSites : \A v : s # e.target => (<<s, v>> \in d.blocks <=> <<s, v>> \in c.blocks)
  /\ \A k \in ConfigKeys : k # e.target => d.keys[k] = c.keys[k]
  /\ e.target # "channel" => d.channel = c.channel

\* Every edit is of that kind.
LEMMA EditedEffects ==
  ASSUME NEW c \in Content, NEW e \in Edits
  PROVE  OnlyAbout(e, c, Edited(c, e))
<1>0. /\ e.op \in {"add site", "remove site", "purge site", "set block", "set key", "notifier", "route"}
      /\ e.op \in {"add site", "remove site", "purge site", "set block"} => e.target \in ListedSites
      /\ e.op = "set block" => e.value \in {"verification", "discovery", "gsc"}
      /\ e.op = "set key" => e.target \in ConfigKeys /\ e.value \in {"good", "bad"}
      /\ e.op \in Channel => e.target = "channel"
  BY DEF Edits
<1>1. CASE e.op = "add site"
  <2>1. Edited(c, e) = AddSiteYAML(c, e.target)
    BY <1>1 DEF Edited, Removes, SetsBlock
  <2>2. AddSiteYAML(c, e.target) \in Content
    <3>1. c.sites \in [ListedSites -> Nat] /\ e.target \in ListedSites
      BY <1>0, <1>1 DEF Content
    <3>2. [c.sites EXCEPT ![e.target] = @ + 1] \in [ListedSites -> Nat]
      BY <3>1
    <3> QED
      BY <3>2 DEF AddSiteYAML, Content
  <2> DEFINE d == AddSiteYAML(c, e.target)
  <2>3. /\ \A s \in ListedSites : s # e.target => d.sites[s] = c.sites[s]
        /\ d.blocks = c.blocks /\ d.keys = c.keys /\ d.channel = c.channel
    BY <1>0, <1>1 DEF AddSiteYAML, Content
  <2> HIDE DEF d
  <2> QED
    BY <2>1, <2>2, <2>3 DEF OnlyAbout, d
<1>2. CASE e.op \in {"remove site", "purge site"}
  <2>1. Edited(c, e) = RemoveSiteYAML(c, e.target)
    BY <1>2 DEF Edited, Removes, SetsBlock
  <2> DEFINE kept == {b \in c.blocks : b[1] # e.target}
             d == [c EXCEPT !.sites[e.target] = 0, !.blocks = kept]
  <2>2. RemoveSiteYAML(c, e.target) = d
    BY DEF RemoveSiteYAML
  <2>3. /\ kept \subseteq ListedSites \X {"verification", "discovery", "gsc"}
        /\ \A s \in ListedSites : \A v : s # e.target => (<<s, v>> \in kept <=> <<s, v>> \in c.blocks)
    BY DEF Content
  <2> HIDE DEF kept
  <2>4. d \in Content /\ d.blocks = kept /\ d.keys = c.keys /\ d.channel = c.channel
    BY <1>0, <1>2, <2>3 DEF Content
  <2>5. \A s \in ListedSites : s # e.target => d.sites[s] = c.sites[s]
    BY DEF Content
  <2> QED
    BY <2>1, <2>2, <2>3, <2>4, <2>5 DEF OnlyAbout
<1>3. CASE e.op = "set block"
  <2>1. Edited(c, e) = [c EXCEPT !.blocks = @ \cup {<<e.target, e.value>>}]
    BY <1>0, <1>3 DEF Edited, Removes, SetsBlock, SetSiteVerificationYAML, SetSiteMaxPagesYAML, SetSiteGSCYAML
  <2> DEFINE more == c.blocks \cup {<<e.target, e.value>>}
             d == [c EXCEPT !.blocks = more]
  <2>2. /\ more \subseteq ListedSites \X {"verification", "discovery", "gsc"}
        /\ \A s \in ListedSites : \A v : s # e.target => (<<s, v>> \in more <=> <<s, v>> \in c.blocks)
    <3>1. <<e.target, e.value>> \in ListedSites \X {"verification", "discovery", "gsc"}
      BY <1>0, <1>3
    <3>2. c.blocks \subseteq ListedSites \X {"verification", "discovery", "gsc"}
      BY DEF Content
    <3>3. \A s \in ListedSites : \A v : s # e.target => (<<s, v>> \in more <=> <<s, v>> \in c.blocks)
      OBVIOUS
    <3> QED
      BY <3>1, <3>2, <3>3
  <2> HIDE DEF more
  <2>3. d \in Content /\ d.blocks = more /\ d.sites = c.sites /\ d.keys = c.keys /\ d.channel = c.channel
    BY <2>2 DEF Content
  <2> QED
    BY <2>1, <2>2, <2>3 DEF OnlyAbout, more
<1>4. CASE e.op = "set key"
  <2>1. Edited(c, e) = SetKeyYAML(c, e.target, e.value)
    BY <1>4 DEF Edited, Removes, SetsBlock
  <2>2. SetKeyYAML(c, e.target, e.value) \in Content
    BY <1>0, <1>4 DEF SetKeyYAML, Content
  <2> QED
    BY <2>1, <2>2 DEF SetKeyYAML, Content, OnlyAbout
<1>5. CASE e.op \in Channel
  <2>1. Edited(c, e) = [c EXCEPT !.channel = @ \cup {e.op}]
    BY <1>5 DEF Edited, Removes, SetsBlock, Channel, AddNotifierYAML, AddRouteYAML
  <2>2. [c EXCEPT !.channel = @ \cup {e.op}] \in Content
    BY <1>5 DEF Content
  <2> QED
    BY <1>0, <1>5, <2>1, <2>2 DEF Content, OnlyAbout
<1> QED
  BY <1>0, <1>1, <1>2, <1>3, <1>4, <1>5 DEF Channel

\* An edit leaves alone what another one has established about another target.
LEMMA EditedElsewhere ==
  ASSUME NEW c \in Content, NEW e \in Edits, NEW f \in Edits, f.target # e.target
  PROVE  Shows(Edited(c, e), f) <=> Shows(c, f)
<1> DEFINE d == Edited(c, e)
<1>0. /\ f.op \in {"add site", "remove site", "purge site", "set block", "set key", "notifier", "route"}
      /\ f.op \in {"add site", "remove site", "purge site", "set block"} => f.target \in ListedSites
      /\ f.op = "set key" => f.target \in ConfigKeys
      /\ f.op \in Channel => f.target = "channel"
  BY DEF Edits
<1>1. /\ \A s \in ListedSites : s # e.target => d.sites[s] = c.sites[s]
      /\ \A s \in ListedSites : \A v : s # e.target => (<<s, v>> \in d.blocks <=> <<s, v>> \in c.blocks)
      /\ \A k \in ConfigKeys : k # e.target => d.keys[k] = c.keys[k]
      /\ e.target # "channel" => d.channel = c.channel
  BY EditedEffects DEF OnlyAbout
<1> SUFFICES Shows(d, f) <=> Shows(c, f)
  OBVIOUS
<1> HIDE DEF d
<1>2. CASE f.op = "add site"
  <2>1. \A x : Shows(x, f) <=> x.sites[f.target] > 0
    BY <1>2 DEF Shows, Removes, SetsBlock, Channel
  <2> QED
    BY <1>0, <1>1, <1>2, <2>1
<1>3. CASE f.op \in {"remove site", "purge site"}
  <2>1. \A x : Shows(x, f) <=> x.sites[f.target] = 0
    BY <1>3 DEF Shows, Removes, SetsBlock, Channel
  <2> QED
    BY <1>0, <1>1, <1>3, <2>1
<1>4. CASE f.op = "set block"
  <2>1. \A x : Shows(x, f) <=> <<f.target, f.value>> \in x.blocks
    BY <1>4 DEF Shows, Removes, SetsBlock, Channel
  <2> QED
    BY <1>0, <1>1, <1>4, <2>1
<1>5. CASE f.op = "set key"
  <2>1. \A x : Shows(x, f) <=> x.keys[f.target] = f.value
    BY <1>5 DEF Shows, Removes, SetsBlock, Channel
  <2> QED
    BY <1>0, <1>1, <1>5, <2>1
<1>6. CASE f.op \in Channel
  <2>1. \A x : Shows(x, f) <=> f.op \in x.channel
    BY <1>0, <1>6 DEF Shows, Removes, SetsBlock, Channel
  <2> QED
    BY <1>0, <1>1, <1>6, <2>1
<1> QED
  BY <1>0, <1>2, <1>3, <1>4, <1>5, <1>6 DEF Channel

\* A writer that takes up the next of its edits.
LEMMA ProceedingTyped ==
  ASSUME NEW todo \in Seq(Edits)
  PROVE  /\ Proceeding(todo) \in WriterState
         /\ Proceeding(todo).pc \in {"idle", "dedupe", "read"}
         /\ todo # <<>> => Proceeding(todo).edit = Head(todo) /\ Head(todo) \in Edits
         /\ Proceeding(todo).pc # "idle" => todo # <<>>
<1>1. NoEdit \in WriterState
  BY DEF NoEdit, WriterState, Blank, Content, Editing
<1>2. CASE todo = <<>>
  BY <1>1, <1>2 DEF Proceeding, NoEdit
<1>3. CASE todo # <<>>
  <2>1. Head(todo) \in Edits /\ Tail(todo) \in Seq(Edits)
    BY <1>3
  <2> QED
    BY <1>1, <1>3, <2>1 DEF Proceeding, NoEdit, WriterState, Editing
<1> QED
  BY <1>2, <1>3

\* Short sequences.
LEMMA ShortSeqs ==
  ASSUME NEW S
  PROVE  /\ \A a \in S : <<a>> \in Seq(S) /\ <<a>> # <<>>
         /\ \A a, b \in S : <<a, b>> \in Seq(S) /\ <<a, b>> # <<>>
         /\ \A a, b, c \in S : <<a, b, c>> \in Seq(S) /\ <<a, b, c>> # <<>>
         /\ \A s, t \in Seq(S) : s # <<>> => s \o t \in Seq(S) /\ s \o t # <<>>
<1>1. \A a \in S : <<a>> \in Seq(S) /\ <<a>> # <<>>
  OBVIOUS
<1>2. \A a, b \in S : <<a, b>> \in Seq(S) /\ <<a, b>> # <<>>
  OBVIOUS
<1>3. \A a, b, c \in S : <<a, b, c>> \in Seq(S) /\ <<a, b, c>> # <<>>
  OBVIOUS
<1>4. \A s, t \in Seq(S) : s # <<>> => s \o t \in Seq(S) /\ s \o t # <<>>
  OBVIOUS
<1> QED
  BY <1>1, <1>2, <1>3, <1>4

\* The commands plan edits, and at least one.
LEMMA PlansTyped == \A plan \in Plans : plan \in Seq(Edits) /\ plan # <<>>
<1> DEFINE Planned(p) == p \in Seq(Edits) /\ p # <<>>
<1>1. Edit("notifier", "channel", "") \in Edits /\ Edit("route", "channel", "") \in Edits
  BY DEF Edit, Edits, Channel
<1>2. \A k \in ConfigKeys : Edit("set key", k, "good") \in Edits
  BY DEF Edit, Edits, Channel
<1>3. \A s \in ListedSites : /\ Edit("add site", s, "") \in Edits
                             /\ \A v \in {"verification", "discovery", "gsc"} : Edit("set block", s, v) \in Edits
  BY DEF Edit, Edits, Channel
<1>4. Planned(AlertsPlan)
  BY <1>1, ShortSeqs DEF AlertsPlan
<1>5. ASSUME NEW s \in ListedSites, NEW key \in Reserved PROVE Planned(InitPlan(s, key))
  <2> DEFINE B == <<Edit("set block", s, "verification"), Edit("set block", s, "discovery")>>
  <2>1. key \in ConfigKeys
    BY DEF ConfigKeys
  <2>2. Planned(SetupPlan(s, key))
    BY <1>2, <1>3, <2>1, ShortSeqs DEF SetupPlan
  <2>3. Planned(B)
    BY <1>3, ShortSeqs
  <2>4. Planned(SetupPlan(s, key) \o B)
    BY <2>2, <2>3, ShortSeqs
  <2>5. Planned((SetupPlan(s, key) \o B) \o AlertsPlan)
    BY <1>4, <2>4, ShortSeqs
  <2> QED
    BY <2>5 DEF InitPlan
<1>6. \A s \in ListedSites : Planned(VerifyPlan(s)) /\ Planned(ConnectGSCPlan(s))
  BY <1>3, ShortSeqs DEF VerifyPlan, ConnectGSCPlan
<1>7. \A k \in ConfigKeys : Planned(FineTunePlan(k)) /\ Planned(ObservabilityPlan(k))
  BY <1>2, ShortSeqs DEF FineTunePlan, ObservabilityPlan
<1> QED
  BY <1>4, <1>5, <1>6, <1>7 DEF Plans, ConfigKeys

\* A writer that is done, and a file without anything.
LEMMA NoEditTyped == NoEdit \in WriterState /\ NoEdit.pc = "idle" /\ Blank \in Content
BY DEF NoEdit, WriterState, Blank, Content, Editing

\* A writer that goes on keeps its edit.
LEMMA GotoTyped ==
  ASSUME ConfTypes, NEW w \in Writers,
         NEW pc \in {"idle", "load", "reconcile", "purge", "answer"} \cup Editing, Goto(w, pc)
  PROVE  \E rec \in WriterState : /\ writer' = [writer EXCEPT ![w] = rec]
                                  /\ rec.pc = pc /\ rec.edit = writer[w].edit /\ rec.tree = writer[w].tree
<1> DEFINE rec == [writer[w] EXCEPT !.pc = pc]
<1>1. writer[w] \in WriterState
  BY DEF ConfTypes
<1>2. rec \in WriterState /\ rec.pc = pc /\ rec.edit = writer[w].edit /\ rec.tree = writer[w].tree
  BY <1>1 DEF WriterState
<1>3. writer' = [writer EXCEPT ![w] = rec]
  BY DEF Goto
<1> QED
  BY <1>2, <1>3

\* The lock is kept while its hook goes on, and given back when the hook returns.
LEMMA LockKept ==
  ASSUME ConfInv, NEW w \in Writers, NEW rec \in WriterState, writer' = [writer EXCEPT ![w] = rec],
         UNCHANGED cfgWriteMu,
         w \in Hooks /\ rec.pc \notin {"idle", "lock"} => writer[w].pc \notin {"idle", "lock"}
  PROVE  \A h \in Hooks : Locked(h)'
BY DEF ConfInv, ConfTypes, Locked, Writers

\* A hook that returns takes nothing from the one that holds the lock.
LEMMA LockReturned ==
  ASSUME ConfInv, NEW h \in Hooks, ReturnHook(h)
  PROVE  (\A g \in Hooks : Locked(g)') /\ cfgWriteMu' \in Hooks \cup {NoHook}
BY NoEditTyped DEF ConfInv, ConfTypes, Locked, Writers, ReturnHook

\* A step that writes nothing and establishes nothing.
LEMMA ConfQuiet ==
  ASSUME ConfInv, NEW w \in Writers, NEW rec \in WriterState, writer' = [writer EXCEPT ![w] = rec],
         UNCHANGED <<file, onDisk>>, promised' \subseteq promised,
         excused' \in BOOLEAN, ~excused' => ~excused /\ writer[w].pc # "sync",
         cfgWriteMu' \in Hooks \cup {NoHook}, up' \in BOOLEAN,
         sitesTable' \in [ListedSites -> {"none", "enabled", "disabled"}],
         \A h \in Hooks : Locked(h)',
         rec.pc # "idle" => rec.edit \in Edits,
         ~excused /\ rec.pc \in Editing => \A f \in promised' : f.target # rec.edit.target,
         ~excused /\ rec.pc = "write" => rec.tree = Edited(file, rec.edit)
  PROVE  ConfInv'
<1>1. /\ writer' \in [Writers -> WriterState] /\ writer'[w] = rec
      /\ \A v \in Writers \ {w} : writer'[v] = writer[v]
  BY DEF ConfInv, ConfTypes
<1>2. ConfTypes'
  BY <1>1 DEF ConfInv, ConfTypes
<1>3. ASSUME ~excused' PROVE ConfSafe'
  <2>1. ConfSafe /\ ~excused /\ writer[w].pc # "sync"
    BY <1>3 DEF ConfInv
  <2>2. \A v \in Writers : Undisturbed(v)'
    BY <1>1, <2>1 DEF ConfSafe, Undisturbed
  <2>3. \A v \in Writers : Fresh(v)'
    BY <1>1, <2>1 DEF ConfSafe, Fresh
  <2>4. ASSUME NEW f \in Edits PROVE SyncedBut(f)'
    <3>1. CASE \E v \in Writers : writer[v].pc = "sync" /\ writer[v].edit.target = f.target
      BY <1>1, <2>1, <3>1 DEF SyncedBut
    <3>2. CASE \A c \in onDisk : Shows(c, f) <=> Shows(file, f)
      BY <3>2 DEF SyncedBut
    <3> QED
      BY <2>1, <3>1, <3>2 DEF ConfSafe, SyncedBut
  <2>5. \A f \in promised' : Shows(file', f) /\ \A c \in onDisk' : Shows(c, f)
    BY <2>1 DEF ConfSafe
  <2> QED
    BY <2>2, <2>3, <2>4, <2>5 DEF ConfSafe
<1> QED
  BY <1>2, <1>3 DEF ConfInv

\* An edit that ends is established, unless another one is about its target.
LEMMA ConfDone ==
  ASSUME ConfInv, NEW w \in Writers, Done(w), writer[w].pc \in {"read", "sync"},
         UNCHANGED <<file, cfgWriteMu, up, sitesTable>>, onDisk' \in {onDisk, {file}},
         excused' \in BOOLEAN,
         ~excused' => ~excused /\ (onDisk' = {file} \/ writer[w].pc = "read")
  PROVE  ConfInv'
<1> DEFINE e == writer[w].edit
           next == writer[w].todo
<1>0. /\ ConfTypes /\ writer[w] \in WriterState /\ e \in Edits /\ next \in Seq(Edits)
      /\ promised \subseteq Edits /\ file \in Content
  BY DEF ConfInv, ConfTypes, WriterState
<1>1. PICK rec \in WriterState :
        /\ writer' = [writer EXCEPT ![w] = rec]
        /\ rec.pc \in {"load", "idle", "dedupe", "read"}
        /\ rec.pc # "idle" => rec.edit \in Edits
        /\ rec.pc \in Editing => \A f \in promised' : f.target # rec.edit.target
        /\ promised' \subseteq Established(w)
  <2>1. CASE w \in Hooks
    <3>1. Goto(w, "load") /\ promised' = Established(w)
      BY <2>1 DEF Done
    <3>2. PICK rec \in WriterState : /\ writer' = [writer EXCEPT ![w] = rec]
                                     /\ rec.pc = "load" /\ rec.edit = e
      BY <1>0, <3>1, GotoTyped
    <3> QED
      BY <1>0, <3>1, <3>2 DEF Editing
  <2>2. CASE w \notin Hooks
    <3>1. /\ writer' = [writer EXCEPT ![w] = Proceeding(next)]
          /\ promised' = {f \in Established(w) : next = <<>> \/ f.target # Head(next).target}
      BY <2>2 DEF Done
    <3>2. /\ Proceeding(next) \in WriterState /\ Proceeding(next).pc \in {"idle", "dedupe", "read"}
          /\ next # <<>> => Proceeding(next).edit = Head(next) /\ Head(next) \in Edits
          /\ Proceeding(next).pc # "idle" => next # <<>>
      BY <1>0, ProceedingTyped
    <3>3. Proceeding(next).pc \in Editing => \A f \in promised' : f.target # Proceeding(next).edit.target
      BY <3>1, <3>2 DEF Editing
    <3> QED
      BY <3>1, <3>2, <3>3
  <2> QED
    BY <2>1, <2>2
<1>2. /\ promised' \subseteq promised \cup {e}
      /\ e \in promised' => e \in promised \/ (~Contested(w) /\ Shows(file, e))
  BY <1>1 DEF Established
<1>3. /\ writer' \in [Writers -> WriterState] /\ writer'[w] = rec
      /\ \A v \in Writers \ {w} : writer'[v] = writer[v]
  BY <1>0, <1>1 DEF ConfTypes
<1>4. ConfTypes'
  BY <1>0, <1>1, <1>2, <1>3 DEF ConfTypes
<1>5. \A h \in Hooks : Locked(h)'
  BY <1>1, LockKept
<1>6. ASSUME ~excused' PROVE ConfSafe'
  <2>1. ConfSafe
    BY <1>6 DEF ConfInv
  <2>2. ASSUME NEW v \in Writers PROVE Undisturbed(v)'
    <3>1. CASE v = w
      BY <1>1, <1>3, <3>1 DEF Undisturbed
    <3>2. CASE v # w
      <4>1. writer'[v] = writer[v] /\ (writer[v].pc \in Editing => \A f \in promised : f.target # writer[v].edit.target)
        BY <1>3, <2>1, <3>2 DEF ConfSafe, Undisturbed
      <4>2. e \in promised' /\ e \notin promised /\ writer[v].pc \in Editing => e.target # writer[v].edit.target
        BY <1>2, <3>2 DEF Contested, Editing
      <4> QED
        BY <1>2, <4>1, <4>2 DEF Undisturbed
    <3> QED
      BY <3>1, <3>2
  <2>3. \A v \in Writers : Fresh(v)'
    BY <1>1, <1>3, <2>1 DEF ConfSafe, Fresh
  <2>4. ASSUME NEW f \in Edits PROVE SyncedBut(f)'
    <3>1. CASE onDisk' = {file}
      BY <3>1 DEF SyncedBut
    <3>2. CASE writer[w].pc = "read" /\ onDisk' = onDisk
      <4>1. CASE \E v \in Writers : writer[v].pc = "sync" /\ writer[v].edit.target = f.target
        BY <1>3, <3>2, <4>1 DEF SyncedBut
      <4>2. CASE \A c \in onDisk : Shows(c, f) <=> Shows(file, f)
        BY <3>2, <4>2 DEF SyncedBut
      <4> QED
        BY <2>1, <4>1, <4>2 DEF ConfSafe, SyncedBut
    <3> QED
      BY <1>6, <3>1, <3>2
  <2>5. ASSUME NEW f \in promised' PROVE Shows(file', f) /\ \A c \in onDisk' : Shows(c, f)
    <3>1. CASE f \in promised
      BY <2>1, <3>1 DEF ConfSafe
    <3>2. CASE f \notin promised
      <4>1. f = e /\ ~Contested(w) /\ Shows(file, e)
        BY <1>2, <3>2
      <4>2. CASE onDisk' = {file}
        BY <4>1, <4>2
      <4>3. CASE writer[w].pc = "read" /\ onDisk' = onDisk
        <5>1. ~ \E v \in Writers : writer[v].pc = "sync" /\ writer[v].edit.target = e.target
          BY <4>1, <4>3 DEF Contested
        <5>2. \A c \in onDisk : Shows(c, e) <=> Shows(file, e)
          BY <1>0, <2>1, <5>1 DEF ConfSafe, SyncedBut
        <5> QED
          BY <4>1, <4>3, <5>2
      <4> QED
        BY <1>6, <4>2, <4>3
    <3> QED
      BY <3>1, <3>2
  <2> QED
    BY <2>2, <2>3, <2>4, <2>5 DEF ConfSafe
<1> QED
  BY <1>4, <1>5, <1>6 DEF ConfInv

\* A rename over the file that the writer has read.
LEMMA ConfRename ==
  ASSUME ConfInv, NEW w \in Writers, Rename(w)
  PROVE  ConfInv'
<1> DEFINE e == writer[w].edit
           tree == writer[w].tree
           rec == [writer[w] EXCEPT !.pc = "sync", !.tree = Blank]
<1>0. /\ ConfTypes /\ writer[w] \in WriterState /\ e \in Edits /\ tree \in Content
      /\ promised \subseteq Edits /\ file \in Content /\ onDisk \subseteq Content
  BY DEF ConfInv, ConfTypes, WriterState, Rename
<1>1. /\ writer[w].pc = "write" /\ file' = tree /\ onDisk' = onDisk \cup {tree}
      /\ excused' = (excused \/ Overlaps(w))
      /\ writer' = [writer EXCEPT ![w] = rec]
      /\ UNCHANGED <<cfgWriteMu, up, sitesTable, promised>>
  BY DEF Rename, Persisted
<1>2. rec \in WriterState /\ rec.pc = "sync" /\ rec.edit = e
  BY <1>0, NoEditTyped DEF WriterState, Editing
<1>3. /\ writer' \in [Writers -> WriterState] /\ writer'[w] = rec
      /\ \A v \in Writers \ {w} : writer'[v] = writer[v]
  BY <1>0, <1>1, <1>2 DEF ConfTypes
<1> HIDE DEF rec
<1>4. ConfTypes'
  BY <1>0, <1>1, <1>2, <1>3 DEF ConfTypes
<1>5. \A h \in Hooks : Locked(h)'
  BY <1>1, <1>2, LockKept
<1>6. ASSUME ~excused' PROVE ConfSafe'
  <2>1. ConfSafe /\ ~Overlaps(w) /\ tree = Edited(file, e)
    BY <1>1, <1>6 DEF ConfInv, ConfSafe, Fresh
  <2>2. \A v \in Writers : Undisturbed(v)'
    BY <1>1, <1>2, <1>3, <2>1 DEF ConfSafe, Undisturbed, Editing
  <2>3. ASSUME NEW v \in Writers PROVE Fresh(v)'
    <3>1. CASE v = w
      BY <1>2, <1>3, <3>1 DEF Fresh
    <3>2. CASE v # w
      <4>1. writer[v].pc # "write"
        <5>1. SUFFICES ASSUME writer[v].pc = "write" PROVE FALSE
          OBVIOUS
        <5>2. v \in Hooks /\ w \in Hooks
          BY <2>1, <3>2, <5>1 DEF Overlaps, Writers
        <5>3. cfgWriteMu = v /\ cfgWriteMu = w
          BY <1>1, <5>1, <5>2 DEF ConfInv, Locked
        <5> QED
          BY <3>2, <5>3
      <4> QED
        BY <1>3, <3>2, <4>1 DEF Fresh
    <3> QED
      BY <3>1, <3>2
  <2>4. ASSUME NEW f \in Edits PROVE SyncedBut(f)'
    <3>1. CASE f.target = e.target
      BY <1>2, <1>3, <3>1 DEF SyncedBut
    <3>2. CASE f.target # e.target
      <4>1. CASE \E v \in Writers : writer[v].pc = "sync" /\ writer[v].edit.target = f.target
        BY <1>1, <1>3, <3>2, <4>1 DEF SyncedBut
      <4>2. CASE \A c \in onDisk : Shows(c, f) <=> Shows(file, f)
        <5>1. Shows(tree, f) <=> Shows(file, f)
          BY <1>0, <2>1, <3>2, EditedElsewhere
        <5> QED
          BY <1>1, <4>2, <5>1 DEF SyncedBut
      <4> QED
        BY <2>1, <4>1, <4>2 DEF ConfSafe, SyncedBut
    <3> QED
      BY <3>1, <3>2
  <2>5. ASSUME NEW f \in promised' PROVE Shows(file', f) /\ \A c \in onDisk' : Shows(c, f)
    <3>1. f \in promised /\ f \in Edits /\ f.target # e.target
      BY <1>0, <1>1, <2>1 DEF ConfSafe, Undisturbed, Editing
    <3>2. Shows(tree, f) <=> Shows(file, f)
      BY <1>0, <2>1, <3>1, EditedElsewhere
    <3> QED
      BY <1>1, <2>1, <3>1, <3>2 DEF ConfSafe
  <2> QED
    BY <2>2, <2>3, <2>4, <2>5 DEF ConfSafe
<1> QED
  BY <1>4, <1>5, <1>6 DEF ConfInv

\* The table after a reload.
LEMMA SyncedTyped ==
  ASSUME sitesTable \in [ListedSites -> {"none", "enabled", "disabled"}], NEW c
  PROVE  Synced(c) \in [ListedSites -> {"none", "enabled", "disabled"}]
BY DEF Synced

\* A hook that goes on past its lock, with nothing written and nothing established.
LEMMA ConfHookGoes ==
  ASSUME ConfInv, NEW h \in Hooks, NEW rec \in WriterState, writer' = [writer EXCEPT ![h] = rec],
         writer[h].pc \notin {"idle", "lock", "sync"}, rec.edit = writer[h].edit,
         rec.pc \in {"load", "reconcile", "purge", "answer"} \/ (rec.pc = "read" /\ writer[h].pc = "admit"),
         UNCHANGED <<file, onDisk, cfgWriteMu, up, promised, excused>>,
         sitesTable' \in [ListedSites -> {"none", "enabled", "disabled"}]
  PROVE  ConfInv'
<1>1. h \in Writers
  BY DEF Writers
<1>2. /\ ConfTypes /\ cfgWriteMu' \in Hooks \cup {NoHook} /\ up' \in BOOLEAN /\ excused' \in BOOLEAN
      /\ rec.edit \in Edits
  BY <1>1 DEF ConfInv, ConfTypes
<1>3. \A g \in Hooks : Locked(g)'
  BY <1>1, LockKept
<1>4. ~excused /\ rec.pc \in Editing => \A f \in promised' : f.target # rec.edit.target
  BY <1>1 DEF ConfInv, ConfSafe, Undisturbed, Editing
<1> QED
  BY <1>1, <1>2, <1>3, <1>4, ConfQuiet

\* A hook that returns before it has written, or after it was established.
LEMMA ConfHookReturns ==
  ASSUME ConfInv, NEW h \in Hooks, ReturnHook(h), writer[h].pc # "sync",
         UNCHANGED <<file, onDisk, up, sitesTable, promised, excused>>
  PROVE  ConfInv'
<1>1. h \in Writers /\ writer' = [writer EXCEPT ![h] = NoEdit]
  BY DEF Writers, ReturnHook
<1>2. ConfTypes /\ up' \in BOOLEAN /\ excused' \in BOOLEAN
      /\ sitesTable' \in [ListedSites -> {"none", "enabled", "disabled"}]
  BY DEF ConfInv, ConfTypes
<1>3. NoEdit.pc \notin Editing /\ NoEdit.pc # "write"
  BY NoEditTyped DEF Editing
<1> QED
  BY <1>1, <1>2, <1>3, NoEditTyped, LockReturned, ConfQuiet

\* A step of a hook outside of its edit.
LEMMA ConfHook ==
  ASSUME ConfInv, NEW h \in Hooks, HookStep(h)
  PROVE  ConfInv'
<1>0. /\ h \in Writers /\ ConfTypes /\ writer[h] \in WriterState
      /\ sitesTable \in [ListedSites -> {"none", "enabled", "disabled"}]
  BY DEF ConfInv, ConfTypes, Writers
<1>1. CASE LockConfig(h)
  <2>1. writer[h].pc = "lock" /\ cfgWriteMu = NoHook /\ cfgWriteMu' = h /\ Goto(h, "admit")
        /\ UNCHANGED <<file, onDisk, up, sitesTable, promised, excused>>
    BY <1>1 DEF LockConfig
  <2>2. PICK rec \in WriterState : /\ writer' = [writer EXCEPT ![h] = rec]
                                   /\ rec.pc = "admit" /\ rec.edit = writer[h].edit
    BY <1>0, <2>1, GotoTyped DEF Editing
  <2>3. \A g \in Hooks : Locked(g)'
    <3>1. \A g \in Hooks : writer[g].pc \in {"idle", "lock"}
      BY <2>1, ConfigFileAssumption DEF ConfInv, Locked
    <3> QED
      BY <1>0, <2>1, <2>2, <3>1 DEF Locked, ConfTypes, Writers
  <2>4. ~excused => \A f \in promised' : f.target # rec.edit.target
    BY <1>0, <2>1, <2>2 DEF ConfInv, ConfSafe, Undisturbed, Editing
  <2>5. rec.edit \in Edits /\ up' \in BOOLEAN /\ excused' \in BOOLEAN
    BY <1>0, <2>1, <2>2 DEF ConfTypes
  <2> QED
    BY <1>0, <2>1, <2>2, <2>3, <2>4, <2>5, ConfQuiet
<1>2. CASE Admit(h)
  <2>1. writer[h].pc = "admit" /\ Goto(h, "read")
        /\ UNCHANGED <<file, onDisk, cfgWriteMu, up, sitesTable, promised, excused>>
    BY <1>2 DEF Admit
  <2>2. PICK rec \in WriterState : /\ writer' = [writer EXCEPT ![h] = rec]
                                   /\ rec.pc = "read" /\ rec.edit = writer[h].edit
    BY <1>0, <2>1, GotoTyped DEF Editing
  <2> QED
    BY <1>0, <2>1, <2>2, ConfHookGoes
<1>3. CASE Reject(h) \/ HookFails(h) \/ LoadRefused(h) \/ Answer(h)
  <2>1. ReturnHook(h) /\ writer[h].pc # "sync" /\ UNCHANGED <<file, onDisk, up, sitesTable, promised, excused>>
    BY <1>3 DEF Reject, HookFails, LoadRefused, Answer
  <2> QED
    BY <2>1, ConfHookReturns
<1>4. CASE LoadConfig(h)
  <2> DEFINE rec == [writer[h] EXCEPT !.pc = "reconcile", !.tree = file]
  <2>1. /\ writer[h].pc = "load" /\ writer' = [writer EXCEPT ![h] = rec]
        /\ UNCHANGED <<file, onDisk, cfgWriteMu, up, sitesTable, promised, excused>>
    BY <1>4 DEF LoadConfig
  <2>2. rec \in WriterState /\ rec.pc = "reconcile" /\ rec.edit = writer[h].edit
    <3>1. file \in Content
      BY <1>0 DEF ConfTypes
    <3> QED
      BY <1>0, <3>1 DEF WriterState
  <2> QED
    BY <1>0, <2>1, <2>2, ConfHookGoes
<1>5. CASE ReconcileTable(h)
  <2>1. /\ writer[h].pc = "reconcile" /\ sitesTable' = Synced(writer[h].tree)
        /\ Goto(h, "purge") \/ Goto(h, "answer")
        /\ UNCHANGED <<file, onDisk, cfgWriteMu, up, promised, excused>>
    BY <1>5 DEF ReconcileTable
  <2>2. PICK rec \in WriterState : /\ writer' = [writer EXCEPT ![h] = rec]
                                   /\ rec.pc \in {"purge", "answer"} /\ rec.edit = writer[h].edit
    BY <1>0, <2>1, GotoTyped
  <2>3. sitesTable' \in [ListedSites -> {"none", "enabled", "disabled"}]
    BY <1>0, <2>1, SyncedTyped
  <2> QED
    BY <1>0, <2>1, <2>2, <2>3, ConfHookGoes
<1>6. CASE DeleteSite(h)
  <2>1. /\ writer[h].pc = "purge" /\ Goto(h, "answer")
        /\ sitesTable' = [sitesTable EXCEPT ![writer[h].edit.target] = "none"]
        /\ UNCHANGED <<file, onDisk, cfgWriteMu, up, promised, excused>>
    BY <1>6 DEF DeleteSite
  <2>2. PICK rec \in WriterState : /\ writer' = [writer EXCEPT ![h] = rec]
                                   /\ rec.pc = "answer" /\ rec.edit = writer[h].edit
    BY <1>0, <2>1, GotoTyped
  <2>3. sitesTable' \in [ListedSites -> {"none", "enabled", "disabled"}]
    BY <1>0, <2>1
  <2> QED
    BY <1>0, <2>1, <2>2, <2>3, ConfHookGoes
<1> QED
  BY <1>1, <1>2, <1>3, <1>4, <1>5, <1>6 DEF HookStep

\* The edits that a request may ask for.
LEMMA SiteEditsTyped == SiteEdits \cup KeyEdits \subseteq Edits
<1>1. \A op \in {"add site", "remove site", "purge site"}, s \in ListedSites : Edit(op, s, "") \in Edits
  BY DEF Edit, Edits, Channel
<1>2. \A k \in Settable, v \in {"good", "bad"} : Edit("set key", k, v) \in Edits
  BY DEF Edit, Edits, Channel, ConfigKeys
<1>3. SiteEdits \subseteq Edits
  <2> DEFINE OfSite(op, s) == Edit(op, s, "")
             ops == {"add site", "remove site", "purge site"}
  <2>1. SiteEdits = {OfSite(op, s) : op \in ops, s \in ListedSites}
    BY DEF SiteEdits
  <2>2. \A op \in ops, s \in ListedSites : OfSite(op, s) \in Edits
    BY <1>1
  <2> HIDE DEF OfSite, ops
  <2> QED
    BY <2>1, <2>2
<1>4. KeyEdits \subseteq Edits
  <2> DEFINE OfKey(k, v) == Edit("set key", k, v)
  <2>1. KeyEdits = {OfKey(k, v) : k \in Settable, v \in {"good", "bad"}}
    BY DEF KeyEdits
  <2>2. \A k \in Settable, v \in {"good", "bad"} : OfKey(k, v) \in Edits
    BY <1>2
  <2> HIDE DEF OfKey
  <2> QED
    BY <2>1, <2>2
<1> QED
  BY <1>3, <1>4

\* A request puts in question what was established about its target.
LEMMA ConfRequest ==
  ASSUME ConfInv, NEW h \in Hooks, NEW edit \in SiteEdits \cup KeyEdits, Request(h, edit)
  PROVE  ConfInv'
<1> DEFINE rec == [NoEdit EXCEPT !.pc = "lock", !.edit = edit]
<1>0. h \in Writers /\ ConfTypes /\ edit \in Edits
  BY SiteEditsTyped DEF ConfInv, Writers
<1>1. /\ writer[h].pc = "idle" /\ writer' = [writer EXCEPT ![h] = rec] /\ promised' = Doubt(edit)
      /\ UNCHANGED <<file, onDisk, cfgWriteMu, up, sitesTable, excused>>
  BY DEF Request
<1>2. rec \in WriterState /\ rec.pc = "lock" /\ rec.edit = edit
  BY <1>0, NoEditTyped DEF WriterState, Editing
<1> HIDE DEF rec
<1>3. promised' \subseteq promised /\ \A f \in promised' : f.target # edit.target
  BY <1>1 DEF Doubt
<1>4. \A g \in Hooks : Locked(g)'
  BY <1>0, <1>1, <1>2, LockKept
<1>5. /\ cfgWriteMu' \in Hooks \cup {NoHook} /\ up' \in BOOLEAN /\ excused' \in BOOLEAN
      /\ sitesTable' \in [ListedSites -> {"none", "enabled", "disabled"}]
  BY <1>0, <1>1 DEF ConfTypes
<1> QED
  BY <1>0, <1>1, <1>2, <1>3, <1>4, <1>5, ConfQuiet

\* A command that takes up an edit, or ends.
LEMMA ConfCommand ==
  ASSUME ConfInv, NEW c \in Commands, Dedupe(c) \/ Kill(c) \/ \E plan \in Plans : Command(c, plan)
  PROVE  ConfInv'
<1>0. /\ c \in Writers /\ c \notin Hooks /\ ConfTypes /\ writer[c] \in WriterState /\ writer[c].todo \in Seq(Edits)
      /\ UNCHANGED <<file, onDisk, cfgWriteMu, up, sitesTable>>
  BY ConfigFileAssumption DEF ConfInv, ConfTypes, Writers, WriterState, Dedupe, Kill, Command
<1>1. PICK rec \in WriterState :
        /\ writer' = [writer EXCEPT ![c] = rec]
        /\ promised' \subseteq promised
        /\ rec.pc # "idle" => rec.edit \in Edits
        /\ ~excused /\ rec.pc \in Editing => \A f \in promised' : f.target # rec.edit.target
        /\ rec.pc # "write"
        /\ excused' \in BOOLEAN /\ (~excused' => ~excused /\ writer[c].pc # "sync")
  <2>1. ASSUME NEW plan \in Plans, Command(c, plan)
        PROVE  /\ Proceeding(plan) \in WriterState
               /\ writer' = [writer EXCEPT ![c] = Proceeding(plan)]
               /\ promised' \subseteq promised
               /\ Proceeding(plan).pc # "idle" => Proceeding(plan).edit \in Edits
               /\ Proceeding(plan).pc # "write"
               /\ \A f \in promised' : f.target # Proceeding(plan).edit.target
               /\ excused' = excused /\ writer[c].pc # "sync"
    <3>1. plan \in Seq(Edits) /\ plan # <<>>
      BY PlansTyped
    <3> QED
      BY <2>1, <3>1, ProceedingTyped DEF Command, Doubt
  <2>2. CASE Kill(c)
    BY <2>2, NoEditTyped, <1>0 DEF Kill, ConfTypes, Editing
  <2>3. CASE Dedupe(c) /\ ~Loadable(file)
    BY <2>3, NoEditTyped, <1>0 DEF Dedupe, ConfTypes, Editing
  <2>4. CASE Dedupe(c) /\ Loadable(file) /\ file.sites[writer[c].edit.target] > 0
    <3> DEFINE next == writer[c].todo
    <3>1. /\ writer[c].pc = "dedupe" /\ writer' = [writer EXCEPT ![c] = Proceeding(next)] /\ excused' = excused
          /\ promised' = IF next # <<>> THEN Doubt(Head(next)) ELSE promised
      BY <2>4 DEF Dedupe
    <3>2. /\ Proceeding(next) \in WriterState /\ Proceeding(next).pc \in {"idle", "dedupe", "read"}
          /\ next # <<>> => Proceeding(next).edit = Head(next) /\ Head(next) \in Edits
          /\ Proceeding(next).pc # "idle" => next # <<>>
      BY <1>0, ProceedingTyped
    <3>3. Proceeding(next).pc \in Editing => \A f \in promised' : f.target # Proceeding(next).edit.target
      BY <3>1, <3>2 DEF Editing, Doubt
    <3> QED
      BY <1>0, <3>1, <3>2, <3>3 DEF ConfTypes, Doubt
  <2>5. CASE Dedupe(c) /\ Loadable(file) /\ ~(file.sites[writer[c].edit.target] > 0)
    <3> DEFINE rec == [writer[c] EXCEPT !.pc = "read"]
    <3>1. /\ writer[c].pc = "dedupe" /\ writer' = [writer EXCEPT ![c] = rec] /\ excused' = excused
          /\ promised' = promised
      BY <2>5 DEF Dedupe
    <3>2. rec \in WriterState /\ rec.pc = "read" /\ rec.edit = writer[c].edit
      BY <1>0 DEF WriterState, Editing
    <3>3. rec.edit \in Edits /\ (~excused => \A f \in promised' : f.target # rec.edit.target)
      BY <1>0, <3>1, <3>2 DEF ConfInv, ConfTypes, ConfSafe, Undisturbed, Editing
    <3> QED
      BY <1>0, <3>1, <3>2, <3>3 DEF ConfTypes
  <2>6. excused \in BOOLEAN
    BY <1>0 DEF ConfTypes
  <2> QED
    BY <2>1, <2>2, <2>3, <2>4, <2>5, <2>6
<1>2. \A g \in Hooks : Locked(g)'
  BY <1>0, <1>1, LockKept
<1>3. cfgWriteMu' \in Hooks \cup {NoHook} /\ up' \in BOOLEAN
      /\ sitesTable' \in [ListedSites -> {"none", "enabled", "disabled"}]
  BY <1>0 DEF ConfTypes
<1> QED
  BY <1>0, <1>1, <1>2, <1>3, ConfQuiet

\* One edit, of a hook or of a command.
LEMMA ConfEdit ==
  ASSUME ConfInv, NEW w \in Writers, EditStep(w)
  PROVE  ConfInv'
<1>0. /\ ConfTypes /\ writer[w] \in WriterState /\ file \in Content /\ excused \in BOOLEAN
      /\ up \in BOOLEAN /\ cfgWriteMu \in Hooks \cup {NoHook}
      /\ sitesTable \in [ListedSites -> {"none", "enabled", "disabled"}]
  BY DEF ConfInv, ConfTypes
<1>1. CASE LoadDoc(w)
  <2> DEFINE e == writer[w].edit
             rec == [writer[w] EXCEPT !.pc = "write", !.tree = Edited(file, e)]
  <2>1. /\ writer[w].pc = "read" /\ writer' = [writer EXCEPT ![w] = rec]
        /\ UNCHANGED <<file, onDisk, cfgWriteMu, up, sitesTable, promised, excused>>
    BY <1>1 DEF LoadDoc
  <2>2. e \in Edits
    BY <1>0, <2>1 DEF ConfTypes
  <2>3. Edited(file, e) \in Content
    BY <1>0, <2>2, EditedEffects DEF OnlyAbout
  <2>4. rec \in WriterState /\ rec.pc = "write" /\ rec.edit = e /\ rec.tree = Edited(file, e)
    BY <1>0, <2>3 DEF WriterState, Editing
  <2> HIDE DEF rec
  <2>5. ~excused => \A f \in promised' : f.target # rec.edit.target
    BY <2>1, <2>4 DEF ConfInv, ConfSafe, Undisturbed, Editing
  <2>6. \A h \in Hooks : Locked(h)'
    BY <2>1, <2>4, LockKept
  <2> QED
    BY <1>0, <2>1, <2>2, <2>4, <2>5, <2>6, ConfQuiet
<1>2. CASE NotListed(w)
  <2>1. /\ writer[w].pc = "read" /\ Done(w)
        /\ UNCHANGED <<file, onDisk, cfgWriteMu, up, sitesTable, excused>>
    BY <1>2 DEF NotListed
  <2> QED
    BY <1>0, <2>1, ConfDone
<1>3. CASE WriteFails(w)
  <2>1. writer[w].pc \in {"read", "write"} /\ UNCHANGED <<file, onDisk, up, sitesTable, promised, excused>>
    BY <1>3 DEF WriteFails
  <2>2. CASE w \in Hooks
    <3>1. ReturnHook(w)
      BY <1>3, <2>2 DEF WriteFails
    <3> QED
      BY <2>1, <2>2, <3>1, ConfHookReturns
  <2>3. CASE w \notin Hooks
    <3>1. writer' = [writer EXCEPT ![w] = NoEdit] /\ UNCHANGED cfgWriteMu
      BY <1>3, <2>3 DEF WriteFails
    <3>2. \A h \in Hooks : Locked(h)'
      BY <2>3, <3>1, NoEditTyped, LockKept
    <3>3. NoEdit.pc \notin Editing /\ NoEdit.pc # "write"
      BY NoEditTyped DEF Editing
    <3> QED
      BY <1>0, <2>1, <3>1, <3>2, <3>3, NoEditTyped, ConfQuiet
  <2> QED
    BY <2>2, <2>3
<1>4. CASE Rename(w)
  BY <1>4, ConfRename
<1>5. CASE SyncDir(w)
  <2>1. /\ writer[w].pc = "sync" /\ onDisk' = {file} /\ Done(w)
        /\ UNCHANGED <<file, cfgWriteMu, up, sitesTable, excused>>
    BY <1>5 DEF SyncDir
  <2> QED
    BY <1>0, <2>1, ConfDone
<1>6. CASE SyncDirFails(w)
  <2>1. /\ writer[w].pc = "sync" /\ excused' = TRUE /\ Done(w)
        /\ UNCHANGED <<file, onDisk, cfgWriteMu, up, sitesTable>>
    BY <1>6 DEF SyncDirFails
  <2> QED
    BY <1>0, <2>1, ConfDone
<1> QED
  BY <1>1, <1>2, <1>3, <1>4, <1>5, <1>6 DEF EditStep

\* The daemon dies, the power is lost, the daemon starts.
LEMMA ConfLosses ==
  ASSUME ConfInv, DaemonDies \/ PowerLoss \/ DaemonStarts
  PROVE  ConfInv'
<1>0. ConfTypes
  BY DEF ConfInv
<1>1. CASE DaemonDies
  <2>1. /\ up' = FALSE /\ cfgWriteMu' = NoHook
        /\ writer' = [w \in Writers |-> IF w \in Hooks THEN NoEdit ELSE writer[w]]
        /\ excused' = (excused \/ \E h \in Hooks : writer[h].pc = "sync")
        /\ UNCHANGED <<file, onDisk, sitesTable, promised>>
    BY <1>1 DEF DaemonDies
  <2>2. /\ \A w \in Writers : writer'[w] = IF w \in Hooks THEN NoEdit ELSE writer[w]
        /\ \A h \in Hooks : h \in Writers /\ writer'[h].pc = "idle"
        /\ writer' \in [Writers -> WriterState]
    BY <1>0, <2>1, NoEditTyped DEF ConfTypes, Writers
  <2>3. ConfTypes'
    BY <1>0, <2>1, <2>2, NoEditTyped DEF ConfTypes
  <2>4. \A h \in Hooks : Locked(h)'
    BY <2>2 DEF Locked
  <2>5. ASSUME ~excused' PROVE ConfSafe'
    <3>1. ConfSafe /\ \A h \in Hooks : writer[h].pc # "sync"
      BY <2>1, <2>5 DEF ConfInv
    <3>2. \A w \in Writers : Undisturbed(w)' /\ Fresh(w)'
      BY <2>1, <2>2, <3>1, NoEditTyped DEF ConfSafe, Undisturbed, Fresh, Editing
    <3>3. \A f \in Edits : SyncedBut(f)'
      BY <2>1, <2>2, <3>1 DEF ConfSafe, SyncedBut
    <3> QED
      BY <2>1, <3>1, <3>2, <3>3 DEF ConfSafe
  <2> QED
    BY <2>3, <2>4, <2>5 DEF ConfInv
<1>2. CASE PowerLoss
  <2>1. /\ file' \in onDisk /\ onDisk' = {file'} /\ up' = FALSE /\ cfgWriteMu' = NoHook
        /\ writer' = [w \in Writers |-> NoEdit]
        /\ UNCHANGED <<sitesTable, promised, excused>>
    BY <1>2 DEF PowerLoss
  <2>2. /\ \A w \in Writers : writer'[w].pc = "idle"
        /\ writer' \in [Writers -> WriterState]
    BY <2>1, NoEditTyped
  <2>3. ConfTypes'
    BY <1>0, <2>1, <2>2 DEF ConfTypes
  <2>4. \A h \in Hooks : Locked(h)'
    BY <2>2 DEF Locked, Writers
  <2>5. ASSUME ~excused' PROVE ConfSafe'
    <3>1. ConfSafe
      BY <2>1, <2>5 DEF ConfInv
    <3>2. \A w \in Writers : Undisturbed(w)' /\ Fresh(w)'
      BY <2>2 DEF Undisturbed, Fresh, Editing
    <3>3. \A f \in Edits : SyncedBut(f)'
      BY <2>1 DEF SyncedBut
    <3> QED
      BY <2>1, <3>1, <3>2, <3>3 DEF ConfSafe
  <2> QED
    BY <2>3, <2>4, <2>5 DEF ConfInv
<1>3. CASE DaemonStarts
  <2>1. up' = TRUE /\ sitesTable' = Synced(file) /\ UNCHANGED <<file, onDisk, cfgWriteMu, writer, promised, excused>>
    BY <1>3 DEF DaemonStarts
  <2>2. ConfTypes'
    BY <1>0, <2>1, SyncedTyped DEF ConfTypes
  <2> QED
    BY <2>1, <2>2 DEF ConfInv, ConfSafe, Locked, Undisturbed, Fresh, SyncedBut
<1> QED
  BY <1>1, <1>2, <1>3

\* The daemon starts with what it was left.
LEMMA ConfInit == ConfigFileInit => ConfInv
<1> SUFFICES ASSUME ConfigFileInit PROVE ConfInv
  OBVIOUS
<1>1. file \in Content
  <2>1. PICK listed \in SUBSET ListedSites :
          file = [Blank EXCEPT !.sites = [s \in ListedSites |-> IF s \in listed THEN 1 ELSE 0]]
    BY DEF ConfigFileInit
  <2>2. [s \in ListedSites |-> IF s \in listed THEN 1 ELSE 0] \in [ListedSites -> Nat]
    OBVIOUS
  <2> QED
    BY <2>1, <2>2, NoEditTyped DEF Content
<1>2. \A w \in Writers : writer[w] = NoEdit
  BY DEF ConfigFileInit
<1>3. writer \in [Writers -> WriterState]
  BY NoEditTyped DEF ConfigFileInit
<1>4. sitesTable \in [ListedSites -> {"none", "enabled", "disabled"}]
  BY DEF ConfigFileInit
<1>5. onDisk = {file} /\ promised = {} /\ cfgWriteMu = NoHook /\ up = TRUE /\ excused = FALSE
  BY DEF ConfigFileInit
<1>6. ConfTypes
  BY <1>1, <1>2, <1>3, <1>4, <1>5, NoEditTyped DEF ConfTypes
<1>7. \A h \in Hooks : Locked(h)
  BY <1>2, NoEditTyped DEF Locked, Writers
<1>8. ConfSafe
  BY <1>2, <1>5, NoEditTyped DEF ConfSafe, Undisturbed, Fresh, SyncedBut, Editing
<1> QED
  BY <1>6, <1>7, <1>8 DEF ConfInv

\* Every step preserves it.
LEMMA ConfStep == ConfInv /\ [ConfigFileNext]_configVars => ConfInv'
<1> SUFFICES ASSUME ConfInv, [ConfigFileNext]_configVars PROVE ConfInv'
  OBVIOUS
<1>1. CASE UNCHANGED configVars
  BY <1>1 DEF configVars, ConfInv, ConfTypes, ConfSafe, Locked, Undisturbed, Fresh, SyncedBut
<1>2. CASE ConfigFileNext
  BY <1>2, ConfHook, ConfRequest, ConfCommand, ConfEdit, ConfLosses DEF ConfigFileNext
<1> QED
  BY <1>1, <1>2

\* Unless a command wrote at the same moment or the directory would not sync, what
\* was answered is in config.yaml and survives a power loss, whatever requests and
\* commands edit the file at the same time (config/mutate.go, fsatomic, the hooks).
THEOREM AnsweredEditsStayCorrect == ConfigFileSpec => []AnsweredEditsStay
<1>1. ConfInv => AnsweredEditsStay
  BY DEF ConfInv, ConfSafe, AnsweredEditsStay
<1> QED
  BY <1>1, ConfInit, ConfStep, PTL DEF ConfigFileSpec
=============================================================================
