----------------------------- MODULE Retention -----------------------------
(***************************************************************************)
(* The retention sweep (internal/store/retention.go) beside the crawls     *)
(* whose snapshots it prunes.  A sweep is three transactions or more:      *)
(* bodies, rows in chunks, file snapshots, with the cutoff of its start.   *)
(* The job has no singleton mode, so sweeps may overlap, and any of their  *)
(* transactions may fail.  A crawl reads the previous snapshot, saves its  *)
(* own and then records the changes; these die with their snapshot         *)
(* (ON DELETE CASCADE).                                                    *)
(*                                                                         *)
(* Times are whole units.  The clock may be set back, in all by less than  *)
(* SnapshotMaxAge, and a crawl takes less than what is left of it.         *)
(* Bounds: MaxRows snapshots, MaxFiles file snapshots, MaxClock, MaxBack.  *)
(***************************************************************************)
EXTENDS Integers, FiniteSets

CONSTANTS
  Pages,              \* the URLs that are crawled
  FileKinds,          \* robots.txt or the sitemap, by site
  Pruners,            \* the sweeps that may run at once
  RawHTMLKeep, SnapshotMaxAge, FileSnapshotsKeep, Chunk,
  MaxRows, MaxFiles, MaxClock, MaxBack

ASSUME RetentionAssumption ==
  /\ {RawHTMLKeep, FileSnapshotsKeep, SnapshotMaxAge, MaxRows, MaxFiles, MaxClock, MaxBack} \subseteq Nat
  /\ Chunk \in Nat \ {0}
  /\ SnapshotMaxAge > 0 => MaxBack < SnapshotMaxAge

VARIABLES
  snapshots,  \* the rows of that table, with or without their body
  changes,    \* the snapshots that have rows in the change log
  files,      \* file_snapshots
  reading,    \* where the crawl of each page is
  prune,      \* where each sweep is
  serial,     \* the last ids given: AUTOINCREMENT never gives one again
  dbClock, backs

retentionVars == <<snapshots, changes, files, reading, prune, serial, dbClock, backs>>

-----------------------------------------------------------------------------
\* ORDER BY fetched_at DESC, id DESC
Newer(r, s) == r.at > s.at \/ (r.at = s.at /\ r.id > s.id)
Newest(keep, rows) == {r \in rows : Cardinality({s \in rows : Newer(s, r)}) < keep}

OfPage(u) == {r \in snapshots : r.of = u}
OfKind(k) == {r \in files : r.of = k}

\* The row, as a set of at most one.
LatestSnapshot(u) == Newest(1, OfPage(u))
LatestFileSnapshot(k) == Newest(1, OfKind(k))

\* buildRetentionPolicy and the layers themselves put a floor under what is kept.
Least(n, floor) == IF n < floor THEN floor ELSE n

NotReading == [pc |-> "idle", at |-> 0, id |-> 0, first |-> TRUE]
NotPruning == [pc |-> "idle", cutoff |-> 0]

RetentionInit ==
  /\ snapshots = {}
  /\ changes = {}
  /\ files = {}
  /\ reading = [u \in Pages |-> NotReading]
  /\ prune = [s \in Pruners |-> NotPruning]
  /\ serial = [rows |-> 0, files |-> 0]
  /\ dbClock = 0
  /\ backs = 0

RetentionTypeOK ==
  /\ snapshots \subseteq [id : 1..MaxRows, of : Pages, at : 0..MaxClock, html : BOOLEAN]
  /\ changes \subseteq 1..MaxRows
  /\ files \subseteq [id : 1..MaxFiles, of : FileKinds, at : 0..MaxClock]
  /\ reading \in [Pages -> [pc : {"idle", "read", "saved"}, at : 0..MaxClock, id : 0..MaxRows,
                            first : BOOLEAN]]
  /\ prune \in [Pruners -> [pc : {"idle", "html", "rows", "files"},
                            cutoff : -SnapshotMaxAge..MaxClock]]
  /\ serial \in [rows : 0..MaxRows, files : 0..MaxFiles]
  /\ dbClock \in 0..MaxClock
  /\ backs \in 0..MaxBack

-----------------------------------------------------------------------------
\* The crawl.
ReadLatest(u) ==
  /\ reading[u].pc = "idle"
  /\ reading' = [reading EXCEPT ![u] = [pc |-> "read", at |-> dbClock, id |-> 0,
                                        first |-> LatestSnapshot(u) = {}]]
  /\ UNCHANGED <<snapshots, changes, files, prune, serial, dbClock, backs>>

SavePageSnapshot(u) ==
  /\ reading[u].pc = "read"
  /\ serial.rows < MaxRows
  /\ serial' = [serial EXCEPT !.rows = @ + 1]
  /\ snapshots' = snapshots \cup
       {[id |-> serial'.rows, of |-> u, at |-> reading[u].at, html |-> TRUE]}
  /\ reading' = [reading EXCEPT ![u].pc = "saved", ![u].id = serial'.rows]
  /\ UNCHANGED <<changes, files, prune, dbClock, backs>>

\* A first snapshot is a baseline; a foreign key keeps the change log to snapshots
\* that exist.
RecordChanges(u) ==
  /\ reading[u].pc = "saved"
  /\ ~reading[u].first
  /\ \E r \in snapshots : r.id = reading[u].id
  /\ changes' = changes \cup {reading[u].id}
  /\ reading' = [reading EXCEPT ![u] = NotReading]
  /\ UNCHANGED <<snapshots, files, prune, serial, dbClock, backs>>

\* The page has not changed, or a step of the crawl failed.
CrawlEnds(u) ==
  /\ reading[u].pc # "idle"
  /\ reading' = [reading EXCEPT ![u] = NotReading]
  /\ UNCHANGED <<snapshots, changes, files, prune, serial, dbClock, backs>>

SaveFileSnapshot(k) ==
  /\ serial.files < MaxFiles
  /\ serial' = [serial EXCEPT !.files = @ + 1]
  /\ files' = files \cup {[id |-> serial'.files, of |-> k, at |-> dbClock]}
  /\ UNCHANGED <<snapshots, changes, reading, prune, dbClock, backs>>

-----------------------------------------------------------------------------
\* The sweep.
StartSweep(s) ==
  /\ prune[s].pc = "idle"
  /\ prune' = [prune EXCEPT ![s] = [pc |-> "html", cutoff |-> dbClock - SnapshotMaxAge]]
  /\ UNCHANGED <<snapshots, changes, files, reading, serial, dbClock, backs>>

\* The body is taken from all but the newest rows that have one.
NullStaleRawHTML(s) ==
  /\ prune[s].pc = "html"
  /\ LET kept == UNION {Newest(Least(RawHTMLKeep, 1), {r \in OfPage(u) : r.html}) : u \in Pages}
     IN snapshots' = {[r EXCEPT !.html = r \in kept] : r \in snapshots}
  /\ prune' = [prune EXCEPT ![s].pc = IF SnapshotMaxAge > 0 THEN "rows" ELSE "files"]
  /\ UNCHANGED <<changes, files, reading, serial, dbClock, backs>>

Stale_EvenChanged(cutoff) ==
  {r \in snapshots : /\ r.at < cutoff
                     /\ r \notin Newest(Least(RawHTMLKeep, 1), OfPage(r.of))}
Stale(cutoff) ==
  {r \in snapshots : /\ r.at < cutoff
                     /\ r \notin Newest(Least(RawHTMLKeep, 1), OfPage(r.of))
                     /\ r.id \notin changes}

\* One chunk, in no order; the layer ends with the first that is not full.
DeleteStaleSnapshots(s) ==
  /\ prune[s].pc = "rows"
  /\ \E gone \in SUBSET Stale(prune[s].cutoff) :
       /\ \/ Cardinality(gone) = Chunk
          \/ Cardinality(gone) < Chunk /\ gone = Stale(prune[s].cutoff)
       /\ snapshots' = snapshots \ gone
       /\ changes' = changes \ {r.id : r \in gone}
       /\ prune' = [prune EXCEPT ![s].pc = IF Cardinality(gone) < Chunk THEN "files" ELSE "rows"]
  /\ UNCHANGED <<files, reading, serial, dbClock, backs>>

TrimFileSnapshots(s) ==
  /\ prune[s].pc = "files"
  /\ files' = UNION {Newest(Least(FileSnapshotsKeep, 2), OfKind(k)) : k \in FileKinds}
  /\ prune' = [prune EXCEPT ![s] = NotPruning]
  /\ UNCHANGED <<snapshots, changes, reading, serial, dbClock, backs>>

\* A transaction fails or is cancelled: what the layers before it did stays.
PruneFails(s) ==
  /\ prune[s].pc # "idle"
  /\ prune' = [prune EXCEPT ![s] = NotPruning]
  /\ UNCHANGED <<snapshots, changes, files, reading, serial, dbClock, backs>>

-----------------------------------------------------------------------------
DBTick ==
  /\ dbClock < MaxClock
  /\ \A u \in Pages : reading[u].pc # "idle" => dbClock < reading[u].at + SnapshotMaxAge - MaxBack
  /\ dbClock' = dbClock + 1
  /\ UNCHANGED <<snapshots, changes, files, reading, prune, serial, backs>>

SetBack ==
  /\ dbClock > 0
  /\ backs < MaxBack
  /\ dbClock' = dbClock - 1
  /\ backs' = backs + 1
  /\ UNCHANGED <<snapshots, changes, files, reading, prune, serial>>

RetentionNext ==
  \/ \E u \in Pages : ReadLatest(u) \/ SavePageSnapshot(u) \/ RecordChanges(u) \/ CrawlEnds(u)
  \/ \E k \in FileKinds : SaveFileSnapshot(k)
  \/ \E s \in Pruners : \/ StartSweep(s) \/ NullStaleRawHTML(s) \/ DeleteStaleSnapshots(s)
                        \/ TrimFileSnapshots(s) \/ PruneFails(s)
  \/ DBTick
  \/ SetBack

RetentionSpec == RetentionInit /\ [][RetentionNext]_retentionVars

-----------------------------------------------------------------------------
(* Pruning loses nothing (retention.go:10).  No change leaves the log; the
   snapshot that a crawl in flight has saved is there when its changes are
   recorded; only a save, never a sweep, changes the snapshot or the file a later
   crawl compares with, or the file before it; that snapshot keeps its body; and
   a sweep that gets past its rows has left none that is stale. *)
LosesNothing ==
  /\ changes \subseteq changes'
  /\ \A u \in Pages : reading'[u].pc = "saved" => \E r \in snapshots' : r.id = reading'[u].id
  /\ serial' = serial =>
       /\ \A u \in Pages : {r.id : r \in LatestSnapshot(u)'} = {r.id : r \in LatestSnapshot(u)}
       /\ \A k \in FileKinds : Newest(2, OfKind(k)) \subseteq files'
  /\ \A u \in Pages : \A r \in LatestSnapshot(u)' : r.html
  /\ \A s \in Pruners :
       prune[s].pc = "rows" /\ prune'[s].pc = "files" => Stale(prune[s].cutoff)' = {}

RetentionLosesNothing == [][LosesNothing]_retentionVars
=============================================================================
