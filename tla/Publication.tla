---------------------------- MODULE Publication ----------------------------
(***************************************************************************)
(* The public menu while the database is migrated: `make migrate` runs all *)
(* migration files again, each in a transaction of its own, on a database  *)
(* that is in use.  Four of them replace refresh_public_menu_snapshot by   *)
(* the version of their time and refresh every menu with it, so that on    *)
(* the way from the first to the last the menu goes through old formats.   *)
(* Edits run meanwhile, as far as the locks of the file allow, with the    *)
(* function that is committed when their trigger fires; a customer reads   *)
(* through a cache.                                                        *)
(*                                                                         *)
(* One restaurant; a document is its format and the edits it shows.  How   *)
(* two edits overlap is the subject of SnapshotRefresh.                    *)
(***************************************************************************)
EXTENDS Naturals, FiniteSets

CONSTANTS Edits,   \* admin requests that write, each at most once
          Kinds,   \* what they may write, some of AllKinds
          MaxRuns, \* bound of the model: runs of make migrate
          NoDoc

AllKinds == {"hours", "menus", "sections", "allergens", "items"}
Files    == 1 .. 6
Newest   == 6

ASSUME KindsExist == Kinds \subseteq AllKinds /\ MaxRuns \in Nat
ASSUME ZeroIsNoEdit == 0 \notin Edits

\* Files that install a refresh function and call it for every restaurant.
Refreshing == {1, 3, 5, 6}

\* Faulty: the file takes no lock.
NoLocks(f) == {}

\* Kinds of edits a file's table locks keep out: 1, 3 and 4 lock catalog_items
\* or menus, which every refresh reads; 2 locks menus, 5 the items and
\* sections, and 6 the items and allergens against writers.
Blocks(f) ==
  CASE f \in {1, 3, 4} -> AllKinds
    [] f = 2 -> {"menus"}
    [] f = 5 -> {"items", "sections"}
    [] f = 6 -> {"items", "allergens"}

VARIABLES
  fn,       \* version of refresh_public_menu_snapshot, by its file
  content,  \* committed edits
  snap,     \* the row of public_menu_snapshots
  file,     \* the file psql runs, 0 between runs
  stage,    \* of a file or an edit: "idle", "open", "built", "written", "ended"
  kind,     \* what an edit writes
  doc,      \* the document a transaction has built
  exit,     \* status of the last run: "none", "ok" or "failed"
  runs,     \* runs so far
  cached,   \* the cache's copy
  age,      \* its age: "fresh", "stale" (while it revalidates) or "expired"
  shown,    \* what the customer sees
  overlap,  \* history: transactions in whose time another one committed
  raced     \* history: the writer of snap was one of them

vars == <<fn, content, snap, file, stage, kind, doc, exit, runs, cached, age,
          shown, overlap, raced>>
reader == <<cached, age, shown>>

\* The transactions: edits, and the file that runs.
Psql == 0
Txs  == Edits \cup {Psql}

Doc == [format : Files, shows : SUBSET Edits, by : Txs]

\* Faulty: the hash is taken before the menus are put into the document.
HeadETag(d) == {e \in d.shows : kind[e] = "hours"}

\* The hash of the document.
ETag(d) == <<d.format, d.shows>>

Init ==
  /\ fn = Newest
  /\ content = {}
  /\ snap = [format |-> Newest, shows |-> {}, by |-> Psql]
  /\ file = 0
  /\ stage = [t \in Txs |-> "idle"]
  /\ kind \in [Edits -> Kinds]
  /\ doc = [t \in Txs |-> NoDoc]
  /\ exit = "none"
  /\ runs = 0
  /\ cached = snap
  /\ age = "fresh"
  /\ shown = snap
  /\ overlap = {}
  /\ raced = FALSE

Active(t) == stage[t] \in {"open", "built", "written"}

\* The file that runs holds its locks from its first statement on.
KeptOut(e) == Active(Psql) /\ kind[e] \in Blocks(file)

Moves(t, s) == stage' = [stage EXCEPT ![t] = s]

\* Faulty: every menu is refreshed by the function installed before.
ForgetVersion(t) == fn

\* The refresh t runs: a file's own, or the one that is committed.
Version(t) == IF t = Psql THEN file ELSE fn

----------------------------------------------------------------------------
(* A refresh: build the document, wait for the snapshot row, write it.     *)

Build(t) ==
  /\ stage[t] = "open"
  /\ t = Psql => file \in Refreshing
  /\ doc' = [doc EXCEPT ![t] =
       [format |-> Version(t), by |-> t,
        shows |-> content \cup (IF t = Psql THEN {} ELSE {t})]]
  /\ Moves(t, "built")
  /\ UNCHANGED <<fn, content, snap, file, kind, exit, runs, reader, overlap, raced>>

Upsert(t) ==
  /\ stage[t] = "built"
  /\ \A u \in Txs : stage[u] # "written"
  /\ Moves(t, "written")
  /\ UNCHANGED <<fn, content, snap, file, kind, doc, exit, runs, reader, overlap, raced>>

\* The commit of t falls into the time of the others that run.
Overlap(t) == overlap' = (overlap \cup {u \in Txs : Active(u)}) \ {t}

----------------------------------------------------------------------------
(* Edits.                                                                  *)

BeginEdit(e) ==
  /\ stage[e] = "idle" /\ ~KeptOut(e)
  /\ Moves(e, "open")
  /\ UNCHANGED <<fn, content, snap, file, kind, doc, exit, runs, reader, overlap, raced>>

CommitEdit(e) ==
  /\ stage[e] = "written"
  /\ content' = content \cup {e}
  /\ snap' = doc[e]
  /\ raced' = (e \in overlap)
  /\ doc' = [doc EXCEPT ![e] = NoDoc]
  /\ Moves(e, "ended")
  /\ Overlap(e)
  /\ UNCHANGED <<fn, file, kind, exit, runs, reader>>

RollbackEdit(e) ==
  /\ Active(e)
  /\ doc' = [doc EXCEPT ![e] = NoDoc]
  /\ Moves(e, "ended")
  /\ overlap' = overlap \ {e}
  /\ UNCHANGED <<fn, content, snap, file, kind, exit, runs, reader, raced>>

----------------------------------------------------------------------------
(* make migrate: a loop over the files in order that no failure stops; its *)
(* status is that of the last file.                                        *)

Migrate ==
  /\ file = 0 /\ runs < MaxRuns
  /\ file' = 1
  /\ runs' = runs + 1
  /\ UNCHANGED <<fn, content, snap, stage, kind, doc, exit, reader, overlap, raced>>

\* The locks are granted once no edit is in their way.
BeginFile ==
  /\ file # 0 /\ stage[Psql] = "idle"
  /\ \A e \in Edits : Active(e) => kind[e] \notin Blocks(file)
  /\ Moves(Psql, "open")
  /\ UNCHANGED <<fn, content, snap, file, kind, doc, exit, runs, reader, overlap, raced>>

\* Faulty: the files run in another order, 6 before 5.
NextOf(f) == CASE f = 4 -> 6 [] f = 6 -> 5 [] f = 5 -> 0 [] OTHER -> f + 1

\* Faulty: the loop goes one file too far.
OneMore(f) == f + 1

NextFile(f) == IF f = Newest THEN 0 ELSE f + 1

LoopOn(status) ==
  /\ file' = NextFile(file)
  /\ exit' = IF NextFile(file) = 0 THEN status ELSE exit

CommitFile ==
  /\ stage[Psql] = IF file \in Refreshing THEN "written" ELSE "open"
  /\ fn' = IF file \in Refreshing THEN file ELSE fn
  /\ snap' = IF file \in Refreshing THEN doc[Psql] ELSE snap
  /\ raced' = IF file \in Refreshing THEN Psql \in overlap ELSE raced
  /\ doc' = [doc EXCEPT ![Psql] = NoDoc]
  /\ Moves(Psql, "idle")
  /\ Overlap(Psql)
  /\ LoopOn("ok")
  /\ UNCHANGED <<content, kind, runs, reader>>

\* A statement fails, or a deadlock with an edit is resolved: the file is
\* undone, and psql ends with a status the loop does not look at.
FailFile ==
  /\ Active(Psql)
  /\ doc' = [doc EXCEPT ![Psql] = NoDoc]
  /\ Moves(Psql, "idle")
  /\ overlap' = overlap \ {Psql}
  /\ LoopOn("failed")
  /\ UNCHANGED <<fn, content, snap, kind, runs, reader, raced>>

----------------------------------------------------------------------------
(* The customer: Cache-Control lets a cache serve its copy while it is     *)
(* fresh, and a while longer during which it asks the API with the entity  *)
(* tag of its copy.                                                        *)

Ages ==
  /\ age # "expired"
  /\ age' = IF age = "fresh" THEN "stale" ELSE "expired"
  /\ UNCHANGED <<fn, content, snap, file, stage, kind, doc, exit, runs, cached,
                 shown, overlap, raced>>

\* publicMenuHandler: 304 if the entity tags agree, else the document.
Revalidate ==
  /\ age # "fresh"
  /\ cached' = IF ETag(cached) = ETag(snap) THEN cached ELSE snap
  /\ age' = "fresh"
  /\ UNCHANGED <<fn, content, snap, file, stage, kind, doc, exit, runs, shown,
                 overlap, raced>>

Serve ==
  /\ age # "expired"
  /\ shown' = cached
  /\ UNCHANGED <<fn, content, snap, file, stage, kind, doc, exit, runs, cached,
                 age, overlap, raced>>

----------------------------------------------------------------------------
Step(t) == Build(t) \/ Upsert(t)

Next ==
  \/ \E t \in Txs : Step(t)
  \/ \E e \in Edits : BeginEdit(e) \/ CommitEdit(e) \/ RollbackEdit(e)
  \/ Migrate \/ BeginFile \/ CommitFile \/ FailFile
  \/ Ages \/ Revalidate \/ Serve

Spec == Init /\ [][Next]_vars

\* Time passes, a cache that was asked for a stale copy revalidates it, and
\* the customer looks at the menu again.
FairSpec == Spec /\ WF_vars(Ages) /\ SF_vars(Revalidate) /\ SF_vars(Serve)

----------------------------------------------------------------------------
(* Properties.                                                             *)

(* Every variable keeps its type. *)
TypeOK ==
  /\ fn \in Refreshing
  /\ content \subseteq Edits
  /\ snap \in Doc /\ cached \in Doc /\ shown \in Doc
  /\ file \in Files \cup {0}
  /\ stage \in [Txs -> {"idle", "open", "built", "written", "ended"}]
  /\ kind \in [Edits -> Kinds]
  /\ doc \in [Txs -> Doc \cup {NoDoc}]
  /\ exit \in {"none", "ok", "failed"}
  /\ runs \in 0 .. MaxRuns
  /\ age \in {"fresh", "stale", "expired"}
  /\ overlap \subseteq Txs
  /\ raced \in BOOLEAN

(* The Makefile's promise, run again whenever one likes: a run that reports
   success leaves the newest refresh behind, even if an earlier file failed
   unnoticed. *)
SuccessInstallsNewest == file = 0 /\ exit = "ok" => fn = Newest

(* The menu is in the format of the installed refresh and shows the committed
   edits, unless the transaction that wrote it ran while another one, an edit
   or a migration file, committed.  A run that no edit overlaps brings every
   menu back to the newest format, whatever was lost before. *)
OutdatedOnlyByOverlap ==
  snap.format # fn \/ snap.shows # content => raced

(* An old format outlives its migration file only by the hand of an edit that
   the file's locks do not keep out: never of an item, since every file that
   installs a refresh locks the items. *)
ItemEditsAreCurrent ==
  snap.by \in Edits /\ kind[snap.by] = "items" => snap.format = fn

(* A customer who comes back sees the current menu in the end, through the
   cache, the 304 and all the formats of a migration. *)
CustomerCatchesUp == <>[](shown.format = snap.format /\ shown.shows = snap.shows)
=============================================================================
