------------------------- MODULE PublicationProofs -------------------------
(***************************************************************************)
(* What survives a migration of a database in use, for any number of edits *)
(* of any kinds and any number of runs.                                    *)
(***************************************************************************)
EXTENDS Publication, TLAPS

Ended == {"idle", "open", "built", "written", "ended"}

\* A document under way is its transaction's.
DocsSound ==
  \A t \in Txs : stage[t] \in {"built", "written"} => doc[t] \in Doc /\ doc[t].by = t

\* psql runs a file only in a run, and builds menus only in that file's format.
PsqlSound ==
  /\ stage[Psql] # "idle" => file # 0
  /\ stage[Psql] \in {"built", "written"} => file \in Refreshing /\ doc[Psql].format = file

\* A transaction that nothing overtook has built the current document.
UnracedIsCurrent ==
  \A t \in Txs : stage[t] \in {"built", "written"} /\ t \notin overlap =>
    /\ doc[t].shows = content \cup (IF t = Psql THEN {} ELSE {t})
    /\ t # Psql => doc[t].format = fn

\* Files that install a refresh and edits of items keep each other out.
ItemsKeptOut ==
  \A e \in Edits : kind[e] = "items" =>
    /\ Active(Psql) /\ file \in Refreshing => ~Active(e)
    /\ stage[e] \in {"built", "written"} => doc[e].format = fn

IInv == /\ TypeOK /\ DocsSound /\ PsqlSound /\ UnracedIsCurrent /\ ItemsKeptOut
        /\ SuccessInstallsNewest /\ OutdatedOnlyByOverlap /\ ItemEditsAreCurrent

----------------------------------------------------------------------------
LEMMA TxsFacts == Psql \in Txs /\ Psql \notin Edits /\ Edits \subseteq Txs
BY ZeroIsNoEdit DEF Txs, Psql

LEMMA FileFacts ==
  /\ Refreshing \subseteq Files /\ Newest \in Refreshing
  /\ \A f \in Refreshing : "items" \in Blocks(f)
  /\ \A f \in Files : NextFile(f) \in Files \cup {0}
  /\ \A f \in Files : NextFile(f) = 0 => f = Newest
BY DEF Refreshing, Files, Newest, Blocks, AllKinds, NextFile

LEMMA InitHolds == Init => IInv
<1> SUFFICES ASSUME Init PROVE IInv
  OBVIOUS
<1>1. snap \in Doc /\ snap.format = Newest /\ snap.shows = {} /\ snap.by = Psql
  BY TxsFacts, FileFacts DEF Init, Doc
<1>2. \A t \in Txs : stage[t] = "idle"
  BY DEF Init
<1>3. TypeOK
  <2>1. fn \in Refreshing /\ file \in Files \cup {0} /\ content \subseteq Edits /\ overlap \subseteq Txs
    BY FileFacts DEF Init
  <2>2. snap \in Doc /\ cached \in Doc /\ shown \in Doc
    BY <1>1 DEF Init
  <2>3. stage \in [Txs -> {"idle", "open", "built", "written", "ended"}]
        /\ doc \in [Txs -> Doc \cup {NoDoc}] /\ kind \in [Edits -> Kinds]
    BY DEF Init
  <2>4. runs \in 0 .. MaxRuns
    BY KindsExist DEF Init
  <2>5. exit \in {"none", "ok", "failed"} /\ age \in {"fresh", "stale", "expired"}
        /\ raced \in BOOLEAN
    BY DEF Init
  <2> QED BY <2>1, <2>2, <2>3, <2>4, <2>5 DEF TypeOK
<1>4. DocsSound /\ PsqlSound /\ UnracedIsCurrent /\ ItemsKeptOut
  BY <1>2, TxsFacts DEF DocsSound, PsqlSound, UnracedIsCurrent, ItemsKeptOut, Active
<1>5. SuccessInstallsNewest /\ OutdatedOnlyByOverlap /\ ItemEditsAreCurrent
  BY <1>1, TxsFacts DEF Init, SuccessInstallsNewest, OutdatedOnlyByOverlap, ItemEditsAreCurrent
<1> QED BY <1>3, <1>4, <1>5 DEF IInv

\* What a step of the customer, or none, leaves alone.
LEMMA ReaderKeeps ==
  ASSUME IInv, UNCHANGED <<fn, content, snap, file, stage, kind, doc, exit, runs, overlap, raced>>,
         cached' \in Doc, shown' \in Doc, age' \in {"fresh", "stale", "expired"}
  PROVE  IInv'
<1>1. TypeOK'
  BY DEF IInv, TypeOK
<1>2. DocsSound' /\ PsqlSound' /\ UnracedIsCurrent' /\ ItemsKeptOut'
  BY DEF IInv, DocsSound, PsqlSound, UnracedIsCurrent, ItemsKeptOut, Active
<1>3. SuccessInstallsNewest' /\ OutdatedOnlyByOverlap' /\ ItemEditsAreCurrent'
  BY DEF IInv, SuccessInstallsNewest, OutdatedOnlyByOverlap, ItemEditsAreCurrent
<1> QED BY <1>1, <1>2, <1>3 DEF IInv

\* A transaction begins or gets the snapshot row.
LEMMA MoveKeeps ==
  ASSUME IInv, NEW t \in Txs, NEW s \in {"open", "written"}, Moves(t, s),
         UNCHANGED <<fn, content, snap, file, kind, doc, exit, runs, reader, overlap, raced>>,
         s = "written" => stage[t] = "built",
         s = "open" /\ t = Psql =>
           file # 0 /\ \A e \in Edits : Active(e) => kind[e] \notin Blocks(file),
         s = "open" /\ t # Psql => ~KeptOut(t)
  PROVE  IInv'
<1>0. /\ stage' = [stage EXCEPT ![t] = s] /\ stage \in [Txs -> Ended]
      /\ fn' = fn /\ content' = content /\ snap' = snap /\ file' = file /\ kind' = kind
      /\ doc' = doc /\ exit' = exit /\ runs' = runs /\ cached' = cached /\ age' = age
      /\ shown' = shown /\ overlap' = overlap /\ raced' = raced
  BY DEF Moves, reader, IInv, TypeOK, Ended
<1>1. stage'[t] = s /\ \A u \in Txs \ {t} : stage'[u] = stage[u]
  BY <1>0
<1>2. TypeOK'
  BY <1>0 DEF IInv, TypeOK, Ended
<1>3. DocsSound' /\ UnracedIsCurrent'
  BY <1>0, <1>1 DEF IInv, DocsSound, UnracedIsCurrent
<1>4. PsqlSound'
  BY <1>0, <1>1, TxsFacts DEF IInv, PsqlSound
<1>5. ItemsKeptOut'
  <2> SUFFICES ASSUME NEW e \in Edits, kind[e] = "items"
               PROVE  /\ Active(Psql)' /\ file \in Refreshing => ~Active(e)'
                      /\ stage'[e] \in {"built", "written"} => doc[e].format = fn
    BY <1>0 DEF ItemsKeptOut
  <2>1. /\ Active(Psql) /\ file \in Refreshing => ~Active(e)
        /\ stage[e] \in {"built", "written"} => doc[e].format = fn
    BY DEF IInv, ItemsKeptOut
  <2>2. stage'[e] \in {"built", "written"} => doc[e].format = fn
    BY <1>1, <2>1, TxsFacts
  <2>3. ASSUME Active(Psql)', file \in Refreshing PROVE ~Active(e)'
    <3>1. CASE s = "written"
      BY <1>1, <2>1, <2>3, <3>1, TxsFacts DEF Active
    <3>2. CASE s = "open" /\ t = Psql
      BY <1>1, <2>3, <3>2, TxsFacts, FileFacts DEF Active
    <3>3. CASE s = "open" /\ t # Psql
      BY <1>1, <2>1, <2>3, <3>3, TxsFacts, FileFacts DEF Active, KeptOut
    <3> QED BY <3>1, <3>2, <3>3
  <2> QED BY <2>2, <2>3
<1>6. SuccessInstallsNewest' /\ OutdatedOnlyByOverlap' /\ ItemEditsAreCurrent'
  BY <1>0 DEF IInv, SuccessInstallsNewest, OutdatedOnlyByOverlap, ItemEditsAreCurrent
<1> QED BY <1>2, <1>3, <1>4, <1>5, <1>6 DEF IInv

LEMMA BuildKeeps ==
  ASSUME IInv, NEW t \in Txs, Build(t)
  PROVE  IInv'
<1> DEFINE d == [format |-> Version(t), by |-> t,
                 shows |-> content \cup (IF t = Psql THEN {} ELSE {t})]
<1>0. /\ stage' = [stage EXCEPT ![t] = "built"] /\ stage[t] = "open"
      /\ doc' = [doc EXCEPT ![t] = d] /\ (t = Psql => file \in Refreshing)
      /\ fn' = fn /\ content' = content /\ snap' = snap /\ file' = file /\ kind' = kind
      /\ exit' = exit /\ runs' = runs /\ cached' = cached /\ age' = age
      /\ shown' = shown /\ overlap' = overlap /\ raced' = raced
  BY DEF Build, Moves, reader
<1>1. stage \in [Txs -> Ended] /\ doc \in [Txs -> Doc \cup {NoDoc}] /\ fn \in Refreshing
      /\ content \subseteq Edits
  BY DEF IInv, TypeOK, Ended
<1>2. d \in Doc /\ d.by = t /\ d.format = Version(t)
      /\ d.shows = content \cup (IF t = Psql THEN {} ELSE {t})
  <2>1. Version(t) \in Files
    BY <1>0, <1>1, FileFacts DEF Version
  <2>2. content \cup (IF t = Psql THEN {} ELSE {t}) \in SUBSET Edits
    BY <1>1 DEF Txs, Psql
  <2> QED BY <2>1, <2>2 DEF Doc
<1> HIDE DEF d
<1>3. /\ stage'[t] = "built" /\ doc'[t] = d
      /\ \A u \in Txs \ {t} : stage'[u] = stage[u] /\ doc'[u] = doc[u]
  BY <1>0, <1>1
<1>4. TypeOK'
  BY <1>0, <1>1, <1>2 DEF IInv, TypeOK, Ended
<1>5. DocsSound'
  BY <1>2, <1>3 DEF IInv, DocsSound
<1>6. PsqlSound'
  <2>1. CASE t = Psql
    <3>1. file # 0
      BY <1>0, <2>1 DEF IInv, PsqlSound
    <3>2. d.format = file
      BY <1>2, <2>1 DEF Version
    <3> QED BY <1>0, <1>3, <2>1, <3>1, <3>2 DEF PsqlSound
  <2>2. CASE t # Psql
    BY <1>0, <1>3, <2>2, TxsFacts DEF IInv, PsqlSound
  <2> QED BY <2>1, <2>2
<1>7. UnracedIsCurrent'
  BY <1>0, <1>2, <1>3 DEF IInv, UnracedIsCurrent, Version
<1>8. ItemsKeptOut'
  <2>1. \A u \in Txs : Active(u)' <=> Active(u)
    BY <1>0, <1>3 DEF Active
  <2>2. t # Psql => d.format = fn
    BY <1>2 DEF Version
  <2> QED BY <1>0, <1>3, <2>1, <2>2, TxsFacts DEF IInv, ItemsKeptOut
<1>9. SuccessInstallsNewest' /\ OutdatedOnlyByOverlap' /\ ItemEditsAreCurrent'
  BY <1>0 DEF IInv, SuccessInstallsNewest, OutdatedOnlyByOverlap, ItemEditsAreCurrent
<1> QED BY <1>4, <1>5, <1>6, <1>7, <1>8, <1>9 DEF IInv

LEMMA CommitEditKeeps ==
  ASSUME IInv, NEW e \in Edits, CommitEdit(e)
  PROVE  IInv'
<1>0. /\ stage' = [stage EXCEPT ![e] = "ended"] /\ stage[e] = "written"
      /\ doc' = [doc EXCEPT ![e] = NoDoc] /\ content' = content \cup {e} /\ snap' = doc[e]
      /\ raced' = (e \in overlap) /\ overlap' = (overlap \cup {u \in Txs : Active(u)}) \ {e}
      /\ fn' = fn /\ file' = file /\ kind' = kind
      /\ exit' = exit /\ runs' = runs /\ cached' = cached /\ age' = age /\ shown' = shown
  BY DEF CommitEdit, Moves, Overlap, reader
<1>1. stage \in [Txs -> Ended] /\ doc \in [Txs -> Doc \cup {NoDoc}] /\ e \in Txs /\ e # Psql
      /\ overlap \subseteq Txs
  BY TxsFacts DEF IInv, TypeOK, Ended
<1>2. /\ stage'[e] = "ended"
      /\ \A u \in Txs \ {e} : stage'[u] = stage[u] /\ doc'[u] = doc[u]
  BY <1>0, <1>1
<1>3. doc[e] \in Doc /\ doc[e].by = e
  BY <1>0, <1>1 DEF IInv, DocsSound
<1>4. TypeOK'
  <2>1. overlap' \subseteq Txs /\ content' \subseteq Edits /\ raced' \in BOOLEAN
    BY <1>0, <1>1 DEF IInv, TypeOK
  <2>2. stage' \in [Txs -> Ended] /\ doc' \in [Txs -> Doc \cup {NoDoc}]
    BY <1>0, <1>1 DEF Ended
  <2> QED BY <1>0, <1>3, <2>1, <2>2 DEF IInv, TypeOK, Ended
<1>5. DocsSound' /\ PsqlSound'
  BY <1>0, <1>1, <1>2, TxsFacts DEF IInv, DocsSound, PsqlSound
<1>6. UnracedIsCurrent'
  BY <1>0, <1>2 DEF UnracedIsCurrent, Active
<1>7. ItemsKeptOut'
  <2>1. \A u \in Txs : Active(u)' => Active(u)
    BY <1>0, <1>2 DEF Active
  <2> QED BY <1>0, <1>2, <2>1, TxsFacts DEF IInv, ItemsKeptOut
<1>8. SuccessInstallsNewest'
  BY <1>0 DEF IInv, SuccessInstallsNewest
<1>9. OutdatedOnlyByOverlap'
  BY <1>0, <1>1 DEF IInv, UnracedIsCurrent, OutdatedOnlyByOverlap
<1>10. ItemEditsAreCurrent'
  BY <1>0, <1>3 DEF IInv, ItemsKeptOut, ItemEditsAreCurrent
<1> QED BY <1>4, <1>5, <1>6, <1>7, <1>8, <1>9, <1>10 DEF IInv

LEMMA RollbackEditKeeps ==
  ASSUME IInv, NEW e \in Edits, RollbackEdit(e)
  PROVE  IInv'
<1>0. /\ stage' = [stage EXCEPT ![e] = "ended"] /\ doc' = [doc EXCEPT ![e] = NoDoc]
      /\ overlap' = overlap \ {e}
      /\ fn' = fn /\ content' = content /\ snap' = snap /\ file' = file /\ kind' = kind
      /\ exit' = exit /\ runs' = runs /\ cached' = cached /\ age' = age
      /\ shown' = shown /\ raced' = raced
  BY DEF RollbackEdit, Moves, reader
<1>1. stage \in [Txs -> Ended] /\ doc \in [Txs -> Doc \cup {NoDoc}] /\ e \in Txs /\ e # Psql
  BY TxsFacts DEF IInv, TypeOK, Ended
<1>2. /\ stage'[e] = "ended"
      /\ \A u \in Txs \ {e} : stage'[u] = stage[u] /\ doc'[u] = doc[u]
  BY <1>0, <1>1
<1>3. TypeOK'
  <2>1. stage' \in [Txs -> Ended] /\ doc' \in [Txs -> Doc \cup {NoDoc}]
    BY <1>0, <1>1 DEF Ended
  <2> QED BY <1>0, <2>1 DEF IInv, TypeOK, Ended
<1>4. DocsSound' /\ PsqlSound' /\ UnracedIsCurrent'
  BY <1>0, <1>1, <1>2, TxsFacts DEF IInv, DocsSound, PsqlSound, UnracedIsCurrent
<1>5. ItemsKeptOut'
  <2>1. \A u \in Txs : Active(u)' => Active(u)
    BY <1>0, <1>2 DEF Active
  <2> QED BY <1>0, <1>2, <2>1, TxsFacts DEF IInv, ItemsKeptOut
<1>6. SuccessInstallsNewest' /\ OutdatedOnlyByOverlap' /\ ItemEditsAreCurrent'
  BY <1>0 DEF IInv, SuccessInstallsNewest, OutdatedOnlyByOverlap, ItemEditsAreCurrent
<1> QED BY <1>3, <1>4, <1>5, <1>6 DEF IInv

LEMMA MigrateKeeps ==
  ASSUME IInv, Migrate
  PROVE  IInv'
<1>0. /\ file = 0 /\ file' = 1 /\ runs < MaxRuns /\ runs' = runs + 1
      /\ fn' = fn /\ content' = content /\ snap' = snap /\ stage' = stage /\ kind' = kind
      /\ doc' = doc /\ exit' = exit /\ cached' = cached /\ age' = age
      /\ shown' = shown /\ overlap' = overlap /\ raced' = raced
  BY DEF Migrate, reader
<1>1. stage[Psql] = "idle"
  BY <1>0 DEF IInv, PsqlSound
<1>2. TypeOK'
  <2>1. runs' \in 0 .. MaxRuns /\ file' \in Files
    BY <1>0, KindsExist DEF IInv, TypeOK, Files
  <2> QED BY <1>0, <2>1 DEF IInv, TypeOK
<1>3. DocsSound' /\ PsqlSound' /\ UnracedIsCurrent' /\ ItemsKeptOut'
  BY <1>0, <1>1 DEF IInv, DocsSound, PsqlSound, UnracedIsCurrent, ItemsKeptOut, Active
<1>4. SuccessInstallsNewest' /\ OutdatedOnlyByOverlap' /\ ItemEditsAreCurrent'
  BY <1>0 DEF IInv, SuccessInstallsNewest, OutdatedOnlyByOverlap, ItemEditsAreCurrent
<1> QED BY <1>2, <1>3, <1>4 DEF IInv

LEMMA CommitFileKeeps ==
  ASSUME IInv, CommitFile
  PROVE  IInv'
<1>0. /\ stage[Psql] = IF file \in Refreshing THEN "written" ELSE "open"
      /\ fn' = IF file \in Refreshing THEN file ELSE fn
      /\ snap' = IF file \in Refreshing THEN doc[Psql] ELSE snap
      /\ raced' = IF file \in Refreshing THEN Psql \in overlap ELSE raced
      /\ doc' = [doc EXCEPT ![Psql] = NoDoc] /\ stage' = [stage EXCEPT ![Psql] = "idle"]
      /\ overlap' = (overlap \cup {u \in Txs : Active(u)}) \ {Psql}
      /\ file' = NextFile(file) /\ exit' = IF NextFile(file) = 0 THEN "ok" ELSE exit
      /\ content' = content /\ kind' = kind /\ runs' = runs
      /\ cached' = cached /\ age' = age /\ shown' = shown
  BY DEF CommitFile, Moves, Overlap, LoopOn, reader
<1>1. /\ stage \in [Txs -> Ended] /\ doc \in [Txs -> Doc \cup {NoDoc}]
      /\ overlap \subseteq Txs /\ file \in Files /\ fn \in Refreshing
  BY <1>0 DEF IInv, TypeOK, PsqlSound, Ended
<1>2. /\ stage'[Psql] = "idle" /\ \A e \in Edits : stage'[e] = stage[e] /\ doc'[e] = doc[e]
      /\ \A u \in Txs \ {Psql} : stage'[u] = stage[u] /\ doc'[u] = doc[u]
  BY <1>0, <1>1, TxsFacts
<1>3. file \in Refreshing =>
        doc[Psql] \in Doc /\ doc[Psql].by = Psql /\ doc[Psql].format = file
  BY <1>0, TxsFacts DEF IInv, DocsSound, PsqlSound
<1>4. TypeOK'
  <2>1. overlap' \subseteq Txs /\ fn' \in Refreshing /\ raced' \in BOOLEAN /\ snap' \in Doc
    <3>1. snap \in Doc /\ raced \in BOOLEAN
      BY DEF IInv, TypeOK
    <3>2. overlap' \subseteq Txs
      BY <1>0, <1>1
    <3>3. fn' \in Refreshing /\ snap' \in Doc
      BY <1>0, <1>1, <1>3, <3>1
    <3>4. (Psql \in overlap) \in BOOLEAN
      OBVIOUS
    <3>5. raced' = IF file \in Refreshing THEN Psql \in overlap ELSE raced
      BY <1>0
    <3>6. raced' \in BOOLEAN
      <4>1. CASE file \in Refreshing
        BY <3>4, <3>5, <4>1, Zenon
      <4>2. CASE file \notin Refreshing
        BY <3>1, <3>5, <4>2, Zenon
      <4> QED BY <4>1, <4>2
    <3> QED BY <3>2, <3>3, <3>6
  <2>2. stage' \in [Txs -> Ended] /\ doc' \in [Txs -> Doc \cup {NoDoc}]
    BY <1>0, <1>1 DEF Ended
  <2>3. file' \in Files \cup {0} /\ exit' \in {"none", "ok", "failed"}
    BY <1>0, <1>1, FileFacts DEF IInv, TypeOK
  <2> QED BY <1>0, <2>1, <2>2, <2>3 DEF IInv, TypeOK, Ended
<1>5. DocsSound' /\ PsqlSound'
  BY <1>0, <1>1, <1>2, TxsFacts DEF IInv, DocsSound, PsqlSound
<1>6. UnracedIsCurrent'
  BY <1>0, <1>2 DEF UnracedIsCurrent, Active
<1>7. ItemsKeptOut'
  <2> SUFFICES ASSUME NEW e \in Edits, kind[e] = "items"
               PROVE  /\ ~Active(Psql)'
                      /\ stage[e] \in {"built", "written"} => doc[e].format = fn'
    BY <1>0, <1>2 DEF ItemsKeptOut
  <2>1. ~Active(Psql)'
    BY <1>2 DEF Active
  <2>2. CASE file \in Refreshing
    BY <1>0, <2>1, <2>2 DEF IInv, ItemsKeptOut, Active
  <2>3. CASE file \notin Refreshing
    BY <1>0, <2>1, <2>3 DEF IInv, ItemsKeptOut
  <2> QED BY <2>2, <2>3
<1>8. SuccessInstallsNewest'
  BY <1>0, <1>1, FileFacts DEF SuccessInstallsNewest
<1>9. OutdatedOnlyByOverlap'
  BY <1>0, <1>3, TxsFacts DEF IInv, UnracedIsCurrent, OutdatedOnlyByOverlap
<1>10. ItemEditsAreCurrent'
  BY <1>0, <1>3, TxsFacts DEF IInv, ItemEditsAreCurrent
<1> QED BY <1>4, <1>5, <1>6, <1>7, <1>8, <1>9, <1>10 DEF IInv

LEMMA FailFileKeeps ==
  ASSUME IInv, FailFile
  PROVE  IInv'
<1>0. /\ doc' = [doc EXCEPT ![Psql] = NoDoc] /\ stage' = [stage EXCEPT ![Psql] = "idle"]
      /\ overlap' = overlap \ {Psql} /\ Active(Psql)
      /\ file' = NextFile(file) /\ exit' = IF NextFile(file) = 0 THEN "failed" ELSE exit
      /\ fn' = fn /\ snap' = snap /\ raced' = raced
      /\ content' = content /\ kind' = kind /\ runs' = runs
      /\ cached' = cached /\ age' = age /\ shown' = shown
  BY DEF FailFile, Moves, LoopOn, reader
<1>1. /\ stage \in [Txs -> Ended] /\ doc \in [Txs -> Doc \cup {NoDoc}]
      /\ overlap \subseteq Txs /\ file \in Files
  BY <1>0 DEF IInv, TypeOK, PsqlSound, Ended, Active
<1>2. /\ stage'[Psql] = "idle" /\ \A e \in Edits : stage'[e] = stage[e] /\ doc'[e] = doc[e]
      /\ \A u \in Txs \ {Psql} : stage'[u] = stage[u] /\ doc'[u] = doc[u]
  BY <1>0, <1>1, TxsFacts
<1>3. TypeOK'
  <2>1. stage' \in [Txs -> Ended] /\ doc' \in [Txs -> Doc \cup {NoDoc}]
    BY <1>0, <1>1 DEF Ended
  <2>2. file' \in Files \cup {0} /\ exit' \in {"none", "ok", "failed"} /\ overlap' \subseteq Txs
    BY <1>0, <1>1, FileFacts DEF IInv, TypeOK
  <2> QED BY <1>0, <2>1, <2>2 DEF IInv, TypeOK, Ended
<1>4. DocsSound' /\ PsqlSound' /\ UnracedIsCurrent'
  BY <1>0, <1>1, <1>2, TxsFacts DEF IInv, DocsSound, PsqlSound, UnracedIsCurrent
<1>5. ItemsKeptOut'
  BY <1>0, <1>2 DEF IInv, ItemsKeptOut, Active
<1>6. SuccessInstallsNewest' /\ OutdatedOnlyByOverlap' /\ ItemEditsAreCurrent'
  BY <1>0 DEF IInv, SuccessInstallsNewest, OutdatedOnlyByOverlap, ItemEditsAreCurrent
<1> QED BY <1>3, <1>4, <1>5, <1>6 DEF IInv

LEMMA NextKeeps ==
  ASSUME IInv, Next
  PROVE  IInv'
<1>1. ASSUME NEW t \in Txs, Step(t) PROVE IInv'
  BY <1>1, BuildKeeps, MoveKeeps DEF Step, Upsert
<1>2. ASSUME NEW e \in Edits, BeginEdit(e) PROVE IInv'
  BY <1>2, MoveKeeps, TxsFacts DEF BeginEdit
<1>3. CASE BeginFile
  BY <1>3, MoveKeeps, TxsFacts DEF BeginFile
<1>4. CASE Ages \/ Revalidate \/ Serve
  BY <1>4, ReaderKeeps DEF Ages, Revalidate, Serve, IInv, TypeOK
<1> QED BY <1>1, <1>2, <1>3, <1>4, CommitEditKeeps, RollbackEditKeeps, MigrateKeeps,
           CommitFileKeeps, FailFileKeeps DEF Next

LEMMA StutterKeeps ==
  ASSUME IInv, UNCHANGED vars
  PROVE  IInv'
BY ReaderKeeps DEF vars, IInv, TypeOK

THEOREM Invariance == Spec => []IInv
<1>1. IInv /\ [Next]_vars => IInv'
  BY NextKeeps, StutterKeeps
<1> QED BY <1>1, InitHolds, PTL DEF Spec

(* TypeOK: every variable keeps its type. *)
THEOREM TypeCorrect == Spec => []TypeOK
<1>1. IInv => TypeOK
  BY DEF IInv
<1> QED BY <1>1, Invariance, PTL

(* SuccessInstallsNewest: a run of make migrate that reports success leaves
   the newest refresh installed, whatever failed on the way. *)
THEOREM SuccessIsNewest == Spec => []SuccessInstallsNewest
<1>1. IInv => SuccessInstallsNewest
  BY DEF IInv
<1> QED BY <1>1, Invariance, PTL

(* OutdatedOnlyByOverlap: a menu in an old format, or without an edit, was
   written by a transaction that another one overtook. *)
THEOREM OutdatedWasOvertaken == Spec => []OutdatedOnlyByOverlap
<1>1. IInv => OutdatedOnlyByOverlap
  BY DEF IInv
<1> QED BY <1>1, Invariance, PTL

(* ItemEditsAreCurrent: the locks of the files keep every edit of an item in
   the format of its time. *)
THEOREM ItemEditsCurrent == Spec => []ItemEditsAreCurrent
<1>1. IInv => ItemEditsAreCurrent
  BY DEF IInv
<1> QED BY <1>1, Invariance, PTL
=============================================================================
