-------------------------- MODULE HadoopLoadProofs -------------------------
(***************************************************************************)
(* Proofs about HadoopLoad, for any number of executions and of files, and *)
(* every combination of arguments: types; rows of metadata are kept, are   *)
(* there once and describe data; a success is over complete data; old data *)
(* go only for new ones.                                                   *)
(***************************************************************************)
EXTENDS HadoopLoad, SequenceTheorems, TLAPS

Entries == Seq(Attempts) \cup {NoFile}

Distinct(file) ==
    \A k, m \in DOMAIN Rows(file) : Rows(file)[k] = Rows(file)[m] => k = m

Described == loaded \cup changed

\* An execution is in its first job until that is done, and knows its paths.
Control ==
    /\ csv \in [Paths -> Entries] /\ staging \in [Attempts -> Entries]
    /\ load <= attempt
    /\ pc # "idle" => attempt \in Attempts /\ load \in Attempts
    /\ phase = "meta" => settings.query /\ settings.meta # "none"
    /\ pc \in {"cleanup", "clear"} => phase = "data"
    /\ pc = "cleanup" => ~settings.query
    /\ pc \in {"get", "put", "read", "delete", "rename", "tidy"} => phase = "meta"

\* A row is published at one path, and never published before it is described.
Catalogue ==
    /\ \A p \in Paths : \A a \in RowSet(csv[p]) : <<p, a>> \in published
    /\ \A r, q \in published : r[2] = q[2] => r[1] = q[1]
    /\ \A r \in published : r[2] \in Described /\ r[2] <= attempt

Unmerged == {"query", "cleanup", "clear", "write", "get", "put", "read"}
Unpublished == Unmerged \cup {"delete", "rename"}

\* Until an execution publishes its row, nobody has seen it.
Fresh ==
    /\ \A a \in Attempts : a > attempt => staging[a] = NoFile
    /\ pc \in Unmerged => staging[attempt] = NoFile
    /\ pc \in Unpublished => \A r \in published : r[2] # attempt

\* rows may take the place of the CSV of this execution.
Replaces(rows) ==
    /\ rows \in Seq(Attempts)
    /\ Distinct(rows)
    /\ RowSet(csv[CsvPath]) \subseteq RowSet(rows)
    /\ \A a \in RowSet(rows) : a = attempt \/ <<CsvPath, a>> \in published

\* What has been merged holds the whole CSV, and goes only when the CSV holds it.
Merged ==
    /\ pc = "put" => held = Rows(csv[CsvPath])
    /\ pc \in {"delete", "rename"} => Replaces(staging[attempt])
    /\ pc = "tidy" => RowSet(staging[attempt]) \subseteq RowSet(csv[CsvPath])

Own == [attempt : {attempt}, part : Parts]

\* The data of this execution, as soon as they are loaded, and the place where
\* they will be while they are not.
DataJob ==
    /\ \A a \in loaded : a <= attempt
    /\ phase = "data" /\ pc \in {"query", "cleanup", "clear", "write"} => attempt \notin loaded
    /\ phase = "data" /\ pc = "write" /\ settings.clear => dirs["data"][destination] = {}
    /\ phase = "data" /\ pc \in {"clear", "write"} /\ settings.query /\ attempt \notin changed
       => source = "rows"
    /\ attempt \in loaded /\ settings.mode # "ignore" =>
          /\ Own \subseteq dirs["data"][destination]
          /\ settings.mode # "append" \/ settings.clear => dirs["data"][destination] = Own

\* The second job writes only when the first one has found data, or the source
\* has changed since.
MetaJob ==
    /\ \A p \in Paths : \A f \in dirs["meta"][p] : f.attempt \in Described
    /\ phase = "meta" /\ pc \in {"query", "write", "get", "put", "read", "delete", "rename"} =>
          attempt \in Described \/ (pc = "query" /\ source = "empty")

IInv ==
    /\ TypeOK /\ Control
    /\ Catalogue /\ Fresh /\ Merged
    /\ RowsRecoverable /\ OneRowPerAttempt
    /\ DataJob /\ MetaJob

-----------------------------------------------------------------------------
(* Sequences of rows.                                                      *)

LEMMA RowsOf ==
    ASSUME NEW f \in Entries
    PROVE  Rows(f) \in Seq(Attempts) /\ RowSet(f) \subseteq Attempts
<1>1. Rows(f) \in Seq(Attempts)
  BY DEF Entries, Rows
<1> QED BY <1>1 DEF RowSet

LEMMA RowsOfSeq ==
    ASSUME NEW s \in Seq(Attempts)
    PROVE  s \in Entries /\ Rows(s) = s
BY FileAssumption DEF Entries, Rows

LEMMA RowsOfNone == Rows(NoFile) = <<>> /\ RowSet(NoFile) = {} /\ NoFile \in Entries
BY DEF Rows, RowSet, Entries

LEMMA AppendOne ==
    ASSUME NEW f \in Entries, NEW a \in Attempts, a \notin RowSet(f), Distinct(f)
    PROVE  LET t == Append(Rows(f), a)
           IN  /\ t \in Seq(Attempts) /\ Distinct(t)
               /\ RowSet(t) = RowSet(f) \cup {a}
<1> DEFINE s == Rows(f)
           t == Append(s, a)
<1>1. s \in Seq(Attempts)
  BY RowsOf
<1>2. /\ t \in Seq(Attempts) /\ DOMAIN t = 1 .. Len(s) + 1 /\ DOMAIN s = 1 .. Len(s)
      /\ \A k \in 1 .. Len(s) : t[k] = s[k]
      /\ t[Len(s) + 1] = a /\ Len(s) \in Nat
  BY <1>1, AppendProperties
<1>3. Rows(t) = t
  BY <1>2, RowsOfSeq
<1> HIDE DEF s, t
<1>4. RowSet(t) = RowSet(f) \cup {a}
  BY <1>2, <1>3 DEF RowSet, s
<1>5. Distinct(t)
  <2>1. \A k \in 1 .. Len(s) : s[k] # a
    BY <1>2 DEF RowSet, s
  <2> QED BY <1>2, <1>3, <2>1 DEF Distinct, s
<1> QED BY <1>2, <1>4, <1>5 DEF s, t

LEMMA PathTypes ==
    ASSUME TypeOK, Control, pc # "idle"
    PROVE  destination \in Paths /\ CsvPath \in Paths
BY DEF Control, destination, CsvPath, Paths, LoadPaths

LEMMA SamePath ==
    ASSUME UNCHANGED <<settings, load, attempt>>
    PROVE  destination' = destination /\ CsvPath' = CsvPath
BY DEF destination, CsvPath

LEMMA OutputType ==
    ASSUME TypeOK, attempt \in Attempts
    PROVE  /\ Output \subseteq File
           /\ \A f \in Output : f.attempt = attempt
           /\ phase = "data" => Output = Own
BY PartsAssumption DEF Output, File, Own

LEMMA InitInv == Init => IInv
<1> SUFFICES ASSUME Init PROVE IInv
  OBVIOUS
<1>1. \A p \in Paths : csv[p] = NoFile
  BY DEF Init
<1>2. \A a \in Attempts : staging[a] = NoFile
  BY DEF Init
<1>3. TypeOK
  BY <1>1, <1>2, RowsOfNone, AttemptsAssumption DEF Init, TypeOK
<1>4. Control
  BY RowsOfNone DEF Init, Control
<1>5. Catalogue /\ Fresh /\ Merged /\ RowsRecoverable
  BY <1>1, <1>2, RowsOfNone
  DEF Init, Catalogue, Fresh, Merged, RowsRecoverable, Unmerged, Unpublished
<1>6. OneRowPerAttempt
  BY <1>1, RowsOfNone DEF OneRowPerAttempt
<1>7. DataJob /\ MetaJob
  BY DEF Init, DataJob, MetaJob
<1> QED BY <1>3, <1>4, <1>5, <1>6, <1>7 DEF IInv

-----------------------------------------------------------------------------
(* What the invariant is for.                                              *)

LEMMA InvGives ==
    ASSUME IInv
    PROVE  MetadataIntact /\ SuccessIsComplete
<1>1. MetadataHasData
  BY DEF IInv, Catalogue, MetaJob, MetadataHasData, Described
<1>2. SuccessIsComplete
  BY DEF IInv, DataJob, SuccessIsComplete, Own
<1> QED BY <1>1, <1>2 DEF IInv, MetadataIntact

-----------------------------------------------------------------------------
(* The metadata while no CSV is written.                                   *)

LEMMA LogUntouched ==
    ASSUME IInv, UNCHANGED <<settings, load, attempt, csv, staging, published>>,
           Described \subseteq Described',
           pc' \notin {"put", "delete", "rename", "tidy"},
           pc' \in Unmerged => pc \in Unmerged
    PROVE  Catalogue' /\ Fresh' /\ Merged' /\ RowsRecoverable' /\ OneRowPerAttempt'
<1>1. Catalogue'
  BY DEF IInv, Catalogue
<1>2. Fresh'
  BY DEF IInv, Fresh, Unpublished
<1>3. Merged'
  BY DEF Merged
<1>4. RowsRecoverable' /\ OneRowPerAttempt'
  BY DEF IInv, RowsRecoverable, OneRowPerAttempt, RowSet, Rows
<1> QED BY <1>1, <1>2, <1>3, <1>4

\* A step of the second job that leaves files and source alone.
LEMMA FilesUntouched ==
    ASSUME IInv, UNCHANGED <<settings, source, load, attempt, phase, changed, dirs, loaded>>,
           phase = "meta",
           pc' \in {"get", "put", "read", "delete", "rename"} =>
              pc \in {"get", "put", "read", "delete", "rename"},
           pc' \notin {"query", "write"}
    PROVE  DataJob' /\ MetaJob'
<1>1. destination' = destination
  BY SamePath
<1>2. DataJob'
  BY <1>1 DEF IInv, DataJob, Own
<1>3. MetaJob'
  BY DEF IInv, MetaJob, Described
<1> QED BY <1>2, <1>3

\* A CSV that replaces the old one brings one new row.
LEMMA Published ==
    ASSUME IInv, NEW rows, Replaces(rows), Publish(rows),
           attempt \in Attempts, CsvPath \in Paths, attempt \in Described,
           \A r \in published : r[2] # attempt,
           UNCHANGED <<settings, load, attempt, staging, loaded, changed>>
    PROVE  /\ Catalogue' /\ RowsRecoverable' /\ OneRowPerAttempt'
           /\ csv'[CsvPath] = rows
           /\ csv' \in [Paths -> Entries]
           /\ published' \subseteq Paths \X Attempts
<1> DEFINE P == CsvPath
<1>1. /\ rows \in Entries /\ Rows(rows) = rows
      /\ RowSet(rows) = {rows[k] : k \in DOMAIN rows}
      /\ RowSet(rows) \subseteq Attempts
  BY RowsOf, RowsOfSeq DEF Replaces, RowSet
<1>2. csv \in [Paths -> Entries]
  BY DEF IInv, Control
<1>3. /\ csv' = [csv EXCEPT ![P] = rows]
      /\ csv'[P] = rows
      /\ \A p \in Paths \ {P} : csv'[p] = csv[p]
      /\ csv' \in [Paths -> Entries]
  BY <1>1, <1>2 DEF Publish
<1>4. published' = published \cup {<<P, a>> : a \in RowSet(rows)}
  BY <1>1 DEF Publish
<1>5. P' = P
  BY SamePath
<1>6. Described' = Described
  BY DEF Described
<1> HIDE DEF P
<1>7. \A p \in Paths : RowSet(csv'[p]) = IF p = P THEN RowSet(rows) ELSE RowSet(csv[p])
  BY <1>3
<1>8. published \subseteq Paths \X Attempts
  BY DEF IInv, TypeOK
<1>9. \A a \in RowSet(rows) : a = attempt \/ <<P, a>> \in published
  BY DEF Replaces, P
<1>10. Catalogue'
  <2>1. \A p \in Paths : \A a \in RowSet(csv'[p]) : <<p, a>> \in published'
    BY <1>4, <1>7 DEF IInv, Catalogue
  <2>2. \A r \in published' : r \in published \/ (r = <<P, attempt>> /\ attempt \in RowSet(rows))
    BY <1>4, <1>9
  <2>3. \A r, q \in published' : r[2] = q[2] => r[1] = q[1]
    BY <2>2 DEF IInv, Catalogue
  <2>4. \A r \in published' : r[2] \in Described' /\ r[2] <= attempt
    BY <2>2, <1>6 DEF IInv, Catalogue, Attempts
  <2>5. attempt' = attempt
    OBVIOUS
  <2>6. \A p \in Paths : \A a \in RowSet(csv[p])' : <<p, a>> \in published'
    BY <2>1 DEF RowSet, Rows
  <2> QED BY <2>3, <2>4, <2>5, <2>6 DEF Catalogue
<1>11. RowsRecoverable'
  <2> SUFFICES ASSUME NEW r \in published'
               PROVE  \/ r[2] \in RowSet(csv'[r[1]])
                      \/ \E a \in Attempts : r[2] \in RowSet(staging[a])
    BY DEF RowsRecoverable, RowSet, Rows
  <2>1. CASE r \in published
    <3>1. r[1] \in Paths
      BY <1>8, <2>1
    <3>2. RowSet(csv[P]) \subseteq RowSet(rows)
      BY DEF Replaces, P
    <3> QED BY <2>1, <3>1, <3>2, <1>7 DEF IInv, RowsRecoverable
  <2>2. CASE \E a \in RowSet(rows) : r = <<P, a>>
    BY <2>2, <1>3
  <2> QED BY <2>1, <2>2, <1>4
<1>12. OneRowPerAttempt'
  <2>1. \A p \in Paths : Distinct(csv'[p])
    BY <1>3 DEF IInv, OneRowPerAttempt, Distinct, Replaces
  <2> QED BY <2>1 DEF OneRowPerAttempt, Distinct, Rows
<1>13. published' \subseteq Paths \X Attempts
  BY <1>1, <1>4, <1>8 DEF P
<1> QED BY <1>3, <1>10, <1>11, <1>12, <1>13 DEF P

-----------------------------------------------------------------------------
(* Airflow, and the first job.                                             *)

LEMMA ExecuteInv == ASSUME IInv, NEW retry \in BOOLEAN, Execute(retry) PROVE IInv'
<1> USE DEF IInv
<1>1. /\ attempt' = attempt + 1 /\ attempt' \in Attempts
      /\ load' \in Attempts /\ load' <= attempt'
      /\ phase' = "data" /\ pc' = (IF settings.query THEN "query" ELSE "cleanup")
      /\ UNCHANGED <<settings, source, dirs, csv, staging, held, published, loaded, changed>>
  <2>1. attempt \in Nat /\ attempt < MaxAttempts /\ load \in Nat /\ load <= attempt
    BY AttemptsAssumption DEF Execute, TypeOK, Control
  <2>2. attempt' = attempt + 1 /\ attempt' \in Attempts
    BY <2>1, AttemptsAssumption DEF Execute, Attempts
  <2>3. load' \in Attempts /\ load' <= attempt'
    <3>1. CASE retry
      BY <2>1, <2>2, <3>1 DEF Execute, Control
    <3>2. CASE ~retry
      BY <2>1, <2>2, <3>2, AttemptsAssumption DEF Execute, Attempts
    <3> QED BY <3>1, <3>2
  <2> QED BY <2>2, <2>3 DEF Execute, access
<1>2. TypeOK'
  BY <1>1 DEF TypeOK, Attempts, Rows
<1>3. Control'
  BY <1>1 DEF Control
<1>4. Catalogue' /\ RowsRecoverable' /\ OneRowPerAttempt'
  <2>1. \A r \in published : r[2] <= attempt + 1
    BY DEF Catalogue, TypeOK, Attempts
  <2> QED BY <1>1, <2>1 DEF Catalogue, RowsRecoverable, OneRowPerAttempt, RowSet, Rows, Described
<1>5. Fresh'
  <2>1. \A r \in published : r[2] # attempt + 1
    BY DEF Catalogue, TypeOK, Attempts
  <2>2. \A a \in Attempts : a > attempt + 1 => a > attempt
    BY DEF Attempts, TypeOK
  <2>3. staging[attempt + 1] = NoFile
    BY <1>1 DEF Fresh, TypeOK, Attempts
  <2> QED BY <1>1, <2>1, <2>2, <2>3 DEF Fresh
<1>6. Merged'
  BY <1>1 DEF Merged
<1>7. DataJob'
  <2>1. \A a \in loaded : a <= attempt + 1 /\ a # attempt + 1
    BY DEF DataJob, TypeOK, Attempts
  <2> QED BY <1>1, <2>1 DEF DataJob
<1>8. MetaJob'
  BY <1>1 DEF MetaJob, Described
<1> QED BY <1>2, <1>3, <1>4, <1>5, <1>6, <1>7, <1>8

LEMMA DieInv == ASSUME IInv, Die PROVE IInv'
<1> USE DEF IInv
<1>1. /\ UNCHANGED <<settings, source, load, attempt, phase, changed, dirs, csv, staging,
                     held, published, loaded>>
      /\ pc' = "failed" /\ pc # "idle"
  BY DEF Die, Raise, Goto, access, Running
<1>2. TypeOK' /\ Control'
  BY <1>1 DEF TypeOK, Control, Rows
<1>3. Catalogue' /\ Fresh' /\ Merged' /\ RowsRecoverable' /\ OneRowPerAttempt'
  BY <1>1, LogUntouched DEF Described, Unmerged
<1>4. DataJob' /\ MetaJob'
  BY <1>1, SamePath DEF DataJob, MetaJob, Described, Own
<1> QED BY <1>2, <1>3, <1>4

LEMMA SourceChangesInv == ASSUME IInv, SourceChanges PROVE IInv'
<1> USE DEF IInv
<1>1. /\ UNCHANGED <<settings, load, attempt, phase, pc, dirs, csv, staging,
                     held, published, loaded>>
      /\ source' \in {"empty", "rows"}
      /\ changed \subseteq changed' /\ (Running => attempt \in changed')
      /\ changed' \subseteq changed \cup {attempt} /\ (~Running => changed' = changed)
  BY DEF SourceChanges, access
<1>2. TypeOK' /\ Control'
  BY <1>1 DEF TypeOK, Control, Rows, Running
<1>3. CsvPath' = CsvPath /\ destination' = destination
  BY <1>1, SamePath
<1>4. Catalogue' /\ Fresh' /\ RowsRecoverable' /\ OneRowPerAttempt'
  BY <1>1 DEF Catalogue, Fresh, RowsRecoverable, OneRowPerAttempt, RowSet, Rows, Described
<1>5. Merged'
  <2>1. Replaces(staging[attempt])' <=> Replaces(staging[attempt])
    BY <1>1, <1>3 DEF Replaces, Distinct, RowSet, Rows
  <2>2. /\ Rows(csv[CsvPath])' = Rows(csv[CsvPath])
        /\ RowSet(csv[CsvPath])' = RowSet(csv[CsvPath])
        /\ RowSet(staging[attempt])' = RowSet(staging[attempt])
    BY <1>1, <1>3 DEF RowSet, Rows
  <2> QED BY <1>1, <2>1, <2>2 DEF Merged
<1>6. DataJob'
  BY <1>1, <1>3 DEF DataJob, Own, Running
<1>7. MetaJob'
  BY <1>1 DEF MetaJob, Described, Running
<1> QED BY <1>2, <1>4, <1>5, <1>6, <1>7

LEMMA CleanupInv == ASSUME IInv, Cleanup PROVE IInv'
<1> USE DEF IInv
<1>1. /\ UNCHANGED <<settings, source, load, attempt, phase, changed, dirs, csv, staging,
                     held, published, loaded>>
      /\ pc = "cleanup" /\ pc' \in {"clear", "failed"}
  BY DEF Cleanup, Goto, access
<1>2. TypeOK' /\ Control'
  BY <1>1 DEF TypeOK, Control, Rows
<1>3. Catalogue' /\ Fresh' /\ Merged' /\ RowsRecoverable' /\ OneRowPerAttempt'
  BY <1>1, LogUntouched DEF Described, Unmerged
<1>4. DataJob' /\ MetaJob'
  BY <1>1, SamePath DEF DataJob, MetaJob, Described, Own, Control
<1> QED BY <1>2, <1>3, <1>4

LEMMA QueryInv == ASSUME IInv, Query PROVE IInv'
<1> USE DEF IInv
<1>1. /\ UNCHANGED <<settings, source, load, attempt, changed, dirs, csv, staging,
                     held, published, loaded>>
      /\ pc = "query"
      /\ \/ pc' \in {"failed", "count"} /\ phase' = phase
         \/ /\ source = "empty" /\ phase' = "meta" /\ pc' = "query"
            /\ settings.query /\ settings.meta # "none"
         \/ /\ source = "rows" /\ phase = "meta" /\ phase' = phase
            /\ pc' \in {"write", "read", "get"}
         \/ /\ source = "rows" /\ phase = "data" /\ phase' = phase
            /\ pc' = IF settings.clear THEN "clear" ELSE "write"
  <2>1. CASE Raise
    BY <2>1 DEF Query, Raise, Goto, access
  <2>2. CASE source = "empty" /\ PhaseDone
    BY <2>2 DEF Query, PhaseDone, Goto, access
  <2>3. CASE /\ source = "rows"
             /\ Goto(IF phase = "meta" THEN MetadataStep
                     ELSE IF settings.clear THEN "clear" ELSE "write")
    <3>1. phase = "meta" => MetadataStep \in {"write", "read", "get"}
      <4>1. settings.meta \in {"none", "parquet", "csv", "boto"}
        BY SettingsAssumption DEF TypeOK
      <4> QED BY <4>1 DEF MetadataStep, Control
    <3> QED BY <2>3, <3>1 DEF Query, Goto, access, TypeOK
  <2> QED BY <2>1, <2>2, <2>3 DEF Query
<1>2. TypeOK'
  BY <1>1 DEF TypeOK, Rows
<1>3. Control'
  BY <1>1 DEF Control
<1>4. Catalogue' /\ Fresh' /\ Merged' /\ RowsRecoverable' /\ OneRowPerAttempt'
  BY <1>1, LogUntouched DEF Described, Unmerged
<1>5. destination' = destination
  BY <1>1, SamePath
<1>6. DataJob'
  BY <1>1, <1>5 DEF DataJob, Own
<1>7. MetaJob'
  BY <1>1 DEF MetaJob, Described
<1> QED BY <1>2, <1>3, <1>4, <1>6, <1>7

\* What PhaseDone comes to, for the steps that end in it.
LEMMA AfterPhase ==
    ASSUME IInv, PhaseDone
    PROVE  /\ UNCHANGED <<settings, source, load, attempt, changed>>
           /\ \/ pc' = "count" /\ phase' = phase
              \/ /\ phase = "data" /\ phase' = "meta" /\ pc' = "query"
                 /\ settings.query /\ settings.meta # "none"
BY DEF PhaseDone, Goto

LEMMA ClearInv == ASSUME IInv, Clear PROVE IInv'
<1> USE DEF IInv
<1>1. pc = "clear" /\ phase = "data" /\ attempt \in Attempts /\ destination \in Paths
  BY PathTypes DEF Clear, Control
<1>2. PICK rest \in SUBSET dirs["data"][destination] :
        /\ dirs' = [dirs EXCEPT !["data"][destination] = rest]
        /\ UNCHANGED <<settings, source, load, attempt, phase, changed,
                       csv, staging, held, published, loaded>>
        /\ \/ pc' \in {"failed", "count"}
           \/ pc' = "write" /\ rest = {}
  <2>1. CASE /\ dirs' = [dirs EXCEPT !["data"][destination] = {}]
             /\ IF settings.query THEN Goto("write") ELSE PhaseDone
    <3>1. CASE settings.query
      BY <2>1, <3>1 DEF Clear, Goto
    <3>2. CASE ~settings.query
      <4>1. PhaseDone
        BY <2>1, <3>2, Zenon
      <4>2. /\ UNCHANGED <<settings, source, load, attempt, phase, changed>>
            /\ pc' = "count"
        BY <3>2, <4>1, Zenon DEF PhaseDone, Goto
      <4>3. /\ dirs' = [dirs EXCEPT !["data"][destination] = {}]
            /\ UNCHANGED <<csv, staging, held, published, loaded>>
        BY <2>1, Zenon DEF Clear
      <4>4. {} \in SUBSET dirs["data"][destination]
        OBVIOUS
      <4> QED BY <4>2, <4>3, <4>4, Zenon
    <3> QED BY <3>1, <3>2
  <2>2. CASE \E rest \in SUBSET dirs["data"][destination] :
               dirs' = [dirs EXCEPT !["data"][destination] = rest] /\ Raise
    BY <2>2 DEF Clear, Raise, Goto
  <2> QED BY <2>1, <2>2 DEF Clear
<1>3. /\ dirs' \in [{"data", "meta"} -> [Paths -> SUBSET File]]
      /\ dirs'["meta"] = dirs["meta"]
      /\ dirs'["data"][destination] = rest
  BY <1>1, <1>2 DEF TypeOK
<1>4. TypeOK'
  BY <1>2, <1>3 DEF TypeOK, Rows
<1>5. Control'
  BY <1>1, <1>2 DEF Control
<1>6. Catalogue' /\ Fresh' /\ Merged' /\ RowsRecoverable' /\ OneRowPerAttempt'
  BY <1>1, <1>2, LogUntouched DEF Described, Unmerged
<1>7. destination' = destination
  BY <1>2, SamePath
<1>8. DataJob'
  BY <1>1, <1>2, <1>3, <1>7 DEF DataJob
<1>9. MetaJob'
  BY <1>1, <1>2, <1>3 DEF MetaJob, Described
<1> QED BY <1>4, <1>5, <1>6, <1>8, <1>9

\* A write, of either job, that ends it or raises; only a whole one ends it,
\* or one that mode=ignore leaves out.
LEMMA WriteGives ==
    ASSUME IInv, Write
    PROVE  /\ UNCHANGED <<settings, source, load, attempt, changed, csv, staging, held, published>>
           /\ pc = "write"
           /\ \E new \in SUBSET File :
                /\ dirs' = [dirs EXCEPT ![phase][destination] = new]
                /\ \A f \in new : f \in dirs[phase][destination] \/ f.attempt = attempt
                /\ \/ pc' = "failed" /\ phase' = phase /\ loaded' = loaded
                   \/ /\ loaded' = IF phase = "data" THEN loaded \cup {attempt} ELSE loaded
                      /\ PhaseDone
                      /\ \/ settings.mode = "ignore"
                         \/ /\ new = Kept(dirs[phase][destination]) \cup Output
                            /\ settings.mode = "error" => dirs[phase][destination] = {}
<1> DEFINE old == dirs[phase][destination]
<1>1. /\ pc = "write" /\ attempt \in Attempts /\ destination \in Paths
      /\ UNCHANGED <<csv, staging, held, published>>
  BY PathTypes DEF Write, IInv, Control
<1>2. /\ old \in SUBSET File /\ Kept(old) \subseteq old
      /\ dirs = [dirs EXCEPT ![phase][destination] = old]
      /\ Output \subseteq File /\ \A f \in Output : f.attempt = attempt
  BY <1>1, OutputType DEF IInv, TypeOK, Kept
<1>3. UNCHANGED <<settings, source, load, attempt, changed>>
  BY AfterPhase DEF Write, Raise, Goto
<1> HIDE DEF old
<1>4. CASE Raise /\ UNCHANGED <<dirs, loaded>>
  <2>1. pc' = "failed" /\ phase' = phase
    BY <1>4 DEF Raise, Goto
  <2> QED BY <1>1, <1>2, <1>3, <1>4, <2>1 DEF old
<1>5. CASE /\ settings.mode = "ignore" /\ PhaseDone /\ UNCHANGED dirs
           /\ loaded' = IF phase = "data" THEN loaded \cup {attempt} ELSE loaded
  BY <1>1, <1>2, <1>3, <1>5 DEF old
<1>6. CASE /\ settings.mode \in {"error", "ignore"} => old = {}
           /\ dirs' = [dirs EXCEPT ![phase][destination] = Kept(old) \cup Output]
           /\ loaded' = IF phase = "data" THEN loaded \cup {attempt} ELSE loaded
           /\ PhaseDone
  <2> DEFINE new == Kept(old) \cup Output
  <2>1. new \in SUBSET File /\ \A f \in new : f \in old \/ f.attempt = attempt
    BY <1>2
  <2>2. settings.mode = "error" => old = {}
    BY <1>6
  <2> QED BY <1>1, <1>3, <1>6, <2>1, <2>2 DEF old
<1>7. CASE \E some \in SUBSET Output :
             /\ dirs' = [dirs EXCEPT ![phase][destination] = Kept(old) \cup some]
             /\ Raise /\ UNCHANGED loaded
  <2>1. PICK some \in SUBSET Output :
             /\ dirs' = [dirs EXCEPT ![phase][destination] = Kept(old) \cup some]
             /\ Raise /\ UNCHANGED loaded
    BY <1>7
  <2> DEFINE new == Kept(old) \cup some
  <2>2. new \in SUBSET File /\ \A f \in new : f \in old \/ f.attempt = attempt
    BY <1>2
  <2>3. pc' = "failed" /\ phase' = phase
    BY <2>1 DEF Raise, Goto
  <2> QED BY <1>1, <1>3, <2>1, <2>2, <2>3 DEF old
<1> QED BY <1>4, <1>5, <1>6, <1>7 DEF Write, old

LEMMA WriteInv == ASSUME IInv, Write PROVE IInv'
<1> USE DEF IInv
<1>1. /\ UNCHANGED <<settings, source, load, attempt, changed, csv, staging, held, published>>
      /\ pc = "write" /\ attempt \in Attempts /\ destination \in Paths
      /\ phase \in {"data", "meta"}
  BY WriteGives, PathTypes DEF Control, TypeOK
<1>2. PICK new \in SUBSET File :
        /\ dirs' = [dirs EXCEPT ![phase][destination] = new]
        /\ \A f \in new : f \in dirs[phase][destination] \/ f.attempt = attempt
        /\ \/ pc' = "failed" /\ phase' = phase /\ loaded' = loaded
           \/ /\ loaded' = IF phase = "data" THEN loaded \cup {attempt} ELSE loaded
              /\ PhaseDone
              /\ \/ settings.mode = "ignore"
                 \/ /\ new = Kept(dirs[phase][destination]) \cup Output
                    /\ settings.mode = "error" => dirs[phase][destination] = {}
  BY WriteGives
<1>3. /\ dirs' \in [{"data", "meta"} -> [Paths -> SUBSET File]]
      /\ dirs'[phase][destination] = new
      /\ \A p \in Paths \ {destination} : dirs'[phase][p] = dirs[phase][p]
      /\ \A kind \in {"data", "meta"} \ {phase} : dirs'[kind] = dirs[kind]
  BY <1>1, <1>2 DEF TypeOK
<1>4. /\ loaded \subseteq loaded' /\ loaded' \subseteq loaded \cup {attempt}
      /\ phase = "meta" => loaded' = loaded
  BY <1>2
<1>5. \/ pc' \in {"failed", "count"} /\ phase' = phase
      \/ /\ phase = "data" /\ phase' = "meta" /\ pc' = "query"
         /\ settings.query /\ settings.meta # "none" /\ attempt \in loaded'
  <2>1. CASE pc' = "failed" /\ phase' = phase
    BY <2>1
  <2>2. CASE /\ loaded' = IF phase = "data" THEN loaded \cup {attempt} ELSE loaded
             /\ PhaseDone
    BY <2>2, AfterPhase
  <2> QED BY <1>2, <2>1, <2>2
<1>6. TypeOK'
  BY <1>1, <1>3, <1>4, <1>5 DEF TypeOK, Rows
<1>7. Control'
  BY <1>1, <1>5 DEF Control
<1>8. Catalogue' /\ Fresh' /\ Merged' /\ RowsRecoverable' /\ OneRowPerAttempt'
  <2>1. Described \subseteq Described'
    BY <1>1, <1>4 DEF Described
  <2> QED BY <1>1, <1>5, <2>1, LogUntouched DEF Unmerged
<1>9. destination' = destination
  BY <1>1, SamePath
<1>10. attempt \in loaded' /\ settings.mode # "ignore" =>
          /\ Own \subseteq dirs'["data"][destination]
          /\ settings.mode # "append" \/ settings.clear => dirs'["data"][destination] = Own
  <2>1. CASE phase = "meta"
    BY <1>3, <1>4, <2>1 DEF DataJob
  <2>2. CASE phase = "data" /\ attempt \in loaded' /\ settings.mode # "ignore"
    <3>1. attempt \notin loaded
      BY <1>1, <2>2 DEF DataJob
    <3>2. /\ new = Kept(dirs["data"][destination]) \cup Own
          /\ settings.mode = "error" => dirs["data"][destination] = {}
      BY <1>1, <1>2, <2>2, <3>1, OutputType
    <3>3. settings.mode \in Modes
      BY SettingsAssumption DEF TypeOK
    <3>4. settings.mode # "append" \/ settings.clear => Kept(dirs["data"][destination]) = {}
      BY <1>1, <2>2, <3>2, <3>3 DEF Kept, Modes, DataJob
    <3> QED BY <1>3, <2>2, <3>2, <3>4
  <2> QED BY <1>1, <2>1, <2>2
<1>11. \A a \in loaded' : a <= attempt
  BY <1>1, <1>4 DEF DataJob, Attempts
<1>12. DataJob'
  <2>1. Own' = Own
    BY <1>1 DEF Own
  <2> QED BY <1>1, <1>5, <1>9, <1>10, <1>11, <2>1 DEF DataJob
<1>13. MetaJob'
  <2>1. \A p \in Paths : \A f \in dirs'["meta"][p] : f.attempt \in loaded' \cup changed
    <3>1. CASE phase = "data"
      BY <1>3, <1>4, <3>1 DEF MetaJob, Described
    <3>2. CASE phase = "meta"
      BY <1>1, <1>2, <1>3, <1>4, <3>2 DEF MetaJob, Described
    <3> QED BY <1>1, <3>1, <3>2
  <2> QED BY <1>1, <1>5, <2>1 DEF MetaJob, Described
<1> QED BY <1>6, <1>7, <1>8, <1>12, <1>13

LEMMA CountInv == ASSUME IInv, CountParquet PROVE IInv'
<1> USE DEF IInv
<1>1. /\ UNCHANGED <<settings, source, load, attempt, phase, changed, dirs, csv, staging,
                     held, published, loaded>>
      /\ pc = "count" /\ pc' = "succeeded"
  BY DEF CountParquet, Goto, access
<1>2. TypeOK' /\ Control'
  BY <1>1 DEF TypeOK, Control, Rows
<1>3. Catalogue' /\ Fresh' /\ Merged' /\ RowsRecoverable' /\ OneRowPerAttempt'
  BY <1>1, LogUntouched DEF Described, Unmerged
<1>4. DataJob' /\ MetaJob'
  BY <1>1, SamePath DEF DataJob, MetaJob, Described, Own
<1> QED BY <1>2, <1>3, <1>4

-----------------------------------------------------------------------------
(* The second job and its CSV.                                             *)

\* The rows of the CSV and one more may take its place.
LEMMA OneMoreRow ==
    ASSUME IInv, pc \in {"put", "read"}
    PROVE  Replaces(Append(Rows(csv[CsvPath]), attempt))
<1> DEFINE rows == Append(Rows(csv[CsvPath]), attempt)
<1>1. attempt \in Attempts /\ CsvPath \in Paths /\ csv[CsvPath] \in Entries
  BY PathTypes DEF IInv, Control
<1>2. attempt \notin RowSet(csv[CsvPath])
  BY <1>1 DEF IInv, Catalogue, Fresh, Unpublished, Unmerged
<1>3. Distinct(csv[CsvPath])
  BY <1>1 DEF IInv, OneRowPerAttempt, Distinct
<1>4. rows \in Seq(Attempts) /\ Distinct(rows) /\ RowSet(rows) = RowSet(csv[CsvPath]) \cup {attempt}
  BY <1>1, <1>2, <1>3, AppendOne
<1>5. \A a \in RowSet(csv[CsvPath]) : <<CsvPath, a>> \in published
  BY <1>1 DEF IInv, Catalogue
<1> QED BY <1>4, <1>5 DEF Replaces

\* What has been merged stays good while the CSV loses nothing but rows.
LEMMA StillReplaces ==
    ASSUME NEW rows, Replaces(rows), staging'[attempt] = rows,
           RowSet(csv'[CsvPath]) \subseteq RowSet(csv[CsvPath]),
           UNCHANGED <<settings, load, attempt, published>>
    PROVE  Replaces(staging[attempt])'
<1>1. staging'[attempt'] = rows /\ CsvPath' = CsvPath
  BY SamePath
<1>2. Distinct(staging[attempt])'
  BY <1>1 DEF Replaces, Distinct, Rows
<1>3. RowSet(staging[attempt])' = RowSet(rows)
  BY <1>1 DEF RowSet, Rows
<1>4. RowSet(csv[CsvPath])' = RowSet(csv'[CsvPath])
  BY <1>1 DEF RowSet, Rows
<1> QED BY <1>1, <1>2, <1>3, <1>4 DEF Replaces

LEMMA GetInv == ASSUME IInv, Get PROVE IInv'
<1> USE DEF IInv
<1>1. /\ UNCHANGED <<settings, source, load, attempt, phase, changed, dirs, csv, staging,
                     published, loaded>>
      /\ pc = "get" /\ phase = "meta"
      /\ \/ pc' = "put" /\ held' = Rows(csv[CsvPath])
         \/ pc' = "failed" /\ held' = held
  BY DEF Get, Goto, Raise, Control
<1>2. Rows(csv[CsvPath]) \in Seq(Attempts)
  BY <1>1, PathTypes, RowsOf DEF Control
<1>3. TypeOK' /\ Control'
  BY <1>1, <1>2 DEF TypeOK, Control, Rows
<1>4. Catalogue' /\ RowsRecoverable' /\ OneRowPerAttempt'
  BY <1>1 DEF Catalogue, RowsRecoverable, OneRowPerAttempt, RowSet, Rows, Described
<1>5. Fresh'
  BY <1>1 DEF Fresh, Unmerged, Unpublished
<1>6. Rows(csv[CsvPath])' = Rows(csv[CsvPath])
  BY <1>1, SamePath DEF Rows
<1>7. Merged'
  BY <1>1, <1>6 DEF Merged
<1>8. DataJob' /\ MetaJob'
  BY <1>1, FilesUntouched
<1> QED BY <1>3, <1>4, <1>5, <1>7, <1>8

LEMMA PutInv == ASSUME IInv, Put PROVE IInv'
<1> USE DEF IInv
<1>1. /\ UNCHANGED <<settings, source, load, attempt, phase, changed, dirs, staging, held, loaded>>
      /\ pc = "put" /\ phase = "meta" /\ pc' \in {"count", "failed"}
      /\ Publish(Append(held, attempt)) \/ UNCHANGED <<csv, published>>
  BY DEF Put, Goto, Raise, Control
<1>2. attempt \in Attempts /\ CsvPath \in Paths /\ attempt \in Described
  BY <1>1, PathTypes DEF Control, MetaJob
<1>3. DataJob' /\ MetaJob'
  BY <1>1, FilesUntouched
<1>4. CASE Publish(Append(held, attempt))
  <2>1. Replaces(Append(held, attempt))
    BY <1>1, OneMoreRow DEF Merged
  <2>2. \A r \in published : r[2] # attempt
    BY <1>1 DEF Fresh, Unpublished, Unmerged
  <2>3. /\ Catalogue' /\ RowsRecoverable' /\ OneRowPerAttempt'
        /\ csv' \in [Paths -> Entries] /\ published' \subseteq Paths \X Attempts
    BY <1>1, <1>2, <1>4, <2>1, <2>2, Published
  <2>4. \A p \in Paths : Rows(csv'[p]) \in Seq(Attempts)
    BY <2>3, RowsOf
  <2>5. TypeOK' /\ Control'
    BY <1>1, <2>3, <2>4 DEF TypeOK, Control, Rows
  <2>6. Fresh' /\ Merged'
    BY <1>1 DEF Fresh, Merged, Unmerged, Unpublished
  <2> QED BY <1>3, <2>3, <2>5, <2>6
<1>5. CASE UNCHANGED <<csv, published>>
  <2>1. TypeOK' /\ Control'
    BY <1>1, <1>5 DEF TypeOK, Control, Rows
  <2>2. Catalogue' /\ Fresh' /\ Merged' /\ RowsRecoverable' /\ OneRowPerAttempt'
    BY <1>1, <1>5, LogUntouched DEF Described, Unmerged
  <2> QED BY <1>3, <2>1, <2>2
<1> QED BY <1>1, <1>4, <1>5

LEMMA ReadInv == ASSUME IInv, Read PROVE IInv'
<1> USE DEF IInv
<1> DEFINE rows == Append(Rows(csv[CsvPath]), attempt)
<1>1. /\ UNCHANGED <<settings, source, load, attempt, phase, changed, dirs, csv, held,
                     published, loaded>>
      /\ pc = "read" /\ phase = "meta"
      /\ \/ pc' = "delete" /\ staging' = [staging EXCEPT ![attempt] = rows]
         \/ pc' = "failed" /\ staging' = staging
  BY DEF Read, Goto, Raise, Control
<1>2. attempt \in Attempts /\ Replaces(rows) /\ staging[attempt] = NoFile
  BY <1>1, OneMoreRow DEF Control, Fresh, Unmerged
<1>3. rows \in Entries /\ Rows(rows) \in Seq(Attempts)
  BY <1>2, RowsOfSeq DEF Replaces
<1> HIDE DEF rows
<1>4. DataJob' /\ MetaJob'
  BY <1>1, FilesUntouched
<1>5. CASE pc' = "delete" /\ staging' = [staging EXCEPT ![attempt] = rows]
  <2>1. /\ staging' \in [Attempts -> Entries] /\ staging'[attempt] = rows
        /\ \A a \in Attempts \ {attempt} : staging'[a] = staging[a]
    BY <1>2, <1>3, <1>5 DEF Control
  <2>2. TypeOK' /\ Control'
    <3>1. \A a \in Attempts : Rows(staging'[a]) \in Seq(Attempts)
      BY <2>1, RowsOf
    <3> QED BY <1>1, <1>5, <2>1, <3>1 DEF TypeOK, Control, Rows
  <2>3. Catalogue' /\ OneRowPerAttempt'
    BY <1>1 DEF Catalogue, OneRowPerAttempt, RowSet, Rows, Described
  <2>4. \A a \in Attempts : RowSet(staging[a]) \subseteq RowSet(staging'[a])
    BY <1>2, <2>1, RowsOfNone
  <2>5. RowsRecoverable'
    <3>1. \A r \in published : \/ r[2] \in RowSet(csv[r[1]])
                               \/ \E a \in Attempts : r[2] \in RowSet(staging'[a])
      BY <2>4 DEF RowsRecoverable
    <3> QED BY <1>1, <3>1 DEF RowsRecoverable, RowSet, Rows
  <2>6. Fresh'
    <3>1. \A a \in Attempts : a > attempt => a # attempt
      BY <1>2 DEF Attempts
    <3> QED BY <1>1, <1>5, <2>1, <3>1 DEF Fresh, Unmerged, Unpublished
  <2>7. Merged'
    <3>1. Replaces(staging[attempt])'
      BY <1>1, <1>2, <2>1, StillReplaces
    <3> QED BY <1>5, <3>1 DEF Merged
  <2> QED BY <1>4, <2>2, <2>3, <2>5, <2>6, <2>7
<1>6. CASE pc' = "failed" /\ staging' = staging
  <2>1. TypeOK' /\ Control'
    BY <1>1, <1>6 DEF TypeOK, Control, Rows
  <2>2. Catalogue' /\ Fresh' /\ Merged' /\ RowsRecoverable' /\ OneRowPerAttempt'
    BY <1>1, <1>6, LogUntouched DEF Described, Unmerged
  <2> QED BY <1>4, <2>1, <2>2
<1> QED BY <1>1, <1>5, <1>6

LEMMA DeleteInv == ASSUME IInv, Delete PROVE IInv'
<1> USE DEF IInv
<1>1. /\ UNCHANGED <<settings, source, load, attempt, phase, changed, dirs, staging, held,
                     published, loaded>>
      /\ pc = "delete" /\ phase = "meta" /\ pc' \in {"rename", "failed"}
      /\ \/ csv' = [csv EXCEPT ![CsvPath] = NoFile]
         \/ csv' = csv /\ pc' = "failed"
  BY DEF Delete, Goto, Raise, Control
<1>2. attempt \in Attempts /\ CsvPath \in Paths /\ Replaces(staging[attempt])
  BY <1>1, PathTypes DEF Control, Merged
<1>3. DataJob' /\ MetaJob'
  BY <1>1, FilesUntouched
<1>4. CASE csv' = [csv EXCEPT ![CsvPath] = NoFile]
  <2>1. /\ csv' \in [Paths -> Entries] /\ csv'[CsvPath] = NoFile
        /\ \A p \in Paths \ {CsvPath} : csv'[p] = csv[p]
    BY <1>2, <1>4, RowsOfNone DEF Control
  <2>2. TypeOK' /\ Control'
    <3>1. \A p \in Paths : Rows(csv'[p]) \in Seq(Attempts)
      BY <2>1, RowsOf
    <3> QED BY <1>1, <2>1, <3>1 DEF TypeOK, Control, Rows
  <2>3. \A p \in Paths : RowSet(csv'[p]) \subseteq RowSet(csv[p])
    BY <2>1, RowsOfNone
  <2>4. Catalogue'
    <3>1. \A p \in Paths : \A a \in RowSet(csv'[p]) : <<p, a>> \in published
      BY <2>3 DEF Catalogue
    <3> QED BY <1>1, <3>1 DEF Catalogue, RowSet, Rows, Described
  <2>5. OneRowPerAttempt'
    <3>1. \A p \in Paths : Distinct(csv'[p])
      <4>1. Distinct(NoFile)
        BY RowsOfNone DEF Distinct
      <4>2. \A p \in Paths : Distinct(csv[p])
        BY DEF OneRowPerAttempt, Distinct
      <4> QED BY <2>1, <4>1, <4>2
    <3> QED BY <3>1 DEF OneRowPerAttempt, Distinct, Rows
  <2>6. RowsRecoverable'
    <3>1. \A r \in published : \/ r[2] \in RowSet(csv'[r[1]])
                               \/ \E a \in Attempts : r[2] \in RowSet(staging[a])
      <4>1. \A r \in published : r[1] \in Paths
        BY DEF TypeOK
      <4>2. RowSet(csv[CsvPath]) \subseteq RowSet(staging[attempt])
        BY <1>2 DEF Replaces
      <4> QED BY <1>2, <2>1, <4>1, <4>2 DEF RowsRecoverable
    <3> QED BY <1>1, <3>1 DEF RowsRecoverable, RowSet, Rows
  <2>7. Fresh'
    BY <1>1 DEF Fresh, Unmerged, Unpublished
  <2>8. Merged'
    <3>1. RowSet(csv'[CsvPath]) = {}
      BY <2>1, RowsOfNone
    <3>2. Replaces(staging[attempt])'
      BY <1>1, <1>2, <3>1, StillReplaces
    <3> QED BY <1>1, <3>2 DEF Merged
  <2> QED BY <1>3, <2>2, <2>4, <2>5, <2>6, <2>7, <2>8
<1>5. CASE csv' = csv /\ pc' = "failed"
  <2>1. TypeOK' /\ Control'
    BY <1>1, <1>5 DEF TypeOK, Control, Rows
  <2>2. Catalogue' /\ Fresh' /\ Merged' /\ RowsRecoverable' /\ OneRowPerAttempt'
    BY <1>1, <1>5, LogUntouched DEF Described, Unmerged
  <2> QED BY <1>3, <2>1, <2>2
<1> QED BY <1>1, <1>4, <1>5

LEMMA RenameInv == ASSUME IInv, Rename PROVE IInv'
<1> USE DEF IInv
<1>1. /\ UNCHANGED <<settings, source, load, attempt, phase, changed, dirs, staging, held, loaded>>
      /\ pc = "rename" /\ phase = "meta" /\ pc' \in {"tidy", "failed"}
      /\ \/ Publish(staging[attempt])
         \/ pc' = "failed" /\ UNCHANGED <<csv, published>>
  BY DEF Rename, Goto, Raise, Control
<1>2. /\ attempt \in Attempts /\ CsvPath \in Paths /\ attempt \in Described
      /\ Replaces(staging[attempt])
      /\ \A r \in published : r[2] # attempt
  BY <1>1, PathTypes DEF Control, MetaJob, Merged, Fresh, Unpublished
<1>3. DataJob' /\ MetaJob'
  BY <1>1, FilesUntouched
<1>4. CASE Publish(staging[attempt])
  <2>1. /\ Catalogue' /\ RowsRecoverable' /\ OneRowPerAttempt'
        /\ csv'[CsvPath] = staging[attempt]
        /\ csv' \in [Paths -> Entries] /\ published' \subseteq Paths \X Attempts
    BY <1>1, <1>2, <1>4, Published
  <2>2. \A p \in Paths : Rows(csv'[p]) \in Seq(Attempts)
    BY <2>1, RowsOf
  <2>3. TypeOK' /\ Control'
    BY <1>1, <2>1, <2>2 DEF TypeOK, Control, Rows
  <2>4. Fresh'
    BY <1>1 DEF Fresh, Unmerged, Unpublished
  <2>5. RowSet(staging[attempt])' = RowSet(csv[CsvPath])'
    BY <1>1, <2>1, SamePath DEF RowSet, Rows
  <2>6. Merged'
    BY <1>1, <2>5 DEF Merged
  <2> QED BY <1>3, <2>1, <2>3, <2>4, <2>6
<1>5. CASE pc' = "failed" /\ UNCHANGED <<csv, published>>
  <2>1. TypeOK' /\ Control'
    BY <1>1, <1>5 DEF TypeOK, Control, Rows
  <2>2. Catalogue' /\ Fresh' /\ Merged' /\ RowsRecoverable' /\ OneRowPerAttempt'
    BY <1>1, <1>5, LogUntouched DEF Described, Unmerged
  <2> QED BY <1>3, <2>1, <2>2
<1> QED BY <1>1, <1>4, <1>5

LEMMA TidyInv == ASSUME IInv, Tidy PROVE IInv'
<1> USE DEF IInv
<1>1. /\ UNCHANGED <<settings, source, load, attempt, phase, changed, dirs, csv, held,
                     published, loaded>>
      /\ pc = "tidy" /\ phase = "meta" /\ pc' \in {"count", "failed"}
      /\ staging' = [staging EXCEPT ![attempt] = NoFile] \/ staging' = staging
  BY DEF Tidy, Goto, Raise, Control
<1>2. attempt \in Attempts /\ CsvPath \in Paths
  BY <1>1, PathTypes DEF Control
<1>3. DataJob' /\ MetaJob'
  BY <1>1, FilesUntouched
<1>4. /\ staging' \in [Attempts -> Entries]
      /\ \A a \in Attempts : staging'[a] = staging[a] \/ (a = attempt /\ staging'[a] = NoFile)
  BY <1>1, <1>2, RowsOfNone DEF Control
<1>5. TypeOK' /\ Control'
  <2>1. \A a \in Attempts : Rows(staging'[a]) \in Seq(Attempts)
    BY <1>4, RowsOf
  <2> QED BY <1>1, <1>4, <2>1 DEF TypeOK, Control, Rows
<1>6. Catalogue' /\ OneRowPerAttempt'
  BY <1>1 DEF Catalogue, OneRowPerAttempt, RowSet, Rows, Described
<1>7. Fresh' /\ Merged'
  BY <1>1, <1>4 DEF Fresh, Merged, Unmerged, Unpublished
\* A row that only the staging file held would be one of the CSV.
<1>8. RowsRecoverable'
  <2>1. \A r \in published : r[2] \in RowSet(staging[attempt]) => r[2] \in RowSet(csv[r[1]])
    <3> SUFFICES ASSUME NEW r \in published, r[2] \in RowSet(staging[attempt])
                 PROVE  r[2] \in RowSet(csv[r[1]])
      OBVIOUS
    <3>1. r[2] \in RowSet(csv[CsvPath])
      BY <1>1 DEF Merged
    <3>2. <<CsvPath, r[2]>> \in published
      BY <1>2, <3>1 DEF Catalogue
    <3>3. r[1] = CsvPath
      BY <3>2 DEF Catalogue
    <3> QED BY <3>1, <3>3
  <2>2. \A r \in published : \/ r[2] \in RowSet(csv[r[1]])
                             \/ \E a \in Attempts : r[2] \in RowSet(staging'[a])
    BY <1>4, <2>1 DEF RowsRecoverable
  <2> QED BY <1>1, <2>2 DEF RowsRecoverable, RowSet, Rows
<1> QED BY <1>3, <1>5, <1>6, <1>7, <1>8

-----------------------------------------------------------------------------
LEMMA NextInv == ASSUME IInv, [Next]_vars PROVE IInv'
<1>1. CASE Next
  BY <1>1, ExecuteInv, DieInv, SourceChangesInv, CleanupInv, QueryInv, ClearInv, WriteInv,
     GetInv, PutInv, ReadInv, DeleteInv, RenameInv, TidyInv, CountInv DEF Next
<1>2. CASE UNCHANGED vars
  <2>1. UNCHANGED <<settings, source, load, attempt, phase, pc, dirs, csv, staging, held,
                    published, loaded, changed>>
    BY <1>2 DEF vars, access
  <2>2. CsvPath' = CsvPath /\ destination' = destination
    BY <2>1, SamePath
  <2>3. TypeOK' /\ Control'
    BY <2>1 DEF IInv, TypeOK, Control, Rows
  <2>4. Catalogue' /\ Fresh' /\ RowsRecoverable' /\ OneRowPerAttempt'
    BY <2>1 DEF IInv, Catalogue, Fresh, RowsRecoverable, OneRowPerAttempt, RowSet, Rows, Described
  <2>5. Merged'
    <3>1. Replaces(staging[attempt])' <=> Replaces(staging[attempt])
      BY <2>1, <2>2 DEF Replaces, Distinct, RowSet, Rows
    <3>2. /\ Rows(csv[CsvPath])' = Rows(csv[CsvPath])
          /\ RowSet(csv[CsvPath])' = RowSet(csv[CsvPath])
          /\ RowSet(staging[attempt])' = RowSet(staging[attempt])
      BY <2>1, <2>2 DEF RowSet, Rows
    <3> QED BY <2>1, <3>1, <3>2 DEF IInv, Merged
  <2>6. DataJob' /\ MetaJob'
    BY <2>1, <2>2 DEF IInv, DataJob, MetaJob, Described, Own
  <2> QED BY <2>3, <2>4, <2>5, <2>6 DEF IInv
<1> QED BY <1>1, <1>2

LEMMA SpecInv == Spec => []IInv
BY InitInv, NextInv, PTL DEF Spec

\* Types are kept, and with them the numbering of executions and loads.
THEOREM TypeCorrect == Spec => []TypeOK
<1>1. IInv => TypeOK
  BY DEF IInv
<1> QED BY <1>1, SpecInv, PTL

\* However many loads and retries there are, wherever they stop and whatever
\* changes meanwhile, each row of metadata is kept, is there once, and describes
\* data.
THEOREM MetadataStaysIntact == Spec => []MetadataIntact
<1>1. IInv => MetadataIntact
  BY InvGives
<1> QED BY <1>1, SpecInv, PTL

\* A task that ends well over a result has all its files in place, under every
\* combination of arguments but mode=ignore.
THEOREM SuccessHasData == Spec => []SuccessIsComplete
<1>1. IInv => SuccessIsComplete
  BY InvGives
<1> QED BY <1>1, SpecInv, PTL

\* Nothing but the first job, once its query has found rows, takes data away.
THEOREM OldDataKept == Spec => DataKept
<1>1. ASSUME IInv, [Next]_vars
      PROVE  [dirs'["data"] # dirs["data"] =>
                /\ phase = "data"
                /\ pc \in {"clear", "write"}
                /\ settings.query /\ attempt \notin changed => source = "rows"]_vars
  <2> SUFFICES ASSUME Next, dirs'["data"] # dirs["data"]
               PROVE  phase = "data" /\ pc \in {"clear", "write"}
    BY <1>1 DEF IInv, DataJob
  <2>1. CASE Clear
    BY <1>1, <2>1 DEF Clear, IInv, Control
  <2>2. CASE Write
    <3>1. PICK new \in SUBSET File : dirs' = [dirs EXCEPT ![phase][destination] = new]
      BY <1>1, <2>2, WriteGives
    <3>2. phase \in {"data", "meta"} /\ pc = "write"
      BY <1>1, <2>2 DEF Write, IInv, TypeOK
    <3>3. phase = "meta" => dirs'["data"] = dirs["data"]
      BY <1>1, <3>1 DEF IInv, TypeOK
    <3> QED BY <3>2, <3>3
  <2>3. CASE ~Clear /\ ~Write
    BY <2>3 DEF Next, Execute, Die, SourceChanges, Cleanup, Query, Get, Put, Read, Delete,
       Rename, Tidy, CountParquet, access
  <2> QED BY <2>1, <2>2, <2>3
<1> QED BY <1>1, SpecInv, PTL DEF Spec, DataKept

=============================================================================
