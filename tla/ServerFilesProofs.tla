------------------------- MODULE ServerFilesProofs -------------------------
(***************************************************************************)
(* Theorems about ServerFiles, for any tree, any lists and any number of   *)
(* commands.  The lemmas say what the operators that load return; the only *)
(* one that is not by expansion is that a list has a longest prefix that   *)
(* loads, which needs the least number principle.                          *)
(***************************************************************************)
EXTENDS ServerFiles, WellFoundedInduction, SequenceTheorems, TLAPS

\* A set of naturals has a least member: where a list breaks off is one.
LEMMA LeastNat ==
    ASSUME NEW T \in SUBSET Nat, T # {}
    PROVE  \E m \in T : \A k \in T : m <= k
<1>1. \E m \in T : \A k \in T : <<k, m>> \notin OpToRel(<, Nat)
  BY WFMin, NatLessThanWellFounded
<1>2. PICK m \in T : \A k \in T : <<k, m>> \notin OpToRel(<, Nat)
  BY <1>1
<1>3. \A k \in T : ~(k < m)
  BY <1>2 DEF OpToRel
<1>4. m \in Nat /\ \A k \in T : k \in Nat
  BY <1>2
<1>5. \A k \in T : m <= k
  BY <1>3, <1>4
<1> QED
  BY <1>2, <1>5

\* Every directory that can be entered is one of the tree.
LEMMA EnterType ==
    ASSUME NEW p \in Prefixes, NEW here \in Dirs
    PROVE  /\ Enter(p, here) \in Dirs \cup {NoDir}
           /\ Canonical(p, here) \in Dirs \cup {NoDir}
<1> QED
  BY FilesAssumption DEF Enter, Canonical, Prefixes

\* One rule file: it adds at most itself, and succeeds when it is whole.
LEMMA LoadClpType ==
    ASSUME NEW path \in Paths, NEW here \in Dirs
    PROVE  LET r == LoadClp(path, here) IN
           /\ r.ok \in BOOLEAN
           /\ r.items \in Seq(Items)
           /\ r.ok => Len(r.items) = 1 /\ r.items[1].whole
           /\ ~r.ok => r.items = <<>> \/ (Len(r.items) = 1 /\ ~r.items[1].whole)
           /\ r.items # <<>> => r.items[1] \in Items /\ r.items[1].file = FileOf(path, here)
<1> DEFINE file == FileOf(path, here)
<1>1. CASE file \in Clps
  <2>1. Whole(file) \in BOOLEAN
    BY DEF Whole
  <2>2. [file |-> file, whole |-> Whole(file)] \in Items
    BY <1>1, <2>1, FilesAssumption DEF Items
  <2>3. LoadClp(path, here) = [ok |-> Whole(file), items |-> <<[file |-> file, whole |-> Whole(file)]>>]
    BY <1>1 DEF LoadClp, Result
  <2> QED
    BY <2>1, <2>2, <2>3
<1>2. CASE file \notin Clps
  BY <1>2 DEF LoadClp, Result
<1> QED
  BY <1>1, <1>2

\* What loading n files leaves: k whole items, and at most one more that is not.
Parts(n, k, files, head, rest) ==
    /\ n \in Nat /\ k \in 0 .. n
    /\ head \in Seq(Items) /\ Len(head) = k
    /\ rest \in Seq(Items)
    /\ k = n => rest = <<>>
    /\ rest # <<>> => Len(rest) = 1 /\ ~rest[1].whole /\ rest[1].file = files[k + 1]
    /\ \A i \in 1 .. k : head[i].whole /\ head[i].file = files[i]

InOrder(n, k, files, all) ==
    /\ all \in Seq(Items)
    /\ Len(all) <= n
    /\ \A i \in DOMAIN all : all[i].file = files[i]
    /\ \A i \in DOMAIN all : all[i].whole \/ i = Len(all)
    /\ (k = n) <=> (Len(all) = n /\ \A i \in DOMAIN all : all[i].whole)

LEMMA JoinedItems ==
    ASSUME NEW n, NEW k, NEW files, NEW head, NEW rest, Parts(n, k, files, head, rest)
    PROVE  InOrder(n, k, files, head \o rest)
<1> DEFINE all == head \o rest
<1>0. head \in Seq(Items) /\ rest \in Seq(Items)
  BY DEF Parts
<1>concat. /\ all \in Seq(Items)
      /\ Len(all) = Len(head) + Len(rest)
      /\ \A i \in 1 .. Len(head) + Len(rest) :
            all[i] = IF i <= Len(head) THEN head[i] ELSE rest[i - Len(head)]
  BY <1>0, ConcatProperties
<1> USE DEF Parts, InOrder
<1>1. CASE rest = <<>>
  <2>1. all = head
    BY <1>1
  <2> QED
    BY <2>1
<1>2. CASE rest # <<>>
  <2>1. Len(rest) = 1 /\ k + 1 \in 1 .. n
    BY <1>2
  <2>2. /\ all \in Seq(Items) /\ Len(all) = k + 1 /\ DOMAIN all = 1 .. k + 1
        /\ \A i \in 1 .. k : all[i] = head[i]
        /\ all[k + 1] = rest[1]
    <3>1. /\ all \in Seq(Items)
          /\ Len(all) = Len(head) + Len(rest)
          /\ \A i \in 1 .. Len(head) + Len(rest) :
                all[i] = IF i <= Len(head) THEN head[i] ELSE rest[i - Len(head)]
      BY <1>concat
    <3>2. k \in Nat /\ Len(head) + Len(rest) = k + 1 /\ (k + 1) - k = 1
      BY <2>1
    <3>3. \A i \in 1 .. k : i \in 1 .. k + 1 /\ i <= k
      BY <3>2
    <3>4. k + 1 \in 1 .. k + 1 /\ ~(k + 1 <= k)
      BY <3>2
    <3>5. \A i \in 1 .. k + 1 : all[i] = IF i <= k THEN head[i] ELSE rest[i - k]
      BY <3>1, <3>2
    <3>6. all[k + 1] = rest[1]
      BY <3>2, <3>4, <3>5
    <3>7. \A i \in 1 .. k : all[i] = head[i]
      BY <3>3, <3>5
    <3> QED
      BY <3>1, <3>2, <3>6, <3>7
  <2>3. \A i \in DOMAIN all : i \in 1 .. k \/ i = k + 1
    BY <2>2
  <2>4. \A i \in DOMAIN all : all[i].file = files[i]
    BY <1>2, <2>2, <2>3
  <2>5. \A i \in DOMAIN all : all[i].whole \/ i = Len(all)
    BY <2>2, <2>3
  <2>6. k # n /\ k + 1 \in DOMAIN all /\ ~all[k + 1].whole
    BY <1>2, <2>2
  <2>7. ~(\A i \in DOMAIN all : all[i].whole)
    BY <2>6
  <2>8. Len(all) <= n
    BY <2>1, <2>2
  <2> QED
    BY <2>2, <2>4, <2>5, <2>6, <2>7, <2>8
<1> QED
  BY <1>1, <1>2

\* A sequence of yes and no has a longest prefix of yes.
LEMMA LongestPrefix ==
    ASSUME NEW n \in Nat, NEW ok
    PROVE  \E k \in 0 .. n : (\A i \in 1 .. k : ok[i]) /\ (k = n \/ ~ok[k + 1])
<1> DEFINE bad == {m \in Nat : m < n /\ ~ok[m + 1]}
<1>1. CASE bad = {}
  <2>1. \A i \in 1 .. n : i - 1 \in Nat /\ i - 1 < n /\ (i - 1) + 1 = i
    OBVIOUS
  <2>2. \A i \in 1 .. n : ok[i]
    BY <1>1, <2>1
  <2>3. n \in 0 .. n
    OBVIOUS
  <2> QED
    BY <2>2, <2>3
<1>2. CASE bad # {}
  <2>1. PICK m \in bad : \A j \in bad : m <= j
    BY <1>2, LeastNat
  <2>2. m \in 0 .. n /\ ~ok[m + 1]
    BY <2>1
  <2>3. ASSUME NEW i \in 1 .. m PROVE ok[i]
    <3>1. i - 1 \in Nat /\ i - 1 < m /\ (i - 1) + 1 = i /\ i - 1 < n
      BY <2>1
    <3>2. i - 1 \notin bad
      BY <3>1, <2>1
    <3> QED
      BY <3>1, <3>2
  <2> QED
    BY <2>2, <2>3
<1> QED
  BY <1>1, <1>2

\* A list: the items are those of its lines, in order, all whole but perhaps
\* the last, and it succeeds when there is one for every line.
LEMMA LoadLinesResult ==
    ASSUME NEW lines \in Seq(Paths), NEW here \in Dirs
    PROVE  LET r == LoadLines(lines, here) IN
           /\ r.ok \in BOOLEAN
           /\ r.items \in Seq(Items)
           /\ Len(r.items) <= Len(lines)
           /\ \A i \in DOMAIN r.items : r.items[i].file = FileOf(lines[i], here)
           /\ \A i \in DOMAIN r.items : r.items[i].whole \/ i = Len(r.items)
           /\ r.ok <=> (Len(r.items) = Len(lines) /\ \A i \in DOMAIN r.items : r.items[i].whole)
<1> DEFINE n == Len(lines)
           each == [i \in DOMAIN lines |-> LoadClp(lines[i], here)]
           ok == [i \in 1 .. n |-> each[i].ok]
           files == [i \in 1 .. n |-> FileOf(lines[i], here)]
           k == CHOOSE m \in 0 .. n : (\A i \in 1 .. m : each[i].ok) /\ (m = n \/ ~each[m + 1].ok)
           head == [i \in 1 .. k |-> each[i].items[1]]
           rest == IF k = n THEN <<>> ELSE each[k + 1].items
<1>1. n \in Nat /\ DOMAIN lines = 1 .. n
  OBVIOUS
<1>2. LoadLines(lines, here) = [ok |-> k = n, items |-> head \o rest]
  BY DEF LoadLines, Result
<1>3. ASSUME NEW i \in 1 .. n
      PROVE  /\ each[i].ok \in BOOLEAN
             /\ each[i].items \in Seq(Items)
             /\ each[i].ok => Len(each[i].items) = 1 /\ each[i].items[1].whole
             /\ ~each[i].ok => each[i].items = <<>>
                               \/ (Len(each[i].items) = 1 /\ ~each[i].items[1].whole)
             /\ each[i].items # <<>> =>
                   each[i].items[1] \in Items /\ each[i].items[1].file = FileOf(lines[i], here)
  <2>1. lines[i] \in Paths /\ each[i] = LoadClp(lines[i], here)
    BY <1>1
  <2> QED
    BY <2>1, LoadClpType
<1> HIDE DEF n, each
<1>4. \E m \in 0 .. n : (\A i \in 1 .. m : each[i].ok) /\ (m = n \/ ~each[m + 1].ok)
  <2>1. PICK m \in 0 .. n : (\A i \in 1 .. m : ok[i]) /\ (m = n \/ ~ok[m + 1])
    BY <1>1, LongestPrefix
  <2>2. \A i \in 1 .. m : i \in 1 .. n
    BY <1>1
  <2>3. m = n \/ m + 1 \in 1 .. n
    BY <1>1
  <2> QED
    BY <2>1, <2>2, <2>3
<1>5. k \in 0 .. n /\ (\A i \in 1 .. k : each[i].ok) /\ (k = n \/ ~each[k + 1].ok)
  BY <1>4
<1> HIDE DEF k
<1>6. k \in Nat /\ (\A i \in 1 .. k : i \in 1 .. n) /\ (k = n \/ k + 1 \in 1 .. n)
  BY <1>1, <1>5
<1>7. ASSUME NEW i \in 1 .. k
      PROVE  head[i] \in Items /\ head[i].whole /\ head[i].file = files[i]
  <2>1. i \in 1 .. n /\ each[i].ok
    BY <1>5, <1>6
  <2>2. each[i].items # <<>>
    BY <2>1, <1>3
  <2>3. head[i] = each[i].items[1] /\ files[i] = FileOf(lines[i], here)
    BY <2>1
  <2> QED
    BY <2>1, <2>2, <2>3, <1>3
<1>8. head \in Seq(Items) /\ Len(head) = k
  <2>1. head \in [1 .. k -> Items]
    BY <1>7
  <2> QED
    BY <2>1, <1>6
<1>9. /\ rest \in Seq(Items)
      /\ k = n => rest = <<>>
      /\ rest # <<>> => Len(rest) = 1 /\ ~rest[1].whole /\ rest[1].file = files[k + 1]
  <2>1. CASE k = n
    BY <2>1
  <2>2. CASE k # n
    <3>1. k + 1 \in 1 .. n /\ ~each[k + 1].ok /\ rest = each[k + 1].items
      BY <2>2, <1>5, <1>6
    <3>2. files[k + 1] = FileOf(lines[k + 1], here)
      BY <3>1
    <3> QED
      BY <3>1, <3>2, <2>2, <1>3
  <2> QED
    BY <2>1, <2>2
<1> DEFINE all == head \o rest
<1> HIDE DEF head, rest, all
<1>10. InOrder(n, k, files, all)
  <2>1. \A i \in 1 .. k : head[i].whole /\ head[i].file = files[i]
    BY <1>7
  <2> HIDE DEF files
  <2>2. Parts(n, k, files, head, rest)
    BY <1>1, <1>5, <1>8, <1>9, <2>1 DEF Parts
  <2> QED
    BY <2>2, JoinedItems DEF all
<1>11. \A i \in DOMAIN all : i \in 1 .. n
  BY <1>1, <1>10 DEF InOrder
<1>12. \A i \in DOMAIN all : files[i] = FileOf(lines[i], here)
  BY <1>11
<1>13. LoadLines(lines, here) = [ok |-> k = n, items |-> all]
  BY <1>2 DEF all
<1> HIDE DEF files
<1>14. n = Len(lines)
  BY DEF n
<1> DEFINE r == LoadLines(lines, here)
<1>15. r.ok = (k = n) /\ r.items = all
  BY <1>13
<1> HIDE DEF r
<1>16. /\ r.ok \in BOOLEAN
       /\ r.items \in Seq(Items)
       /\ Len(r.items) <= Len(lines)
       /\ \A i \in DOMAIN r.items : r.items[i].file = FileOf(lines[i], here)
       /\ \A i \in DOMAIN r.items : r.items[i].whole \/ i = Len(r.items)
       /\ r.ok <=> (Len(r.items) = Len(lines) /\ \A i \in DOMAIN r.items : r.items[i].whole)
  BY <1>10, <1>12, <1>14, <1>15 DEF InOrder
<1> QED
  BY <1>16 DEF r

-----------------------------------------------------------------------------
\* A load leaves the working directory and clppath alone, and adds to loaded
\* either one rule file or what LoadLinesResult says of a list.
LEMMA LoadResult ==
    ASSUME TypeOK, NEW path \in Paths, Load(path)
    PROVE  /\ cwd' = cwd /\ clppath' = clppath /\ settled' = settled
           /\ clipsFile' = clipsFile /\ udf' = udf
           /\ last' \in [path : Paths, here : Dirs, before : Nat, ok : BOOLEAN]
           /\ last'.path = path /\ last'.here = cwd /\ last'.before = Len(loaded)
           /\ \E items \in Seq(Items) :
                 /\ loaded' = loaded \o items
                 /\ FileOf(path, cwd) \in DOMAIN Lists =>
                       LoadLines(Lists[FileOf(path, cwd)], ListDir(path, cwd))
                          = [ok |-> last'.ok, items |-> items]
<1> DEFINE file == FileOf(path, cwd)
           dir == ListDir(path, cwd)
           r == IF file \in DOMAIN Lists
                THEN LoadLines(Lists[file], dir)
                ELSE LoadClp(path, cwd)
<1>1. cwd \in Dirs /\ loaded \in Seq(Items)
  BY DEF TypeOK
<1>2. dir \in Dirs
  BY <1>1, EnterType DEF ListDir, Paths
<1>3. r.ok \in BOOLEAN /\ r.items \in Seq(Items)
  <2>1. CASE file \in DOMAIN Lists
    <3>1. Lists[file] \in Seq(Paths)
      BY <2>1, FilesAssumption
    <3> QED
      BY <3>1, <2>1, <1>2, LoadLinesResult
  <2>2. CASE file \notin DOMAIN Lists
    BY <2>2, <1>1, LoadClpType
  <2> QED
    BY <2>1, <2>2
<1>4. /\ loaded' = loaded \o r.items
      /\ cwd' = cwd
      /\ last' = [path |-> path, here |-> cwd, before |-> Len(loaded), ok |-> r.ok]
      /\ UNCHANGED <<clipsFile, clppath, udf, settled>>
  BY DEF Load, Restored
<1>5. Len(loaded) \in Nat
  BY <1>1
<1>6. last' \in [path : Paths, here : Dirs, before : Nat, ok : BOOLEAN]
  BY <1>1, <1>3, <1>4, <1>5
<1>7. file \in DOMAIN Lists => LoadLines(Lists[file], dir) = [ok |-> r.ok, items |-> r.items]
  BY DEF LoadLines, Result
<1> HIDE DEF r, file, dir
<1>8. \E items \in Seq(Items) :
         /\ loaded' = loaded \o items
         /\ file \in DOMAIN Lists =>
               LoadLines(Lists[file], dir) = [ok |-> last'.ok, items |-> items]
  BY <1>3, <1>4, <1>7
<1>9. last'.path = path /\ last'.here = cwd /\ last'.before = Len(loaded)
  BY <1>4
<1>10. cwd' = cwd /\ clppath' = clppath /\ settled' = settled /\ clipsFile' = clipsFile
       /\ udf' = udf
  BY <1>4
<1> QED
  BY <1>6, <1>8, <1>9, <1>10 DEF file, dir

LEMMA TypeInit == Init => TypeOK
<1> SUFFICES ASSUME Init PROVE TypeOK
  OBVIOUS
<1>1. NoFile \in Paths
  BY FilesAssumption DEF NoFile, Paths, Prefixes
<1>2. NoLoad \in [path : Paths, here : Dirs, before : Nat, ok : BOOLEAN]
  BY <1>1, FilesAssumption DEF NoLoad
<1>3. last \in [path : Paths, here : Dirs, before : Nat, ok : BOOLEAN]
  BY <1>2 DEF Init
<1>4. loaded \in Seq(Items) /\ clipsFile \in Paths
  BY <1>1 DEF Init
<1>5. cwd \in Dirs /\ clppath \in Prefixes
  BY FilesAssumption DEF Init, Prefixes
<1>6. phase \in {"args", "clips", "functions", "serving"} /\ udf \in BOOLEAN /\ settled \in BOOLEAN
  BY DEF Init
<1> QED
  BY <1>3, <1>4, <1>5, <1>6 DEF TypeOK

LEMMA TypeStep == TypeOK /\ [Next]_vars => TypeOK'
<1> SUFFICES ASSUME TypeOK, [Next]_vars PROVE TypeOK'
  OBVIOUS
<1>load. ASSUME NEW path \in Paths, Load(path), phase' \in {"args", "clips", "functions", "serving"}
         PROVE  TypeOK'
  <2>1. PICK items \in Seq(Items) : loaded' = loaded \o items
    BY <1>load, LoadResult
  <2>2. loaded' \in Seq(Items)
    BY <2>1, ConcatProperties DEF TypeOK
  <2> QED
    BY <1>load, <2>2, LoadResult DEF TypeOK
<1>1. CASE ParseArgs
  <2>1. NoFile \in Paths
    BY FilesAssumption DEF NoFile, Paths, Prefixes
  <2>2. clipsFile' \in Paths
    BY <1>1, <2>1, FilesAssumption DEF ParseArgs
  <2>3. CASE UNCHANGED <<cwd, clppath, settled>>
    BY <1>1, <2>2, <2>3 DEF ParseArgs, TypeOK
  <2>4. ASSUME NEW d \in Prefixes \ {Here},
               clppath' = d,
               cwd' = IF Enter(d, cwd) = NoDir THEN cwd ELSE Enter(d, cwd),
               settled' = (d \in Dirs)
        PROVE  TypeOK'
    <3>1. cwd' \in Dirs
      BY <2>4, EnterType DEF TypeOK
    <3> QED
      BY <1>1, <2>2, <2>4, <3>1 DEF ParseArgs, TypeOK
  <2> QED
    BY <1>1, <2>3, <2>4 DEF ParseArgs
<1>2. CASE InitCLIPS
  BY <1>2, <1>load DEF InitCLIPS, TypeOK
<1>3. CASE AddUserFunctions
  BY <1>3 DEF AddUserFunctions, TypeOK
<1>4. ASSUME NEW p \in Prefixes, HandlePath(p)
      PROVE  TypeOK'
  <2>1. Canonical(p, cwd) \in Dirs
    BY <1>4, EnterType DEF HandlePath, TypeOK
  <2> QED
    BY <1>4, <2>1 DEF HandlePath, TypeOK, Prefixes
<1>5. ASSUME NEW p \in Prefixes, EngineChdir(p)
      PROVE  TypeOK'
  <2>1. Enter(p, cwd) \in Dirs
    BY <1>5, EnterType DEF EngineChdir, TypeOK
  <2> QED
    BY <1>5, <2>1 DEF EngineChdir, TypeOK
<1>6. ASSUME NEW path \in Paths, HandleLoad(path)
      PROVE  TypeOK'
  BY <1>6, <1>load DEF HandleLoad, TypeOK
<1>7. CASE HandleClear
  <2>1. NoFile \in Paths
    BY FilesAssumption DEF NoFile, Paths, Prefixes
  <2>2. NoLoad \in [path : Paths, here : Dirs, before : Nat, ok : BOOLEAN]
    BY <2>1, FilesAssumption DEF NoLoad
  <2> QED
    BY <1>7, <2>2 DEF HandleClear, TypeOK
<1>8. CASE UNCHANGED vars
  BY <1>8 DEF vars, TypeOK
<1> QED
  BY <1>1, <1>2, <1>3, <1>4, <1>5, <1>6, <1>7, <1>8 DEF Next

\* Every variable keeps its type, for any tree and any number of commands.
THEOREM TypeCorrect == Spec => []TypeOK
  BY TypeInit, TypeStep, PTL DEF Spec

-----------------------------------------------------------------------------
\* Clients are told the directory the server works in (see ReportedPath): it
\* is TypeOK that says a load starts from a directory it can come back to.
THEOREM PathSafe == Spec => []ReportedPath
<1>1. Init => ReportedPath
  BY DEF Init, ReportedPath
<1>2. TypeOK /\ ReportedPath /\ [Next]_vars => ReportedPath'
  <2> SUFFICES ASSUME TypeOK, ReportedPath, [Next]_vars PROVE ReportedPath'
    OBVIOUS
  <2>1. CASE ParseArgs
    <3>1. CASE UNCHANGED <<cwd, clppath, settled>>
      BY <3>1 DEF ReportedPath
    <3>2. ASSUME NEW d \in Prefixes \ {Here},
                 clppath' = d,
                 cwd' = IF Enter(d, cwd) = NoDir THEN cwd ELSE Enter(d, cwd),
                 settled' = (d \in Dirs)
          PROVE  ReportedPath'
      BY <3>2, FilesAssumption DEF Enter, ReportedPath
    <3> QED
      BY <2>1, <3>1, <3>2 DEF ParseArgs
  <2>2. CASE InitCLIPS
    <3>1. clipsFile \in Paths /\ Load(clipsFile)
      BY <2>2 DEF InitCLIPS, TypeOK
    <3> QED
      BY <3>1, LoadResult DEF ReportedPath
  <2>3. ASSUME NEW path \in Paths, HandleLoad(path)
        PROVE  ReportedPath'
    BY <2>3, LoadResult DEF HandleLoad, ReportedPath
  <2>4. ASSUME NEW p \in Prefixes, HandlePath(p) \/ EngineChdir(p)
        PROVE  ReportedPath'
    BY <2>4 DEF HandlePath, EngineChdir, ReportedPath
  <2>5. CASE AddUserFunctions \/ HandleClear
    BY <2>5 DEF AddUserFunctions, HandleClear, ReportedPath
  <2>6. CASE UNCHANGED vars
    BY <2>6 DEF vars, ReportedPath
  <2> QED
    BY <2>1, <2>2, <2>3, <2>4, <2>5, <2>6 DEF Next
<1> QED
  BY <1>1, <1>2, TypeCorrect, PTL DEF Spec

\* The directory a list was asked in, or the one it is in, is where its lines
\* are looked up, except under "~".
LEMMA OwnDirectory ==
    ASSUME NEW path \in Paths, NEW here \in Dirs,
           path.dir # Tilde, FileOf(path, here) \in DOMAIN Lists
    PROVE  ListDir(path, here) = FileOf(path, here)[1]
<1>1. FileOf(path, here)[1] \in Dirs
  BY FilesAssumption DEF Files
<1>2. FileOf(path, here)[1] = IF path.dir = Here THEN here ELSE Enter(path.dir, here)
  BY DEF FileOf, Canonical
<1>3. CASE path.dir = Here
  BY <1>2, <1>3, FilesAssumption DEF ListDir, Enter, Here, Below
<1>4. CASE path.dir # Here
  BY <1>1, <1>2, <1>4, FilesAssumption DEF ListDir
<1> QED
  BY <1>3, <1>4

\* What the last load of a list added, as ListsLoadInOrder says it.
LEMMA ListStep ==
    ASSUME TypeOK, NEW path \in Paths, Load(path)
    PROVE  ListsLoadInOrder'
<1> DEFINE file == FileOf(path, cwd)
<1>1. cwd \in Dirs /\ loaded \in Seq(Items)
  BY DEF TypeOK
<1>2. last'.path = path /\ last'.here = cwd /\ last'.before = Len(loaded)
  BY LoadResult
<1>3. SUFFICES ASSUME file \in DOMAIN Lists, path.dir # Tilde
      PROVE  LET new == SubSeq(loaded', Len(loaded) + 1, Len(loaded')) IN
             /\ [i \in DOMAIN new |-> new[i].file] = SubSeq(Meant(file), 1, Len(new))
             /\ \A i \in DOMAIN new : new[i].whole \/ i = Len(new)
             /\ last'.ok <=> (Len(new) = Len(Meant(file)) /\ \A i \in DOMAIN new : new[i].whole)
  BY <1>2 DEF ListsLoadInOrder
<1> DEFINE lines == Lists[file]
<1>4. lines \in Seq(Paths) /\ file[1] \in Dirs
  BY <1>3, FilesAssumption DEF Files
<1>5. PICK items \in Seq(Items) :
         /\ loaded' = loaded \o items
         /\ LoadLines(lines, file[1]) = [ok |-> last'.ok, items |-> items]
  BY <1>1, <1>3, LoadResult, OwnDirectory
<1>6. SubSeq(loaded', Len(loaded) + 1, Len(loaded')) = items
  BY <1>1, <1>5
<1>7. /\ Len(items) <= Len(lines)
      /\ \A i \in DOMAIN items : items[i].file = FileOf(lines[i], file[1])
      /\ \A i \in DOMAIN items : items[i].whole \/ i = Len(items)
      /\ last'.ok <=> (Len(items) = Len(lines) /\ \A i \in DOMAIN items : items[i].whole)
  BY <1>4, <1>5, LoadLinesResult
<1>8. Meant(file) = [i \in DOMAIN lines |-> FileOf(lines[i], file[1])]
  BY DEF Meant
<1> HIDE DEF file, lines
<1>9. Len(Meant(file)) = Len(lines) /\ DOMAIN lines = 1 .. Len(lines) /\ Len(lines) \in Nat
  BY <1>4, <1>8
<1>10. Len(items) \in Nat /\ DOMAIN items = 1 .. Len(items)
  BY <1>5
<1>11. SubSeq(Meant(file), 1, Len(items)) = [i \in 1 .. Len(items) |-> Meant(file)[i]]
  BY <1>7, <1>9, <1>10
<1>12. \A i \in 1 .. Len(items) : Meant(file)[i] = items[i].file
  <2>1. \A i \in 1 .. Len(items) : i \in DOMAIN lines
    BY <1>7, <1>9, <1>10
  <2>2. \A i \in 1 .. Len(items) : Meant(file)[i] = FileOf(lines[i], file[1])
    BY <2>1, <1>8
  <2> QED
    BY <2>2, <1>7, <1>10
<1>13. [i \in DOMAIN items |-> items[i].file] = SubSeq(Meant(file), 1, Len(items))
  BY <1>10, <1>11, <1>12
<1> QED
  BY <1>6, <1>7, <1>9, <1>13

\* A list is loaded from its own directory, in order and up to the first file
\* that fails, for any tree, any lists and from anywhere.
THEOREM ListsSafe == Spec => []ListsLoadInOrder
<1>1. NoLoad.path = NoFile /\ NoLoad.here = Start
  BY DEF NoLoad
<1>2. FileOf(NoFile, Start) \notin DOMAIN Lists
  BY FilesAssumption DEF FileOf, NoFile, Canonical, Enter, Files, Here, Gone, Tilde, Below
<1>3. Init => ListsLoadInOrder
  BY <1>1, <1>2 DEF Init, ListsLoadInOrder
<1>4. TypeOK /\ ListsLoadInOrder /\ [Next]_vars => ListsLoadInOrder'
  <2> SUFFICES ASSUME TypeOK, ListsLoadInOrder, [Next]_vars PROVE ListsLoadInOrder'
    OBVIOUS
  <2>1. CASE InitCLIPS
    BY <2>1, ListStep DEF InitCLIPS, TypeOK
  <2>2. ASSUME NEW path \in Paths, HandleLoad(path)
        PROVE  ListsLoadInOrder'
    BY <2>2, ListStep DEF HandleLoad
  <2>3. CASE HandleClear
    <3>1. last' = NoLoad
      BY <2>3 DEF HandleClear
    <3> QED
      BY <3>1, <1>1, <1>2 DEF ListsLoadInOrder
  <2>4. CASE UNCHANGED <<loaded, last>>
    BY <2>4 DEF ListsLoadInOrder
  <2>5. ASSUME NEW p \in Prefixes, HandlePath(p) \/ EngineChdir(p)
        PROVE  UNCHANGED <<loaded, last>>
    BY <2>5 DEF HandlePath, EngineChdir
  <2>6. ASSUME ParseArgs \/ AddUserFunctions \/ UNCHANGED vars
        PROVE  UNCHANGED <<loaded, last>>
    BY <2>6 DEF ParseArgs, AddUserFunctions, vars
  <2> QED
    BY <2>1, <2>2, <2>3, <2>4, <2>5, <2>6 DEF Next
<1> QED
  BY <1>3, <1>4, TypeCorrect, PTL DEF Spec
=============================================================================
