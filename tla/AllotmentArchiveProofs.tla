----------------------- MODULE AllotmentArchiveProofs -----------------------
(***************************************************************************)
(* What the archive of an issue's allotment rows keeps, for any files,     *)
(* imports, requests and deaths of the process.  The jobs of the chain run *)
(* one at a time, so what the running job relies on is a matter between    *)
(* its own steps (HeadReady); what a request relies on between its check,  *)
(* its job and its reply has to survive the steps of all others            *)
(* (RequestsReady).                                                        *)
(***************************************************************************)
EXTENDS AllotmentArchive, SequenceTheorems, TLAPS

Numbers == {r.no : r \in records}

\* Only the first job has begun.
OthersWait ==
    /\ \A j \in asked : j.phase = "queued"
    /\ \A k \in DOMAIN chain : k # 1 => chain[k].phase = "queued"

\* An archive purges only what its file holds, and a restore drops the archive
\* only when the rows of the file are back.
HeadReady == chain # <<>> =>
    /\ chain[1].phase = "writing" => file.state = "partial" /\ Numbers \subseteq file.rows \cup Todo
    /\ chain[1].phase = "written" => file.state = "whole" /\ Numbers \subseteq file.rows
    /\ chain[1].phase = "purging" => archive /\ file.state = "whole" /\ Numbers \subseteq file.rows
    /\ chain[1].phase = "inserting" => file.rows \subseteq Numbers \cup Todo
    /\ chain[1].phase = "unlinking" => ~archive

\* The import of a job that has not run is not over, unless all were cleared; the
\* import somebody deletes is.
Tracked(j, rows) ==
    /\ j.kind = "import" => j.imp \in DOMAIN rows /\ rows[j.imp].status \in {"processing", "cleared"}
    /\ j.kind = "purgeImport" => j.imp \in DOMAIN rows /\ rows[j.imp].status # "processing"

SameFile(j, k) == j.kind = "import" /\ k.kind = "import" /\ j.imp = k.imp

RequestsReady ==
    /\ \A j \in asked : Tracked(j, imports)
    /\ \A k \in DOMAIN chain : Tracked(chain[k], imports)
    /\ \A j \in replies : j.kind # "import" /\ Tracked(j, imports)

OneImportEach ==
    /\ \A j, k \in asked : SameFile(j, k) => j = k
    /\ \A j \in asked : \A k \in DOMAIN chain : ~SameFile(j, chain[k])
    /\ \A k, l \in DOMAIN chain : SameFile(chain[k], chain[l]) => k = l

\* A delete that has purged goes on about an import without rows, unless it was
\* cleared meanwhile.
PurgedStaysEmpty ==
    \A j \in replies : j.kind = "purgeImport" /\ imports[j.imp].status = "over" =>
        \A r \in records : r.imp # j.imp

RowsTracked == \A r \in records : r.imp # Untracked => r.imp \in DOMAIN imports

ImportsInv == RequestsReady /\ OneImportEach /\ PurgedStaysEmpty /\ RowsTracked /\ DroppedImportLeavesNothing

ArchiveInv == TypeOK /\ OthersWait /\ HeadReady /\ ImportsInv

-----------------------------------------------------------------------------
(* The chain.                                                              *)

LEMMA HeadTyped ==
    ASSUME TypeOK, chain # <<>>
    PROVE  /\ 1 \in DOMAIN chain /\ chain[1] \in Job /\ Len(chain) \in Nat /\ Len(chain) > 0
           /\ DOMAIN chain = 1 .. Len(chain)
<1>1. chain \in Seq(Job)
  BY DEF TypeOK
<1>2. Len(chain) \in Nat /\ DOMAIN chain = 1 .. Len(chain) /\ Len(chain) # 0
  BY <1>1, LenProperties, EmptySeq
<1>3. 1 \in DOMAIN chain
  BY <1>2
<1>4. QED
  BY <1>1, <1>2, <1>3, ElementOfSeq

\* The next job begins.
LEMMA NextJob ==
    ASSUME TypeOK, chain # <<>>
    PROVE  Rest \in Seq(Job) /\ \A k \in DOMAIN Rest : k + 1 \in DOMAIN chain /\ k + 1 # 1 /\ k + 1 \in Nat /\ Rest[k] = chain[k + 1]
<1>1. chain \in Seq(Job)
  BY DEF TypeOK
<1>2. Rest \in Seq(Job) /\ Len(Rest) = Len(chain) - 1 /\ \A k \in 1 .. Len(Rest) : Rest[k] = chain[k + 1]
  BY <1>1, HeadTailProperties DEF Rest
<1>3. DOMAIN Rest = 1 .. Len(Rest) /\ Len(chain) \in Nat /\ DOMAIN chain = 1 .. Len(chain)
  BY <1>1, <1>2, LenProperties
<1>4. QED
  BY <1>2, <1>3

\* The running job takes a step.
LEMMA HeadChanged ==
    ASSUME TypeOK, chain # <<>>, NEW x \in Job, chain' = [chain EXCEPT ![1] = x]
    PROVE  /\ chain' \in Seq(Job) /\ DOMAIN chain' = DOMAIN chain /\ chain'[1] = x /\ chain' # <<>>
           /\ \A k \in DOMAIN chain : k # 1 => chain'[k] = chain[k]
<1>1. chain \in Seq(Job) /\ 1 \in DOMAIN chain /\ Len(chain) > 0
  BY HeadTyped DEF TypeOK
<1>2. chain' \in Seq(Job)
  BY <1>1, ExceptSeq
<1>3. DOMAIN chain' = DOMAIN chain /\ chain'[1] = x /\ \A k \in DOMAIN chain : k # 1 => chain'[k] = chain[k]
  BY <1>1
<1>4. chain' # <<>>
  BY <1>1, <1>3, EmptySeq
<1>5. QED
  BY <1>2, <1>3, <1>4

\* A job joins at the end.
LEMMA JobAppended ==
    ASSUME TypeOK, NEW j \in Job, chain' = Append(chain, j)
    PROVE  /\ chain' \in Seq(Job) /\ chain' # <<>>
           /\ DOMAIN chain' = DOMAIN chain \cup {Len(chain) + 1} /\ Len(chain) + 1 \notin DOMAIN chain
           /\ chain'[Len(chain) + 1] = j /\ \A k \in DOMAIN chain : chain'[k] = chain[k]
           /\ chain # <<>> => 1 \in DOMAIN chain
           /\ chain = <<>> => Len(chain) + 1 = 1
<1>1. chain \in Seq(Job) /\ Len(chain) \in Nat /\ DOMAIN chain = 1 .. Len(chain)
  BY LenProperties DEF TypeOK
<1>2. chain' \in Seq(Job) /\ Len(chain') = Len(chain) + 1 /\ chain'[Len(chain) + 1] = j
      /\ \A k \in 1 .. Len(chain) : chain'[k] = chain[k]
  BY <1>1, AppendProperties
<1>3. DOMAIN chain' = 1 .. Len(chain) + 1
  BY <1>2, LenProperties
<1>4. chain' # <<>>
  BY <1>1, <1>2, EmptySeq
<1>5. chain = <<>> => Len(chain) = 0
  BY EmptySeq
<1>6. chain # <<>> => 1 \in DOMAIN chain
  BY HeadTyped
<1>7. QED
  BY <1>1, <1>2, <1>3, <1>4, <1>5, <1>6

-----------------------------------------------------------------------------
(* What happens to the imports.                                            *)

\* A step keeps the jobs' kinds and imports if each job there is after it was
\* there before it.
ChainKept == /\ DOMAIN chain' = DOMAIN chain
             /\ \A k \in DOMAIN chain : chain'[k].kind = chain[k].kind /\ chain'[k].imp = chain[k].imp
ChainShorter == \A k \in DOMAIN chain' : k + 1 \in DOMAIN chain /\ chain'[k] = chain[k + 1]
                                        /\ k \in Nat /\ k + 1 # 1

\* Imports keep their status, or are cleared, which a dropped one is not.
Stable == \A i \in DOMAIN imports :
    /\ i \in DOMAIN imports'
    /\ \/ imports'[i].status = imports[i].status
       \/ imports'[i].status = "cleared" /\ imports[i].status # "dropped"

\* New rows are of a file whose job still runs.
RowsFrom == \A r \in records' : r \in records \/ r.imp = Untracked
              \/ (chain # <<>> /\ chain[1].kind = "import" /\ r.imp = chain[1].imp)

LEMMA StableKeeps ==
    ASSUME TypeOK, ImportsInv, Stable, RowsFrom, UNCHANGED asked, replies' \subseteq replies, ChainKept \/ ChainShorter \/ chain' = <<>>
    PROVE  ImportsInv'
<1>1. \A j : Tracked(j, imports) => Tracked(j, imports')
  BY DEF Tracked, Stable
<1>2. DOMAIN <<>> = {}
  BY EmptySeq
<1>3. \A k \in DOMAIN chain' : Tracked(chain'[k], imports')
  <2>1. CASE ChainKept
    BY <2>1 DEF ChainKept, ImportsInv, RequestsReady, Tracked, Stable
  <2>2. CASE ChainShorter
    BY <1>1, <2>2 DEF ChainShorter, ImportsInv, RequestsReady
  <2>3. QED
    BY <1>2, <2>1, <2>2
<1>4. RequestsReady'
  BY <1>1, <1>3 DEF ImportsInv, RequestsReady
<1>5. OneImportEach'
  <2>1. CASE ChainKept
    BY <2>1 DEF ChainKept, ImportsInv, OneImportEach, SameFile
  <2>2. CASE ChainShorter
    <3>1. \A k, l \in DOMAIN chain' : SameFile(chain'[k], chain'[l]) => k = l
      <4> SUFFICES ASSUME NEW k \in DOMAIN chain', NEW l \in DOMAIN chain', SameFile(chain'[k], chain'[l]) PROVE k = l
        OBVIOUS
      <4>1. k + 1 = l + 1
        BY <2>2 DEF ChainShorter, ImportsInv, OneImportEach
      <4>2. k \in Nat /\ l \in Nat
        BY <2>2 DEF ChainShorter
      <4>3. QED
        BY <4>1, <4>2
    <3>2. QED
      BY <2>2, <3>1 DEF ChainShorter, ImportsInv, OneImportEach
  <2>3. QED
    BY <1>2, <2>1, <2>2 DEF ImportsInv, OneImportEach
<1>6. chain # <<>> /\ chain[1].kind = "import" => chain[1].imp \in DOMAIN imports /\ imports[chain[1].imp].status \in {"processing", "cleared"}
  BY HeadTyped DEF ImportsInv, RequestsReady, Tracked
<1>7. PurgedStaysEmpty'
  <2> SUFFICES ASSUME NEW j \in replies, j.kind = "purgeImport", imports'[j.imp].status = "over", NEW r \in records'
      PROVE  r.imp # j.imp
    BY DEF PurgedStaysEmpty
  <2>1. j.imp \in DOMAIN imports /\ imports[j.imp].status = "over"
    BY DEF ImportsInv, RequestsReady, Tracked, Stable
  <2>2. CASE r \in records
    BY <2>1, <2>2 DEF ImportsInv, PurgedStaysEmpty
  <2>3. CASE r.imp = Untracked
    <3>1. Untracked \notin DOMAIN imports
      BY LenProperties DEF TypeOK, Untracked
    <3>2. QED
      BY <2>1, <2>3, <3>1
  <2>4. CASE chain # <<>> /\ chain[1].kind = "import" /\ r.imp = chain[1].imp
    BY <1>6, <2>1, <2>4
  <2>5. QED
    BY <2>2, <2>3, <2>4 DEF RowsFrom
<1>8. RowsTracked' /\ DroppedImportLeavesNothing'
  <2> SUFFICES ASSUME NEW r \in records', r.imp # Untracked
      PROVE  r.imp \in DOMAIN imports' /\ imports'[r.imp].status # "dropped"
    BY DEF RowsTracked, DroppedImportLeavesNothing
  <2>1. r.imp \in DOMAIN imports /\ imports[r.imp].status # "dropped"
    BY <1>6 DEF ImportsInv, RowsTracked, DroppedImportLeavesNothing, RowsFrom
  <2>2. QED
    BY <2>1 DEF Stable
<1>9. QED
  BY <1>4, <1>5, <1>7, <1>8 DEF ImportsInv

\* The steps that leave the imports alone.
LEMMA SameImports == UNCHANGED imports => Stable
BY DEF Stable

LEMMA FewerRows == records' \subseteq records => RowsFrom
BY DEF RowsFrom

\* The import of the running job gets its last status, and the job is gone.
LEMMA PatchedTyped ==
    ASSUME TypeOK, NEW i, NEW st \in {"processing", "over"}, NEW some \in BOOLEAN, Patch(i, st, some)
    PROVE  /\ imports' \in Seq(ImportRow) /\ Len(imports') = Len(imports)
           /\ DOMAIN imports' = DOMAIN imports
           /\ \A k \in DOMAIN imports : k # i => imports'[k] = imports[k]
           /\ i \in DOMAIN imports => imports'[i] = imports[i] \/ (imports[i].status = "processing" /\ imports'[i].status = st)
<1>1. imports \in Seq(ImportRow) /\ DOMAIN imports = 1 .. Len(imports)
  BY LenProperties DEF TypeOK
<1>2. CASE UNCHANGED imports
  <2>1. imports' = imports
    BY <1>2
  <2>2. QED
    BY <1>1, <2>1
<1>3. CASE imports[i].status = "processing" /\ imports' = [imports EXCEPT ![i] = [status |-> st, some |-> some]]
  <2> DEFINE x == [status |-> st, some |-> some]
  <2>1. x \in ImportRow /\ x.status = st
    BY DEF ImportRow
  <2> HIDE DEF x
  <2>2. imports' = [imports EXCEPT ![i] = x]
    BY <1>3 DEF x
  <2>3. CASE i \in DOMAIN imports
    <3>1. imports' \in Seq(ImportRow) /\ Len(imports') = Len(imports)
      BY <1>1, <2>1, <2>2, <2>3, ExceptSeq
    <3>2. QED
      BY <1>1, <1>3, <2>1, <2>2, <2>3, <3>1
  <2>4. CASE i \notin DOMAIN imports
    <3>1. imports' = imports
      BY <1>1, <2>2, <2>4
    <3>2. QED
      BY <1>1, <2>4, <3>1
  <2>5. QED
    BY <2>3, <2>4
<1>4. QED
  BY <1>2, <1>3 DEF Patch

LEMMA ImportEnds ==
    ASSUME TypeOK, ImportsInv, chain # <<>>, chain[1].kind = "import", NEW some \in BOOLEAN,
           Patch(chain[1].imp, "over", some), chain' = Rest, UNCHANGED <<records, requests>>
    PROVE  ImportsInv'
<1> DEFINE i == chain[1].imp
<1>1. /\ i \in DOMAIN imports /\ imports[i].status \in {"processing", "cleared"}
      /\ 1 \in DOMAIN chain
  BY HeadTyped DEF ImportsInv, RequestsReady, Tracked
<1>2. /\ DOMAIN imports' = DOMAIN imports
      /\ \A k \in DOMAIN imports : k # i => imports'[k] = imports[k]
      /\ imports'[i] = imports[i] \/ (imports[i].status = "processing" /\ imports'[i].status = "over")
  BY <1>1, PatchedTyped
<1>3. \A k \in DOMAIN chain' : k + 1 \in DOMAIN chain /\ k + 1 # 1 /\ k + 1 \in Nat /\ chain'[k] = chain[k + 1]
  BY NextJob
<1>4. CASE imports'[i] = imports[i]
  <2>1. Stable
    BY <1>2, <1>4 DEF Stable
  <2>2. ChainShorter
    <3>1. \A k \in DOMAIN chain' : k \in Nat
      BY NextJob, LenProperties
    <3>2. QED
      BY <1>3, <3>1 DEF ChainShorter
  <2>3. QED
    BY <2>1, <2>2, FewerRows, StableKeeps DEF requests
<1>5. CASE imports[i].status = "processing" /\ imports'[i].status = "over"
  <2>1. \A j : Tracked(j, imports) /\ (j.kind = "import" => j.imp # i) => Tracked(j, imports')
    BY <1>2, <1>5 DEF Tracked
  <2>2. \A j \in asked : j.kind = "import" => j.imp # i
    BY <1>1 DEF ImportsInv, OneImportEach, SameFile
  <2>3. \A k \in DOMAIN chain' : chain'[k].kind = "import" => chain'[k].imp # i
    BY <1>1, <1>3 DEF ImportsInv, OneImportEach, SameFile
  <2>4. \A k \in DOMAIN chain' : Tracked(chain'[k], imports')
    BY <1>3, <2>1, <2>3 DEF ImportsInv, RequestsReady
  <2>5. \A j \in replies : Tracked(j, imports')
    BY <1>2, <1>5 DEF ImportsInv, RequestsReady, Tracked, PurgedStaysEmpty
  <2>6. RequestsReady'
    BY <2>1, <2>2, <2>4, <2>5 DEF ImportsInv, RequestsReady, requests
  <2>7. OneImportEach'
    <3>1. \A k, l \in DOMAIN chain' : SameFile(chain'[k], chain'[l]) => k = l
      <4> SUFFICES ASSUME NEW k \in DOMAIN chain', NEW l \in DOMAIN chain', SameFile(chain'[k], chain'[l]) PROVE k = l
        OBVIOUS
      <4>1. k + 1 = l + 1
        BY <1>3 DEF ImportsInv, OneImportEach
      <4>2. k \in Nat /\ l \in Nat
        BY NextJob, LenProperties
      <4>3. QED
        BY <4>1, <4>2
    <3>2. QED
      BY <1>3, <3>1 DEF ImportsInv, OneImportEach, requests
  <2>8. PurgedStaysEmpty'
    BY <1>2, <1>5 DEF ImportsInv, RequestsReady, Tracked, PurgedStaysEmpty, requests
  <2>9. RowsTracked' /\ DroppedImportLeavesNothing'
    BY <1>2, <1>5 DEF ImportsInv, RowsTracked, DroppedImportLeavesNothing
  <2>10. QED
    BY <2>6, <2>7, <2>8, <2>9 DEF ImportsInv
<1>6. QED
  BY <1>2, <1>4, <1>5

-----------------------------------------------------------------------------
(* The shapes of a step.                                                   *)

Phases == {"queued", "inserting", "writing", "written", "purging", "unlinking"}

\* The running job goes on as x.
LEMMA HeadGoesOn ==
    ASSUME ArchiveInv, chain # <<>>, NEW x \in Job, chain' = [chain EXCEPT ![1] = x],
           x.kind = chain[1].kind, x.imp = chain[1].imp, UNCHANGED requests,
           records' \subseteq Row, UniqueNumbers', file' \in File, archive' \in BOOLEAN,
           imports' \in Seq(ImportRow), Len(imports') = Len(imports), Stable, RowsFrom
    PROVE  /\ TypeOK' /\ OthersWait' /\ ImportsInv' /\ chain' # <<>> /\ chain'[1] = x
<1>1. /\ chain' \in Seq(Job) /\ DOMAIN chain' = DOMAIN chain /\ chain'[1] = x /\ chain' # <<>>
      /\ \A k \in DOMAIN chain : k # 1 => chain'[k] = chain[k]
  BY HeadChanged DEF ArchiveInv
<1>2. TypeOK'
  BY <1>1 DEF ArchiveInv, TypeOK, requests
<1>3. OthersWait'
  BY <1>1 DEF ArchiveInv, OthersWait, requests
<1>4. ChainKept
  BY <1>1 DEF ChainKept
<1>5. ImportsInv'
  BY <1>4, StableKeeps DEF ArchiveInv, requests
<1>6. QED
  BY <1>1, <1>2, <1>3, <1>5

\* The running job is over, and the next one has not begun.
LEMMA NextWaits ==
    ASSUME ArchiveInv, chain # <<>>, chain' = Rest, UNCHANGED asked
    PROVE  chain' \in Seq(Job) /\ OthersWait' /\ HeadReady' /\ ChainShorter
<1>1. chain' \in Seq(Job) /\ \A k \in DOMAIN chain' : k + 1 \in DOMAIN chain /\ k + 1 # 1 /\ chain'[k] = chain[k + 1]
  BY NextJob DEF ArchiveInv
<1>2. \A k \in DOMAIN chain' : k \in Nat
  BY <1>1, LenProperties
<1>3. \A k \in DOMAIN chain' : chain'[k].phase = "queued"
  BY <1>1 DEF ArchiveInv, OthersWait
<1>4. chain' # <<>> => 1 \in DOMAIN chain'
  <2>1. Len(chain') \in Nat /\ DOMAIN chain' = 1 .. Len(chain') /\ (Len(chain') = 0 => chain' = <<>>)
    BY <1>1, LenProperties, EmptySeq
  <2>2. QED
    BY <2>1
<1>5. OthersWait'
  BY <1>3 DEF ArchiveInv, OthersWait
<1>6. HeadReady'
  BY <1>3, <1>4 DEF HeadReady
<1>7. ChainShorter
  BY <1>1, <1>2 DEF ChainShorter
<1>8. QED
  BY <1>1, <1>5, <1>6, <1>7

LEMMA HeadEnds ==
    ASSUME ArchiveInv, chain # <<>>, chain' = Rest, UNCHANGED <<records, imports, requests>>,
           file' \in File, archive' \in BOOLEAN
    PROVE  ArchiveInv'
<1>1. chain' \in Seq(Job) /\ OthersWait' /\ HeadReady' /\ ChainShorter
  BY NextWaits DEF requests
<1>2. ImportsInv'
  BY <1>1, SameImports, FewerRows, StableKeeps DEF ArchiveInv, requests
<1>3. TypeOK'
  BY <1>1 DEF ArchiveInv, TypeOK, UniqueNumbers, requests
<1>4. QED
  BY <1>1, <1>2, <1>3 DEF ArchiveInv

-----------------------------------------------------------------------------
(* The requests.                                                           *)

LEMMA InitArchive == Init => ArchiveInv
<1> SUFFICES ASSUME Init PROVE ArchiveInv
  OBVIOUS
<1>1. records = {} /\ imports = <<>> /\ chain = <<>> /\ asked = {} /\ replies = {} /\ file = NoFile /\ archive = FALSE
  BY DEF Init
<1>2. DOMAIN <<>> = {} /\ Len(<<>>) = 0 /\ <<>> \in Seq(ImportRow) /\ <<>> \in Seq(Job)
  BY EmptySeq
<1>3. TypeOK
  <2>1. NoFile \in File
    BY DEF File, NoFile
  <2>2. imports \in Seq(ImportRow) /\ Len(imports) <= MaxImports /\ chain \in Seq(Job)
    BY <1>1, <1>2, BoundsAssumption
  <2>3. QED
    BY <1>1, <2>1, <2>2 DEF TypeOK, UniqueNumbers
<1>4. OthersWait /\ HeadReady
  BY <1>1, <1>2 DEF OthersWait, HeadReady
<1>5. ImportsInv
  BY <1>1, <1>2 DEF ImportsInv, RequestsReady, OneImportEach, PurgedStaysEmpty, RowsTracked, DroppedImportLeavesNothing
<1>6. QED
  BY <1>3, <1>4, <1>5 DEF ArchiveInv

LEMMA NewJobTyped ==
    ASSUME NEW kind \in {"import", "archive", "sweep", "restore", "purgeImport", "purgeIpo"},
           NEW i \in Import \cup {Untracked}, NEW t \in SUBSET No
    PROVE  LET j == NewJob(kind, i, t)
           IN  j \in Job /\ j.kind = kind /\ j.imp = i /\ j.phase = "queued"
BY DEF NewJob, Job

\* A request whose check passed, for what its job is about.
LEMMA Wanted ==
    ASSUME ArchiveInv, NEW j \in Job, j.phase = "queued", j.kind # "import", Tracked(j, imports),
           Want(j), UNCHANGED imports
    PROVE  ArchiveInv'
<1>1. asked' = asked \cup {j} /\ UNCHANGED <<records, imports, file, archive, chain, replies>>
  BY DEF Want
<1>2. TypeOK'
  BY <1>1 DEF ArchiveInv, TypeOK, UniqueNumbers
<1>3. OthersWait' /\ HeadReady'
  BY <1>1 DEF ArchiveInv, OthersWait, HeadReady, Numbers, Todo
<1>4. RequestsReady'
  BY <1>1 DEF ArchiveInv, ImportsInv, RequestsReady
<1>5. OneImportEach'
  BY <1>1 DEF ArchiveInv, ImportsInv, OneImportEach, SameFile
<1>6. (PurgedStaysEmpty /\ RowsTracked /\ DroppedImportLeavesNothing)'
  BY <1>1 DEF ArchiveInv, ImportsInv, PurgedStaysEmpty, RowsTracked, DroppedImportLeavesNothing
<1>7. QED
  BY <1>2, <1>3, <1>4, <1>5, <1>6 DEF ArchiveInv, ImportsInv

LEMMA StartImportKeeps == ASSUME ArchiveInv, StartImport PROVE ArchiveInv'
<1> DEFINE i == Len(imports) + 1
           new == [status |-> "processing", some |-> FALSE]
<1>1. imports \in Seq(ImportRow) /\ Len(imports) \in Nat /\ DOMAIN imports = 1 .. Len(imports) /\ MaxImports \in Nat
  BY LenProperties, BoundsAssumption DEF ArchiveInv, TypeOK
<1>2. PICK t \in Files : Want(NewJob("import", i, t))
  BY DEF StartImport
<1>3. i \in Import /\ i # Untracked /\ t \in SUBSET No
  BY <1>1, FilesAssumption DEF StartImport, Import, Untracked
<1> DEFINE j == NewJob("import", i, t)
<1>4. j \in Job /\ j.kind = "import" /\ j.imp = i /\ j.phase = "queued"
  BY <1>3, NewJobTyped
<1>5. asked' = asked \cup {j} /\ UNCHANGED <<records, file, archive, chain, replies>>
  BY <1>2 DEF Want
<1> HIDE DEF j
<1>6. new \in ImportRow /\ new.status = "processing"
  BY DEF ImportRow
<1>7. imports' = Append(imports, new) /\ Len(imports) < MaxImports
  BY DEF StartImport
<1> HIDE DEF new
<1>8. /\ imports' \in Seq(ImportRow) /\ Len(imports') = i /\ imports'[i] = new
      /\ \A k \in 1 .. Len(imports) : imports'[k] = imports[k]
  BY <1>1, <1>6, <1>7, AppendProperties
<1>9. /\ DOMAIN imports' = DOMAIN imports \cup {i} /\ i \notin DOMAIN imports
      /\ \A k \in DOMAIN imports : imports'[k] = imports[k]
  <2>1. DOMAIN imports' = 1 .. i
    BY <1>8, LenProperties
  <2>2. QED
    BY <1>1, <1>8, <2>1
<1>10. TypeOK'
  BY <1>1, <1>4, <1>5, <1>7, <1>8 DEF ArchiveInv, TypeOK, UniqueNumbers
<1>11. OthersWait' /\ HeadReady'
  BY <1>4, <1>5 DEF ArchiveInv, OthersWait, HeadReady, Numbers, Todo
<1> HIDE DEF i
<1>12. \A k : Tracked(k, imports) => Tracked(k, imports')
  BY <1>9 DEF Tracked
<1>13. Tracked(j, imports')
  BY <1>4, <1>6, <1>8, <1>9 DEF Tracked
<1>14. RequestsReady'
  BY <1>5, <1>12, <1>13 DEF ArchiveInv, ImportsInv, RequestsReady
<1>15. \A k : Tracked(k, imports) /\ k.kind = "import" => k.imp # i
  BY <1>9 DEF Tracked
<1>16. OneImportEach'
  BY <1>4, <1>5, <1>15 DEF ArchiveInv, ImportsInv, RequestsReady, OneImportEach, SameFile
<1>17. (PurgedStaysEmpty /\ RowsTracked /\ DroppedImportLeavesNothing)'
  BY <1>5, <1>9 DEF ArchiveInv, ImportsInv, RequestsReady, Tracked, PurgedStaysEmpty, RowsTracked, DroppedImportLeavesNothing
<1>18. QED
  BY <1>10, <1>11, <1>14, <1>16, <1>17 DEF ArchiveInv, ImportsInv

LEMMA AskKeeps == ASSUME ArchiveInv, Ask PROVE ArchiveInv'
<1>1. CASE StartImport
  BY <1>1, StartImportKeeps
<1>2. CASE DeleteImport
  <2>1. PICK i \in DOMAIN imports : Deletable(i) /\ Want(NewJob("purgeImport", i, {})) /\ UNCHANGED imports
    BY <1>2 DEF DeleteImport
  <2>2. i \in Import
    BY LenProperties, BoundsAssumption DEF ArchiveInv, TypeOK, Import
  <2>3. NewJob("purgeImport", i, {}) \in Job /\ NewJob("purgeImport", i, {}).kind = "purgeImport"
        /\ NewJob("purgeImport", i, {}).imp = i /\ NewJob("purgeImport", i, {}).phase = "queued"
    BY <2>2, NewJobTyped
  <2>4. Tracked(NewJob("purgeImport", i, {}), imports)
    BY <2>1, <2>3 DEF Tracked, Deletable
  <2>5. QED
    BY <2>1, <2>3, <2>4, Wanted
<1>3. ASSUME NEW kind \in {"purgeIpo", "archive", "restore", "sweep"}, Want(NewJob(kind, Untracked, {})), UNCHANGED imports
      PROVE  ArchiveInv'
  <2> DEFINE j == NewJob(kind, Untracked, {})
  <2>1. j \in Job /\ j.kind = kind /\ j.phase = "queued"
    BY NewJobTyped
  <2>2. Want(j)
    BY <1>3
  <2> HIDE DEF j
  <2>3. Tracked(j, imports)
    BY <2>1 DEF Tracked
  <2>4. QED
    BY <1>3, <2>1, <2>2, <2>3, Wanted
<1>4. QED
  BY <1>1, <1>2, <1>3 DEF Ask, DeleteIpoRecords, ArchiveIpo, RestoreIpo, SweepDue

LEMMA EnqueueKeeps == ASSUME ArchiveInv, Enqueue PROVE ArchiveInv'
<1>1. PICK j \in asked : asked' = asked \ {j} /\ chain' = Append(chain, j)
  BY DEF Enqueue
<1>2. UNCHANGED <<records, imports, file, archive, replies>>
  BY DEF Enqueue, store
<1>3. TypeOK /\ j \in Job /\ j.phase = "queued" /\ Tracked(j, imports)
  BY DEF ArchiveInv, TypeOK, OthersWait, ImportsInv, RequestsReady
<1> DEFINE n == Len(chain) + 1
<1>4. /\ chain' \in Seq(Job) /\ chain' # <<>>
      /\ DOMAIN chain' = DOMAIN chain \cup {n} /\ n \notin DOMAIN chain
      /\ chain'[n] = j /\ \A k \in DOMAIN chain : chain'[k] = chain[k]
      /\ chain # <<>> => 1 \in DOMAIN chain
      /\ chain = <<>> => n = 1
  BY <1>1, <1>3, JobAppended
<1> HIDE DEF n
<1>5. TypeOK'
  BY <1>1, <1>2, <1>4 DEF ArchiveInv, TypeOK, UniqueNumbers
<1>6. OthersWait'
  BY <1>1, <1>3, <1>4 DEF ArchiveInv, OthersWait
<1>7. HeadReady'
  <2>1. CASE chain = <<>>
    BY <1>3, <1>4, <2>1 DEF HeadReady
  <2>2. CASE chain # <<>>
    <3>1. chain'[1] = chain[1]
      BY <1>4, <2>2
    <3>2. QED
      BY <1>2, <2>2, <3>1 DEF ArchiveInv, HeadReady, Numbers, Todo
  <2>3. QED
    BY <2>1, <2>2
<1>8. RequestsReady'
  BY <1>1, <1>2, <1>3, <1>4 DEF ArchiveInv, ImportsInv, RequestsReady
<1>9. OneImportEach'
  <2>1. \A k, l \in asked' : SameFile(k, l) => k = l
    BY <1>1 DEF ArchiveInv, ImportsInv, OneImportEach
  <2>2. \A k \in asked' : ~SameFile(k, j)
    BY <1>1 DEF ArchiveInv, ImportsInv, OneImportEach
  <2>3. \A k \in DOMAIN chain : ~SameFile(j, chain[k]) /\ ~SameFile(chain[k], j)
    BY DEF ArchiveInv, ImportsInv, OneImportEach, SameFile
  <2>4. \A k \in asked' : \A l \in DOMAIN chain' : ~SameFile(k, chain'[l])
    BY <1>1, <1>4, <2>2 DEF ArchiveInv, ImportsInv, OneImportEach
  <2>5. \A k, l \in DOMAIN chain' : SameFile(chain'[k], chain'[l]) => k = l
    BY <1>4, <2>3 DEF ArchiveInv, ImportsInv, OneImportEach
  <2>6. QED
    BY <2>1, <2>4, <2>5 DEF OneImportEach
<1>10. (PurgedStaysEmpty /\ RowsTracked /\ DroppedImportLeavesNothing)'
  BY <1>2 DEF ArchiveInv, ImportsInv, PurgedStaysEmpty, RowsTracked, DroppedImportLeavesNothing
<1>11. QED
  BY <1>5, <1>6, <1>7, <1>8, <1>9, <1>10 DEF ArchiveInv, ImportsInv

-----------------------------------------------------------------------------
(* The jobs.                                                               *)

LEMMA InsertedRows ==
    ASSUME TypeOK, NEW n \in No, NEW i \in Import \cup {Untracked}, records' = Inserted(n, i)
    PROVE  /\ records' \subseteq Row /\ UniqueNumbers' /\ records \subseteq records'
           /\ Numbers' = Numbers \cup {n}
           /\ \A r \in records' : r \in records \/ r.imp = i
<1> DEFINE new == [no |-> n, imp |-> i]
<1>1. new \in Row /\ new.no = n /\ new.imp = i
  BY DEF Row
<1>2. CASE \E r \in records : r.no = n
  <2>1. records' = records
    BY <1>2 DEF Inserted
  <2>2. Numbers' = Numbers /\ n \in Numbers
    BY <1>2, <2>1 DEF Numbers
  <2>3. QED
    BY <2>1, <2>2 DEF TypeOK, UniqueNumbers
<1>3. CASE ~\E r \in records : r.no = n
  <2>1. records' = records \cup {new}
    BY <1>3 DEF Inserted
  <2> HIDE DEF new
  <2>2. records' \subseteq Row /\ UniqueNumbers'
    BY <1>1, <1>3, <2>1 DEF TypeOK, UniqueNumbers
  <2>3. Numbers' = Numbers \cup {n}
    BY <1>1, <2>1 DEF Numbers
  <2>4. QED
    BY <1>1, <2>1, <2>2, <2>3
<1>4. QED
  BY <1>2, <1>3

LEMMA HeadFacts ==
    ASSUME ArchiveInv, chain # <<>>
    PROVE  /\ chain[1] \in Job /\ Todo \in SUBSET No /\ chain[1].any \in BOOLEAN
           /\ chain[1].imp \in Import \cup {Untracked} /\ Tracked(chain[1], imports)
           /\ records \subseteq Row /\ UniqueNumbers /\ file \in File /\ archive \in BOOLEAN
           /\ imports \in Seq(ImportRow) /\ file.rows \in SUBSET No /\ Numbers \in SUBSET No
<1>1. TypeOK
  BY DEF ArchiveInv
<1>2. 1 \in DOMAIN chain /\ chain[1] \in Job
  BY <1>1, HeadTyped
<1>3. Tracked(chain[1], imports)
  BY <1>2 DEF ArchiveInv, ImportsInv, RequestsReady
<1>4. file.rows \in SUBSET No /\ Numbers \in SUBSET No
  BY <1>1 DEF TypeOK, File, Numbers, Row
<1>5. QED
  BY <1>1, <1>2, <1>3, <1>4 DEF TypeOK, Job, Todo

LEMMA ImportRowsKeeps == ASSUME ArchiveInv, ImportRows PROVE ArchiveInv'
<1>1. chain # <<>> /\ chain[1].kind = "import" /\ chain[1].phase = "queued"
  BY DEF ImportRows, Running
<1>2. PICK n \in Todo :
          /\ records' = Inserted(n, chain[1].imp)
          /\ chain' = [chain EXCEPT ![1] = [chain[1] EXCEPT !.todo = Todo \ {n}, !.any = chain[1].any \/ records' # records]]
          /\ Patch(chain[1].imp, "processing", chain'[1].any)
  BY DEF ImportRows
<1>3. UNCHANGED <<file, archive, requests>>
  BY DEF ImportRows
<1> DEFINE b == chain[1].any \/ records' # records
           t == Todo \ {n}
           x == [chain[1] EXCEPT !.todo = t, !.any = b]
<1>4. n \in No /\ t \in SUBSET No /\ b \in BOOLEAN
  BY <1>1, <1>2, HeadFacts
<1>5. /\ records' \subseteq Row /\ UniqueNumbers'
      /\ \A r \in records' : r \in records \/ r.imp = chain[1].imp
  BY <1>1, <1>2, <1>4, HeadFacts, InsertedRows DEF ArchiveInv
<1>6. RowsFrom
  BY <1>1, <1>5 DEF RowsFrom
<1>7. chain[1] \in Job
  BY <1>1, HeadFacts
<1>8. chain' = [chain EXCEPT ![1] = x]
  BY <1>2
<1>9. x \in Job /\ x.kind = chain[1].kind /\ x.imp = chain[1].imp /\ x.phase = chain[1].phase /\ x.any = b
  <2> HIDE DEF b, t
  <2>1. QED
    BY <1>4, <1>7 DEF Job
<1> HIDE DEF x, b, t
<1>10. chain'[1] = x
  BY <1>1, <1>8, <1>9, HeadChanged DEF ArchiveInv
<1>11. Patch(chain[1].imp, "processing", b)
  BY <1>2, <1>9, <1>10
<1>12. /\ imports' \in Seq(ImportRow) /\ Len(imports') = Len(imports) /\ DOMAIN imports' = DOMAIN imports
       /\ \A k \in DOMAIN imports : k # chain[1].imp => imports'[k] = imports[k]
       /\ chain[1].imp \in DOMAIN imports =>
             imports'[chain[1].imp] = imports[chain[1].imp]
             \/ (imports[chain[1].imp].status = "processing" /\ imports'[chain[1].imp].status = "processing")
  BY <1>4, <1>11, PatchedTyped DEF ArchiveInv
<1>13. Stable
  BY <1>12 DEF Stable
<1>14. file' \in File /\ archive' \in BOOLEAN
  BY <1>1, <1>3, HeadFacts
<1>15. TypeOK' /\ OthersWait' /\ ImportsInv' /\ chain' # <<>> /\ chain'[1] = x
  BY <1>1, <1>3, <1>5, <1>6, <1>8, <1>9, <1>12, <1>13, <1>14, HeadGoesOn
<1>16. HeadReady'
  BY <1>1, <1>9, <1>15 DEF HeadReady
<1>17. QED
  BY <1>15, <1>16 DEF ArchiveInv

\* An import that is over, or failed; any other job that failed.
LEMMA ImportOver ==
    ASSUME ArchiveInv, chain # <<>>, chain[1].kind = "import", NEW some \in BOOLEAN,
           Patch(chain[1].imp, "over", some), chain' = Rest, UNCHANGED <<records, file, archive, requests>>
    PROVE  ArchiveInv'
<1>1. ImportsInv'
  BY ImportEnds DEF ArchiveInv
<1>2. imports' \in Seq(ImportRow) /\ Len(imports') = Len(imports)
  BY PatchedTyped DEF ArchiveInv
<1>3. chain' \in Seq(Job) /\ OthersWait' /\ HeadReady'
  BY NextWaits DEF requests
<1>4. TypeOK'
  BY <1>2, <1>3 DEF ArchiveInv, TypeOK, UniqueNumbers, requests
<1>5. QED
  BY <1>1, <1>3, <1>4 DEF ArchiveInv

LEMMA EndImportKeeps == ASSUME ArchiveInv, EndImport PROVE ArchiveInv'
<1>1. /\ chain # <<>> /\ chain[1].kind = "import"
      /\ Patch(chain[1].imp, "over", chain[1].any) /\ chain' = Rest /\ UNCHANGED <<records, file, archive, requests>>
  BY DEF EndImport, Running
<1>2. chain[1].any \in BOOLEAN
  BY <1>1, HeadFacts
<1>3. QED
  BY <1>1, <1>2, ImportOver

LEMMA JobFailsKeeps == ASSUME ArchiveInv, JobFails PROVE ArchiveInv'
<1>1. chain # <<>> /\ chain' = Rest /\ UNCHANGED <<records, file, archive, requests>>
  BY DEF JobFails, AfterFailure
<1>2. CASE chain[1].kind = "import"
  <2>1. Patch(chain[1].imp, "over", imports[chain[1].imp].some)
    BY <1>2 DEF JobFails
  <2>2. imports[chain[1].imp].some \in BOOLEAN
    <3>1. chain[1].imp \in DOMAIN imports
      BY <1>1, <1>2, HeadFacts DEF Tracked
    <3>2. imports[chain[1].imp] \in ImportRow
      BY <1>1, <3>1, HeadFacts, ElementOfSeq, LenProperties
    <3>3. QED
      BY <3>2 DEF ImportRow
  <2>3. QED
    BY <1>1, <1>2, <2>1, <2>2, ImportOver
<1>3. CASE chain[1].kind # "import"
  <2>1. UNCHANGED imports
    BY <1>3 DEF JobFails
  <2>2. file' \in File /\ archive' \in BOOLEAN
    BY <1>1, HeadFacts
  <2>3. QED
    BY <1>1, <2>1, <2>2, HeadEnds
<1>4. QED
  BY <1>2, <1>3

\* A step of the running job x that leaves the imports alone and inserts no row
\* of an import.
LEMMA JobGoesOn ==
    ASSUME ArchiveInv, chain # <<>>, NEW x \in Job, chain' = [chain EXCEPT ![1] = x],
           x.kind = chain[1].kind, x.imp = chain[1].imp, UNCHANGED <<imports, requests>>,
           records' \subseteq Row, UniqueNumbers', \A r \in records' : r \in records \/ r.imp = Untracked,
           file' \in File, archive' \in BOOLEAN
    PROVE  TypeOK' /\ OthersWait' /\ ImportsInv' /\ chain' # <<>> /\ chain'[1] = x
<1>1. Stable /\ RowsFrom
  BY SameImports DEF RowsFrom
<1>2. imports' \in Seq(ImportRow) /\ Len(imports') = Len(imports)
  BY DEF ArchiveInv, TypeOK
<1>3. QED
  BY <1>1, <1>2, HeadGoesOn

LEMMA OpenArchiveKeeps == ASSUME ArchiveInv, OpenArchive PROVE ArchiveInv'
<1>1. /\ chain # <<>> /\ file' = [state |-> "partial", rows |-> {}] /\ UNCHANGED <<records, imports, archive, requests>>
      /\ chain' = [chain EXCEPT ![1] = [chain[1] EXCEPT !.phase = "writing", !.todo = Numbers]]
  BY DEF OpenArchive, Running, Start, Numbers
<1> DEFINE x == [chain[1] EXCEPT !.phase = "writing", !.todo = Numbers]
<1>2. chain[1] \in Job /\ Numbers \in SUBSET No
  BY <1>1, HeadFacts
<1>3. x \in Job /\ x.kind = chain[1].kind /\ x.imp = chain[1].imp /\ x.phase = "writing" /\ x.todo = Numbers
  <2> DEFINE t == Numbers
  <2>1. t \in SUBSET No
    BY <1>2
  <2> HIDE DEF t
  <2>2. LET y == [chain[1] EXCEPT !.phase = "writing", !.todo = t]
        IN  y \in Job /\ y.kind = chain[1].kind /\ y.imp = chain[1].imp /\ y.phase = "writing" /\ y.todo = t
    BY <1>2, <2>1 DEF Job
  <2>3. QED
    BY <2>2 DEF t
<1>4. chain' = [chain EXCEPT ![1] = x]
  BY <1>1
<1> HIDE DEF x
<1>5. file' \in File /\ file'.state = "partial" /\ archive' \in BOOLEAN /\ records' \subseteq Row /\ UniqueNumbers' /\ Numbers' = Numbers
  BY <1>1, HeadFacts DEF File, UniqueNumbers, Numbers
<1>6. TypeOK' /\ OthersWait' /\ ImportsInv' /\ chain' # <<>> /\ chain'[1] = x
  BY <1>1, <1>3, <1>4, <1>5, JobGoesOn
<1>7. HeadReady'
  BY <1>3, <1>5, <1>6 DEF HeadReady, Todo
<1>8. QED
  BY <1>6, <1>7 DEF ArchiveInv

LEMMA WriteRowKeeps == ASSUME ArchiveInv, WriteRow PROVE ArchiveInv'
<1>1. chain # <<>> /\ chain[1].phase = "writing" /\ UNCHANGED <<records, imports, archive, requests>>
  BY DEF WriteRow, Running
<1>2. PICK n \in Todo : file' = [file EXCEPT !.rows = @ \cup {n}] /\ chain' = [chain EXCEPT ![1].todo = @ \ {n}]
  BY DEF WriteRow, Handled
<1> DEFINE t == Todo \ {n}
           x == [chain[1] EXCEPT !.todo = t]
<1>3. chain[1] \in Job /\ t \in SUBSET No /\ n \in No /\ file \in File
  BY <1>1, HeadFacts
<1>4. chain' = [chain EXCEPT ![1] = x]
  BY <1>2 DEF Todo
<1>5. x \in Job /\ x.kind = chain[1].kind /\ x.imp = chain[1].imp /\ x.phase = "writing" /\ x.todo = t
  <2> HIDE DEF t
  <2>1. QED
    BY <1>1, <1>3 DEF Job
<1> HIDE DEF x
<1>6. file' \in File /\ file'.state = file.state /\ file'.rows = file.rows \cup {n}
  BY <1>2, <1>3 DEF File
<1>7. archive' \in BOOLEAN /\ records' \subseteq Row /\ UniqueNumbers' /\ Numbers' = Numbers
  BY <1>1, HeadFacts DEF UniqueNumbers, Numbers
<1>8. TypeOK' /\ OthersWait' /\ ImportsInv' /\ chain' # <<>> /\ chain'[1] = x
  BY <1>1, <1>4, <1>5, <1>6, <1>7, JobGoesOn
<1>9. file.state = "partial" /\ Numbers \subseteq file.rows \cup Todo
  BY <1>1 DEF ArchiveInv, HeadReady
<1>10. HeadReady'
  <2>1. Numbers' \subseteq file'.rows \cup t
    BY <1>6, <1>7, <1>9
  <2>2. QED
    BY <1>5, <1>6, <1>8, <1>9, <2>1 DEF HeadReady, Todo
<1>11. QED
  BY <1>8, <1>10 DEF ArchiveInv

\* A step of the running job to its next phase.
LEMMA PhaseChanged ==
    ASSUME ArchiveInv, chain # <<>>, NEW ph \in Phases, chain' = [chain EXCEPT ![1].phase = ph],
           UNCHANGED <<records, imports, requests>>, file' \in File, archive' \in BOOLEAN
    PROVE  /\ TypeOK' /\ OthersWait' /\ ImportsInv' /\ chain' # <<>>
           /\ chain'[1].phase = ph /\ chain'[1].todo = Todo /\ Numbers' = Numbers
<1> DEFINE x == [chain[1] EXCEPT !.phase = ph]
<1>1. chain[1] \in Job /\ records \subseteq Row /\ UniqueNumbers
  BY HeadFacts
<1>2. x \in Job /\ x.kind = chain[1].kind /\ x.imp = chain[1].imp /\ x.phase = ph /\ x.todo = Todo
  BY <1>1 DEF Job, Phases, Todo
<1>3. chain' = [chain EXCEPT ![1] = x]
  OBVIOUS
<1> HIDE DEF x
<1>4. records' \subseteq Row /\ UniqueNumbers' /\ Numbers' = Numbers
  BY <1>1 DEF UniqueNumbers, Numbers
<1>5. TypeOK' /\ OthersWait' /\ ImportsInv' /\ chain' # <<>> /\ chain'[1] = x
  BY <1>2, <1>3, <1>4, JobGoesOn
<1>6. QED
  BY <1>2, <1>4, <1>5

LEMMA CloseFileKeeps == ASSUME ArchiveInv, CloseFile PROVE ArchiveInv'
<1>1. /\ chain # <<>> /\ chain[1].phase = "writing" /\ Todo = {} /\ UNCHANGED <<records, imports, archive, requests>>
      /\ file' = [file EXCEPT !.state = "whole"] /\ chain' = [chain EXCEPT ![1].phase = "written"]
  BY DEF CloseFile, Running, AllHandled, Go
<1>2. file' \in File /\ file'.state = "whole" /\ file'.rows = file.rows /\ archive' \in BOOLEAN /\ "written" \in Phases
  BY <1>1, HeadFacts DEF File, Phases
<1>3. /\ TypeOK' /\ OthersWait' /\ ImportsInv' /\ chain' # <<>> /\ chain'[1].phase = "written" /\ Numbers' = Numbers
  BY <1>1, <1>2, PhaseChanged
<1>4. Numbers \subseteq file.rows
  BY <1>1 DEF ArchiveInv, HeadReady
<1>5. HeadReady'
  BY <1>2, <1>3, <1>4 DEF HeadReady
<1>6. QED
  BY <1>3, <1>5 DEF ArchiveInv

LEMMA UpsertArchiveKeeps == ASSUME ArchiveInv, UpsertArchive PROVE ArchiveInv'
<1>1. /\ chain # <<>> /\ chain[1].phase = "written" /\ UNCHANGED <<records, imports, file, requests>>
      /\ archive' = TRUE /\ chain' = [chain EXCEPT ![1].phase = "purging"]
  BY DEF UpsertArchive, Running, Go
<1>2. file' \in File /\ archive' \in BOOLEAN /\ "purging" \in Phases
  BY <1>1, HeadFacts DEF Phases
<1>3. /\ TypeOK' /\ OthersWait' /\ ImportsInv' /\ chain' # <<>> /\ chain'[1].phase = "purging" /\ Numbers' = Numbers
  BY <1>1, <1>2, PhaseChanged
<1>4. file.state = "whole" /\ Numbers \subseteq file.rows
  BY <1>1 DEF ArchiveInv, HeadReady
<1>5. HeadReady'
  BY <1>1, <1>3, <1>4 DEF HeadReady
<1>6. QED
  BY <1>3, <1>5 DEF ArchiveInv

LEMMA PurgeRowKeeps == ASSUME ArchiveInv, PurgeRow PROVE ArchiveInv'
<1>1. chain # <<>> /\ chain[1].phase \in {"purging", "queued"} /\ UNCHANGED <<imports, file, archive, requests>>
  BY DEF PurgeRow, Purging, Running
<1>2. PICK r \in Scope : records' = records \ {r}
  BY DEF PurgeRow
<1> DEFINE b == chain[1].kind = "purgeImport"
           x == [chain[1] EXCEPT !.any = b]
<1>3. chain' = [chain EXCEPT ![1] = x]
  BY DEF PurgeRow
<1>4. chain[1] \in Job /\ b \in BOOLEAN
  BY <1>1, HeadFacts
<1>5. x \in Job /\ x.kind = chain[1].kind /\ x.imp = chain[1].imp /\ x.phase = chain[1].phase
  <2> HIDE DEF b
  <2>1. QED
    BY <1>4 DEF Job
<1> HIDE DEF x
<1>6. /\ records' \subseteq records /\ records' \subseteq Row /\ UniqueNumbers' /\ Numbers' \subseteq Numbers
      /\ file' \in File /\ archive' \in BOOLEAN
  BY <1>1, <1>2, HeadFacts DEF UniqueNumbers, Numbers
<1>7. TypeOK' /\ OthersWait' /\ ImportsInv' /\ chain' # <<>> /\ chain'[1] = x
  BY <1>1, <1>3, <1>5, <1>6, JobGoesOn
<1>8. HeadReady'
  BY <1>1, <1>5, <1>6, <1>7 DEF ArchiveInv, HeadReady
<1>9. QED
  BY <1>7, <1>8 DEF ArchiveInv

\* The rows of the import are gone when its delete hands over to the request.
LEMMA EndPurgeKeeps == ASSUME ArchiveInv, EndPurge PROVE ArchiveInv'
<1>1. /\ chain # <<>> /\ Scope = {} /\ chain' = Rest /\ UNCHANGED <<records, imports, file, archive, asked>>
      /\ replies' = replies \cup (IF chain[1].kind \in {"purgeImport", "purgeIpo"} THEN {chain[1]} ELSE {})
  BY DEF EndPurge, Purging, Running, store
<1>2. chain[1] \in Job /\ Tracked(chain[1], imports)
  BY <1>1, HeadFacts
<1>3. chain' \in Seq(Job) /\ OthersWait' /\ HeadReady' /\ ChainShorter
  BY <1>1, NextWaits
<1>4. TypeOK'
  BY <1>1, <1>2, <1>3 DEF ArchiveInv, TypeOK, UniqueNumbers
<1>5. RequestsReady'
  BY <1>1, <1>2, <1>3 DEF ArchiveInv, ImportsInv, RequestsReady, ChainShorter
<1>6. OneImportEach'
  <2>1. \A k, l \in DOMAIN chain' : SameFile(chain'[k], chain'[l]) => k = l
    <3> SUFFICES ASSUME NEW k \in DOMAIN chain', NEW l \in DOMAIN chain', SameFile(chain'[k], chain'[l]) PROVE k = l
      OBVIOUS
    <3>1. k + 1 = l + 1 /\ k \in Nat /\ l \in Nat
      BY <1>3 DEF ChainShorter, ArchiveInv, ImportsInv, OneImportEach
    <3>2. QED
      BY <3>1
  <2>2. QED
    BY <1>1, <1>3, <2>1 DEF ArchiveInv, ImportsInv, OneImportEach, ChainShorter
<1>7. chain[1].kind = "purgeImport" => \A r \in records : r.imp # chain[1].imp
  BY <1>1 DEF Scope
<1>8. (PurgedStaysEmpty /\ RowsTracked /\ DroppedImportLeavesNothing)'
  BY <1>1, <1>7 DEF ArchiveInv, ImportsInv, PurgedStaysEmpty, RowsTracked, DroppedImportLeavesNothing
<1>9. QED
  BY <1>3, <1>4, <1>5, <1>6, <1>8 DEF ArchiveInv, ImportsInv

LEMMA OpenFileKeeps == ASSUME ArchiveInv, OpenFile PROVE ArchiveInv'
<1>1. /\ chain # <<>> /\ UNCHANGED <<records, imports, file, archive, requests>>
      /\ chain' = [chain EXCEPT ![1] = [chain[1] EXCEPT !.phase = "inserting", !.todo = file.rows]]
  BY DEF OpenFile, Running, Start, store
<1> DEFINE x == [chain[1] EXCEPT !.phase = "inserting", !.todo = file.rows]
<1>2. chain[1] \in Job /\ file.rows \in SUBSET No /\ "inserting" \in Phases
  BY <1>1, HeadFacts DEF Phases
<1>3. x \in Job /\ x.kind = chain[1].kind /\ x.imp = chain[1].imp /\ x.phase = "inserting" /\ x.todo = file.rows
  <2> DEFINE t == file.rows
  <2>1. t \in SUBSET No
    BY <1>2
  <2> HIDE DEF t
  <2>2. LET y == [chain[1] EXCEPT !.phase = "inserting", !.todo = t]
        IN  y \in Job /\ y.kind = chain[1].kind /\ y.imp = chain[1].imp /\ y.phase = "inserting" /\ y.todo = t
    BY <1>2, <2>1 DEF Job
  <2>3. QED
    BY <2>2 DEF t
<1>4. chain' = [chain EXCEPT ![1] = x]
  BY <1>1
<1> HIDE DEF x
<1>5. file' \in File /\ archive' \in BOOLEAN /\ records' \subseteq Row /\ UniqueNumbers'
  BY <1>1, HeadFacts DEF UniqueNumbers
<1>6. TypeOK' /\ OthersWait' /\ ImportsInv' /\ chain' # <<>> /\ chain'[1] = x
  BY <1>1, <1>3, <1>4, <1>5, JobGoesOn
<1>7. HeadReady'
  BY <1>1, <1>3, <1>6 DEF HeadReady, Todo
<1>8. QED
  BY <1>6, <1>7 DEF ArchiveInv

LEMMA RestoreRowKeeps == ASSUME ArchiveInv, RestoreRow PROVE ArchiveInv'
<1>1. chain # <<>> /\ chain[1].phase = "inserting" /\ UNCHANGED <<imports, file, archive, requests>>
  BY DEF RestoreRow, Running
<1>2. PICK n \in Todo : records' = Inserted(n, Untracked) /\ chain' = [chain EXCEPT ![1].todo = @ \ {n}]
  BY DEF RestoreRow, Handled
<1> DEFINE t == Todo \ {n}
           x == [chain[1] EXCEPT !.todo = t]
<1>3. chain[1] \in Job /\ t \in SUBSET No /\ n \in No
  BY <1>1, HeadFacts
<1>4. chain' = [chain EXCEPT ![1] = x]
  BY <1>2 DEF Todo
<1>5. x \in Job /\ x.kind = chain[1].kind /\ x.imp = chain[1].imp /\ x.phase = "inserting" /\ x.todo = t
  <2> HIDE DEF t
  <2>1. QED
    BY <1>1, <1>3 DEF Job
<1> HIDE DEF x
<1>6. /\ records' \subseteq Row /\ UniqueNumbers' /\ Numbers' = Numbers \cup {n}
      /\ \A r \in records' : r \in records \/ r.imp = Untracked
  BY <1>2, <1>3, InsertedRows DEF ArchiveInv
<1>7. file' \in File /\ archive' \in BOOLEAN
  BY <1>1, HeadFacts
<1>8. TypeOK' /\ OthersWait' /\ ImportsInv' /\ chain' # <<>> /\ chain'[1] = x
  BY <1>1, <1>4, <1>5, <1>6, <1>7, JobGoesOn
<1>9. HeadReady'
  <2>1. file.rows \subseteq Numbers' \cup t
    BY <1>1, <1>6 DEF ArchiveInv, HeadReady
  <2>2. QED
    BY <1>1, <1>5, <1>8, <2>1 DEF HeadReady, Todo
<1>10. QED
  BY <1>8, <1>9 DEF ArchiveInv

LEMMA DropArchiveKeeps == ASSUME ArchiveInv, DropArchive PROVE ArchiveInv'
<1>1. /\ chain # <<>> /\ UNCHANGED <<records, imports, file, requests>>
      /\ archive' = FALSE /\ chain' = [chain EXCEPT ![1].phase = "unlinking"]
  BY DEF DropArchive, Running, Go
<1>2. file' \in File /\ archive' \in BOOLEAN /\ "unlinking" \in Phases
  BY <1>1, HeadFacts DEF Phases
<1>3. TypeOK' /\ OthersWait' /\ ImportsInv' /\ chain' # <<>> /\ chain'[1].phase = "unlinking"
  BY <1>1, <1>2, PhaseChanged
<1>4. HeadReady'
  BY <1>1, <1>3 DEF HeadReady
<1>5. QED
  BY <1>3, <1>4 DEF ArchiveInv

LEMMA EndsKeep == ASSUME ArchiveInv, NothingToSweep \/ Unlink PROVE ArchiveInv'
<1>1. chain # <<>> /\ chain' = Rest /\ UNCHANGED <<records, imports, archive, requests>> /\ file' \in {file, NoFile}
  BY DEF NothingToSweep, Unlink, Running, store
<1>2. file' \in File /\ archive' \in BOOLEAN
  BY <1>1, HeadFacts DEF File, NoFile
<1>3. QED
  BY <1>1, <1>2, HeadEnds

LEMMA DieKeeps == ASSUME ArchiveInv, Die PROVE ArchiveInv'
<1>1. asked' = {} /\ chain' = <<>> /\ replies' = {} /\ UNCHANGED <<records, imports, file, archive>>
  BY DEF Die, store
<1>2. DOMAIN <<>> = {} /\ <<>> \in Seq(Job)
  BY EmptySeq
<1>3. TypeOK'
  BY <1>1, <1>2 DEF ArchiveInv, TypeOK, UniqueNumbers
<1>4. OthersWait' /\ HeadReady'
  BY <1>1, <1>2 DEF OthersWait, HeadReady
<1>5. ImportsInv'
  BY <1>1, <1>2 DEF ArchiveInv, ImportsInv, RequestsReady, OneImportEach, PurgedStaysEmpty, RowsTracked, DroppedImportLeavesNothing
<1>6. QED
  BY <1>3, <1>4, <1>5 DEF ArchiveInv

\* A delete removes the import it has purged; the delete of an issue clears those
\* that are there.
LEMMA ReplyKeeps == ASSUME ArchiveInv, Reply PROVE ArchiveInv'
<1>1. PICK j \in replies : (EndDeleteImport(j) \/ EndDeleteIpoRecords(j)) /\ replies' = replies \ {j}
  BY DEF Reply
<1>2. UNCHANGED <<records, file, archive, asked, chain>>
  BY DEF Reply
<1>3. OthersWait' /\ HeadReady'
  BY <1>2 DEF ArchiveInv, OthersWait, HeadReady, Numbers, Todo
<1>4. imports \in Seq(ImportRow) /\ DOMAIN imports = 1 .. Len(imports) /\ Len(imports) \in Nat
  BY LenProperties DEF ArchiveInv, TypeOK
<1>5. ASSUME imports' \in Seq(ImportRow), Len(imports') = Len(imports) PROVE TypeOK'
  BY <1>1, <1>2, <1>5 DEF ArchiveInv, TypeOK, UniqueNumbers
<1>6. ChainKept /\ RowsFrom /\ replies' \subseteq replies
  BY <1>1, <1>2, FewerRows DEF ChainKept
<1>7. CASE UNCHANGED imports
  <2>1. TypeOK'
    BY <1>4, <1>5, <1>7
  <2>2. ImportsInv'
    BY <1>2, <1>6, <1>7, SameImports, StableKeeps DEF ArchiveInv
  <2>3. QED
    BY <1>3, <2>1, <2>2 DEF ArchiveInv
<1>8. CASE /\ j.kind = "purgeImport" /\ imports[j.imp].status \notin {"dropped", "cleared"}
           /\ imports' = [imports EXCEPT ![j.imp] = Gone("dropped")]
  <2> DEFINE i == j.imp
             x == Gone("dropped")
  <2>1. i \in DOMAIN imports /\ imports[i].status # "processing"
    BY <1>8 DEF ArchiveInv, ImportsInv, RequestsReady, Tracked
  <2>2. imports[i] \in ImportRow
    BY <1>4, <2>1, ElementOfSeq
  <2>3. imports[i].status = "over"
    BY <1>8, <2>1, <2>2 DEF ImportRow
  <2>4. x \in ImportRow /\ x.status = "dropped"
    BY DEF Gone, ImportRow
  <2> HIDE DEF x
  <2>5. imports' = [imports EXCEPT ![i] = x]
    BY <1>8 DEF x
  <2>6. imports' \in Seq(ImportRow) /\ Len(imports') = Len(imports)
    BY <1>4, <2>1, <2>4, <2>5, ExceptSeq
  <2>7. DOMAIN imports' = DOMAIN imports /\ imports'[i] = x /\ \A k \in DOMAIN imports : k # i => imports'[k] = imports[k]
    BY <1>4, <2>1, <2>5
  <2>8. \A k : Tracked(k, imports) => Tracked(k, imports')
    BY <2>3, <2>4, <2>7 DEF Tracked
  <2>9. RequestsReady'
    BY <1>1, <1>2, <2>8 DEF ArchiveInv, ImportsInv, RequestsReady
  <2>10. OneImportEach'
    BY <1>2 DEF ArchiveInv, ImportsInv, OneImportEach
  <2>11. \A r \in records : r.imp # i
    BY <1>8, <2>3 DEF ArchiveInv, ImportsInv, PurgedStaysEmpty
  <2>12. (PurgedStaysEmpty /\ RowsTracked /\ DroppedImportLeavesNothing)'
    BY <1>1, <1>2, <2>4, <2>7, <2>11 DEF ArchiveInv, ImportsInv, RequestsReady, Tracked, PurgedStaysEmpty, RowsTracked, DroppedImportLeavesNothing
  <2>13. QED
    BY <1>3, <1>5, <2>6, <2>9, <2>10, <2>12 DEF ArchiveInv, ImportsInv
<1>9. CASE EndDeleteIpoRecords(j)
  <2> DEFINE x == Gone("cleared")
             rows == [i \in DOMAIN imports |-> IF imports[i].status = "dropped" THEN imports[i] ELSE x]
  <2>1. x \in ImportRow /\ x.status = "cleared"
    BY DEF Gone, ImportRow
  <2>2. imports' = rows
    BY <1>9 DEF EndDeleteIpoRecords
  <2> HIDE DEF x
  <2>3. rows \in [1 .. Len(imports) -> ImportRow]
    BY <1>4, <2>1, ElementOfSeq
  <2>4. imports' \in Seq(ImportRow) /\ Len(imports') = Len(imports)
    <3> HIDE DEF rows
    <3>1. QED
      BY <1>4, <2>2, <2>3
  <2>5. Stable
    BY <2>1, <2>2 DEF Stable
  <2>6. ImportsInv'
    BY <1>2, <1>6, <2>5, StableKeeps DEF ArchiveInv
  <2>7. QED
    BY <1>3, <1>5, <2>4, <2>6 DEF ArchiveInv
<1>10. QED
  BY <1>1, <1>7, <1>8, <1>9 DEF EndDeleteImport

LEMMA NextArchive == ArchiveInv /\ [Next]_vars => ArchiveInv'
<1> SUFFICES ASSUME ArchiveInv, [Next]_vars PROVE ArchiveInv'
  OBVIOUS
<1>1. CASE Ask
  BY <1>1, AskKeeps
<1>2. CASE Enqueue
  BY <1>2, EnqueueKeeps
<1>3. CASE ImportRows \/ EndImport \/ JobFails
  BY <1>3, ImportRowsKeeps, EndImportKeeps, JobFailsKeeps
<1>4. CASE OpenArchive \/ WriteRow \/ CloseFile \/ UpsertArchive \/ NothingToSweep
  BY <1>4, OpenArchiveKeeps, WriteRowKeeps, CloseFileKeeps, UpsertArchiveKeeps, EndsKeep
<1>5. CASE PurgeRow \/ EndPurge
  BY <1>5, PurgeRowKeeps, EndPurgeKeeps
<1>6. CASE OpenFile \/ RestoreRow \/ DropArchive \/ Unlink
  BY <1>6, OpenFileKeeps, RestoreRowKeeps, DropArchiveKeeps, EndsKeep
<1>7. CASE StreamError \/ Restart
  BY <1>7, DieKeeps DEF StreamError, Restart
<1>8. CASE Reply
  BY <1>8, ReplyKeeps
<1>9. CASE UNCHANGED vars
  <2>1. TypeOK' /\ OthersWait' /\ HeadReady'
    BY <1>9 DEF vars, ArchiveInv, TypeOK, UniqueNumbers, OthersWait, HeadReady, Numbers, Todo
  <2>2. ImportsInv'
    BY <1>9 DEF vars, ArchiveInv, ImportsInv, RequestsReady, OneImportEach, PurgedStaysEmpty, RowsTracked, DroppedImportLeavesNothing
  <2>3. QED
    BY <2>1, <2>2 DEF ArchiveInv
<1>10. QED
  BY <1>1, <1>2, <1>3, <1>4, <1>5, <1>6, <1>7, <1>8, <1>9 DEF Next, Run

LEMMA Invariance == Spec => []ArchiveInv
BY InitArchive, NextArchive, PTL DEF Spec

\* The shape of the rows, the imports, the file and the jobs; a number has one row.
THEOREM TypeCorrect == Spec => []TypeOK
<1>1. ArchiveInv => TypeOK
  BY DEF ArchiveInv
<1>2. QED
  BY <1>1, Invariance, PTL

\* Whatever jobs and replies were under way when deleteImport removed an import, no
\* row of it is left or comes back.
THEOREM DroppedStaysEmpty == Spec => []DroppedImportLeavesNothing
<1>1. ArchiveInv => DroppedImportLeavesNothing
  BY DEF ArchiveInv, ImportsInv
<1>2. QED
  BY <1>1, Invariance, PTL

-----------------------------------------------------------------------------
(* What can still be got at.                                               *)

InFile == IF archive /\ file.state = "whole" THEN file.rows ELSE {}

LEMMA KeptSplit == Kept = Numbers \cup InFile /\ Kept' = Numbers' \cup InFile'
BY DEF Kept, Numbers, InFile

\* A step that loses no row and leaves the archive, or has none yet.
LEMMA NothingLost ==
    ASSUME Numbers \subseteq Numbers', InFile \subseteq InFile' \cup Numbers'
    PROVE  Kept \ Kept' = {}
BY KeptSplit

Lossless == Kept \ Kept' # {} => Rewriting \/ Kept \ Kept' \subseteq Deleted

LEMMA StepLosesNothing == ASSUME ArchiveInv, [Next]_vars PROVE Lossless
<1>1. ASSUME UNCHANGED <<records, file, archive>> PROVE Lossless
  <2>1. Numbers' = Numbers /\ InFile' = InFile
    BY <1>1 DEF Numbers, InFile
  <2>2. QED
    BY <2>1, NothingLost DEF Lossless
<1>2. CASE Ask \/ Enqueue \/ EndImport \/ NothingToSweep \/ EndPurge \/ OpenFile \/ JobFails \/ StreamError \/ Restart \/ Reply \/ UNCHANGED vars
  <2>1. UNCHANGED <<records, file, archive>>
    BY <1>2 DEF Ask, StartImport, DeleteImport, DeleteIpoRecords, ArchiveIpo, RestoreIpo, SweepDue, Want, Enqueue, EndImport,
                NothingToSweep, EndPurge, OpenFile, JobFails, StreamError, Restart, Die, Reply, vars, store
  <2>2. QED
    BY <1>1, <2>1
<1>3. ASSUME NEW n \in No, NEW i \in Import \cup {Untracked}, records' = Inserted(n, i), UNCHANGED <<file, archive>> PROVE Lossless
  <2>1. Numbers' = Numbers \cup {n}
    BY <1>3, InsertedRows DEF ArchiveInv
  <2>2. InFile' = InFile
    BY <1>3 DEF InFile
  <2>3. QED
    BY <2>1, <2>2, NothingLost DEF Lossless
<1>4. CASE ImportRows
  <2>1. chain # <<>> /\ UNCHANGED <<file, archive>> /\ \E n \in Todo : records' = Inserted(n, chain[1].imp)
    BY <1>4 DEF ImportRows, Running
  <2>2. QED
    BY <1>3, <2>1, HeadFacts
<1>5. CASE RestoreRow
  <2>1. chain # <<>> /\ UNCHANGED <<file, archive>> /\ \E n \in Todo : records' = Inserted(n, Untracked)
    BY <1>5 DEF RestoreRow, Running
  <2>2. QED
    BY <1>3, <2>1, HeadFacts
<1>6. CASE OpenArchive
  BY <1>6 DEF OpenArchive, Lossless, Rewriting
<1>7. CASE WriteRow \/ CloseFile
  <2>1. chain # <<>> /\ chain[1].phase = "writing" /\ UNCHANGED <<records, archive>>
    BY <1>7 DEF WriteRow, CloseFile, Running
  <2>2. file.state = "partial"
    BY <2>1 DEF ArchiveInv, HeadReady
  <2>3. InFile = {} /\ Numbers' = Numbers
    BY <2>1, <2>2 DEF InFile, Numbers
  <2>4. QED
    BY <2>3, NothingLost DEF Lossless
<1>8. CASE UpsertArchive
  <2>1. UNCHANGED <<records, file>> /\ archive' = TRUE
    BY <1>8 DEF UpsertArchive
  <2>2. InFile \subseteq InFile' /\ Numbers' = Numbers
    BY <2>1 DEF InFile, Numbers
  <2>3. QED
    BY <2>2, NothingLost DEF Lossless
<1>9. CASE PurgeRow
  <2>1. PICK r \in Scope : records' = records \ {r} /\ UNCHANGED <<file, archive>>
    BY <1>9 DEF PurgeRow
  <2>2. InFile' = InFile /\ Numbers \ Numbers' \subseteq {r.no} /\ Kept \ Kept' \subseteq {r.no}
    <3>1. InFile' = InFile
      BY <2>1 DEF InFile
    <3>2. Numbers \ Numbers' \subseteq {r.no}
      BY <2>1 DEF Numbers
    <3>3. QED
      BY <3>1, <3>2, KeptSplit
  <2>3. CASE Running({"purgeImport", "purgeIpo"}, "queued")
    BY <2>2, <2>3 DEF Lossless, Deleted
  <2>4. CASE Running({"archive", "sweep"}, "purging")
    <3>1. archive /\ file.state = "whole" /\ Numbers \subseteq file.rows
      BY <2>4 DEF Running, ArchiveInv, HeadReady
    <3>2. Kept = InFile /\ Kept' = InFile'
      <4>1. InFile = file.rows
        BY <3>1 DEF InFile
      <4>2. Numbers' \subseteq Numbers
        BY <2>1 DEF Numbers
      <4>3. QED
        BY <2>2, <3>1, <4>1, <4>2, KeptSplit
    <3>3. QED
      BY <2>2, <3>2 DEF Lossless
  <2>5. QED
    BY <1>9, <2>3, <2>4 DEF PurgeRow, Purging
<1>10. CASE DropArchive
  <2>1. chain # <<>> /\ chain[1].phase = "inserting" /\ Todo = {} /\ UNCHANGED <<records, file>>
    BY <1>10 DEF DropArchive, Running, AllHandled
  <2>2. file.rows \subseteq Numbers
    BY <2>1 DEF ArchiveInv, HeadReady
  <2>3. Numbers' = Numbers /\ InFile \subseteq Numbers
    BY <2>1, <2>2 DEF Numbers, InFile
  <2>4. QED
    BY <2>3, NothingLost DEF Lossless
<1>11. CASE Unlink
  <2>1. chain # <<>> /\ chain[1].phase = "unlinking" /\ UNCHANGED <<records, archive>>
    BY <1>11 DEF Unlink, Running
  <2>2. ~archive
    BY <2>1 DEF ArchiveInv, HeadReady
  <2>3. InFile = {} /\ Numbers' = Numbers
    BY <2>1, <2>2 DEF InFile, Numbers
  <2>4. QED
    BY <2>3, NothingLost DEF Lossless
<1>12. QED
  BY <1>2, <1>4, <1>5, <1>6, <1>7, <1>8, <1>9, <1>10, <1>11 DEF Next, Run

\* No purge runs ahead of the file, and no restore drops an archive it has not put
\* back, whatever fails, dies or is asked in between.
THEOREM LostOnlyByRewrite == Spec => OnlyRewriteLoses
<1>1. ArchiveInv /\ [Next]_vars => [Kept \ Kept' # {} => Rewriting \/ Kept \ Kept' \subseteq Deleted]_vars
  BY StepLosesNothing DEF Lossless
<1>2. QED
  BY <1>1, Invariance, PTL DEF Spec, OnlyRewriteLoses
=============================================================================
