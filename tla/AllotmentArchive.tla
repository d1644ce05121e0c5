-------------------------- MODULE AllotmentArchive --------------------------
(***************************************************************************)
(* The registrar's allotment rows of one issue                             *)
(* (apps/api/src/modules/allotment/allotment.service.ts): imported from    *)
(* uploaded files, archived to one gz file on disk and purged from the     *)
(* database, restored from it, deleted by file or by issue, and archived   *)
(* again by the retention sweep.  Everything heavy is a job of one promise *)
(* chain and runs alone.  The check of a request, the queueing of its job  *)
(* and what a delete does after its job are steps of their own, and other  *)
(* requests and jobs take theirs in between.                               *)
(*                                                                         *)
(* A batch of the code is a single row here, the finest grain at which it  *)
(* may be interrupted.  What an import writes into our own applications    *)
(* (matchOurApplications) is the request "recordAllotment" of              *)
(* ApplicationLifecycle.  A row is told apart by its application number:   *)
(* the archive keeps neither the import nor the broker of a row.           *)
(***************************************************************************)
EXTENDS Integers, Sequences, FiniteSets

CONSTANTS
    No,             \* application numbers
    Files,          \* what a file of the registrar may hold
    MayCrash,       \* the API process may die
    MaxImports,     \* bound: files ever uploaded
    MaxJobs         \* bound: requests that are not over yet

ASSUME FilesAssumption == Files \subseteq SUBSET No

ASSUME BoundsAssumption == MaxImports \in Nat /\ MaxJobs \in Nat

Import == 1 .. MaxImports
Untracked == 0  \* the importId of a restored row: null

\* AllotmentRecord, with the file that inserted it.
Row == [no: No, imp: Import \cup {Untracked}]

\* AllotmentImport.  "over" is done or failed, which nothing tells apart.  A row
\* that was deleted is "dropped" (deleteImport) or "cleared" (deleteIpoRecords);
\* some: it has counted a row as imported.
ImportRow == [status: {"processing", "over", "dropped", "cleared"}, some: BOOLEAN]

\* The gz file: none, cut off in the middle, or whole.
File == [state: {"none", "partial", "whole"}, rows: SUBSET No]
NoFile == [state |-> "none", rows |-> {}]

\* A job, with the rows it still has to handle; any: an import has inserted a
\* row, the delete of one has deleted one.
Job == [kind: {"import", "archive", "sweep", "restore", "purgeImport", "purgeIpo"},
        phase: {"queued", "inserting", "writing", "written", "purging", "unlinking"},
        imp: Import \cup {Untracked}, todo: SUBSET No, any: BOOLEAN]

VARIABLES
    records,    \* the AllotmentRecord rows
    imports,    \* the AllotmentImport rows in the order they were made
    file,       \* the archive file
    archive,    \* there is an AllotmentArchive row
    asked,      \* jobs whose check has passed and that are not queued yet
    chain,      \* the jobs, the running one first
    replies     \* deletes whose job is over and whose request goes on

vars == <<records, imports, file, archive, asked, chain, replies>>
store == <<records, imports, file, archive>>
requests == <<asked, replies>>

UniqueNumbers == \A r, s \in records : r.no = s.no => r = s

TypeOK ==
    /\ records \subseteq Row /\ UniqueNumbers
    /\ imports \in Seq(ImportRow) /\ Len(imports) <= MaxImports
    /\ file \in File
    /\ archive \in BOOLEAN
    /\ asked \subseteq Job /\ replies \subseteq Job
    /\ chain \in Seq(Job)

Init ==
    /\ records = {}
    /\ imports = <<>>
    /\ file = NoFile
    /\ archive = FALSE
    /\ asked = {}
    /\ chain = <<>>
    /\ replies = {}

-----------------------------------------------------------------------------
(* Requests: a check, then a job behind those there are.                   *)

NewJob(kind, imp, todo) ==
    [kind |-> kind, phase |-> "queued", imp |-> imp, todo |-> todo, any |-> FALSE]

\* Two requests for one thing whose checks have both passed are one here.
Want(job) ==
    /\ Len(chain) + Cardinality(asked) + Cardinality(replies) < MaxJobs
    /\ asked' = asked \cup {job}
    /\ UNCHANGED <<records, file, archive, chain, replies>>

StartImport ==
    /\ Len(imports) < MaxImports
    /\ imports' = Append(imports, [status |-> "processing", some |-> FALSE])
    /\ \E rows \in Files : Want(NewJob("import", Len(imports) + 1, rows))

Deletable_Running(i) == imports[i].status \in {"processing", "over"}
Deletable(i) == imports[i].status = "over"

DeleteImport ==
    /\ \E i \in DOMAIN imports :
          Deletable(i) /\ Want(NewJob("purgeImport", i, {}))
    /\ UNCHANGED imports

DeleteIpoRecords ==
    /\ \A i \in DOMAIN imports : imports[i].status # "processing"
    /\ Want(NewJob("purgeIpo", Untracked, {}))
    /\ UNCHANGED imports

ArchiveIpo ==
    /\ records # {}
    /\ Want(NewJob("archive", Untracked, {}))
    /\ UNCHANGED imports

RestoreIpo ==
    /\ archive /\ file.state # "none"
    /\ Want(NewJob("restore", Untracked, {}))
    /\ UNCHANGED imports

\* The timer, once the issue is past the retention window.
SweepDue ==
    /\ Want(NewJob("sweep", Untracked, {}))
    /\ UNCHANGED imports

Enqueue ==
    /\ \E job \in asked : asked' = asked \ {job} /\ chain' = Append(chain, job)
    /\ UNCHANGED <<store, replies>>

-----------------------------------------------------------------------------
(* The running job.                                                        *)

Running(kinds, phase) == chain # <<>> /\ chain[1].kind \in kinds /\ chain[1].phase = phase
Todo == chain[1].todo

\* Every page or batch was handled.
AllHandled_OneShort == Todo = {} \/ \E n \in Todo : Todo = {n}
AllHandled == Todo = {}

Go(phase) == chain' = [chain EXCEPT ![1].phase = phase]
Start(phase, todo) == chain' = [chain EXCEPT ![1] = [@ EXCEPT !.phase = phase, !.todo = todo]]
Handled(n) == chain' = [chain EXCEPT ![1].todo = @ \ {n}]

Rest == Tail(chain)

\* The chain is kept alive when a job rejects.
AfterFailure_Wedged == <<[chain[1] EXCEPT !.kind = "wedged"]>> \o Rest
AfterFailure == Rest

\* patch is best effort: it may fail, and an import row that is gone stays gone.
Patch(i, status, some) ==
    \/ UNCHANGED imports
    \/ /\ imports[i].status = "processing"
       /\ imports' = [imports EXCEPT ![i] = [status |-> status, some |-> some]]

\* createMany with skipDuplicates: a number that is there already keeps its row.
Inserted_Again(n, imp) == records \cup {[no |-> n, imp |-> imp]}
Inserted(n, imp) ==
    IF \E r \in records : r.no = n THEN records ELSE records \cup {[no |-> n, imp |-> imp]}

ImportRows ==
    /\ Running({"import"}, "queued")
    /\ \E n \in Todo :
          /\ records' = Inserted(n, chain[1].imp)
          /\ chain' = [chain EXCEPT ![1] =
                         [chain[1] EXCEPT !.todo = Todo \ {n}, !.any = chain[1].any \/ records' # records]]
          /\ Patch(chain[1].imp, "processing", chain'[1].any)
    /\ UNCHANGED <<file, archive, requests>>

EndImport ==
    /\ Running({"import"}, "queued") /\ AllHandled
    /\ Patch(chain[1].imp, "over", chain[1].any)
    /\ chain' = Rest
    /\ UNCHANGED <<records, file, archive, requests>>

\* Opening the file for writing cuts it off; the sweep alone looks whether
\* there is anything to archive.
OpenArchive ==
    /\ Running({"archive", "sweep"}, "queued")
    /\ chain[1].kind = "sweep" => records # {}
    /\ file' = [state |-> "partial", rows |-> {}]
    /\ Start("writing", {r.no : r \in records})
    /\ UNCHANGED <<records, imports, archive, requests>>

NothingToSweep ==
    /\ Running({"sweep"}, "queued") /\ records = {}
    /\ chain' = Rest
    /\ UNCHANGED <<store, requests>>

WriteRow ==
    /\ Running({"archive", "sweep"}, "writing")
    /\ \E n \in Todo : file' = [file EXCEPT !.rows = @ \cup {n}] /\ Handled(n)
    /\ UNCHANGED <<records, imports, archive, requests>>

CloseFile ==
    /\ Running({"archive", "sweep"}, "writing") /\ AllHandled
    /\ file' = [file EXCEPT !.state = "whole"]
    /\ Go("written")
    /\ UNCHANGED <<records, imports, archive, requests>>

UpsertArchive ==
    /\ Running({"archive", "sweep"}, "written")
    /\ archive' = TRUE
    /\ Go("purging")
    /\ UNCHANGED <<records, imports, file, requests>>

\* What purgeRecords has left to delete for the running job.
Scope ==
    IF chain = <<>> THEN {}
    ELSE IF chain[1].kind = "purgeImport" THEN {r \in records : r.imp = chain[1].imp}
    ELSE records

Purging ==
    \/ Running({"archive", "sweep"}, "purging")
    \/ Running({"purgeImport", "purgeIpo"}, "queued")

PurgeRow ==
    /\ Purging
    /\ \E r \in Scope : records' = records \ {r}
    /\ chain' = [chain EXCEPT ![1].any = chain[1].kind = "purgeImport"]
    /\ UNCHANGED <<imports, file, archive, requests>>

EndPurge ==
    /\ Purging /\ Scope = {}
    /\ chain' = Rest
    /\ replies' = replies \cup (IF chain[1].kind \in {"purgeImport", "purgeIpo"} THEN {chain[1]} ELSE {})
    /\ UNCHANGED <<store, asked>>

NothingToRead == Running({"restore"}, "queued") /\ file.state = "none"

OpenFile ==
    /\ Running({"restore"}, "queued") /\ ~NothingToRead
    /\ Start("inserting", file.rows)
    /\ UNCHANGED <<store, requests>>

RestoreRow ==
    /\ Running({"restore"}, "inserting")
    /\ \E n \in Todo : records' = Inserted(n, Untracked) /\ Handled(n)
    /\ UNCHANGED <<imports, file, archive, requests>>

\* A file that is cut off throws before this, and so does a missing row.
DropArchive ==
    /\ Running({"restore"}, "inserting") /\ AllHandled
    /\ file.state = "whole" /\ archive
    /\ archive' = FALSE
    /\ Go("unlinking")
    /\ UNCHANGED <<records, imports, file, requests>>

\* unlinkSync may fail, and that is ignored.
Unlink ==
    /\ Running({"restore"}, "unlinking")
    /\ file' \in {file, NoFile}
    /\ chain' = Rest
    /\ UNCHANGED <<records, imports, archive, requests>>

\* Any await of a job may throw; only an import writes that down.
JobFails ==
    /\ chain # <<>> /\ ~NothingToRead
    /\ IF chain[1].kind = "import"
         THEN Patch(chain[1].imp, "over", imports[chain[1].imp].some)
         ELSE UNCHANGED imports
    /\ chain' = AfterFailure
    /\ UNCHANGED <<records, file, archive, requests>>

Die ==
    /\ asked' = {} /\ chain' = <<>> /\ replies' = {}
    /\ UNCHANGED store

\* Nothing listens to the errors of the stream that reads the file: the process
\* ends when a restore queued behind another finds the file gone.
StreamError == NothingToRead /\ Die

Restart == MayCrash /\ Die

-----------------------------------------------------------------------------
(* The rest of a delete, after its job.                                    *)

Gone(how) == [status |-> how, some |-> FALSE]

\* Nothing deleted although rows were imported: the delete is refused.  The
\* count was read before the job, and an import that is over keeps it.
EndDeleteImport(j) ==
    /\ j.kind = "purgeImport"
    /\ IF (imports[j.imp].some /\ ~j.any) \/ imports[j.imp].status \in {"dropped", "cleared"}
         THEN UNCHANGED imports
         ELSE imports' = [imports EXCEPT ![j.imp] = Gone("dropped")]

EndDeleteIpoRecords(j) ==
    /\ j.kind = "purgeIpo"
    /\ imports' = [i \in DOMAIN imports |->
                     IF imports[i].status = "dropped" THEN imports[i]
                     ELSE Gone("cleared")]

Reply ==
    /\ \E j \in replies :
          /\ EndDeleteImport(j) \/ EndDeleteIpoRecords(j)
          /\ replies' = replies \ {j}
    /\ UNCHANGED <<records, file, archive, asked, chain>>

-----------------------------------------------------------------------------
Ask == StartImport \/ DeleteImport \/ DeleteIpoRecords \/ ArchiveIpo \/ RestoreIpo \/ SweepDue

Run ==
    \/ ImportRows \/ EndImport
    \/ OpenArchive \/ NothingToSweep \/ WriteRow \/ CloseFile \/ UpsertArchive
    \/ PurgeRow \/ EndPurge
    \/ OpenFile \/ RestoreRow \/ DropArchive \/ Unlink
    \/ JobFails \/ StreamError

Next == Ask \/ Enqueue \/ Run \/ Restart \/ Reply

Spec == Init /\ [][Next]_vars

\* A job that is running goes on: its awaits resolve or reject.
FairSpec == Spec /\ WF_vars(Run)

-----------------------------------------------------------------------------
\* The rows an operator can still get at: in the database, or one click away.
Kept == {r.no : r \in records} \cup (IF archive /\ file.state = "whole" THEN file.rows ELSE {})

Deleted == IF Running({"purgeImport", "purgeIpo"}, "queued") THEN {r.no : r \in Scope} ELSE {}
Rewriting == Running({"archive", "sweep"}, "queued") /\ file'.state = "partial"

\* A row that was imported is lost only to an operator's delete of it, or by
\* opening the archive file again: no purge runs ahead of the file, no restore
\* drops an archive it has not put back, whatever fails or dies in between.
OnlyRewriteLoses ==
    [][Kept \ Kept' # {} => Rewriting \/ Kept \ Kept' \subseteq Deleted]_vars

\* Once deleteImport has removed an import, none of its rows is in the
\* database, or ever comes back under its id.
DroppedImportLeavesNothing ==
    \A r \in records : r.imp # Untracked => imports[r.imp].status # "dropped"

\* One failed job cannot wedge every later import behind it.
ImportQueued(i) == \E k \in DOMAIN chain : chain[k].kind = "import" /\ chain[k].imp = i
ImportsTakeTheirTurn == \A i \in Import : ImportQueued(i) ~> ~ImportQueued(i)

=============================================================================
