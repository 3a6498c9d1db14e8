--------------------------------- MODULE Api ---------------------------------
(***************************************************************************)
(* The HTTP handlers of a provider (src/api): uploads in the two versions  *)
(* of the protocol, the second with a job that clients poll, downloads,    *)
(* and the gateway, which walks a path through folders and fetches what is *)
(* not here from other providers.  Each request runs in a goroutine of its *)
(* own; all share the job map, the disk and the directory of temporary     *)
(* files.                                                                  *)
(*                                                                         *)
(* A file stands for its contract and for its merkle.  The disk is the     *)
(* set of files that can be read (FileStore with every operation in one    *)
(* step).  The prover deletes only what the chain no longer knows (Prover) *)
(* and the queue answers whoever waits (Queue without full mempools).      *)
(***************************************************************************)
EXTENDS Naturals, Sequences

CONSTANTS
    Files,
    NoFile,
    Names,      \* names of the children of folders
    Folders,    \* files whose contents decode as FolderData
    Child,      \* Child[f][n]: the child of f with the name n, or NoFile
    Large,      \* files of more than ten megabytes
    Missized,   \* files whose size is not the one in their contract
    Requests,   \* a bound on the requests
    Kinds,      \* Kinds[r]: what request r may be, and About[r] the files that
    About,      \* it may be about
    Paths,      \* the paths that clients ask for
    Providers,  \* the other providers
    NoJob,
    Crashes     \* whether the process may stop and start again

Uploads == {"v1", "v2"}
Gets    == {"download", "get"}

ASSUME ApiAssumption ==
    /\ NoFile \notin Files
    /\ Folders \subseteq Files
    /\ Child \in [Files -> [Names -> Files \cup {NoFile}]]
    /\ \A f \in Files \ Folders, n \in Names : Child[f][n] = NoFile
    /\ Large \subseteq Files /\ Missized \subseteq Files
    /\ Kinds \in [Requests -> SUBSET (Uploads \cup Gets)]
    /\ About \in [Requests -> SUBSET Files]
    /\ Paths \subseteq Seq(Names)
    /\ NoJob \notin Requests
    /\ Crashes \in BOOLEAN

VARIABLES
    \* each request
    at,         \* where its handler is
    kind,       \* what it is
    file,       \* the file it is about, for the gateway the root
    parts,      \* how many temporary files it has made
    answer,     \* how it was answered
    \* uploads of the second version: UploadResponseV2
    progress, status,
    timer,      \* the goroutine that will delete the job
    \* downloads and the gateway
    asked,      \* the path asked for
    raw,        \* whether ?raw is set, chosen where it is looked at
    want, path, \* the file to find and the rest of the path below it
    reader,     \* what it reads from: nothing, the disk or a temporary file
    left,       \* providers that it has yet to ask
    view,       \* whether its answer is a page about a folder
    gone,       \* history: a file was deleted while it ran
    \* shared
    jobs,       \* JobMap: the upload behind the job of each file
    temps,      \* temporary files: <<r, n>> is the nth of request r
    disk,       \* files that are stored
    contracts   \* files that the chain knows

upload  == <<progress, status, timer>>
get     == <<asked, raw, want, path, reader, left, view, gone>>
shared  == <<jobs, temps, disk, contracts>>
request == <<at, kind, file, parts, answer>>
vars    == <<request, upload, get, shared>>

UploadAts == {"parsing", "received", "parsed", "asking", "checking", "building", "seeking",
              "adding", "committing", "committed", "reported", "posting", "waiting"}
GetAts    == {"opening", "finding", "fetching", "opened", "serving"}
Ats       == {"free", "done"} \cup UploadAts \cup GetAts
Answers   == {"none", "badForm", "refused", "accepted", "stored", "noPath", "notFound",
              "cut", "served"}

Init ==
    /\ at = [r \in Requests |-> "free"]
    /\ kind \in [Requests -> Uploads \cup Gets] /\ \A r \in Requests : kind[r] \in Kinds[r]
    /\ file \in [Requests -> Files] /\ \A r \in Requests : file[r] \in About[r]
    /\ parts = [r \in Requests |-> 0]
    /\ answer = [r \in Requests |-> "none"]
    /\ progress = [r \in Requests |-> 0]
    /\ status = [r \in Requests |-> "none"]
    /\ timer = [r \in Requests |-> FALSE]
    /\ asked = [r \in Requests |-> <<>>]
    /\ raw = [r \in Requests |-> FALSE]
    /\ want = [r \in Requests |-> NoFile]
    /\ path = [r \in Requests |-> <<>>]
    /\ reader = [r \in Requests |-> "none"]
    /\ left = [r \in Requests |-> {}]
    /\ view = [r \in Requests |-> FALSE]
    /\ gone = [r \in Requests |-> FALSE]
    /\ jobs = [f \in Files |-> NoJob]
    /\ temps = {}
    /\ disk = {}
    /\ contracts = Files

Goto(r, place) == at' = [at EXCEPT ![r] = place]
InV2(r) == kind[r] = "v2"

\* The temporary file that an upload reads from; a small file has none.
Temp(r) == <<r, parts[r]>>

\* Variant of EndUpload: the reader is not closed.
EndUploadOpen(r, a) ==
    /\ Goto(r, "done")
    /\ answer' = [answer EXCEPT ![r] = a]
    /\ UNCHANGED temps

\* The handler of an upload returns, which removes its temporary file (the
\* deferred file.Close()).
EndUpload(r, a) ==
    /\ Goto(r, "done")
    /\ answer' = [answer EXCEPT ![r] = a]
    /\ temps' = temps \ {Temp(r)}

\* What a poller of the job sees: CheckUploadStatus and ListJobsHandler read the
\* job map and the upload behind the job.
Shown(f) == IF jobs[f] = NoJob THEN 0 ELSE progress[jobs[f]]

ShowProgress(r, n) ==
    progress' = IF InV2(r) THEN [progress EXCEPT ![r] = n] ELSE progress

\* Variant of Fail: the job starts again from nothing.
FailFromZero(r) ==
    /\ EndUpload(r, IF InV2(r) THEN "accepted" ELSE "refused")
    /\ status' = IF InV2(r) THEN [status EXCEPT ![r] = "error"] ELSE status
    /\ progress' = [progress EXCEPT ![r] = 0]
    /\ UNCHANGED <<kind, file, parts, timer, get, jobs, disk, contracts>>

\* An error after the form: the answer of the first version says so; that of
\* the second is already written, and only the status of its job says so.
Fail(r) ==
    /\ EndUpload(r, IF InV2(r) THEN "accepted" ELSE "refused")
    /\ status' = IF InV2(r) THEN [status EXCEPT ![r] = "error"] ELSE status
    /\ UNCHANGED <<kind, file, parts, progress, timer, get, jobs, disk, contracts>>

\* A step of an upload that changes no more than where it is and its progress.
Advance(r, place, n) ==
    /\ Goto(r, place)
    /\ ShowProgress(r, n)
    /\ UNCHANGED <<kind, file, parts, answer, status, timer, get, shared>>

-----------------------------------------------------------------------------
(* The form of an upload: parseMultipartFormStreaming                      *)

ArriveUpload(r) ==
    /\ at[r] = "free"
    /\ kind[r] \in Uploads
    /\ Goto(r, "parsing")
    /\ UNCHANGED <<kind, file, parts, answer, upload, get, shared>>

\* A part named "file" arrives: more than ten megabytes go to a temporary file.
\* The loop takes any number of such parts and keeps the last.
ReceiveFile(r) ==
    /\ at[r] \in {"parsing", "received"}
    /\ parts[r] < 2    \* bound
    /\ Goto(r, "received")
    /\ parts' = [parts EXCEPT ![r] = @ + 1]
    /\ temps' = IF file[r] \in Large THEN temps \cup {<<r, parts'[r]>>} ELSE temps
    /\ UNCHANGED <<kind, file, answer, upload, get, jobs, disk, contracts>>

\* The form breaks off, a field cannot be read, or no file is in it.  The error
\* comes without the reader, so that nobody closes what was received; the part
\* that could not be received removes its own file.
RefuseForm(r) ==
    /\ at[r] \in {"parsing", "received"}
    /\ Goto(r, "done")
    /\ answer' = [answer EXCEPT ![r] = "badForm"]
    /\ UNCHANGED <<kind, file, parts, upload, get, shared>>

FormEnds(r) ==
    /\ at[r] = "received"
    /\ Goto(r, "parsed")
    /\ UNCHANGED <<kind, file, parts, answer, upload, get, shared>>

\* The merkle, the start or the proof type does not parse.
RefuseFields(r) ==
    /\ at[r] = "parsed"
    /\ EndUpload(r, "refused")
    /\ UNCHANGED <<kind, file, parts, upload, get, jobs, disk, contracts>>

\* Variant of AcceptFields: the ten minutes begin with the upload.
AcceptWithTimer(r) ==
    /\ at[r] = "parsed"
    /\ Goto(r, "asking")
    /\ ShowProgress(r, 10)
    /\ IF InV2(r)
       THEN /\ jobs' = [jobs EXCEPT ![file[r]] = r]
            /\ status' = [status EXCEPT ![r] = "running"]
            /\ timer' = [timer EXCEPT ![r] = TRUE]
       ELSE UNCHANGED <<jobs, status, timer>>
    /\ UNCHANGED <<kind, file, parts, answer, get, temps, disk, contracts>>

\* The second version stores its job, in place of any other of that file.
AcceptFields(r) ==
    /\ at[r] = "parsed"
    /\ Goto(r, "asking")
    /\ ShowProgress(r, 10)
    /\ IF InV2(r)
       THEN /\ jobs' = [jobs EXCEPT ![file[r]] = r]
            /\ status' = [status EXCEPT ![r] = "running"]
       ELSE UNCHANGED <<jobs, status>>
    /\ UNCHANGED <<kind, file, parts, answer, timer, get, temps, disk, contracts>>

-----------------------------------------------------------------------------
(* The upload itself: PostFileHandler, PostFileHandlerV2 and WriteFile     *)

\* The chain knows the file.
AskChain(r) ==
    /\ at[r] = "asking"
    /\ file[r] \in contracts
    /\ Advance(r, "checking", 30)

\* The merkle is the same, and the file has room for a prover, or this provider is
\* one of its provers already.
CheckFile(r) == at[r] = "checking" /\ Advance(r, "building", 40)

\* The tree is built, and its root is the merkle of the form.
BuildTree(r) == at[r] = "building" /\ Advance(r, "seeking", 60)

SeekStart(r) == at[r] = "seeking" /\ Advance(r, "adding", 70)

AddFile(r) == at[r] = "adding" /\ Advance(r, "committing", 90)

\* The chain does not answer, or does not know the file; it cannot be claimed;
\* the root is another one; a read or a write fails.
UploadFails(r) ==
    /\ at[r] \in {"asking", "checking", "building", "seeking", "adding", "committing"}
    /\ Fail(r)

Commit(r) ==
    /\ at[r] = "committing"
    /\ Goto(r, "committed")
    /\ disk' = disk \cup {file[r]}
    /\ UNCHANGED <<kind, file, parts, answer, upload, get, jobs, temps, contracts>>

\* Variant of Report: the end is reported before the tree is on disk.
ReportEarly(r) ==
    /\ at[r] \in {"committing", "committed"}
    /\ Goto(r, "reported")
    /\ ShowProgress(r, 100)
    /\ status' = IF InV2(r) THEN [status EXCEPT ![r] = "done"] ELSE status
    /\ UNCHANGED <<kind, file, parts, answer, timer, get, shared>>

Report(r) ==
    /\ at[r] = "committed"
    /\ Goto(r, "reported")
    /\ ShowProgress(r, 100)
    /\ status' = IF InV2(r) THEN [status EXCEPT ![r] = "done"] ELSE status
    /\ UNCHANGED <<kind, file, parts, answer, timer, get, shared>>

\* The size is not the one in the contract: the handler returns, the file stays
\* on disk, and the second version leaves its job as it is.
RefuseSize(r) ==
    /\ at[r] = "reported"
    /\ file[r] \in Missized
    /\ EndUpload(r, IF InV2(r) THEN "accepted" ELSE "refused")
    /\ UNCHANGED <<kind, file, parts, upload, get, jobs, disk, contracts>>

\* The proof goes to the queue, or none is needed or can be made.
PostProof(r) ==
    /\ at[r] = "reported"
    /\ file[r] \notin Missized
    /\ \E place \in {"waiting", "posting"} : Goto(r, place)
    /\ UNCHANGED <<kind, file, parts, answer, upload, get, shared>>

Answered(r) ==
    /\ at[r] = "waiting"
    /\ Goto(r, "posting")
    /\ UNCHANGED <<kind, file, parts, answer, upload, get, shared>>

\* Variant of EndPosted: the job is left to nobody.
EndWithoutTimer(r) ==
    /\ at[r] = "posting"
    /\ EndUpload(r, IF InV2(r) THEN "accepted" ELSE "stored")
    /\ UNCHANGED <<kind, file, parts, upload, get, jobs, disk, contracts>>

\* Variant of EndPosted: also an upload without a job gets a timer.
EndWithTimer(r) ==
    /\ at[r] = "posting"
    /\ EndUpload(r, IF InV2(r) THEN "accepted" ELSE "stored")
    /\ timer' = [timer EXCEPT ![r] = TRUE]
    /\ UNCHANGED <<kind, file, parts, progress, status, get, jobs, disk, contracts>>

\* PostProof is back.  The second version starts a goroutine that will delete the
\* job after ten minutes.
EndPosted(r) ==
    /\ at[r] = "posting"
    /\ EndUpload(r, IF InV2(r) THEN "accepted" ELSE "stored")
    /\ timer' = [timer EXCEPT ![r] = InV2(r)]
    /\ UNCHANGED <<kind, file, parts, progress, status, get, jobs, disk, contracts>>

\* Whatever job the file has by then is deleted.
TimerFires(r) ==
    /\ timer[r]
    /\ timer' = [timer EXCEPT ![r] = FALSE]
    /\ jobs' = [jobs EXCEPT ![file[r]] = NoJob]
    /\ UNCHANGED <<request, progress, status, get, temps, disk, contracts>>

-----------------------------------------------------------------------------
(* Downloads and the gateway                                               *)

ArriveGet(r) ==
    /\ at[r] = "free"
    /\ kind[r] \in Gets
    /\ Goto(r, "opening")
    /\ \E p \in IF kind[r] = "get" THEN Paths ELSE {<<>>} :
          /\ asked' = [asked EXCEPT ![r] = p]
          /\ path' = [path EXCEPT ![r] = p]
    /\ want' = [want EXCEPT ![r] = file[r]]
    /\ UNCHANGED <<kind, file, parts, answer, upload, raw, reader, left, view, gone, shared>>

\* The handler returns, and what it held is forgotten.  FindFileHandler does not
\* close what it read from, so that a temporary file stays.
EndGet(r, a) ==
    /\ Goto(r, "done")
    /\ answer' = [answer EXCEPT ![r] = a]
    /\ asked' = [asked EXCEPT ![r] = <<>>]
    /\ raw' = [raw EXCEPT ![r] = FALSE]
    /\ want' = [want EXCEPT ![r] = NoFile]
    /\ path' = [path EXCEPT ![r] = <<>>]
    /\ reader' = [reader EXCEPT ![r] = "none"]
    /\ left' = [left EXCEPT ![r] = {}]
    /\ view' = [view EXCEPT ![r] = FALSE]
    /\ gone' = [gone EXCEPT ![r] = FALSE]

\* GetFileData: a reader of what is on disk, which reads as it is read from.
OpenLocal(r) ==
    /\ at[r] = "opening"
    /\ want[r] \in disk
    /\ Goto(r, "opened")
    /\ reader' = [reader EXCEPT ![r] = "disk"]
    /\ UNCHANGED <<kind, file, parts, answer, upload, asked, raw, want, path, left, view, gone,
                   shared>>

NotHere(r) ==
    /\ at[r] = "opening"
    /\ want[r] \notin disk
    /\ IF kind[r] = "download" THEN EndGet(r, "notFound")
       ELSE Goto(r, "finding") /\ UNCHANGED <<answer, get>>
    /\ UNCHANGED <<kind, file, parts, upload, shared>>

\* The chain names the providers of the merkle.
FindFile(r) ==
    /\ at[r] = "finding"
    /\ Goto(r, "fetching")
    /\ \E ips \in SUBSET Providers : left' = [left EXCEPT ![r] = ips]
    /\ UNCHANGED <<kind, file, parts, answer, upload, asked, raw, want, path, reader, view, gone,
                   shared>>

\* A provider sends the file, which goes to a temporary file ...
Fetch(r) ==
    /\ at[r] = "fetching"
    /\ left[r] # {}
    /\ Goto(r, "opened")
    /\ parts' = [parts EXCEPT ![r] = @ + 1]
    /\ temps' = temps \cup {<<r, parts'[r]>>}
    /\ reader' = [reader EXCEPT ![r] = "temp"]
    /\ UNCHANGED <<kind, file, answer, upload, asked, raw, want, path, left, view, gone,
                   jobs, disk, contracts>>

\* ... has a bad address, does not answer or answers with an error ...
SkipProvider(r) ==
    /\ at[r] = "fetching"
    /\ \E p \in left[r] : left' = [left EXCEPT ![r] = @ \ {p}]
    /\ UNCHANGED <<request, upload, asked, raw, want, path, reader, view, gone, shared>>

\* ... or breaks off, which ends the request whoever else has the file.  It also
\* ends when nobody is left, or when the chain does not answer.
FetchFails(r) ==
    /\ at[r] \in {"finding", "fetching"}
    /\ EndGet(r, "notFound")
    /\ UNCHANGED <<kind, file, parts, upload, shared>>

\* Variant of MayRead: a body that broke off is kept.
MayReadCut(r) == BOOLEAN \ (IF reader[r] # "temp" /\ want[r] \in disk THEN {FALSE} ELSE {})

\* What the reader gives is whole: blocks that left the disk since it was opened
\* may come from a peer, or not.
MayRead(r) == BOOLEAN \ (IF reader[r] = "temp" \/ want[r] \in disk THEN {FALSE} ELSE {})

\* The child is found in the same way; or there is none and the request fails.
Enter(r, child) ==
    /\ IF child = NoFile
       THEN EndGet(r, "noPath")
       ELSE /\ Goto(r, "opening")
            /\ want' = [want EXCEPT ![r] = child]
            /\ path' = [path EXCEPT ![r] = Tail(@)]
            /\ reader' = [reader EXCEPT ![r] = "none"]
            /\ left' = [left EXCEPT ![r] = {}]
            /\ UNCHANGED <<answer, asked, raw, view, gone>>
    /\ UNCHANGED <<kind, file, parts, upload, shared>>

\* Variant of Descend: every name is looked up in the root.
DescendFromRoot(r) ==
    /\ at[r] = "opened"
    /\ path[r] # <<>>
    /\ \E whole \in MayRead(r) :
          Enter(r, IF whole THEN Child[file[r]][Head(path[r])] ELSE NoFile)

\* The next name of the path is looked up in the folder.  Contents that do not
\* decode are no folder.
Descend(r) ==
    /\ at[r] = "opened"
    /\ path[r] # <<>>
    /\ \E whole \in MayRead(r) :
          Enter(r, IF whole THEN Child[want[r]][Head(path[r])] ELSE NoFile)

\* At the end of the path a folder becomes a page, unless the request is raw.
Render(r) ==
    /\ at[r] = "opened"
    /\ path[r] = <<>>
    /\ Goto(r, "serving")
    /\ \E x \in IF kind[r] = "get" THEN BOOLEAN ELSE {TRUE} : raw' = [raw EXCEPT ![r] = x]
    /\ \E whole \in MayRead(r) :
          view' = [view EXCEPT ![r] = whole /\ ~raw'[r] /\ want[r] \in Folders]
    /\ reader' = [reader EXCEPT ![r] = IF view'[r] THEN "none" ELSE @]
    /\ UNCHANGED <<kind, file, parts, answer, upload, asked, want, path, left, gone, shared>>

\* http.ServeContent copies the page or what the reader gives.
Serve(r) ==
    /\ at[r] = "serving"
    /\ \E whole \in IF view[r] THEN {TRUE} ELSE MayRead(r) :
          EndGet(r, IF whole THEN "served" ELSE "cut")
    /\ UNCHANGED <<kind, file, parts, upload, shared>>

\* The finalizer of a reader that nobody holds any more: garbage collection
\* finds it some day or never.
Finalize ==
    /\ \E t \in temps :
          /\ kind[t[1]] = "get"
          /\ IF at[t[1]] = "done" THEN answer[t[1]] # "none"
             ELSE t # Temp(t[1]) \/ reader[t[1]] # "temp"
          /\ temps' = temps \ {t}
    /\ UNCHANGED <<request, upload, get, jobs, disk, contracts>>

-----------------------------------------------------------------------------
(* The rest of the provider, and the chain                                 *)

\* A stray hand stores a file of its list, whose contract may have ended since.
HandWrites(f) ==
    /\ f \notin disk
    /\ disk' = disk \cup {f}
    /\ UNCHANGED <<request, upload, get, jobs, temps, contracts>>

\* A contract ends.
Expire(f) ==
    /\ f \in contracts
    /\ contracts' = contracts \ {f}
    /\ UNCHANGED <<request, upload, get, jobs, temps, disk>>

\* The prover deletes a file whose contract has ended.
DeleteFile(f) ==
    /\ f \in disk \ contracts
    /\ disk' = disk \ {f}
    /\ gone' = [r \in Requests |-> gone[r] \/ at[r] \in GetAts]
    /\ UNCHANGED <<request, upload, asked, raw, want, path, reader, left, view, jobs, temps,
                   contracts>>

\* The process stops and starts again: jobs and handlers go, temporary files stay.
Crash ==
    /\ Crashes
    /\ \E r \in Requests : at[r] \notin {"free", "done"} \/ timer[r]
    /\ at' = [r \in Requests |-> IF at[r] = "free" THEN "free" ELSE "done"]
    /\ timer' = [r \in Requests |-> FALSE]
    /\ jobs' = [f \in Files |-> NoJob]
    /\ reader' = [r \in Requests |-> "none"]
    /\ UNCHANGED <<kind, file, parts, answer, progress, status, asked, raw, want, path, left, view,
                   gone, temps, disk, contracts>>

Form(r)  == ArriveUpload(r) \/ ReceiveFile(r) \/ RefuseForm(r) \/ FormEnds(r)
                \/ RefuseFields(r) \/ AcceptFields(r)
Store(r) == AskChain(r) \/ CheckFile(r) \/ BuildTree(r) \/ SeekStart(r) \/ AddFile(r)
                \/ UploadFails(r) \/ Commit(r) \/ Report(r) \/ RefuseSize(r) \/ PostProof(r)
                \/ Answered(r) \/ EndPosted(r)
Get(r)   == ArriveGet(r) \/ OpenLocal(r) \/ NotHere(r) \/ FindFile(r) \/ Fetch(r)
                \/ SkipProvider(r) \/ FetchFails(r) \/ Descend(r) \/ Render(r) \/ Serve(r)

Next ==
    \/ \E r \in Requests : Form(r) \/ Store(r) \/ TimerFires(r) \/ Get(r)
    \/ Finalize
    \/ \E f \in Files : HandWrites(f) \/ Expire(f) \/ DeleteFile(f)
    \/ Crash

Spec == Init /\ [][Next]_vars

\* Handlers of accepted uploads are scheduled, the queue answers and sleeps end.
FairSpec ==
    /\ Spec
    /\ \A r \in Requests : WF_vars(Store(r)) /\ WF_vars(TimerFires(r))

-----------------------------------------------------------------------------
(* Properties                                                              *)

TypeOK ==
    /\ at \in [Requests -> Ats]
    /\ kind \in [Requests -> Uploads \cup Gets]
    /\ file \in [Requests -> Files]
    /\ parts \in [Requests -> Nat]
    /\ answer \in [Requests -> Answers]
    /\ progress \in [Requests -> {0, 10, 30, 40, 60, 70, 90, 100}]
    /\ status \in [Requests -> {"none", "running", "error", "done"}]
    /\ timer \in [Requests -> BOOLEAN]
    /\ asked \in [Requests -> Seq(Names)]
    /\ raw \in [Requests -> BOOLEAN]
    /\ want \in [Requests -> Files \cup {NoFile}]
    /\ path \in [Requests -> Seq(Names)]
    /\ reader \in [Requests -> {"none", "disk", "temp"}]
    /\ left \in [Requests -> SUBSET Providers]
    /\ view \in [Requests -> BOOLEAN]
    /\ gone \in [Requests -> BOOLEAN]
    /\ jobs \in [Files -> Requests \cup {NoJob}]
    /\ temps \subseteq Requests \X Nat
    /\ disk \subseteq Files
    /\ contracts \subseteq Files
    /\ \A r \in Requests :
          /\ at[r] \in UploadAts => kind[r] \in Uploads
          /\ at[r] \in GetAts => kind[r] \in Gets /\ want[r] # NoFile
          /\ timer[r] => status[r] = "done"

\* A job that says "done!" is true: the file is stored, and stays so for as long
\* as its contract lasts, whatever other uploads, the prover and crashes do
\* (file_system.go:217-235, proofs.go:394).
DoneIsStored ==
    \A r \in Requests : status[r] = "done" => file[r] \in disk \/ file[r] \notin contracts

\* What is shown of an upload falls only when a newer upload takes over the
\* job, when ten minutes have passed since the end of an upload of that file
\* that was stored, or when the process stops (file_handler.go:179, 202, 220, 243,
\* file_system.go:183-235).
ShownFallsForAReason ==
    [][\A f \in Files : Shown(f)' < Shown(f) =>
          \/ \E r \in Requests : jobs[f] # r /\ jobs'[f] = r /\ at[r] = "parsed"
          \/ \E r \in Requests : timer[r] /\ ~timer'[r] /\ file[r] = f
          \/ \A r \in Requests : at'[r] \in {"free", "done"} /\ ~timer'[r]]_vars

\* The job of an upload that still runs is its own or a newer one's, unless the
\* timer of an older upload of the same file fired (file_handler.go:243).
RunningHasJob ==
    \A r \in Requests :
        /\ InV2(r)
        /\ at[r] \in UploadAts \ {"parsing", "received", "parsed"}
        /\ jobs[file[r]] # r
        => \E q \in Requests \ {r} :
              file[q] = file[r] /\ (jobs[file[r]] = q \/ status[q] = "done")

\* Once the form of an upload was taken no temporary file of it outlives its
\* handler, but for those of file parts that a later one replaced
\* (file_handler.go:57, 142, multipart_handler.go:33).
TempsRemoved ==
    \A r \in Requests, n \in 1..2 :
        at[r] = "done" /\ answer[r] \notin {"none", "badForm"} /\ kind[r] \in Uploads
            /\ n = parts[r] => <<r, n>> \notin temps

\* The path p leads from the file f to g: there is a walk along its names, which
\* stays at NoFile once a name leads nowhere.
LeadsTo(f, p, g) ==
    \E walk \in [0..Len(p) -> Files \cup {NoFile}] :
        /\ walk[0] = f
        /\ \A n \in 1..Len(p) :
              walk[n] = IF walk[n - 1] = NoFile THEN NoFile ELSE Child[walk[n - 1]][p[n]]
        /\ walk[Len(p)] = g

\* A client that is served gets what its path leads to, as a page exactly when
\* that is a folder, whichever of the folders on the way came from the disk and
\* which from other providers (file_handler.go:473-520).
ServedIsAsked ==
    [][\A r \in Requests : answer'[r] = "served" /\ answer[r] = "none" =>
          /\ LeadsTo(file[r], asked[r], want[r])
          /\ view[r] => want[r] \in Folders /\ ~raw[r]
          /\ want[r] \in Folders => view[r] \/ raw[r] \/ gone[r]]_vars

\* A path is called invalid only when it leads nowhere, unless a file was
\* deleted on the way (file_handler.go:484, 498).
NoPathIsReal ==
    [][\A r \in Requests : answer'[r] = "noPath" /\ answer[r] = "none" =>
          LeadsTo(file[r], asked[r], NoFile) \/ gone[r]]_vars

\* The job of a file whose size is right does not stay for ever once it says
\* "done!": it is deleted, or a newer upload has it (file_handler.go:240-244).
DoneJobGoes ==
    \A r \in Requests :
        status[r] = "done" /\ file[r] \notin Missized ~> jobs[file[r]] # r
=============================================================================
