----------------------------- MODULE ApiProofs -----------------------------
(***************************************************************************)
(* Theorems about Api, for every number of requests and files, every tree  *)
(* of folders and every set of paths and providers: jobs, their progress   *)
(* and temporary files; the types; and the walk of the gateway, which ends *)
(* where the path leads because at every step the rest of the path leads   *)
(* from the folder at hand to where the whole path leads from the root.    *)
(***************************************************************************)
EXTENDS Api, TLAPS, WellFoundedInduction

\* The types of what uploads and their jobs are made of.
Shape ==
    /\ at \in [Requests -> Ats]
    /\ kind \in [Requests -> Uploads \cup Gets]
    /\ file \in [Requests -> Files]
    /\ parts \in [Requests -> Nat]
    /\ answer \in [Requests -> Answers]
    /\ progress \in [Requests -> Nat]
    /\ status \in [Requests -> {"none", "running", "error", "done"}]
    /\ timer \in [Requests -> BOOLEAN]
    /\ jobs \in [Files -> Requests \cup {NoJob}]
    /\ temps \subseteq Requests \X Nat

\* The file of an upload is on disk, or its contract has ended.
Stored(r) == file[r] \in disk \/ file[r] \notin contracts

Early   == {"free", "parsing", "received", "parsed"} \cup GetAts
Working == {"asking", "checking", "building", "seeking", "adding", "committing", "committed"}
Late    == {"reported", "posting", "waiting"}

\* How an upload, its status and its timer go together.
StatusInv ==
    \A r \in Requests :
        /\ at[r] # "done" => answer[r] = "none" /\ ~timer[r]
        /\ at[r] \in Early => status[r] = "none"
        /\ at[r] \in Working => status[r] = IF InV2(r) THEN "running" ELSE "none"
        /\ at[r] \in Late => status[r] = IF InV2(r) THEN "done" ELSE "none"
        /\ at[r] = "committed" \/ status[r] = "done" => Stored(r)
        /\ timer[r] => status[r] = "done"
        /\ at[r] \in GetAts => kind[r] \in Gets

\* The job of a file is an upload of that file that was accepted.
JobsInv ==
    \A f \in Files :
        jobs[f] # NoJob => file[jobs[f]] = f /\ InV2(jobs[f]) /\ status[jobs[f]] # "none"

\* How far an upload can have come at each step.
LevelInv ==
    \A r \in Requests :
        /\ progress[r] <= 100
        /\ at[r] \in {"free", "parsing", "received", "parsed"} => progress[r] = 0
        /\ at[r] = "asking" => progress[r] <= 10
        /\ at[r] = "checking" => progress[r] <= 30
        /\ at[r] = "building" => progress[r] <= 40
        /\ at[r] = "seeking" => progress[r] <= 60
        /\ at[r] = "adding" => progress[r] <= 70
        /\ at[r] \in {"committing", "committed"} => progress[r] <= 90

\* RunningHasJob and TempsRemoved for one request.
HasJob(r) ==
    InV2(r) /\ at[r] \in Working \cup Late /\ jobs[file[r]] # r =>
        \E q \in Requests \ {r} :
            file[q] = file[r] /\ (jobs[file[r]] = q \/ status[q] = "done")
Removed(r) ==
    at[r] = "done" /\ answer[r] \notin {"none", "badForm"} /\ kind[r] \in Uploads =>
        <<r, parts[r]>> \notin temps

Inv ==
    /\ Shape /\ StatusInv /\ JobsInv /\ LevelInv
    /\ \A r \in Requests : HasJob(r)
    /\ \A r \in Requests : Removed(r)

LEMMA InvInit == Init => Inv
BY ApiAssumption DEF Init, Inv, Shape, StatusInv, JobsInv, LevelInv, HasJob, Removed, Ats, Answers,
   Early, Working, Late, GetAts, UploadAts, Uploads, Gets, InV2

\* A step that leaves the jobs alone, takes no form and keeps what is done.
LEMMA KeepsJobs ==
    ASSUME Inv, UNCHANGED <<kind, file, jobs>>,
           \A q \in Requests : status[q] = "done" => status'[q] = "done",
           \A q \in Requests : at'[q] \in Working \cup Late => at[q] \in Working \cup Late
    PROVE  (\A q \in Requests : HasJob(q))'
BY DEF Inv, HasJob, InV2

\* The form arrives.
LEMMA FormStep ==
    ASSUME Inv, NEW r \in Requests,
           \/ ArriveUpload(r) \/ ReceiveFile(r) \/ RefuseForm(r) \/ FormEnds(r)
           \/ RefuseFields(r)
    PROVE  Inv'
<1> USE DEF Shape, ArriveUpload, ReceiveFile, RefuseForm, FormEnds, RefuseFields,
        Goto, InV2, Temp, EndUpload, ShowProgress, Uploads, Gets, UploadAts, GetAts,
        Ats, Answers, request, upload, get, shared
<1>1. Shape'
  BY DEF Inv
<1>2. StatusInv'
  BY DEF Inv, StatusInv, Stored, Early, Working, Late
<1>3. JobsInv'
  BY ApiAssumption DEF Inv, JobsInv, StatusInv, Early, Working
<1>4. LevelInv'
  BY DEF Inv, LevelInv
<1>5. (\A q \in Requests : HasJob(q))'
  <2>1. \A q \in Requests : status[q] = "done" => status'[q] = "done"
    BY DEF Inv, StatusInv, Early, Working, Late
  <2>2. \A q \in Requests : at'[q] \in Working \cup Late => at[q] \in Working \cup Late
    BY DEF Inv, Working, Late
  <2> HIDE DEF Shape
  <2> QED  BY <2>1, <2>2, KeepsJobs
<1>6. (\A q \in Requests : Removed(q))'
  BY DEF Inv, Removed
<1> QED  BY <1>1, <1>2, <1>3, <1>4, <1>5, <1>6 DEF Inv

\* The job is stored.
LEMMA AcceptStep == ASSUME Inv, NEW r \in Requests, AcceptFields(r) PROVE Inv'
<1>1. /\ at[r] = "parsed"
      /\ at' = [at EXCEPT ![r] = "asking"]
      /\ progress' = IF InV2(r) THEN [progress EXCEPT ![r] = 10] ELSE progress
      /\ jobs' = IF InV2(r) THEN [jobs EXCEPT ![file[r]] = r] ELSE jobs
      /\ status' = IF InV2(r) THEN [status EXCEPT ![r] = "running"] ELSE status
      /\ UNCHANGED <<kind, file, parts, answer, timer, temps, disk, contracts>>
  BY DEF AcceptFields, Goto, ShowProgress, InV2
<1>2. Shape'
  BY <1>1 DEF Inv, Shape, Ats, UploadAts
<1>3. StatusInv'
  BY <1>1 DEF Inv, Shape, StatusInv, Stored, Early, Working, Late, InV2, GetAts
<1>4. status[r] = "none" /\ \A f \in Files : jobs[f] # r
  BY <1>1, ApiAssumption DEF Inv, StatusInv, JobsInv, Early
<1>5. JobsInv'
  <2>1. CASE InV2(r)
    <3>1. jobs' = [jobs EXCEPT ![file[r]] = r] /\ status' = [status EXCEPT ![r] = "running"]
      BY <1>1, <2>1
    <3>2. ASSUME NEW f \in Files, jobs'[f] # NoJob
          PROVE  file[jobs'[f]] = f /\ InV2(jobs'[f]) /\ status'[jobs'[f]] # "none"
      <4>1. CASE f = file[r]
        BY <2>1, <3>1, <4>1 DEF Inv, Shape
      <4>2. CASE f # file[r]
        BY <1>4, <3>1, <3>2, <4>2 DEF Inv, Shape, JobsInv
      <4> QED  BY <4>1, <4>2
    <3> QED  BY <1>1, <3>2 DEF JobsInv, InV2
  <2>2. CASE ~InV2(r)
    BY <1>1, <2>2 DEF Inv, JobsInv, InV2
  <2> QED  BY <2>1, <2>2
<1>6. LevelInv'
  <2>1. \A q \in Requests \ {r} : at'[q] = at[q] /\ progress'[q] = progress[q]
    BY <1>1 DEF Inv, Shape
  <2>2. at'[r] = "asking" /\ progress'[r] <= 10
    <3>1. progress[r] = 0
      BY <1>1 DEF Inv, LevelInv, Shape
    <3> QED  BY <1>1, <3>1 DEF Inv, Shape
  <2>3. progress' \in [Requests -> Nat]
    BY <1>2 DEF Shape
  <2> QED  BY <2>1, <2>2, <2>3 DEF Inv, LevelInv
<1>7. ASSUME NEW q \in Requests PROVE HasJob(q)'
  <2>1. CASE ~InV2(r)
    BY <1>1, <2>1 DEF Inv, Shape, HasJob, InV2, Working, Late
  <2>2. CASE InV2(r) /\ file[q] = file[r]
    <3>1. jobs'[file[q]] = r
      BY <1>1, <2>2 DEF Inv, Shape
    <3> QED  BY <1>1, <2>2, <3>1 DEF HasJob, InV2
  <2>3. CASE InV2(r) /\ file[q] # file[r]
    <3>1. jobs'[file[q]] = jobs[file[q]] /\ at'[q] = at[q]
      BY <1>1, <2>3 DEF Inv, Shape
    <3>2. \A x \in Requests : status[x] = "done" => status'[x] = "done"
      BY <1>1, <1>4 DEF Inv, Shape
    <3> QED  BY <1>1, <3>1, <3>2 DEF Inv, HasJob, InV2
  <2> QED  BY <2>1, <2>2, <2>3
<1>8. (\A q \in Requests : Removed(q))'
  BY <1>1 DEF Inv, Shape, Removed
<1> QED  BY <1>2, <1>3, <1>5, <1>6, <1>7, <1>8 DEF Inv

\* The upload goes on.
LEMMA AdvanceStep ==
    ASSUME Inv, NEW r \in Requests,
           \/ AskChain(r) \/ CheckFile(r) \/ BuildTree(r) \/ SeekStart(r)
           \/ AddFile(r)
    PROVE  Inv'
<1> USE DEF Shape, AskChain, CheckFile, BuildTree, SeekStart, AddFile, Advance, Goto,
        InV2, Temp, EndUpload, ShowProgress, Uploads, Gets, UploadAts, GetAts, Ats,
        Answers, request, upload, get, shared
<1>1. Shape'
  BY DEF Inv
<1>2. StatusInv'
  BY DEF Inv, StatusInv, Stored, Early, Working, Late
<1>3. JobsInv'
  BY ApiAssumption DEF Inv, JobsInv, StatusInv, Early, Working
<1>4. LevelInv'
  BY DEF Inv, LevelInv
<1>5. (\A q \in Requests : HasJob(q))'
  <2>1. \A q \in Requests : status[q] = "done" => status'[q] = "done"
    BY DEF Inv, StatusInv, Early, Working, Late
  <2>2. \A q \in Requests : at'[q] \in Working \cup Late => at[q] \in Working \cup Late
    BY DEF Inv, Working, Late
  <2> HIDE DEF Shape
  <2> QED  BY <2>1, <2>2, KeepsJobs
<1>6. (\A q \in Requests : Removed(q))'
  BY DEF Inv, Removed
<1> QED  BY <1>1, <1>2, <1>3, <1>4, <1>5, <1>6 DEF Inv

\* It fails.
LEMMA FailStep ==
    ASSUME Inv, NEW r \in Requests,
           \/ UploadFails(r) \/ RefuseSize(r)
    PROVE  Inv'
<1> USE DEF Shape, UploadFails, RefuseSize, Fail, Goto, InV2, Temp, EndUpload,
        ShowProgress, Uploads, Gets, UploadAts, GetAts, Ats, Answers, request, upload,
        get, shared
<1>1. Shape'
  BY DEF Inv
<1>2. StatusInv'
  BY DEF Inv, StatusInv, Stored, Early, Working, Late
<1>3. JobsInv'
  BY ApiAssumption DEF Inv, JobsInv, StatusInv, Early, Working
<1>4. LevelInv'
  BY DEF Inv, LevelInv
<1>5. (\A q \in Requests : HasJob(q))'
  <2>1. \A q \in Requests : status[q] = "done" => status'[q] = "done"
    BY DEF Inv, StatusInv, Early, Working, Late
  <2>2. \A q \in Requests : at'[q] \in Working \cup Late => at[q] \in Working \cup Late
    BY DEF Inv, Working, Late
  <2> HIDE DEF Shape
  <2> QED  BY <2>1, <2>2, KeepsJobs
<1>6. (\A q \in Requests : Removed(q))'
  BY DEF Inv, Removed
<1> QED  BY <1>1, <1>2, <1>3, <1>4, <1>5, <1>6 DEF Inv

\* It is stored and reported.
LEMMA StoreStep ==
    ASSUME Inv, NEW r \in Requests,
           \/ Commit(r) \/ Report(r) \/ PostProof(r) \/ Answered(r)
    PROVE  Inv'
<1> USE DEF Shape, Commit, Report, PostProof, Answered, Goto, InV2, Temp, EndUpload,
        ShowProgress, Uploads, Gets, UploadAts, GetAts, Ats, Answers, request, upload,
        get, shared
<1>1. Shape'
  BY DEF Inv
<1>2. StatusInv'
  BY DEF Inv, StatusInv, Stored, Early, Working, Late
<1>3. JobsInv'
  BY ApiAssumption DEF Inv, JobsInv, StatusInv, Early, Working
<1>4. LevelInv'
  BY DEF Inv, LevelInv
<1>5. (\A q \in Requests : HasJob(q))'
  <2>1. \A q \in Requests : status[q] = "done" => status'[q] = "done"
    BY DEF Inv, StatusInv, Early, Working, Late
  <2>2. \A q \in Requests : at'[q] \in Working \cup Late => at[q] \in Working \cup Late
    BY DEF Inv, Working, Late
  <2> HIDE DEF Shape
  <2> QED  BY <2>1, <2>2, KeepsJobs
<1>6. (\A q \in Requests : Removed(q))'
  BY DEF Inv, Removed
<1> QED  BY <1>1, <1>2, <1>3, <1>4, <1>5, <1>6 DEF Inv

\* It ends.
LEMMA EndStep ==
    ASSUME Inv, NEW r \in Requests,
           \/ EndPosted(r)
    PROVE  Inv'
<1> USE DEF Shape, EndPosted, Goto, InV2, Temp, EndUpload, ShowProgress, Uploads,
        Gets, UploadAts, GetAts, Ats, Answers, request, upload, get, shared
<1>1. Shape'
  BY DEF Inv
<1>2. StatusInv'
  BY DEF Inv, StatusInv, Stored, Early, Working, Late
<1>3. JobsInv'
  BY ApiAssumption DEF Inv, JobsInv, StatusInv, Early, Working
<1>4. LevelInv'
  BY DEF Inv, LevelInv
<1>5. (\A q \in Requests : HasJob(q))'
  <2>1. \A q \in Requests : status[q] = "done" => status'[q] = "done"
    BY DEF Inv, StatusInv, Early, Working, Late
  <2>2. \A q \in Requests : at'[q] \in Working \cup Late => at[q] \in Working \cup Late
    BY DEF Inv, Working, Late
  <2> HIDE DEF Shape
  <2> QED  BY <2>1, <2>2, KeepsJobs
<1>6. (\A q \in Requests : Removed(q))'
  BY DEF Inv, Removed
<1> QED  BY <1>1, <1>2, <1>3, <1>4, <1>5, <1>6 DEF Inv

\* Its job is deleted.
LEMMA TimerStep ==
    ASSUME Inv, NEW r \in Requests,
           TimerFires(r)
    PROVE  Inv'
<1> USE DEF Shape, TimerFires, Goto, InV2, Temp, EndUpload, ShowProgress, Uploads,
        Gets, UploadAts, GetAts, Ats, Answers, request, upload, get, shared
<1>1. Shape'
  BY DEF Inv
<1>2. StatusInv'
  BY DEF Inv, StatusInv, Stored, Early, Working, Late
<1>3. JobsInv'
  BY ApiAssumption DEF Inv, JobsInv, StatusInv, Early, Working
<1>4. LevelInv'
  BY DEF Inv, LevelInv
<1>5. ASSUME NEW q \in Requests PROVE HasJob(q)'
  <2>1. CASE file[q] = file[r]
    <3>1. status[r] = "done" /\ at[r] = "done"
      BY DEF Inv, StatusInv
    <3>2. at[q] \in Working \cup Late => q # r
      BY <3>1 DEF Working, Late
    <3> QED  BY <2>1, <3>1, <3>2 DEF HasJob
  <2>2. CASE file[q] # file[r]
    <3>1. jobs'[file[q]] = jobs[file[q]]
      BY <2>2 DEF Inv
    <3> QED  BY <3>1 DEF Inv, HasJob
  <2> QED  BY <2>1, <2>2
<1>6. (\A q \in Requests : Removed(q))'
  BY DEF Inv, Removed
<1> QED  BY <1>1, <1>2, <1>3, <1>4, <1>5, <1>6 DEF Inv

\* What a step of a download or of the gateway does to the rest: it may only
\* add a temporary file of its own.
GetEffect(r) ==
    /\ kind[r] \in Gets
    /\ at[r] \in {"free"} \cup GetAts
    /\ \E l \in GetAts \cup {"done"}, a \in Answers :
          /\ at' = [at EXCEPT ![r] = l]
          /\ answer' = [answer EXCEPT ![r] = a]
          /\ l # "done" => a = answer[r]
    /\ UNCHANGED <<kind, file, progress, status, timer, jobs, disk, contracts>>
    /\ \/ UNCHANGED <<parts, temps>>
       \/ /\ parts' = [parts EXCEPT ![r] = @ + 1]
          /\ temps' = temps \cup {<<r, parts'[r]>>}

LEMMA GetHas == ASSUME Inv, NEW r \in Requests, Get(r) PROVE GetEffect(r)
<1> USE DEF Goto, upload, get, shared, request
<1>1. kind[r] \in Gets /\ at[r] \in {"free"} \cup GetAts
  BY DEF Get, Inv, StatusInv, ArriveGet, OpenLocal, NotHere, FindFile, Fetch, SkipProvider,
     FetchFails, Descend, Render, Serve, GetAts
<1>2. answer = [answer EXCEPT ![r] = answer[r]] /\ at = [at EXCEPT ![r] = at[r]]
      /\ answer[r] \in Answers
  BY DEF Inv, Shape
<1>3. CASE ArriveGet(r)
  BY <1>1, <1>2, <1>3 DEF GetEffect, ArriveGet, GetAts, Answers
<1>4. CASE OpenLocal(r)
  BY <1>1, <1>2, <1>4 DEF GetEffect, OpenLocal, GetAts, Answers
<1>5. CASE NotHere(r)
  BY <1>1, <1>2, <1>5 DEF GetEffect, NotHere, EndGet, GetAts, Answers
<1>6. CASE FindFile(r)
  BY <1>1, <1>2, <1>6 DEF GetEffect, FindFile, GetAts, Answers
<1>7. CASE Fetch(r)
  BY <1>1, <1>2, <1>7 DEF GetEffect, Fetch, GetAts, Answers
<1>8. CASE SkipProvider(r)
  BY <1>1, <1>2, <1>8 DEF GetEffect, SkipProvider, GetAts, Answers
<1>9. CASE FetchFails(r)
  BY <1>1, <1>2, <1>9 DEF GetEffect, FetchFails, EndGet, GetAts, Answers
<1>10. CASE Descend(r)
  BY <1>1, <1>2, <1>10 DEF GetEffect, Descend, Enter, EndGet, GetAts, Answers
<1>11. CASE Render(r)
  BY <1>1, <1>2, <1>11 DEF GetEffect, Render, GetAts, Answers
<1>12. CASE Serve(r)
  BY <1>1, <1>2, <1>12 DEF GetEffect, Serve, EndGet, GetAts, Answers
<1> QED  BY <1>3, <1>4, <1>5, <1>6, <1>7, <1>8, <1>9, <1>10, <1>11, <1>12 DEF Get

\* A download or a request to the gateway takes a step.
LEMMA GetStep == ASSUME Inv, NEW r \in Requests, Get(r) PROVE Inv'
<1>1. GetEffect(r)
  BY GetHas
<1>2. PICK l \in GetAts \cup {"done"}, a \in Answers :
        /\ at' = [at EXCEPT ![r] = l]
        /\ answer' = [answer EXCEPT ![r] = a]
        /\ l # "done" => a = answer[r]
  BY <1>1 DEF GetEffect
<1>3. UNCHANGED <<kind, file, progress, status, timer, jobs, disk, contracts>>
  BY <1>1 DEF GetEffect
<1>4. Shape'
  <2>1. at' \in [Requests -> Ats] /\ answer' \in [Requests -> Answers]
    BY <1>2 DEF Inv, Shape, Ats
  <2>2. parts' \in [Requests -> Nat] /\ temps' \subseteq Requests \X Nat
    BY <1>1 DEF Inv, Shape, GetEffect
  <2> QED  BY <1>3, <2>1, <2>2 DEF Inv, Shape
<1>5. at[r] \in Early
  BY <1>1 DEF GetEffect, Early
<1>6. StatusInv'
  <2>1. status[r] = "none" /\ answer[r] = "none" /\ ~timer[r] /\ kind[r] \in Gets
    BY <1>1, <1>5 DEF Inv, StatusInv, Early, GetEffect, GetAts
  <2>2. at'[r] \in GetAts \cup {"done"} /\ (at'[r] # "done" => answer'[r] = "none")
    BY <1>2, <2>1 DEF Inv, Shape
  <2>3. \A q \in Requests \ {r} : at'[q] = at[q] /\ answer'[q] = answer[q]
    BY <1>2 DEF Inv, Shape
  <2> QED  BY <1>3, <2>1, <2>2, <2>3 DEF Inv, StatusInv, Stored, InV2, Early, Working, Late, GetAts
<1>7. JobsInv'
  BY <1>3 DEF Inv, JobsInv, InV2
<1>8. LevelInv'
  BY <1>2, <1>3 DEF Inv, Shape, LevelInv, GetAts
<1>9. (\A q \in Requests : HasJob(q))'
  <2>1. \A q \in Requests : at'[q] \in Working \cup Late => at[q] \in Working \cup Late
    BY <1>2 DEF Inv, Shape, Working, Late, GetAts
  <2> QED  BY <1>3, <2>1, KeepsJobs
<1>10. (\A q \in Requests : Removed(q))'
  <2>1. ~Removed(r)' => FALSE
    BY <1>1 DEF GetEffect, Removed, Uploads, Gets
  <2>2. ASSUME NEW q \in Requests \ {r} PROVE Removed(q)'
    <3>1. at'[q] = at[q] /\ answer'[q] = answer[q] /\ parts'[q] = parts[q]
          /\ (<<q, parts[q]>> \in temps' => <<q, parts[q]>> \in temps)
      BY <1>1, <1>2 DEF Inv, Shape, GetEffect
    <3> QED  BY <1>3, <3>1 DEF Inv, Removed
  <2> QED  BY <2>1, <2>2
<1> QED  BY <1>4, <1>6, <1>7, <1>8, <1>9, <1>10 DEF Inv

\* Hands, contracts, the prover, the garbage collector.
LEMMA RestStep ==
    ASSUME Inv, Finalize \/ (\E f \in Files : HandWrites(f) \/ Expire(f) \/ DeleteFile(f))
    PROVE  Inv'
<1>1. UNCHANGED <<at, kind, file, parts, answer, progress, status, timer, jobs>>
  BY DEF Finalize, HandWrites, Expire, DeleteFile, request, upload
<1>2. temps' \subseteq temps
  BY DEF Finalize, HandWrites, Expire, DeleteFile
<1>3. \A r \in Requests : Stored(r) => Stored(r)'
  BY <1>1 DEF Finalize, HandWrites, Expire, DeleteFile, Stored
<1>4. Shape' /\ JobsInv' /\ LevelInv'
  BY <1>1, <1>2 DEF Inv, Shape, JobsInv, LevelInv, InV2
<1>5. StatusInv'
  BY <1>1, <1>3 DEF Inv, StatusInv, InV2
<1>6. (\A r \in Requests : HasJob(r) /\ Removed(r))'
  BY <1>1, <1>2 DEF Inv, HasJob, Removed, InV2
<1> QED  BY <1>4, <1>5, <1>6 DEF Inv

LEMMA CrashStep == ASSUME Inv, Crash PROVE Inv'
<1>1. /\ at' = [r \in Requests |-> IF at[r] = "free" THEN "free" ELSE "done"]
      /\ timer' = [r \in Requests |-> FALSE]
      /\ jobs' = [f \in Files |-> NoJob]
      /\ UNCHANGED <<kind, file, parts, answer, progress, status, temps, disk, contracts>>
  BY DEF Crash
<1>2. Shape'
  BY <1>1 DEF Inv, Shape, Ats
<1>3. StatusInv'
  BY <1>1 DEF Inv, StatusInv, Stored, InV2, Early, Working, Late, GetAts
<1>4. JobsInv' /\ LevelInv'
  BY <1>1 DEF Inv, JobsInv, LevelInv
<1>5. (\A r \in Requests : HasJob(r))'
  BY <1>1 DEF HasJob, Working, Late
<1>6. (\A r \in Requests : Removed(r))'
  BY <1>1 DEF Inv, Removed, StatusInv
<1> QED  BY <1>2, <1>3, <1>4, <1>5, <1>6 DEF Inv

LEMMA InvStep == Inv /\ [Next]_vars => Inv'
<1> SUFFICES ASSUME Inv, [Next]_vars PROVE Inv'
  OBVIOUS
<1>1. CASE UNCHANGED vars
  BY <1>1 DEF Inv, Shape, StatusInv, JobsInv, LevelInv, HasJob, Removed, Stored, InV2, vars,
     request, upload, shared
<1>2. ASSUME NEW r \in Requests, Form(r) \/ Store(r) \/ TimerFires(r) \/ Get(r) PROVE Inv'
  BY <1>2, FormStep, AcceptStep, AdvanceStep, FailStep, StoreStep, EndStep, TimerStep, GetStep
     DEF Form, Store
<1> QED  BY <1>1, <1>2, RestStep, CrashStep DEF Next

-----------------------------------------------------------------------------
\* A job says "done!" only of a file that is stored, for as long as its contract
\* lasts (file_system.go:217-235, proofs.go:394).
THEOREM DoneStored == Spec => []DoneIsStored
<1>1. Inv => DoneIsStored
  BY DEF Inv, StatusInv, Stored, DoneIsStored
<1> QED  BY <1>1, InvInit, InvStep, PTL DEF Spec

\* An upload that runs is behind the job of its file, or a newer one is, or one
\* that was stored had its timer go off (file_handler.go:179, 243).
THEOREM RunningOwnsJob == Spec => []RunningHasJob
<1>1. Inv => RunningHasJob
  <2> SUFFICES ASSUME Inv, NEW r \in Requests, InV2(r), jobs[file[r]] # r,
                      at[r] \in UploadAts \ {"parsing", "received", "parsed"}
               PROVE  \E q \in Requests \ {r} :
                         file[q] = file[r] /\ (jobs[file[r]] = q \/ status[q] = "done")
    BY DEF RunningHasJob
  <2>1. at[r] \in Working \cup Late
    BY DEF UploadAts, Working, Late
  <2> QED  BY <2>1 DEF Inv, HasJob
<1> QED  BY <1>1, InvInit, InvStep, PTL DEF Spec

\* The last temporary file of an upload whose form was taken goes with its handler
\* (multipart_handler.go:33, file_handler.go:57, 142).
THEOREM TempsGo == Spec => []TempsRemoved
<1>1. Inv => TempsRemoved
  BY DEF Inv, Removed, TempsRemoved
<1> QED  BY <1>1, InvInit, InvStep, PTL DEF Spec

\* A step of an upload never takes back what it has shown.
LEMMA ProgressGrows ==
    ASSUME Inv, [Next]_vars
    PROVE  \A r \in Requests : progress'[r] >= progress[r]
<1>1. ASSUME NEW r \in Requests, Form(r) \/ Store(r) \/ TimerFires(r)
      PROVE  \A q \in Requests : progress'[q] >= progress[q]
  <2>1. CASE UNCHANGED progress
    BY <2>1 DEF Inv, Shape
  <2>2. CASE \E n \in Nat : ShowProgress(r, n) /\ n >= progress[r]
    BY <2>2 DEF Inv, Shape, ShowProgress
  <2>3. CASE AcceptFields(r)
    <3>1. progress[r] = 0
      BY <2>3 DEF Inv, LevelInv, AcceptFields
    <3> QED  BY <2>2, <2>3, <3>1 DEF AcceptFields
  <2>4. CASE Report(r)
    <3>1. progress[r] <= 100
      BY DEF Inv, LevelInv
    <3> QED  BY <2>2, <2>4, <3>1 DEF Report
  <2>5. CASE AskChain(r) \/ CheckFile(r) \/ BuildTree(r) \/ SeekStart(r) \/ AddFile(r)
    <3>1. \E n \in Nat : ShowProgress(r, n) /\ n >= progress[r]
      BY <2>5 DEF Inv, Shape, LevelInv, AskChain, CheckFile, BuildTree, SeekStart, AddFile, Advance
    <3> QED  BY <2>2, <3>1
  <2> QED  BY <1>1, <2>1, <2>3, <2>4, <2>5 DEF Form, Store, ArriveUpload, ReceiveFile, RefuseForm,
              FormEnds, RefuseFields, UploadFails, Fail, Commit, RefuseSize, PostProof, Answered,
              EndPosted, TimerFires, upload
<1>2. ASSUME NEW r \in Requests, Get(r) PROVE UNCHANGED progress
  BY <1>2, GetHas DEF GetEffect
<1>3. CASE Finalize \/ Crash \/ (\E f \in Files : HandWrites(f) \/ Expire(f) \/ DeleteFile(f))
           \/ UNCHANGED vars
  BY <1>3 DEF Finalize, Crash, HandWrites, Expire, DeleteFile, vars, upload, Inv, Shape
<1>4. UNCHANGED progress => \A q \in Requests : progress'[q] >= progress[q]
  BY DEF Inv, Shape
<1> QED  BY <1>1, <1>2, <1>3, <1>4 DEF Next

-----------------------------------------------------------------------------
\* A step that moves a job: the job is stored, its timer fires or all stops.
LEMMA JobsMove ==
    ASSUME Inv, [Next]_vars, NEW f \in Files, jobs'[f] # jobs[f]
    PROVE  \/ \E r \in Requests : jobs'[f] = r /\ at[r] = "parsed"
           \/ \E r \in Requests : timer[r] /\ ~timer'[r] /\ file[r] = f
           \/ \A r \in Requests : at'[r] \in {"free", "done"} /\ ~timer'[r]
<1>1. ASSUME NEW r \in Requests, AcceptFields(r)
      PROVE  jobs'[f] = r /\ at[r] = "parsed"
  BY <1>1 DEF Inv, Shape, AcceptFields
<1>2. ASSUME NEW r \in Requests, TimerFires(r)
      PROVE  timer[r] /\ ~timer'[r] /\ file[r] = f
  BY <1>2 DEF Inv, Shape, TimerFires
<1>3. CASE Crash
  BY <1>3 DEF Crash
<1>4. ASSUME NEW r \in Requests, Form(r) \/ Store(r), ~AcceptFields(r) PROVE UNCHANGED jobs
  BY <1>4 DEF Form, Store, ArriveUpload, ReceiveFile, RefuseForm, FormEnds, RefuseFields,
     AskChain, CheckFile, BuildTree, SeekStart, AddFile, Advance, UploadFails, Fail, Commit,
     Report, RefuseSize, PostProof, Answered, EndPosted, shared
<1>5. ASSUME NEW r \in Requests, Get(r) PROVE UNCHANGED jobs
  BY <1>5, GetHas DEF GetEffect
<1>6. CASE Finalize \/ (\E g \in Files : HandWrites(g) \/ Expire(g) \/ DeleteFile(g))
           \/ UNCHANGED vars
  BY <1>6 DEF Finalize, HandWrites, Expire, DeleteFile, vars, shared
<1> QED  BY <1>1, <1>2, <1>3, <1>4, <1>5, <1>6 DEF Next

\* What a poller sees of the upload of a file falls only for one of three reasons
\* (file_handler.go:179, 202, 220, 243, file_system.go:183-235).
THEOREM ShownFalls == Spec => ShownFallsForAReason
<1>1. Inv /\ [Next]_vars =>
        [\A f \in Files : Shown(f)' < Shown(f) =>
          \/ \E r \in Requests : jobs[f] # r /\ jobs'[f] = r /\ at[r] = "parsed"
          \/ \E r \in Requests : timer[r] /\ ~timer'[r] /\ file[r] = f
          \/ \A r \in Requests : at'[r] \in {"free", "done"} /\ ~timer'[r]]_vars
  <2> SUFFICES ASSUME Inv, [Next]_vars, NEW f \in Files, Shown(f)' < Shown(f)
               PROVE  \/ \E r \in Requests : jobs[f] # r /\ jobs'[f] = r /\ at[r] = "parsed"
                      \/ \E r \in Requests : timer[r] /\ ~timer'[r] /\ file[r] = f
                      \/ \A r \in Requests : at'[r] \in {"free", "done"} /\ ~timer'[r]
    OBVIOUS
  <2>1. jobs'[f] # jobs[f]
    <3> SUFFICES ASSUME jobs'[f] = jobs[f] PROVE FALSE
      OBVIOUS
    <3>1. CASE jobs[f] = NoJob
      BY <3>1 DEF Shown
    <3>2. CASE jobs[f] # NoJob
      <4>1. jobs[f] \in Requests
        BY <3>2 DEF Inv, Shape
      <4>2. progress'[jobs[f]] >= progress[jobs[f]]
        BY <4>1, ProgressGrows
      <4>3. progress[jobs[f]] \in Nat /\ progress'[jobs[f]] \in Nat
        BY <4>1, InvStep DEF Inv, Shape
      <4> QED  BY <3>2, <4>2, <4>3 DEF Shown
    <3> QED  BY <3>1, <3>2
  <2> QED  BY <2>1, JobsMove
<1> QED  BY <1>1, InvInit, InvStep, PTL DEF Spec, ShownFallsForAReason

-----------------------------------------------------------------------------
(* Paths                                                                   *)

\* A set of numbers that is not empty has a least one.
LEMMA LeastNumber ==
    ASSUME NEW S, S \subseteq Nat, S # {}
    PROVE  \E n \in S : \A m \in S : n <= m
<1> DEFINE Less == {p \in Nat \X Nat : p[1] < p[2]}
<1>1. IsWellFoundedOn(Less, Nat)
  BY NatLessThanWellFounded DEF OpToRel
<1>2. PICK n \in S : \A m \in S : ~(<<m, n>> \in Less)
  BY <1>1, WFMin
<1>3. ASSUME NEW m \in S PROVE n <= m
  <2>1. <<m, n>> \in Nat \X Nat /\ ~(<<m, n>> \in Less)
    BY <1>2
  <2>2. ~(m < n)
    BY <2>1
  <2> QED  BY <2>2
<1> QED  BY <1>3

\* The walk of LeadsTo.
Walk(walk, f, p) ==
    /\ walk \in [0..Len(p) -> Files \cup {NoFile}]
    /\ walk[0] = f
    /\ \A n \in 1..Len(p) :
          walk[n] = IF walk[n - 1] = NoFile THEN NoFile ELSE Child[walk[n - 1]][p[n]]

LEMMA WalkLeads ==
    ASSUME NEW f, NEW p, NEW g
    PROVE  LeadsTo(f, p, g) <=> \E walk : Walk(walk, f, p) /\ walk[Len(p)] = g
BY DEF LeadsTo, Walk

\* There is a walk along every path ...
LEMMA WalkExists ==
    ASSUME NEW f \in Files, NEW p \in Seq(Names)
    PROVE  \E walk : Walk(walk, f, p)
<1> DEFINE Step(w, n) == w[n] = IF w[n - 1] = NoFile THEN NoFile ELSE Child[w[n - 1]][p[n]]
           Upto(w, k) == /\ w \in [0..Len(p) -> Files \cup {NoFile}] /\ w[0] = f
                         /\ \A n \in 1..k : Step(w, n)
           Bad == {k \in 0..Len(p) : ~\E w : Upto(w, k)}
<1>1. Len(p) \in Nat /\ \A n \in 1..Len(p) : p[n] \in Names
  OBVIOUS
<1>2. Bad = {}
  <2> SUFFICES ASSUME Bad # {} PROVE FALSE
    OBVIOUS
  <2>1. PICK k \in Bad : \A m \in Bad : k <= m
    <3>1. Bad \subseteq Nat
      BY <1>1
    <3> HIDE DEF Bad
    <3> QED  BY <3>1, LeastNumber
  <2>2. CASE k = 0
    <3>1. Upto([n \in 0..Len(p) |-> f], 0)
      BY <1>1
    <3> QED  BY <2>2, <3>1
  <2>3. CASE k # 0
    <3>1. k - 1 \in 0..Len(p) /\ k \in 1..Len(p) /\ ~(k <= k - 1)
      BY <2>3, <1>1
    <3>2. k - 1 \notin Bad
      BY <2>1, <3>1
    <3>3. PICK w : Upto(w, k - 1)
      BY <3>1, <3>2
    <3> DEFINE c == IF w[k - 1] = NoFile THEN NoFile ELSE Child[w[k - 1]][p[k]]
               u == [w EXCEPT ![k] = c]
    <3>4. c \in Files \cup {NoFile}
      <4>1. w[k - 1] \in Files \cup {NoFile} /\ p[k] \in Names
        BY <1>1, <3>1, <3>3
      <4> QED  BY <4>1, ApiAssumption
    <3>5. u \in [0..Len(p) -> Files \cup {NoFile}] /\ u[k] = c
          /\ \A n \in 0..Len(p) : n # k => u[n] = w[n]
      <4>1. w \in [0..Len(p) -> Files \cup {NoFile}] /\ k \in 0..Len(p)
        BY <3>1, <3>3, <1>1
      <4> HIDE DEF c
      <4> QED  BY <4>1, <3>4
    <3>6. ASSUME NEW n \in 1..k PROVE Step(u, n)
      <4>1. n - 1 \in 0..Len(p) /\ n - 1 # k /\ n \in 0..Len(p) /\ n \in Nat
        BY <3>1, <1>1
      <4>2. u[n - 1] = w[n - 1]
        BY <4>1, <3>5
      <4>3. CASE n = k
        BY <4>2, <4>3, <3>5
      <4>4. CASE n # k
        <5>1. n \in 1..(k - 1) /\ u[n] = w[n]
          BY <4>1, <4>4, <3>5, <3>1
        <5>2. Step(w, n)
          BY <5>1, <3>3
        <5> HIDE DEF u, c
        <5> QED  BY <4>2, <5>1, <5>2
      <4> QED  BY <4>3, <4>4
    <3>7. u[0] = f
      BY <3>5, <3>1, <3>3, <1>1
    <3>8. Upto(u, k)
      <4> HIDE DEF u, Step
      <4> QED  BY <3>5, <3>6, <3>7
    <3> QED  BY <3>8
  <2> QED  BY <2>2, <2>3
<1>3. PICK w : Upto(w, Len(p))
  <2>1. Len(p) \in 0..Len(p)
    BY <1>1
  <2> QED  BY <1>2, <2>1
<1> QED  BY <1>3 DEF Walk

\* ... and only one.
LEMMA WalkOnly ==
    ASSUME NEW f, NEW p \in Seq(Names), NEW w, NEW u, Walk(w, f, p), Walk(u, f, p)
    PROVE  w[Len(p)] = u[Len(p)]
<1> DEFINE Bad == {k \in 0..Len(p) : w[k] # u[k]}
<1>1. Len(p) \in Nat
  OBVIOUS
<1> SUFFICES ASSUME Bad # {} PROVE FALSE
  BY <1>1
<1>2. PICK k \in Bad : \A m \in Bad : k <= m
  <2>1. Bad \subseteq Nat
    BY <1>1
  <2> HIDE DEF Bad
  <2> QED  BY <2>1, LeastNumber
<1>3. k # 0
  BY DEF Walk
<1>4. k - 1 \in 0..Len(p) /\ k \in 1..Len(p) /\ ~(k <= k - 1)
  BY <1>3, <1>1
<1>5. w[k - 1] = u[k - 1]
  BY <1>2, <1>4
<1> QED  BY <1>4, <1>5 DEF Walk

\* Every path leads somewhere, to one file or to none.
LEMMA PathLeads ==
    ASSUME NEW f \in Files, NEW p \in Seq(Names)
    PROVE  \E g \in Files \cup {NoFile} : \A h : LeadsTo(f, p, h) <=> h = g
<1>1. PICK walk : Walk(walk, f, p)
  BY WalkExists
<1>2. walk[Len(p)] \in Files \cup {NoFile}
  BY <1>1 DEF Walk
<1>3. ASSUME NEW h PROVE LeadsTo(f, p, h) <=> h = walk[Len(p)]
  BY <1>1, WalkLeads, WalkOnly
<1> QED  BY <1>2, <1>3

\* An empty path leads to where it starts; another one leads to where the rest of
\* it leads from the child that its first name names.
LEMMA EmptyLeads == ASSUME NEW f \in Files PROVE LeadsTo(f, <<>>, f)
<1>1. [n \in 0..0 |-> f] \in [0..0 -> Files \cup {NoFile}] /\ [n \in 0..0 |-> f][0] = f
  OBVIOUS
<1>2. Len(<<>>) = 0 /\ 1..0 = {}
  OBVIOUS
<1> QED  BY <1>1, <1>2 DEF LeadsTo

LEMMA RestLeads ==
    ASSUME NEW f \in Files, NEW p \in Seq(Names), p # <<>>,
           NEW c \in Files, c = Child[f][Head(p)], NEW g, LeadsTo(c, Tail(p), g)
    PROVE  LeadsTo(f, p, g)
<1>1. /\ Len(p) \in Nat \ {0} /\ Len(Tail(p)) = Len(p) - 1 /\ Head(p) = p[1]
      /\ \A n \in 1..Len(Tail(p)) : Tail(p)[n] = p[n + 1]
  OBVIOUS
<1>2. PICK w : Walk(w, c, Tail(p)) /\ w[Len(Tail(p))] = g
  BY WalkLeads
<1> DEFINE u == [n \in 0..Len(p) |-> IF n = 0 THEN f ELSE w[n - 1]]
<1>3. \A n \in 0..(Len(p) - 1) : w[n] \in Files \cup {NoFile}
  BY <1>1, <1>2 DEF Walk
<1>4. u \in [0..Len(p) -> Files \cup {NoFile}] /\ u[0] = f /\ u[Len(p)] = g
  BY <1>1, <1>2, <1>3
<1>5. ASSUME NEW n \in 1..Len(p)
      PROVE  u[n] = IF u[n - 1] = NoFile THEN NoFile ELSE Child[u[n - 1]][p[n]]
  <2>1. CASE n = 1
    <3>1. u[1] = w[0] /\ u[0] = f /\ w[0] = c
      BY <1>1, <1>2 DEF Walk
    <3>2. f # NoFile
      BY ApiAssumption
    <3> QED  BY <2>1, <3>1, <3>2, <1>1
  <2>2. CASE n # 1
    <3>1. n - 1 \in 1..Len(Tail(p)) /\ u[n] = w[n - 1] /\ u[n - 1] = w[(n - 1) - 1]
      BY <2>2, <1>1
    <3>2. w[n - 1] = IF w[(n - 1) - 1] = NoFile THEN NoFile
                     ELSE Child[w[(n - 1) - 1]][Tail(p)[n - 1]]
      BY <3>1, <1>2 DEF Walk
    <3>3. Tail(p)[n - 1] = p[n]
      BY <3>1, <1>1
    <3> QED  BY <3>1, <3>2, <3>3
  <2> QED  BY <2>1, <2>2
<1> HIDE DEF u
<1> QED  BY <1>4, <1>5 DEF LeadsTo

\* A path whose first name names nothing leads nowhere.
LEMMA NoChildLeads ==
    ASSUME NEW f \in Files, NEW p \in Seq(Names), p # <<>>, Child[f][Head(p)] = NoFile
    PROVE  LeadsTo(f, p, NoFile)
<1>1. Len(p) \in Nat \ {0} /\ Head(p) = p[1]
  OBVIOUS
<1> DEFINE u == [n \in 0..Len(p) |-> IF n = 0 THEN f ELSE NoFile]
<1>2. u \in [0..Len(p) -> Files \cup {NoFile}] /\ u[0] = f /\ u[Len(p)] = NoFile
  BY <1>1
<1>3. ASSUME NEW n \in 1..Len(p)
      PROVE  u[n] = IF u[n - 1] = NoFile THEN NoFile ELSE Child[u[n - 1]][p[n]]
  <2>1. CASE n = 1
    BY <2>1, <1>1
  <2>2. CASE n # 1
    BY <2>2, <1>1
  <2> QED  BY <2>1, <2>2
<1> HIDE DEF u
<1> QED  BY <1>2, <1>3 DEF LeadsTo

-----------------------------------------------------------------------------
(* Downloads and the gateway                                               *)

\* The types of what downloads and the gateway are made of.
GetShape ==
    /\ asked \in [Requests -> Seq(Names)]
    /\ raw \in [Requests -> BOOLEAN]
    /\ want \in [Requests -> Files \cup {NoFile}]
    /\ path \in [Requests -> Seq(Names)]
    /\ reader \in [Requests -> {"none", "disk", "temp"}]
    /\ left \in [Requests -> SUBSET Providers]
    /\ view \in [Requests -> BOOLEAN]
    /\ gone \in [Requests -> BOOLEAN]

\* The rest of the path leads from the file to find to where the whole path leads
\* from the root.  What is read from is on disk, or was deleted since.
OnTheWay(r) ==
    /\ want[r] \in Files
    /\ \A g \in Files \cup {NoFile} :
          LeadsTo(want[r], path[r], g) => LeadsTo(file[r], asked[r], g)
    /\ at[r] \in {"opened", "serving"} /\ reader[r] = "disk" => want[r] \in disk \/ gone[r]
    /\ at[r] = "opened" => reader[r] \in {"disk", "temp"}
    /\ at[r] = "serving" =>
          /\ path[r] = <<>>
          /\ view[r] => want[r] \in Folders /\ ~raw[r]
          /\ want[r] \in Folders => view[r] \/ raw[r] \/ gone[r]

WayInv == \A r \in Requests : at[r] \in GetAts => OnTheWay(r)

GetInv == GetShape /\ WayInv

LEMMA GetInvInit == Init => GetInv
BY DEF Init, GetInv, GetShape, WayInv, GetAts

\* A step that moves no request but r.
Others(r) ==
    \A q \in Requests \ {r} :
        /\ at'[q] = at[q] /\ raw'[q] = raw[q] /\ want'[q] = want[q] /\ path'[q] = path[q]
        /\ asked'[q] = asked[q] /\ reader'[q] = reader[q] /\ view'[q] = view[q]
        /\ gone'[q] = gone[q]

LEMMA WayStep ==
    ASSUME WayInv, NEW r \in Requests, UNCHANGED <<file, disk>>, Others(r),
           at'[r] \in GetAts => OnTheWay(r)'
    PROVE  WayInv'
<1> SUFFICES ASSUME NEW q \in Requests, at'[q] \in GetAts PROVE OnTheWay(q)'
  BY DEF WayInv
<1>1. CASE q = r
  BY <1>1
<1>2. CASE q # r
  BY <1>2 DEF WayInv, OnTheWay, Others
<1> QED  BY <1>1, <1>2

\* The end of a request keeps nothing.
LEMMA EndGetKeeps ==
    ASSUME Inv, GetInv, NEW r \in Requests, NEW a, EndGet(r, a), UNCHANGED <<file, disk>>
    PROVE  GetInv'
<1> USE DEF Inv, Shape, GetInv, GetShape, EndGet, Goto
<1>1. GetShape'
  OBVIOUS
<1>2. Others(r)
  BY DEF Others
<1>3. at'[r] \notin GetAts
  BY DEF GetAts
<1> QED  BY <1>1, <1>2, <1>3, WayStep

LEMMA ArriveGetKeeps ==
    ASSUME Inv, GetInv, NEW r \in Requests, ArriveGet(r) PROVE GetInv'
<1> USE DEF Inv, Shape, GetInv, GetShape, ArriveGet, Goto, shared
<1>1. PICK p \in Paths \cup {<<>>} :
         asked' = [asked EXCEPT ![r] = p] /\ path' = [path EXCEPT ![r] = p]
  OBVIOUS
<1>2. p \in Seq(Names)
  <2>1. <<>> \in Seq(Names)
    OBVIOUS
  <2>2. Paths \subseteq Seq(Names)
    BY ApiAssumption
  <2> QED  BY <1>1, <2>1, <2>2
<1>3. GetShape'
  BY <1>1, <1>2
<1>4. Others(r)
  BY <1>1 DEF Others
<1>5. OnTheWay(r)'
  BY <1>1 DEF OnTheWay
<1> QED  BY <1>3, <1>4, <1>5, WayStep

\* A file is found on disk, or its providers are, or one of them is left out.
LEMMA LookKeeps ==
    ASSUME Inv, GetInv, NEW r \in Requests,
           OpenLocal(r) \/ NotHere(r) \/ FindFile(r) \/ SkipProvider(r) \/ FetchFails(r)
    PROVE  GetInv'
<1>1. CASE \E a : EndGet(r, a) /\ UNCHANGED <<file, disk>>
  BY <1>1, EndGetKeeps
<1>2. CASE /\ at[r] \in GetAts /\ at'[r] \in {"finding", "fetching", "opened"}
           /\ \A q \in Requests \ {r} : at'[q] = at[q] /\ reader'[q] = reader[q]
           /\ at'[r] = "opened" => reader'[r] = "disk" /\ want[r] \in disk
           /\ reader' \in [Requests -> {"none", "disk", "temp"}]
           /\ left' \in [Requests -> SUBSET Providers]
           /\ UNCHANGED <<file, disk, asked, raw, want, path, view, gone>>
  <2>1. Others(r)
    BY <1>2 DEF Others
  <2>2. OnTheWay(r)'
    BY <1>2 DEF OnTheWay, GetInv, WayInv
  <2> QED  BY <1>2, <2>1, <2>2, WayStep DEF GetInv, GetShape
<1> USE DEF Inv, Shape, GetInv, GetShape, Goto, shared, request, get, GetAts
<1>3. CASE OpenLocal(r)
  BY <1>2, <1>3 DEF OpenLocal
<1>4. CASE NotHere(r)
  BY <1>1, <1>2, <1>4 DEF NotHere
<1>5. CASE FindFile(r)
  <2>1. left' \in [Requests -> SUBSET Providers]
    BY <1>5 DEF FindFile
  <2> QED  BY <1>2, <1>5, <2>1 DEF FindFile
<1>6. CASE SkipProvider(r)
  <2>1. left' \in [Requests -> SUBSET Providers]
    BY <1>6 DEF SkipProvider
  <2> QED  BY <1>2, <1>6, <2>1 DEF SkipProvider
<1>7. CASE FetchFails(r)
  BY <1>1, <1>7 DEF FetchFails
<1> QED  BY <1>3, <1>4, <1>5, <1>6, <1>7

LEMMA FetchKeeps ==
    ASSUME Inv, GetInv, NEW r \in Requests, Fetch(r) PROVE GetInv'
<1> USE DEF Inv, Shape, GetInv, GetShape, Fetch, Goto
<1>1. GetShape'
  OBVIOUS
<1>2. Others(r)
  BY DEF Others
<1>3. OnTheWay(r)'
  BY DEF OnTheWay, WayInv, GetAts
<1> QED  BY <1>1, <1>2, <1>3, WayStep

\* What an open file of a request gives is whole, or it was deleted.
LEMMA CutIsGone ==
    ASSUME GetInv, NEW r \in Requests, at[r] = "opened", FALSE \in MayRead(r)
    PROVE  gone[r]
BY DEF GetInv, WayInv, OnTheWay, MayRead, GetAts

\* What the next name of a path leads to, and what the rest of it does.
LEMMA ChildLeads ==
    ASSUME GetInv, NEW r \in Requests, at[r] = "opened", path[r] # <<>>,
           NEW child, child = Child[want[r]][Head(path[r])]
    PROVE  /\ child \in Files \cup {NoFile}
           /\ child = NoFile => LeadsTo(file[r], asked[r], NoFile)
           /\ child # NoFile => \A g \in Files \cup {NoFile} :
                 LeadsTo(child, Tail(path[r]), g) => LeadsTo(file[r], asked[r], g)
<1>1. /\ want[r] \in Files
      /\ \A g \in Files \cup {NoFile} :
            LeadsTo(want[r], path[r], g) => LeadsTo(file[r], asked[r], g)
  BY DEF GetInv, WayInv, OnTheWay, GetAts
<1>2. path[r] \in Seq(Names) /\ Head(path[r]) \in Names
  BY DEF GetInv, GetShape
<1>3. child \in Files \cup {NoFile}
  BY <1>1, <1>2, ApiAssumption
<1>4. child = NoFile => LeadsTo(file[r], asked[r], NoFile)
  BY <1>1, <1>2, NoChildLeads
<1>5. ASSUME child # NoFile, NEW g \in Files \cup {NoFile}, LeadsTo(child, Tail(path[r]), g)
      PROVE  LeadsTo(file[r], asked[r], g)
  <2>1. LeadsTo(want[r], path[r], g)
    BY <1>1, <1>2, <1>3, <1>5, RestLeads
  <2> QED  BY <1>1, <2>1
<1> QED  BY <1>3, <1>4, <1>5

LEMMA DescendKeeps ==
    ASSUME Inv, GetInv, NEW r \in Requests, Descend(r) PROVE GetInv'
<1>1. PICK whole \in MayRead(r) :
         Enter(r, IF whole THEN Child[want[r]][Head(path[r])] ELSE NoFile)
  BY DEF Descend
<1> DEFINE child == IF whole THEN Child[want[r]][Head(path[r])] ELSE NoFile
<1>2. CASE child = NoFile
  BY <1>1, <1>2, EndGetKeeps DEF Enter, shared
<1>3. CASE child # NoFile
  <2>1. /\ at' = [at EXCEPT ![r] = "opening"]
        /\ want' = [want EXCEPT ![r] = child]
        /\ path' = [path EXCEPT ![r] = Tail(@)]
        /\ reader' = [reader EXCEPT ![r] = "none"]
        /\ left' = [left EXCEPT ![r] = {}]
        /\ UNCHANGED <<answer, asked, raw, view, gone, file, disk>>
    BY <1>1, <1>3 DEF Enter, Goto, shared
  <2>2. /\ child \in Files
        /\ \A g \in Files \cup {NoFile} :
              LeadsTo(child, Tail(path[r]), g) => LeadsTo(file[r], asked[r], g)
    BY <1>1, <1>3, ChildLeads DEF Descend
  <2> HIDE DEF child
  <2>3. path[r] \in Seq(Names) /\ Tail(path[r]) \in Seq(Names)
    BY DEF Descend, GetInv, GetShape
  <2>4. GetShape'
    BY <2>1, <2>2, <2>3 DEF GetInv, GetShape
  <2>5. Others(r)
    BY <2>1 DEF Others, Inv, Shape, GetInv, GetShape
  <2>6. /\ at'[r] = "opening" /\ want'[r] = child /\ path'[r] = Tail(path[r])
        /\ file'[r] = file[r] /\ asked'[r] = asked[r]
    BY <2>1 DEF Inv, Shape, GetInv, GetShape
  <2>7. OnTheWay(r)'
    BY <2>2, <2>6 DEF OnTheWay
  <2> QED  BY <2>1, <2>4, <2>5, <2>7, WayStep DEF GetInv
<1> QED  BY <1>2, <1>3

LEMMA RenderKeeps ==
    ASSUME Inv, GetInv, NEW r \in Requests, Render(r) PROVE GetInv'
<1>1. PICK x \in BOOLEAN : raw' = [raw EXCEPT ![r] = x]
  BY DEF Render
<1>2. PICK whole \in MayRead(r) :
         view' = [view EXCEPT ![r] = whole /\ ~raw'[r] /\ want[r] \in Folders]
  BY DEF Render
<1>3. whole \in BOOLEAN /\ (whole = FALSE => gone[r])
  BY <1>2, CutIsGone DEF Render, MayRead
<1>4. /\ at' = [at EXCEPT ![r] = "serving"]
      /\ reader' = [reader EXCEPT ![r] = IF view'[r] THEN "none" ELSE @]
      /\ UNCHANGED <<file, disk, asked, want, path, left, gone>>
      /\ at[r] = "opened" /\ path[r] = <<>>
  BY DEF Render, Goto, shared
<1>5. /\ raw'[r] = x /\ (view'[r] <=> whole /\ ~x /\ want[r] \in Folders)
      /\ at'[r] = "serving" /\ (reader'[r] # "none" => reader'[r] = reader[r])
  BY <1>1, <1>2, <1>4 DEF Inv, Shape, GetInv, GetShape
<1>6. GetShape'
  <2>1. raw' \in [Requests -> BOOLEAN]
    BY <1>1 DEF GetInv, GetShape
  <2>2. view' \in [Requests -> BOOLEAN]
    BY <1>2, <2>1, <1>3 DEF GetInv, GetShape
  <2>3. reader' \in [Requests -> {"none", "disk", "temp"}]
    BY <1>4 DEF GetInv, GetShape
  <2> QED  BY <1>4, <2>1, <2>2, <2>3 DEF GetInv, GetShape
<1>7. Others(r)
  BY <1>1, <1>2, <1>4 DEF Others, Inv, Shape, GetInv, GetShape
<1>8. OnTheWay(r)'
  <2>1. OnTheWay(r)
    BY <1>4 DEF GetInv, WayInv, GetAts
  <2> QED  BY <1>3, <1>4, <1>5, <2>1 DEF OnTheWay
<1> QED  BY <1>4, <1>6, <1>7, <1>8, WayStep DEF GetInv

LEMMA GetKeeps == ASSUME Inv, GetInv, NEW r \in Requests, Get(r) PROVE GetInv'
<1>1. CASE Serve(r)
  BY <1>1, EndGetKeeps DEF Serve, shared
<1> QED  BY <1>1, ArriveGetKeeps, LookKeeps, FetchKeeps, DescendKeeps, RenderKeeps DEF Get

\* The other steps leave requests on their way alone; what is deleted meanwhile
\* is remembered.
LEMMA OtherKeeps ==
    ASSUME Inv, GetInv,
           \/ \E r \in Requests : Form(r) \/ Store(r) \/ TimerFires(r)
           \/ Finalize \/ Crash \/ (\E f \in Files : HandWrites(f) \/ Expire(f) \/ DeleteFile(f))
           \/ UNCHANGED vars
    PROVE  GetInv'
<1>1. CASE /\ UNCHANGED <<file, get>>
           /\ \A q \in Requests : at'[q] \in GetAts => at'[q] = at[q]
           /\ disk \subseteq disk'
  BY <1>1 DEF GetInv, GetShape, WayInv, OnTheWay, get
<1>2. ASSUME NEW r \in Requests, Form(r) \/ Store(r) \/ TimerFires(r) PROVE GetInv'
  <2>1. \E l \in Ats \ GetAts : at' = [at EXCEPT ![r] = l] \/ UNCHANGED at
    BY <1>2 DEF Form, Store, ArriveUpload, ReceiveFile, RefuseForm, FormEnds, RefuseFields,
       AcceptFields, AskChain, CheckFile, BuildTree, SeekStart, AddFile, Advance, UploadFails,
       Fail, Commit, Report, RefuseSize, PostProof, Answered, EndPosted, TimerFires, EndUpload,
       Goto, request, Ats, UploadAts, GetAts
  <2>2. UNCHANGED <<file, get>> /\ disk \subseteq disk'
    BY <1>2 DEF Form, Store, ArriveUpload, ReceiveFile, RefuseForm, FormEnds, RefuseFields,
       AcceptFields, AskChain, CheckFile, BuildTree, SeekStart, AddFile, Advance, UploadFails,
       Fail, Commit, Report, RefuseSize, PostProof, Answered, EndPosted, TimerFires,
       request, shared
  <2>3. \A q \in Requests : at'[q] \in GetAts => at'[q] = at[q]
    BY <2>1 DEF Inv, Shape
  <2> QED  BY <1>1, <2>2, <2>3
<1>3. CASE Finalize \/ (\E f \in Files : HandWrites(f) \/ Expire(f)) \/ UNCHANGED vars
  BY <1>1, <1>3 DEF Finalize, HandWrites, Expire, request, shared, vars
<1>4. ASSUME NEW f \in Files, DeleteFile(f) PROVE GetInv'
  <2>1. /\ gone' = [r \in Requests |-> gone[r] \/ at[r] \in GetAts]
        /\ UNCHANGED <<at, file, asked, raw, want, path, reader, left, view>>
    BY <1>4 DEF DeleteFile, request
  <2>2. GetShape'
    BY <2>1 DEF GetInv, GetShape
  <2>3. \A r \in Requests : at[r] \in GetAts => gone'[r]
    BY <2>1
  <2> QED  BY <2>1, <2>2, <2>3 DEF GetInv, WayInv, OnTheWay
<1>5. CASE Crash
  BY <1>5 DEF Crash, GetInv, GetShape, WayInv, GetAts
<1> QED  BY <1>2, <1>3, <1>4, <1>5

LEMMA GetInvStep == Inv /\ GetInv /\ [Next]_vars => GetInv'
BY GetKeeps, OtherKeeps DEF Next

\* The types that nothing above rests on.
RestShape ==
    /\ progress \in [Requests -> {0, 10, 30, 40, 60, 70, 90, 100}]
    /\ disk \subseteq Files
    /\ contracts \subseteq Files
    /\ \A r \in Requests : at[r] \in UploadAts => kind[r] \in Uploads

LEMMA RestShapeInit == Init => RestShape
BY DEF Init, RestShape, UploadAts

LEMMA RestShapeStep == Inv /\ RestShape /\ [Next]_vars => RestShape'
<1> SUFFICES ASSUME Inv, RestShape, [Next]_vars PROVE RestShape'
  OBVIOUS
<1>1. CASE /\ \A q \in Requests : at'[q] \in UploadAts => at[q] \in UploadAts \/ kind[q] \in Uploads
           /\ \/ UNCHANGED progress
              \/ \E r \in Requests, n \in {0, 10, 30, 40, 60, 70, 90, 100} : ShowProgress(r, n)
           /\ disk' \subseteq Files /\ contracts' \subseteq Files /\ UNCHANGED kind
  BY <1>1 DEF RestShape, ShowProgress
<1>2. ASSUME NEW r \in Requests, Form(r) \/ Store(r) \/ TimerFires(r) PROVE RestShape'
  <2>1. \A q \in Requests \ {r} : at'[q] = at[q]
    BY <1>2 DEF Inv, Shape, Form, Store, ArriveUpload, ReceiveFile, RefuseForm, FormEnds,
       RefuseFields, AcceptFields, AskChain, CheckFile, BuildTree, SeekStart, AddFile, Advance,
       UploadFails, Fail, Commit, Report, RefuseSize, PostProof, Answered, EndPosted, TimerFires,
       EndUpload, Goto, request
  <2>2. kind[r] \in Uploads \/ at[r] \in UploadAts \/ UNCHANGED at
    BY <1>2 DEF Form, Store, ArriveUpload, ReceiveFile, RefuseForm, FormEnds,
       RefuseFields, AcceptFields, AskChain, CheckFile, BuildTree, SeekStart, AddFile,
       UploadFails, Commit, Report, RefuseSize, PostProof, Answered, EndPosted, TimerFires,
       UploadAts, request
  <2>3. disk' \subseteq Files /\ contracts' \subseteq Files /\ UNCHANGED kind
    BY <1>2 DEF Inv, Shape, RestShape, Form, Store, ArriveUpload, ReceiveFile, RefuseForm,
       FormEnds, RefuseFields, AcceptFields, AskChain, CheckFile, BuildTree, SeekStart, AddFile,
       Advance, UploadFails, Fail, Commit, Report, RefuseSize, PostProof, Answered, EndPosted,
       TimerFires, request, shared
  <2>4. \/ UNCHANGED progress
        \/ \E n \in {0, 10, 30, 40, 60, 70, 90, 100} : ShowProgress(r, n)
    BY <1>2 DEF Form, Store, ArriveUpload, ReceiveFile, RefuseForm, FormEnds, RefuseFields,
       AcceptFields, AskChain, CheckFile, BuildTree, SeekStart, AddFile, Advance, UploadFails,
       Fail, Commit, Report, RefuseSize, PostProof, Answered, EndPosted, TimerFires, upload
  <2> QED  BY <1>1, <2>1, <2>2, <2>3, <2>4
<1>3. ASSUME NEW r \in Requests, Get(r) PROVE RestShape'
  <2>1. PICK l \in GetAts \cup {"done"} : at' = [at EXCEPT ![r] = l]
    BY <1>3, GetHas DEF GetEffect
  <2>2. \A q \in Requests : at'[q] \in UploadAts => at[q] \in UploadAts
    BY <2>1 DEF Inv, Shape, UploadAts, GetAts
  <2>3. UNCHANGED <<kind, progress, disk, contracts>>
    BY <1>3, GetHas DEF GetEffect
  <2> QED  BY <1>1, <2>2, <2>3 DEF RestShape
<1>4. CASE Finalize \/ (\E f \in Files : HandWrites(f) \/ Expire(f) \/ DeleteFile(f)) \/ Crash
           \/ UNCHANGED vars
  <2>1. \A q \in Requests : at'[q] \in UploadAts => at[q] \in UploadAts
    BY <1>4 DEF Finalize, HandWrites, Expire, DeleteFile, Crash, vars, request, UploadAts
  <2>2. UNCHANGED <<kind, progress>> /\ disk' \subseteq Files /\ contracts' \subseteq Files
    BY <1>4 DEF RestShape, Finalize, HandWrites, Expire, DeleteFile, Crash, vars, request, upload,
       shared
  <2> QED  BY <1>1, <2>1, <2>2
<1> QED  BY <1>2, <1>3, <1>4 DEF Next

AllInv == Inv /\ GetInv /\ RestShape

LEMMA AllInvInit == Init => AllInv
BY InvInit, GetInvInit, RestShapeInit DEF AllInv

LEMMA AllInvStep == AllInv /\ [Next]_vars => AllInv'
BY InvStep, GetInvStep, RestShapeStep DEF AllInv

\* Types: also that only uploads are where uploads are, that a request that looks
\* for a file looks for one, and that a timer runs only for what is stored.
THEOREM TypeCorrect == Spec => []TypeOK
<1>1. AllInv => TypeOK
  BY ApiAssumption DEF AllInv, Inv, Shape, StatusInv, GetInv, GetShape, WayInv, OnTheWay, RestShape,
     TypeOK
<1> QED  BY <1>1, AllInvInit, AllInvStep, PTL DEF Spec

-----------------------------------------------------------------------------
\* Only Serve serves, and only Descend calls a path invalid.
LEMMA WhoAnswers ==
    ASSUME Inv, [Next]_vars, NEW r \in Requests, answer[r] = "none",
           answer'[r] \in {"served", "noPath"}
    PROVE  Serve(r) \/ Descend(r)
<1>1. ASSUME NEW q \in Requests, Form(q) \/ Store(q) \/ TimerFires(q) PROVE FALSE
  <2>1. UNCHANGED answer \/ \E a \in Answers \ {"served", "noPath"} : answer' = [answer EXCEPT ![q] = a]
    BY <1>1 DEF Form, Store, ArriveUpload, ReceiveFile, RefuseForm, FormEnds, RefuseFields,
       AcceptFields, AskChain, CheckFile, BuildTree, SeekStart, AddFile, Advance, UploadFails,
       Fail, Commit, Report, RefuseSize, PostProof, Answered, EndPosted, TimerFires, EndUpload,
       request, Answers
  <2> QED  BY <2>1 DEF Inv, Shape, Answers
<1>2. ASSUME NEW q \in Requests, Get(q) PROVE Serve(r) \/ Descend(r)
  <2>1. q = r
    BY <1>2, GetHas DEF GetEffect, Inv, Shape
  <2>2. ASSUME answer' = [answer EXCEPT ![r] = "notFound"] PROVE FALSE
    BY <2>2 DEF Inv, Shape
  <2> QED  BY <1>2, <2>1, <2>2 DEF Get, ArriveGet, OpenLocal, NotHere, FindFile, Fetch, SkipProvider,
              FetchFails, Render, EndGet, request
<1>3. CASE Finalize \/ Crash \/ (\E f \in Files : HandWrites(f) \/ Expire(f) \/ DeleteFile(f))
           \/ UNCHANGED vars
  BY <1>3 DEF Finalize, Crash, HandWrites, Expire, DeleteFile, vars, request
<1> QED  BY <1>1, <1>2, <1>3 DEF Next

\* Whoever is served gets what the path leads to, and a page exactly when that is
\* a folder, raw and deleted files aside (file_handler.go:473-520).
THEOREM ServesWhatIsAsked == Spec => ServedIsAsked
<1>1. AllInv /\ [Next]_vars =>
        [\A r \in Requests : answer'[r] = "served" /\ answer[r] = "none" =>
          /\ LeadsTo(file[r], asked[r], want[r])
          /\ view[r] => want[r] \in Folders /\ ~raw[r]
          /\ want[r] \in Folders => view[r] \/ raw[r] \/ gone[r]]_vars
  <2> SUFFICES ASSUME AllInv, [Next]_vars, NEW r \in Requests,
                      answer'[r] = "served", answer[r] = "none"
               PROVE  /\ LeadsTo(file[r], asked[r], want[r])
                      /\ view[r] => want[r] \in Folders /\ ~raw[r]
                      /\ want[r] \in Folders => view[r] \/ raw[r] \/ gone[r]
    OBVIOUS
  <2>1. CASE Serve(r)
    <3>1. at[r] = "serving" /\ OnTheWay(r)
      BY <2>1 DEF Serve, AllInv, GetInv, WayInv, GetAts
    <3>2. LeadsTo(want[r], path[r], want[r])
      BY <3>1, EmptyLeads DEF OnTheWay
    <3> QED  BY <3>1, <3>2 DEF OnTheWay
  <2>2. CASE Descend(r)
    <3>1. answer'[r] \in {"none", "noPath"}
      BY <2>2 DEF Descend, Enter, EndGet, AllInv, Inv, Shape
    <3> QED  BY <3>1
  <2> QED  BY <2>1, <2>2, WhoAnswers DEF AllInv
<1> QED  BY <1>1, AllInvInit, AllInvStep, PTL DEF Spec, ServedIsAsked

\* A path is called invalid only when it leads nowhere, or when a file was deleted
\* on the way (file_handler.go:484, 498).
THEOREM InvalidPathsAreReal == Spec => NoPathIsReal
<1>1. AllInv /\ [Next]_vars =>
        [\A r \in Requests : answer'[r] = "noPath" /\ answer[r] = "none" =>
          LeadsTo(file[r], asked[r], NoFile) \/ gone[r]]_vars
  <2> SUFFICES ASSUME AllInv, [Next]_vars, NEW r \in Requests,
                      answer'[r] = "noPath", answer[r] = "none"
               PROVE  LeadsTo(file[r], asked[r], NoFile) \/ gone[r]
    OBVIOUS
  <2>1. CASE Serve(r)
    BY <2>1 DEF Serve, EndGet, AllInv, Inv, Shape
  <2>2. CASE Descend(r)
    <3>1. PICK whole \in MayRead(r) :
             Enter(r, IF whole THEN Child[want[r]][Head(path[r])] ELSE NoFile)
      BY <2>2 DEF Descend
    <3>2. at[r] = "opened" /\ path[r] # <<>> /\ GetInv
      BY <2>2 DEF Descend, AllInv
    <3>3. CASE ~whole
      BY <3>1, <3>2, <3>3, CutIsGone DEF MayRead
    <3>4. CASE whole
      <4>1. Child[want[r]][Head(path[r])] = NoFile
        BY <3>1, <3>4 DEF Enter
      <4> QED  BY <4>1, <3>2, ChildLeads
    <3> QED  BY <3>3, <3>4
  <2> QED  BY <2>1, <2>2, WhoAnswers DEF AllInv
<1> QED  BY <1>1, AllInvInit, AllInvStep, PTL DEF Spec, NoPathIsReal
=============================================================================
