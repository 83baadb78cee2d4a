----------------------------- MODULE JobRegistry -----------------------------
(***************************************************************************)
(* The registry of jobs of CoolClient: the maps jobs_, job_status_,        *)
(* torrent_path_map_ and removed_jobs_, the set torrent_ids_ and the       *)
(* counter job_index_, shared by the threads that add jobs (the user       *)
(* interface, the thread that makes a torrent, the one that reloads the    *)
(* history), the user interface that removes them, and the timer thread    *)
(* that collects the status of all jobs every second.                      *)
(*                                                                         *)
(* The steps are cut at the locks: what happens under mutex_ is one step,  *)
(* except for the collector, which holds it from its first step to its     *)
(* last (`collecting`), while job_status_mutex_ is held only for the copy  *)
(* of the status map at its start and its end.                             *)
(***************************************************************************)
EXTENDS Naturals

CONSTANTS
    Torrent,    \* torrent ids
    Adder,      \* the threads that add jobs
    UI,         \* the user interface thread, which also removes jobs
    MaxJobs,    \* bound on the jobs added: a thread stops where it would go past it
    NoTorrent   \* torrent of a handle not given yet

ASSUME RegistryAssumption ==
    /\ UI \in Adder
    /\ MaxJobs \in Nat \ {0}
    /\ NoTorrent \notin Torrent

Handle == 1 .. MaxJobs

VARIABLES
    jobs,        \* the keys of jobs_
    jobTorrent,  \* Handle -> the torrent of the job put under it
    status,      \* the keys of job_status_
    paths,       \* the keys of torrent_path_map_
    removedJobs, \* the keys of removed_jobs_
    torrents,    \* torrent_ids_
    index,       \* job_index_
    pc, torrent, handle, \* of each thread: where it is, its torrent, its handle
    collecting,  \* the collector runs, and holds mutex_
    snapshot     \* its copy of job_status_

tables == <<jobs, jobTorrent, status, paths, removedJobs>>
locals == <<pc, torrent, handle>>
collector == <<collecting, snapshot>>
vars == <<tables, torrents, index, locals, collector>>

AddPC == {"register", "build", "number", "insert", "start"}
RemovePC == {"unregister", "erase", "eraseStatus", "keep"}

TypeOK ==
    /\ jobs \in SUBSET Handle
    /\ jobTorrent \in [Handle -> Torrent \cup {NoTorrent}]
    /\ status \in SUBSET Handle
    /\ paths \in SUBSET Handle
    /\ removedJobs \in SUBSET Handle
    /\ torrents \in SUBSET Torrent
    /\ index \in 1 .. MaxJobs + 1
    /\ pc \in [Adder -> {"idle"} \cup AddPC \cup RemovePC]
    /\ torrent \in [Adder -> Torrent \cup {NoTorrent}]
    /\ handle \in [Adder -> Handle \cup {0}]
    /\ collecting \in BOOLEAN
    /\ snapshot \in SUBSET Handle

Init ==
    /\ jobs = {} /\ status = {} /\ paths = {} /\ removedJobs = {}
    /\ jobTorrent = [h \in Handle |-> NoTorrent]
    /\ torrents = {}
    /\ index = 1
    /\ pc = [a \in Adder |-> "idle"]
    /\ torrent = [a \in Adder |-> NoTorrent]
    /\ handle = [a \in Adder |-> 0]
    /\ collecting = FALSE /\ snapshot = {}

-----------------------------------------------------------------------------
Goto(a, l) == pc' = [pc EXCEPT ![a] = l]

\* Every section under mutex_ waits for the collector to release it.
Locked == ~ collecting

\* AddNewDownloadJob, AddNewUploadJob, ReloadOneJob: one job per torrent.  The
\* test and the registration are two steps without a lock.
\* (Faulty variant, to validate OneJobPerTorrent: there is no test.)
TakeTorrent(a, t) ==
    /\ pc[a] = "idle"
    /\ torrent' = [torrent EXCEPT ![a] = t]
    /\ Goto(a, "register")
    /\ UNCHANGED <<tables, torrents, index, handle, collector>>

HasThisTorrent_untested(a, t) == TakeTorrent(a, t)

HasThisTorrent(a, t) == t \notin torrents /\ TakeTorrent(a, t)

RegisterTorrent(a) ==
    /\ pc[a] = "register"
    /\ torrents' = torrents \cup {torrent[a]}
    /\ Goto(a, "build")
    /\ UNCHANGED <<tables, index, torrent, handle, collector>>

\* The JobInfo is built: directories and files are made, which may throw.
\* The torrent stays registered then, without a job.
BuildJobInfo(a) ==
    /\ pc[a] = "build"
    /\ \E l \in {"number", "idle"} : Goto(a, l)
    /\ UNCHANGED <<tables, torrents, index, torrent, handle, collector>>

\* AddNewJob, first part: job_index_ is read without a lock, and the path of
\* the torrent is filed under it.
NumberJob(a) ==
    /\ pc[a] = "number"
    /\ index \in Handle
    /\ handle' = [handle EXCEPT ![a] = index]
    /\ paths' = paths \cup {index}
    /\ Goto(a, "insert")
    /\ UNCHANGED <<jobs, jobTorrent, status, removedJobs, torrents, index,
                   torrent, collector>>

\* AddNewJob, second part, under both mutexes: the job goes under job_index_
\* as it is now, its status under the number read before.
\* (Faulty variant, to validate JobsHaveStatus: the status is filed under the
\* next number.)
InsertUnder(a, h, s) ==
    /\ pc[a] = "insert"
    /\ index \in Handle
    /\ jobs' = jobs \cup {h}
    /\ jobTorrent' = [jobTorrent EXCEPT ![h] = torrent[a]]
    /\ status' = status \cup {s}
    /\ index' = index + 1
    /\ Goto(a, "start")
    /\ UNCHANGED <<paths, removedJobs, torrents, torrent, handle, collector>>

InsertJob_ahead(a) == Locked /\ InsertUnder(a, index, index + 1)

InsertJob(a) == Locked /\ InsertUnder(a, index, handle[a])

\* The caller starts the job by the handle it was given: StartJob looks it up
\* under mutex_.
StartJob(a) ==
    /\ pc[a] = "start"
    /\ Locked
    /\ Goto(a, "idle")
    /\ UNCHANGED <<tables, torrents, index, torrent, handle, collector>>

\* RemoveJob: the job is looked up under mutex_, ...
GetJobByHandle(h) ==
    /\ pc[UI] = "idle"
    /\ Locked
    /\ h \in jobs
    /\ handle' = [handle EXCEPT ![UI] = h]
    /\ torrent' = [torrent EXCEPT ![UI] = jobTorrent[h]]
    /\ Goto(UI, "unregister")
    /\ UNCHANGED <<tables, torrents, index, collector>>

\* ... its torrent is unregistered and its flag set without a lock, ...
UnregisterTorrent ==
    /\ pc[UI] = "unregister"
    /\ torrents' = torrents \ {torrent[UI]}
    /\ Goto(UI, "erase")
    /\ UNCHANGED <<tables, index, torrent, handle, collector>>

\* ... it leaves jobs_ under mutex_ ("note that we never roll back the
\* handle"), ...
\* (Faulty variant, to validate HandlesNeverReused: the number is rolled back.)
EraseWith(next) ==
    /\ pc[UI] = "erase"
    /\ Locked
    /\ jobs' = jobs \ {handle[UI]}
    /\ index' = next
    /\ Goto(UI, "eraseStatus")
    /\ UNCHANGED <<jobTorrent, status, paths, removedJobs, torrents,
                   torrent, handle, collector>>

EraseJob_rollsback == EraseWith(index - 1)

EraseJob == EraseWith(index)

\* ... its status leaves job_status_ under job_status_mutex_ only, ...
EraseStatus ==
    /\ pc[UI] = "eraseStatus"
    /\ status' = status \ {handle[UI]}
    /\ Goto(UI, "keep")
    /\ UNCHANGED <<jobs, jobTorrent, paths, removedJobs, torrents, index,
                   torrent, handle, collector>>

\* ... and it is kept, because its threads may still use it.
KeepJob ==
    /\ pc[UI] = "keep"
    /\ removedJobs' = removedJobs \cup {handle[UI]}
    /\ Goto(UI, "idle")
    /\ UNCHANGED <<jobs, jobTorrent, status, paths, torrents, index,
                   torrent, handle, collector>>

\* onJobInfoCollectorWakeUp copies job_status_ and refreshes the status of
\* each job.  It asserts that there is one: the exception of the assertion
\* releases the mutex and ends this wakeup.
CollectBegin ==
    /\ Locked
    /\ snapshot' = status
    /\ collecting' = (jobs \subseteq status)
    /\ UNCHANGED <<tables, torrents, index, locals>>

\* The copy goes back to job_status_.
CollectEnd ==
    /\ collecting
    /\ status' = snapshot
    /\ collecting' = FALSE
    /\ UNCHANGED <<jobs, jobTorrent, paths, removedJobs, torrents, index,
                   locals, snapshot>>

Add(a) ==
    \/ \E t \in Torrent : HasThisTorrent(a, t)
    \/ RegisterTorrent(a)
    \/ BuildJobInfo(a)
    \/ NumberJob(a)
    \/ InsertJob(a)
    \/ StartJob(a)

Removal ==
    \/ \E h \in Handle : GetJobByHandle(h)
    \/ UnregisterTorrent
    \/ EraseJob
    \/ EraseStatus
    \/ KeepJob

Collect == CollectBegin \/ CollectEnd

Next == (\E a \in Adder : Add(a)) \/ Removal \/ Collect

Spec == Init /\ [][Next]_vars

-----------------------------------------------------------------------------
\* AddNewJob is written for callers that never run in parallel.
SingleAdder == Adder = {UI}

\* Every job has a status, also in the copy the collector works on: the
\* assertion of onJobInfoCollectorWakeUp, on which every status, every speed
\* and every progress report of all the jobs depends.  "This func never run at
\* parallel condition", says AddNewJob; with two adders it is violated.
JobsHaveStatus == jobs \subseteq status

\* The collector never starts a cycle it cannot finish.
CollectorCovers == collecting => jobs \subseteq snapshot

\* SaveJobHistory asserts that each job has a torrent path.  It has truncated
\* the history file by then.
JobsHavePath == jobs \subseteq paths

\* There is at most one job for a torrent, and its torrent is registered
\* until its removal begins.
OneJobPerTorrent ==
    /\ \A g, h \in jobs : jobTorrent[g] = jobTorrent[h] => g = h
    /\ \A h \in jobs :
         jobTorrent[h] \in torrents \/ (pc[UI] = "erase" /\ handle[UI] = h)

\* The handle an adder was given names the job of its torrent when the adder
\* starts it.
HandleNamesJob ==
    \A a \in Adder : pc[a] = "start" =>
        handle[a] \in jobs /\ jobTorrent[handle[a]] = torrent[a]

\* However many threads add jobs, a handle is never given to a second job:
\* "we never roll back the handle", and the user interface and the tables of
\* removed jobs depend on it.
HandlesNeverReused ==
    [][/\ (jobs' \ jobs) \cap (removedJobs \cup {h \in Handle : jobTorrent[h] # NoTorrent}) = {}
       /\ \A h \in jobs \cap jobs' : jobTorrent'[h] = jobTorrent[h]]_vars

-----------------------------------------------------------------------------
(* The inductive invariants behind these properties.                       *)

\* What a thread has in its hands where it uses it, and no number in use from
\* job_index_ on: whatever the adders do.
NumbersFresh ==
    /\ \A a \in Adder : pc[a] = "register" => torrent[a] \in Torrent
    /\ \A a \in Adder : pc[a] = "insert" => handle[a] \in Handle
    /\ pc[UI] \in RemovePC => handle[UI] \in Handle /\ handle[UI] < index
    /\ \A h \in Handle :
         h \in jobs \/ h \in removedJobs \/ jobTorrent[h] # NoTorrent => h < index

\* The thread that adds and removes jobs carries a torrent no job has and the
\* next number, or a job that is, or is no longer, in the table.
HandsOK ==
    /\ pc[UI] \in {"register", "build", "number", "insert"} =>
         \A h \in jobs : jobTorrent[h] # torrent[UI]
    /\ pc[UI] \in {"build", "number", "insert"} => torrent[UI] \in torrents
    /\ pc[UI] = "insert" => handle[UI] = index /\ index \in paths
    /\ pc[UI] \in {"unregister", "erase"} =>
         handle[UI] \in jobs /\ jobTorrent[handle[UI]] = torrent[UI]
    /\ pc[UI] = "eraseStatus" => handle[UI] \notin jobs

-----------------------------------------------------------------------------
(* A statement of the code that does not hold; JobsHaveStatus does not hold *)
(* either when two threads add jobs.                                       *)

\* A job without a status "has been removed, so we delete this job info
\* table": a removed job never comes back to job_status_.
RemovedStaysAway == removedJobs \cap status = {}

=============================================================================
