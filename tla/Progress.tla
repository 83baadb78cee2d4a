------------------------------- MODULE Progress -------------------------------
(***************************************************************************)
(* How the progress of the downloads is counted and reported: the tasks    *)
(* count bytes and mark chunks, the timer thread                           *)
(* (CoolClient::onJobInfoCollectorWakeUp) collects the counters of all     *)
(* jobs every second and every report_period seconds puts their            *)
(* percentages on a list, and the report thread (ReportProgressRoutine)    *)
(* takes the list and tells the tracker.                                   *)
(*                                                                         *)
(* Each job has one file of Size chunks of one byte, so that bits and      *)
(* bytes are comparable; a chunk whose checksum is wrong is received       *)
(* again, at most MaxFailures times.  Reports to the tracker may fail.       *)
(***************************************************************************)
EXTENDS Integers, Sequences, SequencesExt

CONSTANTS
    Job,           \* the jobs, by their handles: jobs_ is a map in their order
    Size,          \* chunks of the file of a job
    report_period, \* ticks between two reports of a job, 30 in the code
    MaxFailures,   \* bound on chunks received again and on reports that fail
    NoJob          \* the collector is at no job

ASSUME ProgressAssumption ==
    /\ Size \in Nat \ {0} /\ report_period \in Nat \ {0}
    /\ MaxFailures \in Nat /\ Job \subseteq Nat /\ NoJob \notin Job

VARIABLES
    running,    \* the jobs whose run thread is in its loop
    bits,       \* Job -> chunks marked in the bitmap
    received,   \* Job -> bytes received that are not yet a chunk, or a failure
    second,     \* bytes_download_this_second
    totals,     \* download_total
    ever,       \* history: all bytes received
    wait,       \* time_to_next_report
    percent,    \* percentage_map
    todo, at, seen, \* collector: jobs to visit, the one it is at, its bytes
    batch,      \* collector: progress_to_report
    list,       \* progress_info_to_report_
    rpc,        \* report thread: where it is
    sending,    \* report thread: its copy of the list
    tracker,    \* external: what the tracker was last told of each job
    failures

work == <<running, bits, received, ever>>
counters == <<second, totals, wait, percent>>
collector == <<todo, at, seen, batch>>
reporter == <<list, rpc, sending, tracker>>
progressVars == <<work, counters, collector, reporter, failures>>

Percentage(n) == (n * 100) \div Size

Report == [job : Job, percentage : 0 .. 100]

ProgressInit ==
    /\ running = {}
    /\ bits = [j \in Job |-> 0]
    /\ received = [j \in Job |-> 0]
    /\ second = [j \in Job |-> 0]
    /\ totals = [j \in Job |-> 0]
    /\ ever = [j \in Job |-> 0]
    /\ wait = [j \in Job |-> report_period]
    /\ percent = [j \in Job |-> 0]
    /\ todo = {} /\ at = NoJob /\ seen = 0
    /\ batch = <<>> /\ list = <<>>
    /\ rpc = "test" /\ sending = <<>>
    /\ tracker = [j \in Job |-> 0]
    /\ failures = 0

-----------------------------------------------------------------------------
(* The job and its download tasks *)

\* AddNewDownload and StartJob follow each other: the countdown that starts
\* with the first has not run out at the second.
StartRun(j) ==
    /\ j \notin running
    /\ bits[j] = 0
    /\ wait[j] > 0
    /\ running' = running \cup {j}
    /\ UNCHANGED <<bits, received, ever, counters, collector, reporter, failures>>

\* The receive loop of a task adds what it received to the counter.
Receive(j) ==
    /\ j \in running
    /\ bits[j] + received[j] < Size
    /\ received' = [received EXCEPT ![j] = @ + 1]
    /\ second' = [second EXCEPT ![j] = @ + 1]
    /\ ever' = [ever EXCEPT ![j] = @ + 1]
    /\ UNCHANGED <<running, bits, totals, wait, percent, collector,
                   reporter, failures>>

\* report_success_chunk marks the chunk.
ChunkDone(j) ==
    /\ received[j] > 0
    /\ received' = [received EXCEPT ![j] = @ - 1]
    /\ bits' = [bits EXCEPT ![j] = @ + 1]
    /\ UNCHANGED <<running, ever, counters, collector, reporter, failures>>

\* The checksum is wrong: the bytes stay counted.
ChunkFails(j) ==
    /\ received[j] > 0
    /\ failures < MaxFailures /\ failures' = failures + 1
    /\ received' = [received EXCEPT ![j] = @ - 1]
    /\ UNCHANGED <<running, bits, ever, counters, collector, reporter>>

FinishRun(j) ==
    /\ j \in running
    /\ bits[j] = Size
    /\ running' = running \ {j}
    /\ UNCHANGED <<bits, received, ever, counters, collector, reporter, failures>>

-----------------------------------------------------------------------------
(* onJobInfoCollectorWakeUp *)

Tick ==
    /\ todo = {} /\ at = NoJob /\ batch = <<>>
    /\ todo' = Job
    /\ UNCHANGED <<work, counters, at, seen, batch, reporter, failures>>

\* The bytes of the second are read; when it is time and the job runs, the
\* percentage of its bitmap is put on the list.
\* (Faulty variant, to validate ReportsContinue: the countdown is not reset.)
VisitThen(j, period) ==
    LET due == wait[j] = 1 /\ j \in running
    IN  /\ at = NoJob
        /\ j \in todo /\ \A k \in todo : j <= k
        /\ at' = j
        /\ todo' = todo \ {j}
        /\ seen' = second[j]
        /\ wait' = [wait EXCEPT ![j] =
                      IF due THEN period ELSE IF @ > -1 THEN @ - 1 ELSE @]
        /\ percent' = [percent EXCEPT ![j] = Percentage(bits[j])]
        /\ batch' = IF due THEN Append(batch, [job |-> j, percentage |-> percent'[j]])
                    ELSE batch
        /\ UNCHANGED <<work, second, totals, reporter, failures>>

VisitJob_once(j) == VisitThen(j, 0)

VisitJob(j) == VisitThen(j, report_period)

\* The second is added to the total and cleared: what a task added since it
\* was read is gone.
\* (Faulty variant, to validate CountedOnce: it is not cleared.)
AddSecond(j, rest) ==
    /\ at = j
    /\ totals' = [totals EXCEPT ![j] = @ + seen]
    /\ second' = [second EXCEPT ![j] = rest]
    /\ at' = NoJob /\ seen' = 0
    /\ UNCHANGED <<work, wait, percent, todo, batch, reporter, failures>>

CountBytes_keeps(j) == AddSecond(j, seen)

CountBytes(j) == AddSecond(j, 0)

\* The list is replaced, and the report thread signalled.
\* (Faulty variant, to validate TrackerMonotone: the new reports are put
\* before those not sent yet.)
PublishAs(reports) ==
    /\ todo = {} /\ at = NoJob
    /\ batch # <<>>
    /\ list' = reports
    /\ batch' = <<>>
    /\ rpc' = IF rpc = "waiting" THEN "test" ELSE rpc
    /\ UNCHANGED <<work, counters, todo, at, seen, sending, tracker, failures>>

PublishReports_prepends == PublishAs(batch \o list)

PublishReports == PublishAs(batch)

-----------------------------------------------------------------------------
(* ReportProgressRoutine *)

\* The size is tested without the mutex of the list.
TestList ==
    /\ rpc = "test"
    /\ rpc' = IF list = <<>> THEN "toWait" ELSE "take"
    /\ UNCHANGED <<work, counters, collector, list, sending, tracker, failures>>

\* reportProgressCond_.wait, with a mutex of its own: a signal sent before
\* this step is lost.
Sleep ==
    /\ rpc = "toWait"
    /\ rpc' = "waiting"
    /\ UNCHANGED <<work, counters, collector, list, sending, tracker, failures>>

TakeList ==
    /\ rpc = "take"
    /\ sending' = list
    /\ list' = <<>>
    /\ rpc' = "send"
    /\ UNCHANGED <<work, counters, collector, tracker, failures>>

\* One report after the other; one that fails is logged and forgotten.
\* (Faulty variant, to validate ReportsTruthful: the percentage is rounded up.)
SendAs(roundedUp) ==
    /\ rpc = "send"
    /\ sending # <<>>
    /\ \/ /\ tracker' = [tracker EXCEPT ![Head(sending).job] = Head(sending).percentage + roundedUp]
          /\ UNCHANGED failures
       \/ /\ failures < MaxFailures /\ failures' = failures + 1
          /\ UNCHANGED tracker
    /\ sending' = Tail(sending)
    /\ UNCHANGED <<work, counters, collector, list, rpc>>

SendReport_up == SendAs(1)

SendReport == SendAs(0)

AllSent ==
    /\ rpc = "send"
    /\ sending = <<>>
    /\ rpc' = "test"
    /\ UNCHANGED <<work, counters, collector, list, sending, tracker, failures>>

-----------------------------------------------------------------------------
JobStep(j) == StartRun(j) \/ Receive(j) \/ ChunkDone(j) \/ ChunkFails(j) \/ FinishRun(j)

Collect == Tick \/ (\E j \in Job : VisitJob(j) \/ CountBytes(j)) \/ PublishReports

ReportStep == TestList \/ Sleep \/ TakeList \/ SendReport \/ AllSent

ProgressNext == (\E j \in Job : JobStep(j)) \/ Collect \/ ReportStep

ProgressSpec == ProgressInit /\ [][ProgressNext]_progressVars

\* The timer fires and the report thread runs, the tracker answers it.
ProgressFairSpec == ProgressSpec /\ WF_progressVars(Collect) /\ WF_progressVars(ReportStep)

-----------------------------------------------------------------------------
(* Properties *)

ProgressTypeOK ==
    /\ running \in SUBSET Job
    /\ bits \in [Job -> 0 .. Size] /\ received \in [Job -> 0 .. Size]
    /\ second \in [Job -> Nat] /\ totals \in [Job -> Nat] /\ ever \in [Job -> Nat]
    /\ wait \in [Job -> -1 .. report_period]
    /\ percent \in [Job -> 0 .. 100]
    /\ todo \in SUBSET Job /\ at \in Job \cup {NoJob} /\ seen \in Nat
    /\ batch \in Seq(Report) /\ list \in Seq(Report) /\ sending \in Seq(Report)
    /\ rpc \in {"test", "toWait", "waiting", "take", "send"}
    /\ tracker \in [Job -> 0 .. 100]
    /\ failures \in 0 .. MaxFailures

\* No byte is counted twice, although tasks and collector share the counter
\* without a lock.  (Some are not counted at all.)
CountedOnce ==
    \A j \in Job : /\ totals[j] + second[j] <= ever[j]
                   /\ at = j => seen <= second[j]

\* The tracker is never told that we have more than we have, and neither is a
\* peer that reads percentage_map: the oldest of the copies is behind the next.
ReportsTruthful ==
    \A j \in Job :
        /\ tracker[j] <= Percentage(bits[j]) /\ percent[j] <= Percentage(bits[j])
        /\ \A r \in Range(batch \o list \o sending) :
              r.job = j => r.percentage <= Percentage(bits[j])

\* What the tracker knows of a job only grows: reports do not overtake each
\* other, although they wait in three places.
TrackerMonotone == [][\A j \in Job : tracker'[j] >= tracker[j]]_progressVars

\* A level that a job reaches is reported, at that level or above it, unless
\* the job ends first or another job runs: neither a lost signal nor a report
\* that failed nor a replaced list stops the reports for good.  With another
\* job they may never arrive: its lists may always replace those of this one.
ReportsContinue ==
    \A j \in Job : \A n \in 1 .. Size :
        (running = {j} /\ bits[j] = n)
            ~> (tracker[j] >= Percentage(n) \/ running # {j})

-----------------------------------------------------------------------------
(* Statements of the code that do not hold *)

\* "report progress to tracker every 30 seconds": a report that was put on the
\* list is sent.  Only the report thread takes reports off the list.
NoReportDropped ==
    [][\A r \in Range(list) : r \in Range(list') \/ r \in Range(sending')]_progressVars

=============================================================================
