---------------------------- MODULE ChunkLedger ----------------------------
(***************************************************************************)
(* What a download promises about its chunks, without queues, tasks, peers *)
(* or sockets (Job of src/CoolClient/src/job.cc with its ChunkSelector and *)
(* its DownloadTasks): a chunk is to do, in work, done or dropped, and     *)
(* moves between these places one chunk at a time.                         *)
(***************************************************************************)
EXTENDS Naturals, FiniteSets

CONSTANTS
    Chunk,        \* the chunks of the job
    StartBitmaps, \* the sets of chunks that may be done from the start
    Workers       \* how many chunks may be in work at once

VARIABLE place   \* where each chunk is

Place == {"todo", "work", "done", "dropped"}

InPlace(p) == {k \in Chunk : place[k] = p}

Init ==
    \E b \in StartBitmaps : place = [k \in Chunk |-> IF k \in b THEN "done" ELSE "todo"]

Move(k, from, to) ==
    /\ place[k] = from
    /\ place' = [place EXCEPT ![k] = to]

\* A chunk is popped from the queue.
Take(k) == Cardinality(InPlace("work")) < Workers /\ Move(k, "todo", "work")

\* It has been received, checked and written.
Finish(k) == Move(k, "work", "done")

\* It had no owner, or its task failed: it is to do again.
GiveBack(k) == Move(k, "work", "todo")

\* Its task was not started, and nothing will come back to it.
Drop(k) == Move(k, "work", "dropped")

Next == \E k \in Chunk : Take(k) \/ Finish(k) \/ GiveBack(k) \/ Drop(k)

Spec == Init /\ [][Next]_place
=============================================================================
