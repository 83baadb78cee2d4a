-------------------------- MODULE DownloadJob_proofs --------------------------
(***************************************************************************)
(* Theorems about a download job, for any files, peers, answers of the     *)
(* tracker, threads, faults and commands.  First its chunks: each is in    *)
(* one place, none is forgotten, and the job implements ChunkLedger.  Then *)
(* its peers and sockets: the owners kept are those whose bitmaps have     *)
(* come, each socket in use has one holder, and chunks somebody has are    *)
(* tried before those nobody was found for.                                *)
(***************************************************************************)
EXTENDS DownloadJob, LocalSockManager_proofs, FiniteSetTheorems

\* The chunks in work.
Work == InHand \cup InFlight

IsTask(t) == t = [chunk |-> t.chunk, client |-> t.client, sock |-> t.sock, state |-> t.state]

\* As much of the types as the argument needs, with the bound on the tasks.
Typed ==
    /\ \A e \in queue : e.chunk \in Chunk
    /\ \A e \in hand : e.chunk \in Chunk
    /\ \A e, o \in hand : e = o
    /\ \A t \in tasks : t.chunk \in Chunk /\ IsTask(t)
    /\ done \subseteq Chunk
    /\ Lost \subseteq Chunk
    /\ IsFiniteSet(tasks) /\ Cardinality(tasks) <= MaxThreads

\* The run thread has not filled the queue yet.
Before ==
    \/ pc \in {"new", "owners"}
    \/ after = "owners" /\ pc \in {"request", "connect", "shake", "shaking"}

EmptyHanded == {"top", "stopCheck", "toSleep", "asleep", "pauseCheck", "join", "finished"}

\* What the place of the run thread says about the chunks: nothing moves
\* before the queue is filled, and a chunk is popped with empty hands.
Control ==
    /\ after \in {"owners", "choose"}
    /\ Before => queue = {} /\ hand = {} /\ tasks = {} /\ lost = {}
    /\ pc \in EmptyHanded => hand = {}

ChunkInv == Typed /\ Control /\ OnePlace /\ NoneForgotten

\* The ledger, from the sets of chunks done, dropped and in work.
Places(d, l, w) ==
    [k \in Chunk |-> IF k \in d THEN "done"
                     ELSE IF k \in l THEN "dropped"
                     ELSE IF k \in w THEN "work" ELSE "todo"]

chunkVars == <<queue, hand, tasks, done, lost>>

-----------------------------------------------------------------------------
(* Lemmas about the state functions                                        *)

\* Where the invariant holds no chunk is nowhere.
LEMMA PlaceIs == ChunkInv => place = Places(done, Lost, Work)
BY DEF ChunkInv, NoneForgotten, place, Places, Work

\* The same in the next state.
LEMMA PlaceIsNext == ChunkInv' => place' = Places(done', Lost', Work')
BY DEF ChunkInv, NoneForgotten, place, Places, Work

\* What is taken back to the queue is an entry about that chunk.
LEMMA RequeueAdds ==
    ASSUME NEW k, NEW status, Requeue(k, status)
    PROVE  \E n : n.chunk = k /\ queue' = queue \cup {n}
BY DEF Requeue, NewEntry

\* With empty hands, there are no more chunks in work than tasks.
LEMMA WorkBounded ==
    ASSUME Typed, hand = {}
    PROVE  IsFiniteSet(Work) /\ Cardinality(Work) <= MaxThreads
<1> DEFINE f == [t \in Active |-> t.chunk]
<1>1. IsFiniteSet(Active) /\ Cardinality(Active) <= Cardinality(tasks)
  BY FS_Subset DEF Typed, Active
<1>2. Work = InFlight
  BY DEF Work, InHand
<1>3. f \in Surjection(Active, InFlight)
  BY DEF Surjection, InFlight
<1>4. IsFiniteSet(InFlight) /\ Cardinality(InFlight) <= Cardinality(Active)
  BY <1>1, <1>3, FS_Surjection
<1>5. Cardinality(InFlight) \in Nat /\ Cardinality(Active) \in Nat /\ Cardinality(tasks) \in Nat
  BY <1>1, <1>4, FS_CardinalityType DEF Typed
<1> QED BY <1>1, <1>2, <1>4, <1>5, JobAssumption DEF Typed

-----------------------------------------------------------------------------
(* The steps of the ledger                                                 *)

\* A step that changes none of the three sets.
LEMMA StutterStep ==
    ASSUME ChunkInv, ChunkInv', done' = done, Lost' = Lost, Work' = Work
    PROVE  place' = place
BY PlaceIs, PlaceIsNext

\* The instance counts as FiniteSets does.
LEMMA LedgerCounts == \A S : Ledger!Cardinality(S) = Cardinality(S)
BY DEF Ledger!Cardinality, Cardinality

LEMMA TakeStep ==
    ASSUME ChunkInv, ChunkInv', hand = {}, NEW k \in Chunk, k \notin done \cup Lost \cup Work,
           done' = done, Lost' = Lost, Work' = Work \cup {k}
    PROVE  Ledger!Take(k)
<1>1. Ledger!InPlace("work") \in SUBSET Work
  BY PlaceIs DEF Ledger!InPlace, Places
<1>2. /\ IsFiniteSet(Work) /\ Cardinality(Work) <= MaxThreads
      /\ Cardinality(Ledger!InPlace("work")) <= Cardinality(Work)
      /\ Cardinality(Ledger!InPlace("work")) \in Nat /\ Cardinality(Work) \in Nat
  BY <1>1, WorkBounded, FS_Subset, FS_CardinalityType DEF ChunkInv
<1>3. place[k] = "todo" /\ place' = [place EXCEPT ![k] = "work"]
  BY PlaceIs, PlaceIsNext DEF Places
<1> QED BY <1>2, <1>3, LedgerCounts, JobAssumption DEF Ledger!Take, Ledger!Move

LEMMA FinishStep ==
    ASSUME ChunkInv, ChunkInv', NEW k \in Chunk, k \in Work, k \notin done \cup Lost,
           done' = done \cup {k}, Lost' = Lost, Work' = Work \ {k}
    PROVE  Ledger!Finish(k)
BY PlaceIs, PlaceIsNext DEF Places, Ledger!Finish, Ledger!Move

LEMMA GiveBackStep ==
    ASSUME ChunkInv, ChunkInv', NEW k \in Chunk, k \in Work, k \notin done \cup Lost,
           done' = done, Lost' = Lost, Work' = Work \ {k}
    PROVE  Ledger!GiveBack(k)
BY PlaceIs, PlaceIsNext DEF Places, Ledger!GiveBack, Ledger!Move

LEMMA DropStep ==
    ASSUME ChunkInv, ChunkInv', NEW k \in Chunk, k \in Work, k \notin done \cup Lost,
           done' = done, Lost' = Lost \cup {k}, Work' = Work \ {k}
    PROVE  Ledger!Drop(k)
BY PlaceIs, PlaceIsNext DEF Places, Ledger!Drop, Ledger!Move

-----------------------------------------------------------------------------
(* Steps that move no chunk                                                *)

\* Such a step keeps the invariant when the run thread does not leave the
\* scan by it, and arrives where it may with what it has in hand.
LEMMA QuietStep ==
    ASSUME ChunkInv, UNCHANGED chunkVars, Control', Scanning => Scanning'
    PROVE  ChunkInv' /\ place' = place
<1>1. /\ Queued' = Queued /\ InHand' = InHand /\ Active' = Active
      /\ InFlight' = InFlight /\ Lost' = Lost
  BY DEF chunkVars, Queued, InHand, Active, InFlight, Lost
<1>2. Typed'
  BY <1>1 DEF ChunkInv, Typed, IsTask, chunkVars
<1>3. OnePlace' /\ NoneForgotten'
  BY <1>1 DEF ChunkInv, OnePlace, NoneForgotten, chunkVars
<1>4. ChunkInv'
  BY <1>2, <1>3 DEF ChunkInv
<1> QED BY <1>1, <1>4, StutterStep DEF Work, chunkVars

\* What a step of the run thread or a command must say of pc and after for that.
Quiet == UNCHANGED chunkVars /\ Control' /\ (Scanning => Scanning')

LEMMA CommandsQuiet ==
    ASSUME ChunkInv, StartJob \/ Commands
    PROVE  Quiet
<1> USE DEF ChunkInv, Control, Before, EmptyHanded, Scanning, chunkVars, Quiet, flags, lookup,
            run, owners
<1>1. CASE StartJob
  BY <1>1 DEF StartJob
<1>2. CASE PauseJob
  BY <1>2 DEF PauseJob, Command
<1>3. CASE StopJob
  BY <1>3 DEF StopJob, Command
<1>4. CASE ResumeJob
  BY <1>4 DEF ResumeJob, Command
<1>5. CASE RemoveJob
  BY <1>5 DEF RemoveJob, Command
<1> QED BY <1>1, <1>2, <1>3, <1>4, <1>5 DEF Commands

\* Every step of a lookup but the one that fills the queue.
LEMMA LookupQuiet ==
    ASSUME ChunkInv,
           \/ (ScanOwners /\ scan # {}) \/ request_clients \/ RequestFails \/ ConnectOwner
           \/ ShakeBegin \/ ShakeSucceeds \/ ShakeNoFile \/ ShakeBreaks \/ LookupDone
    PROVE  Quiet
<1> USE DEF ChunkInv, Control, Before, EmptyHanded, Scanning, chunkVars, Quiet, flags, lookup,
            run, owners
<1>1. CASE ScanOwners /\ scan # {}
  BY <1>1 DEF ScanOwners
<1>2. CASE request_clients
  BY <1>2 DEF request_clients
<1>3. CASE RequestFails
  BY <1>3 DEF RequestFails
<1>4. CASE ConnectOwner
  BY <1>4 DEF ConnectOwner
<1>5. CASE ShakeBegin
  BY <1>5 DEF ShakeBegin, AskSock
<1>6. CASE ShakeSucceeds
  BY <1>6 DEF ShakeSucceeds, ShakeReturn
<1>7. CASE ShakeNoFile
  BY <1>7 DEF ShakeNoFile, ShakeReturn
<1>8. CASE ShakeBreaks
  BY <1>8 DEF ShakeBreaks, ShakeReturn
<1>9. CASE LookupDone
  BY <1>9 DEF LookupDone
<1> QED BY <1>1, <1>2, <1>3, <1>4, <1>5, <1>6, <1>7, <1>8, <1>9

\* The steps of the loop that only move the run thread.
LEMMA LoopQuiet ==
    ASSUME ChunkInv,
           \/ CheckRemoved \/ CheckStopped \/ SleepStopped \/ SpinPaused \/ QueueEmpty
           \/ ChoosePeer \/ GetSock \/ WaitSock \/ WaitThread \/ FinishRun
    PROVE  Quiet
<1> USE DEF ChunkInv, Control, Before, EmptyHanded, Scanning, chunkVars, Quiet, flags, lookup,
            run, owners, OnlyMoves
<1>1. CASE CheckRemoved
  BY <1>1 DEF CheckRemoved
<1>2. CASE CheckStopped
  BY <1>2 DEF CheckStopped
<1>3. CASE SleepStopped
  BY <1>3 DEF SleepStopped
<1>4. CASE SpinPaused
  BY <1>4 DEF SpinPaused
<1>5. CASE QueueEmpty
  BY <1>5 DEF QueueEmpty
<1>6. CASE ChoosePeer
  BY <1>6 DEF ChoosePeer
<1>7. CASE GetSock
  BY <1>7 DEF GetSock, AskSock
<1>8. CASE WaitSock
  BY <1>8 DEF WaitSock
<1>9. CASE WaitThread
  BY <1>9 DEF WaitThread
<1>10. CASE FinishRun
  BY <1>10 DEF FinishRun
<1> QED BY <1>1, <1>2, <1>3, <1>4, <1>5, <1>6, <1>7, <1>8, <1>9, <1>10

-----------------------------------------------------------------------------
(* The run thread moves chunks                                             *)

\* init_queue: what is to do is queued.
LEMMA FillStep ==
    ASSUME ChunkInv, ScanOwners, scan = {}
    PROVE  ChunkInv' /\ place' = place
<1>1. /\ pc = "owners" /\ pc' = "top" /\ after' = after
      /\ hand' = hand /\ tasks' = tasks /\ done' = done /\ lost' = lost
      /\ queue' = {NewEntry(k, "FREE", Claimants(k)) : k \in Chunk \ done}
  BY DEF ScanOwners, init_queue, run
<1>2. queue = {} /\ hand = {} /\ tasks = {} /\ lost = {}
  BY <1>1 DEF ChunkInv, Control, Before
<1>3. \A k, st, l : NewEntry(k, st, l).chunk = k
  BY DEF NewEntry
<1>4. Queued' = Chunk \ done
  BY <1>1, <1>3 DEF Queued
<1>5. /\ InHand' = {} /\ InFlight' = {} /\ Lost' = {} /\ Active' = {}
      /\ InHand = {} /\ InFlight = {} /\ Lost = {}
  BY <1>1, <1>2 DEF InHand, InFlight, Lost, Active
<1>6. Typed'
  BY <1>1, <1>2, <1>3, <1>5 DEF ChunkInv, Typed
<1>7. Control'
  BY <1>1, <1>2 DEF ChunkInv, Control, Before, EmptyHanded
<1>8. \A e, o \in queue' : e.chunk = o.chunk => e = o
  BY <1>1, <1>3
<1>9. Cardinality(hand') <= 1
  BY <1>1, <1>2, FS_EmptySet
<1>10. OnePlace' /\ NoneForgotten'
  BY <1>1, <1>2, <1>4, <1>5, <1>8, <1>9 DEF ChunkInv, Typed, OnePlace, NoneForgotten
<1>11. ChunkInv'
  BY <1>6, <1>7, <1>10 DEF ChunkInv
<1> QED BY <1>1, <1>5, <1>11, StutterStep DEF Work

\* A chunk is popped: it was queued, and is in the hand now.
LEMMA PopStep ==
    ASSUME ChunkInv, PopChunk
    PROVE  ChunkInv' /\ \E k \in Chunk : Ledger!Take(k)
<1>1. PICK e \in queue :
        /\ queue' = queue \ {e} /\ hand' = {e}
        /\ \/ pc' = "request" /\ after' = "choose"
           \/ pc' = "choose" /\ after' = after
  BY DEF PopChunk, get_chunk
<1>2. /\ pc = "pauseCheck" /\ hand = {}
      /\ tasks' = tasks /\ done' = done /\ lost' = lost
  BY DEF PopChunk, ChunkInv, Control, EmptyHanded
<1>3. e.chunk \in Chunk /\ e.chunk \in Queued
  BY <1>1 DEF ChunkInv, Typed, Queued
<1>4. e.chunk \notin InHand \cup InFlight \cup Lost \cup done
  BY <1>3 DEF ChunkInv, OnePlace
<1>5. Queued' = Queued \ {e.chunk}
  BY <1>1 DEF Queued, ChunkInv, OnePlace
<1>6. /\ InHand' = {e.chunk} /\ InHand = {} /\ Active' = Active
      /\ InFlight' = InFlight /\ Lost' = Lost
  BY <1>1, <1>2 DEF InHand, InFlight, Lost, Active
<1>7. Typed'
  BY <1>1, <1>2, <1>3, <1>6 DEF ChunkInv, Typed, IsTask
<1>8. Control' /\ ~ Scanning /\ ~ Scanning'
  BY <1>1, <1>2 DEF ChunkInv, Control, Before, EmptyHanded, Scanning
<1>9. Cardinality(hand') <= 1
  BY <1>1, FS_Singleton
<1>10. OnePlace'
  BY <1>1, <1>2, <1>4, <1>5, <1>6, <1>9 DEF ChunkInv, OnePlace
<1>11. NoneForgotten'
  BY <1>2, <1>3, <1>5, <1>6, <1>8 DEF ChunkInv, NoneForgotten
<1>12. ChunkInv'
  BY <1>7, <1>8, <1>10, <1>11 DEF ChunkInv
<1> QED BY <1>2, <1>3, <1>4, <1>6, <1>12, TakeStep DEF Work

\* What the steps that end the way of a popped chunk have in common.
LEMMA HandEmptied ==
    ASSUME ChunkInv, NEW e \in hand, hand' = {}
    PROVE  /\ InHand = {e.chunk} /\ InHand' = {} /\ e.chunk \in Chunk
           /\ e.chunk \notin Queued \cup InFlight \cup Lost \cup done
           /\ Cardinality(hand') <= 1
<1>1. InHand = {e.chunk} /\ InHand' = {}
  BY DEF ChunkInv, Typed, InHand
<1> QED BY <1>1, FS_EmptySet DEF ChunkInv, Typed, OnePlace

\* Out of the hand of the run thread, back to the queue.
LEMMA NoOwnerStep ==
    ASSUME ChunkInv, report_no_owner_chunk
    PROVE  ChunkInv' /\ \E k \in Chunk : Ledger!GiveBack(k)
<1>1. PICK e \in hand : Requeue(e.chunk, "NOOWNER")
  BY DEF report_no_owner_chunk
<1>2. PICK n : n.chunk = e.chunk /\ queue' = queue \cup {n}
  BY <1>1, RequeueAdds
<1>3. /\ pc = "choose" /\ pc' = "top" /\ after' = after /\ hand' = {}
      /\ tasks' = tasks /\ done' = done /\ lost' = lost
  BY DEF report_no_owner_chunk, lookup
<1>4. /\ InHand = {e.chunk} /\ InHand' = {} /\ e.chunk \in Chunk
      /\ e.chunk \notin Queued \cup InFlight \cup Lost \cup done
      /\ Cardinality(hand') <= 1
  BY <1>3, HandEmptied
<1>5. Queued' = Queued \cup {e.chunk}
  BY <1>2 DEF Queued
<1>6. Active' = Active /\ InFlight' = InFlight /\ Lost' = Lost
  BY <1>3 DEF InFlight, Lost, Active
<1>7. Typed'
  BY <1>2, <1>3, <1>4, <1>6 DEF ChunkInv, Typed, IsTask
<1>8. Control' /\ ~ Scanning /\ ~ Scanning'
  BY <1>3 DEF ChunkInv, Control, Before, EmptyHanded, Scanning
<1>9. \A o, p \in queue' : o.chunk = p.chunk => o = p
  BY <1>2, <1>4 DEF ChunkInv, OnePlace, Queued
<1>10. OnePlace'
  BY <1>3, <1>4, <1>5, <1>6, <1>9 DEF ChunkInv, OnePlace
<1>11. NoneForgotten'
  BY <1>3, <1>4, <1>5, <1>6, <1>8 DEF ChunkInv, NoneForgotten
<1>12. ChunkInv'
  BY <1>7, <1>8, <1>10, <1>11 DEF ChunkInv
<1> QED BY <1>3, <1>4, <1>6, <1>12, GiveBackStep DEF Work

\* Out of the hand of the run thread, into a task.
LEMMA StartStep ==
    ASSUME ChunkInv, StartTask
    PROVE  ChunkInv' /\ place' = place
<1>1. PICK e \in hand : tasks' = tasks \cup
        {[chunk |-> e.chunk, client |-> peer, sock |-> hsock, state |-> "request"]}
  BY DEF StartTask
<1> DEFINE u == [chunk |-> e.chunk, client |-> peer, sock |-> hsock, state |-> "request"]
<1>2. /\ pc = "start" /\ pc' = "top" /\ after' = after /\ hand' = {}
      /\ queue' = queue /\ done' = done /\ lost' = lost
      /\ Cardinality(tasks) < MaxThreads
  BY DEF StartTask, lookup
<1>3. /\ InHand = {e.chunk} /\ InHand' = {} /\ e.chunk \in Chunk
      /\ e.chunk \notin Queued \cup InFlight \cup Lost \cup done
      /\ Cardinality(hand') <= 1
  BY <1>2, HandEmptied
<1>4. Active' = Active \cup {u}
  BY <1>1 DEF Active
<1>5. Queued' = Queued /\ InFlight' = InFlight \cup {e.chunk} /\ Lost' = Lost
  <2> HIDE DEF u
  <2>1. u.chunk = e.chunk
    BY DEF u
  <2>2. InFlight' = InFlight \cup {e.chunk}
    BY <1>4, <2>1 DEF InFlight
  <2> QED BY <1>2, <2>2 DEF Queued, Lost
<1>6. IsFiniteSet(tasks') /\ Cardinality(tasks') <= MaxThreads
  <2> HIDE DEF u
  <2>1. tasks' = tasks \cup {u} /\ IsFiniteSet(tasks) /\ Cardinality(tasks) \in Nat
    BY <1>1, FS_CardinalityType DEF ChunkInv, Typed, u
  <2>2. /\ IsFiniteSet(tasks')
        /\ Cardinality(tasks') = IF u \in tasks THEN Cardinality(tasks) ELSE Cardinality(tasks) + 1
    BY <2>1, FS_AddElement
  <2> QED BY <1>2, <2>1, <2>2, JobAssumption
<1>7. u.chunk \in Chunk /\ IsTask(u)
  BY <1>3 DEF IsTask
<1>8. Typed'
  BY <1>1, <1>2, <1>5, <1>6, <1>7 DEF ChunkInv, Typed, IsTask
<1>9. Control' /\ ~ Scanning /\ ~ Scanning'
  BY <1>2 DEF ChunkInv, Control, Before, EmptyHanded, Scanning
<1>10. \A t, v \in Active' : t.chunk = v.chunk => t = v
  BY <1>3, <1>4 DEF ChunkInv, OnePlace, InFlight
<1>11. OnePlace'
  BY <1>2, <1>3, <1>5, <1>10 DEF ChunkInv, OnePlace
<1>12. NoneForgotten'
  BY <1>2, <1>3, <1>5, <1>9 DEF ChunkInv, NoneForgotten
<1>13. ChunkInv'
  BY <1>8, <1>9, <1>11, <1>12 DEF ChunkInv
<1> QED BY <1>2, <1>3, <1>5, <1>13, StutterStep DEF Work

\* Out of the hand of the run thread, and dropped.
LEMMA DropTaskStep ==
    ASSUME ChunkInv, DropTask
    PROVE  ChunkInv' /\ \E k \in Chunk : Ledger!Drop(k)
<1>1. PICK e \in hand : lost' = lost \cup
        {[chunk |-> e.chunk, client |-> peer, sock |-> hsock]}
  BY DEF DropTask
<1>2. /\ pc = "start" /\ pc' = "top" /\ after' = after /\ hand' = {}
      /\ queue' = queue /\ done' = done /\ tasks' = tasks
  BY DEF DropTask, lookup
<1>3. /\ InHand = {e.chunk} /\ InHand' = {} /\ e.chunk \in Chunk
      /\ e.chunk \notin Queued \cup InFlight \cup Lost \cup done
      /\ Cardinality(hand') <= 1
  BY <1>2, HandEmptied
<1>4. /\ Queued' = Queued /\ Active' = Active /\ InFlight' = InFlight
      /\ Lost' = Lost \cup {e.chunk}
  <2> DEFINE l == [chunk |-> e.chunk, client |-> peer, sock |-> hsock]
  <2>1. l.chunk = e.chunk /\ lost' = lost \cup {l}
    BY <1>1
  <2> HIDE DEF l
  <2>2. Lost' = Lost \cup {e.chunk}
    BY <2>1 DEF Lost
  <2> QED BY <1>2, <2>2 DEF Queued, InFlight, Active
<1>5. Typed'
  BY <1>2, <1>3, <1>4 DEF ChunkInv, Typed, IsTask
<1>6. Control' /\ ~ Scanning /\ ~ Scanning'
  BY <1>2 DEF ChunkInv, Control, Before, EmptyHanded, Scanning
<1>7. OnePlace'
  BY <1>2, <1>3, <1>4 DEF ChunkInv, OnePlace
<1>8. NoneForgotten'
  BY <1>2, <1>3, <1>4, <1>6 DEF ChunkInv, NoneForgotten
<1>9. ChunkInv'
  BY <1>5, <1>6, <1>7, <1>8 DEF ChunkInv
<1> QED BY <1>2, <1>3, <1>4, <1>9, DropStep DEF Work

-----------------------------------------------------------------------------
(* The tasks move chunks                                                   *)

\* Where a task runs the queue has been filled, and its chunk is nowhere else.
LEMMA TaskPlace ==
    ASSUME ChunkInv, NEW t \in Active
    PROVE  /\ t \in tasks /\ t.chunk \in Chunk /\ ~ Before
           /\ t.chunk \in InFlight
           /\ t.chunk \notin Queued \cup InHand \cup Lost \cup done
           /\ \A u \in Active : u.chunk = t.chunk => u = t
<1>1. t \in tasks /\ t.chunk \in InFlight
  BY DEF Active, InFlight
<1> QED BY <1>1 DEF ChunkInv, Typed, Control, OnePlace

\* A task in another state is a task about the same chunk, and no more tasks.
LEMMA TaskChanges ==
    ASSUME ChunkInv, NEW t \in tasks, NEW st, Becomes(t, st)
    PROVE  \E u : /\ u.chunk = t.chunk /\ u.state = st /\ IsTask(u)
                  /\ tasks' = (tasks \ {t}) \cup {u}
                  /\ IsFiniteSet(tasks') /\ Cardinality(tasks') <= MaxThreads
<1> DEFINE u == [t EXCEPT !.state = st]
<1>1. IsTask(t) /\ IsFiniteSet(tasks) /\ Cardinality(tasks) <= MaxThreads
  BY DEF ChunkInv, Typed
<1>2. u = [chunk |-> t.chunk, client |-> t.client, sock |-> t.sock, state |-> st]
  BY <1>1 DEF IsTask
<1>3. u.chunk = t.chunk /\ u.state = st /\ IsTask(u)
  BY <1>2 DEF IsTask
<1>4. tasks' = (tasks \ {t}) \cup {u}
  BY DEF Becomes
<1> HIDE DEF u
<1>5. IsFiniteSet(tasks \ {t}) /\ Cardinality(tasks \ {t}) = Cardinality(tasks) - 1
  BY <1>1, FS_RemoveElement
<1>6. IsFiniteSet(tasks') /\ Cardinality(tasks') <= Cardinality(tasks)
  <2>1. /\ IsFiniteSet(tasks')
        /\ Cardinality(tasks') = IF u \in tasks \ {t} THEN Cardinality(tasks \ {t})
                                                  ELSE Cardinality(tasks \ {t}) + 1
    BY <1>4, <1>5, FS_AddElement
  <2> QED BY <1>1, <1>5, <2>1, FS_CardinalityType
<1>7. Cardinality(tasks) \in Nat /\ Cardinality(tasks') \in Nat
  BY <1>1, <1>6, FS_CardinalityType
<1> QED BY <1>1, <1>3, <1>4, <1>6, <1>7, JobAssumption

\* A task goes on: its chunk stays in work.
LEMMA GoesOnStep ==
    ASSUME ChunkInv, NEW t \in tasks, Exchange(t) \/ TaskReceives(t)
    PROVE  ChunkInv' /\ place' = place
<1>1. PICK st \in {"flags", "receive"} : Becomes(t, st)
  BY DEF Exchange, TaskReceives
<1>2. /\ pc' = pc /\ after' = after /\ hand' = hand
      /\ queue' = queue /\ done' = done /\ lost' = lost
  BY DEF Exchange, TaskReceives, TaskFrame, lookup, run
<1>3. t \in Active
  BY DEF Exchange, TaskReceives, Active
<1>4. /\ t.chunk \in Chunk /\ ~ Before /\ t.chunk \in InFlight
      /\ \A v \in Active : v.chunk = t.chunk => v = t
  BY <1>3, TaskPlace
<1>5. PICK u : /\ u.chunk = t.chunk /\ u.state = st /\ IsTask(u)
               /\ tasks' = (tasks \ {t}) \cup {u}
               /\ IsFiniteSet(tasks') /\ Cardinality(tasks') <= MaxThreads
  BY <1>1, TaskChanges
<1>6. Active' = (Active \ {t}) \cup {u}
  BY <1>1, <1>5 DEF Active
<1>7. /\ Queued' = Queued /\ InHand' = InHand /\ Lost' = Lost
  BY <1>2 DEF Queued, InHand, Lost
<1>8. InFlight' = InFlight
  BY <1>3, <1>5, <1>6 DEF InFlight
<1>9. Typed'
  BY <1>2, <1>4, <1>5, <1>7 DEF ChunkInv, Typed, IsTask
<1>10. Control' /\ Scanning' = Scanning
  BY <1>2, <1>4 DEF ChunkInv, Control, Before, EmptyHanded, Scanning
<1>11. \A v, w \in Active' : v.chunk = w.chunk => v = w
  BY <1>4, <1>5, <1>6 DEF ChunkInv, OnePlace
<1>12. OnePlace'
  BY <1>2, <1>7, <1>8, <1>11 DEF ChunkInv, OnePlace
<1>13. NoneForgotten'
  BY <1>2, <1>7, <1>8, <1>10 DEF ChunkInv, NoneForgotten
<1>14. ChunkInv'
  BY <1>9, <1>10, <1>12, <1>13 DEF ChunkInv
<1> QED BY <1>2, <1>7, <1>8, <1>14, StutterStep DEF Work

\* A task fails: its chunk is queued again.
LEMMA FailStep ==
    ASSUME ChunkInv, NEW t \in Active, Fail(t)
    PROVE  ChunkInv' /\ \E k \in Chunk : Ledger!GiveBack(k)
<1>1. /\ pc' = pc /\ after' = after /\ hand' = hand
      /\ done' = done /\ lost' = lost
  BY DEF Fail, TaskFrame, lookup, run
<1>2. PICK n : n.chunk = t.chunk /\ queue' = queue \cup {n}
  BY RequeueAdds DEF Fail
<1>3. /\ t \in tasks /\ t.chunk \in Chunk /\ ~ Before /\ t.chunk \in InFlight
      /\ t.chunk \notin Queued \cup InHand \cup Lost \cup done
      /\ \A v \in Active : v.chunk = t.chunk => v = t
  BY TaskPlace
<1>4. PICK u : /\ u.chunk = t.chunk /\ u.state = "failed" /\ IsTask(u)
               /\ tasks' = (tasks \ {t}) \cup {u}
               /\ IsFiniteSet(tasks') /\ Cardinality(tasks') <= MaxThreads
  BY <1>3, TaskChanges DEF Fail
<1>5. Active' = Active \ {t}
  BY <1>4 DEF Active
<1>6. InFlight' = InFlight \ {t.chunk}
  BY <1>3, <1>5 DEF InFlight
<1>7. Queued' = Queued \cup {t.chunk} /\ InHand' = InHand /\ Lost' = Lost
  BY <1>1, <1>2 DEF Queued, InHand, Lost
<1>8. Typed'
  BY <1>1, <1>2, <1>3, <1>4, <1>7 DEF ChunkInv, Typed, IsTask
<1>9. Control' /\ Scanning' = Scanning
  BY <1>1, <1>3 DEF ChunkInv, Control, Before, EmptyHanded, Scanning
<1>10. \A e, o \in queue' : e.chunk = o.chunk => e = o
  BY <1>2, <1>3 DEF ChunkInv, OnePlace, Queued
<1>11. \A v, w \in Active' : v.chunk = w.chunk => v = w
  BY <1>5 DEF ChunkInv, OnePlace
<1>12. OnePlace'
  BY <1>1, <1>3, <1>6, <1>7, <1>10, <1>11 DEF ChunkInv, OnePlace
<1>13. NoneForgotten'
  BY <1>1, <1>3, <1>6, <1>7, <1>9 DEF ChunkInv, NoneForgotten
<1>14. ChunkInv'
  BY <1>8, <1>9, <1>12, <1>13 DEF ChunkInv
<1> QED BY <1>1, <1>3, <1>6, <1>7, <1>14, GiveBackStep DEF Work

\* All the failures of a task are such steps.
LEMMA FailuresFail ==
    ASSUME NEW t \in tasks,
           ExchangeFails(t) \/ TaskAborts(t) \/ ReceiveFails(t) \/ ChecksumFails(t)
    PROVE  t \in Active /\ Fail(t)
BY DEF ExchangeFails, TaskAborts, AbortsWhen, ReceiveFails, ChecksumFails, Active

\* What both ways to return the socket of a task have in common.
LEMMA TaskGone ==
    ASSUME ChunkInv, NEW t \in tasks, ReturnSock(t)
    PROVE  /\ after' = after /\ hand' = hand /\ queue' = queue /\ lost' = lost
           /\ tasks' = tasks \ {t}
           /\ Queued' = Queued /\ InHand' = InHand /\ Lost' = Lost
           /\ Active' = Active \ {t}
           /\ IsFiniteSet(tasks') /\ Cardinality(tasks') <= MaxThreads
           /\ Control' /\ Scanning' = Scanning
<1>1. /\ after' = after /\ hand' = hand /\ queue' = queue /\ lost' = lost
      /\ tasks' = tasks \ {t}
      /\ pc' = pc \/ (pc = "waiting" /\ pc' = "getSock")
  BY DEF ReturnSock, TaskFrame, lookup, run
<1>2. Queued' = Queued /\ InHand' = InHand /\ Lost' = Lost /\ Active' = Active \ {t}
  BY <1>1 DEF Queued, InHand, Lost, Active
<1>3. IsFiniteSet(tasks') /\ Cardinality(tasks') <= MaxThreads
  <2>1. IsFiniteSet(tasks) /\ Cardinality(tasks) <= MaxThreads /\ Cardinality(tasks) \in Nat
    BY FS_CardinalityType DEF ChunkInv, Typed
  <2>2. IsFiniteSet(tasks') /\ Cardinality(tasks') = Cardinality(tasks) - 1
    BY <1>1, <2>1, FS_RemoveElement
  <2> QED BY <2>1, <2>2, JobAssumption
<1>4. ~ Before
  BY DEF ChunkInv, Control
<1>5. Control' /\ Scanning' = Scanning
  BY <1>1, <1>4 DEF ChunkInv, Control, Before, EmptyHanded, Scanning
<1> QED BY <1>1, <1>2, <1>3, <1>5

\* A task succeeds: its chunk is done.
LEMMA SuccessStep ==
    ASSUME ChunkInv, NEW t \in tasks, TaskSucceeds(t)
    PROVE  ChunkInv' /\ \E k \in Chunk : Ledger!Finish(k)
<1>1. t \in Active /\ done' = done \cup {t.chunk} /\ ReturnSock(t)
  BY DEF TaskSucceeds, Active
<1>2. /\ hand' = hand /\ queue' = queue /\ lost' = lost
      /\ tasks' = tasks \ {t}
      /\ Queued' = Queued /\ InHand' = InHand /\ Lost' = Lost
      /\ Active' = Active \ {t}
      /\ IsFiniteSet(tasks') /\ Cardinality(tasks') <= MaxThreads
      /\ Control' /\ Scanning' = Scanning
  BY <1>1, TaskGone
<1>3. /\ t.chunk \in Chunk /\ t.chunk \in InFlight
      /\ t.chunk \notin Queued \cup InHand \cup Lost \cup done
      /\ \A v \in Active : v.chunk = t.chunk => v = t
  BY <1>1, TaskPlace
<1>4. InFlight' = InFlight \ {t.chunk}
  BY <1>2, <1>3 DEF InFlight
<1>5. Typed'
  BY <1>1, <1>2, <1>3 DEF ChunkInv, Typed, IsTask
<1>6. \A v, w \in Active' : v.chunk = w.chunk => v = w
  BY <1>2 DEF ChunkInv, OnePlace
<1>7. OnePlace'
  BY <1>1, <1>2, <1>3, <1>4, <1>6 DEF ChunkInv, OnePlace
<1>8. NoneForgotten'
  BY <1>1, <1>2, <1>3, <1>4 DEF ChunkInv, NoneForgotten
<1>9. ChunkInv'
  BY <1>2, <1>5, <1>7, <1>8 DEF ChunkInv
<1> QED BY <1>1, <1>2, <1>3, <1>4, <1>9, FinishStep DEF Work

\* A failed task ends: its chunk has been given back before.
LEMMA FailedEndsStep ==
    ASSUME ChunkInv, NEW t \in tasks, FailedTaskFinishes(t)
    PROVE  ChunkInv' /\ place' = place
<1>1. t \notin Active /\ done' = done /\ ReturnSock(t)
  BY DEF FailedTaskFinishes, Active
<1>2. /\ hand' = hand /\ queue' = queue /\ lost' = lost
      /\ tasks' = tasks \ {t}
      /\ Queued' = Queued /\ InHand' = InHand /\ Lost' = Lost
      /\ Active' = Active \ {t}
      /\ IsFiniteSet(tasks') /\ Cardinality(tasks') <= MaxThreads
      /\ Control' /\ Scanning' = Scanning
  BY <1>1, TaskGone
<1>3. Active' = Active /\ InFlight' = InFlight
  BY <1>1, <1>2 DEF InFlight
<1>4. Typed'
  BY <1>1, <1>2 DEF ChunkInv, Typed, IsTask
<1>5. OnePlace' /\ NoneForgotten'
  BY <1>1, <1>2, <1>3 DEF ChunkInv, OnePlace, NoneForgotten
<1>6. ChunkInv'
  BY <1>2, <1>4, <1>5 DEF ChunkInv
<1> QED BY <1>1, <1>2, <1>3, <1>6, StutterStep DEF Work

-----------------------------------------------------------------------------
(* The theorems                                                            *)

LEMMA InitHolds == Init => ChunkInv /\ Ledger!Init
<1> SUFFICES ASSUME Init PROVE ChunkInv /\ Ledger!Init
  OBVIOUS
<1>1. /\ pc = "new" /\ after = "owners" /\ hand = {} /\ queue = {} /\ tasks = {} /\ lost = {}
      /\ done \in StartBitmaps /\ done \subseteq Chunk
  BY JobAssumption DEF Init
<1>2. Queued = {} /\ InHand = {} /\ Active = {} /\ InFlight = {} /\ Lost = {}
  BY <1>1 DEF Queued, InHand, Active, InFlight, Lost
<1>3. Typed /\ Control
  BY <1>1, <1>2, FS_EmptySet, JobAssumption DEF Typed, Control, EmptyHanded
<1>4. OnePlace /\ NoneForgotten
  BY <1>1, <1>2, FS_EmptySet DEF OnePlace, NoneForgotten, Scanning
<1>5. ChunkInv
  BY <1>3, <1>4 DEF ChunkInv
<1>6. place = [k \in Chunk |-> IF k \in done THEN "done" ELSE "todo"]
  BY <1>2, <1>5, PlaceIs DEF Places, Work
<1> QED BY <1>1, <1>5, <1>6 DEF Ledger!Init

\* A step of the job is a step of the ledger or leaves it as it is.
LEMMA NextHolds ==
    ASSUME ChunkInv, Next
    PROVE  ChunkInv' /\ (Ledger!Next \/ place' = place)
<1>1. CASE StartJob \/ Commands
  BY <1>1, CommandsQuiet, QuietStep DEF Quiet
<1>2. CASE Lookup
  <2>1. CASE ScanOwners /\ scan = {}
    BY <2>1, FillStep
  <2>2. CASE ~ (ScanOwners /\ scan = {})
    BY <1>2, <2>2, LookupQuiet, QuietStep DEF Lookup, Quiet
  <2> QED BY <2>1, <2>2
<1>3. CASE Loop
  <2>1. CASE PopChunk
    BY <2>1, PopStep DEF Ledger!Next
  <2>2. CASE report_no_owner_chunk
    BY <2>2, NoOwnerStep DEF Ledger!Next
  <2>3. CASE StartTask
    BY <2>3, StartStep
  <2>4. CASE DropTask
    BY <2>4, DropTaskStep DEF Ledger!Next
  <2>5. CASE ~ (PopChunk \/ report_no_owner_chunk \/ StartTask \/ DropTask)
    BY <1>3, <2>5, LoopQuiet, QuietStep DEF Loop, Quiet
  <2> QED BY <2>1, <2>2, <2>3, <2>4, <2>5
<1>4. CASE \E t \in tasks : TaskStep(t)
  <2>1. PICK t \in tasks : TaskStep(t)
    BY <1>4
  <2>2. CASE Exchange(t) \/ TaskReceives(t)
    BY <2>2, GoesOnStep
  <2>3. CASE ExchangeFails(t) \/ TaskAborts(t) \/ ReceiveFails(t) \/ ChecksumFails(t)
    BY <2>3, FailuresFail, FailStep DEF Ledger!Next
  <2>4. CASE TaskSucceeds(t)
    BY <2>4, SuccessStep DEF Ledger!Next
  <2>5. CASE FailedTaskFinishes(t)
    BY <2>5, FailedEndsStep
  <2> QED BY <2>1, <2>2, <2>3, <2>4, <2>5 DEF TaskStep
<1> QED BY <1>1, <1>2, <1>3, <1>4 DEF Next, RunThread

LEMMA StepHolds == ChunkInv /\ [Next]_vars => ChunkInv' /\ [Ledger!Next]_place
<1> SUFFICES ASSUME ChunkInv, [Next]_vars PROVE ChunkInv' /\ [Ledger!Next]_place
  OBVIOUS
<1>1. CASE Next
  BY <1>1, NextHolds
<1>2. CASE UNCHANGED vars
  <2>1. UNCHANGED chunkVars /\ Control' /\ (Scanning => Scanning')
    BY <1>2 DEF vars, chunkVars, lookup, run, ChunkInv, Control, Before, EmptyHanded, Scanning
  <2> QED BY <2>1, QuietStep
<1> QED BY <1>1, <1>2

LEMMA ChunkInvariant == Spec => []ChunkInv
<1>1. Init => ChunkInv
  BY InitHolds
<1>2. ChunkInv /\ [Next]_vars => ChunkInv'
  BY StepHolds
<1> QED BY <1>1, <1>2, PTL DEF Spec

\* A chunk is never worked on twice at a time: it is queued, in the hand of
\* the run thread, with one running task, dropped or marked, and only one of
\* these, whatever the threads, the commands and the faults.
THEOREM ChunksInOnePlace == Spec => []OnePlace
<1>1. ChunkInv => OnePlace
  BY DEF ChunkInv
<1> QED BY <1>1, ChunkInvariant, PTL

\* Once the queue has been filled, no chunk is forgotten but those whose task
\* was not started.
THEOREM NothingForgotten == Spec => []NoneForgotten
<1>1. ChunkInv => NoneForgotten
  BY DEF ChunkInv
<1> QED BY <1>1, ChunkInvariant, PTL

\* The job implements the ledger of chunks: a chunk is taken by one thread
\* at a time, no more chunks are in work than threads and one, and a chunk
\* is marked only by the task that has received it.
THEOREM JobImplementsLedger == Spec => ImplementsLedger
<1>1. Init => Ledger!Init
  BY InitHolds
<1>2. ChunkInv /\ [Next]_vars => [Ledger!Next]_place
  BY StepHolds
<1> QED BY <1>1, <1>2, ChunkInvariant, PTL DEF Spec, ImplementsLedger, Ledger!Spec

-----------------------------------------------------------------------------
(* The flags, the place of the run thread and the bounds                   *)

ControlTypes ==
    /\ removed \in BOOLEAN /\ stopped \in BOOLEAN /\ paused \in BOOLEAN
    /\ pc \in PC /\ after \in {"owners", "choose"}
    /\ copied \in SUBSET File
    /\ faults \in 0 .. MaxFaults /\ commands \in 0 .. MaxCommands

LEMMA ControlInit == Init => ControlTypes
<1> SUFFICES ASSUME Init PROVE ControlTypes
  OBVIOUS
<1>1. 0 \in 0 .. MaxFaults /\ 0 \in 0 .. MaxCommands
  BY JobAssumption
<1>2. /\ removed = FALSE /\ stopped = TRUE /\ paused = TRUE /\ pc = "new" /\ after = "owners"
      /\ copied = {} /\ faults = 0 /\ commands = 0
  BY DEF Init
<1> QED BY <1>1, <1>2 DEF ControlTypes, PC

\* A failure counted stays within the bound.
LEMMA FaultTypes ==
    ASSUME ControlTypes, Fault \/ NoFault
    PROVE  faults' \in 0 .. MaxFaults
BY JobAssumption DEF ControlTypes, Fault, NoFault

LEMMA ControlCommands == ASSUME ControlTypes, StartJob \/ Commands PROVE ControlTypes'
<1> USE JobAssumption DEF ControlTypes, PC, lookup
<1>1. CASE StartJob
  BY <1>1 DEF StartJob
<1>2. CASE PauseJob
  BY <1>2 DEF PauseJob, Command
<1>3. CASE StopJob
  BY <1>3 DEF StopJob, Command
<1>4. CASE ResumeJob
  <2>1. pc' \in PC
    BY <1>4 DEF ResumeJob
  <2>2. /\ removed' = removed /\ stopped' = FALSE /\ paused' = FALSE
        /\ after' = after /\ copied' = copied /\ faults' = faults
    BY <1>4 DEF ResumeJob, Command
  <2>3. commands' \in 0 .. MaxCommands
    BY <1>4 DEF ResumeJob, Command
  <2> HIDE JobAssumption
  <2> QED BY <2>1, <2>2, <2>3
<1>5. CASE RemoveJob
  BY <1>5 DEF RemoveJob, Command
<1> QED BY <1>1, <1>2, <1>3, <1>4, <1>5 DEF Commands

LEMMA ControlRun == ASSUME ControlTypes, RunThread PROVE ControlTypes'
<1>1. faults' \in 0 .. MaxFaults
  <2>1. faults' = faults \/ Fault
    BY DEF RunThread, Lookup, Loop, ScanOwners, request_clients, RequestFails, ConnectOwner,
           ShakeBegin, ShakeSucceeds, ShakeNoFile, ShakeBreaks, LookupDone, CheckRemoved,
           CheckStopped, SleepStopped, SpinPaused, QueueEmpty, PopChunk, report_no_owner_chunk,
           ChoosePeer, GetSock, WaitSock, WaitThread, StartTask, DropTask, FinishRun, OnlyMoves,
           AskSock, StreamFails, NoFault
  <2> QED BY <2>1, FaultTypes DEF NoFault
<1>2. /\ UNCHANGED <<removed, stopped, paused, commands>>
      /\ pc' \in PC \cup {after} /\ after' \in {after, "owners", "choose"}
      /\ copied' \in {copied, Copies}
  <2> USE DEF PC, flags, lookup
  <2>1. CASE Lookup
    BY <2>1 DEF Lookup, ScanOwners, request_clients, RequestFails, ConnectOwner, ShakeBegin,
           ShakeSucceeds, ShakeNoFile, ShakeBreaks, LookupDone, ShakeReturn, AskSock
  <2>2. CASE Loop
    BY <2>2 DEF Loop, CheckRemoved, CheckStopped, SleepStopped, SpinPaused, QueueEmpty,
           PopChunk, report_no_owner_chunk, ChoosePeer, GetSock, WaitSock, WaitThread, StartTask,
           DropTask, FinishRun, OnlyMoves, AskSock
  <2> QED BY <2>1, <2>2 DEF RunThread
<1> QED BY <1>1, <1>2, JobAssumption DEF ControlTypes, PC

\* A task fails by a failure that is counted, or by none.
LEMMA TaskFaults ==
    ASSUME NEW t \in tasks, TaskStep(t)
    PROVE  Fault \/ NoFault
BY DEF TaskStep, Exchange, ExchangeFails, TaskAborts, AbortsWhen, TaskReceives, ReceiveFails,
       ChecksumFails, TaskSucceeds, FailedTaskFinishes, ReturnSock, StreamFails, NoFault

\* What every step of a task leaves alone.
LEMMA TaskKeeps ==
    ASSUME NEW t \in tasks, TaskStep(t)
    PROVE  /\ TaskFrame
           /\ pc' = pc \/ (pc = "waiting" /\ pc' = "getSock")
BY DEF TaskStep, Exchange, ExchangeFails, TaskAborts, AbortsWhen, TaskReceives, ReceiveFails,
       ChecksumFails, TaskSucceeds, FailedTaskFinishes, ReturnSock, Fail

LEMMA ControlTask == ASSUME ControlTypes, NEW t \in tasks, TaskStep(t) PROVE ControlTypes'
<1>1. faults' \in 0 .. MaxFaults
  BY TaskFaults, FaultTypes
<1> QED BY <1>1, TaskKeeps DEF ControlTypes, TaskFrame, flags, lookup, PC

LEMMA ControlStep == ControlTypes /\ [Next]_vars => ControlTypes'
<1> SUFFICES ASSUME ControlTypes, [Next]_vars PROVE ControlTypes'
  OBVIOUS
<1>1. CASE UNCHANGED vars
  BY <1>1 DEF ControlTypes, vars, flags, lookup
<1> QED BY <1>1, ControlCommands, ControlRun, ControlTask DEF Next

-----------------------------------------------------------------------------
(* The owners of the files and the entries of the queue.  During a lookup  *)
(* the clients listed for the file are those that have answered, those     *)
(* still to be asked and those found invalid; after it, those that have    *)
(* answered.  An entry has the priority of its list when it was queued.    *)

Looking == pc \in {"connect", "shake", "shaking"}

OwnerTypes ==
    /\ scan \in SUBSET File /\ cur \in File
    /\ todo \in SUBSET Client /\ bad \in SUBSET Client
    /\ peer \in Client \cup {NoPeer}
    /\ listed \in [File -> SUBSET Client]
    /\ shaken \in [File -> SUBSET Client]
    /\ claims \in [Client -> SUBSET Chunk]

PeerChosen == {"shake", "shaking", "getSock", "toWait", "waiting", "slot", "start"}

Known ==
    /\ \A f \in File : IsFiniteSet(listed[f]) /\ shaken[f] \subseteq listed[f]
    /\ Looking => /\ \A f \in File \ {cur} : listed[f] = shaken[f]
                  /\ listed[cur] = shaken[cur] \cup todo \cup bad
                  /\ (todo \cup bad) \cap shaken[cur] = {} /\ todo \cap bad = {}
    /\ pc \in {"shake", "shaking"} => peer \in todo
    /\ pc \in PeerChosen => peer \in Client
    /\ ~ Looking /\ pc # "dead" => listed = shaken

OwnerInv == OwnerTypes /\ Known

EntryOK(e) ==
    /\ e \in Entry /\ IsFiniteSet(e.list)
    /\ e.priority = Priority(Cardinality(e.list), Baseline[e.status])

QueueInv == \A e \in queue \cup hand : EntryOK(e)

\* A chunk is one of a file.
LEMMA ChunkFile == ASSUME NEW k \in Chunk PROVE k[1] \in File
BY DEF Chunk

\* Whatever get_priority reads of a bitmap that has not come, it makes an entry.
LEMMA NewEntryOK ==
    ASSUME OwnerInv, NEW k \in Chunk, NEW status \in {"FREE", "FAILED", "NOOWNER"},
           NEW l \in ClientLists(k)
    PROVE  EntryOK(NewEntry(k, status, l)) /\ NewEntry(k, status, l).chunk = k
<1>1. PICK f \in File : f = k[1]
  BY ChunkFile
<1>2. /\ listed[f] \in SUBSET Client /\ IsFiniteSet(listed[f])
      /\ shaken[f] \subseteq listed[f]
  BY DEF OwnerInv, OwnerTypes, Known
<1>3. l \subseteq listed[f]
  BY <1>1, <1>2 DEF ClientLists, Claimants
<1>4. l \in SUBSET Client /\ IsFiniteSet(l) /\ Cardinality(l) \in Nat
  BY <1>2, <1>3, FS_Subset, FS_CardinalityType
<1>5. Baseline[status] \in Int
  BY DEF Baseline, NORMAL, HIGHEST
<1>6. PICK n \in Nat : n = Cardinality(l)
  BY <1>4
<1>7. Priority(n, Baseline[status]) \in Int
  BY <1>5 DEF Priority, UNAVAILABLE, HIGHEST, NORMAL
<1> DEFINE e == NewEntry(k, status, l)
<1>8. /\ e.chunk = k /\ e.status = status /\ e.list = l
      /\ e.priority = Priority(Cardinality(l), Baseline[status])
  BY DEF NewEntry
<1>9. e \in Entry
  BY <1>4, <1>6, <1>7 DEF Entry, NewEntry
<1> HIDE DEF e
<1>10. EntryOK(e)
  BY <1>4, <1>8, <1>9 DEF EntryOK
<1> QED BY <1>8, <1>10 DEF e

LEMMA OwnerInit == Init => OwnerInv /\ QueueInv
<1> SUFFICES ASSUME Init PROVE OwnerInv /\ QueueInv
  OBVIOUS
<1>1. OwnerTypes
  BY DEF Init, OwnerTypes
<1>2. Known
  BY FS_EmptySet DEF Init, Known, Looking, PeerChosen
<1>3. QueueInv
  BY DEF Init, QueueInv
<1> QED BY <1>1, <1>2, <1>3 DEF OwnerInv

\* Steps that look nothing up.
LEMMA OwnersKept ==
    ASSUME OwnerInv, UNCHANGED <<scan, todo, bad, listed, shaken, claims>>, cur' \in File,
           \/ peer' = peer /\ (pc' \in PeerChosen => pc \in PeerChosen)
           \/ peer' \in Client,
           \/ cur' = cur /\ peer' = peer /\ pc' = pc
           \/ ~ Looking /\ ~ Looking' /\ (pc' = "dead" \/ pc # "dead")
    PROVE  OwnerInv'
<1>1. OwnerTypes'
  BY DEF OwnerInv, OwnerTypes
<1>2. CASE cur' = cur /\ peer' = peer /\ pc' = pc
  BY <1>1, <1>2 DEF OwnerInv, Known, Looking, PeerChosen
<1>3. CASE ~ Looking /\ ~ Looking' /\ (pc' = "dead" \/ pc # "dead")
  BY <1>1, <1>3 DEF OwnerInv, Known, Looking, PeerChosen
<1> QED BY <1>2, <1>3

LEMMA OwnersCommands == ASSUME OwnerInv, StartJob \/ Commands PROVE OwnerInv'
<1>1. /\ UNCHANGED <<scan, cur, todo, bad, peer, listed, shaken, claims>>
      /\ \/ pc' = pc
         \/ pc = "new" /\ pc' = "owners"
         \/ pc = "asleep" /\ pc' = "top"
  BY DEF StartJob, Commands, PauseJob, StopJob, ResumeJob, RemoveJob, Command, lookup, owners, run
<1> QED BY <1>1, OwnersKept DEF Looking, PeerChosen, OwnerInv, OwnerTypes

LEMMA OwnersTask == ASSUME OwnerInv, NEW t \in tasks, TaskStep(t) PROVE OwnerInv'
<1>1. /\ UNCHANGED <<scan, cur, todo, bad, peer, listed, shaken, claims>>
      /\ pc' = pc \/ (pc = "waiting" /\ pc' = "getSock")
  BY TaskKeeps DEF TaskFrame, lookup, owners, run
<1> QED BY <1>1, OwnersKept DEF Looking, PeerChosen, OwnerInv, OwnerTypes

LEMMA OwnersLoop == ASSUME OwnerInv, QueueInv, Loop PROVE OwnerInv'
<1>1. CASE PopChunk
  <2>1. PICK e \in queue : cur' = e.chunk[1] \/ cur' = cur
    BY <1>1 DEF PopChunk
  <2>2. cur' \in File
    BY <2>1, ChunkFile DEF QueueInv, EntryOK, Entry, OwnerInv, OwnerTypes
  <2>3. /\ UNCHANGED <<scan, todo, bad, peer, listed, shaken, claims>>
        /\ pc = "pauseCheck" /\ pc' \in {"request", "choose"}
    BY <1>1 DEF PopChunk, owners
  <2> QED BY <2>2, <2>3, OwnersKept DEF Looking, PeerChosen
<1>2. CASE ChoosePeer
  <2>1. PICK e \in hand : peer' \in e.list
    BY <1>2 DEF ChoosePeer
  <2>2. peer' \in Client
    BY <2>1 DEF QueueInv, EntryOK, Entry
  <2>3. /\ UNCHANGED <<scan, cur, todo, bad, listed, shaken, claims>>
        /\ pc = "choose" /\ pc' = "getSock"
    BY <1>2 DEF ChoosePeer, OnlyMoves, lookup, owners
  <2> QED BY <2>2, <2>3, OwnersKept DEF Looking, PeerChosen, OwnerInv, OwnerTypes
<1>3. CASE ~ PopChunk /\ ~ ChoosePeer
  <2>1. /\ UNCHANGED <<scan, cur, todo, bad, peer, listed, shaken, claims>>
        /\ pc \notin {"connect", "shake", "shaking", "dead"}
        /\ pc' \notin {"connect", "shake", "shaking"}
        /\ pc' \in PeerChosen => pc \in PeerChosen
    BY <1>3 DEF Loop, CheckRemoved, CheckStopped, SleepStopped, SpinPaused, QueueEmpty,
           report_no_owner_chunk, GetSock, WaitSock, WaitThread, StartTask, DropTask, FinishRun,
           OnlyMoves, AskSock, PeerChosen, lookup, owners, run
  <2> QED BY <2>1, OwnersKept DEF Looking, OwnerInv, OwnerTypes
<1> QED BY <1>1, <1>2, <1>3

LEMMA OwnersLookup == ASSUME OwnerInv, ControlTypes, Lookup PROVE OwnerInv'
<1> USE DEF OwnerInv
<1>1. CASE ScanOwners
  <2>1. /\ pc = "owners" /\ pc' \in {"request", "top"} /\ cur' \in File /\ scan' \subseteq scan
        /\ UNCHANGED <<todo, bad, peer, listed, shaken, claims>>
    BY <1>1 DEF ScanOwners, run, owners, OwnerTypes
  <2>2. OwnerTypes'
    BY <2>1 DEF OwnerTypes
  <2>3. Known'
    BY <2>1 DEF Known, Looking, PeerChosen
  <2> QED BY <2>2, <2>3
<1>2. CASE request_clients
  <2>1. PICK S \in TrackerViews : listed' = [listed EXCEPT ![cur] = S] /\ todo' = S
    BY <1>2 DEF request_clients
  <2>2. /\ pc = "request" /\ pc' = "connect" /\ shaken' = [shaken EXCEPT ![cur] = {}]
        /\ bad' = {} /\ UNCHANGED <<scan, cur, peer, claims>>
    BY <1>2 DEF request_clients, run
  <2>3. S \in SUBSET Client /\ IsFiniteSet(S)
    BY JobAssumption
  <2>4. OwnerTypes'
    BY <2>1, <2>2, <2>3 DEF OwnerTypes
  <2>5. /\ listed'[cur] = S /\ shaken'[cur] = {}
        /\ \A f \in File \ {cur} : listed'[f] = listed[f] /\ shaken'[f] = listed[f]
    BY <2>1, <2>2 DEF OwnerTypes, Known, Looking
  <2>6. Known'
    BY <2>1, <2>2, <2>3, <2>5 DEF OwnerTypes, Known, Looking, PeerChosen
  <2> QED BY <2>4, <2>6
<1>3. CASE RequestFails
  <2>1. /\ pc = "request" /\ pc' \in {"owners", "choose", "dead"}
        /\ UNCHANGED <<scan, cur, todo, bad, peer, listed, shaken, claims>>
    BY <1>3 DEF RequestFails, ControlTypes, lookup, run, owners
  <2> QED BY <2>1, OwnersKept DEF Looking, PeerChosen, OwnerTypes
<1>4. CASE ConnectOwner
  <2>1. /\ peer' \in todo /\ pc = "connect" /\ pc' = "shake"
        /\ UNCHANGED <<scan, cur, todo, bad, listed, shaken, claims>>
    BY <1>4 DEF ConnectOwner, lookup, owners
  <2>2. OwnerTypes'
    BY <2>1 DEF OwnerTypes
  <2>3. Known'
    BY <2>1 DEF Known, Looking, PeerChosen, OwnerTypes
  <2> QED BY <2>2, <2>3
<1>5. CASE ShakeBegin
  <2>1. /\ pc = "shake" /\ pc' \in {"shaking", "dead"}
        /\ UNCHANGED <<scan, cur, todo, bad, peer, listed, shaken, claims>>
    BY <1>5 DEF ShakeBegin, AskSock, lookup, owners
  <2>2. OwnerTypes'
    BY <2>1 DEF OwnerTypes
  <2>3. Known'
    BY <2>1 DEF Known, Looking, PeerChosen
  <2> QED BY <2>2, <2>3
<1>6. CASE ShakeSucceeds
  <2>1. /\ pc = "shaking" /\ pc' = "connect" /\ todo' = todo \ {peer}
        /\ shaken' = [shaken EXCEPT ![cur] = @ \cup {peer}]
        /\ UNCHANGED <<scan, cur, bad, peer, listed>>
    BY <1>6 DEF ShakeSucceeds, ShakeReturn
  <2>2. peer \in todo /\ peer \in Client /\ cur \in File
    BY <2>1 DEF Known, OwnerTypes
  <2>3. claims' \in [Client -> SUBSET Chunk]
    <3>1. PeerHas[peer] \subseteq Chunk
      BY <2>2, JobAssumption
    <3>2. claims' = [claims EXCEPT ![peer] =
                        {k \in @ : k[1] # cur} \cup {k \in PeerHas[peer] : k[1] = cur}]
      BY <1>6 DEF ShakeSucceeds
    <3> QED BY <2>2, <3>1, <3>2 DEF OwnerTypes
  <2>4. OwnerTypes'
    BY <2>1, <2>2, <2>3 DEF OwnerTypes
  <2>5. /\ shaken'[cur] = shaken[cur] \cup {peer}
        /\ \A f \in File \ {cur} : shaken'[f] = shaken[f]
    BY <2>1, <2>2 DEF OwnerTypes
  <2>6. Known'
    <3>1. \A f \in File : IsFiniteSet(listed'[f]) /\ shaken'[f] \subseteq listed'[f]
      BY <2>1, <2>2, <2>5 DEF Known, Looking
    <3>2. /\ \A f \in File \ {cur'} : listed'[f] = shaken'[f]
          /\ listed'[cur'] = shaken'[cur'] \cup todo' \cup bad'
          /\ (todo' \cup bad') \cap shaken'[cur'] = {} /\ todo' \cap bad' = {}
      BY <2>1, <2>2, <2>5 DEF Known, Looking
    <3> QED BY <2>1, <3>1, <3>2 DEF Known, Looking, PeerChosen
  <2> QED BY <2>4, <2>6
<1>7. CASE ShakeNoFile \/ ShakeBreaks
  <2>1. /\ pc = "shaking" /\ todo' = todo \ {peer}
        /\ \/ pc' = "connect" /\ bad' = bad \cup {peer}
           \/ pc' = "dead" /\ bad' = bad
        /\ UNCHANGED <<scan, cur, peer, listed, shaken, claims>>
    BY <1>7 DEF ShakeNoFile, ShakeBreaks, ShakeReturn
  <2>2. peer \in todo /\ peer \in Client
    BY <2>1 DEF Known, OwnerTypes
  <2>3. OwnerTypes'
    BY <2>1, <2>2 DEF OwnerTypes
  <2>4. Known'
    BY <2>1, <2>2 DEF Known, Looking, PeerChosen
  <2> QED BY <2>3, <2>4
<1>8. CASE LookupDone
  <2>1. /\ pc = "connect" /\ todo = {} /\ pc' \in {"owners", "choose"}
        /\ listed' = [listed EXCEPT ![cur] = @ \ bad]
        /\ UNCHANGED <<scan, cur, todo, bad, peer, shaken, claims>>
    BY <1>8 DEF LookupDone, ControlTypes, lookup, run
  <2>2. OwnerTypes'
    BY <2>1 DEF OwnerTypes
  <2>3. /\ listed'[cur] = listed[cur] \ bad
        /\ \A f \in File \ {cur} : listed'[f] = listed[f]
    BY <2>1 DEF OwnerTypes
  <2>4. \A f \in File : listed'[f] = shaken[f]
    BY <2>1, <2>3 DEF Known, Looking
  <2>5. listed' = shaken'
    BY <2>1, <2>2, <2>4 DEF OwnerTypes
  <2>6. \A f \in File : IsFiniteSet(listed'[f])
    <3>1. \A f \in File : listed'[f] \in SUBSET listed[f] /\ IsFiniteSet(listed[f])
      BY <2>3 DEF Known
    <3> QED BY <3>1, FS_Subset
  <2>7. Known'
    BY <2>1, <2>5, <2>6 DEF Known, Looking, PeerChosen
  <2> QED BY <2>2, <2>7
<1> QED BY <1>1, <1>2, <1>3, <1>4, <1>5, <1>6, <1>7, <1>8 DEF Lookup

\* What is queued again is an entry that is well formed.
LEMMA RequeueOK ==
    ASSUME OwnerInv, NEW k \in Chunk, NEW status \in {"FREE", "FAILED", "NOOWNER"},
           Requeue(k, status)
    PROVE  \E n : EntryOK(n) /\ queue' = queue \cup {n}
BY NewEntryOK DEF Requeue

\* The entries, in every step that takes some of them or adds well formed ones.
LEMMA QueueKept ==
    ASSUME QueueInv, hand' \subseteq queue \cup hand,
           \A e \in queue' : e \in queue \/ EntryOK(e)
    PROVE  QueueInv'
<1>1. \A e : EntryOK(e)' <=> EntryOK(e)
  BY DEF EntryOK
<1> QED BY <1>1 DEF QueueInv

LEMMA QueueRun ==
    ASSUME ChunkInv, OwnerInv, QueueInv, StartJob \/ Commands \/ RunThread
    PROVE  QueueInv'
<1>1. CASE StartJob \/ Commands
  <2>1. queue' = queue /\ hand' = hand
    BY <1>1 DEF StartJob, Commands, PauseJob, StopJob, ResumeJob, RemoveJob, Command, run
  <2> QED BY <2>1, QueueKept
<1>2. CASE ScanOwners
  <2>1. hand' = hand
    BY <1>2 DEF ScanOwners, run
  <2>2. CASE UNCHANGED queue
    BY <2>1, <2>2, QueueKept
  <2>3. CASE init_queue
    <3>1. \A k \in Chunk \ done : Claimants(k) \in ClientLists(k)
      <4> SUFFICES ASSUME NEW k \in Chunk PROVE Claimants(k) \in ClientLists(k)
        OBVIOUS
      <4>1. PICK u : u = IF k[2] = 0 THEN listed[k[1]] \ shaken[k[1]] ELSE {}
        OBVIOUS
      <4>2. ClientLists(k) = {Claimants(k) \cup x : x \in SUBSET u}
        BY <4>1 DEF ClientLists
      <4>3. {} \in SUBSET u /\ Claimants(k) \cup {} = Claimants(k)
        OBVIOUS
      <4> QED BY <4>2, <4>3
    <3>2. \A k \in Chunk \ done : EntryOK(NewEntry(k, "FREE", Claimants(k)))
      BY <3>1, NewEntryOK
    <3>3. \A e \in queue' : EntryOK(e)
      BY <2>3, <3>2 DEF init_queue
    <3> QED BY <2>1, <3>3, QueueKept
  <2> QED BY <1>2, <2>2, <2>3 DEF ScanOwners
<1>3. CASE Lookup /\ ~ ScanOwners
  <2>1. queue' = queue /\ hand' = hand
    BY <1>3 DEF Lookup, request_clients, RequestFails, ConnectOwner, ShakeBegin, ShakeSucceeds,
           ShakeNoFile, ShakeBreaks, ShakeReturn, LookupDone, run
  <2> QED BY <2>1, QueueKept
<1>4. CASE report_no_owner_chunk
  <2>1. PICK e \in hand : Requeue(e.chunk, "NOOWNER")
    BY <1>4 DEF report_no_owner_chunk
  <2>2. e.chunk \in Chunk /\ hand' = {}
    BY <1>4 DEF report_no_owner_chunk, QueueInv, EntryOK, Entry
  <2>3. PICK n : EntryOK(n) /\ queue' = queue \cup {n}
    BY <2>1, <2>2, RequeueOK
  <2> QED BY <2>2, <2>3, QueueKept
<1>5. CASE Loop /\ ~ report_no_owner_chunk
  <2>1. queue' \subseteq queue /\ hand' \subseteq queue \cup hand
    BY <1>5 DEF Loop, CheckRemoved, CheckStopped, SleepStopped, SpinPaused, QueueEmpty, PopChunk,
           get_chunk, ChoosePeer, GetSock, WaitSock, WaitThread, StartTask, DropTask, FinishRun,
           OnlyMoves, run
  <2> QED BY <2>1, QueueKept
<1> QED BY <1>1, <1>2, <1>3, <1>4, <1>5 DEF RunThread

LEMMA QueueTask ==
    ASSUME ChunkInv, OwnerInv, QueueInv, NEW t \in tasks, TaskStep(t)
    PROVE  QueueInv'
<1>1. hand' = hand /\ t.chunk \in Chunk
  BY TaskKeeps DEF TaskFrame, run, ChunkInv, Typed
<1>2. CASE Fail(t)
  <2>1. PICK n : EntryOK(n) /\ queue' = queue \cup {n}
    BY <1>1, <1>2, RequeueOK DEF Fail
  <2> QED BY <1>1, <2>1, QueueKept
<1>3. CASE UNCHANGED queue
  BY <1>1, <1>3, QueueKept
<1> QED BY <1>2, <1>3 DEF TaskStep, Exchange, ExchangeFails, TaskAborts, AbortsWhen, TaskReceives,
           ReceiveFails, ChecksumFails, TaskSucceeds, FailedTaskFinishes, ReturnSock

\* The owners and the entries, over any step.
LEMMA OwnerStep ==
    ASSUME ChunkInv, ControlTypes, OwnerInv, QueueInv, [Next]_vars
    PROVE  OwnerInv' /\ QueueInv'
<1>1. CASE UNCHANGED vars
  <2>1. UNCHANGED <<scan, cur, todo, bad, peer, listed, shaken, claims, pc>>
    BY <1>1 DEF vars, lookup, run, owners
  <2>2. queue' = queue /\ hand' = hand
    BY <1>1 DEF vars, run
  <2> QED BY <2>1, <2>2, OwnersKept, QueueKept DEF OwnerInv, OwnerTypes
<1>2. CASE StartJob \/ Commands
  BY <1>2, OwnersCommands, QueueRun
<1>3. CASE RunThread
  BY <1>3, OwnersLookup, OwnersLoop, QueueRun DEF RunThread
<1>4. CASE \E t \in tasks : TaskStep(t)
  BY <1>4, OwnersTask, QueueTask
<1> QED BY <1>1, <1>2, <1>3, <1>4 DEF Next

\* The invariant of the owners and the queue.
LookupInv == ChunkInv /\ ControlTypes /\ OwnerInv /\ QueueInv

LEMMA LookupInvariant == Spec => []LookupInv
<1>1. Init => LookupInv
  BY InitHolds, ControlInit, OwnerInit DEF LookupInv
<1>2. LookupInv /\ [Next]_vars => LookupInv'
  BY StepHolds, ControlStep, OwnerStep DEF LookupInv
<1> QED BY <1>1, <1>2, PTL DEF Spec

\* The queue is filled only when the bitmap of every client kept as an owner
\* has come, however the requests and the hand shakes before it went, so that
\* the first priorities count all the owners of a chunk.
THEOREM EveryBitmapKnown == Spec => []BitmapsKnown
<1>1. LookupInv => BitmapsKnown
  BY DEF LookupInv, OwnerInv, Known, Looking, BitmapsKnown
<1> QED BY <1>1, LookupInvariant, PTL

\* Where the lists of owners are right the priorities are: a chunk that was
\* given up for want of owners comes after any with an owner that was not.
LEMMA GivenUpIsLast ==
    ASSUME NEW e, NEW o, EntryOK(e), EntryOK(o), e.status = "NOOWNER", o.status # "NOOWNER",
           o.list # {}
    PROVE  e.priority < o.priority
<1>1. PICK m \in Nat : m = Cardinality(e.list)
  BY FS_CardinalityType DEF EntryOK
<1>2. PICK n \in Nat : n = Cardinality(o.list) /\ n # 0
  BY FS_CardinalityType, FS_EmptySet DEF EntryOK
<1>3. o.status \in {"FREE", "FAILED"}
  BY DEF EntryOK, Entry
<1>4. RareCount \in Nat /\ RareCount <= 10
  BY JobAssumption, RareAssumption DEF HIGHEST, NORMAL
<1>5. Baseline["NOOWNER"] = -20 /\ Baseline["FREE"] = 0 /\ Baseline["FAILED"] = -10
  BY DEF Baseline, HIGHEST, NORMAL
<1>6. e.priority = Priority(m, -20)
  BY <1>1, <1>5 DEF EntryOK
<1>7. o.priority = Priority(n, 0) \/ o.priority = Priority(n, -10)
  BY <1>2, <1>3, <1>5 DEF EntryOK
<1>8. Priority(m, -20) < 0
  BY <1>4 DEF Priority, HIGHEST, NORMAL, UNAVAILABLE
<1>9. Priority(n, 0) >= 0 /\ Priority(n, -10) >= 0
  BY <1>2, <1>4 DEF Priority, HIGHEST, NORMAL, UNAVAILABLE
<1>10. Priority(m, -20) \in Int /\ Priority(n, 0) \in Int /\ Priority(n, -10) \in Int
  BY <1>4 DEF Priority, HIGHEST, NORMAL, UNAVAILABLE
<1> QED BY <1>6, <1>7, <1>8, <1>9, <1>10

\* The run thread asks the tracker and shakes hands again for a chunk nobody
\* was found for only when every other chunk was given up in the same way or
\* has no owner, whatever lists the entries were queued with.
THEOREM AvailableChunksFirst == Spec => AvailableFirst
<1> DEFINE A == \A e \in queue :
                    (e \notin queue' /\ e.status = "NOOWNER")
                        => \A o \in queue : o.status = "NOOWNER" \/ o.list = {}
<1>1. LookupInv /\ [Next]_vars => [A]_vars
  <2> SUFFICES ASSUME LookupInv, Next, NEW e \in queue, e \notin queue', e.status = "NOOWNER",
                      NEW o \in queue, o.status # "NOOWNER", o.list # {}
               PROVE  FALSE
    OBVIOUS
  <2>1. ~ (queue \subseteq queue')
    OBVIOUS
  <2>2. PopChunk \/ (ScanOwners /\ init_queue)
    <3>1. ~ (StartJob \/ Commands)
      BY <2>1 DEF StartJob, Commands, PauseJob, StopJob, ResumeJob, RemoveJob, Command
    <3>2. ~ \E t \in tasks : TaskStep(t)
      BY <2>1 DEF TaskStep, Exchange, ExchangeFails, TaskAborts, AbortsWhen, TaskReceives,
           ReceiveFails, ChecksumFails, TaskSucceeds, FailedTaskFinishes, ReturnSock, Fail, Requeue
    <3>3. Lookup => ScanOwners /\ init_queue
      BY <2>1 DEF Lookup, ScanOwners, request_clients, RequestFails, ConnectOwner, ShakeBegin,
           ShakeSucceeds, ShakeNoFile, ShakeBreaks, ShakeReturn, LookupDone
    <3>4. Loop => PopChunk
      BY <2>1 DEF Loop, CheckRemoved, CheckStopped, SleepStopped, SpinPaused, QueueEmpty,
           report_no_owner_chunk, Requeue, ChoosePeer, GetSock, WaitSock, WaitThread, StartTask,
           DropTask, FinishRun, OnlyMoves
    <3> QED BY <3>1, <3>2, <3>3, <3>4 DEF Next, RunThread
  <2>3. CASE PopChunk
    <3>1. \A x \in queue : x.priority <= e.priority
      BY <2>3 DEF PopChunk, get_chunk
    <3>2. e.priority < o.priority
      BY GivenUpIsLast DEF LookupInv, QueueInv
    <3>3. e.priority \in Int /\ o.priority \in Int
      BY DEF LookupInv, QueueInv, EntryOK, Entry
    <3> QED BY <3>1, <3>2, <3>3
  <2>4. CASE ScanOwners
    BY <2>4 DEF ScanOwners, LookupInv, ChunkInv, Control, Before
  <2> QED BY <2>2, <2>3, <2>4
<1> QED BY <1>1, LookupInvariant, PTL DEF Spec, AvailableFirst

-----------------------------------------------------------------------------
(* The sockets.  Each socket marked USED is that of one task, that in the  *)
(* hand of the run thread, or one lost with a task that was not started.   *)

SockOf(x) == <<x.client, x.sock>>

TaskSocks == {SockOf(t) : t \in tasks}
RunSock == IF hsock = 0 THEN {} ELSE {<<peer, hsock>>}
LostSocks == {SockOf(l) : l \in lost}

\* Where the run thread has a socket.
Holding == {"shaking", "slot", "start"}

LostType == [chunk : Chunk, client : Client, sock : Nat \ {0}]

SockTypes ==
    /\ PoolOK
    /\ hsock \in Nat /\ (hsock # 0 <=> pc \in Holding)
    /\ tasks \in SUBSET Task /\ lost \in SUBSET LostType
    /\ broken \in SUBSET Sock

Accounted ==
    /\ \A s : s \in UsedSocks <=> s \in TaskSocks \cup RunSock \cup LostSocks
    /\ TaskSocks \cap (RunSock \cup LostSocks) = {} /\ RunSock \cap LostSocks = {}
    /\ \A t, u \in tasks : SockOf(t) = SockOf(u) => t = u
    /\ \A l, m \in lost : SockOf(l) = SockOf(m) => l = m
    /\ IsFiniteSet(lost)

SockInv == SockTypes /\ Accounted

\* The sockets do not depend on what else of a task or of a loss is noted.
LEMMA SameSocks ==
    /\ tasks' = tasks => TaskSocks' = TaskSocks
    /\ lost' = lost => LostSocks' = LostSocks
    /\ hsock' = 0 => RunSock' = {}
    /\ hsock' = hsock /\ (hsock = 0 \/ peer' = peer) => RunSock' = RunSock
BY DEF TaskSocks, LostSocks, RunSock, SockOf

\* A pool left alone is as it was.
LEMMA PoolSame == PoolOK /\ UNCHANGED sockList => PoolOK' /\ UsedSocks' = UsedSocks
BY DEF PoolOK, SockListType, NullIsUsed, ListBound, PrototypeNotNull, is_connected, UsedSocks

\* The run thread takes a socket nobody has.
LEMMA RunTakes ==
    ASSUME Accounted, NEW s, s \notin UsedSocks, UsedSocks' = UsedSocks \cup {s},
           RunSock = {}, RunSock' = {s}, tasks' = tasks, lost' = lost
    PROVE  Accounted'
<1>1. TaskSocks' = TaskSocks /\ LostSocks' = LostSocks
  BY SameSocks
<1> QED BY <1>1 DEF Accounted, SockOf

\* The run thread gives its socket back.
LEMMA RunReturns ==
    ASSUME Accounted, NEW s, UsedSocks' = UsedSocks \ {s},
           RunSock = {s}, RunSock' = {}, tasks' = tasks, lost' = lost
    PROVE  Accounted'
<1>1. TaskSocks' = TaskSocks /\ LostSocks' = LostSocks
  BY SameSocks
<1> QED BY <1>1 DEF Accounted, SockOf

\* The socket of the run thread goes to a new task.
LEMMA RunStarts ==
    ASSUME Accounted, UsedSocks' = UsedSocks, NEW u, RunSock = {SockOf(u)}, RunSock' = {},
           tasks' = tasks \cup {u}, lost' = lost
    PROVE  Accounted'
<1>1. TaskSocks' = TaskSocks \cup {SockOf(u)}
  BY DEF TaskSocks, SockOf
<1>2. LostSocks' = LostSocks
  BY SameSocks
<1>3. SockOf(u) \notin TaskSocks
  BY DEF Accounted
<1>4. \A t, v \in tasks' : SockOf(t) = SockOf(v) => t = v
  BY <1>3 DEF Accounted, TaskSocks
<1> QED BY <1>1, <1>2, <1>4 DEF Accounted, SockOf

\* The socket of the run thread is lost with a task that does not start.
LEMMA RunDrops ==
    ASSUME Accounted, UsedSocks' = UsedSocks, NEW u, RunSock = {SockOf(u)}, RunSock' = {},
           lost' = lost \cup {u}, tasks' = tasks
    PROVE  Accounted'
<1>1. LostSocks' = LostSocks \cup {SockOf(u)}
  BY DEF LostSocks, SockOf
<1>2. TaskSocks' = TaskSocks
  BY SameSocks
<1>3. SockOf(u) \notin LostSocks
  BY DEF Accounted
<1>4. \A t, v \in lost' : SockOf(t) = SockOf(v) => t = v
  BY <1>3 DEF Accounted, LostSocks
<1>5. IsFiniteSet(lost')
  BY FS_AddElement DEF Accounted
<1> QED BY <1>1, <1>2, <1>4, <1>5 DEF Accounted, SockOf

\* A task goes on with its socket.
LEMMA TaskHolds ==
    ASSUME Accounted, UsedSocks' = UsedSocks, NEW t \in tasks, NEW u, SockOf(u) = SockOf(t),
           tasks' = (tasks \ {t}) \cup {u}, RunSock' = RunSock, lost' = lost
    PROVE  Accounted'
<1>1. TaskSocks' = TaskSocks
  BY DEF TaskSocks, SockOf
<1>2. LostSocks' = LostSocks
  BY SameSocks
<1>3. \A v, w \in tasks' : SockOf(v) = SockOf(w) => v = w
  BY DEF Accounted
<1> QED BY <1>1, <1>2, <1>3 DEF Accounted, SockOf

\* A task gives its socket back and ends.
LEMMA TaskReturns ==
    ASSUME Accounted, NEW t \in tasks, UsedSocks' = UsedSocks \ {SockOf(t)},
           tasks' = tasks \ {t}, RunSock' = RunSock, lost' = lost
    PROVE  Accounted'
<1>1. TaskSocks' = TaskSocks \ {SockOf(t)}
  <2>1. \A u \in tasks \ {t} : SockOf(u) # SockOf(t)
    BY DEF Accounted
  <2> QED BY <2>1 DEF TaskSocks, SockOf
<1>2. LostSocks' = LostSocks /\ SockOf(t) \in TaskSocks
  BY SameSocks DEF TaskSocks
<1> QED BY <1>1, <1>2 DEF Accounted, SockOf

\* Nobody takes or gives up a socket.
LEMMA SocksKept ==
    ASSUME Accounted, UsedSocks' = UsedSocks, tasks' = tasks, RunSock' = RunSock, lost' = lost
    PROVE  Accounted'
<1>1. TaskSocks' = TaskSocks /\ LostSocks' = LostSocks
  BY SameSocks
<1> QED BY <1>1 DEF Accounted, SockOf

LEMMA SockInit == Init => SockInv
<1> SUFFICES ASSUME Init PROVE SockInv
  OBVIOUS
<1> USE DEF Init, SockListInit
<1>1. \A c \in Client : sockList[c] = <<>>
  OBVIOUS
<1>2. PoolOK
  BY <1>1, MaxConnAssumption DEF PoolOK, SockListType, NullIsUsed, ListBound, PrototypeNotNull,
         is_connected
<1>3. UsedSocks = {}
  BY <1>1 DEF UsedSocks
<1>4. SockTypes
  BY <1>2 DEF SockTypes, Holding
<1>5. Accounted
  BY <1>3, FS_EmptySet DEF Accounted, TaskSocks, RunSock, LostSocks
<1> QED BY <1>4, <1>5 DEF SockInv

-----------------------------------------------------------------------------
(* The sockets: the steps                                                  *)

\* Steps that use no socket, but for a client the run thread turns to while
\* it has none.
LEMMA SockQuiet ==
    ASSUME SockInv, UNCHANGED <<sockList, tasks, hsock, lost, broken>>,
           peer' = peer \/ hsock = 0,
           pc' \in Holding <=> pc \in Holding
    PROVE  SockInv'
<1>1. PoolOK' /\ UsedSocks' = UsedSocks
  BY PoolSame DEF SockInv, SockTypes
<1>2. SockTypes'
  BY <1>1 DEF SockInv, SockTypes
<1>3. RunSock' = RunSock
  BY SameSocks
<1> QED BY <1>1, <1>2, <1>3, SocksKept DEF SockInv

\* The pool is asked for a socket: the run thread gets one nobody has, or none.
LEMMA SockAsk ==
    ASSUME SockInv, peer \in Client, pc \in {"shake", "getSock"}, NEW ok \in {"shaking", "slot"},
           NEW ko \in {"dead", "toWait"}, AskSock(ok, ko), UNCHANGED <<peer, tasks, lost, broken>>
    PROVE  SockInv'
<1>1. PoolOK /\ hsock = 0 /\ RunSock = {}
  BY DEF SockInv, SockTypes, Holding, RunSock
<1>2. ASSUME NEW i \in 1 .. Len(sockList[peer]) + 1, get_idle_client_sock(peer, i),
             hsock' = i, pc' = ok
      PROVE  SockInv'
  <2>1. /\ PoolOK' /\ <<peer, i>> \notin UsedSocks
        /\ UsedSocks' = UsedSocks \cup {<<peer, i>>}
    BY <1>1, <1>2, TakeEffect
  <2>2. i \in Nat \ {0}
    BY <1>1, <1>2 DEF PoolOK, SockListType
  <2>3. RunSock' = {<<peer, i>>}
    BY <1>2, <2>2 DEF RunSock
  <2>4. SockTypes'
    BY <1>2, <2>1, <2>2 DEF SockInv, SockTypes, Holding
  <2> QED BY <1>1, <2>1, <2>3, <2>4, RunTakes DEF SockInv
<1>3. ASSUME get_idle_refused(peer) \/ get_idle_connect_failed(peer), hsock' = hsock, pc' = ko
      PROVE  SockInv'
  <2>1. PoolOK' /\ UsedSocks' = UsedSocks
    BY <1>1, <1>3, ConnectEffect
  <2>2. RunSock' = RunSock
    BY <1>3, SameSocks
  <2>3. SockTypes'
    BY <1>1, <1>3, <2>1 DEF SockInv, SockTypes, Holding
  <2> QED BY <2>1, <2>2, <2>3, SocksKept DEF SockInv
<1> QED BY <1>2, <1>3 DEF AskSock

LEMMA SockConnect == ASSUME SockInv, OwnerInv, ConnectOwner PROVE SockInv'
<1>1. PICK c \in todo : peer' = c /\ (UNCHANGED sockList \/ connect_client(c))
  BY DEF ConnectOwner
<1>2. /\ c \in Client /\ pc = "connect" /\ pc' = "shake"
      /\ UNCHANGED <<hsock, tasks, lost, broken>>
  BY DEF ConnectOwner, OwnerInv, OwnerTypes
<1>3. PoolOK' /\ UsedSocks' = UsedSocks
  BY <1>1, <1>2, PoolSame, ConnectEffect DEF SockInv, SockTypes
<1>4. hsock = 0 /\ RunSock' = RunSock
  BY <1>2, SameSocks DEF SockInv, SockTypes, Holding
<1>5. SockTypes'
  BY <1>2, <1>3, <1>4 DEF SockInv, SockTypes, Holding
<1> QED BY <1>2, <1>3, <1>4, <1>5, SocksKept DEF SockInv

LEMMA SockShakeReturn ==
    ASSUME SockInv, OwnerInv, ShakeSucceeds \/ ShakeNoFile \/ ShakeBreaks
    PROVE  SockInv'
<1>1. /\ pc = "shaking" /\ pc' \in {"connect", "dead"}
      /\ return_sock(peer, hsock) /\ hsock' = 0
      /\ UNCHANGED <<peer, tasks, lost>>
      /\ broken' = broken \/ broken' = broken \cup {<<peer, hsock>>}
  BY DEF ShakeSucceeds, ShakeNoFile, ShakeBreaks, ShakeReturn, StreamFails
<1>2. peer \in Client /\ hsock \in Nat \ {0}
  BY <1>1 DEF SockInv, SockTypes, Holding, OwnerInv, Known, PeerChosen
<1>3. RunSock = {<<peer, hsock>>} /\ <<peer, hsock>> \in UsedSocks /\ <<peer, hsock>> \in Sock
  BY <1>2 DEF RunSock, SockInv, Accounted, Sock
<1>4. PoolOK' /\ UsedSocks' = UsedSocks \ {<<peer, hsock>>}
  BY <1>1, <1>2, <1>3, ReturnEffect DEF SockInv, SockTypes
<1>5. RunSock' = {}
  BY <1>1, SameSocks
<1>6. SockTypes'
  BY <1>1, <1>3, <1>4 DEF SockInv, SockTypes, Holding
<1> QED BY <1>1, <1>3, <1>4, <1>5, <1>6, RunReturns DEF SockInv

\* The socket in hand leaves the hand, for a task or for good.
LEMMA SockPasses ==
    ASSUME SockInv, OwnerInv, QueueInv, StartTask \/ DropTask
    PROVE  SockInv'
<1>1. /\ pc = "start" /\ pc' = "top" /\ hsock' = 0
      /\ UNCHANGED <<peer, sockList, broken>>
  BY DEF StartTask, DropTask
<1>2. peer \in Client /\ hsock \in Nat \ {0} /\ RunSock = {<<peer, hsock>>} /\ RunSock' = {}
  BY <1>1, SameSocks DEF SockInv, SockTypes, Holding, OwnerInv, Known, PeerChosen, RunSock
<1>3. PoolOK' /\ UsedSocks' = UsedSocks
  BY <1>1, PoolSame DEF SockInv, SockTypes
<1>4. \A e \in hand : e.chunk \in Chunk
  BY DEF QueueInv, EntryOK, Entry
<1>5. CASE StartTask
  <2>1. PICK e \in hand : tasks' = tasks \cup
          {[chunk |-> e.chunk, client |-> peer, sock |-> hsock, state |-> "request"]}
    BY <1>5 DEF StartTask
  <2> DEFINE u == [chunk |-> e.chunk, client |-> peer, sock |-> hsock, state |-> "request"]
  <2>2. u \in Task /\ SockOf(u) = <<peer, hsock>>
    BY <1>2, <1>4 DEF Task, TaskState, SockOf
  <2>3. tasks' = tasks \cup {u} /\ lost' = lost
    BY <1>5, <2>1 DEF StartTask
  <2> HIDE DEF u
  <2>4. SockTypes'
    BY <1>1, <1>3, <2>2, <2>3 DEF SockInv, SockTypes, Holding
  <2> QED BY <1>2, <1>3, <2>2, <2>3, <2>4, RunStarts DEF SockInv
<1>6. CASE DropTask
  <2>1. PICK e \in hand : lost' = lost \cup
          {[chunk |-> e.chunk, client |-> peer, sock |-> hsock]}
    BY <1>6 DEF DropTask
  <2> DEFINE u == [chunk |-> e.chunk, client |-> peer, sock |-> hsock]
  <2>2. u \in LostType /\ SockOf(u) = <<peer, hsock>>
    BY <1>2, <1>4 DEF LostType, SockOf
  <2>3. lost' = lost \cup {u} /\ tasks' = tasks
    BY <1>6, <2>1 DEF DropTask
  <2> HIDE DEF u
  <2>4. SockTypes'
    BY <1>1, <1>3, <2>2, <2>3 DEF SockInv, SockTypes, Holding
  <2> QED BY <1>2, <1>3, <2>2, <2>3, <2>4, RunDrops DEF SockInv
<1> QED BY <1>5, <1>6

LEMMA SockRun ==
    ASSUME SockInv, OwnerInv, QueueInv, ControlTypes, StartJob \/ Commands \/ RunThread
    PROVE  SockInv'
<1>1. CASE StartJob \/ Commands
  <2>1. /\ UNCHANGED <<sockList, tasks, hsock, lost, broken, peer>>
        /\ pc' = pc \/ {pc, pc'} \subseteq {"new", "owners", "asleep", "top"}
    BY <1>1 DEF StartJob, Commands, PauseJob, StopJob, ResumeJob, RemoveJob, Command, run
  <2> QED BY <2>1, SockQuiet DEF Holding
<1>2. CASE ShakeBegin \/ GetSock
  <2>1. peer \in Client
    BY <1>2 DEF ShakeBegin, GetSock, OwnerInv, Known, PeerChosen
  <2> QED BY <1>2, <2>1, SockAsk DEF ShakeBegin, GetSock
<1>3. CASE Lookup /\ ~ (ShakeBegin \/ ConnectOwner \/ ShakeSucceeds \/ ShakeNoFile \/ ShakeBreaks)
  <2>1. /\ UNCHANGED <<sockList, tasks, hsock, lost, broken, peer>>
        /\ pc \notin Holding /\ pc' \notin Holding
    BY <1>3 DEF Lookup, ScanOwners, request_clients, RequestFails, LookupDone, run, Holding,
           ControlTypes
  <2> QED BY <2>1, SockQuiet
<1>4. CASE Loop /\ ~ (GetSock \/ StartTask \/ DropTask)
  <2>1. /\ UNCHANGED <<sockList, tasks, hsock, lost, broken>>
        /\ pc' \in Holding <=> pc \in Holding
        /\ peer' = peer \/ pc = "choose"
    BY <1>4 DEF Loop, CheckRemoved, CheckStopped, SleepStopped, SpinPaused, QueueEmpty, PopChunk,
           report_no_owner_chunk, ChoosePeer, WaitSock, WaitThread, FinishRun, OnlyMoves, run,
           Holding
  <2>2. pc = "choose" => hsock = 0
    BY DEF SockInv, SockTypes, Holding
  <2> QED BY <2>1, <2>2, SockQuiet
<1> QED BY <1>1, <1>2, <1>3, <1>4, SockConnect, SockShakeReturn, SockPasses
        DEF RunThread, Lookup, Loop

LEMMA SockTask ==
    ASSUME SockInv, OwnerInv, NEW t \in tasks, TaskStep(t)
    PROVE  SockInv'
<1>1. /\ UNCHANGED <<hsock, peer, lost>>
      /\ pc' = pc \/ (pc = "waiting" /\ pc' = "getSock")
  BY TaskKeeps DEF TaskFrame, run
<1>2. t \in Task /\ t.client \in Client /\ t.sock \in Nat \ {0} /\ SockOf(t) \in Sock
  BY DEF SockInv, SockTypes, Task, SockOf, Sock
<1>3. RunSock' = RunSock /\ (pc' \in Holding <=> pc \in Holding)
  BY <1>1, SameSocks DEF Holding
<1>4. ASSUME NEW st \in TaskState, Becomes(t, st), UNCHANGED sockList, broken' \in SUBSET Sock
      PROVE  SockInv'
  <2> DEFINE u == [t EXCEPT !.state = st]
  <2>1. u \in Task /\ SockOf(u) = SockOf(t)
    BY <1>2 DEF Task, SockOf
  <2>2. tasks' = (tasks \ {t}) \cup {u}
    BY <1>4 DEF Becomes
  <2> HIDE DEF u
  <2>3. PoolOK' /\ UsedSocks' = UsedSocks
    BY <1>4, PoolSame DEF SockInv, SockTypes
  <2>4. SockTypes'
    BY <1>1, <1>3, <1>4, <2>1, <2>2, <2>3 DEF SockInv, SockTypes
  <2> QED BY <1>1, <1>3, <2>1, <2>2, <2>3, <2>4, TaskHolds DEF SockInv
<1>5. CASE ReturnSock(t) /\ broken' = broken
  <2>1. tasks' = tasks \ {t} /\ return_sock(t.client, t.sock)
    BY <1>5 DEF ReturnSock
  <2>2. SockOf(t) = <<t.client, t.sock>> /\ SockOf(t) \in UsedSocks
    BY DEF SockOf, SockInv, Accounted, TaskSocks
  <2>3. PoolOK' /\ UsedSocks' = UsedSocks \ {SockOf(t)}
    BY <1>2, <2>1, <2>2, ReturnEffect DEF SockInv, SockTypes
  <2>4. SockTypes'
    BY <1>1, <1>3, <1>5, <2>1, <2>3 DEF SockInv, SockTypes
  <2> QED BY <1>1, <1>3, <2>1, <2>3, <2>4, TaskReturns DEF SockInv
<1>6. broken' = broken \/ broken' = broken \cup {SockOf(t)}
  BY DEF TaskStep, Exchange, ExchangeFails, TaskAborts, AbortsWhen, TaskReceives, ReceiveFails,
         ChecksumFails, TaskSucceeds, FailedTaskFinishes, ReturnSock, StreamFails, SockOf
<1>7. broken' \in SUBSET Sock
  BY <1>2, <1>6 DEF SockInv, SockTypes
<1>8. \/ ReturnSock(t) /\ broken' = broken
      \/ \E st \in TaskState : Becomes(t, st) /\ UNCHANGED sockList
  BY DEF TaskStep, Exchange, ExchangeFails, TaskAborts, AbortsWhen, TaskReceives, ReceiveFails,
         ChecksumFails, TaskSucceeds, FailedTaskFinishes, ReturnSock, Fail, TaskState
<1> QED BY <1>4, <1>5, <1>7, <1>8

LEMMA SockStep ==
    ASSUME SockInv, OwnerInv, QueueInv, ControlTypes, [Next]_vars
    PROVE  SockInv'
<1>1. CASE UNCHANGED vars
  BY <1>1, SockQuiet DEF vars, run
<1> QED BY <1>1, SockRun, SockTask DEF Next

JobInv == LookupInv /\ SockInv

LEMMA JobInvariant == Spec => []JobInv
<1>1. Init => JobInv
  BY InitHolds, ControlInit, OwnerInit, SockInit DEF JobInv, LookupInv
<1>2. JobInv /\ [Next]_vars => JobInv'
  BY StepHolds, ControlStep, OwnerStep, SockStep DEF JobInv, LookupInv
<1> QED BY <1>1, <1>2, PTL DEF Spec

\* As many sockets as things that hold one, where no two hold the same.
LEMMA OneSocketEach ==
    ASSUME NEW S, IsFiniteSet(S), \A x, y \in S : SockOf(x) = SockOf(y) => x = y
    PROVE  Cardinality({SockOf(x) : x \in S}) = Cardinality(S)
<1> DEFINE T == {SockOf(x) : x \in S}
           f == [x \in S |-> SockOf(x)]
<1>1. /\ f \in [S -> T]
      /\ \A x, y \in S : f[x] = f[y] => x = y
      /\ \A s \in T : \E x \in S : f[x] = s
  OBVIOUS
<1> HIDE DEF f, T
<1>2. f \in Bijection(S, T)
  BY <1>1 DEF Bijection, Injection, Surjection, IsInjective
<1>3. Cardinality(T) = Cardinality(S)
  BY <1>2, FS_Bijection DEF ExistsBijection
<1> QED BY <1>3 DEF T

\* The state of the job keeps its types: in particular the run thread deals
\* with a client wherever it needs one, and starts a task with a socket.
THEOREM TypeCorrect == Spec => []TypeOK
<1>1. JobInv => TypeOK
  <2> SUFFICES ASSUME JobInv PROVE TypeOK
    OBVIOUS
  <2> USE DEF JobInv, LookupInv
  <2>1. /\ removed \in BOOLEAN /\ stopped \in BOOLEAN /\ paused \in BOOLEAN
        /\ pc \in PC /\ after \in {"owners", "choose"} /\ copied \in SUBSET File
        /\ faults \in 0 .. MaxFaults /\ commands \in 0 .. MaxCommands
    BY DEF ControlTypes
  <2>2. /\ scan \in SUBSET File /\ cur \in File /\ todo \in SUBSET Client
        /\ bad \in SUBSET Client /\ peer \in Client \cup {NoPeer}
        /\ listed \in [File -> SUBSET Client] /\ shaken \in [File -> SUBSET Client]
        /\ claims \in [Client -> SUBSET Chunk]
    BY DEF OwnerInv, OwnerTypes
  <2>3. hand \in SUBSET Entry /\ queue \in SUBSET Entry
    BY DEF QueueInv, EntryOK
  <2>4. hsock \in Nat /\ tasks \in SUBSET Task /\ lost \in SUBSET LostType
        /\ broken \in SUBSET Sock /\ SockListType
    BY DEF SockInv, SockTypes, PoolOK
  <2>5. done \in SUBSET Chunk
    BY DEF ChunkInv, Typed
  <2> QED BY <2>1, <2>2, <2>3, <2>4, <2>5 DEF TypeOK, LostType
<1> QED BY <1>1, JobInvariant, PTL

\* A socket is in use exactly while a task or the run thread has it, or for
\* ever once it was lost with a task that was not started, and no two of
\* them have the same: whatever fails, is paused, stopped or removed.
THEOREM SocketsAccounted == Spec => []SocksAccounted
<1>1. JobInv => SocksAccounted
  <2> SUFFICES ASSUME JobInv PROVE SocksAccounted
    OBVIOUS
  <2>1. Accounted /\ IsFiniteSet(tasks)
    BY DEF JobInv, LookupInv, ChunkInv, Typed, SockInv
  <2>2. /\ {<<t.client, t.sock>> : t \in tasks} = TaskSocks
        /\ {<<l.client, l.sock>> : l \in lost} = LostSocks
    BY DEF TaskSocks, LostSocks, SockOf
  <2>3. UsedSocks = TaskSocks \cup RunSock \cup LostSocks
    BY <2>1 DEF Accounted
  <2>4. Cardinality(TaskSocks) = Cardinality(tasks) /\ Cardinality(LostSocks) = Cardinality(lost)
    BY <2>1, OneSocketEach DEF Accounted, TaskSocks, LostSocks
  <2> QED BY <2>1, <2>2, <2>3, <2>4 DEF SocksAccounted, Accounted, RunSock
<1> QED BY <1>1, JobInvariant, PTL

=============================================================================
