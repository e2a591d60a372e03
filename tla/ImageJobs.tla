----------------------------- MODULE ImageJobs -----------------------------
(***************************************************************************)
(* Generated images of the SSR server: the cache directory, the map of the *)
(* jobs in progress, the semaphore of runImageJob with its hand-over       *)
(* (image-cache.ts) and the requests of /cdn-cgi/asset and the previews    *)
(* that use them (cdn-asset.ts, og-preview.ts).                            *)
(*                                                                         *)
(* Node runs one callback at a time: a step is what happens between two    *)
(* awaits.  sharp writes the cache file in place, on another thread.       *)
(***************************************************************************)
EXTENDS Naturals, Sequences, FiniteSets

CONSTANTS
  Requests,   \* HTTP requests, each used once; a job is named by its starter
  Keys,       \* cache keys
  Slots,      \* IMAGE_JOBS_MAX
  None,       \* no job
  MaxFaults   \* bound: failing jobs and deaths of the server

ASSUME JobsAssumption ==
  /\ Slots \in Nat \ {0}
  /\ None \notin Requests
  /\ MaxFaults \in Nat

VARIABLES
  file,        \* [Keys -> FileState], cacheDir
  pc,          \* [Requests -> Stage], the handler
  key,         \* [Requests -> Keys], the image it wants
  awaited,     \* [Requests -> Requests \union {None}], the job it awaits
  got,         \* [Requests -> FileState], what it sent; "absent": an error page
  job,         \* [Requests -> JobStage], the job the request has started
  inProgress,  \* [Keys -> Requests \union {None}]
  active,      \* _activeJobs
  queue,       \* _jobQueue
  faults

handlers == <<pc, key, awaited, got>>
slots    == <<job, inProgress, active, queue>>
vars     == <<file, handlers, slots, faults>>

-----------------------------------------------------------------------------
FileState == {"absent", "partial", "whole"}
Stage == {"new", "checking", "hit", "miss", "waiting", "sending", "answered"}
JobStage == {"none", "queued", "ready", "writing", "over"}

Holders == {j \in Requests : job[j] \in {"ready", "writing"}}
Alive(j) == job[j] \in {"queued", "ready", "writing"}
Fault == faults < MaxFaults /\ faults' = faults + 1

(* The cache directory survives from the earlier runs of the server.       *)
Init ==
  /\ file \in [Keys -> {"absent", "whole"}]
  /\ pc = [r \in Requests |-> "new"]
  /\ key \in [Requests -> Keys]
  /\ awaited = [r \in Requests |-> None]
  /\ got = [r \in Requests |-> "absent"]
  /\ job = [r \in Requests |-> "none"]
  /\ inProgress = [k \in Keys |-> None]
  /\ active = 0
  /\ queue = <<>>
  /\ faults = 0

-----------------------------------------------------------------------------
Arrive(r) ==
  /\ pc[r] = "new"
  /\ pc' = [pc EXCEPT ![r] = "checking"]
  /\ UNCHANGED <<file, key, awaited, got, slots, faults>>

(* fileExists: the answer is used in a later callback.                     *)
Check(r) ==
  /\ pc[r] = "checking"
  /\ pc' = [pc EXCEPT ![r] = IF file[key[r]] = "absent" THEN "miss" ELSE "hit"]
  /\ UNCHANGED <<file, key, awaited, got, slots, faults>>

Hit(r) ==
  /\ pc[r] = "hit"
  /\ pc' = [pc EXCEPT ![r] = "sending"]
  /\ UNCHANGED <<file, key, awaited, got, slots, faults>>

(* The job of the key is awaited if there is one ...                       *)
Join(r) ==
  /\ pc[r] = "miss"
  /\ inProgress[key[r]] # None
  /\ awaited' = [awaited EXCEPT ![r] = inProgress[key[r]]]
  /\ pc' = [pc EXCEPT ![r] = "waiting"]
  /\ UNCHANGED <<file, key, got, slots, faults>>

(* Mutant: a newcomer takes a slot without counting it.                    *)
AcquireUncounted(r) ==
  IF active < Slots
    THEN /\ job' = [job EXCEPT ![r] = "ready"]
         /\ active' = IF queue = <<>> THEN active + 1 ELSE active
         /\ UNCHANGED queue
    ELSE /\ job' = [job EXCEPT ![r] = "ready"]
         /\ UNCHANGED <<active, queue>>

(* acquireJobSlot: a free slot at once, or a place in the queue.           *)
Acquire(r) ==
  IF active < Slots
    THEN /\ job' = [job EXCEPT ![r] = "ready"]
         /\ active' = active + 1
         /\ UNCHANGED queue
    ELSE /\ job' = [job EXCEPT ![r] = "queued"]
         /\ queue' = Append(queue, r)
         /\ UNCHANGED active

(* ... or started and entered in the map, in the same callback.            *)
Start(r) ==
  /\ pc[r] = "miss"
  /\ inProgress[key[r]] = None
  /\ Acquire(r)
  /\ inProgress' = [inProgress EXCEPT ![key[r]] = r]
  /\ awaited' = [awaited EXCEPT ![r] = r]
  /\ pc' = [pc EXCEPT ![r] = "waiting"]
  /\ UNCHANGED <<file, key, got, faults>>

-----------------------------------------------------------------------------
(* sharp opens its output.                                                 *)
Write(j) ==
  /\ job[j] = "ready"
  /\ job' = [job EXCEPT ![j] = "writing"]
  /\ file' = [file EXCEPT ![key[j]] = "partial"]
  /\ UNCHANGED <<handlers, inProgress, active, queue, faults>>

(* Mutant: a slot freed while others wait is not handed over.              *)
ReleaseForgetsQueue(j) ==
  /\ job' = [job EXCEPT ![j] = "over"]
  /\ active' = active - 1
  /\ UNCHANGED queue

(* releaseJobSlot: the slot passes to the first in the queue, or is free.  *)
Release(j) ==
  IF queue # <<>>
    THEN /\ job' = [job EXCEPT ![j] = "over", ![Head(queue)] = "ready"]
         /\ queue' = Tail(queue)
         /\ UNCHANGED active
    ELSE /\ job' = [job EXCEPT ![j] = "over"]
         /\ active' = active - 1
         /\ UNCHANGED queue

(* finally: the slot, the map, and those who await the job, in one go.     *)
Settle(j, stage) ==
  /\ Release(j)
  /\ inProgress' = [inProgress EXCEPT ![key[j]] = None]
  /\ pc' = [r \in Requests |-> IF pc[r] = "waiting" /\ awaited[r] = j THEN stage ELSE pc[r]]
  /\ UNCHANGED <<key, awaited, got>>

(* A file unlinked while it is written stays unlinked.                     *)
Finish(j) ==
  /\ job[j] = "writing"
  /\ file' = [file EXCEPT ![key[j]] = IF @ = "partial" THEN "whole" ELSE @]
  /\ Settle(j, "sending")
  /\ UNCHANGED faults

(* Timeout, unreadable source, full disk: what is written stays, those who *)
(* await answer with an error.                                             *)
Fail(j) ==
  /\ job[j] \in {"ready", "writing"}
  /\ Fault
  /\ Settle(j, "answered")
  /\ UNCHANGED file

(* serveImage opens the file later; without it, an error.                  *)
Send(r) ==
  /\ pc[r] = "sending"
  /\ pc' = [pc EXCEPT ![r] = "answered"]
  /\ got' = [got EXCEPT ![r] = file[key[r]]]
  /\ UNCHANGED <<file, key, awaited, slots, faults>>

(* pruneImageCache removes any file, old or not: it knows only its age.    *)
Prune(k) ==
  /\ file[k] # "absent"
  /\ file' = [file EXCEPT ![k] = "absent"]
  /\ UNCHANGED <<handlers, slots, faults>>

(* The server dies and starts again: only the files are left.              *)
Restart ==
  /\ Fault
  /\ pc' = [r \in Requests |-> IF pc[r] = "new" THEN "new" ELSE "answered"]
  /\ job' = [r \in Requests |-> IF Alive(r) THEN "over" ELSE job[r]]
  /\ inProgress' = [k \in Keys |-> None]
  /\ active' = 0
  /\ queue' = <<>>
  /\ UNCHANGED <<file, key, awaited, got>>

Handle(r) == Check(r) \/ Hit(r) \/ Join(r) \/ Start(r) \/ Send(r)
Work(j) == Write(j) \/ Finish(j)

Next ==
  \/ \E r \in Requests : Arrive(r) \/ Handle(r) \/ Work(r) \/ Fail(r)
  \/ \E k \in Keys : Prune(k)
  \/ Restart

(* The event loop and sharp go on; nothing else is owed.                   *)
Fairness == \A r \in Requests : WF_vars(Handle(r)) /\ WF_vars(Work(r))

Spec == Init /\ [][Next]_vars
FairSpec == Spec /\ Fairness

-----------------------------------------------------------------------------
TypeOK ==
  /\ file \in [Keys -> FileState]
  /\ pc \in [Requests -> Stage]
  /\ key \in [Requests -> Keys]
  /\ awaited \in [Requests -> Requests \union {None}]
  /\ got \in [Requests -> FileState]
  /\ job \in [Requests -> JobStage]
  /\ inProgress \in [Keys -> Requests \union {None}]
  /\ active \in 0..Slots
  /\ queue \in Seq(Requests)
  /\ faults \in 0..MaxFaults

(* Never more jobs at work than slots, through hand-overs, failures and    *)
(* restarts (releaseJobSlot: no window for a newcomer).                    *)
SlotsRespected == Cardinality(Holders) <= Slots

(* No slot is idle while a job waits: a release that forgot the queue      *)
(* would leave it there for ever.                                          *)
NobodyWaitsForAFreeSlot == queue # <<>> => Cardinality(Holders) = Slots

(* Two jobs never write the same file (inProgress in both routes).         *)
OneJobPerKey ==
  \A i, j \in Requests : Alive(i) /\ Alive(j) /\ key[i] = key[j] => i = j

(* An entry of the map is a job still alive: a failed one is not awaited   *)
(* by later requests (finally, inProgress.delete).                         *)
EntriesAlive ==
  \A k \in Keys : inProgress[k] # None => Alive(inProgress[k]) /\ key[inProgress[k]] = k

(* The semaphore and the map of the jobs stay right together, whatever     *)
(* fails or restarts: slots exact, nobody waiting beside a free one, one   *)
(* writer per file, no dead entry (image-jobs.ts, cdn-asset.ts).           *)
JobsSafe == SlotsRespected /\ NobodyWaitsForAFreeSlot /\ OneJobPerKey /\ EntriesAlive

(* The documented promise (cdn-asset.ts:21): concurrent requests for a key *)
(* reuse its job.  None is served the file the job is still writing, nor   *)
(* what a failed job has left.                                             *)
NoPartialImage == \A r \in Requests : got[r] # "partial"

(* Every request is answered, even when jobs fail and the server restarts. *)
RequestsAnswered == \A r \in Requests : pc[r] = "checking" ~> pc[r] = "answered"

-----------------------------------------------------------------------------
(* Why it holds.                                                           *)
QueueIsQueued ==
  /\ \A i \in 1..Len(queue) : job[queue[i]] = "queued"
  /\ \A i, j \in 1..Len(queue) : queue[i] = queue[j] => i = j
  /\ \A r \in Requests : job[r] = "queued" => \E i \in 1..Len(queue) : queue[i] = r

ActiveCountsHolders == active = Cardinality(Holders)
QueueOnlyWhenFull == queue # <<>> => active = Slots
JobsListed == \A j \in Requests : Alive(j) => inProgress[key[j]] = j
UnstartedHaveNoJob == \A r \in Requests : pc[r] \in {"new", "checking", "hit", "miss"} => job[r] = "none"

IInv ==
  /\ TypeOK
  /\ QueueIsQueued
  /\ IsFiniteSet(Holders)
  /\ ActiveCountsHolders
  /\ QueueOnlyWhenFull
  /\ JobsListed
  /\ EntriesAlive
  /\ UnstartedHaveNoJob
=============================================================================
