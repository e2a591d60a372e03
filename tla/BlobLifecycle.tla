--------------------------- MODULE BlobLifecycle ---------------------------
(***************************************************************************)
(* Life of an uploaded file in the backend: the files under uploads/       *)
(* (FileBlobStore), the ownership registry in SQLite                       *)
(* (BlobOwnershipRegistry), the requests that run over both (AppBlobStore  *)
(* behind EngineBlobController), the erasure of a user's personal data     *)
(* (DELETE /me/data), the in-memory revocation of the sessions, and the    *)
(* start-up sweep of Program.cs.                                           *)
(*                                                                         *)
(* A request is a process: every await of the handler, and every call on   *)
(* the file system between which another thread can run, is a step.  The   *)
(* backend may die between any two steps.                                  *)
(***************************************************************************)
EXTENDS Naturals, FiniteSets

CONSTANTS
  Slugs,      \* names a file can get: a fresh GUID per save
  Users,      \* SessionInfo.UserId
  Admins,     \* the users whose session carries the role "admin"
  Requests,   \* the HTTP requests of a behaviour, each used once
  Legacy,     \* files already in uploads/ at the first start
  NoSlug,     \* a request that names no slug
  MaxLogins,  \* bound: logins per user
  MaxFaults   \* bound: crashes, I/O errors, cancellations and database errors

ASSUME BlobAssumption ==
  /\ Admins \subseteq Users
  /\ Legacy \subseteq Slugs
  /\ NoSlug \notin Slugs
  /\ Users # {} /\ "nobody" \notin Users
  /\ MaxLogins \in Nat \ {0}
  /\ MaxFaults \in Nat

VARIABLES
  disk,         \* [Slugs -> FileState], the files under uploads/
  registry,     \* [Slugs -> row], the table BlobOwnerships; Location = Slug
  known,        \* the slugs some client has been told
  pc,           \* [Requests -> Stage], where each handler is
  job,          \* [Requests -> Job], what each request asks and for whom
  new,          \* [Requests -> slug], the file a save has created
  login,        \* [Users -> Nat], number of the newest token of each user
  revoked,      \* [Users -> Nat], newest token refused, 0 = none (in memory)
  overlap,      \* requests past authentication while their user is erased
  phase,        \* the process: "down", "sweeping" or "up"
  pending,      \* locations the running sweep has still to remove
  stuck,        \* files whose removal failed since the last start
  faults        \* number of faults so far

files    == <<disk, registry, stuck>>
sessions == <<login, revoked, overlap>>
process  == <<phase, pending, faults>>
vars     == <<files, known, pc, job, new, sessions, process>>

-----------------------------------------------------------------------------
(* Rows of the registry. An author is a user id; the erasure replaces the  *)
(* id by a random one, so named says whether the stored text is still the  *)
(* real id.  id remembers who it was, for the properties only.             *)

Author == [id : Users, named : BOOLEAN]
Named(u) == [id |-> u, named |-> TRUE]
Nobody == [id |-> "nobody", named |-> FALSE]
NoRow == [owner |-> Nobody, deletedBy |-> Nobody]
NewRow(u) == [owner |-> Named(u), deletedBy |-> Nobody]
Row == [owner : Author, deletedBy : Author \union {Nobody}]

HasRow(s) == registry[s] # NoRow
MarkedDeleted(s) == registry[s].deletedBy # Nobody
Present(s) == HasRow(s) /\ registry[s].deletedBy = Nobody

FileState == {"absent", "partial", "whole"}
Kinds == {"upload", "replace", "delete", "erase"}
Job == [kind : Kinds, user : Users, token : 0..MaxLogins, old : Slugs \union {NoSlug}]
NoJob == [kind |-> "upload", user |-> CHOOSE u \in Users : TRUE, token |-> 0, old |-> NoSlug]
Done == {"ok", "failed"}
Active == {"info", "authorize", "create", "copy", "record", "probe", "mark",
           "recheck", "unlink", "anonymize", "account", "revoke"}
Stage == {"idle"} \union Active \union Done

Running(r) == pc[r] \in Active
User(r) == job[r].user
Old(r) == job[r].old

(* GUIDs do not repeat: a save never meets a name in use.                  *)
FreshSlug(s) ==
  /\ disk[s] = "absent"
  /\ ~HasRow(s)
  /\ s \notin known

Goto(r, stage) == pc' = [pc EXCEPT ![r] = stage]

(* A failing await makes the handler throw: the request ends there.        *)
Fault == faults < MaxFaults /\ faults' = faults + 1

-----------------------------------------------------------------------------
(* uploads/ and db/ survive from the earlier runs of the program: files    *)
(* older than the registry have no row.                                    *)
Init ==
  /\ disk = [s \in Slugs |-> IF s \in Legacy THEN "whole" ELSE "absent"]
  /\ \E owned \in SUBSET Legacy, by \in [Legacy -> Users] :
       registry = [s \in Slugs |->
                     IF s \in owned THEN NewRow(by[s]) ELSE NoRow]
  /\ known = Legacy
  /\ pc = [r \in Requests |-> "idle"]
  /\ job = [r \in Requests |-> NoJob]
  /\ new = [r \in Requests |-> NoSlug]
  /\ login = [u \in Users |-> 1]
  /\ revoked = [u \in Users |-> 0]
  /\ overlap = {}
  /\ phase = "down"
  /\ pending = {}
  /\ stuck = {}
  /\ faults = 0

-----------------------------------------------------------------------------
(* Sessions.                                                               *)

(* POST /auth/login: a token newer than every revocation so far.           *)
Login(u) ==
  /\ phase = "up"
  /\ login[u] < MaxLogins
  /\ login' = [login EXCEPT ![u] = @ + 1]
  /\ UNCHANGED <<files, known, pc, job, new, revoked, overlap, process>>

(* Mutant: the token of the very second of the revocation still passes.    *)
StrictIsRevoked(u, token) == token < revoked[u]

(* OnTokenValidated runs before the body is read and the action called; a  *)
(* token covered by a revocation gets 401 and reaches no handler.          *)
IsRevoked(u, token) == token <= revoked[u]

(* An erasure of u has anonymised the registry and not revoked u yet.      *)
ErasureOpen(u) ==
  \E e \in Requests : User(e) = u /\ pc[e] \in {"account", "revoke"}

FirstStage(kind) ==
  CASE kind = "upload"  -> "create"
    [] kind = "replace" -> "info"
    [] kind = "delete"  -> "authorize"
    [] kind = "erase"   -> "anonymize"

Begin(r, kind, u, token, s) ==
  /\ phase = "up"
  /\ pc[r] = "idle"
  /\ token \in 1..login[u]
  /\ ~IsRevoked(u, token)
  /\ IF kind \in {"replace", "delete"} THEN s \in known ELSE s = NoSlug
  /\ job' = [job EXCEPT ![r] = [kind |-> kind, user |-> u, token |-> token, old |-> s]]
  /\ Goto(r, FirstStage(kind))
  /\ overlap' = IF ErasureOpen(u) THEN overlap \union {r} ELSE overlap
  /\ UNCHANGED <<files, known, new, login, revoked, process>>

(* GET /me/data: the slugs of u's present blobs become known to u.         *)
Export(u) ==
  /\ phase = "up"
  /\ \E token \in 1..login[u] : ~IsRevoked(u, token)
  /\ known' = known \union {s \in Slugs : Present(s) /\ registry[s].owner = Named(u)}
  /\ UNCHANGED <<files, pc, job, new, sessions, process>>

-----------------------------------------------------------------------------
(* Replace, before it saves: 404 on a missing slug, then the owner check.  *)

(* Mutant: the owner check of the old blob is forgotten.                   *)
InfoSkipsOwner(r) ==
  /\ pc[r] = "info"
  /\ Goto(r, IF disk[Old(r)] = "absent" THEN "failed" ELSE "create")
  /\ UNCHANGED <<files, known, job, new, sessions, process>>

Info(r) ==
  /\ pc[r] = "info"
  /\ Goto(r, IF disk[Old(r)] = "absent" THEN "failed" ELSE "authorize")
  /\ UNCHANGED <<files, known, job, new, sessions, process>>

(* EnsureAuthorizedAsync: no registered owner blocks nobody.               *)
Allowed(u, s) ==
  \/ ~HasRow(s)
  \/ registry[s].owner = Named(u)
  \/ u \in Admins

Authorize(r) ==
  /\ pc[r] = "authorize"
  /\ Goto(r, IF ~Allowed(User(r), Old(r)) THEN "failed"
             ELSE IF job[r].kind = "delete" THEN "probe" ELSE "create")
  /\ UNCHANGED <<files, known, job, new, sessions, process>>

-----------------------------------------------------------------------------
(* SaveAsync: file first, row second.                                      *)

Create(r) ==
  /\ pc[r] = "create"
  /\ \E s \in Slugs :
       /\ FreshSlug(s)
       /\ disk' = [disk EXCEPT ![s] = "partial"]
       /\ new' = [new EXCEPT ![r] = s]
  /\ Goto(r, "copy")
  /\ UNCHANGED <<registry, stuck, known, job, sessions, process>>

Copy(r) ==
  /\ pc[r] = "copy"
  /\ disk' = [disk EXCEPT ![new[r]] = "whole"]
  /\ Goto(r, "record")
  /\ UNCHANGED <<registry, stuck, known, job, new, sessions, process>>

(* Client gone or disk full: the partial file is deleted, best effort.     *)
CopyFails(r) ==
  /\ pc[r] = "copy"
  /\ Fault
  /\ \E left \in {"absent", "partial"} : disk' = [disk EXCEPT ![new[r]] = left]
  /\ Goto(r, "failed")
  /\ UNCHANGED <<registry, stuck, known, job, new, sessions, phase, pending>>

(* RecordUploadAsync commits the row with the id in the token. An upload   *)
(* answers with the slug; a replace goes on with the old blob.             *)
Record(r) ==
  /\ pc[r] = "record"
  /\ registry' = [registry EXCEPT ![new[r]] = NewRow(User(r))]
  /\ IF job[r].kind = "upload"
       THEN Goto(r, "ok") /\ known' = known \union {new[r]}
       ELSE Goto(r, "probe") /\ UNCHANGED known
  /\ UNCHANGED <<disk, stuck, job, new, sessions, process>>

(* Mutant: a failed row is ignored and the replace goes on.                *)
RecordFailsQuietly(r) ==
  /\ pc[r] = "record"
  /\ Fault
  /\ Goto(r, IF job[r].kind = "replace" THEN "probe" ELSE "failed")
  /\ UNCHANGED <<files, known, job, new, sessions, phase, pending>>

(* Client gone or database error: the file stays, without a row.           *)
RecordFails(r) ==
  /\ pc[r] = "record"
  /\ Fault
  /\ Goto(r, "failed")
  /\ UNCHANGED <<files, known, job, new, sessions, phase, pending>>

-----------------------------------------------------------------------------
(* MarkDeletedAndDeleteAsync: exists?, commit the mark, exists?, unlink.   *)

(* A replace ignores the result of the deletion and answers 200 with the   *)
(* new slug; a delete answers 404 when it removed nothing.                 *)
Answer(r, removed) ==
  /\ Goto(r, IF removed \/ job[r].kind = "replace" THEN "ok" ELSE "failed")
  /\ known' = IF job[r].kind = "replace" THEN known \union {new[r]} ELSE known

(* Mutant: the file goes before the commit of the mark.                    *)
ProbeSkipsMark(r) ==
  /\ pc[r] = "probe"
  /\ IF disk[Old(r)] = "absent"
       THEN Answer(r, FALSE)
       ELSE Goto(r, "unlink") /\ UNCHANGED known
  /\ UNCHANGED <<files, job, new, sessions, process>>

Probe(r) ==
  /\ pc[r] = "probe"
  /\ IF disk[Old(r)] = "absent"
       THEN Answer(r, FALSE)
       ELSE Goto(r, "mark") /\ UNCHANGED known
  /\ UNCHANGED <<files, job, new, sessions, process>>

(* Mutant: the row is removed instead of marked.                           *)
MarkRemovesRow(r) ==
  /\ pc[r] = "mark"
  /\ registry' = [registry EXCEPT ![Old(r)] = NoRow]
  /\ Goto(r, "recheck")
  /\ UNCHANGED <<disk, stuck, known, job, new, sessions, process>>

(* MarkDeletedAsync overwrites DeletedBy; without a row it does nothing.   *)
Mark(r) ==
  /\ pc[r] = "mark"
  /\ registry' = IF HasRow(Old(r))
                   THEN [registry EXCEPT ![Old(r)].deletedBy = Named(User(r))]
                   ELSE registry
  /\ Goto(r, "recheck")
  /\ UNCHANGED <<disk, stuck, known, job, new, sessions, process>>

MarkFails(r) ==
  /\ pc[r] = "mark"
  /\ Fault
  /\ Goto(r, "failed")
  /\ UNCHANGED <<files, known, job, new, sessions, phase, pending>>

(* Mutant: nobody answers when another request removed the file first.     *)
RecheckHangs(r) ==
  /\ pc[r] = "recheck"
  /\ disk[Old(r)] # "absent"
  /\ Goto(r, "unlink")
  /\ UNCHANGED <<files, known, job, new, sessions, process>>

Recheck(r) ==
  /\ pc[r] = "recheck"
  /\ IF disk[Old(r)] = "absent"
       THEN Answer(r, FALSE)
       ELSE Goto(r, "unlink") /\ UNCHANGED known
  /\ UNCHANGED <<files, job, new, sessions, process>>

(* File.Delete on a file that is already gone does nothing.                *)
Unlink(r) ==
  /\ pc[r] = "unlink"
  /\ disk' = [disk EXCEPT ![Old(r)] = "absent"]
  /\ Answer(r, TRUE)
  /\ UNCHANGED <<registry, stuck, job, new, sessions, process>>

(* Mutant: the I/O error is swallowed and the deletion reported done.      *)
UnlinkFailsQuietly(r) ==
  /\ pc[r] = "unlink"
  /\ disk[Old(r)] # "absent"
  /\ Fault
  /\ stuck' = stuck \union {Old(r)}
  /\ Answer(r, TRUE)
  /\ UNCHANGED <<disk, registry, job, new, sessions, phase, pending>>

UnlinkFails(r) ==
  /\ pc[r] = "unlink"
  /\ disk[Old(r)] # "absent"
  /\ Fault
  /\ stuck' = stuck \union {Old(r)}
  /\ Goto(r, "failed")
  /\ UNCHANGED <<disk, registry, known, job, new, sessions, phase, pending>>

-----------------------------------------------------------------------------
(* DELETE /me/data.                                                        *)

Forget(author, u) == IF author = Named(u) THEN [author EXCEPT !.named = FALSE] ELSE author

(* AnonymizeUserAsync: both columns in one transaction.                    *)
Anonymize(r) ==
  /\ pc[r] = "anonymize"
  /\ registry' = [s \in Slugs |->
                    [owner     |-> Forget(registry[s].owner, User(r)),
                     deletedBy |-> Forget(registry[s].deletedBy, User(r))]]
  /\ overlap' = overlap \union {q \in Requests : Running(q) /\ User(q) = User(r)}
  /\ Goto(r, "account")
  /\ UNCHANGED <<disk, stuck, known, job, new, login, revoked, process>>

(* The transaction rolls back, or DeleteAccountAsync throws.               *)
EraseFails(r) ==
  /\ pc[r] \in {"anonymize", "account"}
  /\ Fault
  /\ Goto(r, "failed")
  /\ UNCHANGED <<files, known, job, new, sessions, phase, pending>>

(* DeleteAccountAsync: the demo account is a constant, nothing to remove.  *)
DeleteAccount(r) ==
  /\ pc[r] = "account"
  /\ Goto(r, "revoke")
  /\ UNCHANGED <<files, known, job, new, sessions, process>>

(* Revoke: every token of the user issued up to now.                       *)
Revoke(r) ==
  /\ pc[r] = "revoke"
  /\ revoked' = [revoked EXCEPT ![User(r)] = login[User(r)]]
  /\ Goto(r, "ok")
  /\ UNCHANGED <<files, known, job, new, login, overlap, process>>

-----------------------------------------------------------------------------
(* The process.                                                            *)

(* Running requests are lost, and with them the revocations, in memory.    *)
Crash ==
  /\ phase # "down"
  /\ Fault
  /\ phase' = "down"
  /\ pc' = [r \in Requests |-> IF Running(r) THEN "failed" ELSE pc[r]]
  /\ revoked' = [u \in Users |-> 0]
  /\ pending' = {}
  /\ UNCHANGED <<files, known, job, new, login, overlap>>

(* Mutant: no sweep at start-up.                                           *)
StartupWithoutSweep ==
  /\ phase = "down"
  /\ phase' = "sweeping"
  /\ pending' = {}
  /\ stuck' = {}
  /\ UNCHANGED <<disk, registry, known, pc, job, new, sessions, faults>>

(* Mutant: the sweep takes every file the registry does not say present.   *)
StartupSweepsUntracked ==
  /\ phase = "down"
  /\ phase' = "sweeping"
  /\ pending' = {s \in Slugs : ~Present(s)}
  /\ stuck' = {}
  /\ UNCHANGED <<disk, registry, known, pc, job, new, sessions, faults>>

(* CleanupOrphanedFilesAsync reads the deleted locations ...               *)
Startup ==
  /\ phase = "down"
  /\ phase' = "sweeping"
  /\ pending' = {s \in Slugs : MarkedDeleted(s)}
  /\ stuck' = {}
  /\ UNCHANGED <<disk, registry, known, pc, job, new, sessions, faults>>

(* ... and removes them one by one; an I/O error is swallowed.             *)
Sweep(s) ==
  /\ s \in pending
  /\ disk' = [disk EXCEPT ![s] = "absent"]
  /\ pending' = pending \ {s}
  /\ UNCHANGED <<registry, stuck, known, pc, job, new, sessions, phase, faults>>

SweepFails(s) ==
  /\ s \in pending
  /\ disk[s] # "absent"
  /\ Fault
  /\ pending' = pending \ {s}
  /\ stuck' = stuck \union {s}
  /\ UNCHANGED <<disk, registry, known, pc, job, new, sessions, phase>>

(* Requests are served only after the sweep.                               *)
Serve ==
  /\ phase = "sweeping"
  /\ pending = {}
  /\ phase' = "up"
  /\ UNCHANGED <<files, known, pc, job, new, sessions, pending, faults>>

-----------------------------------------------------------------------------
Proceed(r) ==
  \/ Info(r) \/ Authorize(r)
  \/ Create(r) \/ Copy(r) \/ Record(r)
  \/ Probe(r) \/ Mark(r) \/ Recheck(r) \/ Unlink(r)
  \/ Anonymize(r) \/ DeleteAccount(r) \/ Revoke(r)

Fail(r) ==
  CopyFails(r) \/ RecordFails(r) \/ MarkFails(r) \/ UnlinkFails(r) \/ EraseFails(r)

Start(r) ==
  \E kind \in Kinds, u \in Users, token \in 1..MaxLogins, s \in Slugs \union {NoSlug} :
    Begin(r, kind, u, token, s)

Next ==
  \/ \E r \in Requests : Start(r) \/ Proceed(r) \/ Fail(r)
  \/ \E u \in Users : Login(u) \/ Export(u)
  \/ \E s \in Slugs : Sweep(s) \/ SweepFails(s)
  \/ Crash \/ Startup \/ Serve

(* Handlers, the start-up code and the container's restart policy run on   *)
(* their own; clients, logins and faults owe nothing.                      *)
Fairness ==
  /\ \A r \in Requests : WF_vars(Proceed(r))
  /\ \A s \in Slugs : WF_vars(Sweep(s))
  /\ WF_vars(Startup)
  /\ WF_vars(Serve)

Spec == Init /\ [][Next]_vars
FairSpec == Spec /\ Fairness

-----------------------------------------------------------------------------
TypeOK ==
  /\ disk \in [Slugs -> FileState]
  /\ registry \in [Slugs -> Row \union {NoRow}]
  /\ known \in SUBSET Slugs
  /\ pc \in [Requests -> Stage]
  /\ job \in [Requests -> Job]
  /\ new \in [Requests -> Slugs \union {NoSlug}]
  /\ login \in [Users -> 1..MaxLogins]
  /\ revoked \in [Users -> 0..MaxLogins]
  /\ overlap \in SUBSET Requests
  /\ phase \in {"down", "sweeping", "up"}
  /\ pending \in SUBSET Slugs
  /\ stuck \in SUBSET Slugs
  /\ faults \in 0..MaxFaults

(* What the code promises.                                                 *)

(* The database never says "present" of a file that is gone                *)
(* (MarkDeletedAndDeleteAsync, AppBlobStore.cs:67): a row without a mark   *)
(* has its whole file, whatever deletes, replaces, crashes and sweeps run. *)
PresentRowHasFile ==
  \A s \in Slugs : Present(s) => disk[s] = "whole"

(* Once the sweep is over, a file the registry says deleted is on disk     *)
(* only while its request is about to remove it, or because the removal    *)
(* failed since this start: a crash leaves nothing behind                  *)
(* (CleanupOrphanedFilesAsync and the start-up of Program.cs).             *)
DeletedFilesAreSwept ==
  phase = "up" =>
    \A s \in Slugs : MarkedDeleted(s) /\ disk[s] # "absent" =>
      \/ s \in stuck
      \/ \E r \in Requests : Old(r) = s /\ pc[r] \in {"recheck", "unlink"}

(* An answer of success is true and stays true: a deleted or replaced slug *)
(* has no file, an uploaded or replacing one has its row, and nothing      *)
(* brings a removed file back (EngineBlobController Upload, Delete, Replace).   *)
AnswersHold ==
  \A r \in Requests : pc[r] = "ok" =>
    /\ job[r].kind \in {"delete", "replace"} => disk[Old(r)] = "absent"
    /\ job[r].kind \in {"upload", "replace"} => HasRow(new[r])

(* A replace saves before it deletes: when it unlinks the old file its new *)
(* blob is on disk and registered, unless somebody has deleted that one in *)
(* turn (ReplaceAsync: if the save fails the old blob stays intact).       *)
ReplaceKeepsOneCopy ==
  \A r \in Requests :
    job[r].kind = "replace" /\ pc[r] \in {"probe", "mark", "recheck", "unlink"} =>
    /\ HasRow(new[r])
    /\ disk[new[r]] = "whole" \/ MarkedDeleted(new[r])

(* Only who uploaded a blob, or an admin, ever marks it deleted, even when *)
(* the check and the mark are separated by an erasure of the uploader      *)
(* (EnsureAuthorizedAsync, MarkDeletedAsync).                              *)
OnlyOwnerOrAdminDeletes ==
  \A s \in Slugs : MarkedDeleted(s) =>
    \/ registry[s].deletedBy.id = registry[s].owner.id
    \/ registry[s].deletedBy.id \in Admins

(* A file without a row is removed by a request that names it, never by    *)
(* the sweep (CleanupOrphanedFilesAsync: a blob without a row is not       *)
(* touched).                                                               *)
SweepSparesUntracked ==
  [][phase = "sweeping" =>
       \A s \in Slugs : ~HasRow(s) => disk'[s] = disk[s]]_vars

Names(s, u) == Named(u) \in {registry[s].owner, registry[s].deletedBy}
WroteTo(r, s) == s \in {new[r], Old(r)}

(* While the process remembers the revocation, a row that names an erased  *)
(* user was written by a request with a token issued later, or by one that *)
(* was already past authentication when the erasure began or slipped in    *)
(* between its two steps (EraseAsync then Revoke).                         *)
ErasureForgets ==
  \A u \in Users, s \in Slugs : revoked[u] > 0 /\ Names(s, u) =>
    \E r \in Requests :
      /\ User(r) = u /\ WroteTo(r, s)
      /\ job[r].token > revoked[u] \/ r \in overlap

(* The documented promise (EngineDataPrivacyController.cs:31,              *)
(* backend/README.md:352): after the erasure no write with an older token  *)
(* can register the real id again.                                         *)
ErasedIdNotRecorded ==
  \A u \in Users, s \in Slugs : revoked[u] > 0 /\ Names(s, u) =>
    \E r \in Requests :
      User(r) = u /\ WroteTo(r, s) /\ job[r].token > revoked[u]

(* A file marked deleted is eventually removed, through crashes, unless    *)
(* its removal failed with an I/O error since the start.                   *)
DeletedFileEventuallyGone ==
  \A s \in Slugs : MarkedDeleted(s) ~> (disk[s] = "absent" \/ s \in stuck)

(* Every request ends, and the process comes back after a crash.           *)
RequestsEnd ==
  \A r \in Requests : Running(r) ~> pc[r] \in Done

-----------------------------------------------------------------------------
(* Why it holds: the parts that make PresentRowHasFile inductive.          *)

Saving == {"copy", "record"}
Removing == {"probe", "mark", "recheck", "unlink"}

(* The kinds of request that reach each stage.                             *)
StagesFitKinds ==
  \A r \in Requests :
    /\ pc[r] \in Removing \union {"info", "authorize"} => job[r].kind \in {"replace", "delete"}
    /\ pc[r] = "info" => job[r].kind = "replace"
    /\ pc[r] \in Saving \union {"create"} => job[r].kind \in {"upload", "replace"}

(* A client names only slugs it was told.                                  *)
TargetsKnown ==
  \A r \in Requests : job[r].kind \in {"replace", "delete"} => Old(r) \in known

(* A file being saved is out of everybody's sight: no client knows it, no  *)
(* row names it, no other save writes it.                                  *)
SavesHidden ==
  \A r \in Requests : pc[r] \in Saving =>
    /\ new[r] \in Slugs \ known
    /\ ~HasRow(new[r])
    /\ disk[new[r]] = IF pc[r] = "copy" THEN "partial" ELSE "whole"

SavesDisjoint ==
  \A q, r \in Requests : pc[q] \in Saving /\ pc[r] \in Saving /\ new[q] = new[r] => q = r

(* A replace deletes the old blob only after the new one has its row.      *)
ReplacesRecorded ==
  \A r \in Requests : job[r].kind = "replace" /\ pc[r] \in Removing =>
    new[r] \in Slugs /\ HasRow(new[r])

(* Past the commit of the mark the registry no longer says present.        *)
RemovalsCommitted ==
  \A r \in Requests : pc[r] \in {"recheck", "unlink"} => ~Present(Old(r))

PendingMarked == \A s \in pending : MarkedDeleted(s)

IInv ==
  /\ TypeOK
  /\ StagesFitKinds
  /\ TargetsKnown
  /\ SavesHidden
  /\ SavesDisjoint
  /\ ReplacesRecorded
  /\ RemovalsCommitted
  /\ PendingMarked
  /\ PresentRowHasFile

-----------------------------------------------------------------------------
(* Why the properties of the deletions hold: what is added to IInv.        *)

(* Requests run only while the process serves.                             *)
QuietUnlessUp == phase # "up" => \A r \in Requests : ~Running(r)

(* What is deleted and still on disk is somebody's task: of the sweep, of  *)
(* a request past its mark, or of the next start.                          *)
SweepCovers ==
  phase = "sweeping" =>
    \A s \in Slugs : MarkedDeleted(s) /\ disk[s] # "absent" => s \in pending \union stuck

(* From the owner check to the mark the request stays entitled: an erasure *)
(* hides the owner's id, it does not change whose blob it was, and the     *)
(* slug of a checked blob never gets another row.                          *)
Checked == {"create", "copy", "record", "probe", "mark"}
RemovalsEntitled ==
  \A r \in Requests :
    job[r].kind \in {"replace", "delete"} /\ pc[r] \in Checked /\ HasRow(Old(r)) =>
      registry[Old(r)].owner.id = User(r) \/ User(r) \in Admins

(* Names in use at the first start are known, so no save mints them.       *)
LegacyKnown == Legacy \subseteq known

DInv ==
  /\ IInv
  /\ QuietUnlessUp
  /\ SweepCovers
  /\ DeletedFilesAreSwept
  /\ RemovalsEntitled
  /\ OnlyOwnerOrAdminDeletes
  /\ LegacyKnown

-----------------------------------------------------------------------------
(* Why the answers stay true and the erasure forgets.                      *)

ErasuresFit == \A r \in Requests : pc[r] \in {"anonymize", "account", "revoke"} => job[r].kind = "erase"

SavesAnswered ==
  \A r \in Requests : pc[r] = "ok" /\ job[r].kind \in {"upload", "replace"} => new[r] \in Slugs

AInv == IInv /\ ErasuresFit /\ SavesAnswered /\ AnswersHold

(* A request saves once, and who has not come yet has written nothing.     *)
RequestsComeOnce ==
  \A r \in Requests :
    /\ pc[r] = "idle" => r \notin overlap /\ job[r].token = 0
    /\ pc[r] \in {"idle", "info", "authorize", "create"} => new[r] = NoSlug

(* Between the two steps of an erasure all that runs for the user, and all *)
(* that names the user again, is known to overlap it.                      *)
OpenErasuresSee ==
  \A u \in Users : ErasureOpen(u) =>
    /\ \A r \in Requests : Running(r) /\ User(r) = u => r \in overlap
    /\ \A s \in Slugs : Names(s, u) => \E r \in overlap : User(r) = u /\ WroteTo(r, s)

(* Who runs after a revocation has a newer token, or came before it.       *)
RunsAreAllowed ==
  \A r \in Requests : Running(r) /\ revoked[User(r)] > 0 =>
    job[r].token > revoked[User(r)] \/ r \in overlap

EInv == IInv /\ RequestsComeOnce /\ OpenErasuresSee /\ RunsAreAllowed /\ ErasureForgets

-----------------------------------------------------------------------------
(* A blob is published when its row is committed and deleted when the row  *)
(* is marked; a legacy file without a row lives as long as the file.       *)
Status(s) ==
  IF HasRow(s) THEN IF MarkedDeleted(s) THEN "deleted" ELSE "present"
  ELSE IF s \in Legacy THEN IF disk[s] = "absent" THEN "deleted" ELSE "present"
  ELSE "unborn"

Catalog == INSTANCE BlobCatalog WITH status <- [s \in Slugs |-> Status(s)]

(* The store implements the catalogue: no interleaving of requests, crash  *)
(* or sweep publishes a name twice or brings a deleted one back.           *)
ImplementsCatalog == Catalog!Spec
=============================================================================
