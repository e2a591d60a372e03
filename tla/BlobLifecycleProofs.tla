------------------------ MODULE BlobLifecycleProofs ------------------------
(***************************************************************************)
(* Proofs about BlobLifecycle, for every set of slugs, users and requests  *)
(* and every bound on logins and faults.  The inductive invariant is IInv; *)
(* the lemmas named after the actions show that each of them keeps it.     *)
(* The second half is about what the requests achieve and leave behind:    *)
(* who may delete, what a deletion leaves on disk, what the sweep spares,  *)
(* that answers stay true, what an erasure forgets, and that the store     *)
(* implements the catalogue.  It rests on one observation, RowsPersist: a  *)
(* row is never removed, never changes its author's identity, and never    *)
(* appears under a name a client knows.                                    *)
(***************************************************************************)
EXTENDS BlobLifecycle, TLAPS

-----------------------------------------------------------------------------
(* Rows.                                                                   *)

LEMMA NewRowFacts ==
  ASSUME NEW u \in Users
  PROVE  /\ Named(u) \in Author /\ Named(u) # Nobody
         /\ NewRow(u) \in Row /\ NewRow(u) # NoRow
         /\ NewRow(u).deletedBy = Nobody
BY DEF Named, Nobody, NewRow, NoRow, Row, Author

LEMMA NobodyIsNoAuthor == Nobody \notin Author /\ NoRow \notin Row
<1>1. \A a \in Author : a.id \in Users
  BY DEF Author
<1>2. Nobody.id \notin Users
  BY BlobAssumption DEF Nobody
<1>3. \A row \in Row : row.owner \in Author
  BY DEF Row
<1> QED
  BY <1>1, <1>2, <1>3 DEF NoRow

LEMMA ForgetFacts ==
  ASSUME NEW u \in Users, NEW a \in Author \union {Nobody}
  PROVE  /\ Forget(a, u) \in Author \union {Nobody}
         /\ Forget(a, u) = Nobody <=> a = Nobody
<1>1. CASE a = Named(u)
  <2>1. Forget(a, u) = [id |-> u, named |-> FALSE]
    BY <1>1 DEF Forget, Named
  <2> QED
    <3>1. Forget(a, u) \in Author
      BY <2>1 DEF Author
    <3> QED
      BY <1>1, <3>1, NewRowFacts, NobodyIsNoAuthor
<1>2. CASE a # Named(u)
  BY <1>2 DEF Forget
<1> QED
  BY <1>1, <1>2

(* A request works for a user, on a slug if its kind has one.              *)
LEMMA JobFacts ==
  ASSUME TypeOK, NEW r \in Requests
  PROVE  /\ User(r) \in Users
         /\ Old(r) \in Slugs \union {NoSlug}
         /\ job[r].kind \in Kinds
BY DEF TypeOK, Job, User, Old

-----------------------------------------------------------------------------
(* Stages that move the request only.                                      *)

LEMMA StartKeeps == ASSUME IInv, NEW r \in Requests, Start(r) PROVE IInv'
BY BlobAssumption DEF Start, Begin, FirstStage, Kinds, Job, 
   IInv, TypeOK, Stage, Active, Done, StagesFitKinds, TargetsKnown, SavesHidden, SavesDisjoint, ReplacesRecorded,
   RemovalsCommitted, PendingMarked, PresentRowHasFile, Saving, Removing,
   HasRow, Present, MarkedDeleted, User, Old, Goto, files, sessions, process

LEMMA InfoKeeps == ASSUME IInv, NEW r \in Requests, Info(r) PROVE IInv'
BY DEF Info, 
   IInv, TypeOK, Stage, Active, Done, StagesFitKinds, TargetsKnown, SavesHidden, SavesDisjoint, ReplacesRecorded,
   RemovalsCommitted, PendingMarked, PresentRowHasFile, Saving, Removing,
   HasRow, Present, MarkedDeleted, User, Old, Goto, files, sessions, process

LEMMA AuthorizeKeeps == ASSUME IInv, NEW r \in Requests, Authorize(r) PROVE IInv'
BY DEF Authorize, Allowed, 
   IInv, TypeOK, Stage, Active, Done, StagesFitKinds, TargetsKnown, SavesHidden, SavesDisjoint, ReplacesRecorded,
   RemovalsCommitted, PendingMarked, PresentRowHasFile, Saving, Removing,
   HasRow, Present, MarkedDeleted, User, Old, Goto, files, sessions, process

LEMMA ProbeKeeps == ASSUME IInv, NEW r \in Requests, Probe(r) PROVE IInv'
BY DEF Probe, Answer, 
   IInv, TypeOK, Stage, Active, Done, StagesFitKinds, TargetsKnown, SavesHidden, SavesDisjoint, ReplacesRecorded,
   RemovalsCommitted, PendingMarked, PresentRowHasFile, Saving, Removing,
   HasRow, Present, MarkedDeleted, User, Old, Goto, files, sessions, process

LEMMA RecheckKeeps == ASSUME IInv, NEW r \in Requests, Recheck(r) PROVE IInv'
BY DEF Recheck, Answer, 
   IInv, TypeOK, Stage, Active, Done, StagesFitKinds, TargetsKnown, SavesHidden, SavesDisjoint, ReplacesRecorded,
   RemovalsCommitted, PendingMarked, PresentRowHasFile, Saving, Removing,
   HasRow, Present, MarkedDeleted, User, Old, Goto, files, sessions, process

LEMMA DeleteAccountKeeps == ASSUME IInv, NEW r \in Requests, DeleteAccount(r) PROVE IInv'
BY DEF DeleteAccount, 
   IInv, TypeOK, Stage, Active, Done, StagesFitKinds, TargetsKnown, SavesHidden, SavesDisjoint, ReplacesRecorded,
   RemovalsCommitted, PendingMarked, PresentRowHasFile, Saving, Removing,
   HasRow, Present, MarkedDeleted, User, Old, Goto, files, sessions, process

(* Saving.                                                                 *)

LEMMA CreateKeeps == ASSUME IInv, NEW r \in Requests, Create(r) PROVE IInv'
BY DEF Create, FreshSlug, 
   IInv, TypeOK, Stage, Active, Done, FileState, StagesFitKinds, TargetsKnown, SavesHidden, SavesDisjoint, ReplacesRecorded,
   RemovalsCommitted, PendingMarked, PresentRowHasFile, Saving, Removing,
   HasRow, Present, MarkedDeleted, User, Old, Goto, files, sessions, process

LEMMA CopyKeeps == ASSUME IInv, NEW r \in Requests, Copy(r) PROVE IInv'
BY DEF Copy, 
   IInv, TypeOK, Stage, Active, Done, FileState, StagesFitKinds, TargetsKnown, SavesHidden, SavesDisjoint, ReplacesRecorded,
   RemovalsCommitted, PendingMarked, PresentRowHasFile, Saving, Removing,
   HasRow, Present, MarkedDeleted, User, Old, Goto, files, sessions, process

LEMMA CopyFailsKeeps == ASSUME IInv, NEW r \in Requests, CopyFails(r) PROVE IInv'
BY BlobAssumption DEF CopyFails, Fault, 
   IInv, TypeOK, Stage, Active, Done, FileState, StagesFitKinds, TargetsKnown, SavesHidden, SavesDisjoint, ReplacesRecorded,
   RemovalsCommitted, PendingMarked, PresentRowHasFile, Saving, Removing,
   HasRow, Present, MarkedDeleted, User, Old, Goto, files, sessions, process

LEMMA RecordFailsKeeps == ASSUME IInv, NEW r \in Requests, RecordFails(r) PROVE IInv'
BY BlobAssumption DEF RecordFails, Fault, 
   IInv, TypeOK, Stage, Active, Done, StagesFitKinds, TargetsKnown, SavesHidden, SavesDisjoint, ReplacesRecorded,
   RemovalsCommitted, PendingMarked, PresentRowHasFile, Saving, Removing,
   HasRow, Present, MarkedDeleted, User, Old, Goto, files, sessions, process

(* The new row names a file that is whole and that nobody else saves; the  *)
(* slug may become known, no request can have named it before.             *)
LEMMA RecordKeeps == ASSUME IInv, NEW r \in Requests, Record(r) PROVE IInv'
<1> DEFINE s == new[r]
<1>1. s \in Slugs /\ s \notin known /\ ~HasRow(s) /\ disk[s] = "whole"
  BY DEF Record, IInv, SavesHidden, Saving
<1>2. job[r].kind \in {"upload", "replace"} /\ User(r) \in Users
  BY JobFacts DEF Record, IInv, StagesFitKinds, Saving
<1>3. /\ registry' = [registry EXCEPT ![s] = NewRow(User(r))]
      /\ pc' = [pc EXCEPT ![r] = IF job[r].kind = "upload" THEN "ok" ELSE "probe"]
      /\ known' = IF job[r].kind = "upload" THEN known \union {s} ELSE known
      /\ UNCHANGED <<disk, stuck, job, new, sessions, process>>
  BY DEF Record, Goto
<1>4. registry[s] = NoRow /\ registry'[s] = NewRow(User(r)) /\ registry' \in [Slugs -> Row \union {NoRow}]
  BY <1>1, <1>2, <1>3, NewRowFacts DEF IInv, TypeOK, HasRow
<1>5. Present(s)' /\ \A t \in Slugs \ {s} : registry'[t] = registry[t]
  BY <1>1, <1>2, <1>3, <1>4, NewRowFacts DEF IInv, TypeOK, HasRow, Present
<1>6. TypeOK'
  BY <1>1, <1>3, <1>4 DEF IInv, TypeOK, Stage, Active, Done, sessions, process
<1>7. StagesFitKinds' /\ TargetsKnown' /\ SavesDisjoint'
  BY <1>2, <1>3 DEF IInv, TypeOK, StagesFitKinds, TargetsKnown, SavesDisjoint, Saving, Removing, Old
<1>8. SavesHidden'
  <2> SUFFICES ASSUME NEW q \in Requests, pc'[q] \in Saving
               PROVE  /\ new'[q] \in Slugs \ known'
                      /\ ~HasRow(new[q])'
                      /\ disk'[new'[q]] = IF pc'[q] = "copy" THEN "partial" ELSE "whole"
    BY DEF SavesHidden
  <2>1. q # r /\ pc'[q] = pc[q] /\ pc[r] = "record"
    BY <1>3 DEF IInv, TypeOK, Saving, Record
  <2>2. new[q] # s /\ new'[q] = new[q]
    BY <1>3, <2>1 DEF IInv, SavesDisjoint, Saving
  <2> QED
    BY <1>3, <1>5, <2>1, <2>2 DEF IInv, SavesHidden, HasRow
<1>9. ReplacesRecorded'
  BY <1>1, <1>3, <1>4, <1>5 DEF IInv, TypeOK, ReplacesRecorded, Removing, HasRow, Present
<1>10. RemovalsCommitted'
  <2> SUFFICES ASSUME NEW q \in Requests, pc'[q] \in {"recheck", "unlink"}
               PROVE  ~Present(Old(q))'
    BY DEF RemovalsCommitted
  <2>1. q # r /\ pc'[q] = pc[q] /\ Old(q)' = Old(q)
    BY <1>3 DEF IInv, TypeOK, Old
  <2>2. Old(q) \in known /\ ~Present(Old(q))
    BY <2>1 DEF IInv, StagesFitKinds, TargetsKnown, RemovalsCommitted, Removing
  <2> QED
    BY <1>1, <1>5, <2>1, <2>2 DEF IInv, TypeOK, Present, HasRow
<1>11. PendingMarked' /\ PresentRowHasFile'
  BY <1>1, <1>3, <1>4, <1>5 DEF IInv, TypeOK, PendingMarked, MarkedDeleted, PresentRowHasFile, Present, HasRow, process, NoRow
<1> QED
  BY <1>6, <1>7, <1>8, <1>9, <1>10, <1>11 DEF IInv

(* Removing.                                                               *)

LEMMA MarkFailsKeeps == ASSUME IInv, NEW r \in Requests, MarkFails(r) PROVE IInv'
BY BlobAssumption DEF MarkFails, Fault, 
   IInv, TypeOK, Stage, Active, Done, StagesFitKinds, TargetsKnown, SavesHidden, SavesDisjoint, ReplacesRecorded,
   RemovalsCommitted, PendingMarked, PresentRowHasFile, Saving, Removing,
   HasRow, Present, MarkedDeleted, User, Old, Goto, files, sessions, process

(* The mark only takes a row from present to deleted.                      *)
LEMMA MarkKeeps == ASSUME IInv, NEW r \in Requests, Mark(r) PROVE IInv'
<1>1. PICK s \in Slugs : s = Old(r)
  BY DEF Mark, IInv, TypeOK, StagesFitKinds, TargetsKnown, Removing
<1>0. User(r) \in Users
  BY JobFacts DEF IInv
<1>2. /\ pc[r] = "mark" /\ pc' = [pc EXCEPT ![r] = "recheck"]
      /\ UNCHANGED <<disk, stuck, known, job, new, sessions, process>>
  BY DEF Mark, Goto
<1>3. \A t \in Slugs \ {s} : registry'[t] = registry[t]
  BY <1>1 DEF Mark, IInv, TypeOK
<1>4. /\ registry'[s] \in Row \union {NoRow}
      /\ HasRow(s)' <=> HasRow(s)
      /\ HasRow(s) => MarkedDeleted(s)'
  <2>1. CASE ~HasRow(s)
    <3>1. registry' = registry /\ registry[s] \in Row \union {NoRow}
      BY <1>1, <2>1 DEF Mark, IInv, TypeOK
    <3> QED
      BY <2>1, <3>1 DEF HasRow
  <2>2. CASE HasRow(s)
    <3>1. registry[s] \in Row /\ registry'[s] = [owner |-> registry[s].owner, deletedBy |-> Named(User(r))]
      BY <1>1, <2>2 DEF Mark, IInv, TypeOK, HasRow, Row
    <3>2. registry'[s] \in Row /\ registry'[s].deletedBy # Nobody
      BY <1>0, <3>1, NewRowFacts, NobodyIsNoAuthor DEF Row
    <3>3. registry'[s] # NoRow
      BY <3>2, NobodyIsNoAuthor
    <3>4. HasRow(s)' /\ MarkedDeleted(s)'
      BY <3>2, <3>3 DEF HasRow, MarkedDeleted
    <3> QED
      BY <2>2, <3>2, <3>4
  <2> QED
    BY <2>1, <2>2
<1>5. TypeOK'
  <2>1. registry' \in [Slugs -> Row \union {NoRow}]
    BY <1>1, <1>3, <1>4 DEF Mark, IInv, TypeOK
  <2> QED
    BY <1>2, <2>1 DEF IInv, TypeOK, Stage, Active, Done, sessions, process
<1>6. \A t \in Slugs : /\ HasRow(t)' <=> HasRow(t)
                       /\ Present(t)' => Present(t)
                       /\ MarkedDeleted(t) => MarkedDeleted(t)'
  <2> SUFFICES ASSUME NEW t \in Slugs
               PROVE  /\ HasRow(t)' <=> HasRow(t)
                      /\ Present(t)' => Present(t)
                      /\ MarkedDeleted(t) => MarkedDeleted(t)'
    OBVIOUS
  <2>1. CASE t # s
    BY <1>3, <2>1 DEF HasRow, Present, MarkedDeleted
  <2>2. CASE t = s /\ HasRow(s)
    BY <1>4, <2>2 DEF Present, MarkedDeleted
  <2>3. CASE t = s /\ ~HasRow(s)
    <3>1. registry[s] = NoRow /\ NoRow.deletedBy = Nobody
      BY <2>3 DEF HasRow, NoRow
    <3> QED
      BY <1>4, <2>3, <3>1 DEF Present, MarkedDeleted
  <2> QED
    BY <2>1, <2>2, <2>3
<1>7. StagesFitKinds' /\ TargetsKnown' /\ SavesDisjoint' /\ SavesHidden' /\ ReplacesRecorded'
  BY <1>2, <1>6 DEF IInv, TypeOK, StagesFitKinds, TargetsKnown, SavesDisjoint, SavesHidden, ReplacesRecorded,
                    Saving, Removing, Old
<1>8. RemovalsCommitted'
  <2> SUFFICES ASSUME NEW q \in Requests, pc'[q] \in {"recheck", "unlink"}
               PROVE  ~Present(Old(q))'
    BY DEF RemovalsCommitted
  <2>1. Old(q)' = Old(q) /\ Old(q) \in Slugs
    BY <1>1, <1>2 DEF IInv, TypeOK, StagesFitKinds, TargetsKnown, Removing, Old
  <2>2. CASE q = r
    <3>1. Old(q)' = s
      BY <1>1, <2>1, <2>2
    <3>2. ~Present(s)'
      BY <1>4 DEF Present, MarkedDeleted
    <3> QED
      BY <3>1, <3>2 DEF Present, HasRow
  <2>3. CASE q # r
    BY <1>2, <1>6, <2>1, <2>3 DEF IInv, TypeOK, RemovalsCommitted, Present, HasRow, Old
  <2> QED
    BY <2>2, <2>3
<1>9. PendingMarked' /\ PresentRowHasFile'
  BY <1>2, <1>6 DEF IInv, TypeOK, PendingMarked, PresentRowHasFile, process
<1> QED
  BY <1>5, <1>7, <1>8, <1>9 DEF IInv

LEMMA UnlinkKeeps == ASSUME IInv, NEW r \in Requests, Unlink(r) PROVE IInv'
BY DEF Unlink, Answer, 
   IInv, TypeOK, Stage, Active, Done, FileState, StagesFitKinds, TargetsKnown, SavesHidden, SavesDisjoint, ReplacesRecorded,
   RemovalsCommitted, PendingMarked, PresentRowHasFile, Saving, Removing,
   HasRow, Present, MarkedDeleted, User, Old, Goto, files, sessions, process

LEMMA UnlinkFailsKeeps == ASSUME IInv, NEW r \in Requests, UnlinkFails(r) PROVE IInv'
BY BlobAssumption DEF UnlinkFails, Fault, 
   IInv, TypeOK, Stage, Active, Done, StagesFitKinds, TargetsKnown, SavesHidden, SavesDisjoint, ReplacesRecorded,
   RemovalsCommitted, PendingMarked, PresentRowHasFile, Saving, Removing,
   HasRow, Present, MarkedDeleted, User, Old, Goto, files, sessions, process

(* Erasing.                                                                *)

(* Anonymising changes neither which slugs have rows nor which are marked. *)
LEMMA AnonymizeKeeps == ASSUME IInv, NEW r \in Requests, Anonymize(r) PROVE IInv'
<1>1. /\ pc[r] = "anonymize" /\ pc' = [pc EXCEPT ![r] = "account"]
      /\ UNCHANGED <<disk, stuck, known, job, new, login, revoked, process>>
  BY DEF Anonymize, Goto
<1>2. ASSUME NEW s \in Slugs
      PROVE  /\ registry'[s] \in Row \union {NoRow}
             /\ HasRow(s)' <=> HasRow(s)
             /\ MarkedDeleted(s)' <=> MarkedDeleted(s)
             /\ Present(s)' <=> Present(s)
  <2>1. registry'[s] = [owner |-> Forget(registry[s].owner, User(r)),
                        deletedBy |-> Forget(registry[s].deletedBy, User(r))]
    BY DEF Anonymize
  <2>2. User(r) \in Users /\ registry[s] \in Row \union {NoRow}
    BY JobFacts DEF IInv, TypeOK
  <2>3. registry[s].owner \in Author \union {Nobody} /\ registry[s].deletedBy \in Author \union {Nobody}
    BY <2>2 DEF Row, NoRow
  <2>4. registry[s].deletedBy = Nobody <=> registry'[s].deletedBy = Nobody
    BY <2>1, <2>2, <2>3, ForgetFacts
  <2>5. registry'[s] \in Row \union {NoRow} /\ (registry'[s] = NoRow <=> registry[s] = NoRow)
    <3>1. CASE registry[s] = NoRow
      BY <2>1, <2>2, <2>3, <3>1, ForgetFacts DEF NoRow
    <3>2. CASE registry[s] \in Row
      <4>1. registry[s].owner \in Author
        BY <3>2 DEF Row
      <4>2. Forget(registry[s].owner, User(r)) \in Author
        BY <2>2, <4>1, ForgetFacts, NobodyIsNoAuthor
      <4>3. registry'[s] \in Row
        BY <2>1, <2>2, <2>3, <4>2, ForgetFacts DEF Row
      <4> QED
        BY <3>2, <4>3, NobodyIsNoAuthor
    <3> QED
      BY <2>2, <3>1, <3>2
  <2> QED
    BY <2>4, <2>5 DEF HasRow, MarkedDeleted, Present
<1>3. TypeOK'
  <2>1. registry' \in [Slugs -> Row \union {NoRow}]
    BY <1>2 DEF Anonymize
  <2>2. overlap' \in SUBSET Requests
    BY DEF Anonymize, IInv, TypeOK
  <2> QED
    BY <1>1, <2>1, <2>2 DEF IInv, TypeOK, Stage, Active, Done, process
<1>4. StagesFitKinds' /\ TargetsKnown' /\ SavesDisjoint' /\ SavesHidden' /\ ReplacesRecorded'
  BY <1>1, <1>2 DEF IInv, TypeOK, StagesFitKinds, TargetsKnown, SavesDisjoint, SavesHidden, ReplacesRecorded,
                    Saving, Removing, Old
<1>5. RemovalsCommitted'
  <2> SUFFICES ASSUME NEW q \in Requests, pc'[q] \in {"recheck", "unlink"}
               PROVE  ~Present(Old(q))'
    BY DEF RemovalsCommitted
  <2>1. Old(q)' = Old(q) /\ pc'[q] = pc[q]
    BY <1>1 DEF IInv, TypeOK, Old
  <2>2. Old(q) \in Slugs /\ ~Present(Old(q))
    BY <2>1 DEF IInv, TypeOK, StagesFitKinds, TargetsKnown, RemovalsCommitted, Removing
  <2> QED
    BY <1>2, <2>1, <2>2 DEF Present, HasRow, Old
<1>6. PendingMarked' /\ PresentRowHasFile'
  BY <1>1, <1>2 DEF IInv, TypeOK, PendingMarked, PresentRowHasFile, process
<1> QED
  BY <1>3, <1>4, <1>5, <1>6 DEF IInv

LEMMA EraseFailsKeeps == ASSUME IInv, NEW r \in Requests, EraseFails(r) PROVE IInv'
BY BlobAssumption DEF EraseFails, Fault, 
   IInv, TypeOK, Stage, Active, Done, StagesFitKinds, TargetsKnown, SavesHidden, SavesDisjoint, ReplacesRecorded,
   RemovalsCommitted, PendingMarked, PresentRowHasFile, Saving, Removing,
   HasRow, Present, MarkedDeleted, User, Old, Goto, files, sessions, process

LEMMA RevokeKeeps == ASSUME IInv, NEW r \in Requests, Revoke(r) PROVE IInv'
<1>1. /\ pc' = [pc EXCEPT ![r] = "ok"]
      /\ revoked' = [revoked EXCEPT ![User(r)] = login[User(r)]]
      /\ UNCHANGED <<files, known, job, new, login, overlap, process>>
  BY DEF Revoke, Goto
<1>2. login[User(r)] \in 0..MaxLogins
  BY JobFacts, BlobAssumption DEF IInv, TypeOK
<1>3. revoked' \in [Users -> 0..MaxLogins] /\ pc' \in [Requests -> Stage]
  BY <1>1, <1>2 DEF IInv, TypeOK, Stage, Done
<1>4. TypeOK'
  BY <1>1, <1>3 DEF IInv, TypeOK, files, process
<1> QED
  BY <1>1, <1>4 DEF IInv, TypeOK, StagesFitKinds, TargetsKnown, SavesHidden, SavesDisjoint, ReplacesRecorded,
     RemovalsCommitted, PendingMarked, PresentRowHasFile, Saving, Removing,
     HasRow, Present, MarkedDeleted, Old, files, process

(* Sessions and process.                                                   *)

LEMMA LoginKeeps == ASSUME IInv, NEW u \in Users, Login(u) PROVE IInv'
BY BlobAssumption DEF Login, 
   IInv, TypeOK, Stage, Active, Done, StagesFitKinds, TargetsKnown, SavesHidden, SavesDisjoint, ReplacesRecorded,
   RemovalsCommitted, PendingMarked, PresentRowHasFile, Saving, Removing,
   HasRow, Present, MarkedDeleted, User, Old, Goto, files, sessions, process

LEMMA ExportKeeps == ASSUME IInv, NEW u \in Users, Export(u) PROVE IInv'
BY DEF Export, 
   IInv, TypeOK, Stage, Active, Done, StagesFitKinds, TargetsKnown, SavesHidden, SavesDisjoint, ReplacesRecorded,
   RemovalsCommitted, PendingMarked, PresentRowHasFile, Saving, Removing,
   HasRow, Present, MarkedDeleted, User, Old, Goto, files, sessions, process

LEMMA CrashKeeps == ASSUME IInv, Crash PROVE IInv'
BY BlobAssumption DEF Crash, Fault, Running, 
   IInv, TypeOK, Stage, Active, Done, StagesFitKinds, TargetsKnown, SavesHidden, SavesDisjoint, ReplacesRecorded,
   RemovalsCommitted, PendingMarked, PresentRowHasFile, Saving, Removing,
   HasRow, Present, MarkedDeleted, User, Old, Goto, files, sessions, process

LEMMA StartupKeeps == ASSUME IInv, Startup PROVE IInv'
BY DEF Startup, 
   IInv, TypeOK, Stage, Active, Done, StagesFitKinds, TargetsKnown, SavesHidden, SavesDisjoint, ReplacesRecorded,
   RemovalsCommitted, PendingMarked, PresentRowHasFile, Saving, Removing,
   HasRow, Present, MarkedDeleted, User, Old, Goto, files, sessions, process

LEMMA SweepKeeps == ASSUME IInv, NEW s \in Slugs, Sweep(s) PROVE IInv'
<1>1. /\ s \in pending /\ pending' = pending \ {s}
      /\ disk' = [disk EXCEPT ![s] = "absent"]
      /\ UNCHANGED <<registry, stuck, known, pc, job, new, sessions, phase, faults>>
  BY DEF Sweep
<1>2. HasRow(s) /\ ~Present(s)
  <2>1. MarkedDeleted(s) /\ NoRow.deletedBy = Nobody
    BY <1>1 DEF IInv, PendingMarked, NoRow
  <2> QED
    BY <2>1 DEF MarkedDeleted, HasRow, Present
<1>3. TypeOK'
  BY <1>1 DEF IInv, TypeOK, FileState, sessions
<1>4. SavesHidden'
  BY <1>1, <1>2 DEF IInv, TypeOK, SavesHidden, HasRow
<1>5. PendingMarked' /\ PresentRowHasFile'
  BY <1>1, <1>2 DEF IInv, TypeOK, PendingMarked, PresentRowHasFile, MarkedDeleted, Present, HasRow
<1> QED
  BY <1>1, <1>3, <1>4, <1>5 DEF IInv, StagesFitKinds, TargetsKnown, SavesDisjoint, ReplacesRecorded,
     RemovalsCommitted, HasRow, Present, Old

LEMMA SweepFailsKeeps == ASSUME IInv, NEW s \in Slugs, SweepFails(s) PROVE IInv'
BY BlobAssumption DEF SweepFails, Fault, 
   IInv, TypeOK, Stage, Active, Done, StagesFitKinds, TargetsKnown, SavesHidden, SavesDisjoint, ReplacesRecorded,
   RemovalsCommitted, PendingMarked, PresentRowHasFile, Saving, Removing,
   HasRow, Present, MarkedDeleted, User, Old, Goto, files, sessions, process

LEMMA ServeKeeps == ASSUME IInv, Serve PROVE IInv'
BY DEF Serve, 
   IInv, TypeOK, Stage, Active, Done, StagesFitKinds, TargetsKnown, SavesHidden, SavesDisjoint, ReplacesRecorded,
   RemovalsCommitted, PendingMarked, PresentRowHasFile, Saving, Removing,
   HasRow, Present, MarkedDeleted, User, Old, Goto, files, sessions, process

-----------------------------------------------------------------------------
LEMMA InitInv == Init => IInv
<1> SUFFICES ASSUME Init PROVE IInv
  OBVIOUS
<1>1. NoJob \in Job /\ NoJob.kind = "upload"
  BY BlobAssumption DEF NoJob, Job, Kinds
<1>2. \A s \in Slugs : registry[s] \in Row \union {NoRow} /\ ~MarkedDeleted(s)
  BY NewRowFacts, BlobAssumption DEF Init, MarkedDeleted, NoRow
<1>3. \A s \in Slugs : HasRow(s) => s \in Legacy
  BY DEF Init, HasRow
<1>4. registry \in [Slugs -> Row \union {NoRow}]
  BY <1>2 DEF Init
<1>5. TypeOK
  BY <1>1, <1>4, BlobAssumption DEF Init, TypeOK, FileState, Stage
<1>6. PresentRowHasFile
  BY <1>3 DEF Init, PresentRowHasFile, Present
<1>7. \A r \in Requests : job[r].kind = "upload" /\ pc[r] = "idle"
  BY <1>1 DEF Init
<1> QED
  BY <1>5, <1>6, <1>7 DEF Init, IInv, StagesFitKinds, TargetsKnown, SavesHidden, SavesDisjoint, ReplacesRecorded,
     RemovalsCommitted, PendingMarked, Saving, Removing

LEMMA StutterInv == ASSUME IInv, UNCHANGED vars PROVE IInv'
BY DEF vars, IInv, TypeOK, StagesFitKinds, TargetsKnown, SavesHidden, SavesDisjoint, ReplacesRecorded,
   RemovalsCommitted, PendingMarked, PresentRowHasFile, Saving, Removing, HasRow, Present, MarkedDeleted,
   Old, files, sessions, process

LEMMA NextInv == IInv /\ [Next]_vars => IInv'
<1> SUFFICES ASSUME IInv, [Next]_vars PROVE IInv'
  OBVIOUS
<1>1. ASSUME NEW r \in Requests, Start(r) PROVE IInv'
  BY <1>1, StartKeeps
<1>2. ASSUME NEW r \in Requests, Proceed(r) PROVE IInv'
  BY <1>2, InfoKeeps, AuthorizeKeeps, CreateKeeps, CopyKeeps, RecordKeeps, ProbeKeeps, MarkKeeps,
     RecheckKeeps, UnlinkKeeps, AnonymizeKeeps, DeleteAccountKeeps, RevokeKeeps DEF Proceed
<1>3. ASSUME NEW r \in Requests, Fail(r) PROVE IInv'
  BY <1>3, CopyFailsKeeps, RecordFailsKeeps, MarkFailsKeeps, UnlinkFailsKeeps, EraseFailsKeeps DEF Fail
<1>4. ASSUME NEW u \in Users, Login(u) \/ Export(u) PROVE IInv'
  BY <1>4, LoginKeeps, ExportKeeps
<1>5. ASSUME NEW s \in Slugs, Sweep(s) \/ SweepFails(s) PROVE IInv'
  BY <1>5, SweepKeeps, SweepFailsKeeps
<1>6. CASE Crash \/ Startup \/ Serve
  BY <1>6, CrashKeeps, StartupKeeps, ServeKeeps
<1>7. CASE UNCHANGED vars
  BY <1>7, StutterInv
<1> QED
  BY <1>1, <1>2, <1>3, <1>4, <1>5, <1>6, <1>7 DEF Next

(* IInv holds in every reachable state of every instance.                  *)
THEOREM Invariance == Spec => []IInv
<1>1. Init => IInv
  BY InitInv
<1>2. IInv /\ [Next]_vars => IInv'
  BY NextInv
<1> QED
  BY <1>1, <1>2, PTL DEF Spec

(* The variables keep their types.                                         *)
THEOREM TypeCorrect == Spec => []TypeOK
<1>1. IInv => TypeOK
  BY DEF IInv
<1> QED
  BY <1>1, Invariance, PTL

(* The registry never says present of a file that is gone                  *)
(* (MarkDeletedAndDeleteAsync), however requests, faults, crashes and      *)
(* sweeps interleave.                                                      *)
THEOREM PresentRowsHaveFiles == Spec => []PresentRowHasFile
<1>1. IInv => PresentRowHasFile
  BY DEF IInv
<1> QED
  BY <1>1, Invariance, PTL

-----------------------------------------------------------------------------
(* The three actions that write the registry.                              *)

LEMMA ForgetKeepsIds ==
  ASSUME NEW u \in Users, NEW a \in Author \union {Nobody}
  PROVE  Forget(a, u).id = a.id
<1>1. CASE a = Named(u)
  BY <1>1 DEF Forget, Named
<1>2. CASE a # Named(u)
  BY <1>2 DEF Forget
<1> QED
  BY <1>1, <1>2

(* What a step that keeps a row keeps of it.                               *)
RowKept(s) ==
  /\ HasRow(s)' <=> HasRow(s)
  /\ registry'[s].owner.id = registry[s].owner.id
  /\ MarkedDeleted(s) => MarkedDeleted(s)'

LEMMA RowsEqual ==
  ASSUME NEW s \in Slugs, registry'[s] = registry[s]
  PROVE  RowKept(s) /\ (MarkedDeleted(s)' => MarkedDeleted(s))
BY DEF RowKept, HasRow, MarkedDeleted

LEMMA RecordRows ==
  ASSUME IInv, NEW r \in Requests, Record(r)
  PROVE  /\ new[r] \in Slugs \ known /\ ~HasRow(new[r]) /\ disk[new[r]] = "whole"
         /\ Present(new[r])' /\ ~MarkedDeleted(new[r])'
         /\ \A t \in Slugs \ {new[r]} : registry'[t] = registry[t]
<1>1. new[r] \in Slugs \ known /\ ~HasRow(new[r]) /\ disk[new[r]] = "whole"
  BY DEF Record, IInv, SavesHidden, Saving
<1>2. registry' = [registry EXCEPT ![new[r]] = NewRow(User(r))] /\ User(r) \in Users
  BY JobFacts DEF Record, IInv
<1>3. registry'[new[r]] = NewRow(User(r)) /\ \A t \in Slugs \ {new[r]} : registry'[t] = registry[t]
  BY <1>1, <1>2 DEF IInv, TypeOK
<1>4. new'[r] = new[r]
  BY DEF Record
<1> QED
  BY <1>1, <1>2, <1>3, <1>4, NewRowFacts DEF Present, HasRow, MarkedDeleted

LEMMA MarkRows ==
  ASSUME IInv, NEW r \in Requests, Mark(r)
  PROVE  /\ Old(r) \in Slugs
         /\ \A t \in Slugs : RowKept(t)
         /\ \A t \in Slugs \ {Old(r)} : registry'[t] = registry[t]
         /\ HasRow(Old(r)) => registry'[Old(r)].deletedBy.id = User(r)
         /\ ~HasRow(Old(r)) => registry' = registry
<1>1. PICK s \in Slugs : s = Old(r)
  BY DEF Mark, IInv, TypeOK, StagesFitKinds, TargetsKnown, Removing
<1>2. User(r) \in Users
  BY JobFacts DEF IInv
<1>3. \A t \in Slugs \ {s} : registry'[t] = registry[t]
  BY <1>1 DEF Mark, IInv, TypeOK
<1>4. CASE ~HasRow(s)
  <2>1. registry' = registry
    BY <1>1, <1>4 DEF Mark
  <2> QED
    BY <1>1, <1>4, <2>1, RowsEqual
<1>5. CASE HasRow(s)
  <2>1. registry[s] \in Row /\ registry'[s] = [owner |-> registry[s].owner, deletedBy |-> Named(User(r))]
    BY <1>1, <1>5 DEF Mark, IInv, TypeOK, HasRow, Row
  <2>2. registry'[s] \in Row /\ registry'[s].deletedBy # Nobody /\ registry'[s] # NoRow
    BY <1>2, <2>1, NewRowFacts, NobodyIsNoAuthor DEF Row
  <2>3. registry'[s].deletedBy.id = User(r) /\ registry'[s].owner = registry[s].owner
    BY <2>1 DEF Named
  <2>4. RowKept(s)
    BY <1>5, <2>2, <2>3 DEF RowKept, HasRow, MarkedDeleted
  <2> QED
    BY <1>1, <1>3, <1>5, <2>3, <2>4, RowsEqual
<1> QED
  BY <1>4, <1>5

LEMMA AnonymizeRows ==
  ASSUME IInv, NEW r \in Requests, Anonymize(r), NEW s \in Slugs
  PROVE  /\ RowKept(s)
         /\ MarkedDeleted(s)' => MarkedDeleted(s)
         /\ registry'[s].deletedBy.id = registry[s].deletedBy.id
<1>1. registry'[s] = [owner |-> Forget(registry[s].owner, User(r)),
                      deletedBy |-> Forget(registry[s].deletedBy, User(r))]
  BY DEF Anonymize
<1>2. User(r) \in Users /\ registry[s] \in Row \union {NoRow}
  BY JobFacts DEF IInv, TypeOK
<1>3. registry[s].owner \in Author \union {Nobody} /\ registry[s].deletedBy \in Author \union {Nobody}
  BY <1>2 DEF Row, NoRow
<1>4. /\ registry'[s].owner.id = registry[s].owner.id
      /\ registry'[s].deletedBy.id = registry[s].deletedBy.id
      /\ registry'[s].owner = Nobody <=> registry[s].owner = Nobody
      /\ registry'[s].deletedBy = Nobody <=> registry[s].deletedBy = Nobody
  BY <1>1, <1>2, <1>3, ForgetKeepsIds, ForgetFacts
<1>5. ASSUME NEW row, row = NoRow \/ row \in Row
      PROVE  row = NoRow <=> row.owner = Nobody
  BY <1>5, NobodyIsNoAuthor DEF NoRow, Row
<1>6. registry'[s] = NoRow <=> registry[s] = NoRow
  <2>1. registry[s] = NoRow => registry'[s] = NoRow
    BY <1>1, <1>2, <1>3, ForgetFacts DEF NoRow
  <2>2. registry'[s] = NoRow => registry'[s].owner = Nobody
    BY DEF NoRow
  <2> QED
    BY <1>2, <1>4, <1>5, <2>1, <2>2
<1> QED
  BY <1>4, <1>6 DEF RowKept, HasRow, MarkedDeleted

(* Every other step leaves the table alone.                                *)
LEMMA RegistryWriters ==
  ASSUME [Next]_vars, registry' # registry
  PROVE  \E r \in Requests : Record(r) \/ Mark(r) \/ Anonymize(r)
<1>1. ASSUME NEW r \in Requests, Start(r) PROVE FALSE
  BY <1>1 DEF Start, Begin, files
<1>2. ASSUME NEW r \in Requests, Proceed(r), ~(Record(r) \/ Mark(r) \/ Anonymize(r)) PROVE FALSE
  BY <1>2 DEF Proceed, Info, Authorize, Create, Copy, Probe, Recheck, Unlink, DeleteAccount, Revoke, files
<1>3. ASSUME NEW r \in Requests, Fail(r) PROVE FALSE
  BY <1>3 DEF Fail, CopyFails, RecordFails, MarkFails, UnlinkFails, EraseFails, files
<1>4. ASSUME NEW u \in Users, Login(u) \/ Export(u) PROVE FALSE
  BY <1>4 DEF Login, Export, files
<1>5. ASSUME NEW s \in Slugs, Sweep(s) \/ SweepFails(s) PROVE FALSE
  BY <1>5 DEF Sweep, SweepFails
<1>6. ~(Crash \/ Startup \/ Serve)
  BY DEF Crash, Startup, Serve, files
<1>7. ~UNCHANGED vars
  BY DEF vars, files
<1> QED
  BY <1>1, <1>2, <1>3, <1>4, <1>5, <1>6, <1>7 DEF Next

LEMMA KnownGrows ==
  ASSUME IInv, [Next]_vars
  PROVE  known \subseteq known'
<1>1. ASSUME NEW r \in Requests, Start(r) PROVE known' = known
  BY <1>1 DEF Start, Begin
<1>2. ASSUME NEW r \in Requests, Proceed(r) PROVE known \subseteq known'
  BY <1>2 DEF Proceed, Info, Authorize, Create, Copy, Record, Probe, Mark, Recheck, Unlink, Anonymize,
     DeleteAccount, Revoke, Answer
<1>3. ASSUME NEW r \in Requests, Fail(r) PROVE known' = known
  BY <1>3 DEF Fail, CopyFails, RecordFails, MarkFails, UnlinkFails, EraseFails
<1>4. ASSUME NEW u \in Users, Login(u) \/ Export(u) PROVE known \subseteq known'
  BY <1>4 DEF Login, Export
<1>5. ASSUME NEW s \in Slugs, Sweep(s) \/ SweepFails(s) PROVE known' = known
  BY <1>5 DEF Sweep, SweepFails
<1>6. CASE Crash \/ Startup \/ Serve
  BY <1>6 DEF Crash, Startup, Serve
<1>7. CASE UNCHANGED vars
  BY <1>7 DEF vars
<1> QED
  BY <1>1, <1>2, <1>3, <1>4, <1>5, <1>6, <1>7 DEF Next

(* A step keeps every row, and only Record adds one, under a name that no  *)
(* client knows.                                                           *)
LEMMA RowsPersist ==
  ASSUME IInv, [Next]_vars, NEW s \in Slugs
  PROVE  /\ RowKept(s) \/ \E r \in Requests : Record(r) /\ s = new[r]
         /\ HasRow(s) => RowKept(s)
         /\ s \in known => RowKept(s)
         /\ MarkedDeleted(s) => MarkedDeleted(s)'
<1>0. MarkedDeleted(s) => HasRow(s)
  BY DEF MarkedDeleted, HasRow, NoRow
<1>1. CASE registry' = registry
  BY <1>0, <1>1, RowsEqual DEF RowKept
<1>2. ASSUME NEW r \in Requests, Record(r)
      PROVE  RowKept(s) \/ (s = new[r] /\ ~HasRow(s) /\ s \notin known)
  BY <1>2, RecordRows, RowsEqual
<1>3. ASSUME NEW r \in Requests, Mark(r) \/ Anonymize(r)
      PROVE  RowKept(s)
  BY <1>3, MarkRows, AnonymizeRows
<1> QED
  BY <1>0, <1>1, <1>2, <1>3, RegistryWriters DEF RowKept

-----------------------------------------------------------------------------
(* Requests run only while the process serves.                             *)

(* A request steps only while the process serves.                          *)
LEMMA RequestsStepWhileUp ==
  ASSUME QuietUnlessUp, NEW r \in Requests, Start(r) \/ Proceed(r) \/ Fail(r)
  PROVE  phase = "up" /\ phase' = "up"
<1>1. CASE Start(r)
  BY <1>1 DEF Start, Begin, process
<1>2. CASE Proceed(r) \/ Fail(r)
  <2>1. Running(r)
    BY <1>2 DEF Proceed, Info, Authorize, Create, Copy, Record, Probe, Mark, Recheck, Unlink, Anonymize,
       DeleteAccount, Revoke, Fail, CopyFails, RecordFails, MarkFails, UnlinkFails, EraseFails, Running, Active
  <2>2. phase' = phase
    BY <1>2 DEF Proceed, Info, Authorize, Create, Copy, Record, Probe, Mark, Recheck, Unlink, Anonymize,
       DeleteAccount, Revoke, Fail, CopyFails, RecordFails, MarkFails, UnlinkFails, EraseFails, process
  <2> QED
    BY <2>1, <2>2 DEF QuietUnlessUp
<1> QED
  BY <1>1, <1>2

LEMMA QuietKept ==
  ASSUME IInv, QuietUnlessUp, [Next]_vars
  PROVE  QuietUnlessUp'
<1>1. ASSUME NEW r \in Requests, Start(r) PROVE QuietUnlessUp'
  BY <1>1 DEF Start, Begin, process, QuietUnlessUp
<1>2. ASSUME NEW r \in Requests, Proceed(r) \/ Fail(r) PROVE QuietUnlessUp'
  BY <1>2, RequestsStepWhileUp DEF QuietUnlessUp
<1>3. ASSUME NEW u \in Users, Login(u) \/ Export(u) PROVE QuietUnlessUp'
  BY <1>3 DEF Login, Export, process, QuietUnlessUp, Running
<1>4. ASSUME NEW s \in Slugs, Sweep(s) \/ SweepFails(s) PROVE QuietUnlessUp'
  BY <1>4 DEF Sweep, SweepFails, QuietUnlessUp, Running
<1>5. CASE Crash
  BY <1>5 DEF Crash, QuietUnlessUp, Running, Active, IInv, TypeOK
<1>6. CASE Startup \/ Serve
  BY <1>6 DEF Startup, Serve, QuietUnlessUp, Running
<1>7. CASE UNCHANGED vars
  BY <1>7 DEF vars, process, QuietUnlessUp, Running
<1> QED
  BY <1>1, <1>2, <1>3, <1>4, <1>5, <1>6, <1>7 DEF Next

-----------------------------------------------------------------------------
(* Who may delete.                                                         *)

LEMMA EntitledKept ==
  ASSUME IInv, RemovalsEntitled, [Next]_vars
  PROVE  RemovalsEntitled'
<1> DEFINE Entitled(r) == HasRow(Old(r)) => registry[Old(r)].owner.id = User(r) \/ User(r) \in Admins
<1> SUFFICES ASSUME NEW r \in Requests, job'[r].kind \in {"replace", "delete"}, pc'[r] \in Checked
             PROVE  Entitled(r)'
  BY DEF RemovalsEntitled
<1>1. CASE job'[r] = job[r] /\ job[r].kind \in {"replace", "delete"} /\ Entitled(r)
  <2>1. Old(r) \in known /\ Old(r) \in Slugs /\ Old(r)' = Old(r) /\ User(r)' = User(r)
    BY <1>1 DEF IInv, TypeOK, TargetsKnown, Old, User
  <2>2. RowKept(Old(r))
    BY <2>1, RowsPersist
  <2> QED
    BY <1>1, <2>1, <2>2 DEF RowKept, HasRow
<1>2. ASSUME NEW q \in Requests, Start(q) PROVE Entitled(r)'
  BY <1>1, <1>2 DEF Start, Begin, FirstStage, Goto, IInv, TypeOK, RemovalsEntitled, Checked, Kinds
<1>3. ASSUME NEW q \in Requests, Authorize(q) PROVE Entitled(r)'
  <2>1. job' = job
    BY <1>3 DEF Authorize
  <2>2. CASE q = r
    <3>1. Allowed(User(r), Old(r))
      BY <1>3, <2>2 DEF Authorize, Goto, IInv, TypeOK, Checked
    <3>2. Entitled(r)
      BY <3>1 DEF Allowed, Named
    <3> QED
      BY <1>1, <2>1, <3>2
  <2>3. CASE q # r
    BY <1>1, <1>3, <2>1, <2>3 DEF Authorize, Goto, IInv, TypeOK, RemovalsEntitled
  <2> QED
    BY <2>2, <2>3
<1>4. ASSUME NEW q \in Requests, Proceed(q), ~Authorize(q) PROVE Entitled(r)'
  <2>1. job' = job
    BY <1>4 DEF Proceed, Info, Create, Copy, Record, Probe, Mark, Recheck, Unlink, Anonymize, DeleteAccount, Revoke
  <2>2. pc[r] \in Checked
    BY <1>4 DEF Proceed, Info, Create, Copy, Record, Probe, Mark, Recheck, Unlink, Anonymize, DeleteAccount, Revoke,
       Answer, Goto, IInv, TypeOK, Checked
  <2> QED
    BY <1>1, <2>1, <2>2 DEF RemovalsEntitled
<1>5. ASSUME NEW q \in Requests, Fail(q) PROVE Entitled(r)'
  <2>1. job' = job /\ pc[r] \in Checked
    BY <1>5 DEF Fail, CopyFails, RecordFails, MarkFails, UnlinkFails, EraseFails, Goto, IInv, TypeOK, Checked
  <2> QED
    BY <1>1, <2>1 DEF RemovalsEntitled
<1>6. CASE job' = job /\ (pc' = pc \/ Crash)
  <2>1. pc[r] \in Checked
    BY <1>6 DEF Crash, IInv, TypeOK, Checked
  <2> QED
    BY <1>1, <1>6, <2>1 DEF RemovalsEntitled
<1>7. CASE (\E u \in Users : Login(u) \/ Export(u)) \/ (\E s \in Slugs : Sweep(s) \/ SweepFails(s))
           \/ Crash \/ Startup \/ Serve \/ UNCHANGED vars
  BY <1>6, <1>7 DEF Login, Export, Sweep, SweepFails, Crash, Startup, Serve, vars
<1> QED
  BY <1>2, <1>3, <1>4, <1>5, <1>7 DEF Next

LEMMA OwnersKept ==
  ASSUME IInv, RemovalsEntitled, OnlyOwnerOrAdminDeletes, [Next]_vars
  PROVE  OnlyOwnerOrAdminDeletes'
<1> DEFINE Lawful(s) == registry[s].deletedBy.id = registry[s].owner.id \/ registry[s].deletedBy.id \in Admins
<1> SUFFICES ASSUME NEW s \in Slugs, MarkedDeleted(s)'
             PROVE  Lawful(s)'
  BY DEF OnlyOwnerOrAdminDeletes
<1>1. CASE registry'[s] = registry[s]
  BY <1>1 DEF OnlyOwnerOrAdminDeletes, MarkedDeleted
<1>2. ASSUME NEW r \in Requests, Record(r) PROVE Lawful(s)'
  <2>1. s # new[r]
    BY <1>2, RecordRows DEF MarkedDeleted, Record
  <2> QED
    BY <1>1, <1>2, <2>1, RecordRows
<1>3. ASSUME NEW r \in Requests, Mark(r) PROVE Lawful(s)'
  <2>1. CASE s = Old(r) /\ HasRow(s)
    <3>1. registry'[s].deletedBy.id = User(r) /\ registry'[s].owner.id = registry[s].owner.id
      BY <1>3, <2>1, MarkRows DEF RowKept
    <3>2. registry[s].owner.id = User(r) \/ User(r) \in Admins
      BY <1>3, <2>1 DEF Mark, IInv, StagesFitKinds, Removing, RemovalsEntitled, Checked
    <3> QED
      BY <3>1, <3>2
  <2>2. CASE ~(s = Old(r) /\ HasRow(s))
    BY <1>1, <1>3, <2>2, MarkRows
  <2> QED
    BY <2>1, <2>2
<1>4. ASSUME NEW r \in Requests, Anonymize(r) PROVE Lawful(s)'
  BY <1>4, AnonymizeRows DEF RowKept, OnlyOwnerOrAdminDeletes
<1> QED
  BY <1>1, <1>2, <1>3, <1>4, RegistryWriters

-----------------------------------------------------------------------------
(* What a deletion leaves on disk.                                         *)

(* A file appears only under a name without a row, which no client knows.  *)
LEMMA FilesOfRowsOnlyGo ==
  ASSUME IInv, [Next]_vars, NEW s \in Slugs, HasRow(s) \/ s \in known, disk[s] = "absent"
  PROVE  disk'[s] = "absent"
<1>1. ASSUME NEW r \in Requests, Start(r) PROVE disk' = disk
  BY <1>1 DEF Start, Begin, files
<1>2. ASSUME NEW r \in Requests, Proceed(r) PROVE disk'[s] = "absent"
  <2>1. CASE Create(r)
    BY <2>1 DEF Create, FreshSlug, IInv, TypeOK
  <2>2. CASE Copy(r)
    BY <2>2 DEF Copy, IInv, TypeOK, SavesHidden, Saving
  <2>3. CASE Unlink(r)
    BY <2>3 DEF Unlink, IInv, TypeOK
  <2>4. CASE ~(Create(r) \/ Copy(r) \/ Unlink(r))
    BY <1>2, <2>4 DEF Proceed, Info, Authorize, Record, Probe, Mark, Recheck, Anonymize, DeleteAccount, Revoke, files
  <2> QED
    BY <2>1, <2>2, <2>3, <2>4
<1>3. ASSUME NEW r \in Requests, Fail(r) PROVE disk'[s] = "absent"
  <2>1. CASE CopyFails(r)
    BY <2>1 DEF CopyFails, IInv, TypeOK, SavesHidden, Saving
  <2>2. CASE ~CopyFails(r)
    BY <1>3, <2>2 DEF Fail, RecordFails, MarkFails, UnlinkFails, EraseFails, files
  <2> QED
    BY <2>1, <2>2
<1>4. ASSUME NEW u \in Users, Login(u) \/ Export(u) PROVE disk' = disk
  BY <1>4 DEF Login, Export, files
<1>5. ASSUME NEW t \in Slugs, Sweep(t) \/ SweepFails(t) PROVE disk'[s] = "absent"
  BY <1>5 DEF Sweep, SweepFails, IInv, TypeOK
<1>6. CASE Crash \/ Startup \/ Serve \/ UNCHANGED vars
  BY <1>6 DEF Crash, Startup, Serve, vars, files
<1> QED
  BY <1>1, <1>2, <1>3, <1>4, <1>5, <1>6 DEF Next

LEMMA SweepKept ==
  ASSUME IInv, QuietUnlessUp, SweepCovers, [Next]_vars
  PROVE  SweepCovers'
<1> SUFFICES ASSUME phase' = "sweeping", NEW s \in Slugs, MarkedDeleted(s)', disk'[s] # "absent"
             PROVE  s \in pending' \union stuck'
  BY DEF SweepCovers
<1>1. ASSUME NEW r \in Requests, Start(r) \/ Proceed(r) \/ Fail(r) PROVE FALSE
  BY <1>1, RequestsStepWhileUp
<1>2. ASSUME NEW u \in Users, Login(u) \/ Export(u) PROVE s \in pending' \union stuck'
  BY <1>2 DEF Login, Export, files, process, SweepCovers, MarkedDeleted
<1>3. ASSUME NEW t \in Slugs, Sweep(t) \/ SweepFails(t) PROVE s \in pending' \union stuck'
  BY <1>3 DEF Sweep, SweepFails, SweepCovers, MarkedDeleted, IInv, TypeOK
<1>4. CASE Startup
  <2>1. registry' = registry /\ pending' = {t \in Slugs : MarkedDeleted(t)}
    BY <1>4 DEF Startup
  <2> QED
    BY <2>1 DEF MarkedDeleted
<1>5. CASE Crash \/ Serve
  BY <1>5 DEF Crash, Serve
<1>6. CASE UNCHANGED vars
  BY <1>6 DEF vars, files, process, SweepCovers, MarkedDeleted
<1> QED
  BY <1>1, <1>2, <1>3, <1>4, <1>5, <1>6 DEF Next

(* A file marked deleted that is still there has its remover: a request    *)
(* past the mark keeps it until it unlinks the file or fails to.           *)
LEMMA DeletedKept ==
  ASSUME IInv, SweepCovers, DeletedFilesAreSwept, [Next]_vars
  PROVE  DeletedFilesAreSwept'
<1> DEFINE Remover(s) == \E r \in Requests : Old(r) = s /\ pc[r] \in {"recheck", "unlink"}
<1> SUFFICES ASSUME phase' = "up", NEW s \in Slugs, MarkedDeleted(s)', disk'[s] # "absent", s \notin stuck'
             PROVE  Remover(s)'
  BY DEF DeletedFilesAreSwept
<1>1. ASSUME phase = "up", MarkedDeleted(s), stuck' = stuck
      PROVE  Remover(s) /\ disk[s] # "absent"
  <2>1. HasRow(s)
    BY <1>1 DEF MarkedDeleted, HasRow, NoRow
  <2>2. disk[s] # "absent"
    BY <2>1, FilesOfRowsOnlyGo
  <2> QED
    BY <1>1, <2>2 DEF DeletedFilesAreSwept
<1>2. ASSUME phase' = phase, MarkedDeleted(s), stuck' = stuck, job' = job,
             NEW q \in Requests, pc[q] \notin {"recheck", "unlink"},
             \A r \in Requests \ {q} : pc'[r] = pc[r]
      PROVE  Remover(s)'
  BY <1>1, <1>2 DEF Old
<1>3. ASSUME NEW q \in Requests, Start(q) PROVE Remover(s)'
  <2>1. phase' = phase /\ MarkedDeleted(s) /\ stuck' = stuck
    BY <1>3 DEF Start, Begin, files, process, MarkedDeleted
  <2>2. Remover(s)
    BY <1>1, <2>1
  <2>3. pc[q] = "idle" /\ \A r \in Requests \ {q} : pc'[r] = pc[r] /\ job'[r] = job[r]
    BY <1>3 DEF Start, Begin, Goto, IInv, TypeOK
  <2> QED
    BY <2>2, <2>3 DEF Old
<1>4. ASSUME NEW q \in Requests, Mark(q) PROVE Remover(s)'
  <2>1. /\ phase' = phase /\ stuck' = stuck /\ job' = job
        /\ pc[q] = "mark" /\ pc' = [pc EXCEPT ![q] = "recheck"]
    BY <1>4 DEF Mark, Goto, process
  <2>2. CASE s = Old(q)
    <3>1. pc'[q] = "recheck" /\ Old(q)' = s
      BY <2>1, <2>2 DEF IInv, TypeOK, Old
    <3> QED
      BY <3>1
  <2>3. CASE s # Old(q)
    <3>1. MarkedDeleted(s)
      BY <1>4, <2>3, MarkRows, RowsEqual
    <3> QED
      BY <1>2, <2>1, <3>1 DEF IInv, TypeOK
  <2> QED
    BY <2>2, <2>3
<1>5. ASSUME NEW q \in Requests, Recheck(q) PROVE Remover(s)'
  <2>1. phase' = phase /\ MarkedDeleted(s) /\ stuck' = stuck /\ job' = job
    BY <1>5 DEF Recheck, files, process, MarkedDeleted
  <2>2. PICK r \in Requests : Old(r) = s /\ pc[r] \in {"recheck", "unlink"}
    BY <1>1, <2>1
  <2>3. disk[s] # "absent"
    BY <1>1, <2>1
  <2>4. pc'[r] \in {"recheck", "unlink"}
    BY <1>5, <2>2, <2>3 DEF Recheck, Answer, Goto, IInv, TypeOK
  <2> QED
    BY <2>1, <2>2, <2>4 DEF Old
<1>6. ASSUME NEW q \in Requests, Unlink(q) PROVE Remover(s)'
  <2>1. phase' = phase /\ MarkedDeleted(s) /\ stuck' = stuck /\ job' = job
    BY <1>6 DEF Unlink, process, MarkedDeleted
  <2>2. PICK r \in Requests : Old(r) = s /\ pc[r] \in {"recheck", "unlink"}
    BY <1>1, <2>1
  <2>3. r # q
    BY <1>6, <2>2 DEF Unlink, IInv, TypeOK
  <2>4. pc'[r] = pc[r]
    BY <1>6, <2>3 DEF Unlink, Answer, Goto, IInv, TypeOK
  <2> QED
    BY <2>1, <2>2, <2>4 DEF Old
<1>7. ASSUME NEW q \in Requests, Proceed(q), ~(Mark(q) \/ Recheck(q) \/ Unlink(q)) PROVE Remover(s)'
  <2>1. /\ phase' = phase /\ stuck' = stuck /\ job' = job
        /\ pc[q] \notin {"recheck", "unlink"} /\ \A r \in Requests \ {q} : pc'[r] = pc[r]
    BY <1>7 DEF Proceed, Info, Authorize, Create, Copy, Record, Probe, Anonymize, DeleteAccount, Revoke,
       Answer, Goto, files, process, IInv, TypeOK
  <2>2. MarkedDeleted(s)
    <3>1. CASE Record(q)
      <4>1. s # new[q]
        BY <3>1, RecordRows DEF MarkedDeleted, Record
      <4> QED
        BY <3>1, <4>1, RecordRows, RowsEqual
    <3>2. CASE Anonymize(q)
      BY <3>2, AnonymizeRows
    <3>3. CASE ~(Record(q) \/ Anonymize(q))
      BY <1>7, <3>3 DEF Proceed, Info, Authorize, Create, Copy, Probe, DeleteAccount, Revoke, files, MarkedDeleted
    <3> QED
      BY <3>1, <3>2, <3>3
  <2> QED
    BY <1>2, <2>1, <2>2
<1>8. ASSUME NEW q \in Requests, Fail(q) PROVE Remover(s)'
  <2>1. phase' = phase /\ job' = job /\ MarkedDeleted(s) /\ \A r \in Requests \ {q} : pc'[r] = pc[r]
    BY <1>8 DEF Fail, CopyFails, RecordFails, MarkFails, UnlinkFails, EraseFails, Goto, files, MarkedDeleted, IInv, TypeOK
  <2>2. CASE UnlinkFails(q)
    <3>1. stuck' = stuck \union {Old(q)} /\ disk' = disk
      BY <2>2 DEF UnlinkFails
    <3>2. s # Old(q) /\ s \notin stuck /\ disk[s] # "absent"
      BY <3>1
    <3>3. PICK r \in Requests : Old(r) = s /\ pc[r] \in {"recheck", "unlink"}
      BY <2>1, <3>2 DEF DeletedFilesAreSwept
    <3> QED
      BY <2>1, <3>2, <3>3 DEF Old
  <2>3. CASE ~UnlinkFails(q)
    <3>1. stuck' = stuck /\ pc[q] \notin {"recheck", "unlink"}
      BY <1>8, <2>3 DEF Fail, CopyFails, RecordFails, MarkFails, EraseFails, files
    <3> QED
      BY <1>2, <2>1, <3>1
  <2> QED
    BY <2>2, <2>3
<1>9. ASSUME NEW u \in Users, Login(u) \/ Export(u) PROVE Remover(s)'
  <2>1. phase' = phase /\ MarkedDeleted(s) /\ stuck' = stuck /\ pc' = pc /\ job' = job
    BY <1>9 DEF Login, Export, files, process, MarkedDeleted
  <2> QED
    BY <1>1, <2>1 DEF Old
<1>10. ASSUME NEW t \in Slugs, Sweep(t) \/ SweepFails(t) PROVE Remover(s)'
  <2>1. /\ phase' = phase /\ MarkedDeleted(s) /\ stuck \subseteq stuck' /\ pc' = pc /\ job' = job
        /\ disk[s] # "absent"
    BY <1>10 DEF Sweep, SweepFails, MarkedDeleted, IInv, TypeOK
  <2> QED
    BY <2>1 DEF DeletedFilesAreSwept, Old
<1>11. CASE Serve
  <2>1. phase = "sweeping" /\ pending = {} /\ MarkedDeleted(s) /\ disk[s] # "absent" /\ s \notin stuck
    BY <1>11 DEF Serve, files, MarkedDeleted
  <2> QED
    BY <2>1 DEF SweepCovers
<1>12. CASE Crash \/ Startup
  BY <1>12 DEF Crash, Startup
<1>13. CASE UNCHANGED vars
  BY <1>13 DEF vars, files, process, DeletedFilesAreSwept, MarkedDeleted, Old
<1> QED
  BY <1>3, <1>4, <1>5, <1>6, <1>7, <1>8, <1>9, <1>10, <1>11, <1>12, <1>13 DEF Next

-----------------------------------------------------------------------------
LEMMA InitDInv == Init => DInv
<1> SUFFICES ASSUME Init PROVE DInv
  OBVIOUS
<1>1. IInv
  BY InitInv
<1>2. QuietUnlessUp /\ SweepCovers /\ DeletedFilesAreSwept /\ LegacyKnown
  BY DEF Init, QuietUnlessUp, Running, Active, SweepCovers, DeletedFilesAreSwept, LegacyKnown
<1>3. RemovalsEntitled
  BY DEF Init, RemovalsEntitled, Checked
<1>4. ASSUME NEW s \in Slugs PROVE ~MarkedDeleted(s)
  BY BlobAssumption, NewRowFacts DEF Init, MarkedDeleted, NoRow
<1>5. OnlyOwnerOrAdminDeletes
  BY <1>4 DEF OnlyOwnerOrAdminDeletes
<1> QED
  BY <1>1, <1>2, <1>3, <1>5 DEF DInv

LEMMA NextDInv == DInv /\ [Next]_vars => DInv'
<1> SUFFICES ASSUME DInv, [Next]_vars PROVE DInv'
  OBVIOUS
<1>1. IInv' /\ QuietUnlessUp' /\ SweepCovers' /\ DeletedFilesAreSwept'
  BY NextInv, QuietKept, SweepKept, DeletedKept DEF DInv
<1>2. RemovalsEntitled' /\ OnlyOwnerOrAdminDeletes'
  BY EntitledKept, OwnersKept DEF DInv
<1>3. LegacyKnown'
  BY KnownGrows DEF DInv, LegacyKnown
<1> QED
  BY <1>1, <1>2, <1>3 DEF DInv

(* DInv, the strengthening of IInv the theorems below rest on, holds in    *)
(* every reachable state of every instance.                                *)
THEOREM DeletionInvariance == Spec => []DInv
<1> QED
  BY InitDInv, NextDInv, PTL DEF Spec

(* Only who uploaded a blob, or an admin, ever marks it deleted            *)
(* (EnsureAuthorizedAsync, MarkDeletedAsync), although the check and the   *)
(* mark are separate awaits and an erasure may come between.               *)
THEOREM OwnersDelete == Spec => []OnlyOwnerOrAdminDeletes
<1>1. DInv => OnlyOwnerOrAdminDeletes
  BY DEF DInv
<1> QED
  BY <1>1, DeletionInvariance, PTL

(* Once the process serves, a file the registry says deleted is still      *)
(* there only while its request removes it or because the removal failed   *)
(* (CleanupOrphanedFilesAsync), whatever crashes came before.              *)
THEOREM DeletionsComplete == Spec => []DeletedFilesAreSwept
<1>1. DInv => DeletedFilesAreSwept
  BY DEF DInv
<1> QED
  BY <1>1, DeletionInvariance, PTL

(* A replace removes the old blob only after the new one is on disk and    *)
(* registered (ReplaceAsync).                                              *)
THEOREM ReplaceIsSafe == Spec => []ReplaceKeepsOneCopy
<1>1. IInv => ReplaceKeepsOneCopy
  BY DEF IInv, ReplacesRecorded, PresentRowHasFile, ReplaceKeepsOneCopy, Removing, Present, MarkedDeleted
<1> QED
  BY <1>1, Invariance, PTL

(* The sweep never touches a file without a row                            *)
(* (CleanupOrphanedFilesAsync).                                            *)
THEOREM SweepIsSparing == Spec => SweepSparesUntracked
<1>1. DInv /\ [Next]_vars =>
        [phase = "sweeping" => \A s \in Slugs : ~HasRow(s) => disk'[s] = disk[s]]_vars
  <2> SUFFICES ASSUME DInv, [Next]_vars, phase = "sweeping", NEW s \in Slugs, ~HasRow(s)
               PROVE  disk'[s] = disk[s]
    OBVIOUS
  <2>1. ASSUME NEW r \in Requests, Start(r) \/ Proceed(r) \/ Fail(r) PROVE FALSE
    BY <2>1, RequestsStepWhileUp DEF DInv
  <2>2. ASSUME NEW t \in Slugs, Sweep(t) PROVE disk'[s] = disk[s]
    <3>1. HasRow(t)
      BY <2>2 DEF Sweep, DInv, IInv, PendingMarked, MarkedDeleted, HasRow, NoRow
    <3> QED
      BY <2>2, <3>1 DEF Sweep, DInv, IInv, TypeOK
  <2>3. ASSUME NEW t \in Slugs, SweepFails(t) PROVE disk' = disk
    BY <2>3 DEF SweepFails
  <2>4. ASSUME NEW u \in Users, Login(u) \/ Export(u) PROVE disk' = disk
    BY <2>4 DEF Login, Export, files
  <2>5. CASE Crash \/ Startup \/ Serve \/ UNCHANGED vars
    BY <2>5 DEF Crash, Startup, Serve, vars, files
  <2> QED
    BY <2>1, <2>2, <2>3, <2>4, <2>5 DEF Next
<1> QED
  BY <1>1, DeletionInvariance, PTL DEF Spec, SweepSparesUntracked

-----------------------------------------------------------------------------
(* What a request can do to its own record, and to nobody else's.          *)

LEMMA HandlerMoves ==
  ASSUME NEW r \in Requests, Proceed(r) \/ Fail(r)
  PROVE  /\ Running(r) /\ job' = job /\ login' = login
         /\ new' = new \/ Create(r)
         /\ revoked' = revoked \/ Revoke(r)
         /\ overlap' = overlap \/ Anonymize(r)
         /\ \E stage : stage \in Stage \ {"idle"} /\ Goto(r, stage)
<1> USE DEF Running, Active, Stage, Done, sessions, Goto, Answer
<1>1. CASE Info(r) \/ Authorize(r) \/ Create(r) \/ Copy(r)
  BY <1>1 DEF Info, Authorize, Create, Copy
<1>2. CASE Record(r) \/ Probe(r) \/ Mark(r)
  BY <1>2 DEF Record, Probe, Mark
<1>3. CASE Recheck(r) \/ Unlink(r)
  BY <1>3 DEF Recheck, Unlink
<1>4. CASE Anonymize(r) \/ DeleteAccount(r) \/ Revoke(r)
  BY <1>4 DEF Anonymize, DeleteAccount, Revoke
<1>5. CASE Fail(r)
  BY <1>5 DEF Fail, CopyFails, RecordFails, MarkFails, UnlinkFails, EraseFails
<1> QED
  BY <1>1, <1>2, <1>3, <1>4, <1>5 DEF Proceed

(* Seen from one request: it starts, it works, or it is left alone, except *)
(* that a crash ends it.                                                   *)
LEMMA RequestMoves ==
  ASSUME TypeOK, [Next]_vars, NEW r \in Requests
  PROVE  \/ Start(r) \/ Proceed(r) \/ Fail(r)
         \/ /\ job'[r] = job[r] /\ new'[r] = new[r]
            /\ pc'[r] = pc[r] \/ (Running(r) /\ pc'[r] = "failed")
<1>1. ASSUME NEW q \in Requests \ {r}, Start(q)
      PROVE  job'[r] = job[r] /\ new'[r] = new[r] /\ pc'[r] = pc[r]
  BY <1>1 DEF Start, Begin, Goto, TypeOK
<1>2. ASSUME NEW q \in Requests \ {r}, Proceed(q) \/ Fail(q)
      PROVE  job'[r] = job[r] /\ new'[r] = new[r] /\ pc'[r] = pc[r]
  <2>1. job' = job /\ pc'[r] = pc[r]
    BY <1>2, HandlerMoves DEF Goto, TypeOK
  <2>2. new'[r] = new[r]
    BY <1>2, HandlerMoves DEF Create, TypeOK
  <2> QED
    BY <2>1, <2>2
<1>3. ASSUME NEW u \in Users, Login(u) \/ Export(u) PROVE UNCHANGED <<job, new, pc>>
  BY <1>3 DEF Login, Export
<1>4. ASSUME NEW s \in Slugs, Sweep(s) \/ SweepFails(s) PROVE UNCHANGED <<job, new, pc>>
  BY <1>4 DEF Sweep, SweepFails
<1>5. CASE Crash
  BY <1>5 DEF Crash
<1>6. CASE Startup \/ Serve \/ UNCHANGED vars
  BY <1>6 DEF Startup, Serve, vars
<1> QED
  BY <1>1, <1>2, <1>3, <1>4, <1>5, <1>6 DEF Next

-----------------------------------------------------------------------------
(* Answers.                                                                *)

(* When a request answers with success, what it says is so.                *)
LEMMA AnswerIsTrue ==
  ASSUME IInv, ErasuresFit, NEW r \in Requests, Start(r) \/ Proceed(r) \/ Fail(r), pc'[r] = "ok"
  PROVE  /\ job'[r] = job[r] /\ new'[r] = new[r]
         /\ job[r].kind \in {"delete", "replace"} => disk'[Old(r)] = "absent"
         /\ job[r].kind \in {"upload", "replace"} => new[r] \in Slugs /\ HasRow(new[r])'
<1> USE DEF Goto, Done
<1>1. pc \in [Requests -> Stage] /\ job[r].kind \in Kinds
  BY JobFacts DEF IInv, TypeOK
<1>2. ~Start(r) /\ ~Fail(r)
  BY <1>1 DEF Start, Begin, FirstStage, Kinds, Fail, CopyFails, RecordFails, MarkFails, UnlinkFails, EraseFails
<1>3. ~(Info(r) \/ Authorize(r) \/ Create(r) \/ Copy(r) \/ Mark(r) \/ Anonymize(r) \/ DeleteAccount(r))
  BY <1>1 DEF Info, Authorize, Create, Copy, Mark, Anonymize, DeleteAccount
<1>4. CASE Record(r)
  <2>1. job[r].kind = "upload" /\ job' = job /\ new' = new
    BY <1>1, <1>4 DEF Record
  <2>2. new[r] \in Slugs /\ Present(new[r])'
    BY <1>4, RecordRows
  <2> QED
    BY <2>1, <2>2 DEF Present, HasRow
<1>5. CASE Probe(r) \/ Recheck(r)
  <2>1. /\ job[r].kind = "replace" /\ disk[Old(r)] = "absent" /\ pc[r] \in Removing
        /\ UNCHANGED <<job, new, disk, registry>>
    BY <1>1, <1>5 DEF Probe, Recheck, Answer, Removing, files
  <2>2. new[r] \in Slugs /\ HasRow(new[r])
    BY <2>1 DEF IInv, ReplacesRecorded
  <2> QED
    BY <2>1, <2>2 DEF HasRow
<1>6. CASE Unlink(r)
  <2>1. pc[r] \in Removing /\ job[r].kind \in {"replace", "delete"} /\ UNCHANGED <<job, new, registry>>
    BY <1>6 DEF Unlink, Removing, IInv, StagesFitKinds
  <2>2. Old(r) \in Slugs
    BY <2>1 DEF IInv, TypeOK, TargetsKnown
  <2>3. disk'[Old(r)] = "absent"
    BY <1>6, <2>2 DEF Unlink, IInv, TypeOK
  <2>4. job[r].kind = "replace" => new[r] \in Slugs /\ HasRow(new[r])
    BY <2>1 DEF IInv, ReplacesRecorded
  <2> QED
    BY <2>1, <2>3, <2>4 DEF HasRow
<1>7. CASE Revoke(r)
  BY <1>7 DEF Revoke, ErasuresFit
<1> QED
  BY <1>2, <1>3, <1>4, <1>5, <1>6, <1>7 DEF Proceed

LEMMA ErasuresFitKept == ASSUME IInv, ErasuresFit, [Next]_vars PROVE ErasuresFit'
<1> SUFFICES ASSUME NEW r \in Requests, pc'[r] \in {"anonymize", "account", "revoke"}
             PROVE  job'[r].kind = "erase"
  BY DEF ErasuresFit
<1>1. CASE Start(r)
  <2>1. PICK kind \in Kinds, u \in Users, token \in 1..MaxLogins, s \in Slugs \union {NoSlug} : Begin(r, kind, u, token, s)
    BY <1>1 DEF Start
  <2>2. job'[r].kind = kind /\ pc'[r] = FirstStage(kind)
    BY <2>1 DEF Begin, Goto, IInv, TypeOK
  <2> QED
    BY <2>2 DEF FirstStage, Kinds
<1>2. CASE Proceed(r) \/ Fail(r)
  <2>1. pc[r] \in {"anonymize", "account", "revoke"}
    BY <1>2 DEF Proceed, Info, Authorize, Create, Copy, Record, Probe, Mark, Recheck, Unlink, Anonymize, DeleteAccount,
       Revoke, Fail, CopyFails, RecordFails, MarkFails, UnlinkFails, EraseFails, Goto, Answer, IInv, TypeOK
  <2> QED
    BY <1>2, <2>1, HandlerMoves DEF ErasuresFit
<1> QED
  BY <1>1, <1>2, RequestMoves DEF IInv, ErasuresFit

(* Nothing a later step does makes an answer untrue: the file of a known   *)
(* name does not come back, and a row stays.                               *)
LEMMA AnswersKept == ASSUME AInv, [Next]_vars PROVE AInv'
<1>1. IInv /\ ErasuresFit
  BY DEF AInv
<1>2. ASSUME NEW r \in Requests, pc'[r] = "ok"
      PROVE  /\ job'[r].kind \in {"delete", "replace"} => (disk[Old(r)] = "absent")'
             /\ job'[r].kind \in {"upload", "replace"} => new'[r] \in Slugs /\ HasRow(new[r])'
  <2>1. CASE Start(r) \/ Proceed(r) \/ Fail(r)
    BY <1>1, <1>2, <2>1, AnswerIsTrue DEF Old, HasRow
  <2>2. CASE ~(Start(r) \/ Proceed(r) \/ Fail(r))
    <3>1. pc[r] = "ok" /\ job'[r] = job[r] /\ new'[r] = new[r]
      BY <1>1, <1>2, <2>2, RequestMoves DEF IInv
    <3>2. ASSUME job[r].kind \in {"delete", "replace"} PROVE disk'[Old(r)] = "absent"
      <4>1. Old(r) \in Slugs /\ Old(r) \in known /\ disk[Old(r)] = "absent"
        BY <3>1, <3>2 DEF AInv, AnswersHold, IInv, TypeOK, TargetsKnown
      <4> QED
        BY <1>1, <4>1, FilesOfRowsOnlyGo
    <3>3. ASSUME job[r].kind \in {"upload", "replace"} PROVE new[r] \in Slugs /\ HasRow(new[r])'
      <4>1. PICK s \in Slugs : s = new[r] /\ HasRow(s)
        BY <3>1, <3>3 DEF AInv, AnswersHold, SavesAnswered
      <4>2. HasRow(s)'
        BY <1>1, <4>1, RowsPersist DEF RowKept
      <4> QED
        BY <3>1, <4>1, <4>2 DEF HasRow
    <3> QED
      BY <3>1, <3>2, <3>3 DEF Old, HasRow
  <2> QED
    BY <2>1, <2>2
<1> QED
  BY <1>1, <1>2, NextInv, ErasuresFitKept DEF AInv, SavesAnswered, AnswersHold

(* A deletion, a replacement or an upload that was answered with success   *)
(* stays true (EngineBlobController Upload, Delete, Replace).              *)
THEOREM AnswersAreTrue == Spec => []AnswersHold
<1>1. Init => AInv
  BY InitInv DEF Init, AInv, ErasuresFit, SavesAnswered, AnswersHold
<1>2. AInv /\ [Next]_vars => AInv'
  BY AnswersKept
<1>3. AInv => AnswersHold
  BY DEF AInv
<1> QED
  BY <1>1, <1>2, <1>3, PTL DEF Spec

-----------------------------------------------------------------------------
(* Erasure.                                                                *)

(* A row names a user anew only by the hand of a request of that user.     *)
LEMMA NamesAreWritten ==
  ASSUME IInv, [Next]_vars, NEW u \in Users, NEW s \in Slugs, Names(s, u)', ~Names(s, u)
  PROVE  \E r \in Requests : /\ Running(r) /\ User(r) = u /\ WroteTo(r, s)
                             /\ UNCHANGED <<job, new, revoked, overlap>>
<1>1. registry'[s] # registry[s]
  BY DEF Names
<1>2. PICK r \in Requests : Record(r) \/ Mark(r) \/ Anonymize(r)
  BY <1>1, RegistryWriters
<1>3. User(r) \in Users /\ registry[s] \in Row \union {NoRow}
  BY JobFacts DEF IInv, TypeOK
<1>4. \A q, v \in Users : Named(v) = Named(q) => v = q
  BY DEF Named
<1>5. CASE Record(r)
  <2>1. s = new[r] /\ registry'[s] = NewRow(User(r))
    BY <1>1, <1>5, RecordRows DEF Record, IInv, TypeOK
  <2>2. u = User(r)
    <3>1. Named(u) \in {NewRow(User(r)).owner, NewRow(User(r)).deletedBy}
      BY <2>1 DEF Names
    <3> QED
      BY <1>3, <1>4, <3>1, NewRowFacts DEF NewRow
  <2> QED
    BY <1>5, <2>1, <2>2 DEF Record, Running, Active, WroteTo, sessions
<1>6. CASE Mark(r)
  <2>1. s = Old(r) /\ registry' = [registry EXCEPT ![s].deletedBy = Named(User(r))]
    BY <1>1, <1>6, MarkRows DEF Mark
  <2>2. registry'[s].owner = registry[s].owner /\ registry'[s].deletedBy = Named(User(r))
    BY <1>3, <2>1 DEF IInv, TypeOK, Row, NoRow
  <2>3. u = User(r)
    BY <1>3, <1>4, <2>2 DEF Names
  <2> QED
    BY <1>6, <2>1, <2>3 DEF Mark, Running, Active, WroteTo, sessions
<1>7. CASE Anonymize(r)
  <2>1. registry'[s] = [owner |-> Forget(registry[s].owner, User(r)),
                        deletedBy |-> Forget(registry[s].deletedBy, User(r))]
    BY <1>7 DEF Anonymize
  <2>2. ASSUME NEW a, Forget(a, User(r)) = Named(u) PROVE a = Named(u)
    <3>1. [Named(User(r)) EXCEPT !.named = FALSE] # Named(u)
      BY DEF Named
    <3> QED
      BY <2>2, <3>1 DEF Forget
  <2> QED
    BY <2>1, <2>2 DEF Names
<1> QED
  BY <1>2, <1>5, <1>6, <1>7

(* The first step of an erasure leaves no row that names the user, and     *)
(* everybody who runs for the user is known to overlap it.                 *)
LEMMA AnonymizeForgets ==
  ASSUME IInv, NEW e \in Requests, Anonymize(e), NEW u \in Users, u = User(e)
  PROVE  /\ \A s \in Slugs : ~Names(s, u)'
         /\ overlap' = overlap \union {q \in Requests : Running(q) /\ User(q) = u}
         /\ job' = job
<1>1. \A a : Forget(a, u) # Named(u)
  <2>1. [Named(u) EXCEPT !.named = FALSE] # Named(u)
    BY DEF Named
  <2> QED
    BY <2>1 DEF Forget
<1>2. job' = job /\ overlap' = overlap \union {q \in Requests : Running(q) /\ User(q) = u}
  BY DEF Anonymize
<1>3. ASSUME NEW s \in Slugs PROVE ~Names(s, u)'
  <2>1. registry'[s] = [owner |-> Forget(registry[s].owner, u), deletedBy |-> Forget(registry[s].deletedBy, u)]
    BY DEF Anonymize
  <2> QED
    BY <1>1, <2>1 DEF Names
<1> QED
  BY <1>2, <1>3

LEMMA StartFacts ==
  ASSUME IInv, NEW r \in Requests, Start(r)
  PROVE  /\ pc[r] = "idle" /\ pc'[r] \in {"create", "info", "authorize", "anonymize"}
         /\ job'[r].user \in Users /\ job'[r].token \in 1..MaxLogins
         /\ job'[r].token > revoked[job'[r].user]
         /\ overlap' = IF ErasureOpen(job'[r].user) THEN overlap \union {r} ELSE overlap
         /\ UNCHANGED <<new, login, revoked, registry>>
         /\ \A q \in Requests \ {r} : job'[q] = job[q] /\ pc'[q] = pc[q]
<1>1. PICK kind \in Kinds, u \in Users, token \in 1..MaxLogins, s \in Slugs \union {NoSlug} : Begin(r, kind, u, token, s)
  BY DEF Start
<1>2. /\ pc[r] = "idle" /\ ~(token <= revoked[u])
      /\ job' = [job EXCEPT ![r] = [kind |-> kind, user |-> u, token |-> token, old |-> s]]
      /\ pc' = [pc EXCEPT ![r] = FirstStage(kind)]
      /\ overlap' = IF ErasureOpen(u) THEN overlap \union {r} ELSE overlap
      /\ UNCHANGED <<new, login, revoked, registry>>
  BY <1>1 DEF Begin, IsRevoked, Goto, files
<1>3. FirstStage(kind) \in {"create", "info", "authorize", "anonymize"}
  BY DEF FirstStage, Kinds
<1>4. /\ pc \in [Requests -> Stage] /\ job \in [Requests -> Job] /\ revoked[u] \in Nat /\ MaxLogins \in Nat
  BY BlobAssumption DEF IInv, TypeOK
<1>5. job'[r].user = u /\ job'[r].token = token /\ pc'[r] = FirstStage(kind)
      /\ \A q \in Requests \ {r} : job'[q] = job[q] /\ pc'[q] = pc[q]
  BY <1>2, <1>4
<1> QED
  BY <1>2, <1>3, <1>4, <1>5

(* Overlaps are remembered, and a revocation is forgotten only by a crash. *)
LEMMA SessionsMove ==
  ASSUME IInv, [Next]_vars
  PROVE  /\ overlap \subseteq overlap'
         /\ \A u \in Users :
              \/ revoked'[u] = revoked[u] \/ revoked'[u] = 0
              \/ \E e \in Requests : pc[e] = "revoke" /\ User(e) = u /\ UNCHANGED <<registry, job, new, overlap>>
<1>1. ASSUME NEW r \in Requests, Start(r) PROVE overlap \subseteq overlap' /\ revoked' = revoked
  BY <1>1, StartFacts
<1>2. ASSUME NEW r \in Requests, Proceed(r) \/ Fail(r)
      PROVE  /\ overlap \subseteq overlap'
             /\ \A u \in Users :
                  \/ revoked'[u] = revoked[u]
                  \/ \E e \in Requests : pc[e] = "revoke" /\ User(e) = u /\ UNCHANGED <<registry, job, new, overlap>>
  <2>1. overlap \subseteq overlap'
    BY <1>2, HandlerMoves DEF Anonymize
  <2>2. CASE Revoke(r)
    BY <2>1, <2>2 DEF Revoke, files, IInv, TypeOK
  <2> QED
    BY <1>2, <2>1, <2>2, HandlerMoves
<1>3. ASSUME NEW u \in Users, Login(u) \/ Export(u) PROVE UNCHANGED <<overlap, revoked>>
  BY <1>3 DEF Login, Export, sessions
<1>4. ASSUME NEW s \in Slugs, Sweep(s) \/ SweepFails(s) PROVE UNCHANGED <<overlap, revoked>>
  BY <1>4 DEF Sweep, SweepFails, sessions
<1>5. CASE Crash
  BY <1>5 DEF Crash
<1>6. CASE Startup \/ Serve \/ UNCHANGED vars
  BY <1>6 DEF Startup, Serve, vars, sessions
<1> QED
  BY <1>1, <1>2, <1>3, <1>4, <1>5, <1>6 DEF Next

LEMMA OnceKept ==
  ASSUME IInv, RequestsComeOnce, [Next]_vars
  PROVE  RequestsComeOnce'
<1> SUFFICES ASSUME NEW r \in Requests
             PROVE  /\ pc'[r] = "idle" => r \notin overlap' /\ job'[r].token = 0
                    /\ pc'[r] \in {"idle", "info", "authorize", "create"} => new'[r] = NoSlug
  BY DEF RequestsComeOnce
<1>1. CASE Start(r)
  BY <1>1, StartFacts DEF RequestsComeOnce
<1>2. CASE Proceed(r) \/ Fail(r)
  <2>1. pc'[r] # "idle" /\ (new' = new \/ Create(r))
    BY <1>2, HandlerMoves DEF Goto, IInv, TypeOK
  <2>2. Create(r) => pc'[r] = "copy"
    BY DEF Create, Goto, IInv, TypeOK
  <2>3. pc'[r] \in {"info", "authorize", "create"} => pc[r] \in {"info", "authorize", "create"}
    BY <1>2 DEF Proceed, Info, Authorize, Create, Copy, Record, Probe, Mark, Recheck, Unlink, Anonymize, DeleteAccount,
       Revoke, Fail, CopyFails, RecordFails, MarkFails, UnlinkFails, EraseFails, Goto, Answer, IInv, TypeOK
  <2> QED
    BY <2>1, <2>2, <2>3 DEF RequestsComeOnce
<1>3. CASE ~(Start(r) \/ Proceed(r) \/ Fail(r))
  <2>1. job'[r] = job[r] /\ new'[r] = new[r] /\ (pc'[r] = pc[r] \/ pc'[r] = "failed")
    BY <1>3, RequestMoves DEF IInv
  <2>2. pc[r] = "idle" => r \notin overlap'
    <3> SUFFICES ASSUME pc[r] = "idle", r \in overlap' PROVE FALSE
      OBVIOUS
    <3>1. r \notin overlap /\ ~Running(r)
      BY DEF RequestsComeOnce, Running, Active
    <3>2. ASSUME NEW q \in Requests, Start(q) PROVE FALSE
      <4>1. q # r
        BY <1>3, <3>2
      <4>2. overlap' \subseteq overlap \union {q}
        BY <3>2, StartFacts
      <4> QED
        BY <3>1, <4>1, <4>2
    <3>3. ASSUME NEW q \in Requests, Proceed(q) \/ Fail(q) PROVE FALSE
      BY <3>1, <3>3, HandlerMoves DEF Anonymize
    <3>4. ASSUME NEW u \in Users, Login(u) \/ Export(u) PROVE FALSE
      BY <3>1, <3>4 DEF Login, Export, sessions
    <3>5. ASSUME NEW s \in Slugs, Sweep(s) \/ SweepFails(s) PROVE FALSE
      BY <3>1, <3>5 DEF Sweep, SweepFails, sessions
    <3>6. CASE Crash \/ Startup \/ Serve \/ UNCHANGED vars
      BY <3>1, <3>6 DEF Crash, Startup, Serve, vars, sessions
    <3> QED
      BY <3>2, <3>3, <3>4, <3>5, <3>6 DEF Next
  <2> QED
    BY <2>1, <2>2 DEF RequestsComeOnce
<1> QED
  BY <1>1, <1>2, <1>3

(* Who wrote to a name has done so for good.                               *)
LEMMA WriterStays ==
  ASSUME IInv, RequestsComeOnce, [Next]_vars, NEW r \in Requests, pc[r] # "idle", NEW s \in Slugs, WroteTo(r, s)
  PROVE  job'[r] = job[r] /\ User(r)' = User(r) /\ WroteTo(r, s)'
<1>1. job'[r] = job[r]
  BY StartFacts, HandlerMoves, RequestMoves DEF IInv
<1>2. new'[r] = new[r] \/ new[r] = NoSlug
  <2>1. Create(r) => new[r] = NoSlug
    BY DEF Create, RequestsComeOnce
  <2> QED
    BY <2>1, StartFacts, HandlerMoves, RequestMoves DEF IInv
<1>3. s # NoSlug
  BY BlobAssumption
<1> QED
  BY <1>1, <1>2, <1>3 DEF WroteTo, Old, User

LEMMA AllowedKept ==
  ASSUME EInv, [Next]_vars
  PROVE  RunsAreAllowed'
<1> SUFFICES ASSUME NEW r \in Requests, Running(r)', revoked'[job'[r].user] > 0
             PROVE  job'[r].token > revoked'[job'[r].user] \/ r \in overlap'
  BY DEF RunsAreAllowed, User
<1>0. IInv
  BY DEF EInv
<1>1. CASE Start(r)
  BY <1>0, <1>1, StartFacts
<1>2. CASE ~Start(r)
  <2>1. Running(r) /\ job'[r] = job[r]
    BY <1>0, <1>2, HandlerMoves, RequestMoves DEF IInv, Running, Active
  <2>2. User(r) \in Users /\ User(r) = job'[r].user
    BY <1>0, <2>1, JobFacts DEF IInv, User
  <2>3. CASE revoked'[User(r)] = revoked[User(r)]
    BY <1>0, <2>1, <2>2, <2>3, SessionsMove DEF EInv, RunsAreAllowed
  <2>4. CASE revoked'[User(r)] = 0
    BY <2>2, <2>4
  <2>5. ASSUME NEW e \in Requests, pc[e] = "revoke", User(e) = User(r), overlap' = overlap PROVE r \in overlap'
    BY <2>1, <2>2, <2>5 DEF EInv, OpenErasuresSee, ErasureOpen
  <2> QED
    BY <1>0, <2>2, <2>3, <2>4, <2>5, SessionsMove
<1> QED
  BY <1>1, <1>2

(* An erasure is open only after its first step.                           *)
LEMMA ErasuresOpen ==
  ASSUME IInv, [Next]_vars, NEW u \in Users, ErasureOpen(u)', ~ErasureOpen(u)
  PROVE  \E e \in Requests : Anonymize(e) /\ User(e) = u
<1>1. PICK e \in Requests : User(e)' = u /\ pc'[e] \in {"account", "revoke"}
  BY DEF ErasureOpen
<1>2. ~Start(e)
  BY <1>1, StartFacts
<1>3. job'[e] = job[e] /\ User(e) = u
  BY <1>1, <1>2, HandlerMoves, RequestMoves DEF IInv, User
<1>4. pc[e] \notin {"account", "revoke"}
  BY <1>3 DEF ErasureOpen
<1>5. Proceed(e) \/ Fail(e)
  BY <1>1, <1>2, <1>4, RequestMoves DEF IInv
<1>6. Anonymize(e)
  BY <1>1, <1>4, <1>5 DEF Proceed, Info, Authorize, Create, Copy, Record, Probe, Mark, Recheck, Unlink, DeleteAccount,
     Revoke, Fail, CopyFails, RecordFails, MarkFails, UnlinkFails, EraseFails, Goto, Answer, IInv, TypeOK
<1> QED
  BY <1>3, <1>6

LEMMA SeenKept ==
  ASSUME EInv, [Next]_vars
  PROVE  OpenErasuresSee'
<1>0. IInv /\ RequestsComeOnce
  BY DEF EInv
<1> SUFFICES ASSUME NEW u \in Users, ErasureOpen(u)'
             PROVE  /\ \A r \in Requests : Running(r)' /\ User(r)' = u => r \in overlap'
                    /\ \A s \in Slugs : Names(s, u)' => \E r \in overlap' : User(r)' = u /\ WroteTo(r, s)'
  BY DEF OpenErasuresSee
<1>1. overlap \subseteq Requests /\ overlap \subseteq overlap'
  BY <1>0, SessionsMove DEF IInv, TypeOK
<1>2. ASSUME NEW r \in Requests, Running(r)', ~Start(r) PROVE Running(r) /\ User(r)' = User(r)
  BY <1>0, <1>2, HandlerMoves, RequestMoves DEF IInv, Running, Active, User
<1>3. CASE ErasureOpen(u)
  <2>1. ASSUME NEW r \in Requests, Running(r)', User(r)' = u PROVE r \in overlap'
    <3>1. CASE Start(r)
      BY <1>0, <1>3, <2>1, <3>1, StartFacts DEF User
    <3>2. CASE ~Start(r)
      BY <1>1, <1>2, <1>3, <2>1, <3>2 DEF EInv, OpenErasuresSee
    <3> QED
      BY <3>1, <3>2
  <2>2. ASSUME NEW s \in Slugs, Names(s, u)' PROVE \E r \in overlap' : User(r)' = u /\ WroteTo(r, s)'
    <3>1. PICK r \in overlap : User(r) = u /\ WroteTo(r, s)
      <4>1. CASE Names(s, u)
        BY <1>3, <4>1 DEF EInv, OpenErasuresSee
      <4>2. CASE ~Names(s, u)
        <5>1. PICK r \in Requests : Running(r) /\ User(r) = u /\ WroteTo(r, s)
          BY <1>0, <2>2, <4>2, NamesAreWritten
        <5> QED
          BY <1>3, <5>1 DEF EInv, OpenErasuresSee
      <4> QED
        BY <4>1, <4>2
    <3>2. r \in Requests /\ pc[r] # "idle"
      BY <1>0, <1>1, <3>1 DEF RequestsComeOnce
    <3> QED
      BY <1>0, <1>1, <3>1, <3>2, WriterStays
  <2> QED
    BY <2>1, <2>2
<1>4. CASE ~ErasureOpen(u)
  <2>1. PICK e \in Requests : Anonymize(e) /\ User(e) = u
    BY <1>0, <1>4, ErasuresOpen
  <2>2. /\ \A s \in Slugs : ~Names(s, u)'
        /\ overlap' = overlap \union {q \in Requests : Running(q) /\ User(q) = u}
        /\ job' = job
    BY <1>0, <2>1, AnonymizeForgets
  <2>3. ASSUME NEW r \in Requests, Running(r)', User(r)' = u PROVE r \in overlap'
    <3>1. ~Start(r)
      <4>1. Start(r) => pc[r] = "idle" /\ pc'[r] \notin {"idle"}
        BY <1>0, StartFacts
      <4>2. pc[e] = "anonymize" /\ pc' = [pc EXCEPT ![e] = "account"]
        BY <2>1 DEF Anonymize, Goto
      <4> QED
        BY <1>0, <4>1, <4>2 DEF IInv, TypeOK
    <3> QED
      BY <1>2, <2>2, <2>3, <3>1
  <2> QED
    BY <2>2, <2>3
<1> QED
  BY <1>3, <1>4

LEMMA ForgetsKept ==
  ASSUME EInv, [Next]_vars
  PROVE  ErasureForgets'
<1>0. IInv /\ RequestsComeOnce
  BY DEF EInv
<1> SUFFICES ASSUME NEW u \in Users, NEW s \in Slugs, revoked'[u] > 0, Names(s, u)'
             PROVE  \E r \in Requests : /\ User(r)' = u /\ WroteTo(r, s)'
                                        /\ job'[r].token > revoked'[u] \/ r \in overlap'
  BY DEF ErasureForgets
<1>1. overlap \subseteq Requests /\ overlap \subseteq overlap' /\ revoked[u] \in Nat
  BY <1>0, BlobAssumption, SessionsMove DEF IInv, TypeOK
<1>2. CASE revoked'[u] = revoked[u]
  <2>1. PICK r \in Requests : /\ User(r) = u /\ WroteTo(r, s)
                              /\ job[r].token > revoked[u] \/ r \in overlap
    <3>1. CASE Names(s, u)
      BY <1>2, <3>1 DEF EInv, ErasureForgets
    <3>2. CASE ~Names(s, u)
      BY <1>0, <1>2, <3>2, NamesAreWritten DEF EInv, RunsAreAllowed
    <3> QED
      BY <3>1, <3>2
  <2>2. pc[r] # "idle"
    BY <1>0, <1>1, <2>1 DEF RequestsComeOnce
  <2> QED
    BY <1>0, <1>1, <1>2, <2>1, <2>2, WriterStays
<1>3. ASSUME NEW e \in Requests, pc[e] = "revoke", User(e) = u, UNCHANGED <<registry, job, new, overlap>>
      PROVE  \E r \in overlap' : User(r)' = u /\ WroteTo(r, s)'
  <2>1. Names(s, u) /\ ErasureOpen(u)
    BY <1>3 DEF Names, ErasureOpen
  <2>2. PICK r \in overlap : User(r) = u /\ WroteTo(r, s)
    BY <2>1 DEF EInv, OpenErasuresSee
  <2> QED
    BY <1>3, <2>2 DEF User, WroteTo, Old
<1> QED
  BY <1>0, <1>1, <1>2, <1>3, SessionsMove

(* After an erasure no row names the user again, except by a request that  *)
(* came with a newer token or that overlaps the erasure (EraseAsync,       *)
(* Revoke, OnTokenValidated).                                              *)
THEOREM ErasuresForget == Spec => []ErasureForgets
<1>1. Init => EInv
  <2> SUFFICES ASSUME Init PROVE EInv
    OBVIOUS
  <2>1. \A r \in Requests : pc[r] = "idle" /\ ~Running(r) /\ new[r] = NoSlug /\ job[r].token = 0
    BY DEF Init, Running, Active, NoJob
  <2>2. overlap = {} /\ \A u \in Users : revoked[u] = 0 /\ ~ErasureOpen(u)
    BY <2>1 DEF Init, ErasureOpen
  <2> QED
    BY <2>1, <2>2, InitInv DEF EInv, RequestsComeOnce, OpenErasuresSee, RunsAreAllowed, ErasureForgets
<1>2. EInv /\ [Next]_vars => EInv'
  BY NextInv, OnceKept, AllowedKept, SeenKept, ForgetsKept DEF EInv
<1>3. EInv => ErasureForgets
  BY DEF EInv
<1> QED
  BY <1>1, <1>2, <1>3, PTL DEF Spec

-----------------------------------------------------------------------------
(* Refinement: every step publishes one name for the first time, deletes   *)
(* one present name, or leaves the catalogue alone.                        *)

(* The status is a matter of the row, and of the file only for a legacy    *)
(* slug without one.                                                       *)
LEMMA StatusKept ==
  ASSUME NEW s \in Slugs,
         HasRow(s)' <=> HasRow(s), MarkedDeleted(s)' <=> MarkedDeleted(s),
         ~HasRow(s) /\ s \in Legacy => disk'[s] = disk[s]
  PROVE  Status(s)' = Status(s)
BY DEF Status

(* At most the status of t changes in this step, and as the catalogue      *)
(* allows.                                                                 *)
Lawful(t) ==
  /\ \A s \in Slugs \ {t} : Status(s)' = Status(s)
  /\ \/ Status(t)' = Status(t)
     \/ Status(t) = "unborn" /\ Status(t)' = "present"
     \/ Status(t) = "present" /\ Status(t)' = "deleted"

LEMMA RecordIsLawful == ASSUME DInv, NEW r \in Requests, Record(r) PROVE \E t \in Slugs : Lawful(t)
<1>0. PICK t \in Slugs : t = new[r]
  BY RecordRows DEF DInv
<1>1. t \notin Legacy /\ ~HasRow(t)
  BY <1>0, RecordRows DEF DInv, LegacyKnown
<1>2. Status(t) = "unborn"
  BY <1>1 DEF Status
<1>3. new' = new /\ disk' = disk
  BY DEF Record
<1>4. Status(t)' = "present"
  <2>1. HasRow(t)' /\ ~MarkedDeleted(t)'
    BY <1>0, <1>3, RecordRows DEF DInv, Present, HasRow, MarkedDeleted
  <2> QED
    BY <2>1 DEF Status
<1>5. ASSUME NEW s \in Slugs \ {t} PROVE Status(s)' = Status(s)
  BY <1>0, <1>3, <1>5, RecordRows, StatusKept DEF DInv, HasRow, MarkedDeleted
<1> QED
  BY <1>2, <1>4, <1>5 DEF Lawful

LEMMA MarkIsLawful == ASSUME DInv, NEW r \in Requests, Mark(r) PROVE \E t \in Slugs : Lawful(t)
<1>1. PICK t \in Slugs : t = Old(r)
  BY MarkRows DEF DInv
<1>2. disk' = disk /\ \A s \in Slugs \ {t} : registry'[s] = registry[s]
  BY <1>1, MarkRows DEF Mark, DInv
<1>3. ASSUME NEW s \in Slugs \ {t} PROVE Status(s)' = Status(s)
  BY <1>2, <1>3, StatusKept DEF HasRow, MarkedDeleted
<1>4. CASE ~HasRow(t)
  <2>1. registry' = registry
    BY <1>1, <1>4, MarkRows DEF DInv
  <2>2. Status(t)' = Status(t)
    BY <1>2, <2>1, StatusKept DEF HasRow, MarkedDeleted
  <2> QED
    BY <1>3, <2>2 DEF Lawful
<1>5. CASE MarkedDeleted(t)
  <2>1. HasRow(t) /\ RowKept(t)
    BY <1>1, <1>5, MarkRows DEF DInv, MarkedDeleted, HasRow, NoRow
  <2>2. Status(t)' = Status(t)
    BY <1>5, <2>1, StatusKept DEF RowKept
  <2> QED
    BY <1>3, <2>2 DEF Lawful
<1>6. CASE Present(t)
  <2>1. Status(t) = "present" /\ HasRow(t)
    BY <1>6 DEF Status, Present, MarkedDeleted
  <2>2. registry' = [registry EXCEPT ![t].deletedBy = Named(User(r))] /\ registry[t] \in Row
    BY <1>1, <1>6 DEF Mark, Present, HasRow, DInv, IInv, TypeOK
  <2>3. registry'[t].deletedBy = Named(User(r)) /\ User(r) \in Users
    BY <2>2, JobFacts DEF DInv, IInv, TypeOK, Row
  <2>4. MarkedDeleted(t)'
    BY <2>3, NewRowFacts DEF MarkedDeleted
  <2>5. Status(t)' = "deleted"
    BY <1>1, <2>1, <2>4, MarkRows DEF Status, DInv, RowKept
  <2> QED
    BY <1>3, <2>1, <2>5 DEF Lawful
<1> QED
  BY <1>4, <1>5, <1>6 DEF Present, MarkedDeleted

LEMMA AnonymizeIsIdle == ASSUME DInv, NEW r \in Requests, Anonymize(r), NEW s \in Slugs PROVE Status(s)' = Status(s)
<1>1. disk' = disk
  BY DEF Anonymize
<1> QED
  BY <1>1, AnonymizeRows, StatusKept DEF DInv, RowKept

(* Removing the file of a legacy slug without a row deletes it; the file   *)
(* of any other slug says nothing to the catalogue.                        *)
LEMMA UnlinkIsLawful == ASSUME DInv, NEW r \in Requests, Unlink(r) PROVE \E t \in Slugs : Lawful(t)
<1>1. PICK t \in Slugs : t = Old(r)
  BY DEF Unlink, DInv, IInv, TypeOK, StagesFitKinds, TargetsKnown, Removing
<1>2. registry' = registry /\ disk' = [disk EXCEPT ![t] = "absent"]
  BY <1>1 DEF Unlink
<1>3. ASSUME NEW s \in Slugs \ {t} PROVE Status(s)' = Status(s)
  BY <1>2, <1>3, StatusKept DEF HasRow, MarkedDeleted, DInv, IInv, TypeOK
<1>4. CASE HasRow(t) \/ t \notin Legacy
  BY <1>2, <1>3, <1>4, StatusKept DEF HasRow, MarkedDeleted, Lawful
<1>5. CASE ~HasRow(t) /\ t \in Legacy
  <2>1. Status(t) \in {"present", "deleted"}
    BY <1>5 DEF Status
  <2>2. disk'[t] = "absent" /\ ~HasRow(t)'
    BY <1>2, <1>5 DEF HasRow, DInv, IInv, TypeOK
  <2>3. Status(t)' = "deleted"
    BY <1>5, <2>2 DEF Status
  <2> QED
    BY <1>3, <2>1, <2>3 DEF Lawful
<1> QED
  BY <1>4, <1>5

(* Saves write files under unknown names, the sweep removes files that     *)
(* have a row: neither is seen in the catalogue.                           *)
LEMMA OtherStepsAreIdle ==
  ASSUME DInv, [Next]_vars, NEW s \in Slugs,
         \A r \in Requests : ~(Record(r) \/ Mark(r) \/ Anonymize(r) \/ Unlink(r))
  PROVE  Status(s)' = Status(s)
<1>1. registry' = registry
  BY RegistryWriters
<1>2. ASSUME ~HasRow(s), s \in Legacy PROVE disk'[s] = disk[s]
  <2>1. s \in known
    BY <1>2 DEF DInv, LegacyKnown
  <2>2. ASSUME NEW r \in Requests, Start(r) PROVE disk' = disk
    BY <2>2 DEF Start, Begin, files
  <2>3. ASSUME NEW r \in Requests, Proceed(r) PROVE disk'[s] = disk[s]
    <3>1. CASE Create(r)
      BY <2>1, <3>1 DEF Create, FreshSlug, DInv, IInv, TypeOK
    <3>2. CASE Copy(r)
      BY <2>1, <3>2 DEF Copy, DInv, IInv, TypeOK, SavesHidden, Saving
    <3>3. CASE ~(Create(r) \/ Copy(r))
      BY <2>3, <3>3 DEF Proceed, Info, Authorize, Probe, Recheck, DeleteAccount, Revoke, files
    <3> QED
      BY <3>1, <3>2, <3>3
  <2>4. ASSUME NEW r \in Requests, Fail(r) PROVE disk'[s] = disk[s]
    <3>1. CASE CopyFails(r)
      BY <2>1, <3>1 DEF CopyFails, DInv, IInv, TypeOK, SavesHidden, Saving
    <3>2. CASE ~CopyFails(r)
      BY <2>4, <3>2 DEF Fail, RecordFails, MarkFails, UnlinkFails, EraseFails, files
    <3> QED
      BY <3>1, <3>2
  <2>5. ASSUME NEW u \in Users, Login(u) \/ Export(u) PROVE disk' = disk
    BY <2>5 DEF Login, Export, files
  <2>6. ASSUME NEW t \in Slugs, Sweep(t) \/ SweepFails(t) PROVE disk'[s] = disk[s]
    <3>1. HasRow(t)
      BY <2>6 DEF Sweep, SweepFails, DInv, IInv, PendingMarked, MarkedDeleted, HasRow, NoRow
    <3> QED
      BY <1>2, <2>6, <3>1 DEF Sweep, SweepFails, DInv, IInv, TypeOK
  <2>7. CASE Crash \/ Startup \/ Serve \/ UNCHANGED vars
    BY <2>7 DEF Crash, Startup, Serve, vars, files
  <2> QED
    BY <2>2, <2>3, <2>4, <2>5, <2>6, <2>7 DEF Next
<1> QED
  BY <1>1, <1>2, StatusKept DEF HasRow, MarkedDeleted

LEMMA InitRefines == Init => Catalog!Init
<1> SUFFICES ASSUME Init, NEW s \in Slugs
             PROVE  Status(s) = IF s \in Legacy THEN "present" ELSE "unborn"
  BY DEF Catalog!Init
<1>1. HasRow(s) => s \in Legacy
  BY DEF Init, HasRow
<1>2. ~MarkedDeleted(s)
  BY NewRowFacts, BlobAssumption DEF Init, MarkedDeleted, NoRow
<1>3. s \in Legacy => disk[s] = "whole"
  BY DEF Init
<1> QED
  BY <1>1, <1>2, <1>3 DEF Status

LEMMA NextRefines == DInv /\ [Next]_vars => [Catalog!Next]_([s \in Slugs |-> Status(s)])
<1> SUFFICES ASSUME DInv, [Next]_vars
             PROVE  Catalog!Next \/ [s \in Slugs |-> Status(s)]' = [s \in Slugs |-> Status(s)]
  OBVIOUS
<1>1. ASSUME NEW t \in Slugs, Lawful(t)
      PROVE  Catalog!Next \/ [s \in Slugs |-> Status(s)]' = [s \in Slugs |-> Status(s)]
  <2>1. CASE Status(t)' = Status(t)
    BY <1>1, <2>1 DEF Lawful
  <2>2. CASE Status(t) = "unborn" /\ Status(t)' = "present"
    <3>1. [s \in Slugs |-> Status(s)][t] = "unborn"
      BY <2>2
    <3>2. \A s \in Slugs : Status(s)' = IF s = t THEN "present" ELSE Status(s)
      BY <1>1, <2>2 DEF Lawful
    <3>3. [s \in Slugs |-> Status(s)]' = [[s \in Slugs |-> Status(s)] EXCEPT ![t] = "present"]
      BY <3>2
    <3> QED
      BY <3>1, <3>3 DEF Catalog!Next, Catalog!Publish
  <2>3. CASE Status(t) = "present" /\ Status(t)' = "deleted"
    <3>1. [s \in Slugs |-> Status(s)][t] = "present"
      BY <2>3
    <3>2. \A s \in Slugs : Status(s)' = IF s = t THEN "deleted" ELSE Status(s)
      BY <1>1, <2>3 DEF Lawful
    <3>3. [s \in Slugs |-> Status(s)]' = [[s \in Slugs |-> Status(s)] EXCEPT ![t] = "deleted"]
      BY <3>2
    <3> QED
      BY <3>1, <3>3 DEF Catalog!Next, Catalog!Delete
  <2> QED
    BY <1>1, <2>1, <2>2, <2>3 DEF Lawful
<1>2. ASSUME NEW r \in Requests, Record(r) \/ Mark(r) \/ Unlink(r)
      PROVE  \E t \in Slugs : Lawful(t)
  BY <1>2, RecordIsLawful, MarkIsLawful, UnlinkIsLawful
<1>3. ASSUME NEW r \in Requests, Anonymize(r) PROVE [s \in Slugs |-> Status(s)]' = [s \in Slugs |-> Status(s)]
  BY <1>3, AnonymizeIsIdle
<1>4. CASE \A r \in Requests : ~(Record(r) \/ Mark(r) \/ Anonymize(r) \/ Unlink(r))
  <2>1. \A s \in Slugs : Status(s)' = Status(s)
    BY <1>4, OtherStepsAreIdle
  <2> QED
    BY <2>1
<1> QED
  BY <1>1, <1>2, <1>3, <1>4

(* The store implements the catalogue of BlobCatalog: a name is published  *)
(* once, deleted once and never comes back, through every interleaving of  *)
(* saves, deletions, erasures, crashes and sweeps.                         *)
THEOREM StoreIsCatalog == Spec => ImplementsCatalog
<1>1. Init => Catalog!Init
  BY InitRefines
<1>2. DInv /\ [Next]_vars => [Catalog!Next]_([s \in Slugs |-> Status(s)])
  BY NextRefines
<1> QED
  BY <1>1, <1>2, DeletionInvariance, PTL DEF Spec, ImplementsCatalog, Catalog!Spec
=============================================================================
