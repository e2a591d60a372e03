---------------------------- MODULE BlobCatalog ----------------------------
(***************************************************************************)
(* What the store of the uploaded files promises to its readers: a name is *)
(* published at most once and deleted at most once, because GET answers    *)
(* with an immutable cache policy.  How files, rows, requests, crashes and *)
(* sweeps bring it about is the business of BlobLifecycle.                 *)
(***************************************************************************)
CONSTANTS
  Slugs,   \* the names
  Legacy   \* the names published before the first start

VARIABLE status   \* [Slugs -> {"unborn", "present", "deleted"}]

Init == status = [s \in Slugs |-> IF s \in Legacy THEN "present" ELSE "unborn"]

Publish(s) ==
  /\ status[s] = "unborn"
  /\ status' = [status EXCEPT ![s] = "present"]

Delete(s) ==
  /\ status[s] = "present"
  /\ status' = [status EXCEPT ![s] = "deleted"]

Next == \E s \in Slugs : Publish(s) \/ Delete(s)

Spec == Init /\ [][Next]_status
=============================================================================
