--------------------------- MODULE MCBlobLifecycle ---------------------------
(***************************************************************************)
(* Small instances of BlobLifecycle for TLC.  Requests, and the slugs a    *)
(* save can mint, are interchangeable; a legacy slug and the two users are *)
(* not.                                                                    *)
(***************************************************************************)
EXTENDS BlobLifecycle, TLC

RequestSymmetry == Permutations(Requests)
SaveSymmetry == Permutations(Requests) \union Permutations(Slugs \ Legacy)
=============================================================================
