----------------------------- MODULE ByteCache -----------------------------
(***************************************************************************)
(* The resized images of GET blob/{slug}?webopt: BoundedByteCache with its *)
(* coalescing of concurrent requests, and the semaphore of the decodes     *)
(* (EngineBlobController).  Callers run on threads of their own, so every  *)
(* access to the shared cache, dictionary or semaphore is a step.          *)
(*                                                                         *)
(* A Lazy is named by the request that put it in the dictionary.           *)
(***************************************************************************)
EXTENDS Naturals, FiniteSets

CONSTANTS
  Callers,         \* calls of GetOrCreateAsync, each used once
  Variants,        \* slug and size
  DecodeSlots,     \* ResizeSlots, one per core
  NoCall,
  MaxDecodeFaults  \* bound: decodes that throw

ASSUME CacheAssumption ==
  /\ DecodeSlots \in Nat \ {0}
  /\ NoCall \notin Callers
  /\ MaxDecodeFaults \in Nat

VARIABLES
  callPc,    \* [Callers -> CallStage], the call
  variant,   \* [Callers -> Variants]
  lazyOf,    \* [Callers -> Callers \union {NoCall}], the Lazy it awaits
  lazy,      \* [Callers -> LazyStage], the Lazy the request has made
  underWay,  \* [Variants -> Callers \union {NoCall}], _inProgress
  cached,    \* SUBSET Variants, _cache
  free,      \* free slots
  decodeFaults

cacheVars == <<callPc, variant, lazyOf, lazy, underWay, cached, free, decodeFaults>>

-----------------------------------------------------------------------------
CallStage == {"new", "missed", "claimed", "waiting", "hit", "served", "failed"}
LazyStage == {"none", "made", "queued", "decoding", "decoded", "done", "failed"}

Running(j) == lazy[j] \in {"queued", "decoding", "decoded"}
Decoding == {j \in Callers : lazy[j] = "decoding"}
Over(j) == lazy[j] \in {"done", "failed"}

CacheInit ==
  /\ callPc = [r \in Callers |-> "new"]
  /\ variant \in [Callers -> Variants]
  /\ lazyOf = [r \in Callers |-> NoCall]
  /\ lazy = [r \in Callers |-> "none"]
  /\ underWay = [k \in Variants |-> NoCall]
  /\ cached = {}
  /\ free = DecodeSlots
  /\ decodeFaults = 0

-----------------------------------------------------------------------------
TryGet(r) ==
  /\ callPc[r] = "new"
  /\ callPc' = [callPc EXCEPT ![r] = IF variant[r] \in cached THEN "hit" ELSE "missed"]
  /\ UNCHANGED <<variant, lazyOf, lazy, underWay, cached, free, decodeFaults>>

(* GetOrAdd: the Lazy already there, or one's own.                         *)
Claim(r) ==
  /\ callPc[r] = "missed"
  /\ callPc' = [callPc EXCEPT ![r] = "claimed"]
  /\ IF underWay[variant[r]] = NoCall
       THEN /\ underWay' = [underWay EXCEPT ![variant[r]] = r]
            /\ lazy' = [lazy EXCEPT ![r] = "made"]
            /\ lazyOf' = [lazyOf EXCEPT ![r] = r]
       ELSE /\ lazyOf' = [lazyOf EXCEPT ![r] = underWay[variant[r]]]
            /\ UNCHANGED <<underWay, lazy>>
  /\ UNCHANGED <<variant, cached, free, decodeFaults>>

(* lazy.Value: whoever asks first runs the factory, up to its first await. *)
AwaitValue(r) ==
  /\ callPc[r] = "claimed"
  /\ callPc' = [callPc EXCEPT ![r] = "waiting"]
  /\ lazy' = [lazy EXCEPT ![lazyOf[r]] = IF @ = "made" THEN "queued" ELSE @]
  /\ UNCHANGED <<variant, lazyOf, underWay, cached, free, decodeFaults>>

(* The semaphore lets one in.                                              *)
Admit(j) ==
  /\ lazy[j] = "queued"
  /\ free > 0
  /\ free' = free - 1
  /\ lazy' = [lazy EXCEPT ![j] = "decoding"]
  /\ UNCHANGED <<callPc, variant, lazyOf, underWay, cached, decodeFaults>>

Decode(j) ==
  /\ lazy[j] = "decoding"
  /\ lazy' = [lazy EXCEPT ![j] = "decoded"]
  /\ free' = free + 1
  /\ UNCHANGED <<callPc, variant, lazyOf, underWay, cached, decodeFaults>>

(* Mutant: the slot of a decode that throws is not released.               *)
DecodeFailsWithSlot(j) ==
  /\ lazy[j] = "decoding"
  /\ decodeFaults < MaxDecodeFaults
  /\ decodeFaults' = decodeFaults + 1
  /\ lazy' = [lazy EXCEPT ![j] = "failed"]
  /\ UNCHANGED <<callPc, variant, lazyOf, underWay, cached, free>>

(* Corrupt image, file gone: finally, the slot is released.                *)
DecodeFails(j) ==
  /\ lazy[j] = "decoding"
  /\ decodeFaults < MaxDecodeFaults
  /\ decodeFaults' = decodeFaults + 1
  /\ lazy' = [lazy EXCEPT ![j] = "failed"]
  /\ free' = free + 1
  /\ UNCHANGED <<callPc, variant, lazyOf, underWay, cached>>

(* Set: a value larger than the room left is not kept.                     *)
Store(j) ==
  /\ lazy[j] = "decoded"
  /\ lazy' = [lazy EXCEPT ![j] = "done"]
  /\ cached' \in {cached, cached \union {variant[j]}}
  /\ UNCHANGED <<callPc, variant, lazyOf, underWay, free, decodeFaults>>

(* The call resumes, some time after the task has ended; finally, it       *)
(* removes the entry of its key, whosever it is.                           *)
Leave(r) ==
  /\ callPc[r] = "waiting"
  /\ Over(lazyOf[r])
  /\ callPc' = [callPc EXCEPT ![r] = IF lazy[lazyOf[r]] = "done" THEN "served" ELSE "failed"]
  /\ underWay' = [underWay EXCEPT ![variant[r]] = NoCall]
  /\ UNCHANGED <<variant, lazyOf, lazy, cached, free, decodeFaults>>

(* MemoryCache compacts when its limit is reached.                         *)
Evict(k) ==
  /\ k \in cached
  /\ cached' = cached \ {k}
  /\ UNCHANGED <<callPc, variant, lazyOf, lazy, underWay, free, decodeFaults>>

Call(r) == Claim(r) \/ AwaitValue(r) \/ Leave(r)
Factory(j) == Admit(j) \/ Decode(j) \/ Store(j)

CacheNext ==
  \/ \E r \in Callers : TryGet(r) \/ Call(r) \/ Factory(r) \/ DecodeFails(r)
  \/ \E k \in Variants : Evict(k)

(* Threads run.  The semaphore serves its waiters in order, so one that    *)
(* waits is admitted although others get slots meanwhile.                  *)
CacheFairness ==
  \A r \in Callers : WF_cacheVars(Call(r)) /\ WF_cacheVars(Decode(r) \/ Store(r)) /\ SF_cacheVars(Admit(r))

CacheSpec == CacheInit /\ [][CacheNext]_cacheVars
FairCacheSpec == CacheSpec /\ CacheFairness

-----------------------------------------------------------------------------
CacheTypeOK ==
  /\ callPc \in [Callers -> CallStage]
  /\ variant \in [Callers -> Variants]
  /\ lazyOf \in [Callers -> Callers \union {NoCall}]
  /\ lazy \in [Callers -> LazyStage]
  /\ underWay \in [Variants -> Callers \union {NoCall}]
  /\ cached \subseteq Variants
  /\ free \in 0..DecodeSlots
  /\ decodeFaults \in 0..MaxDecodeFaults

(* Free slots and decodes always add up: none leaks when a decode throws,  *)
(* none is given twice (the finally of the factory).                       *)
SlotsExact == free + Cardinality(Decoding) = DecodeSlots

(* An entry of the dictionary is of a call still inside its try: when all  *)
(* have gone, also after a failure, the next request decodes again         *)
(* (GetOrCreateAsync, finally).                                            *)
EntriesHaveTheirMaker ==
  \A k \in Variants : underWay[k] # NoCall =>
    variant[underWay[k]] = k /\ callPc[underWay[k]] \in {"claimed", "waiting"}

(* Callers that come together share one decode: a second one of the same  *)
(* key runs only once an earlier one of that key is over (GetOrAdd, Lazy). *)
FirstWaveShares ==
  \A i, j \in Callers : i # j /\ Running(i) /\ Running(j) /\ variant[i] = variant[j] =>
    \E l \in Callers : Over(l) /\ variant[l] = variant[i]

(* The decodes stay right together: no slot leaks, no entry of the         *)
(* dictionary is left behind, who comes together shares.                   *)
CacheSafe == SlotsExact /\ EntriesHaveTheirMaker /\ FirstWaveShares

(* The documented promise (BoundedByteCache.cs:44): once per key, also     *)
(* with concurrent requests; never two decodes of a key at the same time.  *)
OneDecodePerKey ==
  \A i, j \in Callers : Running(i) /\ Running(j) /\ variant[i] = variant[j] => i = j

(* Every call ends, also when the decode of another one throws.            *)
CallsEnd == \A r \in Callers : callPc[r] = "missed" ~> callPc[r] \in {"served", "failed"}

-----------------------------------------------------------------------------
(* Why it holds: what a request has made and what it awaits.               *)
MakersWait ==
  \A r \in Callers :
    /\ lazy[r] # "none" => lazyOf[r] = r
    /\ callPc[r] \in {"new", "missed", "hit"} => lazy[r] = "none" /\ lazyOf[r] = NoCall
    /\ callPc[r] \in {"claimed", "waiting", "served", "failed"} =>
         /\ lazyOf[r] # NoCall
         /\ lazy[lazyOf[r]] # "none"
         /\ variant[lazyOf[r]] = variant[r]
    /\ callPc[r] = "waiting" => lazy[lazyOf[r]] # "made"

EntriesMade == \A k \in Variants : underWay[k] # NoCall => lazy[underWay[k]] # "none"

(* A Lazy leaves the dictionary only when one of its key is over.          *)
ListedUntilOver ==
  \A j \in Callers : lazy[j] = "made" \/ Running(j) =>
    underWay[variant[j]] = j \/ \E l \in Callers : Over(l) /\ variant[l] = variant[j]

CacheIInv ==
  /\ CacheTypeOK
  /\ IsFiniteSet(Decoding)
  /\ SlotsExact
  /\ EntriesHaveTheirMaker
  /\ EntriesMade
  /\ MakersWait
  /\ ListedUntilOver
=============================================================================
