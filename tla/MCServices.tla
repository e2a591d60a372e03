----------------------------- MODULE MCServices -----------------------------
(***************************************************************************)
(* The parts of the two servers whose work must come to an end, for TLC:   *)
(* they have no state in common, so one configuration checks each of them, *)
(* and in a behaviour one of them runs while the others stay where they    *)
(* start. Fairness is that of the part that runs.                          *)
(***************************************************************************)
EXTENDS OutcomeDelivery, ImageJobs, ByteCache, ServerProcess

VARIABLE part

\* Of three requests two share a key: the first, as the keys are interchangeable.
MostAskForOneKey ==
  Cardinality({r \in Requests : key[r] = CHOOSE k \in Keys : TRUE}) >= 2

mcVars == <<part, deliveryVars, vars, cacheVars, processVars>>

MCInit ==
  /\ part \in {"outcomes", "images", "bytes", "process"}
  /\ part = "outcomes" \/ (enabled = TRUE /\ channel = [j \in Jobs |-> "Auto"] /\ address = [j \in Jobs |-> TRUE])
  /\ part = "images" \/ (file = [k \in Keys |-> "absent"] /\ key = [r \in Requests |-> CHOOSE k \in Keys : TRUE])
  /\ part = "bytes" \/ variant = [r \in Callers |-> CHOOSE k \in Variants : TRUE]
  /\ part = "process" \/ config = (CHOOSE c \in Configurations : TRUE)
  /\ DeliveryInit /\ Init /\ CacheInit /\ ProcessInit
  /\ MostAskForOneKey

MCNext ==
  /\ UNCHANGED part
  /\ \/ /\ part = "outcomes" /\ DeliveryNext
        /\ UNCHANGED <<vars, cacheVars, processVars>>
     \/ /\ part = "images" /\ Next
        /\ UNCHANGED <<deliveryVars, cacheVars, processVars>>
     \/ /\ part = "bytes" /\ CacheNext
        /\ UNCHANGED <<deliveryVars, vars, processVars>>
     \/ /\ part = "process" /\ ProcessNext
        /\ UNCHANGED <<deliveryVars, vars, cacheVars>>

MCFairness ==
  /\ WF_deliveryVars(part = "outcomes" /\ Worker) /\ WF_deliveryVars(part = "outcomes" /\ Sender)
  /\ \A r \in Requests : WF_vars(part = "images" /\ Handle(r)) /\ WF_vars(part = "images" /\ Work(r))
  /\ \A r \in Callers :
       /\ WF_cacheVars(part = "bytes" /\ Call(r))
       /\ WF_cacheVars(part = "bytes" /\ (Decode(r) \/ Store(r)))
       /\ SF_cacheVars(part = "bytes" /\ Admit(r))
  /\ WF_processVars(part = "process" /\ Boot)
  /\ WF_processVars(part = "process" /\ Drained)
  /\ WF_processVars(part = "process" /\ Forced)
  /\ \A c \in Calls :
       /\ WF_processVars(part = "process" /\ TimesOut(c))
       /\ WF_processVars(part = "process" /\ Drop(c))
       /\ WF_processVars(part = "process" /\ call[c].kind = "page" /\ Completes(c))

MCSpec == MCInit /\ [][MCNext]_mcVars /\ MCFairness
=============================================================================
