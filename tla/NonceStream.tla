----------------------------- MODULE NonceStream -----------------------------
(***************************************************************************)
(* injectCspNonceIntoAppRoot (server/csp.ts): the nonce is written after   *)
(* the first <app-root of a page that passes by in chunks, cut wherever    *)
(* the renderer cuts them.  Only the bytes that may be the beginning of    *)
(* the tag are kept back; the rest flows on at once.                       *)
(***************************************************************************)
EXTENDS Naturals, Sequences, SequencesExt

CONSTANTS
  Bytes,
  Needle,    \* the bytes of "<app-root"
  Nonce,     \* the attribute, as one byte that no page has
  MaxPage    \* bound: bytes of a page

ASSUME NeedleAssumption == Needle \in Seq(Bytes) /\ Needle # <<>> /\ Nonce \notin Bytes

VARIABLES
  passed,   \* the bytes the renderer has written
  injected,
  carry,    \* the bytes kept back
  sent,     \* the bytes the response has
  ended

streamVars == <<passed, injected, carry, sent, ended>>

StreamInit == passed = <<>> /\ injected = FALSE /\ carry = <<>> /\ sent = <<>> /\ ended = FALSE

StartsAt(s, i) == i + Len(Needle) - 1 <= Len(s) /\ SubSeq(s, i, i + Len(Needle) - 1) = Needle
\* Buffer.indexOf, 0 where the needle is not there
IndexOf(s) ==
  LET found == {i \in 1..Len(s) : StartsAt(s, i)}
  IN IF found = {} THEN 0 ELSE CHOOSE i \in found : \A j \in found : i <= j
WithNonce(s, i) ==
  SubSeq(s, 1, i + Len(Needle) - 1) \o <<Nonce>> \o SubSeq(s, i + Len(Needle), Len(s))

\* A slip in which one byte less is kept back.
KeptTooLittle(s) == IF Len(s) < Len(Needle) THEN IF s = <<>> THEN 0 ELSE Len(s) - 1 ELSE Len(Needle) - 2
Kept(s) == IF Len(s) < Len(Needle) THEN Len(s) ELSE Len(Needle) - 1

\* transform
Chunk(chunk) ==
  LET buf == carry \o chunk
      i == IndexOf(buf)
      keep == Kept(buf)
  IN /\ ~ended /\ Len(passed) + Len(chunk) <= MaxPage
     /\ passed' = passed \o chunk
     /\ UNCHANGED ended
     /\ IF injected
        THEN sent' = sent \o chunk /\ UNCHANGED <<injected, carry>>
        ELSE IF i # 0
        THEN /\ injected' = TRUE
             /\ sent' = sent \o WithNonce(buf, i)
             /\ UNCHANGED carry
        ELSE /\ carry' = SubSeq(buf, Len(buf) - keep + 1, Len(buf))
             /\ sent' = sent \o SubSeq(buf, 1, Len(buf) - keep)
             /\ UNCHANGED injected

\* flush: what is kept back is sent, and carry still holds what was kept before the tag came.
Flush ==
  /\ ~ended /\ ended' = TRUE
  /\ sent' = sent \o carry
  /\ UNCHANGED <<passed, injected, carry>>

StreamNext ==
  \/ \E chunk \in BoundedSeq(Bytes, MaxPage) : chunk # <<>> /\ Chunk(chunk)
  \/ Flush
StreamSpec == StreamInit /\ [][StreamNext]_streamVars

-----------------------------------------------------------------------------
(* Properties *)

\* Cut anywhere, the page flows on whole: what was sent and what is kept back are what came,
\* with the nonce after the first tag, also one that two chunks share.
PageFlows ==
  LET i == IndexOf(passed)
  IN ~ended => IF injected THEN i # 0 /\ sent = WithNonce(passed, i)
               ELSE i = 0 /\ sent \o carry = passed

\* Before the tag, what is kept back has room for all but one of its bytes, or is the whole page.
StreamIInv ==
  /\ passed \in Seq(Bytes) /\ carry \in Seq(Bytes) /\ injected \in BOOLEAN
  /\ sent \in Seq(Bytes \cup {Nonce})
  /\ PageFlows
  /\ ~ended /\ ~injected =>
       /\ sent \in Seq(Bytes) /\ Len(carry) < Len(Needle)
       /\ Len(carry) = Len(Needle) - 1 \/ sent = <<>>

\* flush, "byte residui innocui da riconsegnare così come sono" (csp.ts:83-84): the page that
\* arrives is the one rendered, and the nonce.
PageArrives ==
  LET i == IndexOf(passed)
  IN ended => sent = IF i = 0 THEN passed ELSE WithNonce(passed, i)
=============================================================================
