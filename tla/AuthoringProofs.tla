--------------------------- MODULE AuthoringProofs ---------------------------
(***************************************************************************)
(* What somebody who makes a site relies on: the set-up ceremony, stopped  *)
(* and launched again, the history of the editor, the menus and the        *)
(* colours.  For any names, any checks and any number of launches; for any *)
(* texts, limits of the history and values a form writes; for any items,   *)
(* identities and defaults of a menu; for any brand, palette and roles.    *)
(***************************************************************************)
EXTENDS ProjectSetup, EditorHistory, SiteNav, DesignSystem, SequenceFacts, FiniteSetTheorems

-----------------------------------------------------------------------------
(* ProjectSetup.  The README goes after the last file of the demo.         *)

LEMMA Places ==
  LET closing == <<"README", "CODE_OF_CONDUCT", "CONTRIBUTING", "SECURITY", "checks", "commit">>
  IN  /\ Len(Steps) = 24
      /\ \A i \in 1..6 : Steps[i] = Baptism[i]
      /\ \A i \in 1..12 : Steps[i + 6] = Eject[i]
      /\ \A i \in 1..6 : Steps[i + 18] = closing[i]
<1> DEFINE a == Baptism
           b == Eject
           c == <<"README", "CODE_OF_CONDUCT", "CONTRIBUTING", "SECURITY", "checks", "commit">>
           N == {"settings", "local", "package.json", "ngsw-config", "sln", "ask"}
                \cup Rewritten \cup Stripped \cup TemplateFiles \cup {"checks", "commit"}
<1>1. a \in Seq(N) /\ Len(a) = 6
  BY DEF Baptism, Rewritten, Stripped, TemplateFiles
<1>2. b \in Seq(N) /\ Len(b) = 12
  BY DEF Eject, Rewritten, Stripped, TemplateFiles
<1>3. c \in Seq(N) /\ Len(c) = 6
  BY DEF Rewritten, Stripped, TemplateFiles
<1>4. Steps = a \o b \o c
  BY DEF Steps
<1> HIDE DEF a, b, c, N
<1> DEFINE d == a \o b
<1>5. /\ d \in Seq(N) /\ Len(d) = Len(a) + Len(b)
      /\ \A i \in 1..(Len(a) + Len(b)) : d[i] = IF i <= Len(a) THEN a[i] ELSE b[i - Len(a)]
  BY <1>1, <1>2, ConcatProperties
<1>6. Steps = d \o c
  BY <1>4
<1> HIDE DEF d
<1>7. /\ Len(Steps) = Len(d) + Len(c)
      /\ \A i \in 1..(Len(d) + Len(c)) : Steps[i] = IF i <= Len(d) THEN d[i] ELSE c[i - Len(d)]
  <2>1. /\ Len(d \o c) = Len(d) + Len(c)
        /\ \A i \in 1..(Len(d) + Len(c)) : (d \o c)[i] = IF i <= Len(d) THEN d[i] ELSE c[i - Len(d)]
    <3>1. d \in Seq(N) /\ c \in Seq(N)
      BY <1>3, <1>5
    <3> QED
      BY <3>1, ConcatProperties
  <2> QED
    BY <1>6, <2>1
<1>8. /\ Len(d) = 18 /\ Len(Steps) = 24
      /\ \A i \in 1..18 : d[i] = IF i <= 6 THEN a[i] ELSE b[i - 6]
      /\ \A i \in 1..24 : Steps[i] = IF i <= 18 THEN d[i] ELSE c[i - 18]
  <2>1. Len(a) = 6 /\ Len(b) = 12 /\ Len(c) = 6 /\ 6 + 12 = 18 /\ 18 + 6 = 24
    BY <1>1, <1>2, <1>3
  <2>2. Len(d) = 18 /\ \A i \in 1..18 : d[i] = IF i <= 6 THEN a[i] ELSE b[i - 6]
    BY <1>5, <2>1
  <2>3. Len(Steps) = 24 /\ \A i \in 1..24 : Steps[i] = IF i <= 18 THEN d[i] ELSE c[i - 18]
    BY <1>7, <2>1, <2>2
  <2> QED
    BY <2>2, <2>3
<1>9. ASSUME NEW i \in 1..6 PROVE Steps[i] = a[i]
  <2>1. i \in 1..18 /\ i \in 1..24 /\ i <= 6 /\ i <= 18
    OBVIOUS
  <2> QED
    BY <1>8, <2>1
<1>10. ASSUME NEW i \in 1..12 PROVE Steps[i + 6] = b[i]
  <2>1. i + 6 \in 1..18 /\ i + 6 \in 1..24 /\ ~(i + 6 <= 6) /\ i + 6 <= 18 /\ (i + 6) - 6 = i
    OBVIOUS
  <2> QED
    BY <1>8, <2>1
<1>11. ASSUME NEW i \in 1..6 PROVE Steps[i + 18] = c[i]
  <2>1. i + 18 \in 1..24 /\ ~(i + 18 <= 18) /\ (i + 18) - 18 = i
    OBVIOUS
  <2> QED
    BY <1>8, <2>1
<1> QED
  BY <1>8, <1>9, <1>10, <1>11 DEF a, b, c

LEMMA ReadmeIsAfterTheDemo ==
  ASSUME NEW s \in 1..Len(Steps), Steps[s] = "README"
  PROVE  /\ \A f \in Rewritten \cup Stripped : \E i \in 1..(s - 1) : Steps[i] = f
         /\ \A i \in (s + 1)..Len(Steps) : Steps[i] \notin Rewritten \cup Stripped
<1>1. /\ \A i \in 1..6 : Baptism[i] # "README"
      /\ \A i \in 1..12 : Eject[i] # "README"
      /\ \A f \in Rewritten \cup Stripped : \E i \in 1..12 : Eject[i] = f
  BY DEF Baptism, Eject, Rewritten, Stripped
<1> QED
  BY <1>1, Places DEF Rewritten, Stripped

(* Each step of a launch goes one place on, or ends it.                    *)
LEMMA EjectingKeeps == ASSUME SetupIInv, EjectFile PROVE SetupIInv' /\ ~Initialized
<1>1. PICK f \in Rewritten \cup Stripped :
        /\ At(f) /\ Onward
        /\ \/ /\ content' = [content EXCEPT ![f] = IF f \in Rewritten THEN {} ELSE @ \ {"demo"}]
              /\ skipped' = skipped
           \/ /\ f \in Stripped
              /\ skipped' = skipped \cup {f} /\ content' = content
        /\ package' = package /\ template' = template
  BY DEF EjectFile
<1>2. step \in 1..24 /\ Steps[step] = f /\ step' = step + 1 /\ Steps[24] = "commit" /\ Len(Steps) = 24
  <2>1. 6 \in 1..6 /\ Steps[6 + 18] = "commit"
    BY Places
  <2> QED
    BY <1>1, <2>1, Places DEF At, Onward, SetupIInv
<1>3. f # "commit" /\ step' \in 0..24
  BY <1>2 DEF Rewritten, Stripped
<1>4. /\ content' \in [Rewritten \cup Stripped -> SUBSET {"demo", "own"}] /\ skipped' \subseteq Stripped
      /\ Emptied(f)'
      /\ \A g \in Rewritten \cup Stripped : Emptied(g) => Emptied(g)'
  <2>1. CASE content' = [content EXCEPT ![f] = IF f \in Rewritten THEN {} ELSE @ \ {"demo"}] /\ skipped' = skipped
    BY <2>1 DEF SetupIInv, Emptied
  <2>2. CASE f \in Stripped /\ skipped' = skipped \cup {f} /\ content' = content
    BY <2>2 DEF SetupIInv, Emptied
  <2> QED
    BY <1>1, <2>1, <2>2
<1>5. ~Initialized
  <2> SUFFICES ASSUME Initialized PROVE FALSE
    OBVIOUS
  <2>1. PICK i \in 1..(step - 1) : Steps[i] = "README"
    BY <1>2 DEF SetupIInv, GonePassesReadme
  <2>2. i \in 1..Len(Steps) /\ step \in (i + 1)..Len(Steps)
    BY <1>2
  <2> QED
    BY <1>2, <2>1, <2>2, ReadmeIsAfterTheDemo
<1>6. PassedIsClean'
  <2> SUFFICES ASSUME NEW i \in 1..step, Steps[i] \in DOMAIN content' PROVE Emptied(Steps[i])'
    BY <1>2 DEF PassedIsClean
  <2>1. DOMAIN content' = Rewritten \cup Stripped /\ DOMAIN content = Rewritten \cup Stripped
    BY <1>4 DEF SetupIInv
  <2>2. CASE i = step
    BY <1>2, <1>4, <2>2
  <2>3. CASE i \in 1..(step - 1)
    BY <1>2, <1>4, <2>1, <2>3 DEF SetupIInv, PassedIsClean
  <2> QED
    BY <1>2, <2>2, <2>3
<1>7. template' = template /\ Initialized' = Initialized
  BY <1>1 DEF Initialized
<1> QED
  BY <1>1, <1>2, <1>3, <1>4, <1>5, <1>6, <1>7 DEF SetupIInv, GonePassesReadme, DoneIsClean, Initialized

LEMMA RemovingKeeps == ASSUME SetupIInv, RemoveTemplateFile PROVE SetupIInv'
<1>1. PICK f \in TemplateFiles :
        /\ At(f) /\ Onward
        /\ template' = template \ {f} \/ (f = "SECURITY" /\ template' = template)
        /\ content' = content /\ skipped' = skipped /\ package' = package
  BY DEF RemoveTemplateFile
<1>2. step \in 1..24 /\ Steps[step] = f /\ step' = step + 1 /\ Steps[24] = "commit" /\ Len(Steps) = 24
  <2>1. 6 \in 1..6 /\ Steps[6 + 18] = "commit"
    BY Places
  <2> QED
    BY <1>1, <2>1, Places DEF At, Onward, SetupIInv
<1>3. f # "commit" /\ step' \in 0..24 /\ f \notin Rewritten \cup Stripped
  BY <1>2 DEF TemplateFiles, Rewritten, Stripped
<1>4. PassedIsClean'
  <2> SUFFICES ASSUME NEW i \in 1..step, Steps[i] \in DOMAIN content PROVE Emptied(Steps[i])
    BY <1>1, <1>2 DEF PassedIsClean, Emptied
  <2>1. i # step
    BY <1>2, <1>3 DEF SetupIInv
  <2> QED
    BY <1>2, <2>1 DEF SetupIInv, PassedIsClean
<1>5. GonePassesReadme' /\ DoneIsClean'
  <2>1. CASE f = "README"
    <3>1. step \in 1..(step' - 1)
      BY <1>2
    <3>2. \A g \in Rewritten \cup Stripped : Emptied(g)
      <4> SUFFICES ASSUME NEW g \in Rewritten \cup Stripped PROVE Emptied(g)
        OBVIOUS
      <4>1. PICK i \in 1..(step - 1) : Steps[i] = g
        BY <1>2, <2>1, ReadmeIsAfterTheDemo
      <4> QED
        BY <1>2, <4>1 DEF SetupIInv, PassedIsClean
    <3> QED
      BY <1>1, <1>2, <2>1, <3>1, <3>2 DEF SetupIInv, GonePassesReadme, DoneIsClean, Emptied
  <2>2. CASE f # "README"
    <3>1. \A i \in 1..(step - 1) : i \in 1..(step' - 1)
      BY <1>2
    <3>2. Initialized' = Initialized
      BY <1>1, <2>2 DEF Initialized
    <3> QED
      BY <1>1, <1>2, <3>1, <3>2 DEF SetupIInv, GonePassesReadme, DoneIsClean, Initialized, Emptied
  <2> QED
    BY <2>1, <2>2
<1> QED
  BY <1>1, <1>2, <1>3, <1>4, <1>5 DEF SetupIInv

LEMMA Widens == ASSUME NEW m \in Nat, NEW n \in Nat, m <= n, NEW i \in 1..(m - 1) PROVE i \in 1..(n - 1)
OBVIOUS

(* A step that is neither of the ceremony nor of the owner.                *)
LEMMA PassingKeeps ==
  ASSUME SetupIInv, content' = content, template' = template, DOMAIN package' = DOMAIN package,
         skipped' = skipped \/ (skipped' = {} /\ step' \in {0, 1} /\ ~Initialized),
         \/ step' = 0
         \/ step' = step + 1 /\ step > 0 /\ Steps[step] \notin Rewritten \cup Stripped \cup {"commit"}
         \/ step' = 1 /\ ~Initialized
         \/ step' = step
  PROVE  SetupIInv'
<1>1. Len(Steps) = 24 /\ Steps[24] = "commit" /\ step \in 0..24
  <2>1. 6 \in 1..6 /\ Steps[6 + 18] = "commit"
    BY Places
  <2> QED
    BY <2>1, Places DEF SetupIInv
<1>2. step' \in 0..24 /\ Initialized' = Initialized /\ DoneIsClean'
  BY <1>1 DEF SetupIInv, Initialized, DoneIsClean, Emptied
<1>3. DOMAIN content = Rewritten \cup Stripped /\ skipped' \subseteq Stripped
  BY DEF SetupIInv
<1>4. PassedIsClean'
  <2> SUFFICES ASSUME step' > 0, NEW i \in 1..(step' - 1), Steps[i] \in DOMAIN content PROVE Emptied(Steps[i])'
    BY DEF PassedIsClean
  <2>1. step' = step + 1 => i # step
    BY <1>1, <1>3
  <2>2. step > 0 /\ i \in 1..(step - 1) /\ skipped' = skipped
    BY <1>1, <2>1
  <2> QED
    BY <2>2 DEF SetupIInv, PassedIsClean, Emptied
<1>5. GonePassesReadme'
  <2> SUFFICES ASSUME Initialized, step' > 0 PROVE \E i \in 1..(step' - 1) : Steps[i] = "README"
    BY <1>2 DEF GonePassesReadme
  <2>1. step > 0 /\ step' >= step
    BY <1>1
  <2>2. PICK i \in 1..(step - 1) : Steps[i] = "README"
    BY <2>1 DEF SetupIInv, GonePassesReadme
  <2>3. i \in 1..(step' - 1)
    <3>1. step \in Nat /\ step' \in Nat /\ step <= step'
      BY <1>1, <1>2, <2>1
    <3> QED
      BY <3>1, Widens
  <2> QED
    BY <2>2, <2>3
<1> QED
  BY <1>1, <1>2, <1>3, <1>4, <1>5 DEF SetupIInv

LEMMA SetupKeeps == SetupIInv /\ [SetupNext]_setupVars => SetupIInv'
<1> SUFFICES ASSUME SetupIInv, [SetupNext]_setupVars PROVE SetupIInv'
  OBVIOUS
<1>1. CASE EjectFile
  BY <1>1, EjectingKeeps
<1>2. CASE RemoveTemplateFile
  BY <1>2, RemovingKeeps
<1>3. ASSUME NEW f \in DOMAIN content, OwnerWrites(f) PROVE SetupIInv'
  <2>1. /\ content' \in [Rewritten \cup Stripped -> SUBSET {"demo", "own"}]
        /\ \A g \in Rewritten \cup Stripped : "demo" \in content'[g] <=> "demo" \in content[g]
    BY <1>3 DEF OwnerWrites, SetupIInv
  <2>2. step = 0 /\ step' = 0 /\ template' = template /\ skipped' = skipped
    BY <1>3 DEF OwnerWrites
  <2>3. package' = package
    BY <1>3 DEF OwnerWrites
  <2> QED
    BY <2>1, <2>2, <2>3 DEF SetupIInv, PassedIsClean, GonePassesReadme, DoneIsClean, Initialized, Emptied
<1>4. CASE \/ \E n \in Names : Launch(n)
           \/ NameProject \/ GenerateKeys \/ NamePackages \/ RenameSolution
           \/ \E yes \in BOOLEAN : Answer(yes)
           \/ \E results \in [Checks -> {"ok", "skipped", "failed"}] : RunChecks(results)
           \/ \E ok \in BOOLEAN : Commit(ok)
           \/ Stop \/ OwnerSwitches \/ UNCHANGED setupVars
  <2>1. content' = content /\ template' = template
    BY <1>4 DEF Launch, NameProject, GenerateKeys, NamePackages, RenameSolution, Answer, RunChecks, Commit, Stop,
       OwnerSwitches, setupVars, disk
  <2>2. NamePackages => \E f \in {"package.json", "ngsw-config"} : At(f) /\ Onward
    BY DEF NamePackages, SetupIInv
  <2>3. \/ step' = 0
        \/ step' = step + 1 /\ step > 0 /\ Steps[step] \notin Rewritten \cup Stripped \cup {"commit"}
        \/ step' = 1 /\ ~Initialized
        \/ step' = step
    BY <1>4, <2>2 DEF Launch, NameProject, GenerateKeys, RenameSolution, Answer, RunChecks, Commit, Stop,
       OwnerSwitches, setupVars, At, Onward, LaunchOver, Rewritten, Stripped
  <2>4. DOMAIN package' = DOMAIN package
    BY <1>4 DEF Launch, NameProject, GenerateKeys, NamePackages, RenameSolution, Answer, RunChecks, Commit, Stop,
       OwnerSwitches, setupVars, disk
  <2>5. skipped' = skipped \/ (skipped' = {} /\ step' \in {0, 1} /\ ~Initialized)
    BY <1>4 DEF Launch, NameProject, GenerateKeys, NamePackages, RenameSolution, Answer, RunChecks, Commit, Stop,
       OwnerSwitches, setupVars, disk
  <2> QED
    BY <2>1, <2>3, <2>4, <2>5, PassingKeeps
<1>5. CASE SetupNext
  BY <1>1, <1>2, <1>3, <1>4, <1>5 DEF SetupNext
<1> QED
  BY <1>4, <1>5

(* A project that counts as initialised is free of the demo but where the  *)
(* ceremony that took its README looked for it and did not find it, or     *)
(* could not take it, wherever the launches were stopped (setup.mjs, the   *)
(* README goes after ejectDemo); and what is the project's own stays: keys *)
(* always, its work in the files from the ceremony on.                     *)
THEOREM SetupIsSafe == SetupSpec => SetupSafe
<1>1. SetupInit => SetupIInv
  <2> SUFFICES ASSUME SetupInit PROVE SetupIInv
    OBVIOUS
  <2>1. step = 0 /\ step \in 0..Len(Steps)
    <3>1. Len(Steps) = 24
      BY Places
    <3>2. step = 0
      BY DEF SetupInit
    <3> QED
      BY <3>1, <3>2
  <2>2. /\ content \in [Rewritten \cup Stripped -> SUBSET {"demo", "own"}] /\ template \subseteq TemplateFiles
        /\ skipped \subseteq Stripped /\ DOMAIN package = {"package.json", "ngsw-config"} /\ "README" \in template
    BY DEF SetupInit, TemplateFiles
  <2> QED
    BY <2>1, <2>2 DEF SetupIInv, PassedIsClean, GonePassesReadme, DoneIsClean
<1>2. SetupIInv /\ [SetupNext]_setupVars
      => [/\ local # 0 => local' = local
          /\ "README" \notin template => \A f \in DOMAIN content : "own" \in content[f] => "own" \in content'[f]]_setupVars
  <2> SUFFICES ASSUME SetupIInv, SetupNext
               PROVE  /\ local # 0 => local' = local
                      /\ "README" \notin template =>
                           \A f \in DOMAIN content : "own" \in content[f] => "own" \in content'[f]
    OBVIOUS
  <2>1. local # 0 => local' = local
    BY DEF SetupNext, Launch, NameProject, GenerateKeys, NamePackages, RenameSolution, Answer, EjectFile, RemoveTemplateFile,
       RunChecks, Commit, Stop, OwnerWrites, OwnerSwitches, disk
  <2>2. EjectFile => "README" \in template
    BY EjectingKeeps DEF Initialized
  <2>3. ASSUME NEW f \in DOMAIN content, OwnerWrites(f), NEW g \in DOMAIN content, "own" \in content[g] PROVE "own" \in content'[g]
    BY <2>3 DEF OwnerWrites, SetupIInv
  <2>4. content' = content \/ EjectFile \/ \E f \in DOMAIN content : OwnerWrites(f)
    BY DEF SetupNext, Launch, NameProject, GenerateKeys, NamePackages, RenameSolution, Answer, RemoveTemplateFile,
       RunChecks, Commit, Stop, OwnerSwitches, disk
  <2> QED
    BY <2>1, <2>2, <2>3, <2>4
<1>3. SetupIInv => DoneIsClean
  BY DEF SetupIInv
<1> QED
  BY <1>1, <1>2, <1>3, SetupKeeps, PTL DEF SetupSpec, SetupSafe, OwnSurvives

-----------------------------------------------------------------------------
(* EditorHistory.  What capHistory leaves is an end of the steps to undo   *)
(* and, those gone, an end of the steps to redo; it leaves one step.       *)

LEMMA CutTakesOne ==
  ASSUME NEW T, NEW s \in Seq(T), NEW i \in 1..Len(s)
  PROVE  /\ SubSeq(s, i, Len(s)) # <<>> /\ Tail(SubSeq(s, i, Len(s))) = SubSeq(s, i + 1, Len(s))
         /\ Len(SubSeq(s, i, Len(s))) = Len(s) - i + 1
<1>1. Len(s) \in Nat /\ Len(s) \in i..Len(s)
  BY LenProperties
<1>2. Len(SubSeq(s, i, Len(s))) = Len(s) - i + 1 /\ SubSeq(s, i, Len(s)) \in Seq(T)
  BY <1>1, Suffix
<1>3. SubSeq(s, i, Len(s)) # <<>>
  <2>1. Len(s) - i + 1 # 0
    BY <1>1
  <2>2. Len(<<>>) = 0
    BY EmptySeq
  <2> QED
    BY <1>2, <2>1, <2>2
<1>4. Tail(SubSeq(s, i, Len(s))) = SubSeq(s, i + 1, Len(s))
  BY <1>1, HeadTailOfSubSeq
<1> QED
  BY <1>2, <1>3, <1>4

LEMMA CapCuts ==
  ASSUME NEW T, NEW p \in Seq(T), NEW f \in Seq(T)
  PROVE  \E i \in 1..(Len(p) + 1), j \in 1..(Len(f) + 1) :
           /\ CapHistory(p, f) = <<SubSeq(p, i, Len(p)), SubSeq(f, j, Len(f))>>
           /\ j = 1 \/ i = Len(p) + 1
           /\ Len(p) + Len(f) > 0 => i <= Len(p) \/ j <= Len(f)
<1> DEFINE N == Len(p) + Len(f)
           Shorter(c) == IF ~TooMuch(c[1], c[2]) THEN c
                         ELSE IF c[1] # <<>> THEN <<Tail(c[1]), c[2]>> ELSE <<c[1], Tail(c[2])>>
           Def(g, n) == g = [i \in 0..n |-> IF i = 0 THEN <<p, f>> ELSE Shorter(g[i - 1])]
           G == CHOOSE g : Def(g, N)
           Cut(i, j) == <<SubSeq(p, i, Len(p)), SubSeq(f, j, Len(f))>>
           Fits(i, j) == (j = 1 \/ i = Len(p) + 1) /\ (N > 0 => i <= Len(p) \/ j <= Len(f))
           Good(c) == \E i \in 1..(Len(p) + 1), j \in 1..(Len(f) + 1) : c = Cut(i, j) /\ Fits(i, j)
<1>1. Len(p) \in Nat /\ Len(f) \in Nat /\ N \in Nat
  BY LenProperties
<1>2. ASSUME NEW c, Good(c) PROVE Good(Shorter(c))
  <2>1. PICK i \in 1..(Len(p) + 1), j \in 1..(Len(f) + 1) : c = Cut(i, j) /\ Fits(i, j)
    BY <1>2
  <2> SUFFICES ASSUME TooMuch(c[1], c[2]) PROVE Good(Shorter(c))
    BY <1>2
  <2>2. c[1] = SubSeq(p, i, Len(p)) /\ c[2] = SubSeq(f, j, Len(f))
    BY <2>1
  <2>3. Len(c[1]) + Len(c[2]) > 1
    BY DEF TooMuch
  <2>4. Len(c[1]) = Len(p) - i + 1 /\ Len(c[2]) = Len(f) - j + 1
    BY <2>2, Suffix
  <2>5. CASE i <= Len(p)
    <3>1. i \in 1..Len(p) /\ j = 1
      BY <1>1, <2>1, <2>5
    <3>2. Shorter(c) = Cut(i + 1, j)
      BY <2>2, <3>1, CutTakesOne
    <3>3. i + 1 \in 1..(Len(p) + 1) /\ Fits(i + 1, j)
      BY <1>1, <2>3, <2>4, <3>1
    <3> QED
      BY <3>2, <3>3
  <2>6. CASE i = Len(p) + 1
    <3>1. c[1] = <<>>
      BY <1>1, <2>2, <2>6, SubSeqEmpty
    <3>2. Len(c[1]) = 0
      BY <1>1, <2>4, <2>6
    <3>3. j \in 1..Len(f) /\ j + 1 \in 1..Len(f)
      BY <1>1, <2>3, <2>4, <3>2
    <3>4. Shorter(c) = Cut(i, j + 1)
      BY <2>2, <3>1, <3>3, CutTakesOne
    <3>5. j + 1 \in 1..(Len(f) + 1) /\ Fits(i, j + 1)
      BY <1>1, <2>6, <3>3
    <3> QED
      BY <3>4, <3>5
  <2>7. i <= Len(p) \/ i = Len(p) + 1
    BY <1>1
  <2> QED
    BY <2>5, <2>6, <2>7
<1>3. Good(<<p, f>>)
  <2>1. <<p, f>> = Cut(1, 1)
    BY SubSeqFull
  <2>2. Fits(1, 1) /\ 1 \in 1..(Len(p) + 1) /\ 1 \in 1..(Len(f) + 1)
    BY <1>1
  <2> QED
    BY <2>1, <2>2
<1>4. CapHistory(p, f) = G[N]
  BY Zenon DEF CapHistory
<1> HIDE DEF Good, Shorter, N
<1>5. \A n \in Nat : \E g : Def(g, n)
  <2> DEFINE Bad == {n \in Nat : ~\E g : Def(g, n)}
  <2>1. 0 \notin Bad
    <3>1. Def([i \in 0..0 |-> <<p, f>>], 0)
      OBVIOUS
    <3> QED
      BY <3>1
  <2>2. ASSUME NEW n \in Nat, n \notin Bad PROVE n + 1 \notin Bad
    <3>1. PICK g : Def(g, n)
      BY <2>2
    <3> DEFINE h == [i \in 0..(n + 1) |-> IF i <= n THEN g[i] ELSE Shorter(g[i - 1])]
    <3>2. ASSUME NEW i \in 1..n PROVE g[i] = Shorter(g[i - 1])
      <4>1. i \in 0..n /\ i # 0
        OBVIOUS
      <4> QED
        BY <3>1, <4>1, Zenon
    <3>3. g[0] = <<p, f>>
      BY <3>1
    <3>4. \A i \in 0..n : h[i] = g[i]
      OBVIOUS
    <3>5. \A i \in 1..(n + 1) : i - 1 \in 0..n
      OBVIOUS
    <3>6. ASSUME NEW i \in 0..(n + 1) PROVE h[i] = IF i = 0 THEN <<p, f>> ELSE Shorter(h[i - 1])
      <4>1. CASE i = 0
        BY <3>3, <3>4, <4>1
      <4>2. CASE i \in 1..n
        <5>1. h[i] = g[i] /\ h[i - 1] = g[i - 1] /\ i # 0
          BY <3>4, <3>5, <4>2
        <5> QED
          BY <3>2, <4>2, <5>1, Zenon
      <4>3. CASE i = n + 1
        <5>1. h[i] = Shorter(g[i - 1]) /\ h[i - 1] = g[i - 1] /\ i # 0
          BY <3>4, <4>3
        <5> QED
          BY <5>1, Zenon
      <4> QED
        BY <4>1, <4>2, <4>3
    <3>7. h = [i \in 0..(n + 1) |-> h[i]]
      OBVIOUS
    <3> HIDE DEF h
    <3>8. Def(h, n + 1)
      BY <3>6, <3>7
    <3> QED
      BY <3>8
  <2> HIDE DEF Bad
  <2>3. Bad \in SUBSET Nat
    BY DEF Bad
  <2>4. Bad = {}
    BY <2>1, <2>2, <2>3, NoException
  <2> QED
    BY <2>4 DEF Bad
<1>6. Def(G, N)
  BY <1>1, <1>5
<1> HIDE DEF G
<1>7. G[0] = <<p, f>> /\ \A i \in 1..N : G[i] = Shorter(G[i - 1])
  <2>1. 0 \in 0..N /\ \A i \in 1..N : i \in 0..N /\ i # 0
    BY <1>1
  <2>2. G[0] = <<p, f>>
    BY <1>6, <2>1, Zenon
  <2>3. ASSUME NEW i \in 1..N PROVE G[i] = Shorter(G[i - 1])
    BY <1>6, <2>1, Zenon
  <2> QED
    BY <2>2, <2>3
<1> DEFINE Wrong == {i \in Nat : i <= N /\ ~Good(G[i])}
<1>8. 0 \notin Wrong
  BY <1>3, <1>7
<1>9. ASSUME NEW n \in Nat, n + 1 \in Wrong PROVE n \in Wrong
  <2>1. n + 1 \in 1..N /\ (n + 1) - 1 = n
    BY <1>1, <1>9
  <2>2. G[n + 1] = Shorter(G[n])
    BY <1>7, <2>1
  <2>3. Good(G[n]) => Good(G[n + 1])
    BY <1>2, <2>2, Zenon
  <2> QED
    BY <1>1, <1>9, <2>1, <2>3
<1>10. Good(G[N])
  <2>1. Wrong \in SUBSET Nat
    OBVIOUS
  <2> HIDE DEF Wrong
  <2>2. Wrong = {}
    BY <1>8, <1>9, <2>1, NoException
  <2> QED
    BY <1>1, <2>2 DEF Wrong
<1> QED
  BY <1>4, <1>10 DEF Good, N

(* The line of versions, place by place.                                   *)
LEMMA LineIs ==
  ASSUME NEW T, NEW p \in Seq(T), NEW t \in T, NEW f \in Seq(T)
  PROVE  /\ Len(p) \in Nat /\ Len(f) \in Nat
         /\ Line(p, t, f) \in Seq(T) /\ Len(Line(p, t, f)) = Len(p) + Len(f) + 1
         /\ \A x \in 1..Len(p) : Line(p, t, f)[x] = p[x]
         /\ Line(p, t, f)[Len(p) + 1] = t
         /\ \A x \in (Len(p) + 2)..(Len(p) + Len(f) + 1) : Line(p, t, f)[x] = f[Len(p) + Len(f) + 2 - x]
<1> DEFINE q == Append(p, t)
           r == Reverse(f)
           m == Len(f)
<1>1. Len(p) \in Nat /\ m \in Nat /\ f \in [1..m -> T]
  BY LenProperties
<1>2. /\ q \in Seq(T) /\ Len(q) = Len(p) + 1 /\ q[Len(p) + 1] = t
      /\ \A x \in 1..Len(p) : q[x] = p[x]
  BY AppendProperties
<1>3. r = [i \in 1..m |-> f[(m - i) + 1]]
  BY DEF Reverse
<1> HIDE DEF q, r
<1>4. \A i \in 1..m : (m - i) + 1 \in 1..m
  BY <1>1
<1>5. r \in [1..m -> T]
  BY <1>1, <1>3, <1>4
<1>6. r \in Seq(T) /\ Len(r) = m
  BY <1>1, <1>5, SeqDef, LenProperties
<1> DEFINE l == q \o r
<1>7. /\ l \in Seq(T) /\ Len(l) = Len(q) + Len(r)
      /\ \A x \in 1..(Len(q) + Len(r)) : l[x] = IF x <= Len(q) THEN q[x] ELSE r[x - Len(q)]
  <2>1. q \in Seq(T) /\ r \in Seq(T)
    BY <1>2, <1>6
  <2> QED
    BY <2>1, ConcatProperties
<1>8. Line(p, t, f) = l
  BY DEF Line, q, r
<1> HIDE DEF l, m
<1>9. Len(l) = Len(p) + m + 1
  BY <1>1, <1>2, <1>6, <1>7
<1>10. ASSUME NEW x \in 1..Len(p) PROVE l[x] = p[x]
  <2>1. x \in 1..(Len(q) + Len(r)) /\ x <= Len(q)
    BY <1>1, <1>2, <1>6
  <2> QED
    BY <1>2, <1>7, <2>1
<1>11. l[Len(p) + 1] = t
  <2>1. Len(p) + 1 \in 1..(Len(q) + Len(r)) /\ Len(p) + 1 <= Len(q)
    BY <1>1, <1>2, <1>6
  <2> QED
    BY <1>2, <1>7, <2>1
<1>12. ASSUME NEW x \in (Len(p) + 2)..(Len(p) + m + 1) PROVE l[x] = f[Len(p) + m + 2 - x]
  <2>1. x - Len(q) \in 1..m /\ x \in 1..(Len(q) + Len(r)) /\ ~(x <= Len(q))
    BY <1>1, <1>2, <1>6
  <2>2. l[x] = r[x - Len(q)]
    BY <1>7, <2>1
  <2>3. r[x - Len(q)] = f[(m - (x - Len(q))) + 1]
    BY <1>3, <2>1
  <2>4. (m - (x - Len(q))) + 1 = Len(p) + m + 2 - x
    BY <1>1, <1>2
  <2> QED
    BY <2>2, <2>3, <2>4
<1> QED
  BY <1>1, <1>7, <1>8, <1>9, <1>10, <1>11, <1>12 DEF m

(* What a cut of the history leaves of the line is a part of it.           *)
LEMMA CutOfTheLine ==
  ASSUME NEW T, NEW p \in Seq(T), NEW t \in T, NEW f \in Seq(T), NEW i \in 1..(Len(p) + 1), NEW j \in 1..(Len(f) + 1)
  PROVE  LET a == SubSeq(p, i, Len(p))
             b == SubSeq(f, j, Len(f))
             z == Len(p) + Len(f) + 2 - j
         IN  /\ a \in Seq(T) /\ b \in Seq(T)
             /\ i \in 1..Len(Line(p, t, f)) /\ z \in i..Len(Line(p, t, f))
             /\ Line(a, t, b) = SubSeq(Line(p, t, f), i, z)
<1> DEFINE a == SubSeq(p, i, Len(p))
           b == SubSeq(f, j, Len(f))
           z == Len(p) + Len(f) + 2 - j
           l == Line(p, t, f)
           k == Line(a, t, b)
           n == SubSeq(l, i, z)
<1>1. Len(p) \in Nat /\ Len(f) \in Nat /\ i \in Nat /\ j \in Nat
  BY LenProperties
<1>2. a \in Seq(T) /\ b \in Seq(T) /\ Len(a) = Len(p) - i + 1 /\ Len(b) = Len(f) - j + 1
  BY Suffix
<1>3. (\A x \in i..Len(p) : p[x] \in T) /\ \A x \in j..Len(f) : f[x] \in T
  BY <1>1, ElementOfSeq
<1>4. /\ \A x \in 1..(Len(p) - i + 1) : a[x] = p[i + x - 1]
      /\ \A x \in 1..(Len(f) - j + 1) : b[x] = f[j + x - 1]
  BY <1>1, <1>3, SubSeqProperties
<1> HIDE DEF a, b
<1>5. /\ l \in Seq(T) /\ Len(l) = Len(p) + Len(f) + 1
      /\ \A x \in 1..Len(p) : l[x] = p[x]
      /\ l[Len(p) + 1] = t
      /\ \A x \in (Len(p) + 2)..(Len(p) + Len(f) + 1) : l[x] = f[Len(p) + Len(f) + 2 - x]
  <2>1. l \in Seq(T) /\ Len(l) = Len(p) + Len(f) + 1
    BY LineIs
  <2>2. \A x \in 1..Len(p) : l[x] = p[x]
    BY LineIs
  <2>3. l[Len(p) + 1] = t
    BY LineIs
  <2>4. \A x \in (Len(p) + 2)..(Len(p) + Len(f) + 1) : l[x] = f[Len(p) + Len(f) + 2 - x]
    BY LineIs
  <2> QED
    BY <2>1, <2>2, <2>3, <2>4
<1>6. /\ k \in Seq(T) /\ Len(k) = Len(a) + Len(b) + 1
      /\ \A x \in 1..Len(a) : k[x] = a[x]
      /\ k[Len(a) + 1] = t
      /\ \A x \in (Len(a) + 2)..(Len(a) + Len(b) + 1) : k[x] = b[Len(a) + Len(b) + 2 - x]
  <2>1. a \in Seq(T) /\ b \in Seq(T)
    BY <1>2
  <2>2. k \in Seq(T) /\ Len(k) = Len(a) + Len(b) + 1
    BY <2>1, LineIs
  <2>3. \A x \in 1..Len(a) : k[x] = a[x]
    BY <2>1, LineIs
  <2>4. k[Len(a) + 1] = t
    BY <2>1, LineIs
  <2>5. \A x \in (Len(a) + 2)..(Len(a) + Len(b) + 1) : k[x] = b[Len(a) + Len(b) + 2 - x]
    BY <2>1, LineIs
  <2> QED
    BY <2>2, <2>3, <2>4, <2>5
<1> HIDE DEF l, k
<1>7. i \in 1..Len(l) /\ z \in i..Len(l) /\ z \in Nat
  BY <1>1, <1>5
<1>8. \A x \in i..z : l[x] \in T
  BY <1>5, <1>7, ElementOfSeq
<1>9. /\ n \in Seq(T) /\ Len(n) = z - i + 1
      /\ \A x \in 1..(z - i + 1) : n[x] = l[i + x - 1]
  BY <1>1, <1>7, <1>8, SubSeqProperties
<1> HIDE DEF n
<1>10. Len(k) = Len(n)
  BY <1>1, <1>2, <1>6, <1>9
<1>11. ASSUME NEW x \in 1..Len(k) PROVE k[x] = n[x]
  <2>1. n[x] = l[i + x - 1]
    BY <1>9, <1>10
  <2>2. CASE x \in 1..Len(a)
    <3>1. k[x] = p[i + x - 1]
      BY <1>2, <1>4, <1>6, <2>2
    <3>2. i + x - 1 \in 1..Len(p)
      BY <1>1, <1>2, <2>2
    <3> QED
      BY <1>5, <2>1, <3>1, <3>2
  <2>3. CASE x = Len(a) + 1
    <3>1. i + x - 1 = Len(p) + 1
      BY <1>1, <1>2, <2>3
    <3> QED
      BY <1>5, <1>6, <2>1, <2>3, <3>1
  <2>4. CASE x \in (Len(a) + 2)..(Len(a) + Len(b) + 1)
    <3>1. k[x] = b[Len(a) + Len(b) + 2 - x]
      BY <1>6, <2>4
    <3>2. Len(a) + Len(b) + 2 - x \in 1..(Len(f) - j + 1)
      BY <1>1, <1>2, <2>4
    <3>3. k[x] = f[j + (Len(a) + Len(b) + 2 - x) - 1]
      BY <1>4, <3>1, <3>2
    <3>4. i + x - 1 \in (Len(p) + 2)..(Len(p) + Len(f) + 1)
      BY <1>1, <1>2, <2>4
    <3>5. n[x] = f[Len(p) + Len(f) + 2 - (i + x - 1)]
      BY <1>5, <2>1, <3>4
    <3>6. j + (Len(a) + Len(b) + 2 - x) - 1 = Len(p) + Len(f) + 2 - (i + x - 1)
      BY <1>1, <1>2, <2>4
    <3> QED
      BY <3>3, <3>5, <3>6
  <2>5. x \in 1..Len(a) \/ x = Len(a) + 1 \/ x \in (Len(a) + 2)..(Len(a) + Len(b) + 1)
    BY <1>1, <1>2, <1>6
  <2> QED
    BY <2>2, <2>3, <2>4, <2>5
<1>12. k = n
  BY <1>6, <1>9, <1>10, <1>11, SeqEqual
<1> QED
  BY <1>2, <1>7, <1>12 DEF a, b, l, k, n

(* Prefixes and ends, place by place.                                      *)
LEMMA PrefixIs ==
  ASSUME NEW T, NEW s \in Seq(T), NEW t \in Seq(T)
  PROVE  IsPrefix(s, t) <=> Len(s) <= Len(t) /\ \A i \in 1..Len(s) : s[i] = t[i]
<1>1. Len(s) \in Nat /\ Len(t) \in Nat
  BY LenProperties
<1> SUFFICES ASSUME Len(s) <= Len(t)
             PROVE  SubSeq(s, 1, Len(s)) = SubSeq(t, 1, Len(s)) <=> \A i \in 1..Len(s) : s[i] = t[i]
  BY DEF IsPrefix
<1> DEFINE u == SubSeq(t, 1, Len(s))
<1>2. SubSeq(s, 1, Len(s)) = s
  BY SubSeqFull
<1>3. \A i \in 1..Len(s) : t[i] \in T
  BY <1>1, ElementOfSeq
<1>4. /\ u \in Seq(T) /\ Len(u) = Len(s)
      /\ \A i \in 1..Len(s) : u[i] = t[i]
  BY <1>1, <1>3, SubSeqProperties
<1> HIDE DEF u
<1>5. (\A i \in 1..Len(s) : s[i] = u[i]) => s = u
  BY <1>4, SeqEqual
<1> QED
  BY <1>2, <1>4, <1>5 DEF u

LEMMA ReverseIs ==
  ASSUME NEW T, NEW s \in Seq(T)
  PROVE  /\ Reverse(s) \in Seq(T) /\ Len(Reverse(s)) = Len(s)
         /\ \A i \in 1..Len(s) : Reverse(s)[i] = s[(Len(s) - i) + 1]
<1> DEFINE n == Len(s)
           r == Reverse(s)
<1>1. n \in Nat /\ s \in [1..n -> T]
  BY LenProperties
<1>2. r = [i \in 1..n |-> s[(n - i) + 1]]
  BY DEF Reverse
<1> HIDE DEF r, n
<1>3. \A i \in 1..n : (n - i) + 1 \in 1..n
  BY <1>1
<1>4. r \in [1..n -> T]
  BY <1>1, <1>2, <1>3
<1>5. r \in Seq(T) /\ Len(r) = n
  BY <1>1, <1>4, SeqDef, LenProperties
<1> QED
  BY <1>2, <1>5 DEF r, n

LEMMA EndIsSuffix ==
  ASSUME NEW T, NEW s \in Seq(T), NEW a \in 1..Len(s)
  PROVE  IsSuffix(SubSeq(s, a, Len(s)), s)
<1> DEFINE u == SubSeq(s, a, Len(s))
           m == Len(s) - a + 1
<1>1. Len(s) \in Nat /\ a \in Nat
  BY LenProperties
<1>2. \A i \in a..Len(s) : s[i] \in T
  BY <1>1, ElementOfSeq
<1>3. /\ u \in Seq(T) /\ Len(u) = m
      /\ \A i \in 1..m : u[i] = s[a + i - 1]
  BY <1>1, <1>2, SubSeqProperties
<1> HIDE DEF u
<1>4. /\ Reverse(u) \in Seq(T) /\ Len(Reverse(u)) = m
      /\ \A i \in 1..m : Reverse(u)[i] = u[(m - i) + 1]
  BY <1>3, ReverseIs
<1>5. /\ Reverse(s) \in Seq(T) /\ Len(Reverse(s)) = Len(s)
      /\ \A i \in 1..Len(s) : Reverse(s)[i] = s[(Len(s) - i) + 1]
  BY ReverseIs
<1>6. ASSUME NEW i \in 1..m PROVE Reverse(u)[i] = Reverse(s)[i]
  <2>1. (m - i) + 1 \in 1..m /\ a + ((m - i) + 1) - 1 = (Len(s) - i) + 1 /\ i \in 1..Len(s)
    BY <1>1
  <2> QED
    BY <1>3, <1>4, <1>5, <2>1
<1>7. m <= Len(s)
  BY <1>1
<1>8. IsPrefix(Reverse(u), Reverse(s))
  BY <1>4, <1>5, <1>6, <1>7, PrefixIs
<1> QED
  BY <1>8 DEF IsSuffix, u

(* Each version of a part of a line in steps is a step from the next.      *)
LEMMA PartInSteps ==
  ASSUME NEW T, NEW l \in Seq(T), InSteps(l), NEW a \in 1..Len(l), NEW z \in a..Len(l)
  PROVE  InSteps(SubSeq(l, a, z))
<1> DEFINE u == SubSeq(l, a, z)
<1>1. Len(l) \in Nat /\ a \in Nat /\ z \in Nat
  BY LenProperties
<1>2. \A i \in a..z : l[i] \in T
  BY <1>1, ElementOfSeq
<1>3. /\ Len(u) = z - a + 1
      /\ \A i \in 1..(z - a + 1) : u[i] = l[a + i - 1]
  BY <1>1, <1>2, SubSeqProperties
<1> HIDE DEF u
<1>4. ASSUME NEW i \in 1..(Len(u) - 1) PROVE OneStep(u[i], u[i + 1])
  <2>1. /\ a + i - 1 \in 1..(Len(l) - 1) /\ (a + i - 1) + 1 = a + (i + 1) - 1
        /\ i \in 1..(z - a + 1) /\ i + 1 \in 1..(z - a + 1)
    BY <1>1, <1>3
  <2>2. OneStep(l[a + i - 1], l[(a + i - 1) + 1])
    BY <2>1 DEF InSteps
  <2> QED
    BY <1>3, <2>1, <2>2
<1> QED
  BY <1>4 DEF InSteps, u

(* What capHistory keeps of the line.                                      *)
PartOf(part, line, undone) ==
  \E i \in 1..Len(line) : \E z \in i..Len(line) : part = SubSeq(line, i, z) /\ (z = Len(line) \/ undone = <<>>)

LEMMA KeptLine ==
  ASSUME NEW T, NEW p \in Seq(T), NEW t \in T, NEW f \in Seq(T)
  PROVE  /\ CapHistory(p, f)[1] \in Seq(T) /\ CapHistory(p, f)[2] \in Seq(T) /\ Line(p, t, f) \in Seq(T)
         /\ PartOf(Line(CapHistory(p, f)[1], t, CapHistory(p, f)[2]), Line(p, t, f), CapHistory(p, f)[1])
         /\ f = <<>> => CapHistory(p, f)[2] = <<>>
         /\ f = <<>> /\ p # <<>> => CapHistory(p, f)[1] # <<>> /\ Last(CapHistory(p, f)[1]) = Last(p)
<1> DEFINE kept == CapHistory(p, f)
           l == Line(p, t, f)
<1>1. PICK i \in 1..(Len(p) + 1), j \in 1..(Len(f) + 1) :
             /\ kept = <<SubSeq(p, i, Len(p)), SubSeq(f, j, Len(f))>>
             /\ j = 1 \/ i = Len(p) + 1
             /\ Len(p) + Len(f) > 0 => i <= Len(p) \/ j <= Len(f)
  BY CapCuts, Zenon
<1> HIDE DEF kept
<1>2. kept[1] = SubSeq(p, i, Len(p)) /\ kept[2] = SubSeq(f, j, Len(f))
  BY <1>1
<1>3. /\ Len(p) \in Nat /\ Len(f) \in Nat /\ i \in Nat /\ j \in Nat
      /\ l \in Seq(T) /\ Len(l) = Len(p) + Len(f) + 1
  <2>1. Len(p) \in Nat /\ Len(f) \in Nat /\ i \in Nat /\ j \in Nat
    BY LenProperties
  <2>2. l \in Seq(T) /\ Len(l) = Len(p) + Len(f) + 1
    BY LineIs
  <2> QED
    BY <2>1, <2>2
<1> DEFINE z == Len(p) + Len(f) + 2 - j
<1>4. kept[1] \in Seq(T) /\ kept[2] \in Seq(T)
  BY <1>2, Suffix
<1>5. i \in 1..Len(l) /\ z \in i..Len(l)
  BY CutOfTheLine
<1>6. Line(kept[1], t, kept[2]) = SubSeq(l, i, z)
  BY <1>2, CutOfTheLine
<1>7. z = Len(l) \/ kept[1] = <<>>
  <2>1. CASE j = 1
    BY <1>3, <2>1
  <2>2. CASE i = Len(p) + 1
    BY <1>2, <1>3, <2>2, SubSeqEmpty
  <2> QED
    BY <1>1, <2>1, <2>2
<1>8. ASSUME f = <<>> PROVE kept[2] = <<>>
  <2>1. Len(f) = 0 /\ j > Len(f)
    BY <1>8
  <2> QED
    BY <1>2, <1>3, <2>1, SubSeqEmpty
<1>9. ASSUME f = <<>>, p # <<>> PROVE kept[1] # <<>> /\ Last(kept[1]) = Last(p)
  <2>1. Len(f) = 0 /\ Len(p) > 0
    BY <1>3, <1>9, EmptySeq
  <2>2. i \in 1..Len(p)
    BY <1>1, <1>3, <2>1
  <2>3. kept[1] # <<>> /\ Len(kept[1]) = Len(p) - i + 1
    BY <1>2, <2>2, CutTakesOne
  <2>4. \A x \in i..Len(p) : p[x] \in T
    BY <1>3, ElementOfSeq
  <2>5. kept[1][Len(p) - i + 1] = p[i + (Len(p) - i + 1) - 1]
    BY <1>2, <1>3, <2>2, <2>4, SubSeqProperties
  <2>6. i + (Len(p) - i + 1) - 1 = Len(p)
    BY <1>3
  <2> QED
    BY <2>3, <2>5, <2>6 DEF Last
<1> HIDE DEF l, z
<1>10. PartOf(Line(kept[1], t, kept[2]), l, kept[1])
  BY <1>5, <1>6, <1>7, Zenon DEF PartOf
<1> QED
  BY <1>3, <1>4, <1>8, <1>9, <1>10 DEF kept, l

(* Undo and redo, before capHistory, leave the line as it is.              *)
LEMMA FrontIs ==
  ASSUME NEW T, NEW s \in Seq(T), s # <<>>
  PROVE  /\ Front(s) \in Seq(T) /\ Len(s) \in Nat /\ Len(s) > 0 /\ Len(Front(s)) = Len(s) - 1
         /\ Last(s) \in T
         /\ \A i \in 1..(Len(s) - 1) : Front(s)[i] = s[i]
<1> DEFINE n == Len(s)
           u == SubSeq(s, 1, n - 1)
<1>1. n \in Nat /\ n > 0
  BY EmptySeq, LenProperties
<1>2. \A i \in 1..n : s[i] \in T
  BY ElementOfSeq
<1>3. s[n] \in T
  BY <1>1, ElementOfSeq
<1>4. u = Front(s)
  BY DEF Front
<1> HIDE DEF n
<1>5. /\ u \in Seq(T) /\ Len(u) = IF 1 <= n - 1 THEN (n - 1) - 1 + 1 ELSE 0
      /\ \A i \in 1..((n - 1) - 1 + 1) : u[i] = s[1 + i - 1]
  <2>1. 1 \in Int /\ n - 1 \in Int /\ \A i \in 1..(n - 1) : s[i] \in T
    BY <1>1, <1>2
  <2> QED
    BY <2>1, SubSeqProperties
<1> HIDE DEF u
<1>6. Len(u) = n - 1
  BY <1>1, <1>5
<1>7. ASSUME NEW i \in 1..(n - 1) PROVE u[i] = s[i]
  <2>1. i \in 1..((n - 1) - 1 + 1) /\ 1 + i - 1 = i
    BY <1>1
  <2> QED
    BY <1>5, <2>1
<1>8. Last(s) = s[n]
  BY DEF Last, n
<1> QED
  BY <1>1, <1>3, <1>4, <1>5, <1>6, <1>7, <1>8 DEF n

LEMMA LineMiddle ==
  ASSUME NEW T, NEW p \in Seq(T), NEW t \in T, NEW f \in Seq(T)
  PROVE  Line(p, t, f) \in Seq(T) /\ Len(Line(p, t, f)) = Len(p) + Len(f) + 1 /\ Line(p, t, f)[Len(p) + 1] = t
BY LineIs

LEMMA LineBefore ==
  ASSUME NEW T, NEW p \in Seq(T), NEW t \in T, NEW f \in Seq(T), NEW x \in 1..Len(p)
  PROVE  Line(p, t, f)[x] = p[x]
BY LineIs

LEMMA LineAfter ==
  ASSUME NEW T, NEW p \in Seq(T), NEW t \in T, NEW f \in Seq(T), NEW x \in (Len(p) + 2)..(Len(p) + Len(f) + 1)
  PROVE  Line(p, t, f)[x] = f[Len(p) + Len(f) + 2 - x]
<1>1. \A y \in (Len(p) + 2)..(Len(p) + Len(f) + 1) : Line(p, t, f)[y] = f[Len(p) + Len(f) + 2 - y]
  BY LineIs
<1> QED
  BY <1>1

LEMMA UndoLine ==
  ASSUME NEW T, NEW p \in Seq(T), NEW t \in T, NEW f \in Seq(T), p # <<>>
  PROVE  Line(Front(p), Last(p), Append(f, t)) = Line(p, t, f)
<1> DEFINE a == Front(p)
           b == Append(f, t)
           u == Last(p)
           l == Line(p, t, f)
           k == Line(a, u, b)
           n == Len(p)
           m == Len(f)
<1>1. n \in Nat /\ m \in Nat /\ n > 0
  BY FrontIs, LenProperties
<1>2. /\ a \in Seq(T) /\ Len(a) = n - 1 /\ u \in T /\ u = p[n]
      /\ \A i \in 1..(n - 1) : a[i] = p[i]
  BY FrontIs DEF Last
<1>3. /\ b \in Seq(T) /\ Len(b) = m + 1 /\ b[m + 1] = t
      /\ \A i \in 1..m : b[i] = f[i]
  BY AppendProperties
<1> HIDE DEF a, b, u, k
<1>4. /\ l \in Seq(T) /\ Len(l) = n + m + 1
      /\ \A x \in 1..n : l[x] = p[x]
      /\ l[n + 1] = t
      /\ \A x \in (n + 2)..(n + m + 1) : l[x] = f[n + m + 2 - x]
  <2>1. l \in Seq(T) /\ Len(l) = n + m + 1 /\ l[n + 1] = t
    BY LineMiddle
  <2>2. ASSUME NEW x \in 1..n PROVE l[x] = p[x]
    BY LineBefore
  <2>3. ASSUME NEW x \in (n + 2)..(n + m + 1) PROVE l[x] = f[n + m + 2 - x]
    BY LineAfter
  <2> QED
    BY <2>1, <2>2, <2>3
<1> USE DEF k
<1>5. /\ k \in Seq(T) /\ Len(k) = Len(a) + Len(b) + 1
      /\ \A x \in 1..Len(a) : k[x] = a[x]
      /\ k[Len(a) + 1] = u
      /\ \A x \in (Len(a) + 2)..(Len(a) + Len(b) + 1) : k[x] = b[Len(a) + Len(b) + 2 - x]
  <2>1. a \in Seq(T) /\ b \in Seq(T) /\ u \in T
    BY <1>2, <1>3
  <2>2. k \in Seq(T) /\ Len(k) = Len(a) + Len(b) + 1 /\ k[Len(a) + 1] = u
    BY <2>1, LineMiddle
  <2>3. ASSUME NEW x \in 1..Len(a) PROVE k[x] = a[x]
    BY <2>1, LineBefore
  <2>4. ASSUME NEW x \in (Len(a) + 2)..(Len(a) + Len(b) + 1) PROVE k[x] = b[Len(a) + Len(b) + 2 - x]
    BY <2>1, LineAfter
  <2> QED
    BY <2>2, <2>3, <2>4
<1> HIDE DEF l, k, n, m
<1>6. Len(k) = Len(l) /\ Len(k) = n + m + 1
  BY <1>1, <1>2, <1>3, <1>4, <1>5
<1>7. ASSUME NEW x \in 1..Len(k) PROVE k[x] = l[x]
  <2>1. CASE x \in 1..(n - 1)
    <3>1. x \in 1..n
      BY <1>1, <2>1
    <3> QED
      BY <1>2, <1>4, <1>5, <2>1, <3>1
  <2>2. CASE x = n
    <3>1. x \in 1..n /\ x = Len(a) + 1
      BY <1>1, <1>2, <2>2
    <3> QED
      BY <1>2, <1>4, <1>5, <2>2, <3>1
  <2>3. CASE x = n + 1
    <3>1. x \in (Len(a) + 2)..(Len(a) + Len(b) + 1) /\ Len(a) + Len(b) + 2 - x = m + 1
      BY <1>1, <1>2, <1>3, <2>3
    <3> QED
      BY <1>3, <1>4, <1>5, <2>3, <3>1
  <2>4. CASE x \in (n + 2)..(n + m + 1)
    <3>1. /\ x \in (Len(a) + 2)..(Len(a) + Len(b) + 1) /\ Len(a) + Len(b) + 2 - x = n + m + 2 - x
          /\ n + m + 2 - x \in 1..m
      BY <1>1, <1>2, <1>3, <2>4
    <3> QED
      BY <1>3, <1>4, <1>5, <2>4, <3>1
  <2>5. x \in 1..(n - 1) \/ x = n \/ x = n + 1 \/ x \in (n + 2)..(n + m + 1)
    BY <1>1, <1>6
  <2> QED
    BY <2>1, <2>2, <2>3, <2>4, <2>5
<1>8. k = l
  BY <1>4, <1>5, <1>6, <1>7, SeqEqual
<1> QED
  BY <1>8 DEF k, l, a, b, u

LEMMA RedoLine ==
  ASSUME NEW T, NEW p \in Seq(T), NEW t \in T, NEW f \in Seq(T), f # <<>>
  PROVE  Line(Append(p, t), Last(f), Front(f)) = Line(p, t, f)
<1> DEFINE q == Append(p, t)
           g == Front(f)
           u == Last(f)
<1>1. q \in Seq(T) /\ q # <<>> /\ Len(q) = Len(p) + 1 /\ q[Len(p) + 1] = t /\ Len(p) \in Nat
  BY AppendProperties, LenProperties
<1>2. \A i \in 1..Len(p) : q[i] = p[i]
  BY AppendProperties
<1>3. g \in Seq(T) /\ u \in T /\ Len(g) = Len(f) - 1 /\ Len(f) \in Nat /\ Len(f) > 0 /\ u = f[Len(f)]
  BY FrontIs DEF Last
<1>4. \A i \in 1..(Len(f) - 1) : g[i] = f[i]
  BY FrontIs
<1> HIDE DEF q, g, u
<1>5. Front(q) = p
  <2>1. /\ Front(q) \in Seq(T) /\ Len(Front(q)) = Len(q) - 1
        /\ \A i \in 1..(Len(q) - 1) : Front(q)[i] = q[i]
    BY <1>1, FrontIs
  <2> QED
    BY <1>1, <1>2, <2>1, SeqEqual
<1>6. Append(g, u) = f
  <2>1. /\ Append(g, u) \in Seq(T) /\ Len(Append(g, u)) = Len(g) + 1
        /\ \A i \in 1..Len(g) : Append(g, u)[i] = g[i]
        /\ Append(g, u)[Len(g) + 1] = u
    BY <1>3, AppendProperties
  <2>2. \A i \in 1..Len(f) : i \in 1..(Len(f) - 1) \/ i = Len(f)
    BY <1>3
  <2>3. \A i \in 1..Len(f) : Append(g, u)[i] = f[i]
    BY <1>3, <1>4, <2>1, <2>2
  <2> QED
    BY <1>3, <2>1, <2>3, SeqEqual
<1>7. Last(q) = t
  BY <1>1 DEF Last
<1>8. Line(Front(q), Last(q), Append(g, u)) = Line(q, u, g)
  BY <1>1, <1>3, UndoLine
<1> QED
  BY <1>5, <1>6, <1>7, <1>8 DEF q, g, u

(* A new version after the line, and another one in place of the last.     *)
LEMMA NoMore == ASSUME NEW T PROVE <<>> \in Seq(T) /\ Len(<<>>) = 0
  BY EmptySeq

LEMMA NewVersion ==
  ASSUME NEW T, NEW p \in Seq(T), NEW t \in T, NEW u \in T, NEW f \in Seq(T), InSteps(Line(p, t, f)), OneStep(t, u)
  PROVE  InSteps(Line(Append(p, t), u, <<>>))
<1> DEFINE n == Len(p)
           m == Len(f)
           e == <<>>
           q == Append(p, t)
           l == Line(p, t, f)
           k == Line(q, u, e)
<1>1. n \in Nat /\ m \in Nat
  BY LenProperties
<1>2. /\ Len(l) = n + m + 1 /\ l[n + 1] = t
      /\ \A x \in 1..n : l[x] = p[x]
  <2>1. Len(l) = n + m + 1 /\ l[n + 1] = t
    BY LineIs
  <2>2. \A x \in 1..n : l[x] = p[x]
    BY LineIs
  <2> QED
    BY <2>1, <2>2
<1>3. /\ q \in Seq(T) /\ Len(q) = n + 1 /\ q[n + 1] = t
      /\ \A x \in 1..n : q[x] = p[x]
  BY AppendProperties
<1>4. e \in Seq(T) /\ Len(e) = 0
  BY NoMore
<1>5. InSteps(l)
  OBVIOUS
<1> HIDE DEF n, m, e, q, l
<1>6. /\ Len(k) = n + 2 /\ k[n + 2] = u
      /\ \A x \in 1..(n + 1) : k[x] = q[x]
  <2>5. q \in Seq(T) /\ e \in Seq(T)
    BY <1>3, <1>4
  <2>1. Len(k) = Len(q) + Len(e) + 1
    BY <2>5, LineIs
  <2>2. k[Len(q) + 1] = u
    BY <2>5, LineIs
  <2>3. \A x \in 1..Len(q) : k[x] = q[x]
    BY <2>5, LineIs
  <2>4. Len(q) + Len(e) + 1 = n + 2 /\ Len(q) + 1 = n + 2 /\ Len(q) = n + 1
    BY <1>1, <1>3, <1>4
  <2> QED
    BY <2>1, <2>2, <2>3, <2>4
<1> HIDE DEF k
<1>7. ASSUME NEW i \in 1..(n + 1) PROVE OneStep(k[i], k[i + 1])
  <2>1. CASE i \in 1..n
    <3>1. i \in 1..(Len(l) - 1)
      BY <1>1, <1>2, <2>1
    <3>2. OneStep(l[i], l[i + 1])
      BY <1>5, <3>1 DEF InSteps
    <3>3. k[i] = p[i] /\ l[i] = p[i]
      BY <1>1, <1>2, <1>3, <1>6, <2>1
    <3>4. k[i + 1] = l[i + 1]
      <4>1. i + 1 \in 1..n \/ i + 1 = n + 1
        BY <1>1, <2>1
      <4>2. i + 1 \in 1..(n + 1)
        BY <1>1, <2>1
      <4> QED
        BY <1>2, <1>3, <1>6, <4>1, <4>2
    <3> QED
      BY <3>2, <3>3, <3>4
  <2>2. CASE i = n + 1
    <3>1. k[i] = t
      BY <1>3, <1>6, <2>2
    <3>2. i + 1 = n + 2
      BY <1>1, <2>2
    <3> QED
      BY <1>6, <3>1, <3>2
  <2> QED
    BY <1>1, <2>1, <2>2
<1>8. Len(k) - 1 = n + 1
  BY <1>1, <1>6
<1>9. InSteps(k)
  BY <1>7, <1>8 DEF InSteps
<1> QED
  BY <1>9 DEF k, q, e

LEMMA OtherVersion ==
  ASSUME NEW T, NEW p \in Seq(T), NEW t \in T, NEW u \in T, InSteps(Line(p, t, <<>>)), p # <<>> => OneStep(Last(p), u)
  PROVE  InSteps(Line(p, u, <<>>))
<1> DEFINE n == Len(p)
           e == <<>>
           l == Line(p, t, e)
           k == Line(p, u, e)
<1>1. n \in Nat /\ (n # 0 => p # <<>>)
  BY LenProperties, EmptySeq
<1>2. e \in Seq(T) /\ Len(e) = 0
  BY NoMore
<1>10. e \in Seq(T)
  BY <1>2
<1>3. InSteps(l)
  OBVIOUS
<1> HIDE DEF e
<1>4. /\ Len(l) = n + 1
      /\ \A x \in 1..n : l[x] = p[x]
  <2>1. Len(l) = n + Len(e) + 1
    BY <1>10, LineIs
  <2>2. \A x \in 1..n : l[x] = p[x]
    BY <1>10, LineIs
  <2> QED
    BY <1>1, <1>2, <2>1, <2>2
<1>5. /\ Len(k) = n + 1 /\ k[n + 1] = u
      /\ \A x \in 1..n : k[x] = p[x]
  <2>1. Len(k) = n + Len(e) + 1
    BY <1>10, LineIs
  <2>2. \A x \in 1..n : k[x] = p[x]
    BY <1>10, LineIs
  <2>3. k[n + 1] = u
    BY <1>10, LineIs
  <2> QED
    BY <1>1, <1>2, <2>1, <2>2, <2>3
<1>6. n # 0 => OneStep(p[n], u)
  BY <1>1 DEF Last
<1> HIDE DEF n, l, k
<1>7. ASSUME NEW i \in 1..n PROVE OneStep(k[i], k[i + 1])
  <2>1. CASE i + 1 \in 1..n
    <3>1. i \in 1..(Len(l) - 1)
      BY <1>1, <1>4
    <3>2. OneStep(l[i], l[i + 1])
      BY <1>3, <3>1 DEF InSteps
    <3>3. k[i] = l[i] /\ k[i + 1] = l[i + 1]
      BY <1>4, <1>5, <2>1
    <3> QED
      BY <3>2, <3>3
  <2>2. CASE i = n
    <3>1. k[i] = p[n] /\ n # 0
      BY <1>5, <2>2
    <3>2. k[i + 1] = u
      BY <1>5, <2>2
    <3> QED
      BY <1>6, <3>1, <3>2
  <2>3. i + 1 \in 1..n \/ i = n
    BY <1>1
  <2> QED
    BY <2>1, <2>2, <2>3
<1>8. Len(k) - 1 = n
  BY <1>1, <1>5
<1>9. InSteps(k)
  BY <1>7, <1>8 DEF InSteps
<1> QED
  BY <1>9 DEF k, e

(* What keys and blocks make of a text.                                    *)
LEMMA MoreIs ==
  ASSUME NEW x \in Seq(Pieces), NEW t \in Seq(Pieces), Len(x) <= Len(t)
  PROVE  LET m == More(x, t)
         IN  /\ m \in Seq(Pieces) /\ Len(m) = Len(t) - Len(x) /\ DOMAIN m = 1..(Len(t) - Len(x))
             /\ \A i \in 1..(Len(t) - Len(x)) : m[i] = t[Len(x) + i]
<1> DEFINE a == Len(x)
           b == Len(t)
           m == More(x, t)
<1>1. a \in Nat /\ b \in Nat /\ a <= b
  BY LenProperties
<1>2. \A i \in 1..b : t[i] \in Pieces
  BY ElementOfSeq
<1>3. m = SubSeq(t, a + 1, b)
  BY DEF More
<1> HIDE DEF a, b, m
<1>4. \A i \in (a + 1)..b : t[i] \in Pieces
  BY <1>1, <1>2
<1>5. /\ m \in Seq(Pieces) /\ Len(m) = IF a + 1 <= b THEN b - (a + 1) + 1 ELSE 0
      /\ \A i \in 1..(b - (a + 1) + 1) : m[i] = t[(a + 1) + i - 1]
  <2>1. a + 1 \in Int /\ b \in Int
    BY <1>1
  <2> QED
    BY <1>3, <1>4, <2>1, SubSeqProperties
<1>6. Len(m) = b - a
  BY <1>1, <1>5
<1>7. ASSUME NEW i \in 1..(b - a) PROVE m[i] = t[a + i]
  <2>1. i \in 1..(b - (a + 1) + 1) /\ (a + 1) + i - 1 = a + i
    BY <1>1
  <2> QED
    BY <1>5, <2>1
<1>8. DOMAIN m = 1..(b - a)
  BY <1>5, <1>6, LenProperties
<1> QED
  BY <1>5, <1>6, <1>7, <1>8 DEF a, b, m

LEMMA TypedIs ==
  ASSUME NEW x \in Seq(Pieces), NEW t \in Seq(Pieces), Len(x) <= Len(t)
  PROVE  /\ Typed(More(x, t)) <=> \E n \in 0..(Len(t) - Len(x)) : \A i \in 1..(Len(t) - Len(x)) :
                                    t[Len(x) + i] = IF i <= n THEN Letter ELSE Space
         /\ (\A i \in DOMAIN More(x, t) : More(x, t)[i] = Letter) <=> \A i \in 1..(Len(t) - Len(x)) : t[Len(x) + i] = Letter
<1> DEFINE m == More(x, t)
           d == Len(t) - Len(x)
           a == Len(x)
<1>1. /\ Len(m) = d /\ DOMAIN m = 1..d
      /\ \A i \in 1..d : m[i] = t[a + i]
  <2>1. Len(m) = d /\ DOMAIN m = 1..d
    BY MoreIs
  <2>2. \A i \in 1..d : m[i] = t[a + i]
    BY MoreIs
  <2> QED
    BY <2>1, <2>2
<1> HIDE DEF m, d, a
<1>2. Typed(m) <=> \E n \in 0..d : \A i \in 1..d : t[a + i] = IF i <= n THEN Letter ELSE Space
  <2>1. Typed(m) <=> \E n \in 0..d : \A i \in 1..d : m[i] = IF i <= n THEN Letter ELSE Space
    BY <1>1 DEF Typed
  <2> QED
    BY <1>1, <2>1
<1>3. (\A i \in DOMAIN m : m[i] = Letter) <=> \A i \in 1..d : t[a + i] = Letter
  BY <1>1
<1> QED
  BY <1>2, <1>3 DEF m, d, a

LEMMA MadeByIs ==
  ASSUME NEW x, NEW t
  PROVE  /\ MadeBy("delete", x, t) <=> IsPrefix(t, x)
         /\ MadeBy(Letter, x, t) <=> IsPrefix(x, t) /\ \A i \in DOMAIN More(x, t) : More(x, t)[i] = Letter
         /\ MadeBy(Space, x, t) <=> IsPrefix(x, t) /\ Typed(More(x, t))
<1>1. MadeBy("delete", x, t) <=> IsPrefix(t, x)
  BY DEF MadeBy, Letter, Space
<1>2. MadeBy(Letter, x, t) <=> IsPrefix(x, t) /\ \A i \in DOMAIN More(x, t) : More(x, t)[i] = Letter
  BY DEF MadeBy, Letter, Space
<1>3. MadeBy(Space, x, t) <=> IsPrefix(x, t) /\ Typed(More(x, t))
  BY DEF MadeBy, Letter, Space
<1> QED
  BY <1>1, <1>2, <1>3

LEMMA NothingMade == ASSUME NEW x \in Seq(Pieces), NEW kind \in Keys PROVE MadeBy(kind, x, x)
<1> DEFINE d == Len(x) - Len(x)
<1>1. Len(x) \in Nat
  BY LenProperties
<1>2. IsPrefix(x, x)
  BY <1>1, PrefixIs
<1>3. d = 0
  BY <1>1
<1>4. Typed(More(x, x)) <=> \E n \in 0..d : \A i \in 1..d : x[Len(x) + i] = IF i <= n THEN Letter ELSE Space
  BY <1>1, TypedIs
<1>5. (\A i \in DOMAIN More(x, x) : More(x, x)[i] = Letter) <=> \A i \in 1..d : x[Len(x) + i] = Letter
  BY <1>1, TypedIs
<1> HIDE DEF d
<1>6. Typed(More(x, x)) /\ \A i \in DOMAIN More(x, x) : More(x, x)[i] = Letter
  BY <1>3, <1>4, <1>5
<1> QED
  BY <1>2, <1>6, MadeByIs DEF Keys

LEMMA GoesOn ==
  ASSUME NEW x \in Seq(Pieces), NEW t \in Seq(Pieces), NEW u \in Seq(Pieces), NEW last \in Keys, NEW kind \in Keys,
         kind = last \/ (last = Letter /\ kind = Space),
         MadeBy(last, x, t),
         IF kind = "delete" THEN t # <<>> /\ u = Front(t) ELSE u = Append(t, kind)
  PROVE  MadeBy(kind, x, u)
<1> DEFINE a == Len(x)
           b == Len(t)
<1>1. a \in Nat /\ b \in Nat
  BY LenProperties
<1>2. CASE kind = "delete"
  <2>1. last = "delete" /\ IsPrefix(t, x) /\ t # <<>> /\ u = Front(t)
    BY <1>2, MadeByIs DEF Space
  <2>2. b <= a /\ \A i \in 1..b : t[i] = x[i]
    BY <2>1, PrefixIs
  <2>3. Len(u) = b - 1 /\ \A i \in 1..(b - 1) : u[i] = t[i]
    BY <2>1, FrontIs
  <2>4. Len(u) <= a /\ \A i \in 1..Len(u) : u[i] = x[i]
    BY <1>1, <2>2, <2>3
  <2>5. IsPrefix(u, x)
    BY <2>4, PrefixIs
  <2> QED
    BY <1>2, <2>5, MadeByIs
<1>3. CASE kind # "delete"
  <2>1. kind \in {Letter, Space} /\ u = Append(t, kind) /\ kind \in Pieces /\ last \in {Letter, Space}
    BY <1>3 DEF Keys, Pieces, Letter, Space
  <2>2. IsPrefix(x, t)
    BY <2>1, MadeByIs
  <2>3. a <= b /\ \A i \in 1..a : x[i] = t[i]
    BY <2>2, PrefixIs
  <2>4. Len(u) = b + 1 /\ u[b + 1] = kind /\ \A i \in 1..b : u[i] = t[i]
    BY <2>1, AppendProperties
  <2>5. a <= Len(u) /\ \A i \in 1..a : x[i] = u[i]
    BY <1>1, <2>3, <2>4
  <2>6. IsPrefix(x, u)
    BY <2>5, PrefixIs
  <2> DEFINE d == b - a
             e == Len(u) - a
  <2>7. Typed(More(x, t)) <=> \E n \in 0..d : \A i \in 1..d : t[a + i] = IF i <= n THEN Letter ELSE Space
    BY <2>3, TypedIs
  <2>8. (\A i \in DOMAIN More(x, t) : More(x, t)[i] = Letter) <=> \A i \in 1..d : t[a + i] = Letter
    BY <2>3, TypedIs
  <2>9. Typed(More(x, u)) <=> \E n \in 0..e : \A i \in 1..e : u[a + i] = IF i <= n THEN Letter ELSE Space
    BY <2>5, TypedIs
  <2>10. (\A i \in DOMAIN More(x, u) : More(x, u)[i] = Letter) <=> \A i \in 1..e : u[a + i] = Letter
    BY <2>5, TypedIs
  <2>11. d \in Nat /\ e = d + 1
    BY <1>1, <2>3, <2>4
  <2>12. ASSUME NEW i \in 1..e PROVE (i \in 1..d /\ u[a + i] = t[a + i]) \/ (i = d + 1 /\ u[a + i] = kind)
    <3>1. i \in 1..d => a + i \in 1..b
      BY <1>1, <2>3
    <3>2. i = d + 1 => a + i = b + 1
      BY <1>1, <2>3
    <3>3. i \in 1..d \/ i = d + 1
      BY <2>11
    <3> QED
      BY <2>4, <3>1, <3>2, <3>3
  <2> HIDE DEF d, e
  <2>13. CASE kind = Letter
    <3>1. last = Letter
      BY <2>13 DEF Letter, Space
    <3>2. \A i \in 1..d : t[a + i] = Letter
      BY <2>8, <3>1, MadeByIs
    <3>3. \A i \in 1..e : u[a + i] = Letter
      BY <2>12, <2>13, <3>2
    <3> QED
      BY <2>6, <2>10, <2>13, <3>3, MadeByIs
  <2>14. CASE kind = Space
    <3>1. PICK n \in 0..d : \A i \in 1..d : t[a + i] = IF i <= n THEN Letter ELSE Space
      <4>1. CASE last = Letter
        <5>1. \A i \in 1..d : t[a + i] = Letter
          BY <2>8, <4>1, MadeByIs
        <5>2. d \in 0..d /\ \A i \in 1..d : i <= d
          BY <2>11
        <5> QED
          BY <5>1, <5>2
      <4>2. CASE last = Space
        <5>1. Typed(More(x, t))
          BY <4>2, MadeByIs
        <5> QED
          BY <2>7, <5>1
      <4> QED
        BY <2>1, <4>1, <4>2
    <3>2. n \in 0..e /\ ~(d + 1 <= n)
      BY <2>11
    <3>3. \A i \in 1..e : u[a + i] = IF i <= n THEN Letter ELSE Space
      BY <2>12, <2>14, <3>1, <3>2
    <3>4. Typed(More(x, u))
      BY <2>9, <3>2, <3>3
    <3> QED
      BY <2>6, <2>14, <3>4, MadeByIs
  <2> QED
    BY <2>1, <2>13, <2>14
<1> QED
  BY <1>2, <1>3

LEMMA MadeIsStep ==
  ASSUME NEW x \in Seq(Pieces), NEW t \in Seq(Pieces), NEW kind \in Keys, MadeBy(kind, x, t)
  PROVE  OneStep(x, t)
<1>1. CASE kind = "delete"
  BY <1>1, MadeByIs DEF OneStep
<1>2. CASE kind = Space
  BY <1>2, MadeByIs DEF OneStep
<1>3. CASE kind = Letter
  <2>1. IsPrefix(x, t) /\ \A i \in DOMAIN More(x, t) : More(x, t)[i] = Letter
    BY <1>3, MadeByIs
  <2>2. Len(x) <= Len(t)
    BY <2>1 DEF IsPrefix
  <2>3. Len(More(x, t)) \in Nat /\ DOMAIN More(x, t) = 1..Len(More(x, t))
    BY <2>2, MoreIs, LenProperties
  <2> DEFINE m == More(x, t)
  <2>4. Len(m) \in 0..Len(m) /\ \A i \in DOMAIN m : i <= Len(m) /\ m[i] = Letter
    BY <2>1, <2>3
  <2> HIDE DEF m
  <2>5. Typed(m)
    BY <2>4 DEF Typed
  <2> QED
    BY <2>1, <2>5 DEF OneStep, m
<1> QED
  BY <1>1, <1>2, <1>3 DEF Keys

LEMMA BlockIsStep ==
  ASSUME NEW t \in Seq(Pieces), NEW u, u = Append(t, Block) \/ (t # <<>> /\ u = Front(t))
  PROVE  u \in Seq(Pieces) /\ OneStep(t, u)
<1>1. Len(t) \in Nat /\ Block \in Pieces
  BY LenProperties DEF Pieces
<1>2. CASE u = Append(t, Block)
  <2>1. u \in Seq(Pieces) /\ Len(u) = Len(t) + 1 /\ u[Len(t) + 1] = Block /\ \A i \in 1..Len(t) : u[i] = t[i]
    BY <1>1, <1>2, AppendProperties
  <2>2. Len(t) <= Len(u) /\ \A i \in 1..Len(t) : t[i] = u[i]
    BY <1>1, <2>1
  <2>3. IsPrefix(t, u)
    BY <2>1, <2>2, PrefixIs
  <2> DEFINE m == More(t, u)
  <2>4. m \in Seq(Pieces) /\ Len(m) = Len(u) - Len(t) /\ \A i \in 1..(Len(u) - Len(t)) : m[i] = u[Len(t) + i]
    <3>1. m \in Seq(Pieces) /\ Len(m) = Len(u) - Len(t)
      BY <2>1, <2>2, MoreIs
    <3>2. \A i \in 1..(Len(u) - Len(t)) : m[i] = u[Len(t) + i]
      BY <2>1, <2>2, MoreIs
    <3> QED
      BY <3>1, <3>2
  <2> HIDE DEF m
  <2>5. Len(m) = 1 /\ m[1] = Block
    BY <1>1, <2>1, <2>4
  <2>6. m = <<Block>>
    <3>1. <<Block>> \in Seq(Pieces) /\ Len(<<Block>>) = 1 /\ <<Block>>[1] = Block
      BY <1>1
    <3> QED
      BY <2>4, <2>5, <3>1, SeqEqual
  <2> QED
    BY <2>1, <2>3, <2>6 DEF OneStep, m
<1>3. CASE t # <<>> /\ u = Front(t)
  <2>1. u \in Seq(Pieces) /\ Len(u) = Len(t) - 1 /\ \A i \in 1..(Len(t) - 1) : u[i] = t[i]
    BY <1>3, FrontIs
  <2>2. Len(u) <= Len(t) /\ \A i \in 1..Len(u) : u[i] = t[i]
    BY <1>1, <2>1
  <2> QED
    BY <2>1, <2>2, PrefixIs DEF OneStep
<1> QED
  BY <1>2, <1>3

(* A step that is opened, and a step that is gone back or forth.           *)
Texts == Seq(Pieces)

LEMMA Opened ==
  ASSUME EditorIInv, text' \in Texts, OneStep(text, text'), SetHistory(Append(past, text), <<>>)
  PROVE  /\ past' \in Seq(Texts) /\ past' # <<>> /\ Last(past') = text /\ future' = <<>>
         /\ InSteps(Line(past', text', future'))
<1> DEFINE p == Append(past, text)
           u == text'
           e == <<>>
           l == Line(p, u, e)
           kept == CapHistory(p, e)
<1>1. text \in Texts /\ past \in Seq(Texts) /\ future \in Seq(Texts) /\ InSteps(Line(past, text, future))
  BY DEF EditorIInv, Texts, OneWordAtATime
<1>2. p \in Seq(Texts) /\ p # <<>> /\ p[Len(p)] = text
  <2>1. p \in Seq(Texts) /\ p # <<>> /\ Len(p) = Len(past) + 1 /\ p[Len(past) + 1] = text
    BY <1>1, AppendProperties
  <2> QED
    BY <2>1
<1>3. InSteps(l)
  BY <1>1, NewVersion
<1>4. e \in Seq(Texts)
  BY NoMore
<1>5. past' = kept[1] /\ future' = kept[2]
  BY DEF SetHistory
<1>6. Last(p) = text
  BY <1>2 DEF Last
<1>7. e = <<>>
  OBVIOUS
<1>8. u \in Texts
  OBVIOUS
<1> HIDE DEF p, u, e
<1>9. kept[1] \in Seq(Texts) /\ l \in Seq(Texts)
  BY <1>2, <1>4, <1>8, KeptLine
<1>10. kept[2] = <<>> /\ kept[1] # <<>> /\ Last(kept[1]) = Last(p)
  <2>1. l \in Seq(Texts) /\ (e = <<>> => kept[2] = <<>>)
    BY <1>2, <1>4, <1>8, KeptLine
  <2>2. e = <<>> /\ p # <<>> => kept[1] # <<>> /\ Last(kept[1]) = Last(p)
    BY <1>2, <1>4, <1>8, KeptLine
  <2> QED
    BY <1>2, <1>7, <2>1, <2>2
<1>11. PartOf(Line(kept[1], u, kept[2]), l, kept[1])
  BY <1>2, <1>4, <1>8, KeptLine
<1> HIDE DEF kept, l
<1>12. InSteps(Line(kept[1], u, kept[2]))
  BY <1>3, <1>9, <1>11, PartInSteps DEF PartOf
<1> QED
  BY <1>5, <1>6, <1>9, <1>10, <1>12 DEF u

LEMMA Kept ==
  ASSUME NEW p \in Seq(Texts), NEW f \in Seq(Texts), text' \in Texts, SetHistory(p, f)
  PROVE  /\ past' \in Seq(Texts) /\ future' \in Seq(Texts) /\ Line(p, text', f) \in Seq(Texts)
         /\ PartOf(Line(past', text', future'), Line(p, text', f), past')
<1> DEFINE u == text'
           l == Line(p, u, f)
           kept == CapHistory(p, f)
<1>1. past' = kept[1] /\ future' = kept[2]
  BY DEF SetHistory
<1>2. u \in Texts
  OBVIOUS
<1> HIDE DEF u
<1>3. kept[1] \in Seq(Texts) /\ kept[2] \in Seq(Texts) /\ l \in Seq(Texts)
  BY <1>2, KeptLine
<1>4. PartOf(Line(kept[1], u, kept[2]), l, kept[1])
  BY <1>2, KeptLine
<1> HIDE DEF kept, l
<1> QED
  BY <1>1, <1>3, <1>4 DEF l, u

LEMMA GoneAlong ==
  ASSUME EditorIInv, Undo \/ Redo
  PROVE  /\ past' \in Seq(Texts) /\ future' \in Seq(Texts) /\ text' \in Texts /\ Line(past, text, future) \in Seq(Texts)
         /\ PartOf(Line(past', text', future'), Line(past, text, future), past')
<1>1. text \in Texts /\ past \in Seq(Texts) /\ future \in Seq(Texts)
  BY DEF EditorIInv, Texts
<1>2. CASE Undo
  <2>1. past # <<>> /\ text' = Last(past) /\ SetHistory(Front(past), Append(future, text))
    BY <1>2 DEF Undo
  <2>2. Front(past) \in Seq(Texts) /\ text' \in Texts
    BY <1>1, <2>1, FrontIs
  <2>3. Append(future, text) \in Seq(Texts)
    BY <1>1, AppendProperties
  <2>4. Line(Front(past), text', Append(future, text)) = Line(past, text, future)
    BY <1>1, <2>1, UndoLine
  <2> QED
    BY <2>1, <2>2, <2>3, <2>4, Kept
<1>3. CASE Redo
  <2>1. future # <<>> /\ text' = Last(future) /\ SetHistory(Append(past, text), Front(future))
    BY <1>3 DEF Redo
  <2>2. Front(future) \in Seq(Texts) /\ text' \in Texts
    BY <1>1, <2>1, FrontIs
  <2>3. Append(past, text) \in Seq(Texts)
    BY <1>1, AppendProperties
  <2>4. Line(Append(past, text), text', Front(future)) = Line(past, text, future)
    BY <1>1, <2>1, RedoLine
  <2> QED
    BY <2>1, <2>2, <2>3, <2>4, Kept
<1> QED
  BY <1>2, <1>3

LEMMA PressingKeeps == ASSUME EditorIInv, NEW kind \in Keys, PressKey(kind) PROVE EditorIInv'
<1> USE DEF Texts
<1>1. text \in Texts /\ past \in Seq(Texts) /\ future \in Seq(Texts) /\ InSteps(Line(past, text, future)) /\ lastKind \in Keys \cup {NoKind}
  BY DEF EditorIInv, OneWordAtATime
<1>2. IF kind = "delete" THEN text # <<>> /\ text' = Front(text) ELSE text' = Append(text, kind)
  BY DEF PressKey
<1>3. text' \in Texts
  <2>1. CASE kind = "delete"
    BY <1>1, <1>2, <2>1, FrontIs
  <2>2. CASE kind # "delete"
    <3>1. kind \in Pieces /\ text' = Append(text, kind)
      BY <1>2, <2>2 DEF Keys, Pieces
    <3> QED
      BY <1>1, <3>1, AppendProperties
  <2> QED
    BY <2>1, <2>2
<1>4. lastKind' = kind /\ kind # NoKind
  BY DEF PressKey, Remember, Keys, NoKind, Letter, Space
<1>5. CASE Grouped(kind)
  <2>1. past' = past /\ future' = future
    BY <1>5 DEF PressKey, Remember
  <2>2. /\ future = <<>> /\ lastKind \in Keys /\ (kind = lastKind \/ (lastKind = Letter /\ kind = Space))
        /\ past # <<>> => MadeBy(lastKind, Last(past), text)
    BY <1>1, <1>5 DEF Grouped, EditorIInv, GroupIsNewest
  <2>3. ASSUME past # <<>> PROVE MadeBy(kind, Last(past), text') /\ OneStep(Last(past), text')
    <3>1. Last(past) \in Texts
      BY <1>1, <2>3, FrontIs
    <3>2. MadeBy(kind, Last(past), text')
      BY <1>1, <1>2, <1>3, <2>2, <2>3, <3>1, GoesOn
    <3> QED
      BY <1>3, <3>1, <3>2, MadeIsStep
  <2>4. InSteps(Line(past, text, <<>>))
    BY <1>1, <2>2
  <2>5. InSteps(Line(past, text', <<>>))
    BY <1>1, <1>3, <2>3, <2>4, OtherVersion
  <2> QED
    BY <1>1, <1>3, <1>4, <2>1, <2>2, <2>3, <2>5 DEF EditorIInv, OneWordAtATime, GroupIsNewest
<1>6. CASE ~Grouped(kind)
  <2>1. SetHistory(Append(past, text), <<>>)
    BY <1>6 DEF PressKey, Remember
  <2>2. MadeBy(kind, text, text')
    <3>1. MadeBy(kind, text, text)
      BY <1>1, NothingMade
    <3> QED
      BY <1>1, <1>2, <1>3, <3>1, GoesOn
  <2>3. OneStep(text, text')
    BY <1>1, <1>3, <2>2, MadeIsStep
  <2>4. /\ past' \in Seq(Texts) /\ Last(past') = text /\ future' = <<>>
        /\ InSteps(Line(past', text', future'))
    BY <1>3, <2>1, <2>3, Opened
  <2>5. future' \in Seq(Texts)
    BY <2>4, NoMore
  <2> QED
    BY <1>3, <1>4, <2>2, <2>4, <2>5 DEF EditorIInv, OneWordAtATime, GroupIsNewest
<1> QED
  BY <1>5, <1>6

LEMMA EditingKeeps == ASSUME EditorIInv, EditInBlock PROVE EditorIInv'
<1> USE DEF Texts
<1>1. text \in Texts
  BY DEF EditorIInv
<1>2. text' \in Texts /\ OneStep(text, text')
  BY <1>1, BlockIsStep DEF EditInBlock
<1>3. lastKind' = NoKind /\ SetHistory(Append(past, text), <<>>)
  BY DEF EditInBlock, Remember, Grouped
<1>4. /\ past' \in Seq(Texts) /\ future' = <<>>
      /\ InSteps(Line(past', text', future'))
  BY <1>2, <1>3, Opened
<1>5. future' \in Seq(Texts)
  BY <1>4, NoMore
<1> QED
  BY <1>2, <1>3, <1>4, <1>5 DEF EditorIInv, OneWordAtATime, GroupIsNewest

LEMMA GoingKeeps == ASSUME EditorIInv, Undo \/ Redo PROVE EditorIInv'
<1> USE DEF Texts
<1>1. lastKind' = NoKind
  BY DEF Undo, Redo
<1>2. past' \in Seq(Texts) /\ future' \in Seq(Texts) /\ text' \in Texts /\ Line(past, text, future) \in Seq(Texts)
  BY GoneAlong
<1>3. PartOf(Line(past', text', future'), Line(past, text, future), past')
  BY GoneAlong
<1>4. InSteps(Line(past', text', future'))
  BY <1>2, <1>3, PartInSteps DEF PartOf, EditorIInv, OneWordAtATime
<1> QED
  BY <1>1, <1>2, <1>4 DEF EditorIInv, OneWordAtATime, GroupIsNewest

LEMMA OneVersion == ASSUME NEW u \in Texts PROVE InSteps(Line(<<>>, u, <<>>))
<1>1. ASSUME NEW e \in Seq(Texts), Len(e) = 0 PROVE InSteps(Line(e, u, e))
  <2>1. Len(Line(e, u, e)) = Len(e) + Len(e) + 1
    BY LineIs
  <2>2. Len(Line(e, u, e)) = 1
    BY <1>1, <2>1
  <2> QED
    BY <2>2 DEF InSteps
<1> QED
  BY <1>1, NoMore

LEMMA EditorKeeps == EditorIInv /\ [EditorNext]_editorVars => EditorIInv'
<1> SUFFICES ASSUME EditorIInv, [EditorNext]_editorVars PROVE EditorIInv'
  OBVIOUS
<1>1. ASSUME NEW value \in WrittenValues, WriteValue(value) PROVE EditorIInv'
  <2>1. text' = value /\ past' = <<>> /\ future' = <<>> /\ lastKind' = lastKind /\ value \in Texts
    BY <1>1, EditorAssumption DEF WriteValue, Texts
  <2>2. InSteps(Line(past', text', future'))
    BY <2>1, OneVersion
  <2>3. past' \in Seq(Texts) /\ future' \in Seq(Texts)
    BY <2>1, NoMore
  <2> QED
    BY <2>1, <2>2, <2>3 DEF EditorIInv, OneWordAtATime, GroupIsNewest, Texts
<1>2. CASE Pause \/ Bar \/ UNCHANGED editorVars
  BY <1>2 DEF Pause, Bar, editorVars, EditorIInv, OneWordAtATime, GroupIsNewest
<1> QED
  BY <1>1, <1>2, PressingKeeps, EditingKeeps, GoingKeeps DEF EditorNext

(* Undo and redo go through every version of the text, in order, and each  *)
(* is a word, a block or a deletion from the next, whatever capHistory has *)
(* thrown away (markdown-editor.component.ts, remember and capHistory).    *)
THEOREM HistoryIsSafe == EditorSpec => HistorySafe
<1>1. EditorInit => EditorIInv
  <2> SUFFICES ASSUME EditorInit PROVE EditorIInv
    OBVIOUS
  <2>1. text = <<>> /\ past = <<>> /\ future = <<>> /\ lastKind = NoKind
    BY DEF EditorInit
  <2>2. <<>> \in Texts
    BY NoMore DEF Texts
  <2>3. <<>> \in Seq(Texts)
    BY NoMore
  <2>4. InSteps(Line(past, text, future))
    BY <2>1, <2>2, OneVersion
  <2> QED
    BY <2>1, <2>2, <2>3, <2>4 DEF EditorIInv, OneWordAtATime, GroupIsNewest, Texts
<1>2. EditorIInv /\ [EditorNext]_editorVars
      => [Undo \/ Redo =>
            LET before == Line(past, text, future)
                after == Line(past', text', future')
            IN \/ IsSuffix(after, before)
               \/ past' = <<>> /\ \E i, j \in DOMAIN before : after = SubSeq(before, i, j)]_editorVars
  <2> SUFFICES ASSUME EditorIInv, Undo \/ Redo
               PROVE  \/ IsSuffix(Line(past', text', future'), Line(past, text, future))
                      \/ /\ past' = <<>>
                         /\ \E i, j \in DOMAIN Line(past, text, future) :
                              Line(past', text', future') = SubSeq(Line(past, text, future), i, j)
    OBVIOUS
  <2> DEFINE before == Line(past, text, future)
             after == Line(past', text', future')
  <2>1. before \in Seq(Texts) /\ DOMAIN before = 1..Len(before) /\ Len(before) \in Nat
    BY GoneAlong, LenProperties
  <2>2. PartOf(after, before, past')
    BY GoneAlong
  <2> HIDE DEF before, after
  <2>3. PICK i \in 1..Len(before) : \E z \in i..Len(before) : after = SubSeq(before, i, z) /\ (z = Len(before) \/ past' = <<>>)
    BY <2>2 DEF PartOf
  <2>4. PICK z \in i..Len(before) : after = SubSeq(before, i, z) /\ (z = Len(before) \/ past' = <<>>)
    BY <2>3
  <2>5. z \in DOMAIN before /\ i \in DOMAIN before
    BY <2>1
  <2>6. z = Len(before) => IsSuffix(after, before)
    BY <2>1, <2>4, EndIsSuffix
  <2> QED
    BY <2>4, <2>5, <2>6 DEF before, after
<1>3. EditorIInv => OneWordAtATime
  BY DEF EditorIInv
<1> QED
  BY <1>1, <1>2, <1>3, EditorKeeps, PTL DEF EditorSpec, HistorySafe, HistoryIsOneLine

-----------------------------------------------------------------------------
(* SiteNav.  An item and the groups around it.                             *)

\* The items are in the order they were added, each after the group it is in.
SectionShape ==
  /\ Len(raw) \in Nat /\ DOMAIN raw = 1..Len(raw)
  /\ \A n \in 1..Len(raw) : raw[n].in \in 0..(n - 1)
  /\ \A n \in 1..Len(raw) : raw[n].in # 0 => raw[raw[n].in].kind = "group"

LEMMA WithinAt ==
  ASSUME SectionShape, NEW n \in 0..Len(raw)
  PROVE  \E up : /\ Within(n) = up[n]
                /\ up[0] = {} /\ \A k \in 1..n : up[k] = {k} \union up[raw[k].in]
<1> DEFINE in == [k \in 1..n |-> raw[k].in]
           move == [k \in 1..n |-> [X \in SUBSET Nat |-> {k} \union X]]
           eq(f) == f = [k \in 0..n |-> IF k = 0 THEN {} ELSE {k} \union f[raw[k].in]]
<1>1. n \in Nat /\ \A k \in 1..n : raw[k].in \in 0..(k - 1) /\ raw[k].in \in 0..n
  BY DEF SectionShape
<1>2. \A k \in 1..n : in[k] \in 0..(k - 1) /\ move[k] \in [SUBSET Nat -> SUBSET Nat]
  BY <1>1
<1>3. {} \in SUBSET Nat
  OBVIOUS
<1>4. PICK f : Walks(f, n, in, {}, move, SUBSET Nat)
  <2> HIDE DEF in, move
  <2> QED
    BY <1>1, <1>2, <1>3, WalkExists
<1>5. eq(f)
  <2>1. f = [k \in 0..n |-> f[k]] /\ f[0] = {}
    BY <1>4 DEF Walks
  <2>2. ASSUME NEW k \in 1..n PROVE f[k] = {k} \union f[raw[k].in]
    <3>1. f[k] = move[k][f[in[k]]] /\ in[k] = raw[k].in /\ f[raw[k].in] \in SUBSET Nat
      BY <1>1, <1>4 DEF Walks
    <3> QED
      BY <3>1
  <2>3. \A k \in 0..n : f[k] = IF k = 0 THEN {} ELSE {k} \union f[raw[k].in]
    BY <2>1, <2>2
  <2> QED
    BY <2>1, <2>3
<1> DEFINE up == CHOOSE g : eq(g)
<1>6. Within(n) = up[n]
  BY DEF Within
<1>7. eq(up)
  <2> HIDE DEF eq
  <2> QED
    BY <1>5
<1> HIDE DEF up
<1>8. up[0] = {} /\ \A k \in 1..n : up[k] = {k} \union up[raw[k].in]
  BY <1>1, <1>7
<1> QED
  BY <1>6, <1>8

LEMMA WithinIs ==
  ASSUME SectionShape
  PROVE  /\ Within(0) = {}
         /\ \A n \in 1..Len(raw) : Within(n) = {n} \union Within(raw[n].in)
<1>1. Within(0) = {}
  <2>1. 0 \in 0..Len(raw)
    BY DEF SectionShape
  <2> QED
    BY <2>1, WithinAt
<1>2. ASSUME NEW n \in 1..Len(raw) PROVE Within(n) = {n} \union Within(raw[n].in)
  <2> DEFINE p == raw[n].in
  <2>1. p \in 0..(n - 1) /\ p \in Nat /\ n \in 0..Len(raw) /\ p \in 0..Len(raw)
    BY DEF SectionShape
  <2>2. PICK f : Within(n) = f[n] /\ f[0] = {} /\ \A k \in 1..n : f[k] = {k} \union f[raw[k].in]
    BY <2>1, WithinAt
  <2>3. PICK g : Within(p) = g[p] /\ g[0] = {} /\ \A k \in 1..p : g[k] = {k} \union g[raw[k].in]
    <3> HIDE DEF p
    <3> QED
      BY <2>1, WithinAt
  <2>8. n \in Nat /\ 1 <= n /\ p < n
    BY <2>1 DEF SectionShape
  <2> HIDE DEF p
  <2>4. ASSUME NEW k \in 0..p, \A j \in 0..p : j < k => f[j] = g[j] PROVE f[k] = g[k]
    <3>1. CASE k = 0
      BY <2>2, <2>3, <3>1
    <3>2. CASE k # 0
      <4>1. k \in 1..p /\ k \in 1..n /\ k \in 1..Len(raw)
        BY <2>1, <2>8, <3>2 DEF SectionShape
      <4>2. \A q \in 0..(k - 1) : q \in 0..p /\ q < k
        BY <2>1, <4>1
      <4>3. raw[k].in \in 0..p /\ raw[k].in < k
        BY <4>1, <4>2 DEF SectionShape
      <4>4. f[raw[k].in] = g[raw[k].in]
        BY <2>4, <4>3
      <4> QED
        BY <2>2, <2>3, <4>1, <4>4
    <3> QED
      BY <3>1, <3>2
  <2>5. \A k \in 0..p : f[k] = g[k]
    <3> DEFINE S == {k \in 0..p : f[k] = g[k]}
    <3>1. p \in Nat /\ \A k \in 0..p : (\A j \in 0..p : j < k => j \in S) => k \in S
      BY <2>1, <2>4
    <3>2. \A k \in 0..p : k \in S
      <4> HIDE DEF S
      <4> QED
        BY <3>1, AfterTheSmaller
    <3> QED
      BY <3>2
  <2>6. f[p] = Within(p)
    BY <2>1, <2>3, <2>5
  <2>7. f[n] = {n} \union f[p]
    BY <2>2, <2>8 DEF p
  <2> QED
    BY <2>2, <2>6, <2>7 DEF p
<1> QED
  BY <1>1, <1>2

\* What is around item n is a path: from it to the top, through groups only.
PathOf(n) ==
  /\ Within(n) \subseteq 1..n /\ IsFiniteSet(Within(n))
  /\ n # 0 => n \in Within(n)
  /\ \A g \in Within(n) : Within(g) \subseteq Within(n)
  /\ \A g \in Within(n) : g # n => raw[g].kind = "group" /\ \E k \in Within(n) : k \in In(g)
  /\ \A k, h \in Within(n) : h < k => h \in Within(k)

LEMMA Paths == ASSUME SectionShape PROVE \A n \in 0..Len(raw) : PathOf(n)
<1> DEFINE N == Len(raw)
           S == {n \in Nat : PathOf(n)}
<1>1. N \in Nat
  BY DEF SectionShape
<1>2. ASSUME NEW n \in 0..N, \A j \in 0..N : j < n => j \in S PROVE n \in S
  <2>1. CASE n = 0
    <3>1. Within(0) = {}
      BY WithinIs
    <3>2. IsFiniteSet({})
      BY FS_EmptySet
    <3> QED
      BY <2>1, <3>1, <3>2 DEF PathOf
  <2>2. CASE n # 0
    <3> DEFINE p == raw[n].in
    <3>1. n \in 1..N /\ n \in Nat
      BY <1>1, <2>2
    <3>2. p \in 0..(n - 1) /\ (p # 0 => raw[p].kind = "group") /\ n \in In(p)
      BY <3>1 DEF SectionShape, In
    <3>3. Within(n) = {n} \union Within(p)
      BY <3>1, WithinIs
    <3> HIDE DEF p
    <3>4. p \in 0..N /\ p < n /\ p \in Nat
      BY <1>1, <3>1, <3>2
    <3>5. PathOf(p)
      BY <1>2, <3>4
    <3>6. /\ Within(p) \subseteq 1..p /\ IsFiniteSet(Within(p)) /\ (p # 0 => p \in Within(p))
          /\ (p = 0 => Within(p) = {})
      BY <3>4, <3>5, WithinIs DEF PathOf
    <3>7. \A g \in Within(p) : g \in Nat /\ g <= p /\ 1 <= g /\ g # n
      BY <3>1, <3>4, <3>6
    <3>8. Within(n) \subseteq 1..n /\ IsFiniteSet(Within(n)) /\ n \in Within(n)
      <4>1. Within(n) \subseteq 1..n
        BY <3>1, <3>3, <3>4, <3>7
      <4>2. IsFiniteSet({n} \union Within(p))
        BY <3>6, FS_AddElement, FS_Singleton, FS_Union
      <4> QED
        BY <3>3, <4>1, <4>2
    <3>9. \A g \in Within(n) : Within(g) \subseteq Within(n)
      BY <3>3, <3>5 DEF PathOf
    <3>10. ASSUME NEW g \in Within(n), g # n PROVE raw[g].kind = "group" /\ \E k \in Within(n) : k \in In(g)
      <4>1. g \in Within(p) /\ p # 0
        BY <3>3, <3>6, <3>10
      <4>2. CASE g = p
        BY <3>2, <3>8, <4>1, <4>2
      <4>3. CASE g # p
        BY <3>3, <3>5, <4>1, <4>3 DEF PathOf
      <4> QED
        BY <4>2, <4>3
    <3>11. ASSUME NEW k \in Within(n), NEW h \in Within(n), h < k PROVE h \in Within(k)
      <4>1. CASE k = n
        BY <4>1
      <4>2. CASE k # n
        <5>1. k \in Within(p) /\ (h = n \/ h \in Within(p))
          BY <3>3, <4>2
        <5>2. h # n
          BY <3>1, <3>4, <3>7, <3>11, <5>1
        <5> QED
          BY <3>5, <3>11, <5>1, <5>2 DEF PathOf
      <4> QED
        BY <4>1, <4>2
    <3> QED
      BY <3>1, <3>8, <3>9, <3>10, <3>11 DEF PathOf
  <2> QED
    BY <2>1, <2>2
<1> HIDE DEF S, N
<1>3. \A n \in 0..N : (\A j \in 0..N : j < n => j \in S) => n \in S
  BY <1>2
<1>4. \A n \in 0..N : n \in S
  BY <1>1, <1>3, AfterTheSmaller
<1> QED
  BY <1>4 DEF S, N

-----------------------------------------------------------------------------
(* What is left of a section, and what of it a visitor sees                *)

\* Something that stands for what the project meant is inside n, or n is it.
Holds(n) == \E m \in DOMAIN raw : Meant(m) /\ n \in Within(m)

LEMMA HoldsIs ==
  ASSUME SectionShape, NEW n \in DOMAIN raw
  PROVE  Holds(n) <=> IF raw[n].kind = "group" THEN \E k \in In(n) : Holds(k) ELSE NavLeaves(raw[n]) > 0
<1>1. \A m \in DOMAIN raw : m \in 0..Len(raw) /\ PathOf(m) /\ m # 0
  BY Paths DEF SectionShape
<1>2. \A m \in DOMAIN raw : m \in Within(m)
  BY <1>1 DEF PathOf
<1>3. CASE raw[n].kind = "group"
  <2>1. ASSUME NEW m \in DOMAIN raw, Meant(m), n \in Within(m) PROVE \E k \in In(n) : Holds(k)
    <3>1. n # m
      BY <1>3, <2>1 DEF Meant
    <3>2. PICK k \in Within(m) : k \in In(n)
      BY <1>1, <2>1, <3>1 DEF PathOf
    <3> QED
      BY <2>1, <3>2 DEF Holds
  <2>2. ASSUME NEW k \in In(n), NEW m \in DOMAIN raw, Meant(m), k \in Within(m) PROVE n \in Within(m)
    <3>1. k \in DOMAIN raw /\ raw[k].in = n
      BY DEF In
    <3>2. n \in Within(k)
      BY <1>2, <3>1, WithinIs DEF SectionShape
    <3> QED
      BY <1>1, <2>2, <3>2 DEF PathOf
  <2> QED
    BY <1>3, <2>1, <2>2 DEF Holds
<1>4. CASE raw[n].kind # "group"
  <2>1. ASSUME NEW m \in DOMAIN raw, n \in Within(m) PROVE m = n
    BY <1>1, <1>4, <2>1 DEF PathOf
  <2>2. Holds(n) <=> Meant(n)
    BY <1>2, <2>1 DEF Holds
  <2> QED
    BY <1>4, <2>2 DEF Meant
<1> QED
  BY <1>3, <1>4

LEMMA ResolvedIs == ASSUME SectionShape PROVE Resolved = {n \in DOMAIN raw : Holds(n)}
<1> DEFINE eq(f) == f = [n \in DOMAIN raw |-> IF raw[n].kind = "group" THEN \E k \in In(n) : f[k] ELSE NavLeaves(raw[n]) > 0]
           kept == CHOOSE f : eq(f)
           closed == [n \in DOMAIN raw |-> Holds(n)]
<1>1. Resolved = {n \in DOMAIN raw : kept[n]}
  BY DEF Resolved
<1>2. eq(closed)
  <2>1. \A n \in DOMAIN raw : \A k \in In(n) : k \in DOMAIN raw
    BY DEF In
  <2>2. ASSUME NEW n \in DOMAIN raw
        PROVE  Holds(n) = (IF raw[n].kind = "group" THEN \E k \in In(n) : closed[k] ELSE NavLeaves(raw[n]) > 0)
    <3>1. (\E k \in In(n) : closed[k]) <=> (\E k \in In(n) : Holds(k))
      BY <2>1
    <3> DEFINE rhs == IF raw[n].kind = "group" THEN \E k \in In(n) : closed[k] ELSE NavLeaves(raw[n]) > 0
    <3>2. Holds(n) <=> rhs
      BY <3>1, HoldsIs
    <3>3. Holds(n) \in BOOLEAN
      BY DEF Holds
    <3>5. rhs \in BOOLEAN
      <4>1. (\E k \in In(n) : closed[k]) \in BOOLEAN
        BY Zenon
      <4>2. (NavLeaves(raw[n]) > 0) \in BOOLEAN
        BY SMT
      <4> HIDE DEF closed
      <4> QED
        BY Zenon, <4>1, <4>2
    <3> HIDE DEF rhs
    <3>4. Holds(n) = rhs
      BY <3>2, <3>3, <3>5
    <3> QED
      BY <3>4 DEF rhs
  <2> QED
    BY <2>2
<1>3. eq(kept)
  <2> HIDE DEF eq, closed
  <2> QED
    BY <1>2
<1> HIDE DEF kept
<1>4. \A n \in DOMAIN raw : kept[n] = (IF raw[n].kind = "group" THEN \E k \in In(n) : kept[k] ELSE NavLeaves(raw[n]) > 0)
  BY <1>3
<1> DEFINE S == {n \in DOMAIN raw : kept[n] <=> Holds(n)}
<1>5. ASSUME NEW n \in 1..Len(raw), \A j \in 1..Len(raw) : j > n => j \in S PROVE n \in S
  <2>1. n \in DOMAIN raw /\ DOMAIN raw = 1..Len(raw) /\ \A k \in In(n) : k \in DOMAIN raw /\ k > n
    BY DEF In, SectionShape
  <2>2. \A k \in In(n) : kept[k] <=> Holds(k)
    BY <1>5, <2>1
  <2> QED
    BY <1>4, <2>1, <2>2, HoldsIs
<1>6. \A n \in 1..Len(raw) : n \in S
  <2>1. Len(raw) \in Nat /\ \A n \in 1..Len(raw) : (\A j \in 1..Len(raw) : j > n => j \in S) => n \in S
    BY <1>5 DEF SectionShape
  <2> HIDE DEF S
  <2> QED
    BY <2>1, AfterTheLarger
<1> QED
  BY <1>1, <1>6 DEF SectionShape

\* Something meant is inside n, and from there up to n nothing is kept for others.
Open(n, loggedIn) ==
  \E m \in DOMAIN raw : Meant(m) /\ n \in Within(m) /\ \A g \in Within(m) : g >= n => (AuthOnly(g) => loggedIn)

LEMMA OpenIs ==
  ASSUME SectionShape, NEW n \in DOMAIN raw, NEW loggedIn \in BOOLEAN
  PROVE  Open(n, loggedIn) <=> /\ n \in Resolved
                               /\ AuthOnly(n) => loggedIn
                               /\ raw[n].kind = "group" => \E k \in In(n) : Open(k, loggedIn)
<1> DEFINE Free(g) == AuthOnly(g) => loggedIn
<1>1. \A m \in DOMAIN raw : m \in 0..Len(raw) /\ m \in Nat /\ m # 0 /\ PathOf(m) /\ m \in Within(m) /\ Within(m) \subseteq DOMAIN raw
  <2>1. \A m \in DOMAIN raw : m \in 0..Len(raw) /\ m \in Nat /\ m # 0 /\ PathOf(m)
    BY Paths DEF SectionShape
  <2>2. \A m \in DOMAIN raw : 1..m \subseteq DOMAIN raw
    BY DEF SectionShape
  <2> QED
    BY <2>1, <2>2 DEF PathOf
<1>2. n \in Resolved <=> Holds(n)
  BY ResolvedIs
<1>3. ASSUME NEW m \in DOMAIN raw, Meant(m), n \in Within(m), \A g \in Within(m) : g >= n => Free(g)
      PROVE  Holds(n) /\ Free(n) /\ (raw[n].kind = "group" => \E k \in In(n) : Open(k, loggedIn))
  <2>1. Holds(n)
    BY <1>3 DEF Holds
  <2>2. Free(n)
    BY <1>1, <1>3
  <2>3. ASSUME raw[n].kind = "group" PROVE \E k \in In(n) : Open(k, loggedIn)
    <3>1. n # m
      BY <1>3, <2>3 DEF Meant
    <3>2. PICK k \in Within(m) : k \in In(n)
      BY <1>1, <1>3, <3>1 DEF PathOf
    <3>3. k \in DOMAIN raw /\ k > n
      BY <3>2 DEF In, SectionShape
    <3>4. \A g \in Within(m) : g >= k => g >= n
      BY <1>1, <3>3
    <3>5. \A g \in Within(m) : g >= k => Free(g)
      BY <1>3, <3>4
    <3> QED
      BY <1>3, <3>2, <3>5 DEF Open
  <2> QED
    BY <2>1, <2>2, <2>3
<1>4. ASSUME raw[n].kind = "group", Free(n), NEW k \in In(n), NEW m \in DOMAIN raw, Meant(m), k \in Within(m),
             \A g \in Within(m) : g >= k => Free(g)
      PROVE  Open(n, loggedIn)
  <2>1. k \in DOMAIN raw /\ raw[k].in = n /\ Within(k) = {k} \union Within(n)
    BY WithinIs DEF In, SectionShape
  <2>2. n \in Within(k) /\ n \in Within(m)
    BY <1>1, <1>4, <2>1 DEF PathOf
  <2>3. ASSUME NEW g \in Within(m), g >= n PROVE Free(g)
    <3>1. CASE g >= k
      BY <1>4, <3>1
    <3>2. CASE ~(g >= k)
      <4>1. g < k /\ g \in Nat /\ k \in Nat /\ n \in Nat
        BY <1>1, <2>1, <3>2
      <4>2. g \in Within(k)
        BY <1>1, <1>4, <4>1 DEF PathOf
      <4>3. g \in Within(n)
        BY <2>1, <4>1, <4>2
      <4>4. g <= n
        BY <1>1, <4>1, <4>3 DEF PathOf
      <4>5. g = n
        BY <2>3, <4>1, <4>4
      <4> QED
        BY <1>4, <4>5
    <3> QED
      BY <3>1, <3>2
  <2> QED
    BY <1>4, <2>2, <2>3 DEF Open
<1>5. ASSUME raw[n].kind # "group", Holds(n), Free(n) PROVE Open(n, loggedIn)
  <2>1. PICK m \in DOMAIN raw : Meant(m) /\ n \in Within(m)
    BY <1>5 DEF Holds
  <2>2. m = n
    BY <1>1, <1>5, <2>1 DEF PathOf
  <2>3. \A g \in Within(n) : g >= n => g = n
    BY <1>1 DEF PathOf
  <2> QED
    BY <1>5, <2>1, <2>2, <2>3 DEF Open
<1>6. Open(n, loggedIn) => n \in Resolved /\ Free(n) /\ (raw[n].kind = "group" => \E k \in In(n) : Open(k, loggedIn))
  BY <1>2, <1>3 DEF Open
<1>7. n \in Resolved /\ Free(n) /\ (raw[n].kind = "group" => \E k \in In(n) : Open(k, loggedIn)) => Open(n, loggedIn)
  <2>1. ASSUME raw[n].kind = "group", Free(n), NEW k \in In(n), Open(k, loggedIn) PROVE Open(n, loggedIn)
    BY <1>4, <2>1 DEF Open
  <2> QED
    BY <1>2, <1>5, <2>1
<1> QED
  BY <1>6, <1>7

LEMMA ShownIs ==
  ASSUME SectionShape, NEW loggedIn \in BOOLEAN
  PROVE  Shown(loggedIn) = {n \in DOMAIN raw : \A g \in Within(n) : Open(g, loggedIn)}
<1> DEFINE rhs(f, n) == /\ n \in Resolved
                        /\ AuthOnly(n) => loggedIn
                        /\ raw[n].kind = "group" => \E k \in In(n) : f[k]
           eq(f) == f = [n \in DOMAIN raw |-> rhs(f, n)]
           stays == CHOOSE f : eq(f)
           closed == [n \in DOMAIN raw |-> Open(n, loggedIn)]
<1>1. Shown(loggedIn) = {n \in DOMAIN raw : \A g \in Within(n) : stays[g]}
  BY DEF Shown
<1>2. eq(closed)
  <2>1. \A n \in DOMAIN raw : \A k \in In(n) : k \in DOMAIN raw
    BY DEF In
  <2>2. ASSUME NEW n \in DOMAIN raw PROVE Open(n, loggedIn) = rhs(closed, n)
    <3>1. (\E k \in In(n) : closed[k]) <=> (\E k \in In(n) : Open(k, loggedIn))
      BY <2>1
    <3>2. Open(n, loggedIn) <=> rhs(closed, n)
      <4> HIDE DEF closed
      <4> QED
        BY <3>1, OpenIs
    <3>3. Open(n, loggedIn) \in BOOLEAN
      BY DEF Open
    <3>4. rhs(closed, n) \in BOOLEAN
      <4> HIDE DEF closed
      <4> QED
        BY Zenon
    <3> HIDE DEF rhs
    <3> QED
      BY <3>2, <3>3, <3>4
  <2> HIDE DEF rhs
  <2>3. closed = [n \in DOMAIN raw |-> rhs(closed, n)]
    BY <2>2
  <2> QED
    BY <2>3
<1>3. eq(stays)
  <2> HIDE DEF eq, closed
  <2> QED
    BY <1>2
<1> HIDE DEF stays
<1>4. \A n \in DOMAIN raw : stays[n] = rhs(stays, n)
  BY <1>3
<1> DEFINE S == {n \in DOMAIN raw : stays[n] <=> Open(n, loggedIn)}
<1>5. ASSUME NEW n \in 1..Len(raw), \A j \in 1..Len(raw) : j > n => j \in S PROVE n \in S
  <2>1. n \in DOMAIN raw /\ DOMAIN raw = 1..Len(raw) /\ \A k \in In(n) : k \in DOMAIN raw /\ k > n
    BY DEF In, SectionShape
  <2>2. \A k \in In(n) : stays[k] <=> Open(k, loggedIn)
    BY <1>5, <2>1
  <2>3. (\E k \in In(n) : stays[k]) <=> (\E k \in In(n) : Open(k, loggedIn))
    BY <2>2
  <2>4. rhs(stays, n) <=> Open(n, loggedIn)
    BY <2>1, <2>3, OpenIs
  <2>5. stays[n] = rhs(stays, n)
    BY <1>4, <2>1
  <2>6. stays[n] <=> Open(n, loggedIn)
    <3> HIDE DEF rhs
    <3> QED
      BY <2>4, <2>5
  <2> QED
    BY <2>1, <2>6
<1>6. \A n \in 1..Len(raw) : n \in S
  <2>1. Len(raw) \in Nat /\ \A n \in 1..Len(raw) : (\A j \in 1..Len(raw) : j > n => j \in S) => n \in S
    BY <1>5 DEF SectionShape
  <2> HIDE DEF S
  <2> QED
    BY <2>1, AfterTheLarger
<1>7. \A n \in DOMAIN raw : Within(n) \subseteq DOMAIN raw
  BY Paths DEF PathOf, SectionShape
<1> QED
  BY <1>1, <1>6, <1>7 DEF SectionShape

LEMMA TheirsAreSeen == SectionShape => VisitorsSeeTheirs
<1> SUFFICES ASSUME SectionShape, NEW loggedIn \in BOOLEAN
             PROVE  LET theirs == {n \in DOMAIN raw : Meant(n) /\ (loggedIn \/ \A g \in Within(n) : ~AuthOnly(g))}
                    IN Shown(loggedIn) = {g \in DOMAIN raw : \E n \in theirs : g \in Within(n)}
  BY DEF VisitorsSeeTheirs
<1> DEFINE theirs == {n \in DOMAIN raw : Meant(n) /\ (loggedIn \/ \A g \in Within(n) : ~AuthOnly(g))}
<1>1. \A m \in DOMAIN raw : m \in Nat /\ PathOf(m) /\ m \in Within(m) /\ Within(m) \subseteq DOMAIN raw
  <2>1. \A m \in DOMAIN raw : m \in 0..Len(raw) /\ m \in Nat /\ m # 0 /\ PathOf(m)
    BY Paths DEF SectionShape
  <2>2. \A m \in DOMAIN raw : 1..m \subseteq DOMAIN raw
    BY DEF SectionShape
  <2> QED
    BY <2>1, <2>2 DEF PathOf
<1>2. ASSUME NEW n \in DOMAIN raw, NEW m \in theirs, n \in Within(m), NEW g \in Within(n) PROVE Open(g, loggedIn)
  <2>1. g \in Within(m)
    BY <1>1, <1>2 DEF PathOf
  <2>2. \A h \in Within(m) : AuthOnly(h) => loggedIn
    OBVIOUS
  <2> QED
    BY <2>1, <2>2 DEF Open
<1>3. ASSUME NEW n \in DOMAIN raw, \A g \in Within(n) : Open(g, loggedIn) PROVE \E m \in theirs : n \in Within(m)
  <2>1. PICK m \in DOMAIN raw : Meant(m) /\ n \in Within(m) /\ \A g \in Within(m) : g >= n => (AuthOnly(g) => loggedIn)
    BY <1>1, <1>3 DEF Open
  <2>2. ASSUME NEW g \in Within(m), ~(g >= n) PROVE AuthOnly(g) => loggedIn
    <3>1. g < n /\ g \in DOMAIN raw
      BY <1>1, <2>1, <2>2
    <3>2. g \in Within(n)
      BY <1>1, <2>1, <3>1 DEF PathOf
    <3>3. Open(g, loggedIn)
      BY <1>3, <3>2
    <3> QED
      BY <3>1, <3>3, OpenIs
  <2>3. \A g \in Within(m) : AuthOnly(g) => loggedIn
    BY <2>1, <2>2
  <2> QED
    BY <2>1, <2>3
<1>4. Shown(loggedIn) = {n \in DOMAIN raw : \A g \in Within(n) : Open(g, loggedIn)}
  BY ShownIs
<1> QED
  BY <1>2, <1>3, <1>4

-----------------------------------------------------------------------------
(* Depth                                                                   *)

LEMMA DepthIs ==
  ASSUME SectionShape
  PROVE  /\ Depth(0) = 0
         /\ \A n \in DOMAIN raw : Depth(n) \in Nat /\ Depth(raw[n].in) \in Nat /\ Depth(n) = Depth(raw[n].in) + 1
<1>1. Depth(0) = 0
  BY WithinIs, FS_EmptySet DEF Depth
<1>2. ASSUME NEW n \in DOMAIN raw
      PROVE  Depth(n) \in Nat /\ Depth(raw[n].in) \in Nat /\ Depth(n) = Depth(raw[n].in) + 1
  <2> DEFINE p == raw[n].in
  <2>1. n \in 1..Len(raw) /\ p \in 0..(n - 1) /\ p \in 0..Len(raw)
    BY DEF SectionShape
  <2>2. PathOf(p) /\ Within(n) = {n} \union Within(p)
    BY <2>1, Paths, WithinIs
  <2> HIDE DEF p
  <2>3. IsFiniteSet(Within(p)) /\ n \notin Within(p)
    BY <2>1, <2>2 DEF PathOf
  <2>4. Cardinality(Within(p)) \in Nat /\ Cardinality(Within(p) \union {n}) = Cardinality(Within(p)) + 1
    BY <2>3, FS_AddElement, FS_CardinalityType
  <2>5. {n} \union Within(p) = Within(p) \union {n}
    OBVIOUS
  <2>6. Depth(n) = Cardinality({n} \union Within(p)) /\ Depth(p) = Cardinality(Within(p))
    BY <2>2 DEF Depth
  <2>7. Depth(p) \in Nat /\ Depth(n) = Depth(p) + 1
    BY <2>4, <2>5, <2>6
  <2>8. Depth(n) \in Nat
    BY <2>7
  <2> QED
    BY <2>7, <2>8 DEF p
<1> QED
  BY <1>1, <1>2

LEMMA AllThatIsMeantIsShown == ASSUME SectionShape PROVE Shown(TRUE) = Resolved
<1>1. Shown(TRUE) = {n \in DOMAIN raw : \A g \in Within(n) : Open(g, TRUE)}
  BY ShownIs
<1>2. \A n \in DOMAIN raw : n \in Within(n) /\ \A m \in DOMAIN raw : n \in Within(m) => Within(n) \subseteq Within(m)
  BY Paths DEF PathOf, SectionShape
<1>3. \A n : Open(n, TRUE) <=> Holds(n)
  BY DEF Open, Holds
<1>4. \A n \in DOMAIN raw : Holds(n) => \A g \in Within(n) : Holds(g)
  BY <1>2 DEF Holds
<1> QED
  BY <1>1, <1>2, <1>3, <1>4, ResolvedIs

LEMMA LimitIsOfWhatIsSeen == SectionShape => DepthIsBounded
<1> SUFFICES ASSUME SectionShape PROVE DepthIsBounded
  OBVIOUS
<1>1. Shown(TRUE) = Resolved /\ Resolved = {n \in DOMAIN raw : Holds(n)}
  BY AllThatIsMeantIsShown, ResolvedIs
<1>2. \A n \in DOMAIN raw : Depth(n) \in Nat /\ Depth(raw[n].in) \in Nat /\ Depth(n) = Depth(raw[n].in) + 1
  BY DepthIs
<1>3. NavDepthMax \in Nat /\ NavDepthMax >= 1
  BY DepthMaxIsPositive
<1>4. ASSUME Accepted, NEW n \in Resolved PROVE Depth(n) <= NavDepthMax
  <2>1. n \in DOMAIN raw /\ Holds(n)
    BY <1>1
  <2>2. CASE raw[n].kind = "group"
    <3>1. Depth(n) + 1 <= NavDepthMax
      BY <1>4, <2>2 DEF Accepted
    <3> QED
      BY <1>2, <1>3, <2>1, <3>1
  <2>3. CASE raw[n].in = 0
    <3>1. Depth(n) = 1
      BY <1>2, <2>1, <2>3, DepthIs
    <3> QED
      BY <1>3, <3>1
  <2>4. CASE raw[n].in # 0
    <3> DEFINE p == raw[n].in
    <3>1. p \in DOMAIN raw /\ raw[p].kind = "group" /\ n \in In(p)
      BY <2>1, <2>4 DEF SectionShape, In
    <3>2. Holds(p)
      BY <2>1, <3>1, HoldsIs
    <3>3. Depth(p) + 1 <= NavDepthMax
      BY <1>1, <1>4, <3>1, <3>2 DEF Accepted
    <3> QED
      BY <1>2, <2>1, <3>3
  <2> QED
    BY <2>3, <2>4
<1>5. ASSUME \A n \in Resolved : Depth(n) <= NavDepthMax PROVE Accepted
  <2> SUFFICES ASSUME NEW n \in Resolved, raw[n].kind = "group" PROVE Depth(n) + 1 <= NavDepthMax
    BY DEF Accepted
  <2>1. PICK k \in In(n) : Holds(k)
    BY <1>1, HoldsIs
  <2>2. k \in DOMAIN raw /\ raw[k].in = n
    BY DEF In
  <2> QED
    BY <1>1, <1>2, <1>5, <2>1, <2>2
<1> QED
  BY <1>1, <1>4, <1>5 DEF DepthIsBounded

-----------------------------------------------------------------------------
(* The footer a project gets when it has written none                      *)

FirstFields == <<"PartitaIvaCodiceFiscale", "registroImprese", "numeroRea", "codiceSdi">>
SecondFields == <<"capitaleSociale", "capitaleVersato", "socioUnico", "inLiquidazione">>
ThirdFields ==
  <<"ragioneSociale", "sedeLegale", "rappresentanteLegale", "TitolareDelTrattamento", "ResponsabileProtezioneDati",
    "telefono", "email", "pec", "openingHours">>
FieldNames ==
  {"PartitaIvaCodiceFiscale", "registroImprese", "numeroRea", "codiceSdi", "capitaleSociale", "capitaleVersato",
   "socioUnico", "inLiquidazione", "ragioneSociale", "sedeLegale", "rappresentanteLegale", "TitolareDelTrattamento",
   "ResponsabileProtezioneDati", "telefono", "email", "pec", "openingHours"}
NavRefs ==
  {item.ref : item \in NavItems} \union FieldNames
  \union {"datiSocietariAzienda", "datiLegaliAzienda", "contattiAzienda", "socialAzienda"}
  \union {id["social"] : id \in Identities}

FooterGroup(label) == <<[in |-> 0, kind |-> "group", ref |-> label, auth |-> FALSE]>>
FooterFields(g, names) == [i \in DOMAIN names |-> [in |-> g, kind |-> "field", ref |-> names[i], auth |-> FALSE]]
FooterEnd(id) ==
  IF Has(id, "social")
  THEN FooterGroup("socialAzienda") \o <<[in |-> 21, kind |-> "social", ref |-> id["social"], auth |-> FALSE]>>
  ELSE <<>>

\* Where its groups and fields are.
FooterAt(f, id) ==
  /\ f \in Seq(NavItem(NavRefs)) /\ Len(f) \in {20, 22}
  /\ \A n \in {1, 6, 11} : f[n].in = 0 /\ f[n].kind = "group"
  /\ \A i \in 1..4 : f[1 + i].in = 1 /\ f[1 + i].kind = "field" /\ f[1 + i].ref = FirstFields[i]
  /\ \A i \in 1..4 : f[6 + i].in = 6 /\ f[6 + i].kind = "field" /\ f[6 + i].ref = SecondFields[i]
  /\ \A i \in 1..9 : f[11 + i].in = 11 /\ f[11 + i].kind = "field" /\ f[11 + i].ref = ThirdFields[i]
  /\ Len(f) = 22 => f[21].in = 0 /\ f[21].kind = "group" /\ f[22].in = 21 /\ f[22].kind = "social"

LEMMA FooterFieldsAre ==
  ASSUME NEW g \in Nat, NEW names \in Seq(FieldNames)
  PROVE  /\ FooterFields(g, names) \in Seq(NavItem(NavRefs)) /\ Len(FooterFields(g, names)) = Len(names)
         /\ \A i \in 1..Len(names) : /\ FooterFields(g, names)[i].in = g /\ FooterFields(g, names)[i].kind = "field"
                                      /\ FooterFields(g, names)[i].ref = names[i]
<1> DEFINE f == FooterFields(g, names)
           n == Len(names)
<1>1. n \in Nat /\ DOMAIN names = 1..n /\ \A i \in 1..n : names[i] \in NavRefs
  BY LenProperties, ElementOfSeq DEF NavRefs
<1>2. f \in [1..n -> NavItem(NavRefs)]
  BY <1>1 DEF FooterFields, NavItem
<1>3. \A i \in 1..n : f[i].in = g /\ f[i].kind = "field" /\ f[i].ref = names[i]
  BY <1>1 DEF FooterFields
<1> HIDE DEF f, n
<1>4. f \in Seq(NavItem(NavRefs)) /\ DOMAIN f = 1..n
  BY <1>1, <1>2, SeqDef
<1>5. Len(f) = n
  BY <1>1, <1>4, LengthIs
<1> QED
  BY <1>3, <1>4, <1>5 DEF f, n

LEMMA FooterGroupIs ==
  ASSUME NEW label \in NavRefs
  PROVE  /\ FooterGroup(label) \in Seq(NavItem(NavRefs)) /\ Len(FooterGroup(label)) = 1
         /\ FooterGroup(label)[1].in = 0 /\ FooterGroup(label)[1].kind = "group"
BY DEF FooterGroup, NavItem

LEMMA DefaultFooterIs == ASSUME NEW id \in Identities PROVE FooterAt(DefaultFooter(id), id)
<1> DEFINE T == NavItem(NavRefs)
           g1 == FooterGroup("datiSocietariAzienda")
           f1 == FooterFields(1, FirstFields)
           g2 == FooterGroup("datiLegaliAzienda")
           f2 == FooterFields(6, SecondFields)
           g3 == FooterGroup("contattiAzienda")
           f3 == FooterFields(11, ThirdFields)
           end == FooterEnd(id)
           s1 == g1 \o f1
           s2 == s1 \o g2
           s3 == s2 \o f2
           s4 == s3 \o g3
           s5 == s4 \o f3
           all == s5 \o end
<1>1. DefaultFooter(id) = all
  BY DEF DefaultFooter, FooterGroup, FooterFields, FooterEnd, FirstFields, SecondFields, ThirdFields
<1>2. \A g \in {g1, g2, g3} : g \in Seq(T) /\ Len(g) = 1 /\ g[1].in = 0 /\ g[1].kind = "group"
  BY FooterGroupIs DEF NavRefs
<1>3. /\ f1 \in Seq(T) /\ Len(f1) = 4
      /\ \A i \in 1..4 : f1[i].in = 1 /\ f1[i].kind = "field" /\ f1[i].ref = FirstFields[i]
  <2>1. FirstFields \in Seq(FieldNames) /\ Len(FirstFields) = 4
    BY DEF FirstFields, FieldNames
  <2> QED
    BY <2>1, FooterFieldsAre
<1>4. /\ f2 \in Seq(T) /\ Len(f2) = 4
      /\ \A i \in 1..4 : f2[i].in = 6 /\ f2[i].kind = "field" /\ f2[i].ref = SecondFields[i]
  <2>1. SecondFields \in Seq(FieldNames) /\ Len(SecondFields) = 4
    BY DEF SecondFields, FieldNames
  <2> QED
    BY <2>1, FooterFieldsAre
<1>5. /\ f3 \in Seq(T) /\ Len(f3) = 9
      /\ \A i \in 1..9 : f3[i].in = 11 /\ f3[i].kind = "field" /\ f3[i].ref = ThirdFields[i]
  <2>1. ThirdFields \in Seq(FieldNames) /\ Len(ThirdFields) = 9
    BY DEF ThirdFields, FieldNames
  <2> QED
    BY <2>1, FooterFieldsAre
<1>6. /\ end \in Seq(T) /\ Len(end) \in {0, 2}
      /\ Len(end) = 2 => end[1].in = 0 /\ end[1].kind = "group" /\ end[2].in = 21 /\ end[2].kind = "social"
  <2>1. CASE ~Has(id, "social")
    <3>1. end = <<>>
      BY <2>1 DEF FooterEnd
    <3> QED
      BY <3>1
  <2>2. CASE Has(id, "social")
    <3> DEFINE g == FooterGroup("socialAzienda")
               l == <<[in |-> 21, kind |-> "social", ref |-> id["social"], auth |-> FALSE]>>
    <3>1. end = g \o l
      BY <2>2 DEF FooterEnd
    <3>2. g \in Seq(T) /\ Len(g) = 1 /\ g[1].in = 0 /\ g[1].kind = "group"
      BY FooterGroupIs DEF NavRefs
    <3>3. l \in Seq(T) /\ Len(l) = 1 /\ l[1].in = 21 /\ l[1].kind = "social"
      BY DEF NavRefs, NavItem
    <3> HIDE DEF g, l, end, T
    <3>4. Joint(T, g, l)
      BY <3>2, <3>3, JointIs
    <3>5. Len(g \o l) = 2 /\ (g \o l)[1] = g[1] /\ (g \o l)[2] = l[1] /\ g \o l \in Seq(T)
      BY <3>2, <3>3, <3>4 DEF Joint
    <3> QED
      BY <3>1, <3>2, <3>3, <3>5
  <2> QED
    BY <2>1, <2>2
<1> HIDE DEF T, g1, f1, g2, f2, g3, f3, end
<1>7. /\ s1 \in Seq(T) /\ Len(s1) = 5
      /\ \A i \in 1..1 : s1[i] = g1[i]
      /\ \A i \in 1..4 : s1[1 + i] = f1[i]
  <2>1. g1 \in Seq(T) /\ f1 \in Seq(T) /\ Len(g1) = 1 /\ Len(f1) = 4
    BY <1>2, <1>3
  <2>2. Seam(T, g1, f1, 1, 4)
    BY <2>1, SeamIs
  <2>3. /\ s1 \in Seq(T) /\ Len(s1) = 1 + 4
        /\ \A i \in 1..1 : s1[i] = g1[i]
        /\ \A i \in 1..4 : s1[1 + i] = f1[i]
    BY <2>2 DEF Seam
  <2> HIDE DEF s1
  <2> QED
    BY <2>3
<1> HIDE DEF s1
<1>8. /\ s2 \in Seq(T) /\ Len(s2) = 6
      /\ \A i \in 1..5 : s2[i] = s1[i]
      /\ \A i \in 1..1 : s2[5 + i] = g2[i]
  <2>1. s1 \in Seq(T) /\ g2 \in Seq(T) /\ Len(s1) = 5 /\ Len(g2) = 1
    BY <1>2, <1>7
  <2>2. Seam(T, s1, g2, 5, 1)
    BY <2>1, SeamIs
  <2>3. /\ s2 \in Seq(T) /\ Len(s2) = 5 + 1
        /\ \A i \in 1..5 : s2[i] = s1[i]
        /\ \A i \in 1..1 : s2[5 + i] = g2[i]
    BY <2>2 DEF Seam
  <2> HIDE DEF s2
  <2> QED
    BY <2>3
<1> HIDE DEF s2
<1>9. /\ s3 \in Seq(T) /\ Len(s3) = 10
      /\ \A i \in 1..6 : s3[i] = s2[i]
      /\ \A i \in 1..4 : s3[6 + i] = f2[i]
  <2>1. s2 \in Seq(T) /\ f2 \in Seq(T) /\ Len(s2) = 6 /\ Len(f2) = 4
    BY <1>4, <1>8
  <2>2. Seam(T, s2, f2, 6, 4)
    BY <2>1, SeamIs
  <2>3. /\ s3 \in Seq(T) /\ Len(s3) = 6 + 4
        /\ \A i \in 1..6 : s3[i] = s2[i]
        /\ \A i \in 1..4 : s3[6 + i] = f2[i]
    BY <2>2 DEF Seam
  <2> HIDE DEF s3
  <2> QED
    BY <2>3
<1> HIDE DEF s3
<1>10. /\ s4 \in Seq(T) /\ Len(s4) = 11
       /\ \A i \in 1..10 : s4[i] = s3[i]
       /\ \A i \in 1..1 : s4[10 + i] = g3[i]
  <2>1. s3 \in Seq(T) /\ g3 \in Seq(T) /\ Len(s3) = 10 /\ Len(g3) = 1
    BY <1>2, <1>9
  <2>2. Seam(T, s3, g3, 10, 1)
    BY <2>1, SeamIs
  <2>3. /\ s4 \in Seq(T) /\ Len(s4) = 10 + 1
        /\ \A i \in 1..10 : s4[i] = s3[i]
        /\ \A i \in 1..1 : s4[10 + i] = g3[i]
    BY <2>2 DEF Seam
  <2> HIDE DEF s4
  <2> QED
    BY <2>3
<1> HIDE DEF s4
<1>11. /\ s5 \in Seq(T) /\ Len(s5) = 20
       /\ \A i \in 1..11 : s5[i] = s4[i]
       /\ \A i \in 1..9 : s5[11 + i] = f3[i]
  <2>1. s4 \in Seq(T) /\ f3 \in Seq(T) /\ Len(s4) = 11 /\ Len(f3) = 9
    BY <1>5, <1>10
  <2>2. Seam(T, s4, f3, 11, 9)
    BY <2>1, SeamIs
  <2>3. /\ s5 \in Seq(T) /\ Len(s5) = 11 + 9
        /\ \A i \in 1..11 : s5[i] = s4[i]
        /\ \A i \in 1..9 : s5[11 + i] = f3[i]
    BY <2>2 DEF Seam
  <2> HIDE DEF s5
  <2> QED
    BY <2>3
<1> HIDE DEF s5
<1>12. /\ all \in Seq(T) /\ Len(all) \in {20, 22} /\ (Len(all) = 22 => Len(end) = 2)
       /\ \A i \in 1..20 : all[i] = s5[i]
       /\ Len(end) = 2 => all[20 + 1] = end[1] /\ all[20 + 2] = end[2]
  <2> DEFINE k == Len(end)
  <2>1. Seam(T, s5, end, 20, k)
    BY <1>6, <1>11, SeamIs
  <2>2. k \in {0, 2}
    BY <1>6
  <2>3. /\ all \in Seq(T) /\ Len(all) = 20 + k
        /\ \A i \in 1..20 : all[i] = s5[i]
        /\ \A i \in 1..k : all[20 + i] = end[i]
    BY <2>1 DEF Seam
  <2> HIDE DEF all
  <2> HIDE DEF k
  <2>4. (k = 0 \/ k = 2) /\ Len(all) = 20 + k
    BY <2>2, <2>3
  <2>5. Len(all) \in {20, 22} /\ (Len(all) = 22 => k = 2)
    BY <2>4
  <2>6. k = 2 => all[20 + 1] = end[1] /\ all[20 + 2] = end[2]
    BY <2>3
  <2> QED
    BY <2>3, <2>5, <2>6 DEF k
<1> HIDE DEF all
<1>13. all[1] = g1[1] /\ \A i \in 1..4 : all[1 + i] = f1[i]
  <2>1. \A i \in 1..5 : i \in 1..6 /\ i \in 1..10 /\ i \in 1..11 /\ i \in 1..20
    OBVIOUS
  <2>2. \A i \in 1..5 : s2[i] = s1[i] /\ s3[i] = s2[i] /\ s4[i] = s3[i]
    BY Zenon, <2>1, <1>8, <1>9, <1>10
  <2>3. \A i \in 1..5 : s5[i] = s4[i] /\ all[i] = s5[i]
    BY Zenon, <2>1, <1>11, <1>12
  <2>4. \A i \in 1..5 : all[i] = s1[i]
    BY <2>2, <2>3
  <2> QED
    BY <1>7, <2>4
<1>14. all[6] = g2[1] /\ \A i \in 1..4 : all[6 + i] = f2[i]
  <2>1. \A i \in 1..10 : i \in 1..11 /\ i \in 1..20
    OBVIOUS
  <2>2. \A i \in 1..10 : all[i] = s3[i]
    BY Zenon, <2>1, <1>10, <1>11, <1>12
  <2>3. s3[6] = s2[5 + 1] /\ s2[5 + 1] = g2[1]
    BY <1>8, <1>9
  <2>4. all[6] = g2[1]
    BY <2>2, <2>3
  <2>5. \A i \in 1..4 : all[6 + i] = f2[i]
    BY <1>9, <2>2
  <2> QED
    BY <2>4, <2>5
<1>15. all[11] = g3[1] /\ \A i \in 1..9 : all[11 + i] = f3[i]
  <2>1. all[11] = s4[10 + 1] /\ s4[10 + 1] = g3[1]
    BY <1>10, <1>11, <1>12
  <2>2. \A i \in 1..9 : all[11 + i] = f3[i]
    BY <1>11, <1>12
  <2> QED
    BY <2>1, <2>2
<1>16. Len(all) = 22 => all[21] = end[1] /\ all[22] = end[2] /\ Len(end) = 2
  BY <1>12
<1>17. \A n \in {1, 6, 11} : all[n].in = 0 /\ all[n].kind = "group"
  BY <1>2, <1>13, <1>14, <1>15
<1>18. \A i \in 1..4 : all[1 + i].in = 1 /\ all[1 + i].kind = "field" /\ all[1 + i].ref = FirstFields[i]
  BY <1>3, <1>13
<1>19. \A i \in 1..4 : all[6 + i].in = 6 /\ all[6 + i].kind = "field" /\ all[6 + i].ref = SecondFields[i]
  BY <1>4, <1>14
<1>20. \A i \in 1..9 : all[11 + i].in = 11 /\ all[11 + i].kind = "field" /\ all[11 + i].ref = ThirdFields[i]
  BY <1>5, <1>15
<1>21. Len(all) = 22 => all[21].in = 0 /\ all[21].kind = "group" /\ all[22].in = 21 /\ all[22].kind = "social"
  BY <1>6, <1>16
<1>22. all \in Seq(NavItem(NavRefs)) /\ Len(all) \in {20, 22}
  BY <1>12 DEF T
<1>23. FooterAt(all, id)
  BY <1>17, <1>18, <1>19, <1>20, <1>21, <1>22 DEF FooterAt
<1> QED
  BY <1>1, <1>23

-----------------------------------------------------------------------------
(* What its fields tell                                                    *)

Shows(r, S) ==
  /\ \A j \in DOMAIN r : r[j] \in S
  /\ \A k \in S : \E j \in DOMAIN r : r[j] = k
  /\ \A i, j \in DOMAIN r : r[i] = r[j] => i = j

KeysOf(field) ==
  CASE field = "PartitaIvaCodiceFiscale" -> {"partitaIva", "codiceFiscale"}
    [] field = "TitolareDelTrattamento" -> {"titolare.nome", "titolare.email"}
    [] field = "ResponsabileProtezioneDati" -> {"dpo.nome", "dpo.email"}
    [] OTHER -> {field}

Same(id) == Has(id, "partitaIva") /\ Has(id, "codiceFiscale") /\ id["partitaIva"] = id["codiceFiscale"]
ToldBy(field, id) ==
  IF field = "PartitaIvaCodiceFiscale" /\ Same(id) THEN {"partitaIva"} ELSE {k \in KeysOf(field) : Has(id, k)}

LEMMA LeafIs ==
  ASSUME NEW id, NEW a
  PROVE  /\ ValueLeaf(id, a) \in Seq({k \in {a} : Has(id, k)})
         /\ Has(id, a) => Len(ValueLeaf(id, a)) = 1 /\ ValueLeaf(id, a)[1] = a
         /\ ~Has(id, a) => Len(ValueLeaf(id, a)) = 0
<1>1. CASE Has(id, a)
  BY <1>1 DEF ValueLeaf
<1>2. CASE ~Has(id, a)
  BY <1>2 DEF ValueLeaf
<1> QED
  BY <1>1, <1>2

LEMMA OneLeafShows == ASSUME NEW id, NEW a PROVE Shows(ValueLeaf(id, a), {k \in {a} : Has(id, k)})
<1>1. CASE Has(id, a)
  <2>1. ValueLeaf(id, a) = <<a>>
    BY <1>1 DEF ValueLeaf
  <2> QED
    BY <1>1, <2>1 DEF Shows
<1>2. CASE ~Has(id, a)
  <2>1. ValueLeaf(id, a) = <<>>
    BY <1>2 DEF ValueLeaf
  <2> QED
    BY <1>2, <2>1 DEF Shows
<1> QED
  BY <1>1, <1>2

LEMMA TwoLeavesShow ==
  ASSUME NEW id, NEW a, NEW b, a # b
  PROVE  Shows(ValueLeaf(id, a) \o ValueLeaf(id, b), {k \in {a, b} : Has(id, k)})
<1> DEFINE S == {k \in {a, b} : Has(id, k)}
           s == ValueLeaf(id, a)
           t == ValueLeaf(id, b)
           r == s \o t
<1>1. s \in Seq(S) /\ t \in Seq(S)
  <2>1. (Has(id, a) => s = <<a>> /\ a \in S) /\ (~Has(id, a) => s = <<>>)
    BY DEF ValueLeaf
  <2>2. (Has(id, b) => t = <<b>> /\ b \in S) /\ (~Has(id, b) => t = <<>>)
    BY DEF ValueLeaf
  <2> HIDE DEF S, s, t
  <2>3. <<>> \in Seq(S) /\ \A x \in S : <<x>> \in Seq(S)
    OBVIOUS
  <2>4. s \in Seq(S)
    BY Zenon, <2>1, <2>3
  <2>5. t \in Seq(S)
    BY Zenon, <2>2, <2>3
  <2> QED
    BY <2>4, <2>5
<1>2. Seam(S, s, t, Len(s), Len(t))
  BY <1>1, SeamIs
<1>3. (Has(id, a) => Len(s) = 1 /\ s[1] = a) /\ (~Has(id, a) => Len(s) = 0)
  BY LeafIs
<1>4. (Has(id, b) => Len(t) = 1 /\ t[1] = b) /\ (~Has(id, b) => Len(t) = 0)
  BY LeafIs
<1> HIDE DEF s, t
<1>5. ASSUME Has(id, a) /\ Has(id, b) PROVE Shows(r, S)
  <2>1. Seam(S, s, t, 1, 1)
    BY <1>2, <1>3, <1>4, <1>5
  <2>2. r \in Seq(S) /\ Len(r) = 2 /\ r[1] = a /\ r[2] = b
    BY <1>3, <1>4, <1>5, <2>1 DEF Seam
  <2> HIDE DEF r
  <2>3. DOMAIN r = {1, 2}
    BY <2>2, LenProperties
  <2> QED
    BY <1>5, <2>2, <2>3 DEF Shows
<1>6. ASSUME Has(id, a) /\ ~Has(id, b) PROVE Shows(r, S)
  <2>1. Seam(S, s, t, 1, 0)
    BY <1>2, <1>3, <1>4, <1>6
  <2>2. r \in Seq(S) /\ Len(r) = 1 /\ r[1] = a
    BY <1>3, <1>6, <2>1 DEF Seam
  <2> HIDE DEF r
  <2>3. DOMAIN r = {1}
    BY <2>2, LenProperties
  <2> QED
    BY <1>6, <2>2, <2>3 DEF Shows
<1>7. ASSUME ~Has(id, a) /\ Has(id, b) PROVE Shows(r, S)
  <2>1. Seam(S, s, t, 0, 1)
    BY <1>2, <1>3, <1>4, <1>7
  <2>2. r \in Seq(S) /\ Len(r) = 1 /\ r[1] = b
    BY <1>4, <1>7, <2>1 DEF Seam
  <2> HIDE DEF r
  <2>3. DOMAIN r = {1}
    BY <2>2, LenProperties
  <2> QED
    BY <1>7, <2>2, <2>3 DEF Shows
<1>8. ASSUME ~Has(id, a) /\ ~Has(id, b) PROVE Shows(r, S)
  <2>1. Seam(S, s, t, 0, 0)
    BY <1>2, <1>3, <1>4, <1>8
  <2>2. r \in Seq(S) /\ Len(r) = 0
    BY <2>1 DEF Seam
  <2> HIDE DEF r
  <2>3. DOMAIN r = {}
    BY <2>2, LenProperties
  <2> QED
    BY <1>8, <2>3 DEF Shows
<1>9. Shows(r, S)
  BY <1>5, <1>6, <1>7, <1>8
<1> QED
  BY <1>9 DEF s, t

LEMMA FieldShows ==
  ASSUME NEW id, NEW field \in FieldNames
  PROVE  Shows(ResolveFooterField(field, id), ToldBy(field, id))
<1>1. CASE field = "PartitaIvaCodiceFiscale"
  <2>1. CASE Same(id)
    <3>1. ResolveFooterField(field, id) = <<"partitaIva">> /\ ToldBy(field, id) = {"partitaIva"}
      BY <1>1, <2>1 DEF ResolveFooterField, ToldBy, Same
    <3> QED
      BY <3>1 DEF Shows
  <2>2. CASE ~Same(id)
    <3>1. ResolveFooterField(field, id) = ValueLeaf(id, "partitaIva") \o ValueLeaf(id, "codiceFiscale")
      BY <1>1, <2>2 DEF ResolveFooterField, Same
    <3>2. ToldBy(field, id) = {k \in {"partitaIva", "codiceFiscale"} : Has(id, k)}
      BY <1>1, <2>2 DEF ToldBy, KeysOf
    <3> QED
      BY <3>1, <3>2, TwoLeavesShow
  <2> QED
    BY <2>1, <2>2
<1>2. CASE field = "TitolareDelTrattamento"
  <2>1. ResolveFooterField(field, id) = ValueLeaf(id, "titolare.nome") \o ValueLeaf(id, "titolare.email")
    BY <1>2 DEF ResolveFooterField, LegalRoles
  <2>2. ToldBy(field, id) = {k \in {"titolare.nome", "titolare.email"} : Has(id, k)}
    BY <1>2 DEF ToldBy, KeysOf
  <2> QED
    BY <2>1, <2>2, TwoLeavesShow
<1>3. CASE field = "ResponsabileProtezioneDati"
  <2>1. ResolveFooterField(field, id) = ValueLeaf(id, "dpo.nome") \o ValueLeaf(id, "dpo.email")
    BY <1>3 DEF ResolveFooterField, LegalRoles
  <2>2. ToldBy(field, id) = {k \in {"dpo.nome", "dpo.email"} : Has(id, k)}
    BY <1>3 DEF ToldBy, KeysOf
  <2> QED
    BY <2>1, <2>2, TwoLeavesShow
<1>4. CASE field \notin {"PartitaIvaCodiceFiscale", "TitolareDelTrattamento", "ResponsabileProtezioneDati"}
  <2>1. ResolveFooterField(field, id) = ValueLeaf(id, field)
    BY <1>4 DEF ResolveFooterField, LegalRoles
  <2>2. ToldBy(field, id) = {k \in {field} : Has(id, k)}
    BY <1>4 DEF ToldBy, KeysOf
  <2> QED
    BY <2>1, <2>2, OneLeafShows
<1> QED
  BY <1>1, <1>2, <1>3, <1>4

\* A key is of one field.
LEMMA KeysAreOfOneField ==
  /\ \A field, other \in FieldNames : \A k \in KeysOf(field) : k \in KeysOf(other) => other = field
  /\ \A key \in FooterKeys : \E field \in FieldNames : key \in KeysOf(field)
<1> DEFINE Roles == {"PartitaIvaCodiceFiscale", "TitolareDelTrattamento", "ResponsabileProtezioneDati"}
           Parts == {"partitaIva", "codiceFiscale", "titolare.nome", "titolare.email", "dpo.nome", "dpo.email"}
<1>1. \A field \in FieldNames : field \notin Roles => KeysOf(field) = {field} /\ field \notin Parts
  BY DEF FieldNames, KeysOf
<1>2. /\ KeysOf("PartitaIvaCodiceFiscale") = {"partitaIva", "codiceFiscale"}
      /\ KeysOf("TitolareDelTrattamento") = {"titolare.nome", "titolare.email"}
      /\ KeysOf("ResponsabileProtezioneDati") = {"dpo.nome", "dpo.email"}
  BY DEF KeysOf
<1>3. \A field, other \in FieldNames : \A k \in KeysOf(field) : k \in KeysOf(other) => other = field
  BY <1>1, <1>2
<1>4. Roles \subseteq FieldNames /\ \A key \in FooterKeys : key \in Parts \/ (key \in FieldNames /\ key \notin Roles)
  BY DEF FieldNames, FooterKeys
<1>5. \A key \in FooterKeys : \E field \in FieldNames : key \in KeysOf(field)
  BY <1>1, <1>2, <1>4
<1> QED
  BY <1>3, <1>5

TellsOf(id, k, key) == k = key \/ ({k, key} = {"partitaIva", "codiceFiscale"} /\ id[k] = id[key])

\* A field tells each of its keys the identity has, by one of its leaves.
LEMMA FieldTells ==
  ASSUME NEW id, NEW field \in FieldNames, NEW key \in KeysOf(field), Has(id, key),
         NEW r, Shows(r, ToldBy(field, id))
  PROVE  \E j \in DOMAIN r : \A i \in DOMAIN r : TellsOf(id, r[i], key) <=> i = j
<1> DEFINE T == ToldBy(field, id)
<1>1. PICK k \in T : \A l \in T : TellsOf(id, l, key) <=> l = k
  <2>1. CASE field = "PartitaIvaCodiceFiscale" /\ Same(id)
    <3>1. T = {"partitaIva"} /\ key \in {"partitaIva", "codiceFiscale"} /\ id["partitaIva"] = id["codiceFiscale"]
      BY <2>1 DEF ToldBy, KeysOf, Same
    <3> QED
      BY <3>1 DEF TellsOf
  <2>2. CASE field = "PartitaIvaCodiceFiscale" /\ ~Same(id)
    <3>1. T = {k \in {"partitaIva", "codiceFiscale"} : Has(id, k)} /\ key \in T
      BY <2>2 DEF ToldBy, KeysOf
    <3>2. \A l \in T : TellsOf(id, l, key) => l = key
      BY <2>2, <3>1 DEF TellsOf, Same
    <3>3. TellsOf(id, key, key)
      BY DEF TellsOf
    <3> QED
      BY <3>1, <3>2, <3>3
  <2>3. CASE field # "PartitaIvaCodiceFiscale"
    <3>1. T = {k \in KeysOf(field) : Has(id, k)} /\ key \in T
      BY <2>3 DEF ToldBy
    <3>2. "partitaIva" \notin KeysOf(field) /\ "codiceFiscale" \notin KeysOf(field)
      BY <2>3 DEF KeysOf, FieldNames
    <3>3. \A l \in T : TellsOf(id, l, key) => l = key
      BY <3>1, <3>2 DEF TellsOf
    <3>4. TellsOf(id, key, key)
      BY DEF TellsOf
    <3> QED
      BY <3>1, <3>3, <3>4
  <2> QED
    BY <2>1, <2>2, <2>3
<1> HIDE DEF T
<1>2. PICK j \in DOMAIN r : r[j] = k
  BY <1>1 DEF Shows, T
<1>3. \A i \in DOMAIN r : r[i] \in T /\ (r[i] = k => i = j)
  BY <1>2 DEF Shows, T
<1>4. \A i \in DOMAIN r : TellsOf(id, r[i], key) <=> i = j
  BY <1>1, <1>2, <1>3
<1> QED
  BY <1>4

\* Nothing a field shows tells a key of another one.
LEMMA OthersDoNotTell ==
  ASSUME NEW id, NEW field \in FieldNames, NEW k \in ToldBy(field, id), NEW key, TellsOf(id, k, key)
  PROVE  key \in KeysOf(field) /\ Has(id, k)
<1>1. k \in KeysOf(field) /\ Has(id, k)
  BY DEF ToldBy, KeysOf, Same
<1>2. CASE k = key
  BY <1>1, <1>2
<1>3. CASE {k, key} = {"partitaIva", "codiceFiscale"}
  <2>1. field = "PartitaIvaCodiceFiscale"
    BY <1>1, <1>3 DEF KeysOf, FieldNames
  <2> QED
    BY <1>1, <1>3, <2>1 DEF KeysOf
<1> QED
  BY <1>1, <1>2, <1>3 DEF TellsOf

-----------------------------------------------------------------------------
(* Each key has its row                                                    *)

\* Where the field of a name is in the footer.
PlaceOf(tag) ==
  CASE tag = "PartitaIvaCodiceFiscale" -> 2 [] tag = "registroImprese" -> 3 [] tag = "numeroRea" -> 4
    [] tag = "codiceSdi" -> 5 [] tag = "capitaleSociale" -> 7 [] tag = "capitaleVersato" -> 8
    [] tag = "socioUnico" -> 9 [] tag = "inLiquidazione" -> 10 [] tag = "ragioneSociale" -> 12
    [] tag = "sedeLegale" -> 13 [] tag = "rappresentanteLegale" -> 14 [] tag = "TitolareDelTrattamento" -> 15
    [] tag = "ResponsabileProtezioneDati" -> 16 [] tag = "telefono" -> 17 [] tag = "email" -> 18
    [] tag = "pec" -> 19 [] tag = "openingHours" -> 20

FieldPlaces == {2, 3, 4, 5, 7, 8, 9, 10, 12, 13, 14, 15, 16, 17, 18, 19, 20}

LEMMA PlacesAre ==
  ASSUME NEW id, NEW f, FooterAt(f, id)
  PROVE  /\ {k \in DOMAIN f : f[k].kind = "field"} = FieldPlaces
         /\ \A n \in FieldPlaces : f[n].ref \in FieldNames /\ PlaceOf(f[n].ref) = n
         /\ \A tag \in FieldNames : PlaceOf(tag) \in FieldPlaces /\ f[PlaceOf(tag)].ref = tag
<1>1. f[2].ref = "PartitaIvaCodiceFiscale" /\ f[3].ref = "registroImprese" /\ f[4].ref = "numeroRea" /\ f[5].ref = "codiceSdi"
  <2>1. \A i \in 1..4 : f[1 + i].ref = FirstFields[i]
    BY DEF FooterAt
  <2> QED
    BY <2>1 DEF FirstFields
<1>2. /\ f[7].ref = "capitaleSociale" /\ f[8].ref = "capitaleVersato" /\ f[9].ref = "socioUnico"
      /\ f[10].ref = "inLiquidazione"
  <2>1. \A i \in 1..4 : f[6 + i].ref = SecondFields[i]
    BY DEF FooterAt
  <2> QED
    BY <2>1 DEF SecondFields
<1>3. /\ f[12].ref = "ragioneSociale" /\ f[13].ref = "sedeLegale" /\ f[14].ref = "rappresentanteLegale"
      /\ f[15].ref = "TitolareDelTrattamento" /\ f[16].ref = "ResponsabileProtezioneDati" /\ f[17].ref = "telefono"
      /\ f[18].ref = "email" /\ f[19].ref = "pec" /\ f[20].ref = "openingHours"
  <2>1. \A i \in 1..9 : f[11 + i].ref = ThirdFields[i]
    BY DEF FooterAt
  <2> QED
    BY <2>1 DEF ThirdFields
<1>4. \A n \in FieldPlaces : f[n].ref \in FieldNames /\ PlaceOf(f[n].ref) = n
  BY <1>1, <1>2, <1>3 DEF FieldPlaces, FieldNames, PlaceOf
<1>5. \A tag \in FieldNames : PlaceOf(tag) \in FieldPlaces /\ f[PlaceOf(tag)].ref = tag
  BY <1>1, <1>2, <1>3 DEF FieldPlaces, FieldNames, PlaceOf
<1>6. \A n \in FieldPlaces : f[n].kind = "field"
  <2>1. \A n \in FieldPlaces : n - 1 \in 1..4 \/ n - 6 \in 1..4 \/ n - 11 \in 1..9
    BY DEF FieldPlaces
  <2>2. \A n \in FieldPlaces : 1 + (n - 1) = n /\ 6 + (n - 6) = n /\ 11 + (n - 11) = n
    BY DEF FieldPlaces
  <2>3. /\ \A i \in 1..4 : f[1 + i].kind = "field" /\ f[6 + i].kind = "field"
        /\ \A i \in 1..9 : f[11 + i].kind = "field"
    BY DEF FooterAt
  <2> QED
    BY <2>1, <2>2, <2>3
<1>7. f[1].kind = "group" /\ f[6].kind = "group" /\ f[11].kind = "group"
  BY DEF FooterAt
<1>8. Len(f) = 22 => f[21].kind = "group" /\ f[22].kind = "social"
  BY DEF FooterAt
<1>9. DOMAIN f = 1..Len(f) /\ Len(f) \in {20, 22}
  BY LenProperties DEF FooterAt
<1>10. \A n \in DOMAIN f : n \in FieldPlaces \/ n \in {1, 6, 11} \/ (Len(f) = 22 /\ n \in {21, 22})
  BY <1>9 DEF FieldPlaces
<1>11. FieldPlaces \subseteq DOMAIN f
  BY <1>9 DEF FieldPlaces
<1> QED
  BY <1>4, <1>5, <1>6, <1>7, <1>8, <1>10, <1>11

LEMMA DefaultTells == ASSUME owner \in Identities PROVE DefaultFooterTells
<1> SUFFICES ASSUME section = "footer", raw = DefaultFooter(owner)
             PROVE  /\ \A row \in Rows : Has(owner, KeyOf(row))
                    /\ \A key \in DOMAIN owner \ {"social"} :
                         Has(owner, key) => \E row \in Rows : \A other \in Rows : Tells(other, key) <=> other = row
  BY DEF DefaultFooterTells
<1> DEFINE F(n) == raw[n].ref
           r(n) == ResolveFooterField(raw[n].ref, owner)
<1>1. FooterAt(raw, owner)
  BY DefaultFooterIs
<1>2. /\ {k \in DOMAIN raw : raw[k].kind = "field"} = FieldPlaces
      /\ \A n \in FieldPlaces : F(n) \in FieldNames /\ PlaceOf(F(n)) = n
      /\ \A tag \in FieldNames : PlaceOf(tag) \in FieldPlaces /\ F(PlaceOf(tag)) = tag
  BY <1>1, PlacesAre
<1>3. Rows = UNION {{n} \X DOMAIN r(n) : n \in FieldPlaces}
  BY <1>2 DEF Rows
<1>4. \A n \in FieldPlaces : Shows(r(n), ToldBy(F(n), owner))
  BY <1>2, FieldShows
<1>5. \A row : KeyOf(row) = r(row[1])[row[2]] /\ \A key : Tells(row, key) <=> TellsOf(owner, KeyOf(row), key)
  BY DEF KeyOf, Tells, TellsOf
<1> HIDE DEF F, r
<1>6. \A row \in Rows : row[1] \in FieldPlaces /\ row[2] \in DOMAIN r(row[1]) /\ row = <<row[1], row[2]>>
  BY <1>3
<1>7. \A n \in FieldPlaces : \A j \in DOMAIN r(n) : <<n, j>> \in Rows
  BY <1>3
<1>8. \A row \in Rows : KeyOf(row) \in ToldBy(F(row[1]), owner)
  BY <1>4, <1>5, <1>6 DEF Shows
<1>9. ASSUME NEW row \in Rows PROVE Has(owner, KeyOf(row))
  BY <1>8 DEF ToldBy, Same
<1>10. ASSUME NEW key \in DOMAIN owner \ {"social"}, Has(owner, key)
       PROVE  \E row \in Rows : \A other \in Rows : Tells(other, key) <=> other = row
  <2>1. key \in FooterKeys
    BY IdentitiesAreKnown
  <2>2. PICK field \in FieldNames : key \in KeysOf(field)
    BY <2>1, KeysAreOfOneField
  <2> DEFINE n == PlaceOf(field)
  <2>3. n \in FieldPlaces /\ F(n) = field
    BY <1>2
  <2> HIDE DEF n
  <2>4. Shows(r(n), ToldBy(field, owner))
    BY <1>4, <2>3
  <2>5. PICK j \in DOMAIN r(n) : \A i \in DOMAIN r(n) : TellsOf(owner, r(n)[i], key) <=> i = j
    BY <1>10, <2>2, <2>4, FieldTells
  <2>6. <<n, j>> \in Rows
    BY <1>7, <2>3
  <2>7. ASSUME NEW other \in Rows, Tells(other, key) PROVE other = <<n, j>>
    <3>1. TellsOf(owner, KeyOf(other), key) /\ other[1] \in FieldPlaces /\ F(other[1]) \in FieldNames
      BY <1>2, <1>5, <1>6, <2>7
    <3>2. key \in KeysOf(F(other[1]))
      BY <1>8, <3>1, OthersDoNotTell
    <3>3. F(other[1]) = field
      BY <2>2, <3>1, <3>2, KeysAreOfOneField
    <3>4. other[1] = n
      BY <1>2, <3>1, <3>3 DEF n
    <3>5. other[2] \in DOMAIN r(n) /\ TellsOf(owner, r(n)[other[2]], key)
      BY <1>5, <1>6, <3>1, <3>4
    <3>6. other[2] = j
      BY <2>5, <3>5
    <3> QED
      BY <1>6, <3>4, <3>6
  <2>8. Tells(<<n, j>>, key)
    <3>1. KeyOf(<<n, j>>) = r(n)[j]
      BY <1>5
    <3> QED
      BY <1>5, <2>5, <3>1
  <2>9. \A other \in Rows : Tells(other, key) <=> other = <<n, j>>
    BY <2>7, <2>8
  <2> QED
    BY <2>6, <2>9
<1> QED
  BY <1>9, <1>10

-----------------------------------------------------------------------------
(* The section as it is built                                              *)

NavIInv ==
  /\ section \in {"header", "footer"} /\ owner \in Identities
  /\ raw \in Seq(NavItem(NavRefs))
  /\ SectionShape

LEMMA NavStarts == NavInit => NavIInv
<1> SUFFICES ASSUME NavInit PROVE NavIInv
  OBVIOUS
<1>1. section \in {"header", "footer"} /\ owner \in Identities /\ (raw = <<>> \/ raw = DefaultFooter(owner))
  BY DEF NavInit
<1>2. CASE raw = <<>>
  <2>1. raw \in Seq(NavItem(NavRefs)) /\ Len(raw) = 0 /\ DOMAIN raw = 1..0
    BY <1>2
  <2>2. SectionShape
    BY <2>1 DEF SectionShape
  <2> QED
    BY <1>1, <2>1, <2>2 DEF NavIInv
<1>3. CASE raw = DefaultFooter(owner)
  <2>1. FooterAt(raw, owner)
    BY <1>1, <1>3, DefaultFooterIs
  <2>2. raw \in Seq(NavItem(NavRefs)) /\ DOMAIN raw = 1..Len(raw) /\ Len(raw) \in {20, 22}
    BY <2>1, LenProperties DEF FooterAt
  <2>3. raw[1].in = 0 /\ raw[6].in = 0 /\ raw[11].in = 0 /\ raw[1].kind = "group" /\ raw[6].kind = "group" /\ raw[11].kind = "group"
    BY <2>1 DEF FooterAt
  <2>4. \A n \in FieldPlaces : raw[n].in \in {1, 6, 11} /\ raw[n].in < n
    <3>1. \A n \in FieldPlaces : n - 1 \in 1..4 \/ n - 6 \in 1..4 \/ n - 11 \in 1..9
      BY DEF FieldPlaces
    <3>2. \A n \in FieldPlaces : 1 + (n - 1) = n /\ 6 + (n - 6) = n /\ 11 + (n - 11) = n
      BY DEF FieldPlaces
    <3>3. (\A i \in 1..4 : raw[1 + i].in = 1 /\ raw[6 + i].in = 6) /\ \A i \in 1..9 : raw[11 + i].in = 11
      BY <2>1 DEF FooterAt
    <3> QED
      BY <3>1, <3>2, <3>3
  <2>5. Len(raw) = 22 => raw[21].in = 0 /\ raw[21].kind = "group" /\ raw[22].in = 21
    BY <2>1 DEF FooterAt
  <2>6. \A n \in 1..Len(raw) : n \in FieldPlaces \/ n \in {1, 6, 11} \/ (Len(raw) = 22 /\ n \in {21, 22})
    BY <2>2 DEF FieldPlaces
  <2>7. ASSUME NEW n \in 1..Len(raw) PROVE raw[n].in \in 0..(n - 1)
    <3>1. CASE n \in FieldPlaces
      <4>1. n \in Nat
        BY <3>1 DEF FieldPlaces
      <4> QED
        BY <2>4, <3>1, <4>1
    <3>2. CASE n \in {1, 6, 11}
      BY <2>3, <3>2
    <3>3. CASE Len(raw) = 22 /\ n \in {21, 22}
      BY <2>5, <3>3
    <3> QED
      BY <2>6, <3>1, <3>2, <3>3
  <2>8. \A n \in 1..Len(raw) : raw[n].in # 0 => raw[raw[n].in].kind = "group"
    BY <2>3, <2>4, <2>5, <2>6
  <2>9. SectionShape
    BY <2>2, <2>7, <2>8 DEF SectionShape
  <2> QED
    BY <1>1, <2>2, <2>9 DEF NavIInv
<1> QED
  BY <1>1, <1>2, <1>3

LEMMA AddItemKeeps ==
  ASSUME NavIInv, NEW item \in NavItems, NEW group \in OpenGroups, AddItem(item, group)
  PROVE  NavIInv'
<1> DEFINE new == [item EXCEPT !.in = group]
           N == Len(raw)
<1>1. raw \in Seq(NavItem(NavRefs)) /\ N \in Nat /\ DOMAIN raw = 1..N /\ raw' = Append(raw, new)
  BY LenProperties DEF NavIInv, AddItem
<1>2. group \in 0..N /\ (group # 0 => raw[group].kind = "group")
  <2>1. CASE raw = <<>>
    <3>1. group = 0
      BY <2>1 DEF OpenGroups
    <3> QED
      BY <1>1, <3>1
  <2>2. CASE raw # <<>>
    <3>1. N \in 0..N /\ PathOf(N)
      BY <1>1, Paths DEF NavIInv
    <3>2. group = 0 \/ (group \in Within(N) /\ raw[group].kind = "group")
      BY <2>2 DEF OpenGroups
    <3> HIDE DEF N
    <3> QED
      BY <1>1, <3>1, <3>2 DEF PathOf
  <2> QED
    BY <2>1, <2>2
<1>3. new \in NavItem(NavRefs) /\ new.in = group
  <2>1. item \in NavItem({item.ref}) /\ item.ref \in NavRefs
    BY NavItemsAreTyped DEF NavRefs
  <2>2. group \in Nat
    BY <1>1, <1>2
  <2> QED
    BY <2>1, <2>2 DEF NavItem
<1> HIDE DEF new
<1>4. /\ raw' \in Seq(NavItem(NavRefs)) /\ Len(raw') = N + 1
      /\ raw'[N + 1] = new /\ \A i \in 1..N : raw'[i] = raw[i]
  BY <1>1, <1>3, Appended
<1>5. DOMAIN raw' = 1..Len(raw')
  BY <1>4, LenProperties
<1>6. (\A n \in 1..N : raw[n].in \in 0..(n - 1)) /\ \A n \in 1..N : raw[n].in # 0 => raw[raw[n].in].kind = "group"
  BY DEF NavIInv, SectionShape
<1> HIDE DEF N
<1>7. \A n \in 1..(N + 1) : n \in 1..N \/ n = N + 1
  BY <1>1
<1>8. \A n \in 1..(N + 1) : raw'[n].in \in 0..(n - 1)
  BY <1>1, <1>2, <1>3, <1>4, <1>6, <1>7
<1>9. \A n \in 1..(N + 1) : raw'[n].in # 0 => raw'[raw'[n].in].kind = "group"
  <2>1. ASSUME NEW n \in 1..N, raw'[n].in # 0 PROVE raw'[raw'[n].in].kind = "group"
    <3>1. raw'[n] = raw[n] /\ raw[n].in \in 1..N
      BY <1>1, <1>4, <1>6, <2>1
    <3> QED
      BY <1>4, <1>6, <2>1, <3>1
  <2>2. ASSUME group # 0 PROVE raw'[group].kind = "group"
    BY <1>1, <1>2, <1>4, <2>2
  <2> QED
    BY <1>3, <1>4, <1>7, <2>1, <2>2
<1>10. SectionShape'
  BY <1>1, <1>4, <1>5, <1>8, <1>9 DEF SectionShape
<1> QED
  BY <1>4, <1>10 DEF NavIInv, AddItem

\* What a project puts in the header or in the footer, in the groups it leaves open and in
\* any order, resolves and filters to what is for the visitor: every item that stands for
\* something and that no group around it keeps from him, the groups around those items and
\* nothing else, within the depth the validation refuses to pass; and the footer of a
\* project that wrote none tells each thing of the identity once.
THEOREM SectionsShowWhatIsMeant == NavSpec => []NavSafe
<1>1. NavInit => NavIInv
  BY NavStarts
<1>2. NavIInv /\ [NavNext]_navVars => NavIInv'
  <2> SUFFICES ASSUME NavIInv, [NavNext]_navVars PROVE NavIInv'
    OBVIOUS
  <2>1. ASSUME NEW item \in NavItems, NEW group \in OpenGroups, AddItem(item, group) PROVE NavIInv'
    BY <2>1, AddItemKeeps
  <2>2. CASE HideLegalStrip
    BY <2>2 DEF HideLegalStrip, NavIInv, SectionShape
  <2>3. CASE UNCHANGED navVars
    BY <2>3 DEF navVars, NavIInv, SectionShape
  <2> QED
    BY <2>1, <2>2, <2>3 DEF NavNext
<1>3. NavIInv => NavSafe
  BY TheirsAreSeen, LimitIsOfWhatIsSeen, DefaultTells DEF NavIInv, NavSafe
<1> QED
  BY <1>1, <1>2, <1>3, PTL DEF NavSpec

-----------------------------------------------------------------------------
(* Palette.  Luminance and contrast: the arithmetic under every colour.    *)

LEMMA Times ==
  ASSUME NEW a \in Nat, NEW b \in Nat, NEW c \in Nat, a <= b
  PROVE  a * c \in Nat /\ b * c \in Nat /\ a * c <= b * c
BY SMT

LEMMA Luminances ==
  /\ Luminance[Black] = 0 /\ Luminance[White] = 40000
  /\ \A l \in Grey : Luminance[l] \in Nat /\ Luminance[l] <= 40000
<1>1. \A l \in Grey : l * l * l \in Nat /\ l * l * l <= 1000000000
  <2> SUFFICES ASSUME NEW l \in Grey PROVE l * l * l \in Nat /\ l * l * l <= 1000000000
    BY SMT
  <2>1. l \in Nat /\ l <= 1000
    BY SMT DEF Grey, Black, White
  <2>2. l * l \in Nat /\ l * l <= 1000 * l
    BY SMT, <2>1, Times
  <2> DEFINE q == l * l
  <2>3. q \in Nat /\ q <= 1000000
    BY SMT, <2>1, <2>2
  <2> HIDE DEF q
  <2>4. q * l <= 1000000 * l /\ q * l \in Nat
    BY SMT, <2>1, <2>3, Times
  <2>5. q * l <= 1000000000
    BY SMT, <2>1, <2>4
  <2> QED
    BY SMT, <2>4, <2>5 DEF q
<1>2. \A n \in Nat : n <= 1000000000 => n \div 25000 \in Nat /\ n \div 25000 <= 40000
  BY SMT
<1>3. \A l \in Grey : Luminance[l] = (l * l * l) \div 25000
  BY SMT DEF Luminance
<1>4. \A l \in Grey : Luminance[l] \in Nat /\ Luminance[l] <= 40000
  BY SMT, <1>1, <1>2, <1>3
<1>5. Luminance[Black] = 0 /\ Luminance[White] = 40000
  BY SMT, <1>3 DEF Grey, Black, White
<1> QED
  BY SMT, <1>4, <1>5

\* The lighter and the darker of two luminances
LEMMA Extremes ==
  ASSUME NEW a \in Nat, NEW b \in Nat
  PROVE  /\ Max({a, b}) = IF a <= b THEN b ELSE a
         /\ Min({a, b}) = IF a <= b THEN a ELSE b
BY SMT DEF Max, Min

LEMMA ContrastIs ==
  ASSUME NEW a \in Grey, NEW b \in Grey, NEW ratio
  PROVE  Contrasts(a, b, ratio) <=>
           IF Luminance[a] <= Luminance[b] THEN 100 * (Luminance[b] + Flare) >= ratio * (Luminance[a] + Flare)
           ELSE 100 * (Luminance[a] + Flare) >= ratio * (Luminance[b] + Flare)
<1>1. Luminance[a] \in Nat /\ Luminance[b] \in Nat
  BY Luminances
<1>2. /\ Max({Luminance[a], Luminance[b]}) = IF Luminance[a] <= Luminance[b] THEN Luminance[b] ELSE Luminance[a]
      /\ Min({Luminance[a], Luminance[b]}) = IF Luminance[a] <= Luminance[b] THEN Luminance[a] ELSE Luminance[b]
  BY <1>1, Extremes
<1> QED
  BY SMT, <1>1, <1>2 DEF Contrasts

LEMMA AtBorders ==
  ASSUME NEW s \in Grey, NEW ratio
  PROVE  /\ Contrasts(Black, s, ratio) <=> 100 * (Luminance[s] + Flare) >= ratio * Flare
         /\ Contrasts(White, s, ratio) <=> 100 * (40000 + Flare) >= ratio * (Luminance[s] + Flare)
<1>1. Black \in Grey /\ White \in Grey
  BY SMT DEF Grey, Black, White
<1>2. Luminance[s] \in Nat /\ Luminance[s] <= 40000 /\ Luminance[Black] = 0 /\ Luminance[White] = 40000
  BY SMT, Luminances
<1>3. Contrasts(Black, s, ratio) <=>
        IF 0 <= Luminance[s] THEN 100 * (Luminance[s] + Flare) >= ratio * (0 + Flare)
        ELSE 100 * (0 + Flare) >= ratio * (Luminance[s] + Flare)
  BY SMT, <1>1, <1>2, ContrastIs
<1>4. Contrasts(White, s, ratio) <=>
        IF 40000 <= Luminance[s] THEN 100 * (Luminance[s] + Flare) >= ratio * (40000 + Flare)
        ELSE 100 * (40000 + Flare) >= ratio * (Luminance[s] + Flare)
  BY SMT, <1>1, <1>2, ContrastIs
<1>5. 0 + Flare = Flare
  BY SMT DEF Flare
<1>6. 40000 <= Luminance[s] => Luminance[s] = 40000
  BY SMT, <1>2
<1> QED
  BY SMT, <1>2, <1>3, <1>4, <1>5, <1>6

LEMMA SmallestAndLargest ==
  ASSUME NEW X \in SUBSET Nat, X # {}, NEW bound \in Nat, \A x \in X : x <= bound
  PROVE  /\ Min(X) \in X /\ \A x \in X : Min(X) <= x
         /\ Max(X) \in X /\ \A x \in X : x <= Max(X)
<1>1. \E x \in X : \A y \in X : x <= y
  BY Least
<1>2. \E x \in X : \A y \in X : x >= y
  <2> DEFINE F == {bound - x : x \in X}
  <2>1. \A x \in X : bound - x \in Nat
    BY SMT
  <2>11. F \in SUBSET Nat /\ F # {}
    BY <2>1
  <2> HIDE DEF F
  <2>2. PICK f \in F : \A y \in F : f <= y
    BY <2>11, Least
  <2>3. PICK x \in X : f = bound - x
    BY <2>2 DEF F
  <2>4. \A y \in X : bound - y \in F
    BY DEF F
  <2>5. \A y \in X : bound - x <= bound - y
    BY <2>2, <2>3, <2>4
  <2>6. \A y \in X : x >= y
    <3> SUFFICES ASSUME NEW y \in X PROVE x >= y
      OBVIOUS
    <3>1. x \in Nat /\ y \in Nat /\ bound - x <= bound - y
      BY <2>5
    <3> QED
      BY SMT, <3>1
  <2> QED
    BY <2>6
<1>3. Min(X) \in X /\ \A x \in X : Min(X) <= x
  BY <1>1 DEF Min
<1>4. Max(X) \in X /\ \A x \in X : Max(X) >= x
  BY <1>2 DEF Max
<1> QED
  BY SMT, <1>3, <1>4

\* The darkest and the lightest of some surfaces, and what reads best on them
BestBetween(S, low, high) ==
  /\ low \in Nat /\ high \in Nat /\ low <= 40000 /\ high <= 40000
  /\ \E s \in S : Luminance[s] = low
  /\ \E s \in S : Luminance[s] = high
  /\ \A s \in S : low <= Luminance[s] /\ Luminance[s] <= high
  /\ BestOn(S) = IF (low + Flare) * (high + Flare) >= Flare * (40000 + Flare) THEN Black ELSE White

LEMMA BestIs ==
  ASSUME NEW S \in SUBSET Grey, S # {}
  PROVE  \E low, high \in Nat : BestBetween(S, low, high)
<1> DEFINE X == {Luminance[s] : s \in S}
<1>1. \A s \in S : Luminance[s] \in Nat /\ Luminance[s] <= 40000
  BY Luminances
<1>2. X \in SUBSET Nat /\ X # {} /\ \A x \in X : x <= 40000
  BY <1>1
<1>3. \A s \in S : Luminance[s] \in X
  OBVIOUS
<1>4. \A x \in X : \E s \in S : Luminance[s] = x
  OBVIOUS
<1>5. BestOn(S) = IF (Min(X) + Flare) * (Max(X) + Flare) >= Flare * (Luminance[White] + Flare) THEN Black ELSE White
  BY DEF BestOn
<1> HIDE DEF X
<1>6. /\ Min(X) \in X /\ \A x \in X : Min(X) <= x
      /\ Max(X) \in X /\ \A x \in X : x <= Max(X)
  <2>1. PICK bound \in Nat : bound = 40000
    BY SMT
  <2>2. \A x \in X : x <= bound
    BY SMT, <1>2, <2>1
  <2>3. X \in SUBSET Nat /\ X # {}
    BY <1>1 DEF X
  <2> QED
    BY Zenon, <2>2, <2>3, SmallestAndLargest
<1> DEFINE low == Min(X)
           high == Max(X)
<1>7. low \in X /\ high \in X /\ low \in Nat /\ high \in Nat /\ low <= 40000 /\ high <= 40000
  <2>1. low \in X /\ high \in X
    BY <1>6
  <2> HIDE DEF low, high
  <2> QED
    BY SMT, <1>2, <2>1
<1>8. BestOn(S) = IF (low + Flare) * (high + Flare) >= Flare * (40000 + Flare) THEN Black ELSE White
  <2>1. Luminance[White] = 40000
    BY SMT, Luminances
  <2> QED
    BY SMT, <1>5, <2>1
<1>9. \A s \in S : low <= Luminance[s] /\ Luminance[s] <= high
  BY SMT, <1>3, <1>6
<1> HIDE DEF low, high
<1>10. BestBetween(S, low, high)
  BY SMT, <1>4, <1>7, <1>8, <1>9 DEF BestBetween
<1> QED
  BY SMT, <1>7, <1>10

\* Black reads where it reads on the darkest, white where it reads on the lightest.
LEMMA ReadsBetween ==
  ASSUME NEW S \in SUBSET Grey, NEW low, NEW high, BestBetween(S, low, high),
         NEW ratio \in Nat
  PROVE  /\ ReadsOn(Black, S, ratio) <=> 100 * (low + Flare) >= ratio * Flare
         /\ ReadsOn(White, S, ratio) <=> 100 * (40000 + Flare) >= ratio * (high + Flare)
<1>1. low \in Nat /\ high \in Nat /\ \A s \in S : low <= Luminance[s] /\ Luminance[s] <= high /\ Luminance[s] \in Nat
  BY SMT, Luminances DEF BestBetween
<1>2. PICK s \in S : Luminance[s] = low
  BY DEF BestBetween
<1>3. PICK t \in S : Luminance[t] = high
  BY DEF BestBetween
<1>4. \A x \in S : /\ Contrasts(Black, x, ratio) <=> 100 * (Luminance[x] + Flare) >= ratio * Flare
                   /\ Contrasts(White, x, ratio) <=> 100 * (40000 + Flare) >= ratio * (Luminance[x] + Flare)
  BY AtBorders
<1>5. \A x \in S : ratio * (Luminance[x] + Flare) <= ratio * (high + Flare)
  <2> SUFFICES ASSUME NEW x \in S PROVE ratio * (Luminance[x] + Flare) <= ratio * (high + Flare)
    OBVIOUS
  <2> DEFINE a == Luminance[x] + Flare
             b == high + Flare
  <2>1. a \in Nat /\ b \in Nat /\ a <= b
    BY SMT, <1>1 DEF Flare
  <2> HIDE DEF a, b
  <2>2. a * ratio <= b * ratio /\ a * ratio = ratio * a /\ b * ratio = ratio * b
    BY SMT, <2>1, Times
  <2> QED
    BY SMT, <2>2 DEF a, b
<1>6. \A x \in S : ratio * (Luminance[x] + Flare) \in Nat /\ ratio * (high + Flare) \in Nat
  BY SMT, <1>1 DEF Flare
<1>7. ReadsOn(Black, S, ratio) <=> 100 * (low + Flare) >= ratio * Flare
  <2>1. ASSUME ReadsOn(Black, S, ratio) PROVE 100 * (low + Flare) >= ratio * Flare
    BY SMT, <2>1, <1>2, <1>4 DEF ReadsOn
  <2>2. ASSUME 100 * (low + Flare) >= ratio * Flare, NEW x \in S PROVE Contrasts(Black, x, ratio)
    <3>1. low \in Nat /\ Luminance[x] \in Nat /\ low <= Luminance[x] /\ ratio * Flare \in Nat
      BY SMT, <1>1 DEF Flare
    <3>2. 100 * (Luminance[x] + Flare) >= ratio * Flare
      BY SMT, <3>1, <2>2 DEF Flare
    <3> QED
      BY <3>2, <1>4
  <2> QED
    BY <2>1, <2>2 DEF ReadsOn
<1>8. ReadsOn(White, S, ratio) <=> 100 * (40000 + Flare) >= ratio * (high + Flare)
  <2>1. ASSUME ReadsOn(White, S, ratio) PROVE 100 * (40000 + Flare) >= ratio * (high + Flare)
    BY SMT, <2>1, <1>3, <1>4 DEF ReadsOn
  <2>2. ASSUME 100 * (40000 + Flare) >= ratio * (high + Flare), NEW x \in S PROVE Contrasts(White, x, ratio)
    <3>1. ratio * (Luminance[x] + Flare) <= ratio * (high + Flare)
      BY <1>5
    <3>2. 100 * (40000 + Flare) >= ratio * (Luminance[x] + Flare)
      BY SMT, <3>1, <2>2, <1>6 DEF Flare
    <3> QED
      BY <3>2, <1>4
  <2> QED
    BY <2>1, <2>2 DEF ReadsOn
<1> QED
  BY <1>7, <1>8

\* Where black or white stands out by 3:1, the one that is taken does.
LEMMA BestStandsOut ==
  ASSUME NEW S \in SUBSET Grey, S # {}, ReadsOn(Black, S, MinUi) \/ ReadsOn(White, S, MinUi)
  PROVE  ReadsOn(BestOn(S), S, MinUi)
<1>1. PICK low \in Nat, high \in Nat : BestBetween(S, low, high)
  BY BestIs
<1>2. /\ ReadsOn(Black, S, MinUi) <=> 100 * (low + Flare) >= 300 * Flare
      /\ ReadsOn(White, S, MinUi) <=> 100 * (40000 + Flare) >= 300 * (high + Flare)
  <2>1. MinUi \in Nat
    BY DEF MinUi
  <2>2. /\ ReadsOn(Black, S, MinUi) <=> 100 * (low + Flare) >= MinUi * Flare
        /\ ReadsOn(White, S, MinUi) <=> 100 * (40000 + Flare) >= MinUi * (high + Flare)
    BY SMT, <1>1, <2>1, ReadsBetween
  <2> QED
    BY SMT, <2>2 DEF MinUi
<1> DEFINE a == low + Flare
           b == high + Flare
<1>3. a \in Nat /\ b \in Nat /\ a >= 2000 /\ b >= 2000
  BY SMT DEF Flare
<1>4. BestOn(S) = IF a * b >= 84000000 THEN Black ELSE White
  BY SMT, <1>1 DEF BestBetween, Flare
<1>5. /\ ReadsOn(Black, S, MinUi) <=> a >= 6000
      /\ ReadsOn(White, S, MinUi) <=> b <= 14000
  BY SMT, <1>2, <1>3 DEF Flare
<1> HIDE DEF a, b
<1>6. ASSUME a * b >= 84000000, b <= 14000 PROVE a >= 6000
  <2> SUFFICES ASSUME a <= 5999 PROVE FALSE
    BY SMT, <1>3
  <2>1. a * b <= 5999 * b
    BY SMT, <1>3, Times
  <2> QED
    BY SMT, <1>3, <1>6, <2>1
<1>7. ASSUME ~(a * b >= 84000000), a >= 6000 PROVE b <= 14000
  <2> SUFFICES ASSUME b >= 14001 PROVE FALSE
    BY SMT, <1>3
  <2>1. 6000 * b <= a * b
    BY SMT, <1>3, <1>7, Times
  <2>2. a * b \in Nat
    BY SMT, <1>3
  <2> QED
    BY SMT, <1>3, <1>7, <2>1, <2>2
<1> QED
  BY SMT, <1>4, <1>5, <1>6, <1>7

\* On one surface black or white reads, and that one is taken.
LEMMA BestReadsOnOne ==
  ASSUME NEW s \in Grey
  PROVE  ReadsOn(BestOn({s}), {s}, MinText)
<1>1. PICK low \in Nat, high \in Nat : BestBetween({s}, low, high)
  BY BestIs
<1>2. low = Luminance[s] /\ high = Luminance[s]
  BY <1>1 DEF BestBetween
<1>3. /\ ReadsOn(Black, {s}, MinText) <=> 100 * (low + Flare) >= 450 * Flare
      /\ ReadsOn(White, {s}, MinText) <=> 100 * (40000 + Flare) >= 450 * (high + Flare)
  <2>1. MinText \in Nat
    BY DEF MinText
  <2>2. /\ ReadsOn(Black, {s}, MinText) <=> 100 * (low + Flare) >= MinText * Flare
        /\ ReadsOn(White, {s}, MinText) <=> 100 * (40000 + Flare) >= MinText * (high + Flare)
    BY SMT, <1>1, <2>1, ReadsBetween
  <2> QED
    BY SMT, <2>2 DEF MinText
<1> DEFINE a == low + Flare
<1>4. a \in Nat /\ a >= 2000
  BY SMT DEF Flare
<1>5. BestOn({s}) = IF a * a >= 84000000 THEN Black ELSE White
  BY SMT, <1>1, <1>2 DEF BestBetween, Flare
<1>6. /\ ReadsOn(Black, {s}, MinText) <=> a >= 9000
      /\ ReadsOn(White, {s}, MinText) <=> a <= 9333
  BY SMT, <1>2, <1>3, <1>4 DEF Flare
<1> HIDE DEF a
<1>7. ASSUME a * a >= 84000000 PROVE a >= 9000
  <2> SUFFICES ASSUME a <= 8999 PROVE FALSE
    BY SMT, <1>4
  <2>1. a * a <= 8999 * a
    BY SMT, <1>4, Times
  <2> QED
    BY SMT, <1>4, <1>7, <2>1
<1>8. ASSUME ~(a * a >= 84000000) PROVE a <= 9333
  <2> SUFFICES ASSUME a >= 9334 PROVE FALSE
    BY SMT, <1>4
  <2>1. 9334 * a <= a * a /\ a * a \in Nat
    BY SMT, <1>4, Times
  <2> QED
    BY SMT, <1>4, <1>8, <2>1
<1> QED
  BY SMT, <1>5, <1>6, <1>7, <1>8

LEMMA LessIsEasier ==
  ASSUME NEW fg \in Grey, NEW S \in SUBSET Grey, NEW more \in Nat, NEW ratio \in Nat, ratio <= more,
         ReadsOn(fg, S, more)
  PROVE  ReadsOn(fg, S, ratio)
<1> SUFFICES ASSUME NEW s \in S PROVE Contrasts(fg, s, ratio)
  BY DEF ReadsOn
<1>1. Contrasts(fg, s, more)
  BY DEF ReadsOn
<1>2. Luminance[fg] \in Nat /\ Luminance[s] \in Nat
  BY SMT, Luminances
<1> DEFINE a == Luminance[fg] + Flare
           b == Luminance[s] + Flare
<1>3. a \in Nat /\ b \in Nat
  BY SMT, <1>2 DEF Flare
<1>4. /\ ratio * a <= more * a /\ ratio * b <= more * b
      /\ ratio * a \in Nat /\ more * a \in Nat /\ ratio * b \in Nat /\ more * b \in Nat
  <2> HIDE DEF a, b
  <2> QED
    BY SMT, <1>3, Times
<1>5. /\ Contrasts(fg, s, ratio) <=> IF Luminance[fg] <= Luminance[s] THEN 100 * b >= ratio * a ELSE 100 * a >= ratio * b
      /\ Contrasts(fg, s, more) <=> IF Luminance[fg] <= Luminance[s] THEN 100 * b >= more * a ELSE 100 * a >= more * b
  BY SMT, ContrastIs
<1> HIDE DEF a, b
<1> QED
  BY SMT, <1>1, <1>3, <1>4, <1>5

-----------------------------------------------------------------------------
(* The searches                                                            *)

\* What a search finds reads on every surface, or it is the better of black and white.
Suits(fg, S, ratio) == (fg \in Grey /\ ReadsOn(fg, S, ratio)) \/ fg = BestOn(S)

LEMMA TheIs == ASSUME NEW v, NEW other PROVE The({v}, other) = v /\ The({}, other) = other
BY DEF The

\* A search stays between its borders.
StepsWithin(start, by, from, low, high) ==
  {i \in from..100 : {start + by * from, start + by * i} \subseteq low..high}

LEMMA StepIsThere ==
  ASSUME NEW start, NEW by, NEW from \in {0, 1}, NEW low \in Grey, NEW high \in Grey,
         NEW H \in SUBSET StepsWithin(start, by, from, low, high), H # {}
  PROVE  Min(H) \in H /\ start + by * Min(H) \in low..high /\ start + by * Min(H) \in Grey
<1>1. \A x \in H : x \in Nat /\ x <= 100
  <2>1. H \subseteq from..100 /\ from \in Nat
    BY DEF StepsWithin
  <2> QED
    BY <2>1
<1>2. Min(H) \in H
  <2>1. H \in SUBSET Nat /\ 100 \in Nat /\ \A x \in H : x <= 100
    BY <1>1
  <2> QED
    BY Zenon, <2>1, SmallestAndLargest
<1>3. \A i \in H : start + by * i \in low..high
  BY DEF StepsWithin
<1>4. start + by * Min(H) \in low..high
  BY <1>2, <1>3
<1>5. \A l \in low..high : l \in Grey
  BY DEF Grey, Black, White
<1> QED
  BY <1>2, <1>4, <1>5

LEMMA FindSuits ==
  ASSUME NEW S, NEW ratio, NEW start, NEW by
  PROVE  Suits(FindContrastOnSurfaces(S, ratio, start, by), S, ratio)
<1> DEFINE hits(move, from) ==
      {i \in {i \in from..100 : {start + move * from, start + move * i} \subseteq Black..White} :
         ReadsOn(start + move * i, S, ratio)}
    found(move, from) == IF hits(move, from) = {} THEN {} ELSE {start + move * Min(hits(move, from))}
<1>1. FindContrastOnSurfaces(S, ratio, start, by) = The(found(by, 0), The(found(-by, 1), BestOn(S)))
  BY DEF FindContrastOnSurfaces, FirstStep
<1>2. ASSUME NEW move, NEW from \in {0, 1}
      PROVE  found(move, from) = {} \/ \E v \in Grey : found(move, from) = {v} /\ ReadsOn(v, S, ratio)
  <2> SUFFICES ASSUME hits(move, from) # {}
               PROVE  start + move * Min(hits(move, from)) \in Grey /\ ReadsOn(start + move * Min(hits(move, from)), S, ratio)
    OBVIOUS
  <2> DEFINE H == hits(move, from)
  <2>1. H \in SUBSET StepsWithin(start, move, from, Black, White)
    BY DEF StepsWithin
  <2>2. \A i \in H : ReadsOn(start + move * i, S, ratio)
    OBVIOUS
  <2>3. H # {} /\ Black \in Grey /\ White \in Grey
    BY DEF Grey, Black, White
  <2> HIDE DEF H
  <2>4. Min(H) \in H /\ start + move * Min(H) \in Grey
    BY <2>1, <2>3, StepIsThere
  <2> QED
    BY <2>2, <2>4 DEF H
<1> HIDE DEF found
<1>3. ASSUME NEW move, NEW from \in {0, 1}, NEW other
      PROVE  \/ The(found(move, from), other) = other
             \/ \E v \in Grey : The(found(move, from), other) = v /\ ReadsOn(v, S, ratio)
  <2>1. CASE found(move, from) = {}
    BY <2>1, TheIs
  <2>2. CASE found(move, from) # {}
    <3>1. PICK v \in Grey : found(move, from) = {v} /\ ReadsOn(v, S, ratio)
      BY <1>2, <2>2
    <3>2. The(found(move, from), other) = v
      BY <3>1, TheIs
    <3> QED
      BY <3>1, <3>2
  <2> QED
    BY <2>1, <2>2
<1> DEFINE back == The(found(-by, 1), BestOn(S))
<1>4. back = BestOn(S) \/ \E v \in Grey : back = v /\ ReadsOn(v, S, ratio)
  BY <1>3
<1>5. The(found(by, 0), back) = back \/ \E v \in Grey : The(found(by, 0), back) = v /\ ReadsOn(v, S, ratio)
  BY <1>3
<1> QED
  BY <1>1, <1>4, <1>5 DEF Suits

LEMMA KeepSuits ==
  ASSUME NEW S, NEW ratio, NEW colour \in Grey, NEW by
  PROVE  Suits(KeepOnSurfaces(colour, S, ratio, by), S, ratio)
BY FindSuits DEF KeepOnSurfaces, Suits

LEMMA BestIsGrey == ASSUME NEW S PROVE BestOn(S) \in Grey
BY DEF BestOn, Black, White, Grey

LEMMA GreyIsAnInteger == Grey \subseteq Int
BY DEF Grey, Black, White

LEMMA ClampIsGrey == ASSUME NEW l \in Int PROVE Clamp(l) \in Grey
BY DEF Clamp, Grey, Black, White

LEMMA TheIsGrey ==
  ASSUME NEW found, found = {} \/ \E v \in Grey : found = {v}, NEW other \in Grey
  PROVE  The(found, other) \in Grey
<1>1. CASE found = {}
  BY <1>1, TheIs
<1>2. CASE \E v \in Grey : found = {v}
  <2>1. PICK v \in Grey : found = {v}
    BY <1>2
  <2>2. The(found, other) = v
    BY <2>1, TheIs
  <2> QED
    BY <2>2
<1> QED
  BY <1>1, <1>2

LEMMA CompliantIsGrey ==
  ASSUME NEW wanted, NEW start \in Int, NEW by \in Int
  PROVE  FindCompliantColor(wanted, start, by) \in Grey
<1> DEFINE Reads(l) == \A w \in wanted : Contrasts(l, w[1], w[2])
           at(i) == Max({50, Min({950, start + by * i})})
           tries == {i \in 1..70 : Reads(at(i))}
           back == -by
           H == {i \in {i \in 1..100 : {start + back * 1, start + back * i} \subseteq 50..980} : Reads(start + back * i)}
           opposite == IF H = {} THEN {} ELSE {start + back * Min(H)}
           best == BestOn({w[1] : w \in wanted})
<1>1. FindCompliantColor(wanted, start, by) = IF tries # {} THEN at(Min(tries)) ELSE The(opposite, best)
    BY DEF FindCompliantColor, FirstStep
<1>2. \A i \in Int : at(i) \in Grey
  <2> SUFFICES ASSUME NEW l \in Int PROVE Max({50, Min({950, l})}) \in Grey
    OBVIOUS
  <2>1. Min({950, l}) = IF 950 <= l THEN 950 ELSE l
    BY SMT DEF Min
  <2> DEFINE m == Min({950, l})
  <2>2. m \in Int /\ m <= 950
    BY SMT, <2>1
  <2> HIDE DEF m
  <2>3. Max({50, m}) = IF 50 <= m THEN m ELSE 50
    BY SMT, <2>2 DEF Max
  <2> QED
    BY SMT, <2>2, <2>3 DEF m, Grey, Black, White
<1>3. tries # {} => Min(tries) \in Int
  <2>1. tries \in SUBSET Nat /\ 70 \in Nat /\ \A x \in tries : x <= 70
    <3>1. \A x \in 1..70 : x \in Nat /\ x <= 70
      OBVIOUS
    <3>2. tries \subseteq 1..70
      OBVIOUS
    <3> HIDE DEF tries
    <3> QED
      BY <3>1, <3>2
  <2> HIDE DEF tries
  <2>2. tries # {} => Min(tries) \in tries
    BY Zenon, <2>1, SmallestAndLargest
  <2>3. \A x \in tries : x \in Int
    BY <2>1
  <2> QED
    BY <2>2, <2>3
<1>4. opposite = {} \/ \E v \in Grey : opposite = {v}
  <2>1. H \in SUBSET StepsWithin(start, back, 1, 50, 980)
    BY DEF StepsWithin
  <2>2. 50 \in Grey /\ 980 \in Grey /\ 1 \in {0, 1}
    BY DEF Grey, Black, White
  <2> HIDE DEF H, back
  <2>3. ASSUME H # {} PROVE start + back * Min(H) \in Grey
    <3>1. ASSUME NEW from \in {0, 1}, NEW low \in Grey, NEW high \in Grey, H \in SUBSET StepsWithin(start, back, from, low, high)
          PROVE  start + back * Min(H) \in Grey
      BY <2>3, <3>1, StepIsThere
    <3> QED
      BY <2>1, <2>2, <3>1
  <2> QED
    BY <2>3
<1> HIDE DEF tries, opposite, at
<1>5. best \in Grey
  BY BestIsGrey
<1> HIDE DEF best
<1>6. The(opposite, best) \in Grey
  BY <1>4, <1>5, TheIsGrey
<1> QED
  BY <1>1, <1>2, <1>3, <1>6

LEMMA ShadeIsGrey ==
  ASSUME NEW hue, NEW bg, NEW ratio, NEW by \in {-10, 10}
  PROVE  Shade(hue, bg, ratio, by) \in Grey
<1> DEFINE low == IF by < 0 THEN 50 ELSE Black
           high == IF by < 0 THEN White ELSE 980
           hits(move, from, l, h) ==
             {i \in {i \in from..100 : {hue + move * from, hue + move * i} \subseteq l..h} :
                Contrasts(hue + move * i, bg, ratio)}
           found(move, from, l, h) == IF hits(move, from, l, h) = {} THEN {} ELSE {hue + move * Min(hits(move, from, l, h))}
<1>1. Shade(hue, bg, ratio, by) = The(found(by, 0, low, high), The(found(-by, 1, 50, 980), BestOn({bg})))
  BY DEF Shade, FirstStep
<1>2. ASSUME NEW move, NEW from \in {0, 1}, NEW l \in Grey, NEW h \in Grey, NEW other \in Grey
      PROVE  The(found(move, from, l, h), other) \in Grey
  <2> DEFINE H == hits(move, from, l, h)
  <2>1. H \in SUBSET StepsWithin(hue, move, from, l, h)
    BY DEF StepsWithin
  <2> HIDE DEF H
  <2>2. ASSUME H # {} PROVE hue + move * Min(H) \in Grey
    BY <2>1, <2>2, StepIsThere
  <2>3. found(move, from, l, h) = {} \/ \E v \in Grey : found(move, from, l, h) = {v}
    BY <2>2 DEF H
  <2> HIDE DEF found
  <2> QED
    BY <2>3, TheIsGrey
<1>3. low \in Grey /\ high \in Grey /\ 50 \in Grey /\ 980 \in Grey /\ BestOn({bg}) \in Grey
  BY BestIsGrey DEF Grey, Black, White
<1> HIDE DEF low, high, found
<1>4. The(found(-by, 1, 50, 980), BestOn({bg})) \in Grey
  BY <1>2, <1>3
<1> QED
  BY <1>1, <1>2, <1>3, <1>4

-----------------------------------------------------------------------------
(* The surfaces                                                            *)

\* What a design system may set: the steps of vividness, and at most one colour of each kind.
Overrides(o) ==
  /\ o.vividness \in {0, 50, 100}
  /\ o.background = {} \/ \E v \in Grey : o.background = {v}
  /\ o.secondary = {} \/ \E v \in Grey : o.secondary = {v}

LEMMA LiftIsGrey ==
  ASSUME NEW from \in Grey, NEW to \in Grey, NEW vividness \in {0, 50, 100}
  PROVE  Lift(from, to, vividness) \in Grey
<1>1. from \in Int /\ to \in Int /\ 0 <= from /\ from <= 1000 /\ 0 <= to /\ to <= 1000
  BY DEF Grey, Black, White
<1>2. CASE vividness = 0
  <2>1. Lift(from, to, vividness) = from
    BY SMT, <1>1, <1>2 DEF Lift
  <2> QED
    BY <2>1
<1>3. CASE vividness = 100
  <2>1. Lift(from, to, vividness) = to
    BY SMT, <1>1, <1>3 DEF Lift
  <2> QED
    BY <2>1
<1>4. CASE vividness = 50
  BY SMT, <1>1, <1>4 DEF Lift, Grey, Black, White
<1> QED
  BY <1>2, <1>3, <1>4

LEMMA BaseIsGrey ==
  ASSUME NEW tint \in Grey, NEW l \in Grey, NEW o, Overrides(o)
  PROVE  LiftBg(l, tint, o) \in Grey /\ LiftNav(l, tint, o) \in Grey
<1>1. The(o.background, tint) \in Grey
  BY TheIsGrey DEF Overrides
<1>2. o.vividness \in {0, 50, 100}
  BY DEF Overrides
<1> QED
  BY <1>1, <1>2, LiftIsGrey DEF LiftBg, LiftNav

\* Five greys, the base first
FiveFrom(base, g) == g \in Seq(Grey) /\ Len(g) = 5 /\ g[1] = base

LEMMA SurfacesAre ==
  ASSUME NEW t \in Tones, NEW sixteenths \in Int, NEW tint \in Grey, NEW o, Overrides(o)
  PROVE  FiveFrom(LiftBg(Anchor(t), tint, o), SurfacesAt(t, sixteenths, tint, o))
<1> DEFINE base == LiftBg(Anchor(t), tint, o)
           away == IF PrefersDarkText(base) THEN 1 ELSE -1
           others == [i \in 1..4 |->
             IF o.vividness > 0 THEN Clamp(base + (away * Distance(SurfaceSteps(t)[i], Anchor(t)) * sixteenths) \div 16)
             ELSE Clamp(Anchor(t) + ((SurfaceSteps(t)[i] - Anchor(t)) * sixteenths) \div 16)]
<1>1. SurfacesAt(t, sixteenths, tint, o) = <<base>> \o others
  BY DEF SurfacesAt
<1>2. Anchor(t) \in Grey /\ \A i \in 1..4 : SurfaceSteps(t)[i] \in Int
  BY DEF Anchor, SurfaceSteps, Grey, Black, White
<1>3. base \in Grey
  BY <1>2, BaseIsGrey
<1>4. base \in Int /\ Anchor(t) \in Int
  BY <1>2, <1>3, GreyIsAnInteger
<1> HIDE DEF base
<1>5. away \in Int
  OBVIOUS
<1> HIDE DEF away
<1>6. \A i \in 1..4 : others[i] \in Grey
  <2> SUFFICES ASSUME NEW i \in 1..4 PROVE others[i] \in Grey
    OBVIOUS
  <2> DEFINE d == Distance(SurfaceSteps(t)[i], Anchor(t))
             e == SurfaceSteps(t)[i] - Anchor(t)
  <2>1. d \in Int /\ e \in Int
    BY <1>2, <1>4 DEF Distance
  <2> HIDE DEF d, e
  <2>2. (away * d * sixteenths) \div 16 \in Int /\ (e * sixteenths) \div 16 \in Int
    BY SMT, <1>5, <2>1
  <2>3. base + (away * d * sixteenths) \div 16 \in Int /\ Anchor(t) + (e * sixteenths) \div 16 \in Int
    BY <1>4, <2>2
  <2>4. /\ Clamp(base + (away * d * sixteenths) \div 16) \in Grey
        /\ Clamp(Anchor(t) + (e * sixteenths) \div 16) \in Grey
    BY <2>3, ClampIsGrey
  <2> QED
    BY <2>4 DEF d, e
<1> DEFINE first == <<base>>
<1>7. first \in Seq(Grey) /\ Len(first) = 1 /\ first[1] = base
  BY <1>3
<1>8. others \in Seq(Grey) /\ Len(others) = 4
  <2>1. others \in [1..4 -> Grey]
    BY <1>6
  <2> HIDE DEF others
  <2>2. others \in Seq(Grey) /\ DOMAIN others = 1..4
    BY <2>1, SeqDef
  <2>3. Len(others) \in Nat /\ 1..Len(others) = 1..4
    BY <2>2, LenProperties
  <2>4. Len(others) = 4
    <3> DEFINE n == Len(others)
    <3>1. n \in Nat /\ 1..n = 1..4
      BY <2>3
    <3> HIDE DEF n
    <3>2. 4 \in 1..n /\ (n # 0 => n \in 1..4)
      BY <3>1
    <3>3. n = 4
      BY <3>1, <3>2
    <3> QED
      BY <3>3 DEF n
  <2> QED
    BY <2>2, <2>4
<1> HIDE DEF first, others
<1>9. /\ first \o others \in Seq(Grey) /\ Len(first \o others) = Len(first) + Len(others)
      /\ \A i \in 1..(Len(first) + Len(others)) : (first \o others)[i] = IF i <= Len(first) THEN first[i] ELSE others[i - Len(first)]
  BY <1>7, <1>8, ConcatProperties
<1>10. first \o others \in Seq(Grey) /\ Len(first \o others) = 5 /\ (first \o others)[1] = base
  <2>1. 1 \in 1..5 /\ Len(first) + Len(others) = 5
    BY <1>7, <1>8
  <2>2. (first \o others)[1] = first[1]
    BY <1>7, <1>9, <2>1
  <2> QED
    BY <1>7, <1>9, <2>1, <2>2
<1> QED
  BY <1>1, <1>10 DEF first, base, FiveFrom

LEMMA FiveAre ==
  ASSUME NEW base, NEW g, FiveFrom(base, g)
  PROVE  /\ Range(g) \in SUBSET Grey /\ g[1] = base
         /\ \A i \in 1..5 : g[i] \in Range(g) /\ g[i] \in Grey
<1>1. DOMAIN g = 1..5 /\ \A i \in 1..5 : g[i] \in Grey
  BY LenProperties, ElementOfSeq DEF FiveFrom
<1> QED
  BY <1>1 DEF Range, FiveFrom

\* Readable surfaces: a text of 4.5:1 is left, black or white.
LEMMA GroundReads ==
  ASSUME NEW t \in Tones, NEW tint \in Grey, NEW o, Overrides(o)
  PROVE  /\ FiveFrom(LiftBg(Anchor(t), tint, o), ReadableSurfaces(t, tint, o))
         /\ SomeTextReads(Range(ReadableSurfaces(t, tint, o)), MinText)
<1> DEFINE factors == <<16, 8, 4, 2, 1, 0>>
           at(i) == SurfacesAt(t, factors[i], tint, o)
           fits == {i \in 1..6 : SomeTextReads(Range(at(i)), TargetText)}
           base == LiftBg(Anchor(t), tint, o)
           flat == <<base, base, base, base, base>>
<1>1. ReadableSurfaces(t, tint, o) = IF fits = {} THEN flat ELSE at(Min(fits))
  BY DEF ReadableSurfaces
<1>2. \A i \in 1..6 : FiveFrom(base, at(i))
  <2> SUFFICES ASSUME NEW i \in 1..6 PROVE FiveFrom(base, at(i))
    OBVIOUS
  <2>1. factors[i] \in Int
    OBVIOUS
  <2> QED
    BY <2>1, SurfacesAre
<1>3. base \in Grey
  <2>1. Anchor(t) \in Grey
    BY DEF Anchor, Grey, Black, White
  <2> QED
    BY <2>1, BaseIsGrey
<1>4. FiveFrom(base, flat) /\ Range(flat) = {base}
  <2> HIDE DEF base
  <2>1. flat \in Seq(Grey) /\ Len(flat) = 5 /\ flat[1] = base
    BY <1>3
  <2>2. DOMAIN flat = 1..5 /\ \A i \in 1..5 : flat[i] = base
    OBVIOUS
  <2>3. Range(flat) = {base}
    <3> HIDE DEF flat
    <3> QED
      BY <2>2 DEF Range
  <2> QED
    BY <2>1, <2>3 DEF FiveFrom
<1> HIDE DEF flat, base, at
<1>5. CASE fits = {}
  <2>1. ReadsOn(BestOn({base}), {base}, MinText)
    BY <1>3, BestReadsOnOne
  <2> QED
    BY <1>1, <1>4, <1>5, <2>1 DEF SomeTextReads, base
<1>6. CASE fits # {}
  <2>1. fits \in SUBSET Nat /\ 6 \in Nat /\ \A x \in fits : x <= 6
    OBVIOUS
  <2>2. Min(fits) \in fits
    <3> HIDE DEF fits
    <3> QED
      BY Zenon, <1>6, <2>1, SmallestAndLargest
  <2> DEFINE g == at(Min(fits))
  <2>3. FiveFrom(base, g) /\ SomeTextReads(Range(g), TargetText)
    BY <1>2, <2>2
  <2> HIDE DEF g, fits
  <2>4. ReadsOn(BestOn(Range(g)), Range(g), TargetText)
    BY <2>3 DEF SomeTextReads
  <2>5. Range(g) \in SUBSET Grey /\ BestOn(Range(g)) \in Grey
    BY <2>3, FiveAre, BestIsGrey
  <2>6. TargetText \in Nat /\ MinText \in Nat /\ MinText <= TargetText
    BY DEF TargetText, MinText
  <2>7. ReadsOn(BestOn(Range(g)), Range(g), MinText)
    BY <2>4, <2>5, <2>6, LessIsEasier
  <2> QED
    BY <1>1, <1>6, <2>3, <2>7 DEF SomeTextReads, g, base
<1> QED
  BY <1>5, <1>6

-----------------------------------------------------------------------------
(* The palette of one tone                                                 *)

LEMMA SuitsReads ==
  ASSUME NEW S \in SUBSET Grey, SomeTextReads(S, MinText), NEW fg, Suits(fg, S, TargetText)
  PROVE  ReadsOn(fg, S, MinText) /\ (SomeTextReads(S, TargetText) => ReadsOn(fg, S, TargetText))
<1>1. CASE fg = BestOn(S)
  BY <1>1 DEF SomeTextReads
<1>2. CASE fg \in Grey /\ ReadsOn(fg, S, TargetText)
  <2>1. TargetText \in Nat /\ MinText \in Nat /\ MinText <= TargetText
    BY DEF TargetText, MinText
  <2>2. ReadsOn(fg, S, MinText)
    BY <1>2, <2>1, LessIsEasier
  <2> QED
    BY <1>2, <2>2
<1> QED
  BY <1>1, <1>2 DEF Suits

\* What has an edge on the page stands out from any part of it.
LEMMA SuitsStandsOut ==
  ASSUME NEW S \in SUBSET Grey, SomeTextReads(S, MinText), NEW sheet \in SUBSET S, sheet # {},
         NEW colour, Suits(colour, sheet, MinUi)
  PROVE  ReadsOn(colour, sheet, MinUi)
<1>1. ReadsOn(BestOn(S), S, MinUi)
  <2>1. MinUi \in Nat /\ MinText \in Nat /\ MinUi <= MinText
    BY DEF MinUi, MinText
  <2>2. ReadsOn(BestOn(S), S, MinText) /\ BestOn(S) \in Grey
    BY BestIsGrey DEF SomeTextReads
  <2> QED
    BY <2>1, <2>2, LessIsEasier
<1>2. ReadsOn(Black, sheet, MinUi) \/ ReadsOn(White, sheet, MinUi)
  BY <1>1 DEF ReadsOn, BestOn
<1>3. sheet \in SUBSET Grey
  OBVIOUS
<1>4. ReadsOn(BestOn(sheet), sheet, MinUi)
  BY <1>2, <1>3, BestStandsOut
<1> QED
  BY <1>4 DEF Suits

\* What a palette keeps: that of the colours the engine derives and of those it is given.
PaletteReads(p, o) ==
  LET S == Range(p.surfaces)
  IN  /\ S \in SUBSET Grey /\ p.surfaces[1] \in S /\ p.surfaces[2] \in S
      /\ SomeTextReads(S, MinText)
      /\ Suits(p.emphasis, S, TargetText) /\ Suits(p.mutedText, S, TargetText)
      /\ Suits(p.link, S, TargetText) /\ Suits(p.primaryFg, S, TargetText)
      /\ Suits(p.secondaryText, S, TargetText)
      /\ o.text = {} => Suits(p.text, S, TargetText) /\ Suits(p.heading, S, TargetText)
      /\ ReadsOn(p.primary, {p.surfaces[1], p.surfaces[2]}, MinUi)
      /\ ReadsOn(p.border, S, MinUi)
      /\ Contrasts(p.navText, p.navBg, MinText)

LEMMA NavReads ==
  ASSUME NEW t \in Tones, NEW tint \in Grey, NEW o, Overrides(o)
  PROVE  Contrasts(NavText(t, tint, o), NavBg(t, tint, o), MinText)
<1> DEFINE bg == NavBg(t, tint, o)
           fg == NavText(t, tint, o)
<1>1. bg \in Grey
  <2>1. 150 \in Grey /\ 965 \in Grey
    BY DEF Grey, Black, White
  <2>2. LiftNav(150, tint, o) \in Grey /\ LiftNav(965, tint, o) \in Grey
    BY <2>1, BaseIsGrey
  <2> QED
    BY <2>2 DEF NavBg
<1>2. Suits(fg, {bg}, TargetText)
  BY FindSuits DEF NavText
<1> HIDE DEF fg, bg
<1>3. SomeTextReads({bg}, MinText) /\ {bg} \in SUBSET Grey
  BY <1>1, BestReadsOnOne DEF SomeTextReads
<1>4. ReadsOn(fg, {bg}, MinText)
  BY <1>2, <1>3, SuitsReads
<1> QED
  BY <1>4 DEF ReadsOn, fg, bg

LEMMA PrimaryIsGrey ==
  ASSUME NEW t \in Tones, NEW tint \in Grey, NEW bg, NEW base
  PROVE  /\ ComputeColorPrimary(tint, bg) \in Grey
         /\ ComputeColorPrimaryFgLt(tint, bg) \in Grey /\ ComputeColorPrimaryFgDk(tint, bg) \in Grey
<1>1. -10 \in {-10, 10} /\ 10 \in {-10, 10}
  OBVIOUS
<1>2. \A ratio, b : \A by \in {-10, 10} : Shade(tint, b, ratio, by) \in Grey
  BY ShadeIsGrey
<1> QED
  BY <1>1, <1>2 DEF ComputeColorPrimary, ComputeColorPrimaryFgLt, ComputeColorPrimaryFgDk

LEMMA FillIsGrey ==
  ASSUME NEW primary \in Grey, NEW base
  PROVE  PrimaryFillDark(primary, base) \in Grey
<1> DEFINE H == {i \in {i \in 0..100 : {primary + 10 * 0, primary + 10 * i} \subseteq Black..980} :
                  Contrasts(primary + 10 * i, base, TargetFillBoundary) /\ SomeTextReads({primary + 10 * i}, MinText)}
           found == IF H = {} THEN {} ELSE {primary + 10 * Min(H)}
<1>1. PrimaryFillDark(primary, base) = The(found, primary)
  BY DEF PrimaryFillDark, FirstStep
<1>2. H \in SUBSET StepsWithin(primary, 10, 0, Black, 980)
  BY DEF StepsWithin
<1>3. Black \in Grey /\ 980 \in Grey /\ 0 \in {0, 1}
  BY DEF Grey, Black, White
<1> HIDE DEF H
<1>4. ASSUME H # {} PROVE primary + 10 * Min(H) \in Grey
  <2>1. ASSUME NEW move, NEW from \in {0, 1}, NEW low \in Grey, NEW high \in Grey,
               H \in SUBSET StepsWithin(primary, move, from, low, high)
        PROVE  primary + move * Min(H) \in Grey
    BY <1>4, <2>1, StepIsThere
  <2> QED
    BY <1>2, <1>3, <2>1
<1>5. found = {} \/ \E v \in Grey : found = {v}
  BY <1>4
<1> HIDE DEF found
<1> QED
  BY <1>1, <1>5, TheIsGrey

LEMMA PaletteOfATone ==
  ASSUME NEW t \in Tones, NEW tint \in Grey, NEW o, Overrides(o)
  PROVE  PaletteReads(ComputePalette(t, tint, o), o)
<1> DEFINE by == IF t = "light" THEN -10 ELSE 10
           ground == ReadableSurfaces(t, tint, o)
           S == Range(ground)
           base == ground[1]
           sheet == {base, ground[2]}
           muted == ground[4]
           Find(ratio, start) == FindContrastOnSurfaces(S, ratio, start, by)
           Keep(colour) == KeepOnSurfaces(colour, S, TargetText, by)
           emphasis == Find(TargetText, Start(t).emphasis)
           second == FindCompliantColor({<<muted, TargetText>>, <<base, MinUi>>}, Start(t).secondary, by)
           mutedColour == FindCompliantColor({<<muted, TargetText>>}, Start(t).muted, by)
           linkColour == FindCompliantColor({<<muted, TargetText>>}, 550, by)
           lightPrimary == ComputeColorPrimary(tint, ReadableSurfaces("light", tint, o)[1])
           primary == IF t = "light" THEN lightPrimary ELSE PrimaryFillDark(lightPrimary, base)
           onPrimary == IF t = "light" THEN ComputeColorPrimaryFgLt(tint, muted) ELSE ComputeColorPrimaryFgDk(tint, muted)
           p == ComputePalette(t, tint, o)
<1>1. /\ p.surfaces = ground
      /\ p.emphasis = emphasis /\ p.link = Keep(linkColour) /\ p.primaryFg = Keep(onPrimary)
      /\ p.mutedText = IF o.text = {} THEN Keep(mutedColour) ELSE MutedFromText(The(o.text, base), base, S)
      /\ p.secondaryText = Keep(The(o.secondary, Keep(second)))
      /\ p.text = The(o.text, Find(TargetText, Start(t).text)) /\ p.heading = The(o.text, emphasis)
      /\ p.primary = KeepOnSurfaces(primary, sheet, MinUi, by)
      /\ p.border = Find(MinUi, LiftBg(Start(t).border, tint, o))
      /\ p.navBg = NavBg(t, tint, o) /\ p.navText = NavText(t, tint, o)
  BY DEF ComputePalette
<1>2. by \in Int /\ Start(t).secondary \in Int /\ Start(t).muted \in Int /\ 550 \in Int
  BY DEF Start
<1>3. second \in Grey /\ mutedColour \in Grey /\ linkColour \in Grey
  <2> HIDE DEF by, muted, base
  <2> QED
    BY <1>2, CompliantIsGrey
<1>4. onPrimary \in Grey /\ lightPrimary \in Grey
  BY PrimaryIsGrey
<1>5. primary \in Grey
  BY <1>4, FillIsGrey
<1>6. S \in SUBSET Grey /\ base \in S /\ ground[2] \in S /\ SomeTextReads(S, MinText)
  <2>1. FiveFrom(LiftBg(Anchor(t), tint, o), ground) /\ SomeTextReads(S, MinText)
    BY GroundReads
  <2>2. 1 \in 1..5 /\ 2 \in 1..5
    OBVIOUS
  <2> QED
    BY <2>1, <2>2, FiveAre
<1> HIDE DEF by, ground, S, second, mutedColour, linkColour, lightPrimary, primary, onPrimary, p
<1>7. /\ Suits(emphasis, S, TargetText)
      /\ Suits(Find(TargetText, Start(t).text), S, TargetText)
      /\ Suits(MutedFromText(The(o.text, base), base, S), S, TargetText)
      /\ Suits(Find(MinUi, LiftBg(Start(t).border, tint, o)), S, MinUi)
  BY FindSuits DEF MutedFromText
<1>8. /\ Suits(Keep(linkColour), S, TargetText) /\ Suits(Keep(onPrimary), S, TargetText)
      /\ Suits(Keep(mutedColour), S, TargetText) /\ Suits(KeepOnSurfaces(primary, sheet, MinUi, by), sheet, MinUi)
  BY <1>3, <1>4, <1>5, KeepSuits
<1>9. Suits(Keep(The(o.secondary, Keep(second))), S, TargetText)
  <2>1. Keep(second) \in Grey
    <3>1. Suits(Keep(second), S, TargetText)
      BY <1>3, KeepSuits
    <3> QED
      BY <3>1, BestIsGrey DEF Suits
  <2>2. The(o.secondary, Keep(second)) \in Grey
    BY <2>1, TheIsGrey DEF Overrides
  <2> QED
    BY <2>2, KeepSuits
<1>10. ReadsOn(p.primary, sheet, MinUi)
  <2>1. sheet \in SUBSET S /\ sheet # {} /\ Suits(p.primary, sheet, MinUi)
    BY <1>1, <1>6, <1>8
  <2> HIDE DEF sheet
  <2> QED
    BY <1>6, <2>1, SuitsStandsOut
<1>11. ReadsOn(p.border, S, MinUi)
  <2>1. S \in SUBSET S /\ S # {} /\ Suits(p.border, S, MinUi)
    BY <1>1, <1>6, <1>7
  <2> QED
    BY <1>6, <2>1, SuitsStandsOut
<1>12. Contrasts(p.navText, p.navBg, MinText)
  BY <1>1, NavReads
<1>13. Suits(p.mutedText, S, TargetText)
  BY <1>1, <1>7, <1>8
<1>14. o.text = {} => Suits(p.text, S, TargetText) /\ Suits(p.heading, S, TargetText)
  BY <1>1, <1>7, TheIs
<1>15. Suits(p.emphasis, S, TargetText) /\ Suits(p.link, S, TargetText) /\ Suits(p.primaryFg, S, TargetText)
       /\ Suits(p.secondaryText, S, TargetText)
  BY <1>1, <1>7, <1>8, <1>9
<1>16. p.surfaces = ground /\ Range(p.surfaces) = S /\ p.surfaces[1] = base /\ sheet = {p.surfaces[1], p.surfaces[2]}
  BY <1>1 DEF S
<1> QED
  <2> HIDE DEF base, sheet
  <2>1. PaletteReads(p, o)
    <3>1. p.surfaces[1] \in S /\ p.surfaces[2] \in S
      BY <1>6, <1>16
    <3>2. ReadsOn(p.primary, {p.surfaces[1], p.surfaces[2]}, MinUi)
      BY <1>10, <1>16
    <3> QED
      BY <1>6, <1>11, <1>12, <1>13, <1>14, <1>15, <1>16, <3>1, <3>2 DEF PaletteReads
  <2> QED
    BY <2>1 DEF p

-----------------------------------------------------------------------------
(* DesignSystem.  The page a visitor sees.                                 *)

\* The design system has the colours and the tone its patches had.
PresetIsTyped ==
  /\ "sfondo" \in DOMAIN preset => preset["sfondo"] \in Grey
  /\ "secondary" \in DOMAIN preset => preset["secondary"] \in Grey
  /\ "forza" \in DOMAIN preset => preset["forza"] \in Tones

\* A palette and its warnings are those of the design system as it stands: nothing changes it
\* after the build.
PaletteIsBuilt ==
  LET o == Aspect(preset).overrides
  IN  /\ palette = [t \in Tones |-> ComputePalette(t, brand, o)]
      /\ warnings = AuditPalette(palette, AuditedTones) \cup (IF o.text # {} THEN AuditText(palette, AuditedTones) ELSE {})

DesignIInv ==
  /\ brand \in Grey /\ PresetIsTyped
  /\ phase \in {"design", "refused", "built", "served", "live"}
  /\ phase \in {"design", "refused"} => palette = <<>>
  /\ phase \in {"built", "served", "live"} => PaletteIsBuilt
  /\ phase \in {"served", "live"} => tone \in AuditedTones

LEMMA MergeIs ==
  ASSUME NEW base, NEW patch, NEW f, f # "roles"
  PROVE  /\ f \in DOMAIN Merge(base, patch) => f \in DOMAIN patch \/ f \in DOMAIN base
         /\ f \in DOMAIN Merge(base, patch) /\ f \in DOMAIN patch => Merge(base, patch)[f] = patch[f]
         /\ f \in DOMAIN Merge(base, patch) /\ f \notin DOMAIN patch => Merge(base, patch)[f] = base[f]
<1> DEFINE roles == IF "roles" \in DOMAIN patch THEN patch.roles ELSE <<>>
           merged == [r \in DOMAIN base.roles \cup DOMAIN roles |->
                       Spread(IF r \in DOMAIN roles THEN roles[r] ELSE <<>>, Role(base, r))]
           rest == Spread(patch, base)
           all == [roles |-> merged]
<1>1. Merge(base, patch) = Spread(all, rest)
  BY DEF Merge
<1>2. DOMAIN all = {"roles"}
  OBVIOUS
<1> HIDE DEF all
<1>3. f \notin DOMAIN all
  BY <1>2
<1>4. /\ DOMAIN Spread(all, rest) = DOMAIN all \cup DOMAIN rest
      /\ f \in DOMAIN rest => Spread(all, rest)[f] = rest[f]
  BY <1>3 DEF Spread
<1>5. /\ DOMAIN rest = DOMAIN patch \cup DOMAIN base
      /\ \A x \in DOMAIN rest : rest[x] = IF x \in DOMAIN patch THEN patch[x] ELSE base[x]
  BY DEF Spread
<1> QED
  BY <1>1, <1>3, <1>4, <1>5

LEMMA AspectIsTyped ==
  ASSUME PresetIsTyped
  PROVE  Overrides(Aspect(preset).overrides) /\ Aspect(preset).forced \in Tones \union {None}
<1> DEFINE o == Aspect(preset).overrides
<1>1. /\ o.background = Colour(preset, "sfondo") /\ o.secondary = Colour(preset, "secondary")
      /\ Aspect(preset).forced = Field(preset, "forza", None)
  BY DEF Aspect
<1>2. o.vividness \in {0, 50, 100}
  BY DEF Aspect
<1> HIDE DEF o
<1>3. /\ o.background = {} \/ \E v \in Grey : o.background = {v}
      /\ o.secondary = {} \/ \E v \in Grey : o.secondary = {v}
  BY <1>1 DEF Colour, PresetIsTyped
<1>4. Aspect(preset).forced \in Tones \union {None}
  BY <1>1 DEF Field, PresetIsTyped
<1> QED
  BY <1>2, <1>3, <1>4 DEF Overrides, o

LEMMA AuditsAreOfTones ==
  ASSUME PresetIsTyped
  PROVE  AuditedTones \in SUBSET Tones /\ AuditedTones # {}
         /\ (Aspect(preset).forced # None => AuditedTones = {Aspect(preset).forced})
         /\ (Aspect(preset).forced = None => AuditedTones = Tones)
BY AspectIsTyped DEF AuditedTones, Tones

LEMMA DesignStarts == DesignInit => DesignIInv
<1> SUFFICES ASSUME DesignInit PROVE DesignIInv
  OBVIOUS
<1>1. brand \in Grey /\ phase = "design" /\ palette = <<>>
  BY BrandsAreGreys DEF DesignInit
<1>2. DOMAIN preset = {"roles"}
  BY DEF DesignInit
<1>3. PresetIsTyped
  BY <1>2 DEF PresetIsTyped
<1> QED
  BY <1>1, <1>3 DEF DesignIInv

LEMMA ExtendKeeps == ASSUME DesignIInv, NEW patch \in Patches, Extend(patch) PROVE DesignIInv'
<1>1. phase = "design" /\ phase' = phase /\ brand' = brand /\ palette' = palette /\ preset' = Merge(preset, patch)
  BY DEF Extend
<1> DEFINE m == Merge(preset, patch)
<1>2. ASSUME NEW f \in {"sfondo", "secondary", "forza"}, f \in DOMAIN m
      PROVE  \/ f \in DOMAIN patch /\ m[f] = patch[f]
             \/ f \in DOMAIN preset /\ m[f] = preset[f]
  <2>1. f # "roles"
    OBVIOUS
  <2> HIDE DEF m
  <2> QED
    BY <1>2, <2>1, MergeIs DEF m
<1> HIDE DEF m
<1>3. /\ "sfondo" \in DOMAIN patch => patch["sfondo"] \in Grey
      /\ "secondary" \in DOMAIN patch => patch["secondary"] \in Grey
      /\ "forza" \in DOMAIN patch => patch["forza"] \in Tones
  BY PatchesAreTyped
<1>4. PresetIsTyped
  BY DEF DesignIInv
<1>5. /\ "sfondo" \in DOMAIN m => m["sfondo"] \in Grey
      /\ "secondary" \in DOMAIN m => m["secondary"] \in Grey
      /\ "forza" \in DOMAIN m => m["forza"] \in Tones
  BY <1>2, <1>3, <1>4 DEF PresetIsTyped
<1>6. PresetIsTyped'
  BY <1>1, <1>5 DEF PresetIsTyped, m
<1> QED
  BY <1>1, <1>6 DEF DesignIInv

LEMMA BuildKeeps == ASSUME DesignIInv, BuildTheme PROVE DesignIInv'
<1> DEFINE o == Aspect(preset).overrides
           p == [t \in Tones |-> ComputePalette(t, brand, o)]
<1>1. phase = "design" /\ brand' = brand /\ preset' = preset
  BY DEF BuildTheme
<1>2. \/ phase' = "refused" /\ palette' = palette
      \/ phase' = "built" /\ palette' = p
         /\ warnings' = AuditPalette(p, AuditedTones) \cup (IF o.text # {} THEN AuditText(p, AuditedTones) ELSE {})
  BY DEF BuildTheme
<1>3. PresetIsTyped' /\ brand' \in Grey /\ palette = <<>>
  BY <1>1 DEF PresetIsTyped, DesignIInv
<1>4. AuditedTones' = AuditedTones /\ o' = o
  BY <1>1 DEF AuditedTones
<1>5. CASE phase' = "refused" /\ palette' = palette
  BY <1>3, <1>5 DEF DesignIInv
<1>6. CASE phase' = "built" /\ palette' = p
           /\ warnings' = AuditPalette(p, AuditedTones) \cup (IF o.text # {} THEN AuditText(p, AuditedTones) ELSE {})
  <2>1. palette' = [t \in Tones |-> ComputePalette(t, brand', o')]
    BY <1>1, <1>4, <1>6
  <2>2. PaletteIsBuilt'
    <3> HIDE DEF o, p
    <3> QED
      BY <1>4, <1>6, <2>1 DEF PaletteIsBuilt, o
  <2> QED
    BY <1>3, <1>6, <2>2 DEF DesignIInv
<1> QED
  BY <1>2, <1>5, <1>6

\* Once it is built nothing is computed again.
LEMMA ShowingKeeps ==
  ASSUME DesignIInv, UNCHANGED <<preset, brand, palette, warnings>>,
         phase \in {"built", "served", "live"}, phase' \in {"served", "live"}, tone' \in AuditedTones
  PROVE  DesignIInv'
<1>1. AuditedTones' = AuditedTones
  BY DEF AuditedTones
<1>2. PaletteIsBuilt
  BY DEF DesignIInv
<1>3. PaletteIsBuilt'
  BY <1>1, <1>2 DEF PaletteIsBuilt
<1> QED
  BY <1>1, <1>3 DEF DesignIInv, PresetIsTyped

LEMMA DesignKeeps == DesignIInv /\ [DesignNext]_designVars => DesignIInv'
<1> SUFFICES ASSUME DesignIInv, [DesignNext]_designVars PROVE DesignIInv'
  OBVIOUS
<1>0. /\ AuditedTones \in SUBSET Tones
      /\ (Aspect(preset).forced # None => AuditedTones = {Aspect(preset).forced})
      /\ (Aspect(preset).forced = None => AuditedTones = Tones)
  BY AuditsAreOfTones DEF DesignIInv
<1>1. CASE \E patch \in Patches : Extend(patch)
  BY <1>1, ExtendKeeps
<1>2. CASE BuildTheme
  BY <1>2, BuildKeeps
<1>3. ASSUME NEW r \in used, ServePage(r) PROVE DesignIInv'
  <2>1. /\ phase = "built" /\ phase' = "served" /\ UNCHANGED <<preset, brand, palette, warnings>>
        /\ tone' = IF Aspect(preset).forced # None THEN Aspect(preset).forced
                   ELSE IF PrefersDarkText(brand) THEN "light" ELSE "dark"
    BY <1>3 DEF ServePage
  <2>2. tone' \in AuditedTones
    BY <1>0, <2>1 DEF Tones
  <2> QED
    BY <2>1, <2>2, ShowingKeeps
<1>4. ASSUME NEW os \in Tones, TakePreference(os) PROVE DesignIInv'
  <2>1. /\ phase \in {"served", "live"} /\ phase' = "live" /\ UNCHANGED <<preset, brand, palette, warnings>>
        /\ tone' = IF Aspect(preset).forced # None THEN tone ELSE os
    BY <1>4 DEF TakePreference
  <2>2. tone \in AuditedTones
    BY <2>1 DEF DesignIInv
  <2>3. tone' \in AuditedTones
    BY <1>0, <2>1, <2>2
  <2> QED
    BY <2>1, <2>3, ShowingKeeps
<1>5. ASSUME NEW r \in used, VisitPage(r) PROVE DesignIInv'
  <2>1. /\ phase = "live" /\ phase' = "live" /\ UNCHANGED <<preset, brand, palette, warnings, tone>>
    BY <1>5 DEF VisitPage
  <2>2. tone' \in AuditedTones
    BY <2>1 DEF DesignIInv
  <2> QED
    BY <2>1, <2>2, ShowingKeeps
<1>6. CASE UNCHANGED designVars
  BY <1>6 DEF DesignIInv, PresetIsTyped, PaletteIsBuilt, AuditedTones, designVars
<1> QED
  BY <1>1, <1>2, <1>3, <1>4, <1>5, <1>6 DEF DesignNext

\* What the invariant says of every tone that has a palette.
LEMMA TonesRead ==
  ASSUME DesignIInv, palette # <<>>, NEW t \in Tones
  PROVE  PaletteIsBuilt /\ PaletteReads(palette[t], Aspect(preset).overrides)
<1>1. PaletteIsBuilt /\ brand \in Grey /\ Overrides(Aspect(preset).overrides)
  BY AspectIsTyped DEF DesignIInv
<1>2. palette[t] = ComputePalette(t, brand, Aspect(preset).overrides)
  BY <1>1 DEF PaletteIsBuilt
<1> QED
  BY <1>1, <1>2, PaletteOfATone

LEMMA NoTextIsSet == Aspect(preset).overrides.text = {} <=> "testo" \notin DOMAIN preset
BY DEF Aspect, Colour

LEMMA DerivedReads == DesignIInv => DerivedTextReads
<1> SUFFICES ASSUME DesignIInv, palette # <<>>, NEW t \in Tones
             PROVE  LET p == palette[t]
                        surfaces == Range(p.surfaces)
                        derived == {p.emphasis, p.mutedText, p.link, p.primaryFg, p.secondaryText}
                                   \cup (IF "testo" \notin DOMAIN preset THEN {p.text, p.heading} ELSE {})
                    IN /\ \A fg \in derived : /\ ReadsOn(fg, surfaces, MinText)
                                              /\ SomeTextReads(surfaces, TargetText) => ReadsOn(fg, surfaces, TargetText)
                       /\ Contrasts(p.navText, p.navBg, MinText)
  BY DEF DerivedTextReads
<1> DEFINE p == palette[t]
           S == Range(p.surfaces)
<1>1. PaletteReads(p, Aspect(preset).overrides)
  BY TonesRead
<1> HIDE DEF p
<1>2. S \in SUBSET Grey /\ SomeTextReads(S, MinText) /\ Contrasts(p.navText, p.navBg, MinText)
  BY <1>1 DEF PaletteReads
<1>3. \A fg \in {p.emphasis, p.mutedText, p.link, p.primaryFg, p.secondaryText} : Suits(fg, S, TargetText)
  BY <1>1 DEF PaletteReads
<1>4. "testo" \notin DOMAIN preset => Suits(p.text, S, TargetText) /\ Suits(p.heading, S, TargetText)
  BY <1>1, NoTextIsSet DEF PaletteReads
<1> HIDE DEF S
<1> DEFINE derived == {p.emphasis, p.mutedText, p.link, p.primaryFg, p.secondaryText}
                      \cup (IF "testo" \notin DOMAIN preset THEN {p.text, p.heading} ELSE {})
<1>5. \A fg \in derived : Suits(fg, S, TargetText)
  BY <1>3, <1>4
<1> HIDE DEF derived
<1>6. \A fg \in derived : /\ ReadsOn(fg, S, MinText)
                          /\ SomeTextReads(S, TargetText) => ReadsOn(fg, S, TargetText)
  BY <1>2, <1>5, SuitsReads
<1> QED
  BY <1>2, <1>6 DEF p, S, derived

LEMMA EdgesAreSeen == DesignIInv => EdgesStandOut
BY TonesRead DEF EdgesStandOut, PaletteReads

LEMMA SilentToneReads ==
  ASSUME DesignIInv, phase \in {"served", "live"}
  PROVE  Quiet(tone)
<1>1. tone \in AuditedTones /\ tone \in Tones /\ PaletteIsBuilt
  BY AuditsAreOfTones DEF DesignIInv
<1>2. palette # <<>>
  <2>1. DOMAIN palette = Tones /\ "light" \in Tones /\ "light" \notin DOMAIN <<>>
    BY <1>1 DEF PaletteIsBuilt, Tones
  <2> QED
    BY <2>1
<1> DEFINE p == palette[tone]
           o == Aspect(preset).overrides
           S == Range(p.surfaces)
           sheet == {p.surfaces[1], p.surfaces[2]}
<1>3. PaletteReads(p, o)
  BY <1>1, <1>2, TonesRead
<1>4. <<"text", tone>> \notin warnings => ReadsOn(p.text, S, MinText) /\ ReadsOn(p.heading, S, MinText)
  <2>1. CASE o.text = {}
    <3>1. Suits(p.text, S, TargetText) /\ Suits(p.heading, S, TargetText) /\ S \in SUBSET Grey /\ SomeTextReads(S, MinText)
      BY <1>3, <2>1 DEF PaletteReads
    <3> HIDE DEF S, p
    <3> QED
      BY <3>1, SuitsReads
  <2>2. CASE o.text # {}
    <3>1. <<"text", tone>> \notin AuditText(palette, AuditedTones) \/ <<"text", tone>> \in warnings
      BY <1>1, <2>2 DEF PaletteIsBuilt
    <3>2. ~(ReadsOn(p.text, S, MinText) /\ ReadsOn(p.heading, S, MinText)) => <<"text", tone>> \in AuditText(palette, AuditedTones)
      <4> HIDE DEF p, S
      <4>1. ASSUME ~(ReadsOn(p.text, S, MinText) /\ ReadsOn(p.heading, S, MinText))
            PROVE  \E fg \in {p.text, p.heading} : ~ReadsOn(fg, S, MinText)
        BY <4>1
      <4> QED
        BY <1>1, <4>1 DEF AuditText, p, S
    <3> QED
      BY <3>1, <3>2
  <2> QED
    BY <2>1, <2>2
<1>5. <<"fill", tone>> \notin warnings => ReadsOn(p.secondary, sheet, MinUi)
  <2>1. ~ReadsOn(p.secondary, sheet, MinUi) => <<"fill", tone>> \in AuditPalette(palette, AuditedTones)
    BY <1>1 DEF AuditPalette
  <2>2. AuditPalette(palette, AuditedTones) \subseteq warnings
    BY <1>1 DEF PaletteIsBuilt
  <2> QED
    BY <2>1, <2>2
<1>6. <<"text", tone>> \notin warnings => Contrasts(NavColours(tone).fg, NavColours(tone).bg, MinText)
  <2>1. Contrasts(p.navText, p.navBg, MinText) /\ p.surfaces[1] \in S
    BY <1>3 DEF PaletteReads
  <2>2. ReadsOn(p.text, S, MinText) => Contrasts(p.text, p.surfaces[1], MinText)
    BY <2>1 DEF ReadsOn
  <2> QED
    BY <1>4, <2>1, <2>2 DEF NavColours
<1> QED
  BY <1>4, <1>5, <1>6 DEF Quiet

\* DesignSafe, for any brands, patches and roles: whatever a design system asks for, the text the
\* engine derives reads, what has an edge is seen, and no page is shown in a tone whose own
\* colours the build has not looked at (appearance.service.ts, generate-statics.ts).
THEOREM ColoursAreReadable == DesignSpec => []DesignSafe
<1>1. DesignInit => DesignIInv
  BY DesignStarts
<1>2. DesignIInv /\ [DesignNext]_designVars => DesignIInv'
  BY DesignKeeps
<1>3. DesignIInv => DesignSafe
  BY DerivedReads, EdgesAreSeen, SilentToneReads DEF DesignSafe, PagesWereAudited
<1> QED
  BY <1>1, <1>2, <1>3, PTL DEF DesignSpec

=============================================================================
