---------------------------- MODULE ProjectSetup ----------------------------
(***************************************************************************)
(* setup.mjs: the project is named after its template and, if its owner    *)
(* says so, emptied of the demo, checked and committed.  The script writes *)
(* one file after the other with nothing that brings them back, may be     *)
(* stopped or throw at each of them, and may be launched again, with       *)
(* another name, on what it left and on what the owner wrote meanwhile.    *)
(* Where it does not find what it should take out it warns and goes on.    *)
(***************************************************************************)
EXTENDS Naturals, Sequences, FiniteSets, SequencesExt

CONSTANTS
  Names,        \* what may be given as the name of the project, "" for nothing
  Slug, Pascal, \* toSlug and toPascal of each name
  Checks,       \* the static checks of runChecks
  MaxLaunches, MaxEdits \* bounds: launches, edits of the owner

VARIABLES
  step,     \* where the launch is in Steps, 0 when none runs
  name,     \* the name it was given
  said,     \* what the last launch ended with: "none", "done" where it found nothing to do
  launches, edits,
  settings, \* global-settings.json: [name, features], features "template", "off" or "own"
  local,    \* the launch that generated the keys of global-settings.local.json, 0 for no file
  package,  \* the name in package.json and in ngsw-config.json, by file
  solutions,\* the .sln files
  content,  \* of each file the ceremony touches: which of "demo" and "own" is in it
  skipped,  \* history: the files where the last ceremony did not take out what it looked for
  template, \* the files that only the template has, among TemplateFiles
  driver,   \* git config merge.ours.driver
  commits   \* [name, results of the checks]

setupVars == <<step, name, said, launches, edits, settings, local, package, solutions, content, skipped, template, driver, commits>>
disk == <<settings, local, package, solutions, content, skipped, template>>

\* The files ejectDemo writes again or removes, and those it only takes blocks or entries from.
Rewritten == {"site.ts", "nav.ts", "home", "addon", "BaseController", "identity", "store", "social"}
Stripped == {"Program.cs", "api.service", "che-faccio", "mapping"}
\* SECURITY.md stays: it is its heading that belongs to the template.
TemplateFiles == {"README", "CODE_OF_CONDUCT", "CONTRIBUTING", "SECURITY"}

Baptism == <<"settings", "local", "package.json", "ngsw-config", "sln", "ask">>
Eject == <<"site.ts", "nav.ts", "home", "addon", "BaseController", "identity", "store", "Program.cs",
           "api.service", "social", "che-faccio", "mapping">>
Steps == Baptism \o Eject \o <<"README", "CODE_OF_CONDUCT", "CONTRIBUTING", "SECURITY", "checks", "commit">>

SetupInit ==
  /\ step = 0 /\ name = "" /\ said = "none" /\ launches = 0 /\ edits = 0
  /\ settings = [name |-> "App", features |-> "template"]
  /\ local = 0
  /\ package = [f \in {"package.json", "ngsw-config"} |-> "app"]
  /\ solutions = {"App"}
  /\ content = [f \in Rewritten \cup Stripped |-> {"demo"}]
  /\ skipped = {} /\ template = TemplateFiles
  /\ driver = FALSE /\ commits = <<>>

\* The showcase README is what only the ceremony removes.
Initialized == "README" \notin template

\* main, up to the name: on the command line or asked for.  Where git is not there, or no
\* repository yet, the driver stays as it is and nothing is said.
Launch(n) ==
  /\ step = 0 /\ launches < MaxLaunches
  /\ launches' = launches + 1
  /\ IF Initialized
     THEN said' = "done" /\ UNCHANGED <<step, name, skipped, driver>>
     ELSE /\ said' = "none" /\ skipped' = {} /\ driver' \in {driver, TRUE}
          /\ IF n = "" THEN UNCHANGED <<step, name>> ELSE step' = 1 /\ name' = n
  /\ UNCHANGED <<edits, settings, local, package, solutions, content, template, commits>>

At(s) == step > 0 /\ Steps[step] = s
Onward == step' = step + 1 /\ UNCHANGED <<name, said, launches, edits, driver>>
LaunchOver == step' = 0 /\ name' = "" /\ UNCHANGED <<said, launches, edits, driver>>

\* 1. The first "name" of the file, whatever it is, and every feature switched off.
NameProject ==
  /\ At("settings") /\ Onward
  /\ settings' = [name |-> name, features |-> "off"]
  /\ UNCHANGED <<local, package, solutions, content, skipped, template, commits>>
\* A slip in which the keys are made at each launch.
AlwaysKeys ==
  /\ At("local") /\ Onward
  /\ local' = launches
  /\ UNCHANGED <<settings, package, solutions, content, skipped, template, commits>>
\* 2. The keys, generated unless the file is there.
GenerateKeys ==
  /\ At("local") /\ Onward
  /\ local' = IF local = 0 THEN launches ELSE local
  /\ UNCHANGED <<settings, package, solutions, content, skipped, template, commits>>
\* 3. Only the name "app" is replaced.
NamePackages ==
  \E f \in DOMAIN package :
    /\ At(f) /\ Onward
    /\ package' = [package EXCEPT ![f] = IF @ = "app" THEN Slug[name] ELSE @]
    /\ UNCHANGED <<settings, local, solutions, content, skipped, template, commits>>
\* 4. App.sln, where it still is and its new name is free.
RenameSolution ==
  /\ At("sln") /\ Onward
  /\ solutions' = IF "App" \in solutions /\ Pascal[name] \notin solutions
                  THEN (solutions \ {"App"}) \cup {Pascal[name]} ELSE solutions
  /\ UNCHANGED <<settings, local, package, content, skipped, template, commits>>
\* 5. "Procedo? [s/N]", and the holder of the data, who may be left empty.
Answer(yes) ==
  /\ At("ask") /\ UNCHANGED <<disk, commits>>
  /\ IF yes THEN Onward ELSE LaunchOver

\* ejectDemo, file by file.  Of a file that is only stripped, the markers of its demo may not be
\* found (editFile, stripDemoBlocks), or the mapping be absent or fail to be read or written: it
\* stays as it is, and the ceremony goes on.
EjectFile ==
  \E f \in Rewritten \cup Stripped :
    /\ At(f) /\ Onward
    /\ \/ /\ content' = [content EXCEPT ![f] = IF f \in Rewritten THEN {} ELSE @ \ {"demo"}]
          /\ UNCHANGED skipped
       \/ /\ f \in Stripped
          /\ skipped' = skipped \cup {f} /\ UNCHANGED content
    /\ UNCHANGED <<settings, local, package, solutions, template, commits>>
\* 6 and 7. What only the template needs; SECURITY.md is left where its heading is not found.
RemoveTemplateFile ==
  \E f \in TemplateFiles :
    /\ At(f) /\ Onward
    /\ template' = template \ {f} \/ (f = "SECURITY" /\ UNCHANGED template)
    /\ UNCHANGED <<settings, local, package, solutions, content, skipped, commits>>

\* runChecks: a check whose tool is missing (2) stops nothing, without node_modules none is run.
Passed(results) == \A c \in Checks : results[c] # "failed"
\* 8 and 9. The gate, and the commit, which git may refuse.
RunChecks(results) ==
  /\ At("checks") /\ UNCHANGED <<disk, commits>>
  /\ IF Passed(results) THEN Onward ELSE LaunchOver
Commit(ok) ==
  /\ At("commit") /\ LaunchOver /\ UNCHANGED disk
  /\ commits' = IF ok THEN Append(commits, name) ELSE commits

\* The script stopped by hand at any step, or an error thrown (main().catch) at any but the
\* mapping's, which catches its own and goes on: EjectFile.
Stop == step > 0 /\ LaunchOver /\ UNCHANGED <<disk, commits>>

\* The owner, between two launches: own work in any file, a feature switched on.
OwnerWrites(f) ==
  /\ step = 0 /\ edits < MaxEdits /\ edits' = edits + 1
  /\ content' = [content EXCEPT ![f] = @ \cup {"own"}]
  /\ UNCHANGED <<step, name, said, launches, settings, local, package, solutions, skipped, template, driver, commits>>
OwnerSwitches ==
  /\ step = 0 /\ edits < MaxEdits /\ edits' = edits + 1
  /\ settings' = [settings EXCEPT !.features = "own"]
  /\ UNCHANGED <<step, name, said, launches, local, package, solutions, content, skipped, template, driver, commits>>

SetupNext ==
  \/ \E n \in Names : Launch(n)
  \/ NameProject \/ GenerateKeys \/ NamePackages \/ RenameSolution
  \/ \E yes \in BOOLEAN : Answer(yes)
  \/ EjectFile \/ RemoveTemplateFile
  \/ \E results \in [Checks -> {"ok", "skipped", "failed"}] : RunChecks(results)
  \/ \E ok \in BOOLEAN : Commit(ok)
  \/ Stop
  \/ \E f \in DOMAIN content : OwnerWrites(f)
  \/ OwnerSwitches

SetupSpec == SetupInit /\ [][SetupNext]_setupVars

-----------------------------------------------------------------------------
(* Properties *)

Emptied(f) == "demo" \in content[f] => f \in skipped
\* A project that a launch would call initialised has none of the demo left but where the
\* ceremony that took its README did not find it, or could not take it: never because a launch
\* was stopped before it came to a file, since until then a new one does all of it again.
DoneIsClean == "README" \notin template => \A f \in DOMAIN content : Emptied(f)

\* What the project has made its own outlives every later launch: its keys always, its work
\* from the ceremony on (setup.mjs:458, "niente cerimonia distruttiva ripetuta").
OwnSurvives ==
  [][/\ local # 0 => local' = local
     /\ "README" \notin template => \A f \in DOMAIN content : "own" \in content[f] => "own" \in content'[f]]_setupVars

\* Stopped and launched again at any step, the set-up neither stops short nor goes too far:
\* it is not done while there is demo it has not come to, and it takes nothing of the project's own.
SetupSafe == []DoneIsClean /\ OwnSurvives

\* What a launch has passed it has emptied or skipped, and only one that goes as far takes the
\* README.
PassedIsClean ==
  step > 0 => \A i \in 1..(step - 1) : Steps[i] \in DOMAIN content => Emptied(Steps[i])
GonePassesReadme ==
  Initialized /\ step > 0 => \E i \in 1..(step - 1) : Steps[i] = "README"
SetupIInv ==
  /\ step \in 0..Len(Steps)
  /\ content \in [Rewritten \cup Stripped -> SUBSET {"demo", "own"}]
  /\ skipped \subseteq Stripped /\ template \subseteq TemplateFiles
  /\ DOMAIN package = {"package.json", "ngsw-config"}
  /\ PassedIsClean /\ GonePassesReadme /\ DoneIsClean

\* setup.mjs:457-458, "Eject già fatto ...: niente da rifare": where a launch says so, nothing
\* of what the ceremony removes is there any more.
NothingIsLeft == said = "done" => template = {}
=============================================================================
