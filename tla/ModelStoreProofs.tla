-------------------------- MODULE ModelStoreProofs --------------------------
(***************************************************************************)
(* Theorems about ModelStore and DemandForecast for every set of trained   *)
(* versions, of builds and of inputs.                                      *)
(***************************************************************************)
EXTENDS DemandForecast, FoldTheorems, TLAPS

(***************************************************************************)
(* The strengthening says what each file-system call finds.  current.next  *)
(* holds what was copied so far, and source as a whole after the copy;     *)
(* current.previous is free until current is retired; current is free when *)
(* its successor arrives.  A seeding is only under way while current is    *)
(* unusable, and the removal of current file by file leaves files of one   *)
(* version only.                                                           *)
(***************************************************************************)
Promoting == {"clearNext", "clearPrevious", "copy", "retire", "install", "tidy"}

SourceChosen ==
  /\ at # "idle" => source \in Versions
  /\ at \in Promoting => source \in Candidates

NextAsCopied ==
  /\ at \in {"clearNext", "clearPrevious", "seedClear"} => todo = Files
  /\ at = "clearPrevious" => dir["next"] = Absent
  /\ at \in {"copy", "seedCopy"} =>
       \A f \in Files : dir["next"][f] = IF f \in todo THEN Missing ELSE source
  /\ at \in {"retire", "install", "seedDrop", "seedInstall"} =>
       dir["next"] = Holding(source)

TargetsFree ==
  /\ at \in {"copy", "retire"} => dir["previous"] = Absent
  /\ at \in {"install", "seedInstall"} => dir["current"] = Absent

SeedsUnusable ==
  at \in {"seedClear", "seedCopy", "seedDrop"} => ~Usable(dir["current"])

OneVersion == \E v \in Versions : \A f \in Files : dir["current"][f] \in {v, Missing}

IInv ==
  /\ TypeOK
  /\ OneVersion
  /\ SourceChosen
  /\ NextAsCopied
  /\ TargetsFree
  /\ SeedsUnusable

-----------------------------------------------------------------------------
(* A directory that holds a version is there.                              *)
LEMMA HoldingIsThere ==
  ASSUME NEW v \in Versions
  PROVE  Holding(v) # Absent /\ Holding(v) \in Contents /\ Absent \in Contents
<1>1. v # Missing
  BY VersionsAssumption DEF Versions
<1>2. Holding(v)["model"] = v /\ Absent["model"] = Missing
  BY DEF Holding, Absent, Files
<1> QED
  BY <1>1, <1>2 DEF Holding, Absent, Contents

LEMMA AbsentIsContents == Absent \in Contents
BY DEF Absent, Contents

\* Candidates and the starter are versions.
LEMMA VersionsHold ==
  /\ \A v \in Candidates : v \in Versions
  /\ Bundled \in Versions
BY DEF Versions

LEMMA InitIInv == Init => IInv
<1> SUFFICES ASSUME Init PROVE IInv
  OBVIOUS
<1>1. TypeOK
  BY AbsentIsContents DEF Init, TypeOK, Contents
<1>2. OneVersion
  BY VersionsHold DEF Init, OneVersion, Dirs, Absent
<1> QED
  BY <1>1, <1>2
  DEF Init, IInv, SourceChosen, NextAsCopied, TargetsFree, SeedsUnusable, Promoting

\* A step that touches no directory cannot disturb what current holds; one
\* that touches current.next or current.previous only, neither.
LEMMA UsableKept ==
  ASSUME dir'["current"] = dir["current"], build' = build
  PROVE  /\ OneVersion => OneVersion'
         /\ Usable(dir["current"])' = Usable(dir["current"])
BY DEF OneVersion, Usable

\* What arrives in current as a whole is one version.
LEMMA WholeIsOne ==
  /\ dir["current"] = Absent => OneVersion
  /\ \A v \in Versions : dir["current"] = Holding(v) => OneVersion
BY VersionsHold DEF OneVersion, Absent, Holding

-----------------------------------------------------------------------------
(* One lemma per kind of step: starting an operation, a copy, the steps    *)
(* of a promotion, those of a seeding, and those that leave the files.     *)

LEMMA BeginKeeps ==
  ASSUME IInv,
         \/ \E v \in Candidates : Promote(v)
         \/ Seed
  PROVE  IInv'
<1>1. /\ dir' = dir /\ memory' = memory
      /\ todo' = Files
      /\ source' \in Versions
      /\ at' \in {"clearNext", "seedClear"}
      /\ at' = "clearNext" => source' \in Candidates
      /\ at' = "seedClear" => ~Usable(dir["current"])
  BY VersionsHold DEF Promote, Seed
<1>2. TypeOK'
  BY <1>1 DEF IInv, TypeOK, memory
<1>3. OneVersion' /\ SeedsUnusable'
  BY <1>1, UsableKept DEF IInv, SeedsUnusable, memory
<1>4. SourceChosen' /\ NextAsCopied' /\ TargetsFree'
  BY <1>1 DEF SourceChosen, NextAsCopied, TargetsFree, Promoting
<1> QED BY <1>2, <1>3, <1>4 DEF IInv

LEMMA CopyKeeps ==
  ASSUME IInv, NEW f \in Files, Copy(f)
  PROVE  IInv'
<1>1. /\ source \in Versions /\ source' = source /\ memory' = memory
      /\ todo' = todo \ {f} /\ todo \subseteq Files /\ f \in todo
      /\ dir["next"] \in Contents
      /\ dir' = [dir EXCEPT !["next"][f] = source]
      /\ dir \in [Dirs -> Contents]
  BY DEF IInv, TypeOK, SourceChosen, Copy, Dirs
<1>2. /\ dir'["next"] = [dir["next"] EXCEPT ![f] = source]
      /\ dir'["current"] = dir["current"]
      /\ dir'["previous"] = dir["previous"]
  BY <1>1 DEF Dirs
<1>3. dir'["next"] \in Contents
  BY <1>1, <1>2 DEF Contents
<1>4. \A g \in Files : dir'["next"][g] = IF g \in todo' THEN Missing ELSE source
  BY <1>1, <1>2 DEF IInv, NextAsCopied, Copy, Contents
<1>5. todo' = {} => dir'["next"] = Holding(source)
  BY <1>3, <1>4 DEF Holding, Contents
<1>6. TypeOK'
  <2>1. dir' \in [Dirs -> Contents]
    BY <1>1, <1>2, <1>3 DEF Dirs
  <2> QED BY <1>1, <2>1 DEF IInv, TypeOK, Copy, memory
<1>7. OneVersion' /\ SeedsUnusable'
  BY <1>1, <1>2, UsableKept DEF IInv, SeedsUnusable, Copy, memory
<1>8. SourceChosen' /\ TargetsFree'
  BY <1>1, <1>2 DEF IInv, SourceChosen, TargetsFree, Copy, Promoting
<1>9. NextAsCopied'
  BY <1>1, <1>4, <1>5 DEF NextAsCopied, Copy
<1> QED BY <1>6, <1>7, <1>8, <1>9 DEF IInv

LEMMA ThreeDirs ==
  /\ "current" \in Dirs /\ "next" \in Dirs /\ "previous" \in Dirs
  /\ \A e \in Dirs \ {"next"} : e \in {"current", "previous"}
BY DEF Dirs

\* What a removal and a rename do to the three directories.
LEMMA Removal ==
  ASSUME dir \in [Dirs -> Contents], NEW d \in Dirs, NEW step, RemoveTree(d, step)
  PROVE  /\ dir' \in [Dirs -> Contents]
         /\ \A e \in Dirs \ {d} : dir'[e] = dir[e]
         /\ \A f \in Files : dir'[d][f] \in {dir[d][f], Missing}
         /\ source' = source /\ todo' = todo
         /\ at' = at \/ (at' = step /\ dir'[d] = Absent)
         /\ d # "current" => dir'["current"] = dir["current"]
         /\ d # "next" => dir'["next"] = dir["next"]
<1>1. dir[d] \in Contents
  OBVIOUS
<1>2. CASE dir[d] = Absent /\ Goto(step) /\ UNCHANGED dir
  BY <1>2 DEF Goto
<1>3. ASSUME NEW f \in Files, dir' = [dir EXCEPT ![d][f] = Missing], UNCHANGED <<at, source, todo>>
      PROVE  /\ dir' \in [Dirs -> Contents]
             /\ \A e \in Dirs \ {d} : dir'[e] = dir[e]
             /\ \A g \in Files : dir'[d][g] \in {dir[d][g], Missing}
  <2>1. dir'[d] = [dir[d] EXCEPT ![f] = Missing]
    BY <1>3
  <2>2. dir'[d] \in Contents
    BY <1>1, <2>1 DEF Contents
  <2>3. dir' \in [Dirs -> Contents]
    BY <1>3, <2>1, <2>2
  <2>4. \A g \in Files : dir'[d][g] \in {dir[d][g], Missing}
    BY <1>1, <2>1 DEF Contents
  <2> QED BY <1>3, <2>3, <2>4
<1> QED BY <1>2, <1>3, ThreeDirs DEF RemoveTree, Goto

LEMMA Renaming ==
  ASSUME dir \in [Dirs -> Contents], NEW from \in Dirs, NEW to \in Dirs,
         from # to, Rename(from, to)
  PROVE  /\ dir' \in [Dirs -> Contents]
         /\ dir'[from] = Absent
         /\ dir'[to] = dir[from]
         /\ \A e \in Dirs \ {from, to} : dir'[e] = dir[e]
BY AbsentIsContents DEF Rename

\* The end of a promotion does not touch current.
LEMMA TidyTouches ==
  ASSUME dir \in [Dirs -> Contents], Tidy
  PROVE  dir' \in [Dirs -> Contents] /\ dir'["current"] = dir["current"]
<1>1. CASE dir' = [dir EXCEPT !["next"] = Absent]
  BY <1>1, AbsentIsContents DEF Dirs
<1>2. ASSUME NEW f \in Files, dir' = [dir EXCEPT !["previous"][f] = Missing]
      PROVE  dir' \in [Dirs -> Contents] /\ dir'["current"] = dir["current"]
  <2>1. dir["previous"] \in Contents /\ dir'["previous"] = [dir["previous"] EXCEPT ![f] = Missing]
    BY <1>2 DEF Dirs
  <2>2. dir'["previous"] \in Contents
    BY <2>1 DEF Contents
  <2> QED BY <1>2, <2>1, <2>2 DEF Dirs
<1> QED BY <1>1, <1>2 DEF Tidy

LEMMA PromotionKeeps ==
  ASSUME IInv, ClearNext \/ ClearPrevious \/ Retire \/ Install \/ Tidy
  PROVE  IInv'
<1>a. dir \in [Dirs -> Contents]
  BY DEF IInv, TypeOK
<1>1. CASE ClearNext
  <2>1. /\ dir' \in [Dirs -> Contents]
        /\ dir'["current"] = dir["current"]
        /\ source' = source /\ todo' = todo /\ memory' = memory /\ at = "clearNext"
        /\ at' = at \/ (at' = "clearPrevious" /\ dir'["next"] = Absent)
    <3>1. RemoveTree("next", "clearPrevious")
      BY <1>1 DEF ClearNext
    <3> QED BY <1>a, <1>1, <3>1, Removal, ThreeDirs DEF ClearNext
  <2>2. TypeOK'
    BY <2>1 DEF IInv, TypeOK, memory
  <2>3. OneVersion' /\ SeedsUnusable'
    BY <2>1, UsableKept DEF IInv, SeedsUnusable, memory
  <2>4. SourceChosen' /\ NextAsCopied' /\ TargetsFree'
    BY <2>1 DEF IInv, SourceChosen, NextAsCopied, TargetsFree, Promoting
  <2> QED BY <2>2, <2>3, <2>4 DEF IInv
<1>2. CASE ClearPrevious
  <2>1. /\ dir' \in [Dirs -> Contents]
        /\ dir'["current"] = dir["current"]
        /\ dir'["next"] = Absent
        /\ source' = source /\ todo' = Files /\ memory' = memory /\ at = "clearPrevious"
        /\ at' = at \/ (at' = "copy" /\ dir'["previous"] = Absent)
    <3>1. RemoveTree("previous", "copy")
      BY <1>2 DEF ClearPrevious
    <3> QED BY <1>a, <1>2, <3>1, Removal, ThreeDirs DEF IInv, NextAsCopied, ClearPrevious
  <2>2. TypeOK'
    BY <2>1 DEF IInv, TypeOK, memory
  <2>3. OneVersion' /\ SeedsUnusable'
    BY <2>1, UsableKept DEF IInv, SeedsUnusable, memory
  <2>4. SourceChosen' /\ TargetsFree'
    BY <2>1 DEF IInv, SourceChosen, TargetsFree, Promoting
  <2>5. NextAsCopied'
    BY <2>1 DEF NextAsCopied, Absent
  <2> QED BY <2>2, <2>3, <2>4, <2>5 DEF IInv
<1>3. CASE Retire
  <2>1. /\ dir' \in [Dirs -> Contents]
        /\ dir'["current"] = Absent
        /\ dir'["next"] = dir["next"]
    <3>1. CASE dir["current"] = Absent
      BY <1>a, <1>3, <3>1 DEF Retire
    <3>2. CASE dir["current"] # Absent
      <4>1. Rename("current", "previous")
        BY <1>3, <3>2 DEF Retire
      <4> QED BY <1>a, <4>1, Renaming, ThreeDirs DEF Dirs
    <3> QED BY <3>1, <3>2
  <2>2. at = "retire" /\ Goto("install") /\ memory' = memory
    BY <1>3 DEF Retire
  <2>3. TypeOK'
    BY <2>1, <2>2 DEF IInv, TypeOK, Goto, memory
  <2>4. OneVersion' /\ SeedsUnusable' /\ TargetsFree'
    BY <2>1, <2>2, VersionsHold DEF OneVersion, Absent, SeedsUnusable, TargetsFree, Goto
  <2>5. SourceChosen' /\ NextAsCopied'
    BY <2>1, <2>2 DEF IInv, SourceChosen, NextAsCopied, Goto, Promoting
  <2> QED BY <2>3, <2>4, <2>5 DEF IInv
<1>4. CASE Install
  <2>1. /\ dir' \in [Dirs -> Contents]
        /\ dir'["current"] = Holding(source)
    BY <1>a, <1>4, Renaming, ThreeDirs DEF Install, IInv, NextAsCopied
  <2>2. at = "install" /\ Goto("tidy") /\ memory' = memory /\ source \in Versions
    BY <1>4 DEF Install, IInv, SourceChosen
  <2>3. TypeOK'
    BY <2>1, <2>2 DEF IInv, TypeOK, Goto, memory
  <2>4. OneVersion'
    BY <2>1, <2>2 DEF OneVersion, Holding
  <2>5. SourceChosen' /\ NextAsCopied' /\ TargetsFree' /\ SeedsUnusable'
    BY <2>2 DEF IInv, SourceChosen, NextAsCopied, TargetsFree, SeedsUnusable, Goto, Promoting
  <2> QED BY <2>3, <2>4, <2>5 DEF IInv
<1>5. CASE Tidy
  <2>1. dir' \in [Dirs -> Contents] /\ dir'["current"] = dir["current"]
    BY <1>a, <1>5, TidyTouches
  <2>2. /\ at = "tidy" /\ memory' = memory
        /\ \/ at' = at /\ source' = source /\ todo' = todo
           \/ at' = "idle" /\ source' = Missing /\ todo' = {}
    BY <1>5 DEF Tidy, Stop
  <2>3. TypeOK'
    BY <2>1, <2>2 DEF IInv, TypeOK, memory
  <2>4. OneVersion'
    BY <2>1, <2>2, UsableKept DEF IInv, memory
  <2>5. SourceChosen' /\ NextAsCopied' /\ TargetsFree' /\ SeedsUnusable'
    BY <2>2 DEF IInv, SourceChosen, NextAsCopied, TargetsFree, SeedsUnusable, Promoting
  <2> QED BY <2>3, <2>4, <2>5 DEF IInv
<1> QED BY <1>1, <1>2, <1>3, <1>4, <1>5

LEMMA SeedingKeeps ==
  ASSUME IInv, SeedClear \/ SeedDrop \/ SeedInstall
  PROVE  IInv'
<1>a. dir \in [Dirs -> Contents]
  BY DEF IInv, TypeOK
<1>1. CASE SeedClear
  <2>1. /\ dir' \in [Dirs -> Contents]
        /\ dir'["current"] = dir["current"]
        /\ source' = source /\ todo' = Files /\ memory' = memory /\ at = "seedClear"
        /\ at' = at \/ (at' = "seedCopy" /\ dir'["next"] = Absent)
    <3>1. RemoveTree("next", "seedCopy")
      BY <1>1 DEF SeedClear
    <3> QED BY <1>a, <1>1, <3>1, Removal, ThreeDirs DEF IInv, NextAsCopied, SeedClear
  <2>2. TypeOK'
    BY <2>1 DEF IInv, TypeOK, memory
  <2>3. OneVersion' /\ SeedsUnusable'
    BY <2>1, UsableKept DEF IInv, SeedsUnusable, memory
  <2>4. SourceChosen' /\ TargetsFree'
    BY <2>1 DEF IInv, SourceChosen, TargetsFree, Promoting
  <2>5. NextAsCopied'
    BY <2>1 DEF NextAsCopied, Absent
  <2> QED BY <2>2, <2>3, <2>4, <2>5 DEF IInv
<1>2. CASE SeedDrop
  <2>1. /\ dir' \in [Dirs -> Contents]
        /\ dir'["next"] = dir["next"]
        /\ \A f \in Files : dir'["current"][f] \in {dir["current"][f], Missing}
        /\ source' = source /\ todo' = todo /\ memory' = memory /\ at = "seedDrop"
        /\ at' = at \/ (at' = "seedInstall" /\ dir'["current"] = Absent)
    <3>1. RemoveTree("current", "seedInstall")
      BY <1>2 DEF SeedDrop
    <3> QED BY <1>a, <1>2, <3>1, Removal, ThreeDirs DEF SeedDrop
  <2>3. TypeOK'
    BY <2>1 DEF IInv, TypeOK, memory
  <2>4. OneVersion' /\ SeedsUnusable' /\ TargetsFree'
    <3>1. OneVersion'
      <4>1. PICK v \in Versions : \A f \in Files : dir["current"][f] \in {v, Missing}
        BY DEF IInv, OneVersion
      <4>2. \A f \in Files : dir'["current"][f] \in {v, Missing}
        BY <2>1, <4>1
      <4> QED BY <4>2 DEF OneVersion
    <3>2. ~Usable(dir["current"])'
      <4>1. ~Usable(dir["current"]) /\ build' = build
        BY <2>1 DEF IInv, SeedsUnusable, memory
      <4> QED BY <2>1, <4>1 DEF Usable, Files
    <3> QED BY <2>1, <3>1, <3>2 DEF SeedsUnusable, TargetsFree
  <2>5. SourceChosen' /\ NextAsCopied'
    BY <2>1 DEF IInv, SourceChosen, NextAsCopied, Promoting
  <2> QED BY <2>3, <2>4, <2>5 DEF IInv
<1>3. CASE SeedInstall
  <2>1. /\ dir' \in [Dirs -> Contents]
        /\ dir'["current"] = Holding(source)
        /\ source \in Versions
    BY <1>a, <1>3, Renaming, ThreeDirs DEF SeedInstall, IInv, NextAsCopied, SourceChosen
  <2>2. /\ at' = "idle" /\ source' = Missing /\ todo' = {}
        /\ build' = build /\ cached' = cached
        /\ forecasting' = TRUE /\ label' = Bundled
    BY <1>3 DEF SeedInstall, Stop
  <2>3. TypeOK'
    BY <2>1, <2>2, VersionsHold DEF IInv, TypeOK
  <2>4. OneVersion'
    BY <2>1 DEF OneVersion, Holding
  <2>5. SourceChosen' /\ NextAsCopied' /\ TargetsFree' /\ SeedsUnusable'
    BY <2>2 DEF SourceChosen, NextAsCopied, TargetsFree, SeedsUnusable, Promoting
  <2> QED BY <2>3, <2>4, <2>5 DEF IInv
<1> QED BY <1>1, <1>2, <1>3

\* Forecasts and restarts leave the directories as they are.
LEMMA MemoryKeeps ==
  ASSUME IInv, Inspect \/ Predict \/ GiveUp \/ Restart \/ UNCHANGED vars
  PROVE  IInv'
<1>a. dir'["current"] = dir["current"] /\ dir["current"] \in Contents
  BY DEF Inspect, Predict, GiveUp, Restart, vars, files, IInv, TypeOK, Dirs
<1>1. TypeOK'
  <2>1. /\ dir["current"]["manifest"] \in Versions \cup {Missing}
        /\ dir["current"]["model"] \in Versions \cup {Missing}
    BY <1>a DEF Contents, Files
  <2>2. Usable(dir["current"]) \in BOOLEAN
    BY DEF Usable
  <2>3. CASE Inspect
    BY <2>1, <2>2, <2>3 DEF IInv, TypeOK, Inspect, files
  <2>4. CASE Predict
    BY <2>1, <2>4 DEF IInv, TypeOK, Predict, files
  <2>6. CASE GiveUp
    BY <2>6 DEF IInv, TypeOK, GiveUp, files
  <2>5. CASE Restart \/ UNCHANGED vars
    BY <2>5 DEF IInv, TypeOK, Restart, Stop, vars, files, memory
  <2> QED
    BY <2>3, <2>4, <2>5, <2>6
<1>2. OneVersion'
  BY <1>a DEF IInv, OneVersion
<1>3. SourceChosen' /\ NextAsCopied' /\ TargetsFree'
  BY DEF IInv, SourceChosen, NextAsCopied, TargetsFree, Promoting,
         Inspect, Predict, GiveUp, Restart, Stop, vars, files
<1>4. SeedsUnusable'
  BY <1>a, UsableKept
  DEF IInv, SeedsUnusable, Inspect, Predict, GiveUp, Restart, Stop, vars, files, memory
<1> QED BY <1>1, <1>2, <1>3, <1>4 DEF IInv

LEMMA StepIInv == IInv /\ [Next]_vars => IInv'
BY BeginKeeps, CopyKeeps, PromotionKeeps, SeedingKeeps, MemoryKeeps DEF Next

-----------------------------------------------------------------------------
\* Only the renames and the removal for a seeding touch current.
LEMMA CurrentStays ==
  ASSUME dir \in [Dirs -> Contents],
         \/ \E v \in Candidates : Promote(v)
         \/ \E f \in Files : Copy(f)
         \/ ClearNext \/ ClearPrevious \/ Tidy
         \/ Inspect \/ Seed \/ SeedClear
         \/ Predict \/ GiveUp
         \/ Restart
  PROVE  dir'["current"] = dir["current"]
<1>1. CASE ClearNext \/ ClearPrevious \/ SeedClear
  <2>1. \/ RemoveTree("next", "clearPrevious") \/ RemoveTree("previous", "copy")
        \/ RemoveTree("next", "seedCopy")
    BY <1>1 DEF ClearNext, ClearPrevious, SeedClear
  <2> QED BY <2>1, Removal, ThreeDirs
<1>2. CASE Tidy
  BY <1>2, TidyTouches
<1>3. CASE \E f \in Files : Copy(f)
  BY <1>3 DEF Copy, Dirs
<1>4. CASE (\E v \in Candidates : Promote(v)) \/ Inspect \/ Seed \/ Predict \/ GiveUp \/ Restart
  BY <1>4 DEF Promote, Inspect, Seed, Predict, GiveUp, Restart, files
<1> QED BY <1>1, <1>2, <1>3, <1>4

\* In every reachable state the inductive invariant holds.
THEOREM InvariantHolds == Spec => []IInv
BY InitIInv, StepIInv, PTL DEF Spec

\* The types hold, whatever is interrupted.
THEOREM TypeCorrect == Spec => []TypeOK
<1>1. IInv => TypeOK
  BY DEF IInv
<1> QED BY <1>1, InvariantHolds, PTL

\* The directory of the active model never has both files of different versions,
\* it only ever receives a whole version, and only an unusable one is taken apart,
\* through any number of promotions, seedings, crashes between any two file-system
\* calls and changes of the build.
THEOREM ActiveIsWhole == Spec => CurrentIsWhole
<1> DEFINE Both == (\A f \in Files : dir["current"][f] # Missing) => dir["current"] \in Whole
           Moved == dir'["current"] # dir["current"] =>
                      \/ dir'["current"] \in {Absent} \cup Whole
                      \/ /\ ~Usable(dir["current"])
                         /\ \A f \in Files : dir'["current"][f] \in {dir["current"][f], Missing}
<1>1. IInv => Both
  <2> SUFFICES ASSUME IInv, \A f \in Files : dir["current"][f] # Missing
               PROVE  dir["current"] \in Whole
    OBVIOUS
  <2>1. PICK v \in Versions : \A f \in Files : dir["current"][f] \in {v, Missing}
    BY DEF IInv, OneVersion
  <2>2. dir["current"] \in Contents
    BY DEF IInv, TypeOK, Dirs
  <2>3. dir["current"] = Holding(v)
    BY <2>1, <2>2 DEF Holding, Contents
  <2> QED BY <2>3 DEF Whole
<1>2. IInv /\ [Next]_vars => [Moved]_vars
  <2> SUFFICES ASSUME IInv, Next, dir'["current"] # dir["current"]
               PROVE  \/ dir'["current"] \in {Absent} \cup Whole
                      \/ /\ ~Usable(dir["current"])
                         /\ \A f \in Files : dir'["current"][f] \in {dir["current"][f], Missing}
    OBVIOUS
  <2>a. dir \in [Dirs -> Contents]
    BY DEF IInv, TypeOK
  <2>1. Retire \/ Install \/ SeedDrop \/ SeedInstall
    BY <2>a, CurrentStays DEF Next
  <2>2. CASE Retire
    <3>1. Rename("current", "previous")
      BY <2>2 DEF Retire
    <3> QED BY <2>a, <3>1, Renaming, ThreeDirs
  <2>3. CASE Install \/ SeedInstall
    <3>1. dir'["current"] = Holding(source) /\ source \in Versions
      BY <2>a, <2>3, Renaming, ThreeDirs
      DEF Install, SeedInstall, IInv, NextAsCopied, SourceChosen
    <3> QED BY <3>1 DEF Whole
  <2>4. CASE SeedDrop
    <3>1. ~Usable(dir["current"])
      BY <2>4 DEF SeedDrop, IInv, SeedsUnusable
    <3>2. RemoveTree("current", "seedInstall")
      BY <2>4 DEF SeedDrop
    <3> QED BY <2>a, <3>1, <3>2, Removal, ThreeDirs
  <2> QED BY <2>1, <2>2, <2>3, <2>4
<1> QED BY <1>1, <1>2, InvariantHolds, PTL DEF Spec, CurrentIsWhole

\* No rename of a promotion or a seeding can fail for a missing source or an
\* existing target.
THEOREM NoRenameFails == Spec => []RenamesSucceed
<1>1. IInv => RenamesSucceed
  <2> SUFFICES ASSUME IInv PROVE RenamesSucceed
    OBVIOUS
  <2>1. at \in {"install", "seedInstall"} => dir["next"] # Absent
    BY HoldingIsThere DEF IInv, NextAsCopied, SourceChosen
  <2> QED BY <2>1 DEF IInv, RenamesSucceed, CanRename, TargetsFree
<1> QED BY <1>1, InvariantHolds, PTL

\* A usable model is only moved out of its place when a trained successor is
\* whole beside it, and is kept as the spare copy.
THEOREM SwitchIsSafe == Spec => SwitchHasSpare
<1> DEFINE Safe == Usable(dir["current"]) /\ dir'["current"] # dir["current"] =>
                     /\ dir'["previous"] = dir["current"]
                     /\ \E v \in Candidates : dir'["next"] = Holding(v)
<1>1. IInv /\ [Next]_vars => [Safe]_vars
  <2> SUFFICES ASSUME IInv, Next, Usable(dir["current"]), dir'["current"] # dir["current"]
               PROVE  /\ dir'["previous"] = dir["current"]
                      /\ \E v \in Candidates : dir'["next"] = Holding(v)
    OBVIOUS
  <2>a. dir \in [Dirs -> Contents]
    BY DEF IInv, TypeOK
  <2>1. dir["current"] # Absent
    BY DEF Usable, Absent, Files
  <2>2. ~(Install \/ SeedInstall)
    BY <2>1 DEF IInv, TargetsFree, Install, SeedInstall
  <2>3. ~SeedDrop
    BY DEF IInv, SeedsUnusable, SeedDrop
  <2>6. Retire
    BY <2>a, <2>2, <2>3, CurrentStays DEF Next
  <2>7. Rename("current", "previous") /\ source \in Candidates /\ dir["next"] = Holding(source)
    BY <2>1, <2>6 DEF Retire, IInv, SourceChosen, NextAsCopied, Promoting
  <2>8. dir'["previous"] = dir["current"] /\ dir'["next"] = dir["next"]
    BY <2>a, <2>7, Renaming, ThreeDirs DEF Dirs
  <2> QED BY <2>7, <2>8
<1> QED BY <1>1, InvariantHolds, PTL DEF Spec, SwitchHasSpare

-----------------------------------------------------------------------------
(***************************************************************************)
(* The demand forecast uses the store by its own operations only, so what  *)
(* was proved of the store holds while forecasts are made.  While a        *)
(* forecast awaits its predictions, current is whole but between the two   *)
(* renames of a promotion, and no starter is seeded.  The model that was   *)
(* loaded for the first slot is therefore a model, and is kept.            *)
(***************************************************************************)
Seeding == {"seedClear", "seedCopy", "seedDrop", "seedInstall"}

ActiveIsThere ==
  forecasting => /\ at \notin Seeding
                 /\ at # "install" => \A f \in Files : dir["current"][f] # Missing

KeptInMemory ==
  /\ models \in Seq(Versions)
  /\ \A i \in DOMAIN models : models[i] = cached /\ cached # Missing

ForecastInv == IInv /\ ActiveIsThere /\ KeptInMemory

LEMMA StoreStep == DemandNext => [Next]_vars
BY DEF DemandNext, Begin, PredictSlot, Unpredicted, Take, Elsewhere, DemandRestart, Next

\* The store is used as it is meant to be.
THEOREM StoreIsKept == DemandSpec => Spec
<1>1. DemandInit => Init
  BY DEF DemandInit
<1>2. [DemandNext]_demandVars => [Next]_vars
  BY StoreStep DEF demandVars
<1> QED BY <1>1, <1>2, PTL DEF DemandSpec, Spec

LEMMA InitForecastInv == DemandInit => ForecastInv
<1> SUFFICES ASSUME DemandInit PROVE ForecastInv
  OBVIOUS
<1>1. IInv
  BY InitIInv DEF DemandInit
<1> QED
  BY <1>1 DEF DemandInit, Init, ForecastInv, ActiveIsThere, KeptInMemory

LEMMA StepForecastInv == ForecastInv /\ [DemandNext]_demandVars => ForecastInv'
<1> SUFFICES ASSUME ForecastInv, [DemandNext]_demandVars PROVE ForecastInv'
  OBVIOUS
<1>a. IInv'
  BY StoreStep, StepIInv DEF demandVars, ForecastInv
<1>b. dir \in [Dirs -> Contents] /\ models \in Seq(Versions)
  BY DEF ForecastInv, IInv, TypeOK, KeptInMemory
<1>1. CASE \E g \in Inputs : Begin(g)
  <2>1. models' = models /\ cached' = cached
    BY <1>1 DEF Begin, Inspect, SeedInstall
  <2>2. ActiveIsThere'
    <3>1. CASE Inspect
      BY <3>1 DEF Inspect, files, ActiveIsThere, Seeding, Usable
    <3>2. CASE SeedInstall
      <4>1. dir'["current"] = Holding(source) /\ source \in Versions
        BY <1>b, <3>2, Renaming, ThreeDirs
        DEF SeedInstall, ForecastInv, IInv, NextAsCopied, SourceChosen
      <4>2. at' = "idle"
        BY <3>2 DEF SeedInstall, Stop
      <4> QED BY <4>1, <4>2, VersionsAssumption DEF Holding, Versions, ActiveIsThere, Seeding
    <3> QED BY <1>1, <3>1, <3>2 DEF Begin
  <2> QED BY <1>a, <2>1, <2>2 DEF ForecastInv, KeptInMemory
<1>2. CASE PredictSlot
  <2>1. /\ at = "idle" /\ forecasting /\ at' = at /\ dir' = dir
        /\ cached' = IF cached # Missing THEN cached ELSE dir["current"]["model"]
        /\ models' = Append(models, cached')
    BY <1>2 DEF PredictSlot, Predict, files
  <2>2. dir["current"]["model"] \in Versions
    <3>1. dir["current"]["model"] # Missing /\ dir["current"] \in Contents
      BY <1>b, <2>1 DEF ForecastInv, ActiveIsThere, Files, Dirs
    <3> QED BY <3>1 DEF Contents, Files
  <2>3. cached' \in Versions
    BY <2>1, <2>2 DEF ForecastInv, IInv, TypeOK
  <2>4. cached' # Missing
    BY <2>3, VersionsAssumption DEF Versions
  <2>5. KeptInMemory'
    BY <1>b, <2>1, <2>3, <2>4 DEF ForecastInv, KeptInMemory
  <2> QED BY <1>a, <2>1, <2>5 DEF ForecastInv, ActiveIsThere
<1>3. CASE Unpredicted
  BY <1>3, <1>a DEF Unpredicted, GiveUp, ForecastInv, ActiveIsThere, KeptInMemory
<1>4. CASE Take
  BY <1>4, <1>a DEF Take, vars, files, memory, ForecastInv, ActiveIsThere, KeptInMemory
<1>5. CASE Elsewhere
  <2>1. models' = models /\ cached' = cached /\ forecasting' = forecasting
    BY <1>5 DEF Elsewhere, forecast, memory, Promote, Copy, ClearNext, ClearPrevious,
                Retire, Install, Tidy, Seed, SeedClear, SeedDrop
  <2>2. ActiveIsThere'
    <3> SUFFICES ASSUME forecasting PROVE ActiveIsThere'
      BY <2>1 DEF ActiveIsThere
    <3>a. /\ at \notin Seeding
          /\ at # "install" => \A f \in Files : dir["current"][f] # Missing
      BY DEF ForecastInv, ActiveIsThere
    <3>1. CASE \E v \in Candidates : Promote(v)
      BY <3>1, <3>a DEF Promote, ActiveIsThere, Seeding
    <3>2. CASE \E f \in Files : Copy(f)
      <4>1. dir'["current"] = dir["current"]
        BY <1>b, <3>2 DEF Copy, Dirs
      <4> QED BY <3>2, <3>a, <4>1 DEF Copy, ActiveIsThere, Seeding
    <3>3. CASE ClearNext \/ ClearPrevious
      <4>1. /\ dir'["current"] = dir["current"]
            /\ at \in {"clearNext", "clearPrevious"}
            /\ at' \in {at, "clearPrevious", "copy"}
        <5>1. \/ RemoveTree("next", "clearPrevious") /\ at = "clearNext"
              \/ RemoveTree("previous", "copy") /\ at = "clearPrevious"
          BY <3>3 DEF ClearNext, ClearPrevious
        <5> QED BY <1>b, <5>1, Removal, ThreeDirs
      <4> QED BY <3>a, <4>1 DEF ActiveIsThere, Seeding
    <3>4. CASE Retire
      BY <3>4 DEF Retire, Goto, ActiveIsThere, Seeding
    <3>5. CASE Install
      <4>1. dir'["current"] = Holding(source) /\ source \in Versions
        BY <1>b, <3>5, Renaming, ThreeDirs
        DEF Install, ForecastInv, IInv, NextAsCopied, SourceChosen
      <4> QED
        BY <3>5, <4>1, VersionsAssumption
        DEF Holding, Versions, Install, Goto, ActiveIsThere, Seeding
    <3>6. CASE Tidy
      <4>1. dir'["current"] = dir["current"]
        BY <1>b, <3>6, TidyTouches
      <4> QED BY <3>6, <3>a, <4>1 DEF Tidy, Stop, ActiveIsThere, Seeding
    <3>7. CASE Seed \/ SeedClear \/ SeedDrop
      BY <3>7, <3>a DEF Seed, SeedClear, SeedDrop, Seeding
    <3> QED BY <1>5, <3>1, <3>2, <3>3, <3>4, <3>5, <3>6, <3>7 DEF Elsewhere
  <2> QED BY <1>a, <2>1, <2>2 DEF ForecastInv, KeptInMemory
<1>6. CASE DemandRestart
  BY <1>6, <1>a DEF DemandRestart, Restart, ForecastInv, ActiveIsThere, KeptInMemory
<1>7. CASE UNCHANGED demandVars
  BY <1>7, <1>a
  DEF demandVars, forecast, vars, files, memory, ForecastInv, ActiveIsThere, KeptInMemory
<1> QED BY <1>1, <1>2, <1>3, <1>4, <1>5, <1>6, <1>7 DEF DemandNext

\* However promotions, seedings, crashes and forecasts interleave, the slots of a
\* forecast are all predicted by one model.
THEOREM OneModelPredicts == DemandSpec => []OneModelThroughout
<1>1. ForecastInv => OneModelThroughout
  BY DEF ForecastInv, KeptInMemory, OneModelThroughout
<1> QED BY <1>1, InitForecastInv, StepForecastInv, PTL DEF DemandSpec
-----------------------------------------------------------------------------
(***************************************************************************)
(* What is told of a forecast stays true until the run takes the forecast: *)
(* while it is there no model answers and nothing of the store moves.      *)
(***************************************************************************)
ByModel ==
  /\ label \in Versions
  /\ entries = ModelForecast[given][label]
  /\ told = Serving(label)

\* The fallback for the reason given by how.
Instead(how) ==
  /\ entries = Fallback[given]
  /\ told = ToldFallback(how, FallbackMethod(given))

ToldInv ==
  /\ forecasting => entries = <<>> /\ given \in Inputs /\ label \in Versions
  /\ entries # <<>> =>
       /\ given \in Inputs
       /\ \/ ByModel
          \/ Instead(Inspected) /\ ~Usable(dir["current"])
          \/ Instead(Blocked(label)) /\ ~catboost /\ label \in Versions

LEMMA StepToldInv == IInv /\ ToldInv /\ [DemandNext]_demandVars => ToldInv'
<1> SUFFICES ASSUME IInv, ToldInv, [DemandNext]_demandVars PROVE ToldInv'
  OBVIOUS
<1>1. ASSUME NEW g \in Inputs, Begin(g) PROVE ToldInv'
  <2>1. entries = <<>>
    BY <1>1 DEF Begin
  <2>2. CASE forecasting'
    <3>1. given' = g /\ entries' = <<>>
      BY <1>1, <2>1, <2>2 DEF Begin
    <3>2. label' \in Versions
      <4>1. CASE Inspect
        BY <2>2, <4>1 DEF Inspect, Usable, IInv, TypeOK, Contents, Dirs, Files
      <4>2. CASE SeedInstall
        BY <4>2 DEF SeedInstall, Versions
      <4> QED BY <1>1, <4>1, <4>2 DEF Begin
    <3> QED BY <1>1, <3>1, <3>2 DEF ToldInv
  <2>3. CASE ~forecasting'
    <3>1. Inspect /\ FallBack(g, Inspected)
      BY <1>1, <2>3 DEF Begin, SeedInstall
    <3>2. dir' = dir /\ build' = build /\ ~Usable(dir["current"])
      BY <2>3, <3>1 DEF Inspect, files
    <3>3. Inspected' = Inspected /\ ~Usable(dir["current"])'
      BY <3>2 DEF Inspected, Usable
    <3>4. /\ given' = g /\ entries' = Fallback[g]
          /\ told' = ToldFallback(Inspected, FallbackMethod(g))
      BY <3>1 DEF FallBack
    <3>5. Instead(Inspected)'
      BY <3>3, <3>4 DEF Instead, Fallback, FallbackMethod, ToldFallback
    <3> QED BY <1>1, <2>3, <3>3, <3>4, <3>5 DEF ToldInv
  <2> QED BY <2>2, <2>3
<1>2. CASE PredictSlot
  <2>1. /\ forecasting /\ entries = <<>> /\ given \in Inputs /\ label \in Versions
        /\ given' = given /\ label' = label
    BY <1>2 DEF PredictSlot, Predict, ToldInv
  <2>2. CASE forecasting'
    BY <1>2, <2>1, <2>2 DEF PredictSlot, ToldInv
  <2>3. CASE ~forecasting'
    <3>1. entries' = ModelForecast[given][label] /\ told' = Serving(label)
      BY <1>2, <2>3 DEF PredictSlot
    <3>2. ByModel'
      BY <2>1, <3>1 DEF ByModel, Serving, ModelForecast
    <3> QED BY <2>1, <2>3, <3>2 DEF ToldInv
  <2> QED BY <2>2, <2>3
<1>3. CASE Unpredicted
  <2>1. /\ given \in Inputs /\ label \in Versions /\ ~forecasting'
        /\ label' = label /\ ~catboost /\ catboost' = catboost
    BY <1>3 DEF Unpredicted, GiveUp, ToldInv
  <2>2. /\ given' = given /\ entries' = Fallback[given]
        /\ told' = ToldFallback(Blocked(label), FallbackMethod(given))
    BY <1>3 DEF Unpredicted, FallBack
  <2>3. Instead(Blocked(label))'
    BY <2>1, <2>2 DEF Instead, Blocked, Fallback, FallbackMethod, ToldFallback
  <2> QED BY <2>1, <2>2, <2>3 DEF ToldInv
<1>4. CASE Take
  <2>1. ~forecasting /\ forecasting' = forecasting /\ entries' = <<>>
    BY <1>4 DEF Take, ToldInv, vars, memory
  <2> QED BY <2>1 DEF ToldInv
<1>5. CASE Elsewhere
  <2>1. /\ forecasting' = forecasting /\ label' = label /\ given' = given
        /\ entries = <<>> /\ entries' = entries
    BY <1>5 DEF Elsewhere, forecast, memory, Promote, Copy, ClearNext, ClearPrevious,
                Retire, Install, Tidy, Seed, SeedClear, SeedDrop
  <2> QED BY <2>1 DEF ToldInv
<1>6. CASE DemandRestart
  BY <1>6 DEF DemandRestart, Restart, ToldInv
<1>7. CASE UNCHANGED demandVars
  <2>1. /\ forecasting' = forecasting /\ label' = label /\ given' = given /\ dir' = dir
        /\ entries' = entries /\ told' = told /\ catboost' = catboost /\ build' = build
    BY <1>7 DEF demandVars, forecast, vars, files, memory
  <2>2. ByModel' = ByModel
    BY <2>1 DEF ByModel, Serving, ModelForecast
  <2>3. Instead(Inspected)' = Instead(Inspected) /\ Usable(dir["current"])' = Usable(dir["current"])
    BY <2>1 DEF Instead, Inspected, Usable, Fallback, FallbackMethod, ToldFallback
  <2>4. Instead(Blocked(label))' = Instead(Blocked(label))
    BY <2>1 DEF Instead, Blocked, Fallback, FallbackMethod, ToldFallback
  <2> QED BY <2>1, <2>2, <2>3, <2>4 DEF ToldInv
<1> QED BY <1>1, <1>2, <1>3, <1>4, <1>5, <1>6, <1>7 DEF DemandNext

\* A forecast's entries all carry one method and one version.
LEMMA EntriesAlike ==
  ASSUME NEW c, NEW powers, NEW method, NEW version,
         NEW k \in DOMAIN Entries(c, powers, method, version)
  PROVE  /\ Entries(c, powers, method, version)[k].method = method
         /\ Entries(c, powers, method, version)[k].version = version
BY DEF Entries

LEMMA ToldInvImplies == IInv /\ ToldInv => ToldAsMade
<1> SUFFICES ASSUME IInv, ToldInv, entries # <<>> PROVE ToldAsMade
  BY DEF ToldAsMade
<1>a. given \in Inputs
  BY DEF ToldInv
<1>1. CASE ByModel
  <2>1. label \in Versions /\ entries = ModelForecast[given][label] /\ told = Serving(label)
    BY <1>1 DEF ByModel
  <2>2. \E c, powers : entries = Entries(c, powers, "catboost", label)
    BY <1>a, <2>1 DEF ModelForecast
  <2>3. \A k \in DOMAIN entries : entries[k].method = "catboost" /\ entries[k].version = label
    BY <2>2, EntriesAlike
  <2> QED BY <2>1, <2>3 DEF ToldAsMade, Serving
<1>2. ASSUME NEW how, Instead(how)
      PROVE  /\ told = ToldFallback(how, FallbackMethod(given))
             /\ \A k \in DOMAIN entries : /\ entries[k].method = FallbackMethod(given)
                                          /\ entries[k].version = Missing
  <2>1. entries = Fallback[given] /\ told = ToldFallback(how, FallbackMethod(given))
    BY <1>2 DEF Instead
  <2>2. \E c, powers : entries = Entries(c, powers, FallbackMethod(given), Missing)
    BY <1>a, <2>1 DEF Fallback
  <2> QED BY <2>1, <2>2, EntriesAlike
<1>3. FallbackMethod(given) \in {"hybrid", "cold"}
  BY DEF FallbackMethod
<1>4. CASE Instead(Inspected) /\ ~Usable(dir["current"])
  <2>1. /\ told.method = FallbackMethod(given)
        /\ told.reason = Inspected.reason
    BY <1>2, <1>4 DEF ToldFallback, Inspected
  <2>2. Inspected.reason = "noArtifact" => \E f \in Files : dir["current"][f] = Missing
    BY DEF Inspected
  <2>3. Inspected.reason = "mismatch" => dir["current"]["manifest"] \notin build.accepts
    BY <1>4 DEF Inspected, Usable
  <2>4. Inspected.reason \in {"noArtifact", "mismatch"}
    BY DEF Inspected
  <2> HIDE DEF Inspected
  <2> QED BY <1>2, <1>3, <1>4, <2>1, <2>2, <2>3, <2>4 DEF ToldAsMade
<1>5. CASE Instead(Blocked(label)) /\ ~catboost /\ label \in Versions
  <2>1. /\ told.method = FallbackMethod(given) /\ told.reason = "noRuntime"
        /\ told.version = label
    BY <1>2, <1>5 DEF ToldFallback, Blocked
  <2>2. label # Missing
    BY <1>5, VersionsAssumption DEF Versions
  <2> QED BY <1>2, <1>3, <1>5, <2>1, <2>2 DEF ToldAsMade
<1> QED BY <1>1, <1>4, <1>5 DEF ToldInv

\* Whatever is promoted, seeded or restarted meanwhile, what the service tells of
\* the last forecast (lastRuntimeMetadata) is how it was made and why.
THEOREM ToldOfForecast == DemandSpec => []ToldAsMade
<1>1. DemandInit => ToldInv
  BY DEF DemandInit, Init, ToldInv
<1>2. IInv /\ ToldInv => ToldAsMade
  BY ToldInvImplies
<1>3. ForecastInv => IInv
  BY DEF ForecastInv
<1> QED
  BY <1>1, <1>2, <1>3, InitForecastInv, StepForecastInv, StepToldInv, PTL DEF DemandSpec

-----------------------------------------------------------------------------
(***************************************************************************)
(* What the powers of a forecast are.  Means of the history lie between    *)
(* what they are the means of; a house that always used the same has that  *)
(* as each of them and as each neighbour; and the shape a model's forecast *)
(* is given permutes the reference.                                        *)
(***************************************************************************)

LEMMA ClampIs ==
  ASSUME NEW p \in Int
  PROVE  Clamp(p) = IF p < LeastLoad THEN LeastLoad ELSE IF p > MostLoad THEN MostLoad ELSE p
<1>1. LeastLoad \in Int /\ MostLoad \in Int /\ LeastLoad <= MostLoad
  BY PowerAssumption
<1>2. PICK m \in Int : m = Min({p, MostLoad}) /\ m = IF p <= MostLoad THEN p ELSE MostLoad
  BY <1>1, MinOfTwo
<1>3. Max({LeastLoad, m}) = IF LeastLoad >= m THEN LeastLoad ELSE m
  BY <1>1, MaxOfTwo
<1> QED BY <1>1, <1>2, <1>3 DEF Clamp

LEMMA ClampType ==
  ASSUME NEW p \in Int
  PROVE  Clamp(p) \in Int /\ LeastLoad <= Clamp(p) /\ Clamp(p) <= MostLoad
BY ClampIs, PowerAssumption

LEMMA ClampMonotone ==
  ASSUME NEW p \in Int, NEW q \in Int, p <= q
  PROVE  Clamp(p) <= Clamp(q)
BY ClampIs, PowerAssumption

Amid(x, a, b) == (a <= x /\ x <= b) \/ (b <= x /\ x <= a)

\* What lies between a power and its clamped value is clamped to the same.
LEMMA ClampBetween ==
  ASSUME NEW p \in Int, NEW q \in Int,
         Amid(q, p, Clamp(p))
  PROVE  Clamp(q) = Clamp(p)
BY ClampIs, PowerAssumption DEF Amid

-----------------------------------------------------------------------------
(* Means                                                                   *)

\* A mean, plain or weighted, lies between the bounds of its values.
LEMMA MeanBetween ==
  ASSUME NEW D, IsFiniteSet(D), D # {}, NEW f \in [D -> Int], NEW a \in Int, NEW b \in Int,
         \A x \in D : a <= f[x] /\ f[x] <= b
  PROVE  Mean(f) \in Int /\ a <= Mean(f) /\ Mean(f) <= b
<1>1. PICK n \in Nat, s \in Int :
        /\ n = Cardinality(D) /\ s = SumFunctionOnSet(f, D)
        /\ a * n <= s /\ s <= b * n
  BY SumBetween
<1>2. n > 0
  BY <1>1, FS_EmptySet
<1>3. (b + 1) * n = b * n + n /\ b * n \in Int
  OBVIOUS
<1>4. s < (b + 1) * n
  BY <1>1, <1>2, <1>3
<1>5. s \div n \in Int /\ a <= s \div n /\ s \div n <= b
  BY <1>1, <1>2, <1>4, DivBetween
<1>6. Mean(f) = s \div n
  BY <1>1 DEF Mean, SumFunction
<1> QED BY <1>5, <1>6

LEMMA WeightedMeanBetween ==
  ASSUME NEW D, IsFiniteSet(D), D # {}, NEW f \in [D -> Int], NEW w \in [D -> Nat \ {0}],
         NEW a \in Int, NEW b \in Int, \A x \in D : a <= f[x] /\ f[x] <= b
  PROVE  WeightedMean(f, w) \in Int /\ a <= WeightedMean(f, w) /\ WeightedMean(f, w) <= b
<1> DEFINE v == [x \in D |-> f[x] * w[x]]
           Times(c) == [x \in D |-> c * w[x]]
<1>1. w \in [D -> Int] /\ v \in [D -> Int]
  OBVIOUS
<1>2. PICK n \in Nat : n = SumFunctionOnSet(w, D) /\ n > 0
  <2> DEFINE ones == [x \in D |-> 1]
  <2>1. ones \in [D -> Int] /\ \A x \in D : ones[x] <= w[x] /\ 1 <= ones[x] /\ ones[x] <= 1
    OBVIOUS
  <2> HIDE DEF ones
  <2>2. SumFunctionOnSet(ones, D) \in Int /\ 1 * Cardinality(D) <= SumFunctionOnSet(ones, D)
    BY <2>1, SumBetween
  <2>3. SumFunctionOnSet(ones, D) <= SumFunctionOnSet(w, D)
    BY <1>1, <2>1, SumMonotone
  <2>4. Cardinality(D) \in Nat /\ Cardinality(D) # 0
    BY FS_CardinalityType, FS_EmptySet
  <2> QED BY <1>1, <2>2, <2>3, <2>4, SumType
<1>3. PICK s \in Int : s = SumFunctionOnSet(v, D)
  BY <1>1, SumType
<1>4. ASSUME NEW c \in Int
      PROVE  /\ Times(c) \in [D -> Int] /\ SumFunctionOnSet(Times(c), D) = c * n
             /\ \A x \in D : c <= f[x] => Times(c)[x] <= v[x]
             /\ \A x \in D : f[x] <= c => v[x] <= Times(c)[x]
  <2>1. SumFunctionOnSet(Times(c), D) = c * n
    BY <1>1, <1>2, SumScaled
  <2>2. ASSUME NEW p \in Int, NEW q \in Int, NEW m \in Nat, p <= q PROVE p * m <= q * m
    BY <2>2
  <2>3. ASSUME NEW x \in D
        PROVE  /\ c <= f[x] => Times(c)[x] <= v[x]
               /\ f[x] <= c => v[x] <= Times(c)[x]
    <3>1. f[x] \in Int /\ w[x] \in Nat /\ v[x] = f[x] * w[x] /\ Times(c)[x] = c * w[x]
      OBVIOUS
    <3> HIDE DEF v, Times
    <3> QED BY <2>2, <3>1
  <2> QED BY <2>1, <2>3
<1> HIDE DEF v, Times
<1>5. a * n <= s /\ s <= b * n
  <2>1. SumFunctionOnSet(Times(a), D) <= s /\ s <= SumFunctionOnSet(Times(b), D)
    BY <1>1, <1>3, <1>4, SumMonotone
  <2> QED BY <1>4, <2>1
<1>6. s < (b + 1) * n
  <2>1. (b + 1) * n = b * n + n /\ b * n \in Int
    OBVIOUS
  <2> QED BY <1>2, <1>5, <2>1
<1>7. s \div n \in Int /\ a <= s \div n /\ s \div n <= b
  BY <1>2, <1>5, <1>6, DivBetween
<1>8. WeightedMean(f, w) = s \div n
  BY <1>2, <1>3 DEF WeightedMean, SumFunction, v
<1> QED BY <1>7, <1>8
-----------------------------------------------------------------------------
\* A set put in order, by a key that tells its elements apart
LEMMA InOrderSorts ==
  ASSUME NEW S, IsFiniteSet(S), NEW key \in [S -> Int],
         \A x, y \in S : key[x] = key[y] => x = y
  PROVE  /\ Cardinality(S) \in Nat
         /\ InOrder(S, key) \in [1 .. Cardinality(S) -> S]
         /\ ToSet(InOrder(S, key)) = S
         /\ \A i, j \in 1 .. Cardinality(S) :
              i < j => key[InOrder(S, key)[i]] < key[InOrder(S, key)[j]]
<1> DEFINE L == {q \in S \X S : key[q[1]] < key[q[2]]}
           n == Cardinality(S)
           s == InOrder(S, key)
<1>1. IsLinear(L, S)
  BY DEF IsLinear
<1>2. n \in Nat
  BY FS_CardinalityType
<1>3. ASSUME NEW x \in S
      PROVE  Cardinality({y \in S : key[y] < key[x]}) = Rank(L, S, x)
  <2>1. {y \in S : key[y] < key[x]} = Preceding(L, S, x)
    BY DEF Preceding
  <2> QED BY <2>1 DEF Rank
<1>a. /\ \A x \in S : Rank(L, S, x) \in 0 .. n - 1
      /\ \A x, y \in S : <<x, y>> \in L => Rank(L, S, x) < Rank(L, S, y)
      /\ \A k \in 0 .. n - 1 : \E x \in S : Rank(L, S, x) = k
  <2> HIDE DEF L
  <2> QED BY <1>1, RanksAreAll
<1>4. ASSUME NEW i \in 1 .. n
      PROVE  s[i] \in S /\ Rank(L, S, s[i]) = i - 1
  <2>1. i - 1 \in 0 .. n - 1
    BY <1>2
  <2>2. PICK x \in S : Rank(L, S, x) = i - 1
    BY <1>a, <2>1
  <2>3. s[i] = CHOOSE y \in S : Cardinality({z \in S : key[z] < key[y]}) = i - 1
    BY DEF InOrder
  <2>4. s[i] \in S /\ Cardinality({z \in S : key[z] < key[s[i]]}) = i - 1
    BY <1>3, <2>2, <2>3
  <2> QED BY <1>3, <2>4
<1>5. s \in [1 .. n -> S]
  <2> DEFINE Nth(i) == CHOOSE y \in S : Cardinality({z \in S : key[z] < key[y]}) = i - 1
  <2>1. s = [i \in 1 .. n |-> Nth(i)]
    BY DEF InOrder
  <2>2. \A i \in 1 .. n : Nth(i) \in S
    <3> HIDE DEF Nth
    <3> QED BY <1>4, <2>1
  <2> HIDE DEF s, Nth
  <2> QED BY <2>1, <2>2
<1>6. ASSUME NEW i \in 1 .. n, NEW j \in 1 .. n, i < j PROVE key[s[i]] < key[s[j]]
  <2> HIDE DEF s
  <2>1. s[i] \in S /\ s[j] \in S /\ Rank(L, S, s[i]) < Rank(L, S, s[j])
    BY <1>4, <1>6
  <2>2. s[i] # s[j] /\ ~(<<s[j], s[i]>> \in L)
    BY <1>a, <1>4, <1>6, <2>1
  <2> QED BY <2>1, <2>2
<1>7. ToSet(s) = S
  <2>1. ASSUME NEW x \in S PROVE \E i \in 1 .. n : s[i] = x
    <3>1. Rank(L, S, x) \in 0 .. n - 1
      BY <1>a
    <3>2. PICK i \in 1 .. n : i - 1 = Rank(L, S, x)
      <4>1. \A k \in 0 .. n - 1 : k + 1 \in 1 .. n /\ (k + 1) - 1 = k
        BY <1>2
      <4> HIDE DEF L, n
      <4> QED BY <3>1, <4>1
    <3> HIDE DEF s, L
    <3>3. s[i] \in S /\ Rank(L, S, s[i]) = Rank(L, S, x) /\ Rank(L, S, x) \in Int
      BY <1>4, <3>1, <3>2
    <3>4. ~(<<x, s[i]>> \in L) /\ ~(<<s[i], x>> \in L)
      BY <1>a, <3>3
    <3> QED BY <1>1, <3>3, <3>4 DEF IsLinear
  <2> HIDE DEF s
  <2>2. ToSet(s) = {s[i] : i \in 1 .. n}
    BY <1>5 DEF ToSet
  <2>3. \A i \in 1 .. n : s[i] \in S
    BY <1>4
  <2> HIDE DEF n
  <2> QED BY <2>1, <2>2, <2>3
<1> QED BY <1>2, <1>5, <1>6, <1>7

\* Means of integers are integers.
LEMMA MeanType ==
  ASSUME NEW D, IsFiniteSet(D), D # {}, NEW f \in [D -> Int]
  PROVE  Mean(f) \in Int
BY FiniteBounds, MeanBetween

LEMMA WeightedMeanType ==
  ASSUME NEW D, IsFiniteSet(D), D # {}, NEW f \in [D -> Int], NEW w \in [D -> Nat \ {0}]
  PROVE  WeightedMean(f, w) \in Int
BY FiniteBounds, WeightedMeanBetween
-----------------------------------------------------------------------------
\* The rows the history is made of, before they are put in order
Rows(g) == {HourRow(g, HourOf(r.at)) : r \in g.readings}

Earlier(rows, hour) == {r \in rows : LocalHour(r.hour) = LocalHour(hour)}

\* The hour of a tick, and its hour of the day
LEMMA HourType ==
  ASSUME NEW t \in Nat
  PROVE  HourOf(t) \in Nat /\ LocalHour(HourOf(t)) \in 0 .. DayHours - 1
<1>1. PICK m \in Nat, n \in Nat : m = HourTicks /\ n = DayHours /\ m > 0 /\ n > 0
  BY TimeAssumption
<1>2. t \div m \in Nat
  BY <1>1
<1>3. (t \div m) % n \in 0 .. n - 1
  BY <1>1, <1>2
<1> QED BY <1>1, <1>2, <1>3 DEF HourOf, LocalHour

\* An hour of the history: its power, what is known of it, and the weight of its age
LEMMA RowType ==
  ASSUME NEW g \in Inputs, NEW row \in Rows(g)
  PROVE  /\ row.hour \in Nat /\ row.home \in Int
         /\ row = HourRow(g, row.hour)
         /\ \A c \in DOMAIN Scale : row.known[c] \in Int
         /\ BaselineWeight[Age(g.now, row.hour)] \in Nat \ {0}
         /\ \A e \in g.eras :
              /\ NearbyWeight[Age(HourOf(e.start), row.hour)] \in Nat
              /\ 100 * NearbyWeight[Age(HourOf(e.start), row.hour)]
                   >= 475 + 200 * Cardinality(DOMAIN Scale)
<1>1. PICK r \in g.readings : row = HourRow(g, HourOf(r.at))
  BY DEF Rows
<1> DEFINE hour == HourOf(r.at)
           here == {q \in g.readings : HourOf(q.at) = hour}
<1>2. row.hour = hour /\ row.known = g.known[hour]
  BY <1>1 DEF HourRow
<1>3. hour \in Nat
  BY InputsAssumption, HourType
<1>4. row.home \in Int
  <2> DEFINE f == [q \in here |-> q.home]
  <2>1. IsFiniteSet(here) /\ f \in [here -> Int]
    BY InputsAssumption, FS_Subset
  <2>2. r \in here
    OBVIOUS
  <2>3. row.home = IF Cardinality(here) >= EnoughReadings THEN Mean(f) ELSE DefaultLoad
    BY <1>1 DEF HourRow
  <2> HIDE DEF here, f
  <2>4. Mean(f) \in Int
    BY <2>1, <2>2, MeanType
  <2>5. DefaultLoad \in Int
    BY PowerAssumption
  <2> QED BY <2>3, <2>4, <2>5
<1>5. /\ Age(g.now, hour) \in DOMAIN BaselineWeight
      /\ \A e \in g.eras : Age(HourOf(e.start), hour) \in DOMAIN NearbyWeight
      /\ \A c \in DOMAIN Scale : g.known[hour][c] \in Int
  BY InputsAssumption
<1> HIDE DEF hour
<1> QED BY <1>1, <1>2, <1>3, <1>4, <1>5, WeightAssumption DEF hour

\* There is one row of each hour.
LEMMA RowsFinite ==
  ASSUME NEW g \in Inputs
  PROVE  IsFiniteSet(Rows(g)) /\ \A x, y \in Rows(g) : x.hour = y.hour => x = y
<1> DEFINE f == [r \in g.readings |-> HourRow(g, HourOf(r.at))]
<1>1. f \in Surjection(g.readings, Rows(g))
  BY DEF Surjection, Rows
<1>2. IsFiniteSet(g.readings)
  BY InputsAssumption
<1>3. IsFiniteSet(Rows(g))
  BY <1>1, <1>2, FS_Surjection
<1> QED BY <1>3, RowType

\* The history is the rows in order, and empty without readings.
LEMMA HistoryIs ==
  ASSUME NEW g \in Inputs
  PROVE  /\ Cardinality(Rows(g)) \in Nat
         /\ History(g) \in [1 .. Cardinality(Rows(g)) -> Rows(g)]
         /\ ToSet(History(g)) = Rows(g)
         /\ g.readings = {} <=> History(g) = <<>>
<1> DEFINE key == [row \in Rows(g) |-> row.hour]
           n == Cardinality(Rows(g))
<1>1. key \in [Rows(g) -> Int] /\ \A x, y \in Rows(g) : key[x] = key[y] => x = y
  BY RowsFinite, RowType
<1>2. History(g) = InOrder(Rows(g), key)
  BY DEF History, Rows
<1>3. /\ n \in Nat
      /\ History(g) \in [1 .. n -> Rows(g)]
      /\ ToSet(History(g)) = Rows(g)
  <2> HIDE DEF key
  <2> QED BY <1>1, <1>2, RowsFinite, InOrderSorts
<1>4. g.readings = {} <=> Rows(g) = {}
  BY DEF Rows
<1>5. Rows(g) = {} <=> n = 0
  BY RowsFinite, FS_EmptySet
<1>6. n = 0 <=> History(g) = <<>>
  <2>1. DOMAIN History(g) = 1 .. n
    BY <1>3
  <2>2. CASE n = 0
    <3>1. 1 .. n = {} /\ 1 .. 0 = {}
      BY <2>2
    <3> QED BY <1>3, <2>2, <3>1
  <2>3. CASE n # 0
    <3>1. 1 \in 1 .. n /\ 1 \notin DOMAIN <<>>
      BY <1>3, <2>3
    <3> HIDE DEF n
    <3> QED BY <2>1, <2>3, <3>1
  <2> QED BY <2>2, <2>3
<1> QED BY <1>3, <1>4, <1>5, <1>6

\* The weights of the ages are never all nothing.
LEMMA WeightedLies ==
  ASSUME NEW g \in Inputs, NEW rows \in SUBSET Rows(g), rows # {},
         NEW a \in Int, NEW b \in Int, \A r \in rows : a <= r.home /\ r.home <= b
  PROVE  /\ Weighted(rows, g.now) \in Int
         /\ a <= Weighted(rows, g.now) /\ Weighted(rows, g.now) <= b
<1> DEFINE f == [r \in rows |-> r.home]
           w == [r \in rows |-> BaselineWeight[Age(g.now, r.hour)]]
<1>1. IsFiniteSet(rows)
  BY RowsFinite, FS_Subset
<1>2. /\ f \in [rows -> Int] /\ w \in [rows -> Nat \ {0}]
      /\ \A r \in rows : a <= f[r] /\ f[r] <= b
  BY RowType
<1>3. Weighted(rows, g.now) = WeightedMean(f, w)
  BY DEF Weighted
<1> HIDE DEF f, w
<1> QED BY <1>1, <1>2, <1>3, WeightedMeanBetween

\* An hour's baseline lies between what was used at that hour of other days.
LEMMA BaselineLies ==
  ASSUME NEW g \in Inputs, NEW hour, Earlier(Rows(g), hour) # {},
         NEW a \in Int, NEW b \in Int,
         \A r \in Earlier(Rows(g), hour) : a <= r.home /\ r.home <= b
  PROVE  LET p == Baseline(hour, Rows(g), g.now)
         IN  p \in Int /\ a <= p /\ p <= b
<1> DEFINE hourOnly == Earlier(Rows(g), hour)
           hourWeek == {r \in hourOnly : Weekday(r.hour) = Weekday(hour)}
           seasonHour == {r \in hourOnly : Season[DayOf(r.hour)] = Season[DayOf(hour)]}
           Of(some) == Weighted(some, g.now)
           Lies(p) == p \in Int /\ a <= p /\ p <= b
<1>1. ASSUME NEW some \in SUBSET hourOnly, some # {} PROVE Lies(Of(some))
  BY <1>1, WeightedLies DEF Earlier
<1>2. Baseline(hour, Rows(g), g.now) =
        CASE hourOnly = {} -> DefaultLoad
          [] hourWeek # {} /\ seasonHour # {} ->
               (55 * Of(hourWeek) + 25 * Of(seasonHour) + 20 * Of(hourOnly)) \div 100
          [] hourWeek # {} /\ seasonHour = {} ->
               (70 * Of(hourWeek) + 30 * Of(hourOnly)) \div 100
          [] hourWeek = {} /\ seasonHour # {} ->
               (60 * Of(seasonHour) + 40 * Of(hourOnly)) \div 100
          [] OTHER -> Of(hourOnly)
  BY DEF Baseline, Earlier
<1>3. Lies(Of(hourOnly))
  BY <1>1
<1>4. hourWeek # {} => Lies(Of(hourWeek))
  BY <1>1
<1>5. seasonHour # {} => Lies(Of(seasonHour))
  BY <1>1
<1> HIDE DEF hourOnly, hourWeek, seasonHour, Of
<1>6. ASSUME NEW x \in Int, NEW y \in Int, NEW z \in Int, Lies(x), Lies(y), Lies(z)
      PROVE  /\ Lies((55 * x + 25 * y + 20 * z) \div 100)
             /\ Lies((70 * x + 30 * y) \div 100)
             /\ Lies((60 * x + 40 * y) \div 100)
  BY <1>6
<1>7. hourOnly # {}
  BY DEF hourOnly
<1> DEFINE here == Baseline(hour, Rows(g), g.now)
<1>8. /\ hourWeek # {} /\ seasonHour # {} =>
           here = (55 * Of(hourWeek) + 25 * Of(seasonHour) + 20 * Of(hourOnly)) \div 100
      /\ hourWeek # {} /\ seasonHour = {} =>
           here = (70 * Of(hourWeek) + 30 * Of(hourOnly)) \div 100
      /\ hourWeek = {} /\ seasonHour # {} =>
           here = (60 * Of(seasonHour) + 40 * Of(hourOnly)) \div 100
      /\ hourWeek = {} /\ seasonHour = {} => here = Of(hourOnly)
  BY <1>2, <1>7
<1> HIDE DEF here
<1>9. Lies(here)
  BY <1>3, <1>4, <1>5, <1>6, <1>8
<1> QED BY <1>9 DEF here

\* Without such days the baseline is the default power.
LEMMA BaselineType ==
  ASSUME NEW g \in Inputs, NEW hour
  PROVE  Baseline(hour, Rows(g), g.now) \in Int
<1> DEFINE some == Earlier(Rows(g), hour)
           f == [r \in some |-> r.home]
<1>1. IsFiniteSet(some) /\ f \in [some -> Int]
  <2>1. some \in SUBSET Rows(g)
    BY DEF Earlier
  <2>2. \A r \in Rows(g) : r.home \in Int
    BY RowType
  <2>3. IsFiniteSet(some)
    BY <2>1, RowsFinite, FS_Subset
  <2> QED BY <2>1, <2>2, <2>3
<1>2. PICK a \in Int, b \in Int : \A r \in some : a <= f[r] /\ f[r] <= b
  <2> HIDE DEF f, some
  <2> QED BY <1>1, FiniteBounds
<1>3. CASE some = {}
  BY <1>3, PowerAssumption DEF Baseline, Earlier
<1>4. CASE some # {}
  <2>1. \A r \in some : a <= r.home /\ r.home <= b
    BY <1>2
  <2> HIDE DEF f
  <2> QED BY <1>4, <2>1, BaselineLies
<1> QED BY <1>3, <1>4

-----------------------------------------------------------------------------
\* The slots of a forecast
LEMMA SlotsAre ==
  ASSUME NEW g \in Inputs
  PROVE  LET slots == Context(g).slots
             n == Cardinality(g.eras)
         IN  /\ n \in Nat
             /\ slots \in [1 .. n -> g.eras] /\ Len(slots) = n
             /\ \A i, j \in 1 .. n : i < j => slots[i].start < slots[j].start
<1> DEFINE key == [era \in g.eras |-> era.start]
           n == Cardinality(g.eras)
           slots == Context(g).slots
<1>1. /\ IsFiniteSet(g.eras) /\ key \in [g.eras -> Int]
      /\ \A x, y \in g.eras : key[x] = key[y] => x = y
  BY InputsAssumption
<1>2. slots = InOrder(g.eras, key)
  BY DEF Context
<1>3. /\ n \in Nat /\ slots \in [1 .. n -> g.eras]
      /\ \A i, j \in 1 .. n : i < j => key[slots[i]] < key[slots[j]]
  <2> HIDE DEF key
  <2> QED BY <1>1, <1>2, InOrderSorts
<1> HIDE DEF slots
<1>4. Len(slots) = n
  BY <1>3
<1> QED BY <1>3, <1>4 DEF slots

\* What toForecastContext puts together
LEMMA ContextIs ==
  ASSUME NEW g \in Inputs
  PROVE  /\ Context(g).history = History(g) /\ ToSet(History(g)) = Rows(g)
         /\ Context(g).live = g.live /\ Context(g).answers = g.answers
         /\ Context(g).baseline =
              [k \in 1 .. Cardinality(g.eras) |->
                 Baseline(HourOf(Context(g).slots[k].start), Rows(g), g.now)]
         /\ Context(g).bias = IF History(g) = <<>> THEN 0 ELSE RecentBias(History(g), g.now)
<1>1. DOMAIN Context(g).slots = 1 .. Cardinality(g.eras)
  BY SlotsAre
<1> QED BY <1>1, HistoryIs DEF Context

\* The last three of a sequence, or all of a shorter one, are some of its values.
LEMMA Last3Is ==
  ASSUME NEW S, NEW m \in Nat, m > 0, NEW s \in [1 .. m -> S]
  PROVE  LET n == Len(Last3(s))
         IN  /\ n \in 1 .. 3 /\ Last3(s) \in [1 .. n -> S]
             /\ \A i \in 1 .. n : \E j \in 1 .. m : Last3(s)[i] = s[j]
<1>1. s \in Seq(S) /\ Len(s) = m
  OBVIOUS
<1>2. PICK f \in 1 .. m : f = Max({1, m - 2}) /\ f = IF m > 3 THEN m - 2 ELSE 1
  <2>1. Max({1, m - 2}) = IF 1 >= m - 2 THEN 1 ELSE m - 2
    BY MaxOfTwo
  <2> QED BY <2>1
<1>3. Last3(s) = [i \in 1 .. (1 + m - f) |-> s[f + i - 1]]
  <2>1. Last3(s) = SubSeq(s, f, Len(s))
    BY <1>1, <1>2 DEF Last3
  <2> QED BY <1>1, <2>1
<1>4. \A i \in 1 .. (1 + m - f) : f + i - 1 \in 1 .. m
  BY <1>2
<1>5. 1 + m - f \in 1 .. 3
  BY <1>2
<1>6. Last3(s) \in [1 .. (1 + m - f) -> S]
  BY <1>3, <1>4
<1>7. Len(Last3(s)) = 1 + m - f
  BY <1>5, <1>6
<1> QED BY <1>3, <1>4, <1>5, <1>6, <1>7

-----------------------------------------------------------------------------
(* The neighbours                                                          *)

\* Two conditions differ by at most twice their scale,
LEMMA ApartBetween ==
  ASSUME NEW a \in Int, NEW b \in Int, NEW scale \in Nat, scale > 0
  PROVE  Apart(a, b, scale) \in 0 .. 200
<1>1. PICK d \in Nat : d = IF a > b THEN a - b ELSE b - a
  <2>1. (IF a > b THEN a - b ELSE b - a) \in Nat
    OBVIOUS
  <2> QED BY <2>1
<1>2. PICK q \in Nat : q = (100 * d) \div scale
  <2>1. (100 * d) \div scale \in Int /\ 0 <= (100 * d) \div scale
    <3>1. 100 * d \in Nat
      OBVIOUS
    <3> QED BY <3>1
  <2> QED BY <2>1
<1>3. Min({200, q}) \in 0 .. 200
  <2>1. Min({200, q}) = IF 200 <= q THEN 200 ELSE q
    BY MinOfTwo
  <2> QED BY <2>1
<1>4. Apart(a, b, scale) = IF Unknown \in {a, b} THEN 15 ELSE Min({200, q})
  BY <1>1, <1>2 DEF Apart
<1> QED BY <1>3, <1>4

\* hours of the day by at most twice a day,
LEMMA HoursApart ==
  ASSUME NEW a \in 0 .. DayHours - 1, NEW b \in 0 .. DayHours - 1
  PROVE  (200 * HourApart(a, b)) \div DayHours \in 0 .. 200
<1>1. PICK n \in Nat : n = DayHours /\ n > 0
  BY TimeAssumption
<1>2. PICK d \in Nat : d = (IF a > b THEN a - b ELSE b - a) /\ d < n
  <2>1. (IF a > b THEN a - b ELSE b - a) \in 0 .. n - 1
    BY <1>1
  <2> QED BY <2>1
<1>3. HourApart(a, b) = Min({d, n - d})
  BY <1>1, <1>2 DEF HourApart
<1>4. PICK h \in Nat : h = HourApart(a, b) /\ h <= n
  <2>1. Min({d, n - d}) = IF d <= n - d THEN d ELSE n - d
    BY <1>1, <1>2, MinOfTwo
  <2> QED BY <1>2, <1>3, <2>1
<1>5. 0 * n <= 200 * h /\ 200 * h < (200 + 1) * n
  BY <1>1, <1>4
<1>6. (200 * h) \div n \in Int /\ 0 <= (200 * h) \div n /\ (200 * h) \div n <= 200
  BY <1>1, <1>5, DivBetween
<1> QED BY <1>1, <1>4, <1>6

\* and two hours by at most what WeightAssumption allows for.
LEMMA DistanceBetween ==
  ASSUME NEW g \in Inputs, NEW row \in Rows(g), NEW slot \in g.eras,
         NEW lag1 \in Int, NEW lag3 \in Int
  PROVE  Distance(row, slot, lag1, lag3) \in 0 .. 375 + 200 * Cardinality(DOMAIN Scale)
<1> DEFINE f == [c \in DOMAIN Scale |-> Apart(row.known[c], slot.known[c], Scale[c])]
           far == (200 * HourApart(LocalHour(row.hour), LocalHour(HourOf(slot.start)))) \div DayHours
           days == CASE Weekday(row.hour) = Weekday(HourOf(slot.start)) -> 0
                     [] /\ Weekday(row.hour) # Weekday(HourOf(slot.start))
                        /\ Weekday(row.hour) \in Weekend
                             <=> Weekday(HourOf(slot.start)) \in Weekend -> 20
                     [] OTHER -> 45
           season == IF Season[DayOf(row.hour)] = Season[DayOf(HourOf(slot.start))] THEN 0 ELSE 30
           home == (30 * Apart(row.home, lag1, LoadScale)) \div 100
           home3 == (20 * Apart(row.home, lag3, LoadScale)) \div 100
<1>1. Distance(row, slot, lag1, lag3) = far + days + season + SumFunction(f) + home + home3
  BY DEF Distance
<1>2. far \in 0 .. 200
  <2>1. PICK r \in g.readings : row.hour = HourOf(r.at)
    <3>1. PICK r \in g.readings : row = HourRow(g, HourOf(r.at))
      BY DEF Rows
    <3> QED BY <3>1 DEF HourRow
  <2>2. r.at \in Nat /\ slot.start \in Nat
    BY InputsAssumption
  <2> QED BY <2>1, <2>2, HourType, HoursApart
<1>3. days \in 0 .. 45 /\ season \in 0 .. 45
  OBVIOUS
<1>4. home \in 0 .. 60 /\ home3 \in 0 .. 40
  <2>1. row.home \in Int /\ LoadScale \in Nat /\ LoadScale > 0
    BY RowType, ScaleAssumption
  <2>2. Apart(row.home, lag1, LoadScale) \in 0 .. 200 /\ Apart(row.home, lag3, LoadScale) \in 0 .. 200
    BY <2>1, ApartBetween
  <2>3. \A x \in 0 .. 200 : (30 * x) \div 100 \in 0 .. 60 /\ (20 * x) \div 100 \in 0 .. 40
    OBVIOUS
  <2> QED BY <2>2, <2>3
<1>5. PICK n \in Nat, s \in Int :
        /\ n = Cardinality(DOMAIN Scale) /\ s = SumFunction(f) /\ 0 <= s /\ s <= 200 * n
  <2>1. ASSUME NEW c \in DOMAIN Scale PROVE f[c] \in 0 .. 200
    <3>1. row.known[c] \in Int /\ slot.known[c] \in Int /\ Scale[c] \in Nat /\ Scale[c] > 0
      BY RowType, InputsAssumption, ScaleAssumption
    <3> QED BY <3>1, ApartBetween
  <2>2. f \in [DOMAIN Scale -> Int] /\ \A c \in DOMAIN Scale : 0 <= f[c] /\ f[c] <= 200
    BY <2>1
  <2>3. SumFunction(f) = SumFunctionOnSet(f, DOMAIN Scale)
    BY DEF SumFunction
  <2> DEFINE D == DOMAIN Scale
  <2>4. IsFiniteSet(D)
    BY ScaleAssumption
  <2> HIDE DEF f, D
  <2>5. /\ Cardinality(D) \in Nat /\ SumFunctionOnSet(f, D) \in Int
        /\ 0 * Cardinality(D) <= SumFunctionOnSet(f, D)
        /\ SumFunctionOnSet(f, D) <= 200 * Cardinality(D)
    <3>1. f \in [D -> Int] /\ \A c \in D : 0 <= f[c] /\ f[c] <= 200
      BY <2>2 DEF D
    <3>2. 0 \in Int /\ 200 \in Int
      OBVIOUS
    <3> QED BY <2>4, <3>1, <3>2, SumBetween
  <2> QED BY <2>3, <2>5 DEF D
<1>6. PICK v \in Int, w \in Int, x \in Int, y \in Int, z \in Int :
        /\ v = far /\ w = days /\ x = season /\ y = home /\ z = home3
        /\ 0 <= v /\ v <= 200 /\ 0 <= w /\ w <= 45 /\ 0 <= x /\ x <= 30
        /\ 0 <= y /\ y <= 60 /\ 0 <= z /\ z <= 40
  BY <1>2, <1>3, <1>4
<1> HIDE DEF far, days, season, home, home3, f
<1> QED BY <1>1, <1>5, <1>6

\* A house that always used the same
Steady(g, p) == g.readings # {} /\ \A r \in Rows(g) : r.home = p

\* Some neighbour is near enough to count, and all of them used the same.
LEMMA NeighborsAgree ==
  ASSUME NEW g \in Inputs, NEW p \in Int, Steady(g, p), NEW slot \in g.eras,
         NEW lag1 \in Int, NEW lag3 \in Int
  PROVE  FromNeighbors(History(g), slot, lag1, lag3) = p
<1> DEFINE H == History(g)
           D == DOMAIN H
           Likeness(i) == (100 * NearbyWeight[Age(HourOf(slot.start), H[i].hour)])
                          \div (100 + Distance(H[i], slot, lag1, lag3))
           likeness == [i \in D |-> Likeness(i)]
           Closer(i, j) == likeness[i] > likeness[j] \/ (likeness[i] = likeness[j] /\ i < j)
           nearest == {i \in D : Cardinality({j \in D : Closer(j, i)}) < MaxNeighbors}
           f == [i \in nearest |-> H[i].home]
           w == [i \in nearest |-> likeness[i]]
           L == {q \in D \X D : Closer(q[1], q[2])}
<1>1. FromNeighbors(H, slot, lag1, lag3) = WeightedMean(f, w)
  BY DEF FromNeighbors
<1>2. PICK n \in Nat : n > 0 /\ D = 1 .. n /\ H \in [D -> Rows(g)]
  <2>1. H # <<>>
    BY HistoryIs DEF Steady
  <2>2. PICK n \in Nat : H \in [1 .. n -> Rows(g)]
    BY HistoryIs
  <2>3. n = 0 => H = <<>>
    <3>1. 1 .. 0 = {}
      OBVIOUS
    <3> QED BY <2>2, <3>1
  <2> QED BY <2>1, <2>2, <2>3
<1>3. ASSUME NEW i \in D PROVE likeness[i] \in Nat \ {0} /\ H[i].home = p
  <2>1. H[i] \in Rows(g)
    BY <1>2
  <2>2. PICK d \in Nat, c \in Nat, u \in Nat :
          /\ d = Distance(H[i], slot, lag1, lag3) /\ c = Cardinality(DOMAIN Scale)
          /\ u = NearbyWeight[Age(HourOf(slot.start), H[i].hour)]
          /\ d <= 375 + 200 * c /\ 100 * u >= 475 + 200 * c
    <3>1. Cardinality(DOMAIN Scale) \in Nat
      BY ScaleAssumption, FS_CardinalityType
    <3>2. Distance(H[i], slot, lag1, lag3) \in 0 .. 375 + 200 * Cardinality(DOMAIN Scale)
      BY <2>1, DistanceBetween
    <3>3. /\ NearbyWeight[Age(HourOf(slot.start), H[i].hour)] \in Nat
          /\ 100 * NearbyWeight[Age(HourOf(slot.start), H[i].hour)]
               >= 475 + 200 * Cardinality(DOMAIN Scale)
      BY <2>1, RowType
    <3> QED BY <3>1, <3>2, <3>3
  <2>3. likeness[i] = (100 * u) \div (100 + d)
    BY <2>2
  <2>4. (100 * u) \div (100 + d) \in Int /\ 1 <= (100 * u) \div (100 + d)
    <3>1. 1 * (100 + d) <= 100 * u /\ 100 + d \in Nat /\ 100 + d > 0
      BY <2>2
    <3>2. 100 * u < (100 * u + 1) * (100 + d)
      <4>1. PICK e \in Nat, z \in Nat : z = 100 * u /\ e = 99 + d
        OBVIOUS
      <4>2. (z + 1) * (e + 1) = z * e + z + e + 1 /\ z * e \in Nat
        OBVIOUS
      <4>3. 100 + d = e + 1
        BY <4>1
      <4> QED BY <4>1, <4>2, <4>3
    <3> QED BY <3>1, <3>2, DivBetween
  <2> HIDE DEF H, likeness
  <2> QED BY <2>1, <2>3, <2>4 DEF Steady
<1>4. IsFiniteSet(D) /\ Cardinality(D) = n
  <2>1. IsFiniteSet(1 .. n) /\ Cardinality(1 .. n) = n
    <3>1. 1 \in Int /\ n \in Int /\ ~(1 > n) /\ n - 1 + 1 = n
      BY <1>2
    <3> QED BY <3>1, FS_Interval
  <2> HIDE DEF D
  <2> QED BY <1>2, <2>1
<1>5. IsLinear(L, D)
  <2>1. \A i \in D : i \in Int /\ likeness[i] \in Int
    BY <1>2, <1>3
  <2> HIDE DEF likeness, D
  <2> QED BY <2>1 DEF IsLinear
<1>6. \A i \in D : Cardinality({j \in D : Closer(j, i)}) = Rank(L, D, i)
  <2>1. \A i \in D : {j \in D : Closer(j, i)} = Preceding(L, D, i)
    BY DEF Preceding
  <2> QED BY <2>1 DEF Rank
<1>7. nearest # {}
  <2> HIDE DEF L
  <2>1. 0 \in 0 .. n - 1
    BY <1>2
  <2>2. \A k \in 0 .. n - 1 : \E i \in D : Rank(L, D, i) = k
    <3> HIDE DEF D
    <3> QED BY <1>4, <1>5, RanksAreAll
  <2>3. PICK i \in D : Rank(L, D, i) = 0
    BY <2>1, <2>2
  <2>4. Cardinality({j \in D : Closer(j, i)}) < MaxNeighbors
    <3>1. Cardinality({j \in D : Closer(j, i)}) = 0
      BY <1>6, <2>3
    <3>2. 0 < MaxNeighbors
      BY EnoughAssumption
    <3> QED BY <3>1, <3>2
  <2> QED BY <2>4
<1>8. /\ IsFiniteSet(nearest) /\ f \in [nearest -> Int] /\ w \in [nearest -> Nat \ {0}]
      /\ \A i \in nearest : p <= f[i] /\ f[i] <= p
  <2>1. IsFiniteSet(nearest)
    BY <1>4, FS_Subset
  <2>2. \A i \in nearest : i \in D
    OBVIOUS
  <2> HIDE DEF nearest, D, likeness, H
  <2> QED BY <1>3, <2>1, <2>2
<1>9. /\ WeightedMean(f, w) \in Int
      /\ p <= WeightedMean(f, w) /\ WeightedMean(f, w) <= p
  <2> HIDE DEF f, w, nearest
  <2> QED BY <1>7, <1>8, WeightedMeanBetween
<1> HIDE DEF f, w
<1> QED BY <1>1, <1>9

\* No hour differed from its baseline.
LEMMA NoBias ==
  ASSUME NEW g \in Inputs, NEW p \in Int, Steady(g, p)
  PROVE  RecentBias(History(g), g.now) = 0
<1> DEFINE H == History(g)
           recent == Last3(H)
           f == [i \in DOMAIN recent |->
                   recent[i].home - Baseline(recent[i].hour, ToSet(H), g.now)]
<1>1. RecentBias(H, g.now) = Mean(f)
  BY DEF RecentBias
<1>2. PICK n \in Nat : n > 0 /\ H \in [1 .. n -> Rows(g)]
  <2>1. H # <<>>
    BY HistoryIs DEF Steady
  <2>2. PICK n \in Nat : H \in [1 .. n -> Rows(g)]
    BY HistoryIs
  <2>3. n = 0 => H = <<>>
    <3>1. 1 .. 0 = {}
      OBVIOUS
    <3> QED BY <2>2, <3>1
  <2> QED BY <2>1, <2>2, <2>3
<1>3. PICK m \in 1 .. 3 : recent \in [1 .. m -> Rows(g)]
  BY <1>2, Last3Is
<1>4. ASSUME NEW i \in 1 .. m PROVE f[i] = 0
  <2>1. recent[i] \in Rows(g) /\ recent[i].home = p
    BY <1>3 DEF Steady
  <2>2. recent[i] \in Earlier(Rows(g), recent[i].hour)
    BY <2>1 DEF Earlier
  <2>3. \A r \in Earlier(Rows(g), recent[i].hour) : p <= r.home /\ r.home <= p
    BY DEF Steady, Earlier
  <2>4. Baseline(recent[i].hour, Rows(g), g.now) = p
    <3> DEFINE b == Baseline(recent[i].hour, Rows(g), g.now)
    <3>1. b \in Int /\ p <= b /\ b <= p
      BY <2>2, <2>3, BaselineLies
    <3> QED BY <3>1
  <2>5. ToSet(H) = Rows(g)
    BY HistoryIs
  <2>6. i \in DOMAIN recent
    BY <1>3
  <2> HIDE DEF recent, H
  <2> QED BY <2>1, <2>4, <2>5, <2>6
<1>5. /\ f \in [1 .. m -> Int] /\ IsFiniteSet(1 .. m) /\ 1 .. m # {}
      /\ \A i \in 1 .. m : 0 <= f[i] /\ f[i] <= 0
  <2>1. DOMAIN recent = 1 .. m
    BY <1>3
  <2> HIDE DEF recent
  <2> QED BY <1>4, <2>1, FS_Interval
<1>6. Mean(f) \in Int /\ 0 <= Mean(f) /\ Mean(f) <= 0
  <2> HIDE DEF f
  <2>1. 0 \in Int
    OBVIOUS
  <2> QED BY <1>5, <2>1, MeanBetween
<1> HIDE DEF f
<1> QED BY <1>1, <1>6

\* Between a power and what it is clamped to
Near(p, q) == q \in Int /\ Amid(q, p, Clamp(p))

\* A mean of powers near p is near p.
LEMMA MeanNear ==
  ASSUME NEW p \in Int, NEW m \in Nat, m > 0, NEW s \in [1 .. m -> Int],
         \A i \in 1 .. m : Near(p, s[i])
  PROVE  Near(p, Mean(s))
<1>1. IsFiniteSet(1 .. m) /\ 1 .. m # {}
  <2>1. 1 \in Int /\ m \in Int /\ 1 \in 1 .. m
    OBVIOUS
  <2> QED BY <2>1, FS_Interval
<1>2. PICK q \in Int : q = Clamp(p)
  BY ClampType
<1>3. CASE p <= q
  <2>1. \A i \in 1 .. m : p <= s[i] /\ s[i] <= q
    BY <1>2, <1>3 DEF Near, Amid
  <2> DEFINE D == 1 .. m
  <2>2. IsFiniteSet(D) /\ D # {} /\ s \in [D -> Int] /\ \A i \in D : p <= s[i] /\ s[i] <= q
    BY <1>1, <2>1
  <2> HIDE DEF D
  <2>3. Mean(s) \in Int /\ p <= Mean(s) /\ Mean(s) <= q
    BY <2>2, MeanBetween
  <2> QED BY <1>2, <2>3 DEF Near, Amid
<1>4. CASE q <= p
  <2>1. \A i \in 1 .. m : q <= s[i] /\ s[i] <= p
    BY <1>2, <1>4 DEF Near, Amid
  <2> DEFINE D == 1 .. m
  <2>2. IsFiniteSet(D) /\ D # {} /\ s \in [D -> Int] /\ \A i \in D : q <= s[i] /\ s[i] <= p
    BY <1>1, <2>1
  <2> HIDE DEF D
  <2>3. Mean(s) \in Int /\ q <= Mean(s) /\ Mean(s) <= p
    BY <2>2, MeanBetween
  <2> QED BY <1>2, <2>3 DEF Near, Amid
<1> QED BY <1>2, <1>3, <1>4

\* Slots at hours the history knows
HoursKnown(g) ==
  \A k \in 1 .. Cardinality(g.eras) :
    Earlier(Rows(g), HourOf(Context(g).slots[k].start)) # {}

\* A slot that follows such powers is forecast to use the same.
LEMMA PowerAgrees ==
  ASSUME NEW g \in Inputs, NEW p \in Int, Steady(g, p), HoursKnown(g), g.live \in {Unknown, p},
         NEW m \in Nat, m > 0, NEW s \in [1 .. m -> Int], \A i \in 1 .. m : Near(p, s[i]),
         NEW k \in 1 .. Cardinality(g.eras)
  PROVE  HybridPower(Context(g), s, k) = Clamp(p)
<1> DEFINE c == Context(g)
           lag1 == s[Len(s)]
           lag3 == Mean(Last3(s))
           nearby == FromNeighbors(c.history, c.slots[k], lag1, lag3)
           power == (50 * c.baseline[k] + 35 * nearby + 15 * lag3 + 40 * c.bias) \div 100
<1>1. lag1 \in Int /\ Near(p, lag3)
  <2>1. Len(s) = m /\ m \in 1 .. m
    OBVIOUS
  <2> DEFINE N == {x \in Int : Near(p, x)}
  <2>2. s \in [1 .. m -> N]
    OBVIOUS
  <2>3. PICK n \in 1 .. 3 : Last3(s) \in [1 .. n -> N]
    <3> HIDE DEF N
    <3> QED BY <2>2, Last3Is
  <2>4. n \in Nat /\ n > 0 /\ Last3(s) \in [1 .. n -> Int]
        /\ \A i \in 1 .. n : Near(p, Last3(s)[i])
    BY <2>3
  <2> QED BY <2>1, <2>4, MeanNear
<1>2. c.baseline[k] = p
  <2> DEFINE hour == HourOf(c.slots[k].start)
             b == Baseline(hour, Rows(g), g.now)
  <2>1. Earlier(Rows(g), hour) # {}
    BY DEF HoursKnown
  <2>2. \A r \in Earlier(Rows(g), hour) : p <= r.home /\ r.home <= p
    BY DEF Steady, Earlier
  <2>3. b \in Int /\ p <= b /\ b <= p
    <3> HIDE DEF hour
    <3> QED BY <2>1, <2>2, BaselineLies
  <2>4. c.baseline[k] = b
    BY ContextIs
  <2> HIDE DEF b, c
  <2> QED BY <2>3, <2>4
<1>3. nearby = p
  <2>1. c.slots[k] \in g.eras
    BY SlotsAre
  <2>2. lag3 \in Int
    BY <1>1 DEF Near
  <2>3. c.history = History(g)
    BY ContextIs
  <2> HIDE DEF lag1, lag3, c
  <2> QED BY <1>1, <2>1, <2>2, <2>3, NeighborsAgree
<1>4. c.bias = 0 /\ c.live = g.live
  BY ContextIs, NoBias
<1>5. PICK q \in Int : q = Clamp(p)
  BY ClampType
<1>6. PICK x \in Int : x = lag3 /\ Amid(x, p, q)
  BY <1>1, <1>5 DEF Near
<1>7. power = (50 * p + 35 * p + 15 * x + 40 * 0) \div 100
  <2> HIDE DEF c, nearby, lag3
  <2> QED BY <1>2, <1>3, <1>4, <1>6
<1>8. PICK y \in Int : y = power /\ Amid(y, p, q)
  <2> HIDE DEF power
  <2>1. PICK y \in Int : y = (50 * p + 35 * p + 15 * x + 40 * 0) \div 100
    OBVIOUS
  <2>2. Amid(y, p, q)
    <3>1. 100 * y <= 85 * p + 15 * x /\ 85 * p + 15 * x < 100 * y + 100
      BY <2>1
    <3>2. CASE p <= x /\ x <= q
      BY <3>1, <3>2 DEF Amid
    <3>3. CASE q <= x /\ x <= p
      BY <3>1, <3>3 DEF Amid
    <3> QED BY <1>6, <3>2, <3>3 DEF Amid
  <2> QED BY <1>7, <2>1, <2>2
<1>9. HybridPower(c, s, k)
        = Clamp(IF k = 1 /\ c.live # Unknown THEN (55 * power + 45 * c.live) \div 100 ELSE power)
  BY DEF HybridPower
<1> HIDE DEF power, c
<1>10. CASE k = 1 /\ c.live # Unknown
  <2>1. c.live = p
    BY <1>4, <1>10
  <2>2. PICK z \in Int : z = (55 * y + 45 * p) \div 100 /\ Amid(z, p, q)
    BY <1>8 DEF Amid
  <2>3. HybridPower(c, s, k) = Clamp(z)
    BY <1>8, <1>9, <1>10, <2>1, <2>2
  <2>4. Clamp(z) = Clamp(p)
    BY <1>5, <2>2, ClampBetween
  <2> QED BY <2>3, <2>4 DEF c
<1>11. CASE ~(k = 1 /\ c.live # Unknown)
  <2>1. HybridPower(c, s, k) = Clamp(y)
    BY <1>8, <1>9, <1>11
  <2>2. Clamp(y) = Clamp(p)
    BY <1>5, <1>8, ClampBetween
  <2> QED BY <2>1, <2>2 DEF c
<1> QED BY <1>10, <1>11

\* A house that always used the same is forecast to use that, within the limits.
LEMMA HybridAgrees ==
  ASSUME NEW g \in Inputs, NEW p \in Int, Steady(g, p), HoursKnown(g), g.live \in {Unknown, p}
  PROVE  \A k \in 1 .. Cardinality(g.eras) : Hybrid(Context(g))[k] = Clamp(p)
<1> DEFINE c == Context(g)
           n == Cardinality(g.eras)
           recent == Last3(c.history)
           Step(f, k) == IF k = 0 THEN [i \in DOMAIN recent |-> recent[i].home]
                         ELSE Append(f[k - 1], HybridPower(c, f[k - 1], k))
           Recurs(f) == f = [k \in 0 .. n |-> Step(f, k)]
           rolling == CHOOSE f : Recurs(f)
<1>1. n \in Nat /\ Len(c.slots) = n /\ DOMAIN c.slots = 1 .. n
  BY SlotsAre
<1>2. Rolling(c) = rolling[n]
  <2>1. Len(c.slots) = n
    BY <1>1
  <2> QED BY <2>1 DEF Rolling
<1>3. PICK m \in 1 .. 3 : recent \in [1 .. m -> Rows(g)] /\ Len(recent) = m
  <2>1. c.history = History(g) /\ History(g) # <<>>
    BY ContextIs, HistoryIs DEF Steady
  <2>2. PICK h \in Nat : History(g) \in [1 .. h -> Rows(g)]
    BY HistoryIs
  <2>3. h = 0 => History(g) = <<>>
    <3>1. 1 .. 0 = {}
      OBVIOUS
    <3> QED BY <2>2, <3>1
  <2>4. h > 0
    BY <2>1, <2>2, <2>3
  <2> QED BY <2>1, <2>2, <2>4, Last3Is
<1> DEFINE W(k) == [i \in 1 .. m + k |-> IF i <= m THEN p ELSE Clamp(p)]
           w == [k \in 0 .. n |-> W(k)]
<1>4. Clamp(p) \in Int /\ Near(p, p) /\ Near(p, Clamp(p))
  BY ClampType DEF Near, Amid
<1>5. ASSUME NEW k \in 0 .. n
      PROVE  m + k \in Nat /\ m + k > 0 /\ W(k) \in [1 .. m + k -> Int]
             /\ \A i \in 1 .. m + k : Near(p, W(k)[i])
  BY <1>4
<1>6. W(0) = [i \in DOMAIN recent |-> recent[i].home]
  <2>1. \A i \in 1 .. m : recent[i].home = p
    BY <1>3 DEF Steady
  <2>2. DOMAIN recent = 1 .. m
    BY <1>3
  <2> HIDE DEF recent
  <2> QED BY <2>1, <2>2
<1>7. ASSUME NEW k \in 1 .. n
      PROVE  W(k) = Append(W(k - 1), HybridPower(c, W(k - 1), k))
  <2>1. k - 1 \in 0 .. n
    BY <1>1
  <2>2. HybridPower(c, W(k - 1), k) = Clamp(p)
    <3> DEFINE s == W(k - 1)
    <3>1. /\ m + (k - 1) \in Nat /\ m + (k - 1) > 0 /\ s \in [1 .. m + (k - 1) -> Int]
          /\ \A i \in 1 .. m + (k - 1) : Near(p, s[i])
      BY <1>5, <2>1
    <3> HIDE DEF s
    <3>2. HybridPower(c, s, k) = Clamp(p)
      BY <3>1, PowerAgrees
    <3> QED BY <3>2 DEF s
  <2>3. Append(W(k - 1), Clamp(p)) = W(k)
    <3>1. W(k - 1) \in Seq(Int) /\ Len(W(k - 1)) = m + (k - 1) /\ Clamp(p) \in Int
      BY <1>4, <1>5, <2>1
    <3>2. Append(W(k - 1), Clamp(p))
            = [i \in 1 .. m + (k - 1) + 1 |-> IF i = m + (k - 1) + 1 THEN Clamp(p) ELSE W(k - 1)[i]]
      <4> HIDE DEF W
      <4> QED BY <3>1
    <3> QED BY <3>2
  <2> QED BY <2>2, <2>3
<1>8. Recurs(w)
  <2>1. ASSUME NEW k \in 0 .. n PROVE w[k] = Step(w, k)
    <3>1. CASE k = 0
      BY <1>6, <3>1
    <3>2. CASE k # 0
      <4>1. k \in 1 .. n /\ k - 1 \in 0 .. n
        BY <1>1, <3>2
      <4>2. w[k] = W(k) /\ w[k - 1] = W(k - 1)
        BY <4>1
      <4> HIDE DEF W, w, c
      <4> QED BY <1>7, <3>2, <4>1, <4>2
    <3> QED BY <3>1, <3>2
  <2> HIDE DEF W, Step
  <2> QED BY <2>1
<1>9. Recurs(rolling)
  <2> HIDE DEF Recurs, w
  <2> QED BY <1>8
<1>10. \A k \in 0 .. n : rolling[k] = w[k]
  <2> DEFINE P == {k \in Nat : k <= n => rolling[k] = w[k]}
  <2>1. \A k \in 0 .. n : rolling[k] = Step(rolling, k) /\ w[k] = Step(w, k)
    <3> HIDE DEF rolling, w, Step
    <3> QED BY <1>8, <1>9
  <2> HIDE DEF rolling, w
  <2>2. 0 \in P
    <3>1. 0 \in 0 .. n /\ Step(rolling, 0) = Step(w, 0)
      BY <1>1
    <3> HIDE DEF Step
    <3> QED BY <2>1, <3>1
  <2>3. ASSUME NEW k \in P PROVE k + 1 \in P
    <3>1. CASE k + 1 <= n
      <4>1. k \in Nat /\ k + 1 \in 0 .. n /\ k + 1 # 0 /\ (k + 1) - 1 = k /\ rolling[k] = w[k]
        BY <1>1, <2>3, <3>1
      <4>2. Step(rolling, k + 1) = Step(w, k + 1)
        BY <4>1
      <4> HIDE DEF Step
      <4> QED BY <2>1, <4>1, <4>2
    <3>2. CASE ~(k + 1 <= n)
      BY <2>3, <3>2
    <3> QED BY <3>1, <3>2
  <2>4. P \in SUBSET Nat
    OBVIOUS
  <2> HIDE DEF P
  <2>5. \A k \in Nat : k \in P
    BY <2>2, <2>3, <2>4, NatSetInduction
  <2> QED BY <1>1, <2>5 DEF P
<1>11. Rolling(c) = W(n)
  <2>1. n \in 0 .. n
    BY <1>1
  <2> HIDE DEF rolling
  <2> QED BY <1>2, <1>10, <2>1
<1>12. ASSUME NEW k \in 1 .. n PROVE Hybrid(c)[k] = Clamp(p)
  <2>1. Hybrid(c)[k] = Rolling(c)[m + k]
    BY <1>1, <1>3 DEF Hybrid
  <2>2. m + k \in 1 .. m + n /\ ~(m + k <= m)
    BY <1>1
  <2> HIDE DEF c
  <2> QED BY <1>11, <2>1, <2>2
<1> QED BY <1>12

-----------------------------------------------------------------------------
(* From the definitions to the states                                       *)

\* A forecast has an entry for each slot, with the powers of the model's or of the
\* fallback's.
LEMMA EntriesAre ==
  ASSUME ToldInv, entries # <<>>
  PROVE  /\ given \in Inputs /\ ContextOf[given] = Context(given)
         /\ \E powers :
              /\ \A k \in DOMAIN entries :
                   /\ k \in 1 .. Cardinality(given.eras)
                   /\ entries[k].start = Context(given).slots[k].start
                   /\ entries[k].power = powers[k]
                   /\ entries[k].baseline = Context(given).baseline[k]
              /\ DOMAIN entries = 1 .. Cardinality(given.eras)
              /\ told.method = "hybrid" => powers = Hybrid(Context(given))
              /\ told.method = "catboost" =>
                   /\ told.version \in Versions
                   /\ powers = Shaped(Context(given), Predicted(Context(given), Target[told.version]))
<1>1. given \in Inputs
  BY DEF ToldInv
<1> DEFINE c == Context(given)
           n == Cardinality(given.eras)
<1>2. ContextOf[given] = c
  BY <1>1 DEF ContextOf
<1>3. DOMAIN c.slots = 1 .. n
  BY <1>1, SlotsAre
<1>4. ASSUME NEW powers, NEW method, NEW version, entries = Entries(c, powers, method, version)
      PROVE  /\ \A k \in DOMAIN entries :
                  /\ k \in 1 .. n
                  /\ entries[k].start = c.slots[k].start
                  /\ entries[k].power = powers[k]
                  /\ entries[k].baseline = c.baseline[k]
             /\ DOMAIN entries = 1 .. n
  <2> HIDE DEF c, n
  <2> QED BY <1>3, <1>4 DEF Entries
<1> HIDE DEF c
<1>5. CASE ByModel
  <2>1. label \in Versions /\ entries = ModelForecast[given][label] /\ told = Serving(label)
    BY <1>5 DEF ByModel
  <2>2. entries = Entries(c, Shaped(c, Predicted(c, Target[label])), "catboost", label)
    BY <1>1, <1>2, <2>1 DEF ModelForecast
  <2>3. told.method = "catboost" /\ told.version = label
    BY <2>1 DEF Serving
  <2> QED BY <1>1, <1>2, <1>4, <2>1, <2>2, <2>3 DEF c
<1>6. ASSUME NEW how, Instead(how), how \in {Inspected, Blocked(label)}
      PROVE  /\ told.method = FallbackMethod(given)
             /\ \E powers : /\ entries = Entries(c, powers, FallbackMethod(given), Missing)
                            /\ FallbackMethod(given) = "hybrid" => powers = Hybrid(c)
  <2>1. entries = Fallback[given] /\ told = ToldFallback(how, FallbackMethod(given))
    BY <1>6 DEF Instead
  <2>2. told.method = FallbackMethod(given)
    BY <1>6, <2>1 DEF ToldFallback, Inspected, Blocked
  <2>3. entries = Entries(c, IF given.readings # {} THEN Hybrid(c)
                             ELSE [k \in DOMAIN c.slots |-> DefaultLoad],
                          FallbackMethod(given), Missing)
    BY <1>1, <1>2, <2>1 DEF Fallback
  <2> QED BY <2>2, <2>3 DEF FallbackMethod
<1>7. FallbackMethod(given) # "catboost"
  BY DEF FallbackMethod
<1>8. CASE \E how \in {Inspected, Blocked(label)} : Instead(how)
  <2>1. PICK powers : /\ entries = Entries(c, powers, FallbackMethod(given), Missing)
                      /\ FallbackMethod(given) = "hybrid" => powers = Hybrid(c)
    BY <1>6, <1>8
  <2>2. told.method = FallbackMethod(given)
    BY <1>6, <1>8
  <2> QED BY <1>1, <1>2, <1>4, <1>7, <2>1, <2>2 DEF c
<1> QED BY <1>5, <1>8 DEF ToldInv

\* A row's power lies between the readings of its hour, or is the default one of an
\* hour with too few of them.
LEMMA RowLies ==
  ASSUME NEW g \in Inputs, NEW tick, NEW row \in Earlier(Rows(g), HourOf(tick)),
         NEW a \in Int, NEW b \in Int, \A x \in SeenAt(g, tick) : a <= x /\ x <= b
  PROVE  a <= row.home /\ row.home <= b
<1>1. PICK r \in g.readings : row = HourRow(g, HourOf(r.at))
  BY DEF Earlier, Rows
<1> DEFINE hour == HourOf(r.at)
           here == {q \in g.readings : HourOf(q.at) = hour}
           same == {q \in g.readings : LocalHour(HourOf(q.at)) = LocalHour(HourOf(tick))}
           f == [q \in here |-> q.home]
<1>2. /\ row.hour = hour
      /\ row.home = IF Cardinality(here) >= EnoughReadings THEN Mean(f) ELSE DefaultLoad
  BY <1>1 DEF HourRow
<1>3. LocalHour(hour) = LocalHour(HourOf(tick))
  <2> HIDE DEF hour
  <2> QED BY <1>2 DEF Earlier
<1>4. r \in here /\ here \subseteq same
  BY <1>3
<1>5. /\ {q.home : q \in same} \subseteq SeenAt(g, tick)
      /\ Sparse(g, hour) => DefaultLoad \in SeenAt(g, tick)
  <2>1. r \in same
    BY <1>4
  <2> QED BY <2>1 DEF SeenAt
<1>6. CASE Cardinality(here) >= EnoughReadings
  <2>1. IsFiniteSet(here) /\ f \in [here -> Int]
    BY InputsAssumption, FS_Subset
  <2>2. \A q \in here : a <= f[q] /\ f[q] <= b
    BY <1>4, <1>5
  <2> HIDE DEF here, f
  <2>3. a <= Mean(f) /\ Mean(f) <= b
    BY <1>4, <2>1, <2>2, MeanBetween
  <2> QED BY <1>2, <1>6, <2>3
<1>7. CASE ~(Cardinality(here) >= EnoughReadings)
  <2>1. Cardinality(here) \in Nat /\ EnoughReadings \in Int
    <3>1. IsFiniteSet(here)
      BY InputsAssumption, FS_Subset
    <3> HIDE DEF here
    <3> QED BY <3>1, FS_CardinalityType, EnoughAssumption
  <2>2. Sparse(g, hour)
    <3> HIDE DEF hour
    <3>1. Cardinality(here) < EnoughReadings
      <4> HIDE DEF here
      <4> QED BY <1>7, <2>1
    <3> QED BY <3>1 DEF Sparse
  <2> HIDE DEF here, f, hour
  <2> QED BY <1>2, <1>5, <1>7, <2>2
<1> QED BY <1>6, <1>7

\* There is something to go by exactly where there is a row.
LEMMA SeenAtIs ==
  ASSUME NEW g \in Inputs, NEW tick
  PROVE  /\ IsFiniteSet(SeenAt(g, tick)) /\ SeenAt(g, tick) \in SUBSET Int
         /\ SeenAt(g, tick) = {} <=> Earlier(Rows(g), HourOf(tick)) = {}
<1> DEFINE same == {q \in g.readings : LocalHour(HourOf(q.at)) = LocalHour(HourOf(tick))}
           homes == {r.home : r \in same}
           rest == {DefaultLoad : r \in {q \in same : Sparse(g, HourOf(q.at))}}
<1>1. SeenAt(g, tick) = homes \cup rest
  BY DEF SeenAt
<1>2. IsFiniteSet(same)
  BY InputsAssumption, FS_Subset
<1>3. IsFiniteSet(homes)
  <2>1. [r \in same |-> r.home] \in Surjection(same, homes)
    BY DEF Surjection
  <2> HIDE DEF same, homes
  <2> QED BY <1>2, <2>1, FS_Surjection
<1>4. IsFiniteSet(rest)
  <2>1. rest \subseteq {DefaultLoad} /\ IsFiniteSet({DefaultLoad})
    BY FS_Singleton
  <2> HIDE DEF rest
  <2> QED BY <2>1, FS_Subset
<1>5. homes \cup rest \in SUBSET Int
  BY InputsAssumption, PowerAssumption
<1>6. Earlier(Rows(g), HourOf(tick)) = {} <=> same = {}
  <2>1. \A r \in g.readings : HourRow(g, HourOf(r.at)).hour = HourOf(r.at)
    BY DEF HourRow
  <2> QED BY <2>1 DEF Earlier, Rows
<1>7. homes \cup rest = {} <=> same = {}
  OBVIOUS
<1>8. IsFiniteSet(homes \cup rest)
  <2> HIDE DEF homes, rest
  <2> QED BY <1>3, <1>4, FS_Union
<1> HIDE DEF homes, rest, same
<1> QED BY <1>1, <1>5, <1>6, <1>7, <1>8

LEMMA ToldInvFollows == ToldInv => HistoryIsFollowed
<1> SUFFICES ASSUME ToldInv, entries # <<>> PROVE HistoryIsFollowed
  BY DEF HistoryIsFollowed
<1> DEFINE g == given
           n == Cardinality(g.eras)
           At(k) == SeenAt(g, entries[k].start)
           hour(k) == HourOf(Context(g).slots[k].start)
           b(k) == Baseline(hour(k), Rows(g), g.now)
<1>1. PICK powers :
        /\ g \in Inputs /\ ContextOf[g] = Context(g)
        /\ \A k \in DOMAIN entries :
             /\ k \in 1 .. n
             /\ entries[k].start = Context(g).slots[k].start
             /\ entries[k].power = powers[k]
             /\ entries[k].baseline = Context(g).baseline[k]
        /\ DOMAIN entries = 1 .. n
        /\ told.method = "hybrid" => powers = Hybrid(Context(g))
  BY EntriesAre
<1>2. ASSUME NEW k \in DOMAIN entries
      PROVE  /\ HourOf(entries[k].start) = hour(k) /\ entries[k].baseline = b(k)
             /\ IsFiniteSet(At(k)) /\ At(k) \in SUBSET Int
             /\ At(k) = {} <=> Earlier(Rows(g), hour(k)) = {}
             /\ \A x, y \in Int : (\A z \in At(k) : x <= z /\ z <= y) =>
                  \A r \in Earlier(Rows(g), hour(k)) : x <= r.home /\ r.home <= y
  <2>1. HourOf(entries[k].start) = hour(k) /\ entries[k].baseline = b(k)
    BY <1>1, ContextIs
  <2>2. /\ IsFiniteSet(At(k)) /\ At(k) \in SUBSET Int
        /\ At(k) = {} <=> Earlier(Rows(g), HourOf(entries[k].start)) = {}
    BY <1>1, SeenAtIs
  <2>3. ASSUME NEW x \in Int, NEW y \in Int, \A z \in At(k) : x <= z /\ z <= y,
               NEW r \in Earlier(Rows(g), HourOf(entries[k].start))
        PROVE  x <= r.home /\ r.home <= y
    BY <1>1, <2>3, RowLies
  <2> HIDE DEF hour, At, b
  <2> QED BY <2>1, <2>2, <2>3
<1>3. ASSUME NEW k \in DOMAIN entries, At(k) = {}
      PROVE  entries[k].baseline = DefaultLoad
  <2>1. Earlier(Rows(g), hour(k)) = {} /\ entries[k].baseline = b(k)
    BY <1>2, <1>3
  <2>2. b(k) = DefaultLoad
    <3> HIDE DEF hour
    <3> QED BY <2>1 DEF Baseline, Earlier
  <2> QED BY <2>1, <2>2
<1>4. ASSUME NEW k \in DOMAIN entries, At(k) # {}
      PROVE  Min(At(k)) <= entries[k].baseline /\ entries[k].baseline <= Max(At(k))
  <2> HIDE DEF At
  <2>1. PICK x \in Int, y \in Int :
          x = Min(At(k)) /\ y = Max(At(k)) /\ \A z \in At(k) : x <= z /\ z <= y
    <3>1. /\ Min(At(k)) \in At(k) /\ Max(At(k)) \in At(k)
          /\ \A z \in At(k) : Min(At(k)) <= z /\ z <= Max(At(k))
      BY <1>2, <1>4, MinMaxOfFinite
    <3> QED BY <1>2, <3>1
  <2>2. /\ Earlier(Rows(g), hour(k)) # {}
        /\ \A r \in Earlier(Rows(g), hour(k)) : x <= r.home /\ r.home <= y
    <3> HIDE DEF hour, b
    <3> QED BY <1>2, <1>4, <2>1
  <2>3. x <= b(k) /\ b(k) <= y
    <3> HIDE DEF hour
    <3> QED BY <1>1, <2>2, BaselineLies
  <2> HIDE DEF b, hour
  <2> QED BY <1>2, <2>1, <2>3
<1>5. ASSUME NEW power \in {r.home : r \in g.readings},
             told.method = "hybrid",
             \A r \in g.readings : r.home = power /\ ~Sparse(g, HourOf(r.at)),
             \A k \in DOMAIN entries : At(k) # {},
             g.live \in {Unknown, power},
             NEW k \in DOMAIN entries
      PROVE  entries[k].power = Clamp(power)
  <2>1. power \in Int
    BY <1>1, InputsAssumption
  <2>2. Steady(g, power)
    <3> SUFFICES ASSUME NEW r \in g.readings PROVE HourRow(g, HourOf(r.at)).home = power
      BY DEF Steady, Rows
    <3> DEFINE here == {q \in g.readings : HourOf(q.at) = HourOf(r.at)}
               f == [q \in here |-> q.home]
    <3>1. IsFiniteSet(here) /\ r \in here /\ f \in [here -> Int]
      BY <1>1, InputsAssumption, FS_Subset
    <3>2. \A q \in here : power <= f[q] /\ f[q] <= power
      BY <1>5, <2>1
    <3>3. Cardinality(here) \in Nat /\ EnoughReadings \in Int
      <4> HIDE DEF here
      <4> QED BY <3>1, FS_CardinalityType, EnoughAssumption
    <3>4. ~(Cardinality(here) < EnoughReadings)
      BY <1>5 DEF Sparse
    <3>5. Cardinality(here) >= EnoughReadings
      <4> HIDE DEF here
      <4> QED BY <3>3, <3>4
    <3>6. HourRow(g, HourOf(r.at)).home = Mean(f)
      BY <3>5 DEF HourRow
    <3> HIDE DEF here, f
    <3>7. Mean(f) \in Int /\ power <= Mean(f) /\ Mean(f) <= power
      BY <2>1, <3>1, <3>2, MeanBetween
    <3> QED BY <2>1, <3>6, <3>7
  <2>3. HoursKnown(g)
    <3>1. ASSUME NEW i \in 1 .. n PROVE Earlier(Rows(g), hour(i)) # {}
      <4>1. i \in DOMAIN entries
        BY <1>1
      <4> HIDE DEF At, hour, b
      <4> QED BY <1>2, <1>5, <4>1
    <3> QED BY <3>1 DEF HoursKnown
  <2>4. Hybrid(Context(g))[k] = Clamp(power)
    BY <1>1, <1>5, <2>1, <2>2, <2>3, HybridAgrees
  <2> QED BY <1>1, <1>5, <2>4
<1> HIDE DEF b, hour
<1> QED BY <1>3, <1>4, <1>5 DEF HistoryIsFollowed

\* The slots of the first day come first.
LEMMA FirstDayIs ==
  ASSUME NEW g \in Inputs
  PROVE  LET m == Firsts(Context(g))
         IN  m \in 0 .. Cardinality(g.eras) /\ FirstDay(Context(g).slots) = 1 .. m
<1> DEFINE n == Cardinality(g.eras)
           slots == Context(g).slots
           F == FirstDay(slots)
<1>1. n \in Nat /\ DOMAIN slots = 1 .. n
  BY SlotsAre
<1>2. \A k \in 1 .. n : slots[k].start \in Int
  <2>1. \A e \in g.eras : e.start \in Int
    BY InputsAssumption
  <2>2. \A k \in 1 .. n : slots[k] \in g.eras
    BY SlotsAre
  <2> QED BY <2>1, <2>2
<1>3. PICK day \in Int : day = HourTicks * DayHours
  BY TimeAssumption
<1>4. F = {k \in 1 .. n : slots[k].start < slots[1].start + day}
  BY <1>1, <1>3 DEF FirstDay
<1>5. ASSUME NEW j \in F, NEW i \in 1 .. j PROVE i \in F
  <2>1. i \in 1 .. n /\ j \in 1 .. n /\ 1 \in 1 .. n
    BY <1>1, <1>4
  <2>2. slots[i].start <= slots[j].start
    BY <2>1, <1>1, <1>2, SlotsAre
  <2> HIDE DEF slots, n, F
  <2> QED BY <1>2, <1>3, <1>4, <2>1, <2>2
<1> HIDE DEF slots, n, F
<1>6. F \in SUBSET (1 .. n) /\ F \in SUBSET Int /\ IsFiniteSet(F)
  <2>1. F \in SUBSET (1 .. n)
    BY <1>4
  <2>2. IsFiniteSet(1 .. n)
    <3>1. 1 \in Int /\ n \in Int
      BY <1>1
    <3> QED BY <3>1, FS_Interval
  <2>3. F \in SUBSET Int
    BY <1>1, <2>1
  <2>4. IsFiniteSet(F)
    BY <2>1, <2>2, FS_Subset
  <2> QED BY <2>1, <2>3, <2>4
<1>7. PICK m \in 0 .. n : F = 1 .. m
  <2>1. CASE F = {}
    <3>1. 0 \in 0 .. n /\ 1 .. 0 = {}
      BY <1>1
    <3> QED BY <2>1, <3>1
  <2>2. CASE F # {}
    <3>1. PICK m \in F : \A x \in F : x <= m
      BY <1>6, <2>2, MinMaxOfFinite
    <3>2. \A x \in F : x \in 1 .. m
      BY <1>6, <3>1
    <3>3. \A i \in 1 .. m : i \in F
      BY <1>5, <3>1
    <3>4. m \in 0 .. n
      BY <1>1, <1>6, <3>1
    <3> QED BY <3>2, <3>3, <3>4
  <2> QED BY <2>1, <2>2
<1>8. Cardinality(F) = m
  <2>1. 1 \in Int /\ m \in Int /\ m - 1 + 1 = m
    BY <1>7
  <2>2. Cardinality(1 .. m) = IF 1 > m THEN 0 ELSE m - 1 + 1
    BY <2>1, FS_Interval
  <2> QED BY <1>7, <2>2
<1> QED BY <1>7, <1>8 DEF Firsts, F, slots, n

\* Only the first slot follows the present power.
LEMMA AnchoredIs ==
  ASSUME NEW n \in Nat, NEW s \in [1 .. n -> Int], NEW live \in Int
  PROVE  /\ Anchored(s, live) \in [1 .. n -> Int]
         /\ \A i \in 2 .. n : Anchored(s, live)[i] = s[i]
         /\ live = Unknown => Anchored(s, live) = s
<1>1. CASE live = Unknown
  BY <1>1 DEF Anchored
<1>2. CASE live # Unknown
  <2> DEFINE x == Clamp((70 * s[1] + 30 * live) \div 100)
  <2>1. n > 0 => x \in Int
    <3>1. n > 0 => s[1] \in Int
      OBVIOUS
    <3>2. ASSUME NEW y \in Int PROVE (70 * y + 30 * live) \div 100 \in Int
      OBVIOUS
    <3> QED BY <3>1, <3>2, ClampType
  <2>2. Anchored(s, live) = [s EXCEPT ![1] = x]
    BY <1>2 DEF Anchored
  <2> HIDE DEF x
  <2>3. n > 0 <=> 1 \in 1 .. n
    OBVIOUS
  <2>4. [s EXCEPT ![1] = x] \in [1 .. n -> Int]
    BY <2>1, <2>3
  <2>5. \A i \in 2 .. n : i \in 1 .. n /\ i # 1
    OBVIOUS
  <2>6. \A i \in 2 .. n : [s EXCEPT ![1] = x][i] = s[i]
    BY <2>5
  <2> QED BY <1>2, <2>2, <2>4, <2>6
<1> QED BY <1>1, <1>2

\* What a model's answers become are integers,
LEMMA PredictedType ==
  ASSUME NEW g \in Inputs, NEW v \in Versions
  PROVE  Predicted(Context(g), Target[v]) \in [1 .. Cardinality(g.eras) -> Int]
<1> DEFINE c == Context(g)
           n == Cardinality(g.eras)
           s == [k \in DOMAIN c.slots |-> Clamp(Decoded(c.answers[k], c.baseline[k], Target[v]))]
<1>1. n \in Nat /\ DOMAIN c.slots = 1 .. n
  BY SlotsAre
<1>2. ASSUME NEW k \in 1 .. n
      PROVE  Decoded(c.answers[k], c.baseline[k], Target[v]) \in Int
  <2>1. PICK a \in Int, b \in Int : a = c.answers[k] /\ b = c.baseline[k]
    <3>1. c.answers[k] \in Int
      BY ContextIs, InputsAssumption
    <3>2. c.baseline[k] \in Int
      <4> DEFINE hour == HourOf(c.slots[k].start)
      <4>1. c.baseline[k] = Baseline(hour, Rows(g), g.now)
        BY ContextIs
      <4> HIDE DEF hour, c
      <4> QED BY <4>1, BaselineType
    <3> QED BY <3>1, <3>2
  <2>2. Max({20, Min({a, 300})}) \in Int
    <3>1. 20 \in Int /\ 300 \in Int
      OBVIOUS
    <3>2. PICK x \in Int : x = Min({a, 300})
      BY <3>1, MinOfTwo
    <3>3. Max({20, x}) \in Int
      BY <3>1, MaxOfTwo
    <3> QED BY <3>2, <3>3
  <2>3. Target[v] \in {"absolute", "delta", "ratio"}
    BY TargetAssumption
  <2>4. \A x \in Int : (b * x) \div 100 \in Int
    OBVIOUS
  <2>5. Decoded(a, b, Target[v]) \in Int
    BY <2>2, <2>3, <2>4 DEF Decoded
  <2> QED BY <2>1, <2>5
<1>3. s \in [1 .. n -> Int]
  <2> HIDE DEF c, n
  <2> QED BY <1>1, <1>2, ClampType
<1>4. Predicted(c, Target[v]) = Anchored(s, c.live)
  BY DEF Predicted
<1>5. c.live \in Int
  BY ContextIs, InputsAssumption
<1> HIDE DEF c, n, s
<1>6. Anchored(s, c.live) \in [1 .. n -> Int]
  BY <1>1, <1>3, <1>5, AnchoredIs
<1> QED BY <1>4, <1>6 DEF c, n

\* and so is the reference, which has a value for each slot of the first day.
LEMMA ReferenceType ==
  ASSUME NEW g \in Inputs, Reference(Context(g)) # <<>>
  PROVE  Reference(Context(g)) \in [1 .. Firsts(Context(g)) -> Int]
<1> DEFINE c == Context(g)
           recent == {r \in ToSet(c.history) :
                        /\ r.valid
                        /\ r.hour > c.history[Len(c.history)].hour - RecentDays * DayHours}
           Of(k) == {r \in recent : LocalHour(r.hour) = LocalHour(HourOf(c.slots[k].start))}
           F == FirstDay(c.slots)
<1>1. /\ \A k \in F : Of(k) # {}
      /\ Reference(c) = [k \in F |-> Mean([r \in Of(k) |-> r.home])]
  BY DEF Reference
<1>2. recent \in SUBSET Rows(g)
  BY ContextIs
<1> HIDE DEF recent
<1>3. ASSUME NEW k \in F PROVE Mean([r \in Of(k) |-> r.home]) \in Int
  <2>1. Of(k) \in SUBSET Rows(g)
    BY <1>2
  <2>2. IsFiniteSet(Of(k)) /\ Of(k) # {}
    BY <1>1, <2>1, RowsFinite, FS_Subset
  <2>3. [r \in Of(k) |-> r.home] \in [Of(k) -> Int]
    BY <2>1, RowType
  <2> HIDE DEF Of
  <2> QED BY <2>2, <2>3, MeanType
<1>4. F = 1 .. Firsts(c)
  BY FirstDayIs
<1> HIDE DEF Of, F, c
<1>5. Reference(c) \in [1 .. Firsts(c) -> Int]
  BY <1>1, <1>3, <1>4
<1> QED BY <1>5 DEF c

\* By power, and slots of the same power by their place
ByPower(f, D) == {q \in D \X D : f[q[1]] < f[q[2]] \/ (f[q[1]] = f[q[2]] /\ q[1] < q[2])}

\* It is a linear order, and Dealt counts what precedes a slot in it.
LEMMA ByPowerRanks ==
  ASSUME NEW m \in Nat, NEW f, \A k \in 1 .. m : f[k] \in Int
  PROVE  LET D == 1 .. m
             L == ByPower(f, D)
         IN  /\ IsFiniteSet(D) /\ IsLinear(L, D)
             /\ \A k \in D :
                  Cardinality({j \in D : f[j] < f[k] \/ (f[j] = f[k] /\ j < k)}) = Rank(L, D, k)
<1> DEFINE D == 1 .. m
           L == ByPower(f, D)
<1>1. IsFiniteSet(D)
  <2>1. 1 \in Int /\ m \in Int
    OBVIOUS
  <2> QED BY <2>1, FS_Interval
<1>2. IsLinear(L, D)
  <2>1. D \in SUBSET Int /\ \A k \in D : f[k] \in Int
    OBVIOUS
  <2> HIDE DEF D
  <2> QED BY <2>1 DEF IsLinear, ByPower
<1>3. ASSUME NEW k \in D
      PROVE  Cardinality({j \in D : f[j] < f[k] \/ (f[j] = f[k] /\ j < k)}) = Rank(L, D, k)
  <2> HIDE DEF D
  <2>1. {j \in D : f[j] < f[k] \/ (f[j] = f[k] /\ j < k)} = Preceding(L, D, k)
    BY DEF Preceding, ByPower
  <2> QED BY <2>1 DEF Rank
<1> QED BY <1>1, <1>2, <1>3

\* p tells which of the first m values of the reference a slot is given.
DealtBy(p, m, s, ref) ==
  /\ \A i, j \in 1 .. m : p[i] = p[j] => i = j
  /\ \A i, j \in 1 .. m : s[i] < s[j] => ref[p[i]] <= ref[p[j]]
  /\ \A k \in 1 .. m : Dealt(s, ref)[k] = Clamp(ref[p[k]])

\* The reference is dealt out one to one, more of it to the slots with more power.
LEMMA DealtIs ==
  ASSUME NEW m \in Nat, NEW n \in Nat, m <= n,
         NEW s \in [1 .. n -> Int], NEW ref \in [1 .. m -> Int]
  PROVE  /\ Dealt(s, ref) \in [1 .. n -> Int]
         /\ \E p \in [1 .. m -> 1 .. m] : DealtBy(p, m, s, ref)
<1> DEFINE D == 1 .. m
           Ranks(f, k) == Cardinality({j \in D : f[j] < f[k] \/ (f[j] = f[k] /\ j < k)})
           p == [k \in D |-> CHOOSE j \in D : Ranks(ref, j) = Ranks(s, k)]
           L == ByPower(ref, D)
           M == ByPower(s, D)
<1>1. /\ IsFiniteSet(D) /\ IsLinear(L, D) /\ \A k \in D : Ranks(ref, k) = Rank(L, D, k)
  BY ByPowerRanks
<1>2. IsLinear(M, D) /\ \A k \in D : Ranks(s, k) = Rank(M, D, k)
  <2>1. \A k \in 1 .. m : s[k] \in Int
    OBVIOUS
  <2> QED BY <2>1, ByPowerRanks
<1> HIDE DEF Ranks
<1>3. ASSUME NEW k \in D PROVE p[k] \in D /\ Rank(L, D, p[k]) = Rank(M, D, k)
  <2>1. Rank(M, D, k) \in 0 .. Cardinality(D) - 1
    <3> HIDE DEF M, D
    <3> QED BY <1>1, <1>2, RanksAreAll
  <2>2. \E j \in D : Rank(L, D, j) = Rank(M, D, k)
    <3> HIDE DEF L, M, D
    <3> QED BY <1>1, <2>1, RanksAreAll
  <2>3. \E j \in D : Ranks(ref, j) = Ranks(s, k)
    <3> HIDE DEF L, M, D
    <3> QED BY <1>1, <1>2, <2>2
  <2>4. p[k] \in D /\ Ranks(ref, p[k]) = Ranks(s, k)
    <3> HIDE DEF D
    <3> QED BY <2>3
  <2> HIDE DEF L, M, D, p
  <2> QED BY <1>1, <1>2, <2>4
<1>4. Dealt(s, ref) = [k \in 1 .. n |-> IF k \notin D THEN s[k] ELSE Clamp(ref[p[k]])]
  BY DEF Dealt, Ranks
<1>a. \A k \in D : k \in 1 .. n /\ Dealt(s, ref)[k] = Clamp(ref[p[k]])
  <2>1. \A k \in D : k \in 1 .. n
    OBVIOUS
  <2> HIDE DEF D, p
  <2> QED BY <1>4, <2>1
<1>5. Dealt(s, ref) \in [1 .. n -> Int]
  <2>2. \A k \in D : ref[p[k]] \in Int
    <3> HIDE DEF p
    <3> QED BY <1>3
  <2> HIDE DEF p, D
  <2> QED BY <1>4, <2>2, ClampType
<1>6. ASSUME NEW i \in D, NEW j \in D, s[i] < s[j]
      PROVE  ref[p[i]] <= ref[p[j]]
  <2>1. <<i, j>> \in M
    BY <1>6 DEF ByPower
  <2>2. Rank(M, D, i) \in Int /\ Rank(M, D, j) \in Int /\ Rank(M, D, i) < Rank(M, D, j)
    <3> HIDE DEF M, D
    <3> QED BY <1>1, <1>2, <2>1, RanksAreAll
  <2>3. p[i] \in D /\ p[j] \in D
    BY <1>3
  <2>4. ~(Rank(L, D, p[j]) < Rank(L, D, p[i]))
    <3> HIDE DEF L, M, D, p
    <3> QED BY <1>3, <2>2
  <2>5. <<p[j], p[i]>> \notin L
    <3> HIDE DEF L, M, D, p
    <3> QED BY <1>1, <2>3, <2>4, RanksAreAll
  <2>6. ref[p[i]] \in Int /\ ref[p[j]] \in Int
    <3> HIDE DEF p
    <3> QED BY <2>3
  <2> HIDE DEF p
  <2> QED BY <2>3, <2>5, <2>6 DEF ByPower
<1>7. ASSUME NEW i \in D, NEW j \in D, p[i] = p[j] PROVE i = j
  <2>1. Rank(M, D, i) = Rank(M, D, j)
    <3> HIDE DEF L, M, D, p
    <3> QED BY <1>3, <1>7
  <2>2. /\ Rank(M, D, i) \in Int
        /\ <<i, j>> \in M => Rank(M, D, i) < Rank(M, D, j)
        /\ <<j, i>> \in M => Rank(M, D, j) < Rank(M, D, i)
    <3>1. Cardinality(D) \in Nat
      BY <1>1, FS_CardinalityType
    <3> HIDE DEF M, D
    <3>2. Rank(M, D, i) \in 0 .. Cardinality(D) - 1
      BY <1>1, <1>2, RanksAreAll
    <3>3. \A x, y \in D : <<x, y>> \in M => Rank(M, D, x) < Rank(M, D, y)
      BY <1>1, <1>2, RanksAreAll
    <3> QED BY <3>1, <3>2, <3>3
  <2>3. <<i, j>> \notin M /\ <<j, i>> \notin M
    <3> HIDE DEF M, D
    <3> QED BY <2>1, <2>2
  <2> HIDE DEF M, D
  <2> QED BY <1>2, <2>3 DEF IsLinear
<1>8. p \in [D -> D]
  <2> HIDE DEF D, Ranks
  <2>1. \A k \in D : p[k] \in D
    BY <1>3
  <2> QED BY <2>1
<1> HIDE DEF p
<1>9. DealtBy(p, m, s, ref)
  BY <1>a, <1>6, <1>7 DEF DealtBy
<1> QED BY <1>5, <1>8, <1>9

\* The spread is never negative, and neither it nor the sum depends on the order.
LEMMA SpreadIs ==
  ASSUME NEW D, IsFiniteSet(D), NEW w \in [D -> Int]
  PROVE  /\ Spread(w) \in Nat
         /\ \A p \in [D -> D] : (\A x, y \in D : p[x] = p[y] => x = y) =>
              /\ Spread([x \in D |-> w[p[x]]]) = Spread(w)
              /\ SumFunction([x \in D |-> w[p[x]]]) = SumFunction(w)
<1> DEFINE n == Cardinality(D)
<1>1. n \in Nat
  BY FS_CardinalityType
<1>2. ASSUME NEW v \in [D -> Int]
      PROVE  /\ SumFunction(v) = SumFunctionOnSet(v, D)
             /\ SumFunctionOnSet(v, D) \in Int
             /\ SumFunctionOnSet(SquaresOf(v, D), D) \in Int
             /\ Spread(v) = n * SumFunctionOnSet(SquaresOf(v, D), D)
                            - SumFunctionOnSet(v, D) * SumFunctionOnSet(v, D)
  <2>1. SquaresOf(v, D) \in [D -> Int] /\ [k \in DOMAIN v |-> v[k] * v[k]] = SquaresOf(v, D)
    BY DEF SquaresOf
  <2> QED BY <2>1, SumType DEF Spread, SumFunction
<1>3. Spread(w) \in Nat
  <2>1. PICK t \in Int, q \in Int : t = SumFunctionOnSet(w, D) /\ q = SumFunctionOnSet(SquaresOf(w, D), D)
    BY <1>2
  <2>2. t * t <= n * q
    BY <2>1, SumSquared
  <2>3. Spread(w) = n * q - t * t
    BY <1>2, <2>1
  <2>4. n * q \in Int /\ t * t \in Int
    BY <1>1
  <2> QED BY <2>2, <2>3, <2>4
<1>4. ASSUME NEW p \in [D -> D], \A x, y \in D : p[x] = p[y] => x = y
      PROVE  /\ Spread([x \in D |-> w[p[x]]]) = Spread(w)
             /\ SumFunction([x \in D |-> w[p[x]]]) = SumFunction(w)
  <2> DEFINE v == [x \in D |-> w[p[x]]]
  <2>1. v \in [D -> Int]
    OBVIOUS
  <2>2. SumFunctionOnSet(v, D) = SumFunctionOnSet(w, D)
    BY <1>4, SumPermuted
  <2>3. SumFunctionOnSet(SquaresOf(v, D), D) = SumFunctionOnSet(SquaresOf(w, D), D)
    <3> DEFINE u == SquaresOf(w, D)
    <3>1. u \in [D -> Int] /\ SquaresOf(v, D) = [x \in D |-> u[p[x]]]
      BY DEF SquaresOf
    <3> HIDE DEF u, v
    <3>2. SumFunctionOnSet([x \in D |-> u[p[x]]], D) = SumFunctionOnSet(u, D)
      BY <1>4, <3>1, SumPermuted
    <3> QED BY <3>1, <3>2 DEF u
  <2> HIDE DEF v, n
  <2>4. Spread(v) = Spread(w) /\ SumFunction(v) = SumFunction(w)
    BY <1>2, <2>1, <2>2, <2>3
  <2> QED BY <2>4 DEF v
<1> QED BY <1>3, <1>4

LEMMA TenthsMonotone ==
  ASSUME NEW q \in Int, NEW r \in Int, q <= r
  PROVE  q \div 10 \in Int /\ r \div 10 \in Int /\ q \div 10 <= r \div 10
OBVIOUS

\* The deviations are made smaller without a change of the order, and not at all
\* where the day is as uneven as the reference.
LEMMA TemperedIs ==
  ASSUME NEW m \in Nat, NEW n \in Nat, m <= n,
         NEW s \in [1 .. n -> Int], NEW ref \in [1 .. m -> Int]
  PROVE  /\ \A i, j \in 1 .. m : s[i] <= s[j] => Tempered(s, ref)[i] <= Tempered(s, ref)[j]
         /\ Spread([k \in 1 .. m |-> s[k]]) = Spread(ref) => Tempered(s, ref) = s
<1> DEFINE D == 1 .. m
           day == [k \in DOMAIN ref |-> s[k]]
           most == MaxSpread[1] * MaxSpread[1] * Spread(ref)
           has == MaxSpread[2] * MaxSpread[2] * Spread(day)
           center == Mean(day)
           T == {t \in 0 .. 9 : t * t * has <= 100 * most}
           tenths == Max(T)
           moved(k) == center + ((s[k] - center) * tenths) \div 10
<1>1. IsFiniteSet(D) /\ day \in [D -> Int] /\ day = [k \in 1 .. m |-> s[k]]
  <2>1. 1 \in Int /\ m \in Int
    OBVIOUS
  <2> QED BY <2>1, FS_Interval
<1>2. PICK a \in Nat, b \in Nat : a = MaxSpread[1] /\ b = MaxSpread[2] /\ b <= a
  BY SpreadAssumption
<1>3. PICK x \in Nat, y \in Nat : x = Spread(ref) /\ y = Spread(day)
  <2> HIDE DEF D, day
  <2> QED BY <1>1, SpreadIs
<1>4. most = a * a * x /\ has = b * b * y /\ most \in Nat /\ has \in Nat
  <2>1. most = a * a * x /\ has = b * b * y
    <3> HIDE DEF day
    <3> QED BY <1>2, <1>3
  <2>2. \A p, q \in Nat : p * p * q \in Nat
    OBVIOUS
  <2> HIDE DEF most, has
  <2> QED BY <2>1, <2>2
<1>5. Tempered(s, ref) = IF x = 0 \/ has <= most THEN s
                         ELSE [k \in DOMAIN s |-> IF k \in DOMAIN ref THEN Clamp(moved(k)) ELSE s[k]]
  <2> HIDE DEF D
  <2> QED BY <1>3 DEF Tempered
<1>6. x = y => has <= most
  <2>1. ASSUME x = y PROVE b * b * x <= a * a * x
    <3>1. ASSUME NEW p \in Nat, NEW q \in Nat, NEW r \in Nat, p <= q PROVE p * r <= q * r
      BY <3>1
    <3>2. PICK d \in Nat : a = b + d
      <4>1. a - b \in Nat /\ a = b + (a - b)
        BY <1>2
      <4> QED BY <4>1
    <3>3. PICK u \in Nat, v \in Nat, w \in Nat : u = b * b /\ v = b * d /\ w = d * d
      OBVIOUS
    <3>4. a * a = u + 2 * v + w
      BY <3>2, <3>3
    <3>5. b * b <= a * a /\ b * b \in Nat /\ a * a \in Nat
      BY <3>3, <3>4
    <3> QED BY <3>1, <3>5
  <2> HIDE DEF has, most
  <2> QED BY <1>4, <2>1
<1>7. ASSUME NEW i \in D, NEW j \in D, s[i] <= s[j], ~(x = 0 \/ has <= most)
      PROVE  Clamp(moved(i)) <= Clamp(moved(j))
  <2>1. PICK t \in Nat : t = tenths
    <3>1. T \in SUBSET Int /\ 0 \in T /\ T \in SUBSET (0 .. 9)
      <4> HIDE DEF has, most
      <4> QED BY <1>4
    <3>2. IsFiniteSet(T)
      <4>1. 0 \in Int /\ 9 \in Int
        OBVIOUS
      <4>2. IsFiniteSet(0 .. 9)
        BY <4>1, FS_Interval
      <4> QED BY <3>1, <4>2, FS_Subset
    <3> HIDE DEF T
    <3>3. tenths \in T
      BY <3>1, <3>2, MinMaxOfFinite
    <3>4. tenths \in 0 .. 9
      BY <3>1, <3>3
    <3> HIDE DEF tenths
    <3> QED BY <3>4
  <2>2. PICK e \in Int : e = center
    <3>1. D # {}
      BY <1>7
    <3> HIDE DEF D, day
    <3> QED BY <1>1, <3>1, MeanType
  <2>3. PICK u \in Int, v \in Int : u = s[i] /\ v = s[j] /\ u <= v
    BY <1>7
  <2>4. (u - e) * t <= (v - e) * t
    <3>1. (v - e) * t = (u - e) * t + (v - u) * t /\ (v - u) * t >= 0
      BY <2>3
    <3> QED BY <3>1
  <2>5. PICK q \in Int, r \in Int : q = (u - e) * t /\ r = (v - e) * t /\ q <= r
    BY <2>4
  <2>6. e + q \div 10 \in Int /\ e + r \div 10 \in Int /\ e + q \div 10 <= e + r \div 10
    <3>1. q <= r
      BY <2>5
    <3>2. q \div 10 \in Int /\ r \div 10 \in Int /\ q \div 10 <= r \div 10
      BY <3>1, TenthsMonotone
    <3> QED BY <3>2
  <2>7. moved(i) = e + q \div 10 /\ moved(j) = e + r \div 10
    <3> HIDE DEF tenths, center
    <3> QED BY <2>1, <2>2, <2>3, <2>5
  <2> HIDE DEF moved
  <2> QED BY <2>6, <2>7, ClampMonotone
<1>8. \A i \in D : i \in DOMAIN s /\ i \in DOMAIN ref
  OBVIOUS
<1> HIDE DEF moved, has, most
<1>9. Spread([k \in 1 .. m |-> s[k]]) = Spread(ref) => Tempered(s, ref) = s
  BY <1>1, <1>3, <1>5, <1>6
<1>10. ASSUME NEW i \in D, NEW j \in D, s[i] <= s[j]
       PROVE  Tempered(s, ref)[i] <= Tempered(s, ref)[j]
  <2>1. CASE x = 0 \/ has <= most
    BY <1>5, <1>10, <2>1
  <2>2. CASE ~(x = 0 \/ has <= most)
    <3>1. Tempered(s, ref) = [k \in DOMAIN s |-> IF k \in DOMAIN ref THEN Clamp(moved(k)) ELSE s[k]]
      BY <1>5, <2>2
    <3>2. Tempered(s, ref)[i] = Clamp(moved(i)) /\ Tempered(s, ref)[j] = Clamp(moved(j))
      BY <1>8, <3>1
    <3> QED BY <1>7, <1>10, <2>2, <3>2
  <2> QED BY <2>1, <2>2
<1> QED BY <1>9, <1>10

LEMMA ToldInvShapes == ToldInv => ShapeIsKept
<1> DEFINE g == given
           c == Context(g)
           n == Cardinality(g.eras)
           m == Firsts(c)
           before == Predicted(c, Target[told.version])
           ref == Reference(c)
           after == Shaped(c, before)
           Fits == /\ g.live = Unknown /\ m >= EnoughSlots /\ ref # <<>>
                   /\ \A k \in DOMAIN ref : ref[k] \in LeastLoad .. MostLoad
           Keeps == /\ \A i, j \in 2 .. m : before[i] < before[j] => after[i] <= after[j]
                    /\ Fits => SumFunction([k \in 1 .. m |-> after[k]]) = SumFunction(ref)
<1> SUFFICES ASSUME ToldInv, entries # <<>>, told.method = "catboost"
             PROVE  ShapeIsKept
  BY DEF ShapeIsKept
<1>1. /\ g \in Inputs /\ ContextOf[g] = c /\ told.version \in Versions
      /\ \A k \in 1 .. n : entries[k].power = after[k]
  <2>1. PICK powers : /\ \A k \in DOMAIN entries : entries[k].power = powers[k]
                      /\ DOMAIN entries = 1 .. n
                      /\ told.version \in Versions /\ powers = after
    BY EntriesAre
  <2>2. g \in Inputs /\ ContextOf[g] = c
    BY EntriesAre
  <2> HIDE DEF after, n, g, c
  <2> QED BY <2>1, <2>2
<1>2. n \in Nat /\ m \in Nat /\ m <= n /\ FirstDay(c.slots) = 1 .. m
  BY <1>1, SlotsAre, FirstDayIs
<1>3. before \in [1 .. n -> Int] /\ g.live \in Int /\ c.live = g.live
  BY <1>1, PredictedType, ContextIs, InputsAssumption
<1>4. ref # <<>> => ref \in [1 .. m -> Int]
  BY <1>1, ReferenceType
<1>5. Keeps
  <2>1. CASE Cardinality(FirstDay(c.slots)) < EnoughSlots \/ ref = <<>>
    <3>1. after = before
      BY <2>1 DEF Shaped
    <3>2. \A i \in 2 .. m : before[i] \in Int
      <4> HIDE DEF before, m, n
      <4>1. \A i \in 2 .. m : i \in 1 .. n
        BY <1>2
      <4> QED BY <1>3, <4>1
    <3>3. \A i, j \in 2 .. m : before[i] < before[j] => after[i] <= after[j]
      <4> HIDE DEF before, after, m
      <4> QED BY <3>1, <3>2
    <3>4. ~Fits
      <4>1. m = Cardinality(FirstDay(c.slots))
        BY DEF Firsts
      <4>2. m \in Nat /\ EnoughSlots \in Nat
        BY <1>2, EnoughAssumption
      <4>3. m < EnoughSlots \/ ref = <<>>
        BY <2>1, <4>1
      <4> HIDE DEF ref, c, m, g
      <4> QED BY <4>2, <4>3
    <3> QED BY <3>3, <3>4
  <2>2. CASE ~(Cardinality(FirstDay(c.slots)) < EnoughSlots \/ ref = <<>>)
    <3> DEFINE dealt == Dealt(before, ref)
               anchored == Anchored(dealt, g.live)
    <3>1. after = Tempered(anchored, ref)
      BY <1>3, <2>2 DEF Shaped
    <3>2. ref \in [1 .. m -> Int]
      BY <1>4, <2>2
    <3> HIDE DEF before, after, ref, m, n, c, g
    <3>3. dealt \in [1 .. n -> Int]
      BY <1>2, <1>3, <3>2, DealtIs
    <3>4. PICK p \in [1 .. m -> 1 .. m] :
            /\ \A i, j \in 1 .. m : p[i] = p[j] => i = j
            /\ \A i, j \in 1 .. m : before[i] < before[j] => ref[p[i]] <= ref[p[j]]
            /\ \A k \in 1 .. m : dealt[k] = Clamp(ref[p[k]])
      <4>1. PICK p \in [1 .. m -> 1 .. m] : DealtBy(p, m, before, ref)
        BY <1>2, <1>3, <3>2, DealtIs
      <4> QED BY <4>1 DEF DealtBy
    <3> HIDE DEF dealt
    <3>5. /\ anchored \in [1 .. n -> Int]
          /\ \A i \in 2 .. n : anchored[i] = dealt[i]
          /\ g.live = Unknown => anchored = dealt
      BY <1>2, <1>3, <3>3, AnchoredIs
    <3> HIDE DEF anchored
    <3>6. /\ \A i, j \in 1 .. m : anchored[i] <= anchored[j] => after[i] <= after[j]
          /\ Spread([k \in 1 .. m |-> anchored[k]]) = Spread(ref) => after = anchored
      BY <1>2, <3>1, <3>2, <3>5, TemperedIs
    <3>7. ASSUME NEW i \in 2 .. m, NEW j \in 2 .. m, before[i] < before[j]
          PROVE  after[i] <= after[j]
      <4>1. i \in 1 .. m /\ j \in 1 .. m /\ i \in 2 .. n /\ j \in 2 .. n
        BY <1>2
      <4>2. ref[p[i]] \in Int /\ ref[p[j]] \in Int /\ ref[p[i]] <= ref[p[j]]
        BY <3>2, <3>4, <3>7, <4>1
      <4>3. Clamp(ref[p[i]]) <= Clamp(ref[p[j]])
        BY <4>2, ClampMonotone
      <4>4. anchored[i] <= anchored[j]
        BY <3>4, <3>5, <4>1, <4>3
      <4> QED BY <3>6, <4>1, <4>4
    <3>8. ASSUME Fits PROVE SumFunction([k \in 1 .. m |-> after[k]]) = SumFunction(ref)
      <4> DEFINE D == 1 .. m
                 turned == [k \in D |-> ref[p[k]]]
      <4>1. IsFiniteSet(D)
        <5>1. 1 \in Int /\ m \in Int
          BY <1>2
        <5> QED BY <5>1, FS_Interval
      <4>2. Spread(turned) = Spread(ref) /\ SumFunction(turned) = SumFunction(ref)
        <5>1. ref \in [D -> Int] /\ p \in [D -> D] /\ \A i, j \in D : p[i] = p[j] => i = j
          BY <3>2, <3>4
        <5> HIDE DEF D
        <5>2. \A q \in [D -> D] : (\A x, y \in D : q[x] = q[y] => x = y) =>
                /\ Spread([x \in D |-> ref[q[x]]]) = Spread(ref)
                /\ SumFunction([x \in D |-> ref[q[x]]]) = SumFunction(ref)
          BY <4>1, <5>1, SpreadIs
        <5> QED BY <5>1, <5>2
      <4>3. ASSUME NEW k \in D PROVE dealt[k] = ref[p[k]]
        <5>1. PICK x \in LeastLoad .. MostLoad : x = ref[p[k]]
          BY <3>2, <3>4, <3>8
        <5>2. Clamp(x) = x
          BY <5>1, ClampIs, PowerAssumption
        <5> QED BY <3>4, <5>1, <5>2
      <4>4. anchored = dealt
        BY <3>5, <3>8
      <4>5. [k \in 1 .. m |-> anchored[k]] = turned
        BY <4>3, <4>4
      <4> HIDE DEF turned
      <4>6. after = anchored
        BY <3>6, <4>2, <4>5
      <4> QED BY <4>2, <4>5, <4>6
    <3> QED BY <3>7, <3>8
  <2> QED BY <2>1, <2>2
<1>6. [k \in 1 .. m |-> entries[k].power] = [k \in 1 .. m |-> after[k]]
  <2> HIDE DEF after, m, n
  <2>1. \A k \in 1 .. m : k \in 1 .. n
    BY <1>2
  <2> QED BY <1>1, <2>1
<1>7. \A i \in 2 .. m : i \in 1 .. n
  BY <1>2
<1> HIDE DEF after, before, ref, m, n, c, Fits
<1>8. /\ \A i, j \in 2 .. m : before[i] < before[j] => entries[i].power <= entries[j].power
      /\ Fits => SumFunction([k \in 1 .. m |-> entries[k].power]) = SumFunction(ref)
  BY <1>1, <1>5, <1>6, <1>7
<1> QED BY <1>1, <1>8 DEF ShapeIsKept, before, ref, m, c, Fits

\* The baseline of each slot lies within what was read at its hour of the day, where
\* aggregateHistoryByHour takes the default power for each hour with too few readings
\* and predictBaselineHousePower for an hour of the day without any; and a house that
\* was always read to use the same, often enough in each hour, is forecast to use that:
\* predictFromNeighbors and computeRecentBias all agree then, each slot of
\* buildHybridFallbackForecast follows those before it, and clamping is all that
\* comes between.
THEOREM HistoryFollowed == DemandSpec => []HistoryIsFollowed
<1>1. DemandInit => ToldInv
  BY DEF DemandInit, Init, ToldInv
<1>2. ForecastInv => IInv
  BY DEF ForecastInv
<1> QED
  BY <1>1, <1>2, ToldInvFollows, InitForecastInv, StepForecastInv, StepToldInv,
     PTL DEF DemandSpec

\* calibrateForecastShape keeps the order of the slots after the first and, without
\* a present power, gives the day the sum of its reference.
THEOREM ShapeKept == DemandSpec => []ShapeIsKept
<1>1. DemandInit => ToldInv
  BY DEF DemandInit, Init, ToldInv
<1>2. ForecastInv => IInv
  BY DEF ForecastInv
<1> QED
  BY <1>1, <1>2, ToldInvShapes, InitForecastInv, StepForecastInv, StepToldInv,
     PTL DEF DemandSpec
=============================================================================
