----------------------------- MODULE ModelStore -----------------------------
(***************************************************************************)
(* The model directory of the load forecast (load-forecast-artifact.       *)
(* service.ts) and the model kept in memory (load-forecast-inference.      *)
(* service.ts): how a trained candidate is copied to current.next and      *)
(* renamed to current, how the bundled starter model is put there when     *)
(* current is unusable, and which model then answers a forecast.           *)
(*                                                                         *)
(* Every copied, renamed or deleted file or directory is a step: the       *)
(* process can die between any two.  The calls of one promotion or one     *)
(* seeding are synchronous, so nothing else of the process runs between    *)
(* them.  A directory is its manifest and its model file; a version stands *)
(* for the contents of either.  A file that a kill left half copied counts *)
(* as missing: it can only lie in current.next, which is never read before *)
(* it is copied anew.                                                      *)
(***************************************************************************)
EXTENDS FiniteSets

CONSTANTS
  Candidates,   \* trained versions
  Bundled,      \* the starter version
  Missing,      \* no such file
  Builds        \* the builds of the program: the versions each accepts, and
                \* whether it ships the starter

ASSUME VersionsAssumption ==
  /\ Missing \notin Candidates \cup {Bundled}
  /\ Bundled \notin Candidates
  /\ \A b \in Builds : b.ships => Bundled \in b.accepts

Versions == Candidates \cup {Bundled}
Files == {"manifest", "model"}
Dirs == {"current", "next", "previous"}
Absent == [f \in Files |-> Missing]
Holding(v) == [f \in Files |-> v]

VARIABLES
  dir,         \* the directories current, current.next and current.previous
  at,          \* the next file-system call, "idle" between operations
  source,      \* the version being promoted or seeded
  todo,        \* the files of source not copied yet
  build,       \* the running build; it accepts what shares its feature contract
  forecasting, \* a demand forecast has its manifest and awaits its model
  label,       \* the manifest that names and decodes the forecast
  cached       \* the model in memory

files == <<dir, at, source, todo>>
memory == <<build, forecasting, label, cached>>
vars == <<files, memory>>

-----------------------------------------------------------------------------
(* inspectArtifactDir: both files are there and the contract matches.      *)
Usable(content) ==
  /\ \A f \in Files : content[f] # Missing
  /\ content["manifest"] \in build.accepts

\* renameSync fails when the source is gone or the target is in the way.  No
\* failing rename is modelled: RenamesSucceed shows there is none.
CanRename(from, to) == dir[from] # Absent /\ dir[to] = Absent
Rename(from, to) == dir' = [dir EXCEPT ![to] = dir[from], ![from] = Absent]

Goto(step) == at' = step /\ UNCHANGED <<source, todo>>

\* rmSync(recursive) deletes one file after the other, in the directory's order,
\* which nothing fixes.  An empty directory is as good as none: a rename may
\* replace it.
RemoveTree(d, step) ==
  \/ /\ \E f \in Files : dir[d][f] # Missing /\ dir' = [dir EXCEPT ![d][f] = Missing]
     /\ UNCHANGED <<at, source, todo>>
  \/ dir[d] = Absent /\ Goto(step) /\ UNCHANGED dir

Stop == at' = "idle" /\ source' = Missing /\ todo' = {}

Init ==
  /\ dir = [d \in Dirs |-> Absent]
  /\ at = "idle"
  /\ source = Missing
  /\ todo = {}
  /\ build \in Builds
  /\ forecasting = FALSE
  /\ label = Missing
  /\ cached = Missing

-----------------------------------------------------------------------------
(* promoteVersion                                                          *)

\* A training job starts only after an inspection by the same process.
Promote(v) ==
  /\ at = "idle"
  /\ label # Missing \/ ~build.ships
  /\ v \in build.accepts
  /\ at' = "clearNext"
  /\ source' = v
  /\ todo' = Files
  /\ UNCHANGED <<dir, memory>>

ClearNext ==
  /\ at = "clearNext"
  /\ RemoveTree("next", "clearPrevious")
  /\ UNCHANGED memory

\* Mutant: the active model is put aside before the copy is made.
RetireBeforeCopy ==
  /\ at = "clearPrevious"
  /\ RemoveTree("previous", "retire")
  /\ UNCHANGED memory

\* Mutant: leftovers of an interrupted promotion are not cleared.
KeepPrevious ==
  /\ at = "clearPrevious"
  /\ Goto("copy")
  /\ UNCHANGED <<dir, memory>>

ClearPrevious ==
  /\ at = "clearPrevious"
  /\ RemoveTree("previous", "copy")
  /\ UNCHANGED memory

\* Mutant: the copy is not awaited to the end.
CopySome(f) ==
  /\ at \in {"copy", "seedCopy"}
  /\ f \in todo
  /\ dir' = [dir EXCEPT !["next"][f] = source]
  /\ todo' = todo \ {f}
  /\ at' = IF at = "copy" THEN "retire" ELSE "seedDrop"
  /\ UNCHANGED <<source, memory>>

\* cpSync copies the files one by one.
Copy(f) ==
  /\ at \in {"copy", "seedCopy"}
  /\ f \in todo
  /\ dir' = [dir EXCEPT !["next"][f] = source]
  /\ todo' = todo \ {f}
  /\ at' = IF todo' # {} THEN at ELSE IF at = "copy" THEN "retire" ELSE "seedDrop"
  /\ UNCHANGED <<source, memory>>

Retire ==
  /\ at = "retire"
  /\ IF dir["current"] = Absent
     THEN Goto("install") /\ UNCHANGED dir
     ELSE /\ CanRename("current", "previous")
          /\ Rename("current", "previous")
          /\ Goto("install")
  /\ UNCHANGED memory

Install ==
  /\ at = "install"
  /\ CanRename("next", "current")
  /\ Rename("next", "current")
  /\ Goto("tidy")
  /\ UNCHANGED memory

\* current.next is gone by its rename, so that its removal finds nothing.
Tidy ==
  /\ at = "tidy"
  /\ \/ /\ \E f \in Files : /\ dir["previous"][f] # Missing
                            /\ dir' = [dir EXCEPT !["previous"][f] = Missing]
        /\ UNCHANGED <<at, source, todo>>
     \/ /\ dir["previous"] = Absent
        /\ dir' = [dir EXCEPT !["next"] = Absent]
        /\ Stop
  /\ UNCHANGED memory

-----------------------------------------------------------------------------
(* inspectActiveArtifact, with seedBundledStarterArtifact, and predict     *)

Inspect ==
  /\ at = "idle"
  /\ ~forecasting
  /\ Usable(dir["current"]) \/ ~build.ships
  /\ forecasting' = Usable(dir["current"])
  /\ label' = IF Usable(dir["current"]) THEN dir["current"]["manifest"] ELSE Missing
  /\ UNCHANGED <<files, build, cached>>

Seed ==
  /\ at = "idle"
  /\ ~forecasting
  /\ ~Usable(dir["current"])
  /\ build.ships
  /\ at' = "seedClear"
  /\ source' = Bundled
  /\ todo' = Files
  /\ UNCHANGED <<dir, memory>>

SeedClear ==
  /\ at = "seedClear"
  /\ RemoveTree("next", "seedCopy")
  /\ UNCHANGED memory

\* Mutant: the unusable directory is left in the way of the starter.
SeedOver ==
  /\ at = "seedDrop"
  /\ Goto("seedInstall")
  /\ UNCHANGED <<dir, memory>>

SeedDrop ==
  /\ at = "seedDrop"
  /\ RemoveTree("current", "seedInstall")
  /\ UNCHANGED memory

SeedInstall ==
  /\ at = "seedInstall"
  /\ CanRename("next", "current")
  /\ Rename("next", "current")
  /\ Stop
  /\ forecasting' = TRUE
  /\ label' = Bundled
  /\ UNCHANGED <<build, cached>>

\* Mutant: the model is loaded for every slot.
Reload ==
  /\ at = "idle"
  /\ forecasting
  /\ cached' = dir["current"]["model"]
  /\ forecasting' \in BOOLEAN
  /\ UNCHANGED <<files, build, label>>

\* loadModel: the path of the active model never changes, so a model that was
\* loaded once is kept.  The forecast is decoded by the manifest read before;
\* each of its slots is predicted by a call of its own.
Predict ==
  /\ at = "idle"
  /\ forecasting
  /\ cached' = IF cached # Missing THEN cached ELSE dir["current"]["model"]
  /\ forecasting' \in BOOLEAN
  /\ UNCHANGED <<files, build, label>>

\* loadCatBoostModule: without the CatBoost library there is no prediction.
GiveUp ==
  /\ at = "idle"
  /\ forecasting
  /\ cached = Missing
  /\ forecasting' = FALSE
  /\ UNCHANGED <<files, build, label, cached>>

\* The process dies and the same or another build of the program starts.
Restart ==
  /\ Stop
  /\ build' \in Builds
  /\ forecasting' = FALSE
  /\ label' = Missing
  /\ cached' = Missing
  /\ UNCHANGED dir

Next ==
  \/ \E v \in Candidates : Promote(v)
  \/ \E f \in Files : Copy(f)
  \/ ClearNext \/ ClearPrevious \/ Retire \/ Install \/ Tidy
  \/ Inspect \/ Seed \/ SeedClear \/ SeedDrop \/ SeedInstall
  \/ Predict \/ GiveUp
  \/ Restart

Spec == Init /\ [][Next]_vars

\* Synchronous calls return, an awaited prediction resolves, and the planner
\* asks for a forecast every few minutes.
FairSpec ==
  /\ Spec
  /\ WF_vars(\E f \in Files : Copy(f))
  /\ WF_vars(ClearNext \/ ClearPrevious \/ Retire \/ Install \/ Tidy)
  /\ WF_vars(Inspect \/ Seed \/ SeedClear \/ SeedDrop \/ SeedInstall)
  /\ WF_vars(Predict \/ GiveUp)

-----------------------------------------------------------------------------
(* Properties                                                              *)

Contents == [Files -> Versions \cup {Missing}]

TypeOK ==
  /\ dir \in [Dirs -> Contents]
  /\ at \in {"idle", "clearNext", "clearPrevious", "copy", "retire", "install",
             "tidy", "seedClear", "seedCopy", "seedDrop", "seedInstall"}
  /\ source \in Versions \cup {Missing}
  /\ todo \subseteq Files
  /\ build \in Builds
  /\ forecasting \in BOOLEAN
  /\ {label, cached} \subseteq Versions \cup {Missing}

Whole == {Holding(v) : v \in Versions}

\* Whatever a kill interrupts, what arrives in current is a whole version and
\* never a partial copy.  Only a current that the running build cannot use is
\* taken apart, by a seeding, and what a kill leaves of it is never put together
\* with a file of another version: with both files there, it is one version.
CurrentIsWhole ==
  /\ []((\A f \in Files : dir["current"][f] # Missing) => dir["current"] \in Whole)
  /\ [][dir'["current"] # dir["current"] =>
          \/ dir'["current"] \in {Absent} \cup Whole
          \/ /\ ~Usable(dir["current"])
             /\ \A f \in Files : dir'["current"][f] \in {dir["current"][f], Missing}]_vars

\* The active model leaves its place only when its successor is whole in
\* current.next, and then waits in current.previous: killed at that point, the
\* program has lost nothing.
SwitchHasSpare ==
  [][Usable(dir["current"]) /\ dir'["current"] # dir["current"] =>
       /\ dir'["previous"] = dir["current"]
       /\ \E v \in Candidates : dir'["next"] = Holding(v)]_vars

\* Renames inside the model directory always find their source there and their
\* target free, also when leftovers of an interrupted promotion lie around.
RenamesSucceed ==
  /\ at = "retire" /\ dir["current"] # Absent => CanRename("current", "previous")
  /\ at \in {"install", "seedInstall"} => CanRename("next", "current")

\* However often the process was killed, once it stays up a usable model is in
\* place again and again, if its build ships one.
ServesAgain ==
  []<><<Restart>>_vars \/ []<>(Usable(dir["current"]) \/ ~build.ships)

\* A forecast is computed by the model whose manifest names and decodes it, at
\* least when that model still is the active one.
ServedAsLabelled ==
  [][Predict /\ dir["current"] = Holding(label) => cached' = label]_vars
=============================================================================
