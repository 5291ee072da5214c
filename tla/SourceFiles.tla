----------------------------- MODULE SourceFiles -----------------------------
(***************************************************************************)
(* The source files of an ingestion run: hashed first, read afterwards, on *)
(* a volume others may write to at any time.                               *)
(*   microservices/ingestion/src/checksum.py                               *)
(*   microservices/ingestion/pipelines/ingest_ednet.py   main              *)
(*   microservices/ingestion/src/csv_reader.py           EdNetCSVReader    *)
(*   microservices/ingestion/src/lineage.py              record_target     *)
(*                                                                         *)
(* The content of a file is a version number, 0 if there is no such file;  *)
(* digests are as good as versions.  An initial run saves a manifest for   *)
(* each source, a daily one verifies the source against it; whatever goes  *)
(* wrong is logged.  A dataframe is the list of files found when it was    *)
(* made: counting and writing it read those files again.  What happens to  *)
(* the rows after they are read is in Ingestion.  It is the same container *)
(* there, so the names of the two modules are kept apart.                  *)
(***************************************************************************)
EXTENDS Naturals, Sequences

CONSTANTS
  Order,        \* keys of cfg["sources"], in the order of the file
  FilesOf,      \* the files a source may come to have
  Directories,  \* sources whose configured path is a directory, with a glob
  Versions,     \* contents a file can have
  MaxEdits,     \* bound: changes made to files
  MaxStarts     \* bound: container runs explored

SourceKeys == {Order[i] : i \in DOMAIN Order}
Files == UNION {FilesOf[s] : s \in SourceKeys}

\* Keys differ, and so do the paths configured for them: no file is of two sources.
ASSUME SourcesAssumption ==
  /\ Order \in Seq(STRING) /\ Order # <<>>
  /\ \A i, j \in DOMAIN Order : Order[i] = Order[j] => i = j
  /\ DOMAIN FilesOf = SourceKeys
  /\ \A s, t \in SourceKeys : s # t => FilesOf[s] \cap FilesOf[t] = {}
  /\ Directories \subseteq SourceKeys
  /\ \A s \in SourceKeys \ Directories : \E f \in FilesOf[s] : FilesOf[s] = {f}

ASSUME VersionsAssumption == Versions \subseteq Nat \ {0} /\ Versions # {}

VARIABLES
  content,    \* the mounted volume: file -> its version, or 0
  kept,       \* manifest_dir outlives the container
  manifests,  \* source -> the manifests saved for it: {} or {m}
  step,       \* where the run is
  run_mode,   \* --mode
  turn,       \* index in Order of the source a loop has come to
  unhashed,   \* files found by rglob, still to be hashed
  digests,    \* compute_checksums: manifest under construction
  verdict,    \* what was logged of each source
  dataframes, \* source -> the files its dataframe lists ({}: not loaded)
  parquet,    \* file -> the version the write read (0: not yet)
  counted,    \* file -> the version lineage.record_target counted (0: none)
  edits, started

\* History variables: files changed since this run hashed them (or came to their
\* source, if it did not hash them), since the same moment of the run that saved
\* their manifest, since this run wrote them.
VARIABLES touched, altered, moved

check_vars   == <<unhashed, digests, verdict>>
read_vars    == <<dataframes, parquet, counted>>
change_vars  == <<touched, altered, moved>>
file_vars == <<content, kept, manifests, step, run_mode, turn, check_vars,
               read_vars, edits, started, change_vars>>

s0 == Order[turn]
NoVersion == [f \in Files |-> 0]
NoDigest  == <<>>

-----------------------------------------------------------------------------
\* Files are there or not; which content the first have makes no difference.
FilesInit ==
  /\ content \in [Files -> {0, CHOOSE v \in Versions : TRUE}]
  /\ kept \in BOOLEAN
  /\ manifests = [s \in SourceKeys |-> {}]
  /\ step = "idle" /\ run_mode = "daily" /\ turn = 1
  /\ unhashed = {} /\ digests = NoDigest
  /\ verdict = [s \in SourceKeys |-> "none"]
  /\ dataframes = [s \in SourceKeys |-> {}]
  /\ parquet = NoVersion /\ counted = NoVersion
  /\ edits = 0 /\ started = 0
  /\ touched = {} /\ altered = {} /\ moved = {}

\* Somebody writes, replaces, adds or removes a file of the volume.
Edit(f, v) ==
  /\ edits < MaxEdits
  /\ content[f] # v
  /\ edits' = edits + 1
  /\ content' = [content EXCEPT ![f] = v]
  /\ touched' = touched \cup {f}
  /\ altered' = altered \cup {f}
  /\ moved' = moved \cup {f}
  /\ UNCHANGED <<kept, manifests, step, run_mode, turn, check_vars, read_vars,
                 started>>

\* main starts.  `docker compose run --rm` gives it a new file system, in which
\* the relative manifest_dir is empty; run elsewhere, it finds what was saved.
StartRun(m) ==
  /\ step \in {"idle", "done", "failed"}
  /\ started < MaxStarts
  /\ started' = started + 1
  /\ step' = "checksum" /\ run_mode' = m /\ turn' = 1
  /\ manifests' = IF kept THEN manifests ELSE [s \in SourceKeys |-> {}]
  /\ verdict' = [s \in SourceKeys |-> "none"]
  /\ dataframes' = [s \in SourceKeys |-> {}]
  /\ parquet' = NoVersion /\ counted' = NoVersion
  /\ UNCHANGED <<content, kept, unhashed, digests, edits, change_vars>>

-----------------------------------------------------------------------------
\* The loop of the pre-step goes on to the next source, or to file intake.
NextSource ==
  /\ unhashed' = {}
  /\ digests' = NoDigest
  /\ IF turn < Len(Order)
     THEN step' = "checksum" /\ turn' = turn + 1
     ELSE step' = "intake" /\ turn' = 1

\* `except Exception`: the failure is logged.  "error" is an exception that is
\* not the verdict of verify_checksums.
LogFailure(kind) ==
  /\ verdict' = [verdict EXCEPT ![s0] = kind]
  /\ NextSource

\* base.exists() of compute_checksums and p.exists() of _resolve_path.  Docker
\* makes the directory of a volume; a single file has to be there.
Exists(s) == s \in Directories \/ \E f \in FilesOf[s] : content[f] # 0

\* sorted(base.rglob(glob_pattern)): under a path that is a file there is nothing.
FilesUnder(s) ==
  IF s \in Directories THEN {f \in FilesOf[s] : content[f] # 0} ELSE {}

\* verify_checksums loads the manifest before it hashes; compute_checksums wants
\* the path to exist.
BeginSource ==
  /\ step = "checksum"
  /\ IF (run_mode = "daily" /\ manifests[s0] = {}) \/ ~Exists(s0)
     THEN LogFailure("failed")
     ELSE /\ step' = "hash"
          /\ unhashed' = FilesUnder(s0)
          /\ UNCHANGED <<turn, digests, verdict>>
  /\ touched' = touched \ FilesOf[s0]
  /\ UNCHANGED <<content, kept, manifests, run_mode, read_vars, edits, started,
                 altered, moved>>

\* sha256_file; a path that is no file by now is passed over.
HashFile(f) ==
  /\ step = "hash"
  /\ f \in unhashed
  /\ unhashed' = unhashed \ {f}
  /\ digests' = IF content[f] = 0 THEN digests
                ELSE [g \in DOMAIN digests \cup {f} |->
                        IF g = f THEN content[f] ELSE digests[g]]
  /\ touched' = touched \ {f}
  /\ UNCHANGED <<content, kept, manifests, step, run_mode, turn, verdict,
                 read_vars, edits, started, altered, moved>>

\* save_manifest.
SaveManifest ==
  /\ step = "hash" /\ unhashed = {} /\ run_mode = "initial"
  /\ manifests' = [manifests EXCEPT ![s0] = {digests}]
  /\ verdict' = [verdict EXCEPT ![s0] = "saved"]
  /\ altered' = (altered \ FilesOf[s0]) \cup (touched \cap FilesOf[s0])
  /\ NextSource
  /\ UNCHANGED <<content, kept, run_mode, read_vars, edits, started, touched,
                 moved>>

\* Seeded bug in Matches, for the mutation tests.
ComparesNames(m) == DOMAIN m \subseteq DOMAIN digests

\* Seeded bug in Matches, for the mutation tests.
ComparesAll(m) == digests = m

\* The loop of verify_checksums over the manifest: files it does not list are
\* not looked at.
Matches(m) == \A f \in DOMAIN m : f \in DOMAIN digests /\ digests[f] = m[f]

\* verify_checksums, strict: the first file missing or altered raises.
Verify ==
  /\ step = "hash" /\ unhashed = {} /\ run_mode = "daily"
  /\ IF \A m \in manifests[s0] : Matches(m)
     THEN verdict' = [verdict EXCEPT ![s0] = "passed"] /\ NextSource
     ELSE LogFailure("failed")
  /\ UNCHANGED <<content, kept, manifests, run_mode, read_vars, edits, started,
                 change_vars>>

\* A file cannot be opened, or the manifest not be written: open(path, "w") has
\* emptied it by then.
CheckFails ==
  /\ step = "hash"
  /\ LogFailure("error")
  /\ manifests' = [manifests EXCEPT ![s0] =
                     IF run_mode = "initial" /\ unhashed = {} THEN {} ELSE @]
  /\ UNCHANGED <<content, kept, run_mode, read_vars, edits, started,
                 change_vars>>

-----------------------------------------------------------------------------
\* read_all_sources has come to the next source, or to its end: it raises only
\* if no source is left.
NextRead ==
  IF turn < Len(Order)
  THEN turn' = turn + 1 /\ UNCHANGED step
  ELSE /\ turn' = 1
       /\ step' = IF \A s \in SourceKeys : dataframes'[s] = {}
                THEN "failed" ELSE "write"

\* EdNetCSVReader.read, one source after the other: the files there now.
ReadSource ==
  /\ step = "intake"
  /\ dataframes' = [dataframes EXCEPT ![s0] =
                      {f \in FilesOf[s0] : content[f] # 0}]
  /\ NextRead
  /\ UNCHANGED <<content, kept, manifests, run_mode, check_vars, parquet,
                 counted, edits, started, change_vars>>

\* It raises: no such path, no rows, a file gone before the count.  That is
\* logged and the source left out.
ReadFails ==
  /\ step = "intake"
  /\ UNCHANGED dataframes
  /\ NextRead
  /\ UNCHANGED <<content, kept, manifests, run_mode, check_vars, parquet,
                 counted, edits, started, change_vars>>

Listed == UNION {dataframes[s] : s \in SourceKeys}

\* A task of a Spark job (validation, the counts and the write all run some)
\* finds a listed file gone: not an exception @retry handles.
FileVanished ==
  /\ step \in {"write", "count"}
  /\ \E f \in Listed : content[f] = 0
  /\ step' = "failed"
  /\ UNCHANGED <<content, kept, manifests, run_mode, turn, check_vars,
                 read_vars, edits, started, change_vars>>

\* A task of the write reads one file of a frame.
WriteFile(f) ==
  /\ step = "write"
  /\ f \in Listed /\ parquet[f] = 0 /\ content[f] # 0
  /\ parquet' = [parquet EXCEPT ![f] = content[f]]
  /\ moved' = moved \ {f}
  /\ step' = IF \A g \in Listed : parquet'[g] # 0 THEN "count" ELSE "write"
  /\ UNCHANGED <<content, kept, manifests, run_mode, turn, check_vars,
                 dataframes, counted, edits, started, touched, altered>>

\* Seeded bug in CountTargets, for the mutation tests.
CountsAnew ==
  /\ step = "count"
  /\ counted' = content
  /\ step' = "done"
  /\ UNCHANGED <<content, kept, manifests, run_mode, turn, check_vars,
                 dataframes, parquet, edits, started, change_vars>>

\* record_target: df.count() reads the files of the frame once more; then the
\* lineage record is saved.
CountTargets ==
  /\ step = "count"
  /\ \A f \in Listed : content[f] # 0
  /\ counted' = [f \in Files |-> IF f \in Listed THEN content[f] ELSE 0]
  /\ step' = "done"
  /\ UNCHANGED <<content, kept, manifests, run_mode, turn, check_vars,
                 dataframes, parquet, edits, started, change_vars>>

-----------------------------------------------------------------------------
FilesProgress ==
  \/ BeginSource
  \/ \E f \in unhashed : HashFile(f)
  \/ SaveManifest \/ Verify
  \/ ReadSource
  \/ \E f \in Listed : WriteFile(f)
  \/ CountTargets
  \/ FileVanished

FilesNext ==
  \/ \E f \in Files, v \in {0} \cup Versions : Edit(f, v)
  \/ \E m \in {"initial", "daily"} : StartRun(m)
  \/ FilesProgress
  \/ CheckFails \/ ReadFails

FilesSpec == FilesInit /\ [][FilesNext]_file_vars

-----------------------------------------------------------------------------
\* Type correctness of the volume, the manifests, the run and what it records.
FilesTypeOK ==
  /\ content \in [Files -> {0} \cup Versions]
  /\ kept \in BOOLEAN
  /\ \A s \in SourceKeys : \A m \in manifests[s] :
       DOMAIN m \subseteq FilesOf[s] /\ \A f \in DOMAIN m : m[f] \in Versions
  /\ step \in {"idle", "checksum", "hash", "intake", "write", "count", "done",
             "failed"}
  /\ run_mode \in {"initial", "daily"}
  /\ turn \in DOMAIN Order
  /\ unhashed \subseteq Files
  /\ DOMAIN digests \subseteq FilesOf[s0]
  /\ verdict \in [SourceKeys -> {"none", "saved", "passed", "failed", "error"}]
  /\ \A s \in SourceKeys : dataframes[s] \subseteq FilesOf[s]
  /\ parquet \in [Files -> {0} \cup Versions]
  /\ counted \in [Files -> {0} \cup Versions]
  /\ touched \subseteq Files /\ altered \subseteq Files /\ moved \subseteq Files

\* What a daily run's verification promises of a source: each file in `of` that
\* the manifest lists was written as the manifest has it, unless somebody changed
\* it after the run had hashed it.
WrittenAsVerified(s, of) ==
  run_mode = "daily" /\ verdict[s] = "passed" =>
    \A f \in of \ touched :
      parquet[f] # 0 =>
        \A m \in manifests[s] : f \in DOMAIN m => parquet[f] = m[f]

\* A directory that passed verification is read as the manifest has it, across
\* runs, containers and interrupted manifests; files added since are not covered.
PassedIsUnaltered ==
  \A s \in Directories : WrittenAsVerified(s, FilesOf[s])

\* The files whose change a manifest can show.
Covered(s) == IF s \in Directories THEN UNION {DOMAIN m : m \in manifests[s]}
                                   ELSE FilesOf[s]

\* A daily run reports a source only for a reason: its manifest was lost, its path
\* is missing, or a file of it has changed since it was hashed for the manifest.
\* Files that were added are no reason.
NoFalseAlarm ==
  run_mode = "daily" =>
    \A s \in SourceKeys :
      verdict[s] = "failed" =>
        manifests[s] = {} \/ Covered(s) \cap altered # {}

\* The lineage record counts what was written: the files of the frame, in the
\* version the write read unless somebody changed them in between.
LineageCountsWhatWasWritten ==
  step = "done" =>
    \A f \in Files : counted[f] = parquet[f] \/ (f \in moved /\ f \in Listed)

=============================================================================
