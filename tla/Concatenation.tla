----------------------------- MODULE Concatenation -----------------------------
(***************************************************************************)
(* Derived concatenation bundles: creators (threads or processes) that run *)
(* create_concatenation_at on lists of CSV files and share one output      *)
(* root, while the files are rewritten or still recorded, strangers create *)
(* directories in the root, I/O fails, processes are killed and power is   *)
(* lost.  All creators run in the same second, so equal identities give    *)
(* equal names.                                                            *)
(*                                                                         *)
(* Data abstraction.  A row is its timestamp and its ones count.  A file   *)
(* is read row by row, and what was read stands for its SHA-256, count and *)
(* first and last timestamps.  What a file's name says (SessionStem) and   *)
(* its format are the attributes of its path.                              *)
(***************************************************************************)
EXTENDS Naturals, Sequences, FiniteSets

CONSTANTS
  Creators,
  Paths,        (* paths of input files                                      *)
  About,        (* of a path: file (canonical), name, source, fold, bits,    *)
                (* interval, format                                          *)
  Versions,     (* of a canonical file: the contents it may have             *)
  Requests,     (* the calls: paths, and may they be current CSVs            *)
  Contested,    (* stems at which strangers may create a directory           *)
  MaxRewrites   (* bound on changes of the input files                       *)

Formats == {"current", "legacy"}

Row == [at : Nat, ones : Nat]

ASSUME InputsAssumption ==
  /\ About \in [Paths -> [file : STRING, name : Nat, source : STRING, fold : STRING,
                        bits : Nat, interval : Nat, format : Formats]]
  /\ \A path \in Paths : Versions[About[path].file] \subseteq Seq(Row)
  /\ \A request \in Requests : /\ request.paths \in Seq(Paths)
                                /\ request.current \in BOOLEAN

ASSUME BoundsAssumption ==
  /\ Creators \cap {"nobody", "stranger"} = {}
  /\ MaxRewrites \in Nat

VARIABLES
  file,      (* contents of the input files                      *)
  rewrites,  (* history: how often one was changed               *)
  job,       (* of a creator: its call and its local variables   *)
  staging,   (* of a creator: its staging directory              *)
  out        (* the output root: a directory for each stem       *)

cvars == <<file, rewrites, job, staging, out>>

Content(path) == file[About[path].file]

Canonical == {About[path].file : path \in Paths}

First(rows) == rows[1]
Last(rows)  == rows[Len(rows)]

(* stems: what the name of a bundle is made of, up to its second *)
Stem(source, fold, bits, interval) ==
  [source |-> source, fold |-> fold, bits |-> bits, interval |-> interval]

Stems ==
  {Stem(About[p].source, About[p].fold, About[p].bits, About[p].interval) : p \in Paths}
    \cup {Stem("mixed", "none", About[p].bits, About[p].interval) : p \in Paths}

NoManifest ==
  [schema |-> 0, stem |-> Stem("none", "none", 0, 0), total |-> 0, inputs |-> <<>>]

Nothing ==
  [by |-> "nobody", csv |-> <<>>, csvSynced |-> FALSE, manifest |-> NoManifest,
   manifestSynced |-> FALSE]

Exists(directory) == directory.by # "nobody"

(* a call without local variables: not begun, or left *)
Call(request, pc, ret) ==
  [pc |-> pc, paths |-> request.paths, current |-> request.current,
   files |-> <<>>, rows |-> <<>>, entries |-> <<>>, nth |-> 1, ret |-> ret]

CInit ==
  /\ file \in {contents \in [Canonical -> UNION {Versions[f] : f \in Canonical}] :
                 \A f \in Canonical : contents[f] \in Versions[f]}
  /\ rewrites = 0
  /\ job \in [Creators -> {Call(request, "inspect", "nothing") : request \in Requests}]
  /\ staging = [c \in Creators |-> Nothing]
  /\ out = [stem \in Stems |-> Nothing]

-----------------------------------------------------------------------------
(* The rules for inputs *)

SupportedSource(source, format) ==
  /\ format = "current" => source \in {"bitb", "trng", "rdseed", "pseudo"}
  /\ format = "legacy"  => source \in {"bitb", "trng", "pseudo"}

FoldRules(source, fold) == source = "bitb" <=> fold # "none"

(* SessionStem::parse takes no name that breaks them *)
ASSUME NamesAssumption ==
  \A path \in Paths : FoldRules(About[path].source, About[path].fold)

(* check_compat: against the first input of the call *)
Compatible(first, other, current) ==
  /\ first.bits = other.bits
  /\ first.interval = other.interval
  /\ ~current => first.source = other.source /\ first.fold = other.fold

(* by first timestamp, then by basename; the sort is stable *)
Before(files, i, j) ==
  LET a == First(files[i].rows).at
      b == First(files[j].rows).at
      m == About[files[i].path].name
      n == About[files[j].path].name
  IN  \/ a < b
      \/ a = b /\ m < n
      \/ a = b /\ m = n /\ i < j

(* mutated: in the order of the call *)
AsGiven(files) == {p \in [DOMAIN files -> DOMAIN files] : \A k \in DOMAIN files : p[k] = k}

(* where files.sort_by takes the k-th file from; there is one such function *)
Sortings(files) ==
  {p \in [DOMAIN files -> DOMAIN files] :
     \A k \in 1 .. Len(files) - 1 : Before(files, p[k], p[k + 1])}

Overlap(files) ==
  \E k \in 1 .. Len(files) - 1 :
    Last(files[k].rows).at >= First(files[k + 1].rows).at

Heterogeneous(infos) ==
  \E i \in DOMAIN infos : infos[i].source # infos[1].source \/ infos[i].fold # infos[1].fold

Infos(files) == [k \in DOMAIN files |-> About[files[k].path]]

OutputStem(files) ==
  LET first == About[files[1].path]
  IN  IF Heterogeneous(Infos(files))
      THEN Stem("mixed", "none", first.bits, first.interval)
      ELSE Stem(first.source, first.fold, first.bits, first.interval)

(* mutated: output indexes from 0 *)
FirstIndexZero == 0

FirstIndex == 1

(* an entry of the preview; format and provenance only in the format-neutral *)
(* call                                                                      *)
EntryOf(inspected, start, current) ==
  LET about == About[inspected.path]
  IN  [path |-> inspected.path, rows |-> inspected.rows,
       start |-> start, end |-> start + Len(inspected.rows) - 1,
       format |-> IF current THEN about.format ELSE "none",
       source |-> IF current THEN about.source ELSE "none",
       fold   |-> IF current THEN about.fold ELSE "none"]

-----------------------------------------------------------------------------
(* The manifest of a bundle, and the reader *)

EntryOK(entry) ==
  /\ entry.rows # <<>>
  /\ First(entry.rows).at <= Last(entry.rows).at
  /\ entry.end >= entry.start
  /\ entry.end - entry.start + 1 = Len(entry.rows)

(* validate_schema3_input: the provenance is what the basename says *)
ProvenanceOK(entry, stem) ==
  LET about == About[entry.path]
  IN  /\ entry.format \in Formats
      /\ entry.source \notin {"none", "mixed"}
      /\ FoldRules(entry.source, entry.fold)
      /\ SupportedSource(entry.source, entry.format)
      /\ about.source = entry.source /\ about.fold = entry.fold
      /\ about.bits = stem.bits /\ about.interval = stem.interval

(* validate_contents *)
Valid(manifest) ==
  LET inputs == manifest.inputs
  IN  /\ manifest.schema \in 1 .. 3
      /\ manifest.schema = 3 <=> manifest.stem.source = "mixed"
      /\ FoldRules(manifest.stem.source, manifest.stem.fold)
      /\ inputs # <<>>
      /\ inputs[1].start = 1
      /\ \A k \in DOMAIN inputs :
           /\ EntryOK(inputs[k])
           /\ manifest.schema = 1 => inputs[k].format = "none"
           /\ manifest.schema = 2 => inputs[k].format \in Formats
           /\ manifest.schema \in {1, 2} => /\ inputs[k].source = "none"
                                           /\ inputs[k].fold = "none"
           /\ manifest.schema = 3 => ProvenanceOK(inputs[k], manifest.stem)
      /\ \A k \in 1 .. Len(inputs) - 1 :
           /\ inputs[k + 1].start = inputs[k].end + 1
           /\ Last(inputs[k].rows).at < First(inputs[k + 1].rows).at
      /\ manifest.schema = 3 => Heterogeneous(inputs)

Unlabelled(entries) ==
  [k \in DOMAIN entries |-> [entries[k] EXCEPT !.source = "none", !.fold = "none"]]

(* write_manifest chooses the schema; the sum of the row counts is the last   *)
(* output index, as Valid wants the ranges contiguous from 1                 *)
ManifestOf(files, entries) ==
  LET stem   == OutputStem(files)
      schema == IF stem.source = "mixed" THEN 3
                ELSE IF entries[1].format # "none" THEN 2 ELSE 1
  IN  [schema |-> schema,
       stem   |-> stem,
       total  |-> entries[Len(entries)].end,
       inputs |-> IF schema = 2 THEN Unlabelled(entries) ELSE entries]

(* open_concatenation accepts the directory *)
Opens(bundle) ==
  LET csv    == bundle.csv
      inputs == bundle.manifest.inputs
  IN  /\ Valid(bundle.manifest)
      /\ Len(csv) = bundle.manifest.total
      /\ \A k \in 1 .. Len(csv) :
           /\ csv[k].index = k
           /\ \E i \in DOMAIN inputs :
                /\ k \in inputs[i].start .. inputs[i].end
                /\ csv[k].input = i
                /\ csv[k].inputIndex = k - inputs[i].start + 1
                /\ k = inputs[i].start => csv[k].row.at = First(inputs[i].rows).at
                /\ k = inputs[i].end   => csv[k].row.at = Last(inputs[i].rows).at

-----------------------------------------------------------------------------
(* create_concatenation_at *)

Inspecting == {"inspect", "scan", "order", "number", "stage"}
Copying    == {"copy", "syncCsv", "manifest", "promote", "rename"}
Over       == {"done", "dead"}

At(c, pc) == job[c].pc = pc

(* the call is left with a result, its local variables are gone *)
Leave(c, pc, ret) ==
  job' = [job EXCEPT ![c] = Call(@, pc, ret)]

(* an error: the guard, once there is one, removes the staging directory *)
Fail(c, reason) ==
  Leave(c, IF Exists(staging[c]) THEN "cleanup" ELSE "done", reason)

(* ordering and numbering do no I/O, Path::exists and the guard ignore   *)
(* its errors, and rename maps its own                                       *)
IoFails(c) ==
  /\ job[c].pc \notin Over \cup {"order", "number", "promote", "rename",
                         "cleanup"}
  /\ Fail(c, "io")
  /\ UNCHANGED <<file, rewrites, staging, out>>

(* the loop over the paths of the call: what the path itself tells *)
Acceptable(c, path) ==
  /\ \A k \in DOMAIN job[c].files : About[job[c].files[k].path].file # About[path].file
  /\ job[c].current \/ About[path].format = "legacy"
  /\ SupportedSource(About[path].source, About[path].format)

InspectPath(c) ==
  /\ At(c, "inspect")
  /\ LET n == Len(job[c].files) + 1
     IN  \/ /\ n <= Len(job[c].paths)
            /\ Acceptable(c, job[c].paths[n])
            /\ job' = [job EXCEPT ![c].pc = "scan", ![c].rows = <<>>]
         \/ /\ n <= Len(job[c].paths)
            /\ ~Acceptable(c, job[c].paths[n])
            /\ Fail(c, "rejected")
         \/ /\ n > Len(job[c].paths)
            /\ job[c].paths # <<>>
            /\ job' = [job EXCEPT ![c].pc = "order"]
         \/ /\ job[c].paths = <<>>
            /\ Fail(c, "rejected")
  /\ UNCHANGED <<file, rewrites, staging, out>>

(* for_each_csv_row: the row after those read, in whatever the file holds    *)
(* by now; a file that changes under the reader may show it half a row       *)
More(c, path)     == Len(job[c].rows) < Len(Content(path))
NextRow(c, path)  == Content(path)[Len(job[c].rows) + 1]
Decreases(c, path) ==
  job[c].rows # <<>> /\ NextRow(c, path).at < Last(job[c].rows).at

BadRow(c, path) ==
  \/ More(c, path) /\ Decreases(c, path)
  \/ ~More(c, path) /\ job[c].rows = <<>>
  \/ rewrites > 0

ScanRow(c) ==
  /\ At(c, "scan")
  /\ LET path == job[c].paths[Len(job[c].files) + 1]
     IN  /\ More(c, path)
         /\ ~Decreases(c, path)
         /\ job' = [job EXCEPT ![c].rows = Append(@, NextRow(c, path))]
  /\ UNCHANGED <<file, rewrites, staging, out>>

ScanEnd(c) ==
  /\ At(c, "scan")
  /\ LET path  == job[c].paths[Len(job[c].files) + 1]
         first == About[job[c].paths[1]]
     IN  /\ ~More(c, path)
         /\ job[c].rows # <<>>
         /\ IF Compatible(first, About[path], job[c].current)
            THEN job' = [job EXCEPT
                           ![c].pc = "inspect",
                           ![c].files = Append(@, [path |-> path, rows |-> job[c].rows])]
            ELSE Fail(c, "rejected")
  /\ UNCHANGED <<file, rewrites, staging, out>>

ScanFails(c) ==
  /\ At(c, "scan")
  /\ BadRow(c, job[c].paths[Len(job[c].files) + 1])
  /\ Fail(c, "rejected")
  /\ UNCHANGED <<file, rewrites, staging, out>>

Order(c) ==
  /\ At(c, "order")
  /\ \E p \in Sortings(job[c].files) :
       LET sorted == [k \in DOMAIN p |-> job[c].files[p[k]]]
       IN  IF Overlap(sorted)
           THEN Fail(c, "rejected")
           ELSE job' = [job EXCEPT ![c].pc = "number",
                                   ![c].files = sorted,
                                   ![c].rows = <<>>]
  /\ UNCHANGED <<file, rewrites, staging, out>>

(* the loop that gives every input its range of output indexes *)
NextIndex(c) ==
  IF job[c].entries = <<>> THEN FirstIndex ELSE Last(job[c].entries).end + 1

Number(c) ==
  /\ At(c, "number")
  /\ LET n == Len(job[c].entries) + 1
     IN  job' = [job EXCEPT
                   ![c].pc = IF n < Len(job[c].files) THEN "number" ELSE "stage",
                   ![c].entries =
                     Append(@, EntryOf(job[c].files[n], NextIndex(c), job[c].current))]
  /\ UNCHANGED <<file, rewrites, staging, out>>

Dest(c) == OutputStem(job[c].files)

(* dest.exists(), then create_staging_dir; nobody else has its name *)
Stage(c) ==
  /\ At(c, "stage")
  /\ IF Exists(out[Dest(c)])
     THEN Fail(c, "exists") /\ UNCHANGED staging
     ELSE /\ staging' = [staging EXCEPT ![c] = [Nothing EXCEPT !.by = c]]
          /\ job' = [job EXCEPT ![c].pc = "copy"]
  /\ UNCHANGED <<file, rewrites, out>>

(* write_derived_csv: the input is read again, each row is written as read *)
CopyRow(c) ==
  /\ At(c, "copy")
  /\ LET nth  == job[c].nth
         path == job[c].files[nth].path
         line == [index |-> Len(staging[c].csv) + 1, row |-> NextRow(c, path),
                  input |-> nth, inputIndex |-> Len(job[c].rows) + 1]
     IN  /\ More(c, path)
         /\ ~Decreases(c, path)
         /\ job' = [job EXCEPT ![c].rows = Append(@, NextRow(c, path))]
         /\ staging' = [staging EXCEPT ![c].csv = Append(@, line)]
  /\ UNCHANGED <<file, rewrites, out>>

(* mutated: count and timestamps compared, not the hash *)
SameExtent(rows, entry) ==
  /\ Len(rows) = Len(entry.rows)
  /\ First(rows).at = First(entry.rows).at
  /\ Last(rows).at = Last(entry.rows).at

(* hash, count, first and last timestamps *)
Unchanged(rows, entry) == rows = entry.rows

CopyEnd(c) ==
  /\ At(c, "copy")
  /\ LET nth == job[c].nth
     IN  /\ ~More(c, job[c].files[nth].path)
         /\ job[c].rows # <<>>
         /\ IF ~Unchanged(job[c].rows, job[c].entries[nth])
            THEN Fail(c, "changed")
            ELSE job' = [job EXCEPT
                           ![c].pc = IF nth < Len(job[c].files) THEN "copy" ELSE "syncCsv",
                           ![c].nth = nth + 1,
                           ![c].rows = <<>>]
  /\ UNCHANGED <<file, rewrites, staging, out>>

CopyFails(c) ==
  /\ At(c, "copy")
  /\ BadRow(c, job[c].files[job[c].nth].path)
  /\ Fail(c, "rejected")
  /\ UNCHANGED <<file, rewrites, staging, out>>

SyncCsv(c) ==
  /\ At(c, "syncCsv")
  /\ staging' = [staging EXCEPT ![c].csvSynced = TRUE]
  /\ job' = [job EXCEPT ![c].pc = "manifest"]
  /\ UNCHANGED <<file, rewrites, out>>

WriteManifest(c) ==
  /\ At(c, "manifest")
  /\ LET manifest == ManifestOf(job[c].files, job[c].entries)
     IN  IF Valid(manifest)
         THEN /\ staging' = [staging EXCEPT ![c].manifest = manifest,
                                            ![c].manifestSynced = TRUE]
              /\ job' = [job EXCEPT ![c].pc = "promote"]
         ELSE Fail(c, "rejected") /\ UNCHANGED staging
  /\ UNCHANGED <<file, rewrites, out>>

(* promote_dir looks first ... *)
Promote(c) ==
  /\ At(c, "promote")
  /\ IF Exists(out[Dest(c)])
     THEN Fail(c, "exists")
     ELSE job' = [job EXCEPT ![c].pc = "rename"]
  /\ UNCHANGED <<file, rewrites, staging, out>>

(* mutated: a rename that replaces *)
RenameOver(c) ==
  /\ At(c, "rename")
  /\ out' = [out EXCEPT ![Dest(c)] = staging[c]]
  /\ staging' = [staging EXCEPT ![c] = Nothing]
  /\ Leave(c, "done", "ok")
  /\ UNCHANGED <<file, rewrites>>

(* ... then renames without replacing; any error means "exists" if it does *)
Rename(c) ==
  /\ At(c, "rename")
  /\ \/ /\ ~Exists(out[Dest(c)])
        /\ out' = [out EXCEPT ![Dest(c)] = staging[c]]
        /\ staging' = [staging EXCEPT ![c] = Nothing]
        /\ Leave(c, "done", "ok")
     \/ /\ Fail(c, IF Exists(out[Dest(c)]) THEN "exists" ELSE "io")
        /\ UNCHANGED <<staging, out>>
  /\ UNCHANGED <<file, rewrites>>

(* StagingGuard::drop ignores a removal that fails, having removed a part *)
Cleanup(c) ==
  /\ At(c, "cleanup")
  /\ \E rest \in {Nothing, [Nothing EXCEPT !.by = c]} :
       staging' = [staging EXCEPT ![c] = rest]
  /\ job' = [job EXCEPT ![c].pc = "done"]
  /\ UNCHANGED <<file, rewrites, out>>

Create(c) ==
  \/ IoFails(c)
  \/ InspectPath(c) \/ ScanRow(c) \/ ScanEnd(c) \/ ScanFails(c) \/ Order(c)
  \/ Number(c) \/ Stage(c) \/ CopyRow(c) \/ CopyEnd(c) \/ CopyFails(c)
  \/ SyncCsv(c) \/ WriteManifest(c) \/ Promote(c) \/ Rename(c) \/ Cleanup(c)

-----------------------------------------------------------------------------
(* The environment *)

Rewrite(f) ==
  /\ rewrites < MaxRewrites
  /\ \E c \in Creators : job[c].pc \notin Over
  /\ \E contents \in Versions[f] \ {file[f]} : file' = [file EXCEPT ![f] = contents]
  /\ rewrites' = rewrites + 1
  /\ UNCHANGED <<job, staging, out>>

Occupy(stem) ==
  /\ stem \in Contested
  /\ ~Exists(out[stem])
  /\ out' = [out EXCEPT ![stem] = [Nothing EXCEPT !.by = "stranger"]]
  /\ UNCHANGED <<file, rewrites, job, staging>>

Kill(c) ==
  /\ job[c].pc \notin Over
  /\ Leave(c, "dead", "nothing")
  /\ UNCHANGED <<file, rewrites, staging, out>>

(* what was not synced is lost *)
Durable(bundle) ==
  [bundle EXCEPT !.csv = IF bundle.csvSynced THEN @ ELSE <<>>,
                 !.manifest = IF bundle.manifestSynced THEN @ ELSE NoManifest]

Promoted == {stem \in Stems : out[stem].by \in Creators}

(* nobody syncs the output root: a promotion may be undone *)
PowerLoss ==
  \E undone \in SUBSET Promoted :
    /\ out' = [stem \in Stems |-> IF stem \in undone THEN Nothing ELSE Durable(out[stem])]
    /\ staging' = [c \in Creators |->
                     IF \E stem \in undone : out[stem].by = c
                     THEN Durable(out[CHOOSE stem \in undone : out[stem].by = c])
                     ELSE Durable(staging[c])]
    /\ job' = [c \in Creators |->
                 IF At(c, "done") THEN job[c] ELSE Call(job[c], "dead", "nothing")]
    /\ UNCHANGED <<file, rewrites>>

CNext ==
  \/ \E c \in Creators : Create(c) \/ Kill(c)
  \/ \E f \in Canonical : Rewrite(f)
  \/ \E stem \in Stems : Occupy(stem)
  \/ PowerLoss

CSpec == CInit /\ [][CNext]_cvars

-----------------------------------------------------------------------------
(* Properties *)

Sources == {"none"} \cup {About[path].source : path \in Paths}
Folds   == {"none"} \cup {About[path].fold : path \in Paths}

Scanned == [path : Paths, rows : Seq(Row) \ {<<>>}]

Entry ==
  [path : Paths, rows : Seq(Row) \ {<<>>}, start : Nat \ {0}, end : Nat \ {0},
   format : Formats \cup {"none"}, source : Sources, fold : Folds]

Manifest ==
  [schema : 1 .. 3, stem : Stems, total : Nat, inputs : Seq(Entry)]

Line ==
  [index : Nat \ {0}, row : Row, input : Nat \ {0}, inputIndex : Nat \ {0}]

Bundle ==
  [by : Creators \cup {"nobody", "stranger"}, csv : Seq(Line), csvSynced : BOOLEAN,
   manifest : Manifest \cup {NoManifest}, manifestSynced : BOOLEAN]

Reasons == {"io", "rejected", "changed", "exists"}

JobState ==
  [pc : Inspecting \cup Copying \cup {"cleanup"} \cup Over, paths : Seq(Paths),
   current : BOOLEAN, files : Seq(Scanned), rows : Seq(Row), entries : Seq(Entry),
   nth : Nat \ {0}, ret : Reasons \cup {"nothing", "ok"}]

(* The type of the creators' and the directories' state. *)
CTypeOK ==
  /\ file \in [Canonical -> Seq(Row)]
  /\ rewrites \in 0 .. MaxRewrites
  /\ job \in [Creators -> JobState]
  /\ staging \in [Creators -> Bundle]
  /\ out \in [Stems -> Bundle]

(* A bundle under its final name can be opened, and each of its rows is the  *)
(* row its manifest's hash stands for - although the inputs were read twice  *)
(* and may have changed before, between and during the readings, and after   *)
(* a power loss too.                                                         *)
Hashed(bundle) ==
  \A k \in DOMAIN bundle.csv :
    LET line == bundle.csv[k]
    IN  line.row = bundle.manifest.inputs[line.input].rows[line.inputIndex]

PromotedIsFaithful ==
  \A stem \in Promoted : Opens(out[stem]) /\ Hashed(out[stem]) /\ out[stem].manifest.stem = stem

(* As long as no input changes, the verdict depends on the set of inputs     *)
(* only: not on their order, nor on which of the two readings, the sorting   *)
(* or the manifest's own validation looks at them.                           *)
Disjoint(a, b) == Last(a).at < First(b).at \/ Last(b).at < First(a).at

Ascending(rows) == \A i, j \in DOMAIN rows : i < j => rows[i].at <= rows[j].at

Combinable(paths, current) ==
  /\ paths # <<>>
  /\ \A i \in DOMAIN paths :
       LET about == About[paths[i]]
       IN  /\ current \/ about.format = "legacy"
           /\ SupportedSource(about.source, about.format)
           /\ Content(paths[i]) # <<>>
           /\ Ascending(Content(paths[i]))
  /\ \A i, j \in DOMAIN paths :
       i # j =>
         /\ About[paths[i]].bits = About[paths[j]].bits
         /\ About[paths[i]].interval = About[paths[j]].interval
         /\ current \/ /\ About[paths[i]].source = About[paths[j]].source
                       /\ About[paths[i]].fold = About[paths[j]].fold
         /\ Disjoint(Content(paths[i]), Content(paths[j]))

VerdictIsRight ==
  \A c \in Creators :
    rewrites = 0 /\ job[c].ret \notin {"nothing", "io"} =>
      /\ job[c].ret # "changed"
      /\ job[c].ret = "rejected" <=> ~Combinable(job[c].paths, job[c].current)

(* Every creator publishes at most once, whole, and replaces nothing; what   *)
(* it is told agrees with who holds the name.                                *)
Store == INSTANCE PublishOnce
  WITH Name   <- Stems,
       Author <- Creators,
       holder <- [stem \in Stems |-> out[stem].by],
       told   <- [c \in Creators |-> IF At(c, "done") THEN job[c].ret ELSE "nothing"]

ImplementsPublishOnce == Store!PSpec

=============================================================================
