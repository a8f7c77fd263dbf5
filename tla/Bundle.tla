------------------------------- MODULE Bundle -------------------------------
(***************************************************************************)
(* codegraph_harness.bundle: build_bundle, run by several people or jobs   *)
(* at a time for one output path, from a repository and a directory of     *)
(* staged vendor files that may be edited meanwhile.                       *)
(*                                                                         *)
(* A build loads the profile, walks the mapped directories, reads the      *)
(* mapped files, the vendor files and the runtime files one by one, adds   *)
(* each under its target path, generates VERSION, profile.json, the        *)
(* manifests and SHA256SUMS, writes all of it to a temporary file, moves   *)
(* that to the output path and reads it back for its answer.  A digest     *)
(* identifies a content, so a content is its own digest.                   *)
(***************************************************************************)
EXTENDS Naturals, Sequences, FiniteSets

CONSTANTS
  Builders,          \* each runs one build
  Invocations,       \* version, profile as it stands in its JSON file (raw), whether
                     \* a vendor directory is named (vendorDir), and directories of the
                     \* repository that cannot be listed then (unlisted)
  Trees, Stages,     \* repositories and vendor directories to begin with
  Sources,           \* files that the repository may hold
  Mappings,          \* _DIRECTORY_MAPPINGS, a sequence of directories
  DirectoryOf,       \* of a source; None for _FILE_MAPPINGS
  Above,             \* the directories between that directory and the source
  Rank,              \* the order of sources, staged names, platforms and paths
  Excluded,          \* sources that _is_excluded
  Required,          \* marketplace.json and the Rule, in mapped directories
  TargetOf,          \* of a source
  Staged,            \* files in the vendor directory
  Contents, Binary,  \* contents, and those with the magic of a binary
  RecordsIn,         \* allowlists of fixtures found in a content
  Paths, Key,        \* paths in a bundle; _collision_key
  Portable,          \* paths and staged names that _validated_relative_path takes
  Scripts,           \* paths that are executable by their suffix
  Matrix,            \* _RUNTIME_MATRIX
  RuntimeTarget,     \* of a platform and component
  Edited, Written,   \* files that people change, and contents that they write
  MaxEdits,          \* bound on the edits
  None, Absent, Link, Partial

Components == {"gateway", "backend"}

\* _GENERATED_PATHS; "runtime/manifest.json" is generated but not among them.
Generated == {"VERSION", "profile.json", "bundle-manifest.json", "SHA256SUMS"}

ASSUME BundleAssumption ==
  /\ Generated \cup {"runtime/manifest.json"} \subseteq Paths \cap Portable
  /\ \A p \in Generated : \A q \in Generated : Key[p] = Key[q] => p = q
  /\ DOMAIN Mappings = 1 .. Len(Mappings) /\ Len(Mappings) \in Nat \ {0}
  /\ TargetOf \in [Sources -> Paths]
  /\ Required \subseteq Sources
  /\ \A s \in Required : \E i \in DOMAIN Mappings : DirectoryOf[s] = Mappings[i]
  /\ \A s \in Sources : s \in Required \/ DirectoryOf[s] = None => Above[s] = {}
  /\ \A x \in Staged \cup Matrix \cup Paths :
       /\ Rank[x] \in Nat
       /\ \A y \in Staged \cup Matrix \cup Paths : Rank[x] = Rank[y] => x = y
  /\ \A i \in Invocations :
       /\ i.raw.vendor \in Seq([source : Staged, target : Paths, sha256 : Contents])
       /\ i.raw.runtimes \in
            Seq([platform : Matrix, component : {"gateway", "backend"}, source : Staged,
                 target : Paths, sha256 : Contents])
  /\ Trees \subseteq [Sources -> Contents \cup {Absent, Link}]
  /\ Stages \subseteq [Staged -> Contents \cup {Absent, Link}]
  /\ Binary \subseteq Contents /\ Written \subseteq Contents
  /\ MaxEdits \in Nat
  /\ Absent \notin Contents /\ Link \notin Contents /\ None # Partial

VARIABLES
  tree,        \* the repository
  staged,      \* the vendor directory
  edits,
  output,      \* the file at the output path
  temp,        \* each build's temporary file
  pc,
  job,         \* the build's arguments, and the repository as it found it
  at,          \* the mapped directory, vendor file or runtime file in turn
  todo,        \* files still to be read in this directory
  entries,     \* what was added so far
  report,      \* the bundle whose digest was reported
  disturbed,   \* builds during which the repository or the staged files changed
  overtaken    \* builds whose output was replaced before they read it back

vars == <<tree, staged, edits, output, temp, pc, job, at, todo, entries, report,
          disturbed, overtaken>>

shared == <<tree, staged, edits, output, disturbed, overtaken>>

Ended == {"done", "failed", "crashed"}

Init ==
  /\ tree \in Trees /\ staged \in Stages
  /\ edits = 0
  /\ output = None
  /\ temp = [b \in Builders |-> None]
  /\ pc = [b \in Builders |-> "idle"]
  /\ job = [b \in Builders |-> None]
  /\ at = [b \in Builders |-> 1]
  /\ todo = [b \in Builders |-> {}]
  /\ entries = [b \in Builders |-> <<>>]
  /\ report = [b \in Builders |-> None]
  /\ disturbed = {} /\ overtaken = {}

-----------------------------------------------------------------------------
(* People.                                                                 *)

Running == {b \in Builders : pc[b] \notin {"idle"} \cup Ended}

Edit ==
  /\ edits < MaxEdits
  /\ edits' = edits + 1
  /\ \E c \in Written \cup {Absent} :
       \/ \E s \in Sources \cap Edited :
            tree' = [tree EXCEPT ![s] = c] /\ UNCHANGED staged
       \/ \E s \in Staged \cap Edited :
            staged' = [staged EXCEPT ![s] = c] /\ UNCHANGED tree
  /\ disturbed' = disturbed \cup Running
  /\ UNCHANGED <<output, temp, pc, job, at, todo, entries, report, overtaken>>

-----------------------------------------------------------------------------
(* _load_profile.                                                          *)

Elements(s) == {s[i] : i \in DOMAIN s}

\* The runtime files: one gateway and one backend of every platform, each at its
\* own place, and a fixture for them to approve.
AcceptedRuntimes(r) ==
  r.runtimes # <<>> =>
    /\ r.fixtures # <<>>
    /\ {<<e.platform, e.component>> : e \in Elements(r.runtimes)} = Matrix \X Components
    /\ Len(r.runtimes) = Cardinality(Matrix \X Components)
    /\ \A e \in Elements(r.runtimes) :
         /\ e.source \in Portable /\ e.target \in Portable
         /\ e.target = RuntimeTarget[<<e.platform, e.component>>]

\* Faulty variant of Accepted: a public profile may name anything.
AcceptedLoosely(r) ==
  /\ r.wellFormed
  /\ Cardinality(Elements(r.fixtures)) = Len(r.fixtures)
  /\ \A e \in Elements(r.vendor) : e.source \in Portable /\ e.target \in Portable
  /\ AcceptedRuntimes(r)

\* The fields' types and patterns are in wellFormed.
Accepted(r) ==
  /\ r.wellFormed
  /\ Cardinality(Elements(r.fixtures)) = Len(r.fixtures)
  /\ r.kind = "public" =>
       r.fixtures = <<>> /\ r.vendor = <<>> /\ r.runtimes = <<>>
  /\ \A e \in Elements(r.vendor) : e.source \in Portable /\ e.target \in Portable
  /\ AcceptedRuntimes(r)

\* A list in a new order, a set of pairs of its places.
Sorted(s, order) ==
  [i \in DOMAIN s |->
     s[CHOOSE k \in DOMAIN s : Cardinality({m \in DOMAIN s : <<m, k>> \in order}) = i - 1]]

VendorBefore(x, y) ==
  \/ Rank[x.target] < Rank[y.target]
  \/ x.target = y.target /\ Rank[x.source] < Rank[y.source]

\* By target and source.
SortedVendor(s) ==
  Sorted(s, {x \in (DOMAIN s) \X (DOMAIN s) :
               \/ VendorBefore(s[x[1]], s[x[2]])
               \/ ~VendorBefore(s[x[2]], s[x[1]]) /\ x[1] < x[2]})

\* By platform, the gateway first.
SortedRuntimes(s) ==
  Sorted(s, {x \in (DOMAIN s) \X (DOMAIN s) :
               \/ Rank[s[x[1]].platform] < Rank[s[x[2]].platform]
               \/ /\ s[x[1]].platform = s[x[2]].platform
                  /\ s[x[1]].component = "gateway" /\ s[x[2]].component = "backend"})

\* Faulty variant of Profile: the vendor files stay in the order of the file.
UnsortedProfile(r) ==
  [kind |-> r.kind, fixtures |-> Elements(r.fixtures), vendor |-> r.vendor,
   runtimes |-> SortedRuntimes(r.runtimes)]

\* The profile as it is used and bundled.  The fixtures are unique and sorted, so
\* they are as good as a set.
Profile(r) ==
  [kind |-> r.kind, fixtures |-> Elements(r.fixtures), vendor |-> SortedVendor(r.vendor),
   runtimes |-> SortedRuntimes(r.runtimes)]

-----------------------------------------------------------------------------
(* The steps of a build.                                                   *)

Goes(b, to) == pc' = [pc EXCEPT ![b] = to]

\* The process is gone, and what it held in memory with it.
Ends(b, how) ==
  /\ Goes(b, how)
  /\ job' = [job EXCEPT ![b] = None]
  /\ at' = [at EXCEPT ![b] = 1]
  /\ todo' = [todo EXCEPT ![b] = {}]
  /\ entries' = [entries EXCEPT ![b] = <<>>]
  /\ UNCHANGED <<shared, report>>

\* An error ends the build.  Its temporary file is removed, if it can be.
Fails(b) ==
  /\ Ends(b, "failed")
  /\ temp' \in {temp, [temp EXCEPT ![b] = None]}

Start(b) ==
  /\ pc[b] = "idle"
  /\ \E i \in Invocations :
       IF Accepted(i.raw)
         THEN /\ job' = [job EXCEPT ![b] =
                   [version |-> i.version, raw |-> i.raw, profile |-> Profile(i.raw),
                    vendorDir |-> i.vendorDir, tree |-> tree, unlisted |-> i.unlisted]]
              /\ Goes(b, "open")
              /\ UNCHANGED <<shared, temp, at, todo, entries, report>>
         ELSE Fails(b)

\* Faulty variant of Provided: a path that differs in case only is another path.
SamePathProvided(b, p) == p \in DOMAIN entries[b] \cup Generated

\* Faulty variant of Provided: the generated names are not reserved.
UnreservedProvided(b, p) == \E q \in DOMAIN entries[b] : Key[q] = Key[p]

\* A path that is the same as an earlier one on some file system.
Provided(b, p) == \E q \in DOMAIN entries[b] \cup Generated : Key[q] = Key[p]

With(f, p, x) == [q \in DOMAIN f \cup {p} |-> IF q = p THEN x ELSE f[q]]

\* _add_entry, and what is next if the path is taken.
AddEntry(b, p, data, source, next) ==
  IF p \in Portable /\ ~Provided(b, p)
    THEN /\ entries' = [entries EXCEPT
              ![b] = With(@, p, [data |-> data, source |-> source])]
         /\ next
    ELSE Fails(b)

\* The listing of a mapped directory, without the excluded names.  os.walk has no
\* onerror: it says nothing of a directory below that it cannot list.
OpenDirectory(b) ==
  /\ pc[b] = "open"
  /\ todo' = [todo EXCEPT ![b] =
       {s \in Sources \ Excluded :
          /\ DirectoryOf[s] = Mappings[at[b]]
          /\ tree[s] # Absent
          /\ Above[s] \cap job[b].unlisted = {}}]
  /\ Goes(b, "walk")
  /\ UNCHANGED <<shared, temp, job, at, entries, report>>

First(S) == {s \in S : \A t \in S : Rank[s] <= Rank[t]}

\* _read_regular_file of a listed file; a binary is passed over.
ReadListed(b, s) ==
  /\ pc[b] = "walk" /\ s \in First(todo[b])
  /\ LET next == /\ todo' = [todo EXCEPT ![b] = @ \ {s}]
                 /\ UNCHANGED <<shared, temp, pc, job, at, report>>
     IN  IF tree[s] \in {Absent, Link} THEN Fails(b)
         ELSE IF tree[s] \in Binary THEN next /\ UNCHANGED entries
         ELSE AddEntry(b, TargetOf[s], tree[s], "repository", next)

\* A directory without a distributable file is an error.
CloseDirectory(b) ==
  /\ pc[b] = "walk" /\ todo[b] = {}
  /\ IF \E s \in Sources : DirectoryOf[s] = Mappings[at[b]] /\ TargetOf[s] \in DOMAIN entries[b]
       THEN /\ at' = [at EXCEPT ![b] = @ + 1]
            /\ Goes(b, IF at[b] < Len(Mappings) THEN "open" ELSE "required")
            /\ UNCHANGED <<shared, temp, job, todo, entries, report>>
       ELSE Fails(b)

\* Faulty variant of RequiredThere: the walk is trusted to have found them.
RequiredTrusted == TRUE

RequiredThere == \A s \in Required : tree[s] # Absent

CheckRequired(b) ==
  /\ pc[b] = "required"
  /\ IF RequiredThere
       THEN /\ Goes(b, "mapped")
            /\ todo' = [todo EXCEPT ![b] = {s \in Sources : DirectoryOf[s] = None}]
            /\ UNCHANGED <<shared, temp, job, at, entries, report>>
       ELSE Fails(b)

ReadMapped(b, s) ==
  /\ pc[b] = "mapped" /\ s \in First(todo[b])
  /\ IF tree[s] \in {Absent, Link} \cup Binary \/ s \in Excluded
       THEN Fails(b)
       ELSE AddEntry(b, TargetOf[s], tree[s], "repository",
              /\ todo' = [todo EXCEPT ![b] = @ \ {s}]
              /\ UNCHANGED <<shared, temp, pc, job, at, report>>)

\* Before a list of files from the vendor directory, which must be named if the
\* list is not empty.
Opens(b, to, list) ==
  IF list = <<>> \/ job[b].vendorDir
    THEN /\ Goes(b, to)
         /\ at' = [at EXCEPT ![b] = 1]
         /\ UNCHANGED <<shared, temp, job, todo, entries, report>>
    ELSE Fails(b)

OpenVendor(b) ==
  /\ pc[b] = "mapped" /\ todo[b] = {}
  /\ Opens(b, "vendor", job[b].profile.vendor)

OpenRuntime(b) ==
  /\ pc[b] = "vendor" /\ at[b] > Len(job[b].profile.vendor)
  /\ Opens(b, "runtime", job[b].profile.runtimes)

\* Faulty variant of Verified: what is staged is what was declared.
Trusted(e) == staged[e.source] \notin {Absent, Link}

Verified(e) == staged[e.source] \notin {Absent, Link} /\ staged[e.source] = e.sha256

ReadVendor(b) ==
  /\ pc[b] = "vendor" /\ at[b] <= Len(job[b].profile.vendor)
  /\ LET e == job[b].profile.vendor[at[b]]
     IN  IF ~Verified(e)
           THEN Fails(b)
           ELSE AddEntry(b, e.target, staged[e.source], "vendor",
                  /\ at' = [at EXCEPT ![b] = @ + 1]
                  /\ UNCHANGED <<shared, temp, pc, job, todo, report>>)

\* Faulty variant of Approves: a gateway with no record is let through.
ApprovesNone(fixtures, content) == RecordsIn[content] \subseteq {fixtures, {}}

\* The gateway's allowlist is the profile's; an empty record may stand beside it.
Approves(fixtures, content) ==
  /\ fixtures \in RecordsIn[content]
  /\ RecordsIn[content] \subseteq {fixtures, {}}

ReadRuntime(b) ==
  /\ pc[b] = "runtime" /\ at[b] <= Len(job[b].profile.runtimes)
  /\ LET e == job[b].profile.runtimes[at[b]]
     IN  IF \/ ~Verified(e)
            \/ e.component = "gateway" /\ ~Approves(job[b].profile.fixtures, staged[e.source])
           THEN Fails(b)
           ELSE AddEntry(b, e.target, staged[e.source], "runtime",
                  /\ at' = [at EXCEPT ![b] = @ + 1]
                  /\ UNCHANGED <<shared, temp, pc, job, todo, report>>)

\* _runtime_manifest names no source.
RuntimeManifest(p) ==
  [fixtures |-> p.fixtures,
   runtimes |-> {[platform |-> e.platform, component |-> e.component,
                  path |-> e.target, sha256 |-> e.sha256] : e \in Elements(p.runtimes)}]

AddRuntimeManifest(b) ==
  /\ pc[b] = "runtime" /\ at[b] > Len(job[b].profile.runtimes)
  /\ LET next == Goes(b, "temp") /\ UNCHANGED <<shared, temp, job, at, todo, report>>
     IN  IF job[b].profile.runtimes = <<>>
           THEN next /\ UNCHANGED entries
           ELSE AddEntry(b, "runtime/manifest.json", RuntimeManifest(job[b].profile),
                         "generated", next)

-----------------------------------------------------------------------------
(* The generated files and the archive.                                    *)

File(data) == [data |-> data, source |-> "generated"]

\* With VERSION and profile.json.
Described(b) ==
  With(With(entries[b], "VERSION", File(job[b].version)),
       "profile.json", File(job[b].profile))

\* _manifest: one artifact for each file so far.
Manifest(b) ==
  [version |-> job[b].version, kind |-> job[b].profile.kind, artifacts |-> Described(b)]

Manifested(b) == With(Described(b), "bundle-manifest.json", File(Manifest(b)))

Digests(f) == [p \in DOMAIN f |-> f[p].data]

Archive(f) ==
  [files |-> f, executable |-> {p \in DOMAIN f : p \in Scripts \/ f[p].source = "runtime"}]

\* Faulty variant of Bundled: the sums are taken before the manifest is added.
SumsFirst(b) ==
  Archive(With(Manifested(b), "SHA256SUMS", File(Digests(Described(b)))))

\* SHA256SUMS comes last and covers everything else.
Bundled(b) ==
  Archive(With(Manifested(b), "SHA256SUMS", File(Digests(Manifested(b)))))

\* _write_zip: a temporary file beside the output.
CreateTemporary(b) ==
  /\ pc[b] = "temp"
  /\ temp' = [temp EXCEPT ![b] = Partial]
  /\ Goes(b, "write")
  /\ UNCHANGED <<shared, job, at, todo, entries, report>>

WriteArchive(b) ==
  /\ pc[b] = "write"
  /\ temp' = [temp EXCEPT ![b] = Bundled(b)]
  /\ Goes(b, "replace")
  /\ UNCHANGED <<shared, job, at, todo, entries, report>>

Overtakes(b) == overtaken' = overtaken \cup {c \in Builders \ {b} : pc[c] = "read"}

\* Faulty variant of Replace: a file that is there already is kept.
KeepsOld(b) ==
  /\ pc[b] = "replace"
  /\ output' = IF output = None THEN temp[b] ELSE output
  /\ temp' = [temp EXCEPT ![b] = None]
  /\ Overtakes(b)
  /\ Goes(b, "read")
  /\ UNCHANGED <<tree, staged, edits, job, at, todo, entries, report, disturbed>>

\* os.replace.
Replace(b) ==
  /\ pc[b] = "replace"
  /\ output' = temp[b]
  /\ temp' = [temp EXCEPT ![b] = None]
  /\ Overtakes(b)
  /\ Goes(b, "read")
  /\ UNCHANGED <<tree, staged, edits, job, at, todo, entries, report, disturbed>>

\* output.read_bytes for the digest in the answer.
ReadBack(b) ==
  /\ pc[b] = "read"
  /\ report' = [report EXCEPT ![b] = output]
  /\ Goes(b, "done")
  /\ UNCHANGED <<shared, temp, job, at, todo, entries>>

\* An error of the file system, or an interrupt, at any step.
Fail(b) == b \in Running /\ Fails(b)

\* The process dies; nothing is removed.
Crash(b) == b \in Running /\ Ends(b, "crashed") /\ UNCHANGED temp

Build(b) ==
  \/ Start(b)
  \/ OpenDirectory(b) \/ CloseDirectory(b) \/ CheckRequired(b)
  \/ \E s \in Sources : ReadListed(b, s) \/ ReadMapped(b, s)
  \/ OpenVendor(b) \/ ReadVendor(b) \/ OpenRuntime(b) \/ ReadRuntime(b)
  \/ AddRuntimeManifest(b)
  \/ CreateTemporary(b) \/ WriteArchive(b) \/ Replace(b) \/ ReadBack(b)
  \/ Fail(b) \/ Crash(b)

Next == Edit \/ \E b \in Builders : Build(b)

Spec == Init /\ [][Next]_vars

-----------------------------------------------------------------------------
(* Properties.                                                             *)

\* Every variable has its type, and nothing is added under a generated file's name.
TypeOK ==
  /\ tree \in [Sources -> Contents \cup {Absent, Link}]
  /\ staged \in [Staged -> Contents \cup {Absent, Link}]
  /\ edits \in 0 .. MaxEdits
  /\ pc \in [Builders -> {"idle", "open", "walk", "required", "mapped", "vendor",
                          "runtime", "temp", "write", "replace", "read"} \cup Ended]
  /\ at \in [Builders -> Nat]
  /\ todo \in [Builders -> SUBSET Sources]
  /\ \A b \in Builders : DOMAIN entries[b] \subseteq Portable \ Generated
  /\ disturbed \subseteq Builders /\ overtaken \subseteq Builders

From(z, source) ==
  {<<p, z.files[p].data>> : p \in {q \in DOMAIN z.files : z.files[q].source = source}}

Declared(list) == {<<e.target, e.sha256>> : e \in Elements(list)}

Whole(z) ==
  LET f == z.files
      sums == f["SHA256SUMS"].data
      artifacts == f["bundle-manifest.json"].data.artifacts
  IN  /\ DOMAIN sums = DOMAIN f \ {"SHA256SUMS"}
      /\ \A p \in DOMAIN sums : sums[p] = f[p].data
      /\ DOMAIN artifacts = DOMAIN f \ {"SHA256SUMS", "bundle-manifest.json"}
      /\ \A p \in DOMAIN artifacts : artifacts[p] = f[p]

PortablyNamed(z) ==
  /\ DOMAIN z.files \subseteq Portable
  /\ \A p \in DOMAIN z.files : \A q \in DOMAIN z.files : Key[p] = Key[q] => p = q

AsDeclared(z) ==
  LET profile == z.files["profile.json"].data
  IN  /\ From(z, "vendor") = Declared(profile.vendor)
      /\ From(z, "runtime") = Declared(profile.runtimes)

Approved(z) ==
  LET profile == z.files["profile.json"].data
  IN  \A e \in Elements(profile.runtimes) :
        e.component = "gateway" =>
          LET records == RecordsIn[z.files[e.target].data]
          IN  profile.fixtures \in records /\ records \ {{}} \subseteq {profile.fixtures}

Own(z) ==
  z.files["profile.json"].data.kind = "public" =>
    \A p \in DOMAIN z.files :
      \/ z.files[p].source = "generated"
      \/ /\ z.files[p].source = "repository"
         /\ z.files[p].data \notin Binary
         /\ \E s \in Sources \ Excluded : TargetOf[s] = p

\* Whoever looks at the output path, at any moment and however many builds run,
\* crash or fail, finds a whole bundle: SHA256SUMS covers exactly the other files
\* and the manifest exactly those but itself and the sums, with the digests of what
\* is there.
PublishedIsWhole == output # None => Whole(output)

\* No two files of a published bundle are one file where names are compared without
\* case, and each name is portable.
PublishedIsPortable == output # None => PortablyNamed(output)

\* The files that a published bundle has from the vendor directory are those its own
\* profile.json declares, no more and no fewer, and with the declared digests,
\* whatever happened to the vendor directory during the build.
VendorAsDeclared == output # None => AsDeclared(output)

\* A gateway in a published bundle records that it admits the fixtures of the bundle's
\* profile, and no record in it admits another.
GatewaysApproveProfile == output # None => Approved(output)

\* A published bundle of the public profile has nothing but generated files and text
\* of the repository that no rule excludes.
PublicIsOwn == output # None => Own(output)

Assembled(b) == pc[b] \in {"write", "replace", "read", "done"}

\* A bundle has the files that an installation needs, whatever directories could not be
\* listed: those mapped one by one always, the marketplace and the Rule when nothing
\* changed during the build and neither looks like a binary.
RequiredPresent ==
  \A b \in Builders : Assembled(b) =>
    /\ \A s \in Sources : DirectoryOf[s] = None => TargetOf[s] \in DOMAIN entries[b]
    /\ \A s \in Required \ Excluded :
         b \notin disturbed /\ job[b].tree[s] \notin Binary
           => TargetOf[s] \in DOMAIN entries[b]

\* The inputs that a bundle may depend on: not the order of the profile's lists, and
\* not the staged files that the profile does not name; but which directories could be
\* listed.
Inputs(b) ==
  [version |-> job[b].version, kind |-> job[b].raw.kind, tree |-> job[b].tree,
   unlisted |-> job[b].unlisted,
   fixtures |-> Elements(job[b].raw.fixtures), vendor |-> Elements(job[b].raw.vendor),
   runtimes |-> Elements(job[b].raw.runtimes)]

\* Two builds from the same files, with no change under them, make the same bundle, if
\* the same directories could be listed to both.  One that misses a directory makes a
\* smaller bundle of the same inputs, and reports success.
SameInputsSameBundle ==
  \A b, c \in Builders :
    /\ Assembled(b) /\ Assembled(c) /\ disturbed \cap {b, c} = {}
    /\ Inputs(b) = Inputs(c)
    => Bundled(b) = Bundled(c)

\* The digest in a build's answer is that of the bundle it made, unless another build
\* replaced the file before it was read back.
ReportIsPublished ==
  \A b \in Builders :
    pc[b] = "done" /\ b \notin overtaken => report[b] = Bundled(b)
=============================================================================
