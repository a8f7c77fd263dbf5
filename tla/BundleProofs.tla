---------------------------- MODULE BundleProofs ----------------------------
(***************************************************************************)
(* Theorems about Bundle, for any number of builders, any repository, any  *)
(* profiles and any edits.                                                 *)
(*                                                                         *)
(* What one build holds is described by Held, a predicate of that build's  *)
(* own variables: a step of another build leaves it alone.  A bundle made  *)
(* from what Held describes is Sound, and the output is only ever replaced *)
(* by such a bundle.                                                       *)
(*                                                                         *)
(* Collected says more: which files of the repository a build has taken,   *)
(* and that they are those of the repository as it found it and could list *)
(* it, unless it was disturbed.  With that, and with sorting being         *)
(* independent of the order in which a profile lists its files, a bundle   *)
(* is complete and is made of its inputs alone.                            *)
(***************************************************************************)
EXTENDS Bundle, FiniteSetTheorems, TLAPS

Early == {"open", "walk", "required", "mapped"}
Late == {"temp", "write", "replace", "read", "done"}
Phases == {"idle"} \cup Early \cup {"vendor", "runtime"} \cup Late \cup {"failed", "crashed"}

(* The arguments are those of an accepted invocation.                      *)
Tasked(j) ==
  \E i \in Invocations :
    Accepted(i.raw) /\ j.raw = i.raw /\ j.profile = Profile(i.raw)

Upto(list, n) ==
  {<<list[i].target, list[i].sha256>> : i \in {k \in DOMAIN list : k < n}}

FromHeld(e, source) ==
  {<<p, e[p].data>> : p \in {q \in DOMAIN e : e[q].source = source}}

(* Paths are portable and apart from each other and from the generated.    *)
Apart(e) ==
  /\ DOMAIN e \subseteq Portable \ Generated
  /\ \A p \in DOMAIN e : \A q \in DOMAIN e \cup Generated : Key[p] = Key[q] => p = q

Textual(e) ==
  \A p \in DOMAIN e :
    \/ e[p].source \in {"generated", "vendor", "runtime"}
    \/ /\ e[p].source = "repository"
       /\ e[p].data \notin Binary
       /\ \E s \in Sources \ Excluded : TargetOf[s] = p

(* What has come from the vendor directory so far.                         *)
Vendored(p, j, a, e) ==
  /\ p \in Early => FromHeld(e, "vendor") = {}
  /\ p = "vendor" => FromHeld(e, "vendor") = Upto(j.profile.vendor, a)
  /\ p \in {"runtime"} \cup Late => FromHeld(e, "vendor") = Declared(j.profile.vendor)
  /\ p \in Early \cup {"vendor"} => FromHeld(e, "runtime") = {}
  /\ p = "runtime" => FromHeld(e, "runtime") = Upto(j.profile.runtimes, a)
  /\ p \in Late => FromHeld(e, "runtime") = Declared(j.profile.runtimes)

ApprovedUpto(j, n) ==
  \A i \in DOMAIN j.profile.runtimes :
    i < n /\ j.profile.runtimes[i].component = "gateway"
      => Approves(j.profile.fixtures, j.profile.runtimes[i].sha256)

Approving(p, j, a) ==
  /\ p = "runtime" => ApprovedUpto(j, a)
  /\ p \in Late => \A n \in Nat : ApprovedUpto(j, n)

Held(p, j, a, d, e) ==
  /\ p \in {"idle", "failed", "crashed"} => e = <<>>
  /\ p \in Phases \ {"idle", "failed", "crashed"} =>
       /\ Tasked(j)
       /\ p = "walk" => d \cap Excluded = {}
       /\ Apart(e)
       /\ Textual(e)
       /\ Vendored(p, j, a, e)
       /\ Approving(p, j, a)

Holds(b) == Held(pc[b], job[b], at[b], todo[b], entries[b])

Sound(z) == Whole(z) /\ PortablyNamed(z) /\ AsDeclared(z) /\ Approved(z) /\ Own(z)

(* The temporary files and the reports.                                    *)
Temporary(b) == pc[b] = "replace" => temp[b] = Bundled(b)

Answer(b) ==
  /\ pc[b] = "read" /\ b \notin overtaken => output = Bundled(b)
  /\ pc[b] = "done" /\ b \notin overtaken => report[b] = Bundled(b)

Types ==
  /\ pc \in [Builders -> Phases]
  /\ at \in [Builders -> Nat \ {0}]
  /\ todo \in [Builders -> SUBSET Sources]
  /\ job = [b \in Builders |-> job[b]]
  /\ entries = [b \in Builders |-> entries[b]]
  /\ temp = [b \in Builders |-> temp[b]]
  /\ report = [b \in Builders |-> report[b]]
  /\ overtaken \subseteq Builders /\ disturbed \subseteq Builders

IInv ==
  /\ Types
  /\ \A b \in Builders : Holds(b)
  /\ \A b \in Builders : Temporary(b)
  /\ \A b \in Builders : Answer(b)
  /\ output = None \/ Sound(output)

-----------------------------------------------------------------------------
(* Lists.                                                                  *)

LEMMA SortedDomain ==
  ASSUME NEW s, NEW order PROVE DOMAIN Sorted(s, order) = DOMAIN s
  BY DEF Sorted

Listed(t) == \E n \in Nat : DOMAIN t = 1 .. n /\ Len(t) = n

LEMMA SortedListed ==
  ASSUME NEW S, NEW s \in Seq(S), NEW order PROVE Listed(Sorted(s, order))
  <1> DEFINE t == Sorted(s, order)
  <1>1. DOMAIN s = 1 .. Len(s) /\ Len(s) \in Nat OBVIOUS
  <1>2. DOMAIN t = 1 .. Len(s) BY <1>1, SortedDomain
  <1>3. t = [k \in 1 .. Len(s) |-> t[k]] BY <1>2 DEF Sorted
  <1>4. t \in [1 .. Len(s) -> Elements(t)] BY <1>2, <1>3 DEF Elements
  <1>5. t \in Seq(Elements(t)) BY <1>1, <1>4
  <1>6. Len(t) = Len(s) BY <1>1, <1>2, <1>5
  <1> QED BY <1>1, <1>2, <1>6 DEF Listed

\* The lists of a normalised profile are as long as those of the file.
LEMMA ProfileLists ==
  ASSUME NEW j, Tasked(j)
  PROVE  Listed(j.profile.vendor) /\ Listed(j.profile.runtimes)
  <1>1. PICK i \in Invocations : j.profile = Profile(i.raw) BY DEF Tasked
  <1>2. /\ j.profile.vendor = SortedVendor(i.raw.vendor)
        /\ j.profile.runtimes = SortedRuntimes(i.raw.runtimes)
    BY <1>1 DEF Profile
  <1>3. Listed(SortedVendor(i.raw.vendor))
    <2> DEFINE v == i.raw.vendor
    <2>1. v \in Seq([source : Staged, target : Paths, sha256 : Contents])
      BY BundleAssumption
    <2> HIDE DEF v
    <2>2. Listed(SortedVendor(v)) BY <2>1, SortedListed DEF SortedVendor
    <2> QED BY <2>2 DEF v
  <1>4. Listed(SortedRuntimes(i.raw.runtimes))
    <2> DEFINE v == i.raw.runtimes
    <2>1. v \in Seq([platform : Matrix, component : {"gateway", "backend"}, source : Staged,
                     target : Paths, sha256 : Contents])
      BY BundleAssumption
    <2> HIDE DEF v
    <2>2. Listed(SortedRuntimes(v)) BY <2>1, SortedListed DEF SortedRuntimes
    <2> QED BY <2>2 DEF v
  <1> QED BY <1>2, <1>3, <1>4

\* A list read to its end is a list read.
LEMMA UptoAll ==
  ASSUME NEW list, NEW n \in Nat, DOMAIN list = 1 .. n, Len(list) = n,
         NEW a \in Nat, a > Len(list)
  PROVE  Upto(list, a) = Declared(list)
  <1>1. {k \in DOMAIN list : k < a} = DOMAIN list OBVIOUS
  <1> QED BY <1>1 DEF Upto, Declared, Elements

LEMMA UptoNone ==
  ASSUME NEW list, NEW n \in Nat, DOMAIN list = 1 .. n PROVE Upto(list, 1) = {}
  <1>1. {k \in DOMAIN list : k < 1} = {} OBVIOUS
  <1> QED BY <1>1 DEF Upto

LEMMA UptoNext ==
  ASSUME NEW list, NEW n \in Nat, DOMAIN list = 1 .. n,
         NEW a \in 1 .. n
  PROVE  Upto(list, a + 1) = Upto(list, a) \cup {<<list[a].target, list[a].sha256>>}
  <1>1. {k \in DOMAIN list : k < a + 1} = {k \in DOMAIN list : k < a} \cup {a} OBVIOUS
  <1> QED BY <1>1 DEF Upto

-----------------------------------------------------------------------------
(* Entries.                                                                *)

Entry(data, source) == [data |-> data, source |-> source]

LEMMA FromWith ==
  ASSUME NEW e, NEW p, p \notin DOMAIN e, NEW data, NEW source, NEW s
  PROVE  FromHeld(With(e, p, Entry(data, source)), s) =
           FromHeld(e, s) \cup (IF s = source THEN {<<p, data>>} ELSE {})
  <1> DEFINE w == With(e, p, Entry(data, source))
  <1>1. DOMAIN w = DOMAIN e \cup {p} /\ w[p] = Entry(data, source) BY DEF With
  <1>2. \A q \in DOMAIN e : w[q] = e[q] BY DEF With
  <1>3. w[p].data = data /\ w[p].source = source BY <1>1 DEF Entry
  <1> HIDE DEF w
  <1>4. \A x : x \in FromHeld(w, s) <=>
               \E q \in DOMAIN w : w[q].source = s /\ x = <<q, w[q].data>>
    BY DEF FromHeld
  <1>5. \A x : x \in FromHeld(e, s) <=>
               \E q \in DOMAIN e : e[q].source = s /\ x = <<q, e[q].data>>
    BY DEF FromHeld
  <1>6. \A x : x \in FromHeld(w, s) <=>
               x \in FromHeld(e, s) \/ (s = source /\ x = <<p, data>>)
    BY <1>1, <1>2, <1>3, <1>4, <1>5
  <1>7. FromHeld(w, s) = FromHeld(e, s) \cup (IF s = source THEN {<<p, data>>} ELSE {})
    BY <1>6
  <1> QED BY <1>7 DEF w

LEMMA ApartWith ==
  ASSUME NEW e, Apart(e), NEW p \in Portable, NEW x,
         \A q \in DOMAIN e \cup Generated : Key[q] # Key[p]
  PROVE  Apart(With(e, p, x)) /\ p \notin DOMAIN e
  <1>1. DOMAIN With(e, p, x) = DOMAIN e \cup {p} BY DEF With
  <1> QED BY <1>1 DEF Apart

LEMMA TextualWith ==
  ASSUME NEW e, Textual(e), NEW p, p \notin DOMAIN e, NEW data, NEW source,
         \/ source \in {"generated", "vendor", "runtime"}
         \/ source = "repository" /\ data \notin Binary
            /\ \E s \in Sources \ Excluded : TargetOf[s] = p
  PROVE  Textual(With(e, p, Entry(data, source)))
  <1> DEFINE w == With(e, p, Entry(data, source))
  <1>1. DOMAIN w = DOMAIN e \cup {p} /\ w[p] = Entry(data, source) BY DEF With
  <1>2. \A q \in DOMAIN e : w[q] = e[q] BY DEF With
  <1>3. w[p].data = data /\ w[p].source = source BY <1>1 DEF Entry
  <1> HIDE DEF w
  <1>4. Textual(w) BY <1>1, <1>2, <1>3 DEF Textual
  <1> QED BY <1>4 DEF w

-----------------------------------------------------------------------------
(* A bundle made of what a finished reading holds.                         *)

Held3(j, e) ==
  /\ Tasked(j) /\ Apart(e) /\ Textual(e)
  /\ FromHeld(e, "vendor") = Declared(j.profile.vendor)
  /\ FromHeld(e, "runtime") = Declared(j.profile.runtimes)
  /\ \A n \in Nat : ApprovedUpto(j, n)

Packed(j, e) ==
  LET d == With(With(e, "VERSION", File(j.version)), "profile.json", File(j.profile))
      m == With(d, "bundle-manifest.json",
                File([version |-> j.version, kind |-> j.profile.kind, artifacts |-> d]))
  IN  Archive(With(m, "SHA256SUMS", File(Digests(m))))

LEMMA BundledPacked ==
  ASSUME NEW b \in Builders PROVE Bundled(b) = Packed(job[b], entries[b])
  BY DEF Bundled, Packed, Manifested, Manifest, Described

LEMMA PackedSound ==
  ASSUME NEW j, NEW e, Held3(j, e)
  PROVE  Sound(Packed(j, e))
  <1> DEFINE d == With(With(e, "VERSION", File(j.version)), "profile.json", File(j.profile))
             m == With(d, "bundle-manifest.json",
                       File([version |-> j.version, kind |-> j.profile.kind, artifacts |-> d]))
             f == With(m, "SHA256SUMS", File(Digests(m)))
             z == Packed(j, e)
  <1>1. z.files = f BY DEF Packed, Archive
  <1>2. DOMAIN e \cap Generated = {} BY DEF Held3, Apart
  <1>3. /\ DOMAIN d = DOMAIN e \cup {"VERSION", "profile.json"}
        /\ d["VERSION"] = File(j.version) /\ d["profile.json"] = File(j.profile)
        /\ \A p \in DOMAIN e : d[p] = e[p]
    BY <1>2 DEF With, Generated
  <1>4. /\ DOMAIN m = DOMAIN d \cup {"bundle-manifest.json"}
        /\ m["bundle-manifest.json"] =
             File([version |-> j.version, kind |-> j.profile.kind, artifacts |-> d])
        /\ \A p \in DOMAIN d : m[p] = d[p]
    <2> HIDE DEF d
    <2>1. "bundle-manifest.json" \notin DOMAIN d BY <1>2, <1>3 DEF Generated
    <2> QED BY <2>1 DEF With
  <1>5. /\ DOMAIN f = DOMAIN m \cup {"SHA256SUMS"}
        /\ f["SHA256SUMS"] = File(Digests(m))
        /\ \A p \in DOMAIN m : f[p] = m[p]
    <2> HIDE DEF d, m
    <2>1. "SHA256SUMS" \notin DOMAIN m
      <3>1. "SHA256SUMS" \notin DOMAIN d BY <1>2, <1>3 DEF Generated
      <3> QED BY <1>4, <3>1
    <2> QED BY <2>1 DEF With
  <1>6. "SHA256SUMS" \notin DOMAIN m /\ "bundle-manifest.json" \notin DOMAIN d
    <2> HIDE DEF d, m, f
    <2> QED BY <1>2, <1>3, <1>4 DEF Generated
  <1>7. DOMAIN f = DOMAIN e \cup Generated
    <2> HIDE DEF d, m, f
    <2> QED BY <1>3, <1>4, <1>5 DEF Generated
  <1>8. /\ \A p \in DOMAIN e : f[p] = e[p]
        /\ f["profile.json"].data = j.profile
        /\ \A p \in Generated : f[p].source = "generated"
    <2> HIDE DEF d, m, f
    <2>1. \A p \in DOMAIN e : f[p] = e[p] BY <1>3, <1>4, <1>5
    <2>2. f["profile.json"] = File(j.profile) /\ f["VERSION"] = File(j.version)
      BY <1>3, <1>4, <1>5
    <2> QED BY <1>4, <1>5, <2>1, <2>2 DEF Generated, File
  <1> HIDE DEF z
  <1>9. Whole(z)
    <2> HIDE DEF d, m, f
    <2>1. f["SHA256SUMS"].data = Digests(m) BY <1>5 DEF File
    <2>2. f["bundle-manifest.json"].data.artifacts = d BY <1>4, <1>5 DEF File
    <2>3. DOMAIN Digests(m) = DOMAIN m /\ \A p \in DOMAIN m : Digests(m)[p] = f[p].data
      BY <1>5 DEF Digests
    <2>4. \A p \in DOMAIN d : d[p] = f[p] BY <1>4, <1>5
    <2>5. DOMAIN m = DOMAIN f \ {"SHA256SUMS"} BY <1>5, <1>6
    <2>6. DOMAIN d = DOMAIN f \ {"SHA256SUMS", "bundle-manifest.json"} BY <1>4, <1>5, <1>6
    <2> QED BY <1>1, <2>1, <2>2, <2>3, <2>4, <2>5, <2>6 DEF Whole
  <1> HIDE DEF d, m, f
  <1>10. PortablyNamed(z)
    <2>1. DOMAIN f \subseteq Portable BY <1>7, BundleAssumption DEF Held3, Apart
    <2>2. ASSUME NEW p \in DOMAIN f, NEW q \in DOMAIN f, Key[p] = Key[q] PROVE p = q
      <3>1. CASE p \in DOMAIN e BY <1>7, <2>2, <3>1 DEF Held3, Apart
      <3>2. CASE q \in DOMAIN e BY <1>7, <2>2, <3>2 DEF Held3, Apart
      <3>3. CASE p \in Generated /\ q \in Generated BY <2>2, <3>3, BundleAssumption
      <3> QED BY <1>7, <3>1, <3>2, <3>3
    <2> QED BY <1>1, <2>1, <2>2 DEF PortablyNamed
  <1>11. ASSUME NEW s \in {"vendor", "runtime"} PROVE From(z, s) = FromHeld(e, s)
    <2>1. {p \in DOMAIN f : f[p].source = s} = {p \in DOMAIN e : e[p].source = s}
      BY <1>7, <1>8
    <2>2. \A p \in {q \in DOMAIN e : e[q].source = s} : f[p].data = e[p].data BY <1>8
    <2> QED BY <1>1, <2>1, <2>2 DEF From, FromHeld
  <1>12. AsDeclared(z)
    <2>1. z.files["profile.json"].data = j.profile BY <1>1, <1>8
    <2> QED BY <1>11, <2>1 DEF AsDeclared, Held3
  <1>13. Approved(z)
    <2>1. z.files["profile.json"].data = j.profile BY <1>1, <1>8
    <2> SUFFICES ASSUME NEW r \in Elements(j.profile.runtimes), r.component = "gateway"
                 PROVE  /\ j.profile.fixtures \in RecordsIn[f[r.target].data]
                        /\ RecordsIn[f[r.target].data] \ {{}} \subseteq {j.profile.fixtures}
      BY <1>1, <2>1 DEF Approved
    <2>2. PICK i \in DOMAIN j.profile.runtimes : r = j.profile.runtimes[i] BY DEF Elements
    <2>3. <<r.target, r.sha256>> \in FromHeld(e, "runtime") BY DEF Held3, Declared
    <2>4. r.target \in DOMAIN e /\ e[r.target].data = r.sha256 BY <2>3 DEF FromHeld
    <2>5. i \in Nat /\ i + 1 \in Nat
      <3>1. Tasked(j) BY DEF Held3
      <3>2. Listed(j.profile.runtimes) BY <3>1, ProfileLists
      <3> QED BY <2>2, <3>2 DEF Listed
    <2>6. Approves(j.profile.fixtures, r.sha256) BY <2>2, <2>5 DEF Held3, ApprovedUpto
    <2> QED BY <1>8, <2>4, <2>6 DEF Approves
  <1>14. Own(z)
    <2>1. z.files["profile.json"].data = j.profile BY <1>1, <1>8
    <2> SUFFICES ASSUME j.profile.kind = "public", NEW p \in DOMAIN f
                 PROVE  \/ f[p].source = "generated"
                        \/ /\ f[p].source = "repository" /\ f[p].data \notin Binary
                           /\ \E s \in Sources \ Excluded : TargetOf[s] = p
      BY <1>1, <2>1 DEF Own
    <2>2. CASE p \in Generated BY <1>8, <2>2
    <2>3. CASE p \in DOMAIN e
      <3>1. PICK i \in Invocations : Accepted(i.raw) /\ j.profile = Profile(i.raw)
        BY DEF Held3, Tasked
      <3>2. i.raw.vendor = <<>> /\ i.raw.runtimes = <<>>
        BY <3>1 DEF Accepted, Profile
      <3>3. DOMAIN j.profile.vendor = {} /\ DOMAIN j.profile.runtimes = {}
        BY <3>1, <3>2, SortedDomain DEF Profile, SortedVendor, SortedRuntimes
      <3>4. FromHeld(e, "vendor") = {} /\ FromHeld(e, "runtime") = {}
        BY <3>3 DEF Held3, Declared, Elements
      <3>5. e[p].source \notin {"vendor", "runtime"}
        <4>1. \A s : e[p].source = s => <<p, e[p].data>> \in FromHeld(e, s)
          BY <2>3 DEF FromHeld
        <4> QED BY <3>4, <4>1
      <3> QED BY <1>8, <2>3, <3>5 DEF Held3, Textual
    <2> QED BY <1>7, <2>2, <2>3
  <1> QED BY <1>9, <1>10, <1>12, <1>13, <1>14 DEF Sound, z

-----------------------------------------------------------------------------
(* A step of one build leaves what the others hold alone.                  *)

Same(c) ==
  /\ pc'[c] = pc[c] /\ job'[c] = job[c] /\ at'[c] = at[c] /\ todo'[c] = todo[c]
  /\ entries'[c] = entries[c] /\ temp'[c] = temp[c] /\ report'[c] = report[c]

Frame(b) == Types' /\ \A c \in Builders \ {b} : Same(c)

LEMMA EndsFrame ==
  ASSUME Types, NEW b \in Builders, NEW how \in Phases, Ends(b, how),
         temp' = temp \/ temp' = [temp EXCEPT ![b] = None]
  PROVE  Frame(b)
  <1>1. at' \in [Builders -> Nat \ {0}] /\ \A c \in Builders \ {b} : at'[c] = at[c]
    <2>1. 1 \in Nat \ {0} OBVIOUS
    <2> QED BY <2>1 DEF Types, Ends
  <1>2. pc' \in [Builders -> Phases] /\ \A c \in Builders \ {b} : pc'[c] = pc[c]
    BY DEF Types, Ends, Goes
  <1> QED BY <1>1, <1>2 DEF Types, Ends, shared, Frame, Same

LEMMA FailsFrame ==
  ASSUME Types, NEW b \in Builders, Fails(b) PROVE Frame(b)
  BY EndsFrame DEF Fails, Phases

LEMMA AddFrame ==
  ASSUME Types, NEW b \in Builders, NEW p, NEW x,
         entries' = [entries EXCEPT ![b] = With(@, p, x)],
         \/ UNCHANGED at /\ \E s : todo' = [todo EXCEPT ![b] = @ \ {s}]
         \/ at' = [at EXCEPT ![b] = @ + 1] /\ UNCHANGED todo,
         UNCHANGED <<shared, pc, job, temp, report>>
  PROVE  Frame(b)
  <1>1. \A c \in Builders : at[c] + 1 \in Nat \ {0} BY DEF Types
  <1>2. at' \in [Builders -> Nat \ {0}] BY <1>1 DEF Types
  <1>3. \A c \in Builders \ {b} : at'[c] = at[c] BY DEF Types
  <1>4. todo' \in [Builders -> SUBSET Sources] /\ \A c \in Builders \ {b} : todo'[c] = todo[c]
    BY DEF Types
  <1> QED BY <1>2, <1>3, <1>4 DEF Types, shared, Frame, Same

LEMMA MoveFrame ==
  ASSUME Types, NEW b \in Builders, NEW to \in Phases, pc' = [pc EXCEPT ![b] = to],
         NEW n \in Nat \ {0}, at' = [at EXCEPT ![b] = n],
         UNCHANGED <<shared, temp, job, todo, entries, report>>
  PROVE  Frame(b)
  BY DEF Types, shared, Frame, Same

LEMMA BuildFrame ==
  ASSUME Types, NEW b \in Builders, Build(b) PROVE Frame(b)
  <1>1. CASE Start(b)
    <2>1. PICK i \in Invocations :
            \/ Fails(b)
            \/ \E j : /\ job' = [job EXCEPT ![b] = j] /\ Goes(b, "open")
                      /\ UNCHANGED <<shared, temp, at, todo, entries, report>>
      BY <1>1 DEF Start
    <2>2. CASE Fails(b) BY <2>2, FailsFrame
    <2>3. CASE \E j : /\ job' = [job EXCEPT ![b] = j] /\ Goes(b, "open")
                      /\ UNCHANGED <<shared, temp, at, todo, entries, report>>
      BY <2>3 DEF Types, Goes, shared, Frame, Same, Phases, Early
    <2> QED BY <2>1, <2>2, <2>3
  <1>2. CASE OpenDirectory(b)
    <2>1. {s \in Sources \ Excluded :
             /\ DirectoryOf[s] = Mappings[at[b]]
             /\ tree[s] # Absent
             /\ Above[s] \cap job[b].unlisted = {}} \in SUBSET Sources
      OBVIOUS
    <2> QED BY <1>2, <2>1 DEF OpenDirectory, Types, Goes, shared, Frame, Same, Phases, Early
  <1>3. CASE CloseDirectory(b)
    <2>1. CASE Fails(b) BY <2>1, FailsFrame
    <2>2. CASE ~Fails(b)
      <3>1. PICK to \in {"open", "required"} : pc' = [pc EXCEPT ![b] = to]
        BY <1>3, <2>2 DEF CloseDirectory, Goes
      <3>2. at' = [at EXCEPT ![b] = at[b] + 1] /\ at[b] + 1 \in Nat \ {0}
        BY <1>3, <2>2 DEF CloseDirectory, Types
      <3>3. UNCHANGED <<shared, temp, job, todo, entries, report>>
        BY <1>3, <2>2 DEF CloseDirectory
      <3> QED BY <3>1, <3>2, <3>3, MoveFrame DEF Phases, Early
    <2> QED BY <2>1, <2>2
  <1>4. CASE CheckRequired(b)
    <2>1. CASE Fails(b) BY <2>1, FailsFrame
    <2>2. CASE ~Fails(b)
      BY <1>4, <2>2 DEF CheckRequired, Types, Goes, shared, Frame, Same, Phases, Early
    <2> QED BY <2>1, <2>2
  <1>5. ASSUME NEW s \in Sources, ReadListed(b, s) PROVE Frame(b)
    <2>1. CASE Fails(b) BY <2>1, FailsFrame
    <2>2. CASE UNCHANGED entries /\ ~Fails(b)
      BY <1>5, <2>2 DEF ReadListed, AddEntry, Types, shared, Frame, Same
    <2>3. CASE \E p, x : entries' = [entries EXCEPT ![b] = With(@, p, x)] /\ ~Fails(b)
      BY <1>5, <2>3, AddFrame DEF ReadListed, AddEntry
    <2>4. \/ Fails(b) \/ UNCHANGED entries
          \/ \E p, x : entries' = [entries EXCEPT ![b] = With(@, p, x)]
      BY <1>5 DEF ReadListed, AddEntry
    <2> QED BY <2>1, <2>2, <2>3, <2>4
  <1>6. ASSUME NEW s \in Sources, ReadMapped(b, s) PROVE Frame(b)
    <2>1. CASE Fails(b) BY <2>1, FailsFrame
    <2>2. CASE ~Fails(b)
      BY <1>6, <2>2, AddFrame DEF ReadMapped, AddEntry
    <2> QED BY <2>1, <2>2
  <1>7. CASE OpenVendor(b) \/ OpenRuntime(b)
    <2>1. CASE Fails(b) BY <2>1, FailsFrame
    <2>2. CASE ~Fails(b)
      <3>1. PICK to \in {"vendor", "runtime"} : pc' = [pc EXCEPT ![b] = to]
        BY <1>7, <2>2 DEF OpenVendor, OpenRuntime, Opens, Goes
      <3>2. at' = [at EXCEPT ![b] = 1]
        BY <1>7, <2>2 DEF OpenVendor, OpenRuntime, Opens
      <3>3. UNCHANGED <<shared, temp, job, todo, entries, report>>
        BY <1>7, <2>2 DEF OpenVendor, OpenRuntime, Opens
      <3>4. 1 \in Nat \ {0} OBVIOUS
      <3> QED BY <3>1, <3>2, <3>3, <3>4, MoveFrame DEF Phases
    <2> QED BY <2>1, <2>2
  <1>8. CASE ReadVendor(b) \/ ReadRuntime(b)
    <2>1. CASE Fails(b) BY <2>1, FailsFrame
    <2>2. CASE ~Fails(b)
      BY <1>8, <2>2, AddFrame DEF ReadVendor, ReadRuntime, AddEntry
    <2> QED BY <2>1, <2>2
  <1>9. CASE AddRuntimeManifest(b)
    <2>1. CASE Fails(b) BY <2>1, FailsFrame
    <2>2. CASE ~Fails(b)
      BY <1>9, <2>2 DEF AddRuntimeManifest, AddEntry, Types, Goes, shared, Frame, Same, Phases, Late
    <2> QED BY <2>1, <2>2
  <1>10. CASE CreateTemporary(b) \/ WriteArchive(b) \/ ReadBack(b)
    BY <1>10 DEF CreateTemporary, WriteArchive, ReadBack, Types, Goes, shared, Frame, Same,
                 Phases, Late
  <1>11. CASE Replace(b)
    BY <1>11 DEF Replace, Overtakes, Types, Goes, Frame, Same, Phases, Late
  <1>12. CASE Fail(b) BY <1>12, FailsFrame DEF Fail
  <1>13. CASE Crash(b) BY <1>13, EndsFrame DEF Crash, Phases
  <1> QED BY <1>1, <1>2, <1>3, <1>4, <1>5, <1>6, <1>7, <1>8, <1>9, <1>10, <1>11, <1>12,
             <1>13 DEF Build

-----------------------------------------------------------------------------
(* What the build that makes the step holds afterwards.                    *)

LEMMA EndsHolds ==
  ASSUME Types, NEW b \in Builders, NEW how \in {"failed", "crashed"}, Ends(b, how)
  PROVE  Holds(b)'
  BY DEF Types, Ends, Goes, Holds, Held

\* One more entry.
Added(b, p, data, source) ==
  /\ p \in Portable /\ ~Provided(b, p)
  /\ entries' = [entries EXCEPT ![b] = With(@, p, Entry(data, source))]

LEMMA AddedEntry ==
  ASSUME Types, NEW b \in Builders, Apart(entries[b]), Textual(entries[b]),
         NEW p, NEW data, NEW source, Added(b, p, data, source),
         \/ source \in {"generated", "vendor", "runtime"}
         \/ source = "repository" /\ data \notin Binary
            /\ \E s \in Sources \ Excluded : TargetOf[s] = p
  PROVE  /\ Apart(entries'[b]) /\ Textual(entries'[b])
         /\ \A s : FromHeld(entries'[b], s) =
                     FromHeld(entries[b], s) \cup (IF s = source THEN {<<p, data>>} ELSE {})
  <1> DEFINE e == entries[b]
  <1>1. entries'[b] = With(e, p, Entry(data, source)) BY DEF Types, Added
  <1>2. \A q \in DOMAIN e \cup Generated : Key[q] # Key[p] BY DEF Added, Provided
  <1>3. p \in Portable BY DEF Added
  <1> HIDE DEF e
  <1>4. Apart(e) /\ Textual(e) BY DEF e
  <1>5. Apart(With(e, p, Entry(data, source))) /\ p \notin DOMAIN e
    BY <1>2, <1>3, <1>4, ApartWith
  <1>6. Textual(With(e, p, Entry(data, source))) BY <1>4, <1>5, TextualWith
  <1>7. \A s : FromHeld(With(e, p, Entry(data, source)), s) =
                 FromHeld(e, s) \cup (IF s = source THEN {<<p, data>>} ELSE {})
    BY <1>5, FromWith
  <1> QED BY <1>1, <1>5, <1>6, <1>7 DEF e

LEMMA StagedEntry ==
  ASSUME Types, NEW b \in Builders, Apart(entries[b]), Textual(entries[b]),
         NEW p, NEW data, NEW source \in {"generated", "vendor", "runtime"},
         Added(b, p, data, source)
  PROVE  /\ Apart(entries'[b]) /\ Textual(entries'[b])
         /\ FromHeld(entries'[b], source) = FromHeld(entries[b], source) \cup {<<p, data>>}
         /\ \A s : s # source => FromHeld(entries'[b], s) = FromHeld(entries[b], s)
  <1> DEFINE f == entries'[b]
             e == entries[b]
  <1>1. /\ Apart(f) /\ Textual(f)
        /\ \A s : FromHeld(f, s) =
                    FromHeld(e, s) \cup (IF s = source THEN {<<p, data>>} ELSE {})
    BY AddedEntry
  <1> HIDE DEF f, e
  <1>2. FromHeld(f, source) = FromHeld(e, source) \cup {<<p, data>>}
    <2>1. FromHeld(f, source) =
            FromHeld(e, source) \cup (IF source = source THEN {<<p, data>>} ELSE {})
      BY <1>1
    <2> QED BY <2>1
  <1>3. ASSUME NEW s, s # source PROVE FromHeld(f, s) = FromHeld(e, s)
    <2>1. FromHeld(f, s) = FromHeld(e, s) \cup (IF s = source THEN {<<p, data>>} ELSE {})
      BY <1>1
    <2>2. FromHeld(f, s) = FromHeld(e, s) \cup {} BY <1>3, <2>1
    <2> QED BY <2>2
  <1> QED BY <1>1, <1>2, <1>3 DEF f, e

LEMMA StartHolds ==
  ASSUME Types, NEW b \in Builders, Holds(b), Start(b) PROVE Holds(b)'
  <1>1. CASE Fails(b) BY <1>1, EndsHolds DEF Fails
  <1>2. CASE ~Fails(b)
    <2>1. PICK i \in Invocations :
            /\ Accepted(i.raw)
            /\ job' = [job EXCEPT ![b] =
                 [version |-> i.version, raw |-> i.raw, profile |-> Profile(i.raw),
                  vendorDir |-> i.vendorDir, tree |-> tree, unlisted |-> i.unlisted]]
            /\ Goes(b, "open") /\ UNCHANGED <<entries, todo, at>>
      BY <1>2 DEF Start
    <2>2. job'[b].raw = i.raw /\ job'[b].profile = Profile(i.raw) BY <2>1 DEF Types
    <2>3. Tasked(job'[b]) BY <2>1, <2>2 DEF Tasked
    <2>4. pc'[b] = "open" BY <2>1 DEF Types, Goes
    <2>5. entries'[b] = <<>> BY <1>2, <2>1 DEF Start, Holds, Held
    <2>6. Apart(<<>>) /\ Textual(<<>>) BY DEF Apart, Textual
    <2>7. \A s : FromHeld(<<>>, s) = {} BY DEF FromHeld
    <2>8. Vendored("open", job'[b], at'[b], <<>>) /\ Approving("open", job'[b], at'[b])
      BY <2>7 DEF Vendored, Approving, Early, Late
    <2> QED BY <2>3, <2>4, <2>5, <2>6, <2>8 DEF Holds, Held
  <1> QED BY <1>1, <1>2

\* Between the early stages nothing is added from the vendor directory.
LEMMA EarlyHolds ==
  ASSUME Types, NEW b \in Builders, Holds(b), pc[b] \in Early, pc'[b] \in Early,
         job'[b] = job[b], pc'[b] = "walk" => todo'[b] \cap Excluded = {},
         Apart(entries'[b]), Textual(entries'[b]),
         FromHeld(entries'[b], "vendor") = FromHeld(entries[b], "vendor"),
         FromHeld(entries'[b], "runtime") = FromHeld(entries[b], "runtime")
  PROVE  Holds(b)'
  <1>1. Tasked(job'[b]) BY DEF Holds, Held, Phases, Early
  <1>2. FromHeld(entries'[b], "vendor") = {} /\ FromHeld(entries'[b], "runtime") = {}
    BY DEF Holds, Held, Vendored, Phases, Early
  <1>3. Vendored(pc'[b], job'[b], at'[b], entries'[b])
    BY <1>2 DEF Vendored, Early, Late
  <1>4. Approving(pc'[b], job'[b], at'[b]) BY DEF Approving, Early, Late
  <1> QED BY <1>1, <1>3, <1>4 DEF Holds, Held, Early

\* A step within or between the early stages that adds nothing.
LEMMA EarlyStill ==
  ASSUME Types, NEW b \in Builders, Holds(b), pc[b] \in Early, pc'[b] \in Early,
         job' = job, entries' = entries, pc'[b] = "walk" => todo'[b] \cap Excluded = {}
  PROVE  Holds(b)'
  <1>1. Apart(entries[b]) /\ Textual(entries[b]) BY DEF Holds, Held, Phases, Early
  <1> QED BY <1>1, EarlyHolds

\* A step that adds a file of the repository.
LEMMA EarlyAdds ==
  ASSUME Types, NEW b \in Builders, Holds(b), pc[b] \in Early, pc' = pc, job' = job,
         pc'[b] = "walk" => todo'[b] \cap Excluded = {},
         NEW s \in Sources \ Excluded, NEW data, data \notin Binary,
         Added(b, TargetOf[s], data, "repository")
  PROVE  Holds(b)'
  <1>1. Apart(entries[b]) /\ Textual(entries[b]) BY DEF Holds, Held, Phases, Early
  <1>2. /\ Apart(entries'[b]) /\ Textual(entries'[b])
        /\ FromHeld(entries'[b], "vendor") = FromHeld(entries[b], "vendor")
        /\ FromHeld(entries'[b], "runtime") = FromHeld(entries[b], "runtime")
    <2>1. \E t \in Sources \ Excluded : TargetOf[t] = TargetOf[s] OBVIOUS
    <2> DEFINE p == TargetOf[s]
    <2> HIDE DEF p
    <2>2. Added(b, p, data, "repository") /\ \E t \in Sources \ Excluded : TargetOf[t] = p
      BY <2>1 DEF p
    <2>3. /\ Apart(entries'[b]) /\ Textual(entries'[b])
          /\ \A q : FromHeld(entries'[b], q) =
               FromHeld(entries[b], q) \cup (IF q = "repository" THEN {<<p, data>>} ELSE {})
      BY <1>1, <2>2, AddedEntry
    <2> QED BY <2>3
  <1> QED BY <1>2, EarlyHolds

LEMMA WalkHolds ==
  ASSUME Types, NEW b \in Builders, Holds(b),
         \/ OpenDirectory(b) \/ CloseDirectory(b) \/ CheckRequired(b)
         \/ \E s \in Sources : ReadListed(b, s) \/ ReadMapped(b, s)
  PROVE  Holds(b)'
  <1>1. CASE Fails(b) BY <1>1, EndsHolds DEF Fails
  <1> SUFFICES ASSUME ~Fails(b) PROVE Holds(b)'
    BY <1>1
  <1>2. CASE OpenDirectory(b)
    <2>1. todo'[b] \cap Excluded = {} BY <1>2 DEF OpenDirectory, Types
    <2>2. pc[b] \in Early /\ pc'[b] \in Early BY <1>2 DEF OpenDirectory, Goes, Types, Early
    <2> QED BY <1>2, <2>1, <2>2, EarlyStill DEF OpenDirectory
  <1>3. CASE CloseDirectory(b)
    <2>1. pc[b] \in Early /\ pc'[b] \in Early \ {"walk"}
      <3>1. PICK to \in {"open", "required"} : pc' = [pc EXCEPT ![b] = to]
        BY <1>3 DEF CloseDirectory, Goes
      <3>2. pc[b] = "walk" BY <1>3 DEF CloseDirectory
      <3> QED BY <3>1, <3>2 DEF Types, Early
    <2>2. job' = job /\ entries' = entries BY <1>3 DEF CloseDirectory
    <2> QED BY <2>1, <2>2, EarlyStill
  <1>4. CASE CheckRequired(b)
    <2>1. pc[b] \in Early /\ pc'[b] \in Early \ {"walk"}
      BY <1>4 DEF CheckRequired, Goes, Types, Early
    <2> QED BY <1>4, <2>1, EarlyStill DEF CheckRequired
  <1>5. ASSUME NEW s \in Sources, ReadListed(b, s) PROVE Holds(b)'
    <2>1. pc[b] = "walk" /\ s \in todo[b] /\ pc' = pc /\ job' = job
          /\ todo' = [todo EXCEPT ![b] = @ \ {s}]
      BY <1>5 DEF ReadListed, AddEntry, First
    <2>2. todo[b] \cap Excluded = {} BY <2>1 DEF Holds, Held, Phases, Early
    <2>3. s \notin Excluded /\ todo'[b] \cap Excluded = {} BY <2>1, <2>2 DEF Types
    <2>4. CASE entries' = entries BY <2>1, <2>3, <2>4, EarlyStill DEF Early
    <2>5. CASE entries' # entries
      <3>1. tree[s] \notin Binary /\ Added(b, TargetOf[s], tree[s], "repository")
        BY <1>5, <2>5 DEF ReadListed, AddEntry, Added, Entry
      <3> QED BY <2>1, <2>3, <3>1, EarlyAdds DEF Early
    <2> QED BY <2>4, <2>5
  <1>6. ASSUME NEW s \in Sources, ReadMapped(b, s) PROVE Holds(b)'
    <2>1. pc[b] = "mapped" /\ pc' = pc /\ job' = job /\ s \notin Excluded
          /\ tree[s] \notin Binary /\ Added(b, TargetOf[s], tree[s], "repository")
      BY <1>6 DEF ReadMapped, AddEntry, Added, Entry
    <2> QED BY <2>1, EarlyAdds DEF Early
  <1> QED BY <1>2, <1>3, <1>4, <1>5, <1>6

LEMMA OpenHolds ==
  ASSUME Types, NEW b \in Builders, Holds(b), OpenVendor(b) \/ OpenRuntime(b)
  PROVE  Holds(b)'
  <1>1. CASE Fails(b) BY <1>1, EndsHolds DEF Fails
  <1> SUFFICES ASSUME ~Fails(b) PROVE Holds(b)'
    BY <1>1
  <1> DEFINE j == job[b]
             e == entries[b]
  <1>2. job'[b] = j /\ entries'[b] = e /\ at' = [at EXCEPT ![b] = 1]
    BY DEF OpenVendor, OpenRuntime, Opens
  <1>3. at'[b] = 1 BY <1>2 DEF Types
  <1>4. pc[b] \in {"mapped", "vendor"} BY DEF OpenVendor, OpenRuntime
  <1>5. Tasked(j) /\ Apart(e) /\ Textual(e) BY <1>4 DEF Holds, Held, Phases, Early
  <1>6. Listed(j.profile.vendor) /\ Listed(j.profile.runtimes) BY <1>5, ProfileLists
  <1>7. Upto(j.profile.vendor, 1) = {} /\ Upto(j.profile.runtimes, 1) = {}
    BY <1>6, UptoNone DEF Listed
  <1>8. CASE OpenVendor(b)
    <2>1. pc[b] = "mapped" BY <1>8 DEF OpenVendor
    <2>2. pc'[b] = "vendor" BY <1>8 DEF OpenVendor, Opens, Goes, Types
    <2>3. FromHeld(e, "vendor") = {} /\ FromHeld(e, "runtime") = {}
      BY <2>1 DEF Holds, Held, Vendored, Phases, Early
    <2>4. Vendored("vendor", j, 1, e) BY <1>7, <2>3 DEF Vendored, Early, Late
    <2>5. Approving("vendor", j, 1) BY DEF Approving, Late
    <2> QED BY <1>2, <1>3, <1>5, <2>2, <2>4, <2>5 DEF Holds, Held
  <1>9. CASE OpenRuntime(b)
    <2>1. pc[b] = "vendor" /\ at[b] > Len(j.profile.vendor) BY <1>9 DEF OpenRuntime
    <2>2. pc'[b] = "runtime" BY <1>9 DEF OpenRuntime, Opens, Goes, Types
    <2>3. FromHeld(e, "vendor") = Upto(j.profile.vendor, at[b]) /\ FromHeld(e, "runtime") = {}
      BY <2>1 DEF Holds, Held, Vendored, Phases
    <2>4. Upto(j.profile.vendor, at[b]) = Declared(j.profile.vendor)
      BY <1>6, <2>1, UptoAll DEF Listed, Types
    <2>5. Vendored("runtime", j, 1, e) BY <1>7, <2>3, <2>4 DEF Vendored, Early, Late
    <2>6. \A i \in DOMAIN j.profile.runtimes : ~(i < 1) BY <1>6 DEF Listed
    <2>7. Approving("runtime", j, 1) BY <2>6 DEF Approving, ApprovedUpto, Late
    <2> QED BY <1>2, <1>3, <1>5, <2>2, <2>5, <2>7 DEF Holds, Held
  <1> QED BY <1>8, <1>9

LEMMA VendorHolds ==
  ASSUME Types, NEW b \in Builders, Holds(b), ReadVendor(b)
  PROVE  Holds(b)'
  <1>1. CASE Fails(b) BY <1>1, EndsHolds DEF Fails
  <1> SUFFICES ASSUME ~Fails(b) PROVE Holds(b)'
    BY <1>1
  <1> DEFINE j == job[b]
             e == entries[b]
             a == at[b]
             v == j.profile.vendor[a]
  <1>2. /\ pc[b] = "vendor" /\ pc' = pc /\ job' = job /\ a <= Len(j.profile.vendor)
        /\ staged[v.source] = v.sha256
        /\ Added(b, v.target, v.sha256, "vendor")
        /\ at' = [at EXCEPT ![b] = @ + 1]
    BY DEF ReadVendor, Verified, AddEntry, Added, Entry
  <1>3. at'[b] = a + 1 /\ a \in Nat \ {0} BY <1>2 DEF Types
  <1>4. Tasked(j) /\ Apart(e) /\ Textual(e) BY <1>2 DEF Holds, Held, Phases
  <1>5. FromHeld(e, "vendor") = Upto(j.profile.vendor, a) /\ FromHeld(e, "runtime") = {}
    BY <1>2 DEF Holds, Held, Vendored, Phases
  <1>6. /\ Apart(entries'[b]) /\ Textual(entries'[b])
        /\ FromHeld(entries'[b], "vendor") =
             Upto(j.profile.vendor, a) \cup {<<v.target, v.sha256>>}
        /\ FromHeld(entries'[b], "runtime") = {}
    <2> DEFINE p == v.target
               d == v.sha256
    <2>1. Added(b, p, d, "vendor") BY <1>2
    <2> HIDE DEF p, d
    <2>2. /\ Apart(entries'[b]) /\ Textual(entries'[b])
          /\ FromHeld(entries'[b], "vendor") = FromHeld(e, "vendor") \cup {<<p, d>>}
          /\ FromHeld(entries'[b], "runtime") = FromHeld(e, "runtime")
      BY <1>4, <2>1, StagedEntry
    <2> QED BY <1>5, <2>2 DEF p, d
  <1>7. Listed(j.profile.vendor) BY <1>4, ProfileLists
  <1>8. Upto(j.profile.vendor, a + 1) = Upto(j.profile.vendor, a) \cup {<<v.target, v.sha256>>}
    <2> DEFINE list == j.profile.vendor
    <2>1. PICK n \in Nat : DOMAIN list = 1 .. n /\ Len(list) = n BY <1>7 DEF Listed
    <2> HIDE DEF list
    <2>2. a \in 1 .. n
      <3>1. a <= Len(list) /\ a \in Nat \ {0} BY <1>2, <1>3 DEF list
      <3> HIDE DEF a
      <3> QED BY <2>1, <3>1
    <2>3. Upto(list, a + 1) = Upto(list, a) \cup {<<list[a].target, list[a].sha256>>}
      BY <2>1, <2>2, UptoNext
    <2> QED BY <2>3 DEF list
  <1>9. Vendored("vendor", j, a + 1, entries'[b]) BY <1>6, <1>8 DEF Vendored, Early, Late
  <1>10. Approving("vendor", j, a + 1) BY DEF Approving, Late
  <1> QED BY <1>2, <1>3, <1>4, <1>6, <1>9, <1>10 DEF Holds, Held

LEMMA RuntimeHolds ==
  ASSUME Types, NEW b \in Builders, Holds(b), ReadRuntime(b)
  PROVE  Holds(b)'
  <1>1. CASE Fails(b) BY <1>1, EndsHolds DEF Fails
  <1> SUFFICES ASSUME ~Fails(b) PROVE Holds(b)'
    BY <1>1
  <1> DEFINE j == job[b]
             e == entries[b]
             a == at[b]
             v == j.profile.runtimes[a]
  <1>2. /\ pc[b] = "runtime" /\ pc' = pc /\ job' = job /\ a <= Len(j.profile.runtimes)
        /\ v.component = "gateway" => Approves(j.profile.fixtures, v.sha256)
        /\ Added(b, v.target, v.sha256, "runtime")
        /\ at' = [at EXCEPT ![b] = @ + 1]
    BY DEF ReadRuntime, Verified, AddEntry, Added, Entry
  <1>3. at'[b] = a + 1 /\ a \in Nat \ {0} BY <1>2 DEF Types
  <1>4. Tasked(j) /\ Apart(e) /\ Textual(e) BY <1>2 DEF Holds, Held, Phases
  <1>5. /\ FromHeld(e, "vendor") = Declared(j.profile.vendor)
        /\ FromHeld(e, "runtime") = Upto(j.profile.runtimes, a)
        /\ ApprovedUpto(j, a)
    BY <1>2 DEF Holds, Held, Vendored, Approving, Phases
  <1>6. /\ Apart(entries'[b]) /\ Textual(entries'[b])
        /\ FromHeld(entries'[b], "runtime") =
             Upto(j.profile.runtimes, a) \cup {<<v.target, v.sha256>>}
        /\ FromHeld(entries'[b], "vendor") = Declared(j.profile.vendor)
    <2> DEFINE p == v.target
               d == v.sha256
    <2>1. Added(b, p, d, "runtime") BY <1>2
    <2> HIDE DEF p, d
    <2>2. /\ Apart(entries'[b]) /\ Textual(entries'[b])
          /\ FromHeld(entries'[b], "runtime") = FromHeld(e, "runtime") \cup {<<p, d>>}
          /\ FromHeld(entries'[b], "vendor") = FromHeld(e, "vendor")
      BY <1>4, <2>1, StagedEntry
    <2> QED BY <1>5, <2>2 DEF p, d
  <1>7. Listed(j.profile.runtimes) BY <1>4, ProfileLists
  <1>8. Upto(j.profile.runtimes, a + 1) = Upto(j.profile.runtimes, a) \cup {<<v.target, v.sha256>>}
    <2> DEFINE list == j.profile.runtimes
    <2>1. PICK n \in Nat : DOMAIN list = 1 .. n /\ Len(list) = n BY <1>7 DEF Listed
    <2> HIDE DEF list
    <2>2. a \in 1 .. n
      <3>1. a <= Len(list) /\ a \in Nat \ {0} BY <1>2, <1>3 DEF list
      <3> HIDE DEF a
      <3> QED BY <2>1, <3>1
    <2>3. Upto(list, a + 1) = Upto(list, a) \cup {<<list[a].target, list[a].sha256>>}
      BY <2>1, <2>2, UptoNext
    <2> QED BY <2>3 DEF list
  <1>9. Vendored("runtime", j, a + 1, entries'[b]) BY <1>6, <1>8 DEF Vendored, Early, Late
  <1>10. ApprovedUpto(j, a + 1)
    <2>1. \A i \in DOMAIN j.profile.runtimes : i < a + 1 => i < a \/ i = a
      BY <1>3, <1>7 DEF Listed
    <2> QED BY <1>2, <1>5, <2>1 DEF ApprovedUpto
  <1>11. Approving("runtime", j, a + 1) BY <1>10 DEF Approving, Late
  <1> QED BY <1>2, <1>3, <1>4, <1>6, <1>9, <1>11 DEF Holds, Held

\* With all files read, a build holds what a sound bundle is made of.
LEMMA LateHeld ==
  ASSUME NEW b \in Builders, Holds(b), pc[b] \in Late
  PROVE  Held3(job[b], entries[b])
  <1>1. pc[b] \in Phases \ {"idle", "failed", "crashed"} BY DEF Phases, Late
  <1>2. /\ Tasked(job[b]) /\ Apart(entries[b]) /\ Textual(entries[b])
        /\ Vendored(pc[b], job[b], at[b], entries[b])
        /\ Approving(pc[b], job[b], at[b])
    BY <1>1 DEF Holds, Held
  <1> QED BY <1>2 DEF Held3, Vendored, Approving

LEMMA LateHolds ==
  ASSUME NEW b \in Builders, pc'[b] \in Late, Held3(job'[b], entries'[b])
  PROVE  Holds(b)'
  <1>1. pc'[b] \notin Early \cup {"idle", "vendor", "runtime", "walk", "failed", "crashed"}
    BY DEF Early, Late
  <1>2. Vendored(pc'[b], job'[b], at'[b], entries'[b]) /\ Approving(pc'[b], job'[b], at'[b])
    BY <1>1 DEF Held3, Vendored, Approving
  <1> QED BY <1>1, <1>2 DEF Holds, Held, Held3

LEMMA ManifestHolds ==
  ASSUME Types, NEW b \in Builders, Holds(b), AddRuntimeManifest(b)
  PROVE  Holds(b)'
  <1>1. CASE Fails(b) BY <1>1, EndsHolds DEF Fails
  <1> SUFFICES ASSUME ~Fails(b) PROVE Holds(b)'
    BY <1>1
  <1> DEFINE j == job[b]
             e == entries[b]
             a == at[b]
  <1>2. /\ pc[b] = "runtime" /\ job' = job /\ a > Len(j.profile.runtimes)
        /\ Goes(b, "temp")
        /\ \/ entries' = entries
           \/ Added(b, "runtime/manifest.json", RuntimeManifest(j.profile), "generated")
    BY DEF AddRuntimeManifest, AddEntry, Added, Entry
  <1>3. pc'[b] = "temp" BY <1>2 DEF Types, Goes
  <1>4. Tasked(j) /\ Apart(e) /\ Textual(e) BY <1>2 DEF Holds, Held, Phases
  <1>5. Listed(j.profile.runtimes) BY <1>4, ProfileLists
  <1>6. /\ FromHeld(e, "vendor") = Declared(j.profile.vendor)
        /\ FromHeld(e, "runtime") = Upto(j.profile.runtimes, a)
        /\ ApprovedUpto(j, a)
    BY <1>2 DEF Holds, Held, Vendored, Approving, Phases
  <1>7. Upto(j.profile.runtimes, a) = Declared(j.profile.runtimes)
    BY <1>2, <1>5, UptoAll DEF Listed, Types
  <1>8. \A n \in Nat : ApprovedUpto(j, n)
    <2>1. \A i \in DOMAIN j.profile.runtimes : i < a BY <1>2, <1>5 DEF Listed, Types
    <2> QED BY <1>6, <2>1 DEF ApprovedUpto
  <1>9. /\ Apart(entries'[b]) /\ Textual(entries'[b])
        /\ FromHeld(entries'[b], "vendor") = FromHeld(e, "vendor")
        /\ FromHeld(entries'[b], "runtime") = FromHeld(e, "runtime")
    <2>1. CASE entries' = entries BY <1>4, <2>1
    <2>2. CASE Added(b, "runtime/manifest.json", RuntimeManifest(j.profile), "generated")
      <3> DEFINE d == RuntimeManifest(j.profile)
      <3>1. Added(b, "runtime/manifest.json", d, "generated") BY <2>2
      <3> HIDE DEF d
      <3>2. /\ Apart(entries'[b]) /\ Textual(entries'[b])
            /\ FromHeld(entries'[b], "vendor") = FromHeld(e, "vendor")
            /\ FromHeld(entries'[b], "runtime") = FromHeld(e, "runtime")
        BY <1>4, <3>1, StagedEntry
      <3> QED BY <3>2
    <2> QED BY <1>2, <2>1, <2>2
  <1>10. Held3(job'[b], entries'[b])
    BY <1>2, <1>4, <1>6, <1>7, <1>8, <1>9 DEF Held3
  <1> QED BY <1>3, <1>10, LateHolds DEF Late

LEMMA WriteHolds ==
  ASSUME Types, NEW b \in Builders, Holds(b),
         CreateTemporary(b) \/ WriteArchive(b) \/ Replace(b) \/ ReadBack(b)
  PROVE  Holds(b)'
  <1>1. /\ pc[b] \in Late /\ job' = job /\ entries' = entries
        /\ \E to \in Late : pc' = [pc EXCEPT ![b] = to]
    BY DEF CreateTemporary, WriteArchive, Replace, ReadBack, Goes, Late
  <1>2. pc'[b] \in Late BY <1>1 DEF Types
  <1> QED BY <1>1, <1>2, LateHeld, LateHolds

LEMMA BuildHolds ==
  ASSUME Types, NEW b \in Builders, Holds(b), Build(b)
  PROVE  Holds(b)'
  <1>1. CASE Fail(b) \/ Crash(b) BY <1>1, EndsHolds DEF Fail, Crash, Fails
  <1> QED BY <1>1, StartHolds, WalkHolds, OpenHolds, VendorHolds, RuntimeHolds, ManifestHolds,
             WriteHolds DEF Build

-----------------------------------------------------------------------------
(* The temporary files, the output and the answers.                        *)

LEMMA BundledSame ==
  ASSUME NEW b \in Builders, job'[b] = job[b], entries'[b] = entries[b]
  PROVE  Bundled(b)' = Bundled(b)
  BY DEF Bundled, Manifested, Manifest, Described

\* Only Replace touches the output, and only ReadBack the answers; each step of the
\* archive leaves its own build's entries alone.
LEMMA OutputStep ==
  ASSUME Types, NEW b \in Builders, Build(b)
  PROVE  \/ Replace(b)
         \/ UNCHANGED <<output, overtaken>>
  BY DEF Build, Start, OpenDirectory, CloseDirectory, CheckRequired, ReadListed, ReadMapped,
         OpenVendor, ReadVendor, OpenRuntime, ReadRuntime, Opens, AddRuntimeManifest, AddEntry,
         CreateTemporary, WriteArchive, ReadBack, Fail, Crash, Fails, Ends, shared

LEMMA TemporaryStep ==
  ASSUME Types, NEW b \in Builders, Build(b)
  PROVE  Temporary(b)'
  <1>1. CASE WriteArchive(b)
    <2>1. pc'[b] = "replace" /\ temp'[b] = Bundled(b) BY <1>1 DEF WriteArchive, Types, Goes
    <2>2. job' = job /\ entries' = entries BY <1>1 DEF WriteArchive
    <2> QED BY <2>1, <2>2, BundledSame DEF Temporary
  <1>2. CASE Fails(b) BY <1>2 DEF Types, Fails, Ends, Goes, Temporary
  <1>3. CASE ~WriteArchive(b) /\ ~Fails(b)
    <2>1. pc'[b] # "replace"
      BY <1>3 DEF Build, Start, OpenDirectory, CloseDirectory, CheckRequired, ReadListed,
              ReadMapped, OpenVendor, ReadVendor, OpenRuntime, ReadRuntime, Opens,
              AddRuntimeManifest, AddEntry, CreateTemporary, Replace, ReadBack, Fail, Crash,
              Ends, Goes, Types
    <2> QED BY <2>1 DEF Temporary
  <1> QED BY <1>1, <1>2, <1>3

\* The step that makes a build's output and the one that makes its answer.
LEMMA AnswerStep ==
  ASSUME Types, NEW b \in Builders, Temporary(b), Answer(b), Build(b)
  PROVE  Answer(b)'
  <1>1. CASE Replace(b)
    <2>1. job' = job /\ entries' = entries /\ pc[b] = "replace" /\ pc'[b] = "read"
          /\ output' = temp[b]
      BY <1>1 DEF Replace, Types, Goes
    <2>2. output' = Bundled(b)' BY <2>1, BundledSame DEF Temporary
    <2> QED BY <2>1, <2>2 DEF Answer
  <1>2. CASE ReadBack(b)
    <2>1. job' = job /\ entries' = entries /\ pc[b] = "read" /\ pc'[b] = "done"
          /\ report'[b] = output /\ overtaken' = overtaken
      BY <1>2 DEF ReadBack, Types, Goes, shared
    <2>2. Bundled(b)' = Bundled(b) BY <2>1, BundledSame
    <2> QED BY <2>1, <2>2 DEF Answer
  <1>3. CASE ~Replace(b) /\ ~ReadBack(b)
    <2>1. CASE Fails(b) BY <2>1 DEF Fails, Ends, Goes, Types, Answer
    <2>2. CASE Crash(b) BY <2>2 DEF Crash, Ends, Goes, Types, Answer
    <2>3. CASE ~Fails(b) /\ ~Crash(b)
      <3>1. \/ pc' = pc /\ pc[b] \notin {"read", "done"}
            \/ \E to \in Phases \ {"read", "done"} : pc' = [pc EXCEPT ![b] = to]
        BY <1>3, <2>3
           DEF Build, Start, OpenDirectory, CloseDirectory, CheckRequired, ReadListed,
               ReadMapped, OpenVendor, ReadVendor, OpenRuntime, ReadRuntime, Opens,
               AddRuntimeManifest, AddEntry, CreateTemporary, WriteArchive, Fail, Goes,
               Phases, Early, Late
      <3>2. pc'[b] \notin {"read", "done"} BY <3>1 DEF Types
      <3> QED BY <3>2 DEF Answer
    <2> QED BY <2>1, <2>2, <2>3
  <1> QED BY <1>1, <1>2, <1>3

\* The step of another build: it overtakes whoever has not read back yet.
LEMMA OtherAnswer ==
  ASSUME Types, NEW b \in Builders, NEW c \in Builders \ {b}, Answer(c), Same(c), Build(b)
  PROVE  Answer(c)'
  <1>1. Bundled(c)' = Bundled(c) BY BundledSame DEF Same
  <1>2. CASE Replace(b)
    <2>1. pc[c] = "read" => c \in overtaken' BY <1>2 DEF Replace, Overtakes
    <2>2. overtaken \subseteq overtaken' BY <1>2 DEF Replace, Overtakes
    <2> QED BY <1>1, <2>1, <2>2 DEF Same, Answer
  <1>3. CASE UNCHANGED <<output, overtaken>> BY <1>1, <1>3 DEF Same, Answer
  <1> QED BY <1>2, <1>3, OutputStep

LEMMA OtherTemporary ==
  ASSUME NEW c \in Builders, Temporary(c), Same(c) PROVE Temporary(c)'
  BY BundledSame DEF Same, Temporary

LEMMA InitIInv == ASSUME Init PROVE IInv
  <1>1. Types
    <2>1. 1 \in Nat \ {0} OBVIOUS
    <2> QED BY <2>1 DEF Init, Types, Phases
  <1>2. ASSUME NEW b \in Builders PROVE Holds(b) /\ Temporary(b) /\ Answer(b)
    BY DEF Init, Holds, Held, Temporary, Answer
  <1> QED BY <1>1, <1>2 DEF IInv, Init

LEMMA EditIInv == ASSUME IInv, Edit PROVE IInv'
  <1>1. UNCHANGED <<output, temp, pc, job, at, todo, entries, report, overtaken>>
    BY DEF Edit
  <1>2. Types'
    <2>1. disturbed' \subseteq Builders BY DEF Edit, Running, IInv, Types
    <2> QED BY <1>1, <2>1 DEF IInv, Types
  <1>3. ASSUME NEW b \in Builders PROVE Holds(b)' /\ Temporary(b)' /\ Answer(b)'
    <2>1. Holds(b) /\ Temporary(b) /\ Answer(b) BY DEF IInv
    <2>2. Same(b) BY <1>1 DEF Same
    <2>3. Holds(b)' BY <2>1, <2>2 DEF Holds, Same
    <2>4. Bundled(b)' = Bundled(b) BY <2>2, BundledSame DEF Same
    <2>5. Answer(b)' BY <1>1, <2>1, <2>4 DEF Answer
    <2> QED BY <2>1, <2>2, <2>3, <2>5, OtherTemporary
  <1>4. output' = None \/ Sound(output') BY <1>1 DEF IInv
  <1> QED BY <1>2, <1>3, <1>4 DEF IInv

LEMMA BuildIInv == ASSUME IInv, NEW b \in Builders, Build(b) PROVE IInv'
  <1>1. Types /\ Frame(b) BY BuildFrame DEF IInv
  <1>2. ASSUME NEW c \in Builders PROVE Holds(c)' /\ Temporary(c)' /\ Answer(c)'
    <2>1. Holds(c) /\ Temporary(c) /\ Answer(c) BY DEF IInv
    <2>2. CASE c = b BY <1>1, <2>1, <2>2, BuildHolds, TemporaryStep, AnswerStep
    <2>3. CASE c # b
      <3>1. Same(c) BY <1>1, <2>3 DEF Frame
      <3>2. Holds(c)' BY <2>1, <3>1 DEF Holds, Same
      <3> QED BY <1>1, <2>1, <2>3, <3>1, <3>2, OtherTemporary, OtherAnswer
    <2> QED BY <2>2, <2>3
  <1>3. output' = None \/ Sound(output')
    <2>1. CASE Replace(b)
      <3>1. pc[b] = "replace" /\ output' = temp[b] BY <2>1 DEF Replace
      <3>2. output' = Bundled(b) BY <3>1 DEF IInv, Temporary
      <3>3. Held3(job[b], entries[b]) BY <3>1, LateHeld DEF IInv, Late
      <3>4. Sound(Packed(job[b], entries[b])) BY <3>3, PackedSound
      <3> QED BY <3>2, <3>4, BundledPacked
    <2>2. CASE UNCHANGED output BY <2>2 DEF IInv
    <2> QED BY <1>1, <2>1, <2>2, OutputStep
  <1>4. Types' BY <1>1 DEF Frame
  <1> QED BY <1>2, <1>3, <1>4 DEF IInv

\* The inductive invariant: what a build holds in memory, in its temporary file and in
\* its answer, and that the output is sound.
THEOREM Inductive == Spec => []IInv
  <1>1. Init => IInv BY InitIInv
  <1>2. IInv /\ [Next]_vars => IInv'
    <2> SUFFICES ASSUME IInv, [Next]_vars PROVE IInv'
      OBVIOUS
    <2>1. CASE Edit BY <2>1, EditIInv
    <2>2. ASSUME NEW b \in Builders, Build(b) PROVE IInv'
      BY <2>2, BuildIInv
    <2>3. CASE UNCHANGED vars
      <3>1. UNCHANGED <<output, temp, pc, job, at, todo, entries, report, overtaken, disturbed>>
        BY <2>3 DEF vars
      <3>2. ASSUME NEW b \in Builders PROVE Holds(b)' /\ Temporary(b)' /\ Answer(b)'
        <4>1. Holds(b) /\ Temporary(b) /\ Answer(b) BY DEF IInv
        <4>2. Same(b) BY <3>1 DEF Same
        <4>3. Bundled(b)' = Bundled(b) BY <4>2, BundledSame DEF Same
        <4> QED BY <3>1, <4>1, <4>2, <4>3, OtherTemporary DEF Holds, Answer
      <3>3. Types' BY <3>1 DEF IInv, Types
      <3>4. output' = None \/ Sound(output') BY <3>1 DEF IInv
      <3> QED BY <3>2, <3>3, <3>4 DEF IInv
    <2> QED BY <2>1, <2>2, <2>3 DEF Next
  <1> QED BY <1>1, <1>2, PTL DEF Spec

-----------------------------------------------------------------------------
(* The theorems.                                                           *)

\* The repository, the vendor directory and the number of edits.
Surroundings ==
  /\ tree \in [Sources -> Contents \cup {Absent, Link}]
  /\ staged \in [Staged -> Contents \cup {Absent, Link}]
  /\ edits \in 0 .. MaxEdits

LEMMA SurroundingsStep ==
  ASSUME Types, Surroundings, Next PROVE Surroundings'
  <1>1. CASE Edit
    <2>1. edits' \in 0 .. MaxEdits BY <1>1, BundleAssumption DEF Edit, Surroundings
    <2>2. PICK c \in Contents \cup {Absent} :
            \/ \E s \in Sources \cap Edited :
                 tree' = [tree EXCEPT ![s] = c] /\ UNCHANGED staged
            \/ \E s \in Staged \cap Edited :
                 staged' = [staged EXCEPT ![s] = c] /\ UNCHANGED tree
      BY <1>1, BundleAssumption DEF Edit
    <2> QED BY <2>1, <2>2 DEF Surroundings
  <1>2. ASSUME NEW b \in Builders, Build(b) PROVE Surroundings'
    <2>1. UNCHANGED <<tree, staged, edits>>
      BY <1>2 DEF Build, Start, OpenDirectory, CloseDirectory, CheckRequired, ReadListed,
           ReadMapped, OpenVendor, ReadVendor, OpenRuntime, ReadRuntime, Opens,
           AddRuntimeManifest, AddEntry, CreateTemporary, WriteArchive, Replace, ReadBack, Fail,
           Crash, Fails, Ends, shared
    <2> QED BY <2>1 DEF Surroundings
  <1> QED BY <1>1, <1>2 DEF Next

\* Every variable has its type, and no entry takes a generated file's name: _add_entry
\* refuses it.
THEOREM TypeCorrect == Spec => []TypeOK
  <1>1. Init => Surroundings BY BundleAssumption DEF Init, Surroundings
  <1>2. IInv /\ Surroundings /\ [Next]_vars => Surroundings'
    <2> SUFFICES ASSUME IInv, Surroundings, [Next]_vars PROVE Surroundings'
      OBVIOUS
    <2>1. CASE Next BY <2>1, SurroundingsStep DEF IInv
    <2>2. CASE UNCHANGED vars BY <2>2 DEF vars, Surroundings
    <2> QED BY <2>1, <2>2
  <1>3. IInv /\ Surroundings => TypeOK
    <2> SUFFICES ASSUME IInv, Surroundings PROVE TypeOK
      OBVIOUS
    <2>1. pc \in [Builders -> Phases] /\ at \in [Builders -> Nat]
          /\ todo \in [Builders -> SUBSET Sources]
          /\ disturbed \subseteq Builders /\ overtaken \subseteq Builders
      BY DEF IInv, Types
    <2>2. ASSUME NEW b \in Builders PROVE DOMAIN entries[b] \subseteq Portable \ Generated
      <3>1. CASE pc[b] \in {"idle", "failed", "crashed"}
        BY <3>1 DEF IInv, Holds, Held
      <3>2. CASE pc[b] \notin {"idle", "failed", "crashed"}
        BY <2>1, <3>2 DEF IInv, Holds, Held, Apart
      <3> QED BY <3>1, <3>2
    <2>3. Phases = {"idle", "open", "walk", "required", "mapped", "vendor",
                    "runtime", "temp", "write", "replace", "read"} \cup Ended
      BY DEF Phases, Early, Late, Ended
    <2> QED BY <2>1, <2>2, <2>3 DEF TypeOK, Surroundings
  <1> QED BY <1>1, <1>2, <1>3, Inductive, PTL DEF Spec

\* The file at the output path is a whole bundle whenever there is one.
THEOREM OutputIsWhole == Spec => []PublishedIsWhole
  <1>1. IInv => PublishedIsWhole BY DEF IInv, Sound, PublishedIsWhole
  <1> QED BY <1>1, Inductive, PTL

\* Its names are portable and apart without regard to case.
THEOREM OutputIsPortable == Spec => []PublishedIsPortable
  <1>1. IInv => PublishedIsPortable BY DEF IInv, Sound, PublishedIsPortable
  <1> QED BY <1>1, Inductive, PTL

\* What it has from the vendor directory is what its profile declares.
THEOREM OutputAsDeclared == Spec => []VendorAsDeclared
  <1>1. IInv => VendorAsDeclared BY DEF IInv, Sound, VendorAsDeclared
  <1> QED BY <1>1, Inductive, PTL

\* Its gateways record the fixtures of its profile, and no others.
THEOREM OutputGateways == Spec => []GatewaysApproveProfile
  <1>1. IInv => GatewaysApproveProfile BY DEF IInv, Sound, GatewaysApproveProfile
  <1> QED BY <1>1, Inductive, PTL

\* A public bundle has generated files and text of the repository only.
THEOREM OutputPublic == Spec => []PublicIsOwn
  <1>1. IInv => PublicIsOwn BY DEF IInv, Sound, PublicIsOwn
  <1> QED BY <1>1, Inductive, PTL

\* The answer is about the build's own bundle unless another build came between.
THEOREM AnswersAreOwn == Spec => []ReportIsPublished
  <1>1. IInv => ReportIsPublished BY DEF IInv, Answer, ReportIsPublished
  <1> QED BY <1>1, Inductive, PTL

-----------------------------------------------------------------------------
(* Sorted lists.                                                           *)

\* Of the elements of E, those that R puts before x.
Before(R, E, x) == {z \in E : <<z, x>> \in R}

StrictTotal(R, E) ==
  /\ \A x \in E : <<x, x>> \notin R
  /\ \A x, y \in E : x = y \/ <<x, y>> \in R \/ <<y, x>> \in R
  /\ \A x, y, z \in E : <<x, y>> \in R /\ <<y, z>> \in R => <<x, z>> \in R

\* An element that comes before another has fewer before it.
LEMMA FewerBefore ==
  ASSUME NEW E, IsFiniteSet(E), NEW R, StrictTotal(R, E), NEW x \in E, NEW y \in E,
         <<x, y>> \in R
  PROVE  /\ Cardinality(Before(R, E, x)) \in Nat
         /\ Cardinality(Before(R, E, y)) \in Nat
         /\ Cardinality(Before(R, E, x)) < Cardinality(Before(R, E, y))
         /\ Cardinality(Before(R, E, y)) < Cardinality(E)
  <1> DEFINE A == Before(R, E, x)
             B == Before(R, E, y)
  <1>1. A \in SUBSET B /\ x \in B /\ x \notin A
    BY DEF Before, StrictTotal
  <1>2. B \in SUBSET E /\ y \notin B
    BY DEF Before, StrictTotal
  <1> HIDE DEF A, B
  <1>3. IsFiniteSet(B) /\ Cardinality(B) <= Cardinality(E) /\ Cardinality(E) # Cardinality(B)
    BY <1>2, FS_Subset
  <1>4. IsFiniteSet(A) /\ Cardinality(A) <= Cardinality(B) /\ Cardinality(A) # Cardinality(B)
    BY <1>1, <1>3, FS_Subset
  <1>5. Cardinality(A) \in Nat /\ Cardinality(B) \in Nat /\ Cardinality(E) \in Nat
    BY <1>3, <1>4, FS_CardinalityType
  <1> QED
    BY <1>3, <1>4, <1>5 DEF A, B

\* Places with as many before them are one place.
LEMMA SameBefore ==
  ASSUME NEW E, IsFiniteSet(E), NEW R, StrictTotal(R, E), NEW x \in E, NEW y \in E,
         Cardinality(Before(R, E, x)) = Cardinality(Before(R, E, y))
  PROVE  x = y
  <1>1. CASE <<x, y>> \in R BY <1>1, FewerBefore
  <1>2. CASE <<y, x>> \in R BY <1>2, FewerBefore
  <1> QED BY <1>1, <1>2 DEF StrictTotal

\* For each number below the size there is an element with as many before it.
LEMMA AllBefore ==
  ASSUME NEW E, IsFiniteSet(E), NEW R, StrictTotal(R, E),
         NEW i \in 0 .. (Cardinality(E) - 1)
  PROVE  \E x \in E : Cardinality(Before(R, E, x)) = i
  <1> DEFINE T == 0 .. (Cardinality(E) - 1)
             h == [x \in E |-> Cardinality(Before(R, E, x))]
  <1>1. Cardinality(E) \in Nat BY FS_CardinalityType
  <1>2. IsFiniteSet(T) /\ Cardinality(T) = Cardinality(E)
    BY <1>1, FS_Interval
  <1>3. ASSUME NEW x \in E PROVE h[x] \in T
    <2> DEFINE B == Before(R, E, x)
    <2>1. B \in SUBSET E /\ x \notin B BY DEF Before, StrictTotal
    <2> HIDE DEF B
    <2>2. IsFiniteSet(B) /\ Cardinality(B) <= Cardinality(E) /\ Cardinality(E) # Cardinality(B)
      BY <2>1, FS_Subset
    <2>3. Cardinality(B) \in Nat BY <2>2, FS_CardinalityType
    <2>4. Cardinality(B) \in T BY <1>1, <2>2, <2>3
    <2> QED BY <2>4 DEF B
  <1>4. ASSUME NEW x \in E, NEW y \in E, h[x] = h[y] PROVE x = y
    BY <1>4, SameBefore
  <1> HIDE DEF T
  <1>5. h \in Injection(E, T)
    BY <1>3, <1>4 DEF Injection, IsInjective
  <1>6. h \in Surjection(E, T) BY <1>2, <1>5, FS_Injection
  <1>7. \E x \in E : h[x] = i BY <1>6 DEF Surjection, T
  <1> QED BY <1>7

\* What Sorted puts at a place has as many elements before it as places are.
LEMMA SortedPlaces ==
  ASSUME NEW E, NEW n \in Nat, NEW s \in Bijection(1 .. n, E), NEW R, StrictTotal(R, E),
         NEW order,
         \A i, j \in 1 .. n : <<i, j>> \in order <=> <<s[i], s[j]>> \in R
  PROVE  /\ IsFiniteSet(E) /\ Cardinality(E) = n
         /\ DOMAIN Sorted(s, order) = 1 .. n
         /\ \A i \in 1 .. n :
              /\ Sorted(s, order)[i] \in E
              /\ Cardinality(Before(R, E, Sorted(s, order)[i])) = i - 1
  <1>1. IsFiniteSet(1 .. n) /\ Cardinality(1 .. n) = n BY FS_Interval
  <1>2. IsFiniteSet(E) /\ Cardinality(E) = n
    BY <1>1, FS_Bijection DEF ExistsBijection
  <1>3. /\ DOMAIN s = 1 .. n /\ \A k \in 1 .. n : s[k] \in E
        /\ \A k, l \in 1 .. n : s[k] = s[l] => k = l
        /\ \A x \in E : \E k \in 1 .. n : s[k] = x
    BY DEF Bijection, Injection, Surjection, IsInjective
  <1> DEFINE Below(k) == {m \in DOMAIN s : <<m, k>> \in order}
  <1>4. ASSUME NEW k \in 1 .. n
        PROVE  Cardinality(Below(k)) = Cardinality(Before(R, E, s[k]))
    <2> DEFINE A == Below(k)
               B == Before(R, E, s[k])
               f == [m \in A |-> s[m]]
    <2>1. A \in SUBSET (1 .. n) BY <1>3
    <2>2. IsFiniteSet(A) BY <1>1, <2>1, FS_Subset
    <2>3. \A m \in 1 .. n : m \in A <=> s[m] \in B BY <1>3 DEF Before
    <2>4. \A x \in B : x \in E BY DEF Before
    <2> HIDE DEF A, B
    <2>5. f \in Bijection(A, B)
      <3>1. \A m \in A : f[m] \in B BY <2>1, <2>3
      <3>2. \A l, m \in A : f[l] = f[m] => l = m BY <1>3, <2>1
      <3>3. \A x \in B : \E m \in A : f[m] = x BY <1>3, <2>3, <2>4
      <3> QED BY <3>1, <3>2, <3>3 DEF Bijection, Injection, Surjection, IsInjective
    <2>6. Cardinality(B) = Cardinality(A)
      BY <2>2, <2>5, FS_Bijection DEF ExistsBijection
    <2> QED BY <2>6 DEF A, B
  <1>5. ASSUME NEW i \in 1 .. n
        PROVE  /\ Sorted(s, order)[i] \in E
               /\ Cardinality(Before(R, E, Sorted(s, order)[i])) = i - 1
    <2>1. i - 1 \in 0 .. (Cardinality(E) - 1) BY <1>2
    <2>2. PICK x \in E : Cardinality(Before(R, E, x)) = i - 1 BY <1>2, <2>1, AllBefore
    <2>3. PICK k \in 1 .. n : s[k] = x BY <1>3
    <2>4. k \in DOMAIN s /\ Cardinality(Below(k)) = i - 1 BY <1>3, <1>4, <2>2, <2>3
    <2> DEFINE c == CHOOSE m \in DOMAIN s : Cardinality(Below(m)) = i - 1
    <2>5. c \in DOMAIN s /\ Cardinality(Below(c)) = i - 1 BY <2>4
    <2>6. Sorted(s, order)[i] = s[c] BY <1>3 DEF Sorted
    <2> HIDE DEF c, Below
    <2> QED BY <1>3, <1>4, <2>5, <2>6
  <1> QED BY <1>2, <1>3, <1>5, SortedDomain

\* The order of the elements and nothing else decides what Sorted makes.
LEMMA SortedUnique ==
  ASSUME NEW E, NEW n \in Nat, NEW s \in Bijection(1 .. n, E),
         NEW m \in Nat, NEW t \in Bijection(1 .. m, E), NEW R, StrictTotal(R, E),
         NEW o, \A i, j \in 1 .. n : <<i, j>> \in o <=> <<s[i], s[j]>> \in R,
         NEW p, \A i, j \in 1 .. m : <<i, j>> \in p <=> <<t[i], t[j]>> \in R
  PROVE  Sorted(s, o) = Sorted(t, p)
  <1> DEFINE x == Sorted(s, o)
             y == Sorted(t, p)
  <1>1. /\ IsFiniteSet(E) /\ Cardinality(E) = n /\ DOMAIN x = 1 .. n
        /\ \A i \in 1 .. n : x[i] \in E /\ Cardinality(Before(R, E, x[i])) = i - 1
    BY SortedPlaces
  <1>2. /\ Cardinality(E) = m /\ DOMAIN y = 1 .. m
        /\ \A i \in 1 .. m : y[i] \in E /\ Cardinality(Before(R, E, y[i])) = i - 1
    BY SortedPlaces
  <1>3. x = [i \in DOMAIN x |-> x[i]] /\ y = [i \in DOMAIN y |-> y[i]] BY DEF Sorted
  <1> HIDE DEF x, y
  <1>4. \A i \in 1 .. n : x[i] = y[i] BY <1>1, <1>2, SameBefore
  <1>5. x = y BY <1>1, <1>2, <1>3, <1>4
  <1> QED BY <1>5 DEF x, y

Unrepeated(list) == \A i, k \in DOMAIN list : list[i].target = list[k].target => i = k

VendorLists == Seq([source : Staged, target : Paths, sha256 : Contents])

RuntimeLists ==
  Seq([platform : Matrix, component : Components, source : Staged, target : Paths,
       sha256 : Contents])

VendorOrder(s) ==
  {x \in (DOMAIN s) \X (DOMAIN s) :
     \/ VendorBefore(s[x[1]], s[x[2]])
     \/ ~VendorBefore(s[x[2]], s[x[1]]) /\ x[1] < x[2]}

\* What a vendor list may hold.
LEMMA VendorFiles ==
  ASSUME NEW s \in VendorLists, NEW i \in DOMAIN s
  PROVE  s[i].target \in Paths /\ s[i].source \in Staged
  <1> DEFINE Item == [source : Staged, target : Paths, sha256 : Contents]
  <1>1. s \in Seq(Item) BY DEF VendorLists
  <1> HIDE DEF Item
  <1>2. s[i] \in Item BY <1>1
  <1> QED BY <1>2 DEF Item

\* The places of a list have a strict order, whatever is in it.
LEMMA VendorOrderStrict ==
  ASSUME NEW s \in VendorLists PROVE StrictTotal(VendorOrder(s), DOMAIN s)
  <1> DEFINE n == Len(s)
             T(i) == Rank[s[i].target]
             S(i) == Rank[s[i].source]
             lt(i, k) == T(i) < T(k) \/ (T(i) = T(k) /\ S(i) < S(k))
  <1>1. n \in Nat /\ DOMAIN s = 1 .. n BY DEF VendorLists
  <1>2. \A i \in 1 .. n : s[i].target \in Paths /\ s[i].source \in Staged
    BY <1>1, VendorFiles
  <1>3. \A i \in 1 .. n : T(i) \in Nat /\ S(i) \in Nat BY <1>2, BundleAssumption
  <1>4. \A i, k \in 1 .. n : T(i) = T(k) <=> s[i].target = s[k].target
    BY <1>2, BundleAssumption
  <1>5. \A i, k \in 1 .. n : VendorBefore(s[i], s[k]) <=> lt(i, k)
    BY <1>4 DEF VendorBefore
  <1>6. \A i, k \in 1 .. n :
          <<i, k>> \in VendorOrder(s) <=> lt(i, k) \/ (~lt(k, i) /\ i < k)
    BY <1>1, <1>5 DEF VendorOrder
  <1> HIDE DEF n, T, S
  <1>7. \A i \in 1 .. n : <<i, i>> \notin VendorOrder(s) BY <1>3, <1>6
  <1>8. ASSUME NEW i \in 1 .. n, NEW k \in 1 .. n
        PROVE  i = k \/ <<i, k>> \in VendorOrder(s) \/ <<k, i>> \in VendorOrder(s)
    <2>1. i = k \/ i < k \/ k < i BY <1>1
    <2>2. lt(i, k) \/ (~lt(k, i) /\ i < k) \/ lt(k, i) \/ (~lt(i, k) /\ k < i) \/ i = k
      BY <2>1
    <2> QED BY <1>6, <2>2
  <1>9. ASSUME NEW i \in 1 .. n, NEW k \in 1 .. n, NEW m \in 1 .. n,
               <<i, k>> \in VendorOrder(s), <<k, m>> \in VendorOrder(s)
        PROVE  <<i, m>> \in VendorOrder(s)
    <2>1. lt(i, k) \/ (~lt(k, i) /\ i < k) BY <1>6, <1>9
    <2>2. lt(k, m) \/ (~lt(m, k) /\ k < m) BY <1>6, <1>9
    <2>3. lt(i, m) \/ (~lt(m, i) /\ i < m) BY <1>1, <1>3, <2>1, <2>2
    <2> QED BY <1>6, <2>3
  <1> QED BY <1>1, <1>7, <1>8, <1>9 DEF StrictTotal

\* Sorting neither brings in nor hides a second file with the same target.
LEMMA SortedUnrepeated ==
  ASSUME NEW s \in VendorLists, Unrepeated(SortedVendor(s))
  PROVE  Unrepeated(s)
  <1> DEFINE o == VendorOrder(s)
             D == DOMAIN s
             t == Sorted(s, o)
  <1>1. SortedVendor(s) = t BY DEF SortedVendor, VendorOrder
  <1>2. Len(s) \in Nat /\ D = 1 .. Len(s) BY DEF VendorLists
  <1>3. IsFiniteSet(D) /\ Cardinality(D) = Len(s)
    <2> DEFINE n == Len(s)
    <2>1. n \in Nat /\ D = 1 .. n BY <1>2
    <2> HIDE DEF n, D
    <2>2. IsFiniteSet(1 .. n) /\ Cardinality(1 .. n) = n BY <2>1, FS_Interval
    <2> QED BY <2>1, <2>2 DEF n
  <1>4. StrictTotal(o, D) BY VendorOrderStrict
  <1>5. DOMAIN t = D BY SortedDomain
  <1> HIDE DEF o
  <1>6. ASSUME NEW a \in D
        PROVE  \E i \in D : i = Cardinality(Before(o, D, a)) + 1 /\ t[i] = s[a]
    <2> DEFINE i == Cardinality(Before(o, D, a)) + 1
               c == CHOOSE k \in D : Cardinality({m \in D : <<m, k>> \in o}) = i - 1
    <2>1. Cardinality(Before(o, D, a)) \in Nat /\ Cardinality(Before(o, D, a)) < Len(s)
      <3> DEFINE B == Before(o, D, a)
      <3>1. B \in SUBSET D /\ a \notin B BY <1>4 DEF Before, StrictTotal
      <3> HIDE DEF B
      <3>2. IsFiniteSet(B) /\ Cardinality(B) <= Cardinality(D) /\ Cardinality(B) # Cardinality(D)
        BY <1>3, <3>1, FS_Subset
      <3>3. Cardinality(B) \in Nat BY <3>2, FS_CardinalityType
      <3> QED BY <1>2, <1>3, <3>2, <3>3 DEF B
    <2>2. i \in D /\ i - 1 = Cardinality(Before(o, D, a)) BY <1>2, <2>1
    <2>3. t[i] = s[c] BY <2>2 DEF Sorted
    <2>4. \A k \in D : {m \in D : <<m, k>> \in o} = Before(o, D, k) BY DEF Before
    <2> HIDE DEF i
    <2>5. Cardinality({m \in D : <<m, a>> \in o}) = i - 1 BY <2>2, <2>4
    <2>6. c \in D /\ Cardinality({m \in D : <<m, c>> \in o}) = i - 1
      <3> HIDE DEF D
      <3>1. \E k \in D : Cardinality({m \in D : <<m, k>> \in o}) = i - 1 BY <2>5
      <3> QED BY <3>1
    <2> HIDE DEF c
    <2>7. c = a
      <3> HIDE DEF D
      <3>1. Cardinality(Before(o, D, c)) = Cardinality(Before(o, D, a)) BY <2>2, <2>4, <2>6
      <3> QED BY <1>3, <1>4, <2>6, <3>1, SameBefore
    <2> QED BY <2>2, <2>3, <2>7 DEF i
  <1> HIDE DEF t
  <1>7. ASSUME NEW a \in D, NEW b \in D, s[a].target = s[b].target PROVE a = b
    <2>1. PICK i \in D : i = Cardinality(Before(o, D, a)) + 1 /\ t[i] = s[a] BY <1>6
    <2>2. PICK k \in D : k = Cardinality(Before(o, D, b)) + 1 /\ t[k] = s[b] BY <1>6
    <2>3. Unrepeated(t) BY <1>1
    <2>4. i = k BY <1>5, <1>7, <2>1, <2>2, <2>3 DEF Unrepeated
    <2>5. Cardinality(Before(o, D, a)) \in Nat /\ Cardinality(Before(o, D, b)) \in Nat
      <3>1. \A x \in D : Before(o, D, x) \in SUBSET D BY DEF Before
      <3>2. \A x \in D : IsFiniteSet(Before(o, D, x)) BY <1>3, <3>1, FS_Subset
      <3> QED BY <3>2, FS_CardinalityType
    <2>6. Cardinality(Before(o, D, a)) = Cardinality(Before(o, D, b)) BY <2>1, <2>2, <2>4, <2>5
    <2> QED BY <1>3, <1>4, <2>6, SameBefore
  <1> QED BY <1>7 DEF Unrepeated

LEMMA ListBijection ==
  ASSUME NEW S, NEW s \in Seq(S), \A i, k \in DOMAIN s : s[i] = s[k] => i = k
  PROVE  Len(s) \in Nat /\ DOMAIN s = 1 .. Len(s) /\ s \in Bijection(1 .. Len(s), Elements(s))
  BY DEF Bijection, Injection, Surjection, IsInjective, Elements

\* Vendor files with different targets are sorted one way only.
LEMMA VendorSame ==
  ASSUME NEW s \in VendorLists, NEW t \in VendorLists,
         Unrepeated(s), Unrepeated(t), Elements(s) = Elements(t)
  PROVE  SortedVendor(s) = SortedVendor(t)
  <1> DEFINE E == Elements(s)
             R == {x \in E \X E : VendorBefore(x[1], x[2])}
  <1>1. Len(s) \in Nat /\ DOMAIN s = 1 .. Len(s) /\ s \in Bijection(1 .. Len(s), E)
    BY ListBijection DEF VendorLists, Unrepeated
  <1>2. Len(t) \in Nat /\ DOMAIN t = 1 .. Len(t) /\ t \in Bijection(1 .. Len(t), E)
    BY ListBijection DEF VendorLists, Unrepeated
  <1>3. \A x \in E : x.target \in Paths /\ x.source \in Staged BY VendorFiles DEF Elements
  <1>4. \A x, y \in E : x.target = y.target => x = y BY DEF Elements, Unrepeated
  <1>5. \A x, y \in E : /\ Rank[x.target] \in Nat /\ Rank[x.source] \in Nat
                        /\ Rank[x.target] = Rank[y.target] => x = y
    BY <1>3, <1>4, BundleAssumption
  <1> HIDE DEF E
  <1>6. \A x, y \in E : <<x, y>> \in R <=> VendorBefore(x, y) OBVIOUS
  <1>7. \A x, y \in E : VendorBefore(x, y) <=> Rank[x.target] < Rank[y.target]
    BY <1>5 DEF VendorBefore
  <1>8. StrictTotal(R, E)
    <2> HIDE DEF R
    <2> QED BY <1>5, <1>6, <1>7 DEF StrictTotal
  <1>9. ASSUME NEW u \in VendorLists, Unrepeated(u), Elements(u) = E
        PROVE  \A i, k \in 1 .. Len(u) : <<i, k>> \in VendorOrder(u) <=> <<u[i], u[k]>> \in R
    <2>1. DOMAIN u = 1 .. Len(u) /\ Len(u) \in Nat BY DEF VendorLists
    <2>2. \A i \in 1 .. Len(u) : u[i] \in E BY <1>9, <2>1 DEF Elements
    <2>3. \A i, k \in 1 .. Len(u) : i = k \/ u[i] # u[k] BY <1>9, <2>1 DEF Unrepeated
    <2>4. \A i, k \in 1 .. Len(u) :
            <<i, k>> \in VendorOrder(u) <=>
              VendorBefore(u[i], u[k]) \/ (~VendorBefore(u[k], u[i]) /\ i < k)
      BY <2>1 DEF VendorOrder
    <2>5. \A i, k \in 1 .. Len(u) : <<i, k>> \in VendorOrder(u) <=> VendorBefore(u[i], u[k])
      <3> SUFFICES ASSUME NEW i \in 1 .. Len(u), NEW k \in 1 .. Len(u)
                   PROVE  <<i, k>> \in VendorOrder(u) <=> VendorBefore(u[i], u[k])
        OBVIOUS
      <3>1. CASE i = k BY <2>1, <2>4, <3>1
      <3>2. CASE i # k
        <4>1. VendorBefore(u[i], u[k]) \/ VendorBefore(u[k], u[i])
          BY <1>5, <1>7, <2>2, <2>3, <3>2
        <4> QED BY <2>4, <4>1
      <3> QED BY <3>1, <3>2
    <2> HIDE DEF R
    <2> QED BY <1>6, <2>2, <2>5
  <1>10. \A i, k \in 1 .. Len(s) : <<i, k>> \in VendorOrder(s) <=> <<s[i], s[k]>> \in R
    BY <1>9 DEF E
  <1>11. \A i, k \in 1 .. Len(t) : <<i, k>> \in VendorOrder(t) <=> <<t[i], t[k]>> \in R
    <2>1. Elements(t) = E BY DEF E
    <2> QED BY <1>9, <2>1
  <1> HIDE DEF R
  <1>12. Sorted(s, VendorOrder(s)) = Sorted(t, VendorOrder(t))
    <2> DEFINE o == VendorOrder(s)
               p == VendorOrder(t)
               n == Len(s)
               m == Len(t)
    <2>1. \A i, k \in 1 .. n : <<i, k>> \in o <=> <<s[i], s[k]>> \in R BY <1>10
    <2>2. \A i, k \in 1 .. m : <<i, k>> \in p <=> <<t[i], t[k]>> \in R BY <1>11
    <2>3. n \in Nat /\ s \in Bijection(1 .. n, E) BY <1>1
    <2>4. m \in Nat /\ t \in Bijection(1 .. m, E) BY <1>2
    <2> HIDE DEF o, p, n, m
    <2>5. Sorted(s, o) = Sorted(t, p) BY <1>8, <2>1, <2>2, <2>3, <2>4, SortedUnique
    <2> QED BY <2>5 DEF o, p
  <1> QED BY <1>12 DEF SortedVendor, VendorOrder

RuntimeBefore(x, y) ==
  \/ Rank[x.platform] < Rank[y.platform]
  \/ x.platform = y.platform /\ x.component = "gateway" /\ y.component = "backend"

RuntimeOrder(s) ==
  {x \in (DOMAIN s) \X (DOMAIN s) :
     \/ Rank[s[x[1]].platform] < Rank[s[x[2]].platform]
     \/ /\ s[x[1]].platform = s[x[2]].platform
        /\ s[x[1]].component = "gateway" /\ s[x[2]].component = "backend"}

LEMMA RuntimeFiles ==
  ASSUME NEW s \in RuntimeLists, NEW i \in DOMAIN s
  PROVE  s[i].platform \in Matrix /\ s[i].component \in Components
  <1> DEFINE Item == [platform : Matrix, component : Components, source : Staged,
                       target : Paths, sha256 : Contents]
  <1>1. s \in Seq(Item) BY DEF RuntimeLists
  <1> HIDE DEF Item
  <1>2. s[i] \in Item BY <1>1
  <1> QED BY <1>2 DEF Item

\* An accepted list has each platform's gateway and backend once.
LEMMA RuntimesOnce ==
  ASSUME NEW r, r.runtimes \in RuntimeLists, AcceptedRuntimes(r),
         NEW i \in DOMAIN r.runtimes, NEW k \in DOMAIN r.runtimes,
         r.runtimes[i].platform = r.runtimes[k].platform,
         r.runtimes[i].component = r.runtimes[k].component
  PROVE  i = k
  <1> DEFINE s == r.runtimes
             n == Len(s)
             P == Matrix \X Components
             f == [m \in 1 .. n |-> <<s[m].platform, s[m].component>>]
  <1>1. n \in Nat /\ DOMAIN s = 1 .. n BY DEF RuntimeLists
  <1>2. s # <<>> BY <1>1
  <1>3. {<<e.platform, e.component>> : e \in Elements(s)} = P /\ n = Cardinality(P)
    BY <1>2 DEF AcceptedRuntimes
  <1>4. IsFiniteSet(1 .. n) /\ Cardinality(1 .. n) = n BY <1>1, FS_Interval
  <1>5. \A x : x \in P <=> \E m \in 1 .. n : x = <<s[m].platform, s[m].component>>
    <2>1. \A x : x \in P <=> \E e \in Elements(s) : x = <<e.platform, e.component>> BY <1>3
    <2> HIDE DEF P, s, n
    <2> QED BY <1>1, <2>1 DEF Elements
  <1> HIDE DEF P
  <1>6. f \in Surjection(1 .. n, P)
    <2> HIDE DEF n, s
    <2>1. \A m \in 1 .. n : f[m] \in P BY <1>5
    <2>2. \A x \in P : \E m \in 1 .. n : f[m] = x BY <1>5
    <2> QED BY <2>1, <2>2 DEF Surjection
  <1>7. f \in Injection(1 .. n, P)
    <2> HIDE DEF n, s, f
    <2> QED BY <1>3, <1>4, <1>6, FS_SurjSameCardinalityImpliesInj
  <1>8. f[i] = f[k] BY <1>1
  <1> QED BY <1>1, <1>7, <1>8 DEF Injection, IsInjective

\* Accepted runtime files are sorted one way only.
LEMMA RuntimesSame ==
  ASSUME NEW q, NEW r, q.runtimes \in RuntimeLists,
         r.runtimes \in RuntimeLists, AcceptedRuntimes(q), AcceptedRuntimes(r),
         Elements(q.runtimes) = Elements(r.runtimes)
  PROVE  SortedRuntimes(q.runtimes) = SortedRuntimes(r.runtimes)
  <1> DEFINE s == q.runtimes
             t == r.runtimes
             E == Elements(s)
             R == {x \in E \X E : RuntimeBefore(x[1], x[2])}
             once(u) == \A i, k \in DOMAIN u :
                          u[i].platform = u[k].platform /\ u[i].component = u[k].component => i = k
  <1>1. once(s) /\ once(t) BY RuntimesOnce
  <1>2. s \in RuntimeLists /\ t \in RuntimeLists /\ Elements(t) = E OBVIOUS
  <1>3. \A x \in E : x.platform \in Matrix /\ x.component \in Components
    BY RuntimeFiles DEF Elements
  <1>4. \A x, y \in E : x.platform = y.platform /\ x.component = y.component => x = y
    BY <1>1 DEF Elements
  <1>5. \A x, y \in E : /\ Rank[x.platform] \in Nat
                        /\ Rank[x.platform] = Rank[y.platform] => x.platform = y.platform
    BY <1>3, BundleAssumption
  <1> HIDE DEF s, t
  <1>6. Len(s) \in Nat /\ s \in Bijection(1 .. Len(s), E)
    BY <1>1, <1>2, ListBijection DEF RuntimeLists
  <1>7. Len(t) \in Nat /\ t \in Bijection(1 .. Len(t), E)
    BY <1>1, <1>2, ListBijection DEF RuntimeLists
  <1> HIDE DEF E
  <1>8. \A x, y \in E : <<x, y>> \in R <=> RuntimeBefore(x, y) OBVIOUS
  <1> HIDE DEF R
  <1>9. StrictTotal(R, E)
    <2>1. \A x \in E : ~RuntimeBefore(x, x) BY <1>5 DEF RuntimeBefore
    <2>2. \A x, y \in E : x = y \/ RuntimeBefore(x, y) \/ RuntimeBefore(y, x)
      BY <1>3, <1>4, <1>5 DEF RuntimeBefore, Components
    <2>3. \A x, y, z \in E : RuntimeBefore(x, y) /\ RuntimeBefore(y, z) => RuntimeBefore(x, z)
      BY <1>5 DEF RuntimeBefore
    <2> QED BY <1>8, <2>1, <2>2, <2>3 DEF StrictTotal
  <1>10. ASSUME NEW u \in RuntimeLists, Elements(u) = E
         PROVE  \A i, k \in 1 .. Len(u) : <<i, k>> \in RuntimeOrder(u) <=> <<u[i], u[k]>> \in R
    <2>1. DOMAIN u = 1 .. Len(u) BY DEF RuntimeLists
    <2>2. \A i \in 1 .. Len(u) : u[i] \in E BY <1>10, <2>1 DEF Elements
    <2>3. \A i, k \in 1 .. Len(u) : <<i, k>> \in RuntimeOrder(u) <=> RuntimeBefore(u[i], u[k])
      BY <2>1 DEF RuntimeOrder, RuntimeBefore
    <2> QED BY <1>8, <2>2, <2>3
  <1>11. Sorted(s, RuntimeOrder(s)) = Sorted(t, RuntimeOrder(t))
    <2> DEFINE o == RuntimeOrder(s)
               p == RuntimeOrder(t)
               n == Len(s)
               m == Len(t)
    <2>1. \A i, k \in 1 .. n : <<i, k>> \in o <=> <<s[i], s[k]>> \in R BY <1>2, <1>10 DEF E
    <2>2. \A i, k \in 1 .. m : <<i, k>> \in p <=> <<t[i], t[k]>> \in R BY <1>2, <1>10
    <2>3. n \in Nat /\ s \in Bijection(1 .. n, E) BY <1>6
    <2>4. m \in Nat /\ t \in Bijection(1 .. m, E) BY <1>7
    <2> HIDE DEF o, p, n, m
    <2>5. Sorted(s, o) = Sorted(t, p) BY <1>9, <2>1, <2>2, <2>3, <2>4, SortedUnique
    <2> QED BY <2>5 DEF o, p
  <1> QED BY <1>11 DEF SortedRuntimes, RuntimeOrder, s, t

\* Profiles that name the same things are used and bundled as one profile.
LEMMA ProfileSame ==
  ASSUME NEW i \in Invocations, NEW k \in Invocations,
         Accepted(i.raw), Accepted(k.raw), i.raw.kind = k.raw.kind,
         Elements(i.raw.fixtures) = Elements(k.raw.fixtures),
         Elements(i.raw.vendor) = Elements(k.raw.vendor),
         Elements(i.raw.runtimes) = Elements(k.raw.runtimes),
         Unrepeated(Profile(i.raw).vendor), Unrepeated(Profile(k.raw).vendor)
  PROVE  Profile(i.raw) = Profile(k.raw)
  <1>1. i.raw.vendor \in VendorLists /\ k.raw.vendor \in VendorLists
    BY BundleAssumption DEF VendorLists
  <1>2. i.raw.runtimes \in RuntimeLists /\ k.raw.runtimes \in RuntimeLists
    BY BundleAssumption DEF RuntimeLists, Components
  <1>3. SortedRuntimes(i.raw.runtimes) = SortedRuntimes(k.raw.runtimes)
    BY <1>2, RuntimesSame DEF Accepted
  <1>4. Profile(i.raw).vendor = SortedVendor(i.raw.vendor)
        /\ Profile(k.raw).vendor = SortedVendor(k.raw.vendor)
    BY DEF Profile
  <1>5. SortedVendor(i.raw.vendor) = SortedVendor(k.raw.vendor)
    <2> DEFINE v == i.raw.vendor
               w == k.raw.vendor
    <2>1. Unrepeated(SortedVendor(v)) /\ Unrepeated(SortedVendor(w)) BY <1>4
    <2>2. v \in VendorLists /\ w \in VendorLists /\ Elements(v) = Elements(w) BY <1>1
    <2> HIDE DEF v, w
    <2>3. Unrepeated(v) /\ Unrepeated(w) BY <2>1, <2>2, SortedUnrepeated
    <2>4. SortedVendor(v) = SortedVendor(w) BY <2>2, <2>3, VendorSame
    <2> QED BY <2>4 DEF v, w
  <1> QED BY <1>3, <1>5 DEF Profile

-----------------------------------------------------------------------------
(* What a build has taken from the repository, stage by stage.             *)

Quiet == {"idle", "failed", "crashed"}
Staging == {"vendor", "runtime"}

Pairs(t, S) == {<<TargetOf[s], t[s]>> : s \in S}

\* The listing of the n-th mapped directory of a repository t, and what the walk of
\* the directories before it takes.
Listing(t, n) == {s \in Sources \ Excluded : DirectoryOf[s] = Mappings[n] /\ t[s] # Absent}
Textuals(t, S) == {s \in S : t[s] \notin Binary}
Walked(t, n) ==
  {s \in Sources : \E i \in DOMAIN Mappings : i < n /\ s \in Textuals(t, Listing(t, i))}
Finished == Len(Mappings) + 1
Singles == {s \in Sources : DirectoryOf[s] = None}

\* The repository as a build with arguments j can see it.
View(j) ==
  [s \in Sources |-> IF Above[s] \cap j.unlisted = {} THEN j.tree[s] ELSE Absent]

\* What is held of a repository t that stays as it is.
Gathered(p, t, a, d, e) ==
  /\ p \in {"open", "walk"} => a \in DOMAIN Mappings
  /\ p = "required" => a = Finished
  /\ p \in {"open", "required"} => FromHeld(e, "repository") = Pairs(t, Walked(t, a))
  /\ p = "walk" =>
       /\ d \subseteq Listing(t, a)
       /\ FromHeld(e, "repository") =
            Pairs(t, Walked(t, a) \cup Textuals(t, Listing(t, a) \ d))
  /\ p = "mapped" =>
       FromHeld(e, "repository") = Pairs(t, Walked(t, Finished) \cup (Singles \ d))
  /\ p \in Staging \cup Late =>
       FromHeld(e, "repository") = Pairs(t, Walked(t, Finished) \cup Singles)
  /\ p \in {"mapped"} \cup Staging \cup Late => \A s \in Required : t[s] # Absent

\* What is held of any repository.
Mapped(p, d, e) ==
  /\ p = "mapped" =>
       d \subseteq Singles /\ \A s \in Singles \ d : TargetOf[s] \in DOMAIN e
  /\ p \in Staging \cup Late => \A s \in Singles : TargetOf[s] \in DOMAIN e

\* The targets of the list before place n are different.
Distinct(list, n) ==
  \A i, k \in DOMAIN list : i < n /\ k < n /\ list[i].target = list[k].target => i = k

RuntimeManifested(profile) ==
  IF profile.runtimes = <<>> THEN {}
  ELSE {<<"runtime/manifest.json", RuntimeManifest(profile)>>}

\* What is generated before the archive, and that no two vendor files so far have the
\* same target.
Drawn(p, j, a, e) ==
  /\ p \in Early \cup Staging => FromHeld(e, "generated") = {}
  /\ p \in Late => FromHeld(e, "generated") = RuntimeManifested(j.profile)
  /\ p = "vendor" => Distinct(j.profile.vendor, a)
  /\ p \in {"runtime"} \cup Late => Unrepeated(j.profile.vendor)

\* Every entry is a datum with the source it came from.
Formed(e) == e = [q \in DOMAIN e |-> Entry(e[q].data, e[q].source)]

\* Of a build in stage p, at place a of its list, with d still to read, whatever was edited.
Collects(p, j, a, d, e) == Formed(e) /\ Drawn(p, j, a, e) /\ Mapped(p, d, e)

\* Of a build that no edit came into, in a repository r.
Reads(p, j, a, d, e, r) ==
  /\ p \in Early => r = j.tree
  /\ Gathered(p, View(j), a, d, e)

\* What a build has taken from the repository, and what it drew from its profile.
Collected(b) ==
  /\ pc[b] = "idle" => at[b] = 1
  /\ pc[b] \notin Quiet => Collects(pc[b], job[b], at[b], todo[b], entries[b])
  /\ pc[b] \notin Quiet /\ b \notin disturbed =>
       Reads(pc[b], job[b], at[b], todo[b], entries[b], tree)

-----------------------------------------------------------------------------
\* One more entry adds its path to those from its source and to no others.
LEMMA AddedHeld ==
  ASSUME Types, NEW b \in Builders, Apart(entries[b]), Formed(entries[b]),
         NEW p, NEW data, NEW source, Added(b, p, data, source)
  PROVE  /\ p \notin DOMAIN entries[b]
         /\ DOMAIN entries'[b] = DOMAIN entries[b] \cup {p}
         /\ FromHeld(entries'[b], source) = FromHeld(entries[b], source) \cup {<<p, data>>}
         /\ \A s : s # source => FromHeld(entries'[b], s) = FromHeld(entries[b], s)
         /\ Formed(entries'[b])
  <1> DEFINE e == entries[b]
             w == With(e, p, Entry(data, source))
  <1>1. entries'[b] = w BY DEF Types, Added
  <1>2. \A q \in DOMAIN e \cup Generated : Key[q] # Key[p] BY DEF Added, Provided
  <1>3. p \in Portable BY DEF Added
  <1> HIDE DEF e
  <1>4. Apart(e) /\ Formed(e) BY DEF e
  <1>5. p \notin DOMAIN e BY <1>2, <1>3, <1>4, ApartWith
  <1>6. \A s : FromHeld(w, s) = FromHeld(e, s) \cup (IF s = source THEN {<<p, data>>} ELSE {})
    BY <1>5, FromWith
  <1>7. FromHeld(w, source) = FromHeld(e, source) \cup {<<p, data>>}
    <2>1. FromHeld(w, source) =
            FromHeld(e, source) \cup (IF source = source THEN {<<p, data>>} ELSE {})
      BY <1>6
    <2> QED BY <2>1
  <1>8. ASSUME NEW s, s # source PROVE FromHeld(w, s) = FromHeld(e, s)
    <2>1. FromHeld(w, s) = FromHeld(e, s) \cup (IF s = source THEN {<<p, data>>} ELSE {})
      BY <1>6
    <2>2. FromHeld(w, s) = FromHeld(e, s) \cup {} BY <1>8, <2>1
    <2> QED BY <2>2
  <1>9. DOMAIN w = DOMAIN e \cup {p} BY DEF With
  <1>10. Formed(w)
    <2>1. w[p] = Entry(data, source) BY DEF With
    <2>2. \A q \in DOMAIN e : w[q] = e[q] BY <1>5 DEF With
    <2>3. w[p] = Entry(w[p].data, w[p].source) BY <2>1 DEF Entry
    <2>4. \A q \in DOMAIN e : e[q] = Entry(e[q].data, e[q].source)
      <3> DEFINE f == [q \in DOMAIN e |-> Entry(e[q].data, e[q].source)]
      <3>1. e = f BY <1>4 DEF Formed
      <3>2. \A q \in DOMAIN e : f[q] = Entry(e[q].data, e[q].source) OBVIOUS
      <3> HIDE DEF f
      <3> QED BY <3>1, <3>2
    <2>5. \A q \in DOMAIN w : w[q] = Entry(w[q].data, w[q].source)
      <3> HIDE DEF w
      <3> QED BY <1>9, <2>2, <2>3, <2>4
    <2>6. w = [q \in DOMAIN w |-> w[q]] BY DEF With
    <2>7. w = [q \in DOMAIN w |-> Entry(w[q].data, w[q].source)]
      <3> HIDE DEF w
      <3> QED BY <2>5, <2>6
    <2> QED BY <2>7 DEF Formed
  <1> QED BY <1>1, <1>5, <1>7, <1>8, <1>9, <1>10 DEF e

LEMMA StagedAdded ==
  ASSUME Types, NEW b \in Builders, Apart(entries[b]), Formed(entries[b]),
         NEW p, NEW data, NEW source \in Staging, Added(b, p, data, source)
  PROVE  /\ p \notin DOMAIN entries[b]
         /\ DOMAIN entries'[b] = DOMAIN entries[b] \cup {p}
         /\ Formed(entries'[b])
         /\ FromHeld(entries'[b], "repository") = FromHeld(entries[b], "repository")
         /\ FromHeld(entries'[b], "generated") = FromHeld(entries[b], "generated")
  <1>1. "repository" # source /\ "generated" # source BY DEF Staging
  <1> QED BY <1>1, AddedHeld

LEMMA PairsAdd ==
  ASSUME NEW t, NEW S, NEW s
  PROVE  Pairs(t, S \cup {s}) = Pairs(t, S) \cup {<<TargetOf[s], t[s]>>}
  BY DEF Pairs

LEMMA BuildLeaves ==
  ASSUME NEW b \in Builders, Build(b) PROVE UNCHANGED <<tree, staged, edits, disturbed>>
  BY DEF Build, Start, OpenDirectory, CloseDirectory, CheckRequired, ReadListed,
         ReadMapped, OpenVendor, ReadVendor, OpenRuntime, ReadRuntime, Opens,
         AddRuntimeManifest, AddEntry, CreateTemporary, WriteArchive, Replace, ReadBack, Fail,
         Crash, Fails, Ends, shared

-----------------------------------------------------------------------------
(* The steps of a build.                                                   *)

LEMMA EndsCollected ==
  ASSUME Types, NEW b \in Builders, NEW how \in {"failed", "crashed"}, Ends(b, how)
  PROVE  Collected(b)'
  BY DEF Types, Ends, Goes, Collected, Quiet

LEMMA StartCollected ==
  ASSUME Types, NEW b \in Builders, Holds(b), Collected(b), Start(b)
  PROVE  Collected(b)'
  <1>1. CASE Fails(b) BY <1>1, EndsCollected DEF Fails
  <1>2. CASE ~Fails(b)
    <2>1. PICK j : /\ job' = [job EXCEPT ![b] = j] /\ j.tree = tree
                   /\ Goes(b, "open") /\ UNCHANGED <<shared, entries, todo, at>>
                   /\ pc[b] = "idle"
      <3>1. PICK i \in Invocations :
              /\ job' = [job EXCEPT ![b] =
                   [version |-> i.version, raw |-> i.raw, profile |-> Profile(i.raw),
                    vendorDir |-> i.vendorDir, tree |-> tree, unlisted |-> i.unlisted]]
              /\ Goes(b, "open") /\ UNCHANGED <<shared, entries, todo, at>>
              /\ pc[b] = "idle"
        BY <1>2 DEF Start
      <3> DEFINE j == [version |-> i.version, raw |-> i.raw, profile |-> Profile(i.raw),
                       vendorDir |-> i.vendorDir, tree |-> tree, unlisted |-> i.unlisted]
      <3>2. j.tree = tree OBVIOUS
      <3>3. job' = [job EXCEPT ![b] = j] BY <3>1
      <3> HIDE DEF j
      <3> QED BY <3>1, <3>2, <3>3
    <2>2. pc'[b] = "open" /\ job'[b].tree = tree /\ at'[b] = 1 /\ tree' = tree
      BY <2>1 DEF Types, Goes, Collected, shared
    <2>3. entries'[b] = <<>> BY <2>1 DEF Holds, Held
    <2>4. \A s : FromHeld(<<>>, s) = {} BY DEF FromHeld
    <2>5. Formed(<<>>)
      <3>1. [q \in {} |-> Entry(<<>>[q].data, <<>>[q].source)] = <<>> OBVIOUS
      <3> QED BY <3>1 DEF Formed
    <2>6. Collects("open", job'[b], 1, todo'[b], <<>>)
      BY <2>4, <2>5 DEF Collects, Drawn, Mapped, Early, Staging, Late
    <2>7. Gathered("open", View(job'[b]), 1, todo'[b], <<>>)
      <3> DEFINE t == View(job'[b])
      <3> HIDE DEF t
      <3>1. 1 \in DOMAIN Mappings BY BundleAssumption
      <3>2. Walked(t, 1) = {} BY BundleAssumption DEF Walked
      <3>3. Pairs(t, Walked(t, 1)) = {} BY <3>2 DEF Pairs
      <3>4. Gathered("open", t, 1, todo'[b], <<>>)
        BY <2>4, <3>1, <3>3 DEF Gathered, Staging, Late
      <3> QED BY <3>4 DEF t
    <2>8. Reads("open", job'[b], 1, todo'[b], <<>>, tree) BY <2>2, <2>7 DEF Reads
    <2> QED BY <2>2, <2>3, <2>6, <2>8 DEF Collected, Quiet
  <1> QED BY <1>1, <1>2

\* What a build sees of a mapped directory is what its listing has.
LEMMA ViewListing ==
  ASSUME NEW j, NEW n
  PROVE  Listing(View(j), n) =
           {s \in Sources \ Excluded :
              /\ DirectoryOf[s] = Mappings[n]
              /\ j.tree[s] # Absent
              /\ Above[s] \cap j.unlisted = {}}
  BY DEF Listing, View

\* A file that a build sees is as it is; one that is mapped by itself or required is seen
\* whatever cannot be listed.
LEMMA ViewSame ==
  ASSUME NEW j, NEW s \in Sources,
         View(j)[s] # Absent \/ s \in Required \/ DirectoryOf[s] = None
  PROVE  View(j)[s] = j.tree[s]
  BY BundleAssumption DEF View

LEMMA OpenCollected ==
  ASSUME Types, NEW b \in Builders, Collected(b), OpenDirectory(b)
  PROVE  Collected(b)'
  <1> DEFINE j == job[b]
             t == View(job[b])
             a == at[b]
             e == entries[b]
  <1>1. /\ pc[b] = "open" /\ pc'[b] = "walk" /\ job'[b] = j /\ at'[b] = a /\ entries'[b] = e
        /\ tree' = tree /\ disturbed' = disturbed
        /\ todo'[b] = {s \in Sources \ Excluded :
                         /\ DirectoryOf[s] = Mappings[a]
                         /\ tree[s] # Absent
                         /\ Above[s] \cap j.unlisted = {}}
    BY DEF OpenDirectory, Types, Goes, shared
  <1>2. Collects("walk", j, a, todo'[b], e)
    BY <1>1 DEF Collected, Quiet, Collects, Drawn, Mapped, Early, Staging, Late
  <1>3. ASSUME b \notin disturbed PROVE Reads("walk", j, a, todo'[b], e, tree)
    <2>1. /\ tree = j.tree /\ a \in DOMAIN Mappings
          /\ FromHeld(e, "repository") = Pairs(t, Walked(t, a))
      BY <1>1, <1>3 DEF Collected, Quiet, Reads, Gathered, Early
    <2>2. todo'[b] = Listing(t, a) BY <1>1, <2>1, ViewListing
    <2>3. Gathered("walk", t, a, todo'[b], e)
      <3> HIDE DEF t
      <3>1. Walked(t, a) \cup Textuals(t, Listing(t, a) \ Listing(t, a)) = Walked(t, a)
        BY DEF Textuals
      <3> QED BY <2>1, <2>2, <3>1 DEF Gathered, Staging, Late
    <2> QED BY <2>1, <2>3 DEF Reads
  <1> QED BY <1>1, <1>2, <1>3 DEF Collected, Quiet

LEMMA WalkedNext ==
  ASSUME NEW t, NEW a \in DOMAIN Mappings
  PROVE  Walked(t, a + 1) = Walked(t, a) \cup Textuals(t, Listing(t, a))
  <1>1. \A i \in DOMAIN Mappings : i < a + 1 <=> i < a \/ i = a BY BundleAssumption
  <1>2. \A s \in Textuals(t, Listing(t, a)) : s \in Sources BY DEF Textuals, Listing
  <1> QED BY <1>1, <1>2 DEF Walked

LEMMA CloseCollected ==
  ASSUME Types, NEW b \in Builders, Collected(b), CloseDirectory(b)
  PROVE  Collected(b)'
  <1>1. CASE Fails(b) BY <1>1, EndsCollected DEF Fails
  <1>2. CASE ~Fails(b)
    <2> DEFINE j == job[b]
               t == View(job[b])
               a == at[b]
               e == entries[b]
               to == IF a < Len(Mappings) THEN "open" ELSE "required"
    <2>1. /\ pc[b] = "walk" /\ pc'[b] = to /\ job'[b] = j /\ at'[b] = a + 1 /\ entries'[b] = e
          /\ tree' = tree /\ disturbed' = disturbed /\ todo[b] = {} /\ todo'[b] = {}
      BY <1>2 DEF CloseDirectory, Types, Goes, shared
    <2> HIDE DEF to
    <2>2. to \in {"open", "required"} BY DEF to
    <2>3. Collects(to, j, a + 1, {}, e)
      BY <2>1, <2>2 DEF Collected, Quiet, Collects, Drawn, Mapped, Early, Staging, Late
    <2>4. ASSUME b \notin disturbed PROVE Reads(to, j, a + 1, {}, e, tree)
      <3>1. /\ tree = j.tree /\ a \in DOMAIN Mappings
            /\ FromHeld(e, "repository") =
                 Pairs(t, Walked(t, a) \cup Textuals(t, Listing(t, a) \ {}))
        BY <2>1, <2>4 DEF Collected, Quiet, Reads, Gathered, Early
      <3>2. FromHeld(e, "repository") = Pairs(t, Walked(t, a + 1))
        <4>1. Listing(t, a) \ {} = Listing(t, a) OBVIOUS
        <4>2. Walked(t, a + 1) = Walked(t, a) \cup Textuals(t, Listing(t, a))
          BY <3>1, WalkedNext
        <4> QED BY <3>1, <4>1, <4>2
      <3>3. to = "open" => a + 1 \in DOMAIN Mappings BY <3>1, BundleAssumption DEF to
      <3>4. to = "required" => a + 1 = Finished BY <3>1, BundleAssumption DEF to, Finished
      <3>5. Gathered(to, t, a + 1, {}, e)
        <4> DEFINE n == a + 1
        <4> HIDE DEF n, e, t
        <4> SUFFICES Gathered(to, t, n, {}, e) BY DEF n
        <4> QED BY <2>2, <3>2, <3>3, <3>4 DEF Gathered, Staging, Late, n
      <3> QED BY <3>1, <3>5 DEF Reads
    <2> QED BY <2>1, <2>2, <2>3, <2>4 DEF Collected, Quiet
  <1> QED BY <1>1, <1>2

LEMMA RequiredCollected ==
  ASSUME Types, NEW b \in Builders, Collected(b), CheckRequired(b)
  PROVE  Collected(b)'
  <1>1. CASE Fails(b) BY <1>1, EndsCollected DEF Fails
  <1>2. CASE ~Fails(b)
    <2> DEFINE j == job[b]
               t == View(job[b])
               a == at[b]
               e == entries[b]
    <2>1. /\ pc[b] = "required" /\ pc'[b] = "mapped" /\ job'[b] = j /\ at'[b] = a
          /\ entries'[b] = e /\ tree' = tree /\ disturbed' = disturbed /\ RequiredThere
          /\ todo'[b] = Singles
      BY <1>2 DEF CheckRequired, Types, Goes, shared, Singles
    <2>2. Collects("mapped", j, a, Singles, e)
      BY <2>1 DEF Collected, Quiet, Collects, Drawn, Mapped, Early, Staging, Late
    <2>3. ASSUME b \notin disturbed PROVE Reads("mapped", j, a, Singles, e, tree)
      <3>1. /\ tree = j.tree /\ a = Finished
            /\ FromHeld(e, "repository") = Pairs(t, Walked(t, a))
        BY <2>1, <2>3 DEF Collected, Quiet, Reads, Gathered, Early
      <3>2. Walked(t, Finished) \cup (Singles \ Singles) = Walked(t, Finished) OBVIOUS
      <3>3. \A s \in Required : t[s] # Absent
        <4>1. \A s \in Required : s \in Sources BY BundleAssumption
        <4> QED BY <2>1, <3>1, <4>1, ViewSame DEF RequiredThere
      <3>4. Gathered("mapped", t, a, Singles, e)
        <4> HIDE DEF t
        <4> QED BY <3>1, <3>2, <3>3 DEF Gathered, Staging, Late
      <3> QED BY <3>1, <3>4 DEF Reads
    <2> QED BY <2>1, <2>2, <2>3 DEF Collected, Quiet
  <1> QED BY <1>1, <1>2

LEMMA ListedCollected ==
  ASSUME Types, NEW b \in Builders, Holds(b), Collected(b),
         NEW s \in Sources, ReadListed(b, s)
  PROVE  Collected(b)'
  <1>1. CASE Fails(b) BY <1>1, EndsCollected DEF Fails
  <1>2. CASE ~Fails(b)
    <2> DEFINE j == job[b]
               t == View(job[b])
               a == at[b]
               e == entries[b]
               f == entries'[b]
               d == todo[b]
    <2>1. /\ pc[b] = "walk" /\ pc'[b] = "walk" /\ job'[b] = j /\ at'[b] = a
          /\ tree' = tree /\ disturbed' = disturbed /\ s \in d /\ todo'[b] = d \ {s}
      BY <1>2 DEF ReadListed, AddEntry, First, Types, shared
    <2>2. \/ tree[s] \in Binary /\ f = e
          \/ tree[s] \notin Binary /\ Added(b, TargetOf[s], tree[s], "repository")
      BY <1>2 DEF ReadListed, AddEntry, Added, Entry
    <2>3. Apart(e) /\ Formed(e) /\ FromHeld(e, "generated") = {}
      BY <2>1 DEF Holds, Held, Phases, Early, Collected, Collects, Drawn, Quiet
    <2>4. /\ Formed(f) /\ FromHeld(f, "generated") = {}
          /\ FromHeld(f, "repository") =
               FromHeld(e, "repository") \cup
                 (IF tree[s] \in Binary THEN {} ELSE {<<TargetOf[s], tree[s]>>})
      <3>1. CASE tree[s] \in Binary BY <2>2, <2>3, <3>1
      <3>2. CASE tree[s] \notin Binary
        <4> DEFINE p == TargetOf[s]
                   x == tree[s]
        <4>1. Added(b, p, x, "repository") BY <2>2, <3>2
        <4> HIDE DEF p, x
        <4>2. /\ FromHeld(f, "repository") = FromHeld(e, "repository") \cup {<<p, x>>}
              /\ FromHeld(f, "generated") = FromHeld(e, "generated") /\ Formed(f)
          BY <2>3, <4>1, AddedHeld
        <4> QED BY <2>3, <3>2, <4>2 DEF p, x
      <3> QED BY <3>1, <3>2
    <2>5. Collects("walk", j, a, d \ {s}, f)
      BY <2>4 DEF Collects, Drawn, Mapped, Early, Staging, Late
    <2>6. ASSUME b \notin disturbed PROVE Reads("walk", j, a, d \ {s}, f, tree)
      <3>1. /\ tree = j.tree /\ a \in DOMAIN Mappings /\ d \subseteq Listing(t, a)
            /\ FromHeld(e, "repository") =
                 Pairs(t, Walked(t, a) \cup Textuals(t, Listing(t, a) \ d))
        BY <2>1, <2>6 DEF Collected, Quiet, Reads, Gathered, Early
      <3>4. t[s] = tree[s]
        <4>1. t[s] # Absent BY <2>1, <3>1 DEF Listing
        <4> QED BY <3>1, <4>1, ViewSame
      <3> HIDE DEF t
      <3> DEFINE old == Walked(t, a) \cup Textuals(t, Listing(t, a) \ d)
                 new == Walked(t, a) \cup Textuals(t, Listing(t, a) \ (d \ {s}))
      <3>2. CASE t[s] \in Binary
        <4>1. new = old BY <2>1, <3>1, <3>2 DEF Textuals
        <4>2. FromHeld(f, "repository") = FromHeld(e, "repository") BY <2>4, <3>2, <3>4
        <4>3. Gathered("walk", t, a, d \ {s}, f)
          BY <3>1, <4>1, <4>2 DEF Gathered, Staging, Late
        <4> QED BY <3>1, <4>3 DEF Reads, t
      <3>3. CASE t[s] \notin Binary
        <4>1. new = old \cup {s} BY <2>1, <3>1, <3>3 DEF Textuals
        <4> HIDE DEF new, old
        <4>2. Pairs(t, new) = Pairs(t, old) \cup {<<TargetOf[s], t[s]>>}
          <5> HIDE DEF t
          <5>1. Pairs(t, old \cup {s}) = Pairs(t, old) \cup {<<TargetOf[s], t[s]>>} BY PairsAdd
          <5> QED BY <4>1, <5>1
        <4>3. FromHeld(f, "repository") = FromHeld(e, "repository") \cup {<<TargetOf[s], t[s]>>}
          BY <2>4, <3>3, <3>4
        <4>4. FromHeld(f, "repository") = Pairs(t, new) BY <3>1, <4>2, <4>3 DEF old
        <4>5. Gathered("walk", t, a, d \ {s}, f)
          BY <3>1, <4>4 DEF Gathered, Staging, Late, new
        <4> QED BY <3>1, <4>5 DEF Reads, t
      <3> QED BY <3>2, <3>3
    <2> QED BY <2>1, <2>5, <2>6 DEF Collected, Quiet
  <1> QED BY <1>1, <1>2

LEMMA MappedCollected ==
  ASSUME Types, NEW b \in Builders, Holds(b), Collected(b),
         NEW s \in Sources, ReadMapped(b, s)
  PROVE  Collected(b)'
  <1>1. CASE Fails(b) BY <1>1, EndsCollected DEF Fails
  <1>2. CASE ~Fails(b)
    <2> DEFINE j == job[b]
               t == View(job[b])
               a == at[b]
               e == entries[b]
               f == entries'[b]
               d == todo[b]
               p == TargetOf[s]
               x == tree[s]
    <2>1. /\ pc[b] = "mapped" /\ pc'[b] = "mapped" /\ job'[b] = j /\ at'[b] = a
          /\ tree' = tree /\ disturbed' = disturbed /\ s \in d /\ todo'[b] = d \ {s}
          /\ Added(b, p, x, "repository")
      BY <1>2 DEF ReadMapped, AddEntry, Added, Entry, First, Types, shared
    <2>2. Apart(e) /\ Formed(e) /\ FromHeld(e, "generated") = {}
          /\ d \subseteq Singles /\ \A u \in Singles \ d : TargetOf[u] \in DOMAIN e
      BY <2>1 DEF Holds, Held, Phases, Early, Collected, Collects, Drawn, Mapped, Quiet
    <2>3. /\ FromHeld(f, "repository") = FromHeld(e, "repository") \cup {<<p, x>>}
          /\ FromHeld(f, "generated") = FromHeld(e, "generated") /\ Formed(f)
          /\ DOMAIN f = DOMAIN e \cup {p}
      <3> HIDE DEF p, x
      <3> QED BY <2>1, <2>2, AddedHeld
    <2>4. \A u \in Singles \ (d \ {s}) : TargetOf[u] \in DOMAIN f BY <2>2, <2>3
    <2>5. Collects("mapped", j, a, d \ {s}, f)
      BY <2>2, <2>3, <2>4 DEF Collects, Drawn, Mapped, Early, Staging, Late
    <2>6. ASSUME b \notin disturbed PROVE Reads("mapped", j, a, d \ {s}, f, tree)
      <3>1. /\ tree = j.tree /\ \A u \in Required : t[u] # Absent
            /\ FromHeld(e, "repository") = Pairs(t, Walked(t, Finished) \cup (Singles \ d))
        BY <2>1, <2>6 DEF Collected, Quiet, Reads, Gathered, Early
      <3>6. t[s] = tree[s]
        <4>1. DirectoryOf[s] = None BY <2>1, <2>2 DEF Singles
        <4> QED BY <3>1, <4>1, ViewSame
      <3> DEFINE old == Walked(t, Finished) \cup (Singles \ d)
                 new == Walked(t, Finished) \cup (Singles \ (d \ {s}))
      <3>2. s \in Singles => new = old \cup {s} BY <2>1
      <3>3. s \in Singles BY <2>1, <2>2
      <3> HIDE DEF new, old
      <3>4. Pairs(t, new) = Pairs(t, old) \cup {<<TargetOf[s], t[s]>>}
        <4>1. new = old \cup {s} BY <3>2, <3>3
        <4> HIDE DEF t
        <4>2. Pairs(t, old \cup {s}) = Pairs(t, old) \cup {<<TargetOf[s], t[s]>>} BY PairsAdd
        <4> QED BY <4>1, <4>2
      <3>5. FromHeld(f, "repository") = Pairs(t, new) BY <2>3, <3>1, <3>4, <3>6 DEF old
      <3> QED BY <3>1, <3>5 DEF Reads, Gathered, Staging, Late, new
    <2> QED BY <2>1, <2>5, <2>6 DEF Collected, Quiet
  <1> QED BY <1>1, <1>2

\* What is held between the vendor directory's stages and after them, unless more comes
\* from the repository.
LEMMA StagedReads ==
  ASSUME NEW p \in {"mapped"} \cup Staging \cup Late, NEW to \in Staging \cup Late,
         NEW t, NEW a, NEW n, NEW d, p = "mapped" => d = {}, NEW e, NEW f, NEW D,
         FromHeld(f, "repository") = FromHeld(e, "repository"), Gathered(p, t, a, d, e)
  PROVE  Gathered(to, t, n, D, f)
  <1>1. FromHeld(e, "repository") = Pairs(t, Walked(t, Finished) \cup Singles)
    <2>1. CASE p = "mapped"
      <3>1. Singles \ d = Singles BY <2>1
      <3> QED BY <2>1, <3>1 DEF Gathered
    <2>2. CASE p # "mapped" BY <2>2 DEF Gathered
    <2> QED BY <2>1, <2>2
  <1>2. \A s \in Required : t[s] # Absent BY DEF Gathered
  <1>3. to \notin {"open", "required", "walk", "mapped"} BY DEF Staging, Late
  <1> QED BY <1>1, <1>2, <1>3 DEF Gathered

LEMMA OpenVendorCollected ==
  ASSUME Types, NEW b \in Builders, Holds(b), Collected(b), OpenVendor(b)
  PROVE  Collected(b)'
  <1>1. CASE Fails(b) BY <1>1, EndsCollected DEF Fails
  <1>2. CASE ~Fails(b)
    <2> DEFINE j == job[b]
               t == View(job[b])
               e == entries[b]
    <2>1. /\ pc[b] = "mapped" /\ todo[b] = {} /\ pc'[b] = "vendor" /\ job'[b] = j /\ at'[b] = 1
          /\ entries'[b] = e /\ tree' = tree /\ disturbed' = disturbed /\ todo'[b] = {}
      BY <1>2 DEF OpenVendor, Opens, Types, Goes, shared
    <2>2. Distinct(j.profile.vendor, 1)
      <3>1. Tasked(j) BY <2>1 DEF Holds, Held, Phases, Early
      <3>2. Listed(j.profile.vendor) BY <3>1, ProfileLists
      <3> QED BY <3>2 DEF Listed, Distinct
    <2>3. /\ Formed(e) /\ FromHeld(e, "generated") = {}
          /\ \A s \in Singles : TargetOf[s] \in DOMAIN e
      BY <2>1 DEF Collected, Quiet, Collects, Drawn, Mapped, Early
    <2>4. Collects("vendor", j, 1, {}, e)
      BY <2>2, <2>3 DEF Collects, Drawn, Mapped, Early, Staging, Late
    <2>5. ASSUME b \notin disturbed PROVE Reads("vendor", j, 1, {}, e, tree)
      <3>1. Gathered("mapped", t, at[b], {}, e) BY <2>1, <2>5 DEF Collected, Quiet, Reads
      <3>2. Gathered("vendor", t, 1, {}, e) BY <3>1, StagedReads DEF Staging
      <3> QED BY <3>2 DEF Reads, Early
    <2> QED BY <2>1, <2>4, <2>5 DEF Collected, Quiet
  <1> QED BY <1>1, <1>2

LEMMA OpenRuntimeCollected ==
  ASSUME Types, NEW b \in Builders, Holds(b), Collected(b), OpenRuntime(b)
  PROVE  Collected(b)'
  <1>1. CASE Fails(b) BY <1>1, EndsCollected DEF Fails
  <1>2. CASE ~Fails(b)
    <2> DEFINE j == job[b]
               t == View(job[b])
               e == entries[b]
               a == at[b]
               v == j.profile.vendor
    <2>1. /\ pc[b] = "vendor" /\ a > Len(v) /\ pc'[b] = "runtime" /\ job'[b] = j /\ at'[b] = 1
          /\ entries'[b] = e /\ tree' = tree /\ disturbed' = disturbed /\ todo'[b] = todo[b]
          /\ a \in Nat
      BY <1>2 DEF OpenRuntime, Opens, Types, Goes, shared
    <2>2. Distinct(v, a) /\ Formed(e) /\ FromHeld(e, "generated") = {}
          /\ \A s \in Singles : TargetOf[s] \in DOMAIN e
      BY <2>1 DEF Collected, Quiet, Collects, Drawn, Mapped, Staging
    <2>3. Unrepeated(v)
      <3>1. Tasked(j) BY <2>1 DEF Holds, Held, Phases
      <3>2. Listed(v) BY <3>1, ProfileLists
      <3> HIDE DEF v
      <3>3. \A i \in DOMAIN v : i < a BY <2>1, <3>2 DEF Listed
      <3> QED BY <2>2, <3>3 DEF Distinct, Unrepeated
    <2>4. Collects("runtime", j, 1, todo[b], e)
      BY <2>2, <2>3 DEF Collects, Drawn, Mapped, Early, Staging, Late
    <2>5. ASSUME b \notin disturbed PROVE Reads("runtime", j, 1, todo[b], e, tree)
      <3> DEFINE d == todo[b]
      <3>1. Gathered("vendor", t, a, d, e) BY <2>1, <2>5 DEF Collected, Quiet, Reads
      <3>2. Gathered("runtime", t, 1, d, e)
        <4> HIDE DEF t, a, d, e
        <4> QED BY <3>1, StagedReads DEF Staging
      <3> QED BY <3>2 DEF Reads, Early
    <2> QED BY <2>1, <2>4, <2>5 DEF Collected, Quiet
  <1> QED BY <1>1, <1>2

\* The next vendor file has a target of its own: its path was not there.
LEMMA DistinctNext ==
  ASSUME NEW list, NEW n \in Nat, DOMAIN list = 1 .. n, NEW a \in 1 .. n, NEW e,
         Distinct(list, a), FromHeld(e, "vendor") = Upto(list, a),
         list[a].target \notin DOMAIN e
  PROVE  Distinct(list, a + 1)
  <1>1. ASSUME NEW i \in DOMAIN list, i < a PROVE list[i].target \in DOMAIN e
    <2>1. <<list[i].target, list[i].sha256>> \in Upto(list, a) BY <1>1 DEF Upto
    <2>2. <<list[i].target, list[i].sha256>> \in FromHeld(e, "vendor") BY <2>1
    <2> QED BY <2>2 DEF FromHeld
  <1>2. \A i \in DOMAIN list : i < a + 1 => i < a \/ i = a OBVIOUS
  <1>3. ASSUME NEW i \in DOMAIN list, NEW k \in DOMAIN list, i < a + 1, k < a + 1,
               list[i].target = list[k].target
        PROVE  i = k
    <2>1. i < a => list[i].target # list[a].target BY <1>1
    <2>2. k < a => list[k].target # list[a].target BY <1>1
    <2>3. i < a /\ k < a => i = k BY <1>3 DEF Distinct
    <2> QED BY <1>2, <1>3, <2>1, <2>2, <2>3
  <1> QED BY <1>3 DEF Distinct

LEMMA VendorCollected ==
  ASSUME Types, NEW b \in Builders, Holds(b), Collected(b), ReadVendor(b)
  PROVE  Collected(b)'
  <1>1. CASE Fails(b) BY <1>1, EndsCollected DEF Fails
  <1>2. CASE ~Fails(b)
    <2> DEFINE j == job[b]
               t == View(job[b])
               e == entries[b]
               f == entries'[b]
               a == at[b]
               d == todo[b]
               list == j.profile.vendor
               p == list[a].target
               x == list[a].sha256
    <2>1. /\ pc[b] = "vendor" /\ a <= Len(list) /\ pc'[b] = "vendor" /\ job'[b] = j
          /\ at'[b] = a + 1 /\ tree' = tree /\ disturbed' = disturbed /\ todo'[b] = d
          /\ a \in Nat \ {0} /\ Added(b, p, x, "vendor")
      BY <1>2 DEF ReadVendor, Verified, AddEntry, Added, Entry, Types, shared
    <2>2. /\ Apart(e) /\ Formed(e) /\ FromHeld(e, "generated") = {} /\ Tasked(j)
          /\ FromHeld(e, "vendor") = Upto(list, a) /\ Distinct(list, a)
          /\ \A s \in Singles : TargetOf[s] \in DOMAIN e
      BY <2>1 DEF Holds, Held, Vendored, Phases, Collected, Collects, Drawn, Mapped, Quiet,
                  Staging
    <2>3. /\ p \notin DOMAIN e /\ DOMAIN f = DOMAIN e \cup {p} /\ Formed(f)
          /\ FromHeld(f, "repository") = FromHeld(e, "repository")
          /\ FromHeld(f, "generated") = FromHeld(e, "generated")
      <3>1. "vendor" \in Staging BY DEF Staging
      <3> HIDE DEF p, x
      <3> QED BY <2>1, <2>2, <3>1, StagedAdded
    <2>4. Distinct(list, a + 1)
      <3>1. PICK n \in Nat : DOMAIN list = 1 .. n /\ Len(list) = n
        BY <2>2, ProfileLists DEF Listed
      <3> HIDE DEF list, a, e
      <3>2. a \in 1 .. n BY <2>1, <3>1
      <3> QED BY <2>2, <2>3, <3>1, <3>2, DistinctNext
    <2>5. Collects("vendor", j, a + 1, d, f)
      BY <2>2, <2>3, <2>4 DEF Collects, Drawn, Mapped, Early, Staging, Late
    <2>6. ASSUME b \notin disturbed PROVE Reads("vendor", j, a + 1, d, f, tree)
      <3>1. Gathered("vendor", t, a, d, e) BY <2>1, <2>6 DEF Collected, Quiet, Reads
      <3>2. Gathered("vendor", t, a + 1, d, f)
        <4> HIDE DEF t, a, d, e, f
        <4> QED BY <2>3, <3>1, StagedReads DEF Staging
      <3> QED BY <3>2 DEF Reads, Early
    <2> QED BY <2>1, <2>5, <2>6 DEF Collected, Quiet
  <1> QED BY <1>1, <1>2

LEMMA RuntimeCollected ==
  ASSUME Types, NEW b \in Builders, Holds(b), Collected(b), ReadRuntime(b)
  PROVE  Collected(b)'
  <1>1. CASE Fails(b) BY <1>1, EndsCollected DEF Fails
  <1>2. CASE ~Fails(b)
    <2> DEFINE j == job[b]
               t == View(job[b])
               e == entries[b]
               f == entries'[b]
               a == at[b]
               d == todo[b]
               p == j.profile.runtimes[a].target
               x == j.profile.runtimes[a].sha256
    <2>1. /\ pc[b] = "runtime" /\ pc'[b] = "runtime" /\ job'[b] = j
          /\ tree' = tree /\ disturbed' = disturbed /\ todo'[b] = d
          /\ Added(b, p, x, "runtime")
      BY <1>2 DEF ReadRuntime, Verified, AddEntry, Added, Entry, Types, shared
    <2>2. /\ Apart(e) /\ Formed(e) /\ FromHeld(e, "generated") = {}
          /\ Unrepeated(j.profile.vendor)
          /\ \A s \in Singles : TargetOf[s] \in DOMAIN e
      BY <2>1 DEF Holds, Held, Phases, Collected, Collects, Drawn, Mapped, Quiet, Staging
    <2>3. /\ DOMAIN f = DOMAIN e \cup {p} /\ Formed(f)
          /\ FromHeld(f, "repository") = FromHeld(e, "repository")
          /\ FromHeld(f, "generated") = FromHeld(e, "generated")
      <3>1. "runtime" \in Staging BY DEF Staging
      <3> HIDE DEF p, x
      <3> QED BY <2>1, <2>2, <3>1, StagedAdded
    <2>4. Collects("runtime", j, at'[b], d, f)
      BY <2>2, <2>3 DEF Collects, Drawn, Mapped, Early, Staging, Late
    <2>5. ASSUME b \notin disturbed PROVE Reads("runtime", j, at'[b], d, f, tree)
      <3>1. Gathered("runtime", t, a, d, e) BY <2>1, <2>5 DEF Collected, Quiet, Reads
      <3>2. Gathered("runtime", t, at'[b], d, f) BY <2>3, <3>1, StagedReads DEF Staging
      <3> QED BY <3>2 DEF Reads, Early
    <2> QED BY <2>1, <2>4, <2>5 DEF Collected, Quiet
  <1> QED BY <1>1, <1>2

LEMMA ManifestCollected ==
  ASSUME Types, NEW b \in Builders, Holds(b), Collected(b),
         AddRuntimeManifest(b)
  PROVE  Collected(b)'
  <1>1. CASE Fails(b) BY <1>1, EndsCollected DEF Fails
  <1>2. CASE ~Fails(b)
    <2> DEFINE j == job[b]
               t == View(job[b])
               e == entries[b]
               f == entries'[b]
               d == todo[b]
               p == "runtime/manifest.json"
               x == RuntimeManifest(j.profile)
    <2>1. /\ pc[b] = "runtime" /\ pc'[b] = "temp" /\ job'[b] = j
          /\ tree' = tree /\ disturbed' = disturbed /\ todo'[b] = d
          /\ IF j.profile.runtimes = <<>> THEN f = e ELSE Added(b, p, x, "generated")
      BY <1>2 DEF AddRuntimeManifest, AddEntry, Added, Entry, Types, Goes, shared
    <2>2. /\ Apart(e) /\ Formed(e) /\ FromHeld(e, "generated") = {}
          /\ Unrepeated(j.profile.vendor)
          /\ \A s \in Singles : TargetOf[s] \in DOMAIN e
      BY <2>1 DEF Holds, Held, Phases, Collected, Collects, Drawn, Mapped, Quiet, Staging
    <2>3. /\ DOMAIN e \subseteq DOMAIN f /\ Formed(f)
          /\ FromHeld(f, "repository") = FromHeld(e, "repository")
          /\ FromHeld(f, "generated") = RuntimeManifested(j.profile)
      <3>1. CASE j.profile.runtimes = <<>> BY <2>1, <2>2, <3>1 DEF RuntimeManifested
      <3>2. CASE j.profile.runtimes # <<>>
        <4>1. Added(b, p, x, "generated") BY <2>1, <3>2
        <4> HIDE DEF p, x
        <4>2. /\ DOMAIN e \subseteq DOMAIN f /\ Formed(f)
              /\ FromHeld(f, "repository") = FromHeld(e, "repository")
              /\ FromHeld(f, "generated") = FromHeld(e, "generated") \cup {<<p, x>>}
          BY <2>2, <4>1, AddedHeld
        <4> QED BY <2>2, <3>2, <4>2 DEF RuntimeManifested, p, x
      <3> QED BY <3>1, <3>2
    <2>4. Collects("temp", j, at'[b], d, f)
      BY <2>2, <2>3 DEF Collects, Drawn, Mapped, Early, Staging, Late
    <2>5. ASSUME b \notin disturbed PROVE Reads("temp", j, at'[b], d, f, tree)
      <3>1. Gathered("runtime", t, at[b], d, e) BY <2>1, <2>5 DEF Collected, Quiet, Reads
      <3>2. Gathered("temp", t, at'[b], d, f) BY <2>3, <3>1, StagedReads DEF Staging, Late
      <3> QED BY <3>2 DEF Reads, Early
    <2> QED BY <2>1, <2>4, <2>5 DEF Collected, Quiet
  <1> QED BY <1>1, <1>2

\* The archive's steps leave it all as it is.
LEMMA WriteCollected ==
  ASSUME Types, NEW b \in Builders, Collected(b),
         CreateTemporary(b) \/ WriteArchive(b) \/ Replace(b) \/ ReadBack(b)
  PROVE  Collected(b)'
  <1>1. /\ pc[b] \in Late /\ job' = job /\ entries' = entries /\ at' = at /\ todo' = todo
        /\ disturbed' = disturbed /\ tree' = tree
        /\ \E to \in Late : pc' = [pc EXCEPT ![b] = to]
    BY DEF CreateTemporary, WriteArchive, Replace, ReadBack, Goes, Late, shared
  <1>2. pc'[b] \in Late BY <1>1 DEF Types
  <1>3. \A p \in Late : p \notin Early \cup Staging \cup Quiet \cup {"mapped"}
    BY DEF Early, Staging, Late, Quiet
  <1>4. Collects(pc'[b], job[b], at[b], todo[b], entries[b])
    <2>1. Collects(pc[b], job[b], at[b], todo[b], entries[b])
      BY <1>1, <1>3 DEF Collected
    <2>2. Drawn(pc'[b], job[b], at[b], entries[b])
      BY <1>1, <1>2, <1>3, <2>1 DEF Collects, Drawn, Staging
    <2>3. Mapped(pc'[b], todo[b], entries[b]) BY <1>1, <1>2, <1>3, <2>1 DEF Collects, Mapped
    <2> QED BY <2>1, <2>2, <2>3 DEF Collects
  <1>5. ASSUME b \notin disturbed PROVE Reads(pc'[b], job[b], at[b], todo[b], entries[b], tree)
    <2> DEFINE p == pc[b]
               q == pc'[b]
               t == View(job[b])
               a == at[b]
               d == todo[b]
               e == entries[b]
    <2>1. Gathered(p, t, a, d, e) BY <1>1, <1>3, <1>5 DEF Collected, Reads
    <2>2. p \in Late /\ q \in Late /\ p # "mapped" /\ q \notin Early BY <1>1, <1>2, <1>3
    <2> HIDE DEF p, q, t, a, d, e
    <2>3. Gathered(q, t, a, d, e) BY <2>1, <2>2, StagedReads
    <2> QED BY <2>2, <2>3 DEF Reads, p, q, t, a, d, e
  <1>6. pc'[b] # "idle" BY <1>2 DEF Late
  <1> QED BY <1>1, <1>4, <1>5, <1>6 DEF Collected

LEMMA BuildCollected ==
  ASSUME Types, NEW b \in Builders, Holds(b), Collected(b), Build(b)
  PROVE  Collected(b)'
  <1>1. CASE Fail(b) \/ Crash(b) BY <1>1, EndsCollected DEF Fail, Crash, Fails
  <1> QED BY <1>1, StartCollected, OpenCollected, CloseCollected, RequiredCollected,
             ListedCollected, MappedCollected, OpenVendorCollected, VendorCollected,
             OpenRuntimeCollected, RuntimeCollected, ManifestCollected, WriteCollected
          DEF Build

\* The step of another build, and an edit: whoever has files to read is disturbed.
LEMMA OtherCollected ==
  ASSUME NEW c \in Builders, Collected(c), Same(c), UNCHANGED <<tree, disturbed>>
  PROVE  Collected(c)'
  BY DEF Same, Collected

LEMMA EditCollected ==
  ASSUME Types, NEW b \in Builders, Collected(b), Edit PROVE Collected(b)'
  <1>1. /\ UNCHANGED <<pc, job, at, todo, entries>>
        /\ disturbed' = disturbed \cup Running
    BY DEF Edit
  <1>2. pc[b] \notin Early \/ b \in disturbed'
    BY <1>1 DEF Running, Early, Ended
  <1>3. pc[b] \notin Quiet /\ b \notin disturbed' =>
          Reads(pc[b], job[b], at[b], todo[b], entries[b], tree')
    BY <1>1, <1>2 DEF Collected, Reads
  <1> QED BY <1>1, <1>3 DEF Collected

\* What every build has taken from the repository.
THEOREM Gathering == Spec => [](\A b \in Builders : Collected(b))
  <1>1. Init => \A b \in Builders : Collected(b)
    BY DEF Init, Collected, Quiet
  <1>2. IInv /\ (\A b \in Builders : Collected(b)) /\ [Next]_vars
          => (\A b \in Builders : Collected(b))'
    <2> SUFFICES ASSUME IInv, \A b \in Builders : Collected(b), [Next]_vars,
                        NEW c \in Builders
                 PROVE  Collected(c)'
      OBVIOUS
    <2>1. CASE Edit BY <2>1, EditCollected DEF IInv
    <2>2. ASSUME NEW b \in Builders, Build(b) PROVE Collected(c)'
      <3>1. CASE c = b BY <2>2, <3>1, BuildCollected DEF IInv
      <3>2. CASE c # b
        <4>1. Same(c) BY <2>2, <3>2, BuildFrame DEF IInv, Frame
        <4>2. UNCHANGED <<tree, disturbed>> BY <2>2, BuildLeaves
        <4> QED BY <4>1, <4>2, OtherCollected
      <3> QED BY <3>1, <3>2
    <2>3. CASE UNCHANGED vars BY <2>3, OtherCollected DEF vars, Same
    <2> QED BY <2>1, <2>2, <2>3 DEF Next
  <1> QED BY <1>1, <1>2, Inductive, PTL DEF Spec

-----------------------------------------------------------------------------
(* The files that a bundle has.                                            *)

\* An assembled build has read all its files.
LEMMA AssembledHeld ==
  ASSUME IInv, NEW b \in Builders, Collected(b), Assembled(b)
  PROVE  /\ pc[b] \in Late
         /\ Held3(job[b], entries[b])
         /\ Formed(entries[b])
         /\ \A s \in Singles : TargetOf[s] \in DOMAIN entries[b]
         /\ FromHeld(entries[b], "generated") = RuntimeManifested(job[b].profile)
         /\ Unrepeated(job[b].profile.vendor)
         /\ b \notin disturbed =>
              /\ FromHeld(entries[b], "repository") =
                   Pairs(View(job[b]), Walked(View(job[b]), Finished) \cup Singles)
              /\ \A s \in Required : View(job[b])[s] # Absent
  <1>1. pc[b] \in Late /\ pc[b] \notin Quiet BY DEF Assembled, Late, Quiet
  <1>2. Held3(job[b], entries[b]) BY <1>1, LateHeld DEF IInv
  <1>3. Collects(pc[b], job[b], at[b], todo[b], entries[b]) BY <1>1 DEF Collected
  <1>4. b \notin disturbed => Gathered(pc[b], View(job[b]), at[b], todo[b], entries[b])
    BY <1>1 DEF Collected, Reads
  <1>5. pc[b] \in Staging \cup Late /\ pc[b] \in {"runtime"} \cup Late
        /\ pc[b] \in {"mapped"} \cup Staging \cup Late
    BY <1>1
  <1>6. /\ Formed(entries[b]) /\ \A s \in Singles : TargetOf[s] \in DOMAIN entries[b]
        /\ FromHeld(entries[b], "generated") = RuntimeManifested(job[b].profile)
        /\ Unrepeated(job[b].profile.vendor)
    BY <1>1, <1>3, <1>5 DEF Collects, Drawn, Mapped
  <1>7. b \notin disturbed =>
          /\ FromHeld(entries[b], "repository") =
               Pairs(View(job[b]), Walked(View(job[b]), Finished) \cup Singles)
          /\ \A s \in Required : View(job[b])[s] # Absent
    BY <1>4, <1>5 DEF Gathered
  <1> QED BY <1>1, <1>2, <1>6, <1>7

\* The walk finds the required files that no rule excludes.
LEMMA RequiredWalked ==
  ASSUME NEW t, NEW s \in Required \ Excluded, t[s] # Absent,
         t[s] \notin Binary
  PROVE  s \in Walked(t, Finished)
  <1>1. PICK i \in DOMAIN Mappings : DirectoryOf[s] = Mappings[i] BY BundleAssumption
  <1>2. s \in Sources BY BundleAssumption
  <1>3. i < Finished BY BundleAssumption DEF Finished
  <1>4. s \in Textuals(t, Listing(t, i)) BY <1>1, <1>2 DEF Textuals, Listing
  <1> QED BY <1>2, <1>3, <1>4 DEF Walked

\* A bundle has the files that an installation needs.
THEOREM BundlesAreComplete == Spec => []RequiredPresent
  <1>1. IInv /\ (\A b \in Builders : Collected(b)) => RequiredPresent
    <2> SUFFICES ASSUME IInv, NEW b \in Builders, Collected(b), Assembled(b)
                 PROVE  /\ \A s \in Singles : TargetOf[s] \in DOMAIN entries[b]
                        /\ \A s \in Required \ Excluded :
                             b \notin disturbed /\ job[b].tree[s] \notin Binary
                               => TargetOf[s] \in DOMAIN entries[b]
      BY DEF RequiredPresent, Singles
    <2>1. ASSUME NEW s \in Required \ Excluded, b \notin disturbed, job[b].tree[s] \notin Binary
          PROVE  TargetOf[s] \in DOMAIN entries[b]
      <3> DEFINE t == View(job[b])
                 e == entries[b]
      <3>1. /\ FromHeld(e, "repository") = Pairs(t, Walked(t, Finished) \cup Singles)
            /\ t[s] # Absent
        BY <2>1, AssembledHeld
      <3>2. t[s] \notin Binary
        <4>1. s \in Sources BY BundleAssumption
        <4> QED BY <2>1, <4>1, ViewSame
      <3>3. s \in Walked(t, Finished)
        <4> HIDE DEF t
        <4> QED BY <3>1, <3>2, RequiredWalked
      <3> HIDE DEF t, e
      <3>4. <<TargetOf[s], t[s]>> \in FromHeld(e, "repository") BY <3>1, <3>3 DEF Pairs
      <3>5. TargetOf[s] \in DOMAIN e BY <3>4 DEF FromHeld
      <3> QED BY <3>5 DEF e
    <2> QED BY <2>1, AssembledHeld
  <1> QED BY <1>1, Inductive, Gathering, PTL

\* Entries are determined by what they have from each source.
LEMMA EntriesSame ==
  ASSUME NEW e, NEW f, Formed(e), Formed(f), Textual(e), Textual(f),
         \A s \in {"repository", "vendor", "runtime", "generated"} :
           FromHeld(e, s) = FromHeld(f, s)
  PROVE  e = f
  <1>1. ASSUME NEW g, NEW h, Textual(g), NEW q \in DOMAIN g,
               \A s \in {"repository", "vendor", "runtime", "generated"} :
                 FromHeld(g, s) = FromHeld(h, s)
        PROVE  q \in DOMAIN h /\ h[q].source = g[q].source /\ h[q].data = g[q].data
    <2> DEFINE s == g[q].source
    <2>1. s \in {"repository", "vendor", "runtime", "generated"} BY <1>1 DEF Textual
    <2>2. <<q, g[q].data>> \in FromHeld(g, s) BY <1>1 DEF FromHeld
    <2>3. <<q, g[q].data>> \in FromHeld(h, s) BY <1>1, <2>1, <2>2
    <2> QED BY <2>3 DEF FromHeld
  <1>2. DOMAIN e = DOMAIN f BY <1>1
  <1>3. \A q \in DOMAIN e : Entry(e[q].data, e[q].source) = Entry(f[q].data, f[q].source)
    BY <1>1 DEF Entry
  <1>4. [q \in DOMAIN e |-> Entry(e[q].data, e[q].source)]
          = [q \in DOMAIN f |-> Entry(f[q].data, f[q].source)]
    BY <1>2, <1>3
  <1> QED BY <1>4 DEF Formed

\* A profile with the same lists in another order is the same profile.
LEMMA TaskedSame ==
  ASSUME NEW j, NEW k, Tasked(j), Tasked(k),
         j.raw.kind = k.raw.kind,
         Elements(j.raw.fixtures) = Elements(k.raw.fixtures),
         Elements(j.raw.vendor) = Elements(k.raw.vendor),
         Elements(j.raw.runtimes) = Elements(k.raw.runtimes),
         Unrepeated(j.profile.vendor), Unrepeated(k.profile.vendor)
  PROVE  j.profile = k.profile
  <1>1. PICK i \in Invocations : Accepted(i.raw) /\ j.raw = i.raw /\ j.profile = Profile(i.raw)
    BY DEF Tasked
  <1>2. PICK m \in Invocations : Accepted(m.raw) /\ k.raw = m.raw /\ k.profile = Profile(m.raw)
    BY DEF Tasked
  <1> QED BY <1>1, <1>2, ProfileSame

LEMMA PackedSame ==
  ASSUME NEW j, NEW k, NEW e, j.version = k.version, j.profile = k.profile
  PROVE  Packed(j, e) = Packed(k, e)
  BY DEF Packed

\* Two builds from the same files make the same bundle.
THEOREM BundlesAreReproducible == Spec => []SameInputsSameBundle
  <1>1. IInv /\ (\A b \in Builders : Collected(b)) => SameInputsSameBundle
    <2> SUFFICES ASSUME IInv, NEW b \in Builders, NEW c \in Builders,
                        Collected(b), Collected(c), Assembled(b), Assembled(c),
                        b \notin disturbed, c \notin disturbed, Inputs(b) = Inputs(c)
                 PROVE  Bundled(b) = Bundled(c)
      BY DEF SameInputsSameBundle
    <2> DEFINE j == job[b]
               k == job[c]
               e == entries[b]
               f == entries[c]
    <2>1. /\ j.version = k.version /\ j.tree = k.tree /\ j.raw.kind = k.raw.kind
          /\ j.unlisted = k.unlisted
          /\ Elements(j.raw.fixtures) = Elements(k.raw.fixtures)
          /\ Elements(j.raw.vendor) = Elements(k.raw.vendor)
          /\ Elements(j.raw.runtimes) = Elements(k.raw.runtimes)
      BY DEF Inputs
    <2>2. /\ Held3(j, e) /\ Formed(e) /\ Unrepeated(j.profile.vendor)
          /\ FromHeld(e, "generated") = RuntimeManifested(j.profile)
          /\ FromHeld(e, "repository") = Pairs(View(j), Walked(View(j), Finished) \cup Singles)
      BY AssembledHeld
    <2>3. /\ Held3(k, f) /\ Formed(f) /\ Unrepeated(k.profile.vendor)
          /\ FromHeld(f, "generated") = RuntimeManifested(k.profile)
          /\ FromHeld(f, "repository") = Pairs(View(k), Walked(View(k), Finished) \cup Singles)
      BY AssembledHeld
    <2>4. Bundled(b) = Packed(j, e) /\ Bundled(c) = Packed(k, f) BY BundledPacked
    <2> HIDE DEF j, k, e, f
    <2>5. j.profile = k.profile
      BY <2>1, <2>2, <2>3, TaskedSame DEF Held3
    <2>6. View(j) = View(k) BY <2>1 DEF View
    <2>7. \A s \in {"repository", "vendor", "runtime", "generated"} :
            FromHeld(e, s) = FromHeld(f, s)
      BY <2>2, <2>3, <2>5, <2>6 DEF Held3
    <2>8. e = f BY <2>2, <2>3, <2>7, EntriesSame DEF Held3
    <2>9. Packed(j, e) = Packed(k, e) BY <2>1, <2>5, PackedSame
    <2> QED BY <2>4, <2>8, <2>9
  <1> QED BY <1>1, Inductive, Gathering, PTL
=============================================================================
