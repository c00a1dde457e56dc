--------------------------- MODULE VectorManifest ---------------------------
(***************************************************************************)
(* The test-vector checkout that the vector gate and the vector runner     *)
(* read: test-vectors/manifest.json and the files it names.  Between       *)
(* commits people edit both; while the jobs of one commit run, neither     *)
(* changes.  A file's hash stands for its content, and a string field for  *)
(* its value.  Of JSON the model keeps what its two readers take           *)
(* differently: strict is FALSE of a text that Python's json module reads  *)
(* and serde_json does not (a key given twice, NaN, a lone surrogate), and *)
(* a number that is an int in Python need not be a u64.                    *)
(***************************************************************************)
EXTENDS Integers, Sequences, FiniteSets

CONSTANTS
  FileNames,       \* paths of ACVP and placeholder files
  Contents,        \* contents a file can have
  KnownParameters, \* parameter-set names, of the scheme they are given with
  InitialManifest, \* as committed first
  InitialFiles,    \* content of each file
  MaxEdits         \* bound on the edits before the jobs run

Absent == [json |-> FALSE, present |-> FALSE]

IsList(s) == s \in Seq({s[i] : i \in DOMAIN s})

(* Fields that every vector set has, and what they are. *)
WellFormedSet(set) ==
  /\ {"id", "kind", "status", "pending_reason", "parameters", "unread_typed", "files", "sha256"}
       \subseteq DOMAIN set
  /\ IsList(set.parameters) /\ IsList(set.files)
  /\ \A j \in DOMAIN set.files :
       {"file"} \subseteq DOMAIN set.files[j] /\ set.files[j].file \in FileNames
  /\ set.kind = "repository-placeholder" => {"file"} \subseteq DOMAIN set /\ set.file \in FileNames
  /\ set.kind = "official-acvp" =>
       {"source", "header", "sample", "groups", "cases"} \subseteq DOMAIN set

ASSUME ManifestAssumption ==
  /\ Absent \notin Contents /\ MaxEdits \in Nat
  /\ InitialFiles \in [FileNames -> Contents]
  /\ \A c \in Contents : c.json =>
       /\ IsList(c.groups) /\ \A g \in DOMAIN c.groups : IsList(c.groups[g].tests)
       /\ IsList(c.cases)
  /\ DOMAIN InitialManifest = {"schema_version", "strict", "sources", "sets"}
  /\ IsList(InitialManifest.sources) /\ InitialManifest.sources # <<>>
  /\ IsList(InitialManifest.sets)
  /\ \A i \in DOMAIN InitialManifest.sets : WellFormedSet(InitialManifest.sets[i])

VARIABLES
  manifest,   \* [schema_version, strict, sources : ids, sets : vector sets]
  files,      \* [FileNames -> Contents or Absent]
  edits       \* edits made so far

repository == <<manifest, files, edits>>

(* Number of cases of an ACVP file: the tests of all its groups. *)
CaseCount(groups) ==
  LET sum[i \in 0 .. Len(groups)] ==
        IF i = 0 THEN 0 ELSE sum[i - 1] + Len(groups[i].tests)
  IN  sum[Len(groups)]

(* sha256_file, and vector_set_digest over role, path and hash. *)
Hash(content) == content
Digest(entries) == [i \in DOMAIN entries |-> <<entries[i].role, entries[i].file, entries[i].sha256>>]

(* validate_parameter_sets, and the same test in validate_vector_set_basics. *)
ListsKnownParameters(set) ==
  set.parameters # <<>> /\ \A i \in DOMAIN set.parameters : set.parameters[i] \in KnownParameters

KnownSource(set) == \E i \in DOMAIN manifest.sources : manifest.sources[i] = set.source

RepositoryInit ==
  /\ manifest = InitialManifest /\ files = InitialFiles /\ edits = 0

-----------------------------------------------------------------------------
(* What people do to the checkout. *)
Edit == edits < MaxEdits /\ edits' = edits + 1

ReplaceFile(name, content) ==
  /\ Edit /\ files' = [files EXCEPT ![name] = content] /\ UNCHANGED manifest

PutSet(i, set) ==
  /\ Edit /\ manifest' = [manifest EXCEPT !.sets = [@ EXCEPT ![i] = set]] /\ UNCHANGED files

ReturnToPending(i, reason) ==
  /\ manifest.sets[i].kind = "official-acvp"
  /\ PutSet(i, [manifest.sets[i] EXCEPT !.status = "pending", !.pending_reason = reason])

(* Vendoring again: the hashes and counts are taken from the files, and only
   the hashes when the counts are forgotten. *)
Refreshed(set, counts) ==
  LET entries == [j \in DOMAIN set.files |->
                    [set.files[j] EXCEPT !.sha256 = Hash(files[set.files[j].file])]]
      prompt == files[set.files[1].file]
  IN  [set EXCEPT !.files = entries, !.sha256 = Digest(entries), !.status = "vendored",
                  !.groups = IF counts THEN Len(prompt.groups) ELSE @,
                  !.cases = IF counts THEN CaseCount(prompt.groups) ELSE @]

VendorAgain(i, counts) ==
  /\ manifest.sets[i].kind = "official-acvp"
  /\ manifest.sets[i].files # <<>>
  /\ \A j \in DOMAIN manifest.sets[i].files : files[manifest.sets[i].files[j].file].json
  /\ PutSet(i, Refreshed(manifest.sets[i], counts))

HashPlaceholder(i) ==
  /\ manifest.sets[i].kind = "repository-placeholder"
  /\ PutSet(i, [manifest.sets[i] EXCEPT !.sha256 = Hash(files[manifest.sets[i].file])])

SwapFiles(i) ==
  LET f == manifest.sets[i].files IN
  /\ Len(f) = 2
  /\ PutSet(i, [manifest.sets[i] EXCEPT !.files =
                  <<[f[1] EXCEPT !.file = f[2].file], [f[2] EXCEPT !.file = f[1].file]>>])

ListParameters(i, name) ==
  PutSet(i, [manifest.sets[i] EXCEPT !.parameters = Append(@, name)])

(* An id copied along with a set, and a field that its kind or status gives no
   use, of a type that the runner's structs do not have there. *)
CopyId(i) == PutSet(i, [manifest.sets[i] EXCEPT !.id = manifest.sets[1].id])

MistypeUnread(i) == PutSet(i, [manifest.sets[i] EXCEPT !.unread_typed = FALSE])

EditHead(head) == Edit /\ manifest' = head /\ UNCHANGED files

RepeatSource == EditHead([manifest EXCEPT !.sources = Append(@, @[1])])

RewriteVersion(version) == EditHead([manifest EXCEPT !.schema_version = version])

RepeatKey == EditHead([manifest EXCEPT !.strict = FALSE])

RepositoryNext ==
  \/ \E name \in FileNames, content \in Contents \cup {Absent} : ReplaceFile(name, content)
  \/ \E i \in DOMAIN manifest.sets :
       \/ \E reason \in {"missing", "text", "number"} : ReturnToPending(i, reason)
       \/ \E counts \in BOOLEAN : VendorAgain(i, counts)
       \/ \E name \in KnownParameters \cup {"unknown"} : ListParameters(i, name)
       \/ HashPlaceholder(i) \/ SwapFiles(i) \/ CopyId(i) \/ MistypeUnread(i)
  \/ \E version \in {"1", "1.0", "2"} : RewriteVersion(version)
  \/ RepeatSource \/ RepeatKey
=============================================================================
