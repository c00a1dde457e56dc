----------------------------- MODULE GateProofs -----------------------------
(***************************************************************************)
(* What the gates of CI let through, for every manifest that is well       *)
(* formed, every set of contents and any number of edits: the vector gate  *)
(* and the vector runner on one commit (VectorCi), and the side-channel    *)
(* review gate.                                                            *)
(***************************************************************************)
EXTENDS Gates, NaturalFacts, FiniteSetTheorems, SequenceTheorems, TLAPS

(* A list runs from 1 to its length. *)
LEMMA Lists ==
  ASSUME NEW s, IsList(s)
  PROVE  Len(s) \in Nat /\ DOMAIN s = 1 .. Len(s) /\ s = [i \in 1 .. Len(s) |-> s[i]]
BY DEF IsList

(* A sequence over any set is a list. *)
LEMMA SequencesAreLists ==
  ASSUME NEW S, NEW s \in Seq(S)
  PROVE  IsList(s)
<1> DEFINE T == {s[i] : i \in DOMAIN s}
<1>1. Len(s) \in Nat /\ s \in [1 .. Len(s) -> S] /\ DOMAIN s = 1 .. Len(s)
  BY LenProperties
<1>2. \A i \in 1 .. Len(s) : s[i] \in T
  BY <1>1
<1> HIDE DEF T
<1>3. s \in [1 .. Len(s) -> T]
  BY <1>1, <1>2
<1>4. s \in Seq(T)
  BY <1>1, <1>3, SeqDef
<1> QED
  BY <1>4 DEF IsList, T

(* A function on 1 .. n is a list of length n. *)
LEMMA FunctionsAreLists ==
  ASSUME NEW s, NEW n \in Nat, s = [i \in 1 .. n |-> s[i]]
  PROVE  IsList(s) /\ Len(s) = n
<1> DEFINE T == {s[i] : i \in 1 .. n}
<1>1. s \in [1 .. n -> T]
  OBVIOUS
<1> HIDE DEF T
<1>2. s \in Seq(T)
  BY <1>1, SeqDef
<1>3. Len(s) = n
  BY <1>1, <1>2
<1> QED
  BY <1>2, <1>3, SequencesAreLists

-----------------------------------------------------------------------------
(* What the edits of a checkout leave as it is. *)
Shape ==
  /\ DOMAIN manifest = {"schema_version", "strict", "sources", "sets"}
  /\ IsList(manifest.sources) /\ manifest.sources # <<>>
  /\ DOMAIN manifest.sets = 1 .. Len(InitialManifest.sets)
  /\ \A i \in DOMAIN manifest.sets : WellFormedSet(manifest.sets[i])
  /\ files \in [FileNames -> Contents \cup {Absent}]

(* The sets committed first are numbered from 1. *)
LEMMA InitialSets ==
  /\ IsList(InitialManifest.sets) /\ Len(InitialManifest.sets) \in Nat
  /\ DOMAIN InitialManifest.sets = 1 .. Len(InitialManifest.sets)
BY ManifestAssumption, Lists

(* What is committed first has the shape. *)
LEMMA ShapeInit == RepositoryInit => Shape
BY InitialSets, ManifestAssumption DEF RepositoryInit, Shape

(* A list with one more element. *)
LEMMA AppendIsList ==
  ASSUME NEW s, IsList(s), NEW x
  PROVE  IsList(Append(s, x)) /\ Append(s, x) # <<>>
<1> DEFINE T == {s[i] : i \in DOMAIN s} \cup {x}
<1>1. s \in Seq({s[i] : i \in DOMAIN s}) /\ {s[i] : i \in DOMAIN s} \subseteq T /\ x \in T
  BY DEF IsList
<1> HIDE DEF T
<1>2. s \in Seq(T)
  BY <1>1
<1>3. Append(s, x) \in Seq(T) /\ Append(s, x) # <<>>
  BY <1>1, <1>2, AppendProperties
<1> QED
  BY <1>3, SequencesAreLists

(* Putting another well-formed set in a set's place. *)
LEMMA SetReplaced ==
  ASSUME Shape, NEW i \in DOMAIN manifest.sets, NEW set, WellFormedSet(set), PutSet(i, set)
  PROVE  Shape'
<1> DEFINE old == manifest.sets
           new == [old EXCEPT ![i] = set]
<1>1. manifest' = [manifest EXCEPT !.sets = new] /\ UNCHANGED files
  BY DEF PutSet
<1>2. DOMAIN manifest' = DOMAIN manifest /\ manifest'.sources = manifest.sources
      /\ manifest'.sets = new
  <2> HIDE DEF new
  <2> QED
    BY <1>1 DEF Shape
<1>3. DOMAIN new = DOMAIN old /\ \A j \in DOMAIN old : new[j] = IF j = i THEN set ELSE old[j]
  OBVIOUS
<1> HIDE DEF new
<1>4. \A j \in DOMAIN old : WellFormedSet(new[j])
  BY <1>3 DEF Shape
<1> QED
  BY <1>1, <1>2, <1>3, <1>4 DEF Shape

(* Another head over the same sets, with sources. *)
LEMMA HeadReplaced ==
  ASSUME Shape, NEW head, DOMAIN head = DOMAIN manifest, EditHead(head),
         head.sets = manifest.sets, IsList(head.sources) /\ head.sources # <<>>
  PROVE  Shape'
BY DEF EditHead, Shape

(* A set of the same kind and place with other lists. *)
LEMMA ShapeOfFields ==
  ASSUME NEW set, WellFormedSet(set), NEW new, DOMAIN new = DOMAIN set,
         \A field \in {"kind", "file"} : field \in DOMAIN set => new[field] = set[field],
         IsList(new.parameters), IsList(new.files),
         \A j \in DOMAIN new.files :
           {"file"} \subseteq DOMAIN new.files[j] /\ new.files[j].file \in FileNames
  PROVE  WellFormedSet(new)
<1>1. new.kind = set.kind /\ ("file" \in DOMAIN set => new.file = set.file)
  BY DEF WellFormedSet
<1> QED
  BY <1>1 DEF WellFormedSet

(* No edit of the checkout disturbs the shape. *)
LEMMA ShapeKept == Shape /\ RepositoryNext => Shape'
<1> SUFFICES ASSUME Shape, RepositoryNext
             PROVE  Shape'
  OBVIOUS
<1>1. ASSUME NEW name \in FileNames, NEW content \in Contents \cup {Absent},
             ReplaceFile(name, content)
      PROVE  Shape'
  BY <1>1 DEF ReplaceFile, Shape
<1>2. ASSUME NEW i \in DOMAIN manifest.sets
      PROVE  WellFormedSet(manifest.sets[i])
  BY <1>2 DEF Shape
<1>3. ASSUME NEW set, WellFormedSet(set), NEW new, DOMAIN new = DOMAIN set,
             \A field \in {"kind", "file", "files", "parameters"} :
               field \in DOMAIN set => new[field] = set[field]
      PROVE  WellFormedSet(new)
  <2>1. /\ new.files = set.files /\ IsList(set.files)
        /\ new.parameters = set.parameters /\ IsList(set.parameters)
    BY <1>3 DEF WellFormedSet
  <2>2. \A j \in DOMAIN new.files :
          {"file"} \subseteq DOMAIN new.files[j] /\ new.files[j].file \in FileNames
    BY <1>3, <2>1 DEF WellFormedSet
  <2> QED
    BY <1>3, <2>1, <2>2, ShapeOfFields
<1>4. ASSUME NEW i \in DOMAIN manifest.sets, NEW reason, ReturnToPending(i, reason)
      PROVE  Shape'
  <2> DEFINE new == [manifest.sets[i] EXCEPT !.status = "pending", !.pending_reason = reason]
  <2>1. PutSet(i, new)
    BY <1>4 DEF ReturnToPending
  <2>2. WellFormedSet(new)
    <3> DEFINE set == manifest.sets[i]
    <3>1. WellFormedSet(set)
      BY <1>2
    <3> HIDE DEF set
    <3>2. /\ DOMAIN new = DOMAIN set
          /\ \A field \in {"kind", "file", "files", "parameters"} :
               field \in DOMAIN set => new[field] = set[field]
      BY DEF set
    <3> HIDE DEF new
    <3> QED
      BY <1>3, <3>1, <3>2
  <2> QED
    BY <2>1, <2>2, SetReplaced
<1>5. ASSUME NEW i \in DOMAIN manifest.sets, HashPlaceholder(i) \/ CopyId(i) \/ MistypeUnread(i)
      PROVE  Shape'
  <2> DEFINE set == manifest.sets[i]
  <2>1. PICK new \in {[set EXCEPT !.sha256 = Hash(files[set.file])],
                      [set EXCEPT !.id = manifest.sets[1].id],
                      [set EXCEPT !.unread_typed = FALSE]} : PutSet(i, new)
    BY <1>5 DEF HashPlaceholder, CopyId, MistypeUnread
  <2>2. WellFormedSet(new)
    <3>1. WellFormedSet(set)
      BY <1>2
    <3> HIDE DEF set
    <3>2. /\ DOMAIN new = DOMAIN set
          /\ \A field \in {"kind", "file", "files", "parameters"} :
               field \in DOMAIN set => new[field] = set[field]
      OBVIOUS
    <3> QED
      BY <1>3, <3>1, <3>2
  <2> QED
    BY <2>1, <2>2, SetReplaced
<1>6. ASSUME NEW i \in DOMAIN manifest.sets, NEW counts \in BOOLEAN, VendorAgain(i, counts)
      PROVE  Shape'
  <2> DEFINE set == manifest.sets[i]
             entries == [j \in DOMAIN set.files |->
                           [set.files[j] EXCEPT !.sha256 = Hash(files[set.files[j].file])]]
             new == Refreshed(set, counts)
  <2>1. PutSet(i, new)
    BY <1>6 DEF VendorAgain
  <2>2. WellFormedSet(set)
    BY <1>2
  <2> HIDE DEF set
  <2> SUFFICES WellFormedSet(new)
    BY <2>1, SetReplaced
  <2>4. IsList(entries)
    <3>1. IsList(set.files)
      BY <2>2 DEF WellFormedSet
    <3>2. Len(set.files) \in Nat /\ DOMAIN set.files = 1 .. Len(set.files)
      BY <3>1, Lists
    <3>3. entries = [j \in 1 .. Len(set.files) |-> entries[j]]
      BY <3>2
    <3> HIDE DEF entries
    <3> QED
      BY <3>2, <3>3, FunctionsAreLists
  <2>5. \A j \in DOMAIN entries :
          {"file"} \subseteq DOMAIN entries[j] /\ entries[j].file \in FileNames
    <3> TAKE j \in DOMAIN entries
    <3>1. set.files[j].file \in FileNames
      BY <2>2 DEF WellFormedSet
    <3>2. entries[j] = [set.files[j] EXCEPT !.sha256 = Hash(files[set.files[j].file])]
      OBVIOUS
    <3>3. "file" \in DOMAIN set.files[j]
      BY <2>2 DEF WellFormedSet
    <3> QED
      BY <3>1, <3>2, <3>3
  <2> DEFINE groups == IF counts THEN Len(files[set.files[1].file].groups) ELSE set.groups
             cases == IF counts THEN CaseCount(files[set.files[1].file].groups) ELSE set.cases
  <2> HIDE DEF entries
  <2>6. new = [set EXCEPT !.files = entries, !.sha256 = Digest(entries), !.status = "vendored",
                          !.groups = groups, !.cases = cases]
    BY DEF Refreshed, entries
  <2> HIDE DEF groups, cases, new
  <2>7. DOMAIN new = DOMAIN set
    BY <2>6
  <2>8. \A field \in {"kind", "file", "parameters"} : field \in DOMAIN set =>
          new[field] = set[field]
    BY <2>6
  <2>9. {"files", "parameters"} \subseteq DOMAIN set /\ IsList(set.parameters)
    BY <2>2 DEF WellFormedSet
  <2>10. new.files = entries /\ new.parameters = set.parameters
    BY <2>6, <2>8, <2>9
  <2> QED
    BY <2>2, <2>4, <2>5, <2>7, <2>8, <2>9, <2>10, ShapeOfFields
<1>7. ASSUME NEW i \in DOMAIN manifest.sets, SwapFiles(i)
      PROVE  Shape'
  <2> DEFINE set == manifest.sets[i]
             f == set.files
             swapped == <<[f[1] EXCEPT !.file = f[2].file], [f[2] EXCEPT !.file = f[1].file]>>
  <2>1. PutSet(i, [set EXCEPT !.files = swapped]) /\ Len(f) = 2
    BY <1>7 DEF SwapFiles
  <2>2. WellFormedSet(set)
    BY <1>2
  <2>3. DOMAIN f = 1 .. 2
    BY <2>1, <2>2, Lists DEF WellFormedSet
  <2>4. /\ {"file"} \subseteq DOMAIN f[1] /\ {"file"} \subseteq DOMAIN f[2]
        /\ f[1].file \in FileNames /\ f[2].file \in FileNames
    BY <2>2, <2>3 DEF WellFormedSet
  <2>5. IsList(swapped) /\ \A j \in DOMAIN swapped :
          {"file"} \subseteq DOMAIN swapped[j] /\ swapped[j].file \in FileNames
    <3> HIDE DEF f
    <3>1. DOMAIN swapped = 1 .. 2 /\ swapped = [j \in 1 .. 2 |-> swapped[j]]
      OBVIOUS
    <3>2. IsList(swapped)
      <4> HIDE DEF swapped
      <4> QED
        BY <3>1, FunctionsAreLists
    <3> QED
      BY <2>4, <3>1, <3>2
  <2> HIDE DEF set, f, swapped
  <2> DEFINE new == [set EXCEPT !.files = swapped]
  <2>6. WellFormedSet(new)
    <3>1. /\ DOMAIN new = DOMAIN set
          /\ \A field \in {"kind", "file", "parameters"} : field \in DOMAIN set =>
               new[field] = set[field]
      OBVIOUS
    <3>2. new.files = swapped /\ "parameters" \in DOMAIN set /\ IsList(set.parameters)
      BY <2>2 DEF WellFormedSet
    <3> HIDE DEF new
    <3>3. IsList(new.parameters)
      BY <3>1, <3>2
    <3> QED
      BY <2>2, <2>5, <3>1, <3>2, <3>3, ShapeOfFields
  <2> QED
    BY <2>1, <2>6, SetReplaced
<1>8. ASSUME NEW i \in DOMAIN manifest.sets, NEW name, ListParameters(i, name)
      PROVE  Shape'
  <2> DEFINE set == manifest.sets[i]
             new == [set EXCEPT !.parameters = Append(@, name)]
  <2>1. PutSet(i, new)
    BY <1>8 DEF ListParameters
  <2>2. WellFormedSet(set)
    BY <1>2
  <2> HIDE DEF set
  <2>3. IsList(Append(set.parameters, name))
    BY <2>2, AppendIsList DEF WellFormedSet
  <2>4. WellFormedSet(new)
    <3>1. /\ DOMAIN new = DOMAIN set
          /\ \A field \in {"kind", "file", "files"} : field \in DOMAIN set =>
               new[field] = set[field]
      OBVIOUS
    <3>2. new.parameters = Append(set.parameters, name) /\ new.files = set.files
      BY <2>2 DEF WellFormedSet
    <3> HIDE DEF new
    <3>3. /\ IsList(new.files)
          /\ \A j \in DOMAIN new.files :
               {"file"} \subseteq DOMAIN new.files[j] /\ new.files[j].file \in FileNames
      BY <2>2, <3>2 DEF WellFormedSet
    <3> QED
      BY <2>2, <2>3, <3>1, <3>2, <3>3, ShapeOfFields
  <2> QED
    BY <2>1, <2>4, SetReplaced
<1>9. CASE RepeatSource
  <2> DEFINE new == Append(manifest.sources, manifest.sources[1])
             head == [manifest EXCEPT !.sources = new]
  <2>1. EditHead(head)
    BY <1>9 DEF RepeatSource
  <2>2. IsList(new) /\ new # <<>>
    BY AppendIsList DEF Shape
  <2> HIDE DEF new
  <2>3. DOMAIN head = DOMAIN manifest /\ head.sets = manifest.sets /\ head.sources = new
    BY DEF Shape
  <2> QED
    BY <2>1, <2>2, <2>3, HeadReplaced
<1>10. ASSUME NEW version, RewriteVersion(version) \/ RepeatKey
       PROVE  Shape'
  <2>1. PICK head \in {[manifest EXCEPT !.schema_version = version], [manifest EXCEPT !.strict = FALSE]} :
          EditHead(head)
    BY <1>10 DEF RewriteVersion, RepeatKey
  <2>2. DOMAIN head = DOMAIN manifest /\ head.sets = manifest.sets /\ head.sources = manifest.sources
    BY DEF Shape
  <2> QED
    BY <2>1, <2>2, HeadReplaced DEF Shape
<1> QED
  BY <1>1, <1>4, <1>5, <1>6, <1>7, <1>8, <1>9, <1>10 DEF RepositoryNext

-----------------------------------------------------------------------------
(* The gate's walk: what it went past it found valid. *)
GateAccepts(set) == AcceptsPending(set) \/ AcceptsVendored(set) \/ AcceptsPlaceholder(set)

GateInv ==
  /\ gate_index \in Nat \ {0}
  /\ gate \in {"idle", "sets", "passed", "failed"}
  /\ gate = "idle" => gate_index = 1
  /\ \A i \in DOMAIN manifest.sets : i < gate_index => GateAccepts(manifest.sets[i])
  /\ gate = "passed" => \A i \in DOMAIN manifest.sets : i < gate_index

RepositoryInv == Shape /\ GateInv

(* The shape and what the gate has found hold in every state. *)
LEMMA RepositoryHolds == Spec => []RepositoryInv
<1>1. Init => RepositoryInv
  <2>1. Init => Shape
    BY ShapeInit DEF Init
  <2>2. Init /\ Shape => GateInv
    BY DEF Init, GateInit, GateInv, Shape
  <2> QED
    BY <2>1, <2>2 DEF RepositoryInv
<1>2. RepositoryInv /\ [Next]_vars => RepositoryInv'
  <2> SUFFICES ASSUME RepositoryInv, [Next]_vars
               PROVE  RepositoryInv'
    OBVIOUS
  <2>1. CASE EditCheckout
    <3>1. Shape'
      BY <2>1, ShapeKept DEF RepositoryInv, EditCheckout
    <3>2. gate = "idle" /\ UNCHANGED gateVars
      BY <2>1 DEF EditCheckout, Commit
    <3>3. GateInv'
      <4>1. DOMAIN manifest'.sets = 1 .. Len(InitialManifest.sets)
        BY <3>1 DEF Shape
      <4> QED
        BY <3>2, <4>1, InitialSets DEF RepositoryInv, GateInv, gateVars
    <3> QED
      BY <3>1, <3>3 DEF RepositoryInv
  <2>2. ASSUME UNCHANGED repository
        PROVE  /\ Shape' /\ DOMAIN manifest'.sets = DOMAIN manifest.sets
               /\ \A i : GateAccepts(manifest.sets[i])' <=> GateAccepts(manifest.sets[i])
    <3>1. manifest' = manifest /\ files' = files
      BY <2>2 DEF repository
    <3>2. Shape'
      BY <3>1 DEF RepositoryInv, Shape
    <3>3. \A i : GateAccepts(manifest.sets[i])' <=> GateAccepts(manifest.sets[i])
      BY <3>1 DEF GateAccepts, AcceptsPending, AcceptsVendored, AcceptsPlaceholder,
                  KnownSource, ListsKnownParameters, ValidOfficialSet, ValidPlaceholderSet,
                  HashMatches, ValidAcvpFile, CountsMatch, Counts, FileOf, DigestMatches
    <3> QED
      BY <3>1, <3>2, <3>3
  <2>3. CASE StepGate
    <3>1. UNCHANGED repository
      BY <2>3 DEF StepGate
    <3>2. /\ Shape' /\ DOMAIN manifest'.sets = DOMAIN manifest.sets
          /\ \A i : GateAccepts(manifest.sets[i])' <=> GateAccepts(manifest.sets[i])
      BY <2>2, <3>1
    <3>3. ASSUME gate = "sets", gate_index \in DOMAIN manifest.sets,
                 GateAccepts(manifest.sets[gate_index]),
                 gate_index' = gate_index + 1, gate' = gate
          PROVE  GateInv'
      <4>1. \A i \in DOMAIN manifest.sets : i < gate_index + 1 => i < gate_index \/ i = gate_index
        BY InitialSets DEF RepositoryInv, GateInv, Shape
      <4>2. \A i \in DOMAIN manifest.sets : i < gate_index + 1 => GateAccepts(manifest.sets[i])
        BY <3>3, <4>1 DEF RepositoryInv, GateInv
      <4> QED
        BY <3>2, <3>3, <4>2 DEF RepositoryInv, GateInv
    <3>4. ASSUME gate_index' = gate_index, gate' \in {"sets", "failed"}
          PROVE  GateInv'
      BY <3>2, <3>4 DEF RepositoryInv, GateInv
    <3>5. ASSUME gate_index' = gate_index, gate' \in {"passed", "failed"},
                 gate = "sets", gate_index \notin DOMAIN manifest.sets
          PROVE  GateInv'
      <4>1. \A i \in DOMAIN manifest.sets : i < gate_index
        <5>1. \A i \in DOMAIN manifest.sets :
                i \in Int /\ (gate_index < i => gate_index \in DOMAIN manifest.sets)
          BY InitialSets DEF RepositoryInv, GateInv, Shape
        <5> QED
          BY <3>5, <5>1 DEF RepositoryInv, GateInv
      <4> QED
        BY <3>2, <3>5, <4>1 DEF RepositoryInv, GateInv
    <3>6. CASE GateStart
      BY <3>2, <3>4, <3>6 DEF GateStart, RepositoryInv
    <3>7. CASE GatePending
      BY <3>2, <3>3, <3>7 DEF GatePending, GateAccepts, RepositoryInv
    <3>8. CASE GateVendored
      BY <3>2, <3>3, <3>8 DEF GateVendored, GateAccepts, RepositoryInv
    <3>9. CASE GatePlaceholder
      BY <3>2, <3>3, <3>9 DEF GatePlaceholder, GateAccepts, RepositoryInv
    <3>10. CASE GateRefuse
      BY <3>2, <3>4, <3>10 DEF GateRefuse, RepositoryInv
    <3>11. CASE GateVerdict
      BY <3>2, <3>5, <3>11 DEF GateVerdict, RepositoryInv
    <3> QED
      BY <2>3, <3>6, <3>7, <3>8, <3>9, <3>10, <3>11 DEF StepGate, GateNext
  <2>4. CASE StepRunner \/ UNCHANGED vars
    <3>1. UNCHANGED repository /\ UNCHANGED gateVars
      BY <2>4 DEF StepRunner, vars
    <3> QED
      BY <2>2, <3>1 DEF RepositoryInv, GateInv, gateVars
  <2> QED
    BY <2>1, <2>3, <2>4 DEF Next
<1> QED
  BY <1>1, <1>2, PTL DEF Spec

(* A manifest the gate passes has its vendored files as they were vendored. *)
THEOREM GatePassesIntactFiles == Spec => []PassesOnlyIntactFiles
<1>1. RepositoryInv => PassesOnlyIntactFiles
  <2> SUFFICES ASSUME RepositoryInv, gate = "passed", NEW set \in Vendored
               PROVE  set.sha256 = [j \in DOMAIN set.files |->
                        <<set.files[j].role, set.files[j].file, files[set.files[j].file]>>]
    BY DEF PassesOnlyIntactFiles
  <2>1. GateAccepts(set) /\ set.kind = "official-acvp" /\ set.status = "vendored"
    BY DEF Vendored, Sets, RepositoryInv, GateInv
  <2>2. ValidOfficialSet(set)
    BY <2>1 DEF GateAccepts, AcceptsPending, AcceptsVendored, AcceptsPlaceholder
  <2>3. \A j \in DOMAIN set.files : files[set.files[j].file] = set.files[j].sha256
    BY <2>2 DEF ValidOfficialSet, HashMatches, Hash
  <2>4. set.sha256 = [j \in DOMAIN set.files |->
                        <<set.files[j].role, set.files[j].file, set.files[j].sha256>>]
    BY <2>2 DEF ValidOfficialSet, DigestMatches, Digest
  <2> QED
    BY <2>3, <2>4
<1> QED
  BY <1>1, RepositoryHolds, PTL

-----------------------------------------------------------------------------
(* How many elements of a sequence are in a set. *)
Count(s, M) == Cardinality({i \in DOMAIN s : s[i] \in M})

(* There are n numbers from 1 to n. *)
LEMMA CountUpTo ==
  ASSUME NEW n \in Nat
  PROVE  IsFiniteSet(1 .. n) /\ Cardinality(1 .. n) = n
<1>1. IsFiniteSet(1 .. n)
  BY FS_Interval
<1>2. Cardinality(1 .. n) = n
  BY FS_Interval
<1> QED
  BY <1>1, <1>2

(* The places of a sequence with an element of a set are finitely many. *)
LEMMA CountedIsFinite ==
  ASSUME NEW S, NEW s \in Seq(S), NEW M
  PROVE  IsFiniteSet({i \in DOMAIN s : s[i] \in M})
<1>1. Len(s) \in Nat /\ DOMAIN s = 1 .. Len(s)
  BY LenProperties
<1>2. IsFiniteSet(1 .. Len(s))
  BY <1>1, CountUpTo
<1>3. {i \in DOMAIN s : s[i] \in M} \in SUBSET (1 .. Len(s))
  BY <1>1
<1> QED
  BY <1>2, <1>3, FS_Subset

(* Counting goes piece by piece. *)
LEMMA CountOfConcat ==
  ASSUME NEW S, NEW a \in Seq(S), NEW b \in Seq(S), NEW M
  PROVE  Count(a \o b, M) = Count(a, M) + Count(b, M)
<1> DEFINE n == Len(a)
           k == Len(b)
           c == a \o b
           X == {i \in DOMAIN a : a[i] \in M}
           Y == {j \in DOMAIN b : b[j] \in M}
           Z == {i \in n + 1 .. n + k : c[i] \in M}
           C == {i \in DOMAIN c : c[i] \in M}
<1>1. /\ n \in Nat /\ DOMAIN a = 1 .. n /\ k \in Nat /\ DOMAIN b = 1 .. k
      /\ c \in Seq(S) /\ DOMAIN c = 1 .. n + k
      /\ \A i \in 1 .. n + k : c[i] = IF i <= n THEN a[i] ELSE b[i - n]
  BY LenProperties, ConcatProperties
<1> HIDE DEF n, k, c
<1>2. C = X \cup Z /\ X \cap Z = {}
  <2>1. \A i \in 1 .. n : i \in 1 .. n + k /\ c[i] = a[i]
    BY <1>1
  <2>2. \A i \in 1 .. n + k : i \in 1 .. n \/ i \in n + 1 .. n + k
    BY <1>1
  <2>3. \A i \in n + 1 .. n + k : i \in 1 .. n + k /\ i \notin 1 .. n
    BY <1>1
  <2> QED
    BY <1>1, <2>1, <2>2, <2>3
<1>3. IsFiniteSet(X) /\ IsFiniteSet(Y)
  BY CountedIsFinite
<1>4. IsFiniteSet(Z) /\ Cardinality(Z) = Cardinality(Y)
  <2> DEFINE f == [j \in Y |-> j + n]
  <2>1. f \in [Y -> Z]
    <3> SUFFICES ASSUME NEW j \in Y PROVE j + n \in Z
      OBVIOUS
    <3>1. j \in 1 .. k /\ b[j] \in M
      BY <1>1
    <3>2. j + n \in n + 1 .. n + k /\ j + n \in 1 .. n + k /\ ~(j + n <= n) /\ (j + n) - n = j
      BY <1>1, <3>1
    <3> QED
      BY <1>1, <3>1, <3>2
  <2>2. \A i, j \in Y : f[i] = f[j] => i = j
    BY <1>1
  <2>3. \A z \in Z : \E j \in Y : f[j] = z
    <3> TAKE z \in Z
    <3>1. z \in n + 1 .. n + k /\ c[z] \in M
      OBVIOUS
    <3>2. z - n \in 1 .. k /\ z \in 1 .. n + k /\ ~(z <= n) /\ (z - n) + n = z
      BY <1>1, <3>1
    <3>3. z - n \in Y
      BY <1>1, <3>1, <3>2
    <3> QED
      BY <3>2, <3>3
  <2> HIDE DEF f, Y, Z
  <2>4. f \in Bijection(Y, Z)
    BY <2>1, <2>2, <2>3 DEF Bijection, Injection, Surjection, IsInjective
  <2>5. ExistsBijection(Y, Z)
    BY <2>4 DEF ExistsBijection
  <2> QED
    BY <1>3, <2>5, FS_Bijection
<1>5. Count(c, M) = Cardinality(C) /\ Count(a, M) = Cardinality(X) /\ Count(b, M) = Cardinality(Y)
  BY DEF Count
<1> HIDE DEF X, Y, Z, C
<1>6. Cardinality(X \cup Z) = Cardinality(X) + Cardinality(Z) - Cardinality(X \cap Z)
  BY <1>3, <1>4, FS_Union
<1>7. Cardinality(X \cap Z) = 0 /\ Cardinality(X) \in Nat /\ Cardinality(Z) \in Nat
  BY <1>2, <1>3, <1>4, FS_EmptySet, FS_CardinalityType
<1> QED
  BY <1>2, <1>4, <1>5, <1>6, <1>7 DEF c

-----------------------------------------------------------------------------
ListsOfTests(groups) == IsList(groups) /\ \A g \in DOMAIN groups : IsList(groups[g].tests)

(* The sums CaseCount goes through. *)
LEMMA CaseCountUnfolds ==
  ASSUME NEW groups, ListsOfTests(groups)
  PROVE  \E s \in [0 .. Len(groups) -> Nat] :
           /\ CaseCount(groups) = s[Len(groups)]
           /\ s[0] = 0
           /\ \A i \in 1 .. Len(groups) : s[i] = s[i - 1] + Len(groups[i].tests)
<1> DEFINE n == Len(groups)
           step == [i \in 1 .. n |-> [v \in Nat |-> v + Len(groups[i].tests)]]
           Sum(s) == s = [i \in 0 .. Len(groups) |->
                           IF i = 0 THEN 0 ELSE s[i - 1] + Len(groups[i].tests)]
           sum == CHOOSE s : Sum(s)
<1>0. n \in Nat /\ DOMAIN groups = 1 .. n /\ \A i \in 1 .. n : Len(groups[i].tests) \in Nat
  BY Lists DEF ListsOfTests
<1>1. step \in [1 .. n -> [Nat -> Nat]]
  BY <1>0
<1>2. PICK f \in [0 .. n -> Nat] : f[0] = 0 /\ \A i \in 1 .. n : f[i] = step[i][f[i - 1]]
  <2>1. n \in Nat /\ 0 \in Nat
    BY <1>0
  <2> HIDE DEF step, n
  <2>2. \E f \in [0 .. n -> Nat] : Recursive(f, n, 0, step)
    BY <1>1, <2>1, RecursionExists
  <2> QED
    BY <2>2 DEF Recursive
<1>3. \A i \in 1 .. n : f[i] = f[i - 1] + Len(groups[i].tests)
  <2> TAKE i \in 1 .. n
  <2>1. f[i - 1] \in Nat
    <3> HIDE DEF n, step
    <3>1. i - 1 \in 0 .. n
      BY <1>0
    <3> QED
      BY <1>2, <3>1
  <2>2. step[i][f[i - 1]] = f[i - 1] + Len(groups[i].tests)
    BY <2>1
  <2> QED
    BY <1>2, <2>2
<1>4. Sum(f)
  <2>1. \A i \in 0 .. n : f[i] = IF i = 0 THEN 0 ELSE f[i - 1] + Len(groups[i].tests)
    BY <1>0, <1>2, <1>3
  <2> QED
    BY <1>2, <2>1
<1>5. Sum(sum)
  <2> HIDE DEF Sum
  <2> QED
    BY <1>4, Zenon
<1>6. CaseCount(groups) = sum[Len(groups)]
  BY Zenon DEF CaseCount
<1> HIDE DEF sum
<1>7. DOMAIN sum = 0 .. n /\ sum[0] = 0
  BY <1>0, <1>5
<1>8. \A i \in 1 .. n : sum[i] = sum[i - 1] + Len(groups[i].tests)
  BY <1>0, <1>5
<1>9. \A k \in Nat : k <= n => sum[k] = f[k]
  <2> DEFINE T == {k \in Nat : k <= n => sum[k] = f[k]}
  <2>1. 0 \in T
    BY <1>2, <1>7
  <2>2. ASSUME NEW k \in Nat, k \in T PROVE k + 1 \in T
    <3>1. SUFFICES ASSUME k + 1 <= n PROVE sum[k + 1] = f[k + 1]
      OBVIOUS
    <3>2. k + 1 \in 1 .. n /\ (k + 1) - 1 = k /\ sum[k] = f[k]
      BY <1>0, <2>2, <3>1
    <3> QED
      BY <1>3, <1>8, <3>2
  <2> HIDE DEF T
  <2>3. Nat \subseteq T
    BY <2>1, <2>2, SetInduction
  <2> QED
    BY <2>3 DEF T
<1>10. CaseCount(groups) = f[n]
  BY <1>0, <1>6, <1>9
<1> QED
  BY <1>2, <1>3, <1>10

(* The reports of one group, and all there can be for a prompt. *)
GroupReports(set, prompt, expected, g) ==
  [t \in DOMAIN prompt.groups[g].tests |->
     Report(set.id, prompt.groups[g].parameters, prompt.groups[g].id, prompt.groups[g].tests[t],
            CaseStatus(set, ExpectedCases(expected), prompt.groups[g].id,
                       prompt.groups[g].tests[t]))]

AllReports(set, prompt, expected) ==
  UNION {{GroupReports(set, prompt, expected, g)[t] : t \in DOMAIN prompt.groups[g].tests} :
           g \in DOMAIN prompt.groups}

(* A group is reported test by test. *)
LEMMA GroupReportsAreReports ==
  ASSUME NEW set, NEW prompt, NEW expected, ListsOfTests(prompt.groups),
         NEW g \in DOMAIN prompt.groups
  PROVE  /\ GroupReports(set, prompt, expected, g) \in Seq(AllReports(set, prompt, expected))
         /\ Len(GroupReports(set, prompt, expected, g)) = Len(prompt.groups[g].tests)
<1> DEFINE R == AllReports(set, prompt, expected)
           tests == prompt.groups[g].tests
           block == GroupReports(set, prompt, expected, g)
<1>1. Len(tests) \in Nat /\ DOMAIN tests = 1 .. Len(tests)
  BY Lists DEF ListsOfTests
<1>2. \A t \in DOMAIN tests : block[t] \in R
  BY DEF AllReports
<1>3. DOMAIN block = DOMAIN tests /\ block = [t \in DOMAIN tests |-> block[t]]
  BY DEF GroupReports
<1> HIDE DEF R, block, tests
<1>4. block \in [1 .. Len(tests) -> R]
  BY <1>1, <1>2, <1>3
<1>5. block \in Seq(R)
  BY <1>1, <1>4, SeqDef
<1>6. Len(block) = Len(tests)
  BY <1>1, <1>4, <1>5
<1> QED
  BY <1>5, <1>6 DEF R, block, tests

(* The concatenations CaseReports goes through. *)
LEMMA CaseReportsUnfolds ==
  ASSUME NEW set, NEW prompt, NEW expected, ListsOfTests(prompt.groups)
  PROVE  \E f \in [0 .. Len(prompt.groups) -> Seq(AllReports(set, prompt, expected))] :
           /\ CaseReports(set, prompt, expected) = f[Len(prompt.groups)]
           /\ f[0] = <<>>
           /\ \A g \in 1 .. Len(prompt.groups) :
                f[g] = f[g - 1] \o GroupReports(set, prompt, expected, g)
<1> DEFINE n == Len(prompt.groups)
           V == Seq(AllReports(set, prompt, expected))
           Block(g) == GroupReports(set, prompt, expected, g)
           step == [g \in 1 .. n |-> [v \in V |-> v \o Block(g)]]
           Flat(s) == s = [g \in 0 .. Len(prompt.groups) |->
                            IF g = 0 THEN <<>> ELSE s[g - 1] \o
             [t \in DOMAIN prompt.groups[g].tests |->
                Report(set.id, prompt.groups[g].parameters, prompt.groups[g].id,
                       prompt.groups[g].tests[t],
                       CaseStatus(set, ExpectedCases(expected), prompt.groups[g].id,
                                  prompt.groups[g].tests[t]))]]
           flat == CHOOSE s : Flat(s)
<1>0. n \in Nat /\ DOMAIN prompt.groups = 1 .. n /\ <<>> \in V
  BY Lists, EmptySeq DEF ListsOfTests
<1>1. step \in [1 .. n -> [V -> V]]
  <2>1. ASSUME NEW g \in 1 .. n, NEW v \in V PROVE v \o Block(g) \in V
    <3>1. Block(g) \in V
      BY <1>0, GroupReportsAreReports
    <3> HIDE DEF Block
    <3> QED
      BY <3>1, ConcatProperties
  <2> HIDE DEF V, Block, n
  <2> QED
    BY <2>1
<1>2. PICK f \in [0 .. n -> V] : f[0] = <<>> /\ \A g \in 1 .. n : f[g] = step[g][f[g - 1]]
  <2> HIDE DEF step, n, V
  <2>2. \E f \in [0 .. n -> V] : Recursive(f, n, <<>>, step)
    BY <1>0, <1>1, RecursionExists
  <2> QED
    BY <2>2 DEF Recursive
<1>3. \A g \in 1 .. n : f[g] = f[g - 1] \o Block(g)
  <2> TAKE g \in 1 .. n
  <2> HIDE DEF V, Block, n
  <2>1. f[g - 1] \in V
    BY <1>0, <1>2
  <2>2. step[g][f[g - 1]] = f[g - 1] \o Block(g)
    BY <2>1
  <2> QED
    BY <1>2, <2>2
<1>4. Flat(f)
  <2>1. \A g \in 0 .. n : f[g] = IF g = 0 THEN <<>> ELSE f[g - 1] \o Block(g)
    <3> HIDE DEF Block, V, n
    <3> QED
      BY <1>0, <1>2, <1>3
  <2>2. f = [g \in 0 .. n |-> IF g = 0 THEN <<>> ELSE f[g - 1] \o Block(g)]
    <3> HIDE DEF Block, V, n
    <3> QED
      BY <1>2, <2>1
  <2> QED
    BY <2>2, Zenon DEF GroupReports
<1>5. Flat(flat)
  <2> HIDE DEF Flat
  <2> QED
    BY <1>4, Zenon
<1>6. CaseReports(set, prompt, expected) = flat[Len(prompt.groups)]
  BY Zenon DEF CaseReports
<1>7. flat = [g \in 0 .. n |-> IF g = 0 THEN <<>> ELSE flat[g - 1] \o Block(g)]
  <2> HIDE DEF flat
  <2> QED
    BY <1>5, Zenon DEF GroupReports
<1> HIDE DEF flat, Block, V, Flat
<1>8. DOMAIN flat = 0 .. n /\ flat[0] = <<>>
      /\ \A g \in 1 .. n : flat[g] = flat[g - 1] \o Block(g)
  <2> DEFINE next(g) == flat[g - 1] \o Block(g)
  <2>1. flat = [g \in 0 .. n |-> IF g = 0 THEN <<>> ELSE next(g)]
    BY <1>7
  <2> HIDE DEF n, step, next
  <2>2. DOMAIN flat = 0 .. n /\ flat[0] = <<>> /\ \A g \in 1 .. n : flat[g] = next(g)
    BY <1>0, <2>1
  <2> QED
    BY <2>2 DEF next
<1>9. \A k \in Nat : k <= n => flat[k] = f[k]
  <2> DEFINE T == {k \in Nat : k <= n => flat[k] = f[k]}
  <2>1. 0 \in T
    BY <1>2, <1>8
  <2>2. ASSUME NEW k \in Nat, k \in T PROVE k + 1 \in T
    <3>1. SUFFICES ASSUME k + 1 <= n PROVE flat[k + 1] = f[k + 1]
      OBVIOUS
    <3>2. k + 1 \in 1 .. n /\ (k + 1) - 1 = k /\ flat[k] = f[k]
      BY <1>0, <2>2, <3>1
    <3> QED
      BY <1>3, <1>8, <3>2
  <2> HIDE DEF T
  <2>3. Nat \subseteq T
    BY <2>1, <2>2, SetInduction
  <2> QED
    BY <2>3 DEF T
<1>10. CaseReports(set, prompt, expected) = f[n]
  BY <1>0, <1>6, <1>9
<1> QED
  BY <1>2, <1>3, <1>10 DEF Block, V

(* Reports for a set, none of them PASSED or SKIPPED. *)
ReportsFor(set, S) ==
  \A x \in S : x.set = set.id /\ x.status \in {"PENDING", "FAILED"}

CaseByCase(set, prompt, expected) ==
  LET cases == CaseReports(set, prompt, expected) IN
  \A g \in DOMAIN prompt.groups : \A t \in DOMAIN prompt.groups[g].tests :
    \E i \in DOMAIN cases : cases[i] = GroupReports(set, prompt, expected, g)[t]

(* A vendored set is reported case by case: as many reports as its prompt has
   cases, and for each case its own. *)
LEMMA CaseReportsCoverPrompt ==
  ASSUME NEW set, NEW prompt, NEW expected, ListsOfTests(prompt.groups)
  PROVE  /\ CaseReports(set, prompt, expected) \in Seq(AllReports(set, prompt, expected))
         /\ ReportsFor(set, AllReports(set, prompt, expected))
         /\ Len(CaseReports(set, prompt, expected)) = CaseCount(prompt.groups)
         /\ CaseByCase(set, prompt, expected)
<1> DEFINE groups == prompt.groups
           n == Len(groups)
           R == AllReports(set, prompt, expected)
           Block(g) == GroupReports(set, prompt, expected, g)
           all == CaseReports(set, prompt, expected)
<1>1. n \in Nat /\ DOMAIN groups = 1 .. n
  BY Lists DEF ListsOfTests
<1>2. PICK f \in [0 .. n -> Seq(R)] : /\ all = f[n] /\ f[0] = <<>>
                                      /\ \A g \in 1 .. n : f[g] = f[g - 1] \o Block(g)
  BY CaseReportsUnfolds
<1>3. PICK s \in [0 .. n -> Nat] : /\ CaseCount(groups) = s[n] /\ s[0] = 0
                                   /\ \A g \in 1 .. n : s[g] = s[g - 1] + Len(groups[g].tests)
  BY CaseCountUnfolds
<1>4. ASSUME NEW g \in 1 .. n
      PROVE  Block(g) \in Seq(R) /\ Len(Block(g)) = Len(groups[g].tests)
  BY <1>1, GroupReportsAreReports
<1>5. ReportsFor(set, R)
  <2> SUFFICES ASSUME NEW g \in DOMAIN groups, NEW t \in DOMAIN groups[g].tests
               PROVE  Block(g)[t].set = set.id /\ Block(g)[t].status \in {"PENDING", "FAILED"}
    BY DEF ReportsFor, AllReports
  <2> DEFINE status == CaseStatus(set, ExpectedCases(expected), groups[g].id, groups[g].tests[t])
  <2>1. Block(g)[t] = Report(set.id, groups[g].parameters, groups[g].id, groups[g].tests[t], status)
    BY DEF GroupReports
  <2>2. status \in {"PENDING", "FAILED"}
    BY DEF CaseStatus, RustAlgorithmAvailable
  <2> HIDE DEF status, Block, groups
  <2> QED
    BY <2>1, <2>2 DEF Report
<1> HIDE DEF Block, R, n, all
<1>6. \A k \in Nat : k <= n =>
        /\ Len(f[k]) = s[k]
        /\ \A g \in 1 .. k : \A t \in 1 .. Len(Block(g)) :
             \E i \in 1 .. Len(f[k]) : f[k][i] = Block(g)[t]
  <2> DEFINE Q(k) == /\ Len(f[k]) = s[k]
                     /\ \A g \in 1 .. k : \A t \in 1 .. Len(Block(g)) :
                          \E i \in 1 .. Len(f[k]) : f[k][i] = Block(g)[t]
             T == {k \in Nat : k <= n => Q(k)}
  <2>1. 0 \in T
    BY <1>2, <1>3, EmptySeq
  <2>2. ASSUME NEW k \in Nat, k \in T PROVE k + 1 \in T
    <3> SUFFICES ASSUME k + 1 <= n PROVE Q(k + 1)
      OBVIOUS
    <3> DEFINE j == k + 1
               a == f[k]
               b == Block(j)
               c == f[j]
    <3>1. j \in 1 .. n /\ k \in 0 .. n /\ j - 1 = k /\ Q(k)
      BY <1>1, <2>2
    <3>2. c = a \o b /\ a \in Seq(R) /\ b \in Seq(R) /\ Len(b) = Len(groups[j].tests)
          /\ s[j] = s[k] + Len(groups[j].tests)
      BY <1>2, <1>3, <1>4, <3>1
    <3>3. Len(a) = s[k] /\ \A g \in 1 .. k : \A t \in 1 .. Len(Block(g)) :
                              \E i \in 1 .. Len(a) : a[i] = Block(g)[t]
      BY <3>1
    <3> HIDE DEF j, a, b, c, Q
    <3>4. /\ Len(c) = Len(a) + Len(b) /\ Len(a) \in Nat /\ Len(b) \in Nat
          /\ \A i \in 1 .. Len(a) + Len(b) : c[i] = IF i <= Len(a) THEN a[i] ELSE b[i - Len(a)]
      <4>1. a \in Seq(R) /\ b \in Seq(R)
        BY <3>2
      <4>2. Len(a) \in Nat /\ Len(b) \in Nat
        BY <4>1, LenProperties
      <4>3. /\ Len(a \o b) = Len(a) + Len(b)
            /\ \A i \in 1 .. Len(a) + Len(b) :
                 (a \o b)[i] = IF i <= Len(a) THEN a[i] ELSE b[i - Len(a)]
        BY <4>1, ConcatProperties
      <4>4. c = a \o b
        BY <3>2
      <4> QED
        BY <4>2, <4>3, <4>4
    <3>5. Len(c) = s[j]
      BY <3>2, <3>3, <3>4
    <3>6. ASSUME NEW g \in 1 .. k, NEW t \in 1 .. Len(Block(g))
          PROVE  \E i \in 1 .. Len(c) : c[i] = Block(g)[t]
      <4>1. PICK i \in 1 .. Len(a) : a[i] = Block(g)[t]
        BY <3>3
      <4>2. i \in 1 .. Len(c) /\ c[i] = a[i]
        BY <3>4
      <4> QED
        BY <4>1, <4>2
    <3>7. ASSUME NEW t \in 1 .. Len(b)
          PROVE  \E i \in 1 .. Len(c) : c[i] = b[t]
      <4> DEFINE i == Len(a) + t
      <4>1. i \in 1 .. Len(c) /\ ~(i <= Len(a)) /\ i - Len(a) = t
        BY <3>4
      <4>2. c[i] = b[t]
        BY <3>4, <4>1
      <4> QED
        BY <4>1, <4>2
    <3>8. ASSUME NEW g \in 1 .. j, NEW t \in 1 .. Len(Block(g))
          PROVE  \E i \in 1 .. Len(c) : c[i] = Block(g)[t]
      <4>1. CASE g = j
        BY <3>7, <3>8, <4>1 DEF b
      <4>2. CASE g # j
        <5>1. g \in 1 .. k
          BY <3>8, <4>2 DEF j
        <5> QED
          BY <3>6, <5>1
      <4> QED
        BY <4>1, <4>2
    <3> QED
      BY <3>5, <3>8 DEF Q, c, j
  <2> HIDE DEF T, Q
  <2>3. Nat \subseteq T
    BY <2>1, <2>2, SetInduction
  <2> QED
    BY <2>3 DEF T, Q
<1>7. all \in Seq(R) /\ Len(all) = CaseCount(groups)
  BY <1>1, <1>2, <1>3, <1>6
<1>8. ASSUME NEW g \in DOMAIN groups, NEW t \in DOMAIN groups[g].tests
      PROVE  \E i \in DOMAIN all : all[i] = Block(g)[t]
  <2>1. DOMAIN groups[g].tests = 1 .. Len(groups[g].tests)
    BY <1>8, Lists DEF ListsOfTests
  <2>2. g \in 1 .. n /\ t \in 1 .. Len(Block(g))
    BY <1>1, <1>4, <2>1
  <2>3. PICK i \in 1 .. Len(all) : all[i] = Block(g)[t]
    <3> HIDE DEF groups
    <3>1. n \in Nat /\ n <= n
      BY <1>1
    <3>2. \A h \in 1 .. n : \A u \in 1 .. Len(Block(h)) :
            \E i \in 1 .. Len(f[n]) : f[n][i] = Block(h)[u]
      BY <1>6, <3>1
    <3> QED
      BY <1>2, <2>2, <3>2
  <2>4. i \in DOMAIN all
    BY <1>7, <2>3, LenProperties
  <2> QED
    BY <2>3, <2>4
<1>9. CaseByCase(set, prompt, expected)
  BY <1>8 DEF CaseByCase, all, Block
<1> QED
  BY <1>5, <1>7, <1>9 DEF all, R

-----------------------------------------------------------------------------
(* Files found under a role, by the runner (the first) and by the gate. *)
LEMMA FileIsFound ==
  ASSUME NEW set, IsList(set.files), NEW role, HasRole(set, role)
  PROVE  \E j \in DOMAIN set.files :
           set.files[j].role = role /\ FileWithRole(set, role) = files[set.files[j].file]
<1> DEFINE f == set.files
           First(j) == f[j].role = role /\ \A h \in 1 .. j - 1 : f[h].role # role
           T == {i \in DOMAIN f : f[i].role = role}
           j == CHOOSE i \in DOMAIN f : First(i)
<1>1. DOMAIN f = 1 .. Len(f) /\ Len(f) \in Nat
  BY Lists
<1>2. T \subseteq Nat /\ T # {}
  BY <1>1 DEF HasRole
<1>3. PICK i \in T : \A h \in T : i <= h
  <2> HIDE DEF T
  <2> QED
    BY <1>2, LeastNumber
<1>4. i \in DOMAIN f /\ First(i)
  BY <1>1, <1>3
<1>5. j \in DOMAIN f /\ First(j)
  <2> HIDE DEF First, f
  <2> QED
    BY <1>4, Zenon
<1>6. FileWithRole(set, role) = files[f[j].file]
  BY Zenon DEF FileWithRole
<1> HIDE DEF j
<1> QED
  BY <1>5, <1>6

(* A file the runner can parse has lists of tests. *)
LEMMA FilesFound ==
  ASSUME Shape, NEW i \in DOMAIN manifest.sets, NEW role, HasRole(manifest.sets[i], role),
         FileWithRole(manifest.sets[i], role).json
  PROVE  ListsOfTests(FileWithRole(manifest.sets[i], role).groups)
<1> DEFINE set == manifest.sets[i]
           c == FileWithRole(set, role)
<1>1. WellFormedSet(set)
  BY DEF Shape
<1>2. PICK j \in DOMAIN set.files : c = files[set.files[j].file]
  BY <1>1, FileIsFound DEF WellFormedSet
<1>3. set.files[j].file \in FileNames
  BY <1>1 DEF WellFormedSet
<1> HIDE DEF set, c
<1>4. c \in Contents \cup {Absent}
  BY <1>2, <1>3 DEF Shape
<1>5. c.json
  BY DEF c, set
<1>6. c # Absent
  BY <1>5 DEF Absent
<1>7. c \in Contents
  BY <1>4, <1>6
<1>8. ListsOfTests(c.groups)
  BY <1>5, <1>7, ManifestAssumption DEF ListsOfTests
<1> QED
  BY <1>8 DEF c, set

(* A pending set is reported parameter set by parameter set, always PENDING. *)
LEMMA PendingSetIsReported ==
  ASSUME NEW set, IsList(set.parameters)
  PROVE  \E S : PendingReports(set) \in Seq(S) /\ ReportsFor(set, S)
<1> DEFINE n == Len(set.parameters)
           S == {Report(set.id, set.parameters[i], "pending", "pending", "PENDING") : i \in 1 .. n}
           r == PendingReports(set)
<1>1. n \in Nat /\ DOMAIN set.parameters = 1 .. n
  BY Lists
<1>2. r = [i \in 1 .. n |-> Report(set.id, set.parameters[i], "pending", "pending", "PENDING")]
  BY <1>1 DEF PendingReports
<1>3. ReportsFor(set, S)
  BY DEF ReportsFor, Report
<1> HIDE DEF n, r
<1>4. r \in [1 .. n -> S]
  BY <1>2
<1> HIDE DEF S
<1>5. r \in Seq(S)
  BY <1>1, <1>4, SeqDef
<1> QED
  BY <1>3, <1>5 DEF r

(* A placeholder file is reported case by case. *)
LEMMA PlaceholderIsReported ==
  ASSUME NEW set, NEW content, IsList(content.cases)
  PROVE  \E S : PlaceholderReports(set, content) \in Seq(S) /\ ReportsFor(set, S)
<1> DEFINE n == Len(content.cases)
           R(i) == Report(set.id, content.cases[i].parameters, "placeholder", content.cases[i].id,
                          PlaceholderStatus(content.cases[i]))
           S == {R(i) : i \in 1 .. n}
           r == PlaceholderReports(set, content)
<1>1. n \in Nat /\ DOMAIN content.cases = 1 .. n
  BY Lists
<1>2. r = [i \in 1 .. n |-> R(i)]
  BY <1>1 DEF PlaceholderReports
<1>3. \A i \in 1 .. n : R(i).set = set.id /\ R(i).status \in {"PENDING", "FAILED"}
  BY DEF Report, PlaceholderStatus
<1> HIDE DEF n, r, R
<1>4. ReportsFor(set, S)
  BY <1>3 DEF ReportsFor
<1>5. r \in [1 .. n -> S]
  BY <1>2
<1> HIDE DEF S
<1>6. r \in Seq(S)
  BY <1>1, <1>5, SeqDef
<1> QED
  BY <1>4, <1>6 DEF r

(* A set the runner meets no error on is reported under its own id. *)
LEMMA RunnableSetIsReported ==
  ASSUME Shape, NEW i \in DOMAIN manifest.sets, Runnable(manifest.sets[i])
  PROVE  \E S : ReportsOf(manifest.sets[i]) \in Seq(S) /\ ReportsFor(manifest.sets[i], S)
<1> DEFINE set == manifest.sets[i]
           r == ReportsOf(set)
<1>1. WellFormedSet(set)
  BY DEF Shape
<1>2. CASE set.kind = "repository-placeholder"
  <2> DEFINE c == files[set.file]
  <2>1. r = PlaceholderReports(set, c)
    BY <1>2 DEF ReportsOf
  <2>2. c.json
    BY <1>2 DEF Runnable
  <2>3. c \in Contents \cup {Absent} /\ c # Absent
    <3>1. set.file \in FileNames
      BY <1>1, <1>2 DEF WellFormedSet
    <3>2. c # Absent
      BY <2>2 DEF Absent
    <3> QED
      BY <3>1, <3>2 DEF Shape
  <2> HIDE DEF c
  <2>4. IsList(c.cases)
    BY <2>2, <2>3, ManifestAssumption
  <2> QED
    BY <2>1, <2>4, PlaceholderIsReported
<1>3. CASE set.kind # "repository-placeholder" /\ set.status = "pending"
  <2>1. r = PendingReports(set)
    BY <1>3 DEF ReportsOf
  <2>2. IsList(set.parameters)
    BY <1>1 DEF WellFormedSet
  <2> QED
    BY <2>1, <2>2, PendingSetIsReported
<1>4. CASE set.kind # "repository-placeholder" /\ set.status # "pending"
  <2> DEFINE prompt == FileWithRole(set, "prompt")
             expected == FileWithRole(set, "expectedResults")
  <2>1. r = CaseReports(set, prompt, expected)
    BY <1>4 DEF ReportsOf
  <2>2. RunnableVendored(set)
    BY <1>4 DEF Runnable
  <2>3. HasRole(set, "prompt") /\ prompt.json
    BY <2>2 DEF RunnableVendored, ReadsAcvp
  <2>4. ListsOfTests(prompt.groups)
    BY <2>3, FilesFound
  <2> HIDE DEF prompt, expected, r, set
  <2>5. r \in Seq(AllReports(set, prompt, expected))
        /\ ReportsFor(set, AllReports(set, prompt, expected))
    BY <2>1, <2>4, CaseReportsCoverPrompt
  <2> QED
    BY <2>5 DEF r, set
<1> QED
  BY <1>2, <1>3, <1>4

-----------------------------------------------------------------------------
(* Reports picked from a list, by what they say. *)
OfStatus(s, status) == {i \in DOMAIN s : s[i].status = status}
OfBoth(s, id, status) == {i \in DOMAIN s : s[i].set = id /\ s[i].status = status}

(* The counts of a list of reports. *)
LEMMA CountsAreNatural ==
  ASSUME NEW s, IsList(s), NEW id, NEW status
  PROVE  /\ Cardinality(OfStatus(s, status)) \in Nat
         /\ Cardinality(OfBoth(s, id, status)) \in Nat
         /\ Cardinality(OfStatus(s, status)) = 0 <=> \A i \in DOMAIN s : s[i].status # status
<1> DEFINE D == 1 .. Len(s)
<1>1. DOMAIN s = D /\ Len(s) \in Nat
  BY Lists
<1>2. IsFiniteSet(D)
  BY <1>1, CountUpTo
<1>3. ASSUME NEW X \in SUBSET D
      PROVE  Cardinality(X) \in Nat /\ (Cardinality(X) = 0 <=> X = {})
  <2>1. IsFiniteSet(X)
    BY <1>2, FS_Subset
  <2> QED
    BY <2>1, FS_CardinalityType, FS_EmptySet
<1> HIDE DEF D
<1>4. OfStatus(s, status) \in SUBSET D /\ OfBoth(s, id, status) \in SUBSET D
  BY <1>1 DEF OfStatus, OfBoth
<1>5. OfStatus(s, status) = {} <=> \A i \in DOMAIN s : s[i].status # status
  BY DEF OfStatus
<1> QED
  BY <1>3, <1>4, <1>5

(* The counts of two lists of reports add up. *)
LEMMA CountsAdd ==
  ASSUME NEW S, NEW a \in Seq(S), NEW b \in Seq(S), NEW id, NEW status
  PROVE  /\ Cardinality(OfStatus(a \o b, status))
              = Cardinality(OfStatus(a, status)) + Cardinality(OfStatus(b, status))
         /\ Cardinality(OfBoth(a \o b, id, status))
              = Cardinality(OfBoth(a, id, status)) + Cardinality(OfBoth(b, id, status))
<1> DEFINE c == a \o b
           M1 == {x \in S : x.status = status}
           M2 == {x \in S : x.set = id /\ x.status = status}
<1>1. c \in Seq(S)
  BY ConcatProperties
<1> HIDE DEF c
<1>2. ASSUME NEW s \in Seq(S)
      PROVE  /\ Cardinality(OfStatus(s, status)) = Count(s, M1)
             /\ Cardinality(OfBoth(s, id, status)) = Count(s, M2)
  <2>1. \A i \in DOMAIN s : s[i] \in S
    OBVIOUS
  <2>2. /\ OfStatus(s, status) = {i \in DOMAIN s : s[i] \in M1}
        /\ OfBoth(s, id, status) = {i \in DOMAIN s : s[i] \in M2}
    BY <2>1 DEF OfStatus, OfBoth
  <2> QED
    BY <2>2 DEF Count
<1> HIDE DEF M1, M2
<1>3. /\ Count(c, M1) = Count(a, M1) + Count(b, M1)
      /\ Count(c, M2) = Count(a, M2) + Count(b, M2)
  BY CountOfConcat DEF c
<1>4. /\ Cardinality(OfStatus(c, status)) = Count(c, M1)
      /\ Cardinality(OfBoth(c, id, status)) = Count(c, M2)
  BY <1>1, <1>2
<1> QED
  BY <1>2, <1>3, <1>4 DEF c

(* Of reports that are all of one set, and of reports that are none of a set's. *)
LEMMA CountsOfOneSet ==
  ASSUME NEW s, IsList(s), NEW id, NEW status
  PROVE  /\ (\A i \in DOMAIN s : s[i].set = id) =>
              Cardinality(OfBoth(s, id, status)) = Cardinality(OfStatus(s, status))
         /\ (\A i \in DOMAIN s : s[i].set # id) =>
              Cardinality(OfBoth(s, id, status)) = 0
<1>1. Cardinality({}) = 0
  BY FS_EmptySet
<1>2. ASSUME \A i \in DOMAIN s : s[i].set = id
      PROVE  OfBoth(s, id, status) = OfStatus(s, status)
  BY <1>2 DEF OfBoth, OfStatus
<1>3. ASSUME \A i \in DOMAIN s : s[i].set # id
      PROVE  OfBoth(s, id, status) = {}
  BY <1>3 DEF OfBoth
<1> QED
  BY <1>1, <1>2, <1>3

(* Reports that are PENDING or FAILED are as many as both together. *)
LEMMA StatusesAddUp ==
  ASSUME NEW s, IsList(s), \A i \in DOMAIN s : s[i].status \in {"PENDING", "FAILED"}
  PROVE  Cardinality(OfStatus(s, "PASSED")) + Cardinality(OfStatus(s, "PENDING"))
           + Cardinality(OfStatus(s, "SKIPPED")) + Cardinality(OfStatus(s, "FAILED")) = Len(s)
<1> DEFINE P == OfStatus(s, "PENDING")
           F == OfStatus(s, "FAILED")
<1>1. Len(s) \in Nat /\ DOMAIN s = 1 .. Len(s)
  BY Lists
<1>2. IsFiniteSet(1 .. Len(s)) /\ Cardinality(1 .. Len(s)) = Len(s)
  BY <1>1, CountUpTo
<1>3. P \cup F = 1 .. Len(s) /\ P \cap F = {}
  BY <1>1 DEF OfStatus
<1>4. Cardinality(OfStatus(s, "PASSED")) = 0 /\ Cardinality(OfStatus(s, "SKIPPED")) = 0
  <2>1. OfStatus(s, "PASSED") = {} /\ OfStatus(s, "SKIPPED") = {}
    BY DEF OfStatus
  <2> QED
    BY <2>1, FS_EmptySet
<1> HIDE DEF P, F
<1>5. IsFiniteSet(P) /\ IsFiniteSet(F)
  <2>1. P \in SUBSET (1 .. Len(s)) /\ F \in SUBSET (1 .. Len(s))
    BY <1>3
  <2> QED
    BY <1>2, <2>1, FS_Subset
<1>6. Cardinality(P \cup F) = Cardinality(P) + Cardinality(F) - Cardinality(P \cap F)
  BY <1>5, FS_Union
<1>7. Cardinality(P \cap F) = 0 /\ Cardinality(P) \in Nat /\ Cardinality(F) \in Nat
  BY <1>3, <1>5, FS_EmptySet, FS_CardinalityType
<1>8. Cardinality(P) + Cardinality(F) = Len(s)
  <2>1. Cardinality(P \cup F) = Len(s)
    BY <1>2, <1>3, Zenon
  <2> QED
    BY <1>6, <1>7, <2>1
<1> USE DEF P, F
<1> QED
  BY <1>4, <1>7, <1>8

-----------------------------------------------------------------------------
(* No other set has the id of set i. *)
OwnId(i) == \A h \in DOMAIN manifest.sets : manifest.sets[h].id = manifest.sets[i].id => h = i

(* What the reports hold of a set the runner went past. *)
SetReported(i) ==
  LET set == manifest.sets[i]
      cases == ReportsOf(set) IN
  /\ Runnable(set)
  /\ \A s \in Statuses : set_summaries[i][s] = Cardinality(OfStatus(cases, s))
  /\ OwnId(i) => \A s \in Statuses :
       Cardinality(OfBoth(reports, set.id, s)) = Cardinality(OfStatus(cases, s))
  /\ \A k \in DOMAIN cases : \E j \in DOMAIN reports : reports[j] = cases[k]

ReportKnown(j) ==
  /\ reports[j].status \in {"PENDING", "FAILED"}
  /\ \E i \in DOMAIN manifest.sets : i < runner_index /\ reports[j].set = manifest.sets[i].id

(* The manifest is read, and so are its sources. *)
HeadRead ==
  /\ ReadsManifest /\ manifest.schema_version = "1" /\ manifest.sources # <<>>
  /\ \A i, j \in DOMAIN manifest.sources : manifest.sources[i] = manifest.sources[j] => i = j

RunnerInv ==
  /\ runner_index \in Nat \ {0} /\ runner_index <= Len(InitialManifest.sets) + 1
  /\ runner \in {"idle", "sets", "error", "ok", "failures"}
  /\ runner = "idle" => runner_index = 1 /\ reports = <<>>
  /\ runner \in {"sets", "ok", "failures"} => HeadRead
  /\ IsList(reports) /\ IsList(set_summaries) /\ Len(set_summaries) = runner_index - 1
  /\ DOMAIN summary = Statuses
  /\ \A s \in Statuses : summary[s] = Cardinality(OfStatus(reports, s))
  /\ \A i \in DOMAIN manifest.sets : i < runner_index => SetReported(i)
  /\ \A j \in DOMAIN reports : ReportKnown(j)
  /\ runner \in {"ok", "failures"} =>
       /\ runner_index = Len(InitialManifest.sets) + 1
       /\ runner = "ok" <=> \A j \in DOMAIN reports : reports[j].status # "FAILED"
  /\ runner = "error" => ~HeadRead \/ \E i \in DOMAIN manifest.sets : ~Runnable(manifest.sets[i])

(* The runner has reported nothing at first. *)
LEMMA RunnerInvInit == Init => RunnerInv
<1> SUFFICES ASSUME Init PROVE RunnerInv
  OBVIOUS
<1>1. /\ runner = "idle" /\ runner_index = 1 /\ reports = <<>>
      /\ set_summaries = <<>> /\ summary = [s \in Statuses |-> 0]
      /\ manifest = InitialManifest
  BY DEF Init, RunnerInit, NoReports, RepositoryInit
<1>2. <<>> \in Seq({}) /\ Len(<<>>) = 0 /\ DOMAIN <<>> = {}
  BY EmptySeq
<1>3. IsList(<<>>)
  BY <1>2, SequencesAreLists
<1>4. \A s \in Statuses : Cardinality(OfStatus(<<>>, s)) = 0
  BY <1>2, <1>3, CountsAreNatural
<1>5. \A i \in DOMAIN manifest.sets : ~(i < runner_index)
  BY <1>1, InitialSets
<1>6. Len(InitialManifest.sets) \in Nat
  BY InitialSets
<1> QED
  BY <1>1, <1>2, <1>3, <1>4, <1>5, <1>6 DEF RunnerInv

(* The step of a set: its reports join those of the sets before it. *)
LEMMA RunSetKeeps == Shape /\ RunnerInv /\ RunSet /\ UNCHANGED repository => RunnerInv'
<1> SUFFICES ASSUME Shape, RunnerInv, RunSet, UNCHANGED repository
             PROVE  RunnerInv'
  OBVIOUS
<1> DEFINE last == Len(InitialManifest.sets)
<1>0. PICK n, set, cases, old, new : /\ n = runner_index /\ set = manifest.sets[n]
                                     /\ cases = ReportsOf(set)
                                     /\ old = reports /\ new = reports'
  OBVIOUS
<1>1. manifest' = manifest /\ files' = files
  BY DEF repository
<1>2. /\ runner = "sets" /\ runner' = runner /\ n \in DOMAIN manifest.sets /\ Runnable(set)
      /\ new = old \o cases /\ set_summaries' = Append(set_summaries, Tally(cases))
      /\ runner_index' = n + 1 /\ summary' = SummaryExtended(cases)
  BY <1>0 DEF RunSet
<1>3. n \in Nat \ {0} /\ last \in Nat /\ DOMAIN manifest.sets = 1 .. last /\ n <= last
  BY <1>0, <1>2, InitialSets DEF RunnerInv, Shape
<1>4. PICK T : cases \in Seq(T) /\ ReportsFor(set, T)
  BY <1>0, <1>2, RunnableSetIsReported
<1>5. IsList(cases) /\ \A k \in DOMAIN cases :
        cases[k].set = set.id /\ cases[k].status \in {"PENDING", "FAILED"}
  <2>1. IsList(cases)
    BY <1>4, SequencesAreLists
  <2>2. \A k \in DOMAIN cases : cases[k] \in T
    BY <1>4
  <2> QED
    BY <1>4, <2>1, <2>2 DEF ReportsFor
<1>6. HeadRead /\ (HeadRead' <=> HeadRead)
  BY <1>1, <1>2 DEF RunnerInv, HeadRead, ReadsManifest
<1>7. \E S : old \in Seq(S) /\ cases \in Seq(S)
  <2> DEFINE A == {old[j] : j \in DOMAIN old}
             S == A \cup T
  <2>1. old \in Seq(A)
    BY <1>0 DEF RunnerInv, IsList
  <2>2. A \subseteq S /\ T \subseteq S
    OBVIOUS
  <2> HIDE DEF A, S
  <2>3. old \in Seq(S) /\ cases \in Seq(S)
    BY <1>4, <2>1, <2>2
  <2> QED
    BY <2>3
<1>8. PICK S : old \in Seq(S) /\ cases \in Seq(S)
  BY <1>7
<1> HIDE DEF last
<1>9. /\ new \in Seq(S) /\ Len(old) \in Nat /\ Len(cases) \in Nat
      /\ DOMAIN old = 1 .. Len(old) /\ DOMAIN cases = 1 .. Len(cases)
      /\ Len(new) = Len(old) + Len(cases) /\ DOMAIN new = 1 .. Len(old) + Len(cases)
      /\ \A i \in 1 .. Len(old) + Len(cases) :
           new[i] = IF i <= Len(old) THEN old[i] ELSE cases[i - Len(old)]
  BY <1>2, <1>8, ConcatProperties, LenProperties
<1>10. /\ \A j \in DOMAIN old : j \in DOMAIN new /\ new[j] = old[j]
       /\ \A k \in DOMAIN cases : \E j \in DOMAIN new : new[j] = cases[k]
       /\ \A j \in DOMAIN new : j \in DOMAIN old \/ \E k \in DOMAIN cases : new[j] = cases[k]
  <2>1. \A j \in DOMAIN old : j \in DOMAIN new /\ new[j] = old[j]
    BY <1>9
  <2>2. ASSUME NEW k \in DOMAIN cases
        PROVE  \E j \in DOMAIN new : new[j] = cases[k]
    <3> DEFINE j == Len(old) + k
    <3>1. j \in 1 .. Len(old) + Len(cases) /\ ~(j <= Len(old)) /\ j - Len(old) = k
      BY <1>9
    <3> QED
      BY <1>9, <3>1
  <2>3. ASSUME NEW j \in DOMAIN new, j \notin DOMAIN old
        PROVE  \E k \in DOMAIN cases : new[j] = cases[k]
    <3> DEFINE k == j - Len(old)
    <3>1. k \in 1 .. Len(cases) /\ ~(j <= Len(old)) /\ j \in 1 .. Len(old) + Len(cases)
      BY <1>9, <2>3
    <3> QED
      BY <1>9, <3>1
  <2> QED
    BY <2>1, <2>2, <2>3
<1>11. \A id, s : /\ Cardinality(OfStatus(new, s))
                       = Cardinality(OfStatus(old, s)) + Cardinality(OfStatus(cases, s))
                  /\ Cardinality(OfBoth(new, id, s))
                       = Cardinality(OfBoth(old, id, s)) + Cardinality(OfBoth(cases, id, s))
  BY <1>2, <1>8, CountsAdd
<1>12. IsList(old) /\ \A id, s : /\ Cardinality(OfStatus(old, s)) \in Nat
                                 /\ Cardinality(OfBoth(old, id, s)) \in Nat
                                 /\ Cardinality(OfStatus(cases, s)) \in Nat
  <2>1. IsList(old)
    BY <1>0 DEF RunnerInv
  <2> QED
    BY <1>5, <2>1, CountsAreNatural
<1>13. /\ IsList(set_summaries') /\ Len(set_summaries') = n
       /\ \A i \in 1 .. n - 1 : set_summaries'[i] = set_summaries[i]
       /\ set_summaries'[n] = Tally(cases)
  <2> DEFINE A == {set_summaries[j] : j \in DOMAIN set_summaries}
             B == A \cup {Tally(cases)}
  <2>1. set_summaries \in Seq(A) /\ A \subseteq B /\ Tally(cases) \in B
        /\ Len(set_summaries) = n - 1
    BY <1>0 DEF RunnerInv, IsList
  <2> HIDE DEF A, B
  <2>2. set_summaries \in Seq(B)
    BY <2>1
  <2>3. /\ set_summaries' \in Seq(B) /\ Len(set_summaries') = Len(set_summaries) + 1
        /\ \A i \in 1 .. Len(set_summaries) : set_summaries'[i] = set_summaries[i]
        /\ set_summaries'[Len(set_summaries) + 1] = Tally(cases)
    BY <1>2, <2>1, <2>2, AppendProperties
  <2>4. IsList(set_summaries')
    BY <2>3, SequencesAreLists
  <2>5. (n - 1) + 1 = n
    BY <1>3
  <2> QED
    BY <2>1, <2>3, <2>4, <2>5
<1>14. \A s \in Statuses : Tally(cases)[s] = Cardinality(OfStatus(cases, s))
  BY DEF Tally, OfStatus
<1>15. \A i \in DOMAIN manifest.sets :
         /\ manifest'.sets[i] = manifest.sets[i]
         /\ ReportsOf(manifest.sets[i])' = ReportsOf(manifest.sets[i])
         /\ Runnable(manifest.sets[i])' <=> Runnable(manifest.sets[i])
  BY <1>1 DEF ReportsOf, Runnable, RunnableVendored, HasRole, FileWithRole,
       ListsKnownParameters, KnownSource, ReadsAcvp, CaseReports, CaseStatus, PlaceholderReports,
       PlaceholderStatus, PendingReports, ExpectedCases
<1>16. ASSUME NEW i \in DOMAIN manifest.sets, i < n
       PROVE  SetReported(i)'
  <2> DEFINE id == manifest.sets[i].id
             r == ReportsOf(manifest.sets[i])
  <2>1. /\ Runnable(manifest.sets[i])
        /\ \A s \in Statuses : set_summaries[i][s] = Cardinality(OfStatus(r, s))
        /\ OwnId(i) => \A s \in Statuses :
             Cardinality(OfBoth(old, id, s)) = Cardinality(OfStatus(r, s))
        /\ \A k \in DOMAIN r : \E j \in DOMAIN old : old[j] = r[k]
    BY <1>0, <1>16 DEF RunnerInv, SetReported
  <2>2. ASSUME OwnId(i)
        PROVE  \A s : Cardinality(OfBoth(new, id, s)) = Cardinality(OfBoth(old, id, s))
    <3>1. id # set.id
      <4>1. n \in DOMAIN manifest.sets /\ n # i
        BY <1>2, <1>3, <1>16
      <4>2. manifest.sets[n].id # manifest.sets[i].id
        BY <2>2, <4>1 DEF OwnId
      <4> QED
        BY <1>0, <4>2
    <3> HIDE DEF id
    <3>2. \A k \in DOMAIN cases : cases[k].set # id
      BY <1>5, <3>1
    <3>3. \A s : Cardinality(OfBoth(cases, id, s)) = 0
      BY <1>5, <3>2, CountsOfOneSet
    <3> QED
      BY <1>11, <1>12, <3>3
  <2>3. OwnId(i)' <=> OwnId(i)
    BY <1>1 DEF OwnId
  <2>4. manifest'.sets[i].id = id /\ ReportsOf(manifest.sets[i])' = r
        /\ Runnable(manifest.sets[i])'
    BY <1>15, <2>1
  <2>5. set_summaries'[i] = set_summaries[i]
    BY <1>3, <1>13, <1>16
  <2> HIDE DEF r, id
  <2>6. \A k \in DOMAIN r : \E j \in DOMAIN new : new[j] = r[k]
    BY <1>10, <2>1
  <2> QED
    BY <1>0, <2>1, <2>2, <2>3, <2>4, <2>5, <2>6 DEF SetReported
<1>17. SetReported(n)'
  <2>1. \A s : Cardinality(OfBoth(cases, set.id, s)) = Cardinality(OfStatus(cases, s))
    BY <1>5, CountsOfOneSet
  <2>2. ASSUME OwnId(n)
        PROVE  \A s : Cardinality(OfBoth(new, set.id, s)) = Cardinality(OfStatus(cases, s))
    <3>1. \A j \in DOMAIN old : old[j].set # set.id
      <4> TAKE j \in DOMAIN old
      <4>1. PICK i \in DOMAIN manifest.sets : i < n /\ old[j].set = manifest.sets[i].id
        BY <1>0 DEF RunnerInv, ReportKnown
      <4> QED
        BY <1>0, <1>3, <2>2, <4>1 DEF OwnId
    <3>2. \A s : Cardinality(OfBoth(old, set.id, s)) = 0
      BY <1>12, <3>1, CountsOfOneSet
    <3> QED
      BY <1>11, <1>12, <2>1, <3>2
  <2>3. OwnId(n)' <=> OwnId(n)
    BY <1>1 DEF OwnId
  <2>4. manifest'.sets[n] = set /\ ReportsOf(manifest.sets[n])' = cases
        /\ Runnable(manifest.sets[n])'
    BY <1>0, <1>2, <1>15
  <2> QED
    BY <1>0, <1>10, <1>13, <1>14, <2>2, <2>3, <2>4 DEF SetReported
<1>18. ASSUME NEW j \in DOMAIN new
       PROVE  ReportKnown(j)'
  <2>1. /\ new[j].status \in {"PENDING", "FAILED"}
        /\ \E i \in DOMAIN manifest.sets : i < n + 1 /\ new[j].set = manifest.sets[i].id
    <3>1. CASE j \in DOMAIN old
      <4>1. /\ old[j].status \in {"PENDING", "FAILED"}
            /\ \E i \in DOMAIN manifest.sets : i < n /\ old[j].set = manifest.sets[i].id
        BY <1>0, <3>1 DEF RunnerInv, ReportKnown
      <4> QED
        BY <1>3, <1>10, <3>1, <4>1
    <3>2. CASE j \notin DOMAIN old
      <4>1. PICK k \in DOMAIN cases : new[j] = cases[k]
        BY <1>10, <3>2
      <4>2. cases[k].set = set.id /\ cases[k].status \in {"PENDING", "FAILED"}
        BY <1>5
      <4>3. n \in DOMAIN manifest.sets /\ n < n + 1 /\ set.id = manifest.sets[n].id
        BY <1>0, <1>2, <1>3
      <4> QED
        BY <4>1, <4>2, <4>3
    <3> QED
      BY <3>1, <3>2
  <2> QED
    BY <1>0, <1>1, <1>2, <2>1 DEF ReportKnown
<1>19. /\ DOMAIN summary' = Statuses
       /\ \A s \in Statuses : summary'[s] = Cardinality(OfStatus(new, s))
  <2>1. summary' = [s \in Statuses |-> summary[s] + Tally(cases)[s]]
    BY <1>2 DEF SummaryExtended
  <2>2. \A s \in Statuses : summary[s] = Cardinality(OfStatus(old, s))
    BY <1>0 DEF RunnerInv
  <2> QED
    BY <1>11, <1>14, <2>1, <2>2
<1>20. IsList(new)
  BY <1>9, SequencesAreLists
<1>21. \A i \in DOMAIN manifest'.sets : i < runner_index' => SetReported(i)'
  <2>1. \A i \in DOMAIN manifest.sets : i < n + 1 => i < n \/ i = n
    BY <1>3
  <2>2. \A i \in DOMAIN manifest.sets : i < n + 1 => SetReported(i)'
    BY <1>16, <1>17, <2>1
  <2> QED
    BY <1>1, <1>2, <2>2
<1>22. /\ runner_index' \in Nat \ {0} /\ runner_index' <= last + 1
       /\ Len(set_summaries') = runner_index' - 1
  BY <1>2, <1>3, <1>13
<1>23. runner' = "sets"
  BY <1>2
<1>24. \A j \in DOMAIN reports' : ReportKnown(j)'
  BY <1>0, <1>18
<1> HIDE DEF last
<1>25. /\ runner_index' \in Nat \ {0} /\ runner_index' <= Len(InitialManifest.sets) + 1
       /\ IsList(reports') /\ IsList(set_summaries') /\ Len(set_summaries') = runner_index' - 1
  BY <1>0, <1>13, <1>20, <1>22 DEF last
<1>26. DOMAIN summary' = Statuses /\ \A s \in Statuses : summary'[s] = Cardinality(OfStatus(reports', s))
  BY <1>0, <1>19
<1> QED
  BY <1>6, <1>21, <1>23, <1>24, <1>25, <1>26 DEF RunnerInv

-----------------------------------------------------------------------------
(* No step of either job or of an edit breaks the runner's books. *)
LEMMA RunnerInvKept == Shape /\ RunnerInv /\ [Next]_vars => RunnerInv'
<1> SUFFICES ASSUME Shape, RunnerInv, [Next]_vars
             PROVE  RunnerInv'
  OBVIOUS
<1>1. CASE EditCheckout
  <2>1. runner = "idle" /\ UNCHANGED runnerVars
    BY <1>1 DEF EditCheckout, Commit
  <2>2. /\ runner' = "idle" /\ runner_index' = 1 /\ reports' = <<>> /\ reports = <<>>
        /\ set_summaries' = set_summaries /\ summary' = summary /\ runner_index = 1
    BY <2>1 DEF RunnerInv, runnerVars
  <2>3. Shape'
    BY <1>1, ShapeKept DEF EditCheckout
  <2>4. \A i \in DOMAIN manifest'.sets : ~(i < runner_index')
    BY <2>2, <2>3, InitialSets DEF Shape
  <2>5. DOMAIN <<>> = {}
    OBVIOUS
  <2> QED
    BY <2>2, <2>4, <2>5 DEF RunnerInv
<1>2. ASSUME UNCHANGED repository, UNCHANGED <<runner_index, reports, set_summaries, summary>>
      PROVE  /\ \A i \in DOMAIN manifest'.sets : i < runner_index' => SetReported(i)'
             /\ \A j \in DOMAIN reports' : ReportKnown(j)'
             /\ HeadRead' <=> HeadRead
             /\ \A i \in DOMAIN manifest.sets :
                  Runnable(manifest.sets[i])' <=> Runnable(manifest.sets[i])
  <2>1. manifest' = manifest /\ files' = files
    BY <1>2 DEF repository
  <2>2. ASSUME NEW i \in DOMAIN manifest.sets
        PROVE  /\ Runnable(manifest.sets[i])' <=> Runnable(manifest.sets[i])
               /\ ReportsOf(manifest.sets[i])' = ReportsOf(manifest.sets[i])
    BY <2>1 DEF ReportsOf, Runnable, RunnableVendored, HasRole, FileWithRole,
         ListsKnownParameters, KnownSource, ReadsAcvp, CaseReports, CaseStatus, PlaceholderReports,
         PlaceholderStatus, PendingReports, ExpectedCases
  <2>3. ASSUME NEW i \in DOMAIN manifest.sets
        PROVE  SetReported(i)' <=> SetReported(i)
    BY <1>2, <2>1, <2>2 DEF SetReported, OwnId
  <2>4. ASSUME NEW j \in DOMAIN reports
        PROVE  ReportKnown(j)' <=> ReportKnown(j)
    BY <1>2, <2>1 DEF ReportKnown
  <2>5. HeadRead' <=> HeadRead
    BY <2>1 DEF HeadRead, ReadsManifest
  <2>6. \A i \in DOMAIN manifest.sets : i < runner_index => SetReported(i)
    BY DEF RunnerInv
  <2>7. \A j \in DOMAIN reports : ReportKnown(j)
    BY DEF RunnerInv
  <2>8. \A i \in DOMAIN manifest'.sets : i < runner_index' => SetReported(i)'
    BY <1>2, <2>1, <2>3, <2>6
  <2>9. \A j \in DOMAIN reports' : ReportKnown(j)'
    BY <1>2, <2>4, <2>7
  <2> QED
    BY <2>2, <2>5, <2>8, <2>9
<1>3. CASE StepGate \/ UNCHANGED vars
  <2>1. /\ UNCHANGED repository /\ UNCHANGED <<runner_index, reports, set_summaries, summary>>
        /\ runner' = runner /\ manifest' = manifest
    BY <1>3 DEF StepGate, vars, runnerVars, repository
  <2>2. /\ \A i \in DOMAIN manifest'.sets : i < runner_index' => SetReported(i)'
        /\ \A j \in DOMAIN reports' : ReportKnown(j)'
        /\ HeadRead' <=> HeadRead
        /\ \A i \in DOMAIN manifest.sets :
             Runnable(manifest.sets[i])' <=> Runnable(manifest.sets[i])
    BY <1>2, <2>1
  <2> QED
    BY <2>1, <2>2 DEF RunnerInv
<1>4. CASE StepRunner /\ RunSet
  BY <1>4, RunSetKeeps DEF StepRunner
<1>5. CASE StepRunner /\ ~RunSet
  <2>1. /\ UNCHANGED repository /\ UNCHANGED <<runner_index, reports, set_summaries, summary>>
        /\ manifest' = manifest
    BY <1>5 DEF StepRunner, RunnerNext, RunnerStart, RunnerError, RunnerExit, repository
  <2>2. /\ \A i \in DOMAIN manifest'.sets : i < runner_index' => SetReported(i)'
        /\ \A j \in DOMAIN reports' : ReportKnown(j)'
        /\ HeadRead' <=> HeadRead
        /\ \A i \in DOMAIN manifest.sets :
             Runnable(manifest.sets[i])' <=> Runnable(manifest.sets[i])
    BY <1>2, <2>1
  <2>3. ASSUME runner' \in {"sets", "error", "ok", "failures"},
               runner' \in {"ok", "failures"} =>
                 /\ runner_index = Len(InitialManifest.sets) + 1
                 /\ runner' = "ok" <=> \A j \in DOMAIN reports : reports[j].status # "FAILED",
               runner' \in {"sets", "ok", "failures"} => HeadRead,
               runner' = "error" =>
                 ~HeadRead \/ \E i \in DOMAIN manifest.sets : ~Runnable(manifest.sets[i])
        PROVE  RunnerInv'
    BY <2>1, <2>2, <2>3 DEF RunnerInv
  <2>4. CASE RunnerStart
    BY <2>3, <2>4 DEF RunnerStart, HeadRead
  <2>5. CASE RunnerError
    BY <2>3, <2>5 DEF RunnerError
  <2>6. CASE RunnerExit
    <3> DEFINE last == Len(InitialManifest.sets)
    <3>1. runner_index = last + 1
      <4>1. /\ runner_index \in Nat \ {0} /\ runner_index <= last + 1 /\ last \in Nat
            /\ runner_index \notin 1 .. last
        BY <2>6, InitialSets DEF RunnerExit, RunnerInv, Shape
      <4> HIDE DEF last
      <4> QED
        BY <4>1
    <3>2. "FAILED" \in Statuses /\ IsList(reports)
      BY DEF RunnerInv, Statuses
    <3>3. summary["FAILED"] = Cardinality(OfStatus(reports, "FAILED"))
      BY <3>2 DEF RunnerInv
    <3>4. /\ summary["FAILED"] \in Nat
          /\ summary["FAILED"] = 0 <=> \A j \in DOMAIN reports : reports[j].status # "FAILED"
      BY <3>2, <3>3, CountsAreNatural
    <3>5. runner' = IF summary["FAILED"] > 0 THEN "failures" ELSE "ok"
      BY <2>6 DEF RunnerExit
    <3>6. runner' \in {"ok", "failures"} /\ (runner' = "ok" <=> summary["FAILED"] = 0)
      BY <3>4, <3>5
    <3>7. HeadRead
      BY <2>6 DEF RunnerExit, RunnerInv
    <3> QED
      BY <2>3, <3>1, <3>4, <3>6, <3>7
  <2> QED
    BY <1>5, <2>4, <2>5, <2>6 DEF StepRunner, RunnerNext
<1> QED
  BY <1>1, <1>3, <1>4, <1>5 DEF Next

(* The runner's books are right in every state. *)
LEMMA RunnerHolds == Spec => []RunnerInv
<1>1. RepositoryInv /\ RunnerInv /\ [Next]_vars => RunnerInv'
  BY RunnerInvKept DEF RepositoryInv
<1> QED
  BY <1>1, RunnerInvInit, RepositoryHolds, PTL DEF Spec

(* The runner's totals are those of its reports, set by set and over all. *)
THEOREM RunnerSummariesAddUp == Spec => []SummariesAddUp
<1>1. RepositoryInv /\ RunnerInv => SummariesAddUp
  <2> SUFFICES ASSUME RepositoryInv, RunnerInv
               PROVE  SummariesAddUp
    OBVIOUS
  <2>1. \A s \in Statuses : summary[s] = Cardinality({i \in DOMAIN reports : reports[i].status = s})
    BY DEF RunnerInv, OfStatus
  <2>2. ASSUME NEW i \in DOMAIN set_summaries, NEW s \in Statuses, OwnId(i)
        PROVE  set_summaries[i][s] = Cardinality({j \in DOMAIN reports :
                 reports[j].set = manifest.sets[i].id /\ reports[j].status = s})
    <3>1. i \in DOMAIN manifest.sets /\ i < runner_index
      <4> DEFINE last == Len(InitialManifest.sets)
      <4>1. /\ DOMAIN set_summaries = 1 .. runner_index - 1 /\ runner_index \in Nat
            /\ DOMAIN manifest.sets = 1 .. last /\ last \in Nat /\ runner_index <= last + 1
        BY Lists, InitialSets DEF RunnerInv, RepositoryInv, Shape
      <4> HIDE DEF last
      <4> QED
        BY <4>1
    <3>2. SetReported(i)
      BY <3>1 DEF RunnerInv
    <3>3. set_summaries[i][s] = Cardinality(OfBoth(reports, manifest.sets[i].id, s))
      BY <2>2, <3>2 DEF SetReported
    <3> QED
      BY <3>3 DEF OfBoth
  <2>3. summary["PASSED"] = 0
    <3>1. "PASSED" \in Statuses /\ IsList(reports)
      BY DEF RunnerInv, Statuses
    <3>2. \A j \in DOMAIN reports : reports[j].status # "PASSED"
      BY DEF RunnerInv, ReportKnown
    <3>3. Cardinality(OfStatus(reports, "PASSED")) = 0
      BY <3>1, <3>2, CountsAreNatural
    <3> QED
      BY <3>1, <3>3 DEF RunnerInv
  <2>4. runner \in {"ok", "failures"} =>
          (runner = "ok" <=> \A i \in DOMAIN reports : reports[i].status # "FAILED")
    BY DEF RunnerInv
  <2> QED
    BY <2>1, <2>2, <2>3, <2>4 DEF SummariesAddUp, OwnId
<1> QED
  BY <1>1, RepositoryHolds, RunnerHolds, PTL

-----------------------------------------------------------------------------
(* Of two files with the two roles, gate and runner take the same one. *)
LEMMA OneFilePerRole ==
  ASSUME Shape, NEW i \in DOMAIN manifest.sets, ValidOfficialSet(manifest.sets[i])
  PROVE  LET set == manifest.sets[i] IN
         /\ \A role \in {"prompt", "expectedResults"} :
              /\ HasRole(set, role)
              /\ FileWithRole(set, role) = FileOf(set, role)
              /\ ValidAcvpFile(FileOf(set, role), set, role)
              /\ \E j \in DOMAIN set.files : FileWithRole(set, role) = files[set.files[j].file]
         /\ \A j \in DOMAIN set.files : \E role \in {"prompt", "expectedResults"} :
              files[set.files[j].file] = FileWithRole(set, role)
<1> DEFINE set == manifest.sets[i]
           f == set.files
<1>1. IsList(f) /\ DOMAIN f = 1 .. 2
  BY Lists DEF Shape, WellFormedSet, ValidOfficialSet
<1>2. {f[k].role : k \in DOMAIN f} = {"prompt", "expectedResults"}
  BY DEF ValidOfficialSet
<1>3. \A k \in DOMAIN f : ValidAcvpFile(files[f[k].file], set, f[k].role)
  BY DEF ValidOfficialSet
<1> HIDE DEF set, f
<1>4. \A k, h \in DOMAIN f : f[k].role = f[h].role => k = h
  <2>1. f[1].role # f[2].role
    <3>1. \E k \in 1 .. 2 : f[k].role = "prompt"
      BY <1>1, <1>2
    <3>2. \E k \in 1 .. 2 : f[k].role = "expectedResults"
      BY <1>1, <1>2
    <3> QED
      BY <3>1, <3>2
  <2> QED
    BY <1>1, <2>1
<1>5. ASSUME NEW role \in {"prompt", "expectedResults"}
      PROVE  /\ HasRole(set, role)
             /\ FileWithRole(set, role) = FileOf(set, role)
             /\ ValidAcvpFile(FileOf(set, role), set, role)
             /\ \E j \in DOMAIN f : f[j].role = role /\ FileWithRole(set, role) = files[f[j].file]
  <2> DEFINE j == CHOOSE k \in DOMAIN f : f[k].role = role
  <2>1. FileOf(set, role) = files[f[j].file]
    BY DEF FileOf, f
  <2>2. \E k \in DOMAIN f : f[k].role = role
    BY <1>2
  <2>3. j \in DOMAIN f /\ f[j].role = role
    BY <2>2
  <2> HIDE DEF j
  <2>4. HasRole(set, role)
    BY <2>2 DEF HasRole, f
  <2>5. PICK k \in DOMAIN f : f[k].role = role /\ FileWithRole(set, role) = files[f[k].file]
    BY <1>1, <2>4, FileIsFound DEF f
  <2>6. k = j
    BY <1>4, <2>3, <2>5
  <2> QED
    BY <1>3, <2>1, <2>3, <2>4, <2>5, <2>6
<1>6. ASSUME NEW j \in DOMAIN f
      PROVE  \E role \in {"prompt", "expectedResults"} :
               files[f[j].file] = FileWithRole(set, role)
  <2>1. f[j].role \in {"prompt", "expectedResults"}
    BY <1>2
  <2>2. PICK k \in DOMAIN f :
          f[k].role = f[j].role /\ FileWithRole(set, f[j].role) = files[f[k].file]
    BY <1>5, <2>1
  <2>3. k = j
    BY <1>4, <2>2
  <2> QED
    BY <2>1, <2>2, <2>3
<1> QED
  BY <1>5, <1>6 DEF set, f

(* The two halves of JobsReadAlike: the manifest's head, and each set. *)
HeadAlike ==
  /\ Cardinality({manifest.sources[i] : i \in DOMAIN manifest.sources}) = Len(manifest.sources)
  /\ manifest.schema_version = "1" /\ manifest.strict
  /\ \A set \in Sets : set.unread_typed /\ set.pending_reason # "number"

SetAlike(set) ==
  /\ set.kind = "repository-placeholder" => files[set.file].strict
  /\ set.kind = "official-acvp" /\ set.status = "vendored" => \A j \in DOMAIN set.files :
       /\ files[set.files[j].file].strict
       /\ \A c \in Cases(files[set.files[j].file]) : {c[1], c[2]} \subseteq 0 .. MaxU64

LEMMA AlikeSetBySet ==
  JobsReadAlike <=> HeadAlike /\ \A i \in DOMAIN manifest.sets : SetAlike(manifest.sets[i])
BY DEF JobsReadAlike, HeadAlike, SetAlike, Sets, Vendored

(* There are as many sources as entries when no source is listed twice. *)
LEMMA NoSourceTwice ==
  ASSUME NEW s, IsList(s)
  PROVE  Cardinality({s[i] : i \in DOMAIN s}) = Len(s)
           <=> \A i, j \in DOMAIN s : s[i] = s[j] => i = j
<1> DEFINE T == {s[i] : i \in DOMAIN s}
           D == 1 .. Len(s)
<1>1. Len(s) \in Nat /\ DOMAIN s = D /\ s = [i \in D |-> s[i]]
  BY Lists
<1>2. IsFiniteSet(D) /\ Cardinality(D) = Len(s)
  BY <1>1, CountUpTo
<1> HIDE DEF D
<1>3. s \in Surjection(D, T)
  BY <1>1 DEF Surjection
<1> HIDE DEF T
<1>4. Cardinality(T) = Len(s) <=> s \in Injection(D, T)
  BY <1>2, <1>3, FS_Surjection
<1>5. s \in Injection(D, T) <=> \A i, j \in D : s[i] = s[j] => i = j
  BY <1>3 DEF Injection, IsInjective, Surjection
<1> QED
  BY <1>1, <1>4, <1>5 DEF T

LEMMA HeadsAlike ==
  ASSUME Shape
  PROVE  HeadAlike <=> HeadRead
<1>1. IsList(manifest.sources) /\ manifest.sources # <<>>
  BY DEF Shape
<1>2. Cardinality({manifest.sources[i] : i \in DOMAIN manifest.sources}) = Len(manifest.sources)
        <=> \A i, j \in DOMAIN manifest.sources : manifest.sources[i] = manifest.sources[j] => i = j
  BY <1>1, NoSourceTwice
<1>3. (\A set \in Sets : set.unread_typed /\ set.pending_reason # "number")
        <=> \A i \in DOMAIN manifest.sets :
              manifest.sets[i].unread_typed /\ manifest.sets[i].pending_reason # "number"
  BY DEF Sets
<1> QED
  BY <1>1, <1>2, <1>3 DEF HeadAlike, HeadRead, ReadsManifest

(* A file with a test in each group is read when it is strict and its ids, all
   of which are those of some case, are u64. *)
LEMMA ReadsByCases ==
  ASSUME NEW c, c.json, ListsOfTests(c.groups), \A g \in DOMAIN c.groups : c.groups[g].tests # <<>>
  PROVE  ReadsAcvp(c) <=> c.strict /\ \A x \in Cases(c) : {x[1], x[2]} \subseteq 0 .. MaxU64
<1>1. ASSUME NEW g \in DOMAIN c.groups
      PROVE  \E t \in DOMAIN c.groups[g].tests : TRUE
  <2>1. IsList(c.groups[g].tests) /\ c.groups[g].tests # <<>>
    BY DEF ListsOfTests
  <2>2. 1 \in DOMAIN c.groups[g].tests
    BY <2>1 DEF IsList
  <2> QED
    BY <2>2
<1>2. ASSUME NEW g \in DOMAIN c.groups, NEW t \in DOMAIN c.groups[g].tests
      PROVE  <<c.groups[g].id, c.groups[g].tests[t]>> \in Cases(c)
  BY DEF Cases
<1>3. ASSUME ReadsAcvp(c), NEW x \in Cases(c)
      PROVE  {x[1], x[2]} \subseteq 0 .. MaxU64
  <2>1. PICK g \in DOMAIN c.groups : \E t \in DOMAIN c.groups[g].tests :
               x = <<c.groups[g].id, c.groups[g].tests[t]>>
    BY DEF Cases
  <2> QED
    BY <1>3, <2>1 DEF ReadsAcvp
<1>4. ASSUME c.strict, \A x \in Cases(c) : {x[1], x[2]} \subseteq 0 .. MaxU64
      PROVE  ReadsAcvp(c)
  <2>1. ASSUME NEW g \in DOMAIN c.groups, NEW t \in DOMAIN c.groups[g].tests
        PROVE  c.groups[g].id \in 0 .. MaxU64 /\ c.groups[g].tests[t] \in 0 .. MaxU64
    <3> DEFINE x == <<c.groups[g].id, c.groups[g].tests[t]>>
    <3>1. {x[1], x[2]} \subseteq 0 .. MaxU64
      BY <1>2, <1>4
    <3> QED
      BY <3>1
  <2> QED
    BY <1>1, <1>4, <2>1 DEF ReadsAcvp
<1>5. ReadsAcvp(c) => c.strict
  BY DEF ReadsAcvp
<1> QED
  BY <1>3, <1>4, <1>5

(* What the gate accepts the runner runs, when nothing in it is on the list. *)
LEMMA SetsAlike ==
  ASSUME Shape, NEW i \in DOMAIN manifest.sets, GateAccepts(manifest.sets[i])
  PROVE  SetAlike(manifest.sets[i]) <=> Runnable(manifest.sets[i])
<1> DEFINE set == manifest.sets[i]
<1>1. CASE AcceptsPlaceholder(set)
  BY <1>1 DEF AcceptsPlaceholder, ValidPlaceholderSet, SetAlike, Runnable
<1>2. CASE AcceptsPending(set)
  BY <1>2 DEF AcceptsPending, SetAlike, Runnable
<1>3. CASE AcceptsVendored(set)
  <2> DEFINE Roles == {"prompt", "expectedResults"}
             Good(c) == c.strict /\ \A x \in Cases(c) : {x[1], x[2]} \subseteq 0 .. MaxU64
  <2>1. /\ ListsKnownParameters(set) /\ set.kind = "official-acvp" /\ KnownSource(set)
        /\ set.status = "vendored" /\ ValidOfficialSet(set)
    BY <1>3 DEF AcceptsVendored
  <2>2. \A role \in Roles :
          HasRole(set, role) /\ ValidAcvpFile(FileWithRole(set, role), set, role)
    <3> TAKE role \in Roles
    <3>1. /\ HasRole(set, role) /\ FileWithRole(set, role) = FileOf(set, role)
          /\ ValidAcvpFile(FileOf(set, role), set, role)
      BY <2>1, OneFilePerRole
    <3> HIDE DEF set
    <3> QED
      BY <3>1
  <2>3. /\ \A role \in Roles : \E j \in DOMAIN set.files :
             FileWithRole(set, role) = files[set.files[j].file]
        /\ \A j \in DOMAIN set.files : \E role \in Roles :
             files[set.files[j].file] = FileWithRole(set, role)
    BY <2>1, OneFilePerRole
  <2>4. \A role \in Roles : ListsOfTests(FileWithRole(set, role).groups)
    <3> TAKE role \in Roles
    <3>1. HasRole(set, role) /\ FileWithRole(set, role).json
      BY <2>2 DEF ValidAcvpFile
    <3> QED
      BY <3>1, FilesFound
  <2> HIDE DEF set
  <2>5. \A role \in Roles : ReadsAcvp(FileWithRole(set, role)) <=> Good(FileWithRole(set, role))
    <3> TAKE role \in Roles
    <3> DEFINE c == FileWithRole(set, role)
    <3>1. c.json /\ ListsOfTests(c.groups) /\ \A g \in DOMAIN c.groups : c.groups[g].tests # <<>>
      BY <2>2, <2>4 DEF ValidAcvpFile
    <3> HIDE DEF c
    <3>2. ReadsAcvp(c) <=> Good(c)
      BY <3>1, ReadsByCases
    <3> QED
      BY <3>2 DEF c
  <2>6. \A g \in DOMAIN FileWithRole(set, "prompt").groups :
          FileWithRole(set, "prompt").groups[g].parameters \in KnownParameters
    <3> DEFINE c == FileWithRole(set, "prompt")
    <3>1. {c.groups[g].parameters : g \in DOMAIN c.groups}
            = {set.parameters[k] : k \in DOMAIN set.parameters}
      BY <2>2 DEF ValidAcvpFile
    <3>2. \A k \in DOMAIN set.parameters : set.parameters[k] \in KnownParameters
      BY <2>1 DEF ListsKnownParameters
    <3> HIDE DEF c
    <3>3. \A g \in DOMAIN c.groups : c.groups[g].parameters \in KnownParameters
      BY <3>1, <3>2
    <3> QED
      BY <3>3 DEF c
  <2>7. \A role \in Roles : FileWithRole(set, role).header = set.header
    BY <2>2 DEF ValidAcvpFile
  <2>8. RunnableVendored(set) <=> \A role \in Roles : ReadsAcvp(FileWithRole(set, role))
    BY <2>2, <2>6, <2>7 DEF RunnableVendored
  <2>9. Runnable(set) <=> RunnableVendored(set)
    BY <2>1 DEF Runnable
  <2>10. SetAlike(set) <=> \A j \in DOMAIN set.files : Good(files[set.files[j].file])
    BY <2>1 DEF SetAlike
  <2> HIDE DEF Roles, Good
  <2>11. SetAlike(set) <=> \A role \in Roles : Good(FileWithRole(set, role))
    <3>1. ASSUME \A j \in DOMAIN set.files : Good(files[set.files[j].file]), NEW role \in Roles
          PROVE  Good(FileWithRole(set, role))
      <4>1. PICK j \in DOMAIN set.files : FileWithRole(set, role) = files[set.files[j].file]
        BY <2>3
      <4> QED
        BY <3>1, <4>1
    <3>2. ASSUME \A role \in Roles : Good(FileWithRole(set, role)), NEW j \in DOMAIN set.files
          PROVE  Good(files[set.files[j].file])
      <4>1. PICK role \in Roles : files[set.files[j].file] = FileWithRole(set, role)
        BY <2>3
      <4> QED
        BY <3>2, <4>1
    <3> QED
      BY <2>10, <3>1, <3>2
  <2>12. SetAlike(set) <=> Runnable(set)
    BY <2>5, <2>8, <2>9, <2>11
  <2> QED
    BY <2>12 DEF set
<1> QED
  BY <1>1, <1>2, <1>3 DEF GateAccepts

(* When the runner is through, it has reported every set. *)
LEMMA EverySetReported ==
  ASSUME RepositoryInv, RunnerInv, runner \in {"ok", "failures"}, NEW i \in DOMAIN manifest.sets
  PROVE  SetReported(i)
<1> DEFINE last == Len(InitialManifest.sets)
<1>1. runner_index = last + 1 /\ last \in Nat /\ DOMAIN manifest.sets = 1 .. last
  BY InitialSets DEF RepositoryInv, RunnerInv, Shape
<1> HIDE DEF last
<1>2. i < runner_index
  BY <1>1
<1> QED
  BY <1>2 DEF RunnerInv

(* A vendored set that the gate passed and the runner reported. *)
LEMMA VendoredIsReported ==
  ASSUME RepositoryInv, RunnerInv, gate = "passed", runner \in {"ok", "failures"},
         NEW i \in DOMAIN manifest.sets, manifest.sets[i].kind = "official-acvp",
         manifest.sets[i].status = "vendored"
  PROVE  LET set == manifest.sets[i]
             prompt == FileOf(set, "prompt")
             expected == FileOf(set, "expectedResults")
         IN  /\ ListsOfTests(prompt.groups)
             /\ ValidAcvpFile(prompt, set, "prompt")
             /\ CaseCount(prompt.groups) = set.cases
             /\ ReportsOf(set) = CaseReports(set, prompt, expected)
<1> DEFINE set == manifest.sets[i]
           prompt == FileOf(set, "prompt")
           expected == FileOf(set, "expectedResults")
<1>1. GateAccepts(set) /\ Shape
  BY DEF RepositoryInv, GateInv
<1>2. ValidOfficialSet(set)
  BY <1>1 DEF GateAccepts, AcceptsPending, AcceptsVendored, AcceptsPlaceholder
<1>3. /\ HasRole(set, "prompt") /\ FileWithRole(set, "prompt") = prompt
      /\ FileWithRole(set, "expectedResults") = expected
      /\ ValidAcvpFile(prompt, set, "prompt")
  BY <1>1, <1>2, OneFilePerRole
<1>4. prompt.json
  BY <1>3 DEF ValidAcvpFile
<1> HIDE DEF prompt, expected
<1>5. ListsOfTests(prompt.groups)
  BY <1>1, <1>3, <1>4, FilesFound
<1>6. CaseCount(prompt.groups) = set.cases
  BY <1>2 DEF ValidOfficialSet, CountsMatch, Counts, prompt
<1>7. ReportsOf(set) = CaseReports(set, prompt, expected)
  BY <1>3 DEF ReportsOf
<1> QED
  BY <1>3, <1>5, <1>6, <1>7 DEF prompt, expected

(* The two jobs read a manifest alike, but for the list of JobsReadAlike. *)
THEOREM JobsAgree == Spec => []RunnerAgreesWithGate
<1>1. RepositoryInv /\ RunnerInv => RunnerAgreesWithGate
  <2> SUFFICES ASSUME RepositoryInv, RunnerInv, gate = "passed"
               PROVE  RunnerAgreesWithGate
    BY DEF RunnerAgreesWithGate
  <2>1. \A i \in DOMAIN manifest.sets : SetAlike(manifest.sets[i]) <=> Runnable(manifest.sets[i])
    BY SetsAlike DEF RepositoryInv, GateInv
  <2>2. HeadAlike <=> HeadRead
    BY HeadsAlike DEF RepositoryInv
  <2>3. JobsReadAlike <=> HeadRead /\ \A i \in DOMAIN manifest.sets : Runnable(manifest.sets[i])
    BY <2>1, <2>2, AlikeSetBySet
  <2>4. runner = "error" => ~JobsReadAlike
    BY <2>3 DEF RunnerInv
  <2>5. ASSUME runner \in {"ok", "failures"} PROVE JobsReadAlike
    <3>1. \A i \in DOMAIN manifest.sets : Runnable(manifest.sets[i])
      BY <2>5, EverySetReported DEF SetReported
    <3>2. HeadRead
      BY <2>5 DEF RunnerInv
    <3> QED
      BY <2>3, <3>1, <3>2
  <2>6. ASSUME runner \in {"ok", "failures"}, NEW i \in DOMAIN manifest.sets,
               manifest.sets[i] \in Vendored
        PROVE  set_summaries[i]["PASSED"] + set_summaries[i]["PENDING"]
                 + set_summaries[i]["SKIPPED"] + set_summaries[i]["FAILED"] = manifest.sets[i].cases
    <3> DEFINE set == manifest.sets[i]
               prompt == FileOf(set, "prompt")
               expected == FileOf(set, "expectedResults")
               cases == CaseReports(set, prompt, expected)
               R == AllReports(set, prompt, expected)
    <3>1. set.kind = "official-acvp" /\ set.status = "vendored"
      BY <2>6 DEF Vendored
    <3>2. /\ ListsOfTests(prompt.groups) /\ CaseCount(prompt.groups) = set.cases
          /\ ReportsOf(set) = cases
      BY <2>6, <3>1, VendoredIsReported
    <3>3. \A s \in Statuses : set_summaries[i][s] = Cardinality(OfStatus(cases, s))
      BY <2>6, <3>2, EverySetReported DEF SetReported
    <3> HIDE DEF prompt, expected
    <3>4. cases \in Seq(R) /\ ReportsFor(set, R) /\ Len(cases) = set.cases
      BY <3>2, CaseReportsCoverPrompt
    <3> HIDE DEF cases, R, set
    <3>5. IsList(cases)
      BY <3>4, SequencesAreLists
    <3>6. \A k \in DOMAIN cases : cases[k].status \in {"PENDING", "FAILED"}
      <4>1. \A k \in DOMAIN cases : cases[k] \in R
        BY <3>4
      <4> QED
        BY <3>4, <4>1 DEF ReportsFor
    <3>7. Cardinality(OfStatus(cases, "PASSED")) + Cardinality(OfStatus(cases, "PENDING"))
            + Cardinality(OfStatus(cases, "SKIPPED")) + Cardinality(OfStatus(cases, "FAILED"))
            = Len(cases)
      BY <3>5, <3>6, StatusesAddUp
    <3> QED
      BY <3>3, <3>4, <3>7 DEF Statuses, set
  <2> QED
    BY <2>4, <2>5, <2>6 DEF RunnerAgreesWithGate
<1> QED
  BY <1>1, RepositoryHolds, RunnerHolds, PTL

(* No parameter set of an official set is passed over in silence. *)
THEOREM EveryParameterSetReported == Spec => []NoParameterSetUnreported
<1>1. RepositoryInv /\ RunnerInv => NoParameterSetUnreported
  <2> SUFFICES ASSUME RepositoryInv, RunnerInv, gate = "passed", runner \in {"ok", "failures"},
                      NEW h \in DOMAIN manifest.sets, manifest.sets[h].kind = "official-acvp",
                      NEW i \in DOMAIN manifest.sets[h].parameters
               PROVE  \E j \in DOMAIN reports :
                        /\ reports[j].set = manifest.sets[h].id
                        /\ reports[j].parameters = manifest.sets[h].parameters[i]
                        /\ manifest.sets[h].status = "pending" => reports[j].status = "PENDING"
    BY DEF NoParameterSetUnreported, Sets
  <2> DEFINE set == manifest.sets[h]
  <2>1. GateAccepts(set)
    BY DEF RepositoryInv, GateInv
  <2>2. \A k \in DOMAIN ReportsOf(set) : \E j \in DOMAIN reports : reports[j] = ReportsOf(set)[k]
    BY EverySetReported DEF SetReported
  <2>3. \E k \in DOMAIN ReportsOf(set) :
          /\ ReportsOf(set)[k].set = set.id /\ ReportsOf(set)[k].parameters = set.parameters[i]
          /\ set.status = "pending" => ReportsOf(set)[k].status = "PENDING"
    <3>1. CASE AcceptsPending(set)
      <4>1. ReportsOf(set) = PendingReports(set)
        BY <3>1 DEF AcceptsPending, ReportsOf
      <4>2. /\ i \in DOMAIN PendingReports(set)
            /\ PendingReports(set)[i] = Report(set.id, set.parameters[i], "pending", "pending", "PENDING")
        BY DEF PendingReports
      <4> QED
        BY <4>1, <4>2 DEF Report
    <3>2. CASE AcceptsVendored(set)
      <4> DEFINE prompt == FileOf(set, "prompt")
                 expected == FileOf(set, "expectedResults")
                 cases == CaseReports(set, prompt, expected)
      <4>1. set.status = "vendored"
        BY <3>2 DEF AcceptsVendored
      <4>2. /\ ListsOfTests(prompt.groups) /\ ValidAcvpFile(prompt, set, "prompt")
            /\ ReportsOf(set) = cases
        BY <4>1, VendoredIsReported
      <4> HIDE DEF prompt, expected
      <4>3. PICK g \in DOMAIN prompt.groups : prompt.groups[g].parameters = set.parameters[i]
        BY <4>2 DEF ValidAcvpFile
      <4>4. 1 \in DOMAIN prompt.groups[g].tests
        <5>1. IsList(prompt.groups[g].tests) /\ prompt.groups[g].tests # <<>>
          BY <4>2 DEF ListsOfTests, ValidAcvpFile
        <5> QED
          BY <5>1 DEF IsList
      <4>5. CaseByCase(set, prompt, expected)
        BY <4>2, CaseReportsCoverPrompt
      <4>6. PICK k \in DOMAIN cases : cases[k] = GroupReports(set, prompt, expected, g)[1]
        BY <4>4, <4>5 DEF CaseByCase
      <4>7. cases[k].set = set.id /\ cases[k].parameters = set.parameters[i]
        BY <4>3, <4>4, <4>6 DEF GroupReports, Report
      <4> QED
        BY <4>1, <4>2, <4>7
    <3> QED
      BY <2>1, <3>1, <3>2 DEF GateAccepts, AcceptsPlaceholder
  <2> HIDE DEF set
  <2>4. \E j \in DOMAIN reports :
          /\ reports[j].set = set.id /\ reports[j].parameters = set.parameters[i]
          /\ set.status = "pending" => reports[j].status = "PENDING"
    BY <2>2, <2>3
  <2> QED
    BY <2>4 DEF set
<1> QED
  BY <1>1, RepositoryHolds, RunnerHolds, PTL

(* Both jobs green: every case of a vendored prompt has its expected result. *)
THEOREM GreenJobsAnswerEveryCase == Spec => []GreenMeansAnswered
<1>1. RepositoryInv /\ RunnerInv => GreenMeansAnswered
  <2> SUFFICES ASSUME RepositoryInv, RunnerInv, gate = "passed", runner = "ok",
                      NEW h \in DOMAIN manifest.sets, manifest.sets[h].kind = "official-acvp",
                      manifest.sets[h].status = "vendored"
               PROVE  Cases(FileOf(manifest.sets[h], "prompt"))
                        \subseteq Cases(FileOf(manifest.sets[h], "expectedResults"))
    BY DEF GreenMeansAnswered, Vendored, Sets
  <2> DEFINE set == manifest.sets[h]
             prompt == FileOf(set, "prompt")
             expected == FileOf(set, "expectedResults")
             cases == CaseReports(set, prompt, expected)
  <2>1. ListsOfTests(prompt.groups) /\ ReportsOf(set) = cases
    BY VendoredIsReported
  <2>2. \A k \in DOMAIN cases : cases[k].status # "FAILED"
    <3>1. \A j \in DOMAIN reports : reports[j].status # "FAILED"
      BY DEF RunnerInv
    <3>2. \A k \in DOMAIN cases : \E j \in DOMAIN reports : reports[j] = cases[k]
      BY <2>1, EverySetReported DEF SetReported
    <3> HIDE DEF cases
    <3> QED
      BY <3>1, <3>2
  <2> HIDE DEF prompt, expected, set
  <2>3. CaseByCase(set, prompt, expected)
    BY <2>1, CaseReportsCoverPrompt
  <2>4. ASSUME NEW g \in DOMAIN prompt.groups, NEW t \in DOMAIN prompt.groups[g].tests
        PROVE  <<prompt.groups[g].id, prompt.groups[g].tests[t]>> \in ExpectedCases(expected)
    <3>1. PICK k \in DOMAIN cases : cases[k] = GroupReports(set, prompt, expected, g)[t]
      BY <2>3 DEF CaseByCase
    <3>2. cases[k].status # "FAILED"
      BY <2>2
    <3>3. cases[k].status = CaseStatus(set, ExpectedCases(expected), prompt.groups[g].id,
                                       prompt.groups[g].tests[t])
      BY <3>1 DEF GroupReports, Report
    <3> QED
      BY <3>2, <3>3 DEF CaseStatus
  <2>5. Cases(prompt) \subseteq ExpectedCases(expected)
    BY <2>4 DEF Cases
  <2>6. ExpectedCases(expected) = Cases(expected)
    BY DEF ExpectedCases, Cases
  <2> QED
    BY <2>5, <2>6 DEF prompt, expected, set
<1> QED
  BY <1>1, RepositoryHolds, RunnerHolds, PTL

-----------------------------------------------------------------------------
(* What a mode's walk has established: the ids it met are those of findings,
   the reviews it went past stand under one of them. *)
Walked(m) ==
  /\ known[m] \subseteq {f.id : f \in SideChannel!Findings}
  /\ review_gate[m] = "idle" => known[m] = {}
  /\ review_gate[m] = "reviews" => \A k \in 1 .. review_position[m] :
       review_manifest.reviews[SideChannel!ReviewOrder[k]].finding \in known[m]
  /\ review_gate[m] = "passed" => \A r \in SideChannel!Reviews :
       review_manifest.reviews[r].finding \in known[m]

ReviewInv ==
  /\ "findings" \in DOMAIN review_manifest
  /\ \E S : review_manifest.findings \in Seq(S)
  /\ review_gate \in [SideChannel!Modes -> {"idle", "findings", "reviews", "passed", "failed"}]
  /\ review_position \in [SideChannel!Modes -> Nat]
  /\ known = [m \in SideChannel!Modes |-> known[m]]
  /\ \A m \in SideChannel!Modes : Walked(m)

(* Reviewers edit before the jobs run; findings remain a list. *)
LEMMA EditsKeepFindings ==
  ASSUME ReviewInv, SideChannel!Edit
  PROVE  /\ \A m \in SideChannel!Modes : review_gate[m] = "idle"
         /\ UNCHANGED SideChannel!gateVars
         /\ "findings" \in DOMAIN review_manifest'
         /\ \E S : review_manifest'.findings \in Seq(S)
<1> DEFINE Kept(new) ==
      SideChannel!Edited(new) =>
        /\ \A m \in SideChannel!Modes : review_gate[m] = "idle"
        /\ UNCHANGED SideChannel!gateVars /\ review_manifest' = new
<1>1. \A new : Kept(new)
  BY DEF SideChannel!Edited
<1> HIDE DEF Kept
<1>2. "findings" \in DOMAIN review_manifest /\ \E S : review_manifest.findings \in Seq(S)
  BY DEF ReviewInv
<1>3. ASSUME NEW b \in BOOLEAN, SideChannel!SetComplete(b) \/ SideChannel!SetProduction(b)
      PROVE  /\ \A m \in SideChannel!Modes : review_gate[m] = "idle"
             /\ UNCHANGED SideChannel!gateVars
             /\ "findings" \in DOMAIN review_manifest'
             /\ review_manifest'.findings = review_manifest.findings
  BY <1>1, <1>2, <1>3 DEF SideChannel!SetComplete, SideChannel!SetProduction, Kept
<1>4. ASSUME NEW id, SideChannel!RemoveModule(id)
      PROVE  /\ \A m \in SideChannel!Modes : review_gate[m] = "idle"
             /\ UNCHANGED SideChannel!gateVars
             /\ "findings" \in DOMAIN review_manifest'
             /\ review_manifest'.findings = review_manifest.findings
  BY <1>1, <1>2, <1>4 DEF SideChannel!RemoveModule, Kept
<1>5. ASSUME NEW r, NEW id, SideChannel!PointReview(r, id)
      PROVE  /\ \A m \in SideChannel!Modes : review_gate[m] = "idle"
             /\ UNCHANGED SideChannel!gateVars
             /\ "findings" \in DOMAIN review_manifest'
             /\ review_manifest'.findings = review_manifest.findings
  BY <1>1, <1>2, <1>5 DEF SideChannel!PointReview, Kept
<1>6. ASSUME NEW i \in DOMAIN review_manifest.findings, NEW b, SideChannel!CloseFinding(i, b)
      PROVE  /\ \A m \in SideChannel!Modes : review_gate[m] = "idle"
             /\ UNCHANGED SideChannel!gateVars
             /\ "findings" \in DOMAIN review_manifest'
             /\ \E S : review_manifest'.findings \in Seq(S)
  <2> DEFINE old == review_manifest.findings
             closed == [old[i] EXCEPT !.status = "closed", !.blocker = b]
             new == [old EXCEPT ![i] = closed]
  <2>1. /\ \A m \in SideChannel!Modes : review_gate[m] = "idle"
        /\ UNCHANGED SideChannel!gateVars
        /\ "findings" \in DOMAIN review_manifest' /\ review_manifest'.findings = new
    BY <1>1, <1>2, <1>6 DEF SideChannel!CloseFinding, Kept
  <2>2. PICK S : old \in Seq(S)
    BY <1>2
  <2> HIDE DEF closed, old
  <2>3. new \in Seq(S \cup {closed})
    <3>1. old \in Seq(S \cup {closed}) /\ closed \in S \cup {closed}
      BY <2>2, SeqMonotonic
    <3> QED
      BY <1>6, <3>1, ExceptSeq DEF old
  <2> QED
    BY <2>1, <2>3 DEF old
<1>7. ASSUME NEW i \in DOMAIN review_manifest.findings, SideChannel!RemoveFinding(i)
      PROVE  /\ \A m \in SideChannel!Modes : review_gate[m] = "idle"
             /\ UNCHANGED SideChannel!gateVars
             /\ "findings" \in DOMAIN review_manifest'
             /\ \E S : review_manifest'.findings \in Seq(S)
  <2> DEFINE old == review_manifest.findings
             new == [j \in 1 .. Len(old) - 1 |-> IF j < i THEN old[j] ELSE old[j + 1]]
  <2>1. /\ \A m \in SideChannel!Modes : review_gate[m] = "idle"
        /\ UNCHANGED SideChannel!gateVars
        /\ "findings" \in DOMAIN review_manifest' /\ review_manifest'.findings = new
        /\ Len(old) > 1
    BY <1>1, <1>2, <1>7 DEF SideChannel!RemoveFinding, Kept
  <2>2. PICK S : old \in Seq(S)
    BY <1>2
  <2>3. new \in Seq(S)
    <3> HIDE DEF old
    <3>1. Len(old) - 1 \in Nat /\ \A j \in 1 .. Len(old) - 1 : new[j] \in S
      BY <2>1, <2>2
    <3> QED
      BY <3>1, IsASeq
  <2> QED
    BY <2>1, <2>3
<1> QED
  BY <1>2, <1>3, <1>4, <1>5, <1>6, <1>7 DEF SideChannel!Edit

(* What a mode's walk of the reviews has established holds in every state. *)
LEMMA ReviewHolds ==
  SideChannel!ConstantsAssumption => (SideChannel!Spec => []ReviewInv)
<1> SUFFICES ASSUME SideChannel!ConstantsAssumption
             PROVE  SideChannel!Spec => []ReviewInv
  OBVIOUS
<1>1. SideChannel!Init => ReviewInv
  <2> SUFFICES ASSUME SideChannel!Init
               PROVE  ReviewInv
    OBVIOUS
  <2>1. "findings" \in DOMAIN review_manifest /\ \E S : review_manifest.findings \in Seq(S)
    BY DEF SideChannel!Init, SideChannel!ConstantsAssumption
  <2>2. \A m \in SideChannel!Modes : Walked(m)
    BY DEF SideChannel!Init, Walked
  <2> QED
    BY <2>1, <2>2 DEF SideChannel!Init, ReviewInv
<1>2. ReviewInv /\ [SideChannel!Next]_(SideChannel!vars) => ReviewInv'
  <2> SUFFICES ASSUME ReviewInv, [SideChannel!Next]_(SideChannel!vars)
               PROVE  ReviewInv'
    OBVIOUS
  <2>1. CASE SideChannel!Edit
    <3>1. /\ \A m \in SideChannel!Modes : review_gate[m] = "idle"
          /\ UNCHANGED SideChannel!gateVars
          /\ "findings" \in DOMAIN review_manifest'
          /\ \E S : review_manifest'.findings \in Seq(S)
      BY <2>1, EditsKeepFindings
    <3>2. \A m \in SideChannel!Modes : Walked(m)'
      BY <3>1 DEF SideChannel!gateVars, ReviewInv, Walked
    <3> QED
      BY <3>1, <3>2 DEF SideChannel!gateVars, ReviewInv
  <2>2. ASSUME NEW m \in SideChannel!Modes, SideChannel!Step(m)
        PROVE  ReviewInv'
    <3>1. review_manifest' = review_manifest
      BY <2>2 DEF SideChannel!Step, SideChannel!CheckHead, SideChannel!CheckFinding,
                  SideChannel!CheckBlockers, SideChannel!CheckReview, SideChannel!Verdict
    <3> DEFINE Others == \A o \in SideChannel!Modes \ {m} :
                 /\ review_gate'[o] = review_gate[o]
                 /\ review_position'[o] = review_position[o] /\ known'[o] = known[o]
               Typed ==
                 /\ review_gate' \in [SideChannel!Modes ->
                                        {"idle", "findings", "reviews", "passed", "failed"}]
                 /\ review_position' \in [SideChannel!Modes -> Nat]
                 /\ known' = [o \in SideChannel!Modes |-> known'[o]]
    <3>2. SUFFICES Others /\ Typed /\ Walked(m)'
      <4>1. ASSUME Others, NEW o \in SideChannel!Modes \ {m}
            PROVE  Walked(o)'
        BY <3>1, <4>1, SMTT(40) DEF ReviewInv, Walked, SideChannel!Findings
      <4> QED
        BY <3>1, <4>1 DEF ReviewInv
    <3>t. /\ review_gate \in [SideChannel!Modes ->
                                {"idle", "findings", "reviews", "passed", "failed"}]
          /\ review_position \in [SideChannel!Modes -> Nat]
          /\ known = [o \in SideChannel!Modes |-> known[o]]
      BY DEF ReviewInv
    <3>3. CASE SideChannel!CheckHead(m)
      BY <3>1, <3>3 DEF SideChannel!CheckHead, ReviewInv, Walked, SideChannel!Findings
    <3>4. CASE SideChannel!CheckFinding(m)
      <4> DEFINE finding == review_manifest.findings[review_position[m] + 1]
      <4>1. /\ review_gate[m] = "findings" /\ review_position[m] < Len(review_manifest.findings)
            /\ \/ /\ review_position' = [review_position EXCEPT ![m] = @ + 1]
                  /\ known' = [known EXCEPT ![m] = @ \cup {finding.id}]
                  /\ UNCHANGED review_gate
               \/ /\ review_gate' = [review_gate EXCEPT ![m] = "failed"]
                  /\ UNCHANGED <<review_position, known>>
        BY <3>4 DEF SideChannel!CheckFinding
      <4>2. finding.id \in {f.id : f \in SideChannel!Findings}
        BY <4>1 DEF ReviewInv, SideChannel!Findings
      <4> HIDE DEF finding
      <4>3. Others /\ Typed
        BY <3>t, <4>1
      <4>4. Walked(m)'
        BY <3>1, <4>1, <4>2 DEF ReviewInv, Walked, SideChannel!Findings
      <4> QED
        BY <4>3, <4>4
    <3>5. CASE SideChannel!CheckBlockers(m)
      BY <3>1, <3>5 DEF SideChannel!CheckBlockers, ReviewInv, Walked, SideChannel!Findings
    <3>6. CASE SideChannel!CheckReview(m)
      <4> DEFINE k == review_position[m] + 1
                 review == review_manifest.reviews[SideChannel!ReviewOrder[k]]
      <4>1. /\ review_gate[m] = "reviews" /\ UNCHANGED known
            /\ \/ /\ review.finding \in known[m]
                  /\ review_position' = [review_position EXCEPT ![m] = @ + 1]
                  /\ UNCHANGED review_gate
               \/ /\ review_gate' = [review_gate EXCEPT ![m] = "failed"]
                  /\ UNCHANGED review_position
        BY <3>6 DEF SideChannel!CheckReview, SideChannel!ReviewHolds
      <4>2. Others /\ Typed
        <5>1. CASE UNCHANGED review_gate
          BY <3>t, <4>1, <5>1
        <5>2. CASE /\ review_gate' = [review_gate EXCEPT ![m] = "failed"]
                   /\ UNCHANGED review_position
          BY <3>t, <4>1, <5>2
        <5> QED
          BY <4>1, <5>1, <5>2
      <4>3. Walked(m)'
        BY <3>1, <4>1, SMTT(40) DEF ReviewInv, Walked, SideChannel!Findings
      <4> QED
        BY <4>2, <4>3
    <3>7. CASE SideChannel!Verdict(m)
      <4>1. /\ review_gate[m] = "reviews" /\ review_position[m] = 2
            /\ review_gate' = [review_gate EXCEPT ![m] =
                 IF m = "strict" /\ ~review_manifest.complete THEN "failed" ELSE "passed"]
            /\ UNCHANGED <<review_position, known>>
        BY <3>7 DEF SideChannel!Verdict, SideChannel!ReviewOrder
      <4>2. Others /\ Typed
        BY <3>t, <4>1
      <4>3. \A r \in SideChannel!Reviews : review_manifest.reviews[r].finding \in known[m]
        <5>1. \A k \in 1 .. 2 :
                review_manifest.reviews[SideChannel!ReviewOrder[k]].finding \in known[m]
          <6>1. review_gate[m] = "reviews" => \A k \in 1 .. review_position[m] :
                  review_manifest.reviews[SideChannel!ReviewOrder[k]].finding \in known[m]
            BY DEF ReviewInv, Walked
          <6> QED
            BY <4>1, <6>1
        <5>2. /\ SideChannel!ReviewOrder[1] = "decapsulation_failure"
              /\ SideChannel!ReviewOrder[2] = "signing_rejection"
          BY DEF SideChannel!ReviewOrder
        <5>3. review_manifest.reviews["decapsulation_failure"].finding \in known[m]
          BY <5>1, <5>2
        <5>4. review_manifest.reviews["signing_rejection"].finding \in known[m]
          BY <5>1, <5>2
        <5> QED
          BY <5>3, <5>4 DEF SideChannel!Reviews
      <4>4. Walked(m)'
        BY <3>1, <4>1, <4>3 DEF ReviewInv, Walked, SideChannel!Findings
      <4> QED
        BY <4>2, <4>4
    <3> QED
      BY <2>2, <3>3, <3>4, <3>5, <3>6, <3>7 DEF SideChannel!Step
  <2>3. CASE UNCHANGED SideChannel!vars
    BY <2>3 DEF SideChannel!vars, SideChannel!gateVars, ReviewInv, Walked, SideChannel!Findings
  <2> QED
    BY <2>1, <2>2, <2>3 DEF SideChannel!Next
<1> QED
  BY <1>1, <1>2, PTL DEF SideChannel!Spec

(* The side-channel gate passes no manifest that has lost a finding one of the
   two required reviews stands under. *)
THEOREM PassingReviewsAreTracked ==
  SideChannel!ConstantsAssumption => (SideChannel!Spec => []ReviewsStayTracked)
<1> SUFFICES ASSUME SideChannel!ConstantsAssumption
             PROVE  SideChannel!Spec => []ReviewsStayTracked
  OBVIOUS
<1>1. ReviewInv => ReviewsStayTracked
  BY DEF ReviewInv, Walked, ReviewsStayTracked, SideChannel!ReviewsStayTracked
<1> QED
  BY <1>1, ReviewHolds, PTL
=============================================================================
