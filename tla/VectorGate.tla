----------------------------- MODULE VectorGate -----------------------------
(***************************************************************************)
(* The manifest gate of CI, scripts/check-vector-manifest.py run with      *)
(* --require-official: one step for the manifest's head, one for each      *)
(* vector set in order, one for the verdict.  Any failed check raises      *)
(* ManifestError and fails the job.                                        *)
(***************************************************************************)
EXTENDS VectorManifest

VARIABLES
  gate,            \* "idle", "sets", "passed" or "failed"
  gate_index,      \* the vector set under validation
  pending,         \* ids of the pending sets met
  official_ready   \* number of vendored sets met

gateVars == <<gate, gate_index, pending, official_ready>>

GateInit == gate = "idle" /\ gate_index = 1 /\ pending = <<>> /\ official_ready = 0

-----------------------------------------------------------------------------
(* validate_acvp_json_file: metadata, at least one group, at least one test in
   each; and, for prompts, exactly the listed parameter sets.  Any int will do
   for a group's or a test's id. *)
ValidAcvpFileOfSome(content, set, role) ==
  /\ content.json /\ content.header = set.header /\ content.sample = set.sample
  /\ content.groups # <<>>
  /\ \A g \in DOMAIN content.groups : content.groups[g].tests # <<>>
  /\ role = "prompt" =>
       {content.groups[g].parameters : g \in DOMAIN content.groups}
         \subseteq {set.parameters[i] : i \in DOMAIN set.parameters}

ValidAcvpFile(content, set, role) ==
  /\ content.json /\ content.header = set.header /\ content.sample = set.sample
  /\ content.groups # <<>>
  /\ \A g \in DOMAIN content.groups : content.groups[g].tests # <<>>
  /\ role = "prompt" =>
       {content.groups[g].parameters : g \in DOMAIN content.groups}
         = {set.parameters[i] : i \in DOMAIN set.parameters}

Counts(content) == <<Len(content.groups), CaseCount(content.groups)>>

FileOf(set, role) ==
  files[set.files[CHOOSE j \in DOMAIN set.files : set.files[j].role = role].file]

HashMatchesPromptOnly(entry) ==
  entry.role = "prompt" => Hash(files[entry.file]) = entry.sha256

(* The hash test of one file entry; the file exists. *)
HashMatches(entry) == Hash(files[entry.file]) = entry.sha256

GroupCountsMatch(set) ==
  /\ Counts(FileOf(set, "prompt"))[1] = Counts(FileOf(set, "expectedResults"))[1]
  /\ Counts(FileOf(set, "prompt"))[1] = set.groups

CountsMatch(set) ==
  /\ Counts(FileOf(set, "prompt")) = Counts(FileOf(set, "expectedResults"))
  /\ Counts(FileOf(set, "prompt")) = <<set.groups, set.cases>>

DigestMatches(set) == set.sha256 = Digest(set.files)

(* validate_official_vector_set. *)
ValidOfficialSet(set) ==
  /\ Len(set.files) = 2
  /\ {set.files[j].role : j \in DOMAIN set.files} = {"prompt", "expectedResults"}
  /\ \A j \in DOMAIN set.files :
       /\ files[set.files[j].file] # Absent
       /\ HashMatches(set.files[j])
       /\ ValidAcvpFile(files[set.files[j].file], set, set.files[j].role)
  /\ CountsMatch(set) /\ DigestMatches(set)

(* The placeholder branch of validate_manifest, and validate_placeholder_file. *)
ValidPlaceholderSet(set) ==
  /\ set.status = "placeholder" /\ files[set.file] # Absent
  /\ Hash(files[set.file]) = set.sha256
  /\ files[set.file].json /\ files[set.file].has_cases
  /\ \A i \in DOMAIN files[set.file].cases :
       /\ files[set.file].cases[i].parameters \in KnownParameters
       /\ files[set.file].cases[i].expected = "not_implemented"

(* What validate_manifest lets pass of each kind and status. *)
AcceptsPending(set) ==
  /\ ListsKnownParameters(set) /\ set.kind = "official-acvp" /\ KnownSource(set)
  /\ set.status = "pending" /\ set.pending_reason = "text"

AcceptsVendored(set) ==
  /\ ListsKnownParameters(set) /\ set.kind = "official-acvp" /\ KnownSource(set)
  /\ set.status = "vendored" /\ ValidOfficialSet(set)

AcceptsPlaceholder(set) ==
  /\ ListsKnownParameters(set) /\ set.kind = "repository-placeholder"
  /\ ValidPlaceholderSet(set)

-----------------------------------------------------------------------------
(* The version is compared with 1, which 1.0 and true are equal to. *)
GateStart ==
  /\ gate = "idle"
  /\ gate' = IF manifest.schema_version \in {"1", "1.0"} THEN "sets" ELSE "failed"
  /\ UNCHANGED <<gate_index, pending, official_ready>>

GatePending ==
  /\ gate = "sets" /\ gate_index \in DOMAIN manifest.sets
  /\ AcceptsPending(manifest.sets[gate_index])
  /\ pending' = Append(pending, manifest.sets[gate_index].id)
  /\ gate_index' = gate_index + 1 /\ UNCHANGED <<gate, official_ready>>

GateVendored ==
  /\ gate = "sets" /\ gate_index \in DOMAIN manifest.sets
  /\ AcceptsVendored(manifest.sets[gate_index])
  /\ official_ready' = official_ready + 1
  /\ gate_index' = gate_index + 1 /\ UNCHANGED <<gate, pending>>

GatePlaceholder ==
  /\ gate = "sets" /\ gate_index \in DOMAIN manifest.sets
  /\ AcceptsPlaceholder(manifest.sets[gate_index])
  /\ gate_index' = gate_index + 1 /\ UNCHANGED <<gate, pending, official_ready>>

GateRefuse ==
  /\ gate = "sets" /\ gate_index \in DOMAIN manifest.sets
  /\ LET set == manifest.sets[gate_index] IN
     ~AcceptsPending(set) /\ ~AcceptsVendored(set) /\ ~AcceptsPlaceholder(set)
  /\ gate' = "failed" /\ UNCHANGED <<gate_index, pending, official_ready>>

GateVerdict ==
  /\ gate = "sets" /\ gate_index \notin DOMAIN manifest.sets
  /\ gate' = IF official_ready = 0 THEN "failed" ELSE "passed"
  /\ UNCHANGED <<gate_index, pending, official_ready>>

GateNext ==
  GateStart \/ GatePending \/ GateVendored \/ GatePlaceholder \/ GateRefuse \/ GateVerdict
=============================================================================
