---------------------------- MODULE VectorRunner ----------------------------
(***************************************************************************)
(* The Rust vector runner, rust/pqcore/src/vector_runner.rs and its binary: *)
(* it reads the same manifest, one vector set a step, and reports a status *)
(* for every case.  It compares nothing yet (rust_algorithm_available is   *)
(* false), so PASSED must never appear.                                    *)
(***************************************************************************)
EXTENDS VectorManifest

CONSTANT MaxU64   \* the largest u64, 2^64 - 1 in the code

VARIABLES
  runner,         \* "idle", "sets", "error", "ok" or "failures" (exit 1, 0, 1)
  runner_index,   \* the vector set being run
  reports,        \* case reports: [set, parameters, group, test, status]
  set_summaries,  \* per vector set: number of reports of each status
  summary         \* the totals

runnerVars == <<runner, runner_index, reports, set_summaries, summary>>

Statuses == {"PASSED", "PENDING", "SKIPPED", "FAILED"}
NoReports == [s \in Statuses |-> 0]

RunnerInit ==
  /\ runner = "idle" /\ runner_index = 1 /\ reports = <<>>
  /\ set_summaries = <<>> /\ summary = NoReports

-----------------------------------------------------------------------------
RustAlgorithmAvailable(header) == FALSE

Report(set, parameters, group, test, status) ==
  [set |-> set, parameters |-> parameters, group |-> group, test |-> test, status |-> status]

(* VectorSummary::record over the cases of a vector set. *)
Tally(cases) == [s \in Statuses |-> Cardinality({i \in DOMAIN cases : cases[i].status = s})]

PendingReports(set) ==
  [i \in DOMAIN set.parameters |->
     Report(set.id, set.parameters[i], "pending", "pending", "PENDING")]

(* expected_case_index: a map keyed by group and test id. *)
ExpectedCases(expected) ==
  UNION {{<<expected.groups[g].id, expected.groups[g].tests[t]>> :
            t \in DOMAIN expected.groups[g].tests} : g \in DOMAIN expected.groups}

CaseStatusByTest(set, index, group, test) ==
  IF ~ \E found \in index : found[2] = test THEN "FAILED"
  ELSE IF RustAlgorithmAvailable(set.header) THEN "SKIPPED" ELSE "PENDING"

CaseStatus(set, index, group, test) ==
  IF <<group, test>> \notin index THEN "FAILED"
  ELSE IF RustAlgorithmAvailable(set.header) THEN "SKIPPED" ELSE "PENDING"

CaseReports(set, prompt, expected) ==
  LET index == ExpectedCases(expected)
      of[g \in 0 .. Len(prompt.groups)] ==
        IF g = 0 THEN <<>>
        ELSE of[g - 1] \o
             [t \in DOMAIN prompt.groups[g].tests |->
                Report(set.id, prompt.groups[g].parameters, prompt.groups[g].id,
                       prompt.groups[g].tests[t],
                       CaseStatus(set, index, prompt.groups[g].id, prompt.groups[g].tests[t]))]
  IN  of[Len(prompt.groups)]

PlaceholderStatus(case) ==
  IF case.expected = "not_implemented" /\ case.parameters \in KnownParameters
  THEN "PENDING" ELSE "FAILED"

PlaceholderReports(set, content) ==
  [i \in DOMAIN content.cases |->
     Report(set.id, content.cases[i].parameters, "placeholder", content.cases[i].id,
            PlaceholderStatus(content.cases[i]))]

FileWithRole(set, role) ==
  LET j == CHOOSE i \in DOMAIN set.files :
             set.files[i].role = role /\ \A h \in 1 .. i - 1 : set.files[h].role # role
  IN  files[set.files[j].file]

HasRole(set, role) == \E j \in DOMAIN set.files : set.files[j].role = role

(* load_json into the runner's structs: strict JSON, u64 ids, and in a vector
   set the optional fields, when they are there, of their types. *)
ReadsManifest ==
  /\ manifest.strict /\ manifest.schema_version \in {"1", "2"}
  /\ \A i \in DOMAIN manifest.sets :
       manifest.sets[i].unread_typed /\ manifest.sets[i].pending_reason # "number"

ReadsAcvp(content) ==
  /\ content.json /\ content.strict
  /\ \A g \in DOMAIN content.groups :
       /\ content.groups[g].id \in 0 .. MaxU64
       /\ \A t \in DOMAIN content.groups[g].tests : content.groups[g].tests[t] \in 0 .. MaxU64

(* No error of run_vendored_official_vector_set: both files are there, are read
   and have the set's header, and each prompt group names a known set. *)
RunnableVendored(set) ==
  /\ HasRole(set, "prompt") /\ HasRole(set, "expectedResults")
  /\ \A role \in {"prompt", "expectedResults"} :
       ReadsAcvp(FileWithRole(set, role)) /\ FileWithRole(set, role).header = set.header
  /\ \A g \in DOMAIN FileWithRole(set, "prompt").groups :
       FileWithRole(set, "prompt").groups[g].parameters \in KnownParameters

(* No error of run_manifest for a vector set. *)
Runnable(set) ==
  /\ ListsKnownParameters(set)
  /\ \/ /\ set.kind = "official-acvp" /\ KnownSource(set)
        /\ \/ set.status = "pending"
           \/ set.status = "vendored" /\ RunnableVendored(set)
     \/ /\ set.kind = "repository-placeholder" /\ set.status = "placeholder"
        /\ files[set.file].json /\ files[set.file].strict /\ files[set.file].has_cases

ReportsOf(set) ==
  IF set.kind = "repository-placeholder" THEN PlaceholderReports(set, files[set.file])
  ELSE IF set.status = "pending" THEN PendingReports(set)
  ELSE CaseReports(set, FileWithRole(set, "prompt"), FileWithRole(set, "expectedResults"))

-----------------------------------------------------------------------------
(* The manifest is read whole; then source_ids: no id twice, at least one. *)
RunnerStart ==
  /\ runner = "idle"
  /\ runner' = IF /\ ReadsManifest /\ manifest.schema_version = "1"
                 /\ manifest.sources # <<>>
                 /\ \A i, j \in DOMAIN manifest.sources :
                      manifest.sources[i] = manifest.sources[j] => i = j
              THEN "sets" ELSE "error"
  /\ UNCHANGED <<runner_index, reports, set_summaries, summary>>

(* extend_vector_set: the set's tally and the totals, case by case. *)
SummaryReplaced(cases) == Tally(cases)

SummaryExtended(cases) == [s \in Statuses |-> summary[s] + Tally(cases)[s]]

RunSet ==
  /\ runner = "sets" /\ runner_index \in DOMAIN manifest.sets
  /\ Runnable(manifest.sets[runner_index])
  /\ LET cases == ReportsOf(manifest.sets[runner_index]) IN
     /\ reports' = reports \o cases
     /\ set_summaries' = Append(set_summaries, Tally(cases))
     /\ summary' = SummaryExtended(cases)
  /\ runner_index' = runner_index + 1 /\ UNCHANGED runner

RunnerError ==
  /\ runner = "sets" /\ runner_index \in DOMAIN manifest.sets
  /\ ~Runnable(manifest.sets[runner_index])
  /\ runner' = "error" /\ UNCHANGED <<runner_index, reports, set_summaries, summary>>

RunnerExit ==
  /\ runner = "sets" /\ runner_index \notin DOMAIN manifest.sets
  /\ runner' = IF summary["FAILED"] > 0 THEN "failures" ELSE "ok"
  /\ UNCHANGED <<runner_index, reports, set_summaries, summary>>

RunnerNext == RunnerStart \/ RunSet \/ RunnerError \/ RunnerExit
=============================================================================
