------------------------------ MODULE VectorCi ------------------------------
(***************************************************************************)
(* One commit of the vector checkout and the two CI jobs that read it      *)
(* (.github/workflows/ci.yml, jobs vectors and rust): the Python gate and  *)
(* the Rust runner, side by side, each on its own terms.                   *)
(***************************************************************************)
EXTENDS VectorGate, VectorRunner

vars == <<repository, gateVars, runnerVars>>

Init == RepositoryInit /\ GateInit /\ RunnerInit

Commit == gate # "idle" \/ runner # "idle"   \* the commit the jobs run on is fixed

EditCheckout == ~Commit /\ RepositoryNext /\ UNCHANGED <<gateVars, runnerVars>>
StepGate     == GateNext /\ UNCHANGED <<repository, runnerVars>>
StepRunner   == RunnerNext /\ UNCHANGED <<repository, gateVars>>

Next == EditCheckout \/ StepGate \/ StepRunner

Spec == Init /\ [][Next]_vars

-----------------------------------------------------------------------------
Sets == {manifest.sets[i] : i \in DOMAIN manifest.sets}
Vendored == {set \in Sets : set.kind = "official-acvp" /\ set.status = "vendored"}
Cases(content) ==
  UNION {{<<content.groups[g].id, content.groups[g].tests[t]>> :
            t \in DOMAIN content.groups[g].tests} : g \in DOMAIN content.groups}

(* A manifest that passes has all its vendored files as they were when they
   were vendored: the digest of each set is that of what is on disk, in the
   roles it is on disk for. *)
PassesOnlyIntactFiles ==
  gate = "passed" =>
    \A set \in Vendored :
      set.sha256 = [j \in DOMAIN set.files |->
                      <<set.files[j].role, set.files[j].file, files[set.files[j].file]>>]

(* What the gate lets pass and the runner does not read: a source listed twice,
   a schema version that is only equal to 1, text that is not strict JSON,
   values of other types in fields the gate does not look at, and ids that are
   ints but no u64. *)
JobsReadAlike ==
  /\ Cardinality({manifest.sources[i] : i \in DOMAIN manifest.sources}) = Len(manifest.sources)
  /\ manifest.schema_version = "1" /\ manifest.strict
  /\ \A set \in Sets : set.unread_typed /\ set.pending_reason # "number"
  /\ \A set \in Sets : set.kind = "repository-placeholder" => files[set.file].strict
  /\ \A set \in Vendored : \A j \in DOMAIN set.files :
       /\ files[set.files[j].file].strict
       /\ \A c \in Cases(files[set.files[j].file]) : {c[1], c[2]} \subseteq 0 .. MaxU64

(* On a manifest the gate passes, the runner ends without an error exactly when
   nothing of that list is in it; and then it has a report for each case that
   the manifest counts, set by set, also where two sets share an id. *)
RunnerAgreesWithGate ==
  gate = "passed" =>
    /\ runner = "error" => ~JobsReadAlike
    /\ runner \in {"ok", "failures"} =>
         /\ JobsReadAlike
         /\ \A i \in DOMAIN manifest.sets : manifest.sets[i] \in Vendored =>
              set_summaries[i]["PASSED"] + set_summaries[i]["PENDING"]
                + set_summaries[i]["SKIPPED"] + set_summaries[i]["FAILED"] = manifest.sets[i].cases

(* The strict gate passes official sets that have been returned to pending
   while another is vendored; but then no parameter set goes unmentioned.  For
   each one a set lists there is a report under that set's id, and it says
   PENDING if the set is. *)
NoParameterSetUnreported ==
  gate = "passed" /\ runner \in {"ok", "failures"} =>
    \A set \in {s \in Sets : s.kind = "official-acvp"} : \A i \in DOMAIN set.parameters :
      \E j \in DOMAIN reports :
        /\ reports[j].set = set.id /\ reports[j].parameters = set.parameters[i]
        /\ set.status = "pending" => reports[j].status = "PENDING"

(* With both jobs green, every case of every vendored prompt has an expected
   result under its own group and test number. *)
GreenMeansAnswered ==
  gate = "passed" /\ runner = "ok" =>
    \A set \in Vendored :
      Cases(FileOf(set, "prompt")) \subseteq Cases(FileOf(set, "expectedResults"))

(* The totals are those of the reports, over all and for each set whose id is
   its own: no case is dropped or counted twice, none is PASSED without a
   comparison, and the exit status is the totals' verdict. *)
SummariesAddUp ==
  /\ \A s \in Statuses : summary[s] = Cardinality({i \in DOMAIN reports : reports[i].status = s})
  /\ \A i \in DOMAIN set_summaries : \A s \in Statuses :
       (\A h \in DOMAIN manifest.sets : manifest.sets[h].id = manifest.sets[i].id => h = i) =>
       set_summaries[i][s] = Cardinality({j \in DOMAIN reports :
         reports[j].set = manifest.sets[i].id /\ reports[j].status = s})
  /\ summary["PASSED"] = 0
  /\ runner \in {"ok", "failures"} =>
       (runner = "ok" <=> \A i \in DOMAIN reports : reports[i].status # "FAILED")
=============================================================================
