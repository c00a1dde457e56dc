------------------------------ MODULE MCGates ------------------------------
(* Two official sets that may trade files, and the placeholder.  Contents vary
   in what the checks look at: numbering, counts, parameter sets, header, strict
   JSON and ids that are no u64.  Of
   reviews there are two modules with a finding each and one finding more; the
   reviews required stand under the first two. *)
EXTENDS Gates

Group(id, parameters, tests) == [id |-> id, parameters |-> parameters, tests |-> tests]
File(header, groups, has_cases, cases) ==
  [json |-> TRUE, strict |-> TRUE, header |-> header, sample |-> FALSE, groups |-> groups,
   has_cases |-> has_cases, cases |-> cases]
Acvp(header, groups) == File(header, groups, FALSE, <<>>)

Prompt      == Acvp("keyGen", <<Group(1, "512", <<1, 2>>), Group(2, "768", <<3>>)>>)
Answers     == Acvp("keyGen", <<Group(1, "none", <<1, 2>>), Group(2, "none", <<3>>)>>)
Renumbered  == Acvp("keyGen", <<Group(1, "none", <<1, 2>>), Group(2, "none", <<4>>)>>)
Regrouped   == Acvp("keyGen", <<Group(2, "none", <<1, 2>>), Group(1, "none", <<3>>)>>)
Negative    == Acvp("keyGen", <<Group(1, "none", <<1, -1>>), Group(2, "none", <<3>>)>>)
OneGroup    == Acvp("keyGen", <<Group(1, "512", <<1, 2>>)>>)
Uncovered   == Acvp("keyGen", <<Group(1, "512", <<1, 2>>), Group(2, "512", <<3>>)>>)
Extended    == Acvp("keyGen", <<Group(1, "512", <<1, 2>>), Group(2, "768", <<3, 4>>)>>)
OtherMode   == Acvp("sigGen", <<Group(1, "512", <<1, 2>>), Group(2, "768", <<3>>)>>)
Sample      == [Prompt EXCEPT !.sample = TRUE]
LaxPrompt   == [Prompt EXCEPT !.strict = FALSE]
Broken      == [json |-> FALSE, present |-> TRUE]

Case(id, parameters, expected) == [id |-> id, parameters |-> parameters, expected |-> expected]
Placeholders(second) ==
  File("none", <<>>, TRUE, <<Case("keygen", "512", "not_implemented"), second>>)
Placeholder == Placeholders(Case("encap", "768", "not_implemented"))
Implemented == Placeholders(Case("encap", "768", "shared_secret"))
Misnamed    == Placeholders(Case("encap", "unknown", "not_implemented"))
LaxCases    == [Placeholder EXCEPT !.strict = FALSE]

Acvps == {Prompt, Answers, Renumbered, Regrouped, Negative, OneGroup, Uncovered, Extended,
          OtherMode, Sample, LaxPrompt}
MCContents == Acvps \cup {Broken, Placeholder, Implemented, Misnamed, LaxCases}

MCFileNames == {"prompt1", "answers1", "prompt2", "answers2", "placeholder"}
MCFiles == [f \in MCFileNames |-> IF f = "placeholder" THEN Placeholder
                                  ELSE IF f \in {"prompt1", "prompt2"} THEN Prompt ELSE Answers]

Entry(role, file) == [role |-> role, file |-> file, sha256 |-> MCFiles[file]]
Official(id, prompt, answers) ==
  [id |-> id, kind |-> "official-acvp", source |-> "acvp", status |-> "vendored",
   pending_reason |-> "missing", unread_typed |-> TRUE, header |-> "keyGen", sample |-> FALSE,
   parameters |-> <<"512", "768">>, groups |-> 2, cases |-> 3,
   files |-> <<Entry("prompt", prompt), Entry("expectedResults", answers)>>,
   sha256 |-> Digest(<<Entry("prompt", prompt), Entry("expectedResults", answers)>>)]
MCManifest ==
  [schema_version |-> "1", strict |-> TRUE, sources |-> <<"acvp">>,
   sets |-> <<Official("set1", "prompt1", "answers1"), Official("set2", "prompt2", "answers2"),
              [id |-> "placeholder", kind |-> "repository-placeholder", status |-> "placeholder",
               pending_reason |-> "missing", unread_typed |-> TRUE, parameters |-> <<"512", "768">>,
               file |-> "placeholder", files |-> <<>>, sha256 |-> Placeholder]>>]

Finding(id, module) == [id |-> id, module |-> module, status |-> "open", blocker |-> TRUE]
Review(module, id)  == [module |-> module, finding |-> id, blocker |-> TRUE]

MCReviewModules == {"kem", "dsa"}
MCFirstReviews ==
  [complete |-> FALSE, production |-> FALSE, modules |-> MCReviewModules,
   findings |-> <<Finding("DEC", "kem"), Finding("SIGN", "dsa"), Finding("SAMPLING", "kem")>>,
   reviews  |-> [decapsulation_failure |-> Review("kem", "DEC"),
                 signing_rejection     |-> Review("dsa", "SIGN")]]

ASSUME ReviewConstants == SideChannel!ConstantsAssumption
=============================================================================
