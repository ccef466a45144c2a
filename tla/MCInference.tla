---------------------------- MODULE MCInference ----------------------------
(* Four components: every way to have up to four imports between them, one *)
(* or three times; fewer of them together with imports of the package they *)
(* are in, with imports by tests, and with internal packages.              *)
EXTENDS Inference

MCComponents == 1 .. 4
MCSlug == <<"api", "core", "db", "web">>

(* core.internal and core._internal have the same slug; the fourth         *)
(* candidate is inside the first.                                          *)
MCCandidates ==
  <<[slug |-> "core-internal", internal |-> TRUE, inside |-> {}],
    [slug |-> "db-engine", internal |-> FALSE, inside |-> {}],
    [slug |-> "core-internal", internal |-> FALSE, inside |-> {}],
    [slug |-> "core-internal-x", internal |-> TRUE, inside |-> {1}]>>

Plain ==
  [most |-> 4, tests |-> {}, importers |-> [i \in Candidate |-> {}], testImporters |-> {},
   facade |-> {}, loops |-> FALSE, testLoops |-> FALSE]

Facades ==
  {[Plain EXCEPT !.most = 3, !.tests = tests, !.facade = facade] :
     tests \in {{}, {<<1, 2>>}, {<<3, 1>>, <<2, 1>>}}, facade \in {{}, {1}, {3}}}

Internals ==
  {[Plain EXCEPT !.most = 1, !.importers = used, !.testImporters = testers,
                 !.loops = loops, !.testLoops = testLoops] :
     used \in [Candidate -> {{}, {"inside"}, {"outside"}}],
     testers \in {{}, {1}, {2, 3}}, loops \in BOOLEAN, testLoops \in BOOLEAN}

MCProjects == {Plain} \cup Facades \cup Internals
=============================================================================
