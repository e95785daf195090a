----------------------------- MODULE MCPilotOps -----------------------------
EXTENDS PilotOps, TLC

\* Four cases, one of them a risk case: 75% passes are enough.
Cases == 1 .. 4
MCRisk == {4}

Row(result, answer) == [result |-> result, answer |-> answer]
Good == [c \in Cases |-> Row("PASS", "a")]

Of(rows) == [csv |-> "x", rows |-> rows]

\* All pass; three of four pass, one of them with another answer; the risk
\* case fails.
MCReports == {Of(Good), Of([Good EXCEPT ![2] = Row("REVIEW", "b")]),
              Of([Good EXCEPT ![4].result = "FAIL"])}

Option(mode, frozen, first, second) ==
    [mode |-> mode, frozen |-> frozen, bge |-> <<first, second>>]

MCOptions == {Option("local", NoReport, "skip", "skip"),
              Option("local", Of(Good), "skip", "skip"),
              Option("closed-network", Of(Good), "pass", "pass"),
              Option("closed-network", NoReport, "pass", "fail")}

Symmetry == Permutations(Clients) \cup Permutations(Rotations)
=============================================================================
