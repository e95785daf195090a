--------------------------- MODULE MCRawTextJobs ---------------------------
EXTENDS RawTextJobs, TLC
Args == {[dry |-> FALSE, tables |-> Tables],
         [dry |-> TRUE, tables |-> {"runtime_logs"}]}
Symmetry == Permutations(Logs) \cup Permutations(Texts)
              \cup Permutations(Keys) \cup Permutations(RewrapJobs)
              \cup Permutations(RetentionJobs)
=============================================================================
