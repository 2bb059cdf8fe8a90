---------------------------- MODULE MCCondDeadline ----------------------------
(* CondDeadline around the edges: carries, truncation, the quantum. *)
EXTENDS CondDeadline

TS(s, n) == [sec |-> s, nsec |-> n]

MCMonoStarts == {TS(100, 0), TS(100, 500000), TS(100, 999999999)}
MCRealStarts == {TS(5000, 0), TS(5000, 999000000)}
MCAbstimes   == {TS(s, n) : s \in {99, 100, 101, 159, 160, 161},
                            n \in {0, 400000, 1500000, 999999999}}
                \cup {TS(2147582, 0), TS(2147583, 0)}
MCOverflow   == {0, 1, 60000}
\* Whole seconds, so that nothing is lost to truncation.
MCWholeStarts == {TS(100, 0)}
MCWholeAbstimes == {TS(s, 0) : s \in {101, 160, 161}}

MCDelays     == {TS(0, 0), TS(0, 700000), TS(2, 0)}
=============================================================================
