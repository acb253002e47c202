------------------------- MODULE MCConnectionManager -------------------------
EXTENDS ConnectionManager, TLC

CONSTANTS r1, r2, s1, s2

MCReporters == {r1, r2}
MCStreams   == {s1, s2}

ReporterSymmetry == Permutations(MCReporters)
====
