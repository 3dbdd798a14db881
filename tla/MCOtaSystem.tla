---------------------------- MODULE MCOtaSystem ----------------------------
EXTENDS OtaSystem

CONSTANTS j1

\* Versions of the images the jobs carry: the first job's is newer than the
\* factory image (version 2), the others are older.
MCImageVersion == [j \in Jobs |-> IF j = j1 THEN 3 ELSE 1]

\* Lengths of the job ids: the first job's is the longer one.
MCIdLength == [j \in Jobs |-> IF j = j1 THEN 3 ELSE 2]
=============================================================================
