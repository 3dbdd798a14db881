--------------------------- MODULE MCAudioPipeline ---------------------------
EXTENDS AudioPipeline, InferenceResults

\* The pipeline hands a result over without waiting and never learns what
\* becomes of it, and a result may be ready at any time: each of the two runs
\* while the other rests.
VARIABLE part

MCInit == AudioInit /\ ResultsInit /\ part \in {"audio", "results"}

MCNext ==
  \/ part = "audio" /\ Next /\ UNCHANGED <<part, resultVars>>
  \/ part = "results" /\ ResultsNext /\ UNCHANGED <<part, vars>>

MCSpec == MCInit /\ [][MCNext]_<<vars, resultVars, part>> /\ Fairness
=============================================================================
