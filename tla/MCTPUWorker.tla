---------------------------- MODULE MCTPUWorker ----------------------------
(* TPUWorker on a small instance: four chips of two cores, two engines or  *)
(* three stages, and steps of up to three tokens on two ranks or of none.  *)
EXTENDS TPUWorker

CONSTANTS r1, r2

MCRank == [r \in Req |-> IF r = r1 THEN 0 ELSE DP - 1]

MCBatch == {<<>>, r1 :> 1, r1 :> 2 @@ r2 :> 1}

\* The chips that an engine may be given, and the cores that a process needs:
\* those of one chip, of two, and of three, which two ranks do not both get.
GivenChips == {{}, {0, 1}, {2, 3}}
NeededCores == {1, Cores + 1, 2 * Cores + 1}

\* Every sensible way to start engines with those, and pipelines that are given
\* chips in neither, either or both ways; the bounds that a pipeline finds are
\* left out, as it sets its own.
MCDeployments ==
  {d \in [kind : {"colocated", "dp", "pp", "ray"}, tp : NeededCores,
          assigned : [Engine -> GivenChips], preset : [Engine -> GivenChips],
          bounds : {0, 1, 2}] :
     /\ Sensible(d)
     /\ d.kind \in {"pp", "ray"} =>
          /\ d.assigned[1] # {0, 1} /\ d.preset[1] # {2, 3} /\ d.bounds = 0
          /\ \A e \in Engine \ {1} : Given(d, e) = {}}

=============================================================================
