-------------------------- MODULE MCModelLifecycle --------------------------
(***************************************************************************)
(* Two models, two quantiles and their metadata; sorted, metadata.json     *)
(* comes before the quantiles, and the registry after the models.          *)
(***************************************************************************)
EXTENDS ModelLifecycle

CONSTANTS m1, m2

MCModels == {m1, m2}
MCQuantiles == <<"p10", "p50">>
MCScanOrder ==
  <<<<m1, "metadata">>, <<m1, "p10">>, <<m1, "p50">>,
    <<m2, "metadata">>, <<m2, "p10">>, <<m2, "p50">>, <<"registry">>>>
MCInstallations == {{}, {m1}}
Symmetry == Permutations(Procs)
MCReported == {<<m2, "p50">>}
=============================================================================
