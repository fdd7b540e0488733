-------------------------- MODULE MCCompatibility ---------------------------
(***************************************************************************)
(* Compatibility on two modules: floors with and without a patch in three  *)
(* minors and two majors, toolchains at, above and in the minor of a floor.*)
(***************************************************************************)
EXTENDS CompatibilityProperties

MCVersions == {<<1, 24>>, <<1, 24, 0>>, <<1, 24, 3>>, <<1, 25>>, <<1, 25, 3>>,
               <<1, 26>>, <<1, 26, 2>>, <<2, 0>>}

MCToolchains == {<<1, 24, 3>>, <<1, 26>>, <<1, 26, 2>>, <<1, 27, 1>>, <<2, 1, 0>>}
=============================================================================
