---------------------- MODULE CompatibilityProperties -----------------------
(***************************************************************************)
(* What the compatibility profile must test.                               *)
(***************************************************************************)
EXTENDS Compatibility, FiniteSets

Tests(m) == {controls[i][1] : i \in {j \in DOMAIN controls : controls[j][2] = m}}
Checked == Tests(0)

\* Every control is one the repository supports: a module is tested only from its
\* floor on, only with versions older than the toolchain, after a check of
\* exactly that version, and versions come in increasing order.
ControlsAreSupported ==
    \A i \in DOMAIN controls :
        LET v == controls[i][1]
            m == controls[i][2]
        IN /\ Earlier(v, toolchain)
           /\ m # 0 => /\ module[m].packages
                       /\ NotAfter(module[m].go, v)
                       /\ \E j \in 1 .. i - 1 : controls[j] = <<v, 0>>
           /\ \A j \in 1 .. i - 1 : NotAfter(controls[j][1], v)

MajorsAgree == \A m \in Tested : module[m].go[1] = toolchain[1]

\* Nothing older than the toolchain is passed over: each minor from a floor up to the
\* toolchain's has one version, the first release of a minor above a floor; the
\* lowest floor runs in its own minor, which may be the toolchain's, unless it is
\* the toolchain; every module runs with each version that is not before its floor;
\* and no version is checked without a test.  A module whose floor is a later patch
\* than the version of its minor runs with the minors above only.  Floors of another
\* major version than the toolchain's leave nothing to test.
MinorsAreTested ==
    stage = "done" /\ MajorsAgree =>
        /\ \A m \in Tested :
            LET floor == module[m].go IN
            /\ \A n \in floor[2] .. toolchain[2] - 1 :
                Cardinality({v \in Checked : v[2] = n}) = 1
            /\ \A v \in Checked : floor[2] < v[2] => v = <<v[1], v[2], 0>>
            /\ IsMinimum(floor) /\ floor # toolchain =>
                \E v \in Tests(m) : v \in {floor, <<floor[1], floor[2], 0>>}
            /\ \A v \in Checked : NotAfter(floor, v) => v \in Tests(m)
        /\ \A v \in Checked : \E m \in Tested : v \in Tests(m)

\* The README on floors: "Two-component Go floors such as go 1.24 select go1.24.0;
\* exact patch releases remain exact".
SelectedBy(floor) == IF Len(floor) = 2 THEN Append(floor, 0) ELSE floor

\* The README on the profile: "Older Go minors from the lowest module floor to the
\* declared toolchain, with each module admitted at its own floor".  The lowest floor,
\* and every floor in an older minor than the toolchain's, is tested as it selects.
ModulesAreAdmittedAtTheirFloor ==
    stage = "done" /\ MajorsAgree =>
        \A m \in Tested :
            LET floor == module[m].go IN
            /\ IsMinimum(floor) \/ floor[2] < toolchain[2]
            /\ Earlier(SelectedBy(floor), toolchain)
            => SelectedBy(floor) \in Tests(m)
=============================================================================
