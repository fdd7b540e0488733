---------------------------- MODULE MCAdmission -----------------------------
(***************************************************************************)
(* Plans of up to three profiles and six controls, below, at and above the *)
(* limits, each of which is the only one broken by some plan; they share   *)
(* two executables and a directory.                                        *)
(***************************************************************************)
EXTENDS AdmissionProperties

Ctl(id, bytes, flaw, n, d) ==
    [id |-> id, bytes |-> bytes, flaw |-> flaw, executable |-> n, directory |-> d]
Prf(id, bytes, valid, ctls) == [id |-> id, bytes |-> bytes, valid |-> valid, controls |-> ctls]

ControlLists ==
    {<<>>}
      \union {<<Ctl("vet", b, flaw, n, "root")>> : b \in {1, 3}, flaw \in {"none", "bounds", "strings"},
                                           n \in {"go", "tool"}}
      \union {<<Ctl("vet", 1, "none", "go", "root"), Ctl(i, b, "none", n, "sub")>> :
                  i \in {"vet", "test"}, b \in {1, 2}, n \in {"go", "tool"}}
      \union {<<Ctl("vet", 1, "none", "go", "root"), Ctl("test", 0, "none", "go", "root"),
                Ctl("lint", 0, "none", "tool", "root")>>}
Second ==
    {<<>>,
     <<Prf("full", 0, TRUE, <<Ctl("vet", 0, "none", "tool", "sub"), Ctl("test", 0, "none", "go", "root")>>)>>,
     <<Prf("full", 1, TRUE, <<Ctl("vet", 1, "none", "go", "sub")>>)>>,
     <<Prf("full", 1, FALSE, <<Ctl("vet", 1, "none", "go", "sub")>>)>>,
     <<Prf("full", 1, TRUE, <<Ctl("vet", 1, "none", "tool", "root"), Ctl("test", 1, "none", "go", "sub"),
                              Ctl("lint", 0, "none", "go", "root")>>)>>,
     <<Prf("full", 0, TRUE, <<Ctl("vet", 0, "none", "tool", "root")>>),
       Prf("more", 0, TRUE, <<Ctl("vet", 0, "none", "go", "root")>>)>>}
MCPlans ==
    {<<>>} \union
    {<<Prf(id, b, TRUE, ctls)>> \o second :
        id \in {"quick", "full"}, b \in {1, 2}, ctls \in ControlLists, second \in Second}
=============================================================================
