------------------------ MODULE AdmissionProperties -------------------------
(***************************************************************************)
(* What an admitted plan promises to the controls that run under it, and   *)
(* that admission is the one step that Execution takes it for.             *)
(***************************************************************************)
EXTENDS Admission, FiniteSets

-----------------------------------------------------------------------------
(* The plan as sets: no loop, no running difference. *)

Positions == UNION {{i} \X DOMAIN plan[i].controls : i \in DOMAIN plan}
At(p) == plan[p[1]].controls[p[2]]

\* Each control is a part of its plan, and so is what each profile has besides.
Parts == Positions \union ((DOMAIN plan) \X {0})
Size(p) == IF p \in Positions THEN At(p).bytes ELSE plan[p[1]].bytes
BytesOf(S) == UNION {{p} \X (1 .. Size(p)) : p \in S}

Within ==
    /\ Len(plan) \in 1 .. MaxProfiles
    /\ Cardinality(Positions) \in 1 .. MaxPlanControls
    /\ IdBytes + Cardinality(BytesOf(Parts)) <= MaxPlanBytes
WellFormed ==
    /\ \A i, j \in DOMAIN plan : i # j => plan[i].id # plan[j].id
    /\ \A i \in DOMAIN plan :
        plan[i].valid /\ Len(plan[i].controls) \in 1 .. MaxControls
    /\ \A p, q \in Positions : p[1] = q[1] /\ p # q => At(p).id # At(q).id
    /\ \A p \in Positions : At(p).flaw = "none"

\* A verdict has its reason.  An admitted plan keeps every limit and identity, and
\* what its controls use did exist when it was looked up; a plan refused for itself
\* breaks one, and one refused for a file or directory named something that was
\* missing at some time.
AdmissionIsExact ==
    /\ step = "header" =>
        /\ Within /\ WellFormed
        /\ \E i \in DOMAIN plan : plan[i].id = Selected
        /\ [i \in DOMAIN admitted |-> Len(admitted[i])] = [i \in DOMAIN plan |-> Len(plan[i].controls)]
        /\ \A p \in Positions :
            /\ <<At(p).executable, admitted[p[1]][p[2]].file>> \in resolved
            /\ <<At(p).directory, TRUE>> \in stood
            /\ admitted[p[1]][p[2]].directory = At(p).directory
    /\ cause = "plan" => ~(Within /\ WellFormed)
    /\ cause = "executable" => \E p \in Positions : <<At(p).executable, NoFile>> \in resolved
    /\ cause = "directory" =>
        \E d \in {Root} \union {At(p).directory : p \in Positions} : <<d, FALSE>> \in stood
    /\ cause = "cancelled" => parent # "live"

\* Controls of one plan that name the same executable run the same file, whatever
\* the name pointed to while the plan was admitted.
OneFilePerName ==
    \A p, q \in {r \in Positions : r[1] \in DOMAIN admitted /\ r[2] \in DOMAIN admitted[r[1]]} :
        At(p).executable = At(q).executable =>
            admitted[p[1]][p[2]].file = admitted[q[1]][q[2]].file

-----------------------------------------------------------------------------
(* Refinement *)

Phase == CASE step = "header"   -> "header"
           [] step = "returned" -> "returned"
           [] OTHER             -> "admit"

E == INSTANCE Execution WITH
        N <- 1, Showing <- {}, Expecting <- {},
        control <- "live", phase <- Phase, k <- 1,
        report <- [started |-> FALSE, outcome |-> "incomplete", zero |-> FALSE,
                   matches |-> FALSE, err |-> {}],
        verdict <- [state |-> "pass", err |-> {}],
        results <- <<>>, output <- <<>>, exit <- -1

\* Admission, with all its looks at the context and the file system, is one step of
\* Execution: it goes on to the header, or returns a state and an error that fit
\* the caller's context.
AdmissionIsOneStep == [][E!Admit \/ \E why \in E!Ended : E!EndParent(why)]_<<E!vars>>
=============================================================================
