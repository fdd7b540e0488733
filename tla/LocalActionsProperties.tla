----------------------- MODULE LocalActionsProperties -----------------------
(***************************************************************************)
(* What verifying workflow references must guarantee.                      *)
(***************************************************************************)
EXTENDS LocalActions, FiniteSets

-----------------------------------------------------------------------------
(* The reference definition: the actions a file leads to *)

Refers(f) == {content[f][i] : i \in DOMAIN content[f]}
Closed(S) == \A d \in S : Refers(d) \intersect Actions \subseteq S

\* The actions in every set that holds those of file f and is closed.
Below(f) ==
    {d \in Actions : \A S \in SUBSET Actions :
        Refers(f) \intersect Actions \subseteq S /\ Closed(S) => d \in S}

Reachable == Declared \union UNION {Below(w) : w \in Declared}

Occurrences(s, v) == Cardinality({i \in DOMAIN s : s[i] = v})

\* The bytes of the metadata of actions S: a pair for each.
BytesOf(S) == UNION {{e} \X (1 .. Size[e]) : e \in S}

-----------------------------------------------------------------------------
\* Verification means what it says: nothing a workflow reaches, through however
\* many local actions, names an unpinned reference or an undeclared workflow,
\* and no action reaches itself.
VerifiedIsImmutable ==
    status = "verified" =>
        /\ \A f \in Reachable : Refers(f) \intersect (Unpinned \union Undeclared) = {}
        /\ \A d \in Reachable \intersect Actions : d \notin Below(d)

\* Each external reference of each file reached is admitted exactly as often as
\* the file has it, however many paths lead to the file, and nothing else is; and
\* the budgets were charged once for each action and each byte behind them.
EachReferenceOnce ==
    status = "verified" =>
        /\ \A f \in Files, r \in Pinned :
            Occurrences(found, <<f, r>>) =
                IF f \in Reachable THEN Occurrences(content[f], r) ELSE 0
        /\ actions = Cardinality(Reachable \intersect Actions) /\ actions <= MaxActions
        /\ bytes = Cardinality(BytesOf(Reachable \intersect Actions)) /\ bytes <= MaxBytes
        /\ references <= MaxReferences

\* A reference is refused as a cycle only if its action leads back to itself: two
\* paths to one action are not a cycle.
CyclesAreReal == [][AddCycle => Reference \in Below(Reference)]_vars

\* Verification ends, whatever cycles the repository has.
Ends == <>(status # "running")
=============================================================================
