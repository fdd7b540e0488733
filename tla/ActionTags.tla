----------------------------- MODULE ActionTags -----------------------------
(***************************************************************************)
(* Currency of pinned actions (src/goverify/workflow_currency.go).  For    *)
(* each remote repository the tags are listed with git, the lines merged   *)
(* into one tag per stable name, and every pin of that repository compared *)
(* with the newest tag and, when it excludes that one, with the newest of  *)
(* the rest.  Both the lines of the listing and the entries of the Go map  *)
(* that holds the tags come in any order.                                  *)
(*                                                                         *)
(* A stable tag name is the sequence of its components: v1.0 is <<1, 0>>.  *)
(* The empty sequence is the absent name.  Components are canonical, so    *)
(* the code's comparison by length, then text is the order of the numbers. *)
(***************************************************************************)
EXTENDS Integers, Sequences, FiniteSets

CONSTANTS
    Names,    \* stable tag names that may be listed
    Commits,  \* commits tags and pins may name
    Pins,     \* pins considered: [version, excluded : Name, commit : Commits]
    MaxLines  \* bound: stable-tag lines in one listing

None == <<>>

ASSUME ActionTagsAssumption ==
    /\ Names \subseteq (Seq(Nat) \ {None})
    /\ \A n \in Names : Len(n) <= 3
    /\ \A p \in Pins : p.commit \in Commits
    /\ MaxLines \in Nat

VARIABLES
    ended,     \* the caller's context has ended
    phase,     \* where the verification is
    listed,    \* the stable-tag lines of this repository merged so far
    tags,      \* the map: what is known of each name
    pin,       \* the reference being verified
    unseen,    \* names the current scan of the map has not reached
    excluded,  \* the version that scan leaves out, None for none
    latest     \* the best name it has found

scanVars == <<pin, unseen, excluded, latest>>
vars == <<ended, phase, listed, tags, scanVars>>

Lines == [name : Names, peeled : BOOLEAN, commit : Commits]
NoPin == [version |-> None, excluded |-> None, commit |-> "none"]
NoTag == [base |-> FALSE, peeled |-> FALSE, commit |-> "none"]
NoTags == [n \in Names |-> NoTag]

\* The names in the map.
Known == {n \in Names : tags[n].base \/ tags[n].peeled}

Init ==
    /\ ended = FALSE
    /\ phase = "read"
    /\ listed = {}
    /\ tags = NoTags
    /\ pin = NoPin
    /\ unseen = {}
    /\ excluded = None
    /\ latest = None

-----------------------------------------------------------------------------
(* Order of versions; a missing component counts as zero *)

Component(v, i) == IF i <= Len(v) THEN v[i] ELSE 0

Same(v, w) == \A i \in 1 .. 3 : Component(v, i) = Component(w, i)

Older(v, w) ==
    \E i \in 1 .. 3 :
        /\ Component(v, i) < Component(w, i)
        /\ \A j \in 1 .. i - 1 : Component(v, j) = Component(w, j)

-----------------------------------------------------------------------------
EndContext ==
    /\ phase \notin {"done", "rejected", "refused"}
    /\ ~ended
    /\ ended' = TRUE
    /\ UNCHANGED <<phase, listed, tags, scanVars>>

\* The dependencies are read: see LocalActions.  Reading may fail.
ReadDependencies ==
    /\ phase = "read"
    /\ phase' \in {"resolve", "rejected"}
    /\ UNCHANGED <<ended, listed, tags, scanVars>>

\* git ls-remote may fail, and the context is looked at after it.
Resolve ==
    /\ phase = "resolve"
    /\ \/ ~ended /\ phase' = "parse"
       \/ phase' = "rejected"
    /\ UNCHANGED <<ended, listed, tags, scanVars>>

\* addActionTag on an entry of the map: a peeled line names the commit an
\* annotated tag points to and wins over the base line, in either order.

\* Mutant: the last line wins.
MergedLast(tag, line) ==
    [base   |-> tag.base \/ ~line.peeled,
     peeled |-> tag.peeled \/ line.peeled,
     commit |-> line.commit]

Merged(tag, line) ==
    [base   |-> tag.base \/ ~line.peeled,
     peeled |-> tag.peeled \/ line.peeled,
     commit |-> IF line.peeled \/ ~tag.peeled THEN line.commit ELSE tag.commit]

Repeated(line) ==
    IF line.peeled THEN tags[line.name].peeled ELSE tags[line.name].base

\* One line of the listing.  Lines that name no stable tag change nothing.
AddTag(line) ==
    /\ phase = "parse"
    /\ Cardinality(listed) < MaxLines
    /\ IF Repeated(line)
         THEN phase' = "rejected" /\ UNCHANGED <<listed, tags>>
         ELSE /\ listed' = listed \union {line}
              /\ tags' = [tags EXCEPT ![line.name] = Merged(@, line)]
              /\ UNCHANGED phase
    /\ UNCHANGED <<ended, scanVars>>

MalformedLine ==
    /\ phase = "parse"
    /\ phase' = "rejected"
    /\ UNCHANGED <<ended, listed, tags, scanVars>>

\* The end of the listing: at least one tag, and none without its base line.
EndListing ==
    /\ phase = "parse"
    /\ phase' = IF Known # {} /\ \A n \in Known : tags[n].base THEN "pin" ELSE "rejected"
    /\ UNCHANGED <<ended, listed, tags, scanVars>>

-----------------------------------------------------------------------------
(* verifyActionReference *)

Scan(from, without) ==
    /\ unseen' = from
    /\ excluded' = without
    /\ latest' = None

\* The version the pin is annotated with must be a tag, at the pinned commit.
VerifyPin(p) ==
    /\ phase = "pin"
    /\ pin' = p
    /\ IF p.version \in Known /\ tags[p.version].commit = p.commit
         THEN phase' = "newest" /\ Scan(Known, None)
         ELSE phase' = "refused" /\ Scan({}, None)
    /\ UNCHANGED <<ended, listed, tags>>

\* Mutant: of equal versions, the first one met is kept.
BetterOlder(n) == latest = None \/ Older(latest, n)

\* selectLatestActionTag prefers the newer version and, of equal ones, the name
\* with more components.
Better(n) ==
    \/ latest = None
    \/ Older(latest, n)
    \/ Same(latest, n) /\ Len(n) > Len(latest)

See(n) ==
    /\ phase \in {"newest", "remaining"}
    /\ n \in unseen
    /\ unseen' = unseen \ {n}
    /\ latest' = IF ~(excluded # None /\ Same(n, excluded)) /\ Better(n) THEN n ELSE latest
    /\ UNCHANGED <<ended, phase, listed, tags, pin, excluded>>

Conclude(current) == phase' = IF current THEN "current" ELSE "refused"

\* The newest tag is known: the pin names it, or excludes exactly it.
CompareNewest ==
    /\ phase = "newest"
    /\ unseen = {}
    /\ \/ /\ Same(pin.version, latest)
          /\ Conclude(pin.version = latest /\ pin.excluded = None)
          /\ UNCHANGED scanVars
       \/ /\ ~Same(pin.version, latest)
          /\ pin.excluded # latest
          /\ Conclude(FALSE)
          /\ UNCHANGED scanVars
       \/ /\ ~Same(pin.version, latest)
          /\ pin.excluded = latest
          /\ phase' = "remaining"
          /\ Scan(Known, latest)
          /\ UNCHANGED pin
    /\ UNCHANGED <<ended, listed, tags>>

CompareRemaining ==
    /\ phase = "remaining"
    /\ unseen = {}
    /\ Conclude(latest # None /\ pin.version = latest)
    /\ UNCHANGED <<ended, listed, tags, scanVars>>

-----------------------------------------------------------------------------
NextPin ==
    /\ phase = "current"
    /\ phase' = "pin"
    /\ UNCHANGED <<ended, listed, tags, scanVars>>

\* Each repository starts from an empty map; what a scan holds is local to it.
NextRepository ==
    /\ phase = "current"
    /\ phase' = "resolve"
    /\ listed' = {}
    /\ tags' = NoTags
    /\ pin' = NoPin
    /\ Scan({}, None)
    /\ UNCHANGED ended

\* The context is looked at once more after the last repository.
Finish ==
    /\ phase = "current"
    /\ phase' = IF ended THEN "rejected" ELSE "done"
    /\ UNCHANGED <<ended, listed, tags, scanVars>>

Finished == phase \in {"done", "rejected", "refused"} /\ UNCHANGED vars

Next ==
    \/ EndContext
    \/ ReadDependencies
    \/ Resolve
    \/ \E line \in Lines : AddTag(line)
    \/ MalformedLine
    \/ EndListing
    \/ \E p \in Pins : VerifyPin(p)
    \/ \E n \in Names : See(n)
    \/ CompareNewest
    \/ CompareRemaining
    \/ NextPin
    \/ NextRepository
    \/ Finish
    \/ Finished

Spec == Init /\ [][Next]_vars
=============================================================================
