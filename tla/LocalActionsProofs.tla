-------------------------- MODULE LocalActionsProofs --------------------------
(***************************************************************************)
(* Proofs about the expansion of workflow references, for any repository:  *)
(* any number of workflows and local actions that refer to each other in   *)
(* any way, and any budgets.                                               *)
(***************************************************************************)
EXTENDS LocalActionsProperties, FiniteSetTheorems, TLAPS

-----------------------------------------------------------------------------
(* The inductive invariant, by concern *)

Frames == [file : Files, at : Nat \ {0}]

TypeOK ==
    /\ content \in Repositories
    /\ ended \in BOOLEAN
    /\ turn \in 1 .. Len(Workflows) + 1
    /\ stack \in Seq(Frames)
    /\ entering \in Seq(Actions) /\ Len(entering) <= 1
    /\ visited \in SUBSET Actions
    /\ active \in SUBSET Actions
    /\ references \in 0 .. MaxReferences
    /\ actions \in 0 .. MaxActions
    /\ bytes \in 0 .. MaxBytes
    /\ found \in Seq(Files \X (Pinned \union Unpinned))
    /\ status \in {"running", "verified", "rejected"}

\* The stack stands on the workflow whose turn it is, and the actions above it,
\* with the one about to be read, are the active ones, each of them once.
StackOK ==
    /\ stack = <<>> => entering = <<>> /\ active = {}
    /\ status # "running" => stack = <<>>
    /\ status = "verified" => turn > Len(Workflows)
    /\ stack # <<>> => turn <= Len(Workflows) /\ stack[1].file = Workflows[turn]
    /\ \A i \in DOMAIN stack :
        /\ i > 1 => stack[i].file \in Actions
        /\ Inspected(stack[i].file)
        /\ stack[i].at <= Len(content[stack[i].file]) + 1
    /\ entering # <<>> => Top.at <= Len(content[Top.file]) /\ Reference = entering[1]
    /\ active = {stack[i].file : i \in 2 .. Len(stack)} \union {entering[i] : i \in DOMAIN entering}
    /\ \A i, j \in 2 .. Len(stack) : i # j => stack[i].file # stack[j].file
    /\ \A i \in 2 .. Len(stack) : entering # <<>> => stack[i].file # entering[1]
    /\ visited \intersect active = {}

\* Nothing a file refers to is refused, and the actions it refers to are done.
Settled(f) ==
    /\ Refers(f) \intersect (Unpinned \union Undeclared) = {}
    /\ Refers(f) \intersect Actions \subseteq visited

\* A frame's references are settled up to the next one, but for the action that
\* the frame above it expands; what is done is settled and free of cycles.
SettledOK ==
    /\ \A i \in DOMAIN stack : \A j \in 1 .. stack[i].at - 1 :
        LET r == content[stack[i].file][j] IN
        /\ r \notin Undeclared
        /\ r \in Actions => r \in visited \/ (i < Len(stack) /\ r = stack[i + 1].file)
    /\ \A f \in visited : Settled(f) /\ f \notin Below(f)
    /\ \A t \in 1 .. turn - 1 : Settled(Workflows[t])

\* Each frame is reached from every frame below it, and all that was ever entered
\* from some workflow.
PathOK ==
    /\ \A i, j \in DOMAIN stack : i < j => stack[j].file \in Below(stack[i].file)
    /\ visited \union active \subseteq Reachable

IInv == StackOK /\ SettledOK /\ PathOK

-----------------------------------------------------------------------------
(* What a file leads to *)

\* The files of a repository are sequences of references.
LEMMA ContentType ==
    ASSUME TypeOK, NEW f \in Files
    PROVE  content[f] \in Seq(References)
BY LocalActionsAssumption DEF TypeOK

\* A file leads to the actions it refers to and to what those lead to, ...
LEMMA BelowDirect ==
    ASSUME NEW f, NEW d \in Refers(f) \intersect Actions
    PROVE  d \in Below(f)
BY DEF Below

LEMMA BelowStep ==
    ASSUME NEW f, NEW e \in Below(f), NEW d \in Refers(e) \intersect Actions
    PROVE  d \in Below(f)
BY DEF Below, Closed

\* ... and to nothing outside a closed set that holds the actions it refers to.
LEMMA BelowLeast ==
    ASSUME NEW f, NEW S \in SUBSET Actions, Closed(S), Refers(f) \intersect Actions \subseteq S
    PROVE  Below(f) \subseteq S
BY DEF Below

\* What is reachable is closed.
LEMMA ReachableStep ==
    ASSUME NEW f \in Reachable, NEW d \in Refers(f) \intersect Actions
    PROVE  d \in Reachable
BY BelowDirect, BelowStep DEF Reachable

\* All of this is about the repository, which does not change.
LEMMA Static ==
    ASSUME content' = content
    PROVE  /\ \A f : Refers(f)' = Refers(f) /\ Below(f)' = Below(f)
           /\ \A f : Inspected(f)' <=> Inspected(f)
           /\ Reachable' = Reachable
<1>1. \A f : Refers(f)' = Refers(f)
  BY DEF Refers
<1>2. \A S : Closed(S)' <=> Closed(S)
  BY <1>1 DEF Closed
<1>3. \A f : Below(f)' = Below(f)
  BY <1>1, <1>2 DEF Below
<1> QED
  BY <1>1, <1>3 DEF Inspected, Reachable

-----------------------------------------------------------------------------
(* The stack *)

\* While there is a stack, its top is one of its frames, on a file of the repository.
LEMMA TopType ==
    ASSUME TypeOK, stack # <<>>
    PROVE  /\ Len(stack) \in Nat \ {0}
           /\ Len(stack) \in DOMAIN stack
           /\ Top \in Frames
           /\ Top.file \in Files
           /\ content[Top.file] \in Seq(References)
<1>1. Len(stack) \in Nat \ {0} /\ Len(stack) \in DOMAIN stack /\ Top \in Frames
  BY DEF TypeOK, Top
<1>2. Top.file \in Files
  BY <1>1 DEF Frames
<1> QED
  BY <1>1, <1>2, ContentType

\* What a frame refers to next is a reference of its file.
LEMMA ReferenceType ==
    ASSUME TypeOK, stack # <<>>, Top.at <= Len(content[Top.file])
    PROVE  /\ Reference \in References
           /\ Reference \in Refers(Top.file)
<1>1. Top.at \in DOMAIN content[Top.file]
  BY TopType DEF Frames
<1> QED
  BY <1>1, TopType DEF Reference, Refers

\* Advancing moves the top frame on by one reference and leaves the others alone.
LEMMA AdvancedFrames ==
    ASSUME TypeOK, stack # <<>>
    PROVE  /\ Advanced \in Seq(Frames)
           /\ Len(Advanced) = Len(stack) /\ DOMAIN Advanced = DOMAIN stack
           /\ \A i \in DOMAIN stack : Advanced[i].file = stack[i].file
           /\ \A i \in DOMAIN stack : i # Len(stack) => Advanced[i].at = stack[i].at
           /\ Advanced[Len(stack)].at = Top.at + 1
<1>1. stack \in Seq(Frames) /\ Top \in Frames /\ Len(stack) \in DOMAIN stack
  BY TopType DEF TypeOK
<1>2. [stack[Len(stack)] EXCEPT !.at = @ + 1] \in Frames
  BY <1>1 DEF Frames, Top
<1>3. \A i \in DOMAIN stack : stack[i] \in Frames
  BY <1>1
<1> QED
  BY <1>1, <1>2, <1>3 DEF Advanced, Frames, Top

-----------------------------------------------------------------------------
(* The types *)

LEMMA TypeInit == Init => TypeOK
<1>1. Len(Workflows) \in Nat
  BY LocalActionsAssumption
<1>2. /\ <<>> \in Seq(Frames) /\ <<>> \in Seq(Actions) /\ Len(<<>>) = 0
      /\ <<>> \in Seq(Files \X (Pinned \union Unpinned))
  OBVIOUS
<1>3. 0 \in 0 .. MaxReferences /\ 0 \in 0 .. MaxActions /\ 0 \in 0 .. MaxBytes
  BY LocalActionsAssumption
<1>4. 1 \in 1 .. Len(Workflows) + 1
  BY <1>1
<1>5. SUFFICES ASSUME Init PROVE TypeOK
  OBVIOUS
<1>6. entering \in Seq(Actions) /\ Len(entering) <= 1
  BY <1>2, <1>5 DEF Init
<1>7. stack \in Seq(Frames) /\ found \in Seq(Files \X (Pinned \union Unpinned))
  BY <1>2, <1>5 DEF Init
<1> QED
  BY <1>3, <1>4, <1>5, <1>6, <1>7 DEF Init, TypeOK

LEMMA TypeStep == TypeOK /\ StackOK /\ [Next]_vars => TypeOK'
<1> SUFFICES ASSUME TypeOK, StackOK, [Next]_vars PROVE TypeOK'
  OBVIOUS
<1> USE LocalActionsAssumption
<1>1. CASE UNCHANGED vars
  BY <1>1 DEF TypeOK, vars, budgets
<1>2. CASE End
  BY <1>2 DEF End, TypeOK, budgets
<1>3. ASSUME Reject, UNCHANGED <<content, ended, turn, visited, actions, bytes, found>>,
             references' \in 0 .. MaxReferences
      PROVE  TypeOK'
  BY <1>3 DEF Reject, TypeOK
<1>4. ASSUME Admitted PROVE references' \in 0 .. MaxReferences /\ stack # <<>> /\ Reference \in References /\ stack \in Seq(Frames)
  BY <1>4, ReferenceType DEF Admitted, HasReference, Working, TypeOK
<1>5. CASE RejectWorkflow \/ RejectUnadmitted \/ RejectRead
  BY <1>3, <1>5 DEF RejectWorkflow, RejectUnadmitted, RejectRead, budgets, TypeOK
<1>6. CASE AddUndeclared \/ AddCycle \/ RejectAction
  BY <1>3, <1>4, <1>6 DEF AddUndeclared, AddCycle, RejectAction
<1>7. CASE ReadWorkflow
  <2>1. Workflows[turn] \in Files
    BY <1>7 DEF ReadWorkflow, TypeOK, Files
  <2>2. <<Frame(Workflows[turn])>> \in Seq(Frames)
    BY <2>1 DEF Frame, Frames
  <2> QED
    BY <1>7, <2>2 DEF ReadWorkflow, TypeOK, budgets
<1>8. CASE Verified
  BY <1>8 DEF Verified, TypeOK, budgets
<1>9. CASE AddWorkflow \/ AddVisited
  BY <1>4, <1>9, AdvancedFrames DEF AddWorkflow, AddVisited, TypeOK
<1>10. CASE AddExternal
  <2>1. <<Top.file, Reference>> \in Files \X (Pinned \union Unpinned)
    BY <1>4, <1>10, TopType DEF AddExternal
  <2> QED
    BY <1>4, <1>10, <2>1, AdvancedFrames DEF AddExternal, TypeOK
<1>11. CASE EnterAction
  BY <1>4, <1>11 DEF EnterAction, TypeOK, IsNew
<1>12. CASE ReadAction
  <2>1. entering[1] \in Actions /\ stack # <<>>
    BY <1>12 DEF ReadAction, Reading, TypeOK, StackOK
  <2>2. Append(Advanced, Frame(entering[1])) \in Seq(Frames)
    BY <2>1, AdvancedFrames DEF Frame, Frames, Files
  <2>3. bytes + Size[entering[1]] \in 0 .. MaxBytes
    BY <1>12, <2>1, SMTT(30) DEF ReadAction, TypeOK
  <2> QED
    BY <1>12, <2>2, <2>3 DEF ReadAction, TypeOK
<1>13. CASE LeaveAction
  <2>1. stack # <<>> /\ Top.file \in Actions
    BY <1>13, TopType DEF LeaveAction, Exhausted, Working, StackOK, Top
  <2>2. SubSeq(stack, 1, Len(stack) - 1) \in Seq(Frames)
    BY <2>1, TopType DEF TypeOK
  <2> QED
    BY <1>13, <2>1, <2>2 DEF LeaveAction, TypeOK, budgets
<1>14. CASE LeaveWorkflow
  <2>1. turn' \in 1 .. Len(Workflows) + 1
    BY <1>14 DEF LeaveWorkflow, Exhausted, Working, TypeOK, StackOK
  <2>2. stack' \in Seq(Frames)
    BY <1>14 DEF LeaveWorkflow
  <2> QED
    BY <1>14, <2>1, <2>2 DEF LeaveWorkflow, TypeOK, budgets
<1>15. CASE Finished
  BY <1>15 DEF Finished, TypeOK, vars, budgets
<1> QED
  BY <1>1, <1>2, <1>5, <1>6, <1>7, <1>8, <1>9, <1>10, <1>11, <1>12, <1>13, <1>14, <1>15
  DEF Next, Step

-----------------------------------------------------------------------------
(* The invariant, action by action *)

LEMMA InvInit == Init => IInv
<1> SUFFICES ASSUME Init PROVE IInv
  OBVIOUS
<1>1. stack = <<>> /\ entering = <<>> /\ DOMAIN stack = {} /\ Len(stack) = 0
  BY DEF Init
<1>2. StackOK
  BY <1>1 DEF Init, StackOK
<1>3. SettledOK
  BY <1>1 DEF Init, SettledOK
<1>4. PathOK
  BY <1>1 DEF Init, PathOK
<1> QED
  BY <1>2, <1>3, <1>4 DEF IInv

\* A rejection empties the stack and what is active, and settles nothing.
LEMMA RejectStep ==
    ASSUME TypeOK, IInv, Reject, UNCHANGED <<content, turn, visited>>
    PROVE  IInv'
<1>1. /\ stack' = <<>> /\ entering' = <<>> /\ active' = {} /\ status' = "rejected"
      /\ DOMAIN stack' = {} /\ Len(stack') = 0 /\ DOMAIN entering' = {}
  BY DEF Reject
<1>2. StackOK'
  BY <1>1 DEF StackOK
<1>3. SettledOK'
  <2>1. \A f : Settled(f) => Settled(f)'
    BY Static DEF Settled
  <2> QED
    BY <1>1, <2>1, Static DEF SettledOK, IInv
<1>4. PathOK'
  BY <1>1, Static DEF PathOK, IInv
<1> QED
  BY <1>2, <1>3, <1>4 DEF IInv

\* A reference that is declared, external or visited needs no frame of its own.
LEMMA AdvanceStep ==
    ASSUME TypeOK, IInv, HasReference,
           Reference \notin Undeclared, Reference \in Actions => Reference \in visited,
           stack' = Advanced, UNCHANGED <<content, turn, entering, visited, active, status>>
    PROVE  IInv'
<1>1. stack # <<>> /\ entering = <<>> /\ status = "running" /\ Top.at <= Len(content[Top.file])
  BY DEF HasReference, Working
<1>2. /\ Len(stack) \in Nat \ {0} /\ stack' # <<>>
      /\ Len(stack') = Len(stack) /\ DOMAIN stack' = DOMAIN stack /\ DOMAIN stack = 1 .. Len(stack)
      /\ \A i \in DOMAIN stack : stack'[i].file = stack[i].file
      /\ \A i \in DOMAIN stack : i # Len(stack) => stack'[i].at = stack[i].at
      /\ stack'[Len(stack)].at = Top.at + 1
  BY <1>1, TopType, AdvancedFrames DEF TypeOK
<1>3. Top = stack[Len(stack)] /\ Top.at \in Nat \ {0} /\ content[Top.file] \in Seq(References)
  BY <1>1, TopType DEF Top, Frames
<1>4. StackOK'
  <2>1. \A i \in DOMAIN stack' :
           /\ i > 1 => stack'[i].file \in Actions
           /\ Inspected(stack[i].file)'
           /\ stack'[i].at <= Len(content[stack'[i].file]) + 1
    <3> SUFFICES ASSUME NEW i \in DOMAIN stack
                 PROVE  /\ i > 1 => stack'[i].file \in Actions
                        /\ Inspected(stack[i].file)'
                        /\ stack'[i].at <= Len(content[stack'[i].file]) + 1
      BY <1>2
    <3>1. Inspected(stack[i].file)'
      BY <1>2 DEF Inspected, StackOK, IInv
    <3>2. stack'[i].at <= Len(content[stack'[i].file]) + 1
      <4>1. CASE i = Len(stack)
        BY <1>1, <1>2, <1>3, <4>1
      <4>2. CASE i # Len(stack)
        BY <1>2, <4>2 DEF StackOK, IInv
      <4> QED
        BY <4>1, <4>2
    <3> QED
      BY <1>2, <3>1, <3>2 DEF StackOK, IInv
  <2>2. active = {stack'[i].file : i \in 2 .. Len(stack')}
    <3>1. active = {stack[i].file : i \in 2 .. Len(stack)}
      BY <1>1 DEF StackOK, IInv
    <3>2. \A i \in 2 .. Len(stack) : i \in DOMAIN stack
      BY <1>2
    <3> QED
      BY <1>2, <3>1, <3>2
  <2>3. \A i, j \in 2 .. Len(stack) : i # j => stack'[i].file # stack'[j].file
    <3>1. \A i \in 2 .. Len(stack) : i \in DOMAIN stack
      BY <1>2
    <3> QED
      BY <1>2, <3>1, SMTT(30) DEF StackOK, IInv
  <2>4. turn <= Len(Workflows) /\ stack'[1].file = Workflows[turn]
    BY <1>1, <1>2 DEF StackOK, IInv
  <2>5. {entering[i] : i \in DOMAIN entering} = {}
    BY <1>1
  <2>6. visited \intersect active = {}
    BY DEF StackOK, IInv
  <2> QED
    BY <1>1, <1>2, <2>1, <2>2, <2>3, <2>4, <2>5, <2>6 DEF StackOK
<1>5. SettledOK'
  <2>1. \A f : Settled(f) => Settled(f)'
    BY Static DEF Settled
  <2>2. ASSUME NEW i \in DOMAIN stack', NEW j \in 1 .. stack'[i].at - 1
        PROVE  LET r == content[stack'[i].file][j] IN
               /\ r \notin Undeclared
               /\ r \in Actions => r \in visited \/ (i < Len(stack') /\ r = stack'[i + 1].file)
    <3>1. CASE i # Len(stack)
      BY <1>2, <2>2, <3>1 DEF SettledOK, IInv
    <3>2. CASE i = Len(stack) /\ j # Top.at
      <4>1. j \in 1 .. stack[i].at - 1
        BY <1>2, <1>3, <2>2, <3>2
      <4> QED
        BY <1>2, <1>3, <4>1, <3>2 DEF SettledOK, IInv
    <3>3. CASE i = Len(stack) /\ j = Top.at
      BY <1>2, <1>3, <3>3 DEF Reference
    <3> QED
      BY <3>1, <3>2, <3>3
  <2> QED
    BY <2>1, <2>2, Static DEF SettledOK, IInv
<1>6. PathOK'
  BY <1>2, Static DEF PathOK, IInv
<1> QED
  BY <1>4, <1>5, <1>6 DEF IInv

\* Every frame is on a file that some workflow leads to.
LEMMA TopReachable ==
    ASSUME TypeOK, IInv, stack # <<>>
    PROVE  Top.file \in Reachable
<1>1. CASE Len(stack) = 1
  BY <1>1 DEF Top, IInv, StackOK, Declared, Reachable, TypeOK
<1>2. CASE Len(stack) # 1
  <2>1. Len(stack) \in 2 .. Len(stack)
    <3>1. Len(stack) \in Nat \ {0}
      BY TopType
    <3> QED
      BY <1>2, <3>1
  <2> QED
    BY <2>1 DEF Top, IInv, StackOK, PathOK
<1> QED
  BY <1>1, <1>2

LEMMA EnterStep == TypeOK /\ IInv /\ EnterAction => IInv'
<1> SUFFICES ASSUME TypeOK, IInv, EnterAction PROVE IInv'
  OBVIOUS
<1>1. /\ stack # <<>> /\ entering = <<>> /\ status = "running" /\ Top.at <= Len(content[Top.file])
      /\ Reference \in Actions \ (visited \union active)
      /\ active' = active \union {Reference} /\ entering' = <<Reference>>
      /\ UNCHANGED <<content, turn, stack, visited, status>>
  BY DEF EnterAction, Admitted, HasReference, Working, IsNew
<1>2. Top' = Top /\ Reference' = Reference
  BY <1>1 DEF Top, Reference
<1>3. /\ entering' # <<>> /\ entering'[1] = Reference
      /\ {entering'[i] : i \in DOMAIN entering'} = {Reference}
      /\ {entering[i] : i \in DOMAIN entering} = {}
  BY <1>1
<1>4. StackOK'
  <2>1. \A i \in DOMAIN stack : Inspected(stack[i].file)'
    BY <1>1, Static DEF IInv, StackOK
  <2>2. active' = {stack[i].file : i \in 2 .. Len(stack)} \union {Reference}
    BY <1>1, <1>3 DEF IInv, StackOK
  <2>3. \A i \in 2 .. Len(stack) : stack[i].file # Reference
    BY <1>1 DEF IInv, StackOK
  <2>4. visited' \intersect active' = {}
    BY <1>1 DEF IInv, StackOK
  <2> QED
    BY <1>1, <1>2, <1>3, <2>1, <2>2, <2>3, <2>4 DEF IInv, StackOK
<1>5. SettledOK'
  <2>1. \A f : Settled(f) => Settled(f)'
    BY <1>1, Static DEF Settled
  <2> QED
    BY <1>1, <2>1, Static DEF SettledOK, IInv
<1>6. PathOK'
  <2>1. Reference \in Reachable
    BY <1>1, ReferenceType, ReachableStep, TopReachable
  <2> QED
    BY <1>1, <2>1, Static DEF PathOK, IInv
<1> QED
  BY <1>4, <1>5, <1>6 DEF IInv

LEMMA ReadStep == TypeOK /\ IInv /\ ReadAction => IInv'
<1> SUFFICES ASSUME TypeOK, IInv, ReadAction PROVE IInv'
  OBVIOUS
<1>e. PICK e \in Actions : e = entering[1]
  BY DEF ReadAction, Reading, TypeOK
<1>n. PICK n \in Nat : n = Len(stack)
  BY DEF TypeOK
<1>1. /\ entering # <<>> /\ status = "running" /\ Inspected(e)
      /\ stack' = Append(Advanced, Frame(e)) /\ entering' = <<>>
      /\ UNCHANGED <<content, turn, visited, active, status>>
  BY <1>e DEF ReadAction, Reading
<1>2. /\ stack # <<>> /\ Top.at <= Len(content[Top.file]) /\ Reference = e
      /\ active = {stack[i].file : i \in 2 .. n} \union {e}
  <2>1. {entering[i] : i \in DOMAIN entering} = {e}
    BY <1>1, <1>e DEF TypeOK
  <2> QED
    BY <1>1, <2>1, <1>e, <1>n DEF StackOK, IInv
<1>3. /\ n \in Nat \ {0} /\ DOMAIN stack = 1 .. n /\ e \in Files
      /\ Top = stack[n] /\ Top.at \in Nat \ {0} /\ content[Top.file] \in Seq(References)
  BY <1>1, <1>2, <1>n, TopType DEF Top, Frames, Files, TypeOK
<1>4. /\ Len(stack') = n + 1 /\ DOMAIN stack' = 1 .. n + 1 /\ stack' # <<>>
      /\ \A i \in 1 .. n : stack'[i].file = stack[i].file
      /\ \A i \in 1 .. n - 1 : stack'[i].at = stack[i].at
      /\ stack'[n].at = Top.at + 1
      /\ stack'[n + 1].file = e /\ stack'[n + 1].at = 1
  <2>1. /\ Advanced \in Seq(Frames) /\ Len(Advanced) = n
        /\ \A i \in 1 .. n : Advanced[i].file = stack[i].file
        /\ \A i \in 1 .. n - 1 : Advanced[i].at = stack[i].at
        /\ Advanced[n].at = Top.at + 1
    BY <1>2, <1>3, <1>n, AdvancedFrames
  <2>2. /\ Len(stack') = n + 1 /\ DOMAIN stack' = 1 .. n + 1 /\ stack' # <<>>
        /\ \A i \in 1 .. n : stack'[i] = Advanced[i]
        /\ stack'[n + 1] = Frame(e)
    BY <1>1, <1>3, <2>1
  <2> QED
    BY <1>3, <2>1, <2>2 DEF Frame
<1>5. StackOK'
  <2>1. \A i \in 1 .. n + 1 :
           /\ i > 1 => stack'[i].file \in Actions
           /\ Inspected(stack[i].file)'
           /\ stack'[i].at <= Len(content[stack'[i].file]) + 1
    <3> SUFFICES ASSUME NEW i \in 1 .. n + 1
                 PROVE  /\ i > 1 => stack'[i].file \in Actions
                        /\ Inspected(stack[i].file)'
                        /\ stack'[i].at <= Len(content[stack'[i].file]) + 1
      OBVIOUS
    <3>1. CASE i = n + 1
      <4>1. Len(content[e]) \in Nat
        BY <1>3, ContentType
      <4> QED
        BY <1>1, <1>3, <1>4, <3>1, <4>1 DEF Inspected
    <3>2. CASE i # n + 1
      <4>1. i \in 1 .. n /\ i \in DOMAIN stack
        BY <1>3, <3>2
      <4>2. /\ i > 1 => stack[i].file \in Actions
            /\ Inspected(stack[i].file)
            /\ stack[i].at <= Len(content[stack[i].file]) + 1
        BY <4>1 DEF StackOK, IInv
      <4>3. stack'[i].at <= Len(content[stack'[i].file]) + 1
        <5>1. CASE i = n
          BY <1>2, <1>3, <1>4, <5>1, <4>1
        <5>2. CASE i # n
          <6>1. i \in 1 .. n - 1
            BY <1>3, <4>1, <5>2
          <6> QED
            BY <1>4, <4>1, <4>2, <6>1
        <5> QED
          BY <5>1, <5>2
      <4> QED
        BY <1>1, <1>4, <4>1, <4>2, <4>3 DEF Inspected
    <3> QED
      BY <3>1, <3>2
  <2>2. active = {stack'[i].file : i \in 2 .. n + 1}
    <3>1. \A i \in 2 .. n : i \in 1 .. n
      OBVIOUS
    <3>2. {stack'[i].file : i \in 2 .. n + 1} = {stack[i].file : i \in 2 .. n} \union {e}
      BY <1>3, <1>4, <3>1, SMTT(30)
    <3> QED
      BY <1>2, <3>2
  <2>3. \A i, j \in 2 .. n + 1 : i # j => stack'[i].file # stack'[j].file
    <3>1. \A i, j \in 2 .. n : i # j => stack'[i].file # stack'[j].file
      BY <1>3, <1>4, SMTT(30) DEF StackOK, IInv
    <3>2. \A i \in 2 .. n : stack'[i].file # e
      <4>1. \A i \in 2 .. n : stack[i].file # e
        BY <1>1, <1>e, <1>n DEF StackOK, IInv
      <4> QED
        BY <1>3, <1>4, <4>1
    <3> SUFFICES ASSUME NEW i \in 2 .. n + 1, NEW j \in 2 .. n + 1, i # j
                 PROVE  stack'[i].file # stack'[j].file
      OBVIOUS
    <3>3. CASE i = n + 1
      <4>1. j \in 2 .. n
        BY <1>3, <3>3
      <4> QED
        BY <1>4, <3>2, <3>3, <4>1
    <3>4. CASE j = n + 1
      <4>1. i \in 2 .. n
        BY <1>3, <3>4
      <4> QED
        BY <1>4, <3>2, <3>4, <4>1
    <3>5. CASE i # n + 1 /\ j # n + 1
      <4>1. i \in 2 .. n /\ j \in 2 .. n
        BY <1>3, <3>5
      <4> QED
        BY <3>1, <4>1
    <3> QED
      BY <3>3, <3>4, <3>5
  <2>4. turn <= Len(Workflows) /\ stack'[1].file = Workflows[turn]
    BY <1>2, <1>3, <1>4 DEF StackOK, IInv
  <2>5. {entering'[i] : i \in DOMAIN entering'} = {}
    BY <1>1
  <2>6. visited \intersect active = {}
    BY DEF StackOK, IInv
  <2> QED
    BY <1>1, <1>4, <2>1, <2>2, <2>3, <2>4, <2>5, <2>6 DEF StackOK
<1>6. SettledOK'
  <2>1. \A f : Settled(f) => Settled(f)'
    BY <1>1, Static DEF Settled
  <2>2. ASSUME NEW i \in 1 .. n + 1, NEW j \in 1 .. stack'[i].at - 1
        PROVE  LET r == content[stack'[i].file][j] IN
               /\ r \notin Undeclared
               /\ r \in Actions => r \in visited \/ (i < n + 1 /\ r = stack'[i + 1].file)
    <3>1. CASE i = n + 1
      BY <1>4, <2>2, <3>1
    <3>2. CASE i = n /\ j = Top.at
      BY <1>2, <1>3, <1>4, <3>2, LocalActionsAssumption DEF Reference
    <3>3. CASE i = n /\ j # Top.at
      <4>1. i \in DOMAIN stack /\ j \in 1 .. stack[i].at - 1
        BY <1>3, <1>4, <2>2, <3>3
      <4> QED
        BY <1>3, <1>4, <4>1, <3>3 DEF SettledOK, IInv
    <3>4. CASE i \in 1 .. n - 1
      <4>1. i \in DOMAIN stack /\ j \in 1 .. stack[i].at - 1 /\ i < Len(stack) /\ i + 1 \in 1 .. n
        BY <1>3, <1>4, <1>n, <2>2, <3>4
      <4>2. /\ content[stack[i].file][j] \notin Undeclared
            /\ content[stack[i].file][j] \in Actions =>
                  content[stack[i].file][j] \in visited \/ content[stack[i].file][j] = stack[i + 1].file
        BY <4>1 DEF SettledOK, IInv
      <4>3. stack'[i].file = stack[i].file /\ stack'[i + 1].file = stack[i + 1].file
        BY <1>4, <3>4, <4>1, SMTT(30)
      <4> QED
        BY <3>4, <4>2, <4>3
    <3> QED
      BY <1>3, <3>1, <3>2, <3>3, <3>4
  <2> QED
    BY <1>1, <1>4, <2>1, <2>2, Static, ZenonT(30) DEF SettledOK, IInv
<1>7. PathOK'
  <2>1. e \in Below(Top.file)
    BY <1>2, <1>3, BelowDirect, ReferenceType
  <2>2. \A i \in 1 .. n : e \in Below(stack[i].file)
    <3> SUFFICES ASSUME NEW i \in 1 .. n PROVE e \in Below(stack[i].file)
      OBVIOUS
    <3>1. CASE i = n
      BY <1>3, <2>1, <3>1
    <3>2. CASE i # n
      <4>1. Top.file \in Below(stack[i].file)
        <5>1. i \in DOMAIN stack /\ n \in DOMAIN stack /\ i < n
          BY <1>3, <3>2
        <5> QED
          BY <1>3, <5>1 DEF PathOK, IInv
      <4> QED
        BY <1>2, <1>3, <4>1, BelowStep, ReferenceType
    <3> QED
      BY <3>1, <3>2
  <2>3. \A i, j \in 1 .. n + 1 : i < j => stack'[j].file \in Below(stack'[i].file)
    <3> SUFFICES ASSUME NEW i \in 1 .. n + 1, NEW j \in 1 .. n + 1, i < j
                 PROVE  stack'[j].file \in Below(stack'[i].file)
      OBVIOUS
    <3>1. CASE j = n + 1
      BY <1>3, <1>4, <2>2, <3>1
    <3>2. CASE j # n + 1
      BY <1>3, <1>4, <3>2, SMTT(30) DEF PathOK, IInv
    <3> QED
      BY <3>1, <3>2
  <2> QED
    BY <1>1, <1>4, <2>3, Static DEF PathOK, IInv
<1> QED
  BY <1>5, <1>6, <1>7 DEF IInv

\* All references of an exhausted file are settled.
LEMMA ExhaustedSettled ==
    ASSUME TypeOK, IInv, Exhausted
    PROVE  /\ Top.file \in Files
           /\ Settled(Top.file)
<1>1. /\ stack # <<>> /\ Top.at > Len(content[Top.file])
  BY DEF Exhausted, Working
<1>2. /\ Len(stack) \in Nat \ {0} /\ Len(stack) \in DOMAIN stack /\ Top = stack[Len(stack)]
      /\ Top.at \in Nat \ {0} /\ content[Top.file] \in Seq(References) /\ Top.file \in Files
  BY <1>1, TopType DEF Top, Frames
<1>3. \A j \in DOMAIN content[Top.file] : content[Top.file][j] \notin Unpinned
  BY <1>2 DEF StackOK, IInv, Inspected
<1>4. ASSUME NEW j \in DOMAIN content[Top.file]
      PROVE  /\ content[Top.file][j] \notin Undeclared
             /\ content[Top.file][j] \in Actions => content[Top.file][j] \in visited
  <2>1. j \in 1 .. stack[Len(stack)].at - 1
    BY <1>1, <1>2
  <2> QED
    BY <1>2, <2>1 DEF SettledOK, IInv
<1> QED
  BY <1>2, <1>3, <1>4 DEF Settled, Refers

\* What is visited leads to what is visited.
LEMMA VisitedClosed ==
    ASSUME TypeOK, IInv
    PROVE  /\ Closed(visited)
           /\ \A f : Settled(f) => Below(f) \subseteq visited
<1>1. Closed(visited)
  BY DEF IInv, SettledOK, Settled, Closed
<1> QED
  BY <1>1, BelowLeast DEF Settled, TypeOK

LEMMA LeaveActionStep == TypeOK /\ IInv /\ LeaveAction => IInv'
<1> SUFFICES ASSUME TypeOK, IInv, LeaveAction PROVE IInv'
  OBVIOUS
<1>n. PICK n \in Nat : n = Len(stack)
  BY DEF TypeOK
<1>f. PICK f : f = Top.file
  OBVIOUS
<1>1. /\ stack # <<>> /\ entering = <<>> /\ status = "running" /\ n > 1 /\ Exhausted
      /\ visited' = visited \union {f} /\ active' = active \ {f}
      /\ stack' = SubSeq(stack, 1, n - 1)
      /\ UNCHANGED <<content, turn, entering, status>>
  BY <1>f, <1>n DEF LeaveAction, Exhausted, Working
<1>2. DOMAIN stack = 1 .. n /\ f = stack[n].file /\ n \in 2 .. n /\ stack \in Seq(Frames)
  BY <1>1, <1>f, <1>n DEF Top, TypeOK
<1>3. f \in Actions /\ Settled(f) /\ f \in active
  <2>1. f \in Actions
    BY <1>1, <1>2 DEF StackOK, IInv
  <2>2. Settled(f)
    BY <1>1, <1>f, ExhaustedSettled
  <2>3. f \in active
    BY <1>1, <1>2, <1>n DEF StackOK, IInv
  <2> QED
    BY <2>1, <2>2, <2>3
<1>4. /\ Len(stack') = n - 1 /\ DOMAIN stack' = 1 .. n - 1 /\ stack' # <<>>
      /\ \A i \in 1 .. n - 1 : stack'[i] = stack[i]
  <2>1. \A i \in 1 .. n - 1 : i \in 1 .. n /\ i \in 1 .. Len(stack)
    BY <1>n
  <2>2. Len(stack') = n - 1 /\ DOMAIN stack' = 1 .. n - 1
    BY <1>1, <1>2, <1>n
  <2>3. \A i \in 1 .. n - 1 : stack'[i] = stack[i]
    BY <1>1, <1>2, <1>n, <2>1
  <2> QED
    BY <1>1, <2>2, <2>3
<1>5. StackOK'
  <2>0. \A i \in 1 .. n - 1 :
           /\ i > 1 => stack[i].file \in Actions
           /\ Inspected(stack[i].file)
           /\ stack[i].at <= Len(content[stack[i].file]) + 1
    <3>1. \A i \in 1 .. n - 1 : i \in DOMAIN stack
      BY <1>2
    <3> QED
      BY <3>1 DEF StackOK, IInv
  <2>1. \A i \in 1 .. n - 1 : Inspected(stack[i].file)'
    BY <1>1, <1>4, <2>0 DEF Inspected
  <2>2. active' = {stack'[i].file : i \in 2 .. n - 1}
    <3>1. active = {stack[i].file : i \in 2 .. n}
      BY <1>1, <1>n DEF StackOK, IInv
    <3>2. \A i \in 2 .. n - 1 : stack[i].file # f
      BY <1>2, <1>n DEF StackOK, IInv
    <3>3. \A i \in 2 .. n : i \in 2 .. n - 1 \/ i = n
      OBVIOUS
    <3> QED
      BY <1>1, <1>2, <1>4, <3>1, <3>2, <3>3
  <2>3. \A i, j \in 2 .. n - 1 : i # j => stack'[i].file # stack'[j].file
    BY <1>4, <1>n DEF StackOK, IInv
  <2>4. turn <= Len(Workflows) /\ stack'[1].file = Workflows[turn]
    BY <1>1, <1>4 DEF StackOK, IInv
  <2>5. {entering'[i] : i \in DOMAIN entering'} = {}
    BY <1>1
  <2>6. visited' \intersect active' = {}
    BY <1>1 DEF StackOK, IInv
  <2>7. \A i \in 1 .. n - 1 :
           /\ i > 1 => stack'[i].file \in Actions
           /\ stack'[i].at <= Len(content[stack'[i].file]) + 1
    BY <1>4, <2>0
  <2>8. active' = {stack'[i].file : i \in 2 .. Len(stack')}
                    \union {entering'[i] : i \in DOMAIN entering'}
    <3>1. Len(stack') = n - 1
      BY <1>4
    <3> QED
      BY <2>2, <2>5, <3>1
  <2>9. \A i, j \in 2 .. Len(stack') : i # j => stack'[i].file # stack'[j].file
    BY <1>4, <2>3
  <2> QED
    BY <1>1, <1>4, <2>1, <2>4, <2>6, <2>7, <2>8, <2>9 DEF StackOK
<1>6. SettledOK'
  <2>1. \A g : Settled(g) => Settled(g)'
    BY <1>1, Static DEF Settled
  <2>2. f \notin Below(f)
    BY <1>3, VisitedClosed DEF StackOK, IInv
  <2>3. \A g \in visited' : Settled(g)' /\ g \notin Below(g)'
    BY <1>1, <1>3, <2>1, <2>2, Static DEF SettledOK, IInv
  <2>4. ASSUME NEW i \in 1 .. n - 1, NEW j \in 1 .. stack'[i].at - 1
        PROVE  LET r == content[stack'[i].file][j] IN
               /\ r \notin Undeclared
               /\ r \in Actions => r \in visited' \/ (i < n - 1 /\ r = stack'[i + 1].file)
    <3>1. i \in DOMAIN stack /\ j \in 1 .. stack[i].at - 1 /\ stack'[i] = stack[i]
      BY <1>2, <1>4, <2>4
    <3>2. LET r == content[stack[i].file][j] IN
          /\ r \notin Undeclared
          /\ r \in Actions => r \in visited \/ (i < n /\ r = stack[i + 1].file)
      BY <3>1, <1>n DEF SettledOK, IInv
    <3>3. CASE i = n - 1
      BY <1>1, <1>2, <3>1, <3>2, <3>3
    <3>4. CASE i # n - 1
      <4>1. i + 1 \in 1 .. n - 1
        BY <3>4
      <4> QED
        BY <1>1, <1>4, <3>1, <3>2, <4>1
    <3> QED
      BY <3>3, <3>4
  <2> QED
    BY <1>1, <1>4, <2>1, <2>3, <2>4, Static, SMTT(30) DEF SettledOK, IInv
<1>7. PathOK'
  <2>1. \A i, j \in 1 .. n - 1 : i < j => stack'[j].file \in Below(stack'[i].file)
    BY <1>2, <1>4 DEF PathOK, IInv
  <2>2. visited' \union active' \subseteq Reachable
    BY <1>1, <1>3 DEF PathOK, IInv
  <2> QED
    BY <1>1, <1>4, <2>1, <2>2, Static DEF PathOK
<1> QED
  BY <1>5, <1>6, <1>7 DEF IInv

LEMMA LeaveWorkflowStep == TypeOK /\ IInv /\ LeaveWorkflow => IInv'
<1> SUFFICES ASSUME TypeOK, IInv, LeaveWorkflow PROVE IInv'
  OBVIOUS
<1>1. /\ entering = <<>> /\ status = "running" /\ stack # <<>> /\ Len(stack) = 1 /\ Exhausted
      /\ stack' = <<>> /\ turn' = turn + 1
      /\ UNCHANGED <<content, entering, visited, active, status>>
  BY DEF LeaveWorkflow, Exhausted, Working
<1>2. DOMAIN stack' = {} /\ active = {}
  BY <1>1 DEF StackOK, IInv
<1>3. Settled(Workflows[turn])
  BY <1>1, ExhaustedSettled DEF StackOK, IInv, Top
<1>4. StackOK'
  <2>1. Len(stack') = 0 /\ DOMAIN entering' = {}
    BY <1>1
  <2>2. {stack'[i].file : i \in 2 .. Len(stack')} \union {entering'[i] : i \in DOMAIN entering'} = {}
    BY <2>1
  <2> QED
    BY <1>1, <1>2, <2>1, <2>2 DEF StackOK
<1>5. SettledOK'
  <2>1. \A f : Settled(f) => Settled(f)'
    BY <1>1, Static DEF Settled
  <2>2. \A t \in 1 .. turn : Settled(Workflows[t])
    BY <1>3 DEF SettledOK, IInv, TypeOK
  <2>3. \A t \in 1 .. turn' - 1 : Settled(Workflows[t])'
    BY <1>1, <2>1, <2>2 DEF TypeOK
  <2> QED
    BY <1>1, <1>2, <2>1, <2>3, Static DEF SettledOK, IInv
<1>6. PathOK'
  BY <1>1, <1>2, Static DEF PathOK, IInv
<1> QED
  BY <1>4, <1>5, <1>6 DEF IInv

LEMMA ReadWorkflowStep == TypeOK /\ IInv /\ ReadWorkflow => IInv'
<1> SUFFICES ASSUME TypeOK, IInv, ReadWorkflow PROVE IInv'
  OBVIOUS
<1>1. /\ status = "running" /\ stack = <<>> /\ turn <= Len(Workflows)
      /\ Inspected(Workflows[turn]) /\ stack' = <<Frame(Workflows[turn])>>
      /\ UNCHANGED <<content, turn, entering, visited, active, status>>
  BY DEF ReadWorkflow, BetweenWorkflows
<1>2. /\ entering = <<>> /\ active = {}
      /\ DOMAIN stack' = {1} /\ Len(stack') = 1 /\ stack' # <<>>
      /\ stack'[1].file = Workflows[turn] /\ stack'[1].at = 1
  BY <1>1 DEF StackOK, IInv, Frame
<1>3. StackOK'
  <2>1. Len(content[Workflows[turn]]) \in Nat
    BY <1>1, ContentType DEF Files, Declared, TypeOK
  <2>2. Inspected(Workflows[turn])'
    BY <1>1 DEF Inspected
  <2> QED
    BY <1>1, <1>2, <2>1, <2>2 DEF StackOK
<1>4. SettledOK'
  <2>1. \A f : Settled(f) => Settled(f)'
    BY <1>1, Static DEF Settled
  <2> QED
    BY <1>1, <1>2, <2>1, Static DEF SettledOK, IInv
<1>5. PathOK'
  BY <1>1, <1>2, Static DEF PathOK, IInv
<1> QED
  BY <1>3, <1>4, <1>5 DEF IInv

\* The end of the context and a repeated state touch nothing the invariant is about.
LEMMA UnchangedStep ==
    ASSUME IInv, UNCHANGED <<content, turn, stack, entering, visited, active, status>>
    PROVE  IInv'
<1>1. \A f : Settled(f) => Settled(f)'
  BY Static DEF Settled
<1>2. StackOK'
  BY DEF StackOK, IInv, Inspected, Top, Reference
<1>3. SettledOK'
  BY <1>1, Static DEF SettledOK, IInv
<1>4. PathOK'
  BY Static DEF PathOK, IInv
<1> QED
  BY <1>2, <1>3, <1>4 DEF IInv

LEMMA InvStep == TypeOK /\ IInv /\ [Next]_vars => IInv'
<1> SUFFICES ASSUME TypeOK, IInv, [Next]_vars PROVE IInv'
  OBVIOUS
<1>1. CASE End \/ Finished \/ UNCHANGED vars
  BY <1>1, UnchangedStep DEF End, Finished, vars
<1>2. CASE RejectWorkflow \/ RejectUnadmitted \/ AddUndeclared \/ AddCycle \/ RejectAction \/ RejectRead
  BY <1>2, RejectStep
  DEF RejectWorkflow, RejectUnadmitted, AddUndeclared, AddCycle, RejectAction, RejectRead
<1>3. CASE ReadWorkflow
  BY <1>3, ReadWorkflowStep
<1>4. CASE Verified
  <2>1. stack = <<>> /\ status' = "verified" /\ turn > Len(Workflows) /\ Len(stack) = 0
        /\ entering = <<>> /\ DOMAIN stack = {}
        /\ UNCHANGED <<content, turn, stack, entering, visited, active>>
    BY <1>4 DEF Verified, BetweenWorkflows, IInv, StackOK
  <2>2. StackOK'
    BY <2>1 DEF IInv, StackOK
  <2>3. \A f : Settled(f) => Settled(f)'
    BY <2>1, Static DEF Settled
  <2>4. SettledOK' /\ PathOK'
    BY <2>1, <2>3, Static DEF IInv, SettledOK, PathOK
  <2> QED
    BY <2>2, <2>4 DEF IInv
<1>5. CASE AddWorkflow
  BY <1>5, AdvanceStep, LocalActionsAssumption DEF AddWorkflow, Admitted
<1>6. CASE AddExternal
  BY <1>6, AdvanceStep, LocalActionsAssumption DEF AddExternal, Admitted
<1>7. CASE AddVisited
  BY <1>7, AdvanceStep, LocalActionsAssumption DEF AddVisited, Admitted, TypeOK
<1>8. CASE EnterAction
  BY <1>8, EnterStep
<1>9. CASE ReadAction
  BY <1>9, ReadStep
<1>10. CASE LeaveAction
  BY <1>10, LeaveActionStep
<1>11. CASE LeaveWorkflow
  BY <1>11, LeaveWorkflowStep
<1> QED
  BY <1>1, <1>2, <1>3, <1>4, <1>5, <1>6, <1>7, <1>8, <1>9, <1>10, <1>11 DEF Next, Step

-----------------------------------------------------------------------------
(* What is counted *)

\* The references of a file that were added so far: all of them once the file is
\* done, those before the next one while it is on the stack.
Done == visited \union {Workflows[t] : t \in 1 .. turn - 1}

Added(f) ==
    IF f \in Done
      THEN DOMAIN content[f]
      ELSE UNION {1 .. stack[i].at - 1 : i \in {k \in DOMAIN stack : stack[k].file = f}}

AddedAs(f, r) == {j \in Added(f) : content[f][j] = r}

\* Every pinned reference added was found, and each just once.
FoundOK ==
    status # "rejected" =>
        \A f \in Files, r \in Pinned : Occurrences(found, <<f, r>>) = Cardinality(AddedAs(f, r))

Entered == visited \union active
Read == Entered \ {entering[i] : i \in DOMAIN entering}

\* Each action entered is counted once, and each byte of each action read.
BudgetOK ==
    status # "rejected" =>
        /\ IsFiniteSet(Entered) /\ actions = Cardinality(Entered)
        /\ IsFiniteSet(BytesOf(Read)) /\ bytes = Cardinality(BytesOf(Read))

CInv == FoundOK /\ BudgetOK

LEMMA OccurrencesAppend ==
    ASSUME NEW T, NEW s \in Seq(T), NEW x \in T, NEW v
    PROVE  /\ Occurrences(s, v) \in Nat
           /\ Occurrences(Append(s, x), v) = Occurrences(s, v) + (IF x = v THEN 1 ELSE 0)
<1> DEFINE S == {i \in DOMAIN s : s[i] = v}
           n == Len(s) + 1
<1>1. IsFiniteSet(S) /\ n \notin S
  <2>1. IsFiniteSet(DOMAIN s)
    BY FS_Interval
  <2> QED
    BY <2>1, FS_Subset
<1>2. Cardinality(S) \in Nat /\ Cardinality(S \union {n}) = Cardinality(S) + 1
  BY <1>1, FS_CardinalityType, FS_AddElement
<1>3. {i \in DOMAIN Append(s, x) : Append(s, x)[i] = v} = IF x = v THEN S \union {n} ELSE S
  OBVIOUS
<1>4. Occurrences(s, v) = Cardinality(S)
  BY DEF Occurrences
<1>5. Occurrences(Append(s, x), v) = Cardinality(IF x = v THEN S \union {n} ELSE S)
  BY <1>3 DEF Occurrences
<1> QED
  BY <1>2, <1>4, <1>5

LEMMA BytesAdd ==
    ASSUME NEW S \in SUBSET Actions, NEW d \in Actions \ S, IsFiniteSet(BytesOf(S))
    PROVE  /\ IsFiniteSet(BytesOf(S \union {d}))
           /\ Cardinality(BytesOf(S \union {d})) = Cardinality(BytesOf(S)) + Size[d]
<1> DEFINE T == {d} \X (1 .. Size[d])
<1>1. Size[d] \in Nat
  BY LocalActionsAssumption
<1>2. IsFiniteSet(T) /\ Cardinality(T) = Size[d]
  <2>1. IsFiniteSet({d}) /\ Cardinality({d}) = 1
    BY FS_Singleton
  <2>2. IsFiniteSet(1 .. Size[d]) /\ Cardinality(1 .. Size[d]) = Size[d]
    BY <1>1, FS_Interval, SMTT(30)
  <2>3. IsFiniteSet(T) /\ Cardinality(T) = 1 * Size[d]
    BY <2>1, <2>2, FS_Product, ZenonT(30)
  <2> QED
    BY <1>1, <2>3
<1>3. BytesOf(S \union {d}) = BytesOf(S) \union T
  BY DEF BytesOf
<1>4. BytesOf(S) \intersect T = {}
  BY DEF BytesOf
<1>5. Cardinality(BytesOf(S)) \in Nat /\ Cardinality(BytesOf(S) \intersect T) = 0
  BY <1>4, FS_CardinalityType, FS_EmptySet
<1>6. \A U : U = BytesOf(S) \union T =>
         IsFiniteSet(U) /\ Cardinality(U) = Cardinality(BytesOf(S)) + Cardinality(T) - 0
  BY <1>2, <1>5, FS_Union
<1>7. /\ IsFiniteSet(BytesOf(S \union {d}))
      /\ Cardinality(BytesOf(S \union {d})) = Cardinality(BytesOf(S)) + Cardinality(T) - 0
  BY <1>3, <1>6, Zenon
<1> QED
  BY <1>1, <1>2, <1>5, <1>7

\* No file is on the stack twice, or on it and done.
LEMMA StackFiles ==
    ASSUME TypeOK, IInv
    PROVE  /\ \A i, j \in DOMAIN stack : i # j => stack[i].file # stack[j].file
           /\ \A i \in DOMAIN stack : stack[i].file \in Files /\ stack[i].file \notin Done
<1>1. DOMAIN stack = 1 .. Len(stack) /\ Len(stack) \in Nat /\ turn \in Nat
  BY DEF TypeOK
<1>2. ASSUME NEW i \in DOMAIN stack, i = 1
      PROVE  /\ stack[i].file \in Declared /\ stack[i].file \notin Actions
             /\ stack[i].file \notin Done
  <2>1. turn \in DOMAIN Workflows /\ stack[i].file = Workflows[turn]
    BY <1>1, <1>2, LocalActionsAssumption DEF IInv, StackOK, TypeOK
  <2>2. stack[i].file \in Declared /\ stack[i].file \notin Actions
    BY <2>1, LocalActionsAssumption DEF Declared
  <2>3. \A t \in 1 .. turn - 1 : Workflows[t] # Workflows[turn]
    BY <1>1, <2>1, LocalActionsAssumption
  <2> QED
    BY <2>1, <2>2, <2>3 DEF Done, TypeOK
<1>3. ASSUME NEW i \in DOMAIN stack, i # 1
      PROVE  /\ stack[i].file \in Actions
             /\ stack[i].file \notin Done
  <2>1. i \in 2 .. Len(stack)
    BY <1>1, <1>3
  <2>2. stack[i].file \in Actions /\ stack[i].file \in active
    BY <1>1, <2>1 DEF IInv, StackOK
  <2>3. stack[i].file \notin visited
    BY <2>2 DEF IInv, StackOK
  <2>4. \A t \in 1 .. turn - 1 : Workflows[t] \in Declared
    BY LocalActionsAssumption DEF Declared, TypeOK
  <2> QED
    BY <2>2, <2>3, <2>4, LocalActionsAssumption DEF Done
<1>4. ASSUME NEW i \in DOMAIN stack, NEW j \in DOMAIN stack, i # j
      PROVE  stack[i].file # stack[j].file
  <2>1. CASE i = 1 \/ j = 1
    BY <1>2, <1>3, <1>4, <2>1
  <2>2. CASE i # 1 /\ j # 1
    <3>1. i \in 2 .. Len(stack) /\ j \in 2 .. Len(stack)
      BY <1>1, <2>2
    <3> QED
      BY <1>4, <3>1 DEF IInv, StackOK
  <2> QED
    BY <2>1, <2>2
<1> QED
  BY <1>2, <1>3, <1>4 DEF Files

\* What was added of a file on the stack is what its frame has passed.
LEMMA AddedOnStack ==
    ASSUME TypeOK, IInv, NEW i \in DOMAIN stack
    PROVE  Added(stack[i].file) = 1 .. stack[i].at - 1
<1>1. {k \in DOMAIN stack : stack[k].file = stack[i].file} = {i}
  BY StackFiles
<1> QED
  BY <1>1, StackFiles DEF Added

\* Advancing adds the top frame's next reference; a new frame adds none.
LEMMA AddedAdvance ==
    ASSUME TypeOK, IInv, stack # <<>>, UNCHANGED <<content, visited, turn>>,
           \A i \in DOMAIN stack :
               /\ i \in DOMAIN stack'
               /\ stack'[i].file = stack[i].file
               /\ stack'[i].at = IF i = Len(stack) THEN Top.at + 1 ELSE stack[i].at,
           \A i \in DOMAIN stack' \ DOMAIN stack : stack'[i].at = 1
    PROVE  /\ Added(Top.file) = 1 .. Top.at - 1
           /\ \A f : Added(f)' = IF f = Top.file THEN Added(f) \union {Top.at} ELSE Added(f)
<1>1. stack # <<>> /\ Len(stack) \in DOMAIN stack /\ Top = stack[Len(stack)] /\ Top.at \in Nat \ {0}
  BY TopType DEF Top, Frames
<1>2. Added(Top.file) = 1 .. Top.at - 1
  BY <1>1, AddedOnStack
<1>3. Done' = Done
  BY DEF Done
<1>4. Top.file \notin Done /\ \A i \in DOMAIN stack : stack[i].file = Top.file => i = Len(stack)
  BY <1>1, StackFiles
<1>5. ASSUME NEW f, f = Top.file
      PROVE  Added(f)' = Added(f) \union {Top.at}
  <2>1. ASSUME NEW x
        PROVE  x \in Added(f)' <=> x \in 1 .. Top.at
    <3>1. x \in Added(f)' <=> \E k \in DOMAIN stack' : stack'[k].file = f /\ x \in 1 .. stack'[k].at - 1
      BY <1>3, <1>4, <1>5 DEF Added
    <3>2. ASSUME NEW k \in DOMAIN stack', stack'[k].file = f, x \in 1 .. stack'[k].at - 1
          PROVE  x \in 1 .. Top.at
      BY <1>1, <1>4, <1>5, <3>2
    <3>3. stack'[Len(stack)].file = f /\ stack'[Len(stack)].at - 1 = Top.at
      BY <1>1, <1>5, SMTT(30)
    <3> QED
      BY <1>1, <3>1, <3>2, <3>3
  <2>2. 1 .. Top.at = (1 .. Top.at - 1) \union {Top.at}
    BY <1>1
  <2> QED
    BY <1>2, <1>5, <2>1, <2>2
<1>6. ASSUME NEW f, f # Top.file, f \notin Done
      PROVE  Added(f)' = Added(f)
  <2>1. ASSUME NEW x PROVE x \in Added(f)' <=> x \in Added(f)
    <3>1. x \in Added(f)' <=> \E k \in DOMAIN stack' : stack'[k].file = f /\ x \in 1 .. stack'[k].at - 1
      BY <1>3, <1>6 DEF Added
    <3>2. x \in Added(f) <=> \E k \in DOMAIN stack : stack[k].file = f /\ x \in 1 .. stack[k].at - 1
      BY <1>6 DEF Added
    <3>3. ASSUME NEW k \in DOMAIN stack', stack'[k].file = f, x \in 1 .. stack'[k].at - 1
          PROVE  k \in DOMAIN stack /\ stack[k].file = f /\ x \in 1 .. stack[k].at - 1
      BY <1>1, <1>6, <3>3
    <3>4. ASSUME NEW k \in DOMAIN stack, stack[k].file = f, x \in 1 .. stack[k].at - 1
          PROVE  k \in DOMAIN stack' /\ stack'[k].file = f /\ x \in 1 .. stack'[k].at - 1
      BY <1>1, <1>6, <3>4
    <3> QED
      BY <3>1, <3>2, <3>3, <3>4
  <2> QED
    BY <2>1 DEF Added
<1>7. ASSUME NEW f, f # Top.file, f \in Done
      PROVE  Added(f)' = Added(f)
  BY <1>3, <1>7 DEF Added
<1> QED
  BY <1>2, <1>5, <1>6, <1>7

\* A file that is left is done: nothing of it is added by leaving.
LEMMA AddedLeave ==
    ASSUME TypeOK, IInv, Exhausted, content' = content,
           Done' = Done \union {Top.file},
           DOMAIN stack' = DOMAIN stack \ {Len(stack)},
           \A i \in DOMAIN stack' : stack'[i] = stack[i]
    PROVE  \A f : Added(f)' = Added(f)
<1>1. stack # <<>> /\ Len(stack) \in DOMAIN stack /\ Top = stack[Len(stack)] /\ Top.at \in Nat \ {0}
  BY TopType DEF Exhausted, Working, Top, Frames
<1>2. Top.file \notin Done /\ \A i \in DOMAIN stack : stack[i].file = Top.file => i = Len(stack)
  BY <1>1, StackFiles
<1>3. ASSUME NEW f, f = Top.file PROVE Added(f)' = Added(f)
  <2>1. Added(f) = 1 .. Top.at - 1
    BY <1>1, <1>3, AddedOnStack
  <2>2. Top.at - 1 = Len(content[Top.file]) /\ content[Top.file] \in Seq(References)
    BY <1>1, TopType DEF Exhausted, IInv, StackOK
  <2>3. Added(f)' = DOMAIN content[f]
    BY <1>3 DEF Added
  <2> QED
    BY <1>3, <2>1, <2>2, <2>3
<1>4. ASSUME NEW f, f # Top.file, f \in Done PROVE Added(f)' = Added(f)
  BY <1>4 DEF Added
<1>5. ASSUME NEW f, f # Top.file, f \notin Done PROVE Added(f)' = Added(f)
  <2>1. ASSUME NEW x PROVE x \in Added(f)' <=> x \in Added(f)
    <3>1. x \in Added(f)' <=> \E k \in DOMAIN stack' : stack'[k].file = f /\ x \in 1 .. stack'[k].at - 1
      BY <1>5 DEF Added
    <3>2. x \in Added(f) <=> \E k \in DOMAIN stack : stack[k].file = f /\ x \in 1 .. stack[k].at - 1
      BY <1>5 DEF Added
    <3> QED
      BY <1>1, <1>5, <3>1, <3>2
  <2> QED
    BY <2>1 DEF Added
<1> QED
  BY <1>3, <1>4, <1>5

\* Where nothing is found, nothing pinned may be added.
LEMMA FoundSame ==
    ASSUME FoundOK, status # "rejected", UNCHANGED <<content, found>>,
           \A f \in Files, r \in Pinned : AddedAs(f, r)' = AddedAs(f, r)
    PROVE  FoundOK'
<1>1. \A f \in Files, r \in Pinned :
         Cardinality(AddedAs(f, r)) = Cardinality(AddedAs(f, r)')
  OBVIOUS
<1> QED
  BY <1>1 DEF FoundOK

LEMMA FoundKept ==
    ASSUME FoundOK, status # "rejected", UNCHANGED <<content, found>>,
           \A f : Added(f)' = Added(f)
    PROVE  FoundOK'
<1>1. \A f \in Files, r \in Pinned : AddedAs(f, r)' = AddedAs(f, r)
  BY DEF AddedAs
<1> QED
  BY <1>1, FoundSame

\* A reference that is not pinned is added without being found.
LEMMA FoundAdvance ==
    ASSUME FoundOK, UNCHANGED <<content, found>>, status # "rejected", Reference \notin Pinned,
           \A f : Added(f)' = IF f = Top.file THEN Added(f) \union {Top.at} ELSE Added(f)
    PROVE  FoundOK'
<1>1. ASSUME NEW f, NEW r \in Pinned PROVE AddedAs(f, r)' = AddedAs(f, r)
  <2>1. CASE f = Top.file
    BY <1>1, <2>1 DEF AddedAs, Reference
  <2>2. CASE f # Top.file
    BY <2>2 DEF AddedAs
  <2> QED
    BY <2>1, <2>2
<1> QED
  BY <1>1, FoundSame

LEMMA FoundExternal == TypeOK /\ IInv /\ FoundOK /\ AddExternal => FoundOK'
<1> SUFFICES ASSUME TypeOK, IInv, FoundOK, AddExternal,
                    NEW f \in Files, NEW r \in Pinned
             PROVE  Occurrences(found', <<f, r>>) = Cardinality(AddedAs(f, r)')
  BY DEF FoundOK
<1>1. /\ HasReference /\ stack # <<>> /\ stack' = Advanced /\ Top.at <= Len(content[Top.file])
      /\ found' = Append(found, <<Top.file, Reference>>)
      /\ UNCHANGED <<content, visited, turn, status>> /\ status = "running"
      /\ Reference \in Pinned \union Unpinned
  BY DEF AddExternal, Admitted, HasReference, Working
<1>2. /\ Added(Top.file) = 1 .. Top.at - 1 /\ Top.at \in Nat \ {0}
      /\ Added(f)' = IF f = Top.file THEN Added(f) \union {Top.at} ELSE Added(f)
  <2>1. \A i \in DOMAIN stack :
           /\ i \in DOMAIN stack'
           /\ stack'[i].file = stack[i].file
           /\ stack'[i].at = IF i = Len(stack) THEN Top.at + 1 ELSE stack[i].at
    BY <1>1, AdvancedFrames
  <2>2. DOMAIN stack' \ DOMAIN stack = {}
    BY <1>1, AdvancedFrames
  <2> QED
    BY <1>1, <2>1, <2>2, AddedAdvance, TopType DEF Frames
<1>3. /\ Occurrences(found, <<f, r>>) = Cardinality(AddedAs(f, r))
      /\ Occurrences(found, <<f, r>>) \in Nat
      /\ Occurrences(found', <<f, r>>) =
            Occurrences(found, <<f, r>>) + IF f = Top.file /\ Reference = r THEN 1 ELSE 0
  <2>1. /\ found \in Seq(Files \X (Pinned \union Unpinned))
        /\ <<Top.file, Reference>> \in Files \X (Pinned \union Unpinned)
    BY <1>1, TopType DEF TypeOK
  <2>2. <<Top.file, Reference>> = <<f, r>> <=> f = Top.file /\ Reference = r
    OBVIOUS
  <2>3. Occurrences(found, <<f, r>>) = Cardinality(AddedAs(f, r))
    BY <1>1 DEF FoundOK
  <2>4. /\ Occurrences(found, <<f, r>>) \in Nat
        /\ Occurrences(Append(found, <<Top.file, Reference>>), <<f, r>>) =
              Occurrences(found, <<f, r>>) + (IF <<Top.file, Reference>> = <<f, r>> THEN 1 ELSE 0)
    BY <2>1, OccurrencesAppend
  <2> QED
    BY <1>1, <2>2, <2>3, <2>4
<1>4. CASE f = Top.file /\ Reference = r
  <2>1. AddedAs(f, r)' = AddedAs(f, r) \union {Top.at}
    BY <1>1, <1>2, <1>4 DEF AddedAs, Reference
  <2>2. Top.at \notin AddedAs(f, r) /\ AddedAs(f, r) \subseteq 1 .. Top.at - 1
    BY <1>2, <1>4 DEF AddedAs
  <2>3. IsFiniteSet(AddedAs(f, r))
    <3>1. IsFiniteSet(1 .. Top.at - 1)
      BY <1>2, FS_Interval
    <3> QED
      BY <2>2, <3>1, FS_Subset
  <2>4. Cardinality(AddedAs(f, r) \union {Top.at}) = Cardinality(AddedAs(f, r)) + 1
    BY <2>2, <2>3, FS_AddElement
  <2>5. Cardinality(AddedAs(f, r)') = Cardinality(AddedAs(f, r)) + 1
    BY <2>1, <2>4, Zenon
  <2> QED
    BY <1>3, <1>4, <2>5
<1>5. CASE ~(f = Top.file /\ Reference = r)
  <2>1. AddedAs(f, r)' = AddedAs(f, r)
    <3>1. CASE f = Top.file
      BY <1>1, <1>2, <1>5, <3>1 DEF AddedAs, Reference
    <3>2. CASE f # Top.file
      BY <1>1, <1>2, <3>2 DEF AddedAs
    <3> QED
      BY <3>1, <3>2
  <2>2. Cardinality(AddedAs(f, r)') = Cardinality(AddedAs(f, r))
    BY <2>1, Zenon
  <2> QED
    BY <1>3, <1>5, <2>2
<1> QED
  BY <1>4, <1>5

LEMMA BudgetSame ==
    ASSUME BudgetOK, status # "rejected", UNCHANGED <<entering, visited, active, actions, bytes>>
    PROVE  BudgetOK'
<1>1. Entered' = Entered /\ Read' = Read
  BY DEF Entered, Read
<1>2. (IsFiniteSet(Entered') <=> IsFiniteSet(Entered)) /\ Cardinality(Entered') = Cardinality(Entered)
  BY <1>1, Zenon
<1>3. /\ IsFiniteSet(BytesOf(Read')) <=> IsFiniteSet(BytesOf(Read))
      /\ Cardinality(BytesOf(Read')) = Cardinality(BytesOf(Read))
  BY <1>1, Zenon
<1> QED
  BY <1>2, <1>3 DEF BudgetOK

LEMMA CountInit == Init => CInv
<1> SUFFICES ASSUME Init PROVE CInv
  OBVIOUS
<1>1. FoundOK
  <2> SUFFICES ASSUME NEW f \in Files, NEW r \in Pinned
               PROVE  Occurrences(found, <<f, r>>) = Cardinality(AddedAs(f, r))
    BY DEF FoundOK
  <2>1. AddedAs(f, r) = {}
    BY DEF Init, AddedAs, Added, Done
  <2>2. {i \in DOMAIN found : found[i] = <<f, r>>} = {}
    BY DEF Init
  <2> QED
    BY <2>1, <2>2, Zenon DEF Occurrences
<1>2. BudgetOK
  <2>1. Entered = {} /\ BytesOf(Read) = {}
    BY DEF Init, Entered, Read, BytesOf
  <2>2. /\ IsFiniteSet(Entered) /\ Cardinality(Entered) = 0
        /\ IsFiniteSet(BytesOf(Read)) /\ Cardinality(BytesOf(Read)) = 0
    BY <2>1, FS_EmptySet, Zenon
  <2> QED
    BY <2>2 DEF BudgetOK, Init
<1> QED
  BY <1>1, <1>2 DEF CInv

LEMMA FoundStep == TypeOK /\ IInv /\ FoundOK /\ [Next]_vars => FoundOK'
<1> SUFFICES ASSUME TypeOK, IInv, FoundOK, [Next]_vars PROVE FoundOK'
  OBVIOUS
<1>1. ASSUME Reject PROVE FoundOK'
  BY <1>1 DEF Reject, FoundOK
<1>2. ASSUME status = "running", UNCHANGED <<content, turn, stack, visited, found>> PROVE FoundOK'
  <2>1. \A f : Added(f)' = Added(f)
    BY <1>2 DEF Added, Done
  <2> QED
    BY <1>2, <2>1, FoundKept
<1>3. CASE End \/ Verified \/ EnterAction
  BY <1>2, <1>3 DEF End, Verified, BetweenWorkflows, EnterAction, Admitted, HasReference, Working
<1>4. CASE Finished \/ UNCHANGED vars
  <2>1. UNCHANGED <<content, turn, stack, visited, found, status>>
    BY <1>4 DEF Finished, vars
  <2>2. \A f \in Files, r \in Pinned :
          /\ AddedAs(f, r)' = AddedAs(f, r)
          /\ Cardinality(AddedAs(f, r)') = Cardinality(AddedAs(f, r))
    BY <2>1 DEF AddedAs, Added, Done
  <2> QED
    BY <2>1, <2>2 DEF FoundOK
<1>5. CASE RejectWorkflow \/ RejectUnadmitted \/ AddUndeclared \/ AddCycle \/ RejectAction \/ RejectRead
  BY <1>1, <1>5
  DEF RejectWorkflow, RejectUnadmitted, AddUndeclared, AddCycle, RejectAction, RejectRead
<1>6. CASE ReadWorkflow
  <2>1. /\ status = "running" /\ stack = <<>> /\ stack' = <<Frame(Workflows[turn])>>
        /\ UNCHANGED <<content, turn, visited, found>>
    BY <1>6 DEF ReadWorkflow, BetweenWorkflows
  <2>2. DOMAIN stack = {} /\ DOMAIN stack' = {1} /\ stack'[1].at = 1 /\ Done' = Done
    BY <2>1 DEF Frame, Done
  <2>3. ASSUME NEW f, f \notin Done PROVE Added(f)' = {} /\ Added(f) = {}
    BY <2>2, <2>3 DEF Added
  <2>4. ASSUME NEW f, f \in Done PROVE Added(f)' = Added(f)
    BY <2>1, <2>2, <2>4 DEF Added
  <2> QED
    BY <2>1, <2>3, <2>4, FoundKept
<1>7. CASE AddWorkflow \/ AddVisited
  <2>1. /\ HasReference /\ stack # <<>> /\ status = "running" /\ stack' = Advanced
        /\ UNCHANGED <<content, turn, visited, found>>
        /\ Reference \in Declared \union Actions
    BY <1>7 DEF AddWorkflow, AddVisited, Admitted, HasReference, Working, TypeOK
  <2>2. \A i \in DOMAIN stack :
           /\ i \in DOMAIN stack'
           /\ stack'[i].file = stack[i].file
           /\ stack'[i].at = IF i = Len(stack) THEN Top.at + 1 ELSE stack[i].at
    BY <2>1, AdvancedFrames
  <2>3. DOMAIN stack' \ DOMAIN stack = {}
    BY <2>1, AdvancedFrames
  <2>4. Reference \notin Pinned
    BY <2>1, LocalActionsAssumption
  <2> QED
    BY <2>1, <2>2, <2>3, <2>4, AddedAdvance, FoundAdvance
<1>8. CASE AddExternal
  BY <1>8, FoundExternal
<1>9. CASE ReadAction
  <2>1. /\ status = "running" /\ entering # <<>> /\ entering[1] \in Actions
        /\ stack' = Append(Advanced, Frame(entering[1]))
        /\ UNCHANGED <<content, turn, visited, found>>
    BY <1>9 DEF ReadAction, Reading, TypeOK
  <2>2. stack # <<>> /\ Top.at <= Len(content[Top.file]) /\ Reference = entering[1]
    BY <2>1 DEF IInv, StackOK
  <2>3. /\ Advanced \in Seq(Frames) /\ Len(Advanced) = Len(stack) /\ Len(stack) \in Nat
        /\ DOMAIN stack = 1 .. Len(stack)
        /\ \A i \in DOMAIN stack : Advanced[i].file = stack[i].file
        /\ \A i \in DOMAIN stack :
             Advanced[i].at = IF i = Len(stack) THEN Top.at + 1 ELSE stack[i].at
    BY <2>2, AdvancedFrames DEF TypeOK
  <2>4. /\ DOMAIN stack' = 1 .. Len(stack) + 1
        /\ \A i \in DOMAIN stack : stack'[i] = Advanced[i]
        /\ stack'[Len(stack) + 1] = Frame(entering[1])
    BY <2>1, <2>3
  <2>5. \A i \in DOMAIN stack :
           /\ i \in DOMAIN stack'
           /\ stack'[i].file = stack[i].file
           /\ stack'[i].at = IF i = Len(stack) THEN Top.at + 1 ELSE stack[i].at
    BY <2>3, <2>4
  <2>6. \A i \in DOMAIN stack' \ DOMAIN stack : stack'[i].at = 1
    BY <2>3, <2>4 DEF Frame
  <2>7. \A f : Added(f)' = IF f = Top.file THEN Added(f) \union {Top.at} ELSE Added(f)
    BY <2>1, <2>2, <2>5, <2>6, AddedAdvance
  <2>8. Reference \notin Pinned
    BY <2>1, <2>2, LocalActionsAssumption
  <2> QED
    BY <2>1, <2>7, <2>8, FoundAdvance
<1>10. CASE LeaveAction
  <2>1. /\ Exhausted /\ stack # <<>> /\ status = "running" /\ Len(stack) > 1
        /\ stack' = SubSeq(stack, 1, Len(stack) - 1) /\ visited' = visited \union {Top.file}
        /\ UNCHANGED <<content, turn, found>>
    BY <1>10 DEF LeaveAction, Exhausted, Working
  <2>2. Done' = Done \union {Top.file}
    BY <2>1 DEF Done
  <2>3. /\ DOMAIN stack = 1 .. Len(stack) /\ Len(stack) \in Nat /\ stack \in Seq(Frames)
    BY DEF TypeOK
  <2>4. DOMAIN stack' = 1 .. Len(stack) - 1
    BY <2>1, <2>3
  <2>5. \A i \in DOMAIN stack' : stack'[i] = stack[i]
    BY <2>1, <2>3, <2>4
  <2>6. DOMAIN stack' = DOMAIN stack \ {Len(stack)}
    BY <2>3, <2>4
  <2>7. \A f : Added(f)' = Added(f)
    BY <2>1, <2>2, <2>5, <2>6, AddedLeave
  <2> QED
    BY <2>1, <2>7, FoundKept
<1>11. CASE LeaveWorkflow
  <2>1. /\ Exhausted /\ stack # <<>> /\ status = "running" /\ Len(stack) = 1
        /\ stack' = <<>> /\ turn' = turn + 1 /\ UNCHANGED <<content, visited, found>>
    BY <1>11 DEF LeaveWorkflow, Exhausted, Working
  <2>2. Top.file = Workflows[turn] /\ turn \in Nat \ {0}
    BY <2>1 DEF IInv, StackOK, Top, TypeOK
  <2>3. Done' = Done \union {Top.file}
    <3>1. 1 .. turn' - 1 = (1 .. turn - 1) \union {turn}
      BY <2>1, <2>2
    <3> QED
      BY <2>1, <2>2, <3>1 DEF Done
  <2>4. DOMAIN stack' = {} /\ DOMAIN stack = {1}
    BY <2>1 DEF TypeOK
  <2>5. \A f : Added(f)' = Added(f)
    BY <2>1, <2>3, <2>4, AddedLeave
  <2> QED
    BY <2>1, <2>5, FoundKept
<1> QED
  BY <1>3, <1>4, <1>5, <1>6, <1>7, <1>8, <1>9, <1>10, <1>11 DEF Next, Step

LEMMA BudgetStep == TypeOK /\ IInv /\ BudgetOK /\ [Next]_vars => BudgetOK'
<1> SUFFICES ASSUME TypeOK, IInv, BudgetOK, [Next]_vars PROVE BudgetOK'
  OBVIOUS
<1>1. ASSUME Reject PROVE BudgetOK'
  BY <1>1 DEF Reject, BudgetOK
<1>2. CASE RejectWorkflow \/ RejectUnadmitted \/ AddUndeclared \/ AddCycle \/ RejectAction \/ RejectRead
  BY <1>1, <1>2
  DEF RejectWorkflow, RejectUnadmitted, AddUndeclared, AddCycle, RejectAction, RejectRead
<1>3. CASE \/ End \/ Verified \/ ReadWorkflow \/ AddWorkflow \/ AddVisited \/ AddExternal
           \/ LeaveWorkflow
  BY <1>3, BudgetSame
  DEF End, Verified, BetweenWorkflows, ReadWorkflow, AddWorkflow, AddVisited, AddExternal, Admitted,
      HasReference, Working, LeaveWorkflow, Exhausted, budgets
<1>4. CASE Finished \/ UNCHANGED vars
  <2>1. UNCHANGED <<entering, visited, active, actions, bytes, status>>
    BY <1>4 DEF Finished, vars, budgets
  <2> QED
    BY <2>1, BudgetSame DEF BudgetOK
<1>5. CASE EnterAction
  <2>1. /\ status = "running" /\ status' = "running" /\ entering = <<>>
        /\ Reference \in Actions \ Entered /\ actions' = actions + 1
        /\ active' = active \union {Reference} /\ entering' = <<Reference>>
        /\ UNCHANGED <<visited, bytes>>
    BY <1>5 DEF EnterAction, Admitted, HasReference, Working, IsNew, Entered
  <2>2. Entered' = Entered \union {Reference}
    BY <2>1 DEF Entered
  <2>3. Read' = Read
    <3>1. Read = Entered
      BY <2>1 DEF Read
    <3>2. {entering'[i] : i \in DOMAIN entering'} = {Reference}
      BY <2>1
    <3>3. Read' = Entered' \ {entering'[i] : i \in DOMAIN entering'}
      BY DEF Read
    <3> QED
      BY <2>1, <2>2, <3>1, <3>2, <3>3
  <2>4. IsFiniteSet(Entered') /\ Cardinality(Entered') = Cardinality(Entered) + 1
    <3>1. IsFiniteSet(Entered)
      BY <2>1 DEF BudgetOK
    <3>2. /\ IsFiniteSet(Entered \union {Reference})
          /\ Cardinality(Entered \union {Reference}) = Cardinality(Entered) + 1
      BY <2>1, <3>1, FS_AddElement
    <3> QED
      BY <2>2, <3>2, Zenon
  <2>5. /\ IsFiniteSet(BytesOf(Read')) <=> IsFiniteSet(BytesOf(Read))
        /\ Cardinality(BytesOf(Read')) = Cardinality(BytesOf(Read))
    BY <2>3, Zenon
  <2> QED
    BY <2>1, <2>4, <2>5 DEF BudgetOK
<1>6. CASE ReadAction
  <2>1. PICK d \in Actions : d = entering[1]
    BY <1>6 DEF ReadAction, Reading, TypeOK
  <2>2. /\ status = "running" /\ status' = "running" /\ entering # <<>> /\ entering' = <<>>
        /\ bytes' = bytes + Size[d] /\ UNCHANGED <<visited, active, actions>>
    BY <1>6, <2>1 DEF ReadAction, Reading
  <2>3. {entering[i] : i \in DOMAIN entering} = {d} /\ d \in Entered
    <3>1. {entering[i] : i \in DOMAIN entering} = {d}
      BY <2>1, <2>2 DEF TypeOK
    <3> QED
      BY <3>1 DEF IInv, StackOK, Entered
  <2>4. Entered' = Entered /\ Read = Entered \ {d} /\ Read' = Entered
    BY <2>2, <2>3 DEF Entered, Read
  <2>5. Read \in SUBSET Actions /\ d \notin Read /\ Read' = Read \union {d}
    BY <2>3, <2>4 DEF Entered, TypeOK
  <2>6. /\ IsFiniteSet(BytesOf(Read \union {d}))
        /\ Cardinality(BytesOf(Read \union {d})) = Cardinality(BytesOf(Read)) + Size[d]
    BY <2>2, <2>5, BytesAdd DEF BudgetOK
  <2>7. /\ IsFiniteSet(BytesOf(Read'))
        /\ Cardinality(BytesOf(Read')) = Cardinality(BytesOf(Read)) + Size[d]
    BY <2>5, <2>6, Zenon
  <2>8. (IsFiniteSet(Entered') <=> IsFiniteSet(Entered)) /\ Cardinality(Entered') = Cardinality(Entered)
    BY <2>4, Zenon
  <2> QED
    BY <2>2, <2>7, <2>8 DEF BudgetOK
<1>7. CASE LeaveAction
  <2>1. /\ status = "running" /\ status' = "running" /\ stack # <<>> /\ Len(stack) > 1
        /\ visited' = visited \union {Top.file} /\ active' = active \ {Top.file}
        /\ UNCHANGED <<entering, actions, bytes>>
    BY <1>7 DEF LeaveAction, Exhausted, Working, budgets
  <2>2. Top.file \in active
    BY <2>1, TopType DEF IInv, StackOK, Top
  <2>3. Entered' = Entered
    BY <2>1, <2>2 DEF Entered
  <2>4. Read' = Read
    BY <2>1, <2>3 DEF Read
  <2>5. (IsFiniteSet(Entered') <=> IsFiniteSet(Entered)) /\ Cardinality(Entered') = Cardinality(Entered)
    BY <2>3, Zenon
  <2>6. /\ IsFiniteSet(BytesOf(Read')) <=> IsFiniteSet(BytesOf(Read))
        /\ Cardinality(BytesOf(Read')) = Cardinality(BytesOf(Read))
    BY <2>4, Zenon
  <2> QED
    BY <2>1, <2>5, <2>6 DEF BudgetOK
<1> QED
  BY <1>2, <1>3, <1>4, <1>5, <1>6, <1>7 DEF Next, Step

-----------------------------------------------------------------------------
(* What holds of every execution *)

\* Types and budgets: no more references, actions or bytes are ever counted than
\* VerifyWorkflowReferences allows, and the stack holds files of the repository.
THEOREM TypeCorrect == Spec => []TypeOK
<1>1. Init => TypeOK /\ IInv
  BY TypeInit, InvInit
<1>2. TypeOK /\ IInv /\ [Next]_vars => TypeOK' /\ IInv'
  BY TypeStep, InvStep DEF IInv
<1> QED
  BY <1>1, <1>2, PTL DEF Spec

\* The stack is the path of the expansion, what is done is settled, and all of it
\* is reached from a workflow.
THEOREM Invariance == Spec => []IInv
<1>1. Init => TypeOK /\ IInv
  BY TypeInit, InvInit
<1>2. TypeOK /\ IInv /\ [Next]_vars => TypeOK' /\ IInv'
  BY TypeStep, InvStep DEF IInv
<1> QED
  BY <1>1, <1>2, PTL DEF Spec

\* What is found and what is counted is what was added and entered.
THEOREM Counting == Spec => []CInv
<1>1. Init => CInv
  BY CountInit
<1>2. TypeOK /\ IInv /\ CInv /\ [Next]_vars => CInv'
  BY FoundStep, BudgetStep DEF CInv
<1> QED
  BY <1>1, <1>2, TypeCorrect, Invariance, PTL DEF Spec

\* Verified workflows reach nothing unpinned or undeclared, through any number of
\* local actions, and no action they reach leads back to itself.
THEOREM VerifiedMeansImmutable == Spec => []VerifiedIsImmutable
<1>1. TypeOK /\ IInv => VerifiedIsImmutable
  <2> SUFFICES ASSUME TypeOK, IInv, status = "verified" PROVE VerifiedIsImmutable
    BY DEF VerifiedIsImmutable
  <2>1. \A w \in Declared : Settled(w)
    <3>1. turn - 1 = Len(Workflows) /\ Len(Workflows) \in Nat
      BY LocalActionsAssumption DEF IInv, StackOK, TypeOK
    <3>2. DOMAIN Workflows = 1 .. turn - 1
      BY <3>1, LocalActionsAssumption
    <3> QED
      BY <3>2 DEF Declared, IInv, SettledOK
  <2>2. \A f \in Reachable : f \in Declared \/ f \in visited
    BY <2>1, VisitedClosed DEF Reachable
  <2>3. \A f \in Reachable : Settled(f)
    BY <2>1, <2>2 DEF IInv, SettledOK
  <2>4. \A d \in Reachable \intersect Actions : d \notin Below(d)
    BY <2>2, LocalActionsAssumption DEF IInv, SettledOK
  <2> QED
    BY <2>3, <2>4 DEF VerifiedIsImmutable, Settled
<1> QED
  BY <1>1, TypeCorrect, Invariance, PTL

\* What add refuses as a cycle is one: the action refused leads back to itself.
THEOREM RefusedCyclesAreReal == Spec => CyclesAreReal
<1>1. TypeOK /\ IInv => [AddCycle => Reference \in Below(Reference)]_vars
  <2> SUFFICES ASSUME TypeOK, IInv, AddCycle PROVE Reference \in Below(Reference)
    OBVIOUS
  <2>1. /\ stack # <<>> /\ entering = <<>> /\ Top.at <= Len(content[Top.file])
        /\ Reference \in active
    BY DEF AddCycle, Admitted, HasReference, Working
  <2>2. Reference \in Refers(Top.file) \intersect Actions
    BY <2>1, ReferenceType DEF TypeOK
  <2>3. PICK i \in 2 .. Len(stack) : Reference = stack[i].file
    BY <2>1 DEF IInv, StackOK
  <2>4. CASE i = Len(stack)
    BY <2>2, <2>3, <2>4, BelowDirect DEF Top
  <2>5. CASE i # Len(stack)
    <3>1. i \in DOMAIN stack /\ Len(stack) \in DOMAIN stack /\ i < Len(stack)
      BY <2>3, <2>5 DEF TypeOK
    <3>2. Top.file \in Below(Reference)
      BY <2>3, <3>1 DEF IInv, PathOK, Top
    <3> QED
      BY <2>2, <3>2, BelowStep
  <2> QED
    BY <2>4, <2>5
<1> QED
  BY <1>1, TypeCorrect, Invariance, PTL DEF CyclesAreReal

\* After verification every pinned reference of every file reached was found as
\* often as the file has it and no other was, and the budgets were charged once
\* for each action reached and each byte of it, whatever paths lead to it.
THEOREM ReferencesAreFoundOnce == Spec => []EachReferenceOnce
<1>1. TypeOK /\ IInv /\ CInv => EachReferenceOnce
  <2> SUFFICES ASSUME TypeOK, IInv, CInv, status = "verified" PROVE EachReferenceOnce
    BY DEF EachReferenceOnce
  <2>1. stack = <<>> /\ entering = <<>> /\ active = {} /\ DOMAIN stack = {}
    BY DEF IInv, StackOK
  <2>2. Declared = {Workflows[t] : t \in 1 .. turn - 1}
    <3>1. turn - 1 = Len(Workflows) /\ Len(Workflows) \in Nat
      BY LocalActionsAssumption DEF IInv, StackOK, TypeOK
    <3>2. DOMAIN Workflows = 1 .. turn - 1
      BY <3>1, LocalActionsAssumption
    <3> QED
      BY <3>2 DEF Declared
  <2>3. Done = Reachable
    <3>1. \A w \in Declared : Settled(w)
      BY <2>2 DEF IInv, SettledOK
    <3>2. Reachable \subseteq Done
      BY <2>2, <3>1, VisitedClosed DEF Reachable, Done
    <3> QED
      BY <2>2, <3>2 DEF IInv, PathOK, Done, Reachable
  <2>4. visited = Reachable \intersect Actions
    BY <2>2, <2>3, LocalActionsAssumption DEF Done, TypeOK
  <2>5. ASSUME NEW f \in Files, NEW r \in Pinned
        PROVE  Occurrences(found, <<f, r>>) = IF f \in Reachable THEN Occurrences(content[f], r) ELSE 0
    <3>1. Occurrences(found, <<f, r>>) = Cardinality(AddedAs(f, r))
      BY DEF CInv, FoundOK
    <3>2. CASE f \in Reachable
      <4>1. AddedAs(f, r) = {i \in DOMAIN content[f] : content[f][i] = r}
        BY <2>3, <3>2 DEF AddedAs, Added
      <4> QED
        BY <3>1, <3>2, <4>1, Zenon DEF Occurrences
    <3>3. CASE f \notin Reachable
      <4>1. AddedAs(f, r) = {}
        BY <2>1, <2>3, <3>3 DEF AddedAs, Added
      <4>2. Cardinality(AddedAs(f, r)) = 0
        BY <4>1, FS_EmptySet, Zenon
      <4> QED
        BY <3>1, <3>3, <4>2
    <3> QED
      BY <3>2, <3>3
  <2>6. /\ actions = Cardinality(Reachable \intersect Actions)
        /\ bytes = Cardinality(BytesOf(Reachable \intersect Actions))
    <3>1. Entered = Reachable \intersect Actions
      BY <2>1, <2>4 DEF Entered
    <3>2. Read = Reachable \intersect Actions
      BY <2>1, <3>1 DEF Read
    <3>3. actions = Cardinality(Entered) /\ bytes = Cardinality(BytesOf(Read))
      BY DEF CInv, BudgetOK
    <3> QED
      BY <3>1, <3>2, <3>3, Zenon
  <2>7. actions <= MaxActions /\ bytes <= MaxBytes /\ references <= MaxReferences
    BY DEF TypeOK
  <2> QED
    BY <2>5, <2>6, <2>7 DEF EachReferenceOnce
<1> QED
  BY <1>1, TypeCorrect, Invariance, Counting, PTL
=============================================================================
