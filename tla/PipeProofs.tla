----------------------------- MODULE PipeProofs -----------------------------
(***************************************************************************)
(* Proofs about Pipe: references to files and the files a system call has  *)
(* in hand, which are counted, and the theorems.  PipeInv is inductive and *)
(* implies EndsCounted and NoLostWakeup, and Pipe implements Fifo: the ring *)
(* buffer and its counters, which wrap around at a multiple of PIPESIZE,   *)
(* are a bounded first-in first-out queue.  For any number of processes,   *)
(* files, descriptors and pages.                                           *)
(***************************************************************************)
EXTENDS PipeSteps, FiniteSetTheorems

-----------------------------------------------------------------------------
(* Facts about the operators.                                              *)

\* A sum of reference counts is zero only if both are.
LEMMA SumZero ==
    ASSUME NEW a \in Nat, NEW b \in Nat, a + b = 0
    PROVE  a = 0
  OBVIOUS

\* A nonempty finite set of integers has a least element.
LEMMA LeastExists ==
    ASSUME NEW S, S \subseteq Int, IsFiniteSet(S), S # {}
    PROVE  \E x \in S : \A y \in S : x <= y
<1> DEFINE Below(x) == {y \in S : y < x}
           F == {Below(x) : x \in S}
           R == StrictSubsetOrdering(S)
<1>1. FiniteSubsetsOf(S) = SUBSET S
    BY FS_FiniteSubsetsOfFinite
<1>2. F \subseteq SUBSET S /\ F # {}
    BY Zenon
<1>3. IsWellFoundedOn(R, SUBSET S)
    BY <1>1, FS_StrictSubsetOrderingWellFounded, Zenon
<1>4. PICK B \in F : \A C \in F : <<C, B>> \notin R
    <2> HIDE DEF F, R
    <2> QED BY <1>2, <1>3, WFMin, Zenon
<1>5. PICK x \in S : B = Below(x)
    OBVIOUS
<1>6. ASSUME NEW y \in S, y < x PROVE FALSE
    <2>1. \A z \in S : z < y => z < x
        BY <1>6
    <2>2. Below(y) \subseteq Below(x)
        BY <2>1, Zenon
    <2>3. y \in Below(x) /\ y \notin Below(y)
        BY <1>6
    <2>4. <<Below(y), Below(x)>> \in R
        BY <2>2, <2>3, Zenon DEF StrictSubsetOrdering
    <2> QED BY <2>4, <1>4, <1>5, Zenon
<1>7. \A y \in S : x <= y
    BY <1>6
<1> QED BY <1>7

\* sys_pipe() finds places 0 and 1 among the finitely many descriptors.
LEMMA DescriptorsFit == {0, 1} \subseteq FDs /\ FDs \subseteq Int /\ IsFiniteSet(FDs)
  BY PipeAssumption, FS_Interval DEF FDs

\* A nonempty finite set of integers has a lowest one.
LEMMA LowestIsLeast ==
    ASSUME NEW S, S \subseteq Int, IsFiniteSet(S), S # {}
    PROVE  Lowest(S) \in S
  BY LeastExists, Zenon DEF Lowest

\* fdalloc() and fileclose() find a descriptor, filealloc() a file.
LEMMA LowestFd ==
    ASSUME NEW S, S \subseteq FDs, S # {}
    PROVE  Lowest(S) \in S
  BY DescriptorsFit, LowestIsLeast, FS_Subset, Zenon

\* The two descriptors of sys_pipe() are free and different.
LEMMA OpenedAt ==
    ASSUME NEW S, S \subseteq FDs, S # {}, S \ {Lowest(S)} # {}
    PROVE  /\ Lowest(S) \in S
           /\ Lowest(S \ {Lowest(S)}) \in S
           /\ Lowest(S \ {Lowest(S)}) # Lowest(S)
  BY LowestFd

\* filealloc() returns one of the unused files.
LEMMA LowestFile ==
    ASSUME NEW S, S \subseteq Files, S # {}
    PROVE  Lowest(S) \in S
<1>1. IsFiniteSet(Files) /\ Files \subseteq Int
    BY PipeAssumption, FS_Interval DEF Files
<1> QED BY <1>1, LowestIsLeast, FS_Subset, Zenon

-----------------------------------------------------------------------------
(* The steps on files, with what they choose as parameters.                *)

\* Every step is a step on files or a step on a pipe, of one process.
LEMMA Steps ==
    ASSUME TypeOK, Next
    PROVE  \E p \in P : FileStep(p) \/ PipeStep(p)
<1>0. PICK p \in P : \/ PipeFile0(p) \/ Dup(p) \/ Close(p) \/ Fork(p) \/ Exit(p)
                     \/ Write(p) \/ Read(p) \/ Kill(p) \/ KernelStep(p)
    BY DEF Next
<1>t. ofile[p] \in FileRefs /\ hand[p] \in FileRefs
    BY DEF TypeOK
<1>u. ASSUME Unused # {} PROVE Lowest(Unused) \in Files /\ ftable[Lowest(Unused)].ref = 0
    BY <1>u, LowestFile, Zenon DEF Unused
<1>1. ASSUME PipeFile0(p) PROVE FileStep(p)
    BY <1>1, <1>u, Zenon DEF PipeFile0, FileStep, Alloc0
<1>2. ASSUME PipeFile1(p) PROVE FileStep(p)
    BY <1>2, <1>u, Zenon DEF PipeFile1, FileStep, Alloc1, GiveUp, Creating
<1>3. ASSUME Dup(p) PROVE FileStep(p)
    BY <1>3, LowestFd, <1>t DEF Dup, FreeFds, Open, FileRefs, DupFile, FileStep
<1>4. ASSUME Close(p) PROVE FileStep(p)
    <2>1. PICK fd \in FDs : /\ ofile[p][fd] # NoFile
                            /\ hand' = [hand EXCEPT ![p][fd] = ofile[p][fd]]
                            /\ ofile' = [ofile EXCEPT ![p][fd] = NoFile]
        BY <1>4, Zenon DEF Close
    <2>2. PICK f \in Files : f = ofile[p][fd]
        BY <2>1, <1>t, Zenon DEF FileRefs
    <2>3. CloseFd(p, f, fd)
        BY <1>4, <2>1, <2>2, Zenon DEF Close, CloseFd
    <2> QED BY <2>3, Zenon DEF FileStep
<1>5. ASSUME Fork(p) PROVE FileStep(p)
    BY <1>5, Zenon DEF Fork, ForkTo, FileStep
<1>6. ASSUME PipePage(p) PROVE FileStep(p)
    <2>1. CASE Goto(p, "fileclose") /\ UNCHANGED <<ftable, pipe, ofile, hand, call>>
        BY <1>6, <2>1, Zenon DEF PipePage, FileStep, GiveUp, Creating, data
    <2>2. CASE Goto(p, "fileclose") /\ UNCHANGED <<ofile, hand, call>> /\ \E g \in Pages : PipeAlloc(p, g)
        BY <1>6, <2>2, Zenon DEF PipePage, FileStep, DropPipe
    <2>3. CASE /\ \E g \in Pages : PipeAlloc(p, g)
               /\ FreeFds(p) # {} /\ FreeFds(p) \ {Lowest(FreeFds(p))} # {}
               /\ PipeFds(p, Lowest(FreeFds(p)), Lowest(FreeFds(p) \ {Lowest(FreeFds(p))}))
        <3>1. FreeFds(p) \subseteq FDs
            BY DEF FreeFds
        <3>2. PICK fd0, fd1 \in FDs :
                 /\ fd0 = Lowest(FreeFds(p)) /\ fd1 = Lowest(FreeFds(p) \ {Lowest(FreeFds(p))})
                 /\ fd0 # fd1 /\ ofile[p][fd0] = NoFile /\ ofile[p][fd1] = NoFile
            <4>1. /\ Lowest(FreeFds(p)) \in FreeFds(p)
                  /\ Lowest(FreeFds(p) \ {Lowest(FreeFds(p))}) \in FreeFds(p)
                  /\ Lowest(FreeFds(p) \ {Lowest(FreeFds(p))}) # Lowest(FreeFds(p))
                BY <2>3, <3>1, OpenedAt, Zenon
            <4> QED BY <4>1, Zenon DEF FreeFds
        <3> QED BY <1>6, <2>3, <3>2, Zenon DEF PipePage, FileStep, OpenPipe
    <2> QED BY <1>6, <2>1, <2>2, <2>3, Zenon DEF PipePage
<1>7. ASSUME FileClose(p) PROVE FileStep(p)
    <2>1. InHand(p) \subseteq FDs /\ InHand(p) # {}
        BY <1>7, Zenon DEF FileClose, InHand
    <2>2. PICK k \in FDs : k = Lowest(InHand(p)) /\ hand[p][k] # NoFile
        BY <2>1, LowestFd, Zenon DEF InHand
    <2>3. PICK f \in Files : f = hand[p][k]
        BY <2>2, <1>t, Zenon DEF FileRefs
    <2>4. PutFile(p, f, k)
        BY <1>7, <2>2, <2>3, Zenon DEF FileClose, PutFile
    <2>5. FileDrop(p, k) \/ FileLast(p, k)
        BY <1>7, <2>2, Zenon DEF FileClose
    <2>6. DropFile(p, f, k) \/ LastFile(p, f, k) \/ LastEnd(p, f, k)
        BY <2>3, <2>4, <2>5, Zenon DEF FileDrop, FileLast, DropFile, LastFile, LastEnd
    <2> QED BY <2>6, Zenon DEF FileStep
<1> QED BY <1>0, <1>1, <1>2, <1>3, <1>4, <1>5, <1>6, <1>7, Zenon DEF KernelStep, FileStep, PipeStep

-----------------------------------------------------------------------------
(* Types.                                                                  *)

\* The steps on files keep the types.
LEMMA TypesFileStep ==
    ASSUME TypeOK, NEW p \in P, FileStep(p)
    PROVE  TypeOK'
<1> USE DEF TypeOK
<1>1. CASE GiveUp(p)
    BY <1>1, ConstantTypes, Zenon DEF GiveUp, Goto, data
<1>2. CASE Closed(p)
    <2>1. \E l \in {"user", "unused"} : pc' = [pc EXCEPT ![p] = l]
        BY <1>2, Zenon DEF Closed, Return, Goto
    <2>2. call' = [call EXCEPT ![p] = NoCall] \/ call' = call
        BY <1>2, Zenon DEF Closed, Return, SetCall
    <2>3. call' \in [P -> CallType] /\ \A q \in P : call'[q].i <= call'[q].n
        BY <2>2, ConstantTypes, Zenon
    <2>4. killed' \in [P -> BOOLEAN] /\ exiting' \in [P -> BOOLEAN]
        BY <1>2, Zenon DEF Closed
    <2>5. pc' \in [P -> Position]
        BY <2>1, ConstantTypes, Zenon
    <2>6. UNCHANGED <<ftable, data, ofile, hand>>
        BY <1>2, Zenon DEF Closed
    <2> QED BY <2>3, <2>4, <2>5, <2>6, Zenon DEF data
<1>3. CASE Exit(p)
    BY <1>3, ConstantTypes, Zenon DEF Exit, Goto, data
<1>4. ASSUME NEW f \in Files, Alloc0(p, f) PROVE TypeOK'
    <2>1. ftable' \in [Files -> FileType]
        BY <1>4, RefTypes, Zenon DEF Alloc0, FileAlloc
    <2>2. hand' \in [P -> FileRefs]
        BY <1>4, DescriptorsFit, Zenon DEF Alloc0, FileAlloc, FileRefs
    <2> QED BY <1>4, <2>1, <2>2, ConstantTypes, Zenon DEF Alloc0, FileAlloc, Goto, data
<1>5. ASSUME NEW f \in Files, Alloc1(p, f) PROVE TypeOK'
    <2>1. ftable' \in [Files -> FileType]
        BY <1>5, RefTypes, Zenon DEF Alloc1, FileAlloc
    <2>2. hand' \in [P -> FileRefs]
        BY <1>5, DescriptorsFit, Zenon DEF Alloc1, FileAlloc, FileRefs
    <2> QED BY <1>5, <2>1, <2>2, ConstantTypes, Zenon DEF Alloc1, FileAlloc, Goto, data
<1>a. ASSUME NEW g \in Pages, PipeAlloc(p, g)
      PROVE  ftable' \in [Files -> FileType] /\ pipe' \in [Pages -> PipeType]
    <2>1. pipe' \in [Pages -> PipeType]
        BY <1>a, ConstantTypes, Zenon DEF PipeAlloc
    <2>2. ftable' \in [Files -> FileType]
        BY <1>a, Zenon DEF PipeAlloc, FileType
    <2> QED BY <2>1, <2>2, Zenon
<1>6. ASSUME NEW g \in Pages, DropPipe(p, g) PROVE TypeOK'
    BY <1>6, <1>a, ConstantTypes, Zenon DEF DropPipe, Goto
<1>7. ASSUME NEW g \in Pages, NEW fd0 \in FDs, NEW fd1 \in FDs, OpenPipe(p, g, fd0, fd1)
      PROVE  TypeOK'
    <2>1. ftable' \in [Files -> FileType] /\ pipe' \in [Pages -> PipeType]
        BY <1>7, <1>a, Zenon DEF OpenPipe
    <2>2. hand[p][0] \in Files \cup {NoFile} /\ hand[p][1] \in Files \cup {NoFile}
        BY DescriptorsFit DEF FileRefs
    <2>3. ofile' \in [P -> FileRefs]
        BY <1>7, <2>2, Zenon DEF OpenPipe, PipeFds, FileRefs
    <2>4. /\ hand' \in [P -> FileRefs] /\ pc' \in [P -> Position]
          /\ call' \in [P -> CallType] /\ \A q \in P : call'[q].i <= call'[q].n
        BY <1>7, ConstantTypes, Zenon DEF OpenPipe, PipeFds, Return, Goto, SetCall
    <2> QED BY <1>7, <2>1, <2>3, <2>4, Zenon DEF OpenPipe
<1>8. ASSUME NEW f \in Files, NEW fd \in FDs, CloseFd(p, f, fd) PROVE TypeOK'
    BY <1>8, ConstantTypes, Zenon DEF CloseFd, FileRefs, Goto, data
<1>9. ASSUME NEW f \in Files, NEW k \in FDs, PutFile(p, f, k) PROVE hand' \in [P -> FileRefs]
    BY <1>9, Zenon DEF PutFile, FileRefs
<1>10. ASSUME NEW f \in Files, NEW k \in FDs, DropFile(p, f, k) PROVE TypeOK'
    <2>1. ftable' \in [Files -> FileType]
        BY <1>10 DEF DropFile, FileType
    <2> QED BY <1>10, <1>9, <2>1, Zenon DEF DropFile, PutFile, data
<1>11. ASSUME NEW f \in Files, NEW k \in FDs, LastFile(p, f, k) PROVE TypeOK'
    BY <1>11, <1>9, ConstantTypes, Zenon DEF LastFile, PutFile, data
<1>12. ASSUME NEW f \in Files, NEW k \in FDs, LastEnd(p, f, k) PROVE TypeOK'
    <2>1. Locals(ftable[f].pipe, ftable[f].writable, 0) \in CallType
        BY Zenon DEF Locals, CallType, FileType
    <2>2. call' \in [P -> CallType] /\ \A q \in P : call'[q].i <= call'[q].n
        BY <1>12, <2>1 DEF LastEnd, SetCall, Locals
    <2> QED BY <1>12, <1>9, <2>2, ConstantTypes, Zenon DEF LastEnd, PutFile, Goto, data
<1>13. ASSUME NEW f \in Files, NEW k \in FDs, NEW fd \in FDs, DupFile(p, f, k, fd) PROVE TypeOK'
    <2>1. ftable' \in [Files -> FileType]
        <3>1. ftable[f].ref + 1 \in Nat
            BY DEF FileType
        <3>2. ftable' = [ftable EXCEPT ![f].ref = ftable[f].ref + 1]
            BY <1>13, Zenon DEF DupFile, FileDup
        <3> QED BY <3>1, <3>2, RefTypes, Zenon
    <2>2. ofile' \in [P -> FileRefs]
        BY <1>13, Zenon DEF DupFile, FileDup, FileRefs
    <2> QED BY <1>13, <2>1, <2>2, Zenon DEF DupFile, FileDup, data
<1>14. ASSUME NEW q \in P, ForkTo(p, q) PROVE TypeOK'
    <2>1. \A f \in Files : Cardinality({fd \in FDs : ofile[p][fd] = f}) \in Nat
        BY DescriptorsFit, FS_Subset, FS_CardinalityType, Zenon
    <2>2. ftable' \in [Files -> FileType]
        BY <1>14, <2>1 DEF ForkTo, FileType
    <2> QED BY <1>14, <2>2, ConstantTypes, Zenon DEF ForkTo, Goto, data
<1> HIDE DEF TypeOK
<1> QED BY <1>1, <1>2, <1>3, <1>4, <1>5, <1>6, <1>7, <1>8, <1>10, <1>11, <1>12, <1>13, <1>14, Zenon
        DEF FileStep

-----------------------------------------------------------------------------
(* References to files.                                                    *)

\* There are finitely many places that can refer to a file.
LEMMA HeldFinite ==
    ASSUME NEW F, NEW e
    PROVE  /\ IsFiniteSet(Held(F, e)) /\ Cardinality(Held(F, e)) \in Nat
           /\ Cardinality(Held(F, e)) = 0 <=> Held(F, e) = {}
<1>1. IsFiniteSet(P \X FDs)
    BY DescriptorsFit, PipeAssumption, FS_Product, Zenon
<1>2. IsFiniteSet(Held(F, e))
    BY <1>1, FS_Subset, Zenon DEF Held
<1> QED BY <1>2, FS_CardinalityType, FS_EmptySet

\* Place k of process p, or all its places, are set.
Placed(F, p, k, v) == [F EXCEPT ![p][k] = v]
Given(F, p, c) == [F EXCEPT ![p] = c]

\* Setting a place keeps the type of the descriptors.
LEMMA PlacedType ==
    ASSUME NEW F \in [P -> FileRefs], NEW p \in P, NEW k \in FDs, NEW v \in Files \cup {NoFile}
    PROVE  Placed(F, p, k, v) \in [P -> FileRefs]
  BY DEF Placed, FileRefs

\* The place that is set, and the others.
LEMMA PlacedAt ==
    ASSUME NEW F \in [P -> FileRefs], NEW p \in P, NEW k \in FDs, NEW v,
           NEW q \in P, NEW j \in FDs
    PROVE  Placed(F, p, k, v)[q][j] = IF q = p /\ j = k THEN v ELSE F[q][j]
  BY DEF Placed, FileRefs

\* A place that held nothing refers to v from now on.
LEMMA HeldSet ==
    ASSUME NEW F \in [P -> FileRefs], NEW p \in P, NEW k \in FDs, NEW v \in Files,
           F[p][k] = NoFile, NEW G, G = Placed(F, p, k, v)
    PROVE  /\ Cardinality(Held(G, v)) = Cardinality(Held(F, v)) + 1
           /\ \A e \in Files \ {v} : Held(G, e) = Held(F, e)
<1>0. NoFile \notin Files
    BY PipeAssumption, Zenon DEF Files
<1>1. \A q \in P, j \in FDs : G[q][j] = IF q = p /\ j = k THEN v ELSE F[q][j]
    BY PlacedAt
<1>2. Held(G, v) = Held(F, v) \cup {<<p, k>>} /\ <<p, k>> \notin Held(F, v)
    BY <1>0, <1>1 DEF Held
<1>3. \A e \in Files \ {v} : Held(G, e) = Held(F, e)
    BY <1>0, <1>1 DEF Held
<1>4. Cardinality(Held(G, v)) = Cardinality(Held(F, v)) + 1
    BY <1>2, HeldFinite, FS_AddElement, Zenon
<1> QED BY <1>3, <1>4, Zenon

\* A place that referred to v is cleared.
LEMMA HeldDrop ==
    ASSUME NEW F \in [P -> FileRefs], NEW p \in P, NEW k \in FDs, NEW v \in Files,
           F[p][k] = v, NEW G, G = Placed(F, p, k, NoFile)
    PROVE  /\ Cardinality(Held(G, v)) = Cardinality(Held(F, v)) - 1
           /\ \A e \in Files \ {v} : Held(G, e) = Held(F, e)
<1>0. NoFile \notin Files
    BY PipeAssumption, Zenon DEF Files
<1>1. \A q \in P, j \in FDs : G[q][j] = IF q = p /\ j = k THEN NoFile ELSE F[q][j]
    BY PlacedAt
<1>2. Held(G, v) = Held(F, v) \ {<<p, k>>} /\ <<p, k>> \in Held(F, v)
    BY <1>0, <1>1 DEF Held
<1>3. \A e \in Files \ {v} : Held(G, e) = Held(F, e)
    BY <1>0, <1>1 DEF Held
<1>4. Cardinality(Held(G, v)) = Cardinality(Held(F, v)) - 1
    <2>1. IsFiniteSet(Held(F, v))
        BY HeldFinite, Zenon
    <2>2. Cardinality(Held(F, v) \ {<<p, k>>}) = Cardinality(Held(F, v)) - 1
        BY <1>2, <2>1, FS_RemoveElement, Zenon
    <2> QED BY <1>2, <2>2, Zenon
<1> QED BY <1>3, <1>4, Zenon

\* A process q that referred to nothing refers to the files of c.
LEMMA HeldCopy ==
    ASSUME NEW F \in [P -> FileRefs], NEW q \in P, NEW c \in FileRefs, F[q] = NoFiles,
           NEW G, G = Given(F, q, c), NEW e \in Files
    PROVE  Cardinality(Held(G, e))
           = Cardinality(Held(F, e)) + Cardinality({fd \in FDs : c[fd] = e})
<1> DEFINE S == {fd \in FDs : c[fd] = e}
<1>0. NoFile \notin Files
    BY PipeAssumption, Zenon DEF Files
<1>1. \A r \in P, j \in FDs : G[r][j] = IF r = q THEN c[j] ELSE F[r][j]
    BY DEF Given
<1>2. \A j \in FDs : F[q][j] = NoFile
    BY Zenon DEF NoFiles
<1>3. Held(G, e) = Held(F, e) \cup ({q} \X S)
    BY <1>0, <1>1, <1>2 DEF Held
<1>4. Held(F, e) \cap ({q} \X S) = {}
    BY <1>0, <1>2, Zenon DEF Held
<1> HIDE DEF S
<1>5. IsFiniteSet(S)
    BY DescriptorsFit, FS_Subset, Zenon DEF S
<1>6. IsFiniteSet({q} \X S) /\ Cardinality({q} \X S) = Cardinality(S)
    <2>1. IsFiniteSet({q}) /\ Cardinality({q}) = 1
        BY FS_Singleton, Zenon
    <2>2. IsFiniteSet({q} \X S) /\ Cardinality({q} \X S) = Cardinality({q}) * Cardinality(S)
        BY <1>5, <2>1, FS_Product, Zenon
    <2>3. Cardinality(S) \in Nat
        BY <1>5, FS_CardinalityType, Zenon
    <2> QED BY <2>1, <2>2, <2>3
<1>7. Cardinality(Held(G, e)) = Cardinality(Held(F, e)) + Cardinality({q} \X S)
                                - Cardinality(Held(F, e) \cap ({q} \X S))
    BY <1>3, <1>6, HeldFinite, FS_Union
<1>8. Cardinality(Held(F, e) \cap ({q} \X S)) = 0
    BY <1>4, FS_EmptySet, Zenon
<1>9. Cardinality(S) \in Nat /\ Cardinality(Held(F, e)) \in Nat
    BY <1>5, HeldFinite, FS_CardinalityType, Zenon
<1>10. Cardinality(Held(G, e)) = Cardinality(Held(F, e)) + Cardinality(S)
    BY <1>6, <1>7, <1>8, <1>9
<1> QED BY <1>10, Zenon DEF S

\* exit(): the descriptors of p become files in hand.
LEMMA HeldMove ==
    ASSUME NEW F \in [P -> FileRefs], NEW H \in [P -> FileRefs], NEW p \in P, H[p] = NoFiles,
           NEW G, G = Given(F, p, NoFiles), NEW K, K = Given(H, p, F[p]), NEW e \in Files
    PROVE  Cardinality(Held(G, e)) + Cardinality(Held(K, e))
           = Cardinality(Held(F, e)) + Cardinality(Held(H, e))
<1> DEFINE S == {fd \in FDs : F[p][fd] = e}
<1>0. PICK c \in FileRefs : c = F[p]
    BY Zenon
<1>1. Cardinality(Held(K, e)) = Cardinality(Held(H, e)) + Cardinality(S)
    BY <1>0, HeldCopy
<1>2. Cardinality(Held(F, e)) = Cardinality(Held(G, e)) + Cardinality(S)
    <2>1. F = Given(G, p, c) /\ G[p] = NoFiles
        BY <1>0, Zenon DEF Given
    <2>2. G \in [P -> FileRefs]
        BY ConstantTypes, Zenon DEF Given
    <2>3. Cardinality(Held(F, e))
          = Cardinality(Held(G, e)) + Cardinality({fd \in FDs : c[fd] = e})
        BY <2>1, <2>2, HeldCopy
    <2> QED BY <1>0, <2>3, Zenon
<1>3. IsFiniteSet(S)
    BY DescriptorsFit, FS_Subset, Zenon
<1>4. Cardinality(S) \in Nat
    BY <1>3, FS_CardinalityType, Zenon
<1> HIDE DEF S
<1>5. Cardinality(Held(G, e)) + Cardinality(Held(K, e)) = Cardinality(Held(F, e)) + Cardinality(Held(H, e))
    BY <1>1, <1>2, <1>4, HeldFinite
<1> QED BY <1>5, Zenon

\* A file with no reference is nowhere; one whose only reference is in a hand is there
\* and nowhere else.
LEMMA RefsHeld ==
    ASSUME TypeOK, RefsCounted, NEW f \in Files
    PROVE  /\ ftable[f].ref = 0 => \A q \in P, j \in FDs : ofile[q][j] # f /\ hand[q][j] # f
           /\ \A p \in P, k \in FDs : hand[p][k] = f /\ ftable[f].ref = 1 =>
                \A q \in P, j \in FDs : ofile[q][j] # f /\ (hand[q][j] = f => q = p /\ j = k)
<1>0. /\ ftable[f].ref = Cardinality(Held(ofile, f)) + Cardinality(Held(hand, f))
      /\ Cardinality(Held(ofile, f)) \in Nat /\ Cardinality(Held(hand, f)) \in Nat
    BY HeldFinite, Zenon DEF RefsCounted
<1>h. \A q \in P, j \in FDs : /\ ofile[q][j] = f <=> <<q, j>> \in Held(ofile, f)
                              /\ hand[q][j] = f <=> <<q, j>> \in Held(hand, f)
    BY Zenon DEF Held
<1>1. ASSUME ftable[f].ref = 0
      PROVE  \A q \in P, j \in FDs : ofile[q][j] # f /\ hand[q][j] # f
    <2>1. Held(ofile, f) = {} /\ Held(hand, f) = {}
        BY <1>0, <1>1, HeldFinite
    <2> QED BY <1>h, <2>1, Zenon
<1>2. ASSUME NEW p \in P, NEW k \in FDs, hand[p][k] = f, ftable[f].ref = 1
      PROVE  \A q \in P, j \in FDs : ofile[q][j] # f /\ (hand[q][j] = f => q = p /\ j = k)
    <2>1. <<p, k>> \in Held(hand, f)
        BY <1>2, Zenon DEF Held
    <2>2. Cardinality(Held(hand, f)) # 0
        BY <2>1, HeldFinite, Zenon
    <2>3. Cardinality(Held(hand, f)) = 1 /\ Cardinality(Held(ofile, f)) = 0
        BY <1>0, <1>2, <2>2
    <2>4. Held(ofile, f) = {}
        BY <2>3, HeldFinite, Zenon
    <2>5. PICK x : Held(hand, f) = {x}
        BY <2>3, HeldFinite, FS_Singleton, Zenon
    <2>6. x = <<p, k>>
        BY <2>1, <2>5, Zenon
    <2>7. \A q \in P, j \in FDs : hand[q][j] = f => <<q, j>> = <<p, k>>
        BY <1>h, <2>5, <2>6, Zenon
    <2> QED BY <1>h, <2>4, <2>7, Zenon
<1> QED BY <1>1, <1>2, Zenon

\* Nobody's files in hand are created by the others, and no descriptor refers to them.
LEMMA CreatedAlone ==
    ASSUME TypeOK, RefInv, NEW q \in P
    PROVE  /\ pc[q] \in Creating =>
                /\ \A p \in P, k \in FDs : ofile[p][k] # hand[q][0]
                /\ \A p \in P, k \in FDs : hand[p][k] = hand[q][0] => p = q /\ k = 0
           /\ pc[q] = "pipe_page" =>
                /\ \A p \in P, k \in FDs : ofile[p][k] # hand[q][1]
                /\ \A p \in P, k \in FDs : hand[p][k] = hand[q][1] => p = q /\ k = 1
  BY DescriptorsFit, RefsHeld DEF RefInv, HandInv, Creating, Created

\* filealloc(), filedup(), fileclose() and fork() keep ref equal to the references.
LEMMA RefsFileStep ==
    ASSUME TypeOK, RefInv, NEW p \in P, FileStep(p)
    PROVE  RefsCounted'
<1> DEFINE Sum(o, h, e) == Cardinality(Held(o, e)) + Cardinality(Held(h, e))
<1>0. /\ \A e \in Files : ftable[e].ref = Sum(ofile, hand, e)
      /\ ofile \in [P -> FileRefs] /\ hand \in [P -> FileRefs] /\ ftable \in [Files -> FileType]
      /\ HandInv(p)
    BY DEF RefInv, RefsCounted, TypeOK
<1>n. \A o, e : Cardinality(Held(o, e)) \in Nat
    BY HeldFinite, Zenon
<1>s. SUFFICES \A e \in Files : ftable'[e].ref = Sum(ofile', hand', e)
    BY Zenon DEF RefsCounted, Held
<1> HIDE DEF Sum
<1>1. CASE GiveUp(p)
    BY <1>0, <1>1, Zenon DEF GiveUp
<1>2. CASE Closed(p)
    BY <1>0, <1>2, Zenon DEF Closed
<1>3. CASE Exit(p)
    <2>1. hand[p] = NoFiles
        BY <1>0, <1>3, Zenon DEF Exit, HandInv, Creating, Closing
    <2>2. \A e \in Files : Sum(ofile', hand', e) = Sum(ofile, hand, e)
        <3>1. ofile' = Given(ofile, p, NoFiles) /\ hand' = Given(hand, p, ofile[p])
            BY <1>3, Zenon DEF Exit, Given
        <3> QED BY <1>0, <2>1, <3>1, HeldMove DEF Sum
    <2> QED BY <1>0, <1>3, <2>2, Zenon DEF Exit
<1>a. ASSUME NEW f \in Files, NEW k \in FDs, FileAlloc(p, k, f), ftable[f].ref = 0, hand[p][k] = NoFile
      PROVE  \A e \in Files : ftable'[e].ref = Sum(ofile', hand', e)
    <2>1. hand' = Placed(hand, p, k, f) /\ ofile' = ofile
        BY <1>a, Zenon DEF FileAlloc, Placed
    <2>2. /\ Cardinality(Held(hand', f)) = Cardinality(Held(hand, f)) + 1
          /\ \A e \in Files \ {f} : Held(hand', e) = Held(hand, e)
        BY <1>0, <1>a, <2>1, HeldSet
    <2>3. Sum(ofile', hand', f) = Sum(ofile, hand, f) + 1
        BY <2>1, <2>2, <1>n DEF Sum
    <2>4. \A e \in Files \ {f} : Sum(ofile', hand', e) = Sum(ofile, hand, e)
        BY <2>1, <2>2, Zenon DEF Sum
    <2>5. ftable'[f].ref = 1 /\ \A e \in Files \ {f} : ftable'[e] = ftable[e]
        BY <1>0, <1>a, Zenon DEF FileAlloc, FileType
    <2> QED BY <1>0, <1>a, <2>3, <2>4, <2>5
<1>4. ASSUME NEW f \in Files, Alloc0(p, f)
      PROVE  \A e \in Files : ftable'[e].ref = Sum(ofile', hand', e)
    <2>1. hand[p][0] = NoFile
        BY <1>0, <1>4, DescriptorsFit, Zenon DEF Alloc0, Call, HandInv, Creating, Closing, NoFiles
    <2> QED BY <1>a, <1>4, <2>1, DescriptorsFit, Zenon DEF Alloc0
<1>5. ASSUME NEW f \in Files, Alloc1(p, f)
      PROVE  \A e \in Files : ftable'[e].ref = Sum(ofile', hand', e)
    BY <1>0, <1>5, DescriptorsFit, <1>a DEF Alloc1, HandInv
<1>b. ASSUME NEW g \in Pages, PipeAlloc(p, g)
      PROVE  \A e \in Files : ftable'[e].ref = ftable[e].ref
    BY <1>0, <1>b, Zenon DEF PipeAlloc, FileType
<1>6. ASSUME NEW g \in Pages, DropPipe(p, g)
      PROVE  \A e \in Files : ftable'[e].ref = Sum(ofile', hand', e)
    BY <1>0, <1>b, <1>6, Zenon DEF DropPipe
<1>7. ASSUME NEW g \in Pages, NEW fd0 \in FDs, NEW fd1 \in FDs, OpenPipe(p, g, fd0, fd1)
      PROVE  \A e \in Files : ftable'[e].ref = Sum(ofile', hand', e)
    <2>1. PICK rf, wf \in Files : /\ rf = hand[p][0] /\ wf = hand[p][1] /\ rf # wf
                                  /\ \A k \in FDs \ {0, 1} : hand[p][k] = NoFile
        BY <1>0, <1>7, Zenon DEF OpenPipe, HandInv, Created
    <2> DEFINE o1 == Placed(ofile, p, fd0, rf)
               h1 == Placed(hand, p, 0, NoFile)
    <2>2. o1 \in [P -> FileRefs] /\ h1 \in [P -> FileRefs]
        BY <1>0, PlacedType, DescriptorsFit, Zenon
    <2>3. o1[p][fd1] = NoFile /\ h1[p][1] = wf
        <3>1. fd0 # fd1 /\ ofile[p][fd1] = NoFile
            BY <1>7, Zenon DEF OpenPipe
        <3>2. o1[p][fd1] = IF p = p /\ fd1 = fd0 THEN rf ELSE ofile[p][fd1]
            BY <1>0, PlacedAt
        <3>3. h1[p][1] = IF p = p /\ 1 = 0 THEN NoFile ELSE hand[p][1]
            BY <1>0, PlacedAt, DescriptorsFit
        <3> HIDE DEF o1, h1
        <3> QED BY <2>1, <3>1, <3>2, <3>3, Zenon
    <2>4. ofile' = Placed(o1, p, fd1, wf)
        BY <1>0, <1>7, <2>1, Zenon DEF OpenPipe, PipeFds, FileRefs, Placed
    <2>5. hand' = Placed(h1, p, 1, NoFile)
        <3>1. Placed(h1, p, 1, NoFile) \in [P -> FileRefs] /\ hand' \in [P -> FileRefs]
            BY <1>0, <1>7, <2>2, PlacedType, ConstantTypes, DescriptorsFit, Zenon DEF OpenPipe, PipeFds
        <3>2. \A q \in P, j \in FDs : Placed(h1, p, 1, NoFile)[q][j]
                                      = IF q = p THEN NoFile ELSE hand[q][j]
            BY <1>0, <2>1, <2>2, PlacedAt, DescriptorsFit
        <3>3. \A q \in P, j \in FDs : hand'[q][j] = IF q = p THEN NoFile ELSE hand[q][j]
            BY <1>0, <1>7, Zenon DEF OpenPipe, PipeFds, NoFiles
        <3> QED BY <3>1, <3>2, <3>3 DEF FileRefs
    <2>6. /\ Cardinality(Held(o1, rf)) = Cardinality(Held(ofile, rf)) + 1
          /\ \A e \in Files \ {rf} : Held(o1, e) = Held(ofile, e)
        BY <1>0, <1>7, HeldSet DEF OpenPipe
    <2>7. /\ Cardinality(Held(h1, rf)) = Cardinality(Held(hand, rf)) - 1
          /\ \A e \in Files \ {rf} : Held(h1, e) = Held(hand, e)
        BY <1>0, <2>1, HeldDrop, DescriptorsFit
    <2> HIDE DEF o1, h1
    <2>8. /\ Cardinality(Held(ofile', wf)) = Cardinality(Held(o1, wf)) + 1
          /\ \A e \in Files \ {wf} : Held(ofile', e) = Held(o1, e)
        BY <2>2, <2>3, <2>4, HeldSet
    <2>9. /\ Cardinality(Held(hand', wf)) = Cardinality(Held(h1, wf)) - 1
          /\ \A e \in Files \ {wf} : Held(hand', e) = Held(h1, e)
        BY <2>2, <2>3, <2>5, HeldDrop, DescriptorsFit
    <2>10. \A e \in Files : Sum(ofile', hand', e) = Sum(ofile, hand, e)
        BY <2>1, <2>6, <2>7, <2>8, <2>9, <1>n DEF Sum
    <2> QED BY <1>0, <1>b, <1>7, <2>10, Zenon DEF OpenPipe
<1>8. ASSUME NEW f \in Files, NEW fd \in FDs, CloseFd(p, f, fd)
      PROVE  \A e \in Files : ftable'[e].ref = Sum(ofile', hand', e)
    <2>1. hand[p][fd] = NoFile
        BY <1>0, <1>8, Zenon DEF CloseFd, Call, HandInv, Creating, Closing, NoFiles
    <2>2. /\ Cardinality(Held(hand', f)) = Cardinality(Held(hand, f)) + 1
          /\ \A e \in Files \ {f} : Held(hand', e) = Held(hand, e)
        <3>1. hand' = Placed(hand, p, fd, f)
            BY <1>8, Zenon DEF CloseFd, Placed
        <3> QED BY <1>0, <2>1, <3>1, HeldSet
    <2>3. /\ Cardinality(Held(ofile', f)) = Cardinality(Held(ofile, f)) - 1
          /\ \A e \in Files \ {f} : Held(ofile', e) = Held(ofile, e)
        <3>1. ofile' = Placed(ofile, p, fd, NoFile) /\ ofile[p][fd] = f
            BY <1>8, Zenon DEF CloseFd, Placed
        <3> QED BY <1>0, <3>1, HeldDrop
    <2>4. \A e \in Files : Sum(ofile', hand', e) = Sum(ofile, hand, e)
        BY <2>2, <2>3, <1>n DEF Sum
    <2> QED BY <1>0, <1>8, <2>4, Zenon DEF CloseFd
<1>9. ASSUME NEW f \in Files, NEW k \in FDs, PutFile(p, f, k), ftable'[f].ref = ftable[f].ref - 1,
             \A e \in Files \ {f} : ftable'[e] = ftable[e]
      PROVE  \A e \in Files : ftable'[e].ref = Sum(ofile', hand', e)
    <2>1. /\ Cardinality(Held(hand', f)) = Cardinality(Held(hand, f)) - 1
          /\ \A e \in Files \ {f} : Held(hand', e) = Held(hand, e)
        <3>1. hand' = Placed(hand, p, k, NoFile) /\ hand[p][k] = f
            BY <1>9, Zenon DEF PutFile, Placed
        <3> QED BY <1>0, <3>1, HeldDrop
    <2>2. ofile' = ofile
        BY <1>9, Zenon DEF PutFile
    <2>3. Sum(ofile', hand', f) = Sum(ofile, hand, f) - 1
        BY <2>1, <2>2, <1>n DEF Sum
    <2>4. \A e \in Files \ {f} : Sum(ofile', hand', e) = Sum(ofile, hand, e)
        BY <2>1, <2>2, Zenon DEF Sum
    <2> QED BY <1>0, <1>9, <2>3, <2>4, Zenon
<1>10. ASSUME NEW f \in Files, NEW k \in FDs, DropFile(p, f, k)
       PROVE  \A e \in Files : ftable'[e].ref = Sum(ofile', hand', e)
    BY <1>0, <1>10, <1>9, Zenon DEF DropFile, FileType
<1>11. ASSUME NEW f \in Files, NEW k \in FDs, LastFile(p, f, k) \/ LastEnd(p, f, k)
       PROVE  \A e \in Files : ftable'[e].ref = Sum(ofile', hand', e)
    BY <1>0, <1>11, <1>9 DEF LastFile, LastEnd, FreeFile
<1>12. ASSUME NEW f \in Files, NEW k \in FDs, NEW fd \in FDs, DupFile(p, f, k, fd)
       PROVE  \A e \in Files : ftable'[e].ref = Sum(ofile', hand', e)
    <2>1. /\ Cardinality(Held(ofile', f)) = Cardinality(Held(ofile, f)) + 1
          /\ \A e \in Files \ {f} : Held(ofile', e) = Held(ofile, e)
        <3>1. ofile' = Placed(ofile, p, fd, f) /\ ofile[p][fd] = NoFile
            BY <1>12, Zenon DEF DupFile, FileDup, Placed
        <3> QED BY <1>0, <3>1, HeldSet
    <2>2. hand' = hand
        BY <1>12, Zenon DEF DupFile, FileDup
    <2>3. Sum(ofile', hand', f) = Sum(ofile, hand, f) + 1
        BY <2>1, <2>2, <1>n DEF Sum
    <2>4. \A e \in Files \ {f} : Sum(ofile', hand', e) = Sum(ofile, hand, e)
        BY <2>1, <2>2, Zenon DEF Sum
    <2>5. ftable'[f].ref = ftable[f].ref + 1 /\ \A e \in Files \ {f} : ftable'[e] = ftable[e]
        BY <1>0, <1>12, Zenon DEF DupFile, FileDup, FileType
    <2> QED BY <1>0, <2>3, <2>4, <2>5, Zenon
<1>13. ASSUME NEW q \in P, ForkTo(p, q)
       PROVE  \A e \in Files : ftable'[e].ref = Sum(ofile', hand', e)
    <2>1. ofile[q] = NoFiles
        BY <1>13, Zenon DEF ForkTo, RefInv, HandInv
    <2>2. \A e \in Files : Cardinality(Held(ofile', e))
                           = Cardinality(Held(ofile, e)) + Cardinality({fd \in FDs : ofile[p][fd] = e})
        <3>1. PICK c \in FileRefs : c = ofile[p]
            BY <1>0, Zenon
        <3>2. ofile' = Given(ofile, q, c)
            BY <3>1, <1>13, Zenon DEF ForkTo, Given
        <3>3. \A e \in Files : Cardinality(Held(ofile', e))
                           = Cardinality(Held(ofile, e)) + Cardinality({fd \in FDs : c[fd] = e})
            BY <1>0, <2>1, <3>2, HeldCopy
        <3> QED BY <3>1, <3>3, Zenon
    <2>3. \A e \in Files : /\ Cardinality({fd \in FDs : ofile[p][fd] = e}) \in Nat
                           /\ ftable'[e].ref = ftable[e].ref + Cardinality({fd \in FDs : ofile[p][fd] = e})
        BY DescriptorsFit, FS_Subset, FS_CardinalityType, <1>0, <1>13, Zenon DEF ForkTo, FileType
    <2>4. hand' = hand
        BY <1>13, Zenon DEF ForkTo
    <2> DEFINE N(e) == Cardinality({fd \in FDs : ofile[p][fd] = e})
    <2>5. \A e \in Files : /\ Cardinality(Held(ofile', e)) = Cardinality(Held(ofile, e)) + N(e)
                           /\ ftable'[e].ref = ftable[e].ref + N(e) /\ N(e) \in Nat
        BY <2>2, <2>3, Zenon
    <2> HIDE DEF N
    <2> QED BY <1>0, <1>n, <2>4, <2>5 DEF Sum
<1> QED BY <1>1, <1>2, <1>3, <1>4, <1>5, <1>6, <1>7, <1>8, <1>10, <1>11, <1>12, <1>13
        DEF FileStep

\* What the steps on files leave alone: a file keeps its pipe and its mode while a
\* descriptor refers to it, and stays as it is while a system call is creating it.
LEMMA FileStepKeeps ==
    ASSUME TypeOK, RefInv, NEW p \in P, FileStep(p)
    PROVE  /\ \A q \in P, j \in FDs : ofile[q][j] # NoFile =>
                /\ ftable'[ofile[q][j]].pipe = ftable[ofile[q][j]].pipe
                /\ ftable'[ofile[q][j]].writable = ftable[ofile[q][j]].writable
           /\ \A q \in P \ {p} : pc[q] \in Creating => /\ ftable'[hand[q][0]] = ftable[hand[q][0]]
           /\ \A q \in P \ {p} : pc[q] = "pipe_page" => /\ ftable'[hand[q][1]] = ftable[hand[q][1]]
<1> DEFINE Kept(f) == ftable'[f].pipe = ftable[f].pipe /\ ftable'[f].writable = ftable[f].writable
           Goal == /\ \A q \in P, j \in FDs : ofile[q][j] # NoFile => Kept(ofile[q][j])
                   /\ \A q \in P \ {p} : pc[q] \in Creating => ftable'[hand[q][0]] = ftable[hand[q][0]]
                   /\ \A q \in P \ {p} : pc[q] = "pipe_page" => ftable'[hand[q][1]] = ftable[hand[q][1]]
<1>0. /\ \A q \in P, j \in FDs : /\ ofile[q][j] # NoFile => ofile[q][j] \in Files
                                 /\ hand[q][j] # NoFile => hand[q][j] \in Files
      /\ ftable \in [Files -> FileType]
    BY DEF TypeOK, FileRefs
<1>1. \A q \in P : /\ pc[q] \in Creating => Created(hand[q][0])
                   /\ pc[q] = "pipe_page" => Created(hand[q][1])
    BY Zenon DEF RefInv, HandInv, Creating
<1>2. CASE UNCHANGED ftable
    BY <1>2, Zenon
<1>3. ASSUME NEW f \in Files, FileStep(p), \A e \in Files \ {f} : ftable'[e] = ftable[e],
             \A q \in P, j \in FDs : ofile[q][j] # f,
             \A q \in P \ {p}, j \in FDs : hand[q][j] # f
      PROVE  Goal
    BY <1>0, <1>1, <1>3, DescriptorsFit, Zenon DEF Created
<1>4. ASSUME NEW f \in Files, Kept(f), \A e \in Files \ {f} : ftable'[e] = ftable[e],
             ftable[f].ref # 1 \/ \A q \in P, j \in FDs : hand[q][j] # f
      PROVE  Goal
    BY <1>0, <1>1, <1>4, DescriptorsFit DEF Created
<1>r. RefsCounted
    BY Zenon DEF RefInv
<1>5. ASSUME NEW f \in Files, NEW k, FileAlloc(p, k, f), ftable[f].ref = 0
      PROVE  Goal
    <2>1. Kept(f) /\ \A e \in Files \ {f} : ftable'[e] = ftable[e]
        BY <1>0, <1>5, Zenon DEF FileAlloc, FileType
    <2>2. ftable[f].ref # 1
        BY <1>5
    <2> HIDE DEF Kept, Goal
    <2> QED BY <1>4, <2>1, <2>2, Zenon
<1>6. ASSUME NEW g \in Pages, pc[p] = "pipe_page", PipeAlloc(p, g) PROVE Goal
    <2>1. \A e \in Files : e # hand[p][0] /\ e # hand[p][1] => ftable'[e] = ftable[e]
        BY <1>0, <1>6, Zenon DEF PipeAlloc
    <2>2. \A q \in P, j \in FDs : /\ ofile[q][j] # hand[p][0] /\ ofile[q][j] # hand[p][1]
                                  /\ q # p => hand[q][j] # hand[p][0] /\ hand[q][j] # hand[p][1]
        BY <1>6, CreatedAlone, Zenon DEF Creating
    <2> QED BY <1>0, <1>1, <2>1, <2>2, DescriptorsFit, Zenon DEF Created
<1>7. ASSUME NEW f \in Files, NEW k \in FDs, DropFile(p, f, k) PROVE Goal
    BY <1>0, <1>7, <1>4 DEF DropFile, FileType
<1>8. ASSUME NEW f \in Files, NEW k \in FDs, LastFile(p, f, k) \/ LastEnd(p, f, k) PROVE Goal
    <2>1. \A e \in Files \ {f} : ftable'[e] = ftable[e]
        BY <1>0, <1>8, Zenon DEF LastFile, LastEnd
    <2>2. hand[p][k] = f /\ ftable[f].ref = 1
        BY <1>8, Zenon DEF LastFile, LastEnd, PutFile
    <2>3. \A q \in P, j \in FDs : ofile[q][j] # f /\ (hand[q][j] = f => q = p)
        BY <1>r, <2>2, RefsHeld
    <2> HIDE DEF Kept, Goal
    <2> QED BY <1>3, <2>1, <2>3, Zenon
<1>9. ASSUME NEW f \in Files, NEW k \in FDs, NEW fd \in FDs, DupFile(p, f, k, fd) PROVE Goal
    <2>1. Kept(f) /\ \A e \in Files \ {f} : ftable'[e] = ftable[e]
        BY <1>0, <1>9, Zenon DEF DupFile, FileDup, FileType
    <2>2. ftable[f].ref # 1 \/ \A q \in P, j \in FDs : hand[q][j] # f
        <3>1. ofile[p][k] = f
            BY <1>9, Zenon DEF DupFile
        <3> QED BY <1>r, <3>1, RefsHeld
    <2> HIDE DEF Kept, Goal
    <2> QED BY <1>4, <2>1, <2>2, Zenon
<1>10. ASSUME NEW q \in P, ForkTo(p, q) PROVE Goal
    <2>1. \A f \in Files : Kept(f)
        BY <1>0, <1>10, Zenon DEF ForkTo, FileType
    <2>2. ASSUME NEW f \in Files, \A fd \in FDs : ofile[p][fd] # f PROVE ftable'[f] = ftable[f]
        <3>1. {fd \in FDs : ofile[p][fd] = f} = {}
            BY <2>2, Zenon
        <3>2. Cardinality({fd \in FDs : ofile[p][fd] = f}) = 0
            BY <3>1, FS_EmptySet, Zenon
        <3>3. ftable'[f] = [ftable[f] EXCEPT !.ref = ftable[f].ref + 0]
            BY <1>10, <3>2, Zenon DEF ForkTo
        <3> QED BY <1>0, <3>3 DEF FileType
    <2>3. \A r \in P : /\ pc[r] \in Creating => ftable'[hand[r][0]] = ftable[hand[r][0]]
                       /\ pc[r] = "pipe_page" => ftable'[hand[r][1]] = ftable[hand[r][1]]
        BY <1>1, <2>2, CreatedAlone DEF Created
    <2> QED BY <1>0, <2>1, <2>3, Zenon
<1>11. Goal
    BY <1>2, <1>5, <1>6, <1>7, <1>8, <1>9, <1>10, Zenon
       DEF FileStep, GiveUp, Closed, Exit, Alloc0, Alloc1, DropPipe, OpenPipe, CloseFd
<1> QED BY <1>11, Zenon

\* The steps on files keep what HandInv says of the files in hand.
LEMMA HandsFileStep ==
    ASSUME TypeOK, RefInv, NEW p \in P, FileStep(p)
    PROVE  \A q \in P : HandInv(q)'
<1>0. \A q \in P : HandInv(q)
    BY DEF RefInv
<1>t. TypeOK'
    BY TypesFileStep, Zenon
<1>1. ASSUME NEW q \in P \ {p} PROVE HandInv(q)'
    <2>1. CASE Same(q)
        <3>a. /\ pc[q] \in Creating => Created(hand[q][0])
              /\ pc[q] = "pipe_page" => Created(hand[q][1])
            BY <1>0, Zenon DEF HandInv, Creating
        <3>b. /\ pc[q] \in Creating => ftable'[hand[q][0]] = ftable[hand[q][0]]
              /\ pc[q] = "pipe_page" => ftable'[hand[q][1]] = ftable[hand[q][1]]
            BY FileStepKeeps, Zenon
        <3>c. hand'[q] = hand[q]
            BY <2>1, Zenon DEF Same
        <3>1. pc[q] \in Creating => Created(hand[q][0]) /\ Created(hand[q][0])'
            BY <3>a, <3>b, <3>c, Zenon DEF Created
        <3>2. pc[q] = "pipe_page" => Created(hand[q][1]) /\ Created(hand[q][1])'
            BY <3>a, <3>b, <3>c, Zenon DEF Created
        <3> QED BY <1>0, <2>1, <3>1, <3>2 DEF HandInv, Same, Creating
    <2>2. CASE Born(q, p)
        BY <1>0, <2>2, Zenon DEF HandInv, Born, Creating, Closing
    <2> QED BY <2>1, <2>2, FileStepOthers, Zenon
<1>2. HandInv(p)'
    <2> USE DEF TypeOK
    <2>1. CASE GiveUp(p)
        BY <1>0, <2>1, Zenon DEF GiveUp, Goto, HandInv, Creating, Closing
    <2>2. CASE Closed(p)
        <3>1. hand[p] = NoFiles
            BY <2>2, Zenon DEF Closed, InHand, NoFiles, FileRefs
        <3> QED BY <1>0, <2>2, <3>1, Zenon DEF Closed, Return, Goto, HandInv, Creating, Closing
    <2>3. CASE Exit(p)
        BY <1>0, <2>3, Zenon DEF Exit, Goto, HandInv, Creating, Closing
    <2>4. ASSUME NEW f \in Files, Alloc0(p, f) PROVE HandInv(p)'
        <3>1. Created(f)'
            BY <2>4 DEF Alloc0, FileAlloc, Created, FileType, RefInv, FilesInv
        <3>2. hand'[p][0] = f /\ \A fd \in FDs \ {0} : hand'[p][fd] = NoFile
            <4>1. hand[p] = NoFiles
                BY <1>0, <2>4, Zenon DEF Alloc0, Call, HandInv, Creating, Closing
            <4>2. hand' = [hand EXCEPT ![p][0] = f]
                BY <2>4, Zenon DEF Alloc0, FileAlloc
            <4> QED BY <4>1, <4>2, DescriptorsFit, Zenon DEF NoFiles, FileRefs
        <3>3. pc'[p] = "pipe_file1" /\ exiting'[p] = FALSE
            BY <1>0, <2>4, Zenon DEF Alloc0, Call, FileAlloc, Goto, HandInv, Closing
        <3> QED BY <3>1, <3>2, <3>3, Zenon DEF HandInv, Creating, Closing
    <2>5. ASSUME NEW f \in Files, Alloc1(p, f) PROVE HandInv(p)'
        <3>1. Created(f)'
            BY <2>5 DEF Alloc1, FileAlloc, Created, FileType, RefInv, FilesInv
        <3>2. Created(hand[p][0]) /\ hand[p][0] # f
            BY <1>0, <2>5 DEF HandInv, Alloc1, Created
        <3>3. Created(hand[p][0])'
            BY <2>5, <3>2, DescriptorsFit DEF Alloc1, FileAlloc, Created, FileType, FileRefs
        <3>4. /\ hand'[p][0] = hand[p][0] /\ hand'[p][1] = f
              /\ \A fd \in FDs \ {0, 1} : hand'[p][fd] = NoFile
            BY <1>0, <2>5, DescriptorsFit DEF Alloc1, FileAlloc, HandInv, FileRefs
        <3>5. pc'[p] = "pipe_page" /\ exiting'[p] = FALSE
            BY <1>0, <2>5, Zenon DEF Alloc1, FileAlloc, Goto, HandInv, Closing
        <3> QED BY <3>1, <3>2, <3>3, <3>4, <3>5, Zenon DEF HandInv, Creating, Closing
    <2>6. ASSUME NEW g \in Pages, DropPipe(p, g) PROVE HandInv(p)'
        BY <1>0, <2>6, Zenon DEF DropPipe, Goto, HandInv, Creating, Closing
    <2>7. ASSUME NEW g \in Pages, NEW fd0 \in FDs, NEW fd1 \in FDs, OpenPipe(p, g, fd0, fd1) PROVE HandInv(p)'
        BY <1>0, <2>7, Zenon DEF OpenPipe, PipeFds, Return, Goto, HandInv, Creating, Closing
    <2>8. ASSUME NEW f \in Files, NEW k \in FDs, CloseFd(p, f, k) PROVE HandInv(p)'
        BY <1>0, <2>8, Zenon DEF CloseFd, Call, Goto, HandInv, Creating, Closing
    <2>9. ASSUME NEW f \in Files, NEW k \in FDs, DropFile(p, f, k) \/ LastFile(p, f, k) \/ LastEnd(p, f, k)
          PROVE  HandInv(p)'
        BY <1>0, <2>9 DEF DropFile, LastFile, LastEnd, PutFile, Goto, HandInv, Creating, Closing
    <2>10. ASSUME NEW f \in Files, NEW k \in FDs, NEW fd \in FDs, DupFile(p, f, k, fd) PROVE HandInv(p)'
        BY <1>0, <2>10, Zenon DEF DupFile, FileDup, Call, HandInv, Creating, Closing
    <2>11. ASSUME NEW q \in P, ForkTo(p, q) PROVE HandInv(p)'
        BY <1>0, <2>11, Zenon DEF ForkTo, Call, Goto, HandInv, Creating, Closing
    <2> QED BY <2>1, <2>2, <2>3, <2>4, <2>5, <2>6, <2>7, <2>8, <2>9, <2>10, <2>11 DEF FileStep
<1> QED BY <1>1, <1>2, Zenon

\* The steps on files keep free files blank and the descriptors on pipes.
LEMMA FilesFileStep ==
    ASSUME TypeOK, RefInv, NEW p \in P, FileStep(p)
    PROVE  FilesInv'
<1>0. /\ \A f \in Files : ftable[f].ref = 0 => ftable[f].pipe = NoPage
      /\ \A q \in P, fd \in FDs : ofile[q][fd] # NoFile => ftable[ofile[q][fd]].pipe # NoPage
    BY Zenon DEF RefInv, FilesInv
<1>k. \A q \in P, j \in FDs : ofile[q][j] # NoFile => ftable'[ofile[q][j]].pipe # NoPage
    BY <1>0, FileStepKeeps
<1>o. \A q \in P \ {p} : ofile'[q] = ofile[q] \/ ofile'[q] = ofile[p]
    BY FileStepOthers, Zenon DEF Same, Born
<1> USE DEF TypeOK
<1>1. \A f \in Files : ftable'[f].ref = 0 => ftable'[f].pipe = NoPage
    <2>1. CASE UNCHANGED ftable
        BY <1>0, <2>1, Zenon
    <2>2. ASSUME NEW f \in Files, Alloc0(p, f) \/ Alloc1(p, f)
          PROVE  \A e \in Files : ftable'[e].ref = 0 => ftable'[e].pipe = NoPage
        BY <1>0, <2>2 DEF Alloc0, Alloc1, FileAlloc, FileType
    <2>3. ASSUME NEW g \in Pages, PipeAlloc(p, g), pc[p] = "pipe_page"
          PROVE  \A e \in Files : ftable'[e].ref = 0 => ftable'[e].pipe = NoPage
        <3>1. Created(hand[p][0]) /\ Created(hand[p][1])
            BY <2>3, Zenon DEF RefInv, HandInv
        <3> QED BY <1>0, <2>3, <3>1 DEF PipeAlloc, FileType, Created
    <2>4. ASSUME NEW f \in Files, NEW k \in FDs, DropFile(p, f, k)
          PROVE  \A e \in Files : ftable'[e].ref = 0 => ftable'[e].pipe = NoPage
        BY <1>0, <2>4 DEF DropFile, FileType
    <2>5. ASSUME NEW f \in Files, NEW k \in FDs, LastFile(p, f, k) \/ LastEnd(p, f, k)
          PROVE  \A e \in Files : ftable'[e].ref = 0 => ftable'[e].pipe = NoPage
        BY <1>0, <2>5 DEF LastFile, LastEnd, FreeFile
    <2>6. ASSUME NEW f \in Files, NEW k \in FDs, NEW fd \in FDs, DupFile(p, f, k, fd)
          PROVE  \A e \in Files : ftable'[e].ref = 0 => ftable'[e].pipe = NoPage
        BY <1>0, <2>6 DEF DupFile, FileDup, FileType
    <2>7. ASSUME NEW q \in P, ForkTo(p, q)
          PROVE  \A e \in Files : ftable'[e].ref = 0 => ftable'[e].pipe = NoPage
        <3> DEFINE N(e) == Cardinality({fd \in FDs : ofile[p][fd] = e})
        <3>1. \A e \in Files : N(e) \in Nat
            BY DescriptorsFit, FS_Subset, FS_CardinalityType, Zenon
        <3>2. \A e \in Files : /\ ftable'[e].ref = ftable[e].ref + N(e)
                               /\ ftable'[e].pipe = ftable[e].pipe /\ ftable[e].ref \in Nat
            BY <2>7, Zenon DEF ForkTo, FileType
        <3> HIDE DEF N
        <3>3. ASSUME NEW e \in Files, ftable'[e].ref = 0 PROVE ftable[e].ref = 0
            <4>1. N(e) \in Nat
                BY <3>1, Zenon
            <4>2. ftable'[e].ref = ftable[e].ref + N(e) /\ ftable[e].ref \in Nat
                BY <3>2, Zenon
            <4> QED BY <3>3, <4>1, <4>2, SumZero, Zenon
        <3>4. \A e \in Files : ftable[e].ref = 0 => ftable[e].pipe = NoPage
            BY <1>0, Zenon
        <3> QED BY <3>2, <3>3, <3>4, Zenon
    <2> QED BY <2>1, <2>2, <2>3, <2>4, <2>5, <2>6, <2>7, Zenon
        DEF FileStep, GiveUp, Closed, Exit, DropPipe, OpenPipe, CloseFd
<1>2. \A q \in P, j \in FDs : ofile'[q][j] # NoFile => ftable'[ofile'[q][j]].pipe # NoPage
    <2>1. ASSUME NEW q \in P \ {p}, NEW j \in FDs, ofile'[q][j] # NoFile
          PROVE  ftable'[ofile'[q][j]].pipe # NoPage
        BY <1>k, <1>o, <2>1, Zenon
    <2>2. ASSUME NEW j \in FDs, ofile'[p][j] # NoFile PROVE ftable'[ofile'[p][j]].pipe # NoPage
        <3>1. CASE ofile'[p] = ofile[p]
            BY <1>k, <2>2, <3>1, Zenon
        <3>2. CASE Exit(p)
            BY <2>2, <3>2, Zenon DEF Exit, NoFiles
        <3>3. ASSUME NEW g \in Pages, NEW fd0 \in FDs, NEW fd1 \in FDs, OpenPipe(p, g, fd0, fd1)
              PROVE  ftable'[ofile'[p][j]].pipe # NoPage
            <4>1. ofile'[p][j] = ofile[p][j] \/ ofile'[p][j] = hand[p][0] \/ ofile'[p][j] = hand[p][1]
                BY <3>3, Zenon DEF OpenPipe, PipeFds, FileRefs
            <4>2. Created(hand[p][0]) /\ Created(hand[p][1])
                BY <3>3, Zenon DEF RefInv, HandInv, OpenPipe
            <4>3. ftable'[hand[p][0]].pipe = g /\ ftable'[hand[p][1]].pipe = g
                BY <3>3, <4>2, Zenon DEF OpenPipe, PipeAlloc, Created
            <4> QED BY <1>k, <2>2, <4>1, <4>3, PipeAssumption, Zenon
        <3>4. ASSUME NEW f \in Files, NEW k \in FDs, CloseFd(p, f, k)
              PROVE  ftable'[ofile'[p][j]].pipe # NoPage
            BY <1>k, <2>2, <3>4, Zenon DEF CloseFd, FileRefs
        <3>5. ASSUME NEW f \in Files, NEW k \in FDs, NEW fd \in FDs, DupFile(p, f, k, fd)
              PROVE  ftable'[ofile'[p][j]].pipe # NoPage
            BY <3>5, PipeAssumption, <1>k, <2>2 DEF DupFile, FileDup, FileRefs, Files
        <3>6. ASSUME NEW q \in P, ForkTo(p, q) PROVE ofile'[p] = ofile[p]
            BY <3>6, Zenon DEF ForkTo, Call
        <3> QED BY <3>1, <3>2, <3>3, <3>4, <3>5, <3>6, Zenon
            DEF FileStep, GiveUp, Closed, Alloc0, Alloc1, FileAlloc, DropPipe, DropFile, LastFile, LastEnd, PutFile
    <2> QED BY <2>1, <2>2, Zenon
<1> HIDE DEF TypeOK
<1> QED BY <1>1, <1>2, Zenon DEF FilesInv

\* The steps on pipes keep RefInv.
LEMMA RefsPipeStep ==
    ASSUME TypeOK, RefInv, NEW p \in P, PipeStep(p)
    PROVE  RefInv'
<1>0. UNCHANGED <<ftable, ofile, exiting, hand>>
    BY PipeStepMoves, Zenon DEF files
<1>1. RefsCounted' /\ FilesInv'
    BY <1>0, Zenon DEF RefInv, RefsCounted, FilesInv
<1>2. ASSUME NEW q \in P PROVE HandInv(q)'
    BY <1>0, PipeStepMoves, Zenon
       DEF RefInv, HandInv, Created, Creating, Closing, Within, InRead, InWrite
<1> QED BY <1>1, <1>2, Zenon DEF RefInv

\* Nothing refers to a file at the start.
LEMMA RefsInit ==
    ASSUME Init
    PROVE  RefInv
<1>1. ASSUME NEW f \in Files PROVE Held(ofile, f) = {} /\ Held(hand, f) = {}
    BY PipeAssumption, Zenon DEF Init, Held, NoFiles, Files
<1>2. RefsCounted
    <2>1. Cardinality({}) = 0
        BY FS_EmptySet, Zenon
    <2>2. \A f \in Files : Cardinality(Held(ofile, f)) = 0 /\ Cardinality(Held(hand, f)) = 0
        BY <1>1, <2>1, Zenon
    <2>3. \A f \in Files : ftable[f].ref = 0
        BY Zenon DEF Init, FreeFile
    <2> QED BY <2>2, <2>3 DEF RefsCounted
<1>3. FilesInv
    BY Zenon DEF FilesInv, Init, FreeFile, NoFiles
<1>4. ASSUME NEW p \in P PROVE HandInv(p)
    BY Zenon DEF HandInv, Init, Creating, Closing
<1> QED BY <1>2, <1>3, <1>4, Zenon DEF RefInv

\* RefInv is inductive, with the types.
LEMMA RefsNext ==
    ASSUME TypeOK, RefInv, [Next]_vars
    PROVE  TypeOK' /\ RefInv'
<1>1. CASE UNCHANGED vars
    BY <1>1, Zenon DEF vars, data, TypeOK, RefInv, RefsCounted, FilesInv, HandInv, Created
<1>2. ASSUME NEW p \in P, FileStep(p) PROVE TypeOK' /\ RefInv'
    BY <1>2, TypesFileStep, RefsFileStep, HandsFileStep, FilesFileStep, Zenon DEF RefInv
<1>3. ASSUME NEW p \in P, PipeStep(p) PROVE TypeOK' /\ RefInv'
    BY <1>3, TypesPipeStep, RefsPipeStep, Zenon
<1> QED BY <1>1, <1>2, <1>3, Steps, Zenon

-----------------------------------------------------------------------------
(* The ends of a pipe.                                                     *)

\* The system call of a process inside a pipe keeps its pipe, and the file behind it.
LEMMA CallsFileStep ==
    ASSUME TypeOK, RefInv, EndInv, NEW p \in P, FileStep(p)
    PROVE  \A q \in P : CallInv(q)'
<1>1. ASSUME NEW q \in P PROVE CallInv(q)'
    <2>0. CallInv(q)
        BY Zenon DEF EndInv
    <2>1. ASSUME NEW w \in BOOLEAN, Same(q), Through(q, w) PROVE Through(q, w)'
        BY <2>1, FileStepKeeps DEF Through, Same, FileHolds
    <2>2. pc'[q] \in InRead \cup InWrite => Same(q)
        BY FileStepInside, Zenon DEF Outside, InRead, InWrite
    <2>3. pc'[q] \in InRead => Through(q, FALSE)'
        BY <2>0, <2>1, <2>2, Zenon DEF CallInv, Same
    <2>4. pc'[q] \in InWrite => Through(q, TRUE)'
        BY <2>0, <2>1, <2>2, Zenon DEF CallInv, Same
    <2>5. pc'[q] = "pipeclose" => call'[q].pi # NoPage
        <3>1. CASE q = p
            <4>1. ASSUME NEW f \in Files, NEW k \in FDs, LastEnd(p, f, k) PROVE call'[p].pi # NoPage
                BY <4>1, Zenon DEF LastEnd, SetCall, Locals, TypeOK
            <4> QED BY <3>1, <4>1, FileStepOwn, Zenon
        <3>2. CASE q # p
            BY <2>0, <3>2, FileStepOthers, Zenon DEF CallInv, Same, Born
        <3> QED BY <3>1, <3>2, Zenon
    <2> QED BY <2>3, <2>4, <2>5, Zenon DEF CallInv
<1> QED BY <1>1, Zenon

\* EndInv is inductive.
LEMMA EndsStep ==
    ASSUME TypeOK, RefInv, EndInv, NEW p \in P, FileStep(p) \/ PipeStep(p)
    PROVE  EndInv'
  BY EndsFileStep, CallsFileStep, EndsPipeClose, CallsPipeStep, PipeStepMoves, PipeStepKeeps,
         EndsFrame, Zenon DEF EndInv, PipeStep, FileHolds, files, ProcHolds

-----------------------------------------------------------------------------
(* The theorems.                                                           *)

\* The inductive invariant holds at the start.
LEMMA PipeInit == Init => PipeInv
<1> SUFFICES ASSUME Init PROVE PipeInv
    BY Zenon
<1>1. TypeOK /\ RefInv
    BY TypesInit, RefsInit, Zenon
<1>2. \A p \in P : pc[p] \in {"user", "unused"} /\ call[p] = NoCall
    BY Zenon DEF Init
<1>3. \A g \in Pages : pipe[g] = FreePipe /\ lock[g] = Nobody
    BY Zenon DEF Init
<1>4. \A f \in Files : ftable[f].pipe = NoPage
    BY Zenon DEF Init, FreeFile
<1>5. /\ \A f \in Files, g \in Pages, w \in BOOLEAN : ~FileHolds(f, g, w)
      /\ \A p \in P, g \in Pages, w \in BOOLEAN : ~ProcHolds(p, g, w)
    BY <1>2, <1>4, PipeAssumption, Zenon DEF FileHolds, ProcHolds
<1>6. OneHolder /\ EndsAgree
    <2>1. OneHolder
        BY <1>5, Zenon DEF OneHolder
    <2>2. \A g \in Pages, w \in BOOLEAN : ~EndHeld(g, w)
        BY <1>5, Zenon DEF EndHeld
    <2>3. \A g \in Pages : ~pipe[g].readopen /\ ~pipe[g].writeopen /\ ~pipe[g].alloc
        BY <1>3 DEF FreePipe
    <2> QED BY <2>1, <2>2, <2>3, Zenon DEF EndsAgree
<1>7. EndInv
    BY <1>2, <1>6, Zenon DEF EndInv, CallInv, InRead, InWrite
<1>8. WaitInv
    BY <1>2, <1>3, PipeAssumption, Zenon DEF WaitInv, LockInv, Locked, SleepInv, ReaderInv, WriterInv
<1>9. CountInv
    BY <1>3, PipeAssumption DEF CountInv, FreePipe
<1> QED BY <1>1, <1>7, <1>8, <1>9, Zenon DEF PipeInv

\* PipeInv is inductive.
LEMMA PipeNext == PipeInv /\ [Next]_vars => PipeInv'
<1> SUFFICES ASSUME PipeInv, [Next]_vars PROVE PipeInv'
    OBVIOUS
<1>0. TypeOK /\ RefInv /\ EndInv /\ WaitInv /\ CountInv
    BY DEF PipeInv
<1>1. TypeOK' /\ RefInv'
    BY <1>0, RefsNext, Zenon
<1>2. CASE UNCHANGED vars
    <2>1. UNCHANGED <<ftable, pipe, lock, unwoken, pc, killed, ofile, exiting, hand, call>>
        BY <1>2, Zenon DEF vars, data
    <2>2. EndInv'
        <3>1. OneHolder'
            BY <1>0, <2>1 DEF EndInv, OneHolder, FileHolds, ProcHolds
        <3>2. EndsAgree'
            BY <1>0, <2>1 DEF EndInv, EndsAgree, EndHeld, FileHolds, ProcHolds
        <3>3. ASSUME NEW p \in P PROVE CallInv(p)'
            <4>1. CallInv(p)
                BY <1>0, Zenon DEF EndInv
            <4>2. \A w \in BOOLEAN : Through(p, w) => Through(p, w)'
                BY <2>1, Zenon DEF Through, FileHolds
            <4> QED BY <2>1, <4>1, <4>2, Zenon DEF CallInv
        <3> QED BY <3>1, <3>2, <3>3, Zenon DEF EndInv
    <2>3. WaitInv'
        BY <1>0, <2>1, Zenon DEF WaitInv, LockInv, SleepInv, ReaderInv, WriterInv, Empty, Full
    <2>4. CountInv'
        BY <1>0, <2>1, Zenon DEF CountInv
    <2> QED BY <1>1, <2>2, <2>3, <2>4, Zenon DEF PipeInv
<1>3. ASSUME NEW p \in P, FileStep(p) \/ PipeStep(p) PROVE PipeInv'
    BY <1>0, <1>1, <1>3, EndsStep, WaitFileStep, WaitPipeStep, CountStep, Zenon DEF PipeInv
<1> QED BY <1>0, <1>2, <1>3, Steps, Zenon

\* The inductive invariant of pipes, files and descriptors holds in every reachable state.
THEOREM PipeInvariant == Spec => []PipeInv
  BY PipeInit, PipeNext, PTL DEF Spec

\* References and ends are counted right, for any number of processes, files and pages:
\* fileclose() closes a file with its last reference, pipeclose() frees the page with the
\* second end, and piperead() and pipewrite() never run on a closed end or a freed page.
THEOREM EndsStayCounted == Spec => []EndsCounted
<1>1. PipeInv => EndsCounted
    <2> SUFFICES ASSUME PipeInv PROVE EndsCounted
        OBVIOUS
    <2>1. TypeOK /\ RefInv /\ EndInv
        BY DEF PipeInv
    <2>2. PipeHeld
        BY <2>1, InsideHeld, Zenon DEF PipeHeld
    <2> QED BY <2>1, <2>2, Zenon DEF EndsCounted, RefInv, EndInv
<1> QED BY <1>1, PipeInvariant, PTL

\* For any number of readers and writers and any size of the buffer, sleep() and wakeup()
\* in pipewrite(), piperead() and pipeclose() lose no wakeup, but for the one of a killed
\* writer.
THEOREM NoneSleepsThrough == Spec => []NoLostWakeup
<1>1. PipeInv => NoLostWakeup
    BY Zenon DEF PipeInv, WaitInv, ReaderInv, ReaderWoken, WriterInv, WriterWoken, NoLostWakeup
<1> QED BY <1>1, PipeInvariant, PTL

-----------------------------------------------------------------------------
(* Pipe implements Fifo.                                                   *)

\* The queues are empty at the start.
LEMMA FifoInit == Init => Queue!Init
  BY TypesInit, ContentsAre, NoBytes DEF Init, FreePipe, Queue!Init, queues

\* Every step puts a byte, takes one, empties a queue or leaves all queues alone.
LEMMA FifoNext ==
    ASSUME PipeInv, PipeInv', [Next]_vars
    PROVE  [Queue!Next]_queues
<1>0. TypeOK /\ RefInv /\ EndInv /\ CountInv /\ TypeOK'
    BY DEF PipeInv
<1>1. ASSUME \A g \in Pages : Contents(g)' = Contents(g) PROVE queues' = queues
    BY <1>1, Zenon DEF queues
<1>2. ASSUME NEW g \in Pages, Idle(g) PROVE Contents(g)' = Contents(g)
    BY <1>2, Zenon DEF Idle, Contents
<1>3. ASSUME NEW g \in Pages, pipe'[g] = pipe[g] PROVE Contents(g)' = Contents(g)
    BY <1>3, Zenon DEF Contents
<1>4. CASE UNCHANGED vars
    BY <1>4, <1>1, <1>3, Zenon DEF vars, data
<1>5. CASE Next
    <2>1. PICK p \in P : FileStep(p) \/ PipeStep(p)
        BY <1>0, <1>5, Steps, Zenon
    <2>2. CASE \A g \in Pages : Idle(g)
        BY <1>1, <1>2, <2>2, Zenon
    <2>3. ASSUME NEW g \in Pages, \A h \in Pages \ {g} : pipe'[h] = pipe[h],
                 Frees(g) \/ Gets(g) \/ \E ch \in Byte : Puts(g, ch)
          PROVE  Queue!Put(g) \/ Queue!Get(g) \/ Queue!Free(g)
        <3>0. \A h \in Pages \ {g} : Contents(h)' = Contents(h)
            BY <1>3, <2>3, Zenon
        <3>1. ASSUME NEW s, Contents(g)' = s PROVE queues' = [queues EXCEPT ![g] = s]
            BY <3>0, <3>1, Zenon DEF queues
        <3>2. CASE Frees(g)
            <4>1. Contents(g)' = <<>>
                <5>1. pipe'[g].nread = pipe'[g].nwrite
                    BY <3>2, Zenon DEF Frees
                <5>2. pipe'[g].data \in Store /\ pipe'[g].nread \in 0..(W - 1)
                    BY <1>0, Zenon DEF TypeOK, PipeType, Store
                <5>3. Contents(g)' = Bytes(pipe'[g].data, pipe'[g].nread, (pipe'[g].nread - pipe'[g].nread) % W)
                    BY <5>1, Zenon DEF Contents, Bytes
                <5> QED BY <5>2, <5>3, NoBytes, Zenon
            <4> QED BY <3>1, <4>1, Zenon DEF Queue!Free
        <3>3. CASE Gets(g)
            <4>1. Contents(g) # <<>> /\ Contents(g)' = Tail(Contents(g))
                BY <1>0, <3>3, ContentsGet, Zenon
            <4>2. queues' = [queues EXCEPT ![g] = Tail(Contents(g))] /\ queues[g] = Contents(g)
                BY <3>1, <4>1, Zenon DEF queues
            <4> QED BY <4>1, <4>2, Zenon DEF Queue!Get
        <3>4. ASSUME NEW ch \in Byte, Puts(g, ch) PROVE Queue!Put(g)
            <4>1. Len(Contents(g)) < PIPESIZE /\ Contents(g)' = Append(Contents(g), ch)
                BY <1>0, <3>4, ContentsPut, Zenon
            <4>2. queues' = [queues EXCEPT ![g] = Append(Contents(g), ch)] /\ queues[g] = Contents(g)
                BY <3>1, <4>1, Zenon DEF queues
            <4> QED BY <4>1, <4>2, Zenon DEF Queue!Put
        <3> QED BY <2>3, <3>2, <3>3, <3>4, Zenon
    <2> QED BY <1>0, <2>1, <2>2, <2>3, Effect, Zenon DEF Queue!Next
<1> QED BY <1>4, <1>5, Zenon

\* The refinement: through the ring buffer, the counters that wrap around and the copy loops
\* of pipewrite() and piperead(), every pipe is a first-in first-out queue of at most
\* PIPESIZE bytes, for any size, any modulus and any number of processes.
THEOREM PipesAreQueues == Spec => IsFifo
<1>1. PipeInv /\ PipeInv' /\ [Next]_vars => [Queue!Next]_queues
    BY FifoNext
<1> QED BY <1>1, FifoInit, PipeInvariant, PTL DEF Spec, IsFifo, Queue!Spec

=============================================================================
