-------------------------- MODULE MigrationProofs --------------------------
(***************************************************************************)
(* The layout migration loses nothing, for any set of files, any order of  *)
(* them and any number of failing calls and kills, as long as no rollback  *)
(* is itself interrupted (RollbackFaults is FALSE; a kill half-way through *)
(* --rollback does part a database from its log).                          *)
(*                                                                         *)
(* The invariant says what the disk is worth to the next boot, which sees  *)
(* nothing but the version and the marker.  Version 1 and no marker: the   *)
(* user's pieces are all in the old tree and the new one holds none.       *)
(* Version 1 and a marker: every file of the plan is in one tree only.     *)
(* Version 2: all is in the new tree, with or without a marker.  DiskInv   *)
(* holds these wherever a process may be killed; StepInv is what each step *)
(* of a running process knows beyond it.                                   *)
(***************************************************************************)
EXTENDS Migration, WellFoundedInduction, TLAPS

-----------------------------------------------------------------------------
(* The invariant *)

Both == DOMAIN legacy \cup DOMAIN dest

\* A log has its database beside it.
Paired(S) == \A s \in Sidecars \cap S : Main[s] \in S

Untouched ==
    /\ user \subseteq Held(legacy)
    /\ \A f \in DOMAIN dest : dest[f] = {}
    /\ Paired(DOMAIN legacy) /\ Paired(DOMAIN dest)
    /\ Session \in DOMAIN legacy \/ DOMAIN legacy = {}

Complete ==
    user \subseteq Held(legacy) \cup Held(dest) /\ Session \in Both /\ Paired(Both)

Moving ==
    /\ Complete
    /\ DOMAIN legacy \cap DOMAIN dest = {}
    /\ Both \subseteq marker

Moved ==
    /\ user \subseteq Held(dest)
    /\ DOMAIN legacy = {}
    /\ Paired(DOMAIN dest)

Undoing == pc \in {"copy", "remove", "rmschema", "rmpointer"}

\* What the disk holds, by the version and the marker.
DiskInv ==
    ~Undoing => /\ schema = 1 /\ marker = NoMarker => Untouched
                /\ schema = 1 /\ marker # NoMarker => Moving
                /\ schema = 2 => Moved

\* What it holds while a rollback copies it back.
UndoInv ==
    /\ Undoing => cmd = "rollback" /\ marker = NoMarker
    /\ pc = "copy" =>
         /\ schema = 2 /\ Complete
         /\ DOMAIN dest \subseteq todo /\ DOMAIN legacy \cap todo = {}
    /\ pc = "remove" =>
         /\ schema = 2 /\ Complete
         /\ todo # {} /\ First(todo) \in DOMAIN legacy \cap DOMAIN dest
         /\ legacy[First(todo)] = dest[First(todo)]
         /\ DOMAIN dest \subseteq todo /\ DOMAIN legacy \cap todo = {First(todo)}
    /\ pc = "rmschema" => schema = 2 /\ Untouched
    /\ pc = "rmpointer" => schema = 1 /\ Untouched

\* What the step at hand knows.
StepInv ==
    /\ pc \in {"stores", "up"} /\ schema = 1 => marker = NoMarker
    /\ pc = "fresh" => marker = NoMarker /\ schema = 1 /\ Session \notin DOMAIN legacy
    /\ pc \in {"checkpoint", "mark"} =>
         /\ schema = 1 /\ marker = NoMarker /\ DOMAIN dest = {}
         /\ DOMAIN legacy \subseteq plan /\ Session \in DOMAIN legacy
    /\ pc \in {"dirs", "rename", "unwind", "finish", "schema", "pointer", "clean", "unmark"} =>
         marker = plan
    /\ pc \in {"dirs", "rename", "unwind"} => schema = 1
    /\ pc = "dirs" => DOMAIN dest = {}
    /\ pc = "rename" => DOMAIN legacy \subseteq todo /\ DOMAIN dest \subseteq plan \ todo
    /\ pc = "unwind" /\ whole => DOMAIN dest \subseteq todo
    /\ pc = "recover" => marker # NoMarker
    /\ pc = "finish" => DOMAIN legacy \subseteq todo
    /\ pc = "schema" => DOMAIN legacy = {}
    /\ pc \in {"pointer", "clean", "unmark"} => schema = 2

Safe == DiskInv /\ UndoInv /\ StepInv

MigrationInv == TypeOK /\ Safe

-----------------------------------------------------------------------------
(* Facts of the operators *)

\* A loop that has files left has a first one.
LEMMA FirstIn ==
    ASSUME NEW S \in SUBSET Files, S # {}
    PROVE  First(S) \in S
<1> DEFINE R == OpToRel(<, Nat)
           I == {i \in DOMAIN Order : Order[i] \in S}
<1>1. DOMAIN Order \subseteq Nat /\ I \subseteq Nat
    BY MigrationAssumption
<1>2. I # {}
  <2>1. PICK f : f \in S
    OBVIOUS
  <2>2. \E i \in DOMAIN Order : Order[i] = f
    BY <2>1 DEF Files, Range
  <2> QED BY <2>1, <2>2
<1>3. \A x, y \in Nat : <<x, y>> \in R <=> x < y
    BY DEF OpToRel
<1>4. IsWellFoundedOn(R, Nat)
    BY NatLessThanWellFounded
<1> HIDE DEF R, I
<1>5. PICK i \in I : \A j \in I : ~(<<j, i>> \in R)
    BY <1>1, <1>2, <1>4, WFMin
<1>6. \A j \in I : i <= j
  <2> TAKE j \in I
  <2>1. i \in Nat /\ j \in Nat
    BY <1>1
  <2>2. ~(j < i)
    BY <2>1, <1>3, <1>5
  <2> QED BY <2>1, <2>2
<1>7. \E k \in DOMAIN Order : Order[k] \in S /\ \A j \in DOMAIN Order : Order[j] \in S => k <= j
    BY <1>5, <1>6 DEF I
<1> QED BY <1>7 DEF First

LEMMA HeldIn ==
    ASSUME NEW t, NEW x
    PROVE  x \in Held(t) <=> \E f \in DOMAIN t : x \in t[f]
BY DEF Held

LEMMA PutTree ==
    ASSUME NEW t, NEW f, NEW c
    PROVE  /\ DOMAIN Put(t, f, c) = DOMAIN t \cup {f} /\ Put(t, f, c)[f] = c
           /\ \A g \in DOMAIN t : g # f => Put(t, f, c)[g] = t[g]
BY DEF Put

LEMMA DropTree ==
    ASSUME NEW t, NEW f
    PROVE  /\ DOMAIN Drop(t, f) = DOMAIN t \ {f}
           /\ \A g \in DOMAIN t : g # f => Drop(t, f)[g] = t[g]
BY DEF Drop

\* A rename from one tree to the other loses nothing.
LEMMA MoveKeeps ==
    ASSUME NEW a, NEW b, NEW f \in DOMAIN a, f \notin DOMAIN b
    PROVE  /\ Held(a) \cup Held(b) \subseteq Held(Drop(a, f)) \cup Held(Put(b, f, a[f]))
           /\ DOMAIN Drop(a, f) \cup DOMAIN Put(b, f, a[f]) = DOMAIN a \cup DOMAIN b
           /\ DOMAIN a \cap DOMAIN b = {} => DOMAIN Drop(a, f) \cap DOMAIN Put(b, f, a[f]) = {}
<1>1. PICK p : p = Put(b, f, a[f])
    OBVIOUS
<1>0. PICK d : d = Drop(a, f)
    OBVIOUS
<1>p. DOMAIN p = DOMAIN b \cup {f} /\ p[f] = a[f] /\ \A g \in DOMAIN b : p[g] = b[g]
  <2>1. \A g \in DOMAIN b : g # f
    OBVIOUS
  <2> QED BY <2>1, <1>1 DEF Put
<1>d. DOMAIN d = DOMAIN a \ {f} /\ \A g \in DOMAIN a : g # f => d[g] = a[g]
    BY <1>0, DropTree
<1>2. /\ DOMAIN p = DOMAIN b \cup {f} /\ p[f] = a[f]
      /\ \A g \in DOMAIN b : p[g] = b[g]
      /\ DOMAIN d = DOMAIN a \ {f} /\ \A g \in DOMAIN a : g # f => d[g] = a[g]
    BY <1>p, <1>d
<1>3. ASSUME NEW x \in Held(a) \cup Held(b) PROVE x \in Held(d) \cup Held(p)
  <2>1. CASE x \in Held(b)
    <3>1. PICK g \in DOMAIN b : x \in b[g]
        BY <2>1, HeldIn
    <3> QED BY <1>2, <3>1, HeldIn
  <2>2. CASE x \in Held(a)
    <3>1. PICK g \in DOMAIN a : x \in a[g]
        BY <2>2, HeldIn
    <3>2. CASE g = f
        BY <1>2, <3>1, <3>2, HeldIn
    <3>3. CASE g # f
        BY <1>2, <3>1, <3>3, HeldIn
    <3> QED BY <3>2, <3>3
  <2> QED BY <1>3, <2>1, <2>2
<1> QED BY <1>0, <1>1, <1>2, <1>3

-----------------------------------------------------------------------------
(* Types *)

LEMMA TreeDomain ==
    ASSUME NEW t \in Tree
    PROVE  /\ DOMAIN t \subseteq Files
           /\ \A f \in DOMAIN t : t[f] \subseteq Files
BY DEF Tree

LEMMA IsTree ==
    ASSUME NEW S \in SUBSET Files, NEW t \in [S -> SUBSET Files]
    PROVE  t \in Tree
BY DEF Tree

LEMMA PutIsTree ==
    ASSUME NEW t \in Tree, NEW f \in Files, NEW c \in SUBSET Files
    PROVE  Put(t, f, c) \in Tree
<1>1. DOMAIN t \cup {f} \in SUBSET Files /\ \A g \in DOMAIN t : t[g] \in SUBSET Files
    BY TreeDomain
<1>2. Put(t, f, c) \in [DOMAIN t \cup {f} -> SUBSET Files]
    BY <1>1 DEF Put
<1> QED BY <1>1, <1>2, IsTree

LEMMA DropIsTree ==
    ASSUME NEW t \in Tree, NEW f
    PROVE  Drop(t, f) \in Tree
<1>1. DOMAIN t \ {f} \in SUBSET Files /\ \A g \in DOMAIN t : t[g] \in SUBSET Files
    BY TreeDomain
<1>2. Drop(t, f) \in [DOMAIN t \ {f} -> SUBSET Files]
    BY <1>1 DEF Drop
<1> QED BY <1>1, <1>2, IsTree

LEMMA FaultTyped ==
    ASSUME errors \in 0..MaxErrors, Fault \/ NoFault
    PROVE  errors' \in 0..MaxErrors
BY MigrationAssumption DEF Fault, NoFault

LEMMA RestIn ==
    ASSUME NEW S \in SUBSET Files, S # {}
    PROVE  First(S) \in Files /\ Rest(S) \subseteq S /\ Rest(S) \subseteq Files
BY FirstIn DEF Rest

\* The parts of TypeOK that the steps rarely touch.
Scalars ==
    /\ dir \in BOOLEAN /\ litter \in BOOLEAN /\ pointer \in BOOLEAN /\ schema \in {1, 2}
    /\ marker \in {NoMarker} \cup SUBSET Files
    /\ pc \in Steps /\ cmd \in {"daemon", "migrate", "rollback"}
    /\ plan \subseteq Files /\ todo \subseteq Files
    /\ whole \in BOOLEAN /\ recovering \in BOOLEAN
    /\ crashes \in 0..MaxCrashes /\ errors \in 0..MaxErrors /\ user \subseteq Files

LEMMA TypeParts == TypeOK <=> legacy \in Tree /\ dest \in Tree /\ Scalars
BY DEF TypeOK, Scalars

\* Recover runs only when there is a marker to read.
Reading == pc = "recover" => marker # NoMarker

LEMMA ScalarsKept == TypeOK /\ Reading /\ [Next]_vars => Scalars'
<1> SUFFICES ASSUME TypeOK, Reading, [Next]_vars PROVE Scalars'
    OBVIOUS
<1>t. Scalars
    BY TypeParts
<1>l. DOMAIN legacy \subseteq Files
    BY TreeDomain DEF TypeOK
<1>1. CASE Launch
    BY <1>t, <1>1 DEF Launch, Scalars, Steps, disk
<1>2. CASE AutoMigrate
    BY <1>t, <1>l, <1>2 DEF AutoMigrate, Scalars, Steps, disk, NoFault, ReturnNil, ReturnErr, CopySteps
<1>3. CASE ProbeFails
    BY <1>t, <1>3, FaultTyped DEF ProbeFails, Scalars, Steps, disk, memory, ReturnErr
<1>4. CASE StampFresh
    BY <1>t, <1>4, FaultTyped DEF StampFresh, Scalars, Steps, memory, ReturnNil, ReturnErr
<1>5. CASE CheckpointSources
    BY <1>t, <1>5 DEF CheckpointSources, Scalars, Steps, memory
<1>6. CASE WriteMarker
    BY <1>t, <1>6, FaultTyped DEF WriteMarker, Scalars, Steps, memory, ReturnErr
<1>7. CASE MakeDirs
    BY <1>t, <1>7, FaultTyped DEF MakeDirs, Scalars, Steps, ReturnErr
<1>8. CASE RenamePlan
  <2>1. todo # {} => Rest(todo) \subseteq Files
    BY <1>t, RestIn DEF Scalars
  <2>2. errors' \in 0..MaxErrors
    BY <1>t, <1>8, FaultTyped DEF RenamePlan, Scalars
  <2>3. /\ pc' \in Steps /\ todo' \subseteq Files /\ whole' \in BOOLEAN
    BY <1>t, <1>8, <2>1 DEF RenamePlan, Scalars, Steps, Abort
  <2> QED BY <1>t, <1>8, <2>2, <2>3 DEF RenamePlan, Scalars
<1>9. CASE RollbackRenames
  <2>1. todo # {} => Rest(todo) \subseteq Files
    BY <1>t, RestIn DEF Scalars
  <2>2. errors' \in 0..MaxErrors
    BY <1>t, <1>9, FaultTyped DEF RollbackRenames, Scalars
  <2>3. todo' \subseteq Files /\ whole' \in BOOLEAN
    BY <1>t, <1>9, <2>1 DEF RollbackRenames, Scalars
  <2> QED BY <1>t, <1>9, <2>2, <2>3 DEF RollbackRenames, Scalars
<1>10. CASE AbortRenames
    BY <1>t, <1>10, FaultTyped DEF AbortRenames, Scalars, Steps, memory, ReturnErr
<1>11. CASE WriteSchema
    BY <1>t, <1>11, FaultTyped DEF WriteSchema, Scalars, Steps, memory, ReturnErr
<1>12. CASE WriteActiveProfile
    BY <1>t, <1>12, FaultTyped DEF WriteActiveProfile, Scalars, Steps, ReturnErr
<1>13. CASE CleanupResidualSources
  <2>1. todo # {} => Rest(todo) \subseteq Files
    BY <1>t, RestIn DEF Scalars
  <2>2. errors' \in 0..MaxErrors
    BY <1>t, <1>13, FaultTyped DEF CleanupResidualSources, Scalars
  <2>3. todo' \subseteq Files /\ pc' \in Steps
    BY <1>t, <1>13, <2>1 DEF CleanupResidualSources, Scalars, Steps
  <2> QED BY <1>t, <1>13, <2>2, <2>3 DEF CleanupResidualSources, Scalars
<1>14. CASE RemoveMarker
    BY <1>t, <1>14, FaultTyped DEF RemoveMarker, Scalars, Steps, memory, ReturnNil, ReturnErr
<1>15. CASE Recover
  <2>1. errors' \in 0..MaxErrors
    BY <1>t, <1>15, FaultTyped DEF Recover, Scalars
  <2>2. marker \in SUBSET Files
    BY <1>t, <1>15 DEF Recover, Reading, Scalars
  <2>3. plan' \subseteq Files /\ todo' \subseteq Files /\ pc' \in Steps
        /\ marker' \in {NoMarker} \cup SUBSET Files
    BY <1>t, <1>15, <2>2 DEF Recover, Scalars, Steps, ReturnNil, ReturnErr
  <2> QED BY <1>t, <1>15, <2>1, <2>3 DEF Recover, Scalars
<1>16. CASE FinishPartialRenames
  <2>1. todo # {} => Rest(todo) \subseteq Files
    BY <1>t, RestIn DEF Scalars
  <2>2. errors' \in 0..MaxErrors
    BY <1>t, <1>16, FaultTyped DEF FinishPartialRenames, Scalars
  <2>3. todo' \subseteq Files /\ pc' \in Steps /\ dir' \in BOOLEAN
    BY <1>t, <1>16, <2>1 DEF FinishPartialRenames, Scalars, Steps, ReturnErr
  <2> QED BY <1>t, <1>16, <2>2, <2>3 DEF FinishPartialRenames, Scalars
<1>17. CASE OpenStores
    BY <1>t, <1>17, FaultTyped DEF OpenStores, Scalars, Steps, memory, ReturnErr
<1>18. CASE Stop
    BY <1>t, <1>18 DEF Stop, Scalars, Steps, disk, memory
<1>19. CASE Crash
    BY <1>t, <1>19, MigrationAssumption DEF Crash, Scalars, Steps, disk, memory
<1>20. CASE LaunchRollback
    BY <1>t, <1>20 DEF LaunchRollback, Scalars, Steps, disk
<1>21. CASE CopyBack
  <2>1. todo # {} => Rest(todo) \subseteq Files
    BY <1>t, RestIn DEF Scalars
  <2>2. errors' \in 0..MaxErrors
    BY <1>t, <1>21, FaultTyped DEF CopyBack, Scalars
  <2>3. todo' \subseteq Files /\ pc' \in Steps
    BY <1>t, <1>21, <2>1 DEF CopyBack, Scalars, Steps, ReturnErr
  <2> QED BY <1>t, <1>21, <2>2, <2>3 DEF CopyBack, Scalars
<1>22. CASE RemoveCopied
  <2>1. Rest(todo) \subseteq Files
    BY <1>t DEF Scalars, Rest
  <2>2. errors' \in 0..MaxErrors
    BY <1>t, <1>22, FaultTyped DEF RemoveCopied, Scalars
  <2> QED BY <1>t, <1>22, <2>1, <2>2 DEF RemoveCopied, Scalars, Steps
<1>23. CASE RemoveDirs
  <2>1. dir' \in BOOLEAN
    BY <1>t, <1>23 DEF RemoveDirs, Scalars
  <2> QED BY <1>t, <1>23, <2>1 DEF RemoveDirs, Scalars, Steps, memory
<1>24. CASE RemoveSchema
    BY <1>t, <1>24, FaultTyped DEF RemoveSchema, Scalars, Steps, memory
<1>25. CASE RemovePointer
    BY <1>t, <1>25, FaultTyped DEF RemovePointer, Scalars, Steps, memory
<1>26. CASE UNCHANGED vars
    BY <1>t, <1>26 DEF vars, disk, memory, Scalars
<1> QED BY <1>1, <1>2, <1>3, <1>4, <1>5, <1>6, <1>7, <1>8, <1>9, <1>10, <1>11, <1>12, <1>13,
           <1>14, <1>15, <1>16, <1>17, <1>18, <1>19, <1>20, <1>21, <1>22, <1>23, <1>24, <1>25, <1>26
        DEF Next, Work

LEMMA OpenedTyped ==
    ASSUME dest \in Tree, NEW f \in Databases \cup DOMAIN dest
    PROVE  Opened(f) \subseteq Files
<1>1. \A g \in DOMAIN dest : dest[g] \subseteq Files
    BY TreeDomain
<1>2. UNION {dest[s] : s \in {t \in Sidecars : Has(dest, t) /\ Main[t] = f}} \subseteq Files
    BY <1>1 DEF Has
<1> QED BY <1>1, <1>2 DEF Opened, Has

LEMMA FlushedTyped ==
    ASSUME legacy \in Tree, NEW d \in DOMAIN legacy
    PROVE  Flushed(d) \subseteq Files
<1>1. \A g \in DOMAIN legacy : legacy[g] \subseteq Files
    BY TreeDomain
<1>2. UNION {legacy[s] : s \in {t \in Sidecars : Has(legacy, t) /\ Main[t] = d}} \subseteq Files
    BY <1>1 DEF Has
<1> QED BY <1>1, <1>2 DEF Flushed

\* The step touches neither tree.
Still == legacy' = legacy /\ dest' = dest

LEMMA TreesKept == TypeOK /\ [Next]_vars => legacy' \in Tree /\ dest' \in Tree
<1> SUFFICES ASSUME TypeOK, [Next]_vars PROVE legacy' \in Tree /\ dest' \in Tree
    OBVIOUS
<1>t. legacy \in Tree /\ dest \in Tree /\ todo \subseteq Files
    BY DEF TypeOK
<1>c. /\ \A f \in DOMAIN legacy : legacy[f] \in SUBSET Files
      /\ \A f \in DOMAIN dest : dest[f] \in SUBSET Files
    BY <1>t, TreeDomain
<1>f. todo # {} => First(todo) \in Files
    BY <1>t, RestIn
<1>s. Still => legacy' \in Tree /\ dest' \in Tree
    BY <1>t DEF Still
<1>1. CASE Launch \/ AutoMigrate \/ ProbeFails \/ StampFresh \/ WriteMarker \/ MakeDirs
    BY <1>s, <1>1 DEF Still, Launch, AutoMigrate, ProbeFails, StampFresh, WriteMarker, MakeDirs, disk
<1>2. CASE AbortRenames \/ WriteSchema \/ WriteActiveProfile \/ RemoveMarker \/ Recover \/ Stop
    BY <1>s, <1>2 DEF Still, AbortRenames, WriteSchema, WriteActiveProfile, RemoveMarker, Recover, Stop, disk
<1>3. CASE Crash \/ LaunchRollback \/ RemoveDirs \/ RemoveSchema \/ RemovePointer \/ UNCHANGED vars
    BY <1>s, <1>3 DEF Still, Crash, LaunchRollback, RemoveDirs, RemoveSchema, RemovePointer, vars, disk
<1>4. CASE CheckpointSources
  <2>1. PICK S \in SUBSET (Databases \cap DOMAIN legacy) :
          legacy' = [f \in DOMAIN legacy \ {t \in Sidecars : Main[t] \in S} |->
                       IF f \in S THEN Flushed(f) ELSE legacy[f]]
    BY <1>4 DEF CheckpointSources
  <2>2. DOMAIN legacy \ {t \in Sidecars : Main[t] \in S} \in SUBSET Files
    BY <1>t, TreeDomain
  <2>3. \A f \in DOMAIN legacy : (IF f \in S THEN Flushed(f) ELSE legacy[f]) \in SUBSET Files
    BY <1>t, <1>c, FlushedTyped
  <2>4. legacy' \in [DOMAIN legacy \ {t \in Sidecars : Main[t] \in S} -> SUBSET Files]
    BY <2>1, <2>3
  <2> QED BY <1>t, <1>4, <2>2, <2>4, IsTree DEF CheckpointSources
<1>5. CASE RenamePlan
  <2>1. CASE Still
    BY <1>s, <2>1
  <2>2. CASE ~Still
    <3>1. /\ First(todo) \in DOMAIN legacy /\ First(todo) \in Files
          /\ dest' = Put(dest, First(todo), legacy[First(todo)])
          /\ legacy' = Drop(legacy, First(todo))
        BY <1>5, <1>f, <2>2 DEF RenamePlan, Still, Has
    <3> QED BY <1>t, <1>c, <3>1, PutIsTree, DropIsTree
  <2> QED BY <2>1, <2>2
<1>6. CASE RollbackRenames
  <2>1. CASE Still
    BY <1>s, <2>1
  <2>2. CASE ~Still
    <3>1. /\ First(todo) \in DOMAIN dest /\ First(todo) \in Files
          /\ legacy' = Put(legacy, First(todo), dest[First(todo)])
          /\ dest' = Drop(dest, First(todo))
        BY <1>6, <1>f, <2>2 DEF RollbackRenames, Still, Has
    <3> QED BY <1>t, <1>c, <3>1, PutIsTree, DropIsTree
  <2> QED BY <2>1, <2>2
<1>7. CASE CleanupResidualSources
  <2>1. dest' = dest /\ (legacy' = legacy \/ legacy' = Drop(legacy, First(todo)))
    BY <1>7 DEF CleanupResidualSources
  <2> QED BY <1>t, <2>1, DropIsTree
<1>8. CASE FinishPartialRenames
  <2>1. CASE Still
    BY <1>s, <2>1
  <2>2. CASE ~Still
    <3>1. /\ First(todo) \in DOMAIN legacy /\ First(todo) \in Files
          /\ dest' = Put(dest, First(todo), legacy[First(todo)])
          /\ legacy' = Drop(legacy, First(todo))
        BY <1>8, <1>f, <2>2 DEF FinishPartialRenames, Still, Has
    <3> QED BY <1>t, <1>c, <3>1, PutIsTree, DropIsTree
  <2> QED BY <2>1, <2>2
<1>9. CASE OpenStores
  <2>1. CASE Still
    BY <1>s, <2>1
  <2>2. CASE ~Still
    <3> DEFINE D == Databases \cup {g \in DOMAIN dest : g \in Sidecars => Has(dest, Main[g])}
    <3>1. legacy' = legacy /\ dest' = [f \in D |-> Opened(f)]
        BY <1>9, <2>2 DEF OpenStores, Still
    <3>2. D \in SUBSET Files
        BY <1>t, TreeDomain, MigrationAssumption
    <3>3. \A f \in D : Opened(f) \in SUBSET Files
        BY <1>t, OpenedTyped
    <3> HIDE DEF D
    <3>4. dest' \in [D -> SUBSET Files]
        BY <3>1, <3>3
    <3> QED BY <1>t, <3>1, <3>2, <3>4, IsTree
  <2> QED BY <2>1, <2>2
<1>10. CASE CopyBack
  <2>1. CASE Still
    BY <1>s, <2>1
  <2>2. CASE ~Still
    <3>1. /\ First(todo) \in DOMAIN dest /\ First(todo) \in Files
          /\ legacy' = Put(legacy, First(todo), dest[First(todo)]) /\ dest' = dest
        BY <1>10, <1>f, <2>2 DEF CopyBack, Still, Has
    <3> QED BY <1>t, <1>c, <3>1, PutIsTree
  <2> QED BY <2>1, <2>2
<1>11. CASE RemoveCopied
  <2>1. legacy' = legacy /\ (dest' = dest \/ dest' = Drop(dest, First(todo)))
    BY <1>11 DEF RemoveCopied
  <2> QED BY <1>t, <2>1, DropIsTree
<1> QED BY <1>1, <1>2, <1>3, <1>4, <1>5, <1>6, <1>7, <1>8, <1>9, <1>10, <1>11 DEF Next, Work

\* Only autoMigrate enters Recover, and it has seen the marker.
LEMMA ReadingKept == Reading /\ [Next]_vars => Reading'
BY DEF Reading, Next, Work, vars, disk, memory, Launch, AutoMigrate, ProbeFails, StampFresh,
       CheckpointSources, WriteMarker, MakeDirs, RenamePlan, Abort, RollbackRenames, AbortRenames,
       WriteSchema, WriteActiveProfile, CleanupResidualSources, RemoveMarker, Recover,
       FinishPartialRenames, OpenStores, Stop, Crash, LaunchRollback, CopyBack, RemoveCopied,
       RemoveDirs, RemoveSchema, RemovePointer, ReturnNil, ReturnErr

LEMMA InitTyped == Init => TypeOK /\ Reading
<1> SUFFICES ASSUME Init PROVE TypeOK /\ Reading
    OBVIOUS
<1>1. PICK S \in SUBSET Files : legacy = [f \in S |-> {f}] /\ user = S
    BY DEF Init
<1>2. legacy \in [S -> SUBSET Files]
    BY <1>1
<1>3. legacy \in Tree
    BY <1>2, IsTree
<1>4. dest \in [{} -> SUBSET Files]
    BY DEF Init
<1>5. dest \in Tree
    BY <1>4, IsTree
<1>6. Scalars
  <2>1. MaxCrashes \in Nat /\ MaxErrors \in Nat
    BY MigrationAssumption
  <2>2. crashes \in 0..MaxCrashes /\ errors \in 0..MaxErrors
    BY <2>1 DEF Init
  <2>3. user \subseteq Files
    BY <1>1
  <2>4. /\ dir = FALSE /\ litter = FALSE /\ pointer = FALSE /\ schema = 1 /\ marker = NoMarker
        /\ pc = "off" /\ cmd = "daemon" /\ plan = {} /\ todo = {} /\ whole = TRUE /\ recovering = FALSE
    BY DEF Init
  <2> QED BY <2>2, <2>3, <2>4 DEF Scalars, Steps
<1> QED BY <1>3, <1>5, <1>6, TypeParts DEF Init, Reading

\* The disk and the process stay what TypeOK says, rollbacks that fail or are
\* killed half-way included.
THEOREM TypeCorrect == Spec => []TypeOK
<1>1. TypeOK /\ Reading /\ [Next]_vars => (TypeOK /\ Reading)'
  <2> SUFFICES ASSUME TypeOK, Reading, [Next]_vars PROVE TypeOK' /\ Reading'
    OBVIOUS
  <2>1. legacy' \in Tree /\ dest' \in Tree /\ Scalars'
    BY TreesKept, ScalarsKept
  <2>2. TypeOK'
    BY <2>1 DEF TypeOK, Scalars
  <2> QED BY <2>2, ReadingKept
<1> QED BY <1>1, InitTyped, PTL DEF Spec

-----------------------------------------------------------------------------
(* What the steps do to the trees *)

LEMMA HeldNone ==
    ASSUME NEW t, DOMAIN t = {}
    PROVE  Held(t) = {}
BY DEF Held

\* A step that leaves the trees alone leaves what is known of them alone.
LEMMA Same ==
    ASSUME Still, user' = user
    PROVE  /\ Untouched' <=> Untouched
           /\ Complete' <=> Complete
           /\ Moved' <=> Moved
           /\ marker' = marker => (Moving' <=> Moving)
<1>1. Both' = Both /\ Held(legacy)' = Held(legacy) /\ Held(dest)' = Held(dest)
    BY DEF Still, Both, Held
<1>2. DOMAIN legacy' = DOMAIN legacy /\ DOMAIN dest' = DOMAIN dest
    BY DEF Still
<1>3. Complete' <=> Complete
    BY <1>1 DEF Complete, Paired
<1>4. Untouched' <=> Untouched
    BY <1>1, <1>2 DEF Untouched, Paired, Still
<1>5. Moved' <=> Moved
    BY <1>1, <1>2 DEF Moved, Paired
<1>6. marker' = marker => (Moving' <=> Moving)
    BY <1>1, <1>2, <1>3 DEF Moving
<1> QED BY <1>3, <1>4, <1>5, <1>6

LEMMA NothingMoved ==
    ASSUME Complete, DOMAIN dest = {}
    PROVE  Untouched
<1>1. Held(dest) = {}
    BY HeldNone
<1> QED BY <1>1 DEF Complete, Untouched, Both, Paired

LEMMA AllMoved ==
    ASSUME Complete, DOMAIN legacy = {}
    PROVE  Moved
<1>1. Held(legacy) = {}
    BY HeldNone
<1> QED BY <1>1 DEF Complete, Moved, Both, Paired

LEMMA NothingToMove ==
    ASSUME Untouched, Session \notin DOMAIN legacy
    PROVE  Moved
<1>1. DOMAIN legacy = {}
    BY DEF Untouched
<1>2. Held(legacy) = {}
    BY <1>1, HeldNone
<1> QED BY <1>1, <1>2 DEF Untouched, Moved

LEMMA ReadyToMove ==
    ASSUME Untouched, DOMAIN dest = {}, Session \in DOMAIN legacy
    PROVE  Complete
BY DEF Untouched, Complete, Both, Paired

LEMMA MovedIsComplete ==
    ASSUME Moved, Session \in DOMAIN dest
    PROVE  Complete
BY DEF Moved, Complete, Both, Paired

\* A rename into the profile, and one back.
LEMMA MoveEffect ==
    ASSUME Moving, NEW f \in DOMAIN legacy, user' = user, marker' = marker,
           legacy' = Drop(legacy, f), dest' = Put(dest, f, legacy[f])
    PROVE  /\ Moving'
           /\ DOMAIN legacy' = DOMAIN legacy \ {f} /\ DOMAIN dest' = DOMAIN dest \cup {f}
<1>0. f \notin DOMAIN dest
    BY DEF Moving
<1>1. PICK l : l = legacy'
    OBVIOUS
<1>2. PICK d : d = dest'
    OBVIOUS
<1>3. Held(legacy)' = Held(l) /\ Held(dest)' = Held(d) /\ Both' = DOMAIN l \cup DOMAIN d
    BY <1>1, <1>2 DEF Held, Both
<1>4. /\ Held(legacy) \cup Held(dest) \subseteq Held(l) \cup Held(d)
      /\ DOMAIN l \cup DOMAIN d = Both
      /\ DOMAIN l \cap DOMAIN d = {}
    BY <1>0, <1>1, <1>2, MoveKeeps DEF Both, Moving
<1>5. DOMAIN l = DOMAIN legacy \ {f} /\ DOMAIN d = DOMAIN dest \cup {f}
    BY <1>1, <1>2 DEF Put, Drop
<1>6. Complete'
    BY <1>3, <1>4 DEF Complete, Moving, Paired
<1>7. DOMAIN legacy' = DOMAIN l /\ DOMAIN dest' = DOMAIN d
    BY <1>1, <1>2
<1>8. Moving'
    BY <1>3, <1>4, <1>6, <1>7 DEF Moving
<1> QED BY <1>5, <1>7, <1>8

LEMMA BackEffect ==
    ASSUME Moving, NEW f \in DOMAIN dest, user' = user, marker' = marker,
           dest' = Drop(dest, f), legacy' = Put(legacy, f, dest[f])
    PROVE  /\ Moving'
           /\ DOMAIN dest' = DOMAIN dest \ {f} /\ DOMAIN legacy' = DOMAIN legacy \cup {f}
<1>0. f \notin DOMAIN legacy
    BY DEF Moving
<1>1. PICK l : l = legacy'
    OBVIOUS
<1>2. PICK d : d = dest'
    OBVIOUS
<1>3. Held(legacy)' = Held(l) /\ Held(dest)' = Held(d) /\ Both' = DOMAIN l \cup DOMAIN d
    BY <1>1, <1>2 DEF Held, Both
<1>4. /\ Held(dest) \cup Held(legacy) \subseteq Held(d) \cup Held(l)
      /\ DOMAIN d \cup DOMAIN l = Both
      /\ DOMAIN d \cap DOMAIN l = {}
  <2>1. DOMAIN dest \cap DOMAIN legacy = {}
    BY DEF Moving
  <2> QED BY <1>0, <1>1, <1>2, <2>1, MoveKeeps DEF Both
<1>5. DOMAIN d = DOMAIN dest \ {f} /\ DOMAIN l = DOMAIN legacy \cup {f}
    BY <1>1, <1>2 DEF Put, Drop
<1>6. Complete'
    BY <1>3, <1>4 DEF Complete, Moving, Paired
<1>7. DOMAIN legacy' = DOMAIN l /\ DOMAIN dest' = DOMAIN d
    BY <1>1, <1>2
<1>8. Moving'
    BY <1>3, <1>4, <1>6, <1>7 DEF Moving
<1> QED BY <1>5, <1>7, <1>8

\* The rollback's copy and removal of one file.
LEMMA CopyEffect ==
    ASSUME Complete, NEW f \in DOMAIN dest, f \notin DOMAIN legacy, user' = user,
           legacy' = Put(legacy, f, dest[f]), dest' = dest
    PROVE  /\ Complete'
           /\ DOMAIN legacy' = DOMAIN legacy \cup {f} /\ legacy'[f] = dest[f]
<1>1. PICK l : l = legacy'
    OBVIOUS
<1>2. DOMAIN l = DOMAIN legacy \cup {f} /\ l[f] = dest[f] /\ \A g \in DOMAIN legacy : l[g] = legacy[g]
  <2>1. \A g \in DOMAIN legacy : g # f
    OBVIOUS
  <2> QED BY <1>1, <2>1 DEF Put
<1>3. Held(legacy)' = Held(l) /\ Held(dest)' = Held(dest) /\ Both' = Both
    BY <1>1, <1>2 DEF Held, Both
<1>4. Held(legacy) \subseteq Held(l)
    BY <1>2, HeldIn
<1>5. Complete'
    BY <1>3, <1>4 DEF Complete, Paired
<1> QED BY <1>1, <1>2, <1>5

LEMMA RemoveEffect ==
    ASSUME Complete, NEW f \in DOMAIN dest, f \in DOMAIN legacy, legacy[f] = dest[f],
           user' = user, dest' = Drop(dest, f), legacy' = legacy
    PROVE  Complete' /\ DOMAIN dest' = DOMAIN dest \ {f}
<1>1. PICK d : d = dest'
    OBVIOUS
<1>2. DOMAIN d = DOMAIN dest \ {f} /\ \A g \in DOMAIN dest : g # f => d[g] = dest[g]
    BY <1>1, DropTree
<1>3. Held(legacy)' = Held(legacy) /\ Held(dest)' = Held(d) /\ Both' = Both
    BY <1>1, <1>2 DEF Held, Both
<1>4. ASSUME NEW x \in Held(legacy) \cup Held(dest) PROVE x \in Held(legacy) \cup Held(d)
  <2>1. CASE x \in Held(dest)
    <3>1. PICK g \in DOMAIN dest : x \in dest[g]
        BY <2>1, HeldIn
    <3>2. CASE g = f
        BY <3>1, <3>2, HeldIn
    <3>3. CASE g # f
        BY <1>2, <3>1, <3>3, HeldIn
    <3> QED BY <3>2, <3>3
  <2> QED BY <1>4, <2>1
<1>5. Complete'
    BY <1>3, <1>4 DEF Complete, Paired
<1> QED BY <1>1, <1>2, <1>5

\* A checkpoint empties logs into their databases.
LEMMA CheckpointEffect ==
    ASSUME Untouched, DOMAIN dest = {}, Session \in DOMAIN legacy, CheckpointSources
    PROVE  /\ Untouched'
           /\ DOMAIN dest' = {} /\ Session \in DOMAIN legacy' /\ DOMAIN legacy' \subseteq DOMAIN legacy
<1>1. PICK S \in SUBSET (Databases \cap DOMAIN legacy) :
          legacy' = [f \in DOMAIN legacy \ {t \in Sidecars : Main[t] \in S} |->
                       IF f \in S THEN Flushed(f) ELSE legacy[f]]
    BY DEF CheckpointSources
<1>2. PICK l : l = legacy'
    OBVIOUS
<1>a. Databases \cap Sidecars = {} /\ Session \in Databases /\ Main \in [Sidecars -> Databases]
    BY MigrationAssumption
<1>3. /\ DOMAIN l = DOMAIN legacy \ {t \in Sidecars : Main[t] \in S}
      /\ \A f \in DOMAIN l : f \in S => l[f] = Flushed(f)
      /\ \A f \in DOMAIN l : f \notin S => l[f] = legacy[f]
    BY <1>1, <1>2
<1>4. \A f \in Databases \cap DOMAIN legacy : f \in DOMAIN l
    BY <1>3, <1>a
<1>5. ASSUME NEW f \in DOMAIN l PROVE legacy[f] \subseteq l[f]
  <2>1. f \in S => legacy[f] \subseteq Flushed(f)
    BY DEF Flushed
  <2> QED BY <1>3, <2>1
<1>6. ASSUME NEW x \in Held(legacy) PROVE x \in Held(l)
  <2>1. PICK g \in DOMAIN legacy : x \in legacy[g]
    BY HeldIn
  <2>2. CASE g \in DOMAIN l
    BY <1>5, <2>1, <2>2, HeldIn
  <2>3. CASE g \notin DOMAIN l
    <3>1. g \in Sidecars /\ Main[g] \in S
        BY <1>3, <2>1, <2>3
    <3>2. x \in Flushed(Main[g])
        BY <2>1, <3>1 DEF Flushed, Has
    <3>3. Main[g] \in DOMAIN l /\ l[Main[g]] = Flushed(Main[g])
        BY <1>3, <1>4, <3>1
    <3> QED BY <3>2, <3>3, HeldIn
  <2> QED BY <2>2, <2>3
<1>7. /\ Session \in DOMAIN l /\ DOMAIN l \subseteq DOMAIN legacy
    BY <1>3, <1>4, <1>a
<1>8. ASSUME NEW s \in Sidecars \cap DOMAIN l PROVE Main[s] \in DOMAIN l
  <2>1. Main[s] \in DOMAIN legacy /\ Main[s] \in Databases
    BY <1>3, <1>a DEF Untouched, Paired
  <2> QED BY <1>4, <2>1
<1>9. dest' = dest /\ user' = user
    BY DEF CheckpointSources
<1>10. Held(legacy)' = Held(l) /\ Paired(DOMAIN legacy)'
  <2>1. Held(legacy)' = Held(l)
    BY <1>2 DEF Held
  <2>2. DOMAIN legacy' = DOMAIN l
    BY <1>2
  <2> QED BY <1>8, <2>1, <2>2 DEF Paired
<1>11. user' \subseteq Held(legacy)'
    BY <1>6, <1>9, <1>10 DEF Untouched
<1>12. DOMAIN legacy' = DOMAIN l /\ DOMAIN dest' = {}
    BY <1>2, <1>9
<1>13. Paired(DOMAIN dest)'
    BY <1>12 DEF Paired
<1> QED BY <1>7, <1>10, <1>11, <1>12, <1>13 DEF Untouched

\* The daemon's stores keep every file that was moved, its log with it, and
\* hold nothing of the user's where nothing was.
LEMMA OpenEffect ==
    ASSUME user' = user, legacy' = legacy,
           dest' = [f \in Databases \cup {g \in DOMAIN dest : g \in Sidecars => Has(dest, Main[g])}
                       |-> Opened(f)]
    PROVE  (Moved => Moved') /\ (Untouched => Untouched')
<1>a. Databases \cap Sidecars = {} /\ Main \in [Sidecars -> Databases]
    BY MigrationAssumption
<1>1. PICK d : d = dest'
    OBVIOUS
<1>2. /\ DOMAIN d = Databases \cup {g \in DOMAIN dest : g \in Sidecars => g \in DOMAIN dest /\ Main[g] \in DOMAIN dest}
      /\ \A f \in DOMAIN d : d[f] = Opened(f)
    BY <1>1 DEF Has
<1>3. ASSUME NEW s \in Sidecars \cap DOMAIN d PROVE Main[s] \in DOMAIN d
    BY <1>2, <1>a
<1>4. Held(dest)' = Held(d) /\ Held(legacy)' = Held(legacy) /\ DOMAIN legacy' = DOMAIN legacy
    BY <1>1 DEF Held
<1>5. Paired(DOMAIN dest)' /\ (Paired(DOMAIN legacy) => Paired(DOMAIN legacy)')
  <2>1. DOMAIN dest' = DOMAIN d
    BY <1>1
  <2> QED BY <1>3, <1>4, <2>1 DEF Paired
<1>6. ASSUME Moved PROVE Moved'
  <2>1. ASSUME NEW x \in Held(dest) PROVE x \in Held(d)
    <3>1. PICK g \in DOMAIN dest : x \in dest[g]
        BY HeldIn
    <3>2. g \in DOMAIN d
        BY <1>2, <1>6 DEF Moved, Paired
    <3>3. dest[g] \subseteq Opened(g)
        BY <3>1 DEF Opened, Has
    <3> QED BY <1>2, <3>1, <3>2, <3>3, HeldIn
  <2> QED BY <1>4, <1>5, <1>6, <2>1 DEF Moved
<1>7. ASSUME Untouched PROVE Untouched'
  <2>1. ASSUME NEW f \in DOMAIN d PROVE d[f] = {}
    <3>1. \A g \in DOMAIN dest : dest[g] = {}
        BY <1>7 DEF Untouched
    <3>2. UNION {dest[s] : s \in {t \in Sidecars : Has(dest, t) /\ Main[t] = f}} = {}
        BY <3>1 DEF Has
    <3>3. Opened(f) = {}
        BY <1>2, <2>1, <3>1, <3>2 DEF Opened, Has
    <3> QED BY <1>2, <3>3
  <2>2. \A f \in DOMAIN dest' : dest'[f] = {}
    BY <1>1, <2>1
  <2> QED BY <1>4, <1>5, <1>7, <2>2 DEF Untouched
<1> QED BY <1>6, <1>7

-----------------------------------------------------------------------------
(* Every step keeps the invariant *)

\* A rollback that cannot be interrupted sees no failing call and no kill.
Uninterrupted == ~RollbackFaults

LEMMA NoUndoFault == Uninterrupted /\ UndoInv /\ Undoing => ~Fault /\ ~Crash
BY DEF Uninterrupted, UndoInv, Fault, Crash

LEMMA StillSafe ==
    ASSUME TypeOK, Safe, Uninterrupted, Still, user' = user,
           \/ Launch \/ AutoMigrate \/ ProbeFails \/ StampFresh \/ WriteMarker \/ MakeDirs
           \/ AbortRenames \/ WriteSchema \/ WriteActiveProfile \/ RemoveMarker \/ Recover
           \/ Stop \/ Crash \/ LaunchRollback \/ RemoveDirs \/ RemoveSchema \/ RemovePointer
    PROVE  Safe'
<1> USE DEF Safe
<1>s. /\ Untouched' <=> Untouched
      /\ Complete' <=> Complete
      /\ Moved' <=> Moved
      /\ marker' = marker => (Moving' <=> Moving)
    BY Same
<1>e. legacy' = legacy /\ dest' = dest
    BY DEF Still
<1>m. /\ schema \in {1, 2} /\ plan \in SUBSET Files /\ plan # NoMarker
      /\ marker \in {NoMarker} \cup SUBSET Files
    BY MigrationAssumption DEF TypeOK
<1>c. /\ Complete /\ DOMAIN dest = {} => Untouched
      /\ Complete /\ DOMAIN legacy = {} => Moved
      /\ Untouched /\ Session \notin DOMAIN legacy => Moved
      /\ Untouched /\ DOMAIN dest = {} /\ Session \in DOMAIN legacy => Complete
      /\ Moved /\ Session \in DOMAIN dest => Complete
      /\ Moving => Complete /\ Both \subseteq marker
      /\ Moved => DOMAIN legacy = {}
      /\ Untouched => Session \in DOMAIN legacy \/ DOMAIN legacy = {}
    BY NothingMoved, AllMoved, NothingToMove, ReadyToMove, MovedIsComplete DEF Moving, Moved, Untouched
<1>b. DOMAIN legacy \subseteq Both /\ DOMAIN dest \subseteq Both
    BY DEF Both
<1>d. /\ DOMAIN legacy \subseteq Files /\ DOMAIN dest \subseteq Files
    BY TreeDomain DEF TypeOK
<1>1. CASE Launch
    BY <1>1, <1>s, <1>e DEF Launch, disk, DiskInv, UndoInv, StepInv, Undoing
<1>2. CASE AutoMigrate
    BY <1>2, <1>s, <1>e, <1>m DEF AutoMigrate, CopySteps, Has, ReturnNil, ReturnErr, disk, DiskInv, UndoInv, StepInv, Undoing
<1>3. CASE ProbeFails
    BY <1>3, <1>s, <1>e DEF ProbeFails, ReturnErr, disk, memory, DiskInv, UndoInv, StepInv, Undoing
<1>4. CASE StampFresh
    BY <1>4, <1>s, <1>e, <1>c DEF StampFresh, ReturnNil, ReturnErr, memory, DiskInv, UndoInv, StepInv, Undoing
<1>5. CASE WriteMarker
  <2>1. DiskInv' /\ UndoInv'
    <3>1. marker' = plan => Moving'
      <4>1. pc = "mark" => Complete /\ DOMAIN dest = {} /\ DOMAIN legacy \subseteq plan
        BY <1>5, <1>c DEF WriteMarker, DiskInv, StepInv, Undoing
      <4>2. Both' = DOMAIN legacy \cup DOMAIN dest
        BY <1>e DEF Both
      <4> QED BY <1>5, <1>e, <1>s, <4>1, <4>2 DEF Moving, WriteMarker
    <3> QED BY <1>5, <1>s, <1>e, <1>m, <3>1 DEF WriteMarker, ReturnErr, memory, DiskInv, UndoInv, StepInv, Undoing
  <2>2. StepInv'
    BY <1>5, <1>e, <1>m DEF WriteMarker, ReturnErr, memory, StepInv
  <2> QED BY <2>1, <2>2
<1>6. CASE MakeDirs
    BY <1>6, <1>s, <1>e, <1>c, <1>m, <1>b DEF MakeDirs, ReturnErr, DiskInv, UndoInv, StepInv, Undoing
<1>7. CASE AbortRenames
    BY <1>7, <1>s, <1>e, <1>c, <1>m DEF AbortRenames, ReturnErr, memory, DiskInv, UndoInv, StepInv, Undoing
<1>8. CASE WriteSchema
    BY <1>8, <1>s, <1>e, <1>c, <1>m DEF WriteSchema, ReturnErr, memory, DiskInv, UndoInv, StepInv, Undoing
<1>9. CASE WriteActiveProfile
    BY <1>9, <1>s, <1>e, <1>m DEF WriteActiveProfile, ReturnErr, DiskInv, UndoInv, StepInv, Undoing
<1>10. CASE RemoveMarker
    BY <1>10, <1>s, <1>e, <1>m DEF RemoveMarker, ReturnErr, ReturnNil, memory, DiskInv, UndoInv, StepInv, Undoing
<1>11. CASE Recover
  <2>1. pc = "recover" /\ marker # NoMarker /\ marker \in SUBSET Files
    BY <1>11, <1>m DEF Recover, StepInv
  <2>2. schema = 1 => Moving
    BY <2>1 DEF DiskInv, Undoing
  <2>3. schema = 2 => Moved
    BY <2>1 DEF DiskInv, Undoing
  <2>4. schema = 1 /\ (\A f \in marker : ~Has(dest, f)) => Untouched
    BY <2>2, <1>c, <1>b DEF Has
  <2>5. DOMAIN legacy \subseteq marker
    BY <1>m, <2>2, <2>3, <1>c, <1>b
  <2>6. DiskInv' /\ UndoInv'
    BY <1>11, <2>1, <2>2, <2>3, <2>4, <1>s, <1>m
    DEF Recover, ReturnErr, ReturnNil, DiskInv, UndoInv, Undoing
  <2>7. StepInv'
    BY <1>11, <1>e, <2>1, <2>5 DEF Recover, ReturnErr, ReturnNil, StepInv
  <2> QED BY <2>6, <2>7
<1>12. CASE Stop
    BY <1>12, <1>s, <1>e DEF Stop, disk, memory, DiskInv, UndoInv, StepInv, Undoing
<1>13. CASE Crash
  <2>1. ~Undoing
    BY <1>13, NoUndoFault
  <2> QED BY <1>13, <1>s, <1>e, <2>1 DEF Crash, disk, memory, DiskInv, UndoInv, StepInv, Undoing
<1>14. CASE LaunchRollback
    BY <1>14, <1>s, <1>e, <1>c, <1>d DEF LaunchRollback, Has, disk, DiskInv, UndoInv, StepInv, Undoing
<1>15. CASE RemoveDirs
    BY <1>15, <1>s, <1>e, <1>c DEF RemoveDirs, memory, DiskInv, UndoInv, StepInv, Undoing
<1>16. CASE RemoveSchema
  <2>1. ~Fault
    BY <1>16, NoUndoFault DEF RemoveSchema, Undoing
  <2> QED BY <1>16, <1>s, <1>e, <2>1 DEF RemoveSchema, memory, DiskInv, UndoInv, StepInv, Undoing
<1>17. CASE RemovePointer
    BY <1>17, <1>s, <1>e DEF RemovePointer, memory, DiskInv, UndoInv, StepInv, Undoing
<1> QED BY <1>1, <1>2, <1>3, <1>4, <1>5, <1>6, <1>7, <1>8, <1>9, <1>10, <1>11, <1>12, <1>13,
           <1>14, <1>15, <1>16, <1>17

LEMMA CheckpointSafe == TypeOK /\ Safe /\ CheckpointSources => Safe'
<1> SUFFICES ASSUME TypeOK, Safe, CheckpointSources PROVE Safe'
    OBVIOUS
<1>1. /\ pc = "checkpoint" /\ schema = 1 /\ marker = NoMarker /\ DOMAIN dest = {}
      /\ DOMAIN legacy \subseteq plan /\ Session \in DOMAIN legacy /\ Untouched
    BY DEF Safe, CheckpointSources, StepInv, DiskInv, Undoing
<1>2. /\ Untouched' /\ DOMAIN dest' = {} /\ Session \in DOMAIN legacy'
      /\ DOMAIN legacy' \subseteq DOMAIN legacy
    BY <1>1, CheckpointEffect
<1>3. pc' = "mark" /\ schema' = schema /\ marker' = marker /\ plan' = plan
    BY DEF CheckpointSources, memory
<1> QED BY <1>1, <1>2, <1>3 DEF Safe, DiskInv, UndoInv, StepInv, Undoing

LEMMA RenameSafe == TypeOK /\ Safe /\ RenamePlan => Safe'
<1> SUFFICES ASSUME TypeOK, Safe, RenamePlan PROVE Safe'
    OBVIOUS
<1>1. plan \in SUBSET Files /\ plan # NoMarker /\ todo \subseteq Files
    BY MigrationAssumption DEF TypeOK
<1>2. /\ pc = "rename" /\ schema = 1 /\ marker = plan /\ Moving
      /\ DOMAIN legacy \subseteq todo /\ DOMAIN dest \subseteq plan \ todo
    BY <1>1 DEF Safe, RenamePlan, StepInv, DiskInv, Undoing
<1>3. schema' = schema /\ marker' = marker /\ plan' = plan /\ user' = user /\ cmd' = cmd
    BY DEF RenamePlan
<1>4. CASE legacy' = legacy /\ dest' = dest
  <2>1. Moving'
    BY <1>2, <1>3, <1>4, Same DEF Still
  <2>2. CASE todo = {}
    <3>1. pc' = "schema" /\ DOMAIN legacy' = {}
        BY <1>2, <1>4, <2>2 DEF RenamePlan
    <3> QED BY <1>1, <1>2, <1>3, <2>1, <3>1 DEF Safe, DiskInv, UndoInv, StepInv, Undoing
  <2>3. CASE todo # {} /\ Abort
    <3>1. pc' = "unwind" /\ DOMAIN dest' \subseteq todo'
        BY <1>2, <1>4, <2>3 DEF Abort
    <3> QED BY <1>1, <1>2, <1>3, <2>1, <3>1 DEF Safe, DiskInv, UndoInv, StepInv, Undoing
  <2>4. CASE todo # {} /\ Has(legacy, First(todo)) /\ legacy' = Drop(legacy, First(todo))
    <3>1. First(todo) \in DOMAIN legacy /\ First(todo) \notin DOMAIN legacy'
        BY <2>4, DropTree DEF Has
    <3> QED BY <1>4, <3>1
  <2> QED BY <2>2, <2>3, <2>4 DEF RenamePlan
<1>5. CASE ~(legacy' = legacy /\ dest' = dest)
  <2>1. PICK f : f = First(todo)
    OBVIOUS
  <2>2. /\ todo # {} /\ f \in DOMAIN legacy /\ pc' = pc /\ todo' = todo \ {f}
        /\ legacy' = Drop(legacy, f) /\ dest' = Put(dest, f, legacy[f])
    BY <1>5, <2>1 DEF RenamePlan, Has, Rest
  <2>3. Moving' /\ DOMAIN legacy' = DOMAIN legacy \ {f} /\ DOMAIN dest' = DOMAIN dest \cup {f}
    BY <1>2, <1>3, <2>2, MoveEffect
  <2>4. f \in plan
    BY <1>2, <2>2 DEF Moving, Both
  <2>5. DOMAIN legacy' \subseteq todo' /\ DOMAIN dest' \subseteq plan' \ todo'
    BY <1>2, <1>3, <2>2, <2>3, <2>4
  <2> QED BY <1>1, <1>2, <1>3, <2>2, <2>3, <2>5 DEF Safe, DiskInv, UndoInv, StepInv, Undoing
<1> QED BY <1>4, <1>5

LEMMA UnwindSafe == TypeOK /\ Safe /\ RollbackRenames => Safe'
<1> SUFFICES ASSUME TypeOK, Safe, RollbackRenames PROVE Safe'
    OBVIOUS
<1>1. plan \in SUBSET Files /\ plan # NoMarker /\ todo \subseteq Files
    BY MigrationAssumption DEF TypeOK
<1>2. /\ pc = "unwind" /\ schema = 1 /\ marker = plan /\ Moving
      /\ whole => DOMAIN dest \subseteq todo
    BY <1>1 DEF Safe, RollbackRenames, StepInv, DiskInv, Undoing
<1>3. schema' = schema /\ marker' = marker /\ plan' = plan /\ user' = user /\ cmd' = cmd /\ pc' = pc
    BY DEF RollbackRenames
<1>4. PICK f : f = First(todo)
    OBVIOUS
<1>5. todo' = todo \ {f}
    BY <1>4 DEF RollbackRenames, Rest
<1>d. DOMAIN legacy \cap DOMAIN dest = {}
    BY <1>2 DEF Moving
<1>6. CASE legacy' = Put(legacy, f, dest[f]) /\ dest' = Drop(dest, f) /\ f \in DOMAIN dest /\ whole' = whole
  <2>1. Moving' /\ DOMAIN dest' = DOMAIN dest \ {f}
    BY <1>2, <1>3, <1>6, BackEffect
  <2> QED BY <1>1, <1>2, <1>3, <1>5, <1>6, <2>1 DEF Safe, DiskInv, UndoInv, StepInv, Undoing
<1>7. CASE legacy' = legacy /\ dest' = dest /\ (~whole' \/ (whole' = whole /\ f \notin DOMAIN dest))
  <2>1. Moving'
    BY <1>2, <1>3, <1>7, Same DEF Still
  <2> QED BY <1>1, <1>2, <1>3, <1>5, <1>7, <2>1 DEF Safe, DiskInv, UndoInv, StepInv, Undoing
<1> QED BY <1>4, <1>6, <1>7, <1>d DEF RollbackRenames, Has

LEMMA FinishSafe == TypeOK /\ Safe /\ FinishPartialRenames => Safe'
<1> SUFFICES ASSUME TypeOK, Safe, FinishPartialRenames PROVE Safe'
    OBVIOUS
<1>1. plan \in SUBSET Files /\ plan # NoMarker /\ todo \subseteq Files /\ schema \in {1, 2}
    BY MigrationAssumption DEF TypeOK
<1>2. /\ pc = "finish" /\ marker = plan /\ DOMAIN legacy \subseteq todo
      /\ schema = 1 => Moving
      /\ schema = 2 => Moved
    BY <1>1 DEF Safe, FinishPartialRenames, StepInv, DiskInv, Undoing
<1>3. schema' = schema /\ marker' = marker /\ plan' = plan /\ user' = user /\ cmd' = cmd
    BY DEF FinishPartialRenames
<1>4. PICK f : f = First(todo)
    OBVIOUS
<1>5. CASE legacy' = legacy /\ dest' = dest
  <2>1. (schema = 1 => Moving') /\ (schema = 2 => Moved')
    BY <1>2, <1>3, <1>5, Same DEF Still
  <2>2. CASE pc' = "off"
    BY <1>1, <1>2, <1>3, <2>1, <2>2 DEF Safe, DiskInv, UndoInv, StepInv, Undoing
  <2>3. CASE pc' = "schema" /\ todo = {}
    BY <1>1, <1>2, <1>3, <1>5, <2>1, <2>3 DEF Safe, DiskInv, UndoInv, StepInv, Undoing
  <2>4. CASE pc' = pc /\ todo' = todo \ {f} /\ (f \in DOMAIN dest \/ f \notin DOMAIN legacy)
    <3>1. f \notin DOMAIN legacy
        BY <1>1, <1>2, <2>4 DEF Moving, Moved
    <3>2. DOMAIN legacy' \subseteq todo'
        BY <1>2, <1>5, <2>4, <3>1
    <3> QED BY <1>1, <1>2, <1>3, <2>1, <2>4, <3>2 DEF Safe, DiskInv, UndoInv, StepInv, Undoing
  <2>5. CASE f \in DOMAIN legacy /\ legacy' = Drop(legacy, f)
    <3>1. f \notin DOMAIN legacy'
        BY <2>5, DropTree
    <3> QED BY <1>5, <2>5, <3>1
  <2> QED BY <1>4, <2>2, <2>3, <2>4, <2>5 DEF FinishPartialRenames, Has, Rest, ReturnErr
<1>6. CASE ~(legacy' = legacy /\ dest' = dest)
  <2>1. /\ f \in DOMAIN legacy /\ pc' = pc /\ todo' = todo \ {f}
        /\ legacy' = Drop(legacy, f) /\ dest' = Put(dest, f, legacy[f])
    BY <1>4, <1>6 DEF FinishPartialRenames, Has, Rest
  <2>2. schema = 1 /\ Moving
    BY <1>1, <1>2, <2>1 DEF Moved
  <2>3. Moving' /\ DOMAIN legacy' = DOMAIN legacy \ {f}
    BY <1>3, <2>1, <2>2, MoveEffect
  <2> QED BY <1>1, <1>2, <1>3, <2>1, <2>2, <2>3 DEF Safe, DiskInv, UndoInv, StepInv, Undoing
<1> QED BY <1>5, <1>6

LEMMA CleanSafe == TypeOK /\ Safe /\ CleanupResidualSources => Safe'
<1> SUFFICES ASSUME TypeOK, Safe, CleanupResidualSources PROVE Safe'
    OBVIOUS
<1>1. pc = "clean" /\ schema = 2 /\ marker = plan /\ Moved
    BY DEF Safe, CleanupResidualSources, StepInv, DiskInv, Undoing
<1>2. /\ schema' = schema /\ marker' = marker /\ plan' = plan /\ user' = user /\ dest' = dest
      /\ pc' \in {"clean", "unmark"}
    BY <1>1 DEF CleanupResidualSources
<1>3. DOMAIN legacy' = {}
  <2>1. legacy' = legacy \/ legacy' = Drop(legacy, First(todo))
    BY DEF CleanupResidualSources
  <2>2. DOMAIN legacy = {}
    BY <1>1 DEF Moved
  <2> QED BY <2>1, <2>2, DropTree
<1>4. Moved'
  <2>1. Held(dest)' = Held(dest) /\ DOMAIN dest' = DOMAIN dest
    BY <1>2 DEF Held
  <2> QED BY <1>1, <1>2, <1>3, <2>1 DEF Moved, Paired
<1> QED BY <1>1, <1>2, <1>4 DEF Safe, DiskInv, UndoInv, StepInv, Undoing

LEMMA OpenSafe == TypeOK /\ Safe /\ OpenStores => Safe'
<1> SUFFICES ASSUME TypeOK, Safe, OpenStores PROVE Safe'
    OBVIOUS
<1>1. /\ pc = "stores" /\ schema \in {1, 2}
      /\ schema = 1 => marker = NoMarker /\ Untouched
      /\ schema = 2 => Moved
    BY DEF TypeOK, Safe, OpenStores, StepInv, DiskInv, Undoing
<1>2. /\ schema' = schema /\ marker' = marker /\ plan' = plan /\ user' = user /\ legacy' = legacy
      /\ pc' \in {"up", "off"}
    BY DEF OpenStores, ReturnErr, memory
<1>3. (Moved => Moved') /\ (Untouched => Untouched')
  <2>1. CASE dest' = dest
    BY <1>2, <2>1, Same DEF Still
  <2>2. CASE dest' # dest
    <3>1. dest' = [f \in Databases \cup {g \in DOMAIN dest : g \in Sidecars => Has(dest, Main[g])} |-> Opened(f)]
        BY <2>2 DEF OpenStores
    <3> QED BY <1>2, <3>1, OpenEffect
  <2> QED BY <2>1, <2>2
<1> QED BY <1>1, <1>2, <1>3 DEF Safe, DiskInv, UndoInv, StepInv, Undoing

LEMMA CopySafe == TypeOK /\ Safe /\ Uninterrupted /\ CopyBack => Safe'
<1> SUFFICES ASSUME TypeOK, Safe, Uninterrupted, CopyBack PROVE Safe'
    OBVIOUS
<1>1. /\ pc = "copy" /\ todo # {} /\ schema = 2 /\ Complete /\ cmd = "rollback" /\ marker = NoMarker
      /\ DOMAIN dest \subseteq todo /\ DOMAIN legacy \cap todo = {}
    BY DEF Safe, CopyBack, UndoInv, Undoing
<1>2. /\ schema' = schema /\ marker' = marker /\ plan' = plan /\ user' = user /\ cmd' = cmd /\ dest' = dest
    BY DEF CopyBack
<1>3. PICK f : f = First(todo)
    OBVIOUS
<1>4. f \in todo /\ f \notin DOMAIN legacy
    BY <1>1, <1>3, FirstIn DEF TypeOK
<1>5. ~Fault
    BY <1>1, NoUndoFault DEF Safe, Undoing
<1>6. CASE f \notin DOMAIN dest
  <2>1. todo' = todo \ {f} /\ legacy' = legacy /\ pc' = pc
    BY <1>3, <1>6 DEF CopyBack, Has, Rest
  <2>2. Complete'
    BY <1>1, <1>2, <2>1, Same DEF Still
  <2>3. DOMAIN dest' \subseteq todo' /\ DOMAIN legacy' \cap todo' = {}
    BY <1>1, <1>2, <1>6, <2>1
  <2> QED BY <1>1, <1>2, <2>1, <2>2, <2>3 DEF Safe, DiskInv, UndoInv, StepInv, Undoing
<1>7. CASE f \in DOMAIN dest
  <2>1. legacy' = Put(legacy, f, dest[f]) /\ pc' = "remove" /\ todo' = todo
    BY <1>3, <1>4, <1>5, <1>7 DEF CopyBack, Has
  <2>2. Complete' /\ DOMAIN legacy' = DOMAIN legacy \cup {f} /\ legacy'[f] = dest[f]
    BY <1>1, <1>2, <1>4, <1>7, <2>1, CopyEffect
  <2>3. First(todo)' = f
    BY <1>3, <2>1 DEF First
  <2>4. /\ DOMAIN dest' \subseteq todo' /\ DOMAIN legacy' \cap todo' = {f}
        /\ f \in DOMAIN legacy' \cap DOMAIN dest' /\ legacy'[f] = dest'[f] /\ todo' # {}
    BY <1>1, <1>2, <1>4, <1>7, <2>1, <2>2
  <2>5. UndoInv'
    BY <1>1, <1>2, <2>1, <2>2, <2>3, <2>4 DEF UndoInv, Undoing
  <2> QED BY <1>1, <1>2, <2>1, <2>5 DEF Safe, DiskInv, StepInv, Undoing
<1> QED BY <1>6, <1>7

LEMMA RemoveSafe == TypeOK /\ Safe /\ Uninterrupted /\ RemoveCopied => Safe'
<1> SUFFICES ASSUME TypeOK, Safe, Uninterrupted, RemoveCopied PROVE Safe'
    OBVIOUS
<1>1. PICK f : f = First(todo)
    OBVIOUS
<1>2. /\ pc = "remove" /\ schema = 2 /\ Complete /\ cmd = "rollback" /\ marker = NoMarker
      /\ f \in DOMAIN legacy /\ f \in DOMAIN dest /\ legacy[f] = dest[f]
      /\ DOMAIN dest \subseteq todo /\ DOMAIN legacy \cap todo = {f}
    BY <1>1 DEF Safe, RemoveCopied, UndoInv, Undoing
<1>3. ~Fault
    BY <1>2, NoUndoFault DEF Safe, Undoing
<1>4. /\ schema' = schema /\ marker' = marker /\ plan' = plan /\ user' = user /\ cmd' = cmd
      /\ legacy' = legacy /\ dest' = Drop(dest, f) /\ todo' = todo \ {f} /\ pc' = "copy"
    BY <1>1, <1>3 DEF RemoveCopied, Rest
<1>5. Complete' /\ DOMAIN dest' = DOMAIN dest \ {f}
    BY <1>2, <1>4, RemoveEffect
<1>6. DOMAIN dest' \subseteq todo' /\ DOMAIN legacy' \cap todo' = {}
    BY <1>2, <1>4, <1>5
<1> QED BY <1>2, <1>4, <1>5, <1>6 DEF Safe, DiskInv, UndoInv, StepInv, Undoing

LEMMA InitSafe == Init => Safe
<1> SUFFICES ASSUME Init PROVE Safe
    OBVIOUS
<1>1. PICK S \in SUBSET Files :
         /\ S # {} => Session \in S
         /\ \A s \in S \cap Sidecars : Main[s] \in S
         /\ legacy = [f \in S |-> {f}]
         /\ user = S
    BY DEF Init
<1>2. DOMAIN legacy = S /\ DOMAIN dest = {}
    BY <1>1 DEF Init
<1>3. user \subseteq Held(legacy)
    BY <1>1 DEF Held
<1>4. Untouched
    BY <1>1, <1>2, <1>3 DEF Untouched, Paired
<1>5. pc = "off" /\ schema = 1 /\ marker = NoMarker
    BY DEF Init
<1> QED BY <1>4, <1>5 DEF Safe, DiskInv, UndoInv, StepInv, Undoing

LEMMA StutterSafe == Safe /\ UNCHANGED vars => Safe'
<1> SUFFICES ASSUME Safe, UNCHANGED vars PROVE Safe'
    OBVIOUS
<1>1. /\ legacy' = legacy /\ dest' = dest /\ schema' = schema /\ marker' = marker /\ pc' = pc
      /\ cmd' = cmd /\ plan' = plan /\ todo' = todo /\ whole' = whole /\ user' = user
    BY DEF vars, disk, memory
<1>2. First(todo)' = First(todo)
    BY <1>1 DEF First
<1>3. /\ Untouched' <=> Untouched
      /\ Complete' <=> Complete
      /\ Moved' <=> Moved
      /\ Moving' <=> Moving
    BY <1>1, Same DEF Still
<1> QED BY <1>1, <1>2, <1>3 DEF Safe, DiskInv, UndoInv, StepInv, Undoing

LEMMA MigrationStep ==
    ASSUME Uninterrupted, MigrationInv, [Next]_vars
    PROVE  MigrationInv'
<1>1. TypeOK /\ Safe /\ Reading
    BY DEF MigrationInv, Safe, StepInv, Reading
<1>2. TypeOK'
  <2>1. legacy' \in Tree /\ dest' \in Tree /\ Scalars'
    BY <1>1, TreesKept, ScalarsKept
  <2> QED BY <2>1 DEF TypeOK, Scalars
<1>3. Safe'
  <2>1. CASE \/ Launch \/ AutoMigrate \/ ProbeFails \/ StampFresh \/ WriteMarker \/ MakeDirs
             \/ AbortRenames \/ WriteSchema \/ WriteActiveProfile \/ RemoveMarker \/ Recover
             \/ Stop \/ Crash \/ LaunchRollback \/ RemoveDirs \/ RemoveSchema \/ RemovePointer
    <3>1. Still /\ user' = user
        BY <2>1 DEF Still, Launch, AutoMigrate, ProbeFails, StampFresh, WriteMarker, MakeDirs,
                    AbortRenames, WriteSchema, WriteActiveProfile, RemoveMarker, Recover, Stop, Crash,
                    LaunchRollback, RemoveDirs, RemoveSchema, RemovePointer, disk
    <3> QED BY <1>1, <2>1, <3>1, StillSafe
  <2>2. CASE CheckpointSources
    BY <1>1, <2>2, CheckpointSafe
  <2>3. CASE RenamePlan
    BY <1>1, <2>3, RenameSafe
  <2>4. CASE RollbackRenames
    BY <1>1, <2>4, UnwindSafe
  <2>5. CASE FinishPartialRenames
    BY <1>1, <2>5, FinishSafe
  <2>6. CASE CleanupResidualSources
    BY <1>1, <2>6, CleanSafe
  <2>7. CASE OpenStores
    BY <1>1, <2>7, OpenSafe
  <2>8. CASE CopyBack
    BY <1>1, <2>8, CopySafe
  <2>9. CASE RemoveCopied
    BY <1>1, <2>9, RemoveSafe
  <2>10. CASE UNCHANGED vars
    BY <1>1, <2>10, StutterSafe
  <2> QED BY <2>1, <2>2, <2>3, <2>4, <2>5, <2>6, <2>7, <2>8, <2>9, <2>10 DEF Next, Work
<1> QED BY <1>2, <1>3 DEF MigrationInv

\* What the disk is worth to the next boot, and what each step of a running
\* migration, recovery or rollback knows beyond it, hold in every behaviour
\* in which no rollback is interrupted.
THEOREM MigrationInvHolds == ASSUME Uninterrupted PROVE Spec => []MigrationInv
<1>1. Init => MigrationInv
    BY InitTyped, InitSafe DEF MigrationInv
<1>2. MigrationInv /\ [Next]_vars => MigrationInv'
    BY MigrationStep
<1> QED BY <1>1, <1>2, PTL DEF Spec

\* Whichever system call fails and wherever the migration, its recovery or
\* the daemon's boot is killed, every piece the user had is in a file of the
\* one tree or of the other: autoMigrate's order of marker, renames, version
\* and cleanup loses nothing, for any files in any order.
THEOREM NoDataLostHolds == ASSUME Uninterrupted PROVE Spec => []NoDataLost
<1>1. MigrationInv => NoDataLost
  <2> SUFFICES ASSUME MigrationInv PROVE NoDataLost
    OBVIOUS
  <2>1. schema \in {1, 2}
    BY DEF MigrationInv, TypeOK
  <2>2. Untouched \/ Complete \/ Moved
    BY <2>1 DEF MigrationInv, Safe, DiskInv, UndoInv, Undoing, Moving
  <2> QED BY <2>2 DEF NoDataLost, Untouched, Complete, Moved
<1> QED BY <1>1, MigrationInvHolds, PTL

\* Version 2 without a marker means that nothing of the user's is left in
\* the old tree: abortRenames and Recover never hide a half-migrated tree.
THEOREM HalfMigratedIsMarkedHolds == ASSUME Uninterrupted PROVE Spec => []HalfMigratedIsMarked
<1>1. MigrationInv => HalfMigratedIsMarked
  <2> SUFFICES ASSUME MigrationInv, schema = 2, marker = NoMarker, cmd # "rollback"
               PROVE  user \cap Held(legacy) = {}
    BY DEF HalfMigratedIsMarked
  <2>1. Moved
    BY DEF MigrationInv, Safe, DiskInv, UndoInv
  <2>2. Held(legacy) = {}
    BY <2>1, HeldNone DEF Moved
  <2> QED BY <2>2
<1> QED BY <1>1, MigrationInvHolds, PTL

\* Whenever the daemon is up on one of the user's databases, the pages of
\* its write-ahead log are in the profile too: neither a checkpoint, a half
\* finished plan nor openStores parts the two.
THEOREM LogFollowsDatabaseHolds == ASSUME Uninterrupted PROVE Spec => []LogFollowsDatabase
<1>1. MigrationInv => LogFollowsDatabase
  <2> SUFFICES ASSUME MigrationInv, pc = "up", NEW s \in Sidecars \cap user, Main[s] \in Held(dest)
               PROVE  s \in Held(dest)
    BY DEF LogFollowsDatabase
  <2>1. schema \in {1, 2}
    BY DEF MigrationInv, TypeOK
  <2>2. Untouched \/ Moved
    BY <2>1 DEF MigrationInv, Safe, DiskInv, StepInv, Undoing
  <2>3. ~Untouched
    BY HeldIn DEF Untouched
  <2> QED BY <2>2, <2>3 DEF Moved
<1> QED BY <1>1, MigrationInvHolds, PTL
=============================================================================
