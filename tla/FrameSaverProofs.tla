-------------------------- MODULE FrameSaverProofs --------------------------
(* Theorems about FrameSaver, for every set of sizes and any padding.      *)
EXTENDS FrameSaver, TLAPS

-----------------------------------------------------------------------------
(* Types, and the number of surfaces.                                      *)

(* ProcessFrame has a frame, and from Transform on a surface for it; there *)
(* is none before the first size is known.                                 *)
HasFrame ==
  /\ pc = "new" => dst_surf = Null
  /\ pc \in {"allocate", "transform", "map", "save"} => announced \in Sizes
  /\ pc \in {"transform", "map", "save"} => dst_surf # Null

(* The types alone are not inductive: Destroy subtracts from surfaces, and *)
(* Save writes what dst_surf is.                                           *)
LeakInv == TypeOK /\ NothingLeaks /\ HasFrame

(* What a destroy leaves, when no more is given up than there is.          *)
LEMMA Given ==
  ASSUME LeakInv, NEW n \in Nat, NEW made \in Nat, n <= Held + made, Destroy(n, made)
  PROVE  /\ lost' \in 0..MaxLost /\ surfaces' \in Nat
         /\ surfaces' = lost' + (Held + made - n)
<1>1. lost \in Nat /\ MaxLost \in Nat /\ surfaces = lost + Held /\ Held \in Nat
  BY SaverAssumption DEF LeakInv, TypeOK, NothingLeaks, Held
<1>2. PICK k \in 0..n : /\ lost + k <= MaxLost
                        /\ lost' = lost + k
                        /\ surfaces' = surfaces + made - n + k
  BY DEF Destroy
<1> QED BY <1>1, <1>2

(* What is done about the surface leaves those that are lost, and the one  *)
(* dst_surf' names.                                                        *)
Accounted ==
  /\ dst_surf' \in AllSizes \cup {Null}
  /\ surfaces' \in Nat /\ lost' \in 0..MaxLost
  /\ surfaces' = lost' + Held'

LEMMA SurfaceCounted ==
  ASSUME LeakInv, NEW size \in AllSizes,
         ReleaseResources \/ AllocateDstBuffer(size) \/ AllocateFails
  PROVE  Accounted
<1>1. Held \in Nat /\ Held + 1 \in Nat /\ Held + 0 - Held = 0
      /\ Held + 1 - (Held + 1) = 0 /\ Held + 1 - Held = 1 /\ Held <= Held + 1
  BY DEF Held
<1>2. size # Null
  BY SaverAssumption
<1>3. CASE ReleaseResources \/ AllocateFails
  <2>1. Destroy(Held, 0) \/ Destroy(Held + 1, 1)
    BY <1>3 DEF ReleaseResources, AllocateFails
  <2>2. /\ lost' \in 0..MaxLost /\ surfaces' \in Nat
        /\ surfaces' = lost' + 0
    BY <1>1, <2>1, Given
  <2>3. dst_surf' = Null /\ Held' = 0
    BY <1>3 DEF ReleaseResources, AllocateFails, Held
  <2> QED BY <2>2, <2>3 DEF Accounted
<1>4. CASE AllocateDstBuffer(size)
  <2>1. /\ lost' \in 0..MaxLost /\ surfaces' \in Nat
        /\ surfaces' = lost' + 1
    BY <1>1, <1>4, Given DEF AllocateDstBuffer
  <2>2. dst_surf' = size /\ Held' = 1
    BY <1>2, <1>4 DEF AllocateDstBuffer, Held
  <2> QED BY <2>1, <2>2 DEF Accounted
<1> QED BY <1>3, <1>4

LEMMA LeakInit == Init => LeakInv
BY SaverAssumption DEF Init, LeakInv, TypeOK, NothingLeaks, Held, HasFrame, AllSizes

LEMMA LeakStep == LeakInv /\ [Next]_vars => LeakInv'
<1> SUFFICES ASSUME LeakInv, [Next]_vars PROVE LeakInv'
  OBVIOUS
<1>0. Zero \in AllSizes /\ (announced \in Sizes => Source \in AllSizes /\ Source # Null)
  BY SaverAssumption DEF AllSizes, Source
<1>1. CASE FirstSize
  BY <1>1 DEF FirstSize, LeakInv, TypeOK, NothingLeaks, Held, HasFrame
<1>2. ASSUME NEW size \in Sizes \cup {Zero}, OnResolutionChange(size)
      PROVE  LeakInv'
  <2>1. size \in AllSizes
    BY DEF AllSizes
  <2>2. Accounted
    BY <1>2, <2>1, SurfaceCounted DEF OnResolutionChange
  <2> QED BY <1>2, <2>2
          DEF OnResolutionChange, Accounted, LeakInv, TypeOK, NothingLeaks, Held, HasFrame
<1>3. CASE Process
  BY <1>3 DEF Process, NeedsBuffer, LeakInv, TypeOK, NothingLeaks, Held, HasFrame
<1>4. CASE Reallocate
  <2>1. Source \in AllSizes /\ Source # Null
    BY <1>0, <1>4 DEF Reallocate, LeakInv, HasFrame
  <2>2. Accounted
    BY <1>4, <2>1, SurfaceCounted DEF Reallocate
  <2> QED BY <1>4, <2>1, <2>2
          DEF Reallocate, AllocateDstBuffer, Accounted, LeakInv, TypeOK, NothingLeaks, Held, HasFrame
<1>5. CASE ReallocateFails
  <2>1. Accounted
    BY <1>0, <1>5, SurfaceCounted DEF ReallocateFails
  <2>2. dst_surf' = Null
    BY <1>5 DEF ReallocateFails, AllocateFails
  <2> QED BY <1>5, <2>1, <2>2 DEF ReallocateFails, Accounted, LeakInv, TypeOK, NothingLeaks, Held, HasFrame
<1>6. CASE Transform
  BY <1>6 DEF Transform, LeakInv, TypeOK, NothingLeaks, Held, HasFrame
<1>7. CASE Map
  BY <1>7 DEF Map, LeakInv, TypeOK, NothingLeaks, Held, HasFrame
<1>8. CASE Save
  <2>1. [name |-> announced, size |-> dst_surf] \in [name : Sizes, size : AllSizes]
    BY <1>8 DEF Save, LeakInv, TypeOK, HasFrame
  <2> QED BY <1>8, <2>1 DEF Save, LeakInv, TypeOK, NothingLeaks, Held, HasFrame
<1>9. CASE SaveFails
  BY <1>9 DEF SaveFails, LeakInv, TypeOK, NothingLeaks, Held, HasFrame
<1>10. CASE Destroyed
  <2>1. Accounted
    BY <1>0, <1>10, SurfaceCounted DEF Destroyed
  <2>2. dst_surf' = Null
    BY <1>10 DEF Destroyed, ReleaseResources
  <2> QED BY <1>10, <2>1, <2>2 DEF Destroyed, Accounted, LeakInv, TypeOK, NothingLeaks, Held, HasFrame
<1>11. CASE UNCHANGED vars
  BY <1>11 DEF vars, LeakInv, TypeOK, NothingLeaks, Held, HasFrame
<1> QED
  BY <1>1, <1>2, <1>3, <1>4, <1>5, <1>6, <1>7, <1>8, <1>9, <1>10, <1>11
  DEF Next, ProcessNoSource

(* The types of Nv12FrameSaver's state hold, for any set of frame sizes.   *)
THEOREM TypeCorrect == Spec => []TypeOK
<1>1. LeakInv => TypeOK
  BY DEF LeakInv
<1> QED BY <1>1, LeakInit, LeakStep, PTL DEF Spec

(* No error path of Nv12FrameSaver forgets a surface that it has not tried *)
(* to destroy, or leaves one mapped.                                       *)
THEOREM NothingLeaksCorrect == Spec => []NothingLeaks
<1>1. LeakInv => NothingLeaks
  BY DEF LeakInv
<1> QED BY <1>1, LeakInit, LeakStep, PTL DEF Spec

-----------------------------------------------------------------------------
(* The sizes of the files.                                                 *)

(* The surface kept between frames is that of the last frame that had one  *)
(* made, or of the last announcement: frame_info_ alone does not say which.*)
Kept == dst_surf # Null => dst_surf \in {frame_info, announced}

(* The surface chosen for a frame is of its size, padded or not.           *)
Fits == pc \in {"transform", "map", "save"} => dst_surf \in {announced, Source}

FitInv == Kept /\ Fits /\ FileMatchesFrame

LEMMA FitStep == LeakInv /\ FitInv /\ [Next]_vars => FitInv'
<1> SUFFICES ASSUME LeakInv, FitInv, [Next]_vars PROVE FitInv'
  OBVIOUS
<1> USE DEF FitInv, Kept, Fits
<1>1. CASE FirstSize
  BY <1>1 DEF FirstSize, FileMatchesFrame, LeakInv, HasFrame
<1>2. ASSUME NEW size \in Sizes \cup {Zero}, OnResolutionChange(size)
      PROVE  FitInv'
  BY <1>2 DEF OnResolutionChange, AllocateDstBuffer, AllocateFails,
              ReleaseResources, FileMatchesFrame
<1>3. CASE Process
  BY <1>3 DEF Process, NeedsBuffer, Source, FileMatchesFrame
<1>4. CASE Reallocate
  BY <1>4 DEF Reallocate, AllocateDstBuffer, Source, FileMatchesFrame
<1>5. CASE ReallocateFails
  BY <1>5 DEF ReallocateFails, AllocateFails, ReleaseResources, FileMatchesFrame
<1>6. CASE Transform
  BY <1>6 DEF Transform, Source, FileMatchesFrame
<1>7. CASE Map
  BY <1>7 DEF Map, Source, FileMatchesFrame
<1>8. CASE Save
  BY <1>8 DEF Save, Source, FileMatchesFrame
<1>9. CASE SaveFails
  BY <1>9 DEF SaveFails, FileMatchesFrame
<1>10. CASE Destroyed
  BY <1>10 DEF Destroyed, ReleaseResources, FileMatchesFrame
<1>11. CASE UNCHANGED vars
  BY <1>11 DEF vars, Source, FileMatchesFrame
<1> QED
  BY <1>1, <1>2, <1>3, <1>4, <1>5, <1>6, <1>7, <1>8, <1>9, <1>10, <1>11
  DEF Next, ProcessNoSource

(* Every file Nv12FrameSaver writes is of the resolution it is named for,  *)
(* however often the resolution changes and whatever fails on the way.     *)
THEOREM FileMatchesFrameCorrect == Spec => []FileMatchesFrame
<1>1. Init => FitInv
  BY DEF Init, FitInv, Kept, Fits, FileMatchesFrame
<1>2. FitInv => FileMatchesFrame
  BY DEF FitInv
<1> QED BY <1>1, <1>2, LeakInit, LeakStep, FitStep, PTL DEF Spec
=============================================================================
