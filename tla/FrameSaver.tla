----------------------------- MODULE FrameSaver -----------------------------
(***************************************************************************)
(* core/Nv12FrameSaver: the frame processor of the program.  It converts   *)
(* each frame into a destination surface, which it keeps from frame to     *)
(* frame, maps it and writes it to a file.                                 *)
(*                                                                         *)
(* Its caller is the capture thread of VideoDecoder, which announces the   *)
(* size of the frames (width_ and height_) in OnResolutionChange, except   *)
(* for the first: that one is seen in the frames only.  A frame's surface  *)
(* may be larger than the size announced.  Surfaces are represented by     *)
(* their sizes.  The calls of the NvBufSurface library succeed or fail,    *)
(* and NvBufSurf::NvDestroy, which has to get the surface from its fd once *)
(* more, may destroy nothing and say so to nobody.  A failing UnMap leaves *)
(* no trace in the state: mapped counts the mappings it was not called for.*)
(***************************************************************************)
EXTENDS Naturals

CONSTANTS
  Sizes,          \* frame sizes the stream can have
  Actual(_),      \* planeParams of a frame's surface, given the size announced
  Zero,           \* 0x0
  Null,           \* no surface
  MaxLost         \* bound: how many destroys fail

AllSizes == Sizes \cup {Actual(s) : s \in Sizes} \cup {Zero}

ASSUME SaverAssumption ==
  /\ Null \notin AllSizes
  /\ MaxLost \in Nat
  /\ Zero \notin Sizes
  /\ \A s \in Sizes : Actual(s) # Zero

VARIABLES
  pc,             \* where ProcessFrame is
  announced,      \* width_ and height_ of the decoder
  dst_surf,       \* dst_surf_
  surfaces,       \* how many destination surfaces exist
  lost,           \* how many of them a destroy has failed for
  mapped,         \* how many mappings there are that were not unmapped
  frame_info,     \* width and height of Impl::frame_info_
  files           \* the files: the size they are named for, and their own

vars == <<pc, announced, dst_surf, surfaces, lost, mapped, frame_info, files>>

TypeOK ==
  /\ pc \in {"new", "idle", "allocate", "transform", "map", "save", "destroyed"}
  /\ announced \in Sizes \cup {Zero}
  /\ dst_surf \in AllSizes \cup {Null}
  /\ surfaces \in Nat /\ lost \in 0..MaxLost
  /\ mapped \in Nat
  /\ frame_info \in AllSizes
  /\ files \subseteq [name : Sizes, size : AllSizes]

Init ==
  /\ pc = "new"
  /\ announced = Zero
  /\ dst_surf = Null
  /\ surfaces = 0 /\ lost = 0
  /\ mapped = 0
  /\ frame_info = Zero
  /\ files = {}

-----------------------------------------------------------------------------
(* The destination surface.                                                *)

Held == IF dst_surf = Null THEN 0 ELSE 1

(* Of n surfaces, the ones just made included, that are given up, some are *)
(* not destroyed: the result is not looked at, and they are forgotten.     *)
Destroy(n, made) ==
  \E k \in 0..n :
    /\ lost + k <= MaxLost
    /\ lost' = lost + k
    /\ surfaces' = surfaces + made - n + k

ReleaseResources ==
  /\ dst_surf' = Null
  /\ Destroy(Held, 0)

AllocateDstBuffer(size) ==
  /\ dst_surf' = size
  /\ Destroy(Held, 1)

(* Defect: the old surface is released only when there is a new one.       *)
AllocateKeepsOld == UNCHANGED <<dst_surf, surfaces, lost>>

(* Defect: no destroy for a surface that cannot be had from its fd.        *)
AllocateForgets ==
  /\ dst_surf' = Null
  /\ Destroy(Held, 0) \/ Destroy(Held, 1)

(* NvAllocate fails, or the surface cannot be had from its fd and is given *)
(* up as well; the old surface has been released in either case.           *)
AllocateFails ==
  /\ dst_surf' = Null
  /\ Destroy(Held, 0) \/ Destroy(Held + 1, 1)

-----------------------------------------------------------------------------
(* The calls of the capture thread.                                        *)

(* It has its first buffers, or goes on without (an event that failed).    *)
FirstSize ==
  /\ pc = "new"
  /\ pc' = "idle"
  /\ announced' \in Sizes \cup {Zero}
  /\ UNCHANGED <<dst_surf, surfaces, lost, mapped, frame_info, files>>

(* 0x0 is announced when the format of the stream cannot be read.          *)
OnResolutionChange(size) ==
  /\ pc = "idle"
  /\ announced' = size
  /\ AllocateDstBuffer(size) \/ AllocateFails
  /\ UNCHANGED <<pc, mapped, frame_info, files>>

Source == Actual(announced)

NeedsBuffer == dst_surf = Null \/ Source # frame_info

(* ProcessFrame, up to the choice of the destination surface.              *)
Process ==
  /\ pc = "idle"
  /\ announced \in Sizes
  /\ pc' = IF NeedsBuffer THEN "allocate" ELSE "transform"
  /\ UNCHANGED <<announced, dst_surf, surfaces, lost, mapped, frame_info, files>>

(* The surface of the frame cannot be had from its fd.                     *)
ProcessNoSource ==
  /\ pc = "idle"
  /\ announced \in Sizes
  /\ UNCHANGED vars

Reallocate ==
  /\ pc = "allocate"
  /\ pc' = "transform"
  /\ AllocateDstBuffer(Source)
  /\ frame_info' = Source
  /\ UNCHANGED <<announced, mapped, files>>

(* Defect: the result of AllocateDstBuffer is not looked at.               *)
ReallocateUnchecked ==
  /\ pc = "allocate"
  /\ pc' = "transform"
  /\ AllocateFails
  /\ frame_info' = Source
  /\ UNCHANGED <<announced, mapped, files>>

ReallocateFails ==
  /\ pc = "allocate"
  /\ pc' = "idle"
  /\ AllocateFails
  /\ UNCHANGED <<announced, mapped, frame_info, files>>

Transform ==
  /\ pc = "transform"
  /\ pc' \in {"map", "idle"}       \* done, or it fails
  /\ UNCHANGED <<announced, dst_surf, surfaces, lost, mapped, frame_info, files>>

Map ==
  /\ pc = "map"
  /\ \/ pc' = "save" /\ mapped' = mapped + 1
     \/ pc' = "idle" /\ UNCHANGED mapped
  /\ UNCHANGED <<announced, dst_surf, surfaces, lost, frame_info, files>>

Save ==
  /\ pc = "save"
  /\ pc' = "idle"
  /\ files' = files \cup {[name |-> announced, size |-> dst_surf]}
  /\ mapped' = mapped - 1
  /\ UNCHANGED <<announced, dst_surf, surfaces, lost, frame_info>>

(* The file cannot be opened.                                              *)
SaveFails ==
  /\ pc = "save"
  /\ pc' = "idle"
  /\ mapped' = mapped - 1
  /\ UNCHANGED <<announced, dst_surf, surfaces, lost, frame_info, files>>

(* The destructor.  Deinit, which Stop() calls before, does nothing here.  *)
Destroyed ==
  /\ pc \in {"new", "idle"}
  /\ pc' = "destroyed"
  /\ ReleaseResources
  /\ UNCHANGED <<announced, mapped, frame_info, files>>

Next ==
  \/ FirstSize
  \/ \E size \in Sizes \cup {Zero} : OnResolutionChange(size)
  \/ Process \/ ProcessNoSource \/ Reallocate \/ ReallocateFails
  \/ Transform \/ Map \/ Save \/ SaveFails
  \/ Destroyed

Spec == Init /\ [][Next]_vars

-----------------------------------------------------------------------------
(* Properties.                                                             *)

(* A file is named for the size of its frame, and has that size or the     *)
(* size of the frame's surface: the surface kept from an earlier frame, or *)
(* made for an announcement, is never one of another resolution, whichever *)
(* allocations fail in between.                                            *)
FileMatchesFrame == \A f \in files : f.size \in {f.name, Actual(f.name)}

(* A destination surface that exists is the one dst_surf_ points to, or    *)
(* one that a destroy was tried on and failed: no error path just forgets  *)
(* one.  A surface is mapped during ProcessFrame only, so none is ever     *)
(* replaced while it is mapped, nor mapped twice, on any error path; the   *)
(* destructor keeps none.                                                  *)
NothingLeaks ==
  /\ surfaces = lost + Held
  /\ mapped = IF pc = "save" THEN 1 ELSE 0
  /\ pc = "destroyed" => dst_surf = Null
=============================================================================
