------------------------------ MODULE RgaCrop ------------------------------
(***************************************************************************)
(* Tracker::crop of rknnnanotrack (src/nanotracker/gstrknnnanotrack.cpp)   *)
(* and the two image buffers it fills.  The NPU and the RGA read and write *)
(* the memory of a buffer, the CPU through a cache that rknn_mem_sync      *)
(* keeps coherent; the cache may write a line back by itself at any time.  *)
(*                                                                         *)
(* For each buffer, `device' is what the NPU would read, and `dirty' what  *)
(* the cache has not written back: the crop of "this" frame, as a whole,   *)
(* or "other" pixels (an earlier frame, zeros, a mixture).                 *)
(***************************************************************************)
VARIABLES
    image,      \* template_image and search_image
    use_rga

Buffers == {"template", "search"}
Image == [device : {"this", "other"}, dirty : {"none", "this", "other"}]

CropTypeOK == /\ image \in [Buffers -> Image]
              /\ use_rga \in BOOLEAN

\* Before there is a Tracker.
NoImages == [b \in Buffers |-> [device |-> "other", dirty |-> "none"]]

\* Fresh buffers, cleared by the CPU.
Cleared == [b \in Buffers |-> [device |-> "other", dirty |-> "other"]]

\* Nothing in a buffer is of the next frame.
Aged(images) ==
    [b \in Buffers |-> [device |-> "other",
                        dirty |-> IF images[b].dirty = "none" THEN "none" ELSE "other"]]

\* The cache writes dirty lines back, all of them or some.
WriteBack(b) ==
    /\ image[b].dirty # "none"
    /\ \/ image' = [image EXCEPT ![b] = [device |-> @.dirty, dirty |-> "none"]]
       \/ image' = [image EXCEPT ![b].device = IF @ = image[b].dirty THEN @ ELSE "other"]
    /\ UNCHANGED use_rga

\* rknn_mem_sync TO_DEVICE.
Flush(b) ==
    /\ image' = [image EXCEPT ![b] =
                    [device |-> IF @.dirty = "none" THEN @.device ELSE @.dirty,
                     dirty |-> "none"]]
    /\ UNCHANGED use_rga

\* Mutant: the buffer is not flushed before the RGA writes it.
SyncBeforeRgaMissing(b) == UNCHANGED <<image, use_rga>>

SyncBeforeRga(b) == Flush(b)

RgaWrites(b) ==
    /\ image' = [image EXCEPT ![b].device = "this"]
    /\ UNCHANGED use_rga

\* imresize fails half way, and the RGA is not used again.
RgaFails(b) ==
    /\ image' = [image EXCEPT ![b].device = "other"]
    /\ use_rga' = FALSE

\* A buffer cannot be imported into the RGA.
RgaImportFails ==
    /\ use_rga' = FALSE
    /\ UNCHANGED image

\* FROM_DEVICE: the cache forgets what it has.
SyncBeforeCpu(b) ==
    /\ image' = [image EXCEPT ![b].dirty = "none"]
    /\ UNCHANGED use_rga

\* The CPU clears and scales.  A failure leaves a mixture.
CpuWrites(b, pixels) ==
    /\ image' = [image EXCEPT ![b].dirty = pixels]
    /\ UNCHANGED use_rga

SyncAfterCpu(b) == Flush(b)
=============================================================================
