------------------------------- MODULE FramePool -------------------------------
(***************************************************************************)
(* What a FrameAllocator promises (the trait of the x86_64 crate that both *)
(* memory/bump.rs and memory/buddy.rs implement): every whole usable frame *)
(* can be handed out, to one owner at a time, and a request is refused     *)
(* only when none is left.                                                 *)
(***************************************************************************)
VARIABLES
  frames,  \* the frames the memory map lets the kernel use; it never changes
  unused,
  out

vars == <<frames, unused, out>>

Init == unused = frames /\ out = {}

Take(f) == f \in unused /\ unused' = unused \ {f} /\ out' = out \cup {f}

Give(f) == f \in out /\ out' = out \ {f} /\ unused' = unused \cup {f}

Next == frames' = frames /\ \E f \in frames : Take(f) \/ Give(f)

Spec == Init /\ [][Next]_vars
=============================================================================
