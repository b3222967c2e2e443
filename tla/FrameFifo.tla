------------------------------ MODULE FrameFifo ------------------------------
(***************************************************************************)
(* What a ring of descriptors promises, in either direction: frames leave  *)
(* it one at a time in the order in which they came, each once; all of     *)
(* them, unless everything that waits is discarded at once.  It promises   *)
(* nothing more once it is spoilt, and while it is stalled, frames that    *)
(* wait may go on waiting.                                                 *)
(***************************************************************************)
EXTENDS Sequences

CONSTANTS Frames, NoFrame,
          MayDiscard   \* whether the waiting frames may be given up

VARIABLES waiting,  \* frames in the ring, oldest first
          handled,  \* the one that is being handled
          spoilt,   \* a failure of the program, which it names, has happened
          stalled   \* the program has not been told of the frames that wait

fvars == <<waiting, handled>>

FifoInit == waiting = <<>> /\ handled = NoFrame

Arrive(f) == waiting' = Append(waiting, f) /\ UNCHANGED handled

Begin ==
  /\ handled = NoFrame
  /\ waiting # <<>>
  /\ handled' = Head(waiting)
  /\ UNCHANGED waiting

End ==
  /\ handled # NoFrame
  /\ waiting' = Tail(waiting)
  /\ handled' = NoFrame

Discard ==
  /\ MayDiscard
  /\ handled = NoFrame
  /\ waiting' = <<>>
  /\ UNCHANGED handled

FifoNext == (\E f \in Frames : Arrive(f)) \/ Begin \/ End \/ Discard

\* A frame that is not discarded is handled.  What is spoilt is stalled as well.
FifoSpec == FifoInit /\ [][spoilt' \/ FifoNext]_fvars
            /\ WF_fvars(~stalled /\ (Begin \/ Discard)) /\ WF_fvars(~spoilt /\ End)
==============================================================================
