------------------------------- MODULE MCSegment -------------------------------
(***************************************************************************)
(* Instances of Segment for TLC: a producer and a consumer that may both   *)
(* create, an attacher that infers the size, an observer, and a read of    *)
(* the options of an existing segment.                                     *)
(***************************************************************************)
EXTENDS Segment

Want(create, item, cap) == [create |-> create, item |-> item, cap |-> cap]

\* Both shapes that can be created, one whose items do not fill the capacity, and
\* an attacher that takes the capacity it finds.
MixedWants == {Want(TRUE, 2, 4), Want(TRUE, 3, 6), Want(TRUE, 3, 4), Want(FALSE, 2, 0)}

================================================================================
