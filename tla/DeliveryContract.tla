--------------------------- MODULE DeliveryContract ---------------------------
(***************************************************************************)
(* What a transport promises its two users: messages accepted from the     *)
(* producer are handed to the consumer in the order they were accepted.    *)
(* Two constants say how far a transport may fall short of exactly once.   *)
(***************************************************************************)
EXTENDS Naturals, Sequences

CONSTANTS
  Messages,
  MayRepeat,  \* the message handed over last may be handed over again
  MayLose     \* accepted messages may be dropped, never reordered

VARIABLES
  accepted,   \* messages accepted so far, oldest first
  cursor,     \* number of accepted messages handed over or dropped
  handed      \* what the consumer was handed, oldest first

cvars == <<accepted, cursor, handed>>

CInit == accepted = << >> /\ cursor = 0 /\ handed = << >>

Accept ==
  /\ \E m \in Messages : accepted' = Append(accepted, m)
  /\ UNCHANGED <<cursor, handed>>

Hand ==
  /\ \E next \in (cursor + 1) .. Len(accepted) :
       /\ next = cursor + 1 \/ MayLose
       /\ cursor' = next
       /\ handed' = Append(handed, accepted[next])
  /\ UNCHANGED accepted

Repeat ==
  /\ MayRepeat
  /\ cursor > 0
  /\ handed' = Append(handed, accepted[cursor])
  /\ UNCHANGED <<accepted, cursor>>

CNext == Accept \/ Hand \/ Repeat

CSpec == CInit /\ [][CNext]_cvars
=============================================================================
