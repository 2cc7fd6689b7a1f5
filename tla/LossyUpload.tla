---------------------------- MODULE LossyUpload ----------------------------
(***************************************************************************)
(* What the event upload of bypass-guard promises, and no more: every      *)
(* event is offered once; an offered event is either refused or becomes    *)
(* pending; a pending event is stored by the Console or lost, once and for *)
(* all.  There is no acknowledgement, no order and no promise of delivery, *)
(* but nothing is ever stored twice and nothing is stored that was lost.   *)
(***************************************************************************)
CONSTANT Ids

VARIABLES offered,  \* ids of the events handed to the upload so far
          pending,  \* those that may still reach the Console
          stored    \* those the Console has

uvars == <<offered, pending, stored>>

UInit == offered = {} /\ pending = {} /\ stored = {}

Offer(i) ==
  /\ i \in Ids \ offered
  /\ offered' = offered \cup {i}
  /\ \/ pending' = pending \cup {i}
     \/ pending' = pending
  /\ UNCHANGED stored

Store(B) ==
  /\ B \subseteq pending
  /\ stored' = stored \cup B
  /\ pending' = pending \ B
  /\ UNCHANGED offered

Lose(B) ==
  /\ B \subseteq pending
  /\ pending' = pending \ B
  /\ UNCHANGED <<offered, stored>>

UNext ==
  \/ \E i \in Ids : Offer(i)
  \/ \E B \in SUBSET pending : Store(B) \/ Lose(B)

USpec == UInit /\ [][UNext]_uvars
=============================================================================
