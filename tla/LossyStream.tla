---------------------------- MODULE LossyStream ----------------------------
(***************************************************************************)
(* What the input path promises: items arrive numbered, in batches, at an  *)
(* entrance.  There each is accepted or refused, in its turn; what is      *)
(* accepted is neither lost nor doubled and leaves in the order in which   *)
(* it arrived.                                                             *)
(***************************************************************************)
EXTENDS Naturals, Sequences

CONSTANT Item         (* records that carry the number they arrived with, no *)

VARIABLES
  transit,      (* the items accepted and not yet taken                     *)
  entrance,     (* the items of the batch not yet accepted or refused       *)
  newest        (* the number of the last arrival                           *)

stream == <<transit, entrance, newest>>

Init == transit = <<>> /\ entrance = <<>> /\ newest = 0

Arrive ==
  /\ entrance = <<>>
  /\ entrance' \in Seq(Item)
  /\ \A i \in 1..Len(entrance') : entrance'[i].no = newest + i
  /\ newest' = newest + Len(entrance')
  /\ UNCHANGED transit

(* A number goes to something that does not pass through here.             *)
Elsewhere == newest' = newest + 1 /\ UNCHANGED <<transit, entrance>>

Accept ==
  /\ entrance # <<>>
  /\ transit' = Append(transit, Head(entrance))
  /\ entrance' = Tail(entrance)
  /\ UNCHANGED newest

Refuse ==
  /\ entrance # <<>>
  /\ entrance' = Tail(entrance)
  /\ UNCHANGED <<transit, newest>>

Take ==
  /\ transit # <<>>
  /\ transit' = Tail(transit)
  /\ UNCHANGED <<entrance, newest>>

Next == Arrive \/ Elsewhere \/ Accept \/ Refuse \/ Take

Spec == Init /\ [][Next]_stream
=============================================================================
