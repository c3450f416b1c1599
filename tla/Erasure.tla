------------------------------ MODULE Erasure ------------------------------
(***************************************************************************)
(* What Trilith promises about erasure, with no word about tiers, scopes,  *)
(* callers, summaries or triggers.                                         *)
(*                                                                         *)
(* A piece of content is submitted once, to one place, its home.  It may   *)
(* be copied to other places, but only while its home still holds it; when *)
(* its home loses it, by deletion or by replacement, every copy is gone in *)
(* the same step, and it never comes back.                                 *)
(***************************************************************************)
EXTENDS Naturals

CONSTANT Keys

VARIABLES
  minted,   \* pieces submitted so far
  held      \* the pieces each place holds; a piece is <<home, number>>

AllAtHome(h) == \A k \in Keys : \A piece \in h[k] : piece \in h[piece[1]]

KeptOrGone(k) == held'[k] \in {held[k], {}}

Init == minted = 0 /\ held = [k \in Keys |-> {}]

Submit(k) ==
  /\ minted' = minted + 1
  /\ held'[k] = {<<k, minted + 1>>}
  /\ \A j \in Keys \ {k} : KeptOrGone(j)

Refuse ==
  /\ minted' = minted + 1
  /\ held' = held

Copy(k) ==
  /\ \E from \in SUBSET (Keys \ {k}) : held'[k] = UNION {held[j] : j \in from}
  /\ \A j \in Keys \ {k} : KeptOrGone(j)
  /\ minted' = minted

Erase ==
  /\ \A j \in Keys : KeptOrGone(j)
  /\ minted' = minted

Next ==
  /\ held' \in [Keys -> SUBSET (Keys \X (1..minted'))]
  /\ \/ \E k \in Keys : Submit(k) \/ Copy(k)
     \/ Refuse
     \/ Erase
  /\ AllAtHome(held')

Spec == Init /\ [][Next]_<<minted, held>>
=============================================================================
