-------------------------------- MODULE Grant --------------------------------
(***************************************************************************)
(* What a delegation chain may become: a grant starts with a subject and   *)
(* nobody acting for it; extending it adds one actor in front, keeps the   *)
(* subject, and never lets it last longer.                                 *)
(***************************************************************************)
EXTENDS Integers, Sequences

VARIABLE grants  \* records [sub, actors, until]

Init == grants = {}

Start == \E g \in grants' : /\ g.actors = <<>>
                            /\ grants' = grants \cup {g}

Extend == \E g \in grants, h \in grants' :
            /\ h.sub = g.sub
            /\ h.actors # <<>>
            /\ Tail(h.actors) = g.actors
            /\ h.until <= g.until
            /\ grants' = grants \cup {h}

Next == Start \/ Extend

Spec == Init /\ [][Next]_grants
=============================================================================
