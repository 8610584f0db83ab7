----------------------- MODULE NewestRevisionDelivery -----------------------
(***************************************************************************)
(* What the translation pipeline promises its audience, with no queue, no  *)
(* turn and no worker: per language and cue there is a newest accepted     *)
(* version, only that version is ever delivered, and a sealed version is   *)
(* eventually delivered. A clear makes everything accepted before it       *)
(* undeliverable.                                                          *)
(***************************************************************************)
EXTENDS Naturals

CONSTANTS Languages, Units, Revisions

VARIABLES
    accepted,   \* newest accepted version of each cue, per language
    delivered   \* newest delivered version of each cue, per language

vars == <<accepted, delivered>>

Nothing == [lang \in Languages |->
               [unit \in Units |-> [rev |-> 0, final |-> FALSE]]]

Init == accepted = Nothing /\ delivered = Nothing

(* A newer revision of a cue that is not sealed yet. *)
AcceptVersion(lang, unit) ==
    /\ ~accepted[lang][unit].final
    /\ \E rev \in Revisions, final \in BOOLEAN :
         /\ rev > accepted[lang][unit].rev
         /\ accepted' = [accepted EXCEPT ![lang][unit] =
                             [rev |-> rev, final |-> final]]
    /\ UNCHANGED delivered

Deliver(lang, unit) ==
    /\ accepted[lang][unit] # delivered[lang][unit]
    /\ delivered' = [delivered EXCEPT ![lang][unit] = accepted[lang][unit]]
    /\ UNCHANGED accepted

DeliverSealed(lang, unit) == accepted[lang][unit].final /\ Deliver(lang, unit)

Forget == accepted' = Nothing /\ delivered' = Nothing

Next ==
    \/ \E lang \in Languages, unit \in Units :
          AcceptVersion(lang, unit) \/ Deliver(lang, unit)
    \/ Forget

Spec == Init /\ [][Next]_vars
FairSpec == /\ Spec
            /\ \A lang \in Languages, unit \in Units :
                   WF_vars(DeliverSealed(lang, unit))

=============================================================================
