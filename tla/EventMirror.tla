----------------------------- MODULE EventMirror -----------------------------
(***************************************************************************)
(* What the event store promises its readers: at every moment it shows     *)
(* exactly the events of one history, for one deployment.  It follows a    *)
(* longer history, or retreats to an earlier point of the one it followed. *)
(***************************************************************************)
EXTENDS Naturals, Sequences

CONSTANTS
    Content, Deployment,
    EventsIn(_, _)      \* the events of a history for a deployment

VARIABLES followed, owner, shown

Shows(h, d) == followed' = h /\ owner' = {d} /\ shown' = EventsIn(h, d)

Init == followed = <<>> /\ owner = {} /\ shown = {}

(* No block that is followed is skipped: the new history extends the old one. *)
Follow ==
    \E d \in Deployment :
      /\ owner \in {{}, {d}}
      /\ Len(followed') > Len(followed) /\ SubSeq(followed', 1, Len(followed)) = followed
      /\ Shows(followed', d)

Retreat ==
    \E n \in 0..Len(followed), d \in Deployment :
      /\ owner \in {{}, {d}}
      /\ Shows(SubSeq(followed, 1, n), d)

(* Another deployment starts from an empty store. *)
Clear == followed' = <<>> /\ owner' = {} /\ shown' = {}

Next == Follow \/ Retreat \/ Clear
Spec == Init /\ [][Next]_<<followed, owner, shown>>
=============================================================================
