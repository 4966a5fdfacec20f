---------------------------- MODULE TransitionLog ----------------------------
(***************************************************************************)
(* What rl/buffer.py promises of a replay buffer, whatever the layout of   *)
(* its tensors: the newest transitions, oldest first, at most Limit of     *)
(* them.  The oldest is given up before another is stored in its place.  A *)
(* saved copy is made of what is kept, is discarded before the next one,   *)
(* and is what a resumed run starts from.                                  *)
(***************************************************************************)
EXTENDS Naturals, Sequences

CONSTANTS
    Entries, \* the transitions
    Limit    \* how many are kept

VARIABLES
    kept, \* the transitions kept, oldest first
    copy  \* the saved copy

logVars == <<kept, copy>>

LogInit == kept = <<>> /\ copy = <<>>

Evict ==
    /\ Len(kept) = Limit
    /\ kept' = Tail(kept)
    /\ UNCHANGED copy

Store(entry) ==
    /\ Len(kept) < Limit
    /\ kept' = Append(kept, entry)
    /\ UNCHANGED copy

Discard == copy' = <<>> /\ UNCHANGED kept

Save == copy' = kept /\ UNCHANGED kept

Restore ==
    /\ copy # <<>>
    /\ kept' = copy
    /\ UNCHANGED copy

LogNext ==
    \/ Evict
    \/ \E entry \in Entries : Store(entry)
    \/ Discard \/ Save \/ Restore

LogSpec == LogInit /\ [][LogNext]_logVars
==============================================================================
