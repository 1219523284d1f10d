----------------------------- MODULE NestedViews -----------------------------
(***************************************************************************)
(* What a stack of caches over a base view promises (spec.md sections 2,  *)
(* 3 and 5): every level presents a map from txid to the unspent record    *)
(* of that transaction, or Absent.  Pushing a layer opens a nested view    *)
(* equal to the one below it, writes go to the innermost view only, Flush  *)
(* publishes the innermost view into the one below it, and deleting a      *)
(* layer drops its view.  views[1] is the base; pruned records are Absent. *)
(***************************************************************************)
EXTENDS Sequences, SequencesExt, Naturals

CONSTANTS Txids, Recs, Absent

VARIABLE views

Snapshot == [Txids -> Recs \cup {Absent}]

TypeOK == views \in Seq(Snapshot) /\ Len(views) >= 1

Init == views = <<[t \in Txids |-> Absent], [t \in Txids |-> Absent]>>

\* A new innermost view, a copy of the current one.
Begin == views' = Append(views, Last(views))

\* The innermost view now has some record, or Absent, for t; the outer
\* views do not see it.
Write(t) == LET new == views' IN
            /\ Len(views) >= 2
            /\ DOMAIN new = DOMAIN views
            /\ new[Len(views)][t] \in Recs \cup {Absent}
            /\ new = [views EXCEPT ![Len(views)][t] = new[Len(views)][t]]

\* The innermost view becomes the view of the level below it.
Publish == /\ Len(views) >= 2
           /\ views' = [views EXCEPT ![Len(views) - 1] = Last(views)]

\* The innermost view is dropped; what it did not publish is lost.
Discard == /\ Len(views) >= 2
           /\ views' = Front(views)

\* Steps that change no view (reads, fills, cleanups) are listed first
\* only so that they are recognised before the others are tried.
Next == \/ UNCHANGED views
        \/ Begin
        \/ \E t \in Txids : Write(t)
        \/ Publish
        \/ Discard

Spec == Init /\ [][Next]_views
================================================================================
