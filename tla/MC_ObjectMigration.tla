------------------------- MODULE MC_ObjectMigration -------------------------
(* Class histories for checking ObjectMigration. Off[v][f] is the slot of *)
(* field f in version v (0: the version has no such field).                *)
EXTENDS ObjectMigration, TLC

CONSTANTS t1, t2, fa, fb

MCThreads == {t1, t2}

(* fa, fb -> fb (shrinks, simple to simple) -> same layout with only a    *)
(* new method (should_only_replace_klass) -> fa, fb with                   *)
(* a new fa and fb moved past the minimal size (simple to mixed).          *)
OffShrinkReplaceMixed ==
    <<(fa :> 1 @@ fb :> 2), (fa :> 0 @@ fb :> 1), (fa :> 0 @@ fb :> 1),
      (fa :> 1 @@ fb :> 2)>>

(* fa -> fa, fb with fb past the object's end (simple to mixed). *)
OffSimpleToMixed == <<(fa :> 1 @@ fb :> 0), (fa :> 1 @@ fb :> 2)>>

(* fa -> fa -> fa: field updates that keep the layout (simple to simple). *)
OffSimpleChain == <<(fa :> 1 @@ fb :> 0), (fa :> 1 @@ fb :> 0), (fa :> 1 @@ fb :> 0)>>

(* fa -> fa, fb (mixed) -> fa, fb again, same size (mixed to mixed). *)
OffMixedToMixed ==
    <<(fa :> 1 @@ fb :> 0), (fa :> 1 @@ fb :> 2), (fa :> 1 @@ fb :> 2)>>

(* fa -> fa, fb (mixed) -> fa (mixed to simple). *)
OffMixedToSimple ==
    <<(fa :> 1 @@ fb :> 0), (fa :> 1 @@ fb :> 2), (fa :> 1 @@ fb :> 0)>>

MCSymmetry == Permutations(MCThreads)

=============================================================================
