--------------------------- MODULE MC_UpdatingType ---------------------------
(* Class shapes for checking UpdatingType: method names and signatures are *)
(* small numbers (methods sorted by name), a body is a number, a field is  *)
(* a name, a signature, a modifier bit and an offset.                      *)
EXTENDS ClassUpdate, TLC

CONSTANTS cA, cB, cI, cX, cY

M(n, s, fl, b) == [n |-> n, s |-> s, fl |-> fl, b |-> b]
F(n, s, off) == [n |-> n, s |-> s, fl |-> 0, off |-> off]
D(intfs, fields, methods) ==
    [flags |-> 0, intfs |-> intfs, fields |-> fields, methods |-> methods]

(* Method arrays as the class file parser leaves them: sorted by name,    *)
(* overloads in any order, no two with the same name and signature.        *)
MethodArrays(recs, n) ==
    {ms \in BoundedSeq(recs, n) :
        /\ IsSorted(ms, LAMBDA x, y : x.n <= y.n)
        /\ \A i, j \in DOMAIN ms : i # j => Key(ms[i]) # Key(ms[j])}

(* One class and one deleted class: every pair of method arrays of up to  *)
(* three methods over two names with overloads, two bodies and two         *)
(* modifier sets.                                                          *)
WalkRecs == {M(n, s, fl, b) : <<n, s>> \in {<<1, 1>>, <<1, 2>>, <<2, 1>>},
                              fl \in {0, 1}, b \in {1, 2}}
WalkSuper == [c \in {cA, cX} |-> NoClass]
WalkKind == cA :> "modified" @@ cX :> "deleted"
WalkDescs == cA :> {D(<<>>, <<>>, ms) : ms \in MethodArrays(WalkRecs, 3)}
          @@ cX :> {D(<<>>, <<>>, <<>>)}

(* An interface cI, a class cA implementing it and its subclass cB, each  *)
(* of which may change its body, methods or fields; cA's method arrays     *)
(* have up to two methods over two names with overloads, a changed body    *)
(* and a changed modifier.                                                 *)
TreeRecs == {M(1, 1, 0, 1), M(1, 1, 0, 2), M(1, 2, 0, 1), M(2, 1, 0, 1), M(2, 1, 1, 1)}
TreeSuper == cI :> NoClass @@ cA :> NoClass @@ cB :> cA @@ cY :> NoClass
TreeKind == cI :> "modified" @@ cA :> "modified" @@ cB :> "modified"
TreeDescs ==
       cI :> {D(<<>>, <<>>, ms) : ms \in {<<>>, <<M(1, 1, 0, 1)>>, <<M(1, 1, 0, 2)>>}}
    @@ cA :> {D(<<cI>>, fs, ms) : fs \in {<<>>, <<F(1, 1, 1)>>},
                                  ms \in MethodArrays(TreeRecs, 2)}
    @@ cB :> {D(<<>>, fs, ms) : fs \in {<<F(2, 1, 2)>>},
                                ms \in {<<>>, <<M(2, 1, 0, 1)>>}}
    @@ cY :> {D(<<>>, <<>>, <<>>)}

(* A class cY outside the patch that has called cA's method 1(1), cB's   *)
(* own method 2(1) and the method 1(1) cB inherits, and cB, which has     *)
(* called cA's method 1(1).                                                *)
TreeCalls == cY :> {<<cA, 11>>, <<cB, 21>>, <<cB, 11>>} @@ cB :> {<<cA, 11>>}
          @@ cA :> {} @@ cI :> {}

(* The tree with a patch that names cI and cA but not the loaded subclass *)
(* cB (populate_sub_classes adds no subclass).                             *)
UnlistedKind == cI :> "modified" @@ cA :> "modified"

(* The tree with its subclass cB deleted by the patch. *)
DeleteSubKind == cI :> "modified" @@ cA :> "modified" @@ cB :> "deleted"

(* cY has called only the method 1(1) that cB inherits from cA. *)
UnlistedCalls == cY :> {<<cB, 11>>} @@ cA :> {} @@ cB :> {} @@ cI :> {}

(* cY resolves its call of cA's method 1(1) only after prepare. *)
LateYCalls == cY :> {<<cA, 11>>} @@ cA :> {} @@ cB :> {} @@ cI :> {}
(* No call site resolved before the request. *)
NoCalls == [c \in Classes |-> {}]

(* A field that keeps its name and offset and changes its type. *)
SigSuper == cA :> NoClass
SigKind == cA :> "modified"
SigDescs == cA :> {D(<<>>, <<F(1, s, 1)>>, <<>>) : s \in {1, 2}}
====
