---------------------------- MODULE UpdatingType ----------------------------
(***************************************************************************)
(* The classification of the classes of one update request (Javelus        *)
(* dsu.cpp): the patch builder's class list, DSUClassLoader::prepare,      *)
(* which prepares every DSUClass and, first, the super class and the       *)
(* interfaces it depends on; refresh_updating_type and                     *)
(* compare_and_normalize_class, with the parallel walk over the name-sorted *)
(* method lists; Javelus::join; and remove_unchanged_classes.              *)
(*                                                                         *)
(* A class version is a record of its access flags, its local interfaces,  *)
(* its instance fields and its methods. The new version of a class keeps   *)
(* the name of its super class. A Klass* of the new world differs from the *)
(* old one exactly for the classes the request loads a new version of.     *)
(***************************************************************************)
EXTENDS Integers, Sequences, SequencesExt, FiniteSets, TLC
LOCAL INSTANCE Bitwise

CONSTANTS
    Classes,      \* loaded classes and interfaces (model values)
    NoClass,      \* the super of a root class
    Super,        \* Super[c]: the super class of c, or NoClass
    Kind,         \* the request: class |-> "modified", "added" or "deleted"
    Descs         \* class versions a class may have, old or new

ASSUME /\ Super \in [Classes -> Classes \cup {NoClass}]
       /\ DOMAIN Kind \subseteq Classes
       /\ \A c \in DOMAIN Kind : Kind[c] \in {"modified", "added", "deleted"}

Patch == DOMAIN Kind

(* DSUClassUpdatingType and DSUMethodUpdatingType (dsu.hpp). *)
UNKNOWN == -1
NONE == 0
MC == 1
BC == 2
INDIRECT_BC == 4
SMETHOD == 8
SFIELD == 16
SBOTH == SMETHOD + SFIELD
METHOD == 32
FIELD == 64
BOTH == FIELD + METHOD
DEL == 128
ADD == 256
STUB == 512
Types == {UNKNOWN, NONE, MC, BC, INDIRECT_BC, SMETHOD, SFIELD, SBOTH,
          METHOD, FIELD, BOTH, DEL, ADD, STUB}
M_NONE == 0
M_BC == 2
M_DEL == 3
M_UNSET == -1      \* an old method no DSUMethod was allocated for

(* Mutant: the flag types are or-ed, as the bit encoding invites. *)
JoinOr(this, that) ==
    CASE this \in {UNKNOWN, NONE} -> that
      [] this \in {BC, INDIRECT_BC, SMETHOD, SFIELD, SBOTH, METHOD, FIELD, BOTH} ->
            IF that < 0 THEN this ELSE this | that
      [] this \in {ADD, DEL} -> this
      [] OTHER -> UNKNOWN

(* Javelus::join. MC and STUB reach ShouldNotReachHere; ADD and DEL only   *)
(* assert that both sides are equal.                                       *)
Join(this, that) ==
    CASE this \in {UNKNOWN, NONE} -> that
      [] this \in {BC, INDIRECT_BC, SMETHOD, SFIELD, SBOTH, METHOD, FIELD, BOTH} ->
            IF this > that THEN this ELSE that
      [] this \in {ADD, DEL} -> this
      [] OTHER -> UNKNOWN

-----------------------------------------------------------------------------
(* Klass identities of the old and the new world. *)
Redefined == {c \in Patch : Kind[c] = "modified"}
OldRef(c) == <<c, "old">>
NewRef(c) == IF c \in Redefined \/ (c \in Patch /\ Kind[c] = "added")
             THEN <<c, "new">> ELSE <<c, "old">>

Key(m) == <<m.n, m.s>>
Keys(ms) == {Key(ms[i]) : i \in DOMAIN ms}

(* compare_and_normalize_class reads the name of a field where it means   *)
(* its signature: sig_sym1 = old_field->name(...).                         *)
FieldSig(f) == f.n

(* Mutant: the look-ahead gives up at the first overload that differs. *)
LookAheadFirstOnly(o, nm, nj) ==
    IF nj > Len(nm) \/ nm[nj].n # o.n THEN 0
    ELSE IF nm[nj].s = o.s THEN nj
    ELSE 0

(* The first new method after ni with the name and signature of old       *)
(* method o, or 0 once the overloads of that name are passed.              *)
RECURSIVE LookAhead(_, _, _)
LookAhead(o, nm, nj) ==
    IF nj > Len(nm) \/ nm[nj].n # o.n THEN 0
    ELSE IF nm[nj].s = o.s THEN nj
    ELSE LookAhead(o, nm, nj + 1)

(* Mutant: the matching overload is found but not swapped into place. *)
SwapNone(s, i, j) == s

(* The at_put pair that swaps the found overload into position ni. *)
Swap(s, i, j) == [s EXCEPT ![i] = s[j], ![j] = s[i]]

(* The three outcomes of one turn of the walk; w holds the indices oi, ni, *)
(* the (reordered) new methods nm, the class type ty, the DSUMethod types  *)
(* mt and the matched new index mi of each old method.                     *)
WasAdded(w) == [w EXCEPT !.ty = Join(w.ty, METHOD), !.ni = w.ni + 1]
WasDeleted(w) == [w EXCEPT !.ty = Join(w.ty, METHOD), !.mt[w.oi] = M_DEL,
                           !.oi = w.oi + 1]
WasMatched(om, w) ==
    LET o == om[w.oi]
        n == w.nm[w.ni]
        t1 == IF o.fl # n.fl THEN Join(w.ty, METHOD) ELSE w.ty
    IN [w EXCEPT !.ty = IF o.b # n.b THEN Join(t1, BC) ELSE t1,
                 !.mt[w.oi] = IF o.b # n.b THEN M_BC ELSE M_NONE,
                 !.mi[w.oi] = w.ni,
                 !.oi = w.oi + 1, !.ni = w.ni + 1]

(* The parallel walk over the old methods om and the new methods of       *)
(* compare_and_normalize_class. Methods are sorted by name; a name         *)
(* mismatch means added (the old name is greater) or deleted; a signature  *)
(* mismatch searches the new overloads forward and swaps the match in.     *)
RECURSIVE MethodWalk(_, _)
MethodWalk(om, w) ==
    IF w.oi > Len(om) /\ w.ni > Len(w.nm) THEN w
    ELSE IF w.oi > Len(om) THEN MethodWalk(om, WasAdded(w))
    ELSE IF w.ni > Len(w.nm) THEN MethodWalk(om, WasDeleted(w))
    ELSE LET o == om[w.oi]
             n == w.nm[w.ni]
         IN IF o.n # n.n
            THEN IF o.n > n.n THEN MethodWalk(om, WasAdded(w))
                              ELSE MethodWalk(om, WasDeleted(w))
            ELSE IF o.s = n.s THEN MethodWalk(om, WasMatched(om, w))
            ELSE LET nj == LookAhead(o, w.nm, w.ni + 1)
                 IN IF nj = 0 THEN MethodWalk(om, WasDeleted(w))
                    ELSE MethodWalk(om, WasMatched(om,
                                      [w EXCEPT !.nm = Swap(w.nm, w.ni, nj)]))

(* get_updating_type: the type of a prepared DSUClass, else UNKNOWN. *)
GetType(c, st) == IF c \in Patch /\ st.prep[c] THEN st.ut[c] ELSE UNKNOWN

(* The type a changed super class or interface contributes. *)
Inherit(t, d, st) == IF GetType(d, st) = DEL THEN BOTH ELSE Join(t, GetType(d, st))

SuperType(c, st) ==
    IF Super[c] # NoClass /\ OldRef(Super[c]) # NewRef(Super[c])
    THEN Inherit(NONE, Super[c], st) ELSE NONE

IntfType(t, o, n, st) ==
    IF Len(o.intfs) # Len(n.intfs) THEN Join(t, BOTH)
    ELSE FoldLeft(LAMBDA u, i : IF OldRef(o.intfs[i]) # NewRef(n.intfs[i])
                                THEN Inherit(u, o.intfs[i], st) ELSE u,
                  t, [i \in 1..Len(o.intfs) |-> i])

FieldType(t, o, n) ==
    IF Len(o.fields) # Len(n.fields) THEN Join(t, BOTH)
    ELSE FoldLeft(LAMBDA u, i :
                    LET of == o.fields[i]
                        nf == n.fields[i]
                    IN IF \/ of.fl # nf.fl
                          \/ of.off # nf.off
                          \/ of.n # nf.n \/ FieldSig(of) # FieldSig(nf)
                       THEN Join(u, BOTH) ELSE u,
                  t, [i \in 1..Len(o.fields) |-> i])

(* compare_and_normalize_class of class c, with the DSU state st: super,  *)
(* interfaces, access flags, fields, then the method walk. The type is     *)
(* stored unless it equals the old one; the DSUMethods always are.         *)
CompareAndNormalize(c, old, new, st) ==
    LET o  == old[c]
        n  == new[c]
        t1 == SuperType(c, st)
        t2 == IntfType(t1, o, n, st)
        t3 == IF o.flags # n.flags THEN Join(t2, BOTH) ELSE t2
        t4 == FieldType(t3, o, n)
        w  == MethodWalk(o.methods,
                 [oi |-> 1, ni |-> 1, nm |-> n.methods, ty |-> t4,
                  mt |-> [i \in DOMAIN o.methods |-> M_UNSET],
                  mi |-> [i \in DOMAIN o.methods |-> 0]])
    IN [st EXCEPT !.ut[c] = w.ty, !.mt[c] = w.mt, !.mi[c] = w.mi,
                  !.nm[c] = w.nm]

(* refresh_updating_type: only a class still of type NONE is compared. *)
RefreshUpdatingType(c, old, new, st) ==
    IF st.ut[c] # NONE THEN st ELSE CompareAndNormalize(c, old, new, st)

-----------------------------------------------------------------------------
VARIABLES
    phase,    \* "parse", "prepare" or "done"
    order,    \* the DSUClassLoader's class list
    parsed,   \* the list as the patch builder left it
    cursor,   \* the position of DSUClassLoader::prepare's loop
    old, new, \* old[c], new[c]: the two versions of class c
    ut,       \* ut[c]: DSUClass::updating_type
    prep,     \* prep[c]: DSUClass::prepared
    mt,       \* mt[c][i]: updating type of the DSUMethod of old method i
    mi,       \* mi[c][i]: its matched new method index
    nm,       \* nm[c]: the new version's method array, as reordered
    result    \* the outcome of DSU::prepare

vars == <<phase, order, parsed, cursor, old, new, ut, prep, mt, mi, nm, result>>

State == [ut |-> ut, prep |-> prep, mt |-> mt, mi |-> mi, nm |-> nm]

RECURSIVE PrepareRec(_, _)

(* prepare_interfaces: each local interface of the old version that has a *)
(* DSUClass is prepared first.                                             *)
RECURSIVE PrepareInterfaces(_, _)
PrepareInterfaces(is, st) ==
    IF is = <<>> THEN st
    ELSE PrepareInterfaces(Tail(is),
            IF Head(is) \in Patch THEN PrepareRec(Head(is), st) ELSE st)

(* Mutant: the super class is not prepared before its subclass. *)
PrepareSuperClassSkipped(c, st) == st

(* prepare_super_class: the super class of the old version, if it has a   *)
(* DSUClass, is prepared first.                                            *)
PrepareSuperClass(c, st) ==
    IF Super[c] \in Patch THEN PrepareRec(Super[c], st) ELSE st

(* DSUClass::prepare. A deleted class with an old version and an added    *)
(* class with a new version are prepared at once; a modified class         *)
(* prepares its super class and interfaces, then refreshes its type. The   *)
(* follow-up work per type (restricted methods, field tables, extra        *)
(* classes) is modelled in DSUQuiescence and ObjectMigration.              *)
PrepareRec(c, st) ==
    IF st.prep[c] THEN st
    ELSE IF Kind[c] \in {"deleted", "added"} THEN [st EXCEPT !.prep[c] = TRUE]
    ELSE LET s3 == RefreshUpdatingType(c, old, new,
                     PrepareInterfaces(old[c].intfs, PrepareSuperClass(c, st)))
         IN [s3 EXCEPT !.prep[c] = TRUE]

Unchanged(c) == prep[c] /\ ut[c] = NONE

(* The loop of remove_unchanged_classes from the second class on: p is    *)
(* Head(rest), q the last class of kept.                                   *)
RECURSIVE RemoveFromRest(_, _)
RemoveFromRest(rest, kept) ==
    IF rest = <<>> THEN kept
    ELSE RemoveFromRest(Tail(rest),
            IF Unchanged(Head(rest)) THEN kept ELSE Append(kept, Head(rest)))

(* remove_unchanged_classes: drop every prepared class of type NONE; the  *)
(* one-class list and the first class are handled apart.                   *)
RemoveUnchangedClasses(l) ==
    IF l = <<>> THEN l
    ELSE IF Len(l) = 1 THEN (IF Unchanged(l[1]) THEN <<>> ELSE l)
    ELSE LET r == RemoveFromRest(Tail(l), <<Head(l)>>)
         IN IF Unchanged(Head(r)) THEN Tail(r) ELSE r

-----------------------------------------------------------------------------
(* The functions f on cs with f[c] \in S[c]. *)
RECURSIVE DescChoices(_, _)
DescChoices(cs, S) ==
    IF cs = {} THEN {<<>>}
    ELSE LET c == CHOOSE c \in cs : TRUE
         IN {f @@ (c :> d) : f \in DescChoices(cs \ {c}, S), d \in S[c]}

(* Classes not in the request keep their version. *)
Init ==
    /\ phase = "parse"
    /\ order = <<>> /\ parsed = <<>> /\ cursor = 1
    /\ old \in DescChoices(Classes, Descs)
    /\ new \in DescChoices(Classes, [c \in Classes |->
                                    IF c \in Redefined THEN Descs[c] ELSE {old[c]}])
    /\ ut = [c \in Classes |-> NONE]
    /\ prep = [c \in Classes |-> FALSE]
    /\ mt = [c \in Classes |-> <<>>]
    /\ mi = [c \in Classes |-> <<>>]
    /\ nm = [c \in Classes |-> new[c].methods]
    /\ result = "none"

(* The patch builder appends a DSUClass per patch line (ADD, NONE for a   *)
(* modified class, DEL) in the order of the patch file, then calls         *)
(* populate_sub_classes, whose test "if (old_version = NULL)" assigns and  *)
(* is false, so no subclass is ever added.                                 *)
ParsePatch ==
    /\ phase = "parse"
    /\ \E o \in SetToSeqs(Patch) : order' = o /\ parsed' = o
    /\ ut' = [c \in Classes |-> IF c \in Patch /\ Kind[c] = "added" THEN ADD
                               ELSE IF c \in Patch /\ Kind[c] = "deleted" THEN DEL
                               ELSE NONE]
    /\ phase' = "prepare"
    /\ UNCHANGED <<cursor, old, new, prep, mt, mi, nm, result>>

(* One turn of DSUClassLoader::prepare's loop. *)
PrepareClass ==
    /\ phase = "prepare"
    /\ cursor <= Len(order)
    /\ LET s == PrepareRec(order[cursor], State)
       IN /\ ut' = s.ut /\ prep' = s.prep /\ mt' = s.mt /\ mi' = s.mi
          /\ nm' = s.nm
    /\ cursor' = cursor + 1
    /\ UNCHANGED <<phase, order, parsed, old, new, result>>

(* The end of DSUClassLoader::prepare and the count in DSU::prepare. *)
FinishPrepare ==
    /\ phase = "prepare"
    /\ cursor > Len(order)
    /\ order' = RemoveUnchangedClasses(order)
    /\ result' = IF \E i \in DOMAIN order' : prep[order'[i]]
                 THEN "prepared" ELSE "no_updated_class"
    /\ phase' = "done"
    /\ UNCHANGED <<parsed, cursor, old, new, ut, prep, mt, mi, nm>>

Next == ParsePatch \/ PrepareClass \/ FinishPrepare

Spec == Init /\ [][Next]_vars

-----------------------------------------------------------------------------
MethodRecs == UNION {{m.methods[i] : i \in DOMAIN m.methods} : m \in UNION {Descs[c] : c \in Classes}}

TypeOK ==
    /\ phase \in {"parse", "prepare", "done"}
    /\ order \in Seq(Patch) /\ parsed \in Seq(Patch)
    /\ cursor \in 1..Cardinality(Patch) + 1
    /\ ut \in [Classes -> Types]
    /\ prep \in [Classes -> BOOLEAN]
    /\ \A c \in Classes : mt[c] \in Seq({M_NONE, M_BC, M_DEL, M_UNSET})
    /\ \A c \in Classes : nm[c] \in Seq(MethodRecs)
    /\ result \in {"none", "prepared", "no_updated_class"}

(* The DSUMethod type an old method should get: DEL when no new method    *)
(* has its name and signature, BC when that method's body differs.         *)
RefMethodType(om, nms, i) ==
    IF Key(om[i]) \notin Keys(nms) THEN M_DEL
    ELSE IF \E j \in DOMAIN nms : Key(nms[j]) = Key(om[i]) /\ nms[j].b # om[i].b
         THEN M_BC ELSE M_NONE

(* The method walk of compare_and_normalize_class, with its name-order    *)
(* decisions and the forward search that swaps overloads into place,       *)
(* agrees with matching by name and signature: every old method gets the   *)
(* DSUMethod type that matching gives it, the new index recorded for a     *)
(* matched method holds that very method in the reordered new array, the  *)
(* reordering only permutes the array, and a class with added, deleted or  *)
(* re-flagged methods is at least METHOD.                                  *)
MethodsMatched ==
    \A c \in Redefined : prep[c] =>
        LET om == old[c].methods
            ns == new[c].methods
        IN /\ \A i \in DOMAIN om :
                 /\ mt[c][i] = RefMethodType(om, ns, i)
                 /\ mt[c][i] # M_DEL => Key(nm[c][mi[c][i]]) = Key(om[i])
           /\ Len(nm[c]) = Len(ns)
           /\ {nm[c][j] : j \in DOMAIN nm[c]} = {ns[j] : j \in DOMAIN ns}
           /\ \/ Keys(om) # Keys(ns)
              \/ \E i \in DOMAIN om, j \in DOMAIN ns :
                    Key(om[i]) = Key(ns[j]) /\ om[i].fl # ns[j].fl
              => ut[c] >= METHOD

(* A class whose super class or interface is redefined by the same request *)
(* is classified at least as high as that class: DSUClass::prepare must    *)
(* prepare the super class and the interfaces before comparing, whatever   *)
(* the order of the patch.                                                 *)
SubclassAtLeastSuper ==
    \A c \in Redefined, d \in Redefined :
        /\ prep[c] /\ prep[d]
        /\ \/ d = Super[c]
           \/ \E i \in DOMAIN old[c].intfs : old[c].intfs[i] = d
        => ut[c] >= ut[d]

(* The classification of spec.md 4.1: the join of independent signals,    *)
(* where a field changes when its name, signature, modifiers or offset do. *)
SpecType(c) ==
    LET o == old[c]
        n == new[c]
        sup == IF Super[c] \in Redefined
               THEN {IF ut[Super[c]] = DEL THEN BOTH ELSE ut[Super[c]]} ELSE {}
        itf == IF Len(o.intfs) # Len(n.intfs) THEN {BOTH}
               ELSE {ut[o.intfs[i]] : i \in {i \in DOMAIN o.intfs :
                                              OldRef(o.intfs[i]) # NewRef(n.intfs[i])}}
        fld == IF \/ o.flags # n.flags
                  \/ Len(o.fields) # Len(n.fields)
                  \/ \E i \in DOMAIN o.fields : o.fields[i] # n.fields[i]
               THEN {BOTH} ELSE {}
        mth == IF \/ Keys(o.methods) # Keys(n.methods)
                  \/ \E i \in DOMAIN o.methods, j \in DOMAIN n.methods :
                        Key(o.methods[i]) = Key(n.methods[j]) /\ o.methods[i].fl # n.methods[j].fl
               THEN {METHOD} ELSE {}
        bc  == IF \E i \in DOMAIN o.methods : RefMethodType(o.methods, n.methods, i) = M_BC
               THEN {BC} ELSE {}
        all == {NONE} \cup sup \cup itf \cup fld \cup mth \cup bc
    IN CHOOSE t \in all : \A u \in all : t >= u

(* Every redefined class gets the type spec.md gives it. *)
ClassifiedAsSpec == \A c \in Redefined : prep[c] => ut[c] = SpecType(c)
====
