----------------------------- MODULE ClassUpdate -----------------------------
(***************************************************************************)
(* The class half of DSU::update (dsu.cpp): update_class_loaders runs      *)
(* DSUClass::update on every class the prepare of UpdatingType left in the *)
(* class list, in list order, at the safepoint, then                       *)
(* relink_collected_classes relinks the classes collect_classes_to_relink  *)
(* chose at prepare.  A body-only change (DSU_CLASS_BC) is swap_class with *)
(* update_subklass_vtable_and_itable; a method or field change is          *)
(* redefine_class with install_new_version and the post_fix_* steps; a     *)
(* deleted class is undefine_class, an added one define_class.             *)
(*                                                                         *)
(* An InstanceKlass is <<class, role>>: "old" is the loaded Klass*, "new"  *)
(* the version loaded from the patch, "inplace" and "temp" the             *)
(* new_inplace_new_class and stale_new_class cloned at prepare.  A Method* *)
(* is <<class, class file, name and signature>>; it belongs to whichever   *)
(* Klass* holds the methods array of that class file, which swap_class     *)
(* exchanges together with the constant pool.  A vtable is a sequence of   *)
(* Method*s laid out as klassVtable::initialize_vtable does.  Interfaces   *)
(* have no vtable here; itables are not modelled.                          *)
(***************************************************************************)
EXTENDS UpdatingType

CONSTANTS
    UpdateMayFail,   \* a class's update may raise an exception
    Calls,           \* Calls[c]: <<class, slot>> of each call site c's
                     \* constant pool resolved before the request
    LateCalls        \* call sites an application thread may resolve
                     \* after prepare, before the safepoint

ASSUME Calls \in [Classes -> SUBSET (Classes \X Nat)]
ASSUME LateCalls \in [Classes -> SUBSET (Classes \X Nat)]

FROM_RN == 0                 \* DSU::from_rn, the revision at set_active_dsu
TO_RN == FROM_RN + 1         \* DSU::to_rn
MAX_REVISION_NUMBER == 100   \* dead_rn of a class that is alive

Roles == {"old", "new", "inplace", "temp"}
K(c, r) == <<c, r>>
NoKlass == <<NoClass, "none">>
Klasses == {K(c, r) : c \in Classes, r \in Roles}

\* a class file: its constant pool, methods and method data travel together
Files == {<<c, f>> : c \in Classes, f \in {"old", "new"}}

RedefineTypes == {SFIELD, SMETHOD, SBOTH, FIELD, METHOD, BOTH}

Interfaces == {d \in Classes : \E c \in Classes : \E i \in DOMAIN old[c].intfs :
                                  old[c].intfs[i] = d}

VARIABLES
    kw,       \* per class, what the update left in its live klass
    applied,  \* update_class_loaders has run
    late      \* late[c]: call sites of c resolved after prepare

cuVars == <<vars, kw, applied, late>>

-----------------------------------------------------------------------------
(* The klass world. *)

\* a vtable slot is named by the name and signature of its method
Slot(m) == 10 * m.n + m.s
Slots(ms) == {Slot(ms[i]) : i \in DOMAIN ms}

MethodsOf(W, k) == IF W.ma[k] = "old" THEN old[k[1]].methods ELSE new[k[1]].methods

\* the Klass* that holds the methods array a Method* belongs to
Holder(W, m) == CHOOSE k \in {K(m[1], "old"), K(m[1], "new")} \cap W.ex : W.ma[k] = m[2]

\* A vtable is a sequence of Method*s: an index is fixed when the class is
\* linked and call sites dispatch by index.  NoMethod is whatever a read
\* past the end of a vtable finds.
NoVtable == << >>
NoMethod == <<NoClass, "none", 0>>

\* the name and signature of the method a vtable entry holds
EntryKey(m) == m[3]

\* a vtable entry whose method a stale klass holds, or no method at all
StaleEntry(W, m) == m = NoMethod \/ W.stale[Holder(W, m)]

\* klassVtable::initialize_vtable: the super's vtable with the entries the
\* klass overrides replaced, then one new entry per other method it holds,
\* in methods-array order
InitVtable(W, k) ==
    LET ms   == MethodsOf(W, k)
        own  == Slots(ms)
        sv   == IF W.sup[k] = NoKlass THEN NoVtable ELSE W.vt[W.sup[k]]
        inh  == {EntryKey(sv[i]) : i \in DOMAIN sv}
        news == SelectSeq(ms, LAMBDA m : Slot(m) \notin inh)
    IN [i \in DOMAIN sv |->
          IF EntryKey(sv[i]) \in own THEN <<k[1], W.ma[k], EntryKey(sv[i])>>
          ELSE sv[i]]
       \o [j \in DOMAIN news |-> <<k[1], W.ma[k], Slot(news[j])>>]

\* a vtable built when the klass is loaded, its supers' first
RECURSIVE LoadVtable(_, _)
LoadVtable(W, k) ==
    IF W.sup[k] = NoKlass THEN InitVtable(W, k)
    ELSE InitVtable([W EXCEPT !.vt[W.sup[k]] = LoadVtable(W, W.sup[k])], k)

\* size_helper: the extent of the instance fields of c and its supers
RECURSIVE SizeHelper(_, _)
SizeHelper(descs, c) ==
    IF c = NoClass THEN 0
    ELSE LET own == {descs[c].fields[i].off : i \in DOMAIN descs[c].fields}
             sup == SizeHelper(descs, Super[c])
         IN IF own = {} \/ \A x \in own : x <= sup THEN sup
            ELSE CHOOSE x \in own : \A y \in own : y <= x

\* require_new_inplace_new_class: a field change whose new objects are
\* larger than the old ones (a single update has no previous version)
RequireInplace(c) ==
    ut[c] >= FIELD /\ ut[c] <= BOTH /\ SizeHelper(old, c) < SizeHelper(new, c)

\* require_stale_new_class
RequireStaleNew(c) == ut[c] \in {FIELD, BOTH}

\* Loaded by the patch: the class list's classes that are swapped or
\* redefined.
Updated(c) == \E i \in DOMAIN order : order[i] = c
Swapped(c) == Updated(c) /\ ut[c] = BC
Redefining(c) == Updated(c) /\ ut[c] \in RedefineTypes
Deleting(c) == Updated(c) /\ ut[c] = DEL
Adding(c) == Updated(c) /\ ut[c] = ADD

\* The super a new version is loaded with: the new version of a super that
\* the patch swaps or redefines, the loaded super otherwise (the case split
\* redefine_class's asserts on new_version->super() presume).
NewSuperAtLoad(c) ==
    IF Super[c] = NoClass THEN NoKlass
    ELSE IF Swapped(Super[c]) \/ Redefining(Super[c]) THEN K(Super[c], "new")
    ELSE K(Super[c], "old")

\* The constant pools of the loaded classes once the application has
\* resolved the call sites calls[c] of each class c: the Class entry and
\* the profiled receiver name the loaded klass of the called class, and
\* the cache entry holds the Method* its vtable has for the slot.
ResolvedConstantPools(W, calls) ==
    LET Found(call) == {W.vt[K(call[1], "old")][i] :
                          i \in {j \in DOMAIN W.vt[K(call[1], "old")] :
                                   EntryKey(W.vt[K(call[1], "old")][j]) = call[2]}}
    IN [W EXCEPT
          !.cpk = [f \in Files |-> IF f[2] = "old" THEN W.cpk[f] \cup {K(call[1], "old") : call \in calls[f[1]]} ELSE W.cpk[f]],
          !.rcv = [f \in Files |-> IF f[2] = "old" THEN W.rcv[f] \cup {K(call[1], "old") : call \in calls[f[1]]} ELSE W.rcv[f]],
          !.cpc = [f \in Files |-> IF f[2] = "old" THEN W.cpc[f] \cup UNION {Found(call) : call \in calls[f[1]]} ELSE W.cpc[f]]]

\* dsu_will_be_updated: the klass is swapped, redefined or deleted by the
\* request
WillBeUpdated(W, k) == W.st[k] \in {"will_be_swapped", "will_be_redefined", "will_be_deleted"}

\* Mutant: only a resolved class that will be redefined calls for a relink.
ShouldRelinkRedefinedOnly(W, c) ==
    \E k \in W.cpk[<<c, W.ma[K(c, "old")]>>] : W.st[k] = "will_be_redefined"

\* check_and_append_relink_class's test: a resolved Class entry names a
\* klass that will be swapped or redefined, or a cache entry's vfinal
\* method's holder will be swapped and (sic) redefined
ShouldRelink(W, c) ==
    LET cp == <<c, W.ma[K(c, "old")]>>
    IN \/ \E k \in W.cpk[cp] : W.st[k] \in {"will_be_swapped", "will_be_redefined"}
       \/ \E m \in W.cpc[cp] : /\ W.st[Holder(W, m)] = "will_be_swapped"
                              /\ W.st[Holder(W, m)] = "will_be_redefined"

\* DSU::collect_classes_to_relink at the end of DSU::prepare: every loaded
\* class the request does not update itself and that should be relinked
\* is appended as a DSU_CLASS_MC class, dsu_will_be_recompiled
CollectClassesToRelink(W) ==
    [W EXCEPT !.st = [k \in Klasses |->
        IF k[2] = "old" /\ ~WillBeUpdated(W, k) /\ ShouldRelink(W, k[1])
        THEN "will_be_recompiled" ELSE W.st[k]]]

\* The klasses after DSUClass::prepare: the new versions were loaded and
\* linked, the clones built, and the old versions marked
\* dsu_will_be_swapped or dsu_will_be_redefined.
LoadedWorld ==
    LET ex == {K(c, "old") : c \in {d \in Classes : ~Adding(d)}}
              \cup {K(c, "new") : c \in {d \in Classes : Swapped(d) \/ Redefining(d) \/ Adding(d)}}
              \cup {K(c, "inplace") : c \in {d \in Classes : Redefining(d) /\ RequireInplace(d)}}
              \cup {K(c, "temp") : c \in {d \in Classes : Redefining(d) /\ RequireStaleNew(d)}}
        W0 == [ex    |-> ex,
               ma    |-> [k \in Klasses |-> IF k[2] = "old" THEN "old" ELSE "new"],
               sup   |-> [k \in Klasses |->
                            CASE k[2] = "old" ->
                                   IF Super[k[1]] = NoClass THEN NoKlass
                                   ELSE K(Super[k[1]], "old")
                              [] k[2] = "new" -> NewSuperAtLoad(k[1])
                              [] OTHER -> NoKlass],
               vt    |-> [k \in Klasses |-> NoVtable],
               born  |-> [k \in Klasses |-> 0],
               dead  |-> [k \in Klasses |-> MAX_REVISION_NUMBER],
               stale |-> [k \in Klasses |-> FALSE],
               next  |-> [k \in Klasses |-> NoKlass],
               prev  |-> [k \in Klasses |-> NoKlass],
               st    |-> [k \in Klasses |->
                            IF k[2] = "old" /\ Swapped(k[1]) THEN "will_be_swapped"
                            ELSE IF k[2] = "old" /\ Redefining(k[1]) THEN "will_be_redefined"
                            ELSE IF k[2] = "old" /\ Deleting(k[1]) THEN "will_be_deleted"
                            ELSE "none"],
               live  |-> [c \in Classes |-> IF Adding(c) THEN NoKlass ELSE K(c, "old")],
               chk   |-> {},
               cpk   |-> [f \in Files |-> {}],
               cpc   |-> [f \in Files |-> {}],
               rcv   |-> [f \in Files |-> {}]]
        W1 == [W0 EXCEPT !.vt = [k \in Klasses |->
                            IF k \in ex /\ k[2] \in {"old", "new"} THEN LoadVtable(W0, k)
                            ELSE NoVtable]]
    IN CollectClassesToRelink(ResolvedConstantPools(W1, Calls))

-----------------------------------------------------------------------------
(* DSUClass::swap_class and update_subklass_vtable_and_itable. *)

\* the Klass*s whose super is k: the loaded ones and the installed new ones
Subklasses(W, k) ==
    {s \in W.ex : W.sup[s] = k /\ (s[2] = "old" \/ W.live[s[1]] = s)}

\* update_subklass_vtable_and_itable: re-initialise the vtable of every
\* subklass the update does not itself swap or redefine, and of their
\* subklasses in turn
RECURSIVE UpdateSubklassVtable(_, _), UpdateSubklasses(_, _)
UpdateSubklassVtable(W, k) == UpdateSubklasses(W, Subklasses(W, k))
UpdateSubklasses(W, S) ==
    IF S = {} THEN W
    ELSE LET s  == CHOOSE x \in S : TRUE
             W1 == IF W.st[s] \in {"will_be_redefined", "will_be_swapped"} THEN W
                   ELSE UpdateSubklassVtable([W EXCEPT !.vt[s] = InitVtable(W, s)], s)
         IN UpdateSubklasses(W1, S \ {s})

\* swap_class leaving the dsu_state of the loaded klass at
\* dsu_will_be_swapped
SwapClassKeepState(W, c) ==
    LET o  == K(c, "old")
        n  == K(c, "new")
        W1 == [W EXCEPT !.ma[o] = W.ma[n], !.ma[n] = W.ma[o]]
        W2 == [W1 EXCEPT !.vt[o]    = InitVtable(W1, o),
                         !.born[o]  = FROM_RN,
                         !.born[n]  = W.born[o],
                         !.next[n]  = o,
                         !.dead[n]  = TO_RN,
                         !.stale[n] = TRUE,
                         !.st[n]    = "has_been_swapped"]
    IN UpdateSubklassVtable(W2, o)

\* swap_class: the loaded Klass* takes the new methods and keeps its
\* identity; the scratch klass takes the old methods and dies at to_rn
SwapClass(W, c) ==
    LET o  == K(c, "old")
        n  == K(c, "new")
        W1 == [W EXCEPT !.ma[o] = W.ma[n], !.ma[n] = W.ma[o]]
        W2 == [W1 EXCEPT !.vt[o]    = InitVtable(W1, o),
                         !.born[o]  = FROM_RN,
                         !.born[n]  = W.born[o],
                         !.next[n]  = o,
                         !.dead[n]  = TO_RN,
                         !.stale[n] = TRUE,
                         !.st[n]    = "has_been_swapped",
                         !.st[o]    = "none"]
    IN UpdateSubklassVtable(W2, o)

-----------------------------------------------------------------------------
(* DSUClass::redefine_class. *)

\* install_new_version: the dictionary now names the new version
InstallNewVersion(W, c) ==
    [W EXCEPT !.live[c] = K(c, "new"),
              !.next[K(c, "old")] = K(c, "new"),
              !.prev[K(c, "new")] = K(c, "old")]

\* the vtable of the new version is rebuilt when an entry's holder is stale
FixStaleVtable(W, k) ==
    IF \E i \in DOMAIN W.vt[k] : StaleEntry(W, W.vt[k][i])
    THEN [W EXCEPT !.vt[k] = InitVtable(W, k)]
    ELSE W

PostFixOldVersion(W, c) ==
    [W EXCEPT !.stale[K(c, "old")] = TRUE,
              !.dead[K(c, "old")]  = TO_RN,
              !.st[K(c, "old")]    = "has_been_redefined"]

\* the methods of the new version need the stale object check; a super
\* that died at to_rn is replaced by its next version
PostFixNewVersion(W, c) ==
    LET n  == K(c, "new")
        W1 == [W EXCEPT !.chk = W.chk \cup {<<c, W.ma[n], key>> : key \in Slots(MethodsOf(W, n))}]
    IN [W1 EXCEPT !.sup[n]  = IF W.sup[n] # NoKlass /\ W.dead[W.sup[n]] = TO_RN
                              THEN W.next[W.sup[n]] ELSE W.sup[n],
                  !.born[n] = TO_RN]

PostFixNewInplaceNewClass(W, c) ==
    LET i == K(c, "inplace")
    IN IF i \notin W.ex THEN W
       ELSE [W EXCEPT !.vt[i]   = W.vt[K(c, "new")],
                      !.prev[i] = K(c, "old"),
                      !.next[i] = K(c, "new"),
                      !.sup[i]  = K(c, "new"),
                      !.born[i] = TO_RN]

PostFixStaleNewClass(W, c) ==
    LET t == K(c, "temp")
    IN IF t \notin W.ex THEN W
       ELSE [W EXCEPT !.vt[t]    = W.vt[K(c, "new")],
                      !.prev[t]  = K(c, "old"),
                      !.stale[t] = TRUE,
                      !.dead[t]  = TO_RN,
                      !.sup[t]   = K(c, "new")]

\* the indices both vtables have take the new method when it needs the
\* stale object check: entry i of the old vtable gets entry i of the new
\* one, whichever method that is
PostFixVtableAndItable(W, c) ==
    LET o == K(c, "old")
        n == K(c, "new")
    IN [W EXCEPT !.vt[o] =
          [i \in DOMAIN W.vt[o] |->
             IF i \in DOMAIN W.vt[n] /\ W.vt[n][i] \in W.chk
             THEN W.vt[n][i] ELSE W.vt[o][i]]]

RedefineClass(W, c) ==
    LET W1 == FixStaleVtable(InstallNewVersion(W, c), K(c, "new"))
    IN PostFixVtableAndItable(
         PostFixStaleNewClass(
           PostFixNewInplaceNewClass(
             PostFixNewVersion(PostFixOldVersion(W1, c), c), c), c), c)

-----------------------------------------------------------------------------
(* DSUClass::undefine_class, define_class, the STUB case, relink_class. *)

\* undefine_class: the loaded klass is deleted, stale and dies at to_rn;
\* each entry at an index of its super's vtable whose method a redefined
\* klass holds takes the entry at that index of the next version's vtable,
\* and one a deleted klass holds takes the entry at that index of that
\* klass's vtable (a deleted super must already be undefined)
UndefineClass(W, c) ==
    LET ik == K(c, "old")
        n  == IF W.sup[ik] = NoKlass THEN 0 ELSE Len(W.vt[W.sup[ik]])
        At(v, i) == IF i \in DOMAIN v THEN v[i] ELSE NoMethod
        Fix(i) ==
          LET m == W.vt[ik][i]
              h == IF m = NoMethod THEN NoKlass ELSE Holder(W, m)
          IN CASE h # NoKlass /\ W.st[h] = "has_been_redefined" -> At(W.vt[W.next[h]], i)
               [] h # NoKlass /\ h # ik /\ W.st[h] = "has_been_deleted" -> At(W.vt[h], i)
               [] OTHER -> m
    IN [W EXCEPT !.st[ik]    = "has_been_deleted",
                 !.stale[ik] = TRUE,
                 !.dead[ik]  = TO_RN,
                 !.vt[ik]    = [i \in DOMAIN W.vt[ik] |->
                                  IF i <= n THEN Fix(i) ELSE W.vt[ik][i]]]

\* define_class: SystemDictionary::redefine_instance_class(NULL, new)
\* enters the new class in the dictionary
DefineClass(W, c) ==
    [W EXCEPT !.live[c] = K(c, "new")]

\* a STUB class's loaded klass, if any, is dsu_has_been_added
StubClass(W, c) ==
    IF K(c, "old") \in W.ex THEN [W EXCEPT !.st[K(c, "old")] = "has_been_added"]
    ELSE W

\* DSUClass::relink_class of a linked class: its resolved Class entries are
\* unresolved again, a profiled receiver that is stale is replaced by its
\* next version, the cache is reset and the class is dsu_has_been_recompiled
RelinkClass(W, c) ==
    LET k  == K(c, "old")
        cp == <<c, W.ma[k]>>
    IN [W EXCEPT !.cpk[cp] = {},
                 !.rcv[cp] = {IF W.stale[r] THEN W.next[r] ELSE r : r \in W.rcv[cp]},
                 !.cpc[cp] = {},
                 !.st[k]   = "has_been_recompiled"]

\* DSU::relink_collected_classes: relink_class on every collected class
RelinkCollectedClasses(W) ==
    FoldSet(LAMBDA c, V : RelinkClass(V, c), W,
            {c \in Classes : W.st[K(c, "old")] = "will_be_recompiled"})

-----------------------------------------------------------------------------
(* DSU::update_class_loaders. *)

\* DSUClass::update; NONE and UNKNOWN leave the class alone.  A class list
\* of the patch never holds MC (relinked classes are a list of their own)
\* and prepare never classifies a class STUB.
UpdateClass(W, c) ==
    CASE ut[c] = STUB           -> StubClass(W, c)
      [] ut[c] = MC             -> RelinkClass(W, c)
      [] ut[c] = BC             -> SwapClass(W, c)
      [] ut[c] \in RedefineTypes -> RedefineClass(W, c)
      [] ut[c] = DEL            -> UndefineClass(W, c)
      [] ut[c] = ADD            -> DefineClass(W, c)
      [] OTHER                  -> W

\* what the properties read of a klass world: per class, the live klass,
\* its super and the vtable slots whose method a stale klass holds
LiveView(W) ==
    [c \in {d \in Classes : W.live[d] # NoKlass} |->
       LET k == W.live[c]
       IN [klass |-> k,
           del   |-> W.st[k] = "has_been_deleted",
           sup   |-> W.sup[k],
           delin |-> IF W.st[k] # "has_been_deleted" THEN {}
                     ELSE LET lv == LoadedWorld.vt[k]
                              sv == W.vt[W.live[Super[c]]]
                          IN {i \in DOMAIN lv :
                                /\ lv[i][1] # c
                                /\ \E j \in DOMAIN sv : EntryKey(sv[j]) = EntryKey(lv[i])
                                /\ ~ /\ i \in DOMAIN W.vt[k]
                                     /\ ~StaleEntry(W, W.vt[k][i])
                                     /\ EntryKey(W.vt[k][i]) = EntryKey(lv[i])},
           stale |-> {i \in DOMAIN W.vt[k] : StaleEntry(W, W.vt[k][i])},
           stdis |-> LET o == K(c, "old")
                     IN IF k = o THEN {}
                        ELSE {i \in DOMAIN W.vt[k] :
                                i \notin DOMAIN W.vt[o] \/ W.vt[o][i] # W.vt[k][i]},
           cpst  |-> LET cp == <<c, W.ma[k]>>
                     IN {m \in W.cpc[cp] : StaleEntry(W, m)}
                        \cup {r \in W.rcv[cp] : r # NoKlass /\ W.stale[r]}]]

RECURSIVE UpdateClasses(_, _)
UpdateClasses(W, l) ==
    IF l = << >> THEN W ELSE UpdateClasses(UpdateClass(W, Head(l)), Tail(l))

\* DSUClass::update of a class whose update raises an exception at its
\* first CHECK: update_jmethod_ids, before swap_class changes anything, or
\* apply_default_class_transformer, after install_new_version
UpdateClassFailing(W, c) ==
    CASE ut[c] = BC             -> W
      [] ut[c] \in RedefineTypes -> FixStaleVtable(InstallNewVersion(W, c), K(c, "new"))
      [] OTHER                  -> W

\* the exception stays pending, so classes_do's CHECK leaves the rest of
\* the class list alone and DSU::update's CHECK skips
\* relink_collected_classes; f = 0 is an update without exception
UpdateUpTo(f) ==
    LET W == ResolvedConstantPools(LoadedWorld, late)
    IN IF f = 0 THEN RelinkCollectedClasses(UpdateClasses(W, order))
       ELSE UpdateClassFailing(UpdateClasses(W, SubSeq(order, 1, f - 1)), order[f])

FailPoints ==
    IF UpdateMayFail
    THEN {0} \cup {f \in 1 .. Len(order) : ut[order[f]] \in {BC} \cup RedefineTypes}
    ELSE {0}

\* the VM thread updates every class in class-list order at the safepoint
UpdateClassLoaders ==
    /\ phase = "done"
    /\ result = "prepared"
    /\ ~applied
    /\ \E f \in FailPoints : kw' = LiveView(UpdateUpTo(f))
    /\ applied' = TRUE
    /\ UNCHANGED <<vars, late>>

\* An application thread resolves a call site of a loaded class after
\* prepare: DSU::prepare runs in doit_prologue in the DSU thread, and
\* VM_DSUOperation::doit waits for the safepoint; the system-dictionary
\* counter doit compares moves on class loading, not on resolution.
ResolveCallSite ==
    /\ phase = "done"
    /\ result = "prepared"
    /\ ~applied
    /\ \E c \in {d \in Classes : ~Adding(d)} :
         \E call \in {l \in LateCalls[c] \ late[c] : ~Adding(l[1])} :
           late' = [late EXCEPT ![c] = @ \cup {call}]
    /\ UNCHANGED <<vars, kw, applied>>

\* before the update the klass world is only read through LoadedWorld
UpdateInit == Init /\ kw = "none" /\ applied = FALSE /\ late = [c \in Classes |-> {}]

UpdateNext == (Next /\ UNCHANGED <<kw, applied, late>>) \/ UpdateClassLoaders

UpdateSpec == UpdateInit /\ [][UpdateNext]_cuVars

\* the update with application threads running between prepare and the
\* safepoint
ResolvingNext == UpdateNext \/ ResolveCallSite

ResolvingSpec == UpdateInit /\ [][ResolvingNext]_cuVars

-----------------------------------------------------------------------------
(* Properties. *)

\* After the update, no method a live class dispatches to through its
\* vtable belongs to a stale klass, whatever order the patch lists the
\* classes in (spec: a swapped class re-links dispatch of every
\* non-updating subclass).  swap_class re-initialises the swapped class's
\* vtable, resets its dsu_state and lets update_subklass_vtable_and_itable
\* re-link the subclasses not yet updated; redefine_class rebuilds a new
\* vtable that reaches a stale holder.
LiveDispatchCurrent ==
    applied =>
      \A c \in DOMAIN kw \ Interfaces :
        ~kw[c].del => kw[c].stale = {}

\* After the update no live class's constant pool still reaches a stale
\* klass: no cache entry holds a Method* of a stale klass and no profiled
\* receiver is stale (a cleared receiver row is harmless).  collect_classes_to_relink picks, at prepare, the
\* classes whose resolved Class entries name a klass to be swapped or
\* redefined, and relink_collected_classes resets them after the class
\* list; swap_class moves the old methods to the scratch klass, which is
\* stale, so a swapped callee needs the relink as much as a redefined one.
RelinkedCallsCurrent ==
    applied => \A c \in DOMAIN kw : ~kw[c].del => kw[c].cpst = {}

\* After the update the super of every live class is the live class of
\* its super (post_fix_new_version replaces a super that died at to_rn).
LiveSuperLive ==
    applied =>
      \A c \in DOMAIN kw \ Interfaces :
        Super[c] \in DOMAIN kw => kw[c].sup = kw[Super[c]].klass

\* After the update an object of a redefined class that is not yet
\* transformed (its klass is still the old version) dispatches exactly as
\* a current object of its class: at every index of the new version's
\* vtable the old vtable holds the same method.  post_fix_vtable_and_itable
\* copies entry i of the new vtable to entry i of the old one, up to the
\* shorter length and only for methods needing the stale object check.
StaleObjectDispatch ==
    applied => \A c \in DOMAIN kw \ Interfaces : kw[c].stdis = {}

\* After the update an object of a deleted class still dispatches every
\* method it inherits and its super class still has (an index of its
\* vtable it does not override) to a method of that index's name and
\* signature that a live klass holds.
\* undefine_class retargets the entries a redefined or a deleted super
\* holds; a swapped super's update re-initialises the vtable of a subclass
\* that will be deleted.
DeletedDispatchInherited ==
    applied => \A c \in DOMAIN kw : kw[c].delin = {}
====
