--------------------------- MODULE ObjectMigration ---------------------------
(***************************************************************************)
(* Lazy migration of one stale object by Javelus (dsu.cpp 6005-6444 and    *)
(* dsuOperation.cpp 185-244). The object was allocated as an instance of   *)
(* version 1 of its class. Each applied update makes the object's class    *)
(* stale; the first thread that touches it afterwards takes the class      *)
(* mirror's ObjectLocker and runs the transformer loop of                  *)
(* transform_object_common_no_lock, which copies matched fields through a  *)
(* prototype and may link a "phantom" object holding the fields that do    *)
(* not fit in the original object.                                         *)
(*                                                                         *)
(* Field offsets are slot numbers 1..MaxSlot; a slot holds a value of      *)
(* Values. Object references are 0 (the inplace object) and PhIds          *)
(* (phantom objects). Class versions are 1..NV; version v+1 is installed   *)
(* by the update that takes the system revision from v-1 to v.             *)
(***************************************************************************)
EXTENDS Naturals, FiniteSets
LOCAL INSTANCE FiniteSetsExt

CONSTANTS
    Threads,      \* application threads touching the object
    Fields,       \* instance field names
    Values,       \* field values (0 is the default value)
    NV,           \* number of class versions
    Off,          \* Off[v][f]: slot of field f in version v, 0 if absent
    OnlyReplace,  \* versions v whose update v -> v+1 sets should_only_replace_klass
    PhIds,        \* phantom objects that may be allocated
    MaxWrites,    \* bound on field writes by the application
    NoThread      \* no owner of a class mirror's monitor

ASSUME /\ NV \in Nat \ {0}
       /\ 0 \in Values
       /\ PhIds \subseteq Nat \ {0}
       /\ NoThread \notin Threads

MAX_REVISION_NUMBER == 100

Versions == 1..NV

(* Size(v): size_helper() of version v, in slots. *)
Size(v) == Max({0} \cup {Off[v][f] : f \in Fields})

MaxSlot == Max({Size(v) : v \in Versions})

Slots == 1..MaxSlot

(* compute_and_cache_common_info: the minimal object size over version v  *)
(* and all its previous versions.                                          *)
MinSizeUpTo(v) == Min({Size(i) : i \in 1..v})

(* compute_and_set_fields: a field of version v lies in the phantom object *)
(* when its end passes the minimal old object size.                        *)
InPhantom(v, f) == v > 1 /\ Off[v][f] > MinSizeUpTo(v - 1)

(* The fields matched by name between v and v+1 (the matched_fields table  *)
(* of version v+1); flags 0x01 and 0x02 are InPhantom of each side.        *)
Matched(v) == {f \in Fields : Off[v][f] # 0 /\ Off[v + 1][f] # 0}

(* Class records: "plain" is a version class, "inplace" its               *)
(* new_inplace_new_class, "temp" the stale_new_class of version v that     *)
(* stands for the half-transformed object of version v+1.                  *)
Kinds == {"plain", "inplace", "temp"}
Klasses == [v : Versions, k : Kinds]
NullKlass == [v |-> 0, k |-> "null"]
Plain(v) == [v |-> v, k |-> "plain"]

Marks == [k : {"proto", "hashed", "mixed"}, p : {0} \cup PhIds]
Proto == [k |-> "proto", p |-> 0]
Mixed(p) == [k |-> "mixed", p |-> p]

VARIABLES
    sysRn,    \* Javelus::_latest_rn, which every thread's crn follows
    okl,      \* the object's klass pointer
    mark,     \* the object's mark word
    ins,      \* slots of the inplace object
    inCap,    \* size of the inplace object
    ph,       \* phantom objects: capacity (0: not allocated), slots and mark
    val,      \* the value each field holds in the Java program's view
    hashed,   \* the object was given an identity hash
    oob,      \* a write went past the end of an object
    writes,   \* number of application writes
    pc,       \* each thread's place in transform_object_common
    lk,       \* the klass whose mirror a thread locks
    owner,    \* owner of each class mirror's monitor
    tr,       \* arguments of the thread's run_transformer call
    proto     \* the thread's prototype object of run_default_transformer

vars == <<sysRn, okl, mark, ins, inCap, ph, val, hashed, oob, writes,
          pc, lk, owner, tr, proto>>

PcValues == {"idle", "locking", "loop", "copied", "cas", "half", "access"}
Refs == {0} \cup PhIds
NoTr == [oph |-> 0, nph |-> 0, opk |-> NullKlass, nik |-> NullKlass,
         npk |-> NullKlass, om |-> Proto, osz |-> 0]

(* dead_rn of a class: a version dies at to_rn = v of the update that     *)
(* replaces it; its inplace class dies with it (post_fix_old_version); a   *)
(* stale_new_class is created stale with dead_rn = to_rn.                  *)
IsStale(kl) == kl.k = "temp" \/ sysRn >= kl.v
DeadRn(kl) == IF IsStale(kl) THEN kl.v ELSE MAX_REVISION_NUMBER

(* next_version: of a version class, the next version once installed; of  *)
(* an inplace class, the version class it belongs to; a temp has none.     *)
NextVersion(kl) ==
    CASE kl.k = "plain" /\ sysRn >= kl.v -> Plain(kl.v + 1)
      [] kl.k = "inplace"                -> Plain(kl.v)
      [] OTHER                           -> NullKlass

(* new_inplace_new_class of version v: built for a field update whose new *)
(* size passes the minimal old size (require_new_inplace_new_class).       *)
NewInplace(kl) ==
    IF /\ kl.k = "plain" /\ sysRn >= kl.v /\ kl.v \notin OnlyReplace
       /\ MinSizeUpTo(kl.v) < Size(kl.v + 1)
    THEN [v |-> kl.v + 1, k |-> "inplace"] ELSE NullKlass

(* stale_new_class: set only on the old version class of a field update.  *)
StaleNewClass(kl) ==
    IF kl.k = "plain" /\ kl.v \notin OnlyReplace THEN [v |-> kl.v, k |-> "temp"]
    ELSE NullKlass

(* size_helper of a class: an inplace class has its old version's layout. *)
KlassSize(kl) == IF kl.k = "inplace" THEN Size(kl.v - 1) ELSE Size(kl.v)

(* The version whose field layout a class uses. *)
LayoutOf(kl) == IF kl.k = "temp" THEN kl.v + 1 ELSE kl.v

Cap(r) == IF r = 0 THEN inCap ELSE ph[r].cap
Slot(r, s) == IF r = 0 THEN ins[s] ELSE ph[r].st[s]

(* Where a field access through class kl goes: a field the layout puts in *)
(* the phantom object is reached through the mixed mark.                   *)
FieldRef(kl, f) ==
    IF kl.k # "plain" /\ InPhantom(LayoutOf(kl), f) /\ mark.k = "mixed"
    THEN mark.p ELSE 0

FieldAt(kl, f) == Slot(FieldRef(kl, f), Off[LayoutOf(kl)][f])

(* Applying a set of writes <<ref, slot, value>> to the heap. *)
Store(W, r, s, old) == IF \E w \in W : w[1] = r /\ w[2] = s
                       THEN (CHOOSE w \in W : w[1] = r /\ w[2] = s)[3] ELSE old
StoreIns(W) == [s \in Slots |-> Store(W, 0, s, ins[s])]
StorePh(W, ph0) ==
    [p \in PhIds |-> [ph0[p] EXCEPT !.st = [s \in Slots |-> Store(W, p, s, @[s])]]]
OutOfBounds(W, capOf(_)) == \E w \in W : w[2] > capOf(w[1])

Init ==
    /\ sysRn = 0
    /\ okl = Plain(1)
    /\ mark = Proto
    /\ val \in {w \in [Fields -> Values] : \A f \in Fields : Off[1][f] = 0 => w[f] = 0}
    /\ ins = [s \in Slots |->
                IF \E f \in Fields : Off[1][f] = s
                THEN val[CHOOSE f \in Fields : Off[1][f] = s] ELSE 0]
    /\ inCap = Size(1)
    /\ ph = [p \in PhIds |-> [cap |-> 0, st |-> [s \in Slots |-> 0], mark |-> Proto]]
    /\ hashed = FALSE
    /\ oob = FALSE
    /\ writes = 0
    /\ pc = [t \in Threads |-> "idle"]
    /\ lk = [t \in Threads |-> NullKlass]
    /\ owner = [kl \in Klasses |-> NoThread]
    /\ tr = [t \in Threads |-> NoTr]
    /\ proto = [t \in Threads |-> [s \in Slots |-> 0]]

(***************************************************************************)
(* Updates and the pre-check of transform_object_common.                   *)
(***************************************************************************)

(* DSU::update at a safepoint: the class gets a new version and the       *)
(* system revision, which the threads' crn follow, is incremented. A       *)
(* thread reaches the safepoint idle, blocked on a class mirror's monitor, *)
(* inside the no-lock loop (check_class_initialized and allocate_instance  *)
(* of a case; the classes the case already read are installed versions, so *)
(* the update cannot change them), or in link_mixed_object's slow path     *)
(* (revoke_and_rebias).                                                    *)
AtSafepoint(t) ==
    \/ pc[t] \in {"idle", "locking", "loop"}
    \/ pc[t] = "cas" /\ mark # tr[t].om

ApplyUpdate ==
    /\ sysRn < NV - 1
    /\ \A t \in Threads : AtSafepoint(t)
    /\ sysRn' = sysRn + 1
    /\ UNCHANGED <<okl, mark, ins, inCap, ph, val, hashed, oob, writes,
                   pc, lk, owner, tr, proto>>

(* transform_object_common: an access first checks, without a lock, that  *)
(* the object's class is stale and dead at the thread's crn; if so it      *)
(* takes the ObjectLocker of that class's mirror.                          *)
TransformObject(t) ==
    /\ pc[t] = "idle"
    /\ okl # NullKlass
    /\ IF IsStale(okl) /\ DeadRn(okl) <= sysRn
       THEN pc' = [pc EXCEPT ![t] = "locking"] /\ lk' = [lk EXCEPT ![t] = okl]
       ELSE pc' = [pc EXCEPT ![t] = "access"] /\ UNCHANGED lk
    /\ UNCHANGED <<sysRn, okl, mark, ins, inCap, ph, val, hashed, oob, writes,
                   owner, tr, proto>>

LockMirror(t) ==
    /\ pc[t] = "locking"
    /\ owner[lk[t]] = NoThread
    /\ owner' = [owner EXCEPT ![lk[t]] = t]
    /\ pc' = [pc EXCEPT ![t] = "loop"]
    /\ UNCHANGED <<sysRn, okl, mark, ins, inCap, ph, val, hashed, oob, writes,
                   lk, tr, proto>>

(* The loop of transform_object_common_no_lock ends when the class it     *)
(* re-reads is alive at the thread's crn, or is a temp version (next       *)
(* version NULL); the ObjectLocker is then released.                       *)
TransformDone(t) ==
    /\ pc[t] = "loop"
    /\ DeadRn(okl) > sysRn \/ NextVersion(okl) = NullKlass
    /\ owner' = [owner EXCEPT ![lk[t]] = NoThread]
    /\ pc' = [pc EXCEPT ![t] = "access"]
    /\ UNCHANGED <<sysRn, okl, mark, ins, inCap, ph, val, hashed, oob, writes,
                   lk, tr, proto>>

(* One loop iteration on a stale object: old phantom klass, new inplace   *)
(* klass and new phantom klass as the no-lock loop computes them.          *)
IsMixedObject == mark.k = "mixed"
OldPhantomKlass == IF IsMixedObject THEN NextVersion(okl) ELSE okl
Transformable(t) ==
    /\ pc[t] = "loop"
    /\ DeadRn(okl) <= sysRn
    /\ NextVersion(okl) # NullKlass

(* Mutant: the simple-object branch also sets new_inplace_new_class. *)
ReplaceKlassInplace(t) ==
    /\ Transformable(t)
    /\ OldPhantomKlass.v \in OnlyReplace
    /\ okl' = NewInplace(OldPhantomKlass)
    /\ UNCHANGED <<sysRn, mark, ins, inCap, ph, val, hashed, oob, writes,
                   pc, lk, owner, tr, proto>>

(* should_only_replace_klass: the object only gets the new klass. *)
ReplaceKlass(t) ==
    /\ Transformable(t)
    /\ OldPhantomKlass.v \in OnlyReplace
    /\ okl' = IF IsMixedObject THEN NewInplace(OldPhantomKlass)
              ELSE NextVersion(OldPhantomKlass)
    /\ UNCHANGED <<sysRn, mark, ins, inCap, ph, val, hashed, oob, writes,
                   pc, lk, owner, tr, proto>>

FreePhantom == CHOOSE p \in PhIds : ph[p].cap = 0

(* The arguments the five cases pass to run_transformer: inplace object   *)
(* (always 0), old phantom object, new phantom object, old phantom klass,  *)
(* new inplace klass, new phantom klass.                                   *)
RunTransformerArgs ==
    LET opk == OldPhantomKlass
        nik == NewInplace(opk)
        npk == NextVersion(opk)
    IN CASE IsMixedObject /\ nik # NullKlass /\ Size(npk.v) > Size(opk.v) ->
              [oph |-> mark.p, nph |-> mark.p, opk |-> opk, nik |-> nik, npk |-> npk]
         [] IsMixedObject /\ nik # NullKlass ->
              [oph |-> mark.p, nph |-> FreePhantom, opk |-> opk, nik |-> npk, npk |-> npk]
         [] IsMixedObject ->
              [oph |-> mark.p, nph |-> 0, opk |-> okl, nik |-> npk, npk |-> npk]
         [] nik # NullKlass ->
              [oph |-> 0, nph |-> FreePhantom, opk |-> opk, nik |-> nik, npk |-> npk]
         [] OTHER ->
              [oph |-> 0, nph |-> 0, opk |-> opk, nik |-> npk, npk |-> npk]

(* run_transformer hands run_default_transformer the inplace object as    *)
(* the old phantom object, whatever it was given.                          *)
DefaultOldPhantom(a) == 0

(* HotSpot's must_be_preserved: a hashed or locked header must be kept;   *)
(* for a mixed mark (an encoded pointer) the answer is not defined here.   *)
MustBePreserved(m) == IF m.k = "mixed" THEN {TRUE, FALSE} ELSE {m.k = "hashed"}

(* VM_RelinkMixedObject: its prologue skips the operation unless the      *)
(* object is mixed and the new phantom is not; doit moves the real mark to *)
(* the new phantom and points the object at it.                            *)
RelinkMixedObject(ph1, nph) ==
    IF mark.k = "mixed" /\ ph1[nph].mark.k # "mixed"
    THEN /\ ph' = [ph1 EXCEPT ![nph].mark = ph1[mark.p].mark]
         /\ mark' = Mixed(nph)
    ELSE ph' = ph1 /\ UNCHANGED mark

(* Mutant: the clear range is taken from the new class's size. *)
ClearWritesNewSize(nv) ==
    IF Matched(nv - 1) = {} THEN {} ELSE {<<0, s, 0>> : s \in 1..Size(nv)}

(* The 0x04 entry of the matched-field table: the inplace object is       *)
(* cleared from the end of the youngest common super class (here the root *)
(* class, size 0) for old_object_size, the old version class's size.       *)
ClearWrites(nv) ==
    IF Matched(nv - 1) = {} THEN {} ELSE {<<0, s, 0>> : s \in 1..Size(nv - 1)}

(* VM_UnlinkMixedObject: the real mark comes back from the old phantom. *)
UnlinkMixedObject(ph1) ==
    /\ ph' = ph1
    /\ mark' = IF mark.k = "mixed" THEN ph1[mark.p].mark ELSE mark

(* The loop reads the object's klass and mark, chooses the case and       *)
(* allocates the new phantom object; run_default_transformer then copies   *)
(* the matched fields into the prototype (flag 0x01: from the old phantom) *)
(* and clears the old object from the end of the common super class to the *)
(* old class size (the 0x04 entry). The klass is not yet changed.          *)
TransformBegin(t) ==
    /\ Transformable(t)
    /\ OldPhantomKlass.v \notin OnlyReplace
    /\ \E p \in PhIds : ph[p].cap = 0   \* bound: allocate_instance never fails
    /\ LET a     == RunTransformerArgs
           oph   == DefaultOldPhantom(a)
           nph   == a.nph
           nv    == a.npk.v
           M     == Matched(nv - 1)
           clear == ClearWrites(nv)
           From(f) == Slot(IF InPhantom(nv - 1, f) THEN oph ELSE 0, Off[nv - 1][f])
       IN /\ proto' = [proto EXCEPT ![t] =
                 [s \in Slots |-> IF \E f \in M : Off[nv][f] = s
                                  THEN From(CHOOSE f \in M : Off[nv][f] = s) ELSE 0]]
          /\ ph' = IF nph # 0 /\ ph[nph].cap = 0
                   THEN [ph EXCEPT ![nph] = [cap |-> Size(nv),
                               st |-> [s \in Slots |-> 0], mark |-> Proto]]
                   ELSE ph
          /\ ins' = StoreIns(clear)
          /\ oob' = (oob \/ OutOfBounds(clear, Cap))
          /\ tr' = [tr EXCEPT ![t] = [oph |-> oph, nph |-> nph, opk |-> a.opk,
                        nik |-> a.nik, npk |-> a.npk, om |-> Proto,
                        osz |-> KlassSize(okl)]]
    /\ pc' = [pc EXCEPT ![t] = "copied"]
    /\ UNCHANGED <<sysRn, okl, mark, inCap, val, hashed, writes, lk, owner>>

(* Still in run_default_transformer: the object gets the temp klass and   *)
(* is linked (first half of link_mixed_object: the phantom takes the old   *)
(* mark or the prototype header), relinked or unlinked. The CAS of         *)
(* link_mixed_object is a step of its own.                                 *)
SetStaleNewClass(t) ==
    /\ pc[t] = "copied"
    /\ LET a == tr[t]
           fromSimple == a.oph = 0
           toSimple   == a.nph = 0
       IN /\ okl' = StaleNewClass(a.opk)
          /\ CASE fromSimple /\ ~toSimple ->
                    /\ \E keep \in MustBePreserved(mark) :
                           ph' = [ph EXCEPT ![a.nph].mark = IF keep THEN Proto ELSE mark]
                    /\ tr' = [tr EXCEPT ![t].om = mark]
                    /\ pc' = [pc EXCEPT ![t] = "cas"]
                    /\ UNCHANGED mark
               [] ~fromSimple /\ ~toSimple /\ a.oph # a.nph ->
                    /\ RelinkMixedObject(ph, a.nph)
                    /\ pc' = [pc EXCEPT ![t] = "half"] /\ UNCHANGED tr
               [] ~fromSimple /\ toSimple ->
                    /\ UnlinkMixedObject(ph)
                    /\ pc' = [pc EXCEPT ![t] = "half"] /\ UNCHANGED tr
               [] OTHER ->
                    /\ UNCHANGED <<ph, mark, tr>>
                    /\ pc' = [pc EXCEPT ![t] = "half"]
    /\ UNCHANGED <<sysRn, ins, inCap, val, hashed, oob, writes, lk, owner, proto>>

(* link_mixed_object: the CAS installs the encoded phantom pointer when   *)
(* the mark is still the one read before.                                  *)
LinkMixedObject(t) ==
    /\ pc[t] = "cas"
    /\ mark = tr[t].om
    /\ mark' = Mixed(tr[t].nph)
    /\ pc' = [pc EXCEPT ![t] = "half"]
    /\ UNCHANGED <<sysRn, okl, ins, inCap, ph, val, hashed, oob, writes,
                   lk, owner, tr, proto>>

(* Mutant: the slow path gives up at once, as when the retry budget is   *)
(* spent, leaving the object unlinked.                                     *)
LinkMixedObjectSlowGiveUp(t) ==
    /\ pc[t] = "cas"
    /\ mark # tr[t].om
    /\ ph' = [ph EXCEPT ![tr[t].nph].mark = mark]
    /\ pc' = [pc EXCEPT ![t] = "half"]
    /\ UNCHANGED <<sysRn, okl, mark, ins, inCap, val, hashed, oob, writes,
                   lk, owner, tr, proto>>

(* link_mixed_object_slow: the mark changed; after revoking the bias and  *)
(* inflating, the current mark is copied to the phantom and the CAS is     *)
(* retried (up to 10 times; nothing else writes the mark in between).      *)
LinkMixedObjectSlow(t) ==
    /\ pc[t] = "cas"
    /\ mark # tr[t].om
    /\ ph' = [ph EXCEPT ![tr[t].nph].mark = mark]
    /\ mark' = Mixed(tr[t].nph)
    /\ pc' = [pc EXCEPT ![t] = "half"]
    /\ UNCHANGED <<sysRn, okl, ins, inCap, val, hashed, oob, writes,
                   lk, owner, tr, proto>>

(* Mutant: the second pass ignores flag 0x02. *)
SecondPassAllInplace(a, pr) ==
    {<<0, Off[a.npk.v][f], pr[Off[a.npk.v][f]]>> : f \in Matched(a.npk.v - 1)}

(* The second pass of run_default_transformer: each matched field goes   *)
(* from the prototype to the new phantom object when flag 0x02 is set, to  *)
(* the inplace object otherwise.                                           *)
SecondPassWrites(a, pr) ==
    {<<IF InPhantom(a.npk.v, f) THEN a.nph ELSE 0, Off[a.npk.v][f],
       pr[Off[a.npk.v][f]]>> : f \in Matched(a.npk.v - 1)}

(* The rest of run_transformer: realloc_decreased_object of the inplace   *)
(* object or the reused phantom, the second pass copying the prototype     *)
(* into the inplace object (flag 0x02 clear) or the new phantom (0x02 set),*)
(* and set_klass(new_inplace_klass). The Java view of the object keeps the *)
(* matched fields and gives the added ones their default value.            *)
TransformEnd(t) ==
    /\ pc[t] = "half"
    /\ LET a  == tr[t]
           nv == a.npk.v
           reallocIn == a.nph = 0 /\ Size(nv) < a.osz
           reallocPh == a.oph # 0 /\ a.nph = a.oph /\ Size(nv) < Size(a.opk.v)
           ph1 == IF reallocPh THEN [ph EXCEPT ![a.nph].cap = Size(nv)] ELSE ph
           W  == SecondPassWrites(a, proto[t])
       IN /\ inCap' = IF reallocIn THEN Size(nv) ELSE inCap
          /\ ph' = StorePh(W, ph1)
          /\ ins' = StoreIns(W)
          /\ oob' = (oob \/ \E w \in W : w[2] > IF w[1] = 0 THEN inCap' ELSE ph1[w[1]].cap)
          /\ okl' = a.nik
          /\ val' = [f \in Fields |-> IF f \in Matched(nv - 1) THEN val[f] ELSE 0]
    /\ pc' = [pc EXCEPT ![t] = "loop"]
    /\ tr' = [tr EXCEPT ![t] = NoTr]
    /\ proto' = [proto EXCEPT ![t] = [s \in Slots |-> 0]]
    /\ UNCHANGED <<sysRn, mark, hashed, writes, lk, owner>>

(***************************************************************************)
(* The access that called transform_object. The interpreter's field       *)
(* access, identity hash and the bytecodes around it are not in this       *)
(* repository's sources; they are modelled from the object layout above.   *)
(***************************************************************************)

(* A read of the object, ending the access. *)
ReadObject(t) ==
    /\ pc[t] = "access"
    /\ pc' = [pc EXCEPT ![t] = "idle"]
    /\ UNCHANGED <<sysRn, okl, mark, ins, inCap, ph, val, hashed, oob, writes,
                   lk, owner, tr, proto>>

(* A putfield through the object's current class. *)
WriteField(t, f, x) ==
    /\ pc[t] = "access"
    /\ writes < MaxWrites
    /\ okl # NullKlass
    /\ Off[LayoutOf(okl)][f] # 0
    /\ LET W == {<<FieldRef(okl, f), Off[LayoutOf(okl)][f], x>>}
       IN /\ ins' = StoreIns(W)
          /\ ph' = StorePh(W, ph)
          /\ oob' = (oob \/ OutOfBounds(W, Cap))
    /\ val' = [val EXCEPT ![f] = x]
    /\ writes' = writes + 1
    /\ pc' = [pc EXCEPT ![t] = "idle"]
    /\ UNCHANGED <<sysRn, okl, mark, inCap, hashed, lk, owner, tr, proto>>

(* System.identityHashCode of a simple object installs a hash in its mark. *)
HashObject(t) ==
    /\ pc[t] = "access"
    /\ mark = Proto
    /\ mark' = [k |-> "hashed", p |-> 0]
    /\ hashed' = TRUE
    /\ pc' = [pc EXCEPT ![t] = "idle"]
    /\ UNCHANGED <<sysRn, okl, ins, inCap, ph, val, oob, writes,
                   lk, owner, tr, proto>>

Next ==
    \/ ApplyUpdate
    \/ \E t \in Threads :
          \/ TransformObject(t)
          \/ LockMirror(t)
          \/ TransformDone(t)
          \/ ReplaceKlass(t)
          \/ TransformBegin(t)
          \/ SetStaleNewClass(t)
          \/ LinkMixedObject(t)
          \/ LinkMixedObjectSlow(t)
          \/ TransformEnd(t)
          \/ ReadObject(t)
          \/ HashObject(t)
          \/ \E f \in Fields, x \in Values : WriteField(t, f, x)

Spec == Init /\ [][Next]_vars

(***************************************************************************)
(* Properties                                                              *)
(***************************************************************************)

Transforming == {t \in Threads : pc[t] \in {"copied", "cas", "half"}}

(* Field values survive migration: whenever no thread is inside           *)
(* run_transformer, every field of the object's current class reads, in    *)
(* the inplace object or through the mixed mark in the phantom, the value  *)
(* the program last gave it (matched fields carried over by the default    *)
(* transformer, added fields zero).                                        *)
FieldsPreserved ==
    (Transforming = {} /\ okl # NullKlass) =>
        \A f \in Fields : Off[LayoutOf(okl)][f] # 0 => FieldAt(okl, f) = val[f]

(* transform_object_common relies on the ObjectLocker of the class       *)
(* mirror (6195-6199) to make migration exclusive: at most one thread is   *)
(* inside run_transformer on the object, between reading its klass for a  *)
(* case and storing the new inplace klass.  With two pending updates the   *)
(* threads lock different mirrors of the same object, and this fails.      *)
TransformExclusive == Cardinality(Transforming) <= 1

(* A migrated object keeps a consistent shape: outside run_transformer its *)
(* klass is a version or inplace class (never NULL or a temp version); it  *)
(* is an inplace class exactly when the mark encodes a phantom; and that   *)
(* phantom holds a real header and is as large as the version's class.     *)
ShapeConsistent ==
    Transforming = {} =>
        /\ okl.k \in {"plain", "inplace"}
        /\ (okl.k = "inplace") = (mark.k = "mixed")
        /\ mark.k = "mixed" => /\ ph[mark.p].mark.k # "mixed"
                               /\ ph[mark.p].cap >= Size(okl.v)

(* The real mark (the object's own, or its phantom's when mixed)          *)
(* keeps the identity hash once one was installed: link_mixed_object must  *)
(* move it into the phantom object.                                        *)
RealMark == IF mark.k = "mixed" THEN ph[mark.p].mark ELSE mark
HashPreserved == hashed => RealMark.k = "hashed"

(* No copy pass, clear range or field write of the migration goes past    *)
(* the end of the inplace object or of a phantom object.                   *)
WritesInBounds == ~oob

=============================================================================
