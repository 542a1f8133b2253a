----------------------------- MODULE EagerUpdate -----------------------------
(***************************************************************************)
(* Eager object update (DSUEagerUpdate, dsu.cpp 7260-7574). When a DSU     *)
(* request asks for eager update, DSU::update collects at its safepoint    *)
(* every instance whose class died at the new revision, stores them as the *)
(* _candidates array, and installs an "eager update" return barrier in     *)
(* every application thread. The first thread that fires the barrier and  *)
(* takes DSUEagerUpdate_lock transforms all candidates; the others wait on *)
(* the lock while _be_updating is set and leave once _has_been_updated is  *)
(* set. Threads that have not yet fired their barrier keep running and may *)
(* transform an object lazily, under the class mirror's ObjectLocker.      *)
(*                                                                         *)
(* An object is abstracted to the revision its class belongs to; every     *)
(* update redefines the class of every object of Objects, so an object at  *)
(* revision r is stale for a thread at revision r+1 or later. The field    *)
(* copying of a transformation is the business of ObjectMigration; here a  *)
(* transformation is the interval in which a thread runs                   *)
(* transform_object_common_no_lock on the object.                          *)
(***************************************************************************)
EXTENDS Naturals, Sequences, FiniteSets
LOCAL INSTANCE SequencesExt

CONSTANTS
    Threads,    \* application threads
    Objects,    \* instances of the updated classes
    MaxRn,      \* bound on the number of DSU updates
    CanFail,    \* whether transform_object may leave a pending exception
    NoThread    \* no owner of a lock

ASSUME /\ MaxRn \in Nat \ {0}
       /\ CanFail \in BOOLEAN
       /\ NoThread \notin Threads

VARIABLES
    rn,         \* Javelus::system_revision_number()
    trn,        \* each thread's current_revision()
    bar,        \* each thread's return barrier: "none" or "eager"
    cur,        \* the revision each object's class belongs to
    cands,      \* DSUEagerUpdate::_candidates (NULL is <<>>)
    beUpdating,     \* DSUEagerUpdate::_be_updating
    hasBeenUpdated, \* DSUEagerUpdate::_has_been_updated
    elock,      \* owner of DSUEagerUpdate_lock
    mowner,     \* owner of the updated class's mirror monitor
    pc,         \* each thread's place
    obj,        \* the object a thread is transforming or about to
    idx         \* the eager thread's loop index i

vars == <<rn, trn, bar, cur, cands, beUpdating, hasBeenUpdated,
          elock, mowner, pc, obj, idx>>

PcValues == {"java", "elock", "check", "wait", "loop", "eager_x",
             "mlock", "lazy_x"}

(* transform_object_common's pre-check: the object's class is stale and   *)
(* dead at the thread's current revision.                                  *)
StaleFor(o, t) == cur[o] < trn[t]

Init ==
    /\ rn = 0
    /\ trn = [t \in Threads |-> 0]
    /\ bar = [t \in Threads |-> "none"]
    /\ cur = [o \in Objects |-> 0]
    /\ cands = <<>>
    /\ beUpdating = FALSE
    /\ hasBeenUpdated = FALSE
    /\ elock = NoThread
    /\ mowner = NoThread
    /\ pc = [t \in Threads |-> "java"]
    /\ obj = [t \in Threads |-> CHOOSE o \in Objects : TRUE]
    /\ idx = [t \in Threads |-> 0]

(***************************************************************************)
(* The DSU safepoint (DSU::update 2.3 and 2.4).                            *)
(***************************************************************************)

(* repair_application_threads moves a thread without a return barrier    *)
(* from the system revision to the next one; a thread with a barrier keeps *)
(* its revision and catches up when the barrier fires.                     *)
RepairedRevision(t) ==
    IF bar[t] = "none" /\ trn[t] = rn THEN rn + 1 ELSE trn[t]

(* collect_dead_instances_at_safepoint: the heap walk keeps every         *)
(* instance whose class requires update at dead time to_rn, in heap order. *)
CollectDeadInstances(toRn) == SetToSeq({o \in Objects : cur[o] < toRn})

(* configure_eager_update: the new _candidates array, and                 *)
(* _has_been_updated cleared; _be_updating is left as it is.               *)
ConfigureEagerUpdate(candidates) ==
    /\ cands' = candidates
    /\ hasBeenUpdated' = FALSE

(* install_eager_update_return_barrier: every application thread has a    *)
(* Java frame and gets the eager barrier, which replaces any other.        *)
InstallEagerBarrier == bar' = [t \in Threads |-> "eager"]

(* The safepoint is reached by threads running Java code, blocked on a    *)
(* lock or in wait(), and by threads inside a transformation (allocation  *)
(* or a custom transformer; the comment at 6021 says a DSU may happen      *)
(* there), including the eager thread, which then still owns              *)
(* DSUEagerUpdate_lock. A thread that holds a lock between two of its      *)
(* steps without a transformation (check, loop) does not reach it. The     *)
(* VM thread takes no lock here. Collecting the candidates may fail with   *)
(* a pending exception; then neither configure_eager_update nor the        *)
(* barrier installation runs. Otherwise configure_eager_update replaces    *)
(* _candidates and clears _has_been_updated (not _be_updating), and        *)
(* install_eager_update_return_barrier gives every thread with a Java      *)
(* frame an eager barrier, replacing whatever barrier it had.              *)
DSUUpdate ==
    /\ rn < MaxRn
    /\ \A t \in Threads : pc[t] \in {"java", "elock", "wait", "mlock", "eager_x", "lazy_x"}
    /\ rn' = rn + 1
    /\ trn' = [t \in Threads |-> RepairedRevision(t)]
    /\ \/ ConfigureEagerUpdate(CollectDeadInstances(rn + 1)) /\ InstallEagerBarrier
       \/ UNCHANGED <<cands, hasBeenUpdated, bar>>
    /\ UNCHANGED <<cur, beUpdating, elock, mowner, pc, obj, idx>>

(***************************************************************************)
(* The eager barrier (invoke_return_barrier) and start_eager_update.      *)
(***************************************************************************)

(* Mutant: the barrier does not tell a thread behind the system revision *)
(* from one that is up to date.                                            *)
FireBarrierNoCatchUp(t) ==
    /\ pc[t] = "java"
    /\ bar[t] = "eager"
    /\ bar' = [bar EXCEPT ![t] = "none"]
    /\ pc' = [pc EXCEPT ![t] = "elock"]
    /\ UNCHANGED <<rn, trn, cur, cands, beUpdating, hasBeenUpdated,
                   elock, mowner, obj, idx>>

(* invoke_return_barrier clears the barrier. A thread behind the system   *)
(* revision (update_this_thread) is brought up to it and never starts the  *)
(* eager update; any other thread enters start_eager_update and blocks on  *)
(* DSUEagerUpdate_lock.                                                    *)
FireBarrier(t) ==
    /\ pc[t] = "java"
    /\ bar[t] = "eager"
    /\ bar' = [bar EXCEPT ![t] = "none"]
    /\ IF trn[t] + 1 <= rn
       THEN trn' = [trn EXCEPT ![t] = rn] /\ UNCHANGED pc
       ELSE pc' = [pc EXCEPT ![t] = "elock"] /\ UNCHANGED trn
    /\ UNCHANGED <<rn, cur, cands, beUpdating, hasBeenUpdated,
                   elock, mowner, obj, idx>>

(* MutexLocker ml(DSUEagerUpdate_lock), and the re-acquisition of the lock *)
(* after a wait() is woken.                                                *)
LockEager(t) ==
    /\ pc[t] = "elock"
    /\ elock = NoThread
    /\ elock' = t
    /\ pc' = [pc EXCEPT ![t] = "check"]
    /\ UNCHANGED <<rn, trn, bar, cur, cands, beUpdating, hasBeenUpdated, mowner, obj, idx>>

(* while (_be_updating) DSUEagerUpdate_lock->wait(): the lock is released *)
(* and the thread sleeps until a notify_all.                               *)
EagerWait(t) ==
    /\ pc[t] = "check"
    /\ beUpdating
    /\ elock' = NoThread
    /\ pc' = [pc EXCEPT ![t] = "wait"]
    /\ UNCHANGED <<rn, trn, bar, cur, cands, beUpdating, hasBeenUpdated, mowner, obj, idx>>

(* notify_all: every waiter goes back to acquiring the lock. *)
NotifyAll == [u \in Threads |-> IF pc[u] = "wait" THEN "elock" ELSE pc[u]]

(* _has_been_updated: notify_all and leave; the MutexLocker unlocks. *)
EagerLeave(t) ==
    /\ pc[t] = "check"
    /\ ~beUpdating
    /\ hasBeenUpdated
    /\ elock' = NoThread
    /\ pc' = [NotifyAll EXCEPT ![t] = "java"]
    /\ UNCHANGED <<rn, trn, bar, cur, cands, beUpdating, hasBeenUpdated, mowner, obj, idx>>

(* Otherwise this thread does the update: _be_updating = true, and the    *)
(* loop over the candidates starts, the lock still held.                   *)
EagerStart(t) ==
    /\ pc[t] = "check"
    /\ ~beUpdating
    /\ ~hasBeenUpdated
    /\ beUpdating' = TRUE
    /\ idx' = [idx EXCEPT ![t] = 1]
    /\ pc' = [pc EXCEPT ![t] = "loop"]
    /\ UNCHANGED <<rn, trn, bar, cur, cands, hasBeenUpdated,
                   elock, mowner, obj>>

(* The loop body for candidate i: Javelus::transform_object on it. Its    *)
(* pre-check returns at once for an object that is not stale at the       *)
(* thread's revision; otherwise, as this thread owns DSUEagerUpdate_lock,  *)
(* transform_object_common goes straight to the no-lock transformation,    *)
(* without the class mirror's ObjectLocker.                                *)
EagerNext(t) ==
    /\ pc[t] = "loop"
    /\ idx[t] <= Len(cands)
    /\ LET o == cands[idx[t]]
       IN IF StaleFor(o, t) /\ elock = t
          THEN /\ pc' = [pc EXCEPT ![t] = "eager_x"]
               /\ obj' = [obj EXCEPT ![t] = o]
               /\ UNCHANGED idx
          ELSE /\ idx' = [idx EXCEPT ![t] = @ + 1]
               /\ UNCHANGED <<pc, obj>>
    /\ UNCHANGED <<rn, trn, bar, cur, cands, beUpdating, hasBeenUpdated, elock, mowner>>

(* The transformation ends: the object's class belongs to the thread's    *)
(* revision; the weak handle is destroyed and _candidates[i] cleared.      *)
EagerTransformed(t) ==
    /\ pc[t] = "eager_x"
    /\ cur' = [cur EXCEPT ![obj[t]] = trn[t]]
    /\ idx' = [idx EXCEPT ![t] = @ + 1]
    /\ pc' = [pc EXCEPT ![t] = "loop"]
    /\ UNCHANGED <<rn, trn, bar, cands, beUpdating, hasBeenUpdated,
                   elock, mowner, obj>>

(* The transformation leaves a pending exception (a custom transformer    *)
(* that throws, a failed allocation): the exception is cleared and         *)
(* start_eager_update returns, the MutexLocker unlocking, with             *)
(* _be_updating still set and no notify_all.                               *)
EagerFail(t) ==
    /\ CanFail
    /\ pc[t] = "eager_x"
    /\ elock' = NoThread
    /\ pc' = [pc EXCEPT ![t] = "java"]
    /\ UNCHANGED <<rn, trn, bar, cur, cands, beUpdating, hasBeenUpdated, mowner, obj, idx>>

(* After the loop: _candidates is freed, _be_updating cleared,            *)
(* _has_been_updated set, the waiters notified and the lock released. The *)
(* heap collection for mixed objects changes nothing modelled here.        *)
EagerFinish(t) ==
    /\ pc[t] = "loop"
    /\ idx[t] > Len(cands)
    /\ cands' = <<>>
    /\ beUpdating' = FALSE
    /\ hasBeenUpdated' = TRUE
    /\ elock' = NoThread
    /\ pc' = [NotifyAll EXCEPT ![t] = "java"]
    /\ idx' = [idx EXCEPT ![t] = 0]
    /\ UNCHANGED <<rn, trn, bar, cur, mowner, obj>>

(***************************************************************************)
(* Lazy transformation by a thread that has not fired its barrier.        *)
(***************************************************************************)

(* An access to a stale object calls transform_object_common; the        *)
(* pre-check passes and, the thread not owning DSUEagerUpdate_lock, it     *)
(* blocks on the class mirror's ObjectLocker.                              *)
AccessObject(t, o) ==
    /\ pc[t] = "java"
    /\ StaleFor(o, t)
    /\ pc' = [pc EXCEPT ![t] = "mlock"]
    /\ obj' = [obj EXCEPT ![t] = o]
    /\ UNCHANGED <<rn, trn, bar, cur, cands, beUpdating, hasBeenUpdated, elock, mowner, idx>>

(* With the monitor held, the no-lock loop re-reads the class: it         *)
(* transforms a still stale object, and otherwise returns at once.         *)
LockMirror(t) ==
    /\ pc[t] = "mlock"
    /\ mowner = NoThread
    /\ IF StaleFor(obj[t], t)
       THEN mowner' = t /\ pc' = [pc EXCEPT ![t] = "lazy_x"]
       ELSE UNCHANGED mowner /\ pc' = [pc EXCEPT ![t] = "java"]
    /\ UNCHANGED <<rn, trn, bar, cur, cands, beUpdating, hasBeenUpdated, elock, obj, idx>>

(* Mutant: the no-lock loop goes one version past the thread's revision. *)
LazyTransformedTooFar(t) ==
    /\ pc[t] = "lazy_x"
    /\ cur' = [cur EXCEPT ![obj[t]] = trn[t] + 1]
    /\ mowner' = NoThread
    /\ pc' = [pc EXCEPT ![t] = "java"]
    /\ UNCHANGED <<rn, trn, bar, cands, beUpdating, hasBeenUpdated,
                   elock, obj, idx>>

(* The no-lock loop runs until the class is alive at the thread's         *)
(* revision; the ObjectLocker is released.                                 *)
LazyTransformed(t) ==
    /\ pc[t] = "lazy_x"
    /\ cur' = [cur EXCEPT ![obj[t]] = trn[t]]
    /\ mowner' = NoThread
    /\ pc' = [pc EXCEPT ![t] = "java"]
    /\ UNCHANGED <<rn, trn, bar, cands, beUpdating, hasBeenUpdated,
                   elock, obj, idx>>

Next ==
    \/ DSUUpdate
    \/ \E t \in Threads :
          \/ FireBarrier(t) \/ LockEager(t) \/ EagerWait(t) \/ EagerLeave(t)
          \/ EagerStart(t) \/ EagerNext(t) \/ EagerTransformed(t)
          \/ EagerFail(t) \/ EagerFinish(t)
          \/ LockMirror(t) \/ LazyTransformed(t)
          \/ \E o \in Objects : AccessObject(t, o)

(* A thread inside the VM keeps running: weak fairness on its steps. Lock *)
(* acquisition is strongly fair, as a blocked thread gets a monitor that is *)
(* released again and again. Barriers, accesses and updates are up to the  *)
(* program and get no fairness.                                            *)
Fairness ==
    \A t \in Threads :
        /\ SF_vars(LockEager(t)) /\ SF_vars(LockMirror(t))
        /\ WF_vars(EagerWait(t)) /\ WF_vars(EagerLeave(t))
        /\ WF_vars(EagerStart(t)) /\ WF_vars(EagerNext(t))
        /\ WF_vars(EagerTransformed(t) \/ EagerFail(t))
        /\ WF_vars(EagerFinish(t)) /\ WF_vars(LazyTransformed(t))

Spec == Init /\ [][Next]_vars /\ Fairness

(***************************************************************************)
(* Properties                                                              *)
(***************************************************************************)

(* Types; no thread or object gets ahead of the system revision. *)
TypeOK ==
    /\ rn \in 0..MaxRn
    /\ trn \in [Threads -> 0..rn]
    /\ bar \in [Threads -> {"none", "eager"}]
    /\ cur \in [Objects -> 0..rn]
    /\ cands \in Seq(Objects)
    /\ beUpdating \in BOOLEAN /\ hasBeenUpdated \in BOOLEAN
    /\ elock \in Threads \cup {NoThread}
    /\ mowner \in Threads \cup {NoThread}
    /\ pc \in [Threads -> PcValues]

Transforming(o) == {t \in Threads : pc[t] \in {"eager_x", "lazy_x"} /\ obj[t] = o}

(* One transformer per object: no two threads run                        *)
(* transform_object_common_no_lock on the same object at once, whether    *)
(* they came through the eager loop or through a lazy access.              *)
TransformExclusive == \A o \in Objects : Cardinality(Transforming(o)) <= 1

(* The eager loop passes over a candidate without transforming it only   *)
(* when the candidate is already at the system revision: the thread that   *)
(* runs the loop is never behind the revision the candidates were          *)
(* collected for, so none is left stale while _has_been_updated is set.    *)
SkipsOnlyCurrent ==
    [][\A t \in Threads :
         (pc[t] = "loop" /\ pc'[t] = "loop" /\ idx'[t] = idx[t] + 1)
            => cur[cands[idx[t]]] = rn]_vars

(* Once _has_been_updated is set and no eager loop runs, every instance   *)
(* of the updated classes is at the system revision: start_eager_update    *)
(* marks an update done only after transforming all of its candidates.    *)
(* Its loop keeps candidates_size and the index from before a DSU reached  *)
(* in a transformation, while configure_eager_update replaces _candidates  *)
(* and clears _has_been_updated under it (7296).                           *)
EagerDoneMeansCurrent ==
    hasBeenUpdated /\ ~beUpdating => \A o \in Objects : cur[o] = rn

(* A thread that enters start_eager_update at its eager barrier           *)
(* eventually returns to the program.                                      *)
EagerBarrierReturns ==
    \A t \in Threads : pc[t] \in {"elock", "check", "wait"} ~> pc[t] = "java"

====
