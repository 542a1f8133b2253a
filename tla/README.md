# TLA+ models of the Javelus dynamic-update engine

This directory holds TLA+ models of the dynamic software update (DSU) engine
of Javelus, a HotSpot JVM that replaces classes of a running program. The
engine is `src/src/share/vm/runtime/dsu.cpp`, `dsu.hpp`, `dsuOperation.cpp/.hpp`
and the flags in `dsuFlags.hpp` / `ci/ciFlags.hpp`. Each model is checked with
TLC. `PROJECT.json` lists the components, the runs, the mutants, the
definition-to-source map, the findings and the hazards.

## The system

| Part | Code | What it does |
|---|---|---|
| Request orchestration | `invoke_dsu_common`, `Javelus::dsu_thread_loop`, `VM_DSUOperation::doit_prologue/doit/doit_epilogue`, `DSU::prepare`, `DSU::update` | A caller enqueues a `DSUTask`; if the call is sync, it then waits once on `DSURequest_lock`. The DSU thread runs the operation through the VM thread. The prologue runs in the DSU thread: it calls `set_active_dsu` (from_rn = system rn, to_rn = +1) and `prepare`. `doit` runs at a safepoint and calls `DSU::update`. The loop then looks at the request state: it notifies and drops the task, retries at once (SYSTEM_MODIFIED), or sleeps and retries (INTERRUPTED). |
| Thread quiescence | `check_application_threads`, `install_return_barrier_*`, `repair_application_threads`, `invoke_return_barrier`, `check_single_thread`, `repair_single_thread` | At the safepoint, every thread's stack is walked. Any frame running a *restricted* method (bytecode changed or deleted) makes the update unsafe. A return barrier is then placed at the caller of the oldest restricted frame, and the request is interrupted. On a safe update, frames of unchanged methods of dying classes are re-pointed to the new `Method*` at the same bci. Each thread's `current_revision` is then bumped. |
| Class version chain | `swap_class`, `redefine_class`, `undefine_class`, `post_fix_*`, `install_dsu`, `increment_system_rn`, `is_class_alive/dead` | Every class version has a lifetime `[born_rn, dead_rn)`. An applied request kills the old version at `to_rn` and installs the DSU in the chain. |
| Class comparison | `compare_and_normalize_class`, `Javelus::join`, `refresh_updating_type`, `set_restricted_methods` | Classifies each class (NONE, MC, BC, SMETHOD … BOTH, DEL, ADD) and each method (NONE, MC, BC, DEL, ADD). |
| Field layout planner | `compute_youngest_common_super_class`, `compute_and_set_fields`, `compute_and_cache_common_info` | Decides which fields stay in place and which go to a phantom object. It builds the matched-field tables used by the default transformer. |
| Versioned hierarchy | `mark_single_class`, `collect_all_super_classes` | Type-narrowing marks over super classes. |
| Lazy object transformation | `transform_object_common(_no_lock)`, `run_transformer`, `run_default_transformer`, `link/relink/unlink_mixed_object`, `VM_RelinkMixedObject`, `VM_UnlinkMixedObject` | Migrates a stale object to the new layout on first access. This is guarded by the class mirror's `ObjectLocker` and by a mark-word CAS that links an inplace object to its phantom. |
| Eager update | `DSUEagerUpdate::*`, the eager branch of `invoke_return_barrier` | Collects the instances of dead classes at the safepoint and gives every thread an eager barrier. The first thread to fire it transforms all of them under `DSUEagerUpdate_lock`; the others wait on `_be_updating` and leave once `_has_been_updated` is set. |
| Patch parsing, reflection | `DSUDynamicPatchBuilder`, builders, `collect_changed_reflections` | Input handling and reflection fix-ups. |

## Modules

### `DSUQuiescence` (with `MC_DSUQuiescence`)

This module models request orchestration, thread quiescence and the
body-change (`DSU_CLASS_BC`, `swap_class`) part of the class version chain.

State:
- `klass[c]` is the version chain of class `c`. Each version holds its born_rn, its dead_rn and the methods whose bytecode changed relative to the previous version.
- `restricted` is the set of `Method*` flagged by `set_restricted_methods`.
- `sysRn` is `_latest_rn`. `rev` is each thread's `current_revision`.
- `stack` holds the Java frames. A frame is a method, the class version its `Method*` belongs to, and the body it started executing.
- `barrierId`, `barrierType` and `patched` are the return barrier id, the barrier type and the patched return pcs.
- `tpc` records whether a thread is blocked in `waitRequest`.
- `queue`, `dpc` and `cur` are the DSU thread's state.
- `state`, `active`, `fromRn` and `installed` are the request state, `_active_dsu`, `from_rn` and the `install_dsu` chain.
- `sdMods` and `modsAtPrepare` are the system-dictionary counter and the value recorded at prepare.
- `cpc` is the state of each caller of `invoke_dsu_common`.

Actions:
- `InvokeDSU` and `WaitRequestDone` are the two halves of `invoke_dsu_common`.
- `NextTask` and `DSUThreadLoop` are the DSU thread's loop.
- `DoitPrologue` is `doit_prologue` together with prepare. Prepare may fail after flagging the classes it got through.
- `Doit` is `DSU::update` plus doit's state assignment (`DoitResult`). It uses
  `SwapClass` (`swap_class`), `InstallReturnBarrierAllThreads` and
  `FinishActiveDSU` (`install_dsu`, `increment_system_rn`).
- `CallMethod` and `ReturnMethod` are interpreter calls and returns. A return into a patched frame runs `InvokeReturnBarrier` (the whole `invoke_return_barrier`, including the continuous-update loop of `check_single_thread` and `RepairSingleThread`).
- `LoadClass` is another thread modifying the system dictionary.
- `DoitFailed` is `DSU::update` raising an exception in step 2, for example
  from a class's update in `update_class_loaders`. It applies to any subset
  of the request's classes, namely those updated before the exception.
  `repair_application_threads` and `finish_active_dsu` are skipped, and
  `doit` sets FAILED. It belongs to `FailingSpec` only. With the two requests
  of the `quiescence` run, both changing `C`, it breaks `FrameCodeAlive` (see
  `MC_DSUQuiescence_update_failed.cfg`).
- The stack walks are recursive operators: `CheckThread` and `CheckSingle` are the two checks, `RepairFrames` is the re-pointing of frames.

Fairness: weak fairness on the DSU thread's steps, because it is a dedicated
thread that runs whenever it has a task and the VM thread executes its
operation. Weak fairness also on a sync caller taking `DSURequest_lock`. There
is no fairness for application threads: a thread may stay in a method forever,
which is exactly the case return barriers exist for. Fairness matters only to
the liveness properties of the configurations `sync_lost_wakeup` and
`MC_DSUQuiescence_BarrierWaitEnds.cfg`; the `quiescence` run checks safety.

Bounds: 2 threads; class `C` with methods `ma`, `mb`; class `D` with `md`
(safety run only); 2 requests, the first changing `ma` and the second `mb`; at
most 2 frames per thread; 1 class load. These bounds are enough to produce:
- a restricted frame under an unchanged frame (so a barrier is placed);
- an unchanged frame of a dying class (so it is repaired);
- a frame of an unchanged class;
- a thread with no Java frames at the safepoint (so it lags);
- two requests whose notifications interleave with both callers;
- prepare failures and a system modification between prepare and doit.

`MAX_REVISION_NUMBER` is 100, as in the code, so two requests never reach
it. `MC_DSUQuiescence_rn_overflow.cfg` scales it to 2 to show what the
101st update does.

Threads are symmetric (they start alike and every action quantifies over
them), and the `quiescence` run checks only invariants, so it uses symmetry
reduction over the two threads.

Two branches of `invoke_return_barrier` are never reached in the checked
configurations. The first is the `update_this_thread` branch: a thread behind
the system revision never holds a barrier id, because only threads at the
system revision get one. The second is the `ShouldNotReachHere` branch. Both
are modelled, so a change that makes them reachable would show up.

`CHECK_DEADLOCK FALSE`: the only states with no successor are those in which
every application thread is blocked forever in `waitRequest` and the DSU thread
is idle. That is the hang of `MC_DSUQuiescence_BarrierWaitEnds.cfg` (see the
hazard at `dsu.cpp:5544`); the system really stops there.

### `ObjectMigration` (with `MC_ObjectMigration`)

This module models the lazy transformation of one stale object by concurrent
application threads, across a chain of class versions `1..NV`. A version's
layout is `Off[v]`: a field's slot offset, where 0 means the field is absent.

State:
- `okl` is the object's klass: a version class (`plain`), the new inplace class of a mixed object (`inplace`), or a `stale_new_class` (`temp`).
- `mark` is its mark word: the prototype header, a hashed header, or a phantom pointer (`Mixed(p)`).
- `ins` and `inCap` are the inplace object's slots and size.
- `ph[p]` is a phantom object from `PhIds`: its size, slots and mark.
- `sysRn` is the system revision. All threads run at it, because the update is applied at a safepoint.
- `pc`, `lk`, `owner`, `tr` and `proto` are per-thread state:
  - `pc` is the thread's place in `transform_object_common`;
  - `lk` is the klass whose mirror it locks;
  - `owner` is the mirror lock;
  - `tr` holds the arguments of `run_transformer`;
  - `proto` is the prototype object of `run_default_transformer`.
- `val` is the Java view of the fields, used to state what must survive.
- `oob` records any write past the end of an object.

Layout operators (from `compute_and_set_fields` / `require_*`):
- `MinSizeUpTo` is the minimal size of the object over the version chain.
- `InPhantom` holds for a field that ends past that minimal size.
- `Matched` is the set of matched fields.
- `ClearWrites` is the 0x04 clear entry.
- `NewInplace` and `StaleNewClass` give the extra classes an update builds.

Actions:
- `ApplyUpdate` installs the next version at a safepoint. `AtSafepoint` says
  where a thread can be then: idle, blocked on a mirror, inside the no-lock
  loop (`check_class_initialized` and `allocate_instance` of a case; the
  classes the case read are installed versions, so the update cannot change
  them), or in `link_mixed_object`'s slow path (`revoke_and_rebias`).
- `TransformObject` and `LockMirror` are the pre-check and the `ObjectLocker` of `transform_object_common`.
- `TransformDone` and `ReplaceKlass` are the exits of the no-lock loop and its replace-klass branches.
- `TransformBegin` is the case analysis of the loop plus `run_default_transformer`'s first pass and clear.
- `SetStaleNewClass` is the temp klass plus the link, relink or unlink of the phantom.
- `LinkMixedObject` and `LinkMixedObjectSlow` are the mark CAS and its slow path.
- `TransformEnd` is `realloc_decreased_object`, the second pass and `set_klass`.
- `ReadObject`, `WriteField` and `HashObject` are the accesses that call `transform_object`. They are not in these sources and are modelled from the layout.

No fairness is assumed and only safety is checked.

Bounds:
- 1 or 2 threads;
- 2 fields;
- values {0,1};
- 2-4 versions;
- 2 phantom objects;
- at most 1-2 field writes.

Each configuration's layout chain is chosen to reach one case of the loop:
- `OffShrinkReplaceMixed` (sequential run): simple→simple shrinking, then replace-klass, then simple→mixed;
- `OffSimpleToMixed`: simple→mixed, raced by a hash and a second thread;
- `OffSimpleChain`: simple→simple twice;
- `OffMixedToMixed` and `OffMixedToSimple`: a second update of a mixed object.

Threads are symmetric.

### `UpdatingType` (with `MC_UpdatingType`)

This module models the classification of the classes of one request: the
patch builder's class list, `DSUClassLoader::prepare` with `DSUClass::prepare`
(super class and interfaces first), `refresh_updating_type`,
`compare_and_normalize_class`, `Javelus::join` and `remove_unchanged_classes`.

- A class version is a record of access flags, local interfaces, instance
  fields (name, signature, offset) and a name-sorted method array (name,
  signature, flags, body). `Descs[c]` is the set of versions a class may have.
  `Init` picks an old version and a new one (the same one for a class the
  request does not redefine).
- The type constants are the numbers of `dsu.hpp`. `Join` is `Javelus::join`,
  including its numeric maximum over the flag types.
- `MethodWalk` is a RECURSIVE operator for the parallel walk over the two
  method arrays: added, deleted, matched, and the forward search among
  overloads with its `at_put` swap (`LookAhead`, `Swap`).
- `PrepareRec`, `PrepareSuperClass` and `PrepareInterfaces` are the recursive
  preparation; `RemoveFromRest` is the list filter.
- Actions: `ParsePatch` (the class list in any order), `PrepareClass` (one
  class of the list) and `FinishPrepare` (`remove_unchanged_classes` and the
  result `DSU::prepare` reports).

The tree configuration has an interface `cI`, a class `cA` implementing it,
and its subclass `cB`, all redefined. It ranges over all small changes:
methods added, deleted, overloaded, re-flagged or given a new body, and a
field added. That reaches the added, deleted and matched branches of the
walk and the search that finds an overload further on and swaps it forward.
With at most two overloads of a name, the look-ahead never skips a candidate
and continues; that branch of `LookAhead` is modelled but not reached. `SpecType` is the classification the comments
and the enum describe, with a field's signature compared as a signature.

### `ClassUpdate` (extends `UpdatingType`; checked through `MC_UpdatingType`)

This module is the class half of `DSU::update`. After `FinishPrepare` reports
"prepared", one action, `UpdateClassLoaders`, runs `DSUClass::update` on every
class of the class list, in list order (`classes_do`). The VM thread does this
at a safepoint, so the whole pass is one step. A class's update is one of:
- `SwapClass` for `DSU_CLASS_BC`, with `UpdateSubklassVtable`;
- `RedefineClass` for the method and field types, which runs
  `InstallNewVersion`, the stale-vtable check, then `PostFixOldVersion`,
  `PostFixNewVersion`, `PostFixNewInplaceNewClass`, `PostFixStaleNewClass`
  and `PostFixVtableAndItable`.

The klass world is a record of functions over klasses `<<class, role>>`:
- roles: `old`, the loaded Klass*; `new`, the version loaded from the patch;
  `inplace` and `temp`, the clones prepare builds;
- per klass: which class file's methods array it holds, its super, its
  vtable, `born_rn`/`dead_rn`, `stale`, `next`/`prev` and `dsu_state`;
- per class: the dictionary entry (the live klass).

A `Method*` is `<<class, class file, slot>>`. It belongs to whichever klass
holds that methods array, which is how `swap_class`'s exchange of method
arrays moves methods between klasses. A vtable is a sequence of `Method*`s,
indexed as HotSpot indexes it: first the inherited entries, in the super's
order, then the new entries, in methods-array order. `PostFixVtableAndItable`
copies by index up to the shorter length (2416-2473). `undefine_class`
retargets inherited entries by index (1905-1946).

A class file also carries a constant pool. For each file the world records:
- the resolved Class entries (`cpk`);
- the resolved call sites (`cpc`);
- the receiver-klass cache (`rcv`).

`ResolvedConstantPools` builds these from the `Calls` constant. The pool
travels with the methods array, so `swap_class` exchanges it too.

The pass also covers the other class update types:
- At prepare, `CollectClassesToRelink` (2556-2663) marks an unchanged loaded
  class `will_be_recompiled` when its pool resolves a swapped or redefined
  class, or a method of one.
- After the pass, `RelinkCollectedClasses` (2683-2690) runs `RelinkClass`
  (`relink_class`, 1948-2027) on each marked class.
- `UndefineClass`, for `DSU_CLASS_DEL`, marks the old klass deleted and stale.
  It repoints each inherited vtable entry whose holder is already
  `has_been_redefined` at that holder's next version.
- `DefineClass`, for `DSU_CLASS_ADD`, installs the new klass.
- `StubClass` handles `DSU_CLASS_STUB`, and `RelinkClass` also handles
  `DSU_CLASS_MC`.

Two parts are HotSpot code outside this repository; they are modelled by what
they produce:
- `InitVtable` is `klassVtable::initialize_vtable`;
- `LoadedWorld` is the state after prepare. It includes the super a new
  version is loaded with: the super's new version when the patch swaps or
  redefines the super. `redefine_class`'s own check of a stale new super
  (2059-2065) presumes this.

`UpdateMayFail` lets a class's update raise an exception at its first `CHECK`.
The exception stays pending, so `classes_do` stops there.

The state after the pass is kept as `LiveView`. For each class it records:
- the live klass;
- whether the class was deleted;
- its super;
- the vtable indices held by stale klasses;
- the stale entries of its constant pool.

Properties:
- `LiveDispatchCurrent` (checked in `ut_tree`): no live class dispatches to a
  method of a stale klass, for every class-list order.
- `RelinkedCallsCurrent` (checked in `ut_tree`): after the pass, no live
  undeleted class has a constant pool that names a stale klass or a method of
  one. Its mutant relinks only the classes that resolve a redefined class.
- `LiveSuperLive` (cfg-only `super_order`): the super of every live class is
  the live class of its super.
- `StaleObjectDispatch` (cfg-only `stale_dispatch`): a class's old and new
  vtables agree on every index the old one has. It fails when a class gains a
  method that shifts its entries, because `PostFixVtableAndItable` copies by
  index.
- `DeletedDispatchInherited` (cfg-only `delete_sub`): each inherited entry of
  a deleted class follows its super's live vtable. It fails when the deleted
  subclass comes before its redefined super in the class list. The super is
  not yet `has_been_redefined`, so `undefine_class` leaves the entries on the
  old super's methods.

`relink_unlisted` checks `RelinkedCallsCurrent` with a caller that reaches a
method of a redefined class only through a subclass's vtable. `should_relink`
checks a method's holder for `will_be_swapped && will_be_redefined`, which is
never true. The caller is therefore not collected, and its pool keeps the
stale `Method*`.

`ResolvingSpec` adds `ResolveCallSite` to `UpdateSpec`. In this step an
application thread resolves a call site (`LateCalls`) after prepare and before
the safepoint. Prepare runs in `doit_prologue` in the DSU thread. The
system-dictionary counter that `doit` compares does not move on resolution.
With `MC_UpdatingType_late_resolve.cfg`, TLC finds `RelinkedCallsCurrent`
violated: the caller was not collected at prepare, so it keeps a stale
profiled receiver. The passing runs use `UpdateSpec`, and their `late` stays
empty.

Not modelled: itables, static fields and mirrors.

### `EagerUpdate` (with `MC_EagerUpdate`)

This module models the eager-update protocol, with three threads and two
objects.

- `rn`/`trn` are the system and thread revisions, and `bar` the barrier type.
- `cur[o]` is the revision an object's class belongs to. Every update
  redefines the class of every object, so `o` is stale for thread `t` when
  `cur[o] < trn[t]`.
- `cands`, `beUpdating` and `hasBeenUpdated` are the statics of `DSUEagerUpdate`.
- `elock` and `mowner` are `DSUEagerUpdate_lock` and the class mirror's monitor.

Actions:
- `DSUUpdate` is the object part of `DSU::update`:
  - `repair_application_threads` (only threads without a barrier advance);
  - `collect_dead_instances_at_safepoint`, which may fail;
  - `configure_eager_update`;
  - `install_eager_update_return_barrier`.
- `FireBarrier` is the eager branch of `invoke_return_barrier`. A lagging
  thread takes the `update_this_thread` branch instead.
- The steps of `start_eager_update` are `LockEager`, `EagerWait`, `EagerLeave`,
  `EagerStart`, `EagerNext`, `EagerTransformed`, `EagerFail` (a pending
  exception) and `EagerFinish`.
- `AccessObject`, `LockMirror` and `LazyTransformed` are a lazy transformation
  by a thread that has not fired its barrier yet.

A safepoint is reached by threads running Java code, blocked on a lock or in
`wait()`, and by threads inside a transformation: allocation and custom
transformers reach safepoints, and the comment at `dsu.cpp:6021` says a DSU
may happen there. That includes the eager thread, which then still owns
`DSUEagerUpdate_lock`; the VM thread takes no lock in `DSU::update`.
Fairness (used by the liveness run) is strong on lock acquisition and weak on
the steps a thread takes inside the VM. Firing a barrier and accessing an
object are up to the program, so they get no fairness.

Bounds: 2 updates (so a thread can carry the previous update's barrier into
the next one), 3 threads (an eager thread, a waiter, a lazy thread), 2
candidates. Threads are symmetric in the safety run.

## Runs

| Run | Result | What it shows |
|---|---|---|
| `quiescence` | pass | `FrameBodyIntact`: no frame is re-pointed to a method whose bytecode differs from what it was executing. `FrameCodeAlive`: no thread's revision passes the dead_rn of code on its stack. Both hold across 2 threads, 2 requests, failed prepares and class loads. |
| `finished_not_applied` | violation | `FinishedMeansInstalled`: finding 1. |
| `sync_lost_wakeup` | violation | `SyncCallerReturns`: finding 2. |
| `om_sequential` | pass | Over shrink, replace-only and simple→mixed updates: `FieldsPreserved` (every field reads back its Java value once no transformation is in progress), `ShapeConsistent` (an inplace klass goes with a phantom mark and a big enough phantom with a real header) and `WritesInBounds`. |
| `om_concurrent` | pass | Two threads and a hash racing the link CAS: `ShapeConsistent`. A hash installed between the mark read and the link CAS sends the transformer to the slow path, which must carry the hashed header into the phantom. |
| `om_lost_update` | violation | `FieldsPreserved`: finding 3. |
| `om_mixed_fields_lost` | violation | `FieldsPreserved`: finding 4. |
| `ut_tree` | pass | For every patch order and every small change: `MethodsMatched` (the walk gives each old method the type of its match by name and signature, and its index), `SubclassAtLeastSuper` (a class is never classified below its redefined super class or interface). Composed with `ClassUpdate`: `LiveDispatchCurrent`. After swap and redefine have run over the list, in every order, no live class's vtable reaches a method held by a stale klass. This rests on `swap_class` resetting the swapped class to `dsu_none` before `update_subklass_vtable_and_itable`: mutant `SwapClassKeepState` breaks it when a subclass is swapped before its super. `RelinkedCallsCurrent`: once relinking is done, no undeleted class's constant pool names a stale klass or method. A caller class `cY` resolves classes and methods of the tree. Mutant `ShouldRelinkRedefinedOnly` breaks it by skipping the callers of swapped classes. |
| `ut_field_sig` | violation | `ClassifiedAsSpec`: finding 5. |
| `eager_protocol` | pass | `SkipsOnlyCurrent`: the eager loop only skips a candidate that is already at the system revision. The thread running it is never behind that revision, even with barriers carried over from an earlier update. |
| `eager_exception_hang` | violation | `EagerBarrierReturns`: finding 6. |
| `eager_lazy_race` | violation | `TransformExclusive`: finding 7. |

These configurations are not listed as runs. Each reproduces a defect recorded
as a hazard in `PROJECT.json`:
- `MC_DSUQuiescence_SyncReturnAfterAnswer.cfg`: a sync caller returns early.
- `MC_DSUQuiescence_update_failed.cfg`: `FrameCodeAlive` is violated under
  `FailingSpec`. Request 1 fails after swapping `C`, and the revision stays
  put. Request 2 swaps `C` again with the same `to_rn`. Repair then moves a
  frame onto the version request 1 left, which is dead at the thread's new
  revision (`dsu.cpp:204`).
- `MC_DSUQuiescence_rn_overflow.cfg`: `FrameCodeAlive` is violated with
  `MAX_REVISION_NUMBER` scaled to 2. After the second update, the revision
  reaches the `dead_rn` of every live class (`dsu.cpp:7119`). A frame of the
  unchanged class `D` is then repaired past the end of its version chain.
- `MC_DSUQuiescence_active_assert.cfg`: `SetActiveOnlyWhenNone`, the assert
  of `set_active_dsu` (`dsu.cpp:4880`), is violated. An interrupted request
  reported FINISHED is neither finished nor discarded, so the next prologue
  finds it still active.
- `MC_DSUQuiescence_BarrierWaitEnds.cfg`: a barrier thread blocks forever.
- `MC_DSUQuiescence_VersionLifetimesAbut.cfg`: `swap_class` gives overlapping
  lifetimes.
- `MC_ObjectMigration_transform_twice.cfg`: two transformers run across a
  version chain.
- `MC_ObjectMigration_hash_lost.cfg`: the identity hash is lost.
- `MC_EagerUpdate_update_in_loop.cfg`: `EagerDoneMeansCurrent` is violated.
  A second DSU runs while the eager thread transforms its second candidate.
  `configure_eager_update` replaces `_candidates` and clears
  `_has_been_updated` under the running loop (`dsu.cpp:7296`). The loop ends
  at its old `candidates_size` and sets `_has_been_updated`, with the first
  candidate still at the old revision.
- `MC_UpdatingType_super_order.cfg`: `LiveSuperLive` is violated. A
  redefined subclass listed before its swapped super keeps the stale scratch
  klass as its super (`post_fix_new_version`, `dsu.cpp:2281`).
- `MC_UpdatingType_update_fail.cfg`: `LiveDispatchCurrent` is violated when a
  class's update throws (`dsu.cpp:1699`). The rest of the list is skipped, and
  a subclass whose super was already redefined keeps the super's old, stale
  method in its vtable.
- `MC_UpdatingType_stale_dispatch.cfg`: `StaleObjectDispatch` is violated. A
  class gains a method, and its inherited entries shift. `PostFixVtableAndItable`
  copies the new vtable into the old one by index (`dsu.cpp:2424`). The old
  klass's objects are then left dispatching through mismatched entries.
- `MC_UpdatingType_relink_unlisted.cfg`: `RelinkedCallsCurrent` is violated. A
  caller resolves a redefined class's method through a subclass. It is not
  collected for relinking (`dsu.cpp:2647`), and its pool keeps the stale
  `Method*`.
- `MC_UpdatingType_delete_sub.cfg`: `DeletedDispatchInherited` is violated
  when a deleted subclass comes before its redefined super in the class list
  (`dsu.cpp:1935`).
- `MC_UpdatingType_late_resolve.cfg`: `RelinkedCallsCurrent` is violated
  under `ResolvingSpec`. A call site is resolved after
  `collect_classes_to_relink` ran in prepare (`dsu.cpp:109`), so it is never
  relinked.
- `MC_ObjectMigration_mixed_overflow.cfg` and
  `MC_ObjectMigration_mixed_to_simple.cfg`: finding 4.

With `CanFail = FALSE`, `EagerBarrierReturns` holds. The `while (_be_updating)
wait()` loop is then never entered, because the updating thread keeps the lock
for the whole loop.

## Findings

1. **Interrupted requests are reported FINISHED** (`dsuOperation.cpp:166`).
   `DSU::update` sets INTERRUPTED or SYSTEM_MODIFIED and returns
   `DSU_ERROR_NONE`. `doit` then sets FINISHED. As a result:
   - the retry branches of `dsu_thread_loop` are dead;
   - the caller is told the update is done;
   - `_active_dsu` stays set. A thread that then fires the barrier of that
     request waits untimed in `waitRequest` (`dsu.cpp:5544`).
2. **A sync caller can wait forever** (`dsu.cpp:4730-4735`). The task is
   enqueued before the lock is taken, so the answer's notification can come
   before the wait and be lost. The wait also has no predicate, so any other
   `notify_all` releases every sync caller early (4735, and 7249-7254).
3. **A thread can slip through another's unfinished transformation**
   (`dsu.cpp:6034`). `run_default_transformer` sets the temp klass at 6361,
   before its second copy pass. A second thread locks the temp klass's mirror,
   which is not the one the transformer holds, and returns true at 6034. Its
   field write is then overwritten by the second pass.
4. **Updating an object that is already mixed is broken** (`dsu.cpp:6437`).
   `run_transformer` passes the inplace object as the old phantom, so
   `from_simple` is always true. The fields of the old phantom are read from
   the inplace object, and the phantom is linked instead of relinked or
   unlinked. On the same path:
   - the 0x04 clear entry overruns the smaller inplace object (893);
   - mixed→simple leaves the klass NULL during the transformation (6110).
5. **A field whose type changes is not seen as a change** (`dsu.cpp:1460`).
   `compare_and_normalize_class` reads both "signatures" with
   `field->name()`. A field that keeps its name and offset but changes its type
   leaves the class NONE, so its objects are never transformed.
6. **A failed eager update blocks every later eager barrier** (`dsu.cpp:7354`).
   `start_eager_update` returns on a pending exception without clearing
   `_be_updating` and without `notify_all`. The threads already waiting, and
   every thread that fires an eager barrier later, wait forever.
7. **Eager and lazy transformation of one object race** (`dsu.cpp:6195`). The
   eager thread skips the class mirror's lock because it owns
   `DSUEagerUpdate_lock`. A thread that has not fired its barrier yet keeps
   running and transforms the same object under the mirror lock.

A further defect is recorded as a hazard: `populate_sub_classes` never runs,
because of `if (old_version = NULL)` at `dsu.cpp:3519`.

## Plan

This list is in order of importance; later sittings follow it.

1. Done: `DSUQuiescence`, `ObjectMigration` (in part), `UpdatingType`,
   `EagerUpdate`, `ClassUpdate` (swap and redefine, with exceptions).
2. `ObjectMigration`: custom transformers (Java code on the temp version),
   threads whose revision lags, and exhaustion of the 10 CAS retries.
3. `FieldLayout`: `compute_and_set_fields` and the matched-field tables over
   small class shapes. Properties: every matched offset lies inside the source
   and destination objects, and the clear ranges never overlap copied fields.
4. Done: `ClassUpdate` undefine (DEL), relink (MC), define (ADD) and stub,
   and call sites resolved between prepare and the safepoint.
   Still open:
   - a patch that deletes a super class (spec scenario 7; it needs a `Super`
     that differs between versions);

   Done: `DSUQuiescence` `MAX_REVISION_NUMBER` overflow, with a scaled
   bound, and the FAILED path of `DSU::update` (`DoitFailed`).
5. An abstract specification of the request path, once the FINISHED
   overwrite of finding 1 is fixed: with it in place every request is
   answered whatever the retry branches would do, so a refinement that
   promises answers says nothing about the code.
6. `UpdatingType`: `populate_sub_classes` as the code intends it.

## Not modelled

- The interpreter's field access and `ObjectSynchronizer`: not in these
  sources. `ObjectMigration` models them from the object layout.
- Field types and widths: every field is one slot, and a value is 0 or 1.
- Patch text parsing and class-file loading: input handling. A request is its
  class list and the class versions it carries.
- Reflection fix-ups: only their modification counter matters to the
  protocol, and it is folded into `sdMods`.
- Compiled frames and deoptimisation: frames are treated as interpreted.
- Timing of `sleep(1000)` and `waitRequest(time)`: a timed wait is a step that
  may happen at any time.
- The heap collection after an eager update with mixed objects: a GC request,
  which changes nothing the properties tell apart.
- Flags (`dsuFlags.hpp`, `ciFlags.hpp`): declarations only.
- The eager-wakeup barrier type (`EagerWakeupDSU`). The flag is not declared
  in these sources, so its default is unknown. It changes only how a barrier
  thread waits: with a timeout, and only the last thread wakes the DSU
  thread. The models already let a timed wait end at any step.
- Reflection update. `collect_changed_reflections` and
  `update_changed_reflection` scan the heap and copy fields of
  `java.lang.reflect` objects. Only the modification counter matters to the
  request path, and it is folded into `sdMods`.
- The versioned class hierarchy. `mark_versioned_class_hierarchy`, with
  `mark_single_class` and `collect_all_super_classes`, has no caller. Prepare
  does set the type-narrowing marks, in `compute_youngest_common_super_class`
  and `compute_interfaces_information`. Only the JIT compiler reads them, and
  it is not in these sources. The marks also change only when a class's super
  changes between versions, and the class shapes here keep the super fixed.
