--------------------------- MODULE DSUQuiescence ---------------------------
(***************************************************************************)
(* Javelus dynamic update requests and application-thread quiescence.      *)
(*                                                                         *)
(* Actors:                                                                 *)
(*  - callers of invoke_dsu_common, which enqueue a DSUTask and, when      *)
(*    sync, wait once on DSURequest_lock;                                  *)
(*  - the DSU thread (Javelus::dsu_thread_loop), which runs each request   *)
(*    through VM_DSUOperation: doit_prologue (set_active_dsu, prepare) in  *)
(*    the DSU thread, doit (DSU::update) at a safepoint;                   *)
(*  - application threads, which call and return from methods, and which   *)
(*    enter Javelus::invoke_return_barrier when they return into a frame   *)
(*    whose return pc was patched.                                         *)
(*                                                                         *)
(* Data abstraction: a class is a chain of versions; version g of class c  *)
(* is klass[c][g] with its born_rn, dead_rn and the methods whose bytecode *)
(* changed from version g-1.  A frame is the method it runs, the class     *)
(* version its Method* belongs to, and the bytecode body it started with.  *)
(* Every class update is a body change (DSU_CLASS_BC, swap_class).         *)
(***************************************************************************)
EXTENDS Naturals, Sequences, FiniteSets

CONSTANTS
    Threads,              \* application JavaThreads
    Classes,              \* application classes
    Methods,              \* methods declared by those classes
    Holder,               \* Holder[m]: the class that declares m
    Updates,              \* Updates[r]: methods whose bytecode request r changes
    Sync,                 \* requests invoked with sync = true
    MaxDepth,             \* bound on Java frames per thread
    MaxMods,              \* bound on system-dictionary modifications
    MAX_REVISION_NUMBER   \* Javelus::MAX_REVISION_NUMBER, dead_rn of a live class

Requests == 1..Len(Updates)

ASSUME /\ Holder \in [Methods -> Classes]
       /\ \A r \in Requests : Updates[r] \subseteq Methods /\ Updates[r] # {}
       /\ Sync \subseteq Requests
       /\ MaxDepth \in Nat \ {0} /\ MaxMods \in Nat
       /\ MAX_REVISION_NUMBER \in Nat \ {0}

\* DSURequestState
States == {"INIT", "DISCARDED", "INTERRUPTED", "EMPTY",
          "FINISHED", "FAILED", "SYSTEM_MODIFIED"}
\* the states in which dsu_thread_loop notifies and drops the task
Answered == {"FINISHED", "EMPTY", "DISCARDED", "FAILED"}

VARIABLES
    klass,        \* [Classes -> Seq(version)]: the class version chain
    restricted,   \* set of <<m, g>>: Method* flagged is_restricted_method
    sysRn,        \* Javelus::_latest_rn
    rev,          \* JavaThread::current_revision
    stack,        \* Java frames of each thread, newest last
    barrierId,    \* return_barrier_id: a frame index, 0 for NULL
    barrierType,  \* return_barrier_type
    patched,      \* frame indices whose return pc is the barrier entry
    tpc,          \* application thread: running or blocked in waitRequest
    queue,        \* the DSU thread's task queue
    dpc,          \* DSU thread program counter
    cur,          \* request of the task being processed, 0 if none
    state,        \* request_state of each request's DSU
    active,       \* Javelus::_active_dsu, 0 for NULL
    fromRn,       \* DSU::from_rn of each request
    installed,    \* DSUs put in the installed chain by install_dsu
    sdMods,       \* SystemDictionary::number_of_modifications
    modsAtPrepare,\* _system_dictionary_modification_number_at_prepare
    cpc           \* caller of invoke_dsu_common

vars == <<klass, restricted, sysRn, rev, stack, barrierId, barrierType,
          patched, tpc, queue, dpc, cur, state, active, fromRn, installed,
          sdMods, modsAtPrepare, cpc>>

Version == [born : Nat, dead : Nat, changed : SUBSET Methods]
Frame == [m : Methods, g : Nat \ {0}, b : Nat]

\* dead_rn of the InstanceKlass holding the frame's Method*, in chain k
DeadIn(k, f) == k[Holder[f.m]][f.g].dead
Dead(f) == DeadIn(klass, f)
\* the bytecode body of m in version g: how many versions up to g changed it
Body(m, g) == Cardinality({i \in 1..g : m \in klass[Holder[m]][i].changed})
IsRestricted(f) == <<f.m, f.g>> \in restricted
Latest(c) == Len(klass[c])

ChangedClasses(r) == {Holder[m] : m \in Updates[r]}

\* DSURequest_lock->notify_all(): wakes every waiter of either kind
NotifyRequest ==
    /\ cpc' = [r \in Requests |-> IF cpc[r] = "waiting" THEN "done" ELSE cpc[r]]
    /\ tpc' = [t \in Threads |-> IF tpc[t] = "wait" THEN "run" ELSE tpc[t]]

-----------------------------------------------------------------------------
(* Stack walks.                                                            *)

\* Variant: a restricted frame counts only if its class already dies at
\* to_rn, as in check_single_thread; dead_rn is set later, in update.
CheckThreadDeadRn(t) ==
    LET s == stack[t]
        RECURSIVE W(_, _, _, _)
        W(i, doSet, bid, safe) ==
            IF i = 0 THEN [safe |-> safe, bid |-> bid]
            ELSE IF IsRestricted(s[i]) /\ Dead(s[i]) = sysRn + 1
                 THEN W(i - 1, TRUE, bid, FALSE)
            ELSE IF doSet THEN W(i - 1, FALSE, i, safe)
            ELSE W(i - 1, FALSE, bid, safe)
    IN IF rev[t] = sysRn THEN W(Len(s), FALSE, barrierId[t], TRUE)
       ELSE [safe |-> FALSE, bid |-> barrierId[t]]

\* check_application_threads, for one thread at the system revision: walk
\* from the newest frame; a restricted frame makes the thread unsafe and
\* asks for a barrier at the next non-restricted caller.  A thread behind
\* the system revision is unsafe and keeps its barrier id.
CheckThread(t) ==
    LET s == stack[t]
        RECURSIVE W(_, _, _, _)
        W(i, doSet, bid, safe) ==
            IF i = 0 THEN [safe |-> safe, bid |-> bid]
            ELSE IF IsRestricted(s[i]) THEN W(i - 1, TRUE, bid, FALSE)
            ELSE IF doSet THEN W(i - 1, FALSE, i, safe)
            ELSE W(i - 1, FALSE, bid, safe)
    IN IF rev[t] = sysRn THEN W(Len(s), FALSE, barrierId[t], TRUE)
       ELSE [safe |-> FALSE, bid |-> barrierId[t]]

\* check_single_thread(thread) for the step from revision r to r + 1:
\* only frames of classes dying at r + 1 are inspected, and once a
\* restricted frame is met every older frame overwrites the barrier id.
CheckSingle(r, s, bid0) ==
    LET RECURSIVE W(_, _, _, _)
        W(i, doSet, bid, safe) ==
            IF i = 0 THEN [safe |-> safe, bid |-> bid]
            ELSE IF Dead(s[i]) = r + 1 /\ IsRestricted(s[i])
                 THEN W(i - 1, TRUE, bid, FALSE)
            ELSE W(i - 1, doSet, IF doSet THEN i ELSE bid, safe)
    IN W(Len(s), FALSE, bid0, TRUE)

\* Variants: repair frames dying at the from revision; repair frames whose
\* class dies at rn or later (the dead_rn >= sys_to_rn test of the asserts).
RepairFramesFromRn(k, s, rn) ==
    [i \in DOMAIN s |-> IF DeadIn(k, s[i]) = rn - 1
                        THEN [s[i] EXCEPT !.g = @ + 1] ELSE s[i]]
RepairFramesAtOrAfter(k, s, rn) ==
    [i \in DOMAIN s |-> IF DeadIn(k, s[i]) >= rn
                        THEN [s[i] EXCEPT !.g = @ + 1] ELSE s[i]]

\* Re-point every frame whose class dies at rn to the next version of its
\* method, keeping the bci (repair_application_threads and
\* repair_single_thread); the frame keeps the body it was executing.
RepairFrames(k, s, rn) ==
    [i \in DOMAIN s |-> IF DeadIn(k, s[i]) = rn
                        THEN [s[i] EXCEPT !.g = @ + 1] ELSE s[i]]

\* repair_single_thread, after the thread's revision was incremented to
\* rn: frames whose class dies at rn are re-pointed as above.
RepairSingleThread(s, rn) == RepairFrames(klass, s, rn)

\* The update loop of invoke_return_barrier once the revision was bumped:
\* while (check_single_thread) { repair_single_thread; increment }.
\* repair_single_thread repairs frames dying at the current revision.
RECURSIVE ContinuousUpdate(_, _, _)
ContinuousUpdate(r, s, bid) ==
    IF r + 1 > sysRn THEN [rev |-> r, stack |-> s, bid |-> bid]
    ELSE LET chk == CheckSingle(r, s, bid)
         IN IF chk.safe THEN ContinuousUpdate(r + 1, RepairSingleThread(s, r), chk.bid)
            ELSE [rev |-> r, stack |-> s, bid |-> chk.bid]

-----------------------------------------------------------------------------
(* Initial state: no update has happened, every class has one version     *)
(* alive from revision 0, threads have no Java frames yet.                 *)

Init ==
    /\ klass = [c \in Classes |->
                  << [born |-> 0, dead |-> MAX_REVISION_NUMBER, changed |-> {}] >>]
    /\ restricted = {}
    /\ sysRn = 0
    /\ rev = [t \in Threads |-> 0]
    /\ stack = [t \in Threads |-> << >>]
    /\ barrierId = [t \in Threads |-> 0]
    /\ barrierType = [t \in Threads |-> "none"]
    /\ patched = [t \in Threads |-> {}]
    /\ tpc = [t \in Threads |-> "run"]
    /\ queue = << >>
    /\ dpc = "idle"
    /\ cur = 0
    /\ state = [r \in Requests |-> "INIT"]
    /\ active = 0
    /\ fromRn = [r \in Requests |-> 0]
    /\ installed = {}
    /\ sdMods = 0
    /\ modsAtPrepare = [r \in Requests |-> 0]
    /\ cpc = [r \in Requests |-> "init"]

-----------------------------------------------------------------------------
(* Callers of invoke_dsu_common.                                           *)

\* add_task, then for a sync request take DSURequest_lock
InvokeDSU(r) ==
    /\ cpc[r] = "init"
    /\ queue' = Append(queue, r)
    /\ cpc' = [cpc EXCEPT ![r] = IF r \in Sync THEN "locking" ELSE "done"]
    /\ UNCHANGED <<klass, restricted, sysRn, rev, stack, barrierId, barrierType,
                   patched, tpc, dpc, cur, state, active, fromRn, installed,
                   sdMods, modsAtPrepare>>

\* DSURequest_lock->wait(): a single wait, no predicate re-checked
WaitRequestDone(r) ==
    /\ cpc[r] = "locking"
    /\ cpc' = [cpc EXCEPT ![r] = "waiting"]
    /\ UNCHANGED <<klass, restricted, sysRn, rev, stack, barrierId, barrierType,
                   patched, tpc, queue, dpc, cur, state, active, fromRn,
                   installed, sdMods, modsAtPrepare>>

-----------------------------------------------------------------------------
(* The DSU thread.                                                         *)

\* next_task: take the oldest task
NextTask ==
    /\ dpc = "idle"
    /\ queue # << >>
    /\ cur' = Head(queue)
    /\ queue' = Tail(queue)
    /\ dpc' = "prologue"
    /\ UNCHANGED <<klass, restricted, sysRn, rev, stack, barrierId, barrierType,
                   patched, tpc, cpc, state, active, fromRn, installed, sdMods,
                   modsAtPrepare>>

\* VM_DSUOperation::doit_prologue.  A request in state INIT becomes the
\* active DSU and is prepared: DSUClass::prepare flags the changed methods
\* of each class it gets through as restricted; an error in any class (or
\* later in DSU::prepare) leaves the flags set, notifies and discards.
\* A request in any other state goes straight to doit.
DoitPrologue ==
    /\ dpc = "prologue"
    /\ IF state[cur] = "INIT"
       THEN \E prepared \in SUBSET ChangedClasses(cur), ok \in BOOLEAN :
              /\ ok => prepared = ChangedClasses(cur)
              /\ restricted' = restricted \cup
                   {<<m, Latest(Holder[m])>> : m \in {x \in Updates[cur] : Holder[x] \in prepared}}
              /\ active' = cur
              /\ fromRn' = [fromRn EXCEPT ![cur] = sysRn]
              /\ modsAtPrepare' = [modsAtPrepare EXCEPT ![cur] = sdMods]
              /\ IF ok
                 THEN /\ dpc' = "doit"
                      /\ UNCHANGED <<state, cpc, tpc>>
                 ELSE /\ NotifyRequest
                      /\ state' = [state EXCEPT ![cur] = "DISCARDED"]
                      /\ dpc' = "loop"
       ELSE /\ dpc' = "doit"
            /\ UNCHANGED <<restricted, active, fromRn, modsAtPrepare, state, cpc, tpc>>
    /\ UNCHANGED <<klass, sysRn, rev, stack, barrierId, barrierType, patched,
                   queue, cur, installed, sdMods>>

\* swap_class for a body-only change (DSU_CLASS_BC): the old Klass* takes
\* the new methods and stays the live class, with born_rn = from_rn; the
\* scratch class takes the old methods and dies at to_rn as a stale class
\* in the version chain.
SwapClass(c, r, toRn) ==
    [klass[c] EXCEPT ![Latest(c)].dead = toRn]
        \o << [born |-> fromRn[r], dead |-> MAX_REVISION_NUMBER,
               changed |-> {m \in Updates[r] : Holder[m] = c}] >>

\* install_return_barrier_all_threads: a thread whose check asked for a
\* barrier at a frame it still has gets that frame's return pc patched
\* (install_return_barrier_single_thread) and the wake-up barrier type;
\* barrierId' is the id the check left.
InstallReturnBarrierAllThreads(live) ==
    LET Patched(t) == barrierId'[t] # 0 /\ t \in live /\ barrierId'[t] <= Len(stack[t])
    IN /\ patched' = [t \in Threads |->
                        IF Patched(t) THEN patched[t] \cup {barrierId'[t]} ELSE patched[t]]
       /\ barrierType' = [t \in Threads |->
                        IF Patched(t) THEN "wakeup" ELSE barrierType[t]]

\* finish_active_dsu: install_dsu appends the request to the chain,
\* _active_dsu is cleared and increment_system_rn moves the revision.
FinishActiveDSU(r) ==
    /\ installed' = installed \cup {r}
    /\ active' = 0
    /\ sysRn' = sysRn + 1

\* VM_DSUOperation::doit: DSU::update returns DSU_ERROR_NONE on every path
\* taken here, and doit then sets the request state from that result.
DoitResult(updateState) == "FINISHED"

\* DSU::update at the safepoint, followed by doit's state assignment.
Doit ==
    /\ dpc = "doit"
    /\ LET r   == cur
           toRn == fromRn[r] + 1
           chk == [t \in Threads |-> CheckThread(t)]
           live == {t \in Threads : stack[t] # << >>}
           k2 == [c \in Classes |->
                    IF c \in ChangedClasses(r) THEN SwapClass(c, r, toRn) ELSE klass[c]]
           repaired == {t \in live : rev[t] + 1 = sysRn + 1}
       IN
       IF sdMods # modsAtPrepare[r]
       THEN \* system_modified(): SYSTEM_MODIFIED, returns DSU_ERROR_NONE
            /\ state' = [state EXCEPT ![r] = DoitResult("SYSTEM_MODIFIED")]
            /\ UNCHANGED <<klass, sysRn, rev, stack, barrierId, barrierType,
                           patched, active, installed>>
       ELSE IF \E t \in live : ~chk[t].safe
       THEN \* install_return_barrier_all_threads, INTERRUPTED
            /\ barrierId' = [t \in Threads |-> IF t \in live THEN chk[t].bid ELSE barrierId[t]]
            /\ InstallReturnBarrierAllThreads(live)
            /\ state' = [state EXCEPT ![r] = DoitResult("INTERRUPTED")]
            /\ UNCHANGED <<klass, sysRn, rev, stack, active, installed>>
       ELSE \* update_class_loaders, repair_application_threads,
            \* finish_active_dsu, FINISHED
            /\ klass' = k2
            /\ stack' = [t \in Threads |->
                           IF t \in repaired THEN RepairFrames(k2, stack[t], sysRn + 1)
                           ELSE stack[t]]
            /\ rev' = [t \in Threads |->
                         IF t \in repaired /\ barrierId[t] = 0 THEN rev[t] + 1 ELSE rev[t]]
            /\ FinishActiveDSU(r)
            /\ state' = [state EXCEPT ![r] = DoitResult("FINISHED")]
            /\ UNCHANGED <<barrierId, barrierType, patched>>
    /\ dpc' = "loop"
    /\ UNCHANGED <<restricted, tpc, queue, cur, fromRn, sdMods, modsAtPrepare, cpc>>

\* DSU::update at a DSU safe point whose step 2 raises an exception
\* (flush_dependent_code, update_changed_reflection, a class's update in
\* update_class_loaders or relink_collected_classes): the classes updated
\* before it stay swapped, each CHECK returns at once, so
\* repair_application_threads and finish_active_dsu never run, and doit
\* clears the exception and sets FAILED.
DoitFailed ==
    /\ dpc = "doit"
    /\ LET r    == cur
           live == {t \in Threads : stack[t] # << >>}
       IN /\ sdMods = modsAtPrepare[r]
          /\ \A t \in live : CheckThread(t).safe
          /\ \E done \in SUBSET ChangedClasses(r) :
               klass' = [c \in Classes |->
                           IF c \in done THEN SwapClass(c, r, fromRn[r] + 1) ELSE klass[c]]
          /\ state' = [state EXCEPT ![r] = "FAILED"]
    /\ dpc' = "loop"
    /\ UNCHANGED <<restricted, sysRn, rev, stack, barrierId, barrierType, patched,
                   tpc, queue, cur, active, fromRn, installed, sdMods,
                   modsAtPrepare, cpc>>

\* The branch of dsu_thread_loop taken after VMThread::execute returns.
\* SYSTEM_MODIFIED retries at once; INTERRUPTED retries after sleep(1000).
DSUThreadLoop ==
    /\ dpc = "loop"
    /\ CASE state[cur] \in {"FINISHED", "EMPTY"} ->
              /\ NotifyRequest
              /\ dpc' = "idle" /\ cur' = 0
              /\ UNCHANGED active
         [] state[cur] \in {"SYSTEM_MODIFIED", "INTERRUPTED"} ->
              /\ dpc' = "prologue"
              /\ UNCHANGED <<active, cur, cpc, tpc>>
         [] OTHER ->   \* DISCARDED, or an unexpected result
              /\ active' = 0
              /\ NotifyRequest
              /\ dpc' = "idle" /\ cur' = 0
    /\ UNCHANGED <<klass, restricted, sysRn, rev, stack, barrierId, barrierType,
                   patched, queue, state, fromRn, installed, sdMods, modsAtPrepare>>

-----------------------------------------------------------------------------
(* Application threads.                                                    *)

\* invoke a method: the call dispatches to the Method* of the latest version
CallMethod(t, m) ==
    /\ tpc[t] = "run"
    /\ Len(stack[t]) < MaxDepth
    /\ stack' = [stack EXCEPT ![t] = Append(@, [m |-> m, g |-> Latest(Holder[m]),
                                                b |-> Body(m, Latest(Holder[m]))])]
    /\ UNCHANGED <<klass, restricted, sysRn, rev, barrierId, barrierType,
                   patched, tpc, queue, dpc, cur, state, active, fromRn,
                   installed, sdMods, modsAtPrepare, cpc>>

\* Javelus::invoke_return_barrier, entered when returning into the patched
\* frame; s is the stack after the return.
InvokeReturnBarrier(t, s) ==
    LET bid == barrierId[t]
        cu  == ContinuousUpdate(rev[t] + 1, s, 0)
    IN
    IF bid = 0
    THEN /\ stack' = [stack EXCEPT ![t] = s]
         /\ patched' = [patched EXCEPT ![t] = @ \ {Len(s)}]
         /\ UNCHANGED <<rev, barrierId, barrierType, tpc>>
    ELSE IF rev[t] + 1 <= sysRn
    THEN \* update_this_thread: increment, continuous update, reinstall
         /\ stack' = [stack EXCEPT ![t] = cu.stack]
         /\ rev' = [rev EXCEPT ![t] = cu.rev]
         /\ barrierId' = [barrierId EXCEPT ![t] = cu.bid]
         /\ barrierType' = [barrierType EXCEPT ![t] =
                              IF cu.bid # 0 /\ cu.bid <= Len(s) THEN "wakeup" ELSE "none"]
         /\ patched' = [patched EXCEPT ![t] =
                              (@ \ {Len(s)}) \cup (IF cu.bid # 0 /\ cu.bid <= Len(s)
                                                   THEN {cu.bid} ELSE {})]
         /\ UNCHANGED tpc
    ELSE IF barrierType[t] = "wakeup"
    THEN \* do_retry: wake the DSU thread and wait for a notification
         /\ stack' = [stack EXCEPT ![t] = s]
         /\ barrierId' = [barrierId EXCEPT ![t] = 0]
         /\ barrierType' = [barrierType EXCEPT ![t] = "none"]
         /\ patched' = [patched EXCEPT ![t] = @ \ {Len(s)}]
         /\ tpc' = [tpc EXCEPT ![t] = IF active # 0 THEN "wait" ELSE "run"]
         /\ UNCHANGED rev
    ELSE \* ShouldNotReachHere
         /\ stack' = [stack EXCEPT ![t] = s]
         /\ tpc' = [tpc EXCEPT ![t] = "aborted"]
         /\ UNCHANGED <<rev, barrierId, barrierType, patched>>

\* return from the newest frame; a patched return pc enters the barrier
ReturnMethod(t) ==
    /\ tpc[t] = "run"
    /\ stack[t] # << >>
    /\ LET s == SubSeq(stack[t], 1, Len(stack[t]) - 1)
       IN IF Len(s) \in patched[t]
          THEN InvokeReturnBarrier(t, s)
          ELSE /\ stack' = [stack EXCEPT ![t] = s]
               /\ UNCHANGED <<rev, barrierId, barrierType, patched, tpc>>
    /\ UNCHANGED <<klass, restricted, sysRn, queue, dpc, cur, state, active,
                   fromRn, installed, sdMods, modsAtPrepare, cpc>>

\* another thread loads a class: SystemDictionary::number_of_modifications
LoadClass ==
    /\ sdMods < MaxMods
    /\ sdMods' = sdMods + 1
    /\ UNCHANGED <<klass, restricted, sysRn, rev, stack, barrierId, barrierType,
                   patched, tpc, queue, dpc, cur, state, active, fromRn,
                   installed, modsAtPrepare, cpc>>

-----------------------------------------------------------------------------
Next ==
    \/ \E r \in Requests : InvokeDSU(r) \/ WaitRequestDone(r)
    \/ NextTask \/ DoitPrologue \/ Doit \/ DSUThreadLoop
    \/ \E t \in Threads, m \in Methods : CallMethod(t, m)
    \/ \E t \in Threads : ReturnMethod(t)
    \/ LoadClass

\* The DSU thread and the VM thread run whenever they have work; a sync
\* caller eventually acquires DSURequest_lock.  Application threads get no
\* fairness: a thread may stay in a method forever.
Fairness ==
    /\ WF_vars(NextTask) /\ WF_vars(DoitPrologue) /\ WF_vars(Doit)
    /\ WF_vars(DSUThreadLoop)
    /\ \A r \in Requests : WF_vars(WaitRequestDone(r))

Spec == Init /\ [][Next]_vars /\ Fairness

\* the request path when DSU::update may raise an exception after the
\* safe-point check
FailingNext == Next \/ DoitFailed

FailingSpec == Init /\ [][FailingNext]_vars /\ Fairness

-----------------------------------------------------------------------------
(* Properties.                                                             *)

TypeOK ==
    /\ \A c \in Classes : klass[c] \in Seq(Version) /\ Len(klass[c]) >= 1
    /\ restricted \subseteq Methods \X (Nat \ {0})
    /\ sysRn \in Nat /\ rev \in [Threads -> Nat]
    /\ \A t \in Threads : /\ stack[t] \in Seq(Frame) /\ Len(stack[t]) <= MaxDepth
                         /\ \A i \in DOMAIN stack[t] :
                               stack[t][i].g \in 1..Latest(Holder[stack[t][i].m])
    /\ barrierId \in [Threads -> 0..MaxDepth]
    /\ barrierType \in [Threads -> {"none", "wakeup"}]
    /\ patched \in [Threads -> SUBSET (1..MaxDepth)]
    /\ tpc \in [Threads -> {"run", "wait", "aborted"}]
    /\ queue \in Seq(Requests)
    /\ dpc \in {"idle", "prologue", "doit", "loop"} /\ cur \in Requests \cup {0}
    /\ state \in [Requests -> States] /\ active \in Requests \cup {0}
    /\ fromRn \in [Requests -> Nat] /\ installed \subseteq Requests
    /\ sdMods \in 0..MaxMods /\ modsAtPrepare \in [Requests -> 0..MaxMods]
    /\ cpc \in [Requests -> {"init", "locking", "waiting", "done"}]

\* A frame whose Method* is re-pointed to a newer class version (by
\* repair_application_threads or repair_single_thread) keeps executing at
\* the same bci, which is sound only if the new method has the bytecode the
\* frame started with: no frame ever runs a body other than its own.
FrameBodyIntact ==
    \A t \in Threads : \A i \in DOMAIN stack[t] :
        stack[t][i].b = Body(stack[t][i].m, stack[t][i].g)

\* No thread runs at a revision at which a method on its stack is dead:
\* check_application_threads, the repair passes and the revision increments
\* of repair_application_threads and invoke_return_barrier keep every frame
\* alive at the thread's current_revision.
FrameCodeAlive ==
    \A t \in Threads : \A i \in DOMAIN stack[t] : Dead(stack[t][i]) > rev[t]

\* A request reported FINISHED has been applied: its DSU was installed and
\* the system revision advanced (DSU::update's step 2.5).
FinishedMeansInstalled ==
    \A r \in Requests : state[r] = "FINISHED" => r \in installed

\* A sync caller of invoke_dsu_common returns only once its own request is
\* FINISHED, DISCARDED or FAILED.
SyncReturnAfterAnswer ==
    \A r \in Sync : cpc[r] = "done" => state[r] \in Answered

\* A sync caller of invoke_dsu_common eventually returns.
SyncCallerReturns ==
    \A r \in Sync : (cpc[r] = "locking") ~> (cpc[r] = "done")

\* A thread that waits in invoke_return_barrier (waitRequest) is eventually
\* woken and runs again.
BarrierWaitEnds ==
    \A t \in Threads : (tpc[t] = "wait") ~> (tpc[t] = "run")

\* The lifetimes of consecutive versions of a class abut: a version is born
\* at the revision its predecessor dies (swap_class, post_fix_new_version).
VersionLifetimesAbut ==
    \A c \in Classes : \A g \in 1..(Len(klass[c]) - 1) :
        klass[c][g + 1].born = klass[c][g].dead

\* set_active_dsu's assert: a request is made the active DSU only when no
\* other DSU is active, i.e. every request that left dsu_thread_loop went
\* through finish_active_dsu or discard_active_dsu first.
SetActiveOnlyWhenNone ==
    [][dpc = "prologue" /\ state[cur] = "INIT" /\ active' # active => active = 0]_vars

====
