---------------------------- MODULE Transaction ----------------------------
(***************************************************************************)
(* One unit of work of package transaction: the outermost Run, the joined  *)
(* and nested Runs inside it, the synchronization callbacks of every       *)
(* phase, the settlement, and the hooks of the execution listeners around  *)
(* the physical begin, commit and rollback.  The work is arbitrary code:   *)
(* it writes, registers callbacks, dooms the transaction, calls Run again, *)
(* swallows errors, panics, and may recover the panics of the Runs it      *)
(* calls (as the in-memory bus does for its listeners).                    *)
(***************************************************************************)
EXTENDS Integers, Sequences, FiniteSets

CONSTANTS
    Values,     \* rows the work may write
    Orders,     \* orders a callback may be registered with
    Kinds,      \* the kinds of callbacks the work registers
    Recovers,   \* whether work recovers the panic of a Run it called
    MaxCallbacks, \* bound on registrations
    MaxDepth      \* bound on Runs inside each other

CallbackKinds == {"beforeCommit", "beforeCompletion", "afterCommit",
                  "afterCompletion", "savepoint", "savepointRollback"}

ASSUME UnitAssumption ==
    /\ Orders \subseteq Int /\ Kinds \subseteq CallbackKinds
    /\ Recovers \in BOOLEAN
    /\ MaxCallbacks \in Nat /\ MaxDepth \in Nat \ {0}

VARIABLES
    phase,    \* where the outermost Run is
    stack,    \* the active Runs, outermost first
    open,     \* the database transaction is neither committed nor rolled back
    writes,   \* what the transaction has written and not undone
    durable,  \* what the database has committed
    unit,     \* the mutable fields of unitOfWork
    todo,     \* callbacks of the running phase still to run
    result,   \* the locals of runNew: rollback, the errors and panic; the final status
    hooks,    \* the hooks of an execution listener that have been called
    history   \* what has happened, for the properties

vars == <<phase, stack, open, writes, durable, unit, todo, result, hooks, history>>

\* "undo" runs the savepoint rollback callbacks, "settle" is the decision
\* between commit and rollback.
Phases == CallbackKinds \cup {"none", "work", "undo", "settle", "done"}

\* A Run: "new" began the transaction, "join" participates, "nested" has a
\* savepoint, taken when the transaction had written `saved'.
Frames == [kind : {"new", "join", "nested"}, saved : SUBSET Values]

Registrations == [kind : CallbackKinds, order : Orders]

\* What work returns.  shouldRollback excuses an error that a no-rollback rule
\* matches and no rollback rule does.
Errors == {"nil", "excused", "fatal"}

\* Statuses of TransactionStatus; "none" before the settlement.
Statuses == {"none", "Committed", "RolledBack", "Unknown"}

\* A hook of ExecutionListener: before or after a step, with the error of the step.
Hooks == [step : {"begin", "commit", "rollback"}, after : BOOLEAN, failed : BOOLEAN]

\* The type invariant: the Runs nest in one transaction at a time, and a callback
\* to run is a registered one.
TypeOK ==
    /\ phase \in Phases
    /\ stack \in Seq(Frames)
    /\ open \in BOOLEAN
    /\ writes \in SUBSET Values
    /\ durable \in SUBSET Values
    /\ unit \in [rollbackOnly : BOOLEAN, completed : BOOLEAN,
                 callbacks : Seq(Registrations)]
    /\ todo \in SUBSET (1..Len(unit.callbacks))
    /\ result \in [rollback : BOOLEAN, error : Errors, timedOut : BOOLEAN,
                   system : BOOLEAN, panic : BOOLEAN, status : Statuses]
    /\ hooks \in Seq(Hooks)
    /\ history \in [marked : BOOLEAN, doomed : BOOLEAN, panicked : BOOLEAN, elapsed : BOOLEAN,
                    failed : SUBSET Values, ran : SUBSET (1..Len(unit.callbacks))]

-----------------------------------------------------------------------------
(* The unit of work.                                                       *)

Top == stack[Len(stack)]

\* The callbacks registered for a phase when it begins to run them.
Registered(kind) == {i \in DOMAIN unit.callbacks : unit.callbacks[i].kind = kind}

\* sortByOrder: a stable sort, so registration breaks ties.
Earlier(i, j) ==
    \/ unit.callbacks[i].order < unit.callbacks[j].order
    \/ unit.callbacks[i].order = unit.callbacks[j].order /\ i < j

\* Phase p of the outermost Run begins.
Enter(p) == phase' = p /\ todo' = Registered(p)

\* markRollbackOnly, when doomed holds.
Doomed(doomed) ==
    [unit EXCEPT !.rollbackOnly = @ \/ (doomed /\ ~unit.completed)]

WithCallback(kind, order) ==
    [unit EXCEPT !.callbacks = Append(@, [kind |-> kind, order |-> order])]

-----------------------------------------------------------------------------
(* The work of the outermost Run and of the Runs inside it.                *)

Before(step) == [step |-> step, after |-> FALSE, failed |-> FALSE]

After(step, failed) == [step |-> step, after |-> TRUE, failed |-> failed]

\* Run with Required or Nested and no transaction in the context.  The status handed
\* to the hooks of an execution listener lets them doom the transaction.
Begin(doomed) ==
    /\ phase = "none"
    /\ phase' = "work"
    /\ stack' = <<[kind |-> "new", saved |-> {}]>>
    /\ open' = TRUE
    /\ unit' = Doomed(doomed)
    /\ hooks' = <<Before("begin"), After("begin", FALSE)>>
    /\ history' = [history EXCEPT !.marked = doomed, !.doomed = doomed]
    /\ UNCHANGED <<writes, durable, todo, result>>

\* BeginTx fails, and Run returns without having run anything.
BeginFails ==
    /\ phase = "none"
    /\ phase' = "done"
    /\ result' = [result EXCEPT !.error = "fatal"]
    /\ hooks' = <<Before("begin"), After("begin", TRUE)>>
    /\ UNCHANGED <<stack, open, writes, durable, unit, todo, history>>

\* A statement through Manager.Querier.
Write(v) ==
    /\ phase = "work" /\ open
    /\ v \notin writes \cup history.failed
    /\ writes' = writes \cup {v}
    /\ UNCHANGED <<phase, stack, open, durable, unit, todo, result, history, hooks>>

\* The Register functions; a registration is never undone.
Register(kind, order) ==
    /\ phase = "work"
    /\ Len(unit.callbacks) < MaxCallbacks
    /\ unit' = WithCallback(kind, order)
    /\ UNCHANGED <<phase, stack, open, writes, durable, todo, result, history, hooks>>

\* MarkRollbackOnly or SetRollbackOnly.
MarkRollbackOnly ==
    /\ phase = "work" /\ ~unit.rollbackOnly
    /\ unit' = Doomed(TRUE)
    /\ history' = [history EXCEPT !.marked = TRUE, !.doomed = TRUE]
    /\ UNCHANGED <<phase, stack, open, writes, durable, todo, result, hooks>>

\* Run with Required, Supports or Mandatory joins the transaction.  A refused
\* join, like Never, returns an error and changes nothing.
Join ==
    /\ phase = "work" /\ Len(stack) < MaxDepth
    /\ stack' = Append(stack, [kind |-> "join", saved |-> {}])
    /\ UNCHANGED <<phase, open, writes, durable, unit, todo, result, history, hooks>>

\* runNested takes a savepoint, then runs the savepoint callbacks.
Nest ==
    /\ phase = "work" /\ open /\ Len(stack) < MaxDepth
    /\ stack' = Append(stack, [kind |-> "nested", saved |-> writes])
    /\ Enter("savepoint")
    /\ UNCHANGED <<open, writes, durable, unit, result, history, hooks>>

\* The innermost Run is over; its caller goes on.
Pop == stack' = SubSeq(stack, 1, Len(stack) - 1)

\* Variant: a joined failure is left to the caller of the joined Run.
ReturnJoinedLenient(error) ==
    /\ phase = "work" /\ Top.kind = "join"
    /\ Pop
    /\ history' = [history EXCEPT !.doomed = @ \/ error = "fatal"]
    /\ UNCHANGED <<phase, open, writes, durable, unit, todo, result, hooks>>

\* participate: a fatal error dooms the transaction, whatever its caller does
\* with the error.
ReturnJoined(error) ==
    /\ phase = "work" /\ Top.kind = "join"
    /\ Pop
    /\ unit' = Doomed(error = "fatal")
    /\ history' = [history EXCEPT !.doomed = @ \/ error = "fatal"]
    /\ UNCHANGED <<phase, open, writes, durable, todo, result, hooks>>

\* runNested when the work succeeded or its error is excused: the savepoint is
\* released.
ReturnNested ==
    /\ phase = "work" /\ Top.kind = "nested"
    /\ Pop
    /\ UNCHANGED <<phase, open, writes, durable, unit, todo, result, history, hooks>>

\* runNested when the work failed: first the savepoint rollback callbacks.
FailNested ==
    /\ phase = "work" /\ Top.kind = "nested"
    /\ phase' = "undo"
    /\ todo' = Registered("savepointRollback")
    /\ history' = [history EXCEPT !.failed = @ \cup (writes \ Top.saved)]
    /\ UNCHANGED <<stack, open, writes, durable, unit, result, hooks>>

\* ... then the rollback to the savepoint.
UndoNested ==
    /\ phase = "undo" /\ todo = {} /\ open
    /\ phase' = "work"
    /\ writes' = Top.saved
    /\ Pop
    /\ UNCHANGED <<open, durable, unit, todo, result, history, hooks>>

\* Variant: the failed rollback is reported to the caller and no further.
UndoNestedFailsQuietly ==
    /\ phase = "undo" /\ todo = {}
    /\ phase' = "work"
    /\ Pop
    /\ UNCHANGED <<open, writes, durable, unit, todo, result, history, hooks>>

\* ... which escalates to the whole transaction when it fails.
UndoNestedFails ==
    /\ phase = "undo" /\ todo = {}
    /\ phase' = "work"
    /\ unit' = Doomed(TRUE)
    /\ Pop
    /\ UNCHANGED <<open, writes, durable, todo, result, history, hooks>>

\* A panic of the work or of a savepoint callback reaches runGuarded.
PanicToGuard ==
    /\ stack' = <<stack[1]>>
    /\ result' = [result EXCEPT !.rollback = TRUE, !.panic = TRUE]
    /\ Enter("beforeCompletion")

\* A panic inside a Run that the work of an outer Run recovers: the Runs in
\* between end without any bookkeeping.
PanicToCaller ==
    /\ Recovers
    /\ \E depth \in 1..(Len(stack) - 1) : stack' = SubSeq(stack, 1, depth)
    /\ phase' = "work" /\ todo' = {}
    /\ UNCHANGED result

Panic ==
    /\ phase = "work"
    /\ PanicToGuard \/ PanicToCaller
    /\ history' = [history EXCEPT !.panicked = @ \/ Top.kind = "nested"]
    /\ UNCHANGED <<open, writes, durable, unit, hooks>>

\* The outermost work returns; runNew decides whether to roll back, and whether an
\* error is due to the timeout.
Return(error) ==
    /\ phase = "work" /\ Len(stack) = 1
    /\ LET rollback == unit.rollbackOnly \/ error = "fatal" IN
       /\ result' = [result EXCEPT !.error = error, !.rollback = rollback,
                                   !.timedOut = error # "nil" /\ history.elapsed]
       /\ Enter(IF rollback THEN "beforeCompletion" ELSE "beforeCommit")
    /\ UNCHANGED <<stack, open, writes, durable, unit, history, hooks>>

-----------------------------------------------------------------------------
(* Callbacks.                                                              *)

\* Variant: the most recent registration runs first among equal orders.
NextCallbackReversed(i) ==
    /\ i \in todo
    /\ \A j \in todo \ {i} :
         \/ unit.callbacks[i].order < unit.callbacks[j].order
         \/ unit.callbacks[i].order = unit.callbacks[j].order /\ j < i

\* The callback to run next.
NextCallback(i) ==
    /\ i \in todo
    /\ \A j \in todo \ {i} : Earlier(i, j)

\* What a callback inside the transaction does to it: nothing, doom it, or
\* register one more callback.
Effects == {[mark |-> FALSE, adds |-> <<>>], [mark |-> TRUE, adds |-> <<>>]}
           \cup {[mark |-> FALSE, adds |-> <<r>>] : r \in [kind : Kinds, order : Orders]}

\* Callback i runs inside the transaction.  Its phase keeps to the callbacks it
\* started with.
Runs(i, effect) ==
    /\ NextCallback(i)
    /\ Len(unit.callbacks) + Len(effect.adds) <= MaxCallbacks
    /\ unit' = [Doomed(effect.mark) EXCEPT !.callbacks = @ \o effect.adds]
    /\ history' = [history EXCEPT !.ran = @ \cup {i}, !.marked = @ \/ effect.mark,
                     !.doomed = @ \/ (effect.mark /\ phase \in {"savepoint", "undo"})]
    /\ todo' = todo \ {i}

\* A savepoint or savepoint rollback callback.
SavepointCallback(i, effect) ==
    /\ phase \in {"savepoint", "undo"}
    /\ Runs(i, effect)
    /\ UNCHANGED <<phase, stack, open, writes, durable, result, hooks>>

\* It panics: nothing below runGuarded catches it.
SavepointPanic ==
    /\ phase \in {"savepoint", "undo"} /\ todo # {}
    /\ PanicToGuard \/ PanicToCaller
    /\ history' = [history EXCEPT !.panicked = @ \/ Top.kind = "nested"]
    /\ UNCHANGED <<open, writes, durable, unit, hooks>>

\* The nested work begins.
EndSavepoint ==
    /\ phase = "savepoint" /\ todo = {}
    /\ phase' = "work"
    /\ UNCHANGED <<stack, open, writes, durable, unit, todo, result, history, hooks>>

\* A before-commit or before-completion callback returns.
BeforeCallback(i, effect) ==
    /\ phase \in {"beforeCommit", "beforeCompletion"}
    /\ Runs(i, effect)
    /\ UNCHANGED <<phase, stack, open, writes, durable, result, hooks>>

\* A before-commit callback vetoes the commit by its error, or panics.
Veto(panic) ==
    /\ phase = "beforeCommit" /\ todo # {}
    /\ result' = [result EXCEPT !.rollback = TRUE, !.panic = panic,
                                !.error = IF panic THEN @ ELSE "fatal"]
    /\ Enter("beforeCompletion")
    /\ UNCHANGED <<stack, open, writes, durable, unit, history, hooks>>

\* Variant: the panic of a before-completion callback is not guarded.
BeforeCompletionUnguarded ==
    /\ phase = "beforeCompletion" /\ todo # {}
    /\ result' = [result EXCEPT !.panic = TRUE]
    /\ phase' = "done" /\ todo' = {}
    /\ UNCHANGED <<stack, open, writes, durable, unit, history, hooks>>

\* Variant: the panic is raised again, but the commit goes ahead.
BeforeCompletionPanicCommits ==
    /\ phase = "beforeCompletion" /\ todo # {}
    /\ result' = [result EXCEPT !.panic = TRUE]
    /\ phase' = "settle" /\ todo' = {}
    /\ UNCHANGED <<stack, open, writes, durable, unit, history, hooks>>

\* A before-completion callback panics; the ones after it do not run.
BeforeCompletionPanics ==
    /\ phase = "beforeCompletion" /\ todo # {}
    /\ result' = [result EXCEPT !.rollback = TRUE, !.panic = TRUE]
    /\ phase' = "settle" /\ todo' = {}
    /\ UNCHANGED <<stack, open, writes, durable, unit, history, hooks>>

\* Variant: the panic of an after callback ends its phase.
AfterCallbackUnrecovered(i) ==
    /\ phase \in {"afterCommit", "afterCompletion"} /\ NextCallback(i)
    /\ history' = [history EXCEPT !.ran = @ \cup {i}]
    /\ todo' \in {todo \ {i}, {}}
    /\ UNCHANGED <<phase, stack, open, writes, durable, unit, result, hooks>>

\* An after-commit or after-completion callback.  Its context is detached, so
\* it cannot touch the unit, and its panic is recovered.
AfterCallback(i) ==
    /\ phase \in {"afterCommit", "afterCompletion"} /\ NextCallback(i)
    /\ history' = [history EXCEPT !.ran = @ \cup {i}]
    /\ todo' = todo \ {i}
    /\ UNCHANGED <<phase, stack, open, writes, durable, unit, result, hooks>>

\* What the execution listeners are told of the settlement.
Report == IF result.status = "RolledBack" THEN After("rollback", result.system)
          ELSE After("commit", result.status = "Unknown")

\* Variant: the execution listeners hear of the settlement before the last phase.
EndPhaseReportingEarly ==
    /\ todo = {}
    /\ \/ phase = "beforeCommit" /\ Enter("beforeCompletion") /\ UNCHANGED hooks
       \/ phase = "beforeCompletion" /\ Enter("settle") /\ UNCHANGED hooks
       \/ phase = "afterCommit" /\ Enter("afterCompletion") /\ hooks' = Append(hooks, Report)
       \/ phase = "afterCompletion" /\ Enter("done")
          /\ hooks' = IF result.status = "Committed" THEN hooks ELSE Append(hooks, Report)
    /\ UNCHANGED <<stack, open, writes, durable, unit, result, history>>

\* The callbacks of a phase are through.
EndPhase ==
    /\ todo = {}
    /\ \/ phase = "beforeCommit" /\ Enter("beforeCompletion") /\ UNCHANGED hooks
       \/ phase = "beforeCompletion" /\ Enter("settle") /\ UNCHANGED hooks
       \/ phase = "afterCommit" /\ Enter("afterCompletion") /\ UNCHANGED hooks
       \/ phase = "afterCompletion" /\ Enter("done") /\ hooks' = Append(hooks, Report)
    /\ UNCHANGED <<stack, open, writes, durable, unit, result, history>>

-----------------------------------------------------------------------------
(* Settlement.                                                             *)

Settled(status) ==
    /\ unit' = [unit EXCEPT !.completed = TRUE]
    /\ open' = FALSE
    /\ hooks' = Append(hooks, Before(IF status = "RolledBack" THEN "rollback" ELSE "commit"))

\* The rollback, which may report an error.  A transaction that is gone already makes
\* no difference here.
Rollback(fails) ==
    /\ phase = "settle" /\ result.rollback
    /\ fails => open
    /\ Settled("RolledBack")
    /\ result' = [result EXCEPT !.status = "RolledBack", !.system = fails]
    /\ Enter("afterCompletion")
    /\ UNCHANGED <<stack, writes, durable, history>>

Commit ==
    /\ phase = "settle" /\ ~result.rollback /\ open
    /\ Settled("Committed")
    /\ result' = [result EXCEPT !.status = "Committed"]
    /\ durable' = writes
    /\ Enter("afterCommit")
    /\ UNCHANGED <<stack, writes, history>>

\* The commit fails: nobody knows whether it took effect, unless the transaction
\* had already been rolled back.
CommitFails ==
    /\ phase = "settle" /\ ~result.rollback
    /\ Settled("Unknown")
    /\ result' = [result EXCEPT !.status = "Unknown", !.system = TRUE]
    /\ durable' \in IF open THEN {{}, writes} ELSE {{}}
    /\ Enter("afterCompletion")
    /\ UNCHANGED <<stack, writes, history>>

\* The timeout or the caller's cancellation: database/sql rolls back by itself,
\* and the statements that follow fail.
Expire(timeout) ==
    /\ open
    /\ open' = FALSE
    /\ history' = [history EXCEPT !.elapsed = timeout]
    /\ UNCHANGED <<phase, stack, writes, durable, unit, todo, result, hooks>>

Init ==
    /\ phase = "none" /\ stack = <<>> /\ open = FALSE
    /\ writes = {} /\ durable = {} /\ todo = {}
    /\ unit = [rollbackOnly |-> FALSE, completed |-> FALSE, callbacks |-> <<>>]
    /\ result = [rollback |-> FALSE, error |-> "nil", timedOut |-> FALSE, system |-> FALSE,
                 panic |-> FALSE, status |-> "none"]
    /\ hooks = <<>>
    /\ history = [marked |-> FALSE, doomed |-> FALSE, panicked |-> FALSE, elapsed |-> FALSE,
                  failed |-> {}, ran |-> {}]

Working ==
    \/ \E v \in Values : Write(v)
    \/ \E kind \in Kinds, order \in Orders : Register(kind, order)
    \/ MarkRollbackOnly \/ Join \/ Nest
    \/ \E error \in Errors : ReturnJoined(error) \/ Return(error)
    \/ ReturnNested \/ FailNested \/ Panic

Driving ==
    \/ BeginFails \/ UndoNested \/ UndoNestedFails
    \/ \E i \in todo, effect \in Effects :
         SavepointCallback(i, effect) \/ BeforeCallback(i, effect)
    \/ SavepointPanic \/ EndSavepoint
    \/ \E panic \in BOOLEAN : Veto(panic)
    \/ BeforeCompletionPanics \/ \E i \in todo : AfterCallback(i)
    \/ \E choice \in BOOLEAN : Begin(choice) \/ Rollback(choice) \/ Expire(choice)
    \/ EndPhase \/ Commit \/ CommitFails

Next == Working \/ Driving

Spec == Init /\ [][Next]_vars

-----------------------------------------------------------------------------
(* Properties.                                                             *)

\* What runNew returns, as the set of errors its error wraps: a panic is raised
\* again; otherwise the error of the work, whether the timeout caused it, and the error
\* of the settlement; and a rollback nobody asked for by an error is ErrRollbackOnly.
Outcome ==
    LET wrapped == (IF result.error = "nil" THEN {} ELSE {result.error})
                   \cup (IF result.timedOut THEN {"ErrTransactionTimedOut"} ELSE {})
                   \cup (IF result.system THEN {"ErrTransactionSystem"} ELSE {}) IN
    IF result.panic THEN {"panic"}
    ELSE IF result.status = "RolledBack" /\ wrapped = {} THEN {"ErrRollbackOnly"}
    ELSE wrapped

\* The caller and the after-completion callbacks can rely on what they are told:
\* a nil result means that everything written and not undone is durable, and a
\* reported rollback that nothing is.
OutcomeTruthful ==
    /\ phase = "done" /\ Outcome = {} => durable = writes
    /\ phase = "done" /\ Outcome \cap {"panic", "ErrRollbackOnly"} # {} => durable = {}
    /\ result.status = "RolledBack" => durable = {}

\* A failure that was swallowed still aborts: once the work or a savepoint callback
\* has doomed the transaction, or a joined Run has failed, nothing is committed.
DoomedNeverCommits == history.doomed => durable = {}

\* What a nested Run wrote before it failed is never committed, whether or not
\* the rollback to its savepoint worked (unless a panic inside a nested Run was
\* recovered by its caller, see PanicAborts).
FailedNestedNeverCommits == history.panicked \/ durable \cap history.failed = {}

\* Callbacks of one phase run in the order of their registration options, ties in
\* registration order, also when callbacks register more of their kind.
CallbacksInOrder ==
    \A i \in history.ran, j \in todo :
        /\ unit.callbacks[i].kind = unit.callbacks[j].kind
        /\ phase \notin {"savepoint", "undo"}
        => Earlier(i, j)

\* A panic never leaks a transaction: when Run is over, however it ended, the
\* database transaction is settled and the unit of work is marked completed.
NoLeakedTransaction ==
    phase = "done" /\ stack # <<>> => ~open /\ unit.completed

\* After the settlement every after-completion callback has run, and every
\* after-commit callback exactly when the transaction committed, whichever of
\* them panicked.
AfterCallbacksRun ==
    phase = "done" =>
        /\ Registered("afterCompletion") \subseteq history.ran
        /\ IF result.status = "Committed"
           THEN Registered("afterCommit") \subseteq history.ran
           ELSE Registered("afterCommit") \cap history.ran = {}

\* Observers see every transaction from its begin to its settlement, whatever panics:
\* a hook before a step is followed by the one after it and by nothing in between, the
\* settlement is reported once, after the last after-completion callback, and a commit
\* reported without an error has made the writes durable.
HooksTellTheOutcome ==
    /\ \A i \in DOMAIN hooks : hooks[i].after <=> i % 2 = 0
    /\ \A i \in DOMAIN hooks : hooks[i].after => hooks[i].step = hooks[i - 1].step
    /\ phase = "done" /\ stack # <<>> =>
         /\ Len(hooks) = 4
         /\ hooks[4] = After("commit", FALSE) => durable = writes
         /\ hooks[4].step = "rollback" => durable = {}
    /\ Len(hooks) = 4 => Registered("afterCompletion") \subseteq history.ran

\* When the timeout elapses, the error Run returns wraps ErrTransactionTimedOut.
TimeoutTold ==
    phase = "done" /\ history.elapsed /\ ~result.panic => "ErrTransactionTimedOut" \in Outcome

\* MarkRollbackOnly vetoes the commit from anywhere inside the transaction.
MarkHonoured == history.marked => durable = {}

\* A panic in nested work or in a savepoint callback rolls the whole transaction
\* back.
PanicAborts == history.panicked => durable = {}

\* A registered before-commit callback runs before the commit.
BeforeCommitRuns ==
    result.status = "Committed" => Registered("beforeCommit") \subseteq history.ran
=============================================================================
