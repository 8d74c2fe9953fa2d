------------------------- MODULE TransactionProofs -------------------------
(***************************************************************************)
(* Proofs about Transaction for any rows, callbacks, depth of Runs inside  *)
(* each other and bounds: the seven invariants of a unit of work follow    *)
(* from where the outermost Run is.                                        *)
(***************************************************************************)
EXTENDS Transaction, SequenceTheorems, TLAPS

(* The invariant.                                                          *)

\* The work is running, or a callback of a savepoint in it.
InWork == phase \in {"work", "savepoint", "undo"}

\* The database transaction has begun and is not settled.
Unsettled == InWork \/ phase \in {"beforeCommit", "beforeCompletion", "settle"}

\* The settlement has been attempted.
AfterSettlement ==
    phase \in {"afterCommit", "afterCompletion"} \/ (phase = "done" /\ stack # <<>>)

\* The outermost Run began the transaction, the others are inside it, and the callbacks of
\* a savepoint run for the innermost one.
Nesting ==
    /\ phase = "none" => stack = <<>>
    /\ phase \notin {"none", "done"} => stack # <<>>
    /\ \A i \in DOMAIN stack : stack[i].kind = "new" <=> i = 1
    /\ phase \in {"savepoint", "undo"} => Top.kind = "nested"

\* Before the settlement nothing is decided in the database, afterwards the status
\* tells what was.
Settlement ==
    /\ phase # "savepointRollback"
    /\ phase = "none" \/ Unsettled =>
         /\ durable = {} /\ ~unit.completed
         /\ result.status = "none" /\ ~result.system
    /\ phase = "none" \/ InWork => ~result.panic /\ ~result.rollback
    /\ result.panic => result.rollback
    /\ phase = "done" /\ stack = <<>> =>
         result.error = "fatal" /\ result.status = "none" /\ ~result.panic /\ durable = {}
    /\ AfterSettlement =>
         /\ ~open /\ unit.completed /\ result.status # "none"
         /\ result.rollback <=> result.status = "RolledBack"
         /\ result.status = "RolledBack" => durable = {}
         /\ result.status = "Committed" => durable = writes
         /\ result.status = "Unknown" => result.system /\ durable \in {{}, writes}
    /\ phase = "afterCommit" => result.status = "Committed"

\* A doomed transaction is marked while the work runs, and bound to be rolled back once it
\* has returned.
Doom ==
    /\ phase = "none" => ~history.doomed
    /\ history.doomed =>
         /\ InWork => unit.rollbackOnly
         /\ Unsettled /\ ~InWork => result.rollback
         /\ durable = {}

\* What a savepoint protects was written before it and never failed: what is inside a failed
\* nested Run lies above the savepoints that are still open.
Protected ==
    /\ phase = "none" => history.failed = {}
    /\ InWork =>
         /\ \A i, j \in DOMAIN stack :
              i < j /\ stack[i].kind = "nested" /\ stack[j].kind = "nested"
              => stack[i].saved \subseteq stack[j].saved
         /\ \A i \in DOMAIN stack : stack[i].kind = "nested" => stack[i].saved \subseteq writes
         /\ \A i \in DOMAIN stack :
              stack[i].kind = "nested" /\ ~history.panicked /\ ~unit.rollbackOnly
              => stack[i].saved \cap history.failed = {}

\* So the writes that failed are undone, or the transaction will be.
FailedUndone ==
    ~history.panicked =>
        /\ phase \in {"work", "savepoint"} /\ ~unit.rollbackOnly => writes \cap history.failed = {}
        /\ Unsettled /\ ~InWork /\ ~result.rollback => writes \cap history.failed = {}
        /\ durable \cap history.failed = {}

\* The callbacks still to run are of the phase, and those of a later phase have not run.
KindOf(p) == IF p = "undo" THEN "savepointRollback" ELSE p

NotYetRun ==
    CASE phase = "none" \/ InWork ->
           {"beforeCommit", "beforeCompletion", "afterCommit", "afterCompletion"}
      [] phase = "beforeCommit" -> {"beforeCompletion", "afterCommit", "afterCompletion"}
      [] phase \in {"beforeCompletion", "settle"} -> {"afterCommit", "afterCompletion"}
      [] phase = "afterCommit" -> {"afterCompletion"}
      [] OTHER -> {}

Phased ==
    /\ \A i \in todo : unit.callbacks[i].kind = KindOf(phase)
    /\ \A i \in history.ran : unit.callbacks[i].kind \notin NotYetRun
    /\ todo \cap history.ran # {} => phase \in {"savepoint", "undo"}

\* After callbacks run once the transaction is settled, all of them.
AfterRun ==
    /\ phase = "none" => unit.callbacks = <<>>
    /\ phase \in {"afterCommit", "afterCompletion"} => Registered(phase) \subseteq todo \cup history.ran
    /\ phase = "done" => Registered("afterCompletion") \subseteq history.ran
    /\ phase \in {"afterCompletion", "done"} /\ result.status = "Committed" =>
         Registered("afterCommit") \subseteq history.ran
    /\ result.status # "Committed" => Registered("afterCommit") \cap history.ran = {}

\* What the execution listeners have been told so far.
Told ==
    CASE phase = "none" -> <<>>
      [] Unsettled -> <<Before("begin"), After("begin", FALSE)>>
      [] phase \in {"afterCommit", "afterCompletion"} ->
           <<Before("begin"), After("begin", FALSE),
             Before(IF result.status = "RolledBack" THEN "rollback" ELSE "commit")>>
      [] phase = "done" /\ stack # <<>> ->
           <<Before("begin"), After("begin", FALSE),
             Before(IF result.status = "RolledBack" THEN "rollback" ELSE "commit"), Report>>
      [] OTHER -> <<Before("begin"), After("begin", TRUE)>>

UnitInv ==
    /\ Nesting /\ Settlement /\ Doom /\ Protected /\ FailedUndone
    /\ Phased /\ AfterRun /\ CallbacksInOrder /\ hooks = Told

-----------------------------------------------------------------------------
(* Stacks and callbacks.                                                   *)

\* The stack after some of the innermost Runs have ended.
LEMMA CutFacts ==
    ASSUME TypeOK, NEW depth \in 1..(Len(stack) - 1), stack' = SubSeq(stack, 1, depth)
    PROVE  /\ stack' \in Seq(Frames)
           /\ Len(stack') = depth /\ stack' # <<>>
           /\ DOMAIN stack' = 1..depth /\ DOMAIN stack' \subseteq DOMAIN stack
           /\ \A i \in 1..depth : stack'[i] = stack[i]
  <1>1. stack \in Seq(Frames) /\ depth \in Nat /\ depth # 0 /\ depth <= Len(stack)
    BY DEF TypeOK
  <1>2. 1..depth \subseteq 1..Len(stack) /\ DOMAIN stack = 1..Len(stack)
    BY <1>1
  <1>3. /\ stack' \in Seq(Frames) /\ Len(stack') = depth
        /\ \A i \in 1..depth : stack'[i] = stack[i]
    BY <1>1, <1>2
  <1> QED
    BY <1>1, <1>2, <1>3

\* A Run that is not the outermost one ends.
LEMMA PopFacts ==
    ASSUME TypeOK, Nesting, phase \notin {"none", "done"}, Top.kind # "new", Pop
    PROVE  /\ Len(stack) > 1 /\ Len(stack) \in DOMAIN stack
           /\ stack' \in Seq(Frames)
           /\ Len(stack') = Len(stack) - 1 /\ stack' # <<>>
           /\ DOMAIN stack' = 1..(Len(stack) - 1) /\ DOMAIN stack' \subseteq DOMAIN stack
           /\ \A i \in DOMAIN stack' : stack'[i] = stack[i]
  <1>1. stack # <<>> /\ stack \in Seq(Frames)
    BY DEF Nesting, TypeOK
  <1>2. Len(stack) \in DOMAIN stack
    BY <1>1
  <1>3. Len(stack) # 1
    BY <1>2 DEF Nesting, Top
  <1>4. Len(stack) \in Nat /\ Len(stack) > 1
    <2>1. DOMAIN stack = 1..Len(stack) /\ Len(stack) \in Nat
      BY <1>1
    <2> QED
      BY <1>2, <1>3, <2>1
  <1>5. Len(stack) - 1 \in 1..(Len(stack) - 1)
    BY <1>4
  <1> QED
    BY <1>1, <1>2, <1>4, <1>5, CutFacts DEF Pop

\* A Run begins inside the innermost one.
LEMMA PushFacts ==
    ASSUME TypeOK, NEW frame \in Frames, stack' = Append(stack, frame)
    PROVE  /\ stack' \in Seq(Frames)
           /\ Len(stack') = Len(stack) + 1 /\ stack' # <<>>
           /\ DOMAIN stack' = 1..(Len(stack) + 1) /\ stack'[Len(stack) + 1] = frame
           /\ \A i \in DOMAIN stack : i \in DOMAIN stack' /\ stack'[i] = stack[i]
  BY DEF TypeOK

\* The callbacks registered so far keep their places.
Grown ==
    /\ DOMAIN unit.callbacks \subseteq DOMAIN unit'.callbacks
    /\ \A i \in DOMAIN unit.callbacks : unit'.callbacks[i] = unit.callbacks[i]

LEMMA DoomedFacts ==
    ASSUME TypeOK, NEW doomed \in BOOLEAN
    PROVE  /\ Doomed(doomed) \in [rollbackOnly : BOOLEAN, completed : BOOLEAN,
                                  callbacks : Seq(Registrations)]
           /\ Doomed(doomed).callbacks = unit.callbacks
           /\ Doomed(doomed).completed = unit.completed
           /\ unit.rollbackOnly => Doomed(doomed).rollbackOnly
           /\ doomed /\ ~unit.completed => Doomed(doomed).rollbackOnly
  BY DEF TypeOK, Doomed

\* The callbacks run as a phase begins.
LEMMA RegisteredFacts ==
    ASSUME TypeOK, NEW kind \in CallbackKinds \cup Phases
    PROVE  /\ Registered(kind) \in SUBSET (1..Len(unit.callbacks))
           /\ \A i \in Registered(kind) : unit.callbacks[i].kind = kind
  BY DEF TypeOK, Registered

\* The registrations are a sequence that can only grow.
LEMMA CallbackFacts ==
    ASSUME TypeOK, NEW adds \in Seq(Registrations), NEW new, new = unit.callbacks \o adds
    PROVE  /\ new \in Seq(Registrations)
           /\ Len(unit.callbacks) <= Len(new)
           /\ DOMAIN unit.callbacks \subseteq DOMAIN new
           /\ \A i \in DOMAIN unit.callbacks : new[i] = unit.callbacks[i]
  <1> DEFINE old == unit.callbacks
  <1>1. old \in Seq(Registrations)
    BY DEF TypeOK
  <1> HIDE DEF old
  <1>2. /\ old \o adds \in Seq(Registrations)
        /\ Len(old \o adds) = Len(old) + Len(adds)
        /\ Len(old) \in Nat /\ Len(adds) \in Nat
        /\ DOMAIN old = 1..Len(old) /\ DOMAIN (old \o adds) = 1..(Len(old) + Len(adds))
    BY <1>1
  <1>3. \A i \in DOMAIN old : (old \o adds)[i] = old[i]
    BY <1>1, <1>2
  <1>4. Len(old) <= Len(old) + Len(adds) /\ DOMAIN old \subseteq DOMAIN (old \o adds)
    BY <1>2
  <1> QED
    BY <1>2, <1>3, <1>4 DEF old

\* A callback that dooms or registers keeps the registrations so far.
LEMMA RunsFacts ==
    ASSUME TypeOK, NEW i \in todo, NEW effect \in Effects, Runs(i, effect)
    PROVE  /\ unit' \in [rollbackOnly : BOOLEAN, completed : BOOLEAN,
                         callbacks : Seq(Registrations)]
           /\ unit'.completed = unit.completed
           /\ unit.rollbackOnly => unit'.rollbackOnly
           /\ effect.mark /\ ~unit.completed => unit'.rollbackOnly
           /\ effect.mark \in BOOLEAN
           /\ Len(unit.callbacks) <= Len(unit'.callbacks) /\ Grown
           /\ todo' \subseteq todo /\ i \notin todo'
  <1>1. effect.mark \in BOOLEAN /\ effect.adds \in Seq(Registrations)
    <2>1. \A r \in [kind : Kinds, order : Orders] : r \in Registrations
      BY UnitAssumption DEF Registrations
    <2>2. CASE effect \in {[mark |-> FALSE, adds |-> <<>>], [mark |-> TRUE, adds |-> <<>>]}
      <3>1. effect.adds = <<>>
        BY <2>2
      <3>2. effect.mark = TRUE \/ effect.mark = FALSE
        BY <2>2
      <3>3. effect.adds \in Seq(Registrations)
        BY <3>1
      <3>4. effect.mark \in BOOLEAN
        BY <3>2
      <3> QED
        BY <3>3, <3>4
    <2>3. CASE \E r \in [kind : Kinds, order : Orders] :
                 effect = [mark |-> FALSE, adds |-> <<r>>]
      BY <2>1, <2>3
    <2> QED
      BY <2>2, <2>3 DEF Effects
  <1>2. unit' = [Doomed(effect.mark) EXCEPT !.callbacks = @ \o effect.adds]
    BY DEF Runs
  <1>3. /\ Doomed(effect.mark) \in [rollbackOnly : BOOLEAN, completed : BOOLEAN,
                                    callbacks : Seq(Registrations)]
        /\ Doomed(effect.mark).callbacks = unit.callbacks
        /\ unit.callbacks \o effect.adds \in Seq(Registrations)
    BY <1>1, DoomedFacts, CallbackFacts
  <1>4. /\ unit'.callbacks = unit.callbacks \o effect.adds
        /\ unit'.completed = Doomed(effect.mark).completed
        /\ unit'.rollbackOnly = Doomed(effect.mark).rollbackOnly
        /\ unit' \in [rollbackOnly : BOOLEAN, completed : BOOLEAN,
                      callbacks : Seq(Registrations)]
    BY <1>2, <1>3
  <1>5. Len(unit.callbacks) <= Len(unit'.callbacks) /\ Grown
    BY <1>1, <1>3, <1>4, CallbackFacts DEF Grown
  <1> QED
    BY <1>1, <1>4, <1>5, DoomedFacts DEF Runs

\* One more callback is registered.
LEMMA WithCallbackFacts ==
    ASSUME TypeOK, NEW kind \in Kinds, NEW order \in Orders, unit' = WithCallback(kind, order)
    PROVE  /\ unit' \in [rollbackOnly : BOOLEAN, completed : BOOLEAN,
                         callbacks : Seq(Registrations)]
           /\ unit'.completed = unit.completed
           /\ unit'.rollbackOnly = unit.rollbackOnly
           /\ Len(unit.callbacks) <= Len(unit'.callbacks) /\ Grown
  <1> DEFINE new == [kind |-> kind, order |-> order]
  <1>1. new \in Registrations
    BY UnitAssumption DEF Registrations
  <1>2. unit.callbacks \in Seq(Registrations)
    BY DEF TypeOK
  <1>3. Append(unit.callbacks, new) \in Seq(Registrations)
    BY <1>1, <1>2
  <1>4. unit' = [unit EXCEPT !.callbacks = Append(@, new)]
    BY DEF WithCallback
  <1>5. /\ unit'.callbacks = Append(unit.callbacks, new)
        /\ unit' \in [rollbackOnly : BOOLEAN, completed : BOOLEAN,
                      callbacks : Seq(Registrations)]
        /\ unit'.completed = unit.completed
        /\ unit'.rollbackOnly = unit.rollbackOnly
    BY <1>3, <1>4 DEF TypeOK
  <1> HIDE DEF new
  <1>6. Len(unit.callbacks) <= Len(unit'.callbacks) /\ Grown
    BY <1>1, <1>2, <1>5 DEF Grown
  <1> QED
    BY <1>5, <1>6

-----------------------------------------------------------------------------
(* Types.                                                                  *)

\* A panic ends Runs, whether it reaches runGuarded or a caller that recovers it.
LEMMA PanicType ==
    ASSUME TypeOK, Nesting, phase \notin {"none", "done"}, PanicToGuard \/ PanicToCaller,
           UNCHANGED unit
    PROVE  /\ phase' \in Phases /\ stack' \in Seq(Frames) /\ stack' # <<>>
           /\ todo' \in SUBSET (1..Len(unit'.callbacks))
           /\ result' \in [rollback : BOOLEAN, error : Errors, timedOut : BOOLEAN,
                           system : BOOLEAN, panic : BOOLEAN, status : Statuses]
  <1>1. CASE PanicToGuard
    <2>1. stack # <<>> /\ stack \in Seq(Frames)
      BY DEF Nesting, TypeOK
    <2>2. stack' \in Seq(Frames) /\ stack' # <<>>
      BY <1>1, <2>1 DEF PanicToGuard
    <2>3. todo' \in SUBSET (1..Len(unit'.callbacks)) /\ phase' \in Phases
      BY <1>1, RegisteredFacts DEF PanicToGuard, Enter, Phases, CallbackKinds
    <2>4. result' \in [rollback : BOOLEAN, error : Errors, timedOut : BOOLEAN,
                       system : BOOLEAN, panic : BOOLEAN, status : Statuses]
      BY <1>1 DEF PanicToGuard, TypeOK
    <2> QED
      BY <2>2, <2>3, <2>4
  <1>2. CASE PanicToCaller
    <2>1. PICK depth \in 1..(Len(stack) - 1) : stack' = SubSeq(stack, 1, depth)
      BY <1>2 DEF PanicToCaller
    <2>2. stack' \in Seq(Frames) /\ stack' # <<>>
      BY <2>1, CutFacts
    <2> QED
      BY <1>2, <2>2 DEF PanicToCaller, TypeOK, Phases
  <1> QED
    BY <1>1, <1>2

\* Initially everything is well-formed.
LEMMA InitType == Init => TypeOK
  <1> SUFFICES ASSUME Init PROVE TypeOK
    OBVIOUS
  <1>1. /\ <<>> \in Seq(Frames) /\ <<>> \in Seq(Registrations) /\ <<>> \in Seq(Hooks)
        /\ {} \in SUBSET Values /\ {} \in SUBSET (1..Len(unit.callbacks))
    OBVIOUS
  <1>2. unit \in [rollbackOnly : BOOLEAN, completed : BOOLEAN, callbacks : Seq(Registrations)]
    BY <1>1 DEF Init
  <1>3. result \in [rollback : BOOLEAN, error : Errors, timedOut : BOOLEAN,
                   system : BOOLEAN, panic : BOOLEAN, status : Statuses]
    BY DEF Init, Errors, Statuses
  <1>4. history \in [marked : BOOLEAN, doomed : BOOLEAN, panicked : BOOLEAN, elapsed : BOOLEAN,
                    failed : SUBSET Values, ran : SUBSET (1..Len(unit.callbacks))]
    BY <1>1 DEF Init
  <1> QED
    BY <1>1, <1>2, <1>3, <1>4 DEF Init, TypeOK, Phases

\* The work keeps everything well-formed.
LEMMA WorkingType ==
    ASSUME TypeOK, Nesting, Working
    PROVE  TypeOK'
  <1>1. ASSUME NEW v \in Values, Write(v) PROVE TypeOK'
    BY <1>1 DEF Write, TypeOK
  <1>2. ASSUME NEW kind \in Kinds, NEW order \in Orders, Register(kind, order) PROVE TypeOK'
    <2>1. unit' = WithCallback(kind, order)
      BY <1>2 DEF Register
    <2>2. UNCHANGED <<phase, stack, open, writes, durable, todo, result, history, hooks>>
      BY <1>2 DEF Register
    <2>3. /\ unit' \in [rollbackOnly : BOOLEAN, completed : BOOLEAN,
                       callbacks : Seq(Registrations)]
          /\ Len(unit.callbacks) <= Len(unit'.callbacks)
          /\ Len(unit.callbacks) \in Nat /\ Len(unit'.callbacks) \in Nat
      BY <2>1, WithCallbackFacts DEF TypeOK
    <2>4. 1..Len(unit.callbacks) \subseteq 1..Len(unit'.callbacks)
      BY <2>3
    <2> QED
      BY <2>2, <2>3, <2>4 DEF TypeOK
  <1>3. ASSUME MarkRollbackOnly PROVE TypeOK'
    BY <1>3, DoomedFacts DEF MarkRollbackOnly, TypeOK
  <1>4. ASSUME Join PROVE TypeOK'
    <2>1. [kind |-> "join", saved |-> {}] \in Frames
      BY DEF Frames
    <2>2. stack' \in Seq(Frames)
      BY <1>4, <2>1, PushFacts DEF Join
    <2> QED
      BY <1>4, <2>2 DEF Join, TypeOK
  <1>5. ASSUME Nest PROVE TypeOK'
    <2>1. [kind |-> "nested", saved |-> writes] \in Frames
      BY DEF Frames, TypeOK
    <2>2. stack' \in Seq(Frames)
      BY <1>5, <2>1, PushFacts DEF Nest
    <2>3. todo' \in SUBSET (1..Len(unit'.callbacks)) /\ phase' \in Phases
      BY <1>5, RegisteredFacts DEF Nest, Enter, Phases, CallbackKinds
    <2> QED
      BY <1>5, <2>2, <2>3 DEF Nest, TypeOK
  <1>6. ASSUME NEW error \in Errors, ReturnJoined(error) PROVE TypeOK'
    <2>1. stack' \in Seq(Frames)
      BY <1>6, PopFacts DEF ReturnJoined
    <2>2. (error = "fatal") \in BOOLEAN
      OBVIOUS
    <2> QED
      BY <1>6, <2>1, <2>2, DoomedFacts DEF ReturnJoined, TypeOK
  <1>7. ASSUME NEW error \in Errors, Return(error) PROVE TypeOK'
    <2>1. todo' \in SUBSET (1..Len(unit'.callbacks)) /\ phase' \in Phases
      BY <1>7, RegisteredFacts DEF Return, Enter, Phases, CallbackKinds
    <2> QED
      BY <1>7, <2>1 DEF Return, TypeOK
  <1>8. ASSUME ReturnNested PROVE TypeOK'
    <2>1. stack' \in Seq(Frames)
      BY <1>8, PopFacts DEF ReturnNested
    <2> QED
      BY <1>8, <2>1 DEF ReturnNested, TypeOK
  <1>9. ASSUME FailNested PROVE TypeOK'
    <2>1. todo' \in SUBSET (1..Len(unit'.callbacks)) /\ phase' \in Phases
      BY <1>9, RegisteredFacts DEF FailNested, Phases, CallbackKinds
    <2>2. (history.failed \cup (writes \ Top.saved)) \in SUBSET Values
      BY DEF TypeOK
    <2> QED
      BY <1>9, <2>1, <2>2 DEF FailNested, TypeOK
  <1>10. ASSUME Panic PROVE TypeOK'
    <2>1. (history.panicked \/ Top.kind = "nested") \in BOOLEAN
      OBVIOUS
    <2>2. UNCHANGED unit
      BY <1>10 DEF Panic
    <2> QED
      BY <1>10, <2>1, <2>2, PanicType DEF Panic, TypeOK
  <1> QED
    BY <1>1, <1>2, <1>3, <1>4, <1>5, <1>6, <1>7, <1>8, <1>9, <1>10 DEF Working

\* A hook called adds one of the hooks to those told.
LEMMA HookFacts ==
    ASSUME TypeOK
    PROVE  /\ \A step \in {"begin", "commit", "rollback"} :
                Before(step) \in Hooks /\ \A failed \in BOOLEAN : After(step, failed) \in Hooks
           /\ Report \in Hooks
           /\ \A hook \in Hooks : Append(hooks, hook) \in Seq(Hooks)
           /\ \A first, second \in Hooks : <<first, second>> \in Seq(Hooks)
  <1>1. /\ \A step \in {"begin", "commit", "rollback"} :
             Before(step) \in Hooks /\ \A failed \in BOOLEAN : After(step, failed) \in Hooks
    BY DEF Before, After, Hooks
  <1>2. result.system \in BOOLEAN /\ (result.status = "Unknown") \in BOOLEAN
    BY DEF TypeOK
  <1>3. Report \in Hooks
    BY <1>1, <1>2 DEF Report
  <1>4. \A hook \in Hooks : Append(hooks, hook) \in Seq(Hooks)
    BY DEF TypeOK
  <1>5. \A first, second \in Hooks : <<first, second>> \in Seq(Hooks)
    OBVIOUS
  <1> QED
    BY <1>1, <1>3, <1>4, <1>5

\* A callback of a phase keeps what it can touch well-formed.
LEMMA RunsType ==
    ASSUME TypeOK, NEW i \in todo, NEW effect \in Effects, Runs(i, effect)
    PROVE  /\ unit' \in [rollbackOnly : BOOLEAN, completed : BOOLEAN,
                         callbacks : Seq(Registrations)]
           /\ todo' \in SUBSET (1..Len(unit'.callbacks))
           /\ history' \in [marked : BOOLEAN, doomed : BOOLEAN, panicked : BOOLEAN,
                            elapsed : BOOLEAN, failed : SUBSET Values,
                            ran : SUBSET (1..Len(unit'.callbacks))]
  <1>1. Len(unit.callbacks) \in Nat /\ Len(unit'.callbacks) \in Nat
    BY RunsFacts DEF TypeOK
  <1>2. 1..Len(unit.callbacks) \subseteq 1..Len(unit'.callbacks)
    BY <1>1, RunsFacts
  <1>3. (history.ran \cup {i}) \in SUBSET (1..Len(unit'.callbacks))
    BY <1>2 DEF TypeOK
  <1>4. /\ (history.marked \/ effect.mark) \in BOOLEAN
        /\ (history.doomed \/ (effect.mark /\ phase \in {"savepoint", "undo"})) \in BOOLEAN
    OBVIOUS
  <1>5. history' = [history EXCEPT
              !.ran = @ \cup {i}, !.marked = @ \/ effect.mark,
              !.doomed = @ \/ (effect.mark /\ phase \in {"savepoint", "undo"})]
    BY DEF Runs
  <1>6. history' \in [marked : BOOLEAN, doomed : BOOLEAN, panicked : BOOLEAN,
                      elapsed : BOOLEAN, failed : SUBSET Values,
                      ran : SUBSET (1..Len(unit'.callbacks))]
    BY <1>2, <1>3, <1>4, <1>5 DEF TypeOK
  <1> QED
    BY <1>2, <1>6, RunsFacts DEF TypeOK

\* The driver keeps everything well-formed.
LEMMA DrivingType ==
    ASSUME TypeOK, Nesting, Driving
    PROVE  TypeOK'
  <1>0. /\ CallbackKinds \cup {"work", "settle", "done"} \subseteq Phases
        /\ "fatal" \in Errors /\ {"Committed", "RolledBack", "Unknown"} \subseteq Statuses
        /\ {"beforeCommit", "beforeCompletion", "afterCommit", "afterCompletion"}
             \subseteq CallbackKinds
    BY DEF Phases, CallbackKinds, Errors, Statuses
  <1>1. ASSUME NEW choice \in BOOLEAN, Begin(choice) PROVE TypeOK'
    <2>1. stack' \in Seq(Frames)
      <3>1. [kind |-> "new", saved |-> {}] \in Frames
        BY DEF Frames
      <3> QED
        BY <1>1, <3>1 DEF Begin
    <2>2. hooks' \in Seq(Hooks)
      <3>1. Before("begin") \in Hooks /\ After("begin", FALSE) \in Hooks
        BY HookFacts
      <3>2. hooks' = <<Before("begin"), After("begin", FALSE)>>
        BY <1>1 DEF Begin
      <3> QED
        BY <3>1, <3>2, HookFacts
    <2>3. UNCHANGED <<writes, durable, todo, result>> /\ phase' = "work" /\ open' = TRUE
      BY <1>1 DEF Begin
    <2>4. unit' = Doomed(choice)
      BY <1>1 DEF Begin
    <2>5. history' = [history EXCEPT !.marked = choice, !.doomed = choice]
      BY <1>1 DEF Begin
    <2>6. history' \in [marked : BOOLEAN, doomed : BOOLEAN, panicked : BOOLEAN,
                        elapsed : BOOLEAN, failed : SUBSET Values,
                        ran : SUBSET (1..Len(unit.callbacks))]
      BY <2>5 DEF TypeOK
    <2> QED
      BY <1>0, <2>1, <2>2, <2>3, <2>4, <2>6, DoomedFacts DEF TypeOK
  <1>2. ASSUME BeginFails PROVE TypeOK'
    <2>1. hooks' \in Seq(Hooks)
      <3>1. Before("begin") \in Hooks /\ After("begin", TRUE) \in Hooks
        BY HookFacts
      <3>2. hooks' = <<Before("begin"), After("begin", TRUE)>>
        BY <1>2 DEF BeginFails
      <3> QED
        BY <3>1, <3>2, HookFacts
    <2> QED
      BY <1>0, <1>2, <2>1 DEF BeginFails, TypeOK
  <1>3. ASSUME UndoNested PROVE TypeOK'
    <2>1. stack' \in Seq(Frames) /\ Len(stack) \in DOMAIN stack
      BY <1>3, PopFacts DEF UndoNested, Nesting
    <2>2. Top \in Frames
      BY <2>1 DEF TypeOK, Top
    <2>3. writes' \in SUBSET Values
      BY <1>3, <2>2 DEF UndoNested, Frames
    <2> QED
      BY <1>0, <1>3, <2>1, <2>3 DEF UndoNested, TypeOK
  <1>4. ASSUME UndoNestedFails PROVE TypeOK'
    <2>1. stack' \in Seq(Frames)
      BY <1>4, PopFacts DEF UndoNestedFails, Nesting
    <2>2. UNCHANGED <<open, writes, durable, todo, result, history, hooks>> /\ phase' = "work"
      BY <1>4 DEF UndoNestedFails
    <2>3. unit' = Doomed(TRUE)
      BY <1>4 DEF UndoNestedFails
    <2> QED
      BY <1>0, <2>1, <2>2, <2>3, DoomedFacts DEF TypeOK
  <1>5. ASSUME NEW i \in todo, NEW effect \in Effects, SavepointCallback(i, effect)
        PROVE  TypeOK'
    <2>1. Runs(i, effect)
          /\ UNCHANGED <<phase, stack, open, writes, durable, result, hooks>>
      BY <1>5 DEF SavepointCallback
    <2> QED
      BY <2>1, RunsType DEF TypeOK
  <1>6. ASSUME NEW i \in todo, NEW effect \in Effects, BeforeCallback(i, effect)
        PROVE  TypeOK'
    <2>1. Runs(i, effect)
          /\ UNCHANGED <<phase, stack, open, writes, durable, result, hooks>>
      BY <1>6 DEF BeforeCallback
    <2> QED
      BY <2>1, RunsType DEF TypeOK
  <1>7. ASSUME SavepointPanic PROVE TypeOK'
    <2>1. (history.panicked \/ Top.kind = "nested") \in BOOLEAN
      OBVIOUS
    <2>2. UNCHANGED unit
      BY <1>7 DEF SavepointPanic
    <2> QED
      BY <1>7, <2>1, <2>2, PanicType DEF SavepointPanic, TypeOK
  <1>8. ASSUME EndSavepoint PROVE TypeOK'
    BY <1>0, <1>8 DEF EndSavepoint, TypeOK
  <1>9. ASSUME NEW panic \in BOOLEAN, Veto(panic) PROVE TypeOK'
    <2>1. todo' \in SUBSET (1..Len(unit'.callbacks)) /\ phase' \in Phases
      BY <1>0, <1>9, RegisteredFacts DEF Veto, Enter
    <2>2. (IF panic THEN result.error ELSE "fatal") \in Errors
      BY <1>0 DEF TypeOK
    <2> QED
      BY <1>9, <2>1, <2>2 DEF Veto, TypeOK
  <1>10. ASSUME BeforeCompletionPanics PROVE TypeOK'
    BY <1>0, <1>10 DEF BeforeCompletionPanics, TypeOK
  <1>11. ASSUME NEW i \in todo, AfterCallback(i) PROVE TypeOK'
    <2>1. (history.ran \cup {i}) \in SUBSET (1..Len(unit.callbacks))
      BY DEF TypeOK
    <2>2. todo' \in SUBSET (1..Len(unit.callbacks))
      BY <1>11 DEF AfterCallback, TypeOK
    <2>3. history' = [history EXCEPT !.ran = @ \cup {i}]
          /\ UNCHANGED <<phase, stack, open, writes, durable, unit, result, hooks>>
      BY <1>11 DEF AfterCallback
    <2>4. history' \in [marked : BOOLEAN, doomed : BOOLEAN, panicked : BOOLEAN,
                        elapsed : BOOLEAN, failed : SUBSET Values,
                        ran : SUBSET (1..Len(unit.callbacks))]
      BY <2>1, <2>3 DEF TypeOK
    <2> QED
      BY <2>2, <2>3, <2>4 DEF TypeOK
  <1>12. ASSUME NEW choice \in BOOLEAN, Rollback(choice) PROVE TypeOK'
    <2>1. todo' \in SUBSET (1..Len(unit'.callbacks)) /\ phase' \in Phases
      BY <1>0, <1>12, RegisteredFacts DEF Rollback, Enter, Settled, TypeOK
    <2>2. hooks' \in Seq(Hooks)
      BY <1>12, HookFacts DEF Rollback, Settled
    <2>3. unit' \in [rollbackOnly : BOOLEAN, completed : BOOLEAN,
                     callbacks : Seq(Registrations)]
          /\ unit'.callbacks = unit.callbacks
      BY <1>12 DEF Rollback, Settled, TypeOK
    <2> QED
      BY <1>0, <1>12, <2>1, <2>2, <2>3 DEF Rollback, Settled, TypeOK
  <1>13. ASSUME NEW choice \in BOOLEAN, Expire(choice) PROVE TypeOK'
    <2>1. [history EXCEPT !.elapsed = choice] \in
            [marked : BOOLEAN, doomed : BOOLEAN, panicked : BOOLEAN, elapsed : BOOLEAN,
             failed : SUBSET Values, ran : SUBSET (1..Len(unit.callbacks))]
      BY DEF TypeOK
    <2> QED
      BY <1>13, <2>1 DEF Expire, TypeOK
  <1>14. ASSUME EndPhase PROVE TypeOK'
    <2>1. hooks' \in Seq(Hooks)
      BY <1>14, HookFacts DEF EndPhase, TypeOK
    <2>2. todo' \in SUBSET (1..Len(unit'.callbacks)) /\ phase' \in Phases
      BY <1>0, <1>14, RegisteredFacts DEF EndPhase, Enter
    <2> QED
      BY <1>14, <2>1, <2>2 DEF EndPhase, TypeOK
  <1>15. ASSUME Commit PROVE TypeOK'
    <2>1. todo' \in SUBSET (1..Len(unit'.callbacks)) /\ phase' \in Phases
      BY <1>0, <1>15, RegisteredFacts DEF Commit, Enter, Settled, TypeOK
    <2>2. hooks' \in Seq(Hooks)
      BY <1>15, HookFacts DEF Commit, Settled
    <2>3. unit' \in [rollbackOnly : BOOLEAN, completed : BOOLEAN,
                     callbacks : Seq(Registrations)]
          /\ unit'.callbacks = unit.callbacks
      BY <1>15 DEF Commit, Settled, TypeOK
    <2> QED
      BY <1>0, <1>15, <2>1, <2>2, <2>3 DEF Commit, Settled, TypeOK
  <1>16. ASSUME CommitFails PROVE TypeOK'
    <2>1. todo' \in SUBSET (1..Len(unit'.callbacks)) /\ phase' \in Phases
      BY <1>0, <1>16, RegisteredFacts DEF CommitFails, Enter, Settled, TypeOK
    <2>2. hooks' \in Seq(Hooks)
      BY <1>16, HookFacts DEF CommitFails, Settled
    <2>3. unit' \in [rollbackOnly : BOOLEAN, completed : BOOLEAN,
                     callbacks : Seq(Registrations)]
          /\ unit'.callbacks = unit.callbacks
      BY <1>16 DEF CommitFails, Settled, TypeOK
    <2>4. durable' \in SUBSET Values
      BY <1>16 DEF CommitFails, TypeOK
    <2> QED
      BY <1>0, <1>16, <2>1, <2>2, <2>3, <2>4 DEF CommitFails, Settled, TypeOK
  <1> QED
    BY <1>1, <1>2, <1>3, <1>4, <1>5, <1>6, <1>7, <1>8, <1>9, <1>10, <1>11, <1>12, <1>13,
       <1>14, <1>15, <1>16 DEF Driving

-----------------------------------------------------------------------------
(* The Runs and the settlement.                                            *)

\* The outermost Run begins the transaction.
LEMMA BeginNests ==
    ASSUME NEW doomed \in BOOLEAN, Begin(doomed)
    PROVE  stack' # <<>> /\ DOMAIN stack' = {1} /\ stack'[1].kind = "new"
  BY DEF Begin

\* A Run that is not the outermost one ends, and its caller works on.
LEMMA PopNests ==
    ASSUME TypeOK, Nesting, phase \notin {"none", "done"}, Top.kind # "new", Pop, phase' = "work"
    PROVE  Nesting'
  BY PopFacts DEF Nesting

\* A panic leaves the outermost Run.
LEMMA PanicNests ==
    ASSUME TypeOK, Nesting, phase \notin {"none", "done"}, PanicToGuard \/ PanicToCaller
    PROVE  Nesting'
  <1>1. CASE PanicToGuard
    <2>1. stack # <<>> /\ stack \in Seq(Frames)
      BY DEF Nesting, TypeOK
    <2>2. 1 \in DOMAIN stack
      BY <2>1
    <2>3. DOMAIN stack' = {1} /\ stack'[1] = stack[1] /\ stack' # <<>>
      BY <1>1 DEF PanicToGuard
    <2> QED
      BY <1>1, <2>2, <2>3 DEF PanicToGuard, Enter, Nesting
  <1>2. CASE PanicToCaller
    <2>1. PICK depth \in 1..(Len(stack) - 1) : stack' = SubSeq(stack, 1, depth)
      BY <1>2 DEF PanicToCaller
    <2> QED
      BY <1>2, <2>1, CutFacts DEF PanicToCaller, Nesting
  <1> QED
    BY <1>1, <1>2

\* The Runs stay nested in the transaction.
LEMMA NestingKept ==
    ASSUME TypeOK, Nesting, Next
    PROVE  Nesting'
  <1>1. CASE UNCHANGED <<phase, stack>>
    BY <1>1 DEF Nesting, Top
  <1>2. ASSUME NEW choice \in BOOLEAN, Begin(choice) PROVE Nesting'
    BY <1>2, BeginNests DEF Begin, Nesting
  <1>3. ASSUME Join PROVE Nesting'
    <2>1. [kind |-> "join", saved |-> {}] \in Frames
      BY DEF Frames
    <2>2. stack # <<>> /\ stack \in Seq(Frames) /\ phase' = "work"
      BY <1>3 DEF Join, Nesting, TypeOK
    <2>3. Len(stack) + 1 # 1 /\ DOMAIN stack = 1..Len(stack) /\ Len(stack) \in Nat
      BY <2>2
    <2> QED
      BY <1>3, <2>1, <2>2, <2>3, PushFacts DEF Join, Nesting
  <1>4. ASSUME Nest PROVE Nesting'
    <2>1. [kind |-> "nested", saved |-> writes] \in Frames
      BY DEF Frames, TypeOK
    <2>2. stack # <<>> /\ stack \in Seq(Frames) /\ phase' = "savepoint"
      BY <1>4 DEF Nest, Enter, Nesting, TypeOK
    <2>3. Len(stack) + 1 # 1 /\ DOMAIN stack = 1..Len(stack) /\ Len(stack) \in Nat
      BY <2>2
    <2>4. /\ \A i \in DOMAIN stack' : stack'[i].kind = "new" <=> i = 1
          /\ stack'[Len(stack')].kind = "nested" /\ stack' # <<>>
      BY <1>4, <2>1, <2>2, <2>3, PushFacts DEF Nest, Nesting
    <2> QED
      BY <2>2, <2>4 DEF Nesting, Top
  <1>5. ASSUME NEW error \in Errors, ReturnJoined(error) PROVE Nesting'
    BY <1>5, PopNests DEF ReturnJoined
  <1>6. ASSUME ReturnNested PROVE Nesting'
    BY <1>6, PopNests DEF ReturnNested
  <1>7. ASSUME UndoNested \/ UndoNestedFails PROVE Nesting'
    BY <1>7, PopNests DEF UndoNested, UndoNestedFails, Nesting
  <1>8. ASSUME FailNested PROVE Nesting'
    BY <1>8 DEF FailNested, Nesting, Top
  <1>9. ASSUME Panic \/ SavepointPanic PROVE Nesting'
    BY <1>9, PanicNests DEF Panic, SavepointPanic
  <1>10. ASSUME UNCHANGED stack, phase \notin {"none", "done"},
                phase' \notin {"none", "savepoint", "undo"}
         PROVE  Nesting'
    BY <1>10 DEF Nesting
  <1>11. ASSUME BeginFails PROVE Nesting'
    BY <1>11 DEF BeginFails, Nesting
  <1> QED
    BY <1>1, <1>2, <1>3, <1>4, <1>5, <1>6, <1>7, <1>8, <1>9, <1>10, <1>11
       DEF Next, Working, Driving, Enter, Write, Register, MarkRollbackOnly, Return,
           SavepointCallback, BeforeCallback, AfterCallback, EndSavepoint, Veto,
           BeforeCompletionPanics, EndPhase, Rollback, Commit, CommitFails, Expire

\* The status and the errors follow the settlement.
LEMMA SettlementKept ==
    ASSUME TypeOK, Nesting, Settlement, Next
    PROVE  Settlement'
  <1> USE DEF Settlement, InWork, Unsettled, AfterSettlement
  <1>0. Nesting' /\ (unit.completed \in BOOLEAN)
    BY NestingKept DEF TypeOK
  <1>1. CASE InWork /\ InWork' /\ UNCHANGED <<durable, result>> /\ unit'.completed = unit.completed
    BY <1>1
  <1>2. ASSUME NEW choice \in BOOLEAN, Begin(choice) PROVE Settlement'
    BY <1>2, DoomedFacts DEF Begin
  <1>3. ASSUME BeginFails PROVE Settlement'
    <2>1. stack' = <<>> /\ phase' = "done" /\ durable' = {}
      BY <1>3 DEF BeginFails, Nesting
    <2>2. /\ result'.error = "fatal" /\ result'.status = result.status
          /\ result'.panic = result.panic /\ result'.rollback = result.rollback
      BY <1>3 DEF BeginFails, TypeOK
    <2> QED
      BY <1>3, <2>1, <2>2 DEF BeginFails
  <1>4. ASSUME Panic \/ SavepointPanic PROVE Settlement'
    <2>1. CASE PanicToGuard
      <3>1. /\ phase' = "beforeCompletion" /\ result'.panic = TRUE /\ result'.rollback = TRUE
            /\ result'.status = result.status /\ result'.system = result.system
        BY <2>1 DEF PanicToGuard, Enter, TypeOK
      <3> QED
        BY <1>4, <3>1 DEF Panic, SavepointPanic
    <2>2. CASE PanicToCaller
      BY <1>4, <2>2 DEF PanicToCaller, Panic, SavepointPanic
    <2> QED
      BY <1>4, <2>1, <2>2 DEF Panic, SavepointPanic
  <1>5. ASSUME NEW error \in Errors, Return(error) PROVE Settlement'
    <2>1. /\ result'.panic = result.panic /\ result'.status = result.status
          /\ result'.system = result.system
      BY <1>5 DEF Return, TypeOK
    <2> QED
      BY <1>5, <2>1 DEF Return, Enter
  <1>6. ASSUME NEW i \in todo, NEW effect \in Effects, BeforeCallback(i, effect)
        PROVE  Settlement'
    BY <1>6, RunsFacts DEF BeforeCallback
  <1>7. ASSUME NEW panic \in BOOLEAN, Veto(panic) PROVE Settlement'
    <2>1. /\ result'.panic = panic /\ result'.status = result.status
          /\ result'.system = result.system /\ result'.rollback = TRUE
      BY <1>7 DEF Veto, TypeOK
    <2> QED
      BY <1>7, <2>1 DEF Veto, Enter
  <1>8. ASSUME BeforeCompletionPanics PROVE Settlement'
    <2>1. /\ result'.panic = TRUE /\ result'.status = result.status
          /\ result'.system = result.system /\ result'.rollback = TRUE
      BY <1>8 DEF BeforeCompletionPanics, TypeOK
    <2> QED
      BY <1>8, <2>1 DEF BeforeCompletionPanics
  <1>9. ASSUME NEW i \in todo, AfterCallback(i) PROVE Settlement'
    BY <1>9 DEF AfterCallback
  <1>10. ASSUME EndPhase PROVE Settlement'
    BY <1>0, <1>10 DEF EndPhase, Enter, Nesting
  <1>11. ASSUME NEW choice \in BOOLEAN, Rollback(choice) PROVE Settlement'
    <2>1. /\ result'.panic = result.panic /\ result'.status = "RolledBack"
          /\ result'.rollback = result.rollback
          /\ unit'.completed = TRUE /\ open' = FALSE
      BY <1>11 DEF Rollback, Settled, TypeOK, Statuses
    <2> QED
      BY <1>11, <2>1 DEF Rollback, Enter
  <1>12. ASSUME Commit PROVE Settlement'
    <2>1. /\ result'.panic = result.panic /\ result'.status = "Committed"
          /\ result'.rollback = result.rollback
          /\ unit'.completed = TRUE /\ open' = FALSE
      BY <1>12 DEF Commit, Settled, TypeOK, Statuses
    <2> QED
      BY <1>12, <2>1 DEF Commit, Enter
  <1>13. ASSUME CommitFails PROVE Settlement'
    <2>1. /\ result'.panic = result.panic /\ result'.status = "Unknown"
          /\ result'.rollback = result.rollback /\ result'.system = TRUE
          /\ unit'.completed = TRUE /\ open' = FALSE
      BY <1>13 DEF CommitFails, Settled, TypeOK, Statuses
    <2> QED
      BY <1>13, <2>1 DEF CommitFails, Enter
  <1>14. ASSUME NEW choice \in BOOLEAN, Expire(choice) PROVE Settlement'
    BY <1>14 DEF Expire
  <1>15. ASSUME NEW i \in todo, NEW effect \in Effects, SavepointCallback(i, effect)
         PROVE  Settlement'
    BY <1>1, <1>15, RunsFacts DEF SavepointCallback
  <1>16. ASSUME NEW kind \in Kinds, NEW order \in Orders, Register(kind, order)
         PROVE  Settlement'
    BY <1>1, <1>16, WithCallbackFacts DEF Register
  <1>17. ASSUME MarkRollbackOnly \/ UndoNestedFails PROVE Settlement'
    BY <1>1, <1>17, DoomedFacts DEF MarkRollbackOnly, UndoNestedFails
  <1>18. ASSUME NEW error \in Errors, ReturnJoined(error) PROVE Settlement'
    <2>1. (error = "fatal") \in BOOLEAN
      OBVIOUS
    <2> QED
      BY <1>1, <1>18, <2>1, DoomedFacts DEF ReturnJoined
  <1>19. CASE InWork /\ InWork' /\ UNCHANGED <<durable, result, unit>>
    BY <1>1, <1>19
  <1> QED
    BY <1>2, <1>3, <1>4, <1>5, <1>6, <1>7, <1>8, <1>9, <1>10, <1>11, <1>12, <1>13, <1>14,
       <1>15, <1>16, <1>17, <1>18, <1>19
       DEF Next, Working, Driving, Enter, Write, Join, Nest, ReturnNested, FailNested,
           UndoNested, EndSavepoint

\* Whoever dooms the transaction marks it, and a marked transaction is rolled back.
LEMMA DoomKept ==
    ASSUME TypeOK, Settlement, Doom, Next
    PROVE  Doom'
  <1> USE DEF Doom, InWork, Unsettled
  <1>1. CASE InWork /\ InWork' /\ UNCHANGED <<durable, unit>> /\ history'.doomed = history.doomed
    BY <1>1
  <1>2. ASSUME NEW choice \in BOOLEAN, Begin(choice) PROVE Doom'
    <2>1. unit' = Doomed(choice) /\ history'.doomed = choice /\ phase' = "work"
      BY <1>2 DEF Begin, TypeOK
    <2>2. ~unit.completed /\ durable' = {}
      BY <1>2 DEF Begin, Settlement
    <2>3. choice => unit'.rollbackOnly
      BY <2>1, <2>2, DoomedFacts
    <2> QED
      BY <2>1, <2>2, <2>3
  <1>3. ASSUME MarkRollbackOnly \/ UndoNestedFails PROVE Doom'
    <2>1. unit' = Doomed(TRUE) /\ phase' = "work" /\ UNCHANGED durable /\ InWork
      BY <1>3 DEF MarkRollbackOnly, UndoNestedFails
    <2>2. ~unit.completed /\ durable = {}
      BY <2>1 DEF Settlement
    <2>3. unit'.rollbackOnly
      BY <2>1, <2>2, DoomedFacts
    <2> QED
      BY <2>1, <2>2, <2>3
  <1>4. ASSUME NEW error \in Errors, ReturnJoined(error) PROVE Doom'
    <2>1. /\ unit' = Doomed(error = "fatal") /\ phase' = "work" /\ UNCHANGED durable /\ InWork
          /\ history' = [history EXCEPT !.doomed = @ \/ error = "fatal"]
      BY <1>4 DEF ReturnJoined
    <2>2. ~unit.completed /\ durable = {}
      BY <2>1 DEF Settlement
    <2>3. (error = "fatal") \in BOOLEAN
      OBVIOUS
    <2>4. unit.rollbackOnly \/ error = "fatal" => unit'.rollbackOnly
      BY <2>1, <2>2, <2>3, DoomedFacts
    <2>5. history'.doomed => history.doomed \/ error = "fatal"
      BY <2>1 DEF TypeOK
    <2> QED
      BY <2>1, <2>2, <2>4, <2>5
  <1>5. ASSUME NEW kind \in Kinds, NEW order \in Orders, Register(kind, order) PROVE Doom'
    <2>1. unit'.rollbackOnly = unit.rollbackOnly
      BY <1>5, WithCallbackFacts DEF Register
    <2> QED
      BY <1>5, <2>1 DEF Register
  <1>6. ASSUME NEW i \in todo, NEW effect \in Effects, Runs(i, effect),
               UNCHANGED <<phase, durable, result>>
        PROVE  Doom'
    <2>1. history'.doomed => history.doomed \/ (effect.mark /\ phase \in {"savepoint", "undo"})
      BY <1>6 DEF Runs, TypeOK
    <2>2. unit.rollbackOnly \/ (effect.mark /\ ~unit.completed) => unit'.rollbackOnly
      BY <1>6, RunsFacts
    <2>3. InWork => ~unit.completed /\ durable = {}
      BY DEF Settlement
    <2> QED
      BY <1>6, <2>1, <2>2, <2>3
  <1>7. ASSUME NEW error \in Errors, Return(error) PROVE Doom'
    <2>1. result'.rollback <=> unit.rollbackOnly \/ error = "fatal"
      BY <1>7 DEF Return, TypeOK
    <2> QED
      BY <1>7, <2>1 DEF Return, Enter
  <1>8. ASSUME Panic \/ SavepointPanic PROVE Doom'
    <2>1. history'.doomed = history.doomed /\ UNCHANGED <<unit, durable>> /\ InWork
      BY <1>8 DEF Panic, SavepointPanic, TypeOK
    <2>2. CASE PanicToGuard
      <3>1. phase' = "beforeCompletion" /\ result'.rollback = TRUE
        BY <2>2 DEF PanicToGuard, Enter, TypeOK
      <3> QED
        BY <2>1, <3>1
    <2>3. CASE PanicToCaller
      BY <2>1, <2>3 DEF PanicToCaller
    <2> QED
      BY <1>8, <2>2, <2>3 DEF Panic, SavepointPanic
  <1>9. ASSUME (\E panic \in BOOLEAN : Veto(panic)) \/ BeforeCompletionPanics PROVE Doom'
    <2>1. /\ result'.rollback = TRUE /\ Unsettled /\ ~InWork'
          /\ UNCHANGED <<durable, history>> /\ phase' # "none"
      BY <1>9 DEF Veto, BeforeCompletionPanics, Enter, TypeOK
    <2> QED
      BY <2>1
  <1>10. ASSUME Commit \/ CommitFails PROVE Doom'
    <2>1. ~history.doomed /\ UNCHANGED history /\ phase' # "none"
      BY <1>10 DEF Commit, CommitFails, Enter
    <2> QED
      BY <2>1
  <1>11. CASE UNCHANGED <<durable, history>> /\ ~Unsettled' /\ phase' # "none"
    BY <1>11
  <1>12. ASSUME EndPhase PROVE Doom'
    BY <1>12 DEF EndPhase, Enter
  <1>13. ASSUME NEW i \in todo, AfterCallback(i) PROVE Doom'
    <2>1. history'.doomed = history.doomed
      BY <1>13 DEF AfterCallback, TypeOK
    <2> QED
      BY <1>13, <2>1 DEF AfterCallback
  <1>14. ASSUME NEW choice \in BOOLEAN, Expire(choice) PROVE Doom'
    <2>1. history'.doomed = history.doomed
      BY <1>14 DEF Expire, TypeOK
    <2> QED
      BY <1>14, <2>1 DEF Expire
  <1>15. ASSUME FailNested PROVE Doom'
    <2>1. history'.doomed = history.doomed
      BY <1>15 DEF FailNested, TypeOK
    <2> QED
      BY <1>15, <2>1 DEF FailNested
  <1> QED
    BY <1>1, <1>2, <1>3, <1>4, <1>5, <1>6, <1>7, <1>8, <1>9, <1>10, <1>11, <1>12, <1>13,
       <1>14, <1>15
       DEF Next, Working, Driving, Enter, Write, Join, Nest, ReturnNested, UndoNested,
           EndSavepoint, SavepointCallback, BeforeCallback, BeginFails, Rollback

-----------------------------------------------------------------------------
(* Savepoints.                                                             *)

\* Ending Runs, and dooming the transaction, protects the savepoints that stay open.
LEMMA OutwardProtects ==
    ASSUME Protected, InWork, UNCHANGED writes, history'.failed = history.failed,
           DOMAIN stack' \subseteq DOMAIN stack,
           \A i \in DOMAIN stack' : stack'[i] = stack[i],
           history.panicked => history'.panicked,
           unit.rollbackOnly => unit'.rollbackOnly,
           phase' # "none"
    PROVE  Protected'
  BY DEF Protected, InWork

\* The savepoints keep what they protect.
LEMMA ProtectedKept ==
    ASSUME TypeOK, Nesting, Settlement, Protected, FailedUndone, Next
    PROVE  Protected'
  <1> USE DEF Protected, InWork
  <1>0. Nesting'
    BY NestingKept
  <1>1. CASE InWork /\ UNCHANGED <<stack, writes, unit, history>> /\ phase' # "none"
    BY <1>1
  <1>2. ASSUME NEW choice \in BOOLEAN, Begin(choice) PROVE Protected'
    <2>1. history'.failed = {} /\ phase' = "work"
      BY <1>2 DEF Begin, TypeOK
    <2>2. \A i \in DOMAIN stack' : i = 1 /\ stack'[i].kind # "nested"
      BY <1>2 DEF Begin
    <2> QED
      BY <2>1, <2>2
  <1>3. ASSUME NEW v \in Values, Write(v) PROVE Protected'
    BY <1>3 DEF Write
  <1>4. ASSUME MarkRollbackOnly PROVE Protected'
    <2>1. /\ history'.failed = history.failed /\ history'.panicked = history.panicked
          /\ unit.rollbackOnly => unit'.rollbackOnly
      BY <1>4, DoomedFacts DEF MarkRollbackOnly, TypeOK
    <2> QED
      BY <1>4, <2>1, OutwardProtects DEF MarkRollbackOnly
  <1>5. ASSUME NEW kind \in Kinds, NEW order \in Orders, Register(kind, order) PROVE Protected'
    <2>1. unit'.rollbackOnly = unit.rollbackOnly
      BY <1>5, WithCallbackFacts DEF Register
    <2> QED
      BY <1>5, <2>1, OutwardProtects DEF Register
  <1>6. ASSUME NEW i \in todo, NEW effect \in Effects, SavepointCallback(i, effect)
        PROVE  Protected'
    <2>1. /\ history'.failed = history.failed /\ history'.panicked = history.panicked
          /\ unit.rollbackOnly => unit'.rollbackOnly
      BY <1>6, RunsFacts DEF SavepointCallback, Runs, TypeOK
    <2> QED
      BY <1>6, <2>1, OutwardProtects DEF SavepointCallback
  <1>7. ASSUME Join PROVE Protected'
    <2>1. [kind |-> "join", saved |-> {}] \in Frames
      BY DEF Frames
    <2>2. stack \in Seq(Frames)
      BY DEF TypeOK
    <2>3. /\ stack'[Len(stack) + 1].kind = "join"
          /\ \A i \in DOMAIN stack' : i \in DOMAIN stack \/ i = Len(stack) + 1
          /\ \A i \in DOMAIN stack : stack'[i] = stack[i]
      BY <1>7, <2>1, <2>2, PushFacts DEF Join
    <2> QED
      BY <1>7, <2>3 DEF Join
  <1>8. ASSUME Nest PROVE Protected'
    <2>1. [kind |-> "nested", saved |-> writes] \in Frames
      BY DEF Frames, TypeOK
    <2>2. stack \in Seq(Frames) /\ Len(stack) \in Nat /\ DOMAIN stack = 1..Len(stack)
      BY DEF TypeOK
    <2>3. /\ stack'[Len(stack) + 1] = [kind |-> "nested", saved |-> writes]
          /\ DOMAIN stack' = 1..(Len(stack) + 1)
          /\ \A i \in DOMAIN stack : stack'[i] = stack[i]
      BY <1>8, <2>1, <2>2, PushFacts DEF Nest
    <2>4. \A i \in DOMAIN stack' : i \in DOMAIN stack \/ i = Len(stack) + 1
      BY <2>2, <2>3
    <2>5. \A i \in DOMAIN stack : i < Len(stack) + 1 /\ ~(Len(stack) + 1 < i)
      BY <2>2
    <2>6. UNCHANGED <<writes, unit, history>> /\ phase = "work" /\ phase' = "savepoint"
      BY <1>8 DEF Nest, Enter
    <2>7. stack'[Len(stack) + 1].saved = writes
      BY <2>3
    <2>8. ~history.panicked /\ ~unit.rollbackOnly => writes \cap history.failed = {}
      BY <2>6 DEF FailedUndone
    <2>9. \A i \in DOMAIN stack' : stack'[i].kind = "nested" =>
            /\ stack'[i].saved \subseteq writes'
            /\ ~history'.panicked /\ ~unit'.rollbackOnly
               => stack'[i].saved \cap history'.failed = {}
      BY <2>3, <2>4, <2>6, <2>7, <2>8
    <2>10. ASSUME NEW i \in DOMAIN stack', NEW j \in DOMAIN stack', i < j,
                  stack'[i].kind = "nested", stack'[j].kind = "nested"
           PROVE  stack'[i].saved \subseteq stack'[j].saved
      <3>1. i \in DOMAIN stack
        BY <2>2, <2>3, <2>4, <2>5, <2>10
      <3>2. CASE j \in DOMAIN stack
        BY <2>3, <2>6, <2>10, <3>1, <3>2
      <3>3. CASE j = Len(stack) + 1
        BY <2>3, <2>6, <2>7, <2>10, <3>1, <3>3
      <3> QED
        BY <2>4, <3>2, <3>3
    <2> QED
      BY <2>6, <2>9, <2>10
  <1>9. ASSUME NEW error \in Errors, ReturnJoined(error) PROVE Protected'
    <2>1. (error = "fatal") \in BOOLEAN
      OBVIOUS
    <2>2. /\ history'.failed = history.failed /\ history'.panicked = history.panicked
          /\ unit.rollbackOnly => unit'.rollbackOnly
      BY <1>9, <2>1, DoomedFacts DEF ReturnJoined, TypeOK
    <2>3. phase \notin {"none", "done"} /\ Top.kind # "new" /\ Pop /\ phase' = "work"
          /\ UNCHANGED writes
      BY <1>9 DEF ReturnJoined
    <2> QED
      BY <2>2, <2>3, PopFacts, OutwardProtects, <1>9 DEF ReturnJoined
  <1>10. ASSUME ReturnNested PROVE Protected'
    BY <1>10, PopFacts, OutwardProtects DEF ReturnNested
  <1>11. ASSUME FailNested PROVE Protected'
    <2>1. /\ history'.failed = history.failed \cup (writes \ Top.saved)
          /\ history'.panicked = history.panicked
      BY <1>11 DEF FailNested, TypeOK
    <2>2. stack # <<>> /\ stack \in Seq(Frames)
      BY <1>11 DEF FailNested, Nesting, TypeOK
    <2>3. Len(stack) \in DOMAIN stack /\ \A i \in DOMAIN stack : i < Len(stack) \/ i = Len(stack)
      BY <2>2
    <2>4. \A i \in DOMAIN stack : stack[i].kind = "nested" => stack[i].saved \subseteq Top.saved
      BY <1>11, <2>3 DEF FailNested, Top
    <2> QED
      BY <1>11, <2>1, <2>4 DEF FailNested
  <1>12. ASSUME UndoNested PROVE Protected'
    <2>1. Top.kind = "nested" /\ phase = "undo"
      BY <1>12 DEF UndoNested, Nesting
    <2>2. /\ Len(stack) \in DOMAIN stack /\ DOMAIN stack' \subseteq DOMAIN stack
          /\ \A i \in DOMAIN stack' : stack'[i] = stack[i] /\ i < Len(stack)
      BY <1>12, <2>1, PopFacts DEF UndoNested
    <2>3. \A i \in DOMAIN stack' : stack'[i].kind = "nested" => stack'[i].saved \subseteq Top.saved
      BY <2>1, <2>2 DEF Top
    <2> QED
      BY <1>12, <2>2, <2>3 DEF UndoNested
  <1>13. ASSUME UndoNestedFails PROVE Protected'
    <2>1. Top.kind = "nested" /\ phase = "undo"
      BY <1>13 DEF UndoNestedFails, Nesting
    <2>2. unit.rollbackOnly => unit'.rollbackOnly
      BY <1>13, DoomedFacts DEF UndoNestedFails
    <2> QED
      BY <1>13, <2>1, <2>2, PopFacts, OutwardProtects DEF UndoNestedFails
  <1>14. ASSUME Panic \/ SavepointPanic PROVE Protected'
    <2>1. /\ history'.failed = history.failed
          /\ history.panicked => history'.panicked
          /\ UNCHANGED <<writes, unit>> /\ InWork
      BY <1>14 DEF Panic, SavepointPanic, TypeOK
    <2>2. CASE PanicToGuard
      BY <2>1, <2>2 DEF PanicToGuard, Enter
    <2>3. CASE PanicToCaller
      <3>1. PICK depth \in 1..(Len(stack) - 1) : stack' = SubSeq(stack, 1, depth)
        BY <2>3 DEF PanicToCaller
      <3> QED
        BY <2>1, <2>3, <3>1, CutFacts, OutwardProtects DEF PanicToCaller
    <2> QED
      BY <1>14, <2>2, <2>3 DEF Panic, SavepointPanic
  <1>15. CASE ~InWork' /\ phase' # "none"
    BY <1>15
  <1>16. ASSUME NEW choice \in BOOLEAN, Expire(choice) PROVE Protected'
    <2>1. history'.failed = history.failed /\ history'.panicked = history.panicked
      BY <1>16 DEF Expire, TypeOK
    <2> QED
      BY <1>16, <2>1 DEF Expire
  <1> QED
    BY <1>1, <1>2, <1>3, <1>4, <1>5, <1>6, <1>7, <1>8, <1>9, <1>10, <1>11, <1>12, <1>13,
       <1>14, <1>15, <1>16
       DEF Next, Working, Driving, Enter, Return, EndSavepoint, BeforeCallback, AfterCallback,
           BeginFails, Veto, BeforeCompletionPanics, EndPhase, Rollback, Commit, CommitFails

\* The writes of a failed nested Run are undone, or the transaction is rolled back.
LEMMA FailedUndoneKept ==
    ASSUME TypeOK, Nesting, Settlement, Protected, FailedUndone, Next
    PROVE  FailedUndone'
  <1> USE DEF FailedUndone, InWork, Unsettled
  <1>1. CASE /\ phase \in {"work", "savepoint"} => phase' \in {"work", "savepoint"}
             /\ phase' \in {"work", "savepoint"} => phase \in {"work", "savepoint"}
             /\ Unsettled' /\ ~InWork' => Unsettled /\ ~InWork
             /\ unit.rollbackOnly => unit'.rollbackOnly
             /\ result.rollback => result'.rollback
             /\ history.panicked => history'.panicked
             /\ history'.failed = history.failed
             /\ UNCHANGED <<writes, durable>>
    BY <1>1
  <1>2. CASE /\ phase \in {"work", "savepoint"} => phase' \in {"work", "savepoint"}
             /\ phase' \in {"work", "savepoint"} => phase \in {"work", "savepoint"}
             /\ Unsettled' /\ ~InWork' => Unsettled /\ ~InWork
             /\ UNCHANGED <<writes, durable, unit, result, history>>
    BY <1>1, <1>2
  <1>3. ASSUME NEW choice \in BOOLEAN, Begin(choice) PROVE FailedUndone'
    <2>1. history'.failed = {} /\ history.failed = {}
      BY <1>3 DEF Begin, Protected, TypeOK
    <2> QED
      BY <1>3, <2>1 DEF Begin, Settlement
  <1>4. ASSUME NEW v \in Values, Write(v) PROVE FailedUndone'
    BY <1>4 DEF Write
  <1>5. ASSUME MarkRollbackOnly PROVE FailedUndone'
    <2>1. /\ history'.failed = history.failed /\ history'.panicked = history.panicked
          /\ unit.rollbackOnly => unit'.rollbackOnly
      BY <1>5, DoomedFacts DEF MarkRollbackOnly, TypeOK
    <2> QED
      BY <1>1, <1>5, <2>1 DEF MarkRollbackOnly
  <1>6. ASSUME NEW kind \in Kinds, NEW order \in Orders, Register(kind, order)
        PROVE  FailedUndone'
    <2>1. unit'.rollbackOnly = unit.rollbackOnly
      BY <1>6, WithCallbackFacts DEF Register
    <2> QED
      BY <1>1, <1>6, <2>1 DEF Register
  <1>7. ASSUME NEW i \in todo, NEW effect \in Effects, Runs(i, effect),
               UNCHANGED <<phase, writes, durable, result>>
        PROVE  FailedUndone'
    <2>1. /\ history'.failed = history.failed /\ history'.panicked = history.panicked
          /\ unit.rollbackOnly => unit'.rollbackOnly
      BY <1>7, RunsFacts DEF Runs, TypeOK
    <2> QED
      BY <1>1, <1>7, <2>1
  <1>8. ASSUME NEW error \in Errors, ReturnJoined(error) PROVE FailedUndone'
    <2>1. (error = "fatal") \in BOOLEAN
      OBVIOUS
    <2>2. /\ history'.failed = history.failed /\ history'.panicked = history.panicked
          /\ unit.rollbackOnly => unit'.rollbackOnly
      BY <1>8, <2>1, DoomedFacts DEF ReturnJoined, TypeOK
    <2> QED
      BY <1>1, <1>8, <2>2 DEF ReturnJoined
  <1>9. ASSUME FailNested PROVE FailedUndone'
    <2>1. durable' = {} /\ phase' = "undo"
      BY <1>9 DEF FailNested, Settlement
    <2> QED
      BY <2>1
  <1>10. ASSUME UndoNested PROVE FailedUndone'
    <2>1. Top.kind = "nested" /\ phase = "undo"
      BY <1>10 DEF UndoNested, Nesting
    <2>2. Len(stack) \in DOMAIN stack
      BY <1>10, <2>1, PopFacts DEF UndoNested
    <2>3. ~history.panicked /\ ~unit.rollbackOnly => Top.saved \cap history.failed = {}
      BY <2>1, <2>2 DEF Protected, Top
    <2> QED
      BY <1>10, <2>3 DEF UndoNested
  <1>11. ASSUME UndoNestedFails PROVE FailedUndone'
    <2>1. ~unit.completed /\ durable' = {} /\ unit' = Doomed(TRUE) /\ phase' = "work"
      BY <1>11 DEF UndoNestedFails, Settlement
    <2>2. unit'.rollbackOnly
      BY <2>1, DoomedFacts
    <2> QED
      BY <2>1, <2>2
  <1>12. ASSUME Panic \/ SavepointPanic PROVE FailedUndone'
    <2>1. /\ history'.failed = history.failed /\ UNCHANGED <<writes, unit, durable>> /\ InWork
          /\ history'.panicked <=> history.panicked \/ Top.kind = "nested"
          /\ durable = {}
      BY <1>12 DEF Panic, SavepointPanic, TypeOK, Settlement
    <2>2. CASE PanicToGuard
      <3>1. phase' = "beforeCompletion" /\ result'.rollback = TRUE
        BY <2>2 DEF PanicToGuard, Enter, TypeOK
      <3> QED
        BY <2>1, <3>1
    <2>3. CASE PanicToCaller
      <3>1. phase' = "work" /\ UNCHANGED result
        BY <2>3 DEF PanicToCaller
      <3> QED
        BY <2>1, <3>1 DEF Nesting
    <2> QED
      BY <1>12, <2>2, <2>3 DEF Panic, SavepointPanic
  <1>13. ASSUME NEW error \in Errors, Return(error) PROVE FailedUndone'
    <2>1. result'.rollback <=> unit.rollbackOnly \/ error = "fatal"
      BY <1>13 DEF Return, TypeOK
    <2> QED
      BY <1>13, <2>1 DEF Return, Enter
  <1>14. ASSUME (\E panic \in BOOLEAN : Veto(panic)) \/ BeforeCompletionPanics
         PROVE  FailedUndone'
    <2>1. /\ result'.rollback = TRUE /\ phase' \in {"beforeCompletion", "settle"}
          /\ UNCHANGED <<durable, history>>
      BY <1>14 DEF Veto, BeforeCompletionPanics, Enter, TypeOK
    <2> QED
      BY <2>1
  <1>15. CASE ~Unsettled' /\ UNCHANGED <<durable, history>>
    BY <1>15
  <1>16. ASSUME Commit \/ CommitFails PROVE FailedUndone'
    <2>1. /\ UNCHANGED history /\ durable' \in {{}, writes} /\ ~Unsettled'
          /\ phase = "settle" /\ ~result.rollback
      BY <1>16 DEF Commit, CommitFails, Enter
    <2> QED
      BY <2>1
  <1>17. ASSUME NEW i \in todo, AfterCallback(i) PROVE FailedUndone'
    <2>1. history'.failed = history.failed /\ history'.panicked = history.panicked
      BY <1>17 DEF AfterCallback, TypeOK
    <2> QED
      BY <1>17, <2>1 DEF AfterCallback
  <1>18. ASSUME NEW choice \in BOOLEAN, Expire(choice) PROVE FailedUndone'
    <2>1. history'.failed = history.failed /\ history'.panicked = history.panicked
      BY <1>18 DEF Expire, TypeOK
    <2> QED
      BY <1>18, <2>1 DEF Expire
  <1> QED
    BY <1>1, <1>2, <1>3, <1>4, <1>5, <1>6, <1>7, <1>8, <1>9, <1>10, <1>11, <1>12, <1>13,
       <1>14, <1>15, <1>16, <1>17, <1>18
       DEF Next, Working, Driving, Enter, Join, Nest, ReturnNested, EndSavepoint, BeforeCallback,
           SavepointCallback, BeginFails, EndPhase, Rollback

-----------------------------------------------------------------------------
(* Callbacks.                                                              *)

\* Every registration is of one of the kinds.
LEMMA RegisteredKinds ==
    ASSUME TypeOK, NEW i \in DOMAIN unit.callbacks
    PROVE  unit.callbacks[i].kind \in CallbackKinds
  <1>1. unit.callbacks \in Seq(Registrations)
    BY DEF TypeOK
  <1>2. unit.callbacks[i] \in Registrations
    BY <1>1
  <1> QED
    BY <1>2 DEF Registrations

\* No callback is registered for a step that is not a callback phase.
LEMMA NoneRegistered ==
    ASSUME TypeOK, NEW p \in {"none", "work", "undo", "settle", "done"}
    PROVE  Registered(p) = {}
  <1>1. \A i \in DOMAIN unit.callbacks : unit.callbacks[i].kind \in CallbackKinds
    BY RegisteredKinds
  <1> QED
    BY <1>1 DEF Registered, CallbackKinds

\* Nothing is left to run while the work itself runs, and when everything is settled.
LEMMA NothingToDo ==
    ASSUME TypeOK, Phased, phase \in {"none", "work", "settle", "done"}
    PROVE  todo = {}
  <1>1. \A i \in DOMAIN unit.callbacks : unit.callbacks[i].kind \in CallbackKinds
    BY RegisteredKinds
  <1>2. todo \subseteq DOMAIN unit.callbacks
    BY DEF TypeOK
  <1> QED
    BY <1>1, <1>2 DEF Phased, KindOf, CallbackKinds

\* A phase begins whose callbacks have not run.
LEMMA EnterPhased ==
    ASSUME TypeOK, Phased, NEW p \in NotYetRun \cup {"savepoint", "settle", "done"}, Enter(p),
           unit'.callbacks = unit.callbacks, history'.ran = history.ran,
           NotYetRun' \subseteq NotYetRun
    PROVE  Phased' /\ (p # "savepoint" => todo' \cap history'.ran = {})
  <1>1. p \in CallbackKinds \cup Phases /\ p # "undo"
    BY DEF NotYetRun, CallbackKinds, Phases
  <1>2. todo' = Registered(p) /\ phase' = p /\ KindOf(p) = p
    BY <1>1 DEF Enter, KindOf
  <1>3. \A i \in todo' : unit'.callbacks[i].kind = p
    BY <1>1, <1>2, RegisteredFacts
  <1>4. p # "savepoint" => todo' \cap history'.ran = {}
    <2>1. CASE p \in {"settle", "done"}
      BY <2>1, <1>2, NoneRegistered
    <2>2. CASE p \in NotYetRun
      BY <2>2, <1>3 DEF Phased
    <2> QED
      BY <2>1, <2>2
  <1> QED
    BY <1>2, <1>3, <1>4 DEF Phased

\* The next callback of a phase runs.
LEMMA RunPhased ==
    ASSUME TypeOK, Phased, NEW i \in todo, UNCHANGED phase, todo' = todo \ {i},
           history'.ran = history.ran \cup {i}, Grown
    PROVE  Phased'
  <1>1. todo \subseteq DOMAIN unit.callbacks /\ history.ran \subseteq DOMAIN unit.callbacks
    BY DEF TypeOK
  <1>2. NotYetRun' = NotYetRun
    BY DEF NotYetRun, InWork
  <1>3. \A j \in todo \cup history.ran : unit'.callbacks[j] = unit.callbacks[j]
    BY <1>1 DEF Grown
  <1>4. unit'.callbacks[i].kind = KindOf(phase) /\ KindOf(phase) \notin NotYetRun
    BY <1>3 DEF Phased, KindOf, NotYetRun, InWork
  <1> QED
    BY <1>2, <1>3, <1>4 DEF Phased

\* A step with no callbacks, or with those it had.
LEMMA QuietPhased ==
    ASSUME TypeOK, Phased, todo' = {} \/ UNCHANGED <<phase, todo>>,
           history'.ran = history.ran, Grown, NotYetRun' \subseteq NotYetRun
    PROVE  Phased'
  <1>1. todo \subseteq DOMAIN unit.callbacks /\ history.ran \subseteq DOMAIN unit.callbacks
    BY DEF TypeOK
  <1>2. \A j \in todo \cup history.ran : unit'.callbacks[j] = unit.callbacks[j]
    BY <1>1 DEF Grown
  <1> QED
    BY <1>2 DEF Phased

\* Where callbacks go as a step is taken: it runs the next one, it begins a phase whose
\* callbacks have not run, it ends a phase, or it leaves them alone.
Moves ==
    \/ \E i \in todo :
         /\ NextCallback(i)
         /\ UNCHANGED <<phase, result>> /\ todo' = todo \ {i}
         /\ phase \in CallbackKinds \cup {"undo"}
         /\ history'.ran = history.ran \cup {i} /\ Grown
    \/ \E p \in NotYetRun \cup {"savepoint", "settle", "done"} :
         /\ Enter(p) /\ unit'.callbacks = unit.callbacks
         /\ history'.ran = history.ran /\ NotYetRun' \subseteq NotYetRun
         /\ p = "done" => phase = "afterCompletion" /\ todo = {}
                          /\ result'.status = result.status
         /\ p = "afterCompletion" =>
              \/ phase = "afterCommit" /\ todo = {} /\ result'.status = result.status
              \/ result'.status # "Committed"
         /\ result'.status # "Committed" => result.status # "Committed"
    \/ /\ phase = "work" /\ phase' = "undo"
       /\ todo' = Registered("savepointRollback")
       /\ UNCHANGED <<unit, result>> /\ history'.ran = history.ran
    \/ /\ todo' = {} \/ UNCHANGED <<phase, todo>>
       /\ UNCHANGED phase => UNCHANGED todo
       /\ phase' = phase \/ phase' \in {"work", "settle"} \/ (phase' = "done" /\ phase = "none")
       /\ UNCHANGED phase \/ unit'.callbacks = unit.callbacks
       /\ result'.status = result.status
       /\ history'.ran = history.ran /\ Grown /\ NotYetRun' \subseteq NotYetRun

\* Every step moves the callbacks in one of these ways.
LEMMA MovesTaken ==
    ASSUME TypeOK, Nesting, Settlement, Phased, Next
    PROVE  Moves
  <1> DEFINE Call == \E i \in todo :
                       /\ NextCallback(i)
                       /\ UNCHANGED <<phase, result>> /\ todo' = todo \ {i}
                       /\ phase \in CallbackKinds \cup {"undo"}
                       /\ history'.ran = history.ran \cup {i} /\ Grown
             Starts(p) ==
               /\ Enter(p) /\ unit'.callbacks = unit.callbacks
               /\ history'.ran = history.ran /\ NotYetRun' \subseteq NotYetRun
               /\ p = "done" => phase = "afterCompletion" /\ todo = {}
                                /\ result'.status = result.status
               /\ p = "afterCompletion" =>
                    \/ phase = "afterCommit" /\ todo = {} /\ result'.status = result.status
                    \/ result'.status # "Committed"
               /\ result'.status # "Committed" => result.status # "Committed"
             Undoes == /\ phase = "work" /\ phase' = "undo"
                       /\ todo' = Registered("savepointRollback")
                       /\ UNCHANGED <<unit, result>> /\ history'.ran = history.ran
             Waits ==
               /\ todo' = {} \/ UNCHANGED <<phase, todo>>
               /\ UNCHANGED phase => UNCHANGED todo
               /\ phase' = phase \/ phase' \in {"work", "settle"}
                                 \/ (phase' = "done" /\ phase = "none")
               /\ UNCHANGED phase \/ unit'.callbacks = unit.callbacks
               /\ result'.status = result.status
               /\ history'.ran = history.ran /\ Grown /\ NotYetRun' \subseteq NotYetRun
  <1>a. SUFFICES Call \/ Undoes \/ Waits
                 \/ \E p \in NotYetRun \cup {"savepoint", "settle", "done"} : Starts(p)
    BY DEF Moves
  <1> USE DEF NotYetRun, InWork
  <1>b. UNCHANGED unit => Grown
    BY DEF Grown
  <1>c. \A doomed \in BOOLEAN : unit' = Doomed(doomed) => Grown /\ unit'.callbacks = unit.callbacks
    BY DoomedFacts DEF Grown
  <1>d. phase \in {"none", "work", "settle", "done"} => todo = {}
    BY NothingToDo
  <1>1. CASE UNCHANGED <<phase, todo, unit, result, history>>
    BY <1>1, <1>b
  <1>2. ASSUME NEW choice \in BOOLEAN, Begin(choice) PROVE Waits
    <2>1. history'.ran = history.ran
      BY <1>2 DEF Begin, TypeOK
    <2> QED
      BY <1>2, <2>1, <1>c, <1>d DEF Begin
  <1>3. ASSUME BeginFails PROVE Waits
    <2>1. result'.status = result.status
      BY <1>3 DEF BeginFails, TypeOK
    <2> QED
      BY <1>3, <2>1, <1>b, <1>d DEF BeginFails
  <1>4. ASSUME NEW kind \in Kinds, NEW order \in Orders, Register(kind, order) PROVE Waits
    BY <1>4, WithCallbackFacts DEF Register
  <1>5. ASSUME MarkRollbackOnly PROVE Waits
    <2>1. history'.ran = history.ran
      BY <1>5 DEF MarkRollbackOnly, TypeOK
    <2> QED
      BY <1>5, <2>1, <1>c DEF MarkRollbackOnly
  <1>6. ASSUME Nest PROVE Starts("savepoint")
    BY <1>6 DEF Nest, Enter
  <1>7. ASSUME NEW error \in Errors, ReturnJoined(error) PROVE Waits
    <2>1. history'.ran = history.ran
      BY <1>7 DEF ReturnJoined, TypeOK
    <2>2. (error = "fatal") \in BOOLEAN
      OBVIOUS
    <2> QED
      BY <1>7, <2>1, <2>2, <1>c DEF ReturnJoined
  <1>8. ASSUME NEW error \in Errors, Return(error)
        PROVE  Starts("beforeCompletion") \/ Starts("beforeCommit")
    <2>1. result'.status = result.status
      BY <1>8 DEF Return, TypeOK
    <2> QED
      BY <1>8, <2>1 DEF Return, Enter
  <1>9. ASSUME FailNested PROVE Undoes
    <2>1. history'.ran = history.ran
      BY <1>9 DEF FailNested, TypeOK
    <2> QED
      BY <1>9, <2>1 DEF FailNested
  <1>10. ASSUME UndoNestedFails PROVE Waits
    BY <1>10, <1>c DEF UndoNestedFails
  <1>11. ASSUME Panic \/ SavepointPanic PROVE Starts("beforeCompletion") \/ Waits
    <2>1. history'.ran = history.ran /\ UNCHANGED unit /\ InWork
      BY <1>11 DEF Panic, SavepointPanic, TypeOK
    <2>2. CASE PanicToGuard
      <3>1. result'.status = result.status
        BY <2>2 DEF PanicToGuard, TypeOK
      <3> QED
        BY <2>1, <2>2, <3>1 DEF PanicToGuard, Enter
    <2>3. CASE PanicToCaller
      BY <2>1, <2>3, <1>b, <1>d DEF PanicToCaller
    <2> QED
      BY <1>11, <2>2, <2>3 DEF Panic, SavepointPanic
  <1>12. ASSUME NEW i \in todo, NEW effect \in Effects,
                SavepointCallback(i, effect) \/ BeforeCallback(i, effect)
         PROVE  Call
    <2>1. history'.ran = history.ran \cup {i} /\ Grown
      BY <1>12, RunsFacts DEF SavepointCallback, BeforeCallback, Runs, TypeOK
    <2> QED
      BY <1>12, <2>1 DEF SavepointCallback, BeforeCallback, Runs, CallbackKinds
  <1>13. ASSUME NEW panic \in BOOLEAN, Veto(panic) PROVE Starts("beforeCompletion")
    <2>1. result'.status = result.status
      BY <1>13 DEF Veto, TypeOK
    <2> QED
      BY <1>13, <2>1 DEF Veto, Enter
  <1>14. ASSUME BeforeCompletionPanics PROVE Waits
    <2>1. result'.status = result.status
      BY <1>14 DEF BeforeCompletionPanics, TypeOK
    <2> QED
      BY <1>14, <2>1, <1>b DEF BeforeCompletionPanics
  <1>15. ASSUME NEW i \in todo, AfterCallback(i) PROVE Call
    <2>1. history'.ran = history.ran \cup {i}
      BY <1>15 DEF AfterCallback, TypeOK
    <2> QED
      BY <1>15, <2>1, <1>b DEF AfterCallback, CallbackKinds
  <1>16. ASSUME EndPhase
         PROVE  \E p \in {"beforeCompletion", "settle", "afterCompletion", "done"} :
                   Starts(p) /\ p \in NotYetRun \cup {"savepoint", "settle", "done"}
    <2>1. UNCHANGED <<result, history, unit>> /\ todo = {}
      BY <1>16 DEF EndPhase
    <2>2. CASE phase = "beforeCommit" /\ Enter("beforeCompletion")
      BY <2>1, <2>2 DEF Enter
    <2>3. CASE phase = "beforeCompletion" /\ Enter("settle")
      BY <2>1, <2>3 DEF Enter
    <2>4. CASE phase = "afterCommit" /\ Enter("afterCompletion")
      BY <2>1, <2>4 DEF Enter
    <2>5. CASE phase = "afterCompletion" /\ Enter("done")
      BY <2>1, <2>5 DEF Enter
    <2> QED
      BY <1>16, <2>2, <2>3, <2>4, <2>5 DEF EndPhase
  <1>17. ASSUME NEW choice \in BOOLEAN, Rollback(choice) PROVE Starts("afterCompletion")
    <2>1. result'.status = "RolledBack" /\ result.status = "none"
          /\ unit'.callbacks = unit.callbacks
      BY <1>17 DEF Rollback, Settled, TypeOK, Settlement, Unsettled
    <2> QED
      BY <1>17, <2>1 DEF Rollback, Enter
  <1>18. ASSUME Commit PROVE Starts("afterCommit")
    <2>1. result'.status = "Committed" /\ unit'.callbacks = unit.callbacks
      BY <1>18 DEF Commit, Settled, TypeOK
    <2> QED
      BY <1>18, <2>1 DEF Commit, Enter
  <1>19. ASSUME CommitFails PROVE Starts("afterCompletion")
    <2>1. result'.status = "Unknown" /\ result.status = "none"
          /\ unit'.callbacks = unit.callbacks
      BY <1>19 DEF CommitFails, Settled, TypeOK, Settlement, Unsettled
    <2> QED
      BY <1>19, <2>1 DEF CommitFails, Enter
  <1>20. ASSUME NEW choice \in BOOLEAN, Expire(choice) PROVE Waits
    <2>1. history'.ran = history.ran
      BY <1>20 DEF Expire, TypeOK
    <2> QED
      BY <1>20, <2>1, <1>b DEF Expire
  <1>21. ASSUME UndoNested \/ EndSavepoint PROVE Waits
    BY <1>21, <1>b DEF UndoNested, EndSavepoint
  <1> QED
    BY <1>1, <1>2, <1>3, <1>4, <1>5, <1>6, <1>7, <1>8, <1>9, <1>10, <1>11, <1>12, <1>13,
       <1>14, <1>15, <1>16, <1>17, <1>18, <1>19, <1>20, <1>21
       DEF Next, Working, Driving, Write, Join, ReturnNested, Return, Panic, SavepointPanic,
           Veto, Rollback, Commit, CommitFails

\* Before the transaction begins, and once it is settled, no step touches the unit of work.
LEMMA AfterFrozen ==
    ASSUME Next
    PROVE  /\ phase' = "none" => phase = "none" /\ UNCHANGED unit
           /\ phase \in {"afterCommit", "afterCompletion", "done"} => UNCHANGED unit
  <1> USE DEF Enter
  <1>1. ASSUME Working
        PROVE  phase' # "none" /\ phase = "work"
    BY <1>1 DEF Working, Write, Register, MarkRollbackOnly, Join, Nest, ReturnJoined, Return,
         ReturnNested, FailNested, Panic, PanicToGuard, PanicToCaller
  <1>2. ASSUME Driving
        PROVE  /\ phase' = "none" => phase = "none" /\ UNCHANGED unit
               /\ phase \in {"afterCommit", "afterCompletion", "done"} => UNCHANGED unit
    BY <1>2 DEF Driving, Begin, BeginFails, UndoNested, UndoNestedFails, SavepointCallback,
         BeforeCallback, SavepointPanic, PanicToGuard, PanicToCaller, EndSavepoint, Veto,
         BeforeCompletionPanics, AfterCallback, Rollback, Expire, EndPhase, Commit, CommitFails
  <1> QED
    BY <1>1, <1>2 DEF Next

\* Callbacks run in their phase.
LEMMA PhasedKept ==
    ASSUME TypeOK, Phased, Moves
    PROVE  Phased'
  <1>1. ASSUME NEW i \in todo, UNCHANGED phase, todo' = todo \ {i},
               history'.ran = history.ran \cup {i}, Grown
        PROVE  Phased'
    BY <1>1, RunPhased
  <1>2. ASSUME NEW p \in NotYetRun \cup {"savepoint", "settle", "done"}, Enter(p),
               unit'.callbacks = unit.callbacks, history'.ran = history.ran,
               NotYetRun' \subseteq NotYetRun
        PROVE  Phased'
    BY <1>2, EnterPhased
  <1>3. ASSUME phase = "work", phase' = "undo", todo' = Registered("savepointRollback"),
               UNCHANGED unit, history'.ran = history.ran
        PROVE  Phased'
    <2>1. \A i \in todo' : unit'.callbacks[i].kind = "savepointRollback"
      BY <1>3, RegisteredFacts DEF CallbackKinds
    <2>2. NotYetRun' = NotYetRun
      BY <1>3 DEF NotYetRun, InWork
    <2> QED
      BY <1>3, <2>1, <2>2 DEF Phased, KindOf
  <1>4. ASSUME todo' = {} \/ UNCHANGED <<phase, todo>>, history'.ran = history.ran, Grown,
               NotYetRun' \subseteq NotYetRun
        PROVE  Phased'
    BY <1>4, QuietPhased
  <1> QED
    BY <1>1, <1>2, <1>3, <1>4 DEF Moves

\* A later registration is not one of those that ran.
LEMMA RegisteredGrown ==
    ASSUME TypeOK, Grown, NEW kind \in CallbackKinds
    PROVE  /\ Registered(kind) \subseteq Registered(kind)'
           /\ \A i \in Registered(kind)' :
                i \in DOMAIN unit.callbacks => i \in Registered(kind)
           /\ unit'.callbacks = unit.callbacks => Registered(kind)' = Registered(kind)
  BY DEF Grown, Registered

\* After callbacks run all, and those of the commit only after it.
LEMMA AfterRunKept ==
    ASSUME TypeOK, Settlement, Phased, AfterRun, Moves, Next
    PROVE  AfterRun'
  <1>0. history.ran \subseteq DOMAIN unit.callbacks /\ todo \subseteq DOMAIN unit.callbacks
    BY DEF TypeOK
  <1> DEFINE Kind == {"afterCommit", "afterCompletion"}
  <1>a. Kind \subseteq CallbackKinds /\ CallbackKinds \subseteq Phases
        /\ Kind \cap {"none", "work", "undo", "settle", "done", "savepoint"} = {}
    BY DEF CallbackKinds, Phases
  <1>b. phase' = "none" => phase = "none" /\ UNCHANGED unit
    BY AfterFrozen
  <1>1. ASSUME NEW i \in todo, NextCallback(i), UNCHANGED <<phase, result>>, todo' = todo \ {i},
               phase \in CallbackKinds \cup {"undo"},
               history'.ran = history.ran \cup {i}, Grown
        PROVE  AfterRun'
    <2>1. unit.callbacks[i].kind = KindOf(phase)
      BY <1>1 DEF Phased
    <2>2. phase # "done" /\ (phase = "afterCommit" => result.status = "Committed")
      BY <1>1 DEF CallbackKinds, Settlement
    <2>3. CASE phase \in Kind
      <3>1. UNCHANGED unit
        BY <1>1, <2>3, AfterFrozen
      <3>2. Registered("afterCommit")' = Registered("afterCommit")
            /\ Registered("afterCompletion")' = Registered("afterCompletion")
        BY <3>1 DEF Registered
      <3>3. phase = "afterCompletion" => unit.callbacks[i].kind # "afterCommit"
        BY <2>1, <2>3 DEF KindOf
      <3>4. i \in Registered("afterCommit") => unit.callbacks[i].kind = "afterCommit"
        BY DEF Registered
      <3> QED
        BY <1>1, <2>2, <2>3, <3>2, <3>3, <3>4 DEF AfterRun
    <2>4. CASE phase \notin Kind
      <3>1. unit.callbacks[i].kind # "afterCommit"
        BY <2>1, <2>4 DEF KindOf
      <3>2. Registered("afterCommit")' \cap history'.ran \subseteq
              Registered("afterCommit") \cap history.ran
        <4>1. history'.ran \subseteq DOMAIN unit.callbacks
          BY <1>0, <1>1
        <4>2. i \notin Registered("afterCommit")
          BY <3>1 DEF Registered
        <4> QED
          BY <1>1, <1>a, <4>1, <4>2, RegisteredGrown
      <3> QED
        BY <1>1, <1>b, <2>2, <2>4, <3>2 DEF AfterRun
    <2> QED
      BY <2>3, <2>4
  <1>2. ASSUME NEW p \in NotYetRun \cup {"savepoint", "settle", "done"},
               Enter(p), unit'.callbacks = unit.callbacks, history'.ran = history.ran,
               p = "done" => phase = "afterCompletion" /\ todo = {}
                             /\ result'.status = result.status,
               p = "afterCompletion" =>
                 \/ phase = "afterCommit" /\ todo = {} /\ result'.status = result.status
                 \/ result'.status # "Committed",
               result'.status # "Committed" => result.status # "Committed"
        PROVE  AfterRun'
    <2>1. Registered("afterCommit")' = Registered("afterCommit")
          /\ Registered("afterCompletion")' = Registered("afterCompletion")
      BY <1>2 DEF Registered
    <2>2. phase' = p /\ todo' = Registered(p)
      BY <1>2 DEF Enter
    <2> QED
      BY <1>2, <1>b, <2>1, <2>2 DEF AfterRun
  <1>3. ASSUME phase = "work", phase' = "undo", UNCHANGED <<unit, result>>,
               history'.ran = history.ran
        PROVE  AfterRun'
    <2>1. Registered("afterCommit")' = Registered("afterCommit")
      BY <1>3 DEF Registered
    <2> QED
      BY <1>3, <2>1 DEF AfterRun
  <1>4. ASSUME todo' = {} \/ UNCHANGED <<phase, todo>>,
               UNCHANGED phase => UNCHANGED todo,
               phase' = phase \/ phase' \in {"work", "settle"}
                              \/ (phase' = "done" /\ phase = "none"),
               UNCHANGED phase \/ unit'.callbacks = unit.callbacks,
               result'.status = result.status, history'.ran = history.ran, Grown
        PROVE  AfterRun'
    <2>1. Registered("afterCommit")' \cap history'.ran \subseteq
            Registered("afterCommit") \cap history.ran
      BY <1>0, <1>4, <1>a, RegisteredGrown
    <2>2. CASE phase' \in {"work", "settle"}
      BY <1>4, <2>1, <2>2 DEF AfterRun
    <2>3. CASE phase' = "done" /\ phase = "none"
      <3>1. unit'.callbacks = <<>> /\ result'.status # "Committed"
        BY <1>4, <2>3 DEF AfterRun, Settlement
      <3>2. Registered("afterCompletion")' = {}
        BY <3>1 DEF Registered
      <3> QED
        BY <1>4, <2>1, <2>3, <3>1, <3>2 DEF AfterRun
    <2>4. CASE phase' = phase
      <3>1. CASE phase \in Kind \cup {"done"}
        <4>1. UNCHANGED unit
          BY <1>4, <2>4, <3>1, AfterFrozen
        <4>2. Registered("afterCommit")' = Registered("afterCommit")
              /\ Registered("afterCompletion")' = Registered("afterCompletion")
          BY <4>1 DEF Registered
        <4>3. UNCHANGED todo
          BY <1>4, <2>4
        <4> QED
          BY <1>4, <1>b, <2>4, <3>1, <4>2, <4>3 DEF AfterRun
      <3>2. CASE phase \notin Kind \cup {"done"}
        BY <1>4, <1>b, <2>1, <2>4, <3>2 DEF AfterRun
      <3> QED
        BY <3>1, <3>2
    <2> QED
      BY <1>4, <2>2, <2>3, <2>4
  <1> QED
    BY <1>1, <1>2, <1>3, <1>4 DEF Moves

\* The order of two registrations never changes.
LEMMA EarlierKept ==
    ASSUME TypeOK, Grown, NEW i \in DOMAIN unit.callbacks, NEW j \in DOMAIN unit.callbacks
    PROVE  /\ unit'.callbacks[i].kind = unit.callbacks[i].kind
           /\ unit'.callbacks[j].kind = unit.callbacks[j].kind
           /\ Earlier(i, j)' <=> Earlier(i, j)
  BY DEF Grown, Earlier

\* Callbacks of a phase run in order.
LEMMA CallbacksInOrderKept ==
    ASSUME TypeOK, Phased, CallbacksInOrder, Moves
    PROVE  CallbacksInOrder'
  <1>0. history.ran \subseteq DOMAIN unit.callbacks /\ todo \subseteq DOMAIN unit.callbacks
    BY DEF TypeOK
  <1>1. ASSUME NEW c \in todo, NextCallback(c), UNCHANGED phase, todo' = todo \ {c},
               history'.ran = history.ran \cup {c}, Grown
        PROVE  CallbacksInOrder'
    <2>1. ASSUME NEW i \in history'.ran, NEW j \in todo',
                 unit'.callbacks[i].kind = unit'.callbacks[j].kind,
                 phase' \notin {"savepoint", "undo"}
          PROVE  Earlier(i, j)'
      <3>1. i \in DOMAIN unit.callbacks /\ j \in DOMAIN unit.callbacks /\ j \in todo /\ j # c
        BY <1>0, <1>1, <2>1
      <3>2. Earlier(i, j)
        <4>1. CASE i = c
          BY <1>1, <3>1, <4>1 DEF NextCallback
        <4>2. CASE i # c
          BY <1>1, <2>1, <3>1, <4>2, EarlierKept DEF CallbacksInOrder
        <4> QED
          BY <4>1, <4>2
      <3> QED
        BY <1>1, <3>1, <3>2, EarlierKept
    <2> QED
      BY <2>1 DEF CallbacksInOrder
  <1>2. ASSUME NEW p \in NotYetRun \cup {"savepoint", "settle", "done"}, Enter(p),
               unit'.callbacks = unit.callbacks, history'.ran = history.ran,
               NotYetRun' \subseteq NotYetRun
        PROVE  CallbacksInOrder'
    <2>1. CASE p = "savepoint"
      BY <1>2, <2>1 DEF CallbacksInOrder, Enter
    <2>2. CASE p \in {"settle", "done"}
      BY <1>2, <2>2, NoneRegistered DEF CallbacksInOrder, Enter
    <2>3. CASE p \in NotYetRun
      <3>1. \A j \in todo' : unit.callbacks[j].kind = p
        BY <1>2 DEF Enter, Registered
      <3>2. \A i \in history.ran : unit.callbacks[i].kind # p
        BY <2>3 DEF Phased
      <3> QED
        BY <1>2, <3>1, <3>2 DEF CallbacksInOrder
    <2> QED
      BY <2>1, <2>2, <2>3
  <1>3. ASSUME phase' = "undo"
        PROVE  CallbacksInOrder'
    BY <1>3 DEF CallbacksInOrder
  <1>4. ASSUME todo' = {} \/ UNCHANGED <<phase, todo>>, history'.ran = history.ran, Grown
        PROVE  CallbacksInOrder'
    <2>1. CASE todo' = {}
      BY <2>1 DEF CallbacksInOrder
    <2>2. CASE UNCHANGED <<phase, todo>>
      BY <1>0, <1>4, <2>2, EarlierKept DEF CallbacksInOrder
    <2> QED
      BY <1>4, <2>1, <2>2
  <1> QED
    BY <1>1, <1>2, <1>3, <1>4 DEF Moves

-----------------------------------------------------------------------------
(* The hooks of the execution listeners.                                   *)

\* One more hook is called.
LEMMA AppendHook ==
    ASSUME NEW a, NEW b, NEW c, NEW d
    PROVE  Append(<<a, b>>, c) = <<a, b, c>> /\ Append(<<a, b, c>>, d) = <<a, b, c, d>>
  <1> DEFINE S == {a, b, c, d}
  <1>1. /\ <<a, b>> \in Seq(S) /\ <<a, b, c>> \in Seq(S) /\ <<a, b, c, d>> \in Seq(S)
        /\ Len(<<a, b>>) = 2 /\ Len(<<a, b, c>>) = 3 /\ Len(<<a, b, c, d>>) = 4
        /\ c \in S /\ d \in S
    OBVIOUS
  <1> HIDE DEF S
  <1>2. Append(<<a, b>>, c) = <<a, b, c>>
    <2> DEFINE s == Append(<<a, b>>, c)
    <2>1. s \in Seq(S) /\ Len(s) = 3
      BY <1>1
    <2>2. s[1] = a /\ s[2] = b /\ s[3] = c
      BY <1>1
    <2>3. \A i \in 1..Len(s) : s[i] = <<a, b, c>>[i]
      BY <2>1, <2>2
    <2> QED
      BY <1>1, <2>1, <2>3, SeqEqual
  <1>3. Append(<<a, b, c>>, d) = <<a, b, c, d>>
    <2> DEFINE s == Append(<<a, b, c>>, d)
    <2>1. s \in Seq(S) /\ Len(s) = 4
      BY <1>1
    <2>2. s[1] = a /\ s[2] = b /\ s[3] = c /\ s[4] = d
      BY <1>1
    <2>3. \A i \in 1..Len(s) : s[i] = <<a, b, c, d>>[i]
      BY <2>1, <2>2
    <2> QED
      BY <1>1, <2>1, <2>3, SeqEqual
  <1> QED
    BY <1>2, <1>3

\* The listeners are told what happens as it happens.
LEMMA ToldKept ==
    ASSUME TypeOK, Nesting, Settlement, hooks = Told, Next
    PROVE  hooks' = Told'
  <1> USE DEF InWork, Unsettled
  <1>0. Nesting'
    BY NestingKept
  <1>1. CASE Unsettled /\ Unsettled' /\ UNCHANGED hooks
    BY <1>1 DEF Told
  <1>2. CASE UNCHANGED <<phase, stack, result, hooks>>
    BY <1>2 DEF Told, Report
  <1>3. ASSUME NEW choice \in BOOLEAN, Begin(choice) PROVE hooks' = Told'
    BY <1>3 DEF Begin, Told
  <1>4. ASSUME BeginFails PROVE hooks' = Told'
    BY <1>4 DEF BeginFails, Told, Nesting
  <1>5. ASSUME NEW choice \in BOOLEAN, Rollback(choice) PROVE hooks' = Told'
    <2>1. result'.status = "RolledBack" /\ phase' = "afterCompletion"
      BY <1>5 DEF Rollback, Enter, TypeOK
    <2>2. hooks' = Append(<<Before("begin"), After("begin", FALSE)>>, Before("rollback"))
      BY <1>5 DEF Rollback, Settled, Told
    <2> QED
      BY <2>1, <2>2, AppendHook DEF Told
  <1>6. ASSUME Commit \/ CommitFails PROVE hooks' = Told'
    <2>1. result'.status # "RolledBack" /\ phase' \in {"afterCommit", "afterCompletion"}
      BY <1>6 DEF Commit, CommitFails, Enter, TypeOK
    <2>2. hooks' = Append(<<Before("begin"), After("begin", FALSE)>>, Before("commit"))
      BY <1>6 DEF Commit, CommitFails, Settled, Told
    <2> QED
      BY <2>1, <2>2, AppendHook DEF Told
  <1>7. ASSUME EndPhase PROVE hooks' = Told'
    <2>1. UNCHANGED <<stack, result>>
      BY <1>7 DEF EndPhase
    <2>2. CASE phase \in {"beforeCommit", "beforeCompletion"}
      BY <1>1, <1>7, <2>2 DEF EndPhase, Enter
    <2>3. CASE phase = "afterCommit"
      BY <1>7, <2>1, <2>3 DEF EndPhase, Enter, Told
    <2>4. CASE phase = "afterCompletion"
      <3>1. phase' = "done" /\ hooks' = Append(hooks, Report) /\ stack' # <<>> /\ Report' = Report
        BY <1>7, <2>1, <2>4 DEF EndPhase, Enter, Nesting, Report
      <3> DEFINE a == Before("begin")
                 b == After("begin", FALSE)
                 c == Before(IF result.status = "RolledBack" THEN "rollback" ELSE "commit")
      <3>2. hooks = <<a, b, c>>
        BY <2>4 DEF Told
      <3>3. Told' = <<a, b, c, Report>>
        BY <2>1, <3>1 DEF Told
      <3> HIDE DEF a, b, c
      <3>4. Append(<<a, b, c>>, Report) = <<a, b, c, Report>>
        BY AppendHook
      <3> QED
        BY <3>1, <3>2, <3>3, <3>4
    <2> QED
      BY <1>7, <2>2, <2>3, <2>4 DEF EndPhase
  <1>8. ASSUME NEW i \in todo, AfterCallback(i) PROVE hooks' = Told'
    BY <1>2, <1>8 DEF AfterCallback
  <1>9. ASSUME Panic \/ SavepointPanic PROVE hooks' = Told'
    BY <1>1, <1>9 DEF Panic, SavepointPanic, PanicToGuard, PanicToCaller, Enter
  <1>10. ASSUME NEW error \in Errors, Return(error) PROVE hooks' = Told'
    BY <1>1, <1>10 DEF Return, Enter
  <1> QED
    BY <1>1, <1>2, <1>3, <1>4, <1>5, <1>6, <1>7, <1>8, <1>9, <1>10
       DEF Next, Working, Driving, Enter, Write, Register, MarkRollbackOnly, Join, Nest,
           ReturnJoined, ReturnNested, FailNested, UndoNested, UndoNestedFails,
           SavepointCallback, BeforeCallback, EndSavepoint, Veto, BeforeCompletionPanics, Expire

-----------------------------------------------------------------------------
(* The theorems.                                                           *)

\* The invariant holds initially, and every step keeps it.
LEMMA InitUnit == Init => UnitInv
  BY DEF Init, UnitInv, Nesting, Settlement, Doom, Protected, FailedUndone, Phased, AfterRun,
         CallbacksInOrder, Told, InWork, Unsettled, AfterSettlement, NotYetRun, Registered

LEMMA NextUnit ==
    ASSUME TypeOK, UnitInv, [Next]_vars
    PROVE  TypeOK' /\ UnitInv'
  <1>1. CASE Next
    <2>1. TypeOK'
      BY <1>1, WorkingType, DrivingType DEF Next, UnitInv
    <2>2. Moves
      BY <1>1, MovesTaken DEF UnitInv
    <2> QED
      BY <1>1, <2>1, <2>2, NestingKept, SettlementKept, DoomKept, ProtectedKept,
         FailedUndoneKept, PhasedKept, AfterRunKept, CallbacksInOrderKept, ToldKept DEF UnitInv
  <1>2. CASE UNCHANGED vars
    <2> USE <1>2 DEF vars, UnitInv, InWork, Unsettled
    <2>1. TypeOK'
      BY DEF TypeOK
    <2>2. Nesting' /\ Settlement' /\ Doom'
      BY DEF Nesting, Top, Settlement, AfterSettlement, Doom
    <2>3. Protected' /\ FailedUndone'
      BY DEF Protected, FailedUndone
    <2>4. Phased' /\ AfterRun'
      BY DEF Phased, KindOf, NotYetRun, AfterRun, Registered
    <2>5. CallbacksInOrder'
      BY DEF CallbacksInOrder, Earlier
    <2>6. hooks' = Told'
      BY DEF Told, Report
    <2> QED
      BY <2>1, <2>2, <2>3, <2>4, <2>5, <2>6
  <1> QED
    BY <1>1, <1>2

LEMMA UnitInvariant == Spec => [](TypeOK /\ UnitInv)
  <1>1. Init => TypeOK /\ UnitInv
    BY InitType, InitUnit
  <1>2. (TypeOK /\ UnitInv) /\ [Next]_vars => (TypeOK /\ UnitInv)'
    BY NextUnit
  <1> QED
    BY <1>1, <1>2, PTL DEF Spec

\* The variables keep their types: Runs nest, whatever panics and recovers, and a callback
\* to run is a registered one.
THEOREM TypeCorrect == Spec => []TypeOK
  BY UnitInvariant, PTL

\* What Run returns is true: nil means that what was written and not undone is durable, a
\* rollback reported that nothing is.
THEOREM OutcomeIsTruthful == Spec => []OutcomeTruthful
  <1>1. ASSUME TypeOK, UnitInv
        PROVE  OutcomeTruthful
    <2> USE DEF UnitInv, Settlement, AfterSettlement
    <2>1. result.status \in Statuses /\ result.error \in Errors
      BY <1>1 DEF TypeOK
    <2>2. result.status = "RolledBack" => durable = {}
      <3>1. phase \in Phases
        BY <1>1 DEF TypeOK
      <3>2. phase = "none" \/ Unsettled \/ AfterSettlement \/ (phase = "done" /\ stack = <<>>)
        BY <1>1, <3>1 DEF InWork, Unsettled, Phases, CallbackKinds
      <3> QED
        BY <1>1, <3>2
    <2>3. ASSUME phase = "done", Outcome = {}
          PROVE  durable = writes
      <3>1. ~result.panic /\ result.error = "nil" /\ ~result.system
        BY <2>3 DEF Outcome
      <3>2. result.status # "RolledBack"
        BY <2>3, <3>1 DEF Outcome
      <3> QED
        BY <1>1, <2>1, <2>3, <3>1, <3>2 DEF Statuses
    <2>4. ASSUME phase = "done", Outcome \cap {"panic", "ErrRollbackOnly"} # {}
          PROVE  durable = {}
      <3>1. result.panic \/ result.status = "RolledBack"
        BY <2>1, <2>4 DEF Outcome, Errors
      <3> QED
        BY <1>1, <2>2, <2>4, <3>1
    <2> QED
      BY <2>2, <2>3, <2>4 DEF OutcomeTruthful
  <1> QED
    BY <1>1, UnitInvariant, PTL

\* A transaction that the work has doomed, or in which a joined Run has failed, is never
\* committed, whoever swallows the error.
THEOREM DoomIsFinal == Spec => []DoomedNeverCommits
  <1>1. UnitInv => DoomedNeverCommits
    BY DEF UnitInv, Doom, DoomedNeverCommits
  <1> QED
    BY <1>1, UnitInvariant, PTL

\* What a nested Run wrote before it failed is never committed, whether the rollback to its
\* savepoint works or not.
THEOREM FailedNestedIsUndone == Spec => []FailedNestedNeverCommits
  <1>1. UnitInv => FailedNestedNeverCommits
    BY DEF UnitInv, FailedUndone, FailedNestedNeverCommits
  <1> QED
    BY <1>1, UnitInvariant, PTL

\* Callbacks run in the order of their registration options, also when callbacks register
\* more of their kind.
THEOREM CallbacksRunInOrder == Spec => []CallbacksInOrder
  <1>1. UnitInv => CallbacksInOrder
    BY DEF UnitInv
  <1> QED
    BY <1>1, UnitInvariant, PTL

\* A Run that is over, however it ended, has settled its transaction.
THEOREM TransactionsAreSettled == Spec => []NoLeakedTransaction
  <1>1. UnitInv => NoLeakedTransaction
    BY DEF UnitInv, Settlement, AfterSettlement, NoLeakedTransaction
  <1> QED
    BY <1>1, UnitInvariant, PTL

\* Every after-completion callback runs, and every after-commit callback exactly after a
\* commit, whichever of them panics.
THEOREM AfterCallbacksAllRun == Spec => []AfterCallbacksRun
  <1>1. UnitInv => AfterCallbacksRun
    BY DEF UnitInv, AfterRun, AfterCallbacksRun
  <1> QED
    BY <1>1, UnitInvariant, PTL

\* The execution listeners see every transaction from its begin to its settlement, and the
\* settlement they are told is the one that took effect.
THEOREM HooksAreTruthful == Spec => []HooksTellTheOutcome
  <1>1. ASSUME TypeOK, UnitInv
        PROVE  HooksTellTheOutcome
    <2> DEFINE a == Before("begin")
               b == After("begin", FALSE)
               c == Before(IF result.status = "RolledBack" THEN "rollback" ELSE "commit")
               d == After("begin", TRUE)
               Whole == phase = "done" /\ stack # <<>>
               Alternate == /\ \A i \in DOMAIN hooks : hooks[i].after <=> i % 2 = 0
                            /\ \A i \in DOMAIN hooks :
                                 hooks[i].after => hooks[i].step = hooks[i - 1].step
    <2>1. phase \in Phases /\ result.status \in Statuses /\ hooks = Told
      BY <1>1 DEF TypeOK, UnitInv
    <2>2. \/ ~Whole /\ hooks = <<>>
          \/ ~Whole /\ hooks = <<a, d>>
          \/ ~Whole /\ hooks = <<a, b>>
          \/ ~Whole /\ hooks = <<a, b, c>>
          \/ Whole /\ hooks = <<a, b, c, Report>>
      BY <2>1 DEF Told, InWork, Unsettled
    <2>3. /\ ~a.after /\ ~c.after /\ b.after /\ d.after
          /\ b.step = a.step /\ d.step = a.step
      BY DEF Before, After
    <2>4. Report.after /\ Report.step = c.step
      BY DEF Report, Before, After
    <2>5. Whole =>
            /\ Report = After("commit", FALSE) => durable = writes
            /\ Report.step = "rollback" => durable = {}
      <3>1. ASSUME Whole, Report = After("commit", FALSE)
            PROVE  result.status = "Committed"
        BY <1>1, <2>1, <3>1 DEF Report, After, UnitInv, Settlement, AfterSettlement, Statuses
      <3>2. Report.step = "rollback" => result.status = "RolledBack"
        BY DEF Report, After
      <3> QED
        BY <1>1, <3>1, <3>2 DEF UnitInv, Settlement, AfterSettlement
    <2>6. Whole => Registered("afterCompletion") \subseteq history.ran
      BY <1>1 DEF UnitInv, AfterRun
    <2>7. 1 % 2 = 1 /\ 2 % 2 = 0 /\ 3 % 2 = 1 /\ 4 % 2 = 0
      OBVIOUS
    <2> HIDE DEF a, b, c, d
    <2>8. CASE ~Whole /\ hooks = <<>>
      <3>1. Alternate /\ Len(hooks) = 0
        BY <2>8
      <3> QED
        BY <2>8, <3>1 DEF HooksTellTheOutcome
    <2>9. ASSUME NEW e, e = b \/ e = d, ~Whole, hooks = <<a, e>>
          PROVE  HooksTellTheOutcome
      <3>1. DOMAIN hooks = {1, 2} /\ Len(hooks) = 2 /\ hooks[1] = a /\ hooks[2] = e
        BY <2>9
      <3>2. Alternate
        BY <2>3, <2>7, <2>9, <3>1
      <3> QED
        BY <2>9, <3>1, <3>2 DEF HooksTellTheOutcome
    <2>10. CASE ~Whole /\ hooks = <<a, b, c>>
      <3>1. DOMAIN hooks = {1, 2, 3} /\ Len(hooks) = 3
            /\ hooks[1] = a /\ hooks[2] = b /\ hooks[3] = c
        BY <2>10
      <3>2. Alternate
        BY <2>3, <2>7, <3>1
      <3> QED
        BY <2>10, <3>1, <3>2 DEF HooksTellTheOutcome
    <2>11. CASE Whole /\ hooks = <<a, b, c, Report>>
      <3>1. DOMAIN hooks = {1, 2, 3, 4} /\ Len(hooks) = 4
            /\ hooks[1] = a /\ hooks[2] = b /\ hooks[3] = c /\ hooks[4] = Report
        BY <2>11
      <3>2. Alternate
        BY <2>3, <2>4, <2>7, <3>1
      <3> QED
        BY <2>5, <2>6, <2>11, <3>1, <3>2 DEF HooksTellTheOutcome
    <2> QED
      BY <2>2, <2>8, <2>9, <2>10, <2>11
  <1> QED
    BY <1>1, UnitInvariant, PTL
=============================================================================
