-------------------------------- MODULE Pool --------------------------------
(***************************************************************************)
(* Pool (pool.go): a table of models by name.  Load reserves the name,     *)
(* opens the model without the lock, and registers it; Remove and Free     *)
(* take entries out of the table under the lock and free them after it.    *)
(* Each critical section under p.mu is one action; everything between two  *)
(* of them can be overtaken.                                               *)
(***************************************************************************)
EXTENDS Integers, FiniteSets

CONSTANTS
    Thread,        \* goroutines
    Name,
    Model,         \* bound: instances New can return
    NoModel,       \* the nil that reserves a name
    Absent,        \* the name is not in the table
    MaxOps,        \* bound: calls per goroutine
    Overlap        \* whether Remove and Free may be called while a Load runs

ASSUME PoolAssumption ==
    /\ NoModel \notin Model /\ Absent \notin Model /\ NoModel # Absent
    /\ MaxOps \in Nat /\ Overlap \in BOOLEAN

VARIABLES
    models,    \* the table: [Name -> Model, NoModel or Absent]
    live,      \* instances that New has opened and nothing has freed
    used,      \* instances New has opened so far
    call,      \* [op, name, model, todo] each goroutine is in
    calls      \* calls each goroutine has started
vars == <<models, live, used, call, calls>>

---------------------------------------------------------------------------
Doing(op, n, x, todo) == [op |-> op, name |-> n, model |-> x, todo |-> todo]
NoCall == Doing("none", Absent, NoModel, {})

Init ==
    /\ models = [n \in Name |-> Absent]
    /\ live = {} /\ used = {}
    /\ call = [t \in Thread |-> NoCall]
    /\ calls = [t \in Thread |-> 0]

In(t, op) == call[t].op = op
Loading == {t \in Thread : In(t, "new") \/ In(t, "register") \/ In(t, "unreserve")}
Loaded(n) == models[n] \in Model

Begin(t) ==
    /\ In(t, "none") /\ calls[t] < MaxOps
    /\ calls' = [calls EXCEPT ![t] = @ + 1]

Becomes(t, op, n, x, todo) == call' = [call EXCEPT ![t] = Doing(op, n, x, todo)]
Return(t) == Becomes(t, "none", Absent, NoModel, {})

\* Mutant: a reserved name counts as free.
TakenByModel(n) == Loaded(n)
Taken(n) == models[n] # Absent

\* Mutant: the name is not reserved.
ReserveNothing(n) == UNCHANGED models
Reserve(n) == models' = [models EXCEPT ![n] = NoModel]

\* Load, first section: a name in the table is refused, another one reserved.
Load(t, n) ==
    /\ Begin(t)
    /\ IF Taken(n) THEN UNCHANGED <<models, call>>
       ELSE Reserve(n) /\ Becomes(t, "new", n, NoModel, {})
    /\ UNCHANGED <<live, used>>

\* New, without the lock: it opens an instance or fails.
NewSucceeds(t) ==
    /\ In(t, "new")
    /\ \E x \in Model \ used :
         /\ used' = used \cup {x} /\ live' = live \cup {x}
         /\ Becomes(t, "register", call[t].name, x, {})
    /\ UNCHANGED <<models, calls>>

NewFails(t) ==
    /\ In(t, "new")
    /\ Becomes(t, "unreserve", call[t].name, NoModel, {})
    /\ UNCHANGED <<models, live, used, calls>>

\* Mutant: a failed load keeps the name.
Kept(n) == models
Deleted(n) == [models EXCEPT ![n] = Absent]

Unreserve(t) ==
    /\ In(t, "unreserve")
    /\ models' = Deleted(call[t].name)
    /\ Return(t) /\ UNCHANGED <<live, used, calls>>

Register(t) ==
    /\ In(t, "register")
    /\ models' = [models EXCEPT ![call[t].name] = call[t].model]
    /\ Return(t) /\ UNCHANGED <<live, used, calls>>

\* Pool.Predict and Pool.Embeddings: look the name up, then use the instance,
\* which may have been freed since (LLama answers that call with an error).
Get(t, n) ==
    /\ Begin(t)
    /\ IF Loaded(n) THEN Becomes(t, "use", n, models[n], {}) ELSE UNCHANGED call
    /\ UNCHANGED <<models, live, used>>

Use(t) ==
    /\ In(t, "use")
    /\ Return(t) /\ UNCHANGED <<models, live, used, calls>>

MayTakeOut == Overlap \/ Loading = {}

\* Mutant: entries without a model are freed too.
EntriesOf(names) == {models[n] : n \in names}
ModelsOf(names) == {models[n] : n \in {k \in names : Loaded(k)}}

\* Mutant: the models stay in the table.
Table(names) == models
TableWithout(names) == [n \in Name |-> IF n \in names THEN Absent ELSE models[n]]

\* Remove and Free: out of the table under the lock, freed after it.
TakeOut(t, names) ==
    /\ Begin(t) /\ MayTakeOut
    /\ models' = TableWithout(names)
    /\ Becomes(t, "free", Absent, NoModel, ModelsOf(names))
    /\ UNCHANGED <<live, used>>

Remove(t, n) == TakeOut(t, {n})
Free(t) == TakeOut(t, Name)

\* One model.Free() after another, in the order the map gives them.
FreeOne(t) ==
    /\ In(t, "free")
    /\ \E x \in call[t].todo :
         /\ live' = live \ {x}
         /\ Becomes(t, "free", Absent, NoModel, call[t].todo \ {x})
    /\ UNCHANGED <<models, used, calls>>

FreeReturns(t) ==
    /\ In(t, "free") /\ call[t].todo = {}
    /\ Return(t) /\ UNCHANGED <<models, live, used, calls>>

Step(t) == \/ NewSucceeds(t) \/ NewFails(t) \/ Unreserve(t) \/ Register(t)
           \/ Use(t) \/ FreeOne(t) \/ FreeReturns(t)

Next == \E t \in Thread :
           \/ \E n \in Name : Load(t, n) \/ Get(t, n) \/ Remove(t, n)
           \/ Free(t) \/ Step(t)

Spec == Init /\ [][Next]_vars

---------------------------------------------------------------------------
TypeOK ==
    /\ models \in [Name -> Model \cup {NoModel, Absent}]
    /\ live \subseteq used /\ used \subseteq Model
    /\ call \in [Thread -> [op : {"none", "new", "register", "unreserve", "use", "free"},
                            name : Name \cup {Absent}, model : Model \cup {NoModel},
                            todo : SUBSET Model]]
    /\ calls \in [Thread -> 0..MaxOps]

\* "concurrent Loads of the same name fail fast instead of loading twice"
\* (pool.go:32): no two calls open a model for one name.
OneLoadPerName ==
    \A t, u \in Loading : call[t].name = call[u].name => t = u

\* A model in the table has not been freed, and is there under one name only.
RegisteredIsLive ==
    \A n \in Name : Loaded(n) =>
        models[n] \in live /\ \A k \in Name : models[k] = models[n] => k = n

\* "Free releases every model in the pool" (pool.go:103): every model that is
\* open can be reached from the table, unless a call still has it in hand.
EveryModelReachable ==
    \A x \in live :
        \/ \E n \in Name : models[n] = x
        \/ \E t \in Thread : x \in call[t].todo \/ (In(t, "register") /\ call[t].model = x)

\* A name is reserved exactly as long as a Load of it is in progress: a failed
\* Load leaves the name free, and no other call takes the reservation away.
ReservedWhileLoading ==
    \A n \in Name : models[n] = NoModel <=> \E t \in Loading : call[t].name = n
=============================================================================
