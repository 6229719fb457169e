----------------------------- MODULE PoolProofs -----------------------------
(***************************************************************************)
(* Pool for any number of goroutines, names and models.  Whatever calls    *)
(* overlap, the table never holds a freed model (Safe).  That no model is  *)
(* loaded twice or lost holds as long as Remove and Free are not called    *)
(* while a Load runs, which ~Overlap says and nothing in pool.go enforces. *)
(***************************************************************************)
EXTENDS Pool, TLAPS

\* What a call has in hand: a name while it loads, a live model that nobody
\* else can reach while it registers one, models to free.
HandsInv ==
    /\ \A t \in Loading : call[t].name \in Name
    /\ \A t \in Thread : In(t, "register") => call[t].model \in live
    /\ \A t \in Thread : call[t].todo \subseteq live
    /\ \A t \in Thread : call[t].todo # {} => In(t, "free")

\* No model is in two hands, nor in a hand and in the table.
OwnersInv ==
    /\ \A t, u \in Thread : In(t, "register") /\ In(u, "register") /\ call[t].model = call[u].model => t = u
    /\ \A t, u \in Thread : In(t, "register") => call[t].model \notin call[u].todo
    /\ \A t, u \in Thread : t # u => call[t].todo \cap call[u].todo = {}
    /\ \A t \in Thread, n \in Name : In(t, "register") => models[n] # call[t].model
    /\ \A t \in Thread, n \in Name : models[n] \notin call[t].todo

\* What holds whatever calls overlap.
Safe == TypeOK /\ HandsInv /\ OwnersInv /\ RegisteredIsLive

\* What holds as long as nothing is taken out of the table while a Load runs.
Whole == OneLoadPerName /\ EveryModelReachable /\ ReservedWhileLoading

\* The state of a goroutine, with its parts out of the way of the provers.
CallState == [op : {"none", "new", "register", "unreserve", "use", "free"},
              name : Name \cup {Absent}, model : Model \cup {NoModel}, todo : SUBSET Model]

\* A step of goroutine t leaves the calls of the others alone.
Others(t) == \A u \in Thread : u # t => call'[u] = call[u]

\* The type invariant in the parts the lemmas below use.
LEMMA TypeParts ==
  TypeOK <=> /\ models \in [Name -> Model \cup {NoModel, Absent}]
             /\ live \subseteq used /\ used \subseteq Model
             /\ call \in [Thread -> CallState]
             /\ calls \in [Thread -> 0..MaxOps]
  BY DEF TypeOK, CallState

\* What a step that changes the state of t's call does to the calls.
LEMMA Becoming ==
  ASSUME NEW t \in Thread, NEW op \in {"none", "new", "register", "unreserve", "use", "free"},
         NEW n \in Name \cup {Absent}, NEW x \in Model \cup {NoModel}, NEW todo \in SUBSET Model,
         TypeOK, Becomes(t, op, n, x, todo)
  PROVE  /\ call' \in [Thread -> CallState]
         /\ call'[t].op = op /\ call'[t].name = n /\ call'[t].model = x /\ call'[t].todo = todo
         /\ Others(t)
<1>1. call \in [Thread -> CallState]
  BY TypeParts
<1>2. Doing(op, n, x, todo) \in CallState
  BY DEF Doing, CallState
<1>3. call' = [call EXCEPT ![t] = Doing(op, n, x, todo)]
  BY DEF Becomes
<1>4. call' \in [Thread -> CallState] /\ call'[t] = Doing(op, n, x, todo)
  BY <1>1, <1>2, <1>3
<1>5. Others(t)
  BY <1>1, <1>3 DEF Others
<1> QED BY <1>4, <1>5 DEF Doing

\* Starting a call keeps the bounded counter in its range.
LEMMA Beginning ==
  ASSUME TypeOK, NEW t \in Thread, Begin(t)
  PROVE  calls' \in [Thread -> 0..MaxOps] /\ In(t, "none")
<1>1. calls \in [Thread -> 0..MaxOps] /\ MaxOps \in Nat
  BY TypeParts, PoolAssumption
<1>2. calls[t] \in 0..MaxOps /\ calls[t] < MaxOps /\ calls' = [calls EXCEPT ![t] = @ + 1]
  BY <1>1 DEF Begin
<1>3. calls[t] + 1 \in 0..MaxOps
  BY <1>1, <1>2
<1> QED BY <1>1, <1>2, <1>3 DEF Begin

\* The end of a call.
LEMMA Ending ==
  ASSUME TypeOK, NEW t \in Thread, Return(t)
  PROVE  /\ call' \in [Thread -> CallState] /\ Others(t)
         /\ call'[t].op = "none" /\ call'[t].todo = {}
<1>1. Becomes(t, "none", Absent, NoModel, {}) /\ {} \in SUBSET Model
  BY DEF Return
<1> QED BY <1>1, Becoming

\* An empty table.
LEMMA InitHolds == Init => Safe /\ Whole
<1> SUFFICES ASSUME Init PROVE Safe /\ Whole
  OBVIOUS
<1>1. \A t \in Thread : /\ call[t].op = "none" /\ call[t].name = Absent
                        /\ call[t].model = NoModel /\ call[t].todo = {}
  BY DEF Init, NoCall, Doing
<1>2. \A n \in Name : models[n] = Absent
  BY DEF Init
<1>3. Loading = {} /\ live = {}
  BY <1>1 DEF Loading, In, Init
<1>4. TypeOK
  BY PoolAssumption DEF Init, TypeOK, NoCall, Doing
<1>5. HandsInv /\ OwnersInv
  BY <1>1, <1>3 DEF HandsInv, OwnersInv, In
<1>6. OneLoadPerName /\ RegisteredIsLive /\ EveryModelReachable /\ ReservedWhileLoading
  BY <1>2, <1>3, PoolAssumption DEF OneLoadPerName, RegisteredIsLive, EveryModelReachable,
     ReservedWhileLoading, Loaded
<1> QED BY <1>4, <1>5, <1>6 DEF Safe, Whole

\* A call that neither holds nor reserves anything starts, changes or ends, and
\* the models stay as they are.
LEMMA IdleKeeps ==
  ASSUME Safe, NEW t \in Thread, t \notin Loading, call[t].todo = {},
         UNCHANGED <<models, live, used>>, calls' \in [Thread -> 0..MaxOps],
         NEW op \in {"none", "use"}, NEW n \in Name \cup {Absent}, NEW x \in Model \cup {NoModel},
         Becomes(t, op, n, x, {})
  PROVE  Safe' /\ (Whole => Whole')
<1>1. /\ call' \in [Thread -> CallState] /\ Others(t)
      /\ call'[t].op = op /\ call'[t].todo = {}
  BY Becoming DEF Safe
<1>2. TypeOK'
  BY <1>1, TypeParts DEF Safe, TypeOK, CallState
<1>3. /\ Loading' = Loading /\ ~In(t, "register") /\ ~In(t, "register")'
      /\ \A u \in Thread : call'[u].todo = call[u].todo
      /\ \A u \in Thread : (In(u, "register")' <=> In(u, "register"))
      /\ \A u \in Thread : In(u, "register") => call'[u].model = call[u].model
      /\ \A u \in Loading : call'[u].name = call[u].name
  BY <1>1 DEF Others, Loading, In
<1>4. HandsInv'
  BY <1>1, <1>3 DEF Safe, HandsInv, Others, In
<1>5. OwnersInv'
  BY <1>3 DEF Safe, OwnersInv
<1>6. Whole => OneLoadPerName' /\ ReservedWhileLoading'
  BY <1>3 DEF Whole, OneLoadPerName, ReservedWhileLoading
<1>7. RegisteredIsLive' /\ (Whole => EveryModelReachable')
  BY <1>3 DEF Safe, Whole, RegisteredIsLive, EveryModelReachable, Loaded
<1> QED BY <1>2, <1>4, <1>5, <1>6, <1>7 DEF Safe, Whole

\* The first section of Load: a name nobody is loading is reserved, or nothing changes.
LEMMA LoadKeeps ==
  ASSUME Safe, NEW t \in Thread, NEW n \in Name, Load(t, n)
  PROVE  Safe' /\ (Whole => Whole')
<1>1. /\ calls' \in [Thread -> 0..MaxOps] /\ In(t, "none") /\ UNCHANGED <<live, used>>
      /\ TypeOK
  BY Beginning DEF Load, Safe
<1>2. CASE Taken(n)
  <2>1. UNCHANGED <<models, call>>
    BY <1>2 DEF Load
  <2>2. TypeOK'
    BY <1>1, <2>1 DEF TypeOK
  <2> QED BY <1>1, <2>1, <2>2 DEF Safe, Whole, HandsInv, OwnersInv, OneLoadPerName, RegisteredIsLive,
       EveryModelReachable, ReservedWhileLoading, Loading, Loaded, In
<1>3. CASE ~Taken(n)
  <2>1. /\ models[n] = Absent /\ models' = [models EXCEPT ![n] = NoModel]
        /\ Becomes(t, "new", n, NoModel, {})
    BY <1>3 DEF Load, Taken, Reserve
  <2>2. /\ call' \in [Thread -> CallState] /\ Others(t)
        /\ call'[t].op = "new" /\ call'[t].name = n /\ call'[t].todo = {}
    BY <1>1, <2>1, Becoming
  <2>3. models' \in [Name -> Model \cup {NoModel, Absent}]
    BY <1>1, <2>1 DEF TypeOK
  <2>4. models'[n] = NoModel /\ \A k \in Name : k # n => models'[k] = models[k]
    BY <1>1, <2>1 DEF TypeOK
  <2>5. TypeOK'
    BY <1>1, <2>2, <2>3 DEF TypeOK, CallState
  <2>6. t \notin Loading /\ Loading' = Loading \cup {t} /\ ~In(t, "register") /\ ~In(t, "register")'
    BY <1>1, <2>2 DEF Others, Loading, In
  <2>7. /\ \A u \in Thread : u # t => (In(u, "register")' <=> In(u, "register"))
        /\ \A u \in Loading : call'[u].name = call[u].name
    BY <2>2, <2>6 DEF Others, Loading, In
  <2>8. HandsInv'
    BY <1>1, <2>2, <2>6 DEF Safe, HandsInv, Others, Loading, In
  <2>9. OwnersInv'
    <3>1. \A u \in Thread : call[u].model # NoModel \/ ~In(u, "register")
      BY PoolAssumption, <1>1 DEF Safe, HandsInv, TypeOK
    <3>2. \A u \in Thread : call'[u].todo \subseteq Model
      BY <2>2 DEF CallState
    <3> QED BY <2>2, <2>4, <2>6, <2>7, <3>1, <3>2, PoolAssumption DEF Safe, OwnersInv, Others
  <2>10. ASSUME Whole PROVE OneLoadPerName'
    <3>1. \A u \in Loading : call[u].name # n
      BY <2>1, <2>10, PoolAssumption DEF Whole, ReservedWhileLoading
    <3> QED BY <2>2, <2>6, <2>10, <2>7, <3>1 DEF Whole, OneLoadPerName
  <2>11. ASSUME Whole PROVE ReservedWhileLoading'
    <3>1. ASSUME NEW k \in Name
          PROVE  (models'[k] = NoModel) <=> \E u \in Loading' : call'[u].name = k
      BY <2>2, <2>4, <2>6, <2>7, <2>11 DEF Whole, ReservedWhileLoading
    <3> QED BY <3>1 DEF ReservedWhileLoading
  <2>12. RegisteredIsLive'
    BY <1>1, <2>4, PoolAssumption DEF Safe, RegisteredIsLive, Loaded
  <2>13. ASSUME Whole PROVE EveryModelReachable'
    <3> SUFFICES ASSUME NEW x \in live
                 PROVE  \/ \E k \in Name : models'[k] = x
                        \/ \E u \in Thread : \/ x \in call'[u].todo
                                             \/ In(u, "register")' /\ call'[u].model = x
      BY <1>1 DEF EveryModelReachable
    <3>1. CASE \E k \in Name : models[k] = x
      <4>1. x # Absent
        BY <1>1, PoolAssumption DEF TypeOK
      <4> QED BY <2>1, <2>4, <3>1, <4>1
    <3>2. CASE \E u \in Thread : x \in call[u].todo \/ (In(u, "register") /\ call[u].model = x)
      <4>1. PICK u \in Thread : x \in call[u].todo \/ (In(u, "register") /\ call[u].model = x)
        BY <3>2
      <4>2. u # t
        BY <1>1, <2>6, <4>1 DEF Safe, HandsInv, In
      <4> QED BY <2>2, <2>7, <4>1, <4>2 DEF Others
    <3> QED BY <2>13, <3>1, <3>2 DEF Safe, Whole, EveryModelReachable
  <2> QED BY <2>5, <2>8, <2>9, <2>10, <2>11, <2>12, <2>13 DEF Safe, Whole
<1> QED BY <1>2, <1>3

\* A new instance is in the hand of its Load only.
LEMMA NewKeeps ==
  ASSUME Safe, NEW t \in Thread, NewSucceeds(t)
  PROVE  Safe' /\ (Whole => Whole')
<1>1. PICK x \in Model \ used :
        /\ used' = used \cup {x} /\ live' = live \cup {x}
        /\ Becomes(t, "register", call[t].name, x, {})
  BY DEF NewSucceeds
<1>2. In(t, "new") /\ UNCHANGED <<models, calls>> /\ TypeOK
  BY DEF NewSucceeds, Safe
<1>3. t \in Loading /\ call[t].name \in Name /\ call[t].todo = {} /\ x \notin live
  BY <1>1, <1>2 DEF Safe, HandsInv, Loading, In, TypeOK
<1>4. /\ call' \in [Thread -> CallState] /\ Others(t)
      /\ call'[t].op = "register" /\ call'[t].name = call[t].name
      /\ call'[t].model = x /\ call'[t].todo = {}
  BY <1>1, <1>2, <1>3, Becoming
<1>5. TypeOK'
  BY <1>1, <1>2, <1>4 DEF TypeOK, CallState
<1>6. /\ Loading' = Loading /\ ~In(t, "register") /\ In(t, "register")'
      /\ \A u \in Thread : u # t => (In(u, "register")' <=> In(u, "register"))
      /\ \A u \in Loading : call'[u].name = call[u].name
      /\ \A u \in Thread : call'[u].todo = call[u].todo /\ (In(u, "free")' <=> In(u, "free"))
      /\ \A u \in Thread : u # t => call'[u].model = call[u].model
  BY <1>2, <1>3, <1>4 DEF Others, Loading, In
<1>7. HandsInv'
  BY <1>1, <1>4, <1>6 DEF Safe, HandsInv
<1>8. OwnersInv'
  <2>1. \A n \in Name : models[n] # x
    BY <1>1, <1>3 DEF Safe, RegisteredIsLive, Loaded
  <2>2. \A u \in Thread : x \notin call[u].todo /\ (In(u, "register") => call[u].model # x)
    BY <1>3 DEF Safe, HandsInv
  <2> QED BY <1>2, <1>4, <1>6, <2>1, <2>2 DEF Safe, OwnersInv
<1>9. Whole => OneLoadPerName' /\ ReservedWhileLoading'
  BY <1>2, <1>6 DEF Whole, OneLoadPerName, ReservedWhileLoading
<1>10. RegisteredIsLive'
  BY <1>1, <1>2 DEF Safe, RegisteredIsLive, Loaded
<1>11. Whole => EveryModelReachable'
  BY <1>1, <1>2, <1>4, <1>6 DEF Safe, Whole, EveryModelReachable
<1> QED BY <1>5, <1>7, <1>8, <1>9, <1>10, <1>11 DEF Safe, Whole

\* A failed New leaves the reservation for Unreserve.
LEMMA NewFailsKeeps ==
  ASSUME Safe, NEW t \in Thread, NewFails(t)
  PROVE  Safe' /\ (Whole => Whole')
<1>1. /\ In(t, "new") /\ UNCHANGED <<models, live, used, calls>> /\ TypeOK
      /\ Becomes(t, "unreserve", call[t].name, NoModel, {})
  BY DEF NewFails, Safe
<1>2. t \in Loading /\ call[t].name \in Name /\ call[t].todo = {}
  BY <1>1 DEF Safe, HandsInv, Loading, In
<1>3. /\ call' \in [Thread -> CallState] /\ Others(t)
      /\ call'[t].op = "unreserve" /\ call'[t].name = call[t].name /\ call'[t].todo = {}
  BY <1>1, <1>2, Becoming, SMTT(40)
<1>4. TypeOK'
  BY <1>1, <1>3 DEF TypeOK, CallState
<1>5. /\ Loading' = Loading
      /\ \A u \in Loading : call'[u].name = call[u].name
      /\ \A u \in Thread : call'[u].todo = call[u].todo /\ (In(u, "free")' <=> In(u, "free"))
      /\ \A u \in Thread : (In(u, "register")' <=> In(u, "register"))
      /\ \A u \in Thread : In(u, "register") => call'[u].model = call[u].model
  BY <1>1, <1>2, <1>3 DEF Others, Loading, In
<1>6. HandsInv'
  BY <1>1, <1>5 DEF Safe, HandsInv
<1>7. OwnersInv'
  BY <1>1, <1>5 DEF Safe, OwnersInv
<1>8. Whole => OneLoadPerName' /\ ReservedWhileLoading'
  BY <1>1, <1>5 DEF Whole, OneLoadPerName, ReservedWhileLoading
<1>9. RegisteredIsLive' /\ (Whole => EveryModelReachable')
  BY <1>1, <1>5 DEF Safe, Whole, RegisteredIsLive, EveryModelReachable, Loaded
<1> QED BY <1>4, <1>6, <1>7, <1>8, <1>9 DEF Safe, Whole

\* Both ends of a Load: the name gets a model or becomes free; nobody else is
\* loading it if nothing was taken out of the table meanwhile.
LEMMA LoadEnds ==
  ASSUME Safe, NEW t \in Loading, Return(t), UNCHANGED calls,
         NEW x \in Model \cup {Absent}, models' = [models EXCEPT ![call[t].name] = x],
         live \subseteq used, UNCHANGED <<live, used>>
  PROVE  /\ TypeOK' /\ HandsInv'
         /\ Whole => /\ OneLoadPerName' /\ ReservedWhileLoading'
                     /\ models[call[t].name] = NoModel
         /\ call[t].name \in Name /\ call[t].todo = {}
         /\ models'[call[t].name] = x
         /\ \A k \in Name : k # call[t].name => models'[k] = models[k]
         /\ ~In(t, "register")' /\ Others(t) /\ call'[t].todo = {}
         /\ \A u \in Thread : u # t => (In(u, "register")' <=> In(u, "register"))
<1>1. t \in Thread /\ call[t].name \in Name /\ TypeOK /\ call[t].todo = {}
  BY DEF Loading, Safe, HandsInv, In
<1>2. Whole => models[call[t].name] = NoModel
  BY <1>1 DEF Whole, ReservedWhileLoading
<1>3. /\ call' \in [Thread -> CallState] /\ Others(t)
      /\ call'[t].op = "none" /\ call'[t].todo = {}
  BY <1>1, Ending
<1>4. models' \in [Name -> Model \cup {NoModel, Absent}]
  BY <1>1 DEF TypeOK
<1>5. models'[call[t].name] = x /\ \A k \in Name : k # call[t].name => models'[k] = models[k]
  BY <1>1 DEF TypeOK
<1>6. TypeOK'
  BY <1>1, <1>3, <1>4 DEF TypeOK, CallState
<1>7. /\ Loading' = Loading \ {t} /\ ~In(t, "register")'
      /\ \A u \in Thread : u # t => (In(u, "register")' <=> In(u, "register"))
      /\ \A u \in Loading' : call'[u].name = call[u].name
  BY <1>1, <1>3 DEF Others, Loading, In
<1>8. HandsInv'
  BY <1>1, <1>3, <1>7 DEF Safe, HandsInv, Others, In
<1>9. Whole => OneLoadPerName'
  BY <1>7 DEF Whole, OneLoadPerName
<1>10. ASSUME Whole, NEW k \in Name
       PROVE  (models'[k] = NoModel) <=> \E u \in Loading' : call'[u].name = k
  <2>1. CASE k = call[t].name
    <3>1. models'[k] # NoModel
      BY <1>5, <2>1, PoolAssumption
    <3>2. \A u \in Loading' : call'[u].name # k
      BY <1>7, <1>10, <2>1 DEF Whole, OneLoadPerName
    <3> QED BY <3>1, <3>2
  <2>2. CASE k # call[t].name
    <3>1. models'[k] = models[k]
      BY <1>5, <2>2
    <3>2. (models[k] = NoModel) <=> \E u \in Loading : call[u].name = k
      BY <1>10 DEF Whole, ReservedWhileLoading
    <3> QED BY <1>7, <2>2, <3>1, <3>2
  <2> QED BY <2>1, <2>2
<1>11. Whole => ReservedWhileLoading'
  BY <1>10 DEF ReservedWhileLoading
<1> QED BY <1>1, <1>2, <1>3, <1>5, <1>6, <1>7, <1>8, <1>9, <1>11

\* A failed Load frees the name.
LEMMA UnreserveKeeps ==
  ASSUME Safe, NEW t \in Thread, Unreserve(t)
  PROVE  Safe' /\ (Whole => Whole')
<1>1. /\ In(t, "unreserve") /\ t \in Loading /\ Return(t) /\ UNCHANGED <<live, used, calls>>
      /\ models' = [models EXCEPT ![call[t].name] = Absent] /\ live \subseteq used
  BY DEF Unreserve, Deleted, Loading, In, Safe, TypeOK
<1>2. /\ TypeOK' /\ HandsInv'
      /\ Whole => /\ OneLoadPerName' /\ ReservedWhileLoading'
                  /\ models[call[t].name] = NoModel
      /\ call[t].name \in Name /\ call[t].todo = {}
      /\ models'[call[t].name] = Absent
      /\ \A k \in Name : k # call[t].name => models'[k] = models[k]
      /\ ~In(t, "register")' /\ Others(t) /\ call'[t].todo = {}
      /\ \A u \in Thread : u # t => (In(u, "register")' <=> In(u, "register"))
  BY <1>1, LoadEnds
<1>3. OwnersInv'
  <2>1. \A u \in Thread : call'[u].todo \subseteq Model
    BY <1>2 DEF TypeOK
  <2>2. \A u \in Thread : In(u, "register") => call[u].model \in Model
    BY DEF Safe, HandsInv, TypeOK
  <2> QED BY <1>2, <2>1, <2>2, PoolAssumption DEF Safe, OwnersInv, Others
<1>4. RegisteredIsLive'
  BY <1>1, <1>2, PoolAssumption DEF Safe, RegisteredIsLive, Loaded
<1>5. ASSUME Whole PROVE EveryModelReachable'
  <2> SUFFICES ASSUME NEW x \in live
               PROVE  \/ \E k \in Name : models'[k] = x
                      \/ \E u \in Thread : \/ x \in call'[u].todo
                                           \/ In(u, "register")' /\ call'[u].model = x
    BY <1>1 DEF EveryModelReachable
  <2>1. x # NoModel
    BY PoolAssumption DEF Safe, TypeOK
  <2>2. ~In(t, "register")
    BY <1>1 DEF In
  <2>3. CASE \E k \in Name : models[k] = x
    <3>1. models[call[t].name] # x
      BY <1>2, <1>5, <2>1
    <3> QED BY <1>2, <2>3, <3>1
  <2>4. CASE \E u \in Thread : x \in call[u].todo \/ (In(u, "register") /\ call[u].model = x)
    BY <1>2, <2>2, <2>4 DEF Others
  <2> QED BY <1>5, <2>3, <2>4 DEF Whole, EveryModelReachable
<1> QED BY <1>2, <1>3, <1>4, <1>5 DEF Safe, Whole

\* The model passes from the hand of its Load into the table.
LEMMA RegisterKeeps ==
  ASSUME Safe, NEW t \in Thread, Register(t)
  PROVE  Safe' /\ (Whole => Whole')
<1>1. /\ In(t, "register") /\ t \in Loading /\ Return(t) /\ UNCHANGED <<live, used, calls>>
      /\ models' = [models EXCEPT ![call[t].name] = call[t].model]
      /\ live \subseteq used /\ call[t].model \in live /\ call[t].model \in Model
  BY DEF Register, Loading, In, Safe, HandsInv, TypeOK
<1>2. /\ TypeOK' /\ HandsInv'
      /\ Whole => /\ OneLoadPerName' /\ ReservedWhileLoading'
                  /\ models[call[t].name] = NoModel
      /\ call[t].name \in Name /\ call[t].todo = {}
      /\ models'[call[t].name] = call[t].model
      /\ \A k \in Name : k # call[t].name => models'[k] = models[k]
      /\ ~In(t, "register")' /\ Others(t) /\ call'[t].todo = {}
      /\ \A u \in Thread : u # t => (In(u, "register")' <=> In(u, "register"))
  BY <1>1, LoadEnds
<1>3. OwnersInv'
  <2>1. \A u \in Thread : call[t].model \notin call[u].todo
    BY <1>1 DEF Safe, OwnersInv, HandsInv, In
  <2> QED BY <1>1, <1>2, <2>1 DEF Safe, OwnersInv, Others
<1>4. RegisteredIsLive'
  BY <1>1, <1>2 DEF Safe, RegisteredIsLive, OwnersInv, Loaded
<1>5. ASSUME Whole PROVE EveryModelReachable'
  <2> SUFFICES ASSUME NEW x \in live
               PROVE  \/ \E k \in Name : models'[k] = x
                      \/ \E u \in Thread : \/ x \in call'[u].todo
                                           \/ In(u, "register")' /\ call'[u].model = x
    BY <1>1 DEF EveryModelReachable
  <2>1. x # NoModel
    BY PoolAssumption DEF Safe, TypeOK
  <2>2. CASE \E k \in Name : models[k] = x
    <3>1. models[call[t].name] # x
      BY <1>2, <1>5, <2>1
    <3> QED BY <1>2, <2>2, <3>1
  <2>3. CASE \E u \in Thread : x \in call[u].todo \/ (In(u, "register") /\ call[u].model = x)
    <3>1. PICK u \in Thread : x \in call[u].todo \/ (In(u, "register") /\ call[u].model = x)
      BY <2>3
    <3>2. CASE u = t
      BY <1>2, <3>1, <3>2
    <3>3. CASE u # t
      BY <1>2, <3>1, <3>3 DEF Others
    <3> QED BY <3>2, <3>3
  <2> QED BY <1>5, <2>2, <2>3 DEF Whole, EveryModelReachable
<1> QED BY <1>2, <1>3, <1>4, <1>5 DEF Safe, Whole

\* Get reads the table.
LEMMA GetKeeps ==
  ASSUME Safe, NEW t \in Thread, NEW n \in Name, Get(t, n)
  PROVE  Safe' /\ (Whole => Whole')
<1>1. /\ calls' \in [Thread -> 0..MaxOps] /\ In(t, "none") /\ UNCHANGED <<models, live, used>>
      /\ TypeOK
  BY Beginning DEF Get, Safe
<1>2. t \notin Loading /\ call[t].todo = {}
  BY <1>1 DEF Safe, HandsInv, Loading, In
<1>3. CASE Loaded(n)
  <2>1. Becomes(t, "use", n, models[n], {}) /\ models[n] \in Model
    BY <1>3 DEF Get, Loaded
  <2> QED BY <1>1, <1>2, <2>1, IdleKeeps
<1>4. CASE ~Loaded(n)
  <2>1. UNCHANGED call
    BY <1>4 DEF Get
  <2>2. TypeOK'
    BY <1>1, <2>1 DEF TypeOK
  <2> QED BY <1>1, <2>1, <2>2 DEF Safe, Whole, HandsInv, OwnersInv, OneLoadPerName, RegisteredIsLive,
       EveryModelReachable, ReservedWhileLoading, Loading, Loaded, In
<1> QED BY <1>3, <1>4

\* Use and FreeReturns: a call with nothing in hand ends.
LEMMA ReturnKeeps ==
  ASSUME Safe, NEW t \in Thread, Use(t) \/ FreeReturns(t)
  PROVE  Safe' /\ (Whole => Whole')
<1>1. /\ UNCHANGED <<models, live, used, calls>> /\ Return(t)
      /\ In(t, "use") \/ (In(t, "free") /\ call[t].todo = {})
  BY DEF Use, FreeReturns
<1>2. t \notin Loading /\ call[t].todo = {} /\ calls' \in [Thread -> 0..MaxOps]
  BY <1>1 DEF Safe, TypeOK, HandsInv, Loading, In
<1>3. Becomes(t, "none", Absent, NoModel, {})
  BY <1>1 DEF Return
<1> QED BY <1>1, <1>2, <1>3, IdleKeeps

\* Remove and Free.  Without overlap there is no reservation they could take;
\* with it, they still take only models that no call has in hand.
LEMMA TakeOutKeeps ==
  ASSUME Safe, NEW t \in Thread, NEW names \in SUBSET Name, TakeOut(t, names)
  PROVE  Safe' /\ (~Overlap /\ Whole => Whole')
<1>1. /\ ~Overlap => Loading = {}
      /\ In(t, "none") /\ calls' \in [Thread -> 0..MaxOps]
      /\ models' = [k \in Name |-> IF k \in names THEN Absent ELSE models[k]]
      /\ Becomes(t, "free", Absent, NoModel, ModelsOf(names))
      /\ UNCHANGED <<live, used>> /\ TypeOK
  BY Beginning DEF TakeOut, MayTakeOut, TableWithout, Safe
<1>2. ModelsOf(names) = {models[k] : k \in {j \in names : models[j] \in Model}}
  BY DEF ModelsOf, Loaded
<1>3. ModelsOf(names) \subseteq live /\ ModelsOf(names) \subseteq Model
  BY <1>2 DEF Safe, RegisteredIsLive, Loaded
<1>4. /\ call' \in [Thread -> CallState] /\ Others(t)
      /\ call'[t].op = "free" /\ call'[t].todo = ModelsOf(names)
  <2>1. Becomes(t, "free", Absent, NoModel, ModelsOf(names)) /\ ModelsOf(names) \in SUBSET Model /\ TypeOK
    BY <1>1, <1>3
  <2>2. QED
    BY <2>1, Becoming
<1>5. \A k \in Name : k \in names => models'[k] = Absent
  BY <1>1
<1>6. \A k \in Name : k \notin names => models'[k] = models[k]
  BY <1>1
<1>7. \A k \in Name : models'[k] \notin ModelsOf(names)
  BY <1>2, <1>5, <1>6, PoolAssumption DEF Safe, RegisteredIsLive, Loaded
<1>8. \A u \in Thread : call[u].todo \cap ModelsOf(names) = {}
  BY <1>2 DEF Safe, OwnersInv
<1>9. TypeOK'
  <2>1. models' \in [Name -> Model \cup {NoModel, Absent}]
    BY <1>1 DEF TypeOK
  <2> QED BY <1>1, <1>4, <2>1 DEF TypeOK, CallState
<1>10. /\ Loading' = Loading /\ ~In(t, "register") /\ ~In(t, "register")'
       /\ \A u \in Thread : (In(u, "register")' <=> In(u, "register"))
       /\ \A u \in Thread : In(u, "register") => call'[u].model = call[u].model
       /\ \A u \in Loading : call'[u].name = call[u].name
  BY <1>1, <1>4 DEF Loading, Others, In
<1>11. HandsInv'
  BY <1>1, <1>3, <1>4, <1>10 DEF Safe, HandsInv, Others, In
<1>12. OwnersInv'
  <2>1. \A u, v \in Thread : u # v => (call[u].todo \cap call[v].todo = {})'
    BY <1>4, <1>8 DEF Safe, OwnersInv, Others
  <2>2. ASSUME NEW u \in Thread, NEW k \in Name
        PROVE  models'[k] \notin call'[u].todo
    <3>1. CASE u = t
      BY <1>4, <1>7, <3>1
    <3>2. CASE u # t
      <4>1. call'[u].todo = call[u].todo /\ call[u].todo \subseteq Model
        BY <1>1, <1>4, <3>2 DEF Others, TypeOK
      <4> QED BY <1>5, <1>6, <4>1, PoolAssumption DEF Safe, OwnersInv
    <3> QED BY <3>1, <3>2
  <2>3. ASSUME NEW u \in Thread, NEW v \in Thread, In(u, "register")
        PROVE  call[u].model \notin call'[v].todo
    <3>1. call[u].model \notin ModelsOf(names)
      BY <1>2, <2>3 DEF Safe, OwnersInv
    <3> QED BY <1>4, <2>3, <3>1 DEF Safe, OwnersInv, Others
  <2>4. ASSUME NEW u \in Thread, NEW k \in Name, In(u, "register")
        PROVE  models'[k] # call[u].model
    <3>1. call[u].model \in Model
      BY <2>4 DEF Safe, HandsInv, TypeOK
    <3> QED BY <1>5, <1>6, <2>4, <3>1, PoolAssumption DEF Safe, OwnersInv
  <2> QED BY <1>10, <2>1, <2>2, <2>3, <2>4 DEF Safe, OwnersInv
<1>13. Whole => OneLoadPerName'
  BY <1>10 DEF Whole, OneLoadPerName
<1>14. ~Overlap /\ Whole => ReservedWhileLoading'
  BY <1>1, <1>5, <1>6, <1>10, PoolAssumption DEF Whole, ReservedWhileLoading
<1>15. RegisteredIsLive'
  BY <1>1, <1>5, <1>6, PoolAssumption DEF Safe, RegisteredIsLive, Loaded
<1>16. ASSUME ~Overlap, Whole PROVE EveryModelReachable'
  <2> SUFFICES ASSUME NEW x \in live
               PROVE  \/ \E k \in Name : models'[k] = x
                      \/ \E u \in Thread : \/ x \in call'[u].todo
                                           \/ In(u, "register")' /\ call'[u].model = x
    BY <1>1 DEF EveryModelReachable
  <2>1. CASE \E k \in Name : models[k] = x
    <3>1. PICK k \in Name : models[k] = x
      BY <2>1
    <3>2. CASE k \in names
      <4>1. x \in ModelsOf(names)
        BY <1>1, <1>2, <3>1, <3>2 DEF TypeOK
      <4> QED BY <1>4, <4>1
    <3>3. CASE k \notin names
      BY <1>6, <3>1, <3>3
    <3> QED BY <3>2, <3>3
  <2>2. CASE \E u \in Thread : x \in call[u].todo \/ (In(u, "register") /\ call[u].model = x)
    <3>1. PICK u \in Thread : x \in call[u].todo \/ (In(u, "register") /\ call[u].model = x)
      BY <2>2
    <3>2. u # t
      BY <1>1, <3>1 DEF Safe, HandsInv, In
    <3> QED BY <1>4, <1>10, <3>1, <3>2 DEF Others
  <2> QED BY <1>16, <2>1, <2>2 DEF Safe, Whole, EveryModelReachable
<1> QED BY <1>9, <1>11, <1>12, <1>13, <1>14, <1>15, <1>16 DEF Safe, Whole

\* A model is freed that only this call could reach.
LEMMA FreeOneKeeps ==
  ASSUME Safe, NEW t \in Thread, FreeOne(t)
  PROVE  Safe' /\ (Whole => Whole')
<1>1. PICK x \in call[t].todo :
        /\ live' = live \ {x}
        /\ Becomes(t, "free", Absent, NoModel, call[t].todo \ {x})
  BY DEF FreeOne
<1>2. In(t, "free") /\ UNCHANGED <<models, used, calls>> /\ TypeOK
  BY DEF FreeOne, Safe
<1>3. call[t].todo \ {x} \in SUBSET Model
  BY <1>2 DEF TypeOK
<1>4. /\ call' \in [Thread -> CallState] /\ Others(t)
      /\ call'[t].op = "free" /\ call'[t].todo = call[t].todo \ {x}
  BY <1>1, <1>2, <1>3, Becoming
<1>5. TypeOK'
  BY <1>1, <1>2, <1>4 DEF TypeOK, CallState
<1>6. /\ Loading' = Loading
      /\ \A u \in Thread : (In(u, "register")' <=> In(u, "register"))
      /\ \A u \in Thread : u # t => call'[u] = call[u]
      /\ \A u \in Loading : call'[u].name = call[u].name
      /\ ~In(t, "register")
  BY <1>2, <1>4 DEF Others, Loading, In
<1>7. HandsInv'
  BY <1>1, <1>2, <1>4, <1>6 DEF Safe, HandsInv, OwnersInv, In
<1>8. OwnersInv'
  BY <1>2, <1>4, <1>6 DEF Safe, OwnersInv
<1>9. Whole => OneLoadPerName' /\ ReservedWhileLoading'
  BY <1>2, <1>6 DEF Whole, OneLoadPerName, ReservedWhileLoading
<1>10. RegisteredIsLive'
  BY <1>1, <1>2 DEF Safe, RegisteredIsLive, OwnersInv, Loaded
<1>11. Whole => EveryModelReachable'
  BY <1>1, <1>2, <1>4, <1>6 DEF Safe, Whole, EveryModelReachable
<1> QED BY <1>5, <1>7, <1>8, <1>9, <1>10, <1>11 DEF Safe, Whole

\* What every step keeps, and what it keeps as long as Remove and Free wait for Loads.
LEMMA StepKeeps ==
  Safe /\ [Next]_vars => Safe' /\ (~Overlap /\ Whole => Whole')
<1> SUFFICES ASSUME Safe, [Next]_vars PROVE Safe' /\ (~Overlap /\ Whole => Whole')
  OBVIOUS
<1>1. CASE UNCHANGED vars
  <2>1. TypeOK'
    BY <1>1 DEF vars, Safe, TypeOK
  <2>2. HandsInv' /\ OwnersInv' /\ RegisteredIsLive'
    BY <1>1 DEF vars, Safe, HandsInv, OwnersInv, RegisteredIsLive, Loading, Loaded, In
  <2>3. Whole => Whole'
    BY <1>1 DEF vars, Whole, OneLoadPerName, EveryModelReachable, ReservedWhileLoading, Loading, In
  <2> QED BY <2>1, <2>2, <2>3 DEF Safe
<1>2. ASSUME NEW t \in Thread, NEW n \in Name, Load(t, n) \/ Get(t, n) \/ Remove(t, n)
      PROVE  Safe' /\ (~Overlap /\ Whole => Whole')
  BY <1>2, LoadKeeps, GetKeeps, TakeOutKeeps DEF Remove
<1>3. ASSUME NEW t \in Thread, Free(t)
      PROVE  Safe' /\ (~Overlap /\ Whole => Whole')
  BY <1>3, TakeOutKeeps DEF Free
<1>4. ASSUME NEW t \in Thread, Step(t)
      PROVE  Safe' /\ (~Overlap /\ Whole => Whole')
  BY <1>4, NewKeeps, NewFailsKeeps, UnreserveKeeps, RegisterKeeps, ReturnKeeps, FreeOneKeeps DEF Step
<1> QED BY <1>1, <1>2, <1>3, <1>4 DEF Next

\* Safe holds in every state.
LEMMA Safety == Spec => []Safe
<1>1. Init => Safe
  BY InitHolds
<1>2. Safe /\ [Next]_vars => Safe'
  BY StepKeeps
<1> QED BY <1>1, <1>2, PTL DEF Spec

\* Whole holds in every state if nothing is taken out while a Load runs.
LEMMA Invariance == ASSUME ~Overlap PROVE Spec => []Whole
<1>1. Init => Safe /\ Whole
  BY InitHolds
<1>2. (Safe /\ Whole) /\ [Next]_vars => (Safe /\ Whole)'
  BY StepKeeps
<1> QED BY <1>1, <1>2, PTL DEF Spec

---------------------------------------------------------------------------
\* Every state of the pool is well typed, and no model is counted live that was
\* not opened, whatever calls overlap.
THEOREM Types == Spec => []TypeOK
<1>1. Safe => TypeOK
  BY DEF Safe
<1> QED BY <1>1, Safety, PTL

\* Get, Predict and Embeddings never find a freed model in the table, nor one
\* model under two names: also when Remove or Free take a reservation away, the
\* name is loaded again and the first Load registers over the second.
THEOREM TableIsLive == Spec => []RegisteredIsLive
<1>1. Safe => RegisteredIsLive
  BY DEF Safe
<1> QED BY <1>1, Safety, PTL

\* If Remove and Free are not called during a Load, no two Loads open a model
\* for one name, whatever fails (pool.go:32).
THEOREM NoDoubleLoad == ASSUME ~Overlap PROVE Spec => []OneLoadPerName
<1>1. Whole => OneLoadPerName
  BY DEF Whole
<1> QED BY <1>1, Invariance, PTL

\* Under the same condition a name is reserved exactly while a Load of it runs
\* (pool.go:31-44).
THEOREM Reserved == ASSUME ~Overlap PROVE Spec => []ReservedWhileLoading
<1>1. Whole => ReservedWhileLoading
  BY DEF Whole
<1> QED BY <1>1, Invariance, PTL

\* Under the same condition no open model is lost: Pool.Free can release all of
\* them (pool.go:103).
THEOREM NothingLost == ASSUME ~Overlap PROVE Spec => []EveryModelReachable
<1>1. Whole => EveryModelReachable
  BY DEF Whole
<1> QED BY <1>1, Invariance, PTL
=============================================================================
