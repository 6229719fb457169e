---------------------------- MODULE LLamaProofs ----------------------------
(***************************************************************************)
(* l.mu does its work, for any number of goroutines and handles: methods   *)
(* that take it never meet in the C side, and never find a freed context   *)
(* there.  Callbacks that take no lock leave somebody to run, and whoever  *)
(* runs comes nearer to the end of the method.  And the global callback    *)
(* map does its work for goroutines that share no handle: every token goes *)
(* to the callback its prediction was given, nothing is left in the map,   *)
(* and no method works on a freed context.                                 *)
(***************************************************************************)
EXTENDS LLama, TLAPS

\* Where each method holds l.mu, and where it may be inside the C side.
Locked == [predict_cb |-> 6..10, predict |-> 2..6, locked |-> 2..4, info |-> {},
           set_callback |-> {}, free |-> 2..6, callback |-> {}]
Inside == [predict_cb |-> 7..9, predict |-> 3..5, locked |-> 3..3, info |-> 3..3,
           set_callback |-> {}, free |-> {}, callback |-> {}]
Methods == {"predict_cb", "predict", "locked", "info", "set_callback", "free", "callback"}
Predictions == {"predict_cb", "predict"}

\* What the step at pc says of pc and of the step after it.
StepFacts(op, pc) ==
    LET step == Program[op][pc] IN
    /\ step \notin {"return", "answer"} => pc + 1 \in 1..Len(Program[op])
    /\ step \notin {"lock", "unlock", "return", "answer"} => (pc + 1 \in Locked[op] <=> pc \in Locked[op])
    /\ step = "lock" => pc \notin Locked[op] /\ pc \notin Inside[op] /\ pc + 1 \in Locked[op]
    /\ step = "unlock" => pc \in Locked[op] /\ pc \notin Inside[op] /\ pc + 1 \notin Locked[op]
    /\ step = "begin" => /\ pc \notin Inside[op] /\ pc + 1 \in Inside[op]
                         /\ op # "info" => op \in Predictions \cup {"locked"} /\ pc \in Locked[op]
    /\ step = "return" => pc \notin Locked[op] /\ pc \notin Inside[op] /\ op # "callback"
    /\ step = "free" => pc \in Locked[op] /\ pc \notin Inside[op]
    /\ step = "check" => op \in {"free", "info"} /\ pc \notin Inside[op]
    /\ step \in {"token", "call"} => op \in Predictions /\ pc \in Locked[op] /\ pc + 1 \in Inside[op]
    /\ step \in {"body", "answer"} <=> op = "callback"
    /\ pc \in Inside[op] => (op # "info" => pc \in Locked[op]) /\ op # "callback"
    /\ pc \in Inside[op] <=> step \in {"token", "call", "end"}
    /\ pc + 1 \in Inside[op] <=> step \in {"begin", "token", "call"}

\* The programs have these facts.
LEMMA Programs ==
  ASSUME NEW op \in Methods, NEW pc \in 1..Len(Program[op])
  PROVE  StepFacts(op, pc)
<1>1. CASE op = "predict_cb"
  <2>1. Program[op] = <<"read_set", "announce", "store", "read_clear", "lock", "begin",
                        "token", "call", "end", "unlock", "announce", "erase", "return">>
    BY <1>1 DEF Program
  <2>2. pc \in 1..13
    BY <2>1
  <2> QED BY <1>1, <2>1, <2>2 DEF StepFacts, Locked, Inside, Predictions
<1>2. CASE op = "predict"
  <2>1. Program[op] = <<"lock", "begin", "token", "call", "end", "unlock", "return">>
    BY <1>2 DEF Program
  <2>2. pc \in 1..7
    BY <2>1
  <2> QED BY <1>2, <2>1, <2>2 DEF StepFacts, Locked, Inside, Predictions
<1>3. CASE op = "locked"
  <2>1. Program[op] = <<"lock", "begin", "end", "unlock", "return">>
    BY <1>3 DEF Program
  <2>2. pc \in 1..5
    BY <2>1
  <2> QED BY <1>3, <2>1, <2>2 DEF StepFacts, Locked, Inside, Predictions
<1>4. CASE op = "info"
  <2>1. Program[op] = <<"check", "begin", "end", "return">>
    BY <1>4 DEF Program
  <2>2. pc \in 1..4
    BY <2>1
  <2> QED BY <1>4, <2>1, <2>2 DEF StepFacts, Locked, Inside, Predictions
<1>5. CASE op = "set_callback"
  <2>1. Program[op] = <<"read_set", "announce", "store", "return">>
    BY <1>5 DEF Program
  <2>2. pc \in 1..4
    BY <2>1
  <2> QED BY <1>5, <2>1, <2>2 DEF StepFacts, Locked, Inside, Predictions
<1>6. CASE op = "free"
  <2>1. Program[op] = <<"lock", "check", "announce", "erase", "free", "unlock", "return">>
    BY <1>6 DEF Program
  <2>2. pc \in 1..7
    BY <2>1
  <2> QED BY <1>6, <2>1, <2>2 DEF StepFacts, Locked, Inside, Predictions
<1>7. CASE op = "callback"
  <2>1. Program[op] = <<"body", "answer">>
    BY <1>7 DEF Program
  <2>2. pc \in 1..2
    BY <2>1
  <2> QED BY <1>7, <2>1, <2>2 DEF StepFacts, Locked, Inside, Predictions
<1> QED BY <1>1, <1>2, <1>3, <1>4, <1>5, <1>6, <1>7 DEF Methods

\* Programs are sequences.
LEMMA Lengths ==
  ASSUME NEW op \in Methods
  PROVE  Len(Program[op]) \in Nat /\ Len(Program[op]) >= 2
<1>1. CASE op = "predict_cb"
  <2>1. Len(Program[op]) = 13
    BY <1>1 DEF Program
  <2> QED BY <2>1
<1>2. CASE op = "predict"
  <2>1. Len(Program[op]) = 7
    BY <1>2 DEF Program
  <2> QED BY <2>1
<1>3. CASE op = "locked"
  <2>1. Len(Program[op]) = 5
    BY <1>3 DEF Program
  <2> QED BY <2>1
<1>4. CASE op = "info"
  <2>1. Len(Program[op]) = 4
    BY <1>4 DEF Program
  <2> QED BY <2>1
<1>5. CASE op = "set_callback"
  <2>1. Len(Program[op]) = 4
    BY <1>5 DEF Program
  <2> QED BY <2>1
<1>6. CASE op = "free"
  <2>1. Len(Program[op]) = 7
    BY <1>6 DEF Program
  <2> QED BY <2>1
<1>7. CASE op = "callback"
  <2>1. Len(Program[op]) = 2
    BY <1>7 DEF Program
  <2> QED BY <2>1
<1> QED BY <1>1, <1>2, <1>3, <1>4, <1>5, <1>6, <1>7 DEF Methods

\* Where the labels of the programs are.
LEMMA LabelValues ==
  /\ Label("predict_cb", "token") = 7 /\ Label("predict_cb", "end") = 9 /\ Label("predict_cb", "unlock") = 10
  /\ Label("predict", "token") = 3 /\ Label("predict", "end") = 5 /\ Label("predict", "unlock") = 6
  /\ Label("locked", "unlock") = 4 /\ Label("free", "unlock") = 6 /\ Label("info", "return") = 4
  /\ Len(Program["predict_cb"]) = 13 /\ Len(Program["predict"]) = 7 /\ Len(Program["locked"]) = 5
  /\ Len(Program["free"]) = 7 /\ Len(Program["info"]) = 4
<1>1. Label("predict_cb", "token") = 7 /\ Len(Program["predict_cb"]) = 13
  <2>1. Program["predict_cb"] = <<"read_set", "announce", "store", "read_clear", "lock", "begin",
                                  "token", "call", "end", "unlock", "announce", "erase", "return">>
    BY DEF Program
  <2>2. \A k \in 1..13 : Program["predict_cb"][k] = "token" <=> k = 7
    BY <2>1
  <2> QED BY <2>1, <2>2 DEF Label
<1>2. Label("predict_cb", "end") = 9 /\ Len(Program["predict_cb"]) = 13
  <2>1. Program["predict_cb"] = <<"read_set", "announce", "store", "read_clear", "lock", "begin",
                                  "token", "call", "end", "unlock", "announce", "erase", "return">>
    BY DEF Program
  <2>2. \A k \in 1..13 : Program["predict_cb"][k] = "end" <=> k = 9
    BY <2>1
  <2> QED BY <2>1, <2>2 DEF Label
<1>3. Label("predict_cb", "unlock") = 10 /\ Len(Program["predict_cb"]) = 13
  <2>1. Program["predict_cb"] = <<"read_set", "announce", "store", "read_clear", "lock", "begin",
                                  "token", "call", "end", "unlock", "announce", "erase", "return">>
    BY DEF Program
  <2>2. \A k \in 1..13 : Program["predict_cb"][k] = "unlock" <=> k = 10
    BY <2>1
  <2> QED BY <2>1, <2>2 DEF Label
<1>4. Label("predict", "token") = 3 /\ Len(Program["predict"]) = 7
  <2>1. Program["predict"] = <<"lock", "begin", "token", "call", "end", "unlock", "return">>
    BY DEF Program
  <2>2. \A k \in 1..7 : Program["predict"][k] = "token" <=> k = 3
    BY <2>1
  <2> QED BY <2>1, <2>2 DEF Label
<1>5. Label("predict", "end") = 5 /\ Len(Program["predict"]) = 7
  <2>1. Program["predict"] = <<"lock", "begin", "token", "call", "end", "unlock", "return">>
    BY DEF Program
  <2>2. \A k \in 1..7 : Program["predict"][k] = "end" <=> k = 5
    BY <2>1
  <2> QED BY <2>1, <2>2 DEF Label
<1>6. Label("predict", "unlock") = 6 /\ Len(Program["predict"]) = 7
  <2>1. Program["predict"] = <<"lock", "begin", "token", "call", "end", "unlock", "return">>
    BY DEF Program
  <2>2. \A k \in 1..7 : Program["predict"][k] = "unlock" <=> k = 6
    BY <2>1
  <2> QED BY <2>1, <2>2 DEF Label
<1>7. Label("locked", "unlock") = 4 /\ Len(Program["locked"]) = 5
  <2>1. Program["locked"] = <<"lock", "begin", "end", "unlock", "return">>
    BY DEF Program
  <2>2. \A k \in 1..5 : Program["locked"][k] = "unlock" <=> k = 4
    BY <2>1
  <2> QED BY <2>1, <2>2 DEF Label
<1>8. Label("free", "unlock") = 6 /\ Len(Program["free"]) = 7
  <2>1. Program["free"] = <<"lock", "check", "announce", "erase", "free", "unlock", "return">>
    BY DEF Program
  <2>2. \A k \in 1..7 : Program["free"][k] = "unlock" <=> k = 6
    BY <2>1
  <2> QED BY <2>1, <2>2 DEF Label
<1>9. Label("info", "return") = 4 /\ Len(Program["info"]) = 4
  <2>1. Program["info"] = <<"check", "begin", "end", "return">>
    BY DEF Program
  <2>2. \A k \in 1..4 : Program["info"][k] = "return" <=> k = 4
    BY <2>1
  <2> QED BY <2>1, <2>2 DEF Label
<1> QED BY <1>1, <1>2, <1>3, <1>4, <1>5, <1>6, <1>7, <1>8, <1>9

\* Where a jump leads.
LEMMA Labels ==
  /\ \A op \in Predictions :
        /\ Label(op, "token") \in 1..Len(Program[op]) /\ Label(op, "token") \in Locked[op]
        /\ Label(op, "token") \in Inside[op]
        /\ Label(op, "end") \in 1..Len(Program[op]) /\ Label(op, "end") \in Locked[op]
        /\ Label(op, "end") \in Inside[op]
  /\ \A op \in Predictions \cup {"locked", "free"} :
        /\ Label(op, "unlock") \in 1..Len(Program[op]) /\ Label(op, "unlock") \in Locked[op]
        /\ Label(op, "unlock") \notin Inside[op]
  /\ Label("info", "return") \in 1..Len(Program["info"]) /\ Label("info", "return") \notin Inside["info"]
<1>1. ASSUME NEW op \in Predictions
       PROVE  /\ Label(op, "token") \in 1..Len(Program[op]) /\ Label(op, "token") \in Locked[op]
              /\ Label(op, "token") \in Inside[op]
              /\ Label(op, "end") \in 1..Len(Program[op]) /\ Label(op, "end") \in Locked[op]
              /\ Label(op, "end") \in Inside[op]
              /\ Label(op, "unlock") \in 1..Len(Program[op]) /\ Label(op, "unlock") \in Locked[op]
              /\ Label(op, "unlock") \notin Inside[op]
  <2>1. CASE op = "predict_cb"
    <3>1. /\ Label(op, "token") = 7 /\ Label(op, "end") = 9 /\ Label(op, "unlock") = 10
          /\ Len(Program[op]) = 13
      BY LabelValues, <2>1
    <3>2. Locked[op] = 6..10 /\ Inside[op] = 7..9
      BY <2>1 DEF Locked, Inside
    <3> QED BY <3>1, <3>2
  <2>2. CASE op = "predict"
    <3>1. /\ Label(op, "token") = 3 /\ Label(op, "end") = 5 /\ Label(op, "unlock") = 6
          /\ Len(Program[op]) = 7
      BY LabelValues, <2>2
    <3>2. Locked[op] = 2..6 /\ Inside[op] = 3..5
      BY <2>2 DEF Locked, Inside
    <3> QED BY <3>1, <3>2
  <2> QED BY <2>1, <2>2 DEF Predictions
<1>2. /\ Label("locked", "unlock") \in 1..Len(Program["locked"]) /\ Label("locked", "unlock") \in Locked["locked"]
       /\ Label("free", "unlock") \in 1..Len(Program["free"]) /\ Label("free", "unlock") \in Locked["free"]
       /\ Label("locked", "unlock") \notin Inside["locked"] /\ Label("free", "unlock") \notin Inside["free"]
  BY LabelValues DEF Locked, Inside
<1>3. Label("info", "return") \in 1..Len(Program["info"]) /\ Label("info", "return") \notin Inside["info"]
  BY LabelValues DEF Inside
<1> QED BY <1>1, <1>2, <1>3

---------------------------------------------------------------------------
Frames == [op : Methods, pc : Nat, h : Handle, key : Addr \cup {Nil, "unborn"}, c_state : Addr \cup {Nil},
           left : Int, heard : {"right", "wrong"}]

\* A frame is of a method somebody calls, on a handle that New has returned; it has
\* a C-side pointer when it is inside the C side.
GoodFrame(f) ==
    /\ f \in Frames /\ f.pc \in 1..Len(Program[f.op])
    /\ state[f.h] # "unborn"
    /\ f.op \in Ops \cup NestedOps \cup {"callback"}
    /\ f.c_state # Nil <=> f.pc \in Inside[f.op]

\* A method at odd depths, called by a callback at even ones; a callback is
\* called by a prediction that will go on with the next token.
GoodStack(t) ==
    /\ stack[t] \in Seq(Frames) /\ Len(stack[t]) \in 0..4
    /\ \A k \in 1..Len(stack[t]) :
         /\ GoodFrame(stack[t][k])
         /\ stack[t][k].op = "callback" <=> k \in {2, 4}
    /\ \A k \in {2, 4} : k <= Len(stack[t]) =>
         stack[t][k-1].op \in Predictions /\ stack[t][k-1].pc = Label(stack[t][k-1].op, "token")

Holds(f) == f.pc \in Locked[f.op]

Types ==
    /\ uses \in Sharings
    /\ state \in [Handle -> Addr \cup {Nil, "unborn"}]
    /\ heap \in [Addr -> Handle \cup {Nil}]
    /\ mu \in [Handle -> Thread \cup {Nil}]
    /\ m.readers \in [Thread -> Nat] /\ m.pending \in Thread \cup {Nil}
    /\ DOMAIN stack = Thread /\ DOMAIN callbacks = Addr
    /\ \A t \in Thread : GoodStack(t)

\* A reader for every callback on the stack.
CallbacksOn(depth) == IF depth >= 4 THEN 2 ELSE IF depth >= 2 THEN 1 ELSE 0
Readers == \A t \in Thread : m.readers[t] = CallbacksOn(Len(stack[t]))

\* Only handles that have been born have callbacks.
Entries == \A a \in Addr : callbacks[a] # Nil => callbacks[a].h \in Handle /\ state[callbacks[a].h] # "unborn"

\* l.mu is held by at most one call.
Locks ==
    /\ \A t \in Thread : \A k \in 1..Len(stack[t]) : Holds(stack[t][k]) => mu[stack[t][k].h] = t
    /\ \A t \in Thread : \A j, k \in 1..Len(stack[t]) :
         Holds(stack[t][j]) /\ Holds(stack[t][k]) /\ stack[t][j].h = stack[t][k].h => j = k

\* A locked method works on what l.state still points to.
Pointers ==
    /\ \A h \in Handle : state[h] \in Addr => heap[state[h]] = h
    /\ \A t \in Thread : \A k \in 1..Len(stack[t]) :
         stack[t][k].c_state # Nil /\ stack[t][k].op # "info" => stack[t][k].c_state = state[stack[t][k].h]

Inv == Types /\ Readers /\ Entries /\ Locks /\ Pointers

\* Nothing runs and no callback is registered.
LEMMA InitHolds == Init => Inv
<1> SUFFICES ASSUME Init PROVE Inv
  OBVIOUS
<1>1. \A t \in Thread : stack[t] = <<>> /\ m.readers[t] = 0
  BY DEF Init
<1>2. PICK born \in [Handle -> Addr \cup {"unborn"}] :
        /\ \A g, h \in Handle : born[g] \in Addr /\ born[g] = born[h] => g = h
        /\ state = born
  BY DEF Init
<1>3. heap \in [Addr -> Handle \cup {Nil}] /\ \A h \in Handle : state[h] \in Addr => heap[state[h]] = h
  <2>1. heap = [a \in Addr |-> IF \E h \in Handle : state[h] = a
                              THEN CHOOSE h \in Handle : state[h] = a ELSE Nil]
    BY DEF Init
  <2> QED BY <1>2, <2>1
<1>4. Types
  <2>1. \A t \in Thread : GoodStack(t)
    <3>1. <<>> \in Seq(Frames) /\ Len(<<>>) = 0
      OBVIOUS
    <3>2. \A t \in Thread : stack[t] \in Seq(Frames) /\ Len(stack[t]) = 0
      BY <1>1, <3>1
    <3> QED BY <3>2 DEF GoodStack
  <2>2. /\ m.readers \in [Thread -> Nat] /\ m.pending \in Thread \cup {Nil}
        /\ uses \in Sharings /\ mu \in [Handle -> Thread \cup {Nil}] /\ DOMAIN stack = Thread
        /\ DOMAIN callbacks = Addr
    BY DEF Init
  <2>3. state \in [Handle -> Addr \cup {Nil, "unborn"}]
    BY <1>2
  <2> QED BY <1>3, <2>1, <2>2, <2>3 DEF Types
<1>5. Readers /\ Locks /\ Pointers
  BY <1>1, <1>3 DEF Readers, CallbacksOn, Locks, Pointers
<1>6. Entries
  BY DEF Init, Entries
<1> QED BY <1>4, <1>5, <1>6 DEF Inv

---------------------------------------------------------------------------
\* Steps that replace the frame on top.

\* What SetTop does to the stacks.
LEMMA TopFacts ==
  ASSUME Types, NEW t \in Thread, Busy(t), NEW f \in Frames, SetTop(t, f)
  PROVE  /\ Depth(t) \in 1..4 /\ Depth(t) = Len(stack[t])
         /\ GoodFrame(Top(t)) /\ Top(t) \in Frames
         /\ stack'[t] \in Seq(Frames) /\ Len(stack'[t]) = Len(stack[t])
         /\ stack'[t][Depth(t)] = f
         /\ \A k \in 1..Len(stack[t]) : k # Depth(t) => stack'[t][k] = stack[t][k]
         /\ \A u \in Thread : u # t => stack'[u] = stack[u]
         /\ DOMAIN stack' = Thread
<1>1. /\ stack[t] \in Seq(Frames) /\ Len(stack[t]) \in 1..4
      /\ Depth(t) = Len(stack[t]) /\ Depth(t) \in 1..Len(stack[t]) /\ Depth(t) \in 1..4
  BY DEF Types, GoodStack, Busy, Depth
<1>2. stack' = [stack EXCEPT ![t] = [stack[t] EXCEPT ![Depth(t)] = f]]
  BY DEF SetTop
<1>3. /\ stack'[t] = [stack[t] EXCEPT ![Depth(t)] = f] /\ \A u \in Thread : u # t => stack'[u] = stack[u]
      /\ DOMAIN stack' = Thread
  BY <1>2 DEF Types
<1>4. GoodFrame(Top(t)) /\ Top(t) \in Frames
  <2>1. GoodFrame(stack[t][Depth(t)])
    BY <1>1 DEF Types, GoodStack
  <2> QED BY <2>1 DEF GoodFrame, Top
<1>5. /\ stack'[t] \in Seq(Frames) /\ Len(stack'[t]) = Len(stack[t])
      /\ stack'[t][Depth(t)] = f
      /\ \A k \in 1..Len(stack[t]) : k # Depth(t) => stack'[t][k] = stack[t][k]
  BY <1>1, <1>3
<1> QED BY <1>1, <1>3, <1>4, <1>5

\* A frame that has its place keeps the stacks in shape.
LEMMA TopStacks ==
  ASSUME Types, NEW t \in Thread, Busy(t), NEW f \in Frames, SetTop(t, f),
         f.op = Top(t).op, GoodFrame(f)', \A g \in Frames : GoodFrame(g) => GoodFrame(g)'
  PROVE  \A u \in Thread : GoodStack(u)'
<1>1. ASSUME NEW u \in Thread, u # t PROVE GoodStack(u)'
  <2>1. stack'[u] = stack[u] /\ GoodStack(u)
    BY <1>1, TopFacts DEF Types
  <2> QED BY <2>1 DEF GoodStack
<1>2. GoodStack(t)'
  <2>1. GoodStack(t)
    BY DEF Types
  <2>2. \A k \in 1..Len(stack[t]) : stack'[t][k].op = stack[t][k].op
    BY TopFacts DEF Top, Depth
  <2>3. (\A k \in 1..Len(stack[t]) : GoodFrame(stack[t][k]))'
    <3> SUFFICES ASSUME NEW k \in 1..Len(stack'[t]) PROVE GoodFrame(stack[t][k])'
      OBVIOUS
    <3>1. CASE k = Depth(t)
      <4>1. stack'[t][k] = f
        BY <3>1, TopFacts
      <4> QED BY <4>1 DEF GoodFrame
    <3>2. CASE k # Depth(t)
      <4>1. k \in 1..Len(stack[t]) /\ stack'[t][k] = stack[t][k]
        BY <3>2, TopFacts
      <4>2. stack[t][k] \in Frames /\ GoodFrame(stack[t][k])
        BY <2>1, <4>1 DEF GoodStack, GoodFrame
      <4> QED BY <4>1, <4>2 DEF GoodFrame
    <3> QED BY <3>1, <3>2
  <2>4. \A k \in {2, 4} : k <= Len(stack[t]) =>
           stack'[t][k-1].op \in Predictions /\ stack'[t][k-1].pc = Label(stack'[t][k-1].op, "token")
    <3>1. /\ Depth(t) = Len(stack[t])
          /\ \A k \in 1..Len(stack[t]) : k # Depth(t) => stack'[t][k] = stack[t][k]
      BY TopFacts
    <3>2. ASSUME NEW k \in {2, 4}, k <= Len(stack[t])
          PROVE  /\ stack'[t][k-1] = stack[t][k-1]
                 /\ stack[t][k-1].op \in Predictions /\ stack[t][k-1].pc = Label(stack[t][k-1].op, "token")
      <4>1. Len(stack[t]) \in Nat /\ k - 1 \in 1..Len(stack[t]) /\ k - 1 # Len(stack[t])
        BY <2>1, <3>2 DEF GoodStack
      <4>2. stack[t][k-1].op \in Predictions /\ stack[t][k-1].pc = Label(stack[t][k-1].op, "token")
        BY <2>1, <3>2 DEF GoodStack
      <4> QED BY <3>1, <4>1, <4>2
    <3> QED BY <3>2
  <2> QED BY <2>1, <2>2, <2>3, <2>4, TopFacts DEF GoodStack
<1> QED BY <1>1, <1>2

\* What a step may do to the calls of the goroutine t: a call that holds l.mu stays
\* where it is until the lock is given up; no call gets a C-side pointer but the one
\* it had, or what l.state is now; and what a callback calls is one of NestedOps.
Shape(t) ==
    /\ \A u \in Thread : u # t => stack'[u] = stack[u]
    /\ \A k \in 1..Len(stack[t]) : Holds(stack[t][k]) =>
         \/ k \in 1..Len(stack'[t]) /\ Holds(stack'[t][k]) /\ stack'[t][k].h = stack[t][k].h
         \/ mu'[stack[t][k].h] # t
    /\ \A k \in 1..Len(stack'[t]) : stack'[t][k].c_state # Nil =>
         \/ stack'[t][k].c_state = state[stack'[t][k].h]
         \/ /\ k \in 1..Len(stack[t]) /\ stack'[t][k].c_state = stack[t][k].c_state
            /\ stack'[t][k].h = stack[t][k].h
    /\ Len(stack'[t]) >= 3 =>
         \/ stack'[t][3].op \in NestedOps
         \/ Len(stack[t]) >= 3 /\ stack'[t][3].op = stack[t][3].op

\* A step that replaces the frame on top has this shape.
LEMMA TopShape ==
  ASSUME Types, NEW t \in Thread, Busy(t), NEW f \in Frames, SetTop(t, f),
         f.op = Top(t).op, f.h = Top(t).h, Holds(Top(t)) => Holds(f) \/ mu'[Top(t).h] # t,
         f.c_state # Nil => f.c_state = state[f.h] \/ f.c_state = Top(t).c_state
  PROVE  Shape(t)
<1>1. /\ Depth(t) = Len(stack[t]) /\ Len(stack'[t]) = Len(stack[t]) /\ Top(t) = stack[t][Depth(t)]
      /\ Len(stack[t]) \in 1..4 /\ stack'[t][Depth(t)] = f
      /\ \A k \in 1..Len(stack[t]) : k # Depth(t) => stack'[t][k] = stack[t][k]
      /\ \A u \in Thread : u # t => stack'[u] = stack[u]
  BY TopFacts DEF Top
<1>2. ASSUME NEW k \in 1..Len(stack[t]), Holds(stack[t][k])
      PROVE  \/ k \in 1..Len(stack'[t]) /\ Holds(stack'[t][k]) /\ stack'[t][k].h = stack[t][k].h
             \/ mu'[stack[t][k].h] # t
  <2>1. CASE k = Depth(t)
    BY <1>1, <1>2, <2>1, Zenon
  <2>2. CASE k # Depth(t)
    BY <1>1, <1>2, <2>2, Zenon
  <2> QED BY <2>1, <2>2
<1>3. ASSUME NEW k \in 1..Len(stack'[t]), stack'[t][k].c_state # Nil
      PROVE  \/ stack'[t][k].c_state = state[stack'[t][k].h]
             \/ /\ k \in 1..Len(stack[t]) /\ stack'[t][k].c_state = stack[t][k].c_state
                /\ stack'[t][k].h = stack[t][k].h
  <2>1. CASE k = Depth(t)
    BY <1>1, <1>3, <2>1, Zenon
  <2>2. CASE k # Depth(t)
    BY <1>1, <1>3, <2>2, Zenon
  <2> QED BY <2>1, <2>2
<1>4. ASSUME Len(stack'[t]) >= 3 PROVE stack'[t][3].op = stack[t][3].op /\ Len(stack[t]) >= 3
  <2>1. 3 \in 1..Len(stack[t]) /\ Len(stack[t]) >= 3
    BY <1>1, <1>4
  <2>2. CASE 3 = Depth(t)
    BY <1>1, <2>1, <2>2, Zenon
  <2>3. CASE 3 # Depth(t)
    BY <1>1, <2>1, <2>3, Zenon
  <2> QED BY <2>1, <2>2, <2>3
<1> QED BY <1>1, <1>2, <1>3, <1>4, Zenon DEF Shape

\* A step that moves on without touching locks or memory.
LEMMA Moves ==
  ASSUME Inv, NEW t \in Thread, Busy(t), NEW f \in Frames, SetTop(t, f),
         UNCHANGED <<uses, state, heap, mu>>, m'.readers = m.readers, m'.pending \in Thread \cup {Nil},
         Entries', DOMAIN callbacks' = Addr,
         f.op = Top(t).op, f.h = Top(t).h, f.pc \in 1..Len(Program[f.op]),
         f.c_state # Nil <=> f.pc \in Inside[f.op], Holds(f) <=> Holds(Top(t)),
         f.c_state # Nil /\ f.op # "info" => f.c_state = state[f.h],
         f.c_state # Nil => f.c_state = state[f.h] \/ f.c_state = Top(t).c_state
  PROVE  Inv' /\ Shape(t)
<1>1. Types
  BY DEF Inv
<1>2. Types'
  <2>1. GoodFrame(f)' /\ \A g \in Frames : GoodFrame(g) => GoodFrame(g)'
    BY <1>1, TopFacts DEF GoodFrame
  <2>2. \A u \in Thread : GoodStack(u)'
    BY <1>1, <2>1, TopStacks
  <2> QED BY <1>1, <2>2, TopFacts DEF Types
<1>3. Readers'
  <2>1. \A u \in Thread : Len(stack'[u]) = Len(stack[u])
    BY <1>1, TopFacts
  <2> QED BY <2>1 DEF Inv, Readers
<1>4. \A u \in Thread : \A k \in 1..Len(stack[u]) :
        /\ stack'[u][k].h = stack[u][k].h
        /\ Holds(stack'[u][k]) <=> Holds(stack[u][k])
  BY <1>1, TopFacts DEF Top, Depth
<1>5. Locks'
  <2>1. \A u \in Thread : Len(stack'[u]) = Len(stack[u])
    BY <1>1, TopFacts
  <2>2. Locks /\ mu' = mu
    BY DEF Inv
  <2>3. ASSUME NEW u \in Thread, NEW k \in 1..Len(stack'[u]), Holds(stack'[u][k])
        PROVE  mu'[stack'[u][k].h] = u
    <3>1. k \in 1..Len(stack[u]) /\ Holds(stack[u][k]) /\ stack'[u][k].h = stack[u][k].h
      BY <1>4, <2>1, <2>3
    <3> QED BY <2>2, <3>1 DEF Locks
  <2>4. ASSUME NEW u \in Thread, NEW j \in 1..Len(stack'[u]), NEW k \in 1..Len(stack'[u]),
               Holds(stack'[u][j]), Holds(stack'[u][k]), stack'[u][j].h = stack'[u][k].h
        PROVE  j = k
    <3>1. /\ j \in 1..Len(stack[u]) /\ k \in 1..Len(stack[u])
          /\ Holds(stack[u][j]) /\ Holds(stack[u][k]) /\ stack[u][j].h = stack[u][k].h
      BY <1>4, <2>1, <2>4
    <3> QED BY <2>2, <3>1 DEF Locks
  <2> QED BY <2>3, <2>4, ZenonT(60) DEF Locks, Holds
<1>6. Pointers'
  <2>1. \A u \in Thread : \A k \in 1..Len(stack'[u]) :
           stack'[u][k].c_state # Nil /\ stack'[u][k].op # "info" => stack'[u][k].c_state = state[stack'[u][k].h]
    <3>1. ASSUME NEW u \in Thread, NEW k \in 1..Len(stack'[u]), ~(u = t /\ k = Depth(t))
          PROVE  stack'[u][k] = stack[u][k] /\ k \in 1..Len(stack[u])
      BY <1>1, <3>1, TopFacts
    <3>2. stack'[t][Depth(t)] = f
      BY <1>1, TopFacts
    <3>3. \A u \in Thread : \A k \in 1..Len(stack[u]) :
             stack[u][k].c_state # Nil /\ stack[u][k].op # "info" => stack[u][k].c_state = state[stack[u][k].h]
      BY DEF Inv, Pointers
    <3> QED BY <3>1, <3>2, <3>3, SMTT(40)
  <2> QED BY <2>1 DEF Inv, Pointers
<1>7. Shape(t)
  BY <1>1, TopShape
<1> QED BY <1>2, <1>3, <1>5, <1>6, <1>7 DEF Inv

---------------------------------------------------------------------------
\* Which frame is on top, and what its next step says about it.
LEMMA TopStep ==
  ASSUME Inv, NEW t \in Thread, Busy(t)
  PROVE  /\ Types /\ Top(t) \in Frames /\ GoodFrame(Top(t))
         /\ StepFacts(Top(t).op, Top(t).pc)
         /\ Top(t).c_state # Nil /\ Top(t).op # "info" => Top(t).c_state = state[Top(t).h]
         /\ Holds(Top(t)) => mu[Top(t).h] = t
<1>1. Types /\ Depth(t) \in 1..Len(stack[t]) /\ Depth(t) = Len(stack[t])
  BY DEF Inv, Types, GoodStack, Busy, Depth
<1>2. GoodFrame(stack[t][Depth(t)])
  BY <1>1 DEF Types, GoodStack
<1>3. GoodFrame(Top(t)) /\ Top(t) \in Frames
  BY <1>2 DEF Top, GoodFrame
<1>4. StepFacts(Top(t).op, Top(t).pc)
  BY <1>3, Programs DEF GoodFrame, Frames
<1>5. /\ Top(t).c_state # Nil /\ Top(t).op # "info" => Top(t).c_state = state[Top(t).h]
      /\ Holds(Top(t)) => mu[Top(t).h] = t
  BY <1>1 DEF Inv, Pointers, Locks, Top
<1> QED BY <1>1, <1>3, <1>4, <1>5

\* The next step of the same method, when neither l.mu nor the C side is involved.
LEMMA ForwardMoves ==
  ASSUME Inv, NEW t \in Thread, Busy(t), NEW f \in Frames, SetTop(t, f),
         UNCHANGED <<uses, state, heap, mu>>, m'.readers = m.readers, m'.pending \in Thread \cup {Nil},
         Entries', DOMAIN callbacks' = Addr,
         f.op = Top(t).op, f.h = Top(t).h, f.pc = Top(t).pc + 1, f.c_state = Top(t).c_state,
         Instruction(Top(t)) \notin {"lock", "unlock", "begin", "end", "return", "answer"}
  PROVE  Inv' /\ Shape(t)
<1>1. /\ StepFacts(Top(t).op, Top(t).pc) /\ Top(t) \in Frames
      /\ f.c_state # Nil /\ f.op # "info" => f.c_state = state[f.h]
  BY TopStep
<1>2. f.pc \in 1..Len(Program[f.op]) /\ (Holds(f) <=> Holds(Top(t)))
  BY <1>1 DEF StepFacts, Instruction, Holds
<1>3. f.c_state # Nil <=> f.pc \in Inside[f.op]
  <2>1. f.c_state # Nil <=> Top(t).pc \in Inside[Top(t).op]
    BY TopStep DEF GoodFrame
  <2>2. f.pc \in Inside[f.op] <=> Top(t).pc + 1 \in Inside[Top(t).op]
    OBVIOUS
  <2> QED BY <1>1, <2>1, <2>2 DEF StepFacts, Instruction
<1> QED BY <1>1, <1>2, <1>3, Moves

\* Forward, with whatever the step notes in the frame.
LEMMA ForwardFrame ==
  ASSUME Inv, NEW t \in Thread, Busy(t)
  PROVE  /\ Forward(Top(t)) \in [op : Methods, pc : Nat, h : Handle, key : Addr \cup {Nil, "unborn"},
                                 c_state : Addr \cup {Nil}, left : Int, heard : {"right", "wrong"}]
         /\ Forward(Top(t)).op = Top(t).op /\ Forward(Top(t)).h = Top(t).h
         /\ Forward(Top(t)).pc = Top(t).pc + 1 /\ Forward(Top(t)).c_state = Top(t).c_state
<1>1. Top(t) \in Frames
  BY TopStep
<1> QED BY <1>1 DEF Frames, Forward

\* Announce, Store, Erase, ReadKey and CallbackRuns only move on.
LEMMA PlainKeeps ==
  ASSUME Inv, NEW t \in Thread, Announce(t) \/ Store(t) \/ Erase(t) \/ ReadKey(t) \/ CallbackRuns(t)
  PROVE  Inv' /\ Shape(t)
<1>1. Busy(t)
  BY DEF Announce, Store, Erase, ReadKey, CallbackRuns, At
<1>2. /\ Types /\ Top(t) \in Frames /\ GoodFrame(Top(t))
  BY <1>1, TopStep
<1>3. Forward(Top(t)) \in Frames
  BY <1>1, ForwardFrame DEF Frames
<1>4. Entries
  BY DEF Inv
<1>5. CASE Announce(t)
  <2>1. m'.readers = m.readers /\ m'.pending \in Thread \cup {Nil}
    BY <1>2, <1>5 DEF Announce, Types
  <2>2. Entries' /\ DOMAIN callbacks' = Addr
    BY <1>2, <1>4, <1>5 DEF Announce, Entries, Types
  <2>3. SetTop(t, Forward(Top(t))) /\ UNCHANGED <<uses, state, heap, mu>> /\ Instruction(Top(t)) = "announce"
    BY <1>5 DEF Announce, Continue, At
  <2> QED BY <1>1, <1>3, <2>1, <2>2, <2>3, ForwardFrame, ForwardMoves
<1>6. ASSUME NEW cb, SetEntry(t, cb), Instruction(Top(t)) \in {"store", "erase"},
             cb # Nil => cb.h = Top(t).h
      PROVE  Inv' /\ Shape(t)
  <2>1. m'.readers = m.readers /\ m'.pending \in Thread \cup {Nil}
    BY <1>2, <1>6 DEF SetEntry, Types
  <2>2. Entries' /\ DOMAIN callbacks' = Addr
    <3>1. Top(t).h \in Handle /\ state[Top(t).h] # "unborn"
      BY <1>2 DEF GoodFrame, Frames
    <3>2. callbacks' = IF Top(t).key \in Addr THEN [callbacks EXCEPT ![Top(t).key] = cb] ELSE callbacks
      BY <1>6 DEF SetEntry, Inserted
    <3>3. state' = state
      BY <1>6 DEF SetEntry
    <3>4. DOMAIN callbacks' = Addr /\ \A a \in Addr : callbacks'[a] = callbacks[a] \/ callbacks'[a] = cb
      BY <1>2, <3>2 DEF Types
    <3> QED BY <1>4, <1>6, <3>1, <3>3, <3>4 DEF Entries
  <2>3. SetTop(t, Forward(Top(t))) /\ UNCHANGED <<uses, state, heap, mu>>
    BY <1>6 DEF SetEntry, Continue
  <2> QED BY <1>1, <1>3, <1>6, <2>1, <2>2, <2>3, ForwardFrame, ForwardMoves
<1>7. CASE Store(t)
  BY <1>6, <1>7 DEF Store, At, Registered
<1>8. CASE Erase(t)
  BY <1>6, <1>8 DEF Erase, At
<1>9. CASE ReadKey(t)
  <2> DEFINE f == [Forward(Top(t)) EXCEPT !.key = state[Top(t).h]]
  <2>1. /\ f \in Frames /\ f.op = Top(t).op /\ f.h = Top(t).h /\ f.pc = Top(t).pc + 1
        /\ f.c_state = Top(t).c_state
    <3>1. state[Top(t).h] \in Addr \cup {Nil, "unborn"}
      BY <1>2 DEF Types, Frames
    <3> QED BY <1>1, <3>1, ForwardFrame DEF Frames
  <2>2. /\ SetTop(t, f) /\ UNCHANGED <<uses, state, heap, mu, m, callbacks>>
        /\ Instruction(Top(t)) \in {"read_set", "read_clear"}
    BY <1>9 DEF ReadKey, At
  <2>3. m'.readers = m.readers /\ m'.pending \in Thread \cup {Nil} /\ Entries' /\ DOMAIN callbacks' = Addr
    BY <1>2, <1>4, <2>2 DEF Types, Entries
  <2> QED BY <1>1, <2>1, <2>2, <2>3, ForwardMoves
<1>10. CASE CallbackRuns(t)
  <2>1. /\ SetTop(t, Forward(Top(t))) /\ UNCHANGED <<uses, state, heap, mu, m, callbacks>>
        /\ Instruction(Top(t)) = "body"
    BY <1>10 DEF CallbackRuns, Continue, At
  <2>2. m'.readers = m.readers /\ m'.pending \in Thread \cup {Nil} /\ Entries' /\ DOMAIN callbacks' = Addr
    BY <1>2, <1>4, <2>1 DEF Types, Entries
  <2> QED BY <1>1, <1>3, <2>1, <2>2, ForwardFrame, ForwardMoves
<1> QED BY <1>5, <1>7, <1>8, <1>9, <1>10

\* Lock and Unlock: everything but the locks.
LEMMA MuMoves ==
  ASSUME Inv, NEW t \in Thread, Busy(t), SetTop(t, Forward(Top(t))),
         UNCHANGED <<uses, state, heap, m, callbacks>>, mu' \in [Handle -> Thread \cup {Nil}],
         Instruction(Top(t)) \in {"lock", "unlock"}
  PROVE  /\ Types' /\ Readers' /\ Entries' /\ Pointers'
         /\ \A u \in Thread : Len(stack'[u]) = Len(stack[u])
         /\ \A u \in Thread : \A k \in 1..Len(stack[u]) : <<u, k>> # <<t, Depth(t)>>
                 => stack'[u][k] = stack[u][k]
         /\ stack'[t][Depth(t)] = Forward(Top(t)) /\ Depth(t) \in 1..Len(stack[t])
<1>0. PICK f : f = Forward(Top(t))
  OBVIOUS
<1>1. /\ Types /\ Top(t) \in Frames /\ GoodFrame(Top(t)) /\ StepFacts(Top(t).op, Top(t).pc)
      /\ f \in Frames /\ f.op = Top(t).op /\ f.h = Top(t).h
      /\ f.pc = Top(t).pc + 1 /\ f.c_state = Top(t).c_state
  BY <1>0, TopStep, ForwardFrame DEF Frames
<1>2. f.c_state = Nil /\ f.pc \in 1..Len(Program[f.op]) /\ f.pc \notin Inside[f.op]
  BY <1>1 DEF GoodFrame, StepFacts, Instruction
<1>3. GoodFrame(f)' /\ \A g \in Frames : GoodFrame(g) => GoodFrame(g)'
  BY <1>1, <1>2 DEF GoodFrame
<1>4. SetTop(t, f)
  BY <1>0
<1>5. \A u \in Thread : GoodStack(u)'
  BY <1>1, <1>3, <1>4, TopStacks
<1>6. /\ \A u \in Thread : Len(stack'[u]) = Len(stack[u])
      /\ \A u \in Thread : \A k \in 1..Len(stack[u]) : <<u, k>> # <<t, Depth(t)>>
              => stack'[u][k] = stack[u][k]
      /\ stack'[t][Depth(t)] = f /\ Depth(t) \in 1..Len(stack[t]) /\ DOMAIN stack' = Thread
  BY <1>1, <1>4, TopFacts
<1>7. Types'
  BY <1>1, <1>5, <1>6 DEF Types
<1>8. Readers' /\ Entries'
  BY <1>6 DEF Inv, Readers, Entries
<1>9. Pointers'
  BY <1>2, <1>6 DEF Inv, Pointers
<1> QED BY <1>0, <1>6, <1>7, <1>8, <1>9

\* Lock waits until no method holds l.mu, so no other call loses it.
LEMMA LockKeeps ==
  ASSUME Inv, NEW t \in Thread, Lock(t)
  PROVE  Inv' /\ Shape(t)
<1>1. /\ Busy(t) /\ SetTop(t, Forward(Top(t))) /\ UNCHANGED <<uses, state, heap, m, callbacks>>
      /\ Instruction(Top(t)) = "lock" /\ mu[Top(t).h] = Nil /\ mu' = [mu EXCEPT ![Top(t).h] = t]
  BY DEF Lock, At, Continue, Unlocked
<1>2. /\ Types /\ Top(t) \in Frames /\ StepFacts(Top(t).op, Top(t).pc) /\ Top(t).h \in Handle
  BY <1>1, TopStep DEF Frames
<1>3. mu' \in [Handle -> Thread \cup {Nil}] /\ mu'[Top(t).h] = t
      /\ \A h \in Handle : h # Top(t).h => mu'[h] = mu[h]
  BY <1>1, <1>2 DEF Types
<1>4. /\ Types' /\ Readers' /\ Entries' /\ Pointers'
      /\ \A u \in Thread : Len(stack'[u]) = Len(stack[u])
      /\ \A u \in Thread : \A k \in 1..Len(stack[u]) : <<u, k>> # <<t, Depth(t)>>
              => stack'[u][k] = stack[u][k]
      /\ stack'[t][Depth(t)] = Forward(Top(t)) /\ Depth(t) \in 1..Len(stack[t])
  BY <1>1, <1>3, MuMoves
<1>5. Forward(Top(t)).h = Top(t).h
  BY <1>1, ForwardFrame
<1>6. Locks /\ \A u \in Thread : \A k \in 1..Len(stack[u]) : stack[u][k].h \in Handle
  BY <1>2 DEF Inv, Types, GoodStack, GoodFrame, Frames
<1>7. \A u \in Thread : \A k \in 1..Len(stack[u]) : Holds(stack[u][k]) => stack[u][k].h # Top(t).h
  BY <1>1, <1>6, NilAssumption DEF Locks
<1>8. \A u \in Thread : \A k \in 1..Len(stack[u]) :
        Holds(stack[u][k]) => mu'[stack[u][k].h] = u
  BY <1>3, <1>6, <1>7 DEF Locks
<1>9. Locks'
  <2>1. ASSUME NEW u \in Thread, NEW k \in 1..Len(stack'[u]), Holds(stack'[u][k]) PROVE mu'[stack'[u][k].h] = u
    BY <1>3, <1>4, <1>5, <1>8, <2>1
  <2>2. ASSUME NEW u \in Thread, NEW j \in 1..Len(stack'[u]), NEW k \in 1..Len(stack'[u]),
               Holds(stack'[u][j]), Holds(stack'[u][k]), stack'[u][j].h = stack'[u][k].h
        PROVE  j = k
    BY <1>4, <1>5, <1>6, <1>7, <2>2, SMTT(40) DEF Locks
  <2> QED BY <2>1, <2>2 DEF Locks
<1>10. Holds(Forward(Top(t))) /\ Forward(Top(t)) \in Frames /\ Forward(Top(t)).op = Top(t).op
       /\ Forward(Top(t)).c_state = Top(t).c_state
  BY <1>1, <1>2, ForwardFrame DEF Holds, StepFacts, Instruction, Frames
<1>11. Shape(t)
  BY <1>1, <1>2, <1>5, <1>10, TopShape
<1> QED BY <1>4, <1>9, <1>11 DEF Inv

\* Unlock releases the lock of the only call that held it.
LEMMA UnlockKeeps ==
  ASSUME Inv, NEW t \in Thread, Unlock(t)
  PROVE  Inv' /\ Shape(t)
<1>1. /\ Busy(t) /\ SetTop(t, Forward(Top(t))) /\ UNCHANGED <<uses, state, heap, m, callbacks>>
      /\ Instruction(Top(t)) = "unlock" /\ mu' = [mu EXCEPT ![Top(t).h] = Nil]
  BY DEF Unlock, At, Continue
<1>2. /\ Types /\ Top(t) \in Frames /\ StepFacts(Top(t).op, Top(t).pc) /\ Top(t).h \in Handle
  BY <1>1, TopStep DEF Frames
<1>3. mu' \in [Handle -> Thread \cup {Nil}]
      /\ \A h \in Handle : h # Top(t).h => mu'[h] = mu[h]
  BY <1>1, <1>2 DEF Types
<1>4. /\ Types' /\ Readers' /\ Entries' /\ Pointers'
      /\ \A u \in Thread : Len(stack'[u]) = Len(stack[u])
      /\ \A u \in Thread : \A k \in 1..Len(stack[u]) : <<u, k>> # <<t, Depth(t)>>
              => stack'[u][k] = stack[u][k]
      /\ stack'[t][Depth(t)] = Forward(Top(t)) /\ Depth(t) \in 1..Len(stack[t])
  BY <1>1, <1>3, MuMoves
<1>5. ~Holds(Forward(Top(t))) /\ Holds(Top(t))
  BY <1>1, <1>2, ForwardFrame DEF Holds, StepFacts, Instruction
<1>6. Locks /\ \A u \in Thread : \A k \in 1..Len(stack[u]) : stack[u][k].h \in Handle
  BY <1>2 DEF Inv, Types, GoodStack, GoodFrame, Frames
<1>7. \A u \in Thread : \A k \in 1..Len(stack[u]) :
        Holds(stack[u][k]) /\ <<u, k>> # <<t, Depth(t)>> => stack[u][k].h # Top(t).h
  BY <1>4, <1>5, <1>6, SMTT(40) DEF Locks, Top
<1>8. Locks'
  <2>1. ASSUME NEW u \in Thread, NEW k \in 1..Len(stack'[u]), Holds(stack'[u][k]) PROVE mu'[stack'[u][k].h] = u
    <3>1. <<u, k>> # <<t, Depth(t)>> /\ k \in 1..Len(stack[u]) /\ stack'[u][k] = stack[u][k]
      BY <1>4, <1>5, <2>1
    <3> QED BY <1>3, <1>6, <1>7, <2>1, <3>1 DEF Locks
  <2>2. ASSUME NEW u \in Thread, NEW j \in 1..Len(stack'[u]), NEW k \in 1..Len(stack'[u]),
               Holds(stack'[u][j]), Holds(stack'[u][k]), stack'[u][j].h = stack'[u][k].h
        PROVE  j = k
    BY <1>4, <1>5, <1>6, <2>2 DEF Locks
  <2> QED BY <2>1, <2>2 DEF Locks
<1>9. mu'[Top(t).h] # t
  <2>1. mu'[Top(t).h] = Nil
    BY <1>1, <1>2 DEF Types
  <2> QED BY <2>1, NilAssumption
<1>10. /\ Forward(Top(t)) \in Frames /\ Forward(Top(t)).op = Top(t).op /\ Forward(Top(t)).h = Top(t).h
       /\ Forward(Top(t)).c_state = Top(t).c_state
  BY <1>1, ForwardFrame DEF Frames
<1>11. Shape(t)
  BY <1>1, <1>2, <1>9, <1>10, TopShape
<1> QED BY <1>4, <1>8, <1>11 DEF Inv

\* Check, Begin, End and Token stay under the same lock; Begin takes the pointer
\* that l.state has now.
LEMMA EnterKeeps ==
  ASSUME Inv, NEW t \in Thread, Check(t) \/ Begin(t) \/ End(t) \/ Token(t)
  PROVE  Inv' /\ Shape(t)
<1>0. PICK f : f = Top(t)
  OBVIOUS
<1>1. Busy(t) /\ UNCHANGED <<uses, state, heap, mu, m, callbacks>> /\ Program[f.op][f.pc] = Instruction(Top(t))
  BY <1>0 DEF Check, Begin, End, Token, At, Instruction
<1>2. /\ Types /\ f \in Frames /\ GoodFrame(f) /\ StepFacts(f.op, f.pc)
      /\ f.c_state # Nil /\ f.op # "info" => f.c_state = state[f.h]
      /\ state[f.h] \in Addr \cup {Nil}
  <2>1. /\ Types /\ f \in Frames /\ GoodFrame(f) /\ StepFacts(f.op, f.pc)
        /\ f.c_state # Nil /\ f.op # "info" => f.c_state = state[f.h]
    BY <1>0, <1>1, TopStep
  <2> QED BY <2>1 DEF Types, GoodFrame, Frames
<1>3. /\ m'.readers = m.readers /\ m'.pending \in Thread \cup {Nil} /\ DOMAIN callbacks' = Addr /\ Entries'
  BY <1>1, <1>2 DEF Inv, Types, Entries
<1>4. ASSUME NEW g \in Frames, SetTop(t, g), g.op = f.op, g.h = f.h, g.pc \in 1..Len(Program[g.op]),
             g.c_state # Nil <=> g.pc \in Inside[g.op], Holds(g) <=> Holds(f),
             g.c_state # Nil /\ g.op # "info" => g.c_state = state[g.h],
             g.c_state # Nil => g.c_state = state[g.h] \/ g.c_state = f.c_state
      PROVE  Inv' /\ Shape(t)
  BY <1>0, <1>1, <1>3, <1>4, Moves
<1>5. /\ f.op \in Methods /\ f.pc \in Nat /\ f.h \in Handle /\ f.key \in Addr \cup {Nil, "unborn"}
      /\ f.c_state \in Addr \cup {Nil} /\ f.left \in Int /\ f.heard \in {"right", "wrong"}
      /\ f.pc \in 1..Len(Program[f.op])
      /\ f.c_state # Nil <=> f.pc \in Inside[f.op]
  BY <1>2 DEF Frames, GoodFrame
<1>6. \A pc \in 1..Len(Program[f.op]) : pc \in Nat
  BY <1>5, Lengths
<1>7. Forward(f) = [f EXCEPT !.pc = f.pc + 1] /\ f.pc + 1 \in Nat
  BY <1>5 DEF Forward
<1>8. CASE Check(t)
  <2>1. Program[f.op][f.pc] = "check"
    BY <1>0, <1>8 DEF Check, At, Instruction
  <2>2. f.op \in {"free", "info"} /\ f.c_state = Nil /\ f.pc + 1 \in 1..Len(Program[f.op])
        /\ f.pc + 1 \notin Inside[f.op]
        /\ (f.pc + 1 \in Locked[f.op] <=> f.pc \in Locked[f.op])
    BY <1>2, <1>5, <2>1 DEF StepFacts
  <2>3. CASE state[f.h] # Nil
    <3> DEFINE g == [f EXCEPT !.pc = f.pc + 1, !.key = state[f.h], !.c_state = Nil, !.left = f.left]
    <3>1. SetTop(t, g)
      <4>1. SetTop(t, [Forward(f) EXCEPT !.key = state[f.h]])
        BY <1>0, <1>8, <2>3 DEF Check
      <4>2. [Forward(f) EXCEPT !.key = state[f.h]] = g
        BY <1>2, <1>7, <2>2 DEF Frames
      <4> QED BY <4>1, <4>2
    <3>2. /\ g \in Frames /\ g.op = f.op /\ g.h = f.h /\ g.pc = f.pc + 1 /\ g.c_state = Nil
          /\ Holds(g) <=> f.pc + 1 \in Locked[f.op]
      BY <1>2, <1>5, <1>7 DEF Frames, Holds
    <3> HIDE DEF g
    <3> QED BY <1>4, <2>2, <2>3, <3>1, <3>2 DEF Holds
  <2>4. CASE state[f.h] = Nil
    <3>1. PICK pc \in 1..Len(Program[f.op]) :
            /\ SetTop(t, [f EXCEPT !.pc = pc])
            /\ pc \notin Inside[f.op] /\ (pc \in Locked[f.op] <=> f.pc \in Locked[f.op])
      <4>1. SetTop(t, Jump(f, IF f.op = "free" THEN "unlock" ELSE "return"))
        BY <1>0, <1>8, <2>4 DEF Check
      <4>2. CASE f.op = "free"
        <5>1. f.pc = 2 /\ Len(Program["free"]) = 7
          BY <1>5, <2>1, <4>2 DEF Program
        <5>2. Label("free", "unlock") \in 1..7 /\ SetTop(t, [f EXCEPT !.pc = Label("free", "unlock")])
          <6>1. Label("free", "unlock") \in 1..7
            BY <5>1, Labels
          <6>2. Jump(f, "unlock") = [f EXCEPT !.pc = Label("free", "unlock")]
            BY <4>2 DEF Jump
          <6> QED BY <4>1, <4>2, <6>1, <6>2
        <5>3. /\ Label("free", "unlock") \in Locked["free"] /\ Label("free", "unlock") \notin Inside["free"]
              /\ 2 \in Locked["free"]
          BY Labels DEF Locked
        <5> QED BY <4>2, <5>1, <5>2, <5>3
      <4>3. CASE f.op = "info"
        BY <4>1, <4>3, Labels DEF Jump, Locked
      <4> QED BY <2>2, <4>2, <4>3
    <3> DEFINE g == [f EXCEPT !.pc = pc, !.key = f.key, !.c_state = Nil, !.left = f.left]
    <3>2. [f EXCEPT !.pc = pc] = g
      BY <1>2, <2>2 DEF Frames
    <3>3. /\ g \in Frames /\ g.op = f.op /\ g.h = f.h /\ g.pc = pc /\ g.c_state = Nil
          /\ Holds(g) <=> pc \in Locked[f.op]
      BY <1>2, <1>5, <1>6, <3>1 DEF Frames, Holds
    <3>4. SetTop(t, g)
      BY <3>1, <3>2
    <3> HIDE DEF g
    <3> QED BY <1>4, <3>1, <3>3, <3>4 DEF Holds
  <2> QED BY <2>3, <2>4
<1>9. CASE Begin(t)
  <2>1. Program[f.op][f.pc] = "begin"
    BY <1>0, <1>9 DEF Begin, At, Instruction
  <2>2. /\ f.c_state = Nil /\ f.pc + 1 \in 1..Len(Program[f.op]) /\ f.pc + 1 \in Inside[f.op]
        /\ (f.pc + 1 \in Locked[f.op] <=> f.pc \in Locked[f.op])
    BY <1>2, <1>5, <2>1 DEF StepFacts
  <2>3. CASE state[f.h] # Nil
    <3> DEFINE g == [f EXCEPT !.pc = f.pc + 1, !.key = f.key, !.c_state = state[f.h], !.left = f.left]
    <3>1. SetTop(t, g)
      <4>1. SetTop(t, [Forward(f) EXCEPT !.c_state = state[f.h]])
        BY <1>0, <1>9, <2>3 DEF Begin, Pointer
      <4>2. [Forward(f) EXCEPT !.c_state = state[f.h]] = g
        BY <1>2, <1>7 DEF Frames
      <4> QED BY <4>1, <4>2
    <3>2. /\ g \in Frames /\ g.op = f.op /\ g.h = f.h /\ g.pc = f.pc + 1 /\ g.c_state = state[f.h]
          /\ Holds(g) <=> f.pc + 1 \in Locked[f.op]
      BY <1>2, <1>5, <1>7 DEF Frames, Holds
    <3> HIDE DEF g
    <3> QED BY <1>4, <2>2, <2>3, <3>1, <3>2 DEF Holds
  <2>4. CASE state[f.h] = Nil
    <3>1. PICK pc \in 1..Len(Program[f.op]) :
            /\ SetTop(t, [f EXCEPT !.pc = pc])
            /\ pc \notin Inside[f.op] /\ (pc \in Locked[f.op] <=> f.pc \in Locked[f.op])
      <4>1. SetTop(t, Jump(f, IF f.op = "info" THEN "return" ELSE "unlock"))
        BY <1>0, <1>9, <2>4 DEF Begin, Pointer
      <4>2. CASE f.op = "info"
        BY <4>1, <4>2, Labels DEF Jump, Locked
      <4>3. CASE f.op # "info"
        <5>1. f.op \in Predictions \cup {"locked"} /\ f.pc \in Locked[f.op]
          BY <1>2, <2>1, <4>3 DEF StepFacts
        <5> QED BY <4>1, <4>3, <5>1, Labels DEF Jump
      <4> QED BY <4>2, <4>3
    <3> DEFINE g == [f EXCEPT !.pc = pc, !.key = f.key, !.c_state = Nil, !.left = f.left]
    <3>2. [f EXCEPT !.pc = pc] = g
      BY <1>2, <2>2 DEF Frames
    <3>3. /\ g \in Frames /\ g.op = f.op /\ g.h = f.h /\ g.pc = pc /\ g.c_state = Nil
          /\ Holds(g) <=> pc \in Locked[f.op]
      BY <1>2, <1>5, <1>6, <3>1 DEF Frames, Holds
    <3>4. SetTop(t, g)
      BY <3>1, <3>2
    <3> HIDE DEF g
    <3> QED BY <1>4, <3>1, <3>3, <3>4 DEF Holds
  <2> QED BY <2>3, <2>4
<1>10. CASE End(t)
  <2>1. Program[f.op][f.pc] = "end"
    BY <1>0, <1>10 DEF End, At, Instruction
  <2>2. f.pc + 1 \in 1..Len(Program[f.op]) /\ f.pc + 1 \notin Inside[f.op] /\ (f.pc + 1 \in Locked[f.op] <=> f.pc \in Locked[f.op])
    BY <1>2, <2>1 DEF StepFacts
  <2> DEFINE g == [f EXCEPT !.pc = f.pc + 1, !.key = f.key, !.c_state = Nil, !.left = f.left]
  <2>3. SetTop(t, g)
    <3>1. SetTop(t, [Forward(f) EXCEPT !.c_state = Nil])
      BY <1>0, <1>10 DEF End
    <3>2. [Forward(f) EXCEPT !.c_state = Nil] = g
      BY <1>2, <1>7 DEF Frames
    <3> QED BY <3>1, <3>2
  <2>4. /\ g \in Frames /\ g.op = f.op /\ g.h = f.h /\ g.pc = f.pc + 1 /\ g.c_state = Nil
        /\ Holds(g) <=> f.pc + 1 \in Locked[f.op]
    BY <1>2, <1>5, <1>7 DEF Frames, Holds
  <2> HIDE DEF g
  <2> QED BY <1>4, <2>2, <2>3, <2>4 DEF Holds
<1>11. CASE Token(t)
  <2>1. Program[f.op][f.pc] = "token"
    BY <1>0, <1>11 DEF Token, At, Instruction
  <2>2. /\ f.op \in Predictions /\ f.pc \in Locked[f.op] /\ f.pc + 1 \in Inside[f.op]
        /\ f.pc + 1 \in 1..Len(Program[f.op]) /\ f.pc + 1 \in Locked[f.op] /\ f.op # "info"
        /\ f.c_state # Nil
    BY <1>2, <1>5, <2>1 DEF StepFacts, Predictions
  <2>3. PICK pc \in 1..Len(Program[f.op]), n \in Int :
          /\ SetTop(t, [f EXCEPT !.pc = pc, !.left = n])
          /\ pc \in Locked[f.op] /\ pc \in Inside[f.op]
    <3>1. CASE SetTop(t, [Forward(f) EXCEPT !.left = f.left - 1])
      <4>1. [Forward(f) EXCEPT !.left = f.left - 1] = [f EXCEPT !.pc = f.pc + 1, !.left = f.left - 1]
        BY <1>2, <1>7 DEF Frames
      <4>2. f.left - 1 \in Int
        BY <1>5
      <4> QED BY <2>2, <3>1, <4>1, <4>2
    <3>2. CASE SetTop(t, Jump(f, "end"))
      <4>1. Jump(f, "end") = [f EXCEPT !.pc = Label(f.op, "end"), !.left = f.left]
        BY <1>2 DEF Jump, Frames
      <4>2. /\ Label(f.op, "end") \in 1..Len(Program[f.op])
            /\ Label(f.op, "end") \in Locked[f.op] /\ Label(f.op, "end") \in Inside[f.op]
        BY <2>2, Labels
      <4> QED BY <1>5, <3>2, <4>1, <4>2
    <3>3. SetTop(t, [Forward(f) EXCEPT !.left = @ - 1]) \/ SetTop(t, Jump(f, "end"))
      BY <1>0, <1>11 DEF Token
    <3>4. Forward(f).left = f.left
      BY <1>2, <1>7 DEF Frames
    <3> QED BY <3>1, <3>2, <3>3, <3>4
  <2> DEFINE g == [f EXCEPT !.pc = pc, !.key = f.key, !.c_state = f.c_state, !.left = n]
  <2>4. [f EXCEPT !.pc = pc, !.left = n] = g
    BY <1>2 DEF Frames
  <2>5. /\ g \in Frames /\ g.op = f.op /\ g.h = f.h /\ g.pc = pc /\ g.c_state = f.c_state
        /\ Holds(g) <=> pc \in Locked[f.op]
    BY <1>2, <1>5, <1>6, <2>3 DEF Frames, Holds
  <2>6. SetTop(t, g)
    BY <2>3, <2>4
  <2> HIDE DEF g
  <2> QED BY <1>2, <1>4, <2>2, <2>3, <2>5, <2>6 DEF Holds
<1> QED BY <1>8, <1>9, <1>10, <1>11

\* A method other than ModelInfo that is inside the C side holds l.mu and works on
\* what l.state points to.
LEMMA WorkersHold ==
  ASSUME Inv, NEW u \in Thread, NEW k \in 1..Len(stack[u]),
         stack[u][k].c_state # Nil, stack[u][k].op # "info"
  PROVE  /\ Holds(stack[u][k]) /\ stack[u][k].h \in Handle /\ mu[stack[u][k].h] = u
         /\ stack[u][k].c_state = state[stack[u][k].h] /\ state[stack[u][k].h] \in Addr
<1>1. GoodFrame(stack[u][k])
  BY DEF Inv, Types, GoodStack
<1>2. StepFacts(stack[u][k].op, stack[u][k].pc)
  BY <1>1, Programs DEF GoodFrame, Frames
<1>3. Holds(stack[u][k])
  BY <1>1, <1>2 DEF GoodFrame, StepFacts, Holds
<1>4. stack[u][k].c_state = state[stack[u][k].h] /\ mu[stack[u][k].h] = u
  BY <1>3 DEF Inv, Pointers, Locks
<1>5. stack[u][k].h \in Handle /\ stack[u][k].c_state \in Addr
  BY <1>1 DEF GoodFrame, Frames
<1> QED BY <1>3, <1>4, <1>5

\* Free holds l.mu when it frees the context, so no other method works on it.
LEMMA FreeModelKeeps ==
  ASSUME Inv, NEW t \in Thread, FreeModel(t)
  PROVE  Inv' /\ Shape(t)
<1>0. PICK f, h : f = Forward(Top(t)) /\ h = Top(t).h
  OBVIOUS
<1>1. /\ Busy(t) /\ SetTop(t, f) /\ UNCHANGED <<uses, mu, m, callbacks>>
      /\ Program[Top(t).op][Top(t).pc] = "free"
      /\ heap' = [heap EXCEPT ![state[h]] = Nil] /\ state' = [state EXCEPT ![h] = Nil]
  BY <1>0 DEF FreeModel, At, Continue, Instruction
<1>2. /\ Types /\ Top(t) \in Frames /\ GoodFrame(Top(t)) /\ StepFacts(Top(t).op, Top(t).pc)
      /\ h \in Handle
  BY <1>0, <1>1, TopStep DEF Frames
<1>3. /\ f \in Frames /\ f.op = Top(t).op /\ f.h = h /\ f.pc = Top(t).pc + 1 /\ f.c_state = Top(t).c_state
  BY <1>0, <1>1, ForwardFrame DEF Frames
<1>4. /\ Holds(Top(t)) /\ Holds(f) /\ f.c_state = Nil /\ f.pc \in 1..Len(Program[f.op])
      /\ f.pc \notin Inside[f.op]
  BY <1>1, <1>2, <1>3 DEF StepFacts, Holds, GoodFrame
<1>5. /\ state' \in [Handle -> Addr \cup {Nil, "unborn"}] /\ state'[h] = Nil
      /\ \A g \in Handle : g # h => state'[g] = state[g]
  BY <1>1, <1>2 DEF Types
<1>6. /\ heap' \in [Addr -> Handle \cup {Nil}]
      /\ \A a \in Addr : a # state[h] => heap'[a] = heap[a]
  BY <1>1, <1>2 DEF Types
<1>7. \A g \in Frames : state[g.h] # "unborn" => state'[g.h] # "unborn"
  BY <1>5, NilAssumption DEF Frames
<1>8. GoodFrame(f)' /\ \A g \in Frames : GoodFrame(g) => GoodFrame(g)'
  <2>1. GoodFrame(f)'
    <3>1. state[f.h] # "unborn" /\ f.op \in Ops \cup NestedOps \cup {"callback"}
      BY <1>0, <1>2, <1>3 DEF GoodFrame
    <3>2. state'[f.h] # "unborn"
      BY <1>3, <1>7, <3>1
    <3> QED BY <1>3, <1>4, <3>1, <3>2 DEF GoodFrame
  <2>2. \A g \in Frames : GoodFrame(g) => GoodFrame(g)'
    BY <1>7 DEF GoodFrame
  <2> QED BY <2>1, <2>2
<1>9. \A u \in Thread : GoodStack(u)'
  BY <1>1, <1>2, <1>3, <1>8, TopStacks
<1>10. /\ Depth(t) \in 1..Len(stack[t]) /\ stack'[t][Depth(t)] = f /\ DOMAIN stack' = Thread
       /\ \A u \in Thread : Len(stack'[u]) = Len(stack[u])
       /\ \A u \in Thread : \A k \in 1..Len(stack[u]) : <<u, k>> # <<t, Depth(t)>>
               => stack'[u][k] = stack[u][k]
  BY <1>1, <1>2, <1>3, TopFacts
<1>11. Types' /\ Readers'
  BY <1>1, <1>2, <1>5, <1>6, <1>9, <1>10 DEF Inv, Types, Readers
<1>12. Entries'
  BY <1>1, <1>5, NilAssumption DEF Inv, Entries
<1>13. \A u \in Thread : \A k \in 1..Len(stack[u]) :
         stack'[u][k].h = stack[u][k].h /\ (Holds(stack'[u][k]) <=> Holds(stack[u][k]))
  BY <1>0, <1>3, <1>4, <1>10, ZenonT(60) DEF Top
<1>14. Locks'
  <2>1. ASSUME NEW u \in Thread, NEW k \in 1..Len(stack'[u]), Holds(stack'[u][k]) PROVE mu'[stack'[u][k].h] = u
    BY <1>1, <1>10, <1>13, <2>1 DEF Inv, Locks
  <2>2. ASSUME NEW u \in Thread, NEW j \in 1..Len(stack'[u]), NEW k \in 1..Len(stack'[u]),
               Holds(stack'[u][j]), Holds(stack'[u][k]), stack'[u][j].h = stack'[u][k].h
        PROVE  j = k
    BY <1>10, <1>13, <2>2 DEF Inv, Locks
  <2> QED BY <2>1, <2>2 DEF Locks
<1>15. Pointers'
  <2>1. ASSUME NEW g \in Handle, state'[g] \in Addr PROVE heap'[state'[g]] = g
    BY <1>2, <1>5, <1>6, <2>1, NilAssumption DEF Inv, Pointers
  <2>2. ASSUME NEW u \in Thread, NEW k \in 1..Len(stack'[u]),
               stack'[u][k].c_state # Nil, stack'[u][k].op # "info"
        PROVE  stack'[u][k].c_state = state'[stack'[u][k].h]
    <3>1. <<u, k>> # <<t, Depth(t)>> /\ k \in 1..Len(stack[u]) /\ stack'[u][k] = stack[u][k]
      BY <1>4, <1>10, <2>2
    <3>2. /\ Holds(stack[u][k]) /\ stack[u][k].h \in Handle /\ mu[stack[u][k].h] = u
          /\ stack[u][k].c_state = state[stack[u][k].h]
      BY <2>2, <3>1, WorkersHold
    <3>3. stack[u][k].h # h
      <4>1. mu[h] = t /\ Holds(stack[t][Depth(t)]) /\ stack[t][Depth(t)].h = h
        BY <1>0, <1>1, <1>4, TopStep DEF Top
      <4> QED BY <1>10, <3>1, <3>2, <4>1 DEF Inv, Locks
    <3> QED BY <1>5, <3>1, <3>2, <3>3
  <2> QED BY <2>1, <2>2 DEF Pointers
<1>16. Shape(t)
  BY <1>0, <1>1, <1>2, <1>3, <1>4, TopShape
<1> QED BY <1>11, <1>12, <1>14, <1>15, <1>16 DEF Inv

---------------------------------------------------------------------------
\* Steps that call and return.

\* What is left of a stack.
LEMMA Popped ==
  ASSUME NEW q \in Seq(Frames), NEW n \in 0..Len(q)
  PROVE  /\ SubSeq(q, 1, n) \in Seq(Frames) /\ Len(SubSeq(q, 1, n)) = n
         /\ \A k \in 1..n : SubSeq(q, 1, n)[k] = q[k]
  OBVIOUS

\* A stack of frames in their places, with no new lock on it.
LEMMA NewStack ==
  ASSUME Inv, NEW t \in Thread, NEW s \in Seq(Frames), stack' = [stack EXCEPT ![t] = s], Len(s) \in 0..4,
         UNCHANGED <<uses, state, heap, mu, callbacks>>,
         m'.readers \in [Thread -> Nat], m'.pending \in Thread \cup {Nil}, Readers',
         \A k \in 1..Len(s) : GoodFrame(s[k]) /\ (s[k].op = "callback" <=> k \in {2, 4}),
         \A k \in {2, 4} : k <= Len(s) =>
            s[k-1].op \in Predictions /\ s[k-1].pc = Label(s[k-1].op, "token"),
         \A k \in 1..Len(s) : Holds(s[k]) =>
            k \in 1..Len(stack[t]) /\ Holds(stack[t][k]) /\ s[k].h = stack[t][k].h,
         \A k \in 1..Len(s) : s[k].c_state # Nil /\ s[k].op # "info" => s[k].c_state = state[s[k].h],
         \A k \in 1..Len(stack[t]) : Holds(stack[t][k]) =>
            k \in 1..Len(s) /\ Holds(s[k]) /\ s[k].h = stack[t][k].h,
         \A k \in 1..Len(s) : s[k].c_state # Nil =>
            k \in 1..Len(stack[t]) /\ s[k].c_state = stack[t][k].c_state /\ s[k].h = stack[t][k].h,
         Len(s) >= 3 => s[3].op \in NestedOps \/ (Len(stack[t]) >= 3 /\ s[3].op = stack[t][3].op)
  PROVE  Inv' /\ Shape(t)
<1>1. Types /\ stack'[t] = s /\ DOMAIN stack' = Thread /\ \A u \in Thread : u # t => stack'[u] = stack[u]
  BY DEF Inv, Types
<1>2. \A u \in Thread : GoodStack(u)'
  <2>1. ASSUME NEW u \in Thread, u # t PROVE GoodStack(u)'
    <3>1. stack'[u] = stack[u] /\ GoodStack(u)
      BY <1>1, <2>1 DEF Types
    <3>2. \A x : GoodFrame(x)' <=> GoodFrame(x)
      BY DEF GoodFrame
    <3> QED BY <3>1, <3>2 DEF GoodStack
  <2>2. GoodStack(t)'
    BY <1>1 DEF GoodStack, GoodFrame
  <2> QED BY <2>1, <2>2
<1>3. Types'
  BY <1>1, <1>2 DEF Types
<1>4. Entries'
  BY DEF Inv, Entries
<1>5. \A u \in Thread : \A k \in 1..Len(stack'[u]) : Holds(stack'[u][k]) =>
         k \in 1..Len(stack[u]) /\ Holds(stack[u][k]) /\ stack'[u][k].h = stack[u][k].h
  BY <1>1
<1>6. Locks'
  <2>1. Locks /\ mu' = mu
    BY DEF Inv
  <2>2. ASSUME NEW u \in Thread, NEW k \in 1..Len(stack'[u]), Holds(stack'[u][k])
        PROVE  mu'[stack'[u][k].h] = u
    <3>1. k \in 1..Len(stack[u]) /\ Holds(stack[u][k]) /\ stack'[u][k].h = stack[u][k].h
      BY <1>5, <2>2
    <3> QED BY <2>1, <3>1 DEF Locks
  <2>3. ASSUME NEW u \in Thread, NEW j \in 1..Len(stack'[u]), NEW k \in 1..Len(stack'[u]),
               Holds(stack'[u][j]), Holds(stack'[u][k]), stack'[u][j].h = stack'[u][k].h
        PROVE  j = k
    <3>1. /\ j \in 1..Len(stack[u]) /\ Holds(stack[u][j]) /\ stack'[u][j].h = stack[u][j].h
          /\ k \in 1..Len(stack[u]) /\ Holds(stack[u][k]) /\ stack'[u][k].h = stack[u][k].h
      BY <1>5, <2>3
    <3>2. stack[u][j].h = stack[u][k].h
      BY <2>3, <3>1
    <3> QED BY <2>1, <3>1, <3>2 DEF Locks
  <2> QED BY <2>2, <2>3, ZenonT(60) DEF Locks, Holds
<1>7. \A u \in Thread : \A k \in 1..Len(stack'[u]) :
         stack'[u][k].c_state # Nil /\ stack'[u][k].op # "info" => stack'[u][k].c_state = state[stack'[u][k].h]
  BY <1>1 DEF Inv, Pointers
<1>8. Pointers'
  BY <1>7 DEF Inv, Pointers
<1>9. Shape(t)
  BY <1>1, ZenonT(60) DEF Shape
<1> QED BY <1>3, <1>4, <1>6, <1>8, <1>9 DEF Inv

\* The frame of a call that starts.
LEMMA NewFrame ==
  ASSUME NEW op \in Ops \cup NestedOps \cup {"callback"}, NEW h \in Handle, state[h] # "unborn"
  PROVE  /\ Frame(op, h) \in Frames /\ GoodFrame(Frame(op, h)) /\ ~Holds(Frame(op, h))
         /\ Frame(op, h).op = op /\ Frame(op, h).c_state = Nil /\ Frame(op, h).pc = 1
<1>1. op \in Methods
  BY OpsAssumption DEF Program, Methods
<1>2. 1 \in 1..Len(Program[op]) /\ 1 \notin Inside[op] /\ 1 \notin Locked[op]
  <2>1. 1 \in 1..Len(Program[op])
    BY <1>1, Lengths
  <2>2. 1 \notin Inside[op]
    BY <1>1 DEF Methods, Inside
  <2>3. 1 \notin Locked[op]
    BY <1>1 DEF Methods, Locked
  <2> QED BY <2>1, <2>2, <2>3
<1>3. Frame(op, h) \in Frames
  BY <1>1, TokensAssumption DEF Frame, Frames
<1> QED BY <1>2, <1>3 DEF GoodFrame, Holds, Frame

\* Start: a method is called on a handle that New has returned.
LEMMA StartKeeps ==
  ASSUME Inv, NEW t \in Thread, Start(t)
  PROVE  Inv' /\ Shape(t)
<1>1. PICK op \in Ops, h \in uses[t] :
        state[h] # "unborn" /\ stack' = [stack EXCEPT ![t] = <<Frame(op, h)>>]
  BY DEF Start
<1>2. stack[t] = <<>> /\ UNCHANGED <<uses, state, heap, mu, m, callbacks>>
  BY DEF Start, Busy
<1>3. h \in Handle
  BY <1>1, SharingsAssumption DEF Inv, Types
<1>4. PICK g \in Frames :
        /\ g = Frame(op, h) /\ GoodFrame(g) /\ ~Holds(g) /\ g.op # "callback" /\ g.c_state = Nil
  BY <1>1, <1>3, NewFrame, OpsAssumption
<1>5. PICK s \in Seq(Frames) : s = <<g>>
  <2>1. <<g>> \in Seq(Frames)
    OBVIOUS
  <2> QED BY <2>1
<1> Len(s) = 1 /\ s[1] = g
  BY <1>5
<1>6. stack' = [stack EXCEPT ![t] = s]
  BY <1>1, <1>4, <1>5
<1>7. m'.readers \in [Thread -> Nat] /\ m'.pending \in Thread \cup {Nil}
  BY <1>2 DEF Inv, Types
<1>8. Readers'
  <2>1. Len(stack[t]) = 0 /\ Len(stack'[t]) = 1 /\ \A u \in Thread : u # t => stack'[u] = stack[u]
    BY <1>2, <1>5, <1>6 DEF Inv, Types
  <2>2. \A u \in Thread : m'.readers[u] = m.readers[u]
    BY <1>2
  <2>3. CallbacksOn(Len(stack'[t])) = CallbacksOn(Len(stack[t]))
    BY <1>4, <2>1 DEF CallbacksOn
  <2> QED BY <2>1, <2>2, <2>3 DEF Inv, Readers
<1>9. /\ \A k \in 1..Len(s) : GoodFrame(s[k]) /\ (s[k].op = "callback" <=> k \in {2, 4})
      /\ \A k \in {2, 4} : ~(k <= Len(s))
      /\ \A k \in 1..Len(s) : ~Holds(s[k]) /\ s[k].c_state = Nil
      /\ Len(s) \in 0..4
  BY <1>4
<1>10. Len(stack[t]) = 0 /\ ~(Len(s) >= 3)
  BY <1>2
<1>11. \A k \in 1..Len(stack[t]) : Holds(stack[t][k]) =>
         k \in 1..Len(s) /\ Holds(s[k]) /\ s[k].h = stack[t][k].h
  BY <1>10
<1> QED BY <1>2, <1>6, <1>7, <1>8, <1>9, <1>10, <1>11, NewStack, ZenonT(60)

\* Return: the call on top is no callback and holds no lock.
LEMMA ReturnKeeps ==
  ASSUME Inv, NEW t \in Thread, Return(t)
  PROVE  Inv' /\ Shape(t)
<1>1. PICK d : d = Depth(t)
  OBVIOUS
<1>2. /\ Busy(t) /\ stack' = [stack EXCEPT ![t] = SubSeq(stack[t], 1, d - 1)]
      /\ UNCHANGED <<uses, state, heap, mu, m, callbacks>> /\ Instruction(Top(t)) = "return"
  BY <1>1 DEF Return, At
<1>3. Types /\ GoodStack(t) /\ Top(t).op # "callback"
  BY <1>2, TopStep DEF Types, StepFacts, Instruction
<1>4. stack[t] \in Seq(Frames) /\ d = Len(stack[t]) /\ d \in {1, 3}
  <2>1. stack[t] \in Seq(Frames) /\ d = Len(stack[t]) /\ d \in 1..4 /\ d \in 1..Len(stack[t])
    BY <1>1, <1>2, <1>3 DEF GoodStack, Busy, Depth
  <2>2. stack[t][d].op # "callback"
    BY <1>1, <1>3 DEF Top
  <2>3. stack[t][d].op = "callback" <=> d \in {2, 4}
    BY <1>3, <2>1 DEF GoodStack
  <2> QED BY <2>1, <2>2, <2>3
<1>5. PICK s \in Seq(Frames) : s = SubSeq(stack[t], 1, d - 1)
  <2>1. SubSeq(stack[t], 1, d - 1) \in Seq(Frames)
    BY <1>4, Popped
  <2> QED BY <2>1
<1> Len(s) = d - 1 /\ \A k \in 1..(d - 1) : s[k] = stack[t][k]
  <2>1. d - 1 \in 0..d
    <3>1. d = 1 \/ d = 3
      BY <1>4
    <3> QED BY <3>1
  <2>2. d - 1 \in 0..Len(stack[t])
    BY <1>4, <2>1
  <2> QED BY <1>4, <1>5, <2>2, Popped
<1>6. stack' = [stack EXCEPT ![t] = s]
  BY <1>2, <1>5
<1>7. m'.readers \in [Thread -> Nat] /\ m'.pending \in Thread \cup {Nil}
  BY <1>2, <1>3 DEF Types
<1>8. Readers'
  <2>1. Len(stack'[t]) = d - 1 /\ \A u \in Thread : u # t => stack'[u] = stack[u]
    BY <1>3, <1>5, <1>6 DEF Types
  <2>2. \A u \in Thread : m'.readers[u] = m.readers[u]
    BY <1>2
  <2>3. CallbacksOn(Len(stack'[t])) = CallbacksOn(Len(stack[t]))
    <3>1. CASE d = 1
      BY <1>4, <2>1, <3>1 DEF CallbacksOn
    <3>2. CASE d = 3
      BY <1>4, <2>1, <3>2 DEF CallbacksOn
    <3> QED BY <1>4, <3>1, <3>2
  <2> QED BY <2>1, <2>2, <2>3 DEF Inv, Readers
<1>9. \A k \in 1..Len(s) : GoodFrame(s[k]) /\ (s[k].op = "callback" <=> k \in {2, 4})
  BY <1>3, <1>4, <1>5 DEF GoodStack
<1>10. \A k \in {2, 4} : k <= Len(s) =>
         s[k-1].op \in Predictions /\ s[k-1].pc = Label(s[k-1].op, "token")
  BY <1>3, <1>4, <1>5 DEF GoodStack
<1>11. \A k \in 1..Len(s) :
         /\ Holds(s[k]) => k \in 1..Len(stack[t]) /\ Holds(stack[t][k]) /\ s[k].h = stack[t][k].h
         /\ s[k].c_state # Nil /\ s[k].op # "info" => s[k].c_state = state[s[k].h]
  BY <1>4, <1>5 DEF Inv, Pointers
<1>12. Len(s) \in 0..4
  BY <1>4, <1>5
<1>13. ~Holds(stack[t][d])
  <2>1. ~Holds(Top(t))
    BY <1>2, TopStep DEF StepFacts, Instruction, Holds
  <2> QED BY <1>1, <2>1 DEF Top
<1>14. ASSUME NEW k \in 1..Len(stack[t]), Holds(stack[t][k])
       PROVE  k \in 1..Len(s) /\ Holds(s[k]) /\ s[k].h = stack[t][k].h
  <2>1. k # d
    BY <1>13, <1>14
  <2>2. k \in 1..(d - 1) /\ k \in 1..Len(s)
    BY <1>4, <2>1
  <2>3. s[k] = stack[t][k]
    BY <2>2
  <2> QED BY <1>14, <2>2, <2>3, Zenon
<1>15. \A k \in 1..Len(s) : s[k].c_state # Nil =>
         k \in 1..Len(stack[t]) /\ s[k].c_state = stack[t][k].c_state /\ s[k].h = stack[t][k].h
  BY <1>4, <1>5
<1>16. ~(Len(s) >= 3)
  BY <1>4, <1>5
<1> QED BY <1>2, <1>6, <1>7, <1>8, <1>9, <1>10, <1>11, <1>12, <1>14, <1>15, <1>16, NewStack, ZenonT(60)

\* CallbackCalls: a callback's method is called on the handle the callback is for.
LEMMA CallbackCallsKeeps ==
  ASSUME Inv, NEW t \in Thread, CallbackCalls(t)
  PROVE  Inv' /\ Shape(t)
<1>1. PICK op \in NestedOps :
        stack' = [stack EXCEPT ![t] = <<stack[t][1], Forward(stack[t][2]), Frame(op, Top(t).h)>>]
  BY DEF CallbackCalls
<1>2. /\ Busy(t) /\ Depth(t) = 2 /\ UNCHANGED <<uses, state, heap, mu, m, callbacks>>
      /\ Instruction(Top(t)) = "body"
  BY DEF CallbackCalls, At
<1>3. /\ Types /\ GoodStack(t) /\ StepFacts(Top(t).op, Top(t).pc) /\ Top(t).op = "callback" /\ GoodFrame(Top(t))
      /\ Top(t) \in Frames
  BY <1>2, TopStep DEF Types, StepFacts, Instruction
<1>4. stack[t] \in Seq(Frames) /\ Len(stack[t]) = 2 /\ Top(t) = stack[t][2]
  BY <1>2, <1>3 DEF GoodStack, Depth, Top
<1>5. PICK f \in Frames : f = stack[t][1]
  BY <1>4
<1>6. PICK b \in Frames :
        /\ b = Forward(Top(t)) /\ GoodFrame(b) /\ ~Holds(b) /\ b.op = "callback" /\ b.c_state = Nil
  <2>1. PICK b \in Frames : /\ b = Forward(Top(t)) /\ b.op = "callback" /\ b.h = Top(t).h
                            /\ b.pc = Top(t).pc + 1 /\ b.c_state = Top(t).c_state
    BY <1>2, <1>3, ForwardFrame DEF Frames
  <2>2. Inside["callback"] = {} /\ Locked["callback"] = {}
    BY DEF Inside, Locked
  <2>3. b.c_state = Nil /\ b.pc \in 1..Len(Program[b.op])
    BY <1>2, <1>3, <2>1, <2>2 DEF GoodFrame, StepFacts, Instruction
  <2>4. GoodFrame(b)
    BY <1>3, <2>1, <2>2, <2>3 DEF GoodFrame
  <2> QED BY <2>1, <2>2, <2>3, <2>4 DEF Holds
<1>7. PICK g \in Frames :
        /\ g = Frame(op, Top(t).h) /\ GoodFrame(g) /\ ~Holds(g) /\ g.op # "callback" /\ g.c_state = Nil
        /\ g.op \in NestedOps
  <2>1. Top(t).h \in Handle /\ state[Top(t).h] # "unborn"
    BY <1>3 DEF GoodFrame, Frames
  <2> QED BY <2>1, NewFrame, OpsAssumption
<1>8. PICK s \in Seq(Frames) : s = <<f, b, g>>
  <2>1. <<f, b, g>> \in Seq(Frames)
    OBVIOUS
  <2> QED BY <2>1
<1> Len(s) = 3 /\ s[1] = f /\ s[2] = b /\ s[3] = g
  BY <1>8
<1>9. stack' = [stack EXCEPT ![t] = s]
  BY <1>1, <1>4, <1>5, <1>6, <1>7, <1>8
<1>10. m'.readers \in [Thread -> Nat] /\ m'.pending \in Thread \cup {Nil}
  BY <1>2, <1>3 DEF Types
<1>11. Readers'
  <2>1. Len(stack'[t]) = 3 /\ \A u \in Thread : u # t => stack'[u] = stack[u]
    BY <1>3, <1>8, <1>9 DEF Types
  <2>2. \A u \in Thread : m'.readers[u] = m.readers[u]
    BY <1>2
  <2>3. CallbacksOn(Len(stack'[t])) = CallbacksOn(Len(stack[t]))
    BY <1>4, <2>1 DEF CallbacksOn
  <2> QED BY <2>1, <2>2, <2>3 DEF Inv, Readers
<1>12. \A k \in 1..Len(s) : GoodFrame(s[k]) /\ (s[k].op = "callback" <=> k \in {2, 4})
  BY <1>3, <1>4, <1>5, <1>6, <1>7, <1>8 DEF GoodStack
<1>13. \A k \in {2, 4} : k <= Len(s) =>
         s[k-1].op \in Predictions /\ s[k-1].pc = Label(s[k-1].op, "token")
  BY <1>3, <1>4, <1>5, <1>8 DEF GoodStack
<1>14. \A k \in 1..Len(s) :
         /\ Holds(s[k]) => k \in 1..Len(stack[t]) /\ Holds(stack[t][k]) /\ s[k].h = stack[t][k].h
         /\ s[k].c_state # Nil /\ s[k].op # "info" => s[k].c_state = state[s[k].h]
  <2>1. ASSUME NEW k \in 1..Len(s), k = 2 \/ k = 3 PROVE s[k].c_state = Nil /\ ~Holds(s[k])
    BY <1>6, <1>7, <1>8, <2>1
  <2>2. /\ Holds(s[1]) => 1 \in 1..Len(stack[t]) /\ Holds(stack[t][1]) /\ s[1].h = stack[t][1].h
        /\ s[1].c_state # Nil /\ s[1].op # "info" => s[1].c_state = state[s[1].h]
    BY <1>4, <1>5, <1>8 DEF Inv, Pointers
  <2>3. \A k \in 1..Len(s) : k = 1 \/ k = 2 \/ k = 3
    BY <1>8
  <2> QED BY <2>1, <2>2, <2>3, Zenon
<1>15. Len(s) \in 0..4
  OBVIOUS
<1>16. ~Holds(stack[t][2])
  BY <1>3, <1>4 DEF Holds, Locked
<1>17. ASSUME NEW k \in 1..Len(stack[t]), Holds(stack[t][k])
       PROVE  k \in 1..Len(s) /\ Holds(s[k]) /\ s[k].h = stack[t][k].h
  <2>1. k = 1 /\ 1 \in 1..Len(s)
    BY <1>4, <1>16, <1>17
  <2>2. s[k] = stack[t][k]
    BY <1>5, <2>1
  <2> QED BY <1>17, <2>1, <2>2, Zenon
<1>18. ASSUME NEW k \in 1..Len(s), s[k].c_state # Nil
       PROVE  k \in 1..Len(stack[t]) /\ s[k].c_state = stack[t][k].c_state /\ s[k].h = stack[t][k].h
  <2>1. k = 1 /\ 1 \in 1..Len(stack[t])
    BY <1>4, <1>6, <1>7, <1>18
  <2>2. s[k] = stack[t][k]
    BY <1>5, <2>1
  <2> QED BY <2>1, <2>2, Zenon
<1>19. s[3].op \in NestedOps
  BY <1>7
<1> QED BY <1>2, <1>9, <1>10, <1>11, <1>12, <1>13, <1>14, <1>15, <1>17, <1>18, <1>19, NewStack, ZenonT(60)

\* CallBack: a registered callback is called, for a handle New has returned.
LEMMA CallBackKeeps ==
  ASSUME Inv, NEW t \in Thread, CallBack(t)
  PROVE  Inv' /\ Shape(t)
<1>1. PICK top, cb, wrong : /\ top = Top(t) /\ cb = callbacks[top.c_state]
                            /\ wrong = IF IsRight(t, cb) THEN Jump(top, "token").heard ELSE "wrong"
  OBVIOUS
<1>2. Busy(t) /\ UNCHANGED <<uses, state, heap, mu, callbacks>> /\ Program[top.op][top.pc] = "call"
  BY <1>1 DEF CallBack, At, Instruction
<1>3. /\ Types /\ GoodStack(t) /\ top \in Frames /\ GoodFrame(top)
      /\ top.c_state # Nil /\ top.op # "info" => top.c_state = state[top.h]
      /\ top.op \in Predictions /\ top.op # "callback" /\ Holds(top) /\ top.c_state \in Addr
  <2>1. /\ Types /\ GoodStack(t) /\ top \in Frames /\ GoodFrame(top) /\ StepFacts(top.op, top.pc)
        /\ top.c_state # Nil /\ top.op # "info" => top.c_state = state[top.h]
    BY <1>1, <1>2, TopStep DEF Types
  <2>2. top.op \in Predictions /\ top.op # "callback" /\ Holds(top) /\ top.c_state # Nil
    BY <1>2, <2>1 DEF StepFacts, GoodFrame, Holds, Predictions
  <2> QED BY <2>1, <2>2 DEF Frames
<1>4. PICK f \in Frames :
        /\ f = [Jump(top, "token") EXCEPT !.heard = wrong]
        /\ GoodFrame(f) /\ Holds(f) /\ f.op = top.op /\ f.h = top.h /\ f.pc = Label(top.op, "token")
        /\ f.c_state = top.c_state
  <2>1. /\ Label(top.op, "token") \in 1..Len(Program[top.op])
        /\ Label(top.op, "token") \in Locked[top.op] /\ Label(top.op, "token") \in Inside[top.op]
    BY <1>3, Labels
  <2>2. Label(top.op, "token") \in Nat
    BY <1>3, <2>1, Lengths DEF Frames
  <2>3. wrong \in {"right", "wrong"}
    <3>1. Jump(top, "token").heard = top.heard
      BY <1>3 DEF Jump, Frames
    <3> QED BY <1>1, <1>3, <3>1 DEF Frames
  <2>4. PICK f : f = [top EXCEPT !.pc = Label(top.op, "token"), !.heard = wrong]
    OBVIOUS
  <2>5. /\ f \in Frames /\ f.op = top.op /\ f.h = top.h /\ f.pc = Label(top.op, "token")
        /\ f.c_state = top.c_state
    BY <1>3, <2>2, <2>3, <2>4 DEF Frames
  <2>6. f = [Jump(top, "token") EXCEPT !.heard = wrong]
    BY <1>3, <2>4 DEF Jump, Frames
  <2>7. GoodFrame(f) /\ Holds(f)
    <3>1. f.pc \in 1..Len(Program[f.op]) /\ f.pc \in Inside[f.op] /\ Holds(f) /\ f.c_state # Nil
      BY <1>3, <2>1, <2>5, NilAssumption DEF Holds
    <3>2. state[f.h] # "unborn" /\ f.op \in Ops \cup NestedOps \cup {"callback"}
      BY <1>3, <2>5 DEF GoodFrame
    <3> QED BY <2>5, <3>1, <3>2 DEF GoodFrame
  <2> QED BY <2>5, <2>6, <2>7
<1>5. PICK d \in Nat :
        /\ d = Depth(t) /\ stack[t] \in Seq(Frames) /\ d = Len(stack[t]) /\ d \in 1..Len(stack[t])
        /\ top = stack[t][d] /\ (d = 1 \/ d = 3)
  <2>1. PICK d \in 1..4 : d = Depth(t)
    BY <1>2, <1>3 DEF GoodStack, Busy, Depth
  <2>2. stack[t] \in Seq(Frames) /\ d = Len(stack[t]) /\ d \in 1..Len(stack[t]) /\ top = stack[t][d]
    <3>1. stack[t] \in Seq(Frames) /\ d = Len(stack[t])
      BY <1>3, <2>1 DEF GoodStack, Depth
    <3>2. d \in 1..Len(stack[t])
      <4>1. d \in 1..d
        BY <2>1
      <4>2. 1..Len(stack[t]) = 1..d
        BY <3>1
      <4> QED BY <4>1, <4>2
    <3>3. top = stack[t][d]
      BY <1>1, <2>1 DEF Top
    <3> QED BY <3>1, <3>2, <3>3
  <2>3. stack[t][d].op = "callback" <=> d \in {2, 4}
    BY <1>3, <2>2 DEF GoodStack
  <2>4. d = 1 \/ d = 3
    BY <1>3, <2>1, <2>2, <2>3
  <2> QED BY <2>1, <2>2, <2>4
<1>6. CASE cb = Nil
  <2>1. SetTop(t, f) /\ UNCHANGED m
    BY <1>1, <1>4, <1>6 DEF CallBack
  <2>2. m'.readers = m.readers /\ m'.pending \in Thread \cup {Nil} /\ Entries' /\ DOMAIN callbacks' = Addr
    BY <1>2, <1>3, <2>1 DEF Inv, Types, Entries
  <2>3. /\ f.pc \in 1..Len(Program[f.op]) /\ (f.c_state # Nil <=> f.pc \in Inside[f.op])
        /\ (f.c_state # Nil /\ f.op # "info" => f.c_state = state[f.h])
    BY <1>3, <1>4 DEF GoodFrame
  <2> QED BY <1>1, <1>2, <1>3, <1>4, <2>1, <2>2, <2>3, Moves
<1>7. CASE cb # Nil
  <2>1. /\ stack' = [stack EXCEPT ![t] = SubSeq(stack[t], 1, d - 1) \o <<f, Frame("callback", cb.h)>>]
        /\ m' = [m EXCEPT !.readers[t] = m.readers[t] + 1]
    BY <1>1, <1>4, <1>5, <1>7 DEF CallBack
  <2>2. PICK g \in Frames :
          /\ g = Frame("callback", cb.h) /\ GoodFrame(g) /\ ~Holds(g) /\ g.op = "callback" /\ g.c_state = Nil
    <3>1. cb.h \in Handle /\ state[cb.h] # "unborn"
      BY <1>1, <1>3, <1>7 DEF Inv, Entries
    <3> QED BY <3>1, NewFrame
  <2>3. PICK p \in Seq(Frames) :
          p = SubSeq(stack[t], 1, d - 1) /\ Len(p) = d - 1 /\ \A k \in 1..(d - 1) : p[k] = stack[t][k]
    <3>1. d - 1 \in 0..Len(stack[t])
      BY <1>5
    <3> QED BY <1>5, <3>1, Popped
  <2>4. PICK s \in Seq(Frames) :
          /\ s = p \o <<f, g>> /\ Len(s) = d + 1 /\ s[d] = f /\ s[d + 1] = g
          /\ \A k \in 1..(d - 1) : s[k] = stack[t][k]
    <3>1. p \o <<f, g>> \in Seq(Frames) /\ Len(p \o <<f, g>>) = d + 1
      BY <1>5, <2>3
    <3>2. (p \o <<f, g>>)[d] = f /\ (p \o <<f, g>>)[d + 1] = g
      <4>1. (p \o <<f, g>>)[Len(p) + 1] = f /\ (p \o <<f, g>>)[Len(p) + 2] = g
        OBVIOUS
      <4>2. Len(p) + 1 = d /\ Len(p) + 2 = d + 1
        BY <2>3
      <4> QED BY <4>1, <4>2
    <3>3. \A k \in 1..(d - 1) : (p \o <<f, g>>)[k] = stack[t][k]
      BY <1>5, <2>3
    <3> QED BY <3>1, <3>2, <3>3
  <2>5. stack' = [stack EXCEPT ![t] = s]
    BY <2>1, <2>2, <2>3, <2>4
  <2>6. /\ m'.readers \in [Thread -> Nat] /\ m'.pending \in Thread \cup {Nil}
        /\ m'.readers[t] = m.readers[t] + 1 /\ \A u \in Thread : u # t => m'.readers[u] = m.readers[u]
    BY <1>3, <2>1, SMTT(40) DEF Types
  <2>7. Readers'
    <3>1. Len(stack'[t]) = d + 1 /\ \A u \in Thread : u # t => stack'[u] = stack[u]
      BY <1>3, <2>4, <2>5 DEF Types
    <3>2. CallbacksOn(Len(stack'[t])) = CallbacksOn(Len(stack[t])) + 1
      <4>1. CASE d = 1
        <5>1. Len(stack'[t]) = 2 /\ Len(stack[t]) = 1
          BY <1>5, <3>1, <4>1
        <5> QED BY <5>1 DEF CallbacksOn
      <4>2. CASE d = 3
        <5>1. Len(stack'[t]) = 4 /\ Len(stack[t]) = 3
          BY <1>5, <3>1, <4>2
        <5> QED BY <5>1 DEF CallbacksOn
      <4> QED BY <1>5, <4>1, <4>2
    <3> QED BY <2>6, <3>1, <3>2 DEF Inv, Readers
  <2>8. \A k \in 1..Len(s) : \/ k \in 1..(d - 1) /\ k \in 1..Len(stack[t]) /\ s[k] = stack[t][k]
                             \/ k = d /\ s[k] = f
                             \/ k = d + 1 /\ s[k] = g
    BY <1>5, <2>4, SMTT(40)
  <2> d \notin {2, 4} /\ d + 1 \in {2, 4}
    <3>1. d = 1 \/ d = 3
      BY <1>5
    <3> QED BY <3>1
  <2>9. \A k \in 1..Len(s) : GoodFrame(s[k]) /\ (s[k].op = "callback" <=> k \in {2, 4})
    <3> SUFFICES ASSUME NEW k \in 1..Len(s) PROVE GoodFrame(s[k]) /\ (s[k].op = "callback" <=> k \in {2, 4})
      OBVIOUS
    <3>1. CASE k \in 1..(d - 1) /\ k \in 1..Len(stack[t]) /\ s[k] = stack[t][k]
      BY <1>3, <3>1 DEF GoodStack
    <3>2. CASE k = d /\ s[k] = f
      BY <1>3, <1>4, <3>2
    <3>3. CASE k = d + 1 /\ s[k] = g
      BY <2>2, <3>3
    <3> QED BY <2>8, <3>1, <3>2, <3>3
  <2>10. ASSUME NEW k \in {2, 4}, k <= Len(s)
         PROVE  s[k-1].op \in Predictions /\ s[k-1].pc = Label(s[k-1].op, "token")
    <3>1. CASE k = d + 1
      <4>1. k - 1 = d
        BY <3>1
      <4> QED BY <1>3, <1>4, <2>4, <4>1
    <3>2. CASE k = 2 /\ d = 3
      BY <1>3, <1>5, <2>4, <3>2 DEF GoodStack
    <3>3. k = d + 1 \/ (k = 2 /\ d = 3)
      <4>1. d = 1 \/ d = 3
        BY <1>5
      <4> QED BY <2>4, <2>10, <4>1
    <3> QED BY <3>1, <3>2, <3>3
  <2>11. \A k \in 1..Len(s) :
           /\ Holds(s[k]) => k \in 1..Len(stack[t]) /\ Holds(stack[t][k]) /\ s[k].h = stack[t][k].h
           /\ s[k].c_state # Nil /\ s[k].op # "info" => s[k].c_state = state[s[k].h]
    <3> SUFFICES ASSUME NEW k \in 1..Len(s)
                 PROVE  /\ Holds(s[k]) => k \in 1..Len(stack[t]) /\ Holds(stack[t][k]) /\ s[k].h = stack[t][k].h
                        /\ s[k].c_state # Nil /\ s[k].op # "info" => s[k].c_state = state[s[k].h]
      OBVIOUS
    <3>1. CASE k \in 1..(d - 1) /\ k \in 1..Len(stack[t]) /\ s[k] = stack[t][k]
      BY <3>1 DEF Inv, Pointers
    <3>2. CASE k = d /\ s[k] = f
      BY <1>3, <1>4, <1>5, <3>2
    <3>3. CASE k = d + 1 /\ s[k] = g
      BY <2>2, <3>3
    <3> QED BY <2>8, <3>1, <3>2, <3>3
  <2>12. Len(s) \in 0..4
    BY <1>5, <2>4
  <2>13. ASSUME NEW k \in 1..Len(stack[t])
         PROVE  k \in 1..(d - 1) \/ k = d
    BY <1>5
  <2>14. \A k \in 1..(d - 1) : k \in 1..Len(s) /\ k \in 1..Len(stack[t]) /\ s[k] = stack[t][k]
    BY <1>5, <2>4
  <2>15. d \in 1..Len(s) /\ s[d] = f /\ f.h = stack[t][d].h /\ f.c_state = stack[t][d].c_state /\ d \in 1..Len(stack[t])
    BY <1>4, <1>5, <2>4
  <2>16. ASSUME NEW k \in 1..Len(stack[t]), Holds(stack[t][k])
         PROVE  k \in 1..Len(s) /\ Holds(s[k]) /\ s[k].h = stack[t][k].h
    BY <1>4, <2>13, <2>14, <2>15, <2>16, Zenon
  <2>17. ASSUME NEW k \in 1..Len(s), s[k].c_state # Nil
         PROVE  k \in 1..Len(stack[t]) /\ s[k].c_state = stack[t][k].c_state /\ s[k].h = stack[t][k].h
    BY <2>2, <2>8, <2>14, <2>15, <2>17, Zenon
  <2>18. ASSUME Len(s) >= 3 PROVE Len(stack[t]) >= 3 /\ s[3].op = stack[t][3].op
    <3>1. d = 3
      BY <1>5, <2>4, <2>18
    <3>2. s[d].op = stack[t][d].op
      BY <1>4, <1>5, <2>4, Zenon
    <3>3. Len(stack[t]) >= 3
      BY <1>5, <3>1
    <3> QED BY <3>1, <3>2, <3>3
  <2> QED BY <1>2, <2>5, <2>6, <2>7, <2>9, <2>10, <2>11, <2>12, <2>16, <2>17, <2>18, NewStack, ZenonT(60)
<1> QED BY <1>6, <1>7

\* Answer: the callback's prediction goes on, or ends.
LEMMA AnswerKeeps ==
  ASSUME Inv, NEW t \in Thread, Answer(t)
  PROVE  Inv' /\ Shape(t)
<1>1. /\ Busy(t) /\ UNCHANGED <<uses, state, heap, mu, callbacks>> /\ Instruction(Top(t)) = "answer"
      /\ m' = [m EXCEPT !.readers[t] = m.readers[t] - 1]
  BY DEF Answer, At, RUnlock
<1>2. Types /\ GoodStack(t) /\ Top(t).op = "callback"
  BY <1>1, TopStep DEF Types, StepFacts, Instruction
<1>3. PICK d \in Nat :
        /\ d = Depth(t) /\ stack[t] \in Seq(Frames) /\ d = Len(stack[t]) /\ d \in 1..Len(stack[t])
        /\ (d = 2 \/ d = 4)
  <2>1. PICK d \in 1..4 : d = Depth(t)
    BY <1>1, <1>2 DEF GoodStack, Busy, Depth
  <2>2. stack[t] \in Seq(Frames) /\ d = Len(stack[t]) /\ d \in 1..Len(stack[t]) /\ Top(t) = stack[t][d]
    <3>1. stack[t] \in Seq(Frames) /\ d = Len(stack[t])
      BY <1>2, <2>1 DEF GoodStack, Depth
    <3>2. d \in 1..Len(stack[t])
      <4>1. d \in 1..d
        BY <2>1
      <4>2. 1..Len(stack[t]) = 1..d
        BY <3>1
      <4> QED BY <4>1, <4>2
    <3>3. Top(t) = stack[t][d]
      BY <2>1 DEF Top
    <3> QED BY <3>1, <3>2, <3>3
  <2>3. stack[t][d].op = "callback" <=> d \in {2, 4}
    BY <1>2, <2>2 DEF GoodStack
  <2>4. d = 2 \/ d = 4
    BY <1>2, <2>2, <2>3
  <2> QED BY <2>1, <2>2, <2>4
<1>4. d - 1 \in 1..Len(stack[t]) /\ d - 2 \in 0..Len(stack[t]) /\ d \in {2, 4} /\ d - 1 \notin {2, 4}
      /\ d - 2 \in Nat /\ (d - 2) + 1 = d - 1
  <2>1. CASE d = 2
    BY <1>3, <2>1
  <2>2. CASE d = 4
    BY <1>3, <2>2
  <2> QED BY <1>3, <2>1, <2>2
<1>5. PICK below \in Frames :
        /\ below = stack[t][d - 1] /\ GoodFrame(below) /\ below.op \in Predictions
        /\ below.pc = Label(below.op, "token") /\ below.op # "callback"
        /\ below.c_state # Nil /\ below.op # "info" => below.c_state = state[below.h]
  <2>1. stack[t][d - 1] \in Frames /\ GoodFrame(stack[t][d - 1])
    BY <1>2, <1>3, <1>4, SMTT(40) DEF GoodStack
  <2>2. stack[t][d - 1].op \in Predictions /\ stack[t][d - 1].pc = Label(stack[t][d - 1].op, "token")
    <3>1. CASE d = 2
      BY <1>2, <1>3, <3>1 DEF GoodStack
    <3>2. CASE d = 4
      BY <1>2, <1>3, <3>2 DEF GoodStack
    <3> QED BY <1>3, <3>1, <3>2
  <2>3. stack[t][d - 1].c_state # Nil /\ stack[t][d - 1].op # "info" => stack[t][d - 1].c_state = state[stack[t][d - 1].h]
    BY <1>4 DEF Inv, Pointers
  <2> QED BY <2>1, <2>2, <2>3 DEF Predictions
<1>6. PICK f : f \in {below, Jump(below, "end")} /\ stack' = [stack EXCEPT ![t] = SubSeq(stack[t], 1, d - 2) \o <<f>>]
  BY <1>3, <1>5 DEF Answer
<1>7. /\ f \in Frames /\ GoodFrame(f) /\ f.op = below.op /\ f.h = below.h /\ f.c_state = below.c_state
      /\ Holds(f) /\ Holds(below)
  <2>1. /\ Label(below.op, "token") \in Locked[below.op]
        /\ Label(below.op, "end") \in 1..Len(Program[below.op])
        /\ Label(below.op, "end") \in Locked[below.op] /\ Label(below.op, "end") \in Inside[below.op]
        /\ Label(below.op, "token") \in Inside[below.op]
    BY <1>5, Labels
  <2>2. Holds(below)
    BY <1>5, <2>1 DEF Holds
  <2>3. CASE f = below
    BY <1>5, <2>2, <2>3
  <2>4. CASE f = Jump(below, "end")
    <3>1. Label(below.op, "end") \in Nat
      BY <1>5, <2>1, Lengths DEF Frames
    <3>2. /\ f \in Frames /\ f.op = below.op /\ f.h = below.h /\ f.c_state = below.c_state
          /\ f.pc = Label(below.op, "end")
      BY <1>5, <2>4, <3>1 DEF Jump, Frames
    <3>3. f.pc \in 1..Len(Program[f.op]) /\ f.pc \in Inside[f.op] /\ Holds(f) /\ f.c_state # Nil
      BY <1>5, <2>1, <3>2 DEF Holds, GoodFrame
    <3>4. state[f.h] # "unborn" /\ f.op \in Ops \cup NestedOps \cup {"callback"}
      BY <1>5, <3>2 DEF GoodFrame
    <3> QED BY <2>2, <3>2, <3>3, <3>4 DEF GoodFrame
  <2> QED BY <1>6, <2>3, <2>4
<1>8. PICK p \in Seq(Frames) :
        p = SubSeq(stack[t], 1, d - 2) /\ Len(p) = d - 2 /\ \A k \in 1..(d - 2) : p[k] = stack[t][k]
  BY <1>3, <1>4, Popped
<1>9. PICK s \in Seq(Frames) :
        /\ s = p \o <<f>> /\ Len(s) = d - 1 /\ s[d - 1] = f
        /\ \A k \in 1..(d - 2) : s[k] = stack[t][k]
  <2>1. p \o <<f>> \in Seq(Frames) /\ Len(p \o <<f>>) = Len(p) + 1 /\ (p \o <<f>>)[Len(p) + 1] = f
    BY <1>7
  <2>2. Len(p) + 1 = d - 1
    BY <1>4, <1>8
  <2>3. \A k \in 1..(d - 2) : (p \o <<f>>)[k] = stack[t][k]
    BY <1>4, <1>7, <1>8
  <2> QED BY <2>1, <2>2, <2>3
<1>10. stack' = [stack EXCEPT ![t] = s]
  BY <1>6, <1>8, <1>9
<1>11. m.readers[t] = CallbacksOn(d) /\ CallbacksOn(d) = CallbacksOn(d - 1) + 1 /\ CallbacksOn(d - 1) \in Nat
  <2>1. CallbacksOn(1) = 0 /\ CallbacksOn(2) = 1 /\ CallbacksOn(3) = 1 /\ CallbacksOn(4) = 2
    BY DEF CallbacksOn
  <2>2. m.readers[t] = CallbacksOn(d)
    BY <1>3 DEF Inv, Readers
  <2>3. CASE d = 2
    BY <2>1, <2>2, <2>3
  <2>4. CASE d = 4
    BY <2>1, <2>2, <2>4
  <2> QED BY <1>3, <2>3, <2>4
<1>12. /\ m'.readers \in [Thread -> Nat] /\ m'.pending \in Thread \cup {Nil}
       /\ m'.readers[t] = CallbacksOn(d - 1) /\ \A u \in Thread : u # t => m'.readers[u] = m.readers[u]
  BY <1>1, <1>2, <1>11, SMTT(40) DEF Types
<1>13. Readers'
  <2>1. Len(stack'[t]) = d - 1 /\ \A u \in Thread : u # t => stack'[u] = stack[u]
    BY <1>2, <1>9, <1>10 DEF Types
  <2> QED BY <1>12, <2>1 DEF Inv, Readers
<1>14. \A k \in 1..Len(s) : \/ k \in 1..(d - 2) /\ k \in 1..Len(stack[t]) /\ s[k] = stack[t][k]
                            \/ k = d - 1 /\ s[k] = f
  BY <1>4, <1>9
<1>15. \A k \in 1..Len(s) : GoodFrame(s[k]) /\ (s[k].op = "callback" <=> k \in {2, 4})
  <2> SUFFICES ASSUME NEW k \in 1..Len(s) PROVE GoodFrame(s[k]) /\ (s[k].op = "callback" <=> k \in {2, 4})
    OBVIOUS
  <2>1. CASE k \in 1..(d - 2) /\ k \in 1..Len(stack[t]) /\ s[k] = stack[t][k]
    BY <1>2, <2>1 DEF GoodStack
  <2>2. CASE k = d - 1 /\ s[k] = f
    BY <1>4, <1>5, <1>7, <2>2
  <2> QED BY <1>14, <2>1, <2>2
<1>16. ASSUME NEW k \in {2, 4}, k <= Len(s)
       PROVE  s[k-1].op \in Predictions /\ s[k-1].pc = Label(s[k-1].op, "token")
  <2>1. d = 4 /\ k = 2
    <3>1. CASE d = 2
      BY <1>9, <1>16, <3>1
    <3>2. CASE d = 4
      BY <1>9, <1>16, <3>2
    <3> QED BY <1>3, <3>1, <3>2
  <2> QED BY <1>2, <1>3, <1>9, <2>1 DEF GoodStack
<1>17. \A k \in 1..Len(s) :
         /\ Holds(s[k]) => k \in 1..Len(stack[t]) /\ Holds(stack[t][k]) /\ s[k].h = stack[t][k].h
         /\ s[k].c_state # Nil /\ s[k].op # "info" => s[k].c_state = state[s[k].h]
  <2> SUFFICES ASSUME NEW k \in 1..Len(s)
               PROVE  /\ Holds(s[k]) => k \in 1..Len(stack[t]) /\ Holds(stack[t][k]) /\ s[k].h = stack[t][k].h
                      /\ s[k].c_state # Nil /\ s[k].op # "info" => s[k].c_state = state[s[k].h]
    OBVIOUS
  <2>1. CASE k \in 1..(d - 2) /\ k \in 1..Len(stack[t]) /\ s[k] = stack[t][k]
    BY <2>1 DEF Inv, Pointers
  <2>2. CASE k = d - 1 /\ s[k] = f
    BY <1>4, <1>5, <1>7, <2>2
  <2> QED BY <1>14, <2>1, <2>2
<1>18. Len(s) \in 0..4
  <2>1. CASE d = 2
    BY <1>9, <2>1
  <2>2. CASE d = 4
    BY <1>9, <2>2
  <2> QED BY <1>3, <2>1, <2>2
<1>19. ~Holds(stack[t][d])
  BY <1>2, <1>3 DEF Holds, Locked, Top
<1>20. ASSUME NEW k \in 1..Len(stack[t]), Holds(stack[t][k])
       PROVE  k \in 1..Len(s) /\ Holds(s[k]) /\ s[k].h = stack[t][k].h
  <2>1. k # d
    BY <1>19, <1>20
  <2>2. k \in 1..(d - 2) \/ k = d - 1
    BY <1>3, <2>1
  <2>3. CASE k \in 1..(d - 2)
    <3>1. k \in 1..Len(s) /\ s[k] = stack[t][k]
      BY <1>4, <1>9, <2>3
    <3> QED BY <1>20, <3>1, Zenon
  <2>4. CASE k = d - 1
    <3>1. k \in 1..Len(s) /\ s[k] = f /\ stack[t][k] = below
      BY <1>4, <1>5, <1>9, <2>4
    <3> QED BY <1>7, <3>1, Zenon
  <2> QED BY <2>2, <2>3, <2>4
<1>21. ASSUME NEW k \in 1..Len(s), s[k].c_state # Nil
       PROVE  k \in 1..Len(stack[t]) /\ s[k].c_state = stack[t][k].c_state /\ s[k].h = stack[t][k].h
  BY <1>4, <1>5, <1>7, <1>14, Zenon
<1>22. ASSUME Len(s) >= 3 PROVE Len(stack[t]) >= 3 /\ s[3].op = stack[t][3].op
  <2>1. d = 4
    <3>1. d # 2
      BY <1>9, <1>22
    <3> QED BY <1>3, <3>1
  <2>2. s[3] = f /\ stack[t][3] = below /\ Len(stack[t]) >= 3
    BY <1>3, <1>5, <1>9, <2>1
  <2> QED BY <1>7, <2>2
<1> QED BY <1>1, <1>10, <1>12, <1>13, <1>15, <1>16, <1>17, <1>18, <1>20, <1>21, <1>22, NewStack, ZenonT(60)

\* New takes an address that no handle has.
LEMMA NewKeeps ==
  ASSUME Inv, NEW t \in Thread, New(t)
  PROVE  Inv'
<1>1. PICK h \in uses[t], a \in Addr :
        /\ state[h] = "unborn" /\ heap[a] = Nil
        /\ state' = [state EXCEPT ![h] = a] /\ heap' = [heap EXCEPT ![a] = h]
  BY DEF New
<1>2. UNCHANGED <<uses, mu, m, callbacks, stack>> /\ Types
  BY DEF New, Inv
<1>3. h \in Handle
  BY <1>2, SharingsAssumption DEF Types
<1>4. /\ state' \in [Handle -> Addr \cup {Nil, "unborn"}] /\ state'[h] = a /\ a # "unborn"
      /\ \A g \in Handle : g # h => state'[g] = state[g]
  BY <1>1, <1>2, <1>3, NilAssumption DEF Types
<1>5. heap' \in [Addr -> Handle \cup {Nil}] /\ heap'[a] = h /\ \A b \in Addr : b # a => heap'[b] = heap[b]
  BY <1>1, <1>2, <1>3 DEF Types
<1>6. \A g \in Handle : state[g] # "unborn" => state'[g] = state[g] /\ g # h
  BY <1>1, <1>4
<1>7. \A f : GoodFrame(f) => GoodFrame(f)'
  BY <1>6 DEF GoodFrame, Frames
<1>8. \A u \in Thread : GoodStack(u)'
  BY <1>2, <1>7, SMTT(40) DEF Types, GoodStack
<1>9. Types' /\ Readers' /\ Locks'
  <2>1. Types'
    BY <1>2, <1>4, <1>5, <1>8 DEF Types
  <2>2. Readers'
    BY <1>2 DEF Inv, Readers
  <2>3. Locks'
    BY <1>2 DEF Inv, Locks, Holds
  <2> QED BY <2>1, <2>2, <2>3
<1>10. Entries'
  BY <1>2, <1>6 DEF Inv, Entries
<1>11. Pointers'
  <2>1. ASSUME NEW g \in Handle, state'[g] \in Addr PROVE heap'[state'[g]] = g
    <3>1. CASE g = h
      BY <1>4, <1>5, <3>1
    <3>2. CASE g # h
      <4>1. state'[g] = state[g] /\ heap[state[g]] = g
        BY <1>4, <2>1, <3>2 DEF Inv, Pointers
      <4>2. state[g] # a
        BY <1>1, <4>1, NilAssumption
      <4> QED BY <1>5, <2>1, <4>1, <4>2
    <3> QED BY <3>1, <3>2
  <2>2. ASSUME NEW u \in Thread, NEW k \in 1..Len(stack[u])
        PROVE  state'[stack[u][k].h] = state[stack[u][k].h]
    <3>1. GoodFrame(stack[u][k])
      BY <1>2 DEF Types, GoodStack
    <3> QED BY <1>6, <3>1 DEF GoodFrame, Frames
  <2> QED BY <1>2, <2>1, <2>2 DEF Inv, Pointers
<1> QED BY <1>9, <1>10, <1>11 DEF Inv

---------------------------------------------------------------------------
\* Every step keeps the invariant.
LEMMA NextKeeps == Inv /\ [Next]_vars => Inv'
<1> SUFFICES ASSUME Inv, [Next]_vars PROVE Inv'
  OBVIOUS
<1>1. CASE UNCHANGED vars
  BY <1>1 DEF vars, Inv, Types, Readers, Entries, Locks, Pointers, GoodStack, GoodFrame, Holds
<1>2. ASSUME NEW t \in Thread, Step(t) PROVE Inv'
  <2>1. CASE Lock(t)
    BY <2>1, LockKeeps
  <2>2. CASE Unlock(t)
    BY <2>2, UnlockKeeps
  <2>3. CASE Announce(t) \/ Store(t) \/ Erase(t) \/ ReadKey(t) \/ CallbackRuns(t)
    BY <2>3, PlainKeeps
  <2>4. CASE Check(t) \/ Begin(t) \/ End(t) \/ Token(t)
    BY <2>4, EnterKeeps
  <2>5. CASE FreeModel(t)
    BY <2>5, FreeModelKeeps
  <2>6. CASE Return(t)
    BY <2>6, ReturnKeeps
  <2>7. CASE CallBack(t)
    BY <2>7, CallBackKeeps
  <2>8. CASE CallbackCalls(t)
    BY <2>8, CallbackCallsKeeps
  <2>9. CASE Answer(t)
    BY <2>9, AnswerKeeps
  <2> QED BY <1>2, <2>1, <2>2, <2>3, <2>4, <2>5, <2>6, <2>7, <2>8, <2>9 DEF Step
<1>3. CASE Next
  <2>1. CASE Done
    BY <1>1, <2>1 DEF Done
  <2>2. ASSUME NEW t \in Thread, Start(t) \/ New(t) \/ Step(t) PROVE Inv'
    BY <1>2, <2>2, StartKeeps, NewKeeps
  <2> QED BY <1>3, <2>1, <2>2 DEF Next
<1> QED BY <1>1, <1>3

\* Inv is an invariant of every run.
LEMMA Invariance == Spec => []Inv
  BY InitHolds, NextKeeps, PTL DEF Spec

\* Types are kept: no lock, pointer or stack ever leaves its set, and no method
\* runs past its end.
THEOREM WellTyped == Spec => []TypeOK
<1>1. Inv => TypeOK
  <2> SUFFICES ASSUME Inv PROVE TypeOK
    OBVIOUS
  <2>1. ASSUME NEW t \in Thread, NEW k \in 1..Depth(t)
        PROVE  /\ stack[t][k].op \in DOMAIN Program
               /\ stack[t][k].pc \in 1..Len(Program[stack[t][k].op])
    <3>1. GoodFrame(stack[t][k])
      BY <2>1 DEF Inv, Types, GoodStack, Depth
    <3>2. Methods = DOMAIN Program
      BY DEF Methods, Program
    <3> QED BY <3>1, <3>2 DEF GoodFrame, Frames
  <2> QED BY <2>1 DEF Inv, Types, TypeOK
<1> QED BY <1>1, Invariance, PTL

\* Two calls that change one context are never both inside the C side
\* (l.mu.Lock in every such method of llama.go): Predict, Eval, SaveState and the
\* others exclude each other, however handles are shared.
THEOREM OneAtATime == Spec => []ContextExclusive
<1>1. Inv => ContextExclusive
  <2> SUFFICES ASSUME Inv, NEW d \in InC, NEW e \in InC, CallAt(d).c_state = CallAt(e).c_state,
                      CallAt(d).op # "info", CallAt(e).op # "info"
               PROVE  d = e
    BY DEF ContextExclusive
  <2>1. PICK u \in Thread, j \in 1..3 : d = <<u, j>> /\ j <= Len(stack[u]) /\ stack[u][j].c_state # Nil
    BY DEF InC, Depth
  <2>2. PICK v \in Thread, k \in 1..3 : e = <<v, k>> /\ k <= Len(stack[v]) /\ stack[v][k].c_state # Nil
    BY DEF InC, Depth
  <2>3. CallAt(d) = stack[u][j] /\ CallAt(e) = stack[v][k]
    BY <2>1, <2>2 DEF CallAt
  <2>4. Len(stack[u]) \in 0..4 /\ Len(stack[v]) \in 0..4
    BY DEF Inv, Types, GoodStack
  <2>5. j \in 1..Len(stack[u]) /\ k \in 1..Len(stack[v])
    BY <2>1, <2>2, <2>4
  <2>6. /\ Holds(stack[u][j]) /\ stack[u][j].h \in Handle /\ mu[stack[u][j].h] = u
        /\ stack[u][j].c_state = state[stack[u][j].h] /\ state[stack[u][j].h] \in Addr
    BY <2>1, <2>3, <2>5, WorkersHold
  <2>7. /\ Holds(stack[v][k]) /\ stack[v][k].h \in Handle /\ mu[stack[v][k].h] = v
        /\ stack[v][k].c_state = state[stack[v][k].h] /\ state[stack[v][k].h] \in Addr
    BY <2>2, <2>3, <2>5, WorkersHold
  <2>8. stack[u][j].h = stack[v][k].h
    BY <2>3, <2>6, <2>7 DEF Inv, Pointers
  <2>9. u = v
    BY <2>6, <2>7, <2>8
  <2>10. j = k
    BY <2>5, <2>6, <2>7, <2>8, <2>9 DEF Inv, Locks
  <2> QED BY <2>1, <2>2, <2>9, <2>10
<1> QED BY <1>1, Invariance, PTL

\* A context is never freed under a call that is inside the C side with it, nor its
\* address handed out again, as long as nobody calls a method that does not take
\* l.mu (ModelInfo and its like, llama.go): with those the property fails.
THEOREM FreeWaits ==
  ASSUME "info" \notin Ops \cup NestedOps
  PROVE  Spec => []NoUseAfterFree
<1>1. Inv => NoUseAfterFree
  <2> SUFFICES ASSUME Inv, NEW d \in InC PROVE heap[CallAt(d).c_state] = CallAt(d).h
    BY DEF NoUseAfterFree
  <2>1. PICK u \in Thread, k \in 1..3 : d = <<u, k>> /\ k <= Len(stack[u]) /\ stack[u][k].c_state # Nil
    BY DEF InC, Depth
  <2>2. Len(stack[u]) \in 0..4
    BY DEF Inv, Types, GoodStack
  <2>3. k \in 1..Len(stack[u]) /\ CallAt(d) = stack[u][k]
    BY <2>1, <2>2 DEF CallAt
  <2>4. GoodFrame(stack[u][k])
    BY <2>3 DEF Inv, Types, GoodStack
  <2>5. stack[u][k].op # "info"
    BY <2>4 DEF GoodFrame
  <2>6. /\ stack[u][k].h \in Handle /\ stack[u][k].c_state = state[stack[u][k].h]
        /\ state[stack[u][k].h] \in Addr
    BY <2>1, <2>3, <2>5, WorkersHold
  <2> QED BY <2>3, <2>6 DEF Inv, Pointers
<1> QED BY <1>1, Invariance, PTL

---------------------------------------------------------------------------
(* No deadlock.  l.mu is always held by a call, and only one further down  *)
(* the stack than its own callback waits for anything but m; whoever has   *)
(* announced itself to m is about to write the map; and a goroutine that   *)
(* reads the map is in its callback, or in a method the callback calls.    *)
(* When those take neither lock the callback can go on, then the writer,   *)
(* then the others.                                                        *)

\* A goroutine whose next step waits for another one.
Blocked(t) ==
    \/ At(t, "lock") /\ mu[Top(t).h] # Nil
    \/ (At(t, "announce") \/ At(t, "call")) /\ m.pending # Nil
    \/ (At(t, "store") \/ At(t, "erase")) /\ ~NoReaders

\* While methods are in progress, one of them can go on.
NoDeadlock == (\E t \in Thread : Busy(t)) => \E t \in Thread : Busy(t) /\ ~Blocked(t)

Owners == \A h \in Handle : \A u \in Thread : mu[h] = u =>
             \E k \in 1..Len(stack[u]) : Holds(stack[u][k]) /\ stack[u][k].h = h
Writer == \A u \in Thread : m.pending = u => At(u, "store") \/ At(u, "erase")
NestedFrames == \A t \in Thread : Len(stack[t]) >= 3 => stack[t][3].op \in NestedOps
Turns == Inv /\ Owners /\ Writer /\ NestedFrames

\* A stack with a call on it is not empty.
LEMMA NotEmpty ==
  ASSUME NEW q, Len(q) # 0
  PROVE  q # <<>>
<1>1. Len(<<>>) = 0
  OBVIOUS
<1> QED BY <1>1, Zenon

\* m.Lock is followed by the change of the map; and ModelInfo takes no lock.
LEMMA Waiting ==
  ASSUME NEW op \in Methods, NEW pc \in 1..Len(Program[op])
  PROVE  /\ Program[op][pc] = "announce" => Program[op][pc + 1] \in {"store", "erase"}
         /\ op = "info" => Program[op][pc] \in {"check", "begin", "end", "return"}
<1>1. CASE op = "predict_cb"
  <2>1. Program[op] = <<"read_set", "announce", "store", "read_clear", "lock", "begin",
                        "token", "call", "end", "unlock", "announce", "erase", "return">>
    BY <1>1 DEF Program
  <2>2. pc \in 1..13
    BY <2>1
  <2> QED BY <1>1, <2>1, <2>2
<1>2. CASE op = "predict"
  <2>1. Program[op] = <<"lock", "begin", "token", "call", "end", "unlock", "return">>
    BY <1>2 DEF Program
  <2>2. pc \in 1..7
    BY <2>1
  <2> QED BY <1>2, <2>1, <2>2
<1>3. CASE op = "locked"
  <2>1. Program[op] = <<"lock", "begin", "end", "unlock", "return">>
    BY <1>3 DEF Program
  <2>2. pc \in 1..5
    BY <2>1
  <2> QED BY <1>3, <2>1, <2>2
<1>4. CASE op = "info"
  <2>1. Program[op] = <<"check", "begin", "end", "return">>
    BY <1>4 DEF Program
  <2>2. pc \in 1..4
    BY <2>1
  <2> QED BY <1>4, <2>1, <2>2
<1>5. CASE op = "set_callback"
  <2>1. Program[op] = <<"read_set", "announce", "store", "return">>
    BY <1>5 DEF Program
  <2>2. pc \in 1..4
    BY <2>1
  <2> QED BY <1>5, <2>1, <2>2
<1>6. CASE op = "free"
  <2>1. Program[op] = <<"lock", "check", "announce", "erase", "free", "unlock", "return">>
    BY <1>6 DEF Program
  <2>2. pc \in 1..7
    BY <2>1
  <2> QED BY <1>6, <2>1, <2>2
<1>7. CASE op = "callback"
  <2>1. Program[op] = <<"body", "answer">>
    BY <1>7 DEF Program
  <2>2. pc \in 1..2
    BY <2>1
  <2> QED BY <1>7, <2>1, <2>2
<1> QED BY <1>1, <1>2, <1>3, <1>4, <1>5, <1>6, <1>7 DEF Methods

\* A step of this shape keeps Turns when it gives l.mu only to a call that holds it
\* afterwards, and announces only a goroutine that is then about to write.
LEMMA TurnsKept ==
  ASSUME Turns, Inv', NEW t \in Thread, Shape(t),
         \A h \in Handle : mu'[h] = mu[h] \/ mu'[h] = Nil \/ mu'[h] = t,
         \A h \in Handle : mu'[h] = t /\ mu[h] # t =>
            \E k \in 1..Len(stack'[t]) : Holds(stack'[t][k]) /\ stack'[t][k].h = h,
         \/ m'.pending = Nil
         \/ m'.pending = m.pending /\ m.pending # t
         \/ m'.pending = t /\ (At(t, "store")' \/ At(t, "erase")')
  PROVE  Turns'
<1>1. \A u \in Thread : u # t => stack'[u] = stack[u]
  BY DEF Shape
<1>2. Owners'
  <2> SUFFICES ASSUME NEW h \in Handle, NEW u \in Thread, mu'[h] = u
               PROVE  \E k \in 1..Len(stack'[u]) : Holds(stack'[u][k]) /\ stack'[u][k].h = h
    BY DEF Owners, Holds
  <2>1. CASE u # t
    <3>1. mu[h] = u
      BY <2>1, NilAssumption
    <3>2. PICK k \in 1..Len(stack[u]) : Holds(stack[u][k]) /\ stack[u][k].h = h
      BY <3>1 DEF Turns, Owners
    <3> QED BY <1>1, <2>1, <3>2
  <2>2. CASE u = t /\ mu[h] # t
    BY <2>2
  <2>3. CASE u = t /\ mu[h] = t
    <3>1. PICK k \in 1..Len(stack[t]) : Holds(stack[t][k]) /\ stack[t][k].h = h
      BY <2>3 DEF Turns, Owners
    <3>2. k \in 1..Len(stack'[t]) /\ Holds(stack'[t][k]) /\ stack'[t][k].h = stack[t][k].h
      BY <2>3, <3>1 DEF Shape
    <3> QED BY <2>3, <3>1, <3>2
  <2> QED BY <2>1, <2>2, <2>3
<1>3. Writer'
  <2> SUFFICES ASSUME NEW u \in Thread, m'.pending = u PROVE At(u, "store")' \/ At(u, "erase")'
    BY DEF Writer
  <2>1. CASE u = t
    BY <2>1, NilAssumption
  <2>2. CASE u # t
    <3>1. At(u, "store") \/ At(u, "erase")
      BY <2>2, NilAssumption DEF Turns, Writer
    <3>2. stack'[u] = stack[u]
      BY <1>1, <2>2
    <3> QED BY <3>1, <3>2 DEF At, Busy, Instruction, Top, Depth
  <2> QED BY <2>1, <2>2
<1>4. NestedFrames'
  <2> SUFFICES ASSUME NEW u \in Thread, Len(stack'[u]) >= 3 PROVE stack'[u][3].op \in NestedOps
    BY DEF NestedFrames
  <2>1. CASE u = t
    BY <2>1 DEF Shape, Turns, NestedFrames
  <2>2. CASE u # t
    BY <1>1, <2>2 DEF Turns, NestedFrames
  <2> QED BY <2>1, <2>2
<1> QED BY <1>2, <1>3, <1>4 DEF Turns

\* Every step has the shape, and gives and takes turns in that way.
LEMMA TurnsNext == Turns /\ [Next]_vars => Turns'
<1> SUFFICES ASSUME Turns, [Next]_vars PROVE Turns'
  OBVIOUS
<1> Inv /\ Inv'
  BY NextKeeps DEF Turns
<1>1. CASE UNCHANGED vars
  <2>1. Owners' /\ NestedFrames'
    BY <1>1 DEF Turns, Owners, NestedFrames, Holds, vars
  <2>2. Writer'
    BY <1>1 DEF Turns, Writer, At, Busy, Instruction, Top, Depth, vars
  <2> QED BY <2>1, <2>2 DEF Turns
<1>2. ASSUME NEW t \in Thread, ~At(t, "store"), ~At(t, "erase") PROVE m.pending # t
  BY <1>2 DEF Turns, Writer
<1>3. ASSUME NEW t \in Thread, Busy(t), Instruction(Top(t)) \notin {"store", "erase"} PROVE m.pending # t
  BY <1>2, <1>3 DEF At
<1>4. ASSUME NEW t \in Thread, mu' = mu, Shape(t), m'.pending = m.pending, m.pending # t
      PROVE  Turns'
  BY <1>4, TurnsKept
<1>5. ASSUME NEW t \in Thread, Step(t) PROVE Turns'
  <2>1. CASE Lock(t)
    <3>1. /\ Busy(t) /\ SetTop(t, Forward(Top(t))) /\ m' = m /\ Instruction(Top(t)) = "lock"
          /\ mu' = [mu EXCEPT ![Top(t).h] = t]
      BY <2>1 DEF Lock, At, Continue
    <3>2. /\ Types /\ Top(t) \in Frames /\ StepFacts(Top(t).op, Top(t).pc) /\ Top(t).h \in Handle
      BY <3>1, TopStep DEF Frames
    <3>3. /\ Forward(Top(t)) \in Frames /\ Forward(Top(t)).h = Top(t).h /\ Holds(Forward(Top(t)))
      BY <3>1, <3>2, ForwardFrame DEF Frames, Holds, StepFacts, Instruction
    <3>4. stack'[t][Depth(t)] = Forward(Top(t)) /\ Depth(t) \in 1..Len(stack'[t])
      <4>1. /\ stack'[t][Depth(t)] = Forward(Top(t)) /\ Depth(t) \in 1..4
            /\ Depth(t) = Len(stack[t]) /\ Len(stack'[t]) = Len(stack[t])
        BY <3>1, <3>2, <3>3, TopFacts
      <4> QED BY <4>1
    <3>5. \A h \in Handle : mu'[h] = IF h = Top(t).h THEN t ELSE mu[h]
      BY <3>1, <3>2 DEF Types
    <3>6. Shape(t)
      BY <2>1, LockKeeps
    <3>7. m.pending # t
      BY <1>3, <3>1
    <3>8. \A h \in Handle : mu'[h] = t /\ mu[h] # t =>
            \E k \in 1..Len(stack'[t]) : Holds(stack'[t][k]) /\ stack'[t][k].h = h
      BY <3>3, <3>4, <3>5
    <3> QED BY <3>1, <3>5, <3>6, <3>7, <3>8, TurnsKept
  <2>2. CASE Unlock(t)
    <3>1. /\ Busy(t) /\ m' = m /\ Instruction(Top(t)) = "unlock" /\ mu' = [mu EXCEPT ![Top(t).h] = Nil]
      BY <2>2 DEF Unlock, At
    <3>2. \A h \in Handle : mu'[h] = mu[h] \/ mu'[h] = Nil
      BY <3>1 DEF Inv, Types
    <3>3. Shape(t)
      BY <2>2, UnlockKeeps
    <3>4. m.pending # t
      BY <1>3, <3>1
    <3> QED BY <3>1, <3>2, <3>3, <3>4, NilAssumption, TurnsKept
  <2>3. CASE Announce(t)
    <3>1. /\ Busy(t) /\ SetTop(t, Forward(Top(t))) /\ mu' = mu /\ Instruction(Top(t)) = "announce"
          /\ m' = [m EXCEPT !.pending = t]
      BY <2>3 DEF Announce, At, Continue
    <3>2. /\ Types /\ Top(t) \in Frames /\ GoodFrame(Top(t))
      BY <3>1, TopStep
    <3>3. PICK g \in Frames : g = Forward(Top(t)) /\ g.op = Top(t).op /\ g.pc = Top(t).pc + 1
      BY <3>1, ForwardFrame DEF Frames
    <3>4. Instruction(g) \in {"store", "erase"}
      BY <3>1, <3>2, <3>3, Waiting DEF Instruction, GoodFrame, Frames
    <3>5. SetTop(t, g)
      BY <3>1, <3>3
    <3>6. /\ stack'[t][Depth(t)] = g /\ Depth(t) \in 1..4
          /\ Depth(t) = Len(stack[t]) /\ Len(stack'[t]) = Len(stack[t]) /\ stack'[t] \in Seq(Frames)
      BY <3>1, <3>2, <3>5, TopFacts
    <3>7. stack'[t] # <<>> /\ Depth(t)' = Depth(t)
      <4>1. Depth(t)' = Len(stack'[t])
        BY Zenon DEF Depth
      <4>2. Len(stack'[t]) # 0
        <5>1. PICK n \in 1..4 : n = Len(stack'[t])
          BY <3>6, Zenon
        <5>2. n # 0
          OBVIOUS
        <5> QED BY <5>1, <5>2, Zenon
      <4>3. stack'[t] # <<>>
        BY <4>2, NotEmpty, Zenon
      <4> QED BY <3>6, <4>1, <4>3
    <3>8. At(t, "store")' \/ At(t, "erase")'
      BY <3>4, <3>6, <3>7 DEF At, Busy, Top, Instruction
    <3>9. Shape(t)
      BY <2>3, PlainKeeps
    <3>10. m'.pending = t \/ m'.pending = Nil
      BY <3>1
    <3> QED BY <3>1, <3>8, <3>9, <3>10, TurnsKept
  <2>4. CASE Store(t) \/ Erase(t)
    <3>1. mu' = mu /\ (m' = [m EXCEPT !.pending = Nil])
      BY <2>4 DEF Store, Erase, SetEntry
    <3>2. Shape(t)
      BY <2>4, PlainKeeps
    <3>3. m'.pending = Nil \/ (m'.pending = m.pending /\ m.pending # t)
      BY <3>1
    <3> QED BY <3>1, <3>2, <3>3, TurnsKept
  <2>5. CASE ReadKey(t) \/ CallbackRuns(t)
    <3>1. mu' = mu /\ m' = m /\ Busy(t) /\ Instruction(Top(t)) \in {"read_set", "read_clear", "body"}
      BY <2>5 DEF ReadKey, CallbackRuns, At
    <3> QED BY <1>3, <1>4, <2>5, <3>1, PlainKeeps
  <2>6. CASE Check(t) \/ Begin(t) \/ End(t) \/ Token(t)
    <3>1. mu' = mu /\ m' = m /\ Busy(t) /\ Instruction(Top(t)) \in {"check", "begin", "end", "token"}
      BY <2>6 DEF Check, Begin, End, Token, At
    <3> QED BY <1>3, <1>4, <2>6, <3>1, EnterKeeps
  <2>7. CASE FreeModel(t)
    <3>1. mu' = mu /\ m' = m /\ Busy(t) /\ Instruction(Top(t)) = "free"
      BY <2>7 DEF FreeModel, At
    <3> QED BY <1>3, <1>4, <2>7, <3>1, FreeModelKeeps
  <2>8. CASE Return(t)
    <3>1. mu' = mu /\ m' = m /\ Busy(t) /\ Instruction(Top(t)) = "return"
      BY <2>8 DEF Return, At
    <3> QED BY <1>3, <1>4, <2>8, <3>1, ReturnKeeps
  <2>9. CASE CallBack(t)
    <3>1. mu' = mu /\ Busy(t) /\ Instruction(Top(t)) = "call"
      BY <2>9 DEF CallBack, At
    <3>2. m' = m \/ m' = [m EXCEPT !.readers[t] = m.readers[t] + 1]
      BY <2>9 DEF CallBack
    <3>3. m'.pending = m.pending
      <4>1. CASE m' = m
        BY <4>1
      <4>2. CASE m' = [m EXCEPT !.readers[t] = m.readers[t] + 1]
        BY <4>2
      <4> QED BY <3>2, <4>1, <4>2
    <3> QED BY <1>3, <1>4, <2>9, <3>1, <3>3, CallBackKeeps
  <2>10. CASE CallbackCalls(t)
    <3>1. mu' = mu /\ m' = m /\ Busy(t) /\ Instruction(Top(t)) = "body"
      BY <2>10 DEF CallbackCalls, At
    <3> QED BY <1>3, <1>4, <2>10, <3>1, CallbackCallsKeeps
  <2>11. CASE Answer(t)
    <3>1. mu' = mu /\ Busy(t) /\ Instruction(Top(t)) = "answer" /\ RUnlock(t)
      BY <2>11 DEF Answer, At
    <3>2. m'.pending = m.pending
      BY <3>1 DEF RUnlock
    <3> QED BY <1>3, <1>4, <2>11, <3>1, <3>2, AnswerKeeps
  <2> QED BY <1>5, <2>1, <2>2, <2>3, <2>4, <2>5, <2>6, <2>7, <2>8, <2>9, <2>10, <2>11 DEF Step
<1>6. ASSUME NEW t \in Thread, Start(t) PROVE Turns'
  <2>1. mu' = mu /\ m' = m /\ ~Busy(t)
    BY <1>6 DEF Start
  <2>2. m.pending # t
    BY <1>2, <2>1 DEF At
  <2> QED BY <1>4, <1>6, <2>1, <2>2, StartKeeps
<1>7. ASSUME NEW t \in Thread, New(t) PROVE Turns'
  <2>1. UNCHANGED <<mu, m, stack>>
    BY <1>7 DEF New
  <2>2. Owners' /\ NestedFrames'
    BY <2>1 DEF Turns, Owners, NestedFrames, Holds
  <2>3. Writer'
    BY <2>1 DEF Turns, Writer, At, Busy, Instruction, Top, Depth
  <2> QED BY <2>2, <2>3 DEF Turns
<1> QED BY <1>1, <1>5, <1>6, <1>7 DEF Next, Done

\* Nothing runs at first.
LEMMA TurnsInit == Init => Turns
<1> SUFFICES ASSUME Init PROVE Turns
  OBVIOUS
<1>1. /\ \A t \in Thread : stack[t] = <<>>
      /\ \A h \in Handle : mu[h] = Nil
      /\ m.pending = Nil
  BY DEF Init
<1>2. Owners /\ Writer
  BY <1>1, NilAssumption DEF Owners, Writer
<1>3. NestedFrames
  <2>1. \A t \in Thread : ~(Len(stack[t]) >= 3)
    BY <1>1
  <2> QED BY <2>1 DEF NestedFrames
<1> QED BY <1>2, <1>3, InitHolds DEF Turns

\* A goroutine that reads the map waits for nothing, when its callback calls no
\* method that takes a lock.
LEMMA ReadersRun ==
  ASSUME Turns, NestedOps \subseteq {"info"}, NEW r \in Thread, m.readers[r] # 0
  PROVE  Busy(r) /\ ~Blocked(r)
<1>1. GoodStack(r) /\ Len(stack[r]) \in 0..4 /\ m.readers[r] = CallbacksOn(Len(stack[r]))
  BY DEF Turns, Inv, Types, Readers, GoodStack
<1>2. Len(stack[r]) \in 2..4
  <2>1. PICK n \in 0..4 : n = Len(stack[r])
    BY <1>1
  <2>2. CallbacksOn(n) # 0
    BY <1>1, <2>1
  <2>3. n >= 2
    BY <2>2 DEF CallbacksOn
  <2> QED BY <2>1, <2>3
<1>3. Len(stack[r]) # 4
  <2> SUFFICES ASSUME Len(stack[r]) = 4 PROVE FALSE
    OBVIOUS
  <2>1. 4 \in {2, 4} /\ 4 <= Len(stack[r]) /\ 4 - 1 = 3 /\ Len(stack[r]) >= 3
    OBVIOUS
  <2>2. stack[r][3].op \in Predictions
    BY <1>1, <2>1 DEF GoodStack
  <2>3. stack[r][3].op = "info"
    BY <2>1 DEF Turns, NestedFrames
  <2> QED BY <2>2, <2>3 DEF Predictions
<1>4. Busy(r) /\ Depth(r) = Len(stack[r]) /\ Top(r) = stack[r][Depth(r)]
  <2>1. stack[r] # <<>>
    <3>1. PICK n \in 2..4 : n = Len(stack[r])
      BY <1>2, Zenon
    <3>2. n # 0
      OBVIOUS
    <3>3. Len(stack[r]) # 0
      BY <3>1, <3>2, Zenon
    <3> QED BY <3>3, NotEmpty, Zenon
  <2> QED BY <2>1 DEF Busy, Depth, Top
<1>5. GoodFrame(Top(r)) /\ StepFacts(Top(r).op, Top(r).pc)
  BY <1>4, TopStep DEF Turns
<1>6. CASE Len(stack[r]) = 2
  <2>1. Top(r) = stack[r][2] /\ 2 \in 1..Len(stack[r]) /\ 2 \in {2, 4}
    BY <1>4, <1>6
  <2>2. Top(r).op = "callback"
    BY <1>1, <2>1 DEF GoodStack
  <2>3. Instruction(Top(r)) \in {"body", "answer"}
    BY <1>5, <2>2 DEF StepFacts, Instruction
  <2> QED BY <1>4, <2>3 DEF Blocked, At
<1>7. CASE Len(stack[r]) = 3
  <2>1. Top(r).op = "info"
    <3>1. Len(stack[r]) >= 3 /\ Depth(r) = 3
      BY <1>4, <1>7
    <3> QED BY <1>4, <3>1 DEF Turns, NestedFrames
  <2>2. Instruction(Top(r)) \in {"check", "begin", "end", "return"}
    BY <1>5, <2>1, Waiting DEF Instruction, GoodFrame, Frames
  <2> QED BY <1>4, <2>2 DEF Blocked, At
<1> QED BY <1>2, <1>3, <1>6, <1>7

\* Calls that wait for l.mu or for m always wait for a goroutine that can go on, when
\* token callbacks call no method that takes a lock: tokenCallback holds m for reading
\* while the callback runs (llama.go:619-626), and its prediction holds l.mu, but both
\* are then given up in the end.  A callback that calls SetTokenCallback does deadlock.
THEOREM SomebodyRuns ==
  ASSUME NestedOps \subseteq {"info"}
  PROVE  Spec => []NoDeadlock
<1>1. Turns => NoDeadlock
  <2> SUFFICES ASSUME Turns, NEW t \in Thread, Busy(t)
               PROVE  \E u \in Thread : Busy(u) /\ ~Blocked(u)
    BY DEF NoDeadlock
  <2>1. CASE ~NoReaders
    BY <2>1, ReadersRun DEF NoReaders
  <2>2. CASE NoReaders /\ m.pending # Nil
    <3>1. PICK p \in Thread : m.pending = p
      BY <2>2 DEF Turns, Inv, Types
    <3>2. Busy(p) /\ Instruction(Top(p)) \in {"store", "erase"}
      BY <3>1 DEF Turns, Writer, At
    <3> QED BY <2>2, <3>2 DEF Blocked, At
  <2>3. CASE NoReaders /\ m.pending = Nil /\ ~(At(t, "lock") /\ mu[Top(t).h] # Nil)
    BY <2>3 DEF Blocked
  <2>4. CASE NoReaders /\ m.pending = Nil /\ At(t, "lock") /\ mu[Top(t).h] # Nil
    <3>1. Top(t).h \in Handle
      BY TopStep DEF Turns, Frames
    <3>2. PICK u \in Thread : mu[Top(t).h] = u
      BY <2>4, <3>1 DEF Turns, Inv, Types
    <3>3. PICK k \in 1..Len(stack[u]) : Holds(stack[u][k]) /\ stack[u][k].h = Top(t).h
      BY <3>1, <3>2 DEF Turns, Owners
    <3>4. /\ Len(stack[u]) \in 0..4 /\ m.readers[u] = 0 /\ m.readers[u] = CallbacksOn(Len(stack[u]))
          /\ stack[u] \in Seq(Frames)
      BY <2>4 DEF Turns, Inv, Types, Readers, GoodStack, NoReaders
    <3>5. Len(stack[u]) = 1 /\ k = 1
      <4>1. PICK n \in 0..4 : n = Len(stack[u])
        BY <3>4
      <4>2. CallbacksOn(n) = 0
        BY <3>4, <4>1
      <4>3. ~(n >= 2)
        BY <4>2 DEF CallbacksOn
      <4>4. k \in 1..n
        BY <3>3, <4>1
      <4>5. n = 1 /\ k = 1
        BY <4>3, <4>4
      <4> QED BY <4>1, <4>5
    <3>6. Busy(u) /\ Top(u) = stack[u][k]
      <4>1. stack[u] # <<>>
        <5>1. Len(stack[u]) # 0
          BY <3>5
        <5> QED BY <5>1, NotEmpty, Zenon
      <4> QED BY <3>5, <4>1 DEF Busy, Top, Depth
    <3>7. Holds(Top(u)) /\ StepFacts(Top(u).op, Top(u).pc)
      BY <3>3, <3>6, TopStep DEF Turns
    <3>8. Instruction(Top(u)) # "lock"
      BY <3>7 DEF Holds, StepFacts, Instruction
    <3> QED BY <2>4, <3>6, <3>8 DEF Blocked, At
  <2> QED BY <2>1, <2>2, <2>3, <2>4
<1>2. Spec => []Turns
  BY TurnsInit, TurnsNext, PTL DEF Spec
<1> QED BY <1>1, <1>2, PTL

---------------------------------------------------------------------------
(* Every method comes nearer to its return with every step it takes. *)

\* What is left of a call: its tokens first, then its steps. A sampled token will
\* take the call back to "token", which is counted at "call".
Cost(op, pc) == 20 - pc + (IF Program[op][pc] = "call" THEN 2 ELSE 0)
Ahead(f) == 20 * f.left + Cost(f.op, f.pc)

\* The stack of t gets smaller in the lexicographic order, outermost call first: a
\* call has less ahead or is gone, and those it was called from are as they were.
Descends(t) ==
    \E k \in DOMAIN stack[t] :
        /\ \A j \in DOMAIN stack[t] :
             j < k => j \in DOMAIN stack'[t] /\ stack'[t][j] = stack[t][j]
        /\ k \in DOMAIN stack'[t] => Ahead(stack'[t][k]) < Ahead(stack[t][k])

\* The order is well founded: at most four calls, with at most so much ahead.
Finite ==
    \A t \in Thread : /\ Len(stack[t]) \in 0..4
                      /\ \A k \in 1..Len(stack[t]) : Ahead(stack[t][k]) \in 1..20 * MaxTokens + 20

\* A goroutine in a method descends with its own steps and stays where it is with
\* those of others.
MethodsAdvance ==
    [][\A t \in Thread : Busy(t) => IF Step(t) THEN Descends(t) ELSE stack'[t] = stack[t]]_vars

Counted == \A t \in Thread : \A k \in 1..Len(stack[t]) : stack[t][k].left \in 0..MaxTokens

\* What the programs say about the cost of a step.
CostFacts(op, pc) ==
    LET step == Program[op][pc] IN
    /\ Cost(op, pc) \in 1..20
    /\ step \notin {"token", "return", "answer"} => Cost(op, pc + 1) < Cost(op, pc)
    /\ step = "token" => Cost(op, pc + 1) \in 1..20 /\ Cost(op, Label(op, "end")) < Cost(op, pc)
    /\ step = "call" => Cost(op, Label(op, "token")) < Cost(op, pc)
    /\ step \in {"begin", "check"} =>
         Cost(op, Label(op, IF op = "info" THEN "return" ELSE "unlock")) < Cost(op, pc)

LEMMA Costs ==
  ASSUME NEW op \in Methods, NEW pc \in 1..Len(Program[op])
  PROVE  CostFacts(op, pc)
<1>1. CASE op = "predict_cb"
  <2>1. Program[op] = <<"read_set", "announce", "store", "read_clear", "lock", "begin",
                        "token", "call", "end", "unlock", "announce", "erase", "return">>
    BY <1>1 DEF Program
  <2>2. pc \in 1..13
    BY <2>1
  <2>3. Label(op, "token") = 7 /\ Label(op, "end") = 9 /\ Label(op, "unlock") = 10
    BY <1>1, LabelValues
  <2> QED BY <1>1, <2>1, <2>2, <2>3 DEF CostFacts, Cost
<1>2. CASE op = "predict"
  <2>1. Program[op] = <<"lock", "begin", "token", "call", "end", "unlock", "return">>
    BY <1>2 DEF Program
  <2>2. pc \in 1..7
    BY <2>1
  <2>3. Label(op, "token") = 3 /\ Label(op, "end") = 5 /\ Label(op, "unlock") = 6
    BY <1>2, LabelValues
  <2> QED BY <1>2, <2>1, <2>2, <2>3 DEF CostFacts, Cost
<1>3. CASE op = "locked"
  <2>1. Program[op] = <<"lock", "begin", "end", "unlock", "return">>
    BY <1>3 DEF Program
  <2>2. pc \in 1..5
    BY <2>1
  <2>3. Label(op, "unlock") = 4
    BY <1>3, LabelValues
  <2> QED BY <1>3, <2>1, <2>2, <2>3 DEF CostFacts, Cost
<1>4. CASE op = "info"
  <2>1. Program[op] = <<"check", "begin", "end", "return">>
    BY <1>4 DEF Program
  <2>2. pc \in 1..4
    BY <2>1
  <2>3. Label(op, "return") = 4
    BY <1>4, LabelValues
  <2> QED BY <1>4, <2>1, <2>2, <2>3 DEF CostFacts, Cost
<1>5. CASE op = "set_callback"
  <2>1. Program[op] = <<"read_set", "announce", "store", "return">>
    BY <1>5 DEF Program
  <2>2. pc \in 1..4
    BY <2>1
  <2> QED BY <1>5, <2>1, <2>2 DEF CostFacts, Cost
<1>6. CASE op = "free"
  <2>1. Program[op] = <<"lock", "check", "announce", "erase", "free", "unlock", "return">>
    BY <1>6 DEF Program
  <2>2. pc \in 1..7
    BY <2>1
  <2>3. Label(op, "unlock") = 6
    BY <1>6, LabelValues
  <2> QED BY <1>6, <2>1, <2>2, <2>3 DEF CostFacts, Cost
<1>7. CASE op = "callback"
  <2>1. Program[op] = <<"body", "answer">>
    BY <1>7 DEF Program
  <2>2. pc \in 1..2
    BY <2>1
  <2> QED BY <1>7, <2>1, <2>2 DEF CostFacts, Cost
<1> QED BY <1>1, <1>2, <1>3, <1>4, <1>5, <1>6, <1>7 DEF Methods

\* Less of a program ahead with the same tokens, or a token less.
LEMMA Lower ==
  ASSUME NEW f, NEW g, f.op = g.op, g.left \in 0..MaxTokens,
         Cost(g.op, g.pc) \in 1..20, Cost(f.op, f.pc) \in Int,
         \/ f.left = g.left /\ Cost(f.op, f.pc) < Cost(g.op, g.pc)
         \/ g.left > 0 /\ f.left = g.left - 1 /\ Cost(f.op, f.pc) \in 1..20
  PROVE  f.left \in 0..MaxTokens /\ Ahead(f) < Ahead(g)
<1>1. PICK a \in 0..MaxTokens : a = g.left
  OBVIOUS
<1>2. PICK c \in 1..20 : c = Cost(g.op, g.pc)
  OBVIOUS
<1>3. PICK d \in Int : d = Cost(f.op, f.pc)
  OBVIOUS
<1>4. PICK b : b = f.left
  OBVIOUS
<1>5. b \in 0..MaxTokens /\ 20 * b + d < 20 * a + c
  BY <1>1, <1>2, <1>3, <1>4, TokensAssumption
<1> QED BY <1>1, <1>2, <1>3, <1>4, <1>5 DEF Ahead

\* The call on top: its count of tokens, and what its program says.
LEMMA TopCost ==
  ASSUME Inv, Counted, NEW t \in Thread, Busy(t)
  PROVE  /\ CostFacts(Top(t).op, Top(t).pc) /\ Top(t).left \in 0..MaxTokens /\ Top(t) \in Frames
         /\ Depth(t) \in 1..Len(stack[t]) /\ Depth(t) = Len(stack[t]) /\ stack[t] \in Seq(Frames)
         /\ Top(t) = stack[t][Depth(t)]
<1>1. /\ stack[t] \in Seq(Frames) /\ Depth(t) \in 1..Len(stack[t]) /\ Depth(t) = Len(stack[t])
  BY DEF Inv, Types, GoodStack, Busy, Depth
<1>2. Top(t) = stack[t][Depth(t)]
  BY DEF Top
<1>3. stack[t][Depth(t)].left \in 0..MaxTokens
  BY <1>1 DEF Counted
<1>4. GoodFrame(Top(t)) /\ Top(t) \in Frames
  BY TopStep
<1>5. CostFacts(Top(t).op, Top(t).pc)
  BY <1>4, Costs DEF GoodFrame, Frames
<1> QED BY <1>1, <1>2, <1>3, <1>4, <1>5, Zenon

\* A step that leaves less ahead on top.
LEMMA TopDescends ==
  ASSUME Inv, Inv', Counted, NEW t \in Thread, Busy(t), NEW f, SetTop(t, f),
         f.left \in 0..MaxTokens, Ahead(f) < Ahead(Top(t))
  PROVE  Descends(t) /\ Counted'
<1>1. PICK d : d = Depth(t)
  OBVIOUS
<1>2. /\ stack[t] \in Seq(Frames) /\ d \in 1..Len(stack[t]) /\ d = Len(stack[t])
      /\ Top(t) = stack[t][d] /\ DOMAIN stack = Thread
  BY <1>1, TopCost DEF Inv, Types
<1>3. stack' = [stack EXCEPT ![t] = [stack[t] EXCEPT ![d] = f]]
  BY <1>1 DEF SetTop
<1>4. stack'[t] = [stack[t] EXCEPT ![d] = f] /\ \A u \in Thread : u # t => stack'[u] = stack[u]
  BY <1>2, <1>3
<1>5. /\ DOMAIN stack'[t] = DOMAIN stack[t] /\ stack'[t][d] = f
      /\ \A j \in DOMAIN stack[t] : j # d => stack'[t][j] = stack[t][j]
  BY <1>2, <1>4
<1>6. Descends(t)
  <2>1. d \in DOMAIN stack[t] /\ \A j \in DOMAIN stack[t] : j < d => j # d
    BY <1>2
  <2> QED BY <1>2, <1>5, <2>1 DEF Descends
<1>7. ASSUME NEW u \in Thread, NEW k \in 1..Len(stack'[u]) PROVE stack'[u][k].left \in 0..MaxTokens
  <2>1. CASE u # t
    BY <1>4, <1>7, <2>1 DEF Counted
  <2>2. CASE u = t
    <3>1. stack'[t] \in Seq(Frames)
      BY DEF Inv, Types, GoodStack
    <3>2. k \in DOMAIN stack'[t]
      BY <1>7, <2>2, <3>1
    <3>3. k \in 1..Len(stack[t])
      BY <1>2, <1>5, <3>2
    <3>4. k = d \/ stack'[t][k] = stack[t][k]
      BY <1>2, <1>5, <3>2
    <3> QED BY <1>5, <2>2, <3>3, <3>4 DEF Counted
  <2> QED BY <2>1, <2>2
<1>8. Counted'
  BY <1>7 DEF Counted
<1> QED BY <1>6, <1>8

\* A step forward of the program, whatever else it notes in the frame.
LEMMA ForwardDescends ==
  ASSUME Inv, Inv', Counted, NEW t \in Thread, Busy(t), NEW f, SetTop(t, f),
         f.op = Top(t).op, f.pc = Top(t).pc + 1, f.left = Top(t).left,
         Instruction(Top(t)) \notin {"token", "return", "answer"}
  PROVE  Descends(t) /\ Counted'
<1>1. CostFacts(Top(t).op, Top(t).pc) /\ Top(t).left \in 0..MaxTokens /\ Top(t) \in Frames
  BY TopCost
<1>2. /\ Cost(f.op, f.pc) < Cost(Top(t).op, Top(t).pc)
      /\ Cost(Top(t).op, Top(t).pc) \in 1..20
  BY <1>1 DEF CostFacts, Instruction
<1>3. Cost(f.op, f.pc) \in Int
  BY <1>1 DEF Cost, Frames
<1>4. f.left \in 0..MaxTokens /\ Ahead(f) < Ahead(Top(t))
  BY <1>1, <1>2, <1>3, Lower
<1> QED BY <1>4, TopDescends

\* Lock, Unlock, and the steps of setCallback and of the C side.
LEMMA StraightDescends ==
  ASSUME Inv, Inv', Counted, NEW t \in Thread,
         \/ Lock(t) \/ Unlock(t) \/ FreeModel(t) \/ Announce(t) \/ Store(t) \/ Erase(t)
         \/ CallbackRuns(t) \/ ReadKey(t) \/ End(t)
  PROVE  Descends(t) /\ Counted'
<1>1. Busy(t)
  BY DEF Lock, Unlock, FreeModel, Announce, Store, Erase, CallbackRuns, ReadKey, End, At
<1>2. Top(t) \in Frames
  BY <1>1, TopCost
<1>3. CASE Lock(t) \/ Unlock(t) \/ FreeModel(t) \/ Announce(t) \/ Store(t) \/ Erase(t) \/ CallbackRuns(t)
  <2>1. SetTop(t, Forward(Top(t))) /\ Instruction(Top(t)) \notin {"token", "return", "answer"}
    BY <1>3 DEF Lock, Unlock, FreeModel, Announce, Store, Erase, CallbackRuns, At, Continue, SetEntry
  <2>2. PICK f : f = Forward(Top(t))
    OBVIOUS
  <2>3. f.op = Top(t).op /\ f.pc = Top(t).pc + 1 /\ f.left = Top(t).left
    BY <1>2, <2>2 DEF Forward, Frames
  <2>4. SetTop(t, f)
    BY <2>1, <2>2
  <2> QED BY <1>1, <2>1, <2>3, <2>4, ForwardDescends
<1>4. CASE ReadKey(t)
  <2>1. PICK f : f = [Forward(Top(t)) EXCEPT !.key = state[Top(t).h]]
    OBVIOUS
  <2>2. SetTop(t, f) /\ Instruction(Top(t)) \notin {"token", "return", "answer"}
    BY <1>4, <2>1 DEF ReadKey, At
  <2>3. f.op = Top(t).op /\ f.pc = Top(t).pc + 1 /\ f.left = Top(t).left
    BY <1>2, <2>1 DEF Forward, Frames
  <2> QED BY <1>1, <2>2, <2>3, ForwardDescends
<1>5. CASE End(t)
  <2>1. PICK f : f = [Forward(Top(t)) EXCEPT !.c_state = Nil]
    OBVIOUS
  <2>2. SetTop(t, f) /\ Instruction(Top(t)) \notin {"token", "return", "answer"}
    BY <1>5, <2>1 DEF End, At
  <2>3. f.op = Top(t).op /\ f.pc = Top(t).pc + 1 /\ f.left = Top(t).left
    BY <1>2, <2>1 DEF Forward, Frames
  <2> QED BY <1>1, <2>2, <2>3, ForwardDescends
<1> QED BY <1>3, <1>4, <1>5

\* What a jump leaves in the frame.
LEMMA JumpFrame ==
  ASSUME NEW f \in Frames, NEW step
  PROVE  /\ Jump(f, step).op = f.op /\ Jump(f, step).pc = Label(f.op, step)
         /\ Jump(f, step).left = f.left
  BY DEF Jump, Frames

\* Check and Begin: on to the next step, or out of the method.
LEMMA BranchDescends ==
  ASSUME Inv, Inv', Counted, NEW t \in Thread, Check(t) \/ Begin(t)
  PROVE  Descends(t) /\ Counted'
<1>1. Busy(t) /\ Instruction(Top(t)) \in {"check", "begin"}
  BY DEF Check, Begin, At
<1>2. /\ Top(t) \in Frames /\ CostFacts(Top(t).op, Top(t).pc) /\ Top(t).left \in 0..MaxTokens
      /\ StepFacts(Top(t).op, Top(t).pc)
  BY <1>1, TopCost, TopStep
<1>3. ASSUME NEW f, SetTop(t, f), f.op = Top(t).op, f.pc = Top(t).pc + 1, f.left = Top(t).left
      PROVE  Descends(t) /\ Counted'
  BY <1>1, <1>3, ForwardDescends
<1>4. ASSUME NEW f, SetTop(t, f), f.op = Top(t).op, f.left = Top(t).left,
             f.pc = Label(Top(t).op, IF Top(t).op = "info" THEN "return" ELSE "unlock")
      PROVE  Descends(t) /\ Counted'
  <2>1. Cost(f.op, f.pc) < Cost(Top(t).op, Top(t).pc) /\ Cost(Top(t).op, Top(t).pc) \in 1..20
    BY <1>1, <1>2, <1>4 DEF CostFacts, Instruction
  <2>2. f.pc \in Int
    BY <1>1, <1>2, <1>4, LabelValues DEF StepFacts, Instruction, Predictions
  <2>3. Cost(f.op, f.pc) \in Int
    BY <2>2 DEF Cost
  <2>4. f.left \in 0..MaxTokens /\ Ahead(f) < Ahead(Top(t))
    BY <1>2, <1>4, <2>1, <2>3, Lower
  <2> QED BY <1>1, <1>4, <2>4, TopDescends
<1>5. CASE Check(t)
  <2>1. Top(t).op \in {"free", "info"}
    BY <1>2, <1>5 DEF Check, At, Instruction, StepFacts
  <2>2. CASE state[Top(t).h] # Nil
    <3>1. PICK f : f = [Forward(Top(t)) EXCEPT !.key = state[Top(t).h]]
      OBVIOUS
    <3>2. SetTop(t, f)
      BY <1>5, <2>2, <3>1 DEF Check
    <3>3. f.op = Top(t).op /\ f.pc = Top(t).pc + 1 /\ f.left = Top(t).left
      BY <1>2, <3>1 DEF Forward, Frames
    <3> QED BY <1>3, <3>2, <3>3
  <2>3. CASE state[Top(t).h] = Nil
    <3>1. SetTop(t, Jump(Top(t), IF Top(t).op = "info" THEN "return" ELSE "unlock"))
      BY <1>5, <2>1, <2>3 DEF Check
    <3> QED BY <1>2, <1>4, <3>1, JumpFrame
  <2> QED BY <2>2, <2>3
<1>6. CASE Begin(t)
  <2>1. CASE Pointer(Top(t)) # Nil
    <3>1. PICK f : f = [Forward(Top(t)) EXCEPT !.c_state = Pointer(Top(t))]
      OBVIOUS
    <3>2. SetTop(t, f)
      BY <1>6, <2>1, <3>1 DEF Begin
    <3>3. f.op = Top(t).op /\ f.pc = Top(t).pc + 1 /\ f.left = Top(t).left
      BY <1>2, <3>1 DEF Forward, Frames
    <3> QED BY <1>3, <3>2, <3>3
  <2>2. CASE Pointer(Top(t)) = Nil
    <3>1. SetTop(t, Jump(Top(t), IF Top(t).op = "info" THEN "return" ELSE "unlock"))
      BY <1>6, <2>2 DEF Begin
    <3> QED BY <1>2, <1>4, <3>1, JumpFrame
  <2> QED BY <2>1, <2>2
<1> QED BY <1>5, <1>6

\* Token: one token less, or the end of the loop.
LEMMA TokenDescends ==
  ASSUME Inv, Inv', Counted, NEW t \in Thread, Token(t)
  PROVE  Descends(t) /\ Counted'
<1>1. Busy(t) /\ Instruction(Top(t)) = "token"
  BY DEF Token, At
<1>2. /\ Top(t) \in Frames /\ CostFacts(Top(t).op, Top(t).pc) /\ Top(t).left \in 0..MaxTokens
      /\ Top(t).op \in Predictions
  BY <1>1, TopCost, TopStep DEF StepFacts, Instruction
<1>3. /\ Cost(Top(t).op, Top(t).pc) \in 1..20 /\ Cost(Top(t).op, Top(t).pc + 1) \in 1..20
      /\ Cost(Top(t).op, Label(Top(t).op, "end")) < Cost(Top(t).op, Top(t).pc)
  BY <1>1, <1>2 DEF CostFacts, Instruction
<1>4. CASE Top(t).left > 0 /\ SetTop(t, [Forward(Top(t)) EXCEPT !.left = @ - 1])
  <2>1. PICK f : f = [Forward(Top(t)) EXCEPT !.left = @ - 1]
    OBVIOUS
  <2>2. f.op = Top(t).op /\ f.pc = Top(t).pc + 1 /\ f.left = Top(t).left - 1
    BY <1>2, <2>1 DEF Forward, Frames
  <2>3. Cost(f.op, f.pc) \in 1..20 /\ Cost(f.op, f.pc) \in Int
    BY <1>3, <2>2
  <2>4. f.left \in 0..MaxTokens /\ Ahead(f) < Ahead(Top(t))
    BY <1>2, <1>3, <1>4, <2>2, <2>3, Lower
  <2>5. SetTop(t, f)
    BY <1>4, <2>1
  <2> QED BY <1>1, <2>4, <2>5, TopDescends
<1>5. CASE SetTop(t, Jump(Top(t), "end"))
  <2>1. PICK f : f = Jump(Top(t), "end")
    OBVIOUS
  <2>2. f.op = Top(t).op /\ f.pc = Label(Top(t).op, "end") /\ f.left = Top(t).left
    BY <1>2, <2>1, JumpFrame
  <2>3. Cost(f.op, f.pc) \in Int
    BY <1>2, <2>2, LabelValues DEF Cost, Predictions
  <2>4. f.left \in 0..MaxTokens /\ Ahead(f) < Ahead(Top(t))
    BY <1>2, <1>3, <2>2, <2>3, Lower
  <2>5. SetTop(t, f)
    BY <1>5, <2>1
  <2> QED BY <1>1, <2>4, <2>5, TopDescends
<1> QED BY <1>4, <1>5 DEF Token

\* The stack s is less than q at depth k.
Less(s, q, k) ==
    /\ k \in DOMAIN q
    /\ \A j \in DOMAIN q : j < k => j \in DOMAIN s /\ s[j] = q[j]
    /\ k \in DOMAIN s => Ahead(s[k]) < Ahead(q[k])
    /\ \A j \in 1..Len(s) : s[j].left \in 0..MaxTokens

\* A step that leaves less ahead at depth k, or nothing.
LEMMA StackDescends ==
  ASSUME Inv, Counted, NEW t \in Thread, NEW s, stack' = [stack EXCEPT ![t] = s],
         NEW k, Less(s, stack[t], k)
  PROVE  Descends(t) /\ Counted'
<1>1. stack'[t] = s /\ \A u \in Thread : u # t => stack'[u] = stack[u]
  BY DEF Inv, Types
<1>2. Descends(t)
  BY <1>1, Zenon DEF Descends, Less
<1>3. ASSUME NEW u \in Thread, NEW j \in 1..Len(stack'[u]) PROVE stack'[u][j].left \in 0..MaxTokens
  BY <1>1, <1>3, Zenon DEF Counted, Less
<1> QED BY <1>2, <1>3 DEF Counted

\* Return: the call on top is gone.
LEMMA ReturnDescends ==
  ASSUME Inv, Counted, NEW t \in Thread, Return(t)
  PROVE  Descends(t) /\ Counted'
<1>1. PICK d : d = Depth(t)
  OBVIOUS
<1>2. Busy(t) /\ stack' = [stack EXCEPT ![t] = SubSeq(stack[t], 1, d - 1)]
  BY <1>1 DEF Return, At
<1>3. stack[t] \in Seq(Frames) /\ d \in 1..Len(stack[t]) /\ d = Len(stack[t])
  BY <1>1, <1>2, TopCost
<1>4. d - 1 \in 0..Len(stack[t])
  BY <1>3
<1>5. PICK s \in Seq(Frames) :
        s = SubSeq(stack[t], 1, d - 1) /\ Len(s) = d - 1 /\ \A j \in 1..(d - 1) : s[j] = stack[t][j]
  BY <1>3, <1>4, Popped
<1>6. d \in DOMAIN stack[t] /\ d \notin DOMAIN s
  BY <1>3, <1>5
<1>7. \A j \in DOMAIN stack[t] : j < d => j \in DOMAIN s /\ s[j] = stack[t][j]
  BY <1>3, <1>5
<1>8. ASSUME NEW j \in 1..Len(s) PROVE s[j].left \in 0..MaxTokens
  <2>1. j \in 1..Len(stack[t]) /\ s[j] = stack[t][j]
    BY <1>3, <1>5, <1>8
  <2> QED BY <2>1 DEF Counted
<1>9. stack' = [stack EXCEPT ![t] = s]
  BY <1>2, <1>5
<1>10. Less(s, stack[t], d)
  BY <1>6, <1>7, <1>8, Zenon DEF Less
<1> QED BY <1>9, <1>10, StackDescends

\* A call that starts has all its tokens.
LEMMA FullFrame == ASSUME NEW op, NEW h PROVE Frame(op, h).left \in 0..MaxTokens
  BY TokensAssumption DEF Frame

\* CallbackCalls: the callback goes on, below the new call.
LEMMA CallDescends ==
  ASSUME Inv, Counted, NEW t \in Thread, CallbackCalls(t)
  PROVE  Descends(t) /\ Counted'
<1>1. PICK op \in NestedOps :
        stack' = [stack EXCEPT ![t] = <<stack[t][1], Forward(stack[t][2]), Frame(op, Top(t).h)>>]
  BY DEF CallbackCalls
<1>2. Busy(t) /\ Depth(t) = 2 /\ Instruction(Top(t)) = "body"
  BY DEF CallbackCalls, At
<1>3. /\ stack[t] \in Seq(Frames) /\ Len(stack[t]) = 2 /\ Top(t) = stack[t][2]
      /\ Top(t) \in Frames /\ CostFacts(Top(t).op, Top(t).pc) /\ Top(t).left \in 0..MaxTokens
  BY <1>2, TopCost
<1>4. PICK f : f = Forward(Top(t))
  OBVIOUS
<1>5. f.op = Top(t).op /\ f.pc = Top(t).pc + 1 /\ f.left = Top(t).left
  BY <1>3, <1>4 DEF Forward, Frames
<1>6. f.left \in 0..MaxTokens /\ Ahead(f) < Ahead(Top(t))
  <2>1. Cost(f.op, f.pc) < Cost(Top(t).op, Top(t).pc) /\ Cost(Top(t).op, Top(t).pc) \in 1..20
    BY <1>2, <1>3, <1>5 DEF CostFacts, Instruction
  <2>2. Cost(f.op, f.pc) \in Int
    BY <1>3, <1>5 DEF Cost, Frames
  <2> QED BY <1>3, <1>5, <2>1, <2>2, Lower
<1>7. PICK g : g = Frame(op, Top(t).h) /\ g.left \in 0..MaxTokens
  BY FullFrame
<1>8. PICK s : s = <<stack[t][1], f, g>>
  OBVIOUS
<1>9. Len(s) = 3 /\ DOMAIN s = 1..3 /\ s[1] = stack[t][1] /\ s[2] = f /\ s[3] = g
  BY <1>8
<1>10. stack' = [stack EXCEPT ![t] = s]
  BY <1>1, <1>3, <1>4, <1>7, <1>8
<1>11. DOMAIN stack[t] = 1..2
  BY <1>3
<1>12. \A j \in DOMAIN stack[t] : j < 2 => j \in DOMAIN s /\ s[j] = stack[t][j]
  BY <1>9, <1>11
<1>13. ASSUME NEW j \in 1..Len(s) PROVE s[j].left \in 0..MaxTokens
  <2>1. stack[t][1].left \in 0..MaxTokens
    BY <1>3 DEF Counted
  <2>2. j = 1 \/ j = 2 \/ j = 3
    BY <1>9, <1>13
  <2> QED BY <1>6, <1>7, <1>9, <2>1, <2>2
<1>14. 2 \in DOMAIN stack[t] /\ Ahead(s[2]) < Ahead(stack[t][2])
  BY <1>3, <1>6, <1>9, <1>11
<1>15. Less(s, stack[t], 2)
  BY <1>12, <1>13, <1>14, Zenon DEF Less
<1> QED BY <1>10, <1>15, StackDescends

\* A stack whose top is replaced by one or two frames.
LEMMA Replaced ==
  ASSUME NEW q \in Seq(Frames), NEW n \in 0..Len(q), NEW r, r # <<>>, NEW S, r \in Seq(S)
  PROVE  LET s == SubSeq(q, 1, n) \o r IN
         /\ Len(s) = n + Len(r) /\ DOMAIN s = 1..(n + Len(r))
         /\ \A j \in 1..n : s[j] = q[j]
         /\ \A j \in 1..Len(r) : s[n + j] = r[j]
<1>1. PICK p \in Seq(Frames) : p = SubSeq(q, 1, n) /\ Len(p) = n /\ \A j \in 1..n : p[j] = q[j]
  BY Popped
<1>2. p \in Seq(Frames \cup S) /\ r \in Seq(Frames \cup S)
  BY <1>1
<1>3. /\ Len(p \o r) = n + Len(r) /\ DOMAIN (p \o r) = 1..(n + Len(r))
      /\ \A j \in 1..n : (p \o r)[j] = p[j]
      /\ \A j \in 1..Len(r) : (p \o r)[n + j] = r[j]
  BY <1>1, <1>2
<1> QED BY <1>1, <1>3

\* CallBack: back to the next token, below a callback or not.
LEMMA CallBackDescends ==
  ASSUME Inv, Inv', Counted, NEW t \in Thread, CallBack(t)
  PROVE  Descends(t) /\ Counted'
<1>1. PICK cb : cb = callbacks[Top(t).c_state]
  OBVIOUS
<1>2. PICK f : f = [Jump(Top(t), "token") EXCEPT !.heard = IF IsRight(t, cb) THEN @ ELSE "wrong"]
  OBVIOUS
<1>3. PICK d : d = Depth(t)
  OBVIOUS
<1>4. /\ Busy(t) /\ Instruction(Top(t)) = "call"
      /\ \/ SetTop(t, f)
         \/ stack' = [stack EXCEPT ![t] = SubSeq(stack[t], 1, d - 1) \o <<f, Frame("callback", cb.h)>>]
  BY <1>1, <1>2, <1>3 DEF CallBack, At
<1>5. /\ Top(t) \in Frames /\ CostFacts(Top(t).op, Top(t).pc) /\ Top(t).left \in 0..MaxTokens
      /\ Top(t).op \in Predictions
      /\ stack[t] \in Seq(Frames) /\ d \in 1..Len(stack[t]) /\ d = Len(stack[t]) /\ Top(t) = stack[t][d]
  BY <1>3, <1>4, TopCost, TopStep DEF StepFacts, Instruction
<1>6. f.op = Top(t).op /\ f.pc = Label(Top(t).op, "token") /\ f.left = Top(t).left
  BY <1>2, <1>5 DEF Jump, Frames
<1>7. f.left \in 0..MaxTokens /\ Ahead(f) < Ahead(Top(t))
  <2>1. Cost(f.op, f.pc) < Cost(Top(t).op, Top(t).pc) /\ Cost(Top(t).op, Top(t).pc) \in 1..20
    BY <1>4, <1>5, <1>6 DEF CostFacts, Instruction
  <2>2. Cost(f.op, f.pc) \in Int
    BY <1>5, <1>6, LabelValues DEF Cost, Predictions
  <2> QED BY <1>5, <1>6, <2>1, <2>2, Lower
<1>8. CASE SetTop(t, f)
  BY <1>4, <1>7, <1>8, TopDescends
<1>9. CASE stack' = [stack EXCEPT ![t] = SubSeq(stack[t], 1, d - 1) \o <<f, Frame("callback", cb.h)>>]
  <2>1. PICK g : g = Frame("callback", cb.h) /\ g.left \in 0..MaxTokens
    BY FullFrame
  <2>2. PICK s : s = SubSeq(stack[t], 1, d - 1) \o <<f, g>>
    OBVIOUS
  <2>3. PICK n \in 0..Len(stack[t]) : n = d - 1 /\ n + 1 = d
    <3>1. d - 1 \in 0..Len(stack[t]) /\ (d - 1) + 1 = d
      BY <1>5
    <3> QED BY <3>1
  <2>4. /\ Len(s) = n + 2 /\ DOMAIN s = 1..(n + 2) /\ \A j \in 1..n : s[j] = stack[t][j]
        /\ s[n + 1] = f /\ s[n + 2] = g
    <3>1. <<f, g>> \in Seq({f, g}) /\ <<f, g>> # <<>> /\ Len(<<f, g>>) = 2 /\ <<f, g>>[1] = f /\ <<f, g>>[2] = g
      OBVIOUS
    <3>2. PICK r \in Seq({f, g}) : r = <<f, g>> /\ r # <<>> /\ Len(r) = 2 /\ r[1] = f /\ r[2] = g
      BY <3>1
    <3>3. s = SubSeq(stack[t], 1, n) \o r
      BY <2>2, <2>3, <3>2
    <3> QED BY <1>5, <3>2, <3>3, Replaced
  <2>5. d \in DOMAIN stack[t] /\ DOMAIN stack[t] = 1..d /\ s[d] = f
    BY <1>5, <2>3, <2>4
  <2>6. \A j \in DOMAIN stack[t] : j < d => j \in DOMAIN s /\ s[j] = stack[t][j]
    BY <2>3, <2>4, <2>5
  <2>7. ASSUME NEW j \in 1..Len(s) PROVE s[j].left \in 0..MaxTokens
    <3>1. j \in 1..n \/ j = n + 1 \/ j = n + 2
      BY <2>3, <2>4, <2>7
    <3>2. ASSUME j \in 1..n PROVE s[j].left \in 0..MaxTokens
      <4>1. j \in 1..Len(stack[t]) /\ s[j] = stack[t][j]
        BY <2>3, <2>4, <3>2
      <4> QED BY <4>1 DEF Counted
    <3> QED BY <1>7, <2>1, <2>4, <3>1, <3>2
  <2>8. stack' = [stack EXCEPT ![t] = s]
    BY <1>9, <2>1, <2>2
  <2>9. Ahead(s[d]) < Ahead(stack[t][d])
    BY <1>5, <1>7, <2>5
  <2>10. Less(s, stack[t], d)
    BY <2>5, <2>6, <2>7, <2>9, Zenon DEF Less
  <2> QED BY <2>8, <2>10, StackDescends
<1> QED BY <1>4, <1>8, <1>9

\* Answer: the callback is gone, and the prediction below it may leave its loop.
LEMMA AnswerDescends ==
  ASSUME Inv, Counted, NEW t \in Thread, Answer(t)
  PROVE  Descends(t) /\ Counted'
<1>1. PICK d : d = Depth(t)
  OBVIOUS
<1>2. Busy(t) /\ Instruction(Top(t)) = "answer"
  BY DEF Answer, At
<1>3. /\ stack[t] \in Seq(Frames) /\ d \in 1..Len(stack[t]) /\ d = Len(stack[t]) /\ Top(t) = stack[t][d]
      /\ Top(t).op = "callback" /\ GoodStack(t)
  BY <1>1, <1>2, TopCost, TopStep DEF StepFacts, Instruction, Inv, Types
<1>4. d \in {2, 4}
  BY <1>3 DEF GoodStack
<1>5. PICK n \in 0..Len(stack[t]) : n = d - 2 /\ n + 1 = d - 1 /\ n + 1 \in 1..Len(stack[t]) /\ n + 2 = d
  <2>1. /\ d - 2 \in 0..Len(stack[t]) /\ (d - 2) + 1 = d - 1 /\ (d - 2) + 2 = d
        /\ (d - 2) + 1 \in 1..Len(stack[t])
    <3>1. CASE d = 2
      BY <1>3, <3>1
    <3>2. CASE d = 4
      BY <1>3, <3>2
    <3> QED BY <1>4, <3>1, <3>2
  <2> QED BY <2>1
<1>6. PICK below : below = stack[t][n + 1]
  OBVIOUS
<1>7. /\ below \in Frames /\ below.left \in 0..MaxTokens /\ below.op \in Predictions
      /\ below.pc = Label(below.op, "token")
  <2>1. below \in Frames /\ below.left \in 0..MaxTokens
    BY <1>3, <1>5, <1>6 DEF Counted
  <2>2. stack[t][d - 1].op \in Predictions /\ stack[t][d - 1].pc = Label(stack[t][d - 1].op, "token")
    BY <1>3, <1>4 DEF GoodStack
  <2> QED BY <1>5, <1>6, <2>1, <2>2
<1>8. PICK f \in {below, Jump(below, "end")} :
        stack' = [stack EXCEPT ![t] = SubSeq(stack[t], 1, n) \o <<f>>]
  BY <1>1, <1>5, <1>6 DEF Answer
<1>9. f.left \in 0..MaxTokens /\ (f = below \/ Ahead(f) < Ahead(below))
  <2>1. CASE f = below
    BY <1>7, <2>1
  <2>2. CASE f = Jump(below, "end")
    <3>1. f.op = below.op /\ f.pc = Label(below.op, "end") /\ f.left = below.left
      BY <1>7, <2>2, JumpFrame
    <3>2. Cost(f.op, f.pc) < Cost(below.op, below.pc) /\ Cost(below.op, below.pc) \in 1..20
      <4>1. CASE below.op = "predict_cb"
        <5>1. below.pc = 7 /\ f.pc = 9 /\ f.op = "predict_cb"
          BY <1>7, <3>1, <4>1, LabelValues, Zenon
        <5>2. Program["predict_cb"][7] = "token" /\ Program["predict_cb"][9] = "end"
          BY DEF Program
        <5> QED BY <4>1, <5>1, <5>2 DEF Cost
      <4>2. CASE below.op = "predict"
        <5>1. below.pc = 3 /\ f.pc = 5 /\ f.op = "predict"
          BY <1>7, <3>1, <4>2, LabelValues, Zenon
        <5>2. Program["predict"][3] = "token" /\ Program["predict"][5] = "end"
          BY DEF Program
        <5> QED BY <4>2, <5>1, <5>2 DEF Cost
      <4> QED BY <1>7, <4>1, <4>2 DEF Predictions
    <3>3. Cost(f.op, f.pc) \in Int
      BY <1>7, <3>1, LabelValues DEF Cost, Predictions
    <3> QED BY <1>7, <3>1, <3>2, <3>3, Lower
  <2> QED BY <2>1, <2>2
<1>10. PICK s : s = SubSeq(stack[t], 1, n) \o <<f>>
  OBVIOUS
<1>11. /\ Len(s) = n + 1 /\ DOMAIN s = 1..(n + 1) /\ s[n + 1] = f
       /\ \A j \in 1..n : s[j] = stack[t][j]
  <2>1. <<f>> \in Seq({f}) /\ <<f>> # <<>> /\ Len(<<f>>) = 1 /\ <<f>>[1] = f
    OBVIOUS
  <2>2. PICK r \in Seq({f}) : r = <<f>> /\ r # <<>> /\ Len(r) = 1 /\ r[1] = f
    BY <2>1
  <2>3. s = SubSeq(stack[t], 1, n) \o r
    BY <1>10, <2>2
  <2> QED BY <1>3, <2>2, <2>3, Replaced
<1>12. ASSUME NEW j \in 1..Len(s) PROVE s[j].left \in 0..MaxTokens
  <2>1. j \in 1..n \/ j = n + 1
    BY <1>5, <1>11, <1>12
  <2>2. ASSUME j \in 1..n PROVE s[j].left \in 0..MaxTokens
    <3>1. j \in 1..Len(stack[t]) /\ s[j] = stack[t][j]
      BY <1>5, <1>11, <2>2
    <3> QED BY <3>1 DEF Counted
  <2> QED BY <1>9, <1>11, <2>1, <2>2
<1>13. stack' = [stack EXCEPT ![t] = s]
  BY <1>8, <1>10
<1>14. DOMAIN stack[t] = 1..(n + 2)
  BY <1>3, <1>5
<1>15. CASE f = below
  <2>1. n + 2 \in DOMAIN stack[t] /\ n + 2 \notin DOMAIN s
    BY <1>5, <1>11, <1>14
  <2>2. \A j \in DOMAIN stack[t] : j < n + 2 => j \in DOMAIN s /\ s[j] = stack[t][j]
    BY <1>5, <1>6, <1>11, <1>14, <1>15
  <2>3. Less(s, stack[t], n + 2)
    BY <1>12, <2>1, <2>2, Zenon DEF Less
  <2> QED BY <1>13, <2>3, StackDescends
<1>16. CASE Ahead(f) < Ahead(below)
  <2>1. n + 1 \in DOMAIN stack[t] /\ Ahead(s[n + 1]) < Ahead(stack[t][n + 1])
    BY <1>5, <1>6, <1>11, <1>14, <1>16
  <2>2. ASSUME NEW j \in DOMAIN stack[t], j < n + 1 PROVE j \in DOMAIN s /\ s[j] = stack[t][j]
    <3>1. j \in 1..n /\ j \in 1..(n + 1)
      BY <1>5, <1>14, <2>2
    <3> QED BY <1>11, <3>1
  <2>3. Less(s, stack[t], n + 1)
    BY <1>12, <2>1, <2>2, Zenon DEF Less
  <2> QED BY <1>13, <2>3, StackDescends
<1> QED BY <1>9, <1>15, <1>16

\* Every step of a method descends, and leaves the other goroutines' stacks alone.
LEMMA StepDescends ==
  ASSUME Inv, Inv', Counted, NEW t \in Thread, Step(t)
  PROVE  Descends(t) /\ Counted' /\ \A u \in Thread : u # t => stack'[u] = stack[u]
<1>1. CASE \/ Lock(t) \/ Unlock(t) \/ FreeModel(t) \/ Announce(t) \/ Store(t) \/ Erase(t)
           \/ CallbackRuns(t) \/ ReadKey(t) \/ End(t)
  <2>1. Shape(t)
    BY <1>1, LockKeeps, UnlockKeeps, FreeModelKeeps, PlainKeeps, EnterKeeps
  <2> QED BY <1>1, <2>1, StraightDescends DEF Shape
<1>2. CASE Check(t) \/ Begin(t)
  BY <1>2, BranchDescends, EnterKeeps DEF Shape
<1>3. CASE Token(t)
  BY <1>3, TokenDescends, EnterKeeps DEF Shape
<1>4. CASE Return(t)
  BY <1>4, ReturnDescends, ReturnKeeps DEF Shape
<1>5. CASE CallBack(t)
  BY <1>5, CallBackDescends, CallBackKeeps DEF Shape
<1>6. CASE CallbackCalls(t)
  BY <1>6, CallDescends, CallbackCallsKeeps DEF Shape
<1>7. CASE Answer(t)
  BY <1>7, AnswerDescends, AnswerKeeps DEF Shape
<1> QED BY <1>1, <1>2, <1>3, <1>4, <1>5, <1>6, <1>7 DEF Step

\* No call has more tokens than it started with.
LEMMA CountedNext == Inv /\ Inv' /\ Counted /\ [Next]_vars => Counted'
<1> SUFFICES ASSUME Inv, Inv', Counted, [Next]_vars PROVE Counted'
  OBVIOUS
<1>1. CASE stack' = stack
  BY <1>1 DEF Counted
<1>2. ASSUME NEW t \in Thread, Step(t) PROVE Counted'
  BY <1>2, StepDescends
<1>3. ASSUME NEW t \in Thread, Start(t) PROVE Counted'
  <2>1. PICK op \in Ops, h \in uses[t] : stack' = [stack EXCEPT ![t] = <<Frame(op, h)>>]
    BY <1>3 DEF Start
  <2>2. PICK s : s = <<Frame(op, h)>> /\ Len(s) = 1 /\ s[1].left \in 0..MaxTokens
    <3>1. Len(<<Frame(op, h)>>) = 1 /\ <<Frame(op, h)>>[1] = Frame(op, h)
      OBVIOUS
    <3> QED BY <3>1, FullFrame, Zenon
  <2>3. stack'[t] = s /\ \A u \in Thread : u # t => stack'[u] = stack[u]
    BY <2>1, <2>2 DEF Inv, Types
  <2>4. ASSUME NEW u \in Thread, NEW k \in 1..Len(stack'[u]) PROVE stack'[u][k].left \in 0..MaxTokens
    <3>1. CASE u = t
      <4>1. k \in 1..1
        BY <2>2, <2>3, <2>4, <3>1, Zenon
      <4>2. k = 1
        BY <4>1
      <4> QED BY <2>2, <2>3, <3>1, <4>2, Zenon
    <3>2. CASE u # t
      BY <2>3, <2>4, <3>2, Zenon DEF Counted
    <3> QED BY <3>1, <3>2
  <2> QED BY <2>4 DEF Counted
<1> QED BY <1>1, <1>2, <1>3 DEF Next, Done, New, vars

\* At the start there are no calls.
LEMMA CountedInit == Init => Counted
<1> SUFFICES ASSUME Init, NEW t \in Thread PROVE \A k \in 1..Len(stack[t]) : stack[t][k].left \in 0..MaxTokens
  BY DEF Counted
<1>1. Len(stack[t]) = 0
  BY DEF Init
<1> QED BY <1>1

\* A goroutine in a method moves by its own steps only.
LEMMA BusyAdvances ==
  ASSUME Inv, Inv', Counted, [Next]_vars, NEW t \in Thread, Busy(t)
  PROVE  IF Step(t) THEN Descends(t) ELSE stack'[t] = stack[t]
<1>1. CASE Step(t)
  BY <1>1, StepDescends
<1>2. CASE ~Step(t)
  <2>1. CASE stack' = stack
    BY <1>2, <2>1
  <2>2. ASSUME NEW u \in Thread, Step(u) PROVE stack'[t] = stack[t]
    <3>1. u # t
      BY <1>2, <2>2
    <3> QED BY <2>2, <3>1, StepDescends
  <2>3. ASSUME NEW u \in Thread, Start(u) PROVE stack'[t] = stack[t]
    <3>1. u # t
      BY <2>3 DEF Start
    <3> QED BY <2>3, <3>1, StartKeeps DEF Shape
  <2> QED BY <1>2, <2>1, <2>2, <2>3 DEF Next, Done, New, vars
<1> QED BY <1>1, <1>2

\* The order that the stacks descend in is bounded.
LEMMA CountedIsFinite == Inv /\ Counted => Finite
<1> SUFFICES ASSUME Inv, Counted, NEW t \in Thread, NEW k \in 1..Len(stack[t])
             PROVE  Ahead(stack[t][k]) \in 1..20 * MaxTokens + 20
  BY DEF Finite, Inv, Types, GoodStack
<1>1. stack[t][k] \in Frames /\ GoodFrame(stack[t][k]) /\ stack[t][k].left \in 0..MaxTokens
  BY DEF Inv, Types, GoodStack, GoodFrame, Counted
<1>2. Cost(stack[t][k].op, stack[t][k].pc) \in 1..20
  BY <1>1, Costs DEF CostFacts, GoodFrame, Frames
<1>3. PICK a \in 0..MaxTokens, c \in 1..20 :
        a = stack[t][k].left /\ c = Cost(stack[t][k].op, stack[t][k].pc)
  BY <1>1, <1>2
<1>4. 20 * a + c \in 1..20 * MaxTokens + 20
  BY TokensAssumption
<1> QED BY <1>3, <1>4 DEF Ahead

\* No method goes on forever: each of its steps brings it nearer to its return, and
\* what the other goroutines do does not set it back. A callback that calls methods,
\* tokens that go on without end and addresses that are reused do not change that.
THEOREM MethodsComeToAnEnd == Spec => MethodsAdvance /\ []Finite
<1>1. /\ Inv /\ Inv' /\ Counted /\ [Next]_vars
      => [\A t \in Thread : Busy(t) => IF Step(t) THEN Descends(t) ELSE stack'[t] = stack[t]]_vars
  BY BusyAdvances
<1> QED
  BY <1>1, InitHolds, NextKeeps, CountedInit, CountedNext, CountedIsFinite, PTL DEF Spec, MethodsAdvance

---------------------------------------------------------------------------
(* Goroutines that share no handle.  Until it is used, the pointer a method *)
(* noted down is the one its handle still has, and an entry of the map is  *)
(* that of the handle at its address: of SetTokenCallback, or of the       *)
(* prediction that will remove it.  A method called by a callback gets     *)
(* nowhere that matters: it waits for l.mu, which the prediction has, or   *)
(* for m, which tokenCallback has.                                         *)

\* Where a method will still use the pointer it noted down, and where a method
\* called by a callback can get to.
Keyed == [predict_cb |-> (2..3) \cup (5..12), predict |-> {}, locked |-> {}, info |-> {},
          set_callback |-> 2..3, free |-> 3..4, callback |-> {}]
Nested == [predict_cb |-> 1..3, predict |-> 1..1, locked |-> 1..1, info |-> 1..4,
           set_callback |-> 1..3, free |-> 1..1, callback |-> {}]

\* A call, at depth k of goroutine t, on that goroutine's handle h.
Owned(t, k, h, f) ==
    /\ f.h = h /\ h \in uses[t] /\ f.heard = "right"
    /\ f.pc \in Keyed[f.op] => f.key = state[h]
    /\ k >= 3 => f.pc \in Nested[f.op]

OwnFrames == \A t \in Thread : \A k \in 1..Len(stack[t]) : Owned(t, k, stack[t][1].h, stack[t][k])

\* From setCallback to the deferred one, and between Free's and the C side's free.
Registers(f) == f.op = "predict_cb" /\ f.pc \in 4..12
Frees(f) == f.op = "free" /\ f.pc = 5
Registering(t) == Len(stack[t]) > 0 /\ Registers(stack[t][1])
Freeing(t) == Len(stack[t]) > 0 /\ Frees(stack[t][1])
Registration(t) == [h |-> stack[t][1].h, by |-> <<t, 1>>]

Owner(a) ==
    /\ state[callbacks[a].h] = a
    /\ callbacks[a].by # <<"user">> => \E t \in Thread : Registering(t) /\ callbacks[a] = Registration(t)
OwnEntries ==
    /\ \A a \in Addr : callbacks[a] # Nil => Owner(a)
    /\ \A t \in Thread : Len(stack[t]) > 0 /\ state[stack[t][1].h] \in Addr =>
         /\ Registering(t) => callbacks[state[stack[t][1].h]] = Registration(t)
         /\ Freeing(t) => callbacks[state[stack[t][1].h]] = Nil

Own == Inv /\ (Disjoint => OwnFrames /\ OwnEntries)

\* What the step at pc says about the pointer and the entry.
OwnFacts(op, pc) ==
    LET step == Program[op][pc] IN
    /\ step \notin {"read_set", "read_clear", "check", "return", "answer"} =>
         (pc + 1 \in Keyed[op] => pc \in Keyed[op])
    /\ op = "predict_cb" /\ step \notin {"store", "erase"} => (pc + 1 \in 4..12 <=> pc \in 4..12)
    /\ op = "free" /\ step # "erase" => pc + 1 # 5
    /\ step = "store" => op \in {"predict_cb", "set_callback"} /\ pc = 3 /\ pc \in Keyed[op]
    /\ step = "erase" => /\ (op = "predict_cb" /\ pc = 12) \/ (op = "free" /\ pc = 4)
                         /\ pc \in Keyed[op]
    /\ step = "free" => op = "free" /\ pc = 5
    /\ step = "return" => pc \notin 4..12 \/ op # "predict_cb"
    /\ step = "check" => op \in {"free", "info"} /\ pc + 1 # 5
    /\ step \in {"token", "call"} => op = "predict" \/ (op = "predict_cb" /\ pc \in 7..8)
    /\ pc \in Nested[op] =>
         /\ step \notin {"erase", "free", "call", "token", "unlock", "read_clear", "body", "answer"}
         /\ step \notin {"lock", "store", "return"} => pc + 1 \in Nested[op]
         /\ step \in {"check", "begin", "end"} => op = "info"

\* The programs have these facts.
LEMMA OwnPrograms ==
  ASSUME NEW op \in Methods, NEW pc \in 1..Len(Program[op])
  PROVE  OwnFacts(op, pc)
<1>1. CASE op = "predict_cb"
  <2>1. Program[op] = <<"read_set", "announce", "store", "read_clear", "lock", "begin",
                        "token", "call", "end", "unlock", "announce", "erase", "return">>
    BY <1>1 DEF Program
  <2>2. pc \in 1..13
    BY <2>1
  <2>3. Keyed[op] = (2..3) \cup (5..12) /\ Nested[op] = 1..3
    BY <1>1 DEF Keyed, Nested
  <2> QED BY <1>1, <2>1, <2>2, <2>3 DEF OwnFacts
<1>2. CASE op = "predict"
  <2>1. Program[op] = <<"lock", "begin", "token", "call", "end", "unlock", "return">>
    BY <1>2 DEF Program
  <2>2. pc \in 1..7
    BY <2>1
  <2>3. Keyed[op] = {} /\ Nested[op] = 1..1
    BY <1>2 DEF Keyed, Nested
  <2> QED BY <1>2, <2>1, <2>2, <2>3 DEF OwnFacts
<1>3. CASE op = "locked"
  <2>1. Program[op] = <<"lock", "begin", "end", "unlock", "return">>
    BY <1>3 DEF Program
  <2>2. pc \in 1..5
    BY <2>1
  <2>3. Keyed[op] = {} /\ Nested[op] = 1..1
    BY <1>3 DEF Keyed, Nested
  <2> QED BY <1>3, <2>1, <2>2, <2>3 DEF OwnFacts
<1>4. CASE op = "info"
  <2>1. Program[op] = <<"check", "begin", "end", "return">>
    BY <1>4 DEF Program
  <2>2. pc \in 1..4
    BY <2>1
  <2>3. Keyed[op] = {} /\ Nested[op] = 1..4
    BY <1>4 DEF Keyed, Nested
  <2> QED BY <1>4, <2>1, <2>2, <2>3 DEF OwnFacts
<1>5. CASE op = "set_callback"
  <2>1. Program[op] = <<"read_set", "announce", "store", "return">>
    BY <1>5 DEF Program
  <2>2. pc \in 1..4
    BY <2>1
  <2>3. Keyed[op] = 2..3 /\ Nested[op] = 1..3
    BY <1>5 DEF Keyed, Nested
  <2> QED BY <1>5, <2>1, <2>2, <2>3 DEF OwnFacts
<1>6. CASE op = "free"
  <2>1. Program[op] = <<"lock", "check", "announce", "erase", "free", "unlock", "return">>
    BY <1>6 DEF Program
  <2>2. pc \in 1..7
    BY <2>1
  <2>3. Keyed[op] = 3..4 /\ Nested[op] = 1..1
    BY <1>6 DEF Keyed, Nested
  <2> QED BY <1>6, <2>1, <2>2, <2>3 DEF OwnFacts
<1>7. CASE op = "callback"
  <2>1. Program[op] = <<"body", "answer">>
    BY <1>7 DEF Program
  <2>2. pc \in 1..2
    BY <2>1
  <2>3. Keyed[op] = {} /\ Nested[op] = {}
    BY <1>7 DEF Keyed, Nested
  <2> QED BY <1>7, <2>1, <2>2, <2>3 DEF OwnFacts
<1> QED BY <1>1, <1>2, <1>3, <1>4, <1>5, <1>6, <1>7 DEF Methods

\* Where a jump leads, as to the pointer and to methods within callbacks.
LEMMA OwnLabels ==
  /\ Label("predict_cb", "token") \in Keyed["predict_cb"] /\ Label("predict_cb", "end") \in Keyed["predict_cb"]
  /\ Label("predict_cb", "token") \in 4..12 /\ Label("predict_cb", "end") \in 4..12
  /\ Label("predict_cb", "unlock") \in Keyed["predict_cb"] /\ Label("predict_cb", "unlock") \in 4..12
  /\ Label("free", "unlock") \notin Keyed["free"] /\ Label("free", "unlock") # 5
  /\ Label("info", "return") \in Nested["info"]
  /\ Keyed["predict"] = {} /\ Keyed["locked"] = {} /\ Keyed["info"] = {} /\ Keyed["callback"] = {}
  /\ Nested["callback"] = {}
  /\ \A op \in Methods \ {"callback"} : 1 \in Nested[op]
  /\ \A op \in Methods : 1 \notin Keyed[op]
<1>1. \A op \in Methods : (op # "callback" => 1 \in Nested[op]) /\ 1 \notin Keyed[op]
  <2> SUFFICES ASSUME NEW op \in Methods PROVE (op # "callback" => 1 \in Nested[op]) /\ 1 \notin Keyed[op]
    OBVIOUS
  <2>1. CASE op = "predict_cb"
    BY <2>1 DEF Nested, Keyed
  <2>2. CASE op \in {"predict", "locked"}
    BY <2>2 DEF Nested, Keyed
  <2>3. CASE op = "info"
    BY <2>3 DEF Nested, Keyed
  <2>4. CASE op = "set_callback"
    BY <2>4 DEF Nested, Keyed
  <2>5. CASE op = "free"
    BY <2>5 DEF Nested, Keyed
  <2>6. CASE op = "callback"
    BY <2>6 DEF Nested, Keyed
  <2> QED BY <2>1, <2>2, <2>3, <2>4, <2>5, <2>6 DEF Methods
<1>2. Keyed["predict_cb"] = (2..3) \cup (5..12) /\ Keyed["free"] = 3..4 /\ Nested["info"] = 1..4
      /\ Keyed["predict"] = {} /\ Keyed["locked"] = {} /\ Keyed["info"] = {} /\ Keyed["callback"] = {}
      /\ Nested["callback"] = {}
  BY DEF Keyed, Nested
<1> QED BY <1>1, <1>2, LabelValues

---------------------------------------------------------------------------
\* The other goroutines do not notice what t does with its own handles.
LEMMA OthersOwn ==
  ASSUME Inv, Disjoint, OwnFrames, NEW t \in Thread, uses' = uses,
         \A h \in Handle : h \notin uses[t] => state'[h] = state[h],
         \A u \in Thread : u # t => stack'[u] = stack[u],
         \A k \in 1..Len(stack'[t]) : Owned(t, k, stack[t][1].h, stack[t][k])'
  PROVE  OwnFrames'
<1> SUFFICES ASSUME NEW u \in Thread, NEW k \in 1..Len(stack'[u])
             PROVE  Owned(u, k, stack[u][1].h, stack[u][k])'
  BY DEF OwnFrames
<1>1. CASE u # t
  <2>1. stack'[u] = stack[u] /\ k \in 1..Len(stack[u])
    BY <1>1
  <2>2. Owned(u, k, stack[u][1].h, stack[u][k])
    BY <2>1 DEF OwnFrames
  <2>3. stack[u][k].h \in Handle
    BY <2>1 DEF Inv, Types, GoodStack, GoodFrame, Frames
  <2>4. stack[u][k].h = stack[u][1].h /\ stack[u][1].h \notin uses[t]
    BY <1>1, <2>2 DEF Owned, Disjoint
  <2>5. state'[stack[u][1].h] = state[stack[u][1].h]
    BY <2>3, <2>4
  <2> QED BY <2>1, <2>2, <2>5 DEF Owned
<1>2. CASE u = t
  BY <1>2
<1> QED BY <1>1, <1>2

\* A step that leaves the map and the pointers alone, and neither starts nor ends
\* a registration.
LEMMA EntriesKept ==
  ASSUME OwnEntries, NEW t \in Thread, UNCHANGED <<state, callbacks>>,
         \A u \in Thread : u # t => stack'[u] = stack[u],
         Registering(t)' <=> Registering(t), Freeing(t)' => Freeing(t),
         Registering(t)' \/ Freeing(t)' => stack'[t][1].h = stack[t][1].h
  PROVE  OwnEntries'
<1>1. \A u \in Thread : u # t => /\ Registering(u)' <=> Registering(u)
                                 /\ Freeing(u)' <=> Freeing(u)
                                 /\ Registration(u)' = Registration(u)
  BY DEF Registering, Freeing, Registration
<1>2. Registering(t)' => Registration(t)' = Registration(t)
  BY DEF Registration
<1>3. ASSUME NEW a \in Addr, callbacks'[a] # Nil PROVE Owner(a)'
  <2>1. Owner(a)
    BY <1>3 DEF OwnEntries
  <2>2. ASSUME NEW u \in Thread, Registering(u), callbacks[a] = Registration(u)
        PROVE  Registering(u)' /\ callbacks'[a] = Registration(u)'
    BY <1>1, <1>2, <2>2
  <2> QED BY <2>1, <2>2 DEF Owner
<1>4. ASSUME NEW u \in Thread, Len(stack'[u]) > 0, state'[stack'[u][1].h] \in Addr
      PROVE  /\ Registering(u)' => callbacks'[state'[stack'[u][1].h]] = Registration(u)'
             /\ Freeing(u)' => callbacks'[state'[stack'[u][1].h]] = Nil
  <2>1. CASE u # t
    BY <1>1, <1>4, <2>1 DEF OwnEntries
  <2>2. CASE u = t
    BY <1>2, <1>4, <2>2 DEF OwnEntries, Registering, Freeing
  <2> QED BY <2>1, <2>2
<1> QED BY <1>3, <1>4 DEF OwnEntries

\* A step that replaces the frame on top.
LEMMA OwnTop ==
  ASSUME Inv, Disjoint, OwnFrames, OwnEntries, NEW t \in Thread, Busy(t), NEW f \in Frames,
         SetTop(t, f), UNCHANGED <<uses, state, callbacks>>,
         f.op = Top(t).op, f.h = Top(t).h, f.heard = "right",
         f.pc \in Keyed[f.op] => f.key = state[f.h],
         Depth(t) >= 3 => f.pc \in Nested[f.op],
         Depth(t) = 1 => (Registers(f) <=> Registers(Top(t))) /\ (Frees(f) => Frees(Top(t)))
  PROVE  OwnFrames' /\ OwnEntries'
<1>0. Types
  BY DEF Inv
<1>1. /\ Depth(t) \in 1..Len(stack[t]) /\ Depth(t) = Len(stack[t]) /\ Len(stack'[t]) = Len(stack[t])
      /\ stack'[t][Depth(t)] = f /\ Top(t) = stack[t][Depth(t)] /\ 1 \in 1..Len(stack[t])
      /\ \A k \in 1..Len(stack[t]) : k # Depth(t) => stack'[t][k] = stack[t][k]
      /\ \A u \in Thread : u # t => stack'[u] = stack[u]
  BY <1>0, TopFacts DEF Top
<1>2. \A k \in 1..Len(stack[t]) : Owned(t, k, stack[t][1].h, stack[t][k])
  BY DEF OwnFrames
<1>3. stack'[t][1].h = stack[t][1].h
  BY <1>1
<1>4. ASSUME NEW k \in 1..Len(stack'[t]) PROVE Owned(t, k, stack[t][1].h, stack[t][k])'
  <2>1. CASE k = Depth(t)
    <3>1. Owned(t, k, stack[t][1].h, Top(t))
      BY <1>1, <1>2, <2>1
    <3>2. stack'[t][k] = f
      BY <1>1, <2>1
    <3> QED BY <1>3, <2>1, <3>1, <3>2 DEF Owned
  <2>2. CASE k # Depth(t)
    <3>1. Owned(t, k, stack[t][1].h, stack[t][k]) /\ stack'[t][k] = stack[t][k]
      BY <1>1, <1>2, <2>2
    <3> QED BY <1>3, <3>1 DEF Owned
  <2> QED BY <2>1, <2>2
<1>5. OwnFrames'
  BY <1>1, <1>4, OthersOwn
<1>6. (Registering(t)' <=> Registering(t)) /\ (Freeing(t)' => Freeing(t))
  <2>1. CASE Depth(t) = 1
    BY <1>1, <2>1 DEF Registering, Freeing
  <2>2. CASE Depth(t) # 1
    <3>1. stack'[t][1] = stack[t][1]
      BY <1>1, <2>2
    <3> QED BY <1>1, <3>1 DEF Registering, Freeing
  <2> QED BY <2>1, <2>2
<1>7. OwnEntries'
  BY <1>1, <1>3, <1>6, EntriesKept
<1> QED BY <1>5, <1>7

\* What Own says of the call on top.
LEMMA TopOwned ==
  ASSUME Inv, OwnFrames, NEW t \in Thread, Busy(t)
  PROVE  /\ Owned(t, Depth(t), stack[t][1].h, Top(t)) /\ OwnFacts(Top(t).op, Top(t).pc)
         /\ Depth(t) \in 1..4 /\ Depth(t) = Len(stack[t]) /\ Top(t) \in Frames /\ GoodFrame(Top(t))
         /\ Top(t).h = stack[t][1].h
         /\ Depth(t) = 1 => Top(t) = stack[t][1]
         /\ Top(t).h \in Handle
<1>1. /\ Depth(t) \in 1..4 /\ Depth(t) = Len(stack[t]) /\ Depth(t) \in 1..Len(stack[t])
  BY DEF Inv, Types, GoodStack, Busy, Depth
<1>2. Owned(t, Depth(t), stack[t][1].h, Top(t))
  BY <1>1 DEF OwnFrames, Top
<1>3. Top(t) \in Frames /\ GoodFrame(Top(t))
  BY TopStep
<1>4. OwnFacts(Top(t).op, Top(t).pc)
  BY <1>3, OwnPrograms DEF GoodFrame, Frames
<1> QED BY <1>1, <1>2, <1>3, <1>4 DEF Owned, Top, Frames

\* A method called by a callback gets past neither l.mu nor m.
LEMMA NestedWaits ==
  ASSUME Inv, OwnFrames, NEW t \in Thread, Busy(t), Depth(t) >= 3
  PROVE  mu[Top(t).h] = t /\ ~NoReaders /\ Top(t).pc \in Nested[Top(t).op]
<1>1. /\ Owned(t, Depth(t), stack[t][1].h, Top(t)) /\ Depth(t) \in 3..4 /\ Depth(t) = Len(stack[t])
      /\ Top(t).h = stack[t][1].h
  BY TopOwned
<1>2. stack[t][1].op \in Predictions /\ stack[t][1].pc = Label(stack[t][1].op, "token")
  <2>1. 2 \in {2, 4} /\ 2 <= Len(stack[t]) /\ 2 - 1 = 1
    BY <1>1
  <2> QED BY <2>1 DEF Inv, Types, GoodStack
<1>3. Holds(stack[t][1])
  BY <1>2, Labels DEF Holds
<1>4. mu[stack[t][1].h] = t
  BY <1>1, <1>3 DEF Inv, Locks
<1>5. m.readers[t] # 0
  <2>1. CallbacksOn(Len(stack[t])) # 0
    BY <1>1 DEF CallbacksOn
  <2> QED BY <2>1 DEF Inv, Readers
<1> QED BY <1>1, <1>4, <1>5 DEF Owned, NoReaders

---------------------------------------------------------------------------
\* The next step of the same method.
LEMMA OwnForward ==
  ASSUME Inv, Disjoint, OwnFrames, OwnEntries, NEW t \in Thread, Busy(t), NEW f \in Frames,
         SetTop(t, f), UNCHANGED <<uses, state, callbacks>>,
         f.op = Top(t).op, f.h = Top(t).h, f.heard = Top(t).heard, f.pc = Top(t).pc + 1,
         \/ f.key = state[Top(t).h]
         \/ f.key = Top(t).key /\ Instruction(Top(t)) \notin {"read_set", "read_clear", "check"},
         Instruction(Top(t)) \notin {"store", "erase", "return", "answer"},
         Depth(t) >= 3 => Instruction(Top(t)) # "lock"
  PROVE  OwnFrames' /\ OwnEntries'
<1>1. /\ Owned(t, Depth(t), stack[t][1].h, Top(t)) /\ OwnFacts(Top(t).op, Top(t).pc)
      /\ Depth(t) \in 1..4 /\ Top(t).h = stack[t][1].h
  BY TopOwned
<1>2. f.pc \in Keyed[f.op] => f.key = state[f.h]
  BY <1>1 DEF Owned, OwnFacts, Instruction
<1>3. Depth(t) >= 3 => f.pc \in Nested[f.op]
  BY <1>1 DEF Owned, OwnFacts, Instruction
<1>4. (Registers(f) <=> Registers(Top(t))) /\ (Frees(f) => Frees(Top(t)))
  BY <1>1 DEF Registers, Frees, OwnFacts, Instruction
<1>5. f.heard = "right"
  BY <1>1 DEF Owned
<1> QED BY <1>2, <1>3, <1>4, <1>5, OwnTop

\* Forward changes nothing but pc.
LEMMA ForwardOf ==
  ASSUME Inv, NEW t \in Thread, Busy(t)
  PROVE  /\ Forward(Top(t)) \in Frames /\ Forward(Top(t)).op = Top(t).op /\ Forward(Top(t)).h = Top(t).h
         /\ Forward(Top(t)).pc = Top(t).pc + 1 /\ Forward(Top(t)).key = Top(t).key
         /\ Forward(Top(t)).heard = Top(t).heard /\ Forward(Top(t)).c_state = Top(t).c_state
         /\ Forward(Top(t)).left = Top(t).left
<1>1. Top(t) \in Frames
  BY TopStep
<1> QED BY <1>1 DEF Frames, Forward

\* Steps that only move on, or note down the pointer that the handle has now.
LEMMA OwnPlain ==
  ASSUME Inv, Disjoint, OwnFrames, OwnEntries, NEW t \in Thread,
         Lock(t) \/ Unlock(t) \/ Announce(t) \/ ReadKey(t) \/ End(t) \/ CallbackRuns(t)
  PROVE  OwnFrames' /\ OwnEntries'
<1>1. Busy(t) /\ UNCHANGED <<uses, state, callbacks>>
  BY DEF Lock, Unlock, Announce, ReadKey, End, CallbackRuns, At
<1>2. Top(t) \in Frames /\ Top(t).h \in Handle /\ Types
  BY <1>1, TopOwned DEF Inv
<1>3. PICK g \in Frames :
        /\ g = Forward(Top(t)) /\ g.op = Top(t).op /\ g.h = Top(t).h /\ g.pc = Top(t).pc + 1
        /\ g.key = Top(t).key /\ g.heard = Top(t).heard
  BY <1>1, ForwardOf
<1>4. CASE Lock(t)
  <2>1. SetTop(t, g) /\ Instruction(Top(t)) = "lock" /\ mu[Top(t).h] = Nil
    BY <1>3, <1>4 DEF Lock, Continue, At, Unlocked
  <2>2. ~(Depth(t) >= 3)
    BY <1>1, <2>1, NestedWaits, NilAssumption
  <2> QED BY <1>1, <1>3, <2>1, <2>2, OwnForward
<1>5. CASE Unlock(t) \/ Announce(t) \/ CallbackRuns(t)
  <2>1. SetTop(t, g) /\ Instruction(Top(t)) \in {"unlock", "announce", "body"}
    BY <1>3, <1>5 DEF Unlock, Announce, CallbackRuns, Continue, At
  <2> QED BY <1>1, <1>3, <2>1, OwnForward
<1>6. CASE ReadKey(t)
  <2>1. PICK f : f = [g EXCEPT !.key = state[Top(t).h]]
    OBVIOUS
  <2>2. SetTop(t, f) /\ Instruction(Top(t)) \in {"read_set", "read_clear"}
    BY <1>3, <1>6, <2>1 DEF ReadKey, At
  <2>3. state[Top(t).h] \in Addr \cup {Nil, "unborn"}
    BY <1>2 DEF Types
  <2>4. /\ f \in Frames /\ f.op = g.op /\ f.h = g.h /\ f.pc = g.pc /\ f.heard = g.heard
        /\ f.key = state[Top(t).h]
    BY <2>1, <2>3 DEF Frames
  <2> QED BY <1>1, <1>3, <2>2, <2>4, OwnForward
<1>7. CASE End(t)
  <2>1. PICK f : f = [g EXCEPT !.c_state = Nil]
    OBVIOUS
  <2>2. SetTop(t, f) /\ Instruction(Top(t)) = "end"
    BY <1>3, <1>7, <2>1 DEF End, At
  <2>3. /\ f \in Frames /\ f.op = g.op /\ f.h = g.h /\ f.pc = g.pc /\ f.heard = g.heard /\ f.key = g.key
    BY <2>1 DEF Frames
  <2> QED BY <1>1, <1>3, <2>2, <2>3, OwnForward
<1> QED BY <1>4, <1>5, <1>6, <1>7

\* A jump to a label.
LEMMA OwnJump ==
  ASSUME Inv, Disjoint, OwnFrames, OwnEntries, NEW t \in Thread, Busy(t), NEW f \in Frames,
         NEW step, SetTop(t, f), UNCHANGED <<uses, state, callbacks>>,
         f.op = Top(t).op, f.h = Top(t).h, f.heard = "right", f.key = Top(t).key,
         f.pc = Label(f.op, step),
         \/ f.op \in Predictions /\ step \in {"token", "end"} /\ Instruction(Top(t)) \in {"token", "call"}
         \/ f.op \in Predictions \cup {"locked"} /\ step = "unlock" /\ Instruction(Top(t)) = "begin"
         \/ f.op = "free" /\ step = "unlock" /\ Instruction(Top(t)) = "check"
         \/ f.op = "info" /\ step = "return"
  PROVE  OwnFrames' /\ OwnEntries'
<1>1. /\ Owned(t, Depth(t), stack[t][1].h, Top(t)) /\ OwnFacts(Top(t).op, Top(t).pc)
      /\ Depth(t) \in 1..4 /\ Top(t).h = stack[t][1].h /\ Top(t) \in Frames
      /\ Top(t).pc \in 1..Len(Program[Top(t).op])
  BY TopOwned DEF GoodFrame
<1>2. Depth(t) >= 3 => f.op = "info" /\ step = "return"
  BY <1>1 DEF Owned, OwnFacts, Instruction, Predictions
<1>3. Depth(t) >= 3 => f.pc \in Nested[f.op]
  BY <1>2, OwnLabels
<1>4. /\ f.pc \in Keyed[f.op] => f.key = state[f.h]
      /\ Registers(f) <=> Registers(Top(t))
      /\ Frees(f) => Frees(Top(t))
  <2>1. CASE f.op = "predict_cb"
    <3>1. step \in {"token", "end", "unlock"} /\ f.pc \in 4..12
      BY <2>1, OwnLabels DEF Predictions
    <3>2. Top(t).pc \in 6..8
      <4>1. Program["predict_cb"] = <<"read_set", "announce", "store", "read_clear", "lock", "begin",
                                "token", "call", "end", "unlock", "announce", "erase", "return">>
        BY DEF Program
      <4>2. Top(t).pc \in 1..13
        BY <1>1, <2>1, <4>1
      <4>3. Program["predict_cb"][Top(t).pc] \in {"token", "call", "begin"}
        BY <2>1 DEF Instruction
      <4> QED BY <4>1, <4>2, <4>3
    <3>3. Keyed["predict_cb"] = (2..3) \cup (5..12)
      BY DEF Keyed
    <3>4. Top(t).pc \in Keyed["predict_cb"] /\ Top(t).pc \in 4..12
      BY <3>2, <3>3
    <3> QED BY <1>1, <2>1, <3>1, <3>4 DEF Registers, Frees, Owned
  <2>2. CASE f.op \in {"predict", "locked", "info"}
    BY <2>2, OwnLabels DEF Registers, Frees
  <2>3. CASE f.op = "free"
    BY <2>3, OwnLabels DEF Registers, Frees, Predictions
  <2> QED BY <2>1, <2>2, <2>3 DEF Predictions
<1> QED BY <1>3, <1>4, OwnTop

\* Jump changes nothing but pc.
LEMMA JumpOf ==
  ASSUME Inv, NEW t \in Thread, Busy(t), NEW step, Label(Top(t).op, step) \in Nat
  PROVE  LET f == Jump(Top(t), step)
         IN  /\ f \in Frames /\ f.op = Top(t).op /\ f.h = Top(t).h /\ f.pc = Label(Top(t).op, step)
             /\ f.key = Top(t).key /\ f.heard = Top(t).heard /\ f.c_state = Top(t).c_state
             /\ f.left = Top(t).left
<1>1. Top(t) \in Frames
  BY TopStep
<1> QED BY <1>1 DEF Frames, Jump

\* The labels that jumps use.
LEMMA LabelNumbers ==
  /\ \A op \in Predictions : \A step \in {"token", "end", "unlock"} : Label(op, step) \in Nat
  /\ Label("locked", "unlock") \in Nat /\ Label("free", "unlock") \in Nat /\ Label("info", "return") \in Nat
  BY LabelValues DEF Predictions

\* Check, Begin and Token move on or jump.
LEMMA OwnEnter ==
  ASSUME Inv, Disjoint, OwnFrames, OwnEntries, NEW t \in Thread, Check(t) \/ Begin(t) \/ Token(t)
  PROVE  OwnFrames' /\ OwnEntries'
<1>1. Busy(t) /\ UNCHANGED <<uses, state, callbacks>>
  BY DEF Check, Begin, Token, At
<1>2. /\ Top(t) \in Frames /\ Top(t).h \in Handle /\ Types /\ OwnFacts(Top(t).op, Top(t).pc)
      /\ StepFacts(Top(t).op, Top(t).pc) /\ Top(t).heard = "right" /\ GoodFrame(Top(t))
  BY <1>1, TopOwned, TopStep DEF Inv, Owned
<1>3. PICK g \in Frames :
        /\ g = Forward(Top(t)) /\ g.op = Top(t).op /\ g.h = Top(t).h /\ g.pc = Top(t).pc + 1
        /\ g.key = Top(t).key /\ g.heard = Top(t).heard /\ g.left = Top(t).left
  BY <1>1, ForwardOf
<1>4. state[Top(t).h] \in Addr \cup {Nil, "unborn"} /\ state[Top(t).h] # "unborn"
  BY <1>2 DEF Types, GoodFrame
<1>5. CASE Check(t)
  <2>1. Instruction(Top(t)) = "check" /\ Top(t).op \in {"free", "info"}
    BY <1>2, <1>5 DEF Check, At, OwnFacts, Instruction
  <2>2. CASE state[Top(t).h] # Nil
    <3>1. PICK f : f = [g EXCEPT !.key = state[Top(t).h]]
      OBVIOUS
    <3>2. SetTop(t, f)
      BY <1>3, <1>5, <2>2, <3>1 DEF Check
    <3>3. /\ f \in Frames /\ f.op = g.op /\ f.h = g.h /\ f.pc = g.pc /\ f.heard = g.heard
          /\ f.key = state[Top(t).h]
      BY <1>4, <3>1 DEF Frames
    <3> QED BY <1>1, <1>3, <2>1, <3>2, <3>3, OwnForward
  <2>3. CASE state[Top(t).h] = Nil /\ Top(t).op = "free"
    <3>1. SetTop(t, Jump(Top(t), "unlock"))
      BY <1>5, <2>3 DEF Check
    <3>2. Label(Top(t).op, "unlock") \in Nat
      BY <2>3, LabelNumbers
    <3> QED BY <1>1, <1>2, <2>1, <2>3, <3>1, <3>2, JumpOf, OwnJump
  <2>4. CASE state[Top(t).h] = Nil /\ Top(t).op = "info"
    <3>1. SetTop(t, Jump(Top(t), "return"))
      BY <1>5, <2>4 DEF Check
    <3>2. Label(Top(t).op, "return") \in Nat
      BY <2>4, LabelNumbers
    <3> QED BY <1>1, <1>2, <2>1, <2>4, <3>1, <3>2, JumpOf, OwnJump
  <2> QED BY <2>1, <2>2, <2>3, <2>4
<1>6. CASE Begin(t)
  <2>1. /\ Instruction(Top(t)) = "begin" /\ Top(t).op \in Predictions \cup {"locked", "info"}
    BY <1>2, <1>6 DEF Begin, At, StepFacts, Instruction
  <2>2. CASE state[Top(t).h] # Nil
    <3>1. PICK f : f = [g EXCEPT !.c_state = state[Top(t).h]]
      OBVIOUS
    <3>2. SetTop(t, f)
      BY <1>3, <1>6, <2>2, <3>1 DEF Begin, Pointer
    <3>3. f \in Frames /\ f.op = g.op /\ f.h = g.h /\ f.pc = g.pc /\ f.heard = g.heard /\ f.key = g.key
      BY <1>4, <2>2, <3>1 DEF Frames
    <3> QED BY <1>1, <1>3, <2>1, <3>2, <3>3, OwnForward
  <2>3. CASE state[Top(t).h] = Nil /\ Top(t).op # "info"
    <3>1. SetTop(t, Jump(Top(t), "unlock"))
      BY <1>6, <2>3 DEF Begin, Pointer
    <3>2. Label(Top(t).op, "unlock") \in Nat
      BY <2>1, <2>3, LabelNumbers
    <3> QED BY <1>1, <1>2, <2>1, <2>3, <3>1, <3>2, JumpOf, OwnJump
  <2>4. CASE state[Top(t).h] = Nil /\ Top(t).op = "info"
    <3>1. SetTop(t, Jump(Top(t), "return"))
      BY <1>6, <2>4 DEF Begin, Pointer
    <3>2. Label(Top(t).op, "return") \in Nat
      BY <2>4, LabelNumbers
    <3> QED BY <1>1, <1>2, <2>1, <2>4, <3>1, <3>2, JumpOf, OwnJump
  <2> QED BY <2>2, <2>3, <2>4
<1>7. CASE Token(t)
  <2>1. Instruction(Top(t)) = "token" /\ Top(t).op \in Predictions
    BY <1>2, <1>7 DEF Token, At, StepFacts, Instruction
  <2>2. CASE SetTop(t, [Forward(Top(t)) EXCEPT !.left = @ - 1])
    <3>1. PICK f : f = [g EXCEPT !.left = g.left - 1]
      OBVIOUS
    <3>2. SetTop(t, f)
      BY <1>3, <2>2, <3>1
    <3>3. f \in Frames /\ f.op = g.op /\ f.h = g.h /\ f.pc = g.pc /\ f.heard = g.heard /\ f.key = g.key
      BY <3>1 DEF Frames
    <3> QED BY <1>1, <1>3, <2>1, <3>2, <3>3, OwnForward
  <2>3. CASE SetTop(t, Jump(Top(t), "end"))
    <3>1. Label(Top(t).op, "end") \in Nat
      BY <2>1, LabelNumbers
    <3> QED BY <1>1, <1>2, <2>1, <2>3, <3>1, JumpOf, OwnJump
  <2> QED BY <1>7, <2>2, <2>3 DEF Token
<1> QED BY <1>5, <1>6, <1>7

\* Two handles with a context have contexts at different addresses.
LEMMA Apart ==
  ASSUME Inv, NEW g \in Handle, NEW h \in Handle, state[g] \in Addr, state[g] = state[h]
  PROVE  g = h
  BY DEF Inv, Pointers

\* A step on the outermost call that changes the map at that call's pointer.
LEMMA OwnSetEntry ==
  ASSUME Inv, Disjoint, OwnFrames, OwnEntries, NEW t \in Thread, Busy(t), NEW cb, SetEntry(t, cb),
         Depth(t) = 1, Instruction(Top(t)) \in {"store", "erase"},
         cb # Nil => /\ cb.h = Top(t).h
                     /\ cb.by # <<"user">> => Registering(t)' /\ cb = Registration(t)',
         Registering(t)' => cb = Registration(t)', Freeing(t)' => cb = Nil
  PROVE  OwnFrames' /\ OwnEntries'
<1>1. /\ Owned(t, 1, stack[t][1].h, Top(t)) /\ OwnFacts(Top(t).op, Top(t).pc) /\ Top(t) = stack[t][1]
      /\ Top(t).h \in Handle /\ Depth(t) = Len(stack[t]) /\ Types /\ Top(t).op # "callback"
  BY TopOwned DEF Inv, OwnFacts, Instruction
<1>2. PICK f \in Frames :
        /\ f = Forward(Top(t)) /\ f.op = Top(t).op /\ f.h = Top(t).h /\ f.pc = Top(t).pc + 1
        /\ f.key = Top(t).key /\ f.heard = Top(t).heard
  BY ForwardOf
<1>3. PICK h \in Handle : h = Top(t).h
  BY <1>1
<1>4. Top(t).key = state[h] /\ h \in uses[t]
  BY <1>1, <1>3 DEF Owned, OwnFacts, Instruction
<1>5. /\ callbacks' = IF state[h] \in Addr THEN [callbacks EXCEPT ![state[h]] = cb] ELSE callbacks
      /\ UNCHANGED <<uses, state>> /\ SetTop(t, f)
  BY <1>2, <1>4 DEF SetEntry, Inserted, Continue
<1>6. /\ Len(stack'[t]) = 1 /\ stack'[t][1] = f /\ \A u \in Thread : u # t => stack'[u] = stack[u]
  BY <1>1, <1>5, TopFacts
<1>7. /\ \A a \in Addr : a # state[h] => callbacks'[a] = callbacks[a]
      /\ state[h] \in Addr => callbacks'[state[h]] = cb
  BY <1>1, <1>5 DEF Types
<1>8. OwnFrames'
  <2>1. f.pc \in Keyed[f.op] => f.key = state[f.h]
    BY <1>2, <1>3, <1>4
  <2>2. ASSUME NEW k \in 1..Len(stack'[t]) PROVE Owned(t, k, stack[t][1].h, stack[t][k])'
    <3>1. k = 1
      BY <1>6
    <3> QED BY <1>1, <1>2, <1>5, <1>6, <2>1, <3>1 DEF Owned
  <2> QED BY <1>5, <1>6, <2>2, OthersOwn
<1>9. \A u \in Thread : u # t => /\ Registering(u)' <=> Registering(u)
                                 /\ Freeing(u)' <=> Freeing(u)
                                 /\ Registration(u)' = Registration(u)
  BY <1>6 DEF Registering, Freeing, Registration
<1>10. ASSUME NEW a \in Addr, callbacks'[a] # Nil PROVE Owner(a)'
  <2>1. CASE a = state[h]
    <3>1. callbacks'[a] = cb
      BY <1>7, <2>1
    <3> QED BY <1>3, <1>5, <1>10, <2>1, <3>1 DEF Owner
  <2>2. CASE a # state[h]
    <3>1. callbacks'[a] = callbacks[a] /\ Owner(a)
      BY <1>7, <1>10, <2>2 DEF OwnEntries
    <3>2. ASSUME NEW u \in Thread, Registering(u), callbacks[a] = Registration(u) PROVE u # t
      <4>1. SUFFICES ASSUME u = t PROVE FALSE
        OBVIOUS
      <4>2. callbacks[a].h = h
        BY <1>1, <1>3, <3>2, <4>1 DEF Registration
      <4> QED BY <2>2, <3>1, <4>2 DEF Owner
    <3> QED BY <1>5, <1>9, <3>1, <3>2 DEF Owner
  <2> QED BY <2>1, <2>2
<1>11. ASSUME NEW u \in Thread, Len(stack'[u]) > 0, state'[stack'[u][1].h] \in Addr
       PROVE  /\ Registering(u)' => callbacks'[state'[stack'[u][1].h]] = Registration(u)'
              /\ Freeing(u)' => callbacks'[state'[stack'[u][1].h]] = Nil
  <2>1. CASE u = t
    BY <1>2, <1>3, <1>5, <1>6, <1>7, <1>11, <2>1
  <2>2. CASE u # t
    <3>1. stack'[u] = stack[u] /\ Len(stack[u]) > 0 /\ 1 \in 1..Len(stack[u])
      BY <1>1, <1>6, <1>11, <2>2 DEF Types, GoodStack
    <3>2. stack[u][1].h \in Handle /\ stack[u][1].h \in uses[u]
      BY <1>1, <3>1 DEF Types, GoodStack, GoodFrame, Frames, OwnFrames, Owned
    <3>3. stack[u][1].h # h
      BY <1>4, <2>2, <3>2 DEF Disjoint
    <3>4. state[stack[u][1].h] \in Addr /\ state[stack[u][1].h] # state[h]
      BY <1>5, <1>11, <3>1, <3>2, <3>3, Apart
    <3> QED BY <1>5, <1>7, <1>9, <2>2, <3>1, <3>4 DEF OwnEntries
  <2> QED BY <2>1, <2>2
<1> QED BY <1>8, <1>10, <1>11 DEF OwnEntries

\* Store and Erase: a prediction registers its callback, and removes it with the
\* pointer it was registered under; Free removes what is left.
LEMMA OwnMap ==
  ASSUME Inv, Disjoint, OwnFrames, OwnEntries, NEW t \in Thread, Store(t) \/ Erase(t)
  PROVE  OwnFrames' /\ OwnEntries'
<1>1. PICK cb : /\ SetEntry(t, cb)
                /\ \/ Instruction(Top(t)) = "store" /\ cb = Registered(t)
                   \/ Instruction(Top(t)) = "erase" /\ cb = Nil
  BY DEF Store, Erase, At
<1>2. Busy(t) /\ NoReaders /\ SetTop(t, Forward(Top(t)))
  BY <1>1 DEF Store, Erase, At, SetEntry, Continue
<1>3. /\ OwnFacts(Top(t).op, Top(t).pc) /\ Depth(t) \in 1..4 /\ Depth(t) = Len(stack[t])
      /\ (Depth(t) = 1 => Top(t) = stack[t][1])
      /\ stack[t] \in Seq(Frames) /\ Types
  BY <1>2, TopOwned DEF Inv, Types, GoodStack
<1>4. Depth(t) = 1
  <2>1. ~(Depth(t) >= 3)
    BY <1>2, NestedWaits
  <2>2. Depth(t) # 2
    <3>1. SUFFICES ASSUME Depth(t) = 2 PROVE FALSE
      OBVIOUS
    <3>2. CallbacksOn(Len(stack[t])) # 0
      BY <1>3, <3>1 DEF CallbacksOn
    <3> QED BY <1>2, <3>2 DEF Inv, Readers, NoReaders
  <2>3. Depth(t) \in 1..4
    BY <1>3
  <2> QED BY <2>1, <2>2, <2>3
<1>5. PICK f \in Frames : /\ f = Forward(Top(t)) /\ f.op = Top(t).op /\ f.h = Top(t).h /\ f.pc = Top(t).pc + 1
  BY <1>2, ForwardOf
<1>6. Len(stack'[t]) = 1 /\ stack'[t][1] = f
  <2>1. SetTop(t, f)
    BY <1>2, <1>5
  <2>2. Types /\ Busy(t) /\ f \in Frames
    BY <1>2, <1>3, <1>5
  <2>3. /\ Len(stack'[t]) = Len(stack[t]) /\ stack'[t][Depth(t)] = f
    BY <2>1, <2>2, TopFacts
  <2> QED BY <1>3, <1>4, <2>3
<1>7. CASE Instruction(Top(t)) = "store" /\ cb = Registered(t)
  <2>1. Top(t).op \in {"predict_cb", "set_callback"} /\ Top(t).pc = 3
    BY <1>3, <1>7 DEF OwnFacts, Instruction
  <2>2. cb.h = Top(t).h /\ ~Freeing(t)'
    BY <1>5, <1>6, <1>7, <2>1 DEF Registered, Freeing, Frees
  <2>3. CASE Top(t).op = "predict_cb"
    <3>1. Registering(t)' /\ cb = Registration(t)'
      BY <1>4, <1>5, <1>6, <1>7, <2>1, <2>3 DEF Registered, Registration, Registering, Registers
    <3> QED BY <1>1, <1>2, <1>4, <1>7, <2>2, <3>1, OwnSetEntry
  <2>4. CASE Top(t).op = "set_callback"
    <3>1. cb.by = <<"user">> /\ ~Registering(t)'
      BY <1>5, <1>6, <1>7, <2>4 DEF Registered, Registering, Registers
    <3> QED BY <1>1, <1>2, <1>4, <1>7, <2>2, <3>1, OwnSetEntry
  <2> QED BY <2>1, <2>3, <2>4
<1>8. CASE Instruction(Top(t)) = "erase" /\ cb = Nil
  <2>1. (Top(t).op = "predict_cb" /\ Top(t).pc = 12) \/ Top(t).op = "free"
    BY <1>3, <1>8 DEF OwnFacts, Instruction
  <2>2. ~Registering(t)'
    BY <1>5, <1>6, <2>1 DEF Registering, Registers
  <2> QED BY <1>1, <1>2, <1>4, <1>8, <2>2, OwnSetEntry
<1> QED BY <1>1, <1>7, <1>8

\* Free: no entry is left for the handle when its context goes.
LEMMA OwnFree ==
  ASSUME Inv, Disjoint, OwnFrames, OwnEntries, NEW t \in Thread, FreeModel(t)
  PROVE  /\ OwnFrames' /\ OwnEntries'
         /\ Len(stack'[t]) = 1 /\ stack'[t][1].c_state = Nil
         /\ \A g \in Handle : g \notin uses[t] => state'[g] = state[g]
<1>1. /\ Busy(t) /\ SetTop(t, Forward(Top(t))) /\ UNCHANGED <<uses, callbacks>>
      /\ Instruction(Top(t)) = "free" /\ state' = [state EXCEPT ![Top(t).h] = Nil]
  BY DEF FreeModel, At, Continue
<1>2. /\ Owned(t, Depth(t), stack[t][1].h, Top(t)) /\ OwnFacts(Top(t).op, Top(t).pc)
      /\ Depth(t) \in 1..4 /\ Depth(t) = Len(stack[t]) /\ Types
      /\ Depth(t) = 1 => Top(t) = stack[t][1]
      /\ Top(t).h \in Handle
  BY <1>1, TopOwned DEF Inv
<1>3. Depth(t) = 1 /\ Top(t).op = "free" /\ Top(t).pc = 5
  <2>1. Top(t).op = "free" /\ Top(t).pc = 5 /\ ~(Depth(t) >= 3)
    BY <1>1, <1>2 DEF OwnFacts, Instruction, Owned
  <2>2. Depth(t) # 2
    <3>1. SUFFICES ASSUME Depth(t) = 2 PROVE FALSE
      OBVIOUS
    <3>2. GoodStack(t) /\ 2 \in 1..Len(stack[t])
      BY <1>2, <3>1 DEF Types
    <3>3. stack[t][2].op = "callback"
      BY <3>2 DEF GoodStack
    <3> QED BY <2>1, <3>1, <3>3 DEF Top
  <2>3. Depth(t) \in 1..4
    BY <1>2
  <2> QED BY <2>1, <2>2, <2>3
<1>4. PICK h \in Handle : h = Top(t).h /\ h = stack[t][1].h /\ h \in uses[t]
  BY <1>2, <1>3 DEF Owned
<1>5. state'[h] = Nil /\ \A g \in Handle : g # h => state'[g] = state[g]
  BY <1>1, <1>2, <1>4 DEF Types
<1>6. PICK f \in Frames : /\ f = Forward(Top(t)) /\ f.op = "free" /\ f.h = h /\ f.pc = 6
                          /\ f.heard = Top(t).heard /\ f.c_state = Nil
  <2>1. PICK f \in Frames : /\ f = Forward(Top(t)) /\ f.op = Top(t).op /\ f.h = Top(t).h
                            /\ f.pc = Top(t).pc + 1 /\ f.heard = Top(t).heard
                            /\ f.c_state = Top(t).c_state
    BY <1>1, ForwardOf
  <2>2. Top(t).c_state = Nil
    BY <1>1, <1>3, TopOwned DEF GoodFrame, Inside
  <2> QED BY <1>3, <1>4, <2>1, <2>2
<1>7. Len(stack'[t]) = 1 /\ stack'[t][1] = f /\ \A u \in Thread : u # t => stack'[u] = stack[u]
  <2>1. SetTop(t, f) /\ Busy(t) /\ Types
    BY <1>1, <1>2, <1>6
  <2>2. Len(stack[t]) = 1
    BY <1>2, <1>3
  <2>3. /\ Len(stack'[t]) = Len(stack[t]) /\ stack'[t][Depth(t)] = f
        /\ \A u \in Thread : u # t => stack'[u] = stack[u]
    BY <2>1, TopFacts
  <2> QED BY <1>3, <2>2, <2>3
<1>8. OwnFrames'
  <2>1. f.pc \notin Keyed[f.op]
    BY <1>6 DEF Keyed
  <2>2. ASSUME NEW k \in 1..Len(stack'[t]) PROVE Owned(t, k, stack[t][1].h, stack[t][k])'
    <3>1. k = 1
      BY <1>7
    <3> QED BY <1>1, <1>2, <1>4, <1>6, <1>7, <2>1, <3>1 DEF Owned
  <2>3. \A g \in Handle : g \notin uses[t] => state'[g] = state[g]
    BY <1>4, <1>5
  <2> QED BY <1>1, <1>7, <2>2, <2>3, OthersOwn
<1>9. \A u \in Thread : u # t => /\ Registering(u)' <=> Registering(u)
                                 /\ Freeing(u)' <=> Freeing(u)
                                 /\ Registration(u)' = Registration(u)
  BY <1>7 DEF Registering, Freeing, Registration
<1>10. ~Registering(t) /\ ~Registering(t)' /\ ~Freeing(t)' /\ Freeing(t)
  BY <1>2, <1>3, <1>6, <1>7 DEF Registering, Registers, Freeing, Frees
<1>11. ASSUME NEW a \in Addr, callbacks'[a] # Nil PROVE Owner(a)'
  <2>1. Owner(a) /\ callbacks'[a] = callbacks[a] /\ callbacks[a].h \in Handle
    BY <1>1, <1>11 DEF OwnEntries, Inv, Entries
  <2>2. callbacks[a].h # h
    <3>1. SUFFICES ASSUME callbacks[a].h = h PROVE FALSE
      OBVIOUS
    <3>2. state[h] = a
      BY <2>1, <3>1 DEF Owner
    <3>3. callbacks[a] = Nil
      <4>1. Len(stack[t]) > 0 /\ state[stack[t][1].h] = a
        BY <1>2, <1>3, <1>4, <3>2
      <4> QED BY <1>10, <4>1 DEF OwnEntries
    <3> QED BY <1>1, <1>11, <3>3
  <2>3. state'[callbacks[a].h] = a
    BY <1>5, <2>1, <2>2 DEF Owner
  <2>4. ASSUME NEW u \in Thread, Registering(u), callbacks[a] = Registration(u)
        PROVE  Registering(u)' /\ callbacks[a] = Registration(u)'
    BY <1>9, <1>10, <2>4
  <2> QED BY <2>1, <2>3, <2>4 DEF Owner
<1>12. ASSUME NEW u \in Thread, Len(stack'[u]) > 0, state'[stack'[u][1].h] \in Addr
       PROVE  /\ Registering(u)' => callbacks'[state'[stack'[u][1].h]] = Registration(u)'
              /\ Freeing(u)' => callbacks'[state'[stack'[u][1].h]] = Nil
  <2>1. u # t
    BY <1>5, <1>6, <1>7, <1>12, NilAssumption
  <2>2. stack'[u] = stack[u] /\ Len(stack[u]) > 0 /\ 1 \in 1..Len(stack[u])
    BY <1>2, <1>7, <1>12, <2>1 DEF Types, GoodStack
  <2>3. stack[u][1].h \in Handle /\ stack[u][1].h \in uses[u]
    BY <1>2, <2>2 DEF Types, GoodStack, GoodFrame, Frames, OwnFrames, Owned
  <2>4. stack[u][1].h # h
    BY <1>4, <2>1, <2>3 DEF Disjoint
  <2> QED BY <1>1, <1>5, <1>9, <1>12, <2>1, <2>2, <2>3, <2>4 DEF OwnEntries
<1>13. \A g \in Handle : g \notin uses[t] => state'[g] = state[g]
  BY <1>4, <1>5
<1> QED BY <1>6, <1>7, <1>8, <1>11, <1>12, <1>13 DEF OwnEntries

\* New: an address of no handle, so of no entry that anyone relies on.
LEMMA OwnNew ==
  ASSUME Inv, Disjoint, OwnFrames, OwnEntries, NEW t \in Thread, New(t)
  PROVE  OwnFrames' /\ OwnEntries'
<1>1. PICK h \in uses[t], a \in Addr : state[h] = "unborn" /\ state' = [state EXCEPT ![h] = a]
  BY DEF New
<1>2. UNCHANGED <<uses, callbacks, stack>> /\ Types /\ stack[t] = <<>>
  BY DEF New, Inv, Busy
<1>3. h \in Handle
  BY <1>2, SharingsAssumption DEF Types
<1>4. \A g \in Handle : g # h => state'[g] = state[g]
  BY <1>1, <1>2 DEF Types
<1>5. OwnFrames'
  <2>1. \A k \in 1..Len(stack'[t]) : Owned(t, k, stack[t][1].h, stack[t][k])'
    BY <1>2
  <2>2. \A g \in Handle : g \notin uses[t] => state'[g] = state[g]
    BY <1>4
  <2>3. \A u \in Thread : u # t => stack'[u] = stack[u]
    BY <1>2
  <2> QED BY <1>2, <2>1, <2>2, <2>3, OthersOwn
<1>6. \A u \in Thread : /\ Registering(u)' <=> Registering(u)
                        /\ Freeing(u)' <=> Freeing(u)
                        /\ Registration(u)' = Registration(u)
  BY <1>2 DEF Registering, Freeing, Registration
<1>7. ASSUME NEW b \in Addr, callbacks'[b] # Nil PROVE Owner(b)'
  <2>1. Owner(b) /\ callbacks'[b] = callbacks[b] /\ callbacks[b].h \in Handle
    BY <1>2, <1>7 DEF OwnEntries, Inv, Entries
  <2>2. callbacks[b].h # h
    BY <1>1, <2>1, NilAssumption DEF Owner
  <2> QED BY <1>4, <1>6, <2>1, <2>2 DEF Owner
<1>8. ASSUME NEW u \in Thread, Len(stack'[u]) > 0, state'[stack'[u][1].h] \in Addr
      PROVE  /\ Registering(u)' => callbacks'[state'[stack'[u][1].h]] = Registration(u)'
             /\ Freeing(u)' => callbacks'[state'[stack'[u][1].h]] = Nil
  <2>1. u # t /\ stack'[u] = stack[u] /\ 1 \in 1..Len(stack[u])
    BY <1>2, <1>8 DEF Types, GoodStack
  <2>2. stack[u][1].h \in Handle /\ stack[u][1].h \in uses[u]
    BY <1>2, <2>1 DEF Types, GoodStack, GoodFrame, Frames, OwnFrames, Owned
  <2>3. stack[u][1].h # h
    BY <2>1, <2>2 DEF Disjoint
  <2> QED BY <1>2, <1>4, <1>6, <1>8, <2>1, <2>2, <2>3 DEF OwnEntries
<1> QED BY <1>5, <1>7, <1>8 DEF OwnEntries

\* Start: a new call is on a handle of the goroutine, and has noted nothing down.
LEMMA OwnStart ==
  ASSUME Inv, Disjoint, OwnFrames, OwnEntries, NEW t \in Thread, Start(t)
  PROVE  OwnFrames' /\ OwnEntries'
<1>1. PICK op \in Ops, h \in uses[t] : stack' = [stack EXCEPT ![t] = <<Frame(op, h)>>]
  BY DEF Start
<1>2. stack[t] = <<>> /\ UNCHANGED <<uses, state, callbacks>> /\ Types
  BY DEF Start, Busy, Inv
<1>3. op \in Methods /\ op # "callback"
  BY OpsAssumption DEF Methods, Program
<1>4. PICK f : f = Frame(op, h)
  OBVIOUS
<1>5. f.op = op /\ f.pc = 1 /\ f.h = h /\ f.heard = "right"
  BY <1>4 DEF Frame
<1>6. Len(stack'[t]) = 1 /\ stack'[t][1] = f /\ \A u \in Thread : u # t => stack'[u] = stack[u]
  BY <1>1, <1>2, <1>4 DEF Types
<1>7. ASSUME NEW k \in 1..Len(stack'[t]) PROVE Owned(t, k, stack[t][1].h, stack[t][k])'
  <2>1. k = 1 /\ f.pc \notin Keyed[f.op]
    BY <1>3, <1>5, <1>6, OwnLabels
  <2> QED BY <1>2, <1>5, <1>6, <2>1 DEF Owned
<1>8. OwnFrames'
  BY <1>2, <1>6, <1>7, OthersOwn
<1>9. ~Registering(t)' /\ ~Registering(t) /\ ~Freeing(t)'
  BY <1>2, <1>5, <1>6 DEF Registering, Registers, Freeing, Frees
<1> QED BY <1>2, <1>6, <1>8, <1>9, EntriesKept

\* A step that keeps the outermost frame, or only moves it within a prediction.
LEMMA OwnStack ==
  ASSUME Inv, Disjoint, OwnFrames, OwnEntries, NEW t \in Thread, Busy(t),
         UNCHANGED <<uses, state, callbacks>>,
         NEW s, stack' = [stack EXCEPT ![t] = s], Len(s) \in Nat \ {0},
         s[1].op = stack[t][1].op, s[1].h = stack[t][1].h,
         \/ s[1].pc = stack[t][1].pc
         \/ s[1].op = "predict_cb" /\ s[1].pc \in 4..12 /\ stack[t][1].pc \in 4..12
         \/ s[1].op = "predict",
         \A k \in 1..Len(s) : Owned(t, k, s[1].h, s[k])
  PROVE  OwnFrames' /\ OwnEntries'
<1>1. stack'[t] = s /\ \A u \in Thread : u # t => stack'[u] = stack[u]
  BY DEF Inv, Types
<1>2. Len(stack[t]) > 0
  BY DEF Busy, Inv, Types, GoodStack
<1>3. \A k \in 1..Len(stack'[t]) : Owned(t, k, stack[t][1].h, stack[t][k])'
  BY <1>1 DEF Owned
<1>4. OwnFrames'
  BY <1>1, <1>3, OthersOwn
<1>5. (Registering(t)' <=> Registering(t)) /\ (Freeing(t)' => Freeing(t))
  BY <1>1, <1>2 DEF Registering, Registers, Freeing, Frees
<1> QED BY <1>1, <1>4, <1>5, EntriesKept

\* Return: an outermost call has removed its callback; within a callback nothing
\* of the prediction changes.
LEMMA OwnReturn ==
  ASSUME Inv, Disjoint, OwnFrames, OwnEntries, NEW t \in Thread, Return(t)
  PROVE  OwnFrames' /\ OwnEntries'
<1>0. Busy(t)
  BY DEF Return, At
<1>1. PICK d \in 1..4 : d = Depth(t)
  BY <1>0, TopOwned
<1>2. /\ Busy(t) /\ stack' = [stack EXCEPT ![t] = SubSeq(stack[t], 1, d - 1)]
      /\ UNCHANGED <<uses, state, callbacks>> /\ Instruction(Top(t)) = "return"
  BY <1>1 DEF Return, At
<1>3. /\ OwnFacts(Top(t).op, Top(t).pc) /\ d \in 1..4 /\ d = Len(stack[t]) /\ Types
      /\ (d = 1 => Top(t) = stack[t][1])
      /\ stack[t] \in Seq(Frames)
  BY <1>1, <1>2, TopOwned DEF Inv, Types, GoodStack
<1>4. PICK s \in Seq(Frames) :
        /\ s = SubSeq(stack[t], 1, d - 1) /\ Len(s) = d - 1
        /\ \A k \in 1..(d - 1) : s[k] = stack[t][k]
  <2>1. d - 1 \in 0..d
    OBVIOUS
  <2>2. d - 1 \in 0..Len(stack[t])
    BY <1>3, <2>1
  <2> QED BY <1>3, <2>2, Popped
<1>5. stack' = [stack EXCEPT ![t] = s]
  BY <1>2, <1>4
<1>6. stack'[t] = s /\ \A u \in Thread : u # t => stack'[u] = stack[u]
  BY <1>3, <1>5 DEF Types
<1>7. CASE d = 1
  <2>1. Len(stack'[t]) = 0
    BY <1>4, <1>6, <1>7
  <2>2. \A k \in 1..Len(stack'[t]) : Owned(t, k, stack[t][1].h, stack[t][k])'
    BY <2>1
  <2>3. OwnFrames'
    BY <1>2, <1>6, <2>2, OthersOwn
  <2>4. ~Registering(t)
    BY <1>2, <1>3, <1>7 DEF OwnFacts, Instruction, Registering, Registers
  <2>5. ~Registering(t)' /\ ~Freeing(t)'
    BY <2>1 DEF Registering, Freeing
  <2> QED BY <1>2, <1>6, <2>3, <2>4, <2>5, EntriesKept
<1>8. CASE d # 1
  <2>0. d - 1 \in Nat \ {0} /\ 1 \in 1..(d - 1)
    BY <1>8
  <2>1. Len(s) \in Nat \ {0} /\ s[1] = stack[t][1]
    BY <1>4, <2>0
  <2>2. ASSUME NEW k \in 1..Len(s) PROVE Owned(t, k, s[1].h, s[k])
    <3>1. k \in 1..(d - 1) /\ k \in 1..d
      BY <1>4
    <3>2. k \in 1..Len(stack[t]) /\ s[k] = stack[t][k]
      BY <1>3, <1>4, <3>1
    <3> QED BY <2>1, <3>2 DEF OwnFrames
  <2> QED BY <1>2, <1>5, <2>1, <2>2, OwnStack
<1> QED BY <1>7, <1>8

\* CallbackCalls: the callback's method is called on the prediction's handle.
LEMMA OwnCallbackCalls ==
  ASSUME Inv, Disjoint, OwnFrames, OwnEntries, NEW t \in Thread, CallbackCalls(t)
  PROVE  OwnFrames' /\ OwnEntries'
<1>1. PICK op \in NestedOps :
        stack' = [stack EXCEPT ![t] = <<stack[t][1], Forward(stack[t][2]), Frame(op, Top(t).h)>>]
  BY DEF CallbackCalls
<1>2. Busy(t) /\ Depth(t) = 2 /\ UNCHANGED <<uses, state, callbacks>>
  BY DEF CallbackCalls, At
<1>3. /\ Len(stack[t]) = 2 /\ Top(t) = stack[t][2] /\ GoodStack(t) /\ Top(t).h = stack[t][1].h
  BY <1>2, TopOwned DEF Inv, Types, Top
<1>4. PICK g : /\ g = Forward(stack[t][2]) /\ g.op = stack[t][2].op /\ g.h = stack[t][2].h
               /\ g.heard = stack[t][2].heard
  BY <1>2, <1>3, ForwardOf
<1>5. PICK f : f = Frame(op, Top(t).h)
  OBVIOUS
<1>6. f.op = op /\ f.pc = 1 /\ f.h = Top(t).h /\ f.heard = "right" /\ op \in Methods \ {"callback"}
  BY <1>5, OpsAssumption DEF Frame, Methods, Program
<1>7. PICK s : s = <<stack[t][1], g, f>>
  OBVIOUS
<1>8. Len(s) = 3 /\ s[1] = stack[t][1] /\ s[2] = g /\ s[3] = f
  BY <1>7
<1>9. stack' = [stack EXCEPT ![t] = s]
  BY <1>1, <1>4, <1>5, <1>7
<1>10. Owned(t, 1, s[1].h, stack[t][1]) /\ Owned(t, 2, s[1].h, stack[t][2])
  BY <1>3, <1>8 DEF OwnFrames
<1>11. stack[t][2].op = "callback"
  BY <1>3 DEF GoodStack
<1>12. Owned(t, 2, s[1].h, g)
  BY <1>4, <1>10, <1>11, OwnLabels DEF Owned
<1>13. Owned(t, 3, s[1].h, f)
  BY <1>3, <1>6, <1>8, <1>10, OwnLabels DEF Owned
<1>14. \A k \in 1..Len(s) : Owned(t, k, s[1].h, s[k])
  <2>1. \A k \in 1..Len(s) : k = 1 \/ k = 2 \/ k = 3
    BY <1>8
  <2> QED BY <1>8, <1>10, <1>12, <1>13, <2>1
<1>15. /\ Len(s) \in Nat \ {0} /\ s[1].op = stack[t][1].op /\ s[1].h = stack[t][1].h
       /\ s[1].pc = stack[t][1].pc
  BY <1>8
<1> QED BY <1>2, <1>9, <1>14, <1>15, OwnStack

\* Answer: the callback is not within another one, and its prediction goes on or
\* to its end.
LEMMA OwnAnswer ==
  ASSUME Inv, Disjoint, OwnFrames, OwnEntries, NEW t \in Thread, Answer(t)
  PROVE  OwnFrames' /\ OwnEntries'
<1>1. Busy(t) /\ UNCHANGED <<uses, state, callbacks>> /\ Instruction(Top(t)) = "answer"
  BY DEF Answer, At
<1>2. /\ Depth(t) \in 1..4 /\ Depth(t) = Len(stack[t]) /\ Top(t).op = "callback" /\ Types /\ GoodStack(t)
      /\ Owned(t, Depth(t), stack[t][1].h, Top(t)) /\ stack[t] \in Seq(Frames) /\ Top(t) = stack[t][Depth(t)]
  BY <1>1, TopOwned, TopStep, SMTT(40) DEF Inv, Types, GoodStack, StepFacts, Instruction, Top
<1>3. Depth(t) = 2
  <2>1. ~(Depth(t) >= 3)
    BY <1>2, OwnLabels DEF Owned
  <2>2. Depth(t) # 1
    <3>1. SUFFICES ASSUME Depth(t) = 1 PROVE FALSE
      OBVIOUS
    <3>2. GoodStack(t) /\ 1 \in 1..Len(stack[t]) /\ 1 \notin {2, 4}
      BY <1>2, <3>1
    <3>3. stack[t][1].op # "callback"
      BY <3>2 DEF GoodStack
    <3> QED BY <1>2, <3>1, <3>3
  <2>3. Depth(t) \in 1..4
    BY <1>2
  <2> QED BY <2>1, <2>2, <2>3
<1>4. PICK below \in Frames :
        /\ below = stack[t][1] /\ below.op \in Predictions /\ below.pc = Label(below.op, "token")
        /\ Owned(t, 1, below.h, below)
  <2>1. 2 \in {2, 4} /\ 2 <= Len(stack[t]) /\ 2 - 1 = 1 /\ 1 \in 1..Len(stack[t])
    BY <1>2, <1>3
  <2>2. stack[t][1].op \in Predictions /\ stack[t][1].pc = Label(stack[t][1].op, "token")
    BY <1>2, <2>1 DEF GoodStack
  <2> QED BY <1>2, <2>1, <2>2 DEF OwnFrames
<1>5. PICK f : /\ f \in {below, Jump(below, "end")}
               /\ stack' = [stack EXCEPT ![t] = SubSeq(stack[t], 1, 0) \o <<f>>]
  <2>1. Depth(t) - 1 = 1 /\ Depth(t) - 2 = 0
    BY <1>3
  <2> QED BY <1>4, <2>1 DEF Answer
<1>6. /\ f.op = below.op /\ f.h = below.h /\ f.key = below.key /\ f.heard = below.heard
      /\ f.pc = Label(below.op, "token") \/ f.pc = Label(below.op, "end")
      /\ f \in Frames
  <2>1. CASE f = below
    BY <1>4, <2>1
  <2>2. CASE f = Jump(below, "end")
    <3>1. Label(below.op, "end") \in Nat
      BY <1>4, LabelNumbers
    <3> QED BY <1>4, <2>2, <3>1 DEF Jump, Frames
  <2> QED BY <1>5, <2>1, <2>2
<1>7. PICK s : s = <<f>>
  OBVIOUS
<1>8. Len(s) = 1 /\ s[1] = f
  BY <1>7
<1>9. stack' = [stack EXCEPT ![t] = s]
  <2>1. SubSeq(stack[t], 1, 0) = <<>>
    BY <1>2
  <2>2. <<>> \o <<f>> = s
    BY <1>6, <1>7
  <2> QED BY <1>5, <2>1, <2>2
<1>10. Owned(t, 1, f.h, f)
  <2>1. CASE f.op = "predict_cb"
    BY <1>4, <1>6, <2>1, OwnLabels DEF Owned
  <2>2. CASE f.op = "predict"
    BY <1>4, <1>6, <2>2, OwnLabels DEF Owned
  <2> QED BY <1>4, <1>6, <2>1, <2>2 DEF Predictions
<1>11. \A k \in 1..Len(s) : Owned(t, k, s[1].h, s[k])
  <2>1. \A k \in 1..Len(s) : k = 1
    BY <1>8
  <2> QED BY <1>8, <1>10, <2>1
<1>12. \/ s[1].pc = stack[t][1].pc
       \/ s[1].op = "predict_cb" /\ s[1].pc \in 4..12 /\ stack[t][1].pc \in 4..12
       \/ s[1].op = "predict"
  BY <1>4, <1>6, <1>8, OwnLabels DEF Predictions
<1>13. Len(s) \in Nat \ {0} /\ s[1].op = stack[t][1].op /\ s[1].h = stack[t][1].h
  BY <1>4, <1>6, <1>8
<1> QED BY <1>1, <1>9, <1>11, <1>12, <1>13, OwnStack

\* The entry a token finds is the right one: a prediction finds the callback it was
\* given, one without finds what SetTokenCallback registered for its handle.
LEMMA RightEntry ==
  ASSUME Inv, Disjoint, OwnFrames, OwnEntries, NEW t \in Thread, Busy(t), Instruction(Top(t)) = "call"
  PROVE  /\ IsRight(t, callbacks[Top(t).c_state])
         /\ callbacks[Top(t).c_state] # Nil => callbacks[Top(t).c_state].h = Top(t).h
         /\ Depth(t) = 1 /\ Top(t).op \in Predictions
<1>1. /\ Owned(t, Depth(t), stack[t][1].h, Top(t)) /\ OwnFacts(Top(t).op, Top(t).pc)
      /\ Depth(t) \in 1..4 /\ Depth(t) = Len(stack[t]) /\ Types
      /\ (Depth(t) = 1 => Top(t) = stack[t][1])
      /\ Top(t).h \in Handle /\ Top(t).h = stack[t][1].h
  BY TopOwned DEF Inv
<1>2. /\ StepFacts(Top(t).op, Top(t).pc) /\ Top(t) \in Frames /\ GoodFrame(Top(t))
      /\ Top(t).c_state # Nil /\ Top(t).op # "info" => Top(t).c_state = state[Top(t).h]
  BY TopStep
<1>3. /\ Top(t).op \in Predictions /\ Top(t).c_state = state[Top(t).h] /\ state[Top(t).h] \in Addr
  BY <1>2 DEF StepFacts, GoodFrame, Frames, Instruction, Predictions
<1>4. Depth(t) = 1
  <2>1. ~(Depth(t) >= 3)
    BY <1>1 DEF Owned, OwnFacts, Instruction
  <2>2. Depth(t) # 2
    <3>1. SUFFICES ASSUME Depth(t) = 2 PROVE FALSE
      OBVIOUS
    <3>2. GoodStack(t) /\ 2 \in 1..Len(stack[t])
      BY <1>1, <3>1 DEF Types
    <3>3. stack[t][2].op = "callback"
      BY <3>2 DEF GoodStack
    <3> QED BY <1>3, <3>1, <3>3 DEF Top, Predictions
  <2>3. Depth(t) \in 1..4
    BY <1>1
  <2> QED BY <2>1, <2>2, <2>3
<1>5. Top(t) = stack[t][1] /\ Len(stack[t]) = 1 /\ 1 \in 1..Len(stack[t])
  BY <1>1, <1>4
<1>a. PICK a \in Addr : a = state[Top(t).h] /\ a = Top(t).c_state
  BY <1>3
<1>6. PICK cb : a = state[Top(t).h] /\ a = Top(t).c_state /\ cb = callbacks[a]
  BY <1>a
<1>7. CASE Top(t).op = "predict_cb"
  <2>1. Registering(t)
    BY <1>1, <1>5, <1>7 DEF OwnFacts, Instruction, Registering, Registers
  <2>2. cb = Registration(t)
    <3>1. Len(stack[t]) > 0 /\ state[stack[t][1].h] = a
      BY <1>5, <1>6
    <3> QED BY <1>6, <2>1, <3>1 DEF OwnEntries
  <2>3. Registration(t) = Registered(t)
    BY <1>4, <1>5, <1>7 DEF Registration, Registered
  <2>4. IsRight(t, cb) /\ cb.h = Top(t).h
    BY <1>7, <2>2, <2>3 DEF IsRight, Registered
  <2> QED BY <1>3, <1>4, <1>6, <2>4
<1>8. CASE Top(t).op = "predict"
  <2>1. ASSUME cb # Nil PROVE cb.h = Top(t).h /\ cb.by = <<"user">>
    <3>1. Owner(a) /\ cb.h \in Handle
      BY <1>6, <2>1 DEF OwnEntries, Inv, Entries
    <3>2. cb.h = Top(t).h
      BY <1>1, <1>3, <1>6, <3>1, Apart DEF Owner
    <3>3. ASSUME NEW u \in Thread, Registering(u), cb = Registration(u) PROVE FALSE
      <4>1. Len(stack[u]) > 0 /\ stack[u][1].h = Top(t).h /\ 1 \in 1..Len(stack[u])
        BY <1>1, <3>2, <3>3 DEF Registering, Registration, Types, GoodStack
      <4>2. stack[u][1].h \in uses[u] /\ Top(t).h \in uses[t]
        BY <1>1, <4>1 DEF OwnFrames, Owned
      <4>3. u = t
        BY <4>1, <4>2 DEF Disjoint
      <4> QED BY <1>5, <1>8, <3>3, <4>3 DEF Registering, Registers
    <3> QED BY <1>6, <3>1, <3>2, <3>3 DEF Owner
  <2>2. IsRight(t, cb)
    BY <1>8, <2>1 DEF IsRight
  <2> QED BY <1>3, <1>4, <1>6, <2>1, <2>2
<1> QED BY <1>3, <1>7, <1>8 DEF Predictions

\* CallBack: the callback that is called belongs to the prediction's handle.
LEMMA OwnCallBack ==
  ASSUME Inv, Disjoint, OwnFrames, OwnEntries, NEW t \in Thread, CallBack(t)
  PROVE  OwnFrames' /\ OwnEntries'
<1>1. Busy(t) /\ UNCHANGED <<uses, state, callbacks>> /\ Instruction(Top(t)) = "call"
  BY DEF CallBack, At
<1>2. PICK cb : cb = callbacks[Top(t).c_state]
  OBVIOUS
<1>3. /\ IsRight(t, cb) /\ Depth(t) = 1 /\ Top(t).op \in Predictions
      /\ cb # Nil => cb.h = Top(t).h
  BY <1>1, <1>2, RightEntry
<1>4. /\ Owned(t, 1, stack[t][1].h, Top(t)) /\ OwnFacts(Top(t).op, Top(t).pc) /\ Top(t) = stack[t][1]
      /\ Len(stack[t]) = 1 /\ stack[t] \in Seq(Frames) /\ Top(t) \in Frames
  BY <1>1, <1>3, TopOwned DEF Inv, Types, GoodStack
<1>5. PICK f \in Frames :
        /\ f = [Jump(Top(t), "token") EXCEPT !.heard = IF IsRight(t, cb) THEN @ ELSE "wrong"]
        /\ f.op = Top(t).op /\ f.h = Top(t).h /\ f.key = Top(t).key /\ f.heard = "right"
        /\ f.pc = Label(f.op, "token")
  <2>1. Label(Top(t).op, "token") \in Nat
    BY <1>3, LabelNumbers
  <2>2. PICK f : f = Jump(Top(t), "token")
    OBVIOUS
  <2>3. /\ f \in Frames /\ f.op = Top(t).op /\ f.h = Top(t).h /\ f.key = Top(t).key
        /\ f.heard = Top(t).heard /\ f.pc = Label(f.op, "token")
    BY <1>1, <2>1, <2>2, JumpOf
  <2>4. f.heard = "right"
    BY <1>4, <2>3 DEF Owned
  <2>5. [f EXCEPT !.heard = IF IsRight(t, cb) THEN @ ELSE "wrong"] = f
    BY <1>3, <2>3 DEF Frames
  <2> QED BY <2>2, <2>3, <2>4, <2>5
<1>6. CASE cb = Nil
  <2>1. SetTop(t, f)
    BY <1>2, <1>5, <1>6 DEF CallBack
  <2> QED BY <1>1, <1>3, <1>5, <2>1, OwnJump
<1>7. CASE cb # Nil
  <2>1. stack' = [stack EXCEPT ![t] = SubSeq(stack[t], 1, 0) \o <<f, Frame("callback", cb.h)>>]
    <3>1. Depth(t) - 1 = 0
      BY <1>3
    <3> QED BY <1>2, <1>5, <1>7, <3>1 DEF CallBack
  <2>2. PICK g : g = Frame("callback", cb.h)
    OBVIOUS
  <2>3. g.op = "callback" /\ g.h = Top(t).h /\ g.heard = "right"
    BY <1>3, <1>7, <2>2 DEF Frame
  <2>4. PICK s : s = <<f, g>>
    OBVIOUS
  <2>5. Len(s) = 2 /\ s[1] = f /\ s[2] = g
    BY <2>4
  <2>6. stack' = [stack EXCEPT ![t] = s]
    <3>1. SubSeq(stack[t], 1, 0) = <<>>
      BY <1>4
    <3>2. <<>> \o <<f, g>> = s
      BY <2>4
    <3> QED BY <2>1, <2>2, <3>1, <3>2
  <2>7. Owned(t, 1, f.h, f)
    <3>1. CASE f.op = "predict_cb"
      <4>1. Top(t).pc \in 7..8 /\ Top(t).key = state[Top(t).h]
        <5>1. Top(t).pc \in 7..8
          BY <1>1, <1>4, <1>5, <3>1 DEF OwnFacts, Instruction
        <5>2. Top(t).pc \in Keyed["predict_cb"]
          BY <5>1 DEF Keyed
        <5> QED BY <1>4, <1>5, <3>1, <5>1, <5>2 DEF Owned
      <4> QED BY <1>4, <1>5, <3>1, <4>1 DEF Owned
    <3>2. CASE f.op = "predict"
      BY <1>4, <1>5, <3>2, OwnLabels DEF Owned
    <3> QED BY <1>3, <1>5, <3>1, <3>2 DEF Predictions
  <2>8. Owned(t, 2, f.h, g)
    BY <1>4, <1>5, <2>3, OwnLabels DEF Owned
  <2>9. \A k \in 1..Len(s) : Owned(t, k, s[1].h, s[k])
    <3>1. \A k \in 1..Len(s) : k = 1 \/ k = 2
      BY <2>5
    <3> QED BY <2>5, <2>7, <2>8, <3>1
  <2>10. \/ s[1].pc = stack[t][1].pc
         \/ s[1].op = "predict_cb" /\ s[1].pc \in 4..12 /\ stack[t][1].pc \in 4..12
         \/ s[1].op = "predict"
    <3>1. CASE f.op = "predict_cb"
      <4>1. stack[t][1].pc \in 7..8
        BY <1>1, <1>4, <1>5, <3>1 DEF OwnFacts, Instruction
      <4> QED BY <1>5, <2>5, <3>1, <4>1, OwnLabels
    <3>2. CASE f.op = "predict"
      BY <2>5, <3>2
    <3> QED BY <1>3, <1>5, <3>1, <3>2 DEF Predictions
  <2>11. Len(s) \in Nat \ {0} /\ s[1].op = stack[t][1].op /\ s[1].h = stack[t][1].h
    BY <1>4, <1>5, <2>5
  <2> QED BY <1>1, <2>6, <2>9, <2>10, <2>11, OwnStack
<1> QED BY <1>6, <1>7

\* Every step keeps goroutines that share no handle to themselves.
LEMMA OwnNext == Own /\ [Next]_vars => Own'
<1> SUFFICES ASSUME Own, [Next]_vars PROVE Own'
  OBVIOUS
<1>1. Inv /\ Inv' /\ (Disjoint => OwnFrames /\ OwnEntries)
  BY NextKeeps DEF Own
<1>2. CASE UNCHANGED vars
  <2>1. /\ uses' = uses /\ stack' = stack /\ state' = state /\ callbacks' = callbacks
    BY <1>2 DEF vars
  <2>2. OwnFrames => OwnFrames'
    BY <2>1 DEF OwnFrames, Owned
  <2>3. OwnEntries => OwnEntries'
    BY <2>1 DEF OwnEntries, Owner, Registering, Registration, Freeing
  <2>4. Disjoint' => Disjoint
    BY <2>1 DEF Disjoint
  <2> QED BY <1>1, <2>2, <2>3, <2>4 DEF Own
<1>3. ASSUME NEW t \in Thread, Start(t) \/ New(t) \/ Step(t) PROVE Own'
  <2>1. uses' = uses
    BY <1>3 DEF Start, New, Step, Lock, Unlock, ReadKey, Check, Begin, End, FreeModel, Return, Announce,
                Store, Erase, SetEntry, Token, CallBack, CallbackCalls, CallbackRuns, Answer
  <2>2. Disjoint' => Disjoint
    BY <2>1 DEF Disjoint
  <2>3. SUFFICES ASSUME Disjoint PROVE OwnFrames' /\ OwnEntries'
    BY <1>1, <2>2 DEF Own
  <2>4. Inv /\ OwnFrames /\ OwnEntries
    BY <1>1, <2>3
  <2>5. CASE Start(t)
    BY <2>3, <2>4, <2>5, OwnStart
  <2>6. CASE New(t)
    BY <2>3, <2>4, <2>6, OwnNew
  <2>7. CASE Lock(t) \/ Unlock(t) \/ Announce(t) \/ ReadKey(t) \/ End(t) \/ CallbackRuns(t)
    BY <2>3, <2>4, <2>7, OwnPlain
  <2>8. CASE Check(t) \/ Begin(t) \/ Token(t)
    BY <2>3, <2>4, <2>8, OwnEnter
  <2>9. CASE Store(t) \/ Erase(t)
    BY <2>3, <2>4, <2>9, OwnMap
  <2>10. CASE FreeModel(t)
    BY <2>3, <2>4, <2>10, OwnFree
  <2>11. CASE Return(t)
    BY <2>3, <2>4, <2>11, OwnReturn
  <2>12. CASE CallBack(t)
    BY <2>3, <2>4, <2>12, OwnCallBack
  <2>13. CASE CallbackCalls(t)
    BY <2>3, <2>4, <2>13, OwnCallbackCalls
  <2>14. CASE Answer(t)
    BY <2>3, <2>4, <2>14, OwnAnswer
  <2> QED BY <1>3, <2>5, <2>6, <2>7, <2>8, <2>9, <2>10, <2>11, <2>12, <2>13, <2>14 DEF Step
<1> QED BY <1>2, <1>3 DEF Next, Done

\* At first nothing runs and nothing is registered.
LEMMA OwnInit == Init => Own
<1> SUFFICES ASSUME Init PROVE Own
  OBVIOUS
<1>1. Inv
  BY InitHolds
<1>2. \A t \in Thread : Len(stack[t]) = 0
  BY DEF Init
<1>3. \A a \in Addr : callbacks[a] = Nil
  BY DEF Init
<1>4. OwnFrames /\ OwnEntries
  BY <1>2, <1>3 DEF OwnFrames, OwnEntries
<1> QED BY <1>1, <1>4 DEF Own

\* Goroutines that share no handle do not notice each other: every token goes to the
\* callback its prediction was given (tokenCallback, llama.go), although there is
\* one map for all handles, its keys are read without l.mu, addresses are reused
\* and callbacks call methods.
THEOREM TokensReachTheirOwn == Spec => []OwnCallback
<1>1. Own => OwnCallback
  BY DEF Own, OwnCallback, OwnFrames, Owned, Depth
<1> QED BY <1>1, OwnInit, OwnNext, PTL DEF Spec

\* Nor do they leave a callback behind: what is registered belongs to the handle
\* that lives at its address, and when nothing runs it is what SetTokenCallback
\* registered (the setCallback(l.state, nil) of Predict and of Free, llama.go).
THEOREM NothingLeftBehind == Spec => []RegistryClean
<1>1. Own => RegistryClean
  <2> SUFFICES ASSUME Own, Disjoint, NEW a \in Addr, callbacks[a] # Nil
               PROVE  /\ heap[a] = callbacks[a].h
                      /\ (\A t \in Thread : ~Busy(t)) => callbacks[a].by = <<"user">>
    BY DEF RegistryClean
  <2>1. Owner(a) /\ callbacks[a].h \in Handle
    BY DEF Own, OwnEntries, Inv, Entries
  <2>2. heap[a] = callbacks[a].h
    BY <2>1 DEF Own, Owner, Inv, Pointers
  <2>3. ASSUME \A t \in Thread : ~Busy(t) PROVE callbacks[a].by = <<"user">>
    <3>1. \A t \in Thread : ~Registering(t)
      BY <2>3 DEF Busy, Registering
    <3> QED BY <2>1, <3>1 DEF Owner
  <2> QED BY <2>2, <2>3
<1> QED BY <1>1, OwnInit, OwnNext, PTL DEF Spec

---------------------------------------------------------------------------
\* Whatever its method, a call in the C side works on what l.state points to.
Fresh == \A t \in Thread : \A k \in 1..Len(stack[t]) :
            stack[t][k].c_state # Nil => stack[t][k].c_state = state[stack[t][k].h]
Alive == Own /\ (Disjoint => Fresh)

\* A step keeps that when l.state stays what it was for the calls in the C side.
LEMMA FreshKept ==
  ASSUME Fresh, NEW t \in Thread, Shape(t),
         \A u \in Thread : \A k \in 1..Len(stack'[u]) :
            stack'[u][k].c_state # Nil => state'[stack'[u][k].h] = state[stack'[u][k].h]
  PROVE  Fresh'
<1> SUFFICES ASSUME NEW u \in Thread, NEW k \in 1..Len(stack'[u]), stack'[u][k].c_state # Nil
             PROVE  stack'[u][k].c_state = state'[stack'[u][k].h]
  BY DEF Fresh
<1>1. stack'[u][k].c_state = state[stack'[u][k].h]
  <2>1. CASE u # t
    <3>1. stack'[u] = stack[u]
      BY <2>1 DEF Shape
    <3> QED BY <3>1 DEF Fresh
  <2>2. CASE u = t
    BY <2>2 DEF Shape, Fresh
  <2> QED BY <2>1, <2>2
<1> QED BY <1>1

\* Only Free and New change l.state: Free of a handle in no other call, New of a
\* handle in no call at all.
LEMMA AliveNext == Alive /\ [Next]_vars => Alive'
<1> SUFFICES ASSUME Alive, [Next]_vars PROVE Alive'
  OBVIOUS
<1>1. Own /\ Own' /\ Inv /\ Inv'
  BY OwnNext DEF Alive, Own
<1>2. CASE UNCHANGED vars
  BY <1>1, <1>2 DEF Alive, Fresh, Disjoint, vars
<1>3. ASSUME NEW t \in Thread, Start(t) \/ New(t) \/ Step(t) PROVE Alive'
  <2>1. uses' = uses
    BY <1>3 DEF Start, New, Step, Lock, Unlock, ReadKey, Check, Begin, End, FreeModel, Return, Announce,
                Store, Erase, SetEntry, Token, CallBack, CallbackCalls, CallbackRuns, Answer
  <2>2. Disjoint' => Disjoint
    BY <2>1 DEF Disjoint
  <2>3. SUFFICES ASSUME Disjoint PROVE Fresh'
    BY <1>1, <2>2 DEF Alive
  <2>4. Fresh /\ OwnFrames /\ OwnEntries /\ OwnFrames'
    BY <1>1, <2>1, <2>3 DEF Alive, Own, Disjoint
  <2>5. CASE New(t)
    <3>1. PICK h \in uses[t], a \in Addr : state[h] = "unborn" /\ state' = [state EXCEPT ![h] = a]
      BY <2>5 DEF New
    <3>2. stack' = stack /\ Types
      BY <1>1, <2>5 DEF New, Inv
    <3>3. ASSUME NEW u \in Thread, NEW k \in 1..Len(stack[u]) PROVE state'[stack[u][k].h] = state[stack[u][k].h]
      <4>1. GoodFrame(stack[u][k])
        BY <3>2 DEF Types, GoodStack
      <4>2. stack[u][k].h \in Handle /\ stack[u][k].h # h
        BY <3>1, <4>1 DEF GoodFrame, Frames
      <4> QED BY <3>1, <3>2, <4>2 DEF Types
    <3> QED BY <2>4, <3>2, <3>3 DEF Fresh
  <2>6. CASE FreeModel(t)
    <3>1. /\ Len(stack'[t]) = 1 /\ stack'[t][1].c_state = Nil
          /\ \A g \in Handle : g \notin uses[t] => state'[g] = state[g]
      BY <1>1, <2>3, <2>4, <2>6, OwnFree
    <3>2. Shape(t)
      BY <1>1, <2>6, FreeModelKeeps
    <3>3. ASSUME NEW u \in Thread, NEW k \in 1..Len(stack'[u]), stack'[u][k].c_state # Nil
          PROVE  state'[stack'[u][k].h] = state[stack'[u][k].h]
      <4>1. u # t
        BY <3>1, <3>3
      <4>2. stack'[u][k].h = stack'[u][1].h /\ stack'[u][1].h \in uses[u]
        BY <2>1, <2>4 DEF OwnFrames, Owned
      <4>3. stack'[u][k].h \in Handle
        BY <1>1 DEF Inv, Types, GoodStack, GoodFrame, Frames
      <4>4. stack'[u][k].h \notin uses[t]
        BY <2>3, <4>1, <4>2 DEF Disjoint
      <4> QED BY <3>1, <4>3, <4>4
    <3> QED BY <2>4, <3>2, <3>3, FreshKept
  <2>7. CASE ~New(t) /\ ~FreeModel(t)
    <3>1. state' = state
      BY <1>3, <2>7 DEF Start, Step, Lock, Unlock, ReadKey, Check, Begin, End, Return, Announce,
                  Store, Erase, SetEntry, Token, CallBack, CallbackCalls, CallbackRuns, Answer
    <3>2. Shape(t)
      <4>1. CASE Lock(t) \/ Unlock(t) \/ Return(t)
        BY <1>1, <4>1, LockKeeps, UnlockKeeps, ReturnKeeps
      <4>2. CASE Announce(t) \/ Store(t) \/ Erase(t) \/ ReadKey(t) \/ CallbackRuns(t)
        BY <1>1, <4>2, PlainKeeps
      <4>3. CASE Check(t) \/ Begin(t) \/ End(t) \/ Token(t)
        BY <1>1, <4>3, EnterKeeps
      <4>4. CASE Start(t) \/ CallBack(t) \/ CallbackCalls(t) \/ Answer(t)
        BY <1>1, <4>4, StartKeeps, CallBackKeeps, CallbackCallsKeeps, AnswerKeeps
      <4> QED BY <1>3, <2>7, <4>1, <4>2, <4>3, <4>4 DEF Step
    <3> QED BY <2>4, <3>1, <3>2, FreshKept
  <2> QED BY <2>5, <2>6, <2>7
<1> QED BY <1>2, <1>3 DEF Next, Done

\* At first nothing runs.
LEMMA AliveInit == Init => Alive
<1> SUFFICES ASSUME Init PROVE Alive
  OBVIOUS
<1>1. \A t \in Thread : Len(stack[t]) = 0
  BY DEF Init
<1>2. Fresh
  BY <1>1 DEF Fresh
<1> QED BY <1>2, OwnInit DEF Alive

\* Goroutines that share no handle may call every method, those that do not take l.mu
\* too: the C side is never left with a context that is freed under it (FreeWaits
\* is about goroutines that share one, and needs to exclude those methods).
THEOREM OwnersAreSafe == Spec => [](Disjoint => NoUseAfterFree)
<1>1. Alive => (Disjoint => NoUseAfterFree)
  <2> SUFFICES ASSUME Alive, Disjoint, NEW d \in InC PROVE heap[CallAt(d).c_state] = CallAt(d).h
    BY DEF NoUseAfterFree
  <2>1. PICK u \in Thread, k \in 1..3 : d = <<u, k>> /\ k <= Len(stack[u]) /\ stack[u][k].c_state # Nil
    BY DEF InC, Depth
  <2>2. Inv /\ Fresh /\ Len(stack[u]) \in 0..4
    BY DEF Alive, Own, Inv, Types, GoodStack
  <2>3. k \in 1..Len(stack[u]) /\ CallAt(d) = stack[u][k]
    BY <2>1, <2>2 DEF CallAt
  <2>4. stack[u][k].h \in Handle /\ stack[u][k].c_state \in Addr
    BY <2>1, <2>2, <2>3 DEF Inv, Types, GoodStack, GoodFrame, Frames
  <2>5. stack[u][k].c_state = state[stack[u][k].h]
    BY <2>1, <2>2, <2>3 DEF Fresh
  <2> QED BY <2>2, <2>3, <2>4, <2>5 DEF Inv, Pointers
<1> QED BY <1>1, AliveInit, AliveNext, PTL DEF Spec
=============================================================================
