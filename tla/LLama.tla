------------------------------- MODULE LLama -------------------------------
(***************************************************************************)
(* The Go wrapper (llama.go): goroutines that share LLama handles.  Each   *)
(* handle has a mutex l.mu and a pointer l.state to the C side; token      *)
(* callbacks live in one global map keyed by that pointer, under the       *)
(* global RWMutex m.  A method is a short program of the steps that other  *)
(* goroutines can come between; a token callback may itself call a method. *)
(* Pointers are memory addresses: a freed one may be handed out again.     *)
(***************************************************************************)
EXTENDS Integers, Sequences, FiniteSets

CONSTANTS
    Thread,       \* goroutines
    Handle,       \* *LLama values
    Addr,         \* addresses C.load_model can return
    Nil,
    Sharings,     \* the ways handles are spread: goroutine -> the handles it uses
    Ops,          \* methods called from outside a callback
    NestedOps,    \* methods a token callback may call on its own handle
    MaxOps,       \* bound: calls per goroutine
    MaxTokens     \* bound: tokens per prediction

\* "predict_cb" is Predict with the option SetTokenCallback, "locked" stands for
\* Eval, SaveState, ..., "info" for ModelInfo and everything else that does not
\* take l.mu; Embeddings is an "info" (embeddingSize), then a "locked".
Program == [
    predict_cb   |-> <<"read_set", "announce", "store", "read_clear", "lock", "begin",
                       "token", "call", "end", "unlock", "announce", "erase", "return">>,
    predict      |-> <<"lock", "begin", "token", "call", "end", "unlock", "return">>,
    locked       |-> <<"lock", "begin", "end", "unlock", "return">>,
    info         |-> <<"check", "begin", "end", "return">>,
    set_callback |-> <<"read_set", "announce", "store", "return">>,
    free         |-> <<"lock", "check", "announce", "erase", "free", "unlock", "return">>,
    callback     |-> <<"body", "answer">>]

ASSUME NilAssumption ==
    /\ Nil \notin Thread \cup Handle \cup Addr \cup {"unborn"}
    /\ "unborn" \notin Addr
ASSUME SharingsAssumption == Sharings \subseteq [Thread -> SUBSET Handle]
ASSUME OpsAssumption == Ops \cup NestedOps \subseteq DOMAIN Program \ {"callback"}
ASSUME TokensAssumption == MaxTokens \in Nat

VARIABLES
    uses,        \* the handles each goroutine has, of its own or shared: fixed
    state,       \* l.state: an address, Nil once freed, "unborn" before New
    heap,        \* the handle each address was allocated for, or Nil
    mu,          \* holder of each handle's l.mu
    m,           \* the RWMutex: [readers, pending, by], see below
    callbacks,   \* the registered callback of each address, or Nil
    stack,       \* the calls each goroutine is in, outermost first
    calls        \* calls each goroutine has started
vars == <<uses, state, heap, mu, m, callbacks, stack, calls>>

---------------------------------------------------------------------------
Init ==
    /\ uses \in Sharings
    /\ \E born \in [Handle -> Addr \cup {"unborn"}] :
         /\ \A g, h \in Handle : born[g] \in Addr /\ born[g] = born[h] => g = h
         /\ \A h \in Handle : born[h] = "unborn" => \E t \in Thread : h \in uses[t]
         /\ state = born
    /\ heap = [a \in Addr |-> IF \E h \in Handle : state[h] = a
                              THEN CHOOSE h \in Handle : state[h] = a ELSE Nil]
    /\ mu = [h \in Handle |-> Nil]
    /\ m = [readers |-> [t \in Thread |-> 0], pending |-> Nil]
    /\ callbacks = [a \in Addr |-> Nil]
    /\ stack = [t \in Thread |-> <<>>]
    /\ calls = [t \in Thread |-> 0]

Busy(t) == stack[t] # <<>>
Depth(t) == Len(stack[t])
Top(t) == stack[t][Depth(t)]
Instruction(f) == Program[f.op][f.pc]
At(t, step) == Busy(t) /\ Instruction(Top(t)) = step

Label(op, step) == CHOOSE k \in 1..Len(Program[op]) : Program[op][k] = step
SetTop(t, f) == stack' = [stack EXCEPT ![t][Depth(t)] = f]
Forward(f) == [f EXCEPT !.pc = @ + 1]
Jump(f, step) == [f EXCEPT !.pc = Label(f.op, step)]
Continue(t) == SetTop(t, Forward(Top(t)))

Frame(op, h) == [op |-> op, pc |-> 1, h |-> h, key |-> Nil, c_state |-> Nil,
                 left |-> MaxTokens, heard |-> "right"]

\* A method is called on a handle New has returned.
Start(t) ==
    /\ ~Busy(t) /\ calls[t] < MaxOps
    /\ \E op \in Ops, h \in uses[t] :
         state[h] # "unborn" /\ stack' = [stack EXCEPT ![t] = <<Frame(op, h)>>]
    /\ calls' = [calls EXCEPT ![t] = @ + 1]
    /\ UNCHANGED <<uses, state, heap, mu, m, callbacks>>

\* New: the C side hands out an address that is not in use.
New(t) ==
    /\ ~Busy(t)
    /\ \E h \in uses[t], a \in Addr :
         /\ state[h] = "unborn" /\ heap[a] = Nil
         /\ state' = [state EXCEPT ![h] = a] /\ heap' = [heap EXCEPT ![a] = h]
    /\ UNCHANGED <<uses, mu, m, callbacks, stack, calls>>

---------------------------------------------------------------------------
(* l.mu and reads of l.state *)

\* Mutant: the lock is not waited for.
NotHeld(h) == TRUE
Unlocked(h) == mu[h] = Nil

Lock(t) ==
    /\ At(t, "lock") /\ Unlocked(Top(t).h)
    /\ mu' = [mu EXCEPT ![Top(t).h] = t]
    /\ Continue(t) /\ UNCHANGED <<uses, state, heap, m, callbacks, calls>>

Unlock(t) ==
    /\ At(t, "unlock")
    /\ mu' = [mu EXCEPT ![Top(t).h] = Nil]
    /\ Continue(t) /\ UNCHANGED <<uses, state, heap, m, callbacks, calls>>

\* l.state is evaluated as an argument of setCallback, and again for the
\* deferred call that will remove the callback: both without l.mu.
ReadKey(t) ==
    /\ At(t, "read_set") \/ At(t, "read_clear")
    /\ SetTop(t, [Forward(Top(t)) EXCEPT !.key = state[Top(t).h]])
    /\ UNCHANGED <<uses, state, heap, mu, m, callbacks, calls>>

\* if l.state == nil: Free does nothing, ModelInfo fails.
Check(t) ==
    /\ At(t, "check")
    /\ LET f == Top(t)
       IN  SetTop(t, IF state[f.h] # Nil THEN [Forward(f) EXCEPT !.key = state[f.h]]
                     ELSE Jump(f, IF f.op = "free" THEN "unlock" ELSE "return"))
    /\ UNCHANGED <<uses, state, heap, mu, m, callbacks, calls>>

\* Mutant: the pointer read before the lock is used.
PointerReadEarlier(f) == IF f.key \in Addr THEN f.key ELSE state[f.h]
Pointer(f) == state[f.h]

\* l.state is passed to C, which returns at once when it is null.
Begin(t) ==
    /\ At(t, "begin")
    /\ LET f == Top(t)
       IN  SetTop(t, IF Pointer(f) # Nil THEN [Forward(f) EXCEPT !.c_state = Pointer(f)]
                     ELSE Jump(f, IF f.op = "info" THEN "return" ELSE "unlock"))
    /\ UNCHANGED <<uses, state, heap, mu, m, callbacks, calls>>

End(t) ==
    /\ At(t, "end")
    /\ SetTop(t, [Forward(Top(t)) EXCEPT !.c_state = Nil])
    /\ UNCHANGED <<uses, state, heap, mu, m, callbacks, calls>>

FreeModel(t) ==
    /\ At(t, "free")
    /\ heap' = [heap EXCEPT ![state[Top(t).h]] = Nil]
    /\ state' = [state EXCEPT ![Top(t).h] = Nil]
    /\ Continue(t) /\ UNCHANGED <<uses, mu, m, callbacks, calls>>

Return(t) ==
    /\ At(t, "return")
    /\ stack' = [stack EXCEPT ![t] = SubSeq(@, 1, Depth(t) - 1)]
    /\ UNCHANGED <<uses, state, heap, mu, m, callbacks, calls>>

---------------------------------------------------------------------------
(* setCallback: m.Lock announces a writer, which keeps new readers out, and *)
(* waits for the readers inside; the map is changed and m released.  The   *)
(* entry of a nil pointer is never looked up and not modelled.             *)

NoReaders == \A t \in Thread : m.readers[t] = 0

Announce(t) ==
    /\ At(t, "announce") /\ m.pending = Nil
    /\ m' = [m EXCEPT !.pending = t]
    /\ Continue(t) /\ UNCHANGED <<uses, state, heap, mu, callbacks, calls>>

\* Mutant: one callback for every pointer.
InsertedEverywhere(key, callback) == [a \in Addr |-> callback]
Inserted(key, callback) ==
    IF key \in Addr THEN [callbacks EXCEPT ![key] = callback] ELSE callbacks

SetEntry(t, callback) ==
    /\ NoReaders
    /\ callbacks' = Inserted(Top(t).key, callback)
    /\ m' = [m EXCEPT !.pending = Nil]
    /\ Continue(t) /\ UNCHANGED <<uses, state, heap, mu, calls>>

\* Callbacks are told apart by handle and by who registered them: a call of
\* Predict, or SetTokenCallback.
Registered(t) ==
    [h |-> Top(t).h,
     by |-> IF Top(t).op = "predict_cb" THEN <<t, Depth(t)>> ELSE <<"user">>]

Store(t) == At(t, "store") /\ SetEntry(t, Registered(t))
\* Mutant: Free leaves the callback in the map.
EraseUnlessFree(t) ==
    At(t, "erase") /\ SetEntry(t, IF Top(t).op = "free" THEN callbacks[Top(t).key] ELSE Nil)
Erase(t) == At(t, "erase") /\ SetEntry(t, Nil)

---------------------------------------------------------------------------
(* tokenCallback, called by the generation loop for every token *)

\* Whether a prediction should be given this callback.
IsRight(t, cb) ==
    IF Top(t).op = "predict_cb" THEN cb = Registered(t)
    ELSE cb # Nil => cb.h = Top(t).h /\ cb.by = <<"user">>

\* A token is sampled, or budget, end of generation, stop word or error end
\* the loop.
Token(t) ==
    /\ At(t, "token")
    /\ \/ Top(t).left > 0 /\ SetTop(t, [Forward(Top(t)) EXCEPT !.left = @ - 1])
       \/ SetTop(t, Jump(Top(t), "end"))
    /\ UNCHANGED <<uses, state, heap, mu, m, callbacks, calls>>

\* RLock, look the pointer up, and call the callback with m still held.
CallBack(t) ==
    /\ At(t, "call") /\ m.pending = Nil
    /\ LET cb == callbacks[Top(t).c_state]
           f == [Jump(Top(t), "token") EXCEPT !.heard = IF IsRight(t, cb) THEN @ ELSE "wrong"]
       IN  IF cb = Nil THEN SetTop(t, f) /\ UNCHANGED m
           ELSE /\ stack' = [stack EXCEPT ![t] =
                     SubSeq(@, 1, Depth(t) - 1) \o <<f, Frame("callback", cb.h)>>]
                /\ m' = [m EXCEPT !.readers[t] = @ + 1]
    /\ UNCHANGED <<uses, state, heap, mu, callbacks, calls>>

\* The callback's own code may call a method (bound: not within another one).
CallbackCalls(t) ==
    /\ At(t, "body") /\ Depth(t) = 2
    /\ \E op \in NestedOps :
         stack' = [stack EXCEPT ![t] = <<@[1], Forward(@[2]), Frame(op, Top(t).h)>>]
    /\ UNCHANGED <<uses, state, heap, mu, m, callbacks, calls>>

CallbackRuns(t) ==
    /\ At(t, "body") /\ Continue(t)
    /\ UNCHANGED <<uses, state, heap, mu, m, callbacks, calls>>

\* Mutant: m is released twice.
RUnlockTwice(t) == m' = [m EXCEPT !.readers[t] = @ - 2]
\* Mutant: m is not released.
RUnlockForgotten(t) == UNCHANGED m
RUnlock(t) == m' = [m EXCEPT !.readers[t] = @ - 1]

\* It returns true or false, and tokenCallback releases m.
Answer(t) ==
    /\ At(t, "answer")
    /\ LET below == stack[t][Depth(t) - 1]
       IN \E f \in {below, Jump(below, "end")} :
            stack' = [stack EXCEPT ![t] = SubSeq(@, 1, Depth(t) - 2) \o <<f>>]
    /\ RUnlock(t)
    /\ UNCHANGED <<uses, state, heap, mu, callbacks, calls>>

\* A step of a method in progress.
Step(t) ==
    \/ Lock(t) \/ Unlock(t) \/ ReadKey(t) \/ Check(t) \/ Begin(t) \/ End(t)
    \/ FreeModel(t) \/ Return(t) \/ Announce(t) \/ Store(t) \/ Erase(t)
    \/ Token(t) \/ CallBack(t) \/ CallbackCalls(t) \/ CallbackRuns(t) \/ Answer(t)

Done == /\ \A t \in Thread : ~Busy(t)
        /\ UNCHANGED vars

Next == Done \/ \E t \in Thread : Start(t) \/ New(t) \/ Step(t)
Spec == Init /\ [][Next]_vars

\* The Go scheduler runs every goroutine that can run, and callbacks return.
FairSpec == Spec /\ \A t \in Thread : WF_vars(Step(t))

---------------------------------------------------------------------------
TypeOK ==
    /\ state \in [Handle -> Addr \cup {Nil, "unborn"}]
    /\ heap \in [Addr -> Handle \cup {Nil}]
    /\ mu \in [Handle -> Thread \cup {Nil}]
    /\ m.readers \in [Thread -> Nat] /\ m.pending \in Thread \cup {Nil}
    /\ \A t \in Thread : \A k \in 1..Depth(t) :
         /\ stack[t][k].op \in DOMAIN Program
         /\ stack[t][k].pc \in 1..Len(Program[stack[t][k].op])

\* Every call in progress, as <<goroutine, depth>>, that is inside the C side.
InC == {d \in Thread \X (1..3) : d[2] <= Depth(d[1]) /\ stack[d[1]][d[2]].c_state # Nil}
CallAt(d) == stack[d[1]][d[2]]

\* The C side never works on a context that was freed, or freed and handed out
\* to another handle, under it ("All methods are safe for concurrent use",
\* llama.go:20).
NoUseAfterFree == \A d \in InC : heap[CallAt(d).c_state] = CallAt(d).h

\* No two calls that change a context are inside the C side with it at once.
ContextExclusive ==
    \A d, e \in InC :
        CallAt(d).c_state = CallAt(e).c_state /\ "info" \notin {CallAt(d).op, CallAt(e).op} => d = e

Disjoint == \A s, t \in Thread : s # t => uses[s] \cap uses[t] = {}

\* Although the map is global and addresses are reused, goroutines that share no
\* handle do not notice each other: each token of a prediction goes to the
\* callback that prediction was given; a prediction without one only calls what
\* SetTokenCallback registered for its own handle.
OwnCallback == Disjoint => \A t \in Thread : \A k \in 1..Depth(t) : stack[t][k].heard = "right"

\* The same for goroutines that share a handle: "All methods are safe for
\* concurrent use" (llama.go:20) and a callback is "called once for each token"
\* (llama.go:602) of the prediction it was given to.
CallbackOfTheCall == \A t \in Thread : \A k \in 1..Depth(t) : stack[t][k].heard = "right"

\* Nor do handles that are not shared leave anything behind: a registered callback
\* belongs to the handle that lives at its address, so that a new model never
\* inherits the callback of a freed one; and when no method runs, no callback that
\* was given to a prediction is registered any more.
RegistryClean ==
    Disjoint => \A a \in Addr : callbacks[a] # Nil =>
        /\ heap[a] = callbacks[a].h
        /\ (\A t \in Thread : ~Busy(t)) => callbacks[a].by = <<"user">>

\* Every call returns, whatever the other goroutines do.
Returns == \A t \in Thread : Busy(t) ~> ~Busy(t)
=============================================================================
