--------------------------- MODULE BackendFactory ----------------------------
(***************************************************************************)
(* BackendFactory: the process-wide registry of backend builders, made on  *)
(* first use behind a OnceLock and shared by threads behind a Mutex. A     *)
(* builder is the caller's code and runs while the lock is held: it may    *)
(* return a backend, panic, which poisons the lock, or call the factory.   *)
(***************************************************************************)
EXTENDS Naturals

CONSTANTS
  Threads,
  Names,       \* what a backend may be called
  Builtins,    \* the names register_defaults registers
  Sound,       \* a builder that returns a backend
  Panicking,   \* a builder that panics
  Reentrant,   \* a builder that calls the factory it is called from
  MaxCalls,    \* bound: how many calls there are
  NoCall, NoThread

ASSUME FactoryAssumption ==
  /\ Builtins \subseteq Names
  /\ NoThread \notin Threads
  /\ MaxCalls \in Nat
  /\ Sound # Panicking /\ Sound # Reentrant /\ Panicking # Reentrant

Builders == {Sound, Panicking, Reentrant}
Calls == [op: {"register"}, name: Names, builder: Builders]
         \union [op: {"create"}, name: Names] \union [op: {"list"}]

ASSUME CallAssumption == NoCall \notin Calls

VARIABLES
  instance,    \* the OnceLock: "empty", "filling" or "full"
  registry,    \* the guarded map
  owner,       \* the thread that holds the Mutex, or NoThread
  poisoned,    \* whether a thread panicked while it held the Mutex
  pc,          \* where each thread is
  call,        \* the call each thread is in, or NoCall
  outcome,     \* how each thread's last call ended
  calls        \* how many calls were made

vars == <<instance, registry, owner, poisoned, pc, call, outcome, calls>>

Just(kind) == [kind |-> kind, names |-> {}]
Listing == [kind |-> "names", names |-> DOMAIN registry]

Init ==
  /\ instance = "empty"
  /\ registry = [n \in {} |-> Sound]
  /\ owner = NoThread /\ poisoned = FALSE
  /\ pc = [t \in Threads |-> "idle"]
  /\ call = [t \in Threads |-> NoCall]
  /\ outcome = [t \in Threads |-> Just("none")]
  /\ calls = 0

GoTo(t, label) == pc' = [pc EXCEPT ![t] = label]

Return(t, result) ==
  /\ GoTo(t, "idle")
  /\ call' = [call EXCEPT ![t] = NoCall]
  /\ outcome' = [outcome EXCEPT ![t] = result]

Invoke(t, c) ==
  /\ pc[t] = "idle"
  /\ calls < MaxCalls /\ calls' = calls + 1
  /\ GoTo(t, "instance")
  /\ call' = [call EXCEPT ![t] = c]
  /\ UNCHANGED <<instance, registry, owner, poisoned, outcome>>

(* BackendFactory::instance: the first thread fills a new factory, which   *)
(* nobody else sees, and every other thread waits until it is there.       *)
BeginFill(t) ==
  /\ pc[t] = "instance" /\ instance = "empty"
  /\ instance' = "filling"
  /\ GoTo(t, "defaults")
  /\ UNCHANGED <<registry, owner, poisoned, call, outcome, calls>>

(* register_defaults. A version with a bug publishes an empty factory.     *)
NoDefaults == registry
Defaults == [n \in Builtins |-> Sound]

Fill(t) ==
  /\ pc[t] = "defaults"
  /\ instance' = "full"
  /\ registry' = Defaults
  /\ GoTo(t, "lock")
  /\ UNCHANGED <<owner, poisoned, call, outcome, calls>>

Find(t) ==
  /\ pc[t] = "instance" /\ instance = "full"
  /\ GoTo(t, "lock")
  /\ UNCHANGED <<instance, registry, owner, poisoned, call, outcome, calls>>

(* Mutex::lock, and the guard a poisoned lock returns as an error, dropped *)
(* at once: an error, on which registered_backends panics.                 *)
Acquire(t) ==
  /\ pc[t] = "lock" /\ owner = NoThread
  /\ IF poisoned
     THEN /\ Return(t, Just(IF call[t].op = "list" THEN "panic" ELSE "unknown"))
          /\ UNCHANGED owner
     ELSE /\ owner' = t
          /\ GoTo(t, "locked")
          /\ UNCHANGED <<call, outcome>>
  /\ UNCHANGED <<instance, registry, poisoned, calls>>

Release == owner' = NoThread

Insert(name, builder) ==
  [n \in DOMAIN registry \union {name} |-> IF n = name THEN builder ELSE registry[n]]

(* A version with a bug lets a later registration win.                     *)
NeverTaken(name) == FALSE
Taken(name) == name \in DOMAIN registry

Register(t) ==
  /\ pc[t] = "locked" /\ call[t].op = "register"
  /\ IF Taken(call[t].name)
     THEN Return(t, Just("invalid_argument")) /\ UNCHANGED registry
     ELSE Return(t, Just("ok")) /\ registry' = Insert(call[t].name, call[t].builder)
  /\ Release
  /\ UNCHANGED <<instance, poisoned, calls>>

List(t) ==
  /\ pc[t] = "locked" /\ call[t].op = "list"
  /\ Return(t, Listing)
  /\ Release
  /\ UNCHANGED <<instance, registry, poisoned, calls>>

(* create: the builder is called with the guard alive.                     *)
LookUp(t) ==
  /\ pc[t] = "locked" /\ call[t].op = "create"
  /\ IF call[t].name \in DOMAIN registry
     THEN GoTo(t, "building") /\ UNCHANGED <<owner, call, outcome>>
     ELSE Return(t, Just("not_found")) /\ Release
  /\ UNCHANGED <<instance, registry, poisoned, calls>>

(* A panic unwinds through the guard, which poisons the lock and frees it. *)
(* A version with a bug never frees it.                                    *)
UnwindHolding == poisoned' = TRUE /\ UNCHANGED owner
Unwind == poisoned' = TRUE /\ Release

(* Locking a Mutex its own thread holds panics or never returns.           *)
Build(t) ==
  LET builder == registry[call[t].name]
  IN  /\ pc[t] = "building"
      /\ \/ builder = Sound /\ Return(t, Just("backend")) /\ Release /\ UNCHANGED poisoned
         \/ builder = Panicking /\ Return(t, Just("panic")) /\ Unwind
         \/ builder = Reentrant /\ Return(t, Just("panic")) /\ Unwind
         \/ builder = Reentrant /\ GoTo(t, "hung")
            /\ UNCHANGED <<owner, poisoned, call, outcome>>
      /\ UNCHANGED <<instance, registry, calls>>

Step(t) ==
  \/ BeginFill(t) \/ Fill(t) \/ Find(t) \/ Acquire(t)
  \/ Register(t) \/ List(t) \/ LookUp(t) \/ Build(t)

Next == \E t \in Threads : (\E c \in Calls : Invoke(t, c)) \/ Step(t)

Spec == Init /\ [][Next]_vars

(* A thread that can take a step of its call is scheduled at some point.   *)
FairSpec == Spec /\ \A t \in Threads : WF_vars(Step(t))

------------------------------------------------------------------------------
(* Properties.                                                             *)

Results ==
  [kind: {"none", "ok", "invalid_argument", "not_found", "unknown", "panic",
          "backend", "names"},
   names: SUBSET Names]

(* Every variable stays in its range, and a factory that was published has *)
(* the built-in backends.                                                  *)
TypeOK ==
  /\ instance \in {"empty", "filling", "full"}
  /\ DOMAIN registry \subseteq Names
  /\ \A n \in DOMAIN registry : registry[n] \in Builders
  /\ instance = "full" => Builtins \subseteq DOMAIN registry
  /\ owner \in Threads \union {NoThread} /\ poisoned \in BOOLEAN
  /\ pc \in [Threads -> {"idle", "instance", "defaults", "lock", "locked",
                         "building", "hung"}]
  /\ call \in [Threads -> Calls \union {NoCall}]
  /\ outcome \in [Threads -> Results]
  /\ calls \in 0 .. MaxCalls

(* At most one thread is between taking the lock and giving it back, the   *)
(* call of a builder included, and nobody is there before the factory was  *)
(* published or holds the lock after returning.                            *)
OneHolder ==
  \A t \in Threads :
    /\ pc[t] \in {"locked", "building", "hung"} <=> owner = t
    /\ pc[t] \in {"lock", "locked", "building", "hung"} => instance = "full"

(* The factory is linearizable, "registration and lookup are thread-safe": *)
(* calls take effect one at a time on a registry that has the built-in     *)
(* backends before anybody can look, the first registration of a name      *)
(* stands, and calls are refused only after a builder panicked.            *)
Registry == INSTANCE BackendRegistry WITH
  builders <- IF instance = "full" THEN registry ELSE Defaults,
  pending  <- call,
  broken   <- poisoned
Linearizable == Registry!Spec

(* Every call returns, panics of builders included, unless a builder       *)
(* called back into the factory and hangs with the lock held.              *)
EveryCallReturns ==
  \A t \in Threads :
    pc[t] # "idle" ~> (pc[t] = "idle" \/ \E u \in Threads : pc[u] = "hung")
=============================================================================
