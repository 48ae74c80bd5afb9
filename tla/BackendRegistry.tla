--------------------------- MODULE BackendRegistry ---------------------------
(***************************************************************************)
(* What threads may rely on when they share the backend factory: each call *)
(* takes effect at one instant between its invocation and its return, on a *)
(* map of names to builders that has the built-in backends from the start. *)
(* Once a builder has panicked the factory may refuse every later call.    *)
(***************************************************************************)
CONSTANTS
  Threads,
  Calls,       \* [op: "register", "create" or "list", name, builder]
  Builtins,    \* names of the built-in backends
  Sound,       \* a builder that returns a backend, as the built-in ones do
  NoCall

VARIABLES
  builders,    \* the builder of each registered name
  pending,     \* the call each thread is in, or NoCall
  outcome,     \* how each thread's last call ended
  broken       \* whether a builder has panicked

vars == <<builders, pending, outcome, broken>>

Just(kind) == [kind |-> kind, names |-> {}]
Listing == [kind |-> "names", names |-> DOMAIN builders]

Init ==
  /\ builders = [n \in Builtins |-> Sound]
  /\ pending = [t \in Threads |-> NoCall]
  /\ outcome = [t \in Threads |-> Just("none")]
  /\ broken = FALSE

Invoke(t, c) ==
  /\ pending[t] = NoCall
  /\ pending' = [pending EXCEPT ![t] = c]
  /\ UNCHANGED <<builders, outcome, broken>>

Return(t, result) ==
  /\ pending' = [pending EXCEPT ![t] = NoCall]
  /\ outcome' = [outcome EXCEPT ![t] = result]

Register(t) ==
  LET name == pending[t].name
  IN  /\ pending[t].op = "register"
      /\ IF name \in DOMAIN builders
         THEN Return(t, Just("invalid_argument")) /\ UNCHANGED builders
         ELSE /\ Return(t, Just("ok"))
              /\ builders' = [n \in DOMAIN builders \union {name} |->
                                IF n = name THEN pending[t].builder ELSE builders[n]]
      /\ UNCHANGED broken

Create(t) ==
  LET name == pending[t].name
  IN  /\ pending[t].op = "create"
      /\ IF name \in DOMAIN builders
         THEN \/ builders[name] = Sound /\ Return(t, Just("backend")) /\ UNCHANGED broken
              \/ builders[name] # Sound /\ Return(t, Just("panic")) /\ broken' = TRUE
         ELSE Return(t, Just("not_found")) /\ UNCHANGED broken
      /\ UNCHANGED builders

List(t) ==
  /\ pending[t].op = "list"
  /\ Return(t, Listing)
  /\ UNCHANGED <<builders, broken>>

Refuse(t) ==
  /\ broken
  /\ Return(t, Just(IF pending[t].op = "list" THEN "panic" ELSE "unknown"))
  /\ UNCHANGED <<builders, broken>>

Next ==
  \E t \in Threads :
    \/ \E c \in Calls : Invoke(t, c)
    \/ pending[t] # NoCall /\ (Register(t) \/ Create(t) \/ List(t) \/ Refuse(t))

Spec == Init /\ [][Next]_vars
=============================================================================
