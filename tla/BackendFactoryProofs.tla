------------------------ MODULE BackendFactoryProofs -------------------------
(***************************************************************************)
(* What holds of the backend factory for any number of threads, any names  *)
(* and any number of calls: the invariants, and that the factory           *)
(* implements the registry whose calls take effect at one instant.         *)
(***************************************************************************)
EXTENDS BackendFactory, TLAPS

Labels == {"idle", "instance", "defaults", "lock", "locked", "building", "hung"}

(* A thread is in a call exactly when it is not idle, one thread at a time *)
(* fills the factory while nobody can see it, and the builder that runs is *)
(* that of a registered name.                                              *)
InCall ==
  \A t \in Threads :
    /\ pc[t] = "idle" <=> call[t] = NoCall
    /\ pc[t] = "defaults" =>
         instance = "filling" /\ \A u \in Threads \ {t} : pc[u] # "defaults"
    /\ pc[t] \in {"building", "hung"} =>
         call[t].op = "create" /\ call[t].name \in DOMAIN registry

Inv == TypeOK /\ OneHolder /\ InCall

LEMMA CallFields ==
  \A c \in Calls :
    /\ c.op \in {"register", "create", "list"}
    /\ c.op = "register" => c.name \in Names /\ c.builder \in Builders
    /\ c.op = "create" => c.name \in Names
BY DEF Calls

LEMMA InitInv == Init => Inv
<1> SUFFICES ASSUME Init PROVE Inv
  OBVIOUS
<1>1. TypeOK
  <2>1. DOMAIN registry = {} /\ calls \in 0 .. MaxCalls
    BY FactoryAssumption DEF Init
  <2>2. outcome \in [Threads -> Results]
    BY DEF Init, Just, Results
  <2> QED
    BY <2>1, <2>2 DEF Init, TypeOK
<1>2. OneHolder
  BY FactoryAssumption DEF Init, OneHolder
<1>3. InCall
  BY DEF Init, InCall
<1> QED
  BY <1>1, <1>2, <1>3 DEF Inv

(* Every step of the factory keeps the invariant.                          *)
LEMMA NextInv == Inv /\ [Next]_vars => Inv'
<1> SUFFICES ASSUME Inv, [Next]_vars PROVE Inv'
  OBVIOUS
<1> USE FactoryAssumption, CallAssumption DEF Inv, TypeOK, OneHolder, InCall
<1>1. CASE UNCHANGED vars
  BY <1>1 DEF vars
<1>2. CASE Next
  <2>1. PICK t \in Threads : (\E c \in Calls : Invoke(t, c)) \/ Step(t)
    BY <1>2 DEF Next
  <2>2. ASSUME NEW c \in Calls, Invoke(t, c) PROVE Inv'
    BY <2>2 DEF Invoke, GoTo
  <2>3. CASE BeginFill(t)
    BY <2>3 DEF BeginFill, GoTo
  <2>4. CASE Fill(t)
    <3>1. TypeOK'
      BY <2>4 DEF Fill, GoTo, Defaults, Builders
    <3>2. OneHolder'
      BY <2>4 DEF Fill, GoTo, Defaults, Builders
    <3>3. InCall'
      <4>1. \A u \in Threads : pc[u] \notin {"building", "hung"}
        BY <2>4 DEF Fill
      <4>2. /\ pc' = [pc EXCEPT ![t] = "lock"] /\ call' = call
            /\ pc[t] = "defaults" /\ call[t] # NoCall
        BY <2>4 DEF Fill, GoTo
      <4>3. \A u \in Threads \ {t} : pc[u] # "defaults"
        BY <2>4 DEF Fill
      <4> QED
        BY <4>1, <4>2, <4>3
    <3> QED
      BY <3>1, <3>2, <3>3
  <2>5. CASE Find(t)
    BY <2>5 DEF Find, GoTo
  <2>6. CASE Acquire(t)
    <3>1. TypeOK'
      BY <2>6 DEF Acquire, GoTo, Return, Just, Results
    <3>2. OneHolder'
      BY <2>6 DEF Acquire, GoTo, Return, Just, Results
    <3>3. InCall'
      BY <2>6 DEF Acquire, GoTo, Return, Just, Results
    <3> QED
      BY <3>1, <3>2, <3>3
  <2>7. CASE Register(t)
    <3>1. TypeOK'
      <4>1. call[t] \in Calls /\ call[t].op = "register"
        BY <2>7 DEF Register
      <4>2. call[t].name \in Names /\ call[t].builder \in Builders
        BY <4>1, CallFields
      <4>3. registry' \in {registry, Insert(call[t].name, call[t].builder)}
        BY <2>7 DEF Register
      <4>4. /\ DOMAIN registry' \subseteq Names
            /\ \A n \in DOMAIN registry' : registry'[n] \in Builders
            /\ DOMAIN registry \subseteq DOMAIN registry'
        BY <4>2, <4>3 DEF Insert
      <4>5. outcome' \in [Threads -> Results]
        BY <2>7 DEF Register, Return, Just, Results
      <4> QED
        BY <2>7, <4>4, <4>5 DEF Register, GoTo, Return, Release
    <3>2. OneHolder'
      BY <2>7, CallFields DEF Register, GoTo, Return, Just, Results, Release, Insert, Taken
    <3>3. InCall'
      BY <2>7, CallFields DEF Register, GoTo, Return, Just, Results, Release, Insert, Taken
    <3> QED
      BY <3>1, <3>2, <3>3
  <2>8. CASE List(t)
    BY <2>8 DEF List, GoTo, Return, Listing, Results, Release
  <2>9. CASE LookUp(t)
    <3>1. TypeOK'
      <4>1. outcome' \in [Threads -> Results]
        BY <2>9 DEF LookUp, Return, Just, Results
      <4>2. pc' \in [Threads -> Labels] /\ call' \in [Threads -> Calls \union {NoCall}]
        BY <2>9 DEF LookUp, GoTo, Return, Labels
      <4>3. owner' \in Threads \union {NoThread}
        BY <2>9 DEF LookUp, Release
      <4>4. UNCHANGED <<instance, registry, poisoned, calls>>
        BY <2>9 DEF LookUp
      <4> QED
        BY <4>1, <4>2, <4>3, <4>4 DEF Labels
    <3>2. OneHolder'
      BY <2>9 DEF LookUp, GoTo, Return, Just, Results, Release
    <3>3. InCall'
      BY <2>9 DEF LookUp, GoTo, Return, Just, Results, Release
    <3> QED
      BY <3>1, <3>2, <3>3
  <2>10. CASE Build(t)
    <3>1. TypeOK'
      <4>1. outcome' \in [Threads -> Results]
        BY <2>10 DEF Build, Return, Just, Results
      <4>2. pc' \in [Threads -> Labels] /\ call' \in [Threads -> Calls \union {NoCall}]
        BY <2>10 DEF Build, GoTo, Return, Labels
      <4>3. owner' \in Threads \union {NoThread} /\ poisoned' \in BOOLEAN
        BY <2>10 DEF Build, Release, Unwind
      <4>4. UNCHANGED <<instance, registry, calls>>
        BY <2>10 DEF Build
      <4> QED
        BY <4>1, <4>2, <4>3, <4>4 DEF Labels
    <3>2. OneHolder'
      BY <2>10 DEF Build, GoTo, Return, Just, Results, Release, Unwind
    <3>3. InCall'
      BY <2>10 DEF Build, GoTo, Return, Just, Results, Release, Unwind
    <3> QED
      BY <3>1, <3>2, <3>3
  <2> QED
    BY <2>1, <2>2, <2>3, <2>4, <2>5, <2>6, <2>7, <2>8, <2>9, <2>10 DEF Step
<1> QED
  BY <1>1, <1>2

LEMMA Invariance == Spec => []Inv
BY InitInv, NextInv, PTL DEF Spec

(* Every variable stays in its range, and a published factory has the      *)
(* built-in backends, whatever the threads call.                           *)
THEOREM TypeCorrect == Spec => []TypeOK
<1>1. Inv => TypeOK
  BY DEF Inv
<1> QED
  BY <1>1, Invariance, PTL

(* However many threads call, the lock has one holder from the look-up of  *)
(* a name to the end of its builder, panics included.                      *)
THEOREM OneHolderHolds == Spec => []OneHolder
<1>1. Inv => OneHolder
  BY DEF Inv
<1> QED
  BY <1>1, Invariance, PTL

------------------------------------------------------------------------------
(* Refinement.                                                             *)

(* The builders seen outside change only when the lock's holder registers. *)
LEMMA InitMaps == Init => Registry!Init
BY DEF Init, Registry!Init, Registry!Just, Just, Defaults

LEMMA NextMaps == Inv /\ [Next]_vars => [Registry!Next]_(Registry!vars)
<1> SUFFICES ASSUME Inv, [Next]_vars PROVE [Registry!Next]_(Registry!vars)
  OBVIOUS
<1> USE DEF Registry!vars
<1>1. CASE UNCHANGED vars
  BY <1>1 DEF vars, Defaults
<1>2. CASE Next
  <2>1. PICK t \in Threads : (\E c \in Calls : Invoke(t, c)) \/ Step(t)
    BY <1>2 DEF Next
  <2>2. ASSUME NEW c \in Calls, Invoke(t, c) PROVE Registry!Next
    BY <2>2 DEF Invoke, Registry!Next, Registry!Invoke, Inv, InCall, Defaults
  <2>3. CASE BeginFill(t)
    BY <2>3 DEF BeginFill, Defaults
  <2>4. CASE Fill(t)
    BY <2>4 DEF Fill, Defaults, Inv, InCall
  <2>5. CASE Find(t)
    BY <2>5 DEF Find, Defaults
  <2>6. CASE Acquire(t)
    <3>1. CASE poisoned
      <4>1. call[t] # NoCall
        BY <2>6 DEF Acquire, Inv, InCall
      <4>2. Registry!Refuse(t)
        BY <2>6, <3>1 DEF Acquire, Return, Just, Defaults,
                          Registry!Refuse, Registry!Return, Registry!Just
      <4> QED
        BY <4>1, <4>2 DEF Registry!Next
    <3>2. CASE ~poisoned
      BY <2>6, <3>2 DEF Acquire, Defaults
    <3> QED
      BY <3>1, <3>2
  <2>7. CASE Register(t)
    <3>1. instance = "full" /\ call[t] # NoCall
      BY <2>7 DEF Register, Inv, OneHolder, InCall
    <3>2. Registry!Register(t)
      BY <2>7, <3>1 DEF Register, Return, Just, Taken, Insert,
                        Registry!Register, Registry!Return, Registry!Just
    <3> QED
      BY <3>1, <3>2 DEF Registry!Next
  <2>8. CASE List(t)
    <3>1. instance = "full" /\ call[t] # NoCall
      BY <2>8 DEF List, Inv, OneHolder, InCall
    <3>2. Registry!List(t)
      BY <2>8, <3>1 DEF List, Return, Listing,
                        Registry!List, Registry!Return, Registry!Listing
    <3> QED
      BY <3>1, <3>2 DEF Registry!Next
  <2>9. CASE LookUp(t)
    <3>1. instance = "full" /\ call[t] # NoCall
      BY <2>9 DEF LookUp, Inv, OneHolder, InCall
    <3>2. CASE call[t].name \in DOMAIN registry
      BY <2>9, <3>1, <3>2 DEF LookUp
    <3>3. CASE call[t].name \notin DOMAIN registry
      <4>1. Registry!Create(t)
        BY <2>9, <3>1, <3>3 DEF LookUp, Return, Just,
                                Registry!Create, Registry!Return, Registry!Just
      <4> QED
        BY <3>1, <4>1 DEF Registry!Next
    <3> QED
      BY <3>2, <3>3
  <2>10. CASE Build(t)
    <3>1. /\ instance = "full" /\ call[t] # NoCall
          /\ call[t].op = "create" /\ call[t].name \in DOMAIN registry
      BY <2>10 DEF Build, Inv, OneHolder, InCall
    <3>2. Registry!Create(t) \/ UNCHANGED Registry!vars
      BY <2>10, <3>1, FactoryAssumption
         DEF Build, Return, Just, Unwind, Registry!Create, Registry!Return, Registry!Just
    <3> QED
      BY <3>1, <3>2 DEF Registry!Next
  <2> QED
    BY <2>1, <2>2, <2>3, <2>4, <2>5, <2>6, <2>7, <2>8, <2>9, <2>10 DEF Step
<1> QED
  BY <1>1, <1>2

(* Threads that share the factory cannot tell it from a registry whose     *)
(* calls happen one at a time, for any threads, names and builders.        *)
THEOREM Refinement == Spec => Linearizable
<1>1. Spec => Registry!Init /\ [][Registry!Next]_(Registry!vars)
  BY InitMaps, NextMaps, Invariance, PTL DEF Spec
<1> QED
  BY <1>1 DEF Linearizable, Registry!Spec
=============================================================================
