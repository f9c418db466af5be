-------------------------- MODULE S3BackendProofs --------------------------
(***************************************************************************)
(* Proofs about S3Backend, for any callbacks and any number of calls: the  *)
(* invariant of the requests under way, and that the loop over S3          *)
(* implements the contract of mutate.                                      *)
(***************************************************************************)
EXTENDS S3Backend, TLAPS

\* A request under way carries what its call made of the object it read; that
\* object is not newer than the present one, and of equal age only if it is
\* the present one.
Requests ==
    \A p \in puts :
        /\ p.body = After(p.call, p.match)
        /\ p.body # p.match
        /\ p.match = Absent => p.call \in Initializers
        /\ p.match.revision <= object.revision
        /\ p.match.revision = object.revision => p.match = object
        /\ ~At(p.call, "new")

IInv == TypeOK /\ Requests /\ NoLateEffect

-----------------------------------------------------------------------------
(* What After makes of an object.                                          *)

\* It is an object again; if it differs from the one read, its revision is the
\* next one and its content is another.
LEMMA AfterFacts ==
    ASSUME NEW k \in Calls, NEW o \in Objects, o = Absent => k \in Initializers
    PROVE  /\ After(k, o) \in Objects
           /\ o.revision \in Int
           /\ After(k, o).content = Atomic!Effect(k, o.content)
           /\ After(k, o) # o => /\ After(k, o).revision = o.revision + 1
                                 /\ After(k, o).content # o.content
                                 /\ After(k, o) # Absent
<1>1. CASE k \in Initializers
  <2>1. CASE o = Absent
    BY <1>1, <2>1, CallsAssumption DEF After, Objects, Absent, Atomic!Effect
  <2>2. CASE o # Absent
    BY <1>1, <2>2, CallsAssumption DEF After, Objects, Absent, Atomic!Effect
  <2> QED BY <2>1, <2>2
<1>2. CASE k \notin Initializers
  <2>1. o \in [revision : Nat, content : Contents]
    BY <1>2 DEF Objects
  <2>2. Change(k, o.content) \in Contents
    BY <2>1, ChangeAssumption
  <2>3. CASE Change(k, o.content) = o.content
    BY <1>2, <2>1, <2>3 DEF After, Objects, Atomic!Effect
  <2>4. CASE Change(k, o.content) # o.content
    BY <1>2, <2>1, <2>2, <2>4 DEF After, Objects, Absent, Atomic!Effect
  <2> QED BY <2>3, <2>4
<1> QED BY <1>1, <1>2

\* Landing makes every other request under way stale.
LEMMA LandOutdates ==
    ASSUME IInv, NEW p \in puts, Land(p)
    PROVE  \A q \in puts' : /\ q.match.revision < object'.revision
                            /\ q.match # object'
<1>1. /\ p \in Puts /\ p.match = object /\ object' = p.body /\ puts' = puts \ {p}
      /\ p.body = After(p.call, p.match) /\ p.body # p.match
      /\ p.match = Absent => p.call \in Initializers
  BY DEF IInv, TypeOK, Requests, Land, Matches
<1>2. /\ object \in Objects /\ object.revision \in Int
      /\ object'.revision = object.revision + 1
  BY <1>1, AfterFacts DEF Puts
<1>3. ASSUME NEW q \in puts
      PROVE  q.match.revision \in Int /\ q.match.revision <= object.revision
  BY <1>3 DEF IInv, TypeOK, Requests, Puts, Objects, Absent
<1> QED BY <1>1, <1>2, <1>3

-----------------------------------------------------------------------------
(* The invariant.                                                          *)

\* It holds at the start.
LEMMA InitInv == Init => IInv
BY DEF Init, IInv, TypeOK, Requests, NoLateEffect, Objects

\* Steps of a call that touch neither the object nor the requests keep it; only
\* a call that returns has to have left no live request.
LEMMA CallStepKeepsInv ==
    ASSUME IInv, NEW k \in Calls,
           NEW pc \in {"read", "wait", "pause", "returned", "raised"}, NEW n \in Nat,
           UNCHANGED <<object, puts>>,
           calls' = [calls EXCEPT ![k].pc = pc, ![k].attempt = n],
           pc = "returned" => \A p \in puts : p.call = k => p.match # object
    PROVE  IInv'
<1>1. TypeOK'
  BY DEF IInv, TypeOK
<1>2. \A i \in Calls : /\ calls'[i].pc = IF i = k THEN pc ELSE calls[i].pc
                       /\ i # k => calls'[i] = calls[i]
  BY DEF IInv, TypeOK
<1>3. Requests'
  BY <1>2 DEF IInv, TypeOK, Requests, At, Puts, After
<1>4. NoLateEffect'
  BY <1>2 DEF IInv, TypeOK, NoLateEffect, At, Puts
<1> QED BY <1>1, <1>3, <1>4 DEF IInv

\* One step of one call.
LEMMA CallKeepsInv ==
    ASSUME IInv, NEW k \in Calls,
           Start(k) \/ ReadOnly(k) \/ ReadAndPut(k) \/ ReadFails(k) \/ GiveUp(k) \/ Pause(k)
    PROVE  IInv'
<1>0. calls[k].attempt \in Nat
  BY DEF IInv, TypeOK
<1>a. ASSUME NEW pc \in {"read", "wait", "pause", "returned", "raised"}, Goto(k, pc),
             UNCHANGED <<object, puts>>,
             pc = "returned" => \A p \in puts : p.call = k => p.match # object
      PROVE  IInv'
  <2>1. calls' = [calls EXCEPT ![k].pc = pc, ![k].attempt = calls[k].attempt]
    BY <1>a DEF Goto, IInv, TypeOK
  <2> QED BY <1>0, <1>a, <2>1, CallStepKeepsInv
<1>1. CASE Start(k)
  BY <1>a, <1>1 DEF Start
<1>2. CASE ReadOnly(k)
  <2>1. \A p \in puts : p.call = k => p.match # object
    BY <1>2 DEF ReadOnly, IInv, Requests
  <2> QED BY <1>a, <1>2, <2>1 DEF ReadOnly, Returns
<1>3. CASE ReadAndPut(k)
  <2> DEFINE new == [call |-> k, attempt |-> calls[k].attempt,
                     match |-> object, body |-> After(k, object)]
  <2>1. /\ object \in Objects
        /\ object = Absent => k \in Initializers
        /\ After(k, object) # object
        /\ object' = object /\ puts' = puts \cup {new}
        /\ calls' = [calls EXCEPT ![k].pc = "wait"]
    BY <1>3 DEF ReadAndPut, Goto, IInv, TypeOK
  <2>2. After(k, object) \in Objects /\ object.revision \in Int
    BY <2>1, AfterFacts
  <2>3. new \in Puts
    BY <1>0, <2>1, <2>2 DEF Puts
  <2>4. \A i \in Calls : calls'[i].pc = IF i = k THEN "wait" ELSE calls[i].pc
    BY <2>1 DEF IInv, TypeOK
  <2>5. TypeOK'
    BY <2>1, <2>3 DEF IInv, TypeOK
  <2>6. Requests'
    <3> SUFFICES ASSUME NEW p \in puts'
                 PROVE  /\ p.body = After(p.call, p.match)
                        /\ p.body # p.match
                        /\ p.match = Absent => p.call \in Initializers
                        /\ p.match.revision <= object.revision
                        /\ p.match.revision = object.revision => p.match = object
                        /\ ~At(p.call, "new")'
      BY <2>1 DEF Requests, After
    <3>1. CASE p \in puts
      BY <2>1, <2>4, <3>1 DEF IInv, TypeOK, Requests, At, Puts
    <3>2. CASE p = new
      BY <2>1, <2>2, <2>4, <3>2 DEF At
    <3> QED BY <2>1, <3>1, <3>2
  <2>7. NoLateEffect'
    BY <2>1, <2>4 DEF IInv, TypeOK, NoLateEffect, At, Puts
  <2> QED BY <2>5, <2>6, <2>7 DEF IInv
<1>4. CASE ReadFails(k)
  <2>1. PICK pc \in {"pause", "raised"} : Goto(k, pc)
    BY <1>4 DEF ReadFails
  <2> QED BY <1>a, <1>4, <2>1 DEF ReadFails
<1>5. CASE GiveUp(k)
  BY <1>a, <1>5 DEF GiveUp
<1>6. CASE Pause(k)
  <2>1. CASE Goto(k, "raised")
    BY <1>a, <1>6, <2>1 DEF Pause
  <2>2. CASE calls' = [calls EXCEPT ![k].pc = "read", ![k].attempt = @ + 1]
    <3>1. calls' = [calls EXCEPT ![k].pc = "read", ![k].attempt = calls[k].attempt + 1]
      BY <2>2 DEF IInv, TypeOK
    <3>2. UNCHANGED <<object, puts>>
      BY <1>6 DEF Pause
    <3>3. calls[k].attempt + 1 \in Nat
      BY <1>0
    <3> QED BY <3>1, <3>2, <3>3, CallStepKeepsInv
  <2> QED BY <1>6, <2>1, <2>2 DEF Pause
<1> QED BY <1>1, <1>2, <1>3, <1>4, <1>5, <1>6

\* S3 stores the body of a request.
LEMMA LandKeepsInv ==
    ASSUME IInv, NEW p \in puts, Land(p)
    PROVE  IInv'
<1>1. /\ p \in Puts /\ p.match = object /\ object' = p.body /\ puts' = puts \ {p}
      /\ p.body = After(p.call, p.match) /\ p.body # p.match
      /\ p.match = Absent => p.call \in Initializers
  BY DEF IInv, TypeOK, Requests, Land, Matches
<1>2. /\ object' \in Objects /\ object.revision \in Int
      /\ object'.revision = object.revision + 1
  BY <1>1, AfterFacts DEF Puts
<1>3. \/ calls' = [calls EXCEPT ![p.call].pc = "returned"]
      \/ calls' = calls
  BY DEF Land, Returns, Goto
<1>4. \A i \in Calls : calls'[i].pc = calls[i].pc \/ calls'[i].pc = "returned"
  BY <1>3 DEF IInv, TypeOK
<1>5. TypeOK'
  BY <1>1, <1>2, <1>3 DEF IInv, TypeOK
<1>6. \A q \in puts' : q.match.revision < object'.revision /\ q.match # object'
  BY LandOutdates
<1>7. \A q \in puts' : q.match.revision \in Int /\ q.call \in Calls
  BY <1>5 DEF TypeOK, Puts, Objects, Absent
<1>8. Requests'
  BY <1>1, <1>2, <1>4, <1>6, <1>7 DEF IInv, Requests, At, After
<1>9. NoLateEffect'
  BY <1>6 DEF NoLateEffect
<1> QED BY <1>5, <1>8, <1>9 DEF IInv

\* A request is refused or lost.
LEMMA RefuseKeepsInv ==
    ASSUME IInv, NEW p \in puts, Refuse(p)
    PROVE  IInv'
<1>1. /\ puts' = puts \ {p} /\ object' = object /\ p.call \in Calls
      /\ \/ \E pc \in {"pause", "raised"} : calls' = [calls EXCEPT ![p.call].pc = pc]
         \/ calls' = calls
  BY DEF IInv, TypeOK, Refuse, Goto, Puts
<1>2. \A i \in Calls : calls'[i].pc = calls[i].pc \/ calls'[i].pc \in {"pause", "raised"}
  BY <1>1 DEF IInv, TypeOK
<1>3. TypeOK'
  BY <1>1 DEF IInv, TypeOK
<1>4. Requests'
  BY <1>1, <1>2 DEF IInv, TypeOK, Requests, At, Puts, After
<1>5. NoLateEffect'
  BY <1>1, <1>2 DEF IInv, TypeOK, NoLateEffect, At, Puts
<1> QED BY <1>3, <1>4, <1>5 DEF IInv

\* Every step keeps the invariant.
LEMMA NextKeepsInv == IInv /\ [Next]_vars => IInv'
<1> SUFFICES ASSUME IInv, [Next]_vars PROVE IInv'
  OBVIOUS
<1>1. CASE \E k \in Calls : Start(k) \/ ReadOnly(k) \/ ReadAndPut(k) \/ ReadFails(k)
                             \/ GiveUp(k) \/ Pause(k)
  BY <1>1, CallKeepsInv
<1>2. CASE \E p \in puts : Land(p) \/ Refuse(p)
  BY <1>2, LandKeepsInv, RefuseKeepsInv
<1>3. CASE UNCHANGED vars
  BY <1>3 DEF vars, IInv, TypeOK, Requests, NoLateEffect, At, After
<1> QED BY <1>1, <1>2, <1>3 DEF Next

\* The invariant holds in every reachable state.
LEMMA SpecInv == Spec => []IInv
BY InitInv, NextKeepsInv, PTL DEF Spec

\* The object, the calls and the requests keep their types.
THEOREM TypeCorrect == Spec => []TypeOK
<1>1. IInv => TypeOK
  BY DEF IInv
<1> QED BY <1>1, SpecInv, PTL

\* No request left behind by a call that has returned can change the queue.
THEOREM ReturnedCallsAreOver == Spec => []NoLateEffect
<1>1. IInv => NoLateEffect
  BY DEF IInv
<1> QED BY <1>1, SpecInv, PTL

-----------------------------------------------------------------------------
(* Revisions only grow.                                                    *)

\* No step replaces the object by an older one.
LEMMA StepGrows == IInv /\ [Next]_vars => object'.revision >= object.revision
<1> SUFFICES ASSUME IInv, [Next]_vars PROVE object'.revision >= object.revision
  OBVIOUS
<1>0. object.revision \in Int
  BY DEF IInv, TypeOK, Objects, Absent
<1>1. CASE object' = object
  BY <1>0, <1>1
<1>2. CASE \E p \in puts : Land(p)
  <2>1. PICK p \in puts : Land(p)
    BY <1>2
  <2>2. /\ p \in Puts /\ p.match = object /\ object' = p.body
        /\ p.body = After(p.call, p.match) /\ p.body # p.match
        /\ p.match = Absent => p.call \in Initializers
    BY <2>1 DEF IInv, TypeOK, Requests, Land, Matches
  <2>3. object'.revision = object.revision + 1
    BY <2>2, AfterFacts DEF Puts
  <2> QED BY <1>0, <2>3
<1> QED BY <1>1, <1>2 DEF Next, vars, Start, ReadOnly, ReadAndPut, ReadFails, GiveUp,
                          Pause, Refuse

\* A process that starts never replaces a queue that exists.
THEOREM QueueSurvivesStarts == Spec => NeverReset
<1>1. IInv /\ [Next]_vars => [object # Absent => object'.revision >= object.revision]_vars
  BY StepGrows
<1> QED BY <1>1, SpecInv, PTL DEF Spec, NeverReset

-----------------------------------------------------------------------------
(* The refinement of the contract.                                         *)

\* A call that raised can still take effect exactly when it has left a request
\* that matches the object.
Alive(k) == \E p \in puts : p.call = k /\ p.match = object

StateOf(k) ==
    IF At(k, "new") THEN "new"
    ELSE IF At(k, "returned") THEN "returned"
    ELSE IF ~At(k, "raised") THEN "pending"
    ELSE IF Alive(k) THEN "raised"
    ELSE "over"

\* Initially nothing has been called and there is no queue.
LEMMA InitRefines == Init => Atomic!Init
BY DEF Init, Atomic!Init, State, At, Absent

\* A step of one call that leaves object and requests alone, as seen in the
\* contract: only that call changes its state.
LEMMA CallStepState ==
    ASSUME IInv, NEW k \in Calls,
           UNCHANGED <<object, puts>>,
           \A i \in Calls : i # k => calls'[i] = calls[i]
    PROVE  State' = [State EXCEPT ![k] = StateOf(k)']
<1>1. \A i \in Calls : i # k => StateOf(i)' = StateOf(i)
  BY DEF StateOf, Alive, At
<1>2. State = [i \in Calls |-> StateOf(i)] /\ State' = [i \in Calls |-> StateOf(i)']
  BY DEF State, StateOf, Alive, At
<1> QED BY <1>1, <1>2

Mapped == <<object.content, State, answer>>

\* A step of one call is a step of the contract for that call, or none.
LEMMA CallRefines ==
    ASSUME IInv, NEW k \in Calls,
           Start(k) \/ ReadOnly(k) \/ ReadAndPut(k) \/ ReadFails(k) \/ GiveUp(k) \/ Pause(k)
    PROVE  [Atomic!Next]_Mapped
<1>0. State[k] = StateOf(k) /\ State = [State EXCEPT ![k] = StateOf(k)]
  BY DEF State, StateOf, Alive, At
<1>a. ASSUME NEW pc \in {"read", "wait", "pause", "raised", "returned"},
             NEW n \in Nat, calls' = [calls EXCEPT ![k].pc = pc, ![k].attempt = n],
             UNCHANGED <<object, puts>>
      PROVE  /\ State' = [State EXCEPT ![k] = StateOf(k)']
             /\ pc \in {"read", "wait", "pause"} => StateOf(k)' = "pending"
             /\ pc = "returned" => StateOf(k)' = "returned"
             /\ pc = "raised" => StateOf(k)' \in {"raised", "over"}
  <2>1. calls'[k].pc = pc /\ \A i \in Calls : i # k => calls'[i] = calls[i]
    BY <1>a DEF IInv, TypeOK
  <2> QED BY <1>a, <2>1, CallStepState DEF StateOf, Alive, At
<1>b. ASSUME NEW pc \in {"read", "wait", "pause", "raised", "returned"}, Goto(k, pc),
             UNCHANGED <<object, puts>>
      PROVE  /\ State' = [State EXCEPT ![k] = StateOf(k)']
             /\ pc \in {"read", "wait", "pause"} => StateOf(k)' = "pending"
             /\ pc = "returned" => StateOf(k)' = "returned"
             /\ pc = "raised" => StateOf(k)' \in {"raised", "over"}
  <2>1. /\ calls' = [calls EXCEPT ![k].pc = pc, ![k].attempt = calls[k].attempt]
        /\ calls[k].attempt \in Nat
    BY <1>b DEF Goto, IInv, TypeOK
  <2> QED BY <1>a, <1>b, <2>1
<1>1. CASE Start(k)
  <2>1. State[k] = "new" /\ State' = [State EXCEPT ![k] = "pending"]
    BY <1>0, <1>b, <1>1 DEF Start, StateOf
  <2>2. Atomic!Start(k)
    BY <1>1, <2>1 DEF Start, Atomic!Start
  <2> QED BY <2>2 DEF Atomic!Next
<1>2. CASE ReadOnly(k)
  <2>1. /\ State[k] = "pending"
        /\ State' = [State EXCEPT ![k] = "returned"]
    BY <1>0, <1>b, <1>2 DEF ReadOnly, Returns, StateOf, At
  <2>2. /\ object \in Objects
        /\ object = Absent => k \in Initializers
        /\ After(k, object) = object
        /\ object' = object
        /\ answer' = [answer EXCEPT ![k] = Answer(k, object.content)]
    BY <1>2 DEF ReadOnly, Returns, IInv, TypeOK
  <2>3. object.content = Atomic!Effect(k, object.content)
    BY <2>2, AfterFacts
  <2>4. Atomic!Possible(k, object.content)
    BY <2>2, CallsAssumption DEF Atomic!Possible, Objects, Absent
  <2>5. Atomic!Take(k, [State EXCEPT ![k] = "returned"])
    BY <2>1, <2>2, <2>3, <2>4 DEF Atomic!Take
  <2>6. Atomic!Return(k)
    BY <2>1, <2>2, <2>5 DEF Atomic!Return
  <2> QED BY <2>6 DEF Atomic!Next
<1>3. CASE ReadAndPut(k)
  <2>1. /\ calls' = [calls EXCEPT ![k].pc = "wait"] /\ calls[k].pc = "read"
        /\ puts' = puts \cup {[call |-> k, attempt |-> calls[k].attempt,
                               match |-> object, body |-> After(k, object)]}
        /\ UNCHANGED <<object, answer>>
    BY <1>3 DEF ReadAndPut, Goto, At
  <2>2. calls'[k].pc = "wait" /\ \A i \in Calls : i # k => calls'[i] = calls[i]
    BY <2>1 DEF IInv, TypeOK
  <2>3. \A i \in Calls : i # k => (Alive(i)' <=> Alive(i))
    BY <2>1 DEF Alive
  <2>4. \A i \in Calls : StateOf(i)' = StateOf(i)
    BY <2>1, <2>2, <2>3 DEF StateOf, At
  <2>5. State' = State
    BY <2>4 DEF State, StateOf, Alive, At
  <2> QED BY <2>1, <2>5 DEF Mapped
<1>4. CASE ReadFails(k)
  <2>1. PICK pc \in {"pause", "raised"} : Goto(k, pc)
    BY <1>4 DEF ReadFails
  <2>2. State[k] = "pending" /\ UNCHANGED <<object, puts, answer>>
    BY <1>0, <1>4 DEF ReadFails, StateOf, At
  <2>3. CASE pc = "pause"
    <3>1. State' = State
      BY <1>0, <1>b, <2>1, <2>2, <2>3
    <3> QED BY <2>2, <3>1 DEF Mapped
  <2>4. CASE pc = "raised"
    <3>1. Atomic!Raise(k)
      BY <1>b, <2>1, <2>2, <2>4 DEF Atomic!Raise
    <3> QED BY <3>1 DEF Atomic!Next
  <2> QED BY <2>3, <2>4
<1>5. CASE GiveUp(k)
  <2>1. State[k] = "pending" /\ UNCHANGED <<object, puts, answer>>
    BY <1>0, <1>5 DEF GiveUp, StateOf, At
  <2>2. State' = State
    BY <1>0, <1>b, <1>5, <2>1 DEF GiveUp
  <2> QED BY <2>1, <2>2 DEF Mapped
<1>6. CASE Pause(k)
  <2>1. State[k] = "pending" /\ UNCHANGED <<object, puts, answer>>
    BY <1>0, <1>6 DEF Pause, StateOf, At
  <2>2. CASE Goto(k, "raised")
    <3>1. Atomic!Raise(k)
      BY <1>b, <2>1, <2>2 DEF Atomic!Raise
    <3> QED BY <3>1 DEF Atomic!Next
  <2>3. CASE calls' = [calls EXCEPT ![k].pc = "read", ![k].attempt = @ + 1]
    <3>1. /\ calls' = [calls EXCEPT ![k].pc = "read", ![k].attempt = calls[k].attempt + 1]
          /\ calls[k].attempt + 1 \in Nat
      BY <2>3 DEF IInv, TypeOK
    <3>2. State' = State
      BY <1>0, <1>a, <2>1, <3>1
    <3> QED BY <2>1, <3>2 DEF Mapped
  <2> QED BY <1>6, <2>2, <2>3 DEF Pause
<1> QED BY <1>1, <1>2, <1>3, <1>4, <1>5, <1>6

\* The body that S3 stores is the effect of the call on the content replaced;
\* with it, the calls that raised before lose theirs.
LEMMA LandRefines ==
    ASSUME IInv, NEW p \in puts, Land(p)
    PROVE  [Atomic!Next]_Mapped
<1> DEFINE k == p.call
<1>1. /\ p \in Puts /\ k \in Calls /\ p.match = object /\ object' = p.body /\ puts' = puts \ {p}
      /\ p.body = After(k, object) /\ p.body # p.match
      /\ ~At(k, "new") /\ ~At(k, "returned")
  BY DEF IInv, TypeOK, Requests, NoLateEffect, Land, Matches, Puts
<1>2. object = Absent => k \in Initializers
  BY DEF IInv, Requests, Land, Matches
<1>3. /\ object'.content = Atomic!Effect(k, object.content)
      /\ object'.content # object.content
  BY <1>1, <1>2, AfterFacts DEF Puts
<1>4. Atomic!Possible(k, object.content)
  BY <1>1, <1>2, CallsAssumption DEF Atomic!Possible, Puts, Objects, Absent
<1>5. \A i \in Calls : ~Alive(i)'
  BY LandOutdates DEF Alive
<1>6. CASE At(k, "wait") /\ Returns(k, object)
  <2>1. \A i \in Calls : calls'[i].pc = IF i = k THEN "returned" ELSE calls[i].pc
    BY <1>6 DEF Returns, Goto, IInv, TypeOK
  <2>2. State[k] = "pending"
    BY <1>1, <1>6 DEF State, At
  <2>3. State' = Atomic!Settled([State EXCEPT ![k] = "returned"])
    BY <1>5, <2>1 DEF Atomic!Settled, State, Alive, At
  <2>4. Atomic!Take(k, [State EXCEPT ![k] = "returned"])
    BY <1>3, <1>4, <2>3 DEF Atomic!Take
  <2>5. answer' = [answer EXCEPT ![k] = Answer(k, object.content)]
    BY <1>6 DEF Returns
  <2>6. Atomic!Return(k)
    BY <2>2, <2>4, <2>5 DEF Atomic!Return
  <2> QED BY <1>1, <2>6 DEF Atomic!Next
<1>7. CASE UNCHANGED <<calls, answer>>
  <2>1. State' = Atomic!Settled(State)
    BY <1>5, <1>7 DEF Atomic!Settled, State, Alive, At
  <2>2. Atomic!Take(k, State)
    BY <1>3, <1>4, <2>1 DEF Atomic!Take
  <2>3. State[k] \in {"pending", "raised"}
    BY <1>1 DEF State
  <2>4. Atomic!Apply(k) \/ Atomic!Late(k)
    BY <1>7, <2>2, <2>3 DEF Atomic!Apply, Atomic!Late
  <2> QED BY <1>1, <2>4 DEF Atomic!Next
<1> QED BY <1>1, <1>6, <1>7 DEF Land, Awaited

\* A request that is refused or lost is at most the end of a call.
LEMMA RefuseRefines ==
    ASSUME IInv, NEW p \in puts, Refuse(p)
    PROVE  [Atomic!Next]_Mapped
<1> DEFINE k == p.call
<1>1. k \in Calls /\ puts' = puts \ {p} /\ UNCHANGED <<object, answer>>
  BY DEF IInv, TypeOK, Puts, Refuse
<1>2. \A i \in Calls : i # k => (Alive(i)' <=> Alive(i))
  BY <1>1 DEF Alive
<1>3. Alive(k)' => Alive(k)
  BY <1>1 DEF Alive
<1>0. State = [i \in Calls |-> StateOf(i)] /\ State' = [i \in Calls |-> StateOf(i)']
  BY DEF State, StateOf, Alive, At
<1>4. State[k] = StateOf(k) /\ State = [State EXCEPT ![k] = StateOf(k)]
  BY <1>0, <1>1
<1>5. ASSUME NEW pc \in {"pause", "raised"}, At(k, "wait"), Goto(k, pc)
      PROVE  [Atomic!Next]_Mapped
  <2>1. calls'[k].pc = pc /\ \A i \in Calls : i # k => calls'[i] = calls[i]
    BY <1>1, <1>5 DEF Goto, IInv, TypeOK
  <2>2. State' = [State EXCEPT ![k] = StateOf(k)']
    <3>1. \A i \in Calls : i # k => StateOf(i)' = StateOf(i)
      BY <1>2, <2>1 DEF StateOf, At
    <3> QED BY <1>0, <1>1, <3>1
  <2>3. State[k] = "pending"
    BY <1>4, <1>5 DEF StateOf, At
  <2>4. CASE pc = "pause"
    <3>1. State' = State
      BY <1>4, <2>1, <2>2, <2>3, <2>4 DEF StateOf, At
    <3> QED BY <1>1, <3>1 DEF Mapped
  <2>5. CASE pc = "raised"
    <3>1. StateOf(k)' \in {"raised", "over"}
      BY <2>1, <2>5 DEF StateOf, At
    <3>2. Atomic!Raise(k)
      BY <1>1, <2>2, <2>3, <3>1 DEF Atomic!Raise
    <3> QED BY <1>1, <3>2 DEF Atomic!Next
  <2> QED BY <2>4, <2>5
<1>6. CASE UNCHANGED calls
  <2>1. State' = [State EXCEPT ![k] = StateOf(k)']
    <3>1. \A i \in Calls : i # k => StateOf(i)' = StateOf(i)
      BY <1>2, <1>6 DEF StateOf, At
    <3> QED BY <1>0, <1>1, <3>1
  <2>2. CASE StateOf(k)' = StateOf(k)
    BY <1>1, <1>4, <2>1, <2>2 DEF Mapped
  <2>3. CASE StateOf(k)' # StateOf(k)
    <3>1. StateOf(k) = "raised" /\ StateOf(k)' = "over"
      BY <1>3, <1>6, <2>3 DEF StateOf, At
    <3>2. Atomic!Drop(k)
      BY <1>1, <1>4, <2>1, <3>1 DEF Atomic!Drop
    <3> QED BY <1>1, <3>2 DEF Atomic!Next
  <2> QED BY <2>2, <2>3
<1> QED BY <1>5, <1>6 DEF Refuse, Awaited

\* Every step is a step of the contract, or none.
LEMMA StepRefines == IInv /\ [Next]_vars => [Atomic!Next]_Mapped
<1> SUFFICES ASSUME IInv, [Next]_vars PROVE [Atomic!Next]_Mapped
  OBVIOUS
<1>1. CASE \E k \in Calls : Start(k) \/ ReadOnly(k) \/ ReadAndPut(k) \/ ReadFails(k)
                             \/ GiveUp(k) \/ Pause(k)
  BY <1>1, CallRefines
<1>2. CASE \E p \in puts : Land(p) \/ Refuse(p)
  BY <1>2, LandRefines, RefuseRefines
<1>3. CASE UNCHANGED vars
  BY <1>3 DEF vars, Mapped, State, At
<1> QED BY <1>1, <1>2, <1>3 DEF Next

\* The compare-and-swap loop over one S3 object implements the contract of
\* mutate, whatever the callbacks and however many calls.
THEOREM LoopImplementsContract == Spec => ImplementsContract
<1>1. IInv /\ [Next]_vars => [Atomic!Next]_<<object.content, State, answer>>
  BY StepRefines DEF Mapped
<1> QED BY <1>1, InitRefines, SpecInv, PTL DEF Spec, ImplementsContract, Atomic!Spec

=============================================================================
