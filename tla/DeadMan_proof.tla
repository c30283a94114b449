----------------------------- MODULE DeadMan_proof -----------------------------
(***************************************************************************)
(* Proofs about DeadMan for every set of rows, requests, edits and names,  *)
(* every granule of the clock and every behaviour of the network.          *)
(***************************************************************************)
EXTENDS DeadMan, TLAPS

-----------------------------------------------------------------------------
(* Rows.                                                                    *)

LEMMA OverrideType ==
    ASSUME NEW r \in Rows, NEW s \in Rows
    PROVE  Override(r, s) \in Rows
  BY DEF Override, Rows, Given

LEMMA OnlyType ==
    ASSUME NEW r \in Rows, NEW S
    PROVE  Only(r, S) \in Rows /\ Without(r, S) \in Rows
  BY DEF Only, Without, Rows

LEMMA NoFieldsType == NoFields \in Rows
  BY DEF NoFields, Rows

LEMMA CacType ==
    ASSUME NEW r \in Rows
    PROVE  DfsCacSeconds(r) \in Nat
  BY DEF DfsCacSeconds

LEMMA RequestType ==
    ASSUME NEW r \in Requests
    PROVE  /\ r.tool \in Tools
           /\ r.fields \in Rows
           /\ r.arm \in BOOLEAN
           /\ r.minutes \in 1..60
           /\ r.confirm \in BOOLEAN
  BY DeadManConstants DEF WellFormed, DeadManMinutes

LEMMA NoRequestType ==
    /\ NoRequest.fields \in Rows
    /\ NoRequest.minutes = 0
    /\ NoRequest.tool = "none"
  BY NoFieldsType DEF NoRequest

\* What any request in flight has.
LEMMA ReqType ==
    ASSUME TypeOK
    PROVE  req.fields \in Rows /\ req.minutes \in 0..60
  BY RequestType, NoRequestType DEF TypeOK

LEMMA RevertType ==
    ASSUME TypeOK
    PROVE  Revert(req, before) \in Rows
  BY ReqType, OnlyType DEF Revert, TypeOK

LEMMA CacAfterType ==
    ASSUME TypeOK, NEW r \in Rows
    PROVE  CacAfter(row, r) \in Nat
  BY CacType DEF CacAfter, TypeOK

LEMMA CountdownType ==
    ASSUME TypeOK, NEW s \in Countdowns
    PROVE  s \in Nat \cup {Never}
<1>1. Deadline(req) \in Nat /\ age \in Nat
  BY ReqType DEF Deadline, TypeOK
<1>. QED
  BY <1>1 DEF Countdowns

LEMMA MinusType ==
    ASSUME NEW s \in Nat
    PROVE  Minus(s) \in Nat /\ Minus(s) <= s /\ s <= Minus(s) + Granule
  BY DeadManConstants DEF Minus

-----------------------------------------------------------------------------
(* Types.                                                                   *)

LEMMA ReturnType ==
    ASSUME Return
    PROVE  /\ pc' = "idle" /\ pc' \in Steps
           /\ req' \in Requests \cup {NoRequest}
           /\ before' \in Rows
           /\ name' \in Name \cup {NoName}
           /\ age' \in Nat
  BY NoFieldsType DEF Return, Steps

LEMMA DropType ==
    ASSUME TypeOK, NEW n \in Name, Drop(n)
    PROVE  /\ armed' \subseteq Name
           /\ onEvent' \in [Name -> Rows]
           /\ left' \in [Name -> Nat \cup {Never}]
           /\ told' \subseteq armed'
  BY NoFieldsType DEF Drop, TypeOK

LEMMA TypeInit == Init => TypeOK
  BY DeadManConstants, NoFieldsType DEF Init, TypeOK, Steps

LEMMA TypeStep == TypeOK /\ [Next]_vars => TypeOK'
<1> SUFFICES ASSUME TypeOK, [Next]_vars
             PROVE  TypeOK'
  OBVIOUS
<1>1. ASSUME NEW r \in Requests, Begin(r)
      PROVE  TypeOK'
  BY <1>1 DEF Begin, TypeOK, device, history, Steps
<1>2. ASSUME NEW n \in Name, BeginCancel(n)
      PROVE  TypeOK'
  BY <1>2 DEF BeginCancel, TypeOK, device, history, Steps
<1>3. CASE ReadRow
  <2>1. CASE Return
    BY <1>3, <2>1, ReturnType DEF ReadRow, TypeOK, device, history
  <2>2. CASE /\ pc' = IF Arms(req) THEN "clock" ELSE "write"
             /\ before' = row
             /\ UNCHANGED <<req, name, age>>
    BY <1>3, <2>2 DEF ReadRow, TypeOK, device, history, Steps
  <2>. QED
    BY <1>3, <2>1, <2>2 DEF ReadRow
<1>4. CASE ReadClock
  <2>1. CASE Return
    BY <1>4, <2>1, ReturnType DEF ReadClock, TypeOK, device, history
  <2>2. CASE /\ pc' = "add"
             /\ name' \in FreshNames
             /\ UNCHANGED <<req, before, age>>
    BY <1>4, <2>2 DEF ReadClock, TypeOK, device, history, Steps, FreshNames
  <2>. QED
    BY <1>4, <2>1, <2>2 DEF ReadClock
<1>5. CASE AddScheduler
  <2>1. /\ armed' = armed \cup {name}
        /\ onEvent' = [onEvent EXCEPT ![name] = Revert(req, before)]
        /\ UNCHANGED <<row, cac, atRisk, confirmed>>
    BY <1>5 DEF AddScheduler
  <2>2. onEvent' \in [Name -> Rows] /\ left' \in [Name -> Nat \cup {Never}]
    <3>1. PICK seconds \in Countdowns : left' = [left EXCEPT ![name] = seconds]
      BY <1>5 DEF AddScheduler
    <3>2. seconds \in Nat \cup {Never}
      BY CountdownType
    <3>. QED
      BY <2>1, <3>1, <3>2, RevertType DEF TypeOK
  <2>3. name \in Name /\ armed' \subseteq Name /\ told' \subseteq armed'
    BY <1>5 DEF AddScheduler, TypeOK
  <2>4. CASE Return
    BY <2>1, <2>2, <2>3, <2>4, ReturnType DEF TypeOK
  <2>5. CASE GoTo("write")
    BY <2>1, <2>2, <2>3, <2>5 DEF GoTo, TypeOK, Steps
  <2>. QED
    BY <1>5, <2>4, <2>5 DEF AddScheduler
<1>6. CASE WriteRow
  <2>1. row' \in Rows /\ cac' \in Nat
    BY <1>6, ReqType, OverrideType, CacAfterType DEF WriteRow, TypeOK
  <2>2. told' \subseteq armed'
    BY <1>6 DEF WriteRow, TypeOK
  <2>3. atRisk' \subseteq Field \X Name
    <3>1. CASE Arms(req) /\ InTime(req)
      <4>1. name \in Name
        BY <1>6, <3>1 DEF WriteRow, TypeOK
      <4>2. Given(req.fields) \subseteq Field
        BY DEF Given
      <4>3. atRisk' = atRisk \cup ((Given(req.fields) \ Harmless) \X {name})
        BY <1>6, <3>1 DEF WriteRow
      <4>. QED
        BY <4>1, <4>2, <4>3 DEF TypeOK
    <3>2. CASE ~(Arms(req) /\ InTime(req))
      BY <1>6, <3>2 DEF WriteRow, TypeOK
    <3>. QED
      BY <3>1, <3>2
  <2>4. Return /\ UNCHANGED <<armed, onEvent, left>>
    BY <1>6 DEF WriteRow
  <2>5. confirmed' \in Rows
    BY <1>6, OnlyType DEF WriteRow, TypeOK
  <2>. QED
    BY <2>1, <2>2, <2>3, <2>4, <2>5, ReturnType DEF TypeOK
<1>7. CASE FindScheduler
  <2>1. CASE Return
    BY <1>7, <2>1, ReturnType DEF FindScheduler, TypeOK, device, history
  <2>2. CASE GoTo("remove")
    BY <1>7, <2>2 DEF FindScheduler, GoTo, TypeOK, device, history, Steps
  <2>. QED
    BY <1>7, <2>1, <2>2 DEF FindScheduler
<1>8. CASE RemoveScheduler
  <2>1. Return /\ UNCHANGED <<row, cac>>
    BY <1>8 DEF RemoveScheduler
  <2>2. CASE /\ name \in armed
             /\ Drop(name)
             /\ atRisk' = atRisk \ (Field \X {name})
             /\ \/ confirmed' = Override(confirmed, Only(row, Given(onEvent[name])))
                \/ confirmed' = confirmed
    <3>1. confirmed' \in Rows
      BY <2>2, OverrideType, OnlyType DEF TypeOK
    <3>. QED
      BY <2>1, <2>2, <3>1, DropType, ReturnType DEF TypeOK
  <2>3. CASE UNCHANGED <<armed, onEvent, left, history>>
    BY <2>1, <2>3, ReturnType DEF TypeOK, history
  <2>. QED
    BY <1>8, <2>2, <2>3 DEF RemoveScheduler
<1>9. CASE Fail
  BY <1>9, ReturnType DEF Fail, TypeOK, device, history
<1>10. ASSUME NEW n \in Name, Fire(n)
       PROVE  TypeOK'
  <2>1. row' \in Rows /\ cac' \in Nat
    BY <1>10, OverrideType, CacAfterType DEF Fire, TypeOK
  <2>. QED
    BY <1>10, <2>1, DropType DEF Fire, TypeOK, call
<1>11. ASSUME NEW fields \in Edits, Edit(fields)
       PROVE  TypeOK'
  <2>1. row' \in Rows /\ cac' \in Nat /\ confirmed' \in Rows
    BY <1>11, DeadManConstants, OverrideType, CacAfterType, OnlyType
       DEF Edit, TypeOK
  <2>. QED
    BY <1>11, <2>1 DEF Edit, TypeOK, call
<1>12. CASE Tick
  <2>1. cac' \in Nat /\ left' \in [Name -> Nat \cup {Never}] /\ age' \in Nat
    BY <1>12, MinusType, DeadManConstants DEF Tick, TypeOK
  <2>. QED
    BY <1>12, <2>1 DEF Tick, TypeOK, history
<1>13. CASE UNCHANGED vars
  BY <1>13 DEF vars, device, call, history, TypeOK
<1>. QED
  BY <1>1, <1>2, <1>3, <1>4, <1>5, <1>6, <1>7, <1>8, <1>9, <1>10, <1>11,
     <1>12, <1>13 DEF Next, CallStep

\* Every variable keeps its type, and every step that names a dead-man has one.
THEOREM TypeCorrect == Spec => []TypeOK
  BY TypeInit, TypeStep, PTL DEF Spec

-----------------------------------------------------------------------------
(* The dead-man is armed before the write and stays until it is settled.    *)

\* What a call in flight has established, step by step.
CallInv ==
    /\ pc \in {"read", "clock", "add", "write"} => req \in Requests
    /\ (pc \in {"clock", "add"} /\ req.tool # "arm_dead_man") =>
         Arms(req) /\ RevertFields(req) \subseteq Given(before)
    /\ pc = "add" => name \notin armed
    /\ (pc = "write" /\ Arms(req) /\ InTime(req)) =>
         /\ name \in armed
         /\ left[name] = Deadline(req) - age
         /\ RevertFields(req) \subseteq Given(before)
         /\ onEvent[name] = Only(before, RevertFields(req))

IInv == TypeOK /\ CallInv /\ NothingUnprotected

\* The write of a protected call changes nothing its revert leaves out, bar
\* what cannot drop a link.
LEMMA RevertCovers ==
    ASSUME NEW r \in Requests, Arms(r)
    PROVE  /\ r.tool # "arm_dead_man"
           /\ Given(r.fields) \ Harmless \subseteq RevertFields(r)
  BY DeadManConstants DEF Arms, LockoutRisk, WellFormed, RevertFields, Harmless

LEMMA OnlyGiven ==
    ASSUME NEW r \in Rows, NEW S \in SUBSET Given(r)
    PROVE  /\ Given(Only(r, S)) = S
           /\ \A f \in S : Only(r, S)[f] = r[f]
  BY DEF Only, Given, Rows

LEMMA RevertFieldsType ==
    ASSUME NEW r
    PROVE  RevertFields(r) \subseteq Field
  BY DEF RevertFields, Given, Field

\* While its window is open, a call's own dead-man is not due.
LEMMA DeadlineAhead ==
    ASSUME NEW r \in Requests, age \in Nat, InTime(r)
    PROVE  Deadline(r) - age \in Nat /\ Deadline(r) - age > 0
  BY RequestType DEF Deadline, InTime

LEMMA AddedInTime ==
    ASSUME TypeOK, AddScheduler, InTime(req)
    PROVE  left'[name] = Deadline(req) - age
<1>1. Countdowns = {Deadline(req) - age}
  BY DEF Countdowns, InTime, Deadline
<1>. QED
  BY <1>1 DEF AddScheduler, TypeOK

LEMMA IdleCall ==
    ASSUME Return
    PROVE  CallInv'
  BY DEF Return, CallInv

LEMMA IInvInit == Init => IInv
  BY TypeInit DEF IInv, Init, CallInv, NothingUnprotected

\* NothingUnprotected, when the scheduler and what is at risk stay.
LEMMA SchedulerKept ==
    ASSUME NothingUnprotected, UNCHANGED <<armed, onEvent, atRisk>>
    PROVE  NothingUnprotected'
  BY DEF NothingUnprotected

\* Taking a dead-man out settles what was at risk under it, and only that.
LEMMA DropSettles ==
    ASSUME TypeOK, NothingUnprotected, NEW n \in Name,
           Drop(n), atRisk' = atRisk \ (Field \X {n})
    PROVE  NothingUnprotected'
<1> SUFFICES ASSUME NEW f \in Field, NEW m \in Name, <<f, m>> \in atRisk'
             PROVE  m \in armed' /\ f \in Given(onEvent'[m])
  BY DEF NothingUnprotected, Given
<1>1. <<f, m>> \in atRisk /\ m # n
  OBVIOUS
<1>2. m \in armed /\ f \in Given(onEvent[m])
  BY <1>1 DEF NothingUnprotected
<1>3. onEvent'[m] = onEvent[m] /\ m \in armed'
  BY <1>1, <1>2 DEF Drop, TypeOK
<1>. QED
  BY <1>2, <1>3

LEMMA IInvStep == IInv /\ [Next]_vars => IInv'
<1> SUFFICES ASSUME TypeOK, CallInv, NothingUnprotected, [Next]_vars
             PROVE  CallInv' /\ NothingUnprotected'
  BY TypeStep DEF IInv
<1>0. TypeOK'
  BY TypeStep
<1>1. ASSUME NEW r \in Requests, Begin(r)
      PROVE  CallInv' /\ NothingUnprotected'
  <2>1. CallInv'
    BY <1>1 DEF Begin, CallInv
  <2>. QED
    BY <1>1, <2>1, SchedulerKept DEF Begin, device, history
<1>2. ASSUME NEW n \in Name, BeginCancel(n)
      PROVE  CallInv' /\ NothingUnprotected'
  <2>1. CallInv'
    BY <1>2 DEF BeginCancel, CallInv
  <2>. QED
    BY <1>2, <2>1, SchedulerKept DEF BeginCancel, device, history
<1>3. CASE ReadRow
  <2>1. NothingUnprotected'
    BY <1>3, SchedulerKept DEF ReadRow, device, history
  <2>2. CASE Return
    BY <2>1, <2>2, IdleCall
  <2>3. CASE /\ Arms(req) => CanArm(req, row)
             /\ pc' = IF Arms(req) THEN "clock" ELSE "write"
             /\ before' = row
             /\ UNCHANGED <<req, name, age>>
    <3>1. req \in Requests
      BY <1>3 DEF ReadRow, CallInv
    <3>2. Arms(req)' = Arms(req) /\ RevertFields(req)' = RevertFields(req)
      BY <2>3 DEF Arms, LockoutRisk, RevertFields
    <3>3. Arms(req) => RevertFields(req) \subseteq Given(before)'
      BY <2>3 DEF CanArm
    <3>. QED
      BY <2>1, <2>3, <3>1, <3>2, <3>3 DEF CallInv, Arms, RevertFields
  <2>. QED
    BY <1>3, <2>2, <2>3 DEF ReadRow
<1>4. CASE ReadClock
  <2>1. NothingUnprotected'
    BY <1>4, SchedulerKept DEF ReadClock, device, history
  <2>2. CASE Return
    BY <2>1, <2>2, IdleCall
  <2>3. CASE /\ pc' = "add"
             /\ name' \in FreshNames
             /\ UNCHANGED <<req, before, age>>
    <3>1. req \in Requests /\ name' \notin armed'
      BY <1>4, <2>3 DEF ReadClock, CallInv, FreshNames, device
    <3>2. req.tool # "arm_dead_man" =>
            Arms(req) /\ RevertFields(req) \subseteq Given(before)
      BY <1>4 DEF ReadClock, CallInv
    <3>3. /\ Arms(req)' = Arms(req)
          /\ RevertFields(req)' = RevertFields(req)
          /\ Given(before)' = Given(before)
      BY <2>3 DEF Arms, LockoutRisk, RevertFields, Given
    <3>. QED
      BY <2>1, <2>3, <3>1, <3>2, <3>3 DEF CallInv
  <2>. QED
    BY <1>4, <2>2, <2>3 DEF ReadClock
<1>5. CASE AddScheduler
  <2>1. /\ name \in Name
        /\ name \notin armed
        /\ armed' = armed \cup {name}
        /\ onEvent' = [onEvent EXCEPT ![name] = Revert(req, before)]
        /\ atRisk' = atRisk
    BY <1>5 DEF AddScheduler, CallInv, TypeOK
  <2>2. NothingUnprotected'
    <3> SUFFICES ASSUME NEW f \in Field, NEW m \in Name, <<f, m>> \in atRisk
                 PROVE  m \in armed' /\ f \in Given(onEvent'[m])
      BY <2>1 DEF NothingUnprotected, Given
    <3>1. m \in armed /\ f \in Given(onEvent[m])
      BY DEF NothingUnprotected
    <3>2. onEvent'[m] = onEvent[m]
      BY <2>1, <3>1 DEF TypeOK
    <3>. QED
      BY <2>1, <3>1, <3>2
  <2>3. CASE Return
    BY <2>2, <2>3, IdleCall
  <2>4. CASE req.tool # "arm_dead_man" /\ GoTo("write")
    <3>1. /\ req' = req /\ name' = name /\ before' = before /\ age' = age
          /\ pc' = "write"
      BY <2>4 DEF GoTo
    <3>2. /\ req \in Requests
          /\ RevertFields(req) \subseteq Given(before)
      BY <1>5, <2>4 DEF AddScheduler, CallInv
    <3>3. /\ InTime(req) => left'[name] = Deadline(req) - age
          /\ onEvent'[name] = Only(before, RevertFields(req))
      BY <1>5, <2>1, <2>4, AddedInTime DEF TypeOK, Revert
    <3>4. /\ Arms(req)' = Arms(req)
          /\ RevertFields(req)' = RevertFields(req)
          /\ Given(before)' = Given(before)
          /\ Only(before, RevertFields(req))' = Only(before, RevertFields(req))
          /\ Deadline(req)' = Deadline(req) /\ InTime(req)' = InTime(req)
      BY <3>1 DEF Arms, LockoutRisk, RevertFields, Given, Only, Deadline, InTime
    <3>. QED
      BY <2>1, <2>2, <3>1, <3>2, <3>3, <3>4 DEF CallInv
  <2>. QED
    BY <1>5, <2>3, <2>4 DEF AddScheduler
<1>6. CASE WriteRow
  <2>1. CallInv'
    BY <1>6, IdleCall DEF WriteRow
  <2>2. UNCHANGED <<armed, onEvent>>
    BY <1>6 DEF WriteRow
  <2>3. CASE ~(Arms(req) /\ InTime(req))
    BY <1>6, <2>1, <2>2, <2>3, SchedulerKept DEF WriteRow
  <2>4. CASE Arms(req) /\ InTime(req)
    <3>1. req \in Requests /\ before \in Rows /\ name \in armed
      BY <1>6, <2>4 DEF WriteRow, CallInv, TypeOK
    <3>2. Given(onEvent[name]) = RevertFields(req)
      BY <1>6, <2>4, <3>1, OnlyGiven DEF WriteRow, CallInv
    <3>3. Given(req.fields) \ Harmless \subseteq Given(onEvent[name])
      BY <2>4, <3>1, <3>2, RevertCovers
    <3>4. atRisk' = atRisk \cup ((Given(req.fields) \ Harmless) \X {name})
      BY <1>6, <2>4 DEF WriteRow
    <3> SUFFICES ASSUME NEW f \in Field, NEW m \in Name, <<f, m>> \in atRisk'
                 PROVE  m \in armed /\ f \in Given(onEvent[m])
      BY <2>1, <2>2 DEF NothingUnprotected, Given
    <3>5. CASE <<f, m>> \in atRisk
      BY <3>5 DEF NothingUnprotected
    <3>6. CASE m = name /\ f \in Given(req.fields) \ Harmless
      BY <3>1, <3>3, <3>6
    <3>. QED
      BY <3>4, <3>5, <3>6
  <2>. QED
    BY <2>3, <2>4
<1>7. CASE FindScheduler
  <2>1. NothingUnprotected'
    BY <1>7, SchedulerKept DEF FindScheduler, device, history
  <2>2. CASE Return
    BY <2>1, <2>2, IdleCall
  <2>3. CASE GoTo("remove")
    BY <2>1, <2>3 DEF GoTo, CallInv
  <2>. QED
    BY <1>7, <2>2, <2>3 DEF FindScheduler
<1>8. CASE RemoveScheduler
  <2>1. CallInv'
    BY <1>8, IdleCall DEF RemoveScheduler
  <2>2. name \in Name
    BY <1>8 DEF RemoveScheduler, TypeOK
  <2>3. CASE Drop(name) /\ atRisk' = atRisk \ (Field \X {name})
    BY <2>1, <2>2, <2>3, DropSettles
  <2>4. CASE UNCHANGED <<armed, onEvent, left, history>>
    BY <2>1, <2>4, SchedulerKept DEF history
  <2>. QED
    BY <1>8, <2>3, <2>4 DEF RemoveScheduler
<1>9. CASE Fail
  BY <1>9, IdleCall, SchedulerKept DEF Fail, device, history
<1>10. ASSUME NEW n \in Name, Fire(n)
       PROVE  CallInv' /\ NothingUnprotected'
  <2>1. NothingUnprotected'
    BY <1>10, DropSettles DEF Fire
  <2>2. /\ pc' = pc /\ req' = req /\ before' = before
        /\ name' = name /\ age' = age
        /\ armed' = armed \ {n}
        /\ \A m \in Name \ {n} : left'[m] = left[m] /\ onEvent'[m] = onEvent[m]
    BY <1>10 DEF Fire, Drop, call, TypeOK
  <2>3. (pc = "write" /\ Arms(req) /\ InTime(req)) => name # n
    <3> SUFFICES ASSUME pc = "write", Arms(req), InTime(req)
                 PROVE  left[name] > 0
      BY <1>10 DEF Fire
    <3>. QED
      BY DeadlineAhead DEF CallInv, TypeOK
  <2>4. /\ Arms(req)' = Arms(req)
        /\ RevertFields(req)' = RevertFields(req)
        /\ Given(before)' = Given(before)
        /\ Only(before, RevertFields(req))' = Only(before, RevertFields(req))
        /\ Deadline(req)' = Deadline(req) /\ InTime(req)' = InTime(req)
    BY <2>2 DEF Arms, LockoutRisk, RevertFields, Given, Only, Deadline, InTime
  <2>. QED
    BY <2>1, <2>2, <2>3, <2>4 DEF CallInv, TypeOK
<1>11. ASSUME NEW fields \in Edits, Edit(fields)
       PROVE  CallInv' /\ NothingUnprotected'
  <2>1. NothingUnprotected'
    BY <1>11, SchedulerKept DEF Edit
  <2>. QED
    BY <1>11, <2>1 DEF Edit, call, CallInv, Arms, LockoutRisk, RevertFields,
                       Given, Only, Deadline, InTime
<1>12. CASE Tick
  <2>1. NothingUnprotected'
    BY <1>12, SchedulerKept DEF Tick, history
  <2>2. /\ pc' = pc /\ req' = req /\ before' = before /\ name' = name
        /\ armed' = armed /\ onEvent' = onEvent
    BY <1>12 DEF Tick
  <2>3. /\ Arms(req)' = Arms(req)
        /\ RevertFields(req)' = RevertFields(req)
        /\ Given(before)' = Given(before)
        /\ Only(before, RevertFields(req))' = Only(before, RevertFields(req))
        /\ Deadline(req)' = Deadline(req)
    BY <2>2 DEF Arms, LockoutRisk, RevertFields, Given, Only, Deadline
  <2>4. ASSUME pc = "write", Arms(req), InTime(req)'
        PROVE  InTime(req) /\ left'[name] = Deadline(req) - age'
    <3>1. /\ name \in Name /\ Arming /\ age' = age + Granule
          /\ left'[name] = IF left[name] = Never THEN Never ELSE Minus(left[name])
      BY <1>12, <2>4, DeadManConstants DEF Tick, Arming, TypeOK
    <3>2. /\ req \in Requests /\ age \in Nat /\ Granule \in Nat \ {0}
          /\ Deadline(req) \in Int
      BY <2>4, ReqType, DeadManConstants DEF CallInv, TypeOK, Deadline
    <3>3. Deadline(req) - age > Granule /\ InTime(req)
      BY <2>2, <2>4, <3>1, <3>2 DEF InTime, Deadline
    <3>4. left[name] = Deadline(req) - age
      BY <2>4, <3>3 DEF CallInv
    <3>. QED
      BY <3>1, <3>2, <3>3, <3>4 DEF Minus, Never
  <2>. QED
    BY <2>1, <2>2, <2>3, <2>4 DEF CallInv
<1>13. CASE UNCHANGED vars
  <2>1. NothingUnprotected'
    BY <1>13, SchedulerKept DEF vars, device, history
  <2>. QED
    BY <1>13, <2>1 DEF vars, device, call, CallInv, Arms, LockoutRisk,
                       RevertFields, Given, Only, Deadline, InTime
<1>. QED
  BY <1>1, <1>2, <1>3, <1>4, <1>5, <1>6, <1>7, <1>8, <1>9, <1>10, <1>11,
     <1>12, <1>13 DEF Next, CallStep

LEMMA ArmedFromIInv == IInv => ArmedBeforeWrite
<1> SUFFICES ASSUME IInv, pc = "write", Arms(req), InTime(req)
             PROVE  /\ name \in armed
                    /\ left[name] > 0
                    /\ Given(req.fields) \ Harmless \subseteq Given(onEvent[name])
                    /\ \A f \in Given(onEvent[name]) : onEvent[name][f] = before[f]
  BY DEF ArmedBeforeWrite
<1>1. /\ req \in Requests /\ before \in Rows /\ age \in Nat
      /\ name \in armed /\ left[name] = Deadline(req) - age
      /\ RevertFields(req) \subseteq Given(before)
      /\ onEvent[name] = Only(before, RevertFields(req))
  BY DEF IInv, CallInv, TypeOK
<1>2. left[name] > 0
  BY <1>1, DeadlineAhead
<1>3. /\ Given(onEvent[name]) = RevertFields(req)
      /\ \A f \in RevertFields(req) : onEvent[name][f] = before[f]
  BY <1>1, OnlyGiven
<1>. QED
  BY <1>1, <1>2, <1>3, RevertCovers

LEMMA IInvAlways == Spec => []IInv
  BY IInvInit, IInvStep, PTL DEF Spec

\* No risky write leaves the server unless a dead-man that undoes the whole of
\* it is in the scheduler and still has time to run.
THEOREM ArmedAlways == Spec => []ArmedBeforeWrite
  BY IInvAlways, ArmedFromIInv, PTL

\* Whatever a risky write changed stays covered until the operator settles it
\* or the device undoes it.
THEOREM NothingUnprotectedAlways == Spec => []NothingUnprotected
<1>1. IInv => NothingUnprotected
  BY DEF IInv
<1>. QED
  BY <1>1, IInvAlways, PTL
==============================================================================
