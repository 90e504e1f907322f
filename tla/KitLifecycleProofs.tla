------------------------- MODULE KitLifecycleProofs -------------------------
(* Proofs about KitLifecycle for every set of kits and requests, every plan   *)
(* and every number of retries.  The inductive invariant says, for every      *)
(* await of every handler, what the four stores hold there, and which other   *)
(* handlers may be at work on the same kit.                                   *)
EXTENDS KitLifecycle, FiniteSetTheorems, TLAPS

Store == [turso : BOOLEAN, record : Status, url : BOOLEAN, row : Status, use : BOOLEAN]

\* The awaits of an activation between the count and the row.
Reserved == {"getKitDb", "reactivate", "create", "migrate", "put", "writeRow"}

\* Handler o awaits at a.
AwaitsAt(o, a) ==
  \/ o = "activate" /\ a \in Reserved \cup {"subscription", "row", "count", "grant"}
  \/ o = "deactivate" /\ a \in {"authorize", "setStatus", "clearRow", "revoke"}
  \/ o = "delete" /\ a \in {"authorize", "readRow", "destroy", "deleteRecord", "deleteRow", "revoke"}
  \/ o = "subscribe" /\ a \in {"idle", "lookup", "insert"}

Positions ==
  \A r \in Requests :
    /\ AwaitsAt(op[r], pc[r])
    /\ kit[r] \in Kits <=> op[r] # "subscribe"
    /\ pc[r] \in {"row", "count", "lookup", "insert"} => plan[r] \in Plans

\* Requests in flight on one kit have met.
Meets ==
  \A r, q \in Requests : r # q /\ kit[r] \in Kits /\ kit[q] = kit[r] => op[q] \in met[r]

\* No activation is in flight on a kit whose deactivation was promised.
NoActivation == \A r \in Requests : op[r] = "activate" => told[kit[r]] # "off"

\* A deactivation past its status, that no activation met, finds the record as it left it.
StaysOff ==
  \A r \in Requests :
    op[r] = "deactivate" /\ pc[r] \in {"clearRow", "revoke"} /\ "activate" \notin met[r] =>
      st[kit[r]].record # "active"

\* At rest: a record has its database, and kit:use has a record.
Base(s) ==
  /\ s.record # "none" => s.url /\ s.turso
  /\ s.use => s.record # "none"

Destroying(o, a) == o = "delete" /\ a \notin {"authorize", "readRow"}

\* What handler o finds at its await a.
Finds(s, o, a) ==
  /\ o = "delete" /\ a \in {"deleteRow", "revoke"} => s.record = "none"
  /\ o # "delete" /\ a \in {"writeRow", "grant", "setStatus", "reactivate"} => s.record # "none"
  /\ o # "delete" /\ a \in {"migrate", "put"} => s.turso

\* The stores of a kit of which no deletion has gone wrong: a deletion is alone, and all is
\* at rest unless it is under way.
Databases ==
  \A k \in Kits : clean[k] =>
    /\ \A r, q \in Requests : kit[r] = k /\ kit[q] = k /\ op[r] = "delete" => q = r
    /\ \A r \in Requests : kit[r] = k => Finds(st[k], op[r], pc[r])
    /\ (\A r \in Requests : kit[r] = k => ~Destroying(op[r], pc[r])) => Base(st[k])

IInv ==
  /\ TypeOK /\ Positions /\ Meets
  /\ NoActivation /\ StaysOff /\ OffMeansOff
  /\ Databases /\ Overshoot

-----------------------------------------------------------------------------
\* A place that is admitted only below the limit, and rows that only admitted requests write,
\* keep the overshoot within the requests in flight.
LEMMA OvershootStep ==
  ASSUME Overshoot,
         \/ ActiveRows' \subseteq ActiveRows /\ Admitted' \subseteq Admitted
         \/ \E r \in Admitted, k \in Kits :
              ActiveRows' \subseteq ActiveRows \cup {k} /\ Admitted' \subseteq Admitted \ {r}
         \/ ActiveRows' \subseteq ActiveRows /\ \E p \in Plans : ~AtLimit(p)
  PROVE  Overshoot'
<1> SUFFICES ASSUME NEW p \in Plans, \A q \in Plans : PLAN_LIMITS[q] <= PLAN_LIMITS[p]
             PROVE  Cardinality(ActiveRows') + Cardinality(Admitted')
                      < PLAN_LIMITS[p] + Cardinality(Requests)
  BY DEF Overshoot
<1>1. /\ ActiveRows \in SUBSET Kits /\ ActiveRows' \in SUBSET Kits
      /\ Admitted \in SUBSET Requests /\ Admitted' \in SUBSET Requests
  BY DEF ActiveRows, Admitted
<1>2. /\ IsFiniteSet(ActiveRows) /\ IsFiniteSet(ActiveRows') /\ IsFiniteSet(Admitted)
      /\ IsFiniteSet(Admitted') /\ Cardinality(Admitted') <= Cardinality(Requests)
  BY <1>1, FS_Subset, KitsAssumption
<1>3. /\ Cardinality(ActiveRows) \in Nat /\ Cardinality(ActiveRows') \in Nat
      /\ Cardinality(Admitted) \in Nat /\ Cardinality(Admitted') \in Nat
      /\ Cardinality(Requests) \in Nat /\ PLAN_LIMITS[p] \in Nat
  BY <1>2, FS_CardinalityType, KitsAssumption, LimitAssumption
<1>4. Cardinality(ActiveRows) + Cardinality(Admitted) < PLAN_LIMITS[p] + Cardinality(Requests)
  BY DEF Overshoot
<1>5. CASE ActiveRows' \subseteq ActiveRows /\ Admitted' \subseteq Admitted
  <2>1. /\ Cardinality(ActiveRows') <= Cardinality(ActiveRows)
        /\ Cardinality(Admitted') <= Cardinality(Admitted)
    BY <1>2, <1>5, FS_Subset
  <2> QED
    BY <2>1, <1>3, <1>4
<1>6. ASSUME NEW r \in Admitted, NEW k \in Kits,
             ActiveRows' \subseteq ActiveRows \cup {k}, Admitted' \subseteq Admitted \ {r}
      PROVE  Cardinality(ActiveRows') + Cardinality(Admitted')
               < PLAN_LIMITS[p] + Cardinality(Requests)
  <2>1. /\ IsFiniteSet(ActiveRows \cup {k})
        /\ Cardinality(ActiveRows \cup {k}) \in {Cardinality(ActiveRows), Cardinality(ActiveRows) + 1}
    BY <1>2, FS_AddElement
  <2>2. /\ IsFiniteSet(Admitted \ {r})
        /\ Cardinality(Admitted \ {r}) = Cardinality(Admitted) - 1
    BY <1>2, FS_RemoveElement
  <2>3. /\ Cardinality(ActiveRows') <= Cardinality(ActiveRows \cup {k})
        /\ Cardinality(Admitted') <= Cardinality(Admitted \ {r})
    BY <1>6, <2>1, <2>2, FS_Subset
  <2> QED
    BY <2>1, <2>2, <2>3, <1>3, <1>4
<1>7. ASSUME ActiveRows' \subseteq ActiveRows, NEW q \in Plans, ~AtLimit(q)
      PROVE  Cardinality(ActiveRows') + Cardinality(Admitted')
               < PLAN_LIMITS[p] + Cardinality(Requests)
  <2>1. Cardinality(ActiveRows') <= Cardinality(ActiveRows)
    BY <1>2, <1>7, FS_Subset
  <2>2. Cardinality(ActiveRows) < PLAN_LIMITS[q] /\ PLAN_LIMITS[q] \in Nat
    BY <1>3, <1>7, LimitAssumption DEF AtLimit
  <2> QED
    BY <2>1, <2>2, <1>2, <1>3
<1> QED
  BY <1>5, <1>6, <1>7

-----------------------------------------------------------------------------
\* The step of a handler from its await to the next, seen from its kit: the stores go from
\* st[kit[r]] to s.
Works(r, s, to) ==
  /\ st' = [st EXCEPT ![kit[r]] = s]
  /\ pc' = [pc EXCEPT ![r] = to]
  /\ UNCHANGED <<op, kit, met, begun, told, clean, subs>>
  /\ saw' \in [Requests -> Status] /\ plan' \in [Requests -> Plans \cup {NoPlan}]
  /\ tries' \in [Requests -> Nat]
  /\ \A q \in Requests \ {r} : plan'[q] = plan[q]
  /\ to \in {"row", "count"} => plan'[r] \in Plans

\* What a handler other than an activation and a deletion must leave as it was.
Preserves(o, s, t) ==
  /\ t.record = "active" /\ o # "activate" => s.record = "active"
  /\ t.use /\ o # "activate" => s.use
  /\ o # "delete" => (s.record # "none" => t.record # "none") /\ (s.turso => t.turso)

\* A handler finds what it should at its await, if nothing has gone wrong with the kit.
Sound(s, o, a) == (~Destroying(o, a) => Base(s)) /\ Finds(s, o, a)

\* The step of r to the await "to" keeps the promises of its kit.
Allowed(r, s, to) ==
  /\ s \in Store /\ to \in Awaits /\ AwaitsAt(op[r], to)
  /\ Preserves(op[r], st[kit[r]], s)
  /\ op[r] = "deactivate" /\ to \in {"clearRow", "revoke"} =>
       s.record # "active" \/ (pc[r] = "clearRow" /\ s.record = st[kit[r]].record)
  /\ Sound(st[kit[r]], op[r], pc[r]) => Sound(s, op[r], to)
  /\ s.row = "active" => st[kit[r]].row = "active" \/ (pc[r] = "writeRow" /\ to = "grant")
  /\ to \in Reserved => pc[r] \in Reserved \/ (pc[r] = "count" /\ ~AtLimit(plan[r]))

LEMMA WorksKeeps ==
  ASSUME IInv, NEW r \in Requests, kit[r] \in Kits, NEW s, NEW to,
         Works(r, s, to), Allowed(r, s, to)
  PROVE  IInv'
<1> DEFINE k == kit[r]
<1>1. /\ st' = [st EXCEPT ![k] = s] /\ s \in Store /\ k \in Kits
      /\ op' = op /\ kit' = kit /\ met' = met /\ begun' = begun /\ told' = told
      /\ clean' = clean /\ subs' = subs
  BY DEF Works, Allowed
<1>2. st'[k] = s /\ \A m \in Kits \ {k} : st'[m] = st[m]
  BY <1>1 DEF IInv, TypeOK
<1>3. pc'[r] = to /\ (\A q \in Requests \ {r} : pc'[q] = pc[q])
  BY DEF IInv, TypeOK, Works
<1>4. TypeOK'
  <2>1. st' \in [Kits -> Store]
    BY <1>1 DEF IInv, TypeOK, Store
  <2>2. pc' \in [Requests -> Awaits \cup {"idle"}]
    BY DEF IInv, TypeOK, Works, Allowed
  <2> QED
    BY <1>1, <2>1, <2>2 DEF IInv, TypeOK, Works, Store
<1>5. Positions'
  <2>1. ASSUME NEW q \in Requests PROVE AwaitsAt(op[q], pc'[q])
    BY <1>3 DEF IInv, Positions, Allowed
  <2>2. ASSUME NEW q \in Requests, pc'[q] \in {"row", "count", "lookup", "insert"}
        PROVE  plan'[q] \in Plans
    <3>1. CASE q = r
      <4>1. op[r] # "subscribe" /\ to \notin {"lookup", "insert"}
        BY DEF IInv, Positions, Allowed, AwaitsAt, Reserved
      <4> QED
        BY <3>1, <4>1, <2>2, <1>3 DEF Works
    <3>2. CASE q # r
      BY <3>2, <2>2, <1>3 DEF IInv, Positions, Works
    <3> QED
      BY <3>1, <3>2
  <2> QED
    BY <1>1, <2>1, <2>2 DEF IInv, Positions, AwaitsAt
<1>6. Meets' /\ NoActivation'
  BY <1>1 DEF IInv, Meets, NoActivation
<1>7. StaysOff'
  <2> SUFFICES ASSUME NEW q \in Requests, op[q] = "deactivate",
                      pc'[q] \in {"clearRow", "revoke"}, "activate" \notin met[q]
               PROVE  st'[kit[q]].record # "active"
    BY <1>1 DEF StaysOff
  <2>1. CASE q = r
    BY <2>1, <1>2, <1>3 DEF IInv, StaysOff, Allowed
  <2>2. CASE q # r /\ kit[q] = k
    <3>1. op[r] # "activate"
      BY <2>2 DEF IInv, Meets
    <3> QED
      BY <2>2, <3>1, <1>2, <1>3 DEF IInv, StaysOff, Allowed, Preserves
  <2>3. CASE q # r /\ kit[q] # k
    <3>1. kit[q] \in Kits
      BY DEF IInv, Positions
    <3> QED
      BY <2>3, <3>1, <1>2, <1>3 DEF IInv, StaysOff
  <2> QED
    BY <2>1, <2>2, <2>3
<1>8. OffMeansOff'
  BY <1>1, <1>2 DEF IInv, OffMeansOff, NoActivation, Allowed, Preserves
<1>9. Databases'
  <2> SUFFICES ASSUME NEW m \in Kits, clean[m]
      PROVE  /\ \A p, q \in Requests : kit[p] = m /\ kit[q] = m /\ op[p] = "delete" => q = p
             /\ \A q \in Requests : kit[q] = m => Finds(st'[m], op[q], pc'[q])
             /\ (\A q \in Requests : kit[q] = m => ~Destroying(op[q], pc'[q])) => Base(st'[m])
    BY <1>1 DEF Databases, Finds, Destroying, Base
  <2>0. /\ \A p, q \in Requests : kit[p] = m /\ kit[q] = m /\ op[p] = "delete" => q = p
        /\ \A q \in Requests : kit[q] = m => Finds(st[m], op[q], pc[q])
        /\ (\A q \in Requests : kit[q] = m => ~Destroying(op[q], pc[q])) => Base(st[m])
    BY DEF IInv, Databases
  <2>1. CASE m # k
    <3>1. st'[m] = st[m] /\ \A q \in Requests : kit[q] = m => pc'[q] = pc[q]
      BY <2>1, <1>2, <1>3
    <3> QED
      BY <2>0, <3>1
  <2>2. CASE m = k
    <3>1. \A q \in Requests \ {r} : kit[q] = m => op[q] # "delete" /\ op[r] # "delete"
      BY <2>0, <2>2
    <3>2. Sound(st[m], op[r], pc[r])
      <4>1. ~Destroying(op[r], pc[r]) => \A q \in Requests : kit[q] = m => ~Destroying(op[q], pc[q])
        BY <3>1 DEF Destroying
      <4> QED
        BY <2>0, <2>2, <4>1 DEF Sound
    <3>3. Sound(s, op[r], to)
      BY <3>2, <2>2 DEF Allowed
    <3>4. ASSUME NEW q \in Requests \ {r}, kit[q] = m PROVE Finds(s, op[q], pc[q])
      BY <2>0, <2>2, <3>1, <3>4 DEF Allowed, Preserves, Finds
    <3>5. st'[m] = s
      BY <1>2, <2>2
    <3>6. \A q \in Requests : kit[q] = m => Finds(s, op[q], pc'[q])
      BY <1>3, <3>3, <3>4 DEF Sound
    <3>7. (\A q \in Requests : kit[q] = m => ~Destroying(op[q], pc'[q])) => Base(s)
      BY <1>3, <2>2, <3>3 DEF Sound
    <3> QED
      BY <2>0, <3>5, <3>6, <3>7
  <2> QED
    BY <2>1, <2>2
<1>10. Overshoot'
  <2>1. CASE pc[r] = "writeRow" /\ to = "grant"
    <3>1. r \in Admitted /\ Admitted' \subseteq Admitted \ {r}
      BY <2>1, <1>3 DEF Admitted
    <3>2. ActiveRows' \subseteq ActiveRows \cup {k}
      BY <1>2 DEF ActiveRows
    <3> QED
      BY <3>1, <3>2, <1>1, OvershootStep DEF IInv
  <2>2. CASE ~(pc[r] = "writeRow" /\ to = "grant")
    <3>1. ActiveRows' \subseteq ActiveRows
      BY <2>2, <1>2 DEF ActiveRows, Allowed
    <3>2. CASE pc[r] = "count" /\ ~AtLimit(plan[r])
      <4>1. plan[r] \in Plans
        BY <3>2 DEF IInv, Positions
      <4> QED
        BY <3>1, <3>2, <4>1, OvershootStep DEF IInv
    <3>3. CASE to \in Reserved => pc[r] \in Reserved
      <4>1. Admitted' \subseteq Admitted
        BY <3>3, <1>3 DEF Admitted, Reserved
      <4> QED
        BY <3>1, <4>1, OvershootStep DEF IInv
    <3> QED
      BY <3>2, <3>3 DEF Allowed
  <2> QED
    BY <2>1, <2>2
<1> QED
  BY <1>4, <1>5, <1>6, <1>7, <1>8, <1>9, <1>10 DEF IInv

-----------------------------------------------------------------------------
\* Request r is answered, leaving its kit's stores as s.
Ends(r, s, ok) ==
  /\ st' = [st EXCEPT ![kit[r]] = s]
  /\ Finish(r, ok)
  /\ subs' = subs

AllowedEnd(r, s, ok) ==
  /\ s \in Store /\ ok \in BOOLEAN
  /\ Preserves(op[r], st[kit[r]], s)
  /\ op[r] = "deactivate" /\ ok =>
       pc[r] = "revoke" /\ s.record = st[kit[r]].record /\ ~s.use
  /\ Sound(st[kit[r]], op[r], pc[r]) /\ (Destroying(op[r], pc[r]) => ok) => Base(s)
  /\ s.row = "active" => st[kit[r]].row = "active"

\* A request that ends leaves the others as they are; only a deactivation that no activation
\* met makes a promise, and a deletion cut short taints its kit.
LEMMA FinishFacts ==
  ASSUME TypeOK, NEW r \in Requests, NEW ok \in BOOLEAN, Finish(r, ok)
  PROVE  /\ pc'[r] = "idle" /\ op'[r] = "subscribe" /\ kit'[r] = NoKit
         /\ \A q \in Requests \ {r} : /\ pc'[q] = pc[q] /\ op'[q] = op[q] /\ kit'[q] = kit[q]
                                      /\ met'[q] = met[q] /\ plan'[q] = plan[q]
         /\ pc' \in [Requests -> Awaits \cup {"idle"}] /\ op' \in [Requests -> Handlers]
         /\ kit' \in [Requests -> Kits \cup {NoKit}] /\ saw' \in [Requests -> Status]
         /\ plan' \in [Requests -> Plans \cup {NoPlan}] /\ tries' \in [Requests -> Nat]
         /\ met' \in [Requests -> SUBSET Handlers] /\ begun' \in Nat
         /\ told' \in [Kits -> {"nothing", "off"}]
         /\ \A k \in Kits : told'[k] = "off" =>
              \/ told[k] = "off"
              \/ kit[r] = k /\ ok /\ op[r] = "deactivate" /\ "activate" \notin met[r]
         /\ clean' \in [Kits -> BOOLEAN]
         /\ \A k \in Kits : clean'[k] =>
              clean[k] /\ (kit[r] = k /\ Destroying(op[r], pc[r]) => ok)
<1>1. /\ pc'[r] = "idle" /\ op'[r] = "subscribe" /\ kit'[r] = NoKit
      /\ \A q \in Requests \ {r} : /\ pc'[q] = pc[q] /\ op'[q] = op[q] /\ kit'[q] = kit[q]
                                   /\ met'[q] = met[q] /\ plan'[q] = plan[q]
  BY DEF TypeOK, Finish
<1>2. /\ pc' \in [Requests -> Awaits \cup {"idle"}] /\ op' \in [Requests -> Handlers]
      /\ kit' \in [Requests -> Kits \cup {NoKit}] /\ saw' \in [Requests -> Status]
      /\ plan' \in [Requests -> Plans \cup {NoPlan}] /\ tries' \in [Requests -> Nat]
      /\ met' \in [Requests -> SUBSET Handlers] /\ begun' \in Nat
  BY DEF TypeOK, Finish, Handlers, Status
<1>3. told' = [k \in Kits |-> IF kit[r] = k THEN Promise(r, ok) ELSE told[k]]
  BY DEF Finish
<1>4. told' \in [Kits -> {"nothing", "off"}]
  BY <1>3 DEF TypeOK, Promise
<1>5. \A k \in Kits : told'[k] = "off" =>
        \/ told[k] = "off"
        \/ kit[r] = k /\ ok /\ op[r] = "deactivate" /\ "activate" \notin met[r]
  BY <1>3 DEF Promise
<1>6. clean' = [k \in Kits |-> clean[k] /\ (kit[r] = k /\ Deleting(r) => ok)]
  BY DEF Finish
<1>7. clean' \in [Kits -> BOOLEAN]
  BY <1>6, Zenon
<1>8. \A k \in Kits : clean'[k] => clean[k] /\ (kit[r] = k /\ Destroying(op[r], pc[r]) => ok)
  BY <1>6, Zenon DEF Deleting, Destroying
<1> QED
  BY <1>1, <1>2, <1>4, <1>5, <1>7, <1>8

LEMMA EndsKeeps ==
  ASSUME IInv, NEW r \in Requests, kit[r] \in Kits, NEW s, NEW ok,
         Ends(r, s, ok), AllowedEnd(r, s, ok)
  PROVE  IInv'
<1> DEFINE k == kit[r]
<1>0. /\ st' = [st EXCEPT ![k] = s] /\ s \in Store /\ k \in Kits /\ Finish(r, ok)
      /\ ok \in BOOLEAN /\ subs' = subs /\ TypeOK
  BY DEF Ends, AllowedEnd, IInv
<1>1. st'[k] = s /\ \A m \in Kits \ {k} : st'[m] = st[m]
  BY <1>0 DEF TypeOK
<1>2. /\ pc'[r] = "idle" /\ op'[r] = "subscribe" /\ kit'[r] = NoKit
      /\ \A q \in Requests \ {r} : /\ pc'[q] = pc[q] /\ op'[q] = op[q] /\ kit'[q] = kit[q]
                                   /\ met'[q] = met[q] /\ plan'[q] = plan[q]
  BY <1>0, FinishFacts
<1>3. \A m \in Kits : told'[m] = "off" =>
        \/ told[m] = "off"
        \/ k = m /\ ok /\ op[r] = "deactivate" /\ "activate" \notin met[r]
  BY <1>0, FinishFacts
<1>4. \A m \in Kits : clean'[m] => clean[m] /\ (k = m /\ Destroying(op[r], pc[r]) => ok)
  BY <1>0, FinishFacts
<1>5. TypeOK'
  <2>1. st' \in [Kits -> Store]
    BY <1>0 DEF TypeOK, Store
  <2> QED
    BY <1>0, <2>1, FinishFacts DEF TypeOK, Store
<1>6. Positions'
  BY <1>2, NothingAssumption DEF IInv, Positions, AwaitsAt
<1>7. Meets'
  BY <1>2, NothingAssumption DEF IInv, Meets
<1>8. NoActivation'
  <2> SUFFICES ASSUME NEW q \in Requests, op'[q] = "activate", told'[kit'[q]] = "off" PROVE FALSE
    BY DEF NoActivation
  <2>1. q # r /\ op[q] = "activate" /\ kit'[q] = kit[q] /\ kit[q] \in Kits
    BY <1>2 DEF IInv, Positions
  <2>2. told[kit[q]] # "off"
    BY <2>1 DEF IInv, NoActivation
  <2>3. k = kit[q] /\ "activate" \notin met[r]
    BY <1>3, <2>1, <2>2
  <2> QED
    BY <2>1, <2>3, <1>0 DEF IInv, Meets
<1>9. StaysOff'
  <2> SUFFICES ASSUME NEW q \in Requests, op'[q] = "deactivate",
                      pc'[q] \in {"clearRow", "revoke"}, "activate" \notin met'[q]
               PROVE  st'[kit'[q]].record # "active"
    BY DEF StaysOff
  <2>1. /\ q # r /\ op[q] = "deactivate" /\ pc[q] \in {"clearRow", "revoke"}
        /\ "activate" \notin met[q] /\ kit'[q] = kit[q] /\ kit[q] \in Kits
    BY <1>2 DEF IInv, Positions
  <2>2. st[kit[q]].record # "active"
    BY <2>1 DEF IInv, StaysOff
  <2>3. CASE kit[q] = k
    <3>1. op[r] # "activate"
      BY <2>1, <2>3 DEF IInv, Meets
    <3> QED
      BY <2>1, <2>2, <2>3, <3>1, <1>1 DEF AllowedEnd, Preserves
  <2>4. CASE kit[q] # k
    BY <2>1, <2>2, <2>4, <1>1
  <2> QED
    BY <2>3, <2>4
<1>10. OffMeansOff'
  <2> SUFFICES ASSUME NEW m \in Kits, told'[m] = "off"
               PROVE  st'[m].record # "active" /\ ~st'[m].use
    BY DEF OffMeansOff
  <2>1. CASE m # k
    BY <2>1, <1>1, <1>3 DEF IInv, OffMeansOff
  <2>2. CASE m = k /\ told[m] = "off"
    <3>1. op[r] # "activate" /\ st[k].record # "active" /\ ~st[k].use
      BY <2>2 DEF IInv, NoActivation, OffMeansOff
    <3> QED
      BY <2>2, <3>1, <1>1 DEF AllowedEnd, Preserves
  <2>3. CASE m = k /\ ok /\ op[r] = "deactivate" /\ "activate" \notin met[r]
    <3>1. pc[r] = "revoke" /\ s.record = st[k].record /\ ~s.use
      BY <2>3 DEF AllowedEnd
    <3>2. st[k].record # "active"
      BY <2>3, <3>1 DEF IInv, StaysOff
    <3> QED
      BY <2>3, <3>1, <3>2, <1>1
  <2> QED
    BY <1>3, <2>1, <2>2, <2>3
<1>11. Databases'
  <2> SUFFICES ASSUME NEW m \in Kits, clean'[m]
      PROVE  /\ \A p, q \in Requests : kit'[p] = m /\ kit'[q] = m /\ op'[p] = "delete" => q = p
             /\ \A q \in Requests : kit'[q] = m => Finds(st'[m], op'[q], pc'[q])
             /\ (\A q \in Requests : kit'[q] = m => ~Destroying(op'[q], pc'[q])) => Base(st'[m])
    BY DEF Databases, Finds, Destroying, Base
  <2>0. /\ \A p, q \in Requests : kit[p] = m /\ kit[q] = m /\ op[p] = "delete" => q = p
        /\ \A q \in Requests : kit[q] = m => Finds(st[m], op[q], pc[q])
        /\ (\A q \in Requests : kit[q] = m => ~Destroying(op[q], pc[q])) => Base(st[m])
        /\ k = m /\ Destroying(op[r], pc[r]) => ok
    BY <1>4 DEF IInv, Databases
  <2>1. \A q \in Requests : kit'[q] = m => q # r /\ kit[q] = m /\ op'[q] = op[q] /\ pc'[q] = pc[q]
    BY <1>2, NothingAssumption
  <2>2. \A p, q \in Requests : kit'[p] = m /\ kit'[q] = m /\ op'[p] = "delete" => q = p
    BY <2>0, <2>1
  <2>3. CASE m # k
    <3>1. st'[m] = st[m] /\ \A q \in Requests : kit[q] = m => q # r /\ kit'[q] = m
      BY <2>3, <1>1, <1>2
    <3> QED
      BY <2>0, <2>1, <2>2, <3>1
  <2>4. CASE m = k
    <3>1. \A q \in Requests \ {r} : kit[q] = m => op[q] # "delete" /\ op[r] # "delete"
      BY <2>0, <2>4
    <3>2. Sound(st[m], op[r], pc[r])
      <4>1. ~Destroying(op[r], pc[r]) => \A q \in Requests : kit[q] = m => ~Destroying(op[q], pc[q])
        BY <3>1 DEF Destroying
      <4> QED
        BY <2>0, <2>4, <4>1 DEF Sound
    <3>3. Base(s)
      BY <2>0, <2>4, <3>2 DEF AllowedEnd
    <3>4. ASSUME NEW q \in Requests \ {r}, kit[q] = m PROVE Finds(s, op[q], pc[q])
      BY <2>0, <2>4, <3>1, <3>4 DEF AllowedEnd, Preserves, Finds
    <3>5. st'[m] = s
      BY <1>1, <2>4
    <3> QED
      BY <2>1, <2>2, <3>3, <3>4, <3>5
  <2> QED
    BY <2>3, <2>4
<1>12. Overshoot'
  <2>1. ActiveRows' \subseteq ActiveRows
    BY <1>1 DEF ActiveRows, AllowedEnd
  <2>2. Admitted' \subseteq Admitted
    BY <1>2 DEF Admitted
  <2> QED
    BY <2>1, <2>2, OvershootStep DEF IInv
<1> QED
  BY <1>5, <1>6, <1>7, <1>8, <1>9, <1>10, <1>11, <1>12 DEF IInv

-----------------------------------------------------------------------------
(* The forms a handler's step takes.                                        *)

LEMMA Typed ==
  ASSUME IInv, NEW r \in Requests, kit[r] \in Kits
  PROVE  /\ st[kit[r]] \in Store /\ pc[r] \in Awaits /\ AwaitsAt(op[r], pc[r])
         /\ op[r] \in {"activate", "deactivate", "delete"}
         /\ [st EXCEPT ![kit[r]] = st[kit[r]]] = st
<1>1. /\ st \in [Kits -> Store] /\ pc[r] \in Awaits \cup {"idle"} /\ op[r] \in Handlers
  BY DEF IInv, TypeOK, Store
<1>2. AwaitsAt(op[r], pc[r]) /\ op[r] # "subscribe"
  BY DEF IInv, Positions
<1>3. op[r] \in {"activate", "deactivate", "delete"} /\ pc[r] # "idle"
  BY <1>1, <1>2 DEF Handlers, AwaitsAt, Reserved
<1> QED
  BY <1>1, <1>2, <1>3

\* The handler goes on, with what it read in saw and plan.
LEMMA GoKeeps ==
  ASSUME IInv, NEW r \in Requests, kit[r] \in Kits, NEW s, NEW to, Go(r, to),
         st' = [st EXCEPT ![kit[r]] = s], subs' = subs,
         saw' \in [Requests -> Status], plan' \in [Requests -> Plans \cup {NoPlan}],
         \A q \in Requests \ {r} : plan'[q] = plan[q],
         to \in {"row", "count"} => plan'[r] \in Plans,
         Allowed(r, s, to)
  PROVE  IInv'
<1>1. tries' \in [Requests -> Nat]
  BY DEF Go, IInv, TypeOK
<1>2. Works(r, s, to)
  BY <1>1 DEF Go, Works
<1> QED
  BY <1>2, WorksKeeps

LEMMA CallKeeps ==
  ASSUME IInv, NEW r \in Requests, kit[r] \in Kits, NEW a, NEW s, NEW to, Call(r, a, s, to),
         to \notin {"row", "count"}, Allowed(r, s, to)
  PROVE  IInv'
<1>1. /\ Go(r, to) /\ st' = [st EXCEPT ![kit[r]] = s] /\ subs' = subs
      /\ saw' = saw /\ plan' = plan
  BY DEF Call
<1>2. /\ saw' \in [Requests -> Status]
      /\ plan' \in [Requests -> Plans \cup {NoPlan}]
  BY <1>1 DEF IInv, TypeOK
<1> QED
  BY <1>1, <1>2, GoKeeps

\* The same inside a function that is retried as a whole.
LEMMA InnerKeeps ==
  ASSUME IInv, NEW r \in Requests, kit[r] \in Kits, NEW a, NEW s, NEW to, Inner(r, a, s, to),
         to \notin {"row", "count"}, Allowed(r, s, to)
  PROVE  IInv'
<1>1. /\ Within(r, to) /\ st' = [st EXCEPT ![kit[r]] = s] /\ subs' = subs
      /\ saw' = saw /\ plan' = plan
  BY DEF Inner
<1>2. /\ saw' \in [Requests -> Status] /\ plan' \in [Requests -> Plans \cup {NoPlan}]
      /\ tries' \in [Requests -> Nat]
  BY <1>1 DEF IInv, TypeOK, Within
<1>3. Works(r, s, to)
  BY <1>1, <1>2 DEF Works, Within
<1> QED
  BY <1>3, WorksKeeps

LEMMA TryKeeps ==
  ASSUME IInv, NEW r \in Requests, kit[r] \in Kits, NEW a, NEW s, NEW to, Try(r, a, s, to),
         to \notin {"row", "count"}, Allowed(r, s, to), Allowed(r, st[kit[r]], to)
  PROVE  IInv'
<1>1. CASE Call(r, a, s, to)
  BY <1>1, CallKeeps
<1>2. CASE Go(r, to) /\ UNCHANGED <<st, subs, saw, plan>>
  <2>1. st' = [st EXCEPT ![kit[r]] = st[kit[r]]]
    BY <1>2, Typed
  <2>2. saw' \in [Requests -> Status] /\ plan' \in [Requests -> Plans \cup {NoPlan}]
    BY <1>2 DEF IInv, TypeOK
  <2> QED
    BY <1>2, <2>1, <2>2, GoKeeps
<1> QED
  BY <1>1, <1>2 DEF Try

\* A request that ends without an effect, and without success, is always allowed to.
LEMMA GivesUp ==
  ASSUME IInv, NEW r \in Requests, kit[r] \in Kits
  PROVE  AllowedEnd(r, st[kit[r]], FALSE)
<1>1. st[kit[r]] \in Store
  BY Typed
<1>2. Preserves(op[r], st[kit[r]], st[kit[r]])
  BY DEF Preserves
<1>3. Sound(st[kit[r]], op[r], pc[r]) /\ ~Destroying(op[r], pc[r]) => Base(st[kit[r]])
  BY DEF Sound
<1> QED
  BY <1>1, <1>2, <1>3 DEF AllowedEnd

LEMMA AnswerKeeps ==
  ASSUME IInv, NEW r \in Requests, kit[r] \in Kits, NEW ok \in BOOLEAN, Finish(r, ok),
         st' = st, subs' = subs, AllowedEnd(r, st[kit[r]], ok)
  PROVE  IInv'
<1>1. Ends(r, st[kit[r]], ok)
  BY Typed DEF Ends
<1> QED
  BY <1>1, EndsKeeps

LEMMA RetryKeeps ==
  ASSUME IInv, NEW r \in Requests, kit[r] \in Kits, NEW s, NEW from, Retry(r, from),
         st' = [st EXCEPT ![kit[r]] = s], subs' = subs,
         from \notin {"row", "count"}, Allowed(r, s, from), AllowedEnd(r, s, FALSE)
  PROVE  IInv'
<1>1. CASE /\ pc' = [pc EXCEPT ![r] = from]
           /\ tries' = [tries EXCEPT ![r] = NextAttempt(r)]
           /\ UNCHANGED <<op, kit, saw, plan, met, begun, told, clean>>
  <2>1. tries' \in [Requests -> Nat]
    BY <1>1 DEF IInv, TypeOK, NextAttempt
  <2>2. saw' \in [Requests -> Status] /\ plan' \in [Requests -> Plans \cup {NoPlan}]
    BY <1>1 DEF IInv, TypeOK
  <2>3. Works(r, s, from)
    BY <1>1, <2>1, <2>2 DEF Works
  <2> QED
    BY <2>3, WorksKeeps
<1>2. CASE Finish(r, FALSE)
  <2>1. Ends(r, s, FALSE)
    BY <1>2 DEF Ends
  <2> QED
    BY <2>1, EndsKeeps
<1> QED
  BY <1>1, <1>2 DEF Retry

LEMMA AttemptKeeps ==
  ASSUME IInv, NEW r \in Requests, kit[r] \in Kits, NEW a, NEW s, NEW from,
         Attempt(r, a, s, from), from \notin {"row", "count"},
         Allowed(r, s, from), Allowed(r, st[kit[r]], from), AllowedEnd(r, s, FALSE)
  PROVE  IInv'
<1>1. Retry(r, from) /\ subs' = subs
  BY DEF Attempt
<1>2. CASE st' = st
  <2>1. st' = [st EXCEPT ![kit[r]] = st[kit[r]]]
    BY <1>2, Typed
  <2> QED
    BY <1>1, <2>1, GivesUp, RetryKeeps
<1>3. CASE st' = [st EXCEPT ![kit[r]] = s]
  BY <1>1, <1>3, RetryKeeps
<1> QED
  BY <1>2, <1>3 DEF Attempt

LEMMA LastKeeps ==
  ASSUME IInv, NEW r \in Requests, kit[r] \in Kits, NEW a, NEW s, Last(r, a, s),
         AllowedEnd(r, s, TRUE), AllowedEnd(r, s, FALSE)
  PROVE  IInv'
<1>1. subs' = subs /\ st' = [st EXCEPT ![kit[r]] = s]
  BY DEF Last
<1>2. Finish(r, TRUE) \/ Finish(r, FALSE)
  BY DEF Last
<1>3. Ends(r, s, TRUE) \/ Ends(r, s, FALSE)
  BY <1>1, <1>2 DEF Ends
<1> QED
  BY <1>3, EndsKeeps

-----------------------------------------------------------------------------
(* What the calls make of a kit's stores.                                   *)

LEMMA SetTurso ==
  ASSUME NEW s \in Store, NEW v \in BOOLEAN
  PROVE  LET t == [s EXCEPT !.turso = v]
         IN /\ t \in Store /\ (t.turso <=> v) /\ t.record = s.record /\ (t.url <=> s.url)
            /\ t.row = s.row /\ (t.use <=> s.use)
BY DEF Store

LEMMA SetRecord ==
  ASSUME NEW s \in Store, NEW v \in Status
  PROVE  LET t == WithStatus(s, v)
         IN /\ t \in Store /\ (t.turso <=> s.turso) /\ t.record = v /\ (t.url <=> s.url)
            /\ t.row = s.row /\ (t.use <=> s.use)
BY DEF Store, WithStatus

LEMMA SetRecorded ==
  ASSUME NEW s \in Store
  PROVE  LET t == Recorded(s)
         IN /\ t \in Store /\ (t.turso <=> s.turso) /\ t.record = "active" /\ t.url
            /\ t.row = s.row /\ (t.use <=> s.use)
BY DEF Store, Recorded, Status

LEMMA SetDeleted ==
  ASSUME NEW s \in Store
  PROVE  LET t == [s EXCEPT !.record = "none", !.url = FALSE]
         IN /\ t \in Store /\ (t.turso <=> s.turso) /\ t.record = "none"
            /\ t.row = s.row /\ (t.use <=> s.use)
BY DEF Store, Status

LEMMA SetRow ==
  ASSUME NEW s \in Store, NEW v \in Status
  PROVE  LET t == [s EXCEPT !.row = v]
         IN /\ t \in Store /\ (t.turso <=> s.turso) /\ t.record = s.record /\ (t.url <=> s.url)
            /\ t.row = v /\ (t.use <=> s.use)
BY DEF Store

LEMMA SetUse ==
  ASSUME NEW s \in Store, NEW v \in BOOLEAN
  PROVE  LET t == [s EXCEPT !.use = v]
         IN /\ t \in Store /\ (t.turso <=> s.turso) /\ t.record = s.record /\ (t.url <=> s.url)
            /\ t.row = s.row /\ (t.use <=> v)
BY DEF Store

-----------------------------------------------------------------------------
(* activateKit, await by await.                                             *)

LEMMA ReadSubscriptionKeeps ==
  ASSUME IInv, NEW r \in Requests, kit[r] \in Kits, ReadSubscription(r)
  PROVE  IInv'
<1>1. st[kit[r]] \in Store /\ op[r] = "activate" /\ pc[r] = "subscription"
  BY Typed DEF ReadSubscription, AwaitsAt
<1>2. CASE Answer(r, FALSE)
  BY <1>1, <1>2, GivesUp, AnswerKeeps DEF Answer
<1>3. ASSUME NEW p \in subs, plan' = [plan EXCEPT ![r] = p], Go(r, "row"),
             UNCHANGED <<st, subs, saw>>
      PROVE  IInv'
  <2>1. p \in Plans /\ plan \in [Requests -> Plans \cup {NoPlan}] /\ saw \in [Requests -> Status]
    BY DEF IInv, TypeOK
  <2>2. /\ plan' \in [Requests -> Plans \cup {NoPlan}] /\ plan'[r] \in Plans
        /\ \A q \in Requests \ {r} : plan'[q] = plan[q]
    BY <1>3, <2>1
  <2>3. Allowed(r, st[kit[r]], "row")
    BY <1>1 DEF Allowed, Preserves, Sound, Finds, Destroying, AwaitsAt, Awaits, Reserved
  <2>4. st' = [st EXCEPT ![kit[r]] = st[kit[r]]]
    BY <1>3, Typed
  <2> QED
    BY <1>1, <1>3, <2>1, <2>2, <2>3, <2>4, GoKeeps
<1> QED
  BY <1>2, <1>3 DEF ReadSubscription

LEMMA ReadExistingKeeps ==
  ASSUME IInv, NEW r \in Requests, kit[r] \in Kits, ReadExisting(r)
  PROVE  IInv'
<1>1. st[kit[r]] \in Store /\ op[r] = "activate" /\ pc[r] = "row"
  BY Typed DEF ReadExisting, AwaitsAt
<1>2. CASE Answer(r, TRUE)
  <2>1. AllowedEnd(r, st[kit[r]], TRUE)
    BY <1>1 DEF AllowedEnd, Preserves, Sound, Destroying
  <2> QED
    BY <1>1, <1>2, <2>1, AnswerKeeps DEF Answer
<1>3. CASE /\ saw' = [saw EXCEPT ![r] = st[kit[r]].row]
           /\ Go(r, "count") /\ UNCHANGED <<st, subs, plan>>
  <2>1. /\ plan[r] \in Plans /\ plan \in [Requests -> Plans \cup {NoPlan}]
        /\ saw \in [Requests -> Status] /\ st[kit[r]].row \in Status
    BY <1>1 DEF IInv, TypeOK, Positions, Store
  <2>2. saw' \in [Requests -> Status]
    BY <1>3, <2>1
  <2>3. Allowed(r, st[kit[r]], "count")
    BY <1>1 DEF Allowed, Preserves, Sound, Finds, Destroying, AwaitsAt, Awaits, Reserved
  <2>4. st' = [st EXCEPT ![kit[r]] = st[kit[r]]]
    BY <1>3, Typed
  <2> QED
    BY <1>1, <1>3, <2>1, <2>2, <2>3, <2>4, GoKeeps
<1> QED
  BY <1>2, <1>3 DEF ReadExisting

LEMMA GetActiveKitCountKeeps ==
  ASSUME IInv, NEW r \in Requests, kit[r] \in Kits, GetActiveKitCount(r)
  PROVE  IInv'
<1>1. st[kit[r]] \in Store /\ op[r] = "activate" /\ pc[r] = "count"
  BY Typed DEF GetActiveKitCount, AwaitsAt
<1>2. CASE Answer(r, FALSE)
  BY <1>1, <1>2, GivesUp, AnswerKeeps DEF Answer
<1>3. CASE ~AtLimit(plan[r]) /\ Go(r, "getKitDb") /\ UNCHANGED <<st, subs, saw, plan>>
  <2>1. plan \in [Requests -> Plans \cup {NoPlan}] /\ saw \in [Requests -> Status]
    BY DEF IInv, TypeOK
  <2>2. Allowed(r, st[kit[r]], "getKitDb")
    BY <1>1, <1>3 DEF Allowed, Preserves, Sound, Finds, Destroying, AwaitsAt, Awaits, Reserved
  <2>3. st' = [st EXCEPT ![kit[r]] = st[kit[r]]]
    BY <1>3, Typed
  <2> QED
    BY <1>1, <1>3, <2>1, <2>2, <2>3, GoKeeps
<1> QED
  BY <1>2, <1>3 DEF GetActiveKitCount

LEMMA GetKitDbKeeps ==
  ASSUME IInv, NEW r \in Requests, kit[r] \in Kits, GetKitDb(r)
  PROVE  IInv'
<1> DEFINE s == st[kit[r]]
<1>1. s \in Store /\ op[r] = "activate" /\ pc[r] = "getKitDb"
  BY Typed DEF GetKitDb, Call, Attempt, AwaitsAt
<1> USE DEF Allowed, Preserves, Sound, Finds, Destroying, AwaitsAt, Awaits, Reserved
<1>2. CASE s.record = "none" /\ Call(r, "getKitDb", s, "create")
  <2>1. Allowed(r, s, "create")
    BY <1>1
  <2> QED
    BY <1>2, <2>1, CallKeeps
<1>3. CASE s.record = "deactivated" /\ Call(r, "getKitDb", s, "reactivate")
  <2>1. Allowed(r, s, "reactivate")
    BY <1>1, <1>3
  <2> QED
    BY <1>3, <2>1, CallKeeps
<1>4. CASE s.record = "active" /\ Call(r, "getKitDb", s, "writeRow")
  <2>1. Allowed(r, s, "writeRow")
    BY <1>1, <1>4
  <2> QED
    BY <1>4, <2>1, CallKeeps
<1>5. CASE Attempt(r, "getKitDb", s, "getKitDb")
  <2>1. Allowed(r, s, "getKitDb")
    BY <1>1
  <2> QED
    BY <1>5, <2>1, GivesUp, AttemptKeeps
<1> QED
  BY <1>2, <1>3, <1>4, <1>5 DEF GetKitDb

LEMMA ReactivateKeeps ==
  ASSUME IInv, NEW r \in Requests, kit[r] \in Kits, Reactivate(r)
  PROVE  IInv'
<1> DEFINE s == st[kit[r]]
           t == WithStatus(st[kit[r]], "active")
<1>1. s \in Store /\ op[r] = "activate" /\ pc[r] = "reactivate"
  BY Typed DEF Reactivate, Call, Attempt, AwaitsAt
<1>2. /\ t \in Store /\ (t.turso <=> s.turso) /\ t.record = "active" /\ (t.url <=> s.url)
      /\ t.row = s.row /\ (t.use <=> s.use)
  BY <1>1, SetRecord DEF Status
<1>3. Call(r, "reactivate", t, "writeRow") \/ Attempt(r, "reactivate", t, "reactivate")
  BY DEF Reactivate
<1> HIDE DEF t
<1>4. /\ Allowed(r, t, "writeRow") /\ Allowed(r, t, "reactivate") /\ Allowed(r, s, "reactivate")
      /\ AllowedEnd(r, t, FALSE)
  BY <1>1, <1>2 DEF Allowed, AllowedEnd, Preserves, Sound, Base, Finds, Destroying, AwaitsAt,
     Awaits, Reserved
<1> QED
  BY <1>3, <1>4, CallKeeps, AttemptKeeps

LEMMA CreateDatabaseKeeps ==
  ASSUME IInv, NEW r \in Requests, kit[r] \in Kits, CreateDatabase(r)
  PROVE  IInv'
<1> DEFINE s == st[kit[r]]
           t == [st[kit[r]] EXCEPT !.turso = TRUE]
<1>1. s \in Store /\ op[r] = "activate" /\ pc[r] = "create"
  BY Typed DEF CreateDatabase, Inner, Attempt, AwaitsAt
<1>2. /\ t \in Store /\ t.turso /\ t.record = s.record /\ (t.url <=> s.url)
      /\ t.row = s.row /\ (t.use <=> s.use)
  BY <1>1, SetTurso
<1>3. Inner(r, "create", t, "migrate") \/ Attempt(r, "create", t, "create")
  BY DEF CreateDatabase
<1> HIDE DEF t
<1>4. /\ Allowed(r, t, "migrate") /\ Allowed(r, t, "create") /\ Allowed(r, s, "create")
      /\ AllowedEnd(r, t, FALSE)
  BY <1>1, <1>2 DEF Allowed, AllowedEnd, Preserves, Sound, Base, Finds, Destroying, AwaitsAt,
     Awaits, Reserved
<1> QED
  BY <1>3, <1>4, InnerKeeps, AttemptKeeps

LEMMA MigrateKeeps ==
  ASSUME IInv, NEW r \in Requests, kit[r] \in Kits, Migrate(r)
  PROVE  IInv'
<1> DEFINE s == st[kit[r]]
<1>1. s \in Store /\ op[r] = "activate" /\ pc[r] = "migrate"
  BY Typed DEF Migrate, Inner, Attempt, AwaitsAt
<1>2. Allowed(r, s, "create") /\ (s.turso => Allowed(r, s, "put"))
  BY <1>1 DEF Allowed, Preserves, Sound, Finds, Destroying, AwaitsAt, Awaits, Reserved
<1>3. CASE s.turso /\ Inner(r, "migrate", s, "put")
  <2>1. Allowed(r, s, "put")
    BY <1>2, <1>3
  <2> QED
    BY <1>3, <2>1, InnerKeeps
<1>4. CASE Retry(r, "create") /\ UNCHANGED <<st, subs>>
  <2>1. st' = [st EXCEPT ![kit[r]] = s]
    BY <1>4, Typed
  <2> QED
    BY <1>1, <1>2, <1>4, <2>1, GivesUp, RetryKeeps
<1>5. CASE Attempt(r, "migrate", s, "create")
  <2>1. Allowed(r, s, "create")
    BY <1>2
  <2>2. AllowedEnd(r, s, FALSE)
    BY GivesUp
  <2>3. "create" \notin {"row", "count"}
    OBVIOUS
  <2> QED
    BY <1>5, <2>1, <2>2, <2>3, AttemptKeeps, Zenon
<1> QED
  BY <1>3, <1>4, <1>5 DEF Migrate

LEMMA PutUserKitDbKeeps ==
  ASSUME IInv, NEW r \in Requests, kit[r] \in Kits, PutUserKitDb(r)
  PROVE  IInv'
<1> DEFINE s == st[kit[r]]
           t == Recorded(st[kit[r]])
<1>1. s \in Store /\ op[r] = "activate" /\ pc[r] = "put"
  BY Typed DEF PutUserKitDb, Call, Attempt, AwaitsAt
<1>2. /\ t \in Store /\ (t.turso <=> s.turso) /\ t.record = "active" /\ t.url
      /\ t.row = s.row /\ (t.use <=> s.use)
  BY <1>1, SetRecorded
<1>3. Call(r, "put", t, "writeRow") \/ Attempt(r, "put", t, "create")
  BY DEF PutUserKitDb
<1> HIDE DEF t
<1>4. /\ Allowed(r, t, "writeRow") /\ Allowed(r, t, "create") /\ Allowed(r, s, "create")
      /\ AllowedEnd(r, t, FALSE)
  BY <1>1, <1>2 DEF Allowed, AllowedEnd, Preserves, Sound, Base, Finds, Destroying, AwaitsAt,
     Awaits, Reserved
<1> QED
  BY <1>3, <1>4, CallKeeps, AttemptKeeps

LEMMA WriteRowKeeps ==
  ASSUME IInv, NEW r \in Requests, kit[r] \in Kits, WriteRow(r)
  PROVE  IInv'
<1> DEFINE s == st[kit[r]]
           t == RowWritten(st[kit[r]], saw[r])
<1>1. s \in Store /\ op[r] = "activate" /\ pc[r] = "writeRow"
  BY Typed DEF WriteRow, Try, Call, AwaitsAt
<1>2. \E v \in Status : t = [s EXCEPT !.row = v]
  BY <1>1 DEF RowWritten, Store, Status
<1>3. /\ t \in Store /\ (t.turso <=> s.turso) /\ t.record = s.record /\ (t.url <=> s.url)
      /\ (t.use <=> s.use)
  BY <1>1, <1>2, SetRow
<1>4. Try(r, "writeRow", t, "grant")
  BY DEF WriteRow
<1> HIDE DEF t
<1>5. Allowed(r, t, "grant") /\ Allowed(r, s, "grant")
  BY <1>1, <1>3 DEF Allowed, Preserves, Sound, Base, Finds, Destroying, AwaitsAt, Awaits, Reserved
<1> QED
  BY <1>4, <1>5, TryKeeps

LEMMA GrantKeeps ==
  ASSUME IInv, NEW r \in Requests, kit[r] \in Kits, Grant(r)
  PROVE  IInv'
<1> DEFINE s == st[kit[r]]
           t == [st[kit[r]] EXCEPT !.use = TRUE]
<1>1. s \in Store /\ op[r] = "activate" /\ pc[r] = "grant"
  BY Typed DEF Grant, Last, AwaitsAt
<1>2. /\ t \in Store /\ (t.turso <=> s.turso) /\ t.record = s.record /\ (t.url <=> s.url)
      /\ t.row = s.row /\ t.use
  BY <1>1, SetUse
<1>3. Last(r, "grant", t)
  BY DEF Grant
<1> HIDE DEF t
<1>4. AllowedEnd(r, t, TRUE) /\ AllowedEnd(r, t, FALSE)
  BY <1>1, <1>2 DEF AllowedEnd, Preserves, Sound, Base, Finds, Destroying
<1> QED
  BY <1>3, <1>4, LastKeeps

-----------------------------------------------------------------------------
(* deactivateKit and deleteKit, await by await.                             *)

LEMMA AuthorizeKeeps ==
  ASSUME IInv, NEW r \in Requests, kit[r] \in Kits, Authorize(r)
  PROVE  IInv'
<1> DEFINE s == st[kit[r]]
<1>1. s \in Store /\ op[r] \in {"deactivate", "delete"} /\ pc[r] = "authorize"
  BY Typed DEF Authorize, Call, AwaitsAt, Reserved
<1> USE DEF Allowed, Preserves, Sound, Base, Finds, Destroying, AwaitsAt, Awaits, Reserved
<1>2. CASE s.use /\ op[r] = "deactivate" /\ Call(r, "authorize", s, "setStatus")
  <2>1. Allowed(r, s, "setStatus")
    BY <1>1, <1>2
  <2> QED
    BY <1>2, <2>1, CallKeeps
<1>3. CASE op[r] = "delete" /\ Call(r, "authorize", s, "readRow")
  <2>1. Allowed(r, s, "readRow")
    BY <1>1, <1>3
  <2> QED
    BY <1>3, <2>1, CallKeeps
<1>4. CASE Answer(r, FALSE)
  BY <1>1, <1>4, GivesUp, AnswerKeeps DEF Answer
<1> QED
  BY <1>2, <1>3, <1>4 DEF Authorize

LEMMA SetDeactivatedKeeps ==
  ASSUME IInv, NEW r \in Requests, kit[r] \in Kits, SetDeactivated(r)
  PROVE  IInv'
<1> DEFINE s == st[kit[r]]
           t == WithStatus(st[kit[r]], "deactivated")
<1>1. s \in Store /\ op[r] = "deactivate" /\ pc[r] = "setStatus"
  BY Typed DEF SetDeactivated, Call, Attempt, AwaitsAt, Reserved
<1>2. /\ t \in Store /\ (t.turso <=> s.turso) /\ t.record = "deactivated" /\ (t.url <=> s.url)
      /\ t.row = s.row /\ (t.use <=> s.use)
  BY <1>1, SetRecord DEF Status
<1>3. Call(r, "setStatus", t, "clearRow") \/ Attempt(r, "setStatus", t, "setStatus")
  BY DEF SetDeactivated
<1> HIDE DEF t
<1>4. /\ Allowed(r, t, "clearRow") /\ Allowed(r, t, "setStatus") /\ Allowed(r, s, "setStatus")
      /\ AllowedEnd(r, t, FALSE)
  BY <1>1, <1>2 DEF Allowed, AllowedEnd, Preserves, Sound, Base, Finds, Destroying, AwaitsAt,
     Awaits, Reserved
<1> QED
  BY <1>3, <1>4, CallKeeps, AttemptKeeps

LEMMA ClearRowKeeps ==
  ASSUME IInv, NEW r \in Requests, kit[r] \in Kits, ClearRow(r)
  PROVE  IInv'
<1> DEFINE s == st[kit[r]]
           t == Cleared(st[kit[r]])
<1>1. s \in Store /\ op[r] = "deactivate" /\ pc[r] = "clearRow"
  BY Typed DEF ClearRow, Try, Call, AwaitsAt, Reserved
<1>2. \E v \in Status \ {"active"} : t = [s EXCEPT !.row = v]
  BY <1>1 DEF Cleared, Store, Status
<1>3. /\ t \in Store /\ (t.turso <=> s.turso) /\ t.record = s.record /\ (t.url <=> s.url)
      /\ t.row # "active" /\ (t.use <=> s.use)
  BY <1>1, <1>2, SetRow
<1>4. Try(r, "clearRow", t, "revoke")
  BY DEF ClearRow
<1> HIDE DEF t
<1>5. Allowed(r, t, "revoke") /\ Allowed(r, s, "revoke")
  BY <1>1, <1>3 DEF Allowed, Preserves, Sound, Base, Finds, Destroying, AwaitsAt, Awaits, Reserved
<1> QED
  BY <1>4, <1>5, TryKeeps

LEMMA RevokeKeeps ==
  ASSUME IInv, NEW r \in Requests, kit[r] \in Kits, Revoke(r)
  PROVE  IInv'
<1> DEFINE s == st[kit[r]]
           t == Revoked(st[kit[r]])
<1>1. s \in Store /\ op[r] \in {"deactivate", "delete"} /\ pc[r] = "revoke"
  BY Typed DEF Revoke, Last, AwaitsAt, Reserved
<1>2. /\ t \in Store /\ (t.turso <=> s.turso) /\ t.record = s.record /\ (t.url <=> s.url)
      /\ t.row = s.row /\ ~t.use
  BY <1>1, SetUse DEF Revoked
<1>3. Last(r, "revoke", t)
  BY DEF Revoke
<1> HIDE DEF t
<1>4. AllowedEnd(r, t, TRUE) /\ AllowedEnd(r, t, FALSE)
  BY <1>1, <1>2 DEF AllowedEnd, Preserves, Sound, Base, Finds, Destroying
<1> QED
  BY <1>3, <1>4, LastKeeps

LEMMA ReadRowKeeps ==
  ASSUME IInv, NEW r \in Requests, kit[r] \in Kits, ReadRow(r)
  PROVE  IInv'
<1> DEFINE s == st[kit[r]]
<1>1. s \in Store /\ op[r] = "delete" /\ pc[r] = "readRow"
  BY Typed DEF ReadRow, Call, AwaitsAt, Reserved
<1>2. CASE Call(r, "readRow", s, "destroy")
  <2>1. Allowed(r, s, "destroy")
    BY <1>1 DEF Allowed, Preserves, Sound, Finds, Destroying, AwaitsAt, Awaits, Reserved
  <2> QED
    BY <1>2, <2>1, CallKeeps
<1>3. CASE Answer(r, FALSE)
  BY <1>1, <1>3, GivesUp, AnswerKeeps DEF Answer
<1> QED
  BY <1>2, <1>3 DEF ReadRow

LEMMA DestroyDatabaseKeeps ==
  ASSUME IInv, NEW r \in Requests, kit[r] \in Kits, DestroyDatabase(r)
  PROVE  IInv'
<1> DEFINE s == st[kit[r]]
           t == [st[kit[r]] EXCEPT !.turso = FALSE]
<1>1. s \in Store /\ op[r] = "delete" /\ pc[r] = "destroy"
  BY Typed DEF DestroyDatabase, Call, Attempt, AwaitsAt, Reserved
<1>2. /\ t \in Store /\ ~t.turso /\ t.record = s.record /\ (t.url <=> s.url)
      /\ t.row = s.row /\ (t.use <=> s.use)
  BY <1>1, SetTurso
<1>3. \/ Call(r, "destroy", t, "deleteRecord")
      \/ Retry(r, "destroy") /\ UNCHANGED <<st, subs>>
      \/ Attempt(r, "destroy", t, "destroy")
  BY DEF DestroyDatabase
<1> HIDE DEF t
<1>4. /\ Allowed(r, t, "deleteRecord") /\ Allowed(r, t, "destroy") /\ Allowed(r, s, "destroy")
      /\ AllowedEnd(r, t, FALSE)
  BY <1>1, <1>2 DEF Allowed, AllowedEnd, Preserves, Sound, Base, Finds, Destroying, AwaitsAt,
     Awaits, Reserved
<1>5. CASE Retry(r, "destroy") /\ UNCHANGED <<st, subs>>
  <2>1. st' = [st EXCEPT ![kit[r]] = s]
    BY <1>5, Typed
  <2> QED
    BY <1>1, <1>4, <1>5, <2>1, GivesUp, RetryKeeps
<1> QED
  BY <1>3, <1>4, <1>5, CallKeeps, AttemptKeeps

LEMMA DeleteRecordKeeps ==
  ASSUME IInv, NEW r \in Requests, kit[r] \in Kits, DeleteRecord(r)
  PROVE  IInv'
<1> DEFINE s == st[kit[r]]
           t == [st[kit[r]] EXCEPT !.record = "none", !.url = FALSE]
<1>1. s \in Store /\ op[r] = "delete" /\ pc[r] = "deleteRecord"
  BY Typed DEF DeleteRecord, Call, Attempt, AwaitsAt, Reserved
<1>2. /\ t \in Store /\ (t.turso <=> s.turso) /\ t.record = "none"
      /\ t.row = s.row /\ (t.use <=> s.use)
  BY <1>1, SetDeleted
<1>3. Call(r, "deleteRecord", t, "deleteRow") \/ Attempt(r, "deleteRecord", t, "deleteRecord")
  BY DEF DeleteRecord
<1> HIDE DEF t
<1>4. /\ Allowed(r, t, "deleteRow") /\ Allowed(r, t, "deleteRecord")
      /\ Allowed(r, s, "deleteRecord") /\ AllowedEnd(r, t, FALSE)
  BY <1>1, <1>2 DEF Allowed, AllowedEnd, Preserves, Sound, Base, Finds, Destroying, AwaitsAt,
     Awaits, Reserved
<1> QED
  BY <1>3, <1>4, CallKeeps, AttemptKeeps

LEMMA DeleteRowKeeps ==
  ASSUME IInv, NEW r \in Requests, kit[r] \in Kits, DeleteRow(r)
  PROVE  IInv'
<1> DEFINE s == st[kit[r]]
           t == [st[kit[r]] EXCEPT !.row = "none"]
<1>1. s \in Store /\ op[r] = "delete" /\ pc[r] = "deleteRow"
  BY Typed DEF DeleteRow, Try, Call, AwaitsAt, Reserved
<1>2. /\ t \in Store /\ (t.turso <=> s.turso) /\ t.record = s.record /\ (t.url <=> s.url)
      /\ t.row = "none" /\ (t.use <=> s.use)
  BY <1>1, SetRow DEF Status
<1>3. Try(r, "deleteRow", t, "revoke")
  BY DEF DeleteRow
<1> HIDE DEF t
<1>4. Allowed(r, t, "revoke") /\ Allowed(r, s, "revoke")
  BY <1>1, <1>2 DEF Allowed, Preserves, Sound, Base, Finds, Destroying, AwaitsAt, Awaits, Reserved
<1> QED
  BY <1>3, <1>4, TryKeeps

-----------------------------------------------------------------------------
(* Requests begin, and those of the subscription.                           *)

\* A handler starts on kit k; if it or one in flight is a deletion, the kit is tainted.
LEMMA BeginKeeps ==
  ASSUME IInv, NEW r \in Requests, NEW k \in Kits, NEW h \in {"activate", "deactivate", "delete"},
         NEW at, at = (IF h = "activate" THEN "subscription" ELSE "authorize"), Begin(r, h, k, at)
  PROVE  IInv'
<1>1. /\ pc[r] = "idle" /\ op[r] = "subscribe" /\ kit[r] \notin Kits
  BY DEF Begin, Busy, IInv, Positions, AwaitsAt, Reserved
<1>2. /\ begun' = begun + 1 /\ op' = [op EXCEPT ![r] = h] /\ kit' = [kit EXCEPT ![r] = k]
      /\ pc' = [pc EXCEPT ![r] = at] /\ st' = st /\ subs' = subs /\ saw' = saw
      /\ plan' = plan /\ tries' = tries
      /\ told' = [told EXCEPT ![k] = IF h = "activate" THEN "nothing" ELSE @]
      /\ met' = [q \in Requests |->
                   IF q = r THEN {op[d] : d \in On(k)}
                   ELSE IF q \in On(k) THEN met[q] \cup {h} ELSE met[q]]
      /\ clean' = [clean EXCEPT ![k] =
                     @ /\ ~(\E d \in On(k) : op[d] = "delete" \/ h = "delete")]
  BY DEF Begin
<1>3. /\ pc'[r] = at /\ op'[r] = h /\ kit'[r] = k
      /\ \A q \in Requests \ {r} : pc'[q] = pc[q] /\ op'[q] = op[q] /\ kit'[q] = kit[q]
  BY <1>2 DEF IInv, TypeOK
<1>4. /\ told' \in [Kits -> {"nothing", "off"}]
      /\ \A m \in Kits : told'[m] = "off" => told[m] = "off" /\ (m = k => h # "activate")
  BY <1>2 DEF IInv, TypeOK
<1>5. clean' \in [Kits -> BOOLEAN]
  <2>1. clean \in [Kits -> BOOLEAN]
    BY DEF IInv, TypeOK
  <2> QED
    BY <1>2, <2>1, Zenon
<1>6. /\ \A m \in Kits \ {k} : clean'[m] = clean[m]
      /\ clean'[k] => clean[k] /\ ~(\E d \in On(k) : op[d] = "delete" \/ h = "delete")
  <2>1. clean \in [Kits -> BOOLEAN]
    BY DEF IInv, TypeOK
  <2> QED
    BY <1>2, <2>1
<1>7. /\ met' \in [Requests -> SUBSET Handlers]
      /\ \A q \in Requests \ {r} : met[q] \subseteq met'[q]
      /\ \A q \in Requests \ {r} : kit[q] = k => h \in met'[q] /\ op[q] \in met'[r]
  BY <1>2 DEF IInv, TypeOK, On, Handlers
<1>8. TypeOK'
  <2>1. /\ pc' \in [Requests -> Awaits \cup {"idle"}] /\ op' \in [Requests -> Handlers]
        /\ kit' \in [Requests -> Kits \cup {NoKit}] /\ begun' \in Nat
    BY <1>2 DEF IInv, TypeOK, Awaits, Handlers
  <2> QED
    BY <1>2, <1>4, <1>5, <1>7, <2>1 DEF IInv, TypeOK
<1>9. Positions'
  BY <1>2, <1>3 DEF IInv, Positions, AwaitsAt
<1>10. Meets'
  BY <1>3, <1>7 DEF IInv, Meets
<1>11. NoActivation'
  <2> SUFFICES ASSUME NEW q \in Requests, op'[q] = "activate", told'[kit'[q]] = "off" PROVE FALSE
    BY DEF NoActivation
  <2>1. CASE q = r
    BY <2>1, <1>3, <1>4
  <2>2. CASE q # r
    BY <2>2, <1>3, <1>4 DEF IInv, NoActivation, Positions
  <2> QED
    BY <2>1, <2>2
<1>12. StaysOff'
  <2> SUFFICES ASSUME NEW q \in Requests, op'[q] = "deactivate",
                      pc'[q] \in {"clearRow", "revoke"}, "activate" \notin met'[q]
               PROVE  st[kit'[q]].record # "active"
    BY <1>2 DEF StaysOff
  <2>1. q # r /\ "activate" \notin met[q]
    BY <1>3, <1>7
  <2> QED
    BY <2>1, <1>3 DEF IInv, StaysOff
<1>13. OffMeansOff'
  BY <1>2, <1>4 DEF IInv, OffMeansOff
<1>14. Databases'
  <2> SUFFICES ASSUME NEW m \in Kits, clean'[m]
      PROVE  /\ \A p, q \in Requests : kit'[p] = m /\ kit'[q] = m /\ op'[p] = "delete" => q = p
             /\ \A q \in Requests : kit'[q] = m => Finds(st[m], op'[q], pc'[q])
             /\ (\A q \in Requests : kit'[q] = m => ~Destroying(op'[q], pc'[q])) => Base(st[m])
    BY <1>2 DEF Databases, Finds, Destroying, Base
  <2>1. clean[m]
    BY <1>6
  <2>2. /\ \A p, q \in Requests : kit[p] = m /\ kit[q] = m /\ op[p] = "delete" => q = p
        /\ \A q \in Requests : kit[q] = m => Finds(st[m], op[q], pc[q])
        /\ (\A q \in Requests : kit[q] = m => ~Destroying(op[q], pc[q])) => Base(st[m])
    BY <2>1 DEF IInv, Databases
  <2>3. \A q \in Requests \ {r} : kit[q] = m /\ m = k => op[q] # "delete" /\ h # "delete"
    BY <1>6 DEF On
  <2>4. Finds(st[m], h, at) /\ ~Destroying(h, at)
    BY DEF Finds, Destroying
  <2>5. \A p, q \in Requests : kit'[p] = m /\ kit'[q] = m /\ op'[p] = "delete" => q = p
    BY <1>1, <1>3, <2>2, <2>3
  <2>6. \A q \in Requests : kit'[q] = m => Finds(st[m], op'[q], pc'[q])
    BY <1>3, <2>2, <2>4
  <2>7. (\A q \in Requests : kit'[q] = m => ~Destroying(op'[q], pc'[q])) => Base(st[m])
    BY <1>1, <1>3, <2>2
  <2> QED
    BY <2>5, <2>6, <2>7
<1>15. Overshoot'
  <2>1. ActiveRows' \subseteq ActiveRows /\ Admitted' \subseteq Admitted
    BY <1>2, <1>3 DEF ActiveRows, Admitted
  <2> QED
    BY <2>1, OvershootStep DEF IInv
<1> QED
  BY <1>8, <1>9, <1>10, <1>11, <1>12, <1>13, <1>14, <1>15 DEF IInv

\* Steps of a request that has no kit: the kits do not notice.
LEMMA NoKitKeeps ==
  ASSUME IInv, NEW r \in Requests, kit[r] \notin Kits,
         st' = st, subs' \subseteq Plans, TypeOK', kit' = kit,
         \A q \in Requests : op'[q] = op[q],
         \A q \in Requests : met'[q] = met[q] \/ q = r,
         \A q \in Requests \ {r} : pc'[q] = pc[q] /\ plan'[q] = plan[q],
         pc'[r] \in {"idle", "lookup", "insert"}, pc'[r] # "idle" => plan'[r] \in Plans,
         \A k \in Kits : told'[k] = told[k],
         \A k \in Kits : clean'[k] => clean[k]
  PROVE  IInv'
<1>1. op[r] = "subscribe"
  BY DEF IInv, Positions
<1>2. Positions'
  BY <1>1 DEF IInv, Positions, AwaitsAt
<1>3. Meets' /\ NoActivation' /\ StaysOff' /\ OffMeansOff'
  <2>1. Meets'
    BY DEF IInv, Meets
  <2>2. NoActivation'
    BY DEF IInv, NoActivation, Positions
  <2>3. StaysOff'
    BY <1>1 DEF IInv, StaysOff
  <2>4. OffMeansOff'
    BY DEF IInv, OffMeansOff
  <2> QED
    BY <2>1, <2>2, <2>3, <2>4
<1>4. Databases'
  <2> SUFFICES ASSUME NEW m \in Kits, clean'[m]
      PROVE  /\ \A p, q \in Requests : kit[p] = m /\ kit[q] = m /\ op'[p] = "delete" => q = p
             /\ \A q \in Requests : kit[q] = m => Finds(st[m], op'[q], pc'[q])
             /\ (\A q \in Requests : kit[q] = m => ~Destroying(op'[q], pc'[q])) => Base(st[m])
    BY DEF Databases, Finds, Destroying, Base
  <2>1. /\ \A p, q \in Requests : kit[p] = m /\ kit[q] = m /\ op[p] = "delete" => q = p
        /\ \A q \in Requests : kit[q] = m => Finds(st[m], op[q], pc[q])
        /\ (\A q \in Requests : kit[q] = m => ~Destroying(op[q], pc[q])) => Base(st[m])
    BY DEF IInv, Databases
  <2>2. \A q \in Requests : kit[q] = m => q # r /\ pc'[q] = pc[q]
    OBVIOUS
  <2> QED
    BY <2>1, <2>2
<1>5. Overshoot'
  <2>1. ActiveRows' \subseteq ActiveRows /\ Admitted' \subseteq Admitted
    BY DEF ActiveRows, Admitted
  <2> QED
    BY <2>1, OvershootStep DEF IInv
<1> QED
  BY <1>2, <1>3, <1>4, <1>5 DEF IInv

LEMMA FinishNoKitKeeps ==
  ASSUME IInv, NEW r \in Requests, kit[r] \notin Kits, NEW ok \in BOOLEAN, Finish(r, ok),
         st' = st, subs' \subseteq Plans
  PROVE  IInv'
<1>1. TypeOK /\ kit[r] = NoKit /\ op[r] = "subscribe"
  BY DEF IInv, TypeOK, Positions
<1>2. /\ pc'[r] = "idle" /\ op'[r] = "subscribe" /\ kit'[r] = NoKit
      /\ \A q \in Requests \ {r} : /\ pc'[q] = pc[q] /\ op'[q] = op[q] /\ kit'[q] = kit[q]
                                   /\ met'[q] = met[q] /\ plan'[q] = plan[q]
      /\ kit' \in [Requests -> Kits \cup {NoKit}]
  BY <1>1, FinishFacts
<1>3. \A k \in Kits : clean'[k] => clean[k]
  BY <1>1, FinishFacts
<1>4. TypeOK'
  <2>1. st' \in [Kits -> Store] /\ subs' \subseteq Plans
    BY <1>1 DEF TypeOK, Store
  <2> QED
    BY <1>1, <2>1, FinishFacts DEF TypeOK, Store
<1>5. kit' = kit
  BY <1>1, <1>2 DEF TypeOK
<1>6. \A k \in Kits : told'[k] = told[k]
  BY DEF Finish
<1> QED
  BY <1>1, <1>2, <1>3, <1>4, <1>5, <1>6, NoKitKeeps

LEMMA SubscriptionKeeps ==
  ASSUME IInv, NEW r \in Requests, LookUp(r) \/ Insert(r) \/ \E p \in Plans : Subscribe(r, p)
  PROVE  IInv'
<1>0. TypeOK /\ subs \subseteq Plans
  BY DEF IInv, TypeOK
<1>1. pc[r] \in {"idle", "lookup", "insert"} /\ kit[r] \notin Kits
  BY DEF LookUp, Insert, Subscribe, Busy, IInv, Positions, AwaitsAt, Reserved
<1>2. CASE LookUp(r)
  <2>1. CASE Answer(r, TRUE)
    BY <1>0, <1>1, <2>1, FinishNoKitKeeps DEF Answer
  <2>2. CASE Go(r, "insert") /\ UNCHANGED <<st, subs, saw, plan>>
    <3>0. pc[r] = "lookup"
      BY <1>2 DEF LookUp
    <3>1. TypeOK'
      BY <1>0, <2>2 DEF TypeOK, Go, Awaits
    <3>2. /\ pc'[r] = "insert" /\ \A q \in Requests \ {r} : pc'[q] = pc[q]
          /\ op' = op /\ kit' = kit /\ met' = met /\ told' = told /\ clean' = clean
          /\ plan' = plan /\ st' = st /\ subs' = subs
      BY <1>0, <2>2 DEF TypeOK, Go
    <3>3. plan[r] \in Plans
      BY <3>0 DEF IInv, Positions
    <3> QED
      BY <1>0, <1>1, <3>1, <3>2, <3>3, NoKitKeeps
  <2> QED
    BY <1>2, <2>1, <2>2 DEF LookUp
<1>3. CASE Insert(r)
  <2>1. subs' \subseteq Plans /\ Finish(r, TRUE) /\ st' = st
    BY <1>0, <1>3 DEF Insert, IInv, Positions
  <2> QED
    BY <1>0, <1>1, <2>1, FinishNoKitKeeps
<1>4. ASSUME NEW p \in Plans, Subscribe(r, p) PROVE IInv'
  <2>1. TypeOK'
    BY <1>0, <1>4 DEF Subscribe, TypeOK, Awaits
  <2>2. /\ pc'[r] = "lookup" /\ plan'[r] = p
        /\ \A q \in Requests \ {r} : pc'[q] = pc[q] /\ plan'[q] = plan[q]
        /\ op' = op /\ kit' = kit /\ met' = met /\ told' = told /\ clean' = clean
        /\ st' = st /\ subs' = subs
    BY <1>0, <1>4 DEF TypeOK, Subscribe
  <2> QED
    BY <1>0, <1>1, <2>1, <2>2, NoKitKeeps
<1> QED
  BY <1>2, <1>3, <1>4

LEMMA AbortKeeps ==
  ASSUME IInv, NEW r \in Requests, Abort(r)
  PROVE  IInv'
<1>1. Finish(r, FALSE) /\ st' = st /\ subs' = subs /\ subs \subseteq Plans
  BY DEF Abort, IInv, TypeOK
<1>2. CASE kit[r] \in Kits
  BY <1>1, <1>2, GivesUp, AnswerKeeps
<1>3. CASE kit[r] \notin Kits
  BY <1>1, <1>3, FinishNoKitKeeps
<1> QED
  BY <1>2, <1>3

\* Nothing of the kits and of the requests changes.
LEMMA StutterKeeps ==
  ASSUME IInv, UNCHANGED <<st, reqVars, told, clean>>, subs' \subseteq Plans
  PROVE  IInv'
<1>1. /\ st' = st /\ op' = op /\ kit' = kit /\ pc' = pc /\ saw' = saw /\ plan' = plan
      /\ tries' = tries /\ met' = met /\ begun' = begun
      /\ told' = told /\ clean' = clean
  BY DEF reqVars
<1>2. TypeOK'
  BY <1>1 DEF IInv, TypeOK
<1>3. Positions' /\ Meets' /\ NoActivation' /\ StaysOff' /\ OffMeansOff'
  BY <1>1 DEF IInv, Positions, Meets, NoActivation, StaysOff, OffMeansOff
<1>4. Databases'
  BY <1>1 DEF IInv, Databases
<1>5. Overshoot'
  <2>1. ActiveRows' = ActiveRows /\ Admitted' = Admitted
    BY <1>1 DEF ActiveRows, Admitted
  <2> QED
    BY <2>1, OvershootStep DEF IInv
<1> QED
  BY <1>2, <1>3, <1>4, <1>5 DEF IInv

LEMMA InitHolds == Init => IInv
<1> SUFFICES ASSUME Init PROVE IInv
  OBVIOUS
<1>1. TypeOK
  <2>1. Absent \in Store
    BY DEF Absent, Store, Status
  <2>2. st \in [Kits -> Store] /\ clean \in [Kits -> BOOLEAN]
    BY <2>1, Zenon DEF Init
  <2> QED
    BY <2>2 DEF Init, TypeOK, Store, Handlers, Status
<1>2. Positions
  BY NothingAssumption DEF Init, Positions, AwaitsAt
<1>3. Meets /\ NoActivation /\ StaysOff /\ OffMeansOff
  BY NothingAssumption DEF Init, Meets, NoActivation, StaysOff, OffMeansOff
<1>4. Databases
  <2>1. ASSUME NEW k \in Kits PROVE Base(st[k]) /\ \A r \in Requests : kit[r] # k
    BY NothingAssumption DEF Init, Base, Absent
  <2> QED
    BY <2>1 DEF Databases
<1>5. Overshoot
  <2>1. ActiveRows = {} /\ Admitted = {}
    BY DEF Init, ActiveRows, Absent, Admitted
  <2>2. Cardinality(ActiveRows) = 0 /\ Cardinality(Admitted) = 0
    BY <2>1, FS_EmptySet
  <2>3. Cardinality(Requests) \in Nat /\ Cardinality(Requests) # 0
    BY KitsAssumption, FS_EmptySet, FS_CardinalityType
  <2>4. \A p \in Plans : PLAN_LIMITS[p] \in Nat
    BY LimitAssumption
  <2> QED
    BY <2>2, <2>3, <2>4 DEF Overshoot
<1> QED
  BY <1>1, <1>2, <1>3, <1>4, <1>5 DEF IInv

\* What every handler finds at every await, whatever else is in flight on its kit.
THEOREM Inductive == Spec => []IInv
<1>1. IInv /\ [Next]_vars => IInv'
  <2> SUFFICES ASSUME IInv, [Next]_vars PROVE IInv'
    OBVIOUS
  <2>1. ASSUME NEW r \in Requests, KitStep(r) PROVE IInv'
    <3>1. kit[r] \in Kits
      BY <2>1 DEF KitStep
    <3>2. CASE \/ ReadSubscription(r) \/ ReadExisting(r) \/ GetActiveKitCount(r) \/ GetKitDb(r)
               \/ Reactivate(r) \/ CreateDatabase(r) \/ Migrate(r) \/ PutUserKitDb(r)
               \/ WriteRow(r) \/ Grant(r)
      BY <3>1, <3>2, ReadSubscriptionKeeps, ReadExistingKeeps, GetActiveKitCountKeeps,
         GetKitDbKeeps, ReactivateKeeps, CreateDatabaseKeeps, MigrateKeeps, PutUserKitDbKeeps,
         WriteRowKeeps, GrantKeeps
    <3>3. CASE \/ Authorize(r) \/ SetDeactivated(r) \/ ClearRow(r) \/ Revoke(r)
               \/ ReadRow(r) \/ DestroyDatabase(r) \/ DeleteRecord(r) \/ DeleteRow(r)
      BY <3>1, <3>3, AuthorizeKeeps, SetDeactivatedKeeps, ClearRowKeeps, RevokeKeeps,
         ReadRowKeeps, DestroyDatabaseKeeps, DeleteRecordKeeps, DeleteRowKeeps
    <3> QED
      BY <2>1, <3>2, <3>3 DEF KitStep
  <2>2. ASSUME NEW r \in Requests, NEW k \in Kits,
               Activate(r, k) \/ Deactivate(r, k) \/ Delete(r, k)
        PROVE  IInv'
    BY <2>2, BeginKeeps DEF Activate, Deactivate, Delete
  <2>3. ASSUME NEW r \in Requests, SubscriptionStep(r) \/ \E p \in Plans : Subscribe(r, p)
        PROVE  IInv'
    BY <2>3, SubscriptionKeeps DEF SubscriptionStep
  <2>4. CASE CancelSubscription
    BY <2>4, StutterKeeps DEF CancelSubscription
  <2>5. CASE UNCHANGED vars
    <3>1. subs' \subseteq Plans
      BY <2>5 DEF vars, IInv, TypeOK
    <3> QED
      BY <2>5, <3>1, StutterKeeps DEF vars
  <2> QED
    BY <2>1, <2>2, <2>3, <2>4, <2>5, AbortKeeps DEF Next, Step
<1> QED
  BY <1>1, InitHolds, PTL DEF Spec

\* The stores and the requests keep their types.
THEOREM TypeCorrect == Spec => []TypeOK
BY Inductive, PTL DEF IInv

\* kit-lifecycle 121-132: overlapping activations pass the plan's limit by less than the
\* requests in flight, however they fail, retry and come again.
THEOREM OvershootIsBounded == Spec => []Overshoot
BY Inductive, PTL DEF IInv

\* kit-lifecycle 189-232: a deactivation that reported success holds until an activation is
\* asked for.
THEOREM OffStaysOff == Spec => []OffMeansOff
BY Inductive, PTL DEF IInv

\* turso-provisioner 65-112: an active record has a URL and a database.
THEOREM RecordsHaveDatabases == Spec => []ActiveHasDatabase
<1>1. IInv => ActiveHasDatabase
  <2> SUFFICES ASSUME IInv, NEW k \in Kits, clean[k], \A r \in On(k) : op[r] # "delete",
                      st[k].record = "active"
               PROVE  st[k].url /\ st[k].turso
    BY DEF ActiveHasDatabase
  <2>1. \A r \in Requests : kit[r] = k => ~Destroying(op[r], pc[r])
    BY DEF On, Destroying
  <2>2. Base(st[k])
    BY <2>1 DEF IInv, Databases
  <2> QED
    BY <2>2 DEF Base
<1> QED
  BY <1>1, Inductive, PTL
=============================================================================
