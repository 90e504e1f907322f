-------------------------- MODULE AuthzCacheProofs --------------------------
(***************************************************************************)
(* Proofs about AuthzCache for any number of processes, checks in flight,  *)
(* writers, subjects and objects, and any number of lost version bumps.    *)
(***************************************************************************)
EXTENDS AuthzCache, TLAPS

-----------------------------------------------------------------------------
(* The inductive invariant.                                                *)

\* A check is at one of its requirements; those before it were granted.
Position ==
  \A c \in Checks :
    /\ pc[c] = "idle" => at[c] = 1
    /\ pc[c] # "idle" => reqs[c] \in Requests /\ at[c] \in DOMAIN reqs[c]
    /\ pc[c] # "idle" => \A i \in DOMAIN reqs[c] : i < at[c] => reqs[c][i] \in proven[c]
    /\ (pc[c] = "done" /\ answer[c]) =>
         /\ reqs[c][at[c]] \in proven[c]
         /\ \A i \in DOMAIN reqs[c] : i <= at[c]

\* No version runs ahead of the row.
NotAhead ==
  /\ \A p \in Procs : cacheVer[p] <= version
  /\ \A c \in Checks : ver[c] <= version

\* The histories contain what the tables say now.
NowHeld == \A k \in Key : Allowed(k) \in held[k]
NowSeen == \A c \in Checks : pc[c] \in InFlight => Allowed(Cur(c)) \in seen[c]

\* A cache of the current version holds decisions of that version; a decision
\* a check is about to look at is one it may return.
CacheHeld ==
  \A p \in Procs : cacheVer[p] = version =>
    \A k \in Key, b \in BOOLEAN : <<k, b>> \in decided[p] => b \in held[k]
CacheSeen ==
  \A c \in Checks : (pc[c] = "cache" /\ cacheVer[proc[c]] = ver[c]) =>
    \A b \in BOOLEAN : <<Cur(c), b>> \in decided[proc[c]] => b \in seen[c]

\* The same for a decision that is still to be stored.
StoreHeld ==
  \A d \in Checks :
    (pc[d] = "store" /\ live[d] /\ cacheVer[proc[d]] = version)
      => answer[d] \in held[Cur(d)]
StoreSeen ==
  \A c, d \in Checks :
    ( /\ pc[d] = "store" /\ live[d]
      /\ pc[c] = "cache" /\ proc[c] = proc[d] /\ Cur(c) = Cur(d)
      /\ cacheVer[proc[c]] = ver[c] )
      => answer[d] \in seen[c]
OwnSeen == \A d \in Checks : pc[d] = "store" => answer[d] \in seen[d]

IInv ==
  /\ TypeOK /\ Position /\ NotAhead /\ NowHeld /\ NowSeen
  /\ CacheHeld /\ CacheSeen /\ StoreHeld /\ StoreSeen /\ OwnSeen
  /\ AnswerFresh

-----------------------------------------------------------------------------
\* What queryDecision returns is a Boolean.
LEMMA DecisionBool == \A T, M, k : Decision(T, M, k) \in BOOLEAN
BY DEF Decision

\* A requirement is a key, and a request has one or two of them.
LEMMA RequestKeys ==
  ASSUME NEW r \in Requests
  PROVE  /\ r \in Seq(Key)
         /\ Len(r) \in {1, 2}
         /\ DOMAIN r = 1..Len(r)
         /\ \A i \in DOMAIN r : r[i] \in Key
<1>1. CASE \E k \in Key : r = <<k>>
  BY <1>1
<1>2. CASE \E u \in Users, s \in Services, o \in Objects : r = << <<u, o>>, <<s, o>> >>
  <2> PICK u \in Users, s \in Services, o \in Objects : r = << <<u, o>>, <<s, o>> >>
    BY <1>2
  <2> <<u, o>> \in Key /\ <<s, o>> \in Key
    BY DEF Key, Members
  <2> QED OBVIOUS
<1> QED
  BY <1>1, <1>2 DEF Requests

\* The requirement a busy check is at is a key.
LEMMA CurKey ==
  ASSUME Position, NEW c \in Checks, pc[c] # "idle"
  PROVE  Cur(c) \in Key
BY RequestKeys DEF Position, Cur

-----------------------------------------------------------------------------
\* A mutation only adds to the histories, and what it adds is what holds now.
LEMMA MutateStep ==
  ASSUME IInv, NEW w \in Writers,
         NEW T \in SUBSET (Subjects \X Objects), NEW M \in SUBSET (Members \X Teams),
         NEW I \in SUBSET Mappings, Mutate(w, T, M, I)
  PROVE  IInv'
<1> USE DEF IInv, InFlight
<1>1. TypeOK'
  BY CurKey, DecisionBool DEF Mutate, TypeOK, cacheVars, checkVars
<1>2. /\ pc' = pc /\ proc' = proc /\ reqs' = reqs /\ at' = at /\ ver' = ver
      /\ live' = live /\ answer' = answer /\ proven' = proven
      /\ cacheVer' = cacheVer /\ decided' = decided /\ version' = version
      /\ \A c : Cur(c)' = Cur(c)
      /\ \A k : Allowed(k)' = Decision(T, M, k)
  BY DEF Mutate, cacheVars, checkVars, Cur, Allowed
<1>3. \A k \in Key : held'[k] = held[k] \cup {Decision(T, M, k)}
  BY DEF Mutate
<1>4. \A c \in Checks : seen'[c] =
        IF pc[c] \in InFlight THEN seen[c] \cup {Decision(T, M, Cur(c))} ELSE seen[c]
  BY DEF Mutate
<1>5. Position'
  BY <1>2 DEF Position
<1>6. NotAhead'
  BY <1>2 DEF NotAhead
<1>7. NowHeld'
  BY <1>2, <1>3 DEF NowHeld
<1>8. NowSeen'
  BY <1>2, <1>4 DEF NowSeen
<1>9. CacheHeld'
  BY <1>2, <1>3 DEF CacheHeld
<1>10. CacheSeen'
  BY <1>2, <1>4 DEF CacheSeen
<1>11. StoreHeld'
  BY <1>2, <1>3, CurKey DEF StoreHeld
<1>12. StoreSeen'
  BY <1>2, <1>4 DEF StoreSeen
<1>13. OwnSeen' /\ AnswerFresh'
  BY <1>2, <1>4 DEF OwnSeen, AnswerFresh
<1> QED
  BY <1>1, <1>5, <1>6, <1>7, <1>8, <1>9, <1>10, <1>11, <1>12, <1>13

\* After a bump no cache is of the current version, so the history may restart.
LEMMA BumpStep ==
  ASSUME IInv, NEW w \in Writers, BumpAuthorizationVersion(w)
  PROVE  IInv'
<1> USE DEF IInv, InFlight
<1>1. TypeOK'
  BY DecisionBool DEF BumpAuthorizationVersion, Bumped, TypeOK, cacheVars, checkVars, Allowed
<1>2. /\ pc' = pc /\ proc' = proc /\ reqs' = reqs /\ at' = at /\ ver' = ver
      /\ live' = live /\ answer' = answer /\ proven' = proven /\ seen' = seen
      /\ cacheVer' = cacheVer /\ decided' = decided /\ version' = version + 1
      /\ \A c : Cur(c)' = Cur(c)
      /\ \A k : Allowed(k)' = Allowed(k)
  BY DEF BumpAuthorizationVersion, Bumped, cacheVars, checkVars, Cur, Allowed
<1>3. NotAhead' /\ \A p \in Procs : cacheVer'[p] # version'
  BY <1>2 DEF NotAhead, TypeOK
<1>4. NowHeld'
  BY <1>2 DEF NowHeld, BumpAuthorizationVersion
<1>5. Position'
  BY <1>2 DEF Position
<1>6. NowSeen' /\ CacheSeen' /\ StoreSeen' /\ OwnSeen' /\ AnswerFresh'
  BY <1>2 DEF NowSeen, CacheSeen, StoreSeen, OwnSeen, AnswerFresh
<1>7. CacheHeld' /\ StoreHeld'
  BY <1>1, <1>2, <1>3 DEF CacheHeld, StoreHeld, TypeOK
<1> QED
  BY <1>1, <1>3, <1>4, <1>5, <1>6, <1>7

\* The tables do not move in the steps of a check.
LEMMA BeginStep ==
  ASSUME IInv, NEW c \in Checks, NEW p \in Procs, NEW r \in Requests, Begin(c, p, r)
  PROVE  IInv'
<1> USE DEF IInv, InFlight, Begin, dbVars, cacheVars, history
<1>1. TypeOK'
  BY DEF TypeOK
<1>2. \A d \in Checks : d # c => pc'[d] = pc[d] /\ proc'[d] = proc[d] /\ reqs'[d] = reqs[d] /\ Cur(d)' = Cur(d)
  BY DEF TypeOK, Cur
<1>3. pc'[c] = "version" /\ reqs'[c] = r /\ at'[c] = 1
  BY DEF TypeOK, Position
<1>4. Position'
  <2>1. 1 \in DOMAIN r /\ \A i \in DOMAIN r : ~(i < 1)
    BY RequestKeys
  <2> QED
    BY <1>2, <1>3, <2>1 DEF Position
<1>5. NotAhead' /\ NowHeld' /\ CacheHeld'
  BY DEF NotAhead, NowHeld, CacheHeld, Allowed
<1>6. NowSeen' /\ CacheSeen' /\ StoreHeld' /\ StoreSeen' /\ OwnSeen' /\ AnswerFresh'
  BY <1>2, <1>3 DEF NowSeen, CacheSeen, StoreHeld, StoreSeen, OwnSeen, AnswerFresh, Allowed
<1> QED
  BY <1>1, <1>4, <1>5, <1>6

\* A check that reads the version may return whatever was held under it.
LEMMA ReadVersionStep ==
  ASSUME IInv, NEW c \in Checks, ReadVersion(c)
  PROVE  IInv'
<1> USE DEF IInv, InFlight, ReadVersion, dbVars, cacheVars
<1>1. TypeOK'
  BY CurKey DEF TypeOK
<1>2. \A d \in Checks : d # c => pc'[d] = pc[d] /\ ver'[d] = ver[d] /\ seen'[d] = seen[d]
  BY DEF TypeOK
<1>3. pc'[c] = "cache" /\ ver'[c] = version /\ seen'[c] = held[Cur(c)]
  BY DEF TypeOK
<1>4. \A d : Cur(d)' = Cur(d) /\ Allowed(Cur(d))' = Allowed(Cur(d))
  BY DEF Cur, Allowed
<1>5. Position'
  BY <1>2, <1>3 DEF Position, TypeOK
<1>6. NotAhead'
  BY <1>2, <1>3 DEF NotAhead, TypeOK
<1>7. NowHeld' /\ CacheHeld'
  BY DEF NowHeld, CacheHeld, Allowed
<1>8. NowSeen'
  BY <1>2, <1>3, <1>4, CurKey DEF NowSeen, NowHeld
<1>9. CacheSeen'
  BY <1>2, <1>3, <1>4, CurKey DEF CacheSeen, CacheHeld, TypeOK
<1>10. StoreHeld'
  BY <1>2, <1>3, <1>4 DEF StoreHeld
<1>11. StoreSeen'
  BY <1>2, <1>3, <1>4 DEF StoreSeen, StoreHeld
<1>12. OwnSeen' /\ AnswerFresh'
  BY <1>2, <1>3 DEF OwnSeen, AnswerFresh
<1> QED
  BY <1>1, <1>5, <1>6, <1>7, <1>8, <1>9, <1>10, <1>11, <1>12

\* A step that ends a requirement with a decision the check may have seen.
LEMMA SettleStep ==
  ASSUME IInv, NEW c \in Checks, NEW b \in BOOLEAN, b \in seen[c], Settle(c, b),
         pc[c] \in InFlight, reqs' = reqs, seen' = seen
  PROVE  /\ pc' \in [Checks -> {"idle", "version", "done"} \cup InFlight]
         /\ at' \in [Checks -> Nat]
         /\ answer' \in [Checks -> BOOLEAN]
         /\ proven' \in [Checks -> SUBSET Key]
         /\ Position' /\ AnswerFresh'
         /\ pc'[c] \in {"version", "done"}
         /\ \A d \in Checks : d # c => pc'[d] = pc[d] /\ at'[d] = at[d] /\ answer'[d] = answer[d]
<1> USE DEF IInv, InFlight
<1>1. Cur(c) \in Key /\ reqs[c] \in Requests /\ at[c] \in DOMAIN reqs[c]
  BY CurKey DEF Position
<1>2. DOMAIN reqs[c] = 1..Len(reqs[c]) /\ Len(reqs[c]) \in Nat
  BY <1>1, RequestKeys
<1>3. /\ \A d \in Checks : d # c =>
            pc'[d] = pc[d] /\ at'[d] = at[d] /\ answer'[d] = answer[d] /\ proven'[d] = proven[d]
      /\ answer'[c] = b
      /\ proven[c] \subseteq proven'[c]
      /\ b => Cur(c) \in proven'[c]
  BY DEF Settle, TypeOK
<1>4. proven' \in [Checks -> SUBSET Key] /\ answer' \in [Checks -> BOOLEAN]
  BY <1>1 DEF Settle, TypeOK
<1>5. CASE b /\ More(c)
  <2>1. pc'[c] = "version" /\ at'[c] = at[c] + 1 /\ at[c] < Len(reqs[c])
    BY <1>5 DEF Settle, More, TypeOK
  <2>2. /\ pc' \in [Checks -> {"idle", "version", "done"} \cup InFlight]
        /\ at' \in [Checks -> Nat]
    <3>1. pc' = [pc EXCEPT ![c] = "version"] /\ at' = [at EXCEPT ![c] = @ + 1]
      BY <1>5 DEF Settle
    <3> QED
      BY <3>1 DEF TypeOK
  <2>3. \A i \in DOMAIN reqs[c] : i < at'[c] => reqs'[c][i] \in proven'[c]
    <3>1. \A i \in DOMAIN reqs[c] : i < at[c] => reqs[c][i] \in proven[c]
      BY DEF Position
    <3>2. reqs[c][at[c]] \in proven'[c]
      BY <1>3, <1>5 DEF Cur
    <3>3. \A i \in DOMAIN reqs[c] : i < at'[c] => i < at[c] \/ i = at[c]
      BY <1>2, <2>1 DEF TypeOK
    <3> QED
      BY <1>3, <3>1, <3>2, <3>3
  <2>4. Position'
    BY <1>1, <1>2, <1>3, <2>1, <2>3 DEF Position, TypeOK
  <2>5. AnswerFresh'
    BY <1>3, <2>1 DEF AnswerFresh
  <2> QED
    BY <1>3, <1>4, <2>1, <2>2, <2>4, <2>5
<1>6. CASE ~(b /\ More(c))
  <2>1. pc'[c] = "done" /\ at' = at /\ (b => ~(at[c] < Len(reqs[c])))
    BY <1>6 DEF Settle, More, TypeOK
  <2>2. pc' \in [Checks -> {"idle", "version", "done"} \cup InFlight]
    BY <1>6 DEF Settle, TypeOK
  <2>3. b => reqs'[c][at'[c]] \in proven'[c] /\ \A i \in DOMAIN reqs'[c] : i <= at'[c]
    BY <1>2, <1>3, <2>1 DEF Cur, TypeOK
  <2>4. Position'
    BY <1>1, <1>3, <2>1, <2>3 DEF Position
  <2>5. AnswerFresh'
    BY <1>3, <2>1 DEF AnswerFresh
  <2> QED
    BY <1>3, <1>4, <2>1, <2>2, <2>4, <2>5 DEF TypeOK
<1> QED
  BY <1>5, <1>6

\* A hit is a decision CacheSeen vouches for.
LEMMA HitStep ==
  ASSUME IInv, NEW c \in Checks, NEW b \in BOOLEAN, CacheHit(c, b)
  PROVE  IInv'
<1> USE DEF IInv, InFlight, cacheVars, dbVars
<1>0. /\ pc[c] = "cache" /\ Settle(c, b)
      /\ UNCHANGED <<cacheVars, live, dbVars, proc, reqs, ver, held, seen>>
  BY DEF CacheHit
<1>1. b \in seen[c]
  BY DEF CacheSeen, CacheHit
<1>2. /\ pc' \in [Checks -> {"idle", "version", "done"} \cup InFlight]
      /\ at' \in [Checks -> Nat]
      /\ answer' \in [Checks -> BOOLEAN]
      /\ proven' \in [Checks -> SUBSET Key]
      /\ Position' /\ AnswerFresh'
      /\ pc'[c] \in {"version", "done"}
      /\ \A d \in Checks : d # c => pc'[d] = pc[d] /\ at'[d] = at[d] /\ answer'[d] = answer[d]
  BY <1>0, <1>1, SettleStep
<1>3. TypeOK'
  BY <1>0, <1>2 DEF TypeOK
<1>4. \A d \in Checks : d # c => Cur(d)' = Cur(d) /\ Allowed(Cur(d))' = Allowed(Cur(d))
  BY <1>0, <1>2 DEF Cur, Allowed
<1>5. NotAhead' /\ NowHeld' /\ CacheHeld'
  BY <1>0 DEF NotAhead, NowHeld, CacheHeld, Allowed
<1>6. NowSeen' /\ CacheSeen' /\ StoreHeld' /\ StoreSeen' /\ OwnSeen'
  BY <1>0, <1>2, <1>4 DEF NowSeen, CacheSeen, StoreHeld, StoreSeen, OwnSeen
<1> QED
  BY <1>2, <1>3, <1>5, <1>6

\* A miss leaves the cache as it is.
LEMMA MissStep ==
  ASSUME IInv, NEW c \in Checks, CacheMiss(c)
  PROVE  IInv'
<1> USE DEF IInv, InFlight, cacheVars, dbVars, history, CacheMiss
<1>1. TypeOK'
  BY DEF TypeOK
<1>2. /\ pc'[c] = "query" /\ \A d \in Checks : d # c => pc'[d] = pc[d]
      /\ \A d \in Checks : d # c => live'[d] = live[d]
  BY DEF TypeOK
<1>3. \A d : Cur(d)' = Cur(d) /\ Allowed(Cur(d))' = Allowed(Cur(d))
  BY DEF Cur, Allowed
<1>4. Position' /\ AnswerFresh' /\ OwnSeen' /\ NotAhead'
  BY <1>2, <1>3 DEF Position, AnswerFresh, OwnSeen, NotAhead
<1>5. NowHeld' /\ NowSeen' /\ CacheHeld' /\ CacheSeen'
  BY <1>2, <1>3 DEF NowHeld, NowSeen, CacheHeld, CacheSeen, Allowed
<1>6. StoreHeld' /\ StoreSeen'
  BY <1>2, <1>3 DEF StoreHeld, StoreSeen
<1> QED
  BY <1>1, <1>4, <1>5, <1>6

\* The cache of another version is replaced by an empty one that no other check
\* has captured.
LEMMA ReplaceStep ==
  ASSUME IInv, NEW c \in Checks, CacheReplace(c)
  PROVE  IInv'
<1> USE DEF IInv, InFlight, dbVars, history, CacheReplace
<1>1. TypeOK'
  BY DEF TypeOK
<1>2. /\ pc'[c] = "query" /\ \A d \in Checks : d # c => pc'[d] = pc[d]
      /\ \A d \in Checks : d # c => (live'[d] => live[d] /\ proc[d] # proc[c])
  BY DEF TypeOK
<1>3. \A d : Cur(d)' = Cur(d) /\ Allowed(Cur(d))' = Allowed(Cur(d))
  BY DEF Cur, Allowed
<1>4. /\ \A p \in Procs : p # proc[c] => cacheVer'[p] = cacheVer[p] /\ decided'[p] = decided[p]
      /\ cacheVer'[proc[c]] = ver[c] /\ decided'[proc[c]] = {}
      /\ \A d \in Checks : proc[d] \in Procs
  BY DEF TypeOK
<1>5. Position' /\ AnswerFresh' /\ OwnSeen'
  BY <1>2, <1>3 DEF Position, AnswerFresh, OwnSeen
<1>6. NotAhead'
  BY <1>4 DEF NotAhead
<1>7. NowHeld' /\ NowSeen'
  BY <1>2, <1>3 DEF NowHeld, NowSeen, Allowed
<1>8. CacheHeld'
  BY <1>4 DEF CacheHeld
<1>9. CacheSeen'
  BY <1>2, <1>3, <1>4 DEF CacheSeen
<1>10. StoreHeld'
  BY <1>2, <1>3, <1>4 DEF StoreHeld
<1>11. StoreSeen'
  <2> SUFFICES ASSUME NEW e \in Checks, NEW d \in Checks,
                      pc'[d] = "store", live'[d], pc'[e] = "cache", proc[e] = proc[d],
                      Cur(e) = Cur(d), cacheVer'[proc[e]] = ver[e]
               PROVE  answer[d] \in seen[e]
    BY <1>3 DEF StoreSeen
  <2> d # c /\ e # c
    BY <1>2
  <2> QED
    BY <1>2, <1>4 DEF StoreSeen
<1> QED
  BY <1>1, <1>5, <1>6, <1>7, <1>8, <1>9, <1>10, <1>11

\* What the query returns holds now, hence is in every history that matters.
LEMMA QueryStep ==
  ASSUME IInv, NEW c \in Checks, QueryDecision(c)
  PROVE  IInv'
<1> USE DEF IInv, InFlight, dbVars, cacheVars, history, QueryDecision
<1>1. TypeOK'
  BY DecisionBool DEF TypeOK, Allowed
<1>2. /\ pc'[c] = "store" /\ answer'[c] = Allowed(Cur(c))
      /\ \A d \in Checks : d # c => pc'[d] = pc[d] /\ answer'[d] = answer[d]
  BY DEF TypeOK
<1>3. \A d : Cur(d)' = Cur(d) /\ Allowed(Cur(d))' = Allowed(Cur(d))
  BY DEF Cur, Allowed
<1>4. Position' /\ AnswerFresh' /\ NotAhead'
  BY <1>2, <1>3 DEF Position, AnswerFresh, NotAhead
<1>5. NowHeld' /\ NowSeen' /\ CacheHeld' /\ CacheSeen'
  BY <1>2, <1>3 DEF NowHeld, NowSeen, CacheHeld, CacheSeen, Allowed
<1>6. OwnSeen'
  BY <1>2, <1>3 DEF OwnSeen, NowSeen
<1>7. StoreHeld'
  BY <1>2, <1>3, CurKey DEF StoreHeld, NowHeld
<1>8. StoreSeen'
  <2> SUFFICES ASSUME NEW e \in Checks, NEW d \in Checks,
                      pc'[d] = "store", live[d], pc'[e] = "cache", proc[e] = proc[d],
                      Cur(e) = Cur(d), cacheVer[proc[e]] = ver[e]
               PROVE  answer'[d] \in seen[e]
    BY <1>3 DEF StoreSeen
  <2>1. e # c /\ pc[e] = "cache" /\ Allowed(Cur(e)) \in seen[e]
    BY <1>2 DEF NowSeen
  <2>2. CASE d = c
    BY <1>2, <2>1, <2>2
  <2>3. CASE d # c
    BY <1>2, <2>1, <2>3 DEF StoreSeen
  <2> QED
    BY <2>2, <2>3
<1> QED
  BY <1>1, <1>4, <1>5, <1>6, <1>7, <1>8

\* Storing the decision puts into a cache only what StoreHeld and StoreSeen
\* vouch for.
LEMMA StoreStep ==
  ASSUME IInv, NEW c \in Checks, Store(c)
  PROVE  IInv'
<1> USE DEF IInv, InFlight, dbVars
<1>0. /\ pc[c] = "store" /\ Settle(c, answer[c])
      /\ decided' = [decided EXCEPT ![proc[c]] = Remembered(c)]
      /\ UNCHANGED <<dbVars, cacheVer, proc, reqs, ver, live, held, seen>>
      /\ answer[c] \in BOOLEAN /\ answer[c] \in seen[c]
  BY DEF Store, OwnSeen, TypeOK
<1>1. Cur(c) \in Key /\ proc[c] \in Procs
  BY <1>0, CurKey DEF TypeOK
<1>2. /\ pc' \in [Checks -> {"idle", "version", "done"} \cup InFlight]
      /\ at' \in [Checks -> Nat]
      /\ answer' \in [Checks -> BOOLEAN]
      /\ proven' \in [Checks -> SUBSET Key]
      /\ Position' /\ AnswerFresh'
      /\ pc'[c] \in {"version", "done"}
      /\ \A d \in Checks : d # c => pc'[d] = pc[d] /\ at'[d] = at[d] /\ answer'[d] = answer[d]
  BY <1>0, SettleStep
<1>3. decided' \in [Procs -> SUBSET (Key \X BOOLEAN)]
  <2>1. Remembered(c) \in SUBSET (Key \X BOOLEAN)
    BY <1>0, <1>1 DEF Remembered, TypeOK
  <2> QED
    BY <1>0, <2>1 DEF TypeOK
<1>4. TypeOK'
  BY <1>0, <1>2, <1>3 DEF TypeOK
<1>5. \A d \in Checks : d # c => Cur(d)' = Cur(d) /\ Allowed(Cur(d))' = Allowed(Cur(d))
  BY <1>0, <1>2 DEF Cur, Allowed
<1>6. \A p \in Procs, k \in Key, b \in BOOLEAN : <<k, b>> \in decided'[p] =>
        \/ <<k, b>> \in decided[p]
        \/ live[c] /\ p = proc[c] /\ k = Cur(c) /\ b = answer[c]
  <2> SUFFICES ASSUME NEW p \in Procs, NEW k \in Key, NEW b \in BOOLEAN,
                      <<k, b>> \in decided'[p], <<k, b>> \notin decided[p]
               PROVE  live[c] /\ p = proc[c] /\ k = Cur(c) /\ b = answer[c]
    OBVIOUS
  <2>1. p = proc[c] /\ <<k, b>> \in Remembered(c)
    BY <1>0, <1>1 DEF TypeOK
  <2> QED
    BY <2>1 DEF Remembered
<1>7. NotAhead' /\ NowHeld'
  BY <1>0 DEF NotAhead, NowHeld, Allowed
<1>8. NowSeen' /\ StoreHeld' /\ StoreSeen' /\ OwnSeen'
  BY <1>0, <1>2, <1>5 DEF NowSeen, StoreHeld, StoreSeen, OwnSeen
<1>9. CacheHeld'
  BY <1>0, <1>6 DEF CacheHeld, StoreHeld
<1>10. CacheSeen'
  <2> SUFFICES ASSUME NEW e \in Checks, e # c, pc[e] = "cache", cacheVer[proc[e]] = ver[e],
                      NEW b \in BOOLEAN, <<Cur(e), b>> \in decided'[proc[e]]
               PROVE  b \in seen[e]
    BY <1>0, <1>2, <1>5 DEF CacheSeen
  <2>1. Cur(e) \in Key /\ proc[e] \in Procs
    BY CurKey DEF TypeOK
  <2>2. CASE <<Cur(e), b>> \in decided[proc[e]]
    BY <2>2 DEF CacheSeen
  <2>3. CASE live[c] /\ proc[e] = proc[c] /\ Cur(e) = Cur(c) /\ b = answer[c]
    BY <1>0, <2>3 DEF StoreSeen
  <2> QED
    BY <1>6, <2>1, <2>2, <2>3
<1> QED
  BY <1>2, <1>4, <1>7, <1>8, <1>9, <1>10

\* A check that returns or throws leaves nothing behind.
LEMMA ResetStep ==
  ASSUME IInv, NEW c \in Checks, Reset(c)
  PROVE  IInv'
<1> USE DEF IInv, InFlight, dbVars, cacheVars, Reset
<1>1. TypeOK'
  BY DEF TypeOK
<1>2. /\ pc'[c] = "idle" /\ at'[c] = 1 /\ ver'[c] = 0
      /\ \A d \in Checks : d # c =>
           /\ pc'[d] = pc[d] /\ at'[d] = at[d] /\ ver'[d] = ver[d] /\ live'[d] = live[d]
           /\ answer'[d] = answer[d] /\ seen'[d] = seen[d] /\ proven'[d] = proven[d]
           /\ reqs'[d] = reqs[d]
  BY DEF TypeOK
<1>3. \A d \in Checks : d # c => Cur(d)' = Cur(d) /\ Allowed(Cur(d))' = Allowed(Cur(d))
  BY <1>2 DEF Cur, Allowed
<1>4. Position'
  BY <1>2 DEF Position
<1>5. AnswerFresh' /\ OwnSeen'
  BY <1>2 DEF AnswerFresh, OwnSeen
<1>9. NowSeen'
  BY <1>2, <1>3 DEF NowSeen
<1>11. StoreHeld'
  <2> SUFFICES ASSUME NEW d \in Checks, pc'[d] = "store", live'[d], cacheVer[proc[d]] = version
               PROVE  answer'[d] \in held[Cur(d)']
    BY DEF StoreHeld
  <2>1. d # c
    BY <1>2
  <2>2. pc[d] = "store" /\ live[d] /\ answer'[d] = answer[d] /\ Cur(d)' = Cur(d)
    BY <1>2, <1>3, <2>1
  <2> QED
    BY <2>2 DEF StoreHeld
<1>6. NotAhead'
  BY <1>2 DEF NotAhead, TypeOK
<1>7. NowHeld' /\ CacheHeld'
  BY DEF NowHeld, CacheHeld, Allowed
<1>8. CacheSeen'
  BY <1>2, <1>3 DEF CacheSeen
<1>10. StoreSeen'
  <2> SUFFICES ASSUME NEW e \in Checks, NEW d \in Checks,
                      pc'[d] = "store", live'[d], pc'[e] = "cache", proc[e] = proc[d],
                      Cur(e)' = Cur(d)', cacheVer[proc[e]] = ver'[e]
               PROVE  answer'[d] \in seen'[e]
    BY DEF StoreSeen
  <2> d # c /\ e # c
    BY <1>2
  <2> QED
    BY <1>2, <1>3 DEF StoreSeen
<1> QED
  BY <1>1, <1>4, <1>5, <1>6, <1>7, <1>8, <1>9, <1>10, <1>11

\* An expiry only removes a decision.
LEMMA ExpireStep ==
  ASSUME IInv, NEW p \in Procs, NEW k \in Key, Expire(p, k)
  PROVE  IInv'
<1> USE DEF IInv, dbVars, checkVars, history, Expire
<1>1. TypeOK'
  BY DEF TypeOK
<1>2. \A q \in Procs : decided'[q] \subseteq decided[q]
  BY DEF TypeOK
<1>3. \A d : Cur(d)' = Cur(d) /\ Allowed(d)' = Allowed(d)
  BY DEF Cur, Allowed
<1>4. CacheHeld'
  BY <1>2 DEF CacheHeld
<1>5. CacheSeen'
  BY <1>2, <1>3 DEF CacheSeen, TypeOK
<1>6. Position' /\ NotAhead' /\ NowHeld' /\ NowSeen'
  BY <1>3 DEF Position, NotAhead, NowHeld, NowSeen
<1>7. StoreHeld' /\ StoreSeen' /\ OwnSeen' /\ AnswerFresh'
  BY <1>3 DEF StoreHeld, StoreSeen, OwnSeen, AnswerFresh
<1> QED
  BY <1>1, <1>4, <1>5, <1>6, <1>7

\* A bump that is lost changes no table, no cache and no history.
LEMMA QuietStep ==
  ASSUME IInv, UNCHANGED <<tuples, members, mappings, version, cacheVars, checkVars, history>>,
         wpc' \in [Writers -> {"idle", "bump"}]
  PROVE  IInv'
<1> USE DEF IInv, cacheVars, checkVars, history
<1>1. TypeOK'
  BY DEF TypeOK
<1>2. \A d : Cur(d)' = Cur(d) /\ Allowed(d)' = Allowed(d)
  BY DEF Cur, Allowed
<1>3. Position' /\ NotAhead' /\ NowHeld' /\ NowSeen' /\ CacheHeld' /\ CacheSeen'
  BY <1>2 DEF Position, NotAhead, NowHeld, NowSeen, CacheHeld, CacheSeen
<1>4. StoreHeld' /\ StoreSeen' /\ OwnSeen' /\ AnswerFresh'
  BY <1>2 DEF StoreHeld, StoreSeen, OwnSeen, AnswerFresh
<1> QED
  BY <1>1, <1>3, <1>4

-----------------------------------------------------------------------------
LEMMA InitIInv == Init => IInv
<1> SUFFICES ASSUME Init PROVE IInv
  OBVIOUS
<1> USE DEF Init, InFlight
<1>1. \A k \in Key : ~Allowed(k)
  BY DEF Allowed, Decision
<1>2. TypeOK
  BY DEF TypeOK
<1>3. Position /\ NotAhead /\ NowSeen /\ CacheHeld /\ CacheSeen
  BY DEF Position, NotAhead, NowSeen, CacheHeld, CacheSeen
<1>4. NowHeld
  BY <1>1, DecisionBool DEF NowHeld, Allowed
<1>5. StoreHeld /\ StoreSeen /\ OwnSeen /\ AnswerFresh
  BY DEF StoreHeld, StoreSeen, OwnSeen, AnswerFresh
<1> QED
  BY <1>2, <1>3, <1>4, <1>5 DEF IInv

\* A step of a writer: eight mutations, the bump and its loss.
LEMMA WriterKeeps ==
  ASSUME IInv, NEW w \in Writers, WriterStep(w)
  PROVE  IInv'
<1>0. /\ tuples \in SUBSET (Subjects \X Objects)
      /\ members \in SUBSET (Members \X Teams) /\ mappings \in SUBSET Mappings
  BY DEF IInv, TypeOK
<1>1. CASE \E s \in Subjects, o \in Objects : GrantRelation(w, s, o) \/ RevokeRelation(w, s, o)
  BY <1>0, <1>1, MutateStep DEF GrantRelation, RevokeRelation
<1>2. CASE \E s \in Subjects : RevokeAllForSubject(w, s)
  <2> PICK s \in Subjects : RevokeAllForSubject(w, s)
    BY <1>2
  <2> {x \in tuples : x[1] # s} \in SUBSET (Subjects \X Objects)
    BY <1>0
  <2> QED
    BY <1>0, MutateStep DEF RevokeAllForSubject
<1>3. CASE \E m \in Members, t \in Teams : GrantMembership(w, m, t) \/ RevokeMembership(w, m, t)
  BY <1>0, <1>3, MutateStep DEF GrantMembership, RevokeMembership
<1>4. CASE \E m \in Members : RevokeAllMembershipsForMember(w, m)
  <2> PICK m \in Members : RevokeAllMembershipsForMember(w, m)
    BY <1>4
  <2> {x \in members : x[1] # m} \in SUBSET (Members \X Teams)
    BY <1>0
  <2> QED
    BY <1>0, MutateStep DEF RevokeAllMembershipsForMember
<1>5. CASE \E i \in Mappings : GrantIdentityMapping(w, i) \/ RevokeIdentityMapping(w, i)
  BY <1>0, <1>5, MutateStep DEF GrantIdentityMapping, RevokeIdentityMapping
<1>6. CASE BumpAuthorizationVersion(w)
  BY <1>6, BumpStep
<1>7. CASE BumpLost(w)
  BY <1>7, QuietStep DEF BumpLost, IInv, TypeOK
<1> QED
  BY <1>1, <1>2, <1>3, <1>4, <1>5, <1>6, <1>7 DEF WriterStep

LEMMA Inductive == IInv /\ [Next]_vars => IInv'
<1> SUFFICES ASSUME IInv, [Next]_vars PROVE IInv'
  OBVIOUS
<1>1. CASE \E w \in Writers : WriterStep(w)
  BY <1>1, WriterKeeps
<1>2. CASE \E c \in Checks : CheckStep(c)
  BY <1>2, BeginStep, ReadVersionStep, HitStep, MissStep, ReplaceStep, QueryStep,
     StoreStep, ResetStep DEF CheckStep, CheckThrows, Return
<1>3. CASE \E p \in Procs, k \in Key : Expire(p, k)
  BY <1>3, ExpireStep
<1>4. CASE UNCHANGED vars
  BY <1>4, QuietStep DEF vars, dbVars, IInv, TypeOK
<1> QED
  BY <1>1, <1>2, <1>3, <1>4 DEF Next

\* The tables, the caches and the checks in flight keep their types.
THEOREM TypeCorrect == Spec => []TypeOK
<1>1. IInv => TypeOK
  BY DEF IInv
<1> QED
  BY InitIInv, Inductive, <1>1, PTL DEF Spec

\* engine.ts 31-35: every answer of VersionedGrantCache.check, with any number
\* of processes and checks in flight, is one the tables gave since the version
\* it read was installed.
THEOREM Freshness == Spec => []AnswerFresh
<1>1. IInv => AnswerFresh
  BY DEF IInv
<1> QED
  BY InitIInv, Inductive, <1>1, PTL DEF Spec

\* router/authz.ts 62-117: an authorized call had every one of its requirements
\* granted at a moment that requirement's own check could see.
THEOREM Delegation == Spec => []DelegatedNeedsBoth
<1>1. IInv => DelegatedNeedsBoth
  <2> SUFFICES ASSUME IInv, NEW c \in Checks, pc[c] = "done", answer[c],
                      NEW i \in DOMAIN reqs[c]
               PROVE  reqs[c][i] \in proven[c]
    BY DEF DelegatedNeedsBoth
  <2>1. /\ reqs[c] \in Requests /\ at[c] \in DOMAIN reqs[c]
        /\ \A j \in DOMAIN reqs[c] : j < at[c] => reqs[c][j] \in proven[c]
        /\ reqs[c][at[c]] \in proven[c] /\ i <= at[c]
    BY DEF IInv, Position
  <2>2. i < at[c] \/ i = at[c]
    BY <2>1, RequestKeys
  <2> QED
    BY <2>1, <2>2
<1> QED
  BY InitIInv, Inductive, <1>1, PTL DEF Spec
=============================================================================
