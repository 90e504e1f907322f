---------------------------- MODULE OAuthProofs ----------------------------
(* Proofs about OAuth for every set of handlers, users, clients, URIs and     *)
(* challenges and every bound.  The inductive invariant says what a handler   *)
(* holds between two of its calls, which no property of OAuth mentions.       *)
EXTENDS OAuth, FiniteSetTheorems, TLAPS

\* The positions in which a handler holds an item it has read.
Reading == {"delete", "issue"}
Holding == Reading \cup {"put"}

\* What handlers hold is an item; one to put is a session without a user, one that
\* was read has a user.
HeldOK ==
  \A h \in Handlers :
    /\ pc[h] \in Holding => item[h] \in Item /\ item[h].id <= ids /\ item[h].grant <= ids
    /\ pc[h] = "put" => item[h].kind = "session" /\ item[h].user = None
    /\ pc[h] \in Reading => item[h].user \in Users

\* Ids are generated once: nothing in the table or answered for is newer than ids.
Generated ==
  /\ \A i \in store : i.id <= ids /\ i.grant <= ids
  /\ \A s \in spent : s <= ids

Types == TypeOK /\ IsFiniteSet(store) /\ HeldOK /\ Generated

\* Where an item came from: the authorize request, the callback of its code and the verifier
\* shown with that code.
Traced(i) ==
  \E a \in asked :
    /\ a.grant = i.grant /\ a.client = i.client
    /\ i.kind # "refresh" => a.challenge = i.challenge
    /\ i.kind # "session" => <<i.grant, i.code, i.user>> \in named
    /\ i.kind = "refresh" => <<i.code, a.challenge>> \in shown

\* What a handler past its checks holds: an item that can be traced, a code whose verifier was
\* shown, a session with the user of the callback.
Ready(i, user) ==
  /\ Traced(i)
  /\ i.kind = "code" => <<i.code, i.challenge>> \in shown
  /\ i.kind = "session" => i.user = user

Origin ==
  /\ \A i \in store : Traced(i)
  /\ \A h \in Handlers : pc[h] \in Reading => Ready(item[h], claim[h])

\* An id is in one place only: one to be put is nowhere else, one deleted is not in the table.
OneTime ==
  /\ \A h \in Handlers : pc[h] = "issue" => \A i \in store : i.id # item[h].id
  /\ \A h \in Handlers : pc[h] = "put" =>
       /\ item[h].id \notin spent
       /\ \A i \in store : i.id # item[h].id
       /\ \A k \in Handlers \ {h} : pc[k] \in Holding => item[k].id # item[h].id

\* Items with one id are of one grant.
OneGrant ==
  /\ \A i, j \in store : i.id = j.id => i.grant = j.grant
  /\ \A h \in Handlers : pc[h] = "delete" =>
       \A i \in store : i.id = item[h].id => i.grant = item[h].grant

StoredOf(g) == {i \in store : i.grant = g}

\* The handlers that will put an item of grant g and no longer have one to delete.
MakingOf(g) == {h \in Handlers : pc[h] \in {"put", "issue"} /\ item[h].grant = g}

\* ForksNeedOverlap with the items that are on their way counted too.
Forks == \A g \in Ids : Cardinality(StoredOf(g)) + Cardinality(MakingOf(g)) <= 1 + missed[g]

IInv == Types /\ Origin /\ OneTime /\ SpentIsGone /\ OneGrant /\ Forks

-----------------------------------------------------------------------------
\* Traces only grow.
LEMMA TracedGrows ==
  ASSUME NEW i, Traced(i), asked \subseteq asked', named \subseteq named', shown \subseteq shown'
  PROVE  Traced(i)'
BY DEF Traced

\* So does what a handler that does not move holds.
LEMMA ReadyGrows ==
  ASSUME NEW h \in Handlers, Ready(item[h], claim[h]), item'[h] = item[h], claim'[h] = claim[h],
         asked \subseteq asked', named \subseteq named', shown \subseteq shown'
  PROVE  Ready(item[h], claim[h])'
<1>1. Traced(item[h])
  BY DEF Ready
<1>2. \A i : Traced(i) => Traced(i)'
  BY TracedGrows
<1>3. ASSUME NEW i, Traced(i), item'[h] = i PROVE Traced(item[h])'
  BY <1>2, <1>3 DEF Traced
<1> QED
  BY <1>1, <1>3 DEF Ready

\* Steps in which no item is made and none is taken: items leave the table, handlers end.
Releases ==
  /\ store' \subseteq store /\ ids' = ids
  /\ asked' = asked /\ named' = named /\ shown' = shown /\ missed' = missed
  /\ \A h \in Handlers :
       pc'[h] \in Holding => pc'[h] = pc[h] /\ item'[h] = item[h] /\ claim'[h] = claim[h]
  /\ \A s \in spent' : s \in spent \/ \E i \in store : i.id = s
  /\ \A i \in store' : i.id \notin spent'

LEMMA ReleasesKeeps ==
  ASSUME IInv, TypeOK', Releases
  PROVE  IInv'
<1>1. IsFiniteSet(store')
  BY FS_Subset DEF IInv, Types, Releases
<1>2. HeldOK'
  BY DEF IInv, Types, HeldOK, Releases, Holding, Reading
<1>3. Generated'
  BY DEF IInv, Types, Generated, Releases
<1>4. Origin'
  <2>1. \A i : Traced(i) => Traced(i)'
    BY TracedGrows DEF Releases
  <2>2. ASSUME NEW k \in Handlers, pc'[k] \in Reading PROVE Ready(item[k], claim[k])'
    <3>1. pc[k] \in Reading /\ item'[k] = item[k] /\ claim'[k] = claim[k]
      BY <2>2 DEF Releases, Holding
    <3> QED
      BY <3>1, ReadyGrows DEF IInv, Origin, Releases
  <2> QED
    BY <2>1, <2>2 DEF IInv, Origin, Releases
<1>5. OneTime'
  BY DEF IInv, OneTime, Releases, Holding, Reading
<1>6. SpentIsGone'
  BY DEF Releases, SpentIsGone
<1>7. OneGrant'
  BY DEF IInv, OneGrant, Releases, Holding, Reading
<1>8. Forks'
  <2> SUFFICES ASSUME NEW g \in Ids
               PROVE  Cardinality(StoredOf(g)') + Cardinality(MakingOf(g)') <= 1 + missed'[g]
    BY DEF Forks
  <2>1. StoredOf(g)' \in SUBSET StoredOf(g) /\ MakingOf(g)' \in SUBSET MakingOf(g)
    BY DEF Releases, StoredOf, MakingOf, Holding, Reading
  <2>2. IsFiniteSet(StoredOf(g)) /\ IsFiniteSet(MakingOf(g))
    BY FS_Subset, OAuthAssumption DEF IInv, Types, StoredOf, MakingOf
  <2>3. /\ Cardinality(StoredOf(g)) \in Nat /\ Cardinality(MakingOf(g)) \in Nat
        /\ Cardinality(StoredOf(g)') \in Nat /\ Cardinality(MakingOf(g)') \in Nat
        /\ Cardinality(StoredOf(g)') <= Cardinality(StoredOf(g))
        /\ Cardinality(MakingOf(g)') <= Cardinality(MakingOf(g))
    BY <2>1, <2>2, FS_Subset, FS_CardinalityType
  <2>4. missed'[g] = missed[g] /\ missed[g] \in Nat
    BY DEF IInv, Types, TypeOK, Releases
  <2>5. Cardinality(StoredOf(g)) + Cardinality(MakingOf(g)) <= 1 + missed[g]
    BY DEF IInv, Forks
  <2> QED
    BY <2>3, <2>4, <2>5
<1> QED
  BY <1>1, <1>2, <1>3, <1>4, <1>5, <1>6, <1>7, <1>8 DEF IInv, Types

\* Steps in which handler h reads item i and comes out with j, the same but for its user.
Reads(h, i, j) ==
  /\ i \in store /\ j \in Item /\ j.id = i.id /\ j.grant = i.grant /\ j.user \in Users
  /\ pc[h] = "idle"
  /\ pc' = [pc EXCEPT ![h] = "delete"] /\ item' = [item EXCEPT ![h] = j]
  /\ store' = store /\ ids' = ids /\ spent' = spent /\ missed' = missed /\ asked' = asked
  /\ named' = named /\ shown \subseteq shown'
  /\ \A k \in Handlers \ {h} : claim'[k] = claim[k]
  /\ Traced(j)'
  /\ j.kind = "code" => <<j.code, j.challenge>> \in shown'
  /\ j.kind = "session" => j.user = claim'[h]

LEMMA ReadsKeeps ==
  ASSUME IInv, TypeOK', NEW h \in Handlers, NEW i, NEW j, Reads(h, i, j)
  PROVE  IInv'
<1>0. /\ pc'[h] = "delete" /\ item'[h] = j
      /\ \A k \in Handlers \ {h} : pc'[k] = pc[k] /\ item'[k] = item[k]
  BY DEF IInv, Types, TypeOK, Reads
<1>1. IsFiniteSet(store')
  BY DEF IInv, Types, Reads
<1>2. HeldOK'
  BY <1>0 DEF IInv, Types, HeldOK, Generated, Reads, Holding, Reading
<1>3. Generated'
  BY DEF IInv, Types, Generated, Reads
<1>4. Origin'
  <2>1. \A x : Traced(x) => Traced(x)'
    BY TracedGrows DEF Reads
  <2>2. \A x \in store' : Traced(x)'
    BY <2>1 DEF IInv, Origin, Reads
  <2>3. ASSUME NEW k \in Handlers, pc'[k] \in Reading PROVE Ready(item[k], claim[k])'
    <3>1. CASE k = h
      BY <3>1, <1>0 DEF Reads, Ready, Traced
    <3>2. CASE k # h
      <4>1. Ready(item[k], claim[k]) /\ item'[k] = item[k] /\ claim'[k] = claim[k]
        BY <3>2, <2>3, <1>0 DEF IInv, Origin, Reads
      <4> QED
        BY <4>1, ReadyGrows DEF Reads
    <3> QED
      BY <3>1, <3>2
  <2> QED
    BY <2>2, <2>3 DEF Origin
<1>5. OneTime'
  BY <1>0 DEF IInv, OneTime, Reads, Holding, Reading
<1>6. SpentIsGone'
  BY DEF IInv, Reads, SpentIsGone
<1>7. OneGrant'
  BY <1>0 DEF IInv, OneGrant, Reads
<1>8. Forks'
  <2>1. \A g : StoredOf(g)' = StoredOf(g) /\ MakingOf(g)' = MakingOf(g)
    BY <1>0 DEF Reads, StoredOf, MakingOf
  <2> QED
    BY <2>1 DEF IInv, Forks, Reads
<1> QED
  BY <1>1, <1>2, <1>3, <1>4, <1>5, <1>6, <1>7, <1>8 DEF IInv, Types

-----------------------------------------------------------------------------
\* What comes after an item: a code after a session, a refresh token after the others, of the
\* same grant, client and user.
LEMMA SuccessorOf ==
  ASSUME NEW i \in Item, NEW id \in Ids
  PROVE  /\ Successor(i, id) \in Item
         /\ Successor(i, id).id = id /\ Successor(i, id).grant = i.grant
         /\ Successor(i, id).client = i.client /\ Successor(i, id).user = i.user
         /\ Successor(i, id).code = IF i.kind = "session" THEN id ELSE i.code
         /\ Successor(i, id).kind = IF i.kind = "session" THEN "code" ELSE "refresh"
         /\ Successor(i, id).kind # "refresh" => Successor(i, id).challenge = i.challenge
<1>0. id \in 0..MaxIds
  BY OAuthAssumption DEF Ids
<1>1. CASE i.kind = "session"
  BY <1>0, <1>1 DEF Successor, Item, Kinds
<1>2. CASE i.kind # "session"
  BY <1>2 DEF Successor, Item, Kinds
<1> QED
  BY <1>1, <1>2

LEMMA ForUserItem ==
  ASSUME NEW i \in Item, NEW user \in Users
  PROVE  /\ ForUser(i, user) \in Item
         /\ ForUser(i, user).id = i.id /\ ForUser(i, user).grant = i.grant
         /\ ForUser(i, user).client = i.client /\ ForUser(i, user).user = user
         /\ ForUser(i, user).kind = i.kind /\ ForUser(i, user).challenge = i.challenge
         /\ ForUser(i, user).code = i.code
BY DEF ForUser, Item, Kinds

\* One element fewer, or one more, in one of the two sets Forks counts.
LEMMA Counted ==
  ASSUME IInv, NEW g \in Ids
  PROVE  /\ IsFiniteSet(StoredOf(g)) /\ IsFiniteSet(MakingOf(g))
         /\ Cardinality(StoredOf(g)) \in Nat /\ Cardinality(MakingOf(g)) \in Nat
         /\ missed[g] \in Nat
         /\ Cardinality(StoredOf(g)) + Cardinality(MakingOf(g)) <= 1 + missed[g]
<1>1. StoredOf(g) \in SUBSET store /\ MakingOf(g) \in SUBSET Handlers
  BY DEF StoredOf, MakingOf
<1>2. IsFiniteSet(store) /\ IsFiniteSet(Handlers)
  BY OAuthAssumption DEF IInv, Types
<1>3. IsFiniteSet(StoredOf(g)) /\ IsFiniteSet(MakingOf(g))
  BY <1>1, <1>2, FS_Subset
<1> QED
  BY <1>3, FS_CardinalityType DEF IInv, Types, TypeOK, Forks

\* A session is to be put under a new id.
LEMMA AuthorizeKeeps ==
  ASSUME IInv, NEW h \in Handlers, NEW c \in Clients, NEW u \in Uris, NEW ch \in Challenges,
         Authorize(h, c, u, ch)
  PROVE  IInv'
<1> DEFINE new == [kind |-> "session", id |-> ids + 1, grant |-> ids + 1, code |-> 0,
                   client |-> c, uri |-> u, challenge |-> ch, user |-> None]
<1>1. ids' = ids + 1 /\ ids \in 0..MaxIds /\ ids + 1 \in Ids
  BY OAuthAssumption DEF IInv, Types, TypeOK, Authorize, Ids
<1>2. /\ new \in Item /\ new.id = ids + 1 /\ new.grant = ids + 1 /\ new.kind = "session"
      /\ new.user = None
  BY <1>1, OAuthAssumption DEF Item, Kinds
<1>3. pc' = [pc EXCEPT ![h] = "put"] /\ item' = [item EXCEPT ![h] = new] /\ purge' = purge
  BY DEF Authorize, Goto
<1> HIDE DEF new
<1>4. /\ redirectUris' = redirectUris /\ store' = store /\ faults' = faults /\ asked' = asked
      /\ named' = named /\ shown' = shown /\ spent' = spent /\ missed' = missed
      /\ claim' = claim
  BY DEF Authorize, history
<1>5. TypeOK'
  <2>1. ids' \in 0..MaxIds
    BY <1>1 DEF Ids
  <2>2. pc' \in [Handlers -> {"idle", "put", "delete", "issue", "purge"}]
    BY <1>3 DEF IInv, Types, TypeOK
  <2>3. item' \in [Handlers -> Item \cup {None}]
    BY <1>2, <1>3 DEF IInv, Types, TypeOK
  <2> QED
    BY <2>1, <2>2, <2>3, <1>3, <1>4 DEF IInv, Types, TypeOK
<1>6. /\ pc'[h] = "put" /\ item'[h] = new /\ pc[h] = "idle"
      /\ \A k \in Handlers \ {h} : pc'[k] = pc[k] /\ item'[k] = item[k]
  BY <1>3 DEF IInv, Types, TypeOK, Authorize
<1>a. \A k \in Handlers : pc[k] \in Holding => item[k].id \in Ids /\ item[k].grant \in Ids
  BY DEF IInv, Types, HeldOK, Item
<1>b. \A i \in store : i.id \in Ids /\ i.grant \in Ids
  BY DEF IInv, Types, TypeOK, Item
<1>7. HeldOK'
  BY <1>1, <1>2, <1>6, <1>a DEF IInv, Types, HeldOK, Holding, Reading, Ids
<1>8. Generated'
  BY <1>1, <1>4, <1>b DEF IInv, Types, TypeOK, Generated, Ids
<1>9. Origin'
  <2>1. \A i : Traced(i) => Traced(i)'
    BY <1>4, TracedGrows
  <2>2. \A i \in store' : Traced(i)'
    BY <2>1, <1>4 DEF IInv, Origin
  <2>3. ASSUME NEW k \in Handlers, pc'[k] \in Reading PROVE Ready(item[k], claim[k])'
    <3>1. k # h /\ pc[k] \in Reading /\ item'[k] = item[k] /\ claim'[k] = claim[k]
      BY <2>3, <1>4, <1>6 DEF Reading
    <3> QED
      BY <3>1, <1>4, ReadyGrows DEF IInv, Origin
  <2> QED
    BY <2>2, <2>3 DEF Origin
<1>10. OneTime'
  <2>1. \A k \in Handlers : pc[k] \in Holding => item[k].id <= ids
    BY DEF IInv, Types, HeldOK
  <2>2. /\ \A i \in store : i.id # ids + 1
        /\ \A s \in spent : s # ids + 1
        /\ \A k \in Handlers : pc[k] \in Holding => item[k].id # ids + 1
    BY <2>1, <1>a, <1>b, <1>1 DEF IInv, Types, TypeOK, Generated, Ids
  <2> QED
    BY <2>2, <1>2, <1>4, <1>6 DEF IInv, OneTime, Holding, Reading
<1>11. SpentIsGone'
  BY <1>4 DEF IInv, SpentIsGone
<1>12. OneGrant'
  BY <1>4, <1>6 DEF IInv, OneGrant
<1>13. Forks'
  <2> SUFFICES ASSUME NEW g \in Ids
               PROVE  Cardinality(StoredOf(g)') + Cardinality(MakingOf(g)') <= 1 + missed'[g]
    BY DEF Forks
  <2>0. StoredOf(g)' = StoredOf(g) /\ missed'[g] = missed[g]
    BY <1>4 DEF StoredOf
  <2>1. CASE g = ids + 1
    <3>1. StoredOf(g) = {}
      BY <2>1, <1>1, <1>b DEF IInv, Types, Generated, StoredOf, Ids
    <3>2. MakingOf(g)' = {h}
      <4>1. \A k \in Handlers : pc[k] \in Holding => item[k].grant # g
        BY <2>1, <1>1, <1>a DEF IInv, Types, HeldOK, Ids
      <4> QED
        BY <4>1, <2>1, <1>2, <1>6 DEF MakingOf, Holding, Reading
    <3>3. Cardinality(StoredOf(g)') = 0 /\ Cardinality(MakingOf(g)') = 1
      BY <2>0, <3>1, <3>2, FS_EmptySet, FS_Singleton
    <3> QED
      BY <2>0, <3>3, Counted
  <2>2. CASE g # ids + 1
    <3>1. MakingOf(g)' = MakingOf(g)
      BY <2>2, <1>2, <1>6 DEF MakingOf
    <3> QED
      BY <2>0, <3>1 DEF IInv, Forks
  <2> QED
    BY <2>1, <2>2
<1> QED
  BY <1>4, <1>5, <1>7, <1>8, <1>9, <1>10, <1>11, <1>12, <1>13 DEF IInv, Types

\* The table loses the item h holds, or it is already gone and the miss is counted.
LEMMA DeleteKeeps ==
  ASSUME IInv, NEW h \in Handlers, Delete(h)
  PROVE  IInv'
<1> DEFINE i == item[h]
<1>1. /\ pc[h] = "delete" /\ i \in Item /\ i.id \in Ids /\ i.grant \in Ids /\ i.user \in Users
      /\ i.id <= ids /\ i.grant <= ids
  BY DEF IInv, Types, HeldOK, Delete, Holding, Reading, Item
<1>2. /\ store' = {j \in store : j.id # i.id}
      /\ missed' = [missed EXCEPT ![i.grant] = IF IsStored(i) THEN @ ELSE @ + 1]
      /\ pc' = [pc EXCEPT ![h] = "issue"] /\ item' = [item EXCEPT ![h] = i] /\ purge' = purge
      /\ redirectUris' = redirectUris /\ ids' = ids /\ faults' = faults /\ asked' = asked
      /\ named' = named /\ shown' = shown /\ spent' = spent /\ claim' = claim
  BY DEF Delete, Goto, Consumed
<1>3. TypeOK'
  <2>1. store' \subseteq store
    BY <1>2
  <2>2. missed' \in [Ids -> Nat]
    BY <1>1, <1>2 DEF IInv, Types, TypeOK
  <2>3. item' = item
    BY <1>2 DEF IInv, Types, TypeOK
  <2>4. pc' \in [Handlers -> {"idle", "put", "delete", "issue", "purge"}]
    BY <1>2 DEF IInv, Types, TypeOK
  <2> QED
    BY <2>1, <2>2, <2>3, <2>4, <1>2 DEF IInv, Types, TypeOK
<1>4. /\ pc'[h] = "issue" /\ \A k \in Handlers \ {h} : pc'[k] = pc[k]
      /\ \A k \in Handlers : item'[k] = item[k]
  BY <1>2 DEF IInv, Types, TypeOK
<1>5. IsFiniteSet(store')
  BY <1>2, FS_Subset DEF IInv, Types
<1>6. HeldOK'
  BY <1>1, <1>2, <1>4 DEF IInv, Types, HeldOK, Holding, Reading
<1>7. Generated'
  BY <1>2 DEF IInv, Types, Generated
<1>8. Origin'
  <2>1. \A x : Traced(x) => Traced(x)'
    BY <1>2, TracedGrows
  <2>2. \A x \in store' : Traced(x)'
    BY <2>1, <1>2 DEF IInv, Origin
  <2>3. ASSUME NEW k \in Handlers, pc'[k] \in Reading PROVE Ready(item[k], claim[k])'
    <3>1. pc[k] \in Reading /\ item'[k] = item[k] /\ claim'[k] = claim[k]
      BY <2>3, <1>1, <1>2, <1>4 DEF Reading
    <3> QED
      BY <3>1, <1>2, ReadyGrows DEF IInv, Origin
  <2> QED
    BY <2>2, <2>3 DEF Origin
<1>9. OneTime'
  BY <1>1, <1>2, <1>4 DEF IInv, OneTime, Holding, Reading
<1>10. SpentIsGone'
  BY <1>2 DEF IInv, SpentIsGone
<1>11. OneGrant'
  BY <1>2, <1>4 DEF IInv, OneGrant
<1>12. Forks'
  <2> SUFFICES ASSUME NEW g \in Ids
               PROVE  Cardinality(StoredOf(g)') + Cardinality(MakingOf(g)') <= 1 + missed'[g]
    BY DEF Forks
  <2>0. StoredOf(g)' \in SUBSET StoredOf(g)
    BY <1>2 DEF StoredOf
  <2>1. CASE g # i.grant
    <3>1. MakingOf(g)' = MakingOf(g) /\ missed'[g] = missed[g]
      BY <2>1, <1>1, <1>2, <1>4 DEF MakingOf, IInv, Types, TypeOK
    <3>2. /\ Cardinality(StoredOf(g)') <= Cardinality(StoredOf(g))
          /\ Cardinality(StoredOf(g)') \in Nat
      BY <2>0, Counted, FS_Subset, FS_CardinalityType
    <3> QED
      BY <3>1, <3>2, Counted
  <2>2. CASE g = i.grant
    <3>1. MakingOf(g)' = MakingOf(g) \cup {h} /\ h \notin MakingOf(g)
      BY <2>2, <1>1, <1>4 DEF MakingOf
    <3>2. Cardinality(MakingOf(g)') = Cardinality(MakingOf(g)) + 1
      BY <3>1, Counted, FS_AddElement
    <3>3. CASE IsStored(i)
      <4>1. PICK j \in store : j.id = i.id
        BY <3>3 DEF IsStored
      <4>2. j \in StoredOf(g)
        BY <4>1, <2>2, <1>1 DEF IInv, OneGrant, StoredOf
      <4>3. StoredOf(g)' \in SUBSET (StoredOf(g) \ {j})
        BY <4>1, <1>2 DEF StoredOf
      <4>4. /\ IsFiniteSet(StoredOf(g) \ {j})
            /\ Cardinality(StoredOf(g) \ {j}) = Cardinality(StoredOf(g)) - 1
        BY <4>2, Counted, FS_RemoveElement
      <4>5. /\ Cardinality(StoredOf(g)') <= Cardinality(StoredOf(g)) - 1
            /\ Cardinality(StoredOf(g)') \in Nat
        BY <4>3, <4>4, FS_Subset, FS_CardinalityType
      <4>6. missed'[g] = missed[g]
        BY <3>3, <2>2, <1>1, <1>2 DEF IInv, Types, TypeOK
      <4> QED
        BY <4>5, <4>6, <3>2, Counted
    <3>4. CASE ~IsStored(i)
      <4>1. missed'[g] = missed[g] + 1
        BY <3>4, <2>2, <1>1, <1>2 DEF IInv, Types, TypeOK
      <4>2. /\ Cardinality(StoredOf(g)') <= Cardinality(StoredOf(g))
            /\ Cardinality(StoredOf(g)') \in Nat
        BY <2>0, Counted, FS_Subset, FS_CardinalityType
      <4> QED
        BY <4>1, <4>2, <3>2, Counted
    <3> QED
      BY <3>3, <3>4
  <2> QED
    BY <2>1, <2>2
<1> QED
  BY <1>3, <1>5, <1>6, <1>7, <1>8, <1>9, <1>10, <1>11, <1>12 DEF IInv, Types

\* Steps in which handler h, which has nothing more to delete, puts item j and ends: its id is
\* in no other place, and neither is one the step answers for.
Puts(h, j) ==
  /\ pc[h] \in {"put", "issue"}
  /\ j \in Item /\ j.grant = item[h].grant /\ (j.kind = "session" <=> j.user = None)
  /\ ids' \in ids..MaxIds /\ j.id <= ids'
  /\ store' = store \cup {j} /\ End(h)
  /\ \A i \in store : i.id # j.id /\ i.id \notin spent'
  /\ \A k \in Handlers \ {h} : pc[k] \in Holding => item[k].id # j.id
  /\ \A k \in Handlers \ {h} : pc[k] = "put" => item[k].id \notin spent'
  /\ j.id \notin spent' /\ spent' \subseteq spent \cup {item[h].id}
  /\ asked \subseteq asked' /\ asked' \subseteq Item /\ Traced(j)'
  /\ named \subseteq named' /\ named' \in SUBSET (Ids \X Ids \X Users)
  /\ UNCHANGED <<redirectUris, faults, shown, missed>>

LEMMA PutsKeeps ==
  ASSUME IInv, NEW h \in Handlers, NEW j, Puts(h, j)
  PROVE  IInv'
<1>1. /\ pc[h] \in {"put", "issue"} /\ item[h] \in Item /\ item[h].id \in Ids
      /\ item[h].grant \in Ids /\ item[h].id <= ids /\ item[h].grant <= ids
      /\ ids \in Nat /\ ids' \in Nat /\ ids <= ids' /\ ids' \in 0..MaxIds
  BY OAuthAssumption DEF IInv, Types, TypeOK, HeldOK, Puts, Holding, Reading, Item
<1>2. j \in Item /\ j.id \in Ids /\ j.grant \in Ids /\ j.grant = item[h].grant /\ j.id <= ids'
  BY DEF Puts, Item
<1>3. /\ pc' = [pc EXCEPT ![h] = "idle"] /\ item' = [item EXCEPT ![h] = None]
      /\ purge' = [purge EXCEPT ![h] = {}] /\ claim' = [claim EXCEPT ![h] = None]
  BY DEF Puts, End
<1>4. TypeOK'
  <2>1. store' \in SUBSET Item /\ \A i \in store' : (i.kind = "session") <=> (i.user = None)
    BY DEF Puts, IInv, Types, TypeOK
  <2>2. /\ pc' \in [Handlers -> {"idle", "put", "delete", "issue", "purge"}]
        /\ item' \in [Handlers -> Item \cup {None}]
        /\ purge' \in [Handlers -> SUBSET Item]
        /\ claim' \in [Handlers -> Users \cup {None}]
    BY <1>3 DEF IInv, Types, TypeOK
  <2>3. asked' \in SUBSET Item /\ spent' \in SUBSET Ids
    BY <1>1 DEF IInv, Types, TypeOK, Puts
  <2> QED
    BY <2>1, <2>2, <2>3, <1>1 DEF IInv, Types, TypeOK, Puts
<1>5. /\ pc'[h] = "idle"
      /\ \A k \in Handlers \ {h} :
           pc'[k] = pc[k] /\ item'[k] = item[k] /\ claim'[k] = claim[k]
  BY <1>3 DEF IInv, Types, TypeOK
<1>6. IsFiniteSet(store')
  BY FS_AddElement DEF IInv, Types, Puts
<1>a. \A k \in Handlers : pc[k] \in Holding => item[k].id \in Nat /\ item[k].grant \in Nat
  BY DEF IInv, Types, HeldOK, Item, Ids
<1>b. \A i \in store : i.id \in Nat /\ i.grant \in Nat
  BY DEF IInv, Types, TypeOK, Item, Ids
<1>7. HeldOK'
  BY <1>1, <1>5, <1>a DEF IInv, Types, HeldOK, Holding, Reading
<1>8. Generated'
  <2>1. \A i \in store' : i.id <= ids' /\ i.grant <= ids'
    BY <1>1, <1>2, <1>b DEF IInv, Types, Generated, Puts, Ids
  <2>2. \A s \in spent' : s <= ids'
    BY <1>1 DEF IInv, Types, TypeOK, Generated, Puts, Ids
  <2> QED
    BY <2>1, <2>2 DEF Generated
<1>9. Origin'
  <2>1. \A x : Traced(x) => Traced(x)'
    BY TracedGrows DEF Puts
  <2>2. \A x \in store' : Traced(x)'
    BY <2>1 DEF IInv, Origin, Puts
  <2>3. ASSUME NEW k \in Handlers, pc'[k] \in Reading PROVE Ready(item[k], claim[k])'
    <3>1. pc[k] \in Reading /\ item'[k] = item[k] /\ claim'[k] = claim[k]
      BY <2>3, <1>5 DEF Reading
    <3> QED
      BY <3>1, ReadyGrows DEF IInv, Origin, Puts
  <2> QED
    BY <2>2, <2>3 DEF Origin
<1>10. OneTime'
  <2>1. ASSUME NEW k \in Handlers, pc'[k] = "issue", NEW i \in store' PROVE i.id # item'[k].id
    BY <2>1, <1>5 DEF IInv, OneTime, Puts, Holding, Reading
  <2>2. ASSUME NEW k \in Handlers, pc'[k] = "put"
        PROVE  /\ item'[k].id \notin spent'
               /\ \A i \in store' : i.id # item'[k].id
               /\ \A m \in Handlers \ {k} : pc'[m] \in Holding => item'[m].id # item'[k].id
    <3>1. k # h /\ pc[k] = "put" /\ item'[k] = item[k]
      BY <2>2, <1>5
    <3>2. \A i \in store' : i.id # item[k].id
      BY <3>1 DEF IInv, OneTime, Puts, Holding
    <3>3. \A m \in Handlers \ {k} : pc'[m] \in Holding => item'[m].id # item[k].id
      BY <3>1, <1>5 DEF IInv, OneTime, Holding, Reading
    <3> QED
      BY <3>1, <3>2, <3>3 DEF Puts
  <2> QED
    BY <2>1, <2>2 DEF OneTime
<1>11. SpentIsGone'
  BY DEF Puts, SpentIsGone
<1>12. OneGrant'
  BY <1>5 DEF IInv, OneGrant, Puts, Holding, Reading
<1>13. Forks'
  <2> SUFFICES ASSUME NEW g \in Ids
               PROVE  Cardinality(StoredOf(g)') + Cardinality(MakingOf(g)') <= 1 + missed'[g]
    BY DEF Forks
  <2>0. missed'[g] = missed[g]
    BY DEF Puts
  <2>1. CASE g # j.grant
    <3>1. StoredOf(g)' = StoredOf(g) /\ MakingOf(g)' = MakingOf(g)
      BY <2>1, <1>2, <1>5 DEF StoredOf, MakingOf, Puts
    <3> QED
      BY <3>1, <2>0, Counted
  <2>2. CASE g = j.grant
    <3>1. StoredOf(g)' = StoredOf(g) \cup {j} /\ j \notin StoredOf(g)
      BY <2>2 DEF StoredOf, Puts
    <3>2. MakingOf(g)' = MakingOf(g) \ {h} /\ h \in MakingOf(g)
      BY <2>2, <1>1, <1>2, <1>5 DEF MakingOf
    <3>3. Cardinality(StoredOf(g)') = Cardinality(StoredOf(g)) + 1
      BY <3>1, Counted, FS_AddElement
    <3>4. Cardinality(MakingOf(g)') = Cardinality(MakingOf(g)) - 1
      BY <3>2, Counted, FS_RemoveElement
    <3> QED
      BY <3>3, <3>4, <2>0, Counted
  <2> QED
    BY <2>1, <2>2
<1> QED
  BY <1>4, <1>6, <1>7, <1>8, <1>9, <1>10, <1>11, <1>12, <1>13 DEF IInv, Types

-----------------------------------------------------------------------------
\* storeAuthorizeSession puts the session it holds.
LEMMA StoreSessionKeeps ==
  ASSUME IInv, NEW h \in Handlers, StoreSession(h)
  PROVE  IInv'
<1>1. /\ pc[h] = "put" /\ item[h] \in Item /\ item[h].kind = "session" /\ item[h].user = None
      /\ item[h].id <= ids
  BY DEF StoreSession, IInv, Types, HeldOK, Holding
<1>2. /\ store' = store \cup {item[h]} /\ asked' = asked \cup {item[h]} /\ End(h)
      /\ redirectUris' = redirectUris /\ ids' = ids /\ faults' = faults
      /\ named' = named /\ shown' = shown /\ spent' = spent /\ missed' = missed
  BY DEF StoreSession
<1>3. ids' \in ids..MaxIds /\ ids \in Nat
  BY <1>2, OAuthAssumption DEF IInv, Types, TypeOK
<1>4. /\ \A i \in store : i.id # item[h].id /\ i.id \notin spent'
      /\ \A k \in Handlers \ {h} : pc[k] \in Holding => item[k].id # item[h].id
      /\ \A k \in Handlers \ {h} : pc[k] = "put" => item[k].id \notin spent'
      /\ item[h].id \notin spent'
  BY <1>1, <1>2 DEF IInv, OneTime, SpentIsGone
<1>5. ASSUME NEW i \in Item, i \in asked', i.kind = "session", i.user = None PROVE Traced(i)'
  BY <1>5 DEF Traced
<1>6. ASSUME NEW j, j = item[h] PROVE Puts(h, j)
  <2>1. Traced(j)'
    BY <1>1, <1>2, <1>5, <1>6
  <2>2. /\ asked \subseteq asked' /\ asked' \subseteq Item
        /\ named \subseteq named' /\ named' \in SUBSET (Ids \X Ids \X Users)
    BY <1>1, <1>2 DEF IInv, Types, TypeOK
  <2> QED
    BY <2>1, <2>2, <1>1, <1>2, <1>3, <1>4, <1>6 DEF Puts
<1> QED
  BY <1>6, PutsKeeps

\* The code or the token is put under a new id, once the old one is out of the table.
LEMMA IssueKeeps ==
  ASSUME IInv, NEW h \in Handlers, Issue(h)
  PROVE  IInv'
<1> DEFINE old == item[h]
           new == Successor(item[h], ids + 1)
<1>1. /\ pc[h] = "issue" /\ old \in Item /\ old.user \in Users /\ old.id <= ids /\ old.id \in Nat
      /\ ids \in Nat /\ ids + 1 \in Ids /\ ids + 1 \in ids..MaxIds
  <2>1. pc[h] = "issue" /\ old \in Item /\ old.user \in Users /\ old.id <= ids
    BY DEF Issue, IInv, Types, HeldOK, Holding, Reading
  <2>2. old.id \in Nat
    BY <2>1 DEF Item, Ids
  <2>3. ids \in 0..MaxIds /\ ids < MaxIds
    BY DEF Issue, IInv, Types, TypeOK
  <2> QED
    BY <2>1, <2>2, <2>3, OAuthAssumption DEF Ids
<1>2. /\ new \in Item /\ new.id = ids + 1 /\ new.grant = old.grant /\ new.client = old.client
      /\ new.user = old.user /\ new.kind = IF old.kind = "session" THEN "code" ELSE "refresh"
      /\ new.kind # "refresh" => new.challenge = old.challenge
      /\ new.code = IF old.kind = "session" THEN ids + 1 ELSE old.code
  BY <1>1, SuccessorOf
<1>3. /\ store' = store \cup {new} /\ ids' = ids + 1 /\ spent' = spent \cup {old.id} /\ End(h)
      /\ redirectUris' = redirectUris /\ faults' = faults /\ asked' = asked
      /\ named' = IF old.kind = "session" THEN named \cup {<<old.grant, ids + 1, claim[h]>>}
                  ELSE named
      /\ shown' = shown /\ missed' = missed
  BY DEF Issue
<1> HIDE DEF new
<1>4. /\ \A i \in store : i.id <= ids /\ i.id \in Nat
      /\ \A k \in Handlers : pc[k] \in Holding => item[k].id <= ids /\ item[k].id \in Nat
      /\ \A s \in spent : s <= ids /\ s \in Nat
  BY DEF IInv, Types, TypeOK, HeldOK, Generated, Item, Ids
<1>5. /\ \A i \in store : i.id # new.id
      /\ \A k \in Handlers \ {h} : pc[k] \in Holding => item[k].id # new.id
      /\ new.id \notin spent'
  BY <1>1, <1>2, <1>3, <1>4
<1>6. \A i \in store : i.id \notin spent'
  BY <1>1, <1>3 DEF IInv, OneTime, SpentIsGone
<1>7. \A k \in Handlers \ {h} : pc[k] = "put" => item[k].id \notin spent'
  BY <1>1, <1>3 DEF IInv, OneTime, Holding, Reading
<1>8. /\ Ready(old, claim[h]) /\ old.kind \in {"session", "code", "refresh"}
      /\ old.grant \in Ids
  BY <1>1 DEF IInv, Origin, Reading, Item, Kinds
<1>a. <<new.grant, new.code, new.user>> \in named'
  <2>1. CASE old.kind = "session"
    BY <2>1, <1>2, <1>3, <1>8 DEF Ready
  <2>2. CASE old.kind # "session"
    BY <2>2, <1>2, <1>3, <1>8 DEF Ready, Traced
  <2> QED
    BY <2>1, <2>2
<1>b. ASSUME NEW x, x = new PROVE Traced(x)'
  <2>1. PICK a \in asked : /\ a.grant = old.grant /\ a.client = old.client
                           /\ old.kind # "refresh" => a.challenge = old.challenge
                           /\ old.kind = "refresh" => <<old.code, a.challenge>> \in shown
    BY <1>8 DEF Ready, Traced
  <2>2. new.kind = "refresh" => <<new.code, a.challenge>> \in shown
    BY <2>1, <1>2, <1>8 DEF Ready
  <2> QED
    BY <2>1, <2>2, <1>2, <1>3, <1>a, <1>b DEF Traced
<1>c. named \subseteq named' /\ named' \in SUBSET (Ids \X Ids \X Users)
  BY <1>1, <1>3, <1>8 DEF Ready, IInv, Types, TypeOK
<1>9. ASSUME NEW j, j = new PROVE Puts(h, j)
  <2>1. j.kind = "session" <=> j.user = None
    BY <1>1, <1>2, <1>9, OAuthAssumption
  <2>2. Traced(j)'
    BY <1>b, <1>9
  <2>3. asked \subseteq asked' /\ asked' \subseteq Item
    BY <1>3 DEF IInv, Types, TypeOK
  <2> QED
    BY <2>1, <2>2, <2>3, <1>1, <1>2, <1>3, <1>5, <1>6, <1>7, <1>9, <1>c DEF Puts
<1> QED
  BY <1>9, PutsKeeps

\* The requests that read an item of the table.
LEMMA CallbackKeeps ==
  ASSUME IInv, NEW h \in Handlers, NEW i \in store, NEW user \in Users, Callback(h, i, user)
  PROVE  IInv'
<1>1. i \in Item /\ i.kind = "session" /\ i.grant \in Ids /\ pc[h] = "idle"
  BY DEF IInv, Types, TypeOK, Callback, Live, Item
<1>2. /\ pc' = [pc EXCEPT ![h] = "delete"] /\ item' = [item EXCEPT ![h] = ForUser(i, user)]
      /\ claim' = [claim EXCEPT ![h] = user] /\ named' = named /\ purge' = purge
      /\ redirectUris' = redirectUris /\ store' = store /\ ids' = ids /\ faults' = faults
      /\ asked' = asked /\ shown' = shown /\ spent' = spent /\ missed' = missed
  BY DEF Callback, Goto, history
<1>3. ASSUME NEW j, j = ForUser(i, user)
      PROVE  /\ j \in Item /\ j.id = i.id /\ j.grant = i.grant /\ j.client = i.client
             /\ j.user = user /\ j.kind = "session" /\ j.challenge = i.challenge
  BY <1>1, <1>3, ForUserItem
<1>4. TypeOK'
  <2>1. item' \in [Handlers -> Item \cup {None}]
    BY <1>2, <1>3 DEF IInv, Types, TypeOK
  <2>2. pc' \in [Handlers -> {"idle", "put", "delete", "issue", "purge"}]
    BY <1>2 DEF IInv, Types, TypeOK
  <2>3. claim' \in [Handlers -> Users \cup {None}]
    BY <1>2 DEF IInv, Types, TypeOK
  <2> QED
    BY <2>1, <2>2, <2>3, <1>2 DEF IInv, Types, TypeOK
<1>5. ASSUME NEW j, j = ForUser(i, user) PROVE Reads(h, i, j)
  <2>1. PICK a \in asked : a.grant = i.grant /\ a.client = i.client /\ a.challenge = i.challenge
    BY <1>1 DEF IInv, Origin, Traced
  <2>2. claim'[h] = user /\ \A k \in Handlers \ {h} : claim'[k] = claim[k]
    BY <1>2 DEF IInv, Types, TypeOK
  <2>3. Traced(j)'
    BY <2>1, <1>2, <1>3, <1>5 DEF Traced
  <2> QED
    BY <2>2, <2>3, <1>1, <1>2, <1>3, <1>5 DEF Reads
<1> QED
  BY <1>4, <1>5, ReadsKeeps

LEMMA ExchangeCodeKeeps ==
  ASSUME IInv, NEW h \in Handlers, NEW i \in store, NEW u \in Uris, NEW ch \in Challenges,
         ExchangeCode(h, i, u, ch)
  PROVE  IInv'
<1>1. /\ i \in Item /\ i.kind = "code" /\ i.user \in Users /\ i.code \in 0..MaxIds
      /\ i.challenge = ch /\ pc[h] = "idle"
  BY DEF IInv, Types, TypeOK, ExchangeCode, Live, Item, Verified
<1>2. /\ pc' = [pc EXCEPT ![h] = "delete"] /\ item' = [item EXCEPT ![h] = i]
      /\ shown' = shown \cup {<<i.code, ch>>} /\ purge' = purge /\ claim' = claim
      /\ redirectUris' = redirectUris /\ store' = store /\ ids' = ids /\ faults' = faults
      /\ asked' = asked /\ named' = named /\ spent' = spent /\ missed' = missed
  BY DEF ExchangeCode, Goto
<1>3. TypeOK'
  <2>1. item' \in [Handlers -> Item \cup {None}]
    BY <1>1, <1>2 DEF IInv, Types, TypeOK
  <2>2. pc' \in [Handlers -> {"idle", "put", "delete", "issue", "purge"}]
    BY <1>2 DEF IInv, Types, TypeOK
  <2>3. shown' \in SUBSET ((0..MaxIds) \X Challenges)
    BY <1>1, <1>2 DEF IInv, Types, TypeOK
  <2> QED
    BY <2>1, <2>2, <2>3, <1>2 DEF IInv, Types, TypeOK
<1>4. Reads(h, i, i)
  <2>1. Traced(i)'
    BY <1>2, TracedGrows DEF IInv, Origin
  <2>2. <<i.code, i.challenge>> \in shown'
    BY <1>1, <1>2
  <2> QED
    BY <2>1, <2>2, <1>1, <1>2 DEF Reads
<1> QED
  BY <1>3, <1>4, ReadsKeeps

LEMMA ExchangeRefreshTokenKeeps ==
  ASSUME IInv, NEW h \in Handlers, NEW i \in store, ExchangeRefreshToken(h, i)
  PROVE  IInv'
<1>1. i \in Item /\ i.kind = "refresh" /\ i.user \in Users /\ pc[h] = "idle"
  BY DEF IInv, Types, TypeOK, ExchangeRefreshToken, Live, Item
<1>2. /\ pc' = [pc EXCEPT ![h] = "delete"] /\ item' = [item EXCEPT ![h] = i] /\ purge' = purge
      /\ redirectUris' = redirectUris /\ store' = store /\ ids' = ids /\ faults' = faults
      /\ asked' = asked /\ named' = named /\ shown' = shown /\ spent' = spent
      /\ missed' = missed /\ claim' = claim
  BY DEF ExchangeRefreshToken, Goto, history
<1>3. TypeOK'
  <2>1. item' \in [Handlers -> Item \cup {None}]
    BY <1>1, <1>2 DEF IInv, Types, TypeOK
  <2>2. pc' \in [Handlers -> {"idle", "put", "delete", "issue", "purge"}]
    BY <1>2 DEF IInv, Types, TypeOK
  <2> QED
    BY <2>1, <2>2, <1>2 DEF IInv, Types, TypeOK
<1>4. Reads(h, i, i)
  <2>1. Traced(i)'
    BY <1>2, TracedGrows DEF IInv, Origin
  <2> QED
    BY <2>1, <1>1, <1>2 DEF Reads
<1> QED
  BY <1>3, <1>4, ReadsKeeps

\* The steps that only remove: revocation, expiry, failure, and the registry of clients.
LEMMA RemovalKeeps ==
  ASSUME IInv,
         \/ \E c \in Clients : \E uris \in SUBSET Uris : HandleRegister(c, uris)
         \/ \E c \in Clients : ClientExpires(c)
         \/ \E i \in store : Revoke(i) \/ Expire(i)
         \/ \E h \in Handlers : PurgeOne(h) \/ Fail(h)
         \/ \E h \in Handlers : \E user \in Users : RevokeAccessToken(h, user)
         \/ UNCHANGED vars
  PROVE  IInv'
<1> USE DEF handlers, history
<1>0. TypeOK /\ \A i \in store : i \in Item /\ i.id \in Ids
  BY DEF IInv, Types, TypeOK, Item
<1>1. ASSUME NEW c \in Clients, NEW uris \in SUBSET Uris, HandleRegister(c, uris) PROVE IInv'
  <2>1. TypeOK'
    BY <1>0, <1>1 DEF HandleRegister, TypeOK
  <2>2. Releases
    BY <1>1 DEF HandleRegister, Releases, IInv, SpentIsGone
  <2> QED
    BY <2>1, <2>2, ReleasesKeeps
<1>2. ASSUME NEW c \in Clients, ClientExpires(c) PROVE IInv'
  <2>1. TypeOK'
    BY <1>0, <1>2 DEF ClientExpires, TypeOK
  <2>2. Releases
    BY <1>2 DEF ClientExpires, Releases, IInv, SpentIsGone
  <2> QED
    BY <2>1, <2>2, ReleasesKeeps
<1>3. ASSUME NEW i \in store, Revoke(i) PROVE IInv'
  <2>1. /\ store' \subseteq store /\ faults' \in 0..MaxFaults
        /\ redirectUris' = redirectUris /\ ids' = ids /\ pc' = pc /\ item' = item
        /\ purge' = purge /\ claim' = claim /\ asked' = asked /\ named' = named
        /\ shown' = shown /\ missed' = missed
    BY <1>0, <1>3, OAuthAssumption DEF Revoke, Consumed, TypeOK
  <2>2. \/ spent' = spent
        \/ spent' = spent \cup {i.id} /\ \A j \in store' : j.id # i.id
    BY <1>3 DEF Revoke, Consumed
  <2>3. spent' \in SUBSET Ids
    BY <2>2, <1>0 DEF TypeOK
  <2>4. TypeOK'
    BY <2>1, <2>3, <1>0 DEF TypeOK
  <2>5. Releases
    BY <2>1, <2>2 DEF Releases, IInv, SpentIsGone
  <2> QED
    BY <2>4, <2>5, ReleasesKeeps
<1>4. ASSUME NEW i \in store, Expire(i) PROVE IInv'
  <2>1. TypeOK'
    BY <1>0, <1>4 DEF Expire, TypeOK
  <2>2. Releases
    BY <1>4 DEF Expire, Releases, IInv, SpentIsGone
  <2> QED
    BY <2>1, <2>2, ReleasesKeeps
<1>5. ASSUME NEW h \in Handlers, PurgeOne(h) PROVE IInv'
  <2>1. PICK i \in purge[h] :
          /\ store' \in {store \ {i}, store}
          /\ IF purge[h] = {i} THEN End(h)
             ELSE purge' = [purge EXCEPT ![h] = @ \ {i}] /\ UNCHANGED <<pc, item, claim>>
    BY <1>5 DEF PurgeOne
  <2>2. /\ store' \subseteq store /\ redirectUris' = redirectUris /\ ids' = ids
        /\ faults' = faults /\ asked' = asked /\ named' = named /\ shown' = shown
        /\ spent' = spent /\ missed' = missed
    BY <1>5, <2>1 DEF PurgeOne
  <2>3. /\ pc' \in [Handlers -> {"idle", "put", "delete", "issue", "purge"}]
        /\ item' \in [Handlers -> Item \cup {None}]
        /\ purge' \in [Handlers -> SUBSET Item]
        /\ claim' \in [Handlers -> Users \cup {None}]
        /\ \A k \in Handlers :
             pc'[k] \in Holding => pc'[k] = pc[k] /\ item'[k] = item[k] /\ claim'[k] = claim[k]
    <3>1. CASE purge[h] = {i}
      BY <3>1, <2>1, <1>0 DEF End, TypeOK, Holding, Reading
    <3>2. CASE purge[h] # {i}
      BY <3>2, <2>1, <1>0 DEF TypeOK
    <3> QED
      BY <3>1, <3>2
  <2>4. TypeOK'
    BY <2>2, <2>3, <1>0 DEF TypeOK
  <2>5. Releases
    BY <2>2, <2>3 DEF Releases, IInv, SpentIsGone
  <2> QED
    BY <2>4, <2>5, ReleasesKeeps
<1>6. ASSUME NEW h \in Handlers, Fail(h) PROVE IInv'
  <2>1. faults' \in 0..MaxFaults
    BY <1>0, <1>6, OAuthAssumption DEF Fail, TypeOK
  <2>2. /\ pc' \in [Handlers -> {"idle", "put", "delete", "issue", "purge"}]
        /\ item' \in [Handlers -> Item \cup {None}]
        /\ purge' \in [Handlers -> SUBSET Item]
        /\ claim' \in [Handlers -> Users \cup {None}]
        /\ \A k \in Handlers :
             pc'[k] \in Holding => pc'[k] = pc[k] /\ item'[k] = item[k] /\ claim'[k] = claim[k]
    BY <1>0, <1>6 DEF Fail, End, TypeOK, Holding, Reading
  <2>3. TypeOK'
    BY <2>1, <2>2, <1>0, <1>6 DEF Fail, TypeOK
  <2>4. Releases
    BY <2>2, <1>6 DEF Fail, Releases, IInv, SpentIsGone
  <2> QED
    BY <2>3, <2>4, ReleasesKeeps
<1>7. ASSUME NEW h \in Handlers, NEW user \in Users, RevokeAccessToken(h, user) PROVE IInv'
  <2>1. faults' \in 0..MaxFaults
    BY <1>0, <1>7, OAuthAssumption DEF RevokeAccessToken, TypeOK
  <2>2. PICK page \in SUBSET store :
          purge' = [purge EXCEPT ![h] = {i \in page \cap Live("refresh") : i.user = user}]
    BY <1>7 DEF RevokeAccessToken
  <2>3. purge' \in [Handlers -> SUBSET Item]
    BY <2>2, <1>0 DEF TypeOK
  <2>4. /\ pc' \in [Handlers -> {"idle", "put", "delete", "issue", "purge"}]
        /\ claim' \in [Handlers -> Users \cup {None}]
        /\ \A k \in Handlers :
             pc'[k] \in Holding => pc'[k] = pc[k] /\ item'[k] = item[k] /\ claim'[k] = claim[k]
    BY <1>0, <1>7 DEF RevokeAccessToken, TypeOK, Holding, Reading
  <2>5. TypeOK'
    BY <2>1, <2>3, <2>4, <1>0, <1>7 DEF RevokeAccessToken, TypeOK
  <2>6. Releases
    BY <2>4, <1>7 DEF RevokeAccessToken, Releases, IInv, SpentIsGone
  <2> QED
    BY <2>5, <2>6, ReleasesKeeps
<1>8. CASE UNCHANGED vars
  <2>1. TypeOK'
    BY <1>0, <1>8 DEF vars, TypeOK
  <2>2. Releases
    BY <1>8 DEF vars, Releases, IInv, SpentIsGone
  <2> QED
    BY <2>1, <2>2, ReleasesKeeps
<1> QED
  BY <1>1, <1>2, <1>3, <1>4, <1>5, <1>6, <1>7, <1>8

LEMMA InitHolds == Init => IInv
<1> SUFFICES ASSUME Init PROVE IInv
  OBVIOUS
<1>1. TypeOK
  BY OAuthAssumption DEF Init, TypeOK
<1>2. IsFiniteSet(store) /\ HeldOK /\ Generated
  BY FS_EmptySet DEF Init, HeldOK, Generated, Holding, Reading
<1>3. Origin /\ OneTime /\ SpentIsGone /\ OneGrant
  BY DEF Init, Origin, OneTime, SpentIsGone, OneGrant, Reading
<1>4. \A g \in Ids : StoredOf(g) = {} /\ MakingOf(g) = {} /\ missed[g] = 0
  BY DEF Init, StoredOf, MakingOf
<1>5. Forks
  BY <1>4, FS_EmptySet DEF Forks
<1> QED
  BY <1>1, <1>2, <1>3, <1>5 DEF IInv, Types

\* What the handlers hold and what the table holds stay consistent, whatever the interleaving.
THEOREM Inductive == Spec => []IInv
<1>1. IInv /\ [Next]_vars => IInv'
  <2> SUFFICES ASSUME IInv, [Next]_vars PROVE IInv'
    OBVIOUS
  <2>1. ASSUME NEW h \in Handlers, Request(h) PROVE IInv'
    <3>1. ASSUME NEW c \in Clients, NEW u \in redirectUris[c], NEW ch \in Challenges,
                 Authorize(h, c, u, ch)
          PROVE  IInv'
      <4>1. u \in Uris
        BY DEF IInv, Types, TypeOK
      <4> QED
        BY <3>1, <4>1, AuthorizeKeeps
    <3> QED
      BY <2>1, <3>1, CallbackKeeps, ExchangeCodeKeeps, ExchangeRefreshTokenKeeps, RemovalKeeps
      DEF Request
  <2>2. ASSUME NEW h \in Handlers, Delete(h) \/ Issue(h) \/ StoreSession(h) PROVE IInv'
    BY <2>2, DeleteKeeps, IssueKeeps, StoreSessionKeeps
  <2> QED
    BY <2>1, <2>2, RemovalKeeps DEF Next
<1> QED
  BY <1>1, InitHolds, PTL DEF Spec

\* The table and the handlers keep their types: a session has no user, a code and a token do.
THEOREM TypeCorrect == Spec => []TypeOK
BY Inductive, PTL DEF IInv, Types

\* token.ts 57-85, authorize.ts 82-107: a refresh token in the table traces back to an
\* authorize request of its client, to the callback of its code, which named its user, and to
\* an exchange that showed that request's verifier with that code.
THEOREM TokensAreTraced == Spec => []Provenance
<1>1. IInv => Provenance
  <2> SUFFICES ASSUME IInv, NEW i \in Live("refresh")
               PROVE  \E a \in asked : /\ a.grant = i.grant /\ a.client = i.client
                                       /\ <<i.grant, i.code, i.user>> \in named
                                       /\ <<i.code, a.challenge>> \in shown
    BY DEF Provenance
  <2>1. i \in store /\ i.kind = "refresh"
    BY DEF Live
  <2> QED
    BY <2>1 DEF IInv, Origin, Traced
<1> QED
  BY <1>1, Inductive, PTL

\* authorize.ts 92, token.ts 73 and 109: what an answered exchange used, or a revocation
\* deleted, never comes back.
THEOREM OneTimeUse == Spec => []SpentIsGone
BY Inductive, PTL DEF IInv

\* token.ts 52-74: an authorize request has more than one live item only after as many
\* deletes found theirs gone.
THEOREM OverlapIsTheOnlyFork == Spec => []ForksNeedOverlap
<1>1. IInv => ForksNeedOverlap
  <2> SUFFICES ASSUME IInv, NEW g \in Ids PROVE Cardinality(StoredOf(g)) <= 1 + missed[g]
    BY DEF ForksNeedOverlap, StoredOf
  <2> QED
    BY Counted
<1> QED
  BY <1>1, Inductive, PTL
=============================================================================
