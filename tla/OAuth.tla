------------------------------- MODULE OAuth -------------------------------
(***************************************************************************)
(* The OAuth authorization server of the MCP router                        *)
(* (packages/mcp-server/src/router/oauth and the routes of handler.ts):    *)
(* dynamic registration, authorize, the callback of the login page, the    *)
(* exchange of a code or of a refresh token, and revocation.               *)
(*                                                                         *)
(* Handlers are Lambda invocations that run concurrently against one       *)
(* DynamoDB table.  Each get, put and delete is one step; there are no     *)
(* conditional writes and no transactions.  A handler may fail at any of   *)
(* its calls.  Ids are random in the code and fresh numbers here.  Items   *)
(* expire at an arbitrary time: the table removes them lazily and the      *)
(* code does not look at their ttl.                                        *)
(***************************************************************************)
EXTENDS Naturals, FiniteSets

CONSTANTS
  Handlers,    \* concurrent invocations
  Users, Clients, Uris,
  Challenges,  \* a code verifier is named by its S256 challenge
  ScanLimit,   \* Limit of the revocation's table scan
  MaxIds,      \* bound: session ids, codes and refresh tokens generated
  MaxFaults,   \* bound: failing calls
  None

ASSUME OAuthAssumption ==
  /\ IsFiniteSet(Handlers)
  /\ ScanLimit \in Nat /\ MaxIds \in Nat /\ MaxFaults \in Nat
  /\ None \notin Users \cup Uris \cup Challenges

VARIABLES
  redirectUris,  \* redirectUris[c]: CLIENT# items, {} when c is not registered
  store,         \* AUTHSESSION#, CODE# and REFRESH# items
  ids,           \* ids generated so far
  pc,            \* pc[h]: the call handler h is at
  item,          \* item[h]: the item h has read, or is about to put
  purge,         \* purge[h]: the refresh tokens a revocation has still to delete
  claim,         \* history: claim[h], the user_id of the callback h serves
  faults,
  asked,         \* history: the authorize sessions ever stored
  named,         \* history: <<grant, code, user>> for every callback answered with a code
  shown,         \* history: <<code, challenge of the verifier shown with it>>
  spent,         \* history: ids used in an answered exchange or deleted by a revocation
  missed         \* history: missed[g], deletes of an item of grant g that was gone

handlers == <<pc, item, purge, claim>>
history == <<asked, named, shown, spent, missed>>
vars == <<redirectUris, store, ids, handlers, faults, history>>

Ids == 1..MaxIds
Kinds == {"session", "code", "refresh"}

\* grant and code are not in the code's items: the authorize session and the
\* authorization code that everything came from.
Item == [kind: Kinds, id: Ids, grant: Ids, code: 0..MaxIds, client: Clients,
         uri: Uris \cup {None}, challenge: Challenges \cup {None}, user: Users \cup {None}]

Init ==
  /\ redirectUris = [c \in Clients |-> {}]
  /\ store = {} /\ ids = 0
  /\ pc = [h \in Handlers |-> "idle"]
  /\ item = [h \in Handlers |-> None]
  /\ purge = [h \in Handlers |-> {}]
  /\ claim = [h \in Handlers |-> None]
  /\ faults = 0
  /\ asked = {} /\ named = {} /\ shown = {} /\ spent = {}
  /\ missed = [g \in Ids |-> 0]

Live(kind) == {i \in store : i.kind = kind}

Goto(h, l, i) ==
  /\ pc' = [pc EXCEPT ![h] = l]
  /\ item' = [item EXCEPT ![h] = i]
  /\ UNCHANGED purge

End(h) ==
  /\ pc' = [pc EXCEPT ![h] = "idle"]
  /\ item' = [item EXCEPT ![h] = None]
  /\ purge' = [purge EXCEPT ![h] = {}]
  /\ claim' = [claim EXCEPT ![h] = None]

-----------------------------------------------------------------------------
(* The requests, up to what they have read.  One that is refused changes    *)
(* nothing and is left out.                                                 *)

\* handleRegister: one put under a new client id.
HandleRegister(c, uris) ==
  /\ redirectUris[c] = {} /\ uris # {}
  /\ redirectUris' = [redirectUris EXCEPT ![c] = uris]
  /\ UNCHANGED <<store, ids, handlers, faults, history>>

\* validateAuthorizeRequest: the redirect URI is one the client registered.
Authorize(h, c, u, ch) ==
  /\ pc[h] = "idle" /\ ids < MaxIds
  /\ u \in redirectUris[c]
  /\ ids' = ids + 1
  /\ Goto(h, "put", [kind |-> "session", id |-> ids + 1, grant |-> ids + 1, code |-> 0,
                     client |-> c, uri |-> u, challenge |-> ch, user |-> None])
  /\ UNCHANGED <<redirectUris, store, faults, claim, history>>

\* Mutant of ForUser: the code is stored without its user.
ForUserNot(i, user) == i

ForUser(i, user) == [i EXCEPT !.user = user]

\* issueAuthCode reads the session.  The user is the user_id of the query string:
\* the login page puts it there, and nothing checks that it did.
Callback(h, i, user) ==
  /\ pc[h] = "idle" /\ i \in Live("session")
  /\ Goto(h, "delete", ForUser(i, user))
  /\ claim' = [claim EXCEPT ![h] = user]
  /\ UNCHANGED <<redirectUris, store, ids, faults, history>>

\* Mutant of Verified: PKCE is not verified.
VerifiedUriOnly(i, u, ch) == i.uri = u

\* verifyCodeChallenge, and the redirect URI of the authorize request.
Verified(i, u, ch) == i.uri = u /\ i.challenge = ch

\* handleAuthCodeExchange reads the code and verifies the request against it.
ExchangeCode(h, i, u, ch) ==
  /\ pc[h] = "idle" /\ i \in Live("code")
  /\ Verified(i, u, ch)
  /\ Goto(h, "delete", i)
  /\ shown' = shown \cup {<<i.code, ch>>}
  /\ UNCHANGED <<redirectUris, store, ids, faults, claim, asked, named, spent, missed>>

\* handleRefreshTokenExchange reads the token.
ExchangeRefreshToken(h, i) ==
  /\ pc[h] = "idle" /\ i \in Live("refresh")
  /\ Goto(h, "delete", i)
  /\ UNCHANGED <<redirectUris, store, ids, faults, claim, history>>

\* Mutant of Consumed: the used item is left in the table.
ConsumedNot(i) == store

\* The one-time item goes.  A delete by key: user is not part of it.
Consumed(i) == {j \in store : j.id # i.id}

IsStored(i) == \E j \in store : j.id = i.id

\* POST /revoke with a refresh token: one delete.  For a token that is not in the table,
\* and for an access token, the delete succeeds too and nothing changes.  A delete that
\* throws, having taken effect or not, is swallowed and answered 200 like the others.
Revoke(i) ==
  /\ i \in Live("refresh")
  /\ \/ store' = Consumed(i) /\ spent' = spent \cup {i.id} /\ UNCHANGED faults
     \/ /\ faults < MaxFaults /\ faults' = faults + 1
        /\ store' \in {store, Consumed(i)}
        /\ UNCHANGED spent
  /\ UNCHANGED <<redirectUris, ids, handlers, asked, named, shown, missed>>

\* The delete throws and the token is an access token: its user's refresh tokens that the
\* first page of the table scan holds are to be deleted.
RevokeAccessToken(h, user) ==
  /\ pc[h] = "idle" /\ faults < MaxFaults
  /\ faults' = faults + 1
  /\ \E page \in SUBSET store :
       /\ Cardinality(page) <= ScanLimit
       /\ purge' = [purge EXCEPT ![h] = {i \in page \cap Live("refresh") : i.user = user}]
  /\ purge'[h] # {}
  /\ pc' = [pc EXCEPT ![h] = "purge"]
  /\ UNCHANGED <<item, claim, redirectUris, store, ids, history>>

-----------------------------------------------------------------------------
(* Their writes.                                                            *)

\* What is put once the item is consumed: the session gives a code, the code and the
\* refresh token a refresh token, which keeps only the user and the client.
Successor(i, id) ==
  IF i.kind = "session" THEN [i EXCEPT !.kind = "code", !.id = id, !.code = id]
  ELSE [i EXCEPT !.kind = "refresh", !.id = id, !.uri = None, !.challenge = None]

Delete(h) ==
  /\ pc[h] = "delete"
  /\ store' = Consumed(item[h])
  /\ missed' = [missed EXCEPT ![item[h].grant] = IF IsStored(item[h]) THEN @ ELSE @ + 1]
  /\ Goto(h, "issue", item[h])
  /\ UNCHANGED <<redirectUris, ids, faults, claim, asked, named, shown, spent>>

\* The code or token is generated, put, and answered with; the old one is spent.
Issue(h) ==
  /\ pc[h] = "issue" /\ ids < MaxIds
  /\ ids' = ids + 1
  /\ store' = store \cup {Successor(item[h], ids + 1)}
  /\ spent' = spent \cup {item[h].id}
  /\ named' = IF item[h].kind = "session"
              THEN named \cup {<<item[h].grant, ids + 1, claim[h]>>} ELSE named
  /\ End(h)
  /\ UNCHANGED <<redirectUris, faults, asked, shown, missed>>

\* storeAuthorizeSession.
StoreSession(h) ==
  /\ pc[h] = "put"
  /\ store' = store \cup {item[h]}
  /\ asked' = asked \cup {item[h]}
  /\ End(h)
  /\ UNCHANGED <<redirectUris, ids, faults, named, shown, spent, missed>>

\* One of the page's tokens is deleted; a delete that throws is skipped.
PurgeOne(h) ==
  /\ pc[h] = "purge"
  /\ \E i \in purge[h] :
       /\ store' \in {store \ {i}, store}
       /\ IF purge[h] = {i} THEN End(h)
          ELSE purge' = [purge EXCEPT ![h] = @ \ {i}] /\ UNCHANGED <<pc, item, claim>>
  /\ UNCHANGED <<redirectUris, ids, faults, history>>

-----------------------------------------------------------------------------
\* A call throws, or the invocation is cut off: the answer is an error.
Fail(h) ==
  /\ pc[h] # "idle" /\ faults < MaxFaults
  /\ faults' = faults + 1
  /\ End(h)
  /\ UNCHANGED <<redirectUris, store, ids, history>>

Expire(i) ==
  /\ i \in store
  /\ store' = store \ {i}
  /\ UNCHANGED <<redirectUris, ids, handlers, faults, history>>

ClientExpires(c) ==
  /\ redirectUris[c] # {}
  /\ redirectUris' = [redirectUris EXCEPT ![c] = {}]
  /\ UNCHANGED <<store, ids, handlers, faults, history>>

Request(h) ==
  \/ \E c \in Clients : \E u \in redirectUris[c] : \E ch \in Challenges : Authorize(h, c, u, ch)
  \/ \E i \in store : \E user \in Users : Callback(h, i, user)
  \/ \E i \in store : \E u \in Uris : \E ch \in Challenges : ExchangeCode(h, i, u, ch)
  \/ \E i \in store : ExchangeRefreshToken(h, i)
  \/ \E user \in Users : RevokeAccessToken(h, user)

Next ==
  \/ \E c \in Clients : \E uris \in SUBSET Uris : HandleRegister(c, uris)
  \/ \E c \in Clients : ClientExpires(c)
  \/ \E i \in store : Revoke(i) \/ Expire(i)
  \/ \E h \in Handlers :
       Request(h) \/ Delete(h) \/ Issue(h) \/ StoreSession(h) \/ PurgeOne(h) \/ Fail(h)

Spec == Init /\ [][Next]_vars

-----------------------------------------------------------------------------
(* Type correctness: a session has no user yet, a code and a token have.   *)
TypeOK ==
  /\ redirectUris \in [Clients -> SUBSET Uris]
  /\ store \in SUBSET Item /\ asked \in SUBSET Item
  /\ \A i \in store : (i.kind = "session") <=> (i.user = None)
  /\ ids \in 0..MaxIds
  /\ pc \in [Handlers -> {"idle", "put", "delete", "issue", "purge"}]
  /\ item \in [Handlers -> Item \cup {None}]
  /\ purge \in [Handlers -> SUBSET Item]
  /\ faults \in 0..MaxFaults
  /\ claim \in [Handlers -> Users \cup {None}]
  /\ named \in SUBSET (Ids \X Ids \X Users)
  /\ shown \in SUBSET ((0..MaxIds) \X Challenges)
  /\ spent \in SUBSET Ids
  /\ missed \in [Ids -> Nat]

(***************************************************************************)
(* token.ts 57-85, authorize.ts 82-107: whatever is replayed, raced or cut *)
(* off, also two callbacks of one session that name different users, a     *)
(* refresh token belongs to the client of its authorize request and to the *)
(* user whom the callback of its own code named, and it was obtained by    *)
(* someone who had that request's verifier.  Whether that user has logged  *)
(* in is the login page's matter: the callback takes anybody's word.       *)
(***************************************************************************)
Provenance ==
  \A i \in Live("refresh") : \E a \in asked :
    /\ a.grant = i.grant /\ a.client = i.client
    /\ <<i.grant, i.code, i.user>> \in named
    /\ <<i.code, a.challenge>> \in shown

(***************************************************************************)
(* authorize.ts 92, token.ts 73 and 109 ("one-time use"): once an exchange *)
(* has been answered, or the delete of a revocation has succeeded, the     *)
(* session, code or token it used is not in the table and never comes      *)
(* back, so no later request finds it.  It holds because the delete comes  *)
(* before the put and the answer.  A revocation whose delete throws        *)
(* promises nothing, although it is answered like the others.              *)
(***************************************************************************)
SpentIsGone == \A i \in store : i.id \notin spent

(***************************************************************************)
(* token.ts 52-74: get and delete are two calls, so two exchanges of the   *)
(* same code may both succeed and one authorization has two lines of       *)
(* refresh tokens.  That is the only way: what is live of one authorize    *)
(* request is one item, and one more for every delete that came too late.  *)
(***************************************************************************)
ForksNeedOverlap ==
  \A g \in Ids : Cardinality({i \in store : i.grant = g}) <= 1 + missed[g]
=============================================================================
