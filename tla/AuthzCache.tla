------------------------------ MODULE AuthzCache ------------------------------
(***************************************************************************)
(* packages/authz: relationship tuples and one-hop memberships in the main *)
(* database, the version row that every successful mutation advances, and  *)
(* the decision cache each process keeps, invalidated by that version.     *)
(*                                                                         *)
(* A mutation is one statement with RETURNING; the version is advanced by  *)
(* a second statement, and only when a row changed.  A check awaits the    *)
(* version, looks into the cache without awaiting, and on a miss awaits    *)
(* the query before it stores the decision.  Checks of one process and     *)
(* mutations of others interleave at every await.                          *)
(*                                                                         *)
(* The relation (kit:use, kit:act ...) is part of an object here.  The TTL *)
(* is an entry that may disappear at any moment.                           *)
(***************************************************************************)
EXTENDS Naturals, Sequences

CONSTANTS
  Users, Services, Teams,   \* the subjects of tuples
  Objects,                  \* <<relation, objectType, objectId>>
  Mappings,                 \* provider claims mapped to subjects
  Procs,                    \* processes, each with one VersionedGrantCache
  Checks,                   \* authorizations that may be in flight at once
  Writers,                  \* callers of the lifecycle functions
  MaxVersion                \* bound: mutations stop at this version

ASSUME SubjectsDisjoint ==
  /\ Users \cap Services = {}
  /\ Users \cap Teams = {}
  /\ Services \cap Teams = {}

ASSUME MaxVersionAssumption == MaxVersion \in Nat

VARIABLES
  tuples,    \* authz_tuples, as <<subject, object>>
  members,   \* authz_memberships, as <<member, team>>
  mappings,  \* authz_identity_mappings
  version,   \* the version row
  wpc,       \* wpc[w]: where the mutation of w stands
  cacheVer,  \* cacheVer[p]: version of p's CacheState
  decided,   \* decided[p]: its decisions, as <<key, allowed>>
  pc,        \* pc[c]: where the authorization c stands
  proc,      \* proc[c]: the process it runs in
  reqs,      \* reqs[c]: the requirements it checks, in order
  at,        \* at[c]: the one it is at
  ver,       \* ver[c]: the version it read
  live,      \* live[c]: the state object it captured is still the process's
  answer,    \* answer[c]: the last decision
  held,      \* history: held[k], every decision of k since the last bump
  seen,      \* history: seen[c], held when c read the version, and later ones
  proven     \* history: proven[c], requirements whose grant c may have seen

dbVars == <<tuples, members, mappings, version, wpc>>
cacheVars == <<cacheVer, decided>>
checkVars == <<pc, proc, reqs, at, ver, live, answer>>
history == <<held, seen, proven>>
vars == <<dbVars, cacheVars, checkVars, history>>

Members == Users \cup Services
Subjects == Members \cup Teams
Key == Members \X Objects

(***************************************************************************)
(* queryDecision: a direct tuple, or for a user a tuple of a team or role  *)
(* the user belongs to.  A service's memberships do not count.             *)
(***************************************************************************)
Decision(T, M, k) ==
  \/ k \in T
  \/ /\ k[1] \in Users
     /\ \E t \in Teams : <<k[1], t>> \in M /\ <<t, k[2]>> \in T

Allowed(k) == Decision(tuples, members, k)

\* The requirement lists callers pass: one tuple, or for a delegated call
\* the user's and then the acting service's grant of the same object.
Requests ==
  {<<k>> : k \in Key}
    \cup {<< <<u, o>>, <<s, o>> >> : u \in Users, s \in Services, o \in Objects}

InFlight == {"cache", "query", "store"}

Cur(c) == reqs[c][at[c]]

Init ==
  /\ tuples = {} /\ members = {} /\ mappings = {}
  /\ version = 0
  /\ wpc = [w \in Writers |-> "idle"]
  /\ cacheVer = [p \in Procs |-> 0]   \* no state yet: as one of version 0, empty
  /\ decided = [p \in Procs |-> {}]
  /\ pc = [c \in Checks |-> "idle"]
  /\ proc \in [Checks -> Procs]
  /\ reqs = [c \in Checks |-> <<>>]
  /\ at = [c \in Checks |-> 1]
  /\ ver = [c \in Checks |-> 0]
  /\ live = [c \in Checks |-> FALSE]
  /\ answer = [c \in Checks |-> FALSE]
  /\ held = [k \in Key |-> {FALSE}]
  /\ seen = [c \in Checks |-> {}]
  /\ proven = [c \in Checks |-> {}]

-----------------------------------------------------------------------------
(* The lifecycle functions.                                                *)

\* The statement runs; if it changed a row the version is still to advance.
Mutate(w, T, M, I) ==
  /\ wpc[w] = "idle"
  /\ version < MaxVersion
  /\ tuples' = T /\ members' = M /\ mappings' = I
  /\ wpc' = [wpc EXCEPT ![w] =
               IF <<T, M, I>> = <<tuples, members, mappings>> THEN "idle" ELSE "bump"]
  /\ held' = [k \in Key |-> held[k] \cup {Decision(T, M, k)}]
  /\ seen' = [c \in Checks |->
               IF pc[c] \in InFlight
               THEN seen[c] \cup {Decision(T, M, Cur(c))} ELSE seen[c]]
  /\ UNCHANGED <<version, cacheVars, checkVars, proven>>

GrantRelation(w, s, o) == Mutate(w, tuples \cup {<<s, o>>}, members, mappings)

RevokeRelation(w, s, o) == Mutate(w, tuples \ {<<s, o>>}, members, mappings)

RevokeAllForSubject(w, s) ==
  Mutate(w, {x \in tuples : x[1] # s}, members, mappings)

GrantMembership(w, m, t) == Mutate(w, tuples, members \cup {<<m, t>>}, mappings)

RevokeMembership(w, m, t) == Mutate(w, tuples, members \ {<<m, t>>}, mappings)

RevokeAllMembershipsForMember(w, m) ==
  Mutate(w, tuples, {x \in members : x[1] # m}, mappings)

GrantIdentityMapping(w, i) == Mutate(w, tuples, members, mappings \cup {i})

RevokeIdentityMapping(w, i) == Mutate(w, tuples, members, mappings \ {i})

\* version = version + 1, in the upsert's SET.
Bumped == version + 1

\* bumpAuthorizationVersion: an upsert that adds one.
BumpAuthorizationVersion(w) ==
  /\ wpc[w] = "bump"
  /\ version' = Bumped
  /\ held' = [k \in Key |-> {Allowed(k)}]
  /\ wpc' = [wpc EXCEPT ![w] = "idle"]
  /\ UNCHANGED <<tuples, members, mappings, cacheVars, checkVars, seen, proven>>

\* The process dies, or the second statement throws, after the first.
BumpLost(w) ==
  /\ wpc[w] = "bump"
  /\ wpc' = [wpc EXCEPT ![w] = "idle"]
  /\ UNCHANGED <<tuples, members, mappings, version, cacheVars, checkVars, history>>

-----------------------------------------------------------------------------
(* VersionedGrantCache.check, once per requirement of an authorization.    *)

Begin(c, p, r) ==
  /\ pc[c] = "idle"
  /\ pc' = [pc EXCEPT ![c] = "version"]
  /\ proc' = [proc EXCEPT ![c] = p]
  /\ reqs' = [reqs EXCEPT ![c] = r]
  /\ UNCHANGED <<dbVars, cacheVars, at, ver, live, answer, history>>

ReadVersion(c) ==
  /\ pc[c] = "version"
  /\ ver' = [ver EXCEPT ![c] = version]
  /\ seen' = [seen EXCEPT ![c] = held[Cur(c)]]
  /\ pc' = [pc EXCEPT ![c] = "cache"]
  /\ UNCHANGED <<dbVars, cacheVars, proc, reqs, at, live, answer, held, proven>>

\* Mutant of More: the first grant settles a delegated call.
MoreNever(c) == FALSE

\* Another requirement follows.
More(c) == at[c] < Len(reqs[c])

\* A denial ends the authorization; a grant goes on to the next requirement.
Settle(c, b) ==
  /\ answer' = [answer EXCEPT ![c] = b]
  /\ proven' = [proven EXCEPT ![c] =
                  @ \cup (IF TRUE \in seen[c] THEN {Cur(c)} ELSE {})]
  /\ IF b /\ More(c)
     THEN /\ pc' = [pc EXCEPT ![c] = "version"]
          /\ at' = [at EXCEPT ![c] = @ + 1]
     ELSE /\ pc' = [pc EXCEPT ![c] = "done"]
          /\ UNCHANGED at

\* The continuation after the version arrives runs without awaiting: a hit
\* settles the requirement, a miss goes on to the query, and a state of another
\* version is replaced, which checks that captured the old one do not notice.
CacheHit(c, b) ==
  /\ pc[c] = "cache" /\ cacheVer[proc[c]] = ver[c]
  /\ <<Cur(c), b>> \in decided[proc[c]]
  /\ Settle(c, b)
  /\ UNCHANGED <<dbVars, cacheVars, proc, reqs, ver, live, held, seen>>

CacheMiss(c) ==
  /\ pc[c] = "cache" /\ cacheVer[proc[c]] = ver[c]
  /\ \A b \in BOOLEAN : <<Cur(c), b>> \notin decided[proc[c]]
  /\ pc' = [pc EXCEPT ![c] = "query"]
  /\ live' = [live EXCEPT ![c] = TRUE]
  /\ UNCHANGED <<dbVars, cacheVars, proc, reqs, at, ver, answer, history>>

CacheReplace(c) ==
  /\ pc[c] = "cache" /\ cacheVer[proc[c]] # ver[c]
  /\ cacheVer' = [cacheVer EXCEPT ![proc[c]] = ver[c]]
  /\ decided' = [decided EXCEPT ![proc[c]] = {}]
  /\ live' = [d \in Checks |-> IF d = c THEN TRUE ELSE live[d] /\ proc[d] # proc[c]]
  /\ pc' = [pc EXCEPT ![c] = "query"]
  /\ UNCHANGED <<dbVars, proc, reqs, at, ver, answer, history>>

QueryDecision(c) ==
  /\ pc[c] = "query"
  /\ answer' = [answer EXCEPT ![c] = Allowed(Cur(c))]
  /\ pc' = [pc EXCEPT ![c] = "store"]
  /\ UNCHANGED <<dbVars, cacheVars, proc, reqs, at, ver, live, history>>

\* Mutant of Remembered: stores into whatever state the process has by now.
RememberedAnyhow(c) ==
  {x \in decided[proc[c]] : x[1] # Cur(c)} \cup {<<Cur(c), answer[c]>>}

\* decisions.set on the captured state, which may no longer be the process's.
Remembered(c) ==
  IF live[c] THEN {x \in decided[proc[c]] : x[1] # Cur(c)} \cup {<<Cur(c), answer[c]>>}
  ELSE decided[proc[c]]

Store(c) ==
  /\ pc[c] = "store"
  /\ decided' = [decided EXCEPT ![proc[c]] = Remembered(c)]
  /\ Settle(c, answer[c])
  /\ UNCHANGED <<dbVars, cacheVer, proc, reqs, ver, live, held, seen>>

Reset(c) ==
  /\ pc' = [pc EXCEPT ![c] = "idle"]
  /\ reqs' = [reqs EXCEPT ![c] = <<>>]
  /\ at' = [at EXCEPT ![c] = 1]
  /\ live' = [live EXCEPT ![c] = FALSE]
  /\ ver' = [ver EXCEPT ![c] = 0]
  /\ answer' = [answer EXCEPT ![c] = FALSE]
  /\ seen' = [seen EXCEPT ![c] = {}]
  /\ proven' = [proven EXCEPT ![c] = {}]
  /\ UNCHANGED <<dbVars, cacheVars, proc, held>>

\* The database does not answer: the check throws, nothing is cached, and the
\* dispatcher denies (evaluateGrant).
CheckThrows(c) == pc[c] \in {"version", "query"} /\ Reset(c)

Return(c) == pc[c] = "done" /\ Reset(c)

\* cached.expiresAt <= now: the entry counts as missing from here on.
Expire(p, k) ==
  /\ \E b \in BOOLEAN : <<k, b>> \in decided[p]
  /\ decided' = [decided EXCEPT ![p] = {x \in @ : x[1] # k}]
  /\ UNCHANGED <<dbVars, cacheVer, checkVars, history>>

WriterStep(w) ==
  \/ \E s \in Subjects, o \in Objects : GrantRelation(w, s, o) \/ RevokeRelation(w, s, o)
  \/ \E s \in Subjects : RevokeAllForSubject(w, s)
  \/ \E m \in Members, t \in Teams : GrantMembership(w, m, t) \/ RevokeMembership(w, m, t)
  \/ \E m \in Members : RevokeAllMembershipsForMember(w, m)
  \/ \E i \in Mappings : GrantIdentityMapping(w, i) \/ RevokeIdentityMapping(w, i)
  \/ BumpAuthorizationVersion(w)
  \/ BumpLost(w)

CheckStep(c) ==
  \/ \E p \in Procs, r \in Requests : Begin(c, p, r)
  \/ ReadVersion(c)
  \/ \E b \in BOOLEAN : CacheHit(c, b)
  \/ CacheMiss(c) \/ CacheReplace(c) \/ QueryDecision(c) \/ Store(c)
  \/ CheckThrows(c) \/ Return(c)

Next ==
  \/ \E w \in Writers : WriterStep(w)
  \/ \E c \in Checks : CheckStep(c)
  \/ \E p \in Procs, k \in Key : Expire(p, k)

Spec == Init /\ [][Next]_vars

-----------------------------------------------------------------------------
(* Type correctness of the tables, the caches and the checks in flight.    *)
TypeOK ==
  /\ tuples \subseteq Subjects \X Objects
  /\ members \subseteq Members \X Teams
  /\ mappings \subseteq Mappings
  /\ version \in Nat
  /\ wpc \in [Writers -> {"idle", "bump"}]
  /\ cacheVer \in [Procs -> Nat]
  /\ decided \in [Procs -> SUBSET (Key \X BOOLEAN)]
  /\ pc \in [Checks -> {"idle", "version", "done"} \cup InFlight]
  /\ proc \in [Checks -> Procs]
  /\ reqs \in [Checks -> Requests \cup {<<>>}]
  /\ at \in [Checks -> Nat]
  /\ ver \in [Checks -> Nat]
  /\ live \in [Checks -> BOOLEAN]
  /\ answer \in [Checks -> BOOLEAN]
  /\ held \in [Key -> SUBSET BOOLEAN]
  /\ seen \in [Checks -> SUBSET BOOLEAN]
  /\ proven \in [Checks -> SUBSET Key]

(***************************************************************************)
(* engine.ts 31-35: an answer, cached or not, is one the tables gave at    *)
(* some moment since the version the check read was installed.  So once a  *)
(* revoke has advanced the version, no check that begins later is answered *)
(* from before it, whatever other checks of the process do meanwhile and   *)
(* however late their stores land.                                         *)
(***************************************************************************)
AnswerFresh == \A c \in Checks : pc[c] = "done" => answer[c] \in seen[c]

(***************************************************************************)
(* router/authz.ts 62-117: a call is authorized only if every requirement  *)
(* it carries (the user's and the acting service's, for a delegated call)  *)
(* was granted at a moment its own check could see, though the checks run  *)
(* one after the other and the tables change between them.                 *)
(***************************************************************************)
DelegatedNeedsBoth ==
  \A c \in Checks :
    (pc[c] = "done" /\ answer[c]) =>
      \A i \in DOMAIN reqs[c] : reqs[c][i] \in proven[c]
=============================================================================
