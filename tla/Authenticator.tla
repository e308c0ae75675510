--------------------------- MODULE Authenticator ---------------------------
(***************************************************************************)
(* auth.Authenticator (observe-gateway/internal/auth): bearer tokens are   *)
(* verified with a key set that is fetched from the identity provider and  *)
(* kept for CacheTTL.  Every request that finds the set expired fetches it *)
(* again, on its own; the last to store its answer wins.  External: the    *)
(* provider, which publishes one signing key after the other, and the      *)
(* checks of the JWT library (expiry, audience, issuer).                   *)
(***************************************************************************)
EXTENDS GatewayTypes

CONSTANTS
  KeyTTL,        \* auth.cache_ttl, 1 hour by default
  FetchTimeout,  \* 10 seconds in the code
  MaxRotations   \* bound on the keys the provider publishes

ASSUME AuthAssumption ==
  KeyTTL \in Nat \ {0} /\ FetchTimeout \in 1..RequestTimeout /\ MaxRotations \in Nat

VARIABLES
  published,   \* the key the provider publishes now: 1, 2, ...
  rotatedAt,   \* when it began to
  keySet,      \* the key in the cached set
  fetchedAt,   \* when the set was stored
  fetched      \* the set on its way to each request that fetches; NoSet: none yet

authVars == <<published, rotatedAt, keySet, fetchedAt, fetched>>

NoSet == 0
SigningKey == 1..(MaxRotations + 1)

(* A token names its tenant, or leaves it to the header; "valid" is what the JWT
   library says of everything but the signature. *)
Token == [key : SigningKey, tenant : Tenant \cup {Unset}, valid : BOOLEAN]
NoToken == [key |-> NoSet, tenant |-> Unset, valid |-> FALSE]

(* New fetches a first set or the process does not start. *)
AuthInit ==
  /\ published = 1
  /\ rotatedAt = 0
  /\ keySet = 1
  /\ fetchedAt = 0
  /\ fetched = [r \in Request |-> NoSet]

Rotate ==
  /\ published <= MaxRotations
  /\ published' = published + 1
  /\ rotatedAt' = now
  /\ UNCHANGED <<keySet, fetchedAt, fetched>>

\* Mutation: the cached set never grows too old.
KeySetFreshForever == keySet # NoSet

KeySetFresh == now - fetchedAt < KeyTTL

(* The provider answers: the set of that moment is on its way. *)
ProviderAnswers(r) ==
  /\ fetched[r] = NoSet
  /\ fetched' = [fetched EXCEPT ![r] = published]
  /\ UNCHANGED <<published, rotatedAt, keySet, fetchedAt>>

(* refresh stores it, whatever has been stored since the request began. *)
Refresh(r) ==
  /\ fetched[r] # NoSet
  /\ keySet' = fetched[r]
  /\ fetchedAt' = now
  /\ fetched' = [fetched EXCEPT ![r] = NoSet]
  /\ UNCHANGED <<published, rotatedAt>>

FetchFails(r) ==
  /\ fetched' = [fetched EXCEPT ![r] = NoSet]
  /\ UNCHANGED <<published, rotatedAt, keySet, fetchedAt>>

(* jwt.ParseString with the cached set. *)
SignatureOK(token) == token.key = keySet
Verified(token) == SignatureOK(token) /\ token.valid

AuthTypeOK ==
  /\ published \in SigningKey /\ rotatedAt \in 0..now
  /\ keySet \in 1..published /\ fetchedAt \in 0..now
  /\ fetched \in [Request -> 0..published]
=============================================================================
