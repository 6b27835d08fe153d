--------------------------- MODULE MerchantAccess ---------------------------
(***************************************************************************)
(* The front door of one API process: merchants, their policies and API    *)
(* keys (routers/merchants.py), the authentication of a call by its key    *)
(* (security/dependencies.py) behind the sliding-window rate limiter       *)
(* (security/rate_limiter.py), and the operator endpoints that only check  *)
(* a scope (routers/operations.py).                                        *)
(*                                                                         *)
(* The endpoints write the process's dictionaries first and the database   *)
(* afterwards, in a unit of work of their own whose exception becomes the  *)
(* answer.  An authentication awaits the database between its steps, so    *)
(* calls interleave there; the limiter is asked without awaiting.  The     *)
(* process may run without a database, which may also be out of reach for  *)
(* a while, and it may restart.                                            *)
(***************************************************************************)
EXTENDS Naturals, Sequences, FiniteSets

CONSTANTS Shops,          \* merchant ids
          ApiKeys,        \* keys that are sent: prefix, genuine secret or not, known shape or not
          Grants,         \* credentials that are created: prefix, shop, scopes, expiry
          Calls,          \* calls in flight at the same time
          CategoryLimits, \* CATEGORY_LIMITS: calls per window and category
          Window, MaxTime, MaxVersion

VARIABLES client,         \* the key this behaviour's calls are sent with
          database,       \* "none", "up" or "down"
          kept,           \* _MERCHANT_POLICIES: the version in memory, 0 for an unknown merchant
          merchantRows, policyRows, credentials,
          history,        \* RateLimiter._history
          calls, clock,
          accepted,       \* ghost: the policy version last answered with success
          revoked,        \* ghost: the prefixes that were ever revoked
          passed          \* ghost: when the calls of the last window were let through

accessVars == <<client, database, kept, merchantRows, policyRows, credentials, history, calls, clock,
                accepted, revoked, passed>>

KeyPrefixes == {k.prefix : k \in ApiKeys}
Categories == DOMAIN CategoryLimits
Operator == "operator"
NoCredential == [status |-> "none"]
NotCalled == [pc |-> "idle"]
Blank(value) == [g \in Categories |-> [k \in ApiKeys |-> value]]
Never == MaxTime + 1

(* Keys are granted for prefixes that calls can carry; the limiter has a   *)
(* window and a limit for every category it is asked about.                *)
ASSUME AccessAssumption ==
  /\ MaxTime \in Nat
  /\ Window \in Nat \ {0}
  /\ {"GENERAL_API", "AUTH_FAILURES"} \subseteq Categories
  /\ CategoryLimits \in [Categories -> Nat]
  /\ \A g \in Grants : g.prefix \in KeyPrefixes /\ g.expires \in Nat

Configured == database # "none"

AccessInit ==
  /\ client \in ApiKeys
  /\ database \in {"none", "up"}
  /\ kept = [s \in Shops |-> 0]
  /\ merchantRows = {}
  /\ policyRows = [s \in Shops |-> 0]
  /\ credentials = [p \in KeyPrefixes |-> NoCredential]
  /\ history = Blank(<<>>)
  /\ calls = [c \in Calls |-> NotCalled]
  /\ clock = 0
  /\ accepted = [s \in Shops |-> 0]
  /\ revoked = {}
  /\ passed = Blank(<<>>)
---------------------------------------------------------------------------
(* Merchants and policies.  Ids are fresh uuids. *)

(* The rows of a new merchant and its default policy, in one unit of work *)
PersistMerchant(s) ==
  IF database = "up"
  THEN /\ merchantRows' = merchantRows \cup {s}
       /\ policyRows' = [policyRows EXCEPT ![s] = 1]
  ELSE UNCHANGED <<merchantRows, policyRows>>

CreateMerchant(s) ==
  /\ kept[s] = 0 /\ accepted[s] = 0 /\ s \notin merchantRows
  /\ kept' = [kept EXCEPT ![s] = 1]
  /\ PersistMerchant(s)
  /\ accepted' = [accepted EXCEPT ![s] = IF database = "down" THEN 0 ELSE 1]
  /\ UNCHANGED <<database, credentials, history, calls, clock, revoked, passed>>

(* The table's constraints: the policy's id, which an update keeps, is its *)
(* primary key, and the merchant must have a row.                          *)
PolicyRowFits(s) == s \in merchantRows /\ policyRows[s] = 0

CreatePolicy(s) == database = "up" /\ PolicyRowFits(s)

(* Fault: an update whose row is refused is answered as accepted *)
UpdateAccepted_Swallowed(s) == TRUE

UpdateAccepted(s) == ~Configured \/ CreatePolicy(s)

UpdateMerchantPolicy(s) ==
  LET version == kept[s] + 1
  IN /\ kept[s] \in 1..(MaxVersion - 1)
     /\ kept' = [kept EXCEPT ![s] = version]
     /\ policyRows' = [policyRows EXCEPT ![s] = IF CreatePolicy(s) THEN version ELSE @]
     /\ accepted' = [accepted EXCEPT ![s] = IF UpdateAccepted(s) THEN version ELSE @]
     /\ UNCHANGED <<database, merchantRows, credentials, history, calls, clock, revoked, passed>>

(* get_merchant_policy and get_merchant: the row if the database answers   *)
(* with one, else the dictionary, where 0 is a 404.                        *)
ActivePolicy(s) == IF database = "up" THEN policyRows[s] ELSE 0
GetMerchantPolicy(s) == IF ActivePolicy(s) # 0 THEN ActivePolicy(s) ELSE kept[s]
GetMerchant(s) == (database = "up" /\ s \in merchantRows) \/ kept[s] # 0
---------------------------------------------------------------------------
(* Credentials.  Without a database a key is answered and stored nowhere;  *)
(* the endpoint's keys never expire, the repository's other callers pass   *)
(* an expiry.                                                              *)

CredentialRow(shop, scopes, expires, used) ==
  [status |-> "ACTIVE", shop |-> shop, scopes |-> scopes, expires |-> expires, used |-> used]

CreateCredential(grant) ==
  [credentials EXCEPT ![grant.prefix] =
     CredentialRow(grant.shop, grant.scopes, grant.expires, FALSE)]

CreateMerchantCredential(grant) ==
  /\ database = "up"
  /\ credentials[grant.prefix] = NoCredential
  /\ credentials' = CreateCredential(grant)
  /\ UNCHANGED <<database, kept, merchantRows, policyRows, history, calls, clock,
                 accepted, revoked, passed>>

RevokeCredential(p) ==
  /\ database = "up"
  /\ credentials[p] # NoCredential /\ p \notin revoked
  /\ credentials' = [credentials EXCEPT ![p].status = "REVOKED"]
  /\ revoked' = revoked \cup {p}
  /\ UNCHANGED <<database, kept, merchantRows, policyRows, history, calls, clock,
                 accepted, passed>>

(* Fault: the row that was read is written back as a whole *)
UpdateLastUsed_WholeRow(c) ==
  [credentials EXCEPT ![calls[c].key.prefix] = [calls[c].seen EXCEPT !.used = TRUE]]

(* update_last_used: the session writes the one column that changed, which *)
(* says here only that there was a use.                                    *)
UpdateLastUsed(c) == [credentials EXCEPT ![calls[c].key.prefix].used = TRUE]
---------------------------------------------------------------------------
(* The rate limiter *)

(* Fault: the window starts again when its oldest call leaves it *)
ValidTimestamps_FixedWindow(times) ==
  IF times # <<>> /\ Head(times) + Window <= clock THEN <<>> ELSE times

(* The times whose window reaches beyond a moment, in their order *)
TimesWithin(times, moment) ==
  LET within[i \in 0 .. Len(times)] ==
        IF i = 0 THEN <<>>
        ELSE IF times[i] + Window > moment THEN Append(within[i - 1], times[i]) ELSE within[i - 1]
  IN within[Len(times)]

ValidTimestamps(times) == TimesWithin(times, clock)

IsAllowed(category, k) ==
  Len(ValidTimestamps(history[category][k])) < CategoryLimits[category]

(* is_allowed keeps the pruned list, and counts only the calls it allows *)
CheckRateLimit(category, k) ==
  LET valid == ValidTimestamps(history[category][k])
  IN /\ history' = [history EXCEPT ![category][k] =
                      IF IsAllowed(category, k) THEN Append(valid, clock) ELSE valid]
     /\ passed' = IF IsAllowed(category, k)
                  THEN [passed EXCEPT ![category][k] = Append(@, clock)] ELSE passed

NotLimited == UNCHANGED <<history, passed>>
---------------------------------------------------------------------------
(* A call *)

EndCall(c) == calls' = [calls EXCEPT ![c] = NotCalled]
Goes(c, pc) == calls' = [calls EXCEPT ![c].pc = pc]
At(c, pc) == calls[c].pc = pc

(* Ghost: a call that begins now must not be served *)
Barred(p) ==
  p \in revoked \/ (credentials[p] # NoCredential /\ credentials[p].expires < clock)

(* get_current_principal asks the limiter first; get_operator_principal,   *)
(* which the operator endpoints depend on, does not.                       *)
Arrive(c, k, want) ==
  /\ At(c, "idle")
  /\ IF want = Operator THEN NotLimited ELSE CheckRateLimit("GENERAL_API", k)
  /\ IF want = Operator \/ IsAllowed("GENERAL_API", k)
     THEN calls' = [calls EXCEPT ![c] =
            [pc |-> "lookup", key |-> k, want |-> want, barred |-> Barred(k.prefix),
             seen |-> NoCredential]]
     ELSE UNCHANGED calls
  /\ UNCHANGED credentials

CredentialByPrefix(k) == credentials[k.prefix]

(* The row is read without a lock; a database out of reach raises          *)
(* something else than a refusal.                                          *)
Lookup(c) ==
  /\ At(c, "lookup") /\ Configured
  /\ IF database = "down" THEN EndCall(c)
     ELSE calls' = [calls EXCEPT ![c].pc = "verify", ![c].seen = CredentialByPrefix(calls[c].key)]
  /\ NotLimited /\ UNCHANGED credentials

(* Without a database a key of a known shape is the development principal *)
DevFallback == CredentialRow("mer_default", "*", Never, TRUE)

LookupWithoutDatabase(c) ==
  /\ At(c, "lookup") /\ ~Configured
  /\ calls' = [calls EXCEPT ![c].pc = IF calls[c].key.shaped THEN "endpoint" ELSE "refuse",
                            ![c].seen = DevFallback]
  /\ NotLimited /\ UNCHANGED credentials

Verified(c) ==
  LET seen == calls[c].seen
  IN /\ seen.status = "ACTIVE"
     /\ seen.expires >= clock
     /\ calls[c].key.genuine

(* _authenticate_with_uow: what it writes for a refusal, the event and the *)
(* status EXPIRED, is rolled back when the refusal leaves the unit.        *)
AuthenticateWithUow(c) ==
  /\ At(c, "verify")
  /\ \/ database = "down" /\ EndCall(c) /\ UNCHANGED credentials
     \/ /\ database = "up" /\ Verified(c)
        /\ Goes(c, "endpoint") /\ credentials' = UpdateLastUsed(c)
     \/ /\ database = "up" /\ ~Verified(c)
        /\ Goes(c, "refuse") /\ UNCHANGED credentials
  /\ NotLimited

(* A refusal is a 401, or a 429 when the key had too many of them *)
Refuse(c) ==
  /\ At(c, "refuse")
  /\ EndCall(c)
  /\ IF calls[c].want = Operator THEN NotLimited ELSE CheckRateLimit("AUTH_FAILURES", calls[c].key)
  /\ UNCHANGED credentials

ValidateMerchantAccess(seen, shop) == seen.scopes = "*" \/ seen.shop = shop

OperatorPrincipal(seen) == seen.scopes \in {"operator", "*"}

MayAccess(seen, want) ==
  IF want = Operator THEN OperatorPrincipal(seen) ELSE ValidateMerchantAccess(seen, want)

Endpoint(c) ==
  LET want == calls[c].want
  IN /\ At(c, "endpoint")
     /\ IF MayAccess(calls[c].seen, want) /\ (want = Operator \/ GetMerchant(want))
        THEN Goes(c, "served") ELSE EndCall(c)
     /\ NotLimited /\ UNCHANGED credentials

CallEnds(c) == At(c, "served") /\ EndCall(c) /\ NotLimited /\ UNCHANGED credentials

CallNext ==
  /\ \E c \in Calls :
       \/ \E want \in Shops \cup {Operator} : Arrive(c, client, want)
       \/ Lookup(c) \/ LookupWithoutDatabase(c) \/ AuthenticateWithUow(c)
       \/ Refuse(c) \/ Endpoint(c) \/ CallEnds(c)
  /\ UNCHANGED <<database, kept, merchantRows, policyRows, clock, accepted, revoked>>

(* execute_demo_journey, an operator endpoint: rows of a fresh merchant    *)
(* that the dictionaries never learn of.                                   *)
DemoJourney(c, s) ==
  /\ At(c, "served") /\ calls[c].want = Operator /\ database = "up"
  /\ s \notin merchantRows /\ kept[s] = 0 /\ accepted[s] = 0
  /\ PersistMerchant(s)
  /\ EndCall(c)
  /\ UNCHANGED <<database, kept, credentials, history, clock, accepted, revoked, passed>>
---------------------------------------------------------------------------
(* External: the clock, the database, the process *)

ClockTicks ==
  /\ clock < MaxTime
  /\ clock' = clock + 1
  /\ passed' = [g \in Categories |-> [k \in ApiKeys |->
                  TimesWithin(passed[g][k], clock + 1)]]
  /\ UNCHANGED <<database, kept, merchantRows, policyRows, credentials, history, calls,
                 accepted, revoked>>

DatabaseChanges ==
  /\ Configured
  /\ database' = IF database = "up" THEN "down" ELSE "up"
  /\ UNCHANGED <<kept, merchantRows, policyRows, credentials, history, calls, clock,
                 accepted, revoked, passed>>

(* What the limiter promises begins again with the process *)
ProcessRestarts ==
  /\ kept' = [s \in Shops |-> 0]
  /\ history' = Blank(<<>>)
  /\ passed' = Blank(<<>>)
  /\ calls' = [c \in Calls |-> NotCalled]
  /\ UNCHANGED <<database, merchantRows, policyRows, credentials, clock, accepted, revoked>>

AccessNext ==
  /\ UNCHANGED client
  /\ \/ \E s \in Shops : CreateMerchant(s) \/ UpdateMerchantPolicy(s)
     \/ \E grant \in Grants : CreateMerchantCredential(grant)
     \/ \E p \in KeyPrefixes : RevokeCredential(p)
     \/ CallNext
     \/ \E c \in Calls, s \in Shops : DemoJourney(c, s)
     \/ ClockTicks \/ DatabaseChanges \/ ProcessRestarts
---------------------------------------------------------------------------
(* CallsAreLimited: within the last window of the limiter, at any moment,  *)
(* no key got more calls past it, and no more refusals answered as such,  *)
(* than the category allows, although the list it counts from is cut only  *)
(* when the key calls again and calls of one key overlap.                  *)
CallsAreLimited ==
  \A g \in Categories, k \in ApiKeys : Len(passed[g][k]) <= CategoryLimits[g]

(* ServedToHolder: with a database, a merchant's record or an operator     *)
(* endpoint is only ever answered to the genuine key of a credential that  *)
(* covers it, had not expired when the call began and was not revoked at   *)
(* any time before that, whatever other calls with that key write in the   *)
(* meantime.                                                               *)
ServedToHolder ==
  \A c \in Calls :
    calls[c].pc = "served" /\ Configured =>
      LET row == credentials[calls[c].key.prefix]
      IN /\ row # NoCredential /\ calls[c].key.genuine
         /\ MayAccess(row, calls[c].want)
         /\ ~calls[c].barred

(* AcceptedPolicyServed: the policy the gateway serves while its database  *)
(* answers is the one it last accepted, across restarts and outages; an    *)
(* update that memory took and the database refused was answered as an     *)
(* error.                                                                  *)
AcceptedPolicyServed ==
  \A s \in Shops : database = "up" /\ accepted[s] # 0 => GetMerchantPolicy(s) = accepted[s]
=============================================================================
