------------------------------- MODULE OidcKeys -------------------------------
(* Sign-in with OpenID Connect: handleOIDCCallback exchanges the code for a    *)
(* token and verifies its signature with the keys of the issuer, which         *)
(* OIDCProvider keeps for an hour.  Several sign-ins share the cache; each     *)
(* looks at it, fetches keys and stores them in separate critical sections.    *)
(* The issuer replaces its keys, retires old ones and sometimes answers with   *)
(* an error.  Time is relative: what is left of the cache's hour, how long a   *)
(* sign-in takes, how long a key is gone.                                      *)
EXTENDS Integers, FiniteSets

CONSTANTS
    SignIn,      \* sign-ins that may be under way at once
    Ttl,         \* an hour, in ticks
    Delay,       \* bound on the ticks a sign-in takes (the client's timeout)
    MaxKeys,     \* bound: keys the issuer uses one after the other
    MaxFailures  \* bound: requests to the issuer that fail

ASSUME OidcAssumption ==
    /\ {Ttl, Delay, MaxKeys} \subseteq Nat \ {0}
    /\ MaxFailures \in Nat

Kid == 1 .. MaxKeys
Long == Ttl + 2 * Delay + 1   \* gone for longer than any cache remembers

VARIABLES
    current,   \* the key the issuer signs with
    gone,      \* per key: ticks since it is no longer published; -1 while it is, or not yet used
    cache,     \* OIDCProvider.keys and keyExpiry
    call,      \* per sign-in: where it is and what it has read
    verdict,   \* per sign-in: how the last one ended
    faults

keyVars == <<current, gone, cache, call, verdict, faults>>

NoCall == [pc |-> "idle", kid |-> 0, keys |-> {}, age |-> 0]
Published == {k \in Kid : k <= current /\ gone[k] = -1}

--------------------------------------------------------------------------------
(* VerifyIDToken *)

Advance(l, pc, keys) == call' = [call EXCEPT ![l].pc = pc, ![l].keys = keys]

Finish(l, result) ==
    /\ call' = [call EXCEPT ![l] = NoCall]
    /\ verdict' = [verdict EXCEPT ![l] = result]

\* ExchangeCode: the token is signed with the key of the moment.
ExchangeCode(l) ==
    /\ call[l].pc = "idle"
    /\ call' = [call EXCEPT ![l] = [NoCall EXCEPT !.pc = "read", !.kid = current]]
    /\ UNCHANGED <<current, gone, cache, verdict, faults>>

\* The issuer does not exchange the code: the callback answers 502.
ExchangeFails(l) ==
    /\ call[l].pc = "idle"
    /\ faults < MaxFailures /\ faults' = faults + 1
    /\ Finish(l, "rejected")
    /\ UNCHANGED <<current, gone, cache>>

\* Mutation: keys that are there are never too old.
ReadCacheForever(l) ==
    /\ call[l].pc = "read"
    /\ IF ~cache.loaded THEN Advance(l, "fetch", {}) ELSE Advance(l, "check", cache.keys)
    /\ UNCHANGED <<current, gone, cache, verdict, faults>>

ReadCache(l) ==
    /\ call[l].pc = "read"
    /\ IF ~cache.loaded \/ cache.left < 0
       THEN Advance(l, "fetch", {})
       ELSE Advance(l, "check", cache.keys)
    /\ UNCHANGED <<current, gone, cache, verdict, faults>>

\* Discover and FetchJWKS up to the decoded answer.  The status of the answer
\* with the keys is not looked at: a JSON error is a key set without keys.
Answered(l) ==
    /\ call[l].pc = "fetch"
    /\ \/ Advance(l, "store", Published) /\ UNCHANGED faults
       \/ /\ faults < MaxFailures /\ faults' = faults + 1
          /\ Advance(l, "store", {})
    /\ UNCHANGED <<current, gone, cache, verdict>>

\* No answer, a status other than 200 at discovery, or no JSON.
FetchFails(l) ==
    /\ call[l].pc = "fetch"
    /\ faults < MaxFailures /\ faults' = faults + 1
    /\ Finish(l, "rejected")
    /\ UNCHANGED <<current, gone, cache>>

\* Mutation: an answer is added to the keys that are there.
StoreMore(l) ==
    /\ call[l].pc = "store"
    /\ cache' = [keys |-> cache.keys \cup call[l].keys, loaded |-> TRUE, left |-> Ttl]
    /\ Advance(l, "reread", {})
    /\ UNCHANGED <<current, gone, verdict, faults>>

StoreKeys(l) ==
    /\ call[l].pc = "store"
    /\ cache' = [keys |-> call[l].keys, loaded |-> TRUE, left |-> Ttl]
    /\ Advance(l, "reread", {})
    /\ UNCHANGED <<current, gone, verdict, faults>>

\* The keys are read again: another sign-in may have stored its own meanwhile.
Reread(l) ==
    /\ call[l].pc = "reread"
    /\ Advance(l, "check", cache.keys)
    /\ UNCHANGED <<current, gone, cache, verdict, faults>>

verifyRS256Signature(l) ==
    /\ call[l].pc = "check"
    /\ Finish(l, IF call[l].kid \in call[l].keys THEN "accepted" ELSE "rejected")
    /\ UNCHANGED <<current, gone, cache, faults>>

--------------------------------------------------------------------------------
(* The issuer, and time. *)

Rotate ==
    /\ current < MaxKeys
    /\ current' = current + 1
    /\ UNCHANGED <<gone, cache, call, verdict, faults>>

Retire ==
    /\ \E k \in Published \ {current} : gone' = [gone EXCEPT ![k] = 0]
    /\ UNCHANGED <<current, cache, call, verdict, faults>>

Older(n, limit) == IF n < limit THEN n + 1 ELSE limit

KeysTick ==
    /\ \A l \in SignIn : call[l].pc # "idle" => call[l].age < Delay
    /\ call' = [l \in SignIn |-> IF call[l].pc = "idle" THEN call[l] ELSE [call[l] EXCEPT !.age = @ + 1]]
    /\ cache' = [cache EXCEPT !.left = IF @ < 0 THEN @ ELSE @ - 1]
    /\ gone' = [k \in Kid |-> IF gone[k] = -1 THEN -1 ELSE Older(gone[k], Long)]
    /\ UNCHANGED <<current, verdict, faults>>

--------------------------------------------------------------------------------

KeysInit ==
    /\ current = 1
    /\ gone = [k \in Kid |-> -1]
    /\ cache = [keys |-> {}, loaded |-> FALSE, left |-> -1]
    /\ call = [l \in SignIn |-> NoCall]
    /\ verdict = [l \in SignIn |-> "none"]
    /\ faults = 0

Step(l) ==
    \/ ReadCache(l) \/ Answered(l) \/ FetchFails(l) \/ StoreKeys(l) \/ Reread(l)
    \/ verifyRS256Signature(l)

KeysNext ==
    \/ \E l \in SignIn : ExchangeCode(l) \/ ExchangeFails(l) \/ Step(l)
    \/ Rotate \/ Retire \/ KeysTick

KeysSpec == KeysInit /\ [][KeysNext]_keyVars

\* People try again, requests return, time goes on.
KeysFairSpec ==
    /\ KeysSpec /\ WF_keyVars(KeysTick)
    /\ \A l \in SignIn : WF_keyVars(ExchangeCode(l)) /\ WF_keyVars(Step(l))

--------------------------------------------------------------------------------
(* Properties. *)

KeysTypeOK ==
    /\ current \in Kid /\ faults \in 0 .. MaxFailures
    /\ gone \in [Kid -> -1 .. Long]
    /\ cache.left \in -1 .. Ttl /\ cache.keys \subseteq Kid
    /\ \A l \in SignIn : call[l].age \in 0 .. Delay /\ call[l].keys \subseteq Kid

\* A key that the issuer has withdrawn is not accepted for longer than the
\* hour of the cache and the time of two sign-ins, although an answer may be
\* stored after a newer one, and read by a third sign-in.
WithdrawnKeysExpire ==
    \A l \in SignIn : call[l].pc = "check" =>
        \A k \in call[l].keys : gone[k] <= Ttl + 2 * Delay

\* A cache that was filled before a rotation, or with an answer that had no
\* keys, does not lock users out for good: who tries again gets in.
SignInWorksAgain == \A l \in SignIn : []<>(verdict[l] = "accepted")

==============================================================================
