----------------------------- MODULE AccessProofs -----------------------------
(***************************************************************************)
(* Nobody is served what is not his or refused for long what is, for any   *)
(* keys, tokens, requests, toggles and times. A request is compared with   *)
(* the keys it was given; these were the provider's when the cache was     *)
(* last filled, or the provider did not answer then; and what the provider *)
(* did since, it did after that fill. A request in progress takes no time  *)
(* (Tick), so that the fill is not older than the cache's lifetime.        *)
(***************************************************************************)
EXTENDS Access, SequenceTheorems, TLAPS

AccessTyped ==
    /\ clock \in Nat
    /\ provider \in [keys : SUBSET SigningKey, up : BOOLEAN, upSince : Nat, rotations : Nat,
                     outages : Nat, since : [SigningKey -> Nat], left : [SigningKey -> Nat]]
    /\ jwks \in [known : BOOLEAN, keys : SUBSET SigningKey, at : Nat]
    /\ requests = [r \in Request |-> requests[r]]
    /\ row \in BOOLEAN /\ flag \in BOOLEAN /\ overlapped \in BOOLEAN
    /\ toggles \in Seq([on : BOOLEAN, pending : BOOLEAN])

\* What was recorded was recorded before now.
Recorded ==
    /\ provider.upSince <= clock /\ jwks.at <= clock
    /\ \A k \in SigningKey : provider.left[k] <= clock

\* The one that fetches holds the lock.
OneFetches == \A r \in Request : requests[r].at = "fetch" <=> fetching = r

\* The cache differs from the provider by what the provider did since it was filled, or
\* the provider did not answer.
CacheFollows ==
    jwks.known => \A k \in SigningKey :
        /\ k \in provider.keys \ jwks.keys =>
              ~provider.up \/ provider.since[k] >= jwks.at \/ provider.upSince >= jwks.at
        /\ k \in jwks.keys \ provider.keys =>
              ~provider.up \/ provider.left[k] >= jwks.at \/ provider.upSince >= provider.left[k]

\* Why a request that was sent at a time may have missed a key, or used a withdrawn one.
Missed(k, began) ==
    \/ k \notin provider.keys \/ ~provider.up
    \/ provider.since[k] + MinInterval > began
    \/ provider.upSince > 0 /\ provider.upSince + MinInterval > began
Accepted(k, began) ==
    \/ k \in provider.keys \/ ~provider.up
    \/ began < provider.left[k] + Ttl
    \/ provider.upSince >= provider.left[k]

Warm == jwks.known /\ clock < jwks.at + Ttl

Filled(q) ==
    /\ q = [at |-> q.at, token |-> q.token, want |-> q.want, keys |-> q.keys, forced |-> q.forced,
            user |-> q.user, began |-> q.began, outcome |-> q.outcome]
    /\ q.forced \in BOOLEAN /\ q.began \in Nat /\ q.began <= clock
    /\ q.at # "answered" => q.began = clock

\* What the user who is served is and may do.
Rightful(q) ==
    /\ MayAct(UserOf(q.token), q.token.actsFor)
    /\ q.user = ActingUser(UserOf(q.token), q.token.actsFor)
    /\ Resolves(q.user, q.want)

Known(q) == q.token.kid \in SigningKey /\ Accepted(q.token.kid, q.began)

\* What each step of a request may rely on.
Waits(q) == q.at \in {"keys", "fetch", "rekeys"} /\ (q.at = "keys" => ~q.forced)
            /\ (q.at = "rekeys" => q.forced) /\ (q.forced => Warm)
Verifies(q) == q.at = "verify" /\ Warm /\ q.keys \subseteq SigningKey
               /\ (q.token.kid \in q.keys => Known(q))
               /\ (q.forced /\ q.token.kid \notin q.keys => Missed(q.token.kid, q.began))
Identified(q) == q.at = "identified" /\ Known(q) /\ q.user = UserOf(q.token)
Told(q) == q.at = "answered"
           /\ (q.outcome = "unauthorized" /\ q.token.genuine /\ q.token.holds
                  => Missed(q.token.kid, q.began))
           /\ (q.outcome = "served" => Known(q) /\ Rightful(q))

RequestOK(q) == q = Idle0 \/ (Filled(q) /\ (Waits(q) \/ Verifies(q) \/ Identified(q) \/ Told(q)))
RequestsOK == \A r \in Request : RequestOK(requests[r])

\* Without an overlap one toggle at most is under way, and the row is what it wrote.
Gate ==
    /\ overlapped \/ \A i, j \in DOMAIN toggles : toggles[i].pending /\ toggles[j].pending => i = j
    /\ overlapped \/ \A i \in DOMAIN toggles : toggles[i].pending => row = toggles[i].on
    /\ overlapped \/ (\E i \in DOMAIN toggles : toggles[i].pending) \/ flag = row

AccessInv == AccessTyped /\ Recorded /\ OneFetches /\ CacheFollows /\ RequestsOK /\ Gate

-----------------------------------------------------------------------------
(* The provider.                                                           *)

\* What it is after a rotation, field by field.
LEMMA Rotated ==
    ASSUME AccessTyped, Rotate
    PROVE  /\ provider'.keys \subseteq SigningKey /\ provider'.up = provider.up
           /\ provider'.upSince = provider.upSince
           /\ provider' \in [keys : SUBSET SigningKey, up : BOOLEAN, upSince : Nat, rotations : Nat,
                             outages : Nat, since : [SigningKey -> Nat], left : [SigningKey -> Nat]]
           /\ \A k \in SigningKey :
                /\ provider'.since[k] = IF k \in provider'.keys \cap provider.keys
                                        THEN provider.since[k] ELSE clock
                /\ provider'.left[k] = IF k \in provider.keys \ provider'.keys
                                       THEN clock ELSE provider.left[k]
<1>1. PICK keys \in SUBSET SigningKey :
        provider' = [provider EXCEPT !.keys = keys, !.rotations = @ + 1,
            !.since = [k \in SigningKey |-> IF k \in keys \cap provider.keys THEN provider.since[k] ELSE clock],
            !.left = [k \in SigningKey |-> IF k \in provider.keys \ keys THEN clock ELSE provider.left[k]]]
  BY DEF Rotate
<1> DEFINE since == [k \in SigningKey |-> IF k \in keys \cap provider.keys THEN provider.since[k] ELSE clock]
           left == [k \in SigningKey |-> IF k \in provider.keys \ keys THEN clock ELSE provider.left[k]]
<1>2. since \in [SigningKey -> Nat] /\ left \in [SigningKey -> Nat]
  BY DEF AccessTyped
<1>3. \A k \in SigningKey :
        /\ since[k] = IF k \in keys \cap provider.keys THEN provider.since[k] ELSE clock
        /\ left[k] = IF k \in provider.keys \ keys THEN clock ELSE provider.left[k]
  OBVIOUS
<1> HIDE DEF since, left
<1>4. provider' = [provider EXCEPT !.keys = keys, !.rotations = @ + 1, !.since = since, !.left = left]
  BY <1>1 DEF since, left
<1>5. /\ provider'.keys = keys /\ provider'.up = provider.up /\ provider'.upSince = provider.upSince
      /\ provider'.since = since /\ provider'.left = left
  BY <1>4 DEF AccessTyped
<1>6. provider' \in [keys : SUBSET SigningKey, up : BOOLEAN, upSince : Nat, rotations : Nat,
                     outages : Nat, since : [SigningKey -> Nat], left : [SigningKey -> Nat]]
  <2>1. provider' = [keys |-> keys, up |-> provider.up, upSince |-> provider.upSince,
                     rotations |-> provider.rotations + 1, outages |-> provider.outages,
                     since |-> since, left |-> left]
    BY <1>4 DEF AccessTyped
  <2>2. /\ keys \in SUBSET SigningKey /\ provider.up \in BOOLEAN /\ provider.upSince \in Nat
        /\ provider.rotations + 1 \in Nat /\ provider.outages \in Nat
    BY DEF AccessTyped
  <2> QED
    BY <1>2, <2>1, <2>2
<1> QED
  BY <1>3, <1>5, <1>6

\* What it is after it ceased to answer, or does again.
LEMMA Interrupted ==
    ASSUME AccessTyped, Outage
    PROVE  /\ provider'.keys = provider.keys /\ provider'.up = ~provider.up
           /\ provider'.upSince = clock
           /\ provider'.since = provider.since /\ provider'.left = provider.left
           /\ provider' \in [keys : SUBSET SigningKey, up : BOOLEAN, upSince : Nat, rotations : Nat,
                             outages : Nat, since : [SigningKey -> Nat], left : [SigningKey -> Nat]]
<1>1. provider' = [keys |-> provider.keys, up |-> ~provider.up, upSince |-> clock,
                   rotations |-> provider.rotations, outages |-> provider.outages + 1,
                   since |-> provider.since, left |-> provider.left]
  BY DEF AccessTyped, Outage
<1>2. /\ provider.keys \in SUBSET SigningKey /\ (~provider.up) \in BOOLEAN /\ clock \in Nat
      /\ provider.rotations \in Nat /\ provider.outages + 1 \in Nat
      /\ provider.since \in [SigningKey -> Nat] /\ provider.left \in [SigningKey -> Nat]
  BY DEF AccessTyped
<1> QED
  BY <1>1, <1>2

\* What explains an answer goes on explaining it, whatever the provider does next.
LEMMA ReasonsStay ==
    ASSUME AccessTyped, Recorded, NEW k, NEW began \in Nat, began <= clock
    PROVE  (Rotate \/ Outage) =>
              /\ Missed(k, began) => Missed(k, began)'
              /\ k \in SigningKey /\ Accepted(k, began) => Accepted(k, began)'
<1>1. ASSUME Rotate PROVE Missed(k, began) => Missed(k, began)'
  <2>1. CASE k \in SigningKey
    BY <1>1, <2>1, Rotated, AccessAssumption DEF AccessTyped, Missed
  <2>2. CASE k \notin SigningKey
    BY <1>1, <2>2, Rotated DEF Missed
  <2> QED
    BY <2>1, <2>2
<1>2. ASSUME Rotate, k \in SigningKey PROVE Accepted(k, began) => Accepted(k, began)'
  BY <1>2, Rotated, AccessAssumption DEF AccessTyped, Recorded, Accepted
<1>3. ASSUME Outage PROVE Missed(k, began) => Missed(k, began)'
  <2>1. CASE k \in SigningKey
    BY <1>3, <2>1, Interrupted, AccessAssumption DEF AccessTyped, Missed
  <2>2. CASE k \notin SigningKey
    BY <1>3, <2>2, Interrupted DEF Missed, AccessTyped
  <2> QED
    BY <2>1, <2>2
<1>4. ASSUME Outage, k \in SigningKey PROVE Accepted(k, began) => Accepted(k, began)'
  BY <1>4, Interrupted, AccessAssumption DEF AccessTyped, Recorded, Accepted
<1> QED
  BY <1>1, <1>2, <1>3, <1>4

\* The cache still differs from the provider by what that did.
LEMMA CacheStill ==
    ASSUME AccessTyped, Recorded, CacheFollows
    PROVE  (Rotate \/ Outage) => CacheFollows'
<1>1. ASSUME Rotate PROVE CacheFollows'
  <2>1. jwks' = jwks
    BY <1>1 DEF Rotate
  <2> QED
    BY <1>1, <2>1, Rotated DEF AccessTyped, Recorded, CacheFollows
<1>2. ASSUME Outage PROVE CacheFollows'
  <2>1. jwks' = jwks
    BY <1>2 DEF Outage
  <2> QED
    BY <1>2, <2>1, Interrupted DEF AccessTyped, Recorded, CacheFollows
<1> QED
  BY <1>1, <1>2

-----------------------------------------------------------------------------
(* Requests.                                                               *)

\* A request stays explained while the provider does, and the cache no less warm.
LEMMA StaysOK ==
    ASSUME NEW q, RequestOK(q), UNCHANGED <<clock, provider>>, Warm => Warm'
    PROVE  RequestOK(q)'
<1>1. Filled(q) => Filled(q)'
  BY DEF Filled
<1>2. \A k, b : (Missed(k, b) <=> Missed(k, b)') /\ (Accepted(k, b) <=> Accepted(k, b)')
  BY DEF Missed, Accepted
<1>3. Known(q) <=> Known(q)'
  BY <1>2 DEF Known
<1>4. Waits(q) => Waits(q)'
  BY DEF Waits
<1>5. Verifies(q) => Verifies(q)'
  BY <1>2, <1>3 DEF Verifies
<1>6. Identified(q) => Identified(q)'
  BY <1>3 DEF Identified
<1>7. Told(q) => Told(q)'
  BY <1>2, <1>3 DEF Told, Rightful
<1> QED
  BY <1>1, <1>4, <1>5, <1>6, <1>7 DEF RequestOK

\* One request moves on, the others stay.
LEMMA OneMoves ==
    ASSUME AccessTyped, RequestsOK, NEW r \in Request, NEW q,
           requests' = [requests EXCEPT ![r] = q], RequestOK(q)',
           UNCHANGED <<clock, provider>>, Warm => Warm'
    PROVE  /\ requests' = [k \in Request |-> requests'[k]] /\ RequestsOK'
           /\ requests'[r] = q /\ \A k \in Request \ {r} : requests'[k] = requests[k]
<1>1. requests' = [k \in Request |-> IF k = r THEN q ELSE requests[k]]
  BY DEF AccessTyped
<1>2. \A k \in Request \ {r} : RequestOK(requests[k])
  BY DEF RequestsOK
<1>3. ASSUME NEW k \in Request \ {r} PROVE RequestOK(requests[k])'
  <2>1. PICK p : p = requests[k]
    OBVIOUS
  <2>2. RequestOK(p)'
    BY <1>2, <2>1, StaysOK
  <2>3. requests'[k] = p
    BY <1>1, <2>1
  <2> QED
    BY <2>2, <2>3
<1> QED
  BY <1>1, <1>3 DEF RequestsOK

\* What a request with a fresh cache is given explains what it will be told.
LEMMA FreshKeys ==
    ASSUME AccessTyped, Recorded, CacheFollows, Warm, NEW k, NEW forced \in BOOLEAN, IsFresh(forced)
    PROVE  /\ k \in jwks.keys => k \in SigningKey /\ Accepted(k, clock)
           /\ forced /\ k \notin jwks.keys => Missed(k, clock)
<1>1. ASSUME k \in jwks.keys PROVE k \in SigningKey /\ Accepted(k, clock)
  BY <1>1, AccessAssumption DEF AccessTyped, Recorded, CacheFollows, Warm, Accepted
<1>2. ASSUME forced, k \notin jwks.keys PROVE Missed(k, clock)
  <2>1. jwks.known /\ clock < jwks.at + MinInterval
    BY <1>2, AccessAssumption DEF IsFresh, FreshFor, AccessTyped
  <2>2. CASE k \notin SigningKey
    BY <2>2 DEF Missed, AccessTyped
  <2>3. CASE k \in SigningKey
    BY <1>2, <2>1, <2>3, AccessAssumption DEF AccessTyped, Recorded, CacheFollows, Missed
  <2> QED
    BY <2>2, <2>3
<1> QED
  BY <1>1, <1>2

\* A step of a request that leaves the cache and its lock alone.
LEMMA RequestStep ==
    ASSUME AccessInv, NEW r \in Request, NEW q, requests' = [requests EXCEPT ![r] = q],
           RequestOK(q), UNCHANGED <<jwks, StaysOut>>,
           \/ q.at # "fetch" /\ requests[r].at # "fetch" /\ UNCHANGED fetching
           \/ q.at = "fetch" /\ requests[r].at # "fetch" /\ fetching = 0 /\ fetching' = r
    PROVE  AccessInv'
<1> USE DEF AccessInv
<1>1. UNCHANGED <<clock, provider, row, flag, toggles, overlapped>>
  BY DEF StaysOut
<1>2. Warm => Warm'
  BY <1>1 DEF Warm
<1>3. RequestOK(q)'
  BY <1>1, <1>2, StaysOK
<1>4. /\ requests' = [k \in Request |-> requests'[k]] /\ RequestsOK'
      /\ requests'[r] = q /\ \A k \in Request \ {r} : requests'[k] = requests[k]
  BY <1>1, <1>2, <1>3, OneMoves
<1>5. AccessTyped'
  BY <1>1, <1>4 DEF AccessTyped
<1>6. OneFetches'
  BY <1>4, AccessAssumption DEF OneFetches
<1>7. Recorded' /\ CacheFollows' /\ Gate'
  BY <1>1 DEF Recorded, CacheFollows, Gate
<1> QED
  BY <1>4, <1>5, <1>6, <1>7

\* A request arrives.
LEMMA ArriveKeeps == ASSUME AccessInv, NEW r \in Request, Arrive(r) PROVE AccessInv'
<1>1. PICK token \in Token :
        requests' = [requests EXCEPT ![r] =
              [at |-> "keys", token |-> token, want |-> token.asks,
               keys |-> {}, forced |-> FALSE, user |-> NoUser, began |-> clock,
               outcome |-> "none"]]
  BY DEF Arrive
<1>2. PICK q : q = [at |-> "keys", token |-> token, want |-> token.asks,
                    keys |-> {}, forced |-> FALSE, user |-> NoUser, began |-> clock,
                    outcome |-> "none"]
  OBVIOUS
<1>3. q.at = "keys" /\ ~q.forced /\ Filled(q)
  BY <1>2 DEF Filled, AccessInv, AccessTyped
<1>4. RequestOK(q)
  BY <1>3 DEF RequestOK, Waits
<1>5. requests[r].at # "fetch" /\ UNCHANGED <<jwks, fetching, StaysOut>>
  BY DEF Arrive
<1> QED
  BY <1>1, <1>2, <1>3, <1>4, <1>5, RequestStep

\* A request of which some fields change is filled as before.
LEMMA StillFilled ==
    ASSUME NEW old, Filled(old), NEW at, NEW keys, NEW user, NEW forced \in BOOLEAN, NEW outcome,
           old.at # "answered"
    PROVE  LET q == [at |-> at, token |-> old.token, want |-> old.want, keys |-> keys,
                     forced |-> forced, user |-> user, began |-> old.began, outcome |-> outcome] IN
             Filled(q) /\ q.began = clock
BY DEF Filled

\* Keys are read from the cache, or the lock is taken to fetch them.
LEMMA GetKeysKeeps ==
    ASSUME AccessInv, NEW r \in Request, NEW forced \in BOOLEAN,
           requests[r].at = IF forced THEN "rekeys" ELSE "keys", GetKeys(r, forced)
    PROVE  AccessInv'
<1> USE DEF AccessInv
<1>1. PICK old : old = requests[r]
  OBVIOUS
<1>2. Filled(old) /\ Waits(old) /\ old.forced = forced /\ old.at # "answered"
  <2>1. RequestOK(old) /\ old.at \in {"keys", "rekeys"}
    BY <1>1 DEF RequestsOK
  <2>2. Filled(old) /\ Waits(old)
    BY <2>1 DEF RequestOK, Idle0, Verifies, Identified, Told
  <2> QED
    BY <1>1, <2>1, <2>2 DEF Waits, Filled
<1>3. UNCHANGED <<jwks, StaysOut>>
  BY DEF GetKeys
<1>4. CASE /\ IsFresh(forced) /\ UNCHANGED fetching
           /\ requests' = [requests EXCEPT ![r].at = "verify", ![r].keys = jwks.keys]
  <2>1. PICK q : q = [at |-> "verify", token |-> old.token, want |-> old.want, keys |-> jwks.keys,
                      forced |-> forced, user |-> old.user, began |-> old.began, outcome |-> old.outcome]
    OBVIOUS
  <2>2. requests' = [requests EXCEPT ![r] = q]
    <3> DEFINE new == [[old EXCEPT !.at = "verify"] EXCEPT !.keys = jwks.keys]
    <3> DEFINE asked == [at |-> "verify", token |-> old.token, want |-> old.want, keys |-> old.keys,
                         forced |-> forced, user |-> old.user, began |-> old.began, outcome |-> old.outcome]
    <3>1. [old EXCEPT !.at = "verify"] = asked
      BY <1>2 DEF Filled
    <3>2. [asked EXCEPT !.keys = jwks.keys] = q
      BY <2>1
    <3> HIDE DEF asked
    <3>4. new = q
      BY <3>1, <3>2
    <3>3. requests' = [requests EXCEPT ![r] = new]
      BY <1>1, <1>4 DEF AccessTyped
    <3> QED
      BY <3>3, <3>4
  <2>3. Filled(q) /\ q.began = clock
    BY <1>2, <2>1, StillFilled
  <2>4. q.at = "verify" /\ q.keys = jwks.keys /\ q.forced = forced /\ q.token = old.token
    BY <2>1
  <2>5. Warm
    <3>1. CASE forced
      BY <1>2, <3>1 DEF Waits
    <3>2. CASE ~forced
      BY <1>4, <3>2, AccessAssumption DEF Warm, IsFresh, FreshFor, AccessTyped
    <3> QED
      BY <3>1, <3>2
  <2>6. /\ q.token.kid \in jwks.keys => q.token.kid \in SigningKey /\ Accepted(q.token.kid, clock)
        /\ forced /\ q.token.kid \notin jwks.keys => Missed(q.token.kid, clock)
    BY <1>4, <2>5, FreshKeys
  <2>7. RequestOK(q)
    BY <2>3, <2>4, <2>5, <2>6 DEF RequestOK, Verifies, Known, AccessTyped
  <2> QED
    BY <1>1, <1>2, <1>3, <1>4, <2>2, <2>4, <2>7, RequestStep
<1>5. CASE /\ ~IsFresh(forced) /\ fetching = 0 /\ fetching' = r
           /\ Steps(r, "fetch")
  <2>1. PICK q : q = [at |-> "fetch", token |-> old.token, want |-> old.want, keys |-> old.keys,
                      forced |-> forced, user |-> old.user, began |-> old.began, outcome |-> old.outcome]
    OBVIOUS
  <2>2. requests' = [requests EXCEPT ![r] = q]
    <3> DEFINE new == [old EXCEPT !.at = "fetch"]
    <3>1. new = q
      BY <1>2, <2>1 DEF Filled
    <3>2. requests' = [requests EXCEPT ![r] = new]
      BY <1>1, <1>5 DEF AccessTyped, Steps
    <3> QED
      BY <3>1, <3>2
  <2>3. Filled(q) /\ q.at = "fetch" /\ q.forced = forced
    BY <1>2, <2>1, StillFilled
  <2>4. RequestOK(q)
    BY <1>2, <2>3 DEF RequestOK, Waits
  <2> QED
    BY <1>1, <1>2, <1>3, <1>5, <2>2, <2>3, <2>4, RequestStep
<1> QED
  BY <1>4, <1>5 DEF GetKeys

\* A fetch ends: the request moves on, the cache may be filled, the lock is free.
LEMMA FetchEnds ==
    ASSUME AccessInv, NEW r \in Request, NEW q, requests' = [requests EXCEPT ![r] = q],
           requests[r].at = "fetch", q.at # "fetch", fetching' = 0, UNCHANGED StaysOut,
           RequestOK(q)', Warm => Warm', CacheFollows',
           jwks' \in [known : BOOLEAN, keys : SUBSET SigningKey, at : Nat], jwks'.at <= clock
    PROVE  AccessInv'
<1> USE DEF AccessInv
<1>1. UNCHANGED <<clock, provider, row, flag, toggles, overlapped>>
  BY DEF StaysOut
<1>2. /\ requests' = [k \in Request |-> requests'[k]] /\ RequestsOK'
      /\ requests'[r] = q /\ \A k \in Request \ {r} : requests'[k] = requests[k]
  BY <1>1, OneMoves
<1>3. AccessTyped'
  BY <1>1, <1>2 DEF AccessTyped
<1>4. OneFetches'
  BY <1>2, AccessAssumption DEF OneFetches
<1>5. Recorded' /\ Gate'
  BY <1>1 DEF Recorded, Gate
<1> QED
  BY <1>2, <1>3, <1>4, <1>5

\* The provider answers, or what was cached is served once more, or nothing is.
LEMMA FetchedKeeps == ASSUME AccessInv, NEW r \in Request, Fetched(r) PROVE AccessInv'
<1> USE DEF AccessInv
<1>1. PICK old : old = requests[r]
  OBVIOUS
<1>2. requests[r].at = "fetch" /\ fetching' = 0 /\ UNCHANGED StaysOut
  BY DEF Fetched
<1>3. UNCHANGED <<clock, provider, row, flag, toggles, overlapped>>
  BY <1>2 DEF StaysOut
<1>4. Filled(old) /\ old.at = "fetch" /\ old.forced \in BOOLEAN
  <2>1. RequestOK(old) /\ old.at = "fetch"
    BY <1>1, <1>2 DEF RequestsOK
  <2>2. Filled(old)
    BY <2>1 DEF RequestOK, Idle0
  <2> QED
    BY <2>1, <2>2 DEF Filled
<1>5. ASSUME NEW keys \in SUBSET SigningKey,
             requests' = [requests EXCEPT ![r].at = "verify", ![r].keys = keys],
             jwks' = [known |-> TRUE, keys |-> keys, at |-> clock],
             keys = provider.keys \/ ~provider.up
      PROVE  AccessInv'
  <2>1. PICK q : q = [at |-> "verify", token |-> old.token, want |-> old.want, keys |-> keys,
                      forced |-> old.forced, user |-> old.user, began |-> old.began, outcome |-> old.outcome]
    OBVIOUS
  <2>2. requests' = [requests EXCEPT ![r] = q]
    <3> DEFINE new == [[old EXCEPT !.at = "verify"] EXCEPT !.keys = keys]
               asked == [at |-> "verify", token |-> old.token, want |-> old.want, keys |-> old.keys,
                         forced |-> old.forced, user |-> old.user, began |-> old.began, outcome |-> old.outcome]
    <3>1. [old EXCEPT !.at = "verify"] = asked
      BY <1>4 DEF Filled
    <3>2. [asked EXCEPT !.keys = keys] = q
      BY <2>1
    <3> HIDE DEF asked
    <3>3. new = q
      BY <3>1, <3>2
    <3>4. requests' = [requests EXCEPT ![r] = new]
      BY <1>1, <1>5 DEF AccessTyped
    <3> QED
      BY <3>3, <3>4
  <2>3. Filled(q) /\ q.began = clock
    BY <1>4, <2>1, StillFilled
  <2>4. q.at = "verify" /\ q.keys = keys
    BY <2>1
  <2>5. Warm' /\ jwks'.at = clock
    BY <1>3, <1>5, AccessAssumption DEF Warm, AccessTyped
  <2>6. /\ q.token.kid \in keys => q.token.kid \in SigningKey /\ Accepted(q.token.kid, q.began)
        /\ q.token.kid \notin keys => Missed(q.token.kid, q.began)
    BY <1>5 DEF Accepted, Missed
  <2>7. Verifies(q)'
    BY <1>3, <1>5, <2>4, <2>5, <2>6 DEF Verifies, Known, Accepted, Missed
  <2>8. Filled(q)'
    BY <1>3, <2>3 DEF Filled
  <2>9. CacheFollows'
    BY <1>3, <1>5 DEF CacheFollows
  <2>10. /\ jwks' \in [known : BOOLEAN, keys : SUBSET SigningKey, at : Nat] /\ jwks'.at <= clock
         /\ RequestOK(q)'
    BY <1>5, <2>5, <2>7, <2>8 DEF AccessTyped, RequestOK
  <2> QED
    BY <1>2, <2>2, <2>4, <2>5, <2>9, <2>10, FetchEnds
<1>6. ASSUME Answers(r, "unavailable"), UNCHANGED jwks PROVE AccessInv'
  <2>1. PICK q : q = [at |-> "answered", token |-> old.token, want |-> old.want, keys |-> old.keys,
                      forced |-> old.forced, user |-> old.user, began |-> old.began, outcome |-> "unavailable"]
    OBVIOUS
  <2>2. requests' = [requests EXCEPT ![r] = q]
    <3> DEFINE new == [[old EXCEPT !.at = "answered"] EXCEPT !.outcome = "unavailable"]
               asked == [at |-> "answered", token |-> old.token, want |-> old.want, keys |-> old.keys,
                         forced |-> old.forced, user |-> old.user, began |-> old.began, outcome |-> old.outcome]
    <3>1. [old EXCEPT !.at = "answered"] = asked
      BY <1>4 DEF Filled
    <3>2. [asked EXCEPT !.outcome = "unavailable"] = q
      BY <2>1
    <3> HIDE DEF asked
    <3>3. new = q
      BY <3>1, <3>2
    <3>4. requests' = [requests EXCEPT ![r] = new]
      BY <1>1, <1>6 DEF AccessTyped, Answers
    <3> QED
      BY <3>3, <3>4
  <2>3. Filled(q)
    BY <1>4, <2>1, StillFilled
  <2>4. q.at = "answered" /\ q.outcome = "unavailable"
    BY <2>1
  <2>5. Filled(q)' /\ Told(q)' /\ CacheFollows' /\ (Warm => Warm')
    BY <1>3, <1>6, <2>3, <2>4 DEF Filled, Told, CacheFollows, Warm
  <2>6. jwks' \in [known : BOOLEAN, keys : SUBSET SigningKey, at : Nat] /\ jwks'.at <= clock
    BY <1>6 DEF AccessTyped, Recorded
  <2> QED
    BY <1>2, <2>2, <2>4, <2>5, <2>6, FetchEnds DEF RequestOK
<1>7. CASE /\ provider.up
           /\ jwks' = [known |-> TRUE, keys |-> provider.keys, at |-> clock]
           /\ requests' = [requests EXCEPT ![r].at = "verify", ![r].keys = provider.keys]
  <2>1. PICK keys \in SUBSET SigningKey : keys = provider.keys
    BY DEF AccessTyped
  <2> QED
    BY <1>5, <1>7, <2>1
<1>8. CASE /\ ~provider.up /\ jwks.known
           /\ jwks' = [jwks EXCEPT !.at = clock]
           /\ requests' = [requests EXCEPT ![r].at = "verify", ![r].keys = jwks.keys]
  <2>1. PICK keys \in SUBSET SigningKey : keys = jwks.keys
    BY DEF AccessTyped
  <2>2. jwks' = [known |-> TRUE, keys |-> keys, at |-> clock]
    BY <1>8, <2>1 DEF AccessTyped
  <2> QED
    BY <1>5, <1>8, <2>1, <2>2
<1> QED
  BY <1>6, <1>7, <1>8 DEF Fetched

\* The signature and the claims are checked with the keys that were given.
LEMMA VerifyKeeps == ASSUME AccessInv, NEW r \in Request, Verify(r) PROVE AccessInv'
<1> USE DEF AccessInv
<1>1. PICK old : old = requests[r]
  OBVIOUS
<1>2. requests[r].at = "verify" /\ UNCHANGED <<jwks, fetching, StaysOut>>
  BY DEF Verify
<1>3. Filled(old) /\ Verifies(old) /\ old.forced \in BOOLEAN /\ old.began = clock
  <2>1. RequestOK(old) /\ old.at = "verify"
    BY <1>1, <1>2 DEF RequestsOK
  <2>2. Filled(old) /\ Verifies(old)
    BY <2>1 DEF RequestOK, Idle0, Waits, Identified, Told
  <2> QED
    BY <2>1, <2>2 DEF Filled
<1> DEFINE token == old.token
           known == token.kid \in old.keys
<1>4. \/ /\ known /\ token.genuine /\ token.holds
         /\ requests' = [requests EXCEPT ![r].at = "identified", ![r].user = UserOf(token)]
      \/ /\ ~known /\ ~old.forced
         /\ requests' = [requests EXCEPT ![r].at = "rekeys", ![r].forced = TRUE]
      \/ /\ known => ~(token.genuine /\ token.holds)
         /\ known \/ old.forced
         /\ Answers(r, "unauthorized")
  BY <1>1 DEF Verify
<1> DEFINE Next0(at, user, forced, outcome) ==
             [at |-> at, token |-> old.token, want |-> old.want, keys |-> old.keys,
              forced |-> forced, user |-> user, began |-> old.began, outcome |-> outcome]
<1>5. CASE /\ known /\ token.genuine /\ token.holds
           /\ requests' = [requests EXCEPT ![r].at = "identified", ![r].user = UserOf(token)]
  <2>1. PICK q : q = Next0("identified", UserOf(token), old.forced, old.outcome)
    OBVIOUS
  <2>2. requests' = [requests EXCEPT ![r] = q]
    <3> DEFINE new == [[old EXCEPT !.at = "identified"] EXCEPT !.user = UserOf(token)]
               asked == Next0("identified", old.user, old.forced, old.outcome)
    <3>1. [old EXCEPT !.at = "identified"] = asked
      BY <1>3 DEF Filled
    <3>2. [asked EXCEPT !.user = UserOf(token)] = q
      BY <2>1
    <3> HIDE DEF asked
    <3>3. new = q
      BY <3>1, <3>2
    <3>4. requests' = [requests EXCEPT ![r] = new]
      BY <1>1, <1>5 DEF AccessTyped
    <3> QED
      BY <3>3, <3>4
  <2>3. Filled(q)
    BY <1>2, <1>1, <1>3, <2>1, StillFilled
  <2>4. q.at = "identified" /\ q.user = UserOf(q.token) /\ q.token = token /\ q.began = old.began
    BY <2>1
  <2>5. RequestOK(q)
    BY <1>3, <1>5, <2>3, <2>4 DEF RequestOK, Identified, Verifies, Known
  <2> QED
    BY <1>2, <2>2, <2>4, <2>5, RequestStep
<1>6. CASE /\ ~known /\ ~old.forced
           /\ requests' = [requests EXCEPT ![r].at = "rekeys", ![r].forced = TRUE]
  <2>1. PICK q : q = Next0("rekeys", old.user, TRUE, old.outcome)
    OBVIOUS
  <2>2. requests' = [requests EXCEPT ![r] = q]
    <3> DEFINE new == [[old EXCEPT !.at = "rekeys"] EXCEPT !.forced = TRUE]
               asked == Next0("rekeys", old.user, old.forced, old.outcome)
    <3>1. [old EXCEPT !.at = "rekeys"] = asked
      BY <1>3 DEF Filled
    <3>2. [asked EXCEPT !.forced = TRUE] = q
      <4>1. \A f : [asked EXCEPT !.forced = f] = Next0("rekeys", old.user, f, old.outcome)
        OBVIOUS
      <4> HIDE DEF asked, Next0
      <4> QED
        BY <2>1, <4>1, Zenon
    <3> HIDE DEF asked
    <3>3. new = q
      BY <3>1, <3>2
    <3>4. requests' = [requests EXCEPT ![r] = new]
      BY <1>1, <1>6 DEF AccessTyped
    <3> QED
      BY <3>3, <3>4
  <2>3. Filled(q)
    BY <1>1, <1>2, <1>3, <2>1, StillFilled
  <2>4. q.at = "rekeys" /\ q.forced /\ Warm
    BY <1>3, <2>1 DEF Verifies
  <2>5. RequestOK(q)
    BY <2>3, <2>4 DEF RequestOK, Waits
  <2> QED
    BY <1>2, <2>2, <2>4, <2>5, RequestStep
<1>7. CASE /\ known => ~(token.genuine /\ token.holds)
           /\ known \/ old.forced
           /\ Answers(r, "unauthorized")
  <2>1. PICK q : q = Next0("answered", old.user, old.forced, "unauthorized")
    OBVIOUS
  <2>2. requests' = [requests EXCEPT ![r] = q]
    <3> DEFINE new == [[old EXCEPT !.at = "answered"] EXCEPT !.outcome = "unauthorized"]
               asked == Next0("answered", old.user, old.forced, old.outcome)
    <3>1. [old EXCEPT !.at = "answered"] = asked
      BY <1>3 DEF Filled
    <3>2. [asked EXCEPT !.outcome = "unauthorized"] = q
      BY <2>1
    <3> HIDE DEF asked
    <3>3. new = q
      BY <3>1, <3>2
    <3>4. requests' = [requests EXCEPT ![r] = new]
      BY <1>1, <1>7 DEF AccessTyped, Answers
    <3> QED
      BY <3>3, <3>4
  <2>3. Filled(q)
    BY <1>1, <1>2, <1>3, <2>1, StillFilled
  <2>4. q.at = "answered" /\ q.outcome = "unauthorized" /\ q.token = token /\ q.began = old.began
    BY <2>1
  <2>5. token.genuine /\ token.holds => Missed(token.kid, old.began)
    BY <1>3, <1>7 DEF Verifies
  <2>6. RequestOK(q)
    BY <2>3, <2>4, <2>5 DEF RequestOK, Told
  <2> QED
    BY <1>2, <2>2, <2>4, <2>6, RequestStep
<1> HIDE DEF Next0
<1> QED
  BY <1>4, <1>5, <1>6, <1>7

\* The request is served, or refused.
LEMMA ServeKeeps == ASSUME AccessInv, NEW r \in Request, Serve(r) PROVE AccessInv'
<1> USE DEF AccessInv
<1>1. PICK old : old = requests[r]
  OBVIOUS
<1>2. requests[r].at = "identified" /\ UNCHANGED <<jwks, fetching, StaysOut>>
  BY DEF Serve
<1>3. Filled(old) /\ Identified(old) /\ old.forced \in BOOLEAN
  <2>1. RequestOK(old) /\ old.at = "identified"
    BY <1>1, <1>2 DEF RequestsOK
  <2>2. Filled(old) /\ Identified(old)
    BY <2>1 DEF RequestOK, Idle0, Waits, Verifies, Told
  <2> QED
    BY <2>1, <2>2 DEF Filled
<1>4. PICK user, outcome :
        /\ requests' = [requests EXCEPT ![r].at = "answered", ![r].user = user, ![r].outcome = outcome]
        /\ user = ActingUser(old.user, old.token.actsFor)
        /\ outcome = "served" => MayAct(old.user, old.token.actsFor) /\ Resolves(user, old.want)
        /\ outcome # "unauthorized"
  <2> DEFINE user == ActingUser(old.user, old.token.actsFor)
             locked == flag /\ ~IsAdmin(user)
             may == MayAct(old.user, old.token.actsFor)
             served == may /\ ~locked /\ Resolves(user, old.want)
             outcome == IF served THEN "served" ELSE IF may /\ locked THEN "maintenance" ELSE "refused"
  <2>1. requests' = [requests EXCEPT ![r].at = "answered", ![r].user = user, ![r].outcome = outcome]
    BY <1>1 DEF Serve
  <2>2. (outcome = "served" => may /\ Resolves(user, old.want)) /\ outcome # "unauthorized"
    OBVIOUS
  <2> HIDE DEF outcome
  <2> QED
    BY <2>1, <2>2
<1> DEFINE Next0(at, u, o) ==
             [at |-> at, token |-> old.token, want |-> old.want, keys |-> old.keys,
              forced |-> old.forced, user |-> u, began |-> old.began, outcome |-> o]
<1>5. PICK q : q = Next0("answered", user, outcome)
  OBVIOUS
<1>6. requests' = [requests EXCEPT ![r] = q]
  <2> DEFINE first == Next0("answered", old.user, old.outcome)
             second == Next0("answered", user, old.outcome)
             new == [[[old EXCEPT !.at = "answered"] EXCEPT !.user = user] EXCEPT !.outcome = outcome]
  <2>1. [old EXCEPT !.at = "answered"] = first
    BY <1>3 DEF Filled
  <2>2. [first EXCEPT !.user = user] = second
    OBVIOUS
  <2>3. [second EXCEPT !.outcome = outcome] = q
    BY <1>5
  <2> HIDE DEF first, second
  <2>4. new = q
    BY <2>1, <2>2, <2>3
  <2>5. requests' = [requests EXCEPT ![r] = new]
    BY <1>1, <1>4 DEF AccessTyped
  <2> QED
    BY <2>4, <2>5
<1>7. Filled(q)
  BY <1>1, <1>2, <1>3, <1>5, StillFilled
<1>8. /\ q.at = "answered" /\ q.outcome = outcome /\ q.user = user /\ q.token = old.token
      /\ q.want = old.want /\ q.began = old.began
  BY <1>5
<1>9. RequestOK(q)
  BY <1>3, <1>4, <1>7, <1>8 DEF RequestOK, Told, Identified, Known, Rightful
<1> QED
  BY <1>2, <1>6, <1>8, <1>9, RequestStep

-----------------------------------------------------------------------------
(* Maintenance, the provider, and time.                                    *)

\* A step that is none of the requests' leaves them as they are.
LEMMA AllStayOK ==
    ASSUME RequestsOK, UNCHANGED <<clock, provider, jwks, requests>>
    PROVE  RequestsOK'
<1>1. Warm => Warm'
  BY DEF Warm
<1>2. ASSUME NEW k \in Request PROVE RequestOK(requests[k])'
  <2>1. PICK p : p = requests[k]
    OBVIOUS
  <2>2. RequestOK(p)'
    BY <1>1, <2>1, StaysOK DEF RequestsOK
  <2>3. requests'[k] = p
    BY <2>1
  <2> QED
    BY <2>2, <2>3
<1> QED
  BY <1>2 DEF RequestsOK

\* A toggle that is noticed is one all the same.
LEMMA OneToggle ==
    ASSUME AccessTyped, NEW i \in DOMAIN toggles
    PROVE  /\ toggles[i].on \in BOOLEAN
           /\ [toggles[i] EXCEPT !.pending = FALSE] \in [on : BOOLEAN, pending : BOOLEAN]
           /\ ~[toggles[i] EXCEPT !.pending = FALSE].pending
<1> DEFINE Entry == [on : BOOLEAN, pending : BOOLEAN]
<1>1. PICK t : t = toggles[i]
  OBVIOUS
<1>2. t \in Entry
  <2>1. PICK S : S = Entry
    OBVIOUS
  <2>2. toggles \in Seq(S)
    BY <2>1 DEF AccessTyped
  <2> HIDE DEF Entry
  <2>3. DOMAIN toggles = 1 .. Len(toggles)
    BY <2>2
  <2> QED
    BY <1>1, <2>1, <2>2, <2>3, ElementOfSeq
<1>3. \A b \in BOOLEAN : [t EXCEPT !.pending = b] \in Entry /\ [t EXCEPT !.pending = b].pending = b
  BY <1>2
<1> QED
  BY <1>1, <1>2, <1>3, FALSE \in BOOLEAN, Zenon

\* A toggle is begun.
LEMMA ToggleKeeps == ASSUME AccessInv, NEW on \in BOOLEAN, Toggle(on) PROVE AccessInv'
<1> USE DEF AccessInv
<1>1. UNCHANGED <<clock, provider, flag, jwks, fetching, requests>> /\ row' = on
  BY DEF Toggle
<1> DEFINE some == \E i \in DOMAIN toggles : toggles[i].pending
           toggle == [on |-> on, pending |-> TRUE]
<1>2. toggles' = Append(toggles, toggle) /\ overlapped' = (overlapped \/ some)
  BY DEF Toggle
<1>3. /\ toggles' \in Seq([on : BOOLEAN, pending : BOOLEAN]) /\ Len(toggles') = Len(toggles) + 1
      /\ toggles'[Len(toggles) + 1] = toggle /\ \A i \in 1 .. Len(toggles) : toggles'[i] = toggles[i]
  BY <1>2, AppendProperties DEF AccessTyped
<1>4. DOMAIN toggles = 1 .. Len(toggles) /\ DOMAIN toggles' = 1 .. Len(toggles) + 1 /\ Len(toggles) \in Nat
  BY <1>3 DEF AccessTyped
<1>5. overlapped' \in BOOLEAN
  BY <1>2 DEF AccessTyped
<1>6. AccessTyped'
  BY <1>1, <1>3, <1>5 DEF AccessTyped
<1>7. Gate'
  <2>1. CASE overlapped'
    BY <2>1 DEF Gate
  <2>2. CASE ~overlapped'
    <3>1. \A i \in DOMAIN toggles : ~toggles[i].pending
      BY <1>2, <2>2
    <3>2. \A i \in DOMAIN toggles' : toggles'[i].pending <=> i = Len(toggles) + 1
      BY <1>3, <1>4, <3>1
    <3>3. \E i \in DOMAIN toggles' : toggles'[i].pending
      <4>1. Len(toggles) + 1 \in DOMAIN toggles'
        BY <1>4
      <4> QED
        BY <3>2, <4>1
    <3> QED
      BY <1>1, <1>3, <3>2, <3>3 DEF Gate
  <2> QED
    BY <2>1, <2>2
<1>8. Recorded' /\ OneFetches' /\ CacheFollows' /\ RequestsOK'
  BY <1>1, AllStayOK DEF Recorded, OneFetches, CacheFollows
<1> QED
  BY <1>6, <1>7, <1>8

\* A toggle is noticed.
LEMMA NoticeKeeps == ASSUME AccessInv, NEW n \in DOMAIN toggles, Notice(n) PROVE AccessInv'
<1> USE DEF AccessInv
<1>1. /\ UNCHANGED <<clock, provider, row, overlapped, jwks, fetching, requests>>
      /\ flag' = toggles[n].on /\ toggles[n].pending
  BY DEF Notice
<1> DEFINE noticed == [toggles[n] EXCEPT !.pending = FALSE]
<1>2. toggles' = [toggles EXCEPT ![n] = noticed]
  BY DEF Notice, AccessTyped
<1>3. noticed \in [on : BOOLEAN, pending : BOOLEAN] /\ ~noticed.pending /\ toggles[n].on \in BOOLEAN
  BY OneToggle
<1> HIDE DEF noticed
<1>4. /\ toggles' \in Seq([on : BOOLEAN, pending : BOOLEAN]) /\ Len(toggles') = Len(toggles)
      /\ \A i \in 1 .. Len(toggles) : toggles'[i] = IF i = n THEN noticed ELSE toggles[i]
  BY <1>2, <1>3, ExceptSeq DEF AccessTyped
<1>5. DOMAIN toggles = 1 .. Len(toggles) /\ DOMAIN toggles' = 1 .. Len(toggles)
  BY <1>4 DEF AccessTyped
<1>6. AccessTyped'
  BY <1>1, <1>3, <1>4 DEF AccessTyped
<1>7. \A i \in DOMAIN toggles' : toggles'[i].pending => i # n /\ toggles'[i] = toggles[i] /\ toggles[i].pending
  BY <1>3, <1>4, <1>5
<1>8. Gate'
  BY <1>1, <1>5, <1>7 DEF Gate
<1>9. Recorded' /\ OneFetches' /\ CacheFollows' /\ RequestsOK'
  BY <1>1, AllStayOK DEF Recorded, OneFetches, CacheFollows
<1> QED
  BY <1>6, <1>8, <1>9

\* The process starts anew.
LEMMA RebootKeeps == ASSUME AccessInv, Reboot PROVE AccessInv'
<1> USE DEF AccessInv
<1>1. /\ UNCHANGED <<clock, provider, row>> /\ flag' = row /\ overlapped' = FALSE
      /\ jwks' = [known |-> FALSE, keys |-> {}, at |-> 0] /\ fetching' = 0
      /\ requests' = [r \in Request |-> Idle0]
      /\ toggles' = [i \in DOMAIN toggles |-> [toggles[i] EXCEPT !.pending = FALSE]]
  BY DEF Reboot
<1>2. DOMAIN toggles = 1 .. Len(toggles) /\ Len(toggles) \in Nat
  BY DEF AccessTyped
<1>3. \A i \in DOMAIN toggles :
        /\ [toggles[i] EXCEPT !.pending = FALSE] \in [on : BOOLEAN, pending : BOOLEAN]
        /\ ~[toggles[i] EXCEPT !.pending = FALSE].pending
  BY OneToggle
<1>4. toggles' \in Seq([on : BOOLEAN, pending : BOOLEAN]) /\ \A i \in DOMAIN toggles' : ~toggles'[i].pending
  BY <1>1, <1>2, <1>3, SeqDef
<1>5. AccessTyped' /\ Recorded'
  <2>1. jwks' \in [known : BOOLEAN, keys : SUBSET SigningKey, at : Nat] /\ jwks'.at = 0
    BY <1>1
  <2>2. requests' = [r \in Request |-> requests'[r]]
    BY <1>1
  <2> QED
    <3>1. overlapped' \in BOOLEAN /\ flag' \in BOOLEAN /\ row' \in BOOLEAN
      BY <1>1 DEF AccessTyped
    <3>2. AccessTyped'
      BY <1>1, <1>4, <2>1, <2>2, <3>1 DEF AccessTyped
    <3>3. Recorded'
      BY <1>1, <2>1 DEF AccessTyped, Recorded
    <3> QED
      BY <3>2, <3>3
<1>6. OneFetches' /\ CacheFollows' /\ RequestsOK'
  BY <1>1, AccessAssumption DEF OneFetches, CacheFollows, RequestsOK, RequestOK, Idle0
<1>7. Gate'
  BY <1>1, <1>4 DEF Gate
<1> QED
  BY <1>5, <1>6, <1>7

\* The provider publishes other keys, ceases to answer or does again.
LEMMA ProviderKeeps == AccessInv => ((Rotate \/ Outage) => AccessInv')
<1> SUFFICES ASSUME AccessInv, Rotate \/ Outage PROVE AccessInv'
  OBVIOUS
<1> USE DEF AccessInv
<1>1. UNCHANGED <<clock, jwks, fetching, requests, row, flag, toggles, overlapped>>
  BY DEF Rotate, Outage
<1>2. AccessTyped' /\ Recorded'
  <2>1. CASE Rotate
    <3>1. ASSUME NEW k \in SigningKey PROVE provider'.left[k] <= clock
      <4>1. provider'.left[k] = IF k \in provider.keys \ provider'.keys THEN clock ELSE provider.left[k]
        BY <2>1, Rotated
      <4> QED
        BY <4>1 DEF AccessTyped, Recorded
    <3>2. provider'.upSince <= clock /\ jwks.at <= clock
      BY <2>1, Rotated DEF Recorded
    <3> QED
      BY <1>1, <2>1, <3>1, <3>2, Rotated DEF AccessTyped, Recorded
  <2>2. CASE Outage
    BY <1>1, <2>2, Interrupted DEF AccessTyped, Recorded
  <2> QED
    BY <2>1, <2>2
<1>3. CacheFollows'
  BY CacheStill
<1>4. ASSUME NEW r \in Request PROVE RequestOK(requests[r])'
  <2>1. PICK q : q = requests[r]
    OBVIOUS
  <2>2. RequestOK(q)
    BY <2>1 DEF RequestsOK
  <2>3. ASSUME q = Idle0 PROVE RequestOK(q)'
    BY <2>3 DEF RequestOK, Idle0
  <2>4. ASSUME Filled(q) PROVE RequestOK(q)'
    <3>1. q.began \in Nat /\ q.began <= clock
      BY <2>4 DEF Filled
    <3>2. PICK began \in Nat : began = q.began
      BY <3>1
    <3> DEFINE k == q.token.kid
    <3>3. /\ Missed(k, began) => Missed(k, began)'
          /\ k \in SigningKey /\ Accepted(k, began) => Accepted(k, began)'
      BY <3>1, <3>2, ReasonsStay
    <3>4. Missed(q.token.kid, q.began) => Missed(q.token.kid, q.began)'
      BY <3>2, <3>3
    <3>5. Known(q) => Known(q)'
      BY <3>2, <3>3 DEF Known
    <3>6. Filled(q)' /\ (Warm => Warm')
      BY <1>1, <2>4 DEF Filled, Warm
    <3>7. /\ Waits(q) => Waits(q)'
          /\ Identified(q) => Identified(q)'
      BY <3>5, <3>6 DEF Waits, Identified
    <3>8. Verifies(q) => Verifies(q)'
      BY <3>4, <3>5, <3>6 DEF Verifies
    <3>9. Told(q) => Told(q)'
      BY <3>4, <3>5 DEF Told, Rightful
    <3> QED
      BY <2>2, <3>6, <3>7, <3>8, <3>9 DEF RequestOK, Idle0
  <2>5. RequestOK(q)'
    BY <2>2, <2>3, <2>4 DEF RequestOK
  <2>6. requests'[r] = q
    BY <1>1, <2>1
  <2> QED
    BY <2>5, <2>6
<1>5. OneFetches' /\ Gate' /\ RequestsOK'
  BY <1>1, <1>4 DEF OneFetches, Gate, RequestsOK
<1> QED
  BY <1>2, <1>3, <1>5

\* Time passes, while no request is in progress.
LEMMA TickKeeps == ASSUME AccessInv, Tick PROVE AccessInv'
<1> USE DEF AccessInv
<1>1. /\ UNCHANGED <<provider, jwks, fetching, requests, row, flag, toggles, overlapped>>
      /\ clock' = clock + 1 /\ \A r \in Request : requests[r].at \in {"idle", "answered"}
  BY DEF Tick
<1>2. AccessTyped' /\ Recorded'
  BY <1>1 DEF AccessTyped, Recorded
<1>3. ASSUME NEW r \in Request PROVE RequestOK(requests[r])'
  <2>1. PICK q : q = requests[r]
    OBVIOUS
  <2>2. RequestOK(q) /\ q.at \in {"idle", "answered"}
    BY <1>1, <2>1 DEF RequestsOK
  <2>3. q = Idle0 \/ (Filled(q) /\ Told(q))
    BY <2>2 DEF RequestOK, Waits, Verifies, Identified
  <2>4. Filled(q) /\ q.at = "answered" => Filled(q)'
    BY <1>1 DEF Filled, AccessTyped
  <2>5. Told(q) => Told(q)'
    BY <1>1 DEF Told, Known, Rightful, Missed, Accepted
  <2>6. RequestOK(q)'
    BY <2>3, <2>4, <2>5 DEF RequestOK, Told
  <2>7. requests'[r] = q
    BY <1>1, <2>1
  <2> QED
    BY <2>6, <2>7
<1>4. OneFetches' /\ CacheFollows' /\ Gate' /\ RequestsOK'
  BY <1>1, <1>3 DEF OneFetches, CacheFollows, Gate, RequestsOK
<1> QED
  BY <1>2, <1>4

-----------------------------------------------------------------------------

\* At first nobody asked, nothing is cached and nothing is under way.
LEMMA AccessBegins == AccessInit => AccessInv
<1> SUFFICES ASSUME AccessInit PROVE AccessInv
  OBVIOUS
<1>1. provider \in [keys : SUBSET SigningKey, up : BOOLEAN, upSince : Nat, rotations : Nat,
                    outages : Nat, since : [SigningKey -> Nat], left : [SigningKey -> Nat]]
      /\ provider.upSince = 0 /\ \A k \in SigningKey : provider.left[k] = 0
  <2>1. PICK zero : zero = [k \in SigningKey |-> 0]
    OBVIOUS
  <2>2. PICK up \in BOOLEAN : up = TRUE
    OBVIOUS
  <2>3. provider = [keys |-> FirstKeys, up |-> up, upSince |-> 0, rotations |-> 0, outages |-> 0,
                    since |-> zero, left |-> zero]
    BY <2>1, <2>2, Zenon DEF AccessInit
  <2>4. zero \in [SigningKey -> Nat] /\ \A k \in SigningKey : zero[k] = 0
    BY <2>1
  <2> QED
    BY <2>3, <2>4, AccessAssumption
<1>2. jwks = [known |-> FALSE, keys |-> {}, at |-> 0]
  BY DEF AccessInit
<1>3. row \in BOOLEAN /\ flag \in BOOLEAN /\ overlapped \in BOOLEAN /\ flag = row
  BY DEF AccessInit
<1>4. toggles \in Seq([on : BOOLEAN, pending : BOOLEAN])
  BY DEF AccessInit
<1>5. AccessTyped /\ Recorded
  BY <1>1, <1>2, <1>3, <1>4 DEF AccessInit, AccessTyped, Recorded
<1>6. OneFetches /\ CacheFollows /\ RequestsOK
  BY <1>2, AccessAssumption DEF AccessInit, OneFetches, CacheFollows, RequestsOK, RequestOK, Idle0
<1>7. Gate
  BY <1>3 DEF AccessInit, Gate
<1> QED
  BY <1>5, <1>6, <1>7 DEF AccessInv

\* The invariant holds of every behaviour.
LEMMA AccessAlways == AccessSpec => []AccessInv
<1>1. AccessInv /\ [AccessNext]_accessVars => AccessInv'
  <2> SUFFICES ASSUME AccessInv, [AccessNext]_accessVars PROVE AccessInv'
    OBVIOUS
  <2>1. ASSUME NEW r \in Request, Arrive(r) PROVE AccessInv'
    BY <2>1, ArriveKeeps
  <2>2. ASSUME NEW r \in Request, Keys(r) PROVE AccessInv'
    <3>1. PICK forced \in BOOLEAN : forced = FALSE
      OBVIOUS
    <3>2. requests[r].at = (IF forced THEN "rekeys" ELSE "keys") /\ GetKeys(r, forced)
      BY <2>2, <3>1 DEF Keys
    <3> QED
      BY <3>2, GetKeysKeeps
  <2>3. ASSUME NEW r \in Request, Rekeys(r) PROVE AccessInv'
    <3>1. PICK forced \in BOOLEAN : forced = TRUE
      OBVIOUS
    <3>2. requests[r].at = (IF forced THEN "rekeys" ELSE "keys") /\ GetKeys(r, forced)
      BY <2>3, <3>1 DEF Rekeys
    <3> QED
      BY <3>2, GetKeysKeeps
  <2>4. ASSUME NEW r \in Request, Fetched(r) PROVE AccessInv'
    BY <2>4, FetchedKeeps
  <2>5. ASSUME NEW r \in Request, Verify(r) PROVE AccessInv'
    BY <2>5, VerifyKeeps
  <2>6. ASSUME NEW r \in Request, Serve(r) PROVE AccessInv'
    BY <2>6, ServeKeeps
  <2>7. ASSUME NEW on \in BOOLEAN, Toggle(on) PROVE AccessInv'
    BY <2>7, ToggleKeeps
  <2>8. ASSUME NEW i \in DOMAIN toggles, Notice(i) PROVE AccessInv'
    BY <2>8, NoticeKeeps
  <2>9. CASE Reboot
    BY <2>9, RebootKeeps
  <2>10. CASE Rotate \/ Outage
    BY <2>10, ProviderKeeps
  <2>11. CASE Tick
    BY <2>11, TickKeeps
  <2>12. CASE UNCHANGED accessVars
    <3>1. UNCHANGED <<clock, provider, jwks, fetching, requests, row, flag, toggles, overlapped>>
      BY <2>12 DEF accessVars
    <3>2. RequestsOK'
      BY <3>1, AllStayOK DEF AccessInv
    <3> QED
      BY <3>1, <3>2 DEF AccessInv, AccessTyped, Recorded, OneFetches, CacheFollows, Gate
  <2> QED
    BY <2>1, <2>2, <2>3, <2>4, <2>5, <2>6, <2>7, <2>8, <2>9, <2>10, <2>11, <2>12 DEF AccessNext
<1> QED
  BY AccessBegins, <1>1, PTL DEF AccessSpec

\* A genuine token is refused for its key, or a withdrawn key accepted, only for a reason.
LEMMA ReasonsGiven == AccessInv => KeysHeal
<1> SUFFICES ASSUME AccessInv, NEW r \in Answered
             PROVE  LET request == requests[r]
                        kid == request.token.kid
                    IN  /\ request.outcome = "unauthorized" /\ request.token.genuine /\ request.token.holds
                           => \/ kid \notin provider.keys \/ ~provider.up
                              \/ provider.since[kid] + MinInterval > request.began
                              \/ provider.upSince > 0 /\ provider.upSince + MinInterval > request.began
                        /\ request.outcome = "served" /\ kid \notin provider.keys
                           => request.began < provider.left[kid] + Ttl
                              \/ ~provider.up \/ provider.upSince >= provider.left[kid]
  BY DEF KeysHeal
<1>1. Told(requests[r])
  BY DEF AccessInv, RequestsOK, RequestOK, Answered, Idle0, Waits, Verifies, Identified
<1> QED
  BY <1>1 DEF Told, Known, Missed, Accepted

\* Who may write a group's workspace, or read it, is granted that by an entry of his claim.
LEMMA ClaimGrants ==
    ASSUME NEW token, NEW group
    PROVE  /\ group \in AllGroups(UserOf(token)) =>
                {e \in token.entries : e.id = group /\ e.id \in Usable} # {}
           /\ group \in UserOf(token).write =>
                \E e \in {e \in token.entries : e.id = group /\ e.id \in Usable} :
                   e.permission \in {WriteSuffix, "none"}
<1>1. UserOf(token).write = WriteIds(token) /\ UserOf(token).read = ReadIds(token)
  BY DEF UserOf
<1>2. group \in WriteIds(token) =>
        \E e \in token.entries : e.id = group /\ e.id \in Usable /\ e.permission \in {WriteSuffix, "none"}
  BY DEF WriteIds, Claimed
<1>3. group \in ReadIds(token) => \E e \in token.entries : e.id = group /\ e.id \in Usable
  BY DEF ReadIds, Claimed
<1> QED
  BY <1>1, <1>2, <1>3 DEF AllGroups

\* Who is served may do what he asked for, himself or for another.
LEMMA RightsGiven == AccessInv => RightlyServed
<1> SUFFICES ASSUME AccessInv PROVE RightlyServed
  OBVIOUS
<1>1. ASSUME NEW r \in Answered, requests[r].outcome = "served"
      PROVE  LET request == requests[r]
                 want == request.want
                 granting == {e \in request.token.entries : e.id = want.group /\ e.id \in Usable}
             IN /\ want.group \in StoresOf(request.user, want.write)
                /\ request.token.actsFor # "none" =>
                      want.group = "~" /\ request.user.id = request.token.actsFor
                /\ want.group # "~" =>
                      /\ granting # {}
                      /\ want.write => \E e \in granting : e.permission \in {WriteSuffix, "none"}
  <2> DEFINE q == requests[r]
             want == q.want
             user == q.user
  <2>1. Rightful(q)
    BY <1>1 DEF AccessInv, RequestsOK, RequestOK, Answered, Idle0, Waits, Verifies, Identified, Told
  <2>2. want.group = "~" \/ (want.group \in AllGroups(user) /\ (want.write => want.group \in user.write))
    BY <2>1 DEF Rightful, Resolves, GroupStore
  <2>3. want.group \in StoresOf(user, want.write)
    BY <2>2 DEF StoresOf
  <2>4. CASE q.token.actsFor = "none"
    <3>1. user = UserOf(q.token)
      BY <2>1, <2>4 DEF Rightful, ActingUser
    <3> QED
      BY <2>2, <2>3, <2>4, <3>1, ClaimGrants
  <2>5. CASE q.token.actsFor # "none"
    <3>1. user = [NoUser EXCEPT !.id = q.token.actsFor]
      BY <2>1, <2>5 DEF Rightful, ActingUser
    <3>2. user.id = q.token.actsFor /\ user.read = {} /\ user.write = {}
      BY <3>1 DEF NoUser
    <3>3. want.group = "~"
      BY <2>2, <3>2 DEF AllGroups
    <3> QED
      BY <2>3, <3>2, <3>3
  <2> QED
    BY <2>4, <2>5
<1>2. overlapped \/ (\E i \in DOMAIN toggles : toggles[i].pending) \/ flag = row
  BY DEF AccessInv, Gate
<1> QED
  BY <1>1, <1>2 DEF RightlyServed

\* Keys that rotate under their cache, an unreachable provider, groups, delegation and
\* maintenance let nobody to what is not his, nor keep him out for long (auth.py,
\* common.py, maintenance.py).
THEOREM AccessIsRight == AccessSpec => []AccessRight
<1>1. AccessInv => AccessRight
  BY ReasonsGiven, RightsGiven DEF AccessRight
<1> QED
  BY AccessAlways, <1>1, PTL

\* Two requests never fetch the keys at once (_SingleFlightCache).
THEOREM FetchedOnce == AccessSpec => [](\A r, q \in Request :
    requests[r].at = "fetch" /\ requests[q].at = "fetch" => r = q)
<1>1. AccessInv => \A r, q \in Request : requests[r].at = "fetch" /\ requests[q].at = "fetch" => r = q
  BY DEF AccessInv, OneFetches
<1> QED
  BY AccessAlways, <1>1, PTL
===============================================================================
