-------------------------------- MODULE Access --------------------------------
(***************************************************************************)
(* From a token to a casebase (auth.py, store.py, server/common.py,        *)
(* server/maintenance.py): the provider's keys are cached and refreshed by *)
(* one request at a time, a token that names a key not cached refreshes    *)
(* them early, its claims become the user with his groups, an admin may    *)
(* act for another, maintenance locks the rest out, and a path resolves to *)
(* a casebase with the grant the token gives.                              *)
(***************************************************************************)
EXTENDS Naturals, Sequences, FiniteSets

CONSTANTS
    Request,         \* the requests, 1..n, arriving in this order
    SigningKey,      \* the provider's signing keys
    FirstKeys,       \* the ones published at first
    Token,           \* the tokens sent, and what is asked with them: records, see MCTools
    AdminRole, WriteSuffix,
    DefaultWrite,    \* claims.default_group_permission is "write"
    Usable,          \* the group ids that can name a workspace
    KnownUsers,      \* the users that left a footprint
    Ttl, MinInterval,\* jwks_cache_ttl, jwks_force_refresh_min_interval_seconds
    MaxTime, MaxRotations, MaxToggles \* bounds; time passes between requests, and without a toggle

\* A cached key set lives for some time, and so does the least interval between two
\* forced fetches (config.py: 3600 and 60 seconds).
ASSUME AccessAssumption ==
    Ttl \in Nat \ {0} /\ MinInterval \in Nat \ {0} /\ FirstKeys \subseteq SigningKey /\ 0 \notin Request

VARIABLES
    clock,     \* time.time()
    provider,  \* what the provider publishes, and since when it answers
    jwks,      \* the cache of its keys
    fetching,  \* who holds the cache's lock, 0 for none
    requests,  \* each request: its step, token and outcome
    row,       \* the persisted maintenance flag
    flag,      \* the flag requests are gated on
    toggles,   \* the admins' toggles under way: what each persisted
    overlapped \* two of them were under way at once

accessVars == <<clock, provider, jwks, fetching, requests, row, flag, toggles, overlapped>>

NoUser == [id |-> "none", read |-> {}, write |-> {}, roles |-> {}]
Idle0 == [at |-> "idle"]
Steps(r, pc) == requests' = [requests EXCEPT ![r].at = pc]
Answers(r, what) == requests' = [requests EXCEPT ![r].at = "answered", ![r].outcome = what]
StaysOut == <<clock, provider, row, flag, toggles, overlapped>>

-----------------------------------------------------------------------------
(* Who a token is.                                                         *)

\* _extract_groups: unusable ids are dropped, a group named twice keeps the wider
\* permission.
Claimed(token) == {e \in token.entries : e.id \in Usable}
WriteIds(token) ==
    {e.id : e \in {e \in Claimed(token) :
        e.permission = WriteSuffix \/ (e.permission = "none" /\ DefaultWrite)}}
ReadIds(token) == {e.id : e \in Claimed(token)} \ WriteIds(token)

\* user_from_claims.
UserOf(token) == [id |-> token.sub, read |-> ReadIds(token), write |-> WriteIds(token),
                  roles |-> token.roles]
IsAdmin(user) == AdminRole \in user.roles
AllGroups(user) == user.read \cup user.write

\* Membership is enough for a grant to write.
GroupStore_Member(user, group, write) == group \in AllGroups(user)

\* User.group_store: refused to all but members, and a write to readers.
GroupStore(user, group, write) == group \in AllGroups(user) /\ (write => group \in user.write)

\* resolve_workspace_path, as the routes ask for a casebase ...
Resolves(user, want) == want.group = "~" \/ GroupStore(user, want.group, want.write)

\* ... and User.stores, as an agent's run and the search do.
StoresOf(user, write) == {"~"} \cup (IF write THEN user.write ELSE AllGroups(user))

-----------------------------------------------------------------------------
(* The cache of keys (_SingleFlightCache, JWKSFetcher).                    *)

\* _fresh: a forced refresh, too, leaves some time between two fetches.
FreshFor(force) == IF force THEN MinInterval ELSE Ttl

IsFresh(force) == jwks.known /\ clock - jwks.at < FreshFor(force)

\* get: a fresh value at once, else the lock, and the value again that may have been
\* fetched while it was waited for.
GetKeys(r, force) ==
    /\ \/ /\ IsFresh(force)
          /\ requests' = [requests EXCEPT ![r].at = "verify", ![r].keys = jwks.keys]
          /\ UNCHANGED fetching
       \/ /\ ~IsFresh(force) /\ fetching = 0
          /\ fetching' = r
          /\ Steps(r, "fetch")
    /\ UNCHANGED <<jwks, StaysOut>>

\* The provider answers, or a failure serves what was cached and waits for as long as a
\* success would; without anything cached it is the request's.
Fetched(r) ==
    /\ requests[r].at = "fetch"
    /\ fetching' = 0
    /\ \/ /\ provider.up
          /\ jwks' = [known |-> TRUE, keys |-> provider.keys, at |-> clock]
          /\ requests' = [requests EXCEPT ![r].at = "verify", ![r].keys = provider.keys]
       \/ /\ ~provider.up /\ jwks.known
          /\ jwks' = [jwks EXCEPT !.at = clock]
          /\ requests' = [requests EXCEPT ![r].at = "verify", ![r].keys = jwks.keys]
       \/ /\ ~provider.up /\ ~jwks.known
          /\ Answers(r, "unavailable")
          /\ UNCHANGED jwks
    /\ UNCHANGED StaysOut

-----------------------------------------------------------------------------
(* A request.                                                              *)

Arrive(r) ==
    /\ requests[r].at = "idle" /\ \A q \in Request : q < r => requests[q].at # "idle"
    /\ \E token \in Token :
          requests' = [requests EXCEPT ![r] =
              [at |-> "keys", token |-> token, want |-> token.asks,
               keys |-> {}, forced |-> FALSE, user |-> NoUser, began |-> clock,
               outcome |-> "none"]]
    /\ UNCHANGED <<jwks, fetching, StaysOut>>

Keys(r) == requests[r].at = "keys" /\ GetKeys(r, FALSE)
Rekeys(r) == requests[r].at = "rekeys" /\ GetKeys(r, TRUE)

\* validate_jwt_token: only a key id that is not cached refreshes, and once; claims that
\* do not hold, or a subject that is no user id, are refused.
Verify(r) ==
    /\ requests[r].at = "verify"
    /\ LET token == requests[r].token
           known == token.kid \in requests[r].keys
       IN \/ /\ known /\ token.genuine /\ token.holds
             /\ requests' = [requests EXCEPT ![r].at = "identified", ![r].user = UserOf(token)]
          \/ /\ ~known /\ ~requests[r].forced
             /\ requests' = [requests EXCEPT ![r].at = "rekeys", ![r].forced = TRUE]
          \/ /\ known => ~(token.genuine /\ token.holds)
             /\ known \/ requests[r].forced
             /\ Answers(r, "unauthorized")
    /\ UNCHANGED <<jwks, fetching, StaysOut>>

\* _impersonate: an admin acts as a user that is known, with none of his own groups or
\* roles, nor any of the other's.
ActingUser(actor, target) == IF target = "none" THEN actor ELSE [NoUser EXCEPT !.id = target]
MayAct(actor, target) == target = "none" \/ (IsAdmin(actor) /\ target \in KnownUsers)

\* get_current_user, enforce_maintenance, then the route's own path.
Serve(r) ==
    /\ requests[r].at = "identified"
    /\ LET actor == requests[r].user
           target == requests[r].token.actsFor
           user == ActingUser(actor, target)
           locked == flag /\ ~IsAdmin(user)
           served == MayAct(actor, target) /\ ~locked /\ Resolves(user, requests[r].want)
       IN requests' = [requests EXCEPT ![r].at = "answered", ![r].user = user,
             ![r].outcome = IF served THEN "served"
                            ELSE IF MayAct(actor, target) /\ locked THEN "maintenance" ELSE "refused"]
    /\ UNCHANGED <<jwks, fetching, StaysOut>>

-----------------------------------------------------------------------------
(* Maintenance mode.                                                       *)

\* PUT /admin/maintenance: the row first ...
Toggle(on) ==
    /\ Len(toggles) < MaxToggles /\ clock = 0
    /\ row' = on
    /\ overlapped' = (overlapped \/ \E i \in DOMAIN toggles : toggles[i].pending)
    /\ toggles' = Append(toggles, [on |-> on, pending |-> TRUE])
    /\ UNCHANGED <<clock, provider, flag, jwks, fetching, requests>>

\* ... and the flag next.
Notice(i) ==
    /\ toggles[i].pending
    /\ toggles' = [toggles EXCEPT ![i].pending = FALSE]
    /\ flag' = toggles[i].on
    /\ UNCHANGED <<clock, provider, row, overlapped, jwks, fetching, requests>>

\* The process starts anew between any two steps: load_persisted_state.
Reboot ==
    /\ \E i \in DOMAIN toggles : toggles[i].pending
    /\ flag' = row
    /\ toggles' = [i \in DOMAIN toggles |-> [toggles[i] EXCEPT !.pending = FALSE]]
    /\ overlapped' = FALSE
    /\ jwks' = [known |-> FALSE, keys |-> {}, at |-> 0]
    /\ fetching' = 0
    /\ requests' = [r \in Request |-> Idle0]
    /\ UNCHANGED <<clock, provider, row>>

-----------------------------------------------------------------------------
(* The provider (external).                                                *)

\* It publishes a new key, or withdraws one of several.
Rotate ==
    /\ provider.rotations < MaxRotations /\ toggles = << >>
    /\ \E keys \in SUBSET SigningKey :
          /\ keys # {} /\ keys # provider.keys
          /\ provider' = [provider EXCEPT !.keys = keys, !.rotations = @ + 1,
                !.since = [k \in SigningKey |-> IF k \in keys \cap provider.keys THEN provider.since[k] ELSE clock],
                !.left = [k \in SigningKey |-> IF k \in provider.keys \ keys THEN clock ELSE provider.left[k]]]
    /\ UNCHANGED <<clock, jwks, fetching, requests, row, flag, toggles, overlapped>>

Outage ==
    /\ provider.outages < MaxRotations /\ toggles = << >>
    /\ provider' = [provider EXCEPT !.up = ~@, !.upSince = clock, !.outages = @ + 1]
    /\ UNCHANGED <<clock, jwks, fetching, requests, row, flag, toggles, overlapped>>

Tick ==
    /\ clock < MaxTime /\ toggles = << >>
    /\ \A r \in Request : requests[r].at \in {"idle", "answered"}
    /\ clock' = clock + 1
    /\ UNCHANGED <<provider, jwks, fetching, requests, row, flag, toggles, overlapped>>

-----------------------------------------------------------------------------
AccessInit ==
    /\ clock = 0
    /\ provider = [keys |-> FirstKeys, up |-> TRUE, upSince |-> 0, rotations |-> 0, outages |-> 0,
                   since |-> [k \in SigningKey |-> 0], left |-> [k \in SigningKey |-> 0]]
    /\ jwks = [known |-> FALSE, keys |-> {}, at |-> 0]
    /\ fetching = 0
    /\ requests = [r \in Request |-> Idle0]
    /\ row = FALSE /\ flag = FALSE
    /\ toggles = << >> /\ overlapped = FALSE

AccessNext ==
    \/ \E r \in Request :
          \/ Arrive(r) \/ Keys(r) \/ Rekeys(r) \/ Fetched(r) \/ Verify(r) \/ Serve(r)
    \/ \E on \in BOOLEAN : Toggle(on)
    \/ \E i \in DOMAIN toggles : Notice(i)
    \/ Reboot \/ Rotate \/ Outage \/ Tick

AccessSpec == AccessInit /\ [][AccessNext]_accessVars

-----------------------------------------------------------------------------
Answered == {r \in Request : requests[r].at = "answered"}

(* A rotation heals by itself: a genuine token is refused for its key only if   *)
(* the key was published, or the provider came back, within the least interval  *)
(* between two forced fetches of when it was sent, or one of the two ended; and *)
(* a key withdrawn for a cache's lifetime is accepted only if the provider did  *)
(* not answer since (_SingleFlightCache, validate_jwt_token).                   *)
KeysHeal ==
    \A r \in Answered :
        LET request == requests[r]
            kid == request.token.kid
        IN  /\ request.outcome = "unauthorized" /\ request.token.genuine /\ request.token.holds
               => \/ kid \notin provider.keys \/ ~provider.up
                  \/ provider.since[kid] + MinInterval > request.began
                  \/ provider.upSince > 0 /\ provider.upSince + MinInterval > request.began
            /\ request.outcome = "served" /\ kid \notin provider.keys
               => request.began < provider.left[kid] + Ttl
                  \/ ~provider.up \/ provider.upSince >= provider.left[kid]

(* Who is served may do what his token says, by a route as by a run: writes     *)
(* where some entry of the claim grants it, reads where any entry names the     *)
(* group; who acts for another reaches the other's own casebase alone. And the  *)
(* gate follows the row, unless two toggles overlapped (README, Departures).    *)
RightlyServed ==
    /\ \A r \in Answered :
          LET request == requests[r]
              want == request.want
              granting == {e \in request.token.entries : e.id = want.group /\ e.id \in Usable}
          IN request.outcome = "served" =>
                /\ want.group \in StoresOf(request.user, want.write)
                /\ request.token.actsFor # "none" =>
                      want.group = "~" /\ request.user.id = request.token.actsFor
                /\ want.group # "~" =>
                      /\ granting # {}
                      /\ want.write => \E e \in granting : e.permission \in {WriteSuffix, "none"}
    /\ overlapped \/ (\E i \in DOMAIN toggles : toggles[i].pending) \/ flag = row

(* Neither keys that rotate under their cache nor groups, delegation and         *)
(* maintenance serve anybody what is not theirs, or refuse it for long.          *)
AccessRight == KeysHeal /\ RightlyServed
===============================================================================
