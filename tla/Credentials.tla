------------------------------ MODULE Credentials ------------------------------
(***************************************************************************)
(* API keys, the tokens exchanged for them, refresh tokens and magic       *)
(* links: the handlers of server/routes.rs, admin_routes.rs,               *)
(* share_link_routes.rs and api_key_self_service_routes.rs over the        *)
(* records of engine/system_store.rs, the rate limiter, and the two        *)
(* middlewares that admit a request.  Records are JSON files that a        *)
(* handler reads and later writes back, so a handler is several steps and  *)
(* handlers overlap.  Hashes and signatures are abstracted: a secret is    *)
(* known by its identifier and a token by its claims.                      *)
(***************************************************************************)
EXTENDS Integers, Sequences, FiniteSets

CONSTANTS Accounts,          \* accounts other than root
          KeyIds, RefreshIds, LinkIds,    \* identifiers, used in order
          Handlers,       \* handlers that may be running at once
          Root, NoUser,   \* the nil UUID; the owner of a share key
          Unset, Gone,  \* no record yet; a record that was deleted
          TokenLife, RefreshLife, LinkLife, KeyLives,
          Leeway,         \* what the JWT library adds to an expiry
          MaxRequests, Window,            \* of the rate limiter
          MaxWindows, WindowsDropped,     \* its capacity and what a purge drops
          CrMixes           \* what a behaviour may do: names of actions, how often, how long

Owners == Accounts \cup {Root, NoUser}
KeyRecord == [user : Owners, expires : Nat, revoked : BOOLEAN, label : 0 .. 1]
RefreshRecord == [user : Owners, key : KeyIds, expires : Nat, revoked : BOOLEAN]
LinkRecord == [user : Accounts, expires : Nat, used : BOOLEAN]

ASSUME CredentialsAssumption ==
  /\ Accounts \cap {Root, NoUser} = {} /\ Root # NoUser
  /\ KeyIds \cup RefreshIds \cup LinkIds \cup Handlers \subseteq Nat
  /\ {TokenLife, RefreshLife, LinkLife, Leeway, MaxRequests, Window, MaxWindows, WindowsDropped}
       \cup KeyLives \subseteq Nat
  /\ MaxRequests > 0 /\ WindowsDropped > 0
  /\ \E l \in KeyLives : \A m \in KeyLives : m <= l
  /\ Unset \notin Nat \cup KeyRecord \cup RefreshRecord \cup LinkRecord \cup {Gone}

VARIABLES
  crMix,        \* the mix of this behaviour
  crBegun,      \* handlers begun so far
  now,
  active,     \* [Accounts -> BOOLEAN], User.is_active
  keys,       \* [KeyIds -> ApiKeyRecord or Unset]
  key_cache,  \* [KeyIds -> [found : record or Unset] or Unset]
  key_load,   \* a load of the key cache that has read and not yet inserted
  refreshes,  \* [RefreshIds -> RefreshTokenRecord, Unset or Gone]
  links,      \* [LinkIds -> MagicLinkRecord, Unset or Gone]
  tokens,     \* claims of the tokens handed out
  windows,    \* the rate limiter: attempts granted and remembered, by key
  handler,    \* [Handlers -> what the handler has read, or Unset]
  served,     \* the last request and whether it was admitted
  spent,      \* tokens issued for each magic link and refresh token
  ended,      \* [KeyIds -> when the revocation was acknowledged, or Unset]
  crBlame       \* the overlaps this behaviour has met

crVars == <<crMix, crBegun, now, active, keys, key_cache, key_load, refreshes, links, tokens, windows,
            handler, served, spent, ended, crBlame>>
records == <<active, keys, refreshes, links>>
caches == <<key_cache, key_load>>
limiter == windows
history == <<served, spent, ended, crBlame>>

Secrets == ({"link"} \X LinkIds) \cup ({"refresh"} \X RefreshIds)
LimiterKeys == ({"token"} \X KeyIds) \cup ({"email"} \X Accounts)
Lesser(a, b) == IF a < b THEN a ELSE b

Present(record) == record \notin {Unset, Gone}

CrMay(name) == name \in crMix.actions
CrBegin == crBegun < crMix.handlers /\ crBegun' = crBegun + 1
CrFree(h) == handler[h] = Unset /\ \A g \in Handlers : g < h => handler[g] # Unset
Unused(f) == {i \in DOMAIN f : f[i] = Unset /\ \A j \in DOMAIN f : j < i => f[j] # Unset}

\* bootstrap_root_key: the first start finds no key and makes one for root.
Bootstrapped == [k \in KeyIds |->
  IF \A j \in KeyIds : k <= j
  THEN [user |-> Root, expires |-> CHOOSE l \in KeyLives : \A m \in KeyLives : m <= l, revoked |-> FALSE, label |-> 0]
  ELSE Unset]

CrInit ==
  /\ crMix \in CrMixes
  /\ crBegun = 0 /\ now = 0
  /\ active = [u \in Accounts |-> TRUE]
  /\ keys = Bootstrapped
  /\ key_cache = [k \in KeyIds |-> Unset] /\ key_load = Unset
  /\ refreshes = [r \in RefreshIds |-> Unset]
  /\ links = [l \in LinkIds |-> Unset]
  /\ tokens = {}
  /\ windows = [w \in LimiterKeys |-> <<>>]
  /\ handler = [h \in Handlers |-> Unset]
  /\ served = [token |-> Unset, admitted |-> FALSE, late |-> FALSE]
  /\ spent = [s \in Secrets |-> 0]
  /\ ended = [k \in KeyIds |-> Unset]
  /\ crBlame = {}

-----------------------------------------------------------------------------
(* The rate limiter *)

Recent(times) == SelectSeq(times, LAMBDA t : now - t < Window)

\* The windows with the oldest last attempt go when there are too many.
Purged ==
  LET kept == {w \in LimiterKeys : windows[w] # <<>>}
      Last(w) == windows[w][Len(windows[w])]
      Older(w) == {v \in kept : Last(v) < Last(w)}
  IN  IF Cardinality(kept) > MaxWindows THEN {w \in kept : Cardinality(Older(w)) < WindowsDropped} ELSE {}

Allowed(w) == w \in Purged \/ Len(Recent(windows[w])) < MaxRequests

\* check_rate_limit: purge, forget what left the window, then count.
check_rate_limit(w) ==
  LET left == [v \in LimiterKeys |-> IF v \in Purged THEN <<>> ELSE windows[v]]
      recent == Recent(left[w])
  IN  IF Len(recent) >= MaxRequests
      THEN windows' = [left EXCEPT ![w] = recent]
      ELSE windows' = [left EXCEPT ![w] = Append(recent, now)]

-----------------------------------------------------------------------------
(* Keys *)

NewKey(user, life) == [user |-> user, expires |-> now + life, revoked |-> FALSE, label |-> 0]

\* POST /admin/api-keys: store_api_key refuses root's own nil UUID.
create_api_key(user) ==
  /\ CrMay("keys") /\ CrBegin
  /\ user # Root
  /\ \E k \in Unused(keys), life \in KeyLives : keys' = [keys EXCEPT ![k] = NewKey(user, life)]
  /\ UNCHANGED <<crMix, now, active, refreshes, links, tokens, caches, limiter, handler, history>>

\* POST /auth/keys: the caller's own key, root's included.
create_own_key(user) ==
  /\ CrMay("own") /\ CrBegin
  /\ \E k \in Unused(keys), life \in KeyLives : keys' = [keys EXCEPT ![k] = NewKey(user, life)]
  /\ UNCHANGED <<crMix, now, active, refreshes, links, tokens, caches, limiter, handler, history>>

\* POST /files/share-link: a key of nobody and, at once, its token.
create_link_key ==
  /\ CrMay("share") /\ CrBegin
  /\ \E k \in Unused(keys), life \in KeyLives :
       /\ keys' = [keys EXCEPT ![k] = NewKey(NoUser, life)]
       /\ tokens' = tokens \cup {[sub |-> NoUser, key |-> k, exp |-> now + life, root |-> k]}
  /\ UNCHANGED <<crMix, now, active, refreshes, links, caches, limiter, handler, history>>

\* DELETE of a key, of a share link or of one's own key, and PATCH of a label:
\* read the record, write it back changed, evict it from the cache.
change_begin(h, kind, k) ==
  /\ CrMay(kind) /\ CrBegin
  /\ CrFree(h)
  /\ keys[k] # Unset
  /\ handler' = [handler EXCEPT ![h] = [kind |-> kind, at |-> "read", key |-> k, record |-> keys[k]]]
  /\ UNCHANGED <<crMix, now, tokens, records, caches, limiter, history>>

revoke_api_key(h, k) == change_begin(h, "revoke", k)
revoke_share_link(h, k) == keys[k] # Unset /\ keys[k].user = NoUser /\ change_begin(h, "revoke", k)
revoke_own_key(h, k) == keys[k] # Unset /\ keys[k].user # NoUser /\ change_begin(h, "revoke", k)
update_api_key(h, k) == change_begin(h, "label", k)

Changed(kind, record) == IF kind = "revoke" THEN [record EXCEPT !.revoked = TRUE] ELSE [record EXCEPT !.label = 1]

change_write(h) ==
  /\ handler[h] # Unset
  /\ handler[h].kind \in {"revoke", "label"} /\ handler[h].at = "read"
  /\ keys' = [keys EXCEPT ![handler[h].key] = Changed(handler[h].kind, handler[h].record)]
  /\ handler' = [handler EXCEPT ![h].at = "written"]
  /\ crBlame' = IF keys[handler[h].key] # handler[h].record THEN crBlame \cup {"overwrite"} ELSE crBlame
  /\ UNCHANGED <<crMix, crBegun, now, tokens, active, refreshes, links, caches, limiter, served, spent, ended>>

\* As if the handler forgot to evict.
change_evict_none(h) ==
  /\ handler[h] # Unset
  /\ handler[h].kind \in {"revoke", "label"} /\ handler[h].at = "written"
  /\ ended' = IF handler[h].kind = "revoke" THEN [ended EXCEPT ![handler[h].key] = now] ELSE ended
  /\ handler' = [handler EXCEPT ![h] = Unset]
  /\ UNCHANGED <<crMix, crBegun, now, tokens, records, caches, limiter, served, spent, crBlame>>

Loading(k) == key_load # Unset /\ key_load.key = k

\* The response follows the eviction.
change_evict(h) ==
  /\ handler[h] # Unset
  /\ handler[h].kind \in {"revoke", "label"} /\ handler[h].at = "written"
  /\ LET k == handler[h].key
     IN  /\ key_cache' = [key_cache EXCEPT ![k] = Unset]
         /\ crBlame' = IF Loading(k) /\ key_load.found # keys[k]
                      THEN crBlame \cup {"load"} ELSE crBlame
         /\ ended' = IF handler[h].kind = "revoke" /\ ended[k] = Unset THEN [ended EXCEPT ![k] = now] ELSE ended
  /\ handler' = [handler EXCEPT ![h] = Unset]
  /\ UNCHANGED <<crMix, crBegun, now, tokens, records, key_load, limiter, served, spent>>

-----------------------------------------------------------------------------
(* Tokens *)

\* POST /auth/token up to the slow verification of the secret.
auth_token_begin(h, k) ==
  /\ CrMay("exchange") /\ CrBegin
  /\ CrFree(h)
  /\ check_rate_limit(<<"token", k>>)
  /\ handler' = IF Allowed(<<"token", k>>) /\ keys[k] # Unset /\ ~keys[k].revoked
                THEN [handler EXCEPT ![h] = [kind |-> "exchange", key |-> k, record |-> keys[k]]]
                ELSE handler
  /\ UNCHANGED <<crMix, now, tokens, records, caches, history>>

Refresh(user, k) == [user |-> user, key |-> k, expires |-> now + RefreshLife, revoked |-> FALSE]

\* A token that outlives neither TokenLife nor the key.
KeyToken(k, record) ==
  [sub |-> record.user, key |-> k, exp |-> now + Lesser(TokenLife, record.expires - now), root |-> k]

\* An account that cannot be read does not stop the exchange; only an inactive one does.
Enabled(user) == user \in Accounts => active[user]

\* ... and the rest of it: expiry, account, token, refresh token if asked for.
auth_token_end(h) ==
  /\ handler[h] # Unset /\ handler[h].kind = "exchange"
  /\ LET record == handler[h].record
     IN  IF record.expires > now /\ Enabled(record.user)
         THEN /\ tokens' = tokens \cup {KeyToken(handler[h].key, record)}
              /\ \/ UNCHANGED refreshes
                 \/ \E r \in Unused(refreshes) : refreshes' = [refreshes EXCEPT ![r] = Refresh(record.user, handler[h].key)]
         ELSE UNCHANGED <<tokens, refreshes>>
  /\ handler' = [handler EXCEPT ![h] = Unset]
  /\ UNCHANGED <<crMix, crBegun, now, active, keys, links, caches, limiter, history>>

Using(kind, id) == {h \in Handlers : handler[h] # Unset /\ handler[h].kind = kind /\ handler[h].id = id}

\* As if a refresh did not look at the key it came from.
RefreshValidAlone(record) == ~record.revoked /\ record.expires >= now

RefreshValid(record) ==
  /\ ~record.revoked /\ record.expires >= now
  /\ record.key # Unset => keys[record.key] # Unset /\ ~keys[record.key].revoked /\ keys[record.key].expires >= now

\* POST /auth/refresh: the checks, on the record and on its key.
refresh_token_begin(h, r) ==
  /\ CrMay("refresh") /\ CrBegin
  /\ CrFree(h)
  /\ Present(refreshes[r]) /\ RefreshValid(refreshes[r])
  /\ handler' = [handler EXCEPT ![h] = [kind |-> "refresh", at |-> "checked", id |-> r, record |-> refreshes[r]]]
  /\ crBlame' = IF Using("refresh", r) # {} THEN crBlame \cup {"rotate"} ELSE crBlame
  /\ UNCHANGED <<crMix, now, tokens, records, caches, limiter, served, spent, ended>>

\* As if rotation did not revoke the old refresh token.
refresh_token_keep(h) ==
  /\ handler[h] # Unset /\ handler[h].kind = "refresh" /\ handler[h].at = "checked"
  /\ handler' = [handler EXCEPT ![h].at = "revoked"]
  /\ UNCHANGED <<crMix, crBegun, now, tokens, records, caches, limiter, history>>

\* revoke_refresh_token: a record that is gone is not an error.
refresh_token_revoke(h) ==
  /\ handler[h] # Unset /\ handler[h].kind = "refresh" /\ handler[h].at = "checked"
  /\ refreshes' = [r \in RefreshIds |->
       IF r = handler[h].id /\ Present(refreshes[r]) THEN [refreshes[r] EXCEPT !.revoked = TRUE] ELSE refreshes[r]]
  /\ handler' = [handler EXCEPT ![h].at = "revoked"]
  /\ UNCHANGED <<crMix, crBegun, now, tokens, active, keys, links, caches, limiter, history>>

\* The new token carries no key; the new refresh token carries the old one's.
refresh_token_issue(h) ==
  /\ handler[h] # Unset /\ handler[h].kind = "refresh" /\ handler[h].at = "revoked"
  /\ LET record == handler[h].record
     IN  /\ tokens' = tokens \cup {[sub |-> record.user, key |-> Unset, exp |-> now + TokenLife, root |-> record.key]}
         /\ \E r \in Unused(refreshes) : refreshes' = [refreshes EXCEPT ![r] = Refresh(record.user, record.key)]
         /\ spent' = [spent EXCEPT ![<<"refresh", handler[h].id>>] = @ + 1]
         /\ crBlame' = IF RefreshValid([record EXCEPT !.revoked = FALSE]) THEN crBlame ELSE crBlame \cup {"late"}
  /\ handler' = [handler EXCEPT ![h] = Unset]
  /\ UNCHANGED <<crMix, crBegun, now, active, keys, links, caches, limiter, served, ended>>

-----------------------------------------------------------------------------
(* Magic links *)

\* POST /auth/magic-link answers alike whatever it finds.
request_magic_link(u) ==
  /\ CrMay("link") /\ CrBegin
  /\ check_rate_limit(<<"email", u>>)
  /\ IF Allowed(<<"email", u>>) /\ active[u]
     THEN \E l \in Unused(links) : links' = [links EXCEPT ![l] = [user |-> u, expires |-> now + LinkLife, used |-> FALSE]]
     ELSE UNCHANGED links
  /\ UNCHANGED <<crMix, now, active, keys, refreshes, tokens, caches, handler, history>>

LinkValid(record) == ~record.used /\ record.expires >= now

verify_magic_link_begin(h, l) ==
  /\ CrMay("verify") /\ CrBegin
  /\ CrFree(h)
  /\ Present(links[l]) /\ LinkValid(links[l])
  /\ handler' = [handler EXCEPT ![h] = [kind |-> "verify", id |-> l, record |-> links[l]]]
  /\ crBlame' = IF Using("verify", l) # {} THEN crBlame \cup {"verify"} ELSE crBlame
  /\ UNCHANGED <<crMix, now, tokens, records, caches, limiter, served, spent, ended>>

\* mark_magic_link_used fails on a record that is gone; then the account.
verify_magic_link_end(h) ==
  /\ handler[h] # Unset /\ handler[h].kind = "verify"
  /\ LET l == handler[h].id
         u == handler[h].record.user
     IN  /\ links' = IF Present(links[l]) THEN [links EXCEPT ![l].used = TRUE] ELSE links
         /\ IF Present(links[l]) /\ active[u]
            THEN /\ tokens' = tokens \cup {[sub |-> u, key |-> Unset, exp |-> now + TokenLife, root |-> Unset]}
                 /\ spent' = [spent EXCEPT ![<<"link", l>>] = @ + 1]
            ELSE UNCHANGED <<tokens, spent>>
  /\ handler' = [handler EXCEPT ![h] = Unset]
  /\ UNCHANGED <<crMix, crBegun, now, active, keys, refreshes, caches, limiter, served, ended, crBlame>>

TokenStale(record) == record.revoked \/ record.expires < now
LinkStale(record) == record.used \/ record.expires < now

\* The hourly task.
cleanup_expired_tokens ==
  /\ CrMay("cleanup") /\ CrBegin
  /\ refreshes' = [r \in RefreshIds |->
       IF Present(refreshes[r]) /\ TokenStale(refreshes[r]) THEN Gone ELSE refreshes[r]]
  /\ links' = [l \in LinkIds |-> IF Present(links[l]) /\ LinkStale(links[l]) THEN Gone ELSE links[l]]
  /\ UNCHANGED <<crMix, now, active, keys, tokens, caches, limiter, handler, history>>

-----------------------------------------------------------------------------
(* Requests *)

Found(k) == IF key_cache[k] # Unset THEN key_cache[k].found ELSE keys[k]

KeyAdmits(k) == Found(k) # Unset /\ ~Found(k).revoked /\ Found(k).expires > now

\* verify_token, then, on a file route, the key behind the token.  A request
\* that misses while the key is being loaded waits for that load.
keyed_request(t) ==
  /\ CrMay("request") /\ CrBegin
  /\ now <= t.exp + Leeway /\ t.key # Unset
  /\ ~(key_cache[t.key] = Unset /\ Loading(t.key))
  /\ key_cache' = [key_cache EXCEPT ![t.key] = [found |-> Found(t.key)]]
  /\ served' = [token |-> t, admitted |-> KeyAdmits(t.key), late |-> ended[t.key] # Unset]
  /\ UNCHANGED <<crMix, now, tokens, records, key_load, limiter, handler, spent, ended, crBlame>>

\* A token without a key is admitted on its claims alone.
plain_request(t) ==
  /\ CrMay("request") /\ CrBegin
  /\ now <= t.exp + Leeway /\ t.key = Unset
  /\ served' = [token |-> t, admitted |-> TRUE, late |-> FALSE]
  /\ UNCHANGED <<crMix, now, tokens, records, caches, limiter, handler, spent, ended, crBlame>>

\* A load that takes its time.
key_load_begin(k) ==
  /\ CrMay("load") /\ CrBegin
  /\ key_load = Unset /\ key_cache[k] = Unset
  /\ key_load' = [key |-> k, found |-> keys[k]]
  /\ UNCHANGED <<crMix, now, tokens, records, key_cache, limiter, handler, history>>

key_load_end ==
  /\ key_load # Unset
  /\ key_cache' = [key_cache EXCEPT ![key_load.key] = [found |-> key_load.found]]
  /\ key_load' = Unset
  /\ UNCHANGED <<crMix, crBegun, now, tokens, records, limiter, handler, history>>

\* DELETE /admin/users: an account is deactivated, never removed.
deactivate_user(u) ==
  /\ CrMay("deactivate") /\ CrBegin
  /\ active[u]
  /\ active' = [active EXCEPT ![u] = FALSE]
  /\ UNCHANGED <<crMix, now, keys, refreshes, links, tokens, caches, limiter, handler, history>>

tick ==
  /\ now < crMix.until
  /\ now' = now + 1
  /\ UNCHANGED <<crMix, crBegun, tokens, records, caches, limiter, handler, history>>

\* The process dies and starts again: records stay, everything else is empty.
restart ==
  /\ CrMay("restart") /\ CrBegin
  /\ key_cache' = [k \in KeyIds |-> Unset] /\ key_load' = Unset
  /\ windows' = [w \in LimiterKeys |-> <<>>]
  /\ handler' = [h \in Handlers |-> Unset]
  /\ UNCHANGED <<crMix, now, tokens, records, history>>

CrNext ==
  \/ \E u \in Accounts \cup {Root} : create_api_key(u) \/ create_own_key(u)
  \/ create_link_key
  \/ \E h \in Handlers, k \in KeyIds :
       revoke_api_key(h, k) \/ revoke_share_link(h, k) \/ revoke_own_key(h, k) \/ update_api_key(h, k)
  \/ \E h \in Handlers, k \in KeyIds : auth_token_begin(h, k)
  \/ \E h \in Handlers : change_write(h) \/ change_evict(h) \/ auth_token_end(h)
  \/ \E h \in Handlers, r \in RefreshIds : refresh_token_begin(h, r)
  \/ \E h \in Handlers : refresh_token_revoke(h) \/ refresh_token_issue(h)
  \/ \E u \in Accounts : request_magic_link(u) \/ deactivate_user(u)
  \/ \E h \in Handlers, l \in LinkIds : verify_magic_link_begin(h, l)
  \/ \E h \in Handlers : verify_magic_link_end(h)
  \/ cleanup_expired_tokens
  \/ \E t \in tokens : keyed_request(t) \/ plain_request(t)
  \/ \E k \in KeyIds : key_load_begin(k)
  \/ key_load_end
  \/ tick
  \/ restart

CrSpec == CrInit /\ [][CrNext]_crVars

-----------------------------------------------------------------------------
HandlerRecord ==
  [kind : {"revoke", "label"}, at : {"read", "written"}, key : KeyIds, record : KeyRecord]
    \cup [kind : {"exchange"}, key : KeyIds, record : KeyRecord]
    \cup [kind : {"refresh"}, at : {"checked", "revoked"}, id : RefreshIds, record : RefreshRecord]
    \cup [kind : {"verify"}, id : LinkIds, record : LinkRecord]
Token == [sub : Owners, key : KeyIds \cup {Unset}, exp : Nat, root : KeyIds \cup {Unset}]

CrTypeOK ==
  /\ now \in Nat
  /\ active \in [Accounts -> BOOLEAN]
  /\ keys \in [KeyIds -> KeyRecord \cup {Unset}]
  /\ key_cache \in [KeyIds -> [found : KeyRecord \cup {Unset}] \cup {Unset}]
  /\ key_load \in [key : KeyIds, found : KeyRecord \cup {Unset}] \cup {Unset}
  /\ refreshes \in [RefreshIds -> RefreshRecord \cup {Unset, Gone}]
  /\ links \in [LinkIds -> LinkRecord \cup {Unset, Gone}]
  /\ tokens \subseteq Token
  /\ handler \in [Handlers -> HandlerRecord \cup {Unset}]
  /\ served \in [token : Token \cup {Unset}, admitted : BOOLEAN, late : BOOLEAN]
  /\ spent \in [Secrets -> Nat]
  /\ ended \in [KeyIds -> Nat \cup {Unset}]
  /\ crBlame \subseteq {"overwrite", "load", "rotate", "verify", "late"}

\* Once the revocation of a key has been answered, a file request with a token
\* of that key is refused (revoke_api_key, update_api_key, Cache::get,
\* permission_middleware), unless a label was written over the revocation or
\* a load of the key was running while it was evicted.
RevokedRefused ==
  served.late /\ crBlame \cap {"overwrite", "load"} = {} => ~served.admitted

\* A token of a key expires no later than the key.  A token obtained through
\* any chain of refreshes expires at most one token life after the key expired
\* or its revocation was answered (auth_token, refresh_token), unless the key
\* ended between a refresh's check and its answer.
TokensFollowKey ==
  \A t \in tokens : t.root # Unset =>
    LET k == t.root
        last == IF ended[k] = Unset THEN keys[k].expires ELSE Lesser(ended[k], keys[k].expires)
    IN  /\ t.key = k => t.exp <= keys[k].expires
        /\ t.key = Unset /\ crBlame \cap {"overwrite", "late"} = {} => t.exp <= last + TokenLife

\* A magic link and a refresh token yield one token each, across expiry,
\* cleanup and restarts, unless two verifications or two rotations of it
\* overlapped between check and mark (verify_magic_link, refresh_token).
OneTokenPerSecret ==
  \A s \in Secrets : spent[s] > 1 => crBlame \cap {"rotate", "verify"} # {}

=============================================================================
