--------------------------- MODULE CredentialsProofs ---------------------------
(***************************************************************************)
(* What the handlers of Credentials.tla guarantee for any number of keys,  *)
(* refresh tokens, magic links, handlers and requests, and any lives: a    *)
(* revoked key is refused, tokens do not outlive their key by more than    *)
(* their life, and a single-use secret gives one token.                    *)
(***************************************************************************)
EXTENDS Credentials, TLAPS

\* A handler that holds a key's record holds the expiry the key still has, and a
\* revocation that was answered, or only written, stays written unless a
\* handler wrote an older record over it.
Recorded(h) == handler[h] # Unset /\ handler[h].kind \in {"revoke", "label", "exchange"}

KeysKept ==
  /\ \A h \in Handlers : Recorded(h) =>
       /\ keys[handler[h].key] # Unset
       /\ handler[h].record.expires = keys[handler[h].key].expires
  /\ \A r \in RefreshIds : Present(refreshes[r]) => keys[refreshes[r].key] # Unset
  /\ \A h \in Handlers : handler[h] # Unset /\ handler[h].kind = "refresh" =>
       keys[handler[h].record.key] # Unset
  /\ \A k \in KeyIds : ended[k] # Unset => keys[k] # Unset
  /\ "overwrite" \notin crBlame =>
       /\ \A k \in KeyIds : ended[k] # Unset => keys[k].revoked
       /\ \A h \in Handlers :
            handler[h] # Unset /\ handler[h].kind = "revoke" /\ handler[h].at = "written" =>
              keys[handler[h].key].revoked

\* With no overwritten revocation and no load across an eviction, a key whose
\* revocation was answered is revoked wherever a request may look.
RevokedSeen ==
  crBlame \cap {"overwrite", "load"} = {} =>
    /\ \A k \in KeyIds : ended[k] # Unset =>
         /\ key_cache[k] # Unset => key_cache[k].found # Unset /\ key_cache[k].found.revoked
         /\ Loading(k) => key_load.found # Unset /\ key_load.found.revoked
    /\ served.late => ~served.admitted

\* A token names a key that exists; a token of a key ends with the key; one that
\* came from a refresh was issued while the key was good, at most its life ago.
TokensBound ==
  \A t \in tokens : t.root # Unset =>
    /\ keys[t.root] # Unset
    /\ t.key # Unset => t.exp <= keys[t.root].expires
    /\ t.key = Unset =>
         /\ t.exp <= now + TokenLife
         /\ crBlame \cap {"overwrite", "late"} = {} =>
              /\ t.exp <= keys[t.root].expires + TokenLife
              /\ ended[t.root] # Unset => t.exp <= ended[t.root] + TokenLife

\* A link that gave a token is used or gone and nobody is verifying it; at most
\* one handler verifies it.
LinkOnce(l) ==
  /\ \A g, h \in Using("verify", l) : g = h
  /\ Using("verify", l) # {} => links[l] # Unset
  /\ spent[<<"link", l>>] <= 1
  /\ spent[<<"link", l>>] = 1 =>
       /\ Using("verify", l) = {} /\ links[l] # Unset
       /\ Present(links[l]) => links[l].used

LinksOnce == "verify" \notin crBlame => \A l \in LinkIds : LinkOnce(l)

\* The same for a refresh token; its handler revokes it before it issues.
RefreshOnce(r) ==
  /\ \A g, h \in Using("refresh", r) : g = h
  /\ Using("refresh", r) # {} => refreshes[r] # Unset
  /\ spent[<<"refresh", r>>] <= 1
  /\ spent[<<"refresh", r>>] = 1 => Using("refresh", r) = {} /\ refreshes[r] # Unset
  /\ spent[<<"refresh", r>>] = 1 \/ (\E h \in Using("refresh", r) : handler[h].at = "revoked") =>
       (Present(refreshes[r]) => refreshes[r].revoked)

RefreshesOnce == "rotate" \notin crBlame => \A r \in RefreshIds : RefreshOnce(r)

-----------------------------------------------------------------------------
(* Types *)

USE DEF Lesser

\* The first start: one key for root, nothing else.
LEMMA TypeInit == CrInit => CrTypeOK
<1> SUFFICES ASSUME CrInit PROVE CrTypeOK
  OBVIOUS
<1>1. PICK l \in KeyLives : l = CHOOSE n \in KeyLives : \A m \in KeyLives : m <= n
  BY CredentialsAssumption
<1>2. l \in Nat
  BY CredentialsAssumption
<1>3. [user |-> Root, expires |-> l, revoked |-> FALSE, label |-> 0] \in KeyRecord
  BY <1>2 DEF KeyRecord, Owners
<1>4. keys \in [KeyIds -> KeyRecord \cup {Unset}]
  BY Zenon, <1>1, <1>3 DEF CrInit, Bootstrapped
<1>5. QED
  BY Zenon, <1>4 DEF CrInit, CrTypeOK

\* The clock plus any life is a time.
LEMMA Times ==
  ASSUME CrTypeOK
  PROVE  /\ now \in Nat /\ TokenLife \in Nat /\ RefreshLife \in Nat
         /\ {now + TokenLife, now + RefreshLife, now + LinkLife} \subseteq Nat
<1>1. now \in Nat
  BY DEF CrTypeOK
<1>2. TokenLife \in Nat /\ RefreshLife \in Nat /\ LinkLife \in Nat
  BY CredentialsAssumption
<1>3. QED
  BY <1>1, <1>2

\* A new key's record.
LEMMA NewKeyType ==
  ASSUME CrTypeOK, NEW user \in Owners, NEW life \in KeyLives
  PROVE  NewKey(user, life) \in KeyRecord
BY CredentialsAssumption DEF CrTypeOK, NewKey, KeyRecord

\* A record written back changed, and what an exchange issues.
LEMMA ChangedType ==
  ASSUME NEW kind, NEW record \in KeyRecord
  PROVE  /\ Changed(kind, record) \in KeyRecord
         /\ Changed(kind, record).expires = record.expires
         /\ kind = "revoke" \/ record.revoked => Changed(kind, record).revoked
<1>1. record = [user |-> record.user, expires |-> record.expires, revoked |-> record.revoked, label |-> record.label]
  BY DEF KeyRecord
<1>2. \A v : [record EXCEPT !.revoked = v]
        = [user |-> record.user, expires |-> record.expires, revoked |-> v, label |-> record.label]
  BY <1>1
<1>3. [record EXCEPT !.label = 1]
        = [user |-> record.user, expires |-> record.expires, revoked |-> record.revoked, label |-> 1]
  BY <1>1
<1>4. record.user \in Owners /\ record.expires \in Nat /\ record.revoked \in BOOLEAN /\ record.label \in 0 .. 1
  BY DEF KeyRecord
<1>5. CASE kind = "revoke"
  BY Zenon, <1>2, <1>4, <1>5 DEF Changed, KeyRecord
<1>6. CASE kind # "revoke"
  BY <1>3, <1>4, <1>6 DEF Changed, KeyRecord
<1>7. QED
  BY <1>5, <1>6

LEMMA IssuedTypes ==
  ASSUME CrTypeOK, NEW k \in KeyIds, NEW record \in KeyRecord, NEW user \in Owners
  PROVE  /\ Refresh(user, k) \in RefreshRecord
         /\ record.expires > now => KeyToken(k, record) \in Token
         /\ record.expires > now => KeyToken(k, record).exp <= record.expires
<1>1. now \in Nat /\ TokenLife \in Nat /\ RefreshLife \in Nat
  BY CredentialsAssumption DEF CrTypeOK
<1>2. record.user \in Owners /\ record.expires \in Nat
  BY DEF KeyRecord
<1>3. Refresh(user, k) \in RefreshRecord
  BY <1>1 DEF Refresh, RefreshRecord
<1>4. record.expires > now =>
        /\ now + Lesser(TokenLife, record.expires - now) \in Nat
        /\ now + Lesser(TokenLife, record.expires - now) <= record.expires
  BY <1>1, <1>2
<1>5. QED
  BY <1>2, <1>3, <1>4 DEF KeyToken, Token

\* The fields of what a handler holds, by its kind.
LEMMA HandlerFields ==
  ASSUME CrTypeOK, NEW h \in Handlers, handler[h] # Unset
  PROVE  /\ handler[h] \in HandlerRecord
         /\ handler[h].kind \in {"revoke", "label"} =>
              /\ handler[h].key \in KeyIds /\ handler[h].record \in KeyRecord
              /\ handler[h].at \in {"read", "written"}
              /\ handler[h] = [kind |-> handler[h].kind, at |-> handler[h].at,
                              key |-> handler[h].key, record |-> handler[h].record]
         /\ handler[h].kind = "exchange" =>
              handler[h].key \in KeyIds /\ handler[h].record \in KeyRecord
         /\ handler[h].kind = "refresh" =>
              /\ handler[h].id \in RefreshIds /\ handler[h].record \in RefreshRecord
              /\ handler[h].at \in {"checked", "revoked"}
              /\ handler[h] = [kind |-> "refresh", at |-> handler[h].at,
                              id |-> handler[h].id, record |-> handler[h].record]
         /\ handler[h].kind = "verify" =>
              handler[h].id \in LinkIds /\ handler[h].record \in LinkRecord
BY ZenonT(30) DEF CrTypeOK, HandlerRecord

\* A handler that moves on changes its program point and nothing else.
LEMMA HandlerMoves ==
  ASSUME CrTypeOK, NEW h \in Handlers, handler[h] # Unset, NEW p,
         handler' = [handler EXCEPT ![h].at = p],
         \/ handler[h].kind \in {"revoke", "label"} /\ p = "written"
         \/ handler[h].kind = "refresh" /\ p = "revoked"
  PROVE  /\ handler' \in [Handlers -> HandlerRecord \cup {Unset}]
         /\ \A g \in Handlers : g # h => handler'[g] = handler[g]
         /\ handler'[h].kind = handler[h].kind /\ handler'[h].at = p
         /\ handler'[h].record = handler[h].record
         /\ handler[h].kind = "refresh" => handler'[h].id = handler[h].id
         /\ handler[h].kind # "refresh" => handler'[h].key = handler[h].key
<1>1. handler' = [handler EXCEPT ![h] = [handler[h] EXCEPT !.at = p]]
  BY DEF CrTypeOK
<1>2. CASE handler[h].kind = "refresh"
  <2> DEFINE r == [kind |-> "refresh", at |-> p, id |-> handler[h].id, record |-> handler[h].record]
  <2>1. [handler[h] EXCEPT !.at = p] = r
    <3>1. handler[h] = [kind |-> "refresh", at |-> handler[h].at,
                        id |-> handler[h].id, record |-> handler[h].record]
      BY Zenon, <1>2, HandlerFields
    <3>2. QED
      BY <3>1
  <2>2. r \in HandlerRecord
    BY Zenon, <1>2, HandlerFields DEF HandlerRecord
  <2>3. QED
    BY <1>1, <1>2, <2>1, <2>2 DEF CrTypeOK
<1>3. CASE handler[h].kind \in {"revoke", "label"}
  <2> DEFINE r == [kind |-> handler[h].kind, at |-> p, key |-> handler[h].key, record |-> handler[h].record]
  <2>1. [handler[h] EXCEPT !.at = p] = r
    <3>1. handler[h] = [kind |-> handler[h].kind, at |-> handler[h].at,
                        key |-> handler[h].key, record |-> handler[h].record]
      BY Zenon, <1>3, HandlerFields
    <3>2. QED
      BY <3>1
  <2>2. r \in HandlerRecord
    BY Zenon, <1>3, HandlerFields DEF HandlerRecord
  <2>3. QED
    BY <1>1, <1>3, <2>1, <2>2 DEF CrTypeOK
<1>4. QED
  BY <1>2, <1>3

\* Marking a link used or a refresh token revoked leaves a record of its kind.
LEMMA LinkMarked ==
  ASSUME CrTypeOK, NEW l \in LinkIds, Present(links[l])
  PROVE  /\ [links EXCEPT ![l].used = TRUE] = [links EXCEPT ![l] = [links[l] EXCEPT !.used = TRUE]]
         /\ [links[l] EXCEPT !.used = TRUE] \in LinkRecord
         /\ [links[l] EXCEPT !.used = TRUE].used
<1>1. links[l] \in LinkRecord
  BY DEF CrTypeOK, Present
<1>2. links[l] = [user |-> links[l].user, expires |-> links[l].expires, used |-> links[l].used]
  BY <1>1 DEF LinkRecord
<1>3. \A v : [links[l] EXCEPT !.used = v] = [user |-> links[l].user, expires |-> links[l].expires, used |-> v]
  BY <1>2
<1>4. QED
  BY Zenon, <1>1, <1>3 DEF LinkRecord, CrTypeOK

\* Each handler, request, load, tick and restart keeps the types.
LEMMA TypeNext == CrTypeOK /\ [CrNext]_crVars => CrTypeOK'
<1> SUFFICES ASSUME CrTypeOK, [CrNext]_crVars PROVE CrTypeOK'
  OBVIOUS
<1> USE DEF records, caches, limiter, history
<1>1. ASSUME NEW u \in Accounts \cup {Root}, create_api_key(u) \/ create_own_key(u) PROVE CrTypeOK'
  <2>1. PICK k \in KeyIds, life \in KeyLives : keys' = [keys EXCEPT ![k] = NewKey(u, life)]
    BY Zenon, <1>1 DEF create_api_key, create_own_key, Unused, CrTypeOK
  <2>2. NewKey(u, life) \in KeyRecord
    BY NewKeyType DEF Owners
  <2>3. QED
    BY Zenon, <1>1, <2>1, <2>2 DEF create_api_key, create_own_key, CrTypeOK
<1>2. CASE create_link_key
  <2>1. PICK k \in KeyIds, life \in KeyLives :
          /\ keys' = [keys EXCEPT ![k] = NewKey(NoUser, life)]
          /\ tokens' = tokens \cup {[sub |-> NoUser, key |-> k, exp |-> now + life, root |-> k]}
    BY Zenon, <1>2 DEF create_link_key, Unused, CrTypeOK
  <2>2. NewKey(NoUser, life) \in KeyRecord
    BY NewKeyType DEF Owners
  <2>3. tokens' \subseteq Token
    BY <2>1, CredentialsAssumption DEF CrTypeOK, Token, Owners
  <2>4. QED
    BY Zenon, <1>2, <2>1, <2>2, <2>3 DEF create_link_key, CrTypeOK
<1>3. ASSUME NEW h \in Handlers, NEW k \in KeyIds, NEW kind \in {"revoke", "label"}, change_begin(h, kind, k)
      PROVE  CrTypeOK'
  <2>1. keys[k] \in KeyRecord
    BY Zenon, <1>3 DEF change_begin, CrTypeOK
  <2>2. [kind |-> kind, at |-> "read", key |-> k, record |-> keys[k]] \in HandlerRecord
    BY Zenon, <2>1 DEF HandlerRecord
  <2>3. QED
    BY Zenon, <1>3, <2>2 DEF change_begin, CrTypeOK
<1>4. ASSUME NEW h \in Handlers, NEW k \in KeyIds, auth_token_begin(h, k) PROVE CrTypeOK'
  <2>1. CASE handler' = handler
    BY Zenon, <1>4, <2>1 DEF auth_token_begin, CrTypeOK
  <2>2. CASE handler' # handler
    <3>1. /\ handler' = [handler EXCEPT ![h] = [kind |-> "exchange", key |-> k, record |-> keys[k]]]
          /\ keys[k] # Unset
      BY Zenon, <1>4, <2>2 DEF auth_token_begin
    <3>2. [kind |-> "exchange", key |-> k, record |-> keys[k]] \in HandlerRecord
      BY Zenon, <3>1 DEF HandlerRecord, CrTypeOK
    <3>3. QED
      BY ZenonT(30), <1>4, <3>1, <3>2 DEF auth_token_begin, CrTypeOK
  <2>3. QED
    BY <2>1, <2>2
<1>5. ASSUME NEW h \in Handlers, change_write(h) PROVE CrTypeOK'
  <2>1. handler[h].key \in KeyIds /\ handler[h].record \in KeyRecord
    BY Zenon, <1>5, HandlerFields DEF change_write
  <2>2. Changed(handler[h].kind, handler[h].record) \in KeyRecord
    BY <2>1, ChangedType
  <2>3. handler' \in [Handlers -> HandlerRecord \cup {Unset}]
    BY Zenon, <1>5, HandlerMoves DEF change_write
  <2>4. QED
    BY Zenon, <1>5, <2>1, <2>2, <2>3 DEF change_write, CrTypeOK
<1>6. ASSUME NEW h \in Handlers, change_evict(h) PROVE CrTypeOK'
  <2>1. handler[h].key \in KeyIds
    BY Zenon, <1>6, HandlerFields DEF change_evict
  <2>2. QED
    BY Zenon, <1>6, <2>1 DEF change_evict, CrTypeOK
<1>7. ASSUME NEW h \in Handlers, auth_token_end(h) PROVE CrTypeOK'
  <2> DEFINE record == handler[h].record
             k == handler[h].key
  <2>1. k \in KeyIds /\ record \in KeyRecord
    BY Zenon, <1>7, HandlerFields DEF auth_token_end
  <2>2. record.expires > now => KeyToken(k, record) \in Token
    BY <2>1, IssuedTypes DEF KeyRecord
  <2>3. Refresh(record.user, k) \in RefreshRecord
    BY <2>1, IssuedTypes DEF KeyRecord
  <2>4. tokens' \subseteq Token
    BY Zenon, <1>7, <2>2 DEF auth_token_end, CrTypeOK
  <2>5. refreshes' \in [RefreshIds -> RefreshRecord \cup {Unset, Gone}]
    BY Zenon, <1>7, <2>3 DEF auth_token_end, CrTypeOK
  <2>6. QED
    BY Zenon, <1>7, <2>4, <2>5 DEF auth_token_end, CrTypeOK
<1>8. ASSUME NEW h \in Handlers, NEW r \in RefreshIds, refresh_token_begin(h, r) PROVE CrTypeOK'
  <2>1. refreshes[r] \in RefreshRecord
    BY Zenon, <1>8 DEF refresh_token_begin, Present, CrTypeOK
  <2>2. [kind |-> "refresh", at |-> "checked", id |-> r, record |-> refreshes[r]] \in HandlerRecord
    BY Zenon, <2>1 DEF HandlerRecord
  <2>3. QED
    BY Zenon, <1>8, <2>2 DEF refresh_token_begin, CrTypeOK
<1>9. ASSUME NEW h \in Handlers, refresh_token_revoke(h) PROVE CrTypeOK'
  <2>1. handler' \in [Handlers -> HandlerRecord \cup {Unset}]
    BY Zenon, <1>9, HandlerMoves DEF refresh_token_revoke
  <2>2. \A r \in RefreshIds : Present(refreshes[r]) => [refreshes[r] EXCEPT !.revoked = TRUE] \in RefreshRecord
    BY ZenonT(30) DEF CrTypeOK, Present, RefreshRecord
  <2>3. QED
    BY <1>9, <2>1, <2>2 DEF refresh_token_revoke, CrTypeOK
<1>10. ASSUME NEW h \in Handlers, refresh_token_issue(h) PROVE CrTypeOK'
  <2> DEFINE record == handler[h].record
  <2>1. handler[h].id \in RefreshIds /\ record \in RefreshRecord
    BY Zenon, <1>10, HandlerFields DEF refresh_token_issue
  <2>2. record.user \in Owners /\ record.key \in KeyIds
    BY <2>1 DEF RefreshRecord
  <2>3. [sub |-> record.user, key |-> Unset, exp |-> now + TokenLife, root |-> record.key] \in Token
    BY <2>2, Times DEF Token
  <2>4. Refresh(record.user, record.key) \in RefreshRecord
    BY <2>2, Times DEF Refresh, RefreshRecord
  <2>5. <<"refresh", handler[h].id>> \in Secrets
    BY <2>1 DEF Secrets
  <2>6. refreshes' \in [RefreshIds -> RefreshRecord \cup {Unset, Gone}]
    BY Zenon, <1>10, <2>4 DEF refresh_token_issue, CrTypeOK
  <2>7. spent' \in [Secrets -> Nat]
    BY <1>10, <2>5 DEF refresh_token_issue, CrTypeOK
  <2>8. QED
    BY Zenon, <1>10, <2>3, <2>6, <2>7 DEF refresh_token_issue, CrTypeOK
<1>11. ASSUME NEW u \in Accounts, request_magic_link(u) PROVE CrTypeOK'
  <2>1. [user |-> u, expires |-> now + LinkLife, used |-> FALSE] \in LinkRecord
    BY Times DEF LinkRecord
  <2>2. QED
    BY Zenon, <1>11, <2>1 DEF request_magic_link, CrTypeOK
<1>12. ASSUME NEW u \in Accounts, deactivate_user(u) PROVE CrTypeOK'
  BY Zenon, <1>12 DEF deactivate_user, CrTypeOK
<1>13. ASSUME NEW h \in Handlers, NEW l \in LinkIds, verify_magic_link_begin(h, l) PROVE CrTypeOK'
  <2>1. links[l] \in LinkRecord
    BY Zenon, <1>13 DEF verify_magic_link_begin, Present, CrTypeOK
  <2>2. [kind |-> "verify", id |-> l, record |-> links[l]] \in HandlerRecord
    BY Zenon, <2>1 DEF HandlerRecord
  <2>3. QED
    BY Zenon, <1>13, <2>2 DEF verify_magic_link_begin, CrTypeOK
<1>14. ASSUME NEW h \in Handlers, verify_magic_link_end(h) PROVE CrTypeOK'
  <2> DEFINE l == handler[h].id
             u == handler[h].record.user
  <2>1. l \in LinkIds /\ u \in Accounts
    BY Zenon, <1>14, HandlerFields DEF verify_magic_link_end, LinkRecord
  <2>2. links' \in [LinkIds -> LinkRecord \cup {Unset, Gone}]
    BY Zenon, <1>14, <2>1, LinkMarked DEF verify_magic_link_end, CrTypeOK
  <2>3. [sub |-> u, key |-> Unset, exp |-> now + TokenLife, root |-> Unset] \in Token
    BY <2>1, Times DEF Token, Owners
  <2>4. <<"link", l>> \in Secrets
    BY <2>1 DEF Secrets
  <2>5. spent' \in [Secrets -> Nat]
    <3>1. spent[<<"link", l>>] + 1 \in Nat
      BY <2>4 DEF CrTypeOK
    <3>2. spent' = spent \/ spent' = [spent EXCEPT ![<<"link", l>>] = spent[<<"link", l>>] + 1]
      BY Zenon, <1>14, <2>4 DEF verify_magic_link_end, CrTypeOK
    <3>3. QED
      BY Zenon, <3>1, <3>2 DEF CrTypeOK
  <2>6. QED
    BY ZenonT(30), <1>14, <2>2, <2>3, <2>5 DEF verify_magic_link_end, CrTypeOK
<1>15. CASE cleanup_expired_tokens
  BY Zenon, <1>15 DEF cleanup_expired_tokens, CrTypeOK
<1>16. ASSUME NEW t \in tokens, keyed_request(t) PROVE CrTypeOK'
  <2>1. t \in Token /\ t.key \in KeyIds
    BY Zenon, <1>16 DEF keyed_request, CrTypeOK, Token
  <2>2. Found(t.key) \in KeyRecord \cup {Unset}
    BY Zenon, <2>1 DEF Found, CrTypeOK
  <2>3. KeyAdmits(t.key) \in BOOLEAN /\ (ended[t.key] # Unset) \in BOOLEAN
    BY Zenon DEF KeyAdmits
  <2>4. served' \in [token : Token \cup {Unset}, admitted : BOOLEAN, late : BOOLEAN]
    BY Zenon, <1>16, <2>1, <2>3 DEF keyed_request
  <2>5. key_cache' \in [KeyIds -> [found : KeyRecord \cup {Unset}] \cup {Unset}]
    BY Zenon, <1>16, <2>1, <2>2 DEF keyed_request, CrTypeOK
  <2>6. QED
    BY Zenon, <1>16, <2>4, <2>5 DEF keyed_request, CrTypeOK
<1>17. ASSUME NEW t \in tokens, plain_request(t) PROVE CrTypeOK'
  BY Zenon, <1>17 DEF plain_request, CrTypeOK
<1>18. ASSUME NEW k \in KeyIds, key_load_begin(k) PROVE CrTypeOK'
  BY Zenon, <1>18 DEF key_load_begin, CrTypeOK
<1>19. CASE key_load_end
  <2>1. key_load.key \in KeyIds /\ key_load.found \in KeyRecord \cup {Unset}
    BY Zenon, <1>19 DEF key_load_end, CrTypeOK
  <2>2. key_cache' \in [KeyIds -> [found : KeyRecord \cup {Unset}] \cup {Unset}]
    BY Zenon, <1>19, <2>1 DEF key_load_end, CrTypeOK
  <2>3. QED
    BY Zenon, <1>19, <2>2 DEF key_load_end, CrTypeOK
<1>20. CASE tick
  BY <1>20 DEF tick, CrTypeOK
<1>21. CASE restart
  BY Zenon, <1>21 DEF restart, CrTypeOK
<1>22. CASE UNCHANGED crVars
  BY Zenon, <1>22 DEF crVars, CrTypeOK
<1>23. QED
  BY Zenon, <1>1, <1>2, <1>3, <1>4, <1>5, <1>6, <1>7, <1>8, <1>9, <1>10, <1>11, <1>12, <1>13, <1>14, <1>15,
     <1>16, <1>17, <1>18, <1>19, <1>20, <1>21, <1>22
  DEF CrNext, revoke_api_key, revoke_share_link, revoke_own_key, update_api_key

-----------------------------------------------------------------------------
(* Keys *)

\* A key that exists goes on existing with its expiry, and stays revoked unless
\* an older record is written over it; blame is never taken back.
KeyLasts ==
  /\ crBlame \subseteq crBlame'
  /\ \A k \in KeyIds : keys[k] # Unset =>
       /\ keys'[k] # Unset
       /\ keys'[k].expires = keys[k].expires
       /\ "overwrite" \notin crBlame' /\ keys[k].revoked => keys'[k].revoked

LEMMA KeyLastsNext == CrTypeOK /\ KeysKept /\ [CrNext]_crVars => KeyLasts
<1> SUFFICES ASSUME CrTypeOK, KeysKept, [CrNext]_crVars PROVE KeyLasts
  OBVIOUS
<1> USE DEF records, caches, limiter, history
<1>1. ASSUME NEW k \in Unused(keys), NEW r, keys' = [keys EXCEPT ![k] = r], crBlame' = crBlame PROVE KeyLasts
  BY Zenon, <1>1 DEF KeyLasts, Unused, CrTypeOK
<1>2. ASSUME NEW u, create_api_key(u) \/ create_own_key(u) PROVE KeyLasts
  BY Zenon, <1>1, <1>2 DEF create_api_key, create_own_key
<1>3. CASE create_link_key
  BY Zenon, <1>1, <1>3 DEF create_link_key
<1>4. ASSUME NEW h \in Handlers, change_write(h) PROVE KeyLasts
  <2> DEFINE k == handler[h].key
             record == handler[h].record
             new == Changed(handler[h].kind, record)
  <2>1. k \in KeyIds /\ record \in KeyRecord
    BY Zenon, <1>4, HandlerFields DEF change_write
  <2>2. new \in KeyRecord /\ new.expires = record.expires /\ (record.revoked => new.revoked)
    BY Zenon, <2>1, ChangedType
  <2>3. record.expires = keys[k].expires
    BY Zenon, <1>4 DEF KeysKept, Recorded, change_write
  <2>4. new # Unset
    BY Zenon, <2>2, CredentialsAssumption
  <2>5. "overwrite" \notin crBlame' => keys[k] = record
    BY <1>4 DEF change_write
  <2>6. crBlame \subseteq crBlame' /\ keys' = [keys EXCEPT ![k] = new]
    BY <1>4 DEF change_write
  <2>7. \A j \in KeyIds : keys'[j] = IF j = k THEN new ELSE keys[j]
    BY Zenon, <2>1, <2>6 DEF CrTypeOK
  <2>8. QED
    BY Zenon, <2>1, <2>2, <2>3, <2>4, <2>5, <2>6, <2>7 DEF KeyLasts
<1>5. ASSUME keys' = keys, crBlame \subseteq crBlame' PROVE KeyLasts
  BY <1>5 DEF KeyLasts
<1>6. ASSUME NEW h, NEW k,
             \/ change_begin(h, "revoke", k) \/ change_begin(h, "label", k) \/ auth_token_begin(h, k)
             \/ change_evict(h) \/ auth_token_end(h)
             \/ refresh_token_begin(h, k) \/ refresh_token_revoke(h) \/ refresh_token_issue(h)
             \/ verify_magic_link_begin(h, k) \/ verify_magic_link_end(h)
      PROVE  keys' = keys /\ crBlame \subseteq crBlame'
  BY Zenon, <1>6 DEF change_begin, auth_token_begin, change_evict, auth_token_end, refresh_token_begin,
    refresh_token_revoke, refresh_token_issue, verify_magic_link_begin, verify_magic_link_end
<1>7. ASSUME NEW u,
             \/ request_magic_link(u) \/ deactivate_user(u) \/ cleanup_expired_tokens
             \/ keyed_request(u) \/ plain_request(u) \/ key_load_begin(u) \/ key_load_end
             \/ tick \/ restart \/ UNCHANGED crVars
      PROVE  keys' = keys /\ crBlame \subseteq crBlame'
  BY Zenon, <1>7 DEF request_magic_link, deactivate_user, cleanup_expired_tokens, keyed_request, plain_request,
    key_load_begin, key_load_end, tick, restart, crVars
<1>8. QED
  BY Zenon, <1>2, <1>3, <1>4, <1>5, <1>6, <1>7
  DEF CrNext, revoke_api_key, revoke_share_link, revoke_own_key, update_api_key

LEMMA KeysKeptInit == CrInit => KeysKept
BY ZenonT(30) DEF CrInit, KeysKept, Recorded, Present

\* Each handler that reads or writes keys keeps what KeysKept says.
LEMMA KeysKeptNext == CrTypeOK /\ KeysKept /\ [CrNext]_crVars => KeysKept'
<1> SUFFICES ASSUME CrTypeOK, KeysKept, [CrNext]_crVars PROVE KeysKept'
  OBVIOUS
<1> USE DEF records, caches, limiter, history
<1>1. KeyLasts /\ CrTypeOK'
  BY KeyLastsNext, TypeNext
<1>a. \A g \in Handlers : Recorded(g) => handler[g].key \in KeyIds
  BY Zenon, HandlerFields DEF Recorded
<1>b. \A g \in Handlers : handler[g] # Unset /\ handler[g].kind = "refresh" => handler[g].record.key \in KeyIds
  BY Zenon, HandlerFields DEF RefreshRecord
<1>c. \A r \in RefreshIds : Present(refreshes[r]) => refreshes[r].key \in KeyIds
  BY Zenon DEF Present, RefreshRecord, CrTypeOK
<1>2. ASSUME \A h \in Handlers : handler'[h] \in {handler[h], Unset},
             \A r \in RefreshIds : refreshes'[r] \in {refreshes[r], Gone},
             ended' = ended
      PROVE  KeysKept'
  <2>1. \A h \in Handlers : Recorded(h)' =>
          /\ keys'[handler'[h].key] # Unset
          /\ handler'[h].record.expires = keys'[handler'[h].key].expires
    BY <1>1, <1>2, <1>a DEF KeysKept, KeyLasts, Recorded
  <2>2. \A r \in RefreshIds : Present(refreshes'[r]) => keys'[refreshes'[r].key] # Unset
    BY Zenon, <1>1, <1>2, <1>c DEF KeysKept, KeyLasts, Present
  <2>3. \A h \in Handlers : handler'[h] # Unset /\ handler'[h].kind = "refresh" =>
          keys'[handler'[h].record.key] # Unset
    BY Zenon, <1>1, <1>2, <1>b DEF KeysKept, KeyLasts
  <2>4. \A k \in KeyIds : ended'[k] # Unset =>
          keys'[k] # Unset /\ ("overwrite" \notin crBlame' => keys'[k].revoked)
    BY Zenon, <1>1, <1>2 DEF KeysKept, KeyLasts
  <2>5. "overwrite" \notin crBlame' => \A h \in Handlers :
          handler'[h] # Unset /\ handler'[h].kind = "revoke" /\ handler'[h].at = "written" =>
            keys'[handler'[h].key].revoked
    BY ZenonT(30), <1>1, <1>2, <1>a DEF KeysKept, KeyLasts, Recorded
  <2>6. QED
    BY Zenon, <2>1, <2>2, <2>3, <2>4, <2>5 DEF KeysKept
<1>3. ASSUME NEW h \in Handlers, NEW k \in KeyIds, NEW kind \in {"revoke", "label"}, change_begin(h, kind, k)
      PROVE  KeysKept'
  <2>1. \A g \in Handlers : handler'[g] =
          IF g = h THEN [kind |-> kind, at |-> "read", key |-> k, record |-> keys[k]] ELSE handler[g]
    BY Zenon, <1>3 DEF change_begin, CrTypeOK
  <2>2. keys' = keys /\ refreshes' = refreshes /\ ended' = ended /\ crBlame' = crBlame /\ keys[k] # Unset
    BY Zenon, <1>3 DEF change_begin
  <2>3. QED
    BY <2>1, <2>2 DEF KeysKept, Recorded, Present
<1>4. ASSUME NEW h \in Handlers, NEW k \in KeyIds, auth_token_begin(h, k) PROVE KeysKept'
  <2>1. \/ handler' = handler
        \/ /\ keys[k] # Unset
           /\ \A g \in Handlers : handler'[g] =
                IF g = h THEN [kind |-> "exchange", key |-> k, record |-> keys[k]] ELSE handler[g]
    BY Zenon, <1>4 DEF auth_token_begin, CrTypeOK
  <2>2. keys' = keys /\ refreshes' = refreshes /\ ended' = ended /\ crBlame' = crBlame
    BY Zenon, <1>4 DEF auth_token_begin
  <2>3. QED
    BY <2>1, <2>2 DEF KeysKept, Recorded, Present
<1>5. ASSUME NEW h \in Handlers, change_write(h) PROVE KeysKept'
  <2> DEFINE k == handler[h].key
             new == Changed(handler[h].kind, handler[h].record)
  <2>1. k \in KeyIds /\ handler[h].record \in KeyRecord /\ handler[h].kind \in {"revoke", "label"} /\ handler[h] # Unset
    BY Zenon, <1>5, HandlerFields DEF change_write
  <2>2. handler[h].kind = "revoke" => new.revoked
    BY Zenon, <2>1, ChangedType
  <2>3. keys'[k] = new
    BY Zenon, <1>5, <2>1 DEF change_write, CrTypeOK
  <2>4. /\ \A g \in Handlers : g # h => handler'[g] = handler[g]
        /\ handler'[h].kind = handler[h].kind /\ handler'[h].at = "written"
        /\ handler'[h].record = handler[h].record /\ handler'[h].key = k
    BY Zenon, <1>5, <2>1, HandlerMoves DEF change_write
  <2>5. refreshes' = refreshes /\ ended' = ended
    BY <1>5 DEF change_write
  <2>6. \A g \in Handlers : Recorded(g)' =>
          /\ keys'[handler'[g].key] # Unset
          /\ handler'[g].record.expires = keys'[handler'[g].key].expires
    BY <1>1, <2>1, <1>a, <2>4 DEF KeysKept, KeyLasts, Recorded
  <2>7. \A r \in RefreshIds : Present(refreshes'[r]) => keys'[refreshes'[r].key] # Unset
    BY Zenon, <1>1, <1>c, <2>5 DEF KeysKept, KeyLasts
  <2>8. \A g \in Handlers : handler'[g] # Unset /\ handler'[g].kind = "refresh" =>
           keys'[handler'[g].record.key] # Unset
    BY <1>1, <2>1, <1>b, <2>4 DEF KeysKept, KeyLasts
  <2>9. \A j \in KeyIds : ended'[j] # Unset => keys'[j] # Unset
    BY Zenon, <1>1, <2>5 DEF KeysKept, KeyLasts
  <2>10. "overwrite" \notin crBlame' => \A j \in KeyIds : ended'[j] # Unset => keys'[j].revoked
    BY Zenon, <1>1, <2>5 DEF KeysKept, KeyLasts
  <2>11. "overwrite" \notin crBlame' => \A g \in Handlers :
           handler'[g] # Unset /\ handler'[g].kind = "revoke" /\ handler'[g].at = "written" =>
             keys'[handler'[g].key].revoked
    BY <1>1, <2>1, <2>2, <2>3, <1>a, <2>4 DEF KeysKept, KeyLasts, Recorded
  <2>12. QED
    BY Zenon, <2>6, <2>7, <2>8, <2>9, <2>10, <2>11 DEF KeysKept
<1>6. ASSUME NEW h \in Handlers, change_evict(h) PROVE KeysKept'
  <2>1. handler[h].key \in KeyIds /\ Recorded(h)
    BY Zenon, <1>6, HandlerFields DEF change_evict, Recorded
  <2>2. /\ keys' = keys /\ refreshes' = refreshes /\ crBlame \subseteq crBlame'
        /\ \A g \in Handlers : handler'[g] = IF g = h THEN Unset ELSE handler[g]
    BY Zenon, <1>6 DEF change_evict, CrTypeOK
  <2>3. \A k \in KeyIds : ended'[k] # ended[k] => k = handler[h].key /\ handler[h].kind = "revoke"
    BY Zenon, <1>6, <2>1 DEF change_evict, CrTypeOK
  <2>4. handler[h] # Unset /\ handler[h].at = "written"
    BY Zenon, <1>6 DEF change_evict
  <2>5. QED
    BY <2>1, <2>2, <2>3, <2>4 DEF KeysKept, Recorded
<1>7. ASSUME NEW h \in Handlers, auth_token_end(h) PROVE KeysKept'
  <2>1. Recorded(h)
    BY Zenon, <1>7 DEF auth_token_end, Recorded
  <2>2. \A r \in RefreshIds : \/ refreshes'[r] = refreshes[r]
                              \/ refreshes'[r] = Refresh(handler[h].record.user, handler[h].key)
    BY Zenon, <1>7 DEF auth_token_end, CrTypeOK
  <2>3. keys' = keys /\ ended' = ended /\ crBlame' = crBlame
    BY Zenon, <1>7 DEF auth_token_end
  <2>4. \A g \in Handlers : handler'[g] = IF g = h THEN Unset ELSE handler[g]
    BY Zenon, <1>7 DEF auth_token_end, CrTypeOK
  <2>5. QED
    BY <2>1, <2>2, <2>3, <2>4 DEF KeysKept, Recorded, Refresh
<1>8. ASSUME NEW h \in Handlers, NEW r \in RefreshIds, refresh_token_begin(h, r) PROVE KeysKept'
  <2>1. \A g \in Handlers : handler'[g] =
          IF g = h THEN [kind |-> "refresh", at |-> "checked", id |-> r, record |-> refreshes[r]] ELSE handler[g]
    BY Zenon, <1>8 DEF refresh_token_begin, CrTypeOK
  <2>2. keys' = keys /\ refreshes' = refreshes /\ ended' = ended /\ crBlame \subseteq crBlame' /\ Present(refreshes[r])
    BY Zenon, <1>8 DEF refresh_token_begin
  <2>3. QED
    BY <2>1, <2>2 DEF KeysKept, Recorded
<1>9. ASSUME NEW h \in Handlers, refresh_token_revoke(h) PROVE KeysKept'
  <2>1. /\ \A g \in Handlers : g # h => handler'[g] = handler[g]
        /\ handler'[h].kind = "refresh" /\ handler'[h].record = handler[h].record
        /\ handler[h] # Unset /\ handler[h].kind = "refresh"
    BY Zenon, <1>9, HandlerMoves DEF refresh_token_revoke
  <2>2. \A r \in RefreshIds : refreshes'[r] = refreshes[r] \/ (Present(refreshes[r]) /\ refreshes'[r].key = refreshes[r].key)
    BY <1>9 DEF refresh_token_revoke, CrTypeOK, Present, RefreshRecord
  <2>3. keys' = keys /\ ended' = ended /\ crBlame' = crBlame
    BY <1>9 DEF refresh_token_revoke
  <2>4. QED
    BY <2>1, <2>2, <2>3 DEF KeysKept, Recorded
<1>10. ASSUME NEW h \in Handlers, refresh_token_issue(h) PROVE KeysKept'
  <2>1. handler[h] # Unset /\ handler[h].kind = "refresh"
    BY Zenon, <1>10 DEF refresh_token_issue
  <2>2. \A r \in RefreshIds : \/ refreshes'[r] = refreshes[r]
                              \/ refreshes'[r] = Refresh(handler[h].record.user, handler[h].record.key)
    BY Zenon, <1>10 DEF refresh_token_issue, CrTypeOK
  <2>3. keys' = keys /\ ended' = ended /\ crBlame \subseteq crBlame'
    BY <1>10 DEF refresh_token_issue
  <2>4. \A g \in Handlers : handler'[g] = IF g = h THEN Unset ELSE handler[g]
    BY Zenon, <1>10 DEF refresh_token_issue, CrTypeOK
  <2>5. QED
    BY <2>1, <2>2, <2>3, <2>4 DEF KeysKept, Recorded, Refresh
<1>11. ASSUME NEW h \in Handlers, NEW l \in LinkIds, verify_magic_link_begin(h, l) PROVE KeysKept'
  <2>1. \A g \in Handlers : handler'[g] =
          IF g = h THEN [kind |-> "verify", id |-> l, record |-> links[l]] ELSE handler[g]
    BY Zenon, <1>11 DEF verify_magic_link_begin, CrTypeOK
  <2>2. keys' = keys /\ refreshes' = refreshes /\ ended' = ended /\ crBlame \subseteq crBlame'
    BY Zenon, <1>11 DEF verify_magic_link_begin
  <2>3. QED
    BY <2>1, <2>2 DEF KeysKept, Recorded
<1>12. ASSUME NEW h \in Handlers, verify_magic_link_end(h) PROVE KeysKept'
  BY Zenon, <1>2, <1>12 DEF verify_magic_link_end, CrTypeOK
<1>13. ASSUME NEW u, \/ create_api_key(u) \/ create_own_key(u) \/ create_link_key \/ request_magic_link(u)
                    \/ deactivate_user(u) \/ keyed_request(u) \/ plain_request(u)
                    \/ key_load_begin(u) \/ key_load_end \/ tick \/ UNCHANGED crVars
       PROVE KeysKept'
  <2>1. handler' = handler /\ refreshes' = refreshes /\ ended' = ended
    BY Zenon, <1>13 DEF create_api_key, create_own_key, create_link_key, request_magic_link, deactivate_user,
      keyed_request, plain_request, key_load_begin, key_load_end, tick, crVars
  <2>2. QED
    BY <1>2, <2>1
<1>14. CASE cleanup_expired_tokens
  BY Zenon, <1>2, <1>14 DEF cleanup_expired_tokens
<1>15. CASE restart
  BY <1>2, <1>15 DEF restart
<1>16. QED
  BY Zenon, <1>3, <1>4, <1>5, <1>6, <1>7, <1>8, <1>9, <1>10, <1>11, <1>12, <1>13, <1>14, <1>15
  DEF CrNext, revoke_api_key, revoke_share_link, revoke_own_key, update_api_key

LEMMA RevokedSeenInit == CrInit => RevokedSeen
BY DEF CrInit, RevokedSeen

\* Only evictions, requests, loads and restarts touch what RevokedSeen is about.
LEMMA RevokedSeenNext ==
  CrTypeOK /\ KeysKept /\ RevokedSeen /\ [CrNext]_crVars => RevokedSeen'
<1> SUFFICES ASSUME CrTypeOK, KeysKept, RevokedSeen, [CrNext]_crVars,
                    crBlame' \cap {"overwrite", "load"} = {}
             PROVE  /\ \A k \in KeyIds : ended'[k] # Unset =>
                         /\ key_cache'[k] # Unset => key_cache'[k].found # Unset /\ key_cache'[k].found.revoked
                         /\ Loading(k)' => key_load'.found # Unset /\ key_load'.found.revoked
                    /\ served'.late => ~served'.admitted
  BY Zenon DEF RevokedSeen
<1> USE DEF records, caches, limiter, history
<1> DEFINE Goal == /\ \A k \in KeyIds : ended'[k] # Unset =>
                         /\ key_cache'[k] # Unset => key_cache'[k].found # Unset /\ key_cache'[k].found.revoked
                         /\ Loading(k)' => key_load'.found # Unset /\ key_load'.found.revoked
                   /\ served'.late => ~served'.admitted
<1>1. /\ crBlame \cap {"overwrite", "load"} = {} /\ "overwrite" \notin crBlame
      /\ \A k \in KeyIds : ended[k] # Unset => keys[k] # Unset /\ keys[k].revoked
      /\ \A k \in KeyIds : ended[k] # Unset =>
           /\ key_cache[k] # Unset => key_cache[k].found # Unset /\ key_cache[k].found.revoked
           /\ Loading(k) => key_load.found # Unset /\ key_load.found.revoked
      /\ served.late => ~served.admitted
  BY Zenon, KeyLastsNext DEF KeyLasts, KeysKept, RevokedSeen
<1>2. ASSUME UNCHANGED <<key_cache, key_load, ended, served>> PROVE Goal
  BY Zenon, <1>1, <1>2 DEF Loading
<1>3. ASSUME NEW h \in Handlers, change_evict(h) PROVE Goal
  <2> DEFINE k == handler[h].key
  <2>1. k \in KeyIds
    BY Zenon, <1>3, HandlerFields DEF change_evict
  <2>2. served' = served /\ key_load' = key_load
    BY Zenon, <1>3 DEF change_evict
  <2>3. \A j \in KeyIds : j # k => key_cache'[j] = key_cache[j] /\ ended'[j] = ended[j]
    BY Zenon, <1>3 DEF change_evict, CrTypeOK
  <2>4. key_cache'[k] = Unset
    BY Zenon, <1>3, <2>1 DEF change_evict, CrTypeOK
  <2>5. Loading(k) => key_load.found = keys[k]
    BY Zenon, <1>3 DEF change_evict
  <2>6. ended'[k] # Unset => keys[k] # Unset /\ keys[k].revoked
    <3>1. CASE handler[h].kind = "revoke"
      BY Zenon, <1>1, <1>3, <3>1 DEF KeysKept, Recorded, change_evict
    <3>2. CASE handler[h].kind # "revoke"
      BY Zenon, <1>1, <1>3, <2>1, <3>2 DEF change_evict
    <3>3. QED
      BY Zenon, <3>1, <3>2
  <2>7. QED
    BY Zenon, <1>1, <2>1, <2>2, <2>3, <2>4, <2>5, <2>6 DEF Loading
<1>4. ASSUME NEW t \in tokens, keyed_request(t) PROVE Goal
  <2>1. t.key \in KeyIds
    BY Zenon, <1>4 DEF keyed_request, CrTypeOK, Token
  <2>2. ended[t.key] # Unset => Found(t.key) # Unset /\ Found(t.key).revoked
    BY Zenon, <1>1, <2>1 DEF Found
  <2>3. served'.late => ~served'.admitted
    BY Zenon, <1>4, <2>2 DEF keyed_request, KeyAdmits
  <2>4. ended' = ended /\ key_load' = key_load
    BY Zenon, <1>4 DEF keyed_request
  <2>5. \A k \in KeyIds : key_cache'[k] = IF k = t.key THEN [found |-> Found(t.key)] ELSE key_cache[k]
    BY Zenon, <1>4, <2>1 DEF keyed_request, CrTypeOK
  <2>6. QED
    BY <1>1, <2>2, <2>3, <2>4, <2>5 DEF Loading
<1>5. ASSUME NEW t \in tokens, plain_request(t) PROVE Goal
  <2>1. ~served'.late
    BY Zenon, <1>5 DEF plain_request
  <2>2. UNCHANGED <<key_cache, key_load, ended>>
    BY Zenon, <1>5 DEF plain_request
  <2>3. QED
    BY Zenon, <1>1, <2>1, <2>2 DEF Loading
<1>6. ASSUME NEW k \in KeyIds, key_load_begin(k) PROVE Goal
  <2>1. key_load' = [key |-> k, found |-> keys[k]]
    BY Zenon, <1>6 DEF key_load_begin
  <2>2. UNCHANGED <<key_cache, ended, served>>
    BY Zenon, <1>6 DEF key_load_begin
  <2>3. QED
    BY Zenon, <1>1, <2>1, <2>2 DEF Loading
<1>7. CASE key_load_end
  <2>1. key_load # Unset /\ key_load.key \in KeyIds
    BY Zenon, <1>7 DEF key_load_end, CrTypeOK
  <2>2. \A k \in KeyIds : key_cache'[k] = IF k = key_load.key THEN [found |-> key_load.found] ELSE key_cache[k]
    BY Zenon, <1>7, <2>1 DEF key_load_end, CrTypeOK
  <2>3. ended' = ended /\ served' = served /\ key_load' = Unset
    BY Zenon, <1>7 DEF key_load_end
  <2>4. QED
    BY <1>1, <2>1, <2>2, <2>3 DEF Loading
<1>8. CASE restart
  <2>1. ended' = ended /\ served' = served /\ key_load' = Unset
    BY <1>8 DEF restart
  <2>2. \A k \in KeyIds : key_cache'[k] = Unset
    BY <1>8 DEF restart
  <2>3. QED
    BY Zenon, <1>1, <2>1, <2>2 DEF Loading
<1>9. ASSUME NEW h, NEW k,
             \/ change_begin(h, "revoke", k) \/ change_begin(h, "label", k) \/ auth_token_begin(h, k)
             \/ change_write(h) \/ auth_token_end(h)
             \/ refresh_token_begin(h, k) \/ refresh_token_revoke(h) \/ refresh_token_issue(h)
             \/ verify_magic_link_begin(h, k) \/ verify_magic_link_end(h)
      PROVE  Goal
  BY Zenon, <1>2, <1>9 DEF change_begin, auth_token_begin, change_write, auth_token_end, refresh_token_begin,
    refresh_token_revoke, refresh_token_issue, verify_magic_link_begin, verify_magic_link_end
<1>10. ASSUME NEW u,
              \/ create_api_key(u) \/ create_own_key(u) \/ create_link_key \/ request_magic_link(u)
              \/ deactivate_user(u) \/ cleanup_expired_tokens \/ tick \/ UNCHANGED crVars
       PROVE  Goal
  BY Zenon, <1>2, <1>10 DEF create_api_key, create_own_key, create_link_key, request_magic_link, deactivate_user,
    cleanup_expired_tokens, tick, crVars
<1>11. QED
  BY Zenon, <1>3, <1>4, <1>5, <1>6, <1>7, <1>8, <1>9, <1>10
  DEF CrNext, revoke_api_key, revoke_share_link, revoke_own_key, update_api_key

-----------------------------------------------------------------------------
(* Tokens *)

\* What TokensBound says of one token.
Bound(t) ==
  t.root # Unset =>
    /\ keys[t.root] # Unset
    /\ t.key # Unset => t.exp <= keys[t.root].expires
    /\ t.key = Unset =>
         /\ t.exp <= now + TokenLife
         /\ crBlame \cap {"overwrite", "late"} = {} =>
              /\ t.exp <= keys[t.root].expires + TokenLife
              /\ ended[t.root] # Unset => t.exp <= ended[t.root] + TokenLife

LEMMA TokensBoundInit == CrInit => TokensBound
BY Zenon DEF CrInit, TokensBound

\* A token stays bound while the clock goes on and keys are revoked: the answer
\* to a revocation comes no earlier than the token was issued.
LEMMA StaysBound ==
  ASSUME CrTypeOK, CrTypeOK', KeyLasts, NEW t \in tokens, Bound(t), now' >= now,
         \A k \in KeyIds : ended'[k] = ended[k] \/ ended'[k] = now
  PROVE  Bound(t)'
<1>1. t.root \in KeyIds \cup {Unset} /\ t.exp \in Nat
  BY Zenon DEF CrTypeOK, Token
<1>2. now \in Nat /\ now' \in Nat /\ TokenLife \in Nat
  BY Zenon, Times DEF CrTypeOK
<1>3. CASE t.root = Unset
  BY Zenon, <1>3 DEF Bound
<1>4. CASE t.root # Unset
  <2>1. /\ keys[t.root] # Unset /\ keys'[t.root] # Unset
        /\ keys'[t.root].expires = keys[t.root].expires /\ keys[t.root].expires \in Nat
    BY ZenonT(30), <1>1, <1>4 DEF Bound, KeyLasts, CrTypeOK, KeyRecord
  <2>2. crBlame \subseteq crBlame'
    BY Zenon DEF KeyLasts
  <2>3. t.key = Unset => t.exp <= now' + TokenLife
    BY <1>1, <1>2, <1>4 DEF Bound
  <2>4. t.key = Unset /\ crBlame \cap {"overwrite", "late"} = {} /\ ended'[t.root] # Unset =>
          t.exp <= ended'[t.root] + TokenLife
    BY Zenon, <1>1, <1>2, <1>4 DEF Bound
  <2>5. QED
    BY Zenon, <1>4, <2>1, <2>2, <2>3, <2>4 DEF Bound
<1>5. QED
  BY Zenon, <1>3, <1>4

\* Each way to a token binds it, and nothing else unbinds one.
LEMMA TokensBoundNext ==
  CrTypeOK /\ KeysKept /\ TokensBound /\ [CrNext]_crVars => TokensBound'
<1> SUFFICES ASSUME CrTypeOK, KeysKept, TokensBound, [CrNext]_crVars PROVE \A t \in tokens' : Bound(t)'
  BY Zenon DEF TokensBound, Bound
<1> USE DEF records, caches, limiter, history
<1>1. CrTypeOK' /\ KeyLasts /\ \A t \in tokens : Bound(t)
  BY Zenon, TypeNext, KeyLastsNext DEF TokensBound, Bound
<1>2. now \in Nat /\ TokenLife \in Nat
  BY Times
<1>3. ASSUME now' = now, ended' = ended PROVE \A t \in tokens : Bound(t)'
  <2>1. now' >= now
    BY <1>2, <1>3
  <2>2. QED
    BY <1>1, <1>3, <2>1, StaysBound
<1>4. CASE create_link_key
  <2>1. PICK k \in Unused(keys), life \in KeyLives :
          /\ keys' = [keys EXCEPT ![k] = NewKey(NoUser, life)]
          /\ tokens' = tokens \cup {[sub |-> NoUser, key |-> k, exp |-> now + life, root |-> k]}
    BY Zenon, <1>4 DEF create_link_key
  <2>2. k \in KeyIds /\ k # Unset /\ life \in Nat
    BY ZenonT(30), CredentialsAssumption DEF Unused, CrTypeOK
  <2>3. keys'[k] = NewKey(NoUser, life) /\ NewKey(NoUser, life) # Unset /\ keys'[k].expires = now + life
    <3>1. NewKey(NoUser, life) \in KeyRecord
      BY NewKeyType DEF Owners
    <3>2. QED
      BY Zenon, <2>1, <2>2, <3>1, CredentialsAssumption DEF CrTypeOK, NewKey
  <2>4. now + life <= now + life
    BY <1>2, <2>2
  <2>5. ASSUME NEW t, t = [sub |-> NoUser, key |-> k, exp |-> now + life, root |-> k] PROVE Bound(t)'
    BY Zenon, <2>2, <2>3, <2>4, <2>5 DEF Bound
  <2>6. now' = now /\ ended' = ended
    BY Zenon, <1>4 DEF create_link_key
  <2>7. QED
    BY Zenon, <1>3, <2>1, <2>5, <2>6
<1>5. ASSUME NEW h \in Handlers, auth_token_end(h) PROVE \A t \in tokens' : Bound(t)'
  <2> DEFINE k == handler[h].key
             record == handler[h].record
  <2>1. k \in KeyIds /\ k # Unset /\ record \in KeyRecord
    BY Zenon, <1>5, HandlerFields, CredentialsAssumption DEF auth_token_end
  <2>2. keys[k] # Unset /\ record.expires = keys[k].expires
    BY Zenon, <1>5 DEF KeysKept, Recorded, auth_token_end
  <2>3. record.expires > now => KeyToken(k, record).exp <= record.expires
    BY Zenon, <2>1, IssuedTypes DEF KeyRecord
  <2>4. KeyToken(k, record).root = k /\ KeyToken(k, record).key = k
    BY Zenon DEF KeyToken
  <2>5. now' = now /\ ended' = ended /\ keys' = keys
    BY Zenon, <1>5 DEF auth_token_end
  <2>6. ASSUME NEW t, t = KeyToken(k, record), record.expires > now PROVE Bound(t)'
    BY Zenon, <2>1, <2>2, <2>3, <2>4, <2>5, <2>6 DEF Bound
  <2>7. tokens' = tokens \/ (record.expires > now /\ tokens' = tokens \cup {KeyToken(k, record)})
    BY Zenon, <1>5 DEF auth_token_end
  <2>8. QED
    BY Zenon, <1>3, <2>5, <2>6, <2>7
<1>6. ASSUME NEW h \in Handlers, refresh_token_issue(h) PROVE \A t \in tokens' : Bound(t)'
  <2> DEFINE record == handler[h].record
             k == record.key
             new == [sub |-> record.user, key |-> Unset, exp |-> now + TokenLife, root |-> k]
             old == [record EXCEPT !.revoked = FALSE]
  <2>1. record \in RefreshRecord /\ k \in KeyIds /\ k # Unset
    BY Zenon, <1>6, HandlerFields, CredentialsAssumption DEF refresh_token_issue, RefreshRecord
  <2>2. old.key = k
    BY <2>1 DEF RefreshRecord
  <2>3. keys[k] # Unset /\ keys[k] \in KeyRecord /\ keys[k].expires \in Nat
    BY ZenonT(30), <1>6, <2>1 DEF KeysKept, refresh_token_issue, CrTypeOK, KeyRecord
  <2>4. crBlame' \cap {"overwrite", "late"} = {} => RefreshValid(old) /\ "overwrite" \notin crBlame
    BY Zenon, <1>6 DEF refresh_token_issue
  <2>5. crBlame' \cap {"overwrite", "late"} = {} => keys[k].expires >= now /\ ~keys[k].revoked
    BY Zenon, <2>1, <2>2, <2>4 DEF RefreshValid
  <2>6. crBlame' \cap {"overwrite", "late"} = {} => ended[k] = Unset
    BY Zenon, <2>1, <2>4, <2>5 DEF KeysKept
  <2>7. now' = now /\ ended' = ended /\ keys' = keys /\ tokens' = tokens \cup {new}
    BY <1>6 DEF refresh_token_issue
  <2>8. /\ new.exp <= now' + TokenLife
        /\ crBlame' \cap {"overwrite", "late"} = {} => new.exp <= keys'[k].expires + TokenLife
    BY <1>2, <2>3, <2>5, <2>7
  <2>9. ASSUME NEW t, t = new PROVE Bound(t)'
    BY Zenon, <2>3, <2>6, <2>7, <2>8, <2>9 DEF Bound
  <2>10. QED
    BY Zenon, <1>3, <2>7, <2>9
<1>7. ASSUME NEW h \in Handlers, verify_magic_link_end(h) PROVE \A t \in tokens' : Bound(t)'
  <2>1. \A t \in tokens' : t \in tokens \/ t.root = Unset
    BY <1>7 DEF verify_magic_link_end
  <2>2. now' = now /\ ended' = ended
    BY Zenon, <1>7 DEF verify_magic_link_end
  <2>3. QED
    BY Zenon, <1>3, <2>1, <2>2 DEF Bound
<1>8. ASSUME NEW h \in Handlers, change_evict(h) PROVE \A t \in tokens' : Bound(t)'
  <2>1. \A k \in KeyIds : ended'[k] = ended[k] \/ ended'[k] = now
    BY Zenon, <1>8 DEF change_evict, CrTypeOK
  <2>2. now' = now /\ tokens' = tokens /\ now' >= now
    BY <1>2, <1>8 DEF change_evict
  <2>3. QED
    BY Zenon, <1>1, <2>1, <2>2, StaysBound
<1>9. CASE tick
  <2>1. now' >= now /\ ended' = ended /\ tokens' = tokens
    BY <1>2, <1>9 DEF tick
  <2>2. QED
    BY <1>1, <2>1, StaysBound
<1>10. ASSUME NEW h, NEW k,
             \/ change_begin(h, "revoke", k) \/ change_begin(h, "label", k) \/ auth_token_begin(h, k)
             \/ change_write(h) \/ refresh_token_begin(h, k) \/ refresh_token_revoke(h)
             \/ verify_magic_link_begin(h, k)
      PROVE  now' = now /\ ended' = ended /\ tokens' = tokens
  BY Zenon, <1>10 DEF change_begin, auth_token_begin, change_write, refresh_token_begin, refresh_token_revoke,
    verify_magic_link_begin
<1>11. ASSUME NEW u,
              \/ create_api_key(u) \/ create_own_key(u) \/ request_magic_link(u)
              \/ deactivate_user(u) \/ cleanup_expired_tokens \/ keyed_request(u) \/ plain_request(u)
              \/ key_load_begin(u) \/ key_load_end \/ restart \/ UNCHANGED crVars
       PROVE  now' = now /\ ended' = ended /\ tokens' = tokens
  BY Zenon, <1>11 DEF create_api_key, create_own_key, request_magic_link, deactivate_user,
    cleanup_expired_tokens, keyed_request, plain_request, key_load_begin, key_load_end, restart, crVars
<1>12. QED
  BY Zenon, <1>3, <1>4, <1>5, <1>6, <1>7, <1>8, <1>9, <1>10, <1>11
  DEF CrNext, revoke_api_key, revoke_share_link, revoke_own_key, update_api_key

-----------------------------------------------------------------------------
(* Single-use secrets *)

\* A step that neither begins nor ends a verification leaves a handler as it is,
\* ends it, or makes it one of another kind; likewise for rotations.
NoNew(kind) ==
  \A h \in Handlers :
    handler'[h] = handler[h] \/ handler'[h] = Unset \/ handler'[h].kind # kind

\* A link that was stored stays stored or is gone, and stays used.
LinkLasts(l) ==
  links[l] # Unset =>
    /\ links'[l] # Unset
    /\ Present(links'[l]) => Present(links[l]) /\ (links[l].used => links'[l].used)

LEMMA LinksOnceInit == CrInit => LinksOnce
<1> SUFFICES ASSUME CrInit, NEW l \in LinkIds PROVE LinkOnce(l)
  BY DEF LinksOnce
<1>1. <<"link", l>> \in Secrets
  BY DEF Secrets
<1>2. Using("verify", l) = {} /\ spent[<<"link", l>>] = 0
  BY Zenon, <1>1 DEF CrInit, Using
<1>3. QED
  BY <1>2 DEF LinkOnce

\* Verifications mark their link before they hand out a token.
LEMMA LinksOnceNext == CrTypeOK /\ LinksOnce /\ [CrNext]_crVars => LinksOnce'
<1> SUFFICES ASSUME CrTypeOK, LinksOnce, [CrNext]_crVars PROVE LinksOnce'
  OBVIOUS
<1> USE DEF records, caches, limiter, history
<1>1. ASSUME NoNew("verify"), \A l \in LinkIds : LinkLasts(l) /\ spent'[<<"link", l>>] = spent[<<"link", l>>],
             crBlame \subseteq crBlame'
      PROVE  LinksOnce'
  <2>1. \A l \in LinkIds : Using("verify", l)' \subseteq Using("verify", l)
    BY Zenon, <1>1 DEF NoNew, Using
  <2>2. QED
    BY Zenon, <1>1, <2>1 DEF LinksOnce, LinkOnce, LinkLasts
<1>2. ASSUME NEW h \in Handlers, NEW l \in LinkIds, verify_magic_link_begin(h, l) PROVE LinksOnce'
  <2>1. \A g \in Handlers : handler'[g] =
          IF g = h THEN [kind |-> "verify", id |-> l, record |-> links[l]] ELSE handler[g]
    BY Zenon, <1>2 DEF verify_magic_link_begin, CrTypeOK
  <2>2. links' = links /\ spent' = spent /\ crBlame \subseteq crBlame'
    BY Zenon, <1>2 DEF verify_magic_link_begin
  <2>3. Present(links[l]) /\ ~links[l].used /\ links[l] # Unset
    BY Zenon, <1>2 DEF verify_magic_link_begin, LinkValid, Present
  <2>4. "verify" \notin crBlame' => Using("verify", l) = {}
    BY Zenon, <1>2 DEF verify_magic_link_begin
  <2>5. \A j \in LinkIds : j # l => Using("verify", j)' \subseteq Using("verify", j)
    BY <2>1 DEF Using
  <2>6. Using("verify", l)' \subseteq Using("verify", l) \cup {h}
    BY Zenon, <2>1 DEF Using
  <2>7. ASSUME "verify" \notin crBlame', NEW j \in LinkIds PROVE LinkOnce(j)'
    <3>1. LinkOnce(j) /\ LinkOnce(l)
      BY <2>2, <2>7 DEF LinksOnce
    <3>2. CASE j # l
      BY Zenon, <2>2, <2>5, <3>1, <3>2 DEF LinkOnce
    <3>3. CASE j = l
      <4>1. Using("verify", l)' \subseteq {h} /\ spent[<<"link", l>>] # 1
        BY Zenon, <2>3, <2>4, <2>6, <2>7, <3>1 DEF LinkOnce
      <4>2. QED
        BY Zenon, <2>2, <2>3, <3>1, <3>3, <4>1 DEF LinkOnce
    <3>4. QED
      BY <3>2, <3>3
  <2>8. QED
    BY <2>7 DEF LinksOnce
<1>3. ASSUME NEW h \in Handlers, verify_magic_link_end(h) PROVE LinksOnce'
  <2>1. PICK l \in LinkIds : l = handler[h].id /\ h \in Using("verify", l)
    BY Zenon, <1>3, HandlerFields DEF verify_magic_link_end, Using
  <2>2. \A g \in Handlers : handler'[g] = IF g = h THEN Unset ELSE handler[g]
    BY Zenon, <1>3 DEF verify_magic_link_end, CrTypeOK
  <2>3. \A j \in LinkIds : Using("verify", j)' \subseteq Using("verify", j) \ {h}
    BY Zenon, <2>2 DEF Using
  <2>4. \A j \in LinkIds : j # l => links'[j] = links[j]
    BY Zenon, <1>3, <2>1, LinkMarked DEF verify_magic_link_end, CrTypeOK
  <2>5. \A j \in LinkIds : j # l => spent'[<<"link", j>>] = spent[<<"link", j>>]
    <3>1. spent' = spent \/ spent' = [spent EXCEPT ![<<"link", l>>] = @ + 1]
      BY Zenon, <1>3, <2>1 DEF verify_magic_link_end
    <3>2. \A j \in LinkIds : <<"link", j>> \in Secrets
      BY DEF Secrets
    <3>3. QED
      BY Zenon, <3>1, <3>2 DEF CrTypeOK
  <2>6. links[l] # Unset => links'[l] # Unset /\ (Present(links'[l]) => links'[l].used)
    <3>1. CASE Present(links[l])
      <4>1. links' = [links EXCEPT ![l] = [links[l] EXCEPT !.used = TRUE]]
        BY Zenon, <1>3, <2>1, <3>1, LinkMarked DEF verify_magic_link_end
      <4>2. links'[l] \in LinkRecord /\ links'[l].used
        BY Zenon, <2>1, <3>1, <4>1, LinkMarked DEF CrTypeOK
      <4>3. QED
        BY Zenon, <4>2, CredentialsAssumption
    <3>2. CASE ~Present(links[l])
      BY <1>3, <3>2 DEF verify_magic_link_end
    <3>3. QED
      BY Zenon, <3>1, <3>2
  <2>7. spent[<<"link", l>>] \in Nat /\ <<"link", l>> \in Secrets
    BY Zenon, <2>1 DEF CrTypeOK, Secrets
  <2>8. spent'[<<"link", l>>] \in {spent[<<"link", l>>], spent[<<"link", l>>] + 1}
    BY <1>3, <2>7 DEF verify_magic_link_end, CrTypeOK
  <2>9. crBlame' = crBlame
    BY Zenon, <1>3 DEF verify_magic_link_end
  <2>10. ASSUME "verify" \notin crBlame', NEW j \in LinkIds PROVE LinkOnce(j)'
    <3>1. LinkOnce(j) /\ LinkOnce(l)
      BY <2>9, <2>10 DEF LinksOnce
    <3>2. CASE j # l
      BY Zenon, <2>3, <2>4, <2>5, <3>1, <3>2 DEF LinkOnce
    <3>3. CASE j = l
      <4>1. Using("verify", l)' = {} /\ links[l] # Unset
        BY Zenon, <2>1, <2>3, <3>1 DEF LinkOnce
      <4>2. spent[<<"link", l>>] <= 1 /\ spent[<<"link", l>>] # 1
        BY Zenon, <2>1, <3>1 DEF LinkOnce
      <4>3. spent'[<<"link", l>>] <= 1
        BY <2>7, <2>8, <4>2
      <4>4. QED
        BY Zenon, <2>6, <3>3, <4>1, <4>3 DEF LinkOnce
    <3>4. QED
      BY <3>2, <3>3
  <2>11. QED
    BY <2>10 DEF LinksOnce
<1>4. ASSUME NEW h \in Handlers, NEW k,
             \/ change_begin(h, "revoke", k) \/ change_begin(h, "label", k) \/ auth_token_begin(h, k)
             \/ change_evict(h) \/ auth_token_end(h) \/ refresh_token_begin(h, k)
      PROVE  NoNew("verify") /\ UNCHANGED <<links, spent>> /\ crBlame \subseteq crBlame'
  <2>1. CASE change_begin(h, "revoke", k) \/ change_begin(h, "label", k)
    BY <2>1 DEF NoNew, change_begin, CrTypeOK
  <2>2. CASE auth_token_begin(h, k)
    BY Zenon, <2>2 DEF NoNew, auth_token_begin, CrTypeOK
  <2>3. CASE change_evict(h)
    BY Zenon, <2>3 DEF NoNew, change_evict, CrTypeOK
  <2>4. CASE auth_token_end(h)
    BY Zenon, <2>4 DEF NoNew, auth_token_end, CrTypeOK
  <2>5. CASE refresh_token_begin(h, k)
    BY Zenon, <2>5 DEF NoNew, refresh_token_begin, CrTypeOK
  <2>6. QED
    BY Zenon, <1>4, <2>1, <2>2, <2>3, <2>4, <2>5
<1>5. ASSUME NEW h \in Handlers, change_write(h)
      PROVE  NoNew("verify") /\ UNCHANGED <<links, spent>> /\ crBlame \subseteq crBlame'
  <2>1. handler[h].kind # "verify" /\ handler'[h].kind = handler[h].kind /\ \A g \in Handlers : g # h => handler'[g] = handler[g]
    BY Zenon, <1>5, HandlerMoves DEF change_write
  <2>2. QED
    BY Zenon, <1>5, <2>1 DEF NoNew, change_write
<1>6. ASSUME NEW h \in Handlers, refresh_token_revoke(h)
      PROVE  NoNew("verify") /\ UNCHANGED <<links, spent>> /\ crBlame \subseteq crBlame'
  <2>1. handler[h].kind # "verify" /\ handler'[h].kind = handler[h].kind /\ \A g \in Handlers : g # h => handler'[g] = handler[g]
    BY Zenon, <1>6, HandlerMoves DEF refresh_token_revoke
  <2>2. QED
    BY <1>6, <2>1 DEF NoNew, refresh_token_revoke
<1>7. ASSUME NEW h \in Handlers, refresh_token_issue(h) PROVE LinksOnce'
  <2>1. NoNew("verify") /\ links' = links /\ crBlame \subseteq crBlame'
    BY Zenon, <1>7 DEF NoNew, refresh_token_issue, CrTypeOK
  <2>2. \A l \in LinkIds : <<"link", l>> \in Secrets /\ <<"link", l>> # <<"refresh", handler[h].id>>
    BY DEF Secrets
  <2>3. \A l \in LinkIds : spent'[<<"link", l>>] = spent[<<"link", l>>]
    BY Zenon, <1>7, <2>2 DEF refresh_token_issue, CrTypeOK
  <2>4. QED
    BY Zenon, <1>1, <2>1, <2>3 DEF LinkLasts
<1>8. ASSUME NEW u \in Accounts, request_magic_link(u) PROVE LinksOnce'
  <2>1. \A l \in LinkIds : LinkLasts(l)
    BY Zenon, <1>8 DEF request_magic_link, LinkLasts, Unused, CrTypeOK
  <2>2. QED
    BY Zenon, <1>1, <1>8, <2>1 DEF request_magic_link, NoNew
<1>9. CASE cleanup_expired_tokens
  <2>1. \A l \in LinkIds : LinkLasts(l)
    BY Zenon, <1>9, CredentialsAssumption DEF cleanup_expired_tokens, LinkLasts, Present
  <2>2. QED
    BY Zenon, <1>1, <1>9, <2>1 DEF cleanup_expired_tokens, NoNew
<1>10. CASE restart
  <2>1. NoNew("verify") /\ UNCHANGED <<links, spent, crBlame>>
    BY Zenon, <1>10 DEF restart, NoNew
  <2>2. QED
    BY Zenon, <1>1, <2>1 DEF LinkLasts
<1>11. ASSUME NEW u,
              \/ create_api_key(u) \/ create_own_key(u) \/ create_link_key \/ deactivate_user(u)
              \/ keyed_request(u) \/ plain_request(u) \/ key_load_begin(u) \/ key_load_end
              \/ tick \/ UNCHANGED crVars
       PROVE  UNCHANGED <<handler, links, spent, crBlame>>
  BY Zenon, <1>11 DEF create_api_key, create_own_key, create_link_key, deactivate_user,
    keyed_request, plain_request, key_load_begin, key_load_end, tick, crVars
<1>12. ASSUME NoNew("verify"), UNCHANGED <<links, spent>>, crBlame \subseteq crBlame' PROVE LinksOnce'
  BY Zenon, <1>1, <1>12 DEF LinkLasts
<1>13. ASSUME UNCHANGED <<handler, links, spent, crBlame>> PROVE LinksOnce'
  BY Zenon, <1>12, <1>13 DEF NoNew
<1>14. QED
  BY Zenon, <1>2, <1>3, <1>4, <1>5, <1>6, <1>7, <1>8, <1>9, <1>10, <1>11, <1>12, <1>13
  DEF CrNext, revoke_api_key, revoke_share_link, revoke_own_key, update_api_key

\* A refresh token that was stored stays stored or is gone, and stays revoked.
RefreshLasts(r) ==
  refreshes[r] # Unset =>
    /\ refreshes'[r] # Unset
    /\ Present(refreshes'[r]) => Present(refreshes[r]) /\ (refreshes[r].revoked => refreshes'[r].revoked)

LEMMA RefreshesOnceInit == CrInit => RefreshesOnce
<1> SUFFICES ASSUME CrInit, NEW r \in RefreshIds PROVE RefreshOnce(r)
  BY DEF RefreshesOnce
<1>1. <<"refresh", r>> \in Secrets
  BY DEF Secrets
<1>2. Using("refresh", r) = {} /\ spent[<<"refresh", r>>] = 0
  BY Zenon, <1>1 DEF CrInit, Using
<1>3. QED
  BY <1>2 DEF RefreshOnce

\* A new refresh token takes an unused identifier.
LEMMA NewRefreshLasts ==
  ASSUME CrTypeOK, NEW n \in Unused(refreshes), NEW record, refreshes' = [refreshes EXCEPT ![n] = record],
         NEW r \in RefreshIds
  PROVE  RefreshLasts(r)
BY Zenon DEF RefreshLasts, Unused, CrTypeOK

\* Rotations revoke the old refresh token before they hand out a new one.
LEMMA RefreshesOnceNext == CrTypeOK /\ RefreshesOnce /\ [CrNext]_crVars => RefreshesOnce'
<1> SUFFICES ASSUME CrTypeOK, RefreshesOnce, [CrNext]_crVars PROVE RefreshesOnce'
  OBVIOUS
<1> USE DEF records, caches, limiter, history
<1>1. ASSUME NoNew("refresh"), crBlame \subseteq crBlame',
             \A r \in RefreshIds : RefreshLasts(r) /\ spent'[<<"refresh", r>>] = spent[<<"refresh", r>>]
      PROVE  RefreshesOnce'
  <2>1. \A r \in RefreshIds : \A h \in Using("refresh", r)' : h \in Using("refresh", r) /\ handler'[h] = handler[h]
    BY Zenon, <1>1 DEF NoNew, Using
  <2>2. ASSUME "rotate" \notin crBlame', NEW r \in RefreshIds PROVE RefreshOnce(r)'
    <3>1. RefreshOnce(r) /\ RefreshLasts(r) /\ spent'[<<"refresh", r>>] = spent[<<"refresh", r>>]
      BY Zenon, <1>1, <2>2 DEF RefreshesOnce
    <3>2. Using("refresh", r)' # {} => refreshes'[r] # Unset
      BY Zenon, <2>1, <3>1 DEF RefreshOnce, RefreshLasts
    <3>3. spent'[<<"refresh", r>>] = 1 => Using("refresh", r)' = {} /\ refreshes'[r] # Unset
      BY Zenon, <2>1, <3>1 DEF RefreshOnce, RefreshLasts
    <3>4. spent'[<<"refresh", r>>] = 1 \/ (\E h \in Using("refresh", r)' : handler'[h].at = "revoked") =>
            (Present(refreshes'[r]) => refreshes'[r].revoked)
      BY Zenon, <2>1, <3>1 DEF RefreshOnce, RefreshLasts
    <3>5. QED
      BY Zenon, <2>1, <3>1, <3>2, <3>3, <3>4 DEF RefreshOnce
  <2>3. QED
    BY <2>2 DEF RefreshesOnce
<1>2. ASSUME NEW h \in Handlers, NEW r \in RefreshIds, refresh_token_begin(h, r) PROVE RefreshesOnce'
  <2>1. \A g \in Handlers : handler'[g] =
          IF g = h THEN [kind |-> "refresh", at |-> "checked", id |-> r, record |-> refreshes[r]] ELSE handler[g]
    BY Zenon, <1>2 DEF refresh_token_begin, CrTypeOK
  <2>2. refreshes' = refreshes /\ spent' = spent /\ crBlame \subseteq crBlame'
    BY Zenon, <1>2 DEF refresh_token_begin
  <2>3. Present(refreshes[r]) /\ ~refreshes[r].revoked /\ refreshes[r] # Unset
    BY Zenon, <1>2 DEF refresh_token_begin, RefreshValid, Present
  <2>4. "rotate" \notin crBlame' => Using("refresh", r) = {}
    BY Zenon, <1>2 DEF refresh_token_begin
  <2>5. \A q \in RefreshIds : q # r =>
          \A g \in Using("refresh", q)' : g \in Using("refresh", q) /\ handler'[g] = handler[g]
    BY <2>1 DEF Using
  <2>6. Using("refresh", r)' \subseteq Using("refresh", r) \cup {h}
    BY Zenon, <2>1 DEF Using
  <2>7. ASSUME "rotate" \notin crBlame', NEW q \in RefreshIds PROVE RefreshOnce(q)'
    <3>1. RefreshOnce(q) /\ RefreshOnce(r)
      BY <2>2, <2>7 DEF RefreshesOnce
    <3>2. CASE q # r
      BY Zenon, <2>2, <2>5, <3>1, <3>2 DEF RefreshOnce
    <3>3. CASE q = r
      <4>1. Using("refresh", r)' \subseteq {h} /\ spent[<<"refresh", r>>] # 1
        BY Zenon, <2>3, <2>4, <2>6, <2>7, <3>1 DEF RefreshOnce
      <4>2. handler'[h].at # "revoked"
        BY <2>1
      <4>3. QED
        BY Zenon, <2>2, <2>3, <3>1, <3>3, <4>1, <4>2 DEF RefreshOnce
    <3>4. QED
      BY <3>2, <3>3
  <2>8. QED
    BY <2>7 DEF RefreshesOnce
<1>3. ASSUME NEW h \in Handlers, refresh_token_revoke(h) PROVE RefreshesOnce'
  <2>1. PICK r \in RefreshIds : r = handler[h].id /\ h \in Using("refresh", r)
    BY Zenon, <1>3, HandlerFields DEF refresh_token_revoke, Using
  <2>2. /\ \A g \in Handlers : g # h => handler'[g] = handler[g]
        /\ handler'[h].kind = handler[h].kind /\ handler'[h].id = r
        /\ handler[h] # Unset /\ handler[h].kind = "refresh"
    BY Zenon, <1>3, <2>1, HandlerMoves DEF refresh_token_revoke
  <2>3. \A q \in RefreshIds : Using("refresh", q)' \subseteq Using("refresh", q)
    BY Zenon, <2>1, <2>2 DEF Using
  <2>4. \A q \in RefreshIds : q # r => refreshes'[q] = refreshes[q] /\ h \notin Using("refresh", q)
    BY <1>3, <2>1 DEF refresh_token_revoke, Using
  <2>5. refreshes[r] # Unset => refreshes'[r] # Unset /\ (Present(refreshes'[r]) => refreshes'[r].revoked)
    <3>1. CASE Present(refreshes[r])
      <4>1. refreshes'[r] = [refreshes[r] EXCEPT !.revoked = TRUE] /\ refreshes[r] \in RefreshRecord
        BY Zenon, <1>3, <2>1, <3>1 DEF refresh_token_revoke, CrTypeOK, Present
      <4>2. refreshes[r] = [user |-> refreshes[r].user, key |-> refreshes[r].key,
                            expires |-> refreshes[r].expires, revoked |-> refreshes[r].revoked]
        BY <4>1 DEF RefreshRecord
      <4>3. \A v : [refreshes[r] EXCEPT !.revoked = v]
                     = [user |-> refreshes[r].user, key |-> refreshes[r].key,
                        expires |-> refreshes[r].expires, revoked |-> v]
        BY <4>2
      <4>4. refreshes'[r] \in RefreshRecord /\ refreshes'[r].revoked
        BY Zenon, <4>1, <4>3 DEF RefreshRecord
      <4>5. QED
        BY Zenon, <4>4, CredentialsAssumption
    <3>2. CASE ~Present(refreshes[r])
      BY Zenon, <1>3, <2>1, <3>2 DEF refresh_token_revoke
    <3>3. QED
      BY Zenon, <3>1, <3>2
  <2>6. crBlame' = crBlame /\ spent' = spent
    BY <1>3 DEF refresh_token_revoke
  <2>7. ASSUME "rotate" \notin crBlame', NEW q \in RefreshIds PROVE RefreshOnce(q)'
    <3>1. RefreshOnce(q) /\ RefreshOnce(r)
      BY <2>6, <2>7 DEF RefreshesOnce
    <3>2. CASE q # r
      <4>1. \A g \in Using("refresh", q)' : g \in Using("refresh", q) /\ handler'[g] = handler[g]
        BY Zenon, <2>2, <2>3, <2>4, <3>2 DEF Using
      <4>2. QED
        BY Zenon, <2>3, <2>4, <2>6, <3>1, <3>2, <4>1 DEF RefreshOnce
    <3>3. CASE q = r
      <4>1. refreshes'[r] # Unset /\ (Present(refreshes'[r]) => refreshes'[r].revoked)
        BY Zenon, <2>1, <2>5, <3>1 DEF RefreshOnce
      <4>2. spent[<<"refresh", r>>] # 1
        BY Zenon, <2>1, <3>1 DEF RefreshOnce
      <4>3. QED
        BY Zenon, <2>3, <2>6, <3>1, <3>3, <4>1, <4>2 DEF RefreshOnce
    <3>4. QED
      BY <3>2, <3>3
  <2>8. QED
    BY <2>7 DEF RefreshesOnce
<1>4. ASSUME NEW h \in Handlers, refresh_token_issue(h) PROVE RefreshesOnce'
  <2>1. PICK r \in RefreshIds : r = handler[h].id /\ h \in Using("refresh", r)
    BY Zenon, <1>4, HandlerFields DEF refresh_token_issue, Using
  <2>2. \A g \in Handlers : handler'[g] = IF g = h THEN Unset ELSE handler[g]
    BY Zenon, <1>4 DEF refresh_token_issue, CrTypeOK
  <2>3. \A q \in RefreshIds : \A g \in Using("refresh", q)' :
          g \in Using("refresh", q) /\ g # h /\ handler'[g] = handler[g]
    BY Zenon, <2>2 DEF Using
  <2>4. \A q \in RefreshIds : RefreshLasts(q)
    BY Zenon, <1>4, NewRefreshLasts DEF refresh_token_issue
  <2>5. \A q \in RefreshIds : <<"refresh", q>> \in Secrets
    BY DEF Secrets
  <2>6. spent' = [spent EXCEPT ![<<"refresh", r>>] = spent[<<"refresh", r>>] + 1]
    BY <1>4, <2>1 DEF refresh_token_issue
  <2>7. \A q \in RefreshIds : q # r => spent'[<<"refresh", q>>] = spent[<<"refresh", q>>]
    BY Zenon, <2>5, <2>6 DEF CrTypeOK
  <2>8. spent'[<<"refresh", r>>] = spent[<<"refresh", r>>] + 1 /\ spent[<<"refresh", r>>] \in Nat
    BY Zenon, <2>5, <2>6 DEF CrTypeOK
  <2>9. crBlame \subseteq crBlame' /\ handler[h].at = "revoked"
    BY <1>4 DEF refresh_token_issue
  <2>10. ASSUME "rotate" \notin crBlame', NEW q \in RefreshIds PROVE RefreshOnce(q)'
    <3>1. RefreshOnce(q) /\ RefreshOnce(r)
      BY Zenon, <2>9, <2>10 DEF RefreshesOnce
    <3>2. CASE q # r
      BY ZenonT(30), <2>3, <2>4, <2>7, <3>1, <3>2 DEF RefreshOnce, RefreshLasts
    <3>3. CASE q = r
      <4>1. Using("refresh", r)' = {} /\ refreshes[r] # Unset
        BY Zenon, <2>1, <2>3, <3>1 DEF RefreshOnce
      <4>2. spent[<<"refresh", r>>] <= 1 /\ spent[<<"refresh", r>>] # 1
        BY Zenon, <2>1, <3>1 DEF RefreshOnce
      <4>3. spent'[<<"refresh", r>>] <= 1
        BY <2>8, <4>2
      <4>4. Present(refreshes[r]) => refreshes[r].revoked
        BY Zenon, <2>1, <2>9, <3>1 DEF RefreshOnce
      <4>5. refreshes'[r] # Unset /\ (Present(refreshes'[r]) => refreshes'[r].revoked)
        BY Zenon, <2>4, <4>1, <4>4 DEF RefreshLasts
      <4>6. QED
        BY Zenon, <3>3, <4>1, <4>3, <4>5 DEF RefreshOnce
    <3>4. QED
      BY <3>2, <3>3
  <2>11. QED
    BY <2>10 DEF RefreshesOnce
<1>5. ASSUME NEW h \in Handlers, auth_token_end(h) PROVE RefreshesOnce'
  <2>1. NoNew("refresh") /\ spent' = spent /\ crBlame' = crBlame
    BY Zenon, <1>5 DEF NoNew, auth_token_end, CrTypeOK
  <2>2. \A q \in RefreshIds : RefreshLasts(q)
    <3>1. CASE refreshes' = refreshes
      BY <3>1 DEF RefreshLasts
    <3>2. CASE refreshes' # refreshes
      BY ZenonT(30), <1>5, <3>2, NewRefreshLasts DEF auth_token_end
    <3>3. QED
      BY <3>1, <3>2
  <2>3. QED
    BY Zenon, <1>1, <2>1, <2>2
<1>6. ASSUME NEW h \in Handlers, NEW k,
             \/ change_begin(h, "revoke", k) \/ change_begin(h, "label", k) \/ auth_token_begin(h, k)
             \/ change_evict(h) \/ verify_magic_link_begin(h, k)
      PROVE  NoNew("refresh") /\ UNCHANGED <<refreshes, spent>> /\ crBlame \subseteq crBlame'
  <2>1. CASE change_begin(h, "revoke", k) \/ change_begin(h, "label", k)
    BY <2>1 DEF NoNew, change_begin, CrTypeOK
  <2>2. CASE auth_token_begin(h, k)
    BY Zenon, <2>2 DEF NoNew, auth_token_begin, CrTypeOK
  <2>3. CASE change_evict(h)
    BY Zenon, <2>3 DEF NoNew, change_evict, CrTypeOK
  <2>4. CASE verify_magic_link_begin(h, k)
    BY Zenon, <2>4 DEF NoNew, verify_magic_link_begin, CrTypeOK
  <2>5. QED
    BY Zenon, <1>6, <2>1, <2>2, <2>3, <2>4
<1>7. ASSUME NEW h \in Handlers, change_write(h)
      PROVE  NoNew("refresh") /\ UNCHANGED <<refreshes, spent>> /\ crBlame \subseteq crBlame'
  <2>1. handler[h].kind # "refresh" /\ handler'[h].kind = handler[h].kind /\ \A g \in Handlers : g # h => handler'[g] = handler[g]
    BY Zenon, <1>7, HandlerMoves DEF change_write
  <2>2. QED
    BY <1>7, <2>1 DEF NoNew, change_write
<1>8. ASSUME NEW h \in Handlers, verify_magic_link_end(h) PROVE RefreshesOnce'
  <2>1. NoNew("refresh") /\ refreshes' = refreshes /\ crBlame' = crBlame
    BY Zenon, <1>8 DEF NoNew, verify_magic_link_end, CrTypeOK
  <2>2. \A r \in RefreshIds : <<"refresh", r>> \in Secrets /\ <<"refresh", r>> # <<"link", handler[h].id>>
    BY DEF Secrets
  <2>3. spent' = spent \/ spent' = [spent EXCEPT ![<<"link", handler[h].id>>] = @ + 1]
    BY Zenon, <1>8 DEF verify_magic_link_end
  <2>4. \A r \in RefreshIds : spent'[<<"refresh", r>>] = spent[<<"refresh", r>>]
    BY Zenon, <2>2, <2>3 DEF CrTypeOK
  <2>5. QED
    BY Zenon, <1>1, <2>1, <2>4 DEF RefreshLasts
<1>9. CASE cleanup_expired_tokens
  <2>1. \A r \in RefreshIds : RefreshLasts(r)
    BY Zenon, <1>9, CredentialsAssumption DEF cleanup_expired_tokens, RefreshLasts, Present
  <2>2. QED
    BY Zenon, <1>1, <1>9, <2>1 DEF cleanup_expired_tokens, NoNew
<1>10. CASE restart
  <2>1. NoNew("refresh") /\ UNCHANGED <<refreshes, spent, crBlame>>
    BY Zenon, <1>10 DEF restart, NoNew
  <2>2. QED
    BY Zenon, <1>1, <2>1 DEF RefreshLasts
<1>11. ASSUME NEW u,
              \/ create_api_key(u) \/ create_own_key(u) \/ create_link_key \/ deactivate_user(u)
              \/ request_magic_link(u) \/ keyed_request(u) \/ plain_request(u) \/ key_load_begin(u)
              \/ key_load_end \/ tick \/ UNCHANGED crVars
       PROVE  UNCHANGED <<handler, refreshes, spent, crBlame>>
  BY Zenon, <1>11 DEF create_api_key, create_own_key, create_link_key, deactivate_user, request_magic_link,
    keyed_request, plain_request, key_load_begin, key_load_end, tick, crVars
<1>12. ASSUME NoNew("refresh"), UNCHANGED <<refreshes, spent>>, crBlame \subseteq crBlame' PROVE RefreshesOnce'
  BY Zenon, <1>1, <1>12 DEF RefreshLasts
<1>13. ASSUME UNCHANGED <<handler, refreshes, spent, crBlame>> PROVE RefreshesOnce'
  BY Zenon, <1>12, <1>13 DEF NoNew
<1>14. QED
  BY Zenon, <1>2, <1>3, <1>4, <1>5, <1>6, <1>7, <1>8, <1>9, <1>10, <1>11, <1>12, <1>13
  DEF CrNext, revoke_api_key, revoke_share_link, revoke_own_key, update_api_key

-----------------------------------------------------------------------------
\* In every reachable state the records, caches and handlers are well typed.
THEOREM CredentialsTyped == CrSpec => []CrTypeOK
BY TypeInit, TypeNext, PTL DEF CrSpec

\* For any keys and any number of overlapping handlers: once the revocation of a
\* key has been answered, every later request with a token of that key is
\* refused, but for the two overlaps RevokedRefused names.
THEOREM RevocationHolds == CrSpec => []RevokedRefused
<1>1. CrInit => CrTypeOK /\ KeysKept /\ RevokedSeen
  BY TypeInit, KeysKeptInit, RevokedSeenInit
<1>2. CrTypeOK /\ KeysKept /\ RevokedSeen /\ [CrNext]_crVars => CrTypeOK' /\ KeysKept' /\ RevokedSeen'
  BY TypeNext, KeysKeptNext, RevokedSeenNext
<1>3. RevokedSeen => RevokedRefused
  BY Zenon DEF RevokedSeen, RevokedRefused
<1>4. QED
  BY <1>1, <1>2, <1>3, PTL DEF CrSpec

\* For any lives of keys, tokens and refresh tokens and any chain of refreshes: a
\* key's token expires with the key, and a refreshed one at most one token life
\* after the key expired or its revocation was answered.
THEOREM TokensEndWithKey == CrSpec => []TokensFollowKey
<1>1. CrInit => CrTypeOK /\ KeysKept /\ TokensBound
  BY TypeInit, KeysKeptInit, TokensBoundInit
<1>2. CrTypeOK /\ KeysKept /\ TokensBound /\ [CrNext]_crVars => CrTypeOK' /\ KeysKept' /\ TokensBound'
  BY TypeNext, KeysKeptNext, TokensBoundNext
<1>3. CrTypeOK /\ TokensBound => TokensFollowKey
  <2> SUFFICES ASSUME CrTypeOK, TokensBound, NEW t \in tokens, t.root # Unset
               PROVE  LET k == t.root
                          last == IF ended[k] = Unset THEN keys[k].expires ELSE Lesser(ended[k], keys[k].expires)
                      IN  /\ t.key = k => t.exp <= keys[k].expires
                          /\ t.key = Unset /\ crBlame \cap {"overwrite", "late"} = {} => t.exp <= last + TokenLife
    BY Zenon DEF TokensFollowKey
  <2>1. Bound(t)
    BY Zenon DEF TokensBound, Bound
  <2>2. QED
    BY Zenon, <2>1 DEF Bound
<1>4. QED
  BY <1>1, <1>2, <1>3, PTL DEF CrSpec

\* For any number of links, refresh tokens and handlers, across expiry, cleanup
\* and restarts: a magic link and a refresh token give one token each, unless
\* two uses of it overlapped between check and mark.
THEOREM SecretsUsedOnce == CrSpec => []OneTokenPerSecret
<1>1. CrInit => CrTypeOK /\ LinksOnce /\ RefreshesOnce
  BY TypeInit, LinksOnceInit, RefreshesOnceInit
<1>2. CrTypeOK /\ LinksOnce /\ RefreshesOnce /\ [CrNext]_crVars => CrTypeOK' /\ LinksOnce' /\ RefreshesOnce'
  BY TypeNext, LinksOnceNext, RefreshesOnceNext
<1>3. CrTypeOK /\ LinksOnce /\ RefreshesOnce => OneTokenPerSecret
  <2> SUFFICES ASSUME CrTypeOK, LinksOnce, RefreshesOnce, NEW s \in Secrets, spent[s] > 1,
                      crBlame \cap {"rotate", "verify"} = {}
               PROVE  FALSE
    BY DEF OneTokenPerSecret
  <2>1. spent[s] <= 1
    BY DEF Secrets, LinksOnce, LinkOnce, RefreshesOnce, RefreshOnce
  <2>2. spent[s] \in Nat
    BY Zenon DEF CrTypeOK
  <2>3. QED
    BY <2>1, <2>2
<1>4. QED
  BY <1>1, <1>2, <1>3, PTL DEF CrSpec
=============================================================================
