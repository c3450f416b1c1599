-------------------------- MODULE TrilithAuthProofs --------------------------
(***************************************************************************)
(* Theorems about authentication, for any number of keys, commands and     *)
(* requests:                                                               *)
(*                                                                         *)
(*   AuthTypeCorrect        every variable has its type                    *)
(*   DoorStaysShut          OneWayDoor                                     *)
(*   RevokedKeysAreRefused  RevokedKeyOpensNothing                         *)
(*   KeysIdentify           KeyDecidesIdentity                             *)
(*   RevocationsStand       RevocationIsFinal                              *)
(*                                                                         *)
(* All follow from one inductive invariant, AuthInv.                       *)
(***************************************************************************)
EXTENDS TrilithAuth, TLAPS

(* A key's row, or the caller it lets in, is what the key was minted for.  *)
Matches(x, grant) ==
  /\ x.tenant = grant.tenant /\ x.owner = grant.owner
  /\ x.session = grant.session /\ x.capabilities = grant.capabilities

(* Keys that were shown have their final row; a key being minted is in the *)
(* table, is not shown, and belongs to one command.                        *)
KeysInv ==
  /\ \A s \in Shown : s \in Minted /\ Matches(api_keys[s], granted[s])
  /\ \A c \in Commands : minting[c] # Idle =>
       /\ minting[c].secret \in Minted /\ minting[c].secret \notin Shown
       /\ api_keys[minting[c].secret].tenant = minting[c].grant.tenant
       /\ api_keys[minting[c].secret].owner = minting[c].grant.owner
  /\ \A c, d \in Commands :
       minting[c] # Idle /\ minting[d] # Idle /\ minting[c].secret = minting[d].secret => c = d

(* What a request remembers of the time it came is still so, and whom it   *)
(* runs as was decided by that.                                            *)
Decided(q) ==
  /\ q.principal \in Resolved
  /\ q.shut => q.principal.authenticated
  /\ q.shut => q.tenants \subseteq {q.principal.tenant}
  /\ q.principal.authenticated =>
       /\ q.credential \in Shown /\ q.credential \notin q.revoked
       /\ Matches(q.principal, granted[q.credential])

RequestOK(q) ==
  /\ q.credential \in Secrets => q.credential \in Shown
  /\ q.shut => RequireAuth \/ Minted # {}
  /\ q.revoked \subseteq Revoked
  /\ q.phase # "told" => q.tenants = {}
  /\ q.phase \in {"running", "told"} => Decided(q)

RequestsInv == \A r \in Requests : serving[r] # Idle => RequestOK(serving[r])

AuthInv == TypeOK /\ KeysInv /\ RequestsInv

-----------------------------------------------------------------------------
(* At first there are no keys and no requests.                             *)
LEMMA InitImpliesAuthInv == Init => AuthInv
<1> SUFFICES ASSUME Init PROVE AuthInv
  OBVIOUS
<1>1. TypeOK
  BY DEF Init, TypeOK
<1>2. Shown = {}
  BY DEF Init, Shown
<1>3. QED
  BY <1>1, <1>2 DEF Init, AuthInv, KeysInv, RequestsInv

(* What a command or a revocation may do to the keys: none goes away, none *)
(* that is revoked comes back, none that was shown is changed.             *)
KeysStay ==
  /\ Minted \subseteq Minted' /\ Revoked \subseteq Revoked'
  /\ Shown \subseteq Shown'
  /\ \A s \in Shown : granted'[s] = granted[s]

(* The first commit of a key.                                              *)
LEMMA InsertingKeepsKeys ==
  ASSUME AuthInv, NEW c \in Commands, NEW s \in Secrets, NEW grant \in Grants,
         create_inserts(c, s, grant)
  PROVE  TypeOK' /\ KeysInv' /\ KeysStay
<1> DEFINE row == [tenant |-> grant.tenant, owner |-> grant.owner, session |-> Blank,
                   capabilities |-> {}, revoked |-> FALSE]
           entry == [secret |-> s, grant |-> grant]
<1> USE DEF AuthInv
<1>1. row \in ApiKeyRecord /\ row # Absent /\ entry # Idle
  <2>1. grant \in Grant
    BY GrantsAssumption
  <2>2. row \in ApiKeyRecord
    BY <2>1 DEF Grant, ApiKeyRecord, SessionIds
  <2>3. entry \in [secret : Secrets, grant : Grants]
    OBVIOUS
  <2>4. QED
    BY <2>2, <2>3, NoKeyAssumption, IdleRequestAssumption
<1>2. /\ api_keys[s] = Absent /\ minting[c] = Idle
      /\ api_keys' = [api_keys EXCEPT ![s] = row]
      /\ minting' = [minting EXCEPT ![c] = entry]
      /\ granted' = granted /\ serving' = serving
  BY DEF create_inserts
<1>3. /\ api_keys \in [Secrets -> ApiKeyRecord \cup {Absent}]
      /\ minting \in [Commands -> [secret : Secrets, grant : Grants] \cup {Idle}]
  BY DEF TypeOK
<1>4. TypeOK'
  BY <1>1, <1>2, <1>3 DEF TypeOK
<1>5. s \notin Minted /\ s \notin Shown
  BY <1>2 DEF Minted, KeysInv
<1>6. /\ Minted' = Minted \cup {s} /\ Shown' = Shown
      /\ \A k \in Secrets : k # s => api_keys'[k] = api_keys[k]
      /\ api_keys'[s] = row
  BY <1>1, <1>2, <1>3 DEF Minted, Shown
<1>7. KeysStay
  BY <1>2, <1>5, <1>6 DEF KeysStay, Revoked, Minted
<1>8. \A k \in Shown' : k \in Minted' /\ Matches(api_keys'[k], granted'[k])
  BY <1>2, <1>5, <1>6 DEF KeysInv, Shown
<1>9. ASSUME NEW d \in Commands, minting'[d] # Idle
      PROVE  /\ minting'[d].secret \in Minted' /\ minting'[d].secret \notin Shown'
             /\ api_keys'[minting'[d].secret].tenant = minting'[d].grant.tenant
             /\ api_keys'[minting'[d].secret].owner = minting'[d].grant.owner
  <2>1. CASE d = c
    BY <1>2, <1>3, <1>5, <1>6, <2>1
  <2>2. CASE d # c
    <3>1. minting'[d] = minting[d]
      BY <1>2, <1>3, <2>2
    <3>2. minting[d].secret \in Minted /\ minting[d].secret # s
      BY <1>5, <1>9, <3>1 DEF KeysInv
    <3>3. QED
      BY <1>6, <1>9, <3>1, <3>2 DEF KeysInv, Minted
  <2>3. QED
    BY <2>1, <2>2
<1>10. ASSUME NEW d \in Commands, NEW e \in Commands, minting'[d] # Idle, minting'[e] # Idle,
              minting'[d].secret = minting'[e].secret
       PROVE  d = e
  <2>1. \A f \in Commands : f # c => minting'[f] = minting[f]
    BY <1>2, <1>3
  <2>2. \A f \in Commands : f # c /\ minting[f] # Idle => minting[f].secret # s
    BY <1>5 DEF KeysInv
  <2>3. minting'[c].secret = s
    BY <1>2, <1>3
  <2>4. QED
    BY <1>10, <2>1, <2>2, <2>3 DEF KeysInv
<1>11. KeysInv'
  BY <1>8, <1>9, <1>10 DEF KeysInv
<1>12. QED
  BY <1>4, <1>7, <1>11

(* The second commit, of a key that may have been revoked meanwhile.       *)
LEMMA BindingKeepsKeys ==
  ASSUME AuthInv, NEW c \in Commands, create_binds(c)
  PROVE  TypeOK' /\ KeysInv' /\ KeysStay
<1> DEFINE s == minting[c].secret
           grant == minting[c].grant
           row == [api_keys[s] EXCEPT !.session = grant.session,
                                      !.capabilities = grant.capabilities]
<1> USE DEF AuthInv
<1>1. /\ minting[c] # Idle
      /\ api_keys' = [api_keys EXCEPT ![s] = row]
      /\ granted' = [granted EXCEPT ![s] = grant]
      /\ minting' = [minting EXCEPT ![c] = Idle]
      /\ serving' = serving
  BY DEF create_binds, updates
<1>2. /\ api_keys \in [Secrets -> ApiKeyRecord \cup {Absent}]
      /\ minting \in [Commands -> [secret : Secrets, grant : Grants] \cup {Idle}]
      /\ granted \in [Secrets -> Grants \cup {Absent}]
  BY DEF TypeOK
<1>3. s \in Secrets /\ grant \in Grants /\ grant \in Grant
  BY <1>1, <1>2, GrantsAssumption
<1>4. s \in Minted /\ s \notin Shown /\ api_keys[s] \in ApiKeyRecord
      /\ api_keys[s].tenant = grant.tenant /\ api_keys[s].owner = grant.owner
  BY <1>1, <1>2, <1>3 DEF KeysInv, Minted
<1>5. row \in ApiKeyRecord /\ row # Absent
  <2>1. row \in ApiKeyRecord
    BY <1>3, <1>4 DEF ApiKeyRecord, Grant
  <2>2. QED
    BY <2>1, NoKeyAssumption
<1>6. TypeOK'
  BY <1>1, <1>2, <1>3, <1>5 DEF TypeOK
<1>7. grant # Absent
  BY <1>3, NoKeyAssumption
<1>8. /\ api_keys'[s] = row /\ granted'[s] = grant
      /\ \A k \in Secrets : k # s => api_keys'[k] = api_keys[k] /\ granted'[k] = granted[k]
  BY <1>1, <1>2, <1>3
<1>9. Minted' = Minted /\ Shown' = Shown \cup {s}
  BY <1>3, <1>4, <1>5, <1>7, <1>8 DEF Minted, Shown
<1>10. row.revoked = api_keys[s].revoked
  BY <1>4 DEF ApiKeyRecord
<1>11. \A k \in Minted : api_keys'[k].revoked = api_keys[k].revoked
  BY <1>8, <1>10 DEF Minted
<1>12. KeysStay
  BY <1>4, <1>8, <1>9, <1>11 DEF KeysStay, Revoked, Shown
<1>13. Matches(row, grant)
  BY <1>4 DEF Matches, ApiKeyRecord
<1>14. \A k \in Shown' : k \in Minted' /\ Matches(api_keys'[k], granted'[k])
  BY <1>4, <1>8, <1>9, <1>13 DEF KeysInv, Shown
<1>15. \A d \in Commands : minting'[d] # Idle => d # c /\ minting'[d] = minting[d]
  BY <1>1, <1>2
<1>16. \A d \in Commands : minting'[d] # Idle => minting[d].secret # s
  BY <1>1, <1>15 DEF KeysInv
<1>17. \A k : k # s /\ k \in Minted => api_keys'[k] = api_keys[k]
  BY <1>8 DEF Minted
<1>18. KeysInv'
  BY <1>9, <1>14, <1>15, <1>16, <1>17 DEF KeysInv
<1>19. QED
  BY <1>6, <1>12, <1>18

(* A command that is killed between the two forgets its key.               *)
LEMMA StoppingKeepsKeys ==
  ASSUME AuthInv, NEW c \in Commands, create_stops(c)
  PROVE  TypeOK' /\ KeysInv' /\ KeysStay
<1> USE DEF AuthInv
<1>1. minting \in [Commands -> [secret : Secrets, grant : Grants] \cup {Idle}]
  BY DEF TypeOK
<1>2. minting' = [minting EXCEPT ![c] = Idle] /\ UNCHANGED <<api_keys, granted, serving>>
  BY DEF create_stops
<1>3. \A d \in Commands : minting'[d] # Idle => minting'[d] = minting[d]
  BY <1>1, <1>2
<1>4. TypeOK'
  BY <1>1, <1>2 DEF TypeOK
<1>5. Minted' = Minted /\ Revoked' = Revoked /\ Shown' = Shown
  BY <1>2 DEF Minted, Revoked, Shown
<1>6. KeysInv'
  BY <1>2, <1>3, <1>5 DEF KeysInv
<1>7. QED
  BY <1>2, <1>4, <1>5, <1>6 DEF KeysStay

(* Revoking changes nothing else of a row.                                 *)
LEMMA RevokingKeepsKeys ==
  ASSUME AuthInv, NEW matching \in SUBSET Secrets, revoke(matching)
  PROVE  TypeOK' /\ KeysInv' /\ KeysStay
<1> USE DEF AuthInv
<1>1. api_keys \in [Secrets -> ApiKeyRecord \cup {Absent}]
  BY DEF TypeOK
<1>2. /\ api_keys' = [s \in Secrets |->
           IF s \in matching \cap Minted THEN [api_keys[s] EXCEPT !.revoked = TRUE]
           ELSE api_keys[s]]
      /\ UNCHANGED <<minting, granted, serving>>
  BY DEF revoke
<1>3. ASSUME NEW s \in Minted
      PROVE  /\ api_keys'[s] \in ApiKeyRecord
             /\ api_keys'[s].tenant = api_keys[s].tenant
             /\ api_keys'[s].owner = api_keys[s].owner
             /\ api_keys'[s].session = api_keys[s].session
             /\ api_keys'[s].capabilities = api_keys[s].capabilities
             /\ api_keys[s].revoked => api_keys'[s].revoked
  <2>1. s \in Secrets /\ api_keys[s] \in ApiKeyRecord
    BY <1>1 DEF Minted
  <2>2. CASE s \in matching
    <3>1. api_keys'[s] = [api_keys[s] EXCEPT !.revoked = TRUE]
      BY <1>2, <2>1, <2>2
    <3>2. QED
      BY <2>1, <3>1 DEF ApiKeyRecord
  <2>3. CASE s \notin matching
    BY <1>2, <2>1, <2>3
  <2>4. QED
    BY <2>2, <2>3
<1>4. \A s \in Secrets : s \notin Minted => api_keys'[s] = Absent
  BY <1>2 DEF Minted
<1>5. api_keys' \in [Secrets -> ApiKeyRecord \cup {Absent}]
  <2>1. \A s \in Secrets : api_keys'[s] \in ApiKeyRecord \cup {Absent}
    BY <1>3, <1>4
  <2>2. QED
    BY <1>2, <2>1
<1>6. TypeOK'
  BY <1>2, <1>5 DEF TypeOK
<1>7. Minted' = Minted /\ Shown' = Shown
  BY <1>2, <1>3, <1>4, NoKeyAssumption DEF Minted, Shown
<1>8. KeysStay
  BY <1>2, <1>3, <1>7 DEF KeysStay, Revoked
<1>9. KeysInv'
  <2>1. ASSUME NEW s \in Shown'
        PROVE  s \in Minted' /\ Matches(api_keys'[s], granted'[s])
    <3>1. s \in Minted /\ Matches(api_keys[s], granted[s]) /\ granted'[s] = granted[s]
      BY <1>2, <1>7, <2>1 DEF KeysInv
    <3>2. QED
      BY <1>3, <1>7, <3>1 DEF Matches
  <2>2. ASSUME NEW c \in Commands, minting'[c] # Idle
        PROVE  /\ minting'[c].secret \in Minted' /\ minting'[c].secret \notin Shown'
               /\ api_keys'[minting'[c].secret].tenant = minting'[c].grant.tenant
               /\ api_keys'[minting'[c].secret].owner = minting'[c].grant.owner
    <3>1. minting'[c] = minting[c]
      BY <1>2
    <3>2. minting[c].secret \in Minted /\ minting[c].secret \notin Shown
      BY <2>2, <3>1 DEF KeysInv
    <3>3. QED
      BY <1>3, <1>7, <2>2, <3>1, <3>2 DEF KeysInv
  <2>3. QED
    BY <1>2, <2>1, <2>2 DEF KeysInv
<1>10. QED
  BY <1>6, <1>8, <1>9

-----------------------------------------------------------------------------
(* A request that does not move is as it was, whatever happens to keys.    *)
LEMMA WaitingStaysOK ==
  ASSUME KeysStay,
         NEW r \in Requests, serving'[r] = serving[r], RequestOK(serving[r])
  PROVE  RequestOK(serving[r])'
<1>1. ASSUME Decided(serving[r])
      PROVE  Decided(serving[r])'
  BY <1>1 DEF KeysStay, Decided
<1>2. QED
  BY <1>1 DEF KeysStay, RequestOK

(* A step of one request leaves the keys and the other requests alone.     *)
LEMMA MovingKeepsInv ==
  ASSUME AuthInv, NEW r \in Requests, NEW next \in InProgress \cup {Idle},
         serving' = [serving EXCEPT ![r] = next],
         UNCHANGED <<api_keys, minting, granted>>,
         next # Idle => RequestOK(next)
  PROVE  AuthInv'
<1> USE DEF AuthInv
<1>1. serving \in [Requests -> InProgress \cup {Idle}]
  BY DEF TypeOK
<1>2. TypeOK'
  BY <1>1 DEF TypeOK
<1>3. Minted' = Minted /\ Revoked' = Revoked /\ Shown' = Shown
  BY DEF Minted, Revoked, Shown
<1>4. KeysInv'
  BY <1>3 DEF KeysInv
<1>5. KeysStay
  BY <1>3 DEF KeysStay
<1>6. ASSUME NEW o \in Requests, serving'[o] # Idle
      PROVE  RequestOK(serving[o])'
  <2>1. CASE o = r
    <3>1. serving'[o] = next
      BY <1>1, <2>1
    <3>2. RequestOK(next)
      BY <1>6, <3>1
    <3>3. QED
      BY <1>3, <3>1, <3>2 DEF RequestOK, Decided
  <2>2. CASE o # r
    <3>1. serving'[o] = serving[o]
      BY <1>1, <2>2
    <3>2. RequestOK(serving[o])
      BY <1>6, <3>1 DEF RequestsInv
    <3>3. QED
      BY <1>5, <3>1, <3>2, WaitingStaysOK
  <2>3. QED
    BY <2>1, <2>2
<1>7. QED
  BY <1>2, <1>4, <1>6 DEF RequestsInv

(* Arriving.                                                               *)
LEMMA ArrivingKeepsInv ==
  ASSUME AuthInv, NEW r \in Requests,
         NEW credential \in Secrets \cup {NotAKey, NoCredential}, NEW claim \in Claims,
         arrive(r, credential, claim)
  PROVE  AuthInv'
<1> DEFINE next == [phase |-> "arrived", credential |-> credential, claim |-> claim,
                    principal |-> Absent, tenants |-> {},
                    shut |-> RequireAuth \/ Minted # {}, revoked |-> Revoked]
<1>1. next \in InProgress
  <2>1. Revoked \in SUBSET Secrets
    BY DEF Revoked, Minted
  <2>2. (RequireAuth \/ Minted # {}) \in BOOLEAN
    OBVIOUS
  <2>3. QED
    BY <2>1, <2>2 DEF InProgress
<1>2. credential \in Secrets => credential \in Shown
  BY CredentialsAssumption DEF arrive
<1>3. RequestOK(next)
  BY <1>2 DEF RequestOK
<1>4. serving' = [serving EXCEPT ![r] = next] /\ UNCHANGED <<api_keys, minting, granted>>
  BY DEF arrive
<1>5. QED
  BY <1>1, <1>3, <1>4, MovingKeepsInv

(* A request that came through the open door came when no key existed.     *)
LEMMA OpeningKeepsInv ==
  ASSUME AuthInv, NEW r \in Requests, resolve_open(r)
  PROVE  AuthInv'
<1> DEFINE q == serving[r]
           next == [q EXCEPT !.phase = "running", !.principal = open_principal(q.claim)]
<1> USE DEF AuthInv
<1>1. /\ q # Idle /\ q \in InProgress /\ q.phase = "arrived" /\ ~enabled
      /\ serving \in [Requests -> InProgress \cup {Idle}]
  BY DEF resolve_open, TypeOK
<1>2. RequestOK(q)
  BY <1>1 DEF RequestsInv
<1>3. /\ open_principal(q.claim) \in Resolved
      /\ open_principal(q.claim).authenticated = FALSE
  <2>1. q.claim \in Claim
    BY <1>1, GrantsAssumption DEF InProgress
  <2>2. open_principal(q.claim) \in Principal
    BY <2>1 DEF open_principal, Claim, Principal, Capabilities
  <2>3. QED
    BY <2>2 DEF open_principal, Resolved
<1>4. next \in InProgress
  BY <1>1, <1>3 DEF InProgress
<1>5. /\ next.credential = q.credential /\ next.shut = q.shut /\ next.revoked = q.revoked
      /\ next.tenants = q.tenants /\ next.principal = open_principal(q.claim)
  BY <1>1 DEF InProgress
<1>6. ~q.shut
  BY <1>1, <1>2 DEF RequestOK, enabled
<1>7. q.tenants = {}
  BY <1>1, <1>2 DEF RequestOK
<1>8. Decided(next)
  BY <1>3, <1>5, <1>6 DEF Decided
<1>9. RequestOK(next)
  BY <1>2, <1>5, <1>7, <1>8 DEF RequestOK
<1>10. serving' = [serving EXCEPT ![r] = next] /\ UNCHANGED <<api_keys, minting, granted>>
  BY <1>1 DEF resolve_open
<1>11. QED
  BY <1>4, <1>9, <1>10, MovingKeepsInv

(* A request that must show a key goes on to the look-up, or is refused.   *)
LEMMA EnforcingKeepsInv ==
  ASSUME AuthInv, NEW r \in Requests, resolve_enforced(r)
  PROVE  AuthInv'
<1> DEFINE q == serving[r]
           next == [q EXCEPT !.phase = "lookup"]
<1> USE DEF AuthInv
<1>1. /\ q # Idle /\ q \in InProgress /\ q.phase = "arrived"
      /\ serving \in [Requests -> InProgress \cup {Idle}]
  BY DEF resolve_enforced, TypeOK
<1>2. RequestOK(q)
  BY <1>1 DEF RequestsInv
<1>3. next \in InProgress
  BY <1>1 DEF InProgress
<1>4. /\ next.credential = q.credential /\ next.shut = q.shut /\ next.revoked = q.revoked
      /\ next.tenants = q.tenants /\ next.phase = "lookup"
  BY <1>1 DEF InProgress
<1>5. RequestOK(next)
  BY <1>1, <1>2, <1>4 DEF RequestOK
<1>6. /\ \/ serving' = [serving EXCEPT ![r] = Idle]
         \/ serving' = [serving EXCEPT ![r] = next]
      /\ UNCHANGED <<api_keys, minting, granted>>
  BY <1>1 DEF resolve_enforced
<1>7. QED
  BY <1>3, <1>5, <1>6, MovingKeepsInv

(* The look-up lets in whoever holds a key that is good at that time, and  *)
(* so was good when the request came, as what the key was minted for.      *)
LEMMA LookingUpKeepsInv ==
  ASSUME AuthInv, NEW r \in Requests, lookup(r)
  PROVE  AuthInv'
<1> DEFINE q == serving[r]
           k == q.credential
           next == [q EXCEPT !.phase = "running",
                             !.principal = key_principal(api_keys[k], q.claim)]
<1> USE DEF AuthInv
<1>1. /\ q # Idle /\ q \in InProgress /\ q.phase = "lookup"
      /\ serving \in [Requests -> InProgress \cup {Idle}]
      /\ api_keys \in [Secrets -> ApiKeyRecord \cup {Absent}]
      /\ UNCHANGED <<api_keys, minting, granted>>
  BY DEF lookup, TypeOK
<1>2. RequestOK(q)
  BY <1>1 DEF RequestsInv
<1>3. CASE opens(k)
  <2>1. k \in Minted /\ k \notin Revoked /\ k \in Secrets /\ api_keys[k] \in ApiKeyRecord
    BY <1>1, <1>3 DEF opens, Minted
  <2>2. k \in Shown /\ k \notin q.revoked
    BY <1>2, <2>1 DEF RequestOK
  <2>3. key_principal(api_keys[k], q.claim) \in Resolved
    <3>1. key_principal(api_keys[k], q.claim) \in Principal
      BY <2>1 DEF key_principal, ApiKeyRecord, Principal
    <3>2. QED
      BY <3>1 DEF key_principal, Resolved
  <2>4. Matches(key_principal(api_keys[k], q.claim), granted[k])
    BY <2>2 DEF KeysInv, Matches, key_principal
  <2>5. next \in InProgress
    BY <1>1, <2>3 DEF InProgress
  <2>6. /\ next.credential = k /\ next.shut = q.shut /\ next.revoked = q.revoked
        /\ next.tenants = q.tenants /\ next.principal = key_principal(api_keys[k], q.claim)
    BY <1>1 DEF InProgress
  <2>7. q.tenants = {}
    BY <1>1, <1>2 DEF RequestOK
  <2>8. next.principal.authenticated
    BY <2>6 DEF key_principal
  <2>9. Decided(next)
    BY <2>2, <2>3, <2>4, <2>6, <2>7, <2>8 DEF Decided
  <2>10. RequestOK(next)
    BY <1>2, <2>6, <2>7, <2>9 DEF RequestOK
  <2>11. serving' = [serving EXCEPT ![r] = next]
    BY <1>1, <1>3 DEF lookup
  <2>12. QED
    BY <1>1, <2>5, <2>10, <2>11, MovingKeepsInv
<1>4. CASE ~opens(k)
  <2>1. serving' = [serving EXCEPT ![r] = Idle]
    BY <1>1, <1>4 DEF lookup
  <2>2. QED
    BY <1>1, <2>1, MovingKeepsInv
<1>5. QED
  BY <1>3, <1>4

(* The list of tenants asks again, and a door that was shut is shut still. *)
LEMMA ListingKeepsInv ==
  ASSUME AuthInv, NEW r \in Requests, list_tenants(r)
  PROVE  AuthInv'
<1> DEFINE q == serving[r]
           told == IF enabled THEN {q.principal.tenant} ELSE Tenants
           next == [q EXCEPT !.phase = "told", !.tenants = told]
<1> USE DEF AuthInv
<1>1. /\ q # Idle /\ q \in InProgress /\ q.phase = "running"
      /\ serving \in [Requests -> InProgress \cup {Idle}]
      /\ UNCHANGED <<api_keys, minting, granted>>
  BY DEF list_tenants, TypeOK
<1>2. RequestOK(q) /\ Decided(q)
  BY <1>1 DEF RequestsInv, RequestOK
<1>3. told \in SUBSET Tenants
  BY <1>2 DEF Decided, Resolved, Principal
<1>4. next \in InProgress
  BY <1>1, <1>3 DEF InProgress
<1>5. /\ next.credential = q.credential /\ next.shut = q.shut /\ next.revoked = q.revoked
      /\ next.tenants = told /\ next.principal = q.principal /\ next.phase = "told"
  BY <1>1 DEF InProgress
<1>6. q.shut => enabled
  BY <1>2 DEF RequestOK, enabled
<1>7. q.shut => told \subseteq {q.principal.tenant}
  BY <1>6
<1>8. Decided(next)
  BY <1>2, <1>5, <1>7 DEF Decided
<1>9. RequestOK(next)
  BY <1>2, <1>5, <1>8 DEF RequestOK
<1>10. serving' = [serving EXCEPT ![r] = next]
  BY <1>1 DEF list_tenants
<1>11. QED
  BY <1>1, <1>4, <1>9, <1>10, MovingKeepsInv

-----------------------------------------------------------------------------
(* Every step keeps the invariant, and no step of any process makes a      *)
(* revoked key good.                                                       *)
LEMMA StepKeepsAuthInv ==
  ASSUME AuthInv, Next
  PROVE  AuthInv' /\ KeysStay
<1>1. ASSUME TypeOK', KeysInv', KeysStay, UNCHANGED serving
      PROVE  AuthInv' /\ KeysStay
  <2>1. ASSUME NEW r \in Requests, serving'[r] # Idle
        PROVE  RequestOK(serving[r])'
    <3>1. serving'[r] = serving[r]
      BY <1>1
    <3>2. RequestOK(serving[r])
      BY <2>1, <3>1 DEF AuthInv, RequestsInv
    <3>3. QED
      BY <1>1, <3>1, <3>2, WaitingStaysOK
  <2>2. QED
    BY <1>1, <2>1 DEF AuthInv, RequestsInv
<1>2. ASSUME NEW c \in Commands, CommandStep(c)
      PROVE  AuthInv' /\ KeysStay
  <2>1. UNCHANGED serving
    BY <1>2 DEF CommandStep, create_inserts, create_binds, create_stops
  <2>2. QED
    BY <1>1, <1>2, <2>1, InsertingKeepsKeys, BindingKeepsKeys, StoppingKeepsKeys
    DEF CommandStep
<1>3. ASSUME NEW matching \in SUBSET Secrets, revoke(matching)
      PROVE  AuthInv' /\ KeysStay
  <2>1. UNCHANGED serving
    BY <1>3 DEF revoke
  <2>2. QED
    BY <1>1, <1>3, <2>1, RevokingKeepsKeys
<1>4. ASSUME NEW r \in Requests, RequestStep(r)
      PROVE  AuthInv' /\ KeysStay
  <2>1. UNCHANGED <<api_keys, minting, granted>>
    BY <1>4 DEF RequestStep, arrive, resolve_open, resolve_enforced, lookup, list_tenants, finish
  <2>2. KeysStay
    BY <2>1 DEF KeysStay, Minted, Revoked, Shown
  <2>3. CASE \E credential \in Secrets \cup {NotAKey, NoCredential}, claim \in Claims :
               arrive(r, credential, claim)
    BY <2>2, <2>3, ArrivingKeepsInv
  <2>4. CASE resolve_open(r)
    BY <2>2, <2>4, OpeningKeepsInv
  <2>5. CASE resolve_enforced(r)
    BY <2>2, <2>5, EnforcingKeepsInv
  <2>6. CASE lookup(r)
    BY <2>2, <2>6, LookingUpKeepsInv
  <2>7. CASE list_tenants(r)
    BY <2>2, <2>7, ListingKeepsInv
  <2>8. CASE finish(r)
    BY <2>1, <2>2, <2>8, MovingKeepsInv DEF finish
  <2>9. QED
    BY <1>4, <2>2, <2>3, <2>4, <2>5, <2>6, <2>7, <2>8 DEF RequestStep
<1>5. QED
  BY <1>2, <1>3, <1>4 DEF Next

(* The inductive invariant holds in every state.                           *)
THEOREM AuthInvariance == Spec => []AuthInv
<1>1. ASSUME AuthInv, UNCHANGED vars
      PROVE  AuthInv'
  BY <1>1 DEF vars, AuthInv, TypeOK, KeysInv, RequestsInv, RequestOK, Decided,
              Minted, Revoked, Shown
<1>2. AuthInv /\ [Next]_vars => AuthInv'
  BY <1>1, StepKeepsAuthInv
<1>3. QED
  BY InitImpliesAuthInv, <1>2, PTL DEF Spec

(* Every variable keeps its type.                                          *)
THEOREM AuthTypeCorrect == Spec => []TypeOK
<1>1. AuthInv => TypeOK
  BY DEF AuthInv
<1>2. QED
  BY <1>1, AuthInvariance, PTL

(* Once a key was minted no request that comes runs as the administrator   *)
(* of the tenant it names, nor is told of other tenants, whatever is       *)
(* revoked.                                                                *)
THEOREM DoorStaysShut == Spec => []OneWayDoor
<1>1. AuthInv => OneWayDoor
  BY DEF AuthInv, RequestsInv, RequestOK, Decided, OneWayDoor, Runs
<1>2. QED
  BY <1>1, AuthInvariance, PTL

(* A key lets nobody in whose request came after it was revoked.           *)
THEOREM RevokedKeysAreRefused == Spec => []RevokedKeyOpensNothing
<1>1. AuthInv => RevokedKeyOpensNothing
  BY DEF AuthInv, RequestsInv, RequestOK, Decided, RevokedKeyOpensNothing, Runs
<1>2. QED
  BY <1>1, AuthInvariance, PTL

(* Whoever was let in by a key runs as what the key was minted for.        *)
THEOREM KeysIdentify == Spec => []KeyDecidesIdentity
<1>1. AuthInv => KeyDecidesIdentity
  BY DEF AuthInv, RequestsInv, RequestOK, Decided, Matches, KeyDecidesIdentity, Runs, Shown
<1>2. QED
  BY <1>1, AuthInvariance, PTL

(* No command, however it runs beside another, undoes a revocation.        *)
THEOREM RevocationsStand == Spec => RevocationIsFinal
<1>1. AuthInv /\ [Next]_vars => [Revoked \subseteq Revoked']_vars
  BY StepKeepsAuthInv DEF KeysStay
<1>2. QED
  BY <1>1, AuthInvariance, PTL DEF Spec, RevocationIsFinal
=============================================================================
