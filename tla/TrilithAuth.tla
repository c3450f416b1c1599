---------------------------- MODULE TrilithAuth ----------------------------
(***************************************************************************)
(* Who a request runs as (core/auth.py, core/cli.py): keys are minted and  *)
(* revoked by commands of other processes while the gateways resolve the   *)
(* credentials of their requests.                                          *)
(*                                                                         *)
(* Minting a key takes two commits, and the raw key is shown only after    *)
(* the second.  Resolving a credential takes two reads, under two holds of *)
(* the lock: is authentication on, and whose is the key.  GET /v1/tenants  *)
(* asks once more.  Everything else may happen between any two of these.   *)
(***************************************************************************)
EXTENDS TrilithPolicy

CONSTANTS
  Secrets,        \* what generate_key may return
  NotAKey,        \* a credential that nobody minted
  NoCredential,   \* a request without one
  Grants,         \* what trilith key create is asked for
  Claims,         \* who requests say they are
  Commands,       \* processes that run trilith key
  Requests,       \* requests in progress at a time
  RequireAuth,    \* --require-auth
  Idle            \* a command or a request that is not in progress

Grant ==
  [tenant : Tenants, owner : OwnerIds, session : SessionIds,
   capabilities : SUBSET Capabilities]

Claim ==
  [tenant : Tenants, owner : OwnerIds, session : SessionIds,
   legacy_scope : Scopes \cup {Blank}]

ApiKeyRecord ==
  [tenant : Tenants, owner : OwnerIds, session : SessionIds,
   capabilities : SUBSET Capabilities, revoked : BOOLEAN]

ASSUME CredentialsAssumption ==
  NotAKey \notin Secrets /\ NoCredential \notin Secrets /\ NotAKey # NoCredential
ASSUME GrantsAssumption == Grants \subseteq Grant /\ Claims \subseteq Claim
ASSUME RequireAuthAssumption == RequireAuth \in BOOLEAN
ASSUME NoKeyAssumption == Absent \notin ApiKeyRecord /\ Absent \notin Grant

VARIABLES
  api_keys,       \* the table: a row per raw key (the code stores its hash)
  minting,        \* a command's key between its two commits
  granted,        \* the keys that were shown, with what was asked for them
  serving         \* what each request has come to

vars == <<api_keys, minting, granted, serving>>

Minted == {s \in Secrets : api_keys[s] # Absent}
Revoked == {s \in Minted : api_keys[s].revoked}
Shown == {s \in Secrets : granted[s] # Absent}

(* Whoever a key identifies has no legacy scope; others administer.        *)
Resolved ==
  {p \in Principal : IF p.authenticated THEN p.legacy_scope = Blank
                     ELSE p.capabilities = {"tenant_admin"}}

InProgress ==
  [phase : {"arrived", "lookup", "running", "told"},
   credential : Secrets \cup {NotAKey, NoCredential}, claim : Claims,
   principal : Resolved \cup {Absent}, tenants : SUBSET Tenants,
   shut : BOOLEAN, revoked : SUBSET Secrets]

ASSUME IdleRequestAssumption ==
  Idle \notin InProgress /\ Idle \notin [secret : Secrets, grant : Grants]

Init ==
  /\ api_keys = [s \in Secrets |-> Absent]
  /\ minting = [c \in Commands |-> Idle]
  /\ granted = [s \in Secrets |-> Absent]
  /\ serving = [r \in Requests |-> Idle]

-----------------------------------------------------------------------------
(* Faulty variant: the key is shown after the first commit.                *)
create_shows(c, s, grant) ==
  /\ minting[c] = Idle
  /\ api_keys[s] = Absent
  /\ api_keys' = [api_keys EXCEPT ![s] =
       [tenant |-> grant.tenant, owner |-> grant.owner, session |-> Blank,
        capabilities |-> {}, revoked |-> FALSE]]
  /\ minting' = [minting EXCEPT ![c] = [secret |-> s, grant |-> grant]]
  /\ granted' = [granted EXCEPT ![s] = grant]
  /\ UNCHANGED serving

(* ApiKeyStore.create, first commit: the row has no capabilities and no    *)
(* session yet.                                                            *)
create_inserts(c, s, grant) ==
  /\ minting[c] = Idle
  /\ api_keys[s] = Absent
  /\ api_keys' = [api_keys EXCEPT ![s] =
       [tenant |-> grant.tenant, owner |-> grant.owner, session |-> Blank,
        capabilities |-> {}, revoked |-> FALSE]]
  /\ minting' = [minting EXCEPT ![c] = [secret |-> s, grant |-> grant]]
  /\ UNCHANGED <<granted, serving>>

(* Faulty variant: the second statement writes the whole row again.        *)
replaces(row, grant) ==
  [tenant |-> grant.tenant, owner |-> grant.owner, session |-> grant.session,
   capabilities |-> grant.capabilities, revoked |-> FALSE]

updates(row, grant) ==
  [row EXCEPT !.session = grant.session, !.capabilities = grant.capabilities]

(* Second commit; the command prints the raw key.                          *)
create_binds(c) ==
  LET s == minting[c].secret
      grant == minting[c].grant
  IN  /\ minting[c] # Idle
      /\ api_keys' = [api_keys EXCEPT ![s] = updates(@, grant)]
      /\ granted' = [granted EXCEPT ![s] = grant]
      /\ minting' = [minting EXCEPT ![c] = Idle]
      /\ UNCHANGED serving

(* The command is killed, or meets a locked database, between the two: the *)
(* row stays, and nobody knows its key.                                    *)
create_stops(c) ==
  /\ minting[c] # Idle
  /\ minting' = [minting EXCEPT ![c] = Idle]
  /\ UNCHANGED <<api_keys, granted, serving>>

(* Every active key whose fingerprint has the prefix; keys that are being  *)
(* minted included.                                                        *)
revoke(matching) ==
  /\ matching \cap (Minted \ Revoked) # {}
  /\ api_keys' = [s \in Secrets |->
       IF s \in matching \cap Minted THEN [api_keys[s] EXCEPT !.revoked = TRUE] ELSE api_keys[s]]
  /\ UNCHANGED <<minting, granted, serving>>

-----------------------------------------------------------------------------
(* Faulty variant: revoking the last key opens the door (active_count).    *)
enabled_by_active_keys == RequireAuth \/ Minted \ Revoked # {}

enabled == RequireAuth \/ Minted # {}

open_principal(claim) ==
  [tenant |-> claim.tenant, owner |-> claim.owner, session |-> claim.session,
   legacy_scope |-> claim.legacy_scope, capabilities |-> {"tenant_admin"},
   authenticated |-> FALSE]

(* Faulty variant: the scope that a request names is kept.                 *)
scoped_principal(row, claim) ==
  [tenant |-> row.tenant, owner |-> row.owner, session |-> row.session,
   legacy_scope |-> claim.legacy_scope, capabilities |-> row.capabilities,
   authenticated |-> TRUE]

key_principal(row, claim) ==
  [tenant |-> row.tenant, owner |-> row.owner, session |-> row.session,
   legacy_scope |-> Blank, capabilities |-> row.capabilities, authenticated |-> TRUE]

(* A request comes with a key that was shown, a string that is none, or    *)
(* nothing.  shut and revoked only remember how things stood when it came. *)
arrive(r, credential, claim) ==
  /\ serving[r] = Idle
  /\ credential \in Shown \cup {NotAKey, NoCredential}
  /\ serving' = [serving EXCEPT ![r] =
       [phase |-> "arrived", credential |-> credential, claim |-> claim,
        principal |-> Absent, tenants |-> {},
        shut |-> RequireAuth \/ Minted # {}, revoked |-> Revoked]]
  /\ UNCHANGED <<api_keys, minting, granted>>

(* Off: the request is who it says it is, with every right in its tenant.  *)
resolve_open(r) ==
  /\ serving[r] # Idle
  /\ serving[r].phase = "arrived"
  /\ ~enabled
  /\ serving' = [serving EXCEPT ![r].phase = "running",
                                ![r].principal = open_principal(serving[r].claim)]
  /\ UNCHANGED <<api_keys, minting, granted>>

(* On: 401 without a credential, else the key is looked up next.           *)
resolve_enforced(r) ==
  /\ serving[r] # Idle
  /\ serving[r].phase = "arrived"
  /\ enabled
  /\ serving' = [serving EXCEPT ![r] =
       IF @.credential = NoCredential THEN Idle ELSE [@ EXCEPT !.phase = "lookup"]]
  /\ UNCHANGED <<api_keys, minting, granted>>

(* Faulty variant: a revoked key is as good as any.                        *)
opens_if_minted(credential) == credential \in Minted

opens(credential) == credential \in Minted \ Revoked

lookup(r) ==
  LET k == serving[r].credential
  IN  /\ serving[r] # Idle
      /\ serving[r].phase = "lookup"
      /\ serving' = [serving EXCEPT ![r] =
           IF opens(k)
           THEN [@ EXCEPT !.phase = "running",
                          !.principal = key_principal(api_keys[k], serving[r].claim)]
           ELSE Idle]
      /\ UNCHANGED <<api_keys, minting, granted>>

(* GET /v1/tenants: every tenant's name, or, with authentication on by     *)
(* now, the caller's own.                                                  *)
list_tenants(r) ==
  /\ serving[r] # Idle
  /\ serving[r].phase = "running"
  /\ serving' = [serving EXCEPT
       ![r].phase = "told",
       ![r].tenants = IF enabled THEN {serving[r].principal.tenant} ELSE Tenants]
  /\ UNCHANGED <<api_keys, minting, granted>>

(* It is answered, or lost with the server.                                *)
finish(r) ==
  /\ serving[r] # Idle
  /\ serving' = [serving EXCEPT ![r] = Idle]
  /\ UNCHANGED <<api_keys, minting, granted>>

-----------------------------------------------------------------------------
CommandStep(c) ==
  \/ \E s \in Secrets, grant \in Grants : create_inserts(c, s, grant)
  \/ create_binds(c)
  \/ create_stops(c)

RequestStep(r) ==
  \/ \E credential \in Secrets \cup {NotAKey, NoCredential}, claim \in Claims :
       arrive(r, credential, claim)
  \/ resolve_open(r) \/ resolve_enforced(r) \/ lookup(r) \/ list_tenants(r) \/ finish(r)

Next ==
  \/ \E c \in Commands : CommandStep(c)
  \/ \E matching \in SUBSET Secrets : revoke(matching)
  \/ \E r \in Requests : RequestStep(r)

Spec == Init /\ [][Next]_vars

-----------------------------------------------------------------------------
(* Types of every variable.                                                *)
TypeOK ==
  /\ api_keys \in [Secrets -> ApiKeyRecord \cup {Absent}]
  /\ minting \in [Commands -> [secret : Secrets, grant : Grants] \cup {Idle}]
  /\ granted \in [Secrets -> Grants \cup {Absent}]
  /\ serving \in [Requests -> InProgress \cup {Idle}]

Runs(r) == serving[r] # Idle /\ serving[r].phase \in {"running", "told"}

(* Authentication is a one-way door: a request that came when a key had    *)
(* been minted, revoked since or not, never runs as the administrator of   *)
(* the tenant it names, and is told of no tenant but its own.              *)
OneWayDoor ==
  \A r \in Requests : Runs(r) /\ serving[r].shut =>
    /\ serving[r].principal.authenticated
    /\ serving[r].tenants \subseteq {serving[r].principal.tenant}

(* A key that was revoked when a request came does not let it in.          *)
RevokedKeyOpensNothing ==
  \A r \in Requests :
    Runs(r) /\ serving[r].principal.authenticated => serving[r].credential \notin serving[r].revoked

(* A revocation is final: nothing that runs beside it, the second commit   *)
(* of a key that was revoked while it was being minted included, makes the *)
(* key good again.                                                         *)
RevocationIsFinal == [][Revoked \subseteq Revoked']_vars

(* A request that was let in by a key runs as exactly what the key was     *)
(* minted for, whatever it says of itself: its tenant, owner, session and  *)
(* capabilities, never those of a key that is half minted.  That is so of  *)
(* a key without an owner or a session, too: resolve discards what the     *)
(* request says (see UnpinnedKeysLeaveRoom for what the docs say of it).   *)
KeyDecidesIdentity ==
  \A r \in Requests : Runs(r) /\ serving[r].principal.authenticated =>
    LET p == serving[r].principal
        grant == granted[serving[r].credential]
    IN  /\ grant # Absent
        /\ p.tenant = grant.tenant /\ p.owner = grant.owner /\ p.session = grant.session
        /\ p.capabilities = grant.capabilities

(* What docs/deployment.md says of a key that pins no owner: the client    *)
(* supplies owner_id and session_id per request.  resolve does not take    *)
(* them from the request once authentication is on.                        *)
UnpinnedKeysLeaveRoom ==
  \A r \in Requests : Runs(r) /\ serving[r].principal.authenticated =>
    LET p == serving[r].principal
        claim == serving[r].claim
        grant == granted[serving[r].credential]
    IN  grant # Absent /\ grant.owner = Blank =>
          /\ p.owner = claim.owner
          /\ grant.session = Blank => p.session = claim.session
=============================================================================
