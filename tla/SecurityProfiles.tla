--------------------------- MODULE SecurityProfiles ---------------------------
(***************************************************************************)
(* Security Profiles: the definition in Git, the row of                    *)
(* security_profile_credentials and the API key in the vault               *)
(* (lib/security-profile-authority.ts, the routes under                    *)
(* app/api/security-profiles, the profile methods of the vault).           *)
(* Unlike an MCP server's token (McpServers), a key is rotated in place,   *)
(* and the row must still have the endpoint a run froze when it is used.   *)
(* A key is known by the endpoint it was entered for.                      *)
(***************************************************************************)
EXTENDS CredentialVault

CONSTANTS Admins, Hosts, NoProfile,
          MaxProfileShas, MaxProfileFaults  \* bounds

VARIABLES
  profile,     \* the definition: host and sha
  profileShas, \* the last blob sha
  authority,   \* the row: id, target, secret
  authorities, \* the last binding id
  pinned,      \* the snapshots of runs: host and binding
  work,        \* the requests under way
  profileFaults

profileVars == <<vaultVars, profile, profileShas, authority, authorities, pinned, work, profileFaults>>
definition == <<profile, profileShas>>
profileRow == <<authority, authorities>>

NoAuthority == [id |-> 0]
AtRest == [pc |-> "rest"]

To(o, pc) == work' = [work EXCEPT ![o] = IF pc = "rest" THEN AtRest ELSE [@ EXCEPT !.pc = pc]]
ProfileFault == profileFaults < MaxProfileFaults /\ profileFaults' = profileFaults + 1

\* A call: it is done and answered, or it fails, with or without its effect.
Attempt(o, effect, nothing, next, failed) ==
  \/ effect /\ To(o, next) /\ UNCHANGED profileFaults
  \/ ProfileFault /\ (effect \/ nothing) /\ To(o, failed)

\* The vault's delete; the row that references the secret goes with it.
Drop(id) ==
  /\ DeleteSecret(id)
  /\ authority' = IF authority # NoAuthority /\ authority.secret = id THEN NoAuthority ELSE authority

PutProfile(host) ==
  /\ profileShas < MaxProfileShas /\ profileShas' = profileShas + 1
  /\ profile' = [host |-> host, sha |-> profileShas + 1]
Unchanged(sha) == profile # NoProfile /\ profile.sha = sha

Row(target, secret) == [id |-> authorities + 1, target |-> target, secret |-> secret]

\* The request's new key is in the vault; next says what is done with it.
NewKey(o, next) ==
  /\ CreateSecret({work[o].host})
  /\ work' = [work EXCEPT ![o].pc = next, ![o].secret = created + 1]
  /\ UNCHANGED <<definition, profileRow, pinned, profileFaults>>

-----------------------------------------------------------------------------
(* POST: the credential first, then the definition                         *)

BeginPost(o, host) ==
  /\ work[o] = AtRest /\ CreateSecret({host})
  /\ work' = [work EXCEPT ![o] = [pc |-> "insert", host |-> host, secret |-> created + 1, bound |-> NoAuthority, old |-> NoProfile]]
  /\ UNCHANGED <<definition, profileRow, pinned, profileFaults>>

InsertRow(o) ==
  /\ work[o].pc = "insert"
  /\ LET new == Row(work[o].host, work[o].secret)
         insert == authority' = new /\ authorities' = authorities + 1 IN
     IF authority # NoAuthority THEN To(o, "drop_new") /\ UNCHANGED <<profileRow, profileFaults>>
     ELSE \/ insert /\ work' = [work EXCEPT ![o].pc = "post", ![o].bound = new] /\ UNCHANGED profileFaults
          \/ ProfileFault /\ (insert \/ UNCHANGED profileRow) /\ To(o, "drop_new")
  /\ UNCHANGED <<vaultVars, definition, pinned>>

DropNew(o) ==
  /\ work[o].pc \in {"drop_new", "drop_new_restore"}
  /\ LET next == IF work[o].pc = "drop_new" THEN "rest" ELSE "restore" IN
     Attempt(o, Drop(work[o].secret), UNCHANGED <<vaultVars, authority>>, next, next)
  /\ UNCHANGED <<definition, authorities, pinned>>

PostDefinition(o) ==
  /\ work[o].pc = "post"
  /\ IF profile # NoProfile THEN To(o, "revoke") /\ UNCHANGED <<definition, profileFaults>>
     ELSE Attempt(o, PutProfile(work[o].host), UNCHANGED definition, "rest", "revoke")
  /\ UNCHANGED <<vaultVars, profileRow, pinned>>

\* revokeSecurityProfileCredentialBinding: the secret of the row, if it is the request's.
RevokeProfile(o) ==
  /\ work[o].pc \in {"revoke", "revoke_delete"}
  /\ LET next == IF work[o].pc = "revoke" THEN "rest" ELSE "delete" IN
     IF authority # NoAuthority /\ authority.id = work[o].bound.id
     THEN Attempt(o, Drop(authority.secret), UNCHANGED <<vaultVars, authority>>, next, "rest")
     ELSE To(o, "rest") /\ UNCHANGED <<vaultVars, authority, profileFaults>>
  /\ UNCHANGED <<definition, authorities, pinned>>

-----------------------------------------------------------------------------
(* PUT: updateSecurityProfileAuthority; and the credential route           *)

\* The row counts when its target is the definition's.
Current == IF authority # NoAuthority /\ profile # NoProfile /\ authority.target = profile.host THEN authority ELSE NoAuthority

BeginPut(o, host, key) ==
  /\ work[o] = AtRest /\ profile # NoProfile
  /\ IF Current = NoAuthority THEN key /\ host = profile.host ELSE host # profile.host => key
  /\ work' = [work EXCEPT ![o] = [pc |-> "put", host |-> host, key |-> key, secret |-> 0, bound |-> Current, old |-> profile]]
  /\ UNCHANGED <<vaultVars, definition, profileRow, pinned, profileFaults>>

Put(o) ==
  /\ work[o].pc = "put"
  /\ LET next == CASE work[o].bound = NoAuthority -> "recover"
                   [] work[o].bound # NoAuthority /\ work[o].host # work[o].old.host -> "replace"
                   [] work[o].bound # NoAuthority /\ work[o].host = work[o].old.host -> IF work[o].key THEN "rotate" ELSE "rest" IN
     IF ~Unchanged(work[o].old.sha) THEN To(o, "rest") /\ UNCHANGED <<definition, profileFaults>>
     ELSE \/ /\ PutProfile(work[o].host) /\ UNCHANGED profileFaults
             /\ work' = [work EXCEPT ![o] = IF next = "rest" THEN AtRest
                           ELSE [pc |-> next, host |-> @.host, secret |-> 0, bound |-> @.bound, old |-> @.old, sha |-> profileShas + 1]]
          \/ ProfileFault /\ (PutProfile(work[o].host) \/ UNCHANGED definition) /\ To(o, "rest")
  /\ UNCHANGED <<vaultVars, profileRow, pinned>>

\* recover...Binding observes the row it will replace; replace...Binding requires
\* the one it was given.
Recover(o) ==
  /\ work[o].pc = "recover"
  /\ CreateSecret({work[o].host})
  /\ work' = [work EXCEPT ![o].pc = "swap", ![o].secret = created + 1, ![o].bound = authority]
  /\ UNCHANGED <<definition, profileRow, pinned, profileFaults>>

Replace(o) ==
  /\ work[o].pc = "replace"
  /\ IF authority # NoAuthority /\ authority.id = work[o].bound.id /\ authority.target = work[o].old.host
     THEN NewKey(o, "swap")
     ELSE To(o, "restore") /\ UNCHANGED <<vaultVars, definition, profileRow, pinned, profileFaults>>

SwapTo(o, secret) ==
  LET change == authority' = Row(work[o].host, secret) /\ authorities' = authorities + 1
      allowed == IF work[o].bound = NoAuthority THEN authority = NoAuthority
                 ELSE authority # NoAuthority /\ authority.id = work[o].bound.id /\ authority.target = work[o].bound.target IN
  /\ work[o].pc = "swap"
  /\ IF allowed THEN Attempt(o, change, UNCHANGED profileRow, "drop_old", "drop_new_restore")
     ELSE To(o, "drop_new_restore") /\ UNCHANGED <<profileRow, profileFaults>>
  /\ UNCHANGED <<vaultVars, definition, pinned>>

\* Mutant: the row keeps the secret it has.
SwapTargetOnly(o) ==
  work[o].pc = "swap" /\ SwapTo(o, IF authority = NoAuthority THEN work[o].secret ELSE authority.secret)

Swap(o) == work[o].pc = "swap" /\ SwapTo(o, work[o].secret)

DropOld(o) ==
  /\ work[o].pc = "drop_old"
  /\ IF work[o].bound = NoAuthority THEN To(o, "rest") /\ UNCHANGED <<vaultVars, authority, profileFaults>>
     ELSE Attempt(o, Drop(work[o].bound.secret), UNCHANGED <<vaultVars, authority>>, "rest", "rest")
  /\ UNCHANGED <<definition, authorities, pinned>>

\* The credential route reads the definition and the row, and rotates.
BeginRotate(o) ==
  /\ work[o] = AtRest /\ Current # NoAuthority
  /\ work' = [work EXCEPT ![o] = [pc |-> "rotate", host |-> profile.host, bound |-> Current, secret |-> 0, old |-> NoProfile]]
  /\ UNCHANGED <<vaultVars, definition, profileRow, pinned, profileFaults>>

\* rotateSecurityProfileCredential: the row is read and compared; then its secret
\* is replaced, whatever the row has become.
Rotate(o) ==
  /\ work[o].pc = "rotate"
  /\ IF authority # NoAuthority /\ authority.id = work[o].bound.id /\ authority.target = work[o].host
     THEN work' = [work EXCEPT ![o].pc = "overwrite", ![o].secret = authority.secret]
     ELSE To(o, IF work[o].old = NoProfile THEN "rest" ELSE "restore")
  /\ UNCHANGED <<vaultVars, definition, profileRow, pinned, profileFaults>>

Overwrite(o) ==
  /\ work[o].pc = "overwrite"
  /\ LET failed == IF work[o].old = NoProfile THEN "rest" ELSE "restore" IN
     IF vault[work[o].secret] # NoSecret
     THEN Attempt(o, ReplaceSecret(work[o].secret, {work[o].host}), UNCHANGED vaultVars, "rest", failed)
     ELSE To(o, failed) /\ UNCHANGED <<vaultVars, profileFaults>>
  /\ UNCHANGED <<definition, profileRow, pinned>>

\* The old definition again, unless the file has changed since; best effort.
RestoreProfile(o) ==
  /\ work[o].pc = "restore"
  /\ IF Unchanged(work[o].sha) THEN Attempt(o, PutProfile(work[o].old.host), UNCHANGED definition, "rest", "rest")
     ELSE To(o, "rest") /\ UNCHANGED <<definition, profileFaults>>
  /\ UNCHANGED <<vaultVars, profileRow, pinned>>

-----------------------------------------------------------------------------
(* DELETE: the credential first, then the definition; and a run's snapshot *)

BeginRemove(o) ==
  /\ work[o] = AtRest /\ Current # NoAuthority
  /\ work' = [work EXCEPT ![o] = [pc |-> "revoke_delete", host |-> profile.host, bound |-> Current, secret |-> 0, old |-> profile]]
  /\ UNCHANGED <<vaultVars, definition, profileRow, pinned, profileFaults>>

DeleteProfile(o) ==
  /\ work[o].pc = "delete"
  /\ IF Unchanged(work[o].old.sha) THEN Attempt(o, profile' = NoProfile, UNCHANGED profile, "rest", "rest")
     ELSE To(o, "rest") /\ UNCHANGED <<profile, profileFaults>>
  /\ UNCHANGED <<vaultVars, profileShas, profileRow, pinned>>

\* freezeSecurityProfiles
Pin ==
  /\ Current # NoAuthority
  /\ pinned' = pinned \cup {[host |-> profile.host, binding |-> Current.id]}
  /\ UNCHANGED <<vaultVars, definition, profileRow, work, profileFaults>>

WorkLost(o) ==
  /\ work[o] # AtRest /\ ProfileFault /\ To(o, "rest")
  /\ UNCHANGED <<vaultVars, definition, profileRow, pinned>>

ProfilesInit ==
  /\ VaultInit
  /\ profile = NoProfile /\ profileShas = 0 /\ authority = NoAuthority /\ authorities = 0 /\ pinned = {}
  /\ work = [o \in Admins |-> AtRest] /\ profileFaults = 0

ProfilesNext ==
  \/ Pin
  \/ \E o \in Admins :
       \/ \E host \in Hosts : BeginPost(o, host) \/ \E key \in BOOLEAN : BeginPut(o, host, key)
       \/ InsertRow(o) \/ DropNew(o) \/ PostDefinition(o) \/ RevokeProfile(o)
       \/ Put(o) \/ Recover(o) \/ Replace(o) \/ Swap(o) \/ DropOld(o)
       \/ BeginRotate(o) \/ Rotate(o) \/ Overwrite(o) \/ RestoreProfile(o)
       \/ BeginRemove(o) \/ DeleteProfile(o) \/ WorkLost(o)

ProfilesSpec == ProfilesInit /\ [][ProfilesNext]_profileVars

-----------------------------------------------------------------------------
(* Properties                                                              *)

\* A run sends a profile's API key only to the host the key was entered for, also
\* when the profile moves, or the key is rotated in place, while the run is under
\* way or at the same time (resolveSecurityProfileCredential).
KeyStaysAtItsHost ==
  \A run \in pinned :
    authority # NoAuthority /\ authority.id = run.binding /\ authority.target = run.host /\ Resolves(authority.secret)
      => vault[authority.secret].envelope.value = {run.host}

=============================================================================
