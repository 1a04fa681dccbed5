--------------------------- MODULE CredentialVault ---------------------------
(***************************************************************************)
(* The provider credential vault: D1ProviderCredentialVault                *)
(* (lib/provider-credential-vault.ts) over the envelopes of                *)
(* lib/provider-credential-vault-crypto.ts.  Its statements, as the values *)
(* the table takes; McpServers, SecurityProfiles and DelegatedAccess       *)
(* interleave them.                                                        *)
(*                                                                         *)
(* A secret's identifier is fresh (32 random bytes).  A row holds an       *)
(* envelope, which opens only under the identifier and the master key it   *)
(* was sealed with; root is the key the deployment has.                    *)
(***************************************************************************)
EXTENDS Naturals, FiniteSets

CONSTANTS NoSecret,
          MaxSecrets  \* bound: secrets ever created

VARIABLES vault, created, root

vaultVars == <<vault, created, root>>

SecretIds == 1..MaxSecrets

\* encryptVaultCredential: the identifier and the key are authenticated.
Encrypt(credential, id) == [value |-> credential, secret |-> id, key |-> root]

\* decryptVaultCredential
Decrypts(envelope, id) == envelope.secret = id /\ envelope.key = root

\* resolve succeeds, with vault[id].envelope.value.
Resolves(id) == id \in SecretIds /\ vault[id] # NoSecret /\ Decrypts(vault[id].envelope, id)

\* create: an INSERT under a new identifier, which the caller gets when it is answered.
CreateSecret(credential) ==
  /\ created < MaxSecrets
  /\ created' = created + 1
  /\ vault' = [vault EXCEPT ![created + 1] = [envelope |-> Encrypt(credential, created + 1), revision |-> 1]]
  /\ UNCHANGED root

\* replace: the identifier stays, the revision too.
ReplaceSecret(id, credential) ==
  /\ vault[id] # NoSecret
  /\ vault' = [vault EXCEPT ![id].envelope = Encrypt(credential, id)]
  /\ UNCHANGED <<created, root>>

\* replaceIfRevision: whether it changed the row.
AtRevision(id, revision) == vault[id] # NoSecret /\ vault[id].revision = revision
ReplaceIfRevision(id, revision, credential) ==
  /\ vault' = IF AtRevision(id, revision)
              THEN [vault EXCEPT ![id] = [envelope |-> Encrypt(credential, id), revision |-> @.revision + 1]]
              ELSE vault
  /\ UNCHANGED <<created, root>>

\* delete.  The callers' tables reference the vault with ON DELETE CASCADE.
DeleteSecret(id) ==
  /\ vault' = IF id \in SecretIds THEN [vault EXCEPT ![id] = NoSecret] ELSE vault
  /\ UNCHANGED <<created, root>>

VaultInit == vault = [i \in SecretIds |-> NoSecret] /\ created = 0 /\ root = 1

=============================================================================
