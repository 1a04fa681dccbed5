------------------------------ MODULE McpServers ------------------------------
(***************************************************************************)
(* The authority over an MCP server: its definition in Git                 *)
(* (lib/tool-definition-repository.ts), its row of mcp_server_credentials, *)
(* its bearer token in the vault, and the tools that runs have frozen      *)
(* (lib/mcp-tool-service.ts, lib/mcp-tool-authority.ts).  Requests take    *)
(* one step per call; a call may fail, done or not, and a request may end  *)
(* between two calls.                                                      *)
(*                                                                         *)
(* A token is known by the endpoints an operator entered it for, or kept   *)
(* it for when moving the endpoint: its value in the vault.                *)
(***************************************************************************)
EXTENDS CredentialVault

CONSTANTS Operators, Endpoints, NoServer,
          MaxRevisions, MaxMcpFaults  \* bounds

VARIABLES
  server,    \* the definition: url, secret (0 without authentication), sha
  shas,      \* the last blob sha GitHub gave out
  binding,   \* the row: id, target, secret
  bindings,  \* the last binding id
  frozen,    \* mcp_tool_snapshots_json of the runs: url and binding
  request,   \* the requests under way
  mcpFaults

mcpVars == <<vaultVars, server, shas, binding, bindings, frozen, request, mcpFaults>>

NoBinding == [id |-> 0]
Quiet == [pc |-> "none"]
Bearer(d) == d # NoServer /\ d.secret # 0

Step(o, pc) == request' = [request EXCEPT ![o] = IF pc = "none" THEN Quiet ELSE [@ EXCEPT !.pc = pc]]
McpFault == mcpFaults < MaxMcpFaults /\ mcpFaults' = mcpFaults + 1

\* A call: it is done and answered, or it fails, with or without its effect.
Call(o, effect, nothing, next, failed) ==
  \/ effect /\ Step(o, next) /\ UNCHANGED mcpFaults
  \/ McpFault /\ (effect \/ nothing) /\ Step(o, failed)

definitionFile == <<server, shas>>
rows == <<binding, bindings>>

\* create and update of the repository.  GitHub takes a file only with the sha
\* of the blob it replaces; the request learns the new one if it is answered.
Commit(d) == shas < MaxRevisions /\ shas' = shas + 1 /\ server' = [d EXCEPT !.sha = shas + 1]
PutDefinition(o, current, next, failed) ==
  IF ~current THEN Step(o, failed) /\ UNCHANGED <<definitionFile, mcpFaults>>
  ELSE \/ /\ Commit(request[o].new) /\ UNCHANGED mcpFaults
          /\ request' = [request EXCEPT ![o] = IF next = "none" THEN Quiet
                                               ELSE [@ EXCEPT !.pc = next, !.new.sha = shas + 1]]
       \/ McpFault /\ (Commit(request[o].new) \/ UNCHANGED definitionFile) /\ Step(o, failed)
AtSha(sha) == server # NoServer /\ server.sha = sha

\* cleanupSecret, best effort; the row that references the secret goes too.
CleanupSecret(o, id, next) ==
  LET gone == /\ DeleteSecret(id)
              /\ binding' = IF binding # NoBinding /\ binding.secret = id THEN NoBinding ELSE binding IN
  IF id = 0 THEN Step(o, next) /\ UNCHANGED <<vaultVars, binding, mcpFaults>>
  ELSE Call(o, gone, UNCHANGED <<vaultVars, binding>>, next, next)

\* ensureMcpServerCredentialBinding: a row that is there must match; else one is
\* inserted, if the secret still exists.
Ensure(o, d, next, failed) ==
  LET fits == IF binding = NoBinding THEN vault[d.secret] # NoSecret
              ELSE binding.target = d.url /\ binding.secret = d.secret
      row == IF binding = NoBinding THEN [id |-> bindings + 1, target |-> d.url, secret |-> d.secret] ELSE binding IN
  \/ /\ fits
     /\ binding' = row /\ bindings' = IF binding = NoBinding THEN bindings + 1 ELSE bindings
     /\ request' = [request EXCEPT ![o] = IF next = "none" THEN Quiet ELSE [@ EXCEPT !.pc = next, !.bound = row.id]]
     /\ UNCHANGED mcpFaults
  \/ ~fits /\ Step(o, failed) /\ UNCHANGED <<rows, mcpFaults>>
  \/ McpFault /\ Step(o, failed) /\ UNCHANGED rows

\* A request that has read the definition; its binding, when it has one, is ensured first.
Begin(o, kind, next) ==
  /\ request[o] = Quiet /\ server # NoServer
  /\ request' = [request EXCEPT ![o] = [pc |-> IF Bearer(server) THEN "ensure" ELSE next, next |-> next,
                                        old |-> server, new |-> kind, bound |-> 0, then |-> "none"]]
  /\ UNCHANGED <<vaultVars, definitionFile, rows, frozen, mcpFaults>>

EnsureBinding(o) ==
  /\ request[o].pc = "ensure"
  /\ Ensure(o, request[o].old, request[o].next, "none")
  /\ UNCHANGED <<vaultVars, definitionFile, frozen>>

-----------------------------------------------------------------------------
(* createMcpServer                                                         *)

BeginCreate(o, url, token) ==
  /\ request[o] = Quiet
  /\ IF token THEN CreateSecret({url}) ELSE UNCHANGED vaultVars
  /\ request' = [request EXCEPT ![o] = [pc |-> "create", old |-> NoServer, bound |-> 0, then |-> "none",
       new |-> [url |-> url, secret |-> IF token THEN created + 1 ELSE 0, sha |-> 0]]]
  /\ UNCHANGED <<definitionFile, rows, frozen, mcpFaults>>

CreateDefinition(o) ==
  /\ request[o].pc = "create"
  /\ PutDefinition(o, server = NoServer, IF Bearer(request[o].new) THEN "bind" ELSE "none", "discard")
  /\ UNCHANGED <<vaultVars, rows, frozen>>

CreateBinding(o) ==
  /\ request[o].pc = "bind"
  /\ Ensure(o, request[o].new, "none", "uncreate")
  /\ UNCHANGED <<vaultVars, definitionFile, frozen>>

Uncreate(o) ==
  /\ request[o].pc = "uncreate"
  /\ IF AtSha(request[o].new.sha)
     THEN Call(o, server' = NoServer, UNCHANGED server, "discard", "discard")
     ELSE Step(o, "discard") /\ UNCHANGED <<server, mcpFaults>>
  /\ UNCHANGED <<vaultVars, shas, rows, frozen>>

\* The request's own secret: a secret the update kept is not its own.
Own(o) == IF request[o].old # NoServer /\ request[o].old.secret = request[o].new.secret THEN 0 ELSE request[o].new.secret
Discard(o) ==
  /\ request[o].pc = "discard"
  /\ CleanupSecret(o, Own(o), request[o].then)
  /\ UNCHANGED <<definitionFile, bindings, frozen>>

-----------------------------------------------------------------------------
(* updateMcpServer                                                         *)

\* token: "none", "kept" or "new".
BeginUpdate(o, url, token) ==
  /\ token = "kept" => Bearer(server)
  /\ Begin(o, [url |-> url, secret |-> token, sha |-> 0], "candidate")

Candidate(o) ==
  /\ request[o].pc = "candidate"
  /\ LET new == request[o].new
         secret == CASE new.secret = "none" -> 0
                     [] new.secret = "kept" -> request[o].old.secret
                     [] new.secret = "new" -> created + 1 IN
     /\ CASE new.secret = "new" -> CreateSecret({new.url})
          [] new.secret = "kept" /\ vault[secret] # NoSecret ->
               vault' = [vault EXCEPT ![secret].envelope.value = @ \cup {new.url}] /\ UNCHANGED <<created, root>>
          [] OTHER -> UNCHANGED vaultVars
     /\ request' = [request EXCEPT ![o].pc = "update", ![o].new.secret = secret]
  /\ UNCHANGED <<definitionFile, rows, frozen, mcpFaults>>

UpdateDefinition(o) ==
  /\ request[o].pc = "update"
  /\ PutDefinition(o, AtSha(request[o].old.sha), "rebind", "discard")
  /\ UNCHANGED <<vaultVars, rows, frozen>>

\* replace-, rotate-, revoke- or ensureMcpServerCredentialBinding.
RebindAs(o, id) ==
  LET old == request[o].old
      new == request[o].new
      bound == binding # NoBinding /\ binding.id = request[o].bound
      change(allowed, row) ==
        IF allowed THEN Call(o, binding' = row /\ bindings' = bindings + 1, UNCHANGED rows, "retire", "restore")
                   ELSE Step(o, "restore") /\ UNCHANGED <<rows, mcpFaults>> IN
  CASE old.secret # 0 /\ new.secret # 0 /\ old.url # new.url ->
         change(bound /\ binding.target = old.url /\ vault[new.secret] # NoSecret,
                [id |-> id, target |-> new.url, secret |-> new.secret])
    [] old.secret # 0 /\ new.secret # 0 /\ old.url = new.url /\ old.secret # new.secret ->
         change(bound /\ binding.target = old.url /\ binding.secret = old.secret, [binding EXCEPT !.secret = new.secret])
    [] old.secret # 0 /\ new.secret = 0 -> change(bound, NoBinding)
    [] old.secret = 0 /\ new.secret # 0 -> Ensure(o, new, "retire", "restore")
    [] OTHER -> Step(o, "retire") /\ UNCHANGED <<rows, mcpFaults>>

\* Mutant: the binding keeps its identifier when the endpoint moves.
RebindKeepsId(o) ==
  request[o].pc = "rebind" /\ RebindAs(o, request[o].bound) /\ UNCHANGED <<vaultVars, definitionFile, frozen>>

Rebind(o) ==
  request[o].pc = "rebind" /\ RebindAs(o, bindings + 1) /\ UNCHANGED <<vaultVars, definitionFile, frozen>>

\* The secret the update replaced.
RetireOld(o) ==
  /\ request[o].pc = "retire"
  /\ CleanupSecret(o, IF request[o].old.secret = request[o].new.secret THEN 0 ELSE request[o].old.secret, "none")
  /\ UNCHANGED <<definitionFile, bindings, frozen>>

\* restoreMcpServerCredentialBinding writes the old row over whatever is there.
RestoreBinding(o, next, failed) ==
  LET old == request[o].old
      row == [id |-> request[o].bound, target |-> old.url, secret |-> old.secret] IN
  CASE old.secret = 0 -> Step(o, next) /\ UNCHANGED <<rows, mcpFaults>>
    [] old.secret # 0 /\ vault[old.secret] = NoSecret -> Step(o, failed) /\ UNCHANGED <<rows, mcpFaults>>
    [] OTHER -> Call(o, binding' = row /\ UNCHANGED bindings, UNCHANGED rows, next, failed)

RestoreAuthority(o) ==
  /\ request[o].pc = "restore"
  /\ RestoreBinding(o, "restore_git", "restore_git")
  /\ UNCHANGED <<vaultVars, definitionFile, frozen>>

\* When Git cannot be restored, the old secret is retired as well.
RestoreGit(o) ==
  /\ request[o].pc = "restore_git"
  /\ LET fails == request' = [request EXCEPT ![o].pc = "discard", ![o].then = "disable"] IN
     IF AtSha(request[o].new.sha)
     THEN \/ Commit(request[o].old) /\ Step(o, "discard") /\ UNCHANGED mcpFaults
          \/ McpFault /\ (Commit(request[o].old) \/ UNCHANGED definitionFile) /\ fails
     ELSE fails /\ UNCHANGED <<definitionFile, mcpFaults>>
  /\ UNCHANGED <<vaultVars, rows, frozen>>

Disable(o) ==
  /\ request[o].pc = "disable"
  /\ CleanupSecret(o, request[o].old.secret, "none")
  /\ UNCHANGED <<definitionFile, bindings, frozen>>

-----------------------------------------------------------------------------
(* deleteMcpServer                                                         *)

BeginDelete(o) == Begin(o, NoServer, "delete")

DeleteThen(o, next) ==
  /\ request[o].pc = "delete"
  /\ IF AtSha(request[o].old.sha)
     THEN Call(o, server' = NoServer, UNCHANGED server, IF Bearer(request[o].old) THEN next ELSE "none", "none")
     ELSE Step(o, "none") /\ UNCHANGED <<server, mcpFaults>>
  /\ UNCHANGED <<vaultVars, shas, rows, frozen>>

DeleteDefinition(o) == DeleteThen(o, "revoke")

Revoke(o) ==
  /\ request[o].pc = "revoke"
  /\ IF binding # NoBinding /\ binding.id = request[o].bound
     THEN Call(o, binding' = NoBinding, UNCHANGED binding, "disable", "unrevoke")
     ELSE Step(o, "unrevoke") /\ UNCHANGED <<binding, mcpFaults>>
  /\ UNCHANGED <<vaultVars, definitionFile, bindings, frozen>>

Unrevoke(o) ==
  /\ request[o].pc = "unrevoke"
  /\ RestoreBinding(o, "undelete", "undelete_unbound")
  /\ UNCHANGED <<vaultVars, definitionFile, frozen>>

\* The secret stays only if both the row and the definition are back.
Undelete(o) ==
  /\ request[o].pc \in {"undelete", "undelete_unbound"}
  /\ LET done == IF request[o].pc = "undelete" THEN "none" ELSE "disable" IN
     IF server = NoServer THEN Call(o, Commit(request[o].old), UNCHANGED definitionFile, done, "disable")
     ELSE Step(o, "disable") /\ UNCHANGED <<definitionFile, mcpFaults>>
  /\ UNCHANGED <<vaultVars, rows, frozen>>

-----------------------------------------------------------------------------
(* discoverMcpServer and freezeAuthorizedMcpTools                          *)

\* The token goes to the endpoint of the definition read; then the catalogue is
\* saved, which gives the file another sha.
BeginDiscover(o) ==
  /\ request[o] = Quiet /\ server # NoServer
  /\ request' = [request EXCEPT ![o] = [pc |-> "discover", old |-> server, new |-> server, bound |-> 0, then |-> "none"]]
  /\ UNCHANGED <<vaultVars, definitionFile, rows, frozen, mcpFaults>>

Discover(o) ==
  /\ request[o].pc = "discover"
  /\ IF Bearer(request[o].old) /\ ~Resolves(request[o].old.secret)
     THEN Step(o, "none") /\ UNCHANGED <<definitionFile, mcpFaults>>
     ELSE PutDefinition(o, AtSha(request[o].old.sha), "none", "none")
  /\ UNCHANGED <<vaultVars, rows, frozen>>

BeginFreeze(o) == Begin(o, NoServer, "freeze")

Freeze(o) ==
  /\ request[o].pc = "freeze"
  /\ frozen' = frozen \cup {[url |-> request[o].old.url, binding |-> request[o].bound]}
  /\ Step(o, "none")
  /\ UNCHANGED <<vaultVars, definitionFile, rows, mcpFaults>>

-----------------------------------------------------------------------------
\* A request ends, whatever it had left to do.
RequestLost(o) ==
  /\ request[o] # Quiet /\ McpFault /\ Step(o, "none")
  /\ UNCHANGED <<vaultVars, definitionFile, rows, frozen>>

McpInit ==
  /\ VaultInit
  /\ server = NoServer /\ shas = 0 /\ binding = NoBinding /\ bindings = 0 /\ frozen = {}
  /\ request = [o \in Operators |-> Quiet] /\ mcpFaults = 0

McpNext ==
  \E o \in Operators :
    \/ \E url \in Endpoints : \/ \E token \in BOOLEAN : BeginCreate(o, url, token)
                              \/ \E token \in {"none", "kept", "new"} : BeginUpdate(o, url, token)
    \/ CreateDefinition(o) \/ CreateBinding(o) \/ Uncreate(o) \/ Discard(o)
    \/ EnsureBinding(o) \/ Candidate(o) \/ UpdateDefinition(o) \/ Rebind(o) \/ RetireOld(o)
    \/ RestoreAuthority(o) \/ RestoreGit(o) \/ Disable(o)
    \/ BeginDelete(o) \/ DeleteDefinition(o) \/ Revoke(o) \/ Unrevoke(o) \/ Undelete(o)
    \/ BeginDiscover(o) \/ Discover(o) \/ BeginFreeze(o) \/ Freeze(o) \/ RequestLost(o)

McpSpec == McpInit /\ [][McpNext]_mcpVars

-----------------------------------------------------------------------------
(* Properties                                                              *)

\* A run sends a server's token only to an endpoint the token was entered or
\* kept for: resolveMcpServerCredential looks the token up by the binding the
\* run froze, so that moving the endpoint must end that binding, whatever
\* update, delete or compensation runs at the same time or is cut short.
TokenStaysAtItsEndpoint ==
  \A run \in frozen :
    binding # NoBinding /\ binding.id = run.binding /\ Resolves(binding.secret)
      => run.url \in vault[binding.secret].envelope.value

=============================================================================
