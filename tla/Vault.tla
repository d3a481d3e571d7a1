-------------------------------- MODULE Vault --------------------------------
(***************************************************************************)
(* Credentials: the table of encrypted secrets, and the processes that     *)
(* share it, the REST server (crates/a2w-server) and the MCP server        *)
(* (crates/a2w-mcp), each with the master key and the policy that its      *)
(* environment had when it was started.  Runs resolve the credentials of   *)
(* their nodes one at a time while credentials are stored and deleted.     *)
(*                                                                         *)
(* A ciphertext is the key, the nonce and the secret it was made of.       *)
(***************************************************************************)
EXTENDS Integers, Sequences, FiniteSets

CONSTANTS
    Keys,         \* master keys that are 32 bytes and not weak
    Secrets,      \* non-empty secrets
    CredentialIds,
    MaxStarts,    \* bound: starts of processes
    MaxWrites,    \* bound: writes to the table, and so nonces
    MaxRefs       \* bound: credentials that a run resolves

Servers == {"rest", "mcp"}
NoKey == "none"

\* A key is none of the words that stand for the want of one.
ASSUME VaultAssumption ==
    /\ Keys \cap {NoKey, "fatal", "unset", "no_text", "malformed", "weak"} = {}
    /\ MaxStarts \in Nat /\ MaxWrites \in Nat /\ MaxRefs \in Nat

NoRow == [nonce |-> -1, cipher |-> [key |-> NoKey, nonce |-> -1, secret |-> "none"]]
NotStored == [key |-> NoKey, secret |-> "none"]

\* A2W_MASTER_KEY: not set, no text, not 32 bytes in base64, all bytes equal, or
\* a key.
Environments == Keys \cup {"unset", "no_text", "malformed", "weak"}

VARIABLES
    credentials,  \* the table: for each id its row
    servers,      \* for each server whether it is up, its key and its policy
    runs,         \* for each server what its run has to resolve, and what it got
    stored,       \* history: what was last stored under each id and not deleted
    starts, writes

vaultVars == <<credentials, servers, runs, stored, starts, writes>>

NoRun == [left |-> <<>>, got |-> <<>>, on |-> FALSE]
Down == [up |-> FALSE, environment |-> "unset", key |-> NoKey, allowRun |-> FALSE,
         allowWrites |-> FALSE]

VaultInit ==
    /\ credentials = [id \in CredentialIds |-> NoRow]
    /\ servers = [p \in Servers |-> Down]
    /\ runs = [p \in Servers |-> NoRun]
    /\ stored = [id \in CredentialIds |-> NotStored]
    /\ starts = 0 /\ writes = 0

-----------------------------------------------------------------------------
(* Processes.                                                              *)

\* Mutant: a key that cannot be used is as good as none.
FromEnvOrNone(environment) == IF environment \in Keys THEN environment ELSE NoKey

\* Vault::from_env, called when the variable can be read: one that is no text
\* counts as not set.
FromEnv(environment) ==
    IF environment \in Keys THEN environment
    ELSE IF environment \in {"unset", "no_text"} THEN NoKey ELSE "fatal"

\* The REST server has no policy; a fatal error leaves the process down.
Start(p, environment, allowRun, allowWrites) ==
    /\ ~servers[p].up /\ starts < MaxStarts
    /\ p = "rest" => allowRun /\ allowWrites
    /\ servers' = [servers EXCEPT ![p] =
          [up |-> FromEnv(environment) # "fatal", environment |-> environment,
           key |-> FromEnv(environment), allowRun |-> allowRun, allowWrites |-> allowWrites]]
    /\ starts' = starts + 1
    /\ UNCHANGED <<credentials, runs, stored, writes>>

\* A crash, an exit, or the end of a session: what was running is gone.
Stop(p) ==
    /\ servers[p].up
    /\ servers' = [servers EXCEPT ![p] = Down]
    /\ runs' = [runs EXCEPT ![p] = NoRun]
    /\ UNCHANGED <<credentials, stored, starts, writes>>

-----------------------------------------------------------------------------
(* The credential endpoints and tools; a call that is refused changes nothing. *)

HasVault(p) == servers[p].up /\ servers[p].key # NoKey

\* Mutant: the gate of the tools looks at the flag for runs.
MayWriteIfRun(p) == HasVault(p) /\ servers[p].allowRun

MayWrite(p) == HasVault(p) /\ servers[p].allowWrites

\* Mutant: the nonce is drawn once per process.
EncryptedPerStart(p, secret) == [key |-> servers[p].key, nonce |-> starts, secret |-> secret]

\* Every encryption draws a fresh nonce.
Encrypted(p, secret) == [key |-> servers[p].key, nonce |-> writes, secret |-> secret]

\* Mutant: the upsert forgets the nonce.
UpsertedOverNonce(row, cipher) ==
    [nonce |-> IF row = NoRow THEN cipher.nonce ELSE row.nonce, cipher |-> cipher]

Upserted(row, cipher) == [nonce |-> cipher.nonce, cipher |-> cipher]

StoreSecret(p, id, secret) ==
    /\ MayWrite(p) /\ writes < MaxWrites
    /\ credentials' = [credentials EXCEPT ![id] = Upserted(@, Encrypted(p, secret))]
    /\ stored' = [stored EXCEPT ![id] = [key |-> servers[p].key, secret |-> secret]]
    /\ writes' = writes + 1
    /\ UNCHANGED <<servers, runs, starts>>

\* Mutant: only what the own key can read is deleted.
DeleteReadable(p, id) ==
    /\ MayWrite(p)
    /\ credentials' = IF credentials[id] # NoRow /\ credentials[id].cipher.key = servers[p].key
                      THEN [credentials EXCEPT ![id] = NoRow] ELSE credentials
    /\ stored' = [stored EXCEPT ![id] = NotStored]
    /\ UNCHANGED <<servers, runs, starts, writes>>

\* Whatever key the row was written with; a missing id is no error.
DeleteCredential(p, id) ==
    /\ MayWrite(p)
    /\ credentials' = [credentials EXCEPT ![id] = NoRow]
    /\ stored' = [stored EXCEPT ![id] = NotStored]
    /\ UNCHANGED <<servers, runs, starts, writes>>

-----------------------------------------------------------------------------
(* Runs.                                                                   *)

\* wf_run is refused unless the policy allows it.  (A dry run resolves nothing.)
StartRun(p, refs) ==
    /\ servers[p].up /\ ~runs[p].on
    /\ servers[p].allowRun
    /\ runs' = [runs EXCEPT ![p] = [left |-> refs, got |-> <<>>, on |-> TRUE]]
    /\ UNCHANGED <<credentials, servers, stored, starts, writes>>

\* AES-GCM: the key and the nonce must be those of the encryption.
Decrypts(key, row) == row.cipher.key = key /\ row.cipher.nonce = row.nonce

\* What get_secret answers to the resolver, or the error for want of one.
GetSecret(key, row) ==
    CASE key = NoKey -> [kind |-> "no_resolver"]
      [] key # NoKey /\ row = NoRow -> [kind |-> "not_found"]
      [] key # NoKey /\ row # NoRow /\ ~Decrypts(key, row) -> [kind |-> "crypto_error"]
      [] OTHER -> [kind |-> "secret", secret |-> row.cipher.secret]

\* A node resolves its credential; without one it fails, and the run with it.
Resolve(p) ==
    LET run == runs[p]
        answer == GetSecret(servers[p].key, credentials[Head(run.left)])
    IN  /\ run.on /\ run.left # <<>>
        /\ runs' = [runs EXCEPT ![p] =
              IF answer.kind = "secret"
              THEN [run EXCEPT !.left = Tail(@),
                               !.got = Append(@, [id |-> Head(run.left), answer |-> answer])]
              ELSE [on |-> FALSE, left |-> <<>>,
                    got |-> Append(run.got, [id |-> Head(run.left), answer |-> answer])]]
        /\ UNCHANGED <<credentials, servers, stored, starts, writes>>

FinishRun(p) ==
    /\ runs[p].on /\ runs[p].left = <<>>
    /\ runs' = [runs EXCEPT ![p] = NoRun]
    /\ UNCHANGED <<credentials, servers, stored, starts, writes>>

VaultStep ==
    \E p \in Servers :
        \/ \E e \in Environments, r, w \in BOOLEAN : Start(p, e, r, w)
        \/ Stop(p)
        \/ \E id \in CredentialIds, s \in Secrets : StoreSecret(p, id, s)
        \/ \E id \in CredentialIds : DeleteCredential(p, id)
        \/ \E n \in 0..MaxRefs : \E refs \in [1..n -> CredentialIds] : StartRun(p, refs)
        \/ Resolve(p)
        \/ FinishRun(p)

VaultSpec == VaultInit /\ [][VaultStep]_vaultVars

-----------------------------------------------------------------------------
\* The type invariant; no nonce is used for two rows.
VaultTypeOK ==
    /\ \A id \in CredentialIds : credentials[id] # NoRow =>
          /\ credentials[id].nonce \in 0..MaxWrites
          /\ credentials[id].cipher \in [key : Keys, nonce : 0..MaxWrites, secret : Secrets]
    /\ \A p \in Servers : /\ servers[p].environment \in Environments
                          /\ servers[p].key \in Keys \cup {NoKey, "fatal"}
                          /\ Len(runs[p].left) + Len(runs[p].got) <= MaxRefs
    /\ \A i, j \in {id \in CredentialIds : credentials[id] # NoRow} :
          credentials[i].nonce = credentials[j].nonce => i = j

\* A process whose key cannot be used does not come up without one: a server that
\* runs without a vault was started without a variable that it could read.
NoSilentFallback ==
    \A p \in Servers : servers[p].up /\ servers[p].key = NoKey =>
        servers[p].environment \in {"unset", "no_text"}

\* What is stored can be read by everyone with the key it was stored with, however
\* often it was overwritten, by either server, with the same key or another.
StoredIsReadable ==
    \A id \in CredentialIds : stored[id] # NotStored =>
        GetSecret(stored[id].key, credentials[id]) =
            [kind |-> "secret", secret |-> stored[id].secret]

\* A run gets what is stored under the id at the moment it asks, and nothing else:
\* no secret that was overwritten or deleted, and none of another key.
ResolvesTheCurrent ==
    \A p \in Servers : Len(runs'[p].got) > Len(runs[p].got) =>
        LET last == runs'[p].got[Len(runs'[p].got)]
            current == stored[last.id]
        IN  IF current # NotStored /\ current.key = servers[p].key
            THEN last.answer = [kind |-> "secret", secret |-> current.secret]
            ELSE last.answer.kind # "secret"

\* Rows appear and disappear only while a server that may write is up, and a new
\* one has its key: a read-only MCP server leaves the vault alone.
WrittenWithLeave ==
    credentials' # credentials =>
        \E p \in Servers :
            /\ servers[p].up /\ servers[p].allowWrites /\ servers[p].key \in Keys
            /\ \A id \in CredentialIds : credentials'[id] \in {credentials[id], NoRow}
                  \/ credentials'[id].cipher.key = servers[p].key

\* What was entrusted to a vault is there for whoever has its key, no nonce serves
\* two rows, and no server goes on without the vault it was configured with.
SecretsKept == VaultTypeOK /\ NoSilentFallback /\ StoredIsReadable

\* Every step on the vault: runs get what is there for their key, and only servers
\* that may write change it.
SecretsHandled == [][ResolvesTheCurrent /\ WrittenWithLeave]_vaultVars
=============================================================================
