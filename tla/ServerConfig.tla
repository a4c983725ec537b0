---------------------------- MODULE ServerConfig ----------------------------
(***************************************************************************)
(* The server command line: apps/server/src/config.ts, and the one setting *)
(* runtime.ts derives from it.  A command line is abstracted to what the   *)
(* rules of parseServerArgs() tell apart; a value of the wrong form (a     *)
(* port, count, host, TLS mode, token or list entry) is one fault, an      *)
(* unknown or repeated option another.                                     *)
(***************************************************************************)

TlsModes == {"none", "starttls", "implicit"}
Hosts == {"loopback", "exposed"}

CommandLine ==
  [fault: {"none", "syntax", "value"}, asks: {"run", "help", "version"},
   host: Hosts, tls: TlsModes, certFile: BOOLEAN, keyFile: BOOLEAN,
   user: {"none", "empty", "named"},
   passwordFile: {"none", "unusable", "set"},    \* unreadable or empty
   envPassword: {"none", "empty", "set"},
   insecure: BOOLEAN, imap: BOOLEAN, imapPort: BOOLEAN,
   mcp: BOOLEAN, mutations: BOOLEAN, mcpToken: {"none", "malformed", "set"},
   apiToken: BOOLEAN, persist: BOOLEAN,
   messageAboveStorage: BOOLEAN]

Config ==
  [host: Hosts, tls: TlsModes, ownCertificate: BOOLEAN, credentials: BOOLEAN,
   insecure: BOOLEAN, imap: BOOLEAN, mcp: BOOLEAN, mutations: BOOLEAN,
   mcpToken: BOOLEAN, apiToken: BOOLEAN, persistent: BOOLEAN]

Credentials(c) == c.user = "named"

\* A password in the environment without --auth-user is not an error.
CredentialsFault(c) ==
  \/ c.passwordFile # "none" /\ c.envPassword # "none"
  \/ c.passwordFile # "none" /\ c.user = "none"
  \/ c.user = "empty"
  \/ c.user = "named" /\ "set" \notin {c.passwordFile, c.envPassword}

TlsFault(c) ==
  \/ c.certFile # c.keyFile
  \/ c.certFile /\ c.tls = "none"

ImapFault(c) ==
  \/ ~c.imap /\ c.imapPort
  \/ c.imap /\ Credentials(c) /\ c.tls = "none" /\ ~c.insecure

\* The token of MCP is read only with --mcp.
McpFault(c) ==
  \/ ~c.mcp /\ c.mutations
  \/ c.mcp /\ c.mcpToken = "malformed"

\* Mutant: the override of --allow-insecure-auth is not limited to loopback.
ExposureFaultWithOverride(c) ==
  /\ c.host = "exposed"
  /\ \/ ~c.apiToken
     \/ c.mcp /\ c.mcpToken = "none"
     \/ c.tls = "none"
     \/ ~Credentials(c)

\* assertExposureIsProtected: rules for any host but loopback.
ExposureFault(c) ==
  /\ c.host = "exposed"
  /\ \/ ~c.apiToken
     \/ c.mcp /\ c.mcpToken = "none"
     \/ c.tls = "none"
     \/ ~Credentials(c)
     \/ c.insecure

\* Help and the version come before the settings are looked at.
UsageError(c) ==
  \/ c.fault = "syntax"
  \/ /\ c.asks = "run"
     /\ \/ c.fault = "value"
        \/ c.messageAboveStorage
        \/ TlsFault(c) \/ CredentialsFault(c) \/ ImapFault(c) \/ McpFault(c)
        \/ ExposureFault(c)

Runs(c) == c.asks = "run" /\ ~UsageError(c)

Configured(c) ==
  [host |-> c.host, tls |-> c.tls, ownCertificate |-> c.certFile,
   credentials |-> Credentials(c), insecure |-> c.insecure,
   imap |-> c.imap, mcp |-> c.mcp, mutations |-> c.mutations,
   mcpToken |-> c.mcpToken = "set", apiToken |-> c.apiToken,
   persistent |-> c.persist]

\* allowsPlaintextImapAuth (runtime.ts)
AllowsPlaintextImapAuth(config) ==
  config.insecure \/ (config.tls = "none" /\ ~config.credentials)
=============================================================================
