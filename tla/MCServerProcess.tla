-------------------------- MODULE MCServerProcess --------------------------
(***************************************************************************)
(* A full command line for an exposed server, everything that differs from *)
(* it in one setting, and two servers on loopback.                         *)
(***************************************************************************)
EXTENDS ServerProcess

CONSTANTS p1, p2, p3

Full ==
  [fault |-> "none", asks |-> "run", host |-> "exposed", tls |-> "implicit",
   certFile |-> TRUE, keyFile |-> TRUE, user |-> "named",
   passwordFile |-> "set", envPassword |-> "none", insecure |-> FALSE,
   imap |-> TRUE, imapPort |-> TRUE, mcp |-> TRUE, mutations |-> TRUE,
   mcpToken |-> "set", apiToken |-> TRUE, persist |-> TRUE,
   messageAboveStorage |-> FALSE]

Plain ==
  [Full EXCEPT !.host = "loopback", !.tls = "none", !.certFile = FALSE,
     !.keyFile = FALSE, !.user = "none", !.passwordFile = "none",
     !.imapPort = FALSE, !.imap = FALSE, !.mcp = FALSE, !.mutations = FALSE]

MCCommandLines ==
  {Full, [Full EXCEPT !.tls = "starttls"], Plain,
   [Plain EXCEPT !.insecure = TRUE, !.imap = TRUE, !.mcp = TRUE,
      !.mcpToken = "none"],
   [Plain EXCEPT !.mutations = TRUE], [Plain EXCEPT !.imapPort = TRUE],
   [Plain EXCEPT !.certFile = TRUE, !.keyFile = TRUE],
   [Plain EXCEPT !.imap = TRUE, !.user = "named", !.envPassword = "set"],
   [Full EXCEPT !.fault = "syntax", !.asks = "help"],
   [Full EXCEPT !.fault = "value"], [Full EXCEPT !.asks = "version"],
   [Full EXCEPT !.tls = "none"], [Full EXCEPT !.keyFile = FALSE],
   [Full EXCEPT !.user = "none"], [Full EXCEPT !.user = "empty"],
   [Full EXCEPT !.passwordFile = "unusable"],
   [Full EXCEPT !.envPassword = "set"], [Full EXCEPT !.insecure = TRUE],
   [Full EXCEPT !.mcpToken = "malformed"], [Full EXCEPT !.mcpToken = "none"],
   [Full EXCEPT !.apiToken = FALSE], [Full EXCEPT !.messageAboveStorage = TRUE]}
=============================================================================
