--------------------------- MODULE MCImapSession ---------------------------
(***************************************************************************)
(* Sessions of every server the command line can start with IMAP.          *)
(***************************************************************************)
EXTENDS ImapSession

MCCommandLines ==
  [fault: {"none"}, asks: {"run"}, host: Hosts, tls: TlsModes,
   certFile: {FALSE}, keyFile: {FALSE}, user: {"none", "named"},
   passwordFile: {"none"}, envPassword: {"set"}, insecure: BOOLEAN,
   imap: {TRUE}, imapPort: {FALSE}, mcp: {FALSE}, mutations: {FALSE},
   mcpToken: {"none"}, apiToken: {TRUE}, persist: {FALSE},
   messageAboveStorage: {FALSE}]

\* The flags; a source with its structure, which is a batch; the largest
\* response, which is more than one; a response and a list of items beyond
\* their limits.
Item(of, partial) == [of |-> of, partial |-> partial]

MCRequests ==
  {<<Item("other", Off)>>,
   <<Item("content", Off), Item("content", 1), Item("structure", Off)>>,
   [i \in 1..3 |-> Item("envelope", Off)],
   [i \in 1..4 |-> Item("envelope", Off)],
   [i \in 1..5 |-> Item("other", Off)]}
=============================================================================
