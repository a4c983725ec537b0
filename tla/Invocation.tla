----------------------------- MODULE Invocation -----------------------------
(***************************************************************************)
(* The command lines of the two client programs: parseConfig() of the CLI  *)
(* (config/parse-config.ts) and parseBridgeArgs() of `mail-debugger mcp`   *)
(* (mcp/bridge.ts), with the modes runCli() and runMcpBridge() choose.     *)
(*                                                                         *)
(* A CLI line is a record: words (the command, then its arguments, each    *)
(* argument a number or -1 for no plain number), options (the names        *)
(* given), and the faults of values the parser tells apart.                *)
(***************************************************************************)
EXTENDS Integers, Sequences

FilterOptions == {"from", "to", "subject", "since", "until"}

CommandOptions ==
  [list |-> FilterOptions \union {"limit", "offset"},
   wait |-> FilterOptions \union {"after-id", "mailbox-id", "timeout"},
   show |-> {}, delete |-> {}, delete_all |-> {}, health |-> {}]

CommonOptions == {"api-url", "json"}

NeedsId(name) == name \in {"show", "delete"}

\* The checks of parseConfig() behind --help and --version.
CliUsageError(line) ==
  IF line.command = "none"
  THEN line.badUrl \/ ~(line.options \subseteq {"api-url"})
  ELSE \/ line.badUrl
       \/ line.command \notin DOMAIN CommandOptions
       \/ ~(line.options \subseteq CommonOptions \union CommandOptions[line.command])
       \/ Len(line.args) # (IF NeedsId(line.command) THEN 1 ELSE 0)
       \/ NeedsId(line.command) /\ line.args[1] < 1
       \/ line.badNumber

\* What runCli() does: the inbox needs a terminal and its native engine.
CliMode(line, tty) ==
  IF line.syntax THEN "usage"
  ELSE IF line.asks # "run" THEN "answered"
  ELSE IF CliUsageError(line) THEN "usage"
  ELSE IF line.command # "none" THEN "command"
  ELSE IF tty THEN "tui" ELSE "usage"

BridgeMode(line) ==
  IF line.syntax THEN "usage"
  ELSE IF line.asks # "run" THEN "answered"
  ELSE IF line.badUrl \/ line.urlCredentials \/ line.token = "malformed" THEN "usage"
  ELSE "run"
=============================================================================
