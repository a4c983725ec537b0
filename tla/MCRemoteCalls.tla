--------------------------- MODULE MCRemoteCalls ---------------------------
(* Two calls of five clients' kinds over a mailbox of up to two mails.    *)
EXTENDS RemoteCalls, TLC

MCPolicy ==
  HttpPolicy("localhost", 3000, {}, {}, [api |-> "none", mcp |-> "secret"])

Headers(surface, bearer) ==
  [surface |-> surface, host |-> <<"localhost", 3000>>, origin |-> <<>>,
   bearer |-> bearer]
ApiHeaders == Headers("api", "none")
McpHeaders == Headers("mcp", "secret")

Line(command, options) ==
  [syntax |-> FALSE, asks |-> "run", command |-> command, args |-> <<>>,
   options |-> options, badUrl |-> FALSE, badNumber |-> FALSE]

Ask0 ==
  [via |-> "http", op |-> "read", id |-> 1, expected |-> Absent,
   headers |-> ApiHeaders, line |-> Line("none", {}), after |-> Absent,
   mailbox |-> Absent,
   query |-> [afterId |-> <<>>, timeoutMs |-> <<>>, mailboxId |-> <<>>]]

CliWaitAsk(cursor) ==
  [Ask0 EXCEPT !.via = "cli", !.op = "wait", !.line = Line("wait", {}),
               !.after = cursor]

McpAsk(via, op) ==
  [Ask0 EXCEPT !.via = via, !.op = op, !.headers = McpHeaders]

CONSTANTS c1, c2

MCAsks ==
  c1 :> {CliWaitAsk(Absent), CliWaitAsk(0), McpAsk("bridge", "delete"),
         [Ask0 EXCEPT !.via = "library", !.op = "delete"],
         [Ask0 EXCEPT !.via = "cli", !.line = Line("show", {"limit"})]}
  @@
  c2 :> {McpAsk("mcp", "wait"), McpAsk("mcp", "delete"),
         [McpAsk("bridge", "clear") EXCEPT !.expected = 1],
         [McpAsk("mcp", "wait") EXCEPT !.headers.bearer = "none"],
         [McpAsk("legacy", "wait") EXCEPT !.query.afterId = <<1>>,
                                          !.query.mailboxId = <<1>>]}

Bridge == [syntax |-> FALSE, asks |-> "run", badUrl |-> FALSE,
           urlCredentials |-> FALSE, token |-> "secret"]
MCBridgeLines == {Bridge}
=============================================================================
