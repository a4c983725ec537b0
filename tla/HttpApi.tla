------------------------------ MODULE HttpApi ------------------------------
(***************************************************************************)
(* What the HTTP surface decides before a handler runs, and how it names   *)
(* what went wrong: api/guards.ts, params.ts, http-errors.ts and the       *)
(* routes of api/app.ts.                                                   *)
(*                                                                         *)
(* A Host header is a pair <<name, port>>, with NoPort for a bare name; an *)
(* Origin is a triple with its scheme, and <<>> is a header not sent.  A   *)
(* query parameter is the sequence of the values given for it; a value is  *)
(* a number, Blank for '', or Junk for anything but plain digits.          *)
(***************************************************************************)
EXTENDS Integers, Sequences

NoPort == 0
Blank == -1
Junk == -2
Fault == -3
Absent == -4

LoopbackNames == {"localhost", "127.0.0.1", "[::1]"}

\* createHttpPolicy(): host "any" is a wildcard address.
HttpPolicy(host, port, allowedHosts, allowedOrigins, tokens) ==
  LET names == LoopbackNames \union (IF host = "any" THEN {} ELSE {host})
      hosts == (names \X ({port} \union IF port = 80 THEN {NoPort} ELSE {}))
                 \union allowedHosts
  IN  [hosts |-> hosts, tokens |-> tokens,
       origins |-> {<<s, h[1], h[2]>> : s \in {"http", "https"}, h \in hosts}
                     \union allowedOrigins]

\* Only the paths of the API and of MCP need a token.
TokenOf(policy, surface) ==
  IF surface \in {"api", "mcp"} THEN policy.tokens[surface] ELSE "none"

\* checkRequest(): the Host is checked first, then the Origin, the token.
CheckRequest(policy, r) ==
  LET token == TokenOf(policy, r.surface) IN
  IF r.host \notin policy.hosts THEN "FORBIDDEN_HOST"
  ELSE IF r.origin # <<>> /\ r.origin \notin policy.origins THEN "FORBIDDEN_ORIGIN"
  ELSE IF token \notin {"none", r.bearer} THEN "UNAUTHORIZED"
  ELSE "ACCEPTED"

-----------------------------------------------------------------------------
Single(values) ==
  IF values = <<>> THEN Absent
  ELSE IF Len(values) > 1 THEN Fault ELSE Head(values)

Integer(values, fallback, min, max) ==
  LET value == Single(values) IN
  CASE value \in {Absent, Blank} -> fallback
    [] value \in {Fault, Junk} -> Fault
    [] OTHER -> IF value \in min .. max THEN value ELSE Fault

\* parseId() of a path.
ParseId(value, max) ==
  IF value \in 1 .. max THEN value ELSE Fault

\* parseWait(): the cursor must be given, an empty mailboxId is none.
ParseWait(q, defaultMs, maxMs, maxId) ==
  [afterId |-> IF Single(q.afterId) \in {Absent, Blank} THEN Fault
               ELSE Integer(q.afterId, 0, 0, maxId),
   timeoutMs |-> Integer(q.timeoutMs, defaultMs, 0, maxMs),
   mailboxId |-> LET given == Single(q.mailboxId) IN
                 IF given = Blank THEN Absent ELSE given]

Readable(args) == \A name \in DOMAIN args : args[name] # Fault

-----------------------------------------------------------------------------
\* SERVICE_STATUS and the statuses of the errors of the HTTP surface.
Status(code) ==
  CASE code = "OK" -> 200
    [] code \in {"INVALID_ARGUMENT", "INVALID_CURSOR"} -> 400
    [] code = "UNAUTHORIZED" -> 401
    [] code \in {"FORBIDDEN_HOST", "FORBIDDEN_ORIGIN"} -> 403
    [] code \in {"EMAIL_NOT_FOUND", "ATTACHMENT_NOT_FOUND", "NOT_FOUND"} -> 404
    [] code = "COUNT_CHANGED" -> 409
    [] code = "MESSAGE_TOO_LARGE" -> 413
    [] code \in {"LIMIT_EXCEEDED", "TOO_MANY_REQUESTS"} -> 429
    [] code = "SHUTTING_DOWN" -> 503
    [] code = "STORAGE_FULL" -> 507
    [] OTHER -> 500
=============================================================================
