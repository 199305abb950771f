------------------------------ MODULE MCDaemon ------------------------------
(***************************************************************************)
(* Eight ways to start the daemon, every DNS and API answer at start-up, a *)
(* name that moves once, two outages; the backoff doubles to six seconds.  *)
(***************************************************************************)
EXTENDS Daemon

Bare == [k \in Keys |-> "unset"]
Sip  == [Bare EXCEPT !["sip"] = "set"]
Good == [Sip EXCEPT !["key"] = "set"]
Assign(k, v) == [key |-> k, value |-> v]

MCBoots == {
  \* exported variables only; the same with -echo over a file that says no
  [shell |-> Good, file |-> << >>, flag |-> FALSE],
  [shell |-> Good, file |-> <<Assign("echo", "false")>>, flag |-> TRUE],
  \* -echo and no key
  [shell |-> Sip, file |-> << >>, flag |-> TRUE],
  \* a stale key in the shell under a file that still has the placeholder
  [shell |-> Good, file |-> <<Assign("key", "placeholder")>>, flag |-> FALSE],
  \* the file corrects itself, opts in to a public registrar, sets BIND_HOST
  [shell |-> Bare, flag |-> FALSE,
   file |-> <<Assign("key", "placeholder"), Assign("sip", "set"), Assign("allow", "true"),
              Assign("bind", "set"), Assign("key", "set")>>],
  \* a prompt that is not there, a test call without a number, a bad line
  [shell |-> [Good EXCEPT !["prompt"] = "unreadable"], file |-> << >>, flag |-> FALSE],
  [shell |-> Good, file |-> <<Assign("test", "true")>>, flag |-> FALSE],
  [shell |-> Good, file |-> <<Assign("echo", "true"), Assign("junk", "set")>>, flag |-> FALSE]}

MCZones == Zone
=============================================================================
