------------------------------- MODULE Daemon -------------------------------
(***************************************************************************)
(* The process from its start to its end: run of cmd/phonellm/main.go with *)
(* what it calls before Agent.Run (LoadDotEnv, Load, ResolveRegistrar,     *)
(* Preflight, NewAgent), then Agent.Run over the registration loop of      *)
(* Registration.  A signal may come at any time and only cancels the       *)
(* context.  External: the names the local DNS knows, the OpenAI API, the  *)
(* box behind the registrar's name.  Agent models the calls.               *)
(***************************************************************************)
EXTENDS Registration, Sequences

CONSTANTS Boots,     \* ways the process may be started, see Boot
          Zones,     \* DNS answers for the registrar at start-up, see Zone
          MaxMoves   \* bound: how often that answer changes once it was checked

\* The settings start-up depends on; "sip" is the user and the password.
Keys == {"sip", "key", "echo", "allow", "bind", "prompt", "test", "number"}
Values == {"unset", "set", "true", "false", "placeholder", "unreadable"}

\* A line of .env: parseLine finds a key and a value, or fails ("junk"); a file
\* that exists and cannot be opened counts as one such line.
Line == [key : Keys \union {"junk"}, value : Values]
Boot == [shell : [Keys -> Values], file : Seq(Line), flag : BOOLEAN]

\* The addresses of a name, told apart as checkPrivate does.
Zone == SUBSET {"private", "public"}

ASSUME DaemonAssumption == Boots \subseteq Boot /\ Zones \subseteq Zone /\ MaxMoves \in Nat

VARIABLES
  boot,     \* environment, .env and flag the process was started with
  phase,    \* where run stands
  why,      \* what run returned an error for; "none" so far, or a clean end
  env,      \* the environment after LoadDotEnv
  cfg,      \* the configuration
  addrs,    \* what DNS answers for the registrar's name
  checked,  \* the answer ResolveRegistrar has seen
  moves,    \* history: how often the answer has changed since then
  api,      \* what the API answers to Preflight: "ok", "denies", "broken", "silent"
  sent,     \* history: the zones REGISTER requests went to
  early     \* history: the signal came before Agent.Run

startVars == <<boot, env, cfg, checked, api>>
daemonVars == <<regVars, startVars, phase, why, addrs, moves, sent, early>>

Phases == {"dotenv", "load", "bind", "resolve", "preflight", "agent", "serve", "exited"}
Causes == {"none", "dotenv", "config", "bind", "registrar", "key", "agent", "number", "serving"}
Config == [key : Values, echo : BOOLEAN, allow : BOOLEAN, bind : Values, test : BOOLEAN, number : Values]

TypeOK ==
  /\ RegTypeOK
  /\ boot \in Boots /\ env \in [Keys -> Values]
  /\ phase \in Phases /\ why \in Causes
  /\ cfg \in Config
  /\ addrs \in Zone /\ checked \in Zone /\ sent \in Zone
  /\ moves \in 0..MaxMoves
  /\ api \in {"ok", "denies", "broken", "silent"}
  /\ early \in BOOLEAN

\* The zero value of a setting that has not been read.
Unread == "unset"

Init ==
  /\ RegInit
  /\ boot \in Boots /\ env = boot.shell
  /\ phase = "dotenv" /\ why = "none"
  /\ cfg = [key |-> Unread, echo |-> FALSE, allow |-> FALSE, bind |-> Unread,
            test |-> FALSE, number |-> Unread]
  /\ addrs \in Zones /\ checked = {} /\ sent = {}
  /\ moves = 0
  /\ api \in {"ok", "denies", "broken", "silent"}
  /\ early = FALSE

---------------------------------------------------------------------------
(* Start-up *)

\* run gets from phase p to phase q.
Go(p, q) ==
  /\ phase = p /\ phase' = q
  /\ UNCHANGED <<regVars, boot, addrs, moves, api, sent, early>>

\* run returns an error from phase p, and main exits.
Refuse(p, cause) ==
  /\ Go(p, "exited")
  /\ why' = cause
  /\ UNCHANGED <<env, cfg, checked>>

\* LoadDotEnv: what the environment is once every line has been applied in
\* order: the file wins over the shell, and a later line over an earlier one.
Applied(shell, lines) ==
  [k \in Keys |->
     LET at == {i \in DOMAIN lines : lines[i].key = k}
     IN  IF at = {} THEN shell[k] ELSE lines[CHOOSE i \in at : \A j \in at : j <= i].value]

\* A file with a bad line is an error, however much of it has been applied.
LoadDotEnv ==
  IF \A i \in DOMAIN boot.file : boot.file[i].key # "junk"
  THEN /\ Go("dotenv", "load")
       /\ env' = Applied(boot.shell, boot.file)
       /\ UNCHANGED <<why, cfg, checked>>
  ELSE Refuse("dotenv", "dotenv")

\* envBool: what does not parse is the default.
EnvBool(v, def) == IF v \in {"true", "false"} THEN v = "true" ELSE def

\* Load: AllowPublicRegistrar is left at its zero value.
Loaded(e) == [key |-> e["key"], echo |-> EnvBool(e["echo"], FALSE), allow |-> FALSE,
              bind |-> e["bind"], test |-> EnvBool(e["test"], FALSE), number |-> e["number"]]

\* The prompt's file can be read, and nothing required is missing.
Complete(e) == /\ e["prompt"] # "unreadable"
               /\ e["sip"] # "unset"
               /\ e["key"] = "unset" => Loaded(e).echo

\* Load; then the flag overrides what it found.
Load ==
  IF Complete(env)
  THEN /\ Go("load", "bind")
       /\ cfg' = [Loaded(env) EXCEPT !.echo = @ \/ boot.flag]
       /\ UNCHANGED <<why, env, checked>>
  ELSE Refuse("load", "config")

\* outboundIP asks for the route to the registrar, unless BIND_HOST is set.
PickAddress ==
  \/ /\ cfg.bind # "unset" \/ addrs # {}
     /\ Go("bind", "resolve")
     /\ UNCHANGED <<why, env, cfg, checked>>
  \/ cfg.bind = "unset" /\ Refuse("bind", "bind")

\* A bug that checks nothing but that the name resolves.
AcceptsAny(zone) == zone # {}

\* ResolveRegistrar and checkPrivate: one private address is enough.
Accepts(zone) == zone # {} /\ (cfg.allow \/ "private" \in zone)

Resolve ==
  IF Accepts(addrs)
  THEN /\ Go("resolve", IF cfg.echo THEN "agent" ELSE "preflight")
       /\ checked' = addrs
       /\ UNCHANGED <<why, env, cfg>>
  ELSE Refuse("resolve", "registrar")

\* Verified: the key is known to be worthless.
Rejected == cfg.key = "placeholder" \/ api = "denies"

\* A bug that goes on whatever the answer was.
PreflightWarns ==
  /\ Go("preflight", "agent")
  /\ UNCHANGED <<why, env, cfg, checked>>

\* A bug that waits for an answer without a deadline and without the context.
PreflightPatient ==
  \/ api = "silent" /\ phase = "preflight" /\ UNCHANGED daemonVars
  \/ Rejected /\ Refuse("preflight", "key")
  \/ /\ ~Rejected /\ api # "silent"
     /\ Go("preflight", "agent")
     /\ UNCHANGED <<why, env, cfg, checked>>

\* Preflight: only a rejected key is fatal.  Any other answer, none within 15 s,
\* or a signal that comes first, is survived with a warning.
Preflight ==
  \/ Rejected /\ Refuse("preflight", "key")
  \/ /\ ~Rejected \/ (stopped /\ cfg.key # "placeholder")
     /\ Go("preflight", "agent")
     /\ UNCHANGED <<why, env, cfg, checked>>

\* NewAgent and the test call's number; the URI of Agent.Run is parsed.
NewAgent ==
  \/ /\ cfg.test => cfg.number # "unset"
     /\ Go("agent", "serve")
     /\ UNCHANGED <<why, env, cfg, checked>>
  \/ cfg.test /\ cfg.number = "unset" /\ Refuse("agent", "number")
  \/ Refuse("agent", "agent")

---------------------------------------------------------------------------
(* Agent.Run *)

\* A REGISTER goes to an address the name resolves to now.
SendRegister == sent' \in {sent \union {z} : z \in addrs}

Registering ==
  /\ phase = "serve" /\ RegStep
  /\ IF reg' = "attempt" THEN SendRegister ELSE sent' = sent
  /\ UNCHANGED <<startVars, phase, why, addrs, moves, early>>

\* diago renews a registration that holds, before it expires.
Renews ==
  /\ phase = "serve" /\ reg = "registered"
  /\ SendRegister
  /\ UNCHANGED <<regVars, startVars, phase, why, addrs, moves, early>>

\* Run returns nil because the context is cancelled, or Serve's error.
RunStops ==
  /\ stopped
  /\ Go("serve", "exited")
  /\ UNCHANGED <<why, env, cfg, checked>>

ServeFails == Refuse("serve", "serving")

---------------------------------------------------------------------------
(* The world *)

Signalled ==
  /\ phase # "exited" /\ Signal
  /\ early' = (phase # "serve")
  /\ UNCHANGED <<startVars, phase, why, addrs, moves, sent>>

BoxComesAndGoes ==
  /\ phase # "exited" /\ BoxChanges
  /\ UNCHANGED <<startVars, phase, why, addrs, moves, sent, early>>

\* The name resolves to something else from now on.
NameMoves ==
  /\ phase # "exited"
  /\ \/ checked = {} /\ moves' = moves
     \/ checked # {} /\ moves < MaxMoves /\ moves' = moves + 1
  /\ addrs' \in Zone \ {{}, addrs}
  /\ UNCHANGED <<regVars, startVars, phase, why, sent, early>>

Gone == phase = "exited" /\ UNCHANGED daemonVars

StartUp == LoadDotEnv \/ Load \/ PickAddress \/ Resolve \/ Preflight \/ NewAgent

Next == \/ StartUp
        \/ Registering \/ Renews \/ RunStops \/ ServeFails
        \/ Signalled \/ BoxComesAndGoes \/ NameMoves
        \/ Gone

Spec == Init /\ [][Next]_daemonVars

\* Every step of start-up ends: DNS and the routing lookup by the resolver's
\* own time-outs, Preflight by its deadline.  The registration goroutine runs,
\* its timer fires, and Register does not return while the box answers nor
\* block for ever while it does not.  Run's select sees the context.
FairSpec == Spec /\ WF_daemonVars(StartUp) /\ WF_daemonVars(Registering) /\ WF_daemonVars(RunStops)

---------------------------------------------------------------------------
\* The operator asked for an external SIP provider.
OptedIn == EnvBool(env["allow"], FALSE)

\* "Refusing to send SIP credentials to a host outside your LAN": unless the
\* operator opted in, a REGISTER leaves the LAN only if the name moved after it
\* was checked or had a public address beside the private one (registrar.go:34-38
\* checks once and accepts any; every request resolves the name anew).
RegistersOnLan == "public" \in sent => OptedIn \/ moves > 0 \/ checked = {"private", "public"}

\* "The service should not pretend to answer calls" on a rejected key: the box
\* hears of the daemon only in echo mode or with a key nobody has rejected,
\* also when the signal hides the rejection; and a key nobody has rejected
\* never keeps the daemon from starting (preflight.go:19-22, main.go:89-98).
KeyVerdict == /\ sent # {} => cfg.echo \/ ~Rejected
              /\ why = "key" => Rejected

\* A daemon told to stop while it starts never registers (agent.go:123).
SilentAfterSignal == early => sent = {}

\* A signal ends the process whatever it was doing, with an API that never
\* answers as well (main.go:33, preflight.go:29, agent.go:111-113).
SignalEnds == stopped ~> phase = "exited"

\* "A Fritz!Box reboot does not take the service down" (agent.go:92-94): when
\* the box answers for good, a daemon that is not stopped ends up registered,
\* unless start-up refused or serving failed.
Recovers == <>[](box /\ ~stopped) => <>[](reg = "registered" \/ phase = "exited")

---------------------------------------------------------------------------
(* What documentation and tests say of the program and the code does not do. *)

\* "Set PHONELLM_ALLOW_PUBLIC_REGISTRAR=true if you really do mean an external
\* SIP provider" (registrar.go:44; README.md:48, config.go:26, and
\* registrar_test.go:34 for the check itself): a registrar that resolves is then
\* not refused.  Load never reads the variable.
OptInHonoured == why = "registrar" /\ addrs # {} => ~OptedIn
=============================================================================
