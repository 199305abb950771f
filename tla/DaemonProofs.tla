---------------------------- MODULE DaemonProofs ----------------------------
(***************************************************************************)
(* The process from start to end, for every environment, file and flag it  *)
(* may be started with, every behaviour of DNS and of the API, and any     *)
(* number of outages.                                                      *)
(***************************************************************************)
EXTENDS Daemon, RegistrationProofs, WellFoundedInduction, TLAPS

---------------------------------------------------------------------------
(* The daemon. *)

\* What run does before Agent.Run leaves the registration loop alone, and a
\* step of Agent.Run is one of the loop or leaves it alone.
LEMMA NextOfRegistration == [Next]_daemonVars => [RegNext]_regVars
<1> SUFFICES ASSUME [Next]_daemonVars PROVE RegNext \/ regVars' = regVars
  BY Zenon
<1>1. CASE StartUp
  BY <1>1, Zenon DEF StartUp, LoadDotEnv, Load, PickAddress, Resolve, Preflight, NewAgent, Refuse, Go
<1>2. CASE Registering \/ Renews
  BY <1>2, Zenon DEF Registering, Renews, RegNext
<1>3. CASE RunStops \/ ServeFails
  BY <1>3, Zenon DEF RunStops, ServeFails, Refuse, Go
<1>4. CASE Signalled \/ BoxComesAndGoes \/ NameMoves
  BY <1>4, Zenon DEF Signalled, BoxComesAndGoes, NameMoves, RegNext
<1>5. CASE Gone \/ UNCHANGED daemonVars
  BY <1>5, Zenon DEF Gone, daemonVars
<1> QED
  BY <1>1, <1>2, <1>3, <1>4, <1>5, Zenon DEF Next

\* The daemon runs the registration loop of Registration: what is proved of the
\* loop alone holds in the process, signals during start-up included.
THEOREM DaemonImplementsRegistration == Spec => RegSpec
<1>1. Init => RegInit
  BY DEF Init
<1> QED
  BY <1>1, NextOfRegistration, PTL DEF Spec, RegSpec

\* Ready is closed once, the waits follow the law and only a signal ends the
\* loop, in the process.
THEOREM DaemonRegistration ==
  Spec => []RegTypeOK /\ []ReadyOnce /\ BackoffLaw /\ []OnlySignalEnds /\ HoldsOn
  BY DaemonImplementsRegistration, RegistrationTypeOK, RegistrationReadyOnce,
     RegistrationBackoffLaw, RegistrationPersists, PTL

---------------------------------------------------------------------------
\* Before Agent.Run nothing has been registered; once a signal has come before
\* it nothing will be.
QuietInv ==
  /\ phase \notin {"serve", "exited"} => reg = "top" /\ sent = {} /\ why = "none"
  /\ stopped /\ phase \notin {"serve", "exited"} => early
  /\ early => stopped = TRUE /\ reg \in {"top", "done"} /\ sent = {}

\* The key passed Preflight, unless the signal got in its way or it was not asked.
KeyInv ==
  /\ phase \in {"agent", "serve"} => cfg.echo \/ ~Rejected \/ early
  /\ sent # {} => cfg.echo \/ ~Rejected
  /\ why = "key" => Rejected

\* The registrar passed the check, which knows no exception.
LanInv ==
  /\ cfg.allow = FALSE
  /\ addrs \in Zone /\ checked \in Zone /\ moves \in Nat
  /\ checked # {} => "private" \in checked
  /\ moves = 0 => checked = {} \/ addrs = checked
  /\ phase \in {"preflight", "agent", "serve"} => checked # {}
  /\ phase \in {"dotenv", "load", "bind", "resolve"} => checked = {} /\ moves = 0
  /\ "public" \in sent => moves > 0 \/ "public" \in checked

LEMMA QuietHolds == Spec => []QuietInv
<1>1. Init => QuietInv
  BY Zenon DEF Init, RegInit, QuietInv
<1>2. QuietInv /\ [Next]_daemonVars => QuietInv'
  <2> SUFFICES ASSUME QuietInv, [Next]_daemonVars PROVE QuietInv'
    OBVIOUS
  <2> USE DEF QuietInv
  <2>1. CASE StartUp
    <3>1. /\ phase \notin {"serve", "exited"}
          /\ UNCHANGED <<regVars, sent, early>>
          /\ phase' # "exited" => why' = why
      BY <2>1 DEF StartUp, LoadDotEnv, Load, PickAddress, Resolve, Preflight, NewAgent, Refuse, Go
    <3> QED
      BY <3>1 DEF regVars
  <2>2. CASE Registering
    <3>1. phase = "serve" /\ UNCHANGED <<phase, why, early>>
      BY <2>2 DEF Registering, startVars
    <3>2. stopped' = stopped
      BY <2>2 DEF Registering, RegStep, LoopTop, Registers, RegisterReturns, Retries, WaitStopped
    <3>3. ASSUME early PROVE reg' = "done" /\ sent' = sent
      BY <2>2, <3>3 DEF Registering, RegStep, LoopTop, Registers, RegisterReturns, Retries,
                        WaitStopped
    <3> QED
      BY <3>1, <3>2, <3>3
  <2>3. CASE Renews
    <3>1. phase = "serve" /\ ~early
      BY <2>3 DEF Renews
    <3>2. UNCHANGED <<phase, regVars, early>>
      BY <2>3 DEF Renews
    <3> QED
      BY <3>1, <3>2 DEF regVars
  <2>4. CASE RunStops \/ ServeFails
    <3>1. phase' = "exited" /\ UNCHANGED <<regVars, sent, early>>
      BY <2>4 DEF RunStops, ServeFails, Refuse, Go
    <3> QED
      BY <3>1 DEF regVars
  <2>5. CASE Signalled
    BY <2>5 DEF Signalled, Signal
  <2>6. CASE BoxComesAndGoes \/ NameMoves
    <3>1. UNCHANGED <<phase, why, stopped, reg, sent, early>>
      BY <2>6 DEF BoxComesAndGoes, NameMoves, BoxChanges, regVars
    <3> QED
      BY <3>1
  <2>7. CASE Gone \/ UNCHANGED daemonVars
    <3>1. UNCHANGED <<phase, why, stopped, reg, sent, early>>
      BY <2>7 DEF Gone, daemonVars, regVars
    <3> QED
      BY <3>1
  <2> QED
    BY <2>1, <2>2, <2>3, <2>4, <2>5, <2>6, <2>7, Zenon DEF Next
<1> QED
  BY <1>1, <1>2, PTL DEF Spec

\* A signal during start-up means silence: no REGISTER is ever sent.
THEOREM DaemonSilentAfterSignal == Spec => []SilentAfterSignal
<1>1. QuietInv => SilentAfterSignal
  BY DEF QuietInv, SilentAfterSignal
<1> QED
  BY <1>1, QuietHolds, PTL
---------------------------------------------------------------------------
LEMMA KeyHolds == Spec => []KeyInv
<1>1. Init => KeyInv
  BY DEF Init, KeyInv
<1>2. QuietInv /\ KeyInv /\ [Next]_daemonVars => KeyInv'
  <2> SUFFICES ASSUME QuietInv, KeyInv, [Next]_daemonVars PROVE KeyInv'
    OBVIOUS
  <2>1. CASE LoadDotEnv \/ Load \/ PickAddress \/ Resolve
    <3>1. sent' = {} /\ why' # "key"
      BY <2>1 DEF QuietInv, LoadDotEnv, Load, PickAddress, Resolve, Refuse, Go
    <3>2. phase' \in {"agent", "serve"} => cfg'.echo
      BY <2>1, Zenon DEF LoadDotEnv, Load, PickAddress, Resolve, Refuse, Go
    <3> QED
      BY <3>1, <3>2, Zenon DEF KeyInv
  <2>2. CASE Preflight
    <3>1. sent' = {} /\ UNCHANGED <<cfg, api, early>> /\ phase = "preflight"
      BY <2>2 DEF QuietInv, Preflight, Refuse, Go
    <3>2. Rejected' = Rejected
      BY <3>1 DEF Rejected
    <3>3. why' = "key" => Rejected
      BY <2>2 DEF KeyInv, Preflight, Refuse, Go
    <3>4. phase' \in {"agent", "serve"} => ~Rejected \/ early
      BY <2>2 DEF QuietInv, Preflight, Refuse, Go
    <3> QED
      BY <3>1, <3>2, <3>3, <3>4, Zenon DEF KeyInv
  <2>3. CASE NewAgent
    <3>1. sent' = {} /\ UNCHANGED <<cfg, api, early>> /\ why' # "key" /\ phase = "agent"
      BY <2>3 DEF QuietInv, NewAgent, Refuse, Go
    <3>2. Rejected' = Rejected
      BY <3>1 DEF Rejected
    <3> QED
      BY <3>1, <3>2, Zenon DEF KeyInv
  <2>4. CASE Registering \/ Renews
    <3>1. phase = "serve" /\ UNCHANGED <<cfg, api, early, why, phase>>
      BY <2>4 DEF Registering, Renews, startVars
    <3>2. Rejected' = Rejected
      BY <3>1 DEF Rejected
    <3>3. early => sent' = {}
      BY <2>4 DEF QuietInv, Registering, Renews, RegStep, LoopTop, Registers, RegisterReturns,
                  Retries, WaitStopped
    <3> QED
      BY <3>1, <3>2, <3>3, Zenon DEF KeyInv
  <2>5. CASE RunStops \/ ServeFails
    <3>1. phase' = "exited" /\ UNCHANGED <<cfg, api, sent>> /\ why' \in {why, "serving"}
      BY <2>5 DEF RunStops, ServeFails, Refuse, Go
    <3>2. Rejected' = Rejected
      BY <3>1 DEF Rejected
    <3> QED
      BY <3>1, <3>2, Zenon DEF KeyInv
  <2>6. CASE Signalled
    <3>1. /\ UNCHANGED <<cfg, api, sent, why, phase>>
          /\ phase = "serve" \/ early'
      BY <2>6, Zenon DEF Signalled, startVars
    <3>2. Rejected' = Rejected
      BY <3>1 DEF Rejected
    <3>3. phase = "serve" /\ early => FALSE
      BY <2>6 DEF QuietInv, Signalled, Signal
    <3> QED
      BY <3>1, <3>2, <3>3, Zenon DEF KeyInv
  <2>7. CASE BoxComesAndGoes \/ NameMoves \/ Gone \/ UNCHANGED daemonVars
    <3>1. UNCHANGED <<cfg, api, sent, why, phase, early>>
      BY <2>7 DEF BoxComesAndGoes, NameMoves, Gone, daemonVars, startVars
    <3>2. Rejected' = Rejected
      BY <3>1 DEF Rejected
    <3> QED
      BY <3>1, <3>2, Zenon DEF KeyInv
  <2> QED
    BY <2>1, <2>2, <2>3, <2>4, <2>5, <2>6, <2>7, Zenon DEF Next, StartUp
<1> QED
  BY <1>1, <1>2, QuietHolds, PTL DEF Spec

\* The box never hears of a daemon whose key was rejected, and no other key
\* keeps it from starting.
THEOREM DaemonKeyVerdict == Spec => []KeyVerdict
<1>1. KeyInv => KeyVerdict
  BY DEF KeyInv, KeyVerdict
<1> QED
  BY <1>1, KeyHolds, PTL

---------------------------------------------------------------------------
LEMMA LanHolds == Spec => []LanInv
<1>1. Init => LanInv
  BY DaemonAssumption DEF Init, LanInv, Zone
<1>2. QuietInv /\ LanInv /\ [Next]_daemonVars => LanInv'
  <2> SUFFICES ASSUME QuietInv, LanInv, [Next]_daemonVars PROVE LanInv'
    OBVIOUS
  <2> USE DEF LanInv
  <2>1. CASE LoadDotEnv \/ Load \/ PickAddress
    <3>1. /\ UNCHANGED <<addrs, checked, moves, sent>>
          /\ phase \in {"dotenv", "load", "bind"}
          /\ phase' \in {"load", "bind", "resolve", "exited"}
      BY <2>1 DEF LoadDotEnv, Load, PickAddress, Refuse, Go
    <3>2. cfg'.allow = FALSE
      BY <2>1 DEF LoadDotEnv, Load, Loaded, PickAddress, Refuse, Go
    <3> QED
      BY <3>1, <3>2
  <2>2. CASE Resolve
    <3>1. UNCHANGED <<cfg, addrs, moves, sent>> /\ phase = "resolve"
      BY <2>2 DEF Resolve, Refuse, Go
    <3>2. sent = {}
      BY <3>1 DEF QuietInv
    <3>3. \/ /\ "private" \in addrs /\ checked' = addrs
             /\ phase' \in {"agent", "preflight"}
          \/ phase' = "exited" /\ checked' = checked
      BY <2>2 DEF Resolve, Accepts, Refuse, Go
    <3> QED
      BY <3>1, <3>2, <3>3
  <2>3. CASE Preflight \/ NewAgent \/ RunStops \/ ServeFails
    <3>1. /\ UNCHANGED <<cfg, addrs, checked, moves, sent>>
          /\ phase \in {"preflight", "agent", "serve"}
          /\ phase' \in {"agent", "serve", "exited"}
      BY <2>3 DEF Preflight, NewAgent, RunStops, ServeFails, Refuse, Go
    <3> QED
      BY <3>1
  <2>4. CASE Registering \/ Renews
    <3>1. /\ phase = "serve"
          /\ UNCHANGED <<cfg, addrs, checked, moves, phase>>
          /\ sent' = sent \/ \E z \in addrs : sent' = sent \union {z}
      BY <2>4 DEF Registering, Renews, SendRegister, startVars
    <3>2. "public" \in sent' => "public" \in sent \/ "public" \in addrs
      BY <3>1
    <3> QED
      BY <3>1, <3>2
  <2>5. CASE NameMoves
    <3>1. /\ UNCHANGED <<cfg, checked, sent, phase>>
          /\ addrs' \in Zone
          /\ \/ checked = {} /\ moves' = moves
             \/ checked # {} /\ moves' = moves + 1
      BY <2>5 DEF NameMoves, startVars
    <3> QED
      BY <3>1
  <2>6. CASE Signalled \/ BoxComesAndGoes \/ Gone \/ UNCHANGED daemonVars
    <3>1. UNCHANGED <<cfg, addrs, checked, moves, sent, phase>>
      BY <2>6 DEF Signalled, BoxComesAndGoes, Gone, daemonVars, startVars
    <3> QED
      BY <3>1
  <2> QED
    BY <2>1, <2>2, <2>3, <2>4, <2>5, <2>6, Zenon DEF Next, StartUp
<1> QED
  BY <1>1, <1>2, QuietHolds, PTL DEF Spec

\* Unless the operator opted in, a REGISTER leaves the LAN only after the name has
\* moved, or when it already had addresses of both kinds.
THEOREM DaemonRegistersOnLan == Spec => []RegistersOnLan
<1>1. LanInv => RegistersOnLan
  BY DEF LanInv, RegistersOnLan, Zone
<1> QED
  BY <1>1, LanHolds, PTL
---------------------------------------------------------------------------
\* A set of line numbers that is not empty has a last one.
LEMMA LastExists ==
  ASSUME NEW n \in Nat, NEW S \in SUBSET (1..n), S # {}
  PROVE  \E i \in S : \A j \in S : j <= i
<1> DEFINE R == {ss \in Nat \X Nat : ss[1] < ss[2]}
           T == {n - i : i \in S}
<1>1. IsWellFoundedOn(R, Nat)
  BY NatLessThanWellFounded DEF OpToRel
<1>2. T \subseteq Nat /\ T # {}
  <2>1. \A i \in S : i \in 1..n /\ n - i \in Nat
    OBVIOUS
  <2> QED
    BY <2>1
<1>3. PICK x \in T : \A y \in T : <<y, x>> \notin R
  <2> HIDE DEF R, T
  <2> QED
    BY <1>1, <1>2, WFMin
<1>4. PICK i \in S : x = n - i
  OBVIOUS
<1>5. ASSUME NEW j \in S PROVE j <= i
  <2>1. n - j \in T
    OBVIOUS
  <2>2. ~(n - j < n - i)
    BY <1>2, <1>3, <1>4, <2>1
  <2> QED
    BY <2>2
<1> QED
  BY <1>5

\* Applying a file without bad lines gives an environment again.
LEMMA AppliedType ==
  ASSUME NEW shell \in [Keys -> Values], NEW lines \in Seq(Line)
  PROVE  Applied(shell, lines) \in [Keys -> Values]
<1> SUFFICES ASSUME NEW k \in Keys
             PROVE LET at == {i \in DOMAIN lines : lines[i].key = k}
                   IN  (IF at = {} THEN shell[k]
                        ELSE lines[CHOOSE i \in at : \A j \in at : j <= i].value) \in Values
  BY DEF Applied
<1> DEFINE at == {i \in DOMAIN lines : lines[i].key = k}
           last == CHOOSE i \in at : \A j \in at : j <= i
<1>1. CASE at = {}
  BY <1>1
<1>2. CASE at # {}
  <2>1. Len(lines) \in Nat /\ at \in SUBSET (1..Len(lines))
    OBVIOUS
  <2>2. \E i \in at : \A j \in at : j <= i
    <3> HIDE DEF at
    <3> QED
      BY <1>2, <2>1, LastExists
  <2>3. last \in at
    <3> HIDE DEF at
    <3> QED
      BY <2>2
  <2>4. lines[last] \in Line
    <3>1. last \in DOMAIN lines
      BY <2>3
    <3> HIDE DEF last
    <3> QED
      BY <3>1
  <2>5. lines[last].value \in Values
    <3> HIDE DEF last
    <3> QED
      BY <2>4 DEF Line
  <2> QED
    BY <1>2, <2>5
<1> QED
  BY <1>1, <1>2

\* Type correctness of run: settings, configuration, DNS answers and history.
DaemonOwn ==
  /\ boot \in Boots /\ env \in [Keys -> Values]
  /\ phase \in Phases /\ why \in Causes
  /\ addrs \in Zone /\ checked \in Zone /\ sent \in Zone
  /\ moves \in 0..MaxMoves
  /\ api \in {"ok", "denies", "broken", "silent"}

LEMMA DaemonOwnHolds == Spec => []DaemonOwn
<1>1. Init => DaemonOwn
  <2> SUFFICES ASSUME Init PROVE DaemonOwn
    OBVIOUS
  <2>1. boot \in Boot /\ env = boot.shell
    BY DaemonAssumption DEF Init
  <2>2. env \in [Keys -> Values]
    BY <2>1 DEF Boot
  <2>3. moves \in 0..MaxMoves
    BY DaemonAssumption DEF Init
  <2> QED
    BY <2>2, <2>3, DaemonAssumption DEF Init, DaemonOwn, Phases, Causes, Zone
<1>2. DaemonOwn /\ [Next]_daemonVars => DaemonOwn'
  <2> SUFFICES ASSUME DaemonOwn, [Next]_daemonVars PROVE DaemonOwn'
    OBVIOUS
  <2> USE DEF DaemonOwn, Phases, Causes
  <2>1. CASE LoadDotEnv
    <3>1. Applied(boot.shell, boot.file) \in [Keys -> Values]
      <4>1. boot \in Boot
        BY DaemonAssumption
      <4>2. boot.shell \in [Keys -> Values] /\ boot.file \in Seq(Line)
        BY <4>1 DEF Boot
      <4> QED
        BY <4>2, AppliedType
    <3> QED
      BY <2>1, <3>1 DEF LoadDotEnv, Refuse, Go
  <2>2. CASE Load \/ PickAddress \/ Resolve
    BY <2>2 DEF Load, PickAddress, Resolve, Refuse, Go
  <2>3. CASE Preflight \/ NewAgent \/ RunStops \/ ServeFails
    BY <2>3 DEF Preflight, NewAgent, RunStops, ServeFails, Refuse, Go
  <2>4. CASE Registering \/ Renews
    <3>1. sent' = sent \/ \E z \in addrs : sent' = sent \union {z}
      BY <2>4 DEF Registering, Renews, SendRegister
    <3>2. sent' \in Zone
      BY <3>1 DEF Zone
    <3> QED
      BY <2>4, <3>2 DEF Registering, Renews, startVars
  <2>5. CASE NameMoves
    <3>1. moves' \in 0..MaxMoves
      BY <2>5, DaemonAssumption DEF NameMoves
    <3> QED
      BY <2>5, <3>1 DEF NameMoves, startVars
  <2>6. CASE Signalled \/ BoxComesAndGoes \/ Gone \/ UNCHANGED daemonVars
    BY <2>6 DEF Signalled, BoxComesAndGoes, Gone, daemonVars, startVars
  <2> QED
    BY <2>1, <2>2, <2>3, <2>4, <2>5, <2>6, Zenon DEF Next, StartUp
<1> QED
  BY <1>1, <1>2, PTL DEF Spec

\* Type correctness of the process.
THEOREM DaemonTypeOK == Spec => []TypeOK
<1> DEFINE Rest == cfg \in Config /\ early \in BOOLEAN
<1>1. Init => Rest
  <2>1. Unread \in Values
    BY DEF Unread, Values
  <2>2. \A v \in Values : [key |-> v, echo |-> FALSE, allow |-> FALSE, bind |-> v,
                           test |-> FALSE, number |-> v] \in Config
    BY Zenon DEF Config
  <2> QED
    BY <2>1, <2>2, Zenon DEF Init
<1>2. DaemonOwn /\ Rest /\ [Next]_daemonVars => Rest'
  <2> SUFFICES ASSUME DaemonOwn, Rest, [Next]_daemonVars PROVE Rest'
    OBVIOUS
  <2>1. CASE Load
    <3>1. Loaded(env) \in Config
      <4>1. \A k \in Keys : env[k] \in Values
        BY DEF DaemonOwn
      <4>2. \A v \in Values : EnvBool(v, FALSE) \in BOOLEAN
        BY DEF EnvBool
      <4> QED
        BY <4>1, <4>2, Zenon DEF Loaded, Config, Keys
    <3> QED
      BY <2>1, <3>1 DEF Load, Refuse, Go, Config
  <2>2. CASE LoadDotEnv \/ PickAddress \/ Resolve \/ Preflight \/ NewAgent
    BY <2>2, Zenon DEF LoadDotEnv, PickAddress, Resolve, Preflight, NewAgent, Refuse, Go
  <2>3. CASE Registering \/ Renews \/ RunStops \/ ServeFails
    BY <2>3, Zenon DEF Registering, Renews, RunStops, ServeFails, Refuse, Go, startVars
  <2>4. CASE Signalled \/ BoxComesAndGoes \/ NameMoves \/ Gone \/ UNCHANGED daemonVars
    BY <2>4, Zenon DEF Signalled, BoxComesAndGoes, NameMoves, Gone, daemonVars, startVars
  <2> QED
    BY <2>1, <2>2, <2>3, <2>4, Zenon DEF Next, StartUp
<1>3. RegTypeOK /\ DaemonOwn /\ Rest => TypeOK
  BY Zenon DEF DaemonOwn, TypeOK
<1> QED
  BY <1>1, <1>2, <1>3, DaemonOwnHolds, DaemonRegistration, PTL DEF Spec
=============================================================================
