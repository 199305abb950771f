--------------------------- MODULE NotifierProofs ---------------------------
(***************************************************************************)
(* The safety of Notifier for any number of calls, any configuration,      *)
(* world and pair of limits that satisfies the assumptions.                *)
(***************************************************************************)
EXTENDS Notifier, TLAPS

USE DEF Past, Places

\* Type correctness: each handler's time stays within the limit, each file
\* holds one call's transcript, part of one, or nothing.
THEOREM NotifierTypeOK == Spec => []TypeOK
<1>1. Init => TypeOK
  <2> SUFFICES ASSUME Init PROVE TypeOK
    OBVIOUS
  <2>1. elapsed \in [Calls -> 0..Limit]
    BY LimitAssumption DEF Init
  <2>2. second \in 0..MaxSecond
    BY NotifierAssumption DEF Init
  <2> QED
    BY <2>1, <2>2 DEF Init, TypeOK
<1>2. TypeOK /\ [Next]_vars => TypeOK'
  <2> SUFFICES ASSUME TypeOK, [Next]_vars PROVE TypeOK'
    OBVIOUS
  <2> USE NotifierAssumption, LimitAssumption DEF TypeOK, Go
  <2>1. ASSUME NEW c \in Calls, Begin(c) PROVE TypeOK'
    BY <2>1 DEF Begin
  <2>2. ASSUME NEW c \in Calls, Save(c) PROVE TypeOK'
    <3>1. FileName(c) \in FileNames
      BY DEF FileName, FileNames
    <3>2. files' \in [FileNames -> Calls \union {Nothing, "partial"}]
      BY <2>2, <3>1 DEF Save
    <3>3. saved' \in [Calls -> FileNames \union {Nothing}]
      BY <2>2, <3>1 DEF Save
    <3>4. elapsed' \in [Calls -> 0..Limit]
      <4>1. PICK d \in 0..DiskTime : elapsed' = [elapsed EXCEPT ![c] = d]
        BY <2>2 DEF Save
      <4>2. d \in 0..Limit
        OBVIOUS
      <4> QED
        BY <4>1, <4>2
    <3> QED
      BY <2>2, <3>2, <3>3, <3>4 DEF Save
  <2>3. ASSUME NEW c \in Calls, NEW s, NEW answered, Request(c, s, answered)
        PROVE elapsed' \in [Calls -> 0..Limit]
    <3>1. PICK d \in Waits(s) : elapsed' = [elapsed EXCEPT ![c] = IF @ + d < Limit THEN @ + d ELSE Limit]
      BY <2>3 DEF Request
    <3>2. d \in Nat
      BY DEF Waits
    <3> QED
      BY <3>1, <3>2
  <2>4. ASSUME NEW c \in Calls, Summarize(c) PROVE TypeOK'
    <3>1. elapsed' \in [Calls -> 0..Limit]
      BY <2>4, <2>3 DEF Summarize
    <3>2. summary' \in [Calls -> {"none", "summary", "transcript"}]
      BY <2>4 DEF Summarize
    <3> QED
      BY <2>4, <3>1, <3>2 DEF Summarize
  <2>5. ASSUME NEW c \in Calls, Telegram(c) PROVE TypeOK'
    <3>1. elapsed' \in [Calls -> 0..Limit]
      BY <2>5, <2>3 DEF Telegram
    <3>2. got' \in [Calls -> SUBSET {"telegram", "smtp"}]
      BY <2>5 DEF Telegram
    <3> QED
      BY <2>5, <3>1, <3>2 DEF Telegram
  <2>6. ASSUME NEW c \in Calls, Email(c) PROVE TypeOK'
    BY <2>6 DEF Email
  <2>7. CASE Second
    BY <2>7 DEF Second
  <2>8. CASE Exit
    BY <2>8 DEF Exit
  <2>9. CASE Rest \/ UNCHANGED vars
    BY <2>9 DEF Rest, vars
  <2> QED
    BY <2>1, <2>2, <2>4, <2>5, <2>6, <2>7, <2>8, <2>9 DEF Next, Step
<1> QED
  BY <1>1, <1>2, PTL DEF Spec

---------------------------------------------------------------------------
\* How much of the two minutes may be gone in each place.
ElapsedInv ==
  \A c \in Calls :
    /\ at[c] \in {"call", "save"} => elapsed[c] = 0
    /\ at[c] = "summarize" => elapsed[c] <= DiskTime
    /\ at[c] = "telegram" => elapsed[c] <= DiskTime + HttpTimeout
    /\ elapsed[c] <= DiskTime + HttpTimeout + HttpTimeout

\* A request that starts with enough time left takes at most the client's
\* timeout, and is answered exactly when the service works.
LEMMA RequestTakes ==
  ASSUME TypeOK, NEW c \in Calls, NEW s, NEW answered \in BOOLEAN,
         Request(c, s, answered), elapsed[c] + HttpTimeout < Limit
  PROVE /\ \A e \in Calls \ {c} : elapsed'[e] = elapsed[e]
        /\ elapsed[c] \in Nat /\ elapsed'[c] \in Nat
        /\ elapsed'[c] <= elapsed[c] + HttpTimeout
        /\ answered = (s \in world.works)
<1>1. PICK d \in Waits(s) :
        /\ elapsed' = [elapsed EXCEPT ![c] = IF @ + d < Limit THEN @ + d ELSE Limit]
        /\ answered = (s \in world.works /\ elapsed[c] + d < Limit)
  BY DEF Request
<1>2. d \in Nat /\ d <= HttpTimeout
  BY LimitAssumption DEF Waits
<1>3. elapsed[c] \in Nat /\ elapsed[c] + d < Limit
  BY <1>2, LimitAssumption DEF TypeOK
<1>4. answered = (s \in world.works)
  BY <1>1, <1>3
<1> QED
  BY <1>1, <1>2, <1>3, <1>4, LimitAssumption DEF TypeOK

\* The time spent in front of each step.
LEMMA ElapsedHolds == Spec => []ElapsedInv
<1>1. Init => ElapsedInv
  <2> SUFFICES ASSUME Init, NEW c \in Calls
               PROVE /\ at[c] = "call" /\ elapsed[c] = 0
                     /\ 0 <= DiskTime /\ 0 <= DiskTime + HttpTimeout
                     /\ 0 <= DiskTime + HttpTimeout + HttpTimeout
    BY DEF ElapsedInv
  <2>1. at[c] = "call" /\ elapsed[c] = 0
    BY DEF Init
  <2> QED
    BY <2>1, LimitAssumption
<1>2. TypeOK /\ ElapsedInv /\ [Next]_vars => ElapsedInv'
  <2> SUFFICES ASSUME TypeOK, ElapsedInv, [Next]_vars PROVE ElapsedInv'
    OBVIOUS
  <2> USE LimitAssumption DEF TypeOK, ElapsedInv, Go
  <2>1. ASSUME NEW c \in Calls, Begin(c) PROVE ElapsedInv'
    BY <2>1 DEF Begin
  <2>2. ASSUME NEW c \in Calls, Save(c) PROVE ElapsedInv'
    <3>1. PICK d \in 0..DiskTime : elapsed' = [elapsed EXCEPT ![c] = d]
      BY <2>2 DEF Save
    <3> QED
      BY <2>2, <3>1 DEF Save
  <2>3. ASSUME NEW c \in Calls, Summarize(c) PROVE ElapsedInv'
    <3>1. CASE cfg.key
      <4>1. PICK answered \in BOOLEAN : Request(c, "api", answered)
        BY <2>3, <3>1 DEF Summarize
      <4>2. elapsed[c] + HttpTimeout < Limit
        BY <2>3 DEF Summarize
      <4>3. /\ \A e \in Calls \ {c} : elapsed'[e] = elapsed[e]
            /\ elapsed[c] \in Nat /\ elapsed'[c] \in Nat
            /\ elapsed'[c] <= elapsed[c] + HttpTimeout
        BY <4>1, <4>2, RequestTakes
      <4>4. at[c] = "summarize" /\ at' = [at EXCEPT ![c] = "telegram"]
        BY <2>3 DEF Summarize
      <4>5. \A e \in Calls \ {c} : at'[e] = at[e]
        BY <4>4
      <4>6. /\ elapsed[c] <= DiskTime + (IF at[c] = "telegram" THEN HttpTimeout ELSE 0)
            /\ at'[c] = "telegram"
        BY <4>4
      <4> QED
        BY <4>3, <4>4, <4>5, <4>6
    <3>2. CASE ~cfg.key
      BY <2>3, <3>2 DEF Summarize
    <3> QED
      BY <3>1, <3>2
  <2>4. ASSUME NEW c \in Calls, Telegram(c) PROVE ElapsedInv'
    <3>1. CASE cfg.telegram
      <4>1. PICK answered \in BOOLEAN : Request(c, "telegram", answered)
        BY <2>4, <3>1 DEF Telegram
      <4>2. elapsed[c] + HttpTimeout < Limit
        BY <2>4 DEF Telegram
      <4>3. /\ \A e \in Calls \ {c} : elapsed'[e] = elapsed[e]
            /\ elapsed[c] \in Nat /\ elapsed'[c] \in Nat
            /\ elapsed'[c] <= elapsed[c] + HttpTimeout
        BY <4>1, <4>2, RequestTakes
      <4>4. at[c] = "telegram" /\ at' = [at EXCEPT ![c] = "email"]
        BY <2>4 DEF Telegram
      <4>5. \A e \in Calls \ {c} : at'[e] = at[e]
        BY <4>4
      <4>6. /\ elapsed[c] <= DiskTime + (IF at[c] = "telegram" THEN HttpTimeout ELSE 0)
            /\ at'[c] = "email"
        BY <4>4
      <4> QED
        BY <4>3, <4>4, <4>5, <4>6
    <3>2. CASE ~cfg.telegram
      BY <2>4, <3>2 DEF Telegram
    <3> QED
      BY <3>1, <3>2
  <2>5. ASSUME NEW c \in Calls, Email(c) PROVE ElapsedInv'
    BY <2>5 DEF Email
  <2>6. CASE Second \/ Exit \/ Rest \/ UNCHANGED vars
    BY <2>6 DEF Second, Exit, Rest, vars
  <2> QED
    BY <2>1, <2>2, <2>3, <2>4, <2>5, <2>6 DEF Next, Step
<1> QED
  BY <1>1, <1>2, NotifierTypeOK, PTL DEF Spec

\* No request ever starts with less than the client's timeout left, for every
\* pair of limits of which the longer exceeds twice the shorter and the disk.
THEOREM NotifierLimitNeverBites == Spec => []LimitNeverBites
<1>1. TypeOK /\ ElapsedInv => LimitNeverBites
  <2> SUFFICES ASSUME TypeOK, ElapsedInv, NEW c \in Calls
               PROVE /\ at[c] \in {"summarize", "telegram"} => elapsed[c] + HttpTimeout < Limit
                     /\ elapsed[c] < Limit
    BY DEF LimitNeverBites
  <2>1. elapsed[c] \in Nat
    BY LimitAssumption DEF TypeOK
  <2>2. /\ at[c] = "summarize" => elapsed[c] <= DiskTime
        /\ at[c] = "telegram" => elapsed[c] <= DiskTime + HttpTimeout
        /\ elapsed[c] <= DiskTime + HttpTimeout + HttpTimeout
    BY DEF ElapsedInv
  <2> QED
    BY <2>1, <2>2, LimitAssumption
<1> QED
  BY <1>1, NotifierTypeOK, ElapsedHolds, PTL

---------------------------------------------------------------------------
\* What has been delivered in each place.
GotInv ==
  \A c \in Calls :
    /\ at[c] \in {"call", "save", "summarize", "telegram"} => got[c] = {}
    /\ at[c] = "email" => got[c] = Working \ {"smtp"}
    /\ at[c] = "done" => got[c] = Working

\* A message reaches exactly the configured channels that work, whatever the
\* other steps do.
THEOREM NotifierBestEffort == Spec => []BestEffort
<1>1. Init => GotInv
  BY DEF Init, GotInv
<1>2. TypeOK /\ ElapsedInv /\ GotInv /\ [Next]_vars => GotInv'
  <2> SUFFICES ASSUME TypeOK, ElapsedInv, GotInv, [Next]_vars PROVE GotInv'
    OBVIOUS
  <2>0. (~UNCHANGED <<cfg, world>> => FALSE) /\ Working' = Working
    BY DEF Next, Step, Begin, Save, Summarize, Telegram, Email, Go, Second, Exit, Rest, vars, Working
  <2>1. ASSUME NEW c \in Calls, Begin(c) \/ Save(c) \/ Summarize(c) PROVE GotInv'
    BY <2>0, <2>1 DEF TypeOK, GotInv, Begin, Save, Summarize, Go
  <2>2. ASSUME NEW c \in Calls, Telegram(c) PROVE GotInv'
    <3>1. elapsed[c] + HttpTimeout < Limit
      BY <2>2, LimitAssumption DEF TypeOK, ElapsedInv, Telegram, Go
    <3>2. PICK answered \in BOOLEAN :
            /\ IF cfg.telegram THEN Request(c, "telegram", answered)
                               ELSE answered = FALSE /\ UNCHANGED elapsed
            /\ got' = IF answered THEN [got EXCEPT ![c] = @ \union {"telegram"}] ELSE got
      BY <2>2 DEF Telegram
    <3>3. answered = (cfg.telegram /\ "telegram" \in world.works)
      <4>1. cfg.telegram \in BOOLEAN
        BY NotifierAssumption DEF TypeOK, Config
      <4>2. CASE cfg.telegram
        <5>1. answered = ("telegram" \in world.works)
          BY <3>1, <3>2, <4>2, RequestTakes
        <5> QED
          BY <5>1, <4>2
      <4>3. CASE ~cfg.telegram
        BY <3>2, <4>3
      <4> QED
        BY <4>1, <4>2, <4>3
    <3>4. Working \ {"smtp"} = IF answered THEN {"telegram"} ELSE {}
      BY <3>3 DEF Working
    <3>5. got[c] = {} /\ at[c] = "telegram" /\ at' = [at EXCEPT ![c] = "email"]
      BY <2>2 DEF GotInv, Telegram, Go
    <3>6. got' = [got EXCEPT ![c] = Working \ {"smtp"}]
      BY <3>2, <3>4, <3>5 DEF TypeOK
    <3> QED
      BY <2>0, <3>5, <3>6 DEF TypeOK, GotInv
  <2>3. ASSUME NEW c \in Calls, Email(c) PROVE GotInv'
    <3>1. got[c] = Working \ {"smtp"}
      BY <2>3 DEF GotInv, Email, Go
    <3>2. got' = [got EXCEPT ![c] = Working]
      <4>2. CASE cfg.smtp /\ "smtp" \in world.works
        <5>1. Working = got[c] \union {"smtp"}
          BY <3>1, <4>2 DEF Working
        <5> QED
          BY <2>3, <4>2, <5>1 DEF Email, TypeOK
      <4>3. CASE ~(cfg.smtp /\ "smtp" \in world.works)
        <5>1. Working = got[c]
          BY <3>1, <4>3 DEF Working
        <5> QED
          BY <2>3, <4>3, <5>1 DEF Email, TypeOK
      <4> QED
        BY <4>2, <4>3
    <3> QED
      BY <2>0, <2>3, <3>2 DEF TypeOK, GotInv, Email, Go
  <2>4. CASE Second \/ Exit \/ Rest \/ UNCHANGED vars
    BY <2>0, <2>4 DEF GotInv, Second, Exit, Rest, vars
  <2> QED
    BY <2>1, <2>2, <2>3, <2>4 DEF Next, Step
<1>3. GotInv => BestEffort
  BY DEF GotInv, BestEffort
<1> QED
  BY <1>1, <1>2, <1>3, NotifierTypeOK, ElapsedHolds, PTL DEF Spec

---------------------------------------------------------------------------
\* A call is saved in the step it leaves "save" by, under a name with its own
\* caller in it, and what is in that file later came from one of that name.
SavedInv ==
  \A c \in Calls :
    /\ at[c] \notin Past => saved[c] = Nothing
    /\ at[c] \in Past /\ cfg.dir /\ "disk" \in world.works => saved[c] # Nothing
    /\ saved[c] # Nothing =>
         /\ saved[c][2] = Peer[c]
         /\ \/ files[saved[c]] = c
            \/ \E d \in Calls \ {c} : /\ Peer[d] = Peer[c] /\ at[d] \in Past
                                      /\ files[saved[c]] \in {d, "partial"}

\* The transcript is on disk before anything slow begins, and only a call of the
\* same caller in the same second takes its file.
THEOREM NotifierSavedBeforeTold == Spec => []SavedBeforeTold
<1>1. Init => SavedInv
  <2> SUFFICES ASSUME Init, NEW c \in Calls
               PROVE at[c] = "call" /\ saved[c] = Nothing
    BY Zenon DEF SavedInv
  <2> QED
    BY DEF Init
<1>2. TypeOK /\ SavedInv /\ [Next]_vars => SavedInv'
  <2> SUFFICES ASSUME TypeOK, SavedInv, [Next]_vars PROVE SavedInv'
    OBVIOUS
  <2>1. ASSUME NEW c \in Calls, Save(c) PROVE SavedInv'
    <3> DEFINE n == FileName(c)
    <3>2. n \in FileNames /\ n[2] = Peer[c]
      BY NotifierAssumption DEF FileName, FileNames, TypeOK
    <3>3. /\ at[c] = "save" /\ at' = [at EXCEPT ![c] = "summarize"]
          /\ UNCHANGED <<cfg, world>>
      BY <2>1 DEF Save, Go
    <3>4. saved[c] = Nothing
      BY <3>3 DEF SavedInv
    <3>5. ASSUME NEW e \in Calls \ {c}, saved[e] # Nothing
          PROVE \/ files'[saved[e]] = files[saved[e]]
                \/ Peer[c] = Peer[e] /\ files'[saved[e]] \in {c, "partial"}
      <4>1. saved[e] \in FileNames /\ saved[e][2] = Peer[e]
        BY <3>5 DEF SavedInv, TypeOK
      <4>2. \E v \in {c, "partial"} : files' = [files EXCEPT ![n] = v] \/ files' = files
        BY <2>1 DEF Save
      <4>3. CASE saved[e] = n
        BY <3>2, <4>1, <4>2, <4>3 DEF TypeOK
      <4>4. CASE saved[e] # n
        BY <4>1, <4>2, <4>4 DEF TypeOK
      <4> QED
        BY <4>3, <4>4
    <3>6. ASSUME NEW e \in Calls \ {c}, saved[e] # Nothing
          PROVE \/ files'[saved[e]] = e
                \/ \E d \in Calls \ {e} : /\ Peer[d] = Peer[e] /\ at'[d] \in Past
                                          /\ files'[saved[e]] \in {d, "partial"}
      <4>1. CASE files'[saved[e]] = files[saved[e]]
        <5>1. \/ files[saved[e]] = e
              \/ \E d \in Calls \ {e} : /\ Peer[d] = Peer[e] /\ at[d] \in Past
                                        /\ files[saved[e]] \in {d, "partial"}
          BY <3>6 DEF SavedInv
        <5>2. \A d \in Calls : at[d] \in Past => at'[d] \in Past
          BY <3>3 DEF TypeOK
        <5> QED
          BY <4>1, <5>1, <5>2
      <4>2. CASE Peer[c] = Peer[e] /\ files'[saved[e]] \in {c, "partial"}
        <5>1. at'[c] \in Past
          BY <3>3 DEF TypeOK
        <5> QED
          BY <4>2, <5>1
      <4> QED
        BY <3>5, <3>6, <4>1, <4>2
    <3>7. \/ /\ cfg.dir
             /\ files' = [files EXCEPT ![n] = c]
             /\ saved' = [saved EXCEPT ![c] = n]
          \/ saved' = saved /\ (cfg.dir => "disk" \notin world.works)
      BY <2>1 DEF Save
    <3>8. \A e \in Calls \ {c} : saved'[e] = saved[e] /\ at'[e] = at[e]
      BY <3>3, <3>7 DEF TypeOK
    <3>9. /\ at'[c] = "summarize"
          /\ cfg.dir /\ "disk" \in world.works => saved'[c] # Nothing
          /\ saved'[c] # Nothing => saved'[c][2] = Peer[c] /\ files'[saved'[c]] = c
      <4>1. n # Nothing
        BY <3>2, NotifierAssumption DEF FileNames
      <4> QED
        BY <3>2, <3>3, <3>4, <3>7, <4>1 DEF TypeOK
    <3> QED
      BY <3>3, <3>6, <3>8, <3>9 DEF SavedInv
  <2>2. ASSUME NEW c \in Calls, Begin(c) \/ Summarize(c) \/ Telegram(c) \/ Email(c) PROVE SavedInv'
    <3>1. UNCHANGED <<cfg, world, files, saved>>
      BY <2>2 DEF Begin, Summarize, Telegram, Email, Go
    <3>2. \A d \in Calls : at'[d] \in Past <=> at[d] \in Past
      BY <2>2 DEF TypeOK, Begin, Summarize, Telegram, Email, Go
    <3> QED
      BY <3>1, <3>2 DEF SavedInv
  <2>3. CASE Second \/ Exit \/ Rest \/ UNCHANGED vars
    BY <2>3 DEF SavedInv, Second, Exit, Rest, vars
  <2> QED
    BY <2>1, <2>2, <2>3 DEF Next, Step
<1>3. SavedInv => SavedBeforeTold
  BY DEF SavedInv, SavedBeforeTold
<1> QED
  BY <1>1, <1>2, <1>3, NotifierTypeOK, PTL DEF Spec

---------------------------------------------------------------------------
(* What a step may do. *)

\* A file changes only in the second in its name, when a call of the caller in
\* its name is saved.
Archive ==
  [][\A f \in FileNames : files'[f] # files[f] =>
       f[1] = second /\ \E c \in Calls : Peer[c] = f[2] /\ at[c] = "save" /\ at'[c] \in Past]_vars

\* A transcript of an earlier second or of another caller is never touched: the
\* name is all that calls share, and it is taken in the step that writes
\* (notify.go:64-72).
THEOREM NotifierArchive == Spec => Archive
<1> DEFINE Kept(f) == files'[f] # files[f] =>
             f[1] = second /\ \E c \in Calls : Peer[c] = f[2] /\ at[c] = "save" /\ at'[c] \in Past
<1>1. TypeOK /\ [Next]_vars => \A f \in FileNames : Kept(f)
  <2> SUFFICES ASSUME TypeOK, [Next]_vars, NEW f \in FileNames, files'[f] # files[f]
               PROVE  f[1] = second
                      /\ \E c \in Calls : Peer[c] = f[2] /\ at[c] = "save" /\ at'[c] \in Past
    OBVIOUS
  <2>1. PICK c \in Calls : Save(c)
    BY DEF Next, Step, Begin, Summarize, Telegram, Email, Second, Exit, Rest, vars
  <2>2. \E v \in {c, "partial"} : files' = [files EXCEPT ![FileName(c)] = v] \/ files' = files
    BY <2>1 DEF Save
  <2>3. f = FileName(c)
    BY <2>2 DEF TypeOK
  <2>4. at[c] = "save" /\ at'[c] = "summarize"
    BY <2>1 DEF Save, Go, TypeOK
  <2>5. QED
    BY <2>3, <2>4 DEF FileName
<1>2. QED
  BY <1>1, NotifierTypeOK, PTL DEF Spec, Archive

PlaceRank(p) == CASE p = "call" -> 0 [] p = "save" -> 1 [] p = "summarize" -> 2
                  [] p = "telegram" -> 3 [] p = "email" -> 4 [] OTHER -> 5

\* What a handler does it does once, and what it has achieved it does not undo.
OneAttempt ==
  [][\A c \in Calls : /\ at'[c] = at[c] \/ PlaceRank(at'[c]) = PlaceRank(at[c]) + 1
                      /\ saved'[c] = saved[c] \/ at[c] = "save"
                      /\ \/ got'[c] = got[c]
                         \/ at[c] = "telegram" /\ got'[c] = got[c] \union {"telegram"}
                         \/ at[c] = "email" /\ got'[c] = got[c] \union {"smtp"}]_vars

\* Nothing is retried and nothing skipped: the four steps are taken in their
\* order, and each channel is tried once, by its own step (notify.go:36-54).
THEOREM NotifierOneAttempt == Spec => OneAttempt
<1> DEFINE Once(c) == /\ at'[c] = at[c] \/ PlaceRank(at'[c]) = PlaceRank(at[c]) + 1
                      /\ saved'[c] = saved[c] \/ at[c] = "save"
                      /\ \/ got'[c] = got[c]
                         \/ at[c] = "telegram" /\ got'[c] = got[c] \union {"telegram"}
                         \/ at[c] = "email" /\ got'[c] = got[c] \union {"smtp"}
<1>1. TypeOK /\ [Next]_vars => \A c \in Calls : Once(c)
  <2> SUFFICES ASSUME TypeOK, [Next]_vars, NEW c \in Calls PROVE Once(c)
    OBVIOUS
  <2>1. ASSUME NEW d \in Calls, Begin(d) \/ Step(d) PROVE Once(c)
    <3>1. CASE c = d
      <4>1. CASE Begin(c)
        BY <4>1 DEF TypeOK, Begin, Go, PlaceRank
      <4>2. CASE Save(c)
        BY <4>2 DEF TypeOK, Save, Go, PlaceRank
      <4>3. CASE Summarize(c)
        BY <4>3 DEF TypeOK, Summarize, Go, PlaceRank
      <4>4. CASE Telegram(c)
        BY <4>4 DEF TypeOK, Telegram, Go, PlaceRank
      <4>5. CASE Email(c)
        BY <4>5 DEF TypeOK, Email, Go, PlaceRank
      <4>6. QED
        BY <2>1, <3>1, <4>1, <4>2, <4>3, <4>4, <4>5 DEF Step
    <3>2. CASE c # d
      BY <2>1, <3>2 DEF TypeOK, Step, Begin, Save, Summarize, Telegram, Email, Go
    <3>3. QED
      BY <3>1, <3>2
  <2>2. CASE Second \/ Exit \/ Rest \/ UNCHANGED vars
    BY <2>2 DEF Second, Exit, Rest, vars
  <2>3. QED
    BY <2>1, <2>2 DEF Next
<1>2. QED
  BY <1>1, NotifierTypeOK, PTL DEF Spec, OneAttempt
=============================================================================
