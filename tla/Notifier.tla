------------------------------ MODULE Notifier ------------------------------
(***************************************************************************)
(* Notifier.Handle of internal/notify/notify.go, for the calls of a daemon *)
(* that may be told to exit at any time: save the transcript, ask for a    *)
(* summary, push both over Telegram and by e-mail.  Handlers of different  *)
(* calls run concurrently and share one directory.  The disk and the three *)
(* services are external: each works, fails or hangs.  Time is counted in  *)
(* units of which the HTTP client's 30 s and the notification's two        *)
(* minutes are multiples, and for file names in seconds.                   *)
(***************************************************************************)
EXTENDS Naturals

CONSTANTS Calls,        \* the calls that end with something said
          Names,        \* the values of sanitize
          Peer,         \* the sanitized caller of each call
          Configs,      \* what the daemon may be configured to do
          Worlds,       \* what may work, see World
          HttpTimeout,  \* Timeout of the HTTP client
          Limit,        \* agent.go:322: the notification's context expires
          DiskTime,     \* longest time the disk takes
          MaxSecond,    \* bound: seconds the clock is watched
          Nothing       \* no file, no name

Services == {"disk", "api", "telegram", "smtp"}

\* What the settings decide: TranscriptDir, APIKey, both of Telegram's, both of
\* SMTP's are set.
Config == [dir : BOOLEAN, key : BOOLEAN, telegram : BOOLEAN, smtp : BOOLEAN]

\* What answers, and what neither answers nor fails.
World == {w \in [works : SUBSET Services, hangs : SUBSET Services] :
            w.works \cap w.hangs = {} /\ "disk" \notin w.hangs}

ASSUME NotifierAssumption ==
  /\ Peer \in [Calls -> Names]
  /\ Configs \subseteq Config /\ Worlds \subseteq World
  /\ MaxSecond \in Nat
  /\ Nothing \notin Calls \union {"partial"} \union ((0..MaxSecond) \X Names)
  /\ "partial" \notin Calls

\* 30 s for each of two requests, two minutes in all.
ASSUME LimitAssumption ==
  /\ HttpTimeout \in Nat \ {0} /\ DiskTime \in Nat /\ Limit \in Nat
  /\ DiskTime + HttpTimeout + HttpTimeout < Limit

VARIABLES
  cfg, world,  \* fixed at start-up
  exited,      \* the process is gone
  second,      \* the clock, for file names
  files,       \* TranscriptDir: whose transcript a file holds
  at,          \* where each call's handler stands
  elapsed,     \* time since the notification's context was made
  saved,       \* history: the name a call was saved under
  summary,     \* the text in front of the transcript
  got          \* history: the channels that have delivered the message

vars == <<cfg, world, exited, second, files, at, elapsed, saved, summary, got>>

FileNames == (0..MaxSecond) \X Names
Past == {"summarize", "telegram", "email", "done"}  \* places after the save
Places == Past \union {"call", "save"}

TypeOK ==
  /\ cfg \in Configs /\ world \in Worlds
  /\ exited \in BOOLEAN
  /\ second \in 0..MaxSecond
  /\ files \in [FileNames -> Calls \union {Nothing, "partial"}]
  /\ at \in [Calls -> Places]
  /\ elapsed \in [Calls -> 0..Limit]
  /\ saved \in [Calls -> FileNames \union {Nothing}]
  /\ summary \in [Calls -> {"none", "summary", "transcript"}]
  /\ got \in [Calls -> SUBSET {"telegram", "smtp"}]

Init ==
  /\ cfg \in Configs /\ world \in Worlds
  /\ exited = FALSE
  /\ second = 0
  /\ files = [n \in FileNames |-> Nothing]
  /\ at = [c \in Calls |-> "call"]
  /\ elapsed = [c \in Calls |-> 0]
  /\ saved = [c \in Calls |-> Nothing]
  /\ summary = [c \in Calls |-> "none"]
  /\ got = [c \in Calls |-> {}]

---------------------------------------------------------------------------
\* The handler of call c moves from place p to place q.
Go(c, p, q) ==
  /\ ~exited /\ at[c] = p
  /\ at' = [at EXCEPT ![c] = q]
  /\ UNCHANGED <<cfg, world, exited, second>>

\* The bridge has returned a Result with turns: onCall, with a fresh context.
Begin(c) ==
  /\ Go(c, "call", "save")
  /\ UNCHANGED <<files, elapsed, saved, summary, got>>

\* A bug that rounds the second of the call up.
FileNameRounded(c) == <<second + 1, Peer[c]>>

\* The second the call is over in, and the caller: what names the transcript.
FileName(c) == <<second, Peer[c]>>

\* A bug that leaves the writing to a goroutine nobody waits for.
SaveInBackground(c) ==
  /\ Go(c, "save", "summarize")
  /\ UNCHANGED <<files, elapsed, saved, summary, got>>

\* save: WriteFile truncates a file of that name before it writes.  When a disk
\* that does not always work fails, it may have done that, or nothing at all.
Save(c) ==
  /\ Go(c, "save", "summarize")
  /\ \E d \in 0..DiskTime : elapsed' = [elapsed EXCEPT ![c] = d]
  /\ \/ /\ cfg.dir
        /\ files' = [files EXCEPT ![FileName(c)] = c]
        /\ saved' = [saved EXCEPT ![c] = FileName(c)]
     \/ /\ cfg.dir /\ "disk" \notin world.works
        /\ files' \in {files, [files EXCEPT ![FileName(c)] = "partial"]}
        /\ UNCHANGED saved
     \/ ~cfg.dir /\ UNCHANGED <<files, saved>>
  /\ UNCHANGED <<summary, got>>

\* A bug that uses a client without a timeout.
WaitsOfNoTimeout(s) == IF s \in world.hangs THEN {Limit} ELSE 0..HttpTimeout

\* How long a request to service s may take by itself: the client gives up.
Waits(s) == IF s \in world.hangs THEN {HttpTimeout} ELSE 0..HttpTimeout

\* A request of call c, cut short when the notification's context expires; it
\* is answered if the service works and there was time.
Request(c, s, answered) ==
  \E d \in Waits(s) :
    /\ elapsed' = [elapsed EXCEPT ![c] = IF @ + d < Limit THEN @ + d ELSE Limit]
    /\ answered = (s \in world.works /\ elapsed[c] + d < Limit)

\* summarize: without a key there is none; when the request fails, or its answer
\* has no text in it, the transcript stands in.
Summarize(c) ==
  /\ Go(c, "summarize", "telegram")
  /\ IF ~cfg.key THEN UNCHANGED <<elapsed, summary>>
     ELSE \E answered \in BOOLEAN :
       /\ Request(c, "api", answered)
       /\ \E s \in IF answered THEN {"summary", "transcript"} ELSE {"transcript"} :
            summary' = [summary EXCEPT ![c] = s]
  /\ UNCHANGED <<files, saved, got>>

\* A bug that returns when Telegram has failed.
TelegramReturns(c) ==
  /\ \E answered \in BOOLEAN :
       /\ IF cfg.telegram THEN Request(c, "telegram", answered)
                          ELSE answered = FALSE /\ UNCHANGED elapsed
       /\ got' = IF answered THEN [got EXCEPT ![c] = @ \union {"telegram"}] ELSE got
       /\ Go(c, "telegram", IF cfg.telegram /\ ~answered THEN "done" ELSE "email")
  /\ UNCHANGED <<files, saved, summary>>

\* A bug that calls without the context and without a timeout.
TelegramPatient(c) ==
  /\ cfg.telegram => "telegram" \notin world.hangs
  /\ Go(c, "telegram", "email")
  /\ got' = IF cfg.telegram /\ "telegram" \in world.works
            THEN [got EXCEPT ![c] = @ \union {"telegram"}] ELSE got
  /\ UNCHANGED <<files, elapsed, saved, summary>>

\* telegram: a failure is only logged.
Telegram(c) ==
  /\ Go(c, "telegram", "email")
  /\ \E answered \in BOOLEAN :
       /\ IF cfg.telegram THEN Request(c, "telegram", answered)
                          ELSE answered = FALSE /\ UNCHANGED elapsed
       /\ got' = IF answered THEN [got EXCEPT ![c] = @ \union {"telegram"}] ELSE got
  /\ UNCHANGED <<files, saved, summary>>

MailHangs == cfg.smtp /\ "smtp" \in world.hangs

\* email: SendMail knows no context; it fails, succeeds, or hangs.
Email(c) ==
  /\ Go(c, "email", "done")
  /\ ~MailHangs
  /\ got' = IF cfg.smtp /\ "smtp" \in world.works
            THEN [got EXCEPT ![c] = @ \union {"smtp"}] ELSE got
  /\ UNCHANGED <<files, elapsed, saved, summary>>

\* The world: the clock; the daemon is told to stop and nothing waits.
Second ==
  /\ second < MaxSecond
  /\ second' = second + 1
  /\ UNCHANGED <<cfg, world, exited, files, at, elapsed, saved, summary, got>>

Exit ==
  /\ ~exited
  /\ exited' = TRUE
  /\ UNCHANGED <<cfg, world, second, files, at, elapsed, saved, summary, got>>

\* Every handler has returned or hangs, or there is no process any more.
Rest ==
  /\ \/ exited
     \/ \A c \in Calls : \/ at[c] = "done"
                         \/ at[c] = "email" /\ MailHangs
  /\ UNCHANGED vars

Step(c) == Save(c) \/ Summarize(c) \/ Telegram(c) \/ Email(c)

Next == (\E c \in Calls : Begin(c) \/ Step(c)) \/ Second \/ Exit \/ Rest

\* A handler that can go on does; nothing makes a call end.
Spec == Init /\ [][Next]_vars /\ \A c \in Calls : WF_vars(Step(c))

---------------------------------------------------------------------------
\* What call c's own services would deliver, were they the only ones.
Working == {s \in {"telegram", "smtp"} : s \in world.works /\ cfg[s]}

\* "Every step is independent": a message reaches exactly the configured
\* channels that work, however many of the other steps fail or hang
\* (notify.go:32-54).
BestEffort == \A c \in Calls : at[c] = "done" => got[c] = Working

\* "A failing Telegram token must not cost you the transcript on disk", nor
\* does a service that hangs or a daemon that is stopped while it does: before
\* anything slow begins the transcript is in its file, and stays there unless
\* another call of the same caller was saved in the same second (notify.go:33,
\* 37, 64-67).
SavedBeforeTold ==
  \A c \in Calls : at[c] \in Past /\ cfg.dir =>
    /\ "disk" \in world.works => saved[c] # Nothing
    /\ saved[c] # Nothing =>
         \/ files[saved[c]] = c
         \/ \E d \in Calls \ {c} : /\ Peer[d] = Peer[c] /\ at[d] \in Past
                                   /\ files[saved[c]] \in {d, "partial"}

\* A summary that hangs does not use up the time of the Telegram message: the
\* two-minute context never expires before a request has had the client's full
\* timeout (notify.go:29, agent.go:322).
LimitNeverBites ==
  \A c \in Calls : /\ at[c] \in {"summarize", "telegram"} => elapsed[c] + HttpTimeout < Limit
                   /\ elapsed[c] < Limit

\* The handler returns, and the call with it, unless the mail server hangs:
\* every other wait is bounded (notify.go:29, 174).
HandlerReturns ==
  \A c \in Calls : at[c] = "save" ~> at[c] = "done" \/ exited \/ MailHangs
=============================================================================
