----------------------------- MODULE MCNotifier -----------------------------
(***************************************************************************)
(* Two calls from withheld numbers within two seconds; everything          *)
(* configured, or no key and no mail, or mail alone; every service but     *)
(* some failing or hanging.                                                *)
(***************************************************************************)
EXTENDS Notifier

MCCalls == {"c1", "c2"}
MCNames == {"unknown"}
MCPeer == [c \in MCCalls |-> "unknown"]
MCConfigs == {[dir |-> TRUE,  key |-> TRUE,  telegram |-> TRUE,  smtp |-> TRUE],
              [dir |-> TRUE,  key |-> FALSE, telegram |-> TRUE,  smtp |-> FALSE],
              [dir |-> FALSE, key |-> TRUE,  telegram |-> FALSE, smtp |-> TRUE]}
MCWorlds == {[works |-> Services \ down, hangs |-> {}] :
               down \in {{}, {"disk"}, {"api"}, {"telegram"}, {"api", "smtp"}}}
            \union {[works |-> Services \ stuck, hangs |-> stuck] :
                      stuck \in {{"api"}, {"api", "telegram"}, {"smtp"}}}
=============================================================================
