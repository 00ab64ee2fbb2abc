------------------------------ MODULE MCAdvice -----------------------------
(***************************************************************************)
(* Claude with a session and a weekly window, ChatGPT with a weekly window *)
(* and spending credits, for TLC.                                          *)
(***************************************************************************)
EXTENDS Advice

MCProviders == <<[id |-> "chatgpt", tiers |-> {}, tags |-> {}],
                 [id |-> "claude", tiers |-> {}, tags |-> {}]>>

Window(provider, kind, base, span, relative, burn) ==
  [provider |-> provider, kind |-> kind, base |-> base, bank |-> FALSE,
   span |-> span, relative |-> relative, burn |-> burn]

MCQuota == [session   |-> Window("claude", "session", "account", 20, FALSE, 60),
            weekly    |-> Window("claude", "weekly", "account", 672, FALSE, 45),
            secondary |-> Window("chatgpt", "weekly", "account", 672, TRUE, 90)]
=============================================================================
