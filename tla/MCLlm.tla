------------------------------- MODULE MCLlm --------------------------------
(* Constants of Llm for TLC: one model of each provider, a conversation as  *)
(* it starts, and one after something was written to memory or compacted.   *)
EXTENDS Llm

Models ==
    {[source |-> "inline", unset |-> FALSE, entry |-> [provider |-> p, stream |-> FALSE, key |-> TRUE],
      overrides |-> [k \in {} |-> TRUE], agents |-> TRUE, indexed |-> TRUE] : p \in {"openai", "anthropic"}}

Msg(role, text) == [role |-> role, text |-> text]
Started == <<Msg("system", "prompt"), Msg("user", "task")>>
Conversations ==
    {Started, Started \o <<Msg("system", "memory")>>, Started \o <<Msg("system", "summary"), Msg("tool", "result")>>}

Says == {[text |-> <<"x">>, tools |-> << >>, finish |-> "stop", fresh |-> 1, cached |-> 0]}
=============================================================================
