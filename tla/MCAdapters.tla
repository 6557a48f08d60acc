----------------------------- MODULE MCAdapters -----------------------------
(* One command and an MCP server with two calls of tools, and two processes
   that may own the sessions under them. *)
EXTENDS Adapters, TLC

CONSTANTS p1, p2, cli, mcp, command, call1, call2

MCAdapterOf == command :> cli @@ call1 :> mcp @@ call2 :> mcp
MCSurface == cli :> "cli" @@ mcp :> "mcp"
MCUsed == command :> {MailSend} @@ call1 :> {MailMove, MailSend} @@ call2 :> {MailMove}

Guarded(reversible) ==
  [mode |-> "guarded", sensitive |-> FALSE, reversible |-> reversible]
Lax == Guarded(FALSE)
Strict == Guarded(TRUE)
MCRules == {Lax, Strict}

Build(protocol, digest, rules) ==
  [protocol |-> protocol, digest |-> digest, rules |-> rules]
Usual == Build(1, Strict, Strict)

\* An owner that was started during an edit and one from after it; an upgrade.
MCSetups ==
  {p1 :> s[1] @@ p2 :> s[2] @@ cli :> Usual @@ mcp :> Usual :
     s \in {<<Build(1, Strict, Lax), Build(1, Lax, Lax)>>,
            <<Usual, Build(2, Strict, Strict)>>}}
=============================================================================
