--------------------------- MODULE MCConfigReload ---------------------------
(* One caller beside the loop, two subscribers, and files that differ in a  *)
(* setting, in their agents, in what Diff does not see, or do not load.     *)
EXTENDS ConfigReload

CONSTANT c1

Agent == [name |-> "echo", url |-> "u1", timeout |-> 0, max_streams |-> 0, default |-> TRUE,
          poll_interval |-> 0, card_change_policy |-> "", grpc_url |-> ""]
Base == [settings |-> [security_rate_limit_per_agent |-> 100], agents |-> <<Agent>>]

MCContents ==
    {Base,
     \* another limit and MCP port, an empty list of domains, and one agent more
     [settings |-> [security_rate_limit_per_agent |-> 200, mcp_port |-> 9081,
                    security_push_allowed_domains |-> <<>>],
      agents |-> <<Agent, [Agent EXCEPT !.name = "math", !.default = FALSE]>>],
     \* policies only, which Diff does not see
     [Base EXCEPT !.settings = [security_rate_limit_per_agent |-> 100,
                                security_policies |-> <<"deny">>]],
     \* the gRPC port is the default HTTP port
     [Base EXCEPT !.settings = [listen_grpc_port |-> 8080]]}
=============================================================================
