--------------------------- MODULE MCTunnelPragmas ---------------------------
(* Two names for secrets, the second the one that a statement without a    *)
(* secret falls back to.  The first is an SSH server with a password, with *)
(* a key and a port that is none, or with nothing to log in with and both  *)
(* spellings of its host, another extension's, or a tailnet that a         *)
(* redefinition changes in one option.                                     *)
EXTENDS TunnelPragmas

MCNames == {"a", "*"}

Secret(type, options) == [type |-> type, options |-> options]

Ssh == Secret("ssh_tunnel", [host |-> "bastion", user |-> "jump", password |-> "pw"])
SshKey ==
  Secret("tunnel", [ssh_host |-> "bastion", ssh_user |-> "jump", private_key_path |-> "id",
                    port |-> 70000])
Agent == Secret("ssh_tunnel", [ssh_host |-> "bastion", host |-> "other", user |-> "jump"])
Tailnet(ephemeral) ==
  Secret("tunnel", [backend |-> "Tailscale", auth_key |-> "k", ephemeral |-> ephemeral])

Star ==
  Secret("tunnel", [backend |-> "NetBird", host |-> "bastion", user |-> "jump", password |-> "pw"])

Foreign == Secret("foreign", [host |-> "bastion"])

MCDefinitions ==
  [n \in MCNames |->
     IF n = "a" THEN {Ssh, SshKey, Agent, Tailnet("true"), Tailnet("false"), Foreign} ELSE {Star}]

Ask(what, secret, host, given, remote, local) ==
  [what |-> what, secret |-> secret, remote_host |-> host, given |-> given,
   remote_port |-> remote, local_port |-> local]

MCRequests ==
  {Ask("import", "a", TRUE, TRUE, 80, 9000), Ask("import", "", TRUE, TRUE, 80, 9000),
   Ask("import", "a", TRUE, TRUE, 80, 74536), Ask("import", "a", TRUE, TRUE, 80, 65536),
   Ask("import", "a", TRUE, TRUE, 70000, 9000),
   Ask("export", "a", FALSE, FALSE, 0, 9000), Ask("export", "a", FALSE, TRUE, 0, 9000),
   Ask("export", "a", TRUE, TRUE, 80, 9000), Ask("export", "a", FALSE, TRUE, 65536, 9000),
   Ask("self", "a", FALSE, FALSE, 0, 0)}

OneImport == {Ask("import", "a", TRUE, TRUE, 80, 9000)}
OnePassword == [n \in MCNames |-> {Ssh}]
=============================================================================
