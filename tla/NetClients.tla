----------------------------- MODULE NetClients -----------------------------
(***************************************************************************)
(* A session at the prompt: nfs, dhcp and linklocal commands in any order, *)
(* one net_loop after the other, each finding what those before it left in *)
(* the static variables of the network code.                               *)
(***************************************************************************)
EXTENDS Dhcp, LinkLocal

CONSTANTS
  Commands,       \* the commands that may be given
  MaxCommands,    \* bound: the number of commands
  Faulty          \* bound: with faults a session is one command, or repeats one of these

VARIABLE commands   \* the commands given

vars == <<loopVars, addrVars, nfsVars, dhcpVars, llVars, commands>>

Init ==
  /\ NetInit /\ NfsInit /\ DhcpInit /\ LinkLocalInit /\ commands = <<>>

\* the bounds of a session
Prompt ==
  IF command = "none" /\ command' # "none"
  THEN /\ command' \in Commands /\ commands' = Append(commands, command')
       /\ Len(commands) < MaxCommands
       /\ network = "good" \/ commands = <<>> \/ Range(commands') \subseteq {command'} \cap Faulty
       /\ network = "late" => autoload' = "no"
  ELSE UNCHANGED commands

Next ==
  \/ NfsNext /\ UNCHANGED <<dhcpVars, llVars>> /\ Prompt
  \/ DhcpNext /\ UNCHANGED llVars /\ Prompt
  \/ LinkLocalNext /\ UNCHANGED <<dhcpVars, nfsVars>> /\ Prompt
  \/ NetAgain /\ UNCHANGED <<addrVars, nfsVars, dhcpVars, llVars, commands>>

Spec == Init /\ [][Next]_vars

\* net_loop polls: a time-out expires, and the switch is reached; in a good
\* network what is sent is answered.  Nothing is assumed of other packets or
\* of ctrl-C.
Loop ==
  \/ nfs_restart /\ UNCHANGED <<addrVars, dhcpVars, llVars, commands>>
  \/ nfs_timeout_handler /\ UNCHANGED <<addrVars, dhcpVars, llVars, commands>>
  \/ dhcp_restart /\ UNCHANGED <<llVars, commands>>
  \/ bootp_timeout_handler /\ UNCHANGED <<llVars, commands>>
  \/ (link_local_restart \/ link_local_timeout)
       /\ UNCHANGED <<dhcpVars, nfsVars, commands>>

Ends ==
  \/ (\E ok \in BOOLEAN : NetDone("NFS", ok) \/ NetDone("DHCP", ok))
       /\ UNCHANGED <<addrVars, nfsVars, dhcpVars, llVars, commands>>
  \/ do_link_local_end /\ net_state' # "CONTINUE" /\ UNCHANGED <<dhcpVars, nfsVars, commands>>

Answers ==
  /\ network = "good"
  /\ \/ nfs_handler /\ UNCHANGED <<addrVars, dhcpVars, llVars, commands>>
     \/ dhcp_handler /\ UNCHANGED <<llVars, commands>>

LoopSpec == Spec /\ WF_vars(Loop) /\ WF_vars(Ends) /\ WF_vars(Answers)

-----------------------------------------------------------------------------
\* Every command comes back to the prompt, in whatever network and after
\* whatever commands: time-outs, retransmissions and retries are bounded.
CommandEnds == command # "none" ~> command = "none"

\* In a good network every command succeeds, after whatever commands before it,
\* although offers take so long that the client has asked again, as long as it
\* still has the id it asked with (bootp_add_id); a boot file behind symbolic
\* links is found (nfs_readlink_reply).
GoodSucceeds ==
  network = "good" /\ command # "none" ~> command = "none" /\ net_state = "SUCCESS"

\* doc/README.link-local:5 says that U-Boot does "Negotiate with other link-local
\* clients on the local network for an address": when the negotiation succeeds,
\* no other host has claimed the address during it.
Negotiated == command = "LINKLOCAL" /\ net_state = "SUCCESS" => ~claimed
=============================================================================
