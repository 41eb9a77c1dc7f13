------------------------------ MODULE NetLoop -------------------------------
(***************************************************************************)
(* Instances for TLC of what ends net_loop (net/net.c): its retries with   *)
(* the rotation of the interfaces (NetRetry), a download from a network    *)
(* that loses and repeats any packet, and one from a network that loses a  *)
(* few (Tftp).  A behaviour is one of the instance chosen at its start.    *)
(***************************************************************************)
EXTENDS NetRetry

VARIABLES
  instance,
  \* those of Tftp; net_state and net_try_count are in NetRetry
  running, in_switch, ncmd, protocol, udp_handler, icmp_handler, time_handler,
  net_boot_file_size, mem,
  tftp_state, tftp_remote_port, tftp_our_port, tftp_cur_block,
  tftp_prev_block, tftp_block_wrap_offset, tftp_block_size,
  timeout_count, timeout_count_max,
  tftp_put_active, tftp_put_final_block_sent,
  net, sess, seen, lost, cur_num

Lossy ==
  INSTANCE Tftp WITH
    FileLen <- 2, DefBlk <- 1, OptBlk <- 2, SeqSize <- 3, TIMEOUT_COUNT <- 1,
    MaxTries <- 2, Commands <- {"TFTPGET"}, MaxCmds <- 1, Ports <- {1, 2},
    FreshPorts <- TRUE, MaxCur <- 9, MaxSess <- 1, ServerOpts <- BOOLEAN,
    Faults <- {"notfound", "error"}, Batch <- TRUE, Wild <- TRUE, Reorder <- 0,
    MaxLoss <- 0

Prompt ==
  INSTANCE Tftp WITH
    FileLen <- 4, DefBlk <- 1, OptBlk <- 2, SeqSize <- 3, TIMEOUT_COUNT <- 3,
    MaxTries <- 1, Commands <- {"TFTPGET"}, MaxCmds <- 1, Ports <- {1, 2},
    FreshPorts <- TRUE, MaxCur <- 9, MaxSess <- 2, ServerOpts <- BOOLEAN,
    Faults <- {}, Batch <- TRUE, Wild <- FALSE, Reorder <- 0, MaxLoss <- 3

\* the variables of one of the two only
retryVars == <<settings, pc, net_restarted, net_dev_exists, net_restart_wrap,
               first_failed, eth_current, up, timer, ret, visited, faulted>>
tftpVars == <<running, in_switch, ncmd, protocol, udp_handler, icmp_handler,
              time_handler, net_boot_file_size, mem, tftp_state, tftp_remote_port,
              tftp_our_port, tftp_cur_block, tftp_prev_block,
              tftp_block_wrap_offset, tftp_block_size, timeout_count,
              timeout_count_max, tftp_put_active, tftp_put_final_block_sent,
              net, sess, seen, lost, cur_num>>
loopVars == <<instance, net_state, net_try_count, retryVars, tftpVars>>

LoopInit ==
  /\ instance \in {"retry", "lossy", "prompt"}
  /\ Init
  /\ instance # "retry" =>
       ethrotate = TRUE /\ netretry = 0 /\ eth_current = 1
  /\ IF instance = "lossy" THEN Lossy!Init ELSE Prompt!Init

\* a step A of an instance
Of(i, A, others) == instance = i /\ A /\ UNCHANGED <<instance, others>>

LoopNext ==
  \/ Of("retry", Next, tftpVars)
  \/ Of("lossy", Lossy!Next, retryVars)
  \/ Of("prompt", Prompt!Next, retryVars)

\* The fairness of each instance is that of NetRetry and of Tftp.
LoopFairness ==
  /\ WF_loopVars(Of("retry", Loop, tftpVars))
  /\ WF_loopVars(Of("lossy", Lossy!Timer, retryVars))
  /\ WF_loopVars(Of("lossy", Lossy!Switch, retryVars))
  /\ SF_loopVars(Of("prompt", Prompt!Timer, retryVars))
  /\ WF_loopVars(Of("prompt", Prompt!Switch, retryVars))
  /\ WF_loopVars(Of("prompt", Prompt!Receive, retryVars))
  /\ WF_loopVars(Of("prompt", Prompt!Peer, retryVars))

NetLoopSpec == LoopInit /\ [][LoopNext]_loopVars /\ LoopFairness

-----------------------------------------------------------------------------
\* Whatever the network does, a download ends: time-outs are counted and the
\* attempts are bounded (tftp_timeout_handler, net_start_again).
Terminates == (instance = "lossy" /\ running) ~> ~running

\* A download survives as many lost packets as it may have time-outs, of its
\* requests, of data and of acknowledgements (tftp_timeout_handler, tftp_send).
Recovers == (instance = "prompt" /\ running) ~> Prompt!Done
=============================================================================
