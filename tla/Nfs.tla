-------------------------------- MODULE Nfs ---------------------------------
(***************************************************************************)
(* Loading a file by NFS, net/nfs.c: find the ports, mount, look up, read  *)
(* to the end, follow symbolic links, unmount.  Every call has a new RPC   *)
(* id, and only a reply to the latest call counts.  The server is external *)
(* and keeps no state.                                                     *)
(***************************************************************************)
EXTENDS NetCmd

CONSTANTS
  FileLen,           \* length of the file
  NFS_READ_SIZE,
  NFS_RETRY_COUNT,
  Hops,              \* the boot file is a link to a link ... to the file
  Refusals           \* the procedures the server may refuse

ASSUME NfsAssumption ==
  {FileLen, NFS_READ_SIZE, NFS_RETRY_COUNT} \subseteq Nat \ {0} /\ Hops \in Nat

Procs == {"PORT_MOUNT", "PORT_NFS", "MOUNT", "UMOUNT", "LOOKUP", "READ", "READLINK"}

\* path 0 is the boot file, path h + 1 what the link at path h points to
Paths == 0..Hops
NoPath == Hops + 1
NoByte == <<NoPath, 0>>

VARIABLES
  nfs_state,           \* the procedure in progress
  call,                \* the latest call: procedure, path, file handle, offset
  nfs_offset, nfs_path, nfs_timeout_count, nfs_download_state,
  nfs_server_mount_port, nfs_server_port,     \* TRUE: the right port
  fs_mounted, dirfh, filefh,                  \* a handle is its path
  memory,              \* at each address, the byte of the file at that path
  net_boot_file_size,
  refused, dropped     \* history, in this try: a refusal, an old READ reply

statics == <<nfs_server_mount_port, nfs_server_port, fs_mounted, dirfh, filefh>>
progress == <<nfs_state, nfs_offset, nfs_path, nfs_download_state>>
loaded == <<memory, net_boot_file_size>>
nfsVars == <<call, nfs_timeout_count, refused, dropped, statics, progress, loaded>>

-----------------------------------------------------------------------------
Bound(a, b) == IF a < b THEN a ELSE b

(* nfs_send in the state just entered: the call takes the values just      *)
(* assigned.  Nothing is sent when there is nothing to unmount.            *)
nfs_send ==
  IF nfs_state' = "UMOUNT" /\ ~fs_mounted'
  THEN UNCHANGED call
  ELSE /\ call' = [proc |-> nfs_state', path |-> nfs_path', dir |-> dirfh',
                   file |-> filefh', offset |-> nfs_offset']

\* the server hears calls sent to the right port
Reaches(c) ==
  CASE c.proc \in {"PORT_MOUNT", "PORT_NFS"} -> TRUE
    [] c.proc \in {"MOUNT", "UMOUNT"} -> nfs_server_mount_port
    [] OTHER -> nfs_server_port

(* What a reply to call c says: "error" for a refusal, "data" with a       *)
(* length, "link" for the error a READ of a link gives, else "ok".         *)
Replies(c) ==
  (IF c.proc \in Refusals /\ network # "good" THEN {[tag |-> "error"]} ELSE {}) \cup
  CASE c.proc = "READ" /\ c.file # Hops -> {[tag |-> "link"]}
    [] c.proc = "READ" /\ c.file = Hops ->
         {[tag |-> "data", len |-> n] :
            n \in IF c.offset >= FileLen THEN {0}
                  ELSE 1..Bound(NFS_READ_SIZE, FileLen - c.offset)}
    [] c.proc = "LOOKUP" /\ c.dir # c.path -> {[tag |-> "error"]}
    [] OTHER -> {[tag |-> "ok"]}

nfs_start ==
  /\ nfs_download_state' = "FAIL" /\ nfs_path' = 0
  /\ time_handler' = "nfs" /\ udp_packet_handler' = "nfs" /\ nfs_timeout_count' = 0
  /\ nfs_state' = "PORT_MOUNT" /\ net_boot_file_size' = 0
  /\ refused' = FALSE /\ dropped' = FALSE
  /\ UNCHANGED <<statics, nfs_offset, memory>>
  /\ nfs_send

do_nfs == NetEnter("NFS") /\ nfs_start

nfs_restart == NetRestart("NFS") /\ nfs_start

\* Mutant: time-outs are not counted.
NotCounted == nfs_timeout_count

Counted == nfs_timeout_count + 1

nfs_timeout_handler ==
  /\ network = "good" => ~Reaches(call)
  /\ nfs_timeout_count' = Counted
  /\ UNCHANGED <<udp_packet_handler, statics, progress, loaded, refused, dropped>>
  /\ IF nfs_timeout_count' > NFS_RETRY_COUNT
     THEN net_start_again /\ time_handler' = "none" /\ UNCHANGED call
     ELSE time_handler' = "nfs" /\ nfs_send /\ UNCHANGED <<net_state, net_try_count>>
  /\ TimesOut("nfs")

-----------------------------------------------------------------------------
\* nfs_handler: on to state s with a call
Go(s) == nfs_state' = s /\ nfs_send /\ UNCHANGED net_state

\* a reply to the latest call
Reply(r) ==
  /\ Receives("nfs") /\ Reaches(call) /\ r \in Replies(call)
  /\ refused' = (refused \/ r.tag = "error")
  /\ UNCHANGED <<udp_packet_handler, nfs_timeout_count, dropped>>

\* rpc_lookup_reply; the handler goes on even when the port is not known
RecvPort ==
  \E r \in Replies(call) :
    /\ Reply(r) /\ nfs_state \in {"PORT_MOUNT", "PORT_NFS"}
    /\ UNCHANGED <<fs_mounted, dirfh, filefh, nfs_offset, nfs_path,
                   nfs_download_state, time_handler, loaded>>
    /\ IF nfs_state = "PORT_MOUNT"
       THEN /\ nfs_server_mount_port' = (nfs_server_mount_port \/ r.tag = "ok")
            /\ UNCHANGED nfs_server_port /\ Go("PORT_NFS")
       ELSE /\ nfs_server_port' = (nfs_server_port \/ r.tag = "ok")
            /\ UNCHANGED nfs_server_mount_port /\ Go("MOUNT")

\* nfs_mount_reply
RecvMount ==
  \E r \in Replies(call) :
    /\ Reply(r) /\ nfs_state = "MOUNT"
    /\ UNCHANGED <<nfs_server_mount_port, nfs_server_port, filefh, nfs_offset,
                   nfs_path, nfs_download_state, time_handler, loaded>>
    /\ IF r.tag = "error"
       THEN UNCHANGED <<fs_mounted, dirfh>> /\ Go("UMOUNT")
       ELSE fs_mounted' = TRUE /\ dirfh' = call.path /\ Go("LOOKUP")

\* nfs_lookup_reply
RecvLookup ==
  \E r \in Replies(call) :
    /\ Reply(r) /\ nfs_state = "LOOKUP"
    /\ UNCHANGED <<nfs_server_mount_port, nfs_server_port, fs_mounted, dirfh,
                   nfs_path, nfs_download_state, time_handler, loaded>>
    /\ IF r.tag = "error"
       THEN UNCHANGED <<filefh, nfs_offset>> /\ Go("UMOUNT")
       ELSE filefh' = call.path /\ nfs_offset' = 0 /\ Go("READ")

\* Mutant: the end of the file is no success.
NeverDownloaded(r) == nfs_download_state

\* a reply without data is the end of the file
Downloaded(r) == IF r.tag = "data" THEN "SUCCESS" ELSE nfs_download_state

\* nfs_read_reply and store_block
RecvRead ==
  \E r \in Replies(call) :
    /\ Reply(r) /\ nfs_state = "READ" /\ time_handler' = "nfs"
    /\ UNCHANGED <<statics, nfs_path>>
    /\ \/ /\ r.tag = "data" /\ r.len > 0
          /\ memory' = [a \in DOMAIN memory |->
                          IF a \in nfs_offset..(nfs_offset + r.len - 1)
                          THEN <<call.file, call.offset + a - nfs_offset>> ELSE memory[a]]
          /\ net_boot_file_size' =
               IF net_boot_file_size < nfs_offset + r.len
               THEN nfs_offset + r.len ELSE net_boot_file_size
          /\ nfs_offset' = nfs_offset + r.len
          /\ UNCHANGED nfs_download_state /\ Go("READ")
       \/ /\ r.tag = "link"
          /\ UNCHANGED <<loaded, nfs_offset, nfs_download_state>> /\ Go("READLINK")
       \/ /\ r.tag = "error" \/ (r.tag = "data" /\ r.len = 0)
          /\ nfs_download_state' = Downloaded(r)
          /\ UNCHANGED <<loaded, nfs_offset>> /\ Go("UMOUNT")

\* nfs_readlink_reply: the target replaces the path, and is mounted
RecvReadlink ==
  \E r \in Replies(call) :
    /\ Reply(r) /\ nfs_state = "READLINK"
    /\ UNCHANGED <<statics, nfs_offset, nfs_download_state, time_handler, loaded>>
    /\ IF r.tag = "error"
       THEN UNCHANGED nfs_path /\ Go("UMOUNT")
       ELSE nfs_path' = call.file + 1 /\ Go("MOUNT")

(* nfs_umountall_reply, which any reply with the latest id is taken for:   *)
(* when nothing was sent, the reply to the call before may come again.     *)
RecvUmount ==
  \E r \in Replies(call) :
    /\ Reply(r) /\ nfs_state = "UMOUNT" /\ (call.proc = "UMOUNT" \/ network # "good")
    /\ IF r.tag = "error" /\ call.proc = "UMOUNT"
       THEN net_state' = "FAIL" /\ UNCHANGED <<fs_mounted, dirfh>>
       ELSE /\ net_state' = nfs_download_state
            /\ fs_mounted' = FALSE /\ dirfh' = NoPath
    /\ UNCHANGED <<nfs_server_mount_port, nfs_server_port, filefh, progress,
                   time_handler, loaded, call>>

\* Mutant: the RPC id is not looked at, and the reply to the first READ call
\* is taken for one to the latest.
TakeOld ==
  /\ Receives("nfs") /\ network = "late" /\ nfs_state = "READ" /\ nfs_offset \in 1..(FileLen - 1)
  /\ memory' = [memory EXCEPT ![nfs_offset] = <<filefh, 0>>]
  /\ net_boot_file_size' = nfs_offset + 1 /\ nfs_offset' = nfs_offset + 1
  /\ UNCHANGED <<udp_packet_handler, time_handler, nfs_timeout_count, nfs_path,
                 statics, refused, dropped, nfs_download_state>>
  /\ Go("READ")

\* A reply to an earlier call: NFS_RPC_DROP.  Every state ignores it but
\* READ, whose handler takes it for an error of the server.
RecvOld ==
  /\ Receives("nfs") /\ network = "late" /\ nfs_state = "READ"
  /\ time_handler' = "nfs" /\ dropped' = TRUE
  /\ UNCHANGED <<udp_packet_handler, nfs_timeout_count, nfs_offset, nfs_path,
                 nfs_download_state, statics, loaded, refused>>
  /\ Go("UMOUNT")

-----------------------------------------------------------------------------
NfsInit ==
  /\ nfs_state = "PORT_MOUNT"
  /\ call = [proc |-> "NONE", path |-> 0, dir |-> NoPath, file |-> NoPath, offset |-> -1]
  /\ nfs_offset = -1 /\ nfs_path = 0 /\ nfs_timeout_count = 0
  /\ nfs_download_state = "FAIL"
  /\ nfs_server_mount_port = FALSE /\ nfs_server_port = FALSE
  /\ fs_mounted = FALSE /\ dirfh = NoPath /\ filefh = NoPath
  /\ memory = [a \in 0..(FileLen - 1) |-> NoByte] /\ net_boot_file_size = 0
  /\ refused = FALSE /\ dropped = FALSE

nfs_handler ==
  \/ RecvPort \/ RecvMount \/ RecvLookup \/ RecvRead \/ RecvReadlink \/ RecvUmount
  \/ RecvOld

NfsNext ==
  /\ \/ do_nfs \/ nfs_restart \/ nfs_timeout_handler \/ nfs_handler
     \/ /\ \/ NetAbort("NFS") \/ \E ok \in BOOLEAN : NetDone("NFS", ok)
        /\ UNCHANGED nfsVars
  /\ UNCHANGED addrVars

-----------------------------------------------------------------------------
\* An nfs command that reports success has the whole file in memory, each byte
\* in its place, whatever links were followed, however the server cut the
\* file into replies, and whatever calls were repeated or answered late.
NfsLoaded ==
  udp_packet_handler = "nfs" /\ net_state = "SUCCESS" =>
    /\ net_boot_file_size = FileLen
    /\ \A a \in 0..(FileLen - 1) : memory[a] = <<Hops, a>>

\* An nfs command fails only when the server has refused a call, when too
\* many calls had no answer or, as RecvOld shows, when a reply to an earlier
\* call has come late, while reading.
NfsFailure ==
  udp_packet_handler = "nfs" /\ net_state = "FAIL" =>
    \/ refused \/ nfs_timeout_count > NFS_RETRY_COUNT
    \/ dropped /\ network = "late"
=============================================================================
