-------------------------------- MODULE MCIpc --------------------------------
(* Instances of module Ipc.                                                 *)
EXTENDS Ipc

CONSTANTS mem1, mem2, sp1, sp2

Send == {"BR_IPC_SEND"}
Block == {"BR_IPC_BLOCK"}
Recv == {"BR_IPC_RECV"}

\* A message with one handle and one with two, the second of which may be bad.
OneOrTwo == {<<0, None>>, <<0, 1>>}

\* Sends and receives that do not block, blocking receives, and blocking sends
\* that go on to receive.
Flags == {Send, Recv, Recv \union Block, Send \union Recv \union Block}

\* Messages between tasks, and mappings into spaces that are shared, copied and
\* looked at.
MessagesAndSpaces ==
  {[calls |-> {"sys_create_memory", "sys_create_task", "sys_start", "sys_close", "sys_exit",
               "sys_ipc"},
    objects |-> {mem1}],
   [calls |-> {"sys_create_memory", "sys_create_space", "sys_create_task", "sys_dup",
               "sys_close", "sys_inspect", "sys_map", "sys_unmap"},
    objects |-> {mem1, mem2, sp2}]}
=============================================================================
