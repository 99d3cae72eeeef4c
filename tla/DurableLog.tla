----------------------------- MODULE DurableLog -----------------------------
(***************************************************************************)
(* What a journal promises to the processes that share it, with no file,   *)
(* lock or hash chain: one log that only grows at its end, of which a      *)
(* prefix is durable; an event is acknowledged only once it is durable; a  *)
(* reader sees the whole log at one instant; a crash of the host may cost  *)
(* the part of the log that was not durable and nothing else.              *)
(***************************************************************************)
EXTENDS Naturals, Sequences

CONSTANTS Procs, Events, HostCrashes

VARIABLES
  log,      \* the events, in order
  durable,  \* length of the prefix no crash can remove
  acked,    \* events whose append was acknowledged
  view      \* what each process read last

logVars == <<log, durable, acked, view>>

LogInit ==
  /\ log = << >>
  /\ durable = 0
  /\ acked = {}
  /\ view = [p \in Procs |-> << >>]

Extend(e) ==
  /\ \A i \in 1 .. Len(log) : log[i] # e
  /\ log' = Append(log, e)
  /\ UNCHANGED <<durable, acked, view>>

Persist ==
  /\ durable' \in durable .. Len(log)
  /\ UNCHANGED <<log, acked, view>>

Acknowledge(e) ==
  /\ \E i \in 1 .. durable : log[i] = e
  /\ acked' = acked \cup {e}
  /\ UNCHANGED <<log, durable, view>>

Read(p) ==
  /\ view' = [view EXCEPT ![p] = log]
  /\ UNCHANGED <<log, durable, acked>>

Forget(p) ==
  /\ view' = [view EXCEPT ![p] = << >>]
  /\ UNCHANGED <<log, durable, acked>>

Lose ==
  /\ HostCrashes
  /\ \E n \in durable .. Len(log) :
       log' = SubSeq(log, 1, n) /\ durable' = n
  /\ UNCHANGED <<acked, view>>

LogNext ==
  \/ \E e \in Events : Extend(e) \/ Acknowledge(e)
  \/ \E p \in Procs : Read(p) \/ Forget(p)
  \/ Persist
  \/ Lose

Spec == LogInit /\ [][LogNext]_logVars
=============================================================================
