------------------------------ MODULE RegSpace ------------------------------
(***************************************************************************)
(* What the register access functions of the xpnet driver promise to their *)
(* callers: the registers behave like an array of bytes on which every     *)
(* access, of whatever size, happens at one point in time between its call *)
(* and its return, and an access that fails to write changes nothing.      *)
(***************************************************************************)
EXTENDS Integers

CONSTANTS Threads,       \* callers
          Requests,      \* records [dir, addr, size]; dir is "w", "r" or "conf"
          Window,        \* number of bytes of registers
          HwBytes,       \* registers the device changes by itself
          InitByte(_),   \* value of a register at the start
          DataByte(_,_), \* k-th byte of the buffer of a thread
          HwByte(_),     \* value the device puts into a register
          ConfByte(_),   \* byte of the configuration space
          None

VARIABLES
  mem,    \* the registers
  call,   \* request in progress of a thread, or None
  done,   \* "no", "ok" or "fail"
  got     \* bytes that a read returned, a function on 0..size-1

vars == <<mem, call, done, got>>

Init ==
  /\ mem = [a \in 0..Window-1 |-> InitByte(a)]
  /\ call = [t \in Threads |-> None]
  /\ done = [t \in Threads |-> "no"]
  /\ got = [t \in Threads |-> None]

Call(t, r) ==
  /\ call[t] = None
  /\ call' = [call EXCEPT ![t] = r]
  /\ UNCHANGED <<mem, done, got>>

Pending(t) == call[t] # None /\ done[t] = "no"

Write(t) ==
  /\ Pending(t)
  /\ call[t].dir = "w"
  /\ mem' = [a \in 0..Window-1 |->
               IF a \in call[t].addr..call[t].addr + call[t].size - 1
               THEN DataByte(t, a - call[t].addr) ELSE mem[a]]
  /\ done' = [done EXCEPT ![t] = "ok"]
  /\ UNCHANGED <<call, got>>

Read(t) ==
  /\ Pending(t)
  /\ call[t].dir \in {"r", "conf"}
  /\ got' = [got EXCEPT ![t] = [k \in 0..call[t].size-1 |->
               LET a == call[t].addr + k
               IN IF call[t].dir = "conf" THEN ConfByte(a) ELSE mem[a]]]
  /\ done' = [done EXCEPT ![t] = "ok"]
  /\ UNCHANGED <<mem, call>>

\* An access fails without effect, or the result of a read cannot be delivered.
Fail(t) ==
  /\ \/ Pending(t)
     \/ call[t] # None /\ done[t] = "ok" /\ call[t].dir # "w"
  /\ done' = [done EXCEPT ![t] = "fail"]
  /\ got' = [got EXCEPT ![t] = None]
  /\ UNCHANGED <<mem, call>>

Return(t) ==
  /\ call[t] # None
  /\ done[t] # "no"
  /\ call' = [call EXCEPT ![t] = None]
  /\ done' = [done EXCEPT ![t] = "no"]
  /\ got' = [got EXCEPT ![t] = None]
  /\ UNCHANGED mem

Hardware(a) ==
  /\ mem' = [mem EXCEPT ![a] = HwByte(a)]
  /\ UNCHANGED <<call, done, got>>

Next ==
  \/ \E t \in Threads : \/ \E r \in Requests : Call(t, r)
                        \/ Write(t) \/ Read(t) \/ Fail(t) \/ Return(t)
  \/ \E a \in HwBytes : Hardware(a)

Spec == Init /\ [][Next]_vars

=============================================================================
