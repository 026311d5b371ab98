---------------------------- MODULE ImageSource ----------------------------
(***************************************************************************)
(* The ImageSource contract that DmgSource serves: threads read a fixed    *)
(* byte stream at offsets of their own.  A call is answered with as many   *)
(* bytes as its window has on the disk, each one that the disk holds at    *)
(* that place, or fails whole; what one thread asks never shows in the     *)
(* answer of another.  An intact disk holds one byte at each place and     *)
(* refuses no read; a damaged one may hold several, or none that is known. *)
(***************************************************************************)
EXTENDS MachineInts, DiskBytes

CONSTANTS Threads, Offsets, BufLens

VARIABLES
  disk,      \* [size, bytes : 0..size-1 -> SUBSET Cell, intact], the same forever
  pending,   \* the threads inside read_at
  args,      \* args[t]: [offset, len] of t's last call
  answer,    \* answer[t]: [status, n], once t's call is answered
  data       \* data[t]: t's buffer, untouched until the call is answered

vars == <<disk, pending, args, answer, data>>

Init ==
  /\ pending = {}
  /\ args = [t \in Threads |-> [offset |-> 0, len |-> 0]]
  /\ answer = [t \in Threads |-> [status |-> "none", n |-> 0]]
  /\ data = [t \in Threads |-> UntouchedBuffer(0)]

Calls(t) ==
  /\ t \notin pending
  /\ pending' = pending \cup {t}
  /\ \E offset \in Offsets, len \in BufLens :
       /\ args' = [args EXCEPT ![t] = [offset |-> offset, len |-> len]]
       /\ data' = [data EXCEPT ![t] = UntouchedBuffer(len)]
  /\ answer' = [answer EXCEPT ![t] = [status |-> "none", n |-> 0]]
  /\ UNCHANGED disk

Answers(t) ==
  LET offset == args[t].offset
      len == args[t].len
      n == Lesser(len, SatSub(disk.size, offset))
  IN  /\ t \in pending
      /\ pending' = pending \ {t}
      /\ answer' = [answer EXCEPT ![t] = [status |-> "ok", n |-> n]]
      /\ DOMAIN data'[t] = 1..len
      /\ \A i \in 1..len :
           data'[t][i] \in IF i <= n THEN disk.bytes[offset + i - 1] ELSE {StaleByte}
      /\ \A u \in Threads \ {t} : data'[u] = data[u]
      /\ UNCHANGED <<disk, args>>

Fails(t) ==
  /\ t \in pending
  /\ pending' = pending \ {t}
  /\ \E status \in {"io", "decoder_panic"} \cup {s \in {"err"} : ~disk.intact} :
       answer' = [answer EXCEPT ![t] = [status |-> status, n |-> 0]]
  /\ \A u \in Threads \ {t} : data'[u] = data[u]
  /\ UNCHANGED <<disk, args>>

Next == \E t \in Threads : Calls(t) \/ Answers(t) \/ Fails(t)

Spec == Init /\ [][Next]_vars
=============================================================================
