------------------------------ MODULE DrainLog ------------------------------
(***************************************************************************)
(* What the drain-job registry promises its subscribers, with no buffer,   *)
(* channel, lag or expiry: every job has one append-only history, closed   *)
(* by a terminal event, and every attached reader is sent that history     *)
(* from the start, one event at a time and in order.                       *)
(***************************************************************************)
EXTENDS Integers, Sequences

CONSTANTS
  Jobs,       \* job ids
  Readers,    \* subscribers
  Progress,   \* kinds that leave a history open
  Final       \* kinds that close it

VARIABLES
  history,    \* job -> its events so far
  attached,   \* reader -> the job it reads, or -1
  got         \* reader -> what it was sent since it attached

vars == <<history, attached, got>>

Init ==
  /\ history = [j \in Jobs |-> <<>>]
  /\ attached = [r \in Readers |-> -1]
  /\ got = [r \in Readers |-> <<>>]

Closed(j) == \E i \in 1 .. Len(history[j]) : history[j][i] \in Final

AppendEvent(j, kind) ==
  /\ ~Closed(j)
  /\ history' = [history EXCEPT ![j] = Append(@, kind)]
  /\ UNCHANGED <<attached, got>>

Attach(r, j) ==
  /\ attached[r] = -1
  /\ attached' = [attached EXCEPT ![r] = j]
  /\ UNCHANGED <<history, got>>

(* The only thing a reader is ever sent is the next event of its job.      *)
Deliver(r) ==
  /\ attached[r] # -1
  /\ Len(got[r]) < Len(history[attached[r]])
  /\ got' = [got EXCEPT ![r] = Append(@, history[attached[r]][Len(@) + 1])]
  /\ UNCHANGED <<history, attached>>

Detach(r) ==
  /\ attached' = [attached EXCEPT ![r] = -1]
  /\ got' = [got EXCEPT ![r] = <<>>]
  /\ UNCHANGED history

Next ==
  \/ \E j \in Jobs, kind \in Progress \cup Final : AppendEvent(j, kind)
  \/ \E r \in Readers, j \in Jobs : Attach(r, j)
  \/ \E r \in Readers : Deliver(r) \/ Detach(r)

Spec == Init /\ [][Next]_vars
=============================================================================
