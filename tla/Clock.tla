------------------------------- MODULE Clock -------------------------------
(***************************************************************************)
(* time.time(), as far as an expiry or a lifetime is compared with it, and *)
(* the requests that live by it.                                           *)
(***************************************************************************)
EXTENDS Naturals

CONSTANTS MaxNow,     \* bound: the time at which a behaviour's clock stops
          Requests    \* slots for the requests that are being served

ASSUME MaxNowAssumption == MaxNow \in Nat

VARIABLE now

Time == 0..MaxNow

\* The clock moves on while browsers load pages and requests wait.
Tick == now < MaxNow /\ now' = now + 1
=============================================================================
