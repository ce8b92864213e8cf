--------------------------- MODULE OneShotResult ---------------------------
(***************************************************************************)
(* What the loopback flow promises its caller (spec 4.3, 5 and 9): a       *)
(* single-use result slot.  Senders present credentials at any time; the   *)
(* slot is filled exactly once, with a token only from a sender whose      *)
(* credentials were authentic, or with an error or the timeout; once       *)
(* filled it never changes.  The wait is bounded: the slot is eventually   *)
(* filled.                                                                 *)
(***************************************************************************)
CONSTANTS
    Sender,    \* who may present a credential
    NoSender   \* the sender of an error or timeout no sender produced

VARIABLES
    outcome,   \* [kind, from]: the slot; kind "none" while empty
    eligible   \* senders that have presented an authentic credential

avars == <<outcome, eligible>>

Empty == [kind |-> "none", from |-> NoSender]

OInit ==
    /\ outcome = Empty
    /\ eligible = {}

(* A sender presents an authentic credential; late ones are still          *)
(* admitted, they just cannot change a filled slot.                       *)
Admit(s) ==
    /\ eligible' = eligible \cup {s}
    /\ UNCHANGED outcome

(* The slot is filled, once.                                               *)
Decide ==
    /\ outcome = Empty
    /\ \/ \E s \in eligible : outcome' = [kind |-> "token", from |-> s]
       \/ \E k \in {"error", "timeout"} : outcome' = [kind |-> k, from |-> NoSender]
    /\ UNCHANGED eligible

ONext == (\E s \in Sender : Admit(s)) \/ Decide

(* The safety part alone, which TLAPS can prove an implementation of.     *)
SafeSpec == OInit /\ [][ONext]_avars

OSpec == SafeSpec /\ WF_avars(Decide)

=============================================================================
