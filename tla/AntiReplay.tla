----------------------------- MODULE AntiReplay -----------------------------
(***************************************************************************)
(* Sequence numbers in software in the IPsec security gateway: the sender  *)
(* numbers its packets (applications/ipsec_security_gw/flow_encrypt.c),    *)
(* the receiver keeps an anti-replay window (flow_decrypt.c).  Each rule   *)
(* has a state of its own and belongs to one core, so one rule is enough.  *)
(*                                                                         *)
(* The network between the gateways is external: it loses, delays,         *)
(* reorders and duplicates packets.  The bitmap is the set of its bits,    *)
(* the lowest sequence number at bit 0.  Numbers are unsigned and wrap at  *)
(* SnMod, which is 2^32 in the code.                                       *)
(***************************************************************************)
EXTENDS Integers

CONSTANTS
    Window,  \* WINDOW_SIZE, also the number of bits of the bitmap
    SnMod    \* how many sequence numbers there are

ASSUME AntiReplayAssumption ==
    Window \in Nat \ {0} /\ SnMod \in Nat /\ SnMod > Window

VARIABLES
    sn_initial,  \* app_cfg->sn_initial
    current_sn,  \* the sender's rule->current_sn
    sent,        \* the sequence numbers of the packets sent so far
    end_win_sn,  \* the receiver's antireplay_state
    bitmap,
    passed       \* how many packets with each number anti_replay let through

arVars == <<sn_initial, current_sn, sent, end_win_sn, bitmap, passed>>

Sn == 0 .. SnMod - 1

(* parse_sn_initial refuses a number too close to the maximum. *)
InitialOk(n) == n \in Sn /\ SnMod - 1 - n >= Window

(* sw_handling_sn_inc and sw_handling_antireplay. *)
ArInit ==
    /\ sn_initial \in {n \in Sn : InitialOk(n)}
    /\ current_sn = sn_initial
    /\ sent = {}
    /\ end_win_sn = (sn_initial + Window - 1) % SnMod
    /\ bitmap = {}
    /\ passed = [n \in Sn |-> 0]

(* handle_unsecured_packets_received: the packet gets the rule's number.   *)
(* A packet that cannot be prepared is dropped without using a number.     *)
Send ==
    /\ sent' = sent \cup {current_sn}
    /\ current_sn' = (current_sn + 1) % SnMod
    /\ UNCHANGED <<sn_initial, end_win_sn, bitmap, passed>>

-----------------------------------------------------------------------------
(* anti_replay *)

(* The first number in the window. *)
BegWin == (end_win_sn + 1 - Window) % SnMod

TooOld(sn) == sn < BegWin
InWindow(sn) == ~ TooOld(sn) /\ sn <= end_win_sn
Seen(sn) == sn - BegWin \in bitmap

(* The cases that leave *drop set. *)
Drop(sn) == TooOld(sn) \/ (InWindow(sn) /\ Seen(sn))

(* *bitmap >> diff *)
ShiftRight(bits, diff) == {b - diff : b \in {c \in bits : c >= diff}}

(* Mutants of Moved: the marks stay where they are, or are all cleared. *)
MutantNoShift(diff) == bitmap \cup {Window - 1}
MutantForget(diff) == {Window - 1}

(* The bitmap when the window moves by diff. *)
Moved(diff) ==
    (IF diff >= Window THEN {} ELSE ShiftRight(bitmap, diff)) \cup {Window - 1}

anti_replay(sn) ==
    \/ /\ Drop(sn)
       /\ UNCHANGED <<end_win_sn, bitmap, passed>>
    \/ /\ InWindow(sn) /\ ~ Seen(sn)
       /\ bitmap' = bitmap \cup {sn - BegWin}
       /\ passed' = [passed EXCEPT ![sn] = @ + 1]
       /\ UNCHANGED end_win_sn
    \/ /\ sn > end_win_sn /\ ~ TooOld(sn)
       /\ bitmap' = Moved(sn - end_win_sn)
       /\ passed' = [passed EXCEPT ![sn] = @ + 1]
       /\ end_win_sn' = sn

(* handle_secured_packets_received, for a packet of the other gateway: the *)
(* decapsulation after it changes no state.                                *)
Receive(sn) ==
    /\ sn \in sent
    /\ anti_replay(sn)
    /\ UNCHANGED <<sn_initial, current_sn, sent>>

ArNext == Send \/ (\E sn \in Sn : Receive(sn))

ArSpec == ArInit /\ [][ArNext]_arVars

-----------------------------------------------------------------------------
(* Properties *)

\* The type invariant of struct antireplay_state; bits beyond the window are
\* never set.
ArTypeOK ==
    /\ sn_initial \in Sn /\ current_sn \in Sn /\ sent \subseteq Sn
    /\ end_win_sn \in Sn
    /\ bitmap \subseteq 0 .. Window - 1
    /\ passed \in [Sn -> Nat]

\* No replay: however the network repeats and reorders packets and however the
\* window slides in between, a sequence number passes anti_replay at most once.
NoReplay == \A sn \in Sn : passed[sn] <= 1

(* sn has been left behind by the whole window. *)
LeftBehind(sn) == sn < sn_initial \/ \E m \in Sn : passed[m] > 0 /\ m - sn >= Window

\* The other half of the comment above anti_replay: a packet is dropped only if
\* its number passed before, or is a whole window behind one that passed.
OnlyStaleDropped == \A sn \in Sn : Drop(sn) => passed[sn] > 0 \/ LeftBehind(sn)

-----------------------------------------------------------------------------
(* The inductive invariant behind NoReplay and OnlyStaleDropped. *)

(* What passed is not above the window and, inside it, is marked. *)
Marked ==
    \A sn \in Sn : passed[sn] > 0 => sn <= end_win_sn /\ (TooOld(sn) \/ Seen(sn))

(* A marked number passed. *)
Honest == \A sn \in Sn : InWindow(sn) /\ Seen(sn) => passed[sn] > 0

(* The window is where it began, or ends with a number that passed. *)
Anchored ==
    /\ end_win_sn >= Window - 1
    /\ end_win_sn = sn_initial + Window - 1 \/ passed[end_win_sn] > 0

ArInv == ArTypeOK /\ NoReplay /\ Marked /\ Honest /\ Anchored
=============================================================================
